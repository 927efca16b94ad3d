SPECIFICATION Spec
CONSTANTS
    WithEquals = {"p=w"}
    Numbers = {"443"}
    MaxCalls = 2
    MaxFaults = 1
    Setups <- MCSetups
INVARIANTS TypeOK ConfigSound NothingLeft NoLonePanic
PROPERTIES LoneCallAnswers CallsEnd
CHECK_DEADLOCK FALSE
