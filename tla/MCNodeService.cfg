SPECIFICATION LiveSpec
CONSTANTS
    Targets = {t1, t2}
    Staging = Staging
    NoPath = NoPath
    Slots = {s1, s2}
    MaxAttach = 2
    MaxChanges = 3
    MaxFaults = 1
INVARIANTS NothingForgotten
PROPERTIES Implements PublishedAsAsked TeardownEnds SetupEnds
CHECK_DEADLOCK FALSE
