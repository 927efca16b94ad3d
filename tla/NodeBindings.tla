---------------------------- MODULE NodeBindings ----------------------------
(***************************************************************************)
(* What the node cache implements: a set of node bindings <<uuid, name>>   *)
(* in which no uuid and no name occurs twice, and in which a step touches  *)
(* one node only.  A node whose uuid is known may be renamed to a name     *)
(* that is free; two known nodes are never merged; a binding is removed as *)
(* a whole.                                                                *)
(***************************************************************************)
CONSTANTS UUIDs, Names

VARIABLE bindings

FreeUUID(u) == \A b \in bindings : b[1] # u

FreeName(n) == \A b \in bindings : b[2] # n

Init == bindings = {}

(* A new node, or a known one under another name: "If the node UUID        *)
(* already exists in the Cache, the name associated with it is updated."   *)
Bind(u, n) == /\ FreeName(n)
              /\ bindings' = {b \in bindings : b[1] # u} \cup {<<u, n>>}

(* A known name gets a new uuid.  The comment on Store has this refused    *)
(* ("Return an error if there exists a node with the same name but         *)
(* different UUID"); the code refuses it only for a uuid that is known too. *)
Rebind(u, n) == /\ FreeUUID(u)
                /\ bindings' = {b \in bindings : b[2] # n} \cup {<<u, n>>}

Unbind(b) == bindings' = bindings \ {b}

Next == \/ \E u \in UUIDs, n \in Names : Bind(u, n) \/ Rebind(u, n)
        \/ \E b \in bindings : Unbind(b)

Spec == Init /\ [][Next]_bindings
=============================================================================
