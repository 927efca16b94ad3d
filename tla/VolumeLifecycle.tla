---------------------------- MODULE VolumeLifecycle ----------------------------
(***************************************************************************)
(* What the node service promises of a volume on its node: a mounted       *)
(* volume is published only while it is staged, and is not unstaged while  *)
(* it is published.  A block volume is published without being staged.     *)
(***************************************************************************)
CONSTANT Targets            \* the target paths of the pods that use the volume

VARIABLES access,           \* access type: "mount" or "block"
          staged,           \* "yes" if the volume is mounted to its staging path
          published         \* the targets it is mounted to

vars == <<access, staged, published>>

Init == access \in {"mount", "block"} /\ staged = "no" /\ published = {}

Stage == /\ access = "mount" /\ staged' = "yes"
         /\ UNCHANGED <<access, published>>

Unstage == /\ published = {} /\ staged' = "no"
           /\ UNCHANGED <<access, published>>

Publish(t) == /\ access = "block" \/ staged = "yes"
              /\ published' = published \cup {t}
              /\ UNCHANGED <<access, staged>>

Unpublish(t) == /\ published' = published \ {t}
                /\ UNCHANGED <<access, staged>>

(* The node starts again without its mounts. *)
Reboot == /\ staged' = "no" /\ published' = {}
          /\ UNCHANGED access

Next == \/ Stage \/ Unstage \/ Reboot
        \/ \E t \in Targets : Publish(t) \/ Unpublish(t)

Spec == Init /\ [][Next]_vars
=============================================================================
