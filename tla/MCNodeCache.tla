----------------------------- MODULE MCNodeCache -----------------------------
(* Two or three nodes are enough for a Store to meet a conflict on either  *)
(* key, on both, and to leave an unrelated node alone.                     *)
EXTENDS NodeCache
=============================================================================
