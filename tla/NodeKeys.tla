------------------------------- MODULE NodeKeys -------------------------------
(***************************************************************************)
(* What the maps of package node (pkg/common/cns-lib/node) are keyed by:   *)
(* the names of the cluster's nodes and the UUIDs of their VMs.            *)
(***************************************************************************)
CONSTANTS Names, UUIDs
===============================================================================
