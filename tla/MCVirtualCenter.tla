---------------------------- MODULE MCVirtualCenter ----------------------------
(* VirtualCenter for TLC. *)
EXTENDS VirtualCenter
=============================================================================
