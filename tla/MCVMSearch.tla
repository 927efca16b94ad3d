------------------------------ MODULE MCVMSearch ------------------------------
(* VMSearch for TLC: two vCenters, with four datacenters in all. *)
EXTENDS VMSearch, TLC

CONSTANTS v1, v2, d1, d2, d3, d4

MCVCs == {v1, v2}
MCDCs == v1 :> {d1, d2} @@ v2 :> {d3, d4}
=============================================================================
