------------------------------- MODULE MCGrid -------------------------------
(* Small instances of Grid: requests that compete for the device of a host. *)
EXTENDS Grid

CONSTANTS n1, d1, d2, r1, r2, r3, k1, k2

OneHost == [d \in Devices |-> n1]
Any == [r \in Requests |-> Devices]

=============================================================================
