------------------------------- MODULE MCHub -------------------------------
(***************************************************************************)
(* Small instances of Hub: one host with two devices; one request accepts  *)
(* either of them, the other asks for one udid, so that the two compete.   *)
(***************************************************************************)
EXTENDS Hub

CONSTANTS n1, d1, d2, r1, r2, k1

OneHost == [d \in Devices |-> n1]
AnyOrFirst == [r \in Requests |-> IF r = r1 THEN Devices ELSE {d1}]
=============================================================================
