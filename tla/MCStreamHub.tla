---------------------------- MODULE MCStreamHub ----------------------------
(* Small instances of StreamHub: clients of different users at one device. *)
EXTENDS StreamHub

CONSTANTS d1, c1, c2, c3, u1, u2

SameDevice == [c \in Clients |-> d1]
TwoUsers == [c \in Clients |-> IF c = c1 THEN u1 ELSE u2]
=============================================================================
