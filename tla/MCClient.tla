------------------------------ MODULE MCClient ------------------------------
(* A small instance of Client for TLC.                                      *)
EXTENDS Client, TLC

CONSTANTS n1, n2, a, v1, w1, r1, m1, m2

Put == [pairs |-> a :> [value |-> v1, ttl |-> 0], deletes |-> {}]
MCRequest == {Put}
MCReqOf == [c \in Write |-> Put]
MCKeyOf == [c \in Read |-> a]
MCAddOf == [c \in Change |-> c = m2]
MCServerOf == [c \in Change |-> n2]
=============================================================================
