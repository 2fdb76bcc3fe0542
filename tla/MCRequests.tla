----------------------------- MODULE MCRequests -----------------------------
(* A small instance of Requests for TLC: every batch of up to three of nine *)
(* mutations, Sets at every tick of a second with every short TTL, reads    *)
(* with every sign of timeout, and scans of every small database.           *)
EXTENDS Requests, Integers, TLC

CONSTANTS a, b, c, v1, v2

MCKey == {a, b, c}
MCValue == {v1, v2}
MCOrder == <<a, b, c>>

TTL(n) == [known |-> TRUE, ttl |-> n]
Alien == [known |-> FALSE, ttl |-> 1]

SetOp(k, v, opts) == [kind |-> "set", key |-> k, value |-> v, opts |-> opts]
DeleteOp(k) == [kind |-> "delete", key |-> k, value |-> v1, opts |-> <<>>]
Malformed == [kind |-> "none", key |-> a, value |-> v1, opts |-> <<>>]

Mutations ==
  {SetOp(a, v1, <<>>), SetOp(a, v2, <<TTL(-1), TTL(4)>>), SetOp(b, v1, <<TTL(0)>>),
   SetOp(b, v2, <<>>), SetOp(EmptyKey, v1, <<>>), SetOp(c, v1, <<TTL(4), Alien>>),
   DeleteOp(a), DeleteOp(b), Malformed}

BatchCalls ==
  [op : {"batch"}, open : BOOLEAN, mutations : SeqOf(Mutations, 3), at : {4}]

SetCalls ==
  [op : {"set"}, key : {a, EmptyKey}, value : {v1}, at : 4..7,
   opts : {<<>>, <<Alien>>} \cup {<<TTL(n)>> : n \in -1..9} \cup {<<TTL(n), TTL(3)>> : n \in {-1, 5}}]

DeleteCalls == [op : {"delete"}, key : {a, EmptyKey}]

(* Present, expired and missing entries, prefixes that select a run of      *)
(* keys, limits on both sides of the default and of the number of keys.     *)
ScanCalls ==
  LET entries == {[value |-> v1, expiresAt |-> 0], [value |-> v1, expiresAt |-> 1], Absent}
  IN [op : {"scan"}, state : [Key -> entries], at : {4}, limit : -1..4, unlimited : BOOLEAN,
      prefix : {{}, {a}, {b}, {c}, {a, b}, {b, c}, {a, b, c}},
      mode : {"linearizable", "local"}, timeout : {-1, 0, 2}, applyTimeout : {0, 1}]

GetCalls ==
  [op : {"get"}, key : {a, EmptyKey}, mode : {"linearizable", "local", "other"},
   timeout : -1..2, applyTimeout : -1..2]

MCCalls == GetCalls \cup BatchCalls \cup SetCalls \cup DeleteCalls \cup ScanCalls
=============================================================================
