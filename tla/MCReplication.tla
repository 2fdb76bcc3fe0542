--------------------------- MODULE MCReplication ---------------------------
(* Small instances of Replication for TLC.                                  *)
EXTENDS Replication, TLC

CONSTANTS n1, n2, a, b, v1, v2

OneNode == {n1}
TwoNodes == {n1, n2}
NodeSymmetry == Permutations(TwoNodes)
MCKey == {a, b}
MCValue == {v1, v2}

Put(key, val, ttl) == key :> [value |-> val, ttl |-> ttl]
Batch(pairs, dels) == [pairs |-> pairs @@ EmptyState, deletes |-> dels]

(* A persistent Set, a Set with a TTL of the same key, and a batch that     *)
(* sets the other key and deletes the first one.                            *)
MixedRequests ==
  {Batch(Put(a, v1, 0), {}), Batch(Put(a, v2, 1), {}), Batch(Put(b, v1, 0), {a})}

(* A single-key Set and a batch that overwrites it.                         *)
OverlapRequests ==
  {Batch(Put(a, v1, 0), {}), Batch(Put(a, v2, 0) @@ Put(b, v2, 0), {})}
=============================================================================
