------------------------------- MODULE Command -------------------------------
(***************************************************************************)
(* The replicated command of fsm.go and what one committed command does to *)
(* a Badger database.  Commands are blind writes: ApplyTxn never looks at  *)
(* what it overwrites.  Everything here is constant level; the state       *)
(* machines that move commands around are in other modules.                *)
(*                                                                         *)
(* Keys and values are opaque.  A database is a total function from keys:  *)
(* Absent is a key that was never written or was deleted.                  *)
(***************************************************************************)
EXTENDS Naturals, Sequences

CONSTANTS Key, Value, Absent,
          TicksPerSecond      \* resolution of the wall clock under time.Time

ASSUME ClockAssumption == TicksPerSecond \in Nat \ {0}

(* What Badger stores under a key: a value and an absolute expiry, 0 for   *)
(* a key that persists for ever.                                           *)
Entry == [value : Value, expiresAt : Nat]

ASSUME AbsentIsNoEntry == Absent \notin Entry

State == [Key -> Entry \cup {Absent}]

EmptyState == [k \in Key |-> Absent]

(* pairs gives each key the entry it is set to, Absent for a key that is   *)
(* not set (no command names a key twice, see Requests); deletes is the    *)
(* set of keys deleted.                                                    *)
Command == [pairs : [Key -> Entry \cup {Absent}], deletes : SUBSET Key]

SetKeys(pairs) == {k \in Key : pairs[k] # Absent}

SetPairs(st, pairs) ==
  [k \in Key |-> IF k \in SetKeys(pairs) THEN pairs[k] ELSE st[k]]

DeleteKeys(st, keys) ==
  [k \in Key |-> IF k \in keys THEN Absent ELSE st[k]]

(* The body of fsm.Apply's badger.Update: all sets, then all deletes, in   *)
(* one transaction.                                                        *)
ApplyTxn(st, cmd) == DeleteKeys(SetPairs(st, cmd.pairs), cmd.deletes)

(* time.Time.Unix drops the fraction of the second.                        *)
Unix(t) == t \div TicksPerSecond

(* Mutant of AbsExpiry: the fraction is rounded up.                        *)
AbsExpiryRoundedUp(t, ttl) == IF ttl = 0 THEN 0 ELSE Unix(t + ttl) + 1

(* The expiry stamped at tick t for a relative ttl; a ttl of 0 persists.   *)
AbsExpiry(t, ttl) == IF ttl = 0 THEN 0 ELSE Unix(t + ttl)

(* badger's rule for a read at tick t: an expired entry is a missing one.  *)
Visible(entry, t) ==
  /\ entry # Absent
  /\ entry.expiresAt = 0 \/ entry.expiresAt > Unix(t)

-----------------------------------------------------------------------------
(* Reference definitions: what a log prefix amounts to, key by key, without *)
(* replaying it.                                                            *)

Writes(cmd) == SetKeys(cmd.pairs) \cup cmd.deletes

Effect(cmd, k) == IF k \in cmd.deletes THEN Absent ELSE cmd.pairs[k]

(* j is the last of the first i entries of log that writes k; 0 if none.   *)
IsLastWrite(log, i, k, j) ==
  /\ j \in 0..i
  /\ j # 0 => k \in Writes(log[j])
  /\ \A m \in (j + 1)..i : k \notin Writes(log[m])

LastWrite(log, i, k) == CHOOSE j \in 0..i : IsLastWrite(log, i, k, j)

(* What entry j of log leaves under k; entry 0 is the empty database.      *)
EffectAt(log, j, k) == IF j = 0 THEN Absent ELSE Effect(log[j], k)

(* The database after the first i entries of log.                          *)
StateAt(log, i) == [k \in Key |-> EffectAt(log, LastWrite(log, i, k), k)]
=============================================================================
