--------------------------- MODULE CommandProofs ---------------------------
(***************************************************************************)
(* Facts about the operators of Command that several proofs need.          *)
(***************************************************************************)
EXTENDS Command, TLAPS

(* What one command leaves under each key: its own effect on the keys it   *)
(* writes, the old entry elsewhere (fsm.Apply's transaction).              *)
LEMMA ApplyTxnEffect ==
  ASSUME NEW st \in State, NEW cmd \in Command
  PROVE  /\ ApplyTxn(st, cmd) \in State
         /\ \A k \in Key : ApplyTxn(st, cmd)[k] =
              IF k \in Writes(cmd) THEN Effect(cmd, k) ELSE st[k]
<1>1. SetPairs(st, cmd.pairs) \in State
  BY DEF SetPairs, SetKeys, State, Command
<1>2. QED
  BY <1>1 DEF ApplyTxn, DeleteKeys, SetPairs, SetKeys, State, Command, Writes, Effect

(* absExpiry yields a timestamp.                                           *)
LEMMA AbsExpiryType ==
  ASSUME NEW t \in Nat, NEW ttl \in Nat
  PROVE  AbsExpiry(t, ttl) \in Nat
BY ClockAssumption DEF AbsExpiry, Unix

(* The clock in whole seconds.                                             *)
LEMMA UnixBounds ==
  ASSUME NEW t \in Nat
  PROVE  /\ Unix(t) \in Nat
         /\ TicksPerSecond * Unix(t) <= t
         /\ t < TicksPerSecond * Unix(t) + TicksPerSecond
BY ClockAssumption DEF Unix

LEMMA UnixOrder ==
  ASSUME NEW s \in Nat, NEW t \in Nat
  PROVE  /\ s <= t => Unix(s) <= Unix(t)
         /\ s + TicksPerSecond <= t => Unix(s) < Unix(t)
         /\ t >= TicksPerSecond => Unix(t) > 0
<1> DEFINE T == TicksPerSecond
           a == Unix(s)
           b == Unix(t)
<1>1. T \in Nat /\ T > 0
  BY ClockAssumption
<1>2. /\ a \in Nat /\ T * a <= s /\ s < T * a + T
      /\ b \in Nat /\ T * b <= t /\ t < T * b + T
  BY UnixBounds
<1> HIDE DEF T, a, b
<1>3. \A x, y \in Nat : x < y => T * x + T <= T * y
  <2>1. SUFFICES ASSUME NEW x \in Nat, NEW y \in Nat, x < y PROVE T * x + T <= T * y
    OBVIOUS
  <2>2. PICK d \in Nat : y = x + 1 + d
    <3>1. y - x - 1 \in Nat /\ y = x + 1 + (y - x - 1)
      BY <2>1
    <3>2. QED
      BY <3>1
  <2>3. T * y = T * x + T + T * d /\ T * d >= 0 /\ T * x \in Nat /\ T * d \in Nat
    BY <1>1, <2>2
  <2>4. QED
    BY <1>1, <2>3
<1>4. T * a \in Nat /\ T * b \in Nat /\ T * 0 = 0
  BY <1>1, <1>2
<1>5. s <= t => a <= b
  <2>1. SUFFICES ASSUME s <= t, b < a PROVE FALSE
    BY <1>2
  <2>2. T * b + T <= T * a
    BY <1>2, <1>3, <2>1
  <2>3. QED
    BY <1>1, <1>2, <1>4, <2>1, <2>2
<1>6. s + T <= t => a < b
  <2>1. SUFFICES ASSUME s + T <= t, b <= a PROVE FALSE
    BY <1>2
  <2>2. T * b <= T * a
    <3>1. CASE b = a
      BY <1>4, <3>1
    <3>2. CASE b < a
      BY <1>1, <1>2, <1>3, <1>4, <3>2
    <3>3. QED
      BY <1>2, <2>1, <3>1, <3>2
  <2>3. QED
    BY <1>1, <1>2, <1>4, <2>1, <2>2
<1>7. t >= T => b > 0
  <2>1. SUFFICES ASSUME t >= T, b = 0 PROVE FALSE
    BY <1>2
  <2>2. QED
    BY <1>1, <1>2, <1>4, <2>1
<1>8. QED
  BY <1>5, <1>6, <1>7 DEF T, a, b
=============================================================================
