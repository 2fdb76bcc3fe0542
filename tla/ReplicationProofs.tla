------------------------- MODULE ReplicationProofs -------------------------
(***************************************************************************)
(* Proofs about Replication for every set of nodes, keys, values and       *)
(* requests and all bounds.                                                *)
(***************************************************************************)
EXTENDS Replication, CommandProofs, Recursion, TLAPS

(* Stamping a request makes it a command.                                  *)
LEMMA StampType ==
  ASSUME NEW req \in Request, NEW t \in Nat
  PROVE  Stamp(req, t) \in Command
<1>1. req \in RequestType
  BY ReplicationAssumption
<1>2. ASSUME NEW k \in SetKeys(req.pairs)
      PROVE  [value |-> req.pairs[k].value,
              expiresAt |-> AbsExpiry(t, req.pairs[k].ttl)] \in Entry
  <2>1. req.pairs[k] \in [value : Value, ttl : Nat]
    BY <1>1, <1>2 DEF RequestType, SetKeys
  <2>2. QED
    BY <2>1, AbsExpiryType DEF Entry
<1>3. [k \in Key |->
         IF k \in SetKeys(req.pairs)
         THEN [value |-> req.pairs[k].value,
               expiresAt |-> AbsExpiry(t, req.pairs[k].ttl)]
         ELSE Absent] \in [Key -> Entry \cup {Absent}]
  BY <1>2
<1>4. QED
  BY <1>1, <1>3 DEF Stamp, Command, RequestType

-----------------------------------------------------------------------------
(* Lemmas about Covers, one for each thing that can happen to a database   *)
(* or to the log under it.                                                 *)

(* Covering less of the log, with more allowances, is weaker.              *)
LEMMA CoversWeaken ==
  ASSUME NEW lg, NEW c, NEW a \in Nat, NEW h \in Nat, NEW M,
         NEW a2 \in Nat, NEW h2 \in Nat, NEW M2,
         Covers(lg, c, a, h, M), a2 <= a, h <= h2, M \subseteq M2
  PROVE  Covers(lg, c, a2, h2, M2)
<1> SUFFICES ASSUME NEW k \in Key
             PROVE  \E j \in 0..h2 : From(lg, c, a2, M2, k, j)
  BY DEF Covers
<1>1. PICK j \in 0..h : From(lg, c, a, M, k, j)
  BY DEF Covers
<1>2. j \in 0..h2
  OBVIOUS
<1>3. From(lg, c, a2, M2, k, j)
  BY <1>1 DEF From
<1>4. QED
  BY <1>2, <1>3

(* A successful Apply of entry a + 1.                                      *)
LEMMA CoversApply ==
  ASSUME NEW lg \in Seq(Command), NEW c \in State, NEW a \in Nat, NEW h \in Nat, NEW M,
         Covers(lg, c, a, h, M), a < Len(lg)
  PROVE  Covers(lg, ApplyTxn(c, lg[a + 1]), a + 1, Later(h, a + 1), M)
<1> DEFINE d == ApplyTxn(c, lg[a + 1])
<1> SUFFICES ASSUME NEW k \in Key
             PROVE  \E j \in 0..Later(h, a + 1) : From(lg, d, a + 1, M, k, j)
  BY DEF Covers
<1>1. lg[a + 1] \in Command
  OBVIOUS
<1>2. d[k] = IF k \in Writes(lg[a + 1]) THEN Effect(lg[a + 1], k) ELSE c[k]
  BY <1>1, ApplyTxnEffect
<1> HIDE DEF d
<1>3. CASE k \in Writes(lg[a + 1])
  <2>1. a + 1 \in 0..Later(h, a + 1)
    BY DEF Later
  <2>2. From(lg, d, a + 1, M, k, a + 1)
    BY <1>2, <1>3 DEF From, EffectAt
  <2>3. QED
    BY <2>1, <2>2
<1>4. CASE k \notin Writes(lg[a + 1])
  <2>1. PICK j \in 0..h : From(lg, c, a, M, k, j)
    BY DEF Covers
  <2>2. j \in 0..Later(h, a + 1)
    BY DEF Later
  <2>3. From(lg, d, a + 1, M, k, j)
    BY <1>2, <1>4, <2>1 DEF From
  <2>4. QED
    BY <2>2, <2>3
<1>5. QED
  BY <1>3, <1>4

(* A failed Apply of entry a + 1.                                          *)
LEMMA CoversMiss ==
  ASSUME NEW lg, NEW c, NEW a \in Nat, NEW h \in Nat, NEW M,
         Covers(lg, c, a, h, M)
  PROVE  Covers(lg, c, a + 1, h, M \cup {a + 1})
<1> SUFFICES ASSUME NEW k \in Key
             PROVE  \E j \in 0..h : From(lg, c, a + 1, M \cup {a + 1}, k, j)
  BY DEF Covers
<1>1. PICK j \in 0..h : From(lg, c, a, M, k, j)
  BY DEF Covers
<1>2. From(lg, c, a + 1, M \cup {a + 1}, k, j)
  BY <1>1 DEF From
<1>3. QED
  BY <1>2

(* A database that holds nothing.                                          *)
LEMMA CoversEmpty ==
  ASSUME NEW lg, NEW a \in Nat, NEW h \in Nat
  PROVE  Covers(lg, EmptyState, a, h, 1..a)
<1> SUFFICES ASSUME NEW k \in Key
             PROVE  \E j \in 0..h : From(lg, EmptyState, a, 1..a, k, j)
  BY DEF Covers
<1>1. From(lg, EmptyState, a, 1..a, k, 0)
  BY DEF From, EmptyState, EffectAt
<1>2. QED
  BY <1>1

(* A process that exits: Raft will replay from the start or from a         *)
(* snapshot, and owes the database nothing yet.                            *)
LEMMA CoversRestart ==
  ASSUME NEW lg, NEW c, NEW a \in Nat, NEW h \in Nat, NEW M,
         Covers(lg, c, a, h, M)
  PROVE  Covers(lg, c, 0, h, {})
<1> SUFFICES ASSUME NEW k \in Key
             PROVE  \E j \in 0..h : From(lg, c, 0, {}, k, j)
  BY DEF Covers
<1>1. PICK j \in 0..h : From(lg, c, a, M, k, j)
  BY DEF Covers
<1>2. From(lg, c, 0, {}, k, j)
  BY <1>1 DEF From
<1>3. QED
  BY <1>2

(* A log that grows.                                                       *)
LEMMA CoversAppend ==
  ASSUME NEW lg \in Seq(Command), NEW cmd \in Command, NEW c,
         NEW a \in Nat, NEW h \in Nat, NEW M,
         Covers(lg, c, a, h, M), a <= Len(lg), h <= Len(lg)
  PROVE  Covers(Append(lg, cmd), c, a, h, M)
<1> SUFFICES ASSUME NEW k \in Key
             PROVE  \E j \in 0..h : From(Append(lg, cmd), c, a, M, k, j)
  BY DEF Covers
<1>1. PICK j \in 0..h : From(lg, c, a, M, k, j)
  BY DEF Covers
<1>2. \A i \in 1..Len(lg) : Append(lg, cmd)[i] = lg[i]
  OBVIOUS
<1>3. From(Append(lg, cmd), c, a, M, k, j)
  BY <1>1, <1>2 DEF From, EffectAt
<1>4. QED
  BY <1>3

-----------------------------------------------------------------------------
(* Type correctness.                                                       *)

LEMMA EmptyStateType == EmptyState \in State
BY DEF EmptyState, State

LEMMA NewestType ==
  ASSUME NEW old \in Snapshot, NEW new \in Snapshot
  PROVE  Newest(old, new) \in Snapshot
BY DEF Newest

(* What the snapshot store keeps is what it had or what it was given.      *)
LEMMA KeepType ==
  ASSUME TypeOK, NEW n \in Node, NEW s \in Snapshot, Keep(n, s)
  PROVE  /\ snap' \in [Node -> Snapshot] /\ prev' \in [Node -> Snapshot]
         /\ \A x \in Node : /\ snap'[x] \in {snap[x], prev[x], s}
                           /\ prev'[x] \in {snap[x], prev[x], s}
<1>1. Newest(snap[n], s) \in Snapshot /\ Newest(prev[n], s) \in Snapshot
  BY NewestType DEF TypeOK
<1>2. snap' \in [Node -> Snapshot]
  BY <1>1 DEF Keep, TypeOK
<1>3. prev' \in [Node -> Snapshot]
  BY <1>1 DEF Keep, TypeOK
<1>4. ASSUME NEW x \in Node
      PROVE  snap'[x] \in {snap[x], prev[x], s} /\ prev'[x] \in {snap[x], prev[x], s}
  BY DEF Keep, Newest, TypeOK
<1>5. QED
  BY <1>2, <1>3, <1>4

LEMMA InitType == Init => TypeOK
<1>1. NoSnapshot \in Snapshot
  BY EmptyStateType DEF NoSnapshot, Snapshot
<1>2. <<>> \in Seq(Command)
  OBVIOUS
<1>3. QED
  BY <1>1, <1>2, EmptyStateType DEF Init, TypeOK

LEMMA NextType == TypeOK /\ [Next]_vars => TypeOK'
<1> SUFFICES ASSUME TypeOK, [Next]_vars
             PROVE  TypeOK'
  OBVIOUS
<1>1. CASE Tick
  BY <1>1 DEF Tick, TypeOK, kept, history
<1>2. ASSUME NEW req \in Request, NEW t \in 1..now, Commit(req, t)
      PROVE  TypeOK'
  <2>1. t \in Nat
    BY DEF TypeOK
  <2>2. log' \in Seq(Command)
    BY <1>2, <2>1, StampType DEF Commit, TypeOK
  <2>3. QED
    BY <1>2, <2>2 DEF Commit, TypeOK, kept, history
<1>3. ASSUME NEW n \in Node, Apply(n)
      PROVE  TypeOK'
  <2>1. log[applied[n] + 1] \in Command
    BY <1>3 DEF Apply, TypeOK
  <2>2. ApplyCommand(n, applied[n] + 1) \in State
    BY <2>1, ApplyTxnEffect DEF ApplyCommand, TypeOK
  <2>3. CASE ApplyOk(n, applied[n] + 1)
    BY <1>3, <2>2, <2>3 DEF Apply, ApplyOk, kept, TypeOK, Later
  <2>4. CASE ApplyErr(n, applied[n] + 1)
    BY <1>3, <2>4 DEF Apply, ApplyErr, kept, TypeOK
  <2>5. QED
    BY <1>3, <2>3, <2>4 DEF Apply
<1>4. ASSUME NEW n \in Node, TakeSnapshot(n)
      PROVE  TypeOK'
  BY <1>4 DEF TakeSnapshot, TypeOK, kept, history
<1>5. ASSUME NEW n \in Node, Persist(n)
      PROVE  TypeOK'
  <2>1. Backup(n) \in Snapshot
    BY DEF Backup, Snapshot, TypeOK
  <2>2. UNCHANGED kept \/ Keep(n, Backup(n))
    BY <1>5 DEF Persist
  <2>3. snap' \in [Node -> Snapshot] /\ prev' \in [Node -> Snapshot]
    BY <2>1, <2>2, KeepType DEF kept, TypeOK
  <2>4. faults' \in Nat
    BY <1>5 DEF Persist, TypeOK
  <2>5. QED
    BY <1>5, <2>3, <2>4 DEF Persist, TypeOK, kept, history
<1>6. ASSUME NEW n \in Node, NEW m \in Node, InstallSnapshot(n, m)
      PROVE  TypeOK'
  <2>1. snap' \in [Node -> Snapshot] /\ prev' \in [Node -> Snapshot]
    BY <1>6, KeepType DEF InstallSnapshot, TypeOK
  <2>2. CASE Restored(n, snap[m]) /\ UNCHANGED faults
    BY <1>6, <2>1, <2>2 DEF InstallSnapshot, Restored, TypeOK, Snapshot
  <2>3. CASE RestoreFails(n, snap[m])
    <3>1. snap[m] \in Snapshot
      BY DEF TypeOK
    <3>2. /\ badger' \in [Node -> State]
          /\ high' \in [Node -> Nat]
          /\ missed' \in [Node -> SUBSET Nat]
      <4>1. CASE LeavesOld
        BY <4>1 DEF LeavesOld, TypeOK, history
      <4>2. CASE LeavesNew(n, snap[m])
        BY <3>1, <4>2 DEF LeavesNew, TypeOK, Snapshot, Later
      <4>3. CASE LeavesEmpty(n)
        BY <4>3, EmptyStateType DEF LeavesEmpty, TypeOK
      <4>4. QED
        BY <2>3, <4>1, <4>2, <4>3 DEF RestoreFails, Unfinished
    <3>3. storeOpen' \in [Node -> BOOLEAN]
      BY <2>3 DEF RestoreFails, TypeOK
    <3>4. faults' \in Nat
      BY <2>3 DEF RestoreFails, TypeOK
    <3>5. QED
      BY <1>6, <2>1, <2>3, <3>2, <3>3, <3>4 DEF InstallSnapshot, RestoreFails, TypeOK
  <2>4. QED
    BY <1>6, <2>2, <2>3 DEF InstallSnapshot
<1>7. ASSUME NEW n \in Node, Close(n)
      PROVE  TypeOK'
  BY <1>7 DEF Close, TypeOK, kept, history
<1>8. ASSUME NEW n \in Node, CloseDone(n)
      PROVE  TypeOK'
  BY <1>8 DEF CloseDone, Exit, kept, TypeOK
<1>9. ASSUME NEW n \in Node, Crash(n)
      PROVE  TypeOK'
  BY <1>9 DEF Crash, Exit, kept, TypeOK
<1>10. ASSUME NEW n \in Node, NEW m \in Node, CrashInRestore(n, m)
       PROVE  TypeOK'
  <2>1. snap' \in [Node -> Snapshot] /\ prev' \in [Node -> Snapshot]
    BY <1>10, KeepType DEF CrashInRestore, TypeOK
  <2>2. badger' \in [Node -> State]
    BY <1>10, EmptyStateType DEF CrashInRestore, TypeOK, Snapshot
  <2>3. QED
    BY <1>10, <2>1, <2>2 DEF CrashInRestore, Exit, TypeOK, Snapshot, Later
<1>11. ASSUME NEW n \in Node, Open(n)
       PROVE  TypeOK'
  <2>1. CASE OpenReplay(n)
    BY <1>11, <2>1 DEF Open, OpenReplay, TypeOK, kept, history
  <2>2. CASE OpenRestore(n)
    <3>1. PICK s \in {snap[n], prev[n]} : Restored(n, s)
      BY <2>2 DEF OpenRestore
    <3>2. s \in Snapshot
      BY DEF TypeOK
    <3>3. faults' \in Nat
      BY <2>2 DEF OpenRestore, TypeOK
    <3>4. QED
      BY <1>11, <2>2, <3>1, <3>2, <3>3 DEF Open, OpenRestore, Restored, kept, TypeOK, Snapshot
  <2>3. QED
    BY <1>11, <2>1, <2>2 DEF Open
<1>12. CASE UNCHANGED vars
  BY <1>12 DEF vars, kept, history, TypeOK
<1>13. QED
  BY <1>1, <1>2, <1>3, <1>4, <1>5, <1>6, <1>7, <1>8, <1>9, <1>10, <1>11, <1>12 DEF Next

(* The variables keep their shapes: in particular every database is a      *)
(* total map of keys to entries and every committed command well formed.   *)
THEOREM TypeCorrect == Spec => []TypeOK
BY InitType, NextType, PTL DEF Spec

-----------------------------------------------------------------------------
(* Where every database and every snapshot comes from.                     *)

(* The conjuncts of Provenance for one node.                               *)
BadgerFrom(n) ==
  /\ status[n] = "down" => applied[n] = 0
  /\ pending[n] <= applied[n]
  /\ applied[n] <= Len(log)
  /\ high[n] <= Len(log)
  /\ Covers(log, badger[n], applied[n], high[n], missed[n])

SnapFrom(s) ==
  /\ s.index <= Len(log)
  /\ s.high <= Len(log)
  /\ Covers(log, s.state, s.index, s.high, s.missed)

KeptFrom(n) == SnapFrom(snap[n]) /\ SnapFrom(prev[n])

LEMMA ProvenanceParts ==
  Provenance <=> (\A n \in Node : BadgerFrom(n)) /\ (\A n \in Node : KeptFrom(n))
BY DEF Provenance, BadgerFrom, KeptFrom, SnapFrom

LEMMA InitProvenance == Init => Provenance
<1> SUFFICES ASSUME Init, NEW n \in Node
             PROVE  BadgerFrom(n) /\ KeptFrom(n)
  BY ProvenanceParts
<1>1. Covers(log, EmptyState, 0, 0, {})
  <2>1. 1..0 = {}
    OBVIOUS
  <2>2. QED
    BY <2>1, CoversEmpty
<1>2. Len(log) = 0
  BY DEF Init
<1>3. BadgerFrom(n)
  BY <1>1, <1>2 DEF Init, BadgerFrom
<1>4. SnapFrom(NoSnapshot)
  BY <1>1, <1>2 DEF SnapFrom, NoSnapshot
<1>5. QED
  BY <1>3, <1>4 DEF Init, KeptFrom

(* What the node gets from the snapshot it restores.                       *)
LEMMA RestoredProvenance ==
  ASSUME TypeOK, Provenance, NEW n \in Node, NEW s \in Snapshot, SnapFrom(s),
         Restored(n, s), UNCHANGED <<log, pending>>, pending[n] <= s.index,
         status' = [status EXCEPT ![n] = status'[n]], status'[n] # "down"
  PROVE  \A x \in Node : BadgerFrom(x)'
<1> SUFFICES ASSUME NEW x \in Node
             PROVE  BadgerFrom(x)'
  OBVIOUS
<1>1. CASE x = n
  BY <1>1 DEF Restored, BadgerFrom, SnapFrom, TypeOK
<1>2. CASE x # n
  <2>1. BadgerFrom(x)
    BY ProvenanceParts
  <2>2. QED
    BY <1>2, <2>1 DEF Restored, BadgerFrom, TypeOK
<1>3. QED
  BY <1>1, <1>2

(* A step that leaves the log alone and hands n's snapshot store a sound    *)
(* snapshot.                                                               *)
LEMMA KeepProvenance ==
  ASSUME TypeOK, Provenance, NEW n \in Node, NEW s \in Snapshot, SnapFrom(s),
         log' = log, Keep(n, s)
  PROVE  \A x \in Node : KeptFrom(x)'
<1>1. ASSUME NEW x \in Node, NEW y \in {snap[x], prev[x], s}
      PROVE  SnapFrom(y)
  BY ProvenanceParts DEF KeptFrom
<1>2. ASSUME NEW x \in Node
      PROVE  SnapFrom(snap'[x]) /\ SnapFrom(prev'[x])
  BY <1>1, KeepType
<1>3. QED
  BY <1>2 DEF KeptFrom, SnapFrom

LEMMA NextProvenance == TypeOK /\ TypeOK' /\ Provenance /\ [Next]_vars => Provenance'
<1> SUFFICES ASSUME TypeOK, TypeOK', Provenance, [Next]_vars
             PROVE  Provenance'
  OBVIOUS
<1>a. /\ \A n \in Node : BadgerFrom(n)
      /\ \A n \in Node : KeptFrom(n)
  BY ProvenanceParts
<1>b. SUFFICES /\ \A n \in Node : BadgerFrom(n)'
               /\ \A n \in Node : KeptFrom(n)'
  BY DEF Provenance, BadgerFrom, KeptFrom, SnapFrom
<1> DEFINE Goal == /\ \A n \in Node : BadgerFrom(n)'
                   /\ \A n \in Node : KeptFrom(n)'
<1>c. ASSUME log' = log, kept' = kept
      PROVE  \A n \in Node : KeptFrom(n)'
  BY <1>a, <1>c DEF kept, KeptFrom, SnapFrom
<1>e. ASSUME NEW x \in Node, NEW s \in {snap[x], prev[x]}
      PROVE  s \in Snapshot /\ SnapFrom(s)
  BY <1>a, <1>e DEF KeptFrom, TypeOK
<1>1. CASE Tick
  BY <1>1, <1>a DEF Tick, kept, history, BadgerFrom, KeptFrom, SnapFrom
<1>2. ASSUME NEW req \in Request, NEW t \in 1..now, Commit(req, t)
      PROVE  Goal
  <2>1. Stamp(req, t) \in Command
    BY StampType DEF TypeOK
  <2>2. log' = Append(log, Stamp(req, t)) /\ Len(log') = Len(log) + 1
    BY <1>2, <2>1 DEF Commit, TypeOK
  <2>3. ASSUME NEW x \in Node
        PROVE  BadgerFrom(x)'
    <3>1. Covers(log', badger[x], applied[x], high[x], missed[x])
      BY <1>a, <2>1, <2>2, CoversAppend DEF BadgerFrom, TypeOK
    <3>2. QED
      BY <1>2, <1>a, <2>2, <3>1 DEF Commit, BadgerFrom, TypeOK, kept, history
  <2>4. ASSUME NEW x \in Node, NEW s \in {snap[x], prev[x]}
        PROVE  SnapFrom(s)'
    <3>1. s.index \in Nat /\ s.high \in Nat /\ SnapFrom(s)
      BY <1>e, <2>4 DEF Snapshot
    <3>2. Covers(log', s.state, s.index, s.high, s.missed)
      BY <2>1, <2>2, <3>1, CoversAppend DEF SnapFrom, TypeOK
    <3>3. s.index <= Len(log) /\ s.high <= Len(log) /\ Len(log) \in Nat
      BY <3>1 DEF SnapFrom, TypeOK
    <3>4. s.index <= Len(log') /\ s.high <= Len(log')
      BY <2>2, <3>1, <3>3
    <3>5. QED
      BY <3>2, <3>4 DEF SnapFrom
  <2>5. kept' = kept
    BY <1>2 DEF Commit
  <2>6. QED
    BY <2>3, <2>4, <2>5 DEF kept, KeptFrom, SnapFrom
<1>3. ASSUME NEW n \in Node, Apply(n)
      PROVE  Goal
  <2> DEFINE i == applied[n] + 1
  <2>1. i \in Nat /\ i <= Len(log) /\ applied[n] \in Nat /\ high[n] \in Nat
    BY <1>3 DEF Apply, TypeOK
  <2>2. ASSUME NEW x \in Node, x # n
        PROVE  BadgerFrom(x)'
    BY <1>3, <1>a, <2>2 DEF Apply, ApplyOk, ApplyErr, BadgerFrom, TypeOK
  <2>3. CASE ApplyOk(n, i)
    <3>1. Covers(log, ApplyCommand(n, i), i, Later(high[n], i), missed[n])
      <4>1. /\ log \in Seq(Command)
            /\ badger[n] \in State
            /\ Covers(log, badger[n], applied[n], high[n], missed[n])
            /\ applied[n] < Len(log)
        BY <1>3, <1>a DEF Apply, BadgerFrom, TypeOK
      <4>2. QED
        BY <2>1, <4>1, CoversApply DEF ApplyCommand
    <3>2. BadgerFrom(n)'
      BY <1>3, <1>a, <2>1, <2>3, <3>1 DEF Apply, ApplyOk, Running, BadgerFrom, TypeOK, Later
    <3>3. QED
      BY <1>3, <1>c, <2>2, <3>2 DEF Apply
  <2>4. CASE ApplyErr(n, i)
    <3>1. Covers(log, badger[n], i, high[n], missed[n] \cup {i})
      BY <1>a, <2>1, CoversMiss DEF BadgerFrom
    <3>2. BadgerFrom(n)'
      BY <1>3, <1>a, <2>1, <2>4, <3>1 DEF Apply, ApplyErr, Running, BadgerFrom, TypeOK
    <3>3. QED
      BY <1>3, <1>c, <2>2, <3>2 DEF Apply
  <2>5. QED
    BY <1>3, <2>3, <2>4 DEF Apply
<1>4. ASSUME NEW n \in Node, TakeSnapshot(n)
      PROVE  Goal
  <2>1. \A x \in Node : BadgerFrom(x)'
    BY <1>4, <1>a DEF TakeSnapshot, kept, history, BadgerFrom, TypeOK
  <2>2. QED
    BY <1>4, <1>c, <2>1 DEF TakeSnapshot
<1>5. ASSUME NEW n \in Node, Persist(n)
      PROVE  Goal
  <2>1. \A x \in Node : BadgerFrom(x)'
    BY <1>5, <1>a DEF Persist, kept, history, BadgerFrom, TypeOK
  <2>2. Backup(n) \in Snapshot
    BY DEF Backup, Snapshot, TypeOK
  <2>3. SnapFrom(Backup(n))
    <3>1. Covers(log, badger[n], pending[n], high[n], missed[n])
      BY <1>a, CoversWeaken DEF BadgerFrom, TypeOK
    <3>2. QED
      BY <1>a, <3>1 DEF SnapFrom, Backup, BadgerFrom, TypeOK
  <2>4. log' = log
    BY <1>5 DEF Persist
  <2>5. CASE kept' = kept
    BY <1>c, <2>1, <2>4, <2>5
  <2>6. CASE Keep(n, Backup(n))
    BY <2>1, <2>2, <2>3, <2>4, <2>6, KeepProvenance
  <2>7. QED
    BY <1>5, <2>5, <2>6 DEF Persist
<1>6. ASSUME NEW n \in Node, NEW m \in Node, InstallSnapshot(n, m)
      PROVE  Goal
  <2> DEFINE s == snap[m]
  <2>1. s \in Snapshot /\ SnapFrom(s) /\ s.index > applied[n]
    BY <1>6, <1>e DEF InstallSnapshot
  <2>a. UNCHANGED <<log, pending, status>> /\ status[n] # "down"
    BY <1>6 DEF InstallSnapshot, Running
  <2>b. /\ s.index \in Nat /\ s.high \in Nat
        /\ applied[n] \in Nat /\ high[n] \in Nat /\ pending[n] \in Nat /\ Len(log) \in Nat
    BY <2>1 DEF TypeOK, Snapshot
  <2>c. BadgerFrom(n)
    BY <1>a
  <2> HIDE DEF s
  <2>2. \A x \in Node : KeptFrom(x)'
    BY <1>6, <2>1, <2>a, KeepProvenance DEF InstallSnapshot, s
  <2>3. CASE Restored(n, s)
    <3>1. pending[n] <= s.index
      BY <2>1, <2>b, <2>c DEF BadgerFrom
    <3>2. status' = [status EXCEPT ![n] = status'[n]]
      BY <2>a DEF TypeOK
    <3>3. QED
      BY <2>1, <2>2, <2>3, <2>a, <3>1, <3>2, RestoredProvenance
  <2>4. CASE RestoreFails(n, s)
    <3>1. ASSUME NEW x \in Node, x # n
          PROVE  BadgerFrom(x)'
      <4>1. applied' = applied /\ Unfinished(n, s)
        BY <2>4 DEF RestoreFails
      <4>2. badger'[x] = badger[x] /\ high'[x] = high[x] /\ missed'[x] = missed[x]
        <5>1. ASSUME LeavesOld
              PROVE  badger'[x] = badger[x] /\ high'[x] = high[x] /\ missed'[x] = missed[x]
          BY <5>1 DEF LeavesOld, history
        <5>2. ASSUME LeavesNew(n, s)
              PROVE  badger'[x] = badger[x] /\ high'[x] = high[x] /\ missed'[x] = missed[x]
          BY <3>1, <5>2 DEF LeavesNew, TypeOK
        <5>3. ASSUME LeavesEmpty(n)
              PROVE  badger'[x] = badger[x] /\ high'[x] = high[x] /\ missed'[x] = missed[x]
          BY <3>1, <5>3 DEF LeavesEmpty, TypeOK
        <5>4. QED
          BY <4>1, <5>1, <5>2, <5>3 DEF Unfinished
      <4>3. BadgerFrom(x) /\ log' = log /\ pending' = pending /\ status' = status
        BY <1>a, <2>a
      <4>4. QED
        BY <4>1, <4>2, <4>3 DEF BadgerFrom
    <3>2. applied' = applied
      BY <2>4 DEF RestoreFails
    <3>3. ASSUME LeavesOld PROVE BadgerFrom(n)'
      BY <2>a, <2>c, <3>2, <3>3 DEF LeavesOld, history, BadgerFrom
    <3>4. ASSUME LeavesNew(n, s) PROVE BadgerFrom(n)'
      <4>1. Covers(log, s.state, applied[n], Later(high[n], s.high), missed[n] \cup s.missed)
        <5>1. Covers(log, s.state, s.index, s.high, s.missed)
          BY <2>1 DEF SnapFrom
        <5>2. Later(high[n], s.high) \in Nat /\ s.high <= Later(high[n], s.high)
          BY <2>b DEF Later
        <5>3. applied[n] <= s.index
          BY <2>1, <2>b
        <5>4. QED
          BY <2>b, <5>1, <5>2, <5>3, CoversWeaken
      <4>2. Later(high[n], s.high) <= Len(log)
        BY <2>1, <2>b, <2>c DEF SnapFrom, BadgerFrom, Later
      <4>3. QED
        BY <2>a, <2>c, <3>2, <3>4, <4>1, <4>2 DEF LeavesNew, BadgerFrom, TypeOK
    <3>5. ASSUME LeavesEmpty(n) PROVE BadgerFrom(n)'
      <4>1. Covers(log, EmptyState, applied[n], high[n], 1..applied[n])
        BY CoversEmpty DEF TypeOK
      <4>2. QED
        BY <2>a, <2>c, <3>2, <3>5, <4>1 DEF LeavesEmpty, BadgerFrom, TypeOK
    <3>6. BadgerFrom(n)'
      BY <2>4, <3>3, <3>4, <3>5 DEF RestoreFails, Unfinished
    <3>7. QED
      BY <2>2, <3>1, <3>6
  <2>5. QED
    BY <1>6, <2>3, <2>4 DEF InstallSnapshot, s
<1>7. ASSUME NEW n \in Node, Close(n)
      PROVE  Goal
  <2>1. \A x \in Node : BadgerFrom(x)'
    BY <1>7, <1>a DEF Close, kept, history, BadgerFrom, TypeOK
  <2>2. QED
    BY <1>7, <1>c, <2>1 DEF Close
<1>d. ASSUME NEW x \in Node
      PROVE  Covers(log, badger[x], 0, high[x], {})
  <2>1. Covers(log, badger[x], applied[x], high[x], missed[x])
    BY <1>a DEF BadgerFrom
  <2>2. QED
    BY <2>1, CoversRestart DEF TypeOK
<1>8. ASSUME NEW n \in Node, CloseDone(n)
      PROVE  Goal
  <2>1. \A x \in Node : BadgerFrom(x)'
    BY <1>8, <1>a, <1>d DEF CloseDone, Exit, BadgerFrom, TypeOK
  <2>2. QED
    BY <1>8, <1>c, <2>1 DEF CloseDone
<1>9. ASSUME NEW n \in Node, Crash(n)
      PROVE  Goal
  <2>1. \A x \in Node : BadgerFrom(x)'
    BY <1>9, <1>a, <1>d DEF Crash, Exit, BadgerFrom, TypeOK
  <2>2. QED
    BY <1>9, <1>c, <2>1 DEF Crash
<1>10. ASSUME NEW n \in Node, NEW m \in Node, CrashInRestore(n, m)
       PROVE  Goal
  <2> DEFINE s == snap[m]
  <2>1. s \in Snapshot /\ SnapFrom(s) /\ log' = log
    BY <1>10, <1>e DEF CrashInRestore
  <2>2. \A x \in Node : KeptFrom(x)'
    BY <1>10, <2>1, KeepProvenance DEF CrashInRestore
  <2>a. /\ s.high \in Nat /\ s.index \in Nat /\ high[n] \in Nat /\ Len(log) \in Nat
        /\ s.high <= Len(log) /\ high[n] <= Len(log)
    BY <1>a, <2>1 DEF TypeOK, Snapshot, SnapFrom, BadgerFrom
  <2>b. /\ badger' \in [Node -> State]
        /\ \E c \in {badger[n], EmptyState, s.state} : badger'[n] = c
    BY <1>10 DEF CrashInRestore, TypeOK
  <2> HIDE DEF s
  <2>3. ASSUME NEW x \in Node, x # n
        PROVE  BadgerFrom(x)'
    BY <1>10, <1>a, <2>3 DEF CrashInRestore, Exit, BadgerFrom, TypeOK
  <2>4. ASSUME NEW c \in {badger[n], EmptyState, s.state}
        PROVE  Covers(log, c, 0, Later(high[n], s.high), {})
    <3>1. /\ Later(high[n], s.high) \in Nat
          /\ high[n] <= Later(high[n], s.high)
          /\ s.high <= Later(high[n], s.high)
      BY <2>a DEF Later
    <3>2. CASE c = badger[n]
      BY <1>d, <2>a, <3>1, <3>2, CoversWeaken
    <3>3. CASE c = EmptyState
      BY <3>1, <3>3, CoversEmpty, CoversRestart
    <3>4. CASE c = s.state
      <4>1. Covers(log, s.state, 0, s.high, {})
        BY <2>1, <2>a, CoversRestart DEF SnapFrom
      <4>2. QED
        BY <2>a, <3>1, <3>4, <4>1, CoversWeaken
    <3>5. QED
      BY <2>4, <3>2, <3>3, <3>4
  <2>5. BadgerFrom(n)'
    <3>1. /\ applied'[n] = 0 /\ pending'[n] = 0 /\ missed'[n] = {}
          /\ high'[n] = Later(high[n], s.high)
      BY <1>10 DEF CrashInRestore, Exit, TypeOK, s
    <3>2. Covers(log, badger'[n], 0, Later(high[n], s.high), {})
      BY <2>b, <2>4
    <3>3. Later(high[n], s.high) <= Len(log)
      BY <2>a DEF Later
    <3>4. QED
      BY <2>1, <2>a, <3>1, <3>2, <3>3 DEF BadgerFrom
  <2>6. QED
    BY <2>2, <2>3, <2>5
<1>11. ASSUME NEW n \in Node, Open(n)
       PROVE  Goal
  <2>1. \A x \in Node : KeptFrom(x)'
    BY <1>11, <1>c DEF Open
  <2>2. CASE OpenReplay(n)
    BY <1>11, <1>a, <2>1, <2>2 DEF Open, OpenReplay, BadgerFrom, TypeOK, kept, history
  <2>3. CASE OpenRestore(n)
    <3>a. PICK s \in {snap[n], prev[n]} : Restored(n, s)
      BY <2>3 DEF OpenRestore
    <3>1. s \in Snapshot /\ SnapFrom(s)
      BY <1>e
    <3>2. pending[n] <= s.index
      BY <1>11, <1>a, <3>1 DEF Open, BadgerFrom, TypeOK, Snapshot
    <3>3. status' = [status EXCEPT ![n] = status'[n]] /\ status'[n] # "down"
      BY <2>3 DEF OpenRestore, TypeOK
    <3>4. \A x \in Node : BadgerFrom(x)'
      BY <1>11, <3>a, <3>1, <3>2, <3>3, RestoredProvenance DEF Open
    <3>5. QED
      BY <2>1, <3>4
  <2>4. QED
    BY <1>11, <2>2, <2>3 DEF Open
<1>12. CASE UNCHANGED vars
  BY <1>12, <1>a DEF vars, kept, history, BadgerFrom, KeptFrom, SnapFrom
<1>13. QED
  BY <1>1, <1>2, <1>3, <1>4, <1>5, <1>6, <1>7, <1>8, <1>9, <1>10, <1>11, <1>12 DEF Next

(* Every key of every database and snapshot was left by a committed        *)
(* command, and only missed commands can have written it after that: the   *)
(* invariant behind the convergence argument of fsm.Snapshot's comment.    *)
THEOREM ProvenanceHolds == Spec => []Provenance
<1>1. Init => TypeOK /\ Provenance
  BY InitType, InitProvenance
<1>2. (TypeOK /\ Provenance) /\ [Next]_vars => (TypeOK /\ Provenance)'
  BY NextType, NextProvenance
<1>3. QED
  BY <1>1, <1>2, PTL DEF Spec

-----------------------------------------------------------------------------
(* Convergence.                                                            *)

(* Among the first i entries there is a last one that writes k, or none.   *)
LEMMA LastWriteExists ==
  ASSUME NEW lg, NEW i \in Nat, NEW k
  PROVE  IsLastWrite(lg, i, k, LastWrite(lg, i, k))
<1> DEFINE S == {j \in 0..i : j = 0 \/ k \in Writes(lg[j])}
           T == {d \in 0..i : i - d \in S}
<1>1. T \in SUBSET Nat /\ i \in T
  OBVIOUS
<1>2. PICK d \in T : \A y \in T : d <= y
  BY <1>1, LeastNat
<1>3. d \in 0..i /\ i - d \in 0..i
  OBVIOUS
<1>4. i - d # 0 => k \in Writes(lg[i - d])
  OBVIOUS
<1>5. ASSUME NEW m \in (i - d + 1)..i, k \in Writes(lg[m])
      PROVE  FALSE
  <2>1. m \in S
    BY <1>3, <1>5
  <2>2. i - m \in 0..i /\ i - (i - m) = m
    BY <1>3
  <2>3. i - m \in T
    BY <2>1, <2>2
  <2>4. QED
    BY <1>2, <1>3, <2>3
<1>6. IsLastWrite(lg, i, k, i - d)
  BY <1>3, <1>4, <1>5 DEF IsLastWrite
<1>7. QED
  BY <1>3, <1>6 DEF LastWrite

(* A database that covers the first a entries, and holds nothing of later  *)
(* ones, agrees with them on k unless the last write of k was missed.      *)
LEMMA CoversConverges ==
  ASSUME NEW lg, NEW c, NEW a \in Nat, NEW h \in Nat, NEW M, NEW k \in Key,
         Covers(lg, c, a, h, M), h <= a, LastWrite(lg, a, k) \notin M
  PROVE  c[k] = StateAt(lg, a)[k]
<1> DEFINE w == LastWrite(lg, a, k)
<1>1. IsLastWrite(lg, a, k, w)
  BY LastWriteExists
<1>2. PICK j \in 0..h : From(lg, c, a, M, k, j)
  BY DEF Covers
<1> HIDE DEF w
<1>3. w \in 0..a
  BY <1>1 DEF IsLastWrite
<1>4. ~ (w > j)
  <2> SUFFICES ASSUME w > j
               PROVE  FALSE
    OBVIOUS
  <2>1. k \in Writes(lg[w])
    BY <1>1, <1>3 DEF IsLastWrite
  <2>2. w \in (j + 1)..a
    BY <1>3
  <2>3. w \in M
    BY <1>2, <2>1, <2>2 DEF From
  <2>4. QED
    BY <2>3 DEF w
<1>5. ~ (j > w)
  <2> SUFFICES ASSUME j > w
               PROVE  FALSE
    OBVIOUS
  <2>1. k \in Writes(lg[j])
    BY <1>2, <1>3 DEF From
  <2>2. j \in (w + 1)..a
    BY <1>3
  <2>3. QED
    BY <1>1, <2>1, <2>2 DEF IsLastWrite
<1>6. j = w
  BY <1>3, <1>4, <1>5
<1>7. QED
  BY <1>2, <1>6 DEF From, StateAt, w

(* A node that has applied past everything its database already held has   *)
(* converged with the log it applied, whatever crashes, restarts,          *)
(* snapshots taken during applies, restores and failures it went through,  *)
(* except on keys whose last write it missed.                              *)
THEOREM Convergence == Spec => []ConvergedUnlessMissed
<1>1. TypeOK /\ Provenance => ConvergedUnlessMissed
  <2> SUFFICES ASSUME TypeOK, Provenance, NEW n \in Node, NEW k \in Key,
                      high[n] <= applied[n],
                      LastWrite(log, applied[n], k) \notin missed[n]
               PROVE  badger[n][k] = StateAt(log, applied[n])[k]
    BY DEF ConvergedUnlessMissed
  <2>1. Covers(log, badger[n], applied[n], high[n], missed[n])
    BY DEF Provenance
  <2>2. applied[n] \in Nat /\ high[n] \in Nat
    BY DEF TypeOK
  <2>3. QED
    BY <2>1, <2>2, CoversConverges
<1>2. QED
  BY <1>1, TypeCorrect, ProvenanceHolds, PTL

(* Replaying a log suffix command by command is well defined: the database *)
(* after each entry comes from the one before it.                          *)
LEMMA ReplayDefined ==
  ASSUME TypeOK, NEW s \in Snapshot, NEW i \in s.index..Len(log)
  PROVE  \E db : /\ db[s.index] = s.state
                 /\ \A j \in s.index..i : j # s.index => db[j] = ApplyTxn(db[j - 1], log[j])
                 /\ Replay(s, i) = db[i]
<1> DEFINE lo == s.index
           Unrolled(f) == [j \in lo..i |-> IF j = lo THEN s.state ELSE ApplyTxn(f[j - 1], log[j])]
<1>1. /\ lo \in Nat /\ i \in Nat /\ lo <= i /\ s.state \in State
      /\ log \in Seq(Command) /\ i <= Len(log)
  BY DEF TypeOK, Snapshot
<1>2. \E f : f = Unrolled(f)
  <2> DEFINE step == [j \in lo..i |-> [c \in State |-> IF j = lo THEN c ELSE ApplyTxn(c, log[j])]]
  <2>1. ASSUME NEW j \in lo..i, NEW c \in State, j # lo
        PROVE  ApplyTxn(c, log[j]) \in State
    <3>1. log[j] \in Command
      BY <1>1, <2>1
    <3>2. QED
      BY <3>1, ApplyTxnEffect
  <2>2. step \in [lo..i -> [State -> State]]
    BY <2>1
  <2>3. \A j \in lo..i : j # lo => \A c \in State : step[j][c] = ApplyTxn(c, log[j])
    OBVIOUS
  <2> HIDE DEF step
  <2>4. PICK f : Follows(f, step, lo, i, s.state, State)
    <3>1. IsStep(step, lo, i, State)
      BY <2>2 DEF IsStep
    <3>2. QED
      BY <1>1, <3>1, RecursionExists
  <2>5. \A j \in lo..i : f[j] = Unrolled(f)[j]
    <3>1. ASSUME NEW j \in lo..i, j # lo PROVE f[j] = ApplyTxn(f[j - 1], log[j])
      <4>1. j - 1 \in lo..i
        BY <1>1, <3>1
      <4>2. f[j - 1] \in State
        BY <2>4, <4>1 DEF Follows
      <4>3. QED
        BY <2>3, <2>4, <3>1, <4>2 DEF Follows
    <3>2. QED
      BY <2>4, <3>1 DEF Follows
  <2>6. f = Unrolled(f)
    BY <2>4, <2>5 DEF Follows
  <2>7. QED
    BY <2>6
<1>3. PICK db : db = Unrolled(db) /\ Replay(s, i) = db[i]
  BY <1>2 DEF Replay
<1>4. db[lo] = s.state /\ \A j \in lo..i : j # lo => db[j] = ApplyTxn(db[j - 1], log[j])
  BY <1>1, <1>3
<1>5. QED
  BY <1>3, <1>4

(* Each replayed entry keeps the database covered.                         *)
LEMMA ReplayCovers ==
  ASSUME TypeOK, NEW s \in Snapshot, SnapFrom(s), NEW i \in s.index..Len(log)
  PROVE  Covers(log, Replay(s, i), i, Later(s.high, i), s.missed)
<1> DEFINE lo == s.index
<1>1. s \in Snapshot
  OBVIOUS
<1>2. /\ lo \in Nat /\ i \in Nat /\ s.high \in Nat /\ s.state \in State
      /\ log \in Seq(Command) /\ Len(log) \in Nat /\ lo <= i /\ i <= Len(log)
  BY <1>1 DEF TypeOK, Snapshot
<1>3. Covers(log, s.state, lo, s.high, s.missed)
  BY DEF SnapFrom
<1>4. PICK db : /\ db[lo] = s.state
                /\ \A j \in lo..i : j # lo => db[j] = ApplyTxn(db[j - 1], log[j])
                /\ Replay(s, i) = db[i]
  BY <1>1, ReplayDefined
<1> DEFINE T == {j \in lo..i : db[j] \in State /\ Covers(log, db[j], j, Later(s.high, j), s.missed)}
<1>5. lo \in T
  <2>1. Later(s.high, lo) \in Nat /\ s.high <= Later(s.high, lo)
    BY <1>2 DEF Later
  <2>2. Covers(log, s.state, lo, Later(s.high, lo), s.missed)
    BY <1>2, <1>3, <2>1, CoversWeaken
  <2>3. QED
    BY <1>2, <1>4, <2>2
<1>6. ASSUME NEW j \in lo..i, j # i, j \in T
      PROVE  j + 1 \in T
  <2>1. /\ j \in Nat /\ j < Len(log) /\ j + 1 \in lo..i /\ j + 1 # lo /\ (j + 1) - 1 = j
        /\ Later(s.high, j) \in Nat
    BY <1>2, <1>6 DEF Later
  <2>2. db[j + 1] = ApplyTxn(db[j], log[j + 1])
    BY <1>4, <2>1
  <2>3. db[j + 1] \in State
    <3>1. log[j + 1] \in Command
      BY <1>2, <2>1
    <3>2. QED
      BY <1>6, <2>2, <3>1, ApplyTxnEffect
  <2>4. Covers(log, db[j + 1], j + 1, Later(Later(s.high, j), j + 1), s.missed)
    BY <1>2, <1>6, <2>1, <2>2, CoversApply
  <2>5. Later(Later(s.high, j), j + 1) = Later(s.high, j + 1)
    BY <1>2, <2>1 DEF Later
  <2>6. QED
    BY <2>1, <2>3, <2>4, <2>5
<1> HIDE DEF T
<1>7. \A j \in lo..i : j \in T
  BY <1>2, <1>5, <1>6, IntervalInduction
<1>8. i \in T
  BY <1>2, <1>7
<1>9. QED
  BY <1>4, <1>8 DEF T

(* fsm.Snapshot's claim about the overlap of a backup with the entries     *)
(* replayed over it: restoring any retained snapshot, the newest or the    *)
(* one before it, and replaying past what the backup had captured gives    *)
(* the state of the log, except on keys whose last write the snapshot's    *)
(* node had missed.                                                        *)
THEOREM SnapshotSoundHolds == Spec => []SnapshotSound
<1>1. ASSUME TypeOK, Provenance PROVE SnapshotSound
  <2>1. SUFFICES ASSUME NEW n \in Node, NEW s \in {snap[n], prev[n]}, s.index # 0,
                        NEW i \in Later(s.index, s.high)..Len(log), NEW k \in Key,
                        LastWrite(log, i, k) \notin s.missed
                 PROVE  Replay(s, i)[k] = StateAt(log, i)[k]
    BY DEF SnapshotSound
  <2>a. s \in Snapshot /\ SnapFrom(s)
    BY <1>1, ProvenanceParts DEF KeptFrom, TypeOK
  <2>2. s.index \in Nat /\ s.high \in Nat /\ Len(log) \in Nat
    BY <1>1, <2>a DEF TypeOK, Snapshot
  <2>3. i \in Nat /\ i \in s.index..Len(log) /\ Later(s.high, i) = i
    BY <2>2 DEF Later
  <2>4. Covers(log, Replay(s, i), i, i, s.missed)
    BY <1>1, <2>a, <2>3, ReplayCovers
  <2>5. QED
    BY <2>1, <2>3, <2>4, CoversConverges
<1>2. QED
  BY <1>1, TypeCorrect, ProvenanceHolds, PTL

-----------------------------------------------------------------------------
(* The applied index.                                                      *)

IndexInv ==
  /\ TypeOK
  /\ \A n \in Node : status[n] = "down" => applied[n] = 0
  /\ \A n \in Node : base[n] <= applied[n]
  /\ AppliedIndexExact

(* Status.AppliedIndex never runs ahead of what Raft has applied, and      *)
(* whatever it lags behind came with a snapshot or failed.                 *)
THEOREM AppliedIndexHolds == Spec => []AppliedIndexExact
<1>1. Init => IndexInv
  BY InitType DEF Init, IndexInv, AppliedIndexExact
<1>2. IndexInv /\ [Next]_vars => IndexInv'
  <2> SUFFICES ASSUME IndexInv, [Next]_vars
               PROVE  IndexInv'
    OBVIOUS
  <2> USE DEF IndexInv
  <2>1. TypeOK'
    BY NextType
  <2>2. CASE UNCHANGED <<status, applied, appliedIndex, base, missed>>
    BY <2>1, <2>2 DEF AppliedIndexExact
  <2>3. ASSUME NEW n \in Node, Apply(n)
        PROVE  IndexInv'
    <3>1. /\ \A x \in Node : status'[x] = "down" => applied'[x] = 0
          /\ \A x \in Node : base'[x] <= applied'[x]
      BY <2>3 DEF Apply, Running, TypeOK
    <3>2. CASE ApplyOk(n, applied[n] + 1)
      <4>1. AppliedIndexExact'
        BY <2>3, <3>2 DEF Apply, ApplyOk, AppliedIndexExact, TypeOK
      <4>2. QED
        BY <2>1, <3>1, <4>1
    <3>3. CASE ApplyErr(n, applied[n] + 1)
      <4>a. /\ UNCHANGED <<base, appliedIndex>>
            /\ applied' = [applied EXCEPT ![n] = @ + 1]
            /\ missed' = [missed EXCEPT ![n] = @ \cup {applied[n] + 1}]
        BY <2>3, <3>3 DEF Apply, ApplyErr
      <4>1. AppliedIndexExact'
        BY <4>a DEF AppliedIndexExact, TypeOK
      <4>2. QED
        BY <2>1, <3>1, <4>1
    <3>4. QED
      BY <2>3, <3>2, <3>3 DEF Apply
  <2>4. ASSUME NEW n \in Node, NEW s \in Snapshot, Restored(n, s), status'[n] # "down",
               \A x \in Node \ {n} : status'[x] = status[x]
        PROVE  IndexInv'
    <3>1. s.index \in Nat
      BY DEF Snapshot
    <3>2. AppliedIndexExact'
      BY <2>4, <3>1 DEF Restored, AppliedIndexExact, TypeOK
    <3>3. \A x \in Node : status'[x] = "down" => applied'[x] = 0
      BY <2>4 DEF Restored, TypeOK
    <3>4. \A x \in Node : base'[x] <= applied'[x]
      BY <2>4, <3>1 DEF Restored, TypeOK
    <3>5. QED
      BY <2>1, <3>2, <3>3, <3>4
  <2>5. ASSUME NEW n \in Node, Exit(n), \A x \in Node \ {n} : missed'[x] = missed[x]
        PROVE  IndexInv'
    <3>1. /\ applied'[n] = 0 /\ appliedIndex'[n] = 0 /\ base'[n] = 0
          /\ \A x \in Node \ {n} :
               /\ status'[x] = status[x] /\ applied'[x] = applied[x]
               /\ appliedIndex'[x] = appliedIndex[x] /\ base'[x] = base[x]
               /\ missed'[x] = missed[x]
      BY <2>5 DEF Exit, TypeOK
    <3>2. AppliedIndexExact'
      BY <3>1 DEF AppliedIndexExact
    <3>3. /\ \A x \in Node : status'[x] = "down" => applied'[x] = 0
          /\ \A x \in Node : base'[x] <= applied'[x]
      BY <3>1
    <3>4. QED
      BY <2>1, <3>2, <3>3
  <2>6. ASSUME NEW n \in Node, NEW m \in Node, InstallSnapshot(n, m)
        PROVE  IndexInv'
    <3>1. CASE Restored(n, snap[m])
      BY <2>4, <2>6, <3>1 DEF InstallSnapshot, Running, TypeOK
    <3>2. CASE RestoreFails(n, snap[m])
      <4>1. UNCHANGED <<status, applied, appliedIndex, base>>
        BY <2>6, <3>2 DEF InstallSnapshot, RestoreFails
      <4>2. \A x \in Node : \A i \in 1..applied[x] : i \in missed[x] => i \in missed'[x]
        <5>1. CASE LeavesOld
          BY <5>1 DEF LeavesOld, history
        <5>2. CASE LeavesNew(n, snap[m])
          BY <5>2 DEF LeavesNew, TypeOK
        <5>3. CASE LeavesEmpty(n)
          BY <5>3 DEF LeavesEmpty, TypeOK
        <5>4. QED
          BY <3>2, <5>1, <5>2, <5>3 DEF RestoreFails, Unfinished
      <4>3. ASSUME NEW x \in Node, NEW i \in (appliedIndex[x] + 1)..applied[x]
            PROVE  i <= base[x] \/ i \in missed'[x]
        <5>1. i \in 1..applied[x]
          BY DEF TypeOK
        <5>2. i <= base[x] \/ i \in missed[x]
          BY DEF AppliedIndexExact
        <5>3. QED
          BY <4>2, <5>1, <5>2
      <4>4. AppliedIndexExact'
        BY <4>1, <4>3 DEF AppliedIndexExact
      <4>5. QED
        BY <2>1, <4>1, <4>4
    <3>3. QED
      BY <2>6, <3>1, <3>2 DEF InstallSnapshot
  <2>7. ASSUME NEW n \in Node, Close(n)
        PROVE  IndexInv'
    BY <2>1, <2>7 DEF Close, kept, history, AppliedIndexExact, TypeOK
  <2>8. ASSUME NEW n \in Node, Open(n)
        PROVE  IndexInv'
    <3>1. CASE OpenReplay(n)
      BY <2>1, <2>8, <3>1 DEF Open, OpenReplay, kept, history, AppliedIndexExact, TypeOK
    <3>2. CASE OpenRestore(n)
      <4>1. PICK s \in {snap[n], prev[n]} : Restored(n, s)
        BY <3>2 DEF OpenRestore
      <4>2. s \in Snapshot
        BY DEF TypeOK
      <4>3. QED
        BY <2>4, <3>2, <4>1, <4>2 DEF OpenRestore, TypeOK
    <3>3. QED
      BY <2>8, <3>1, <3>2 DEF Open
  <2>9. CASE Tick \/ UNCHANGED vars
    BY <2>2, <2>9 DEF Tick, vars, kept, history
  <2>10. ASSUME NEW req \in Request, NEW t \in 1..now, Commit(req, t)
         PROVE  IndexInv'
    BY <2>2, <2>10 DEF Commit, kept, history
  <2>11. ASSUME NEW n \in Node, TakeSnapshot(n) \/ Persist(n)
         PROVE  IndexInv'
    BY <2>2, <2>11 DEF TakeSnapshot, Persist, kept, history
  <2>12. ASSUME NEW n \in Node, CloseDone(n) \/ Crash(n)
         PROVE  IndexInv'
    BY <2>5, <2>12 DEF CloseDone, Crash, TypeOK
  <2>13. ASSUME NEW n \in Node, NEW m \in Node, CrashInRestore(n, m)
         PROVE  IndexInv'
    BY <2>5, <2>13 DEF CrashInRestore, TypeOK
  <2> HIDE DEF IndexInv
  <2>14. QED
    BY <2>3, <2>6, <2>7, <2>8, <2>9, <2>10, <2>11, <2>12, <2>13 DEF Next
<1>3. IndexInv => AppliedIndexExact
  BY DEF IndexInv
<1>4. QED
  BY <1>1, <1>2, <1>3, PTL DEF Spec
=============================================================================
