---------------------------- MODULE Replication ----------------------------
(***************************************************************************)
(* A honeybadger cluster: every node applies the committed Raft log to its *)
(* own Badger database (fsm.Apply), now and then publishes a snapshot of   *)
(* that database (fsm.Snapshot, fsmSnapshot.Persist), and replaces the     *)
(* whole database by a snapshot when it starts or has fallen too far       *)
(* behind (fsm.Restore).  Nodes are opened, closed and crash.              *)
(*                                                                         *)
(* Raft is external: the committed log is one variable, a node may apply   *)
(* any committed entry next in order, and a snapshot may be installed on   *)
(* any running node that has applied less than it covers.  Elections,      *)
(* quorums and log compaction are Raft's.                                  *)
(*                                                                         *)
(* high and missed are history variables, used by properties only: the     *)
(* highest entry that can have left something in a database, and the       *)
(* entries Raft has counted as applied that the database never received.   *)
(***************************************************************************)
EXTENDS Command

CONSTANTS
  Node,
  Request,     \* what clients write: values and relative TTLs
  MaxLog,      \* bound: committed commands
  MaxNow,      \* bound: ticks of the clock
  MaxTaken,    \* bound: snapshots taken
  MaxFaults    \* bound: failing Badger transactions, backups and file operations

(* A request as SetBytes, DeleteBytes and Batch hand it to apply, with its *)
(* TTLs not yet turned into expiries; 0 is no TTL.                         *)
RequestType ==
  [pairs : [Key -> [value : Value, ttl : Nat] \cup {Absent}], deletes : SUBSET Key]

ASSUME ReplicationAssumption ==
  /\ Request \subseteq RequestType
  /\ Absent \notin [value : Value, ttl : Nat]
  /\ MaxLog \in Nat
  /\ MaxNow \in Nat
  /\ MaxTaken \in Nat
  /\ MaxFaults \in Nat

VARIABLES
  now,           \* the wall clock, in ticks
  log,           \* the committed commands
  status,        \* per node: "up", "closing" (DB.closed is set), "down"
  storeOpen,     \* per node: DB.store # nil
  badger,        \* per node: what its Badger directory holds
  applied,       \* per node: Raft's own FSM index
  appliedIndex,  \* per node: fsm.appliedIndex
  taken,         \* snapshots taken so far
  pending,       \* per node: label of the snapshot awaiting Persist, 0 if none
  snap,          \* per node: its newest published snapshot, index 0 if none
  prev,          \* per node: the one kept beside it (snapshotRetainCount)
  base,          \* per node: index of the snapshot the FSM last restored
  high,          \* history, see above
  missed,        \* history, see above
  faults         \* failures so far

kept == <<snap, prev>>
history == <<high, missed>>
vars == <<now, log, status, storeOpen, badger, applied, appliedIndex, taken, pending,
          kept, base, faults, history>>

Snapshot == [index : Nat, state : State, high : Nat, missed : SUBSET Nat]

NoSnapshot == [index |-> 0, state |-> EmptyState, high |-> 0, missed |-> {}]

(* One type invariant: the shapes of the variables.                        *)
TypeOK ==
  /\ now \in Nat
  /\ log \in Seq(Command)
  /\ status \in [Node -> {"up", "closing", "down"}]
  /\ storeOpen \in [Node -> BOOLEAN]
  /\ badger \in [Node -> State]
  /\ applied \in [Node -> Nat]
  /\ appliedIndex \in [Node -> Nat]
  /\ taken \in Nat /\ pending \in [Node -> Nat]
  /\ snap \in [Node -> Snapshot] /\ prev \in [Node -> Snapshot]
  /\ base \in [Node -> Nat]
  /\ high \in [Node -> Nat]
  /\ missed \in [Node -> SUBSET Nat]
  /\ faults \in Nat

Init ==
  /\ now = 1
  /\ log = <<>>
  /\ status = [n \in Node |-> "up"]
  /\ storeOpen = [n \in Node |-> TRUE]
  /\ badger = [n \in Node |-> EmptyState]
  /\ applied = [n \in Node |-> 0]
  /\ appliedIndex = [n \in Node |-> 0]
  /\ taken = 0 /\ pending = [n \in Node |-> 0]
  /\ snap = [n \in Node |-> NoSnapshot] /\ prev = [n \in Node |-> NoSnapshot]
  /\ base = [n \in Node |-> 0]
  /\ high = [n \in Node |-> 0]
  /\ missed = [n \in Node |-> {}]
  /\ faults = 0

Running(n) == status[n] # "down"

(* withStore reaches Badger: not closed, and there is a store.             *)
Readable(n) == status[n] = "up" /\ storeOpen[n]

Later(i, j) == IF i > j THEN i ELSE j

Tick ==
  /\ now < MaxNow
  /\ now' = now + 1
  /\ UNCHANGED <<log, status, storeOpen, badger, applied, appliedIndex, taken, pending,
                 kept, base, faults, history>>

-----------------------------------------------------------------------------
(* Writes.  SetBytes, DeleteBytes and Batch turn TTLs into expiries before *)
(* apply submits the command, so the stamp is from now or earlier when the *)
(* command commits.  The leader that commits it is one of the running      *)
(* nodes; which one, and which call it answers, is in Client.              *)

(* Mutant of Stamp: the relative TTL is replicated as it is.               *)
StampRelative(req, t) == req

Stamp(req, t) ==
  [pairs |-> [k \in Key |->
                IF k \in SetKeys(req.pairs)
                THEN [value |-> req.pairs[k].value,
                      expiresAt |-> AbsExpiry(t, req.pairs[k].ttl)]
                ELSE Absent],
   deletes |-> req.deletes]

Commit(req, t) ==
  /\ \E n \in Node : Running(n)
  /\ Len(log) < MaxLog
  /\ log' = Append(log, Stamp(req, t))
  /\ UNCHANGED <<now, status, storeOpen, badger, applied, appliedIndex, taken, pending,
                 kept, base, faults, history>>

-----------------------------------------------------------------------------
(* fsm.Apply on the next committed entry i.                                *)

(* Mutant of ApplyCommand: expiries are taken from the node's own clock.    *)
ApplyRestamped(n, i) ==
  LET restamped(e) == IF e # Absent /\ e.expiresAt # 0 THEN [e EXCEPT !.expiresAt = now + 1] ELSE e
  IN ApplyTxn(badger[n], [log[i] EXCEPT !.pairs = [k \in Key |-> restamped(@[k])]])

ApplyCommand(n, i) == ApplyTxn(badger[n], log[i])

ApplyOk(n, i) ==
  /\ Readable(n)
  /\ badger' = [badger EXCEPT ![n] = ApplyCommand(n, i)]
  /\ appliedIndex' = [appliedIndex EXCEPT ![n] = i]
  /\ high' = [high EXCEPT ![n] = Later(@, i)]
  /\ UNCHANGED <<missed, faults>>

(* ErrClosed from withStore, or a failing transaction: Raft counts the     *)
(* entry as applied all the same.                                          *)
ApplyErr(n, i) ==
  /\ \/ ~Readable(n) /\ UNCHANGED faults
     \/ Readable(n) /\ faults < MaxFaults /\ faults' = faults + 1
  /\ missed' = [missed EXCEPT ![n] = @ \cup {i}]
  /\ UNCHANGED <<badger, appliedIndex, high>>

(* Mutant of Apply: the newest committed entry is left for the next one.   *)
ApplyLags(n) ==
  /\ Running(n)
  /\ applied[n] + 1 < Len(log)
  /\ applied' = [applied EXCEPT ![n] = @ + 1]
  /\ ApplyOk(n, applied[n] + 1) \/ ApplyErr(n, applied[n] + 1)
  /\ UNCHANGED <<now, log, status, storeOpen, taken, pending, kept, base>>

Apply(n) ==
  /\ Running(n)
  /\ applied[n] < Len(log)
  /\ applied' = [applied EXCEPT ![n] = @ + 1]
  /\ \/ ApplyOk(n, applied[n] + 1)
     \/ ApplyErr(n, applied[n] + 1)
  /\ UNCHANGED <<now, log, status, storeOpen, taken, pending, kept, base>>

-----------------------------------------------------------------------------
(* Snapshots.  Raft labels one with its FSM index when it calls Snapshot;  *)
(* Persist reads the database later, concurrently with Apply.              *)

(* Mutant of TakeSnapshot: labelled with the commit index.                  *)
TakeSnapshotAtCommit(n) ==
  /\ Running(n)
  /\ pending[n] = 0 /\ taken < MaxTaken
  /\ applied[n] > 0
  /\ taken' = taken + 1
  /\ pending' = [pending EXCEPT ![n] = Len(log)]
  /\ UNCHANGED <<now, log, status, storeOpen, badger, applied, appliedIndex,
                 kept, base, faults, history>>

TakeSnapshot(n) ==
  /\ Running(n)
  /\ pending[n] = 0 /\ taken < MaxTaken
  /\ applied[n] > 0
  /\ taken' = taken + 1
  /\ pending' = [pending EXCEPT ![n] = applied[n]]
  /\ UNCHANGED <<now, log, status, storeOpen, badger, applied, appliedIndex,
                 kept, base, faults, history>>

(* The snapshot store lists by index and keeps the two newest.             *)
Newest(old, new) == IF new.index >= old.index THEN new ELSE old

Keep(n, s) ==
  /\ snap' = [snap EXCEPT ![n] = Newest(@, s)]
  /\ prev' = [prev EXCEPT ![n] =
                IF s.index >= snap[n].index THEN snap[n] ELSE Newest(@, s)]

(* Mutant of Backup: labelled with the next entry.                         *)
BackupAhead(n) ==
  [index |-> pending[n] + 1, state |-> badger[n], high |-> high[n], missed |-> missed[n]]

(* Persist looks at the store, never at closed.                            *)
Backup(n) ==
  [index |-> pending[n], state |-> badger[n], high |-> high[n], missed |-> missed[n]]

Persist(n) ==
  /\ Running(n)
  /\ pending[n] # 0
  /\ pending' = [pending EXCEPT ![n] = 0]
  /\ \/ /\ storeOpen[n]
        /\ Keep(n, Backup(n))
        /\ UNCHANGED faults
     \/ ~storeOpen[n] /\ UNCHANGED <<kept, faults>>
     \/ storeOpen[n] /\ faults < MaxFaults /\ faults' = faults + 1 /\ UNCHANGED kept
  /\ UNCHANGED <<now, log, status, storeOpen, badger, applied, appliedIndex, taken, base, history>>

-----------------------------------------------------------------------------
(* fsm.Restore, by its outcome for the node; NodeStore has its steps.      *)

(* Mutant of Restored: the snapshot is loaded over the live database.      *)
RestoredOver(n, s) ==
  /\ badger' = [badger EXCEPT ![n] =
                   [k \in Key |-> IF s.state[k] = Absent THEN @[k] ELSE s.state[k]]]
  /\ storeOpen' = [storeOpen EXCEPT ![n] = TRUE]
  /\ applied' = [applied EXCEPT ![n] = s.index]
  /\ appliedIndex' = [appliedIndex EXCEPT ![n] = 0]
  /\ base' = [base EXCEPT ![n] = s.index]
  /\ high' = [high EXCEPT ![n] = s.high]
  /\ missed' = [missed EXCEPT ![n] = s.missed]

(* Mutant of Restored: appliedIndex is not reset.                          *)
RestoredKeepsIndex(n, s) ==
  /\ badger' = [badger EXCEPT ![n] = s.state]
  /\ storeOpen' = [storeOpen EXCEPT ![n] = TRUE]
  /\ applied' = [applied EXCEPT ![n] = s.index]
  /\ base' = [base EXCEPT ![n] = s.index]
  /\ high' = [high EXCEPT ![n] = s.high]
  /\ missed' = [missed EXCEPT ![n] = s.missed]
  /\ UNCHANGED appliedIndex

Restored(n, s) ==
  /\ badger' = [badger EXCEPT ![n] = s.state]
  /\ storeOpen' = [storeOpen EXCEPT ![n] = TRUE]
  /\ applied' = [applied EXCEPT ![n] = s.index]
  /\ appliedIndex' = [appliedIndex EXCEPT ![n] = 0]
  /\ base' = [base EXCEPT ![n] = s.index]
  /\ high' = [high EXCEPT ![n] = s.high]
  /\ missed' = [missed EXCEPT ![n] = s.missed]

(* What a restore that does not finish leaves in the live directory: the   *)
(* old database, the new one, or (both renames failing) a fresh one.       *)
LeavesOld == UNCHANGED <<badger, history>>

LeavesNew(n, s) ==
  /\ badger' = [badger EXCEPT ![n] = s.state]
  /\ high' = [high EXCEPT ![n] = Later(@, s.high)]
  /\ missed' = [missed EXCEPT ![n] = @ \cup s.missed]

LeavesEmpty(n) ==
  /\ badger' = [badger EXCEPT ![n] = EmptyState]
  /\ missed' = [missed EXCEPT ![n] = 1..applied[n]]
  /\ UNCHANGED high

Unfinished(n, s) == LeavesOld \/ LeavesNew(n, s) \/ LeavesEmpty(n)

(* A failed restore reopens what is there, or leaves the store nil.        *)
RestoreFails(n, s) ==
  /\ faults < MaxFaults
  /\ faults' = faults + 1
  /\ Unfinished(n, s)
  /\ \E open \in BOOLEAN : storeOpen' = [storeOpen EXCEPT ![n] = open]
  /\ UNCHANGED <<applied, appliedIndex, base>>

(* Raft has stored the snapshot before it calls Restore.                   *)
InstallSnapshot(n, m) ==
  /\ n # m
  /\ Running(n)
  /\ Running(m)
  /\ snap[m].index > applied[n]
  /\ Keep(n, snap[m])
  /\ \/ Restored(n, snap[m]) /\ UNCHANGED faults
     \/ RestoreFails(n, snap[m])
  /\ UNCHANGED <<now, log, status, taken, pending>>

-----------------------------------------------------------------------------
(* Lifecycle.                                                              *)

(* What the process held in memory is gone; the directories stay.          *)
Exit(n) ==
  /\ status' = [status EXCEPT ![n] = "down"]
  /\ storeOpen' = [storeOpen EXCEPT ![n] = FALSE]
  /\ applied' = [applied EXCEPT ![n] = 0]
  /\ appliedIndex' = [appliedIndex EXCEPT ![n] = 0]
  /\ pending' = [pending EXCEPT ![n] = 0]
  /\ base' = [base EXCEPT ![n] = 0]

(* Close begins: closed is set, Raft still runs.                           *)
Close(n) ==
  /\ status[n] = "up"
  /\ status' = [status EXCEPT ![n] = "closing"]
  /\ UNCHANGED <<now, log, storeOpen, badger, applied, appliedIndex, taken, pending,
                 kept, base, faults, history>>

(* Close returns: Raft has stopped, the store is closed.                   *)
CloseDone(n) ==
  /\ status[n] = "closing"
  /\ Exit(n)
  /\ missed' = [missed EXCEPT ![n] = {}]
  /\ UNCHANGED <<now, log, badger, taken, kept, high, faults>>

Crash(n) ==
  /\ Running(n)
  /\ Exit(n)
  /\ missed' = [missed EXCEPT ![n] = {}]
  /\ UNCHANGED <<now, log, badger, taken, kept, high, faults>>

(* A crash in the middle of a restore: no rename is undone.                *)
CrashInRestore(n, m) ==
  /\ n # m
  /\ Running(n)
  /\ Running(m)
  /\ snap[m].index > applied[n]
  /\ Keep(n, snap[m])
  /\ Exit(n)
  /\ \E c \in {badger[n], EmptyState, snap[m].state} :
       badger' = [badger EXCEPT ![n] = c]
  /\ high' = [high EXCEPT ![n] = Later(@, snap[m].high)]
  /\ missed' = [missed EXCEPT ![n] = {}]
  /\ UNCHANGED <<now, log, taken, faults>>

(* Open: with no snapshot Raft replays the log from its start over what    *)
(* the directory already holds.                                            *)
OpenReplay(n) ==
  /\ snap[n].index = 0
  /\ status' = [status EXCEPT ![n] = "up"]
  /\ storeOpen' = [storeOpen EXCEPT ![n] = TRUE]
  /\ UNCHANGED <<badger, applied, appliedIndex, base, faults, history>>

(* With one, NewRaft restores it first; when that fails it goes on to the  *)
(* older one, whose successors are still in the log (TrailingLogs).        *)
OpenRestore(n) ==
  /\ snap[n].index # 0
  /\ status' = [status EXCEPT ![n] = "up"]
  /\ \/ Restored(n, snap[n]) /\ UNCHANGED faults
     \/ /\ prev[n].index # 0
        /\ faults < MaxFaults /\ faults' = faults + 1
        /\ Restored(n, prev[n])

(* Open: the node is up when it returns.  An Open that fails leaves the    *)
(* node down; after a failed restore the next Open restores again, so what *)
(* it left behind is never looked at.                                      *)
Open(n) ==
  /\ status[n] = "down"
  /\ OpenReplay(n) \/ OpenRestore(n)
  /\ UNCHANGED <<now, log, taken, pending, kept>>

Next ==
  \/ Tick
  \/ \E req \in Request, t \in 1..now : Commit(req, t)
  \/ \E n \in Node : Apply(n)
  \/ \E n \in Node : TakeSnapshot(n)
  \/ \E n \in Node : Persist(n)
  \/ \E n, m \in Node : InstallSnapshot(n, m)
  \/ \E n \in Node : Close(n)
  \/ \E n \in Node : CloseDone(n)
  \/ \E n \in Node : Crash(n)
  \/ \E n, m \in Node : CrashInRestore(n, m)
  \/ \E n \in Node : Open(n)

Spec == Init /\ [][Next]_vars

(* Raft's FSM goroutine does not stop while the node runs.                 *)
FairSpec == Spec /\ \A n \in Node : WF_vars(Apply(n))

-----------------------------------------------------------------------------
(* Key k of database c was left there by entry j of lg (0: never written), *)
(* and whatever wrote k after j, up to entry a, is in M.                   *)
From(lg, c, a, M, k, j) ==
  /\ j # 0 => k \in Writes(lg[j])
  /\ c[k] = EffectAt(lg, j, k)
  /\ \A i \in (j + 1)..a : k \in Writes(lg[i]) => i \in M

(* Every key of c was left there by some entry of lg up to h.              *)
Covers(lg, c, a, h, M) ==
  \A k \in Key : \E j \in 0..h : From(lg, c, a, M, k, j)

(* Where every database and every snapshot comes from.  It is what makes   *)
(* the overlap of a backup with the entries replayed over it harmless      *)
(* (the argument in fsm.Snapshot's comment), and it is inductive.          *)
Provenance ==
  /\ \A n \in Node :
       /\ status[n] = "down" => applied[n] = 0
       /\ pending[n] <= applied[n]
       /\ applied[n] <= Len(log)
       /\ high[n] <= Len(log)
       /\ Covers(log, badger[n], applied[n], high[n], missed[n])
  /\ \A n \in Node : \A s \in {snap[n], prev[n]} :
       /\ s.index <= Len(log)
       /\ s.high <= Len(log)
       /\ Covers(log, s.state, s.index, s.high, s.missed)

(* A node that has replayed past everything its database already held has, *)
(* under every key, exactly what the log prefix it applied says (value and *)
(* expiry), except keys whose last write it is known to have missed.       *)
ConvergedUnlessMissed ==
  \A n \in Node, k \in Key :
    /\ Readable(n)
    /\ high[n] <= applied[n]
    /\ LastWrite(log, applied[n], k) \notin missed[n]
    => badger[n][k] = StateAt(log, applied[n])[k]

(* Restoring snapshot s and replaying log[s.index + 1 .. i].                *)
Replay(s, i) ==
  LET db[j \in s.index..i] == IF j = s.index THEN s.state ELSE ApplyTxn(db[j - 1], log[j])
  IN db[i]

(* fsm.Snapshot's comment: replaying the overlap after a restore converges *)
(* to the same final state.  A restore of any retained snapshot followed  *)
(* by a replay past everything the backup had captured gives the state of  *)
(* the log, except on keys whose last write the snapshot's node had missed. *)
SnapshotSound ==
  \A n \in Node : \A s \in {snap[n], prev[n]} : s.index # 0 =>
    \A i \in Later(s.index, s.high)..Len(log) : \A k \in Key :
      LastWrite(log, i, k) \notin s.missed => Replay(s, i)[k] = StateAt(log, i)[k]

(* fsm.appliedIndex is the last command that succeeded since the FSM       *)
(* started or was restored: it is 0 or past what the restore brought, and  *)
(* whatever Raft has applied after it came with the restore or failed.     *)
AppliedIndexExact ==
  \A n \in Node :
    /\ appliedIndex[n] = 0 \/ appliedIndex[n] \in (base[n] + 1)..applied[n]
    /\ \A i \in (appliedIndex[n] + 1)..applied[n] : i <= base[n] \/ i \in missed[n]

(* A running node whose store stays open catches up with the log on every  *)
(* key whose last write it did not miss.                                   *)
EventuallyConverged ==
  \A n \in Node :
    <>[]Readable(n) =>
      <>[](\A k \in Key : LastWrite(log, Len(log), k) \notin missed[n] =>
             badger[n][k] = StateAt(log, Len(log))[k])

(* doc.go: "Raft guarantees they converge to identical state".  With no    *)
(* I/O failing, a node that has caught up holds what the log says.         *)
Converged ==
  \A n \in Node :
    Readable(n) /\ high[n] <= applied[n] => badger[n] = StateAt(log, applied[n])

(* write.go, Batch: "no node ever observes a partial batch".  If a node    *)
(* shows what only entry i left under one key, it shows what i or a later  *)
(* entry left under every other key of i.                                  *)
NoPartialBatch ==
  \A n \in Node, i \in 1..Len(log) : \A k, l \in Writes(log[i]) :
    LET shown(entries, x) ==
          {Effect(log[j], x) : j \in {j \in entries : x \in Writes(log[j])}}
    IN /\ Readable(n)
       /\ badger[n][k] = Effect(log[i], k)
       /\ badger[n][k] \notin {Absent} \cup shown(1..Len(log) \ {i}, k)
       => badger[n][l] \in shown(i..Len(log), l)
=============================================================================
