# Honeybadger: TLA+ models and proofs

Honeybadger (`src/`) is an embeddable replicated key-value store: every write is
committed through hashicorp/raft and then applied by each node to a Badger
database of its own. This directory holds a specification of the code that is
honeybadger's own (the replicated command, the FSM, snapshots and restores, the
lifetime of the Badger handle, the client protocol, opening and closing, request
validation), the TLC runs that check it on small instances, and TLAPS proofs that
hold for every instance. `PROJECT.json`
lists the runs, the lines each definition models, the mutants, the hazards, the
findings and the theorems.

    tlc -workers 2 -config MCReplication_pair.cfg MCReplication
    tlapm ClientProofs.tla

## 1. Inventory

| Component | State | Operations | Talks to |
|---|---|---|---|
| Command (`fsm.go:16-43,106-130`) | none; a value in the log | encode, decode, the transaction | the log, Badger |
| FSM (`fsm.go`) | `appliedIndex`; Raft's own FSM index beside it | `Apply`, `Snapshot`, `Restore`, on Raft's FSM goroutine | called by Raft, uses the store handle |
| `fsmSnapshot` (`fsm.go:356-393`) | a snapshot labelled, not yet written | `Persist`, on Raft's snapshot goroutine, concurrent with `Apply` | reads Badger, writes Raft's sink |
| Store handle (`db.go`) | `store`, `storeMu`, `closed`, `closeOnce`; the live, staging and backup directories | `withStore`, `closeStore`, the swap, `Close` | readers, `Apply`, `Persist`, `Restore`, `Close` |
| Write requests (`write.go`, `options.go`) | none | `SetBytes`, `DeleteBytes`, `Batch`, `resolveSetOptions`, `absExpiry` | `apply` |
| Read requests (`read.go`, `options.go`) | none | `Get`, `GetBytes`, `ScanPrefixBytes`, `ViewBadger`, `Barrier` | Raft's barrier, `withStore` |
| Client protocol (`db.go:281-315`, `read.go:15-40`) | Raft's role | leader check, `raft.Apply`, error mapping, leader check and barrier of a read | Raft |
| Open (`db.go:60-170`) | Badger, Bolt store, transport, Raft | acquire, release on failure, bootstrap, wait for a leader | all of the above |
| Membership, leader discovery (`cluster.go`) | Raft's configuration | `AddVoter`, `RemoveNode`, `Members`, `Snapshot`, `WaitForLeader` | Raft |
| Status (`status.go`) | none | `Status`, `RawRaftStats` | Raft, `appliedIndex` |

What is hard here:

* **Replay over later content.** Badger is durable by itself, Raft's FSM index is
  not: after a restart the log is replayed, from its start or from the newest
  snapshot, over a database that already holds later entries. A backup is read
  some applies after its label was chosen. Only blind commands make that end well.
* **Failures Raft does not see.** A command that fails on one node counts as
  applied there. So does one that meets a closing node.
* **The swap.** `Restore` replaces a database that readers, `Apply` and a backup
  are using, by two renames and an open, each of which can fail or be the last
  thing before a crash. A restore that fails inside `Open` is followed by another, of the
  older snapshot, over whatever the first one left.
* **Locks.** `storeMu` is a Go RWMutex (a waiting writer keeps new readers out),
  taken by readers, two of Raft's goroutines and `Close`, and `Close` waits for
  Raft's goroutines.
* **Leadership.** A node learns late that it was deposed, and most errors of Raft
  leave open whether the entry will commit; some futures nobody answers at all. The leader check, the barrier and the
  read are three moments; a restore or an election may fall between them.
* **Acquire and release.** `Open` takes four resources and can fail after each; a
  restore inside `NewRaft` may close the first again; with `NewCluster` the DB is
  live before `Open` returns, and giving up goes through `Close` instead.
* **Boundaries.** Expiries in whole seconds with 0 for none, scan limits with 0
  for the default, timeouts of 0 that would mean none to Raft, all sets of a command
  before all its deletes.

What makes each part correct: every database is what the log prefix says, key by
key, up to what the node is known to have missed; a snapshot can be restored and
replayed anywhere; an instance of Badger is used only while it is open and is
never lost; what is served is complete, and not older than before but for the older snapshot `Open` may
fall back to; every restore
and every `Close` ends; callers see one map, in which a write happens once, in its
interval or, after an error that leaves it open, later, and a refused one never; `Open`
leaves nothing behind when it fails and never founds a cluster twice; a batch means what its mutations mean one after the other.
The hazards, each at its line, are in `PROJECT.json`.

## 2. Modules

| Module | Models | Theorems |
|---|---|---|
| `Command` | the command, its transaction, expiries; reference definitions of "the state after a log prefix" | `CommandProofs` |
| `Replication` | a cluster over one committed log: `Apply`, `Snapshot`, `Persist`, `Restore` by outcome, `Open`, `Close`, crashes | `ReplicationProofs` |
| `NodeStore` | one node's store handle, step by step: `storeMu`, the restores, `Close`, crash, `Open` | `NodeStoreProofs` |
| `AtomicStore` | abstract: a store that is replaced as a whole, while nobody uses it, or not at all | |
| `StoreHistory` | nothing new of the code: `NodeStore` with the store a restore found as a history variable, and the mapping to `AtomicStore` | `AtomicProofs` |
| `MapService` | abstract: the one map the cluster's callers may rely on | |
| `Client` | the calls (`apply`, `prepareRead`, `Barrier`, `AddVoter`, `RemoveNode`) over `Replication`, with leaders | `ClientProofs` |
| `Lifecycle` | `Open`, its cleanups, bootstrap, `waitForLeader`, `Close`, over one data directory | `LifecycleProofs` |
| `Requests` | arguments to commands, reads to barriers, scans to results | `RequestsProofs` |
| `Recursion` | nothing of the code: induction and recursion over an interval, for the proofs about loops and replays | itself |
| `MC*` | instances for TLC | |

`Replication`, `Requests` and `MapService` extend `Command`. `Client` extends `Replication`
and implements `MapService` (`INSTANCE MapService WITH ...`). `NodeStore` is the detailed view
of the one action `Replication` takes by its outcomes: `Restored`, `RestoreFails` and
`CrashInRestore` list what its steps can leave behind. That they list all of it is what
`AtomicStore` says: it has those outcomes and no others, and `NodeStore` implements it
(`StoreHistory`). `Lifecycle` takes Badger as
one of four resources.

### Command

A database is a total function from keys to an entry (value, absolute expiry) or
`Absent`. `ApplyTxn` is the body of `badger.Update` in `fsm.Apply`: all sets, then
all deletes. `StateAt(log, i)` is the reference: each key has what the last of the
first `i` entries that writes it says, without replaying anything.

### Replication

| Variable | Code |
|---|---|
| `log` | the committed entries (Raft) |
| `status`, `storeOpen` | `DB.closed` and the process; `DB.store != nil` |
| `badger` | what the node's Badger directory holds; survives a crash |
| `applied` | Raft's FSM index, in memory, counts failed entries too |
| `appliedIndex` | `fsm.appliedIndex` |
| `pending` | the label of a snapshot between `Snapshot` and `Persist` |
| `taken` | snapshots taken so far (a bound) |
| `snap`, `prev` | the two snapshots in the node's snapshot store (`snapshotRetainCount`), the newest and the other |
| `base` | the index of the snapshot the FSM last restored |
| `high`, `missed` | history: the highest entry that can have left something in the database; the entries counted as applied and never received |
| `now`, `faults` | the clock; failures so far |

Each action is one handler. `Commit` is a write from stamping the expiry to the
commit (the stamp may be from any earlier tick). `Apply` has the two outcomes of
`fsm.Apply`: success, or an error that Raft ignores (`ErrClosed`, or a failing
transaction, bounded by `MaxFaults`). `TakeSnapshot` and `Persist` are apart because
Raft runs them apart. `Persist` looks at the store and not at `closed`, as the code
does. `Open` replays from the start when there is no snapshot. Otherwise it restores the newest,
or the older one when that fails, and the log is replayed from there: `TrailingLogs`
(`db.go:132`) keeps a threshold of entries behind the newest snapshot, and the model assumes that
those behind the older one are among them.

### NodeStore

One goroutine per reader and closer, plus Raft's FSM and snapshot goroutines; `pc`
says where each is. `rlocks`, `writer` and `waiting` are `storeMu`; `waiting` is what
makes `RLock` block behind a blocked `Lock`. `store` is `DB.store`, `open` the Badger
instances open on the live directory (`inPlace` says which restore the layout calls for), `fresh` the one a restore has opened and not
yet published, `held` the one each goroutine uses. Directories hold a number:
`Missing`, `Torn`, `Partial`, `Empty`, or a generation of complete data. Each statement
of `Restore`, `rollbackAndReopenLocked`, `reopenLocked` and `restoreInPlace` that touches
a file, Badger or the lock is a step, with its failing outcome, and `Crash` may fall
between any two. `snapshot` and `older` are the generations of the two snapshots Raft keeps. `Boot`
is the part of `Open` up to `NewRaft`, which restores the newest before anybody has the `DB`. When
that restore fails, `TryOlder` calls `Restore` again with the other one (`restoreErr`'s comment,
`fsm.go:286`) on the directories as they are; only when that fails too, or when there is no other,
comes `OpenFails`, the deferred `closeStore`. `lost` remembers that a restore met two failures since
the last one that succeeded; `faults` counts per restore.

`AtomicStore` has no lock, no directories and no steps of a swap: a store is open or not and has
some content, and a restore succeeds (`Restored`), or fails or is cut off (`RestoreFails`, `Exit`,
`OpenFails`) and leaves the old content, the new or none; an `Open` that succeeds has one of the two
snapshots, if there is any. In the mapping a directory counts as what
an open finds in it (`Data`: torn and half loaded ones have no data), and while `Restore` holds
`storeMu` the abstract store is the one it found, which `before` remembers: the abstract step is the
one that gives the lock back. Between those two moments the live directory may be missing; that
nobody can tell is the point of the refinement.

### Client and MapService

A member of `Write`, `Read` or `Change` is one call. `stage` is how far it is: admitted and
in Raft's queue (`queued`), appended by a leader (`sent`), `committed` and in the FSM's queue, for
a read past its barrier (`reading`), its answer, or `stranded`. `at` is the node it runs on, `index` the entry its future
waits for. `entry` follows its log entry by itself: it may be pending, and commit, after the
call has failed. `leader` is the one node that can commit; `isLeader[n]` is what `State()` says
on `n`, which a deposed node changes only by `StepDown`. `Admit` is the common head of `apply`,
`prepareRead`, `AddVoter` and `RemoveNode` (`checkOpen`, then `State`); `EnqueueTimeout` is what
`ApplyTimeout` bounds, and nothing bounds the wait after it, as in the code; `ApplyAt` is
`fsm.Apply` answering the write that waits for it; `Pass` is `Barrier`'s and a configuration's
way past the FSM; `ReadStore` is `getBytes`. A closing node's Raft answers what its main goroutine
has not handed to the FSM (`Shutdown`), and a commit may find no room in the FSM's queue any more
(`Committed`). What is in that queue when the FSM's goroutine ends is answered by nobody:
`CloseDoneAt` leaves such calls `stranded`. A crash takes its callers with it. `Commit` and `Apply` are `Replication`'s own
actions, so that replay, failed applies, snapshots and restores are all under the calls.

`MapService` knows nothing of nodes: a sequence of versions of one map, calls that take effect
once or not, and reads that return what some version of their interval holds. In the refinement
mapping version `i + 1` is what the first `i` log entries leave (`StateAt`), a write has taken
effect when its entry is in the log, and `blind` are the reads on a node that never received the
last write of their key (a failed apply, `ErrClosed` in a shutdown): those get an older version,
and that is the one way in which the code's linearizable read is not one.

### Lifecycle

`pc` is the step of `Open`; each acquisition succeeds or fails (`Acquire`), pushes its deferred
cleanup on `armed`, and `Unwind` pops them. `held` are the open resources, `twice` records that
a cleanup or `Close` met one that was not open. `Bootstrap` leaves a directory with a cluster alone, as
`ErrCantBootstrap` does. `NewRaft` may fail with Badger already closed by its restore. With
`NewCluster` `Open` runs `waitForLeader` like any other caller, and `Close` when it gives up, which
disarms the cleanups. `closing` walks through the four calls of `errors.Join`, each of which may
fail without stopping the rest. The first, Raft's `Shutdown`, closes the transport already, and the
second closes it again, which is a no-op. `cluster` is what the directory knows of a cluster, `leader` what
`LeaderWithID` says; both belong to Raft (`RaftStep`).

### Requests

`SetBytes`, `DeleteBytes`, `Batch`, `GetBytes` and `ScanPrefixBytes` as functions of their arguments,
loops as recursive functions with the code's early exits. `Batch` asks first whether the DB is open;
`BatchCommand` is its loop, and the `NoCommand` it leaves for no mutations stands for nothing being
submitted. A scan waits for the same barrier as a
point read. A state is a call and its answer.

## 3. Runs

All passing runs together take about eight minutes with two workers.

| Run | Instance | Shows |
|---|---|---|
| `replication_pair` | 2 nodes, 2 keys, 2 commands that overlap, 2 snapshots taken, 1 failure, symmetric nodes; 1.0M states | `TypeOK`, `Provenance`, `ConvergedUnlessMissed`, `AppliedIndexExact` |
| `replication_replay` | 1 node, 3 commands (sets, deletes, TTLs), 2 ticks, 2 snapshots taken, 1 failure; 1.8M states | `Provenance`, `ConvergedUnlessMissed`, `SnapshotSound`, `EventuallyConverged` |
| `node` | staged and in-place restore, 1 reader with nested reads, 2 closers, 1 new generation, 3 failures in each restore; 235k states | `TypeOK`, `NoUseAfterClose`, `NoLostInstance`, `ClosedIsFinal`, `ServesPublishedOrEmpty`, `RestoreEnds`, `CloseEnds`, `GoesBackOnlyToOlder`, `ImplementsAtomicStore` |
| `client` | 2 nodes, two calls out of a write, a read (local or not), a removal and an addition of a server; 2 elections, 1 snapshot taken, 1 close or crash; 266k states | `ClientInv`, `RefusedNeverTakesEffect`, `LinearizableReads`, `CallsReturn`, `ImplementsMap` |
| `lifecycle` | 2 Opens, 1 crash, 2 callers and the opener; 211k states | `TypeOK`, `RaftHasItsStores`, `NothingLeaks`, `ReleasedOnce`, `ClosersAgree`, `KeepsCluster`, `EverythingReturns` |
| `requests` | all batches of up to 3 of 9 mutations, Sets at every tick of a second, reads and scans with every sign of the timeouts, scans of all 27 databases; 58k states | `BatchIsItsSequence`, `TTLWindow`, `ReadsAreBounded`, `ScanIsPrefix` |

What the properties say:

* `Provenance`: every key of every database and of every snapshot was left there by
  some committed entry `j` (or never written), and every later entry that writes the
  key, up to the node's index, is one it missed.
* `ConvergedUnlessMissed`: once a node has replayed past everything its database
  already held, each key has exactly the value and the expiry that the log prefix
  says, except keys whose last write it missed.
* `SnapshotSound`: restoring either of the snapshots a node keeps and replaying the log past what
  the backup had captured gives the state of the log, for every such prefix.
* `AppliedIndexExact`: `appliedIndex` is 0 or past the last restore, never ahead of
  Raft, and lags only over restored or failed entries.
* `EventuallyConverged`: a node whose store stays open ends with the state of the log.
* `NoUseAfterClose`, `NoLostInstance`: the handle discipline `storeMu` is for; a lost
  instance would hold Badger's directory lock and make every later open fail.
* `ClosedIsFinal`: after `Close` has returned, to whichever caller, the store is closed,
  nobody holds it and Raft's goroutines have ended.
* `ServesPublishedOrEmpty`: no torn or partial database is ever served, and none older than
  what was published last, across failed restores, crashes in a swap and reopening. The
  single exception takes two failures in one staged restore and is an empty database: the rename
  into place and the rename back both fail, and `reopenLocked` creates what it does not find
  (`fsm.go:281`; the comment at `fsm.go:176` names the old data and no store only).
* `GoesBackOnlyToOlder`: what is published is never older than what was published before, except
  by an `Open` whose restore of the newest snapshot failed: that one publishes exactly the
  snapshot kept beside it. One failing operation is enough for it, and the log brings the node
  forward again (`SnapshotSound`).
* `ImplementsAtomicStore`: `HSpec` implies `AtomicStore`'s specification. Nobody uses the store
  while it changes, a restore that is seen to succeed has put exactly the newest snapshot there, one
  that fails or is cut off leaves the old data, the new data or none, and after a restart one of the
  two snapshots is restored before anybody looks.
* `RestoreEnds`, `CloseEnds`: no early return keeps the lock, nobody waits for ever, except
  behind the nested read of the `nested_read` finding.
* `ClientInv`: entries match their calls, and past its barrier a read's node has applied all
  that was committed when the read was made.
* `RefusedNeverTakesEffect`: `NotLeaderError` and an enqueue timeout mean that the call may be
  repeated. Of the other errors nothing of the kind holds.
* `LinearizableReads`: a read returns what some log prefix between its call and its answer
  leaves under its key, although the node may be deposed or restored after the barrier; a local
  read returns what some prefix leaves there.
* `ImplementsMap`: all of it together, for a caller: `ClientSpec` implies `MapService`'s.
* `CallsReturn`: every call is answered, whatever is elected, deposed or closed, except those
  that a `Close` finds in the FSM's queue (the `apply_timeout` finding).
* `RaftHasItsStores`, `NothingLeaks`: exactly what was acquired is released, and not under a
  running Raft. `ReleasedOnce`: `Open`'s cleanups and `Close` never meet a resource that the other
  has released. `ClosersAgree`: one result for all callers of `Close`.
  `KeepsCluster`: only `NewCluster` on a directory without a cluster founds one.
  `EverythingReturns`: `Open`, `Close` and `WaitForLeader` return, with or without a leader.
* `ReadsAreBounded`: no read hands Raft a timeout of 0, which would be none, and no
  linearizable read goes without its barrier. Raft applies the timeout to the enqueueing only, so
  this does not bound the whole wait.
* `BatchIsItsSequence`: an accepted batch equals its mutations one by one, although the
  command runs sets before deletes. `TTLWindow`: a key is gone once its TTL is over and at
  most a second early. `ScanIsPrefix`: a scan is the first keys, in order, up to the limit.

Each property of a passing run has a mutant in `PROJECT.json`, a definition next to the
one it replaces, under which TLC finds the property violated.

**Bounds.** `MaxLog`: two commands suffice for an entry replayed over a later one, a
third for a delete or a TTL write in between. `MaxNow`: two ticks let a key written
with the shortest TTL expire. Two nodes suffice for a snapshot that carries its node's
gaps to another; `InstallSnapshot` involves two. `MaxTaken`: two snapshots are the two a node keeps,
and with one failure `Open` falls back to the older. In `node`, `MaxFaults` is the longest chain of
failures within one restore (open, remove, reopen), counted anew for each; a restore concerns the
generation published and the one to come, and a node that starts with a snapshot of its first data
has two snapshots after the first one it receives, so one new generation is enough for a fallback; one reader is in the way of a writer as
well as two are, and two closers are needed for one to wait for the other. In `client`, two nodes
and two elections let a leader be deposed without knowing it and come back; two calls let a read
begin before, during and after a write, or a write meet a membership change; one exit is a close or
a crash at any moment, and one snapshot is one to install or to restart from (the fallback concerns
databases, and is in the runs of `Replication`). In `lifecycle`, two Opens are the first and the one that finds a directory
with a cluster, with a crash in between or not. What the bounds cut off the theorems cover, except for liveness.

**Deadlock** is checked in every run of `Replication` and `NodeStore`. `requests` ends
after one answer, `client` when its calls are made and its bounds used up, `lifecycle` after its
last Open has failed or been closed, so it is switched off there.

**Fairness.** `Replication`: weak fairness of `Apply` only; Raft's FSM goroutine takes
committed entries as long as the process runs. Nothing else has to happen: clients,
snapshots, closes and crashes are not fair. `NodeStore`: weak fairness of the steps of an
operation that has begun (a goroutine that can go on goes on, callbacks return, Go's
mutex is granted), never of beginning one. Strong fairness of `RaftExit`: Raft's
goroutines choose between their work and the shutdown channel with `select`, which is
random among ready cases, so it does not pass over the shutdown for ever. `Client`: the
enqueue timer fires; a leader commits or, when it has lost its quorum, steps down (Raft's lease),
which is one fair choice; the FSM goroutine applies as long as the node runs, and a `Close` that
has begun ends (`CloseEnds`, with its exception): one fair choice too, since a shutdown may come
before the next entry; a read that was let through ends. No election
has to succeed and no call has to be made. `Lifecycle`: the steps of `Open`, `Close` and a poll
that has begun, the return of Raft's `Shutdown`, and the passing of deadlines; no leader has to
appear.

## 4. Findings

Six statements of the repository's docs or comments that the model of the code
contradicts. Each is a run in which TLC finds the counterexample.

| Run | Statement | What happens |
|---|---|---|
| `close_loses_write` | "Raft guarantees they converge to identical state" (`doc.go:7`) | `Close` sets `closed` before it stops Raft. Entries applied in between fail with `ErrClosed`, count as applied, and a snapshot persisted then (its check is for a nil store only) covers them without containing them. No operation fails, no line is logged, the node lacks the entry for good. |
| `partial_batch` | "no node ever observes a partial batch" (`write.go:47`) | During a replay over later content an older single write shows next to the batch's other key. In the same way it shows an older value without a TTL after a later write with one has expired, against `options.go:57` ("can neither resurrect an expired key nor extend a live one"). |
| `apply_timeout` | "ApplyTimeout bounds how long a replicated write, a membership change, or the barrier behind a linearizable read waits for Raft" (`config.go:46`), "up to timeout" (`read.go:156`) | It bounds the enqueueing. After that `apply`, `Barrier`, `AddVoter` and `RemoveNode` wait for the future without a timeout, and a future that is in the FSM's queue when `Close` stops Raft is never answered. |
| `nested_read` | "the swap's exclusive lock waits those out" (`fsm.go:186`) | A read inside a `ViewBadger` callback takes `storeMu` a second time; with a restore waiting in between, both wait for ever. |
| `silent_apply` | "failures are also logged ... to keep a diverging node from going unnoticed" (`fsm.go:95`) | With no store after a failed restore, an open node drops every command with `ErrClosed`, which `Apply` never logs. |
| `open_follower` | "the returned DB is immediately writable" (`db.go:59`), "a safe choice for restarts of the bootstrap node" (`options.go:34`) | `waitForLeader` accepts any leader: the bootstrap node of a cluster that has grown, opened again with `NewCluster`, comes back as a follower. |

## 5. Proofs

The proofs are checked by TLAPS for any set of nodes, keys, values, requests, calls and callers
and any bounds, from the assumptions named in the modules that declare the constants (a clock resolution of at
least one tick a second, `Absent` different from every entry, requests and calls of the right shape,
goroutines with names of their own, bounds in `Nat`; in `Requests` also that the clock is past the
first second of Unix time and that the keys with a prefix are next to each other in Badger's
order); the runs evaluate all of them. Every invariant, action property and refinement of the
passing runs is a theorem; liveness is not.

**`ReplicationProofs`**

* `TypeCorrect`: `Spec => []TypeOK`.
* `ProvenanceHolds`: `Spec => []Provenance`, the inductive invariant, given `TypeOK`.
* `Convergence`: `Spec => []ConvergedUnlessMissed`.
* `AppliedIndexHolds`: `Spec => []AppliedIndexExact`.
* `SnapshotSoundHolds`: `Spec => []SnapshotSound`.

The argument. Convergence is not inductive: it says nothing of a database in the middle
of a replay, of one that is down, or of a snapshot, and each of those becomes the live
database later. `Covers(log, c, a, h, M)` does: each key of `c` was left by some entry
`j <= h`, and what wrote the key in `j+1..a` is in `M`. One lemma for each thing that can
happen to a database: applying entry `a+1` (`CoversApply`: a blind write makes `j` the new
entry), missing it (`CoversMiss`), starting over with `a = 0` (`CoversRestart`: this is why
replaying over later content is harmless), a fresh directory (`CoversEmpty`), relabelling a
backup lower than it is (`CoversWeaken`: this is why a backup ahead of its label is
harmless), and a longer log (`CoversAppend`). `NextProvenance` has a step for each action that
cites them. Then `CoversConverges`: when `h <= a`, the entry `j` of a key that was not missed
can only be the last of the first `a` that writes it. That such a last write exists comes from
the well-foundedness of the naturals (`LeastNat`, `LastWriteExists`). `SnapshotSound` follows
the replay entry by entry (`ReplayCovers`): the restored snapshot satisfies `Covers` by `Provenance`,
each replayed entry keeps it by `CoversApply`, and at the end of the overlap `CoversConverges` gives the
state of the log. That the recursive function `Replay` is written with has the values its equation
says is `ReplayDefined`.

**`ClientProofs`**

* `ClientInvHolds`: `ClientSpec => []ClientInv`.
* `RefinesReplication`: `ClientSpec => Spec`, so the theorems above hold with leaders and calls.
* `RefusalHolds`: `ClientSpec => []RefusedNeverTakesEffect`.
* `ReadsHold`: `ClientSpec => LinearizableReads`.
* `MapHolds`: `ClientSpec => ImplementsMap`.

`ClientInv` is inductive with `Provenance`. Its core is the chain a read goes along: its barrier
commits at an index no lower than the log's length at the call, the FSM passes the barrier only
once it has applied that index, and nothing moves a running node's FSM index back (`ReplicationInv`
has that for every step of `Replication`). So behind the barrier `applied` is past `since`, and
`Provenance` says that the key's value was left by some entry `j` with no later write up to
`applied` except missed ones: `CoversRead` makes of that a log prefix, `applied` or, where the
database is ahead of it, `j`, and `ReadValue` that it lies in the read's interval. The refinement has a lemma for each step of the map (`MapStart`, `MapCommit`,
`MapAcknowledge`, `MapRefuse`, `MapFail`, `MapRead`, and `MapGone` for all the calls of a node that
ends: those that fail do so in the map, those that are stranded stay open in it); everything a node does by itself is a
stutter (`MapStutter`), and `StateAtNext` shows that one more log entry is one more transaction.

**`LifecycleProofs`**

* `LifecycleTypeCorrect`, `RaftStoresHold`, `NothingLeaksHolds`, `ReleasedOnceHolds`,
  `ClosersAgreeHolds`: `Spec => []P` for the five invariants of the `lifecycle` run.
* `KeepsClusterHolds`: `Spec => KeepsCluster`.

That nothing leaks says nothing of an `Open` in the middle. `LifeInv` (`LifeInvHolds`) does: what is
held and armed at each step of `Open` (`Acquired`), that bolt and transport are held exactly while
their cleanup is armed during the unwinding, Badger excepted (`Unwinding`), that the teardown has
taken exactly the resources before its position, the transport with Raft itself (`Tearing`), that there is no Raft and no teardown
outside (`Outside`), and that a closer has returned only the result of a finished teardown
(`Returned`). TLC finds no violation of it on the instance of the `lifecycle` run.

**`NodeStoreProofs`**

* `NodeInvHolds`: `Spec => []NodeInv`, the inductive invariant.
* `NodeTypeCorrect`, `NoUseAfterCloseHolds`, `NoLostInstanceHolds`, `ClosedIsFinalHolds`,
  `ServesPublishedOrEmptyHolds`: `Spec => []P` for the five invariants of the `node` run.
* `GoesBackOnlyToOlderHolds`: `Spec => GoesBackOnlyToOlder`.

For any finite sets of readers and closers, any number of snapshots and of failing operations. None
of the five is inductive. `NodeInv` has two halves. `Control` says what `storeMu` is for: which
goroutine can be where (`Places`), that the program counters determine the lock and that it excludes
(`Mutex`), that whoever uses an instance uses `DB.store` and that nothing is open but the store and
what `Restore` is about to publish (`Handles`), that `Close` asks for the lock only after Raft's
goroutines have ended (`Closing`; without it a restore could publish an instance after `Close` had
looked), and that before `Open` returns nobody but `Restore` runs (`Phases`). `Disk` follows the three
directories through a restore: the snapshot is complete in staging before the swap begins (`Staged`),
what the live directory held is in it or in the backup until the new one is open (`Swapping`), and the
in-place path serves nothing before it is loaded (`InPlace`, `Serving`). Because a `Crash` may fall
between any two steps, `Disk` cannot say more about a node that is down than that Raft's newest snapshot
is at least as new as what was published, and the older one a complete generation (`Snapshots`): that is
why `Open` restores one of them before it serves. What a failed first restore of an `Open` leaves needs
no invariant of its own, because the second begins, like the first, by replacing the live directory
whatever it holds (`TryOlderKeeps`). `Servable` counts failures: a rename back that is needed and fails
is the second one of its restore. The operators on files, Badger and the
lock have a lemma each (`RemoveAllDoes`, `RenamedDoes`, ...), every action a lemma for each half. TLC
finds no violation of `NodeInv` with two new generations, one closer and three failures in each restore
(258k states).

**`AtomicProofs`**

* `AtomicStoreHolds`: `HSpec => ImplementsAtomicStore`, for the same constants.

Beside `NodeInv`, which `HSpec` inherits (`HistoryIsNode`), the mapping needs to know what a swap
goes back to. `SwapInv`: the data found are in the live directory up to the first rename, in the
backup from there until the new store is published or the backup has been moved back, and throughout
the live directory opens as the data found, the snapshot being restored (`Source`), or no data. Every step of `NodeStore` is
then one of five kinds, each with a lemma: it does not touch what is seen (`AnotherStep`,
`OutsideSwap`), it is inside a swap (`SwapStep`, a stutter), it ends one without a new store
(`SwapGivenUp`: `RestoreFails`, or `OpenFails` in a booting node), it publishes (`SwapDone`:
`Restored`, or `Open` with either snapshot), or it is a step of `AtomicStore` by itself (`Use`, `Done`, `Receive`,
`Close`, `Exit`). `Alone` is why a swap is atomic: `storeMu` has everybody else out, and `Close`
waits for Raft before it asks for it. `TryOlder` is a stutter: nobody sees a node that is booting. TLC
finds no violation of `SwapInv` on the same instance as `NodeInv`.

**`RequestsProofs`**

* `ReadsAreBoundedHolds`, `TTLWindowHolds`, `BatchIsItsSequenceHolds`, `ScanIsPrefixHolds`: `Spec => []P`
  for the four invariants of the `requests` run, for batches of any length, any number of keys, any
  TTL, limit and timeout.
* `BatchEffect`: a batch's command and its mutations one by one leave the same in *every* database.

A batch is followed round by round: a mutation that is accepted has a key the command so far does not
touch (`Fresh`), so adding it is the same as running its own command afterwards (`AddMutationEffect`),
however sets and deletes are mixed. A scan keeps `ScanInv`: the entries are the matches up to some
position `c`, in order and no more than the limit, and the iterator is at `c` or has stopped because
the result is full or because no later key has the prefix. The TTL window is arithmetic about whole
seconds (`UnixBounds`, `UnixOrder` in `CommandProofs`).

**`Recursion`.** The library's induction and recursion theorems have operators as parameters, which
the provers cannot instantiate. `IntervalInduction` takes a set instead of a predicate, and
`RecursionExists` a function of step functions instead of an operator: from them the proofs get that
`Replay`, `Batch` and `Scan` satisfy the equations they are defined by, and induction along them.

Only model-checked: liveness (`EventuallyConverged`, `RestoreEnds`, `CloseEnds`, `CallsReturn`,
`EverythingReturns`), because fairness and `ENABLED` are outside the prover, and the counterexamples of
the findings.

## 6. Abstractions

* **Raft is external.** One committed log; a node applies it in order; a snapshot is taken
  and persisted by Raft, and installed on a running node that has applied less; Raft stores a
  snapshot before it restores it; a failed restore leaves Raft's FSM index alone. Elections,
  quorums and compaction are Raft's; that the log reaches back to the older of the two snapshots is
  assumed.
* **Snapshots of one node.** The snapshots of `NodeStore` are those the leader sends and one of the
  data the node starts with; those it takes itself are in `Replication`.
* **Missed entries.** `missed` may name an entry whose effect the database has after all: one that
  fails while it is replayed over later content, or one that came with the snapshot of a restore that
  failed at its end. The properties that except missed writes are weaker by those cases.
* **Leaders.** In `Replication` any node that is up may commit: which one is the leader makes no
  difference to what the log does to databases. In `Client` one node can commit, terms and votes
  are left out, and pending entries may commit in any order, also after their leader is gone.
* **Errors.** `ErrClosed`, `ErrRaftShutdown`, `ErrLeadershipLost` and the FSM's error are one answer,
  `error`: `ErrClosed` alone may come from `checkOpen` or from the FSM after the commit, so a caller
  cannot tell them apart by what they promise.
* **Reads** are of one key; that a scan's keys are of one version is not claimed. `Barrier` called
  directly with a timeout of 0 waits for Raft without one; `ReadsAreBounded` is about the reads.
* **Lifecycle** has one DB at a time over its directory; `BootstrapCluster` is atomic. Raft
  closes the transport as part of its `Shutdown`, and the transport's own `Close` minds that as
  little as a nil store minds `closeStore`.
* **Badger** transactions are atomic and survive the end of the process. `Backup` is one read
  of the database (the argument about `Covers` is key by key and does not depend on it). A backup
  leaves out expired entries where the model keeps them: no later read can tell.
* **Files.** `RemoveAll` may give up half way; `Rename` fails when the target exists or the
  source does not; `badger.Open` creates a missing directory, and refuses a torn one or takes it
  for a new one. The separate `ValueDir` of the in-place restore is one directory with `Dir`.
* **gob** is lossless; a failing decode is one of the failures of `Apply`.
* **One clock.** Skew between nodes moves the time at which a node hides a key, nothing else.
* **Keys and values** are opaque; a prefix is the set of keys that have it.

Not modelled: `Members` and `Status` beyond `appliedIndex` (copies of Raft's answers, taken at
several moments and meant as hints), `AddVoter`'s checks of its arguments, configuration defaults
other than the timeout, paths and Raft's tuning, error and enum types (`types.go`: formatting),
the example program (a caller of the API).

## 7. Plan

Done: all modules of section 2, each with the proofs of its safety properties. Next:

1. `Status`: the four answers it takes from Raft one after the other, as far as a property of their
   combination holds (none is promised).
2. A composition in which every node of `Replication` runs `NodeStore`'s restore, so that the step
   from `AtomicStore` to `Replication`'s outcomes is a theorem too and not a comparison of two lists
   of outcomes.
