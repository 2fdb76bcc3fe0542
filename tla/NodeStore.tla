----------------------------- MODULE NodeStore -----------------------------
(***************************************************************************)
(* The Badger handle of one node and everything that touches it: reads     *)
(* (withStore), Raft's FSM goroutine (Apply, Restore), Raft's snapshot     *)
(* goroutine (Persist), Close, crashes in between and the Open after them. *)
(* storeMu is a Go RWMutex: a goroutine blocked in Lock keeps new readers  *)
(* out.  Restore goes step by step, each file operation may fail, and a    *)
(* crash may fall between any two.                                         *)
(*                                                                         *)
(* What a directory holds is a number: nothing usable below Empty, a       *)
(* generation of complete data above it.  Raft's snapshots are numbered    *)
(* by the generation they hold; two are kept, and Open falls back to the   *)
(* older one when the newer cannot be restored.                            *)
(***************************************************************************)
EXTENDS Naturals, FiniteSets

CONSTANTS
  Reader,      \* goroutines that read
  Closer,      \* goroutines that call Close
  Layouts,     \* whether ValueDir lives outside Dir: FALSE, TRUE or both
  Nested,      \* ViewBadger callbacks may read again through the DB
  MaxGen,      \* bound: generations of snapshots
  MaxFaults    \* bound: failing operations of a restore

Missing == 0
Torn == 1       \* some of its files were removed
Partial == 2    \* a snapshot not loaded to its end
Empty == 3
FirstGen == 4

Nil == 0
Fsm == "fsm"    \* Raft's goroutines and nobody
Snap == "snap"
None == "none"

Proc == Reader \cup Closer \cup {Fsm, Snap}
Handle == 1..(Cardinality(Proc) + 1)

ASSUME NodeStoreAssumption ==
  /\ IsFiniteSet(Reader) /\ IsFiniteSet(Closer)
  /\ Reader \cap Closer = {}
  /\ {Fsm, Snap, None, "done"} \cap (Reader \cup Closer) = {}
  /\ Layouts \subseteq BOOLEAN /\ Nested \in BOOLEAN
  /\ MaxGen \in Nat /\ MaxFaults \in Nat

VARIABLES
  inPlace,    \* ValueDir lives outside Dir, by configuration
  node,       \* "down", "booting" (in Open), "running"
  closed,     \* DB.closed
  once,       \* who is in closeOnce: None, a closer, or "done"
  stopping,   \* raft.Shutdown was called
  store,      \* DB.store
  open,       \* Badger instances open on the live directory
  fresh,      \* the instance Restore has opened and not yet published
  dir,        \* what the live, staging and backup directories hold
  snapshot,   \* generation of Raft's newest snapshot, 0 if none
  older,      \* the one kept beside it (snapshotRetainCount), 0 if none
  second,     \* Open is restoring the older one
  writer,     \* who holds storeMu exclusively
  waiting,    \* who is blocked in storeMu.Lock
  rlocks,     \* per goroutine: how often it holds storeMu shared
  pc,         \* per goroutine: where it is
  held,       \* per goroutine: the instance it is using
  published,  \* history: the generation that was published last
  lost,       \* history: some restore since then met two failing operations
  faults      \* failing operations of the restore under way, or of Open

lock == <<writer, waiting, rlocks>>
life == <<node, closed, once, stopping>>
snaps == <<snapshot, older, second, lost>>
vars == <<inPlace, life, store, open, fresh, dir, snaps, lock, pc, held,
          published, faults>>

RestorePc ==
  {"stage", "load", "lock", "clean", "close", "aside", "place", "open", "publish",
   "drop", "rollback", "reopen", "wipe", "openEmpty", "loadLive"}

(* Where Restore holds storeMu.                                            *)
SwapPc ==
  {"clean", "close", "aside", "place", "open", "publish", "drop", "rollback", "reopen",
   "wipe", "openEmpty", "loadLive"}

Label ==
  RestorePc \cup {"idle", "rlock", "using", "rlock2", "using2", "exited", "failed",
                  "shutdown", "await", "once", "returned"}

(* The shapes of the variables.                                            *)
TypeOK ==
  /\ node \in {"down", "booting", "running"}
  /\ inPlace \in BOOLEAN
  /\ closed \in BOOLEAN /\ stopping \in BOOLEAN
  /\ once \in Closer \cup {None, "done"}
  /\ store \in Handle \cup {Nil} /\ fresh \in Handle \cup {Nil}
  /\ open \subseteq Handle
  /\ dir \in [{"live", "staging", "backup"} -> 0..FirstGen + MaxGen]
  /\ snapshot \in 0..FirstGen + MaxGen /\ older \in 0..FirstGen + MaxGen
  /\ second \in BOOLEAN /\ lost \in BOOLEAN
  /\ published \in 0..FirstGen + MaxGen
  /\ writer \in Proc \cup {None}
  /\ waiting \subseteq {Fsm} \cup Closer
  /\ rlocks \in [Proc -> 0..2]
  /\ pc \in [Proc -> Label]
  /\ held \in [Proc -> Handle \cup {Nil}]
  /\ faults \in 0..MaxFaults

(* A node at work, with or without a snapshot of the data it started with. *)
Init ==
  /\ inPlace \in Layouts
  /\ node = "running" /\ closed = FALSE /\ once = None /\ stopping = FALSE
  /\ store = 1 /\ open = {1} /\ fresh = Nil
  /\ dir = [live |-> FirstGen, staging |-> Missing, backup |-> Missing]
  /\ snapshot \in {0, FirstGen} /\ older = 0 /\ second = FALSE /\ lost = FALSE
  /\ writer = None /\ waiting = {}
  /\ rlocks = [p \in Proc |-> 0]
  /\ pc = [p \in Proc |-> "idle"]
  /\ held = [p \in Proc |-> Nil]
  /\ published = FirstGen /\ faults = 0

Goto(p, label) == pc' = [pc EXCEPT ![p] = label]

Fails == faults < MaxFaults /\ faults' = faults + 1
Works == UNCHANGED faults

-----------------------------------------------------------------------------
(* storeMu.                                                                *)

RLockFree == writer = None /\ waiting = {}

(* Mutant of LockFree: a swap does not wait for readers.                   *)
LockIgnoresReaders == writer = None

LockFree == writer = None /\ \A p \in Proc : rlocks[p] = 0

RLock(p) ==
  /\ RLockFree
  /\ rlocks' = [rlocks EXCEPT ![p] = @ + 1]
  /\ UNCHANGED <<writer, waiting>>

(* Mutant of RUnlock: the shared lock is released twice.                   *)
RUnlockTwice(p) ==
  /\ rlocks' = [rlocks EXCEPT ![p] = @ - 2]
  /\ UNCHANGED <<writer, waiting>>

RUnlock(p) ==
  /\ rlocks' = [rlocks EXCEPT ![p] = @ - 1]
  /\ UNCHANGED <<writer, waiting>>

AskLock(p) ==
  /\ waiting' = waiting \cup {p}
  /\ UNCHANGED <<writer, rlocks>>

Lock(p) ==
  /\ p \in waiting
  /\ LockFree
  /\ writer' = p
  /\ waiting' = waiting \ {p}
  /\ UNCHANGED rlocks

(* Mutant of Unlock: an early return keeps the lock.                       *)
UnlockForgotten(p) == UNCHANGED lock

Unlock(p) == writer' = None /\ UNCHANGED <<waiting, rlocks>>

-----------------------------------------------------------------------------
(* withStore, for a reader or for fsm.Apply, and fsmSnapshot.Persist.      *)

User == Reader \cup {Fsm, Snap}

(* checkOpen comes first; Persist has no such check.                       *)
Begin(p) ==
  /\ node = "running" /\ pc[p] = "idle"
  /\ p = Snap \/ ~closed
  /\ Goto(p, "rlock")
  /\ UNCHANGED <<life, store, open, fresh, dir, snaps, lock, held,
                 published, inPlace, faults>>

(* Under the shared lock: ErrClosed if there is no store.  Apply does not  *)
(* log that error.                                                         *)
Enter(p) ==
  /\ pc[p] = "rlock" /\ RLockFree
  /\ \/ /\ store = Nil
        /\ Goto(p, "idle")
        /\ UNCHANGED <<rlocks, held>>
     \/ /\ store # Nil
        /\ Goto(p, "using")
        /\ rlocks' = [rlocks EXCEPT ![p] = 1]
        /\ held' = [held EXCEPT ![p] = store]
  /\ UNCHANGED <<life, store, open, fresh, dir, snaps, writer, waiting, published, faults,
                 inPlace>>

Leave(p) ==
  /\ pc[p] = "using"
  /\ Goto(p, "idle")
  /\ RUnlock(p)
  /\ held' = [held EXCEPT ![p] = Nil]
  /\ UNCHANGED <<life, store, open, fresh, dir, snaps, published, inPlace, faults>>

(* A read inside a ViewBadger callback: withStore again, the outer shared  *)
(* lock still held.                                                        *)
BeginNested(p) ==
  /\ Nested /\ p \in Reader
  /\ pc[p] = "using" /\ ~closed
  /\ Goto(p, "rlock2")
  /\ UNCHANGED <<life, store, open, fresh, dir, snaps, lock, held,
                 published, inPlace, faults>>

EnterNested(p) ==
  /\ pc[p] = "rlock2"
  /\ RLock(p)
  /\ Goto(p, "using2")
  /\ UNCHANGED <<life, store, open, fresh, dir, snaps, held, published, inPlace, faults>>

LeaveNested(p) ==
  /\ pc[p] = "using2"
  /\ RUnlock(p)
  /\ Goto(p, "using")
  /\ UNCHANGED <<life, store, open, fresh, dir, snaps, held, published, inPlace, faults>>

-----------------------------------------------------------------------------
(* Files and Badger instances (the operating system and Badger).           *)

NewHandle == CHOOSE h \in Handle : h \notin open /\ \A p \in Proc : held[p] # h

(* os.RemoveAll, which may give up half way.                               *)
RemoveAll(d) ==
  \/ Works /\ dir' = [dir EXCEPT ![d] = Missing]
  \/ /\ Fails
     /\ dir[d] # Missing
     /\ \E c \in {dir[d], Torn} : dir' = [dir EXCEPT ![d] = c]

(* os.Rename of a directory fails when the target exists.                  *)
Renamed(from, to) ==
  /\ Works
  /\ dir[to] = Missing /\ dir[from] # Missing
  /\ dir' = [dir EXCEPT ![to] = dir[from], ![from] = Missing]

NotRenamed(from, to) ==
  /\ IF dir[to] # Missing \/ dir[from] = Missing THEN Works ELSE Fails
  /\ UNCHANGED dir

(* badger.Open of the live directory.  It creates a database where there   *)
(* is none; a torn directory is refused, or taken for a new one when its   *)
(* manifest is among the files that are gone.                              *)
Opened ==
  /\ Works
  /\ dir' = [dir EXCEPT !["live"] = IF @ \in {Missing, Torn} THEN Empty ELSE @]
  /\ open' = open \cup {NewHandle}

NotOpened ==
  /\ IF dir["live"] = Torn THEN Works ELSE Fails
  /\ UNCHANGED <<dir, open>>

-----------------------------------------------------------------------------
(* fsm.Restore.  Raft stores the snapshot before it calls it.              *)

At(label) == node # "down" /\ pc[Fsm] = label

(* The snapshot that is being restored.                                    *)
Source == IF second THEN older ELSE snapshot

(* Restore is called, with the staged path or the one in place before it.  *)
CallRestore ==
  /\ Goto(Fsm, IF inPlace THEN "lock" ELSE "stage")
  /\ IF inPlace THEN AskLock(Fsm) ELSE UNCHANGED lock

(* Restore returns, to Raft in a running node and to Open in a booting one. *)
Return(ok) ==
  /\ Goto(Fsm, IF node = "booting" /\ ~ok THEN "failed" ELSE "idle")
  /\ node' = IF ok THEN "running" ELSE node
  /\ Unlock(Fsm)
  /\ fresh' = Nil
  /\ second' = (second /\ ~ok)
  /\ lost' = (~ok /\ (lost \/ faults' >= 2))
  /\ UNCHANGED <<closed, once, stopping, snapshot, older, held, inPlace>>

Step(label) ==
  /\ Goto(Fsm, label)
  /\ UNCHANGED <<life, snaps, held, inPlace>>

Install ==
  /\ node = "running" /\ pc[Fsm] = "idle"
  /\ \E g \in FirstGen + 1..FirstGen + MaxGen :
       g \in {snapshot, IF snapshot = 0 THEN FirstGen + 1 ELSE snapshot + 1} /\ snapshot' = g
  /\ older' = snapshot
  /\ faults' = 0
  /\ CallRestore
  /\ UNCHANGED <<life, store, open, fresh, dir, second, lost, held, published, inPlace>>

(* Clear the staging directory and begin to load the snapshot into it.     *)
Stage ==
  /\ At("stage")
  /\ UNCHANGED <<store, open, published>>
  /\ \/ /\ RemoveAll("staging") /\ dir'["staging"] # Missing /\ Return(FALSE)
     \/ /\ Works
        /\ dir' = [dir EXCEPT !["staging"] = Partial]
        /\ Step("load")
        /\ UNCHANGED <<lock, fresh>>

(* Mutant of Load: an error while loading is not noticed.                  *)
LoadUnchecked ==
  /\ At("load")
  /\ \/ Works /\ dir' = [dir EXCEPT !["staging"] = Source]
     \/ Fails /\ UNCHANGED dir
  /\ Step("lock")
  /\ AskLock(Fsm)
  /\ UNCHANGED <<store, open, fresh, published>>

(* Finish loading and close the staged database, or remove it again.       *)
Load ==
  /\ At("load")
  /\ UNCHANGED <<store, open, published>>
  /\ \/ /\ Works
        /\ dir' = [dir EXCEPT !["staging"] = Source]
        /\ Step("lock")
        /\ AskLock(Fsm)
        /\ UNCHANGED fresh
     \/ /\ Fails
        /\ \E c \in {Missing, Torn} : dir' = [dir EXCEPT !["staging"] = c]
        /\ Return(FALSE)

SwapLock ==
  /\ At("lock")
  /\ Lock(Fsm)
  /\ Step(IF inPlace THEN "close" ELSE "clean")
  /\ UNCHANGED <<store, open, fresh, dir, published, faults>>

(* A backup directory left by an interrupted restore; failing is ignored.  *)
Clean ==
  /\ At("clean")
  /\ RemoveAll("backup")
  /\ Step("close")
  /\ UNCHANGED <<store, open, fresh, lock, published>>

(* Close the live store.  An error is logged by the staged path and ends   *)
(* the one in place; the instance is unusable either way.                  *)
CloseOld ==
  /\ At("close")
  /\ open' = open \ {store}
  /\ store' = Nil
  /\ \/ /\ Works
        /\ Step(IF inPlace THEN "wipe" ELSE "aside")
        /\ UNCHANGED <<lock, fresh>>
     \/ /\ inPlace /\ store # Nil
        /\ Fails
        /\ Return(FALSE)
  /\ UNCHANGED <<dir, published>>

(* Mutant of Aside: its failure is cleaned up like a failure to open.       *)
AsideDrops ==
  /\ At("aside")
  /\ \/ Renamed("live", "backup") /\ Step("place")
     \/ NotRenamed("live", "backup") /\ Step("drop")
  /\ UNCHANGED <<store, open, fresh, lock, published>>

Aside ==
  /\ At("aside")
  /\ \/ Renamed("live", "backup") /\ Step("place")
     \/ NotRenamed("live", "backup") /\ Step("reopen")
  /\ UNCHANGED <<store, open, fresh, lock, published>>

Place ==
  /\ At("place")
  /\ \/ Renamed("staging", "live") /\ Step("open")
     \/ NotRenamed("staging", "live") /\ Step("rollback")
  /\ UNCHANGED <<store, open, fresh, lock, published>>

OpenNew ==
  /\ At("open")
  /\ \/ Opened /\ fresh' = NewHandle /\ Step("publish")
     \/ NotOpened /\ Step("drop") /\ UNCHANGED fresh
  /\ UNCHANGED <<store, lock, published>>

Publish ==
  /\ At("publish")
  /\ RemoveAll("backup")
  /\ store' = fresh
  /\ published' = dir["live"]
  /\ Return(TRUE)
  /\ UNCHANGED open

Drop ==
  /\ At("drop")
  /\ RemoveAll("live")
  /\ Step("rollback")
  /\ UNCHANGED <<store, open, fresh, lock, published>>

(* Mutant of Rollback: the backup is not moved back.                       *)
RollbackSkipped ==
  /\ At("rollback")
  /\ Step("reopen")
  /\ UNCHANGED <<store, open, fresh, dir, lock, published, faults>>

(* rollbackAndReopenLocked's rename, which is only logged when it fails.   *)
Rollback ==
  /\ At("rollback")
  /\ Renamed("backup", "live") \/ NotRenamed("backup", "live")
  /\ Step("reopen")
  /\ UNCHANGED <<store, open, fresh, lock, published>>

(* Mutant of Reopen: the reopened instance is not stored.                  *)
ReopenLost ==
  /\ At("reopen")
  /\ Opened \/ NotOpened
  /\ store' = Nil
  /\ Return(FALSE)
  /\ UNCHANGED published

(* reopenLocked: serve whatever is on disk, or nothing.                    *)
Reopen ==
  /\ At("reopen")
  /\ \/ Opened /\ store' = NewHandle
     \/ NotOpened /\ store' = Nil
  /\ Return(FALSE)
  /\ UNCHANGED published

(* restoreInPlace from here on: wipe and recreate both directories, open,  *)
(* load.                                                                   *)
Wipe ==
  /\ At("wipe")
  /\ \/ /\ RemoveAll("live")
        /\ IF dir'["live"] = Missing
           THEN Step("openEmpty") /\ UNCHANGED <<lock, fresh>>
           ELSE Return(FALSE)
     \/ Fails /\ dir' = [dir EXCEPT !["live"] = Missing] /\ Return(FALSE)
  /\ UNCHANGED <<store, open, published>>

(* From here on a crash finds the snapshot loaded in part.                 *)
OpenEmpty ==
  /\ At("openEmpty")
  /\ \/ /\ Works
        /\ open' = open \cup {NewHandle} /\ fresh' = NewHandle
        /\ dir' = [dir EXCEPT !["live"] = Partial]
        /\ Step("loadLive")
        /\ UNCHANGED lock
     \/ NotOpened /\ Return(FALSE)
  /\ UNCHANGED <<store, published>>

LoadLive ==
  /\ At("loadLive")
  /\ \/ /\ Works
        /\ dir' = [dir EXCEPT !["live"] = Source]
        /\ store' = fresh
        /\ published' = Source
        /\ Return(TRUE)
        /\ UNCHANGED open
     \/ /\ Fails
        /\ open' = open \ {fresh}
        /\ Return(FALSE)
        /\ UNCHANGED <<store, dir, published>>

Restore ==
  \/ Stage \/ Load \/ SwapLock \/ Clean \/ CloseOld \/ Aside \/ Place \/ OpenNew
  \/ Publish \/ Drop \/ Rollback \/ Reopen \/ Wipe \/ OpenEmpty \/ LoadLive

-----------------------------------------------------------------------------
(* Raft's goroutines end once Shutdown was called.                         *)
RaftExit(p) ==
  /\ p \in {Fsm, Snap} /\ stopping /\ pc[p] = "idle"
  /\ Goto(p, "exited")
  /\ UNCHANGED <<life, store, open, fresh, dir, snaps, lock, held,
                 published, inPlace, faults>>

(* DB.Close.  The first caller runs the body of closeOnce, the others wait *)
(* for it.                                                                 *)
CloseCall(c) ==
  /\ node = "running" /\ pc[c] = "idle"
  /\ \/ once = None /\ once' = c /\ closed' = TRUE /\ Goto(c, "shutdown")
     \/ once # None /\ Goto(c, "once") /\ UNCHANGED <<once, closed>>
  /\ UNCHANGED <<node, stopping, store, open, fresh, dir, snaps, lock, held,
                 published, inPlace, faults>>

(* Mutant of CloseShutdown: storeMu is asked for before Raft has stopped.  *)
CloseShutdownLocked(c) ==
  /\ pc[c] = "shutdown"
  /\ stopping' = TRUE
  /\ Goto(c, "await")
  /\ AskLock(c)
  /\ UNCHANGED <<node, closed, once, store, open, fresh, dir, snaps, held,
                 published, inPlace, faults>>

CloseShutdown(c) ==
  /\ pc[c] = "shutdown"
  /\ stopping' = TRUE
  /\ Goto(c, "await")
  /\ UNCHANGED <<node, closed, once, store, open, fresh, dir, snaps, lock, held,
                 published, inPlace, faults>>

(* Mutant of CloseAwait: the store is closed while Raft may still run.     *)
CloseNoAwait(c) ==
  /\ pc[c] = "await"
  /\ Goto(c, "lock")
  /\ AskLock(c)
  /\ UNCHANGED <<life, store, open, fresh, dir, snaps, held, published, inPlace, faults>>

(* Shutdown's future: every goroutine of Raft has ended.                   *)
CloseAwait(c) ==
  /\ pc[c] = "await"
  /\ pc[Fsm] = "exited" /\ pc[Snap] = "exited"
  /\ Goto(c, "lock")
  /\ AskLock(c)
  /\ UNCHANGED <<life, store, open, fresh, dir, snaps, held, published, inPlace, faults>>

(* closeStore, under the exclusive lock, and the end of closeOnce.         *)
CloseStore(c) ==
  /\ pc[c] = "lock" /\ c \in waiting /\ LockFree
  /\ waiting' = waiting \ {c}
  /\ store' = Nil
  /\ open' = open \ {store}
  /\ once' = "done"
  /\ Goto(c, "returned")
  /\ UNCHANGED <<node, closed, stopping, fresh, dir, snaps, writer, rlocks, held,
                 published, inPlace, faults>>

CloseOther(c) ==
  /\ pc[c] = "once" /\ once = "done"
  /\ Goto(c, "returned")
  /\ UNCHANGED <<life, store, open, fresh, dir, snaps, lock, held,
                 published, inPlace, faults>>

-----------------------------------------------------------------------------
(* The process.                                                            *)

Gone ==
  /\ node' = "down" /\ closed' = FALSE /\ once' = None /\ stopping' = FALSE
  /\ store' = Nil /\ fresh' = Nil
  /\ writer' = None /\ waiting' = {}
  /\ rlocks' = [p \in Proc |-> 0]
  /\ pc' = [p \in Proc |-> "idle"]
  /\ held' = [p \in Proc |-> Nil]
  /\ second' = FALSE /\ lost' = FALSE /\ faults' = 0
  /\ UNCHANGED <<dir, snapshot, older, published, inPlace>>

(* The process ends, in an orderly way or not, at any time.                *)
Crash ==
  /\ node # "down"
  /\ Gone
  /\ open' = {}

(* NewRaft goes on with the older snapshot when the newer one failed.      *)
TryOlder ==
  /\ node = "booting" /\ pc[Fsm] = "failed"
  /\ ~second /\ older # 0
  /\ second' = TRUE
  /\ faults' = 0
  /\ CallRestore
  /\ UNCHANGED <<life, store, open, fresh, dir, snapshot, older, lost, held, published,
                 inPlace>>

(* NewRaft failed with every snapshot: Open's deferred closeStore.         *)
OpenFails ==
  /\ node = "booting" /\ pc[Fsm] = "failed"
  /\ second \/ older = 0
  /\ Gone
  /\ open' = open \ {store}

(* Open: open the live directory, then let NewRaft restore a snapshot, if  *)
(* there is one, before anybody can use the DB: the newest first.          *)
Boot ==
  /\ node = "down"
  /\ \/ /\ Opened
        /\ store' = NewHandle
        /\ IF snapshot = 0
           THEN node' = "running" /\ UNCHANGED <<pc, lock>>
           ELSE node' = "booting" /\ CallRestore
     \/ NotOpened /\ UNCHANGED <<store, node, pc, lock>>
  /\ UNCHANGED <<closed, once, stopping, fresh, snaps, held, published, inPlace>>

UserStep(p) == Enter(p) \/ Leave(p) \/ EnterNested(p) \/ LeaveNested(p)
CloseStep(c) == CloseShutdown(c) \/ CloseAwait(c) \/ CloseStore(c) \/ CloseOther(c)

Next ==
  \/ \E p \in User : Begin(p) \/ BeginNested(p) \/ UserStep(p) \/ RaftExit(p)
  \/ Install
  \/ Restore
  \/ \E c \in Closer : CloseCall(c) \/ CloseStep(c)
  \/ Crash \/ Boot \/ TryOlder \/ OpenFails

Spec == Init /\ [][Next]_vars

(* Every goroutine that can go on goes on; nobody has to start an          *)
(* operation.  Raft's goroutines choose between work and shutdown with a   *)
(* select, which does not pass over the same ready case for ever.          *)
Fairness ==
  /\ \A p \in User : WF_vars(UserStep(p)) /\ SF_vars(RaftExit(p))
  /\ WF_vars(Restore)
  /\ \A c \in Closer : WF_vars(CloseStep(c))

FairSpec == Spec /\ Fairness

-----------------------------------------------------------------------------
(* Nobody uses a Badger instance after it was closed: storeMu pins it for  *)
(* readers, Apply and Persist against the swap and Close (db.go, storeMu). *)
NoUseAfterClose == \A p \in Proc : held[p] # Nil => held[p] \in open

(* There is one instance on the live directory, and none that has been     *)
(* lost track of: outside the exclusive lock it is db.store.               *)
NoLostInstance ==
  /\ Cardinality(open) <= 1
  /\ writer = None => open = {store} \ {Nil}

(* Once Close has returned the store is closed for good: no restore that   *)
(* was under way can publish one, no reader still has one.                 *)
ClosedIsFinal ==
  once = "done" =>
    /\ store = Nil /\ open = {}
    /\ \A p \in Proc : held[p] = Nil
    /\ \A p \in {Fsm, Snap} : pc[p] = "exited"

(* Whatever fails and wherever a crash falls, what a goroutine uses is a   *)
(* complete database, and never older than what was published last: failed *)
(* restores, crashes in a swap and reopening included.  The one exception  *)
(* is an empty database, after two failures in one staged restore.         *)
ServesPublishedOrEmpty ==
  \A p \in Proc : held[p] # Nil =>
    \/ dir["live"] >= published
    \/ dir["live"] = Empty /\ lost /\ ~inPlace

(* What a node publishes is never older than what it published before,     *)
(* with one way back: Open, whose restore of the newest snapshot failed,   *)
(* publishes the one Raft keeps beside it (fsm.go, restoreErr).            *)
GoesBackOnlyToOlder ==
  [][\/ published' >= published
     \/ node = "booting" /\ second /\ published' = older]_vars

(* The one way to wait for ever: a read made inside a ViewBadger callback  *)
(* is kept out by a Lock that waits for the callback.                      *)
Stuck == waiting # {} /\ \E r \in Reader : pc[r] = "rlock2"

(* A failing swap step leaves no restore holding storeMu, and the swap     *)
(* waits out the readers it finds: every restore ends, unless a nested     *)
(* read is stuck behind it.                                                *)
RestoreEnds ==
  [](pc[Fsm] \in RestorePc => <>(pc[Fsm] \notin RestorePc \/ []Stuck))

(* Close returns whatever reads, backups and restores are under way, with  *)
(* the same exception.                                                     *)
CloseEnds == [](once \in Closer => <>(once \notin Closer \/ []Stuck))

(* fsm.go, Restore: "the swap's exclusive lock waits those out", of reads  *)
(* that it overlaps.  Every restore ends.                                  *)
RestoreTerminates == [](pc[Fsm] \in RestorePc => <>(pc[Fsm] \notin RestorePc))

(* fsm.go, Apply: "failures are also logged to Config.LogOutput to keep a  *)
(* diverging node from going unnoticed"; only those of a shutdown are not. *)
FailuresLogged == [][Enter(Fsm) /\ store = Nil => closed]_vars
=============================================================================
