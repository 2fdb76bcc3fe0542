----------------------------- MODULE Lifecycle -----------------------------
(***************************************************************************)
(* The life of one node over its data directory: Open acquires Badger,     *)
(* Bolt, the transport and Raft step by step and gives back what it has    *)
(* when a step fails; with NewCluster it bootstraps and waits for a leader;*)
(* Close tears down once for all its callers; WaitForLeader polls while    *)
(* all this happens.  The process may crash at any moment; the directory   *)
(* stays.                                                                  *)
(*                                                                         *)
(* One DB at a time: a caller that still waits on an older DB sees nothing *)
(* but that DB's closed flag.  Raft is external: leader is what            *)
(* LeaderWithID says, cluster what the directory knows of a cluster.       *)
(***************************************************************************)
EXTENDS Naturals, Sequences

CONSTANTS
  Caller,      \* goroutines that use the DB
  Opener,      \* the one that calls Open
  MaxOpens,    \* bound: calls of Open
  MaxCrashes   \* bound: crashes

ASSUME LifecycleAssumption ==
  Opener \notin Caller /\ MaxOpens \in Nat /\ MaxCrashes \in Nat

VARIABLES
  pc,          \* how far Open is; "idle": no DB, "open": it returned one
  newCluster,  \* NewCluster was passed
  held,        \* resources that are open
  armed,       \* Open's deferred cleanups, in the order of the defers
  twice,       \* a cleanup or Close met a resource that was not open
  raftUp,
  cluster,     \* on disk: "none", "own" (bootstrapped here), "grown" (own, with
               \* servers added) or "joined" (another node's)
  leader,      \* LeaderWithID: "none", "self" or "other"
  closing,     \* the next step of the teardown, "no" before and "done" after
  closeErr,    \* DB.closeErr # nil
  closer,      \* per goroutine: its call of Close
  waiter,      \* per goroutine: its call of waitForLeader
  late,        \* per goroutine: its deadline has passed
  found,       \* the leader that Open's own wait found
  opens, crashes

Goroutine == Caller \cup {Opener}
opening == <<pc, newCluster, armed, found>>
resources == <<held, twice>>
raft == <<raftUp, cluster, leader>>
teardown == <<closing, closeErr>>
calls == <<closer, waiter, late>>
counters == <<opens, crashes>>
life == <<opening, resources, raft, teardown, calls, counters>>

Resource == {"badger", "bolt", "transport"}

(* The steps of Open up to BootstrapCluster.                               *)
After == [badger |-> "raftDir", raftDir |-> "bolt", bolt |-> "snapshots",
          snapshots |-> "transport", transport |-> "bootstrap"]

(* One type invariant; armed is a stack.                                   *)
TypeOK ==
  /\ pc \in DOMAIN After \cup {"idle", "bootstrap", "newRaft", "wait", "abandon", "failed", "open"}
  /\ newCluster \in BOOLEAN /\ twice \in BOOLEAN /\ raftUp \in BOOLEAN /\ closeErr \in BOOLEAN
  /\ held \subseteq Resource
  /\ armed \in {<<>>, <<"badger">>, <<"badger", "bolt">>, <<"badger", "bolt", "transport">>}
  /\ cluster \in {"none", "own", "grown", "joined"}
  /\ leader \in {"none", "self", "other"} /\ found \in {"none", "self", "other"}
  /\ closing \in {"no", "shutdown", "transport", "bolt", "badger", "done"}
  /\ closer \in [Goroutine -> {"idle", "in", "ok", "err"}]
  /\ waiter \in [Goroutine -> {"idle", "check", "look", "leader", "ErrClosed", "ErrNoLeader"}]
  /\ late \in [Goroutine -> BOOLEAN]
  /\ opens \in 0..MaxOpens /\ crashes \in 0..MaxCrashes

Underway(g) == closer[g] = "in" \/ waiter[g] \in {"check", "look"}

Init ==
  /\ pc = "idle" /\ newCluster = FALSE /\ armed = <<>> /\ found = "none"
  /\ held = {} /\ twice = FALSE
  /\ raftUp = FALSE /\ cluster = "none" /\ leader = "none"
  /\ closing = "no" /\ closeErr = FALSE
  /\ closer = [g \in Goroutine |-> "idle"]
  /\ waiter = [g \in Goroutine |-> "idle"]
  /\ late = [g \in Goroutine |-> FALSE]
  /\ opens = 0 /\ crashes = 0

(* Nothing is left in memory.                                              *)
Fresh ==
  /\ armed' = <<>> /\ found' = "none" /\ held' = {}
  /\ raftUp' = FALSE /\ leader' = "none"
  /\ closing' = "no" /\ closeErr' = FALSE
  /\ closer' = [g \in Goroutine |-> "idle"]
  /\ waiter' = [g \in Goroutine |-> "idle"]
  /\ late' = [g \in Goroutine |-> FALSE]

(* closeStore minds a nil store.                                           *)
Release(r) == held' = held \ {r} /\ twice' = (twice \/ r \notin held \cup {"badger"})

-----------------------------------------------------------------------------
(* Open.                                                                   *)

(* For n options NewCluster.                                               *)
parseOpenOptions(n) == [ok |-> n <= 1, newCluster |-> n = 1]

(* validateConfig and resolveAdvertise find the configuration valid or not.*)
OpenBegin(n, valid) ==
  /\ opens < MaxOpens
  /\ pc = "idle" \/ (pc = "open" /\ closing = "done" /\ ~\E g \in Goroutine : Underway(g))
  /\ opens' = opens + 1
  /\ pc' = IF parseOpenOptions(n).ok /\ valid THEN "badger" ELSE "idle"
  /\ newCluster' = parseOpenOptions(n).newCluster
  /\ Fresh
  /\ UNCHANGED <<twice, cluster, crashes>>

(* Mutant of Deferred: Bolt's cleanup is forgotten.                         *)
DeferredNoBolt(acquired) ==
  IF acquired /\ pc \in Resource \ {"bolt"} THEN Append(armed, pc) ELSE armed

Deferred(acquired) == IF acquired /\ pc \in Resource THEN Append(armed, pc) ELSE armed

(* The directories, Badger, Bolt, the snapshot store and the transport.    *)
Acquire ==
  /\ pc \in DOMAIN After
  /\ \E acquired \in BOOLEAN :
       /\ pc' = IF acquired THEN After[pc] ELSE "failed"
       /\ held' = IF acquired THEN held \cup ({pc} \cap Resource) ELSE held
       /\ armed' = Deferred(acquired)
  /\ UNCHANGED <<newCluster, found, twice, raft, teardown, calls, counters>>

(* Mutant of Bootstrapped: existing state is overwritten.                  *)
BootstrappedAnew == IF newCluster THEN "own" ELSE cluster

(* ErrCantBootstrap is not an error.                                       *)
Bootstrapped == IF newCluster /\ cluster = "none" THEN "own" ELSE cluster

Bootstrap ==
  /\ pc = "bootstrap"
  /\ \/ pc' = "newRaft" /\ cluster' = Bootstrapped
     \/ newCluster /\ pc' = "failed" /\ UNCHANGED cluster
  /\ UNCHANGED <<newCluster, armed, found, resources, raftUp, leader, teardown, calls, counters>>

(* NewRaft restores a snapshot first, the newest that can be restored.  It *)
(* fails when none can, and the last attempt may leave no store.           *)
NewRaft ==
  /\ pc = "newRaft"
  /\ \/ /\ raftUp' = TRUE /\ UNCHANGED held
        /\ pc' = IF newCluster THEN "wait" ELSE "open"
        /\ waiter' = [waiter EXCEPT ![Opener] = IF newCluster THEN "check" ELSE @]
     \/ pc' = "failed" /\ held' \in {held, held \ {"badger"}} /\ UNCHANGED <<raftUp, waiter>>
  /\ UNCHANGED <<newCluster, armed, found, twice, cluster, leader, teardown, closer, late, counters>>

Remaining == SubSeq(armed, 1, Len(armed) - 1)

(* The deferred cleanups, last one first.                                  *)
Unwind ==
  /\ pc = "failed" /\ armed # <<>>
  /\ armed' = Remaining
  /\ Release(armed[Len(armed)])
  /\ UNCHANGED <<pc, newCluster, found, raft, teardown, calls, counters>>

OpenFails ==
  /\ pc = "failed" /\ armed = <<>>
  /\ pc' = "idle"
  /\ UNCHANGED <<newCluster, armed, found, resources, raft, teardown, calls, counters>>

(* Open's wait for a leader is over.                                       *)
Waited ==
  /\ pc = "wait" /\ waiter[Opener] \in {"leader", "ErrNoLeader"}
  /\ pc' = IF waiter[Opener] = "leader" THEN "open" ELSE "abandon"
  /\ UNCHANGED <<newCluster, armed, found, resources, raft, teardown, calls, counters>>

(* Mutant of Abandon: err is returned, and the cleanups run.               *)
AbandonArmed ==
  /\ pc = "abandon" /\ closer[Opener] \in {"ok", "err"}
  /\ pc' = "failed"
  /\ UNCHANGED <<newCluster, armed, found, resources, raft, teardown, calls, counters>>

(* db.Close() has returned; err is nil, which disarms the cleanups.        *)
Abandon ==
  /\ pc = "abandon" /\ closer[Opener] \in {"ok", "err"}
  /\ pc' = "idle"
  /\ armed' = <<>>
  /\ UNCHANGED <<newCluster, found, resources, raft, teardown, calls, counters>>

-----------------------------------------------------------------------------
(* waitForLeader, for Open and for WaitForLeader's callers.                *)

WaitForLeader(g) ==
  /\ pc = "open" /\ g \in Caller /\ waiter[g] = "idle"
  /\ waiter' = [waiter EXCEPT ![g] = "check"]
  /\ UNCHANGED <<opening, resources, raft, teardown, closer, late, counters>>

(* checkOpen.                                                              *)
Check(g) ==
  /\ waiter[g] = "check"
  /\ waiter' = [waiter EXCEPT ![g] = IF closing = "no" THEN "look" ELSE "ErrClosed"]
  /\ UNCHANGED <<opening, resources, raft, teardown, closer, late, counters>>

(* Mutant of Polled: the deadline is not looked at.                        *)
PolledForever(g) == IF leader # "none" THEN "leader" ELSE "check"

(* LeaderWithID, then the deadline, then sleep.                            *)
Polled(g) ==
  IF leader # "none" THEN "leader" ELSE IF late[g] THEN "ErrNoLeader" ELSE "check"

Look(g) ==
  /\ waiter[g] = "look"
  /\ waiter' = [waiter EXCEPT ![g] = Polled(g)]
  /\ found' = IF g = Opener THEN leader ELSE found
  /\ UNCHANGED <<pc, newCluster, armed, resources, raft, teardown, closer, late, counters>>

Deadline(g) ==
  /\ waiter[g] \in {"check", "look"} /\ ~late[g]
  /\ late' = [late EXCEPT ![g] = TRUE]
  /\ UNCHANGED <<opening, resources, raft, teardown, closer, waiter, counters>>

-----------------------------------------------------------------------------
(* Close.                                                                  *)

(* Mutants of Teardown: Badger, or the transport, before Raft.             *)
TeardownStoreFirst == <<"badger", "shutdown", "transport", "bolt", "done">>
TeardownTransportFirst == <<"transport", "shutdown", "bolt", "badger", "done">>

(* The calls in the order errors.Join evaluates them.                      *)
Teardown == <<"shutdown", "transport", "bolt", "badger", "done">>

(* closeOnce: the first caller starts the teardown, all wait for its end.  *)
Close(g) ==
  /\ (pc = "open" /\ g \in Caller) \/ (pc = "abandon" /\ g = Opener)
  /\ closer[g] = "idle"
  /\ closer' = [closer EXCEPT ![g] = "in"]
  /\ closing' = IF closing = "no" THEN Teardown[1] ELSE closing
  /\ UNCHANGED <<opening, resources, raft, closeErr, waiter, late, counters>>

(* One of the four calls; its error does not keep the next from being made.*)
(* Raft's Shutdown closes the transport when Raft has stopped, and the     *)
(* transport's own Close finds it closed, which it minds as little as      *)
(* closeStore minds a nil store.                                           *)
TeardownStep ==
  /\ \E i \in 1..4 : closing = Teardown[i] /\ closing' = Teardown[i + 1]
  /\ closeErr' \in {closeErr, TRUE}
  /\ \/ /\ closing = "shutdown"
        /\ raftUp' = FALSE /\ leader' = "none"
        /\ held' = held \ {"transport"} /\ UNCHANGED twice
     \/ /\ closing = "transport"
        /\ held' = held \ {"transport"} /\ UNCHANGED <<twice, raftUp, leader>>
     \/ /\ closing \in {"bolt", "badger"}
        /\ Release(closing) /\ UNCHANGED <<raftUp, leader>>
  /\ UNCHANGED <<opening, cluster, calls, counters>>

(* Mutant of Finished: a second caller does not wait.                      *)
FinishedForSecond(g) == closing = "done" \/ \E h \in Goroutine \ {g} : closer[h] = "in"

Finished(g) == closing = "done"

CloseReturn(g) ==
  /\ closer[g] = "in" /\ Finished(g)
  /\ closer' = [closer EXCEPT ![g] = IF closeErr THEN "err" ELSE "ok"]
  /\ UNCHANGED <<opening, resources, raft, teardown, waiter, late, counters>>

-----------------------------------------------------------------------------
(* Raft and the rest of the cluster, external.                             *)

(* A node with a configuration may win elections.  Another may unless the  *)
(* node is alone in its own; a leader that adds the node brings it one.    *)
(* Its own AddVoter makes its cluster grow.                                *)
RaftStep ==
  /\ raftUp
  /\ \/ cluster # "none" /\ leader' = "self" /\ UNCHANGED cluster
     \/ /\ cluster # "own" /\ leader' = "other"
        /\ cluster' = IF cluster = "none" THEN "joined" ELSE cluster
     \/ leader' = "none" /\ UNCHANGED cluster
     \/ /\ leader = "self" /\ cluster = "own" /\ pc = "open" /\ closing = "no"
        /\ cluster' = "grown" /\ UNCHANGED leader
  /\ UNCHANGED <<opening, resources, raftUp, teardown, calls, counters>>

(* fsm.Restore under a snapshot from the leader: it may leave no store,    *)
(* and a later one opens it again.                                         *)
Restore ==
  /\ raftUp /\ leader = "other"
  /\ held' \in {held \ {"badger"}, held \cup {"badger"}}
  /\ UNCHANGED <<opening, twice, raft, teardown, calls, counters>>

Crash ==
  /\ crashes < MaxCrashes /\ pc # "idle"
  /\ crashes' = crashes + 1
  /\ pc' = "idle"
  /\ Fresh
  /\ UNCHANGED <<newCluster, twice, cluster, opens>>

OpenStep == Acquire \/ Bootstrap \/ NewRaft \/ Unwind \/ OpenFails \/ Waited \/ Abandon

Next ==
  \/ \E n \in 0..2, valid \in BOOLEAN : OpenBegin(n, valid)
  \/ OpenStep
  \/ \E g \in Goroutine :
       WaitForLeader(g) \/ Check(g) \/ Look(g) \/ Deadline(g) \/ Close(g) \/ CloseReturn(g)
  \/ TeardownStep
  \/ RaftStep
  \/ Restore
  \/ Crash

Spec == Init /\ [][Next]_life

(* Goroutines run, deadlines pass, Raft's Shutdown comes back, and an Open *)
(* that gives up calls Close.  No election has to succeed.                 *)
FairSpec ==
  /\ Spec
  /\ WF_life(OpenStep)
  /\ WF_life(TeardownStep)
  /\ WF_life(Close(Opener))
  /\ \A g \in Goroutine :
       WF_life(Check(g) \/ Look(g)) /\ WF_life(Deadline(g)) /\ WF_life(CloseReturn(g))

-----------------------------------------------------------------------------
(* While Raft runs, its log store and its transport are open: neither the  *)
(* unwinding of a failed Open nor the teardown of Close takes them from    *)
(* under it (db.go, Open's defers and Close).                              *)
RaftHasItsStores == raftUp => {"bolt", "transport"} \subseteq held

(* A failed Open and a Close that returned leave nothing open, whatever    *)
(* step failed and although a restore may reopen Badger until Raft stops   *)
(* (db.go, Open and Close).                                                *)
NothingLeaks ==
  pc = "idle" \/ (\E g \in Goroutine : closer[g] \in {"ok", "err"}) => held = {} /\ ~raftUp

(* db.go, Open: "db.Close has already released every acquired resource, so *)
(* err is deliberately reset to nil to disarm all three err-guarded        *)
(* cleanup defers".  A deferred cleanup never finds its resource released  *)
(* by Close, nor Close its log store by a cleanup or an earlier teardown.  *)
(* (Within one teardown the transport is closed twice, by Raft and then by *)
(* Close, every time; that is outside this property.)                      *)
ReleasedOnce == ~twice

(* db.go, DB: "closeOnce makes teardown idempotent and closeErr retains    *)
(* its result": all callers of Close get one answer.                       *)
ClosersAgree ==
  \A g, h \in Goroutine : ~(closer[g] = "ok" /\ closer[h] = "err")

(* Opening never forgets a cluster the directory knows, and only an Open   *)
(* with NewCluster founds one (options.go, NewCluster; db.go, Open).       *)
KeepsCluster ==
  [][/\ cluster \in {"grown", "joined"} => cluster' = cluster
     /\ cluster = "own" => cluster' \in {"own", "grown"}
     /\ cluster = "none" /\ cluster' = "own" => newCluster]_life

(* Open returns, also when no leader is ever elected, and so do            *)
(* WaitForLeader and Close (cluster.go, waitForLeader; db.go, Close).      *)
EverythingReturns ==
  /\ pc \notin {"idle", "open"} ~> pc \in {"idle", "open"}
  /\ \A g \in Goroutine : Underway(g) ~> ~Underway(g)

(* db.go, Open: "Open blocks until the first election completes, so the    *)
(* returned DB is immediately writable"; options.go, NewCluster: "Open     *)
(* still waits for leadership, which makes it a safe choice for restarts   *)
(* of the bootstrap node".                                                 *)
WritableWhenOpened ==
  pc = "open" /\ newCluster /\ cluster \in {"own", "grown"} => found = "self"
=============================================================================
