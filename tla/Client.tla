------------------------------- MODULE Client -------------------------------
(***************************************************************************)
(* The calls of a honeybadger cluster's callers, over Replication: a write *)
(* (apply), a linearizable read (prepareRead, Barrier, then the local      *)
(* read), a local read, and a membership change (AddVoter, RemoveNode).    *)
(* A call is admitted by the node it is made on (checkOpen, State), put    *)
(* in Raft's queue, taken from it, committed, and answered by the FSM's    *)
(* goroutine; elections, shutdowns and crashes come in between.            *)
(*                                                                         *)
(* Raft is external.  leader is the one node that can commit; isLeader[n]  *)
(* is what State() says on n, which stays TRUE for a while after another   *)
(* node was elected.  An entry whose call has failed may still commit.     *)
(*                                                                         *)
(* Every member of Write, Read and Change is one call; a retry is another  *)
(* call with the same request.                                             *)
(***************************************************************************)
EXTENDS Replication, FiniteSets

CONSTANTS
  Write, Read, Change,   \* calls
  ReqOf,                 \* what a Write writes
  KeyOf,                 \* what a Read reads
  AddOf, ServerOf,       \* a Change adds or removes a server
  Founder,               \* the leader when the calls begin
  Founders,              \* the voters then
  None,                  \* no node
  MaxCalls,              \* bound: calls made, of those above
  MaxElections,          \* bound: elections after the first
  MaxExits               \* bound: closes and crashes

Call == Write \cup Read \cup Change

ASSUME ClientAssumption ==
  /\ ReqOf \in [Write -> Request]
  /\ KeyOf \in [Read -> Key]
  /\ AddOf \in [Change -> BOOLEAN]
  /\ ServerOf \in [Change -> Node]
  /\ Write \cap Read = {} /\ Write \cap Change = {} /\ Read \cap Change = {}
  /\ Founder \in Founders /\ Founders \subseteq Node
  /\ None \notin Node
  /\ {MaxCalls, MaxElections, MaxExits} \subseteq Nat

VARIABLES
  leader,      \* the node that can commit, or None
  isLeader,    \* per node: raft.State() = raft.Leader
  members,     \* the committed configuration
  stage,       \* per call: how far it is, or its answer
  at,          \* per call: the node it is being made on, None before and after
  local,       \* the reads made with ReadLocal
  since,       \* per read: the log's length when it was made
  time,        \* per write: when it was made, 0 before
  entry,       \* per call: its log entry is "none", "pending" or "in" the log
  index,       \* per call: the log entry its future waits for, 0 if none
  got,         \* per read: what it returned
  elections, exits

raft == <<leader, isLeader, members>>
progress == <<stage, at, index>>
args == <<local, since, time>>
bounds == <<elections, exits>>
client == <<raft, progress, args, entry, got, bounds>>
clientVars == <<vars, client>>

(* Answers.  ErrClosed, ErrRaftShutdown, ErrLeadershipLost and the FSM's   *)
(* error are one "error" here: ErrClosed may be checkOpen's or the FSM's.  *)
Answer == {"ok", "notLeader", "timeout", "error"}

Waiting == {"queued", "sent", "committed"}

Underway == Waiting \cup {"reading"}

(* A "stranded" call waits for a future nobody is left to answer.          *)
Unanswered == Underway \cup {"stranded"}

Stage == {"idle"} \cup Unanswered \cup Answer

ClientTypeOK ==
  /\ TypeOK
  /\ leader \in Node \cup {None}
  /\ isLeader \in [Node -> BOOLEAN]
  /\ members \subseteq Node
  /\ stage \in [Call -> Stage]
  /\ at \in [Call -> Node \cup {None}]
  /\ local \subseteq Read
  /\ since \in [Read -> Nat]
  /\ time \in [Write -> Nat]
  /\ entry \in [Call -> {"none", "pending", "in"}]
  /\ index \in [Call -> Nat]
  /\ got \in [Read -> Entry \cup {Absent}]
  /\ elections \in Nat
  /\ exits \in Nat

ClientInit ==
  /\ Init
  /\ leader = Founder
  /\ isLeader = [n \in Node |-> n = Founder]
  /\ members = Founders
  /\ stage = [c \in Call |-> "idle"]
  /\ at = [c \in Call |-> None]
  /\ local = {}
  /\ since = [c \in Read |-> 0]
  /\ time = [c \in Write |-> 0]
  /\ entry = [c \in Call |-> "none"]
  /\ index = [c \in Call |-> 0]
  /\ got = [c \in Read |-> Absent]
  /\ elections = 0
  /\ exits = 0

(* The calls in C are answered.                                            *)
Answered(C, answer) ==
  /\ stage' = [c \in Call |-> IF c \in C THEN answer ELSE stage[c]]
  /\ at' = [c \in Call |-> IF c \in C THEN None ELSE at[c]]
  /\ index' = [c \in Call |-> IF c \in C THEN 0 ELSE index[c]]

CallsAt(n, stages) == {c \in Call : at[c] = n /\ stage[c] \in stages}

-----------------------------------------------------------------------------
(* The call's own goroutine.                                               *)

checkOpen(n) == status[n] = "up"

(* Then, but for a local read, State.                                      *)
Admit(n, isLocal) ==
  IF ~checkOpen(n) THEN "error"
  ELSE IF isLocal THEN "reading"
  ELSE IF isLeader[n] THEN "queued"
  ELSE "notLeader"

Start(c, n, isLocal) ==
  /\ stage[c] = "idle"
  /\ Cardinality({d \in Call : stage[d] # "idle"}) < MaxCalls
  /\ isLocal => c \in Read
  /\ stage' = [stage EXCEPT ![c] = Admit(n, isLocal)]
  /\ at' = [at EXCEPT ![c] = IF Admit(n, isLocal) \in Underway THEN n ELSE None]
  /\ local' = IF isLocal THEN local \cup {c} ELSE local
  /\ since' = [r \in Read |-> IF r = c THEN Len(log) ELSE since[r]]
  /\ time' = [w \in Write |-> IF w = c THEN now ELSE time[w]]
  /\ UNCHANGED <<vars, raft, index, entry, got, bounds>>

apply(c, n) == c \in Write /\ Start(c, n, FALSE)

prepareRead(c, n, isLocal) == c \in Read /\ Start(c, n, isLocal)

AddVoter(c, n) == c \in Change /\ AddOf[c] /\ Start(c, n, FALSE)

RemoveNode(c, n) == c \in Change /\ ~AddOf[c] /\ Start(c, n, FALSE)

(* Mutant of EnqueueTimeout: no timeout is handed to Raft.                 *)
NoEnqueueTimeout(c) == FALSE

(* ErrEnqueueTimeout: Raft did not take the call from its queue in time.   *)
EnqueueTimeout(c) ==
  /\ stage[c] = "queued"
  /\ Answered({c}, "timeout")
  /\ UNCHANGED <<vars, raft, args, entry, got, bounds>>

(* What a read does with a Badger entry: expired is not found.             *)
Shown(e, t) == IF Visible(e, t) THEN e ELSE Absent

(* getBytes: the store's entry, or ErrClosed or Badger's own error.        *)
ReadStore(c) ==
  /\ c \in Read /\ stage[c] = "reading"
  /\ \/ /\ Readable(at[c])
        /\ Answered({c}, "ok")
        /\ got' = [got EXCEPT ![c] = Shown(badger[at[c]][KeyOf[c]], now)]
     \/ Answered({c}, "error") /\ UNCHANGED got
  /\ UNCHANGED <<vars, raft, args, entry, bounds>>

-----------------------------------------------------------------------------
(* Raft's main goroutine.                                                  *)

(* Mutant of Dequeue: a write is acknowledged without waiting for its      *)
(* future.                                                                 *)
DequeueAcknowledges(c) ==
  /\ stage[c] = "queued"
  /\ \/ /\ isLeader[at[c]] /\ c \in Write
        /\ Answered({c}, "ok")
        /\ entry' = [entry EXCEPT ![c] = "pending"]
     \/ ~isLeader[at[c]] /\ Answered({c}, "notLeader") /\ UNCHANGED entry
  /\ UNCHANGED <<vars, raft, args, got, bounds>>

(* The leader appends the call's entry to its own log, a follower answers  *)
(* ErrNotLeader.  A barrier's entry has no effect and no entry state.      *)
Dequeue(c) ==
  /\ stage[c] = "queued"
  /\ \/ /\ isLeader[at[c]]
        /\ stage' = [stage EXCEPT ![c] = "sent"]
        /\ entry' = [entry EXCEPT ![c] = IF c \in Read THEN "none" ELSE "pending"]
        /\ UNCHANGED <<at, index>>
     \/ ~isLeader[at[c]] /\ Answered({c}, "notLeader") /\ UNCHANGED entry
  /\ UNCHANGED <<vars, raft, args, got, bounds>>

(* The entry commits.  If its call waits on the node that commits, its     *)
(* future goes into the FSM's queue with it, unless Raft is shutting down  *)
(* and finds no room there.                                                *)
Committed(c) ==
  \/ /\ stage[c] = "sent" /\ leader = at[c]
     /\ stage' = [stage EXCEPT ![c] = "committed"]
     /\ index' = [index EXCEPT ![c] = Len(log')]
  \/ /\ ~(stage[c] = "sent" /\ leader = at[c] /\ status[leader] = "up")
     /\ UNCHANGED <<stage, index>>

CommitWrite(c) ==
  /\ c \in Write /\ entry[c] = "pending" /\ leader # None
  /\ Commit(ReqOf[c], time[c])
  /\ entry' = [entry EXCEPT ![c] = "in"]
  /\ Committed(c)
  /\ UNCHANGED <<raft, at, args, got, bounds>>

CommitChange(c) ==
  /\ c \in Change /\ entry[c] = "pending" /\ leader # None
  /\ members' = IF AddOf[c] THEN members \cup {ServerOf[c]} ELSE members \ {ServerOf[c]}
  /\ entry' = [entry EXCEPT ![c] = "in"]
  /\ UNCHANGED vars
  /\ Committed(c)
  /\ UNCHANGED <<leader, isLeader, at, args, got, bounds>>

CommitBarrier(c) ==
  /\ c \in Read /\ stage[c] = "sent" /\ leader = at[c]
  /\ UNCHANGED vars
  /\ Committed(c)
  /\ UNCHANGED <<raft, at, args, entry, got, bounds>>

(* Mutant of StepDown: ErrLeadershipLost is taken for ErrNotLeader.        *)
StepDownRefuses(n) ==
  /\ isLeader[n]
  /\ isLeader' = [isLeader EXCEPT ![n] = FALSE]
  /\ leader' = IF leader = n THEN None ELSE leader
  /\ Answered(CallsAt(n, {"sent"}), "notLeader")
  /\ UNCHANGED <<vars, members, args, entry, got, bounds>>

(* The node is no leader any more: what waits for a commit is answered     *)
(* ErrLeadershipLost.                                                      *)
StepDown(n) ==
  /\ isLeader[n]
  /\ isLeader' = [isLeader EXCEPT ![n] = FALSE]
  /\ leader' = IF leader = n THEN None ELSE leader
  /\ Answered(CallsAt(n, {"sent"}), "error")
  /\ UNCHANGED <<vars, members, args, entry, got, bounds>>

Elect(n) ==
  /\ elections < MaxElections
  /\ elections' = elections + 1
  /\ n \in members /\ Running(n) /\ ~isLeader[n]
  /\ leader' = n
  /\ isLeader' = [isLeader EXCEPT ![n] = TRUE]
  /\ UNCHANGED <<vars, members, progress, args, entry, got, exits>>

-----------------------------------------------------------------------------
(* Raft's FSM goroutine.                                                   *)

(* fsm.Apply; its result answers the write that waits for it on this node. *)
ApplyAt(n) ==
  /\ Apply(n)
  /\ Answered({c \in CallsAt(n, {"committed"}) \cap Write : index[c] = applied'[n]},
              IF appliedIndex'[n] = applied'[n] THEN "ok" ELSE "error")
  /\ UNCHANGED <<raft, args, entry, got, bounds>>

(* Mutant of Pass: the read verifies leadership instead of waiting for the *)
(* barrier to pass the FSM.                                                *)
PassEarly(c) ==
  /\ stage[c] = "committed"
  /\ \/ c \in Change /\ Answered({c}, "ok")
     \/ /\ c \in Read
        /\ stage' = [stage EXCEPT ![c] = "reading"]
        /\ index' = [index EXCEPT ![c] = 0]
        /\ UNCHANGED at
  /\ UNCHANGED <<vars, raft, args, entry, got, bounds>>

(* Barriers and configuration entries pass through it in log order.        *)
Pass(c) ==
  /\ stage[c] = "committed"
  /\ index[c] <= applied[at[c]]
  /\ \/ c \in Change /\ Answered({c}, "ok")
     \/ /\ c \in Read
        /\ stage' = [stage EXCEPT ![c] = "reading"]
        /\ index' = [index EXCEPT ![c] = 0]
        /\ UNCHANGED at
  /\ UNCHANGED <<vars, raft, args, entry, got, bounds>>

(* Followers only; what was committed before is applied before.            *)
InstallAt(n, m) ==
  /\ ~isLeader[n] /\ CallsAt(n, {"committed"}) = {}
  /\ InstallSnapshot(n, m)
  /\ UNCHANGED client

-----------------------------------------------------------------------------
(* Lifecycle.                                                              *)

Bounded == exits < MaxExits /\ exits' = exits + 1

CloseAt(n) ==
  /\ Bounded
  /\ Close(n)
  /\ UNCHANGED <<raft, progress, args, entry, got, elections>>

(* Once Shutdown is called Raft answers ErrRaftShutdown to what its main   *)
(* goroutine has not handed to the FSM's queue.                            *)
Shutdown(c) ==
  /\ stage[c] \in {"queued", "sent"}
  /\ status[at[c]] = "closing"
  /\ Answered({c}, "error")
  /\ UNCHANGED <<vars, raft, args, entry, got, bounds>>

(* Mutant of Gone: calls are taken over by the node's next incarnation.    *)
GoneUnheard(n, left) ==
  /\ isLeader' = [isLeader EXCEPT ![n] = FALSE]
  /\ leader' = IF leader = n THEN None ELSE leader
  /\ UNCHANGED <<members, progress, args, entry, got, elections>>

(* Raft's goroutines on n are gone, and what their calls get: an error, or *)
(* `left' if the future was in the FSM's queue.                            *)
Gone(n, left) ==
  /\ isLeader' = [isLeader EXCEPT ![n] = FALSE]
  /\ leader' = IF leader = n THEN None ELSE leader
  /\ stage' = [c \in Call |-> IF c \in CallsAt(n, {"committed"}) THEN left
                              ELSE IF c \in CallsAt(n, Underway) THEN "error"
                              ELSE stage[c]]
  /\ at' = [c \in Call |-> IF c \in CallsAt(n, Underway) THEN None ELSE at[c]]
  /\ index' = [c \in Call |-> IF c \in CallsAt(n, Underway) THEN 0 ELSE index[c]]
  /\ UNCHANGED <<members, args, entry, got, elections>>

(* Close has stopped Raft.  Its main goroutine answers what it has not     *)
(* handed on (ErrRaftShutdown, ErrLeadershipLost) and a read finds the     *)
(* store closed, but the FSM's goroutine leaves its queue as it is, and    *)
(* apply, Barrier and the membership calls wait without a timeout.         *)
CloseDoneAt(n) == CloseDone(n) /\ Gone(n, "stranded") /\ UNCHANGED exits

(* A process takes its callers with it.                                    *)
CrashAt(n) == Bounded /\ Crash(n) /\ Gone(n, "error")

CrashInRestoreAt(n, m) == Bounded /\ ~isLeader[n] /\ CrashInRestore(n, m) /\ Gone(n, "error")

(* The rest of Replication does not concern the calls.                     *)
Background == Tick \/ \E n \in Node : TakeSnapshot(n) \/ Persist(n) \/ Open(n)

ClientNext ==
  \/ \E c \in Call, n \in Node : apply(c, n)
  \/ \E c \in Call, n \in Node, isLocal \in BOOLEAN : prepareRead(c, n, isLocal)
  \/ \E c \in Call, n \in Node : AddVoter(c, n)
  \/ \E c \in Call, n \in Node : RemoveNode(c, n)
  \/ \E c \in Call : EnqueueTimeout(c)
  \/ \E c \in Call : ReadStore(c)
  \/ \E c \in Call : Dequeue(c)
  \/ \E c \in Call : CommitWrite(c)
  \/ \E c \in Call : CommitChange(c)
  \/ \E c \in Call : CommitBarrier(c)
  \/ \E n \in Node : StepDown(n)
  \/ \E n \in Node : Elect(n)
  \/ \E n \in Node : ApplyAt(n)
  \/ \E c \in Call : Pass(c)
  \/ \E n, m \in Node : InstallAt(n, m)
  \/ \E n \in Node : CloseAt(n)
  \/ \E c \in Call : Shutdown(c)
  \/ \E n \in Node : CloseDoneAt(n)
  \/ \E n \in Node : CrashAt(n)
  \/ \E n, m \in Node : CrashInRestoreAt(n, m)
  \/ Background /\ UNCHANGED client

ClientSpec == ClientInit /\ [][ClientNext]_clientVars

(* A leader that has its quorum commits, one that has lost it steps down.  *)
Resolve(c) ==
  \/ CommitWrite(c) \/ CommitChange(c) \/ CommitBarrier(c)
  \/ stage[c] = "sent" /\ StepDown(at[c])

Serve(c) == EnqueueTimeout(c) \/ Resolve(c) \/ Pass(c) \/ ReadStore(c)

(* The enqueue timer fires, Raft's goroutines run as long as the node      *)
(* does, and a read and a Close end (NodeStore shows when they may not).   *)
(* A call takes finitely many steps, so one condition for all calls leaves *)
(* none out.                                                               *)
ClientFairSpec ==
  /\ ClientSpec
  /\ WF_clientVars(\E c \in Call : Serve(c))
  /\ \A n \in Node : WF_clientVars(ApplyAt(n) \/ CloseDoneAt(n))

-----------------------------------------------------------------------------
(* What the calls rest on, inductive together with Provenance: a leader is *)
(* running, an entry's state matches its call's, a call that waits for an  *)
(* entry waits for one in the log no older than the call, and past the     *)
(* barrier the node has applied all that was committed when the read began *)
(* (db.go, apply; read.go, prepareRead and Barrier).                       *)
ClientInv ==
  /\ ClientTypeOK
  /\ leader # None => Running(leader)
  /\ \A c \in Call :
       /\ stage[c] \in Underway => at[c] \in Node /\ Running(at[c])
       /\ stage[c] \in {"idle", "queued", "notLeader", "timeout"} \/ c \in Read => entry[c] = "none"
       /\ stage[c] \in {"committed", "stranded", "ok"} /\ c \notin Read => entry[c] = "in"
       /\ stage[c] = "committed" => index[c] <= Len(log)
  /\ now >= 1
  /\ \A c \in Write : stage[c] # "idle" => time[c] \in 1..now
  /\ \A c \in Read :
       /\ since[c] <= Len(log)
       /\ stage[c] = "committed" => since[c] <= index[c]
       /\ stage[c] = "reading" /\ c \notin local => since[c] <= applied[at[c]]

(* The read runs on a node whose database never got the last write of its  *)
(* key: the command failed there or was skipped while the node closed.     *)
Blind(c) == LastWrite(log, applied[at[c]], KeyOf[c]) \in missed[at[c]]

(* The oldest version a read may return.                                   *)
Oldest(c) == IF Blind(c) \/ c \in local THEN 0 ELSE since[c]

(* read.go, Get: "every previously committed write is visible".  A read    *)
(* returns what the log, cut at some entry committed between the call and  *)
(* the answer, leaves under its key, although the node may be deposed,     *)
(* overtaken or restored after the barrier; a local read returns what some *)
(* committed prefix leaves there.                                          *)
LinearizableReads ==
  [][\A c \in Read : stage[c] = "reading" /\ stage'[c] = "ok" =>
       \E i \in Oldest(c)..Len(log) : got'[c] = Shown(StateAt(log, i)[KeyOf[c]], now)]_clientVars

(* A call answered NotLeaderError or ErrEnqueueTimeout has had no effect   *)
(* and never will, so it may be repeated elsewhere; any other error leaves *)
(* that open (db.go, apply; cluster.go, AddVoter and RemoveNode).          *)
RefusedNeverTakesEffect ==
  \A c \in Call : stage[c] \in {"notLeader", "timeout"} => entry[c] # "in"

(* Every call is answered, but for those whose entry had reached the FSM's *)
(* queue of a node that was then closed: timeouts, elections, shutdowns    *)
(* and lost leaderships leave nobody else waiting (db.go, apply; read.go,  *)
(* Barrier).  A call is made once, so it is enough that the moments when   *)
(* nobody waits recur.                                                     *)
CallsReturn == []<>(\A c \in Call : stage[c] \notin Underway)

(* config.go: "ApplyTimeout bounds how long a replicated write, a          *)
(* membership change, or the barrier behind a linearizable read waits for  *)
(* Raft."  Every call is answered, whatever becomes of its node.           *)
ApplyTimeoutBounds == []<>(\A c \in Call : stage[c] \notin Unanswered)

(* The cluster is the map of MapService: version i + 1 is what the first i *)
(* entries of the log amount to, and a write takes effect when its entry   *)
(* commits.                                                                *)
Versions == [i \in 1..Len(log) + 1 |-> StateAt(log, i - 1)]

Replies == [c \in Write \cup Read |-> IF stage[c] \in Unanswered THEN "open" ELSE stage[c]]

Commands == [c \in Write |-> Stamp(ReqOf[c], time[c])]

Map == INSTANCE MapService WITH
  hist <- Versions,
  cmd <- Commands,
  from <- [c \in Read |-> since[c] + 1],
  took <- {c \in Write : entry[c] = "in"},
  reply <- Replies,
  blind <- {c \in Read : stage[c] = "reading" /\ Blind(c)}

(* Callers cannot tell the cluster from that map: writes take effect at    *)
(* most once, in their interval if acknowledged, never if refused; reads   *)
(* return a version of theirs.                                             *)
ImplementsMap == Map!MapSpec
=============================================================================
