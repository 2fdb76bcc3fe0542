---------------------------- MODULE ClientProofs ----------------------------
(***************************************************************************)
(* Proofs about Client for every set of nodes, keys and calls and all      *)
(* bounds: its steps are Replication's, its reads are linearizable, and it *)
(* implements MapService.                                                  *)
(***************************************************************************)
EXTENDS Client, ReplicationProofs

(* The conjuncts of ClientInv.                                             *)
Stamped ==
  /\ now >= 1
  /\ \A c \in Write : stage[c] # "idle" => time[c] \in 1..now

CallInv(c) ==
  /\ stage[c] \in Underway => at[c] \in Node /\ Running(at[c])
  /\ stage[c] \in {"idle", "queued", "notLeader", "timeout"} \/ c \in Read => entry[c] = "none"
  /\ stage[c] \in {"committed", "stranded", "ok"} /\ c \notin Read => entry[c] = "in"
  /\ stage[c] = "committed" => index[c] <= Len(log)

ReadInv(c) ==
  /\ since[c] <= Len(log)
  /\ stage[c] = "committed" => since[c] <= index[c]
  /\ stage[c] = "reading" /\ c \notin local => since[c] <= applied[at[c]]

LEMMA InvParts ==
  ClientInv <=> /\ ClientTypeOK
                /\ leader # None => Running(leader)
                /\ \A c \in Call : CallInv(c)
                /\ Stamped
                /\ \A c \in Read : ReadInv(c)
BY DEF ClientInv, CallInv, Stamped, ReadInv

(* Every step of Client is one of Replication, or leaves it alone.         *)
LEMMA StepsAreReplication == ClientInv /\ [ClientNext]_clientVars => [Next]_vars
<1> SUFFICES ASSUME ClientInv, [ClientNext]_clientVars
             PROVE  [Next]_vars
  OBVIOUS
<1>1. CASE \E c \in Call : CommitWrite(c)
  <2>1. PICK c \in Call : CommitWrite(c)
    BY <1>1
  <2>2. c \in Write /\ stage[c] # "idle" /\ Commit(ReqOf[c], time[c])
    BY <2>1, InvParts DEF CommitWrite, CallInv
  <2>3. time[c] \in 1..now /\ ReqOf[c] \in Request
    BY <2>2, InvParts, ClientAssumption DEF Stamped
  <2>4. QED
    BY <2>2, <2>3 DEF Next
<1>2. CASE \E n \in Node : ApplyAt(n)
  BY <1>2 DEF ApplyAt, Next
<1>3. CASE \E n, m \in Node : InstallAt(n, m)
  BY <1>3 DEF InstallAt, Next
<1>4. CASE \E n \in Node : CloseAt(n) \/ CloseDoneAt(n) \/ CrashAt(n)
  BY <1>4 DEF CloseAt, CloseDoneAt, CrashAt, Next
<1>5. CASE \E n, m \in Node : CrashInRestoreAt(n, m)
  BY <1>5 DEF CrashInRestoreAt, Next
<1>6. CASE Background
  BY <1>6 DEF Background, Next
<1>7. CASE UNCHANGED vars
  BY <1>7
<1>8. QED
  BY <1>1, <1>2, <1>3, <1>4, <1>5, <1>6, <1>7
     DEF ClientNext, clientVars, Start,
         apply, prepareRead, AddVoter, RemoveNode, EnqueueTimeout, ReadStore, Dequeue, CommitChange,
         CommitBarrier, StepDown, Elect, Pass, Shutdown

LEMMA InitInv == ClientInit => ClientInv
<1> SUFFICES ASSUME ClientInit
             PROVE  ClientInv
  OBVIOUS
<1>1. TypeOK
  BY InitType DEF ClientInit
<1>2. ClientTypeOK
  BY <1>1, ClientAssumption DEF ClientInit, ClientTypeOK, Stage
<1>3. leader # None => Running(leader)
  BY ClientAssumption DEF ClientInit, Init, Running
<1>4. ASSUME NEW c \in Call PROVE CallInv(c)
  BY DEF ClientInit, CallInv, Underway, Waiting
<1>5. Stamped
  BY DEF ClientInit, Stamped, Call, Init
<1>6. ASSUME NEW c \in Read PROVE ReadInv(c)
  <2>1. c \in Call
    BY DEF Call
  <2>2. QED
    BY <2>1 DEF ClientInit, ReadInv, Init
<1>7. QED
  BY <1>2, <1>3, <1>4, <1>5, <1>6, InvParts

(* What a step must do for ClientInv to hold after it.                     *)
LEMMA InvPartsPrime ==
  ASSUME ClientTypeOK', (leader # None => Running(leader))',
         \A c \in Call : CallInv(c)', Stamped', \A c \in Read : ReadInv(c)'
  PROVE  ClientInv'
BY DEF ClientInv, CallInv, Stamped, ReadInv

(* Where a call is.                                                        *)
ProgressType ==
  /\ stage \in [Call -> Stage]
  /\ at \in [Call -> Node \cup {None}]
  /\ index \in [Call -> Nat]

LEMMA AnsweredType ==
  ASSUME ProgressType, NEW C, NEW answer \in Answer, Answered(C, answer)
  PROVE  ProgressType'
BY DEF ProgressType, Answered, Stage

(* Steps of the calls and of Raft's main goroutine that leave Replication  *)
(* alone.                                                                  *)
Quiet ==
  \/ \E c \in Call, n \in Node, isLocal \in BOOLEAN : Start(c, n, isLocal)
  \/ \E c \in Call : \/ EnqueueTimeout(c) \/ ReadStore(c) \/ Dequeue(c) \/ CommitChange(c)
                    \/ CommitBarrier(c) \/ Pass(c) \/ Shutdown(c)
  \/ \E n \in Node : StepDown(n) \/ Elect(n)
  \/ UNCHANGED client

LEMMA QuietInv ==
  ASSUME ClientInv, TypeOK', UNCHANGED vars,
         Quiet
  PROVE  ClientInv'
<1>a. UNCHANGED <<now, log, status, applied, badger>>
  BY DEF vars
<1>b. Write \subseteq Call /\ Read \subseteq Call /\ Change \subseteq Call /\ None \notin Node
  BY ClientAssumption DEF Call
<1>c. /\ ClientTypeOK
      /\ leader # None => Running(leader)
      /\ \A c \in Call : CallInv(c)
      /\ Stamped
      /\ \A c \in Read : ReadInv(c)
  BY InvParts
<1>d. Len(log) \in Nat /\ now \in Nat
  BY <1>c DEF ClientTypeOK, TypeOK
<1> USE DEF Underway, Waiting, Answer, Unanswered, Stage
<1>1. ASSUME NEW c \in Call, NEW n \in Node, NEW isLocal \in BOOLEAN, Start(c, n, isLocal)
      PROVE  ClientInv'
  <2>1. ClientTypeOK'
    BY <1>1, <1>a, <1>b, <1>c, <1>d DEF Start, Admit, checkOpen, ClientTypeOK, raft, bounds
  <2>2. (leader # None => Running(leader))'
    BY <1>1, <1>a, <1>c DEF Start, Running, raft
  <2>3. \A d \in Call : CallInv(d)'
    BY <1>1, <1>a, <1>b, <1>c DEF Start, Admit, checkOpen, ClientTypeOK, CallInv, Running, raft
  <2>4. Stamped'
    BY <1>1, <1>a, <1>b, <1>c, <1>d DEF Start, ClientTypeOK, Stamped, TypeOK
  <2>5. \A d \in Read : ReadInv(d)'
    BY <1>1, <1>a, <1>b, <1>c, <1>d DEF Start, Admit, checkOpen, ClientTypeOK, ReadInv
  <2>6. QED
    BY <2>1, <2>2, <2>3, <2>4, <2>5, InvPartsPrime
<1>2. ASSUME NEW c \in Call, EnqueueTimeout(c)
      PROVE  ClientInv'
  <2>1. ClientTypeOK'
    BY <1>2, <1>a, <1>b, <1>c, <1>d DEF EnqueueTimeout, Answered, ClientTypeOK, raft, args, bounds
  <2>2. (leader # None => Running(leader))'
    BY <1>2, <1>a, <1>c DEF EnqueueTimeout, Answered, Running, raft
  <2>3. \A d \in Call : CallInv(d)'
    BY <1>2, <1>a, <1>b, <1>c, <1>d DEF EnqueueTimeout, Answered, ClientTypeOK, CallInv, Running, raft, args
  <2>4. Stamped'
    BY <1>2, <1>a, <1>b, <1>c DEF EnqueueTimeout, Answered, ClientTypeOK, Stamped, args
  <2>5. \A d \in Read : ReadInv(d)'
    BY <1>2, <1>a, <1>b, <1>c, <1>d DEF EnqueueTimeout, Answered, ClientTypeOK, ReadInv, args
  <2>6. QED
    BY <2>1, <2>2, <2>3, <2>4, <2>5, InvPartsPrime
<1>3. ASSUME NEW c \in Call, ReadStore(c)
      PROVE  ClientInv'
  <2>1. ClientTypeOK'
    <3>1. /\ stage' \in [Call -> Stage]
          /\ at' \in [Call -> Node \cup {None}]
          /\ index' \in [Call -> Nat]
          /\ entry' \in [Call -> {"none", "pending", "in"}]
      <4>1. UNCHANGED entry /\ (Answered({c}, "ok") \/ Answered({c}, "error"))
        BY <1>3 DEF ReadStore
      <4>2. QED
        BY <4>1, <1>c, AnsweredType DEF ClientTypeOK, ProgressType
    <3>2. got' \in [Read -> Entry \cup {Absent}]
      <4>1. c \in Read /\ at[c] \in Node /\ KeyOf[c] \in Key
        BY <1>3, <1>c, ClientAssumption DEF ReadStore, CallInv
      <4>2. badger[at[c]][KeyOf[c]] \in Entry \cup {Absent}
        BY <4>1, <1>c DEF ClientTypeOK, TypeOK, State
      <4>3. QED
        BY <1>3, <1>c, <4>1, <4>2 DEF ReadStore, Shown, ClientTypeOK
    <3>9. QED
      BY <1>3, <1>a, <1>c, <3>1, <3>2 DEF ReadStore, Answered, Shown, Readable, ClientTypeOK, raft, args, bounds
  <2>2. (leader # None => Running(leader))'
    BY <1>3, <1>a, <1>c DEF ReadStore, Answered, Shown, Readable, Running, raft
  <2>3. \A d \in Call : CallInv(d)'
    BY <1>3, <1>a, <1>b, <1>c, <1>d DEF ReadStore, Answered, Shown, Readable, ClientTypeOK, CallInv, Running, raft, args
  <2>4. Stamped'
    BY <1>3, <1>a, <1>b, <1>c DEF ReadStore, Answered, Shown, Readable, ClientTypeOK, Stamped, args
  <2>5. ASSUME NEW d \in Read PROVE ReadInv(d)'
    <3>1. \/ stage'[d] = stage[d] /\ at'[d] = at[d] /\ index'[d] = index[d]
          \/ stage'[d] \in {"ok", "error"}
      BY <1>3, <1>b DEF ReadStore, Answered
    <3>2. UNCHANGED <<log, applied, since, local>>
      BY <1>3, <1>a DEF ReadStore, args
    <3>3. QED
      BY <1>c, <3>1, <3>2 DEF ReadInv
  <2>6. QED
    BY <2>1, <2>2, <2>3, <2>4, <2>5, InvPartsPrime
<1>4. ASSUME NEW c \in Call, Dequeue(c)
      PROVE  ClientInv'
  <2>1. ClientTypeOK'
    <3>1. /\ stage' \in [Call -> Stage]
          /\ at' \in [Call -> Node \cup {None}]
          /\ index' \in [Call -> Nat]
          /\ entry' \in [Call -> {"none", "pending", "in"}]
      <4>1. CASE Answered({c}, "notLeader") /\ UNCHANGED entry
        BY <1>c, <4>1, AnsweredType DEF ClientTypeOK, ProgressType
      <4>2. CASE isLeader[at[c]]
        BY <1>4, <1>c, <4>2 DEF Dequeue, ClientTypeOK
      <4>3. QED
        BY <1>4, <4>1, <4>2 DEF Dequeue
    <3>9. QED
      BY <1>4, <1>a, <1>c, <3>1 DEF Dequeue, Answered, ClientTypeOK, raft, args, bounds
  <2>2. (leader # None => Running(leader))'
    BY <1>4, <1>a, <1>c DEF Dequeue, Answered, Running, raft
  <2>3. \A d \in Call : CallInv(d)'
    BY <1>4, <1>a, <1>b, <1>c, <1>d DEF Dequeue, Answered, ClientTypeOK, CallInv, Running, raft, args
  <2>4. Stamped'
    BY <1>4, <1>a, <1>b, <1>c DEF Dequeue, Answered, ClientTypeOK, Stamped, args
  <2>5. \A d \in Read : ReadInv(d)'
    BY <1>4, <1>a, <1>b, <1>c, <1>d DEF Dequeue, Answered, ClientTypeOK, ReadInv, args
  <2>6. QED
    BY <2>1, <2>2, <2>3, <2>4, <2>5, InvPartsPrime
<1>5. ASSUME NEW c \in Call, CommitChange(c)
      PROVE  ClientInv'
  <2>1. ClientTypeOK'
    <3>1. /\ stage' \in [Call -> Stage]
          /\ at' \in [Call -> Node \cup {None}]
          /\ index' \in [Call -> Nat]
          /\ entry' \in [Call -> {"none", "pending", "in"}]
      BY <1>5, <1>a, <1>c, <1>d DEF CommitChange, Committed, ClientTypeOK
    <3>2. members' \subseteq Node
      BY <1>5, <1>c, ClientAssumption DEF CommitChange, ClientTypeOK
    <3>9. QED
      BY <1>5, <1>a, <1>c, <3>1, <3>2 DEF CommitChange, Committed, ClientTypeOK, raft, args, bounds
  <2>2. (leader # None => Running(leader))'
    BY <1>5, <1>a, <1>c DEF CommitChange, Committed, Running, raft
  <2>3. \A d \in Call : CallInv(d)'
    BY <1>5, <1>a, <1>b, <1>c, <1>d DEF CommitChange, Committed, ClientTypeOK, CallInv, Running, raft, args
  <2>4. Stamped'
    BY <1>5, <1>a, <1>b, <1>c DEF CommitChange, Committed, ClientTypeOK, Stamped, args
  <2>5. \A d \in Read : ReadInv(d)'
    BY <1>5, <1>a, <1>b, <1>c, <1>d DEF CommitChange, Committed, ClientTypeOK, ReadInv, args
  <2>6. QED
    BY <2>1, <2>2, <2>3, <2>4, <2>5, InvPartsPrime
<1>6. ASSUME NEW c \in Call, CommitBarrier(c)
      PROVE  ClientInv'
  <2>1. ClientTypeOK'
    <3>1. /\ stage' \in [Call -> Stage]
          /\ at' \in [Call -> Node \cup {None}]
          /\ index' \in [Call -> Nat]
          /\ entry' \in [Call -> {"none", "pending", "in"}]
      BY <1>6, <1>a, <1>c, <1>d DEF CommitBarrier, Committed, ClientTypeOK
    <3>9. QED
      BY <1>6, <1>a, <1>c, <3>1 DEF CommitBarrier, Committed, ClientTypeOK, raft, args, bounds
  <2>2. (leader # None => Running(leader))'
    BY <1>6, <1>a, <1>c DEF CommitBarrier, Committed, Running, raft
  <2>3. \A d \in Call : CallInv(d)'
    BY <1>6, <1>a, <1>b, <1>c, <1>d DEF CommitBarrier, Committed, ClientTypeOK, CallInv, Running, raft, args
  <2>4. Stamped'
    BY <1>6, <1>a, <1>b, <1>c DEF CommitBarrier, Committed, ClientTypeOK, Stamped, args
  <2>5. \A d \in Read : ReadInv(d)'
    BY <1>6, <1>a, <1>b, <1>c, <1>d DEF CommitBarrier, Committed, ClientTypeOK, ReadInv, args
  <2>6. QED
    BY <2>1, <2>2, <2>3, <2>4, <2>5, InvPartsPrime
<1>7. ASSUME NEW c \in Call, Pass(c)
      PROVE  ClientInv'
  <2>1. ClientTypeOK'
    <3>1. /\ stage' \in [Call -> Stage]
          /\ at' \in [Call -> Node \cup {None}]
          /\ index' \in [Call -> Nat]
          /\ entry' \in [Call -> {"none", "pending", "in"}]
      <4>1. CASE Answered({c}, "ok")
        BY <1>7, <1>c, <4>1, AnsweredType DEF Pass, ClientTypeOK, ProgressType
      <4>2. CASE ~Answered({c}, "ok")
        BY <1>7, <1>c, <4>2 DEF Pass, ClientTypeOK
      <4>3. QED
        BY <4>1, <4>2
    <3>9. QED
      BY <1>7, <1>a, <1>c, <3>1 DEF Pass, Answered, ClientTypeOK, raft, args, bounds
  <2>2. (leader # None => Running(leader))'
    BY <1>7, <1>a, <1>c DEF Pass, Answered, Running, raft
  <2>3. \A d \in Call : CallInv(d)'
    BY <1>7, <1>a, <1>b, <1>c, <1>d DEF Pass, Answered, ClientTypeOK, CallInv, Running, raft, args
  <2>4. Stamped'
    BY <1>7, <1>a, <1>b, <1>c DEF Pass, Answered, ClientTypeOK, Stamped, args
  <2>5. \A d \in Read : ReadInv(d)'
    <3> SUFFICES ASSUME NEW d \in Read
                 PROVE  ReadInv(d)'
      OBVIOUS
    <3>1. stage'[d] = "committed" => stage[d] = "committed" /\ index'[d] = index[d]
      BY <1>7, <1>b, <1>c DEF Pass, Answered, ClientTypeOK
    <3>2. ASSUME stage'[d] = "reading", d \notin local, d = c
          PROVE  since[d] <= applied[at[d]]
      <4>1. stage[d] = "committed" /\ index[d] <= applied[at[d]] /\ since[d] <= index[d]
        BY <1>7, <1>c, <3>2 DEF Pass, ReadInv
      <4>2. at[d] \in Node
        BY <1>c, <3>2, <4>1 DEF CallInv
      <4>3. since[d] \in Nat /\ index[d] \in Nat /\ applied[at[d]] \in Nat
        BY <1>c, <3>2, <4>2 DEF ClientTypeOK, TypeOK
      <4>4. QED
        BY <4>1, <4>3
    <3>3. at'[d] = at[d] /\ (d # c => stage'[d] = stage[d])
      BY <1>7, <1>b, <1>c, ClientAssumption DEF Pass, Answered, ClientTypeOK
    <3>4. UNCHANGED <<log, applied, since, local>>
      BY <1>7, <1>a DEF Pass, args
    <3>5. QED
      BY <1>c, <3>1, <3>2, <3>3, <3>4 DEF ReadInv
  <2>6. QED
    BY <2>1, <2>2, <2>3, <2>4, <2>5, InvPartsPrime
<1>8. ASSUME NEW c \in Call, Shutdown(c)
      PROVE  ClientInv'
  <2>1. ClientTypeOK'
    BY <1>8, <1>a, <1>b, <1>c, <1>d DEF Shutdown, Answered, ClientTypeOK, raft, args, bounds
  <2>2. (leader # None => Running(leader))'
    BY <1>8, <1>a, <1>c DEF Shutdown, Answered, Running, raft
  <2>3. \A d \in Call : CallInv(d)'
    BY <1>8, <1>a, <1>b, <1>c, <1>d DEF Shutdown, Answered, ClientTypeOK, CallInv, Running, raft, args
  <2>4. Stamped'
    BY <1>8, <1>a, <1>b, <1>c DEF Shutdown, Answered, ClientTypeOK, Stamped, args
  <2>5. \A d \in Read : ReadInv(d)'
    BY <1>8, <1>a, <1>b, <1>c, <1>d DEF Shutdown, Answered, ClientTypeOK, ReadInv, args
  <2>6. QED
    BY <2>1, <2>2, <2>3, <2>4, <2>5, InvPartsPrime
<1>9. ASSUME NEW n \in Node, StepDown(n)
      PROVE  ClientInv'
  <2>1. ClientTypeOK'
    BY <1>9, <1>a, <1>b, <1>c, <1>d DEF StepDown, Answered, CallsAt, ClientTypeOK, raft, args, bounds
  <2>2. (leader # None => Running(leader))'
    BY <1>9, <1>a, <1>c DEF StepDown, Running, raft
  <2>3. \A d \in Call : CallInv(d)'
    BY <1>9, <1>a, <1>b, <1>c, <1>d DEF StepDown, Answered, CallsAt, ClientTypeOK, CallInv, Running, raft, args
  <2>4. Stamped'
    BY <1>9, <1>a, <1>b, <1>c DEF StepDown, Answered, CallsAt, ClientTypeOK, Stamped, args
  <2>5. \A d \in Read : ReadInv(d)'
    BY <1>9, <1>a, <1>b, <1>c, <1>d DEF StepDown, Answered, CallsAt, ClientTypeOK, ReadInv, args
  <2>6. QED
    BY <2>1, <2>2, <2>3, <2>4, <2>5, InvPartsPrime
<1>10. ASSUME NEW n \in Node, Elect(n)
       PROVE  ClientInv'
  <2>1. ClientTypeOK'
    BY <1>10, <1>a, <1>b, <1>c, <1>d DEF Elect, progress, ClientTypeOK, raft, args, bounds
  <2>2. (leader # None => Running(leader))'
    BY <1>10, <1>a, <1>c DEF Elect, progress, Running, raft
  <2>3. \A d \in Call : CallInv(d)'
    BY <1>10, <1>a, <1>b, <1>c, <1>d DEF Elect, progress, ClientTypeOK, CallInv, Running, raft, args
  <2>4. Stamped'
    BY <1>10, <1>a, <1>b, <1>c DEF Elect, progress, ClientTypeOK, Stamped, args
  <2>5. \A d \in Read : ReadInv(d)'
    BY <1>10, <1>a, <1>b, <1>c, <1>d DEF Elect, progress, ClientTypeOK, ReadInv, args
  <2>6. QED
    BY <2>1, <2>2, <2>3, <2>4, <2>5, InvPartsPrime
<1>11. CASE UNCHANGED client
  BY <1>11, <1>a, <1>c, InvPartsPrime
     DEF client, raft, progress, args, bounds, ClientTypeOK, CallInv, Stamped, ReadInv, Running
<1>12. QED
  BY <1>1, <1>2, <1>3, <1>4, <1>5, <1>6, <1>7, <1>8, <1>9, <1>10, <1>11 DEF Quiet

(* Steps of Replication: nodes other than n keep running and lose nothing  *)
(* they have applied, and either so does n or n's calls are answered.      *)
LEMMA ReplicationInv ==
  ASSUME ClientInv, TypeOK', now <= now', Len(log) <= Len(log'), exits' \in Nat, NEW n \in Node,
         \A x \in Node \ {n} : (Running(x) => Running(x)') /\ applied[x] <= applied'[x],
         \/ /\ (Running(n) => Running(n)') /\ applied[n] <= applied'[n]
            /\ UNCHANGED <<raft, progress, args, entry, got, elections>>
         \/ \E left \in {"error", "stranded"} : Gone(n, left)
  PROVE  ClientInv'
<1>b. Write \subseteq Call /\ Read \subseteq Call /\ None \notin Node
  BY ClientAssumption DEF Call
<1>c. /\ ClientTypeOK
      /\ leader # None => Running(leader)
      /\ \A c \in Call : CallInv(c)
      /\ Stamped
      /\ \A c \in Read : ReadInv(c)
  BY InvParts
<1>d. /\ Len(log) \in Nat /\ now \in Nat /\ Len(log') \in Nat /\ now' \in Nat
      /\ applied \in [Node -> Nat] /\ applied' \in [Node -> Nat]
  BY <1>c DEF ClientTypeOK, TypeOK
<1>e. UNCHANGED <<members, local, since, time, entry, got, elections>>
  BY DEF Gone, raft, args
<1>f. ProgressType'
  <2>1. ASSUME NEW left \in {"error", "stranded"}, Gone(n, left)
        PROVE  ProgressType'
    <3>1. left \in Stage /\ "error" \in Stage
      BY DEF Stage, Unanswered, Answer
    <3>2. QED
      BY <2>1, <3>1, <1>c DEF Gone, ClientTypeOK, ProgressType
  <2>2. CASE UNCHANGED progress
    BY <2>2, <1>c DEF progress, ClientTypeOK, ProgressType
  <2>3. QED
    BY <2>1, <2>2
<1>g. ASSUME NEW c \in Call
      PROVE  \/ /\ stage'[c] = stage[c] /\ at'[c] = at[c] /\ index'[c] = index[c]
                /\ stage[c] \in Underway =>
                     at[c] \in Node /\ Running(at[c])' /\ applied[at[c]] <= applied'[at[c]]
             \/ stage'[c] = "error" /\ stage[c] \in Underway
             \/ stage'[c] = "stranded" /\ stage[c] = "committed"
  <2>1. ASSUME NEW left \in {"error", "stranded"}, Gone(n, left)
        PROVE  \/ /\ stage'[c] = stage[c] /\ at'[c] = at[c] /\ index'[c] = index[c]
                  /\ stage[c] \in Underway =>
                       at[c] \in Node /\ Running(at[c])' /\ applied[at[c]] <= applied'[at[c]]
               \/ stage'[c] = "error" /\ stage[c] \in Underway
               \/ stage'[c] = "stranded" /\ stage[c] = "committed"
    <3>1. CASE c \in CallsAt(n, {"committed"})
      BY <2>1, <3>1 DEF Gone, CallsAt, Underway, Waiting
    <3>2. CASE c \in CallsAt(n, Underway) /\ c \notin CallsAt(n, {"committed"})
      BY <2>1, <3>2 DEF Gone, CallsAt
    <3>3. CASE c \notin CallsAt(n, Underway) /\ c \notin CallsAt(n, {"committed"})
      <4>1. stage'[c] = stage[c] /\ at'[c] = at[c] /\ index'[c] = index[c]
        BY <2>1, <3>3 DEF Gone
      <4>2. ASSUME stage[c] \in Underway
            PROVE  at[c] \in Node \ {n} /\ Running(at[c])
        BY <3>3, <4>2, <1>c DEF CallsAt, CallInv
      <4>3. QED
        BY <4>1, <4>2
    <3>4. QED
      BY <3>1, <3>2, <3>3
  <2>2. CASE (Running(n) => Running(n)') /\ applied[n] <= applied'[n] /\ UNCHANGED progress
    <3>1. ASSUME stage[c] \in Underway
          PROVE  at[c] \in Node /\ Running(at[c])' /\ applied[at[c]] <= applied'[at[c]]
      <4>1. at[c] \in Node /\ Running(at[c])
        BY <3>1, <1>c DEF CallInv
      <4>2. CASE at[c] = n
        BY <2>2, <4>1, <4>2 DEF progress, Running
      <4>3. CASE at[c] # n
        BY <2>2, <4>1, <4>3 DEF progress, Running
      <4>4. QED
        BY <4>1, <4>2, <4>3
    <3>2. QED
      BY <2>2, <3>1 DEF progress
  <2>3. QED
    BY <2>1, <2>2
<1>1. ClientTypeOK'
  <2>1. leader' \in Node \cup {None} /\ isLeader' \in [Node -> BOOLEAN]
    BY <1>c DEF Gone, raft, ClientTypeOK
  <2>2. QED
    BY <1>c, <1>e, <1>f, <2>1 DEF ClientTypeOK, ProgressType
<1>2. (leader # None => Running(leader))'
  <2>1. leader' = None \/ (leader' = leader /\ (leader = n /\ Running(n) => Running(n)'))
    BY <1>c DEF Gone, raft, ClientTypeOK
  <2>2. QED
    BY <2>1, <1>c DEF ClientTypeOK
<1>3. \A c \in Call : CallInv(c)'
  BY <1>c, <1>d, <1>e, <1>f, <1>g DEF CallInv, ProgressType, ClientTypeOK, Underway, Waiting
<1>4. Stamped'
  <2>1. ASSUME NEW c \in Write, stage'[c] # "idle"
        PROVE  time'[c] \in 1..now'
    <3>1. stage[c] # "idle"
      BY <2>1, <1>b, <1>g DEF Underway, Waiting
    <3>2. QED
      BY <3>1, <1>c, <1>d, <1>e DEF Stamped
  <2>2. QED
    BY <2>1, <1>c, <1>d DEF Stamped
<1>5. ASSUME NEW c \in Read
      PROVE  ReadInv(c)'
  <2>1. since[c] \in Nat /\ since[c] <= Len(log')
    BY <1>c, <1>d DEF ReadInv, ClientTypeOK
  <2>2. ASSUME stage'[c] = "committed" PROVE since[c] <= index'[c]
    BY <2>2, <1>b, <1>c, <1>g DEF ReadInv
  <2>3. ASSUME stage'[c] = "reading", c \notin local PROVE since[c] <= applied'[at'[c]]
    <3>1. /\ stage[c] = "reading" /\ at'[c] = at[c]
          /\ at[c] \in Node /\ applied[at[c]] <= applied'[at[c]]
      BY <2>3, <1>b, <1>g DEF Underway
    <3>2. since[c] <= applied[at[c]]
      BY <2>3, <3>1, <1>c DEF ReadInv
    <3>3. QED
      BY <2>1, <3>1, <3>2, <1>d
  <2>4. QED
    BY <2>1, <2>2, <2>3, <1>e DEF ReadInv
<1>6. QED
  BY <1>1, <1>2, <1>3, <1>4, <1>5, InvPartsPrime

(* A committed write: the log grows, and its caller may hear of it.        *)
LEMMA CommitWriteInv ==
  ASSUME ClientInv, TypeOK', NEW c \in Call, CommitWrite(c)
  PROVE  ClientInv'
<1>b. Write \subseteq Call /\ Read \subseteq Call /\ Write \cap Read = {}
  BY ClientAssumption DEF Call
<1>c. /\ ClientTypeOK
      /\ leader # None => Running(leader)
      /\ \A d \in Call : CallInv(d)
      /\ Stamped
      /\ \A d \in Read : ReadInv(d)
  BY InvParts
<1>a. /\ UNCHANGED <<now, status, applied>>
      /\ UNCHANGED <<leader, isLeader, members, at, local, since, time, got, elections, exits>>
      /\ c \in Write /\ entry' = [entry EXCEPT ![c] = "in"]
  BY DEF CommitWrite, Commit, raft, args, bounds
<1>d. Len(log) \in Nat /\ Len(log') = Len(log) + 1 /\ now \in Nat
  <2>1. log \in Seq(Command) /\ log' = Append(log, Stamp(ReqOf[c], time[c])) /\ now \in Nat
    BY <1>c DEF CommitWrite, Commit, ClientTypeOK, TypeOK
  <2>2. Stamp(ReqOf[c], time[c]) \in Command
    BY <1>a, <1>c, StampType, ClientAssumption DEF ClientTypeOK
  <2>3. QED
    BY <2>1, <2>2
<1>e. \/ UNCHANGED <<stage, index>>
      \/ /\ stage[c] = "sent" /\ stage' = [stage EXCEPT ![c] = "committed"]
         /\ index' = [index EXCEPT ![c] = Len(log')]
  BY DEF CommitWrite, Committed
<1>1. ClientTypeOK'
  <2>1. ProgressType'
    <3>1. ProgressType /\ "committed" \in Stage /\ Len(log') \in Nat
      BY <1>c, <1>d DEF ClientTypeOK, ProgressType, Stage, Unanswered, Underway, Waiting
    <3>2. QED
      BY <3>1, <1>a, <1>e DEF ProgressType
  <2>2. entry' \in [Call -> {"none", "pending", "in"}]
    BY <1>a, <1>c DEF ClientTypeOK
  <2>3. QED
    BY <2>1, <2>2, <1>a, <1>c DEF ClientTypeOK, ProgressType
<1>2. (leader # None => Running(leader))'
  BY <1>a, <1>c DEF Running
<1>3. \A d \in Call : CallInv(d)'
  BY <1>a, <1>b, <1>c, <1>d, <1>e DEF CommitWrite, CallInv, Running, ClientTypeOK, Underway, Waiting
<1>4. Stamped'
  BY <1>a, <1>b, <1>c, <1>d, <1>e DEF Stamped, ClientTypeOK
<1>5. ASSUME NEW d \in Read
      PROVE  ReadInv(d)'
  <2>1. d # c /\ stage'[d] = stage[d] /\ index'[d] = index[d]
    BY <1>a, <1>b, <1>c, <1>e DEF ClientTypeOK
  <2>2. since[d] \in Nat /\ ReadInv(d)
    BY <1>c DEF ClientTypeOK
  <2>3. QED
    BY <2>1, <2>2, <1>a, <1>d DEF ReadInv
<1>6. QED
  BY <1>1, <1>2, <1>3, <1>4, <1>5, InvPartsPrime

(* An entry passes the FSM: a write that is answered was in the log.       *)
LEMMA ApplyInv ==
  ASSUME ClientInv, TypeOK', NEW n \in Node, ApplyAt(n)
  PROVE  ClientInv'
<1>b. Write \subseteq Call /\ Read \subseteq Call /\ Write \cap Read = {}
  BY ClientAssumption DEF Call
<1>c. /\ ClientTypeOK
      /\ leader # None => Running(leader)
      /\ \A d \in Call : CallInv(d)
      /\ Stamped
      /\ \A d \in Read : ReadInv(d)
  BY InvParts
<1>a. /\ UNCHANGED <<now, log, status>>
      /\ UNCHANGED <<leader, isLeader, members, local, since, time, entry, got, elections, exits>>
      /\ applied' = [applied EXCEPT ![n] = applied[n] + 1]
  BY DEF ApplyAt, Apply, raft, args, bounds
<1>d. /\ Len(log) \in Nat /\ now \in Nat /\ applied \in [Node -> Nat]
      /\ \A x \in Node : applied'[x] \in Nat /\ applied[x] <= applied'[x]
  <2>1. Len(log) \in Nat /\ now \in Nat /\ applied \in [Node -> Nat]
    BY <1>c DEF ClientTypeOK, TypeOK
  <2>2. QED
    BY <1>a, <2>1
<1> DEFINE C == {c \in CallsAt(n, {"committed"}) \cap Write : index[c] = applied'[n]}
           ans == IF appliedIndex'[n] = applied'[n] THEN "ok" ELSE "error"
<1>e. Answered(C, ans) /\ ans \in {"ok", "error"}
  BY DEF ApplyAt
<1>f. \A c \in C : c \in Write /\ stage[c] = "committed"
  BY DEF CallsAt
<1> HIDE DEF C, ans
<1>g. ProgressType'
  BY <1>c, <1>e, AnsweredType DEF ClientTypeOK, ProgressType, Answer
<1>h. ASSUME NEW c \in Call
      PROVE  \/ stage'[c] = stage[c] /\ at'[c] = at[c] /\ index'[c] = index[c]
             \/ c \in Write /\ stage[c] = "committed" /\ stage'[c] \in {"ok", "error"}
  BY <1>e, <1>f DEF Answered
<1>1. ClientTypeOK'
  BY <1>a, <1>c, <1>g DEF ClientTypeOK, ProgressType
<1>2. (leader # None => Running(leader))'
  BY <1>a, <1>c DEF Running
<1>3. ASSUME NEW c \in Call
      PROVE  CallInv(c)'
  BY <1>a, <1>b, <1>c, <1>g, <1>h DEF CallInv, Running, Underway, Waiting
<1>4. Stamped'
  <2>1. \A c \in Write : stage'[c] # "idle" => stage[c] # "idle"
    BY <1>b, <1>h
  <2>2. QED
    BY <2>1, <1>a, <1>c DEF Stamped
<1>5. ASSUME NEW c \in Read
      PROVE  ReadInv(c)'
  <2>1. stage'[c] = stage[c] /\ at'[c] = at[c] /\ index'[c] = index[c]
    BY <1>b, <1>h
  <2>2. since[c] \in Nat /\ ReadInv(c)
    BY <1>c DEF ClientTypeOK
  <2>3. ASSUME stage[c] = "reading", c \notin local PROVE since[c] <= applied'[at[c]]
    <3>1. at[c] \in Node
      BY <2>3, <1>b, <1>c DEF CallInv, Underway
    <3>2. QED
      BY <3>1, <2>2, <2>3, <1>d DEF ReadInv
  <2>4. QED
    BY <2>1, <2>2, <2>3, <1>a DEF ReadInv
<1>6. QED
  BY <1>1, <1>2, <1>3, <1>4, <1>5, InvPartsPrime

LEMMA NextInv == ClientInv /\ Provenance /\ [ClientNext]_clientVars => ClientInv'
<1> SUFFICES ASSUME ClientInv, Provenance, [ClientNext]_clientVars
             PROVE  ClientInv'
  OBVIOUS
<1>a. TypeOK /\ TypeOK'
  BY StepsAreReplication, NextType DEF ClientInv, ClientTypeOK
<1>b. /\ Len(log) \in Nat /\ now \in Nat /\ exits \in Nat /\ MaxExits \in Nat
      /\ applied \in [Node -> Nat] /\ status \in [Node -> {"up", "closing", "down"}]
  BY ClientAssumption DEF ClientInv, ClientTypeOK, TypeOK
<1>1. CASE \E c \in Call : CommitWrite(c)
  BY <1>1, <1>a, CommitWriteInv
<1>2. CASE \E n \in Node : ApplyAt(n)
  BY <1>2, <1>a, ApplyInv
<1>3. ASSUME NEW n \in Node, NEW m \in Node, InstallAt(n, m)
      PROVE  ClientInv'
  <2>1. UNCHANGED <<now, log, status>> /\ UNCHANGED client
    BY <1>3 DEF InstallAt, InstallSnapshot
  <2>2. \/ UNCHANGED applied
        \/ applied' = [applied EXCEPT ![n] = snap[m].index] /\ snap[m].index > applied[n]
    BY <1>3 DEF InstallAt, InstallSnapshot, Restored, RestoreFails
  <2>3. snap[m].index \in Nat
    BY <1>a DEF TypeOK, Snapshot
  <2>4. \A x \in Node : (Running(x) => Running(x)') /\ applied[x] <= applied'[x]
    BY <1>b, <2>1, <2>2, <2>3 DEF Running
  <2>5. QED
    BY <1>a, <1>b, <2>1, <2>4, ReplicationInv DEF client, bounds
<1>4. ASSUME NEW n \in Node, CloseAt(n)
      PROVE  ClientInv'
  <2>1. UNCHANGED <<now, log, applied>> /\ exits' \in Nat
    BY <1>4, <1>b DEF CloseAt, Close, Bounded
  <2>2. \A x \in Node : Running(x) => Running(x)'
    BY <1>4, <1>b DEF CloseAt, Close, Running
  <2>3. QED
    BY <1>a, <1>b, <1>4, <2>1, <2>2, ReplicationInv DEF CloseAt
<1>5. ASSUME NEW n \in Node, NEW m \in Node, CloseDoneAt(n) \/ CrashAt(n) \/ CrashInRestoreAt(n, m)
      PROVE  ClientInv'
  <2>1. /\ UNCHANGED <<now, log>> /\ exits' \in Nat /\ Exit(n)
        /\ \E left \in {"error", "stranded"} : Gone(n, left)
    BY <1>5, <1>b DEF CloseDoneAt, CrashAt, CrashInRestoreAt, CloseDone, Crash, CrashInRestore, Bounded
  <2>2. \A x \in Node \ {n} : (Running(x) => Running(x)') /\ applied[x] <= applied'[x]
    BY <1>b, <2>1 DEF Exit, Running
  <2>3. QED
    BY <1>a, <1>b, <2>1, <2>2, ReplicationInv
<1>6. CASE Background /\ UNCHANGED client
  <2>1. CASE Tick \/ \E n \in Node : TakeSnapshot(n) \/ Persist(n)
    <3>1. UNCHANGED <<log, status, applied>> /\ now <= now'
      BY <2>1, <1>b DEF Tick, TakeSnapshot, Persist
    <3>2. \A x \in Node : (Running(x) => Running(x)') /\ applied[x] <= applied'[x]
      BY <1>b, <3>1 DEF Running
    <3>3. CASE Node = {}
      BY <1>a, <1>6, <3>1, <3>3, ClientAssumption
    <3>4. QED
      BY <1>a, <1>b, <1>6, <3>1, <3>2, ReplicationInv, ClientAssumption DEF client, bounds
  <2>2. ASSUME NEW n \in Node, Open(n)
        PROVE  ClientInv'
    <3>1. UNCHANGED <<now, log>> /\ applied[n] = 0
      BY <2>2 DEF Open, Provenance
    <3>2. /\ status' = [status EXCEPT ![n] = "up"]
          /\ \/ UNCHANGED applied
             \/ \E s \in {snap[n], prev[n]} : applied' = [applied EXCEPT ![n] = s.index]
      BY <2>2 DEF Open, OpenReplay, OpenRestore, Restored
    <3>3. \A s \in {snap[n], prev[n]} : s.index \in Nat
      BY <1>a DEF TypeOK, Snapshot
    <3>4. \A x \in Node : (Running(x) => Running(x)') /\ applied[x] <= applied'[x]
      BY <1>b, <3>1, <3>2, <3>3 DEF Running
    <3>5. QED
      BY <1>a, <1>b, <1>6, <3>1, <3>4, ReplicationInv DEF client, bounds
  <2>3. QED
    BY <1>6, <2>1, <2>2 DEF Background
<1>7. CASE UNCHANGED vars /\ Quiet
  BY <1>7, <1>a, QuietInv
<1>8. CASE \E c \in Call, n \in Node, isLocal \in BOOLEAN : Start(c, n, isLocal)
  <2>1. UNCHANGED vars
    BY <1>8 DEF Start
  <2>2. QED
    BY <1>7, <1>8, <2>1 DEF Quiet
<1>9. CASE \E c \in Call, n \in Node :
             \/ apply(c, n) \/ AddVoter(c, n) \/ RemoveNode(c, n)
             \/ \E isLocal \in BOOLEAN : prepareRead(c, n, isLocal)
  BY <1>8, <1>9 DEF apply, prepareRead, AddVoter, RemoveNode
<1>10. QED
  BY <1>1, <1>2, <1>3, <1>4, <1>5, <1>6, <1>7, <1>9
     DEF ClientNext, Quiet, clientVars, EnqueueTimeout, ReadStore, Dequeue, CommitChange,
         CommitBarrier, StepDown, Elect, Pass, Shutdown

(* The calls' inductive invariant.                                         *)
THEOREM ClientInvHolds == ClientSpec => []ClientInv
<1>1. ClientInit => ClientInv /\ Provenance
  BY InitInv, InitProvenance DEF ClientInit
<1>2. (ClientInv /\ Provenance) /\ [ClientNext]_clientVars => (ClientInv /\ Provenance)'
  <2> SUFFICES ASSUME ClientInv, Provenance, [ClientNext]_clientVars
               PROVE  (ClientInv /\ Provenance)'
    OBVIOUS
  <2>1. ClientInv'
    BY NextInv
  <2>2. Provenance'
    BY <2>1, StepsAreReplication, NextProvenance DEF ClientInv, ClientTypeOK
  <2>3. QED
    BY <2>1, <2>2
<1>3. QED
  BY <1>1, <1>2, PTL DEF ClientSpec

(* Client is Replication with its commits driven by calls, so everything   *)
(* proved of Replication's nodes holds under it.                           *)
THEOREM RefinesReplication == ClientSpec => Spec
<1>1. ClientInit => Init
  BY DEF ClientInit
<1>2. QED
  BY <1>1, ClientInvHolds, StepsAreReplication, PTL DEF ClientSpec, Spec

(* Refused calls have no effect, ever.                                     *)
THEOREM RefusalHolds == ClientSpec => []RefusedNeverTakesEffect
<1>1. ClientInv => RefusedNeverTakesEffect
  BY DEF ClientInv, RefusedNeverTakesEffect
<1>2. QED
  BY <1>1, ClientInvHolds, PTL

-----------------------------------------------------------------------------
(* Reads.                                                                  *)

LEMMA LastWriteIs ==
  ASSUME NEW lg, NEW i \in Nat, NEW k \in Key, NEW j, IsLastWrite(lg, i, k, j)
  PROVE  LastWrite(lg, i, k) = j /\ StateAt(lg, i)[k] = EffectAt(lg, j, k)
<1> DEFINE w == LastWrite(lg, i, k)
<1>1. IsLastWrite(lg, i, k, w)
  BY LastWriteExists
<1> HIDE DEF w
<1>2. w = j
  BY <1>1 DEF IsLastWrite
<1>3. QED
  BY <1>2 DEF w, StateAt

(* What a database holds under k some prefix of the log left there, and a  *)
(* prefix of at least a entries if the last write up to a was not missed.  *)
PrefixLeaves(lg, c, a, M, k) ==
  \E i \in 0..Len(lg) : /\ c[k] = StateAt(lg, i)[k]
                        /\ LastWrite(lg, a, k) \in M \/ a <= i

LEMMA CoversRead ==
  ASSUME NEW lg, NEW c, NEW a \in Nat, NEW h \in Nat, NEW M, NEW k \in Key,
         Covers(lg, c, a, h, M), Len(lg) \in Nat, a <= Len(lg), h <= Len(lg)
  PROVE  PrefixLeaves(lg, c, a, M, k)
<1>1. PICK j \in 0..h : From(lg, c, a, M, k, j)
  BY DEF Covers
<1>2. IsLastWrite(lg, j, k, j)
  BY <1>1 DEF From, IsLastWrite
<1>3. c[k] = StateAt(lg, j)[k] /\ j \in 0..Len(lg)
  BY <1>1, <1>2, LastWriteIs DEF From
<1>4. CASE LastWrite(lg, a, k) \in M \/ a <= j
  BY <1>3, <1>4 DEF PrefixLeaves
<1>5. CASE LastWrite(lg, a, k) \notin M /\ j < a
  <2> DEFINE w == LastWrite(lg, a, k)
  <2>1. IsLastWrite(lg, a, k, w) /\ w \notin M
    BY <1>5, LastWriteExists
  <2> HIDE DEF w
  <2>2. w = j
    BY <1>1, <1>5, <2>1 DEF IsLastWrite, From
  <2>3. c[k] = StateAt(lg, a)[k]
    BY <1>1, <2>1, <2>2, LastWriteIs DEF From
  <2>4. QED
    BY <2>3 DEF PrefixLeaves
<1>6. QED
  BY <1>1, <1>4, <1>5

LEMMA ReadValue ==
  ASSUME ClientInv, Provenance, NEW c \in Read, stage[c] = "reading"
  PROVE  \E i \in Oldest(c)..Len(log) : badger[at[c]][KeyOf[c]] = StateAt(log, i)[KeyOf[c]]
<1> DEFINE n == at[c]
           k == KeyOf[c]
<1>1. n \in Node /\ k \in Key
  BY ClientAssumption DEF ClientInv, Call, Underway
<1>2. applied[n] \in Nat /\ high[n] \in Nat /\ Len(log) \in Nat /\ since[c] \in Nat
  BY <1>1 DEF ClientInv, ClientTypeOK, TypeOK
<1>3. /\ Covers(log, badger[n], applied[n], high[n], missed[n])
      /\ applied[n] <= Len(log) /\ high[n] <= Len(log)
  BY <1>1 DEF Provenance
<1>4. c \notin local => since[c] <= applied[n]
  BY DEF ClientInv
<1>5. Oldest(c) = IF LastWrite(log, applied[n], k) \in missed[n] \/ c \in local THEN 0 ELSE since[c]
  BY DEF Oldest, Blind
<1> SUFFICES \E i \in Oldest(c)..Len(log) : badger[n][k] = StateAt(log, i)[k]
  OBVIOUS
<1> HIDE DEF n, k
<1>6. PrefixLeaves(log, badger[n], applied[n], missed[n], k)
  BY <1>1, <1>2, <1>3, CoversRead
<1>7. PICK i \in 0..Len(log) : /\ badger[n][k] = StateAt(log, i)[k]
                               /\ LastWrite(log, applied[n], k) \in missed[n] \/ applied[n] <= i
  BY <1>6 DEF PrefixLeaves
<1>8. Oldest(c) \in Nat /\ Oldest(c) <= i
  BY <1>2, <1>4, <1>5, <1>7
<1>9. i \in Oldest(c)..Len(log)
  BY <1>2, <1>7, <1>8
<1>10. QED
  BY <1>7, <1>9

(* Only ReadStore ends a read well.                                        *)
LEMMA ReadEnds ==
  ASSUME ClientInv, [ClientNext]_clientVars, NEW c \in Read,
         stage[c] = "reading", stage'[c] = "ok"
  PROVE  got'[c] = Shown(badger[at[c]][KeyOf[c]], now)
<1>1. c \in Call /\ c \notin Write /\ c \notin Change
  BY ClientAssumption DEF Call
<1>2. stage \in [Call -> Stage] /\ got \in [Read -> Entry \cup {Absent}]
  BY DEF ClientInv, ClientTypeOK
<1>3. \E d \in Call : ReadStore(d)
  BY <1>1, <1>2 DEF ClientNext, clientVars, client, progress, Start,
         apply, prepareRead, AddVoter, RemoveNode, Admit, EnqueueTimeout, Dequeue,
       CommitWrite, CommitChange, CommitBarrier, Committed, StepDown, Elect, ApplyAt, Pass,
       InstallAt, CloseAt, Shutdown, CloseDoneAt, CrashAt, CrashInRestoreAt, Gone, Answered, CallsAt
<1>4. PICK d \in Call : ReadStore(d)
  BY <1>3
<1>5. d = c
  BY <1>1, <1>2, <1>4 DEF ReadStore, Answered
<1>6. QED
  BY <1>1, <1>2, <1>4, <1>5 DEF ReadStore, Answered

(* Every read returns a version of its interval.                           *)
THEOREM ReadsHold == ClientSpec => LinearizableReads
<1>1. ClientInv /\ Provenance /\ [ClientNext]_clientVars =>
        [\A c \in Read : stage[c] = "reading" /\ stage'[c] = "ok" =>
           \E i \in Oldest(c)..Len(log) :
             got'[c] = Shown(StateAt(log, i)[KeyOf[c]], now)]_clientVars
  BY ReadValue, ReadEnds
<1>2. Spec => []Provenance
  BY ProvenanceHolds
<1>3. QED
  BY <1>1, <1>2, ClientInvHolds, RefinesReplication, PTL DEF ClientSpec, LinearizableReads

-----------------------------------------------------------------------------
(* The refinement of MapService.                                           *)

(* A new entry leaves the older versions alone ...                         *)
LEMMA StateAtAppend ==
  ASSUME NEW lg \in Seq(Command), NEW cmd \in Command, NEW i \in 0..Len(lg)
  PROVE  StateAt(Append(lg, cmd), i) = StateAt(lg, i)
<1> DEFINE lg2 == Append(lg, cmd)
<1>1. \A j \in 1..Len(lg) : lg2[j] = lg[j]
  OBVIOUS
<1> HIDE DEF lg2
<1>2. i \in Nat /\ Len(lg) \in Nat
  OBVIOUS
<1>3. ASSUME NEW k \in Key
      PROVE  EffectAt(lg2, LastWrite(lg2, i, k), k) = EffectAt(lg, LastWrite(lg, i, k), k)
  <2> DEFINE w == LastWrite(lg, i, k)
  <2>1. IsLastWrite(lg, i, k, w)
    BY <1>2, LastWriteExists
  <2> HIDE DEF w
  <2>2. IsLastWrite(lg2, i, k, w)
    BY <1>1, <1>2, <2>1 DEF IsLastWrite
  <2>3. LastWrite(lg2, i, k) = w
    BY <1>2, <2>2, LastWriteIs
  <2>4. w = 0 \/ lg2[w] = lg[w]
    BY <1>1, <1>2, <2>1 DEF IsLastWrite
  <2>5. QED
    BY <2>3, <2>4 DEF w, EffectAt
<1>4. QED
  BY <1>3 DEF StateAt, lg2

(* ... and its own is the last one with the command applied.               *)
LEMMA StateAtNext ==
  ASSUME NEW lg \in Seq(Command), NEW cmd \in Command
  PROVE  StateAt(Append(lg, cmd), Len(lg) + 1) = ApplyTxn(StateAt(lg, Len(lg)), cmd)
<1> DEFINE lg2 == Append(lg, cmd)
           n == Len(lg)
<1>1. n \in Nat /\ n + 1 \in Nat /\ lg2[n + 1] = cmd /\ n + 1 # 0
  OBVIOUS
<1>2. StateAt(lg2, n) = StateAt(lg, n)
  BY StateAtAppend
<1> HIDE DEF lg2, n
<1>3. ASSUME NEW k \in Key
      PROVE  EffectAt(lg2, LastWrite(lg2, n + 1, k), k) =
               IF k \in Writes(cmd) THEN Effect(cmd, k) ELSE StateAt(lg, n)[k]
  <2>1. CASE k \in Writes(cmd)
    <3>1. IsLastWrite(lg2, n + 1, k, n + 1)
      BY <1>1, <2>1 DEF IsLastWrite
    <3>2. LastWrite(lg2, n + 1, k) = n + 1
      BY <1>1, <3>1, LastWriteIs
    <3>3. QED
      BY <1>1, <2>1, <3>2 DEF EffectAt
  <2>2. CASE k \notin Writes(cmd)
    <3> DEFINE w == LastWrite(lg2, n, k)
    <3>1. IsLastWrite(lg2, n, k, w)
      BY <1>1, LastWriteExists
    <3>2. EffectAt(lg2, w, k) = StateAt(lg, n)[k]
      BY <1>2 DEF StateAt
    <3> HIDE DEF w
    <3>3. IsLastWrite(lg2, n + 1, k, w)
      BY <1>1, <2>2, <3>1 DEF IsLastWrite
    <3>4. QED
      BY <1>1, <2>2, <3>2, <3>3, LastWriteIs
  <2>3. QED
    BY <2>1, <2>2
<1>4. StateAt(lg, n) \in [Key -> Entry \cup {Absent}]
  <2>1. ASSUME NEW k \in Key
        PROVE  EffectAt(lg, LastWrite(lg, n, k), k) \in Entry \cup {Absent}
    <3> DEFINE w == LastWrite(lg, n, k)
    <3>1. w \in 0..n
      BY <1>1, LastWriteExists DEF IsLastWrite
    <3>2. w = 0 \/ lg[w] \in Command
      BY <3>1 DEF n
    <3> HIDE DEF w
    <3>3. EffectAt(lg, w, k) \in Entry \cup {Absent}
      BY <3>2 DEF EffectAt, Effect, Command
    <3>4. QED
      BY <3>3 DEF w
  <2>2. QED
    BY <2>1 DEF StateAt
<1>5. /\ ApplyTxn(StateAt(lg, n), cmd) \in State
      /\ \A k \in Key : ApplyTxn(StateAt(lg, n), cmd)[k] =
           IF k \in Writes(cmd) THEN Effect(cmd, k) ELSE StateAt(lg, n)[k]
  BY <1>4, ApplyTxnEffect DEF State
<1>6. StateAt(lg2, n + 1) = [k \in Key |-> ApplyTxn(StateAt(lg, n), cmd)[k]]
  BY <1>3, <1>5 DEF StateAt
<1>7. QED
  BY <1>5, <1>6 DEF State, lg2, n

(* MapService has Command's operators under names of its own.              *)
LEMMA SameOperators ==
  /\ Map!Command = Command /\ Map!EmptyState = EmptyState
  /\ \A st, cmd : Map!ApplyTxn(st, cmd) = ApplyTxn(st, cmd)
  /\ \A e, t : Map!Shown(e, t) = Shown(e, t)
BY DEF Map!Command, Map!Entry, Map!EmptyState, Map!ApplyTxn, Map!DeleteKeys, Map!SetPairs,
       Map!SetKeys, Map!Shown, Map!Visible, Map!Unix, Command, Entry, EmptyState, ApplyTxn,
       DeleteKeys, SetPairs, SetKeys, Shown, Visible, Unix

LEMMA MapInit == ClientInit => Map!Init
<1> SUFFICES ASSUME ClientInit
             PROVE  Map!Init
  OBVIOUS
<1>1. now = 1 /\ log = <<>> /\ Len(log) = 0
  BY DEF ClientInit, Init
<1>2. StateAt(log, 0) = EmptyState
  <2>1. ASSUME NEW k \in Key PROVE EffectAt(log, LastWrite(log, 0, k), k) = Absent
    <3>1. IsLastWrite(log, 0, k, LastWrite(log, 0, k))
      BY LastWriteExists
    <3>2. LastWrite(log, 0, k) = 0
      BY <3>1 DEF IsLastWrite
    <3>3. QED
      BY <3>2 DEF EffectAt
  <2>2. QED
    BY <2>1 DEF StateAt, EmptyState
<1>3. Versions = <<EmptyState>>
  <2>1. 1..Len(log) + 1 = {1}
    BY <1>1
  <2>2. Versions = [i \in {1} |-> EmptyState]
    BY <1>2, <2>1 DEF Versions
  <2>3. QED
    BY <2>2
<1>4. Commands \in [Write -> Command]
  <2>1. \A c \in Write : time[c] \in Nat /\ ReqOf[c] \in Request
    BY ClientAssumption DEF ClientInit
  <2>2. QED
    BY <2>1, StampType DEF Commands
<1>5. Write \subseteq Call /\ Read \subseteq Call
  BY DEF Call
<1>6. Replies = [c \in Write \cup Read |-> "idle"]
  BY <1>5 DEF Replies, ClientInit, Unanswered, Underway, Waiting
<1>7. /\ local = {} /\ got = [c \in Read |-> Absent]
      /\ [c \in Read |-> since[c] + 1] = [c \in Read |-> 1]
      /\ {c \in Write : entry[c] = "in"} = {}
      /\ {c \in Read : stage[c] = "reading" /\ Blind(c)} = {}
  BY <1>5 DEF ClientInit
<1>8. QED
  BY <1>1, <1>3, <1>4, <1>6, <1>7, SameOperators DEF Map!Init, Map!Caller

(* What MapService sees of a step that moves no clock, commits nothing and *)
(* makes no call.                                                          *)
LEMMA MapKept ==
  ASSUME UNCHANGED <<now, log, local, since, time>>
  PROVE  /\ UNCHANGED <<now, Versions, Commands, local>>
         /\ [c \in Read |-> since[c] + 1]' = [c \in Read |-> since[c] + 1]
BY DEF Versions, Commands, Stamp

LEMMA AnsweredReplies ==
  ASSUME NEW C, NEW answer \in Answer, Answered(C, answer)
  PROVE  Replies' = [c \in Write \cup Read |->
                       IF c \in C \cap (Write \cup Read) THEN answer ELSE Replies[c]]
BY DEF Answered, Replies, Call, Answer, Unanswered, Underway, Waiting

(* Calls on a node that fail together.                                     *)
LEMMA MapFailed ==
  ASSUME UNCHANGED <<now, log, local, since, time, entry, got>>,
         NEW D \in SUBSET (Write \cup Read), \A c \in D : Replies[c] = "open",
         Replies' = [c \in Write \cup Read |-> IF c \in D THEN "error" ELSE Replies[c]]
  PROVE  Map!Next
<1>1. {c \in Write : entry[c] = "in"}' = {c \in Write : entry[c] = "in"}
  OBVIOUS
<1>2. Map!Fail(D)
  BY <1>1, MapKept DEF Map!Fail, Map!Caller
<1>3. D \in SUBSET Map!Caller
  BY DEF Map!Caller
<1>4. QED
  BY <1>2, <1>3 DEF Map!Next

LEMMA MapFail ==
  ASSUME UNCHANGED <<now, log, local, since, time, entry, got>>,
         NEW C \in SUBSET Call, \A c \in C : stage[c] \in Underway, Answered(C, "error")
  PROVE  Map!Next
<1> DEFINE D == C \cap (Write \cup Read)
<1>1. \A c \in D : Replies[c] = "open"
  BY DEF Replies, Unanswered
<1>2. Replies' = [c \in Write \cup Read |-> IF c \in D THEN "error" ELSE Replies[c]]
  BY AnsweredReplies DEF Answer
<1>3. D \in SUBSET (Write \cup Read)
  OBVIOUS
<1> HIDE DEF D
<1>4. QED
  BY <1>1, <1>2, <1>3, MapFailed

(* The calls of a node that is gone: the stranded ones stay open.          *)
LEMMA MapGone ==
  ASSUME UNCHANGED <<now, log, local, since, time, entry, got>>,
         NEW n, NEW left \in {"error", "stranded"}, Gone(n, left)
  PROVE  Map!Next
<1> DEFINE D == {c \in Write \cup Read : c \in CallsAt(n, Underway) /\ stage'[c] = "error"}
<1>1. \A c \in D : Replies[c] = "open"
  BY DEF Replies, CallsAt, Unanswered
<1>2. ASSUME NEW c \in Write \cup Read
      PROVE  Replies'[c] = IF c \in D THEN "error" ELSE Replies[c]
  <2>1. c \in Call
    BY DEF Call
  <2>2. Replies'[c] = IF stage'[c] \in Unanswered THEN "open" ELSE stage'[c]
    BY DEF Replies
  <2>3. Replies[c] = IF stage[c] \in Unanswered THEN "open" ELSE stage[c]
    BY DEF Replies
  <2>4. CASE c \in CallsAt(n, Underway)
    <3>1. Replies[c] = "open"
      BY <2>3, <2>4 DEF CallsAt, Unanswered
    <3>2. stage'[c] \in {"error", "stranded"}
      BY <2>1, <2>4 DEF Gone
    <3>3. QED
      BY <2>2, <2>4, <3>1, <3>2 DEF Unanswered, Underway, Waiting
  <2>5. CASE c \notin CallsAt(n, Underway)
    <3>1. stage'[c] = stage[c]
      BY <2>1, <2>5 DEF Gone, CallsAt, Underway, Waiting
    <3>2. QED
      BY <2>2, <2>3, <2>5, <3>1
  <2>6. QED
    BY <2>4, <2>5
<1>3. D \in SUBSET (Write \cup Read)
  OBVIOUS
<1> HIDE DEF D
<1>4. Replies' = [c \in Write \cup Read |-> IF c \in D THEN "error" ELSE Replies[c]]
  BY <1>2 DEF Replies
<1>5. QED
  BY <1>1, <1>3, <1>4, MapFailed

(* Steps that callers do not see.                                          *)
LEMMA MapStutter ==
  ASSUME UNCHANGED <<now, log, local, since, time, got, Replies>>,
         {c \in Write : entry[c] = "in"}' = {c \in Write : entry[c] = "in"}
  PROVE  Map!Next
BY MapKept DEF Map!Next

LEMMA MapRefuse ==
  ASSUME UNCHANGED <<now, log, local, since, time, entry, got>>,
         NEW c \in Call, stage[c] \in Underway, c \in Write => entry[c] # "in",
         NEW r \in {"notLeader", "timeout"}, Answered({c}, r)
  PROVE  Map!Next
<1>1. Replies' = [d \in Write \cup Read |-> IF d \in {c} \cap (Write \cup Read) THEN r ELSE Replies[d]]
  BY AnsweredReplies DEF Answer
<1>2. {d \in Write : entry[d] = "in"}' = {d \in Write : entry[d] = "in"}
  OBVIOUS
<1>3. CASE c \in Write \cup Read
  <2>1. Replies[c] = "open" /\ Replies' = [Replies EXCEPT ![c] = r]
    BY <1>1, <1>3 DEF Replies, Unanswered
  <2>2. Map!Refuse(c, r)
    BY <1>2, <2>1, MapKept DEF Map!Refuse
  <2>3. c \in Map!Caller /\ r \in Map!Refused
    BY <1>3 DEF Map!Caller, Map!Refused
  <2>4. QED
    BY <2>2, <2>3 DEF Map!Next
<1>4. CASE c \notin Write \cup Read
  <2>1. Replies' = [d \in Write \cup Read |-> Replies[d]]
    BY <1>1, <1>4
  <2>2. Replies' = Replies
    BY <2>1 DEF Replies
  <2>3. QED
    BY <1>2, <2>2, MapStutter
<1>5. QED
  BY <1>3, <1>4

LEMMA MapStart ==
  ASSUME ClientInv, NEW c \in Call, NEW n \in Node, NEW isLocal \in BOOLEAN, Start(c, n, isLocal)
  PROVE  Map!Next
<1>1. /\ UNCHANGED <<now, log, entry, got, Versions>> /\ stage[c] = "idle"
      /\ stage' = [stage EXCEPT ![c] = Admit(n, isLocal)]
      /\ Admit(n, isLocal) \in {"error", "reading", "queued", "notLeader"}
  BY DEF Start, Admit, vars, Versions
<1>2. stage \in [Call -> Stage] /\ time \in [Write -> Nat] /\ now \in Nat
  BY DEF ClientInv, ClientTypeOK, TypeOK
<1>3. {d \in Write : entry[d] = "in"}' = {d \in Write : entry[d] = "in"}
  BY <1>1
<1>4. Write \cup Read \subseteq Call /\ Len(log) \in Nat
  BY DEF Call, ClientInv, ClientTypeOK, TypeOK
<1>5. CASE c \in Write \cup Read
  <2>1. PICK r \in {"notLeader", "timeout"} \cup {"open", "error"} :
               r = IF Admit(n, isLocal) \in Underway THEN "open" ELSE Admit(n, isLocal)
    BY <1>1 DEF Underway, Waiting
  <2>2. Replies[c] = "idle" /\ Replies' = [Replies EXCEPT ![c] = r]
    BY <1>1, <1>2, <1>4, <1>5, <2>1 DEF Replies, Unanswered, Underway, Waiting
  <2>3. local' \in {local, local \cup ({c} \cap Read)}
    BY DEF Start
  <2>4. Len(Versions) = Len(log) + 1
    BY <1>4 DEF Versions
  <2>5. [d \in Read |-> since[d] + 1]' =
          [d \in Read |-> IF d = c THEN Len(Versions) ELSE [x \in Read |-> since[x] + 1][d]]
    BY <2>4 DEF Start
  <2>6. Commands' \in [Write -> Command] /\ \A w \in Write \ {c} : Commands'[w] = Commands[w]
    <3>1. time' \in [Write -> Nat] /\ \A w \in Write \ {c} : time'[w] = time[w]
      BY <1>2 DEF Start
    <3>2. \A w \in Write : ReqOf[w] \in Request
      BY ClientAssumption
    <3>3. QED
      BY <3>1, <3>2, StampType DEF Commands
  <2>7. Map!Invoke(c, r)
    BY <1>1, <1>3, <2>2, <2>3, <2>5, <2>6, SameOperators DEF Map!Invoke
  <2>8. c \in Map!Caller /\ r \in Map!Refused \cup {"open", "error"}
    BY <1>5, <2>1 DEF Map!Caller, Map!Refused
  <2>9. QED
    BY <2>7, <2>8 DEF Map!Next
<1>6. CASE c \notin Write \cup Read
  <2>1. local' = local /\ \A d \in Read : since'[d] = since[d]
    BY <1>6 DEF Start
  <2>2. \A d \in Write : time'[d] = time[d]
    BY <1>6 DEF Start
  <2>3. Commands' = Commands /\ [d \in Read |-> since[d] + 1]' = [d \in Read |-> since[d] + 1]
    BY <2>1, <2>2 DEF Commands, Stamp
  <2>4. Replies' = Replies
    BY <1>1, <1>2, <1>4, <1>6 DEF Replies
  <2>5. QED
    BY <1>1, <1>3, <2>1, <2>3, <2>4 DEF Map!Next
<1>7. QED
  BY <1>5, <1>6

(* Commits and acknowledgements.                                           *)
LEMMA MapCommit ==
  ASSUME ClientInv, NEW c \in Call, CommitWrite(c)
  PROVE  Map!Next
<1>1. /\ c \in Write /\ entry[c] = "pending" /\ entry' = [entry EXCEPT ![c] = "in"]
      /\ log' = Append(log, Stamp(ReqOf[c], time[c]))
      /\ UNCHANGED <<now, local, since, time, got>>
  BY DEF CommitWrite, Commit, args
<1>2. /\ stage \in [Call -> Stage]
      /\ entry \in [Call -> {"none", "pending", "in"}]
      /\ log \in Seq(Command) /\ Len(log) \in Nat /\ Write \subseteq Call
  BY DEF ClientInv, ClientTypeOK, TypeOK, Call
<1>3. Commands[c] = Stamp(ReqOf[c], time[c]) /\ Commands[c] \in Command
  BY <1>1, StampType, ClientAssumption DEF Commands, ClientInv, ClientTypeOK
<1>4. Replies[c] \in {"open", "error"}
  <2>1. stage[c] \notin {"idle", "queued", "notLeader", "timeout", "committed", "stranded", "ok"}
    BY <1>1, ClientAssumption DEF ClientInv
  <2>2. QED
    BY <1>1, <1>2, <2>1 DEF Replies, Stage, Unanswered, Answer
<1>5. Replies' = Replies
  BY <1>2 DEF CommitWrite, Committed, Replies, Call, Unanswered, Underway, Waiting
<1>6. {d \in Write : entry[d] = "in"}' = {d \in Write : entry[d] = "in"} \cup {c}
      /\ c \notin {d \in Write : entry[d] = "in"}
  BY <1>1, <1>2
<1>7. Versions' = Append(Versions, ApplyTxn(Versions[Len(Versions)], Commands[c]))
  <2> DEFINE n == Len(log)
             last == ApplyTxn(StateAt(log, n), Commands[c])
  <2>1. /\ Len(log') = n + 1 /\ Len(Versions) = n + 1
        /\ Versions[Len(Versions)] = StateAt(log, n)
    BY <1>1, <1>2, <1>3 DEF Versions
  <2>2. StateAt(log', n + 1) = last
    BY <1>1, <1>2, <1>3, StateAtNext
  <2>3. \A i \in 0..n : StateAt(log', i) = StateAt(log, i)
    BY <1>1, <1>2, <1>3, StateAtAppend
  <2> HIDE DEF last
  <2>4. Append(Versions, last) = [i \in 1..(n + 2) |-> IF i = n + 2 THEN last ELSE Versions[i]]
    <3> DEFINE S == {StateAt(log, i) : i \in 0..n} \cup {last}
               V == Append(Versions, last)
    <3>1. Versions \in Seq(S) /\ last \in S
      BY <1>2 DEF Versions
    <3> HIDE DEF S
    <3>2. V \in Seq(S) /\ Len(V) = n + 2 /\ \A i \in 1..(n + 1) : V[i] = Versions[i]
      BY <1>2, <2>1, <3>1
    <3>3. V[n + 2] = last
      BY <1>2, <2>1, <3>1
    <3> HIDE DEF V
    <3>4. V = [i \in 1..(n + 2) |-> V[i]]
      BY <3>2
    <3>5. \A i \in 1..(n + 2) : V[i] = IF i = n + 2 THEN last ELSE Versions[i]
      BY <1>2, <3>2, <3>3
    <3>6. QED
      BY <3>4, <3>5 DEF V
  <2>5. Versions' = [i \in 1..(n + 2) |-> StateAt(log', i - 1)]
    BY <1>2, <2>1 DEF Versions
  <2>6. \A i \in 1..(n + 2) : StateAt(log', i - 1) = IF i = n + 2 THEN last ELSE Versions[i]
    BY <1>2, <2>2, <2>3 DEF Versions
  <2>7. Versions' = Append(Versions, last)
    BY <2>4, <2>5, <2>6
  <2>8. QED
    BY <2>1, <2>7 DEF last
<1>8. Commands' = Commands /\ [d \in Read |-> since[d] + 1]' = [d \in Read |-> since[d] + 1]
  BY <1>1 DEF Commands, Stamp
<1>9. Map!TakeEffect(c)
  BY <1>1, <1>4, <1>5, <1>6, <1>7, <1>8, SameOperators DEF Map!TakeEffect
<1>10. c \in Map!Caller
  BY <1>1 DEF Map!Caller
<1>11. QED
  BY <1>9, <1>10 DEF Map!Next

LEMMA MapAcknowledge ==
  ASSUME ClientInv, NEW n \in Node, ApplyAt(n)
  PROVE  Map!Next
<1>1. UNCHANGED <<now, log, local, since, time, entry, got>>
  BY DEF ApplyAt, Apply, args
<1> DEFINE C == {c \in CallsAt(n, {"committed"}) \cap Write : index[c] = applied'[n]}
<1>2. Answered(C, "ok") \/ Answered(C, "error")
  BY DEF ApplyAt
<1>3. C \in SUBSET Call /\ \A c \in C : c \in Write /\ stage[c] = "committed"
  BY DEF CallsAt
<1> HIDE DEF C
<1>4. CASE Answered(C, "error")
  BY <1>1, <1>3, <1>4, MapFail DEF Underway, Waiting
<1>5. CASE Answered(C, "ok")
  <2> DEFINE D == C \cap (Write \cup Read)
  <2>1. \A c \in D : c \in {d \in Write : entry[d] = "in"} /\ Replies[c] = "open"
    BY <1>3, ClientAssumption DEF ClientInv, Call, Replies, Unanswered, Underway, Waiting
  <2>2. Replies' = [c \in Write \cup Read |-> IF c \in D THEN "ok" ELSE Replies[c]]
    BY <1>5, AnsweredReplies DEF Answer
  <2>3. {d \in Write : entry[d] = "in"}' = {d \in Write : entry[d] = "in"}
    BY <1>1
  <2> HIDE DEF D
  <2>4. Map!Acknowledge(D)
    BY <1>1, <2>1, <2>2, <2>3, MapKept DEF Map!Acknowledge, Map!Caller
  <2>5. D \in SUBSET Map!Caller
    BY DEF D, Map!Caller
  <2>6. QED
    BY <2>4, <2>5 DEF Map!Next
<1>6. QED
  BY <1>2, <1>4, <1>5

LEMMA MapRead ==
  ASSUME ClientInv, Provenance, NEW c \in Call, ReadStore(c)
  PROVE  Map!Next
<1>1. /\ UNCHANGED <<now, log, local, since, time, entry>>
      /\ c \in Read /\ stage[c] = "reading"
  BY DEF ReadStore, vars, args
<1>2. CASE Answered({c}, "error") /\ UNCHANGED got
  BY <1>1, <1>2, MapFail DEF Underway
<1>3. CASE /\ Answered({c}, "ok")
           /\ got' = [got EXCEPT ![c] = Shown(badger[at[c]][KeyOf[c]], now)]
  <2>1. Replies[c] = "open" /\ Replies' = [Replies EXCEPT ![c] = "ok"]
    <3>1. Replies' = [d \in Write \cup Read |->
                        IF d \in {c} \cap (Write \cup Read) THEN "ok" ELSE Replies[d]]
      BY <1>3, AnsweredReplies DEF Answer
    <3>2. QED
      BY <1>1, <3>1 DEF Replies, Unanswered, Underway
  <2>2. PICK i \in Oldest(c)..Len(log) : badger[at[c]][KeyOf[c]] = StateAt(log, i)[KeyOf[c]]
    BY <1>1, ReadValue
  <2>3. Len(log) \in Nat /\ since[c] \in Nat
    BY <1>1 DEF ClientInv, ClientTypeOK, TypeOK
  <2>4. Oldest(c) \in Nat /\ i \in Nat
    BY <2>2, <2>3 DEF Oldest
  <2>5. /\ i + 1 \in 1..Len(Versions)
        /\ Versions[i + 1] = StateAt(log, i)
    BY <2>2, <2>3, <2>4 DEF Versions
  <2>6. [d \in Read |-> since[d] + 1][c] <= i + 1
        \/ c \in {d \in Read : stage[d] = "reading" /\ Blind(d)} \cup local
    BY <1>1, <2>2, <2>3 DEF Oldest
  <2>7. {d \in Write : entry[d] = "in"}' = {d \in Write : entry[d] = "in"}
    BY <1>1
  <2>8. Map!Return(c, i + 1)
    BY <1>1, <1>3, <2>1, <2>2, <2>5, <2>6, <2>7, MapKept, SameOperators DEF Map!Return
  <2>9. QED
    BY <1>1, <2>5, <2>8 DEF Map!Next
<1>4. QED
  BY <1>2, <1>3 DEF ReadStore

LEMMA MapStep ==
  ASSUME ClientInv, Provenance, [ClientNext]_clientVars
  PROVE  Map!Next
<1>a. /\ Write \subseteq Call /\ Read \subseteq Call
      /\ Write \cap Read = {} /\ Write \cap Change = {} /\ Read \cap Change = {}
  BY ClientAssumption DEF Call
<1>b. /\ stage \in [Call -> Stage]
      /\ entry \in [Call -> {"none", "pending", "in"}]
      /\ now \in Nat
  BY DEF ClientInv, ClientTypeOK, TypeOK
<1>c. UNCHANGED entry => {d \in Write : entry[d] = "in"}' = {d \in Write : entry[d] = "in"}
  OBVIOUS
<1>d. ASSUME NEW c \in Call, stage[c] = "queued", c \in Write PROVE entry[c] = "none"
  BY <1>d DEF ClientInv
<1> USE DEF Unanswered, Underway, Waiting
<1>1. CASE \E c \in Call, n \in Node, isLocal \in BOOLEAN : Start(c, n, isLocal)
  BY <1>1, MapStart
<1>2. CASE \E c \in Call : CommitWrite(c)
  BY <1>2, MapCommit
<1>3. CASE \E n \in Node : ApplyAt(n)
  BY <1>3, MapAcknowledge
<1>4. CASE \E c \in Call : ReadStore(c)
  BY <1>4, MapRead
<1>5. ASSUME NEW c \in Call, EnqueueTimeout(c)
      PROVE  Map!Next
  <2>1. UNCHANGED <<now, log, local, since, time, entry, got>>
    BY <1>5 DEF EnqueueTimeout, vars, args
  <2>2. stage[c] = "queued" /\ Answered({c}, "timeout")
    BY <1>5 DEF EnqueueTimeout
  <2>3. QED
    BY <1>d, <2>1, <2>2, MapRefuse
<1>6. ASSUME NEW c \in Call, Dequeue(c)
      PROVE  Map!Next
  <2>1. UNCHANGED <<now, log, local, since, time, got>> /\ stage[c] = "queued"
    BY <1>6 DEF Dequeue, vars, args
  <2>2. CASE Answered({c}, "notLeader") /\ UNCHANGED entry
    BY <1>d, <2>1, <2>2, MapRefuse
  <2>3. CASE /\ stage' = [stage EXCEPT ![c] = "sent"]
             /\ entry' = [entry EXCEPT ![c] = IF c \in Read THEN "none" ELSE "pending"]
    <3>1. UNCHANGED Replies
      BY <1>a, <1>b, <2>1, <2>3 DEF Replies
    <3>2. {d \in Write : entry[d] = "in"}' = {d \in Write : entry[d] = "in"}
      BY <1>a, <1>b, <1>d, <2>1, <2>3
    <3>3. QED
      BY <2>1, <3>1, <3>2, MapStutter
  <2>4. QED
    BY <1>6, <2>2, <2>3 DEF Dequeue
<1>7. ASSUME NEW c \in Call, CommitChange(c) \/ CommitBarrier(c) \/ Pass(c)
      PROVE  Map!Next
  <2>1. UNCHANGED <<now, log, local, since, time, got>>
    BY <1>7 DEF CommitChange, CommitBarrier, Pass, vars, args
  <2>2. UNCHANGED Replies
    BY <1>7, <1>a, <1>b DEF CommitChange, CommitBarrier, Pass, Committed, Answered, Replies
  <2>3. {d \in Write : entry[d] = "in"}' = {d \in Write : entry[d] = "in"}
    BY <1>7, <1>a, <1>b DEF CommitChange, CommitBarrier, Pass
  <2>4. QED
    BY <2>1, <2>2, <2>3, MapStutter
<1>8. ASSUME NEW n \in Node, StepDown(n)
      PROVE  Map!Next
  <2>1. UNCHANGED <<now, log, local, since, time, entry, got>> /\ Answered(CallsAt(n, {"sent"}), "error")
    BY <1>8 DEF StepDown, vars, args
  <2>2. QED
    BY <2>1, MapFail DEF CallsAt
<1>9. ASSUME NEW c \in Call, Shutdown(c)
      PROVE  Map!Next
  <2>1. /\ UNCHANGED <<now, log, local, since, time, entry, got>>
        /\ stage[c] \in Underway /\ Answered({c}, "error")
    BY <1>9 DEF Shutdown, vars, args
  <2>2. QED
    BY <2>1, MapFail
<1>10. ASSUME NEW n \in Node, NEW m \in Node, CloseDoneAt(n) \/ CrashAt(n) \/ CrashInRestoreAt(n, m)
       PROVE  Map!Next
  <2>1. /\ UNCHANGED <<now, log, local, since, time, entry, got>>
        /\ \E left \in {"error", "stranded"} : Gone(n, left)
    BY <1>10 DEF CloseDoneAt, CrashAt, CrashInRestoreAt, CloseDone, Crash, CrashInRestore, Gone, args
  <2>2. QED
    BY <2>1, MapGone
<1>11. CASE Tick /\ UNCHANGED client
  <2>1. UNCHANGED <<log, stage, local, since, time, entry, got>> /\ now' = now + 1
    BY <1>11 DEF Tick, client, progress, args
  <2>2. /\ UNCHANGED <<Versions, Commands, Replies>> /\ now' \in Nat /\ now' > now
        /\ [c \in Read |-> since[c] + 1]' = [c \in Read |-> since[c] + 1]
    BY <1>b, <2>1 DEF Versions, Commands, Stamp, Replies
  <2>3. Map!Tick
    BY <1>c, <2>1, <2>2 DEF Map!Tick
  <2>4. QED
    BY <2>3 DEF Map!Next
<1>12. ASSUME UNCHANGED <<now, log, stage, local, since, time, entry, got>>
       PROVE  Map!Next
  <2>1. UNCHANGED Replies
    BY <1>12 DEF Replies
  <2>2. QED
    BY <1>12, <2>1, MapStutter
<1>13. CASE \E n \in Node : Elect(n) \/ CloseAt(n)
  BY <1>13, <1>12 DEF Elect, CloseAt, Close, vars, progress, args
<1>14. CASE UNCHANGED client /\ UNCHANGED <<now, log>>
  BY <1>14, <1>12 DEF client, progress, args
<1>15. CASE \E n, m \in Node : InstallAt(n, m)
  BY <1>15, <1>14 DEF InstallAt, InstallSnapshot
<1>16. CASE Background /\ UNCHANGED client
  <2>1. Tick \/ UNCHANGED <<now, log>>
    BY <1>16 DEF Background, TakeSnapshot, Persist, Open
  <2>2. QED
    BY <1>11, <1>14, <1>16, <2>1
<1>17. CASE UNCHANGED clientVars
  BY <1>17, <1>14 DEF clientVars, vars
<1>18. QED
  BY <1>1, <1>2, <1>3, <1>4, <1>5, <1>6, <1>7, <1>8, <1>9, <1>10, <1>13, <1>15, <1>16, <1>17
     DEF ClientNext, apply, prepareRead, AddVoter, RemoveNode

(* The cluster implements the map: for its callers, writes take effect at  *)
(* most once and in their interval, refused ones never, and reads return a *)
(* version of theirs, through elections, shutdowns, crashes and restores.  *)
THEOREM MapHolds == ClientSpec => ImplementsMap
<1>1. ClientInv /\ Provenance /\ [ClientNext]_clientVars => [Map!Next]_(Map!mapVars)
  BY MapStep
<1>2. Spec => []Provenance
  BY ProvenanceHolds
<1>3. ClientInit => Map!Init
  BY MapInit
<1>4. QED
  BY <1>1, <1>2, <1>3, ClientInvHolds, RefinesReplication, PTL DEF ClientSpec, ImplementsMap, Map!MapSpec
=============================================================================
