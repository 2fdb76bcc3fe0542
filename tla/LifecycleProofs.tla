-------------------------- MODULE LifecycleProofs --------------------------
(***************************************************************************)
(* Proofs about Lifecycle for any number of callers, Opens and crashes.    *)
(***************************************************************************)
EXTENDS Lifecycle, SequenceTheorems, TLAPS

(* The cleanups that can be armed; the lemmas keep the tuples folded.      *)
S0 == <<>>
S1 == <<"badger">>
S2 == <<"badger", "bolt">>
S3 == <<"badger", "bolt", "transport">>

(* TypeOK with its sets spelled out.                                       *)
Typed ==
  /\ pc \in {"badger", "raftDir", "bolt", "snapshots", "transport", "idle", "bootstrap", "newRaft",
            "wait", "abandon", "failed", "open"}
  /\ newCluster \in BOOLEAN /\ twice \in BOOLEAN /\ raftUp \in BOOLEAN /\ closeErr \in BOOLEAN
  /\ held \subseteq Resource
  /\ armed \in {S0, S1, S2, S3}
  /\ cluster \in {"none", "own", "grown", "joined"}
  /\ leader \in {"none", "self", "other"} /\ found \in {"none", "self", "other"}
  /\ closing \in {"no", "shutdown", "transport", "bolt", "badger", "done"}
  /\ closer \in [Goroutine -> {"idle", "in", "ok", "err"}]
  /\ waiter \in [Goroutine -> {"idle", "check", "look", "leader", "ErrClosed", "ErrNoLeader"}]
  /\ late \in [Goroutine -> BOOLEAN]
  /\ opens \in 0..MaxOpens /\ crashes \in 0..MaxCrashes

(* What Open holds at each of its steps ...                                *)
Acquired ==
  /\ pc = "badger" => held = {} /\ armed = S0
  /\ pc \in {"raftDir", "bolt"} => held = {"badger"} /\ armed = S1
  /\ pc \in {"snapshots", "transport"} => held = {"badger", "bolt"} /\ armed = S2
  /\ pc \in {"bootstrap", "newRaft"} => held = Resource /\ armed = S3

(* ... and what is left while it unwinds: what is still armed, but for     *)
(* Badger, which a failed restore may have lost.                           *)
Unwinding ==
  pc = "failed" =>
    /\ "transport" \in held <=> armed = S3
    /\ "bolt" \in held <=> armed \in {S2, S3}
    /\ armed = S0 => "badger" \notin held

(* An opened DB: the teardown stops Raft and with it the transport first,  *)
(* then takes one resource after the other.                                *)
Tearing ==
  pc \in {"wait", "abandon", "open"} =>
    /\ raftUp <=> closing \in {"no", "shutdown"}
    /\ "transport" \in held <=> closing \in {"no", "shutdown"}
    /\ "bolt" \in held <=> closing \in {"no", "shutdown", "transport", "bolt"}
    /\ closing = "done" => "badger" \notin held

(* Before and after there is no Raft and no teardown under way.            *)
Outside ==
  /\ pc \notin {"wait", "abandon", "open"} => ~raftUp /\ closing \in {"no", "done"}
  /\ pc \notin {"wait", "abandon", "open", "idle"} => closing = "no"
  /\ pc = "idle" => held = {}
  /\ pc = "wait" => closing = "no"

Returned ==
  \A g \in Goroutine : closer[g] \in {"ok", "err"} =>
    closing = "done" /\ (closer[g] = "err" <=> closeErr)

LifeInv ==
  Typed /\ Acquired /\ Unwinding /\ Tearing /\ Outside /\ Returned /\ ~twice

LEMMA Elements ==
  /\ S0 \in Seq(Resource) /\ Len(S0) = 0
  /\ S1 \in Seq(Resource) /\ Len(S1) = 1 /\ S1[1] = "badger"
  /\ S2 \in Seq(Resource) /\ Len(S2) = 2 /\ S2[1] = "badger" /\ S2[2] = "bolt"
  /\ S3 \in Seq(Resource) /\ Len(S3) = 3
  /\ S3[1] = "badger" /\ S3[2] = "bolt" /\ S3[3] = "transport"
BY DEF S0, S1, S2, S3, Resource

(* Deferring pushes, ...                                                   *)
LEMMA Pushed ==
  Append(S0, "badger") = S1 /\ Append(S1, "bolt") = S2 /\ Append(S2, "transport") = S3
<1>1. "badger" \in Resource /\ "bolt" \in Resource /\ "transport" \in Resource
  BY DEF Resource
<1>2. ASSUME NEW s \in Seq(Resource), NEW t \in Seq(Resource), NEW r \in Resource,
             Len(t) = Len(s) + 1, t[Len(s) + 1] = r, \A i \in 1..Len(s) : t[i] = s[i]
      PROVE  Append(s, r) = t
  <2>1. /\ Append(s, r) \in Seq(Resource)
        /\ Len(Append(s, r)) = Len(s) + 1
        /\ \A i \in 1..Len(s) : Append(s, r)[i] = s[i]
        /\ Append(s, r)[Len(s) + 1] = r
    BY AppendProperties
  <2>2. \A i \in 1..Len(Append(s, r)) : Append(s, r)[i] = t[i]
    <3>1. Len(s) \in Nat
      OBVIOUS
    <3>2. \A i \in 1..Len(s) + 1 : i \in 1..Len(s) \/ i = Len(s) + 1
      BY <3>1
    <3>3. QED
      BY <1>2, <2>1, <3>2
  <2>3. QED
    BY <1>2, <2>1, <2>2, SeqEqual
<1>3. Append(S0, "badger") = S1
  BY Elements, <1>1, <1>2
<1>4. Append(S1, "bolt") = S2
  <2>1. Len(S2) = Len(S1) + 1 /\ S2[Len(S1) + 1] = "bolt" /\ \A i \in 1..Len(S1) : S2[i] = S1[i]
    BY Elements
  <2>2. QED
    BY <1>1, <1>2, <2>1, Elements
<1>5. Append(S2, "transport") = S3
  <2>1. Len(S3) = Len(S2) + 1 /\ S3[Len(S2) + 1] = "transport" /\ \A i \in 1..Len(S2) : S3[i] = S2[i]
    BY Elements
  <2>2. QED
    BY <1>1, <1>2, <2>1, Elements
<1>6. QED
  BY <1>3, <1>4, <1>5

(* ... unwinding pops.                                                     *)
LEMMA Popped ==
  /\ S1[Len(S1)] = "badger" /\ SubSeq(S1, 1, Len(S1) - 1) = S0
  /\ S2[Len(S2)] = "bolt" /\ SubSeq(S2, 1, Len(S2) - 1) = S1
  /\ S3[Len(S3)] = "transport" /\ SubSeq(S3, 1, Len(S3) - 1) = S2
<1>1. ASSUME NEW s \in Seq(Resource), NEW t \in Seq(Resource),
             Len(t) = Len(s) + 1, \A i \in 1..Len(s) : t[i] = s[i]
      PROVE  SubSeq(t, 1, Len(t) - 1) = s
  <2>1. Len(s) \in Nat
    OBVIOUS
  <2>2. \A i \in 1..Len(s) : t[i] \in Resource
    BY <1>1
  <2>3. /\ SubSeq(t, 1, Len(s)) \in Seq(Resource)
        /\ Len(SubSeq(t, 1, Len(s))) = Len(s)
        /\ \A i \in 1..Len(s) : SubSeq(t, 1, Len(s))[i] = t[i]
    BY <2>1, <2>2, SubSeqProperties
  <2>4. SubSeq(t, 1, Len(s)) = s
    BY <1>1, <2>3, SeqEqual
  <2>5. QED
    BY <1>1, <2>1, <2>4
<1>2. SubSeq(S1, 1, Len(S1) - 1) = S0
  BY Elements, <1>1
<1>3. SubSeq(S2, 1, Len(S2) - 1) = S1
  BY Elements, <1>1
<1>4. SubSeq(S3, 1, Len(S3) - 1) = S2
  BY Elements, <1>1
<1>5. QED
  BY Elements, <1>2, <1>3, <1>4

LEMMA Distinct ==
  S0 # S1 /\ S0 # S2 /\ S0 # S3 /\ S1 # S2 /\ S1 # S3 /\ S2 # S3
<1>1. Len(S0) = 0 /\ Len(S1) = 1 /\ Len(S2) = 2 /\ Len(S3) = 3
  BY Elements
<1>2. QED
  BY <1>1

LEMMA Steps ==
  /\ DOMAIN After = {"badger", "raftDir", "bolt", "snapshots", "transport"}
  /\ After["badger"] = "raftDir" /\ After["raftDir"] = "bolt" /\ After["bolt"] = "snapshots"
  /\ After["snapshots"] = "transport" /\ After["transport"] = "bootstrap"
BY DEF After

LEMMA TypedIsTypeOK == Typed <=> TypeOK
BY Steps DEF Typed, TypeOK, S0, S1, S2, S3

LEMMA InvInit == Init => LifeInv
<1> SUFFICES ASSUME Init
             PROVE  LifeInv
  OBVIOUS
<1>1. Typed
  <2>1. armed = S0 /\ opens \in 0..MaxOpens /\ crashes \in 0..MaxCrashes
    BY LifecycleAssumption DEF Init, S0
  <2>2. closer \in [Goroutine -> {"idle", "in", "ok", "err"}] /\ late \in [Goroutine -> BOOLEAN]
        /\ waiter \in [Goroutine -> {"idle", "check", "look", "leader", "ErrClosed", "ErrNoLeader"}]
    BY DEF Init
  <2>3. QED
    BY <2>1, <2>2 DEF Init, Typed
<1>2. Acquired /\ Unwinding /\ Tearing /\ Outside
  BY DEF Init, Acquired, Unwinding, Tearing, Outside
<1>3. Returned
  BY DEF Init, Returned
<1>4. QED
  BY <1>1, <1>2, <1>3 DEF LifeInv, Init

(* Acquire takes one resource and arms its cleanup, or fails.              *)
LEMMA InvAcquire == LifeInv /\ Acquire => LifeInv'
<1> SUFFICES ASSUME LifeInv, Acquire
             PROVE  LifeInv'
  OBVIOUS
<1>1. PICK acquired \in BOOLEAN :
        /\ pc' = IF acquired THEN After[pc] ELSE "failed"
        /\ held' = IF acquired THEN held \cup ({pc} \cap Resource) ELSE held
        /\ armed' = Deferred(acquired)
  BY DEF Acquire
<1>2. /\ UNCHANGED <<newCluster, found, twice, raftUp, cluster, leader, closing, closeErr>>
      /\ UNCHANGED <<closer, waiter, late, opens, crashes>>
  BY DEF Acquire, raft, teardown, calls, counters
<1>3. pc \in {"badger", "raftDir", "bolt", "snapshots", "transport"}
  BY Steps DEF Acquire
<1>4. Acquired'  /\ Unwinding' /\ armed' \in {S0, S1, S2, S3} /\ held' \subseteq Resource
      /\ pc' \in {"failed", "raftDir", "bolt", "snapshots", "transport", "bootstrap"}
  <2>1. CASE pc = "badger"
    BY <1>1, <2>1, Steps, Pushed, Distinct
       DEF LifeInv, Acquired, Unwinding, Deferred, Resource
  <2>2. CASE pc = "raftDir"
    BY <1>1, <2>2, Steps, Distinct
       DEF LifeInv, Acquired, Unwinding, Deferred, Resource
  <2>3. CASE pc = "bolt"
    BY <1>1, <2>3, Steps, Pushed, Distinct
       DEF LifeInv, Acquired, Unwinding, Deferred, Resource
  <2>4. CASE pc = "snapshots"
    BY <1>1, <2>4, Steps, Distinct
       DEF LifeInv, Acquired, Unwinding, Deferred, Resource
  <2>5. CASE pc = "transport"
    BY <1>1, <2>5, Steps, Pushed, Distinct
       DEF LifeInv, Acquired, Unwinding, Deferred, Resource
  <2>6. QED
    BY <1>3, <2>1, <2>2, <2>3, <2>4, <2>5
<1>5. Typed'
  BY <1>2, <1>4 DEF LifeInv, Typed
<1>6. Tearing' /\ Outside'
  BY <1>2, <1>3, <1>4 DEF LifeInv, Tearing, Outside
<1>7. Returned' /\ ~twice'
  BY <1>2 DEF LifeInv, Returned
<1>8. QED
  BY <1>4, <1>5, <1>6, <1>7 DEF LifeInv

(* The deferred cleanups give back the top of the stack.                   *)
LEMMA InvUnwind == LifeInv /\ Unwind => LifeInv'
<1> SUFFICES ASSUME LifeInv, Unwind
             PROVE  LifeInv'
  OBVIOUS
<1>1. /\ UNCHANGED <<pc, newCluster, found, raftUp, cluster, leader, closing, closeErr>>
      /\ UNCHANGED <<closer, waiter, late, opens, crashes>>
  BY DEF Unwind, raft, teardown, calls, counters
<1>2. pc = "failed" /\ armed \in {S1, S2, S3}
  BY DEF Unwind, LifeInv, Typed, S0
<1>3. Unwinding' /\ ~twice' /\ armed' \in {S0, S1, S2, S3} /\ held' \subseteq Resource
  <2>1. CASE armed = S1
    BY <1>1, <1>2, <2>1, Popped, Distinct
       DEF LifeInv, Typed, Unwinding, Unwind, Remaining, Release, Resource
  <2>2. CASE armed = S2
    BY <1>1, <1>2, <2>2, Popped, Distinct
       DEF LifeInv, Typed, Unwinding, Unwind, Remaining, Release, Resource
  <2>3. CASE armed = S3
    BY <1>1, <1>2, <2>3, Popped, Distinct
       DEF LifeInv, Typed, Unwinding, Unwind, Remaining, Release, Resource
  <2>4. QED
    BY <1>2, <2>1, <2>2, <2>3
<1>4. Typed'
  <2>1. twice' \in BOOLEAN
    BY Zenon DEF Unwind, Release
  <2>2. QED
    BY <1>1, <1>3, <2>1 DEF LifeInv, Typed
<1>5. Acquired' /\ Tearing' /\ Outside'
  BY <1>1, <1>2 DEF LifeInv, Acquired, Tearing, Outside
<1>6. Returned'
  BY <1>1 DEF LifeInv, Returned
<1>7. QED
  BY <1>3, <1>4, <1>5, <1>6 DEF LifeInv

LEMMA InvBootstrap == LifeInv /\ Bootstrap => LifeInv'
<1> SUFFICES ASSUME LifeInv, Bootstrap
             PROVE  LifeInv'
  OBVIOUS
<1>1. /\ UNCHANGED <<newCluster, armed, found, held, twice, raftUp, leader, closing, closeErr>>
      /\ UNCHANGED <<closer, waiter, late, opens, crashes>>
  BY DEF Bootstrap, resources, teardown, calls, counters
<1>2. pc = "bootstrap" /\ pc' \in {"newRaft", "failed"} /\ cluster' \in {cluster, "own"}
  BY DEF Bootstrap, Bootstrapped
<1>3. Typed'
  BY <1>1, <1>2 DEF LifeInv, Typed
<1>4. Acquired' /\ Unwinding'
  BY <1>1, <1>2, Distinct DEF LifeInv, Acquired, Unwinding, Resource
<1>5. Tearing' /\ Outside'
  BY <1>1, <1>2 DEF LifeInv, Tearing, Outside
<1>6. Returned' /\ ~twice'
  BY <1>1 DEF LifeInv, Returned
<1>7. QED
  BY <1>3, <1>4, <1>5, <1>6 DEF LifeInv

LEMMA InvNewRaft == LifeInv /\ NewRaft => LifeInv'
<1> SUFFICES ASSUME LifeInv, NewRaft
             PROVE  LifeInv'
  OBVIOUS
<1>1. /\ UNCHANGED <<newCluster, armed, found, twice, cluster, leader, closing, closeErr>>
      /\ UNCHANGED <<closer, late, opens, crashes>>
  BY DEF NewRaft, teardown, counters
<1>2. /\ pc = "newRaft" /\ held = Resource /\ armed = S3 /\ closing = "no" /\ ~raftUp
      /\ held' \in {Resource, Resource \ {"badger"}}
  BY DEF NewRaft, LifeInv, Acquired, Outside
<1>3. \/ pc' \in {"wait", "open"} /\ held' = Resource /\ raftUp' = TRUE
      \/ pc' = "failed" /\ raftUp' = FALSE
  BY <1>2, Zenon DEF NewRaft, LifeInv, Typed
<1>4. waiter' \in [Goroutine -> {"idle", "check", "look", "leader", "ErrClosed", "ErrNoLeader"}]
  BY DEF NewRaft, LifeInv, Typed
<1>5. Typed'
  <2>1. held' \subseteq Resource /\ pc' \in {"wait", "open", "failed"}
    BY <1>2, <1>3
  <2>2. raftUp' \in BOOLEAN
    BY <1>3, Zenon
  <2>3. QED
    BY <1>1, <1>2, <1>4, <2>1, <2>2 DEF LifeInv, Typed
<1>6. Acquired' /\ Unwinding' /\ Tearing' /\ Outside'
  BY <1>1, <1>2, <1>3, Distinct DEF Acquired, Unwinding, Tearing, Outside, Resource
<1>7. Returned' /\ ~twice'
  BY <1>1 DEF LifeInv, Returned
<1>8. QED
  BY <1>5, <1>6, <1>7 DEF LifeInv

(* Open returns.                                                           *)
LEMMA InvOpenReturns == LifeInv /\ (OpenFails \/ Waited \/ Abandon) => LifeInv'
<1> SUFFICES ASSUME LifeInv, OpenFails \/ Waited \/ Abandon
             PROVE  LifeInv'
  OBVIOUS
<1>1. /\ UNCHANGED <<newCluster, found, held, twice, raftUp, cluster, leader, closing, closeErr>>
      /\ UNCHANGED <<closer, waiter, late, opens, crashes>>
  BY DEF OpenFails, Waited, Abandon, resources, raft, teardown, calls, counters
<1>2. armed' \in {armed, S0}
  BY DEF OpenFails, Waited, Abandon, S0
<1>3. CASE OpenFails
  <2>1. pc = "failed" /\ pc' = "idle" /\ armed = S0
    BY <1>3 DEF OpenFails, S0
  <2>2. held = {}
    BY <2>1, Distinct DEF LifeInv, Unwinding, Typed, Resource
  <2>3. Acquired' /\ Unwinding' /\ Tearing' /\ Outside'
    BY <1>1, <2>1, <2>2 DEF LifeInv, Acquired, Unwinding, Tearing, Outside
  <2>4. Typed' /\ Returned' /\ ~twice'
    BY <1>1, <1>2, <2>1 DEF LifeInv, Typed, Returned
  <2>5. QED
    BY <2>3, <2>4 DEF LifeInv
<1>4. CASE Waited
  <2>1. pc = "wait" /\ pc' \in {"open", "abandon"}
    BY <1>4 DEF Waited
  <2>2. Acquired' /\ Unwinding' /\ Tearing' /\ Outside'
    BY <1>1, <2>1 DEF LifeInv, Acquired, Unwinding, Tearing, Outside
  <2>3. Typed' /\ Returned' /\ ~twice'
    BY <1>1, <1>2, <2>1 DEF LifeInv, Typed, Returned
  <2>4. QED
    BY <2>2, <2>3 DEF LifeInv
<1>5. CASE Abandon
  <2>1. pc = "abandon" /\ pc' = "idle" /\ closer[Opener] \in {"ok", "err"}
    BY <1>5 DEF Abandon
  <2>2. closing = "done"
    BY <2>1 DEF LifeInv, Returned, Goroutine
  <2>3. held = {} /\ ~raftUp
    BY <2>1, <2>2 DEF LifeInv, Tearing, Typed, Resource
  <2>4. Acquired' /\ Unwinding' /\ Tearing' /\ Outside'
    BY <1>1, <2>1, <2>2, <2>3 DEF Acquired, Unwinding, Tearing, Outside
  <2>5. Typed' /\ Returned' /\ ~twice'
    BY <1>1, <1>2, <2>1 DEF LifeInv, Typed, Returned
  <2>6. QED
    BY <2>4, <2>5 DEF LifeInv
<1>6. QED
  BY <1>3, <1>4, <1>5

(* A new Open and a crash start from nothing.                              *)
LEMMA InvFresh ==
  ASSUME LifeInv, Fresh, UNCHANGED twice,
         pc' \in {"badger", "idle"}, newCluster' \in BOOLEAN, cluster' = cluster,
         opens' \in 0..MaxOpens, crashes' \in 0..MaxCrashes
  PROVE  LifeInv'
<1>1. /\ closer' \in [Goroutine -> {"idle", "in", "ok", "err"}] /\ late' \in [Goroutine -> BOOLEAN]
      /\ waiter' \in [Goroutine -> {"idle", "check", "look", "leader", "ErrClosed", "ErrNoLeader"}]
      /\ \A g \in Goroutine : closer'[g] = "idle"
  BY DEF Fresh
<1>2. armed' = S0
  BY DEF Fresh, S0
<1>3. Typed'
  BY <1>1, <1>2 DEF Fresh, LifeInv, Typed
<1>4. Acquired' /\ Unwinding' /\ Tearing' /\ Outside'
  BY <1>2 DEF Fresh, Acquired, Unwinding, Tearing, Outside
<1>5. Returned'
  BY <1>1 DEF Returned
<1>6. QED
  BY <1>3, <1>4, <1>5 DEF LifeInv

LEMMA InvStarts ==
  LifeInv /\ ((\E n \in 0..2, valid \in BOOLEAN : OpenBegin(n, valid)) \/ Crash) => LifeInv'
<1>1. ASSUME LifeInv, NEW n \in 0..2, NEW valid \in BOOLEAN, OpenBegin(n, valid)
      PROVE  LifeInv'
  <2>1. pc' \in {"badger", "idle"} /\ newCluster' \in BOOLEAN
    BY <1>1 DEF OpenBegin, parseOpenOptions
  <2>2. opens' \in 0..MaxOpens /\ crashes' \in 0..MaxCrashes
    BY <1>1, LifecycleAssumption DEF OpenBegin, LifeInv, Typed
  <2>3. Fresh /\ UNCHANGED twice /\ cluster' = cluster
    BY <1>1 DEF OpenBegin
  <2>4. QED
    BY <1>1, <2>1, <2>2, <2>3, InvFresh
<1>2. ASSUME LifeInv, Crash
      PROVE  LifeInv'
  <2>1. pc' \in {"badger", "idle"} /\ newCluster' \in BOOLEAN
    BY <1>2 DEF Crash, LifeInv, Typed
  <2>2. opens' \in 0..MaxOpens /\ crashes' \in 0..MaxCrashes
    BY <1>2, LifecycleAssumption DEF Crash, LifeInv, Typed
  <2>3. Fresh /\ UNCHANGED twice /\ cluster' = cluster
    BY <1>2 DEF Crash
  <2>4. QED
    BY <1>2, <2>1, <2>2, <2>3, InvFresh
<1>3. QED
  BY <1>1, <1>2

(* waitForLeader touches nothing but its own state.                        *)
LEMMA InvWait ==
  ASSUME LifeInv, NEW g \in Goroutine,
         WaitForLeader(g) \/ Check(g) \/ Look(g) \/ Deadline(g)
  PROVE  LifeInv'
<1>1. /\ UNCHANGED <<pc, newCluster, armed, held, twice, raftUp, cluster, leader, closing, closeErr>>
      /\ UNCHANGED <<closer, opens, crashes>>
  BY DEF WaitForLeader, Check, Look, Deadline, opening, resources, raft, teardown, counters
<1>2. waiter' \in [Goroutine -> {"idle", "check", "look", "leader", "ErrClosed", "ErrNoLeader"}]
  BY DEF LifeInv, Typed, WaitForLeader, Check, Look, Polled, Deadline
<1>3. late' \in [Goroutine -> BOOLEAN] /\ found' \in {"none", "self", "other"}
  BY DEF LifeInv, Typed, WaitForLeader, Check, Look, Deadline, opening
<1>4. Typed'
  BY <1>1, <1>2, <1>3 DEF LifeInv, Typed
<1>5. Acquired' /\ Unwinding' /\ Tearing' /\ Outside' /\ Returned' /\ ~twice'
  BY <1>1 DEF LifeInv, Acquired, Unwinding, Tearing, Outside, Returned
<1>6. QED
  BY <1>4, <1>5 DEF LifeInv

LEMMA InvClose ==
  ASSUME LifeInv, NEW g \in Goroutine, Close(g)
  PROVE  LifeInv'
<1>1. /\ UNCHANGED <<pc, newCluster, armed, found, held, twice, raftUp, cluster, leader, closeErr>>
      /\ UNCHANGED <<waiter, late, opens, crashes>>
  BY DEF Close, opening, resources, raft, counters
<1>2. /\ pc \in {"open", "abandon"}
      /\ closing' = IF closing = "no" THEN "shutdown" ELSE closing
  BY DEF Close, Teardown
<1>3. closer' \in [Goroutine -> {"idle", "in", "ok", "err"}]
  BY DEF Close, LifeInv, Typed
<1>4. Typed'
  BY <1>1, <1>2, <1>3 DEF LifeInv, Typed
<1>5. Acquired' /\ Unwinding' /\ Tearing' /\ Outside' /\ ~twice'
  BY <1>1, <1>2 DEF LifeInv, Acquired, Unwinding, Tearing, Outside
<1>6. Returned'
  BY <1>1, <1>2 DEF LifeInv, Typed, Returned, Close
<1>7. QED
  BY <1>4, <1>5, <1>6 DEF LifeInv

LEMMA InvCloseReturn ==
  ASSUME LifeInv, NEW g \in Goroutine, CloseReturn(g)
  PROVE  LifeInv'
<1>1. /\ UNCHANGED <<pc, newCluster, armed, found, held, twice, raftUp, cluster, leader, closing>>
      /\ UNCHANGED <<closeErr, waiter, late, opens, crashes>>
  BY DEF CloseReturn, opening, resources, raft, teardown, counters
<1>2. closer' \in [Goroutine -> {"idle", "in", "ok", "err"}]
  BY DEF CloseReturn, LifeInv, Typed
<1>3. Typed'
  BY <1>1, <1>2 DEF LifeInv, Typed
<1>4. Acquired' /\ Unwinding' /\ Tearing' /\ Outside' /\ ~twice'
  BY <1>1 DEF LifeInv, Acquired, Unwinding, Tearing, Outside
<1>5. Returned'
  BY <1>1 DEF LifeInv, Typed, Returned, CloseReturn, Finished
<1>6. QED
  BY <1>3, <1>4, <1>5 DEF LifeInv

(* The teardown gives back what is held, in its order.                     *)
LEMMA InvTeardown == LifeInv /\ TeardownStep => LifeInv'
<1> SUFFICES ASSUME LifeInv, TeardownStep
             PROVE  LifeInv'
  OBVIOUS
<1>1. /\ UNCHANGED <<pc, newCluster, armed, found, cluster, closer, waiter, late, opens, crashes>>
  BY DEF TeardownStep, opening, calls, counters
<1>2. \/ closing = "shutdown" /\ closing' = "transport"
      \/ closing = "transport" /\ closing' = "bolt"
      \/ closing = "bolt" /\ closing' = "badger"
      \/ closing = "badger" /\ closing' = "done"
  <2>1. PICK i \in 1..4 : closing = Teardown[i] /\ closing' = Teardown[i + 1]
    BY DEF TeardownStep
  <2>2. i = 1 \/ i = 2 \/ i = 3 \/ i = 4
    BY <2>1
  <2>3. Teardown[1] = "shutdown" /\ Teardown[2] = "transport" /\ Teardown[3] = "bolt"
        /\ Teardown[4] = "badger" /\ Teardown[5] = "done"
    BY DEF Teardown
  <2>4. 1 + 1 = 2 /\ 2 + 1 = 3 /\ 3 + 1 = 4 /\ 4 + 1 = 5
    OBVIOUS
  <2>5. QED
    BY <2>1, <2>2, <2>3, <2>4
<1>3. pc \in {"abandon", "open"}
  BY <1>2 DEF LifeInv, Outside, Typed
<1>4. \/ /\ closing = "shutdown" /\ ~raftUp' /\ leader' = "none"
         /\ held' = held \ {"transport"} /\ UNCHANGED twice
      \/ /\ closing = "transport" /\ UNCHANGED <<raftUp, leader>>
         /\ held' = held \ {"transport"} /\ UNCHANGED twice
      \/ /\ closing \in {"bolt", "badger"} /\ UNCHANGED <<raftUp, leader>>
         /\ held' = held \ {closing} /\ twice' = (twice \/ closing \notin held \cup {"badger"})
  BY DEF TeardownStep, Release
<1>6. Tearing'
  BY <1>1, <1>2, <1>3, <1>4 DEF LifeInv, Tearing
<1>7. ~twice'
  BY <1>2, <1>3, <1>4 DEF LifeInv, Tearing
<1>8. Typed'
  <2>1. closeErr' \in BOOLEAN
    BY Zenon DEF TeardownStep, LifeInv, Typed
  <2>2. raftUp' \in BOOLEAN
    BY Zenon DEF TeardownStep, LifeInv, Typed
  <2>3. twice' \in BOOLEAN
    BY Zenon DEF TeardownStep, LifeInv, Typed, Release
  <2>4. held' \subseteq Resource /\ leader' \in {"none", "self", "other"}
    BY <1>4 DEF LifeInv, Typed
  <2>5. QED
    BY <1>1, <1>2, <2>1, <2>2, <2>3, <2>4 DEF LifeInv, Typed
<1>9. Acquired' /\ Unwinding' /\ Outside'
  BY <1>1, <1>3 DEF Acquired, Unwinding, Outside
<1>10. Returned'
  BY <1>1, <1>2 DEF LifeInv, Returned
<1>11. QED
  BY <1>6, <1>7, <1>8, <1>9, <1>10 DEF LifeInv

(* Raft runs only in an opened DB, before the teardown has stopped it.     *)
LEMMA InvRaft == LifeInv /\ (RaftStep \/ Restore) => LifeInv'
<1> SUFFICES ASSUME LifeInv, RaftStep \/ Restore
             PROVE  LifeInv'
  OBVIOUS
<1>1. /\ UNCHANGED <<pc, newCluster, armed, found, twice, raftUp, closing, closeErr>>
      /\ UNCHANGED <<closer, waiter, late, opens, crashes>>
  BY DEF RaftStep, Restore, opening, resources, raft, teardown, calls, counters
<1>2. raftUp /\ held' \in {held, held \ {"badger"}, held \cup {"badger"}}
  BY DEF RaftStep, Restore, resources
<1>3. pc \in {"wait", "abandon", "open"} /\ closing \in {"no", "shutdown"}
  BY <1>2 DEF LifeInv, Outside, Tearing
<1>4. /\ leader' \in {"none", "self", "other"} /\ cluster' \in {"none", "own", "grown", "joined"}
  BY DEF LifeInv, Typed, RaftStep, Restore, raft
<1>5. Typed'
  <2>1. held' \subseteq Resource
    BY <1>2 DEF LifeInv, Typed, Resource
  <2>2. QED
    BY <1>1, <1>4, <2>1 DEF LifeInv, Typed
<1>6. Tearing'
  BY <1>1, <1>2, <1>3 DEF LifeInv, Tearing
<1>7. Acquired' /\ Unwinding' /\ Outside'
  BY <1>1, <1>3 DEF LifeInv, Acquired, Unwinding, Outside
<1>8. Returned' /\ ~twice'
  BY <1>1 DEF LifeInv, Returned
<1>9. QED
  BY <1>5, <1>6, <1>7, <1>8 DEF LifeInv

LEMMA InvNext == LifeInv /\ [Next]_life => LifeInv'
<1> SUFFICES ASSUME LifeInv, [Next]_life
             PROVE  LifeInv'
  OBVIOUS
<1>1. CASE UNCHANGED life
  BY <1>1 DEF life, opening, resources, raft, teardown, calls, counters,
              LifeInv, Typed, Acquired, Unwinding, Tearing, Outside, Returned
<1>2. CASE OpenStep
  BY <1>2, InvAcquire, InvBootstrap, InvNewRaft, InvUnwind, InvOpenReturns DEF OpenStep
<1>3. CASE (\E n \in 0..2, valid \in BOOLEAN : OpenBegin(n, valid)) \/ Crash
  BY <1>3, InvStarts
<1>4. CASE \E g \in Goroutine :
             WaitForLeader(g) \/ Check(g) \/ Look(g) \/ Deadline(g) \/ Close(g) \/ CloseReturn(g)
  BY <1>4, InvWait, InvClose, InvCloseReturn
<1>5. CASE TeardownStep \/ RaftStep \/ Restore
  BY <1>5, InvTeardown, InvRaft
<1>6. QED
  BY <1>1, <1>2, <1>3, <1>4, <1>5 DEF Next

(* The inductive invariant of Open and Close holds in every state.         *)
THEOREM LifeInvHolds == Spec => []LifeInv
<1>1. QED
  BY InvInit, InvNext, PTL DEF Spec

(* The type invariant of a node's life.                                    *)
THEOREM LifecycleTypeCorrect == Spec => []TypeOK
<1>1. LifeInv => TypeOK
  BY TypedIsTypeOK DEF LifeInv
<1>2. QED
  BY <1>1, LifeInvHolds, PTL

(* Raft never runs without its log store and its transport (db.go, Open    *)
(* and Close).                                                             *)
THEOREM RaftStoresHold == Spec => []RaftHasItsStores
<1>1. LifeInv => RaftHasItsStores
  BY DEF LifeInv, Outside, Tearing, RaftHasItsStores
<1>2. QED
  BY <1>1, LifeInvHolds, PTL

(* A failed Open and a Close that returned leave nothing open (db.go).     *)
THEOREM NothingLeaksHolds == Spec => []NothingLeaks
<1>1. LifeInv => NothingLeaks
  <2> SUFFICES ASSUME LifeInv, pc = "idle" \/ \E g \in Goroutine : closer[g] \in {"ok", "err"}
               PROVE  held = {} /\ ~raftUp
    BY DEF NothingLeaks
  <2>1. CASE pc = "idle"
    BY <2>1 DEF LifeInv, Outside
  <2>2. CASE pc # "idle"
    <3>1. closing = "done"
      BY <2>2 DEF LifeInv, Returned
    <3>2. pc \in {"wait", "abandon", "open"}
      BY <2>2, <3>1 DEF LifeInv, Outside
    <3>3. QED
      BY <3>1, <3>2 DEF LifeInv, Tearing, Typed, Resource
  <2>3. QED
    BY <2>1, <2>2
<1>2. QED
  BY <1>1, LifeInvHolds, PTL

(* Close and the deferred cleanups never both run: neither meets a         *)
(* resource the other has released (db.go, Open, "disarm all three         *)
(* err-guarded cleanup defers").  That Raft's Shutdown and then Close      *)
(* itself close the transport in every teardown is outside it.             *)
THEOREM ReleasedOnceHolds == Spec => []ReleasedOnce
<1>1. LifeInv => ReleasedOnce
  BY DEF LifeInv, ReleasedOnce
<1>2. QED
  BY <1>1, LifeInvHolds, PTL

(* Every caller of Close gets the one result of the teardown (db.go).      *)
THEOREM ClosersAgreeHolds == Spec => []ClosersAgree
<1>1. LifeInv => ClosersAgree
  BY DEF LifeInv, Returned, ClosersAgree
<1>2. QED
  BY <1>1, LifeInvHolds, PTL

(* Opening and restarting never forget a cluster (db.go, Open; options.go, *)
(* NewCluster).                                                            *)
THEOREM KeepsClusterHolds == Spec => KeepsCluster
<1> DEFINE Keeps ==
      /\ cluster \in {"grown", "joined"} => cluster' = cluster
      /\ cluster = "own" => cluster' \in {"own", "grown"}
      /\ cluster = "none" /\ cluster' = "own" => newCluster
<1>1. [Next]_life => Keeps
  <2> SUFFICES ASSUME [Next]_life
               PROVE  Keeps
    OBVIOUS
  <2>1. CASE UNCHANGED cluster
    BY <2>1
  <2>2. CASE Bootstrap
    BY <2>2 DEF Bootstrap, Bootstrapped
  <2>3. CASE RaftStep
    BY <2>3 DEF RaftStep
  <2>4. Bootstrap \/ RaftStep \/ UNCHANGED cluster
    BY DEF Next, life, OpenBegin, OpenStep, Acquire, NewRaft, Unwind, OpenFails, Waited, Abandon,
           WaitForLeader, Check, Look, Deadline, Close, CloseReturn, TeardownStep, Restore, Crash, raft
  <2>5. QED
    BY <2>1, <2>2, <2>3, <2>4
<1>2. QED
  BY <1>1, PTL DEF Spec, KeepsCluster
=============================================================================
