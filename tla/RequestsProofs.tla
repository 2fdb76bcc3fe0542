--------------------------- MODULE RequestsProofs ---------------------------
(***************************************************************************)
(* Proofs about Requests: for all calls, any keys, values and clock.       *)
(***************************************************************************)
EXTENDS Requests, CommandProofs, Recursion, TLAPS

(* A call is answered by the function of its operation.                    *)
AnswerOf(c) ==
  CASE c.op = "set" -> SetBytes(c.key, c.value, c.opts, c.at)
    [] c.op = "delete" -> DeleteBytes(c.key)
    [] c.op = "batch" -> Batch(c.open, c.mutations, c.at)
    [] c.op = "get" -> GetBytes(c.key, c.mode, c.timeout, setDefaults(c.applyTimeout))
    [] c.op = "scan" ->
         ScanPrefixBytes(c.state, c.prefix, c.limit, c.unlimited,
                         prepareRead(c.mode, c.timeout, setDefaults(c.applyTimeout)), c.at)

CallInv == call \in Calls /\ (answer # Pending => answer = AnswerOf(call))

(* The answer a caller gets is what the operation makes of its arguments.  *)
THEOREM CallInvHolds == Spec => []CallInv
<1>1. Init => CallInv
  BY DEF Init, CallInv
<1>2. CallInv /\ [Next]_vars => CallInv'
  BY DEF CallInv, Next, Set, Delete, BatchCall, GetCall, ScanCall, Reply, vars, AnswerOf
<1>3. QED
  BY <1>1, <1>2, PTL DEF Spec

(* read.go, Get and ScanPrefixBytes: for every Config and ReadOptions a    *)
(* read that is not local waits for one barrier, and Raft is always given  *)
(* a timeout for enqueueing it.                                            *)
THEOREM ReadsAreBoundedHolds == Spec => []ReadsAreBounded
<1>1. ASSUME CallInv PROVE ReadsAreBounded
  <2> DEFINE read == prepareRead(call.mode, call.timeout, setDefaults(call.applyTimeout))
  <2>1. SUFFICES ASSUME Answered("get") \/ Answered("scan"), answer.ok
                 PROVE  /\ call.mode # "local" => Len(answer.barriers) = 1
                        /\ \A i \in DOMAIN answer.barriers :
                             /\ answer.barriers[i] > 0
                             /\ call.timeout # 0 => answer.barriers[i] = call.timeout
                             /\ call.timeout = 0 /\ call.applyTimeout > 0 =>
                                  answer.barriers[i] = call.applyTimeout
    BY DEF ReadsAreBounded
  <2>2. call.timeout \in Int /\ call.applyTimeout \in Int
    BY <1>1, <2>1, CallsAssumption DEF CallInv, Answered
  <2>3. read.ok /\ answer.barriers = read.barriers
    <3>1. CASE Answered("get")
      <4>1. answer = GetBytes(call.key, call.mode, call.timeout, setDefaults(call.applyTimeout))
        BY <1>1, <3>1 DEF CallInv, AnswerOf, Answered
      <4>2. QED
        BY <2>1, <4>1 DEF GetBytes, Invalid
    <3>2. CASE Answered("scan")
      <4>1. answer = ScanPrefixBytes(call.state, call.prefix, call.limit, call.unlimited,
                                     read, call.at)
        BY <1>1, <3>2 DEF CallInv, AnswerOf, Answered
      <4>2. QED
        BY <2>1, <4>1 DEF ScanPrefixBytes, Invalid
    <3>3. QED
      BY <2>1, <3>1, <3>2
  <2>4. QED
    BY <2>2, <2>3, RequestsAssumption DEF prepareRead, timeoutOr, setDefaults, Invalid
<1>2. QED
  BY <1>1, CallInvHolds, PTL

-----------------------------------------------------------------------------
(* A write whose options are accepted stores one entry under its key.      *)
LEMMA SetBytesEntry ==
  ASSUME NEW key \in AnyKey, NEW value \in Value, NEW opts \in Seq(Option), NEW t \in Clock,
         SetBytes(key, value, opts, t).ok
  PROVE  /\ key \in Key /\ resolveSetOptions(opts, t).ok
         /\ resolveSetOptions(opts, t).expiresAt \in Nat
         /\ SetBytes(key, value, opts, t) =
              [ok |-> TRUE,
               cmd |-> [pairs |-> [EmptyState EXCEPT ![key] =
                                     [value |-> value,
                                      expiresAt |-> resolveSetOptions(opts, t).expiresAt]],
                        deletes |-> {}]]
<1>1. key \in Key /\ resolveSetOptions(opts, t).ok
  BY DEF SetBytes, Invalid, AnyKey
<1>2. resolveSetOptions(opts, t).expiresAt \in Nat
  <2>1. CASE opts = <<>>
    BY <2>1 DEF resolveSetOptions
  <2>2. CASE opts # <<>>
    <3>1. Last(opts) \in Option
      BY <2>2 DEF Last
    <3>2. /\ Last(opts).ttl \in Nat /\ Last(opts).ttl > 0
          /\ resolveSetOptions(opts, t) =
               [ok |-> TRUE, expiresAt |-> AbsExpiry(t, Last(opts).ttl)]
      BY <1>1, <2>2, <3>1 DEF resolveSetOptions, Invalid, Option
    <3>3. t + Last(opts).ttl \in Nat
      BY <3>2 DEF Clock
    <3>4. QED
      BY <3>2, <3>3, UnixBounds DEF AbsExpiry
  <2>3. QED
    BY <2>1, <2>2
<1>3. key # EmptyKey
  BY <1>1, RequestsAssumption
<1>4. QED
  BY <1>1, <1>2, <1>3 DEF SetBytes, NoCommand

(* options.go, WithTTL: a key written with a TTL is gone when the TTL has  *)
(* passed and not more than a second early, for every clock resolution,    *)
(* every TTL and every list of options; without a TTL it stays.            *)
THEOREM TTLWindowHolds == Spec => []TTLWindow
<1>1. ASSUME CallInv PROVE TTLWindow
  <2> DEFINE entry == answer.cmd.pairs[call.key]
             end == call.at + Last(call.opts).ttl
  <2>1. SUFFICES ASSUME Answered("set"), answer.ok
                 PROVE  IF call.opts = <<>> THEN Visible(entry, call.at + 10 * TicksPerSecond)
                        ELSE \A t \in call.at..end + TicksPerSecond :
                               /\ t >= end => ~Visible(entry, t)
                               /\ t + TicksPerSecond <= end => Visible(entry, t)
    BY DEF TTLWindow
  <2>2. answer = SetBytes(call.key, call.value, call.opts, call.at)
    BY <1>1, <2>1 DEF CallInv, AnswerOf, Answered
  <2>3. /\ call.key \in AnyKey /\ call.value \in Value /\ call.opts \in Seq(Option)
        /\ call.at \in Clock
    BY <1>1, <2>1, CallsAssumption DEF CallInv, Answered
  <2>4. /\ entry = [value |-> call.value,
                    expiresAt |-> resolveSetOptions(call.opts, call.at).expiresAt]
        /\ resolveSetOptions(call.opts, call.at).ok
        /\ entry \in Entry
    BY <2>1, <2>2, <2>3, SetBytesEntry DEF EmptyState, Entry
  <2>5. entry # Absent
    BY <2>4, AbsentIsNoEntry
  <2>6. CASE call.opts = <<>>
    BY <2>4, <2>5, <2>6 DEF Visible, resolveSetOptions
  <2>7. CASE call.opts # <<>>
    <3>1. Last(call.opts) \in Option
      BY <2>3, <2>7 DEF Last
    <3>2. /\ Last(call.opts).ttl \in Nat /\ Last(call.opts).ttl > 0
          /\ entry.expiresAt = Unix(end)
      BY <2>4, <2>7, <3>1 DEF resolveSetOptions, Invalid, Option, AbsExpiry
    <3>3. call.at \in Nat /\ end \in Nat /\ end >= TicksPerSecond /\ TicksPerSecond \in Nat
      BY <2>3, <3>2, ClockAssumption DEF Clock
    <3>4. Unix(end) \in Nat /\ Unix(end) > 0
      BY <3>3, UnixBounds, UnixOrder
    <3> HIDE DEF entry, end
    <3>5. ASSUME NEW t \in call.at..end + TicksPerSecond
          PROVE  /\ t >= end => ~Visible(entry, t)
                 /\ t + TicksPerSecond <= end => Visible(entry, t)
      <4>1. t \in Nat
        BY <3>3
      <4>2. Unix(t) \in Nat /\ (t >= end => Unix(end) <= Unix(t))
            /\ (t + TicksPerSecond <= end => Unix(t) < Unix(end))
        BY <3>3, <4>1, UnixBounds, UnixOrder
      <4>3. QED
        BY <2>5, <3>2, <3>4, <4>2 DEF Visible
    <3>6. QED
      BY <2>7, <3>5 DEF entry, end
  <2>8. QED
    BY <2>6, <2>7
<1>2. QED
  BY <1>1, CallInvHolds, PTL

-----------------------------------------------------------------------------
(* Batches.                                                                *)

(* What Batch's loop carries: an error, or the command so far.             *)
Acc == {Invalid} \cup [ok : {TRUE}, cmd : Command]

(* The single call that does what mutation m does.                         *)
One(m, t) ==
  IF m.kind = "set" THEN SetBytes(m.key, m.value, m.opts, t) ELSE DeleteBytes(m.key)

LEMMA NoCommandType == NoCommand \in Command /\ [ok |-> TRUE, cmd |-> NoCommand] \in Acc
BY DEF NoCommand, Command, EmptyState, Acc

(* A round of Batch's loop that adds a set, or a delete, and the command   *)
(* the single call would have submitted.                                   *)
EntryOf(m, t) == [value |-> m.value, expiresAt |-> resolveSetOptions(m.opts, t).expiresAt]

AddsSet(acc, m, t) ==
  /\ EntryOf(m, t) \in Entry
  /\ AddMutation(acc, m, t) =
       [ok |-> TRUE,
        cmd |-> [pairs |-> [acc.cmd.pairs EXCEPT ![m.key] = EntryOf(m, t)],
                 deletes |-> acc.cmd.deletes]]
  /\ One(m, t) = [ok |-> TRUE, cmd |-> [pairs |-> [EmptyState EXCEPT ![m.key] = EntryOf(m, t)],
                                        deletes |-> {}]]

AddsDelete(acc, m, t) ==
  /\ AddMutation(acc, m, t) =
       [ok |-> TRUE, cmd |-> [pairs |-> acc.cmd.pairs, deletes |-> acc.cmd.deletes \cup {m.key}]]
  /\ One(m, t) = [ok |-> TRUE, cmd |-> [pairs |-> EmptyState, deletes |-> {m.key}]]

(* The command so far does not touch key k.                                *)
Fresh(acc, k) ==
  /\ acc.ok /\ acc.cmd \in Command /\ acc = [ok |-> TRUE, cmd |-> acc.cmd]
  /\ k \in Key /\ k \notin acc.cmd.deletes /\ acc.cmd.pairs[k] = Absent

(* A round that succeeds adds one mutation of a new key.                   *)
LEMMA AddMutationOk ==
  ASSUME NEW acc \in Acc, NEW m \in Mutation, NEW t \in Clock, AddMutation(acc, m, t).ok
  PROVE  Fresh(acc, m.key) /\ (AddsSet(acc, m, t) \/ AddsDelete(acc, m, t))
<1> DEFINE exp == resolveSetOptions(m.opts, t)
<1>1. /\ acc.ok /\ m.key # EmptyKey /\ m.key \notin Seen(acc)
      /\ (m.kind = "set" /\ exp.ok) \/ m.kind = "delete"
  BY DEF AddMutation, Invalid
<1>2. acc # Invalid
  <2>1. Invalid.ok = FALSE
    BY DEF Invalid
  <2>2. QED
    BY <1>1, <2>1
<1>3. acc \in [ok : {TRUE}, cmd : Command]
  BY <1>2 DEF Acc
<1>4. m.key \in AnyKey /\ m.value \in Value /\ m.opts \in Seq(Option)
  BY DEF Mutation
<1>5. m.key \in Key
  BY <1>1, <1>4 DEF AnyKey
<1>6. Fresh(acc, m.key)
  BY <1>1, <1>3, <1>5 DEF Seen, SetKeys, Fresh
<1>7. CASE m.kind = "set" /\ exp.ok
  <2>1. SetBytes(m.key, m.value, m.opts, t).ok
    BY <1>1, <1>7 DEF SetBytes
  <2>2. /\ exp.expiresAt \in Nat
        /\ SetBytes(m.key, m.value, m.opts, t) =
             [ok |-> TRUE, cmd |-> [pairs |-> [EmptyState EXCEPT ![m.key] = EntryOf(m, t)],
                                    deletes |-> {}]]
    BY <1>4, <2>1, SetBytesEntry DEF EntryOf
  <2>3. EntryOf(m, t) \in Entry
    BY <1>4, <2>2 DEF Entry, EntryOf
  <2>4. AddMutation(acc, m, t) = [acc EXCEPT !.cmd.pairs[m.key] = EntryOf(m, t)]
    BY <1>1, <1>7 DEF AddMutation, EntryOf
  <2>5. AddMutation(acc, m, t) =
          [ok |-> TRUE,
           cmd |-> [pairs |-> [acc.cmd.pairs EXCEPT ![m.key] = EntryOf(m, t)],
                    deletes |-> acc.cmd.deletes]]
    BY <1>3, <2>4 DEF Command
  <2>6. One(m, t) = [ok |-> TRUE, cmd |-> [pairs |-> [EmptyState EXCEPT ![m.key] = EntryOf(m, t)],
                                           deletes |-> {}]]
    BY <1>7, <2>2 DEF One
  <2>7. QED
    BY <1>6, <2>3, <2>5, <2>6 DEF AddsSet
<1>8. CASE m.kind = "delete"
  <2>1. AddMutation(acc, m, t) = [acc EXCEPT !.cmd.deletes = @ \cup {m.key}]
    BY <1>1, <1>8 DEF AddMutation
  <2>2. AddMutation(acc, m, t) =
          [ok |-> TRUE, cmd |-> [pairs |-> acc.cmd.pairs,
                                 deletes |-> acc.cmd.deletes \cup {m.key}]]
    BY <1>3, <2>1 DEF Command
  <2>3. One(m, t) = [ok |-> TRUE, cmd |-> [pairs |-> EmptyState, deletes |-> {m.key}]]
    BY <1>1, <1>8 DEF One, DeleteBytes, NoCommand
  <2>4. QED
    BY <1>6, <2>2, <2>3 DEF AddsDelete
<1>9. QED
  BY <1>1, <1>7, <1>8

LEMMA AddMutationType ==
  ASSUME NEW acc \in Acc, NEW m \in Mutation, NEW t \in Clock
  PROVE  AddMutation(acc, m, t) \in Acc
<1>1. CASE AddMutation(acc, m, t).ok
  <2>1. Fresh(acc, m.key) /\ (AddsSet(acc, m, t) \/ AddsDelete(acc, m, t))
    BY <1>1, AddMutationOk
  <2>2. AddMutation(acc, m, t).cmd \in Command
    BY <2>1 DEF Fresh, AddsSet, AddsDelete, Command
  <2>3. AddMutation(acc, m, t) = [ok |-> TRUE, cmd |-> AddMutation(acc, m, t).cmd]
    BY <2>1 DEF AddsSet, AddsDelete
  <2>4. \A c \in Command : [ok |-> TRUE, cmd |-> c] \in Acc
    BY DEF Acc
  <2>5. QED
    BY <2>2, <2>3, <2>4
<1>2. CASE ~AddMutation(acc, m, t).ok
  <2>1. acc # Invalid => acc \in [ok : {TRUE}, cmd : Command]
    BY DEF Acc
  <2>2. CASE AddMutation(acc, m, t) = Invalid
    BY <2>2 DEF Acc
  <2>3. CASE AddMutation(acc, m, t) # Invalid
    <3>1. acc.ok
      BY <2>3 DEF AddMutation
    <3>2. acc \in [ok : {TRUE}, cmd : Command]
      <4>1. Invalid.ok = FALSE
        BY DEF Invalid
      <4>2. QED
        BY <2>1, <3>1, <4>1
    <3>3. AddMutation(acc, m, t).ok = acc.ok
      BY <2>3, <3>2 DEF AddMutation
    <3>4. QED
      BY <1>2, <3>1, <3>3
  <2>4. QED
    BY <2>2, <2>3
<1>3. QED
  BY <1>1, <1>2

(* The command with the mutation does what the command without it and then *)
(* the mutation's own command do: the key is new, so it does not matter    *)
(* that the command runs its sets before its deletes.                      *)
LEMMA AddMutationEffect ==
  ASSUME NEW acc \in Acc, NEW m \in Mutation, NEW t \in Clock, NEW st \in State,
         AddMutation(acc, m, t).ok
  PROVE  /\ acc.ok /\ acc.cmd \in Command /\ One(m, t).ok /\ One(m, t).cmd \in Command
         /\ ApplyTxn(st, AddMutation(acc, m, t).cmd) =
              ApplyTxn(ApplyTxn(st, acc.cmd), One(m, t).cmd)
<1> DEFINE new == AddMutation(acc, m, t)
           one == One(m, t)
<1>1. Fresh(acc, m.key) /\ (AddsSet(acc, m, t) \/ AddsDelete(acc, m, t))
  BY AddMutationOk
<1>2. acc.ok /\ acc.cmd \in Command /\ one.ok /\ one.cmd \in Command /\ new.cmd \in Command
  BY <1>1 DEF Fresh, AddsSet, AddsDelete, Command, EmptyState
<1>3. ASSUME NEW k \in Key, k # m.key
      PROVE  /\ k \notin Writes(one.cmd)
             /\ k \in Writes(new.cmd) <=> k \in Writes(acc.cmd)
             /\ Effect(new.cmd, k) = Effect(acc.cmd, k)
  BY <1>1, <1>2, <1>3 DEF Fresh, AddsSet, AddsDelete, Command, EmptyState, Writes, SetKeys, Effect
<1>4. /\ m.key \in Writes(one.cmd) /\ m.key \in Writes(new.cmd)
      /\ Effect(new.cmd, m.key) = Effect(one.cmd, m.key)
  BY <1>1, <1>2, AbsentIsNoEntry
  DEF Fresh, AddsSet, AddsDelete, Command, EmptyState, Writes, SetKeys, Effect
<1> HIDE DEF new, one
<1>5. /\ ApplyTxn(st, acc.cmd) \in State
      /\ \A k \in Key : ApplyTxn(st, acc.cmd)[k] =
           IF k \in Writes(acc.cmd) THEN Effect(acc.cmd, k) ELSE st[k]
  BY <1>2, ApplyTxnEffect
<1>6. /\ ApplyTxn(ApplyTxn(st, acc.cmd), one.cmd) \in State
      /\ \A k \in Key : ApplyTxn(ApplyTxn(st, acc.cmd), one.cmd)[k] =
           IF k \in Writes(one.cmd) THEN Effect(one.cmd, k) ELSE ApplyTxn(st, acc.cmd)[k]
  BY <1>2, <1>5, ApplyTxnEffect
<1>7. /\ ApplyTxn(st, new.cmd) \in State
      /\ \A k \in Key : ApplyTxn(st, new.cmd)[k] =
           IF k \in Writes(new.cmd) THEN Effect(new.cmd, k) ELSE st[k]
  BY <1>2, ApplyTxnEffect
<1>8. ASSUME NEW k \in Key
      PROVE  ApplyTxn(st, new.cmd)[k] = ApplyTxn(ApplyTxn(st, acc.cmd), one.cmd)[k]
  <2>1. CASE k = m.key
    BY <1>4, <1>6, <1>7, <2>1
  <2>2. CASE k # m.key
    <3>1. /\ k \notin Writes(one.cmd)
          /\ k \in Writes(new.cmd) <=> k \in Writes(acc.cmd)
          /\ Effect(new.cmd, k) = Effect(acc.cmd, k)
      BY <1>3, <2>2 DEF new, one
    <3>2. QED
      BY <1>5, <1>6, <1>7, <3>1
  <2>3. QED
    BY <2>1, <2>2
<1>9. ApplyTxn(st, new.cmd) = ApplyTxn(ApplyTxn(st, acc.cmd), one.cmd)
  <2>1. ASSUME NEW x \in State, NEW y \in State, \A k \in Key : x[k] = y[k] PROVE x = y
    BY <2>1 DEF State
  <2>2. QED
    BY <1>6, <1>7, <1>8, <2>1
<1>10. QED
  BY <1>2, <1>9 DEF new, one


(* The rounds of Batch's loop.                                             *)
Rounds(acc, mutations, t) ==
  /\ acc[0] = [ok |-> TRUE, cmd |-> NoCommand]
  /\ \A i \in 1..Len(mutations) : acc[i] = AddMutation(acc[i - 1], mutations[i], t)
  /\ \A i \in 0..Len(mutations) : acc[i] \in Acc
  /\ BatchCommand(mutations, t) = acc[Len(mutations)]

LEMMA BatchDefined ==
  ASSUME NEW mutations \in Seq(Mutation), NEW t \in Clock
  PROVE  \E acc : Rounds(acc, mutations, t)
<1> DEFINE n == Len(mutations)
           b == [ok |-> TRUE, cmd |-> NoCommand]
           Unrolled(f) == [i \in 0..n |-> IF i = 0 THEN b ELSE AddMutation(f[i - 1], mutations[i], t)]
<1>1. n \in Nat /\ b \in Acc /\ \A i \in 1..n : mutations[i] \in Mutation
  BY NoCommandType
<1>2. \E f : f = Unrolled(f)
  <2> DEFINE step == [i \in 0..n |-> [c \in Acc |-> IF i = 0 THEN c ELSE AddMutation(c, mutations[i], t)]]
  <2>1. ASSUME NEW i \in 0..n, NEW c \in Acc, i # 0
        PROVE  AddMutation(c, mutations[i], t) \in Acc
    <3>1. mutations[i] \in Mutation
      BY <1>1, <2>1
    <3>2. QED
      BY <3>1, AddMutationType
  <2>2. step \in [0..n -> [Acc -> Acc]]
    BY <2>1
  <2>3. \A i \in 0..n : i # 0 => \A c \in Acc : step[i][c] = AddMutation(c, mutations[i], t)
    OBVIOUS
  <2> HIDE DEF step, n, b
  <2>4. PICK f : Follows(f, step, 0, n, b, Acc)
    <3>1. IsStep(step, 0, n, Acc)
      BY <2>2 DEF IsStep
    <3>2. QED
      BY <1>1, <3>1, RecursionExists
  <2>5. \A i \in 0..n : f[i] = Unrolled(f)[i]
    <3>1. ASSUME NEW i \in 0..n, i # 0 PROVE f[i] = AddMutation(f[i - 1], mutations[i], t)
      <4>1. i - 1 \in 0..n
        BY <1>1, <3>1
      <4>2. f[i - 1] \in Acc
        BY <2>4, <4>1 DEF Follows
      <4>3. QED
        BY <2>3, <2>4, <3>1, <4>2 DEF Follows
    <3>2. QED
      BY <2>4, <3>1 DEF Follows
  <2>6. f = Unrolled(f)
    BY <2>4, <2>5 DEF Follows
  <2>7. QED
    BY <2>6
<1>3. PICK acc : acc = Unrolled(acc) /\ BatchCommand(mutations, t) = acc[n]
  BY <1>2 DEF BatchCommand
<1> HIDE DEF n
<1>4. acc[0] = b /\ \A i \in 1..n : acc[i] = AddMutation(acc[i - 1], mutations[i], t)
  <2>1. \A i \in 0..n : acc[i] = IF i = 0 THEN b ELSE AddMutation(acc[i - 1], mutations[i], t)
    BY <1>3, Zenon
  <2>2. 0 \in 0..n /\ \A i \in 1..n : i \in 0..n /\ i # 0
    BY <1>1
  <2>3. QED
    BY <2>1, <2>2, Zenon
<1> DEFINE T == {i \in 0..n : acc[i] \in Acc}
<1>5. 0 \in T
  BY <1>1, <1>4
<1>6. ASSUME NEW i \in 0..n, i # n, i \in T PROVE i + 1 \in T
  <2>1. i + 1 \in 1..n /\ (i + 1) - 1 = i /\ i + 1 \in 0..n
    BY <1>1, <1>6
  <2>2. acc[i + 1] = AddMutation(acc[i], mutations[i + 1], t) /\ mutations[i + 1] \in Mutation
    BY <1>1, <1>4, <2>1
  <2>3. acc[i + 1] \in Acc
    BY <1>6, <2>2, AddMutationType
  <2>4. QED
    BY <2>1, <2>3
<1> HIDE DEF T
<1>7. \A i \in 0..n : i \in T
  BY <1>1, <1>5, <1>6, IntervalInduction
<1>8. QED
  BY <1>3, <1>4, <1>7 DEF T, Rounds, n

(* The single calls of the mutations, one after the other, on database st. *)
Singly(mutations, t, st) ==
  LET db[i \in 0..Len(mutations)] ==
        IF i = 0 THEN st ELSE ApplyTxn(db[i - 1], One(mutations[i], t).cmd)
  IN db[Len(mutations)]

Submitted(m, t) == One(m, t).ok /\ One(m, t).cmd \in Command

(* Every mutation of a batch that is accepted would be accepted alone.     *)
LEMMA BatchSubmitted ==
  ASSUME NEW mutations \in Seq(Mutation), NEW t \in Clock, BatchCommand(mutations, t).ok
  PROVE  \A i \in 1..Len(mutations) : Submitted(mutations[i], t)
<1> DEFINE n == Len(mutations)
<1>1. PICK acc : Rounds(acc, mutations, t)
  BY BatchDefined
<1> DEFINE T == {i \in 0..n : acc[i].ok => \A j \in 1..i : Submitted(mutations[j], t)}
<1>2. n \in Nat /\ \A i \in 1..n : mutations[i] \in Mutation
  OBVIOUS
<1>3. 0 \in T
  BY <1>2
<1>4. ASSUME NEW i \in 0..n, i # n, i \in T PROVE i + 1 \in T
  <2>1. i + 1 \in 1..n /\ (i + 1) - 1 = i /\ i + 1 \in 0..n
    BY <1>2, <1>4
  <2>2. /\ acc[i + 1] = AddMutation(acc[i], mutations[i + 1], t) /\ acc[i] \in Acc
        /\ mutations[i + 1] \in Mutation
    BY <1>1, <1>2, <2>1 DEF Rounds
  <2>3. ASSUME acc[i + 1].ok PROVE acc[i].ok /\ Submitted(mutations[i + 1], t)
    <3>1. EmptyState \in State
      BY DEF EmptyState, State
    <3>2. QED
      BY <2>2, <2>3, <3>1, AddMutationEffect DEF Submitted
  <2>4. ASSUME acc[i + 1].ok, NEW j \in 1..(i + 1) PROVE Submitted(mutations[j], t)
    <3>1. j = i + 1 \/ j \in 1..i
      BY <2>1, <2>4
    <3>2. QED
      BY <1>4, <2>3, <2>4, <3>1
  <2>5. QED
    BY <2>1, <2>4
<1> HIDE DEF T
<1>5. \A i \in 0..n : i \in T
  BY <1>2, <1>3, <1>4, IntervalInduction
<1>6. n \in T
  BY <1>2, <1>5
<1>7. QED
  BY <1>1, <1>6 DEF T, Rounds


LEMMA SinglyDefined ==
  ASSUME NEW mutations \in Seq(Mutation), NEW t \in Clock, NEW st \in State,
         \A i \in 1..Len(mutations) : Submitted(mutations[i], t)
  PROVE  \E db : /\ db[0] = st
                 /\ \A i \in 1..Len(mutations) :
                      db[i] = ApplyTxn(db[i - 1], One(mutations[i], t).cmd)
                 /\ Singly(mutations, t, st) = db[Len(mutations)]
<1> DEFINE n == Len(mutations)
           cmd(i) == One(mutations[i], t).cmd
           Unrolled(f) == [i \in 0..n |-> IF i = 0 THEN st ELSE ApplyTxn(f[i - 1], cmd(i))]
<1>1. n \in Nat /\ \A i \in 1..n : cmd(i) \in Command
  BY DEF Submitted
<1>2. \E f : f = Unrolled(f)
  <2> HIDE DEF cmd, n
  <2> DEFINE step == [i \in 0..n |-> [c \in State |-> IF i = 0 THEN c ELSE ApplyTxn(c, cmd(i))]]
  <2>1. ASSUME NEW i \in 0..n, NEW c \in State, i # 0
        PROVE  ApplyTxn(c, cmd(i)) \in State
    <3>1. cmd(i) \in Command
      BY <1>1, <2>1
    <3>2. QED
      BY <3>1, ApplyTxnEffect
  <2>2. step \in [0..n -> [State -> State]]
    BY <2>1
  <2>3. \A i \in 0..n : i # 0 => \A c \in State : step[i][c] = ApplyTxn(c, cmd(i))
    OBVIOUS
  <2> HIDE DEF step
  <2>4. PICK f : Follows(f, step, 0, n, st, State)
    <3>1. IsStep(step, 0, n, State)
      BY <2>2 DEF IsStep
    <3>2. QED
      BY <1>1, <3>1, RecursionExists
  <2>5. \A i \in 0..n : f[i] = Unrolled(f)[i]
    <3>1. ASSUME NEW i \in 0..n, i # 0 PROVE f[i] = ApplyTxn(f[i - 1], cmd(i))
      <4>1. i - 1 \in 0..n
        BY <1>1, <3>1
      <4>2. f[i - 1] \in State
        BY <2>4, <4>1 DEF Follows
      <4>3. QED
        BY <2>3, <2>4, <3>1, <4>2 DEF Follows
    <3>2. QED
      BY <2>4, <3>1 DEF Follows
  <2>6. f = Unrolled(f)
    BY <2>4, <2>5 DEF Follows
  <2>7. QED
    BY <2>6
<1>3. PICK db : db = Unrolled(db) /\ Singly(mutations, t, st) = db[n]
  BY <1>2 DEF Singly
<1>4. db[0] = st /\ \A i \in 1..n : db[i] = ApplyTxn(db[i - 1], cmd(i))
  <2> HIDE DEF cmd, n
  <2>1. \A i \in 0..n : db[i] = IF i = 0 THEN st ELSE ApplyTxn(db[i - 1], cmd(i))
    BY <1>3, Zenon
  <2>2. 0 \in 0..n /\ \A i \in 1..n : i \in 0..n /\ i # 0
    BY <1>1
  <2>3. QED
    BY <2>1, <2>2, Zenon
<1>5. QED
  BY <1>3, <1>4

(* write.go, Batch: the batch's one command leaves what the single calls   *)
(* would leave, whatever the database held.                                *)
THEOREM BatchEffect ==
  ASSUME NEW mutations \in Seq(Mutation), NEW t \in Clock, NEW st \in State,
         BatchCommand(mutations, t).ok
  PROVE  ApplyTxn(st, BatchCommand(mutations, t).cmd) = Singly(mutations, t, st)
<1> DEFINE n == Len(mutations)
<1>1. PICK acc : Rounds(acc, mutations, t)
  BY BatchDefined
<1>2. \A i \in 1..n : Submitted(mutations[i], t)
  BY BatchSubmitted
<1>3. PICK db : /\ db[0] = st
                /\ \A i \in 1..n : db[i] = ApplyTxn(db[i - 1], One(mutations[i], t).cmd)
                /\ Singly(mutations, t, st) = db[n]
  BY <1>2, SinglyDefined
<1>4. n \in Nat /\ \A i \in 1..n : mutations[i] \in Mutation
  OBVIOUS
<1> DEFINE T == {i \in 0..n : acc[i].ok => ApplyTxn(st, acc[i].cmd) = db[i]}
<1>5. 0 \in T
  <2>1. ApplyTxn(st, NoCommand) = st
    <3>1. NoCommand \in Command /\ Writes(NoCommand) = {}
      BY NoCommandType DEF NoCommand, Writes, SetKeys, EmptyState
    <3>2. ApplyTxn(st, NoCommand) \in State /\ \A k \in Key : ApplyTxn(st, NoCommand)[k] = st[k]
      BY <3>1, ApplyTxnEffect
    <3>3. QED
      BY <3>2 DEF State
  <2>2. acc[0].cmd = NoCommand
    BY <1>1 DEF Rounds
  <2>3. QED
    BY <1>3, <1>4, <2>1, <2>2
<1>6. ASSUME NEW i \in 0..n, i # n, i \in T PROVE i + 1 \in T
  <2>1. i + 1 \in 1..n /\ (i + 1) - 1 = i /\ i + 1 \in 0..n
    BY <1>4, <1>6
  <2>2. /\ acc[i + 1] = AddMutation(acc[i], mutations[i + 1], t) /\ acc[i] \in Acc
        /\ mutations[i + 1] \in Mutation
    BY <1>1, <1>4, <2>1 DEF Rounds
  <2>3. db[i + 1] = ApplyTxn(db[i], One(mutations[i + 1], t).cmd)
    BY <1>3, <2>1
  <2>4. ASSUME acc[i + 1].ok PROVE ApplyTxn(st, acc[i + 1].cmd) = db[i + 1]
    <3>1. /\ acc[i].ok
          /\ ApplyTxn(st, acc[i + 1].cmd) =
               ApplyTxn(ApplyTxn(st, acc[i].cmd), One(mutations[i + 1], t).cmd)
      BY <2>2, <2>4, AddMutationEffect
    <3>2. QED
      BY <1>6, <2>3, <3>1
  <2>5. QED
    BY <2>1, <2>4
<1> HIDE DEF T
<1>7. \A i \in 0..n : i \in T
  BY <1>4, <1>5, <1>6, IntervalInduction
<1>8. n \in T
  BY <1>4, <1>7
<1>9. QED
  BY <1>1, <1>3, <1>8 DEF T, Rounds

(* write.go, Batch and fsm.go, command: for batches of any length, keys,   *)
(* values and options, an accepted batch is what its mutations would do    *)
(* one after the other, although its command runs all sets before all      *)
(* deletes.                                                                *)
THEOREM BatchIsItsSequenceHolds == Spec => []BatchIsItsSequence
<1> DEFINE Full1 == [k \in Key |-> [value |-> CHOOSE v \in Value : TRUE, expiresAt |-> 0]]
<1>1. EmptyState \in State /\ Full1 \in State
  <2>1. (CHOOSE v \in Value : TRUE) \in Value
    BY RequestsAssumption
  <2>2. QED
    BY <2>1 DEF EmptyState, State, Entry
<1>2. ASSUME CallInv PROVE BatchIsItsSequence
  <2>1. SUFFICES ASSUME Answered("batch"), answer.ok
                 PROVE  /\ \A i \in DOMAIN call.mutations : One(call.mutations[i], call.at).ok
                        /\ \A st \in {EmptyState, Full1} :
                             ApplyTxn(st, answer.cmd) = Singly(call.mutations, call.at, st)
    BY Zenon DEF BatchIsItsSequence, One, Singly
  <2>2. answer = BatchCommand(call.mutations, call.at)
    <3>1. answer = Batch(call.open, call.mutations, call.at)
      BY <1>2, <2>1 DEF CallInv, AnswerOf, Answered
    <3>2. QED
      BY <2>1, <3>1 DEF Batch, Invalid
  <2>3. call.mutations \in Seq(Mutation) /\ call.at \in Clock
    BY <1>2, <2>1, CallsAssumption DEF CallInv, Answered
  <2>4. \A i \in 1..Len(call.mutations) : Submitted(call.mutations[i], call.at)
    BY <2>1, <2>2, <2>3, BatchSubmitted
  <2>5. \A i \in DOMAIN call.mutations : One(call.mutations[i], call.at).ok
    BY <2>3, <2>4 DEF Submitted
  <2> HIDE DEF Full1
  <2>6. ASSUME NEW st \in {EmptyState, Full1}
        PROVE  ApplyTxn(st, answer.cmd) = Singly(call.mutations, call.at, st)
    <3>1. st \in State
      BY <1>1
    <3>2. QED
      BY <2>1, <2>2, <2>3, <3>1, BatchEffect
  <2>7. QED
    BY <2>5, <2>6
<1>3. QED
  BY <1>2, CallInvHolds, PTL


-----------------------------------------------------------------------------
(* Scans.                                                                  *)

(* What the iterator's loop carries.                                       *)
Found == [stop : BOOLEAN, entries : Seq(Key)]

(* The key at position j is one the scan is asked for.                     *)
Match(j, st, prefix, t) == KeyOrder[j] \in prefix /\ Visible(st[KeyOrder[j]], t)

Passed(i, st, prefix, t) ==
  (\A j \in 1..i : KeyOrder[j] \notin prefix) \/ ~Visible(st[KeyOrder[i]], t)

(* The entries are the matches among the first c positions.                *)
Holds(entries, c, st, prefix, t) ==
  /\ \A x \in DOMAIN entries :
       \E j \in 1..c : Match(j, st, prefix, t) /\ KeyOrder[j] = entries[x]
  /\ \A j \in 1..c : Match(j, st, prefix, t) => \E x \in DOMAIN entries : entries[x] = KeyOrder[j]

InOrder(entries) == \A x, y \in DOMAIN entries : x < y => Before(entries[x], entries[y])

(* The iterator at position i: it has collected the matches up to i, or    *)
(* has stopped at c because the result is full or no match is left.        *)
ScanInv(acc, i, c, st, prefix, limit, t) ==
  /\ acc \in Found
  /\ limit > 0 => Len(acc.entries) <= limit
  /\ InOrder(acc.entries)
  /\ c \in 0..i /\ Holds(acc.entries, c, st, prefix, t)
  /\ ~acc.stop => c = i
  /\ acc.stop => \/ limit > 0 /\ Len(acc.entries) = limit
                 \/ \A j \in (c + 1)..Len(KeyOrder) : ~Match(j, st, prefix, t)

(* What the loop does at position i.                                       *)
ScanStep(acc, i, st, prefix, limit, t) ==
  IF Passed(i, st, prefix, t) THEN acc ELSE ScanRound(acc, KeyOrder[i], prefix, limit)

LEMMA KeyOrderType == Len(KeyOrder) \in Nat /\ \A j \in 1..Len(KeyOrder) : KeyOrder[j] \in Key
BY RequestsAssumption

LEMMA ScanStepType ==
  ASSUME NEW acc \in Found, NEW i \in 1..Len(KeyOrder), NEW st, NEW prefix, NEW limit \in Nat, NEW t
  PROVE  ScanStep(acc, i, st, prefix, limit, t) \in Found
<1>1. KeyOrder[i] \in Key
  BY KeyOrderType
<1>2. Append(acc.entries, KeyOrder[i]) \in Seq(Key)
  BY <1>1 DEF Found
<1>3. QED
  BY <1>2 DEF ScanStep, ScanRound, Found

(* One more match at the end.                                              *)
LEMMA HoldsAppend ==
  ASSUME NEW entries \in Seq(Key), NEW i \in 0..Len(KeyOrder), i # Len(KeyOrder),
         NEW st, NEW prefix, NEW t,
         Holds(entries, i, st, prefix, t), InOrder(entries), Match(i + 1, st, prefix, t)
  PROVE  /\ Holds(Append(entries, KeyOrder[i + 1]), i + 1, st, prefix, t)
         /\ InOrder(Append(entries, KeyOrder[i + 1]))
<1> DEFINE new == Append(entries, KeyOrder[i + 1])
           n == Len(entries)
<1>1. i \in Nat /\ i + 1 \in 1..Len(KeyOrder) /\ KeyOrder[i + 1] \in Key /\ Len(KeyOrder) \in Nat
  BY KeyOrderType
<1>2. /\ n \in Nat /\ DOMAIN entries = 1..n /\ DOMAIN new = 1..(n + 1)
      /\ new[n + 1] = KeyOrder[i + 1] /\ \A x \in 1..n : new[x] = entries[x]
  BY <1>1
<1> HIDE DEF new, n
<1>3. ASSUME NEW x \in DOMAIN new
      PROVE  \E j \in 1..(i + 1) : Match(j, st, prefix, t) /\ KeyOrder[j] = new[x]
  <2>1. CASE x = n + 1
    <3>1. i + 1 \in 1..(i + 1)
      BY <1>1
    <3>2. QED
      BY <1>2, <2>1, <3>1
  <2>2. CASE x # n + 1
    <3>1. x \in 1..n
      BY <1>2, <2>2
    <3>2. PICK j \in 1..i : Match(j, st, prefix, t) /\ KeyOrder[j] = entries[x]
      BY <1>2, <3>1 DEF Holds
    <3>3. j \in 1..(i + 1)
      BY <1>1
    <3>4. QED
      BY <1>2, <3>1, <3>2, <3>3
  <2>3. QED
    BY <2>1, <2>2
<1>4. ASSUME NEW j \in 1..(i + 1), Match(j, st, prefix, t)
      PROVE  \E x \in DOMAIN new : new[x] = KeyOrder[j]
  <2>1. CASE j = i + 1
    <3>1. n + 1 \in DOMAIN new
      BY <1>2
    <3>2. QED
      BY <1>2, <2>1, <3>1
  <2>2. CASE j # i + 1
    <3>1. j \in 1..i
      BY <1>1, <2>2
    <3>2. PICK x \in DOMAIN entries : entries[x] = KeyOrder[j]
      BY <1>4, <3>1 DEF Holds
    <3>3. x \in DOMAIN new /\ x \in 1..n
      BY <1>2
    <3>4. QED
      BY <1>2, <3>2, <3>3
  <2>3. QED
    BY <2>1, <2>2
<1>5. ASSUME NEW x \in DOMAIN new, NEW y \in DOMAIN new, x < y
      PROVE  Before(new[x], new[y])
  <2>1. x \in 1..n
    BY <1>2, <1>5
  <2>2. CASE y = n + 1
    <3>1. PICK j \in 1..i : KeyOrder[j] = entries[x]
      BY <1>2, <2>1 DEF Holds
    <3>2. j \in DOMAIN KeyOrder /\ i + 1 \in DOMAIN KeyOrder /\ j < i + 1
      BY <1>1, RequestsAssumption
    <3>3. QED
      BY <1>2, <2>1, <2>2, <3>1, <3>2 DEF Before
  <2>3. CASE y # n + 1
    <3>1. y \in 1..n
      BY <1>2, <2>3
    <3>2. QED
      BY <1>2, <1>5, <2>1, <3>1 DEF InOrder
  <2>4. QED
    BY <2>2, <2>3
<1>6. QED
  BY <1>3, <1>4, <1>5 DEF Holds, InOrder, new


(* A position without a match leaves the entries right.                    *)
LEMMA HoldsPass ==
  ASSUME NEW entries \in Seq(Key), NEW i \in Nat, NEW st, NEW prefix, NEW t,
         Holds(entries, i, st, prefix, t), ~Match(i + 1, st, prefix, t)
  PROVE  Holds(entries, i + 1, st, prefix, t)
<1>1. \A j \in 1..(i + 1) : j = i + 1 \/ j \in 1..i
  OBVIOUS
<1>2. \A j \in 1..i : j \in 1..(i + 1)
  OBVIOUS
<1>3. QED
  BY <1>1, <1>2, Zenon DEF Holds

(* A round of the iterator keeps its invariant.  It is here that the scan  *)
(* may end at the first key without the prefix: no later key has it.       *)
LEMMA ScanStepInv ==
  ASSUME NEW acc, NEW i \in 0..Len(KeyOrder), i # Len(KeyOrder), NEW c, NEW st,
         NEW prefix \in Prefix, NEW limit \in Nat, NEW t,
         ScanInv(acc, i, c, st, prefix, limit, t)
  PROVE  \E d : ScanInv(ScanStep(acc, i + 1, st, prefix, limit, t), i + 1, d, st, prefix, limit, t)
<1> DEFINE p == i + 1
           k == KeyOrder[p]
           new == ScanStep(acc, p, st, prefix, limit, t)
<1>1. i \in Nat /\ p \in 1..Len(KeyOrder) /\ k \in Key /\ Len(KeyOrder) \in Nat
  BY KeyOrderType
<1>2. acc \in Found /\ c \in 0..i /\ Holds(acc.entries, c, st, prefix, t) /\ acc.entries \in Seq(Key)
  BY DEF ScanInv, Found
<1>3. new \in Found
  BY <1>1, <1>2, ScanStepType
<1>4. CASE acc.stop
  <2>1. new = acc
    BY <1>2, <1>4 DEF ScanStep, ScanRound, Found
  <2>2. c \in 0..p
    BY <1>1, <1>2
  <2>3. ScanInv(new, p, c, st, prefix, limit, t)
    BY <1>4, <2>1, <2>2 DEF ScanInv
  <2>4. QED
    BY <2>3
<1>5. CASE ~acc.stop
  <2>1. c = i
    BY <1>5 DEF ScanInv
  <2>2. CASE Passed(p, st, prefix, t)
    <3>1. new = acc
      BY <2>2 DEF ScanStep
    <3>2. ~Match(p, st, prefix, t)
      BY <1>1, <2>2 DEF Passed, Match
    <3>3. Holds(acc.entries, p, st, prefix, t)
      BY <1>1, <1>2, <2>1, <3>2, HoldsPass
    <3>4. p \in 0..p
      BY <1>1
    <3>5. ScanInv(new, p, p, st, prefix, limit, t)
      BY <1>5, <3>1, <3>3, <3>4 DEF ScanInv
    <3>6. QED
      BY <3>5
  <2>3. CASE ~Passed(p, st, prefix, t) /\ (k \notin prefix \/ Full(acc.entries, limit))
    <3>1. new = [acc EXCEPT !.stop = TRUE]
      BY <2>3 DEF ScanStep, ScanRound
    <3>2. new.stop /\ new.entries = acc.entries
      BY <1>2, <3>1 DEF Found
    <3>3. c \in 0..p
      BY <1>1, <1>2
    <3>4. \/ limit > 0 /\ Len(acc.entries) = limit
          \/ \A j \in (c + 1)..Len(KeyOrder) : ~Match(j, st, prefix, t)
      <4>1. CASE Full(acc.entries, limit)
        <5>1. limit > 0 /\ Len(acc.entries) >= limit /\ Len(acc.entries) <= limit
          BY <4>1 DEF Full, ScanInv
        <5>2. Len(acc.entries) \in Nat
          BY <1>2
        <5>3. QED
          BY <5>1, <5>2
      <4>2. CASE k \notin prefix
        <5>1. PICK h \in 1..p : KeyOrder[h] \in prefix
          BY <2>3 DEF Passed
        <5>2. h \in DOMAIN KeyOrder /\ p \in DOMAIN KeyOrder /\ h < p
          BY <1>1, <4>2, <5>1, RequestsAssumption
        <5>3. ASSUME NEW j \in (c + 1)..Len(KeyOrder), Match(j, st, prefix, t) PROVE FALSE
          <6>1. j \in DOMAIN KeyOrder /\ KeyOrder[j] \in prefix
            BY <1>1, <2>1, <5>3, RequestsAssumption DEF Match
          <6>2. j # p
            BY <4>2, <6>1
          <6>3. p < j
            BY <1>1, <2>1, <5>3, <6>2
          <6>4. KeyOrder[p] \in prefix
            BY <5>1, <5>2, <6>1, <6>3 DEF Prefix
          <6>5. QED
            BY <4>2, <6>4
        <5>4. QED
          BY <5>3
      <4>3. QED
        BY <2>3, <4>1, <4>2
    <3>5. ScanInv(new, p, c, st, prefix, limit, t)
      BY <1>3, <3>2, <3>3, <3>4 DEF ScanInv
    <3>6. QED
      BY <3>5
  <2>4. CASE ~Passed(p, st, prefix, t) /\ k \in prefix /\ ~Full(acc.entries, limit)
    <3>1. new = [acc EXCEPT !.entries = Append(@, k)]
      BY <1>5, <2>4 DEF ScanStep, ScanRound
    <3>2. ~new.stop /\ new.entries = Append(acc.entries, k)
      BY <1>2, <1>5, <3>1 DEF Found
    <3>3. Match(p, st, prefix, t)
      BY <2>4 DEF Passed, Match
    <3>4. InOrder(acc.entries)
      BY DEF ScanInv
    <3>5. Holds(new.entries, p, st, prefix, t) /\ InOrder(new.entries)
      BY <1>2, <2>1, <3>2, <3>3, <3>4, HoldsAppend
    <3>6. limit > 0 => Len(new.entries) <= limit
      <4>1. limit > 0 => Len(acc.entries) < limit
        BY <1>2, <2>4 DEF Full
      <4>2. Len(new.entries) = Len(acc.entries) + 1 /\ Len(acc.entries) \in Nat
        BY <1>1, <1>2, <3>2
      <4>3. QED
        BY <4>1, <4>2
    <3>7. p \in 0..p
      BY <1>1
    <3>8. ScanInv(new, p, p, st, prefix, limit, t)
      BY <1>3, <3>2, <3>5, <3>6, <3>7 DEF ScanInv
    <3>9. QED
      BY <3>8
  <2>5. QED
    BY <2>2, <2>3, <2>4
<1>6. QED
  BY <1>4, <1>5

LEMMA ScanDefined ==
  ASSUME NEW st, NEW prefix, NEW limit \in Nat, NEW t
  PROVE  \E acc : /\ acc[0] = [stop |-> FALSE, entries |-> <<>>]
                  /\ \A i \in 1..Len(KeyOrder) :
                       acc[i] = ScanStep(acc[i - 1], i, st, prefix, limit, t)
                  /\ Scan(st, prefix, limit, t) = acc[Len(KeyOrder)].entries
<1> DEFINE n == Len(KeyOrder)
           b == [stop |-> FALSE, entries |-> <<>>]
           Unrolled(f) ==
             [i \in 0..n |-> IF i = 0 THEN b ELSE ScanStep(f[i - 1], i, st, prefix, limit, t)]
<1>1. n \in Nat /\ b \in Found
  BY KeyOrderType DEF Found
<1>2. \E f : f = Unrolled(f)
  <2> DEFINE step == [i \in 0..n |-> [c \in Found |->
                        IF i = 0 THEN c ELSE ScanStep(c, i, st, prefix, limit, t)]]
  <2>1. ASSUME NEW i \in 0..n, NEW c \in Found, i # 0
        PROVE  ScanStep(c, i, st, prefix, limit, t) \in Found
    <3>1. i \in 1..Len(KeyOrder)
      BY <1>1, <2>1
    <3>2. QED
      BY <3>1, ScanStepType
  <2>2. step \in [0..n -> [Found -> Found]]
    BY <2>1
  <2>3. \A i \in 0..n : i # 0 =>
          \A c \in Found : step[i][c] = ScanStep(c, i, st, prefix, limit, t)
    OBVIOUS
  <2> HIDE DEF step, n, b
  <2>4. PICK f : Follows(f, step, 0, n, b, Found)
    <3>1. IsStep(step, 0, n, Found)
      BY <2>2 DEF IsStep
    <3>2. QED
      BY <1>1, <3>1, RecursionExists
  <2>5. \A i \in 0..n : f[i] = Unrolled(f)[i]
    <3>1. ASSUME NEW i \in 0..n, i # 0
          PROVE  f[i] = ScanStep(f[i - 1], i, st, prefix, limit, t)
      <4>1. i - 1 \in 0..n
        BY <1>1, <3>1
      <4>2. f[i - 1] \in Found
        BY <2>4, <4>1 DEF Follows
      <4>3. QED
        BY <2>3, <2>4, <3>1, <4>2 DEF Follows
    <3>2. QED
      BY <2>4, <3>1 DEF Follows
  <2>6. f = Unrolled(f)
    BY <2>4, <2>5 DEF Follows
  <2>7. QED
    BY <2>6
<1>3. PICK acc : acc = Unrolled(acc) /\ Scan(st, prefix, limit, t) = acc[n].entries
  BY <1>2, Zenon DEF Scan, ScanStep, Passed
<1>4. acc[0] = b /\ \A i \in 1..n : acc[i] = ScanStep(acc[i - 1], i, st, prefix, limit, t)
  <2> HIDE DEF n, b
  <2>1. \A i \in 0..n :
          acc[i] = IF i = 0 THEN b ELSE ScanStep(acc[i - 1], i, st, prefix, limit, t)
    BY <1>3, Zenon
  <2>2. 0 \in 0..n /\ \A i \in 1..n : i \in 0..n /\ i # 0
    BY <1>1
  <2>3. QED
    BY <2>1, <2>2, Zenon
<1>5. QED
  BY <1>3, <1>4

(* The scan ends with the invariant at the last key.                       *)
ScanResult(acc, c, st, prefix, limit, t) ==
  /\ ScanInv(acc, Len(KeyOrder), c, st, prefix, limit, t)
  /\ Scan(st, prefix, limit, t) = acc.entries

LEMMA ScanEnds ==
  ASSUME NEW st, NEW prefix \in Prefix, NEW limit \in Nat, NEW t
  PROVE  \E acc, c : ScanResult(acc, c, st, prefix, limit, t)
<1> DEFINE n == Len(KeyOrder)
<1>1. n \in Nat
  BY KeyOrderType
<1>2. PICK acc : /\ acc[0] = [stop |-> FALSE, entries |-> <<>>]
                 /\ \A i \in 1..n : acc[i] = ScanStep(acc[i - 1], i, st, prefix, limit, t)
                 /\ Scan(st, prefix, limit, t) = acc[n].entries
  BY ScanDefined
<1> DEFINE T == {i \in 0..n : \E c : ScanInv(acc[i], i, c, st, prefix, limit, t)}
<1>3. 0 \in T
  <2>1. acc[0].entries = <<>> /\ ~acc[0].stop /\ acc[0] \in Found
    BY <1>2 DEF Found
  <2>2. ScanInv(acc[0], 0, 0, st, prefix, limit, t)
    BY <2>1 DEF ScanInv, Holds, InOrder
  <2>3. QED
    BY <1>1, <2>2
<1>4. ASSUME NEW i \in 0..n, i # n, i \in T PROVE i + 1 \in T
  <2>1. i + 1 \in 1..n /\ (i + 1) - 1 = i /\ i + 1 \in 0..n
    BY <1>1, <1>4
  <2>2. PICK c : ScanInv(acc[i], i, c, st, prefix, limit, t)
    BY <1>4
  <2>3. acc[i + 1] = ScanStep(acc[i], i + 1, st, prefix, limit, t)
    BY <1>2, <2>1
  <2>4. \E d : ScanInv(ScanStep(acc[i], i + 1, st, prefix, limit, t), i + 1, d, st, prefix, limit, t)
    BY <1>4, <2>2, ScanStepInv
  <2>5. QED
    BY <2>1, <2>3, <2>4
<1> HIDE DEF T
<1>5. \A i \in 0..n : i \in T
  BY <1>1, <1>3, <1>4, IntervalInduction
<1>6. n \in T
  BY <1>1, <1>5
<1>7. PICK c : ScanInv(acc[n], n, c, st, prefix, limit, t)
  BY <1>6 DEF T
<1>8. ScanResult(acc[n], c, st, prefix, limit, t)
  BY <1>2, <1>7 DEF ScanResult
<1>9. QED
  BY <1>8


(* read.go, ScanPrefixBytes: for every database, prefix and limit, and     *)
(* however many keys there are, a scan returns the first of the visible    *)
(* keys with the prefix, in order: all of them, or exactly as many as the  *)
(* limit says.                                                             *)
THEOREM ScanIsPrefixHolds == Spec => []ScanIsPrefix
<1>1. ASSUME CallInv PROVE ScanIsPrefix
  <2> DEFINE all == {k \in call.prefix : Visible(call.state[k], call.at)}
             limit == IF call.limit = 0 THEN DefaultScanLimit ELSE call.limit
             entries == answer.entries
             n == Len(KeyOrder)
             given == resolveLimit(call.limit, call.unlimited).limit
             M(j) == Match(j, call.state, call.prefix, call.at)
  <2>1. SUFFICES ASSUME Answered("scan"), answer.ok
                 PROVE  /\ Range(entries) \subseteq all
                        /\ \A i, j \in DOMAIN entries : i < j => Before(entries[i], entries[j])
                        /\ \A k \in all \ Range(entries), i \in DOMAIN entries :
                             Before(entries[i], k)
                        /\ ~call.unlimited => Len(entries) <= limit
                        /\ all # Range(entries) => ~call.unlimited /\ Len(entries) = limit
    BY DEF ScanIsPrefix
  <2>2. answer = ScanPrefixBytes(call.state, call.prefix, call.limit, call.unlimited,
                   prepareRead(call.mode, call.timeout, setDefaults(call.applyTimeout)), call.at)
    BY <1>1, <2>1 DEF CallInv, AnswerOf, Answered
  <2>3. call.prefix \in Prefix /\ call.limit \in Int /\ call.unlimited \in BOOLEAN
    BY <1>1, <2>1, CallsAssumption DEF CallInv, Answered
  <2>4. resolveLimit(call.limit, call.unlimited).ok /\ entries =
          Scan(call.state, call.prefix, resolveLimit(call.limit, call.unlimited).limit, call.at)
    BY <2>1, <2>2 DEF ScanPrefixBytes, Invalid
  <2>5. /\ call.limit >= 0 /\ given \in Nat
        /\ call.unlimited => given = 0
        /\ ~call.unlimited => given = limit /\ limit \in Nat /\ limit > 0
    BY <2>3, <2>4, RequestsAssumption DEF resolveLimit, Invalid
  <2>6. entries = Scan(call.state, call.prefix, given, call.at)
    BY <2>4
  <2> HIDE DEF given, limit, all
  <2>7. PICK acc, c : ScanResult(acc, c, call.state, call.prefix, given, call.at)
    <3>1. call.prefix \in Prefix /\ given \in Nat
      BY <2>3, <2>5
    <3>2. QED
      BY <3>1, ScanEnds
  <2>8. /\ entries \in Seq(Key) /\ c \in 0..n /\ n \in Nat /\ InOrder(entries)
        /\ given > 0 => Len(entries) <= given
        /\ ~acc.stop => c = n
        /\ acc.stop => (given > 0 /\ Len(entries) = given) \/ \A j \in (c + 1)..n : ~M(j)
    BY <2>6, <2>7, KeyOrderType DEF ScanResult, ScanInv, Found
  <2>9. /\ \A x \in DOMAIN entries : \E j \in 1..c : M(j) /\ KeyOrder[j] = entries[x]
        /\ \A j \in 1..c : M(j) => \E x \in DOMAIN entries : entries[x] = KeyOrder[j]
    BY <2>6, <2>7 DEF ScanResult, ScanInv, Holds
  <2> HIDE DEF entries
  <2>10. \A j \in 1..n : M(j) <=> KeyOrder[j] \in all
    BY DEF Match, all
  <2>11. \A k \in all : \E j \in 1..n : KeyOrder[j] = k
    <3>1. all \subseteq Key
      BY <2>3 DEF all, Prefix
    <3>2. \A k \in Key : \E j \in DOMAIN KeyOrder : KeyOrder[j] = k
      BY RequestsAssumption DEF Range
    <3>3. DOMAIN KeyOrder = 1..n
      BY RequestsAssumption
    <3>4. QED
      BY <3>1, <3>2, <3>3
  <2> HIDE DEF M
  <2>12. Range(entries) \subseteq all
    <3>1. \A j \in 1..c : j \in 1..n
      BY <2>8
    <3>2. \A x \in DOMAIN entries : entries[x] \in all
      BY <2>9, <2>10, <3>1
    <3>3. QED
      BY <3>2 DEF Range
  <2>13. ASSUME NEW k \in all \ Range(entries)
         PROVE  \E j \in (c + 1)..n : KeyOrder[j] = k /\ M(j)
    <3>1. PICK j \in 1..n : KeyOrder[j] = k
      BY <2>11
    <3>2. M(j)
      BY <2>10, <3>1
    <3>3. j \notin 1..c
      <4>1. SUFFICES ASSUME j \in 1..c PROVE FALSE
        OBVIOUS
      <4>2. PICK x \in DOMAIN entries : entries[x] = KeyOrder[j]
        BY <2>9, <3>2, <4>1
      <4>3. QED
        BY <3>1, <4>2 DEF Range
    <3>4. j \in (c + 1)..n
      BY <2>8, <3>3
    <3>5. QED
      BY <3>1, <3>2, <3>4
  <2>14. ASSUME NEW k \in all \ Range(entries), NEW i \in DOMAIN entries
         PROVE  Before(entries[i], k)
    <3>1. PICK j \in (c + 1)..n : KeyOrder[j] = k
      BY <2>13
    <3>2. PICK h \in 1..c : KeyOrder[h] = entries[i]
      BY <2>9
    <3>3. h \in DOMAIN KeyOrder /\ j \in DOMAIN KeyOrder /\ h < j
      BY <2>8, RequestsAssumption
    <3>4. QED
      BY <3>1, <3>2, <3>3 DEF Before
  <2>15. ASSUME all # Range(entries) PROVE ~call.unlimited /\ Len(entries) = limit
    <3>1. PICK k : k \in all \ Range(entries)
      BY <2>12, <2>15
    <3>2. PICK j \in (c + 1)..n : M(j)
      BY <2>13, <3>1
    <3>3. c # n
      BY <2>8, <3>2
    <3>4. given > 0 /\ Len(entries) = given
      BY <2>8, <3>2, <3>3
    <3>5. QED
      BY <2>3, <2>5, <3>4
  <2>16. ~call.unlimited => Len(entries) <= limit
    BY <2>5, <2>8
  <2>17. \A i, j \in DOMAIN entries : i < j => Before(entries[i], entries[j])
    BY <2>8 DEF InOrder
  <2>18. QED
    BY <2>12, <2>14, <2>15, <2>16, <2>17
<1>2. QED
  BY <1>1, CallInvHolds, PTL
=============================================================================
