------------------------------ MODULE Requests ------------------------------
(***************************************************************************)
(* What the API makes of its arguments: a write becomes a command or is    *)
(* rejected before anything is submitted (SetBytes, DeleteBytes, Batch), a *)
(* point read becomes a barrier with a timeout and a local read (GetBytes),*)
(* a scan becomes a list of keys (ScanPrefixBytes).  Pure functions; a     *)
(* state is one call and its answer.                                       *)
(***************************************************************************)
EXTENDS Command, Integers, FiniteSets, SequencesExt

CONSTANTS
  EmptyKey,           \* the key of length 0
  KeyOrder,           \* Badger's iteration order: Key as a sequence
  DefaultScanLimit,
  DefaultApplyTimeout,
  Calls               \* the calls a run makes

ASSUME RequestsAssumption ==
  /\ EmptyKey \notin Key /\ Value # {}
  /\ KeyOrder \in Seq(Key)
  /\ Range(KeyOrder) = Key /\ Len(KeyOrder) = Cardinality(Key)
  /\ DefaultScanLimit \in Nat \ {0}
  /\ DefaultApplyTimeout \in Nat \ {0}

(* The arguments a call can have.  The keys that have a prefix are next to *)
(* each other in byte order, and the clock is past the first second of     *)
(* Unix time.                                                              *)
AnyKey == Key \cup {EmptyKey}
Option == [known : BOOLEAN, ttl : Int]
Mutation == [kind : STRING, key : AnyKey, value : Value, opts : Seq(Option)]
Clock == {t \in Nat : t >= TicksPerSecond}
Prefix ==
  {p \in SUBSET Key :
     \A i, j, l \in DOMAIN KeyOrder :
       i < j /\ j < l /\ KeyOrder[i] \in p /\ KeyOrder[l] \in p => KeyOrder[j] \in p}

ASSUME CallsAssumption ==
  \A c \in Calls :
    \/ c \in [op : {"set"}, key : AnyKey, value : Value, opts : Seq(Option), at : Clock]
    \/ c \in [op : {"delete"}, key : AnyKey]
    \/ c \in [op : {"batch"}, open : BOOLEAN, mutations : Seq(Mutation), at : Clock]
    \/ c \in [op : {"get"}, key : AnyKey, mode : STRING, timeout : Int, applyTimeout : Int]
    \/ c \in [op : {"scan"}, state : State, prefix : Prefix, limit : Int, unlimited : BOOLEAN,
              at : Clock, mode : STRING, timeout : Int, applyTimeout : Int]

VARIABLES call, answer
vars == <<call, answer>>

Invalid == [ok |-> FALSE]
Pending == [ok |-> FALSE, pending |-> TRUE]

-----------------------------------------------------------------------------
(* Writes.                                                                 *)

NoCommand == [pairs |-> EmptyState, deletes |-> {}]

(* The expiry of a write, its options a sequence of TTLs (known FALSE for  *)
(* an option that is none).  The last TTL wins, unseen ones do not count.  *)
resolveSetOptions(opts, t) ==
  IF \E i \in DOMAIN opts : ~opts[i].known THEN Invalid
  ELSE IF opts = <<>> THEN [ok |-> TRUE, expiresAt |-> 0]
  ELSE IF Last(opts).ttl <= 0 THEN Invalid
  ELSE [ok |-> TRUE, expiresAt |-> AbsExpiry(t, Last(opts).ttl)]

SetBytes(key, value, opts, t) ==
  LET exp == resolveSetOptions(opts, t)
  IN IF key = EmptyKey \/ ~exp.ok THEN Invalid
     ELSE [ok |-> TRUE,
           cmd |-> [NoCommand EXCEPT !.pairs[key] = [value |-> value, expiresAt |-> exp.expiresAt]]]

DeleteBytes(key) ==
  IF key = EmptyKey THEN Invalid
  ELSE [ok |-> TRUE, cmd |-> [NoCommand EXCEPT !.deletes = {key}]]

(* Mutant of Seen: the duplicate check compares with the sets only.        *)
SeenSets(acc) == SetKeys(acc.cmd.pairs)

(* The keys of the batch so far.                                           *)
Seen(acc) == SetKeys(acc.cmd.pairs) \cup acc.cmd.deletes

(* One round of Batch's loop.                                              *)
AddMutation(acc, m, t) ==
  LET exp == resolveSetOptions(m.opts, t)
  IN IF ~acc.ok \/ m.key = EmptyKey THEN Invalid
     ELSE IF m.key \in Seen(acc) THEN Invalid
     ELSE IF m.kind = "set" /\ exp.ok
     THEN [acc EXCEPT !.cmd.pairs[m.key] = [value |-> m.value, expiresAt |-> exp.expiresAt]]
     ELSE IF m.kind = "delete"
     THEN [acc EXCEPT !.cmd.deletes = @ \cup {m.key}]
     ELSE Invalid

(* Batch's loop.  Without mutations it leaves NoCommand, for which nothing *)
(* is submitted.                                                           *)
BatchCommand(mutations, t) ==
  LET acc[i \in 0..Len(mutations)] ==
        IF i = 0 THEN [ok |-> TRUE, cmd |-> NoCommand]
        ELSE AddMutation(acc[i - 1], mutations[i], t)
  IN acc[Len(mutations)]

(* Unlike the other writes, which leave it to apply, Batch asks first      *)
(* whether the DB is open.                                                 *)
Batch(open, mutations, t) == IF open THEN BatchCommand(mutations, t) ELSE Invalid

-----------------------------------------------------------------------------
(* Reads.                                                                  *)

(* Config.setDefaults; ApplyTimeout is what writes, membership changes and *)
(* reads hand to Raft, for which 0 is no timeout.                          *)
setDefaults(applyTimeout) == IF applyTimeout <= 0 THEN DefaultApplyTimeout ELSE applyTimeout

(* Mutant of timeoutOr: a zero Timeout is taken for an override.           *)
timeoutOrZero(timeout, def) == IF timeout >= 0 THEN timeout ELSE def

timeoutOr(timeout, def) == IF timeout > 0 THEN timeout ELSE def

(* The timeout of the barrier a read waits for, none for a local read.     *)
prepareRead(mode, timeout, def) ==
  IF timeout < 0 THEN Invalid
  ELSE CASE mode = "linearizable" -> [ok |-> TRUE, barriers |-> <<timeoutOr(timeout, def)>>]
         [] mode = "local" -> [ok |-> TRUE, barriers |-> <<>>]
         [] OTHER -> Invalid

GetBytes(key, mode, timeout, def) ==
  IF key = EmptyKey THEN Invalid ELSE prepareRead(mode, timeout, def)

-----------------------------------------------------------------------------
(* Scans.                                                                  *)

(* 0 is no limit.                                                          *)
resolveLimit(limit, unlimited) ==
  IF limit < 0 THEN Invalid
  ELSE [ok |-> TRUE,
        limit |-> IF unlimited THEN 0 ELSE IF limit = 0 THEN DefaultScanLimit ELSE limit]

(* Mutant of Full: one entry too many.                                     *)
OverFull(entries, limit) == limit > 0 /\ Len(entries) > limit

Full(entries, limit) == limit > 0 /\ Len(entries) >= limit

(* The iterator from Seek on, one round per key: it ends with the first    *)
(* key that does not have the prefix, or when the result is full.          *)
ScanRound(acc, k, prefix, limit) ==
  IF acc.stop \/ k \notin prefix \/ Full(acc.entries, limit)
  THEN [acc EXCEPT !.stop = TRUE]
  ELSE [acc EXCEPT !.entries = Append(@, k)]

(* Seek passes over the keys before the first one that has the prefix,     *)
(* Badger's iterator over deleted and expired entries.                     *)
Scan(st, prefix, limit, t) ==
  LET passed(i) ==
        (\A j \in 1..i : KeyOrder[j] \notin prefix) \/ ~Visible(st[KeyOrder[i]], t)
      acc[i \in 0..Len(KeyOrder)] ==
        IF i = 0 THEN [stop |-> FALSE, entries |-> <<>>]
        ELSE IF passed(i) THEN acc[i - 1]
        ELSE ScanRound(acc[i - 1], KeyOrder[i], prefix, limit)
  IN acc[Len(KeyOrder)].entries

(* A scan waits for the same barrier as a point read.                      *)
ScanPrefixBytes(st, prefix, limit, unlimited, read, t) ==
  LET lim == resolveLimit(limit, unlimited)
  IN IF ~lim.ok \/ ~read.ok THEN Invalid
     ELSE [ok |-> TRUE, barriers |-> read.barriers, entries |-> Scan(st, prefix, lim.limit, t)]

-----------------------------------------------------------------------------
Init == call \in Calls /\ answer = Pending

Reply(op, value) ==
  /\ answer = Pending /\ call.op = op
  /\ answer' = value
  /\ UNCHANGED call

Set == Reply("set", SetBytes(call.key, call.value, call.opts, call.at))
Delete == Reply("delete", DeleteBytes(call.key))
BatchCall == Reply("batch", Batch(call.open, call.mutations, call.at))
GetCall ==
  Reply("get", GetBytes(call.key, call.mode, call.timeout, setDefaults(call.applyTimeout)))
ScanCall ==
  Reply("scan", ScanPrefixBytes(call.state, call.prefix, call.limit, call.unlimited,
                  prepareRead(call.mode, call.timeout, setDefaults(call.applyTimeout)), call.at))

Next == Set \/ Delete \/ BatchCall \/ GetCall \/ ScanCall

Spec == Init /\ [][Next]_vars

-----------------------------------------------------------------------------
Answered(op) == call.op = op /\ answer # Pending

(* A batch is what its mutations would do one after the other, although    *)
(* the command runs all sets before all deletes: that is what rejecting a  *)
(* key that appears twice is for (write.go, Batch; fsm.go, command).       *)
BatchIsItsSequence ==
  Answered("batch") /\ answer.ok =>
    LET One(m) == IF m.kind = "set" THEN SetBytes(m.key, m.value, m.opts, call.at)
                  ELSE DeleteBytes(m.key)
        Singly(st) ==
          LET db[i \in 0..Len(call.mutations)] ==
                IF i = 0 THEN st ELSE ApplyTxn(db[i - 1], One(call.mutations[i]).cmd)
          IN db[Len(call.mutations)]
        Full1 == [k \in Key |-> [value |-> CHOOSE v \in Value : TRUE, expiresAt |-> 0]]
    IN /\ \A i \in DOMAIN call.mutations : One(call.mutations[i]).ok
       /\ \A st \in {EmptyState, Full1} : ApplyTxn(st, answer.cmd) = Singly(st)

(* A key written with a TTL is gone when the TTL has passed, and not more  *)
(* than a second early; without one it stays (options.go, WithTTL).        *)
TTLWindow ==
  Answered("set") /\ answer.ok =>
    LET entry == answer.cmd.pairs[call.key]
        end == call.at + Last(call.opts).ttl
    IN IF call.opts = <<>> THEN Visible(entry, call.at + 10 * TicksPerSecond)
       ELSE \A t \in call.at..end + TicksPerSecond :
              /\ t >= end => ~Visible(entry, t)
              /\ t + TicksPerSecond <= end => Visible(entry, t)

(* read.go, Get: it "never silently downgrades to a possibly stale local   *)
(* read", and whatever the Config and the ReadOptions say Raft is given a  *)
(* timeout for its barrier: the caller's if there is one (config.go,       *)
(* ApplyTimeout).  The same goes for scans.  Raft bounds the enqueueing by *)
(* it and nothing after that: Client says what becomes of the wait.        *)
ReadsAreBounded ==
  (Answered("get") \/ Answered("scan")) /\ answer.ok =>
    /\ call.mode # "local" => Len(answer.barriers) = 1
    /\ \A i \in DOMAIN answer.barriers :
         /\ answer.barriers[i] > 0
         /\ call.timeout # 0 => answer.barriers[i] = call.timeout
         /\ call.timeout = 0 /\ call.applyTimeout > 0 => answer.barriers[i] = call.applyTimeout

(* Key k comes before key l in Badger's iteration order.                   *)
Before(k, l) ==
  \E i, j \in DOMAIN KeyOrder : i < j /\ KeyOrder[i] = k /\ KeyOrder[j] = l

(* A scan returns the first keys, in order, of those that have the prefix  *)
(* and are visible: all of them, or exactly as many as the limit says      *)
(* (read.go, ScanPrefix; options.go, ScanOptions).                         *)
ScanIsPrefix ==
  Answered("scan") /\ answer.ok =>
    LET all == {k \in call.prefix : Visible(call.state[k], call.at)}
        limit == IF call.limit = 0 THEN DefaultScanLimit ELSE call.limit
        entries == answer.entries
    IN /\ Range(entries) \subseteq all
       /\ \A i, j \in DOMAIN entries : i < j => Before(entries[i], entries[j])
       /\ \A k \in all \ Range(entries), i \in DOMAIN entries : Before(entries[i], k)
       /\ ~call.unlimited => Len(entries) <= limit
       /\ all # Range(entries) => ~call.unlimited /\ Len(entries) = limit
=============================================================================
