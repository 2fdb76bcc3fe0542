----------------------------- MODULE MapService -----------------------------
(***************************************************************************)
(* What the cluster promises its callers, whatever its nodes do: one map   *)
(* that every write changes at most once, between its call and its answer  *)
(* or, after an error that leaves it open, at any later moment; never      *)
(* after a refusal.  A linearizable read returns what some version of the  *)
(* map between its call and its answer holds, a local read what any past   *)
(* version holds.                                                          *)
(*                                                                         *)
(* hist is the sequence of versions, from[c] the oldest version a read may *)
(* return.  blind is the environment's: reads on a node whose database     *)
(* never received the last write of their key get a past value at best.    *)
(***************************************************************************)
EXTENDS Command

CONSTANTS Write, Read, KeyOf

VARIABLES now, hist, cmd, local, from, took, reply, got, blind

mapVars == <<now, hist, cmd, local, from, took, reply, got, blind>>

Caller == Write \cup Read

Refused == {"notLeader", "timeout"}

(* A key that has expired is one that is not found.                        *)
Shown(entry, t) == IF Visible(entry, t) THEN entry ELSE Absent

Init ==
  /\ now = 1
  /\ hist = <<EmptyState>>
  /\ cmd \in [Write -> Command]
  /\ local = {}
  /\ from = [c \in Read |-> 1]
  /\ took = {}
  /\ reply = [c \in Caller |-> "idle"]
  /\ got = [c \in Read |-> Absent]
  /\ blind = {}

(* A call may be refused or fail on the spot.                              *)
Invoke(c, r) ==
  /\ reply[c] = "idle"
  /\ reply' = [reply EXCEPT ![c] = r]
  /\ local' \in {local, local \cup ({c} \cap Read)}
  /\ from' = [d \in Read |-> IF d = c THEN Len(hist) ELSE from[d]]
  /\ cmd' \in [Write -> Command]
  /\ \A w \in Write \ {c} : cmd'[w] = cmd[w]
  /\ UNCHANGED <<now, hist, took, got>>

TakeEffect(c) ==
  /\ c \in Write \ took
  /\ reply[c] \in {"open", "error"}
  /\ took' = took \cup {c}
  /\ hist' = Append(hist, ApplyTxn(hist[Len(hist)], cmd[c]))
  /\ UNCHANGED <<now, cmd, local, from, reply, got>>

(* A write that is refused has not taken effect, nor will it.              *)
Refuse(c, r) ==
  /\ reply[c] = "open" /\ c \notin took
  /\ reply' = [reply EXCEPT ![c] = r]
  /\ UNCHANGED <<now, hist, cmd, local, from, took, got>>

(* Errors that say nothing of the outcome.  A step of a node may answer    *)
(* many callers.                                                           *)
Fail(C) ==
  /\ \A c \in C : reply[c] = "open"
  /\ reply' = [c \in Caller |-> IF c \in C THEN "error" ELSE reply[c]]
  /\ UNCHANGED <<now, hist, cmd, local, from, took, got>>

Acknowledge(C) ==
  /\ \A c \in C : c \in took /\ reply[c] = "open"
  /\ reply' = [c \in Caller |-> IF c \in C THEN "ok" ELSE reply[c]]
  /\ UNCHANGED <<now, hist, cmd, local, from, took, got>>

Return(c, i) ==
  /\ c \in Read /\ reply[c] = "open"
  /\ from[c] <= i \/ c \in blind \cup local
  /\ reply' = [reply EXCEPT ![c] = "ok"]
  /\ got' = [got EXCEPT ![c] = Shown(hist[i][KeyOf[c]], now)]
  /\ UNCHANGED <<now, hist, cmd, local, from, took>>

Tick ==
  /\ now' \in Nat /\ now' > now
  /\ UNCHANGED <<hist, cmd, local, from, took, reply, got>>

Next ==
  /\ \/ \E c \in Caller, r \in Refused \cup {"open", "error"} : Invoke(c, r)
     \/ \E c \in Caller : TakeEffect(c)
     \/ \E c \in Caller, r \in Refused : Refuse(c, r)
     \/ \E C \in SUBSET Caller : Fail(C) \/ Acknowledge(C)
     \/ \E c \in Read, i \in 1..Len(hist) : Return(c, i)
     \/ Tick
     \/ UNCHANGED <<now, hist, cmd, local, from, took, reply, got>>
  /\ blind' \in SUBSET Read

MapSpec == Init /\ [][Next]_mapVars
=============================================================================
