---------------------------- MODULE StoreHistory ----------------------------
(***************************************************************************)
(* NodeStore with a history variable, and the store it implements: while   *)
(* Restore holds storeMu the abstract store is the one it found, until the *)
(* restore returns.                                                        *)
(***************************************************************************)
EXTENDS NodeStore

VARIABLE before   \* the store Restore found when it got storeMu
hvars == <<vars, before>>

Swaps == pc[Fsm] \in SwapPc

(* A directory as an open finds it: without data unless it is complete.    *)
Data(c) == IF c < Empty THEN Empty ELSE c

Found == [open |-> store # Nil, content |-> Data(dir["live"])]
Nothing == [open |-> FALSE, content |-> Empty]

HInit == Init /\ before = Nothing

Remember ==
  before' = IF ~Swaps' THEN Nothing ELSE IF Swaps THEN before ELSE Found'

HNext == Next /\ Remember

HSpec == HInit /\ [][HNext]_hvars
HFairSpec == HSpec /\ Fairness

Current == IF Swaps THEN before ELSE Found

Atomic ==
  INSTANCE AtomicStore WITH
    User <- Proc, First <- FirstGen, EmptyData <- Empty,
    up <- node = "running",
    closed <- once = "done",
    open <- node = "running" /\ Current.open,
    content <- Current.content,
    snap <- snapshot, older <- older,
    users <- {p \in Proc : held[p] # Nil}

(* fsm.go, Restore: whatever fails and wherever a crash falls, those who   *)
(* use the store see it replaced as a whole, while nobody uses it, and a   *)
(* failed restore leaves the old data, the new data or none.  It is all    *)
(* Replication takes a restore for.                                        *)
ImplementsAtomicStore == Atomic!Spec
=============================================================================
