---------------------------- MODULE AtomicStore ----------------------------
(***************************************************************************)
(* What a node's Badger handle promises to those who use it, with no lock, *)
(* no directories and no steps of a swap: a database that is replaced as a *)
(* whole, while nobody uses it, or not at all.  A restore has one of the   *)
(* outcomes Replication gives it (Restored, RestoreFails, CrashInRestore). *)
(***************************************************************************)
EXTENDS Naturals

CONSTANTS
  User,       \* goroutines that use the database
  First,      \* the data a node starts with; later data have larger numbers
  EmptyData   \* a database without data

VARIABLES
  up,         \* Open has returned and the process runs
  closed,     \* Close has returned
  open,       \* there is a store
  content,    \* what the store holds, or the directory when there is none
  snap,       \* Raft's newest snapshot, 0 if none
  older,      \* the one it keeps beside it, 0 if none
  users       \* who is using the store

vars == <<up, closed, open, content, snap, older, users>>

Init ==
  /\ up = TRUE /\ closed = FALSE /\ open = TRUE
  /\ content = First /\ snap \in {0, First} /\ older = 0 /\ users = {}

(* withStore and Persist.                                                  *)
Use(p) ==
  /\ up /\ open /\ p \notin users
  /\ users' = users \cup {p}
  /\ UNCHANGED <<up, closed, open, content, snap, older>>

Done(p) ==
  /\ p \in users
  /\ users' = users \ {p}
  /\ UNCHANGED <<up, closed, open, content, snap, older>>

(* Raft stores a snapshot before it has it restored, and keeps two.        *)
Receive ==
  /\ up /\ ~closed
  /\ snap' \in Nat /\ snap' > First /\ snap' >= snap
  /\ older' = snap
  /\ UNCHANGED <<up, closed, open, content, users>>

Retained == {snap, older} \ {0}

(* What a restore of one of these snapshots leaves that does not finish:   *)
(* what was there, the new data, or none.                                  *)
Unfinished(from) ==
  users = {} /\ snap # 0 /\ content' \in {content, EmptyData} \cup from

Restored ==
  /\ up /\ ~closed /\ users = {} /\ snap # 0
  /\ content' = snap /\ open' = TRUE
  /\ UNCHANGED <<up, closed, snap, older, users>>

RestoreFails ==
  /\ up /\ ~closed
  /\ Unfinished({snap}) /\ open' \in BOOLEAN
  /\ UNCHANGED <<up, closed, snap, older, users>>

Close ==
  /\ up /\ ~closed /\ users = {}
  /\ closed' = TRUE /\ open' = FALSE
  /\ UNCHANGED <<up, content, snap, older, users>>

(* The process ends, in the middle of a restore or not.                    *)
Exit ==
  /\ up
  /\ up' = FALSE /\ closed' = FALSE /\ open' = FALSE /\ users' = {}
  /\ UNCHANGED content \/ Unfinished({snap})
  /\ UNCHANGED <<snap, older>>

(* An Open that fails, or whose process ends, has restored in part.        *)
OpenFails ==
  /\ ~up
  /\ Unfinished(Retained)
  /\ UNCHANGED <<up, closed, open, snap, older, users>>

(* Open restores the newest snapshot or, when that fails, the older one,   *)
(* whatever it finds.                                                      *)
Open ==
  /\ ~up
  /\ up' = TRUE /\ open' = TRUE
  /\ content' \in IF snap = 0 THEN {content} ELSE Retained
  /\ UNCHANGED <<closed, snap, older, users>>

Next ==
  \/ \E p \in User : Use(p) \/ Done(p)
  \/ Receive \/ Restored \/ RestoreFails \/ Close \/ Exit \/ OpenFails \/ Open

Spec == Init /\ [][Next]_vars
=============================================================================
