-------------------------- MODULE NodeStoreProofs --------------------------
(***************************************************************************)
(* Proofs about NodeStore: for any number of readers and closers, any      *)
(* number of snapshots and failing operations, either layout of the        *)
(* directories, and crashes anywhere.                                      *)
(***************************************************************************)
EXTENDS NodeStore, FiniteSetTheorems, TLAPS

(* Where Restore has closed the old instance, and where it has a new one   *)
(* that is not yet published.                                              *)
ClosedPc == SwapPc \ {"clean", "close"}
FreshPc == {"publish", "loadLive"}

(* Where a goroutine holds storeMu shared, and with it an instance.        *)
UsePc == {"using", "rlock2", "using2"}

Depth(l) == IF l = "using2" THEN 2 ELSE IF l \in UsePc THEN 1 ELSE 0

(* Which goroutine can be where.                                           *)
Places ==
  /\ pc[Fsm] \in {"idle", "rlock", "using", "exited", "failed"} \cup RestorePc
  /\ pc[Snap] \in {"idle", "rlock", "using", "exited"}
  /\ \A r \in Reader : pc[r] \in {"idle", "rlock", "using", "rlock2", "using2"}
  /\ \A c \in Closer : pc[c] \in {"idle", "shutdown", "await", "lock", "once", "returned"}

(* The program counters determine storeMu, and it excludes.                *)
Mutex ==
  /\ writer = IF pc[Fsm] \in SwapPc THEN Fsm ELSE None
  /\ \A p \in Proc : p \in waiting <=> pc[p] = "lock"
  /\ \A p \in Proc : rlocks[p] = Depth(pc[p])
  /\ pc[Fsm] \in SwapPc => \A p \in Proc : pc[p] \notin UsePc

(* Whoever uses an instance uses the store, and the instances that are     *)
(* open are the store and the one Restore is about to publish.             *)
Handles ==
  /\ \A p \in Proc : held[p] = IF pc[p] \in UsePc THEN store ELSE Nil
  /\ \A p \in Proc : pc[p] \in UsePc => store # Nil
  /\ open = {store, fresh} \ {Nil}
  /\ fresh # Nil <=> pc[Fsm] \in FreshPc
  /\ pc[Fsm] \in ClosedPc => store = Nil

(* One closer at most is past closeOnce; it has Raft's goroutines ended    *)
(* before it asks for storeMu, and they stay ended.                        *)
Closing ==
  /\ \A c \in Closer : pc[c] \in {"shutdown", "await", "lock"} => once = c
  /\ \A c \in Closer : pc[c] = "lock" => pc[Fsm] = "exited" /\ pc[Snap] = "exited"
  /\ once = "done" => store = Nil /\ pc[Fsm] = "exited" /\ pc[Snap] = "exited"

(* Before Open has returned nobody but Restore runs.                       *)
Phases ==
  /\ node # "running" =>
       /\ \A p \in Proc \ {Fsm} : pc[p] = "idle"
       /\ once = None /\ ~stopping
  /\ node = "down" => pc[Fsm] = "idle" /\ store = Nil
  /\ node = "booting" => pc[Fsm] \in RestorePc \cup {"failed"}
  /\ pc[Fsm] = "failed" => node = "booting"

(* Raft's newest snapshot is at least as new as anything published and as  *)
(* the one kept beside it, which only Open restores; Restore only runs     *)
(* where there is a snapshot.                                              *)
Snapshots ==
  /\ published >= FirstGen
  /\ snapshot = 0 => published = FirstGen /\ dir["live"] = FirstGen
  /\ snapshot # 0 => snapshot >= FirstGen /\ snapshot >= published
  /\ older # 0 => older >= FirstGen
  /\ older <= snapshot
  /\ second => node = "booting" /\ older # 0
  /\ pc[Fsm] \in RestorePc \cup {"failed"} => snapshot # 0

(* The staged database is the Source once it is loaded, up to the rename   *)
(* that makes it the live one: nothing half loaded gets there.             *)
Staged ==
  ~inPlace =>
    /\ dir["live"] # Partial /\ dir["backup"] # Partial
    /\ pc[Fsm] \notin {"wipe", "openEmpty", "loadLive"}
    /\ pc[Fsm] \in {"lock", "clean", "close", "aside", "place"} => dir["staging"] = Source
    /\ pc[Fsm] \in {"open", "publish", "drop"} => dir["live"] = Source

InPlace ==
  inPlace =>
    pc[Fsm] \notin {"stage", "load", "clean"} \cup (ClosedPc \ {"wipe", "openEmpty", "loadLive"})

(* A directory that may be served, now or after badger.Open: nothing older *)
(* than what was published, and no data only after two failures, in an     *)
(* earlier restore or in this one.                                         *)
Servable(c) ==
  \/ c >= published
  \/ c \in {Missing, Torn, Empty} /\ lost

Salvaged(c) == Servable(c) \/ (c \in {Missing, Torn} /\ faults >= 2)

(* What a running node has on disk while it swaps the directories: what    *)
(* the live directory held before is in it, or in the backup.              *)
Swapping ==
  node = "running" /\ ~inPlace =>
    /\ pc[Fsm] \notin ClosedPc \ {"aside"} => Servable(dir["live"])
    /\ pc[Fsm] = "reopen" => Salvaged(dir["live"])
    /\ pc[Fsm] \in {"place", "open", "drop", "rollback"} =>
         Servable(dir["backup"]) /\ dir["backup"] # Missing
    /\ pc[Fsm] = "place" => dir["live"] = Missing
    /\ pc[Fsm] = "drop" => faults >= 1
    /\ pc[Fsm] = "rollback" =>
         /\ faults >= 1
         /\ dir["live"] # Missing => faults >= 2 /\ dir["live"] \in {Torn, snapshot}

(* What an open store finds on disk.                                       *)
Serving ==
  store # Nil => IF inPlace
                 THEN node = "running" => dir["live"] >= published
                 ELSE dir["live"] >= Empty

Control == Places /\ Mutex /\ Handles /\ Closing /\ Phases
Disk == Snapshots /\ Staged /\ InPlace /\ Swapping /\ Serving

NodeInv == TypeOK /\ Control /\ Disk

-----------------------------------------------------------------------------
(* The operators the steps are made of.                                    *)

(* Raft's goroutines and nobody are no reader and no closer.               *)
LEMMA Procs ==
  /\ Fsm \in Proc /\ Snap \in Proc /\ Fsm # Snap /\ None \notin Proc /\ "done" \notin Closer
  /\ Fsm \notin Reader /\ Fsm \notin Closer /\ Snap \notin Reader /\ Snap \notin Closer
  /\ Reader \subseteq Proc /\ Closer \subseteq Proc /\ User \subseteq Proc
  /\ \A r \in Reader : r \notin Closer
  /\ None \notin Closer
BY NodeStoreAssumption DEF Proc, User, Fsm, Snap, None

LEMMA HandleSet == Cardinality(Proc) \in Nat /\ 1 \in Handle /\ Nil \notin Handle
<1>1. IsFiniteSet({Fsm, Snap})
  <2>1. IsFiniteSet({Fsm}) /\ IsFiniteSet({Snap})
    BY FS_Singleton
  <2>2. {Fsm, Snap} = {Fsm} \cup {Snap}
    OBVIOUS
  <2>3. QED
    BY <2>1, <2>2, FS_Union
<1>2. IsFiniteSet(Reader \cup Closer)
  BY NodeStoreAssumption, FS_Union
<1>3. IsFiniteSet(Proc)
  BY <1>1, <1>2, FS_Union DEF Proc
<1>4. Cardinality(Proc) \in Nat
  BY <1>3, FS_CardinalityType
<1>5. QED
  BY <1>4 DEF Handle, Nil

(* Opening an instance where nobody has one gives a handle of its own.     *)
LEMMA NewHandleFresh ==
  ASSUME open = {}, \A p \in Proc : held[p] = Nil
  PROVE  NewHandle \in Handle /\ NewHandle # Nil
<1>1. \E h \in Handle : h \notin open /\ \A p \in Proc : held[p] # h
  BY HandleSet
<1>2. NewHandle \in Handle
  BY <1>1 DEF NewHandle
<1>3. QED
  BY <1>2, HandleSet

(* The files: what an operation on them leaves, and what it costs.         *)
DirName == {"live", "staging", "backup"}
Files == dir \in [DirName -> 0..FirstGen + MaxGen] /\ faults \in 0..MaxFaults

LEMMA FilesTyped == ASSUME NodeInv PROVE Files
BY DEF NodeInv, TypeOK, Files, DirName

LEMMA RemoveAllDoes ==
  ASSUME Files, NEW d \in DirName, RemoveAll(d)
  PROVE  /\ Files'
         /\ \A e \in DirName \ {d} : dir'[e] = dir[e]
         /\ \/ faults' = faults /\ dir'[d] = Missing
            \/ faults' = faults + 1 /\ dir'[d] \in {dir[d], Torn} /\ dir'[d] # Missing
BY NodeStoreAssumption DEF Files, RemoveAll, Works, Fails, Missing, Torn, FirstGen

LEMMA RenamedDoes ==
  ASSUME Files, NEW from \in DirName, NEW to \in DirName, from # to, Renamed(from, to)
  PROVE  /\ Files' /\ faults' = faults
         /\ dir[to] = Missing /\ dir[from] # Missing
         /\ dir'[to] = dir[from] /\ dir'[from] = Missing
         /\ \A e \in DirName \ {from, to} : dir'[e] = dir[e]
BY NodeStoreAssumption DEF Files, Renamed, Works, Missing, FirstGen

LEMMA NotRenamedDoes ==
  ASSUME Files, NEW from \in DirName, NEW to \in DirName, NotRenamed(from, to)
  PROVE  /\ Files' /\ dir' = dir
         /\ faults' \in {faults, faults + 1}
         /\ dir[to] = Missing /\ dir[from] # Missing => faults' = faults + 1
BY NodeStoreAssumption DEF Files, NotRenamed, Works, Fails

LEMMA OpenedDoes ==
  ASSUME Files, Opened
  PROVE  /\ Files' /\ faults' = faults
         /\ dir'["live"] = IF dir["live"] \in {Missing, Torn} THEN Empty ELSE dir["live"]
         /\ \A e \in DirName \ {"live"} : dir'[e] = dir[e]
         /\ open' = open \cup {NewHandle}
BY NodeStoreAssumption DEF Files, Opened, Works, DirName, Empty, FirstGen

LEMMA NotOpenedDoes ==
  ASSUME Files, NotOpened
  PROVE  /\ Files' /\ dir' = dir /\ open' = open
         /\ faults' \in {faults, faults + 1}
         /\ dir["live"] # Torn => faults' = faults + 1
BY NodeStoreAssumption DEF Files, NotOpened, Works, Fails

LEMMA FailsDoes == ASSUME Files, Fails PROVE faults' = faults + 1 /\ faults' \in 0..MaxFaults
BY NodeStoreAssumption DEF Files, Fails

(* What the disk part of the invariant says depends on the Raft goroutine  *)
(* and on the files alone.                                                 *)
CalmPc == {"idle", "rlock", "using", "exited"}

LEMMA DiskKept ==
  ASSUME Disk, UNCHANGED <<dir, snapshot, older, second, lost, published, faults, node, inPlace>>,
         store' \in {store, Nil},
         pc'[Fsm] = pc[Fsm] \/ (pc[Fsm] \in CalmPc /\ pc'[Fsm] \in CalmPc)
  PROVE  Disk'
<1>1. Snapshots'
  BY DEF Disk, Snapshots, CalmPc, RestorePc
<1>2. Staged' /\ InPlace'
  BY DEF Disk, Staged, Source, InPlace, CalmPc, ClosedPc, SwapPc
<1>3. Swapping'
  <2>1. \A c : (Servable(c) <=> Servable(c)') /\ (Salvaged(c) <=> Salvaged(c)')
    BY DEF Servable, Salvaged
  <2>2. CASE pc'[Fsm] = pc[Fsm]
    BY <2>1, <2>2 DEF Disk, Swapping
  <2>3. CASE pc[Fsm] \in CalmPc /\ pc'[Fsm] \in CalmPc
    BY <2>1, <2>3 DEF Disk, Swapping, CalmPc, ClosedPc, SwapPc
  <2>4. QED
    BY <2>2, <2>3
<1>4. Serving'
  BY DEF Disk, Serving
<1>5. QED
  BY <1>1, <1>2, <1>3, <1>4 DEF Disk

(* A reader or a goroutine of Raft takes storeMu shared and gives it back. *)
LEMMA BeginKeeps == ASSUME NodeInv, NEW p \in User, Begin(p) PROVE NodeInv'
<1> USE Procs
<1>1. /\ node = "running" /\ pc[p] = "idle"
      /\ pc' = [pc EXCEPT ![p] = "rlock"]
      /\ UNCHANGED <<node, closed, once, stopping, store, open, fresh, dir, snapshot, older, second, lost,
                     writer, waiting, rlocks, held, published, inPlace, faults>>
  BY DEF Begin, Goto, life, snaps, lock
<1>2. pc \in [Proc -> Label] /\ rlocks \in [Proc -> 0..2] /\ held \in [Proc -> Handle \cup {Nil}]
  BY DEF NodeInv, TypeOK
<1>3. TypeOK'
  BY <1>1, <1>2 DEF NodeInv, TypeOK, Label, RestorePc
<1>4. Places'
  BY <1>1, <1>2 DEF NodeInv, Control, Places, User
<1>5. Mutex'
  BY <1>1, <1>2 DEF NodeInv, Control, Mutex, Depth, UsePc, SwapPc
<1>6. Handles'
  BY <1>1, <1>2 DEF NodeInv, Control, Handles, UsePc, SwapPc, FreshPc, ClosedPc
<1>7. Closing'
  BY <1>1, <1>2 DEF NodeInv, Control, Closing, User
<1>8. Phases'
  BY <1>1, <1>2 DEF NodeInv, Control, Phases, User, RestorePc
<1>9. Disk'
  BY <1>1, <1>2, DiskKept DEF NodeInv, CalmPc
<1>10. QED
  BY <1>3, <1>4, <1>5, <1>6, <1>7, <1>8, <1>9 DEF NodeInv, Control

LEMMA EnterNothing == ASSUME NodeInv, NEW p \in User, Enter(p), store = Nil PROVE NodeInv'
<1> USE Procs
<1>1. /\ pc[p] = "rlock"
      /\ pc' = [pc EXCEPT ![p] = "idle"]
      /\ UNCHANGED <<node, closed, once, stopping, store, open, fresh, dir, snapshot, older, second, lost,
                     writer, waiting, rlocks, held, published, inPlace, faults>>
  BY DEF Enter, Goto, life, snaps, lock
<1>2. pc \in [Proc -> Label] /\ rlocks \in [Proc -> 0..2] /\ held \in [Proc -> Handle \cup {Nil}]
  BY DEF NodeInv, TypeOK
<1>3. TypeOK'
  BY <1>1, <1>2 DEF NodeInv, TypeOK, Label, RestorePc
<1>4. Places'
  BY <1>1, <1>2 DEF NodeInv, Control, Places, User
<1>5. Mutex'
  BY <1>1, <1>2 DEF NodeInv, Control, Mutex, Depth, UsePc, SwapPc
<1>6. Handles'
  BY <1>1, <1>2 DEF NodeInv, Control, Handles, UsePc, SwapPc, FreshPc, ClosedPc
<1>7. Closing'
  BY <1>1, <1>2 DEF NodeInv, Control, Closing, User
<1>8. Phases'
  BY <1>1, <1>2 DEF NodeInv, Control, Phases, User, RestorePc
<1>9. Disk'
  BY <1>1, <1>2, DiskKept DEF NodeInv, CalmPc
<1>10. QED
  BY <1>3, <1>4, <1>5, <1>6, <1>7, <1>8, <1>9 DEF NodeInv, Control

LEMMA EnterStore == ASSUME NodeInv, NEW p \in User, Enter(p), store # Nil PROVE NodeInv'
<1> USE Procs
<1>1. /\ pc[p] = "rlock" /\ writer = None
      /\ pc' = [pc EXCEPT ![p] = "using"]
      /\ rlocks' = [rlocks EXCEPT ![p] = 1]
      /\ held' = [held EXCEPT ![p] = store]
      /\ UNCHANGED <<node, closed, once, stopping, store, open, fresh, dir, snapshot, older, second, lost,
                     writer, waiting, published, inPlace, faults>>
  BY DEF Enter, RLockFree, Goto, life, snaps, lock
<1>2. pc \in [Proc -> Label] /\ rlocks \in [Proc -> 0..2] /\ held \in [Proc -> Handle \cup {Nil}]
  BY DEF NodeInv, TypeOK
<1>3. TypeOK'
  BY <1>1, <1>2 DEF NodeInv, TypeOK, Label, RestorePc
<1>4. Places'
  BY <1>1, <1>2 DEF NodeInv, Control, Places, User
<1>5. Mutex'
  BY <1>1, <1>2 DEF NodeInv, Control, Mutex, Depth, UsePc, SwapPc
<1>6. Handles'
  BY <1>1, <1>2 DEF NodeInv, Control, Handles, UsePc, SwapPc, FreshPc, ClosedPc
<1>7. Closing'
  BY <1>1, <1>2 DEF NodeInv, Control, Closing, User
<1>8. Phases'
  BY <1>1, <1>2 DEF NodeInv, Control, Phases, User, RestorePc
<1>9. Disk'
  BY <1>1, <1>2, DiskKept DEF NodeInv, CalmPc
<1>10. QED
  BY <1>3, <1>4, <1>5, <1>6, <1>7, <1>8, <1>9 DEF NodeInv, Control

LEMMA LeaveKeeps == ASSUME NodeInv, NEW p \in User, Leave(p) PROVE NodeInv'
<1> USE Procs
<1>1. /\ pc[p] = "using"
      /\ pc' = [pc EXCEPT ![p] = "idle"]
      /\ rlocks' = [rlocks EXCEPT ![p] = @ - 1]
      /\ held' = [held EXCEPT ![p] = Nil]
      /\ UNCHANGED <<node, closed, once, stopping, store, open, fresh, dir, snapshot, older, second, lost,
                     writer, waiting, published, inPlace, faults>>
  BY DEF Leave, RUnlock, Goto, life, snaps, lock
<1>2. pc \in [Proc -> Label] /\ rlocks \in [Proc -> 0..2] /\ held \in [Proc -> Handle \cup {Nil}]
  BY DEF NodeInv, TypeOK
<1>a. rlocks[p] = 1
  BY <1>1 DEF NodeInv, Control, Mutex, Depth, UsePc
<1>3. TypeOK'
  BY <1>1, <1>2, <1>a DEF NodeInv, TypeOK, Label, RestorePc
<1>4. Places'
  BY <1>1, <1>2, <1>a DEF NodeInv, Control, Places, User
<1>5. Mutex'
  BY <1>1, <1>2, <1>a DEF NodeInv, Control, Mutex, Depth, UsePc, SwapPc
<1>6. Handles'
  BY <1>1, <1>2, <1>a DEF NodeInv, Control, Handles, UsePc, SwapPc, FreshPc, ClosedPc
<1>7. Closing'
  BY <1>1, <1>2, <1>a DEF NodeInv, Control, Closing, User
<1>8. Phases'
  BY <1>1, <1>2, <1>a DEF NodeInv, Control, Phases, User, RestorePc
<1>9. Disk'
  BY <1>1, <1>2, <1>a, DiskKept DEF NodeInv, CalmPc
<1>10. QED
  BY <1>3, <1>4, <1>5, <1>6, <1>7, <1>8, <1>9 DEF NodeInv, Control

LEMMA BeginNestedKeeps == ASSUME NodeInv, NEW p \in User, BeginNested(p) PROVE NodeInv'
<1> USE Procs
<1>1. /\ p \in Reader
      /\ pc[p] = "using"
      /\ pc' = [pc EXCEPT ![p] = "rlock2"]
      /\ UNCHANGED <<node, closed, once, stopping, store, open, fresh, dir, snapshot, older, second, lost,
                     writer, waiting, rlocks, held, published, inPlace, faults>>
  BY DEF BeginNested, Goto, life, snaps, lock
<1>2. pc \in [Proc -> Label] /\ rlocks \in [Proc -> 0..2] /\ held \in [Proc -> Handle \cup {Nil}]
  BY DEF NodeInv, TypeOK
<1>3. TypeOK'
  BY <1>1, <1>2 DEF NodeInv, TypeOK, Label, RestorePc
<1>4. Places'
  BY <1>1, <1>2 DEF NodeInv, Control, Places, User
<1>5. Mutex'
  BY <1>1, <1>2 DEF NodeInv, Control, Mutex, Depth, UsePc, SwapPc
<1>6. Handles'
  BY <1>1, <1>2 DEF NodeInv, Control, Handles, UsePc, SwapPc, FreshPc, ClosedPc
<1>7. Closing'
  BY <1>1, <1>2 DEF NodeInv, Control, Closing, User
<1>8. Phases'
  BY <1>1, <1>2 DEF NodeInv, Control, Phases, User, RestorePc
<1>9. Disk'
  BY <1>1, <1>2, DiskKept DEF NodeInv, CalmPc
<1>10. QED
  BY <1>3, <1>4, <1>5, <1>6, <1>7, <1>8, <1>9 DEF NodeInv, Control

LEMMA EnterNestedKeeps == ASSUME NodeInv, NEW p \in User, EnterNested(p) PROVE NodeInv'
<1> USE Procs
<1>1. /\ pc[p] = "rlock2" /\ writer = None
      /\ pc' = [pc EXCEPT ![p] = "using2"]
      /\ rlocks' = [rlocks EXCEPT ![p] = @ + 1]
      /\ UNCHANGED <<node, closed, once, stopping, store, open, fresh, dir, snapshot, older, second, lost,
                     writer, waiting, held, published, inPlace, faults>>
  BY DEF EnterNested, RLock, RLockFree, Goto, life, snaps, lock
<1>2. pc \in [Proc -> Label] /\ rlocks \in [Proc -> 0..2] /\ held \in [Proc -> Handle \cup {Nil}]
  BY DEF NodeInv, TypeOK
<1>a. p \in Reader /\ rlocks[p] = 1
  <2>1. pc[Fsm] # "rlock2" /\ pc[Snap] # "rlock2"
    BY DEF NodeInv, Control, Places, RestorePc
  <2>2. QED
    BY <1>1, <2>1 DEF NodeInv, Control, Mutex, Depth, UsePc, User
<1>3. TypeOK'
  BY <1>1, <1>2, <1>a DEF NodeInv, TypeOK, Label, RestorePc
<1>4. Places'
  BY <1>1, <1>2, <1>a DEF NodeInv, Control, Places, User
<1>5. Mutex'
  BY <1>1, <1>2, <1>a DEF NodeInv, Control, Mutex, Depth, UsePc, SwapPc
<1>6. Handles'
  BY <1>1, <1>2, <1>a DEF NodeInv, Control, Handles, UsePc, SwapPc, FreshPc, ClosedPc
<1>7. Closing'
  BY <1>1, <1>2, <1>a DEF NodeInv, Control, Closing, User
<1>8. Phases'
  BY <1>1, <1>2, <1>a DEF NodeInv, Control, Phases, User, RestorePc
<1>9. Disk'
  BY <1>1, <1>2, <1>a, DiskKept DEF NodeInv, CalmPc
<1>10. QED
  BY <1>3, <1>4, <1>5, <1>6, <1>7, <1>8, <1>9 DEF NodeInv, Control

LEMMA LeaveNestedKeeps == ASSUME NodeInv, NEW p \in User, LeaveNested(p) PROVE NodeInv'
<1> USE Procs
<1>1. /\ pc[p] = "using2"
      /\ pc' = [pc EXCEPT ![p] = "using"]
      /\ rlocks' = [rlocks EXCEPT ![p] = @ - 1]
      /\ UNCHANGED <<node, closed, once, stopping, store, open, fresh, dir, snapshot, older, second, lost,
                     writer, waiting, held, published, inPlace, faults>>
  BY DEF LeaveNested, RUnlock, Goto, life, snaps, lock
<1>2. pc \in [Proc -> Label] /\ rlocks \in [Proc -> 0..2] /\ held \in [Proc -> Handle \cup {Nil}]
  BY DEF NodeInv, TypeOK
<1>a. p \in Reader /\ rlocks[p] = 2
  <2>1. pc[Fsm] # "using2" /\ pc[Snap] # "using2"
    BY DEF NodeInv, Control, Places, RestorePc
  <2>2. QED
    BY <1>1, <2>1 DEF NodeInv, Control, Mutex, Depth, UsePc, User
<1>3. TypeOK'
  BY <1>1, <1>2, <1>a DEF NodeInv, TypeOK, Label, RestorePc
<1>4. Places'
  BY <1>1, <1>2, <1>a DEF NodeInv, Control, Places, User
<1>5. Mutex'
  BY <1>1, <1>2, <1>a DEF NodeInv, Control, Mutex, Depth, UsePc, SwapPc
<1>6. Handles'
  BY <1>1, <1>2, <1>a DEF NodeInv, Control, Handles, UsePc, SwapPc, FreshPc, ClosedPc
<1>7. Closing'
  BY <1>1, <1>2, <1>a DEF NodeInv, Control, Closing, User
<1>8. Phases'
  BY <1>1, <1>2, <1>a DEF NodeInv, Control, Phases, User, RestorePc
<1>9. Disk'
  BY <1>1, <1>2, <1>a, DiskKept DEF NodeInv, CalmPc
<1>10. QED
  BY <1>3, <1>4, <1>5, <1>6, <1>7, <1>8, <1>9 DEF NodeInv, Control

LEMMA RaftExitKeeps == ASSUME NodeInv, NEW p \in User, RaftExit(p) PROVE NodeInv'
<1> USE Procs
<1>1. /\ p \in {Fsm, Snap} /\ stopping /\ pc[p] = "idle"
      /\ pc' = [pc EXCEPT ![p] = "exited"]
      /\ UNCHANGED <<node, closed, once, stopping, store, open, fresh, dir, snapshot, older, second, lost,
                     writer, waiting, rlocks, held, published, inPlace, faults>>
  BY DEF RaftExit, Goto, life, snaps, lock
<1>2. pc \in [Proc -> Label] /\ rlocks \in [Proc -> 0..2] /\ held \in [Proc -> Handle \cup {Nil}]
  BY DEF NodeInv, TypeOK
<1>3. TypeOK'
  BY <1>1, <1>2 DEF NodeInv, TypeOK, Label, RestorePc
<1>4. Places'
  BY <1>1, <1>2 DEF NodeInv, Control, Places, User
<1>5. Mutex'
  BY <1>1, <1>2 DEF NodeInv, Control, Mutex, Depth, UsePc, SwapPc
<1>6. Handles'
  BY <1>1, <1>2 DEF NodeInv, Control, Handles, UsePc, SwapPc, FreshPc, ClosedPc
<1>7. Closing'
  BY <1>1, <1>2 DEF NodeInv, Control, Closing, User
<1>8. Phases'
  BY <1>1, <1>2 DEF NodeInv, Control, Phases, User, RestorePc
<1>9. Disk'
  BY <1>1, <1>2, DiskKept DEF NodeInv, CalmPc
<1>10. QED
  BY <1>3, <1>4, <1>5, <1>6, <1>7, <1>8, <1>9 DEF NodeInv, Control

(* Close.                                                                  *)
LEMMA CloseFirst == ASSUME NodeInv, NEW c \in Closer, CloseCall(c), once = None PROVE NodeInv'
<1> USE Procs
<1>1. /\ node = "running" /\ pc[c] = "idle"
      /\ pc' = [pc EXCEPT ![c] = "shutdown"]
      /\ once' = c
      /\ closed' = TRUE
      /\ UNCHANGED <<node, stopping, store, open, fresh, dir, snapshot, older, second, lost, writer,
                     waiting, rlocks, held, published, inPlace, faults>>
  BY DEF CloseCall, Goto, life, snaps, lock
<1>2. pc \in [Proc -> Label] /\ rlocks \in [Proc -> 0..2] /\ held \in [Proc -> Handle \cup {Nil}]
  BY DEF NodeInv, TypeOK
<1>3. TypeOK'
  BY <1>1, <1>2 DEF NodeInv, TypeOK, Label, RestorePc
<1>4. Places'
  BY <1>1, <1>2 DEF NodeInv, Control, Places, User
<1>5. Mutex'
  BY <1>1, <1>2 DEF NodeInv, Control, Mutex, Depth, UsePc, SwapPc
<1>6. Handles'
  BY <1>1, <1>2 DEF NodeInv, Control, Handles, UsePc, SwapPc, FreshPc, ClosedPc
<1>7. Closing'
  BY <1>1, <1>2 DEF NodeInv, Control, Closing, User
<1>8. Phases'
  BY <1>1, <1>2 DEF NodeInv, Control, Phases, User, RestorePc
<1>9. Disk'
  BY <1>1, <1>2, DiskKept DEF NodeInv, CalmPc
<1>10. QED
  BY <1>3, <1>4, <1>5, <1>6, <1>7, <1>8, <1>9 DEF NodeInv, Control

LEMMA CloseAgain == ASSUME NodeInv, NEW c \in Closer, CloseCall(c), once # None PROVE NodeInv'
<1> USE Procs
<1>1. /\ node = "running" /\ pc[c] = "idle"
      /\ pc' = [pc EXCEPT ![c] = "once"]
      /\ UNCHANGED <<node, closed, once, stopping, store, open, fresh, dir, snapshot, older, second, lost,
                     writer, waiting, rlocks, held, published, inPlace, faults>>
  BY DEF CloseCall, Goto, life, snaps, lock
<1>2. pc \in [Proc -> Label] /\ rlocks \in [Proc -> 0..2] /\ held \in [Proc -> Handle \cup {Nil}]
  BY DEF NodeInv, TypeOK
<1>3. TypeOK'
  BY <1>1, <1>2 DEF NodeInv, TypeOK, Label, RestorePc
<1>4. Places'
  BY <1>1, <1>2 DEF NodeInv, Control, Places, User
<1>5. Mutex'
  BY <1>1, <1>2 DEF NodeInv, Control, Mutex, Depth, UsePc, SwapPc
<1>6. Handles'
  BY <1>1, <1>2 DEF NodeInv, Control, Handles, UsePc, SwapPc, FreshPc, ClosedPc
<1>7. Closing'
  BY <1>1, <1>2 DEF NodeInv, Control, Closing, User
<1>8. Phases'
  BY <1>1, <1>2 DEF NodeInv, Control, Phases, User, RestorePc
<1>9. Disk'
  BY <1>1, <1>2, DiskKept DEF NodeInv, CalmPc
<1>10. QED
  BY <1>3, <1>4, <1>5, <1>6, <1>7, <1>8, <1>9 DEF NodeInv, Control

LEMMA CloseShutdownKeeps == ASSUME NodeInv, NEW c \in Closer, CloseShutdown(c) PROVE NodeInv'
<1> USE Procs
<1>1. /\ pc[c] = "shutdown"
      /\ pc' = [pc EXCEPT ![c] = "await"]
      /\ stopping' = TRUE
      /\ UNCHANGED <<node, closed, once, store, open, fresh, dir, snapshot, older, second, lost, writer,
                     waiting, rlocks, held, published, inPlace, faults>>
  BY DEF CloseShutdown, Goto, life, snaps, lock
<1>2. pc \in [Proc -> Label] /\ rlocks \in [Proc -> 0..2] /\ held \in [Proc -> Handle \cup {Nil}]
  BY DEF NodeInv, TypeOK
<1>3. TypeOK'
  BY <1>1, <1>2 DEF NodeInv, TypeOK, Label, RestorePc
<1>4. Places'
  BY <1>1, <1>2 DEF NodeInv, Control, Places, User
<1>5. Mutex'
  BY <1>1, <1>2 DEF NodeInv, Control, Mutex, Depth, UsePc, SwapPc
<1>6. Handles'
  BY <1>1, <1>2 DEF NodeInv, Control, Handles, UsePc, SwapPc, FreshPc, ClosedPc
<1>7. Closing'
  BY <1>1, <1>2 DEF NodeInv, Control, Closing, User
<1>8. Phases'
  BY <1>1, <1>2 DEF NodeInv, Control, Phases, User, RestorePc
<1>9. Disk'
  BY <1>1, <1>2, DiskKept DEF NodeInv, CalmPc
<1>10. QED
  BY <1>3, <1>4, <1>5, <1>6, <1>7, <1>8, <1>9 DEF NodeInv, Control

LEMMA CloseAwaitKeeps == ASSUME NodeInv, NEW c \in Closer, CloseAwait(c) PROVE NodeInv'
<1> USE Procs
<1>1. /\ pc[c] = "await" /\ pc[Fsm] = "exited" /\ pc[Snap] = "exited"
      /\ pc' = [pc EXCEPT ![c] = "lock"]
      /\ waiting' = waiting \cup {c}
      /\ UNCHANGED <<node, closed, once, stopping, store, open, fresh, dir, snapshot, older, second, lost,
                     writer, rlocks, held, published, inPlace, faults>>
  BY DEF CloseAwait, AskLock, Goto, life, snaps, lock
<1>2. pc \in [Proc -> Label] /\ rlocks \in [Proc -> 0..2] /\ held \in [Proc -> Handle \cup {Nil}]
  BY DEF NodeInv, TypeOK
<1>3. TypeOK'
  <2>1. (waiting \subseteq {Fsm} \cup Closer)'
    BY <1>1 DEF NodeInv, TypeOK
  <2>2. QED
    BY <1>1, <1>2, <2>1 DEF NodeInv, TypeOK, Label, RestorePc
<1>4. Places'
  BY <1>1, <1>2 DEF NodeInv, Control, Places, User
<1>5. Mutex'
  BY <1>1, <1>2 DEF NodeInv, Control, Mutex, Depth, UsePc, SwapPc
<1>6. Handles'
  BY <1>1, <1>2 DEF NodeInv, Control, Handles, UsePc, SwapPc, FreshPc, ClosedPc
<1>7. Closing'
  BY <1>1, <1>2 DEF NodeInv, Control, Closing, User
<1>8. Phases'
  BY <1>1, <1>2 DEF NodeInv, Control, Phases, User, RestorePc
<1>9. Disk'
  BY <1>1, <1>2, DiskKept DEF NodeInv, CalmPc
<1>10. QED
  BY <1>3, <1>4, <1>5, <1>6, <1>7, <1>8, <1>9 DEF NodeInv, Control

LEMMA CloseStoreKeeps == ASSUME NodeInv, NEW c \in Closer, CloseStore(c) PROVE NodeInv'
<1> USE Procs
<1>1. /\ pc[c] = "lock" /\ \A q \in Proc : rlocks[q] = 0
      /\ pc' = [pc EXCEPT ![c] = "returned"]
      /\ waiting' = waiting \ {c}
      /\ store' = Nil
      /\ open' = open \ {store}
      /\ once' = "done"
      /\ UNCHANGED <<node, closed, stopping, fresh, dir, snapshot, older, second, lost, writer, rlocks,
                     held, published, inPlace, faults>>
  BY DEF CloseStore, LockFree, Goto, life, snaps, lock
<1>2. pc \in [Proc -> Label] /\ rlocks \in [Proc -> 0..2] /\ held \in [Proc -> Handle \cup {Nil}]
  BY DEF NodeInv, TypeOK
<1>a. /\ pc[Fsm] = "exited" /\ fresh = Nil
      /\ \A q \in Proc : pc[q] \notin UsePc
  <2>1. pc[Fsm] = "exited"
    BY <1>1 DEF NodeInv, Control, Closing
  <2>2. QED
    BY <1>1, <2>1 DEF NodeInv, Control, Mutex, Handles, Depth, UsePc, FreshPc
<1>3. TypeOK'
  BY <1>1, <1>2, <1>a DEF NodeInv, TypeOK, Label, RestorePc
<1>4. Places'
  BY <1>1, <1>2, <1>a DEF NodeInv, Control, Places, User
<1>5. Mutex'
  BY <1>1, <1>2, <1>a DEF NodeInv, Control, Mutex, Depth, UsePc, SwapPc
<1>6. Handles'
  BY <1>1, <1>2, <1>a DEF NodeInv, Control, Handles, UsePc, SwapPc, FreshPc, ClosedPc
<1>7. Closing'
  BY <1>1, <1>2, <1>a DEF NodeInv, Control, Closing, User
<1>8. Phases'
  BY <1>1, <1>2, <1>a DEF NodeInv, Control, Phases, User, RestorePc
<1>9. Disk'
  BY <1>1, <1>2, <1>a, DiskKept DEF NodeInv, CalmPc
<1>10. QED
  BY <1>3, <1>4, <1>5, <1>6, <1>7, <1>8, <1>9 DEF NodeInv, Control

LEMMA CloseOtherKeeps == ASSUME NodeInv, NEW c \in Closer, CloseOther(c) PROVE NodeInv'
<1> USE Procs
<1>1. /\ pc[c] = "once"
      /\ pc' = [pc EXCEPT ![c] = "returned"]
      /\ UNCHANGED <<node, closed, once, stopping, store, open, fresh, dir, snapshot, older, second, lost,
                     writer, waiting, rlocks, held, published, inPlace, faults>>
  BY DEF CloseOther, Goto, life, snaps, lock
<1>2. pc \in [Proc -> Label] /\ rlocks \in [Proc -> 0..2] /\ held \in [Proc -> Handle \cup {Nil}]
  BY DEF NodeInv, TypeOK
<1>3. TypeOK'
  BY <1>1, <1>2 DEF NodeInv, TypeOK, Label, RestorePc
<1>4. Places'
  BY <1>1, <1>2 DEF NodeInv, Control, Places, User
<1>5. Mutex'
  BY <1>1, <1>2 DEF NodeInv, Control, Mutex, Depth, UsePc, SwapPc
<1>6. Handles'
  BY <1>1, <1>2 DEF NodeInv, Control, Handles, UsePc, SwapPc, FreshPc, ClosedPc
<1>7. Closing'
  BY <1>1, <1>2 DEF NodeInv, Control, Closing, User
<1>8. Phases'
  BY <1>1, <1>2 DEF NodeInv, Control, Phases, User, RestorePc
<1>9. Disk'
  BY <1>1, <1>2, DiskKept DEF NodeInv, CalmPc
<1>10. QED
  BY <1>3, <1>4, <1>5, <1>6, <1>7, <1>8, <1>9 DEF NodeInv, Control

-----------------------------------------------------------------------------
(* Restore: what its two ways to go on, Step and Return, keep of the       *)
(* invariant's control part whatever happens to the files.                 *)

LEMMA SwapControl ==
  ASSUME NodeInv, pc[Fsm] \in SwapPc, NEW l \in SwapPc, Step(l), UNCHANGED lock,
         store' = store \/ store' = Nil, open' = {store', fresh'} \ {Nil},
         fresh' # Nil <=> l \in FreshPc,
         l \in ClosedPc => store' = Nil
  PROVE  Control'
<1> USE Procs
<1>1. /\ pc' = [pc EXCEPT ![Fsm] = l]
      /\ UNCHANGED <<node, closed, once, stopping, snapshot, older, second, lost, writer, waiting, rlocks, held, inPlace>>
  BY DEF Step, Goto, life, snaps, lock
<1>2. pc \in [Proc -> Label] /\ held \in [Proc -> Handle \cup {Nil}]
  BY DEF NodeInv, TypeOK
<1>3. l \in RestorePc /\ l # "lock" /\ l \notin UsePc /\ l # "exited" /\ l # "failed" /\ l # "idle"
  BY DEF SwapPc, RestorePc, UsePc
<1>4. pc[Fsm] \in RestorePc /\ pc[Fsm] # "lock" /\ pc[Fsm] \notin UsePc /\ pc[Fsm] # "exited"
  BY DEF SwapPc, RestorePc, UsePc
<1>5. Places'
  BY <1>1, <1>2, <1>3 DEF NodeInv, Control, Places
<1>6. Mutex'
  BY <1>1, <1>2, <1>3, <1>4 DEF NodeInv, Control, Mutex, Depth, UsePc
<1>7. Handles'
  <2>1. \A p \in Proc : pc'[p] \notin UsePc /\ held'[p] = Nil
    BY <1>1, <1>2, <1>3 DEF NodeInv, Control, Mutex, Handles
  <2>2. pc'[Fsm] = l
    BY <1>1, <1>2
  <2>3. QED
    BY <2>1, <2>2 DEF Handles
<1>8. Closing'
  BY <1>1, <1>2, <1>3, <1>4 DEF NodeInv, Control, Closing
<1>9. Phases'
  BY <1>1, <1>2, <1>3, <1>4 DEF NodeInv, Control, Phases, RestorePc
<1>10. QED
  BY <1>5, <1>6, <1>7, <1>8, <1>9 DEF Control

LEMMA ReturnControl ==
  ASSUME NodeInv, node # "down", pc[Fsm] \in SwapPc \cup {"stage", "load"},
         NEW ok \in BOOLEAN, Return(ok),
         store' = store \/ pc[Fsm] \in SwapPc, open' = {store'} \ {Nil}
  PROVE  Control'
<1> USE Procs
<1>1. /\ pc' = [pc EXCEPT ![Fsm] = IF node = "booting" /\ ~ok THEN "failed" ELSE "idle"]
      /\ node' = IF ok THEN "running" ELSE node
      /\ writer' = None /\ fresh' = Nil
      /\ second' = (second /\ ~ok) /\ lost' = (~ok /\ (lost \/ faults' >= 2))
      /\ UNCHANGED <<closed, once, stopping, snapshot, older, waiting, rlocks, held, inPlace>>
  BY DEF Return, Goto, Unlock
<1>2. pc \in [Proc -> Label] /\ held \in [Proc -> Handle \cup {Nil}]
  BY DEF NodeInv, TypeOK
<1>3. /\ pc'[Fsm] \in {"idle", "failed"}
      /\ pc'[Fsm] = "failed" <=> node = "booting" /\ ~ok
      /\ \A p \in Proc \ {Fsm} : pc'[p] = pc[p]
  BY <1>1, <1>2
<1>4. pc[Fsm] \in RestorePc /\ pc[Fsm] # "lock" /\ pc[Fsm] \notin UsePc /\ pc[Fsm] # "exited"
  BY DEF SwapPc, RestorePc, UsePc
<1>5. Places'
  BY <1>3 DEF NodeInv, Control, Places
<1>6. Mutex'
  BY <1>1, <1>3, <1>4 DEF NodeInv, Control, Mutex, Depth, UsePc, SwapPc
<1>7. Handles'
  <2>1. pc'[Fsm] \notin UsePc /\ pc'[Fsm] \notin FreshPc /\ pc'[Fsm] \notin ClosedPc
    BY <1>3 DEF UsePc, FreshPc, ClosedPc, SwapPc
  <2>2. \A p \in Proc : held'[p] = IF pc'[p] \in UsePc THEN store' ELSE Nil
    <3>1. CASE store' = store
      BY <1>1, <1>3, <1>4, <2>1, <3>1 DEF NodeInv, Control, Handles
    <3>2. CASE pc[Fsm] \in SwapPc
      BY <1>1, <1>3, <1>4, <2>1, <3>2 DEF NodeInv, Control, Handles, Mutex
    <3>3. QED
      BY <3>1, <3>2
  <2>3. \A p \in Proc : pc'[p] \in UsePc => store' # Nil
    BY <1>1, <1>3, <1>4, <2>1 DEF NodeInv, Control, Handles, Mutex
  <2>4. QED
    BY <1>1, <2>1, <2>2, <2>3 DEF Handles
<1>8. Closing'
  BY <1>1, <1>3, <1>4 DEF NodeInv, Control, Closing
<1>9. Phases'
  <2>1. node \in {"booting", "running"}
    BY DEF NodeInv, TypeOK
  <2>2. QED
    BY <1>1, <1>3, <1>4, <2>1 DEF NodeInv, Control, Phases
<1>10. QED
  BY <1>5, <1>6, <1>7, <1>8, <1>9 DEF Control

(* The types, given those of what an action changes.                       *)
LEMMA StepTyped ==
  ASSUME NodeInv, NEW l \in RestorePc, Step(l), Files',
         store' \in Handle \cup {Nil}, fresh' \in Handle \cup {Nil}, open' \subseteq Handle,
         published' \in 0..FirstGen + MaxGen,
         writer' \in Proc \cup {None}, waiting' \subseteq {Fsm} \cup Closer,
         rlocks' \in [Proc -> 0..2]
  PROVE  TypeOK'
<1>1. /\ pc' = [pc EXCEPT ![Fsm] = l]
      /\ UNCHANGED <<node, closed, once, stopping, snapshot, older, second, lost, held, inPlace>>
  BY DEF Step, Goto, life, snaps
<1>2. pc' \in [Proc -> Label]
  BY <1>1, Procs DEF NodeInv, TypeOK, Label
<1>3. QED
  BY <1>1, <1>2 DEF NodeInv, TypeOK, Files, DirName

LEMMA ReturnTyped ==
  ASSUME NodeInv, NEW ok \in BOOLEAN, Return(ok), Files',
         store' \in Handle \cup {Nil}, open' \subseteq Handle,
         published' \in 0..FirstGen + MaxGen
  PROVE  TypeOK'
<1>1. /\ pc' = [pc EXCEPT ![Fsm] = IF node = "booting" /\ ~ok THEN "failed" ELSE "idle"]
      /\ node' = IF ok THEN "running" ELSE node
      /\ writer' = None /\ fresh' = Nil
      /\ second' = (second /\ ~ok) /\ lost' = (~ok /\ (lost \/ faults' >= 2))
      /\ UNCHANGED <<closed, once, stopping, snapshot, older, waiting, rlocks, held, inPlace>>
  BY DEF Return, Goto, Unlock
<1>2. pc' \in [Proc -> Label]
  BY <1>1, Procs DEF NodeInv, TypeOK, Label
<1>3. node' \in {"down", "booting", "running"}
  BY <1>1 DEF NodeInv, TypeOK
<1>4. QED
  BY <1>1, <1>2, <1>3 DEF NodeInv, TypeOK, Files, DirName

(* What Step and Return say of the Raft goroutine, for the disk part.      *)
LEMMA StepMeans ==
  ASSUME NodeInv, NEW l, Step(l)
  PROVE  pc'[Fsm] = l /\ UNCHANGED <<node, snapshot, older, second, lost, inPlace>>
BY Procs DEF NodeInv, TypeOK, Step, Goto, life, snaps

LEMMA ReturnMeans ==
  ASSUME NodeInv, NEW ok \in BOOLEAN, Return(ok)
  PROVE  /\ pc'[Fsm] = IF node = "booting" /\ ~ok THEN "failed" ELSE "idle"
         /\ node' = IF ok THEN "running" ELSE node
         /\ second' = (second /\ ~ok) /\ lost' = (~ok /\ (lost \/ faults' >= 2))
         /\ UNCHANGED <<snapshot, older, inPlace>>
BY Procs DEF NodeInv, TypeOK, Return, Goto

LEMMA FailedFlags ==
  ASSUME Return(FALSE)
  PROVE  (second' => second) /\ (lost => lost') /\ (faults' >= 2 => lost')
BY DEF Return

LEMMA DoneFlags == ASSUME Return(TRUE) PROVE ~second' /\ ~lost'
BY DEF Return

LEMMA ReturnFalseDisk ==
  ASSUME NodeInv, Return(FALSE), pc[Fsm] \in RestorePc, published' = published,
         ~inPlace => dir'["live"] # Partial /\ dir'["backup"] # Partial,
         node = "running" /\ ~inPlace => Servable(dir["live"])',
         Serving'
  PROVE  Disk'
<1>1. /\ pc'[Fsm] \in {"idle", "failed"}
      /\ UNCHANGED <<node, snapshot, older, inPlace, published>>
  BY ReturnMeans
<1>2. Snapshots'
  BY <1>1, FailedFlags DEF NodeInv, Disk, Snapshots
<1>3. Staged'
  BY <1>1 DEF Staged, Source
<1>4. InPlace'
  BY <1>1 DEF InPlace, ClosedPc, SwapPc
<1>5. Swapping'
  BY <1>1 DEF Swapping, ClosedPc, SwapPc
<1>6. QED
  BY <1>2, <1>3, <1>4, <1>5 DEF Disk

(* Once the old instance is closed there is none, up to the new one.       *)
LEMMA NothingOpen ==
  ASSUME NodeInv, pc[Fsm] \in ClosedPc
  PROVE  /\ store = Nil /\ open = {fresh} \ {Nil}
         /\ \A p \in Proc : held[p] = Nil
         /\ pc[Fsm] \notin FreshPc =>
              open = {} /\ fresh = Nil /\ NewHandle \in Handle /\ NewHandle # Nil
<1>1. store = Nil /\ open = {fresh} \ {Nil} /\ (fresh # Nil <=> pc[Fsm] \in FreshPc)
  BY DEF NodeInv, Control, Handles
<1>2. \A p \in Proc : held[p] = Nil
  BY <1>1 DEF NodeInv, Control, Handles
<1>3. QED
  BY <1>1, <1>2, NewHandleFresh

(* The values that the disk part compares.                                 *)
LEMMA Numbers ==
  ASSUME NodeInv
  PROVE  /\ Files /\ \A d \in DirName : dir[d] \in Nat
         /\ faults \in Nat /\ snapshot \in Nat /\ older \in Nat /\ published \in Nat
         /\ snapshot \in 0..FirstGen + MaxGen /\ older \in 0..FirstGen + MaxGen
<1>1. FirstGen + MaxGen \in Nat
  BY NodeStoreAssumption DEF FirstGen
<1>2. QED
  BY <1>1, FilesTyped, NodeStoreAssumption DEF NodeInv, TypeOK, Files

LEMMA SourceIs ==
  ASSUME NodeInv, pc[Fsm] \in RestorePc
  PROVE  /\ Source \in 0..FirstGen + MaxGen /\ Source \in Nat /\ Source >= FirstGen
         /\ Source \in {snapshot, older} /\ snapshot # 0 /\ Source # 0
         /\ node = "running" => Source = snapshot /\ Source >= published
<1>1. /\ snapshot # 0 /\ snapshot >= FirstGen /\ snapshot >= published
      /\ second => older # 0 /\ older >= FirstGen /\ node = "booting"
  BY DEF NodeInv, Disk, Snapshots
<1>2. CASE second
  BY <1>1, <1>2, Numbers DEF Source, FirstGen
<1>3. CASE ~second
  BY <1>1, <1>3, Numbers DEF Source, FirstGen
<1>4. QED
  BY <1>2, <1>3

LEMMA InstallKeeps == ASSUME NodeInv, Install PROVE NodeInv'
<1> USE Procs
<1>1. /\ node = "running" /\ pc[Fsm] = "idle"
      /\ snapshot' \in FirstGen + 1..FirstGen + MaxGen /\ snapshot' >= snapshot
      /\ pc' = [pc EXCEPT ![Fsm] = IF inPlace THEN "lock" ELSE "stage"]
      /\ waiting' = IF inPlace THEN waiting \cup {Fsm} ELSE waiting
      /\ older' = snapshot /\ faults' = 0
      /\ UNCHANGED <<node, closed, once, stopping, store, open, fresh, dir, writer, rlocks, held,
                     second, lost, published, inPlace>>
  <2>1. \E g \in FirstGen + 1..FirstGen + MaxGen :
          g \in {snapshot, IF snapshot = 0 THEN FirstGen + 1 ELSE snapshot + 1} /\ snapshot' = g
    BY DEF Install
  <2>2. snapshot' \in FirstGen + 1..FirstGen + MaxGen /\ snapshot' >= snapshot
    BY <2>1, Numbers DEF FirstGen
  <2>3. QED
    BY <2>2 DEF Install, CallRestore, Goto, AskLock, life, lock
<1>2. pc \in [Proc -> Label] /\ pc'[Fsm] \in {"lock", "stage"}
  BY <1>1 DEF NodeInv, TypeOK
<1>3. TypeOK'
  <2>1. /\ snapshot' \in 0..FirstGen + MaxGen /\ older' \in 0..FirstGen + MaxGen
        /\ faults' \in 0..MaxFaults
    BY <1>1, Numbers, NodeStoreAssumption DEF FirstGen
  <2>2. pc' \in [Proc -> Label]
    BY <1>1, <1>2 DEF Label, RestorePc
  <2>3. waiting' \subseteq {Fsm} \cup Closer
    BY <1>1 DEF NodeInv, TypeOK
  <2>4. QED
    BY <1>1, <2>1, <2>2, <2>3 DEF NodeInv, TypeOK
<1>4. Places'
  BY <1>1, <1>2 DEF NodeInv, Control, Places, RestorePc
<1>5. Mutex'
  BY <1>1, <1>2 DEF NodeInv, Control, Mutex, Depth, UsePc, SwapPc
<1>6. Handles'
  BY <1>1, <1>2 DEF NodeInv, Control, Handles, UsePc, SwapPc, FreshPc, ClosedPc
<1>7. Closing'
  BY <1>1, <1>2 DEF NodeInv, Control, Closing
<1>8. Phases'
  BY <1>1, <1>2 DEF NodeInv, Control, Phases, RestorePc
<1>9. Disk'
  <2>1. Snapshots'
    BY <1>1, <1>2, Numbers DEF NodeInv, Disk, Snapshots, FirstGen
  <2>2. Staged' /\ InPlace'
    <3>1. pc'[Fsm] = IF inPlace THEN "lock" ELSE "stage"
      BY <1>1, <1>2
    <3>2. QED
      BY <1>1, <3>1 DEF NodeInv, Disk, Staged, Source, InPlace, ClosedPc, SwapPc
  <2>3. Swapping'
    BY <1>1, <1>2 DEF NodeInv, Disk, Swapping, Servable, ClosedPc, SwapPc
  <2>4. Serving'
    BY <1>1 DEF NodeInv, Disk, Serving
  <2>5. QED
    BY <2>1, <2>2, <2>3, <2>4 DEF Disk
<1>10. QED
  BY <1>3, <1>4, <1>5, <1>6, <1>7, <1>8, <1>9 DEF NodeInv, Control

LEMMA StageKeeps == ASSUME NodeInv, Stage PROVE NodeInv'
<1> USE Procs
<1>1. node # "down" /\ pc[Fsm] = "stage" /\ UNCHANGED <<store, open, published>>
  BY DEF Stage, At
<1>2. /\ Files /\ fresh = Nil /\ open = {store} \ {Nil}
      /\ ~inPlace /\ dir["live"] # Partial /\ dir["backup"] # Partial
      /\ node = "running" => Servable(dir["live"])
  BY <1>1, FilesTyped DEF NodeInv, Control, Handles, FreshPc, Disk, InPlace, Staged, Source, Swapping, ClosedPc, SwapPc
<1>3. CASE RemoveAll("staging") /\ dir'["staging"] # Missing /\ Return(FALSE)
  <2>1. /\ Files' /\ dir'["live"] = dir["live"] /\ dir'["backup"] = dir["backup"]
        /\ faults' = faults + 1
    BY <1>2, <1>3, RemoveAllDoes DEF DirName
  <2>2. TypeOK'
    BY <1>1, <1>3, <2>1, ReturnTyped DEF NodeInv, TypeOK
  <2>3. Control'
    BY <1>1, <1>2, <1>3, ReturnControl
  <2>4. Disk'
    <3>1. Serving'
      <4>1. UNCHANGED <<store, inPlace>>
        BY <1>1, <1>3, ReturnMeans
      <4>2. QED
        BY <1>2, <2>1, <4>1 DEF NodeInv, Disk, Serving
    <3>2. node = "running" => Servable(dir["live"])'
      BY <1>1, <1>2, <1>3, <2>1, FailedFlags DEF Servable
    <3>3. QED
      BY <1>1, <1>2, <1>3, <2>1, <3>1, <3>2, ReturnFalseDisk DEF RestorePc
  <2>5. QED
    BY <2>2, <2>3, <2>4 DEF NodeInv
<1>4. CASE /\ Works /\ dir' = [dir EXCEPT !["staging"] = Partial] /\ Step("load")
           /\ UNCHANGED <<lock, fresh>>
  <2>1. /\ Files' /\ dir'["live"] = dir["live"] /\ dir'["backup"] = dir["backup"]
        /\ faults' = faults
    BY <1>2, <1>4, NodeStoreAssumption DEF Files, DirName, Works, Partial, FirstGen
  <2>2. TypeOK'
    BY <1>1, <1>4, <2>1, StepTyped DEF NodeInv, TypeOK, RestorePc, lock
  <2>3. /\ pc' = [pc EXCEPT ![Fsm] = "load"] /\ pc \in [Proc -> Label]
        /\ UNCHANGED <<node, closed, once, stopping, snapshot, older, second, lost, writer, waiting, rlocks, held,
                       store, open, fresh>>
    BY <1>1, <1>4 DEF Step, Goto, life, snaps, lock, NodeInv, TypeOK
  <2>4. Control'
    <3>1. Places'
      BY <2>3 DEF NodeInv, Control, Places, RestorePc
    <3>2. Mutex'
      BY <1>1, <2>3 DEF NodeInv, Control, Mutex, Depth, UsePc, SwapPc
    <3>3. Handles'
      BY <1>1, <2>3 DEF NodeInv, Control, Handles, UsePc, SwapPc, FreshPc, ClosedPc
    <3>4. Closing'
      BY <1>1, <2>3 DEF NodeInv, Control, Closing
    <3>5. Phases'
      BY <1>1, <2>3 DEF NodeInv, Control, Phases, RestorePc
    <3>6. QED
      BY <3>1, <3>2, <3>3, <3>4, <3>5 DEF Control
  <2>5. Disk'
    <3>0. pc'[Fsm] = "load" /\ UNCHANGED <<node, snapshot, older, second, lost, inPlace, published, store>>
      BY <1>1, <1>4, StepMeans
    <3>1. Snapshots'
      BY <1>1, <2>1, <3>0 DEF NodeInv, Disk, Snapshots, RestorePc
    <3>2. Staged' /\ InPlace'
      BY <1>2, <2>1, <3>0 DEF NodeInv, Disk, Staged, Source, InPlace
    <3>3. Swapping'
      BY <1>2, <2>1, <3>0 DEF Swapping, Servable
    <3>4. Serving'
      BY <1>2, <2>1, <3>0 DEF NodeInv, Disk, Serving
    <3>5. QED
      BY <3>1, <3>2, <3>3, <3>4 DEF Disk
  <2>6. QED
    BY <2>2, <2>4, <2>5 DEF NodeInv
<1>5. QED
  BY <1>3, <1>4 DEF Stage

LEMMA LoadKeeps == ASSUME NodeInv, Load PROVE NodeInv'
<1> USE Procs
<1>1. node # "down" /\ pc[Fsm] = "load" /\ UNCHANGED <<store, open, published>>
  BY DEF Load, At
<1>2. /\ Files /\ fresh = Nil /\ open = {store} \ {Nil}
      /\ ~inPlace /\ dir["live"] # Partial /\ dir["backup"] # Partial
      /\ node = "running" => Servable(dir["live"])
  BY <1>1, FilesTyped DEF NodeInv, Control, Handles, FreshPc, Disk, InPlace, Staged, Source, Swapping, ClosedPc, SwapPc
<1>3. CASE Fails /\ (\E c \in {Missing, Torn} : dir' = [dir EXCEPT !["staging"] = c]) /\ Return(FALSE)
  <2>1. /\ Files' /\ dir'["live"] = dir["live"] /\ dir'["backup"] = dir["backup"]
        /\ faults' = faults + 1
    BY <1>2, <1>3, FailsDoes, NodeStoreAssumption DEF Files, DirName, Missing, Torn, FirstGen
  <2>2. TypeOK'
    BY <1>1, <1>3, <2>1, ReturnTyped DEF NodeInv, TypeOK
  <2>3. Control'
    BY <1>1, <1>2, <1>3, ReturnControl
  <2>4. Disk'
    <3>1. Serving'
      <4>1. UNCHANGED <<store, inPlace>>
        BY <1>1, <1>3, ReturnMeans
      <4>2. QED
        BY <1>2, <2>1, <4>1 DEF NodeInv, Disk, Serving
    <3>2. node = "running" => Servable(dir["live"])'
      BY <1>1, <1>2, <1>3, <2>1, FailedFlags DEF Servable
    <3>3. QED
      BY <1>1, <1>2, <1>3, <2>1, <3>1, <3>2, ReturnFalseDisk DEF RestorePc
  <2>5. QED
    BY <2>2, <2>3, <2>4 DEF NodeInv
<1>4. CASE /\ Works /\ dir' = [dir EXCEPT !["staging"] = Source] /\ Step("lock")
           /\ AskLock(Fsm) /\ UNCHANGED fresh
  <2>1. /\ Files' /\ dir'["live"] = dir["live"] /\ dir'["backup"] = dir["backup"]
        /\ dir'["staging"] = Source /\ faults' = faults
    <3>1. Source \in 0..FirstGen + MaxGen
      BY <1>1, SourceIs DEF RestorePc
    <3>2. QED
      BY <1>2, <1>4, <3>1 DEF Files, DirName, Works
  <2>2. TypeOK'
    <3>1. waiting' \subseteq {Fsm} \cup Closer /\ UNCHANGED <<writer, rlocks>>
      BY <1>4 DEF NodeInv, TypeOK, AskLock
    <3>2. QED
      BY <1>1, <1>4, <2>1, <3>1, StepTyped DEF NodeInv, TypeOK, RestorePc
  <2>3. /\ pc' = [pc EXCEPT ![Fsm] = "lock"] /\ pc \in [Proc -> Label]
        /\ waiting' = waiting \cup {Fsm}
        /\ UNCHANGED <<node, closed, once, stopping, snapshot, older, second, lost, writer, rlocks, held,
                       store, open, fresh>>
    BY <1>1, <1>4 DEF Step, Goto, AskLock, life, snaps, NodeInv, TypeOK
  <2>4. Control'
    <3>1. Places'
      BY <2>3 DEF NodeInv, Control, Places, RestorePc
    <3>2. Mutex'
      BY <1>1, <2>3 DEF NodeInv, Control, Mutex, Depth, UsePc, SwapPc
    <3>3. Handles'
      BY <1>1, <2>3 DEF NodeInv, Control, Handles, UsePc, SwapPc, FreshPc, ClosedPc
    <3>4. Closing'
      BY <1>1, <2>3 DEF NodeInv, Control, Closing
    <3>5. Phases'
      BY <1>1, <2>3 DEF NodeInv, Control, Phases, RestorePc
    <3>6. QED
      BY <3>1, <3>2, <3>3, <3>4, <3>5 DEF Control
  <2>5. Disk'
    <3>0. pc'[Fsm] = "lock" /\ UNCHANGED <<node, snapshot, older, second, lost, inPlace, published, store>>
      BY <1>1, <1>4, StepMeans
    <3>1. Snapshots'
      BY <1>1, <2>1, <3>0 DEF NodeInv, Disk, Snapshots, RestorePc
    <3>2. Staged' /\ InPlace'
      BY <1>2, <2>1, <3>0 DEF NodeInv, Disk, Staged, Source, InPlace
    <3>3. Swapping'
      BY <1>2, <2>1, <3>0 DEF Swapping, Servable
    <3>4. Serving'
      BY <1>2, <2>1, <3>0 DEF NodeInv, Disk, Serving
    <3>5. QED
      BY <3>1, <3>2, <3>3, <3>4 DEF Disk
  <2>6. QED
    BY <2>2, <2>4, <2>5 DEF NodeInv
<1>5. QED
  BY <1>3, <1>4 DEF Load

(* Lock waits for every holder of the shared lock.                         *)
LEMMA SwapLockKeeps == ASSUME NodeInv, SwapLock PROVE NodeInv'
<1> USE Procs
<1>1. /\ node # "down" /\ pc[Fsm] = "lock" /\ \A p \in Proc : rlocks[p] = 0
      /\ writer' = Fsm /\ waiting' = waiting \ {Fsm}
      /\ UNCHANGED <<store, open, fresh, dir, published, faults, rlocks>>
  BY DEF SwapLock, At, Lock, LockFree
<1>2. PICK l \in {"close", "clean"} : Step(l) /\ l = IF inPlace THEN "close" ELSE "clean"
  BY DEF SwapLock
<1>3. TypeOK'
  <2>1. Files' /\ waiting' \subseteq {Fsm} \cup Closer
    BY <1>1, FilesTyped DEF NodeInv, TypeOK, Files
  <2>2. l \in RestorePc
    BY DEF RestorePc
  <2>3. QED
    BY <1>1, <1>2, <2>1, <2>2, StepTyped DEF NodeInv, TypeOK
<1>4. /\ pc' = [pc EXCEPT ![Fsm] = l] /\ pc \in [Proc -> Label]
      /\ UNCHANGED <<node, closed, once, stopping, held>>
  BY <1>2 DEF Step, Goto, life, snaps, NodeInv, TypeOK
<1>5. Control'
  <2>1. Places'
    BY <1>4 DEF NodeInv, Control, Places, RestorePc
  <2>2. Mutex'
    <3>1. \A p \in Proc : pc[p] \notin UsePc
      BY <1>1 DEF NodeInv, Control, Mutex, Depth, UsePc
    <3>2. QED
      BY <1>1, <1>4, <3>1 DEF NodeInv, Control, Mutex, Depth, UsePc, SwapPc
  <2>3. Handles'
    BY <1>1, <1>4 DEF NodeInv, Control, Handles, UsePc, SwapPc, FreshPc, ClosedPc
  <2>4. Closing'
    BY <1>1, <1>4 DEF NodeInv, Control, Closing
  <2>5. Phases'
    BY <1>1, <1>4 DEF NodeInv, Control, Phases, RestorePc
  <2>6. QED
    BY <2>1, <2>2, <2>3, <2>4, <2>5 DEF Control
<1>6. Disk'
  <2>0. pc'[Fsm] = l /\ UNCHANGED <<node, snapshot, older, second, lost, inPlace, published, store, dir, faults>>
    BY <1>1, <1>2, StepMeans
  <2>1. Snapshots'
    BY <1>1, <2>0 DEF NodeInv, Disk, Snapshots, RestorePc
  <2>2. Staged' /\ InPlace'
    BY <1>1, <1>2, <2>0 DEF NodeInv, Disk, Staged, Source, InPlace, ClosedPc, SwapPc
  <2>3. Swapping'
    BY <1>1, <2>0 DEF NodeInv, Disk, Swapping, Servable, ClosedPc, SwapPc
  <2>4. Serving'
    BY <2>0 DEF NodeInv, Disk, Serving
  <2>5. QED
    BY <2>1, <2>2, <2>3, <2>4 DEF Disk
<1>7. QED
  BY <1>3, <1>5, <1>6 DEF NodeInv

LEMMA CleanKeeps == ASSUME NodeInv, Clean PROVE NodeInv'
<1> USE Procs
<1>1. /\ pc[Fsm] = "clean" /\ RemoveAll("backup") /\ Step("close")
      /\ UNCHANGED <<store, open, fresh, lock, published>>
  BY DEF Clean, At
<1>2. /\ Files' /\ dir'["live"] = dir["live"] /\ dir'["staging"] = dir["staging"]
      /\ dir'["backup"] \in {dir["backup"], Torn, Missing}
      /\ faults' \in {faults, faults + 1}
  BY <1>1, FilesTyped, RemoveAllDoes DEF DirName
<1>3. TypeOK'
  BY <1>1, <1>2, StepTyped DEF NodeInv, TypeOK, RestorePc, lock
<1>4. Control'
  <2>1. fresh = Nil /\ open = {store, fresh} \ {Nil}
    BY <1>1 DEF NodeInv, Control, Handles, FreshPc
  <2>2. "close" \in SwapPc /\ "close" \notin ClosedPc /\ "close" \notin FreshPc /\ pc[Fsm] \in SwapPc
    BY <1>1 DEF SwapPc, ClosedPc, FreshPc
  <2>3. QED
    BY <1>1, <2>1, <2>2, SwapControl
<1>5. Disk'
  <2>0. pc'[Fsm] = "close" /\ UNCHANGED <<node, snapshot, older, second, lost, inPlace, published, store>>
    BY <1>1, StepMeans
  <2>1. Snapshots'
    BY <1>1, <1>2, <2>0 DEF NodeInv, Disk, Snapshots, RestorePc
  <2>2. Staged' /\ InPlace'
    BY <1>1, <1>2, <2>0 DEF NodeInv, Disk, Staged, Source, InPlace, ClosedPc, SwapPc, Partial, Torn, Missing
  <2>3. Swapping'
    BY <1>1, <1>2, <2>0, Numbers DEF NodeInv, Disk, Swapping, Servable, ClosedPc, SwapPc
  <2>4. Serving'
    BY <1>2, <2>0 DEF NodeInv, Disk, Serving
  <2>5. QED
    BY <2>1, <2>2, <2>3, <2>4 DEF Disk
<1>6. QED
  BY <1>3, <1>4, <1>5 DEF NodeInv

(* From here on there is no store, whatever fails.                         *)
LEMMA CloseOldKeeps == ASSUME NodeInv, CloseOld PROVE NodeInv'
<1> USE Procs
<1>1. /\ node # "down" /\ pc[Fsm] = "close" /\ open' = open \ {store} /\ store' = Nil
      /\ UNCHANGED <<dir, published>>
  BY DEF CloseOld, At
<1>2. fresh = Nil /\ open = {store} \ {Nil}
  BY <1>1 DEF NodeInv, Control, Handles, FreshPc
<1>3. open' = {}
  BY <1>1, <1>2
<1>4. CASE /\ Works /\ Step(IF inPlace THEN "wipe" ELSE "aside")
           /\ UNCHANGED <<lock, fresh>>
  <2>1. PICK l \in {"wipe", "aside"} : Step(l) /\ l = IF inPlace THEN "wipe" ELSE "aside"
    BY <1>4
  <2>2. Files' /\ faults' = faults
    BY <1>1, <1>4, FilesTyped DEF Files, Works
  <2>3. TypeOK'
    <3>1. l \in RestorePc
      BY DEF RestorePc
    <3>2. QED
      BY <1>1, <1>2, <1>3, <1>4, <2>1, <2>2, <3>1, StepTyped DEF NodeInv, TypeOK, lock
  <2>4. Control'
    <3>1. l \in SwapPc /\ l \notin FreshPc /\ pc[Fsm] \in SwapPc
      BY <1>1 DEF SwapPc, FreshPc
    <3>2. QED
      BY <1>1, <1>2, <1>3, <1>4, <2>1, <3>1, SwapControl
  <2>5. Disk'
    <3>0. pc'[Fsm] = l /\ UNCHANGED <<node, snapshot, older, second, lost, inPlace, published, dir, faults>>
      BY <1>1, <2>1, <2>2, StepMeans
    <3>1. Snapshots'
      BY <1>1, <3>0 DEF NodeInv, Disk, Snapshots, RestorePc
    <3>2. Staged' /\ InPlace'
      BY <1>1, <2>1, <3>0 DEF NodeInv, Disk, Staged, Source, InPlace, ClosedPc, SwapPc
    <3>3. Swapping'
      BY <1>1, <2>1, <3>0 DEF NodeInv, Disk, Swapping, Servable, ClosedPc, SwapPc
    <3>4. Serving'
      BY <1>1 DEF Serving
    <3>5. QED
      BY <3>1, <3>2, <3>3, <3>4 DEF Disk
  <2>6. QED
    BY <2>3, <2>4, <2>5 DEF NodeInv
<1>5. CASE inPlace /\ store # Nil /\ Fails /\ Return(FALSE)
  <2>1. Files'
    BY <1>1, <1>5, FilesTyped, FailsDoes DEF Files
  <2>2. TypeOK'
    BY <1>1, <1>3, <1>5, <2>1, ReturnTyped DEF NodeInv, TypeOK
  <2>3. Control'
    BY <1>1, <1>3, <1>5, ReturnControl DEF SwapPc
  <2>4. Disk'
    BY <1>1, <1>5, ReturnFalseDisk DEF RestorePc, Serving
  <2>5. QED
    BY <2>2, <2>3, <2>4 DEF NodeInv
<1>6. QED
  BY <1>4, <1>5 DEF CloseOld

(* The steps between closing the old instance and opening the new one      *)
(* differ in what they do to the files only.                               *)
LEMMA FileStep ==
  ASSUME NodeInv, pc[Fsm] \in ClosedPc \ FreshPc, NEW l \in ClosedPc \ FreshPc, Step(l),
         UNCHANGED <<store, open, fresh, lock, published>>, Files'
  PROVE  /\ TypeOK' /\ Control' /\ Snapshots' /\ Serving'
         /\ pc'[Fsm] = l /\ UNCHANGED <<node, snapshot, older, second, lost, inPlace, published>>
<1>1. l \in SwapPc /\ l \in RestorePc /\ pc[Fsm] \in SwapPc /\ pc[Fsm] \in RestorePc
  BY DEF ClosedPc, SwapPc, RestorePc
<1>2. store = Nil /\ open = {} /\ fresh = Nil
  BY NothingOpen
<1>3. TypeOK'
  BY <1>1, StepTyped DEF NodeInv, TypeOK, lock
<1>4. Control'
  BY <1>1, <1>2, SwapControl
<1>5. pc'[Fsm] = l /\ UNCHANGED <<node, snapshot, older, second, lost, inPlace, published>>
  BY StepMeans
<1>6. Snapshots'
  BY <1>1, <1>5 DEF NodeInv, Disk, Snapshots
<1>7. Serving'
  BY <1>2 DEF Serving
<1>8. QED
  BY <1>3, <1>4, <1>5, <1>6, <1>7

(* The live directory moves to the backup, which is free then ...          *)
LEMMA AsideKeeps == ASSUME NodeInv, Aside PROVE NodeInv'
<1>1. pc[Fsm] = "aside" /\ UNCHANGED <<store, open, fresh, lock, published>>
  BY DEF Aside, At
<1>2. /\ "live" \in DirName /\ "backup" \in DirName /\ "staging" \in DirName
      /\ pc[Fsm] \in ClosedPc \ FreshPc
      /\ "place" \in ClosedPc \ FreshPc /\ "reopen" \in ClosedPc \ FreshPc
  BY <1>1 DEF DirName, ClosedPc, SwapPc, FreshPc
<1>3. CASE Renamed("live", "backup") /\ Step("place")
  <2>1. /\ Files' /\ faults' = faults
        /\ dir["live"] # Missing /\ dir'["live"] = Missing /\ dir'["backup"] = dir["live"]
        /\ dir'["staging"] = dir["staging"]
    BY <1>2, <1>3, FilesTyped, RenamedDoes
  <2>2. /\ TypeOK' /\ Control' /\ Snapshots' /\ Serving'
        /\ pc'[Fsm] = "place" /\ UNCHANGED <<node, snapshot, older, second, lost, inPlace, published>>
    BY <1>1, <1>2, <1>3, <2>1, FileStep
  <2>3. Staged' /\ InPlace'
    BY <1>1, <2>1, <2>2 DEF NodeInv, Disk, Staged, Source, InPlace, ClosedPc, SwapPc, Missing, Partial
  <2>4. Swapping'
    BY <1>1, <2>1, <2>2 DEF NodeInv, Disk, Swapping, Servable, ClosedPc, SwapPc
  <2>5. QED
    BY <2>2, <2>3, <2>4 DEF NodeInv, Disk
<1>4. CASE NotRenamed("live", "backup") /\ Step("reopen")
  <2>1. Files' /\ dir' = dir /\ faults' \in {faults, faults + 1}
    BY <1>2, <1>4, FilesTyped, NotRenamedDoes
  <2>2. /\ TypeOK' /\ Control' /\ Snapshots' /\ Serving'
        /\ pc'[Fsm] = "reopen" /\ UNCHANGED <<node, snapshot, older, second, lost, inPlace, published>>
    BY <1>1, <1>2, <1>4, <2>1, FileStep
  <2>3. Staged' /\ InPlace'
    BY <1>1, <2>1, <2>2 DEF NodeInv, Disk, Staged, Source, InPlace, ClosedPc, SwapPc
  <2>4. Swapping'
    <3>1. node = "running" /\ ~inPlace => Servable(dir["live"])
      BY <1>1 DEF NodeInv, Disk, Swapping, ClosedPc, SwapPc
    <3>2. QED
      BY <2>1, <2>2, <3>1 DEF Swapping, Salvaged, Servable, ClosedPc, SwapPc
  <2>5. QED
    BY <2>2, <2>3, <2>4 DEF NodeInv, Disk
<1>5. QED
  BY <1>3, <1>4 DEF Aside

(* ... and the staged one takes its place, or the rename has failed.       *)
LEMMA PlaceKeeps == ASSUME NodeInv, Place PROVE NodeInv'
<1>1. pc[Fsm] = "place" /\ UNCHANGED <<store, open, fresh, lock, published>>
  BY DEF Place, At
<1>2. /\ "live" \in DirName /\ "backup" \in DirName /\ "staging" \in DirName
      /\ pc[Fsm] \in ClosedPc \ FreshPc
      /\ "open" \in ClosedPc \ FreshPc /\ "rollback" \in ClosedPc \ FreshPc
  BY <1>1 DEF DirName, ClosedPc, SwapPc, FreshPc
<1>3. ~inPlace /\ dir["staging"] = Source /\ Source >= FirstGen
  BY <1>1 DEF NodeInv, Disk, InPlace, Staged, Source, Snapshots, ClosedPc, SwapPc, RestorePc
<1>4. CASE Renamed("staging", "live") /\ Step("open")
  <2>1. /\ Files' /\ faults' = faults
        /\ dir'["live"] = Source /\ dir'["backup"] = dir["backup"]
    BY <1>2, <1>3, <1>4, FilesTyped, RenamedDoes
  <2>2. /\ TypeOK' /\ Control' /\ Snapshots' /\ Serving'
        /\ pc'[Fsm] = "open" /\ UNCHANGED <<node, snapshot, older, second, lost, inPlace, published>>
    BY <1>1, <1>2, <1>4, <2>1, FileStep
  <2>3. Staged' /\ InPlace'
    BY <1>1, <1>3, <2>1, <2>2, Numbers DEF NodeInv, Disk, Staged, Source, InPlace, Partial, FirstGen
  <2>4. Swapping'
    BY <1>1, <2>1, <2>2 DEF NodeInv, Disk, Swapping, Servable, ClosedPc, SwapPc
  <2>5. QED
    BY <2>2, <2>3, <2>4 DEF NodeInv, Disk
<1>5. CASE NotRenamed("staging", "live") /\ Step("rollback")
  <2>1. /\ Files' /\ dir' = dir /\ faults' \in {faults, faults + 1}
        /\ dir["live"] = Missing => faults' = faults + 1
    <3>1. dir["staging"] # Missing
      BY <1>3, Numbers DEF Missing, FirstGen
    <3>2. QED
      BY <1>2, <1>5, <3>1, FilesTyped, NotRenamedDoes
  <2>2. /\ TypeOK' /\ Control' /\ Snapshots' /\ Serving'
        /\ pc'[Fsm] = "rollback" /\ UNCHANGED <<node, snapshot, older, second, lost, inPlace, published>>
    BY <1>1, <1>2, <1>5, <2>1, FileStep
  <2>3. Staged' /\ InPlace'
    BY <1>1, <1>3, <2>1, <2>2 DEF NodeInv, Disk, Staged, Source, InPlace
  <2>4. Swapping'
    BY <1>1, <2>1, <2>2, Numbers DEF NodeInv, Disk, Swapping, Servable, ClosedPc, SwapPc
  <2>5. QED
    BY <2>2, <2>3, <2>4 DEF NodeInv, Disk
<1>6. QED
  BY <1>4, <1>5 DEF Place

LEMMA OpenNewKeeps == ASSUME NodeInv, OpenNew PROVE NodeInv'
<1>1. pc[Fsm] = "open" /\ UNCHANGED <<store, lock, published>>
  BY DEF OpenNew, At
<1>2. /\ pc[Fsm] \in ClosedPc \ FreshPc
      /\ "publish" \in SwapPc /\ "publish" \in FreshPc /\ "publish" \in RestorePc
      /\ "drop" \in ClosedPc \ FreshPc /\ pc[Fsm] \in SwapPc
  BY <1>1 DEF ClosedPc, SwapPc, FreshPc, RestorePc
<1>3. ~inPlace /\ dir["live"] = Source /\ Source >= FirstGen
  BY <1>1 DEF NodeInv, Disk, InPlace, Staged, Source, Snapshots, ClosedPc, SwapPc, RestorePc
<1>4. store = Nil /\ open = {} /\ fresh = Nil /\ NewHandle \in Handle /\ NewHandle # Nil
  BY <1>2, NothingOpen
<1>5. CASE Opened /\ fresh' = NewHandle /\ Step("publish")
  <2>1. /\ Files' /\ faults' = faults /\ dir'["live"] = Source
        /\ dir'["backup"] = dir["backup"] /\ open' = {NewHandle}
    BY <1>3, <1>4, <1>5, Numbers, OpenedDoes DEF DirName, Missing, Torn, FirstGen
  <2>2. TypeOK'
    BY <1>1, <1>2, <1>4, <1>5, <2>1, StepTyped DEF NodeInv, TypeOK, lock
  <2>3. Control'
    BY <1>1, <1>2, <1>4, <1>5, <2>1, SwapControl
  <2>4. pc'[Fsm] = "publish" /\ UNCHANGED <<node, snapshot, older, second, lost, inPlace, published>>
    BY <1>1, <1>5, StepMeans
  <2>5. Snapshots'
    BY <1>1, <1>2, <2>4, <1>3, Numbers DEF NodeInv, Disk, Snapshots, RestorePc, FirstGen
  <2>6. Staged' /\ InPlace'
    BY <1>3, <2>1, <2>4, Numbers DEF NodeInv, Disk, Staged, Source, InPlace, Partial, FirstGen
  <2>7. Swapping'
    BY <2>4 DEF Swapping, ClosedPc, SwapPc
  <2>8. Serving'
    BY <1>1, <1>4 DEF Serving
  <2>9. QED
    BY <2>2, <2>3, <2>5, <2>6, <2>7, <2>8 DEF NodeInv, Disk
<1>6. CASE NotOpened /\ Step("drop") /\ UNCHANGED fresh
  <2>1. Files' /\ dir' = dir /\ open' = open /\ faults' = faults + 1
    BY <1>3, <1>6, Numbers, NotOpenedDoes DEF Torn, FirstGen
  <2>2. /\ TypeOK' /\ Control' /\ Snapshots' /\ Serving'
        /\ pc'[Fsm] = "drop" /\ UNCHANGED <<node, snapshot, older, second, lost, inPlace, published>>
    BY <1>1, <1>2, <1>6, <2>1, FileStep
  <2>3. Staged' /\ InPlace'
    BY <1>1, <1>3, <2>1, <2>2 DEF NodeInv, Disk, Staged, Source, InPlace
  <2>4. Swapping'
    BY <1>1, <2>1, <2>2, Numbers DEF NodeInv, Disk, Swapping, Servable, ClosedPc, SwapPc
  <2>5. QED
    BY <2>2, <2>3, <2>4 DEF NodeInv, Disk
<1>7. QED
  BY <1>5, <1>6 DEF OpenNew

(* What is published is the snapshot that was restored.                    *)
LEMMA PublishKeeps == ASSUME NodeInv, Publish PROVE NodeInv'
<1>1. /\ node # "down" /\ pc[Fsm] = "publish" /\ RemoveAll("backup") /\ store' = fresh
      /\ published' = dir["live"] /\ Return(TRUE) /\ UNCHANGED open
  BY DEF Publish, At
<1>2. /\ ~inPlace /\ dir["live"] = Source /\ Source >= FirstGen
      /\ dir["backup"] # Partial
  BY <1>1 DEF NodeInv, Disk, InPlace, Staged, Source, Snapshots, ClosedPc, SwapPc, RestorePc
<1>3. pc[Fsm] \in SwapPc /\ open = {fresh} \ {Nil} /\ fresh \in Handle \cup {Nil}
  BY <1>1, NothingOpen DEF ClosedPc, SwapPc, NodeInv, TypeOK
<1>4. /\ Files' /\ dir'["live"] = Source
      /\ dir'["backup"] \in {dir["backup"], Torn, Missing}
  BY <1>1, <1>2, FilesTyped, RemoveAllDoes DEF DirName
<1>5. TypeOK'
  BY <1>1, <1>2, <1>3, <1>4, Numbers, ReturnTyped DEF NodeInv, TypeOK
<1>6. Control'
  BY <1>1, <1>3, ReturnControl
<1>7. pc'[Fsm] = "idle" /\ node' = "running" /\ ~second' /\ UNCHANGED <<snapshot, older, inPlace>>
  BY <1>1, ReturnMeans, DoneFlags
<1>a. /\ Source \in Nat /\ Source \in {snapshot, older} /\ snapshot # 0 /\ snapshot >= FirstGen
      /\ older <= snapshot /\ (older # 0 => older >= FirstGen)
  BY <1>1, SourceIs DEF NodeInv, Disk, Snapshots, RestorePc
<1>8. Snapshots'
  BY <1>1, <1>2, <1>7, <1>a, Numbers DEF Snapshots, RestorePc, FirstGen
<1>9. Staged' /\ InPlace'
  BY <1>2, <1>4, <1>7, Numbers DEF Staged, Source, InPlace, Partial, Torn, Missing, FirstGen
<1>10. Swapping'
  BY <1>1, <1>2, <1>4, <1>7, <1>a DEF Swapping, Servable
<1>11. Serving'
  BY <1>2, <1>4, <1>7, <1>a DEF Serving, Empty, FirstGen
<1>12. QED
  BY <1>5, <1>6, <1>8, <1>9, <1>10, <1>11 DEF NodeInv, Disk

LEMMA DropKeeps == ASSUME NodeInv, Drop PROVE NodeInv'
<1>1. /\ pc[Fsm] = "drop" /\ RemoveAll("live") /\ Step("rollback")
      /\ UNCHANGED <<store, open, fresh, lock, published>>
  BY DEF Drop, At
<1>2. pc[Fsm] \in ClosedPc \ FreshPc /\ "rollback" \in ClosedPc \ FreshPc
  BY <1>1 DEF ClosedPc, SwapPc, FreshPc
<1>3. ~inPlace /\ dir["live"] = Source
  BY <1>1 DEF NodeInv, Disk, InPlace, Staged, Source, ClosedPc, SwapPc
<1>4. /\ Files' /\ dir'["backup"] = dir["backup"]
      /\ \/ faults' = faults /\ dir'["live"] = Missing
         \/ faults' = faults + 1 /\ dir'["live"] \in {Source, Torn}
  BY <1>1, <1>3, FilesTyped, RemoveAllDoes DEF DirName
<1>5. /\ TypeOK' /\ Control' /\ Snapshots' /\ Serving'
      /\ pc'[Fsm] = "rollback" /\ UNCHANGED <<node, snapshot, older, second, lost, inPlace, published>>
  BY <1>1, <1>2, <1>4, FileStep
<1>6. Staged' /\ InPlace'
  BY <1>1, <1>3, <1>4, <1>5 DEF NodeInv, Disk, Staged, Source, InPlace, Partial, Torn, Missing
<1>7. Swapping'
  <2>1. node = "running" => Source = snapshot
    BY <1>1, SourceIs DEF RestorePc
  <2>2. QED
    BY <1>1, <1>4, <1>5, <2>1, Numbers DEF NodeInv, Disk, Swapping, Servable, ClosedPc, SwapPc
<1>8. QED
  BY <1>5, <1>6, <1>7 DEF NodeInv, Disk

(* The rename back fails when the live directory could not be dropped, or  *)
(* by itself: two failures either way, unless what is there may stay.      *)
LEMMA RollbackKeeps == ASSUME NodeInv, Rollback PROVE NodeInv'
<1>1. /\ pc[Fsm] = "rollback" /\ Step("reopen")
      /\ Renamed("backup", "live") \/ NotRenamed("backup", "live")
      /\ UNCHANGED <<store, open, fresh, lock, published>>
  BY DEF Rollback, At
<1>2. /\ pc[Fsm] \in ClosedPc \ FreshPc /\ "reopen" \in ClosedPc \ FreshPc
      /\ "live" \in DirName /\ "backup" \in DirName
  BY <1>1 DEF ClosedPc, SwapPc, FreshPc, DirName
<1>3. /\ Files' /\ faults' \in {faults, faults + 1}
      /\ \/ dir'["live"] = dir["backup"] /\ dir'["backup"] = Missing
         \/ /\ dir' = dir
            /\ dir["live"] = Missing /\ dir["backup"] # Missing => faults' = faults + 1
  <2>1. CASE Renamed("backup", "live")
    BY <1>2, <2>1, FilesTyped, RenamedDoes
  <2>2. CASE NotRenamed("backup", "live")
    BY <1>2, <2>2, FilesTyped, NotRenamedDoes
  <2>3. QED
    BY <1>1, <2>1, <2>2
<1>4. /\ TypeOK' /\ Control' /\ Snapshots' /\ Serving'
      /\ pc'[Fsm] = "reopen" /\ UNCHANGED <<node, snapshot, older, second, lost, inPlace, published>>
  BY <1>1, <1>2, <1>3, FileStep
<1>5. Staged' /\ InPlace'
  BY <1>1, <1>3, <1>4 DEF NodeInv, Disk, Staged, Source, InPlace, ClosedPc, SwapPc, Partial, Missing
<1>6. Swapping'
  <2>1. SUFFICES ASSUME node = "running", ~inPlace PROVE Salvaged(dir["live"])'
    BY <1>4 DEF Swapping, ClosedPc, SwapPc
  <2>2. /\ Servable(dir["backup"]) /\ dir["backup"] # Missing /\ faults >= 1
        /\ dir["live"] # Missing => faults >= 2 /\ dir["live"] \in {Torn, snapshot}
        /\ snapshot >= published
    BY <1>1, <2>1 DEF NodeInv, Disk, Swapping, Snapshots, RestorePc
  <2>3. CASE dir'["live"] = dir["backup"]
    BY <1>4, <2>2, <2>3 DEF Servable, Salvaged
  <2>4. CASE dir' = dir /\ (dir["live"] = Missing => faults' = faults + 1)
    <3>1. dir'["live"] = snapshot \/ (dir'["live"] \in {Missing, Torn} /\ faults' >= 2)
      BY <1>3, <2>2, <2>4, Numbers
    <3>2. QED
      BY <1>4, <2>2, <3>1 DEF Servable, Salvaged
  <2>5. QED
    BY <1>3, <2>2, <2>3, <2>4
<1>7. QED
  BY <1>4, <1>5, <1>6 DEF NodeInv, Disk

LEMMA ReopenKeeps == ASSUME NodeInv, Reopen PROVE NodeInv'
<1>1. /\ node # "down" /\ pc[Fsm] = "reopen" /\ Return(FALSE) /\ published' = published
      /\ \/ Opened /\ store' = NewHandle
         \/ NotOpened /\ store' = Nil
  BY DEF Reopen, At
<1>2. /\ pc[Fsm] \in ClosedPc \ FreshPc /\ pc[Fsm] \in SwapPc /\ pc[Fsm] \in RestorePc
  BY <1>1 DEF ClosedPc, SwapPc, FreshPc, RestorePc
<1>3. store = Nil /\ open = {} /\ NewHandle \in Handle /\ NewHandle # Nil
  BY <1>2, NothingOpen
<1>4. /\ ~inPlace /\ dir["live"] # Partial /\ dir["backup"] # Partial
      /\ node = "running" => Salvaged(dir["live"])
  BY <1>1 DEF NodeInv, Disk, InPlace, Staged, Source, Swapping, ClosedPc, SwapPc
<1>5. /\ Files' /\ faults' \in {faults, faults + 1} /\ dir'["backup"] = dir["backup"]
      /\ open' = {store'} \ {Nil} /\ store' \in Handle \cup {Nil} /\ open' \subseteq Handle
      /\ \/ dir'["live"] = dir["live"] /\ (store' # Nil => dir["live"] \notin {Missing, Torn})
         \/ dir["live"] \in {Missing, Torn} /\ dir'["live"] = Empty
  <2>1. CASE Opened /\ store' = NewHandle
    BY <1>3, <2>1, FilesTyped, OpenedDoes DEF DirName
  <2>2. CASE NotOpened /\ store' = Nil
    BY <1>3, <2>2, FilesTyped, NotOpenedDoes
  <2>3. QED
    BY <1>1, <2>1, <2>2
<1>6. TypeOK'
  BY <1>1, <1>5, ReturnTyped DEF NodeInv, TypeOK
<1>7. Control'
  BY <1>1, <1>2, <1>5, ReturnControl
<1>8. Disk'
  <2>1. ASSUME node = "running" PROVE Servable(dir["live"])'
    <3>1. /\ dir["live"] >= published \/ (dir["live"] \in {Missing, Torn, Empty} /\ lost)
            \/ (dir["live"] \in {Missing, Torn} /\ faults >= 2)
      BY <1>4, <2>1 DEF Salvaged, Servable
    <3>2. lost => lost'
      BY <1>1, FailedFlags
    <3>3. faults >= 2 => lost'
      BY <1>1, <1>5, FailedFlags, Numbers
    <3>4. published >= FirstGen /\ published \in Nat /\ dir["live"] \in Nat
      BY Numbers DEF NodeInv, Disk, Snapshots, DirName
    <3>5. dir["live"] \in {Missing, Torn} => ~(dir["live"] >= published)
      BY <3>4 DEF Missing, Torn, FirstGen
    <3>6. QED
      BY <1>1, <1>5, <3>1, <3>2, <3>3, <3>5 DEF Servable
  <2>2. Serving'
    <3>1. UNCHANGED inPlace
      BY <1>1, ReturnMeans
    <3>2. store' # Nil => dir'["live"] >= Empty
      BY <1>4, <1>5, Numbers DEF Missing, Torn, Partial, Empty, DirName
    <3>3. QED
      BY <1>4, <3>1, <3>2 DEF Serving
  <2>3. dir'["live"] # Partial /\ dir'["backup"] # Partial
    BY <1>4, <1>5 DEF Partial, Empty
  <2>4. QED
    BY <1>1, <1>2, <2>1, <2>2, <2>3, ReturnFalseDisk
<1>9. QED
  BY <1>6, <1>7, <1>8 DEF NodeInv

(* A restore in place that fails leaves no store.                          *)
LEMMA ReturnNothing ==
  ASSUME NodeInv, node # "down", pc[Fsm] \in {"wipe", "openEmpty", "loadLive"}, Return(FALSE),
         Files', UNCHANGED <<store, published>>, open' = {}
  PROVE  NodeInv'
<1>1. /\ pc[Fsm] \in ClosedPc /\ pc[Fsm] \in SwapPc /\ pc[Fsm] \in RestorePc /\ inPlace
  BY DEF ClosedPc, SwapPc, RestorePc, NodeInv, Disk, Staged, Source
<1>2. store' = Nil
  BY <1>1, NothingOpen
<1>3. TypeOK'
  BY <1>2, ReturnTyped DEF NodeInv, TypeOK
<1>4. Control'
  BY <1>1, <1>2, ReturnControl
<1>5. Disk'
  BY <1>1, <1>2, ReturnFalseDisk DEF Serving
<1>6. QED
  BY <1>3, <1>4, <1>5 DEF NodeInv

LEMMA WipeKeeps == ASSUME NodeInv, Wipe PROVE NodeInv'
<1>1. node # "down" /\ pc[Fsm] = "wipe" /\ UNCHANGED <<store, open, published>>
  BY DEF Wipe, At
<1>2. pc[Fsm] \in ClosedPc \ FreshPc /\ "openEmpty" \in ClosedPc \ FreshPc
  BY <1>1 DEF ClosedPc, SwapPc, FreshPc
<1>3. open = {} /\ inPlace
  BY <1>1, <1>2, NothingOpen DEF NodeInv, Disk, Staged, Source
<1>4. CASE RemoveAll("live") /\ Step("openEmpty") /\ UNCHANGED <<lock, fresh>>
  <2>1. Files'
    BY <1>4, FilesTyped, RemoveAllDoes DEF DirName
  <2>2. /\ TypeOK' /\ Control' /\ Snapshots' /\ Serving'
        /\ pc'[Fsm] = "openEmpty" /\ UNCHANGED <<node, snapshot, older, second, lost, inPlace, published>>
    BY <1>1, <1>2, <1>4, <2>1, FileStep
  <2>3. Staged' /\ InPlace' /\ Swapping'
    BY <1>3, <2>2 DEF Staged, Source, InPlace, Swapping, ClosedPc, SwapPc
  <2>4. QED
    BY <2>2, <2>3 DEF NodeInv, Disk
<1>5. CASE RemoveAll("live") /\ Return(FALSE)
  <2>1. Files'
    BY <1>5, FilesTyped, RemoveAllDoes DEF DirName
  <2>2. QED
    BY <1>1, <1>3, <1>5, <2>1, ReturnNothing
<1>6. CASE Fails /\ dir' = [dir EXCEPT !["live"] = Missing] /\ Return(FALSE)
  <2>1. Files'
    BY <1>6, FilesTyped, FailsDoes, NodeStoreAssumption DEF Files, DirName, Missing, FirstGen
  <2>2. QED
    BY <1>1, <1>3, <1>6, <2>1, ReturnNothing
<1>7. QED
  BY <1>4, <1>5, <1>6 DEF Wipe

LEMMA OpenEmptyKeeps == ASSUME NodeInv, OpenEmpty PROVE NodeInv'
<1>1. node # "down" /\ pc[Fsm] = "openEmpty" /\ UNCHANGED <<store, published>>
  BY DEF OpenEmpty, At
<1>2. /\ pc[Fsm] \in ClosedPc \ FreshPc /\ pc[Fsm] \in SwapPc
      /\ "loadLive" \in SwapPc /\ "loadLive" \in RestorePc /\ "loadLive" \in FreshPc
  BY <1>1 DEF ClosedPc, SwapPc, FreshPc, RestorePc
<1>3. /\ store = Nil /\ open = {} /\ fresh = Nil /\ NewHandle \in Handle /\ NewHandle # Nil
      /\ inPlace /\ snapshot # 0
  BY <1>1, <1>2, NothingOpen DEF NodeInv, Disk, Staged, Source, Snapshots, RestorePc
<1>4. CASE /\ Works /\ open' = open \cup {NewHandle} /\ fresh' = NewHandle
           /\ dir' = [dir EXCEPT !["live"] = Partial] /\ Step("loadLive") /\ UNCHANGED lock
  <2>1. Files' /\ open' = {NewHandle}
    BY <1>3, <1>4, FilesTyped, NodeStoreAssumption DEF Files, DirName, Works, Partial, FirstGen
  <2>2. TypeOK'
    BY <1>1, <1>2, <1>3, <1>4, <2>1, StepTyped DEF NodeInv, TypeOK, lock
  <2>3. Control'
    BY <1>1, <1>2, <1>3, <1>4, <2>1, SwapControl
  <2>4. pc'[Fsm] = "loadLive" /\ UNCHANGED <<node, snapshot, older, second, lost, inPlace, published, store>>
    BY <1>1, <1>4, StepMeans
  <2>5. Snapshots'
    BY <1>3, <2>4 DEF NodeInv, Disk, Snapshots
  <2>6. Staged' /\ InPlace' /\ Swapping' /\ Serving'
    BY <1>3, <2>4 DEF Staged, Source, InPlace, Swapping, Serving, ClosedPc, SwapPc
  <2>7. QED
    BY <2>2, <2>3, <2>5, <2>6 DEF NodeInv, Disk
<1>5. CASE NotOpened /\ Return(FALSE)
  <2>1. Files' /\ open' = {}
    BY <1>3, <1>5, FilesTyped, NotOpenedDoes
  <2>2. QED
    BY <1>1, <1>5, <2>1, ReturnNothing
<1>6. QED
  BY <1>4, <1>5 DEF OpenEmpty

LEMMA LoadLiveKeeps == ASSUME NodeInv, LoadLive PROVE NodeInv'
<1>1. node # "down" /\ pc[Fsm] = "loadLive"
  BY DEF LoadLive, At
<1>2. pc[Fsm] \in ClosedPc /\ pc[Fsm] \in SwapPc /\ pc[Fsm] \in RestorePc
  BY <1>1 DEF ClosedPc, SwapPc, RestorePc
<1>3. /\ open = {fresh} \ {Nil} /\ fresh \in Handle \cup {Nil} /\ inPlace
  BY <1>1, <1>2, NothingOpen DEF NodeInv, TypeOK, Disk, Staged
<1>a. /\ Source \in 0..FirstGen + MaxGen /\ Source \in Nat /\ Source >= FirstGen
      /\ Source \in {snapshot, older} /\ snapshot # 0 /\ snapshot >= FirstGen
      /\ older <= snapshot /\ (older # 0 => older >= FirstGen)
  BY <1>2, SourceIs DEF NodeInv, Disk, Snapshots
<1>4. CASE /\ Works /\ dir' = [dir EXCEPT !["live"] = Source] /\ store' = fresh
           /\ published' = Source /\ Return(TRUE) /\ UNCHANGED open
  <2>1. Files' /\ dir'["live"] = Source
    BY <1>4, <1>a, Numbers DEF Files, DirName, Works
  <2>2. TypeOK'
    BY <1>3, <1>4, <1>a, <2>1, ReturnTyped DEF NodeInv, TypeOK
  <2>3. Control'
    BY <1>1, <1>2, <1>3, <1>4, ReturnControl
  <2>4. pc'[Fsm] = "idle" /\ node' = "running" /\ ~second' /\ UNCHANGED <<snapshot, older, inPlace>>
    BY <1>4, ReturnMeans, DoneFlags
  <2>5. Snapshots'
    BY <1>4, <1>a, <2>4, Numbers DEF Snapshots, RestorePc, FirstGen
  <2>6. Staged' /\ InPlace' /\ Swapping'
    BY <1>3, <2>4 DEF Staged, Source, InPlace, Swapping, ClosedPc, SwapPc
  <2>7. Serving'
    BY <1>3, <1>4, <1>a, <2>1, <2>4 DEF Serving
  <2>8. QED
    BY <2>2, <2>3, <2>5, <2>6, <2>7 DEF NodeInv, Disk
<1>5. CASE /\ Fails /\ open' = open \ {fresh} /\ Return(FALSE)
           /\ UNCHANGED <<store, dir, published>>
  <2>1. Files' /\ open' = {}
    BY <1>3, <1>5, FilesTyped, FailsDoes DEF Files
  <2>2. QED
    BY <1>1, <1>5, <2>1, ReturnNothing
<1>6. QED
  BY <1>4, <1>5 DEF LoadLive

-----------------------------------------------------------------------------
(* The process ends and is started again: what is left is on disk.         *)

LEMMA GoneKeeps == ASSUME NodeInv, Gone, open' = {} PROVE NodeInv'
<1> USE Procs
<1>1. /\ node' = "down" /\ closed' = FALSE /\ once' = None /\ stopping' = FALSE
      /\ store' = Nil /\ fresh' = Nil /\ writer' = None /\ waiting' = {}
      /\ rlocks' = [p \in Proc |-> 0] /\ pc' = [p \in Proc |-> "idle"]
      /\ held' = [p \in Proc |-> Nil]
      /\ second' = FALSE /\ lost' = FALSE /\ faults' = 0
      /\ UNCHANGED <<dir, snapshot, older, published, inPlace>>
  BY DEF Gone
<1>2. TypeOK'
  <2>1. /\ pc' \in [Proc -> Label] /\ rlocks' \in [Proc -> 0..2]
        /\ held' \in [Proc -> Handle \cup {Nil}]
    BY <1>1 DEF Label
  <2>2. faults' \in 0..MaxFaults /\ second' \in BOOLEAN /\ lost' \in BOOLEAN
    <3>1. faults' \in 0..MaxFaults
      BY <1>1, NodeStoreAssumption
    <3>2. second' \in BOOLEAN /\ lost' \in BOOLEAN
      BY <1>1
    <3>3. QED
      BY <3>1, <3>2
  <2>3. QED
    BY <1>1, <2>1, <2>2 DEF NodeInv, TypeOK
<1>3. Control'
  BY <1>1 DEF Control, Places, Mutex, Handles, Closing, Phases, Depth, UsePc, SwapPc, ClosedPc,
              FreshPc, RestorePc, None
<1>4. Disk'
  BY <1>1 DEF NodeInv, Disk, Snapshots, Staged, Source, InPlace, Swapping, Serving, SwapPc, ClosedPc, RestorePc
<1>5. QED
  BY <1>2, <1>3, <1>4 DEF NodeInv

(* The second restore of an Open starts where the first one started.       *)
LEMMA TryOlderKeeps == ASSUME NodeInv, TryOlder PROVE NodeInv'
<1> USE Procs
<1>1. /\ node = "booting" /\ pc[Fsm] = "failed" /\ older # 0
      /\ second' = TRUE /\ faults' = 0
      /\ pc' = [pc EXCEPT ![Fsm] = IF inPlace THEN "lock" ELSE "stage"]
      /\ waiting' = IF inPlace THEN waiting \cup {Fsm} ELSE waiting
      /\ UNCHANGED <<node, closed, once, stopping, store, open, fresh, dir, writer, rlocks, held,
                     snapshot, older, lost, published, inPlace>>
  BY DEF TryOlder, CallRestore, Goto, AskLock, life, lock
<1>2. /\ pc \in [Proc -> Label] /\ pc'[Fsm] = IF inPlace THEN "lock" ELSE "stage"
      /\ \A p \in Proc \ {Fsm} : pc'[p] = pc[p]
  BY <1>1 DEF NodeInv, TypeOK
<1>3. TypeOK'
  <2>1. faults' \in 0..MaxFaults /\ second' \in BOOLEAN
    BY <1>1, NodeStoreAssumption
  <2>2. pc' \in [Proc -> Label]
    BY <1>1, <1>2 DEF Label, RestorePc
  <2>3. waiting' \subseteq {Fsm} \cup Closer
    BY <1>1 DEF NodeInv, TypeOK
  <2>4. QED
    BY <1>1, <2>1, <2>2, <2>3 DEF NodeInv, TypeOK
<1>4. Places'
  BY <1>1, <1>2 DEF NodeInv, Control, Places, RestorePc
<1>5. Mutex'
  BY <1>1, <1>2 DEF NodeInv, Control, Mutex, Depth, UsePc, SwapPc
<1>6. Handles'
  BY <1>1, <1>2 DEF NodeInv, Control, Handles, UsePc, SwapPc, FreshPc, ClosedPc
<1>7. Closing'
  BY <1>1, <1>2 DEF NodeInv, Control, Closing, Phases
<1>8. Phases'
  BY <1>1, <1>2 DEF NodeInv, Control, Phases, RestorePc
<1>9. Disk'
  <2>1. Snapshots'
    BY <1>1, <1>2 DEF NodeInv, Disk, Snapshots
  <2>2. Staged' /\ InPlace'
    BY <1>1, <1>2 DEF NodeInv, Disk, Staged, InPlace, ClosedPc, SwapPc
  <2>3. Swapping' /\ Serving'
    BY <1>1 DEF NodeInv, Disk, Swapping, Serving
  <2>4. QED
    BY <2>1, <2>2, <2>3 DEF Disk
<1>10. QED
  BY <1>3, <1>4, <1>5, <1>6, <1>7, <1>8, <1>9 DEF NodeInv, Control

LEMMA OpenFailsKeeps == ASSUME NodeInv, OpenFails PROVE NodeInv'
<1>1. pc[Fsm] = "failed" /\ Gone /\ open' = open \ {store}
  BY DEF OpenFails
<1>2. open = {store} \ {Nil}
  BY <1>1 DEF NodeInv, Control, Handles, FreshPc
<1>3. QED
  BY <1>1, <1>2, GoneKeeps

(* Without a snapshot nothing was ever restored over the first data.       *)
LEMMA BootKeeps == ASSUME NodeInv, Boot PROVE NodeInv'
<1> USE Procs
<1>1. /\ node = "down"
      /\ UNCHANGED <<closed, once, stopping, fresh, snapshot, older, second, lost, held, published, inPlace>>
  BY DEF Boot, snaps
<1>2. /\ pc[Fsm] = "idle" /\ store = Nil /\ fresh = Nil /\ open = {}
      /\ once = None /\ ~stopping
      /\ \A p \in Proc : pc[p] = "idle" /\ held[p] = Nil
  <2>1. pc[Fsm] = "idle" /\ store = Nil /\ once = None /\ ~stopping /\ \A p \in Proc : pc[p] = "idle"
    BY <1>1 DEF NodeInv, Control, Phases
  <2>2. QED
    BY <2>1 DEF NodeInv, Control, Handles, FreshPc, UsePc
<1>3. NewHandle \in Handle /\ NewHandle # Nil
  BY <1>2, NewHandleFresh
<1>4. CASE NotOpened /\ UNCHANGED <<store, node, pc, lock>>
  <2>1. Files' /\ dir' = dir /\ open' = open /\ faults' \in {faults, faults + 1}
    BY <1>4, FilesTyped, NotOpenedDoes
  <2>2. TypeOK'
    BY <1>1, <1>4, <2>1 DEF NodeInv, TypeOK, Files, DirName, lock
  <2>3. Control'
    BY <1>1, <1>4, <2>1 DEF NodeInv, Control, Places, Mutex, Handles, Closing, Phases, lock
  <2>4. Disk'
    BY <1>1, <1>2, <1>4, <2>1 DEF NodeInv, Disk, Snapshots, Staged, Source, InPlace, Swapping, Serving
  <2>5. QED
    BY <2>2, <2>3, <2>4 DEF NodeInv
<1>5. CASE /\ Opened /\ store' = NewHandle
           /\ IF snapshot = 0
              THEN node' = "running" /\ UNCHANGED <<pc, lock>>
              ELSE node' = "booting" /\ CallRestore
  <2>1. /\ Files' /\ faults' = faults /\ open' = {NewHandle}
        /\ dir'["live"] = IF dir["live"] \in {Missing, Torn} THEN Empty ELSE dir["live"]
        /\ dir'["backup"] = dir["backup"]
    BY <1>2, <1>5, FilesTyped, OpenedDoes DEF DirName
  <2>2. /\ writer' = writer /\ rlocks' = rlocks
        /\ waiting' = IF snapshot # 0 /\ inPlace THEN waiting \cup {Fsm} ELSE waiting
        /\ pc' = IF snapshot = 0 THEN pc
                 ELSE [pc EXCEPT ![Fsm] = IF inPlace THEN "lock" ELSE "stage"]
        /\ node' = IF snapshot = 0 THEN "running" ELSE "booting"
    BY <1>5 DEF CallRestore, Goto, AskLock, lock
  <2>3. /\ pc \in [Proc -> Label]
        /\ pc'[Fsm] = IF snapshot = 0 THEN "idle" ELSE IF inPlace THEN "lock" ELSE "stage"
        /\ \A p \in Proc \ {Fsm} : pc'[p] = "idle"
    BY <1>2, <2>2 DEF NodeInv, TypeOK
  <2>4. TypeOK'
    <3>1. pc' \in [Proc -> Label]
      BY <2>2, <2>3 DEF Label, RestorePc
    <3>2. waiting' \subseteq {Fsm} \cup Closer
      BY <2>2 DEF NodeInv, TypeOK
    <3>3. node' \in {"down", "booting", "running"}
      BY <2>2
    <3>4. QED
      BY <1>1, <1>3, <1>5, <2>1, <2>2, <3>1, <3>2, <3>3 DEF NodeInv, TypeOK, Files, DirName
  <2>5. Places'
    BY <2>3 DEF Places, RestorePc
  <2>6. Mutex'
    BY <1>2, <2>2, <2>3 DEF NodeInv, Control, Mutex, Depth, UsePc, SwapPc
  <2>7. Handles'
    BY <1>1, <1>2, <1>3, <1>5, <2>1, <2>3 DEF Handles, UsePc, SwapPc, FreshPc, ClosedPc
  <2>8. Closing'
    BY <1>1, <1>2, <2>3 DEF Closing, None
  <2>9. Phases'
    BY <1>1, <1>2, <2>2, <2>3 DEF Phases, RestorePc
  <2>10. Snapshots'
    BY <1>1, <2>1, <2>3, Numbers DEF NodeInv, Disk, Snapshots, RestorePc, Missing, Torn, FirstGen
  <2>11. Staged' /\ InPlace'
    BY <1>1, <2>1, <2>3 DEF NodeInv, Disk, Staged, Source, InPlace, ClosedPc, SwapPc, Empty, Partial
  <2>12. Swapping' /\ Serving'
    <3>1. CASE snapshot = 0
      <4>1. dir["live"] = FirstGen /\ published = FirstGen /\ dir'["live"] = FirstGen
        BY <2>1, <3>1 DEF NodeInv, Disk, Snapshots, FirstGen, Missing, Torn
      <4>2. QED
        BY <1>1, <2>3, <3>1, <4>1 DEF Swapping, Serving, Servable, FirstGen, Empty, ClosedPc, SwapPc
    <3>2. CASE snapshot # 0
      <4>1. node' = "booting"
        BY <2>2, <3>2
      <4>2. ~inPlace => dir'["live"] >= Empty
        BY <2>1, Numbers DEF NodeInv, Disk, Staged, Source, Missing, Torn, Partial, Empty, DirName
      <4>3. QED
        BY <1>1, <4>1, <4>2 DEF Swapping, Serving
    <3>3. QED
      BY <3>1, <3>2
  <2>13. QED
    BY <2>4, <2>5, <2>6, <2>7, <2>8, <2>9, <2>10, <2>11, <2>12 DEF NodeInv, Control, Disk
<1>6. QED
  BY <1>4, <1>5 DEF Boot

-----------------------------------------------------------------------------
LEMMA InitNode == ASSUME Init PROVE NodeInv
<1> USE Procs
<1>1. /\ inPlace \in Layouts /\ node = "running" /\ closed = FALSE /\ once = None
      /\ stopping = FALSE /\ store = 1 /\ open = {1} /\ fresh = Nil
      /\ snapshot \in {0, FirstGen} /\ older = 0 /\ second = FALSE /\ lost = FALSE
      /\ writer = None /\ waiting = {} /\ rlocks = [p \in Proc |-> 0]
      /\ pc = [p \in Proc |-> "idle"] /\ held = [p \in Proc |-> Nil]
      /\ published = FirstGen /\ faults = 0
  BY DEF Init
<1>2. /\ dir \in [{"live", "staging", "backup"} -> 0..FirstGen + MaxGen]
      /\ dir["live"] = FirstGen /\ dir["staging"] = Missing /\ dir["backup"] = Missing
  BY NodeStoreAssumption DEF Init, FirstGen, Missing
<1>3. TypeOK
  <2>1. pc \in [Proc -> Label] /\ rlocks \in [Proc -> 0..2] /\ held \in [Proc -> Handle \cup {Nil}]
    BY <1>1 DEF Label
  <2>2. snapshot \in 0..FirstGen + MaxGen /\ published \in 0..FirstGen + MaxGen /\ faults \in 0..MaxFaults
    BY <1>1, NodeStoreAssumption DEF FirstGen
  <2>3. inPlace \in BOOLEAN /\ older \in 0..FirstGen + MaxGen /\ second \in BOOLEAN /\ lost \in BOOLEAN
    <3>1. inPlace \in BOOLEAN
      BY <1>1, NodeStoreAssumption
    <3>2. older \in 0..FirstGen + MaxGen
      BY <1>1, NodeStoreAssumption DEF FirstGen
    <3>3. second \in BOOLEAN /\ lost \in BOOLEAN
      BY <1>1
    <3>4. QED
      BY <3>1, <3>2, <3>3
  <2>4. QED
    BY <1>1, <1>2, <2>1, <2>2, <2>3, HandleSet DEF TypeOK
<1>4. Control
  BY <1>1 DEF Control, Places, Mutex, Handles, Closing, Phases, Depth, UsePc, SwapPc, ClosedPc,
              FreshPc, RestorePc, None, Nil
<1>5. Disk
  BY <1>1, <1>2 DEF Disk, Snapshots, Staged, Source, InPlace, Swapping, Serving, Servable, SwapPc, ClosedPc,
                    RestorePc, FirstGen, Missing, Partial, Empty
<1>6. QED
  BY <1>3, <1>4, <1>5 DEF NodeInv

LEMMA RestoreKeeps == ASSUME NodeInv, Restore PROVE NodeInv'
BY StageKeeps, LoadKeeps, SwapLockKeeps, CleanKeeps, CloseOldKeeps, AsideKeeps, PlaceKeeps,
   OpenNewKeeps, PublishKeeps, DropKeeps, RollbackKeeps, ReopenKeeps, WipeKeeps, OpenEmptyKeeps,
   LoadLiveKeeps DEF Restore

LEMMA NextKeeps == ASSUME NodeInv, [Next]_vars PROVE NodeInv'
<1>1. CASE \E p \in User : Begin(p) \/ BeginNested(p) \/ UserStep(p) \/ RaftExit(p)
  <2>1. PICK p \in User : Begin(p) \/ BeginNested(p) \/ UserStep(p) \/ RaftExit(p)
    BY <1>1
  <2>2. QED
    BY <2>1, BeginKeeps, EnterNothing, EnterStore, LeaveKeeps, BeginNestedKeeps, EnterNestedKeeps,
       LeaveNestedKeeps, RaftExitKeeps DEF UserStep
<1>2. CASE \E c \in Closer : CloseCall(c) \/ CloseStep(c)
  <2>1. PICK c \in Closer : CloseCall(c) \/ CloseStep(c)
    BY <1>2
  <2>2. QED
    BY <2>1, CloseFirst, CloseAgain, CloseShutdownKeeps, CloseAwaitKeeps, CloseStoreKeeps,
       CloseOtherKeeps DEF CloseStep
<1>3. CASE Crash
  BY <1>3, GoneKeeps DEF Crash
<1>4. CASE UNCHANGED vars
  BY <1>4 DEF NodeInv, TypeOK, Control, Places, Mutex, Handles, Closing, Phases, Disk, Snapshots,
              Staged, Source, InPlace, Swapping, Serving, Servable, Salvaged, vars, life, snaps, lock
<1>5. QED
  BY <1>1, <1>2, <1>3, <1>4, InstallKeeps, RestoreKeeps, TryOlderKeeps, OpenFailsKeeps,
     BootKeeps DEF Next

(* The inductive invariant: the program counters determine storeMu and the *)
(* instances (db.go, withStore; fsm.go, Restore), and the files hold, at   *)
(* each step of a restore, what a failure or a crash there goes back to.   *)
THEOREM NodeInvHolds == Spec => []NodeInv
<1>1. Init => NodeInv
  BY InitNode
<1>2. NodeInv /\ [Next]_vars => NodeInv'
  BY NextKeeps
<1>3. QED
  BY <1>1, <1>2, PTL DEF Spec

(* The variables of a node keep their shapes; in particular an open        *)
(* (badger.Open in Open and Restore) always finds a free handle.           *)
THEOREM NodeTypeCorrect == Spec => []TypeOK
<1>1. NodeInv => TypeOK
  BY DEF NodeInv
<1>2. QED
  BY <1>1, NodeInvHolds, PTL

(* Nobody uses a Badger instance after a swap or Close has closed it.      *)
THEOREM NoUseAfterCloseHolds == Spec => []NoUseAfterClose
<1>1. NodeInv => NoUseAfterClose
  BY DEF NodeInv, Control, Handles, NoUseAfterClose
<1>2. QED
  BY <1>1, NodeInvHolds, PTL

(* No path through Restore, Close, a crash or a failing Open opens a       *)
(* second instance on the live directory or loses the one that is open.    *)
THEOREM NoLostInstanceHolds == Spec => []NoLostInstance
<1>1. ASSUME NodeInv PROVE NoLostInstance
  <2>1. Fsm # None
    BY DEF Fsm, None
  <2>2. writer = None => open = {store} \ {Nil}
    <3>1. writer = None => pc[Fsm] \notin FreshPc
      BY <1>1, <2>1 DEF NodeInv, Control, Mutex, SwapPc, FreshPc
    <3>2. QED
      BY <1>1, <3>1 DEF NodeInv, Control, Handles
  <2>3. \E h : open = {} \/ open = {h}
    <3>1. CASE pc[Fsm] \in FreshPc
      <4>1. store = Nil
        BY <1>1, <3>1 DEF NodeInv, Control, Handles, FreshPc, ClosedPc, SwapPc
      <4>2. QED
        BY <1>1, <4>1 DEF NodeInv, Control, Handles
    <3>2. CASE pc[Fsm] \notin FreshPc
      BY <1>1, <3>2 DEF NodeInv, Control, Handles
    <3>3. QED
      BY <3>1, <3>2
  <2>4. Cardinality(open) <= 1
    <3>1. PICK h : open = {} \/ open = {h}
      BY <2>3
    <3>2. CASE open = {}
      BY <3>2, FS_EmptySet
    <3>3. CASE open = {h}
      <4>1. Cardinality({h}) = 1
        BY FS_Singleton
      <4>2. QED
        BY <3>3, <4>1
    <3>4. QED
      BY <3>1, <3>2, <3>3
  <2>5. QED
    BY <2>2, <2>4 DEF NoLostInstance
<1>2. QED
  BY <1>1, NodeInvHolds, PTL

(* Once Close has returned, no restore that was under way publishes a      *)
(* store and no reader has one: Close waits for Raft before storeMu.       *)
THEOREM ClosedIsFinalHolds == Spec => []ClosedIsFinal
<1>1. ASSUME NodeInv PROVE ClosedIsFinal
  <2>1. SUFFICES ASSUME once = "done"
                 PROVE  /\ store = Nil /\ open = {}
                        /\ \A p \in Proc : held[p] = Nil
                        /\ \A p \in {Fsm, Snap} : pc[p] = "exited"
    BY DEF ClosedIsFinal
  <2>2. store = Nil /\ pc[Fsm] = "exited" /\ pc[Snap] = "exited"
    BY <1>1, <2>1 DEF NodeInv, Control, Closing
  <2>3. open = {} /\ \A p \in Proc : held[p] = Nil
    BY <1>1, <2>2 DEF NodeInv, Control, Handles, FreshPc
  <2>4. QED
    BY <2>2, <2>3
<1>2. QED
  BY <1>1, NodeInvHolds, PTL

(* Whatever fails in a restore and wherever a crash falls, a goroutine     *)
(* finds a complete database that is no older than what was published, or  *)
(* an empty one after two failures of the staged swap (fsm.go, Restore,    *)
(* rollbackAndReopenLocked).                                               *)
THEOREM ServesPublishedOrEmptyHolds == Spec => []ServesPublishedOrEmpty
<1>1. ASSUME NodeInv PROVE ServesPublishedOrEmpty
  <2>1. SUFFICES ASSUME NEW p \in Proc, held[p] # Nil
                 PROVE  \/ dir["live"] >= published
                        \/ dir["live"] = Empty /\ lost /\ ~inPlace
    BY DEF ServesPublishedOrEmpty
  <2>2. pc[p] \in UsePc /\ store # Nil
    BY <1>1, <2>1 DEF NodeInv, Control, Handles
  <2>3. pc[Fsm] \notin SwapPc
    BY <1>1, <2>2 DEF NodeInv, Control, Mutex
  <2>4. node = "running"
    <3>1. node = "down" \/ node = "booting" \/ node = "running"
      BY <1>1 DEF NodeInv, TypeOK
    <3>2. p # Fsm => node = "running"
      BY <1>1, <2>2 DEF NodeInv, Control, Phases, UsePc
    <3>3. p = Fsm => node = "running"
      BY <1>1, <2>2, <3>1 DEF NodeInv, Control, Phases, UsePc, RestorePc
    <3>4. QED
      BY <3>2, <3>3
  <2>5. CASE inPlace
    BY <1>1, <2>2, <2>4, <2>5 DEF NodeInv, Disk, Serving
  <2>6. CASE ~inPlace
    <3>1. Servable(dir["live"]) /\ dir["live"] >= Empty
      BY <1>1, <2>2, <2>3, <2>4, <2>6 DEF NodeInv, Disk, Swapping, Serving, ClosedPc
    <3>2. QED
      BY <1>1, <2>6, <3>1, Numbers DEF Servable, Missing, Torn, Empty
  <2>7. QED
    BY <2>5, <2>6
<1>2. QED
  BY <1>1, NodeInvHolds, PTL

(* What a node publishes, and with it what ServesPublishedOrEmpty measures *)
(* its readers against, goes back in one way only: Open published the      *)
(* older snapshot because restoring the newest failed (fsm.go, Restore).   *)
THEOREM GoesBackOnlyToOlderHolds == Spec => GoesBackOnlyToOlder
<1> DEFINE Allowed == published' >= published \/ (node = "booting" /\ second /\ published' = older)
<1>1. ASSUME NodeInv, [Next]_vars PROVE Allowed
  <2>0. published \in Nat /\ published >= published
    BY <1>1, Numbers
  <2>1. CASE Publish
    <3>1. pc[Fsm] = "publish" /\ published' = dir["live"]
      BY <2>1 DEF Publish, At
    <3>2. dir["live"] = Source
      BY <1>1, <3>1 DEF NodeInv, Disk, InPlace, Staged, ClosedPc, SwapPc
    <3>3. snapshot >= published /\ (second => node = "booting")
      BY <1>1, <3>1 DEF NodeInv, Disk, Snapshots, RestorePc
    <3>4. QED
      BY <3>1, <3>2, <3>3 DEF Source
  <2>2. CASE LoadLive
    <3>1. pc[Fsm] = "loadLive" /\ published' \in {Source, published}
      BY <2>2 DEF LoadLive, At
    <3>2. snapshot >= published /\ (second => node = "booting")
      BY <1>1, <3>1 DEF NodeInv, Disk, Snapshots, RestorePc
    <3>3. QED
      BY <2>0, <3>1, <3>2 DEF Source
  <2>3. CASE Restore /\ ~Publish /\ ~LoadLive
    BY <2>0, <2>3 DEF Restore, Stage, Load, SwapLock, Clean, CloseOld, Aside, Place, OpenNew, Drop,
                      Rollback, Reopen, Wipe, OpenEmpty
  <2>4. CASE \E p \in User : Begin(p) \/ BeginNested(p) \/ UserStep(p) \/ RaftExit(p)
    BY <2>0, <2>4 DEF Begin, BeginNested, UserStep, RaftExit, Enter, Leave, EnterNested, LeaveNested
  <2>5. CASE \E c \in Closer : CloseCall(c) \/ CloseStep(c)
    BY <2>0, <2>5 DEF CloseCall, CloseStep, CloseShutdown, CloseAwait, CloseStore, CloseOther
  <2>6. CASE Install \/ Crash \/ OpenFails \/ Boot \/ TryOlder \/ UNCHANGED vars
    BY <2>0, <2>6 DEF Install, Crash, OpenFails, Boot, TryOlder, Gone, vars
  <2>7. QED
    BY <1>1, <2>1, <2>2, <2>3, <2>4, <2>5, <2>6 DEF Next
<1>2. NodeInv /\ [Next]_vars => [Allowed]_vars
  BY <1>1
<1>3. QED
  BY <1>2, NodeInvHolds, PTL DEF Spec, GoesBackOnlyToOlder
=============================================================================
