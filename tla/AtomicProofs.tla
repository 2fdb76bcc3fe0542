---------------------------- MODULE AtomicProofs ----------------------------
(***************************************************************************)
(* A node's store is AtomicStore: for any number of readers and closers,   *)
(* snapshots and failing operations, either layout of the directories, and *)
(* crashes anywhere.                                                       *)
(***************************************************************************)
EXTENDS StoreHistory, NodeStoreProofs

(* What a swap goes back to.  The data Restore found are in the live       *)
(* directory, and then in the backup until the new store is published or   *)
(* the backup moved back; the live directory is never anything else than   *)
(* they, the Source, or a directory that opens without data.               *)
Kept == {"clean", "close", "aside"}
BackedUp == {"place", "open", "publish", "drop", "rollback"}

SwapInv ==
  /\ Swaps => Data(dir["live"]) \in {before.content, Source, Empty}
  /\ pc[Fsm] \in Kept => Data(dir["live"]) = before.content
  /\ pc[Fsm] \in BackedUp => Data(dir["backup"]) = before.content


(* What a step of the node has to be for those who use the store.          *)
Refines == SwapInv' /\ [Atomic!Next]_(Atomic!vars)

-----------------------------------------------------------------------------
(* The ways a step can show.                                               *)

(* Not at all: nothing changes but what the swap works on.                 *)
LEMMA Unseen ==
  ASSUME UNCHANGED <<node, snapshot, older, held>>, once' = "done" <=> once = "done",
         Current' = Current
  PROVE  UNCHANGED Atomic!vars
BY DEF Atomic!vars

(* Within a swap the store of AtomicStore is the one Restore found.        *)
LEMMA WithinSwap ==
  ASSUME Remember, Swaps, Swaps', UNCHANGED <<node, snapshot, older, held>>,
         once' = "done" <=> once = "done"
  PROVE  before' = before /\ UNCHANGED Atomic!vars
<1>1. before' = before
  BY DEF Remember
<1>2. Current' = Current
  BY <1>1 DEF Current
<1>3. QED
  BY <1>1, <1>2, Unseen

(* Outside of one it is the one there is.                                  *)
LEMMA OutsideSwap ==
  ASSUME ~Swaps, ~Swaps', UNCHANGED <<node, snapshot, older, held, store>>,
         once' = "done" <=> once = "done",
         Data(dir["live"])' = Data(dir["live"])
  PROVE  SwapInv' /\ UNCHANGED Atomic!vars
<1>1. Current' = Current
  BY DEF Current, Found
<1>2. SwapInv'
  BY DEF SwapInv, Swaps, SwapPc, Kept, BackedUp
<1>3. QED
  BY <1>1, <1>2, Unseen

(* A step of another goroutine leaves the swap where it is.                *)
LEMMA AnotherStep ==
  ASSUME SwapInv, Remember, UNCHANGED <<node, snapshot, older, second, held, store, dir>>,
         once' = "done" <=> once = "done",
         pc'[Fsm] = pc[Fsm] \/ (pc[Fsm] \notin SwapPc /\ pc'[Fsm] \notin SwapPc)
  PROVE  Refines
<1>1. CASE Swaps
  <2>1. Swaps' /\ pc'[Fsm] = pc[Fsm]
    BY <1>1 DEF Swaps
  <2>2. before' = before /\ UNCHANGED Atomic!vars
    BY <1>1, <2>1, WithinSwap
  <2>3. SwapInv'
    BY <1>1, <2>1, <2>2 DEF SwapInv, Data, Swaps, Source
  <2>4. QED
    BY <2>2, <2>3 DEF Refines
<1>2. CASE ~Swaps
  <2>1. ~Swaps'
    BY <1>2 DEF Swaps
  <2>2. Data(dir["live"])' = Data(dir["live"])
    BY DEF Data
  <2>3. QED
    BY <1>2, <2>1, <2>2, OutsideSwap DEF Refines
<1>3. QED
  BY <1>1, <1>2

(* storeMu keeps everybody out of the swap, and Close behind it.           *)
LEMMA Alone ==
  ASSUME NodeInv, Swaps
  PROVE  /\ {p \in Proc : held[p] # Nil} = {}
         /\ snapshot # 0 /\ once # "done"
         /\ node \in {"booting", "running"}
         /\ node = "booting" => once = None
<1>1. {p \in Proc : held[p] # Nil} = {}
  BY DEF NodeInv, Control, Mutex, Handles, Swaps
<1>2. snapshot # 0
  BY DEF NodeInv, Disk, Snapshots, Swaps, SwapPc, RestorePc
<1>3. once # "done"
  BY DEF NodeInv, Control, Closing, Swaps, SwapPc
<1>4. node \in {"booting", "running"}
  BY DEF NodeInv, TypeOK, Control, Phases, Swaps, SwapPc
<1>5. node = "booting" => once = None
  BY DEF NodeInv, Control, Phases
<1>6. QED
  BY <1>1, <1>2, <1>3, <1>4, <1>5

(* The snapshot a swap restores is the newest, or in Open the older one.   *)
LEMMA FromRetained ==
  ASSUME NodeInv, Swaps
  PROVE  /\ Source \in Atomic!Retained /\ Source \in Nat /\ Source >= FirstGen
         /\ node = "running" => Source = snapshot
<1>1. pc[Fsm] \in RestorePc
  BY DEF Swaps, SwapPc, RestorePc
<1>2. QED
  BY <1>1, SourceIs DEF Atomic!Retained

(* A swap that ends without a new store: RestoreFails, or OpenFails.       *)
LEMMA SwapGivenUp ==
  ASSUME NodeInv, Swaps, ~Swaps', UNCHANGED <<node, once, snapshot, older, held>>,
         Data(dir["live"])' \in {before.content, Source, Empty}
  PROVE  Refines
<1>1. SwapInv'
  BY DEF SwapInv, Swaps, SwapPc, Kept, BackedUp
<1>2. /\ Current = before
      /\ Current'.content \in {before.content, Source, Empty}
      /\ Current'.open \in BOOLEAN
  BY DEF Current, Found
<1>3. CASE node = "running"
  <2>1. Atomic!RestoreFails
    BY <1>2, <1>3, Alone, FromRetained DEF Atomic!RestoreFails, Atomic!Unfinished
  <2>2. QED
    BY <1>1, <2>1 DEF Refines, Atomic!Next
<1>4. CASE node = "booting"
  <2>1. Atomic!OpenFails
    BY <1>2, <1>4, Alone, FromRetained DEF Atomic!OpenFails, Atomic!Unfinished
  <2>2. QED
    BY <1>1, <2>1 DEF Refines, Atomic!Next
<1>5. QED
  BY <1>3, <1>4, Alone

(* A swap that publishes: Restored, or Open's end.                         *)
LEMMA SwapDone ==
  ASSUME NodeInv, Swaps, ~Swaps', UNCHANGED <<once, snapshot, older, held>>,
         node' = "running", store' # Nil, dir'["live"] = Source
  PROVE  Refines
<1>1. SwapInv'
  BY DEF SwapInv, Swaps, SwapPc, Kept, BackedUp
<1>2. Data(dir["live"])' = Source
  BY FromRetained DEF Data, FirstGen, Empty
<1>3. Current'.content = Source /\ Current'.open = TRUE
  BY <1>2 DEF Current, Found
<1>4. CASE node = "running"
  <2>1. Atomic!Restored
    BY <1>3, <1>4, Alone, FromRetained DEF Atomic!Restored
  <2>2. QED
    BY <1>1, <2>1 DEF Refines, Atomic!Next
<1>5. CASE node = "booting"
  <2>1. Atomic!Open
    BY <1>3, <1>5, Alone, FromRetained DEF Atomic!Open
  <2>2. QED
    BY <1>1, <2>1 DEF Refines, Atomic!Next
<1>6. QED
  BY <1>4, <1>5, Alone


-----------------------------------------------------------------------------
(* The steps of a restore.                                                 *)

(* Step and Return as AtomicStore sees them.                               *)
LEMMA StepIs ==
  ASSUME NodeInv, NEW l, Step(l)
  PROVE  /\ pc'[Fsm] = l
         /\ UNCHANGED <<node, once, snapshot, older, second, held>>
BY StepMeans DEF Step, life, snaps

LEMMA ReturnIs ==
  ASSUME NodeInv, NEW ok \in BOOLEAN, Return(ok)
  PROVE  /\ ~Swaps'
         /\ node' = IF ok THEN "running" ELSE node
         /\ UNCHANGED <<once, snapshot, older, held>>
<1>1. pc'[Fsm] \in {"idle", "failed"}
  BY ReturnMeans
<1>2. QED
  BY <1>1, ReturnMeans DEF Return, Swaps, SwapPc

(* A step inside the swap is unseen; what is left is what it keeps.        *)
LEMMA SwapStep ==
  ASSUME NodeInv, Remember, Swaps, NEW l \in SwapPc, Step(l),
         Data(dir["live"])' \in {before.content, Source, Empty},
         l \in Kept => Data(dir["live"])' = before.content,
         l \in BackedUp => Data(dir["backup"])' = before.content
  PROVE  Refines
<1>1. pc'[Fsm] = l /\ UNCHANGED <<node, once, snapshot, older, second, held>>
  BY StepIs
<1>2. Swaps'
  BY <1>1 DEF Swaps
<1>3. before' = before /\ UNCHANGED Atomic!vars
  BY <1>1, <1>2, WithinSwap
<1>4. SwapInv'
  BY <1>1, <1>3 DEF SwapInv, Source
<1>5. QED
  BY <1>3, <1>4 DEF Refines

LEMMA StageRefines == ASSUME NodeInv, SwapInv, Remember, Stage PROVE Refines
<1>1. pc[Fsm] = "stage" /\ store' = store
  BY DEF Stage, At
<1>2. ~Swaps
  BY <1>1 DEF Swaps, SwapPc
<1>3. CASE RemoveAll("staging") /\ Return(FALSE)
  <2>1. dir'["live"] = dir["live"]
    BY <1>3, FilesTyped, RemoveAllDoes DEF DirName
  <2>2. ~Swaps' /\ UNCHANGED <<node, once, snapshot, older, held>>
    BY <1>3, ReturnIs
  <2>3. QED
    BY <1>1, <1>2, <2>1, <2>2, OutsideSwap DEF Refines, Data
<1>4. CASE dir' = [dir EXCEPT !["staging"] = Partial] /\ Step("load")
  <2>1. dir'["live"] = dir["live"]
    BY <1>4, FilesTyped DEF Files, DirName
  <2>2. pc'[Fsm] = "load" /\ UNCHANGED <<node, once, snapshot, older, held>>
    BY <1>4, StepIs
  <2>3. ~Swaps'
    BY <2>2 DEF Swaps, SwapPc
  <2>4. QED
    BY <1>1, <1>2, <2>1, <2>2, <2>3, OutsideSwap DEF Refines, Data
<1>5. QED
  BY <1>3, <1>4 DEF Stage

LEMMA LoadRefines == ASSUME NodeInv, SwapInv, Remember, Load PROVE Refines
<1>1. pc[Fsm] = "load" /\ store' = store
  BY DEF Load, At
<1>2. ~Swaps
  BY <1>1 DEF Swaps, SwapPc
<1>3. \E c : dir' = [dir EXCEPT !["staging"] = c]
  BY DEF Load
<1>4. dir'["live"] = dir["live"]
  BY <1>3, FilesTyped DEF Files, DirName
<1>5. ~Swaps' /\ UNCHANGED <<node, once, snapshot, older, held>>
  <2>1. CASE Step("lock")
    BY <2>1, StepIs DEF Swaps, SwapPc
  <2>2. CASE Return(FALSE)
    BY <2>2, ReturnIs
  <2>3. QED
    BY <2>1, <2>2 DEF Load
<1>6. QED
  BY <1>1, <1>2, <1>4, <1>5, OutsideSwap DEF Refines, Data

(* The store Restore found becomes the one AtomicStore goes on showing.    *)
LEMMA SwapLockRefines == ASSUME NodeInv, SwapInv, Remember, SwapLock PROVE Refines
<1>1. pc[Fsm] = "lock" /\ UNCHANGED <<store, dir>>
  BY DEF SwapLock, At
<1>2. pc'[Fsm] \in {"clean", "close"} /\ UNCHANGED <<node, once, snapshot, older, held>>
  BY StepIs DEF SwapLock
<1>3. ~Swaps /\ Swaps'
  BY <1>1, <1>2 DEF Swaps, SwapPc
<1>4. Found' = Found
  BY <1>1 DEF Found, Data
<1>5. before' = Found
  BY <1>3, <1>4 DEF Remember
<1>6. Current' = Current
  BY <1>3, <1>5 DEF Current
<1>7. UNCHANGED Atomic!vars
  BY <1>2, <1>6, Unseen
<1>8. SwapInv'
  <2>1. Data(dir["live"])' = before'.content
    BY <1>1, <1>5 DEF Found, Data
  <2>2. pc'[Fsm] \notin BackedUp
    BY <1>2 DEF BackedUp
  <2>3. QED
    BY <2>1, <2>2 DEF SwapInv
<1>9. QED
  BY <1>7, <1>8 DEF Refines

LEMMA CleanRefines == ASSUME NodeInv, SwapInv, Remember, Clean PROVE Refines
<1>1. pc[Fsm] = "clean" /\ RemoveAll("backup") /\ Step("close")
  BY DEF Clean, At
<1>2. dir'["live"] = dir["live"]
  BY <1>1, FilesTyped, RemoveAllDoes DEF DirName
<1>3. Swaps /\ "close" \in SwapPc /\ "close" \notin BackedUp /\ Data(dir["live"])' = before.content
  BY <1>1, <1>2 DEF SwapInv, Swaps, SwapPc, Kept, BackedUp, Data
<1>4. QED
  BY <1>1, <1>3, SwapStep

LEMMA CloseOldRefines == ASSUME NodeInv, SwapInv, Remember, CloseOld PROVE Refines
<1>1. pc[Fsm] = "close" /\ UNCHANGED dir
  BY DEF CloseOld, At
<1>2. Swaps /\ Data(dir["live"])' = before.content
  BY <1>1 DEF SwapInv, Swaps, SwapPc, Kept, Data
<1>3. CASE Step(IF inPlace THEN "wipe" ELSE "aside")
  <2>1. PICK l \in {"wipe", "aside"} : Step(l)
    BY <1>3
  <2>2. l \in SwapPc /\ l \notin BackedUp
    BY DEF SwapPc, BackedUp
  <2>3. QED
    BY <1>2, <2>1, <2>2, SwapStep
<1>4. CASE Return(FALSE)
  BY <1>2, <1>4, ReturnIs, SwapGivenUp
<1>5. QED
  BY <1>3, <1>4 DEF CloseOld


(* The old data go to the backup, or stay and are opened again.            *)
LEMMA AsideRefines == ASSUME NodeInv, SwapInv, Remember, Aside PROVE Refines
<1>1. pc[Fsm] = "aside"
  BY DEF Aside, At
<1>2. Swaps /\ Data(dir["live"]) = before.content
  BY <1>1 DEF SwapInv, Swaps, SwapPc, Kept
<1>3. CASE Renamed("live", "backup") /\ Step("place")
  <2>1. dir'["backup"] = dir["live"] /\ dir'["live"] = Missing
    BY <1>3, FilesTyped, RenamedDoes DEF DirName
  <2>2. Data(dir["backup"])' = before.content /\ Data(dir["live"])' = Empty
    BY <1>2, <2>1 DEF Data, Missing, Empty
  <2>3. "place" \in SwapPc /\ "place" \notin Kept
    BY DEF SwapPc, Kept
  <2>4. QED
    BY <1>2, <1>3, <2>2, <2>3, SwapStep
<1>4. CASE NotRenamed("live", "backup") /\ Step("reopen")
  <2>1. dir' = dir
    BY <1>4, FilesTyped, NotRenamedDoes DEF DirName
  <2>2. Data(dir["live"])' = before.content
    BY <1>2, <2>1 DEF Data
  <2>3. "reopen" \in SwapPc /\ "reopen" \notin Kept /\ "reopen" \notin BackedUp
    BY DEF SwapPc, Kept, BackedUp
  <2>4. QED
    BY <1>2, <1>4, <2>2, <2>3, SwapStep
<1>5. QED
  BY <1>3, <1>4 DEF Aside

LEMMA PlaceRefines == ASSUME NodeInv, SwapInv, Remember, Place PROVE Refines
<1>1. pc[Fsm] = "place"
  BY DEF Place, At
<1>2. /\ Swaps /\ Data(dir["backup"]) = before.content
      /\ Data(dir["live"]) \in {before.content, Source, Empty}
  BY <1>1 DEF SwapInv, Swaps, SwapPc, BackedUp
<1>3. CASE Renamed("staging", "live") /\ Step("open")
  <2>1. dir["staging"] = Source
    BY <1>1 DEF NodeInv, Disk, Staged, InPlace, ClosedPc, SwapPc
  <2>2. dir'["live"] = Source /\ dir'["backup"] = dir["backup"]
    BY <1>3, <2>1, FilesTyped, RenamedDoes DEF DirName
  <2>3. /\ Data(dir["backup"])' = before.content
        /\ Data(dir["live"])' \in {before.content, Source, Empty}
    BY <1>2, <2>2 DEF Data
  <2>4. "open" \in SwapPc /\ "open" \notin Kept
    BY DEF SwapPc, Kept
  <2>5. QED
    BY <1>2, <1>3, <2>3, <2>4, SwapStep
<1>4. CASE NotRenamed("staging", "live") /\ Step("rollback")
  <2>1. dir' = dir
    BY <1>4, FilesTyped, NotRenamedDoes DEF DirName
  <2>2. /\ Data(dir["backup"])' = before.content
        /\ Data(dir["live"])' \in {before.content, Source, Empty}
    BY <1>2, <2>1 DEF Data
  <2>3. "rollback" \in SwapPc /\ "rollback" \notin Kept
    BY DEF SwapPc, Kept
  <2>4. QED
    BY <1>2, <1>4, <2>2, <2>3, SwapStep
<1>5. QED
  BY <1>3, <1>4 DEF Place

(* badger.Open does not change what it would find.                         *)
LEMMA OpenedData ==
  ASSUME NodeInv, Opened
  PROVE  Data(dir["live"])' = Data(dir["live"]) /\ dir'["backup"] = dir["backup"]
<1>1. /\ dir'["live"] = IF dir["live"] \in {Missing, Torn} THEN Empty ELSE dir["live"]
      /\ dir'["backup"] = dir["backup"]
  BY FilesTyped, OpenedDoes DEF DirName
<1>2. QED
  BY <1>1, Numbers DEF Data, Missing, Torn, Empty

LEMMA OpenNewRefines == ASSUME NodeInv, SwapInv, Remember, OpenNew PROVE Refines
<1>1. pc[Fsm] = "open"
  BY DEF OpenNew, At
<1>2. /\ Swaps /\ Data(dir["backup"]) = before.content
      /\ Data(dir["live"]) \in {before.content, Source, Empty}
  BY <1>1 DEF SwapInv, Swaps, SwapPc, BackedUp
<1>3. PICK l \in {"publish", "drop"} : Step(l)
  BY DEF OpenNew
<1>4. Data(dir["live"])' = Data(dir["live"]) /\ dir'["backup"] = dir["backup"]
  <2>1. CASE Opened
    BY <2>1, OpenedData
  <2>2. CASE NotOpened
    BY <2>2 DEF NotOpened, Data
  <2>3. QED
    BY <2>1, <2>2 DEF OpenNew
<1>5. /\ Data(dir["backup"])' = before.content
      /\ Data(dir["live"])' \in {before.content, Source, Empty}
  BY <1>2, <1>4 DEF Data
<1>6. l \in SwapPc /\ l \notin Kept
  BY DEF SwapPc, Kept
<1>7. QED
  BY <1>2, <1>3, <1>5, <1>6, SwapStep

LEMMA PublishRefines == ASSUME NodeInv, SwapInv, Remember, Publish PROVE Refines
<1>1. pc[Fsm] = "publish" /\ RemoveAll("backup") /\ Return(TRUE) /\ store' = fresh
  BY DEF Publish, At
<1>2. Swaps
  BY <1>1 DEF Swaps, SwapPc
<1>3. dir'["live"] = Source
  <2>1. dir["live"] = Source
    BY <1>1 DEF NodeInv, Disk, Staged, InPlace, ClosedPc, SwapPc
  <2>2. QED
    BY <1>1, <2>1, FilesTyped, RemoveAllDoes DEF DirName
<1>4. store' # Nil
  BY <1>1 DEF NodeInv, Control, Handles, FreshPc
<1>5. QED
  BY <1>1, <1>2, <1>3, <1>4, ReturnIs, SwapDone

(* os.RemoveAll leaves what it was to remove, or no data.                  *)
LEMMA RemovedData ==
  ASSUME NodeInv, NEW d \in DirName, RemoveAll(d)
  PROVE  Data(dir[d])' \in {Data(dir[d]), Empty}
<1>1. dir'[d] \in {dir[d], Torn, Missing}
  BY FilesTyped, RemoveAllDoes
<1>2. QED
  BY <1>1 DEF Data, Missing, Torn, Empty

LEMMA DropRefines == ASSUME NodeInv, SwapInv, Remember, Drop PROVE Refines
<1>1. pc[Fsm] = "drop" /\ RemoveAll("live") /\ Step("rollback")
  BY DEF Drop, At
<1>2. /\ Swaps /\ Data(dir["backup"]) = before.content
      /\ Data(dir["live"]) \in {before.content, Source, Empty}
  BY <1>1 DEF SwapInv, Swaps, SwapPc, BackedUp
<1>3. dir'["backup"] = dir["backup"] /\ Data(dir["live"])' \in {Data(dir["live"]), Empty}
  BY <1>1, FilesTyped, RemoveAllDoes, RemovedData DEF DirName
<1>4. /\ Data(dir["backup"])' = before.content
      /\ Data(dir["live"])' \in {before.content, Source, Empty}
  BY <1>2, <1>3 DEF Data
<1>5. "rollback" \in SwapPc /\ "rollback" \notin Kept
  BY DEF SwapPc, Kept
<1>6. QED
  BY <1>1, <1>2, <1>4, <1>5, SwapStep

(* The backup comes back, or the live directory stays what it is.          *)
LEMMA RollbackRefines == ASSUME NodeInv, SwapInv, Remember, Rollback PROVE Refines
<1>1. pc[Fsm] = "rollback" /\ Step("reopen")
  BY DEF Rollback, At
<1>2. /\ Swaps /\ Data(dir["backup"]) = before.content
      /\ Data(dir["live"]) \in {before.content, Source, Empty}
  BY <1>1 DEF SwapInv, Swaps, SwapPc, BackedUp
<1>3. dir'["live"] \in {dir["backup"], dir["live"]}
  <2>1. CASE Renamed("backup", "live")
    BY <2>1, FilesTyped, RenamedDoes DEF DirName
  <2>2. CASE NotRenamed("backup", "live")
    BY <2>2 DEF NotRenamed
  <2>3. QED
    BY <2>1, <2>2 DEF Rollback
<1>4. Data(dir["live"])' \in {before.content, Source, Empty}
  BY <1>2, <1>3 DEF Data
<1>5. "reopen" \in SwapPc /\ "reopen" \notin Kept /\ "reopen" \notin BackedUp
  BY DEF SwapPc, Kept, BackedUp
<1>6. QED
  BY <1>1, <1>2, <1>4, <1>5, SwapStep

LEMMA ReopenRefines == ASSUME NodeInv, SwapInv, Remember, Reopen PROVE Refines
<1>1. pc[Fsm] = "reopen" /\ Return(FALSE)
  BY DEF Reopen, At
<1>2. Swaps /\ Data(dir["live"]) \in {before.content, Source, Empty}
  BY <1>1 DEF SwapInv, Swaps, SwapPc
<1>3. Data(dir["live"])' = Data(dir["live"])
  <2>1. CASE Opened
    BY <2>1, OpenedData
  <2>2. CASE NotOpened
    BY <2>2 DEF NotOpened, Data
  <2>3. QED
    BY <2>1, <2>2 DEF Reopen
<1>4. QED
  BY <1>1, <1>2, <1>3, ReturnIs, SwapGivenUp


(* In place: the live directory is what it was, or without data.           *)
LEMMA WipeRefines == ASSUME NodeInv, SwapInv, Remember, Wipe PROVE Refines
<1>1. pc[Fsm] = "wipe"
  BY DEF Wipe, At
<1>2. Swaps /\ Data(dir["live"]) \in {before.content, Source, Empty}
  BY <1>1 DEF SwapInv, Swaps, SwapPc
<1>3. Data(dir["live"])' \in {before.content, Source, Empty}
  <2>1. CASE RemoveAll("live")
    BY <1>2, <2>1, RemovedData DEF DirName
  <2>2. CASE dir' = [dir EXCEPT !["live"] = Missing]
    <3>1. dir'["live"] = Missing
      BY <2>2, FilesTyped DEF Files, DirName
    <3>2. QED
      BY <3>1 DEF Data, Missing, Empty
  <2>3. QED
    BY <2>1, <2>2 DEF Wipe
<1>4. CASE Step("openEmpty")
  <2>1. "openEmpty" \in SwapPc /\ "openEmpty" \notin Kept /\ "openEmpty" \notin BackedUp
    BY DEF SwapPc, Kept, BackedUp
  <2>2. QED
    BY <1>2, <1>3, <1>4, <2>1, SwapStep
<1>5. CASE Return(FALSE)
  BY <1>2, <1>3, <1>5, ReturnIs, SwapGivenUp
<1>6. QED
  BY <1>4, <1>5 DEF Wipe

LEMMA OpenEmptyRefines == ASSUME NodeInv, SwapInv, Remember, OpenEmpty PROVE Refines
<1>1. pc[Fsm] = "openEmpty"
  BY DEF OpenEmpty, At
<1>2. Swaps /\ Data(dir["live"]) \in {before.content, Source, Empty}
  BY <1>1 DEF SwapInv, Swaps, SwapPc
<1>3. CASE dir' = [dir EXCEPT !["live"] = Partial] /\ Step("loadLive")
  <2>1. dir'["live"] = Partial
    BY <1>3, FilesTyped DEF Files, DirName
  <2>2. Data(dir["live"])' = Empty
    BY <2>1 DEF Data, Partial, Empty
  <2>3. "loadLive" \in SwapPc /\ "loadLive" \notin Kept /\ "loadLive" \notin BackedUp
    BY DEF SwapPc, Kept, BackedUp
  <2>4. QED
    BY <1>2, <1>3, <2>2, <2>3, SwapStep
<1>4. CASE NotOpened /\ Return(FALSE)
  <2>1. Data(dir["live"])' = Data(dir["live"])
    BY <1>4 DEF NotOpened, Data
  <2>2. QED
    BY <1>2, <1>4, <2>1, ReturnIs, SwapGivenUp
<1>5. QED
  BY <1>3, <1>4 DEF OpenEmpty

LEMMA LoadLiveRefines == ASSUME NodeInv, SwapInv, Remember, LoadLive PROVE Refines
<1>1. pc[Fsm] = "loadLive"
  BY DEF LoadLive, At
<1>2. Swaps /\ Data(dir["live"]) \in {before.content, Source, Empty}
  BY <1>1 DEF SwapInv, Swaps, SwapPc
<1>3. CASE dir' = [dir EXCEPT !["live"] = Source] /\ store' = fresh /\ Return(TRUE)
  <2>1. dir'["live"] = Source
    BY <1>3, FilesTyped DEF Files, DirName
  <2>2. store' # Nil
    BY <1>1, <1>3 DEF NodeInv, Control, Handles, FreshPc
  <2>3. QED
    BY <1>2, <1>3, <2>1, <2>2, ReturnIs, SwapDone
<1>4. CASE Return(FALSE) /\ UNCHANGED dir
  <2>1. Data(dir["live"])' = Data(dir["live"])
    BY <1>4 DEF Data
  <2>2. QED
    BY <1>2, <1>4, <2>1, ReturnIs, SwapGivenUp
<1>5. QED
  BY <1>3, <1>4 DEF LoadLive

LEMMA RestoreRefines == ASSUME NodeInv, SwapInv, Remember, Restore PROVE Refines
BY StageRefines, LoadRefines, SwapLockRefines, CleanRefines, CloseOldRefines, AsideRefines,
   PlaceRefines, OpenNewRefines, PublishRefines, DropRefines, RollbackRefines, ReopenRefines,
   WipeRefines, OpenEmptyRefines, LoadLiveRefines DEF Restore

-----------------------------------------------------------------------------
(* Everybody else.                                                         *)

(* Whoever enters withStore or Persist uses the store of AtomicStore.      *)
LEMMA EnterRefines == ASSUME NodeInv, SwapInv, Remember, NEW p \in User, Enter(p) PROVE Refines
<1> USE Procs
<1>1. /\ pc[p] = "rlock" /\ RLockFree /\ pc \in [Proc -> Label]
      /\ held \in [Proc -> Handle \cup {Nil}]
      /\ UNCHANGED <<node, once, store, dir, snapshot, older, second>>
  BY DEF Enter, NodeInv, TypeOK, life, snaps
<1>2. pc[Fsm] \notin SwapPc /\ node = "running"
  <2>1. pc[Fsm] \notin SwapPc
    BY <1>1 DEF RLockFree, NodeInv, Control, Mutex, None, Fsm
  <2>2. p # Fsm => node = "running"
    BY <1>1 DEF NodeInv, Control, Phases
  <2>3. p = Fsm => node = "running"
    BY <1>1 DEF NodeInv, TypeOK, Control, Phases, RestorePc
  <2>4. QED
    BY <2>1, <2>2, <2>3
<1>3. CASE Goto(p, "idle") /\ UNCHANGED held
  <2>1. pc'[Fsm] \notin SwapPc
    BY <1>1, <1>2, <1>3 DEF Goto, SwapPc
  <2>2. QED
    BY <1>1, <1>2, <1>3, <2>1, AnotherStep
<1>4. CASE store # Nil /\ Goto(p, "using") /\ held' = [held EXCEPT ![p] = store]
  <2>1. ~Swaps /\ ~Swaps'
    BY <1>1, <1>2, <1>4 DEF Goto, Swaps, SwapPc
  <2>2. Current' = Current /\ Current.open = TRUE
    BY <1>1, <1>4, <2>1 DEF Current, Found, Data
  <2>3. held[p] = Nil
    BY <1>1 DEF NodeInv, Control, Handles, UsePc
  <2>4. {q \in Proc : held'[q] # Nil} = {q \in Proc : held[q] # Nil} \cup {p}
    BY <1>1, <1>4
  <2>5. Atomic!Use(p)
    BY <1>1, <1>2, <2>2, <2>3, <2>4 DEF Atomic!Use
  <2>6. SwapInv'
    BY <2>1 DEF SwapInv, Swaps, SwapPc, Kept, BackedUp
  <2>7. QED
    BY <2>5, <2>6 DEF Refines, Atomic!Next
<1>5. QED
  BY <1>3, <1>4 DEF Enter

LEMMA LeaveRefines == ASSUME NodeInv, SwapInv, Remember, NEW p \in User, Leave(p) PROVE Refines
<1> USE Procs
<1>1. /\ pc[p] = "using" /\ pc \in [Proc -> Label] /\ held \in [Proc -> Handle \cup {Nil}]
      /\ pc' = [pc EXCEPT ![p] = "idle"]
      /\ held' = [held EXCEPT ![p] = Nil]
      /\ UNCHANGED <<node, once, store, dir, snapshot, older>>
  BY DEF Leave, Goto, NodeInv, TypeOK, life, snaps
<1>2. pc[Fsm] \notin SwapPc
  BY <1>1 DEF NodeInv, Control, Mutex, UsePc
<1>3. ~Swaps /\ ~Swaps'
  BY <1>1, <1>2 DEF Swaps, SwapPc
<1>4. Current' = Current
  BY <1>1, <1>3 DEF Current, Found, Data
<1>5. held[p] # Nil
  BY <1>1 DEF NodeInv, Control, Handles, UsePc
<1>6. {q \in Proc : held'[q] # Nil} = {q \in Proc : held[q] # Nil} \ {p}
  BY <1>1
<1>7. Atomic!Done(p)
  BY <1>1, <1>4, <1>5, <1>6 DEF Atomic!Done
<1>8. SwapInv'
  BY <1>3 DEF SwapInv, Swaps, SwapPc, Kept, BackedUp
<1>9. QED
  BY <1>7, <1>8 DEF Refines, Atomic!Next


(* Nested reads, Raft's end and the rest of Close leave the store alone.   *)
LEMMA UserRefines ==
  ASSUME NodeInv, SwapInv, Remember, NEW p \in User,
         Begin(p) \/ BeginNested(p) \/ EnterNested(p) \/ LeaveNested(p) \/ RaftExit(p)
  PROVE  Refines
<1> USE Procs
<1>1. /\ UNCHANGED <<node, once, snapshot, older, second, held, store, dir>>
      /\ pc \in [Proc -> Label]
  BY DEF Begin, BeginNested, EnterNested, LeaveNested, RaftExit, life, snaps, NodeInv, TypeOK
<1>2. PICK l \in {"rlock", "rlock2", "using2", "using", "exited"} : pc' = [pc EXCEPT ![p] = l]
  BY DEF Begin, BeginNested, EnterNested, LeaveNested, RaftExit, Goto
<1>3. pc[p] \in {"idle", "using", "rlock2", "using2"}
  BY DEF Begin, BeginNested, EnterNested, LeaveNested, RaftExit
<1>4. pc'[Fsm] = pc[Fsm] \/ (pc[Fsm] \notin SwapPc /\ pc'[Fsm] \notin SwapPc)
  BY <1>1, <1>2, <1>3 DEF SwapPc
<1>5. QED
  BY <1>1, <1>4, AnotherStep

LEMMA CloserRefines ==
  ASSUME NodeInv, SwapInv, Remember, NEW c \in Closer,
         CloseCall(c) \/ CloseShutdown(c) \/ CloseAwait(c) \/ CloseOther(c)
  PROVE  Refines
<1> USE Procs
<1>1. /\ UNCHANGED <<node, snapshot, older, second, held, store, dir>>
      /\ pc \in [Proc -> Label]
  BY DEF CloseCall, CloseShutdown, CloseAwait, CloseOther, life, snaps, NodeInv, TypeOK
<1>2. once' = "done" <=> once = "done"
  BY DEF CloseCall, CloseShutdown, CloseAwait, CloseOther, life, None
<1>3. pc'[Fsm] = pc[Fsm]
  BY <1>1 DEF CloseCall, CloseShutdown, CloseAwait, CloseOther, Goto
<1>4. QED
  BY <1>1, <1>2, <1>3, AnotherStep

(* closeStore runs when nobody uses the store and no restore is under way. *)
LEMMA CloseStoreRefines ==
  ASSUME NodeInv, SwapInv, Remember, NEW c \in Closer, CloseStore(c) PROVE Refines
<1> USE Procs
<1>1. /\ pc[c] = "lock" /\ LockFree /\ pc \in [Proc -> Label]
      /\ pc' = [pc EXCEPT ![c] = "returned"]
      /\ store' = Nil /\ once' = "done"
      /\ UNCHANGED <<node, dir, snapshot, older, held>>
  BY DEF CloseStore, Goto, snaps, NodeInv, TypeOK
<1>2. pc[Fsm] = "exited" /\ once = c /\ node = "running"
  BY <1>1 DEF NodeInv, Control, Closing, Phases
<1>3. ~Swaps /\ ~Swaps'
  BY <1>1, <1>2 DEF Swaps, SwapPc
<1>4. Current'.content = Current.content /\ Current'.open = FALSE
  BY <1>1, <1>3 DEF Current, Found, Data
<1>5. {p \in Proc : held[p] # Nil} = {}
  BY <1>1 DEF LockFree, NodeInv, Control, Mutex, Handles, Depth, UsePc
<1>6. Atomic!Close
  BY <1>1, <1>2, <1>4, <1>5 DEF Atomic!Close
<1>7. SwapInv'
  BY <1>3 DEF SwapInv, Swaps, SwapPc, Kept, BackedUp
<1>8. QED
  BY <1>6, <1>7 DEF Refines, Atomic!Next

LEMMA InstallRefines == ASSUME NodeInv, SwapInv, Remember, Install PROVE Refines
<1> USE Procs
<1>1. /\ node = "running" /\ pc[Fsm] = "idle" /\ pc \in [Proc -> Label]
      /\ pc'[Fsm] \in {"lock", "stage"} /\ older' = snapshot
      /\ UNCHANGED <<node, once, store, dir, held>>
  BY DEF Install, CallRestore, Goto, life, snaps, NodeInv, TypeOK
<1>2. snapshot' \in Nat /\ snapshot' > FirstGen /\ snapshot' >= snapshot
  <2>1. \E g \in FirstGen + 1..FirstGen + MaxGen :
          g \in {snapshot, IF snapshot = 0 THEN FirstGen + 1 ELSE snapshot + 1} /\ snapshot' = g
    BY DEF Install
  <2>2. QED
    BY <2>1, Numbers, NodeStoreAssumption DEF FirstGen
<1>3. ~Swaps /\ ~Swaps'
  BY <1>1 DEF Swaps, SwapPc
<1>4. Current' = Current
  BY <1>1, <1>3 DEF Current, Found, Data
<1>5. once # "done"
  BY <1>1 DEF NodeInv, Control, Closing
<1>6. Atomic!Receive
  BY <1>1, <1>2, <1>4, <1>5 DEF Atomic!Receive
<1>7. SwapInv'
  BY <1>3 DEF SwapInv, Swaps, SwapPc, Kept, BackedUp
<1>8. QED
  BY <1>6, <1>7 DEF Refines, Atomic!Next

(* Before Open returns nobody uses the store.                              *)
LEMMA Unused ==
  ASSUME NodeInv, node # "running" PROVE {p \in Proc : held[p] # Nil} = {} /\ once = None
<1>1. once = None /\ \A p \in Proc : pc[p] \notin UsePc
  BY DEF NodeInv, TypeOK, Control, Phases, UsePc, RestorePc
<1>2. QED
  BY <1>1 DEF NodeInv, Control, Handles

(* A process that ends leaves what is on disk.                             *)
LEMMA GoneRefines == ASSUME NodeInv, SwapInv, node # "down", Gone PROVE Refines
<1> USE Procs
<1>1. /\ node' = "down" /\ once' = None /\ store' = Nil /\ pc'[Fsm] = "idle"
      /\ UNCHANGED <<dir, snapshot, older>>
      /\ {p \in Proc : held'[p] # Nil} = {}
  BY DEF Gone
<1>2. ~Swaps'
  BY <1>1 DEF Swaps, SwapPc
<1>3. Current'.content = Data(dir["live"])
  BY <1>1, <1>2 DEF Current, Found, Data
<1>4. SwapInv'
  BY <1>2 DEF SwapInv, Swaps, SwapPc, Kept, BackedUp
<1>5. CASE Swaps
  <2>1. Current'.content \in {Current.content, Source, Empty}
    BY <1>3, <1>5 DEF Current, SwapInv
  <2>2. CASE node = "running"
    <3>1. Atomic!Exit
      BY <1>1, <1>5, <2>1, <2>2, Alone, FromRetained DEF Atomic!Exit, Atomic!Unfinished, None
    <3>2. QED
      BY <1>4, <3>1 DEF Refines, Atomic!Next
  <2>3. CASE node = "booting"
    <3>1. Atomic!OpenFails
      BY <1>1, <1>5, <2>1, <2>3, Alone, FromRetained DEF Atomic!OpenFails, Atomic!Unfinished, None
    <3>2. QED
      BY <1>4, <3>1 DEF Refines, Atomic!Next
  <2>4. QED
    BY <1>5, <2>2, <2>3, Alone
<1>6. CASE ~Swaps
  <2>1. Current'.content = Current.content
    BY <1>3, <1>6 DEF Current, Found
  <2>2. CASE node = "running"
    <3>1. Atomic!Exit
      BY <1>1, <2>1, <2>2 DEF Atomic!Exit, None
    <3>2. QED
      BY <1>4, <3>1 DEF Refines, Atomic!Next
  <2>3. CASE node # "running"
    <3>1. UNCHANGED Atomic!vars
      BY <1>1, <2>1, <2>3, Unused DEF Atomic!vars, None
    <3>2. QED
      BY <1>4, <3>1 DEF Refines
  <2>4. QED
    BY <2>2, <2>3
<1>7. QED
  BY <1>5, <1>6

(* Nobody sees Open turn to the older snapshot until that is published.    *)
LEMMA TryOlderRefines == ASSUME NodeInv, SwapInv, Remember, TryOlder PROVE Refines
<1> USE Procs
<1>1. /\ pc[Fsm] = "failed" /\ pc \in [Proc -> Label] /\ pc'[Fsm] \in {"lock", "stage"}
      /\ UNCHANGED <<node, once, store, dir, snapshot, older, held>>
  BY DEF TryOlder, CallRestore, Goto, life, NodeInv, TypeOK
<1>2. ~Swaps /\ ~Swaps'
  BY <1>1 DEF Swaps, SwapPc
<1>3. QED
  BY <1>1, <1>2, OutsideSwap DEF Refines, Data

(* Open finds the data; without a snapshot there is nothing to restore.    *)
LEMMA BootRefines == ASSUME NodeInv, SwapInv, Remember, Boot PROVE Refines
<1> USE Procs
<1>1. /\ node = "down" /\ UNCHANGED <<once, snapshot, older, second, held>>
  BY DEF Boot, snaps
<1>2. /\ pc[Fsm] = "idle" /\ pc \in [Proc -> Label]
      /\ open = {} /\ \A p \in Proc : held[p] = Nil
  <2>1. pc[Fsm] = "idle" /\ store = Nil /\ \A p \in Proc : pc[p] = "idle"
    BY <1>1 DEF NodeInv, Control, Phases
  <2>2. QED
    BY <2>1 DEF NodeInv, TypeOK, Control, Handles, FreshPc, UsePc
<1>3. CASE NotOpened /\ UNCHANGED <<store, node, pc, lock>>
  <2>1. UNCHANGED dir
    BY <1>3 DEF NotOpened
  <2>2. QED
    BY <1>1, <1>3, <2>1, AnotherStep
<1>4. CASE /\ Opened /\ store' = NewHandle
           /\ IF snapshot = 0
              THEN node' = "running" /\ UNCHANGED <<pc, lock>>
              ELSE node' = "booting" /\ CallRestore
  <2>1. pc'[Fsm] \in {"idle", "lock", "stage"}
    BY <1>2, <1>4 DEF CallRestore, Goto
  <2>2. ~Swaps /\ ~Swaps'
    BY <1>2, <2>1 DEF Swaps, SwapPc
  <2>3. Data(dir["live"])' = Data(dir["live"]) /\ store' # Nil
    BY <1>2, <1>4, OpenedData, NewHandleFresh
  <2>4. Current'.content = Current.content /\ Current'.open = TRUE
    BY <2>2, <2>3 DEF Current, Found
  <2>5. SwapInv'
    BY <2>2 DEF SwapInv, Swaps, SwapPc, Kept, BackedUp
  <2>6. CASE snapshot = 0
    <3>1. Atomic!Open
      BY <1>1, <1>4, <2>4, <2>6 DEF Atomic!Open
    <3>2. QED
      BY <2>5, <3>1 DEF Refines, Atomic!Next
  <2>7. CASE snapshot # 0
    <3>1. UNCHANGED Atomic!vars
      BY <1>1, <1>4, <2>4, <2>7 DEF Atomic!vars
    <3>2. QED
      BY <2>5, <3>1 DEF Refines
  <2>8. QED
    BY <2>6, <2>7
<1>5. QED
  BY <1>3, <1>4 DEF Boot

-----------------------------------------------------------------------------
LEMMA HistoryInit == ASSUME HInit PROVE SwapInv /\ Atomic!Init
<1> USE Procs
<1>1. /\ node = "running" /\ once = None /\ store = 1 /\ snapshot \in {0, FirstGen} /\ older = 0
      /\ dir["live"] = FirstGen /\ pc[Fsm] = "idle"
      /\ {p \in Proc : held[p] # Nil} = {}
  BY DEF HInit, Init
<1>2. ~Swaps
  BY <1>1 DEF Swaps, SwapPc
<1>3. SwapInv
  BY <1>2 DEF SwapInv, Swaps, SwapPc, Kept, BackedUp
<1>4. Current.content = FirstGen /\ Current.open = TRUE
  <2>1. store # Nil
    BY <1>1 DEF Nil
  <2>2. Data(dir["live"]) = FirstGen
    BY <1>1 DEF Data, FirstGen, Empty
  <2>3. QED
    BY <1>2, <2>1, <2>2 DEF Current, Found
<1>5. Atomic!Init
  BY <1>1, <1>4 DEF Atomic!Init, None
<1>6. QED
  BY <1>3, <1>5

LEMMA HistoryStep == ASSUME NodeInv, SwapInv, [HNext]_hvars PROVE Refines
<1>1. CASE UNCHANGED hvars
  <2>1. UNCHANGED <<node, once, store, dir, snapshot, older, second, pc, held, before>>
    BY <1>1 DEF hvars, vars, life, snaps
  <2>2. Current' = Current
    BY <2>1 DEF Current, Found, Swaps, Data
  <2>3. SwapInv'
    BY <2>1 DEF SwapInv, Swaps, Data, Source
  <2>4. QED
    BY <2>1, <2>2, <2>3, Unseen DEF Refines
<1>2. CASE HNext
  <2>1. Remember /\ Next
    BY <1>2 DEF HNext
  <2>2. CASE \E p \in User : Begin(p) \/ BeginNested(p) \/ UserStep(p) \/ RaftExit(p)
    BY <2>1, <2>2, UserRefines, EnterRefines, LeaveRefines DEF UserStep
  <2>3. CASE \E c \in Closer : CloseCall(c) \/ CloseStep(c)
    BY <2>1, <2>3, CloserRefines, CloseStoreRefines DEF CloseStep
  <2>4. CASE Crash \/ OpenFails
    BY <2>4, GoneRefines DEF Crash, OpenFails
  <2>5. QED
    BY <2>1, <2>2, <2>3, <2>4, InstallRefines, RestoreRefines, TryOlderRefines,
       BootRefines DEF Next
<1>3. QED
  BY <1>1, <1>2

(* A node with the history variable is a node.                             *)
LEMMA HistoryIsNode == HSpec => Spec
<1>1. HInit => Init
  BY DEF HInit
<1>2. [HNext]_hvars => [Next]_vars
  BY DEF HNext, hvars
<1>3. QED
  BY <1>1, <1>2, PTL DEF HSpec, Spec

(* The node's store is replaced as a whole, while nobody uses it, or not   *)
(* at all (fsm.go, Restore and restoreInPlace): whatever fails, and        *)
(* wherever the process ends, its users see steps of AtomicStore.          *)
THEOREM AtomicStoreHolds == HSpec => ImplementsAtomicStore
<1>1. HInit => SwapInv /\ Atomic!Init
  BY HistoryInit
<1>2. NodeInv /\ SwapInv /\ [HNext]_hvars => SwapInv' /\ [Atomic!Next]_(Atomic!vars)
  BY HistoryStep DEF Refines
<1>3. QED
  BY <1>1, <1>2, HistoryIsNode, NodeInvHolds, PTL DEF HSpec, ImplementsAtomicStore, Atomic!Spec
=============================================================================
