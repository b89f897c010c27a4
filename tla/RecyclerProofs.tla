--------------------------- MODULE RecyclerProofs ---------------------------
(***************************************************************************)
(* What the script can reach is never swept, for any number of objects,    *)
(* any heap to start from and any bounds.                                  *)
(***************************************************************************)
EXTENDS Recycler, TLAPS

-----------------------------------------------------------------------------
(***************************************************************************)
(* The inductive invariant.                                                *)
(***************************************************************************)

\* No reference of the script, of an allocated object or of a weak reference
\* leads out of the heap.
Sound ==
    /\ stack \cup arena \cup Pinned \cup weak \subseteq heap
    /\ transient \in heap \cup {None}
    /\ \A o \in heap : field[o] \in heap \cup {None}

\* The concurrent thread is in ScanPinnedObjects.
PinPlaces == {"pins", "pinFlag", "pinReset", "eachPin"}

\* Where the two threads are fits the state of the collection.
MarkingState == IF finishing THEN "ConcurrentFinishMark" ELSE "ConcurrentMark"
BgPhase ==
    /\ bg \in {"resetMarks", "resetWatch"} =>
          state = "ConcurrentResetMarks" /\ ~finishing
    /\ bg \in PinPlaces => state = "ConcurrentFindRoots"
    /\ bg = "stack" => state = "ConcurrentMark" /\ ~finishing
    /\ bg \in {"drain", "rescan", "push", "endMark"} => state = MarkingState
    /\ bg = "sweep" => state \in SweepStates
    /\ bg = "gone" => state = "Exit"
    /\ (bg = "signal" \/ done) =>
          state \in {"RescanWait", "ConcurrentSweepPass1Wait",
                     "TransferSweptWait", "Exit"}
    /\ bg = "signal" => state # "Exit"
    /\ ready => state \in {"ConcurrentResetMarks", "ConcurrentMark",
                           "ConcurrentFinishMark", "ConcurrentSweep",
                           "ConcurrentSweepPass2", "Exit"}
MainPhase ==
    /\ main = "syncWait" =>
          state \in {"ConcurrentMark", "RescanWait"} /\ (bg # "idle" => ~finishing)
    /\ main = "markWait" =>
          /\ state \in {"ConcurrentFinishMark", "ConcurrentFindRoots",
                        "RescanWait"}
          /\ bg # "idle" => finishing
    /\ main \in {"finishWait", "abortWait"} => IsConcurrentState
    /\ main = "exitWait" => state = "Exit"
    /\ state = "Exit" => main \in {"exitWait", "closed"}
    /\ main = "addref" => arg \in stack /\ transient # None
    /\ main = "barrier" => arg \in Obj

\* The pinned objects are the concurrent thread's to walk.
RootsPending ==
    \/ bg \in {"resetMarks", "resetWatch"} \cup PinPlaces
    \/ finishing /\ bg \in {"rescan", "push"}
    \/ ready /\ state \in {"ConcurrentResetMarks", "ConcurrentFinishMark"}

\* What the steps of the concurrent thread leave for one another.
BgData ==
    /\ todo # {} => bg = "eachPin"
    /\ pages # {} => bg = "push"
    /\ bg = "resetWatch" => marked = {} /\ scanPins
    /\ RootsPending => pendingRoot

\* What holds while the script waits for marking it will not repeat.
WaitData ==
    /\ main = "syncWait" =>
          /\ stack \cup arena \cup Pinned \subseteq marked
          /\ transient \in marked \cup {None}
    /\ main = "markWait" /\ bg = "push" => dirty \subseteq pages
    /\ main = "markWait" /\ (state = "RescanWait" \/ bg \in {"drain", "endMark"}) =>
          arena \subseteq marked

Control == OneWorkItem /\ BgPhase /\ MainPhase /\ BgData

Heap == DataTypes /\ Sound /\ LeftoverPinsKnown

Marking == WaitData /\ MarkedMeansScanned /\ PinsNotMissed

\* The inductive invariant.
IInv == FlagTypes /\ Control /\ Heap /\ Marking

-----------------------------------------------------------------------------
USE DEF vars, scriptVars, markVars, pinVars, modeVars, eventVars, bgVars,
        mainVars, fixedVars, boundVars, collectorVars, bgFrame, callFrame,
        PinPlaces

(***************************************************************************)
(* Marking and sweeping in thread.                                         *)
(***************************************************************************)

\* Trace closes its first argument under the fields of its second, and of
\* what it adds.
LEMMA TraceCloses ==
  ASSUME field \in [Obj -> Obj \cup {None}],
         NEW M \in SUBSET Obj, NEW P \in SUBSET Obj
  PROVE  /\ M \subseteq Trace(M, P) /\ Trace(M, P) \subseteq Obj
         /\ \A p \in P \cup (Trace(M, P) \ M) :
               field[p] \in Trace(M, P) \cup {None}
<1>1. M \subseteq Trace(M, P) /\ Trace(M, P) \subseteq Obj
  BY DEF Trace
<1>2. ASSUME NEW p \in P \cup (Trace(M, P) \ M), field[p] # None
      PROVE  field[p] \in Trace(M, P)
  <2>1. p \in Obj /\ field[p] \in Obj
    BY <1>1, <1>2
  <2>2. ASSUME NEW U \in SUBSET Obj, M \subseteq U,
               \A q \in P \cup (U \ M) : field[q] \in U \cup {None}
        PROVE  field[p] \in U
    <3>1. p \in P \cup (U \ M)
      BY <1>2, <2>2 DEF Trace
    <3> QED
      BY <1>2, <2>2, <3>1
  <2> QED
    BY <2>1, <2>2 DEF Trace
<1> QED
  BY <1>1, <1>2

\* Trace is within every set closed in that way.
LEMMA TraceWithin ==
  ASSUME NEW M, NEW P, NEW U \in SUBSET Obj, M \subseteq U,
         \A p \in P \cup (U \ M) : field[p] \in U \cup {None}
  PROVE  Trace(M, P) \subseteq U
BY DEF Trace

\* M may be swept by: it holds the roots, and what its objects refer to.
Closed(M) ==
    /\ M \subseteq Obj /\ Roots \subseteq M
    /\ \A o \in heap \cap M : field[o] \in M \cup {None}

\* What the actions that sweep in the pause have in common.
SweepStep(M) ==
    /\ heap' = heap \cap M /\ weak' = weak \cap M
    /\ marked' = M /\ markStack' = {} /\ oom' = {}
    /\ dirty' \subseteq Obj /\ condemned' \subseteq Obj /\ finishCount' \in Nat
    /\ \/ state' = "ConcurrentSweep" /\ ready' /\ ~done'
       \/ state' = "TransferSweptWait" /\ ~ready' /\ done'
       \/ state' = "NotCollecting" /\ ~ready' /\ ~done'
    /\ main' = "script" /\ arg' = arg /\ flags' \in {flags, "None"}
    /\ pinMap' \in [Obj -> Nat \cup {Absent}] /\ Pinned' = Pinned
    /\ LeftoverPinsKnown' /\ pendingRoot' = pendingRoot
    /\ UNCHANGED <<field, stack, arena, transient, bgVars>>
    /\ ops' = ops /\ collections' \in Nat

\* The three ways out of Sweep: handed over, denied by the service, in thread.
LEMMA SweepOutcome ==
  ASSUME DataTypes, ~ready, NEW M \in SUBSET Obj, NEW concurrent,
         NEW mayPartial, NEW count \in Nat,
         Sweep(M, concurrent, mayPartial, count)
  PROVE  /\ heap' = heap \cap M /\ weak' = weak \cap M
         /\ marked' = M /\ markStack' = {} /\ oom' = {}
         /\ dirty' \subseteq Obj /\ condemned' \subseteq Obj
         /\ finishCount' \in Nat
         /\ \/ state' = "ConcurrentSweep" /\ ready' /\ ~done'
            \/ state' = "TransferSweptWait" /\ ~ready' /\ done'
            \/ state' = "NotCollecting" /\ ~ready' /\ ~done'
<1>1. \/ dirty' = {}
      \/ dirty' = dirty
  BY DEF Sweep
<1>2. CASE concurrent
  BY <1>1, <1>2 DEF Sweep, SweepWeakReference, StartConcurrent, DataTypes
<1>3. CASE ~concurrent
  BY <1>1, <1>3 DEF Sweep, SweepWeakReference, StartConcurrent, DataTypes
<1> QED
  BY <1>2, <1>3

\* Dropping the entries without pins drops no pin.
LEMMA ScanPinnedKeeps ==
  ASSUME DataTypes, LeftoverPinsKnown, NEW scan, ScanPinnedInThread(scan)
  PROVE  /\ pinMap' \in [Obj -> Nat \cup {Absent}] /\ Pinned' = Pinned
         /\ LeftoverPinsKnown'
BY DEF DataTypes, ScanPinnedInThread, Pinned, Absent, LeftoverPinsKnown

\* Nothing is out with the concurrent thread when the script thread sweeps.
LEMMA QuietBeforeSweep ==
  ASSUME Control, main \in {"script", "finishWait", "markWait", "syncWait"},
         done \/ state = "NotCollecting"
  PROVE  ~ready /\ bg = "idle" /\ todo = {} /\ pages = {}
BY DEF Control, OneWorkItem, BgData, BgPhase, MainPhase, IsConcurrentState,
       IsConcurrentExecutingState, MarkStates, SweepStates

\* A sweep by closed marks keeps the invariant.
LEMMA SweepKeeps ==
  ASSUME Control, Heap, NEW M, Closed(M), SweepStep(M),
         bg = "idle", ~ready, todo = {}, pages = {}
  PROVE  Control' /\ Heap' /\ Marking'
<1>1. Control'
  BY DEF Control, SweepStep, OneWorkItem, BgPhase, MainPhase, BgData,
         RootsPending, IsConcurrentState, IsConcurrentExecutingState,
         MarkStates, SweepStates
<1>2. DataTypes'
  BY DEF Heap, Closed, SweepStep, DataTypes, MarkStates, SweepStates, MainPlaces
<1>3. Sound'
  BY RecyclerAssumption DEF Heap, Closed, SweepStep, DataTypes, Sound, Roots
<1>4. Pinned' \subseteq marked'
  BY DEF Closed, SweepStep, Roots
<1>5. \A o \in heap' : field'[o] \in marked' \cup {None}
  BY DEF Closed, SweepStep
<1>6. Marking'
  BY <1>4, <1>5 DEF Marking, SweepStep, WaitData, MarkedMeansScanned, PinsNotMissed
<1> QED
  BY <1>1, <1>2, <1>3, <1>6 DEF Heap, SweepStep

\* Marking from the roots, all of it in thread.
LEMMA MarkInThreadClosed == Heap => Closed(MarkInThread)
<1> SUFFICES ASSUME Heap PROVE Closed(MarkInThread)
  OBVIOUS
<1>1. Roots \in SUBSET Obj /\ Roots \cup markStack \in SUBSET Obj
  BY DEF Heap, DataTypes, Roots, Pinned
<1>2. field \in [Obj -> Obj \cup {None}]
  BY DEF Heap, DataTypes
<1> QED
  BY <1>1, <1>2, TraceCloses DEF MarkInThread, Closed

\* Finishing what the concurrent thread began: everything unscanned is read,
\* and a root that is left out is marked already.
LEMMA TraceClosed ==
  ASSUME Heap, NEW R \in SUBSET Obj, NEW P \in SUBSET Obj,
         Roots \subseteq marked \cup R, R \ marked \subseteq P,
         \A o \in (marked \cap heap) \ P : field[o] \in marked \cup {None}
  PROVE  Closed(Trace(marked \cup R, P))
<1> DEFINE M == Trace(marked \cup R, P)
<1>1. marked \cup R \in SUBSET Obj /\ field \in [Obj -> Obj \cup {None}]
  BY DEF Heap, DataTypes
<1>2. /\ marked \cup R \subseteq M /\ M \subseteq Obj
      /\ \A p \in P \cup (M \ (marked \cup R)) : field[p] \in M \cup {None}
  BY <1>1, TraceCloses
<1> HIDE DEF M
<1>3. ASSUME NEW o \in heap \cap M
      PROVE  field[o] \in M \cup {None}
  <2>1. CASE o \in P \cup (M \ (marked \cup R))
    BY <1>2, <2>1
  <2>2. CASE o \notin P \cup (M \ (marked \cup R))
    BY <1>2, <2>2
  <2> QED
    BY <2>1, <2>2
<1>4. Closed(M)
  BY <1>2, <1>3 DEF Closed
<1> QED
  BY <1>4 DEF M

\* The marks are valid, nothing is left to walk, and what FinishMark does not
\* rescan has settled: its result may be swept by.
LEMMA FinishMarkClosed ==
  ASSUME Control, Heap, Marking, MarksValid, todo = {}, pages = {},
         main \notin {"barrier", "addref"}, NEW rescan, NEW count,
         rescan \/ Settled, count = 0 \/ arena \subseteq marked
  PROVE  Closed(FinishMark(rescan, count))
<1> DEFINE R == FinishMarkRoots(count)
           P == markStack \cup oom \cup (R \ marked)
                  \cup (IF rescan THEN dirty \cap marked ELSE {})
<1>1. R \in SUBSET Obj /\ P \in SUBSET Obj /\ R \ marked \subseteq P
  BY DEF FinishMarkRoots, Heap, DataTypes, Pinned
<1>2. Roots \subseteq marked \cup R
  <2>1. Pinned \subseteq marked \cup R
    BY DEF Marking, PinsNotMissed, FinishMarkRoots
  <2>2. arena \subseteq marked \cup R
    BY DEF FinishMarkRoots
  <2> QED
    BY <2>1, <2>2 DEF Roots, FinishMarkRoots
<1>3. \A o \in (marked \cap heap) \ P : field[o] \in marked \cup {None}
  <2>1. CASE Settled
    BY <2>1 DEF Marking, MarkedMeansScanned, Unscanned
  <2>2. CASE ~Settled
    BY <2>2 DEF Marking, MarkedMeansScanned, Unscanned
  <2> QED
    BY <2>1, <2>2
<1> HIDE DEF R, P
<1>4. Closed(Trace(marked \cup R, P))
  BY <1>1, <1>2, <1>3, TraceClosed
<1> QED
  BY <1>4 DEF FinishMark, R, P

\* The script waited for all of the marking, from roots that did not change.
LEMMA SyncClosed ==
  ASSUME Control, Heap, Marking, main = "syncWait", done
  PROVE  Closed(Trace(marked, markStack \cup oom))
<1>1. MarksValid /\ Settled
  BY DEF Control, MainPhase, BgPhase, MarksValid, Settled
<1>2. \A o \in (marked \cap heap) \ (markStack \cup oom) : field[o] \in marked \cup {None}
  BY <1>1 DEF Marking, MarkedMeansScanned, Unscanned
<1>3. Roots \subseteq marked \cup {}
  BY DEF Marking, WaitData, Roots
<1>4. markStack \cup oom \in SUBSET Obj
  BY DEF Heap, DataTypes
<1>5. Closed(Trace(marked \cup {}, markStack \cup oom))
  BY <1>2, <1>3, <1>4, TraceClosed
<1> QED
  BY <1>5


-----------------------------------------------------------------------------
(***************************************************************************)
(* The actions that sweep.                                                 *)
(***************************************************************************)

\* StartConcurrentSweepCollect sweeps by closed marks.
LEMMA StartConcurrentSweepCollectKeeps ==
  ASSUME IInv, StartConcurrentSweepCollect
  PROVE  Control' /\ Heap' /\ Marking'
<1>1. Control /\ Heap /\ Marking /\ DataTypes /\ LeftoverPinsKnown
  BY DEF IInv, Heap
<1>2. /\ main = "script" /\ state = "NotCollecting"
      /\ main' = "script" /\ arg' = arg /\ flags' = flags
      /\ collections' \in Nat
  BY <1>1 DEF StartConcurrentSweepCollect, DoCollect, CollectionInProgress, DataTypes
<1>3. ~ready /\ bg = "idle" /\ todo = {} /\ pages = {}
  BY <1>1, <1>2, QuietBeforeSweep
<1>4. Closed(MarkInThread)
  BY <1>1, MarkInThreadClosed
<1>5. pinMap' \in [Obj -> Nat \cup {Absent}] /\ Pinned' = Pinned /\ LeftoverPinsKnown'
  BY <1>1, ScanPinnedKeeps DEF StartConcurrentSweepCollect
<1>6. SweepStep(MarkInThread)
  BY <1>1, <1>2, <1>3, <1>4, <1>5, SweepOutcome DEF StartConcurrentSweepCollect, SweepStep, Closed, DataTypes
<1> QED
  BY <1>1, <1>3, <1>4, <1>6, SweepKeeps

\* CollectOnAllocatorThread sweeps by closed marks.
LEMMA CollectOnAllocatorThreadKeeps ==
  ASSUME IInv, CollectOnAllocatorThread
  PROVE  Control' /\ Heap' /\ Marking'
<1>1. Control /\ Heap /\ Marking /\ DataTypes /\ LeftoverPinsKnown
  BY DEF IInv, Heap
<1>2. /\ main = "script" /\ state = "NotCollecting"
      /\ main' = "script" /\ arg' = arg /\ flags' = flags
      /\ collections' \in Nat
  BY <1>1 DEF CollectOnAllocatorThread, DoCollect, CollectionInProgress, DataTypes
<1>3. ~ready /\ bg = "idle" /\ todo = {} /\ pages = {}
  BY <1>1, <1>2, QuietBeforeSweep
<1>4. Closed(MarkInThread)
  BY <1>1, MarkInThreadClosed
<1>5. pinMap' \in [Obj -> Nat \cup {Absent}] /\ Pinned' = Pinned /\ LeftoverPinsKnown'
  BY <1>1, ScanPinnedKeeps DEF CollectOnAllocatorThread
<1>6. SweepStep(MarkInThread)
  BY <1>1, <1>2, <1>3, <1>4, <1>5, SweepOutcome DEF CollectOnAllocatorThread, SweepStep, Closed, DataTypes
<1> QED
  BY <1>1, <1>3, <1>4, <1>6, SweepKeeps

\* PartialInThread sweeps by closed marks.
LEMMA PartialInThreadKeeps ==
  ASSUME IInv, PartialInThread
  PROVE  Control' /\ Heap' /\ Marking'
<1>1. Control /\ Heap /\ Marking /\ DataTypes /\ LeftoverPinsKnown
  BY DEF IInv, Heap
<1>2. /\ main = "script" /\ state = "NotCollecting"
      /\ main' = "script" /\ arg' = arg /\ flags' = flags
      /\ collections' \in Nat
  BY <1>1 DEF PartialInThread, DoCollect, CollectionInProgress, DataTypes
<1>3. ~ready /\ bg = "idle" /\ todo = {} /\ pages = {}
  BY <1>1, <1>2, QuietBeforeSweep
<1>4. Closed(FinishMark(TRUE, 0))
  BY <1>1, <1>2, <1>3, FinishMarkClosed DEF PartialInThread, MarksValid
<1>5. pinMap' \in [Obj -> Nat \cup {Absent}] /\ Pinned' = Pinned /\ LeftoverPinsKnown'
  BY <1>1, ScanPinnedKeeps DEF PartialInThread
<1>6. SweepStep(FinishMark(TRUE, 0))
  BY <1>1, <1>2, <1>3, <1>4, <1>5, SweepOutcome DEF PartialInThread, SweepStep, Closed, DataTypes
<1> QED
  BY <1>1, <1>3, <1>4, <1>6, SweepKeeps

\* SyncWaited sweeps by closed marks.
LEMMA SyncWaitedKeeps ==
  ASSUME IInv, SyncWaited
  PROVE  Control' /\ Heap' /\ Marking'
<1>1. Control /\ Heap /\ Marking /\ DataTypes /\ LeftoverPinsKnown
  BY DEF IInv, Heap
<1>2. /\ done /\ main \in {"finishWait", "markWait", "syncWait"}
      /\ main' = "script" /\ arg' = arg /\ flags' \in {flags, "None"}
      /\ collections' \in Nat
  BY <1>1 DEF SyncWaited, DataTypes
<1>3. ~ready /\ bg = "idle" /\ todo = {} /\ pages = {}
  BY <1>1, <1>2, QuietBeforeSweep
<1>4. Closed(Trace(marked, markStack \cup oom))
  BY <1>1, SyncClosed DEF SyncWaited
<1>5. pinMap' \in [Obj -> Nat \cup {Absent}] /\ Pinned' = Pinned /\ LeftoverPinsKnown'
  BY <1>1 DEF SyncWaited, DataTypes, Pinned, LeftoverPinsKnown
<1>6. SweepStep(Trace(marked, markStack \cup oom))
  BY <1>1, <1>2, <1>3, <1>4, <1>5, SweepOutcome DEF SyncWaited, SweepStep, Closed, DataTypes
<1> QED
  BY <1>1, <1>3, <1>4, <1>6, SweepKeeps

\* RescanInThread sweeps by closed marks.
LEMMA RescanInThreadKeeps ==
  ASSUME IInv, RescanInThread
  PROVE  Control' /\ Heap' /\ Marking'
<1>1. Control /\ Heap /\ Marking /\ DataTypes /\ LeftoverPinsKnown
  BY DEF IInv, Heap
<1>2. /\ done /\ main \in {"finishWait", "markWait", "syncWait"}
      /\ main' = "script" /\ arg' = arg /\ flags' \in {flags, "None"}
      /\ collections' \in Nat
  BY <1>1 DEF RescanInThread, DataTypes
<1>3. ~ready /\ bg = "idle" /\ todo = {} /\ pages = {}
  BY <1>1, <1>2, QuietBeforeSweep
<1>4. Closed(FinishMark(TRUE, 0))
  BY <1>1, <1>3, FinishMarkClosed DEF RescanInThread, MarksValid
<1>5. pinMap' \in [Obj -> Nat \cup {Absent}] /\ Pinned' = Pinned /\ LeftoverPinsKnown'
  BY <1>1, ScanPinnedKeeps DEF RescanInThread
<1>6. SweepStep(FinishMark(TRUE, 0))
  BY <1>1, <1>2, <1>3, <1>4, <1>5, SweepOutcome DEF RescanInThread, SweepStep, Closed, DataTypes
<1> QED
  BY <1>1, <1>3, <1>4, <1>6, SweepKeeps

\* MarkWaited sweeps by closed marks.
LEMMA MarkWaitedKeeps ==
  ASSUME IInv, MarkWaited
  PROVE  Control' /\ Heap' /\ Marking'
<1>1. Control /\ Heap /\ Marking /\ DataTypes /\ LeftoverPinsKnown
  BY DEF IInv, Heap
<1>2. /\ done /\ main \in {"finishWait", "markWait", "syncWait"}
      /\ main' = "script" /\ arg' = arg /\ flags' \in {flags, "None"}
      /\ collections' \in Nat
  BY <1>1 DEF MarkWaited, DataTypes
<1>3. ~ready /\ bg = "idle" /\ todo = {} /\ pages = {}
  BY <1>1, <1>2, QuietBeforeSweep
<1>4. Closed(FinishMark(FALSE, finishCount))
  <2>1. main = "markWait" /\ state = "RescanWait"
    BY <1>1, <1>2 DEF MarkWaited, Control, MainPhase, BgPhase
  <2>2. MarksValid /\ Settled /\ arena \subseteq marked
    BY <1>1, <1>3, <2>1 DEF MarksValid, Settled, Marking, WaitData
  <2> QED
    BY <1>1, <1>3, <2>1, <2>2, FinishMarkClosed
<1>5. pinMap' \in [Obj -> Nat \cup {Absent}] /\ Pinned' = Pinned /\ LeftoverPinsKnown'
  BY <1>1, ScanPinnedKeeps DEF MarkWaited
<1>6. SweepStep(FinishMark(FALSE, finishCount))
  BY <1>1, <1>2, <1>3, <1>4, <1>5, SweepOutcome DEF MarkWaited, SweepStep, Closed, DataTypes
<1> QED
  BY <1>1, <1>3, <1>4, <1>6, SweepKeeps

\* The steps of the collector that do not sweep.
OtherCollect ==
    \/ StartBackgroundMarkCollect \/ CollectOnConcurrentThread
    \/ PartialInBackground \/ FinishConcurrentCollect \/ WaitTimesOut
    \/ RescanInBackground \/ FinishSweep \/ AbortConcurrent \/ AbortRestores
    \/ ShutdownThread \/ ExitWaited

\* The script has no part in the hand-over of work.
LEMMA ControlScript ==
  ASSUME IInv, ScriptNext
  PROVE  Control'
<1> USE RecyclerAssumption DEF IInv, Control, OneWorkItem, BgPhase, MainPhase,
         BgData, RootsPending, Heap, DataTypes, MarkingState,
         IsConcurrentState, IsConcurrentExecutingState, MarkStates,
         SweepStates
<1>1. CASE Load
  BY <1>1 DEF Load, ScriptStep
<1>2. CASE Drop
  BY <1>2 DEF Drop, ScriptStep
<1>3. CASE WriteBarrierSet
  BY <1>3 DEF WriteBarrierSet, ScriptStep, Store
<1>4. CASE WriteBarrier
  BY <1>4 DEF WriteBarrier
<1>5. CASE Alloc
  BY <1>5 DEF Alloc, ScriptStep
<1>6. CASE ArenaStore
  BY <1>6 DEF ArenaStore, ScriptStep
<1>7. CASE WeakReference
  BY <1>7 DEF WeakReference, ScriptStep
<1>8. CASE RootAddRef
  BY <1>8 DEF RootAddRef, ScriptStep
<1>9. CASE RootAddRefFlag
  BY <1>9 DEF RootAddRefFlag
<1>10. CASE RootRelease
  BY <1>10 DEF RootRelease, ScriptStep, ReleaseLast
<1> QED
  BY <1>1, <1>2, <1>3, <1>4, <1>5, <1>6, <1>7, <1>8, <1>9, <1>10 DEF ScriptNext

\* The script stores, pins and allocates only what it can reach.
LEMMA HeapScript ==
  ASSUME IInv, ScriptNext
  PROVE  Heap'
<1> USE RecyclerAssumption DEF IInv, Control, MainPhase, Heap, DataTypes,
         Sound, LeftoverPinsKnown, Pinned, Absent, BgPlaces, MainPlaces,
         MarkStates, SweepStates
<1>1. CASE Load
  BY <1>1 DEF Load, ScriptStep
<1>2. CASE Drop
  BY <1>2 DEF Drop, ScriptStep
<1>3. CASE WriteBarrierSet
  BY <1>3 DEF WriteBarrierSet, ScriptStep, Store
<1>4. CASE WriteBarrier
  BY <1>4 DEF WriteBarrier
<1>5. CASE Alloc
  BY <1>5 DEF Alloc, ScriptStep
<1>6. CASE ArenaStore
  BY <1>6 DEF ArenaStore, ScriptStep
<1>7. CASE WeakReference
  BY <1>7 DEF WeakReference, ScriptStep
<1>8. CASE RootAddRef
  BY <1>8 DEF RootAddRef, ScriptStep
<1>9. CASE RootAddRefFlag
  BY <1>9 DEF RootAddRefFlag
<1>10. CASE RootRelease
  BY <1>10 DEF RootRelease, ScriptStep, ReleaseLast
<1> QED
  BY <1>1, <1>2, <1>3, <1>4, <1>5, <1>6, <1>7, <1>8, <1>9, <1>10 DEF ScriptNext

\* A store dirties its page or is about to, a new object is white, and a new
\* pin is announced.
LEMMA MarkingScript ==
  ASSUME IInv, ScriptNext
  PROVE  Marking'
<1> USE RecyclerAssumption DEF IInv, Control, OneWorkItem, BgPhase, MainPhase,
         BgData, Heap, DataTypes, Sound, Marking, WaitData,
         MarkedMeansScanned, PinsNotMissed, Pinned, Absent, MarksValid,
         Unscanned, Settled, MarkingState, IsConcurrentState,
         IsConcurrentExecutingState, MarkStates, SweepStates
<1>1. CASE Load
  BY <1>1 DEF Load, ScriptStep
<1>2. CASE Drop
  BY <1>2 DEF Drop, ScriptStep
<1>3. CASE WriteBarrierSet
  BY <1>3 DEF WriteBarrierSet, ScriptStep, Store
<1>4. CASE WriteBarrier
  BY <1>4 DEF WriteBarrier
<1>5. CASE Alloc
  BY <1>5 DEF Alloc, ScriptStep
<1>6. CASE ArenaStore
  BY <1>6 DEF ArenaStore, ScriptStep
<1>7. CASE WeakReference
  BY <1>7 DEF WeakReference, ScriptStep
<1>8. CASE RootAddRef
  BY <1>8 DEF RootAddRef, ScriptStep
<1>9. CASE RootAddRefFlag
  BY <1>9 DEF RootAddRefFlag
<1>10. CASE RootRelease
  BY <1>10 DEF RootRelease, ScriptStep, ReleaseLast
<1> QED
  BY <1>1, <1>2, <1>3, <1>4, <1>5, <1>6, <1>7, <1>8, <1>9, <1>10 DEF ScriptNext

\* The concurrent thread takes the work, moves the state along and signals.
LEMMA ControlBg ==
  ASSUME IInv, BgNext
  PROVE  Control'
<1> USE RecyclerAssumption DEF IInv, Control, OneWorkItem, BgPhase, MainPhase,
         BgData, RootsPending, Heap, DataTypes, MarkingState,
         IsConcurrentState, IsConcurrentExecutingState, MarkStates,
         SweepStates
<1>1. CASE BgTake
  <2>1. finishing' <=> (state = "ConcurrentFinishMark")
    BY <1>1, Zenon DEF BgTake
  <2> QED
    BY <1>1, <2>1 DEF BgTake
<1>2. CASE BackgroundResetMarks
  BY <1>2 DEF BackgroundResetMarks
<1>3. CASE BackgroundResetWriteWatchAll
  BY <1>3 DEF BackgroundResetWriteWatchAll
<1>4. CASE ScanPinnedBegin
  BY <1>4 DEF ScanPinnedBegin
<1>5. CASE ScanPinned
  BY <1>5 DEF ScanPinned, MarkAll, MarkFrom
<1>6. CASE ScanArenas
  BY <1>6 DEF ScanArenas, MarkAll, MarkFrom
<1>7. CASE BackgroundScanStack
  BY <1>7 DEF BackgroundScanStack, MarkAll, MarkFrom
<1>8. CASE ProcessMark
  BY <1>8 DEF ProcessMark
<1>9. CASE Drained
  BY <1>9 DEF Drained
<1>10. CASE RescanRead
  BY <1>10 DEF RescanRead
<1>11. CASE RescanPush
  BY <1>11 DEF RescanPush
<1>12. CASE EndBackgroundMark
  BY <1>12 DEF EndBackgroundMark
<1>13. CASE BackgroundSweep
  BY <1>13 DEF BackgroundSweep
<1>14. CASE SignalDone
  BY <1>14 DEF SignalDone
<1>15. CASE ScanTransient
  BY <1>15 DEF ScanTransient, MarkAll, MarkFrom
<1>16. CASE TestScanPins
  BY <1>16 DEF TestScanPins
<1> QED
  BY <1>1, <1>2, <1>3, <1>4, <1>5, <1>6, <1>7, <1>8, <1>9, <1>10, <1>11,
         <1>12, <1>13, <1>14, <1>15, <1>16 DEF BgNext

\* The concurrent thread changes nothing the script can see.
LEMMA HeapBg ==
  ASSUME IInv, BgNext
  PROVE  Heap'
<1> USE RecyclerAssumption DEF IInv, Control, MainPhase, Heap, DataTypes,
         Sound, LeftoverPinsKnown, Pinned, Absent, BgPlaces, MainPlaces,
         MarkStates, SweepStates
<1>1. CASE BgTake
  BY <1>1 DEF BgTake
<1>2. CASE BackgroundResetMarks
  BY <1>2 DEF BackgroundResetMarks
<1>3. CASE BackgroundResetWriteWatchAll
  BY <1>3 DEF BackgroundResetWriteWatchAll
<1>4. CASE ScanPinnedBegin
  BY <1>4 DEF ScanPinnedBegin
<1>5. CASE ScanPinned
  BY <1>5 DEF ScanPinned, MarkAll, MarkFrom
<1>6. CASE ScanArenas
  BY <1>6 DEF ScanArenas, MarkAll, MarkFrom
<1>7. CASE BackgroundScanStack
  BY <1>7 DEF BackgroundScanStack, MarkAll, MarkFrom
<1>8. CASE ProcessMark
  BY <1>8 DEF ProcessMark
<1>9. CASE Drained
  BY <1>9 DEF Drained
<1>10. CASE RescanRead
  BY <1>10 DEF RescanRead
<1>11. CASE RescanPush
  BY <1>11 DEF RescanPush
<1>12. CASE EndBackgroundMark
  BY <1>12 DEF EndBackgroundMark
<1>13. CASE BackgroundSweep
  BY <1>13 DEF BackgroundSweep
<1>14. CASE SignalDone
  BY <1>14 DEF SignalDone
<1>15. CASE ScanTransient
  BY <1>15 DEF ScanTransient, MarkAll, MarkFrom
<1>16. CASE TestScanPins
  BY <1>16 DEF TestScanPins
<1> QED
  BY <1>1, <1>2, <1>3, <1>4, <1>5, <1>6, <1>7, <1>8, <1>9, <1>10, <1>11,
         <1>12, <1>13, <1>14, <1>15, <1>16 DEF BgNext

\* A marked object is scanned, or stays on a list until it is.
LEMMA MarkingBg ==
  ASSUME IInv, BgNext
  PROVE  Marking'
<1> USE RecyclerAssumption DEF IInv, Control, OneWorkItem, BgPhase, MainPhase,
         BgData, Heap, DataTypes, Sound, Marking, WaitData,
         MarkedMeansScanned, PinsNotMissed, Pinned, Absent, MarksValid,
         Unscanned, Settled, MarkingState, IsConcurrentState,
         IsConcurrentExecutingState, MarkStates, SweepStates
<1>1. CASE BgTake
  BY <1>1 DEF BgTake
<1>2. CASE BackgroundResetMarks
  BY <1>2 DEF BackgroundResetMarks
<1>3. CASE BackgroundResetWriteWatchAll
  BY <1>3 DEF BackgroundResetWriteWatchAll
<1>4. CASE ScanPinnedBegin
  BY <1>4 DEF ScanPinnedBegin
<1>5. CASE ScanPinned
  BY <1>5 DEF ScanPinned, MarkAll, MarkFrom
<1>6. CASE ScanArenas
  BY <1>6 DEF ScanArenas, MarkAll, MarkFrom
<1>7. CASE BackgroundScanStack
  BY <1>7 DEF BackgroundScanStack, MarkAll, MarkFrom
<1>8. CASE ProcessMark
  BY <1>8 DEF ProcessMark
<1>9. CASE Drained
  BY <1>9 DEF Drained
<1>10. CASE RescanRead
  BY <1>10 DEF RescanRead
<1>11. CASE RescanPush
  BY <1>11 DEF RescanPush
<1>12. CASE EndBackgroundMark
  BY <1>12 DEF EndBackgroundMark
<1>13. CASE BackgroundSweep
  BY <1>13 DEF BackgroundSweep
<1>14. CASE SignalDone
  BY <1>14 DEF SignalDone
<1>15. CASE ScanTransient
  BY <1>15 DEF ScanTransient, MarkAll, MarkFrom
<1>16. CASE TestScanPins
  BY <1>16 DEF TestScanPins
<1> QED
  BY <1>1, <1>2, <1>3, <1>4, <1>5, <1>6, <1>7, <1>8, <1>9, <1>10, <1>11,
         <1>12, <1>13, <1>14, <1>15, <1>16 DEF BgNext

\* The collector hands work over when none is out, and takes it back once.
LEMMA ControlCollect ==
  ASSUME IInv, OtherCollect
  PROVE  Control'
<1> USE RecyclerAssumption DEF IInv, Control, OneWorkItem, BgPhase, MainPhase,
         BgData, RootsPending, Heap, DataTypes, MarkingState,
         IsConcurrentState, IsConcurrentExecutingState, MarkStates,
         SweepStates
<1>1. CASE StartBackgroundMarkCollect
  BY <1>1 DEF StartBackgroundMarkCollect, DoCollect, StartConcurrent,
         CollectionInProgress
<1>2. CASE CollectOnConcurrentThread
  <2>1. /\ main = "script" /\ state = "NotCollecting" /\ arg' = arg
        /\ \/ state' = "ConcurrentMark" /\ ready' /\ main' = "syncWait"
           \/ state' = state /\ ready' = ready /\ main' = main
    BY <1>2 DEF CollectOnConcurrentThread, DoCollect, CollectionInProgress,
             StartConcurrent
  <2> QED
    BY <1>2, <2>1 DEF CollectOnConcurrentThread, ScanPinnedInThread
<1>3. CASE PartialInBackground
  BY <1>3 DEF PartialInBackground, DoCollect, CollectionInProgress,
         StartConcurrent
<1>4. CASE FinishConcurrentCollect
  BY <1>4 DEF FinishConcurrentCollect
<1>5. CASE WaitTimesOut
  BY <1>5 DEF WaitTimesOut
<1>6. CASE RescanInBackground
  BY <1>6 DEF RescanInBackground, StartConcurrent
<1>7. CASE FinishSweep
  <2>1. /\ main = "finishWait" /\ done /\ ~done' /\ main' = "script"
        /\ \/ state' = "NotCollecting" /\ ready' = ready
           \/ state' = "ConcurrentSweepPass2" /\ ready'
        /\ inPartial' => inPartial
    <3>1. inPartial' => inPartial
      BY <1>7, Zenon DEF FinishSweep, FinishTransferSwept
    <3> QED
      BY <1>7, <3>1 DEF FinishSweep, FinishTransferSwept, StartConcurrent
  <2> QED
    BY <1>7, <2>1 DEF FinishSweep
<1>8. CASE AbortConcurrent
  BY <1>8 DEF AbortConcurrent
<1>9. CASE AbortRestores
  BY <1>9 DEF AbortRestores, ResetMarkCollectionState, CleanupPendingUnroot,
         AbortSweep
<1>10. CASE ShutdownThread
  <2>1. /\ state' = "Exit" /\ ~done'
        /\ \/ main' = "closed" /\ ready' = ready
           \/ main' = "exitWait" /\ ready'
        /\ main \in {"script", "abortWait"}
        /\ IsConcurrentState => done
    BY <1>10 DEF ShutdownThread, Finalize, CollectionInProgress
  <2> QED
    BY <1>10, <2>1 DEF ShutdownThread
<1>11. CASE ExitWaited
  BY <1>11 DEF ExitWaited
<1> QED
  BY <1>1, <1>2, <1>3, <1>4, <1>5, <1>6, <1>7, <1>8, <1>9, <1>10, <1>11 DEF OtherCollect

\* No object goes outside a sweep.
LEMMA HeapCollect ==
  ASSUME IInv, OtherCollect
  PROVE  Heap'
<1> USE RecyclerAssumption DEF IInv, Control, MainPhase, Heap, DataTypes,
         Sound, LeftoverPinsKnown, Pinned, Absent, BgPlaces, MainPlaces,
         MarkStates, SweepStates
<1>1. CASE StartBackgroundMarkCollect
  BY <1>1 DEF StartBackgroundMarkCollect, DoCollect, StartConcurrent,
         CollectionInProgress
<1>2. CASE CollectOnConcurrentThread
  <2>1. /\ main = "script" /\ state = "NotCollecting" /\ arg' = arg
        /\ \/ state' = "ConcurrentMark" /\ ready' /\ main' = "syncWait"
           \/ state' = state /\ ready' = ready /\ main' = main
    BY <1>2 DEF CollectOnConcurrentThread, DoCollect, CollectionInProgress,
             StartConcurrent
  <2>2. /\ pinMap' \in [Obj -> Nat \cup {Absent}] /\ Pinned' = Pinned
        /\ LeftoverPinsKnown'
    BY <1>2, ScanPinnedKeeps DEF CollectOnConcurrentThread
  <2>3. /\ dirty' \subseteq Obj /\ marked' \subseteq Obj
        /\ markStack' \subseteq Obj /\ oom' \subseteq Obj
    BY <1>2 DEF CollectOnConcurrentThread, MarkFrom, Roots
  <2>4. collections' \in Nat
    BY <1>2 DEF CollectOnConcurrentThread, DoCollect
  <2>5. DataTypes'
    BY <1>2, <2>1, <2>2, <2>3, <2>4 DEF CollectOnConcurrentThread
  <2>6. Sound'
    BY <1>2, <2>2 DEF CollectOnConcurrentThread
  <2> QED
    BY <2>2, <2>5, <2>6
<1>3. CASE PartialInBackground
  BY <1>3 DEF PartialInBackground, DoCollect, CollectionInProgress,
         StartConcurrent
<1>4. CASE FinishConcurrentCollect
  BY <1>4 DEF FinishConcurrentCollect
<1>5. CASE WaitTimesOut
  BY <1>5 DEF WaitTimesOut
<1>6. CASE RescanInBackground
  BY <1>6 DEF RescanInBackground, StartConcurrent
<1>7. CASE FinishSweep
  <2>1. /\ main = "finishWait" /\ done /\ ~done' /\ main' = "script"
        /\ \/ state' = "NotCollecting" /\ ready' = ready
           \/ state' = "ConcurrentSweepPass2" /\ ready'
        /\ inPartial' => inPartial
    <3>1. inPartial' => inPartial
      BY <1>7, Zenon DEF FinishSweep, FinishTransferSwept
    <3> QED
      BY <1>7, <3>1 DEF FinishSweep, FinishTransferSwept, StartConcurrent
  <2>2. condemned' \subseteq Obj /\ finishCount' \in Nat /\ flags' = "None"
    <3>1. CASE FinishTransferSwept
      BY <1>7, <3>1 DEF FinishSweep, FinishTransferSwept
    <3>2. CASE UNCHANGED <<condemned, modeVars>>
      BY <1>7, <3>2 DEF FinishSweep
    <3> QED
      BY <1>7, <3>1, <3>2 DEF FinishSweep
  <2> QED
    BY <1>7, <2>1, <2>2 DEF FinishSweep
<1>8. CASE AbortConcurrent
  BY <1>8 DEF AbortConcurrent
<1>9. CASE AbortRestores
  BY <1>9 DEF AbortRestores, ResetMarkCollectionState, CleanupPendingUnroot,
         AbortSweep
<1>10. CASE ShutdownThread
  BY <1>10 DEF ShutdownThread, Finalize, CleanupPendingUnroot
<1>11. CASE ExitWaited
  BY <1>11 DEF ExitWaited
<1> QED
  BY <1>1, <1>2, <1>3, <1>4, <1>5, <1>6, <1>7, <1>8, <1>9, <1>10, <1>11 DEF OtherCollect

\* Starting, waiting, giving up and aborting leave the marks as good as they
\* were, or no longer valid.
LEMMA MarkingCollect ==
  ASSUME IInv, OtherCollect
  PROVE  Marking'
<1> USE RecyclerAssumption DEF IInv, Control, OneWorkItem, BgPhase, MainPhase,
         BgData, Heap, DataTypes, Sound, Marking, WaitData,
         MarkedMeansScanned, PinsNotMissed, Pinned, Absent, MarksValid,
         Unscanned, Settled, MarkingState, IsConcurrentState,
         IsConcurrentExecutingState, MarkStates, SweepStates
<1>1. CASE StartBackgroundMarkCollect
  BY <1>1 DEF StartBackgroundMarkCollect, DoCollect, StartConcurrent,
         CollectionInProgress
<1>2. CASE CollectOnConcurrentThread
  <2>1. /\ main = "script" /\ state = "NotCollecting" /\ arg' = arg
        /\ \/ state' = "ConcurrentMark" /\ ready' /\ main' = "syncWait"
           \/ state' = state /\ ready' = ready /\ main' = main
    BY <1>2 DEF CollectOnConcurrentThread, DoCollect, CollectionInProgress,
             StartConcurrent
  <2>2. Pinned' = Pinned
    BY <1>2, ScanPinnedKeeps DEF CollectOnConcurrentThread
  <2>3. marked' = Roots /\ Roots \subseteq markStack' \cup oom' /\ ~inPartial'
    BY <1>2 DEF CollectOnConcurrentThread, MarkFrom
  <2>4. stack' \cup arena' \cup Pinned' \subseteq marked' /\ transient' \in marked' \cup {None}
    BY <1>2, <2>2, <2>3 DEF CollectOnConcurrentThread, Roots
  <2>5. WaitData'
    BY <2>1, <2>4
  <2>6. MarkedMeansScanned' /\ PinsNotMissed'
    BY <2>3, <2>4
  <2> QED
    BY <2>5, <2>6
<1>3. CASE PartialInBackground
  BY <1>3 DEF PartialInBackground, DoCollect, CollectionInProgress,
         StartConcurrent
<1>4. CASE FinishConcurrentCollect
  BY <1>4 DEF FinishConcurrentCollect
<1>5. CASE WaitTimesOut
  BY <1>5 DEF WaitTimesOut
<1>6. CASE RescanInBackground
  BY <1>6 DEF RescanInBackground, StartConcurrent
<1>7. CASE FinishSweep
  <2>1. /\ main = "finishWait" /\ done /\ ~done' /\ main' = "script"
        /\ \/ state' = "NotCollecting" /\ ready' = ready
           \/ state' = "ConcurrentSweepPass2" /\ ready'
        /\ inPartial' => inPartial
    <3>1. inPartial' => inPartial
      BY <1>7, Zenon DEF FinishSweep, FinishTransferSwept
    <3> QED
      BY <1>7, <3>1 DEF FinishSweep, FinishTransferSwept, StartConcurrent
  <2>2. Unscanned' = Unscanned /\ (MarksValid' => MarksValid)
    BY <1>7, <2>1 DEF FinishSweep
  <2> QED
    BY <1>7, <2>1, <2>2 DEF FinishSweep
<1>8. CASE AbortConcurrent
  BY <1>8 DEF AbortConcurrent
<1>9. CASE AbortRestores
  BY <1>9 DEF AbortRestores, ResetMarkCollectionState, CleanupPendingUnroot,
         AbortSweep
<1>10. CASE ShutdownThread
  <2>1. /\ state' = "Exit" /\ ~done'
        /\ \/ main' = "closed" /\ ready' = ready
           \/ main' = "exitWait" /\ ready'
        /\ main \in {"script", "abortWait"}
        /\ IsConcurrentState => done
    BY <1>10 DEF ShutdownThread, Finalize, CollectionInProgress
  <2> QED
    BY <1>10, <2>1
<1>11. CASE ExitWaited
  BY <1>11 DEF ExitWaited
<1> QED
  BY <1>1, <1>2, <1>3, <1>4, <1>5, <1>6, <1>7, <1>8, <1>9, <1>10, <1>11 DEF OtherCollect

-----------------------------------------------------------------------------
(***************************************************************************)
(* The flags.                                                              *)
(***************************************************************************)

\* Every flag stays a Boolean.
LEMMA FlagsScript ==
  ASSUME FlagTypes, ScriptNext
  PROVE  FlagTypes'
<1> USE DEF FlagTypes
<1>1. CASE Load
  BY <1>1, Zenon DEF Load, ScriptStep
<1>2. CASE Drop
  BY <1>2, Zenon DEF Drop, ScriptStep
<1>3. CASE WriteBarrierSet
  BY <1>3, Zenon DEF WriteBarrierSet, ScriptStep, Store
<1>4. CASE WriteBarrier
  BY <1>4, Zenon DEF WriteBarrier
<1>5. CASE Alloc
  BY <1>5, Zenon DEF Alloc, ScriptStep
<1>6. CASE ArenaStore
  BY <1>6, Zenon DEF ArenaStore, ScriptStep
<1>7. CASE WeakReference
  BY <1>7, Zenon DEF WeakReference, ScriptStep
<1>8. CASE RootAddRef
  BY <1>8, Zenon DEF RootAddRef, ScriptStep
<1>9. CASE RootAddRefFlag
  BY <1>9, Zenon DEF RootAddRefFlag
<1>10. CASE RootRelease
  BY <1>10, Zenon DEF RootRelease, ScriptStep, ReleaseLast
<1> QED
  BY <1>1, <1>2, <1>3, <1>4, <1>5, <1>6, <1>7, <1>8, <1>9, <1>10 DEF ScriptNext

\* Every flag stays a Boolean.
LEMMA FlagsBg ==
  ASSUME FlagTypes, BgNext
  PROVE  FlagTypes'
<1> USE DEF FlagTypes
<1>1. CASE BgTake
  BY <1>1, Zenon DEF BgTake
<1>2. CASE BackgroundResetMarks
  BY <1>2, Zenon DEF BackgroundResetMarks
<1>3. CASE BackgroundResetWriteWatchAll
  BY <1>3, Zenon DEF BackgroundResetWriteWatchAll
<1>4. CASE ScanPinnedBegin
  BY <1>4, Zenon DEF ScanPinnedBegin
<1>5. CASE ScanPinned
  BY <1>5, Zenon DEF ScanPinned, MarkAll, MarkFrom
<1>6. CASE ScanArenas
  BY <1>6, Zenon DEF ScanArenas, MarkAll, MarkFrom
<1>7. CASE BackgroundScanStack
  BY <1>7, Zenon DEF BackgroundScanStack, MarkAll, MarkFrom
<1>8. CASE ProcessMark
  BY <1>8, Zenon DEF ProcessMark
<1>9. CASE Drained
  BY <1>9, Zenon DEF Drained
<1>10. CASE RescanRead
  BY <1>10, Zenon DEF RescanRead
<1>11. CASE RescanPush
  BY <1>11, Zenon DEF RescanPush
<1>12. CASE EndBackgroundMark
  BY <1>12, Zenon DEF EndBackgroundMark
<1>13. CASE BackgroundSweep
  BY <1>13, Zenon DEF BackgroundSweep
<1>14. CASE SignalDone
  BY <1>14, Zenon DEF SignalDone
<1>15. CASE ScanTransient
  BY <1>15, Zenon DEF ScanTransient, MarkAll, MarkFrom
<1>16. CASE TestScanPins
  BY <1>16, Zenon DEF TestScanPins
<1> QED
  BY <1>1, <1>2, <1>3, <1>4, <1>5, <1>6, <1>7, <1>8, <1>9, <1>10, <1>11,
         <1>12, <1>13, <1>14, <1>15, <1>16 DEF BgNext

\* Every flag stays a Boolean.
LEMMA FlagsCollect ==
  ASSUME FlagTypes, CollectNext
  PROVE  FlagTypes'
<1> USE DEF FlagTypes
<1>1. CASE StartBackgroundMarkCollect
  BY <1>1, Zenon DEF StartBackgroundMarkCollect, DoCollect, StartConcurrent,
         CollectionInProgress
<1>2. CASE StartConcurrentSweepCollect
  BY <1>2, Zenon DEF StartConcurrentSweepCollect, DoCollect,
         CollectionInProgress, ScanPinnedInThread, Sweep, StartConcurrent
<1>3. CASE CollectOnAllocatorThread
  BY <1>3, Zenon DEF CollectOnAllocatorThread, DoCollect,
         CollectionInProgress, ScanPinnedInThread, Sweep, StartConcurrent
<1>4. CASE CollectOnConcurrentThread
  BY <1>4, Zenon DEF CollectOnConcurrentThread, DoCollect, MarkFrom,
         CollectionInProgress, ScanPinnedInThread, StartConcurrent
<1>5. CASE SyncWaited
  BY <1>5, Zenon DEF SyncWaited, Sweep
<1>6. CASE PartialInBackground
  BY <1>6, Zenon DEF PartialInBackground, DoCollect, CollectionInProgress,
         StartConcurrent
<1>7. CASE PartialInThread
  BY <1>7, Zenon DEF PartialInThread, ScanPinnedInThread, Sweep,
         StartConcurrent
<1>8. CASE FinishConcurrentCollect
  BY <1>8, Zenon DEF FinishConcurrentCollect
<1>9. CASE WaitTimesOut
  BY <1>9, Zenon DEF WaitTimesOut
<1>10. CASE RescanInBackground
  BY <1>10, Zenon DEF RescanInBackground, StartConcurrent
<1>11. CASE RescanInThread
  BY <1>11, Zenon DEF RescanInThread, ScanPinnedInThread, Sweep,
         StartConcurrent
<1>12. CASE MarkWaited
  BY <1>12, Zenon DEF MarkWaited, ScanPinnedInThread, Sweep, StartConcurrent
<1>13. CASE FinishSweep
  BY <1>13, Zenon DEF FinishSweep, FinishTransferSwept, StartConcurrent
<1>14. CASE AbortConcurrent
  BY <1>14, Zenon DEF AbortConcurrent
<1>15. CASE AbortRestores
  BY <1>15, Zenon DEF AbortRestores, ResetMarkCollectionState,
         CleanupPendingUnroot, AbortSweep
<1>16. CASE ShutdownThread
  BY <1>16, Zenon DEF ShutdownThread, Finalize, CleanupPendingUnroot
<1>17. CASE ExitWaited
  BY <1>17, Zenon DEF ExitWaited
<1> QED
  BY <1>1, <1>2, <1>3, <1>4, <1>5, <1>6, <1>7, <1>8, <1>9, <1>10, <1>11,
         <1>12, <1>13, <1>14, <1>15, <1>16, <1>17 DEF CollectNext, PartialCollect

-----------------------------------------------------------------------------
(***************************************************************************)
(* The invariant holds.                                                    *)
(***************************************************************************)

\* A step of the collector sweeps or does not.
LEMMA CollectSplit ==
  ASSUME CollectNext
  PROVE  \/ OtherCollect
         \/ StartConcurrentSweepCollect \/ CollectOnAllocatorThread \/ SyncWaited
         \/ PartialInThread \/ RescanInThread \/ MarkWaited
BY DEF CollectNext, OtherCollect, PartialCollect

\* The heaps to start from have no dangling reference, and nothing is marked.
LEMMA InitIInv == Init => IInv
<1> SUFFICES ASSUME Init PROVE IInv
  OBVIOUS
<1> USE RecyclerAssumption
<1>1. FlagTypes
  BY Zenon DEF Init, FlagTypes
<1>2. PICK s \in Starts : /\ heap = s.heap /\ field = s.field
                          /\ stack = s.stack /\ arena = s.arena
                          /\ transient = s.transient
                          /\ pinMap = [o \in Obj |-> IF o \in s.pinned
                                                        THEN 1 ELSE Absent]
  BY DEF Init
<1>3. s \in Start
  OBVIOUS
<1>4. /\ heap \subseteq Obj /\ field \in [Obj -> Obj \cup {None}]
      /\ stack \subseteq Obj /\ arena \subseteq Obj
      /\ transient \in Obj \cup {None}
      /\ pinMap \in [Obj -> Nat \cup {Absent}] /\ Pinned = s.pinned
  BY <1>2, <1>3 DEF Start, Pinned, Absent
<1>5. DataTypes
  BY <1>4 DEF Init, DataTypes, BgPlaces, MainPlaces, MarkStates, SweepStates
<1>6. Sound
  BY <1>2, <1>4 DEF Init, Sound
<1>7. LeftoverPinsKnown
  BY <1>2 DEF LeftoverPinsKnown, Absent
<1>8. Control
  BY DEF Init, Control, OneWorkItem, BgPhase, MainPhase, BgData, RootsPending,
         IsConcurrentState, IsConcurrentExecutingState, MarkStates, SweepStates
<1>9. Marking
  BY DEF Init, Marking, WaitData, MarkedMeansScanned, PinsNotMissed, MarksValid
<1> QED
  BY <1>1, <1>5, <1>6, <1>7, <1>8, <1>9 DEF IInv, Heap

\* One step of the script, of the concurrent thread or of the collector.
LEMMA NextIInv == IInv /\ [Next]_vars => IInv'
<1> SUFFICES ASSUME IInv, [Next]_vars PROVE IInv'
  OBVIOUS
<1>1. FlagTypes
  BY DEF IInv
<1>2. CASE ScriptNext
  BY <1>1, <1>2, FlagsScript, ControlScript, HeapScript, MarkingScript DEF IInv
<1>3. CASE BgNext
  BY <1>1, <1>3, FlagsBg, ControlBg, HeapBg, MarkingBg DEF IInv
<1>4. CASE CollectNext
  <2>1. FlagTypes'
    BY <1>1, <1>4, FlagsCollect
  <2>2. CASE OtherCollect
    BY <2>1, <2>2, ControlCollect, HeapCollect, MarkingCollect DEF IInv
  <2>3. CASE ~OtherCollect
    BY <1>4, <2>1, <2>3, CollectSplit, StartConcurrentSweepCollectKeeps,
       CollectOnAllocatorThreadKeeps, SyncWaitedKeeps, PartialInThreadKeeps,
       RescanInThreadKeeps, MarkWaitedKeeps DEF IInv
  <2> QED
    BY <2>2, <2>3
<1>5. CASE UNCHANGED vars
  BY <1>5 DEF IInv, FlagTypes, Control, OneWorkItem, BgPhase, MainPhase, BgData,
     RootsPending, MarkingState, IsConcurrentState, IsConcurrentExecutingState,
     Heap, DataTypes, Sound, LeftoverPinsKnown, Pinned, Marking, WaitData,
     MarkedMeansScanned, PinsNotMissed, MarksValid, Unscanned, Settled
<1> QED
  BY <1>2, <1>3, <1>4, <1>5 DEF Next

\* The invariant of every state.
LEMMA AlwaysIInv == Spec => []IInv
BY InitIInv, NextIInv, PTL DEF Spec

\* Every variable of the recycler keeps its type.
THEOREM TypeCorrect == Spec => []TypeOK
<1>1. IInv => TypeOK
  BY DEF IInv, Heap, TypeOK
<1> QED
  BY <1>1, AlwaysIInv, PTL

\* Whatever the interleaving of the script, the concurrent thread and the
\* pauses of the collector, with any number of objects, collections and pins:
\* what the script can reach from its stack, the guest arenas and its pins has
\* not been swept.
THEOREM ReachableIsKept == Spec => []NothingReachableSwept
<1>1. IInv => NothingReachableSwept
  <2> SUFFICES ASSUME IInv PROVE Trace(Roots, Roots) \subseteq heap
    BY DEF NothingReachableSwept
  <2>1. Roots \subseteq heap /\ heap \in SUBSET Obj
    BY DEF IInv, Heap, DataTypes, Sound, Roots
  <2>2. \A p \in Roots \cup (heap \ Roots) : field[p] \in heap \cup {None}
    BY <2>1 DEF IInv, Heap, Sound
  <2> QED
    BY <2>1, <2>2, TraceWithin
<1> QED
  BY <1>1, AlwaysIInv, PTL

\* A weak reference that has not been cleared resolves to an allocated object.
THEOREM WeakIsAllocated == Spec => []WeakReferencesResolve
<1>1. IInv => WeakReferencesResolve
  BY DEF IInv, Heap, Sound, WeakReferencesResolve
<1> QED
  BY <1>1, AlwaysIInv, PTL

\* The tri-colour invariant of the concurrent marker.
THEOREM MarksAreClosed == Spec => []MarkedMeansScanned
<1>1. IInv => MarkedMeansScanned
  BY DEF IInv, Marking
<1> QED
  BY <1>1, AlwaysIInv, PTL

\* Skipping pinnedObjectMap misses no pin.
THEOREM PinsAreMarked == Spec => []PinsNotMissed
<1>1. IInv => PinsNotMissed
  BY DEF IInv, Marking
<1> QED
  BY <1>1, AlwaysIInv, PTL

\* The events of the two threads never run ahead of one another.
THEOREM WorkIsExclusive == Spec => []OneWorkItem
<1>1. IInv => OneWorkItem
  BY DEF IInv, Control
<1> QED
  BY <1>1, AlwaysIInv, PTL

\* Entries without pins are never forgotten.
THEOREM LeftoverPins == Spec => []LeftoverPinsKnown
<1>1. IInv => LeftoverPinsKnown
  BY DEF IInv, Heap
<1> QED
  BY <1>1, AlwaysIInv, PTL

\* While the concurrent thread walks the map, RootRelease leaves entries of
\* count 0 behind and the collector does not run.
LEMMA PinStep ==
  ASSUME IInv, [Next]_vars, bg = "eachPin",
         NEW o \in Obj, pinMap[o] # Absent
  PROVE  pinMap'[o] # Absent
<1>1. pendingRoot /\ ~done /\ state = "ConcurrentFindRoots"
  BY DEF IInv, Control, BgData, RootsPending, BgPhase, OneWorkItem,
         IsConcurrentState, IsConcurrentExecutingState, MarkStates
<1>2. pinMap \in [Obj -> Nat \cup {Absent}]
  BY DEF IInv, Heap, DataTypes
<1>3. CASE ScriptNext
  <2>1. CASE RootAddRef
    BY <1>2, <2>1 DEF RootAddRef, IInv, Heap, DataTypes, Absent
  <2>2. CASE RootRelease
    BY <1>1, <1>2, <2>2 DEF RootRelease, ReleaseLast, Absent
  <2>3. CASE ~RootAddRef /\ ~RootRelease
    BY <1>3, <2>3 DEF ScriptNext, Load, Drop, WriteBarrierSet, WriteBarrier,
       Alloc, ArenaStore, WeakReference, RootAddRefFlag
  <2> QED
    BY <2>1, <2>2, <2>3
<1>4. CASE BgNext
  BY <1>4 DEF BgNext, BgTake, BackgroundResetMarks,
     BackgroundResetWriteWatchAll, ScanTransient, TestScanPins,
     ScanPinnedBegin, ScanPinned, ScanArenas,
     BackgroundScanStack, ProcessMark, Drained, RescanRead, RescanPush,
     EndBackgroundMark, BackgroundSweep, SignalDone
<1>5. CASE CollectNext
  BY <1>1, <1>5 DEF CollectNext, PartialCollect, StartBackgroundMarkCollect,
     StartConcurrentSweepCollect, CollectOnAllocatorThread,
     CollectOnConcurrentThread, SyncWaited, PartialInBackground,
     PartialInThread, FinishConcurrentCollect, WaitTimesOut,
     RescanInBackground, RescanInThread, MarkWaited, FinishSweep,
     AbortConcurrent, AbortRestores, ShutdownThread, ExitWaited, DoCollect,
     CollectionInProgress
<1>6. CASE UNCHANGED vars
  BY <1>6
<1> QED
  BY <1>3, <1>4, <1>5, <1>6 DEF Next

\* No entry of pinnedObjectMap goes while the concurrent thread walks it.
THEOREM PinMapIsStable == Spec => PinMapStable
<1>1. IInv /\ [Next]_vars =>
        [bg = "eachPin" =>
           \A o \in Obj : pinMap[o] # Absent => pinMap'[o] # Absent]_vars
  BY PinStep
<1> QED
  BY <1>1, AlwaysIInv, PTL DEF Spec, PinMapStable

=============================================================================
