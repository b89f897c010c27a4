------------------------------ MODULE Recycler ------------------------------
(***************************************************************************)
(* The garbage collector of the engine (lib/Common/Memory/Recycler.cpp):   *)
(* mark and sweep, with most of both done by a concurrent thread while the *)
(* script thread goes on allocating and storing.                           *)
(*                                                                         *)
(* Objects are allocated white.  The concurrent thread resets the marks    *)
(* and the write watch, marks from the pinned objects, the guest arenas    *)
(* and the script's stack, and rescans the pages written meanwhile; the    *)
(* script thread then stops, rescans what was written last, marks the      *)
(* roots again and sweeps what is left white, itself or concurrently.      *)
(* After a sweep the marks may be kept for a partial collection, which     *)
(* only rescans what has been written since.                               *)
(*                                                                         *)
(* An object has one field and a page of its own.  Work that the script    *)
(* thread does without letting go of the heap is one step; every access of *)
(* the concurrent thread to state the script can change is a step.         *)
(***************************************************************************)
EXTENDS Integers, FiniteSets

CONSTANTS
    Obj,              \* the objects the heap has room for
    None,             \* the null reference
    Starts,           \* heaps to start from, and what pins them
    MaxOps,           \* bound: steps of the script
    MaxCollections,   \* bound: collections started
    MaxPins,          \* bound: pins of one object
    MaxBackgroundFinishMarkCount   \* RecyclerHeuristic, 1 by default

VARIABLES
    heap,       \* objects allocated and not being swept
    field,      \* the reference an object holds
    stack,      \* objects on the stack and in the registers of the script
    arena,      \* objects a guest arena refers to
    weak,       \* objects some weak reference still resolves to
    transient,  \* transientPinnedObject
    pinMap,     \* pinnedObjectMap, Absent where there is no entry
    state,      \* collectionState
    marked,     \* the mark bits
    markStack,  \* marked objects whose field is still to be read
    oom,        \* objects of the blocks that need an out-of-memory rescan
    dirty,      \* pages written since the write watch was reset
    condemned,  \* unmarked objects of blocks that are being swept
    scanPins,   \* scanPinnedObjectMap
    pendingRoot,    \* hasPendingConcurrentFindRoot
    pendingUnpin,   \* hasPendingUnpinnedObject
    inPartial,      \* inPartialCollectMode
    finishCount,    \* backgroundFinishMarkCount
    ready,      \* concurrentWorkReadyEvent, or a work item of the service
    done,       \* concurrentWorkDoneEvent
    aborting,   \* isAborting
    bg,         \* where the concurrent thread is
    finishing,  \* ... in BackgroundFinishMark rather than BackgroundMark
    rescans,    \* ... backgroundRescanCount
    todo,       \* ... buckets of pinnedObjectMap still to visit
    pages,      \* ... dirty pages read and not rescanned yet
    main,       \* where the script thread is
    arg,        \* ... the object it is writing to, or pinning
    flags,      \* ... the flags of the call that waits
    service,    \* the host runs the work items (JsCreateRuntime)
    software,   \* software write barrier instead of the write watch
    ops, collections    \* what MaxOps and MaxCollections bound

scriptVars == <<heap, field, stack, arena, weak, transient, pinMap>>
markVars == <<marked, markStack, oom>>
pinVars == <<scanPins, pendingRoot, pendingUnpin>>
modeVars == <<inPartial, finishCount>>
eventVars == <<ready, done, aborting>>
bgVars == <<bg, finishing, rescans, todo, pages>>
mainVars == <<main, arg, flags>>
fixedVars == <<service, software>>
boundVars == <<ops, collections>>
vars == <<scriptVars, state, markVars, dirty, condemned, pinVars, modeVars,
          eventVars, bgVars, mainVars, fixedVars, boundVars>>

Absent == -1

MarkStates == {"ConcurrentResetMarks", "ConcurrentFindRoots",
               "ConcurrentMark", "ConcurrentFinishMark"}
SweepStates == {"ConcurrentSweep", "ConcurrentSweepPass1",
                "ConcurrentSweepPass2"}
IsConcurrentExecutingState == state \in MarkStates \cup SweepStates
IsConcurrentState ==
    \/ IsConcurrentExecutingState
    \/ state \in {"RescanWait", "ConcurrentSweepPass1Wait", "TransferSweptWait"}
CollectionInProgress == state # "NotCollecting"

Start == [heap : SUBSET Obj, field : [Obj -> Obj \cup {None}],
          stack : SUBSET Obj, arena : SUBSET Obj,
          transient : Obj \cup {None}, pinned : SUBSET Obj]

ASSUME RecyclerAssumption ==
    /\ None \notin Obj
    /\ MaxOps \in Nat /\ MaxCollections \in Nat
    /\ MaxPins \in Nat /\ MaxBackgroundFinishMarkCount \in Nat
    \* the heaps to start from have no dangling reference
    /\ Starts \subseteq Start
    /\ \A s \in Starts :
          /\ s.stack \cup s.arena \cup s.pinned \subseteq s.heap
          /\ s.transient \in s.heap \cup {None}
          /\ \A o \in s.heap : s.field[o] \in s.heap \cup {None}

Init ==
    /\ \E s \in Starts : /\ heap = s.heap /\ field = s.field
                         /\ stack = s.stack /\ arena = s.arena
                         /\ transient = s.transient
                         /\ pinMap = [o \in Obj |-> IF o \in s.pinned
                                                       THEN 1 ELSE Absent]
    /\ weak = {}
    /\ state = "NotCollecting"
    /\ marked = {} /\ markStack = {} /\ oom = {}
    /\ dirty = {} /\ condemned = {}
    /\ scanPins = FALSE /\ pendingRoot = FALSE /\ pendingUnpin = FALSE
    /\ inPartial = FALSE /\ finishCount = 0
    /\ ready = FALSE /\ done = FALSE /\ aborting = FALSE
    /\ bg = "idle" /\ finishing = FALSE /\ rescans = 0
    /\ todo = {} /\ pages = {}
    /\ main = "script" /\ arg = None /\ flags = "None"
    /\ service \in BOOLEAN /\ software \in BOOLEAN
    /\ ops = 0 /\ collections = 0

-----------------------------------------------------------------------------
(***************************************************************************)
(* The script.                                                             *)
(***************************************************************************)

ScriptStep ==
    /\ main = "script"
    /\ ops < MaxOps
    /\ ops' = ops + 1

collectorVars == <<state, markVars, condemned, modeVars, eventVars, bgVars,
                   fixedVars, collections>>

\* The script reads the field of an object it holds.
Load ==
    /\ ScriptStep
    /\ \E o \in stack : /\ field[o] # None
                        /\ stack' = stack \cup {field[o]}
    /\ UNCHANGED <<heap, field, arena, weak, transient, pinMap, dirty,
                   pinVars, mainVars, collectorVars>>

Drop ==
    /\ ScriptStep
    /\ \E o \in stack : stack' = stack \ {o}
    /\ UNCHANGED <<heap, field, arena, weak, transient, pinMap, dirty,
                   pinVars, mainVars, collectorVars>>

\* WriteBarrierPtr: the reference first, the card of its page second, and no
\* card for a null reference.  The write watch of the hardware is atomic.
Store(o, v) ==
    /\ field' = [field EXCEPT ![o] = v]
    /\ IF software
         THEN /\ IF v = None THEN UNCHANGED <<main, arg>>
                             ELSE main' = "barrier" /\ arg' = o
              /\ UNCHANGED dirty
         ELSE dirty' = dirty \cup {o} /\ UNCHANGED <<main, arg>>

WriteBarrierSet ==
    /\ ScriptStep
    /\ \E o \in stack, v \in stack \cup {None} : v # field[o] /\ Store(o, v)
    /\ UNCHANGED <<heap, stack, arena, weak, transient, pinMap, pinVars,
                   flags, collectorVars>>

WriteBarrier ==
    /\ main = "barrier"
    /\ dirty' = dirty \cup {arg}
    /\ main' = "script" /\ arg' = None
    /\ UNCHANGED <<scriptVars, pinVars, flags, collectorVars, ops>>

\* A new object is white; a block that is being swept has no room.
Alloc ==
    /\ ScriptStep
    /\ \E o \in Obj \ (heap \cup condemned) :
          /\ heap' = heap \cup {o}
          /\ field' = [field EXCEPT ![o] = None]
          /\ stack' = stack \cup {o}
    /\ UNCHANGED <<arena, weak, transient, pinMap, dirty, pinVars, mainVars,
                   collectorVars>>

ArenaStore ==
    /\ ScriptStep
    /\ \/ \E o \in stack \ arena : arena' = arena \cup {o}
       \/ \E o \in arena : arena' = arena \ {o}
    /\ UNCHANGED <<heap, field, stack, weak, transient, pinMap, dirty,
                   pinVars, mainVars, collectorVars>>

\* CreateWeakReferenceHandle, and RecyclerWeakReference::Get
WeakReference ==
    /\ ScriptStep
    /\ \/ /\ \E o \in stack \ weak : weak' = weak \cup {o}
          /\ UNCHANGED stack
       \/ /\ \E o \in weak \ stack : stack' = stack \cup {o}
          /\ UNCHANGED weak
    /\ UNCHANGED <<heap, field, arena, transient, pinMap, dirty, pinVars,
                   mainVars, collectorVars>>

\* RootAddRef: the pin that was transient moves to the map, then the map is
\* marked for scanning; the new pin is the transient one.
RootAddRef ==
    /\ ScriptStep
    /\ \E o \in stack :
         IF transient = None
           THEN transient' = o /\ UNCHANGED <<pinMap, main, arg>>
           ELSE /\ pinMap[transient] < MaxPins
                /\ pinMap' = [pinMap EXCEPT ![transient] =
                                 IF @ = Absent THEN 1 ELSE @ + 1]
                /\ main' = "addref" /\ arg' = o
                /\ UNCHANGED transient
    /\ UNCHANGED <<heap, field, stack, arena, weak, dirty, pinVars, flags,
                   collectorVars>>

RootAddRefFlag ==
    /\ main = "addref"
    /\ scanPins' = (scanPins \/ pinMap[transient] = 1)
    /\ transient' = arg
    /\ main' = "script" /\ arg' = None
    /\ UNCHANGED <<heap, field, stack, arena, weak, pinMap, dirty, pendingRoot,
                   pendingUnpin, flags, collectorVars, ops>>

\* Mutant of ReleaseLast: the entry always goes.
ReleaseLastRemoves(o) ==
    pinMap' = [pinMap EXCEPT ![o] = Absent] /\ UNCHANGED pendingUnpin

\* The entry of an object whose last pin goes stays in the map, with count 0,
\* as long as the concurrent thread may be walking the map.
ReleaseLast(o) ==
    IF pendingRoot
      THEN pinMap' = [pinMap EXCEPT ![o] = 0] /\ pendingUnpin' = TRUE
      ELSE pinMap' = [pinMap EXCEPT ![o] = Absent] /\ UNCHANGED pendingUnpin

RootRelease ==
    /\ ScriptStep
    /\ \/ /\ transient # None
          /\ transient' = None
          /\ UNCHANGED <<pinMap, pendingUnpin>>
       \/ \E o \in Obj \ {transient} :
            /\ pinMap[o] >= 1
            /\ IF pinMap[o] = 1
                 THEN ReleaseLast(o)
                 ELSE /\ pinMap' = [pinMap EXCEPT ![o] = @ - 1]
                      /\ UNCHANGED pendingUnpin
            /\ UNCHANGED transient
    /\ UNCHANGED <<heap, field, stack, arena, weak, dirty, scanPins,
                   pendingRoot, mainVars, collectorVars>>

ScriptNext ==
    \/ Load \/ Drop \/ WriteBarrierSet \/ WriteBarrier \/ Alloc \/ ArenaStore
    \/ WeakReference \/ RootAddRef \/ RootAddRefFlag \/ RootRelease

-----------------------------------------------------------------------------
(***************************************************************************)
(* The concurrent thread: ThreadProc, or the work item of the service.     *)
(***************************************************************************)

\* Everything a step of the concurrent thread while marking leaves alone.
bgFrame == <<scriptVars, condemned, modeVars, mainVars, fixedVars, boundVars,
             aborting>>

\* MarkContext::Mark of each object of S, where those of M are marked.  Where the
\* mark stack cannot grow the objects are marked all the same, and their blocks
\* flagged.
MarkFrom(M, S) ==
    /\ marked' = M \cup S
    /\ \/ markStack' = markStack \cup (S \ M) /\ UNCHANGED oom
       \/ /\ S \ M # {}
          /\ oom' = oom \cup (S \ M)
          /\ UNCHANGED markStack

MarkAll(S) == MarkFrom(marked, S)

\* ThreadProc after the wait, and the dispatch of DoBackgroundWork.  An item
\* of the service never sweeps in two passes (forceForeground).
BgTake ==
    /\ bg = "idle" /\ ready
    /\ ready' = FALSE
    /\ rescans' = 0
    /\ finishing' = (state = "ConcurrentFinishMark")
    /\ \/ state = "Exit" /\ bg' = "gone" /\ done' = TRUE
       \/ /\ \/ state = "ConcurrentResetMarks" /\ bg' = "resetMarks"
             \/ state = "ConcurrentMark" /\ bg' = "drain"
             \/ state = "ConcurrentFinishMark" /\ bg' = "rescan"
             \/ state \in SweepStates /\ bg' = "sweep"
          /\ UNCHANGED done
    /\ UNCHANGED <<bgFrame, state, markVars, dirty, pinVars, todo, pages>>

BackgroundResetMarks ==
    /\ bg = "resetMarks"
    /\ scanPins' = TRUE
    /\ marked' = {}
    /\ bg' = "resetWatch"
    /\ UNCHANGED <<bgFrame, state, markStack, oom, dirty, pendingRoot,
                   pendingUnpin, ready, done, finishing, rescans, todo, pages>>

BackgroundResetWriteWatchAll ==
    /\ bg = "resetWatch"
    /\ dirty' = {}
    /\ state' = "ConcurrentFindRoots"
    /\ bg' = "pins"
    /\ UNCHANGED <<bgFrame, markVars, pinVars, ready, done, finishing, rescans,
                   todo, pages>>

\* ScanPinnedObjects: the transient pin is marked, then the flag is read, ...
ScanTransient ==
    /\ bg = "pins"
    /\ MarkAll({transient} \ {None})
    /\ bg' = "pinFlag"
    /\ UNCHANGED <<bgFrame, state, dirty, pinVars, ready, done, finishing,
                   rescans, todo, pages>>

TestScanPins ==
    /\ bg = "pinFlag"
    /\ bg' = IF scanPins THEN "pinReset" ELSE "eachPin"
    /\ UNCHANGED <<bgFrame, state, markVars, dirty, pinVars, ready, done,
                   finishing, rescans, todo, pages>>

\* ... and goes down before the walk over the map, so that a pin that the walk
\* misses puts it up again.
ScanPinnedBegin ==
    /\ bg = "pinReset"
    /\ scanPins' = FALSE
    /\ todo' = Obj
    /\ bg' = "eachPin"
    /\ UNCHANGED <<bgFrame, state, markVars, dirty, pendingRoot, pendingUnpin,
                   ready, done, finishing, rescans, pages>>

ScanPinned ==
    /\ bg = "eachPin"
    /\ \E o \in todo :
         /\ MarkAll(IF pinMap[o] > 0 THEN {o} ELSE {})
         /\ todo' = todo \ {o}
    /\ UNCHANGED <<bgFrame, bg, state, dirty, pinVars, ready, done, finishing,
                   rescans, pages>>

\* Mutant of ScanArenas: the flag goes down (again) after the walk.
ScanArenasMutant ==
    /\ bg = "eachPin" /\ todo = {}
    /\ MarkAll(arena)
    /\ pendingRoot' = FALSE /\ scanPins' = FALSE
    /\ IF finishing
         THEN state' = "ConcurrentFinishMark" /\ bg' = "drain"
         ELSE state' = "ConcurrentMark" /\ bg' = "stack"
    /\ UNCHANGED <<bgFrame, dirty, pendingUnpin, ready, done, finishing,
                   rescans, todo, pages>>

\* The rest of BackgroundFindRoots.
ScanArenas ==
    /\ bg = "eachPin" /\ todo = {}
    /\ MarkAll(arena)
    /\ pendingRoot' = FALSE
    /\ IF finishing
         THEN state' = "ConcurrentFinishMark" /\ bg' = "drain"
         ELSE state' = "ConcurrentMark" /\ bg' = "stack"
    /\ UNCHANGED <<bgFrame, dirty, scanPins, pendingUnpin, ready, done,
                   finishing, rescans, todo, pages>>

\* The stack of a thread that goes on running: what the walk finds there, if
\* the thread is in script at all, is only a start.
BackgroundScanStack ==
    /\ bg = "stack"
    /\ \/ MarkAll(stack)
       \/ stack # {} /\ UNCHANGED markVars
    /\ bg' = "drain"
    /\ UNCHANGED <<bgFrame, state, dirty, pinVars, ready, done, finishing,
                   rescans, todo, pages>>

\* ProcessMark, one object at a time.
ProcessMark ==
    /\ bg = "drain"
    /\ \E o \in markStack :
         LET new == {field[o]} \ (marked \cup {None}) IN
         /\ marked' = marked \cup new
         /\ \/ markStack' = (markStack \ {o}) \cup new /\ UNCHANGED oom
            \/ /\ new # {}
               /\ markStack' = markStack \ {o}
               /\ oom' = oom \cup new
    /\ UNCHANGED <<bgFrame, bg, state, dirty, pinVars, ready, done, finishing,
                   rescans, todo, pages>>

\* BackgroundMark: one repeat always, a second one when many pages were dirty.
Drained ==
    /\ bg = "drain" /\ markStack = {}
    /\ IF finishing \/ oom # {} \/ aborting
         THEN bg' = "endMark" /\ UNCHANGED rescans
         ELSE \/ /\ rescans < 2
                 /\ bg' = "rescan" /\ rescans' = rescans + 1
              \/ /\ rescans > 0
                 /\ bg' = "endMark" /\ UNCHANGED rescans
    /\ UNCHANGED <<bgFrame, state, markVars, dirty, pinVars, ready, done,
                   finishing, todo, pages>>

\* HeapBlockMap::Rescan: the dirty pages are read, and their bits reset in
\* the same call; the cards of the software barrier are not reset.
RescanRead ==
    /\ bg = "rescan"
    /\ pages' = dirty
    /\ dirty' = IF software THEN dirty ELSE {}
    /\ bg' = "push"
    /\ UNCHANGED <<bgFrame, state, markVars, pinVars, ready, done, finishing,
                   rescans, todo>>

\* Mutant of RescanPush: the write watch is reset after the rescan.
RescanPushMutant ==
    /\ bg = "push"
    /\ markStack' = markStack \cup (pages \cap marked)
    /\ pages' = {} /\ dirty' = {}
    /\ IF finishing
         THEN bg' = "pins" /\ state' = "ConcurrentFindRoots"
         ELSE bg' = "stack" /\ UNCHANGED state
    /\ UNCHANGED <<bgFrame, marked, oom, pinVars, ready, done, finishing,
                   rescans, todo>>

\* RescanPage, and what BackgroundRepeatMark and BackgroundFinishMark do next.
RescanPush ==
    /\ bg = "push"
    /\ \/ markStack' = markStack \cup (pages \cap marked) /\ UNCHANGED oom
       \/ /\ pages \cap marked # {}
          /\ oom' = oom \cup (pages \cap marked)
          /\ UNCHANGED markStack
    /\ pages' = {}
    /\ IF finishing
         THEN bg' = "pins" /\ state' = "ConcurrentFindRoots"
         ELSE /\ bg' = IF oom' # {} \/ aborting THEN "endMark" ELSE "stack"
              /\ UNCHANGED state
    /\ UNCHANGED <<bgFrame, marked, dirty, pinVars, ready, done, finishing,
                   rescans, todo>>

EndBackgroundMark ==
    /\ bg = "endMark"
    /\ state' = "RescanWait"
    /\ bg' = "signal"
    /\ UNCHANGED <<bgFrame, markVars, dirty, pinVars, ready, done, finishing,
                   rescans, todo, pages>>

\* The sweep of DoBackgroundWork, in one pass or in two.
BackgroundSweep ==
    /\ bg = "sweep"
    /\ \/ /\ state = "ConcurrentSweep"
          /\ state' = "TransferSweptWait" /\ bg' = "signal"
       \/ /\ state = "ConcurrentSweep" /\ ~service
          /\ state' = "ConcurrentSweepPass1" /\ UNCHANGED bg
       \/ /\ state = "ConcurrentSweepPass1"
          /\ state' = "ConcurrentSweepPass1Wait" /\ bg' = "signal"
       \/ /\ state = "ConcurrentSweepPass2"
          /\ state' = "TransferSweptWait" /\ bg' = "signal"
    /\ UNCHANGED <<bgFrame, markVars, dirty, pinVars, ready, done, finishing,
                   rescans, todo, pages>>

SignalDone ==
    /\ bg = "signal"
    /\ done' = TRUE
    /\ bg' = "idle"
    /\ UNCHANGED <<bgFrame, state, markVars, dirty, pinVars, ready, finishing,
                   rescans, todo, pages>>

BgNext ==
    \/ BgTake \/ BackgroundResetMarks \/ BackgroundResetWriteWatchAll
    \/ ScanTransient \/ TestScanPins \/ ScanPinnedBegin \/ ScanPinned
    \/ ScanArenas \/ BackgroundScanStack \/ ProcessMark \/ Drained \/ RescanRead \/ RescanPush
    \/ EndBackgroundMark \/ BackgroundSweep \/ SignalDone

-----------------------------------------------------------------------------
(***************************************************************************)
(* The collector on the script thread.                                     *)
(***************************************************************************)

Pinned == {o \in Obj : pinMap[o] > 0}
Roots == stack \cup arena \cup Pinned \cup ({transient} \ {None})

\* What is marked once the fields of P, and of every object that gets marked
\* on the way, have been read: the least such set above M.  An out-of-memory
\* rescan in thread ends in the same marks, or ends the process.
Trace(M, P) ==
    {o \in Obj : \A S \in SUBSET Obj :
        (M \subseteq S /\ \A p \in P \cup (S \ M) : field[p] \in S \cup {None})
            => o \in S}

\* ScanPinnedObjects in thread: entries without pins leave the map.
ScanPinnedInThread(scan) ==
    /\ scanPins' = FALSE
    /\ IF scan
         THEN /\ pinMap' = [o \in Obj |-> IF pinMap[o] = 0 THEN Absent
                                                           ELSE pinMap[o]]
              /\ pendingUnpin' = FALSE
         ELSE UNCHANGED <<pinMap, pendingUnpin>>

\* Mark: ResetMarks, FindRoots and ScanStack, and the marking itself.
MarkInThread == Trace(Roots, Roots \cup markStack)

\* FinishMark once the concurrent thread is out of the way: the pages still
\* dirty, if rescan says so, then the roots.  The guest arenas are left out
\* when this very pause marked from them on the concurrent thread.
FinishMarkRoots(count) ==
    stack \cup ({transient} \ {None})
          \cup (IF count = 0 THEN arena ELSE {})
          \cup (IF scanPins THEN Pinned ELSE {})

\* Mutant of FinishMark: the pages written last are not rescanned.
FinishMarkMutant(rescan, count) ==
    LET roots == FinishMarkRoots(count)
    IN  Trace(marked \cup roots, markStack \cup oom \cup (roots \ marked))

FinishMark(rescan, count) ==
    LET roots == FinishMarkRoots(count)
    IN  Trace(marked \cup roots,
              markStack \cup oom \cup (roots \ marked)
                        \cup (IF rescan THEN dirty \cap marked ELSE {}))

\* Mutant of SweepWeakReference: the references are cleared some other time.
SweepWeakReferenceMutant(M) == weak' = weak

SweepWeakReference(M) == weak' = weak \cap M

\* StartConcurrent sets the state and hands the work over.
StartConcurrent(s) == state' = s /\ ready' = TRUE

\* Sweep with the marks M.  BeginSweep decides on partial collection; the
\* write watch then starts afresh, unless the concurrent thread reset it in
\* this pause.  A concurrent sweep the service denies is done in thread.
Sweep(M, concurrent, mayPartial, count) ==
    /\ SweepWeakReference(M)
    /\ heap' = heap \cap M
    /\ inPartial' \in (IF mayPartial /\ oom = {} THEN BOOLEAN ELSE {FALSE})
    /\ dirty' = IF inPartial' /\ ~software /\ (count = 0 \/ ~concurrent)
                  THEN {} ELSE dirty
    /\ marked' = M /\ markStack' = {} /\ oom' = {}
    /\ IF concurrent
         THEN /\ condemned' = heap \ M
              /\ finishCount' = count
              /\ \/ StartConcurrent("ConcurrentSweep") /\ done' = FALSE
                 \/ /\ service
                    /\ state' = "TransferSweptWait" /\ done' = TRUE
                    /\ UNCHANGED ready
         ELSE /\ condemned' = {}
              /\ finishCount' = 0
              /\ state' = "NotCollecting"
              /\ done' = FALSE
              /\ UNCHANGED ready

DoCollect ==
    /\ main = "script" /\ ~CollectionInProgress
    /\ collections < MaxCollections
    /\ collections' = collections + 1

\* The variables only the other thread's code, or the script's, assigns.
callFrame == <<field, stack, arena, transient, aborting, bgVars, fixedVars,
               ops>>

StartBackgroundMarkCollect ==
    /\ DoCollect
    /\ pendingRoot' = TRUE
    /\ inPartial' = FALSE
    /\ StartConcurrent("ConcurrentResetMarks")
    /\ UNCHANGED <<callFrame, heap, weak, pinMap, markVars, dirty, condemned,
                   scanPins, pendingUnpin, finishCount, done, mainVars>>

\* What DoCollect does without the concurrent marker: disabled, or denied.
StartConcurrentSweepCollect ==
    /\ DoCollect
    /\ ScanPinnedInThread(TRUE)
    /\ Sweep(MarkInThread, TRUE, TRUE, 0)
    /\ UNCHANGED <<callFrame, pendingRoot, mainVars>>

CollectOnAllocatorThread ==
    /\ DoCollect
    /\ ScanPinnedInThread(TRUE)
    /\ Sweep(MarkInThread, FALSE, FALSE, 0)
    /\ UNCHANGED <<callFrame, pendingRoot, mainVars>>

\* Roots in thread, marking on the concurrent thread, and a wait for it.  The
\* roots stay on the mark stack when the service denies the work.
CollectOnConcurrentThread ==
    /\ DoCollect
    /\ inPartial' = FALSE
    /\ dirty' = IF software THEN dirty ELSE {}
    /\ MarkFrom({}, Roots)
    /\ ScanPinnedInThread(TRUE)
    /\ \/ /\ StartConcurrent("ConcurrentMark")
          /\ main' = "syncWait"
       \/ /\ service
          /\ UNCHANGED <<state, ready, main>>
    /\ UNCHANGED <<callFrame, heap, weak, condemned, pendingRoot, finishCount,
                   done, arg, flags>>

\* The concurrent thread was in time, and the script did not run meanwhile:
\* no rescan and no roots, only what is left on the mark stack.
SyncWaited ==
    /\ main = "syncWait" /\ done
    /\ Sweep(Trace(marked, markStack \cup oom), FALSE, FALSE, 0)
    /\ main' = "script"
    /\ UNCHANGED <<callFrame, pinMap, pinVars, arg, flags, collections>>

\* A partial collection keeps the marks, and rescans what was written since.
PartialInBackground ==
    /\ DoCollect /\ inPartial
    /\ pendingRoot' = TRUE
    /\ StartConcurrent("ConcurrentFinishMark")
    /\ UNCHANGED <<callFrame, heap, weak, pinMap, markVars, dirty, condemned,
                   scanPins, pendingUnpin, modeVars, done, mainVars>>

PartialInThread ==
    /\ DoCollect /\ inPartial
    /\ ScanPinnedInThread(scanPins)
    /\ \E concurrent \in BOOLEAN :
          Sweep(FinishMark(TRUE, 0), concurrent, TRUE, 0)
    /\ UNCHANGED <<callFrame, pendingRoot, mainVars>>

PartialCollect == PartialInBackground \/ PartialInThread

-----------------------------------------------------------------------------

\* FinishConcurrentCollect begins by waiting for the concurrent thread.  A
\* concurrent call leaves a dedicated thread alone while it is working.
FinishConcurrentCollect ==
    /\ main = "script" /\ IsConcurrentState
    /\ flags' \in {"InThread", "Plain", "Concurrent"}
    /\ flags' = "Concurrent" => (~IsConcurrentExecutingState \/ service)
    /\ main' = "finishWait"
    /\ UNCHANGED <<callFrame, heap, weak, pinMap, state, markVars, dirty,
                   condemned, pinVars, modeVars, ready, done, arg, collections>>

\* WaitForConcurrentThread gives up: only the forced finish waits for ever.
WaitTimesOut ==
    /\ ~done
    /\ \/ main = "finishWait" /\ flags # "InThread"
       \/ main \in {"markWait", "syncWait"}
    /\ main' = "script" /\ flags' = "None"
    /\ UNCHANGED <<callFrame, heap, weak, pinMap, state, markVars, dirty,
                   condemned, pinVars, modeVars, ready, done, arg, collections>>

\* RescanMark hands the rest of the marking to the concurrent thread, ...
RescanInBackground ==
    /\ main = "finishWait" /\ done /\ state = "RescanWait"
    /\ flags = "Concurrent"
    /\ oom = {}
    /\ finishCount < MaxBackgroundFinishMarkCount
    /\ pendingRoot' = TRUE
    /\ StartConcurrent("ConcurrentFinishMark")
    /\ finishCount' = finishCount + 1
    /\ done' = FALSE
    /\ main' = "markWait"
    /\ UNCHANGED <<callFrame, heap, weak, pinMap, markVars, dirty, condemned,
                   scanPins, pendingUnpin, inPartial, arg, flags, collections>>

\* ... or does it in thread.
RescanInThread ==
    /\ main = "finishWait" /\ done /\ state = "RescanWait"
    /\ ScanPinnedInThread(scanPins)
    /\ Sweep(FinishMark(TRUE, 0), flags = "Concurrent", TRUE, 0)
    /\ main' = "script" /\ flags' = "None"
    /\ UNCHANGED <<callFrame, pendingRoot, arg, collections>>

MarkWaited ==
    /\ main = "markWait" /\ done
    /\ ScanPinnedInThread(scanPins)
    /\ Sweep(FinishMark(FALSE, finishCount), TRUE, TRUE, finishCount)
    /\ main' = "script" /\ flags' = "None"
    /\ UNCHANGED <<callFrame, pendingRoot, arg, collections>>

\* FinishTransferSwept and FinishCollection.  The sweep may have found that
\* partial collection does not pay (hasBackgroundFinishPartial).
FinishTransferSwept ==
    /\ condemned' = {}
    /\ inPartial' \in {inPartial, FALSE}
    /\ finishCount' = 0
    /\ state' = "NotCollecting"

FinishSweep ==
    /\ main = "finishWait" /\ done
    /\ done' = FALSE
    /\ main' = "script" /\ flags' = "None"
    /\ \/ /\ \/ state = "TransferSweptWait"
             \/ state = "ConcurrentSweepPass1Wait" /\ flags = "InThread"
          /\ FinishTransferSwept
          /\ UNCHANGED ready
       \/ /\ state = "ConcurrentSweepPass1Wait" /\ flags # "InThread"
          /\ StartConcurrent("ConcurrentSweepPass2")
          /\ UNCHANGED <<condemned, modeVars>>
    /\ UNCHANGED <<callFrame, heap, weak, pinMap, markVars, dirty, pinVars, arg,
                   collections>>

-----------------------------------------------------------------------------

\* AbortConcurrent, on its own or as the first half of FinalizeConcurrent.
AbortConcurrent ==
    /\ main = "script" /\ IsConcurrentState
    /\ aborting' = TRUE
    /\ flags' \in {"Restore", "Exit"}
    /\ main' = "abortWait"
    /\ UNCHANGED <<scriptVars, state, markVars, dirty, condemned, pinVars,
                   modeVars, ready, done, bgVars, arg, fixedVars, boundVars>>

\* CleanupPendingUnroot
CleanupPendingUnroot ==
    /\ pinMap' = IF pendingUnpin
                   THEN [o \in Obj |-> IF pinMap[o] = 0 THEN Absent
                                                        ELSE pinMap[o]]
                   ELSE pinMap
    /\ pendingUnpin' = FALSE

\* ResetMarkCollectionState: nothing of the abandoned marking is left.
ResetMarkCollectionState ==
    /\ markStack' = {} /\ oom' = {}
    /\ state' = "NotCollecting"
    /\ finishCount' = 0 /\ inPartial' = FALSE
    /\ CleanupPendingUnroot

\* Mutant of AbortSweep: the event is not set again.
AbortSweepMutant ==
    /\ state' = "TransferSweptWait"
    /\ done' = FALSE
    /\ main' = "finishWait" /\ flags' = "InThread"

\* The event that the abort consumed is set again for the forced finish.
AbortSweep ==
    /\ state' = "TransferSweptWait"
    /\ done' = TRUE
    /\ main' = "finishWait" /\ flags' = "InThread"

AbortRestores ==
    /\ main = "abortWait" /\ flags = "Restore" /\ done
    /\ aborting' = FALSE
    /\ \/ /\ state = "RescanWait"
          /\ ResetMarkCollectionState
          /\ done' = FALSE
          /\ main' = "script" /\ flags' = "None"
       \/ /\ state \in {"ConcurrentSweepPass1Wait", "TransferSweptWait"}
          /\ AbortSweep
          /\ UNCHANGED <<pinMap, pendingUnpin, markStack, oom, modeVars>>
    /\ UNCHANGED <<heap, field, stack, arena, weak, transient, marked, dirty,
                   condemned, scanPins, pendingRoot, ready, bgVars, arg,
                   fixedVars, boundVars>>

\* FinalizeConcurrent: a dedicated thread is told to go, and waited for.
Finalize ==
    /\ state' = "Exit"
    /\ IF service THEN main' = "closed" /\ UNCHANGED ready
                  ELSE main' = "exitWait" /\ ready' = TRUE

ShutdownThread ==
    /\ \/ /\ main = "script" /\ ~CollectionInProgress
          /\ UNCHANGED <<pinMap, pendingUnpin, markStack, aborting, done>>
       \/ /\ main = "abortWait" /\ flags = "Exit" /\ done
          /\ aborting' = FALSE /\ done' = FALSE
          /\ CleanupPendingUnroot
          /\ markStack' = {}
    /\ Finalize
    /\ flags' = "None"
    /\ UNCHANGED <<heap, field, stack, arena, weak, transient, marked, oom,
                   dirty, condemned, scanPins, pendingRoot, modeVars, bgVars,
                   arg, fixedVars, boundVars>>

ExitWaited ==
    /\ main = "exitWait" /\ done
    /\ done' = FALSE
    /\ main' = "closed"
    /\ UNCHANGED <<scriptVars, state, markVars, dirty, condemned, pinVars,
                   modeVars, ready, aborting, bgVars, arg, flags, fixedVars,
                   boundVars>>

CollectNext ==
    \/ StartBackgroundMarkCollect \/ StartConcurrentSweepCollect
    \/ CollectOnAllocatorThread \/ CollectOnConcurrentThread \/ SyncWaited
    \/ PartialCollect \/ FinishConcurrentCollect \/ WaitTimesOut
    \/ RescanInBackground \/ RescanInThread \/ MarkWaited \/ FinishSweep
    \/ AbortConcurrent \/ AbortRestores \/ ShutdownThread \/ ExitWaited

Next == ScriptNext \/ BgNext \/ CollectNext

Spec == Init /\ [][Next]_vars

-----------------------------------------------------------------------------
(***************************************************************************)
(* Properties.                                                             *)
(***************************************************************************)

BgPlaces == {"idle", "resetMarks", "resetWatch", "pins", "pinFlag", "pinReset",
             "eachPin", "stack", "drain", "rescan", "push", "endMark", "signal",
             "sweep", "gone"}
MainPlaces == {"script", "barrier", "addref", "finishWait", "markWait",
               "syncWait", "abortWait", "exitWait", "closed"}

DataTypes ==
    /\ heap \subseteq Obj /\ field \in [Obj -> Obj \cup {None}]
    /\ stack \subseteq Obj /\ arena \subseteq Obj /\ weak \subseteq Obj
    /\ transient \in Obj \cup {None}
    /\ pinMap \in [Obj -> Nat \cup {Absent}]
    /\ state \in MarkStates \cup SweepStates \cup
                 {"NotCollecting", "RescanWait", "ConcurrentSweepPass1Wait",
                  "TransferSweptWait", "Exit"}
    /\ marked \subseteq Obj /\ markStack \subseteq Obj /\ oom \subseteq Obj
    /\ dirty \subseteq Obj /\ condemned \subseteq Obj
    /\ finishCount \in Nat
    /\ bg \in BgPlaces /\ rescans \in 0..2
    /\ todo \subseteq Obj /\ pages \subseteq Obj
    /\ main \in MainPlaces /\ arg \in Obj \cup {None}
    /\ flags \in {"None", "InThread", "Plain", "Concurrent", "Restore", "Exit"}
    /\ ops \in Nat /\ collections \in Nat

FlagTypes ==
    /\ scanPins \in BOOLEAN /\ pendingRoot \in BOOLEAN
    /\ pendingUnpin \in BOOLEAN /\ inPartial \in BOOLEAN
    /\ ready \in BOOLEAN /\ done \in BOOLEAN /\ aborting \in BOOLEAN
    /\ finishing \in BOOLEAN
    /\ service \in BOOLEAN /\ software \in BOOLEAN

\* The type invariant.
TypeOK == DataTypes /\ FlagTypes

\* What the script can reach, from its stack, the arenas and the pins, has
\* not been swept: no interleaving of stores, allocations and pins with the
\* concurrent marker, no timeout, abort or partial collection makes Sweep
\* take a live object.
NothingReachableSwept == Trace(Roots, Roots) \subseteq heap

\* A weak reference that still resolves gives the script an object that no
\* sweep is taking: SweepWeakReference comes before the sweep is handed over.
WeakReferencesResolve == weak \subseteq heap

\* Marks mean something from the reset on, and for as long as the recycler
\* stays in partial mode and is not shut down.
MarksValid ==
    \/ inPartial /\ state # "Exit"
    \/ state \in {"ConcurrentFindRoots", "ConcurrentMark",
                  "ConcurrentFinishMark", "RescanWait"}

\* The script stands still and the pages it wrote have been rescanned.
Settled ==
    \/ main = "syncWait"
    \/ /\ main = "markWait"
       /\ ~ready /\ bg \notin {"rescan", "push"}

\* Objects whose field is still to be read before the marks are final.
Unscanned ==
    markStack \cup oom \cup
    (IF Settled THEN {}
     ELSE dirty \cup pages \cup (IF main = "barrier" THEN {arg} ELSE {}))

\* Between the resets of BackgroundResetMarks and the end of the marking, and
\* through every later partial collection, a marked object refers to a marked
\* one unless it is on the mark stack, flagged for an out-of-memory rescan or
\* on a page the rescan will find dirty.
MarkedMeansScanned ==
    MarksValid =>
        \A o \in (marked \cap heap) \ Unscanned : field[o] \in marked \cup {None}

\* ScanPinnedObjects may skip the map only if every pinned object is marked,
\* about to be visited by the walk, or being announced by RootAddRef.
PinsNotMissed ==
    (MarksValid /\ ~scanPins) =>
        \A o \in Pinned : \/ o \in marked \cup todo
                          \/ main = "addref" /\ o = transient /\ pinMap[o] = 1

\* Exactly one piece of work is out with the concurrent thread while the state
\* is a concurrent one, as a work item, in the thread or as a done event, and
\* none otherwise: a wait never finds an old event and never waits for nothing.
OneWorkItem ==
    LET busy == bg \notin {"idle", "gone"}
        one == (ready /\ ~busy /\ ~done) \/ (~ready /\ busy /\ ~done)
                   \/ (~ready /\ ~busy /\ done)
    IN  IF IsConcurrentState \/ main = "exitWait"
          THEN one
          ELSE ~ready /\ ~busy /\ ~done

\* The walk of the concurrent thread over pinnedObjectMap sees no entry
\* disappear: RootRelease and CleanupPendingUnroot leave the map alone.
PinMapStable ==
    [][bg = "eachPin" =>
         \A o \in Obj : pinMap[o] # Absent => pinMap'[o] # Absent]_vars

\* The entries that RootRelease left behind are remembered until they go.
LeftoverPinsKnown == (\E o \in Obj : pinMap[o] = 0) => pendingUnpin

=============================================================================
