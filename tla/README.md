# ChakraCore: TLA+ models of its concurrent core

ChakraCore is a JavaScript engine: a parser, a byte code emitter, an
interpreter, a two-tier JIT compiler, a concurrent garbage collector, a library
of built-ins and a hosting API.  Most of it is sequential.  The parts that are
hard to get right, and hard to test, are those where several threads share
state (the processors that hand JIT and parse jobs to background threads, the
waiting and waking of agents in `Atomics`, the storage that agents share, and
the collector), and those where calls of one thread interleave by re-entrance,
callbacks and messages (ES modules with top level await, async generators).
This directory models these six, checks the models with TLC on small instances
and proves their safety with TLAPS for every instance, including that the
detailed models implement the abstract ones.  (Of the ES modules, loading and
linking are proved whatever fails, and evaluation for sources in which nothing
fails.)  The plan at the end says what comes next.

## 1. Inventory

| Component | State | Operations | What is hard | What makes it correct |
|---|---|---|---|---|
| Intrusive lists (`lib/Common/DataStructures/DoublyLinkedList*`) | links in the elements | link at either end, unlink, move to the beginning | moving several runs of elements while walking | the result is a list of the same elements; relative order is kept |
| Background job processor (`lib/Common/Common/Jobs.*`) | queue, managers, `numJobs`, events, one record per thread; per manager a count and two kinds of wait | AddManager, RemoveManager, AddJob, RemoveJob, PrioritizeJob, PrioritizeJobAndWait, PrioritizeManagerAndWait, Close; Run on each worker | workers and callers interleave; auto-reset events; a host that denies threads; waits with a timeout; shutdown | no job is lost or run twice, counts are exact, no wakeup is lost, every wait ends, a removed manager and a closed processor are quiet |
| Foreground job processor (same files) | queue, managers, counts | the same calls, on the calling thread | counts in the middle of calls; Close runs critical jobs | the same promises as the background processor |
| Atomics.wait / notify (`AtomicsObject.cpp`, `WaiterList` in `SharedArrayBuffer.cpp`) | elements, a waiter list per index, an event per wait | wait, notify, stores | comparison and suspension against stores and notifies; timeouts outside the lock; conversion of the count | lists and waiters agree, no wakeup is lost, woken waits return |
| Shared storage (`SharedContents` in `SharedArrayBuffer.*`, three calls of `JsrtCore.cpp`) | buffer, reference count, objects, handles | create, take a handle, attach, release, finalize | runtimes on different threads drop references in any order | exact count, no use after free |
| Agents of ch (`bin/ch/RuntimeThreadData.cpp`, `WScriptJsrt.cpp`) | per thread: events, semaphore, shared content | LoadScript("crossthread"), Broadcast, Leaving, Uninitialize; ThreadProc | parent and children hand over a handle by events | content is held while a child uses it, calls return, the parent outlives its children |
| Recycler (`lib/Common/Memory/Recycler.cpp`, `HeapBlockMap.cpp`, `RecyclerPointers.h`) | mark bits, mark stack, dirty pages, pinned objects, weak references, `collectionState`, two events | store, pin, unpin; collect in thread, concurrently or partially; finish, abort, shut down | a concurrent thread marks while the script stores and pins; timeouts, denied work items, out of memory; marks kept for partial collections | nothing reachable is swept; weak references resolve to live objects; the two threads agree on the work under way |
| ES modules (`SourceTextModuleRecord.cpp`, and `ch` as the host) | a record per module: parents, children, flags, counts, error, promise | parse, link, announce, evaluate, import(), settlement of an awaiting body | cycles, shared dependencies, failures on the way, bodies that end in any order | bodies run once and after their dependencies; each root is announced and reported once |
| Async generators (`JavascriptAsyncGenerator.cpp`) | request queue, pending state, state of the body | next, return, throw; two callbacks; ResumeNext, ResumeCoroutine, UnwrapValue | script calls the generator from its body and from getters that a handler runs | the body is not entered twice; every request is answered once, in order |
| Idle decommit | free pages, decommit timer | enter and leave idle decommit | the decommit thread against the owner | pages in use are not decommitted |
| Native code generator, execution modes | work items, per-function mode and limits | queue, speculate, install; transitions between tiers | late results, mode changes while a job is queued | a function moves along the allowed tiers only |
| Promises | state, reactions, the host's task queue | resolve, reject, then | re-entrance of getters | each settles once |
| JIT server, background parser | context tables, parse workers | remote calls, disconnects; parse jobs | requests in flight while a context is closed | a context is freed when nobody uses it |
| Parser, byte code, interpreter, optimiser, types, built-ins, debugger, WebAssembly reader, structured clone, PAL | | | sequential, or vendored | out of reach of a small instance |

Components interact through calls under a lock and through events.  Job managers
(the code generator, the background parser) call the processor with its critical
section held and are called back by it; the thread service of the host calls
`ThreadServiceCallback`.  `Atomics.wait` and `notify` of different runtimes meet
in `SharedContents::indexToWaiterList`; the storage reaches another runtime
through content handles that the host passes on, which in `ch` is `Broadcast`.
The collector's two threads share `collectionState`, the mark bits and the dirty
pages, and take turns by two auto-reset events.  Modules and async generators are
called back by the promises they await; the host of the modules, `ch`, sends
itself messages to load what a module imports and to evaluate a ready root.
`PROJECT.json` lists every component, and every hazard with the line where it
bites and the properties that cover it.

## 2. Modules

`LinkedList` has no variables: it defines the list operations on records
`[elems, before]`, where `before` is the order as a set of pairs.  An element
has one pair of links, so the record says all there is to say about a list, and
removing or moving a set of elements needs no recursion.

`BackgroundJobs` models `BackgroundJobProcessor`.  Its variables carry the names
of the fields (`jobs`, `numJobs`, `isWaitingForJobs`, `jobBeingWaitedUpon`, ...);
`wpc` and `fpc` are the control points of workers and of the threads that call.
A stretch of code under `criticalSection` is one action.  A worker that reports
a job keeps the lock while it turns to the next one, so it is recorded in
`lockHolder`.  What happens outside the lock is a step of its own: `Process`,
the waits, `wakeAllBackgroundThreads.Set()` in Close, and the two resets of wait
marks after a wait.  `HasCallback` selects the thread service, which may deny a
thread at every request (`Invoke`, external).  The assertions at the head of a
call are its guard.  Whether a manager lets its jobs be processed in the
foreground, and which jobs it provides proactively, comes from
`NativeCodeGenerator` (`Speculative`, `HybridThreshold`).

`ForegroundJobs` models `ForegroundJobProcessor` in the same terms: one thread,
no lock, and the job in `Process` visible as a state, because the counts are
updated only after it.

`JobService` is the abstract specification of both: jobs have a status, managers
are in, leaving or out, the processor is open, closing or closed.  There is no
queue, lock, event or thread in it.  `KeepsPromises` in each processor is its
specification under a refinement mapping (`statusBar`, `managerBar`,
`phaseBar`).

`AtomicsWait` models `EntryWait`, `EntryNotify`, `GetWaiterList` and
`WaiterList` (the Windows build; elsewhere `AddAndSuspendWaiter` is a TODO and
does not suspend).  `call[a]` holds the locals of the call that agent `a` is in.
A wait is up to four steps: look up the list, compare and enlist under the lock,
wake up or time out without the lock, return under it.  Stores take no lock.
The count of notify is converted by `ToInt32`, which wraps around at `HalfWord`
(2^31 in the program).  `owed` is a history variable: the indices that were
stored to since the last notify that had room for every waiter.

`SharedContents` models the reference count: objects of any runtime, handles of
the host, and finalizers that free the storage in a step after the one that
brought the count to zero.  `AgentBroadcast` extends it with the parent and
child threads of `ch`; its actions use those of `SharedContents`, and
`KeepsHandleRule` says that they do so only in ways that module allows.

`Recycler` models a collection as the script thread and the concurrent thread
see it.  An object has one field and a page of its own.  What the script thread
does while it holds the heap is one action; each access of the concurrent thread
to state that the script can change is one (`BackgroundResetMarks`,
`TestScanPins`, `ScanPinnedBegin`, `ScanPinned`, `RescanRead`, `ProcessMark`, ...),
and so are the two halves of a store with the software write barrier
(`WriteBarrierSet`, `WriteBarrier`) and of a pin (`RootAddRef`, `RootAddRefFlag`).
`software` selects the barrier, `service` a host that runs the work items and may
deny them.  The mark stack may fail to grow at any push (`oom`).  Marking that happens
without interruption is a least fixed point (`Trace`), not a loop.  The
heuristics that decide between kinds of collection are a choice.

`ModuleRecords` models `SourceTextModuleRecord` together with the host.  Its
methods call one another up and down the import graph, on one thread.  `stack`
holds the calls in progress, each with the method (`op`), the record, what is
left of the list that the method walks (`rest`) and an error that it carries.
A step is a stretch of the method on top of the stack, up to its next call or its
return; `thrown` is an exception on its way up, and each `catch` is an action.  A
promise job or a message of the host starts only when the stack is empty: the
host loads, fails to load or evaluates a module, a script calls import(), a body
that awaits ends.  The flags of the records are sets of modules with the names
of the fields.  Which modules exist, import each other, await, throw or fail to
load is the `world`, chosen once in Init.  `awaitedModules` is a uint of
`UIntSpan` values.

`AsyncGenerator` models one generator object.  `frames` is the stack of native
calls in progress; script runs inside the body, inside the `then` getter that
Resolve reads and inside the `constructor` getter that UnwrapValue reads, and
from each of them it may call next, return or throw again (`EnqueueRequest`).  A
request counts as answered when it is shifted off the queue, which is the order
that scripts observe.  `AsyncIterator` is the abstract specification: a queue of
requests, one answer for each, in order, and none with a value after the end;
`KeepsOrder` says that the generator implements it.

The proofs about a module `M` are in `MProofs` (those about `SharedContents` in
`AgentBroadcastProofs`); the inductive invariants that they use are defined at the
end of `M`, so that TLC can evaluate them, and in `ModuleRecordsProofs` and
`ModuleCompletionProofs` for the modules, whose invariants are longer than the
model.  The `MC*` modules give the constants their values.  Operators with a comment
that begins with "Mutant" are wrong variants of the definition that follows
them; each property is shown to fail when one of them takes the place of the
original, so no property holds by the shape of the model.

## 3. Runs

| Run | Instance | Distinct states | What it shows |
|---|---|---|---|
| `dedicated_threads` | 2 callers, 2 managers (one speculative), 3 jobs (one critical), 2 workers, timeouts | 685,998 (workers symmetric) | counts are exact, no wakeup is lost, waiters are not stranded, removed managers and a closed processor are quiet, JobService is implemented |
| `dedicated_liveness` | 1 caller, 2 managers, 2 jobs, 2 workers, no timeouts | 49,500 | every wait ends, every added job leaves |
| `thread_service` | 1 caller, 2 managers, 3 jobs, 2 callback runs, denials | 347,765 | wakeups and waits stay right although threads are denied |
| `service_close_early` | as above | violation | see findings |
| `foreground_jobs` | 2 managers, 4 jobs, two critical | 3,411 | the foreground processor keeps the same promises, and its calls end |
| `atomics_wait` | 3 agents, 1 element, 2 values, counts -1, 1 and none | 229,020 | lists are exact, no lost wakeup, woken and timed waits return |
| `atomics_timeout` | 2 agents | violation | see findings |
| `broadcast_one_child` | parent, 1 child, 2 contents, 4 objects | 2,278 | exact count, no use after free, no leak, handle rule, calls return |
| `recycler` | 2 heaps of up to 3 objects, 2 script steps, 2 collections, 1 pin each | 5,172,125 | nothing reachable is swept, weak references resolve, marked objects are scanned, pins are not missed, one work item, the map of pins is stable |
| `modules` | 4 modules, 7 graphs, every choice of modules that await, at most one defect | 536,184 | bodies run once and after their dependencies, roots are announced once, counts are exact, completion is reported once, import() is fulfilled |
| `module_request` | 2 roots that share a module that awaits | violation | see findings |
| `async_generator` | 4 requests, 2 awaits | 10,222 | the body is exclusive, pending states and reactions agree, the head of the queue is served, AsyncIterator is implemented, requests are answered |

Bounds.  Two workers and two callers are what it takes for a job to be wanted by
two sides, for one auto-reset event to serve two jobs, and for RemoveManager to
wait while another manager's job is in flight; the third job gives a queue in
which moving a manager's jobs matters.  `MaxNumJobs` is the largest `numJobs`
(UINT_MAX in the program): AddJob fails there, as in the code, and the runs reach
it because `numJobs` is not decremented by RemoveJob.  Two callback runs are
enough for a finished one to overlap with the next.  Three agents give two
waiters and a notifier; the instance has one element, and that lists of different
elements do not mix is in the proofs (`ListsDistinct`, `RightList`).  Two list
addresses let a second list appear if GetWaiterList made one.  `HalfWord` is 4: an
int32 of three bits.  Objects of `AgentBroadcast` are a bound on broadcasts: a
broadcast starts only when every child has an object left.  A storage record is
used once.

`recycler`: `MaxOps` bounds the steps of the script, `MaxCollections` the
collections.  Two steps are what it takes to hide an object (load it and drop the
way to it, or store it behind the marker and forget it), and two collections are
what a partial one needs; the starting heaps hold the chains and pins that more
steps would build.  The proofs have no bound.  `modules`: the graphs are a chain,
a diamond, a fan, two cycles, two roots over one module and a root inside the
tree of another; four modules give two levels under a shared one.  Worlds with
two defects are left out.  `async_generator`: a third request is the first that
can be queued behind one that waits, and the fourth follows the end.

Deadlock is checked for `BackgroundJobs` (with an explicit `Terminated` step).
The other specifications may stop: scripts need not call anything, agents that
wait without a timeout may sleep for ever, a recycler is shut down, and a module
graph is quiet when everything has been evaluated.

Fairness.  `BackgroundJobs`: weak fairness of each worker and of a call that has
begun (threads are scheduled, `Process` returns), and strong fairness of the
steps of a worker that need the lock.  A critical section does not promise
fairness, but a caller that enters it again and again does other work in
between, and a spinning worker that never gets it would be a scheduler's fault;
weak fairness would not do, because the lock is taken by others time and again.
`AtomicsWait`: weak fairness of a call that has begun, for each agent; nobody is
obliged to store or notify.  `ForegroundJobs`: weak fairness of the call in
progress.  `AgentBroadcast`: weak fairness of the parent's waits and of each
child, which includes that the callback of a child's script returns.
`AsyncGenerator`: weak fairness of the native steps, of the ends of the body (it
awaits, yields, returns or throws sooner or later) and of the callbacks (an awaited
promise settles, which the program that awaits it has to see to).

## 4. Findings

* `service_close_early`: a callback of the thread service sets
  `threadStartedOrClosing` after it has left the lock.  If a job was indicated in
  between, the late Set undoes the Reset that was to make Close wait, and Close
  returns while the new callback is inside Process.
* `atomics_timeout`: a wait times out outside the lock; a notify that comes first
  takes the waiter off the list and counts it as woken.  RemoveWaiter then runs
  into its `Assert(false)`, and the wait returns "timed-out".
* `module_request`: two roots import a module that awaits.  When it settles before
  the host has evaluated the second root, that root's count of awaited modules
  reaches zero and DecrementAndEvaluateIfNothingAwaited runs its body without
  asking whether it is being evaluated, against the assertion in
  CleanupBeforeExecution and without the generator that ModuleEvaluation makes.

Known from the models, without a run of their own:

* Job processors: `numJobs`, handed to ShouldProcessInForeground as the number of
  queued jobs, is not decremented by RemoveJob nor by the proactive loop, so it
  grows past the length of the queue (Jobs.cpp:328).  With a thread service, Close
  can return while a callback that found the queue empty is still on its way out
  of Run (Jobs.cpp:1235).  PrioritizeManagerAndWait leaves
  `isWaitingForQueuedJobs` set when it decides not to wait (Jobs.inl:255).
* `Atomics`: a woken wait does not close its event (AtomicsObject.cpp:226); a count
  of 2^31 or more wakes nobody.
* `ch`: Broadcast waits for one answer, whatever the number of children, and then
  releases the handle that the others are still to use (WScriptJsrt.cpp:2632).
* Modules: a module that throws after it has awaited a child is marked as evaluated
  first, so PropogateRejection returns early and the exception is not set on its
  record, although ChakraCore.h:227 says "However in all cases the exception will
  be set on the JsModuleRecord."; modules on a cycle that await wait for each
  other; import() of a module that is linked but whose evaluation was skipped does
  not settle; an awaiting root that is also import()ed is not reported; a module
  named by two specifiers is awaited twice; OnHostException does not tell the
  parents.  A root that is linked as part of the graph of an announced module is
  not announced itself.  `Benign` and the preconditions of the properties name
  these cases; import() of a module on a cycle may be fulfilled before the modules
  on the cycle have ended.
* Modules: import() of a child that is ready, that no root has linked yet and that
  does not link crashes.  PostProcessDynamicModuleImport rejects its promise, which
  drops it, and then hands the promise that is not there to
  CreatePassThroughPromise (SourceTextModuleRecord.cpp:324, 1544 and 359), against
  "Assert(JavascriptOperators::IsObject(object));" in SpeciesConstructor
  (JavascriptOperators.cpp:10645).  The model ends there (`ImportCrashes`).
* Modules: a body that throws may make another begin twice.  Take roots r1 (which
  imports t and p), r2 (which imports a) and r3 (which imports p), where p imports
  a, p and a await, and t throws.  The evaluation of r1 prepasses p and is given
  up when t throws; r2 evaluates a.  When a settles, the count of p, which nobody
  has evaluated, reaches zero and its body runs; then r3 evaluates p, and the body
  begins again.  When nothing fails, a module that has been prepassed is
  evaluated in the same call of the host, and the body of one that has not cannot
  run for want of a generator (`module_request`).
* Recycler: when the service denies the work of CollectOnConcurrentThread, the
  roots stay on the mark stack, which the next collection asserts to be empty
  (Recycler.cpp:2058).  They are marked once more than needed.
* Async generators: UnwrapValue sets `pendingState` before PromiseResolve, which
  may throw; the state is never taken back, and no later request is answered
  (JavascriptAsyncGenerator.cpp:319).  The rejection of a promise that the body
  yields completes the generator (RejectNext) and is not thrown into the body.

## 5. Proofs

The proofs are checked by `tlapm` with Z3, Zenon and LS4.  Assumptions on
constants are named and are evaluated by TLC in the runs: `JobsAssumption`,
`ForegroundAssumption`, `AtomicsAssumption`, `SharedAssumption`,
`AgentAssumption`, `RecyclerAssumption`, `GeneratorAssumption`,
`ModulesAssumption`.  `JobsAssumption` says that there are finitely many workers
and, with dedicated threads, at least one (Jobs.cpp:521).  `ModulesAssumption`
says that there are finitely many modules, fewer than a uint has values, and that
sources are what they are: sequences of requests and sets of modules.

Both job proofs begin with lemmas about `LinkedList`: each operation takes a list
to a list (strict and total order) with the expected elements, and in
`BackgroundJobsProofs` a finite list that is not empty has a head (`HeadExists`,
from the well-foundedness of the strict subset relation, applied to the sets of
predecessors).  The rest cites these lemmas and never expands the order.

`BackgroundJobsProofs` proves `Spec => []IndInv` for any number of callers,
managers, jobs and workers, with dedicated threads and with a thread service, and
from it `TypeOK`, `AddedCountExact`, `NumJobsCoversQueue`, `OneOwner` and
`RemovedManagerQuiet`.  None of these is inductive alone.  That a count is exact
after a decrement needs that the job was added and is in nobody else's hands
(`WorkerInv`, `ForegroundInv`, `QueueInv`).  The foreground's own decrement in the
proactive loop is guarded by the count alone, and is right only because a thread
that has not waited is one whose service request was denied, so that no callback
runs (`ServiceInv`, and the last part of `ForegroundOK`).  RemoveManager returns
when `currentJob` shows no job of the manager; that this leaves none behind needs
`CurrentInv`, `AddedInv` and `RemovedInv`.  There is one lemma per action, and
lemmas for the helpers that several actions share (Abort, taking a job, the
counts).

On top of `IndInv` the same module proves what the threads owe each other.

* `NoLostWakeup` (`WakeupsAreNotLost`).  `WakeInv` adds what the flags mean.
  `DedicatedInv`: a dedicated thread says that it waits exactly when it does, and
  leaves only a closed processor without jobs.  `CallbackInv`: unless
  `isWaitingForJobs` is set, the service has a thread in the loop.  `ClosedInv`:
  after Close only critical jobs are queued and nobody adds one.  A worker that
  takes the auto-reset event while two jobs are queued is up itself, and looks at
  the queue again before it waits.  The same invariant gives `ClosedIsQuiet` for
  dedicated threads (`ClosedMeansQuiet`).
* `WaiterNotStranded` (`NobodyIsStranded`).  `WaitInv` says that
  `jobBeingWaitedUpon` of a manager is set only while the manager's owner waits for
  one of its jobs, in PrioritizeJobAndWait or in RemoveManager, so that the reset
  after one wait does not take the mark of another.
* `KeepsPromises` for dedicated threads (`DedicatedThreadsKeepPromises`): under
  `IndInv`, `WakeInv` and `WaitInv` each action is a step of `JobService` or a
  stutter.  The hypothesis `~HasCallback` is needed: with a thread service Close can
  return while a job runs (`service_close_early`), which `JobService` forbids.
  `OpenKeepsPromises` (`OpenProcessorKeepsPromises`) is the part that holds with a
  service too: until Close is called, each step is one that `JobService` allows.

`ForegroundJobsProofs` proves `AddedCountExact` and that the foreground processor
implements `JobService`, for any managers and jobs.  There is no second thread; the
invariant is about the middle of a call.  `CallInv` says which job and manager a
call works for, and `QueueInv` that the added jobs are the linked ones and the one
in Process.  In Close it is the part of the list that the loop has not reached,
because the jobs that the loop has done with stay linked.  Close aborts the jobs
one after the other and `JobService` all at once, so the mapping counts the
non-critical jobs as aborted as soon as the loop begins.

`AtomicsWaitProofs` proves `WaitersExact`, `NoLostWakeup` and `TypeOK` for any
agents, elements, values and counts.  The invariant adds that no two elements
share a list, that a call works on the list of its element, and that the event of
a wait matches its progress.  The proof of `NoLostWakeup` is where the order in
EntryWait matters: the comparison and the enlisting are under one lock, so a
notify sees the waiter if the store came after the comparison.

`AgentBroadcastProofs` has three parts.  The first is about `SharedContents`:
`RefCountExact` and `NoUseAfterFree` for any number of objects, handles and
contents.  The two are inductive together with the types: storage with a
reference is allocated, and the finalizer that sees 1 holds the only reference.
The others are about the host.  For any number of children, `BroadcastInv` gives
`RefCountExact` and `NoLeak`: the only handle is that of the running Broadcast
(`HandleInv`), whose argument is an object of the parent, so that the handle is
never the last reference; and children only attach to what has been allocated
(`AllocatedInv`).  That a child attaches under a handle, and uses nothing freed, is
proved under `OneChildOnly`, which is what the code can keep: Broadcast waits for
a single answer (WScriptJsrt.cpp:2632), and `OneChildInv`, that a child is at the
broadcast only while the parent waits for it, fails with a second child.

`RecyclerProofs` proves for every heap, starting heap and bound that nothing
reachable is swept (`NothingReachableSwept`), that weak references resolve, that
marked objects are scanned or will be, that pins are not missed, that one work
item is under way, and that the map of pins is stable.  The inductive invariant
`IInv` has four parts: the types of the flags, `Control` (which place of one
thread goes with which place of the other, the events and the state), `Heap` (what
the script holds is allocated, no dangling references among allocated objects)
and `Marking` (`MarkedMeansScanned`, `PinsNotMissed`, and what the flags promise
about the roots at the last pause).  The heart is that the marks are closed when
the sweep begins: `TraceCloses` and `TraceWithin` say that `Trace` is the least
closed set, `FinishMarkClosed` and `SyncClosed` that the last pause makes the
marks contain everything reachable, and `SweepKeeps` that the sweep then keeps
`Heap`.  The order of the flag and the walk in ScanPinnedObjects, and the order of
the reference and the card in the write barrier, are what `PinsNotMissed` and
`MarkedMeansScanned` rest on.

`AsyncGeneratorProofs` proves the three invariants of the generator and the
refinement `KeepsOrder`, for any number of requests and awaits.  The invariant
describes the stack of calls: `BodyInv` gives its shape (the body is in it at most
once, and exactly when the state is Executing; above the body or a getter there
are only calls that return early), `PendingInv` relates pending state, reactions
and the handler that is about to register one, `QueueInv` says that a queue that
is not empty is being served, and `DoneInv` that answers with a value come
before the end.

`ModuleRecordsProofs` is about every import graph, any roots, any order of arrival
and any interleaving of messages and promise jobs.

* Loading and linking, whatever fails (`GraphInvariant`, `TypesInvariant`,
  `LinkedWhenReadyHolds`). `GraphInv` is inductive and has four parts. `Types`
  includes what each call on the stack carries; `Caught` says that an exception
  thrown in the prepass or in a body has a call below it that catches it.
  `LoadInv` says when a module may tell its parents that it is complete: a module
  in `parentsNotified` is `Whole` (it and everything it imports is parsed) or has
  failed, and then so have its parents. This needs the shape of the stack, since
  OnChildModuleReady and NotifyParentsAsNeeded nest on cycles, and a call further
  down may hold a list of parents that a call above it has already told
  (`NotifyingCalled`, `Notifies`). `LinkInv` then says that what is initialized,
  compiled or ready is closed under imports.
* Evaluation, when nothing fails (`EvaluationInvariant`, and from it
  `RunsOnceHolds`, `DependenciesFirstHolds`, `AwaitedExactHolds`,
  `FulfilledLateHolds`). `NothingFails` is a hypothesis on the sources: no module
  throws, is missing, is malformed, does not link or is refused, and none is
  requested by two specifiers. Without it `RunsOnce` and `AwaitedExact` are false
  of some graphs (section 4). Cycles, shared dependencies, any number of roots and
  import() are allowed. `EvalInv` is inductive together with `GraphInv`. `Modes`
  and `Nesting` give the shape of the stack: an evaluation goes down from a root
  to its imports, the end of a body goes up to the modules that wait, and the two
  do not mix. `Prepassed` says that the prepass goes no further than the
  evaluation that follows it, which is why, between messages, only modules whose
  evaluation has begun have a generator. `Counted` is the heart: awaitedModules of
  a module, evaluated or not, is the number of its children that are under
  evaluation and have left the call that would increment the counts, and of those
  that have ended but whose loop over the parents has yet to reach it (`Pending`,
  `Tells`). With it, the count reaches zero only when every import has ended or
  is, on a cycle, a caller (`Suspended`), which is what `DependenciesFirst` needs;
  and a module whose body begins is not already running, which is `RunsOnce`.
  `FulfilledLate` is the part of `ImportsFulfilled` that does not speak of the
  end: without cycles, no import() is rejected, and one that is fulfilled comes
  after the bodies of the module and of all that it imports.

`ModuleCompletionProofs` goes on, also under `NothingFails`, with what the host can
count on when it has nothing left to do.

* Announcement (`AnnounceInvariant`, and from it `RootsAnnouncedHolds`). What
  could be lost here is a visit: a module whose walk in ConfirmChildrenParsed
  meets a missing source is not looked at again unless one of its children tells
  it, and NotifyParentsAsNeeded does nothing for a module that is telling its
  parents already. `Scheduled` says why none is lost. Walk from a parsed module
  that has not told its parents along the imports, without passing a module that
  has (`Walk`, cut at `Settling`). If every source on the way is there, some
  module on the way is about to be looked at by a call in progress (`Due`).
  Between messages no call is in progress, so once every source has been delivered
  (`Fetched`) all modules have told their parents; `RootsLinked` and
  `LinkedAnnounced` then say that a root that has done so is linked, by its own
  announcement or by that of one root that imports it. `Preparing` and
  `EvaluatesLinked` keep loading and evaluation apart.
* Completion (`SettleInvariant`, and from it `ImportsFulfilledHolds` and
  `CompletionReportedHolds`). `AnnouncedBegun`: what has been announced is
  evaluated. `Awaiting`: a module under evaluation is waiting for its own body,
  for a module that has yet to tell it (`Pending`, which `Counted` relates to
  awaitedModules), or is about to run. `Promised` and `ReportedOnce`: a module
  that has ended settles its import() or reports, once, or its call is still on
  the stack (`Ending`); `EndsOnce` says that there is one such call for it.
  `Origins`: there are no records but those that the host has asked for and what
  they import. At rest no body is suspended and no call is in progress, so
  `Awaiting` gives every module under evaluation an import that is under
  evaluation too. Without cycles that is impossible (`NoEndlessImports`, by the
  well-foundedness of the strict subset relation, applied to the sets of
  dependencies): every module has ended. With cycles it happens (section 4), which
  is why `ImportsFulfilledHolds` has the hypothesis that no module imports itself,
  directly or not. `CompletionReported` is about such graphs in any case
  (`Benign`).

Only model-checked: all liveness properties, since fairness and ENABLED are out of
this prover's reach; and, of the modules, `RootsAnnounced`, `CompletionReported`
and `DependenciesFirst` where something fails. The other hypotheses of the
theorems are needed: `RunsOnce` is false of some graphs in which a body throws,
`AwaitedExact` of some in which two specifiers name one module, and
`ImportsFulfilled` of some with cycles (section 4). `ClosedIsQuiet` and
`KeepsPromises` with a thread service are not open either: the code violates them.

The other way round, the following are proved and are properties of no run:
`TypeOK`, `OneOwner`, `NumJobsCoversQueue` and `OpenKeepsPromises` of
`BackgroundJobs`, `TypeOK` and `LeftoverPinsKnown` of `Recycler`, `TypeOK` of
`ForegroundJobs` and `AsyncGenerator`, and `GraphInv`, `EvalInv`, `AnnounceInv`,
`SettleInv` and `FulfilledLate` of the modules. The inductive invariants were
evaluated by TLC on the instances of the runs (`BroadcastInv` also with two
children) before they were proved.

## 6. What is not modelled

Of the job processors: the association of page allocators, OnDecommit and the
unlocked walk over the managers in `~AutoDecommit`, DoExtraWork, and threads that
the system kills.  Of `Atomics`: builds without Windows events, and the arithmetic
of the read-modify-write operations (they are stores).  Of shared storage: slices
and accessors, and WebAssembly shared memory.  GrowMemory takes no lock, but at
this commit only one agent can hold such a memory, since the deserialization that
would share it is commented out.  Of `ch`: the reports that children post.

Of the Recycler: tracked, finalizable and disposed objects, parallel marking
threads, the stack that is skipped, regions of weak references, deletion of guest
arenas, the wrapper callback, external roots, repetition of exhaustive
collections, page heap and the heap blocks themselves; the heuristics are a
choice.  Of modules: resolution of exports and namespaces, failures of byte code
generation, a NotifyModuleReady callback that fails (that of `ch` fails only when
out of memory), hosts without ReportModuleCompletion, import() from a body that is
running, and a host that parses inside FetchImportedModule.  The hash table of
children is walked in any order.  Of async generators: the values, and the rejection
tracker of the host.

Most of the engine (parser, byte code, interpreter, optimiser, types, built-ins)
is a sequential translation or the meaning of programs, which no small instance
covers.
Everything else is listed in `PROJECT.json` with its reason.

## 7. Plan

1. Done: lists, background and foreground job processors with their abstract
   specification, Atomics, shared storage and the agents of `ch`.
2. Done: the collection state machine of the Recycler with the write barrier,
   pins, partial collections, abort and shutdown; ES module records with top level
   await; async generators with their abstract specification.
3. Done: proofs of the wakeups, the waits and Close of `BackgroundJobs`, that both
   processors implement `JobService`, and of `AgentBroadcast`.
4. Done: proofs of `ModuleRecords`: loading and linking whatever fails, and
   evaluation, announcement and completion when nothing fails, with shared
   dependencies, any roots and, except for completion, cycles.  Left: what becomes
   of the roots when a source is missing or a body throws.
5. Execution modes of a function, with the code generator's work items on top of
   `BackgroundJobs`: allowed transitions, late results of the JIT.
6. Promises; the background parser's manager; the idle decommit allocator; the
   contexts of the JIT server.  Runs are kept few: a new component brings one
   passing run with its safety and liveness properties together.
