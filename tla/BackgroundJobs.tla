-------------------------- MODULE BackgroundJobs --------------------------
(***************************************************************************)
(* BackgroundJobProcessor (lib/Common/Common/Jobs.{h,inl,cpp}): the queue  *)
(* through which foreground (script) threads hand JIT and parse jobs to    *)
(* background worker threads, wait for single jobs or for all queued jobs  *)
(* of a manager, remove managers and close the processor.                  *)
(*                                                                         *)
(* Everything a thread does between Enter and Leave of criticalSection is  *)
(* one action, except that a worker that finishes a job keeps the lock     *)
(* while it goes on to the next turn of its loop: lockHolder.  What the    *)
(* code does outside the lock (Process, waiting for events, setting        *)
(* wakeAllBackgroundThreads, resetting a wait flag) is a step of its own.  *)
(***************************************************************************)
EXTENDS Naturals, FiniteSets, LinkedList

CONSTANTS
    Foregrounds,      \* threads that own managers and call the processor
    Managers,         \* WaitableJobManagers
    Jobs,             \* jobs the managers can create
    Workers,          \* worker threads, or runs of the thread service callback
    Owner,            \* the foreground thread a manager belongs to
    ManagerOf,        \* Job::Manager
    Critical,         \* jobs created with isCritical
    Speculative,      \* managers of the NativeCodeGenerator kind: they hold
                      \* jobs back, provide them proactively, and answer
                      \* ShouldProcessInForeground(willWaitForJob = true) with true
    HybridThreshold,  \* HybridFgJitBgQueueLengthThreshold
    HasCallback,      \* the host provides a thread service; such a processor
                      \* belongs to one runtime thread
    MayTimeOut,       \* PrioritizeManagerAndWait is called with a finite time
    MaxNumJobs,       \* the largest numJobs (UINT_MAX); AddJob fails beyond it
    None

ASSUME JobsAssumption ==
    /\ Owner \in [Managers -> Foregrounds]
    /\ ManagerOf \in [Jobs -> Managers]
    /\ Critical \subseteq Jobs
    /\ Speculative \subseteq Managers
    /\ HybridThreshold \in Nat
    /\ MaxNumJobs \in Nat
    /\ HasCallback \in BOOLEAN
    /\ MayTimeOut \in BOOLEAN
    /\ HasCallback => \A f, g \in Foregrounds : f = g
    /\ IsFiniteSet(Jobs) /\ IsFiniteSet(Workers)
    /\ ~HasCallback => Workers # {}
    /\ None \notin Jobs \cup Managers \cup Workers

\* ParallelThreadData: one record per worker thread, or a single one that all
\* runs of the thread service callback share.
ServiceData == "service"

ThreadData == IF HasCallback THEN {ServiceData} ELSE Workers
DataOf(w) == IF HasCallback THEN ServiceData ELSE w

VARIABLES
    lockHolder,        \* worker that holds criticalSection between two steps
    managers, jobs, isClosed, numJobs, jobReady, wakeAllBackgroundThreads,
    isWaitingForJobs, currentJob, threadStartedOrClosing,  \* per ThreadData
    numJobsAddedToProcessor, jobBeingWaitedUpon, jobBeingWaitedUponProcessed,
    isWaitingForQueuedJobs, queuedJobsProcessed,           \* per manager
    jobState,          \* where the manager has the job
    wpc, wjob,         \* per worker: control point and local `job`
    fpc, fjob, fmgr,   \* per foreground: control point, `job`, `manager`
    fwait              \* per foreground: `waitForQueuedJobs`

processorVars == <<managers, jobs, isClosed, numJobs>>
eventVars     == <<jobReady, wakeAllBackgroundThreads>>
dataVars      == <<isWaitingForJobs, currentJob, threadStartedOrClosing>>
waitVars      == <<jobBeingWaitedUpon, jobBeingWaitedUponProcessed,
                   isWaitingForQueuedJobs, queuedJobsProcessed>>
managerVars   == <<numJobsAddedToProcessor, waitVars>>
workerVars    == <<wpc, wjob>>
foregroundVars == <<fpc, fjob, fmgr, fwait>>
vars == <<lockHolder, processorVars, eventVars, dataVars, managerVars,
          jobState, workerVars, foregroundVars>>

WorkerStates == {"none", "loop", "waiting", "woken", "processing", "leaving", "exited"}

ForegroundStates == {"idle", "process", "waitJob", "waitQueued", "proactive",
                     "processProactive", "removing", "removeWait",
                     "closeWake", "closeWait", "closed"}

\* Every variable has its type; numJobs and the managers' counts, which are
\* unsigned in the program, never pass zero.
TypeOK ==
    /\ lockHolder \in Workers \cup {None}
    /\ managers \subseteq Managers
    /\ jobs \in ListsOf(Jobs)
    /\ isClosed \in BOOLEAN
    /\ numJobs \in Nat
    /\ jobReady \in BOOLEAN
    /\ wakeAllBackgroundThreads \in BOOLEAN
    /\ isWaitingForJobs \in [ThreadData -> BOOLEAN]
    /\ currentJob \in [ThreadData -> Jobs \cup {None}]
    /\ threadStartedOrClosing \in [ThreadData -> BOOLEAN]
    /\ numJobsAddedToProcessor \in [Managers -> Nat]
    /\ jobBeingWaitedUpon \in [Managers -> Jobs \cup {None}]
    /\ jobBeingWaitedUponProcessed \in [Managers -> BOOLEAN]
    /\ isWaitingForQueuedJobs \in [Managers -> BOOLEAN]
    /\ queuedJobsProcessed \in [Managers -> BOOLEAN]
    /\ jobState \in [Jobs -> {"new", "added", "processed", "aborted"}]
    /\ wpc \in [Workers -> WorkerStates]
    /\ wjob \in [Workers -> Jobs \cup {None}]
    /\ fpc \in [Foregrounds -> ForegroundStates]
    /\ fjob \in [Foregrounds -> Jobs \cup {None}]
    /\ fmgr \in [Foregrounds -> Managers \cup {None}]
    /\ fwait \in [Foregrounds -> BOOLEAN]

\* The constructor: dedicated threads have been started and waited for, and
\* threadStartedOrClosing was reset; with a thread service no callback runs.
Init ==
    /\ lockHolder = None
    /\ managers = {} /\ jobs = EmptyList /\ isClosed = FALSE /\ numJobs = 0
    /\ jobReady = FALSE /\ wakeAllBackgroundThreads = FALSE
    /\ isWaitingForJobs = [d \in ThreadData |-> HasCallback]
    /\ currentJob = [d \in ThreadData |-> None]
    /\ threadStartedOrClosing = [d \in ThreadData |-> FALSE]
    /\ numJobsAddedToProcessor = [m \in Managers |-> 0]
    /\ jobBeingWaitedUpon = [m \in Managers |-> None]
    /\ jobBeingWaitedUponProcessed = [m \in Managers |-> FALSE]
    /\ isWaitingForQueuedJobs = [m \in Managers |-> FALSE]
    /\ queuedJobsProcessed = [m \in Managers |-> FALSE]
    /\ jobState = [j \in Jobs |-> "new"]
    /\ wpc = [w \in Workers |-> IF HasCallback THEN "none" ELSE "loop"]
    /\ wjob = [w \in Workers |-> None]
    /\ fpc = [f \in Foregrounds |-> "idle"]
    /\ fjob = [f \in Foregrounds |-> None]
    /\ fmgr = [f \in Foregrounds |-> None]
    /\ fwait = [f \in Foregrounds |-> FALSE]

-----------------------------------------------------------------------------
(* Helpers that run inside the lock.                                       *)

Unlocked == lockHolder = None

JobsOf(m) == {j \in Jobs : ManagerOf[j] = m}

NumberOfThreadsWaitingForJobs == Cardinality({d \in ThreadData : isWaitingForJobs[d]})

AreAllThreadsWaitingForJobs == \A d \in ThreadData : isWaitingForJobs[d]

IsBeingProcessed(j) == \E d \in ThreadData : currentJob[d] = j

\* Mutant: the comparison of managers is inverted.
GetCurrentJobsOfOthers(m) == {j \in Jobs \ JobsOf(m) : IsBeingProcessed(j)}
GetCurrentJobsOfManager(m) ==
    {j \in JobsOf(m) : IsBeingProcessed(j)}

\* The manager's answer; the bare-bones JobManager says no.
ShouldProcessInForeground(m, willWaitForJob, numJobsInQueue) ==
    m \in Speculative /\ (willWaitForJob \/ numJobsInQueue > HybridThreshold)

\* Mutant: the denied request is forgotten.
ForcedInThreadNever == FALSE

\* A thread service request was denied earlier, nobody will take the job.
ForcedInThread == HasCallback /\ isWaitingForJobs[ServiceData]

\* The host starts a callback run, or denies the request.
Invoke ==
    \/ UNCHANGED wpc
    \/ \E w \in Workers : wpc[w] = "none" /\ wpc' = [wpc EXCEPT ![w] = "loop"]

\* Mutant: isWaitingForJobs is not set again when the request is denied.
InvokeForgotten ==
    Invoke /\ isWaitingForJobs' = [isWaitingForJobs EXCEPT ![ServiceData] = FALSE]
InvokeThreadService ==
    /\ Invoke
    /\ isWaitingForJobs' = [isWaitingForJobs EXCEPT ![ServiceData] = (wpc' = wpc)]

\* Mutant: no thread is told of the new job.
IndicateNewJobNever == UNCHANGED <<isWaitingForJobs, threadStartedOrClosing, jobReady, wpc>>

\* Sets the auto-reset event when a dedicated thread waits; with a thread
\* service, asks it for a thread.
IndicateNewJob ==
    IF NumberOfThreadsWaitingForJobs = 0
    THEN UNCHANGED <<isWaitingForJobs, threadStartedOrClosing, jobReady, wpc>>
    ELSE IF HasCallback
    THEN /\ threadStartedOrClosing' = [threadStartedOrClosing EXCEPT ![ServiceData] = FALSE]
         /\ InvokeThreadService
         /\ UNCHANGED jobReady
    ELSE /\ jobReady' = TRUE
         /\ UNCHANGED <<isWaitingForJobs, threadStartedOrClosing, wpc>>

\* A queued job leaves the queue to be processed.
TakeFromQueue(j) == jobs' = Unlink(jobs, {j}) /\ numJobs' = numJobs - 1

\* Mutant: the manager's count is not changed.
UncountedAdded(j) == UNCHANGED numJobsAddedToProcessor
IncrementAdded(j) ==
    numJobsAddedToProcessor' = [numJobsAddedToProcessor EXCEPT ![ManagerOf[j]] = @ + 1]
DecrementAdded(j) ==
    numJobsAddedToProcessor' = [numJobsAddedToProcessor EXCEPT ![ManagerOf[j]] = @ - 1]

\* JobProcessed(succeeded = false) for every job of S, which leave the queue:
\* numJobs and the managers' counts drop, and a wait for one of them ends.
Abort(S) ==
    /\ jobs' = Unlink(jobs, S)
    /\ numJobs' = numJobs - Cardinality(S)
    /\ jobState' = [j \in Jobs |-> IF j \in S THEN "aborted" ELSE jobState[j]]
    /\ numJobsAddedToProcessor' =
          [m \in Managers |-> numJobsAddedToProcessor[m] - Cardinality(S \cap JobsOf(m))]
    /\ jobBeingWaitedUponProcessed' =
          [m \in Managers |-> jobBeingWaitedUponProcessed[m] \/ jobBeingWaitedUpon[m] \in S]
    /\ jobBeingWaitedUpon' =
          [m \in Managers |-> IF jobBeingWaitedUpon[m] \in S THEN None ELSE jobBeingWaitedUpon[m]]
    /\ UNCHANGED <<isWaitingForQueuedJobs, queuedJobsProcessed>>

-----------------------------------------------------------------------------
(* BackgroundJobProcessor::Run, per worker.                                *)

\* The worker has or gets the lock, and is at the head of its loop.
AtLoopHead(w) == wpc[w] = "loop" /\ lockHolder \in {None, w}

KeepsRunning == ~isClosed \/ \E j \in Critical : IsHead(jobs, j)

\* The loop ends: the processor is closed and no critical job is in front.
RunExit(w) ==
    /\ AtLoopHead(w)
    /\ ~KeepsRunning
    /\ lockHolder' = None
    /\ wpc' = [wpc EXCEPT ![w] = "leaving"]
    /\ UNCHANGED <<processorVars, eventVars, dataVars, managerVars, jobState,
                   wjob, foregroundVars>>

\* Mutant: the flag is not set.
WaitingUnmarked(w, b) == UNCHANGED isWaitingForJobs
SetWaitingForJobs(w, b) == isWaitingForJobs' = [isWaitingForJobs EXCEPT ![DataOf(w)] = b]

\* No job in the queue: wait for one, or give the thread back to the service.
RunWait(w) ==
    /\ AtLoopHead(w)
    /\ KeepsRunning
    /\ jobs.elems = {}
    /\ SetWaitingForJobs(w, TRUE)
    /\ lockHolder' = None
    /\ wpc' = [wpc EXCEPT ![w] = IF HasCallback THEN "leaving" ELSE "waiting"]
    /\ UNCHANGED <<processorVars, eventVars, currentJob, threadStartedOrClosing,
                   managerVars, jobState, wjob, foregroundVars>>

RunTake(w) ==
    /\ AtLoopHead(w)
    /\ KeepsRunning
    /\ \E j \in jobs.elems :
          /\ IsHead(jobs, j)
          /\ TakeFromQueue(j)
          /\ currentJob' = [currentJob EXCEPT ![DataOf(w)] = j]
          /\ wjob' = [wjob EXCEPT ![w] = j]
    /\ lockHolder' = None
    /\ wpc' = [wpc EXCEPT ![w] = "processing"]
    /\ UNCHANGED <<managers, isClosed, eventVars, isWaitingForJobs,
                   threadStartedOrClosing, managerVars, jobState, foregroundVars>>

\* Mutant: tested before the count is decremented.
LastQueuedEarly(m, left) == isWaitingForQueuedJobs[m] /\ left + 1 = 0
LastQueued(m, left) == isWaitingForQueuedJobs[m] /\ left = 0

\* Process has returned or thrown; the worker takes the lock, reports the job
\* and wakes whoever waits for this job or for the manager's last one.
RunProcessed(w) ==
    LET j == wjob[w]
        m == ManagerOf[j]
        left == numJobsAddedToProcessor[m] - 1
        waitedUpon == jobBeingWaitedUpon[m] = j
        lastQueued == ~waitedUpon /\ LastQueued(m, left)
    IN  /\ wpc[w] = "processing"
        /\ Unlocked
        /\ lockHolder' = w
        /\ wpc' = [wpc EXCEPT ![w] = "loop"]
        /\ wjob' = [wjob EXCEPT ![w] = None]
        /\ currentJob' = [currentJob EXCEPT ![DataOf(w)] = None]
        /\ jobState' = [jobState EXCEPT ![j] = "processed"]
        /\ DecrementAdded(j)
        /\ jobBeingWaitedUpon' =
              [jobBeingWaitedUpon EXCEPT ![m] = IF waitedUpon THEN None ELSE @]
        /\ jobBeingWaitedUponProcessed' =
              [jobBeingWaitedUponProcessed EXCEPT ![m] = @ \/ waitedUpon]
        /\ isWaitingForQueuedJobs' = [isWaitingForQueuedJobs EXCEPT ![m] = @ /\ ~lastQueued]
        /\ queuedJobsProcessed' = [queuedJobsProcessed EXCEPT ![m] = @ \/ lastQueued]
        /\ UNCHANGED <<processorVars, eventVars, isWaitingForJobs,
                       threadStartedOrClosing, foregroundVars>>

\* WaitForJobReadyOrShutdown returns: jobReady is tried first and is reset by
\* the wait, wakeAllBackgroundThreads stays set.
WaitForJobReadyOrShutdown(w) ==
    /\ wpc[w] = "waiting"
    /\ jobReady \/ wakeAllBackgroundThreads
    /\ jobReady' = FALSE
    /\ wpc' = [wpc EXCEPT ![w] = "woken"]
    /\ UNCHANGED <<lockHolder, processorVars, wakeAllBackgroundThreads, dataVars,
                   managerVars, jobState, wjob, foregroundVars>>

RunReenter(w) ==
    /\ wpc[w] = "woken"
    /\ Unlocked
    /\ lockHolder' = w
    /\ SetWaitingForJobs(w, FALSE)
    /\ wpc' = [wpc EXCEPT ![w] = "loop"]
    /\ UNCHANGED <<processorVars, eventVars, currentJob, threadStartedOrClosing,
                   managerVars, jobState, wjob, foregroundVars>>

\* The end of StaticThreadProc, or of ThreadServiceCallback.
ThreadLeaves(w) ==
    /\ wpc[w] = "leaving"
    /\ threadStartedOrClosing' = [threadStartedOrClosing EXCEPT ![DataOf(w)] = TRUE]
    /\ wpc' = [wpc EXCEPT ![w] = IF HasCallback THEN "none" ELSE "exited"]
    /\ UNCHANGED <<lockHolder, processorVars, eventVars, isWaitingForJobs, currentJob,
                   managerVars, jobState, wjob, foregroundVars>>

\* The steps that start with criticalSection.Enter, or go on inside the lock.
LockedStep(w) == RunExit(w) \/ RunWait(w) \/ RunTake(w) \/ RunProcessed(w) \/ RunReenter(w)

Worker(w) == LockedStep(w) \/ WaitForJobReadyOrShutdown(w) \/ ThreadLeaves(w)

-----------------------------------------------------------------------------
(* The calls of a foreground thread.  The asserts at the head of the calls *)
(* (manager registered, processor not closed) are guards: the callers keep *)
(* them.  A job that is not in the job holder any more returns at once.    *)

Idle(f, m) == Owner[m] = f /\ fpc[f] = "idle" /\ Unlocked

Goto(f, state) == fpc' = [fpc EXCEPT ![f] = state]

AddManager(f, m) ==
    /\ Idle(f, m) /\ m \notin managers /\ ~isClosed
    /\ managers' = managers \cup {m}
    /\ IndicateNewJob
    /\ UNCHANGED <<lockHolder, jobs, isClosed, numJobs, wakeAllBackgroundThreads,
                   currentJob, managerVars, jobState, wjob, foregroundVars>>

\* The part of AddJob that every caller shares; the queue is the caller's.
CountNewJob(j) ==
    /\ numJobs < MaxNumJobs
    /\ IncrementAdded(j)
    /\ jobState' = [jobState EXCEPT ![j] = "added"]
    /\ IndicateNewJob

Link(j, prioritize) ==
    jobs' = IF prioritize THEN LinkToBeginning(jobs, j) ELSE LinkToEnd(jobs, j)

Enqueue(j, prioritize) == Link(j, prioritize) /\ numJobs' = numJobs + 1

AddJob(f, j, prioritize) ==
    /\ Idle(f, ManagerOf[j]) /\ ManagerOf[j] \in managers /\ ~isClosed
    /\ jobState[j] = "new"
    /\ CountNewJob(j)
    /\ Enqueue(j, prioritize)
    /\ UNCHANGED <<lockHolder, managers, isClosed, wakeAllBackgroundThreads,
                   currentJob, waitVars, wjob, foregroundVars>>

\* Gives a queued job back to its manager; a job that is being processed stays.
RemoveJob(f, j) ==
    /\ Idle(f, ManagerOf[j]) /\ ManagerOf[j] \in managers /\ ~isClosed
    /\ jobState[j] = "added" /\ ~IsBeingProcessed(j)
    /\ jobs' = Unlink(jobs, {j})
    /\ DecrementAdded(j)
    /\ jobState' = [jobState EXCEPT ![j] = "new"]
    /\ UNCHANGED <<lockHolder, managers, isClosed, numJobs, eventVars, dataVars,
                   waitVars, workerVars, foregroundVars>>

\* The thread has unlinked job j and processes it itself.
ProcessInForeground(f, j) ==
    /\ Goto(f, "process")
    /\ fjob' = [fjob EXCEPT ![f] = j]
    /\ UNCHANGED <<fmgr, fwait>>

\* An added job that no worker has is moved to the front, or is processed here.
PrioritizeJob(f, j) ==
    LET m == ManagerOf[j]
        inForeground == ForcedInThread \/ ShouldProcessInForeground(m, FALSE, numJobs)
    IN  /\ Idle(f, m) /\ m \in managers /\ ~isClosed
        /\ jobState[j] = "added" /\ ~IsBeingProcessed(j)
        /\ \/ /\ ~inForeground
              /\ jobs' = MoveToBeginning(jobs, j)
              /\ UNCHANGED <<numJobs, foregroundVars>>
           \/ /\ inForeground
              /\ TakeFromQueue(j)
              /\ ProcessInForeground(f, j)
        /\ UNCHANGED <<lockHolder, managers, isClosed, eventVars, dataVars,
                       managerVars, jobState, workerVars>>

\* The job was never added: the manager adds it to the queue and, being asked
\* with willWaitForJob, has it unlinked again for the foreground.
PrioritizeNewJobAndWait(f, j) ==
    /\ Idle(f, ManagerOf[j]) /\ ManagerOf[j] \in managers \cap Speculative /\ ~isClosed
    /\ jobState[j] = "new"
    /\ CountNewJob(j)
    /\ ProcessInForeground(f, j)
    /\ UNCHANGED <<lockHolder, processorVars, wakeAllBackgroundThreads,
                   currentJob, waitVars, wjob>>

\* The job was added: process it here, or put it in front and wait for it.
PrioritizeJobAndWait(f, j) ==
    LET m == ManagerOf[j]
        inForeground == /\ ~IsBeingProcessed(j)
                        /\ ForcedInThread \/ ShouldProcessInForeground(m, TRUE, numJobs)
    IN  /\ Idle(f, m) /\ m \in managers /\ ~isClosed
        /\ jobState[j] = "added"
        /\ \/ /\ inForeground
              /\ TakeFromQueue(j)
              /\ ProcessInForeground(f, j)
              /\ UNCHANGED waitVars
           \/ /\ ~inForeground
              /\ jobs' = IF IsBeingProcessed(j) THEN jobs ELSE MoveToBeginning(jobs, j)
              /\ jobBeingWaitedUpon' = [jobBeingWaitedUpon EXCEPT ![m] = j]
              /\ jobBeingWaitedUponProcessed' =
                    [jobBeingWaitedUponProcessed EXCEPT ![m] = FALSE]
              /\ Goto(f, "waitJob")
              /\ fjob' = [fjob EXCEPT ![f] = j]
              /\ UNCHANGED <<numJobs, isWaitingForQueuedJobs, queuedJobsProcessed,
                             fmgr, fwait>>
        /\ UNCHANGED <<lockHolder, managers, isClosed, eventVars, dataVars,
                       numJobsAddedToProcessor, jobState, workerVars>>

\* The end of a job that the foreground processed.
ForegroundProcessed(f) ==
    LET j == fjob[f] IN
    /\ fpc[f] = "process" /\ Unlocked
    /\ jobState' = [jobState EXCEPT ![j] = "processed"]
    /\ DecrementAdded(j)
    /\ Goto(f, "idle")
    /\ fjob' = [fjob EXCEPT ![f] = None]
    /\ UNCHANGED <<lockHolder, processorVars, eventVars, dataVars, waitVars,
                   workerVars, fmgr, fwait>>

\* The wait of PrioritizeJobAndWait ends; jobBeingWaitedUpon is reset without the lock.
WaitJobReturns(f) ==
    LET m == ManagerOf[fjob[f]] IN
    /\ fpc[f] = "waitJob"
    /\ jobBeingWaitedUponProcessed[m]
    /\ jobBeingWaitedUpon' = [jobBeingWaitedUpon EXCEPT ![m] = None]
    /\ Goto(f, "idle")
    /\ fjob' = [fjob EXCEPT ![f] = None]
    /\ UNCHANGED <<lockHolder, processorVars, eventVars, dataVars,
                   numJobsAddedToProcessor, jobBeingWaitedUponProcessed,
                   isWaitingForQueuedJobs, queuedJobsProcessed, jobState,
                   workerVars, fmgr, fwait>>

-----------------------------------------------------------------------------
(* PrioritizeManagerAndWait                                                *)

\* The manager's jobs go to the front of the queue.  The thread waits for them
\* unless a thread service request was denied; both ways it marks the manager.
PrioritizeManagerAndWait(f, m) ==
    LET queued == numJobsAddedToProcessor[m] # 0
        wait == queued /\ ~(HasCallback /\ AreAllThreadsWaitingForJobs)
    IN  /\ Idle(f, m) /\ m \in managers \cap Speculative /\ ~isClosed
        /\ jobs' = IF queued THEN MoveSetToBeginning(jobs, JobsOf(m)) ELSE jobs
        /\ isWaitingForQueuedJobs' = [isWaitingForQueuedJobs EXCEPT ![m] = @ \/ queued]
        /\ queuedJobsProcessed' = [queuedJobsProcessed EXCEPT ![m] = @ /\ ~queued]
        /\ fwait' = [fwait EXCEPT ![f] = wait]
        /\ fmgr' = [fmgr EXCEPT ![f] = m]
        /\ Goto(f, IF wait THEN "waitQueued" ELSE "proactive")
        /\ UNCHANGED <<lockHolder, managers, isClosed, numJobs, eventVars, dataVars,
                       numJobsAddedToProcessor, jobBeingWaitedUpon,
                       jobBeingWaitedUponProcessed, jobState, workerVars, fjob>>

ClearQueuedWait(m) == isWaitingForQueuedJobs' = [isWaitingForQueuedJobs EXCEPT ![m] = FALSE]

\* The event is set, or the time is over; the mark is reset without the lock.
WaitQueuedReturns(f) ==
    /\ fpc[f] = "waitQueued"
    /\ \/ queuedJobsProcessed[fmgr[f]] /\ Goto(f, "proactive") /\ UNCHANGED fmgr
       \/ MayTimeOut /\ Goto(f, "idle") /\ fmgr' = [fmgr EXCEPT ![f] = None]
    /\ ClearQueuedWait(fmgr[f])
    /\ UNCHANGED <<lockHolder, processorVars, eventVars, dataVars,
                   numJobsAddedToProcessor, jobBeingWaitedUpon,
                   jobBeingWaitedUponProcessed, queuedJobsProcessed, jobState,
                   workerVars, fjob, fwait>>

\* The manager has added jobs, and the thread did not wait for them.
HasQueuedJobs(f) == ~fwait[f] /\ numJobsAddedToProcessor[fmgr[f]] # 0

\* The queued jobs of the manager, when the thread did not wait for them.
QueuedForProactive(f) == {j \in jobs.elems \cap JobsOf(fmgr[f]) : HasQueuedJobs(f)}

\* The first of them is taken, or else a job the manager held back.
ProactiveTake(f) ==
    /\ fpc[f] = "proactive" /\ Unlocked
    /\ \E j \in JobsOf(fmgr[f]) :
          /\ \/ /\ j \in QueuedForProactive(f)
                /\ \A x \in QueuedForProactive(f) : <<x, j>> \notin jobs.before
             \/ jobState[j] = "new" /\ QueuedForProactive(f) = {}
          /\ jobs' = Unlink(jobs, {j})
          /\ fjob' = [fjob EXCEPT ![f] = j]
    /\ Goto(f, "processProactive")
    /\ UNCHANGED <<lockHolder, managers, isClosed, numJobs, eventVars, dataVars,
                   managerVars, jobState, workerVars, fmgr, fwait>>

\* No job is left (GetJobToProcessProactively may always say so) or the time is over.
ProactiveEnds(f) ==
    /\ fpc[f] = "proactive"
    /\ MayTimeOut \/ QueuedForProactive(f) = {}
    /\ Goto(f, "idle")
    /\ fmgr' = [fmgr EXCEPT ![f] = None]
    /\ UNCHANGED <<lockHolder, processorVars, eventVars, dataVars, managerVars,
                   jobState, workerVars, fjob, fwait>>

ProactiveProcessed(f) ==
    LET j == fjob[f]
    IN  /\ fpc[f] = "processProactive" /\ Unlocked
        /\ jobState' = [jobState EXCEPT ![j] = "processed"]
        /\ IF HasQueuedJobs(f) THEN DecrementAdded(j) ELSE UNCHANGED numJobsAddedToProcessor
        /\ Goto(f, "proactive")
        /\ fjob' = [fjob EXCEPT ![f] = None]
        /\ UNCHANGED <<lockHolder, processorVars, eventVars, dataVars, waitVars,
                       workerVars, fmgr, fwait>>

-----------------------------------------------------------------------------
(* RemoveManager and Close                                                 *)
\* Unlink the manager and abort its queued jobs (none is critical); jobs that
\* workers have are waited for.  Close does not remove managers, so this is
\* also called afterwards.
RemoveManager(f, m) ==
    LET queued == jobs.elems \cap JobsOf(m) IN
    /\ Idle(f, m) /\ m \in managers /\ queued \cap Critical = {}
    /\ managers' = managers \ {m}
    /\ Abort(queued)
    /\ IF numJobsAddedToProcessor'[m] = 0
       THEN UNCHANGED foregroundVars
       ELSE /\ Goto(f, "removing")
            /\ fmgr' = [fmgr EXCEPT ![f] = m]
            /\ UNCHANGED <<fjob, fwait>>
    /\ UNCHANGED <<lockHolder, isClosed, eventVars, dataVars, workerVars>>

\* One turn of the loop that waits for the jobs of the manager that workers have.
RemoveManagerWait(f) ==
    LET m == fmgr[f] IN
    /\ \/ fpc[f] = "removing"
       \/ fpc[f] = "removeWait" /\ jobBeingWaitedUponProcessed[m]
    /\ Unlocked
    /\ \/ \E j \in GetCurrentJobsOfManager(m) :
             /\ jobBeingWaitedUpon' = [jobBeingWaitedUpon EXCEPT ![m] = j]
             /\ jobBeingWaitedUponProcessed' =
                   [jobBeingWaitedUponProcessed EXCEPT ![m] = FALSE]
             /\ Goto(f, "removeWait")
             /\ UNCHANGED fmgr
       \/ /\ GetCurrentJobsOfManager(m) = {}
          /\ jobBeingWaitedUpon' = [jobBeingWaitedUpon EXCEPT ![m] = None]
          /\ UNCHANGED jobBeingWaitedUponProcessed
          /\ Goto(f, "idle")
          /\ fmgr' = [fmgr EXCEPT ![f] = None]
    /\ UNCHANGED <<lockHolder, processorVars, eventVars, dataVars,
                   numJobsAddedToProcessor, isWaitingForQueuedJobs,
                   queuedJobsProcessed, jobState, workerVars, fjob, fwait>>

\* Mutant: critical jobs are aborted too.
AbortedAll == jobs.elems
AbortedByClose == jobs.elems \ Critical

\* The last user of the processor closes it: queued jobs that are not critical
\* are aborted; with a thread service there may be no thread to wait for.
Close(f) ==
    /\ ~isClosed /\ Unlocked
    /\ \A g \in Foregrounds : fpc[g] = "idle"
    /\ Abort(AbortedByClose)
    /\ isClosed' = TRUE
    /\ Goto(f, IF HasCallback
               THEN (IF isWaitingForJobs[ServiceData] THEN "closed" ELSE "closeWait")
               ELSE (IF NumberOfThreadsWaitingForJobs > 0 THEN "closeWake" ELSE "closeWait"))
    /\ UNCHANGED <<lockHolder, managers, eventVars, dataVars, workerVars,
                   fjob, fmgr, fwait>>

\* Mutant: the auto-reset event wakes one thread.
WakeOne == jobReady' = TRUE /\ UNCHANGED wakeAllBackgroundThreads
WakeAll == wakeAllBackgroundThreads' = TRUE /\ UNCHANGED jobReady

\* wakeAllBackgroundThreads is set after the lock is released, and never reset.
CloseWakesAll(f) ==
    /\ fpc[f] = "closeWake"
    /\ WakeAll
    /\ Goto(f, "closeWait")
    /\ UNCHANGED <<lockHolder, processorVars, dataVars, managerVars, jobState,
                   workerVars, fjob, fmgr, fwait>>

\* Mutant: Close waits for one thread only.
AnyThreadClosing == \E d \in ThreadData : threadStartedOrClosing[d]
AllThreadsClosing == \A d \in ThreadData : threadStartedOrClosing[d]

WaitWithAllThreadsForThreadStartedOrClosingEvent(f) ==
    /\ fpc[f] = "closeWait"
    /\ AllThreadsClosing
    /\ Goto(f, "closed")
    /\ UNCHANGED <<lockHolder, processorVars, eventVars, dataVars, managerVars,
                   jobState, workerVars, fjob, fmgr, fwait>>

\* The thread that closed the processor goes on to remove its managers.
CloseReturns(f) ==
    /\ fpc[f] = "closed"
    /\ Goto(f, "idle")
    /\ UNCHANGED <<lockHolder, processorVars, eventVars, dataVars, managerVars,
                   jobState, workerVars, fjob, fmgr, fwait>>

-----------------------------------------------------------------------------

\* What a foreground thread does once it is inside a call; every such step is
\* taken eventually, because Process returns and the threads are scheduled.
Continue(f) ==
    \/ ForegroundProcessed(f) \/ WaitJobReturns(f) \/ WaitQueuedReturns(f)
    \/ ProactiveTake(f) \/ ProactiveEnds(f) \/ ProactiveProcessed(f)
    \/ RemoveManagerWait(f) \/ CloseWakesAll(f)
    \/ WaitWithAllThreadsForThreadStartedOrClosingEvent(f) \/ CloseReturns(f)

Call(f) ==
    \/ \E m \in Managers :
          AddManager(f, m) \/ RemoveManager(f, m) \/ PrioritizeManagerAndWait(f, m)
    \/ \E j \in Jobs :
          \/ \E prioritize \in BOOLEAN : AddJob(f, j, prioritize)
          \/ RemoveJob(f, j) \/ PrioritizeJob(f, j)
          \/ PrioritizeNewJobAndWait(f, j) \/ PrioritizeJobAndWait(f, j)
    \/ Close(f)

\* The processor is closed, its managers are gone and no thread is left.
Terminated ==
    /\ isClosed /\ managers = {}
    /\ \A f \in Foregrounds : fpc[f] = "idle"
    /\ \A w \in Workers : wpc[w] \in {"none", "exited"}
    /\ UNCHANGED vars

Next ==
    \/ \E w \in Workers : Worker(w)
    \/ \E f \in Foregrounds : Call(f) \/ Continue(f)
    \/ Terminated

Spec == Init /\ [][Next]_vars

\* Threads are scheduled and Process returns; a worker that keeps asking for
\* criticalSection gets it although others take it in between.
FairSpec ==
    /\ Spec
    /\ \A w \in Workers : WF_vars(Worker(w)) /\ SF_vars(LockedStep(w))
    /\ \A f \in Foregrounds : WF_vars(Continue(f))

-----------------------------------------------------------------------------
(* Properties                                                              *)

\* Who has a job: the queue, a worker, or a foreground thread.
HeldByWorker(j) == {w \in Workers : wjob[w] = j}

HeldByForeground(j) ==
    {f \in Foregrounds : fjob[f] = j /\ fpc[f] \in {"process", "processProactive"}}

\* A job that was added is in exactly one hand, and a finished job is in none:
\* Unlink inside the lock is what transfers a job, between the workers of Run
\* and the foreground paths of PrioritizeJob and PrioritizeManagerAndWait.
OneOwner ==
    \A j \in Jobs :
        LET hands == {<<"queue", q>> : q \in jobs.elems \cap {j}}
                       \cup ({"worker"} \X HeldByWorker(j))
                       \cup ({"foreground"} \X HeldByForeground(j))
        IN  /\ \A x, y \in hands : x = y
            /\ jobState[j] = "added" => hands # {}
            /\ jobState[j] \in {"processed", "aborted"} => hands = {}

\* numJobsAddedToProcessor counts the jobs of the manager that were added and
\* are not finished.  PrioritizeManagerAndWait, RemoveManager and Run decide by
\* it whether to wait, return or call LastJobProcessed.
AddedCountExact ==
    \A m \in Managers :
        numJobsAddedToProcessor[m] = Cardinality({j \in JobsOf(m) : jobState[j] = "added"})

\* numJobs never drops below the length of the queue, so that the decrements
\* after Assert(numJobs != 0) do not wrap around.
NumJobsCoversQueue == Cardinality(jobs.elems) <= numJobs

\* The thread service has denied the last request for a thread.
RequestDenied == HasCallback /\ isWaitingForJobs[ServiceData]

\* A queued job is never left with every worker asleep: a wakeup is pending, a
\* worker is up, or the thread service has denied a thread (IndicateNewJob).
NoLostWakeup ==
    jobs.elems # {} =>
        \/ RequestDenied
        \/ jobReady \/ wakeAllBackgroundThreads
        \/ \E f \in Foregrounds : fpc[f] = "closeWake"
        \/ \E w \in Workers : wpc[w] \in {"loop", "woken", "processing"}

\* A thread that waits (for one job, for the queued jobs of a manager, or in
\* RemoveManager) has its event set, or a job that will set it when it ends.
NotStranded(f) ==
    /\ fpc[f] = "waitJob" =>
          LET m == ManagerOf[fjob[f]] IN
          \/ jobBeingWaitedUponProcessed[m]
          \/ /\ jobBeingWaitedUpon[m] = fjob[f] /\ jobState[fjob[f]] = "added"
             /\ fjob[f] \in jobs.elems => ~RequestDenied
    /\ fpc[f] = "removeWait" =>
          \/ jobBeingWaitedUponProcessed[fmgr[f]]
          \/ jobBeingWaitedUpon[fmgr[f]] \in GetCurrentJobsOfManager(fmgr[f])
    /\ fpc[f] = "waitQueued" =>
          \/ queuedJobsProcessed[fmgr[f]]
          \/ /\ isWaitingForQueuedJobs[fmgr[f]]
             /\ numJobsAddedToProcessor[fmgr[f]] # 0
             /\ JobsOf(fmgr[f]) \cap jobs.elems # {} => ~RequestDenied

\* No thread waits in PrioritizeJobAndWait, PrioritizeManagerAndWait or
\* RemoveManager for an event that no worker is going to set.
WaiterNotStranded == \A f \in Foregrounds : NotStranded(f)

\* When RemoveManager has returned, no thread has or will get a job of the
\* manager: the caller is free to delete it.
RemovedManagerQuiet ==
    \A m \in Managers \ managers :
        \/ \E f \in Foregrounds : fmgr[f] = m /\ fpc[f] \in {"removing", "removeWait"}
        \/ \A j \in JobsOf(m) :
              j \notin jobs.elems /\ ~IsBeingProcessed(j) /\ HeldByWorker(j) = {}

\* When Close has returned, every worker has left Run and no critical job is
\* left unprocessed.
CloseReturned == isClosed /\ \A f \in Foregrounds : fpc[f] \notin {"closeWake", "closeWait"}

ClosedIsQuiet ==
    CloseReturned =>
        /\ jobs.elems = {}
        /\ \A w \in Workers : wpc[w] \in {"none", "exited"}

\* When Close has returned, no thread is inside Process: Close waits for
\* threadStartedOrClosing, which the last callback sets.
NoJobAfterClose == CloseReturned => \A w \in Workers : wpc[w] # "processing"

\* Every wait ends: for a job, for the queued jobs, in RemoveManager and in
\* Close; the events are set by workers that Process lets go on.
WaitsEnd ==
    \A f \in Foregrounds :
        fpc[f] \in {"waitJob", "waitQueued", "removeWait", "closeWait"} ~> fpc[f] = "idle"

\* A job that was added is processed, aborted or given back to its manager, if
\* the thread service provides threads or there are dedicated ones.
JobsLeave == \A j \in Jobs : jobState[j] = "added" ~> jobState[j] # "added"

-----------------------------------------------------------------------------
(* The inductive invariant behind AddedCountExact and RemovedManagerQuiet. *)

\* The queue is a list of added jobs.
QueueInv == IsList(jobs) /\ \A j \in jobs.elems : jobState[j] = "added"

\* A worker has a job exactly while it processes it, and has it alone.
WorkerInv ==
    \A w \in Workers :
        /\ wpc[w] = "processing" <=> wjob[w] # None
        /\ wjob[w] # None =>
              /\ jobState[wjob[w]] = "added" /\ wjob[w] \notin jobs.elems
              /\ \A v \in Workers : wjob[v] = wjob[w] => v = w

\* The job or manager a foreground thread is busy with is its own; a job that
\* it processes is in no other hand, and is counted if HasQueuedJobs says so.
ForegroundOK(f) ==
    /\ fpc[f] \in {"process", "processProactive", "waitJob"} =>
          fjob[f] # None /\ Owner[ManagerOf[fjob[f]]] = f
    /\ fpc[f] \in {"waitQueued", "proactive", "processProactive", "removing", "removeWait"} =>
          fmgr[f] # None /\ Owner[fmgr[f]] = f
    /\ fpc[f] \in {"process", "processProactive"} =>
          fjob[f] \notin jobs.elems /\ \A w \in Workers : wjob[w] # fjob[f]
    /\ fpc[f] = "process" => jobState[fjob[f]] = "added"
    /\ fpc[f] = "waitQueued" => fwait[f]
    /\ fpc[f] = "processProactive" =>
          /\ ManagerOf[fjob[f]] = fmgr[f]
          /\ jobState[fjob[f]] = IF HasQueuedJobs(f) THEN "added" ELSE "new"
    /\ fpc[f] \in {"proactive", "processProactive"} /\ HasQueuedJobs(f) => ForcedInThread

ForegroundInv == \A f \in Foregrounds : ForegroundOK(f)

\* With a thread service at most one callback is in the loop of Run, and none
\* while isWaitingForJobs is set.
ServiceInv ==
    HasCallback =>
        /\ \A w \in Workers : wpc[w] \in {"none", "loop", "processing", "leaving"}
        /\ \A w, v \in Workers :
              wpc[w] \in {"loop", "processing"} /\ wpc[v] \in {"loop", "processing"} => w = v
        /\ isWaitingForJobs[ServiceData] =>
              \A w \in Workers : wpc[w] \notin {"loop", "processing"}

\* An added job is in some hand.
AddedInv ==
    \A j \in Jobs : jobState[j] = "added" =>
        j \in jobs.elems \/ HeldByWorker(j) # {} \/ HeldByForeground(j) # {}

\* currentJob tells what the workers have.
CurrentInv ==
    \A d \in ThreadData, j \in Jobs :
        currentJob[d] = j <=> \E w \in Workers : DataOf(w) = d /\ wjob[w] = j

\* The jobs of a manager that is gone are not queued, and none is added unless
\* its owner is still inside RemoveManager.
RemovedInv ==
    \A m \in Managers \ managers :
        /\ JobsOf(m) \cap jobs.elems = {}
        /\ \/ \E f \in Foregrounds : fmgr[f] = m /\ fpc[f] \in {"removing", "removeWait"}
           \/ \A j \in JobsOf(m) : jobState[j] # "added"

\* All of it: what the lock protects, as every thread finds it.
IndInv ==
    /\ TypeOK /\ QueueInv /\ WorkerInv /\ ForegroundInv /\ ServiceInv /\ AddedInv
    /\ CurrentInv /\ RemovedInv /\ AddedCountExact /\ NumJobsCoversQueue

-----------------------------------------------------------------------------
(* Invariants on top of IndInv, for the wakeups, the waits and Close.      *)

\* After Close only critical jobs are queued, and the threads do nothing but
\* close the processor and remove managers.
ClosedInv ==
    isClosed =>
        /\ jobs.elems \subseteq Critical
        /\ \A f \in Foregrounds :
              fpc[f] \in {"idle", "closeWake", "closeWait", "closed", "removing", "removeWait"}

\* A dedicated thread tells the truth about waiting and leaving, and leaves
\* only a closed processor without jobs.
DedicatedInv ==
    ~HasCallback =>
        \A w \in Workers :
            /\ wpc[w] # "none"
            /\ isWaitingForJobs[w] <=> wpc[w] \in {"waiting", "woken"}
            /\ threadStartedOrClosing[w] => wpc[w] = "exited"
            /\ wpc[w] \in {"leaving", "exited"} => isClosed /\ jobs.elems = {}
            /\ CloseReturned => wpc[w] = "exited"

\* The thread service has a thread in the loop unless isWaitingForJobs is set,
\* or the processor is closed and there is nothing to do.
CallbackInv ==
    HasCallback /\ ~isWaitingForJobs[ServiceData] =>
        \/ \E w \in Workers : wpc[w] \in {"loop", "processing"}
        \/ isClosed /\ jobs.elems = {}

WakeInv == ClosedInv /\ DedicatedInv /\ CallbackInv /\ NoLostWakeup

\* The thread that has a manager's jobs to wait for keeps the manager, and
\* jobBeingWaitedUpon is set only while its owner waits for a single job.
WaitInv ==
    /\ \A f \in Foregrounds :
          fpc[f] \in {"waitQueued", "proactive", "processProactive"} => fmgr[f] \in managers
    /\ \A m \in Managers :
          jobBeingWaitedUpon[m] # None =>
              /\ ManagerOf[jobBeingWaitedUpon[m]] = m
              /\ \/ fpc[Owner[m]] = "waitJob" /\ ManagerOf[fjob[Owner[m]]] = m
                 \/ fpc[Owner[m]] = "removeWait" /\ fmgr[Owner[m]] = m

-----------------------------------------------------------------------------
(* The refinement mapping to JobService.                                   *)

statusBar ==
    [j \in Jobs |->
        IF jobState[j] \in {"processed", "aborted"} THEN jobState[j]
        ELSE IF j \in jobs.elems THEN "queued"
        ELSE IF jobState[j] = "added" \/ HeldByForeground(j) # {} THEN "running"
        ELSE "new"]

\* A manager stays until RemoveManager has seen the last of its jobs.
managerBar ==
    [m \in Managers |->
        IF m \in managers THEN "in"
        ELSE IF \E f \in Foregrounds :
                   fmgr[f] = m /\ fpc[f] \in {"removing", "removeWait"}
        THEN "leaving" ELSE "out"]

phaseBar ==
    IF ~isClosed THEN "open"
    ELSE IF \E f \in Foregrounds : fpc[f] \in {"closeWake", "closeWait"}
    THEN "closing" ELSE "closed"

Service == INSTANCE JobService
             WITH status <- statusBar, manager <- managerBar, phase <- phaseBar

\* BackgroundJobProcessor keeps the promises of JobService: no job is run
\* twice, lost, or run for a manager that is gone or after Close has returned.
KeepsPromises == Service!Spec

\* Also with a thread service, every step until Close is called keeps them;
\* what Close does with late callbacks is the only exception.
OpenKeepsPromises == [][~isClosed' => [Service!Next]_(Service!svars)]_vars
=============================================================================
