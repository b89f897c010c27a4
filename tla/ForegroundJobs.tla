--------------------------- MODULE ForegroundJobs ---------------------------
(***************************************************************************)
(* ForegroundJobProcessor (lib/Common/Common/Jobs.{h,inl,cpp}): the job    *)
(* processor of a runtime that has no background thread.  Jobs are queued  *)
(* as in BackgroundJobs, and processed by the calling thread when they are *)
(* prioritized.  There is one thread and no lock; Process, which compiles  *)
(* and does not call back into the processor, is a step of its own so that *)
(* the queue and the counts can be looked at while a job is processed.     *)
(***************************************************************************)
EXTENDS Naturals, FiniteSets, LinkedList

CONSTANTS
    Managers,       \* job managers
    Jobs,           \* jobs the managers can create
    ManagerOf,      \* Job::Manager
    Critical,       \* jobs created with isCritical
    Speculative,    \* managers that provide jobs proactively
    None

ASSUME ForegroundAssumption ==
    /\ ManagerOf \in [Jobs -> Managers]
    /\ Critical \subseteq Jobs /\ Speculative \subseteq Managers
    /\ IsFiniteSet(Jobs) /\ None \notin Jobs \cup Managers

VARIABLES
    managers, jobs, isClosed,   \* of JobProcessor
    numJobsAddedToProcessor,    \* per manager
    jobState,                   \* where the manager has the job: new, added,
                                \* processed or aborted
    pc,                         \* idle, or the call that the thread is in
    job,                        \* the job in Process
    manager,                    \* the manager of PrioritizeManagerAndWait
    rest                        \* the jobs that the loop of Close has not reached

vars == <<managers, jobs, isClosed, numJobsAddedToProcessor, jobState, pc, job,
          manager, rest>>

processorVars == <<managers, jobs, isClosed>>
callVars == <<pc, job, manager, rest>>

JobsOf(m) == {j \in Jobs : ManagerOf[j] = m}

\* A call of the processor begins: the thread is in none, and Close has not
\* been called (the Asserts of every call).
MayCall(m) == pc = "idle" /\ ~isClosed /\ m \in managers

-----------------------------------------------------------------------------
AddManager(m) ==
    /\ pc = "idle" /\ ~isClosed /\ m \notin managers
    /\ managers' = managers \cup {m}
    /\ UNCHANGED <<jobs, isClosed, numJobsAddedToProcessor, jobState, callVars>>

\* Mutant: the count is not incremented.
NotCounted(m) == UNCHANGED numJobsAddedToProcessor

Counted(m) ==
    numJobsAddedToProcessor' = [numJobsAddedToProcessor EXCEPT ![m] = @ + 1]

\* JobProcessor::AddJob, called by the manager.
AddJob(j, prioritize) ==
    /\ MayCall(ManagerOf[j]) /\ jobState[j] = "new"
    /\ jobs' = IF prioritize THEN LinkToBeginning(jobs, j) ELSE LinkToEnd(jobs, j)
    /\ Counted(ManagerOf[j])
    /\ jobState' = [jobState EXCEPT ![j] = "added"]
    /\ UNCHANGED <<managers, isClosed, callVars>>

\* JobProcessor::RemoveJob: the manager has the job back.
RemoveJob(j) ==
    /\ MayCall(ManagerOf[j]) /\ jobState[j] = "added"
    /\ jobs' = Unlink(jobs, {j})
    /\ numJobsAddedToProcessor' =
          [numJobsAddedToProcessor EXCEPT ![ManagerOf[j]] = @ - 1]
    /\ jobState' = [jobState EXCEPT ![j] = "new"]
    /\ UNCHANGED <<managers, isClosed, callVars>>

\* PrioritizeJob and PrioritizeJobAndWait of a job in the queue: it is
\* unlinked and processed at once.
PrioritizeJob(j) ==
    /\ MayCall(ManagerOf[j]) /\ jobState[j] = "added"
    /\ jobs' = Unlink(jobs, {j})
    /\ pc' = "process" /\ job' = j
    /\ UNCHANGED <<managers, isClosed, numJobsAddedToProcessor, jobState, manager, rest>>

\* PrioritizeJobAndWait of a job that was not added: Prioritize is told to add
\* it, and it is unlinked again.  (PrioritizeJob leaves it to the manager
\* whether to add such a job, which is AddJob.)
PrioritizeNewJobAndWait(j) ==
    /\ MayCall(ManagerOf[j]) /\ jobState[j] = "new"
    /\ Counted(ManagerOf[j])
    /\ jobState' = [jobState EXCEPT ![j] = "added"]
    /\ pc' = "process" /\ job' = j
    /\ UNCHANGED <<processorVars, manager, rest>>

\* AddJobAndProcessProactively: the job is processed without being queued or
\* counted.
AddJobAndProcessProactively(j) ==
    /\ MayCall(ManagerOf[j]) /\ jobState[j] = "new"
    /\ pc' = "process" /\ job' = j
    /\ UNCHANGED <<processorVars, numJobsAddedToProcessor, jobState, manager, rest>>

\* The callers of JobProcessed decrement the count for a job of the queue, and
\* not for a job that was never added.
WasAdded == jobState[job] = "added"

JobProcessed(j) ==
    /\ numJobsAddedToProcessor' =
          IF WasAdded THEN [numJobsAddedToProcessor EXCEPT ![ManagerOf[j]] = @ - 1]
          ELSE numJobsAddedToProcessor
    /\ jobState' = [jobState EXCEPT ![j] = "processed"]

Processed ==
    /\ pc = "process"
    /\ JobProcessed(job)
    /\ pc' = "idle" /\ job' = None
    /\ UNCHANGED <<processorVars, manager, rest>>

-----------------------------------------------------------------------------
(* PrioritizeManagerAndWait.                                               *)

\* PrioritizeManager; without time to process jobs that is all.
PrioritizeManager(m) ==
    /\ MayCall(m)
    /\ jobs' = MoveSetToBeginning(jobs, JobsOf(m))
    /\ \/ UNCHANGED <<pc, manager>>
       \/ pc' = "proactive" /\ manager' = m
    /\ UNCHANGED <<managers, isClosed, numJobsAddedToProcessor, jobState, job, rest>>

\* One turn of the loop: the manager's first job in the queue, ...
FirstOfManager(j) == IsHead(Unlink(jobs, Jobs \ JobsOf(manager)), j)

ProcessQueued(j) ==
    /\ pc = "proactive" /\ FirstOfManager(j)
    /\ jobs' = Unlink(jobs, {j})
    /\ pc' = "processProactive" /\ job' = j
    /\ UNCHANGED <<managers, isClosed, numJobsAddedToProcessor, jobState, manager, rest>>

\* ... or a job that the manager provides when none of its jobs is queued.
ProcessProvided(j) ==
    /\ pc = "proactive" /\ JobsOf(manager) \cap jobs.elems = {}
    /\ manager \in Speculative /\ ManagerOf[j] = manager /\ jobState[j] = "new"
    /\ pc' = "processProactive" /\ job' = j
    /\ UNCHANGED <<processorVars, numJobsAddedToProcessor, jobState, manager, rest>>

\* Processed; then there is time for another turn or there is not.
ProactiveProcessed ==
    /\ pc = "processProactive"
    /\ JobProcessed(job)
    /\ job' = None
    /\ \/ pc' = "proactive" /\ UNCHANGED manager
       \/ pc' = "idle" /\ manager' = None
    /\ UNCHANGED <<processorVars, rest>>

\* Mutant: a manager that may provide jobs is asked again for ever.
ProactiveEndsUnlessSpeculative ==
    /\ pc = "proactive" /\ JobsOf(manager) \cap jobs.elems = {} /\ manager \notin Speculative
    /\ pc' = "idle" /\ manager' = None
    /\ UNCHANGED <<processorVars, numJobsAddedToProcessor, jobState, job, rest>>

\* No job is queued, and the manager provides none.
ProactiveEnds ==
    /\ pc = "proactive" /\ JobsOf(manager) \cap jobs.elems = {}
    /\ pc' = "idle" /\ manager' = None
    /\ UNCHANGED <<processorVars, numJobsAddedToProcessor, jobState, job, rest>>

-----------------------------------------------------------------------------
(* RemoveManager and Close.                                                *)

\* The manager's queued jobs are told that they were not processed.  Critical
\* jobs must have been processed before (the Assert).
RemoveManager(m) ==
    LET own == JobsOf(m) \cap jobs.elems IN
    /\ pc = "idle" /\ m \in managers /\ own \cap Critical = {}
    /\ managers' = managers \ {m}
    /\ jobs' = Unlink(jobs, own)
    /\ jobState' = [j \in Jobs |-> IF j \in own THEN "aborted" ELSE jobState[j]]
    /\ numJobsAddedToProcessor' =
          [numJobsAddedToProcessor EXCEPT ![m] = @ - Cardinality(own)]
    /\ UNCHANGED <<isClosed, callVars>>

Close ==
    /\ pc = "idle" /\ ~isClosed
    /\ pc' = "closing" /\ rest' = jobs
    /\ UNCHANGED <<processorVars, numJobsAddedToProcessor, jobState, job, manager>>

\* Mutant: Close aborts all jobs.
IgnoresCritical(j) == FALSE

\* The loop of Close, in the order of the queue: critical jobs are processed
\* and the others are not; all stay linked until the end.
MustProcess(j) == j \in Critical

CloseProcesses(j) ==
    /\ pc = "closing" /\ IsHead(rest, j) /\ MustProcess(j)
    /\ rest' = Unlink(rest, {j})
    /\ pc' = "processClosing" /\ job' = j
    /\ UNCHANGED <<processorVars, numJobsAddedToProcessor, jobState, manager>>

CloseProcessed ==
    /\ pc = "processClosing"
    /\ JobProcessed(job)
    /\ pc' = "closing" /\ job' = None
    /\ UNCHANGED <<processorVars, manager, rest>>

CloseAborts(j) ==
    /\ pc = "closing" /\ IsHead(rest, j) /\ ~MustProcess(j)
    /\ rest' = Unlink(rest, {j})
    /\ jobState' = [jobState EXCEPT ![j] = "aborted"]
    /\ numJobsAddedToProcessor' =
          [numJobsAddedToProcessor EXCEPT ![ManagerOf[j]] = @ - 1]
    /\ UNCHANGED <<processorVars, pc, job, manager>>

CloseReturns ==
    /\ pc = "closing" /\ rest.elems = {}
    /\ jobs' = EmptyList /\ isClosed' = TRUE
    /\ pc' = "idle"
    /\ UNCHANGED <<managers, numJobsAddedToProcessor, jobState, job, manager, rest>>

-----------------------------------------------------------------------------
Init ==
    /\ managers = {} /\ jobs = EmptyList /\ isClosed = FALSE
    /\ numJobsAddedToProcessor = [m \in Managers |-> 0]
    /\ jobState = [j \in Jobs |-> "new"]
    /\ pc = "idle" /\ job = None /\ manager = None /\ rest = EmptyList

\* The steps of a call that has begun.
Continue ==
    \/ Processed
    \/ \E j \in Jobs : ProcessQueued(j) \/ ProcessProvided(j)
    \/ ProactiveProcessed \/ ProactiveEnds
    \/ \E j \in Jobs : CloseProcesses(j) \/ CloseAborts(j)
    \/ CloseProcessed \/ CloseReturns

Next ==
    \/ \E m \in Managers : AddManager(m) \/ PrioritizeManager(m) \/ RemoveManager(m)
    \/ \E j \in Jobs :
          \/ \E prioritize \in BOOLEAN : AddJob(j, prioritize)
          \/ RemoveJob(j)
          \/ PrioritizeJob(j)
          \/ PrioritizeNewJobAndWait(j)
          \/ AddJobAndProcessProactively(j)
    \/ Close
    \/ Continue

Spec == Init /\ [][Next]_vars

\* The thread goes on with a call that it has begun.
FairSpec == Spec /\ WF_vars(Continue)

-----------------------------------------------------------------------------
(* Properties.                                                             *)

\* numJobsAddedToProcessor of a manager is the number of its jobs that were
\* added and not yet processed, aborted or taken back, in the middle of a call
\* too: the count decides when LastJobProcessed may delete the manager.
AddedCountExact ==
    \A m \in Managers :
        numJobsAddedToProcessor[m] = Cardinality({j \in JobsOf(m) : jobState[j] = "added"})

\* Every call comes to its end, although the manager goes on providing jobs to
\* PrioritizeManagerAndWait.
CallsEnd == pc # "idle" ~> pc = "idle"

-----------------------------------------------------------------------------
(* The inductive invariant from which ForegroundJobsProofs proves the      *)
(* count and the refinement.                                               *)

Added == {j \in Jobs : jobState[j] = "added"}

TypeOK ==
    /\ managers \in SUBSET Managers /\ isClosed \in BOOLEAN
    /\ jobs \in ListsOf(Jobs) /\ rest \in ListsOf(Jobs)
    /\ numJobsAddedToProcessor \in [Managers -> Nat]
    /\ jobState \in [Jobs -> {"new", "added", "processed", "aborted"}]
    /\ pc \in {"idle", "process", "proactive", "processProactive", "closing",
               "processClosing"}
    /\ job \in Jobs \cup {None} /\ manager \in Managers \cup {None}

\* The job and the manager that the thread works for belong to its call.
CallInv ==
    /\ pc # "idle" => ~isClosed
    /\ job \in Jobs <=> pc \in {"process", "processProactive", "processClosing"}
    /\ pc \in {"process", "processProactive"} =>
          ManagerOf[job] \in managers /\ jobState[job] \in {"new", "added"}
    /\ pc = "processClosing" => job \in Critical /\ jobState[job] = "added"
    /\ pc \in {"proactive", "processProactive"} => manager \in managers

\* The added jobs are linked, except the one in Process; Close goes through
\* them, and its loop leaves linked the ones that it has done with.
QueueInv ==
    /\ IsList(jobs) /\ IsList(rest)
    /\ \A j \in Added : ManagerOf[j] \in managers
    /\ isClosed => Added = {}
    /\ IF pc \in {"closing", "processClosing"}
       THEN rest.elems = Added \ {job}
       ELSE jobs.elems = Added \ {job}

IndInv == TypeOK /\ CallInv /\ QueueInv /\ AddedCountExact

-----------------------------------------------------------------------------
(* The refinement mapping to JobService: Close aborts the jobs that are not *)
(* critical in one step there.                                             *)

closing == pc \in {"closing", "processClosing"}

statusBar ==
    [j \in Jobs |->
        IF j = job THEN "running"
        ELSE IF jobState[j] # "added" THEN jobState[j]
        ELSE IF closing /\ j \notin Critical THEN "aborted"
        ELSE "queued"]

managerBar == [m \in Managers |-> IF m \in managers THEN "in" ELSE "out"]

phaseBar == IF closing THEN "closing" ELSE IF isClosed THEN "closed" ELSE "open"

Service == INSTANCE JobService
             WITH status <- statusBar, manager <- managerBar, phase <- phaseBar

\* ForegroundJobProcessor keeps the promises of JobService, as
\* BackgroundJobProcessor does.
KeepsPromises == Service!Spec
=============================================================================
