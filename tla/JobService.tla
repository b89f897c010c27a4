---------------------------- MODULE JobService ----------------------------
(***************************************************************************)
(* What a job processor promises its managers (the comments of Jobs.h on   *)
(* Job, JobManager and JobProcessor), without queue, lock, events or       *)
(* threads.  A job is added while its manager is registered, is processed  *)
(* by at most one thread, or is aborted, and never comes back.  A manager  *)
(* is gone only when none of its jobs is queued or running; after Close    *)
(* has returned no job is queued or running at all, and the critical ones  *)
(* that were queued have been processed.                                   *)
(***************************************************************************)
CONSTANTS Jobs, Managers, ManagerOf, Critical

VARIABLES
    status,     \* of a job: "new", "queued", "running", "processed", "aborted"
    manager,    \* of a manager: "out", "in", "leaving" (inside RemoveManager)
    phase       \* "open", "closing" (inside Close), "closed"

svars == <<status, manager, phase>>

Own(m) == {j \in Jobs : ManagerOf[j] = m}
InState(S, st) == {j \in S : status[j] = st}

Init ==
    /\ status = [j \in Jobs |-> "new"]
    /\ manager = [m \in Managers |-> "out"]
    /\ phase = "open"

Register(m) ==
    /\ phase = "open" /\ manager[m] = "out"
    /\ manager' = [manager EXCEPT ![m] = "in"]
    /\ UNCHANGED <<status, phase>>

Add(j) ==
    /\ phase = "open" /\ manager[ManagerOf[j]] = "in" /\ status[j] = "new"
    /\ status' = [status EXCEPT ![j] = "queued"]
    /\ UNCHANGED <<manager, phase>>

\* The manager takes a queued job back.
Withdraw(j) ==
    /\ phase = "open" /\ manager[ManagerOf[j]] = "in" /\ status[j] = "queued"
    /\ status' = [status EXCEPT ![j] = "new"]
    /\ UNCHANGED <<manager, phase>>

\* A worker or the manager's own thread takes the job; a job may be run that
\* was never queued, and only critical jobs are started after Close was called.
Start(j) ==
    /\ manager[ManagerOf[j]] = "in"
    /\ \/ phase = "open" /\ status[j] \in {"new", "queued"}
       \/ phase = "closing" /\ status[j] = "queued" /\ j \in Critical
    /\ status' = [status EXCEPT ![j] = "running"]
    /\ UNCHANGED <<manager, phase>>

Finish(j) ==
    /\ status[j] = "running"
    /\ status' = [status EXCEPT ![j] = "processed"]
    /\ UNCHANGED <<manager, phase>>

Aborted(S) == status' = [j \in Jobs |-> IF j \in S THEN "aborted" ELSE status[j]]

\* The queued jobs of the manager are aborted; with no running job the
\* manager is gone at once.
Remove(m) ==
    /\ manager[m] = "in"
    /\ Aborted(InState(Own(m), "queued"))
    /\ \/ manager' = [manager EXCEPT ![m] = "leaving"]
       \/ /\ InState(Own(m), "running") = {}
          /\ manager' = [manager EXCEPT ![m] = "out"]
    /\ UNCHANGED phase

Leave(m) ==
    /\ manager[m] = "leaving" /\ InState(Own(m), "running") = {}
    /\ manager' = [manager EXCEPT ![m] = "out"]
    /\ UNCHANGED <<status, phase>>

Close ==
    /\ phase = "open"
    /\ Aborted(InState(Jobs \ Critical, "queued"))
    /\ phase' = "closing"
    /\ UNCHANGED manager

CloseReturn ==
    /\ phase = "closing"
    /\ InState(Jobs, "queued") = {} /\ InState(Jobs, "running") = {}
    /\ phase' = "closed"
    /\ UNCHANGED <<status, manager>>

Next ==
    \/ \E j \in Jobs : Add(j) \/ Withdraw(j) \/ Start(j) \/ Finish(j)
    \/ \E m \in Managers : Register(m) \/ Remove(m) \/ Leave(m)
    \/ Close \/ CloseReturn

Spec == Init /\ [][Next]_svars
=============================================================================
