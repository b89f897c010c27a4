----------------------- MODULE ForegroundJobsProofs -----------------------
(***************************************************************************)
(* IndInv is an invariant of ForegroundJobs, and ForegroundJobs implements *)
(* JobService, for any managers and jobs.                                  *)
(***************************************************************************)
EXTENDS ForegroundJobs, FiniteSetTheorems, TLAPS

USE DEF JobsOf, MayCall, processorVars, callVars

-----------------------------------------------------------------------------
(* Lists of jobs.                                                          *)

\* The constructor of DoublyLinkedList makes a list.
LEMMA EmptyListIsList == IsList(EmptyList)
  BY DEF IsList, EmptyList

\* AddJob links a job that is not linked, at either end.
LEMMA LinkToEndFacts ==
  ASSUME NEW E, NEW q \in ListsOf(E), IsList(q), NEW e \in E, e \notin q.elems
  PROVE  LET r == LinkToEnd(q, e)
         IN  r \in ListsOf(E) /\ IsList(r) /\ r.elems = q.elems \cup {e}
<1> DEFINE r == LinkToEnd(q, e)
<1>1. /\ r.elems = q.elems \cup {e} /\ r.before = q.before \cup (q.elems \X {e})
      /\ r \in ListsOf(E)
  BY DEF LinkToEnd, ListsOf
<1>2. \A a, b : <<a, b>> \in r.before <=> <<a, b>> \in q.before \/ (a \in q.elems /\ b = e)
  BY <1>1
<1>3. \A a, b : <<a, b>> \in q.before => a \in q.elems /\ b \in q.elems
  BY DEF IsList
<1>4. r.before \subseteq r.elems \X r.elems
  BY <1>1 DEF IsList
<1> HIDE DEF r
<1>5. IsList(r)
  BY <1>1, <1>2, <1>3, <1>4 DEF IsList
<1> QED
  BY <1>1, <1>5 DEF r

LEMMA LinkToBeginningFacts ==
  ASSUME NEW E, NEW q \in ListsOf(E), IsList(q), NEW e \in E, e \notin q.elems
  PROVE  LET r == LinkToBeginning(q, e)
         IN  r \in ListsOf(E) /\ IsList(r) /\ r.elems = q.elems \cup {e}
<1> DEFINE r == LinkToBeginning(q, e)
<1>1. /\ r.elems = q.elems \cup {e} /\ r.before = q.before \cup ({e} \X q.elems)
      /\ r \in ListsOf(E)
  BY DEF LinkToBeginning, ListsOf
<1>2. \A a, b : <<a, b>> \in r.before <=> <<a, b>> \in q.before \/ (a = e /\ b \in q.elems)
  BY <1>1
<1>3. \A a, b : <<a, b>> \in q.before => a \in q.elems /\ b \in q.elems
  BY DEF IsList
<1>4. r.before \subseteq r.elems \X r.elems
  BY <1>1 DEF IsList
<1> HIDE DEF r
<1>5. IsList(r)
  BY <1>1, <1>2, <1>3, <1>4 DEF IsList
<1> QED
  BY <1>1, <1>5 DEF r

\* Unlinking jobs leaves the order of the others alone.
LEMMA UnlinkFacts ==
  ASSUME NEW E, NEW q \in ListsOf(E), IsList(q), NEW S
  PROVE  LET r == Unlink(q, S)
         IN  r \in ListsOf(E) /\ IsList(r) /\ r.elems = q.elems \ S
<1> DEFINE r == Unlink(q, S)
<1>1. /\ r.elems = q.elems \ S /\ r.before = {p \in q.before : p[1] \notin S /\ p[2] \notin S}
      /\ r \in ListsOf(E)
  BY DEF Unlink, ListsOf
<1>2. \A a, b : <<a, b>> \in r.before <=> <<a, b>> \in q.before /\ a \notin S /\ b \notin S
  BY <1>1
<1>3. r.before \subseteq r.elems \X r.elems
  BY <1>1 DEF IsList
<1> HIDE DEF r
<1>4. IsList(r)
  BY <1>1, <1>2, <1>3 DEF IsList
<1> QED
  BY <1>1, <1>4 DEF r

\* PrioritizeManager moves the jobs of one manager in front of the others.
LEMMA MoveSetToBeginningFacts ==
  ASSUME NEW E, NEW q \in ListsOf(E), IsList(q), NEW S
  PROVE  LET r == MoveSetToBeginning(q, S)
         IN  r \in ListsOf(E) /\ IsList(r) /\ r.elems = q.elems
<1> DEFINE r == MoveSetToBeginning(q, S)
<1>1. r.elems = q.elems /\ r.before \subseteq r.elems \X r.elems /\ r \in ListsOf(E)
  BY DEF MoveSetToBeginning, ListsOf
<1>2. \A a, b \in q.elems :
         <<a, b>> \in r.before <=> \/ a \in S /\ b \notin S
                                   \/ <<a, b>> \in q.before /\ (a \in S <=> b \in S)
  BY DEF MoveSetToBeginning
<1> HIDE DEF r
<1>3. IsList(r)
  BY <1>1, <1>2 DEF IsList
<1> QED
  BY <1>1, <1>3 DEF r

-----------------------------------------------------------------------------
(* Counting.                                                               *)

\* Sets of jobs are finite.
LEMMA FiniteJobs == \A S \in SUBSET Jobs : IsFiniteSet(S) /\ Cardinality(S) \in Nat
  BY ForegroundAssumption, FS_Subset, FS_CardinalityType DEF ForegroundAssumption

\* The constants, as the steps use them.
LEMMA Constants ==
  /\ ManagerOf \in [Jobs -> Managers]
  /\ \A j \in Jobs : ManagerOf[j] \in Managers
  /\ None \notin Jobs /\ None \notin Managers
  BY ForegroundAssumption DEF ForegroundAssumption

\* A job that becomes an added one is counted.
LEMMA CountAdds ==
  ASSUME TypeOK, AddedCountExact, NEW j \in Jobs, jobState[j] # "added",
         jobState' = [jobState EXCEPT ![j] = "added"], Counted(ManagerOf[j])
  PROVE  AddedCountExact' /\ numJobsAddedToProcessor' \in [Managers -> Nat]
<1> DEFINE Old(m) == {i \in JobsOf(m) : jobState[i] = "added"}
           New(m) == {i \in JobsOf(m) : jobState'[i] = "added"}
<1>1. \A m \in Managers : New(m) = IF m = ManagerOf[j] THEN Old(m) \cup {j} ELSE Old(m)
  BY DEF TypeOK
<1>2. \A m \in Managers :
         Cardinality(New(m)) = IF m = ManagerOf[j] THEN Cardinality(Old(m)) + 1
                                                   ELSE Cardinality(Old(m))
  <2> TAKE m \in Managers
  <2>1. Old(m) \in SUBSET Jobs /\ j \notin Old(m)
    OBVIOUS
  <2>2. Cardinality(Old(m) \cup {j}) = Cardinality(Old(m)) + 1
    BY <2>1, FiniteJobs, FS_AddElement
  <2> QED
    BY <1>1, <2>2
<1>3. \A m \in Managers : numJobsAddedToProcessor[m] = Cardinality(Old(m))
  BY DEF AddedCountExact
<1>4. \A m \in Managers : numJobsAddedToProcessor'[m] = Cardinality(New(m))
  <2> HIDE DEF Old, New
  <2> QED BY Constants, <1>2, <1>3 DEF Counted, TypeOK
<1>5. numJobsAddedToProcessor' \in [Managers -> Nat]
  BY Constants DEF Counted, TypeOK
<1> QED
  BY <1>4, <1>5 DEF AddedCountExact

\* A job that is not an added one any more was counted.
LEMMA CountDrops ==
  ASSUME TypeOK, AddedCountExact, NEW j \in Jobs, jobState[j] = "added",
         NEW s, s # "added", jobState' = [jobState EXCEPT ![j] = s],
         numJobsAddedToProcessor' = [numJobsAddedToProcessor EXCEPT ![ManagerOf[j]] = @ - 1]
  PROVE  AddedCountExact' /\ numJobsAddedToProcessor' \in [Managers -> Nat]
<1> DEFINE Old(m) == {i \in JobsOf(m) : jobState[i] = "added"}
           New(m) == {i \in JobsOf(m) : jobState'[i] = "added"}
<1>1. \A m \in Managers : New(m) = IF m = ManagerOf[j] THEN Old(m) \ {j} ELSE Old(m)
  BY DEF TypeOK
<1>2. \A m \in Managers :
         /\ Cardinality(New(m)) \in Nat
         /\ Cardinality(New(m)) = IF m = ManagerOf[j] THEN Cardinality(Old(m)) - 1
                                                      ELSE Cardinality(Old(m))
  <2> TAKE m \in Managers
  <2>1. Old(m) \in SUBSET Jobs /\ New(m) \in SUBSET Jobs
    OBVIOUS
  <2>2. IsFiniteSet(Old(m)) /\ Cardinality(New(m)) \in Nat
    BY <2>1, FiniteJobs
  <2>3. j \in Old(m) => Cardinality(Old(m) \ {j}) = Cardinality(Old(m)) - 1
    BY <2>2, FS_RemoveElement
  <2>4. m = ManagerOf[j] => j \in Old(m)
    OBVIOUS
  <2> QED
    BY <1>1, <2>2, <2>3, <2>4
<1>3. \A m \in Managers : numJobsAddedToProcessor[m] = Cardinality(Old(m))
  BY DEF AddedCountExact
<1>4. \A m \in Managers : numJobsAddedToProcessor'[m] = Cardinality(New(m))
  <2> HIDE DEF Old, New
  <2> QED BY Constants, <1>2, <1>3 DEF TypeOK
<1>5. numJobsAddedToProcessor' \in [Managers -> Nat]
  <2> HIDE DEF Old, New
  <2> QED BY Constants, <1>2, <1>4 DEF TypeOK
<1> QED
  BY <1>4, <1>5 DEF AddedCountExact

\* The counts stand when no job becomes or ceases to be an added one.
LEMMA CountStands ==
  ASSUME TypeOK, AddedCountExact, UNCHANGED numJobsAddedToProcessor,
         \A i \in Jobs : jobState'[i] = "added" <=> jobState[i] = "added"
  PROVE  AddedCountExact' /\ numJobsAddedToProcessor' \in [Managers -> Nat]
<1>1. \A m \in Managers :
         {i \in JobsOf(m) : jobState'[i] = "added"} = {i \in JobsOf(m) : jobState[i] = "added"}
  OBVIOUS
<1> QED
  BY <1>1 DEF AddedCountExact, TypeOK

\* JobProcessed takes the job back from the count if it was in it.
LEMMA CountProcessed ==
  ASSUME TypeOK, AddedCountExact, job \in Jobs, JobProcessed(job)
  PROVE  AddedCountExact' /\ numJobsAddedToProcessor' \in [Managers -> Nat]
<1>1. CASE WasAdded
  BY <1>1, CountDrops, "processed" # "added" DEF JobProcessed, WasAdded
<1>2. CASE ~WasAdded
  <2>1. \A i \in Jobs : jobState'[i] = "added" <=> jobState[i] = "added"
    BY <1>2 DEF JobProcessed, WasAdded, TypeOK
  <2> QED
    BY <1>2, <2>1, CountStands DEF JobProcessed
<1> QED
  BY <1>1, <1>2

-----------------------------------------------------------------------------
(* The steps preserve IndInv.                                              *)

\* AddManager preserves IndInv.
LEMMA AddManagerStep ==
  ASSUME IndInv, NEW m \in Managers, AddManager(m)
  PROVE  IndInv'
<1>1. AddedCountExact'
  BY CountStands DEF IndInv, AddManager
<1> QED
  BY <1>1 DEF IndInv, AddManager, TypeOK, CallInv, QueueInv, Added

\* AddJob links a job that is in no list.
LEMMA AddJobStep ==
  ASSUME IndInv, NEW j \in Jobs, NEW prioritize \in BOOLEAN, AddJob(j, prioritize)
  PROVE  IndInv'
<1>1. j \notin jobs.elems /\ jobs.elems = Added /\ job \notin Jobs
  BY DEF IndInv, AddJob, CallInv, QueueInv, Added
<1>2. jobs' \in ListsOf(Jobs) /\ IsList(jobs') /\ jobs'.elems = jobs.elems \cup {j}
  BY <1>1, LinkToEndFacts, LinkToBeginningFacts DEF IndInv, AddJob, TypeOK, QueueInv
<1>3. AddedCountExact' /\ numJobsAddedToProcessor' \in [Managers -> Nat]
  BY CountAdds, "new" # "added" DEF IndInv, AddJob
<1>4. Added' = Added \cup {j}
  BY DEF IndInv, AddJob, TypeOK, Added
<1>5. TypeOK' /\ CallInv'
  BY <1>1, <1>2, <1>3 DEF IndInv, AddJob, TypeOK, CallInv
<1>6. QueueInv'
  BY <1>1, <1>2, <1>4 DEF IndInv, AddJob, TypeOK, CallInv, QueueInv
<1> QED
  BY <1>3, <1>5, <1>6 DEF IndInv

\* RemoveJob unlinks a job that is queued.
LEMMA RemoveJobStep ==
  ASSUME IndInv, NEW j \in Jobs, RemoveJob(j)
  PROVE  IndInv'
<1>1. jobs.elems = Added /\ job \notin Jobs
  BY DEF IndInv, RemoveJob, CallInv, QueueInv, Added
<1>2. jobs' \in ListsOf(Jobs) /\ IsList(jobs') /\ jobs'.elems = jobs.elems \ {j}
  BY UnlinkFacts DEF IndInv, RemoveJob, TypeOK, QueueInv
<1>3. AddedCountExact' /\ numJobsAddedToProcessor' \in [Managers -> Nat]
  BY CountDrops, "new" # "added" DEF IndInv, RemoveJob
<1>4. Added' = Added \ {j}
  BY DEF IndInv, RemoveJob, TypeOK, Added
<1>5. TypeOK' /\ CallInv'
  BY <1>1, <1>2, <1>3 DEF IndInv, RemoveJob, TypeOK, CallInv
<1>6. QueueInv'
  BY <1>1, <1>2, <1>4 DEF IndInv, RemoveJob, TypeOK, CallInv, QueueInv
<1> QED
  BY <1>3, <1>5, <1>6 DEF IndInv

\* PrioritizeJob leaves the job counted while it is processed.
LEMMA PrioritizeJobStep ==
  ASSUME IndInv, NEW j \in Jobs, PrioritizeJob(j)
  PROVE  IndInv'
<1>1. jobs.elems = Added /\ job \notin Jobs
  BY DEF IndInv, PrioritizeJob, CallInv, QueueInv, Added
<1>2. jobs' \in ListsOf(Jobs) /\ IsList(jobs') /\ jobs'.elems = jobs.elems \ {j}
  BY UnlinkFacts DEF IndInv, PrioritizeJob, TypeOK, QueueInv
<1>3. AddedCountExact' /\ Added' = Added
  BY CountStands DEF IndInv, PrioritizeJob, Added
<1>4. TypeOK' /\ CallInv'
  BY <1>2 DEF IndInv, PrioritizeJob, TypeOK, CallInv
<1>5. QueueInv'
  BY <1>1, <1>2, <1>3 DEF IndInv, PrioritizeJob, QueueInv
<1> QED
  BY <1>3, <1>4, <1>5 DEF IndInv

\* PrioritizeNewJobAndWait counts a job that is never queued.
LEMMA PrioritizeNewJobAndWaitStep ==
  ASSUME IndInv, NEW j \in Jobs, PrioritizeNewJobAndWait(j)
  PROVE  IndInv'
<1>1. jobs.elems = Added /\ job \notin Jobs /\ j \notin Added
  BY DEF IndInv, PrioritizeNewJobAndWait, CallInv, QueueInv, Added
<1>3. AddedCountExact' /\ numJobsAddedToProcessor' \in [Managers -> Nat]
  BY CountAdds, "new" # "added" DEF IndInv, PrioritizeNewJobAndWait
<1>4. Added' = Added \cup {j}
  BY DEF IndInv, PrioritizeNewJobAndWait, TypeOK, Added
<1>5. TypeOK' /\ CallInv'
  BY <1>3 DEF IndInv, PrioritizeNewJobAndWait, TypeOK, CallInv
<1>6. QueueInv'
  BY <1>1, <1>4 DEF IndInv, PrioritizeNewJobAndWait, TypeOK, QueueInv
<1> QED
  BY <1>3, <1>5, <1>6 DEF IndInv

\* AddJobAndProcessProactively and ProcessProvided leave the job uncounted.
LEMMA UncountedStep ==
  ASSUME IndInv, NEW j \in Jobs, AddJobAndProcessProactively(j) \/ ProcessProvided(j)
  PROVE  IndInv'
<1>1. jobs.elems = Added /\ job \notin Jobs /\ j \notin Added
  BY DEF IndInv, AddJobAndProcessProactively, ProcessProvided, CallInv, QueueInv, Added
<1>2. AddedCountExact' /\ Added' = Added
  BY CountStands DEF IndInv, AddJobAndProcessProactively, ProcessProvided, Added
<1>3. TypeOK' /\ CallInv'
  BY DEF IndInv, AddJobAndProcessProactively, ProcessProvided, TypeOK, CallInv
<1>4. QueueInv'
  BY <1>1, <1>2 DEF IndInv, AddJobAndProcessProactively, ProcessProvided, QueueInv
<1> QED
  BY <1>2, <1>3, <1>4 DEF IndInv

\* After JobProcessed the job is not an added one, and none is in Process.
LEMMA ProcessedStep ==
  ASSUME IndInv, Processed \/ ProactiveProcessed \/ CloseProcessed
  PROVE  IndInv'
<1> USE DEF Processed, ProactiveProcessed, CloseProcessed
<1>1. job \in Jobs /\ JobProcessed(job) /\ job' = None /\ job' \notin Jobs
  BY Constants DEF IndInv, CallInv
<1>2. AddedCountExact' /\ numJobsAddedToProcessor' \in [Managers -> Nat]
  BY <1>1, CountProcessed DEF IndInv
<1>3. jobState' \in [Jobs -> {"new", "added", "processed", "aborted"}] /\ Added' = Added \ {job}
  BY <1>1 DEF IndInv, TypeOK, JobProcessed, Added
<1>4. TypeOK' /\ CallInv'
  BY <1>1, <1>2, <1>3 DEF IndInv, TypeOK, CallInv
<1>5. QueueInv'
  BY <1>1, <1>3, Constants DEF IndInv, QueueInv, Added
<1> QED
  BY <1>2, <1>4, <1>5 DEF IndInv

\* PrioritizeManager only changes the order of the queue.
LEMMA PrioritizeManagerStep ==
  ASSUME IndInv, NEW m \in Managers, PrioritizeManager(m)
  PROVE  IndInv'
<1>1. jobs' \in ListsOf(Jobs) /\ IsList(jobs') /\ jobs'.elems = jobs.elems
  BY MoveSetToBeginningFacts DEF IndInv, PrioritizeManager, TypeOK, QueueInv
<1>2. AddedCountExact' /\ Added' = Added
  BY CountStands DEF IndInv, PrioritizeManager, Added
<1>3. TypeOK' /\ CallInv'
  BY <1>1 DEF IndInv, PrioritizeManager, TypeOK, CallInv
<1>4. QueueInv'
  BY <1>1, <1>2 DEF IndInv, PrioritizeManager, QueueInv
<1> QED
  BY <1>2, <1>3, <1>4 DEF IndInv

\* The first job of the manager in the queue is linked, added and its own.
LEMMA FirstIsQueued ==
  ASSUME IndInv, NEW j \in Jobs, ProcessQueued(j)
  PROVE  j \in jobs.elems /\ ManagerOf[j] = manager /\ jobState[j] = "added"
<1>1. j \in jobs.elems \ (Jobs \ JobsOf(manager))
  BY DEF ProcessQueued, FirstOfManager, IsHead, Unlink
<1> QED
  BY <1>1 DEF IndInv, QueueInv, Added, ProcessQueued

\* ProcessQueued leaves the job counted while it is processed.
LEMMA ProcessQueuedStep ==
  ASSUME IndInv, NEW j \in Jobs, ProcessQueued(j)
  PROVE  IndInv'
<1>1. jobs.elems = Added /\ job \notin Jobs
  BY DEF IndInv, ProcessQueued, CallInv, QueueInv, Added
<1>2. jobs' \in ListsOf(Jobs) /\ IsList(jobs') /\ jobs'.elems = jobs.elems \ {j}
  BY UnlinkFacts DEF IndInv, ProcessQueued, TypeOK, QueueInv
<1>3. AddedCountExact' /\ Added' = Added
  BY CountStands DEF IndInv, ProcessQueued, Added
<1>4. TypeOK' /\ CallInv'
  BY <1>2, FirstIsQueued DEF IndInv, ProcessQueued, TypeOK, CallInv
<1>5. QueueInv'
  BY <1>1, <1>2, <1>3 DEF IndInv, ProcessQueued, QueueInv
<1> QED
  BY <1>3, <1>4, <1>5 DEF IndInv

\* ProactiveEnds preserves IndInv.
LEMMA ProactiveEndsStep ==
  ASSUME IndInv, ProactiveEnds
  PROVE  IndInv'
<1>1. AddedCountExact'
  BY CountStands DEF IndInv, ProactiveEnds
<1> QED
  BY <1>1 DEF IndInv, ProactiveEnds, TypeOK, CallInv, QueueInv, Added

\* RemoveManager aborts every added job of the manager: the count drops to 0.
LEMMA RemoveManagerStep ==
  ASSUME IndInv, NEW m \in Managers, RemoveManager(m)
  PROVE  IndInv'
<1> DEFINE own == JobsOf(m) \cap jobs.elems
<1>1. jobs.elems = Added /\ job \notin Jobs /\ own = {j \in JobsOf(m) : jobState[j] = "added"}
  BY DEF IndInv, RemoveManager, CallInv, QueueInv, Added
<1>2. jobs' \in ListsOf(Jobs) /\ IsList(jobs') /\ jobs'.elems = jobs.elems \ own
  BY UnlinkFacts DEF IndInv, RemoveManager, TypeOK, QueueInv
<1>3. /\ jobState' \in [Jobs -> {"new", "added", "processed", "aborted"}]
      /\ \A j \in Jobs : jobState'[j] = IF j \in own THEN "aborted" ELSE jobState[j]
  BY DEF IndInv, RemoveManager, TypeOK
<1>4. Added' = Added \ own
  BY <1>3 DEF Added
<1>5. /\ numJobsAddedToProcessor[m] = Cardinality(own) /\ Cardinality(own) \in Nat
      /\ numJobsAddedToProcessor' = [numJobsAddedToProcessor EXCEPT ![m] = @ - Cardinality(own)]
  BY <1>1, FiniteJobs DEF IndInv, AddedCountExact, RemoveManager
<1>6. /\ numJobsAddedToProcessor' \in [Managers -> Nat] /\ numJobsAddedToProcessor'[m] = 0
      /\ \A n \in Managers \ {m} : numJobsAddedToProcessor'[n] = numJobsAddedToProcessor[n]
  <2> HIDE DEF own
  <2> QED BY <1>5 DEF IndInv, TypeOK
<1>7. AddedCountExact'
  <2> SUFFICES ASSUME NEW n \in Managers
               PROVE  numJobsAddedToProcessor'[n] =
                         Cardinality({j \in JobsOf(n) : jobState'[j] = "added"})
    BY DEF AddedCountExact
  <2>1. CASE n = m
    <3>1. {j \in JobsOf(n) : jobState'[j] = "added"} = {}
      BY <1>1, <1>3, <2>1
    <3> QED
      BY <3>1, <1>6, <2>1, FS_EmptySet
  <2>2. CASE n # m
    <3>1. {j \in JobsOf(n) : jobState'[j] = "added"} = {j \in JobsOf(n) : jobState[j] = "added"}
      BY <1>3, <2>2
    <3> QED
      BY <3>1, <1>6, <2>2 DEF IndInv, AddedCountExact
  <2> QED
    BY <2>1, <2>2
<1>8. TypeOK' /\ CallInv'
  BY <1>1, <1>2, <1>3, <1>6 DEF IndInv, RemoveManager, TypeOK, CallInv
<1>9. QueueInv'
  BY <1>1, <1>2, <1>4 DEF IndInv, RemoveManager, QueueInv, Added
<1> QED
  BY <1>7, <1>8, <1>9 DEF IndInv

\* Close begins its loop with the jobs of the queue.
LEMMA CloseStep ==
  ASSUME IndInv, Close
  PROVE  IndInv'
<1>1. AddedCountExact'
  BY CountStands DEF IndInv, Close
<1> QED
  BY <1>1 DEF IndInv, Close, TypeOK, CallInv, QueueInv, Added

\* CloseProcesses takes a job that the loop has not reached.
LEMMA CloseProcessesStep ==
  ASSUME IndInv, NEW j \in Jobs, CloseProcesses(j)
  PROVE  IndInv'
<1>1. rest.elems = Added /\ job \notin Jobs /\ j \in Added /\ j \in Critical
  BY DEF IndInv, CloseProcesses, MustProcess, IsHead, CallInv, QueueInv, Added
<1>2. rest' \in ListsOf(Jobs) /\ IsList(rest') /\ rest'.elems = rest.elems \ {j}
  BY UnlinkFacts DEF IndInv, CloseProcesses, TypeOK, QueueInv
<1>3. AddedCountExact' /\ Added' = Added
  BY CountStands DEF IndInv, CloseProcesses, Added
<1>4. TypeOK' /\ CallInv'
  BY <1>1, <1>2 DEF IndInv, CloseProcesses, TypeOK, CallInv, Added
<1>5. QueueInv'
  BY <1>1, <1>2, <1>3 DEF IndInv, CloseProcesses, QueueInv
<1> QED
  BY <1>3, <1>4, <1>5 DEF IndInv

\* CloseAborts takes a job that the loop has not reached.
LEMMA CloseAbortsStep ==
  ASSUME IndInv, NEW j \in Jobs, CloseAborts(j)
  PROVE  IndInv'
<1>1. rest.elems = Added /\ job \notin Jobs /\ j \in Added
  BY DEF IndInv, CloseAborts, IsHead, CallInv, QueueInv, Added
<1>2. rest' \in ListsOf(Jobs) /\ IsList(rest') /\ rest'.elems = rest.elems \ {j}
  BY UnlinkFacts DEF IndInv, CloseAborts, TypeOK, QueueInv
<1>3. AddedCountExact' /\ numJobsAddedToProcessor' \in [Managers -> Nat]
  BY <1>1, CountDrops, "aborted" # "added" DEF IndInv, CloseAborts, Added
<1>4. Added' = Added \ {j}
  BY DEF IndInv, CloseAborts, TypeOK, Added
<1>5. TypeOK' /\ CallInv'
  BY <1>1, <1>2, <1>3 DEF IndInv, CloseAborts, TypeOK, CallInv
<1>6. QueueInv'
  BY <1>1, <1>2, <1>4 DEF IndInv, CloseAborts, CallInv, QueueInv
<1> QED
  BY <1>3, <1>5, <1>6 DEF IndInv

\* When Close returns no job is an added one.
LEMMA CloseReturnsStep ==
  ASSUME IndInv, CloseReturns
  PROVE  IndInv'
<1>1. Added = {} /\ Added' = Added
  BY DEF IndInv, CloseReturns, CallInv, QueueInv, Added
<1>2. jobs' \in ListsOf(Jobs) /\ IsList(jobs') /\ jobs'.elems = {}
  BY EmptyListIsList DEF CloseReturns, EmptyList, ListsOf
<1>3. AddedCountExact'
  BY CountStands DEF IndInv, CloseReturns
<1>4. TypeOK' /\ CallInv'
  BY <1>2 DEF IndInv, CloseReturns, TypeOK, CallInv
<1>5. QueueInv'
  BY <1>1, <1>2 DEF IndInv, CloseReturns, QueueInv
<1> QED
  BY <1>3, <1>4, <1>5 DEF IndInv

\* The initial state satisfies IndInv.
LEMMA InitIndInv == Init => IndInv
<1> SUFFICES ASSUME Init PROVE IndInv
  OBVIOUS
<1>1. jobs \in ListsOf(Jobs) /\ IsList(jobs) /\ rest \in ListsOf(Jobs) /\ IsList(rest)
  BY EmptyListIsList DEF Init, EmptyList, ListsOf
<1>2. \A m \in Managers : {j \in JobsOf(m) : jobState[j] = "added"} = {}
  BY DEF Init
<1>3. AddedCountExact
  BY <1>2, FS_EmptySet DEF Init, AddedCountExact
<1> QED
  BY <1>1, <1>3, Constants
  DEF IndInv, Init, TypeOK, CallInv, QueueInv, Added, EmptyList

\* Every step preserves IndInv.
LEMMA NextIndInv == IndInv /\ [Next]_vars => IndInv'
<1> SUFFICES ASSUME IndInv, [Next]_vars PROVE IndInv'
  OBVIOUS
<1>1. ASSUME NEW m \in Managers, AddManager(m) \/ PrioritizeManager(m) \/ RemoveManager(m)
      PROVE  IndInv'
  BY <1>1, AddManagerStep, PrioritizeManagerStep, RemoveManagerStep
<1>2. ASSUME NEW j \in Jobs,
             \/ \E prioritize \in BOOLEAN : AddJob(j, prioritize)
             \/ RemoveJob(j) \/ PrioritizeJob(j) \/ PrioritizeNewJobAndWait(j)
             \/ AddJobAndProcessProactively(j)
      PROVE  IndInv'
  BY <1>2, AddJobStep, RemoveJobStep, PrioritizeJobStep, PrioritizeNewJobAndWaitStep,
     UncountedStep
<1>3. ASSUME Close PROVE IndInv'
  BY <1>3, CloseStep
<1>4. ASSUME Continue PROVE IndInv'
  BY <1>4, ProcessedStep, ProcessQueuedStep, UncountedStep, ProactiveEndsStep,
     CloseProcessesStep, CloseAbortsStep, CloseReturnsStep DEF Continue
<1>5. ASSUME UNCHANGED vars PROVE IndInv'
  BY <1>5 DEF vars, IndInv, TypeOK, CallInv, QueueInv, Added, AddedCountExact
<1> QED
  BY <1>1, <1>2, <1>3, <1>4, <1>5 DEF Next

\* IndInv holds in every reachable state.
LEMMA IndInvAlways == Spec => []IndInv
  BY InitIndInv, NextIndInv, PTL DEF Spec

\* The variables of the foreground processor have their types: in particular
\* the decrements of numJobsAddedToProcessor never take it below zero.
THEOREM TypeCorrect == Spec => []TypeOK
  BY IndInvAlways, PTL DEF IndInv

\* numJobsAddedToProcessor of a manager is the number of its jobs that are
\* added and not processed, aborted or taken back, between the steps of
\* PrioritizeManagerAndWait and of the loop of Close too.
THEOREM CountIsExact == Spec => []AddedCountExact
  BY IndInvAlways, PTL DEF IndInv

-----------------------------------------------------------------------------
(* The refinement of JobService.                                           *)

\* A step that changes the abstract status of one job, and nothing else that
\* JobService sees.
LEMMA OneJob ==
  ASSUME NEW j \in Jobs, NEW s,
         UNCHANGED <<managers, phaseBar>>,
         \A i \in Jobs : statusBar'[i] = IF i = j THEN s ELSE statusBar[i]
  PROVE  /\ statusBar' = [statusBar EXCEPT ![j] = s]
         /\ UNCHANGED <<managerBar, phaseBar>>
<1>1. statusBar' = [i \in Jobs |-> statusBar'[i]] /\ statusBar = [i \in Jobs |-> statusBar[i]]
  BY DEF statusBar
<1>2. statusBar' = [statusBar EXCEPT ![j] = s]
  <2> HIDE DEF statusBar
  <2> QED BY <1>1
<1> QED
  BY <1>2 DEF managerBar

\* A step that JobService does not see.
LEMMA NoJob ==
  ASSUME UNCHANGED <<managers, phaseBar>>,
         \A i \in Jobs : statusBar'[i] = statusBar[i]
  PROVE  UNCHANGED Service!svars
<1>1. statusBar' = [i \in Jobs |-> statusBar'[i]] /\ statusBar = [i \in Jobs |-> statusBar[i]]
  BY DEF statusBar
<1>2. statusBar' = statusBar
  <2> HIDE DEF statusBar
  <2> QED BY <1>1
<1> QED
  BY <1>2 DEF managerBar, Service!svars

\* AddManager registers the manager.
LEMMA AddManagerRefines ==
  ASSUME IndInv, NEW m \in Managers, AddManager(m)
  PROVE  Service!Register(m)
<1>1. phaseBar = "open" /\ phaseBar' = "open"
  BY DEF AddManager, phaseBar, closing
<1>2. statusBar' = statusBar
  BY DEF AddManager, statusBar, closing
<1>3. managerBar[m] = "out" /\ managerBar' = [managerBar EXCEPT ![m] = "in"]
  BY DEF AddManager, managerBar
<1> QED
  BY <1>1, <1>2, <1>3 DEF Service!Register

\* AddJob queues a new job.
LEMMA AddJobRefines ==
  ASSUME IndInv, NEW j \in Jobs, NEW prioritize \in BOOLEAN, AddJob(j, prioritize)
  PROVE  Service!Add(j)
<1> USE DEF AddJob
<1>1. job \notin Jobs /\ phaseBar = "open" /\ phaseBar' = "open"
  BY DEF IndInv, CallInv, phaseBar, closing
<1>2. \A i \in Jobs : statusBar'[i] = IF i = j THEN "queued" ELSE statusBar[i]
  BY <1>1 DEF IndInv, TypeOK, statusBar, closing
<1>3. statusBar[j] = "new" /\ managerBar[ManagerOf[j]] = "in"
  BY <1>1, Constants DEF statusBar, managerBar
<1> QED
  BY <1>1, <1>2, <1>3, OneJob DEF Service!Add

\* RemoveJob gives a queued job back to its manager.
LEMMA RemoveJobRefines ==
  ASSUME IndInv, NEW j \in Jobs, RemoveJob(j)
  PROVE  Service!Withdraw(j)
<1> USE DEF RemoveJob
<1>1. job \notin Jobs /\ phaseBar = "open" /\ phaseBar' = "open"
  BY DEF IndInv, CallInv, phaseBar, closing
<1>2. \A i \in Jobs : statusBar'[i] = IF i = j THEN "new" ELSE statusBar[i]
  BY <1>1 DEF IndInv, TypeOK, statusBar, closing
<1>3. statusBar[j] = "queued" /\ managerBar[ManagerOf[j]] = "in"
  BY <1>1, Constants DEF statusBar, managerBar, closing
<1> QED
  BY <1>1, <1>2, <1>3, OneJob DEF Service!Withdraw

\* The five ways to process a job before Close start it.
LEMMA OpenRefines ==
  ASSUME IndInv, NEW j \in Jobs,
         \/ PrioritizeJob(j) \/ PrioritizeNewJobAndWait(j) \/ AddJobAndProcessProactively(j)
         \/ ProcessQueued(j) \/ ProcessProvided(j)
  PROVE  Service!Start(j)
<1> USE DEF PrioritizeJob, PrioritizeNewJobAndWait, AddJobAndProcessProactively,
            ProcessQueued, ProcessProvided
<1>1. job \notin Jobs /\ ~isClosed /\ pc \notin {"closing", "processClosing"} /\ job' = j
  BY DEF IndInv, CallInv
<1>2. phaseBar = "open" /\ phaseBar' = "open" /\ UNCHANGED managers
  BY <1>1 DEF phaseBar, closing
<1>3. jobState[j] \in {"new", "added"} /\ ManagerOf[j] \in managers
  BY FirstIsQueued DEF IndInv, CallInv
<1>4. \A i \in Jobs : i # j => jobState'[i] = jobState[i]
  BY DEF IndInv, TypeOK
<1>5. pc' \notin {"closing", "processClosing"}
  OBVIOUS
<1>6. \A i \in Jobs : statusBar'[i] = IF i = j THEN "running" ELSE statusBar[i]
  BY <1>1, <1>4, <1>5 DEF statusBar, closing
<1>7. statusBar[j] \in {"new", "queued"} /\ managerBar[ManagerOf[j]] = "in"
  BY <1>1, <1>3, Constants DEF statusBar, managerBar, closing
<1> QED
  BY <1>2, <1>6, <1>7, OneJob DEF Service!Start

\* Close starts a critical job of a manager that is still registered.
LEMMA CloseProcessesRefines ==
  ASSUME IndInv, NEW j \in Jobs, CloseProcesses(j)
  PROVE  Service!Start(j)
<1> USE DEF CloseProcesses
<1>1. /\ job \notin Jobs /\ j \in Critical /\ jobState[j] = "added"
      /\ ManagerOf[j] \in managers
  BY DEF IndInv, CallInv, QueueInv, Added, IsHead, MustProcess
<1>2. phaseBar = "closing" /\ phaseBar' = "closing"
  BY DEF phaseBar, closing
<1>3. \A i \in Jobs : statusBar'[i] = IF i = j THEN "running" ELSE statusBar[i]
  BY <1>1 DEF statusBar, closing
<1>4. statusBar[j] = "queued" /\ managerBar[ManagerOf[j]] = "in"
  BY <1>1, Constants DEF statusBar, managerBar, closing
<1> QED
  BY <1>1, <1>2, <1>3, <1>4, OneJob DEF Service!Start

\* JobProcessed finishes the job.
LEMMA ProcessedRefines ==
  ASSUME IndInv, Processed \/ ProactiveProcessed \/ CloseProcessed
  PROVE  job \in Jobs /\ Service!Finish(job)
<1> USE DEF Processed, ProactiveProcessed, CloseProcessed
<1>1. job \in Jobs /\ job' \notin Jobs /\ UNCHANGED <<managers, isClosed>>
  BY Constants DEF IndInv, CallInv
<1>2. closing' <=> closing
  BY DEF closing
<1>3. \A i \in Jobs : jobState'[i] = IF i = job THEN "processed" ELSE jobState[i]
  BY DEF JobProcessed, IndInv, TypeOK
<1>4. UNCHANGED phaseBar
  BY <1>1, <1>2 DEF phaseBar
<1>5. \A i \in Jobs : statusBar'[i] = IF i = job THEN "processed" ELSE statusBar[i]
  BY <1>1, <1>2, <1>3 DEF statusBar
<1>6. statusBar[job] = "running"
  BY <1>1 DEF statusBar
<1> QED
  BY <1>1, <1>4, <1>5, <1>6, OneJob DEF Service!Finish

\* RemoveManager aborts the queued jobs of the manager, none of which runs.
LEMMA RemoveManagerRefines ==
  ASSUME IndInv, NEW m \in Managers, RemoveManager(m)
  PROVE  Service!Remove(m)
<1> USE DEF RemoveManager
<1> DEFINE own == JobsOf(m) \cap jobs.elems
<1>1. job \notin Jobs /\ own = {j \in JobsOf(m) : jobState[j] = "added"}
  BY DEF IndInv, CallInv, QueueInv, Added
<1>2. \A i \in Jobs : statusBar[i] = IF jobState[i] = "added" THEN "queued" ELSE jobState[i]
  BY <1>1 DEF statusBar, closing
<1>3. \A i \in Jobs : jobState[i] \in {"new", "added", "processed", "aborted"}
  BY DEF IndInv, TypeOK
<1>4. /\ Service!InState(Service!Own(m), "queued") = own
      /\ Service!InState(Service!Own(m), "running") = {}
  BY <1>1, <1>2, <1>3 DEF Service!InState, Service!Own
<1>5. statusBar' = [j \in Jobs |-> IF j \in own THEN "aborted" ELSE statusBar[j]]
  BY <1>1, <1>2 DEF statusBar, closing
<1>6. UNCHANGED phaseBar
  BY DEF phaseBar, closing
<1>7. managerBar[m] = "in" /\ managerBar' = [managerBar EXCEPT ![m] = "out"]
  BY DEF managerBar
<1> QED
  BY <1>4, <1>5, <1>6, <1>7 DEF Service!Remove, Service!Aborted

\* Close aborts the queued jobs that are not critical: from its first step on
\* nothing else can happen to them.
LEMMA CloseRefines ==
  ASSUME IndInv, Close
  PROVE  Service!Close
<1> USE DEF Close
<1>1. job \notin Jobs /\ UNCHANGED <<job, jobState, managers>>
  BY DEF IndInv, CallInv
<1>2. \A i \in Jobs : jobState[i] \in {"new", "added", "processed", "aborted"}
  BY DEF IndInv, TypeOK
<1>3. \A i \in Jobs : statusBar[i] = IF jobState[i] = "added" THEN "queued" ELSE jobState[i]
  BY <1>1 DEF statusBar, closing
<1>4. Service!InState(Jobs \ Critical, "queued") = {j \in Jobs \ Critical : jobState[j] = "added"}
  BY <1>2, <1>3 DEF Service!InState
<1>5. statusBar' = [j \in Jobs |-> IF jobState[j] = "added" /\ j \notin Critical
                                  THEN "aborted" ELSE statusBar[j]]
  BY <1>1, <1>3 DEF statusBar, closing
<1>6. statusBar' = [j \in Jobs |-> IF j \in {i \in Jobs \ Critical : jobState[i] = "added"}
                                  THEN "aborted" ELSE statusBar[j]]
  BY <1>5
<1>7. phaseBar = "open" /\ phaseBar' = "closing" /\ UNCHANGED managerBar
  BY DEF phaseBar, closing, managerBar
<1> QED
  BY <1>4, <1>6, <1>7 DEF Service!Close, Service!Aborted

\* The abort of one job by the loop was announced by Close.
LEMMA CloseAbortsRefines ==
  ASSUME IndInv, NEW j \in Jobs, CloseAborts(j)
  PROVE  UNCHANGED Service!svars
<1> USE DEF CloseAborts
<1>1. job \notin Jobs /\ jobState[j] = "added" /\ j \notin Critical
  BY DEF IndInv, CallInv, QueueInv, Added, IsHead, MustProcess
<1>2. UNCHANGED <<managers, phaseBar>>
  BY DEF phaseBar, closing
<1>3. \A i \in Jobs : statusBar'[i] = statusBar[i]
  BY <1>1 DEF statusBar, closing, IndInv, TypeOK
<1> QED
  BY <1>2, <1>3, NoJob

\* When Close returns no job is queued or runs.
LEMMA CloseReturnsRefines ==
  ASSUME IndInv, CloseReturns
  PROVE  Service!CloseReturn
<1> USE DEF CloseReturns
<1>1. job \notin Jobs /\ Added = {}
  BY DEF IndInv, CallInv, QueueInv, Added
<1>2. \A i \in Jobs : jobState[i] \in {"new", "processed", "aborted"}
  BY <1>1 DEF IndInv, TypeOK, Added
<1>3. \A i \in Jobs : statusBar[i] = jobState[i]
  BY <1>1, <1>2 DEF statusBar
<1>4. statusBar' = statusBar
  BY <1>1, <1>2 DEF statusBar
<1>5. Service!InState(Jobs, "queued") = {} /\ Service!InState(Jobs, "running") = {}
  BY <1>2, <1>3 DEF Service!InState
<1>6. phaseBar = "closing" /\ phaseBar' = "closed" /\ UNCHANGED managerBar
  BY DEF phaseBar, closing, managerBar
<1> QED
  BY <1>4, <1>5, <1>6 DEF Service!CloseReturn

\* PrioritizeManager and the end of its loop are not seen.
LEMMA PrioritizeManagerRefines ==
  ASSUME IndInv, ProactiveEnds \/ \E m \in Managers : PrioritizeManager(m)
  PROVE  UNCHANGED Service!svars
<1>1. UNCHANGED <<managers, isClosed, jobState, job>> /\ ~closing /\ ~closing'
  BY DEF ProactiveEnds, PrioritizeManager, closing
<1> QED
  BY <1>1 DEF Service!svars, statusBar, managerBar, phaseBar

\* Every step of the foreground processor is a step of JobService, or is not
\* seen by it.
LEMMA NextRefines == IndInv /\ [Next]_vars => [Service!Next]_Service!svars
<1> SUFFICES ASSUME IndInv, [Next]_vars PROVE [Service!Next]_Service!svars
  OBVIOUS
<1>1. ASSUME NEW m \in Managers, AddManager(m) \/ PrioritizeManager(m) \/ RemoveManager(m)
      PROVE  [Service!Next]_Service!svars
  BY <1>1, AddManagerRefines, PrioritizeManagerRefines, RemoveManagerRefines DEF Service!Next
<1>2. ASSUME NEW j \in Jobs,
             \/ \E prioritize \in BOOLEAN : AddJob(j, prioritize)
             \/ RemoveJob(j) \/ PrioritizeJob(j) \/ PrioritizeNewJobAndWait(j)
             \/ AddJobAndProcessProactively(j)
      PROVE  [Service!Next]_Service!svars
  BY <1>2, AddJobRefines, RemoveJobRefines, OpenRefines DEF Service!Next
<1>3. ASSUME Close PROVE [Service!Next]_Service!svars
  BY <1>3, CloseRefines DEF Service!Next
<1>4. ASSUME Continue PROVE [Service!Next]_Service!svars
  <2>1. ASSUME Processed \/ ProactiveProcessed \/ CloseProcessed
        PROVE  Service!Next
    BY <2>1, ProcessedRefines DEF Service!Next
  <2>2. ASSUME NEW j \in Jobs, ProcessQueued(j) \/ ProcessProvided(j) \/ CloseProcesses(j)
        PROVE  Service!Next
    BY <2>2, OpenRefines, CloseProcessesRefines DEF Service!Next
  <2>3. ASSUME NEW j \in Jobs, CloseAborts(j) PROVE UNCHANGED Service!svars
    BY <2>3, CloseAbortsRefines
  <2>4. ASSUME ProactiveEnds PROVE UNCHANGED Service!svars
    BY <2>4, PrioritizeManagerRefines
  <2>5. ASSUME CloseReturns PROVE Service!Next
    BY <2>5, CloseReturnsRefines DEF Service!Next
  <2> QED
    BY <1>4, <2>1, <2>2, <2>3, <2>4, <2>5 DEF Continue
<1>5. ASSUME UNCHANGED vars PROVE UNCHANGED Service!svars
  BY <1>5 DEF vars, Service!svars, statusBar, managerBar, phaseBar, closing
<1> QED
  BY <1>1, <1>2, <1>3, <1>4, <1>5 DEF Next

\* The initial state of the foreground processor is one of JobService.
LEMMA InitRefines == Init => Service!Init
  BY Constants DEF Init, Service!Init, statusBar, managerBar, phaseBar, closing

\* ForegroundJobProcessor implements JobService: a job is processed once or
\* aborted, a manager leaves without queued or running jobs, and when Close
\* has returned every critical job that was queued has been processed.
THEOREM PromisesAreKept == Spec => KeepsPromises
  BY InitRefines, NextRefines, IndInvAlways, PTL DEF Spec, KeepsPromises, Service!Spec
=============================================================================
