----------------------- MODULE BackgroundJobsProofs -----------------------
(***************************************************************************)
(* IndInv is an invariant of BackgroundJobs, for every number of threads,  *)
(* managers and jobs and with or without a thread service.  On top of it:  *)
(* no wakeup is lost (WakeInv), no thread waits in vain (WaitInv) and,     *)
(* with dedicated threads, BackgroundJobs implements JobService.           *)
(***************************************************************************)
EXTENDS BackgroundJobs, FiniteSetTheorems, WellFoundedInduction, TLAPS

-----------------------------------------------------------------------------
(* Lists.  The operations keep a list a list: the order stays strict and   *)
(* total, so that a list that is not empty has one head and a worker       *)
(* always finds the job it is to take.                                     *)

\* The constructor of DoublyLinkedList makes a list.
LEMMA EmptyListIsList == IsList(EmptyList)
  BY DEF IsList, EmptyList

\* LinkToEnd puts a new element behind all the others.
LEMMA LinkToEndIsList ==
  ASSUME NEW q, IsList(q), NEW e, e \notin q.elems
  PROVE  IsList(LinkToEnd(q, e))
<1> DEFINE r == LinkToEnd(q, e)
<1>1. r.elems = q.elems \cup {e} /\ r.before = q.before \cup (q.elems \X {e})
  BY DEF LinkToEnd
<1>2. \A a, b : <<a, b>> \in r.before <=> <<a, b>> \in q.before \/ (a \in q.elems /\ b = e)
  BY <1>1
<1>3. \A a, b : <<a, b>> \in q.before => a \in q.elems /\ b \in q.elems
  BY DEF IsList
<1>4. r.before \subseteq r.elems \X r.elems
  BY <1>1 DEF IsList
<1> HIDE DEF r
<1> QED
  BY <1>1, <1>2, <1>3, <1>4 DEF IsList, r

\* LinkToBeginning puts a new element in front of all the others.
LEMMA LinkToBeginningIsList ==
  ASSUME NEW q, IsList(q), NEW e, e \notin q.elems
  PROVE  IsList(LinkToBeginning(q, e))
<1> DEFINE r == LinkToBeginning(q, e)
<1>1. r.elems = q.elems \cup {e} /\ r.before = q.before \cup ({e} \X q.elems)
  BY DEF LinkToBeginning
<1>2. \A a, b : <<a, b>> \in r.before <=> <<a, b>> \in q.before \/ (a = e /\ b \in q.elems)
  BY <1>1
<1>3. \A a, b : <<a, b>> \in q.before => a \in q.elems /\ b \in q.elems
  BY DEF IsList
<1>4. r.before \subseteq r.elems \X r.elems
  BY <1>1 DEF IsList
<1> HIDE DEF r
<1> QED
  BY <1>1, <1>2, <1>3, <1>4 DEF IsList, r

\* Unlink leaves the order of the remaining elements alone.
LEMMA UnlinkIsList ==
  ASSUME NEW q, IsList(q), NEW S
  PROVE  IsList(Unlink(q, S))
<1> DEFINE r == Unlink(q, S)
<1>1. r.elems = q.elems \ S /\ r.before = {p \in q.before : p[1] \notin S /\ p[2] \notin S}
  BY DEF Unlink
<1>2. \A a, b : <<a, b>> \in r.before <=> <<a, b>> \in q.before /\ a \notin S /\ b \notin S
  BY <1>1
<1>3. r.before \subseteq r.elems \X r.elems
  BY <1>1 DEF IsList
<1> HIDE DEF r
<1> QED
  BY <1>1, <1>2, <1>3 DEF IsList, r

\* Moving an element to the beginning leaves a list.
LEMMA MoveToBeginningIsList ==
  ASSUME NEW q, IsList(q), NEW e
  PROVE  IsList(MoveToBeginning(q, e))
<1>1. IsList(Unlink(q, {e}))
  BY UnlinkIsList
<1>2. e \notin Unlink(q, {e}).elems
  BY DEF Unlink
<1> QED
  BY <1>1, <1>2, LinkToBeginningIsList DEF MoveToBeginning

\* PrioritizeManager moves the jobs of one manager in front of the others.
LEMMA MoveSetToBeginningIsList ==
  ASSUME NEW q, IsList(q), NEW S
  PROVE  IsList(MoveSetToBeginning(q, S))
<1> DEFINE r == MoveSetToBeginning(q, S)
<1>1. r.elems = q.elems
  BY DEF MoveSetToBeginning
<1>2. \A a, b \in q.elems :
         <<a, b>> \in r.before <=> \/ a \in S /\ b \notin S
                                   \/ <<a, b>> \in q.before /\ (a \in S <=> b \in S)
  BY DEF MoveSetToBeginning
<1>3. r.before \subseteq r.elems \X r.elems
  BY <1>1 DEF MoveSetToBeginning
<1> HIDE DEF r
<1> QED
  BY <1>1, <1>2, <1>3 DEF IsList, r

-----------------------------------------------------------------------------
(* The same operations with their elements, for lists over a set E.        *)

\* LinkToEnd of an element that is not linked: the elements afterwards.
LEMMA LinkToEndFacts ==
  ASSUME NEW E, NEW q \in ListsOf(E), IsList(q), NEW e \in E, e \notin q.elems
  PROVE  LET r == LinkToEnd(q, e)
         IN  r \in ListsOf(E) /\ IsList(r) /\ r.elems = q.elems \cup {e}
<1>1. IsList(LinkToEnd(q, e))
  BY LinkToEndIsList
<1> QED
  BY <1>1 DEF LinkToEnd, ListsOf

\* LinkToBeginning of an element that is not linked, likewise.
LEMMA LinkToBeginningFacts ==
  ASSUME NEW E, NEW q \in ListsOf(E), IsList(q), NEW e \in E, e \notin q.elems
  PROVE  LET r == LinkToBeginning(q, e)
         IN  r \in ListsOf(E) /\ IsList(r) /\ r.elems = q.elems \cup {e}
<1>1. IsList(LinkToBeginning(q, e))
  BY LinkToBeginningIsList
<1> QED
  BY <1>1 DEF LinkToBeginning, ListsOf

\* Unlink of any set of elements, likewise.
LEMMA UnlinkFacts ==
  ASSUME NEW E, NEW q \in ListsOf(E), IsList(q), NEW S
  PROVE  LET r == Unlink(q, S)
         IN  r \in ListsOf(E) /\ IsList(r) /\ r.elems = q.elems \ S
<1>1. IsList(Unlink(q, S))
  BY UnlinkIsList
<1> QED
  BY <1>1 DEF Unlink, ListsOf

\* MoveToBeginning of an element of the list keeps the elements.
LEMMA MoveToBeginningFacts ==
  ASSUME NEW E, NEW q \in ListsOf(E), IsList(q), NEW e \in q.elems
  PROVE  LET r == MoveToBeginning(q, e)
         IN  r \in ListsOf(E) /\ IsList(r) /\ r.elems = q.elems
<1> DEFINE u == Unlink(q, {e})
<1>1. u \in ListsOf(E) /\ IsList(u) /\ u.elems = q.elems \ {e}
  BY UnlinkFacts
<1>2. e \in E /\ e \notin u.elems
  BY <1>1 DEF ListsOf
<1> HIDE DEF u
<1>3. LET r == LinkToBeginning(u, e)
      IN  r \in ListsOf(E) /\ IsList(r) /\ r.elems = u.elems \cup {e}
  BY <1>1, <1>2, LinkToBeginningFacts
<1>4. u.elems \cup {e} = q.elems
  BY <1>1
<1> QED
  BY <1>3, <1>4 DEF MoveToBeginning, u

\* PrioritizeManager's move of a set of jobs keeps the elements.
LEMMA MoveSetToBeginningFacts ==
  ASSUME NEW E, NEW q \in ListsOf(E), IsList(q), NEW S
  PROVE  LET r == MoveSetToBeginning(q, S)
         IN  r \in ListsOf(E) /\ IsList(r) /\ r.elems = q.elems
<1>1. IsList(MoveSetToBeginning(q, S))
  BY MoveSetToBeginningIsList
<1> QED
  BY <1>1 DEF MoveSetToBeginning, ListsOf

\* A finite list that is not empty has a Head(): the element with the least
\* set of predecessors.  Run relies on it when it tests the head for a critical
\* job before it leaves.
LEMMA HeadExists ==
  ASSUME NEW q, IsList(q), IsFiniteSet(q.elems), q.elems # {}
  PROVE  \E e \in q.elems : IsHead(q, e)
<1> DEFINE E == q.elems
           Pred(e) == {x \in E : <<x, e>> \in q.before}
           T == {Pred(e) : e \in E}
           R == StrictSubsetOrdering(E)
<1>1. T \subseteq SUBSET E /\ T # {}
  OBVIOUS
<1>2. IsWellFoundedOn(R, SUBSET E)
  BY FS_StrictSubsetOrderingWellFounded, FS_FiniteSubsetsOfFinite
<1>3. \E x \in T : \A y \in T : ~(<<y, x>> \in R)
  <2> HIDE DEF T, R, E
  <2> QED BY <1>1, <1>2, WFMin
<1>4. PICK e \in E : \A d \in E : ~(<<Pred(d), Pred(e)>> \in R)
  BY <1>3
<1>5. ASSUME NEW d \in E, <<d, e>> \in q.before
      PROVE  FALSE
  <2>1. Pred(d) \subseteq Pred(e)
    BY <1>5 DEF IsList
  <2>2. d \in Pred(e) /\ d \notin Pred(d)
    BY <1>5 DEF IsList
  <2>3. Pred(d) \in SUBSET E /\ Pred(e) \in SUBSET E /\ Pred(d) # Pred(e)
    BY <2>2
  <2>4. <<Pred(d), Pred(e)>> \in R
    <3> HIDE DEF Pred, E
    <3> QED BY <2>1, <2>3 DEF StrictSubsetOrdering
  <2> QED
    BY <1>4, <2>4
<1> QED
  BY <1>5 DEF IsHead

USE DEF ServiceData, ThreadData, DataOf, Unlocked, Idle, Goto, JobsOf,
        processorVars, eventVars, dataVars, waitVars, managerVars,
        workerVars, foregroundVars, WorkerStates, ForegroundStates

-----------------------------------------------------------------------------
(* Counting.                                                               *)

\* Sets of jobs are finite.
LEMMA FiniteJobs == \A S \in SUBSET Jobs : IsFiniteSet(S) /\ Cardinality(S) \in Nat
  BY JobsAssumption, FS_Subset, FS_CardinalityType DEF JobsAssumption

\* The cardinality of a disjoint union.
LEMMA DisjointUnion ==
  ASSUME NEW A, NEW B, IsFiniteSet(A), IsFiniteSet(B), A \cap B = {}
  PROVE  Cardinality(A \cup B) = Cardinality(A) + Cardinality(B)
<1>1. Cardinality(A) \in Nat /\ Cardinality(B) \in Nat /\ Cardinality(A \cap B) = 0
  BY FS_CardinalityType, FS_EmptySet
<1>2. Cardinality(A \cup B) = Cardinality(A) + Cardinality(B) - Cardinality(A \cap B)
  BY FS_Union
<1> QED
  BY <1>1, <1>2

\* A job that becomes an added one makes the set of its manager grow by one.
LEMMA CountAdds ==
  ASSUME numJobsAddedToProcessor \in [Managers -> Nat],
         jobState = [i \in Jobs |-> jobState[i]],
         AddedCountExact, NEW j \in Jobs, jobState[j] # "added",
         jobState' = [jobState EXCEPT ![j] = "added"], IncrementAdded(j)
  PROVE  AddedCountExact' /\ numJobsAddedToProcessor' \in [Managers -> Nat]
<1> DEFINE Old(m) == {i \in JobsOf(m) : jobState[i] = "added"}
           New(m) == {i \in JobsOf(m) : jobState'[i] = "added"}
<1>0. ManagerOf \in [Jobs -> Managers]
  BY JobsAssumption
<1>1. \A m \in Managers : New(m) = IF m = ManagerOf[j] THEN Old(m) \cup {j} ELSE Old(m)
  BY <1>0
<1>2. \A m \in Managers : Old(m) \in SUBSET Jobs /\ j \notin Old(m)
  OBVIOUS
<1>3. \A m \in Managers : Cardinality(New(m)) =
         IF m = ManagerOf[j] THEN Cardinality(Old(m)) + 1 ELSE Cardinality(Old(m))
  <2> TAKE m \in Managers
  <2>1. IsFiniteSet(Old(m)) /\ j \notin Old(m)
    BY <1>2, FiniteJobs
  <2>2. Cardinality(Old(m) \cup {j}) = Cardinality(Old(m)) + 1
    BY <2>1, FS_AddElement
  <2> QED
    BY <1>1, <2>2
<1>4. \A m \in Managers : numJobsAddedToProcessor[m] = Cardinality(Old(m))
  BY DEF AddedCountExact
<1>5. \A m \in Managers : numJobsAddedToProcessor'[m] = Cardinality(New(m))
  <2> HIDE DEF Old, New
  <2> QED BY <1>0, <1>3, <1>4 DEF IncrementAdded
<1>6. numJobsAddedToProcessor' \in [Managers -> Nat]
  BY <1>0 DEF IncrementAdded
<1> QED
  BY <1>5, <1>6 DEF AddedCountExact

\* A job that is not an added one any more was counted.
LEMMA CountDrops ==
  ASSUME numJobsAddedToProcessor \in [Managers -> Nat],
         jobState = [i \in Jobs |-> jobState[i]],
         AddedCountExact, NEW j \in Jobs, jobState[j] = "added", NEW s, s # "added",
         jobState' = [jobState EXCEPT ![j] = s], DecrementAdded(j)
  PROVE  AddedCountExact' /\ numJobsAddedToProcessor' \in [Managers -> Nat]
<1> DEFINE Old(m) == {i \in JobsOf(m) : jobState[i] = "added"}
           New(m) == {i \in JobsOf(m) : jobState'[i] = "added"}
<1>0. ManagerOf \in [Jobs -> Managers]
  BY JobsAssumption
<1>1. \A m \in Managers : New(m) = IF m = ManagerOf[j] THEN Old(m) \ {j} ELSE Old(m)
  BY <1>0
<1>2. j \in Old(ManagerOf[j]) /\ \A m \in Managers : Old(m) \in SUBSET Jobs
  OBVIOUS
<1>3. \A m \in Managers :
         /\ Cardinality(New(m)) \in Nat
         /\ Cardinality(New(m)) =
               IF m = ManagerOf[j] THEN Cardinality(Old(m)) - 1 ELSE Cardinality(Old(m))
  <2> TAKE m \in Managers
  <2>1. IsFiniteSet(Old(m)) /\ IsFiniteSet(New(m)) /\ Cardinality(New(m)) \in Nat
    BY FiniteJobs
  <2>2. j \in Old(m) => Cardinality(Old(m) \ {j}) = Cardinality(Old(m)) - 1
    BY <2>1, FS_RemoveElement
  <2> QED
    BY <1>1, <1>2, <2>1, <2>2
<1>4. \A m \in Managers : numJobsAddedToProcessor[m] = Cardinality(Old(m))
  BY DEF AddedCountExact
<1>5. \A m \in Managers : numJobsAddedToProcessor'[m] = Cardinality(New(m))
  <2> HIDE DEF Old, New
  <2> QED BY <1>0, <1>3, <1>4 DEF DecrementAdded
<1>6. numJobsAddedToProcessor' \in [Managers -> Nat]
  <2> HIDE DEF Old, New
  <2> QED BY <1>0, <1>3, <1>5 DEF DecrementAdded
<1> QED
  BY <1>5, <1>6 DEF AddedCountExact

\* A job leaves the queue, and numJobs drops with it.
LEMMA QueueDrops ==
  ASSUME jobs.elems \in SUBSET Jobs, numJobs \in Nat, NumJobsCoversQueue, NEW j \in jobs.elems, TakeFromQueue(j)
  PROVE  NumJobsCoversQueue' /\ numJobs' \in Nat
<1>2. /\ IsFiniteSet(jobs.elems) /\ Cardinality(jobs.elems) \in Nat
      /\ Cardinality(jobs.elems \ {j}) \in Nat
  BY FiniteJobs
<1>3. Cardinality(jobs.elems \ {j}) = Cardinality(jobs.elems) - 1
  BY <1>2, FS_RemoveElement
<1>4. jobs'.elems = jobs.elems \ {j}
  BY DEF TakeFromQueue, Unlink
<1>5. numJobs' = numJobs - 1
  BY DEF TakeFromQueue
<1> QED
  BY <1>2, <1>3, <1>4, <1>5 DEF NumJobsCoversQueue

\* The jobs of S leave the queue, and numJobs drops by their number.
LEMMA QueueAborts ==
  ASSUME jobs.elems \in SUBSET Jobs, numJobs \in Nat, NumJobsCoversQueue,
         NEW S \in SUBSET jobs.elems, Abort(S)
  PROVE  NumJobsCoversQueue' /\ numJobs' \in Nat
<1> DEFINE T == jobs.elems \ S
<1>1. /\ IsFiniteSet(S) /\ IsFiniteSet(T)
      /\ Cardinality(S) \in Nat /\ Cardinality(T) \in Nat
  BY FiniteJobs
<1>2. S \cup T = jobs.elems /\ S \cap T = {}
  OBVIOUS
<1>3. Cardinality(jobs.elems) = Cardinality(S) + Cardinality(T)
  BY <1>1, <1>2, DisjointUnion
<1>4. jobs'.elems = T /\ numJobs' = numJobs - Cardinality(S)
  BY DEF Abort, Unlink
<1> HIDE DEF T
<1> QED
  BY <1>1, <1>3, <1>4 DEF NumJobsCoversQueue

\* The counts of the managers drop by the number of their aborted jobs.
LEMMA CountAborts ==
  ASSUME numJobsAddedToProcessor \in [Managers -> Nat],
         AddedCountExact, NEW S \in SUBSET Jobs, \A j \in S : jobState[j] = "added", Abort(S)
  PROVE  AddedCountExact' /\ numJobsAddedToProcessor' \in [Managers -> Nat]
<1> DEFINE Old(m) == {i \in JobsOf(m) : jobState[i] = "added"}
           New(m) == {i \in JobsOf(m) : jobState'[i] = "added"}
<1>1. jobState' = [j \in Jobs |-> IF j \in S THEN "aborted" ELSE jobState[j]]
  BY DEF Abort
<1>2. \A m \in Managers : Old(m) = New(m) \cup (S \cap JobsOf(m)) /\ New(m) \cap (S \cap JobsOf(m)) = {}
  BY <1>1
<1>3. \A m \in Managers :
         /\ Cardinality(New(m)) \in Nat /\ Cardinality(S \cap JobsOf(m)) \in Nat
         /\ Cardinality(Old(m)) = Cardinality(New(m)) + Cardinality(S \cap JobsOf(m))
  <2> TAKE m \in Managers
  <2>1. New(m) \in SUBSET Jobs /\ S \cap JobsOf(m) \in SUBSET Jobs
    OBVIOUS
  <2>2. /\ IsFiniteSet(New(m)) /\ IsFiniteSet(S \cap JobsOf(m))
        /\ Cardinality(New(m)) \in Nat /\ Cardinality(S \cap JobsOf(m)) \in Nat
    BY <2>1, FiniteJobs
  <2>3. /\ Old(m) = New(m) \cup (S \cap JobsOf(m))
        /\ New(m) \cap (S \cap JobsOf(m)) = {}
    BY <1>2
  <2> HIDE DEF Old, New
  <2> QED
    BY <2>2, <2>3, DisjointUnion
<1>4. \A m \in Managers : numJobsAddedToProcessor[m] = Cardinality(Old(m))
  BY DEF AddedCountExact
<1>5. numJobsAddedToProcessor' =
         [m \in Managers |-> numJobsAddedToProcessor[m] - Cardinality(S \cap JobsOf(m))]
  BY DEF Abort
<1>6. \A m \in Managers : numJobsAddedToProcessor'[m] = Cardinality(New(m))
  <2> HIDE DEF Old, New
  <2> QED BY <1>3, <1>4, <1>5
<1>7. numJobsAddedToProcessor' \in [Managers -> Nat]
  <2> HIDE DEF Old, New
  <2> QED BY <1>3, <1>5, <1>6
<1> QED
  BY <1>6, <1>7 DEF AddedCountExact

\* A count of zero means that there is no such job.
LEMMA NoneAdded ==
  ASSUME AddedCountExact, NEW m \in Managers
  PROVE  numJobsAddedToProcessor[m] = 0 <=> \A j \in JobsOf(m) : jobState[j] # "added"
<1> DEFINE A == {j \in JobsOf(m) : jobState[j] = "added"}
<1>1. A \in SUBSET Jobs /\ numJobsAddedToProcessor[m] = Cardinality(A)
  BY DEF AddedCountExact
<1>2. numJobsAddedToProcessor[m] = 0 <=> A = {}
  BY <1>1, FiniteJobs, FS_EmptySet
<1> QED
  BY <1>2

-----------------------------------------------------------------------------
(* The steps of a worker.                                                  *)

\* RunExit preserves IndInv.
LEMMA RunExitStep ==
  ASSUME IndInv, NEW w \in Workers, RunExit(w)
  PROVE  IndInv'
<1> USE DEF IndInv, RunExit, AtLoopHead
<1>1. TypeOK'
  BY DEF TypeOK
<1>2. WorkerInv'
  BY DEF TypeOK, WorkerInv
<1>3. ForegroundInv'
  BY DEF ForegroundInv, ForegroundOK, HasQueuedJobs, ForcedInThread
<1>4. ServiceInv'
  BY DEF TypeOK, ServiceInv
<1>5. QueueInv' /\ AddedCountExact' /\ NumJobsCoversQueue'
  BY DEF QueueInv, AddedCountExact, NumJobsCoversQueue
<1>6. AddedInv' /\ CurrentInv' /\ RemovedInv'
  BY DEF AddedInv, CurrentInv, RemovedInv, HeldByWorker, HeldByForeground
<1> QED
  BY <1>1, <1>2, <1>3, <1>4, <1>5, <1>6

\* RunWait preserves IndInv.
LEMMA RunWaitStep ==
  ASSUME IndInv, NEW w \in Workers, RunWait(w)
  PROVE  IndInv'
<1> USE DEF IndInv, RunWait, AtLoopHead, SetWaitingForJobs
<1>1. TypeOK'
  BY DEF TypeOK
<1>2. WorkerInv'
  BY DEF TypeOK, WorkerInv
<1>3. ForegroundInv'
  BY DEF TypeOK, ForegroundInv, ForegroundOK, HasQueuedJobs, ForcedInThread
<1>4. ServiceInv'
  <2> SUFFICES ASSUME HasCallback PROVE ServiceInv'
    BY DEF ServiceInv
  <2>1. \A v \in Workers : wpc'[v] = IF v = w THEN "leaving" ELSE wpc[v]
    BY DEF TypeOK
  <2>2. \A v \in Workers : v # w => wpc[v] \notin {"loop", "processing"}
    BY DEF ServiceInv
  <2> QED
    BY <2>1, <2>2 DEF ServiceInv
<1>5. QueueInv' /\ AddedCountExact' /\ NumJobsCoversQueue'
  BY DEF QueueInv, AddedCountExact, NumJobsCoversQueue
<1>6. AddedInv' /\ CurrentInv' /\ RemovedInv'
  BY DEF AddedInv, CurrentInv, RemovedInv, HeldByWorker, HeldByForeground
<1> QED
  BY <1>1, <1>2, <1>3, <1>4, <1>5, <1>6

\* RunTake preserves IndInv.
LEMMA RunTakeStep ==
  ASSUME IndInv, NEW w \in Workers, RunTake(w)
  PROVE  IndInv'
<1> USE DEF IndInv
<1> PICK j \in jobs.elems :
           /\ TakeFromQueue(j)
           /\ currentJob' = [currentJob EXCEPT ![DataOf(w)] = j]
           /\ wjob' = [wjob EXCEPT ![w] = j]
  BY DEF RunTake
<1>a. jobs' \in ListsOf(Jobs) /\ IsList(jobs') /\ jobs'.elems = jobs.elems \ {j}
  BY UnlinkFacts DEF TakeFromQueue, TypeOK, QueueInv
<1>b. NumJobsCoversQueue' /\ numJobs' \in Nat
  BY QueueDrops DEF TypeOK, ListsOf
<1>c. j \in Jobs /\ jobState[j] = "added" /\ j # None
  BY JobsAssumption DEF TypeOK, ListsOf, QueueInv
<1>d. wjob[w] = None
  BY DEF WorkerInv, RunTake, AtLoopHead
<1>e. \A v \in Workers : wjob[v] # j
  BY <1>c, <1>d DEF WorkerInv
<1>f. \A v \in Workers : /\ wpc'[v] = (IF v = w THEN "processing" ELSE wpc[v])
                         /\ wjob'[v] = (IF v = w THEN j ELSE wjob[v])
  BY DEF TypeOK, RunTake
<1>1. TypeOK'
  BY <1>a, <1>b, <1>c DEF TypeOK, RunTake
<1>2. QueueInv'
  BY <1>a DEF QueueInv, RunTake
<1>3. WorkerInv'
  BY <1>a, <1>c, <1>d, <1>e, <1>f DEF WorkerInv, RunTake
<1>4. ForegroundInv'
  BY <1>a, <1>c, <1>f DEF ForegroundInv, ForegroundOK, HasQueuedJobs, ForcedInThread, RunTake, QueueInv
<1>5. ServiceInv'
  BY <1>f DEF ServiceInv, RunTake, AtLoopHead
<1>6. AddedInv'
  <2> SUFFICES ASSUME NEW i \in Jobs, jobState[i] = "added", i # j
               PROVE  (i \in jobs.elems \/ HeldByWorker(i) # {} \/ HeldByForeground(i) # {})'
    BY <1>f DEF AddedInv, RunTake, HeldByWorker
  <2>1. i \in jobs.elems => i \in jobs'.elems
    BY <1>a
  <2>2. HeldByWorker(i) # {} => HeldByWorker(i)' # {}
    BY <1>d, <1>f, JobsAssumption DEF HeldByWorker
  <2>3. HeldByForeground(i)' = HeldByForeground(i)
    BY DEF HeldByForeground, RunTake
  <2> QED
    BY <2>1, <2>2, <2>3 DEF AddedInv
<1>7. CurrentInv'
  <2>1. \A d \in ThreadData : currentJob'[d] = IF d = DataOf(w) THEN j ELSE currentJob[d]
    BY DEF TypeOK
  <2>2. \A v \in Workers : DataOf(v) = DataOf(w) /\ v # w => wjob[v] = None
    BY DEF ServiceInv, WorkerInv, RunTake, AtLoopHead
  <2> QED
    BY <1>c, <1>d, <1>e, <1>f, <2>1, <2>2, JobsAssumption DEF CurrentInv
<1>8. RemovedInv'
  BY <1>a DEF RemovedInv, RunTake
<1>9. AddedCountExact'
  BY DEF AddedCountExact, RunTake
<1> QED
  BY <1>1, <1>2, <1>3, <1>4, <1>5, <1>6, <1>7, <1>8, <1>9, <1>b

\* RunProcessed preserves IndInv.
LEMMA RunProcessedStep ==
  ASSUME IndInv, NEW w \in Workers, RunProcessed(w)
  PROVE  IndInv'
<1> USE DEF IndInv
<1> DEFINE j == wjob[w]
<1>a. j \in Jobs /\ j # None /\ jobState[j] = "added" /\ j \notin jobs.elems
  BY JobsAssumption DEF RunProcessed, WorkerInv, TypeOK
<1>b. AddedCountExact' /\ numJobsAddedToProcessor' \in [Managers -> Nat]
  BY <1>a, CountDrops DEF RunProcessed, TypeOK
<1>c. \A v \in Workers : /\ wpc'[v] = (IF v = w THEN "loop" ELSE wpc[v])
                         /\ wjob'[v] = (IF v = w THEN None ELSE wjob[v])
                         /\ v # w => wjob[v] # j
  BY <1>a DEF TypeOK, RunProcessed, WorkerInv
<1>d. \A i \in Jobs : jobState'[i] = IF i = j THEN "processed" ELSE jobState[i]
  BY DEF TypeOK, RunProcessed
<1>e. UNCHANGED <<jobs, numJobs, managers, fpc, fjob, fmgr, fwait, isWaitingForJobs>>
  BY DEF RunProcessed
<1>f. wpc[w] = "processing" /\ currentJob' = [currentJob EXCEPT ![DataOf(w)] = None]
  BY DEF RunProcessed
<1> HIDE DEF j
<1>1. TypeOK'
  BY <1>a, <1>b DEF TypeOK, RunProcessed, j
<1>2. QueueInv'
  BY <1>a, <1>d, <1>e DEF QueueInv, TypeOK, ListsOf
<1>3. WorkerInv'
  BY <1>a, <1>c, <1>d, <1>e DEF WorkerInv, TypeOK
<1>4. ForegroundInv'
  <2>1. \A f \in Foregrounds : HasQueuedJobs(f) /\ fpc[f] \in {"proactive", "processProactive"} => FALSE
    BY <1>f DEF ForegroundInv, ForegroundOK, ForcedInThread, ServiceInv
  <2>2. \A f \in Foregrounds : fpc[f] \in {"proactive", "processProactive"} /\ ~fwait[f] =>
           numJobsAddedToProcessor[fmgr[f]] = 0 /\ ManagerOf[j] # fmgr[f]
    <3> TAKE f \in Foregrounds
    <3> HAVE fpc[f] \in {"proactive", "processProactive"} /\ ~fwait[f]
    <3>1. numJobsAddedToProcessor[fmgr[f]] = 0 /\ fmgr[f] \in Managers
      BY <2>1 DEF HasQueuedJobs, ForegroundInv, ForegroundOK, TypeOK
    <3>2. \A i \in JobsOf(fmgr[f]) : jobState[i] # "added"
      BY <3>1, NoneAdded
    <3> QED
      BY <1>a, <3>1, <3>2
  <2>3. \A f \in Foregrounds : fpc[f] \in {"proactive", "processProactive"} => ~HasQueuedJobs(f)'
    BY <1>e, <2>2, JobsAssumption DEF HasQueuedJobs, RunProcessed, DecrementAdded, ForegroundInv, ForegroundOK, TypeOK, j
  <2>4. \A f \in Foregrounds : fpc[f] \in {"process", "processProactive"} => fjob[f] # j /\ fjob[f] \in Jobs
    BY DEF ForegroundInv, ForegroundOK, j, TypeOK
  <2> QED
    BY <1>c, <1>d, <1>e, <2>1, <2>3, <2>4 DEF ForegroundInv, ForegroundOK
<1>5. ServiceInv'
  BY <1>c, <1>e, <1>f DEF ServiceInv
<1>6. AddedInv'
  BY <1>a, <1>c, <1>d, <1>e DEF AddedInv, HeldByWorker, HeldByForeground, j
<1>7. CurrentInv'
  <2>1. \A d \in ThreadData : currentJob'[d] = IF d = DataOf(w) THEN None ELSE currentJob[d]
    BY <1>f DEF TypeOK
  <2>2. \A v \in Workers : DataOf(v) = DataOf(w) /\ v # w => wjob[v] = None
    BY <1>f DEF ServiceInv, WorkerInv
  <2> QED
    BY <1>a, <1>c, <2>1, <2>2, JobsAssumption DEF CurrentInv
<1>8. RemovedInv'
  BY <1>d, <1>e DEF RemovedInv
<1>9. NumJobsCoversQueue'
  BY <1>e DEF NumJobsCoversQueue
<1> QED
  BY <1>1, <1>2, <1>3, <1>4, <1>5, <1>6, <1>7, <1>8, <1>9, <1>b

\* WaitForJobReadyOrShutdown preserves IndInv.
LEMMA WaitForJobReadyOrShutdownStep ==
  ASSUME IndInv, NEW w \in Workers, WaitForJobReadyOrShutdown(w)
  PROVE  IndInv'
<1> USE DEF IndInv, WaitForJobReadyOrShutdown
<1>1. TypeOK'
  BY DEF TypeOK
<1>2. WorkerInv' /\ ServiceInv'
  BY DEF TypeOK, WorkerInv, ServiceInv
<1>3. ForegroundInv'
  BY DEF ForegroundInv, ForegroundOK, HasQueuedJobs, ForcedInThread
<1>4. QueueInv' /\ AddedCountExact' /\ NumJobsCoversQueue'
  BY DEF QueueInv, AddedCountExact, NumJobsCoversQueue
<1>5. AddedInv' /\ CurrentInv' /\ RemovedInv'
  BY DEF AddedInv, CurrentInv, RemovedInv, HeldByWorker, HeldByForeground
<1> QED
  BY <1>1, <1>2, <1>3, <1>4, <1>5

\* RunReenter preserves IndInv.
LEMMA RunReenterStep ==
  ASSUME IndInv, NEW w \in Workers, RunReenter(w)
  PROVE  IndInv'
<1> USE DEF IndInv, RunReenter, SetWaitingForJobs
<1>a. ~HasCallback
  BY DEF ServiceInv
<1>1. TypeOK'
  BY DEF TypeOK
<1>2. WorkerInv' /\ ServiceInv'
  BY <1>a DEF TypeOK, WorkerInv, ServiceInv
<1>3. ForegroundInv'
  BY <1>a DEF ForegroundInv, ForegroundOK, HasQueuedJobs, ForcedInThread
<1>4. QueueInv' /\ AddedCountExact' /\ NumJobsCoversQueue'
  BY DEF QueueInv, AddedCountExact, NumJobsCoversQueue
<1>5. AddedInv' /\ CurrentInv' /\ RemovedInv'
  BY DEF AddedInv, CurrentInv, RemovedInv, HeldByWorker, HeldByForeground
<1> QED
  BY <1>1, <1>2, <1>3, <1>4, <1>5

\* ThreadLeaves preserves IndInv.
LEMMA ThreadLeavesStep ==
  ASSUME IndInv, NEW w \in Workers, ThreadLeaves(w)
  PROVE  IndInv'
<1> USE DEF IndInv, ThreadLeaves
<1>1. TypeOK'
  BY DEF TypeOK
<1>2. WorkerInv' /\ ServiceInv'
  BY DEF TypeOK, WorkerInv, ServiceInv
<1>3. ForegroundInv'
  BY DEF ForegroundInv, ForegroundOK, HasQueuedJobs, ForcedInThread
<1>4. QueueInv' /\ AddedCountExact' /\ NumJobsCoversQueue'
  BY DEF QueueInv, AddedCountExact, NumJobsCoversQueue
<1>5. AddedInv' /\ CurrentInv' /\ RemovedInv'
  BY DEF AddedInv, CurrentInv, RemovedInv, HeldByWorker, HeldByForeground
<1> QED
  BY <1>1, <1>2, <1>3, <1>4, <1>5

-----------------------------------------------------------------------------
(* What the steps of a foreground thread leave alone.                      *)

\* IndicateNewJob starts at most one callback, and only when none is running.
LEMMA IndicateNewJobEffect ==
  ASSUME TypeOK, ServiceInv, IndicateNewJob
  PROVE  /\ isWaitingForJobs' \in [ThreadData -> BOOLEAN]
         /\ threadStartedOrClosing' \in [ThreadData -> BOOLEAN]
         /\ jobReady' \in BOOLEAN
         /\ wpc' \in [Workers -> WorkerStates]
         /\ \A w \in Workers : wpc'[w] = wpc[w] \/ (wpc[w] = "none" /\ wpc'[w] = "loop")
         /\ ServiceInv'
<1>1. CASE UNCHANGED <<isWaitingForJobs, threadStartedOrClosing, jobReady, wpc>>
  BY <1>1 DEF TypeOK, ServiceInv
<1>2. CASE ~HasCallback /\ jobReady' = TRUE
             /\ UNCHANGED <<isWaitingForJobs, threadStartedOrClosing, wpc>>
  BY <1>2 DEF TypeOK, ServiceInv
<1>3. CASE /\ NumberOfThreadsWaitingForJobs # 0
           /\ HasCallback
           /\ threadStartedOrClosing' = [threadStartedOrClosing EXCEPT !["service"] = FALSE]
           /\ InvokeThreadService /\ UNCHANGED jobReady
  <2>1. isWaitingForJobs["service"]
    <3> SUFFICES ASSUME ~isWaitingForJobs["service"] PROVE FALSE
      OBVIOUS
    <3>1. {d \in ThreadData : isWaitingForJobs[d]} = {}
      BY <1>3
    <3> QED
      BY <1>3, <3>1, FS_EmptySet DEF NumberOfThreadsWaitingForJobs
  <2>2. \A w \in Workers : wpc[w] \in {"none", "leaving"}
    BY <1>3, <2>1 DEF ServiceInv
  <2>3. isWaitingForJobs' = [isWaitingForJobs EXCEPT !["service"] = (wpc' = wpc)]
    BY <1>3 DEF InvokeThreadService
  <2>4. CASE wpc' = wpc
    BY <1>3, <2>2, <2>3, <2>4 DEF TypeOK, ServiceInv
  <2>5. CASE \E w \in Workers : wpc[w] = "none" /\ wpc' = [wpc EXCEPT ![w] = "loop"]
    <3> PICK w \in Workers : wpc[w] = "none" /\ wpc' = [wpc EXCEPT ![w] = "loop"]
      BY <2>5
    <3>1. \A v \in Workers : wpc'[v] = IF v = w THEN "loop" ELSE wpc[v]
      BY DEF TypeOK
    <3>2. (wpc' = wpc) = FALSE
      BY <3>1
    <3>3. isWaitingForJobs' \in [ThreadData -> BOOLEAN] /\ ~isWaitingForJobs'["service"]
      BY <1>3, <2>3, <3>2 DEF TypeOK
    <3>4. wpc' \in [Workers -> WorkerStates]
      BY DEF TypeOK
    <3>5. ServiceInv'
      BY <2>2, <3>1, <3>3 DEF ServiceInv
    <3> QED
      BY <1>3, <3>1, <3>3, <3>4, <3>5 DEF TypeOK
  <2> QED
    BY <1>3, <2>4, <2>5 DEF InvokeThreadService, Invoke
<1> QED
  BY <1>1, <1>2, <1>3 DEF IndicateNewJob

\* A step of thread f that only touches jobs and counts of f's managers keeps
\* what the others rely on; with a thread service there are no others.
LEMMA OthersKept ==
  ASSUME IndInv, NEW f \in Foregrounds, NEW g \in Foregrounds, g # f,
         fpc'[g] = fpc[g], fjob'[g] = fjob[g], fmgr'[g] = fmgr[g], fwait'[g] = fwait[g],
         UNCHANGED wjob,
         \A i \in Jobs : Owner[ManagerOf[i]] = g =>
            jobState'[i] = jobState[i] /\ (i \in jobs'.elems => i \in jobs.elems),
         \A m \in Managers : Owner[m] = g =>
            numJobsAddedToProcessor'[m] = numJobsAddedToProcessor[m]
  PROVE  ForegroundOK(g)'
<1>1. ForegroundOK(g) /\ ~HasCallback
  BY JobsAssumption DEF IndInv, ForegroundInv
<1>2. fjob[g] \in Jobs \cup {None} /\ fmgr[g] \in Managers \cup {None}
  BY DEF IndInv, TypeOK
<1>3. fpc[g] \in {"proactive", "processProactive"} => HasQueuedJobs(g)' = HasQueuedJobs(g)
  BY <1>1, <1>2 DEF ForegroundOK, HasQueuedJobs
<1> QED
  BY <1>1, <1>2, <1>3 DEF ForegroundOK, ForcedInThread

\* A job of a manager whose owner is outside its calls, or waits in one, is not
\* in the hands of a foreground thread.
LEMMA NotInForeground ==
  ASSUME IndInv, NEW f \in Foregrounds, fpc[f] \notin {"process", "processProactive"},
         NEW j \in Jobs, Owner[ManagerOf[j]] = f
  PROVE  HeldByForeground(j) = {}
  BY DEF IndInv, ForegroundInv, ForegroundOK, HeldByForeground

\* A job that is not an added one is in no worker's hands and not queued.
LEMMA NotAddedIsFree ==
  ASSUME IndInv, NEW j \in Jobs, jobState[j] # "added"
  PROVE  j \notin jobs.elems /\ \A w \in Workers : wjob[w] # j
  BY JobsAssumption DEF IndInv, WorkerInv, QueueInv

\* An added job of an idle thread that no ThreadData shows is queued.
LEMMA AddedIsQueued ==
  ASSUME IndInv, NEW f \in Foregrounds, fpc[f] \notin {"process", "processProactive"},
         NEW j \in Jobs, Owner[ManagerOf[j]] = f, jobState[j] = "added", ~IsBeingProcessed(j)
  PROVE  j \in jobs.elems
<1>1. HeldByForeground(j) = {}
  BY NotInForeground
<1>2. HeldByWorker(j) = {}
  BY DEF IndInv, CurrentInv, IsBeingProcessed, HeldByWorker
<1> QED
  BY <1>1, <1>2 DEF IndInv, AddedInv

\* Dropping jobs from the queue does not break NumJobsCoversQueue.
LEMMA QueueShrinks ==
  ASSUME jobs.elems \in SUBSET Jobs, numJobs \in Nat, NumJobsCoversQueue,
         jobs'.elems \subseteq jobs.elems, UNCHANGED numJobs
  PROVE  NumJobsCoversQueue'
<1>1. IsFiniteSet(jobs.elems) /\ Cardinality(jobs.elems) \in Nat
  BY FiniteJobs
<1>2. Cardinality(jobs'.elems) \in Nat /\ Cardinality(jobs'.elems) <= Cardinality(jobs.elems)
  BY <1>1, FS_Subset, FS_CardinalityType
<1> QED
  BY <1>1, <1>2 DEF NumJobsCoversQueue

\* A job enters the queue, and numJobs grows with it.
LEMMA QueueGrows ==
  ASSUME jobs.elems \in SUBSET Jobs, numJobs \in Nat, NumJobsCoversQueue,
         NEW j \in Jobs, jobs'.elems = jobs.elems \cup {j}, j \notin jobs.elems,
         numJobs' = numJobs + 1
  PROVE  NumJobsCoversQueue' /\ numJobs' \in Nat
<1>1. IsFiniteSet(jobs.elems) /\ Cardinality(jobs.elems) \in Nat
  BY FiniteJobs
<1>2. Cardinality(jobs'.elems) = Cardinality(jobs.elems) + 1
  BY <1>1, FS_AddElement
<1> QED
  BY <1>1, <1>2 DEF NumJobsCoversQueue

-----------------------------------------------------------------------------
(* The calls of a foreground thread.                                       *)

\* AddManager preserves IndInv.
LEMMA AddManagerStep ==
  ASSUME IndInv, NEW f \in Foregrounds, NEW m \in Managers, AddManager(f, m)
  PROVE  IndInv'
<1> USE DEF IndInv
<1>a. /\ isWaitingForJobs' \in [ThreadData -> BOOLEAN]
      /\ threadStartedOrClosing' \in [ThreadData -> BOOLEAN]
      /\ jobReady' \in BOOLEAN
      /\ wpc' \in [Workers -> WorkerStates]
      /\ \A w \in Workers : wpc'[w] = wpc[w] \/ (wpc[w] = "none" /\ wpc'[w] = "loop")
      /\ ServiceInv'
  BY IndicateNewJobEffect DEF AddManager
<1>b. /\ managers' = managers \cup {m} /\ fpc[f] = "idle"
      /\ UNCHANGED <<lockHolder, jobs, isClosed, numJobs, wakeAllBackgroundThreads,
                   currentJob, managerVars, jobState, wjob, foregroundVars>>
  BY DEF AddManager
<1>1. TypeOK'
  BY <1>a, <1>b DEF TypeOK
<1>2. WorkerInv'
  BY <1>a, <1>b DEF WorkerInv
<1>3. ForegroundInv'
  <2>1. ForegroundOK(f)'
    BY <1>b DEF ForegroundOK
  <2>2. \A g \in Foregrounds : g # f => ForegroundOK(g)'
    BY <1>b, OthersKept
  <2> QED
    BY <2>1, <2>2 DEF ForegroundInv
<1>4. QueueInv' /\ AddedCountExact' /\ NumJobsCoversQueue'
  BY <1>b DEF QueueInv, AddedCountExact, NumJobsCoversQueue
<1>5. AddedInv' /\ CurrentInv' /\ RemovedInv'
  BY <1>b DEF AddedInv, CurrentInv, RemovedInv, HeldByWorker, HeldByForeground
<1> QED
  BY <1>a, <1>1, <1>2, <1>3, <1>4, <1>5

\* AddJob preserves IndInv.
LEMMA AddJobStep ==
  ASSUME IndInv, NEW f \in Foregrounds, NEW j \in Jobs, NEW prioritize \in BOOLEAN,
         AddJob(f, j, prioritize)
  PROVE  IndInv'
<1> USE DEF IndInv
<1>a. /\ isWaitingForJobs' \in [ThreadData -> BOOLEAN]
      /\ threadStartedOrClosing' \in [ThreadData -> BOOLEAN]
      /\ jobReady' \in BOOLEAN
      /\ wpc' \in [Workers -> WorkerStates]
      /\ \A w \in Workers : wpc'[w] = wpc[w] \/ (wpc[w] = "none" /\ wpc'[w] = "loop")
      /\ ServiceInv'
  BY IndicateNewJobEffect DEF AddJob, CountNewJob
<1>b. /\ Owner[ManagerOf[j]] = f /\ fpc[f] = "idle" /\ ManagerOf[j] \in managers
      /\ jobState[j] = "new" /\ jobState' = [jobState EXCEPT ![j] = "added"]
      /\ IncrementAdded(j) /\ Link(j, prioritize) /\ numJobs' = numJobs + 1
      /\ UNCHANGED <<lockHolder, managers, isClosed, wakeAllBackgroundThreads,
                   currentJob, waitVars, wjob, foregroundVars>>
  BY DEF AddJob, CountNewJob, Enqueue
<1>c. j \notin jobs.elems /\ \A w \in Workers : wjob[w] # j
  BY <1>b, NotAddedIsFree
<1>d. jobs' \in ListsOf(Jobs) /\ IsList(jobs') /\ jobs'.elems = jobs.elems \cup {j}
  BY <1>b, <1>c, LinkToEndFacts, LinkToBeginningFacts DEF Link, TypeOK, QueueInv
<1>e. AddedCountExact' /\ numJobsAddedToProcessor' \in [Managers -> Nat]
  BY <1>b, CountAdds DEF TypeOK
<1>f. NumJobsCoversQueue' /\ numJobs' \in Nat
  BY <1>b, <1>c, <1>d, QueueGrows DEF TypeOK, ListsOf
<1>g. \A i \in Jobs : jobState'[i] = IF i = j THEN "added" ELSE jobState[i]
  BY <1>b DEF TypeOK
<1>1. TypeOK'
  BY <1>a, <1>b, <1>d, <1>e, <1>f DEF TypeOK
<1>2. QueueInv'
  BY <1>b, <1>d, <1>g DEF QueueInv, TypeOK, ListsOf
<1>3. WorkerInv'
  BY <1>a, <1>b, <1>c, <1>d, <1>g DEF WorkerInv, TypeOK
<1>4. ForegroundInv'
  <2>1. ForegroundOK(f)'
    BY <1>b DEF ForegroundOK
  <2>2. \A m \in Managers : m # ManagerOf[j] =>
           numJobsAddedToProcessor'[m] = numJobsAddedToProcessor[m]
    BY <1>b DEF IncrementAdded, TypeOK
  <2>3. \A g \in Foregrounds : g # f => ForegroundOK(g)'
    BY <1>b, <1>d, <1>g, <2>2, OthersKept
  <2> QED
    BY <2>1, <2>3 DEF ForegroundInv
<1>5. AddedInv'
  BY <1>b, <1>d, <1>g DEF AddedInv, HeldByWorker, HeldByForeground
<1>6. CurrentInv'
  BY <1>b DEF CurrentInv
<1>7. RemovedInv'
  BY <1>b, <1>d, <1>g DEF RemovedInv
<1> QED
  BY <1>a, <1>e, <1>f, <1>1, <1>2, <1>3, <1>4, <1>5, <1>6, <1>7

\* RemoveJob preserves IndInv.
LEMMA RemoveJobStep ==
  ASSUME IndInv, NEW f \in Foregrounds, NEW j \in Jobs, RemoveJob(f, j)
  PROVE  IndInv'
<1> USE DEF IndInv
<1>b. /\ Owner[ManagerOf[j]] = f /\ fpc[f] = "idle" /\ ManagerOf[j] \in managers
      /\ jobState[j] = "added" /\ ~IsBeingProcessed(j)
      /\ jobState' = [jobState EXCEPT ![j] = "new"]
      /\ DecrementAdded(j) /\ jobs' = Unlink(jobs, {j})
      /\ UNCHANGED <<lockHolder, managers, isClosed, numJobs, eventVars, dataVars,
                   waitVars, workerVars, foregroundVars>>
  BY DEF RemoveJob
<1>c. j \in jobs.elems
  BY <1>b, AddedIsQueued
<1>d. jobs' \in ListsOf(Jobs) /\ IsList(jobs') /\ jobs'.elems = jobs.elems \ {j}
  BY <1>b, UnlinkFacts DEF TypeOK, QueueInv
<1>e. AddedCountExact' /\ numJobsAddedToProcessor' \in [Managers -> Nat]
  BY <1>b, CountDrops DEF TypeOK
<1>f. NumJobsCoversQueue'
  BY <1>b, <1>d, QueueShrinks DEF TypeOK, ListsOf
<1>g. \A i \in Jobs : jobState'[i] = IF i = j THEN "new" ELSE jobState[i]
  BY <1>b DEF TypeOK
<1>1. TypeOK'
  BY <1>b, <1>d, <1>e DEF TypeOK
<1>2. QueueInv'
  BY <1>b, <1>d, <1>g DEF QueueInv, TypeOK, ListsOf
<1>3. WorkerInv'
  <2>1. \A w \in Workers : wjob[w] # j
    BY <1>c, JobsAssumption DEF WorkerInv
  <2>2. UNCHANGED <<wpc, wjob>>
    BY <1>b
  <2> QED
    BY <1>d, <1>g, <2>1, <2>2 DEF WorkerInv, TypeOK
<1>4. ForegroundInv'
  <2>1. ForegroundOK(f)'
    BY <1>b DEF ForegroundOK
  <2>2. \A m \in Managers : m # ManagerOf[j] =>
           numJobsAddedToProcessor'[m] = numJobsAddedToProcessor[m]
    BY <1>b DEF DecrementAdded, TypeOK
  <2>3. ASSUME NEW g \in Foregrounds, g # f PROVE ForegroundOK(g)'
    <3>1. UNCHANGED <<fpc, fjob, fmgr, fwait, wjob>> /\ Owner[ManagerOf[j]] # g
      BY <1>b, <2>3
    <3> QED
      BY <1>d, <1>g, <2>2, <2>3, <3>1, OthersKept
  <2> QED
    BY <2>1, <2>3 DEF ForegroundInv
<1>5. AddedInv'
  BY <1>b, <1>d, <1>g DEF AddedInv, HeldByWorker, HeldByForeground
<1>6. CurrentInv'
  BY <1>b DEF CurrentInv
<1>7. RemovedInv'
  BY <1>b, <1>d, <1>g DEF RemovedInv
<1>8. ServiceInv'
  BY <1>b DEF ServiceInv
<1> QED
  BY <1>e, <1>f, <1>1, <1>2, <1>3, <1>4, <1>5, <1>6, <1>7, <1>8

\* A queued job is taken by thread f, which processes it itself: what
\* PrioritizeJob and PrioritizeJobAndWait do with TakeFromQueue and
\* ProcessInForeground.
LEMMA TakenByForeground ==
  ASSUME IndInv, NEW f \in Foregrounds, fpc[f] = "idle",
         NEW j \in jobs.elems, Owner[ManagerOf[j]] = f,
         TakeFromQueue(j), ProcessInForeground(f, j),
         UNCHANGED <<lockHolder, managers, isClosed, eventVars, dataVars,
                     managerVars, jobState, workerVars>>
  PROVE  IndInv'
<1> USE DEF IndInv
<1>a. j \in Jobs /\ j # None /\ jobState[j] = "added" /\ \A w \in Workers : wjob[w] # j
  BY JobsAssumption DEF TypeOK, ListsOf, QueueInv, WorkerInv
<1>b. jobs' \in ListsOf(Jobs) /\ IsList(jobs') /\ jobs'.elems = jobs.elems \ {j}
  BY UnlinkFacts DEF TakeFromQueue, TypeOK, QueueInv
<1>c. NumJobsCoversQueue' /\ numJobs' \in Nat
  BY QueueDrops DEF TypeOK, ListsOf
<1>d. \A g \in Foregrounds : /\ fpc'[g] = (IF g = f THEN "process" ELSE fpc[g])
                             /\ fjob'[g] = (IF g = f THEN j ELSE fjob[g])
                             /\ fmgr'[g] = fmgr[g] /\ fwait'[g] = fwait[g]
  BY DEF ProcessInForeground, TypeOK
<1>1. TypeOK'
  BY <1>a, <1>b, <1>c DEF TypeOK, ProcessInForeground
<1>2. QueueInv'
  BY <1>b DEF QueueInv
<1>3. WorkerInv'
  BY <1>b DEF WorkerInv
<1>4. ForegroundInv'
  <2>1. ForegroundOK(f)'
    BY <1>a, <1>b, <1>d DEF ForegroundOK
  <2>2. \A g \in Foregrounds : g # f => ForegroundOK(g)'
    BY <1>b, <1>d, OthersKept
  <2> QED
    BY <2>1, <2>2 DEF ForegroundInv
<1>5. ServiceInv' /\ CurrentInv' /\ AddedCountExact'
  BY DEF ServiceInv, CurrentInv, AddedCountExact
<1>6. AddedInv'
  <2> SUFFICES ASSUME NEW i \in Jobs, jobState[i] = "added"
               PROVE  (i \in jobs.elems \/ HeldByWorker(i) # {} \/ HeldByForeground(i) # {})'
    BY DEF AddedInv
  <2>1. CASE i = j
    BY <1>d, <2>1 DEF HeldByForeground
  <2>2. CASE i # j
    <3>1. HeldByForeground(i) # {} => HeldByForeground(i)' # {}
      BY <1>d DEF HeldByForeground
    <3> QED
      BY <1>b, <2>2, <3>1 DEF AddedInv, HeldByWorker
  <2> QED
    BY <2>1, <2>2
<1>7. RemovedInv'
  BY <1>b, <1>d DEF RemovedInv
<1> QED
  BY <1>c, <1>1, <1>2, <1>3, <1>4, <1>5, <1>6, <1>7

\* A queued job is moved to the front, and nothing else that IndInv is about.
LEMMA QueueReordered ==
  ASSUME IndInv, jobs' \in ListsOf(Jobs), IsList(jobs'), jobs'.elems = jobs.elems,
         UNCHANGED <<numJobs, managers, numJobsAddedToProcessor, dataVars, jobState,
                     workerVars>>
  PROVE  QueueInv' /\ WorkerInv' /\ ServiceInv' /\ CurrentInv' /\ AddedCountExact'
            /\ NumJobsCoversQueue'
<1> USE DEF IndInv
<1>1. QueueInv' /\ WorkerInv'
  BY DEF QueueInv, WorkerInv
<1>2. ServiceInv' /\ CurrentInv' /\ AddedCountExact'
  BY DEF ServiceInv, CurrentInv, AddedCountExact
<1>3. NumJobsCoversQueue'
  BY DEF NumJobsCoversQueue
<1> QED
  BY <1>1, <1>2, <1>3

\* PrioritizeJob preserves IndInv.
LEMMA PrioritizeJobStep ==
  ASSUME IndInv, NEW f \in Foregrounds, NEW j \in Jobs, PrioritizeJob(f, j)
  PROVE  IndInv'
<1> USE DEF IndInv
<1>a. /\ Owner[ManagerOf[j]] = f /\ fpc[f] = "idle"
      /\ jobState[j] = "added" /\ ~IsBeingProcessed(j)
      /\ UNCHANGED <<lockHolder, managers, isClosed, eventVars, dataVars,
                     managerVars, jobState, workerVars>>
  BY DEF PrioritizeJob
<1>b. j \in jobs.elems
  BY <1>a, AddedIsQueued
<1>1. CASE TakeFromQueue(j) /\ ProcessInForeground(f, j)
  BY <1>a, <1>b, <1>1, TakenByForeground
<1>2. CASE jobs' = MoveToBeginning(jobs, j) /\ UNCHANGED <<numJobs, foregroundVars>>
  <2>1. jobs' \in ListsOf(Jobs) /\ IsList(jobs') /\ jobs'.elems = jobs.elems
    BY <1>b, <1>2, MoveToBeginningFacts DEF TypeOK, QueueInv
  <2>2. TypeOK'
    BY <1>a, <1>2, <2>1 DEF TypeOK
  <2>3. ForegroundInv'
    BY <1>a, <1>2, <2>1 DEF ForegroundInv, ForegroundOK, HasQueuedJobs, ForcedInThread
  <2>4. AddedInv' /\ RemovedInv'
    BY <1>a, <1>2, <2>1 DEF AddedInv, HeldByWorker, HeldByForeground, RemovedInv
  <2> QED
    BY <1>a, <1>2, <2>1, <2>2, <2>3, <2>4, QueueReordered
<1> QED
  BY <1>1, <1>2 DEF PrioritizeJob

\* PrioritizeJobAndWait preserves IndInv.
LEMMA PrioritizeJobAndWaitStep ==
  ASSUME IndInv, NEW f \in Foregrounds, NEW j \in Jobs, PrioritizeJobAndWait(f, j)
  PROVE  IndInv'
<1> USE DEF IndInv
<1>a. /\ Owner[ManagerOf[j]] = f /\ fpc[f] = "idle" /\ jobState[j] = "added"
      /\ UNCHANGED <<lockHolder, managers, isClosed, eventVars, dataVars,
                     numJobsAddedToProcessor, jobState, workerVars>>
  BY DEF PrioritizeJobAndWait
<1>1. CASE /\ ~IsBeingProcessed(j) /\ TakeFromQueue(j) /\ ProcessInForeground(f, j)
           /\ UNCHANGED waitVars
  <2>1. j \in jobs.elems
    BY <1>a, <1>1, AddedIsQueued
  <2> QED
    BY <1>a, <1>1, <2>1, TakenByForeground
<1>2. CASE /\ jobs' = IF IsBeingProcessed(j) THEN jobs ELSE MoveToBeginning(jobs, j)
           /\ jobBeingWaitedUpon' = [jobBeingWaitedUpon EXCEPT ![ManagerOf[j]] = j]
           /\ jobBeingWaitedUponProcessed' =
                 [jobBeingWaitedUponProcessed EXCEPT ![ManagerOf[j]] = FALSE]
           /\ Goto(f, "waitJob")
           /\ fjob' = [fjob EXCEPT ![f] = j]
           /\ UNCHANGED <<numJobs, isWaitingForQueuedJobs, queuedJobsProcessed,
                          fmgr, fwait>>
  <2>1. jobs' \in ListsOf(Jobs) /\ IsList(jobs') /\ jobs'.elems = jobs.elems
    BY <1>a, <1>2, AddedIsQueued, MoveToBeginningFacts DEF TypeOK, QueueInv
  <2>2. TypeOK'
    BY <1>a, <1>2, <2>1 DEF TypeOK
  <2>3. \A g \in Foregrounds : /\ fpc'[g] = (IF g = f THEN "waitJob" ELSE fpc[g])
                               /\ fjob'[g] = (IF g = f THEN j ELSE fjob[g])
                               /\ fmgr'[g] = fmgr[g] /\ fwait'[g] = fwait[g]
    BY <1>2 DEF TypeOK
  <2>4. ForegroundInv'
    <3>1. ForegroundOK(f)'
      BY <1>a, <2>3, JobsAssumption DEF ForegroundOK
    <3>2. \A g \in Foregrounds : g # f => ForegroundOK(g)'
      BY <1>a, <2>1, <2>3, OthersKept
    <3> QED
      BY <3>1, <3>2 DEF ForegroundInv
  <2>5. AddedInv'
    <3>1. \A i \in Jobs : HeldByForeground(i) # {} => HeldByForeground(i)' # {}
      BY <1>a, <2>3 DEF HeldByForeground
    <3> QED
      BY <1>a, <2>1, <3>1 DEF AddedInv, HeldByWorker
  <2>6. RemovedInv'
    BY <1>a, <2>1, <2>3 DEF RemovedInv
  <2> QED
    BY <1>a, <1>2, <2>1, <2>2, <2>4, <2>5, <2>6, QueueReordered
<1> QED
  BY <1>1, <1>2 DEF PrioritizeJobAndWait

\* PrioritizeNewJobAndWait preserves IndInv.
LEMMA PrioritizeNewJobAndWaitStep ==
  ASSUME IndInv, NEW f \in Foregrounds, NEW j \in Jobs, PrioritizeNewJobAndWait(f, j)
  PROVE  IndInv'
<1> USE DEF IndInv
<1>a. /\ isWaitingForJobs' \in [ThreadData -> BOOLEAN]
      /\ threadStartedOrClosing' \in [ThreadData -> BOOLEAN]
      /\ jobReady' \in BOOLEAN
      /\ wpc' \in [Workers -> WorkerStates]
      /\ \A w \in Workers : wpc'[w] = wpc[w] \/ (wpc[w] = "none" /\ wpc'[w] = "loop")
      /\ ServiceInv'
  BY IndicateNewJobEffect DEF PrioritizeNewJobAndWait, CountNewJob
<1>b. /\ Owner[ManagerOf[j]] = f /\ fpc[f] = "idle" /\ ManagerOf[j] \in managers
      /\ jobState[j] = "new" /\ jobState' = [jobState EXCEPT ![j] = "added"]
      /\ IncrementAdded(j) /\ ProcessInForeground(f, j)
      /\ UNCHANGED <<lockHolder, processorVars, wakeAllBackgroundThreads,
                   currentJob, waitVars, wjob>>
  BY DEF PrioritizeNewJobAndWait, CountNewJob
<1>c. j # None /\ j \notin jobs.elems /\ \A w \in Workers : wjob[w] # j
  BY <1>b, NotAddedIsFree, JobsAssumption
<1>d. AddedCountExact' /\ numJobsAddedToProcessor' \in [Managers -> Nat]
  BY <1>b, CountAdds DEF TypeOK
<1>e. \A i \in Jobs : jobState'[i] = IF i = j THEN "added" ELSE jobState[i]
  BY <1>b DEF TypeOK
<1>f. \A g \in Foregrounds : /\ fpc'[g] = (IF g = f THEN "process" ELSE fpc[g])
                             /\ fjob'[g] = (IF g = f THEN j ELSE fjob[g])
                             /\ fmgr'[g] = fmgr[g] /\ fwait'[g] = fwait[g]
  BY <1>b DEF ProcessInForeground, TypeOK
<1>g. UNCHANGED <<jobs, numJobs, managers, wjob, currentJob>>
  BY <1>b
<1>1. TypeOK'
  BY <1>a, <1>b, <1>d DEF TypeOK, ProcessInForeground
<1>2. QueueInv'
  BY <1>e, <1>g DEF QueueInv, TypeOK, ListsOf
<1>3. WorkerInv'
  BY <1>a, <1>c, <1>e, <1>g DEF WorkerInv, TypeOK
<1>4. ForegroundInv'
  <2>1. ForegroundOK(f)'
    BY <1>b, <1>c, <1>e, <1>f, <1>g DEF ForegroundOK
  <2>2. \A m \in Managers : m # ManagerOf[j] =>
           numJobsAddedToProcessor'[m] = numJobsAddedToProcessor[m]
    BY <1>b DEF IncrementAdded, TypeOK
  <2>3. ASSUME NEW g \in Foregrounds, g # f PROVE ForegroundOK(g)'
    <3>1. Owner[ManagerOf[j]] # g
      BY <1>b, <2>3
    <3> QED
      BY <1>e, <1>f, <1>g, <2>2, <2>3, <3>1, OthersKept
  <2> QED
    BY <2>1, <2>3 DEF ForegroundInv
<1>5. AddedInv'
  <2> SUFFICES ASSUME NEW i \in Jobs, jobState'[i] = "added"
               PROVE  (i \in jobs.elems \/ HeldByWorker(i) # {} \/ HeldByForeground(i) # {})'
    BY DEF AddedInv
  <2>1. CASE i = j
    BY <1>f, <2>1 DEF HeldByForeground
  <2>2. CASE i # j
    <3>1. HeldByForeground(i) # {} => HeldByForeground(i)' # {}
      BY <1>b, <1>f DEF HeldByForeground
    <3> QED
      BY <1>e, <1>g, <2>2, <3>1 DEF AddedInv, HeldByWorker
  <2> QED
    BY <2>1, <2>2
<1>6. CurrentInv' /\ NumJobsCoversQueue'
  BY <1>g DEF CurrentInv, NumJobsCoversQueue
<1>7. RemovedInv'
  BY <1>b, <1>e, <1>f, <1>g DEF RemovedInv
<1> QED
  BY <1>a, <1>d, <1>1, <1>2, <1>3, <1>4, <1>5, <1>6, <1>7

-----------------------------------------------------------------------------
(* The steps inside a call, and the calls that wait.                       *)

\* A step that only moves thread f, which processes no job, or reorders the queue.
LEMMA ForegroundMoves ==
  ASSUME IndInv, NEW f \in Foregrounds, fpc[f] \notin {"process", "processProactive"},
         TypeOK', IsList(jobs'), jobs'.elems = jobs.elems,
         UNCHANGED <<numJobs, managers, numJobsAddedToProcessor, dataVars, jobState,
                     workerVars>>,
         \A g \in Foregrounds : g # f =>
            /\ fpc'[g] = fpc[g] /\ fjob'[g] = fjob[g]
            /\ fmgr'[g] = fmgr[g] /\ fwait'[g] = fwait[g],
         ForegroundOK(f)',
         fpc[f] \notin {"removing", "removeWait"} \/ RemovedInv'
  PROVE  IndInv'
<1> USE DEF IndInv
<1>1. ForegroundInv'
  <2>1. \A g \in Foregrounds : g # f => ForegroundOK(g)'
    BY OthersKept
  <2> QED
    BY <2>1 DEF ForegroundInv
<1>2. AddedInv'
  <2>1. \A i \in Jobs : HeldByForeground(i) # {} => HeldByForeground(i)' # {}
    BY DEF HeldByForeground
  <2> QED
    BY <2>1 DEF AddedInv, HeldByWorker
<1>3. RemovedInv'
  BY DEF RemovedInv
<1>4. QueueInv' /\ WorkerInv' /\ ServiceInv' /\ CurrentInv' /\ AddedCountExact'
            /\ NumJobsCoversQueue'
  BY QueueReordered DEF TypeOK
<1> QED
  BY <1>1, <1>2, <1>3, <1>4

\* WaitJobReturns preserves IndInv.
LEMMA WaitJobReturnsStep ==
  ASSUME IndInv, NEW f \in Foregrounds, WaitJobReturns(f)
  PROVE  IndInv'
<1> USE DEF WaitJobReturns
<1>1. TypeOK'
  BY DEF IndInv, TypeOK
<1>2. ForegroundOK(f)'
  BY DEF IndInv, TypeOK, ForegroundOK
<1>3. IsList(jobs') /\ \A g \in Foregrounds : g # f =>
            /\ fpc'[g] = fpc[g] /\ fjob'[g] = fjob[g]
            /\ fmgr'[g] = fmgr[g] /\ fwait'[g] = fwait[g]
  BY DEF IndInv, TypeOK, QueueInv
<1> QED
  BY <1>1, <1>2, <1>3, ForegroundMoves

\* PrioritizeManagerAndWait preserves IndInv.
LEMMA PrioritizeManagerAndWaitStep ==
  ASSUME IndInv, NEW f \in Foregrounds, NEW m \in Managers, PrioritizeManagerAndWait(f, m)
  PROVE  IndInv'
<1> DEFINE queued == numJobsAddedToProcessor[m] # 0
           wait == queued /\ ~(HasCallback /\ AreAllThreadsWaitingForJobs)
<1>a. /\ Owner[m] = f /\ fpc[f] = "idle"
      /\ jobs' = IF queued THEN MoveSetToBeginning(jobs, JobsOf(m)) ELSE jobs
      /\ isWaitingForQueuedJobs' = [isWaitingForQueuedJobs EXCEPT ![m] = @ \/ queued]
      /\ queuedJobsProcessed' = [queuedJobsProcessed EXCEPT ![m] = @ /\ ~queued]
      /\ fwait' = [fwait EXCEPT ![f] = wait]
      /\ fmgr' = [fmgr EXCEPT ![f] = m]
      /\ fpc' = [fpc EXCEPT ![f] = IF wait THEN "waitQueued" ELSE "proactive"]
      /\ UNCHANGED <<lockHolder, managers, isClosed, numJobs, eventVars, dataVars,
                     numJobsAddedToProcessor, jobBeingWaitedUpon,
                     jobBeingWaitedUponProcessed, jobState, workerVars, fjob>>
  BY DEF PrioritizeManagerAndWait
<1>b. queued \in BOOLEAN /\ wait \in BOOLEAN
  OBVIOUS
<1>c. queued /\ ~wait => ForcedInThread
  BY DEF ForcedInThread, AreAllThreadsWaitingForJobs
<1>d. wait => queued
  OBVIOUS
<1>e. queued <=> numJobsAddedToProcessor[m] # 0
  OBVIOUS
<1> HIDE DEF queued, wait
<1>1. jobs' \in ListsOf(Jobs) /\ IsList(jobs') /\ jobs'.elems = jobs.elems
  BY <1>a, MoveSetToBeginningFacts DEF IndInv, TypeOK, QueueInv
<1>2. fwait' \in [Foregrounds -> BOOLEAN] /\ queuedJobsProcessed' \in [Managers -> BOOLEAN]
         /\ isWaitingForQueuedJobs' \in [Managers -> BOOLEAN]
  BY <1>a, <1>b DEF IndInv, TypeOK
<1>3. TypeOK'
  BY <1>a, <1>1, <1>2 DEF IndInv, TypeOK
<1>4. /\ fpc'[f] = IF wait THEN "waitQueued" ELSE "proactive"
      /\ fmgr'[f] = m /\ fwait'[f] = wait
  BY <1>a DEF IndInv, TypeOK
<1>5. ForegroundOK(f)'
  BY <1>a, <1>b, <1>c, <1>d, <1>e, <1>4, JobsAssumption
     DEF ForegroundOK, HasQueuedJobs, ForcedInThread
<1>6. \A g \in Foregrounds : g # f =>
            /\ fpc'[g] = fpc[g] /\ fjob'[g] = fjob[g]
            /\ fmgr'[g] = fmgr[g] /\ fwait'[g] = fwait[g]
  BY <1>a DEF IndInv, TypeOK
<1>7. UNCHANGED <<numJobs, managers, numJobsAddedToProcessor, dataVars, jobState,
                  workerVars>> /\ fpc[f] = "idle"
  BY <1>a
<1> QED
  BY <1>1, <1>3, <1>5, <1>6, <1>7, ForegroundMoves

\* WaitQueuedReturns preserves IndInv.
LEMMA WaitQueuedReturnsStep ==
  ASSUME IndInv, NEW f \in Foregrounds, WaitQueuedReturns(f)
  PROVE  IndInv'
<1>a. /\ fpc[f] = "waitQueued"
      /\ \/ fpc' = [fpc EXCEPT ![f] = "proactive"] /\ fmgr' = fmgr
         \/ fpc' = [fpc EXCEPT ![f] = "idle"] /\ fmgr' = [fmgr EXCEPT ![f] = None]
      /\ isWaitingForQueuedJobs' = [isWaitingForQueuedJobs EXCEPT ![fmgr[f]] = FALSE]
      /\ UNCHANGED <<lockHolder, processorVars, eventVars, dataVars,
                     numJobsAddedToProcessor, jobBeingWaitedUpon,
                     jobBeingWaitedUponProcessed, queuedJobsProcessed, jobState,
                     workerVars, fjob, fwait>>
  BY DEF WaitQueuedReturns, ClearQueuedWait
<1>b. ForegroundOK(f) /\ TypeOK /\ IsList(jobs)
  BY DEF IndInv, ForegroundInv, QueueInv
<1>c. fmgr' \in [Foregrounds -> Managers \cup {None}] /\ fpc' \in [Foregrounds -> ForegroundStates]
  BY <1>a, <1>b DEF TypeOK
<1>1. TypeOK'
  BY <1>a, <1>b, <1>c DEF TypeOK
<1>2. fpc'[f] \in {"proactive", "idle"} /\ (fpc'[f] = "proactive" => fmgr'[f] = fmgr[f])
  BY <1>a, <1>b DEF TypeOK
<1>3. ForegroundOK(f)'
  BY <1>a, <1>b, <1>2 DEF ForegroundOK, HasQueuedJobs
<1>4. \A g \in Foregrounds : g # f =>
            /\ fpc'[g] = fpc[g] /\ fjob'[g] = fjob[g]
            /\ fmgr'[g] = fmgr[g] /\ fwait'[g] = fwait[g]
  BY <1>a, <1>b DEF TypeOK
<1>5. UNCHANGED <<numJobs, managers, numJobsAddedToProcessor, dataVars, jobState,
                  workerVars, jobs>> /\ fpc[f] = "waitQueued"
  BY <1>a
<1> QED
  BY <1>b, <1>1, <1>3, <1>4, <1>5, ForegroundMoves

\* ProactiveEnds preserves IndInv.
LEMMA ProactiveEndsStep ==
  ASSUME IndInv, NEW f \in Foregrounds, ProactiveEnds(f)
  PROVE  IndInv'
<1> USE DEF ProactiveEnds
<1>1. TypeOK'
  BY DEF IndInv, TypeOK
<1>2. ForegroundOK(f)'
  BY DEF IndInv, TypeOK, ForegroundOK
<1>3. IsList(jobs') /\ \A g \in Foregrounds : g # f =>
            /\ fpc'[g] = fpc[g] /\ fjob'[g] = fjob[g]
            /\ fmgr'[g] = fmgr[g] /\ fwait'[g] = fwait[g]
  BY DEF IndInv, TypeOK, QueueInv
<1> QED
  BY <1>1, <1>2, <1>3, ForegroundMoves

\* RemoveManagerWait preserves IndInv.
LEMMA RemoveManagerWaitStep ==
  ASSUME IndInv, NEW f \in Foregrounds, RemoveManagerWait(f)
  PROVE  IndInv'
<1> DEFINE m == fmgr[f]
<1>a. /\ fpc[f] \in {"removing", "removeWait"}
      /\ UNCHANGED <<lockHolder, processorVars, eventVars, dataVars,
                     numJobsAddedToProcessor, isWaitingForQueuedJobs,
                     queuedJobsProcessed, jobState, workerVars, fjob, fwait>>
  BY DEF RemoveManagerWait
<1>b. TypeOK /\ IsList(jobs) /\ ForegroundOK(f)
  BY DEF IndInv, QueueInv, ForegroundInv
<1>c. m \in Managers /\ Owner[m] = f
  BY <1>a, <1>b DEF ForegroundOK, TypeOK
<1>1. CASE \E j \in GetCurrentJobsOfManager(m) :
             /\ jobBeingWaitedUpon' = [jobBeingWaitedUpon EXCEPT ![m] = j]
             /\ jobBeingWaitedUponProcessed' =
                   [jobBeingWaitedUponProcessed EXCEPT ![m] = FALSE]
             /\ fpc' = [fpc EXCEPT ![f] = "removeWait"] /\ UNCHANGED fmgr
  <2>1. TypeOK'
    BY <1>a, <1>b, <1>c, <1>1 DEF TypeOK, GetCurrentJobsOfManager
  <2>2. \A g \in Foregrounds : /\ fpc'[g] = (IF g = f THEN "removeWait" ELSE fpc[g])
                               /\ fjob'[g] = fjob[g] /\ fmgr'[g] = fmgr[g] /\ fwait'[g] = fwait[g]
    BY <1>a, <1>b, <1>1 DEF TypeOK
  <2>3. ForegroundOK(f)'
    BY <1>a, <1>b, <2>2 DEF ForegroundOK
  <2>4. RemovedInv'
    BY <1>a, <2>2 DEF IndInv, RemovedInv
  <2> QED
    BY <1>a, <1>b, <2>1, <2>2, <2>3, <2>4, ForegroundMoves
<1>2. CASE /\ GetCurrentJobsOfManager(m) = {}
           /\ jobBeingWaitedUpon' = [jobBeingWaitedUpon EXCEPT ![m] = None]
           /\ UNCHANGED jobBeingWaitedUponProcessed
           /\ fpc' = [fpc EXCEPT ![f] = "idle"]
           /\ fmgr' = [fmgr EXCEPT ![f] = None]
  <2>1. TypeOK'
    BY <1>a, <1>b, <1>c, <1>2 DEF TypeOK
  <2>2. \A g \in Foregrounds : /\ fpc'[g] = (IF g = f THEN "idle" ELSE fpc[g])
                               /\ fmgr'[g] = (IF g = f THEN None ELSE fmgr[g])
                               /\ fjob'[g] = fjob[g] /\ fwait'[g] = fwait[g]
    BY <1>a, <1>b, <1>2 DEF TypeOK
  <2>3. ForegroundOK(f)'
    BY <2>2 DEF ForegroundOK
  <2>4. RemovedInv'
    <3>1. m \notin managers => \A j \in JobsOf(m) : jobState[j] # "added"
      <4> SUFFICES ASSUME m \notin managers, NEW j \in JobsOf(m), jobState[j] = "added"
                   PROVE  FALSE
        OBVIOUS
      <4>1. ~IsBeingProcessed(j)
        BY <1>2 DEF GetCurrentJobsOfManager
      <4>2. j \in jobs.elems
        BY <1>a, <1>c, <4>1, AddedIsQueued
      <4> QED
        BY <1>c, <4>2 DEF IndInv, RemovedInv
    <3> HIDE DEF m
    <3>2. ASSUME NEW n \in Managers \ managers, n # m
          PROVE  \/ \E g \in Foregrounds : fmgr'[g] = n /\ fpc'[g] \in {"removing", "removeWait"}
                 \/ \A j \in JobsOf(n) : jobState[j] # "added"
      BY <2>2, <3>2 DEF IndInv, RemovedInv, m
    <3> QED
      BY <1>a, <3>1, <3>2 DEF IndInv, RemovedInv
  <2> QED
    BY <1>a, <1>b, <2>1, <2>2, <2>3, <2>4, ForegroundMoves
<1> QED
  BY <1>1, <1>2 DEF RemoveManagerWait

\* CloseWakesAll preserves IndInv.
LEMMA CloseWakesAllStep ==
  ASSUME IndInv, NEW f \in Foregrounds, CloseWakesAll(f)
  PROVE  IndInv'
<1> USE DEF CloseWakesAll, WakeAll
<1>1. TypeOK'
  BY DEF IndInv, TypeOK
<1>2. ForegroundOK(f)'
  BY DEF IndInv, TypeOK, ForegroundOK
<1>3. IsList(jobs') /\ \A g \in Foregrounds : g # f =>
            /\ fpc'[g] = fpc[g] /\ fjob'[g] = fjob[g]
            /\ fmgr'[g] = fmgr[g] /\ fwait'[g] = fwait[g]
  BY DEF IndInv, TypeOK, QueueInv
<1> QED
  BY <1>1, <1>2, <1>3, ForegroundMoves

\* The end of Close's wait, and the return from Close, preserve IndInv.
LEMMA CloseEndsStep ==
  ASSUME IndInv, NEW f \in Foregrounds,
         WaitWithAllThreadsForThreadStartedOrClosingEvent(f) \/ CloseReturns(f)
  PROVE  IndInv'
<1> USE DEF WaitWithAllThreadsForThreadStartedOrClosingEvent, CloseReturns
<1>1. TypeOK'
  BY DEF IndInv, TypeOK
<1>2. ForegroundOK(f)'
  BY DEF IndInv, TypeOK, ForegroundOK
<1>3. IsList(jobs') /\ \A g \in Foregrounds : g # f =>
            /\ fpc'[g] = fpc[g] /\ fjob'[g] = fjob[g]
            /\ fmgr'[g] = fmgr[g] /\ fwait'[g] = fwait[g]
  BY DEF IndInv, TypeOK, QueueInv
<1> QED
  BY <1>1, <1>2, <1>3, ForegroundMoves

\* A job leaves the hands of thread f, and of everybody.
LEMMA ForegroundProcessedStep ==
  ASSUME IndInv, NEW f \in Foregrounds, ForegroundProcessed(f)
  PROVE  IndInv'
<1> USE DEF IndInv
<1> DEFINE j == fjob[f]
<1>a. fpc[f] = "process" /\ ForegroundOK(f)
  BY DEF ForegroundProcessed, ForegroundInv
<1>b. /\ j \in Jobs /\ jobState[j] = "added" /\ Owner[ManagerOf[j]] = f
      /\ j \notin jobs.elems /\ \A w \in Workers : wjob[w] # j
  BY <1>a DEF ForegroundOK, TypeOK
<1>c. /\ jobState' = [jobState EXCEPT ![j] = "processed"] /\ DecrementAdded(j)
      /\ fpc' = [fpc EXCEPT ![f] = "idle"] /\ fjob' = [fjob EXCEPT ![f] = None]
      /\ UNCHANGED <<lockHolder, processorVars, eventVars, dataVars, waitVars,
                     workerVars, fmgr, fwait>>
  BY DEF ForegroundProcessed
<1> HIDE DEF j
<1>d. AddedCountExact' /\ numJobsAddedToProcessor' \in [Managers -> Nat]
  BY <1>b, <1>c, CountDrops DEF TypeOK
<1>e. \A i \in Jobs : jobState'[i] = IF i = j THEN "processed" ELSE jobState[i]
  BY <1>c DEF TypeOK
<1>f. \A g \in Foregrounds : /\ fpc'[g] = (IF g = f THEN "idle" ELSE fpc[g])
                             /\ fjob'[g] = (IF g = f THEN None ELSE fjob[g])
                             /\ fmgr'[g] = fmgr[g] /\ fwait'[g] = fwait[g]
  BY <1>c DEF TypeOK
<1>g. UNCHANGED <<jobs, numJobs, managers, wjob, wpc, currentJob, isWaitingForJobs>>
  BY <1>c
<1>1. TypeOK'
  BY <1>c, <1>d DEF TypeOK
<1>2. QueueInv'
  BY <1>b, <1>e, <1>g DEF QueueInv, TypeOK, ListsOf
<1>3. WorkerInv'
  BY <1>b, <1>e, <1>g DEF WorkerInv, TypeOK
<1>4. ForegroundInv'
  <2>1. ForegroundOK(f)'
    BY <1>f DEF ForegroundOK
  <2>2. \A m \in Managers : m # ManagerOf[j] =>
           numJobsAddedToProcessor'[m] = numJobsAddedToProcessor[m]
    BY <1>c DEF DecrementAdded, TypeOK
  <2>3. ASSUME NEW g \in Foregrounds, g # f PROVE ForegroundOK(g)'
    BY <1>b, <1>e, <1>f, <1>g, <2>2, <2>3, OthersKept
  <2> QED
    BY <2>1, <2>3 DEF ForegroundInv
<1>5. AddedInv'
  <2> SUFFICES ASSUME NEW i \in Jobs, i # j, jobState[i] = "added"
               PROVE  (i \in jobs.elems \/ HeldByWorker(i) # {} \/ HeldByForeground(i) # {})'
    BY <1>e DEF AddedInv
  <2>1. HeldByForeground(i) # {} => HeldByForeground(i)' # {}
    BY <1>f DEF HeldByForeground, j
  <2> QED
    BY <1>g, <2>1 DEF AddedInv, HeldByWorker
<1>6. CurrentInv' /\ NumJobsCoversQueue' /\ ServiceInv'
  BY <1>g DEF CurrentInv, NumJobsCoversQueue, ServiceInv
<1>7. RemovedInv'
  BY <1>a, <1>e, <1>f, <1>g DEF RemovedInv
<1> QED
  BY <1>d, <1>1, <1>2, <1>3, <1>4, <1>5, <1>6, <1>7

\* When jobs of the manager are counted and the thread did not wait, no worker
\* is running (ForcedInThread), so they are all queued: a job that the manager
\* held back is only taken when none is counted.
LEMMA ProactiveTakeStep ==
  ASSUME IndInv, NEW f \in Foregrounds, ProactiveTake(f)
  PROVE  IndInv'
<1> USE DEF IndInv
<1>a. fpc[f] = "proactive" /\ ForegroundOK(f)
  BY DEF ProactiveTake, ForegroundInv
<1>b. fmgr[f] \in Managers /\ Owner[fmgr[f]] = f /\ (HasQueuedJobs(f) => ForcedInThread)
  BY <1>a DEF ForegroundOK, TypeOK
<1> PICK j \in JobsOf(fmgr[f]) :
       /\ j \in QueuedForProactive(f) \/ (jobState[j] = "new" /\ QueuedForProactive(f) = {})
       /\ jobs' = Unlink(jobs, {j})
       /\ fjob' = [fjob EXCEPT ![f] = j]
  BY DEF ProactiveTake
<1>c. /\ fpc' = [fpc EXCEPT ![f] = "processProactive"]
      /\ UNCHANGED <<lockHolder, managers, isClosed, numJobs, eventVars, dataVars,
                   managerVars, jobState, workerVars, fmgr, fwait>>
  BY DEF ProactiveTake
<1>d. jobState[j] = (IF HasQueuedJobs(f) THEN "added" ELSE "new")
         /\ (jobState[j] = "added" => j \in jobs.elems)
  <2>1. CASE j \in QueuedForProactive(f)
    BY <2>1 DEF QueuedForProactive, QueueInv
  <2>2. CASE jobState[j] = "new" /\ QueuedForProactive(f) = {}
    <3> SUFFICES ASSUME HasQueuedJobs(f) PROVE FALSE
      BY <2>2
    <3>1. PICK i \in JobsOf(fmgr[f]) : jobState[i] = "added"
      BY <1>b, NoneAdded DEF HasQueuedJobs
    <3>2. HeldByWorker(i) = {}
      BY <1>b, JobsAssumption DEF ServiceInv, ForcedInThread, WorkerInv, HeldByWorker
    <3>3. HeldByForeground(i) = {}
      BY <1>a, <1>b, NotInForeground
    <3>4. i \in jobs.elems
      BY <3>1, <3>2, <3>3 DEF AddedInv
    <3> QED
      BY <2>2, <3>4 DEF QueuedForProactive
  <2> QED
    BY <2>1, <2>2
<1>e. j \in Jobs /\ j # None /\ ManagerOf[j] = fmgr[f] /\ \A w \in Workers : wjob[w] # j
  BY <1>d, JobsAssumption DEF WorkerInv
<1>f. jobs' \in ListsOf(Jobs) /\ IsList(jobs') /\ jobs'.elems = jobs.elems \ {j}
  BY UnlinkFacts DEF TypeOK, QueueInv
<1>g. \A g \in Foregrounds : /\ fpc'[g] = (IF g = f THEN "processProactive" ELSE fpc[g])
                             /\ fjob'[g] = (IF g = f THEN j ELSE fjob[g])
                             /\ fmgr'[g] = fmgr[g] /\ fwait'[g] = fwait[g]
  BY <1>c DEF TypeOK
<1>h. UNCHANGED <<numJobs, managers, numJobsAddedToProcessor, wjob, wpc, jobState,
                  currentJob, isWaitingForJobs>>
  BY <1>c
<1>1. TypeOK'
  BY <1>c, <1>e, <1>f DEF TypeOK
<1>2. QueueInv'
  BY <1>f, <1>h DEF QueueInv
<1>3. WorkerInv'
  BY <1>f, <1>h DEF WorkerInv
<1>4. ForegroundInv'
  <2>1. HasQueuedJobs(f)' = HasQueuedJobs(f) /\ ForcedInThread' = ForcedInThread
    BY <1>g, <1>h DEF HasQueuedJobs, ForcedInThread
  <2>2. ForegroundOK(f)'
    BY <1>a, <1>b, <1>d, <1>e, <1>f, <1>g, <1>h, <2>1 DEF ForegroundOK
  <2>3. ASSUME NEW g \in Foregrounds, g # f PROVE ForegroundOK(g)'
    BY <1>f, <1>g, <1>h, <2>3, OthersKept
  <2> QED
    BY <2>2, <2>3 DEF ForegroundInv
<1>5. AddedInv'
  <2> SUFFICES ASSUME NEW i \in Jobs, jobState[i] = "added"
               PROVE  (i \in jobs.elems \/ HeldByWorker(i) # {} \/ HeldByForeground(i) # {})'
    BY <1>h DEF AddedInv
  <2>1. CASE i = j
    BY <1>g, <2>1 DEF HeldByForeground
  <2>2. CASE i # j
    <3>1. HeldByForeground(i) # {} => HeldByForeground(i)' # {}
      BY <1>a, <1>g DEF HeldByForeground
    <3> QED
      BY <1>f, <1>h, <2>2, <3>1 DEF AddedInv, HeldByWorker
  <2> QED
    BY <2>1, <2>2
<1>6. CurrentInv' /\ ServiceInv' /\ AddedCountExact'
  BY <1>h DEF CurrentInv, ServiceInv, AddedCountExact
<1>7. RemovedInv'
  <2>1. \A g \in Foregrounds : fpc[g] \in {"removing", "removeWait"} => fpc'[g] = fpc[g]
    BY <1>a, <1>g
  <2>2. fmgr' = fmgr
    BY <1>c
  <2> QED
    BY <1>f, <1>h, <2>1, <2>2 DEF RemovedInv
<1>8. NumJobsCoversQueue'
  BY <1>f, <1>h, QueueShrinks DEF TypeOK, ListsOf
<1> QED
  BY <1>1, <1>2, <1>3, <1>4, <1>5, <1>6, <1>7, <1>8

\* ProactiveProcessed preserves IndInv.
LEMMA ProactiveProcessedStep ==
  ASSUME IndInv, NEW f \in Foregrounds, ProactiveProcessed(f)
  PROVE  IndInv'
<1> USE DEF IndInv
<1> DEFINE j == fjob[f]
<1>a. fpc[f] = "processProactive" /\ ForegroundOK(f)
  BY DEF ProactiveProcessed, ForegroundInv
<1>b. /\ j \in Jobs /\ Owner[ManagerOf[j]] = f /\ ManagerOf[j] = fmgr[f] /\ fmgr[f] \in Managers
      /\ jobState[j] = (IF HasQueuedJobs(f) THEN "added" ELSE "new")
      /\ j \notin jobs.elems /\ (\A w \in Workers : wjob[w] # j)
      /\ HasQueuedJobs(f) => ForcedInThread
  BY <1>a DEF ForegroundOK, TypeOK
<1>c. /\ jobState' = [jobState EXCEPT ![j] = "processed"]
      /\ (IF HasQueuedJobs(f) THEN DecrementAdded(j) ELSE UNCHANGED numJobsAddedToProcessor)
      /\ fpc' = [fpc EXCEPT ![f] = "proactive"] /\ fjob' = [fjob EXCEPT ![f] = None]
      /\ UNCHANGED <<lockHolder, processorVars, eventVars, dataVars, waitVars,
                     workerVars, fmgr, fwait>>
  BY DEF ProactiveProcessed
<1> HIDE DEF j
<1>e. \A i \in Jobs : jobState'[i] = IF i = j THEN "processed" ELSE jobState[i]
  BY <1>c DEF TypeOK
<1>d. AddedCountExact' /\ numJobsAddedToProcessor' \in [Managers -> Nat]
  <2>1. CASE HasQueuedJobs(f)
    BY <2>1, <1>b, <1>c, CountDrops DEF TypeOK
  <2>2. CASE ~HasQueuedJobs(f)
    <3>1. \A m \in Managers : {i \in JobsOf(m) : jobState'[i] = "added"}
                               = {i \in JobsOf(m) : jobState[i] = "added"}
      BY <1>b, <1>e, <2>2
    <3> QED
      BY <1>c, <2>2, <3>1 DEF AddedCountExact, TypeOK
  <2> QED
    BY <2>1, <2>2
<1>f. \A g \in Foregrounds : /\ fpc'[g] = (IF g = f THEN "proactive" ELSE fpc[g])
                             /\ fjob'[g] = (IF g = f THEN None ELSE fjob[g])
                             /\ fmgr'[g] = fmgr[g] /\ fwait'[g] = fwait[g]
  BY <1>c DEF TypeOK
<1>g. UNCHANGED <<jobs, numJobs, managers, wjob, wpc, currentJob, isWaitingForJobs>>
  BY <1>c
<1>1. TypeOK'
  BY <1>c, <1>d DEF TypeOK
<1>2. QueueInv'
  BY <1>b, <1>e, <1>g DEF QueueInv, TypeOK, ListsOf
<1>3. WorkerInv'
  BY <1>b, <1>e, <1>g DEF WorkerInv, TypeOK
<1>4. ForegroundInv'
  <2>1. HasQueuedJobs(f)' => HasQueuedJobs(f)
    BY <1>c, <1>f DEF HasQueuedJobs
  <2>2. ForegroundOK(f)'
    BY <1>a, <1>b, <1>f, <1>g, <2>1 DEF ForegroundOK, ForcedInThread
  <2>3. \A m \in Managers : m # ManagerOf[j] =>
           numJobsAddedToProcessor'[m] = numJobsAddedToProcessor[m]
    BY <1>c DEF DecrementAdded, TypeOK
  <2>4. ASSUME NEW g \in Foregrounds, g # f PROVE ForegroundOK(g)'
    BY <1>b, <1>e, <1>f, <1>g, <2>3, <2>4, OthersKept
  <2> QED
    BY <2>2, <2>4 DEF ForegroundInv
<1>5. AddedInv'
  <2> SUFFICES ASSUME NEW i \in Jobs, i # j, jobState[i] = "added"
               PROVE  (i \in jobs.elems \/ HeldByWorker(i) # {} \/ HeldByForeground(i) # {})'
    BY <1>e DEF AddedInv
  <2>1. HeldByForeground(i) # {} => HeldByForeground(i)' # {}
    BY <1>f DEF HeldByForeground, j
  <2> QED
    BY <1>g, <2>1 DEF AddedInv, HeldByWorker
<1>6. CurrentInv' /\ NumJobsCoversQueue' /\ ServiceInv'
  BY <1>g DEF CurrentInv, NumJobsCoversQueue, ServiceInv
<1>7. RemovedInv'
  BY <1>a, <1>e, <1>f, <1>g DEF RemovedInv
<1> QED
  BY <1>d, <1>1, <1>2, <1>3, <1>4, <1>5, <1>6, <1>7

-----------------------------------------------------------------------------
(* RemoveManager and Close.                                                *)

\* What aborting a set of queued jobs leaves true.
LEMMA AbortEffect ==
  ASSUME IndInv, NEW S \in SUBSET jobs.elems, Abort(S),
         UNCHANGED <<dataVars, workerVars>>
  PROVE  /\ jobs' \in ListsOf(Jobs) /\ jobs'.elems = jobs.elems \ S
         /\ numJobs' \in Nat
         /\ jobState' \in [Jobs -> {"new", "added", "processed", "aborted"}]
         /\ \A i \in Jobs : jobState'[i] = IF i \in S THEN "aborted" ELSE jobState[i]
         /\ numJobsAddedToProcessor' \in [Managers -> Nat]
         /\ jobBeingWaitedUponProcessed' \in [Managers -> BOOLEAN]
         /\ jobBeingWaitedUpon' \in [Managers -> Jobs \cup {None}]
         /\ QueueInv' /\ WorkerInv' /\ ServiceInv' /\ CurrentInv'
         /\ AddedCountExact' /\ NumJobsCoversQueue'
<1> USE DEF IndInv
<1>a. jobs.elems \in SUBSET Jobs /\ S \in SUBSET Jobs /\ \A j \in S : jobState[j] = "added"
  BY DEF TypeOK, ListsOf, QueueInv
<1>b. jobs' \in ListsOf(Jobs) /\ IsList(jobs') /\ jobs'.elems = jobs.elems \ S
  BY UnlinkFacts DEF Abort, TypeOK, QueueInv
<1>c. NumJobsCoversQueue' /\ numJobs' \in Nat
  BY <1>a, QueueAborts DEF TypeOK
<1>d. AddedCountExact' /\ numJobsAddedToProcessor' \in [Managers -> Nat]
  BY <1>a, CountAborts DEF TypeOK
<1>e. jobState' = [j \in Jobs |-> IF j \in S THEN "aborted" ELSE jobState[j]]
  BY DEF Abort
<1>f. jobState' \in [Jobs -> {"new", "added", "processed", "aborted"}]
         /\ \A i \in Jobs : jobState'[i] = IF i \in S THEN "aborted" ELSE jobState[i]
  BY <1>e DEF TypeOK
<1>g. jobBeingWaitedUponProcessed' \in [Managers -> BOOLEAN]
  BY DEF Abort, TypeOK
<1>h. jobBeingWaitedUpon' \in [Managers -> Jobs \cup {None}]
  BY DEF Abort, TypeOK
<1>1. QueueInv'
  BY <1>a, <1>b, <1>f DEF QueueInv
<1>2. WorkerInv'
  BY <1>b, <1>f DEF WorkerInv, TypeOK
<1>3. ServiceInv' /\ CurrentInv'
  BY DEF ServiceInv, CurrentInv
<1> QED
  BY <1>b, <1>c, <1>d, <1>f, <1>g, <1>h, <1>1, <1>2, <1>3

\* RemoveManager preserves IndInv.
LEMMA RemoveManagerStep ==
  ASSUME IndInv, NEW f \in Foregrounds, NEW m \in Managers, RemoveManager(f, m)
  PROVE  IndInv'
<1> DEFINE S == jobs.elems \cap JobsOf(m)
<1>a. /\ Owner[m] = f /\ fpc[f] = "idle" /\ managers' = managers \ {m} /\ Abort(S)
      /\ IF numJobsAddedToProcessor'[m] = 0
         THEN UNCHANGED foregroundVars
         ELSE /\ fpc' = [fpc EXCEPT ![f] = "removing"]
              /\ fmgr' = [fmgr EXCEPT ![f] = m]
              /\ UNCHANGED <<fjob, fwait>>
      /\ UNCHANGED <<lockHolder, isClosed, eventVars, dataVars, workerVars>>
  BY DEF RemoveManager
<1>b. /\ jobs' \in ListsOf(Jobs) /\ jobs'.elems = jobs.elems \ S
      /\ numJobs' \in Nat
      /\ jobState' \in [Jobs -> {"new", "added", "processed", "aborted"}]
      /\ \A i \in Jobs : jobState'[i] = IF i \in S THEN "aborted" ELSE jobState[i]
      /\ numJobsAddedToProcessor' \in [Managers -> Nat]
      /\ jobBeingWaitedUponProcessed' \in [Managers -> BOOLEAN]
      /\ jobBeingWaitedUpon' \in [Managers -> Jobs \cup {None}]
      /\ QueueInv' /\ WorkerInv' /\ ServiceInv' /\ CurrentInv'
      /\ AddedCountExact' /\ NumJobsCoversQueue'
  BY <1>a, AbortEffect
<1>c. TypeOK /\ AddedInv /\ RemovedInv
  BY DEF IndInv
<1>d. fpc' \in [Foregrounds -> ForegroundStates] /\ fmgr' \in [Foregrounds -> Managers \cup {None}]
         /\ UNCHANGED <<isWaitingForQueuedJobs, queuedJobsProcessed, fjob, fwait>>
  BY <1>a, <1>c DEF TypeOK, Abort
<1>e. /\ \A g \in Foregrounds : g # f => fpc'[g] = fpc[g] /\ fmgr'[g] = fmgr[g]
      /\ numJobsAddedToProcessor'[m] = 0 => fpc'[f] = "idle"
      /\ numJobsAddedToProcessor'[m] # 0 => fpc'[f] = "removing" /\ fmgr'[f] = m
  BY <1>a, <1>c DEF TypeOK
<1>f. \A i \in S : i \in Jobs /\ ManagerOf[i] = m
  OBVIOUS
<1>g. UNCHANGED <<wjob, wpc>> /\ managers' = managers \ {m} /\ fpc[f] = "idle" /\ Owner[m] = f
  BY <1>a
<1>1. TypeOK'
  BY <1>a, <1>b, <1>c, <1>d DEF TypeOK
<1>2. ForegroundInv'
  <2>1. ForegroundOK(f)'
    BY <1>e, <1>g, JobsAssumption DEF ForegroundOK
  <2>2. \A n \in Managers : n # m => numJobsAddedToProcessor'[n] = numJobsAddedToProcessor[n]
    <3> TAKE n \in Managers
    <3> HAVE n # m
    <3>1. S \cap JobsOf(n) = {}
      OBVIOUS
    <3> HIDE DEF S
    <3>2. numJobsAddedToProcessor'[n] = numJobsAddedToProcessor[n] - 0
      BY <1>a, <3>1, FS_EmptySet DEF Abort
    <3> QED
      BY <1>c, <3>2 DEF TypeOK
  <2> HIDE DEF S
  <2>3. ASSUME NEW g \in Foregrounds, g # f PROVE ForegroundOK(g)'
    BY <1>b, <1>d, <1>e, <1>f, <1>g, <2>2, <2>3, OthersKept
  <2> QED
    BY <2>1, <2>3 DEF ForegroundInv
<1>3. AddedInv'
  <2> HIDE DEF S
  <2> SUFFICES ASSUME NEW i \in Jobs, i \notin S, jobState[i] = "added"
               PROVE  (i \in jobs.elems \/ HeldByWorker(i) # {} \/ HeldByForeground(i) # {})'
    BY <1>b DEF AddedInv
  <2>1. HeldByForeground(i) # {} => HeldByForeground(i)' # {}
    BY <1>d, <1>e, <1>g DEF HeldByForeground
  <2> QED
    BY <1>b, <1>c, <1>g, <2>1 DEF AddedInv, HeldByWorker
<1>4. RemovedInv'
  <2> SUFFICES ASSUME NEW n \in Managers, n \notin managers'
               PROVE  /\ JobsOf(n) \cap jobs'.elems = {}
                      /\ \/ \E g \in Foregrounds : fmgr'[g] = n /\ fpc'[g] \in {"removing", "removeWait"}
                         \/ \A j \in JobsOf(n) : jobState'[j] # "added"
    BY DEF RemovedInv
  <2>1. CASE n = m
    <3>1. JobsOf(n) \cap jobs'.elems = {}
      BY <1>b, <2>1
    <3>2. numJobsAddedToProcessor'[m] = 0 => \A j \in JobsOf(m) : jobState'[j] # "added"
      <4> DEFINE A == {j \in JobsOf(m) : jobState'[j] = "added"}
      <4>1. A \in SUBSET Jobs /\ numJobsAddedToProcessor'[m] = Cardinality(A)
        BY <1>b DEF AddedCountExact
      <4>2. numJobsAddedToProcessor'[m] = 0 => A = {}
        BY <4>1, FiniteJobs, FS_EmptySet
      <4> QED
        BY <4>2
    <3> QED
      BY <1>e, <2>1, <3>1, <3>2
  <2>2. CASE n # m
    <3> HIDE DEF S
    <3>1. /\ JobsOf(n) \cap jobs.elems = {}
          /\ \/ \E g \in Foregrounds : fmgr[g] = n /\ fpc[g] \in {"removing", "removeWait"}
             \/ \A j \in JobsOf(n) : jobState[j] # "added"
      BY <1>c, <1>g, <2>2 DEF RemovedInv
    <3> QED
      BY <1>b, <1>e, <1>g, <3>1
  <2> QED
    BY <2>1, <2>2
<1> QED
  BY <1>b, <1>1, <1>2, <1>3, <1>4 DEF IndInv

\* Close preserves IndInv.
LEMMA CloseStep ==
  ASSUME IndInv, NEW f \in Foregrounds, Close(f)
  PROVE  IndInv'
<1> DEFINE S == AbortedByClose
<1>a. /\ \A g \in Foregrounds : fpc[g] = "idle"
      /\ Abort(S) /\ isClosed' = TRUE
      /\ \E s \in {"closed", "closeWait", "closeWake"} : fpc' = [fpc EXCEPT ![f] = s]
      /\ UNCHANGED <<lockHolder, managers, eventVars, dataVars, workerVars,
                     fjob, fmgr, fwait>>
  BY DEF Close
<1>b. S \in SUBSET jobs.elems
  BY DEF AbortedByClose
<1> HIDE DEF S
<1>c. /\ jobs' \in ListsOf(Jobs) /\ jobs'.elems = jobs.elems \ S
      /\ numJobs' \in Nat
      /\ jobState' \in [Jobs -> {"new", "added", "processed", "aborted"}]
      /\ \A i \in Jobs : jobState'[i] = IF i \in S THEN "aborted" ELSE jobState[i]
      /\ numJobsAddedToProcessor' \in [Managers -> Nat]
      /\ jobBeingWaitedUponProcessed' \in [Managers -> BOOLEAN]
      /\ jobBeingWaitedUpon' \in [Managers -> Jobs \cup {None}]
      /\ QueueInv' /\ WorkerInv' /\ ServiceInv' /\ CurrentInv'
      /\ AddedCountExact' /\ NumJobsCoversQueue'
  BY <1>a, <1>b, AbortEffect
<1>d. TypeOK /\ AddedInv /\ RemovedInv
  BY DEF IndInv
<1>e. /\ fpc' \in [Foregrounds -> ForegroundStates]
      /\ \A g \in Foregrounds : fpc'[g] \in {"idle", "closed", "closeWait", "closeWake"}
  BY <1>a, <1>d DEF TypeOK
<1>f. UNCHANGED <<isWaitingForQueuedJobs, queuedJobsProcessed>>
  BY <1>a DEF Abort
<1>1. TypeOK'
  BY <1>a, <1>c, <1>d, <1>e, <1>f DEF TypeOK
<1>2. ForegroundInv'
  BY <1>e DEF ForegroundInv, ForegroundOK
<1>3. AddedInv'
  <2>1. \A i \in Jobs : HeldByForeground(i) = {}
    BY <1>a DEF HeldByForeground
  <2>2. UNCHANGED wjob
    BY <1>a
  <2> QED
    BY <1>c, <1>d, <2>1, <2>2 DEF AddedInv, HeldByWorker
<1>4. RemovedInv'
  BY <1>a, <1>c, <1>d DEF RemovedInv
<1> QED
  BY <1>c, <1>1, <1>2, <1>3, <1>4 DEF IndInv

-----------------------------------------------------------------------------
(* The theorems.                                                           *)

\* The constructor establishes IndInv.
LEMMA InitIndInv == Init => IndInv
<1> SUFFICES ASSUME Init PROVE IndInv
  OBVIOUS
<1> USE DEF Init
<1>1. TypeOK
  <2>1. jobs \in ListsOf(Jobs)
    BY DEF EmptyList, ListsOf
  <2> QED
    BY <2>1, JobsAssumption DEF TypeOK
<1>2. QueueInv
  BY EmptyListIsList DEF QueueInv, EmptyList
<1>3. WorkerInv /\ ForegroundInv /\ ServiceInv
  BY DEF WorkerInv, ForegroundInv, ForegroundOK, ServiceInv
<1>4. AddedInv /\ RemovedInv
  BY DEF AddedInv, RemovedInv, EmptyList
<1>5. CurrentInv
  BY JobsAssumption DEF CurrentInv
<1>6. AddedCountExact
  <2>1. \A m \in Managers : {j \in JobsOf(m) : jobState[j] = "added"} = {}
    OBVIOUS
  <2> QED
    BY <2>1, FS_EmptySet DEF AddedCountExact
<1>7. NumJobsCoversQueue
  BY FS_EmptySet DEF NumJobsCoversQueue, EmptyList
<1> QED
  BY <1>1, <1>2, <1>3, <1>4, <1>5, <1>6, <1>7 DEF IndInv

\* Every step of every thread preserves IndInv.
LEMMA NextIndInv == IndInv /\ [Next]_vars => IndInv'
<1> SUFFICES ASSUME IndInv, [Next]_vars PROVE IndInv'
  OBVIOUS
<1>1. ASSUME NEW w \in Workers, Worker(w) PROVE IndInv'
  BY <1>1, RunExitStep, RunWaitStep, RunTakeStep, RunProcessedStep, RunReenterStep,
     WaitForJobReadyOrShutdownStep, ThreadLeavesStep DEF Worker, LockedStep
<1>2. ASSUME NEW f \in Foregrounds, Call(f) PROVE IndInv'
  BY <1>2, AddManagerStep, RemoveManagerStep, PrioritizeManagerAndWaitStep, AddJobStep,
     RemoveJobStep, PrioritizeJobStep, PrioritizeNewJobAndWaitStep,
     PrioritizeJobAndWaitStep, CloseStep DEF Call
<1>3. ASSUME NEW f \in Foregrounds, Continue(f) PROVE IndInv'
  BY <1>3, ForegroundProcessedStep, WaitJobReturnsStep, WaitQueuedReturnsStep,
     ProactiveTakeStep, ProactiveEndsStep, ProactiveProcessedStep, RemoveManagerWaitStep,
     CloseWakesAllStep, CloseEndsStep DEF Continue
<1>4. CASE UNCHANGED vars
  <2> USE <1>4 DEF IndInv, vars
  <2>1. TypeOK' /\ QueueInv' /\ WorkerInv'
    BY DEF TypeOK, QueueInv, WorkerInv
  <2>2. ForegroundInv' /\ ServiceInv'
    BY DEF ForegroundInv, ForegroundOK, HasQueuedJobs, ForcedInThread, ServiceInv
  <2>3. AddedInv' /\ CurrentInv' /\ RemovedInv'
    BY DEF AddedInv, CurrentInv, RemovedInv, HeldByWorker, HeldByForeground
  <2>4. AddedCountExact' /\ NumJobsCoversQueue'
    BY DEF AddedCountExact, NumJobsCoversQueue
  <2> QED
    BY <2>1, <2>2, <2>3, <2>4
<1> QED
  BY <1>1, <1>2, <1>3, <1>4 DEF Next, Terminated

\* What the lock of BackgroundJobProcessor protects is what every thread finds.
THEOREM IndInvAlways == Spec => []IndInv
  BY InitIndInv, NextIndInv, PTL DEF Spec

\* Every variable keeps its type; in particular the counts numJobs and
\* numJobsAddedToProcessor never drop below zero.
THEOREM TypeCorrect == Spec => []TypeOK
<1>1. IndInv => TypeOK
  BY DEF IndInv
<1> QED
  BY <1>1, IndInvAlways, PTL

\* numJobsAddedToProcessor, by which PrioritizeManagerAndWait, RemoveManager
\* and Run decide whether to wait, is the number of added jobs.
THEOREM CountsAreExact == Spec => []AddedCountExact
<1>1. IndInv => AddedCountExact
  BY DEF IndInv
<1> QED
  BY <1>1, IndInvAlways, PTL

\* The decrements of numJobs never pass zero.
THEOREM QueueIsCovered == Spec => []NumJobsCoversQueue
<1>1. IndInv => NumJobsCoversQueue
  BY DEF IndInv
<1> QED
  BY <1>1, IndInvAlways, PTL

\* A product with a singleton is empty when the other set is.
LEMMA EmptyProduct ==
  ASSUME NEW a, NEW S
  PROVE  {a} \X S = {} <=> S = {}
<1>1. \A v \in S : <<a, v>> \in {a} \X S
  OBVIOUS
<1>2. S = {} => {a} \X S = {}
  OBVIOUS
<1> QED
  BY <1>1, <1>2

\* A job is in one hand at a time, and an added job is in one.
THEOREM JobsHaveOneOwner == Spec => []OneOwner
<1>1. ASSUME IndInv PROVE OneOwner
  <2> SUFFICES ASSUME NEW j \in Jobs
               PROVE  LET hands == {<<"queue", q>> : q \in jobs.elems \cap {j}}
                                     \cup ({"worker"} \X HeldByWorker(j))
                                     \cup ({"foreground"} \X HeldByForeground(j))
                      IN  /\ \A x, y \in hands : x = y
                          /\ jobState[j] = "added" => hands # {}
                          /\ jobState[j] \in {"processed", "aborted"} => hands = {}
    BY DEF OneOwner
  <2> DEFINE inQueue == {<<"queue", q>> : q \in jobs.elems \cap {j}}
             byWorker == {"worker"} \X HeldByWorker(j)
             byForeground == {"foreground"} \X HeldByForeground(j)
  <2>1. inQueue = {} <=> j \notin jobs.elems
    OBVIOUS
  <2>2. byWorker = {} <=> HeldByWorker(j) = {}
    BY EmptyProduct
  <2>3. byForeground = {} <=> HeldByForeground(j) = {}
    BY EmptyProduct
  <2>4. \A x, y \in inQueue : x = y
    OBVIOUS
  <2>5. \A v, w \in HeldByWorker(j) : v = w
    BY <1>1, JobsAssumption DEF IndInv, WorkerInv, HeldByWorker
  <2>6. \A x, y \in byWorker : x = y
    BY <2>5
  <2>7. \A f, g \in HeldByForeground(j) : f = g
    BY <1>1 DEF IndInv, ForegroundInv, ForegroundOK, HeldByForeground
  <2>8. \A x, y \in byForeground : x = y
    BY <2>7
  <2>9. HeldByWorker(j) # {} => j \notin jobs.elems /\ HeldByForeground(j) = {}
    BY <1>1, JobsAssumption DEF IndInv, WorkerInv, ForegroundInv, ForegroundOK, HeldByWorker, HeldByForeground
  <2>10. HeldByForeground(j) # {} => j \notin jobs.elems
    BY <1>1 DEF IndInv, ForegroundInv, ForegroundOK, HeldByForeground
  <2>11. jobState[j] = "added" => inQueue # {} \/ byWorker # {} \/ byForeground # {}
    BY <1>1, <2>1, <2>2, <2>3 DEF IndInv, AddedInv
  <2>12. jobState[j] \in {"processed", "aborted"} =>
            j \notin jobs.elems /\ HeldByWorker(j) = {} /\ HeldByForeground(j) = {}
    <3>1. jobState[j] # "added" => j \notin jobs.elems /\ HeldByWorker(j) = {}
      BY <1>1, NotAddedIsFree DEF HeldByWorker
    <3>2. HeldByForeground(j) # {} => jobState[j] \in {"added", "new"}
      BY <1>1 DEF IndInv, ForegroundInv, ForegroundOK, HeldByForeground
    <3> QED
      BY <3>1, <3>2
  <2> HIDE DEF inQueue, byWorker, byForeground
  <2>13. \A x, y \in inQueue \cup byWorker \cup byForeground : x = y
    BY <2>1, <2>2, <2>3, <2>4, <2>6, <2>8, <2>9, <2>10
  <2>14. jobState[j] = "added" => inQueue \cup byWorker \cup byForeground # {}
    BY <2>11
  <2>15. jobState[j] \in {"processed", "aborted"} => inQueue \cup byWorker \cup byForeground = {}
    BY <2>1, <2>2, <2>3, <2>12
  <2> QED
    BY <2>13, <2>14, <2>15 DEF inQueue, byWorker, byForeground
<1> QED
  BY <1>1, IndInvAlways, PTL

\* When RemoveManager has returned, the manager may be deleted: no thread has
\* or gets one of its jobs.
THEOREM RemovedManagersAreQuiet == Spec => []RemovedManagerQuiet
<1>1. ASSUME IndInv PROVE RemovedManagerQuiet
  <2> SUFFICES ASSUME NEW m \in Managers \ managers, NEW j \in JobsOf(m),
                      \A i \in JobsOf(m) : jobState[i] # "added"
               PROVE  j \notin jobs.elems /\ ~IsBeingProcessed(j) /\ HeldByWorker(j) = {}
    BY <1>1 DEF RemovedManagerQuiet, IndInv, RemovedInv
  <2>1. j \notin jobs.elems /\ \A w \in Workers : wjob[w] # j
    BY <1>1, NotAddedIsFree
  <2> QED
    BY <1>1, <2>1 DEF IndInv, CurrentInv, IsBeingProcessed, HeldByWorker
<1> QED
  BY <1>1, IndInvAlways, PTL

-----------------------------------------------------------------------------
(* Wakeups and Close: the steps preserve WakeInv.                          *)

\* No thread waits for jobs when their number is zero, and only then.
LEMMA NobodyWaits ==
  NumberOfThreadsWaitingForJobs = 0 <=> \A d \in ThreadData : ~isWaitingForJobs[d]
<1> DEFINE S == {d \in ThreadData : isWaitingForJobs[d]}
<1>1. IsFiniteSet(ThreadData)
  BY JobsAssumption, FS_Singleton DEF JobsAssumption
<1>2. IsFiniteSet(S)
  BY <1>1, FS_Subset
<1>3. Cardinality(S) = 0 <=> S = {}
  BY <1>2, FS_EmptySet
<1> QED
  BY <1>3 DEF NumberOfThreadsWaitingForJobs

\* A step that may take jobs from the queue, but touches neither the workers
\* nor the events and is not one of Close.
LEMMA WakeKept ==
  ASSUME WakeInv,
         UNCHANGED <<isClosed, eventVars, isWaitingForJobs, threadStartedOrClosing, wpc>>,
         jobs'.elems \subseteq jobs.elems,
         \A f \in Foregrounds :
            \/ fpc'[f] = fpc[f]
            \/ /\ fpc[f] \notin {"closeWake", "closeWait"}
               /\ fpc'[f] \notin {"closeWake", "closeWait"}
               /\ isClosed => fpc'[f] \in {"idle", "closed", "removing", "removeWait"}
  PROVE  WakeInv'
<1>1. ClosedInv'
  BY DEF WakeInv, ClosedInv
<1>2. CloseReturned' => CloseReturned
  BY DEF CloseReturned
<1>3. DedicatedInv'
  BY <1>2 DEF WakeInv, DedicatedInv
<1>4. CallbackInv'
  BY DEF WakeInv, CallbackInv
<1>5. NoLostWakeup'
  BY DEF WakeInv, NoLostWakeup, RequestDenied
<1> QED
  BY <1>1, <1>3, <1>4, <1>5 DEF WakeInv

\* IndicateNewJob leaves a worker up, a wakeup pending, or the request denied,
\* whatever is in the queue.
LEMMA WakeIndicated ==
  ASSUME IndInv, WakeInv, ~isClosed, UNCHANGED <<isClosed, wakeAllBackgroundThreads>>,
         IndicateNewJob
  PROVE  WakeInv'
<1> USE DEF IndInv, WakeInv
<1>1. ClosedInv' /\ ~CloseReturned'
  BY DEF ClosedInv, CloseReturned
<1>2. CASE ~HasCallback
  <2>1. /\ UNCHANGED <<isWaitingForJobs, threadStartedOrClosing, wpc>>
        /\ jobReady' = TRUE \/ UNCHANGED jobReady
        /\ jobReady' \/ NumberOfThreadsWaitingForJobs = 0
    BY <1>2 DEF IndicateNewJob
  <2>2. DedicatedInv' /\ CallbackInv'
    BY <1>1, <1>2, <2>1 DEF DedicatedInv, CallbackInv
  <2>3. PICK w \in Workers : TRUE
    BY <1>2, JobsAssumption DEF JobsAssumption
  <2>4. wpc[w] \notin {"none", "leaving", "exited"} /\ wpc[w] \in WorkerStates
    BY <1>2 DEF DedicatedInv, TypeOK
  <2>5. jobReady' \/ wpc[w] \in {"loop", "processing"}
    BY <1>2, <2>1, <2>4, NobodyWaits DEF DedicatedInv
  <2>6. NoLostWakeup'
    BY <2>1, <2>5 DEF NoLostWakeup
  <2> QED
    BY <1>1, <2>2, <2>6
<1>3. CASE HasCallback
  <2>1. CASE NumberOfThreadsWaitingForJobs = 0
    <3>1. UNCHANGED <<isWaitingForJobs, wpc>> /\ ~isWaitingForJobs["service"]
      BY <1>3, <2>1, NobodyWaits DEF IndicateNewJob
    <3>2. \E w \in Workers : wpc[w] \in {"loop", "processing"}
      BY <1>3, <3>1 DEF CallbackInv
    <3> QED
      BY <1>1, <1>3, <3>1, <3>2 DEF DedicatedInv, CallbackInv, NoLostWakeup
  <2>2. CASE NumberOfThreadsWaitingForJobs # 0
    <3>1. Invoke /\ isWaitingForJobs' = [isWaitingForJobs EXCEPT !["service"] = (wpc' = wpc)]
      BY <1>3, <2>2 DEF IndicateNewJob, InvokeThreadService
    <3>2. isWaitingForJobs'["service"] = (wpc' = wpc)
      BY <1>3, <3>1 DEF TypeOK
    <3>3. wpc' = wpc \/ \E w \in Workers : wpc'[w] = "loop"
      BY <3>1 DEF Invoke, TypeOK
    <3> QED
      BY <1>1, <1>3, <3>2, <3>3 DEF DedicatedInv, CallbackInv, NoLostWakeup, RequestDenied
  <2> QED
    BY <2>1, <2>2
<1> QED
  BY <1>2, <1>3

\* A worker leaves a closed processor only when the queue is empty: a queue of
\* critical jobs has a critical head.
LEMMA ExitsEmpty ==
  ASSUME IndInv, WakeInv, ~KeepsRunning
  PROVE  isClosed /\ jobs.elems = {}
<1>1. isClosed /\ jobs.elems \subseteq Critical /\ \A j \in Critical : ~IsHead(jobs, j)
  BY DEF KeepsRunning, WakeInv, ClosedInv
<1>2. IsFiniteSet(jobs.elems) /\ IsList(jobs)
  BY FiniteJobs DEF IndInv, TypeOK, ListsOf, QueueInv
<1>3. jobs.elems # {} => \E j \in jobs.elems : IsHead(jobs, j)
  BY <1>2, HeadExists
<1> QED
  BY <1>1, <1>3

\* What is left to show of a step of worker w, which other workers do not see.
LEMMA WakeWorker ==
  ASSUME IndInv, WakeInv, NEW w \in Workers,
         UNCHANGED <<isClosed, wakeAllBackgroundThreads, fpc>>,
         wpc' = [wpc EXCEPT ![w] = wpc'[w]],
         jobs'.elems \subseteq jobs.elems,
         ~HasCallback =>
            /\ \A v \in Workers : v # w =>
                  /\ isWaitingForJobs'[v] = isWaitingForJobs[v]
                  /\ threadStartedOrClosing'[v] = threadStartedOrClosing[v]
            /\ wpc'[w] # "none"
            /\ isWaitingForJobs'[w] <=> wpc'[w] \in {"waiting", "woken"}
            /\ threadStartedOrClosing'[w] => wpc'[w] = "exited"
            /\ wpc'[w] \in {"leaving", "exited"} => isClosed /\ jobs.elems = {}
            /\ wpc[w] = "exited" => wpc'[w] = "exited",
         HasCallback =>
            \/ isWaitingForJobs'["service"]
            \/ wpc'[w] \in {"loop", "processing"}
            \/ isClosed /\ jobs.elems = {}
            \/ /\ UNCHANGED isWaitingForJobs
               /\ wpc[w] \notin {"loop", "processing"},
         jobs'.elems # {} =>
            \/ wpc'[w] \in {"loop", "woken", "processing"}
            \/ /\ UNCHANGED <<isWaitingForJobs, jobReady>>
               /\ wpc[w] \notin {"loop", "woken", "processing"}
  PROVE  WakeInv'
<1> USE DEF IndInv, WakeInv
<1>0. \A v \in Workers : v # w => wpc'[v] = wpc[v]
  BY DEF TypeOK
<1>1. ClosedInv' /\ CloseReturned' = CloseReturned
  BY DEF ClosedInv, CloseReturned
<1>2. DedicatedInv'
  <2> SUFFICES ASSUME ~HasCallback, NEW v \in Workers
               PROVE  /\ wpc'[v] # "none"
                      /\ isWaitingForJobs'[v] <=> wpc'[v] \in {"waiting", "woken"}
                      /\ threadStartedOrClosing'[v] => wpc'[v] = "exited"
                      /\ wpc'[v] \in {"leaving", "exited"} => isClosed' /\ jobs'.elems = {}
                      /\ CloseReturned' => wpc'[v] = "exited"
    BY DEF DedicatedInv
  <2>1. CASE v = w
    BY <1>1, <2>1 DEF DedicatedInv
  <2>2. CASE v # w
    BY <1>0, <1>1, <2>2 DEF DedicatedInv
  <2> QED
    BY <2>1, <2>2
<1>3. CallbackInv'
  BY <1>0 DEF CallbackInv
<1>4. NoLostWakeup'
  BY <1>0 DEF NoLostWakeup, RequestDenied
<1> QED
  BY <1>1, <1>2, <1>3, <1>4

\* The steps of a worker preserve WakeInv.
LEMMA WorkerWake ==
  ASSUME IndInv, WakeInv, NEW w \in Workers, Worker(w)
  PROVE  WakeInv'
<1>1. CASE RunExit(w)
  <2>1. isClosed /\ jobs.elems = {}
    BY <1>1, ExitsEmpty DEF RunExit
  <2>2. wpc' = [wpc EXCEPT ![w] = "leaving"] /\ wpc[w] = "loop" /\ wpc'[w] = "leaving"
    BY <1>1 DEF RunExit, AtLoopHead, IndInv, TypeOK
  <2>3. ~HasCallback => ~isWaitingForJobs[w] /\ ~threadStartedOrClosing[w]
    BY <2>2 DEF WakeInv, DedicatedInv
  <2> QED
    BY <1>1, <2>1, <2>2, <2>3, WakeWorker DEF RunExit
<1>2. CASE RunWait(w)
  <2>1. wpc[w] = "loop" /\ wpc' = [wpc EXCEPT ![w] = wpc'[w]]
         /\ wpc'[w] = IF HasCallback THEN "leaving" ELSE "waiting"
    BY <1>2 DEF RunWait, AtLoopHead, IndInv, TypeOK
  <2>2. ~HasCallback => ~threadStartedOrClosing[w]
    BY <2>1 DEF WakeInv, DedicatedInv
  <2>3. /\ ~HasCallback => \A v \in Workers : isWaitingForJobs'[v] = IF v = w THEN TRUE ELSE isWaitingForJobs[v]
        /\ HasCallback => isWaitingForJobs'["service"]
    BY <1>2 DEF RunWait, SetWaitingForJobs, IndInv, TypeOK
  <2>4. jobs'.elems = {} /\ UNCHANGED <<isClosed, wakeAllBackgroundThreads, fpc, threadStartedOrClosing>>
    BY <1>2 DEF RunWait
  <2> QED
    BY <2>1, <2>2, <2>3, <2>4, WakeWorker
<1>3. CASE RunTake(w)
  <2>1. wpc[w] = "loop" /\ wpc' = [wpc EXCEPT ![w] = wpc'[w]] /\ wpc'[w] = "processing"
    BY <1>3 DEF RunTake, AtLoopHead, IndInv, TypeOK
  <2>2. ~HasCallback => ~isWaitingForJobs[w] /\ ~threadStartedOrClosing[w]
    BY <2>1 DEF WakeInv, DedicatedInv
  <2>3. jobs'.elems \subseteq jobs.elems
    BY <1>3 DEF RunTake, TakeFromQueue, Unlink
  <2>4. UNCHANGED <<isClosed, wakeAllBackgroundThreads, fpc, isWaitingForJobs, threadStartedOrClosing>>
    BY <1>3 DEF RunTake
  <2> QED
    BY <2>1, <2>2, <2>3, <2>4, WakeWorker
<1>4. CASE RunProcessed(w)
  <2>1. wpc[w] = "processing" /\ wpc' = [wpc EXCEPT ![w] = wpc'[w]] /\ wpc'[w] = "loop"
    BY <1>4 DEF RunProcessed, IndInv, TypeOK
  <2>2. ~HasCallback => ~isWaitingForJobs[w] /\ ~threadStartedOrClosing[w]
    BY <2>1 DEF WakeInv, DedicatedInv
  <2>4. UNCHANGED <<jobs, isClosed, wakeAllBackgroundThreads, fpc, isWaitingForJobs, threadStartedOrClosing>>
    BY <1>4 DEF RunProcessed
  <2> QED
    BY <2>1, <2>2, <2>4, WakeWorker
<1>5. CASE RunReenter(w)
  <2>1. wpc[w] = "woken" /\ wpc' = [wpc EXCEPT ![w] = wpc'[w]] /\ wpc'[w] = "loop"
    BY <1>5 DEF RunReenter, IndInv, TypeOK
  <2>2. ~HasCallback => ~threadStartedOrClosing[w]
    BY <2>1 DEF WakeInv, DedicatedInv
  <2>3. ~HasCallback => \A v \in Workers : isWaitingForJobs'[v] = IF v = w THEN FALSE ELSE isWaitingForJobs[v]
    BY <1>5 DEF RunReenter, SetWaitingForJobs, IndInv, TypeOK
  <2>4. UNCHANGED <<jobs, isClosed, wakeAllBackgroundThreads, fpc, threadStartedOrClosing>>
    BY <1>5 DEF RunReenter
  <2> QED
    BY <2>1, <2>2, <2>3, <2>4, WakeWorker
<1>6. CASE WaitForJobReadyOrShutdown(w)
  <2>1. wpc[w] = "waiting" /\ wpc' = [wpc EXCEPT ![w] = wpc'[w]] /\ wpc'[w] = "woken"
    BY <1>6 DEF WaitForJobReadyOrShutdown, IndInv, TypeOK
  <2>2. ~HasCallback
    BY <2>1 DEF IndInv, ServiceInv
  <2>3. isWaitingForJobs[w] /\ ~threadStartedOrClosing[w]
    BY <2>1, <2>2 DEF WakeInv, DedicatedInv
  <2>4. UNCHANGED <<jobs, isClosed, wakeAllBackgroundThreads, fpc, isWaitingForJobs, threadStartedOrClosing>>
    BY <1>6 DEF WaitForJobReadyOrShutdown
  <2> QED
    BY <2>1, <2>2, <2>3, <2>4, WakeWorker
<1>7. CASE ThreadLeaves(w)
  <2>1. wpc[w] = "leaving" /\ wpc' = [wpc EXCEPT ![w] = wpc'[w]]
         /\ wpc'[w] = IF HasCallback THEN "none" ELSE "exited"
    BY <1>7 DEF ThreadLeaves, IndInv, TypeOK
  <2>2. ~HasCallback => isClosed /\ jobs.elems = {} /\ ~isWaitingForJobs[w]
    BY <2>1 DEF WakeInv, DedicatedInv
  <2>3. ~HasCallback => \A v \in Workers : v # w => threadStartedOrClosing'[v] = threadStartedOrClosing[v]
    BY <1>7 DEF ThreadLeaves, IndInv, TypeOK
  <2>4. UNCHANGED <<jobs, isClosed, jobReady, wakeAllBackgroundThreads, fpc, isWaitingForJobs>>
    BY <1>7 DEF ThreadLeaves
  <2> QED
    BY <2>1, <2>2, <2>3, <2>4, WakeWorker
<1> QED
  BY <1>1, <1>2, <1>3, <1>4, <1>5, <1>6, <1>7 DEF Worker, LockedStep

\* Close leaves critical jobs and its own promise to wake the threads.
LEMMA CloseWake ==
  ASSUME IndInv, WakeInv, NEW f \in Foregrounds, Close(f)
  PROVE  WakeInv'
<1> USE DEF IndInv, WakeInv
<1>1. /\ isClosed' /\ ~isClosed /\ jobs'.elems = jobs.elems \ AbortedByClose
      /\ UNCHANGED <<eventVars, isWaitingForJobs, threadStartedOrClosing, wpc>>
      /\ \A g \in Foregrounds : fpc[g] = "idle"
      /\ \A g \in Foregrounds : g # f => fpc'[g] = fpc[g]
      /\ fpc'[f] \in {"closeWake", "closeWait", "closed"}
      /\ ~HasCallback => fpc'[f] \in {"closeWake", "closeWait"}
  BY DEF Close, Abort, Unlink, TypeOK
<1>2. jobs.elems \ AbortedByClose \subseteq Critical
  BY DEF AbortedByClose
<1>3. ClosedInv'
  BY <1>1, <1>2 DEF ClosedInv
<1>4. ~HasCallback => ~CloseReturned'
  BY <1>1 DEF CloseReturned
<1>5. DedicatedInv'
  BY <1>1, <1>4 DEF DedicatedInv
<1>6. CallbackInv'
  BY <1>1 DEF CallbackInv
<1>7. NoLostWakeup'
  BY <1>1 DEF NoLostWakeup, RequestDenied
<1> QED
  BY <1>3, <1>5, <1>6, <1>7

\* CloseWakesAll keeps the promise of Close.
LEMMA CloseWakesAllWake ==
  ASSUME IndInv, WakeInv, NEW f \in Foregrounds, CloseWakesAll(f)
  PROVE  WakeInv'
<1> USE DEF IndInv, WakeInv
<1>1. /\ wakeAllBackgroundThreads' = TRUE
      /\ UNCHANGED <<isClosed, jobs, isWaitingForJobs, threadStartedOrClosing, wpc>>
      /\ \A g \in Foregrounds : g # f => fpc'[g] = fpc[g]
      /\ fpc[f] = "closeWake" /\ fpc'[f] = "closeWait"
  BY DEF CloseWakesAll, WakeAll, TypeOK
<1>2. ClosedInv'
  BY <1>1 DEF ClosedInv
<1>3. ~CloseReturned'
  BY <1>1 DEF CloseReturned
<1>4. DedicatedInv' /\ CallbackInv' /\ NoLostWakeup'
  BY <1>1, <1>3 DEF DedicatedInv, CallbackInv, NoLostWakeup
<1> QED
  BY <1>2, <1>4

\* Close returns when all dedicated threads have left.
LEMMA CloseWaitedWake ==
  ASSUME IndInv, WakeInv, NEW f \in Foregrounds,
         WaitWithAllThreadsForThreadStartedOrClosingEvent(f)
  PROVE  WakeInv'
<1> USE DEF IndInv, WakeInv
<1>1. /\ AllThreadsClosing
      /\ UNCHANGED <<isClosed, jobs, eventVars, isWaitingForJobs, threadStartedOrClosing, wpc>>
      /\ \A g \in Foregrounds : g # f => fpc'[g] = fpc[g]
      /\ fpc[f] = "closeWait" /\ fpc'[f] = "closed"
  BY DEF WaitWithAllThreadsForThreadStartedOrClosingEvent, TypeOK
<1>2. ClosedInv'
  BY <1>1 DEF ClosedInv
<1>3. ~HasCallback => \A w \in Workers : wpc[w] = "exited"
  BY <1>1 DEF AllThreadsClosing, DedicatedInv
<1>4. DedicatedInv'
  BY <1>1, <1>3 DEF DedicatedInv
<1>5. CallbackInv' /\ NoLostWakeup'
  BY <1>1 DEF CallbackInv, NoLostWakeup, RequestDenied
<1> QED
  BY <1>2, <1>4, <1>5

\* The queue after a job that no worker has was moved to its front.
LEMMA MovedElems ==
  ASSUME IndInv, NEW f \in Foregrounds, fpc[f] = "idle",
         NEW j \in Jobs, Owner[ManagerOf[j]] = f, jobState[j] = "added", ~IsBeingProcessed(j)
  PROVE  j \in jobs.elems /\ MoveToBeginning(jobs, j).elems = jobs.elems
<1>1. j \in jobs.elems
  BY AddedIsQueued
<1> QED
  BY <1>1 DEF MoveToBeginning, LinkToBeginning, Unlink

\* The calls of a foreground thread preserve WakeInv.
LEMMA CallWake ==
  ASSUME IndInv, WakeInv, NEW f \in Foregrounds, Call(f)
  PROVE  WakeInv'
<1>1. ASSUME NEW m \in Managers, AddManager(f, m) PROVE WakeInv'
  BY <1>1, WakeIndicated DEF AddManager
<1>2. ASSUME NEW j \in Jobs, NEW p \in BOOLEAN, AddJob(f, j, p) PROVE WakeInv'
  BY <1>2, WakeIndicated DEF AddJob, CountNewJob
<1>3. ASSUME NEW j \in Jobs, PrioritizeNewJobAndWait(f, j) PROVE WakeInv'
  BY <1>3, WakeIndicated DEF PrioritizeNewJobAndWait, CountNewJob
<1>4. ASSUME NEW m \in Managers, RemoveManager(f, m) PROVE WakeInv'
  <2>1. jobs'.elems \subseteq jobs.elems
    BY <1>4 DEF RemoveManager, Abort, Unlink
  <2>2. \A g \in Foregrounds : fpc'[g] = fpc[g] \/ (fpc[g] = "idle" /\ fpc'[g] = "removing")
    BY <1>4 DEF RemoveManager, IndInv, TypeOK
  <2>3. UNCHANGED <<isClosed, eventVars, isWaitingForJobs, threadStartedOrClosing, wpc>>
    BY <1>4 DEF RemoveManager
  <2> QED
    BY <2>1, <2>2, <2>3, WakeKept
<1>5. ASSUME NEW m \in Managers, PrioritizeManagerAndWait(f, m) PROVE WakeInv'
  <2>1. jobs'.elems \subseteq jobs.elems
    BY <1>5 DEF PrioritizeManagerAndWait, MoveSetToBeginning
  <2>2. \A g \in Foregrounds :
           \/ fpc'[g] = fpc[g]
           \/ fpc[g] = "idle" /\ fpc'[g] \in {"waitQueued", "proactive"}
    BY <1>5 DEF PrioritizeManagerAndWait, IndInv, TypeOK
  <2>3. /\ ~isClosed
        /\ UNCHANGED <<isClosed, eventVars, isWaitingForJobs, threadStartedOrClosing, wpc>>
    BY <1>5 DEF PrioritizeManagerAndWait
  <2> QED
    BY <2>1, <2>2, <2>3, WakeKept
<1>6. ASSUME NEW j \in Jobs, RemoveJob(f, j) PROVE WakeInv'
  <2>1. jobs'.elems \subseteq jobs.elems
    BY <1>6 DEF RemoveJob, Unlink
  <2> QED
    BY <1>6, <2>1, WakeKept DEF RemoveJob
<1>7. ASSUME NEW j \in Jobs, PrioritizeJob(f, j) \/ PrioritizeJobAndWait(f, j) PROVE WakeInv'
  <2>1. Owner[ManagerOf[j]] = f /\ fpc[f] = "idle" /\ jobState[j] = "added" /\ ~isClosed
         /\ UNCHANGED <<isClosed, eventVars, isWaitingForJobs, threadStartedOrClosing, wpc>>
    BY <1>7 DEF PrioritizeJob, PrioritizeJobAndWait
  <2>2. jobs' \in {jobs, Unlink(jobs, {j})} \/ (~IsBeingProcessed(j) /\ jobs' = MoveToBeginning(jobs, j))
    BY <1>7 DEF PrioritizeJob, PrioritizeJobAndWait, TakeFromQueue
  <2>3. jobs'.elems \subseteq jobs.elems
    BY <2>1, <2>2, MovedElems DEF Unlink
  <2>4. \A g \in Foregrounds :
           \/ fpc'[g] = fpc[g]
           \/ fpc[g] = "idle" /\ fpc'[g] \in {"process", "waitJob"}
    BY <1>7 DEF PrioritizeJob, PrioritizeJobAndWait, ProcessInForeground, IndInv, TypeOK
  <2> QED
    BY <2>1, <2>3, <2>4, WakeKept
<1> QED
  BY <1>1, <1>2, <1>3, <1>4, <1>5, <1>6, <1>7, CloseWake DEF Call

\* The later steps of a call preserve WakeInv.
LEMMA ContinueWake ==
  ASSUME IndInv, WakeInv, NEW f \in Foregrounds, Continue(f)
  PROVE  WakeInv'
<1>1. ASSUME \/ ForegroundProcessed(f) \/ WaitJobReturns(f) \/ WaitQueuedReturns(f)
             \/ ProactiveTake(f) \/ ProactiveEnds(f) \/ ProactiveProcessed(f)
             \/ RemoveManagerWait(f) \/ CloseReturns(f)
      PROVE  WakeInv'
  <2> USE DEF ForegroundProcessed, WaitJobReturns, WaitQueuedReturns, ProactiveTake,
              ProactiveEnds, ProactiveProcessed, RemoveManagerWait, CloseReturns
  <2>1. jobs'.elems \subseteq jobs.elems
    BY <1>1 DEF Unlink
  <2>2. UNCHANGED <<isClosed, eventVars, isWaitingForJobs, threadStartedOrClosing, wpc>>
    BY <1>1
  <2>3. /\ \A g \in Foregrounds : g # f => fpc'[g] = fpc[g]
        /\ fpc[f] \notin {"closeWake", "closeWait"}
        /\ \/ fpc'[f] \in {"idle", "removeWait"}
           \/ /\ fpc[f] \in {"waitQueued", "proactive", "processProactive"}
              /\ fpc'[f] \in {"proactive", "processProactive"}
    BY <1>1 DEF IndInv, TypeOK
  <2>4. fpc[f] \in {"waitQueued", "proactive", "processProactive"} => ~isClosed
    BY DEF WakeInv, ClosedInv
  <2> QED
    BY <2>1, <2>2, <2>3, <2>4, WakeKept
<1> QED
  BY <1>1, CloseWakesAllWake, CloseWaitedWake DEF Continue

\* The initial state satisfies WakeInv.
LEMMA InitWake == Init => WakeInv
  BY DEF Init, WakeInv, ClosedInv, DedicatedInv, CallbackInv, NoLostWakeup, CloseReturned,
         EmptyList

\* Every step of every thread preserves WakeInv.
LEMMA NextWake == IndInv /\ WakeInv /\ [Next]_vars => WakeInv'
<1> SUFFICES ASSUME IndInv, WakeInv, [Next]_vars PROVE WakeInv'
  OBVIOUS
<1>1. CASE UNCHANGED vars
  BY <1>1, WakeKept DEF vars
<1> QED
  BY <1>1, WorkerWake, CallWake, ContinueWake DEF Next, Terminated

\* WakeInv holds in every reachable state.
LEMMA WakeInvAlways == Spec => []WakeInv
  BY InitWake, NextWake, IndInvAlways, PTL DEF Spec

\* No wakeup is lost: while a job is queued a worker is up, an event is or will
\* be set, or the thread service has denied the thread, so that the next
\* prioritization processes the job in the foreground.
THEOREM WakeupsAreNotLost == Spec => []NoLostWakeup
  BY WakeInvAlways, PTL DEF WakeInv

\* With dedicated threads, when Close has returned the queue is empty and every
\* thread has left Run: the processor may be deleted.
THEOREM ClosedMeansQuiet == ~HasCallback => (Spec => []ClosedIsQuiet)
<1> SUFFICES ASSUME ~HasCallback PROVE Spec => []ClosedIsQuiet
  OBVIOUS
<1>1. WakeInv => ClosedIsQuiet
  BY JobsAssumption DEF JobsAssumption, WakeInv, DedicatedInv, ClosedIsQuiet
<1> QED
  BY <1>1, WakeInvAlways, PTL

-----------------------------------------------------------------------------
(* Waits: the steps preserve WaitInv and WaiterNotStranded.                *)

\* What a step leaves alone of the wait of thread g: its control point, and the
\* counts, events and jobs of its managers.
Untouched(g) ==
    /\ fpc'[g] = fpc[g] /\ fjob'[g] = fjob[g] /\ fmgr'[g] = fmgr[g]
    /\ \A m \in Managers : Owner[m] = g =>
          /\ jobBeingWaitedUpon'[m] = jobBeingWaitedUpon[m]
          /\ jobBeingWaitedUponProcessed'[m] = jobBeingWaitedUponProcessed[m]
          /\ isWaitingForQueuedJobs'[m] = isWaitingForQueuedJobs[m]
          /\ queuedJobsProcessed'[m] = queuedJobsProcessed[m]
          /\ numJobsAddedToProcessor'[m] = numJobsAddedToProcessor[m]
          /\ m \in managers => m \in managers'
    /\ \A i \in Jobs : Owner[ManagerOf[i]] = g =>
          jobState'[i] = jobState[i] /\ (i \in jobs'.elems => i \in jobs.elems)

\* A wait that a step leaves alone is not stranded by it, unless a thread
\* service request is denied with jobs in the queue.
LEMMA StrandedKept ==
  ASSUME IndInv, NEW g \in Foregrounds, NotStranded(g), Untouched(g),
         \A i \in Jobs : IsBeingProcessed(i) => IsBeingProcessed(i)',
         RequestDenied' => RequestDenied \/ jobs'.elems = {}
  PROVE  NotStranded(g)'
<1> USE DEF Untouched
<1>0. ForegroundOK(g) /\ fjob[g] \in Jobs \cup {None} /\ fmgr[g] \in Managers \cup {None}
  BY DEF IndInv, ForegroundInv, TypeOK
<1>1. CASE fpc[g] = "waitJob"
  <2>1. fjob[g] \in Jobs /\ ManagerOf[fjob[g]] \in Managers /\ Owner[ManagerOf[fjob[g]]] = g
    BY <1>0, <1>1, JobsAssumption DEF ForegroundOK, JobsAssumption
  <2> QED
    BY <1>1, <2>1 DEF NotStranded
<1>2. CASE fpc[g] = "removeWait"
  <2>1. fmgr[g] \in Managers /\ Owner[fmgr[g]] = g
    BY <1>0, <1>2 DEF ForegroundOK
  <2>2. GetCurrentJobsOfManager(fmgr[g]) \subseteq GetCurrentJobsOfManager(fmgr[g])'
    BY DEF GetCurrentJobsOfManager
  <2> QED
    BY <1>2, <2>1, <2>2 DEF NotStranded
<1>3. CASE fpc[g] = "waitQueued"
  <2>1. fmgr[g] \in Managers /\ Owner[fmgr[g]] = g
    BY <1>0, <1>3 DEF ForegroundOK
  <2>2. JobsOf(fmgr[g])' \cap jobs'.elems \subseteq JobsOf(fmgr[g]) \cap jobs.elems
    BY <2>1
  <2> QED
    BY <1>3, <2>1, <2>2 DEF NotStranded
<1> QED
  BY <1>1, <1>2, <1>3 DEF NotStranded

\* A step of thread f: what is left to show of f itself.
LEMMA WaitForeground ==
  ASSUME IndInv, WaitInv, WaiterNotStranded, NEW f \in Foregrounds, UNCHANGED currentJob,
         \A g \in Foregrounds : g # f => Untouched(g),
         fpc'[f] \in {"waitQueued", "proactive", "processProactive"} => fmgr'[f] \in managers',
         \A m \in Managers : Owner[m] = f /\ jobBeingWaitedUpon'[m] # None =>
            /\ ManagerOf[jobBeingWaitedUpon'[m]] = m
            /\ \/ fpc'[f] = "waitJob" /\ ManagerOf[fjob'[f]] = m
               \/ fpc'[f] = "removeWait" /\ fmgr'[f] = m,
         NotStranded(f)'
  PROVE  WaitInv' /\ WaiterNotStranded'
<1>0. Owner \in [Managers -> Foregrounds]
  BY JobsAssumption DEF JobsAssumption
<1>1. \A g \in Foregrounds : g # f => NotStranded(g)'
  <2> SUFFICES ASSUME NEW g \in Foregrounds, g # f PROVE NotStranded(g)'
    OBVIOUS
  <2>1. ~HasCallback
    BY JobsAssumption DEF JobsAssumption
  <2>2. NotStranded(g) /\ Untouched(g) /\ ~RequestDenied'
    BY <2>1 DEF WaiterNotStranded, RequestDenied
  <2>3. \A i \in Jobs : IsBeingProcessed(i) => IsBeingProcessed(i)'
    BY DEF IsBeingProcessed
  <2> QED
    BY <2>2, <2>3, StrandedKept
<1>2. \A g \in Foregrounds :
         fpc'[g] \in {"waitQueued", "proactive", "processProactive"} => fmgr'[g] \in managers'
  <2> SUFFICES ASSUME NEW g \in Foregrounds, g # f,
                      fpc'[g] \in {"waitQueued", "proactive", "processProactive"}
               PROVE  fmgr'[g] \in managers'
    OBVIOUS
  <2>1. Untouched(g) /\ ForegroundOK(g) /\ fmgr[g] \in Managers \cup {None}
    BY DEF IndInv, ForegroundInv, TypeOK
  <2>2. fmgr[g] \in managers /\ Owner[fmgr[g]] = g /\ fmgr[g] \in Managers
    BY <2>1 DEF WaitInv, Untouched, ForegroundOK
  <2> QED
    BY <2>1, <2>2 DEF Untouched
<1>3. WaitInv'
  <2> SUFFICES ASSUME NEW m \in Managers, jobBeingWaitedUpon'[m] # None
               PROVE  /\ ManagerOf[jobBeingWaitedUpon'[m]] = m
                      /\ \/ fpc'[Owner[m]] = "waitJob" /\ ManagerOf[fjob'[Owner[m]]] = m
                         \/ fpc'[Owner[m]] = "removeWait" /\ fmgr'[Owner[m]] = m
    BY <1>2 DEF WaitInv
  <2>1. CASE Owner[m] = f
    BY <2>1
  <2>2. CASE Owner[m] # f
    <3>1. Untouched(Owner[m])
      BY <1>0, <2>2
    <3> QED
      BY <3>1 DEF WaitInv, Untouched
  <2> QED
    BY <2>1, <2>2
<1> QED
  BY <1>1, <1>3 DEF WaiterNotStranded

\* A step of thread f, which is not waiting for a single job and does not begin
\* to wait.
LEMMA WaitNotBegun ==
  ASSUME IndInv, WaitInv, WaiterNotStranded, NEW f \in Foregrounds, UNCHANGED currentJob,
         \A g \in Foregrounds : g # f => Untouched(g),
         fpc[f] \notin {"waitJob", "removeWait"},
         fpc'[f] \notin {"waitJob", "removeWait", "waitQueued"},
         fpc'[f] \in {"proactive", "processProactive"} => fmgr'[f] \in managers',
         \A m \in Managers :
            Owner[m] = f => jobBeingWaitedUpon'[m] \in {None, jobBeingWaitedUpon[m]}
  PROVE  WaitInv' /\ WaiterNotStranded'
<1>1. NotStranded(f)'
  BY DEF NotStranded
<1>2. \A m \in Managers : Owner[m] = f => jobBeingWaitedUpon'[m] = None
  BY DEF WaitInv
<1> QED
  BY <1>1, <1>2, WaitForeground

\* AddManager, AddJob and PrioritizeNewJobAndWait do not wait.
LEMMA IndicatingWaits ==
  ASSUME IndInv, WaitInv, WaiterNotStranded, NEW f \in Foregrounds,
         \/ \E m \in Managers : AddManager(f, m)
         \/ \E j \in Jobs, p \in BOOLEAN : AddJob(f, j, p)
         \/ \E j \in Jobs : PrioritizeNewJobAndWait(f, j)
  PROVE  WaitInv' /\ WaiterNotStranded'
<1>0. TypeOK
  BY DEF IndInv
<1>1. CASE \E m \in Managers : AddManager(f, m)
  <2>1. /\ fpc[f] = "idle" /\ managers \subseteq managers'
        /\ UNCHANGED <<jobs, currentJob, managerVars, jobState, foregroundVars>>
    BY <1>1 DEF AddManager
  <2>2. \A g \in Foregrounds : g # f => Untouched(g)
    BY <2>1 DEF Untouched
  <2> QED
    BY <2>1, <2>2, WaitNotBegun
<1>2. CASE \E j \in Jobs, p \in BOOLEAN : AddJob(f, j, p)
  <2> PICK j \in Jobs, p \in BOOLEAN : AddJob(f, j, p)
    BY <1>2
  <2>1. /\ fpc[f] = "idle" /\ Owner[ManagerOf[j]] = f
        /\ UNCHANGED <<managers, currentJob, waitVars, foregroundVars>>
        /\ \A i \in Jobs : i # j => jobState'[i] = jobState[i]
        /\ jobs'.elems = jobs.elems \cup {j}
    BY <1>0 DEF AddJob, CountNewJob, Enqueue, Link, LinkToEnd, LinkToBeginning, TypeOK
  <2>2. \A m \in Managers : m # ManagerOf[j] =>
           numJobsAddedToProcessor'[m] = numJobsAddedToProcessor[m]
    BY <1>0 DEF AddJob, CountNewJob, IncrementAdded, TypeOK
  <2>3. \A g \in Foregrounds : g # f => Untouched(g)
    BY <2>1, <2>2 DEF Untouched
  <2> QED
    BY <2>1, <2>3, WaitNotBegun
<1>3. CASE \E j \in Jobs : PrioritizeNewJobAndWait(f, j)
  <2> PICK j \in Jobs : PrioritizeNewJobAndWait(f, j)
    BY <1>3
  <2>1. /\ fpc[f] = "idle" /\ Owner[ManagerOf[j]] = f
        /\ UNCHANGED <<managers, jobs, currentJob, waitVars, fmgr>>
        /\ \A i \in Jobs : i # j => jobState'[i] = jobState[i]
        /\ \A g \in Foregrounds : g # f => fpc'[g] = fpc[g] /\ fjob'[g] = fjob[g]
        /\ fpc'[f] = "process"
    BY <1>0 DEF PrioritizeNewJobAndWait, CountNewJob, ProcessInForeground, TypeOK
  <2>2. \A m \in Managers : m # ManagerOf[j] =>
           numJobsAddedToProcessor'[m] = numJobsAddedToProcessor[m]
    BY <1>0 DEF PrioritizeNewJobAndWait, CountNewJob, IncrementAdded, TypeOK
  <2>3. \A g \in Foregrounds : g # f => Untouched(g)
    BY <2>1, <2>2 DEF Untouched
  <2> QED
    BY <2>1, <2>3, WaitNotBegun
<1> QED
  BY <1>1, <1>2, <1>3

\* RemoveJob and PrioritizeJob do not wait.
LEMMA JobCallWaits ==
  ASSUME IndInv, WaitInv, WaiterNotStranded, NEW f \in Foregrounds, NEW j \in Jobs,
         RemoveJob(f, j) \/ PrioritizeJob(f, j)
  PROVE  WaitInv' /\ WaiterNotStranded'
<1>0. TypeOK
  BY DEF IndInv
<1>1. CASE RemoveJob(f, j)
  <2>1. /\ fpc[f] = "idle" /\ Owner[ManagerOf[j]] = f
        /\ UNCHANGED <<managers, currentJob, waitVars, foregroundVars>>
        /\ \A i \in Jobs : i # j => jobState'[i] = jobState[i]
        /\ jobs'.elems \subseteq jobs.elems
    BY <1>0, <1>1 DEF RemoveJob, Unlink, TypeOK
  <2>2. \A m \in Managers : m # ManagerOf[j] =>
           numJobsAddedToProcessor'[m] = numJobsAddedToProcessor[m]
    BY <1>0, <1>1 DEF RemoveJob, DecrementAdded, TypeOK
  <2>3. \A g \in Foregrounds : g # f => Untouched(g)
    BY <2>1, <2>2 DEF Untouched
  <2> QED
    BY <2>1, <2>3, WaitNotBegun
<1>2. CASE PrioritizeJob(f, j)
  <2>1. /\ fpc[f] = "idle" /\ Owner[ManagerOf[j]] = f /\ jobState[j] = "added"
        /\ ~IsBeingProcessed(j)
        /\ UNCHANGED <<managers, currentJob, managerVars, jobState, fmgr>>
        /\ \A g \in Foregrounds : g # f => fpc'[g] = fpc[g] /\ fjob'[g] = fjob[g]
        /\ fpc'[f] \in {"idle", "process"}
        /\ jobs' \in {MoveToBeginning(jobs, j), Unlink(jobs, {j})}
    BY <1>0, <1>2 DEF PrioritizeJob, ProcessInForeground, TakeFromQueue, TypeOK
  <2>2. jobs'.elems \subseteq jobs.elems
    BY <2>1, MovedElems DEF Unlink
  <2>3. \A g \in Foregrounds : g # f => Untouched(g)
    BY <2>1, <2>2 DEF Untouched
  <2> QED
    BY <2>1, <2>3, WaitNotBegun
<1> QED
  BY <1>1, <1>2

\* PrioritizeJobAndWait waits for a job that a worker has or will take.
LEMMA PrioritizeJobAndWaitWaits ==
  ASSUME IndInv, WaitInv, WaiterNotStranded, NEW f \in Foregrounds, NEW j \in Jobs,
         PrioritizeJobAndWait(f, j)
  PROVE  WaitInv' /\ WaiterNotStranded'
<1> DEFINE m == ManagerOf[j]
<1>0. TypeOK /\ m \in Managers /\ j # None
  BY JobsAssumption DEF IndInv, JobsAssumption
<1>1. /\ fpc[f] = "idle" /\ Owner[m] = f /\ jobState[j] = "added"
      /\ UNCHANGED <<managers, currentJob, numJobsAddedToProcessor, jobState, fmgr,
                     isWaitingForQueuedJobs, queuedJobsProcessed, isWaitingForJobs>>
  BY DEF PrioritizeJobAndWait, ProcessInForeground
<1>b. \A g \in Foregrounds : g # f => fpc'[g] = fpc[g] /\ fjob'[g] = fjob[g]
  BY <1>0 DEF PrioritizeJobAndWait, ProcessInForeground, TypeOK
<1>c. \/ jobs' \in {jobs, Unlink(jobs, {j})}
      \/ ~IsBeingProcessed(j) /\ jobs' = MoveToBeginning(jobs, j)
  BY DEF PrioritizeJobAndWait, TakeFromQueue
<1>2. jobs'.elems \subseteq jobs.elems
  BY <1>1, <1>c, MovedElems DEF Unlink
<1>3. CASE UNCHANGED waitVars /\ fpc'[f] = "process"
  <2>1. \A g \in Foregrounds : g # f => Untouched(g)
    BY <1>1, <1>b, <1>2, <1>3 DEF Untouched
  <2> QED
    BY <1>1, <1>3, <2>1, WaitNotBegun
<1>4. CASE /\ ~(~IsBeingProcessed(j) /\ (ForcedInThread \/ ShouldProcessInForeground(m, TRUE, numJobs)))
           /\ jobBeingWaitedUpon' = [jobBeingWaitedUpon EXCEPT ![m] = j]
           /\ jobBeingWaitedUponProcessed' = [jobBeingWaitedUponProcessed EXCEPT ![m] = FALSE]
           /\ fpc'[f] = "waitJob" /\ fjob'[f] = j
  <2>1. \A n \in Managers : n # m =>
           /\ jobBeingWaitedUpon'[n] = jobBeingWaitedUpon[n]
           /\ jobBeingWaitedUponProcessed'[n] = jobBeingWaitedUponProcessed[n]
    BY <1>0, <1>4 DEF TypeOK
  <2>2. \A g \in Foregrounds : g # f => Untouched(g)
    BY <1>1, <1>b, <1>2, <2>1 DEF Untouched
  <2>3. jobBeingWaitedUpon'[m] = j
    BY <1>0, <1>4 DEF TypeOK
  <2>4. j \in jobs'.elems => ~RequestDenied'
    <3>1. CASE IsBeingProcessed(j)
      <4>1. j \notin jobs.elems
        BY <3>1, <1>0 DEF IndInv, CurrentInv, WorkerInv, IsBeingProcessed
      <4> QED
        BY <1>2, <4>1
    <3>2. CASE ~IsBeingProcessed(j)
      BY <1>1, <1>4, <3>2 DEF ForcedInThread, RequestDenied
    <3> QED
      BY <3>1, <3>2
  <2>5. NotStranded(f)'
    BY <1>1, <1>4, <2>3, <2>4 DEF NotStranded
  <2>6. \A n \in Managers : Owner[n] = f /\ n # m => jobBeingWaitedUpon'[n] = None
    BY <1>1, <2>1 DEF WaitInv
  <2> QED
    BY <1>1, <1>4, <2>2, <2>3, <2>5, <2>6, WaitForeground
<1> QED
  BY <1>0, <1>3, <1>4 DEF PrioritizeJobAndWait, ProcessInForeground, TypeOK

\* PrioritizeManagerAndWait waits for jobs that are added, and marks the
\* manager so that the last one reports.
LEMMA PrioritizeManagerAndWaitWaits ==
  ASSUME IndInv, WaitInv, WaiterNotStranded, NEW f \in Foregrounds, NEW m \in Managers,
         PrioritizeManagerAndWait(f, m)
  PROVE  WaitInv' /\ WaiterNotStranded'
<1>0. TypeOK
  BY DEF IndInv
<1>1. /\ fpc[f] = "idle" /\ Owner[m] = f /\ m \in managers
      /\ UNCHANGED <<managers, currentJob, numJobsAddedToProcessor, jobState, fjob,
                     jobBeingWaitedUpon, jobBeingWaitedUponProcessed, isWaitingForJobs>>
      /\ \A g \in Foregrounds : g # f => fpc'[g] = fpc[g] /\ fmgr'[g] = fmgr[g]
      /\ fmgr'[f] = m /\ fpc'[f] \in {"waitQueued", "proactive"}
      /\ \A n \in Managers : n # m =>
            /\ isWaitingForQueuedJobs'[n] = isWaitingForQueuedJobs[n]
            /\ queuedJobsProcessed'[n] = queuedJobsProcessed[n]
      /\ fpc'[f] = "waitQueued" =>
            /\ numJobsAddedToProcessor[m] # 0 /\ ~(HasCallback /\ AreAllThreadsWaitingForJobs)
            /\ isWaitingForQueuedJobs'[m]
  BY <1>0 DEF PrioritizeManagerAndWait, TypeOK
<1>2. jobs'.elems = jobs.elems
  BY DEF PrioritizeManagerAndWait, MoveSetToBeginning
<1>3. \A g \in Foregrounds : g # f => Untouched(g)
  BY <1>1, <1>2 DEF Untouched
<1>4. NotStranded(f)'
  BY <1>1 DEF NotStranded, RequestDenied, AreAllThreadsWaitingForJobs
<1>5. \A n \in Managers : Owner[n] = f => jobBeingWaitedUpon'[n] = None
  BY <1>1 DEF WaitInv
<1> QED
  BY <1>1, <1>3, <1>4, <1>5, WaitForeground

\* RemoveManager aborts jobs of its own manager only.
LEMMA RemoveManagerWaits ==
  ASSUME IndInv, WaitInv, WaiterNotStranded, NEW f \in Foregrounds, NEW m \in Managers,
         RemoveManager(f, m)
  PROVE  WaitInv' /\ WaiterNotStranded'
<1> DEFINE S == jobs.elems \cap JobsOf(m)
<1>0. TypeOK
  BY DEF IndInv
<1>1. /\ fpc[f] = "idle" /\ Owner[m] = f /\ managers' = managers \ {m} /\ Abort(S)
      /\ UNCHANGED <<currentJob, fjob, isWaitingForQueuedJobs, queuedJobsProcessed>>
  BY DEF RemoveManager, Abort
<1>2. /\ \A g \in Foregrounds : g # f => fpc'[g] = fpc[g] /\ fmgr'[g] = fmgr[g]
      /\ fpc'[f] \in {"idle", "removing"}
  BY <1>0, <1>1 DEF RemoveManager, TypeOK
<1>3. \A n \in Managers : n # m =>
         /\ numJobsAddedToProcessor'[n] = numJobsAddedToProcessor[n]
         /\ jobBeingWaitedUpon[n] \notin S
  <2> TAKE n \in Managers
  <2> HAVE n # m
  <2>1. S \cap JobsOf(n) = {}
    OBVIOUS
  <2>2. Cardinality(S \cap JobsOf(n)) = 0
    BY <2>1, FS_EmptySet
  <2>5. numJobsAddedToProcessor[n] \in Nat
    BY <1>0 DEF TypeOK
  <2>6. numJobsAddedToProcessor'[n] = numJobsAddedToProcessor[n] - Cardinality(S \cap JobsOf(n))
    BY <1>1 DEF Abort
  <2>3. numJobsAddedToProcessor'[n] = numJobsAddedToProcessor[n]
    BY <2>2, <2>5, <2>6
  <2>4. jobBeingWaitedUpon[n] \notin S
    BY JobsAssumption DEF JobsAssumption, WaitInv
  <2> QED
    BY <2>3, <2>4
<1>4. /\ jobs'.elems \subseteq jobs.elems
      /\ \A i \in Jobs : ManagerOf[i] # m => jobState'[i] = jobState[i]
  BY <1>1 DEF Abort, Unlink
<1>5. \A n \in Managers :
         /\ jobBeingWaitedUpon'[n] \in {None, jobBeingWaitedUpon[n]}
         /\ n # m => /\ jobBeingWaitedUpon'[n] = jobBeingWaitedUpon[n]
                     /\ jobBeingWaitedUponProcessed'[n] = jobBeingWaitedUponProcessed[n]
  BY <1>0, <1>1, <1>3 DEF Abort, TypeOK
<1>6. \A g \in Foregrounds : g # f => Untouched(g)
  BY <1>1, <1>2, <1>3, <1>4, <1>5 DEF Untouched
<1> QED
  BY <1>1, <1>2, <1>5, <1>6, WaitNotBegun

\* Nobody waits when Close begins.
LEMMA CloseWaits ==
  ASSUME IndInv, WaitInv, NEW f \in Foregrounds, Close(f)
  PROVE  WaitInv' /\ WaiterNotStranded'
<1>0. Owner \in [Managers -> Foregrounds]
  BY JobsAssumption DEF JobsAssumption
<1>1. \A g \in Foregrounds :
         fpc[g] = "idle" /\ fpc'[g] \in {"idle", "closeWake", "closeWait", "closed"}
  BY DEF Close, IndInv, TypeOK
<1>2. \A m \in Managers : jobBeingWaitedUpon[m] = None
  BY <1>0, <1>1 DEF WaitInv
<1>3. \A m \in Managers : jobBeingWaitedUpon'[m] = None
  BY <1>2 DEF Close, Abort
<1> QED
  BY <1>1, <1>3 DEF WaitInv, WaiterNotStranded, NotStranded

\* The later steps of a call that do not wait for a single job.
LEMMA ContinueWaits ==
  ASSUME IndInv, WaitInv, WaiterNotStranded, NEW f \in Foregrounds,
         \/ ForegroundProcessed(f) \/ WaitQueuedReturns(f)
         \/ ProactiveTake(f) \/ ProactiveEnds(f) \/ ProactiveProcessed(f)
         \/ CloseWakesAll(f) \/ WaitWithAllThreadsForThreadStartedOrClosingEvent(f)
         \/ CloseReturns(f)
  PROVE  WaitInv' /\ WaiterNotStranded'
<1> USE DEF ForegroundProcessed, WaitQueuedReturns, ProactiveTake, ProactiveEnds,
            ProactiveProcessed, CloseWakesAll,
            WaitWithAllThreadsForThreadStartedOrClosingEvent, CloseReturns
<1>0. TypeOK /\ ForegroundOK(f)
  BY DEF IndInv, ForegroundInv
<1>1. UNCHANGED <<managers, currentJob, jobBeingWaitedUpon, jobBeingWaitedUponProcessed,
                  queuedJobsProcessed>>
  OBVIOUS
<1>2. \A g \in Foregrounds : g # f =>
         fpc'[g] = fpc[g] /\ fjob'[g] = fjob[g] /\ fmgr'[g] = fmgr[g]
  BY <1>0 DEF TypeOK
<1>3. /\ fpc[f] \notin {"waitJob", "removeWait"}
      /\ fpc'[f] \notin {"waitJob", "removeWait", "waitQueued"}
      /\ fpc'[f] \in {"proactive", "processProactive"} =>
            fpc[f] \in {"waitQueued", "proactive", "processProactive"} /\ fmgr'[f] = fmgr[f]
  BY <1>0 DEF TypeOK
<1>4. fpc'[f] \in {"proactive", "processProactive"} => fmgr'[f] \in managers'
  BY <1>1, <1>3 DEF WaitInv
<1>5. jobs'.elems \subseteq jobs.elems
  BY DEF Unlink
<1>6. \A m \in Managers : Owner[m] # f => isWaitingForQueuedJobs'[m] = isWaitingForQueuedJobs[m]
  <2>1. CASE WaitQueuedReturns(f)
    <3>1. Owner[fmgr[f]] = f
      BY <1>0, <2>1 DEF ForegroundOK
    <3> QED
      BY <1>0, <2>1, <3>1 DEF ClearQueuedWait, TypeOK
  <2> QED
    BY <2>1
<1>7. /\ \A i \in Jobs : Owner[ManagerOf[i]] # f => jobState'[i] = jobState[i]
      /\ \A m \in Managers : Owner[m] # f =>
            numJobsAddedToProcessor'[m] = numJobsAddedToProcessor[m]
  <2>1. CASE ForegroundProcessed(f) \/ ProactiveProcessed(f)
    <3>1. fjob[f] \in Jobs /\ Owner[ManagerOf[fjob[f]]] = f
      BY <1>0, <2>1 DEF ForegroundOK, TypeOK
    <3> QED
      BY <1>0, <2>1, <3>1 DEF DecrementAdded, TypeOK
  <2> QED
    BY <2>1
<1>8. \A g \in Foregrounds : g # f => Untouched(g)
  BY <1>1, <1>2, <1>5, <1>6, <1>7 DEF Untouched
<1> QED
  BY <1>1, <1>3, <1>4, <1>8, WaitNotBegun

\* A wait for a single job ends, and jobBeingWaitedUpon with it; or
\* RemoveManager goes on to wait for the next job that a worker has.
LEMMA SingleWaits ==
  ASSUME IndInv, WaitInv, WaiterNotStranded, NEW f \in Foregrounds,
         WaitJobReturns(f) \/ RemoveManagerWait(f)
  PROVE  WaitInv' /\ WaiterNotStranded'
<1> DEFINE m == IF fpc[f] = "waitJob" THEN ManagerOf[fjob[f]] ELSE fmgr[f]
<1>0. TypeOK /\ ForegroundOK(f)
  BY DEF IndInv, ForegroundInv
<1>1. m \in Managers /\ Owner[m] = f
  BY <1>0, JobsAssumption DEF WaitJobReturns, RemoveManagerWait, ForegroundOK, TypeOK, JobsAssumption
<1>2. /\ UNCHANGED <<managers, jobs, currentJob, numJobsAddedToProcessor, jobState,
                     isWaitingForQueuedJobs, queuedJobsProcessed>>
      /\ fpc[f] \in {"waitJob", "removing", "removeWait"}
  BY DEF WaitJobReturns, RemoveManagerWait
<1>3. \A g \in Foregrounds : g # f =>
         fpc'[g] = fpc[g] /\ fjob'[g] = fjob[g] /\ fmgr'[g] = fmgr[g]
  BY <1>0 DEF WaitJobReturns, RemoveManagerWait, TypeOK
<1>4. \A n \in Managers : n # m =>
         /\ jobBeingWaitedUpon'[n] = jobBeingWaitedUpon[n]
         /\ jobBeingWaitedUponProcessed'[n] = jobBeingWaitedUponProcessed[n]
  BY <1>0 DEF WaitJobReturns, RemoveManagerWait, TypeOK
<1>5. \A n \in Managers : Owner[n] = f /\ n # m => jobBeingWaitedUpon[n] = None
  BY <1>2 DEF WaitInv
<1>6. \A g \in Foregrounds : g # f => Untouched(g)
  BY <1>1, <1>2, <1>3, <1>4 DEF Untouched
<1>7. CASE fpc'[f] = "idle" /\ jobBeingWaitedUpon'[m] = None
  <2>1. \A n \in Managers : Owner[n] = f => jobBeingWaitedUpon'[n] = None
    BY <1>4, <1>5, <1>7
  <2>2. NotStranded(f)'
    BY <1>7 DEF NotStranded
  <2> QED
    BY <1>2, <1>6, <1>7, <2>1, <2>2, WaitForeground
<1>8. CASE /\ fpc'[f] = "removeWait" /\ fmgr'[f] = m
           /\ jobBeingWaitedUpon'[m] \in GetCurrentJobsOfManager(m)
  <2>2. ManagerOf[jobBeingWaitedUpon'[m]] = m
    BY <1>8 DEF GetCurrentJobsOfManager
  <2>3. NotStranded(f)'
    BY <1>2, <1>8 DEF NotStranded, GetCurrentJobsOfManager, IsBeingProcessed
  <2> QED
    BY <1>2, <1>4, <1>5, <1>6, <1>8, <2>2, <2>3, WaitForeground
<1> QED
  BY <1>0, <1>1, <1>7, <1>8 DEF WaitJobReturns, RemoveManagerWait, TypeOK

\* WaitInv survives the steps of workers, which end waits but begin none.
LEMMA WaitInvKept ==
  ASSUME WaitInv, UNCHANGED <<managers, fpc, fjob, fmgr>>,
         \A m \in Managers : jobBeingWaitedUpon'[m] \in {None, jobBeingWaitedUpon[m]}
  PROVE  WaitInv'
  BY DEF WaitInv

\* The steps of a worker that begin and end no job.
LEMMA IdleWorkerWaits ==
  ASSUME IndInv, WaitInv, WaiterNotStranded, NEW w \in Workers,
         \/ RunExit(w) \/ RunWait(w) \/ RunReenter(w) \/ WaitForJobReadyOrShutdown(w)
         \/ ThreadLeaves(w)
  PROVE  WaitInv' /\ WaiterNotStranded'
<1> USE DEF RunExit, RunWait, RunReenter, WaitForJobReadyOrShutdown, ThreadLeaves
<1>1. UNCHANGED <<processorVars, currentJob, managerVars, jobState, foregroundVars>>
  OBVIOUS
<1>2. RequestDenied' => RequestDenied \/ jobs'.elems = {}
  BY DEF RequestDenied, SetWaitingForJobs, IndInv, TypeOK
<1>3. \A g \in Foregrounds : Untouched(g)
  BY <1>1 DEF Untouched
<1>4. \A i \in Jobs : IsBeingProcessed(i) => IsBeingProcessed(i)'
  BY <1>1 DEF IsBeingProcessed
<1>5. \A g \in Foregrounds : NotStranded(g)'
  BY <1>2, <1>3, <1>4, StrandedKept DEF WaiterNotStranded
<1> QED
  BY <1>1, <1>5, WaitInvKept DEF WaiterNotStranded

\* RunTake moves a job from the queue to a ThreadData that shows no other.
LEMMA RunTakeWaits ==
  ASSUME IndInv, WaitInv, WaiterNotStranded, NEW w \in Workers, RunTake(w)
  PROVE  WaitInv' /\ WaiterNotStranded'
<1>1. /\ UNCHANGED <<managers, isWaitingForJobs, managerVars, jobState, foregroundVars>>
      /\ jobs'.elems \subseteq jobs.elems
  BY DEF RunTake, TakeFromQueue, Unlink
<1>2. \A i \in Jobs : currentJob[DataOf(w)] # i
  <2>1. \A v \in Workers : DataOf(v) = DataOf(w) => wjob[v] = None
    BY DEF RunTake, AtLoopHead, IndInv, WorkerInv, ServiceInv
  <2>2. DataOf(w) \in ThreadData /\ None \notin Jobs
    BY JobsAssumption DEF JobsAssumption
  <2> SUFFICES ASSUME NEW i \in Jobs, currentJob[DataOf(w)] = i PROVE FALSE
    OBVIOUS
  <2>3. \E v \in Workers : DataOf(v) = DataOf(w) /\ wjob[v] = i
    BY <2>2 DEF IndInv, CurrentInv
  <2> QED
    BY <2>1, <2>2, <2>3
<1>3. \A d \in ThreadData : d # DataOf(w) => currentJob'[d] = currentJob[d]
  BY DEF RunTake, IndInv, TypeOK
<1>4. \A i \in Jobs : IsBeingProcessed(i) => IsBeingProcessed(i)'
  BY <1>2, <1>3 DEF IsBeingProcessed
<1>5. \A g \in Foregrounds : Untouched(g)
  BY <1>1 DEF Untouched
<1>6. \A g \in Foregrounds : NotStranded(g)'
  BY <1>1, <1>4, <1>5, StrandedKept DEF WaiterNotStranded, RequestDenied
<1> QED
  BY <1>1, <1>6, WaitInvKept DEF WaiterNotStranded

\* RunProcessed reports the job to whoever waits for it, or for the last job
\* of the manager: the two never wait at once, because the same thread would.
LEMMA RunProcessedWaits ==
  ASSUME IndInv, WaitInv, WaiterNotStranded, NEW w \in Workers, RunProcessed(w)
  PROVE  WaitInv' /\ WaiterNotStranded'
<1> DEFINE j == wjob[w]
           m == ManagerOf[j]
           waitedUpon == jobBeingWaitedUpon[m] = j
           lastQueued == ~waitedUpon /\ LastQueued(m, numJobsAddedToProcessor[m] - 1)
<1>0. TypeOK
  BY DEF IndInv
<1>1. j \in Jobs /\ m \in Managers /\ j # None
  BY JobsAssumption DEF IndInv, TypeOK, WorkerInv, RunProcessed, JobsAssumption
<1>2. UNCHANGED <<managers, jobs, isWaitingForJobs, foregroundVars>>
  BY DEF RunProcessed
<1>3. /\ \A i \in Jobs : i # j => jobState'[i] = jobState[i]
      /\ \A d \in ThreadData : d # DataOf(w) => currentJob'[d] = currentJob[d]
  BY <1>0 DEF RunProcessed, TypeOK
<1>4. currentJob[DataOf(w)] = j
  BY <1>1 DEF IndInv, CurrentInv
<1>5. \A i \in Jobs : i # j /\ IsBeingProcessed(i) => IsBeingProcessed(i)'
  BY <1>3, <1>4 DEF IsBeingProcessed
<1>6. \A n \in Managers : n # m =>
         /\ jobBeingWaitedUpon'[n] = jobBeingWaitedUpon[n]
         /\ jobBeingWaitedUponProcessed'[n] = jobBeingWaitedUponProcessed[n]
         /\ isWaitingForQueuedJobs'[n] = isWaitingForQueuedJobs[n]
         /\ queuedJobsProcessed'[n] = queuedJobsProcessed[n]
         /\ numJobsAddedToProcessor'[n] = numJobsAddedToProcessor[n]
  BY <1>0 DEF RunProcessed, DecrementAdded, TypeOK
<1>7. /\ jobBeingWaitedUpon'[m] = IF waitedUpon THEN None ELSE jobBeingWaitedUpon[m]
      /\ jobBeingWaitedUponProcessed'[m] = (jobBeingWaitedUponProcessed[m] \/ waitedUpon)
      /\ isWaitingForQueuedJobs'[m] = (isWaitingForQueuedJobs[m] /\ ~lastQueued)
      /\ queuedJobsProcessed'[m] = (queuedJobsProcessed[m] \/ lastQueued)
      /\ numJobsAddedToProcessor'[m] = numJobsAddedToProcessor[m] - 1
  BY <1>0, <1>1 DEF RunProcessed, DecrementAdded, TypeOK
<1>8. \A g \in Foregrounds : NotStranded(g)'
  <2> SUFFICES ASSUME NEW g \in Foregrounds PROVE NotStranded(g)'
    OBVIOUS
  <2>0. /\ ForegroundOK(g) /\ NotStranded(g)
        /\ fjob[g] \in Jobs \cup {None} /\ fmgr[g] \in Managers \cup {None}
    BY DEF IndInv, ForegroundInv, TypeOK, WaiterNotStranded
  <2>1. CASE fpc[g] = "waitJob"
    <3> DEFINE n == ManagerOf[fjob[g]]
    <3>1. fjob[g] \in Jobs /\ n \in Managers
      BY <2>0, <2>1, JobsAssumption DEF ForegroundOK, JobsAssumption
    <3>2. jobBeingWaitedUponProcessed[n] => jobBeingWaitedUponProcessed'[n]
      BY <1>6, <1>7, <3>1
    <3>3. CASE fjob[g] = j /\ jobBeingWaitedUpon[n] = fjob[g]
      <4>1. jobBeingWaitedUponProcessed'[n]
        BY <1>7, <3>3
      <4> QED
        BY <1>2, <2>1, <4>1 DEF NotStranded
    <3>4. CASE fjob[g] # j /\ jobBeingWaitedUpon[n] = fjob[g]
      <4>1. jobBeingWaitedUpon'[n] = fjob[g] /\ jobState'[fjob[g]] = jobState[fjob[g]]
        BY <1>3, <1>6, <1>7, <3>1, <3>4
      <4> QED
        BY <1>2, <2>0, <2>1, <3>2, <4>1 DEF NotStranded, RequestDenied
    <3> QED
      BY <1>2, <2>0, <2>1, <3>2, <3>3, <3>4 DEF NotStranded
  <2>2. CASE fpc[g] = "removeWait"
    <3> DEFINE n == fmgr[g]
    <3>1. n \in Managers
      BY <2>0, <2>2 DEF ForegroundOK
    <3>2. jobBeingWaitedUponProcessed[n] => jobBeingWaitedUponProcessed'[n]
      BY <1>6, <1>7, <3>1
    <3>3. CASE jobBeingWaitedUpon[n] \in GetCurrentJobsOfManager(n)
      <4>1. CASE jobBeingWaitedUpon[n] = j
        <5>1. n = m
          BY <3>3, <4>1 DEF GetCurrentJobsOfManager
        <5> QED
          BY <1>2, <1>7, <2>2, <4>1, <5>1 DEF NotStranded
      <4>2. CASE jobBeingWaitedUpon[n] # j
        <5>1. jobBeingWaitedUpon'[n] = jobBeingWaitedUpon[n]
          BY <1>6, <1>7, <3>1, <4>2
        <5>2. PICK k \in JobsOf(n) : k = jobBeingWaitedUpon[n] /\ IsBeingProcessed(k)
          BY <3>3 DEF GetCurrentJobsOfManager
        <5>3. IsBeingProcessed(k)' /\ jobBeingWaitedUpon'[n] = k
          BY <1>5, <4>2, <5>1, <5>2
        <5>4. k \in GetCurrentJobsOfManager(fmgr[g])'
          BY <1>2, <5>2, <5>3 DEF GetCurrentJobsOfManager
        <5> QED
          BY <1>2, <2>2, <5>3, <5>4 DEF NotStranded
      <4> QED
        BY <4>1, <4>2
    <3> QED
      BY <1>2, <2>0, <2>2, <3>2, <3>3 DEF NotStranded
  <2>3. CASE fpc[g] = "waitQueued"
    <3> DEFINE n == fmgr[g]
    <3>1. n \in Managers /\ Owner[n] = g
      BY <2>0, <2>3 DEF ForegroundOK
    <3>2. queuedJobsProcessed[n] => queuedJobsProcessed'[n]
      BY <1>6, <1>7, <3>1
    <3>3. CASE n # m
      BY <1>2, <1>6, <2>0, <2>3, <3>1, <3>3 DEF NotStranded, RequestDenied
    <3>4. CASE n = m
      <4>1. ~waitedUpon
        BY <1>1, <2>3, <3>1, <3>4 DEF WaitInv
      <4>2. numJobsAddedToProcessor[n] \in Nat
        BY <1>0, <3>1 DEF TypeOK
      <4>3. \/ queuedJobsProcessed'[n]
            \/ isWaitingForQueuedJobs'[n] /\ numJobsAddedToProcessor'[n] # 0
            \/ ~isWaitingForQueuedJobs[n]
        <5>1. CASE isWaitingForQueuedJobs[n] /\ numJobsAddedToProcessor[n] - 1 = 0
          BY <1>7, <3>4, <4>1, <5>1 DEF LastQueued
        <5>2. CASE isWaitingForQueuedJobs[n] /\ numJobsAddedToProcessor[n] - 1 # 0
          <6>1. ~lastQueued /\ numJobsAddedToProcessor'[n] # 0
            BY <1>7, <3>4, <5>2 DEF LastQueued
          <6>2. isWaitingForQueuedJobs'[n]
            BY <1>7, <3>4, <5>2, <6>1
          <6> QED
            BY <6>1, <6>2
        <5> QED
          BY <5>1, <5>2
      <4> QED
        BY <1>2, <2>0, <2>3, <3>2, <4>3 DEF NotStranded, RequestDenied
    <3> QED
      BY <3>3, <3>4
  <2> QED
    BY <1>2, <2>1, <2>2, <2>3 DEF NotStranded
<1>9. WaitInv'
  BY <1>2, <1>6, <1>7, WaitInvKept
<1> QED
  BY <1>8, <1>9 DEF WaiterNotStranded

\* The initial state: nobody waits.
LEMMA InitWaits == Init => WaitInv /\ WaiterNotStranded
  BY DEF Init, WaitInv, WaiterNotStranded, NotStranded

\* Every step of every thread preserves WaitInv and WaiterNotStranded.
LEMMA NextWaits ==
  IndInv /\ WaitInv /\ WaiterNotStranded /\ [Next]_vars => WaitInv' /\ WaiterNotStranded'
<1> SUFFICES ASSUME IndInv, WaitInv, WaiterNotStranded, [Next]_vars
             PROVE  WaitInv' /\ WaiterNotStranded'
  OBVIOUS
<1>1. ASSUME NEW w \in Workers, Worker(w) PROVE WaitInv' /\ WaiterNotStranded'
  BY <1>1, IdleWorkerWaits, RunTakeWaits, RunProcessedWaits DEF Worker, LockedStep
<1>2. ASSUME NEW f \in Foregrounds, Call(f) PROVE WaitInv' /\ WaiterNotStranded'
  BY <1>2, IndicatingWaits, RemoveManagerWaits, PrioritizeManagerAndWaitWaits,
     JobCallWaits, PrioritizeJobAndWaitWaits, CloseWaits DEF Call
<1>3. ASSUME NEW f \in Foregrounds, Continue(f) PROVE WaitInv' /\ WaiterNotStranded'
  BY <1>3, ContinueWaits, SingleWaits DEF Continue
<1>4. CASE UNCHANGED vars
  <2>1. \A g \in Foregrounds : Untouched(g)
    BY <1>4 DEF vars, Untouched
  <2>2. \A i \in Jobs : IsBeingProcessed(i) => IsBeingProcessed(i)'
    BY <1>4 DEF vars, IsBeingProcessed
  <2>3. \A g \in Foregrounds : NotStranded(g)'
    BY <1>4, <2>1, <2>2, StrandedKept DEF vars, WaiterNotStranded, RequestDenied
  <2> QED
    BY <1>4, <2>3, WaitInvKept DEF vars, WaiterNotStranded
<1> QED
  BY <1>1, <1>2, <1>3, <1>4 DEF Next, Terminated

\* WaitInv and WaiterNotStranded hold in every reachable state.
LEMMA WaitsAlways == Spec => [](WaitInv /\ WaiterNotStranded)
  BY InitWaits, NextWaits, IndInvAlways, PTL DEF Spec

\* No thread waits for a job, for queued jobs or in RemoveManager without an
\* event that is set, or a job that will set it when it ends.
THEOREM NobodyIsStranded == Spec => []WaiterNotStranded
  BY WaitsAlways, PTL

-----------------------------------------------------------------------------
(* The refinement of JobService.                                           *)

\* All the invariants.
AllInv == IndInv /\ WakeInv /\ WaitInv

\* The abstract managers change only with managers and with the threads that
\* are inside RemoveManager.
Removing(m) ==
    \E f \in Foregrounds : fmgr[f] = m /\ fpc[f] \in {"removing", "removeWait"}

\* The abstract phase changes only with isClosed and with the threads that are
\* inside Close.
InClose == \E f \in Foregrounds : fpc[f] \in {"closeWake", "closeWait"}

\* The abstract status of a job, before and after a step.
LEMMA StatusIs ==
  ASSUME NEW j \in Jobs
  PROVE  /\ statusBar[j] = IF jobState[j] \in {"processed", "aborted"} THEN jobState[j]
                           ELSE IF j \in jobs.elems THEN "queued"
                           ELSE IF jobState[j] = "added" \/ HeldByForeground(j) # {}
                           THEN "running" ELSE "new"
         /\ statusBar'[j] = IF jobState'[j] \in {"processed", "aborted"} THEN jobState'[j]
                            ELSE IF j \in jobs'.elems THEN "queued"
                            ELSE IF jobState'[j] = "added" \/ HeldByForeground(j)' # {}
                            THEN "running" ELSE "new"
  BY DEF statusBar

\* The hands of the foreground threads do not change with a step that keeps
\* their control points and jobs.
LEMMA HandsKept ==
  ASSUME NEW j \in Jobs,
         \A f \in Foregrounds :
            \/ fpc'[f] = fpc[f] /\ fjob'[f] = fjob[f]
            \/ /\ fpc[f] \notin {"process", "processProactive"} \/ fjob[f] # j
               /\ fpc'[f] \notin {"process", "processProactive"} \/ fjob'[f] # j
  PROVE  HeldByForeground(j)' = HeldByForeground(j)
  BY DEF HeldByForeground

\* A step that leaves alone what the abstract managers and the abstract phase
\* are made of.
LEMMA ManagersKept ==
  ASSUME UNCHANGED <<managers, isClosed>>,
         \A f \in Foregrounds :
            \/ fpc'[f] = fpc[f] /\ fmgr'[f] = fmgr[f]
            \/ /\ fpc[f] \notin {"removing", "removeWait", "closeWake", "closeWait"}
               /\ fpc'[f] \notin {"removing", "removeWait", "closeWake", "closeWait"}
  PROVE  UNCHANGED <<managerBar, phaseBar>>
<1>1. \A m \in Managers : Removing(m)' <=> Removing(m)
  BY DEF Removing
<1>2. InClose' <=> InClose
  BY DEF InClose
<1>3. managerBar' = managerBar
  BY <1>1 DEF managerBar, Removing
<1> QED
  BY <1>2, <1>3 DEF phaseBar, InClose

\* A step that changes the abstract status of one job.
LEMMA OneJob ==
  ASSUME NEW j \in Jobs, NEW s,
         \A i \in Jobs : statusBar'[i] = IF i = j THEN s ELSE statusBar[i]
  PROVE  statusBar' = [statusBar EXCEPT ![j] = s]
<1>1. statusBar' = [i \in Jobs |-> statusBar'[i]] /\ statusBar = [i \in Jobs |-> statusBar[i]]
  BY DEF statusBar
<1> HIDE DEF statusBar
<1> QED
  BY <1>1

\* A step that changes the abstract state of one manager.
LEMMA OneManager ==
  ASSUME NEW m \in Managers, NEW s,
         \A n \in Managers : managerBar'[n] = IF n = m THEN s ELSE managerBar[n]
  PROVE  managerBar' = [managerBar EXCEPT ![m] = s]
<1>1. /\ managerBar' = [n \in Managers |-> managerBar'[n]]
      /\ managerBar = [n \in Managers |-> managerBar[n]]
  BY DEF managerBar
<1> HIDE DEF managerBar
<1> QED
  BY <1>1

\* The abstract state of a manager, before and after a step.
LEMMA ManagerIs ==
  ASSUME NEW m \in Managers
  PROVE  /\ managerBar[m] = IF m \in managers THEN "in"
                            ELSE IF Removing(m) THEN "leaving" ELSE "out"
         /\ managerBar'[m] = IF m \in managers' THEN "in"
                             ELSE IF Removing(m)' THEN "leaving" ELSE "out"
  BY DEF managerBar, Removing

\* A step that JobService does not see.
LEMMA NoJob ==
  ASSUME UNCHANGED <<managerBar, phaseBar>>, \A i \in Jobs : statusBar'[i] = statusBar[i]
  PROVE  UNCHANGED Service!svars
<1>1. statusBar' = [i \in Jobs |-> statusBar'[i]] /\ statusBar = [i \in Jobs |-> statusBar[i]]
  BY DEF statusBar
<1>2. statusBar' = statusBar
  <2> HIDE DEF statusBar
  <2> QED BY <1>1
<1> QED
  BY <1>2 DEF Service!svars

\* Before Close the abstract phase is open, and stays open.
LEMMA OpenPhase ==
  /\ ~isClosed => phaseBar = "open"
  /\ ~isClosed' => phaseBar' = "open"
  BY DEF phaseBar

\* A queued job belongs to a manager that is registered.
LEMMA QueuedManagerIn ==
  ASSUME IndInv, NEW j \in jobs.elems
  PROVE  j \in Jobs /\ jobState[j] = "added" /\ managerBar[ManagerOf[j]] = "in"
<1>1. j \in Jobs /\ jobState[j] = "added" /\ ManagerOf[j] \in Managers
  BY JobsAssumption DEF IndInv, TypeOK, ListsOf, QueueInv, JobsAssumption
<1>2. ManagerOf[j] \in managers
  BY <1>1 DEF IndInv, RemovedInv
<1> QED
  BY <1>1, <1>2 DEF managerBar

\* The steps of a worker that JobService does not see.
LEMMA IdleWorkerRefines ==
  ASSUME AllInv, NEW w \in Workers,
         \/ RunExit(w) \/ RunWait(w) \/ RunReenter(w) \/ WaitForJobReadyOrShutdown(w)
         \/ ThreadLeaves(w)
  PROVE  UNCHANGED Service!svars
<1>1. UNCHANGED <<managers, jobs, isClosed, jobState, fpc, fjob, fmgr>>
  BY DEF RunExit, RunWait, RunReenter, WaitForJobReadyOrShutdown, ThreadLeaves
<1>2. UNCHANGED <<managerBar, phaseBar>>
  BY <1>1, ManagersKept
<1>3. statusBar' = statusBar
  BY <1>1 DEF statusBar, HeldByForeground
<1> QED
  BY <1>2, <1>3 DEF Service!svars

\* RunTake starts a queued job; after Close it is a critical one, and with
\* dedicated threads Close has not returned.
LEMMA RunTakeRefines ==
  ASSUME AllInv, NEW w \in Workers, RunTake(w), ~HasCallback \/ ~isClosed
  PROVE  \E j \in Jobs : Service!Start(j)
<1> USE DEF AllInv
<1>1. PICK j \in jobs.elems : jobs' = Unlink(jobs, {j})
  BY DEF RunTake, TakeFromQueue
<1>2. /\ UNCHANGED <<managers, isClosed, jobState, fpc, fjob, fmgr>>
      /\ wpc[w] = "loop" /\ jobs'.elems = jobs.elems \ {j}
  BY <1>1 DEF RunTake, AtLoopHead, Unlink
<1>3. j \in Jobs /\ jobState[j] = "added" /\ managerBar[ManagerOf[j]] = "in"
  BY QueuedManagerIn
<1>4. UNCHANGED <<managerBar, phaseBar>>
  BY <1>2, ManagersKept
<1>5. \A i \in Jobs : HeldByForeground(i)' = HeldByForeground(i)
  BY <1>2, HandsKept
<1>6. \A i \in Jobs : statusBar'[i] = IF i = j THEN "running" ELSE statusBar[i]
  BY <1>2, <1>3, <1>5, StatusIs
<1>7. statusBar[j] = "queued"
  BY <1>3, StatusIs
<1>8. phaseBar = "open" \/ (phaseBar = "closing" /\ j \in Critical)
  <2>1. isClosed => ~CloseReturned /\ j \in Critical
    BY <1>2 DEF WakeInv, DedicatedInv, ClosedInv
  <2>2. isClosed => \E f \in Foregrounds : fpc[f] \in {"closeWake", "closeWait"}
    BY <2>1 DEF CloseReturned
  <2>3. CASE isClosed
    <3>1. phaseBar = "closing"
      BY <2>2, <2>3 DEF phaseBar
    <3> QED
      BY <2>1, <2>3, <3>1
  <2>4. CASE ~isClosed
    BY <2>4, OpenPhase
  <2> QED
    BY <2>3, <2>4
<1>9. statusBar' = [statusBar EXCEPT ![j] = "running"]
  BY <1>3, <1>6, OneJob
<1> QED
  BY <1>3, <1>4, <1>7, <1>8, <1>9 DEF Service!Start

\* RunProcessed finishes the job.
LEMMA RunProcessedRefines ==
  ASSUME AllInv, NEW w \in Workers, RunProcessed(w)
  PROVE  \E j \in Jobs : Service!Finish(j)
<1> USE DEF AllInv
<1> DEFINE j == wjob[w]
<1>1. j \in Jobs /\ jobState[j] = "added" /\ j \notin jobs.elems
  BY JobsAssumption DEF IndInv, TypeOK, WorkerInv, RunProcessed, JobsAssumption
<1>2. /\ UNCHANGED <<managers, jobs, isClosed, fpc, fjob, fmgr>>
      /\ \A i \in Jobs : jobState'[i] = IF i = j THEN "processed" ELSE jobState[i]
  BY DEF RunProcessed, IndInv, TypeOK
<1>4. UNCHANGED <<managerBar, phaseBar>>
  BY <1>2, ManagersKept
<1>5. \A i \in Jobs : HeldByForeground(i)' = HeldByForeground(i)
  BY <1>2, HandsKept
<1>6. \A i \in Jobs : statusBar'[i] = IF i = j THEN "processed" ELSE statusBar[i]
  BY <1>2, <1>5, StatusIs
<1>7. statusBar[j] = "running"
  BY <1>1, StatusIs
<1>9. statusBar' = [statusBar EXCEPT ![j] = "processed"]
  BY <1>1, <1>6, OneJob
<1> QED
  BY <1>1, <1>4, <1>7, <1>9 DEF Service!Finish

\* AddManager registers a manager that is not being removed.
LEMMA AddManagerRefines ==
  ASSUME AllInv, NEW f \in Foregrounds, NEW m \in Managers, AddManager(f, m)
  PROVE  Service!Register(m)
<1> USE DEF AllInv
<1>1. /\ fpc[f] = "idle" /\ Owner[m] = f /\ ~isClosed /\ m \notin managers
      /\ managers' = managers \cup {m}
      /\ UNCHANGED <<jobs, isClosed, jobState, fpc, fjob, fmgr>>
  BY DEF AddManager
<1>2. ~Removing(m) /\ \A n \in Managers : Removing(n)' <=> Removing(n)
  BY <1>1 DEF Removing, IndInv, ForegroundInv, ForegroundOK
<1>3. managerBar[m] = "out" /\ managerBar' = [managerBar EXCEPT ![m] = "in"]
  BY <1>1, <1>2 DEF managerBar, Removing
<1>4. statusBar' = statusBar
  BY <1>1 DEF statusBar, HeldByForeground
<1> QED
  BY <1>1, <1>3, <1>4, OpenPhase DEF Service!Register

\* The calls with a job, before Close: what they have in common.
LEMMA JobCall ==
  ASSUME AllInv, NEW f \in Foregrounds, NEW j \in Jobs, Owner[ManagerOf[j]] = f,
         fpc[f] = "idle", ManagerOf[j] \in managers, ~isClosed,
         UNCHANGED <<managers, isClosed, fmgr>>,
         fpc'[f] \in {"idle", "process", "waitJob"},
         \A g \in Foregrounds : g # f => fpc'[g] = fpc[g] /\ fjob'[g] = fjob[g],
         fpc'[f] = "process" => fjob'[f] = j,
         \A i \in Jobs : i # j =>
            jobState'[i] = jobState[i] /\ (i \in jobs'.elems <=> i \in jobs.elems)
  PROVE  /\ UNCHANGED <<managerBar, phaseBar>> /\ phaseBar = "open"
         /\ managerBar[ManagerOf[j]] = "in"
         /\ \A i \in Jobs : i # j => statusBar'[i] = statusBar[i]
         /\ HeldByForeground(j) = {}
         /\ HeldByForeground(j)' = IF fpc'[f] = "process" THEN {f} ELSE {}
<1>1. \A i \in Jobs : i # j => HeldByForeground(i)' = HeldByForeground(i)
  BY HandsKept
<1>2. HeldByForeground(j) = {}
  BY NotInForeground DEF AllInv
<1>3. HeldByForeground(j)' = IF fpc'[f] = "process" THEN {f} ELSE {}
  BY <1>2 DEF HeldByForeground
<1>4. UNCHANGED <<managerBar, phaseBar>>
  BY ManagersKept
<1>5. managerBar[ManagerOf[j]] = "in"
  BY JobsAssumption DEF managerBar, JobsAssumption
<1>6. \A i \in Jobs : i # j => statusBar'[i] = statusBar[i]
  BY <1>1, StatusIs
<1> QED
  BY <1>2, <1>3, <1>4, <1>5, <1>6, OpenPhase

\* AddJob queues a new job.
LEMMA AddJobRefines ==
  ASSUME AllInv, NEW f \in Foregrounds, NEW j \in Jobs, NEW p \in BOOLEAN, AddJob(f, j, p)
  PROVE  Service!Add(j)
<1> USE DEF AllInv
<1>1. /\ Owner[ManagerOf[j]] = f /\ fpc[f] = "idle" /\ ManagerOf[j] \in managers /\ ~isClosed
      /\ UNCHANGED <<managers, isClosed, fpc, fjob, fmgr>> /\ jobState[j] = "new"
      /\ \A i \in Jobs : jobState'[i] = IF i = j THEN "added" ELSE jobState[i]
      /\ jobs'.elems = jobs.elems \cup {j}
  BY DEF AddJob, CountNewJob, Enqueue, Link, LinkToEnd, LinkToBeginning, IndInv, TypeOK
<1>2. /\ UNCHANGED <<managerBar, phaseBar>> /\ phaseBar = "open"
      /\ managerBar[ManagerOf[j]] = "in"
      /\ \A i \in Jobs : i # j => statusBar'[i] = statusBar[i]
      /\ HeldByForeground(j) = {}
  BY <1>1, JobCall
<1>3. j \notin jobs.elems
  BY <1>1, NotAddedIsFree
<1>4. statusBar[j] = "new" /\ statusBar'[j] = "queued"
  BY <1>1, <1>2, <1>3, StatusIs
<1>5. statusBar' = [statusBar EXCEPT ![j] = "queued"]
  BY <1>2, <1>4, OneJob
<1> QED
  BY <1>2, <1>4, <1>5 DEF Service!Add

\* RemoveJob gives a queued job back.
LEMMA RemoveJobRefines ==
  ASSUME AllInv, NEW f \in Foregrounds, NEW j \in Jobs, RemoveJob(f, j)
  PROVE  Service!Withdraw(j)
<1> USE DEF AllInv
<1>1. /\ Owner[ManagerOf[j]] = f /\ fpc[f] = "idle" /\ ManagerOf[j] \in managers /\ ~isClosed
      /\ UNCHANGED <<managers, isClosed, fpc, fjob, fmgr>>
      /\ jobState[j] = "added" /\ ~IsBeingProcessed(j)
      /\ \A i \in Jobs : jobState'[i] = IF i = j THEN "new" ELSE jobState[i]
      /\ jobs'.elems = jobs.elems \ {j}
  BY DEF RemoveJob, Unlink, IndInv, TypeOK
<1>2. /\ UNCHANGED <<managerBar, phaseBar>> /\ phaseBar = "open"
      /\ managerBar[ManagerOf[j]] = "in"
      /\ \A i \in Jobs : i # j => statusBar'[i] = statusBar[i]
      /\ HeldByForeground(j)' = {}
  BY <1>1, JobCall
<1>3. j \in jobs.elems
  BY <1>1, AddedIsQueued
<1>4. statusBar[j] = "queued" /\ statusBar'[j] = "new"
  BY <1>1, <1>2, <1>3, StatusIs
<1>5. statusBar' = [statusBar EXCEPT ![j] = "new"]
  BY <1>2, <1>4, OneJob
<1> QED
  BY <1>2, <1>4, <1>5 DEF Service!Withdraw

\* PrioritizeNewJobAndWait starts a job that was never queued.
LEMMA PrioritizeNewJobAndWaitRefines ==
  ASSUME AllInv, NEW f \in Foregrounds, NEW j \in Jobs, PrioritizeNewJobAndWait(f, j)
  PROVE  Service!Start(j)
<1> USE DEF AllInv
<1>1. /\ Owner[ManagerOf[j]] = f /\ fpc[f] = "idle" /\ ManagerOf[j] \in managers /\ ~isClosed
      /\ UNCHANGED <<managers, jobs, isClosed, fmgr>> /\ jobState[j] = "new"
      /\ \A i \in Jobs : jobState'[i] = IF i = j THEN "added" ELSE jobState[i]
      /\ \A g \in Foregrounds : g # f => fpc'[g] = fpc[g] /\ fjob'[g] = fjob[g]
      /\ fpc'[f] = "process" /\ fjob'[f] = j
  BY DEF PrioritizeNewJobAndWait, CountNewJob, ProcessInForeground, IndInv, TypeOK
<1>2. /\ UNCHANGED <<managerBar, phaseBar>> /\ phaseBar = "open"
      /\ managerBar[ManagerOf[j]] = "in"
      /\ \A i \in Jobs : i # j => statusBar'[i] = statusBar[i]
      /\ HeldByForeground(j) = {}
  BY <1>1, JobCall
<1>3. j \notin jobs.elems
  BY <1>1, NotAddedIsFree
<1>4. statusBar[j] = "new" /\ statusBar'[j] = "running"
  BY <1>1, <1>2, <1>3, StatusIs
<1>5. statusBar' = [statusBar EXCEPT ![j] = "running"]
  BY <1>2, <1>4, OneJob
<1> QED
  BY <1>2, <1>4, <1>5 DEF Service!Start

\* PrioritizeJob and PrioritizeJobAndWait start the job in the foreground, or
\* only change the order of the queue.
LEMMA PrioritizeJobRefines ==
  ASSUME AllInv, NEW f \in Foregrounds, NEW j \in Jobs,
         PrioritizeJob(f, j) \/ PrioritizeJobAndWait(f, j)
  PROVE  Service!Start(j) \/ UNCHANGED Service!svars
<1> USE DEF AllInv
<1>0. TypeOK
  BY DEF IndInv
<1>1. /\ Owner[ManagerOf[j]] = f /\ fpc[f] = "idle" /\ ManagerOf[j] \in managers /\ ~isClosed
      /\ UNCHANGED <<managers, isClosed, jobState, fmgr>> /\ jobState[j] = "added"
  BY DEF PrioritizeJob, PrioritizeJobAndWait, ProcessInForeground
<1>2. \A g \in Foregrounds : g # f => fpc'[g] = fpc[g] /\ fjob'[g] = fjob[g]
  BY <1>0 DEF PrioritizeJob, PrioritizeJobAndWait, ProcessInForeground, TypeOK
<1>3. \/ /\ fpc'[f] = "process" /\ fjob'[f] = j /\ ~IsBeingProcessed(j)
         /\ jobs' = Unlink(jobs, {j})
      \/ /\ fpc'[f] \in {"idle", "waitJob"}
         /\ jobs' = jobs \/ (~IsBeingProcessed(j) /\ jobs' = MoveToBeginning(jobs, j))
  <2>1. CASE PrioritizeJob(f, j)
    <3>1. ~IsBeingProcessed(j)
      BY <2>1 DEF PrioritizeJob
    <3>2. CASE TakeFromQueue(j) /\ ProcessInForeground(f, j)
      BY <1>0, <3>1, <3>2 DEF ProcessInForeground, TakeFromQueue, TypeOK
    <3>3. CASE jobs' = MoveToBeginning(jobs, j) /\ UNCHANGED fpc
      BY <1>1, <3>1, <3>3
    <3> QED
      BY <2>1, <3>2, <3>3 DEF PrioritizeJob
  <2>2. CASE PrioritizeJobAndWait(f, j)
    <3>1. CASE ~IsBeingProcessed(j) /\ TakeFromQueue(j) /\ ProcessInForeground(f, j)
      BY <1>0, <3>1 DEF ProcessInForeground, TakeFromQueue, TypeOK
    <3>2. CASE /\ jobs' = IF IsBeingProcessed(j) THEN jobs ELSE MoveToBeginning(jobs, j)
               /\ fpc' = [fpc EXCEPT ![f] = "waitJob"]
      BY <1>0, <3>2 DEF TypeOK
    <3> QED
      BY <2>2, <3>1, <3>2 DEF PrioritizeJobAndWait
  <2> QED
    BY <2>1, <2>2
<1>4. CASE /\ fpc'[f] = "process" /\ fjob'[f] = j /\ ~IsBeingProcessed(j)
           /\ jobs' = Unlink(jobs, {j})
  <2>1. j \in jobs.elems /\ jobs'.elems = jobs.elems \ {j}
    BY <1>1, <1>4, MovedElems DEF Unlink
  <2>2. /\ UNCHANGED <<managerBar, phaseBar>> /\ phaseBar = "open"
        /\ managerBar[ManagerOf[j]] = "in"
        /\ \A i \in Jobs : i # j => statusBar'[i] = statusBar[i]
    BY <1>1, <1>2, <1>4, <2>1, JobCall
  <2>3. statusBar[j] = "queued" /\ statusBar'[j] = "running"
    BY <1>1, <2>1, StatusIs
  <2>4. statusBar' = [statusBar EXCEPT ![j] = "running"]
    BY <2>2, <2>3, OneJob
  <2> QED
    BY <2>2, <2>3, <2>4 DEF Service!Start
<1>5. CASE /\ fpc'[f] \in {"idle", "waitJob"}
           /\ jobs' = jobs \/ (~IsBeingProcessed(j) /\ jobs' = MoveToBeginning(jobs, j))
  <2>1. jobs'.elems = jobs.elems
    BY <1>1, <1>5, MovedElems
  <2>2. /\ UNCHANGED <<managerBar, phaseBar>>
        /\ \A i \in Jobs : i # j => statusBar'[i] = statusBar[i]
        /\ HeldByForeground(j) = {} /\ HeldByForeground(j)' = {}
    BY <1>1, <1>2, <1>5, <2>1, JobCall
  <2>3. statusBar'[j] = statusBar[j]
    BY <1>1, <2>1, <2>2, StatusIs
  <2> QED
    BY <2>2, <2>3, NoJob
<1> QED
  BY <1>3, <1>4, <1>5

\* The steps of a foreground thread that JobService does not see: the waits,
\* and the parts of Close that do not end it.
LEMMA QuietCalls ==
  ASSUME AllInv, NEW f \in Foregrounds,
         \/ \E m \in Managers : PrioritizeManagerAndWait(f, m)
         \/ WaitJobReturns(f) \/ WaitQueuedReturns(f) \/ ProactiveEnds(f)
         \/ CloseReturns(f)
  PROVE  UNCHANGED Service!svars
<1> USE DEF AllInv
<1>0. TypeOK
  BY DEF IndInv
<1>1. /\ UNCHANGED <<managers, isClosed, jobState>>
      /\ fpc[f] \in {"idle", "waitJob", "waitQueued", "proactive", "closed"}
      /\ fpc'[f] \in {"idle", "waitQueued", "proactive"}
  <2>1. CASE \E m \in Managers : PrioritizeManagerAndWait(f, m)
    BY <1>0, <2>1 DEF PrioritizeManagerAndWait, TypeOK
  <2>2. CASE WaitJobReturns(f)
    BY <1>0, <2>2 DEF WaitJobReturns, TypeOK
  <2>3. CASE WaitQueuedReturns(f)
    BY <1>0, <2>3 DEF WaitQueuedReturns, TypeOK
  <2>4. CASE ProactiveEnds(f) \/ CloseReturns(f)
    BY <1>0, <2>4 DEF ProactiveEnds, CloseReturns, TypeOK
  <2> QED
    BY <2>1, <2>2, <2>3, <2>4
<1>2. \A g \in Foregrounds : g # f =>
         fpc'[g] = fpc[g] /\ fjob'[g] = fjob[g] /\ fmgr'[g] = fmgr[g]
  <2>1. CASE \E m \in Managers : PrioritizeManagerAndWait(f, m)
    BY <1>0, <2>1 DEF PrioritizeManagerAndWait, TypeOK
  <2>2. CASE WaitJobReturns(f)
    BY <1>0, <2>2 DEF WaitJobReturns, TypeOK
  <2>3. CASE WaitQueuedReturns(f)
    BY <1>0, <2>3 DEF WaitQueuedReturns, TypeOK
  <2>4. CASE ProactiveEnds(f) \/ CloseReturns(f)
    BY <1>0, <2>4 DEF ProactiveEnds, CloseReturns, TypeOK
  <2> QED
    BY <2>1, <2>2, <2>3, <2>4
<1>3. jobs'.elems = jobs.elems
  BY DEF PrioritizeManagerAndWait, WaitJobReturns, WaitQueuedReturns, ProactiveEnds,
         CloseReturns, MoveSetToBeginning
<1>4. UNCHANGED <<managerBar, phaseBar>>
  BY <1>1, <1>2, ManagersKept
<1>5. \A i \in Jobs : HeldByForeground(i)' = HeldByForeground(i)
  BY <1>1, <1>2, HandsKept
<1>6. \A i \in Jobs : statusBar'[i] = statusBar[i]
  BY <1>1, <1>3, <1>5, StatusIs
<1> QED
  BY <1>4, <1>6, NoJob

\* CloseWakesAll stays inside Close.
LEMMA CloseWakesAllRefines ==
  ASSUME AllInv, NEW f \in Foregrounds, CloseWakesAll(f)
  PROVE  UNCHANGED Service!svars
<1> USE DEF AllInv
<1>0. TypeOK
  BY DEF IndInv
<1>1. /\ UNCHANGED <<managers, jobs, isClosed, jobState, fjob, fmgr>>
      /\ fpc[f] = "closeWake" /\ fpc'[f] = "closeWait"
      /\ \A g \in Foregrounds : g # f => fpc'[g] = fpc[g]
  BY <1>0 DEF CloseWakesAll, TypeOK
<1>2. InClose /\ InClose' /\ \A m \in Managers : Removing(m)' <=> Removing(m)
  BY <1>1 DEF InClose, Removing
<1>3. UNCHANGED <<managerBar, phaseBar>>
  BY <1>1, <1>2 DEF managerBar, phaseBar, InClose, Removing
<1>4. \A i \in Jobs : HeldByForeground(i)' = HeldByForeground(i)
  BY <1>1, HandsKept
<1>5. \A i \in Jobs : statusBar'[i] = statusBar[i]
  BY <1>1, <1>4, StatusIs
<1> QED
  BY <1>3, <1>5, NoJob

\* The foreground finishes the job that it processes.
LEMMA ForegroundProcessedRefines ==
  ASSUME AllInv, NEW f \in Foregrounds, ForegroundProcessed(f) \/ ProactiveProcessed(f)
  PROVE  \E j \in Jobs : Service!Finish(j)
<1> USE DEF AllInv
<1> DEFINE j == fjob[f]
<1>0. TypeOK
  BY DEF IndInv
<1>1. /\ UNCHANGED <<managers, jobs, isClosed, fmgr>>
      /\ jobState' = [jobState EXCEPT ![j] = "processed"]
      /\ fpc[f] \in {"process", "processProactive"} /\ fpc'[f] \in {"idle", "proactive"}
      /\ \A g \in Foregrounds : g # f => fpc'[g] = fpc[g] /\ fjob'[g] = fjob[g]
  BY <1>0 DEF ForegroundProcessed, ProactiveProcessed, TypeOK
<1>2. /\ j \in Jobs /\ j \notin jobs.elems
      /\ jobState[j] \in {"added", "new"} /\ HeldByForeground(j) # {}
  <2>1. j \in Jobs /\ j \notin jobs.elems
    BY <1>0, <1>1 DEF IndInv, ForegroundInv, ForegroundOK, TypeOK
  <2>2. jobState[j] \in {"added", "new"}
    BY <1>1 DEF IndInv, ForegroundInv, ForegroundOK
  <2>3. f \in HeldByForeground(j)
    BY <1>1 DEF HeldByForeground
  <2> QED
    BY <2>1, <2>2, <2>3
<1>3. UNCHANGED <<managerBar, phaseBar>>
  BY <1>1, ManagersKept
<1>4. \A i \in Jobs : i # j => HeldByForeground(i)' = HeldByForeground(i)
  BY <1>1, HandsKept
<1>5. statusBar[j] = "running"
  BY <1>2, StatusIs
<1>6. \A i \in Jobs : statusBar'[i] = IF i = j THEN "processed" ELSE statusBar[i]
  <2>1. \A i \in Jobs : jobState'[i] = IF i = j THEN "processed" ELSE jobState[i]
    BY <1>0, <1>1 DEF TypeOK
  <2> HIDE DEF j
  <2> QED
    BY <1>1, <1>4, <2>1, StatusIs
<1>7. statusBar' = [statusBar EXCEPT ![j] = "processed"]
  BY <1>2, <1>6, OneJob
<1> QED
  BY <1>2, <1>3, <1>5, <1>7 DEF Service!Finish

\* ProactiveTake starts a queued job or one that the manager held back.
LEMMA ProactiveTakeRefines ==
  ASSUME AllInv, NEW f \in Foregrounds, ProactiveTake(f)
  PROVE  \E j \in Jobs : Service!Start(j)
<1> USE DEF AllInv
<1>0. TypeOK
  BY DEF IndInv
<1>1. PICK j \in JobsOf(fmgr[f]) :
         /\ j \in jobs.elems \/ jobState[j] = "new"
         /\ jobs' = Unlink(jobs, {j})
         /\ fjob' = [fjob EXCEPT ![f] = j]
  BY DEF ProactiveTake, QueuedForProactive
<1>2. /\ UNCHANGED <<managers, isClosed, jobState, fmgr>>
      /\ fpc[f] = "proactive" /\ fpc'[f] = "processProactive" /\ fjob'[f] = j
      /\ \A g \in Foregrounds : g # f => fpc'[g] = fpc[g] /\ fjob'[g] = fjob[g]
      /\ j \in Jobs /\ ManagerOf[j] = fmgr[f] /\ jobs'.elems = jobs.elems \ {j}
  BY <1>0, <1>1 DEF ProactiveTake, TypeOK, Unlink
<1>3. ~isClosed /\ fmgr[f] \in managers /\ Owner[fmgr[f]] = f
  BY <1>2 DEF WakeInv, ClosedInv, WaitInv, IndInv, ForegroundInv, ForegroundOK
<1>4. phaseBar = "open" /\ managerBar[ManagerOf[j]] = "in"
  BY <1>0, <1>2, <1>3, OpenPhase DEF managerBar, TypeOK
<1>5. UNCHANGED <<managerBar, phaseBar>>
  BY <1>2, ManagersKept
<1>6. \A i \in Jobs : i # j => HeldByForeground(i)' = HeldByForeground(i)
  BY <1>2, HandsKept
<1>7. HeldByForeground(j) = {} /\ f \in HeldByForeground(j)'
  <2>1. HeldByForeground(j) = {}
    BY <1>2, <1>3, NotInForeground
  <2>2. f \in HeldByForeground(j)'
    BY <1>2 DEF HeldByForeground
  <2> QED
    BY <2>1, <2>2
<1>8. statusBar[j] \in {"new", "queued"}
  <2>1. jobState[j] \in {"new", "added"} /\ (jobState[j] = "added" => j \in jobs.elems)
    BY <1>1 DEF IndInv, QueueInv
  <2> QED
    BY <1>2, <1>7, <2>1, StatusIs
<1>9. \A i \in Jobs : statusBar'[i] = IF i = j THEN "running" ELSE statusBar[i]
  <2>1. jobState[j] \in {"new", "added"}
    BY <1>1 DEF IndInv, QueueInv
  <2>2. statusBar'[j] = "running"
    BY <1>2, <1>7, <2>1, StatusIs
  <2>3. \A i \in Jobs : i # j => statusBar'[i] = statusBar[i]
    BY <1>2, <1>6, StatusIs
  <2> QED
    BY <2>2, <2>3
<1>10. statusBar' = [statusBar EXCEPT ![j] = "running"]
  BY <1>2, <1>9, OneJob
<1> QED
  BY <1>2, <1>4, <1>5, <1>8, <1>10 DEF Service!Start

\* The abstract status after Abort: the jobs of S were queued.
LEMMA AbortRefines ==
  ASSUME AllInv, NEW S \in SUBSET jobs.elems, Abort(S),
         \A i \in Jobs : HeldByForeground(i)' = HeldByForeground(i)
  PROVE  statusBar' = [i \in Jobs |-> IF i \in S THEN "aborted" ELSE statusBar[i]]
<1>1. \A i \in Jobs : jobState'[i] = IF i \in S THEN "aborted" ELSE jobState[i]
  BY DEF Abort
<1>2. jobs'.elems = jobs.elems \ S
  BY DEF Abort, Unlink
<1>3. \A i \in Jobs : statusBar'[i] = IF i \in S THEN "aborted" ELSE statusBar[i]
  BY <1>1, <1>2, StatusIs
<1>4. statusBar' = [i \in Jobs |-> statusBar'[i]]
  BY DEF statusBar
<1> HIDE DEF statusBar
<1> QED
  BY <1>3, <1>4

\* The queued jobs of the abstract service are those of the queue.
LEMMA QueuedIs ==
  ASSUME IndInv
  PROVE  \A j \in Jobs : statusBar[j] = "queued" <=> j \in jobs.elems
  BY StatusIs DEF IndInv, QueueInv, TypeOK

\* RemoveManager aborts the queued jobs of the manager, which is gone at once
\* if none of its jobs is running.
LEMMA RemoveManagerRefines ==
  ASSUME AllInv, NEW f \in Foregrounds, NEW m \in Managers, RemoveManager(f, m)
  PROVE  Service!Remove(m)
<1> USE DEF AllInv
<1> DEFINE queued == jobs.elems \cap JobsOf(m)
<1>0. TypeOK
  BY DEF IndInv
<1>1. /\ fpc[f] = "idle" /\ Owner[m] = f /\ m \in managers /\ managers' = managers \ {m}
      /\ Abort(queued) /\ UNCHANGED <<isClosed, fjob>>
      /\ \A g \in Foregrounds : g # f => fpc'[g] = fpc[g] /\ fmgr'[g] = fmgr[g]
  BY <1>0 DEF RemoveManager, TypeOK
<1>2. \/ /\ fpc'[f] = "idle" /\ numJobsAddedToProcessor'[m] = 0
      \/ fpc'[f] = "removing" /\ fmgr'[f] = m
  BY <1>0, <1>1 DEF RemoveManager, TypeOK
<1>3. \A i \in Jobs : HeldByForeground(i)' = HeldByForeground(i)
  BY <1>1, <1>2, HandsKept
<1>4. statusBar' = [i \in Jobs |-> IF i \in queued THEN "aborted" ELSE statusBar[i]]
  BY <1>1, <1>3, AbortRefines
<1>5. Service!InState(Service!Own(m), "queued") = queued
  BY <1>0, QueuedIs DEF Service!InState, Service!Own, TypeOK, ListsOf
<1>6. InClose' <=> InClose
  BY <1>1, <1>2 DEF InClose
<1>7. phaseBar' = phaseBar
  BY <1>1, <1>6 DEF phaseBar, InClose
<1>8. managerBar[m] = "in"
  BY <1>1 DEF managerBar
<1>9. \A n \in Managers : n # m => (Removing(n)' <=> Removing(n))
  BY <1>1, <1>2 DEF Removing
<1>10. ~Removing(m)
  BY <1>1 DEF Removing, IndInv, ForegroundInv, ForegroundOK
<1>11. Removing(m)' <=> fpc'[f] = "removing"
  BY <1>1, <1>2, <1>10 DEF Removing
<1>12. managerBar' = [managerBar EXCEPT ![m] = IF fpc'[f] = "removing" THEN "leaving" ELSE "out"]
  <2>1. \A n \in Managers : managerBar'[n] =
           IF n = m THEN (IF fpc'[f] = "removing" THEN "leaving" ELSE "out") ELSE managerBar[n]
    BY <1>1, <1>9, <1>11, ManagerIs
  <2> QED
    BY <2>1, OneManager
<1>13. fpc'[f] # "removing" => Service!InState(Service!Own(m), "running") = {}
  <2> SUFFICES ASSUME fpc'[f] # "removing", NEW j \in JobsOf(m), statusBar[j] = "running"
               PROVE  FALSE
    BY DEF Service!InState, Service!Own
  <2>1. HeldByForeground(j) = {}
    BY <1>1, NotInForeground
  <2>2. jobState[j] = "added" /\ j \notin jobs.elems
    BY <2>1, StatusIs
  <2>3. jobState'[j] = "added"
    BY <1>1, <2>2 DEF Abort
  <2>4. IndInv'
    BY RemoveManagerStep
  <2>5. m \notin managers' /\ ~Removing(m)'
    BY <1>1, <1>11
  <2> QED
    BY <2>3, <2>4, <2>5 DEF IndInv, RemovedInv, Removing
<1> QED
  BY <1>2, <1>4, <1>5, <1>7, <1>8, <1>12, <1>13 DEF Service!Remove, Service!Aborted

\* RemoveManagerWait ends RemoveManager when no worker has a job of the manager.
LEMMA RemoveManagerWaitRefines ==
  ASSUME AllInv, NEW f \in Foregrounds, RemoveManagerWait(f)
  PROVE  (\E m \in Managers : Service!Leave(m)) \/ UNCHANGED Service!svars
<1> USE DEF AllInv
<1>0. TypeOK
  BY DEF IndInv
<1>1. /\ UNCHANGED <<managers, jobs, isClosed, jobState, fjob>>
      /\ fpc[f] \in {"removing", "removeWait"} /\ fpc'[f] \in {"removeWait", "idle"}
      /\ \A g \in Foregrounds : g # f => fpc'[g] = fpc[g] /\ fmgr'[g] = fmgr[g]
  BY <1>0 DEF RemoveManagerWait, TypeOK
<1>2. PICK m \in Managers : m = fmgr[f] /\ Owner[m] = f
  BY <1>0, <1>1 DEF IndInv, ForegroundInv, ForegroundOK, TypeOK
<1>3. \/ fpc'[f] = "removeWait" /\ fmgr'[f] = m
      \/ fpc'[f] = "idle" /\ GetCurrentJobsOfManager(m) = {}
  BY <1>0, <1>2 DEF RemoveManagerWait, TypeOK
<1>4. \A i \in Jobs : HeldByForeground(i)' = HeldByForeground(i)
  BY <1>1, HandsKept
<1>5. \A i \in Jobs : statusBar'[i] = statusBar[i]
  BY <1>1, <1>4, StatusIs
<1>6. InClose' <=> InClose
  BY <1>1 DEF InClose
<1>7. phaseBar' = phaseBar
  BY <1>1, <1>6 DEF phaseBar, InClose
<1>8. \A n \in Managers : n # m => (Removing(n)' <=> Removing(n))
  BY <1>1, <1>3, <1>2 DEF Removing
<1>9. CASE m \in managers \/ fpc'[f] = "removeWait"
  <2>1. managerBar'[m] = managerBar[m]
    BY <1>1, <1>3, <1>2, <1>9 DEF managerBar
  <2>2. \A n \in Managers : managerBar'[n] = managerBar[n]
    BY <1>1, <1>8, <2>1 DEF managerBar, Removing
  <2>3. managerBar' = managerBar
    BY <2>2 DEF managerBar
  <2> QED
    BY <1>5, <1>7, <2>3, NoJob
<1>10. CASE m \notin managers /\ fpc'[f] = "idle"
  <2>1. Removing(m) /\ ~Removing(m)'
    <3>1. \A g \in Foregrounds : fpc[g] \in {"removing", "removeWait"} /\ fmgr[g] = m => g = f
      BY <1>2 DEF IndInv, ForegroundInv, ForegroundOK
    <3>2. Removing(m)
      BY <1>1, <1>2 DEF Removing
    <3>3. \A g \in Foregrounds : ~(fmgr'[g] = m /\ fpc'[g] \in {"removing", "removeWait"})
      BY <1>1, <1>10, <3>1
    <3> QED
      BY <3>2, <3>3 DEF Removing
  <2>2. managerBar[m] = "leaving" /\ managerBar' = [managerBar EXCEPT ![m] = "out"]
    <3>1. managerBar[m] = "leaving"
      BY <1>2, <1>10, <2>1, ManagerIs
    <3>2. \A n \in Managers : managerBar'[n] = IF n = m THEN "out" ELSE managerBar[n]
      BY <1>1, <1>8, <1>10, <2>1, ManagerIs
    <3> QED
      BY <1>2, <3>1, <3>2, OneManager
  <2>3. Service!InState(Service!Own(m), "running") = {}
    <3> SUFFICES ASSUME NEW j \in JobsOf(m), statusBar[j] = "running" PROVE FALSE
      BY DEF Service!InState, Service!Own
    <3>1. HeldByForeground(j) = {}
      BY <1>1, <1>2, NotInForeground
    <3>2. jobState[j] = "added" /\ j \notin jobs.elems
      BY <3>1, StatusIs
    <3>3. PICK w \in Workers : wjob[w] = j
      BY <3>1, <3>2 DEF IndInv, AddedInv, HeldByWorker
    <3>4. IsBeingProcessed(j)
      BY <3>3 DEF IsBeingProcessed, IndInv, CurrentInv
    <3> QED
      BY <1>3, <1>10, <3>4 DEF GetCurrentJobsOfManager
  <2>4. statusBar' = statusBar
    BY <1>1, <1>4 DEF statusBar
  <2>5. Service!Leave(m)
    BY <1>7, <2>2, <2>3, <2>4 DEF Service!Leave
  <2> QED
    BY <1>2, <2>5
<1> QED
  BY <1>1, <1>9, <1>10

\* Close aborts the queued jobs that are not critical.
LEMMA CloseRefines ==
  ASSUME AllInv, NEW f \in Foregrounds, Close(f), ~HasCallback
  PROVE  Service!Close
<1> USE DEF AllInv
<1>0. TypeOK
  BY DEF IndInv
<1>1. /\ \A g \in Foregrounds : fpc[g] = "idle"
      /\ ~isClosed /\ isClosed' /\ Abort(jobs.elems \ Critical)
      /\ UNCHANGED <<managers, fjob, fmgr>>
      /\ fpc'[f] \in {"closeWake", "closeWait"}
      /\ \A g \in Foregrounds : g # f => fpc'[g] = fpc[g]
  BY <1>0 DEF Close, AbortedByClose, TypeOK
<1>2. \A i \in Jobs : HeldByForeground(i)' = HeldByForeground(i)
  BY <1>1, HandsKept
<1>3. statusBar' = [i \in Jobs |-> IF i \in jobs.elems \ Critical THEN "aborted" ELSE statusBar[i]]
  BY <1>1, <1>2, AbortRefines
<1>4. Service!InState(Jobs \ Critical, "queued") = jobs.elems \ Critical
  BY <1>0, QueuedIs DEF Service!InState, TypeOK, ListsOf
<1>5. phaseBar = "open" /\ phaseBar' = "closing"
  BY <1>1 DEF phaseBar
<1>6. \A n \in Managers : ~Removing(n) /\ ~Removing(n)'
  BY <1>1 DEF Removing
<1>7. managerBar' = managerBar
  BY <1>1, <1>6 DEF managerBar, Removing
<1> QED
  BY <1>3, <1>4, <1>5, <1>7 DEF Service!Close, Service!Aborted

\* With dedicated threads, Close returns when every worker has left, and then
\* nothing is left to do.
LEMMA CloseWaitedRefines ==
  ASSUME AllInv, NEW f \in Foregrounds, WaitWithAllThreadsForThreadStartedOrClosingEvent(f),
         ~HasCallback
  PROVE  Service!CloseReturn \/ UNCHANGED Service!svars
<1> USE DEF AllInv
<1>0. TypeOK
  BY DEF IndInv
<1>1. /\ UNCHANGED <<managers, jobs, isClosed, jobState, fjob, fmgr>>
      /\ fpc[f] = "closeWait" /\ fpc'[f] = "closed" /\ AllThreadsClosing
      /\ \A g \in Foregrounds : g # f => fpc'[g] = fpc[g]
  BY <1>0 DEF WaitWithAllThreadsForThreadStartedOrClosingEvent, TypeOK
<1>2. \A w \in Workers : wpc[w] = "exited"
  BY <1>1 DEF WakeInv, DedicatedInv, AllThreadsClosing
<1>3. isClosed /\ jobs.elems = {}
  BY <1>2, JobsAssumption DEF WakeInv, DedicatedInv, JobsAssumption
<1>4. \A j \in Jobs : statusBar[j] \notin {"queued", "running"}
  <2> TAKE j \in Jobs
  <2>1. HeldByForeground(j) = {}
    BY <1>3 DEF HeldByForeground, WakeInv, ClosedInv
  <2>2. HeldByWorker(j) = {}
    BY <1>0, <1>2, JobsAssumption DEF HeldByWorker, IndInv, WorkerInv, JobsAssumption
  <2>3. jobState[j] # "added"
    BY <1>3, <2>1, <2>2 DEF IndInv, AddedInv
  <2> QED
    BY <1>0, <1>3, <2>1, <2>3, StatusIs DEF TypeOK
<1>5. statusBar' = statusBar
  <2>1. \A i \in Jobs : HeldByForeground(i)' = HeldByForeground(i)
    BY <1>1, HandsKept
  <2> QED
    BY <1>1, <2>1 DEF statusBar
<1>6. \A n \in Managers : Removing(n)' <=> Removing(n)
  BY <1>1 DEF Removing
<1>7. managerBar' = managerBar
  BY <1>1, <1>6 DEF managerBar, Removing
<1>8. phaseBar = "closing"
  BY <1>1, <1>3 DEF phaseBar
<1>9. CASE InClose'
  <2>1. phaseBar' = phaseBar
    BY <1>1, <1>3, <1>8, <1>9 DEF phaseBar, InClose
  <2> QED
    BY <1>5, <1>7, <2>1 DEF Service!svars
<1>10. CASE ~InClose'
  <2>1. phaseBar' = "closed"
    BY <1>1, <1>3, <1>10 DEF phaseBar, InClose
  <2> QED
    BY <1>4, <1>5, <1>7, <1>8, <2>1 DEF Service!CloseReturn, Service!InState
<1> QED
  BY <1>9, <1>10

\* Before Close is called nobody is seen to return from it.
LEMMA OpenCloseWaits ==
  ASSUME AllInv, NEW f \in Foregrounds, WaitWithAllThreadsForThreadStartedOrClosingEvent(f),
         ~isClosed'
  PROVE  UNCHANGED Service!svars
<1>1. /\ UNCHANGED <<managers, jobs, isClosed, jobState, fjob, fmgr>>
      /\ fpc[f] = "closeWait" /\ fpc'[f] = "closed"
      /\ \A g \in Foregrounds : g # f => fpc'[g] = fpc[g]
  BY DEF WaitWithAllThreadsForThreadStartedOrClosingEvent, AllInv, IndInv, TypeOK
<1>2. \A n \in Managers : Removing(n)' <=> Removing(n)
  BY <1>1 DEF Removing
<1>3. managerBar' = managerBar
  BY <1>1, <1>2 DEF managerBar, Removing
<1>4. phaseBar' = phaseBar
  BY <1>1, OpenPhase
<1>5. \A i \in Jobs : HeldByForeground(i)' = HeldByForeground(i)
  BY <1>1, HandsKept
<1>6. \A i \in Jobs : statusBar'[i] = statusBar[i]
  BY <1>1, <1>5, StatusIs
<1> QED
  BY <1>3, <1>4, <1>6, NoJob

\* The initial states map to initial states.
LEMMA InitRefines == Init => Service!Init
<1> SUFFICES ASSUME Init PROVE Service!Init
  OBVIOUS
<1>1. statusBar = [j \in Jobs |-> "new"]
  BY DEF Init, statusBar, HeldByForeground, EmptyList
<1>2. managerBar = [m \in Managers |-> "out"] /\ phaseBar = "open"
  BY DEF Init, managerBar, phaseBar
<1> QED
  BY <1>1, <1>2 DEF Service!Init

\* Every step maps to a step of JobService or is one that it does not see:
\* all of them with dedicated threads, those before Close with a service.
LEMMA NextRefines ==
  ASSUME AllInv, [Next]_vars, ~HasCallback \/ ~isClosed'
  PROVE  [Service!Next]_(Service!svars)
<1>1. ASSUME NEW w \in Workers, Worker(w) PROVE [Service!Next]_(Service!svars)
  <2>1. RunTake(w) => ~HasCallback \/ ~isClosed
    BY DEF RunTake
  <2> QED
    BY <1>1, <2>1, IdleWorkerRefines, RunTakeRefines, RunProcessedRefines
       DEF Worker, LockedStep, Service!Next
<1>2. ASSUME NEW f \in Foregrounds, NEW m \in Managers,
             AddManager(f, m) \/ RemoveManager(f, m) \/ PrioritizeManagerAndWait(f, m)
      PROVE  [Service!Next]_(Service!svars)
  BY <1>2, AddManagerRefines, RemoveManagerRefines, QuietCalls DEF Service!Next
<1>3. ASSUME NEW f \in Foregrounds, NEW j \in Jobs,
             \/ \E prioritize \in BOOLEAN : AddJob(f, j, prioritize)
             \/ RemoveJob(f, j) \/ PrioritizeJob(f, j)
             \/ PrioritizeNewJobAndWait(f, j) \/ PrioritizeJobAndWait(f, j)
      PROVE  [Service!Next]_(Service!svars)
  BY <1>3, AddJobRefines, RemoveJobRefines, PrioritizeJobRefines,
     PrioritizeNewJobAndWaitRefines DEF Service!Next
<1>4. ASSUME NEW f \in Foregrounds, Close(f) PROVE [Service!Next]_(Service!svars)
  <2>1. isClosed'
    BY <1>4 DEF Close
  <2> QED
    BY <1>4, <2>1, CloseRefines DEF Service!Next
<1>5. ASSUME NEW f \in Foregrounds, Continue(f) PROVE [Service!Next]_(Service!svars)
  <2>1. CASE \/ WaitJobReturns(f) \/ WaitQueuedReturns(f) \/ ProactiveEnds(f)
             \/ CloseReturns(f) \/ CloseWakesAll(f)
    BY <2>1, QuietCalls, CloseWakesAllRefines
  <2>2. CASE ForegroundProcessed(f) \/ ProactiveProcessed(f)
    BY <2>2, ForegroundProcessedRefines DEF Service!Next
  <2>3. CASE ProactiveTake(f)
    BY <2>3, ProactiveTakeRefines DEF Service!Next
  <2>4. CASE RemoveManagerWait(f)
    BY <2>4, RemoveManagerWaitRefines DEF Service!Next
  <2>5. CASE WaitWithAllThreadsForThreadStartedOrClosingEvent(f) /\ ~HasCallback
    BY <2>5, CloseWaitedRefines DEF Service!Next
  <2>6. CASE WaitWithAllThreadsForThreadStartedOrClosingEvent(f) /\ ~isClosed'
    BY <2>6, OpenCloseWaits
  <2> QED
    BY <1>5, <2>1, <2>2, <2>3, <2>4, <2>5, <2>6 DEF Continue
<1>6. ASSUME UNCHANGED vars PROVE UNCHANGED Service!svars
  <2>1. UNCHANGED <<managers, jobs, isClosed, jobState, fpc, fjob, fmgr>>
    BY <1>6 DEF vars
  <2>2. UNCHANGED <<managerBar, phaseBar>>
    BY <2>1, ManagersKept
  <2>3. statusBar' = statusBar
    BY <2>1 DEF statusBar, HeldByForeground
  <2> QED
    BY <2>2, <2>3 DEF Service!svars
<1>7. ASSUME NEW f \in Foregrounds, Call(f) PROVE [Service!Next]_(Service!svars)
  BY <1>2, <1>3, <1>4, <1>7 DEF Call
<1> QED
  BY <1>1, <1>5, <1>6, <1>7 DEF Next, Terminated

\* With dedicated threads, BackgroundJobProcessor keeps the promises of
\* JobService, for every number of threads, managers and jobs: no job is run
\* twice or lost, none is run for a manager that RemoveManager has let go, and
\* when Close has returned nothing runs or is queued.
THEOREM DedicatedThreadsKeepPromises == ~HasCallback => (Spec => KeepsPromises)
<1> SUFFICES ASSUME ~HasCallback PROVE Spec => KeepsPromises
  OBVIOUS
<1>1. IndInv /\ WakeInv /\ WaitInv => AllInv
  BY DEF AllInv
<1>2. AllInv /\ [Next]_vars => [Service!Next]_(Service!svars)
  BY NextRefines
<1> QED
  BY <1>1, <1>2, InitRefines, IndInvAlways, WakeInvAlways, WaitsAlways, PTL
     DEF Spec, KeepsPromises, Service!Spec

\* Also with a thread service, whose callbacks come late or are denied, every
\* step until Close is called is one that JobService allows.
THEOREM OpenProcessorKeepsPromises == Spec => OpenKeepsPromises
<1>1. IndInv /\ WakeInv /\ WaitInv => AllInv
  BY DEF AllInv
<1>2. AllInv /\ [Next]_vars => [~isClosed' => [Service!Next]_(Service!svars)]_vars
  BY NextRefines
<1> QED
  BY <1>1, <1>2, IndInvAlways, WakeInvAlways, WaitsAlways, PTL DEF Spec, OpenKeepsPromises
=============================================================================
