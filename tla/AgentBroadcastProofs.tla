------------------------ MODULE AgentBroadcastProofs ------------------------
(***************************************************************************)
(* The reference count of SharedContents is exact and its storage is not   *)
(* used after it is freed, for any number of contents and objects.  The    *)
(* agents of ch: for any number of children the reference counts are exact *)
(* and nothing leaks; with one child the host keeps the rule of the        *)
(* content handles, so that nothing is used after it is freed.             *)
(***************************************************************************)
EXTENDS AgentBroadcast, FiniteSetTheorems, TLAPS

-----------------------------------------------------------------------------
(* Shared storage under the rule of the content handles.                   *)

\* The invariant: the three properties together are inductive.
SharedInv == SharedTypeOK /\ RefCountExact /\ NoUseAfterFree

\* How many objects there are when one is made or finalized.
LEMMA ObjectCounts ==
  ASSUME SharedTypeOK, NEW k \in Contents, NEW o \in Objects
  PROVE  /\ Cardinality(objects[k]) \in Nat
         /\ o \notin objects[k] => Cardinality(objects[k] \cup {o}) = Cardinality(objects[k]) + 1
         /\ o \in objects[k] => /\ Cardinality(objects[k]) >= 1
                                /\ Cardinality(objects[k] \ {o}) = Cardinality(objects[k]) - 1
         /\ Cardinality(objects[k] \ {o}) = 0 => objects[k] \ {o} = {}
<1>1. IsFiniteSet(objects[k])
  BY SharedAssumption, FS_Subset DEF SharedTypeOK
<1>2. Cardinality(objects[k]) \in Nat
  BY <1>1, FS_CardinalityType
<1>3. o \notin objects[k] => Cardinality(objects[k] \cup {o}) = Cardinality(objects[k]) + 1
  BY <1>1, FS_AddElement
<1>4. /\ IsFiniteSet(objects[k] \ {o})
      /\ o \in objects[k] => Cardinality(objects[k] \ {o}) = Cardinality(objects[k]) - 1
  BY <1>1, FS_RemoveElement
<1>5. Cardinality(objects[k] \ {o}) \in Nat
  BY <1>4, FS_CardinalityType
<1>6. Cardinality(objects[k] \ {o}) = 0 => objects[k] \ {o} = {}
  BY <1>4, FS_EmptySet
<1> QED
  BY <1>2, <1>3, <1>4, <1>5, <1>6

\* Only the count, the objects and the handles of contents k are changed, and
\* they agree again.
LEMMA CountKept ==
  ASSUME SharedInv, NEW k \in Contents, NEW O \in SUBSET Objects, NEW h \in 0..MaxHandles,
         NEW n \in Nat, NEW s \in {"none", "allocated", "dying", "freed"},
         storage' = [storage EXCEPT ![k] = s], refCount' = [refCount EXCEPT ![k] = n],
         objects' = [objects EXCEPT ![k] = O], handles' = [handles EXCEPT ![k] = h],
         n = Cardinality(O) + h, s # "allocated" => O = {} /\ h = 0
  PROVE  SharedInv'
<1> USE DEF SharedInv, SharedTypeOK
<1>1. SharedTypeOK'
  OBVIOUS
<1>2. /\ storage'[k] = s /\ refCount'[k] = n /\ objects'[k] = O /\ handles'[k] = h
      /\ \A j \in Contents \ {k} : /\ storage'[j] = storage[j] /\ refCount'[j] = refCount[j]
                                   /\ objects'[j] = objects[j] /\ handles'[j] = handles[j]
  OBVIOUS
<1>3. RefCountExact'
  BY <1>2 DEF RefCountExact
<1>4. NoUseAfterFree'
  BY <1>2 DEF NoUseAfterFree
<1> QED
  BY <1>1, <1>3, <1>4

\* A variable that is left alone is assigned its own value at k.
LEMMA SameAtK ==
  ASSUME SharedTypeOK, NEW k \in Contents
  PROVE  /\ storage = [storage EXCEPT ![k] = storage[k]]
         /\ refCount = [refCount EXCEPT ![k] = refCount[k]]
         /\ objects = [objects EXCEPT ![k] = objects[k]]
         /\ handles = [handles EXCEPT ![k] = handles[k]]
  BY DEF SharedTypeOK

\* Every step of a runtime or of the host keeps the invariant.
LEMMA SharedNextKeeps == SharedInv /\ [SharedNext]_sharedVars => SharedInv'
<1> SUFFICES ASSUME SharedInv, [SharedNext]_sharedVars PROVE SharedInv'
  OBVIOUS
<1> USE DEF SharedInv
<1>1. CASE UNCHANGED sharedVars
  BY <1>1 DEF sharedVars, SharedTypeOK, RefCountExact, NoUseAfterFree
<1>2. ASSUME NEW k \in Contents PROVE
         /\ storage[k] \in {"none", "allocated", "dying", "freed"} /\ refCount[k] \in Nat
         /\ objects[k] \in SUBSET Objects /\ handles[k] \in 0..MaxHandles /\ MaxHandles \in Nat
         /\ refCount[k] = Cardinality(objects[k]) + handles[k]
         /\ storage[k] # "allocated" => objects[k] = {} /\ handles[k] = 0
  BY SharedAssumption DEF SharedTypeOK, RefCountExact, NoUseAfterFree
<1>3. ASSUME NEW k \in Contents, NEW o \in Objects, Create(k, o) PROVE SharedInv'
  <2>1. Cardinality({o}) = 1
    BY FS_Singleton
  <2>2. handles[k] = 0
    BY <1>2, <1>3 DEF Create
  <2>3. 1 = Cardinality({o}) + handles[k]
    BY <2>1, <2>2
  <2>4. /\ storage' = [storage EXCEPT ![k] = "allocated"] /\ refCount' = [refCount EXCEPT ![k] = 1]
        /\ objects' = [objects EXCEPT ![k] = {o}] /\ handles' = [handles EXCEPT ![k] = handles[k]]
    BY <1>3, SameAtK DEF Create, InitiallyReferenced
  <2> QED
    BY <1>2, <2>3, <2>4, CountKept
<1>4. ASSUME NEW k \in Contents, NEW o \in Objects, GetContent(k, o) PROVE SharedInv'
  <2>1. handles[k] + 1 \in 0..MaxHandles /\ refCount[k] + 1 \in Nat
        /\ refCount[k] + 1 = Cardinality(objects[k]) + (handles[k] + 1)
    <3>1. Cardinality(objects[k]) \in Nat
      BY ObjectCounts
    <3>2. handles[k] < MaxHandles
      BY <1>4 DEF GetContent
    <3> QED
      BY <1>2, <3>1, <3>2
  <2>2. storage[k] = "allocated"
    BY <1>2, <1>4 DEF GetContent
  <2>3. /\ storage' = [storage EXCEPT ![k] = storage[k]]
        /\ refCount' = [refCount EXCEPT ![k] = refCount[k] + 1]
        /\ objects' = [objects EXCEPT ![k] = objects[k]]
        /\ handles' = [handles EXCEPT ![k] = handles[k] + 1]
    BY <1>4, SameAtK DEF GetContent, AddRef
  <2> QED
    BY <1>2, <2>1, <2>2, <2>3, CountKept
<1>5. ASSUME NEW k \in Contents, NEW o \in Objects, CreateWithSharedContent(k, o) PROVE SharedInv'
  <2> DEFINE O == objects[k] \cup {o}
  <2>1. O \in SUBSET Objects /\ refCount[k] + 1 \in Nat
        /\ refCount[k] + 1 = Cardinality(O) + handles[k]
    BY <1>2, <1>5, ObjectCounts DEF CreateWithSharedContent, Fresh
  <2>2. storage[k] = "allocated"
    BY <1>2, <1>5 DEF CreateWithSharedContent
  <2>3. /\ storage' = [storage EXCEPT ![k] = storage[k]]
        /\ refCount' = [refCount EXCEPT ![k] = refCount[k] + 1]
        /\ objects' = [objects EXCEPT ![k] = O]
        /\ handles' = [handles EXCEPT ![k] = handles[k]]
    BY <1>5, SameAtK DEF CreateWithSharedContent, Attach, AddRef
  <2> HIDE DEF O
  <2> QED
    BY <1>2, <2>1, <2>2, <2>3, CountKept
<1>6. ASSUME NEW k \in Contents, NEW o \in Objects, FinalizeRelease(k, o) PROVE SharedInv'
  <2> DEFINE O == objects[k] \ {o}
             s == IF refCount[k] = 1 THEN "dying" ELSE storage[k]
  <2>1. O \in SUBSET Objects /\ refCount[k] - 1 \in Nat
        /\ refCount[k] - 1 = Cardinality(O) + handles[k]
    <3>1. /\ Cardinality(objects[k]) \in Nat /\ Cardinality(objects[k]) >= 1
          /\ Cardinality(O) = Cardinality(objects[k]) - 1
      BY <1>6, ObjectCounts DEF FinalizeRelease
    <3>2. O \in SUBSET Objects
      BY <1>2
    <3> HIDE DEF O
    <3> QED
      BY <1>2, <3>1, <3>2
  <2>2. storage[k] = "allocated"
    BY <1>2, <1>6 DEF FinalizeRelease
  <2>3. refCount[k] = 1 => Cardinality(O) = 0 /\ handles[k] = 0
    BY <1>2, <1>6, <2>1, ObjectCounts DEF FinalizeRelease
  <2>4. s # "allocated" => O = {} /\ handles[k] = 0
    BY <2>2, <2>3, ObjectCounts
  <2>5. /\ storage' = [storage EXCEPT ![k] = s]
        /\ refCount' = [refCount EXCEPT ![k] = refCount[k] - 1]
        /\ objects' = [objects EXCEPT ![k] = O]
        /\ handles' = [handles EXCEPT ![k] = handles[k]]
    BY <1>6, SameAtK DEF FinalizeRelease, Release, LastReference
  <2>6. s \in {"none", "allocated", "dying", "freed"}
    BY <1>2
  <2> HIDE DEF O, s
  <2> QED
    BY <1>2, <2>1, <2>4, <2>5, <2>6, CountKept
<1>7. ASSUME NEW k \in Contents, ReleaseHandle(k) PROVE SharedInv'
  <2>1. handles[k] - 1 \in 0..MaxHandles /\ storage[k] = "allocated"
    BY <1>2, <1>7 DEF ReleaseHandle
  <2>2. Cardinality(objects[k]) \in Nat
    BY SharedAssumption, FS_Subset, FS_CardinalityType DEF SharedTypeOK
  <2>3. refCount[k] - 1 \in Nat /\ refCount[k] - 1 = Cardinality(objects[k]) + (handles[k] - 1)
    BY <1>2, <1>7, <2>2 DEF ReleaseHandle
  <2>4. /\ storage' = [storage EXCEPT ![k] = storage[k]]
        /\ refCount' = [refCount EXCEPT ![k] = refCount[k] - 1]
        /\ objects' = [objects EXCEPT ![k] = objects[k]]
        /\ handles' = [handles EXCEPT ![k] = handles[k] - 1]
    BY <1>7, SameAtK DEF ReleaseHandle, Release
  <2> QED
    BY <1>2, <2>1, <2>3, <2>4, CountKept
<1>8. ASSUME NEW k \in Contents, FinalizeFree(k) PROVE SharedInv'
  <2>1. objects[k] = {} /\ handles[k] = 0
    BY <1>2, <1>8 DEF FinalizeFree
  <2>2. /\ storage' = [storage EXCEPT ![k] = "freed"]
        /\ refCount' = [refCount EXCEPT ![k] = refCount[k]]
        /\ objects' = [objects EXCEPT ![k] = objects[k]]
        /\ handles' = [handles EXCEPT ![k] = handles[k]]
    BY <1>8, SameAtK DEF FinalizeFree
  <2> QED
    BY <1>2, <2>1, <2>2, CountKept
<1> QED
  BY <1>1, <1>3, <1>4, <1>5, <1>6, <1>7, <1>8 DEF SharedNext

\* The three properties hold in every reachable state.
THEOREM SharedInvAlways == SharedSpec => []SharedInv
<1>1. SharedInit => SharedInv
  BY FS_EmptySet, SharedAssumption
     DEF SharedInit, SharedInv, SharedTypeOK, RefCountExact, NoUseAfterFree
<1> QED
  BY <1>1, SharedNextKeeps, PTL DEF SharedSpec

\* refCount is the number of objects and handles, for any number of them.
THEOREM CountIsExact == SharedSpec => []RefCountExact
<1>1. SharedInv => RefCountExact
  BY DEF SharedInv
<1> QED
  BY <1>1, SharedInvAlways, PTL

\* Storage that Finalize frees is not referred to by any runtime or handle.
THEOREM FreedIsUnused == SharedSpec => []NoUseAfterFree
<1>1. SharedInv => NoUseAfterFree
  BY DEF SharedInv
<1> QED
  BY <1>1, SharedInvAlways, PTL

USE DEF ParentStates, ChildStates, ObjectsOf

-----------------------------------------------------------------------------
(* The storage, for any number of children.                                *)

\* What holds of the storage whether or not the handle rule is kept.
StorageInv == SharedTypeOK /\ RefCountExact /\ NoLeak

\* A step that changes one contents, and leaves its count exact and, at zero,
\* its storage not allocated.
LEMMA StorageChanges ==
  ASSUME StorageInv, NEW k \in Contents, NEW O \in SUBSET Objects, NEW h \in 0..MaxHandles,
         NEW n \in Nat, NEW s \in {"none", "allocated", "dying", "freed"},
         storage' = [storage EXCEPT ![k] = s], refCount' = [refCount EXCEPT ![k] = n],
         objects' = [objects EXCEPT ![k] = O], handles' = [handles EXCEPT ![k] = h],
         n = Cardinality(O) + h, n = 0 => s # "allocated"
  PROVE  StorageInv'
<1> USE DEF StorageInv, SharedTypeOK
<1>1. SharedTypeOK'
  OBVIOUS
<1>2. /\ storage'[k] = s /\ refCount'[k] = n /\ objects'[k] = O /\ handles'[k] = h
      /\ \A j \in Contents \ {k} : /\ storage'[j] = storage[j] /\ refCount'[j] = refCount[j]
                                   /\ objects'[j] = objects[j] /\ handles'[j] = handles[j]
  OBVIOUS
<1>3. RefCountExact'
  BY <1>2 DEF RefCountExact
<1>4. NoLeak'
  BY <1>2 DEF NoLeak
<1> QED
  BY <1>1, <1>3, <1>4

\* What is known of one contents.
LEMMA StorageAt ==
  ASSUME StorageInv, NEW k \in Contents
  PROVE  /\ storage[k] \in {"none", "allocated", "dying", "freed"} /\ refCount[k] \in Nat
         /\ objects[k] \in SUBSET Objects /\ handles[k] \in 0..MaxHandles /\ MaxHandles \in Nat
         /\ refCount[k] = Cardinality(objects[k]) + handles[k]
         /\ Cardinality(objects[k]) \in Nat
         /\ objects[k] # {} => Cardinality(objects[k]) >= 1
<1>1. IsFiniteSet(objects[k])
  BY SharedAssumption, FS_Subset DEF StorageInv, SharedTypeOK
<1>2. Cardinality(objects[k]) \in Nat /\ (Cardinality(objects[k]) = 0 <=> objects[k] = {})
  BY <1>1, FS_CardinalityType, FS_EmptySet
<1> QED
  BY <1>2, SharedAssumption DEF StorageInv, SharedTypeOK, RefCountExact

\* What the operations do with the storage.
LEMMA CreateEffect ==
  ASSUME StorageInv, NEW k \in Contents, NEW o \in Objects, Create(k, o),
         handles[k] = 0
  PROVE  /\ StorageInv' /\ storage'[k] = "allocated" /\ objects'[k] = {o} /\ UNCHANGED handles
         /\ \A j \in Contents : j # k => storage'[j] = storage[j] /\ objects'[j] = objects[j]
<1>t. /\ storage[k] \in {"none", "allocated", "dying", "freed"} /\ refCount[k] \in Nat
      /\ objects[k] \in SUBSET Objects /\ handles[k] \in 0..MaxHandles
      /\ refCount[k] = Cardinality(objects[k]) + handles[k]
      /\ refCount[k] = 0 => storage[k] # "allocated"
  BY StorageAt DEF StorageInv, NoLeak
<1>1. Cardinality({o}) = 1
  BY FS_Singleton
<1>2. /\ 1 = Cardinality({o}) + 0 /\ 1 # 0 /\ 1 \in Nat /\ 0 \in 0..MaxHandles
      /\ {o} \in SUBSET Objects
  BY <1>1, SharedAssumption
<1>3. /\ storage' = [storage EXCEPT ![k] = "allocated"] /\ refCount' = [refCount EXCEPT ![k] = 1]
      /\ objects' = [objects EXCEPT ![k] = {o}] /\ handles' = [handles EXCEPT ![k] = 0]
  BY SameAtK DEF Create, InitiallyReferenced, StorageInv
<1>4. handles' = handles
  BY DEF Create
<1>8. StorageInv'
  BY <1>2, <1>3, StorageChanges
<1>9. /\ storage'[k] = "allocated" /\ objects'[k] = {o} /\ handles'[k] = handles[k]
      /\ \A j \in Contents : j # k =>
            storage'[j] = storage[j] /\ objects'[j] = objects[j] /\ handles'[j] = handles[j]
  BY <1>2, <1>3, <1>4, <1>t DEF StorageInv, SharedTypeOK
<1> QED
  BY <1>4, <1>8, <1>9

LEMMA GetContentEffect ==
  ASSUME StorageInv, NEW k \in Contents, NEW o \in Objects, GetContent(k, o)
  PROVE  /\ StorageInv' /\ UNCHANGED <<storage, objects>> /\ handles'[k] = handles[k] + 1
         /\ \A j \in Contents : j # k => handles'[j] = handles[j]
<1>t. /\ storage[k] \in {"none", "allocated", "dying", "freed"} /\ refCount[k] \in Nat
      /\ objects[k] \in SUBSET Objects /\ handles[k] \in 0..MaxHandles
      /\ refCount[k] = Cardinality(objects[k]) + handles[k]
      /\ refCount[k] = 0 => storage[k] # "allocated"
  BY StorageAt DEF StorageInv, NoLeak
<1>1. /\ handles[k] + 1 \in 0..MaxHandles /\ refCount[k] + 1 \in Nat /\ refCount[k] + 1 # 0
      /\ refCount[k] + 1 = Cardinality(objects[k]) + (handles[k] + 1)
  BY StorageAt DEF GetContent
<1>2. /\ storage' = [storage EXCEPT ![k] = storage[k]]
      /\ refCount' = [refCount EXCEPT ![k] = refCount[k] + 1]
      /\ objects' = [objects EXCEPT ![k] = objects[k]]
      /\ handles' = [handles EXCEPT ![k] = handles[k] + 1]
  BY SameAtK DEF GetContent, AddRef, StorageInv
<1>3. UNCHANGED <<storage, objects>>
  BY DEF GetContent
<1>8. StorageInv'
  BY <1>1, <1>2, <1>3, <1>t, StorageChanges
<1>9. /\ storage'[k] = storage[k] /\ objects'[k] = objects[k] /\ handles'[k] = handles[k] + 1
      /\ \A j \in Contents : j # k =>
            storage'[j] = storage[j] /\ objects'[j] = objects[j] /\ handles'[j] = handles[j]
  BY <1>1, <1>2, <1>3, <1>t DEF StorageInv, SharedTypeOK
<1> QED
  BY <1>3, <1>8, <1>9

LEMMA AttachEffect ==
  ASSUME StorageInv, NEW k \in Contents, NEW o \in Objects, Fresh(o), Attach(k, o)
  PROVE  /\ StorageInv' /\ UNCHANGED <<storage, handles>> /\ objects'[k] = objects[k] \cup {o}
         /\ \A j \in Contents : j # k => objects'[j] = objects[j]
<1> DEFINE O == objects[k] \cup {o}
<1>t. /\ storage[k] \in {"none", "allocated", "dying", "freed"} /\ refCount[k] \in Nat
      /\ objects[k] \in SUBSET Objects /\ handles[k] \in 0..MaxHandles
      /\ refCount[k] = Cardinality(objects[k]) + handles[k]
      /\ refCount[k] = 0 => storage[k] # "allocated"
  BY StorageAt DEF StorageInv, NoLeak
<1>1. Cardinality(O) = Cardinality(objects[k]) + 1
  BY ObjectCounts DEF Fresh, StorageInv
<1>2. O \in SUBSET Objects
  BY StorageAt
<1>3. /\ storage' = [storage EXCEPT ![k] = storage[k]]
      /\ refCount' = [refCount EXCEPT ![k] = refCount[k] + 1]
      /\ objects' = [objects EXCEPT ![k] = O]
      /\ handles' = [handles EXCEPT ![k] = handles[k]]
  BY SameAtK DEF Attach, AddRef, StorageInv
<1>4. UNCHANGED <<storage, handles>>
  BY DEF Attach
<1> HIDE DEF O
<1>5. refCount[k] + 1 \in Nat /\ refCount[k] + 1 # 0 /\ refCount[k] + 1 = Cardinality(O) + handles[k]
  BY <1>1, StorageAt
<1>8. StorageInv'
  BY <1>2, <1>3, <1>4, <1>5, <1>t, StorageChanges
<1>9. /\ storage'[k] = storage[k] /\ objects'[k] = O /\ handles'[k] = handles[k]
      /\ \A j \in Contents : j # k =>
            storage'[j] = storage[j] /\ objects'[j] = objects[j] /\ handles'[j] = handles[j]
  BY <1>2, <1>3, <1>4, <1>5, <1>t DEF StorageInv, SharedTypeOK
<1> QED
  BY <1>4, <1>8, <1>9 DEF O

\* A handle is released while there is an object.
LEMMA ReleaseHandleEffect ==
  ASSUME StorageInv, NEW k \in Contents, ReleaseHandle(k), objects[k] # {}
  PROVE  /\ StorageInv' /\ UNCHANGED <<storage, objects>> /\ handles'[k] = handles[k] - 1
         /\ \A j \in Contents : j # k => handles'[j] = handles[j]
<1>t. /\ storage[k] \in {"none", "allocated", "dying", "freed"} /\ refCount[k] \in Nat
      /\ objects[k] \in SUBSET Objects /\ handles[k] \in 0..MaxHandles
      /\ refCount[k] = Cardinality(objects[k]) + handles[k]
      /\ refCount[k] = 0 => storage[k] # "allocated"
  BY StorageAt DEF StorageInv, NoLeak
<1>1. /\ handles[k] - 1 \in 0..MaxHandles /\ refCount[k] - 1 \in Nat /\ refCount[k] - 1 # 0
      /\ refCount[k] - 1 = Cardinality(objects[k]) + (handles[k] - 1)
  BY StorageAt DEF ReleaseHandle
<1>2. /\ storage' = [storage EXCEPT ![k] = storage[k]]
      /\ refCount' = [refCount EXCEPT ![k] = refCount[k] - 1]
      /\ objects' = [objects EXCEPT ![k] = objects[k]]
      /\ handles' = [handles EXCEPT ![k] = handles[k] - 1]
  BY SameAtK DEF ReleaseHandle, Release, StorageInv
<1>3. UNCHANGED <<storage, objects>>
  BY DEF ReleaseHandle
<1>8. StorageInv'
  BY <1>1, <1>2, <1>3, <1>t, StorageChanges
<1>9. /\ storage'[k] = storage[k] /\ objects'[k] = objects[k] /\ handles'[k] = handles[k] - 1
      /\ \A j \in Contents : j # k =>
            storage'[j] = storage[j] /\ objects'[j] = objects[j] /\ handles'[j] = handles[j]
  BY <1>1, <1>2, <1>3, <1>t DEF StorageInv, SharedTypeOK
<1> QED
  BY <1>3, <1>8, <1>9

\* Finalize frees the storage exactly when the last reference goes.
LEMMA FinalizeReleaseEffect ==
  ASSUME StorageInv, NEW k \in Contents, NEW o \in Objects, FinalizeRelease(k, o)
  PROVE  /\ StorageInv' /\ UNCHANGED handles /\ objects'[k] = objects[k] \ {o}
         /\ storage'[k] \in {storage[k], "dying"}
         /\ \A j \in Contents : j # k => storage'[j] = storage[j] /\ objects'[j] = objects[j]
<1> DEFINE O == objects[k] \ {o}
           s == IF refCount[k] = 1 THEN "dying" ELSE storage[k]
<1>t. /\ storage[k] \in {"none", "allocated", "dying", "freed"} /\ refCount[k] \in Nat
      /\ objects[k] \in SUBSET Objects /\ handles[k] \in 0..MaxHandles
      /\ refCount[k] = Cardinality(objects[k]) + handles[k]
      /\ refCount[k] = 0 => storage[k] # "allocated"
  BY StorageAt DEF StorageInv, NoLeak
<1>1. Cardinality(objects[k]) >= 1 /\ Cardinality(O) = Cardinality(objects[k]) - 1
  BY ObjectCounts DEF FinalizeRelease, StorageInv
<1>2. O \in SUBSET Objects /\ s \in {"none", "allocated", "dying", "freed"}
  BY StorageAt
<1>3. /\ storage' = [storage EXCEPT ![k] = s]
      /\ refCount' = [refCount EXCEPT ![k] = refCount[k] - 1]
      /\ objects' = [objects EXCEPT ![k] = O]
      /\ handles' = [handles EXCEPT ![k] = handles[k]]
  BY SameAtK DEF FinalizeRelease, Release, LastReference, StorageInv
<1>4. handles' = handles /\ s \in {storage[k], "dying"}
  BY DEF FinalizeRelease
<1>5. refCount[k] - 1 = 0 => s # "allocated"
  BY StorageAt
<1> HIDE DEF O, s
<1>6. refCount[k] - 1 \in Nat /\ refCount[k] - 1 = Cardinality(O) + handles[k]
  BY <1>1, StorageAt
<1>8. StorageInv'
  BY <1>2, <1>3, <1>4, <1>5, <1>6, <1>t, StorageChanges
<1>9. /\ storage'[k] = s /\ objects'[k] = O /\ handles'[k] = handles[k]
      /\ \A j \in Contents : j # k =>
            storage'[j] = storage[j] /\ objects'[j] = objects[j] /\ handles'[j] = handles[j]
  BY <1>2, <1>3, <1>4, <1>5, <1>6, <1>t DEF StorageInv, SharedTypeOK
<1> QED
  BY <1>4, <1>8, <1>9 DEF O

LEMMA FinalizeFreeEffect ==
  ASSUME StorageInv, NEW k \in Contents, FinalizeFree(k)
  PROVE  /\ StorageInv' /\ UNCHANGED <<objects, handles>> /\ storage[k] = "dying"
         /\ storage'[k] = "freed" /\ \A j \in Contents : j # k => storage'[j] = storage[j]
<1>t. /\ storage[k] \in {"none", "allocated", "dying", "freed"} /\ refCount[k] \in Nat
      /\ objects[k] \in SUBSET Objects /\ handles[k] \in 0..MaxHandles
      /\ refCount[k] = Cardinality(objects[k]) + handles[k]
      /\ refCount[k] = 0 => storage[k] # "allocated"
  BY StorageAt DEF StorageInv, NoLeak
<1>1. /\ storage' = [storage EXCEPT ![k] = "freed"]
      /\ refCount' = [refCount EXCEPT ![k] = refCount[k]]
      /\ objects' = [objects EXCEPT ![k] = objects[k]]
      /\ handles' = [handles EXCEPT ![k] = handles[k]]
  BY SameAtK DEF FinalizeFree, StorageInv
<1>2. UNCHANGED <<objects, handles>> /\ storage[k] = "dying"
  BY DEF FinalizeFree
<1>8. StorageInv'
  BY <1>1, <1>2, <1>t, StorageChanges
<1>9. /\ storage'[k] = "freed" /\ objects'[k] = objects[k] /\ handles'[k] = handles[k]
      /\ \A j \in Contents : j # k =>
            storage'[j] = storage[j] /\ objects'[j] = objects[j] /\ handles'[j] = handles[j]
  BY <1>1, <1>2, <1>t DEF StorageInv, SharedTypeOK
<1> QED
  BY <1>2, <1>8, <1>9

-----------------------------------------------------------------------------
(* The steps of the host, for any number of children.                      *)

\* BroadcastInv is about the storage and about the host.
LEMMA BroadcastParts ==
  /\ BroadcastInv => StorageInv /\ HostTypeOK /\ HandleInv /\ AllocatedInv
  /\ StorageInv' /\ HostTypeOK' /\ HandleInv' /\ AllocatedInv' => BroadcastInv'
  BY DEF BroadcastInv, StorageInv

\* The steps that do not touch the storage, and neither begin nor end a
\* Broadcast.
LEMMA HostStep ==
  ASSUME BroadcastInv, UNCHANGED sharedVars, HostTypeOK', sharedContent' = sharedContent,
         Broadcasting' <=> Broadcasting,
         \A c \in Children : c \in received' \/ child'[c] = "received" =>
            c \in received \/ child[c] = "received" \/ Broadcasting
  PROVE  BroadcastInv'
<1> USE BroadcastParts
<1>1. StorageInv'
  BY DEF StorageInv, SharedTypeOK, RefCountExact, NoLeak, sharedVars
<1>2. HandleInv'
  BY DEF HandleInv, sharedVars
<1>3. AllocatedInv'
  BY DEF AllocatedInv, HandleInv, sharedVars
<1> QED
  BY <1>1, <1>2, <1>3

\* LoadScript and the signals of Broadcast.
LEMMA ParentMoves ==
  ASSUME BroadcastInv, NEW c \in Children,
         LoadScript(c) \/ BroadcastSignals(c)
  PROVE  BroadcastInv'
<1>0. HostTypeOK
  BY BroadcastParts
<1>1. CASE LoadScript(c)
  <2>1. HostTypeOK'
    BY <1>0, <1>1 DEF LoadScript, HostTypeOK
  <2>2. \A d \in Children : child'[d] = "received" => child[d] = "received"
    BY <1>0, <1>1 DEF LoadScript, HostTypeOK
  <2> QED
    BY <1>1, <2>1, <2>2, HostStep DEF LoadScript, Broadcasting
<1>2. CASE BroadcastSignals(c)
  <2>1. HostTypeOK'
    BY <1>0, <1>2 DEF BroadcastSignals, HostTypeOK
  <2> QED
    BY <1>2, <2>1, HostStep DEF BroadcastSignals, Broadcasting
<1> QED
  BY <1>1, <1>2

\* The steps of a child's thread, except the one that makes the object.
LEMMA ChildMovesOn ==
  ASSUME BroadcastInv, NEW c \in Children,
         \/ InitialScriptCompleted(c) \/ ReceivedBroadcast(c) \/ ReceivedShutdown(c)
         \/ NotifyParent(c) \/ CallbackReturns(c) \/ JsDisposeRuntime(c)
  PROVE  BroadcastInv'
<1> USE DEF ChildMoves
<1>0. HostTypeOK
  BY BroadcastParts
<1>1. CASE InitialScriptCompleted(c)
  <2>1. HostTypeOK'
    BY <1>0, <1>1 DEF InitialScriptCompleted, HostTypeOK
  <2>2. \A d \in Children : child'[d] = "received" => child[d] = "received"
    BY <1>0, <1>1 DEF InitialScriptCompleted, HostTypeOK
  <2> QED
    BY <1>1, <2>1, <2>2, HostStep DEF InitialScriptCompleted, Broadcasting
<1>2. CASE ReceivedBroadcast(c)
  <2>1. HostTypeOK'
    BY <1>0, <1>2 DEF ReceivedBroadcast, HostTypeOK
  <2>2. \A d \in Children : child'[d] = "received" => child[d] = "received" \/ d \in received
    BY <1>0, <1>2 DEF ReceivedBroadcast, HostTypeOK
  <2> QED
    BY <1>2, <2>1, <2>2, HostStep DEF ReceivedBroadcast, Broadcasting
<1>3. CASE NotifyParent(c)
  <2>1. semaphore' \in Int /\ semaphore' >= -1
    BY <1>0, <1>3 DEF NotifyParent, HostTypeOK
  <2>2. HostTypeOK'
    BY <1>0, <1>3, <2>1 DEF NotifyParent, HostTypeOK
  <2>3. \A d \in Children : child'[d] = "received" => child[d] = "received"
    BY <1>0, <1>3 DEF NotifyParent, HostTypeOK
  <2> QED
    BY <1>3, <2>2, <2>3, HostStep DEF NotifyParent, Broadcasting
<1>4. CASE ReceivedShutdown(c) \/ CallbackReturns(c) \/ JsDisposeRuntime(c)
  <2>1. HostTypeOK'
    BY <1>0, <1>4 DEF ReceivedShutdown, CallbackReturns, JsDisposeRuntime, HostTypeOK
  <2>2. \A d \in Children : child'[d] = "received" => child[d] = "received"
    BY <1>0, <1>4 DEF ReceivedShutdown, CallbackReturns, JsDisposeRuntime, HostTypeOK
  <2> QED
    BY <1>4, <2>1, <2>2, HostStep
       DEF ReceivedShutdown, CallbackReturns, JsDisposeRuntime, Broadcasting
<1> QED
  BY <1>1, <1>2, <1>3, <1>4

\* Objects come and go while the host stays where it is.
LEMMA ObjectsMove ==
  ASSUME BroadcastInv, NEW k \in Contents, NEW o \in Objects,
         \/ ParentCreates(k, o) \/ ParentCollects(k, o)
         \/ \E c \in Children : ChildCollects(c, k, o)
  PROVE  BroadcastInv'
<1>0. StorageInv /\ HostTypeOK /\ HandleInv /\ AllocatedInv
  BY BroadcastParts
<1>1. UNCHANGED hostVars
  BY DEF ParentCreates, ParentCollects, ChildCollects
<1>2. HostTypeOK' /\ (Broadcasting' <=> Broadcasting)
  BY <1>0, <1>1 DEF HostTypeOK, hostVars, Broadcasting
<1>3. CASE ParentCreates(k, o)
  <2>1. Create(k, o) /\ storage[k] = "none" /\ handles[k] = 0 /\ ~Broadcasting
    BY <1>0, <1>3 DEF ParentCreates, Create, AllocatedInv, Broadcasting
  <2>2. /\ StorageInv' /\ storage'[k] = "allocated" /\ UNCHANGED handles
        /\ \A j \in Contents : j # k => storage'[j] = storage[j] /\ objects'[j] = objects[j]
    BY <1>0, <2>1, CreateEffect
  <2>3. HandleInv'
    BY <1>0, <1>1, <1>2, <2>1, <2>2 DEF HandleInv, hostVars
  <2>4. AllocatedInv'
    BY <1>0, <1>1, <2>1, <2>2 DEF AllocatedInv, hostVars
  <2> QED
    BY <1>2, <2>2, <2>3, <2>4, BroadcastParts
<1>4. ASSUME FinalizeRelease(k, o), RuntimeOf[o] = Parent => ~Broadcasting
      PROVE  BroadcastInv'
  <2>1. /\ StorageInv' /\ UNCHANGED handles /\ objects'[k] = objects[k] \ {o}
        /\ storage'[k] \in {storage[k], "dying"}
        /\ \A j \in Contents : j # k => storage'[j] = storage[j] /\ objects'[j] = objects[j]
    BY <1>0, <1>4, FinalizeReleaseEffect
  <2>2. Broadcasting => ObjectsOf(Parent, sharedContent)' # {}
    <3> SUFFICES ASSUME Broadcasting PROVE ObjectsOf(Parent, sharedContent)' # {}
      OBVIOUS
    <3>1. PICK p \in ObjectsOf(Parent, sharedContent) : sharedContent \in Contents
      BY <1>0 DEF HandleInv
    <3>2. p \in objects'[sharedContent] /\ RuntimeOf[p] = Parent
      BY <1>4, <2>1, <3>1
    <3> QED
      BY <1>1, <3>2 DEF hostVars
  <2>3. HandleInv'
    BY <1>0, <1>1, <1>2, <2>1, <2>2 DEF HandleInv, hostVars
  <2>4. AllocatedInv'
    BY <1>0, <1>1, <2>1 DEF AllocatedInv, hostVars
  <2> QED
    BY <1>2, <2>1, <2>3, <2>4, BroadcastParts
<1>5. CASE ParentCollects(k, o)
  BY <1>4, <1>5 DEF ParentCollects, Broadcasting
<1>6. CASE \E c \in Children : ChildCollects(c, k, o)
  BY <1>4, <1>6, AgentAssumption DEF ChildCollects, AgentAssumption
<1> QED
  BY <1>3, <1>5, <1>6

\* Storage is freed.
LEMMA FreeStep ==
  ASSUME BroadcastInv, NEW k \in Contents, Free(k)
  PROVE  BroadcastInv'
<1>0. StorageInv /\ HostTypeOK /\ HandleInv /\ AllocatedInv
  BY BroadcastParts
<1>1. UNCHANGED hostVars
  BY DEF Free
<1>2. HostTypeOK' /\ (Broadcasting' <=> Broadcasting)
  BY <1>0, <1>1 DEF HostTypeOK, hostVars, Broadcasting
<1>3. /\ StorageInv' /\ UNCHANGED <<objects, handles>> /\ storage'[k] = "freed"
      /\ \A j \in Contents : j # k => storage'[j] = storage[j]
  BY <1>0, FinalizeFreeEffect DEF Free
<1>4. HandleInv'
  BY <1>0, <1>1, <1>2, <1>3 DEF HandleInv, hostVars
<1>5. AllocatedInv'
  BY <1>0, <1>1, <1>3 DEF AllocatedInv, hostVars
<1> QED
  BY <1>2, <1>3, <1>4, <1>5, BroadcastParts

\* Broadcast takes the handle.
LEMMA BroadcastStep ==
  ASSUME BroadcastInv, NEW k \in Contents, NEW o \in Objects, Broadcast(k, o)
  PROVE  BroadcastInv'
<1>0. StorageInv /\ HostTypeOK /\ HandleInv /\ AllocatedInv
  BY BroadcastParts
<1>1. /\ parent = "script" /\ GetContent(k, o) /\ o \in objects[k] /\ RuntimeOf[o] = Parent
      /\ sharedContent' = k /\ semaphore' = 0 /\ toSignal' = started /\ parent' = "signalling"
      /\ UNCHANGED <<started, scriptDone, received, shutdown, child>>
  BY DEF Broadcast, GetContent
<1>2. /\ StorageInv' /\ UNCHANGED <<storage, objects>> /\ handles'[k] = handles[k] + 1
      /\ \A j \in Contents : j # k => handles'[j] = handles[j]
  BY <1>0, <1>1, GetContentEffect
<1>3. \A j \in Contents : handles[j] = 0
  BY <1>0, <1>1 DEF HandleInv, Broadcasting
<1>4. HostTypeOK'
  BY <1>0, <1>1 DEF HostTypeOK
<1>5. HandleInv'
  BY <1>1, <1>2, <1>3 DEF HandleInv, Broadcasting
<1>6. storage[k] # "none"
  BY <1>0, <1>1 DEF AllocatedInv
<1>7. AllocatedInv'
  BY <1>0, <1>1, <1>2, <1>6 DEF AllocatedInv
<1> QED
  BY <1>2, <1>4, <1>5, <1>7, BroadcastParts

\* The handle of a Broadcast is not the last reference when it is released:
\* the parent's own object is still there.
LEMMA BroadcastReturnsStep ==
  ASSUME BroadcastInv, BroadcastReturns
  PROVE  BroadcastInv'
<1>0. StorageInv /\ HostTypeOK /\ HandleInv /\ AllocatedInv
  BY BroadcastParts
<1>1. /\ parent = "waiting" /\ ReleaseHandle(sharedContent) /\ semaphore' = -1
      /\ parent' = "script"
      /\ UNCHANGED <<started, scriptDone, sharedContent, toSignal, received, shutdown, child>>
  BY DEF BroadcastReturns
<1>2. PICK k \in Contents : k = sharedContent /\ objects[k] # {} /\ handles[k] = 1
  BY <1>0, <1>1 DEF HandleInv, Broadcasting
<1>3. /\ StorageInv' /\ UNCHANGED <<storage, objects>> /\ handles'[k] = handles[k] - 1
      /\ \A j \in Contents : j # k => handles'[j] = handles[j]
  BY <1>0, <1>1, <1>2, ReleaseHandleEffect
<1>4. \A j \in Contents : handles'[j] = 0
  BY <1>0, <1>1, <1>2, <1>3 DEF HandleInv
<1>5. HostTypeOK'
  BY <1>0, <1>1 DEF HostTypeOK
<1>6. HandleInv'
  BY <1>1, <1>4 DEF HandleInv, Broadcasting
<1>7. AllocatedInv'
  BY <1>0, <1>1, <1>3, <1>4 DEF AllocatedInv
<1> QED
  BY <1>3, <1>5, <1>6, <1>7, BroadcastParts

\* A child makes its object of sharedContent.
LEMMA ChildCreatesStep ==
  ASSUME BroadcastInv, NEW c \in Children, NEW o \in Objects, ChildCreates(c, o)
  PROVE  BroadcastInv'
<1>0. StorageInv /\ HostTypeOK /\ HandleInv /\ AllocatedInv
  BY BroadcastParts
<1>1. /\ child[c] = "received" /\ child' = [child EXCEPT ![c] = "created"]
      /\ Fresh(o) /\ Attach(sharedContent, o)
      /\ UNCHANGED <<parent, started, scriptDone, sharedContent, toSignal, semaphore,
                     received, shutdown>>
  BY DEF ChildCreates, ChildMoves
<1>2. PICK k \in Contents : k = sharedContent /\ storage[k] # "none"
  BY <1>0, <1>1 DEF AllocatedInv
<1>3. /\ StorageInv' /\ UNCHANGED <<storage, handles>> /\ objects'[k] = objects[k] \cup {o}
      /\ \A j \in Contents : j # k => objects'[j] = objects[j]
  BY <1>0, <1>1, <1>2, AttachEffect
<1>4. HostTypeOK'
  BY <1>0, <1>1 DEF HostTypeOK
<1>5. HandleInv'
  BY <1>0, <1>1, <1>2, <1>3 DEF HandleInv, Broadcasting
<1>6. \A d \in Children : child'[d] = "received" => child[d] = "received"
  BY <1>0, <1>1 DEF HostTypeOK
<1>7. AllocatedInv'
  BY <1>0, <1>1, <1>2, <1>3, <1>6 DEF AllocatedInv
<1> QED
  BY <1>3, <1>4, <1>5, <1>7, BroadcastParts

\* The initial state and every step.
LEMMA InitBroadcastInv == Init => BroadcastInv
<1> SUFFICES ASSUME Init PROVE BroadcastInv
  OBVIOUS
<1>1. SharedTypeOK /\ RefCountExact /\ NoLeak
  BY FS_EmptySet, SharedAssumption DEF Init, SharedInit, SharedTypeOK, RefCountExact, NoLeak
<1>2. HostTypeOK
  <2>1. semaphore \in Int /\ semaphore >= -1
    BY DEF Init
  <2>2. child \in [Children -> ChildStates] /\ parent \in ParentStates
    BY DEF Init
  <2> QED
    BY <2>1, <2>2 DEF Init, HostTypeOK
<1>3. HandleInv
  BY DEF Init, SharedInit, HandleInv, Broadcasting
<1>4. AllocatedInv
  BY AgentAssumption DEF Init, SharedInit, AllocatedInv, AgentAssumption
<1> QED
  BY <1>1, <1>2, <1>3, <1>4 DEF BroadcastInv

LEMMA NextBroadcastInv == BroadcastInv /\ [Next]_vars => BroadcastInv'
<1> SUFFICES ASSUME BroadcastInv, [Next]_vars PROVE BroadcastInv'
  OBVIOUS
<1>1. ASSUME ParentStep PROVE BroadcastInv'
  <2>1. CASE LoadScriptReturns \/ UninitializeReturns
    <3>1. HostTypeOK'
      BY <2>1 DEF LoadScriptReturns, UninitializeReturns, HostTypeOK, BroadcastInv
    <3> QED
      BY <2>1, <3>1, HostStep DEF LoadScriptReturns, UninitializeReturns, Broadcasting
  <2> QED
    BY <1>1, <2>1, ParentMoves, BroadcastReturnsStep DEF ParentStep
<1>2. ASSUME NEW c \in Children, ChildStep(c) \/ LoadScript(c) PROVE BroadcastInv'
  BY <1>2, ParentMoves, ChildMovesOn, ChildCreatesStep, ObjectsMove DEF ChildStep
<1>3. ASSUME NEW k \in Contents, NEW o \in Objects,
             \/ ParentCreates(k, o) \/ ParentCollects(k, o) \/ Broadcast(k, o)
             \/ \E c \in Children : ChildCollects(c, k, o)
      PROVE  BroadcastInv'
  BY <1>3, ObjectsMove, BroadcastStep
<1>4. ASSUME NEW k \in Contents, Free(k) PROVE BroadcastInv'
  BY <1>4, FreeStep
<1>5. ASSUME Uninitialize PROVE BroadcastInv'
  <2>1. HostTypeOK'
    BY <1>5 DEF Uninitialize, HostTypeOK, BroadcastInv
  <2> QED
    BY <1>5, <2>1, HostStep DEF Uninitialize, Broadcasting
<1>6. CASE UNCHANGED vars
  BY <1>6 DEF vars, sharedVars, hostVars, BroadcastInv, SharedTypeOK, HostTypeOK,
              RefCountExact, NoLeak, HandleInv, AllocatedInv, Broadcasting
<1> QED
  BY <1>1, <1>2, <1>3, <1>4, <1>5, <1>6 DEF Next

LEMMA BroadcastInvAlways == Spec => []BroadcastInv
  BY InitBroadcastInv, NextBroadcastInv, PTL DEF Spec

\* For any number of children, refCount is the number of objects and handles,
\* also where children attach to storage whose handle is gone.
THEOREM AgentsCountExactly == Spec => []RefCountExact
<1>1. BroadcastInv => RefCountExact
  BY DEF BroadcastInv
<1> QED
  BY <1>1, BroadcastInvAlways, PTL

\* For any number of children, the handle of a broadcast is never the last
\* reference: JsReleaseSharedArrayBufferContentHandle, which frees nothing,
\* leaves nothing behind.
THEOREM NothingLeaks == Spec => []NoLeak
<1>1. BroadcastInv => NoLeak
  BY DEF BroadcastInv
<1> QED
  BY <1>1, BroadcastInvAlways, PTL

-----------------------------------------------------------------------------
(* One child.                                                              *)

OneChildOnly == \A c, d \in Children : c = d

\* Every step of the host preserves OneChildInv.
LEMMA NextOneChild ==
  ASSUME OneChildOnly, HostTypeOK, OneChildInv, [Next]_vars
  PROVE  OneChildInv'
<1> USE DEF Answering, OneChildInv
<1>1. ASSUME UNCHANGED <<parent, semaphore, received, child>> PROVE OneChildInv'
  BY <1>1
<1>2. ASSUME NEW c \in Children, LoadScript(c) PROVE OneChildInv'
  BY <1>2 DEF LoadScript, HostTypeOK
<1>3. ASSUME LoadScriptReturns \/ Uninitialize \/ UninitializeReturns PROVE OneChildInv'
  BY <1>3 DEF LoadScriptReturns, Uninitialize, UninitializeReturns
<1>4. ASSUME NEW c \in Children, BroadcastSignals(c) PROVE OneChildInv'
  <2>1. toSignal = {c}
    BY <1>4 DEF BroadcastSignals, HostTypeOK, OneChildOnly
  <2> QED
    BY <1>4, <2>1 DEF BroadcastSignals, OneChildOnly
<1>5. ASSUME NEW k \in Contents, NEW o \in Objects, Broadcast(k, o) PROVE OneChildInv'
  BY <1>5 DEF Broadcast
<1>6. ASSUME BroadcastReturns PROVE OneChildInv'
  BY <1>6 DEF BroadcastReturns, Acknowledged
<1>7. ASSUME NEW c \in Children, ChildStep(c) PROVE OneChildInv'
  <2> USE DEF ChildMoves
  <2>1. CASE InitialScriptCompleted(c) \/ ReceivedShutdown(c) \/ CallbackReturns(c)
             \/ JsDisposeRuntime(c)
    BY <2>1 DEF InitialScriptCompleted, ReceivedShutdown, CallbackReturns, JsDisposeRuntime,
                HostTypeOK
  <2>2. CASE ReceivedBroadcast(c)
    BY <2>2 DEF ReceivedBroadcast, HostTypeOK
  <2>3. CASE \E o \in Objects : ChildCreates(c, o)
    BY <2>3 DEF ChildCreates, HostTypeOK
  <2>4. CASE NotifyParent(c)
    <3>1. c \notin received /\ child'[c] = "callback" /\ parent # "signalling"
      BY <2>4 DEF NotifyParent, HostTypeOK
    <3>2. \A d \in Children : ~Answering(d)'
      BY <2>4, <3>1 DEF NotifyParent, OneChildOnly
    <3> QED
      BY <2>4, <3>1, <3>2 DEF NotifyParent
  <2>5. CASE \E k \in Contents, o \in Objects : ChildCollects(c, k, o)
    BY <1>1, <2>5 DEF ChildCollects, hostVars
  <2> QED
    BY <1>7, <2>1, <2>2, <2>3, <2>4, <2>5 DEF ChildStep
<1>8. ASSUME NEW k \in Contents, NEW o \in Objects,
             \/ ParentCreates(k, o) \/ ParentCollects(k, o)
             \/ \E c \in Children : ChildCollects(c, k, o)
      PROVE  OneChildInv'
  BY <1>1, <1>8 DEF ParentCreates, ParentCollects, ChildCollects, hostVars
<1>9. ASSUME NEW k \in Contents, Free(k) PROVE OneChildInv'
  BY <1>1, <1>9 DEF Free, hostVars
<1>10. CASE UNCHANGED vars
  BY <1>1, <1>10 DEF vars, hostVars
<1> QED
  BY <1>2, <1>3, <1>4, <1>5, <1>6, <1>7, <1>8, <1>9, <1>10 DEF Next, ParentStep

\* With one child every step on the storage is one of SharedContents: the
\* parent still holds its handle when the child makes its object.
LEMMA NextKeepsRule ==
  ASSUME BroadcastInv, OneChildInv, [Next]_vars
  PROVE  [SharedNext]_sharedVars
<1>0. HostTypeOK /\ HandleInv /\ AllocatedInv
  BY BroadcastParts
<1>1. ASSUME NEW c \in Children, NEW o \in Objects, ChildCreates(c, o) PROVE SharedNext
  <2>1. child[c] = "received" /\ Fresh(o) /\ Attach(sharedContent, o)
    BY <1>1 DEF ChildCreates, ChildMoves
  <2>2. Broadcasting
    BY <2>1 DEF OneChildInv, Answering, Broadcasting
  <2>3. sharedContent \in Contents /\ handles[sharedContent] = 1
    BY <1>0, <2>2 DEF HandleInv
  <2>4. CreateWithSharedContent(sharedContent, o)
    BY <2>1, <2>3 DEF CreateWithSharedContent
  <2> QED
    BY <2>3, <2>4 DEF SharedNext
<1>2. ASSUME BroadcastReturns PROVE SharedNext
  <2>1. ReleaseHandle(sharedContent) /\ sharedContent \in Contents
    BY <1>0, <1>2 DEF BroadcastReturns, HandleInv, Broadcasting
  <2> QED
    BY <2>1 DEF SharedNext
<1>3. ASSUME NEW k \in Contents, NEW o \in Objects,
             \/ ParentCreates(k, o) \/ ParentCollects(k, o) \/ Broadcast(k, o)
             \/ \E c \in Children : ChildCollects(c, k, o)
      PROVE  SharedNext
  BY <1>3 DEF ParentCreates, ParentCollects, Broadcast, ChildCollects, SharedNext
<1>4. ASSUME NEW k \in Contents, Free(k) PROVE SharedNext
  BY <1>4 DEF Free, SharedNext
<1>5. ASSUME ParentStep PROVE [SharedNext]_sharedVars
  BY <1>2, <1>5 DEF ParentStep, LoadScriptReturns, BroadcastSignals, UninitializeReturns
<1>6. ASSUME NEW c \in Children, ChildStep(c) \/ LoadScript(c) PROVE [SharedNext]_sharedVars
  BY <1>1, <1>3, <1>6 DEF ChildStep, LoadScript, InitialScriptCompleted, ReceivedBroadcast,
     ReceivedShutdown, NotifyParent, CallbackReturns, JsDisposeRuntime
<1>7. ASSUME Uninitialize \/ UNCHANGED vars PROVE UNCHANGED sharedVars
  BY <1>7 DEF Uninitialize, vars
<1> QED
  BY <1>3, <1>4, <1>5, <1>6, <1>7 DEF Next

\* With one child, OneChildInv holds in every reachable state.
LEMMA OneChildAlways == OneChildOnly => (Spec => []OneChildInv)
<1> SUFFICES ASSUME OneChildOnly PROVE Spec => []OneChildInv
  OBVIOUS
<1>1. Init => OneChildInv
  BY DEF Init, OneChildInv, Answering
<1>2. BroadcastInv => HostTypeOK
  BY DEF BroadcastInv
<1>3. HostTypeOK /\ OneChildInv /\ [Next]_vars => OneChildInv'
  BY NextOneChild
<1> QED
  BY <1>1, <1>2, <1>3, BroadcastInvAlways, PTL DEF Spec

\* With one child, which every broadcast waits for, the host keeps the rule of
\* SharedContents: contents are attached to only under a handle.
THEOREM OneChildKeepsHandleRule == OneChildOnly => (Spec => KeepsHandleRule)
<1> SUFFICES ASSUME OneChildOnly PROVE Spec => KeepsHandleRule
  OBVIOUS
<1>1. Init => SharedInit
  BY DEF Init
<1>2. BroadcastInv /\ OneChildInv /\ [Next]_vars => [SharedNext]_sharedVars
  BY NextKeepsRule
<1> QED
  BY <1>1, <1>2, BroadcastInvAlways, OneChildAlways, PTL DEF Spec, KeepsHandleRule, SharedSpec

\* With one child, what Finalize frees is not referred to by any agent.
THEOREM OneChildUsesNothingFreed == OneChildOnly => (Spec => []NoUseAfterFree)
<1> SUFFICES ASSUME OneChildOnly PROVE Spec => []NoUseAfterFree
  OBVIOUS
<1> QED
  BY OneChildKeepsHandleRule, FreedIsUnused, PTL DEF KeepsHandleRule
=============================================================================
