--------------------------- MODULE SharedContents ---------------------------
(***************************************************************************)
(* The reference count of the storage behind SharedArrayBuffers            *)
(* (lib/Runtime/Library/SharedArrayBuffer.cpp) and the calls by which a    *)
(* host hands that storage from one runtime to another                     *)
(* (lib/Jsrt/Core/JsrtCore.cpp).  The runtimes run on threads of their     *)
(* own; the count is the only thing they synchronise on.                   *)
(***************************************************************************)
EXTENDS Naturals, FiniteSets

CONSTANTS
    Contents,       \* SharedContents records that can be allocated
    Objects,        \* SharedArrayBuffer objects, of any runtime
    MaxHandles      \* bound: content handles a host holds at a time

ASSUME SharedAssumption == IsFiniteSet(Objects) /\ MaxHandles \in Nat

VARIABLES
    storage,    \* none, allocated, dying (Finalize has seen 0) or freed
    refCount,   \* SharedContents::refCount
    objects,    \* the SharedArrayBuffer objects on the contents
    handles     \* JsSharedArrayBufferContentHandles the host has not released

sharedVars == <<storage, refCount, objects, handles>>

-----------------------------------------------------------------------------
\* Mutant: the reference is not counted.
AddRefMissing(k) == UNCHANGED refCount

AddRef(k) == refCount' = [refCount EXCEPT ![k] = @ + 1]

Release(k) == refCount' = [refCount EXCEPT ![k] = @ - 1]

\* The constructor's refCount(1).
InitiallyReferenced == 1

\* An object that the recycler has not given out, or has reclaimed.
Fresh(o) == \A k \in Contents : o \notin objects[k]

\* SharedArrayBuffer::Init for a new object.  An allocation that fails deletes
\* the record again and leaves no trace.
Create(k, o) ==
    /\ storage[k] = "none" /\ Fresh(o)
    /\ storage' = [storage EXCEPT ![k] = "allocated"]
    /\ refCount' = [refCount EXCEPT ![k] = InitiallyReferenced]
    /\ objects' = [objects EXCEPT ![k] = {o}]
    /\ UNCHANGED handles

\* JsGetSharedArrayBufferContent; serialising a SharedArrayBuffer
\* (SCASerialization.cpp) adds a reference for its stream in the same way.
GetContent(k, o) ==
    /\ o \in objects[k]
    /\ handles[k] < MaxHandles
    /\ AddRef(k)
    /\ handles' = [handles EXCEPT ![k] = @ + 1]
    /\ UNCHANGED <<storage, objects>>

\* The constructor SharedArrayBuffer(contents); it fails fast if the count was
\* zero, which NoUseAfterFree excludes.
Attach(k, o) ==
    /\ AddRef(k)
    /\ objects' = [objects EXCEPT ![k] = @ \cup {o}]
    /\ UNCHANGED <<storage, handles>>

\* JsCreateSharedArrayBufferWithSharedContent, given a handle that the host
\* still holds.
CreateWithSharedContent(k, o) == handles[k] > 0 /\ Fresh(o) /\ Attach(k, o)

\* JsReleaseSharedArrayBufferContentHandle: it never frees.
ReleaseHandle(k) ==
    /\ handles[k] > 0
    /\ Release(k)
    /\ handles' = [handles EXCEPT ![k] = @ - 1]
    /\ UNCHANGED <<storage, objects>>

\* Mutant: the count is taken for the one before the decrement.
LastReferenceEarly(k) == refCount[k] <= 2

\* Finalize of an object: the count is decremented; the one that brings it to
\* zero frees the storage after that.
LastReference(k) == refCount[k] = 1

FinalizeRelease(k, o) ==
    /\ o \in objects[k]
    /\ Release(k)
    /\ objects' = [objects EXCEPT ![k] = @ \ {o}]
    /\ storage' = IF LastReference(k) THEN [storage EXCEPT ![k] = "dying"] ELSE storage
    /\ UNCHANGED handles

\* FreeBuffer, Cleanup and the delete.
FinalizeFree(k) ==
    /\ storage[k] = "dying"
    /\ storage' = [storage EXCEPT ![k] = "freed"]
    /\ UNCHANGED <<refCount, objects, handles>>

-----------------------------------------------------------------------------
SharedInit ==
    /\ storage = [k \in Contents |-> "none"]
    /\ refCount = [k \in Contents |-> 0]
    /\ objects = [k \in Contents |-> {}]
    /\ handles = [k \in Contents |-> 0]

SharedNext ==
    \E k \in Contents :
        \/ \E o \in Objects :
              \/ Create(k, o)
              \/ GetContent(k, o)
              \/ CreateWithSharedContent(k, o)
              \/ FinalizeRelease(k, o)
        \/ ReleaseHandle(k)
        \/ FinalizeFree(k)

SharedSpec == SharedInit /\ [][SharedNext]_sharedVars

-----------------------------------------------------------------------------
(* Properties.                                                             *)

\* Every variable has its type; Release never takes the count below zero
\* ("Buffer already freed").
SharedTypeOK ==
    /\ storage \in [Contents -> {"none", "allocated", "dying", "freed"}]
    /\ refCount \in [Contents -> Nat]
    /\ objects \in [Contents -> SUBSET Objects]
    /\ handles \in [Contents -> 0..MaxHandles]

\* The count is the number of objects and handles in all runtimes, whatever
\* the order in which they take and drop their references.
RefCountExact ==
    \A k \in Contents : refCount[k] = Cardinality(objects[k]) + handles[k]

\* Storage that is freed, or about to be, is not referred to by an object of
\* any runtime nor by a handle, so nobody can revive it; storage that is
\* referred to has been allocated.
NoUseAfterFree ==
    \A k \in Contents :
        storage[k] # "allocated" => objects[k] = {} /\ handles[k] = 0
=============================================================================
