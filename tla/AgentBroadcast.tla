--------------------------- MODULE AgentBroadcast ---------------------------
(***************************************************************************)
(* The agents of the host ch: a parent thread starts child threads, each   *)
(* with a runtime of its own (WScript.LoadScript(..., "crossthread")), and *)
(* broadcasts SharedArrayBuffers to them (WScript.Broadcast).  Sources:    *)
(* bin/ch/WScriptJsrt.cpp and bin/ch/RuntimeThreadData.cpp, on top of the  *)
(* storage of SharedContents.                                              *)
(***************************************************************************)
EXTENDS SharedContents, Integers

CONSTANTS
    Parent,     \* the parent's runtime
    Children,   \* the children's runtimes
    RuntimeOf,  \* the runtime of a SharedArrayBuffer object
    None        \* no contents

ASSUME AgentAssumption ==
    /\ RuntimeOf \in [Objects -> Children \cup {Parent}] /\ Parent \notin Children
    /\ None \notin Contents

VARIABLES
    parent,         \* where the parent's thread is
    started,        \* threadData->children
    scriptDone,     \* the parent's hevntInitialScriptCompleted
    sharedContent,  \* the parent's sharedContent
    toSignal,       \* children that the loop of Broadcast has not reached
    semaphore,      \* count of hSemaphore, -1 if there is none
    received,       \* children whose hevntReceivedBroadcast is set
    shutdown,       \* children whose hevntShutdown is set
    child           \* where each child's thread is

hostVars == <<parent, started, scriptDone, sharedContent, toSignal, semaphore,
              received, shutdown, child>>

vars == <<sharedVars, hostVars>>

\* The objects of a runtime that refer to contents k.
ObjectsOf(r, k) == {o \in objects[k] : RuntimeOf[o] = r}

-----------------------------------------------------------------------------
(* The parent's script.                                                    *)

\* A new SharedArrayBuffer, and the collection of one that is not on the
\* stack of a running Broadcast.
ParentCreates(k, o) ==
    /\ parent = "script" /\ RuntimeOf[o] = Parent
    /\ Create(k, o)
    /\ UNCHANGED hostVars

\* Mutant: the object is collected while Broadcast works on it.
ParentCollectsUnrooted(k, o) ==
    RuntimeOf[o] = Parent /\ FinalizeRelease(k, o) /\ UNCHANGED hostVars

ParentCollects(k, o) ==
    /\ parent \in {"script", "closed"} /\ RuntimeOf[o] = Parent
    /\ FinalizeRelease(k, o)
    /\ UNCHANGED hostVars

\* LoadScript: the child is listed and its thread started, ...
LoadScript(c) ==
    /\ parent = "script" /\ c \notin started
    /\ started' = started \cup {c}
    /\ scriptDone' = FALSE
    /\ child' = [child EXCEPT ![c] = "initial"]
    /\ parent' = "loading"
    /\ UNCHANGED <<sharedVars, sharedContent, toSignal, semaphore, received, shutdown>>

\* ... and the parent waits for its initial script.
LoadScriptReturns ==
    /\ parent = "loading" /\ scriptDone
    /\ parent' = "script"
    /\ UNCHANGED <<sharedVars, started, scriptDone, sharedContent, toSignal, semaphore,
                   received, shutdown, child>>

\* BroadcastCallback with a SharedArrayBuffer: a handle is taken, and a
\* semaphore created that has room for every child.  (Without children the
\* semaphore cannot be created, and the handle is dropped at once.)  Objects
\* is a bound here: every child has room for another object.
Broadcast(k, o) ==
    /\ parent = "script" /\ started # {} /\ RuntimeOf[o] = Parent
    /\ \A c \in started : \E q \in Objects : RuntimeOf[q] = c /\ Fresh(q)
    /\ GetContent(k, o)
    /\ sharedContent' = k
    /\ semaphore' = 0
    /\ toSignal' = started
    /\ parent' = "signalling"
    /\ UNCHANGED <<started, scriptDone, received, shutdown, child>>

\* SetEvent(child->hevntReceivedBroadcast), in the order of the list.
BroadcastSignals(c) ==
    /\ parent = "signalling" /\ c \in toSignal
    /\ received' = received \cup {c}
    /\ toSignal' = toSignal \ {c}
    /\ parent' = IF toSignal = {c} THEN "waiting" ELSE parent
    /\ UNCHANGED <<sharedVars, started, scriptDone, sharedContent, semaphore, shutdown, child>>

\* Mutant: the semaphore is not waited for.
AcknowledgedUnawaited == TRUE

\* WaitForSingleObject(hSemaphore) returns; the semaphore is closed and the
\* handle released.
Acknowledged == semaphore > 0

BroadcastReturns ==
    /\ parent = "waiting" /\ Acknowledged
    /\ semaphore' = -1
    /\ ReleaseHandle(sharedContent)
    /\ parent' = "script"
    /\ UNCHANGED <<started, scriptDone, sharedContent, toSignal, received, shutdown, child>>

\* WScriptJsrt::Uninitialize on the parent's thread: every child is told to
\* shut down, ...
Uninitialize ==
    /\ parent = "script"
    /\ shutdown' = started
    /\ parent' = "closing"
    /\ UNCHANGED <<sharedVars, started, scriptDone, sharedContent, toSignal, semaphore,
                   received, child>>

\* ... and the parent waits for their threads to end.
ThreadsEnded == \A c \in started : child[c] = "left"

UninitializeReturns ==
    /\ parent = "closing" /\ ThreadsEnded
    /\ started' = {}
    /\ parent' = "closed"
    /\ UNCHANGED <<sharedVars, scriptDone, sharedContent, toSignal, semaphore, received,
                   shutdown, child>>

-----------------------------------------------------------------------------
(* RuntimeThreadData::ThreadProc on a child's thread.                      *)

ChildMoves(c, from, to) == child[c] = from /\ child' = [child EXCEPT ![c] = to]

\* The initial script has run.
InitialScriptCompleted(c) ==
    /\ ChildMoves(c, "initial", "waiting")
    /\ scriptDone' = TRUE
    /\ UNCHANGED <<sharedVars, parent, started, sharedContent, toSignal, semaphore,
                   received, shutdown>>

\* WaitForMultipleObjects returns for the broadcast, which resets its event ...
ReceivedBroadcast(c) ==
    /\ ChildMoves(c, "waiting", "received")
    /\ c \in received
    /\ received' = received \ {c}
    /\ UNCHANGED <<sharedVars, parent, started, scriptDone, sharedContent, toSignal,
                   semaphore, shutdown>>

\* ... or, if there is none, for the shutdown.
ReceivedShutdown(c) ==
    /\ ChildMoves(c, "waiting", "leaving")
    /\ c \notin received /\ c \in shutdown
    /\ UNCHANGED <<sharedVars, parent, started, scriptDone, sharedContent, toSignal,
                   semaphore, received, shutdown>>

\* A new object is made of the parent's sharedContent, also when the child
\* has one of the same contents.
ChildCreates(c, o) ==
    /\ ChildMoves(c, "received", "created")
    /\ RuntimeOf[o] = c /\ Fresh(o)
    /\ Attach(sharedContent, o)
    /\ UNCHANGED <<parent, started, scriptDone, sharedContent, toSignal, semaphore,
                   received, shutdown>>

\* Mutant: the parent is not notified.
NotifyParentForgotten(c) ==
    /\ ChildMoves(c, "created", "callback")
    /\ UNCHANGED <<sharedVars, parent, started, scriptDone, sharedContent, toSignal, semaphore,
                   received, shutdown>>

\* ReleaseSemaphore(parent->hSemaphore): it fails if the semaphore is closed.
NotifyParent(c) ==
    /\ ChildMoves(c, "created", "callback")
    /\ semaphore' = IF semaphore >= 0 /\ semaphore < Cardinality(started)
                    THEN semaphore + 1 ELSE semaphore
    /\ UNCHANGED <<sharedVars, parent, started, scriptDone, sharedContent, toSignal,
                   received, shutdown>>

\* receiveBroadcastCallbackFunc has run; it may have called WScript.Leaving.
CallbackReturns(c) ==
    /\ ChildMoves(c, "callback", "waiting") \/ ChildMoves(c, "callback", "leaving")
    /\ UNCHANGED <<sharedVars, parent, started, scriptDone, sharedContent, toSignal,
                   semaphore, received, shutdown>>

\* The child's objects are finalized one by one, by a collection or when its
\* runtime is disposed of.
ChildCollects(c, k, o) ==
    /\ child[c] \in {"waiting", "callback", "leaving"} /\ RuntimeOf[o] = c
    /\ FinalizeRelease(k, o)
    /\ UNCHANGED hostVars

JsDisposeRuntime(c) ==
    /\ ChildMoves(c, "leaving", "left")
    /\ \A k \in Contents : ObjectsOf(c, k) = {}
    /\ UNCHANGED <<sharedVars, parent, started, scriptDone, sharedContent, toSignal,
                   semaphore, received, shutdown>>

Free(k) == FinalizeFree(k) /\ UNCHANGED hostVars

-----------------------------------------------------------------------------
Init ==
    /\ SharedInit
    /\ parent = "script"
    /\ started = {}
    /\ scriptDone = FALSE
    /\ sharedContent = None
    /\ toSignal = {}
    /\ semaphore = -1
    /\ received = {}
    /\ shutdown = {}
    /\ child = [c \in Children |-> "none"]

ParentStep ==
    \/ LoadScriptReturns
    \/ \E c \in Children : BroadcastSignals(c)
    \/ BroadcastReturns
    \/ UninitializeReturns

ChildStep(c) ==
    \/ InitialScriptCompleted(c)
    \/ ReceivedBroadcast(c)
    \/ ReceivedShutdown(c)
    \/ \E o \in Objects : ChildCreates(c, o)
    \/ NotifyParent(c)
    \/ CallbackReturns(c)
    \/ child[c] = "leaving" /\ \E k \in Contents, o \in Objects : ChildCollects(c, k, o)
    \/ JsDisposeRuntime(c)

Next ==
    \/ ParentStep
    \/ \E c \in Children : ChildStep(c) \/ LoadScript(c)
    \/ \E k \in Contents, o \in Objects :
          \/ ParentCreates(k, o)
          \/ ParentCollects(k, o)
          \/ Broadcast(k, o)
          \/ \E c \in Children : ChildCollects(c, k, o)
    \/ \E k \in Contents : Free(k)
    \/ Uninitialize

Spec == Init /\ [][Next]_vars

\* Every thread is scheduled, and the callbacks of the scripts return.
FairSpec == Spec /\ WF_vars(ParentStep) /\ \A c \in Children : WF_vars(ChildStep(c))

-----------------------------------------------------------------------------
(* Properties.                                                             *)

\* The host keeps to the rule of the content handles: every step it takes on
\* the storage is one of SharedContents.
KeepsHandleRule == SharedSpec

\* A contents that nothing refers to any more has been freed or is about to
\* be: the handle of a broadcast is never the last reference, whose release
\* would free nothing.
NoLeak == \A k \in Contents : refCount[k] = 0 => storage[k] # "allocated"

\* LoadScript and Broadcast return unless a child has left (a child that has
\* left does not answer a broadcast), and Uninitialize always does.
CallsReturn ==
    /\ parent \in {"loading", "signalling", "waiting"}
          ~> parent = "script" \/ \E c \in started : child[c] = "left"
    /\ parent = "closing" ~> parent = "closed"

-----------------------------------------------------------------------------
(* The inductive invariants, for any number of children and for one.       *)

ParentStates == {"script", "loading", "signalling", "waiting", "closing", "closed"}
ChildStates == {"none", "initial", "waiting", "received", "created", "callback",
                "leaving", "left"}

HostTypeOK ==
    /\ parent \in ParentStates
    /\ started \subseteq Children /\ toSignal \subseteq Children
    /\ scriptDone \in BOOLEAN
    /\ sharedContent \in Contents \cup {None}
    /\ semaphore \in Int /\ semaphore >= -1
    /\ received \subseteq Children /\ shutdown \subseteq Children
    /\ child \in [Children -> ChildStates]

\* The parent is inside Broadcast.
Broadcasting == parent \in {"signalling", "waiting"}

\* The one handle is that of the running Broadcast, whose argument is an
\* object of the parent's.
HandleInv ==
    /\ \A k \in Contents : handles[k] = IF Broadcasting /\ k = sharedContent THEN 1 ELSE 0
    /\ Broadcasting => sharedContent \in Contents /\ ObjectsOf(Parent, sharedContent) # {}

\* What a child may still make an object of has been allocated, and what has
\* not been allocated is not referred to.
AllocatedInv ==
    /\ \A c \in Children : c \in received \/ child[c] = "received" => sharedContent \in Contents
    /\ sharedContent \in Contents => storage[sharedContent] # "none"
    /\ \A k \in Contents : storage[k] = "none" => objects[k] = {} /\ handles[k] = 0

BroadcastInv ==
    /\ SharedTypeOK /\ HostTypeOK /\ RefCountExact /\ NoLeak /\ HandleInv /\ AllocatedInv

\* With one child, the child is at the broadcast only while the parent waits
\* for it: the semaphore is released after the object has been made.
Answering(c) == c \in received \/ child[c] \in {"received", "created"}

OneChildInv ==
    /\ \A c \in Children :
          /\ Answering(c) => parent = "waiting" /\ semaphore = 0
          /\ ~(c \in received /\ child[c] \in {"received", "created"})
    /\ parent = "signalling" => semaphore = 0

=============================================================================
