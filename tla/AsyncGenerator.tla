--------------------------- MODULE AsyncGenerator ---------------------------
(***************************************************************************)
(* One async generator object: lib/Runtime/Library/                        *)
(* JavascriptAsyncGenerator.cpp and, for the state of the coroutine,       *)
(* JavascriptGenerator.cpp.                                                *)
(*                                                                         *)
(* One thread runs all of it, and yet the calls interleave: the code calls *)
(* out to script in three places (the body of the generator; the getter of *)
(* `then` that resolving a promise may run; the getter of `constructor`    *)
(* that unwrapping a value may run), and the script it calls may call the  *)
(* same generator again.  `frames` is the stack of these calls.            *)
(***************************************************************************)
EXTENDS Naturals, Sequences

CONSTANTS
    MaxRequests,    \* bound: calls of next, return and throw
    MaxAwaits       \* bound: awaits that the body executes

ASSUME GeneratorAssumption == MaxRequests \in Nat /\ MaxAwaits \in Nat

VARIABLES
    state,          \* JavascriptGenerator::state
    requestQueue,   \* requestQueue, its head first: [id, kind]
    pendingState,   \* pendingState
    reactions,      \* onFulfilled/onRejected pairs that wait for a promise
    frames,         \* the calls in progress on this generator, outermost first
    answers,        \* [id, as] of the requests taken off the queue, in order
                    \* (history)
    awaits,         \* awaits executed so far (bound)
    threw           \* UnwrapValue left with an exception (history)

vars == <<state, requestQueue, pendingState, reactions, frames, answers,
          awaits, threw>>

Kinds == {"Normal", "Return", "Throw"}      \* ResumeYieldKind
GeneratorState == {"SuspendedStart", "Suspended", "Executing", "Completed"}
PendingState == {"None", "Await", "AwaitReturn", "Yield"}
Requests == [id : Nat, kind : Kinds]

\* "resume" is a call of ResumeNext about to begin; the others are calls in
\* which script runs: the body of CallGenerator, Resolve of the promise of a
\* request in ResolveNext, PromiseResolve in UnwrapValue.
ScriptFrames == {"body", "resolve", "unwrap"}
Frames == ScriptFrames \union {"resume"}

-----------------------------------------------------------------------------
(* The stack.                                                              *)

Depth == Len(frames)
Top(f) == Depth > 0 /\ frames[Depth] = f
Becomes(f) == frames' = [frames EXCEPT ![Depth] = f]
Pop == frames' = SubSeq(frames, 1, Depth - 1)
Enter(f) == frames' = Append(frames, f)

\* A native step goes on as `Goes(f)`: in the frame that is on the top of the
\* stack, or in a new frame if a promise job calls it.
Goes(f) == IF frames = <<>> THEN Enter(f) ELSE Becomes(f)

-----------------------------------------------------------------------------
(* The parts of the handlers.                                              *)

\* ShiftRequest, and the answer that its promise is given.
ShiftRequest(outcome) ==
    /\ answers' = Append(answers, [id |-> Head(requestQueue).id,
                                   as |-> outcome])
    /\ requestQueue' = Tail(requestQueue)

\* ResolveNext when the state of the generator is g.  ResumeNext follows, once
\* Resolve has returned.
ResolveNext(g) ==
    /\ state' = g
    /\ ShiftRequest(IF g = "Completed" THEN "done" ELSE "value")
    /\ Goes("resolve")

\* Mutant: no SetCompleted, which shows when a yielded promise is rejected.
RejectNextMutant ==
    /\ state' = IF frames = <<>> THEN state ELSE "Completed"
    /\ ShiftRequest("rejected")
    /\ Goes("resume")

\* RejectNext.  Rejecting a promise runs no script.
RejectNext ==
    /\ state' = "Completed"
    /\ ShiftRequest("rejected")
    /\ Goes("resume")

\* UnwrapValue up to PromiseResolve.
UnwrapValue(g, pending) ==
    /\ state' = g
    /\ pendingState' = pending
    /\ Goes("unwrap")

\* ResumeCoroutine up to the call of the body (CallGenerator).
ResumeCoroutine ==
    /\ state' = "Executing"
    /\ Goes("body")

-----------------------------------------------------------------------------
(* Requests.                                                               *)

\* EntryNext, EntryReturn, EntryThrow and EnqueueRequest: a script, which runs
\* on its own or is called from one of the frames, makes a request.
EnqueueRequest(kind) ==
    /\ frames = <<>> \/ \E f \in ScriptFrames : Top(f)
    /\ Len(answers) + Len(requestQueue) < MaxRequests
    /\ requestQueue' = Append(requestQueue,
                              [id |-> Len(answers) + Len(requestQueue) + 1,
                               kind |-> kind])
    /\ Enter("resume")
    /\ UNCHANGED <<state, pendingState, reactions, answers, awaits, threw>>

\* Mutant: a generator that runs is not told from one that does not.
CannotResumeMutant == pendingState # "None" \/ requestQueue = <<>>

\* The early return of ResumeNext.
CannotResume ==
    \/ state = "Executing"
    \/ pendingState # "None"
    \/ requestQueue = <<>>

ResumeNothing ==
    /\ Top("resume")
    /\ CannotResume
    /\ Pop
    /\ UNCHANGED <<state, requestQueue, pendingState, reactions, answers,
                   awaits, threw>>

\* A request of return or throw completes a generator that has not started.
\* ResumeNext calls SetCompleted for it.
StateFor(kind) ==
    IF kind # "Normal" /\ state = "SuspendedStart" THEN "Completed" ELSE state

\* ResumeNext on a request of return.
ResumeReturn ==
    /\ Top("resume")
    /\ ~CannotResume
    /\ Head(requestQueue).kind = "Return"
    /\ LET g == StateFor("Return")
       IN  UnwrapValue(g, IF g = "Completed" THEN "Yield" ELSE "AwaitReturn")
    /\ UNCHANGED <<requestQueue, reactions, answers, awaits, threw>>

\* ResumeNext on a request of throw.
ResumeThrow ==
    /\ Top("resume")
    /\ ~CannotResume
    /\ Head(requestQueue).kind = "Throw"
    /\ \/ /\ StateFor("Throw") = "Completed"
          /\ RejectNext
       \/ /\ StateFor("Throw") # "Completed"
          /\ ResumeCoroutine
          /\ UNCHANGED <<requestQueue, answers>>
    /\ UNCHANGED <<pendingState, reactions, awaits, threw>>

\* ResumeNext on a request of next.
ResumeNormal ==
    /\ Top("resume")
    /\ ~CannotResume
    /\ Head(requestQueue).kind = "Normal"
    /\ \/ /\ state = "Completed"
          /\ ResolveNext(state)
       \/ /\ state # "Completed"
          /\ ResumeCoroutine
          /\ UNCHANGED <<requestQueue, answers>>
    /\ UNCHANGED <<pendingState, reactions, awaits, threw>>

\* Mutant: the next request is left to the next call.
ResolveReturnsMutant ==
    /\ Top("resolve")
    /\ Pop
    /\ UNCHANGED <<state, requestQueue, pendingState, reactions, answers,
                   awaits, threw>>

\* Resolve returns to ResolveNext, which calls ResumeNext.
ResolveReturns ==
    /\ Top("resolve")
    /\ Becomes("resume")
    /\ UNCHANGED <<state, requestQueue, pendingState, reactions, answers,
                   awaits, threw>>

-----------------------------------------------------------------------------
(* The body, and the rest of ResumeCoroutine: the destructor of            *)
(* GeneratorStateHelper has set the state.                                 *)

BodyAwaits ==
    /\ Top("body")
    /\ awaits < MaxAwaits
    /\ awaits' = awaits + 1
    /\ UnwrapValue("Suspended", "Await")
    /\ UNCHANGED <<requestQueue, reactions, answers, threw>>

BodyYields ==
    /\ Top("body")
    /\ UnwrapValue("Suspended", "Yield")
    /\ UNCHANGED <<requestQueue, reactions, answers, awaits, threw>>

BodyReturns ==
    /\ Top("body")
    /\ ResolveNext("Completed")
    /\ UNCHANGED <<pendingState, reactions, awaits, threw>>

BodyThrows ==
    /\ Top("body")
    /\ RejectNext
    /\ UNCHANGED <<pendingState, reactions, awaits, threw>>

-----------------------------------------------------------------------------
(* The value that UnwrapValue waits for.                                   *)

\* PerformPromiseThen of UnwrapValue, after which the handler is done.
UnwrapReturns ==
    /\ Top("unwrap")
    /\ reactions' = reactions + 1
    /\ Pop
    /\ UNCHANGED <<state, requestQueue, pendingState, answers, awaits, threw>>

\* The getter of `constructor` throws, in PromiseResolve: the exception leaves
\* the handler, and pendingState stays as UnwrapValue set it.
UnwrapThrows ==
    /\ Top("unwrap")
    /\ threw' = TRUE
    /\ Pop
    /\ UNCHANGED <<state, requestQueue, pendingState, reactions, answers,
                   awaits>>

\* Mutant: the pending state is not taken back.
CallbackMutant ==
    /\ frames = <<>>
    /\ reactions > 0
    /\ reactions' = reactions - 1
    /\ UNCHANGED <<pendingState, awaits, threw>>

\* A promise job calls one of the two callbacks, which both take the pending
\* state back.
Callback ==
    /\ frames = <<>>
    /\ reactions > 0
    /\ reactions' = reactions - 1
    /\ pendingState' = "None"
    /\ UNCHANGED <<awaits, threw>>

\* EntryAwaitFulfilledCallback.
Fulfilled ==
    /\ Callback
    /\ \/ /\ pendingState \in {"Await", "AwaitReturn"}
          /\ ResumeCoroutine
          /\ UNCHANGED <<requestQueue, answers>>
       \/ /\ pendingState = "Yield"
          /\ ResolveNext(state)

\* EntryAwaitRejectedCallback.
Rejected ==
    /\ Callback
    /\ \/ /\ pendingState \in {"Await", "AwaitReturn"}
          /\ ResumeCoroutine
          /\ UNCHANGED <<requestQueue, answers>>
       \/ /\ pendingState = "Yield"
          /\ RejectNext

-----------------------------------------------------------------------------
\* The generator function has made the object and, if its parameters are
\* complex, has run it up to the beginning of the body and set it back.
Init ==
    /\ state = "SuspendedStart"
    /\ requestQueue = <<>>
    /\ pendingState = "None"
    /\ reactions = 0
    /\ frames = <<>>
    /\ answers = <<>>
    /\ awaits = 0
    /\ threw = FALSE

ResumeNext == ResumeNothing \/ ResumeReturn \/ ResumeThrow \/ ResumeNormal

BodyEnds == BodyYields \/ BodyReturns \/ BodyThrows

Native == ResumeNext \/ ResolveReturns \/ UnwrapReturns \/ UnwrapThrows

Next ==
    \/ \E kind \in Kinds : EnqueueRequest(kind)
    \/ Native
    \/ BodyAwaits \/ BodyEnds
    \/ Fulfilled \/ Rejected

Spec == Init /\ [][Next]_vars

\* Native code goes on, a body that runs comes to its next yield or to its
\* end, and the promises that are awaited settle (the assumption on scripts).
FairSpec ==
    /\ Spec
    /\ WF_vars(Native)
    /\ WF_vars(BodyEnds)
    /\ WF_vars(Fulfilled \/ Rejected)

-----------------------------------------------------------------------------
(* Properties.                                                             *)

TypeOK ==
    /\ state \in GeneratorState
    /\ requestQueue \in Seq(Requests)
    /\ pendingState \in PendingState
    /\ reactions \in Nat
    /\ frames \in Seq(Frames)
    /\ answers \in Seq([id : Nat, as : {"value", "done", "rejected"}])
    /\ awaits \in Nat
    /\ threw \in BOOLEAN

Calls(f) == {i \in 1 .. Depth : frames[i] = f}

\* The body runs at most once at a time, and the state says so: script that
\* calls the generator from its own body, or from a getter that a handler
\* runs, never enters it a second time.  CallGenerator asserts it:
\* "Assert(!IsExecuting() && !IsCompleted())".
BodyExclusive ==
    /\ state = "Executing" <=> Calls("body") # {}
    /\ \A i, j \in Calls("body") : i = j

\* A value is awaited for the body only while the body is suspended in it.
AwaitsAreOfBody ==
    pendingState \in {"Await", "AwaitReturn"} => state = "Suspended"

\* A pending state is one reaction on one promise, or the handler that is
\* about to register it, and never two: a callback always finds the state it
\* was registered for ("Expected an async generator pending state") and, if it
\* resumes the body, finds it suspended.  Only an exception of UnwrapValue
\* leaves a pending state that nothing takes back.
PendingExact ==
    /\ AwaitsAreOfBody
    /\ reactions + (IF Calls("unwrap") = {} THEN 0 ELSE 1) <= 1
    /\ \A i, j \in Calls("unwrap") : i = j
    /\ (reactions > 0 \/ Calls("unwrap") # {}) => pendingState # "None"
    /\ ~threw /\ pendingState # "None" =>
         reactions > 0 \/ Calls("unwrap") # {}

\* The head of the queue is being worked on whenever there is one, and work is
\* under way only for a request: no request is forgotten by the early return
\* of ResumeNext, and no answer is given to nobody ("Assert(!requestQueue->
\* Empty())" of ShiftRequest).
HeadIsServed ==
    /\ requestQueue # <<>> =>
         \/ pendingState # "None"
         \/ \E f \in {"resume", "resolve", "body"} : Calls(f) # {}
    /\ pendingState # "None" \/ Calls("body") # {} => requestQueue # <<>>

Finished == \E i \in 1 .. Len(answers) : answers[i].as # "value"

Promise == INSTANCE AsyncIterator WITH
    waiting <- [i \in 1 .. Len(requestQueue) |-> requestQueue[i].id],
    answered <- answers,
    finished <- Finished

\* The generator implements AsyncIterator: one answer for each request, first
\* come first served, and none with a value after the iteration has ended.
KeepsOrder == Promise!Spec

\* Every request is answered in the end, unless UnwrapValue has thrown.
RequestsAnswered ==
    \A n \in 1 .. MaxRequests :
        Len(answers) + Len(requestQueue) >= n ~> Len(answers) >= n \/ threw
=============================================================================
