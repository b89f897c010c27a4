------------------------ MODULE AsyncGeneratorProofs ------------------------
(***************************************************************************)
(* Proofs about AsyncGenerator for any number of requests and awaits: the  *)
(* body is entered once at a time, a callback finds the state it was       *)
(* registered for, no request is forgotten, and the generator implements   *)
(* AsyncIterator.                                                          *)
(***************************************************************************)
EXTENDS AsyncGenerator, SequenceTheorems, TLAPS

-----------------------------------------------------------------------------
(* The stack.                                                              *)

\* Some call of the stack is f.
In(s, f) == \E i \in 1 .. Len(s) : s[i] = f

\* Calls of Resolve may nest.  The body and UnwrapValue are on the top, or
\* have called ResumeNext, which is on the top.
Shape(s) ==
    \A i \in 1 .. Len(s) :
        /\ s[i] = "resume" => i = Len(s)
        /\ s[i] \in {"body", "unwrap"} =>
             \/ i = Len(s)
             \/ i = Len(s) - 1 /\ s[Len(s)] = "resume"

\* A call on an empty stack.
LEMMA EnterEmpty ==
  ASSUME NEW f \in Frames
  PROVE  LET s == Append(<<>>, f)
         IN  /\ s \in Seq(Frames) /\ Shape(s)
             /\ \A h : In(s, h) <=> h = f
<1> DEFINE s == Append(<<>>, f)
<1>1. s \in Seq(Frames) /\ Len(s) = 1 /\ s[1] = f
  BY DEF Frames
<1> HIDE DEF s
<1>2. Shape(s) /\ \A h : In(s, h) <=> h = f
  BY <1>1 DEF Shape, In
<1> QED
  BY <1>1, <1>2 DEF s

\* A script calls the generator: its frame, if there is one, stays below.
LEMMA EnterResume ==
  ASSUME NEW r \in Seq(Frames), Shape(r),
         r = <<>> \/ (Len(r) > 0 /\ r[Len(r)] \in ScriptFrames)
  PROVE  LET s == Append(r, "resume")
         IN  /\ s \in Seq(Frames) /\ Shape(s) /\ In(s, "resume")
             /\ \A h : h # "resume" => (In(s, h) <=> In(r, h))
<1> DEFINE s == Append(r, "resume")
<1>1. s \in Seq(Frames) /\ Len(s) = Len(r) + 1 /\ Len(r) \in Nat
  BY DEF Frames
<1>2. s[Len(s)] = "resume" /\ \A i \in 1 .. Len(r) : s[i] = r[i]
  BY <1>1
<1>3. \A i \in 1 .. Len(r) : r[i] # "resume"
  BY <1>1 DEF Shape, ScriptFrames
<1>4. \A i \in 1 .. Len(r) : r[i] \in {"body", "unwrap"} => i = Len(r)
  BY <1>1 DEF Shape, ScriptFrames
<1> HIDE DEF s
<1>5. Shape(s)
  BY <1>1, <1>2, <1>3, <1>4 DEF Shape
<1>6. In(s, "resume")
  BY <1>1, <1>2 DEF In
<1>7. ASSUME NEW h, h # "resume"
      PROVE  In(s, h) <=> In(r, h)
  BY <1>1, <1>2, <1>7 DEF In
<1> QED
  BY <1>1, <1>5, <1>6, <1>7 DEF s

\* A handler goes on in the frame on the top, when nothing below it is the
\* body or UnwrapValue.
LEMMA ReplaceTop ==
  ASSUME NEW r \in Seq(Frames), Shape(r), Len(r) > 0, NEW f \in Frames,
         r[Len(r)] = "resume" => ~In(r, "body") /\ ~In(r, "unwrap")
  PROVE  LET s == [r EXCEPT ![Len(r)] = f]
         IN  /\ s \in Seq(Frames) /\ Shape(s) /\ In(s, f)
             /\ In(s, "body") <=> f = "body"
             /\ In(s, "unwrap") <=> f = "unwrap"
<1> DEFINE s == [r EXCEPT ![Len(r)] = f]
<1>1. s \in Seq(Frames) /\ Len(s) = Len(r) /\ Len(r) \in Nat
  OBVIOUS
<1>2. s[Len(s)] = f /\ \A i \in 1 .. Len(r) : i # Len(r) => s[i] = r[i]
  BY <1>1
<1>3. \A i \in 1 .. Len(r) : i # Len(r) => r[i] \notin {"body", "unwrap", "resume"}
  BY <1>1 DEF Shape, In
<1> HIDE DEF s
<1>4. Shape(s)
  BY <1>1, <1>2, <1>3 DEF Shape
<1>5. In(s, f) /\ (In(s, "body") <=> f = "body") /\ (In(s, "unwrap") <=> f = "unwrap")
  BY <1>1, <1>2, <1>3 DEF In
<1> QED
  BY <1>1, <1>4, <1>5 DEF s

\* A prefix of a sequence.
LEMMA FrontFacts ==
  ASSUME NEW S, NEW r \in Seq(S), NEW p \in 1 .. Len(r)
  PROVE  LET s == SubSeq(r, 1, p - 1)
         IN  s \in Seq(S) /\ Len(s) = p - 1 /\ \A i \in 1 .. Len(s) : s[i] = r[i]
<1>1. Len(r) \in Nat /\ p \in Nat /\ 1 <= p /\ p <= Len(r)
  OBVIOUS
<1> QED
  BY <1>1

\* The call on the top returns.
LEMMA PopTop ==
  ASSUME NEW r \in Seq(Frames), Shape(r), Len(r) > 0
  PROVE  LET s == SubSeq(r, 1, Len(r) - 1)
         IN  /\ s \in Seq(Frames) /\ Shape(s)
             /\ \A h \in {"body", "unwrap"} :
                  In(s, h) <=> (In(r, h) /\ r[Len(r)] # h)
             /\ In(r, "resolve") /\ r[Len(r)] # "resolve" => In(s, "resolve")
<1> DEFINE s == SubSeq(r, 1, Len(r) - 1)
<1>1. Len(r) \in Nat /\ Len(r) \in 1 .. Len(r)
  OBVIOUS
<1>2. /\ s \in Seq(Frames) /\ Len(s) = Len(r) - 1
      /\ \A i \in 1 .. Len(s) : s[i] = r[i]
  BY <1>1, FrontFacts
<1> HIDE DEF s
<1>3. Shape(s)
  BY <1>1, <1>2 DEF Shape
<1>4. ASSUME NEW h \in {"body", "unwrap"}
      PROVE  In(s, h) <=> (In(r, h) /\ r[Len(r)] # h)
  <2>1. In(s, h) => In(r, h) /\ r[Len(r)] # h
    BY <1>1, <1>2, <1>4 DEF In, Shape
  <2>2. In(r, h) /\ r[Len(r)] # h => In(s, h)
    BY <1>1, <1>2 DEF In
  <2> QED
    BY <2>1, <2>2
<1>5. In(r, "resolve") /\ r[Len(r)] # "resolve" => In(s, "resolve")
  BY <1>1, <1>2 DEF In
<1> QED
  BY <1>1, <1>3, <1>4, <1>5 DEF s

-----------------------------------------------------------------------------
(* The inductive invariant.                                                *)

Outcomes == {"value", "done", "rejected"}

Types ==
    /\ state \in GeneratorState
    /\ requestQueue \in Seq(Requests)
    /\ pendingState \in PendingState
    /\ reactions \in Nat
    /\ frames \in Seq(Frames)
    /\ answers \in Seq([id : Nat, as : Outcomes])
    /\ awaits \in Nat

\* The state of the coroutine and the stack.
BodyInv ==
    /\ Shape(frames)
    /\ state = "Executing" <=> In(frames, "body")
    /\ state = "Executing" => pendingState = "None"

\* The awaited value: PendingExact, and whose it is.
PendingInv ==
    /\ reactions \in {0, 1}
    /\ reactions = 1 => ~In(frames, "unwrap") /\ pendingState # "None"
    /\ In(frames, "unwrap") => pendingState # "None"
    /\ pendingState # "None" =>
         threw = TRUE \/ reactions = 1 \/ In(frames, "unwrap")
    /\ pendingState # "None" => state \in {"Suspended", "Completed"}
    /\ AwaitsAreOfBody

\* The queue and the work for its head.
QueueInv ==
    /\ requestQueue # <<>> =>
         \/ pendingState # "None"
         \/ In(frames, "resume") \/ In(frames, "resolve") \/ In(frames, "body")
    /\ pendingState # "None" \/ In(frames, "body") => requestQueue # <<>>

\* The iteration ends when the coroutine does.
DoneInv == Finished => state = "Completed"

IInv == Types /\ BodyInv /\ PendingInv /\ QueueInv /\ DoneInv

LEMMA InitIInv == Init => IInv
<1> SUFFICES ASSUME Init PROVE IInv
  OBVIOUS
<1>1. frames = <<>> /\ Len(frames) = 0 /\ answers = <<>> /\ Len(answers) = 0
  BY DEF Init
<1>2. Types
  BY DEF Init, Types, GeneratorState, PendingState
<1>3. Shape(frames) /\ \A h : ~In(frames, h)
  BY <1>1 DEF Shape, In
<1>4. DoneInv
  BY <1>1 DEF DoneInv, Finished
<1>5. BodyInv /\ PendingInv /\ QueueInv
  BY <1>3 DEF Init, BodyInv, PendingInv, QueueInv, AwaitsAreOfBody
<1> QED
  BY <1>2, <1>4, <1>5 DEF IInv

\* An answer is appended, and the head of the queue is gone.
LEMMA ShiftFacts ==
  ASSUME Types, requestQueue # <<>>, NEW o \in Outcomes, ShiftRequest(o)
  PROVE  /\ requestQueue' \in Seq(Requests)
         /\ answers' \in Seq([id : Nat, as : Outcomes])
         /\ Finished' <=> Finished \/ o # "value"
<1> DEFINE a == [id |-> Head(requestQueue).id, as |-> o]
<1>1. Head(requestQueue) \in Requests /\ requestQueue' \in Seq(Requests)
  BY HeadTailProperties DEF ShiftRequest, Types
<1>2. a \in [id : Nat, as : Outcomes]
  BY <1>1 DEF Requests
<1>3. answers' = Append(answers, a) /\ answers \in Seq([id : Nat, as : Outcomes])
  BY DEF ShiftRequest, Types
<1>4. a.as = o
  OBVIOUS
<1> HIDE DEF a
<1>5. /\ answers' \in Seq([id : Nat, as : Outcomes])
      /\ Len(answers') = Len(answers) + 1 /\ Len(answers) \in Nat
      /\ answers'[Len(answers) + 1] = a
      /\ \A i \in 1 .. Len(answers) : answers'[i] = answers[i]
  BY <1>2, <1>3
<1>6. Finished' <=> Finished \/ o # "value"
  BY <1>4, <1>5 DEF Finished
<1> QED
  BY <1>1, <1>5, <1>6

\* The stack after a handler goes on as f: it was called by a promise job, or
\* is the call on the top.
LEMMA GoesFacts ==
  ASSUME frames \in Seq(Frames), Shape(frames), NEW f \in Frames, Goes(f),
         frames # <<>> => Depth > 0,
         Top("resume") => ~In(frames, "body") /\ ~In(frames, "unwrap")
  PROVE  /\ frames' \in Seq(Frames) /\ Shape(frames') /\ In(frames', f)
         /\ In(frames', "body") <=> f = "body"
         /\ In(frames', "unwrap") <=> f = "unwrap"
<1>1. CASE frames = <<>>
  <2>1. frames' = Append(<<>>, f)
    BY <1>1 DEF Goes, Enter
  <2> QED
    BY <2>1, EnterEmpty
<1>2. CASE frames # <<>>
  <2>1. frames' = [frames EXCEPT ![Len(frames)] = f] /\ Len(frames) > 0
    BY <1>2 DEF Goes, Becomes, Depth
  <2>2. frames[Len(frames)] = "resume" => ~In(frames, "body") /\ ~In(frames, "unwrap")
    BY <2>1 DEF Top, Depth
  <2> QED
    BY <2>1, <2>2, ReplaceTop
<1> QED
  BY <1>1, <1>2

\* What the stack says in a state of the invariant.
LEMMA StackFacts ==
  ASSUME IInv
  PROVE  /\ frames # <<>> => Depth > 0
         /\ \A f \in Frames : Top(f) => In(frames, f)
         /\ frames = <<>> => \A h : ~In(frames, h)
<1>1. frames \in Seq(Frames) /\ Len(frames) \in Nat
  BY DEF IInv, Types
<1> QED
  BY <1>1 DEF Depth, Top, In

-----------------------------------------------------------------------------
(* One lemma for each action.                                              *)

LEMMA EnqueueRequestIInv ==
  ASSUME IInv, NEW kind \in Kinds, EnqueueRequest(kind)
  PROVE  IInv'
<1> DEFINE q == [id |-> Len(answers) + Len(requestQueue) + 1, kind |-> kind]
<1>1. q \in Requests
  BY DEF IInv, Types, Requests
<1>2. requestQueue' = Append(requestQueue, q) /\ requestQueue \in Seq(Requests)
  BY DEF EnqueueRequest, IInv, Types
<1> HIDE DEF q
<1>3. requestQueue' \in Seq(Requests) /\ requestQueue' # <<>>
  BY <1>1, <1>2
<1>4. frames = <<>> \/ (Len(frames) > 0 /\ frames[Len(frames)] \in ScriptFrames)
  BY DEF EnqueueRequest, Top, Depth
<1>5. frames' = Append(frames, "resume") /\ frames \in Seq(Frames) /\ Shape(frames)
  BY DEF EnqueueRequest, Enter, IInv, Types, BodyInv
<1>6. /\ frames' \in Seq(Frames) /\ Shape(frames') /\ In(frames', "resume")
      /\ In(frames', "body") <=> In(frames, "body")
      /\ In(frames', "unwrap") <=> In(frames, "unwrap")
  BY <1>4, <1>5, EnterResume
<1>7. UNCHANGED <<state, pendingState, reactions, answers, awaits, threw>>
  BY DEF EnqueueRequest
<1>8. Types'
  BY <1>3, <1>6, <1>7 DEF IInv, Types
<1>9. BodyInv' /\ PendingInv' /\ QueueInv'
  BY <1>3, <1>6, <1>7 DEF IInv, BodyInv, PendingInv, QueueInv, AwaitsAreOfBody
<1>10. DoneInv'
  BY <1>7 DEF IInv, DoneInv, Finished
<1> QED
  BY <1>8, <1>9, <1>10 DEF IInv

\* A frame returns: the stack below it is what it was.
LEMMA PopFacts ==
  ASSUME IInv, Depth > 0, Pop
  PROVE  /\ frames' \in Seq(Frames) /\ Shape(frames')
         /\ \A h \in {"body", "unwrap"} :
              In(frames', h) <=> (In(frames, h) /\ frames[Depth] # h)
<1>1. frames \in Seq(Frames) /\ Shape(frames) /\ Len(frames) > 0
  BY DEF IInv, Types, BodyInv, Depth
<1> QED
  BY <1>1, PopTop DEF Pop, Depth

LEMMA ResumeNothingIInv ==
  ASSUME IInv, ResumeNothing
  PROVE  IInv'
<1>1. Depth > 0 /\ frames[Depth] = "resume" /\ Pop /\ CannotResume
  BY DEF ResumeNothing, Top
<1>2. /\ frames' \in Seq(Frames) /\ Shape(frames')
      /\ In(frames', "body") <=> In(frames, "body")
      /\ In(frames', "unwrap") <=> In(frames, "unwrap")
  BY <1>1, PopFacts
<1>3. UNCHANGED <<state, requestQueue, pendingState, reactions, answers,
                  awaits, threw>>
  BY DEF ResumeNothing
<1>4. Types'
  BY <1>2, <1>3 DEF IInv, Types
<1>5. BodyInv' /\ PendingInv' /\ QueueInv'
  BY <1>1, <1>2, <1>3
     DEF IInv, BodyInv, PendingInv, QueueInv, AwaitsAreOfBody, CannotResume
<1>6. DoneInv'
  BY <1>3 DEF IInv, DoneInv, Finished
<1> QED
  BY <1>4, <1>5, <1>6 DEF IInv

\* ResumeNext does something only for a request, with nothing pending and no
\* body that runs.
LEMMA CanResume ==
  ASSUME IInv, Top("resume"), ~CannotResume
  PROVE  /\ state # "Executing" /\ pendingState = "None" /\ requestQueue # <<>>
         /\ reactions = 0 /\ ~In(frames, "body") /\ ~In(frames, "unwrap")
  BY DEF CannotResume, IInv, BodyInv, PendingInv

LEMMA ResumeReturnIInv ==
  ASSUME IInv, ResumeReturn
  PROVE  IInv'
<1> DEFINE g == StateFor("Return")
           pending == IF g = "Completed" THEN "Yield" ELSE "AwaitReturn"
<1>1. Top("resume") /\ ~CannotResume /\ UnwrapValue(g, pending)
  BY DEF ResumeReturn
<1>2. g \in {"Suspended", "Completed"} /\ (state = "Completed" => g = "Completed")
  BY <1>1, CanResume DEF StateFor, IInv, Types, GeneratorState
<1>3. pending \in {"Yield", "AwaitReturn"} /\ (pending = "AwaitReturn" => g = "Suspended")
  BY <1>2
<1>4. state' = g /\ pendingState' = pending /\ Goes("unwrap")
  BY <1>1 DEF UnwrapValue
<1> HIDE DEF g, pending
<1>5. UNCHANGED <<requestQueue, reactions, answers, awaits, threw>>
  BY DEF ResumeReturn
<1>6. /\ frames' \in Seq(Frames) /\ Shape(frames') /\ In(frames', "unwrap")
      /\ ~In(frames', "body")
  BY <1>1, <1>4, CanResume, StackFacts, GoesFacts
     DEF IInv, Types, BodyInv, Frames, ScriptFrames
<1>7. Types'
  BY <1>2, <1>3, <1>4, <1>5, <1>6 DEF IInv, Types, GeneratorState, PendingState
<1>8. BodyInv' /\ PendingInv' /\ QueueInv'
  BY <1>1, <1>2, <1>3, <1>4, <1>5, <1>6, CanResume
     DEF BodyInv, PendingInv, QueueInv, AwaitsAreOfBody
<1>9. DoneInv'
  BY <1>2, <1>4, <1>5 DEF IInv, DoneInv, Finished
<1> QED
  BY <1>7, <1>8, <1>9 DEF IInv

\* ResumeCoroutine, from ResumeNext or from a callback.
LEMMA ResumeCoroutineIInv ==
  ASSUME IInv, ResumeCoroutine, state # "Completed", requestQueue # <<>>,
         frames = <<>> \/ (Top("resume") /\ ~CannotResume),
         pendingState' = "None", reactions' = 0,
         UNCHANGED <<requestQueue, answers, awaits, threw>>
  PROVE  IInv'
<1>1. state' = "Executing" /\ Goes("body")
  BY DEF ResumeCoroutine
<1>2. Top("resume") => ~In(frames, "body") /\ ~In(frames, "unwrap")
  BY CanResume DEF Top, Depth
<1>3. /\ frames' \in Seq(Frames) /\ Shape(frames') /\ In(frames', "body")
      /\ ~In(frames', "unwrap")
  BY <1>1, <1>2, StackFacts, GoesFacts DEF IInv, Types, BodyInv, Frames, ScriptFrames
<1>4. Types'
  BY <1>1, <1>3 DEF IInv, Types, GeneratorState, PendingState
<1>5. BodyInv' /\ PendingInv' /\ QueueInv'
  BY <1>1, <1>3 DEF BodyInv, PendingInv, QueueInv, AwaitsAreOfBody
<1>6. DoneInv'
  BY DEF IInv, DoneInv, Finished
<1> QED
  BY <1>4, <1>5, <1>6 DEF IInv

\* ResolveNext and RejectNext: the head is answered with o, and the handler
\* goes on as f.
LEMMA AnswerIInv ==
  ASSUME IInv, requestQueue # <<>>, NEW o \in Outcomes, ShiftRequest(o),
         NEW f \in {"resolve", "resume"}, Goes(f),
         Top("resume") => ~CannotResume,
         state' \in {"Suspended", "Completed"}, state' = "Completed" <=> o # "value",
         state = "Completed" => state' = "Completed",
         pendingState' = "None", reactions' = 0, UNCHANGED <<awaits, threw>>
  PROVE  IInv'
<1>1. Top("resume") => ~In(frames, "body") /\ ~In(frames, "unwrap")
  BY CanResume
<1>2. /\ frames' \in Seq(Frames) /\ Shape(frames') /\ In(frames', f)
      /\ ~In(frames', "body") /\ ~In(frames', "unwrap")
  BY <1>1, StackFacts, GoesFacts DEF IInv, Types, BodyInv, Frames, ScriptFrames
<1>3. /\ requestQueue' \in Seq(Requests)
      /\ answers' \in Seq([id : Nat, as : Outcomes])
      /\ Finished' <=> Finished \/ o # "value"
  BY ShiftFacts DEF IInv
<1>4. Types'
  BY <1>2, <1>3 DEF IInv, Types, GeneratorState, PendingState
<1>5. BodyInv' /\ PendingInv' /\ QueueInv'
  BY <1>2 DEF BodyInv, PendingInv, QueueInv, AwaitsAreOfBody
<1>6. DoneInv'
  BY <1>3 DEF IInv, DoneInv
<1> QED
  BY <1>4, <1>5, <1>6 DEF IInv

LEMMA ResumeThrowIInv ==
  ASSUME IInv, ResumeThrow
  PROVE  IInv'
<1>1. Top("resume") /\ ~CannotResume /\ UNCHANGED <<pendingState, reactions, awaits, threw>>
  BY DEF ResumeThrow
<1>2. pendingState' = "None" /\ reactions' = 0 /\ requestQueue # <<>>
  BY <1>1, CanResume
<1>3. CASE RejectNext
  BY <1>1, <1>2, <1>3, AnswerIInv DEF RejectNext, Outcomes
<1>4. CASE StateFor("Throw") # "Completed" /\ ResumeCoroutine
           /\ UNCHANGED <<requestQueue, answers>>
  BY <1>1, <1>2, <1>4, ResumeCoroutineIInv DEF StateFor
<1> QED
  BY <1>3, <1>4 DEF ResumeThrow

LEMMA ResumeNormalIInv ==
  ASSUME IInv, ResumeNormal
  PROVE  IInv'
<1>1. Top("resume") /\ ~CannotResume /\ UNCHANGED <<pendingState, reactions, awaits, threw>>
  BY DEF ResumeNormal
<1>2. pendingState' = "None" /\ reactions' = 0 /\ requestQueue # <<>>
  BY <1>1, CanResume
<1>3. CASE state = "Completed" /\ ResolveNext(state)
  BY <1>1, <1>2, <1>3, AnswerIInv DEF ResolveNext, Outcomes
<1>4. CASE state # "Completed" /\ ResumeCoroutine /\ UNCHANGED <<requestQueue, answers>>
  BY <1>1, <1>2, <1>4, ResumeCoroutineIInv
<1> QED
  BY <1>3, <1>4 DEF ResumeNormal

LEMMA ResolveReturnsIInv ==
  ASSUME IInv, ResolveReturns
  PROVE  IInv'
<1>1. /\ Top("resolve") /\ ~Top("resume") /\ frames \in Seq(Frames) /\ Shape(frames)
      /\ Len(frames) > 0 /\ frames[Len(frames)] = "resolve"
      /\ frames' = [frames EXCEPT ![Len(frames)] = "resume"]
  BY DEF ResolveReturns, Top, Depth, Becomes, IInv, Types, BodyInv
<1>2. /\ frames' \in Seq(Frames) /\ Shape(frames') /\ In(frames', "resume")
      /\ ~In(frames', "body") /\ ~In(frames', "unwrap")
  <2>1. "resume" \in Frames /\ frames[Len(frames)] # "resume"
    BY <1>1 DEF Frames
  <2> QED
    BY <1>1, <2>1, ReplaceTop
<1>3. ~In(frames, "body") /\ ~In(frames, "unwrap")
  BY <1>1 DEF Shape, In
<1>4. UNCHANGED <<state, requestQueue, pendingState, reactions, answers,
                  awaits, threw>>
  BY DEF ResolveReturns
<1>5. Types'
  BY <1>2, <1>4 DEF IInv, Types
<1>6. BodyInv' /\ PendingInv' /\ QueueInv'
  BY <1>2, <1>3, <1>4 DEF IInv, BodyInv, PendingInv, QueueInv, AwaitsAreOfBody
<1>7. DoneInv'
  BY <1>4 DEF IInv, DoneInv, Finished
<1> QED
  BY <1>5, <1>6, <1>7 DEF IInv

\* The body runs with nothing pending, for a request.
LEMMA BodyFacts ==
  ASSUME IInv, Top("body")
  PROVE  /\ state = "Executing" /\ pendingState = "None" /\ reactions = 0
         /\ requestQueue # <<>> /\ ~Top("resume") /\ ~Finished
<1>1. In(frames, "body")
  BY StackFacts DEF Frames, ScriptFrames
<1>2. state = "Executing" /\ pendingState = "None" /\ requestQueue # <<>>
  BY <1>1 DEF IInv, BodyInv, QueueInv
<1>3. reactions = 0 /\ ~Finished
  BY <1>2 DEF IInv, PendingInv, DoneInv
<1> QED
  BY <1>2, <1>3 DEF Top

\* BodyAwaits and BodyYields.
LEMMA BodySuspends ==
  ASSUME IInv, Top("body"), NEW pending \in {"Await", "Yield"},
         UnwrapValue("Suspended", pending), awaits' \in Nat,
         UNCHANGED <<requestQueue, reactions, answers, threw>>
  PROVE  IInv'
<1>1. state' = "Suspended" /\ pendingState' = pending /\ Goes("unwrap")
  BY DEF UnwrapValue
<1>2. /\ frames' \in Seq(Frames) /\ Shape(frames') /\ In(frames', "unwrap")
      /\ ~In(frames', "body")
  BY <1>1, BodyFacts, StackFacts, GoesFacts DEF IInv, Types, BodyInv, Frames, ScriptFrames
<1>3. Types'
  BY <1>1, <1>2 DEF IInv, Types, GeneratorState, PendingState
<1>4. BodyInv' /\ PendingInv' /\ QueueInv'
  BY <1>1, <1>2, BodyFacts DEF BodyInv, PendingInv, QueueInv, AwaitsAreOfBody
<1>5. DoneInv'
  BY BodyFacts DEF DoneInv, Finished
<1> QED
  BY <1>3, <1>4, <1>5 DEF IInv

LEMMA UnwrapIInv ==
  ASSUME IInv, UnwrapReturns \/ UnwrapThrows
  PROVE  IInv'
<1>1. Depth > 0 /\ frames[Depth] = "unwrap" /\ Pop
  BY DEF UnwrapReturns, UnwrapThrows, Top
<1>2. In(frames, "unwrap")
  BY <1>1, StackFacts DEF Top, Frames, ScriptFrames
<1>3. /\ frames' \in Seq(Frames) /\ Shape(frames')
      /\ In(frames', "body") <=> In(frames, "body")
      /\ ~In(frames', "unwrap")
  BY <1>1, PopFacts
<1>4. pendingState # "None" /\ reactions = 0
  BY <1>2 DEF IInv, PendingInv
<1>5. /\ UNCHANGED <<state, requestQueue, pendingState, answers, awaits>>
      /\ \/ reactions' = 1 /\ threw' = threw
         \/ reactions' = 0 /\ threw' = TRUE
  BY <1>4 DEF UnwrapReturns, UnwrapThrows
<1>6. Types'
  BY <1>3, <1>5 DEF IInv, Types
<1>7. BodyInv' /\ PendingInv' /\ QueueInv'
  BY <1>3, <1>4, <1>5 DEF IInv, BodyInv, PendingInv, QueueInv, AwaitsAreOfBody
<1>8. DoneInv'
  BY <1>5 DEF IInv, DoneInv, Finished
<1> QED
  BY <1>6, <1>7, <1>8 DEF IInv

\* A callback runs for a request, with nothing on the stack.
LEMMA CallbackFacts ==
  ASSUME IInv, Callback
  PROVE  /\ frames = <<>> /\ ~Top("resume") /\ pendingState # "None"
         /\ requestQueue # <<>> /\ pendingState' = "None" /\ reactions' = 0
         /\ UNCHANGED <<awaits, threw>> /\ state \in {"Suspended", "Completed"}
<1>1. frames = <<>> /\ reactions = 1 /\ reactions' = 0 /\ pendingState' = "None"
  BY DEF Callback, IInv, PendingInv
<1> QED
  BY <1>1 DEF Callback, IInv, Types, BodyInv, PendingInv, QueueInv, Top, Depth

\* A callback resumes the coroutine.
LEMMA CallbackResumes ==
  ASSUME IInv, Callback, pendingState \in {"Await", "AwaitReturn"},
         ResumeCoroutine, UNCHANGED <<requestQueue, answers>>
  PROVE  IInv'
<1>1. state # "Completed"
  BY DEF IInv, PendingInv, AwaitsAreOfBody
<1> QED
  BY <1>1, CallbackFacts, ResumeCoroutineIInv

-----------------------------------------------------------------------------
(* The step.                                                               *)

LEMMA FulfilledIInv ==
  ASSUME IInv, Fulfilled
  PROVE  IInv'
<1>1. Callback
  BY DEF Fulfilled
<1>2. CASE pendingState \in {"Await", "AwaitReturn"} /\ ResumeCoroutine
           /\ UNCHANGED <<requestQueue, answers>>
  BY <1>1, <1>2, CallbackResumes
<1>3. CASE ResolveNext(state)
  BY <1>1, <1>3, CallbackFacts, AnswerIInv DEF ResolveNext, Outcomes
<1> QED
  BY <1>2, <1>3 DEF Fulfilled

LEMMA RejectedIInv ==
  ASSUME IInv, Rejected
  PROVE  IInv'
<1>1. Callback
  BY DEF Rejected
<1>2. CASE pendingState \in {"Await", "AwaitReturn"} /\ ResumeCoroutine
           /\ UNCHANGED <<requestQueue, answers>>
  BY <1>1, <1>2, CallbackResumes
<1>3. CASE RejectNext
  BY <1>1, <1>3, CallbackFacts, AnswerIInv DEF RejectNext, Outcomes
<1> QED
  BY <1>2, <1>3 DEF Rejected

LEMMA BodyIInv ==
  ASSUME IInv, BodyAwaits \/ BodyEnds
  PROVE  IInv'
<1>1. CASE BodyAwaits
  <2>1. awaits' \in Nat
    BY <1>1 DEF BodyAwaits, IInv, Types
  <2> QED
    BY <1>1, <2>1, BodySuspends DEF BodyAwaits
<1>2. CASE BodyYields
  <2>1. awaits' \in Nat
    BY <1>2 DEF BodyYields, IInv, Types
  <2> QED
    BY <1>2, <2>1, BodySuspends DEF BodyYields
<1>3. CASE BodyReturns
  BY <1>3, BodyFacts, AnswerIInv DEF BodyReturns, ResolveNext, Outcomes
<1>4. CASE BodyThrows
  BY <1>4, BodyFacts, AnswerIInv DEF BodyThrows, RejectNext, Outcomes
<1> QED
  BY <1>1, <1>2, <1>3, <1>4 DEF BodyEnds

LEMMA StutterIInv ==
  ASSUME IInv, UNCHANGED vars
  PROVE  IInv'
  BY DEF vars, IInv, Types, BodyInv, PendingInv, QueueInv, DoneInv, Finished,
         AwaitsAreOfBody

LEMMA NextIInv ==
  ASSUME IInv, [Next]_vars
  PROVE  IInv'
<1>1. CASE \E kind \in Kinds : EnqueueRequest(kind)
  BY <1>1, EnqueueRequestIInv
<1>2. CASE ResumeNext
  BY <1>2, ResumeNothingIInv, ResumeReturnIInv, ResumeThrowIInv, ResumeNormalIInv
     DEF ResumeNext
<1>3. CASE ResolveReturns
  BY <1>3, ResolveReturnsIInv
<1>4. CASE UnwrapReturns \/ UnwrapThrows
  BY <1>4, UnwrapIInv
<1>5. CASE BodyAwaits \/ BodyEnds
  BY <1>5, BodyIInv
<1>6. CASE Fulfilled \/ Rejected
  BY <1>6, FulfilledIInv, RejectedIInv
<1>7. CASE UNCHANGED vars
  BY <1>7, StutterIInv
<1> QED
  BY <1>1, <1>2, <1>3, <1>4, <1>5, <1>6, <1>7 DEF Next, Native

\* threw is a Boolean.
LEMMA ThrewType ==
  ASSUME threw \in BOOLEAN, [Next]_vars
  PROVE  threw' \in BOOLEAN
<1>1. threw' = threw \/ threw' = TRUE
  BY DEF Next, Native, ResumeNext, BodyEnds, EnqueueRequest, ResumeNothing,
         ResumeReturn, ResumeThrow, ResumeNormal, ResolveReturns, BodyAwaits,
         BodyYields, BodyReturns, BodyThrows, UnwrapReturns, UnwrapThrows,
         Fulfilled, Rejected, Callback, vars
<1> QED
  BY <1>1

THEOREM Inductive == Spec => [](IInv /\ threw \in BOOLEAN)
<1>1. Init => IInv /\ threw \in BOOLEAN
  BY InitIInv DEF Init
<1>2. (IInv /\ threw \in BOOLEAN) /\ [Next]_vars => (IInv /\ threw \in BOOLEAN)'
  BY NextIInv, ThrewType
<1> QED
  BY <1>1, <1>2, PTL DEF Spec

-----------------------------------------------------------------------------
(* The theorems.                                                           *)

\* The variables of a generator have their types.
THEOREM TypeCorrect == Spec => []TypeOK
<1>1. IInv /\ threw \in BOOLEAN => TypeOK
  BY DEF IInv, Types, TypeOK, Outcomes
<1> QED
  BY <1>1, Inductive, PTL

\* However scripts call the generator from its body and from getters, the body
\* is never entered while it runs.
THEOREM BodyIsExclusive == Spec => []BodyExclusive
<1>1. IInv => BodyExclusive
  <2> SUFFICES ASSUME IInv PROVE BodyExclusive
    OBVIOUS
  <2>1. Len(frames) \in Nat /\ Shape(frames)
    BY DEF IInv, Types, BodyInv
  <2>2. Calls("body") # {} <=> In(frames, "body")
    BY DEF Calls, In, Depth
  <2>3. \A i, j \in Calls("body") : i = j
    BY <2>1 DEF Calls, Shape, Depth
  <2> QED
    BY <2>2, <2>3 DEF BodyExclusive, IInv, BodyInv
<1> QED
  BY <1>1, Inductive, PTL

\* A pending state belongs to one reaction, and a callback finds the state it
\* was registered for and, if it resumes the body, a body that is suspended.
THEOREM PendingIsExact == Spec => []PendingExact
<1>1. IInv /\ threw \in BOOLEAN => PendingExact
  <2> SUFFICES ASSUME IInv PROVE PendingExact
    OBVIOUS
  <2>1. Len(frames) \in Nat /\ Shape(frames)
    BY DEF IInv, Types, BodyInv
  <2>2. Calls("unwrap") # {} <=> In(frames, "unwrap")
    BY DEF Calls, In, Depth
  <2>3. \A i, j \in Calls("unwrap") : i = j
    BY <2>1 DEF Calls, Shape, Depth
  <2>4. /\ reactions \in {0, 1}
        /\ reactions = 1 => Calls("unwrap") = {} /\ pendingState # "None"
        /\ Calls("unwrap") # {} => pendingState # "None"
        /\ pendingState # "None" => threw = TRUE \/ reactions = 1 \/ Calls("unwrap") # {}
    BY <2>2 DEF IInv, PendingInv
  <2>5. reactions + (IF Calls("unwrap") = {} THEN 0 ELSE 1) <= 1
    BY <2>4
  <2>6. (reactions > 0 \/ Calls("unwrap") # {}) => pendingState # "None"
    BY <2>4
  <2>7. ~threw /\ pendingState # "None" => reactions > 0 \/ Calls("unwrap") # {}
    <3>1. reactions = 1 => reactions > 0
      OBVIOUS
    <3> QED
      BY <2>4, <3>1, Zenon
  <2>8. AwaitsAreOfBody
    BY DEF IInv, PendingInv
  <2> QED
    BY <2>3, <2>5, <2>6, <2>7, <2>8 DEF PendingExact
<1> QED
  BY <1>1, Inductive, PTL

\* No request is forgotten, and no answer is given to nobody.
THEOREM NoRequestForgotten == Spec => []HeadIsServed
<1>1. IInv => HeadIsServed
  <2> SUFFICES ASSUME IInv PROVE HeadIsServed
    OBVIOUS
  <2>1. \A f : Calls(f) # {} <=> In(frames, f)
    BY DEF Calls, In, Depth
  <2> QED
    BY <2>1 DEF HeadIsServed, IInv, QueueInv
<1> QED
  BY <1>1, Inductive, PTL

-----------------------------------------------------------------------------
(* The refinement.                                                         *)

Ids(q) == [i \in 1 .. Len(q) |-> q[i].id]

LEMMA IdsType ==
  ASSUME NEW q \in Seq(Requests)
  PROVE  Ids(q) \in Seq(Nat) /\ Len(Ids(q)) = Len(q)
<1>1. \A i \in 1 .. Len(q) : q[i].id \in Nat
  <2>1. \A i \in 1 .. Len(q) : q[i] \in Requests
    OBVIOUS
  <2> QED
    BY <2>1 DEF Requests
<1>2. Len(q) \in Nat
  OBVIOUS
<1> QED
  BY <1>1, <1>2 DEF Ids

LEMMA IdsAppend ==
  ASSUME NEW q \in Seq(Requests), NEW x \in Requests
  PROVE  Ids(Append(q, x)) = Append(Ids(q), x.id)
<1> DEFINE r == Append(q, x)
           s == Append(Ids(q), x.id)
<1>1. r \in Seq(Requests) /\ Len(r) = Len(q) + 1 /\ Len(q) \in Nat
  OBVIOUS
<1>2. r[Len(q) + 1] = x /\ \A i \in 1 .. Len(q) : r[i] = q[i]
  OBVIOUS
<1>3. x.id \in Nat
  BY DEF Requests
<1>4. /\ s \in Seq(Nat) /\ Len(s) = Len(q) + 1 /\ s[Len(q) + 1] = x.id
      /\ \A i \in 1 .. Len(q) : s[i] = Ids(q)[i]
  BY <1>3, IdsType
<1>5. Ids(r) \in Seq(Nat) /\ Len(Ids(r)) = Len(q) + 1
  BY <1>1, IdsType
<1> HIDE DEF r, s
<1>6. \A i \in 1 .. Len(q) + 1 : Ids(r)[i] = s[i]
  BY <1>1, <1>2, <1>4 DEF Ids
<1>7. Ids(r) = s
  BY <1>1, <1>4, <1>5, <1>6, SeqEqual
<1> QED
  BY <1>7 DEF r, s

LEMMA IdsTail ==
  ASSUME NEW q \in Seq(Requests), q # <<>>
  PROVE  /\ Ids(q) # <<>> /\ Head(Ids(q)) = Head(q).id
         /\ Ids(Tail(q)) = Tail(Ids(q))
<1>1. /\ Tail(q) \in Seq(Requests) /\ Len(Tail(q)) = Len(q) - 1
      /\ \A i \in 1 .. Len(Tail(q)) : Tail(q)[i] = q[i + 1]
  BY HeadTailProperties
<1>2. Len(q) \in Nat /\ Len(q) > 0 /\ Head(q) = q[1]
  OBVIOUS
<1>3. Ids(q) \in Seq(Nat) /\ Len(Ids(q)) = Len(q) /\ Ids(q) # <<>>
  BY <1>2, IdsType
<1>4. Head(Ids(q)) = Head(q).id
  <2>1. Head(Ids(q)) = Ids(q)[1]
    BY <1>2, <1>3
  <2> QED
    BY <1>2, <2>1 DEF Ids
<1>5. /\ Tail(Ids(q)) \in Seq(Nat) /\ Len(Tail(Ids(q))) = Len(q) - 1
      /\ \A i \in 1 .. Len(q) - 1 : Tail(Ids(q))[i] = Ids(q)[i + 1]
  BY <1>3, HeadTailProperties
<1>6. Ids(Tail(q)) \in Seq(Nat) /\ Len(Ids(Tail(q))) = Len(q) - 1
  BY <1>1, IdsType
<1>7. \A i \in 1 .. Len(q) - 1 : Ids(Tail(q))[i] = Tail(Ids(q))[i]
  BY <1>1, <1>2, <1>5 DEF Ids
<1>8. Ids(Tail(q)) = Tail(Ids(q))
  BY <1>2, <1>5, <1>6, <1>7, SeqEqual
<1> QED
  BY <1>3, <1>4, <1>8

\* An answer of the generator is an answer of the iterator.
LEMMA AnswerStep ==
  ASSUME IInv, requestQueue # <<>>, NEW o \in Outcomes, ShiftRequest(o),
         o = "value" => ~Finished
  PROVE  Promise!Next
<1>1. requestQueue \in Seq(Requests)
  BY DEF IInv, Types
<1>2. /\ Ids(requestQueue) # <<>>
      /\ Ids(requestQueue') = Tail(Ids(requestQueue))
      /\ Head(Ids(requestQueue)) = Head(requestQueue).id
  BY <1>1, IdsTail DEF ShiftRequest
<1>3. answers' = Append(answers, [id |-> Head(Ids(requestQueue)), as |-> o])
  BY <1>2 DEF ShiftRequest
<1>4. Finished' = (Finished \/ o # "value")
  <2>1. Finished' <=> Finished \/ o # "value"
    BY ShiftFacts DEF IInv
  <2>2. Finished \in BOOLEAN /\ Finished' \in BOOLEAN
    BY DEF Finished
  <2> QED
    BY <2>1, <2>2, Zenon
<1>5. Finished => o # "value"
  OBVIOUS
<1>6. Promise!Answer(o)
  BY <1>2, <1>3, <1>4, <1>5 DEF Promise!Answer, Ids
<1> QED
  BY <1>6 DEF Promise!Next, Promise!Outcomes, Outcomes

\* A new request is a new request of the iterator.
LEMMA AskStep ==
  ASSUME IInv, NEW kind \in Kinds, EnqueueRequest(kind)
  PROVE  Promise!Next
<1> DEFINE n == Len(answers) + Len(requestQueue) + 1
           x == [id |-> n, kind |-> kind]
<1>1. requestQueue \in Seq(Requests) /\ Len(requestQueue) \in Nat /\ Len(answers) \in Nat
  BY DEF IInv, Types
<1>2. n \in Nat /\ x \in Requests /\ x.id = n
  BY <1>1 DEF Requests
<1>3. requestQueue' = Append(requestQueue, x)
  BY DEF EnqueueRequest
<1>4. Ids(requestQueue') = Append(Ids(requestQueue), n)
  <2> HIDE DEF x, n
  <2> QED
    BY <1>1, <1>2, <1>3, IdsAppend
<1>5. Len(Ids(requestQueue)) = Len(requestQueue)
  BY <1>1, IdsType
<1>6. answers' = answers /\ Len(answers) + Len(requestQueue) < MaxRequests
  BY DEF EnqueueRequest
<1>7. Finished' = Finished
  BY <1>6 DEF Finished
<1>8. Promise!Ask
  BY <1>4, <1>5, <1>6, <1>7 DEF Promise!Ask, Ids
<1> QED
  BY <1>8 DEF Promise!Next

LEMMA RefinesStep ==
  ASSUME IInv, [Next]_vars
  PROVE  [Promise!Next]_(Promise!vars)
<1> DEFINE Same == UNCHANGED <<requestQueue, answers>>
<1>1. ASSUME Same PROVE UNCHANGED Promise!vars
  BY <1>1 DEF Promise!vars, Finished
<1>2. CASE \E kind \in Kinds : EnqueueRequest(kind)
  BY <1>2, AskStep
<1>3. CASE ResumeNext
  <2>1. CASE ResumeNothing \/ ResumeReturn
    BY <1>1, <2>1 DEF ResumeNothing, ResumeReturn
  <2>2. CASE ResumeThrow
    <3>1. requestQueue # <<>>
      BY <2>2, CanResume DEF ResumeThrow
    <3>2. RejectNext => Promise!Next
      BY <3>1, AnswerStep DEF RejectNext, Outcomes
    <3> QED
      BY <1>1, <2>2, <3>2 DEF ResumeThrow
  <2>3. CASE ResumeNormal
    <3>1. requestQueue # <<>>
      BY <2>3, CanResume DEF ResumeNormal
    <3>2. state = "Completed" /\ ResolveNext(state) => Promise!Next
      BY <3>1, AnswerStep DEF ResolveNext, Outcomes
    <3> QED
      BY <1>1, <2>3, <3>2 DEF ResumeNormal
  <2> QED
    BY <1>3, <2>1, <2>2, <2>3 DEF ResumeNext
<1>4. CASE ResolveReturns \/ UnwrapReturns \/ UnwrapThrows \/ BodyAwaits \/ BodyYields
  BY <1>1, <1>4 DEF ResolveReturns, UnwrapReturns, UnwrapThrows, BodyAwaits, BodyYields
<1>5. CASE BodyReturns
  BY <1>5, BodyFacts, AnswerStep DEF BodyReturns, ResolveNext, Outcomes
<1>6. CASE BodyThrows
  BY <1>6, BodyFacts, AnswerStep DEF BodyThrows, RejectNext, Outcomes
<1>7. CASE Fulfilled
  <2>1. requestQueue # <<>>
    BY <1>7, CallbackFacts DEF Fulfilled
  <2>2. ResolveNext(state) => Promise!Next
    BY <2>1, AnswerStep DEF ResolveNext, Outcomes, IInv, DoneInv
  <2> QED
    BY <1>1, <1>7, <2>2 DEF Fulfilled
<1>8. CASE Rejected
  <2>1. requestQueue # <<>>
    BY <1>8, CallbackFacts DEF Rejected
  <2>2. RejectNext => Promise!Next
    BY <2>1, AnswerStep DEF RejectNext, Outcomes
  <2> QED
    BY <1>1, <1>8, <2>2 DEF Rejected
<1>9. CASE UNCHANGED vars
  BY <1>1, <1>9 DEF vars
<1> QED
  BY <1>2, <1>3, <1>4, <1>5, <1>6, <1>7, <1>8, <1>9 DEF Next, Native, BodyEnds

\* The generator implements AsyncIterator: each request has one answer, in the
\* order of the requests, and no value follows the end of the iteration.
THEOREM RequestsInOrder == Spec => KeepsOrder
<1>1. Init => Promise!Init
  <2> SUFFICES ASSUME Init PROVE Promise!Init
    OBVIOUS
  <2>1. answers = <<>> /\ Len(answers) = 0 /\ requestQueue = <<>>
    BY DEF Init
  <2>2. Ids(requestQueue) = <<>>
    BY <2>1 DEF Ids
  <2>3. Finished = FALSE
    BY <2>1 DEF Finished
  <2> QED
    BY <2>1, <2>2, <2>3 DEF Promise!Init, Ids
<1>2. IInv /\ [Next]_vars => [Promise!Next]_(Promise!vars)
  BY RefinesStep
<1> QED
  BY <1>1, <1>2, Inductive, PTL DEF Spec, KeepsOrder, Promise!Spec
=============================================================================
