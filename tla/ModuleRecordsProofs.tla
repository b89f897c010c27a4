------------------------ MODULE ModuleRecordsProofs ------------------------
(***************************************************************************)
(* Proofs about ModuleRecords for any sources.  A module that is announced *)
(* without an error heads a graph that is parsed, linked and compiled.  If *)
(* nothing fails, every body begins at most once, after the bodies of its  *)
(* imports, awaitedModules counts the imports that are under evaluation,   *)
(* and without cycles an import() is fulfilled after the bodies it asks    *)
(* for.                                                                    *)
(***************************************************************************)
EXTENDS ModuleRecords, FiniteSetTheorems, TLAPS

-----------------------------------------------------------------------------
(* Types.                                                                  *)

LoadOps == {"ParseSource", "resolve", "parsed", "parseFailed", "notParsed",
            "NotifyParents", "notifying", "OnChildModuleReady", "childFailed",
            "Prepare", "prepared"}

EvaluateOps == {"ModuleEvaluation", "prepassing", "children", "child", "finishing"}
PrepassOps == {"Prepass", "prepassLoop", "prepassChild"}
OwnOps == {"FinishOwn", "complete"}
WaitedOps == {"fulfilled", "nothingAwaited", "waited", "FinishWaited", "telling",
              "complete"}
RejectOps == {"PropogateRejection", "rejecting"}
OtherOps == EvaluateOps \cup PrepassOps \cup OwnOps \cup WaitedOps \cup RejectOps

Errors == Modules \cup {None}

Frames == [op : LoadOps \cup OtherOps, mod : Modules, rest : Seq(Modules),
           reason : Errors]

Positions == 1 .. Len(stack)

Hosts == [created : SUBSET Modules, loaded : SUBSET Modules, entry : SUBSET Modules,
          toParse : SUBSET Modules, errored : SUBSET Modules, imported : SUBSET Modules]

Logs == [notices : [Modules -> Nat], reports : [Modules -> Seq(Errors)],
         fulfilled : SUBSET Modules, rejected : SUBSET Modules, threw : SUBSET Modules]

DataTypes ==
  /\ world \in Worlds
  /\ wasParsed \subseteq Modules /\ isRootModule \subseteq Modules
  /\ parentModuleList \in [Modules -> Seq(Modules)]
  /\ childrenModuleSet \in [Modules -> SUBSET Modules]
  /\ notifying \subseteq Modules /\ parentsNotified \subseteq Modules
  /\ wasDeclarationInitialized \subseteq Modules /\ rootFunction \subseteq Modules
  /\ hadNotifyHostReady \subseteq Modules /\ toEvaluate \subseteq Modules
  /\ wasPrepassed \subseteq Modules /\ generator \subseteq Modules
  /\ suspended \subseteq Modules /\ ended \subseteq Modules /\ uncalled \subseteq Modules
  /\ runs \in [Modules -> Nat] /\ before \in [Modules -> SUBSET Modules]
  /\ evaluating \subseteq Modules /\ wasEvaluated \subseteq Modules
  /\ awaitedModules \in [Modules -> 0 .. UIntSpan - 1]
  /\ caller \in [Modules -> Errors]
  /\ crashed \in BOOLEAN
  /\ promise \subseteq Modules
  /\ errorObject \in [Modules -> Errors]
  /\ host \in Hosts /\ log \in Logs

\* The calls with a module in mind have one, and a rejection has a reason.
GoodFrames == {f \in Frames : /\ f.op \in {"child", "prepassChild"} => f.rest # <<>>
                              /\ f.op \in RejectOps => f.reason # None}
OtherFrames == {f \in GoodFrames : f.op \in OtherOps}

Types == DataTypes /\ thrown \in Errors /\ stack \in Seq(GoodFrames)

-----------------------------------------------------------------------------
(* The invariant of loading.                                               *)

Reach == [m \in Modules |-> Dependencies(m)]
Cone == [m \in Modules |-> {m} \cup Dependencies(m)]

\* The modules that were parsed and whose children were found; those that lead
\* to such modules only.
Known == {m \in wasParsed : childrenModuleSet[m] = Imports(m)}
Whole == {m \in Modules : Cone[m] \subseteq Known}

Failed == {m \in Modules : errorObject[m] # None}

\* NotifyParentsAsNeeded of these is in progress.
PassOps == {"NotifyParents", "notifying"}
Passing == {stack[i].mod : i \in {j \in Positions : stack[j].op \in PassOps}}

\* They have failed and have told their parents, or are about to.
Doomed == Failed \cap (parentsNotified \cup Passing)

\* Calls that load and calls that evaluate do not mix; only the latter throw.
Homogeneous ==
  \/ thrown = None /\ \A i \in Positions : stack[i].op \in LoadOps
  \/ \A i \in Positions : stack[i].op \notin LoadOps

Resolving == \A i \in Positions :
  /\ stack[i].op \in {"ParseSource", "resolve"} => Len(stack) = 1
  /\ stack[i].op = "resolve" =>
       ToSet(stack[i].rest) \cup childrenModuleSet[stack[i].mod] = Imports(stack[i].mod)

Linked == \A c, p \in Modules :
  /\ c \in childrenModuleSet[p] => c \in Imports(p)
  /\ c \in childrenModuleSet[p] <=> p \in ToSet(parentModuleList[c])

Resolved == \A m \in wasParsed :
  m \in Known \cup Doomed \/ \E i \in Positions : stack[i].op = "resolve" /\ stack[i].mod = m

Notified == \A m \in parentsNotified :
  m \in Whole \/ (m \in Failed /\ \A p \in Modules : m \in childrenModuleSet[p] => p \in Doomed)

NotifyingCalled == \A m \in notifying :
  \E i \in Positions : stack[i].op = "notifying" /\ stack[i].mod = m

\* The parents of a module that is not whole have failed, or are still to be
\* told, or are about to hear of it.
Notifies == \A i \in Positions :
  /\ stack[i].op \in PassOps \cup {"prepared"} => stack[i].mod \in Whole \cup Failed
  /\ stack[i].op = "childFailed" => stack[i].mod \in Failed
  /\ stack[i].op = "notifying" /\ stack[i].mod \notin Whole =>
       \A p \in Modules : stack[i].mod \in childrenModuleSet[p] =>
         \/ p \in Doomed \cup ToSet(stack[i].rest)
         \/ /\ i + 1 \in Positions
            /\ stack[i + 1].op = "OnChildModuleReady"
            /\ stack[i + 1].mod = p /\ stack[i + 1].reason # None

\* Only news of failures are passed on above a failure.
OnlyFailuresAbove == \A i, j \in Positions :
  i < j /\ stack[i].op \in PassOps /\ stack[i].mod \notin Whole =>
    \/ stack[j].op \in PassOps \cup {"childFailed"} /\ stack[j].mod \in Failed
    \/ stack[j].op = "OnChildModuleReady" /\ stack[j].reason # None

LoadInv == /\ Homogeneous /\ Resolving /\ Linked /\ Resolved /\ Notified
           /\ NotifyingCalled /\ Notifies /\ OnlyFailuresAbove

Initialized == \A m \in wasDeclarationInitialized :
  m \in Whole /\ \A c \in Imports(m) : c \in wasDeclarationInitialized \cup Failed

Compiled == \A m \in rootFunction : Imports(m) \subseteq rootFunction

Ready == toEvaluate \subseteq
  Failed \cup (Whole \cap wasDeclarationInitialized \cap rootFunction)

LinkInv == Initialized /\ Compiled /\ Ready

-----------------------------------------------------------------------------
(* Sequences and sets.                                                     *)

LEMMA ToSetType ==
  ASSUME NEW s \in Seq(Modules)
  PROVE  ToSet(s) \subseteq Modules
BY DEF ToSet

\* What the first element and the others say of a sequence.
LEMMA HeadTail ==
  ASSUME NEW s \in Seq(Modules), s # <<>>
  PROVE  /\ Head(s) \in Modules /\ Tail(s) \in Seq(Modules)
         /\ ToSet(s) = {Head(s)} \cup ToSet(Tail(s))
         /\ IsInjective(s) => IsInjective(Tail(s)) /\ Head(s) \notin ToSet(Tail(s))
<1>1. /\ Tail(s) \in Seq(Modules) /\ Len(Tail(s)) = Len(s) - 1
      /\ Len(s) \in Nat /\ Len(s) > 0
      /\ \A i \in 1 .. Len(s) - 1 : Tail(s)[i] = s[i + 1]
  OBVIOUS
<1>2. /\ DOMAIN s = 1 .. Len(s) /\ DOMAIN Tail(s) = 1 .. Len(s) - 1
      /\ Head(s) = s[1] /\ Head(s) \in Modules
  BY <1>1
<1>3. \A i \in 1 .. Len(s) : i = 1 \/ (i - 1 \in 1 .. Len(s) - 1 /\ s[i] = Tail(s)[i - 1])
  BY <1>1
<1>4. \A i \in 1 .. Len(s) - 1 : i + 1 \in 1 .. Len(s) /\ Tail(s)[i] = s[i + 1]
  BY <1>1
<1>5. ASSUME NEW x \in ToSet(s) PROVE x = Head(s) \/ x \in ToSet(Tail(s))
  <2>1. PICK i \in 1 .. Len(s) : x = s[i]
    BY <1>2 DEF ToSet
  <2> QED
    BY <1>2, <1>3, <2>1 DEF ToSet
<1>6. ToSet(Tail(s)) \subseteq ToSet(s)
  BY <1>2, <1>4 DEF ToSet
<1>7. Head(s) \in ToSet(s)
  BY <1>1, <1>2 DEF ToSet
<1>8. ASSUME IsInjective(s) PROVE IsInjective(Tail(s)) /\ Head(s) \notin ToSet(Tail(s))
  <2>1. ASSUME NEW i \in 1 .. Len(s) - 1, NEW j \in 1 .. Len(s) - 1,
               Tail(s)[i] = Tail(s)[j]
        PROVE  i = j
    BY <1>1, <1>2, <1>4, <1>8, <2>1 DEF IsInjective
  <2>2. ASSUME NEW i \in 1 .. Len(s) - 1
        PROVE  Tail(s)[i] # s[1]
    BY <1>1, <1>2, <1>4, <1>8 DEF IsInjective
  <2> QED
    BY <1>2, <2>1, <2>2 DEF IsInjective, ToSet
<1> QED
  BY <1>1, <1>2, <1>5, <1>6, <1>7, <1>8

LEMMA ToSetEmpty ==
  ASSUME NEW s \in Seq(Modules)
  PROVE  ToSet(s) = {} <=> s = <<>>
<1>1. DOMAIN s = 1 .. Len(s) /\ Len(s) \in Nat
  OBVIOUS
<1>2. CASE s = <<>>
  BY <1>2, <1>1 DEF ToSet
<1>3. CASE s # <<>>
  BY <1>3, HeadTail
<1> QED
  BY <1>2, <1>3

LEMMA ReverseFacts ==
  ASSUME NEW s \in Seq(Modules)
  PROVE  /\ Reverse(s) \in Seq(Modules) /\ ToSet(Reverse(s)) = ToSet(s)
         /\ IsInjective(s) => IsInjective(Reverse(s))
<1>1. /\ Reverse(s) \in Seq(Modules) /\ Len(Reverse(s)) = Len(s) /\ Len(s) \in Nat
      /\ \A i \in 1 .. Len(s) : Reverse(s)[i] = s[(Len(s) - i) + 1]
  BY DEF Reverse
<1>2. DOMAIN s = 1 .. Len(s) /\ DOMAIN Reverse(s) = 1 .. Len(s)
  BY <1>1
<1>3. \A i \in 1 .. Len(s) : /\ (Len(s) - i) + 1 \in 1 .. Len(s)
                             /\ (Len(s) - ((Len(s) - i) + 1)) + 1 = i
  BY <1>1
<1>4. ASSUME NEW x PROVE x \in ToSet(Reverse(s)) <=> x \in ToSet(s)
  <2>1. ASSUME x \in ToSet(Reverse(s)) PROVE x \in ToSet(s)
    <3>1. PICK i \in 1 .. Len(s) : x = Reverse(s)[i]
      BY <1>2, <2>1 DEF ToSet
    <3> QED
      BY <1>1, <1>2, <1>3, <3>1 DEF ToSet
  <2>2. ASSUME x \in ToSet(s) PROVE x \in ToSet(Reverse(s))
    <3>1. PICK i \in 1 .. Len(s) : x = s[i]
      BY <1>2, <2>2 DEF ToSet
    <3>2. x = Reverse(s)[(Len(s) - i) + 1]
      BY <1>1, <1>3, <3>1
    <3> QED
      BY <1>2, <1>3, <3>2 DEF ToSet
  <2> QED
    BY <2>1, <2>2
<1>5. ASSUME IsInjective(s) PROVE IsInjective(Reverse(s))
  <2>1. ASSUME NEW i \in 1 .. Len(s), NEW j \in 1 .. Len(s),
               Reverse(s)[i] = Reverse(s)[j]
        PROVE  i = j
    <3>1. s[(Len(s) - i) + 1] = s[(Len(s) - j) + 1]
      BY <1>1, <2>1
    <3>2. (Len(s) - i) + 1 = (Len(s) - j) + 1
      BY <1>2, <1>3, <1>5, <3>1 DEF IsInjective
    <3> QED
      BY <1>1, <3>2
  <2> QED
    BY <1>2, <2>1 DEF IsInjective
<1> QED
  BY <1>1, <1>4, <1>5

LEMMA AppendFacts ==
  ASSUME NEW s \in Seq(Modules), NEW x \in Modules
  PROVE  /\ Append(s, x) \in Seq(Modules)
         /\ ToSet(Append(s, x)) = ToSet(s) \cup {x}
         /\ Contains(s, x) <=> x \in ToSet(s)
         /\ IsInjective(s) /\ x \notin ToSet(s) => IsInjective(Append(s, x))
<1> DEFINE a == Append(s, x)
<1>1. /\ a \in Seq(Modules) /\ Len(s) \in Nat /\ Len(a) = Len(s) + 1
      /\ \A i \in 1 .. Len(s) : a[i] = s[i]
      /\ a[Len(s) + 1] = x
      /\ DOMAIN s = 1 .. Len(s) /\ DOMAIN a = 1 .. Len(s) + 1
  OBVIOUS
<1> HIDE DEF a
<1>2. \A i \in 1 .. Len(s) + 1 : i \in 1 .. Len(s) \/ i = Len(s) + 1
  BY <1>1
<1>3. 1 .. Len(s) \subseteq 1 .. Len(s) + 1 /\ Len(s) + 1 \in 1 .. Len(s) + 1
  BY <1>1
<1>4. ASSUME NEW y PROVE y \in ToSet(a) <=> (y \in ToSet(s) \/ y = x)
  BY <1>1, <1>2, <1>3 DEF ToSet
<1>5. ASSUME IsInjective(s), x \notin ToSet(s) PROVE IsInjective(a)
  <2>1. \A i \in 1 .. Len(s) : s[i] # x
    BY <1>1, <1>5 DEF ToSet
  <2> QED
    BY <1>1, <1>2, <1>5, <2>1 DEF IsInjective
<1>6. Contains(s, x) <=> x \in ToSet(s)
  BY <1>1 DEF Contains, ToSet
<1> QED
  BY <1>1, <1>4, <1>5, <1>6 DEF a

-----------------------------------------------------------------------------
(* Closures and the import graph.                                          *)

LEMMA ClosureType ==
  ASSUME NEW from, NEW next
  PROVE  Closure(from, next) \subseteq Modules
BY DEF Closure

LEMMA ClosureFrom ==
  ASSUME NEW from \in SUBSET Modules, NEW next
  PROVE  from \subseteq Closure(from, next)
BY DEF Closure

LEMMA ClosureStep ==
  ASSUME NEW from, NEW next, NEW x \in Closure(from, next),
         next[x] \in SUBSET Modules
  PROVE  next[x] \subseteq Closure(from, next)
BY DEF Closure

LEMMA ClosureLeast ==
  ASSUME NEW from, NEW next, NEW S \in SUBSET Modules,
         from \subseteq S, \A x \in S : next[x] \subseteq S
  PROVE  Closure(from, next) \subseteq S
BY DEF Closure

LEMMA WorldType ==
  ASSUME world \in Worlds
  PROVE  /\ world.imports \in [Modules -> Seq(Modules)]
         /\ \A m \in Modules : Imports(m) \subseteq Modules
<1>1. world.imports \in [Modules -> Seq(Modules)]
  BY ModulesAssumption
<1>2. ASSUME NEW m \in Modules PROVE Imports(m) \subseteq Modules
  BY <1>1, ToSetType DEF Imports
<1> QED
  BY <1>1, <1>2

LEMMA DependenciesType ==
  ASSUME NEW m
  PROVE  Dependencies(m) \subseteq Modules
BY ClosureType DEF Dependencies

LEMMA DependenciesStep ==
  ASSUME world \in Worlds, NEW m \in Modules
  PROVE  /\ Imports(m) \subseteq Dependencies(m)
         /\ \A x \in Dependencies(m) : Imports(x) \subseteq Dependencies(m)
<1> DEFINE next == [x \in Modules |-> Imports(x)]
<1>1. Imports(m) \subseteq Modules
  BY WorldType
<1>2. Imports(m) \subseteq Dependencies(m)
  BY <1>1, ClosureFrom DEF Dependencies
<1>3. ASSUME NEW x \in Dependencies(m) PROVE Imports(x) \subseteq Dependencies(m)
  <2>1. x \in Modules
    BY DependenciesType
  <2>2. next[x] = Imports(x) /\ Imports(x) \in SUBSET Modules
    BY <2>1, WorldType
  <2>3. x \in Closure(Imports(m), next)
    BY DEF Dependencies
  <2> HIDE DEF next
  <2>4. next[x] \subseteq Closure(Imports(m), next)
    BY <2>2, <2>3, ClosureStep
  <2> QED
    BY <2>2, <2>4 DEF Dependencies, next
<1> QED
  BY <1>2, <1>3

LEMMA ConeFacts ==
  ASSUME world \in Worlds, NEW m \in Modules
  PROVE  /\ m \in Cone[m] /\ Cone[m] \subseteq Modules
         /\ Imports(m) \subseteq Cone[m]
         /\ \A x \in Cone[m] : Imports(x) \subseteq Cone[m]
BY DependenciesType, DependenciesStep DEF Cone

LEMMA ConeLeast ==
  ASSUME world \in Worlds, NEW S \in SUBSET Modules, NEW m \in S,
         \A x \in S : Imports(x) \subseteq S
  PROVE  Cone[m] \subseteq S
<1> DEFINE next == [x \in Modules |-> Imports(x)]
<1>1. \A x \in S : next[x] \subseteq S
  OBVIOUS
<1>2. Imports(m) \subseteq S
  OBVIOUS
<1> HIDE DEF next
<1>3. Closure(Imports(m), next) \subseteq S
  BY <1>1, <1>2, ClosureLeast
<1>4. Dependencies(m) \subseteq S
  BY <1>3 DEF Dependencies, next
<1> QED
  BY <1>4 DEF Cone

LEMMA ConeOfMember ==
  ASSUME world \in Worlds, NEW m \in Modules, NEW x \in Cone[m]
  PROVE  Cone[x] \subseteq Cone[m]
BY ConeFacts, ConeLeast

LEMMA WholeMember ==
  ASSUME world \in Worlds, NEW m \in Whole
  PROVE  /\ m \in Modules /\ m \in Known
         /\ Cone[m] \subseteq Whole \cap Known
         /\ Imports(m) \subseteq Whole
<1>1. m \in Modules /\ Cone[m] \subseteq Known
  BY DEF Whole
<1>2. m \in Cone[m] /\ Cone[m] \subseteq Modules /\ Imports(m) \subseteq Cone[m]
  BY <1>1, ConeFacts
<1>3. \A x \in Cone[m] : Cone[x] \subseteq Cone[m]
  BY <1>1, ConeOfMember
<1> QED
  BY <1>1, <1>2, <1>3 DEF Whole

-----------------------------------------------------------------------------
(* The stack.                                                              *)

\* The calls of an evaluation that need nothing but a module.
PlainOps == {"ModuleEvaluation", "prepassing", "children", "finishing", "Prepass",
             "prepassLoop", "FinishOwn", "complete", "fulfilled", "nothingAwaited",
             "waited", "FinishWaited", "telling"}

LEMMA FrameTypes ==
  /\ \A op \in LoadOps, m \in Modules : Call(op, m) \in GoodFrames
  /\ \A op \in LoadOps, m \in Modules, rest \in Seq(Modules) :
       Loop(op, m, rest) \in GoodFrames
  /\ \A op \in LoadOps, m \in Modules, reason \in Errors :
       CallWith(op, m, reason) \in GoodFrames
  /\ \A op \in {"child", "prepassChild"}, m \in Modules, rest \in Seq(Modules) :
       rest # <<>> => Loop(op, m, rest) \in OtherFrames
  /\ \A op \in RejectOps, m \in Modules, reason \in Modules :
       CallWith(op, m, reason) \in OtherFrames
  /\ \A op \in PlainOps, m \in Modules : Call(op, m) \in OtherFrames
  /\ \A op \in PlainOps, m \in Modules, rest \in Seq(Modules) :
       Loop(op, m, rest) \in OtherFrames
<1>1. None \notin Modules /\ None \in Errors
  BY ModulesAssumption DEF Errors
<1>2. LoadOps \cap ({"child", "prepassChild"} \cup RejectOps) = {}
  BY DEF LoadOps, RejectOps
<1>3. /\ PlainOps \subseteq OtherOps /\ PlainOps \cap ({"child", "prepassChild"} \cup RejectOps) = {}
      /\ {"child", "prepassChild"} \subseteq OtherOps \ RejectOps /\ RejectOps \subseteq OtherOps
      /\ {"child", "prepassChild"} \cap RejectOps = {}
  BY DEF PlainOps, OtherOps, EvaluateOps, PrepassOps, OwnOps, WaitedOps, RejectOps
<1> QED
  BY <1>1, <1>2, <1>3 DEF Call, Loop, CallWith, Frames, GoodFrames, OtherFrames, Errors

\* The top of the stack.
LEMMA TopFacts ==
  ASSUME stack \in Seq(GoodFrames)
  PROVE  /\ Len(stack) \in Nat /\ Depth = Len(stack)
         /\ \A i \in Positions :
              /\ stack[i] \in GoodFrames /\ stack[i].mod \in Modules
              /\ stack[i].rest \in Seq(Modules) /\ stack[i].reason \in Errors
              /\ stack[i].op \in LoadOps \cup OtherOps
              /\ stack[i].op \in {"child", "prepassChild"} => stack[i].rest # <<>>
              /\ stack[i].op \in RejectOps => stack[i].reason # None
         /\ Depth > 0 => Len(stack) \in Positions /\ top = stack[Len(stack)]
<1>1. Len(stack) \in Nat /\ Depth = Len(stack)
  BY DEF Depth
<1>2. Depth > 0 => Len(stack) \in Positions /\ top = stack[Len(stack)]
  BY <1>1 DEF Positions, top
<1>3. \A i \in Positions : stack[i] \in GoodFrames
  BY DEF Positions
<1>4. \A f \in GoodFrames :
        /\ f.mod \in Modules /\ f.rest \in Seq(Modules) /\ f.reason \in Errors
        /\ f.op \in LoadOps \cup OtherOps
        /\ f.op \in {"child", "prepassChild"} => f.rest # <<>>
        /\ f.op \in RejectOps => f.reason # None
  <2> TAKE f \in GoodFrames
  <2>1. f \in Frames
    BY DEF GoodFrames
  <2>2. /\ f.mod \in Modules /\ f.rest \in Seq(Modules) /\ f.reason \in Errors
        /\ f.op \in LoadOps \cup OtherOps
    BY <2>1 DEF Frames
  <2>3. f.op \in {"child", "prepassChild"} => f.rest # <<>>
    BY <2>2 DEF GoodFrames
  <2>4. f.op \in RejectOps => f.reason # None
    BY <2>2 DEF GoodFrames
  <2> QED
    BY <2>2, <2>3, <2>4
<1> QED
  BY <1>1, <1>2, <1>3, <1>4

LEMMA BeginsFacts ==
  ASSUME NEW f \in GoodFrames, Begins(f)
  PROVE  stack' \in Seq(GoodFrames) /\ Len(stack') = 1 /\ stack'[1] = f
BY DEF Begins

LEMMA BecomesFacts ==
  ASSUME stack \in Seq(GoodFrames), Depth > 0, NEW f \in GoodFrames, Becomes(f)
  PROVE  /\ stack' \in Seq(GoodFrames) /\ Len(stack') = Len(stack)
         /\ stack'[Len(stack)] = f
         /\ \A i \in 1 .. Len(stack) - 1 : stack'[i] = stack[i]
BY DEF Becomes, Depth

\* A sequence without what follows its position n.
LEMMA FrontFacts ==
  ASSUME NEW S, NEW s \in Seq(S), NEW n \in 0 .. Len(s)
  PROVE  /\ SubSeq(s, 1, n) \in Seq(S) /\ Len(SubSeq(s, 1, n)) = n
         /\ \A i \in 1 .. n : SubSeq(s, 1, n)[i] = s[i]
<1>1. Len(s) \in Nat /\ n \in Nat /\ n <= Len(s)
  OBVIOUS
<1> QED
  BY <1>1

LEMMA ReturnFacts ==
  ASSUME stack \in Seq(GoodFrames), Depth > 0, Return
  PROVE  /\ stack' \in Seq(GoodFrames) /\ Len(stack') = Len(stack) - 1
         /\ \A i \in 1 .. Len(stack) - 1 : stack'[i] = stack[i]
<1>1. Len(stack) \in Nat /\ Len(stack) > 0 /\ stack' = SubSeq(stack, 1, Len(stack) - 1)
  BY DEF Return, Depth
<1>2. Len(stack) - 1 \in 0 .. Len(stack)
  BY <1>1
<1> DEFINE n == Len(stack) - 1
<1>3. /\ SubSeq(stack, 1, n) \in Seq(GoodFrames) /\ Len(SubSeq(stack, 1, n)) = n
      /\ \A i \in 1 .. n : SubSeq(stack, 1, n)[i] = stack[i]
  BY <1>2, FrontFacts
<1> QED
  BY <1>1, <1>3

LEMMA CallsFacts ==
  ASSUME stack \in Seq(GoodFrames), Depth > 0, NEW f \in GoodFrames, NEW g \in GoodFrames,
         Calls(f, g)
  PROVE  /\ stack' \in Seq(GoodFrames) /\ Len(stack') = Len(stack) + 1
         /\ stack'[Len(stack)] = f /\ stack'[Len(stack) + 1] = g
         /\ \A i \in 1 .. Len(stack) - 1 : stack'[i] = stack[i]
<1> DEFINE s == [stack EXCEPT ![Depth] = f]
<1>1. /\ s \in Seq(GoodFrames) /\ Len(s) = Len(stack) /\ s[Len(stack)] = f
      /\ \A i \in 1 .. Len(stack) - 1 : s[i] = stack[i]
  BY DEF Depth
<1>2. stack' = Append(s, g) /\ Len(s) \in Nat
  BY <1>1 DEF Calls
<1> HIDE DEF s
<1>3. /\ stack' \in Seq(GoodFrames) /\ Len(stack') = Len(s) + 1 /\ stack'[Len(s) + 1] = g
      /\ \A i \in 1 .. Len(s) : stack'[i] = s[i]
  BY <1>1, <1>2
<1>4. Len(s) > 0
  BY <1>1 DEF Depth
<1> QED
  BY <1>1, <1>2, <1>3, <1>4

\* The loop on the top goes on.
LEMMA OnwardFacts ==
  ASSUME stack \in Seq(GoodFrames), Depth > 0, top.rest # <<>>,
         top.op \notin {"child", "prepassChild"}
  PROVE  /\ Onward \in GoodFrames /\ Onward.op = top.op /\ Onward.mod = top.mod
         /\ Onward.reason = top.reason /\ Onward.rest = Tail(top.rest)
<1>1. top \in GoodFrames /\ top.rest \in Seq(Modules)
  BY TopFacts
<1>2. Tail(top.rest) \in Seq(Modules)
  BY <1>1, HeadTail
<1> QED
  BY <1>1, <1>2 DEF Onward, Frames, GoodFrames

-----------------------------------------------------------------------------
(* Types are invariant.                                                    *)

\* What a step does to the stack.
StackMove(F) ==
  \/ UNCHANGED stack
  \/ \E f \in F : Begins(f)
  \/ Depth > 0 /\ Return
  \/ \E f \in F : Depth > 0 /\ Becomes(f)
  \/ \E f, g \in F : Depth > 0 /\ Calls(f, g)

LEMMA StackMoveTypes ==
  ASSUME stack \in Seq(GoodFrames), StackMove(GoodFrames)
  PROVE  stack' \in Seq(GoodFrames)
BY BeginsFacts, BecomesFacts, ReturnFacts, CallsFacts DEF StackMove

LEMMA InitTypes ==
  ASSUME Init
  PROVE  Types
<1>1. UIntSpan \in Nat /\ UIntSpan > 0
  BY ModulesAssumption, FS_CardinalityType
<1>2. stack \in Seq(GoodFrames)
  BY DEF Init
<1>3. /\ awaitedModules \in [Modules -> 0 .. UIntSpan - 1]
      /\ runs \in [Modules -> Nat] /\ caller \in [Modules -> Errors]
      /\ before \in [Modules -> SUBSET Modules]
  BY <1>1 DEF Init, Errors
<1>4. /\ parentModuleList \in [Modules -> Seq(Modules)]
      /\ childrenModuleSet \in [Modules -> SUBSET Modules]
      /\ errorObject \in [Modules -> Errors] /\ thrown \in Errors
  BY DEF Init, Errors
<1>5. host \in Hosts
  BY DEF Init, Hosts
<1>6. log \in Logs
  BY DEF Init, Logs
<1> QED
  BY <1>2, <1>3, <1>4, <1>5, <1>6 DEF Init, Types, DataTypes

USE DEF data, loadState, evalState, loadVars, notifyVars, linkVars, readyVars,
        prepassVars, bodyVars, settleVars

\* The calls of the load steps.
LEMMA LoadStackMove ==
  ASSUME Types, LoadStep
  PROVE  StackMove(GoodFrames)
<1>1. stack \in Seq(GoodFrames) /\ world \in Worlds
  BY DEF Types, DataTypes
<1>2. Depth > 0 => top.mod \in Modules /\ top.rest \in Seq(Modules) /\ top.reason \in Errors
  BY <1>1, TopFacts
<1>3. CASE ParseSource
  <2>1. Requests(top.mod) \in Seq(Modules)
    BY <1>1, <1>2, <1>3, WorldType, ReverseFacts DEF ParseSource, At, Requests
  <2> QED
    BY <1>2, <1>3, <2>1, FrameTypes DEF ParseSource, At, StackMove, LoadOps
<1>4. CASE ResolveChild
  BY <1>1, <1>2, <1>4, OnwardFacts DEF ResolveChild, At, StackMove
<1>5. CASE ResolveFails
  BY <1>2, <1>5, FrameTypes DEF ResolveFails, At, StackMove, LoadOps
<1>6. CASE ResolveEnds
  BY <1>2, <1>6, FrameTypes DEF ResolveEnds, At, StackMove, LoadOps
<1>7. CASE ParseFailed
  BY <1>2, <1>7, FrameTypes DEF ParseFailed, At, StackMove, LoadOps
<1>8. CASE ParseReturns
  BY <1>8 DEF ParseReturns, At, StackMove
<1>9. CASE NotifyParentsAsNeeded
  <2>1. parentModuleList[top.mod] \in Seq(Modules)
    BY <1>2, <1>9 DEF NotifyParentsAsNeeded, At, Types, DataTypes
  <2> QED
    BY <1>2, <1>9, <2>1, FrameTypes DEF NotifyParentsAsNeeded, At, StackMove, LoadOps
<1>10. CASE NotifyParent
  <2>1. Head(top.rest) \in Modules /\ errorObject[top.mod] \in Errors
    BY <1>2, <1>10, HeadTail DEF NotifyParent, At, Types, DataTypes
  <2> QED
    BY <1>1, <1>2, <1>10, <2>1, FrameTypes, OnwardFacts
    DEF NotifyParent, At, StackMove, LoadOps
<1>11. CASE NotifyEnds
  BY <1>11 DEF NotifyEnds, At, StackMove
<1>12. CASE OnChildModuleReady
  BY <1>2, <1>12, FrameTypes DEF OnChildModuleReady, At, StackMove, LoadOps
<1>13. CASE ChildFailed
  BY <1>13 DEF ChildFailed, At, StackMove
<1>14. CASE Prepare
  BY <1>2, <1>14, FrameTypes DEF Prepare, At, StackMove, LoadOps
<1>15. CASE Prepared
  BY <1>15 DEF Prepared, At, StackMove
<1> QED
  BY <1>3, <1>4, <1>5, <1>6, <1>7, <1>8, <1>9, <1>10, <1>11, <1>12, <1>13, <1>14, <1>15
  DEF LoadStep

LEMMA EvaluateStackMove ==
  ASSUME Types, EvaluateStep
  PROVE  StackMove(OtherFrames)
<1>1. stack \in Seq(GoodFrames) /\ world \in Worlds
  BY DEF Types, DataTypes
<1>2. Depth > 0 =>
        /\ top.mod \in Modules /\ top.rest \in Seq(Modules) /\ top.reason \in Errors
        /\ top.op \in {"child", "prepassChild"} => top.rest # <<>>
  BY <1>1, TopFacts
<1> USE DEF PlainOps
<1>3. CASE ModuleEvaluationReturns
  BY <1>3 DEF ModuleEvaluationReturns, At, StackMove
<1>4. CASE ModuleEvaluationPrepasses
  BY <1>2, <1>4, FrameTypes DEF ModuleEvaluationPrepasses, At, StackMove
<1>5. CASE PrepassRefuses
  BY <1>5 DEF PrepassRefuses, At, StackMove
<1>6. CASE SetEvaluating
  <2>1. Depth > 0 /\ world.imports[top.mod] \in Seq(Modules)
    BY <1>1, <1>2, <1>6, WorldType DEF SetEvaluating, At
  <2> QED
    BY <1>2, <1>6, <2>1, FrameTypes DEF SetEvaluating, StackMove
<1>7. CASE EvaluateChild
  <2>1. Head(top.rest) \in Modules
    BY <1>2, <1>7, HeadTail DEF EvaluateChild, At
  <2> QED
    BY <1>2, <1>7, <2>1, FrameTypes DEF EvaluateChild, At, StackMove
<1>8. CASE ChildEvaluated
  <2>1. Tail(top.rest) \in Seq(Modules)
    BY <1>2, <1>8, HeadTail DEF ChildEvaluated, At
  <2> QED
    BY <1>2, <1>8, <2>1, FrameTypes DEF ChildEvaluated, At, StackMove
<1>9. CASE ChildrenEvaluated
  BY <1>2, <1>9, FrameTypes DEF ChildrenEvaluated, At, StackMove
<1>10. CASE CatchInEvaluation
  BY <1>10 DEF CatchInEvaluation, StackMove
<1>11. CASE PrepassFails
  BY <1>11 DEF PrepassFails, At, StackMove
<1>12. CASE PrepassBegins
  BY <1>2, <1>12, FrameTypes DEF PrepassBegins, At, StackMove
<1>13. CASE PrepassChild
  <2>1. PICK c \in childrenModuleSet[top.mod] :
          Calls(Loop("prepassChild", top.mod, <<c>>), Call("Prepass", c))
    BY <1>13 DEF PrepassChild
  <2>2. Depth > 0 /\ c \in Modules
    BY <1>2, <1>13 DEF PrepassChild, At, Types, DataTypes
  <2>3. <<c>> \in Seq(Modules) /\ <<c>> # <<>>
    BY <2>2
  <2> QED
    BY <1>2, <2>1, <2>2, <2>3, FrameTypes DEF StackMove
<1>14. CASE PrepassRethrows
  BY <1>14 DEF PrepassRethrows, At, StackMove
<1>15. CASE PrepassNext
  BY <1>2, <1>15, FrameTypes DEF PrepassNext, At, StackMove
<1>16. CASE PrepassEnds
  BY <1>16 DEF PrepassEnds, At, StackMove
<1> QED
  BY <1>3, <1>4, <1>5, <1>6, <1>7, <1>8, <1>9, <1>10, <1>11, <1>12, <1>13, <1>14, <1>15,
     <1>16 DEF EvaluateStep

LEMMA FinishStackMove ==
  ASSUME Types, FinishStep
  PROVE  StackMove(OtherFrames)
<1>1. stack \in Seq(GoodFrames) /\ world \in Worlds
  BY DEF Types, DataTypes
<1>2. Depth > 0 =>
        /\ top.mod \in Modules /\ top.rest \in Seq(Modules) /\ top.reason \in Errors
        /\ parentModuleList[top.mod] \in Seq(Modules)
  BY <1>1, TopFacts DEF Types, DataTypes
<1>3. Depth > 0 /\ top.rest # <<>> => Head(top.rest) \in Modules
  BY <1>2, HeadTail
<1>a. Depth > 0 /\ top.rest # <<>> /\ top.op \in {"telling", "fulfilled", "rejecting"} =>
        Onward \in OtherFrames /\ Onward.op = top.op
  BY <1>1, OnwardFacts DEF OtherFrames, OtherOps, WaitedOps, RejectOps
<1>b. Depth > 0 /\ top.op \in RejectOps => top.reason \in Modules /\ top \in GoodFrames
  BY <1>1, TopFacts DEF Errors
<1> USE DEF PlainOps, RejectOps
<1>4. CASE FinishNothing
  BY <1>4 DEF FinishNothing, AtFinish, At, StackMove
<1>5. CASE FinishCrashes
  BY <1>5 DEF FinishCrashes, StackMove
<1>6. CASE FinishAsync
  BY <1>6 DEF FinishAsync, AtFinish, At, StackMove
<1>7. CASE FinishSync
  BY <1>2, <1>7, FrameTypes DEF FinishSync, AtFinish, At, StackMove
<1>8. CASE FinishThrows
  BY <1>8 DEF FinishThrows, AtFinish, At, StackMove
<1>9. CASE TellParent
  BY <1>3, <1>9, <1>a, FrameTypes DEF TellParent, At, StackMove
<1>10. CASE ParentsTold
  BY <1>2, <1>10, FrameTypes DEF ParentsTold, At, StackMove
<1>11. CASE Complete
  BY <1>11 DEF Complete, At, StackMove
<1>12. CASE FulfilledParent
  BY <1>3, <1>12, <1>a, FrameTypes DEF FulfilledParent, At, StackMove
<1>13. CASE NothingAwaited
  BY <1>2, <1>13, FrameTypes DEF NothingAwaited, At, StackMove
<1>14. CASE CatchInWaited
  <2>1. Depth > 0 /\ thrown \in Modules
    BY <1>14 DEF CatchInWaited, Types, Errors
  <2> QED
    BY <1>2, <1>14, <2>1, FrameTypes DEF CatchInWaited, StackMove
<1>15. CASE FulfilledEnds
  BY <1>15 DEF FulfilledEnds, At, StackMove
<1>16. CASE PropogateRejection
  <2> DEFINE f == [top EXCEPT !.op = "rejecting", !.rest = WaitingParents(top.mod)]
  <2>1. /\ Depth > 0 /\ top \in GoodFrames /\ top.reason \in Modules /\ top.mod \in Modules
        /\ parentModuleList[top.mod] \in Seq(Modules)
    BY <1>2, <1>16, <1>b DEF PropogateRejection, At
  <2>2. f \in Frames /\ f.op = "rejecting" /\ f.reason = top.reason
    BY <2>1 DEF WaitingParents, GoodFrames, Frames, OtherOps
  <2>3. f \in OtherFrames
    BY <2>1, <2>2, ModulesAssumption DEF GoodFrames, OtherFrames, OtherOps
  <2> HIDE DEF f
  <2>4. Return \/ Becomes(f)
    BY <1>16 DEF PropogateRejection, f
  <2> QED
    BY <2>1, <2>3, <2>4 DEF StackMove
<1>17. CASE RejectParent
  BY <1>3, <1>17, <1>a, <1>b, FrameTypes DEF RejectParent, At, StackMove
<1>18. CASE RejectEnds
  BY <1>18 DEF RejectEnds, At, StackMove
<1>19. CASE Returns
  BY <1>19 DEF Returns, At, StackMove
<1>20. CASE Unwind
  BY <1>20 DEF Unwind, StackMove
<1> QED
  BY <1>4, <1>5, <1>6, <1>7, <1>8, <1>9, <1>10, <1>11, <1>12, <1>13, <1>14, <1>15, <1>16,
     <1>17, <1>18, <1>19, <1>20 DEF FinishStep

LEMMA MessageStackMove ==
  ASSUME Types, NEW m \in Modules, Message(m)
  PROVE  StackMove(GoodFrames)
<1>1. LoadRoot(m) \/ LoadImported(m) => StackMove(GoodFrames)
  BY FrameTypes DEF LoadRoot, LoadImported, JsParseModuleSource, StackMove, LoadOps
<1>2. Evaluate(m) => StackMove(GoodFrames)
  BY FrameTypes DEF Evaluate, StackMove, PlainOps, OtherFrames
<1>3. AsyncBodyReturns(m) => StackMove(GoodFrames)
  BY FrameTypes DEF AsyncBodyReturns, StackMove, PlainOps, OtherFrames, Types, DataTypes
<1>4. AsyncBodyThrows(m) => StackMove(GoodFrames)
  BY FrameTypes DEF AsyncBodyThrows, StackMove, OtherFrames, RejectOps
<1>5. \/ OnHostException(m)
      \/ ImportRefused(m) \/ ImportDone(m) \/ ImportWaits(m) \/ ImportCrashes(m)
      => StackMove(GoodFrames)
  BY DEF OnHostException, ImportRefused, ImportDone, ImportWaits, ImportCrashes, ImportSettles,
         StackMove
<1> QED
  BY <1>1, <1>2, <1>3, <1>4, <1>5 DEF Message

LEMMA UnchangedData ==
  ASSUME DataTypes, UNCHANGED data
  PROVE  DataTypes'
BY DEF DataTypes

\* Counters stay within a uint.
LEMMA CounterTypes ==
  ASSUME DataTypes, NEW m \in Modules
  PROVE  /\ IncrementParents(m) => awaitedModules' \in [Modules -> 0 .. UIntSpan - 1]
         /\ DecrementAwaited(m) => awaitedModules' \in [Modules -> 0 .. UIntSpan - 1]
         /\ \A c : SetParent(c, m) => awaitedModules' \in [Modules -> 0 .. UIntSpan - 1]
<1>1. UIntSpan \in Nat /\ UIntSpan > 0
  BY ModulesAssumption, FS_CardinalityType
<1>2. \A n \in 0 .. UIntSpan - 1 : /\ (n + 1) % UIntSpan \in 0 .. UIntSpan - 1
                                   /\ (n - 1) % UIntSpan \in 0 .. UIntSpan - 1
  BY <1>1
<1>3. awaitedModules \in [Modules -> 0 .. UIntSpan - 1]
  BY DEF DataTypes
<1>4. IncrementParents(m) => awaitedModules' \in [Modules -> 0 .. UIntSpan - 1]
  BY <1>2, <1>3 DEF IncrementParents
<1>5. DecrementAwaited(m) => awaitedModules' \in [Modules -> 0 .. UIntSpan - 1]
  BY <1>2, <1>3 DEF DecrementAwaited
<1>6. \A c : SetParent(c, m) => awaitedModules' \in [Modules -> 0 .. UIntSpan - 1]
  BY <1>2, <1>3 DEF SetParent
<1> QED
  BY <1>4, <1>5, <1>6

LEMMA HostTypes ==
  ASSUME NEW h \in Hosts, NEW c \in Modules
  PROVE  FetchImportedModule(h, c) \in Hosts
BY DEF FetchImportedModule, Hosts

LEMMA LogTypes ==
  ASSUME NEW l \in Logs, NEW m \in Modules, NEW error \in Errors
  PROVE  /\ Announced(l, m) \in Logs
         /\ Reported(l, m, error) \in Logs
         /\ [l EXCEPT !.fulfilled = @ \cup {m}] \in Logs
         /\ [l EXCEPT !.rejected = @ \cup {m}] \in Logs
         /\ [l EXCEPT !.threw = @ \cup {m}] \in Logs
<1>1. Announced(l, m) \in Logs
  <2>1. [l.notices EXCEPT ![m] = @ + 1] \in [Modules -> Nat]
    BY DEF Logs
  <2> QED
    BY <2>1 DEF Announced, Logs
<1>2. Append(l.reports[m], error) \in Seq(Errors)
  BY DEF Logs
<1>3. Reported(l, m, error) \in Logs
  BY <1>2 DEF Reported, Logs
<1> QED
  BY <1>1, <1>3 DEF Logs

LEMMA SettledTypes ==
  ASSUME DataTypes, NEW m \in Modules, NEW as
  PROVE  Settled(m, as) \in Logs
<1>1. log \in Logs /\ None \in Errors
  BY DEF DataTypes, Errors
<1> QED
  BY <1>1, LogTypes DEF Settled

LEMMA LinkTypes ==
  ASSUME DataTypes, NEW m \in Modules, Link(m)
  PROVE  /\ wasDeclarationInitialized' \subseteq Modules /\ rootFunction' \subseteq Modules
         /\ errorObject' \in [Modules -> Errors]
<1>1. Uninitialized(m) \subseteq Modules /\ Uncompiled(m) \subseteq Modules
  BY ClosureType DEF Uninitialized, Uncompiled
<1> HIDE DEF Uninitialized, Uncompiled
<1> QED
  BY <1>1 DEF DataTypes, Link, Errors

LEMMA LoadTypes ==
  ASSUME Types, LoadStep
  PROVE  DataTypes' /\ thrown' \in Errors
<1>1. stack \in Seq(GoodFrames) /\ DataTypes /\ thrown \in Errors
  BY DEF Types
<1>2. Depth > 0 => top.mod \in Modules /\ top.rest \in Seq(Modules) /\ top.reason \in Errors
  BY <1>1, TopFacts
<1>3. Depth > 0 /\ top.rest # <<>> => Head(top.rest) \in Modules
  BY <1>2, HeadTail
<1>4. CASE ParseSource
  BY <1>1, <1>2, <1>4 DEF ParseSource, At, DataTypes
<1>5. CASE ResolveChild
  <2>1. /\ Depth > 0 /\ Head(top.rest) \in Modules /\ SetParent(Head(top.rest), top.mod)
        /\ top.mod \in Modules
    BY <1>2, <1>3, <1>5 DEF ResolveChild, At
  <2>2. awaitedModules' \in [Modules -> 0 .. UIntSpan - 1]
    BY <1>1, <2>1, CounterTypes
  <2>3. /\ childrenModuleSet' \in [Modules -> SUBSET Modules]
        /\ parentModuleList' \in [Modules -> Seq(Modules)]
    BY <1>1, <2>1 DEF SetParent, DataTypes
  <2>4. host' \in Hosts
    BY <1>1, <1>5, <2>1, HostTypes DEF ResolveChild, DataTypes
  <2> QED
    BY <1>1, <1>5, <2>2, <2>3, <2>4 DEF ResolveChild, DataTypes
<1>6. CASE ResolveFails
  <2>1. host' \in Hosts
    BY <1>1, <1>3, <1>6, HostTypes DEF ResolveFails, At, DataTypes
  <2> QED
    BY <1>1, <1>2, <1>3, <1>6, <2>1
    DEF ResolveFails, At, SetErrorIfNone, SetError, DataTypes, Errors
<1>7. CASE ParseFailed
  <2>1. Depth > 0 /\ top.mod \in Modules /\ None \in Errors
    BY <1>2, <1>7 DEF ParseFailed, At, Errors
  <2>2. log' \in Logs
    BY <1>1, <1>7, <2>1, SettledTypes, LogTypes DEF ParseFailed, FailLoad
  <2> QED
    BY <1>1, <1>7, <2>1, <2>2
    DEF ParseFailed, SetErrorIfNone, SetError, FailLoad, SettleFlags, AnnounceFlags,
        DataTypes, Errors
<1>8. CASE ParseReturns
  <2>1. Depth > 0 /\ top.mod \in Modules
    BY <1>2, <1>8 DEF ParseReturns, At
  <2>2. host' \in Hosts
    BY <1>1, <1>8, <2>1 DEF ParseReturns, DataTypes, Hosts
  <2> QED
    BY <1>1, <1>8, <2>2 DEF ParseReturns, DataTypes
<1>9. CASE NotifyParentsAsNeeded
  BY <1>1, <1>2, <1>9 DEF NotifyParentsAsNeeded, At, DataTypes
<1>10. CASE NotifyEnds
  BY <1>1, <1>2, <1>10 DEF NotifyEnds, At, DataTypes
<1>11. CASE OnChildModuleReady
  BY <1>1, <1>2, <1>11 DEF OnChildModuleReady, At, SetErrorIfNone, SetError, DataTypes
<1>12. CASE ChildFailed
  <2>1. Depth > 0 /\ top.mod \in Modules /\ None \in Errors
    BY <1>2, <1>12 DEF ChildFailed, At, Errors
  <2>2. log' \in Logs
    BY <1>1, <1>12, <2>1, SettledTypes, LogTypes DEF ChildFailed, FailLoad
  <2> QED
    BY <1>1, <1>12, <2>1, <2>2
    DEF ChildFailed, FailLoad, SettleFlags, AnnounceFlags, DataTypes
<1>13. CASE Prepared
  <2>1. Depth > 0 /\ top.mod \in Modules
    BY <1>2, <1>13 DEF Prepared, At
  <2>2. /\ wasDeclarationInitialized' \subseteq Modules /\ rootFunction' \subseteq Modules
        /\ errorObject' \in [Modules -> Errors]
    BY <1>1, <1>13, <2>1, LinkTypes DEF Prepared, DataTypes
  <2>3. log' \in Logs
    BY <1>1, <1>13, <2>1, LogTypes DEF Prepared, DataTypes, Errors
  <2> QED
    BY <1>1, <1>13, <2>1, <2>2, <2>3 DEF Prepared, AnnounceFlags, DataTypes
<1>14. CASE ResolveEnds \/ NotifyParent \/ Prepare
  BY <1>1, <1>14, UnchangedData DEF ResolveEnds, NotifyParent, Prepare
<1> QED
  BY <1>4, <1>5, <1>6, <1>7, <1>8, <1>9, <1>10, <1>11, <1>12, <1>13, <1>14 DEF LoadStep

LEMMA EvaluateTypes ==
  ASSUME Types, EvaluateStep
  PROVE  DataTypes' /\ thrown' \in Errors
<1>1. stack \in Seq(GoodFrames) /\ DataTypes /\ thrown \in Errors
  BY DEF Types
<1>2. Depth > 0 =>
        /\ top.mod \in Modules /\ top.rest \in Seq(Modules)
        /\ top.op \in {"child", "prepassChild"} => top.rest # <<>>
  BY <1>1, TopFacts
<1>3. Depth > 0 /\ top.rest # <<>> => Head(top.rest) \in Modules
  BY <1>2, HeadTail
<1>4. CASE \/ ModuleEvaluationReturns \/ ModuleEvaluationPrepasses \/ PrepassRefuses
           \/ EvaluateChild \/ PrepassChild \/ PrepassNext
  BY <1>1, <1>4, UnchangedData
  DEF ModuleEvaluationReturns, ModuleEvaluationPrepasses, PrepassRefuses, EvaluateChild,
      PrepassChild, PrepassNext
<1>5. CASE SetEvaluating
  <2>1. Depth > 0 /\ top.mod \in Modules
    BY <1>2, <1>5 DEF SetEvaluating, At
  <2>2. Depth = 1 \/ stack[Depth - 1].mod \in Modules
    <3>1. Depth \in Nat /\ Depth = Len(stack)
      BY <1>1, TopFacts
    <3>2. Depth = 1 \/ Depth - 1 \in Positions
      BY <2>1, <3>1 DEF Positions
    <3> QED
      BY <1>1, <3>2, TopFacts
  <2>3. caller' \in [Modules -> Errors]
    BY <1>1, <1>5, <2>1, <2>2 DEF SetEvaluating, DataTypes, Errors
  <2> QED
    BY <1>1, <1>5, <2>1, <2>3 DEF SetEvaluating, DataTypes
<1>6. CASE ChildEvaluated
  BY <1>1, <1>2, <1>3, <1>6 DEF ChildEvaluated, At, DataTypes
<1>7. CASE ChildrenEvaluated
  <2>1. awaitedModules' \in [Modules -> 0 .. UIntSpan - 1]
    BY <1>1, <1>2, <1>7, CounterTypes DEF ChildrenEvaluated, At, DataTypes
  <2> QED
    BY <1>1, <1>7, <2>1 DEF ChildrenEvaluated, DataTypes
<1>8. CASE CatchInEvaluation
  <2>1. log' \in Logs
    BY <1>1, <1>2, <1>8, SettledTypes, LogTypes DEF CatchInEvaluation
  <2> QED
    BY <1>1, <1>2, <1>8, <2>1 DEF CatchInEvaluation, Evaluated, SetError, DataTypes, Errors
<1>9. CASE PrepassFails
  <2>1. Depth > 0 /\ top.mod \in Modules /\ errorObject[top.mod] \in Errors
    BY <1>1, <1>2, <1>9 DEF PrepassFails, At, DataTypes
  <2>2. log' \in Logs
    BY <1>1, <1>9, <2>1, SettledTypes, LogTypes DEF PrepassFails, DataTypes
  <2> QED
    BY <1>1, <1>9, <2>1, <2>2 DEF PrepassFails, SettleFlags, DataTypes, Errors
<1>10. CASE PrepassBegins
  BY <1>1, <1>2, <1>10 DEF PrepassBegins, At, DataTypes
<1>11. CASE PrepassRethrows
  BY <1>1, <1>2, <1>3, <1>11 DEF PrepassRethrows, At, DataTypes
<1>12. CASE PrepassEnds
  BY <1>1, <1>2, <1>12 DEF PrepassEnds, At, DataTypes
<1> QED
  BY <1>4, <1>5, <1>6, <1>7, <1>8, <1>9, <1>10, <1>11, <1>12 DEF EvaluateStep

LEMMA BodyTypes ==
  ASSUME DataTypes, NEW m \in Modules, BeginBody(m)
  PROVE  /\ runs' \in [Modules -> Nat] /\ before' \in [Modules -> SUBSET Modules]
         /\ uncalled' \subseteq Modules
<1>1. runs' \in [Modules -> Nat]
  BY DEF BeginBody, DataTypes
<1>2. log.threw \subseteq Modules
  BY DEF DataTypes, Logs
<1> QED
  BY <1>1, <1>2 DEF BeginBody, DataTypes

LEMMA FinishTypes ==
  ASSUME Types, FinishStep
  PROVE  DataTypes' /\ thrown' \in Errors
<1>1. stack \in Seq(GoodFrames) /\ DataTypes /\ thrown \in Errors
  BY DEF Types
<1>2. Depth > 0 => top.mod \in Modules /\ top.rest \in Seq(Modules) /\ top.reason \in Errors
  BY <1>1, TopFacts
<1>3. Depth > 0 /\ top.rest # <<>> => Head(top.rest) \in Modules
  BY <1>2, HeadTail
<1>4. CASE FinishNothing \/ ParentsTold \/ NothingAwaited \/ RejectParent \/ Returns \/ Unwind
  BY <1>1, <1>4, UnchangedData
  DEF FinishNothing, ParentsTold, NothingAwaited, RejectParent, Returns, Unwind
<1>5. CASE FinishCrashes
  BY <1>1, <1>5 DEF FinishCrashes, DataTypes
<1>6. CASE FinishAsync
  <2>1. Depth > 0 /\ top.mod \in Modules
    BY <1>2, <1>6 DEF FinishAsync, AtFinish, At
  <2>2. awaitedModules' \in [Modules -> 0 .. UIntSpan - 1]
    BY <1>1, <1>6, <2>1, CounterTypes DEF FinishAsync, DataTypes
  <2>3. /\ runs' \in [Modules -> Nat] /\ before' \in [Modules -> SUBSET Modules]
        /\ uncalled' \subseteq Modules
    BY <1>1, <1>6, <2>1, BodyTypes DEF FinishAsync
  <2> QED
    BY <1>1, <1>6, <2>1, <2>2, <2>3 DEF FinishAsync, DataTypes
<1>7. CASE FinishSync \/ FinishThrows
  <2>1. Depth > 0 /\ top.mod \in Modules
    BY <1>2, <1>7 DEF FinishSync, FinishThrows, AtFinish, At
  <2>2. /\ runs' \in [Modules -> Nat] /\ before' \in [Modules -> SUBSET Modules]
        /\ uncalled' \subseteq Modules
    BY <1>1, <1>7, <2>1, BodyTypes DEF FinishSync, FinishThrows
  <2>3. log' \in Logs
    BY <1>1, <1>7, <2>1, LogTypes DEF FinishSync, FinishThrows, DataTypes, Errors
  <2> QED
    BY <1>1, <1>7, <2>1, <2>2, <2>3 DEF FinishSync, FinishThrows, Evaluated, DataTypes, Errors
<1>8. CASE TellParent
  <2>1. awaitedModules' \in [Modules -> 0 .. UIntSpan - 1]
    BY <1>1, <1>3, <1>8, CounterTypes DEF TellParent, At
  <2> QED
    BY <1>1, <1>8, <2>1 DEF TellParent, DataTypes
<1>9. CASE Complete \/ FulfilledEnds \/ RejectEnds
  <2>1. Depth > 0 /\ top.mod \in Modules /\ top.reason \in Errors /\ None \in Errors
    BY <1>2, <1>9 DEF Complete, FulfilledEnds, RejectEnds, At, Errors
  <2>2. log' \in Logs
    <3>1. log \in Logs
      BY <1>1 DEF DataTypes
    <3>2. CASE Complete
      BY <1>1, <2>1, <3>2, SettledTypes, LogTypes DEF Complete
    <3>3. CASE FulfilledEnds
      BY <1>1, <2>1, <3>1, <3>3, SettledTypes, LogTypes DEF FulfilledEnds
    <3>4. CASE RejectEnds
      BY <1>1, <2>1, <3>4, SettledTypes, LogTypes DEF RejectEnds
    <3> QED
      BY <1>9, <3>2, <3>3, <3>4
  <2> QED
    BY <1>1, <1>9, <2>1, <2>2 DEF Complete, FulfilledEnds, RejectEnds, SettleFlags, DataTypes
<1>10. CASE FulfilledParent
  <2>1. awaitedModules' \in [Modules -> 0 .. UIntSpan - 1]
    BY <1>1, <1>3, <1>10, CounterTypes DEF FulfilledParent, At
  <2> QED
    BY <1>1, <1>10, <2>1 DEF FulfilledParent, DataTypes
<1>11. CASE CatchInWaited
  BY <1>1, <1>2, <1>11 DEF CatchInWaited, Evaluated, DataTypes, Errors
<1>12. CASE PropogateRejection
  BY <1>1, <1>2, <1>12 DEF PropogateRejection, At, Evaluated, SetError, DataTypes
<1> QED
  BY <1>4, <1>5, <1>6, <1>7, <1>8, <1>9, <1>10, <1>11, <1>12 DEF FinishStep

LEMMA MessageTypes ==
  ASSUME Types, NEW m \in Modules, Message(m)
  PROVE  DataTypes' /\ thrown' \in Errors
<1>1. DataTypes /\ thrown \in Errors /\ None \in Errors
  BY DEF Types, Errors
<1>2. host \in Hosts /\ log \in Logs
  BY <1>1 DEF DataTypes
<1>3. [host EXCEPT !.imported = @ \cup {m}] \in Hosts
  BY <1>2 DEF Hosts
<1>4. CASE LoadRoot(m) \/ LoadImported(m)
  <2>1. host' \in Hosts
    <3>1. CASE LoadRoot(m)
      BY <1>2, <3>1 DEF LoadRoot, Hosts
    <3>2. CASE LoadImported(m)
      BY <1>2, <3>2 DEF LoadImported, Hosts
    <3> QED
      BY <1>4, <3>1, <3>2
  <2> QED
    BY <1>1, <1>4, <2>1 DEF LoadRoot, LoadImported, DataTypes
<1>5. CASE OnHostException(m)
  BY <1>1, <1>5 DEF OnHostException, SetError, DataTypes, Errors
<1>6. CASE Evaluate(m)
  BY <1>1, <1>6 DEF Evaluate, DataTypes
<1>7. CASE AsyncBodyReturns(m)
  BY <1>1, <1>7 DEF AsyncBodyReturns, Evaluated, DataTypes
<1>8. CASE AsyncBodyThrows(m)
  <2>1. log' \in Logs
    BY <1>1, <1>2, <1>8, LogTypes DEF AsyncBodyThrows
  <2> QED
    BY <1>1, <1>8, <2>1 DEF AsyncBodyThrows, DataTypes
<1>9. CASE ImportRefused(m) \/ ImportDone(m)
  <2>1. host' \in Hosts
    BY <1>3, <1>9, HostTypes DEF ImportRefused, ImportDone
  <2>2. log' \in Logs
    BY <1>1, <1>2, <1>9, LogTypes DEF ImportRefused, ImportDone, ImportSettles
  <2> QED
    BY <1>1, <1>9, <2>1, <2>2 DEF ImportRefused, ImportDone, ImportSettles, DataTypes
<1>10. CASE ImportWaits(m)
  <2>1. /\ wasDeclarationInitialized' \subseteq Modules /\ rootFunction' \subseteq Modules
        /\ errorObject' \in [Modules -> Errors]
    BY <1>1, <1>10, LinkTypes DEF ImportWaits, DataTypes
  <2>2. host' \in Hosts
    BY <1>3, <1>10, HostTypes DEF ImportWaits
  <2>3. log' \in Logs
    BY <1>1, <1>2, <1>10, LogTypes DEF ImportWaits
  <2> QED
    BY <1>1, <1>10, <2>1, <2>2, <2>3 DEF ImportWaits, AnnounceFlags, DataTypes
<1>11. CASE ImportCrashes(m)
  <2>1. /\ wasDeclarationInitialized' \subseteq Modules /\ rootFunction' \subseteq Modules
        /\ errorObject' \in [Modules -> Errors]
    BY <1>1, <1>11, LinkTypes DEF ImportCrashes, DataTypes
  <2>2. host' \in Hosts
    BY <1>3, <1>11, HostTypes DEF ImportCrashes
  <2>3. log' \in Logs
    BY <1>1, <1>2, <1>11, LogTypes DEF ImportCrashes
  <2> QED
    BY <1>1, <1>11, <2>1, <2>2, <2>3 DEF ImportCrashes, DataTypes
<1> QED
  BY <1>4, <1>5, <1>6, <1>7, <1>8, <1>9, <1>10, <1>11 DEF Message

LEMMA NextTypes ==
  ASSUME Types, [Next]_vars
  PROVE  Types'
<1>1. DataTypes /\ stack \in Seq(GoodFrames) /\ thrown \in Errors
  BY DEF Types
<1>2. ASSUME StackMove(GoodFrames), DataTypes', thrown' \in Errors PROVE Types'
  BY <1>1, <1>2, StackMoveTypes DEF Types
<1>0. StackMove(OtherFrames) => StackMove(GoodFrames)
  BY DEF StackMove, OtherFrames
<1>3. CASE UNCHANGED vars
  <2>1. StackMove(GoodFrames) /\ UNCHANGED data /\ thrown' = thrown
    BY <1>3 DEF StackMove, vars
  <2> QED
    BY <1>1, <1>2, <2>1, UnchangedData
<1>4. CASE LoadStep
  BY <1>2, <1>4, LoadStackMove, LoadTypes
<1>5. CASE EvaluateStep
  BY <1>0, <1>2, <1>5, EvaluateStackMove, EvaluateTypes
<1>6. CASE FinishStep
  BY <1>0, <1>2, <1>6, FinishStackMove, FinishTypes
<1>7. CASE \E m \in Modules : Message(m)
  BY <1>2, <1>7, MessageStackMove, MessageTypes
<1> QED
  BY <1>3, <1>4, <1>5, <1>6, <1>7 DEF Next

-----------------------------------------------------------------------------
(* What the steps leave alone.                                             *)

LEMMA WorldStep ==
  ASSUME Next
  PROVE  world' = world
<1>1. LoadStep => world' = world
  BY DEF LoadStep, ParseSource, ResolveChild, ResolveFails, ResolveEnds, ParseFailed,
         ParseReturns, NotifyParentsAsNeeded, NotifyParent, NotifyEnds, OnChildModuleReady,
         ChildFailed, Prepare, Prepared
<1>2. EvaluateStep => world' = world
  BY DEF EvaluateStep, ModuleEvaluationReturns, ModuleEvaluationPrepasses, PrepassRefuses,
         SetEvaluating, EvaluateChild, ChildEvaluated, ChildrenEvaluated,
         CatchInEvaluation, PrepassFails, PrepassBegins, PrepassChild, PrepassRethrows,
         PrepassNext, PrepassEnds
<1>3. FinishStep => world' = world
  BY DEF FinishStep, FinishNothing, FinishCrashes, FinishAsync, FinishSync, FinishThrows,
         TellParent, ParentsTold, Complete, FulfilledParent, NothingAwaited,
         CatchInWaited, FulfilledEnds, PropogateRejection, RejectParent, RejectEnds,
         Returns, Unwind
<1>4. (\E m \in Modules : Message(m)) => world' = world
  BY DEF Message, LoadRoot, LoadImported, OnHostException, Evaluate, AsyncBodyReturns,
         AsyncBodyThrows, ImportRefused, ImportDone, ImportWaits, ImportCrashes,
         ImportSettles
<1> QED
  BY <1>1, <1>2, <1>3, <1>4 DEF Next

\* The graph of the sources never changes.
LEMMA SameWorld ==
  ASSUME world' = world
  PROVE  /\ Cone' = Cone /\ Reach' = Reach
         /\ \A m : Imports(m)' = Imports(m)
         /\ \A m : Dependencies(m)' = Dependencies(m)
BY DEF Cone, Reach, Dependencies, Imports, Closure

\* What is known of the graph of the records is not forgotten.
LEMMA WholeGrows ==
  ASSUME world' = world, Known \subseteq Known'
  PROVE  Whole \subseteq Whole'
BY SameWorld DEF Whole

SameGraph == UNCHANGED <<world, wasParsed, childrenModuleSet, parentModuleList>>

LEMMA SameGraphFacts ==
  ASSUME SameGraph
  PROVE  Known' = Known /\ Whole' = Whole /\ (Linked => Linked')
<1>1. Known' = Known
  BY DEF SameGraph, Known, Imports
<1>2. Whole' = Whole
  BY <1>1, SameWorld DEF SameGraph, Whole
<1>3. Linked => Linked'
  BY SameWorld DEF SameGraph, Linked
<1> QED
  BY <1>1, <1>2, <1>3

\* The positions of the calls that a step does not touch.
Below == 1 .. Len(stack) - 1

\* The stack changes at its top only, by one call at most.
TopMove == /\ Len(stack') \in {Len(stack) - 1, Len(stack), Len(stack) + 1}
           /\ \A i \in Below : stack'[i] = stack[i]

LEMMA TopMoveFacts ==
  ASSUME stack \in Seq(GoodFrames), Depth > 0, TopMove
  PROVE  /\ Len(stack) \in Nat /\ Len(stack) > 0
         /\ Positions = Below \cup {Len(stack)} /\ Below \subseteq Positions'
         /\ \A i \in Positions' : i \in Below \/ i = Len(stack) \/ i = Len(stack) + 1
         /\ \A i \in Positions' : i \notin Below /\ i # Len(stack) =>
              i = Len(stack) + 1 /\ Len(stack') = Len(stack) + 1
         /\ \A i \in Below : i + 1 \in Below \/ i + 1 = Len(stack)
         /\ \A i \in Below : i \in Int /\ i < Len(stack) /\ stack'[i] = stack[i]
BY DEF TopMove, Depth, Positions, Below

\* A call that has told, or tells, that it failed is not forgotten.
LEMMA DoomedGrows ==
  ASSUME stack \in Seq(GoodFrames), Depth > 0, TopMove,
         Failed \subseteq Failed', parentsNotified \subseteq parentsNotified',
         top.op \in PassOps => top.mod \in parentsNotified' \cup Passing'
  PROVE  Doomed \subseteq Doomed'
<1>1. ASSUME NEW m \in Passing PROVE m \in parentsNotified' \cup Passing'
  <2>1. PICK i \in Positions : stack[i].op \in PassOps /\ stack[i].mod = m
    BY <1>1 DEF Passing
  <2>2. CASE i = Len(stack)
    BY <2>1, <2>2, TopFacts
  <2>3. CASE i \in Below
    BY <2>1, <2>3, TopMoveFacts DEF Passing, PassOps
  <2> QED
    BY <2>2, <2>3, TopMoveFacts
<1> QED
  BY <1>1 DEF Doomed

\* What has to be shown of a step of the load that leaves the graph alone: the
\* calls above Below are in order, and what it takes off the stack is accounted for.
LEMMA LoadStackStep ==
  ASSUME Types, LoadInv, SameGraph, Depth > 0, TopMove, thrown = None, thrown' = None,
         top.op \in LoadOps,
         Failed \subseteq Failed', parentsNotified \subseteq parentsNotified',
         top.op \in PassOps => top.mod \in parentsNotified' \cup Passing',
         top.op = "OnChildModuleReady" /\ top.reason # None => top.mod \in Doomed',
         Resolved', Notified', NotifyingCalled',
         \A i \in Positions' \ Below :
           /\ stack'[i].op \in LoadOps \ {"ParseSource", "resolve"}
           /\ stack'[i].op \in PassOps \cup {"prepared"} => stack'[i].mod \in Whole \cup Failed'
           /\ stack'[i].op = "childFailed" => stack'[i].mod \in Failed'
           /\ stack'[i].op = "notifying" /\ stack'[i].mod \notin Whole =>
                \A p \in Modules : stack'[i].mod \in childrenModuleSet[p] =>
                  \/ p \in Doomed' \cup ToSet(stack'[i].rest)
                  \/ /\ i + 1 \in Positions'
                     /\ stack'[i + 1].op = "OnChildModuleReady"
                     /\ stack'[i + 1].mod = p /\ stack'[i + 1].reason # None,
         \A i \in Positions', j \in Positions' \ Below :
           i < j /\ stack'[i].op \in PassOps /\ stack'[i].mod \notin Whole =>
             \/ stack'[j].op \in PassOps \cup {"childFailed"} /\ stack'[j].mod \in Failed'
             \/ stack'[j].op = "OnChildModuleReady" /\ stack'[j].reason # None
  PROVE  LoadInv'
<1>1. stack \in Seq(GoodFrames)
  BY DEF Types
<1>2. /\ Homogeneous /\ Resolving /\ Linked /\ Notifies /\ OnlyFailuresAbove
  BY DEF LoadInv
<1>3. Known' = Known /\ Whole' = Whole /\ Linked'
  BY <1>2, SameGraphFacts
<1>4. Doomed \subseteq Doomed'
  BY <1>1, DoomedGrows
<1>5. Len(stack) \in Positions /\ top = stack[Len(stack)]
  BY <1>1, TopFacts
<1>6. Homogeneous'
  <2>1. \A i \in Positions : stack[i].op \in LoadOps
    BY <1>2, <1>5 DEF Homogeneous
  <2>2. \A i \in Positions' : stack'[i].op \in LoadOps
    BY <1>1, <2>1, TopMoveFacts
  <2> QED
    BY <2>2 DEF Homogeneous
<1>7. Resolving'
  <2>1. \A i \in Below : stack[i].op \notin {"ParseSource", "resolve"}
    BY <1>1, <1>2, TopMoveFacts DEF Resolving, Below
  <2>2. \A i \in Positions' : stack'[i].op \notin {"ParseSource", "resolve"}
    BY <1>1, <2>1, TopMoveFacts
  <2> QED
    BY <2>2 DEF Resolving
<1>8. Notifies'
  <2> SUFFICES ASSUME NEW i \in Positions'
               PROVE  Notifies!(i)'
    BY DEF Notifies
  <2>1. CASE i \notin Below
    BY <1>3, <2>1 DEF SameGraph
  <2>2. CASE i \in Below
    <3>1. i \in Positions /\ stack'[i] = stack[i]
      BY <1>1, <2>2, TopMoveFacts
    <3>2. /\ stack[i].op \in PassOps \cup {"prepared"} => stack[i].mod \in Whole' \cup Failed'
          /\ stack[i].op = "childFailed" => stack[i].mod \in Failed'
      BY <1>2, <1>3, <3>1 DEF Notifies
    <3>3. ASSUME NEW p \in Modules, stack[i].op = "notifying", stack[i].mod \notin Whole,
                 stack[i].mod \in childrenModuleSet[p]
          PROVE  \/ p \in Doomed' \cup ToSet(stack[i].rest)
                 \/ /\ i + 1 \in Positions'
                    /\ stack'[i + 1].op = "OnChildModuleReady"
                    /\ stack'[i + 1].mod = p /\ stack'[i + 1].reason # None
      <4>1. \/ p \in Doomed \cup ToSet(stack[i].rest)
            \/ /\ stack[i + 1].op = "OnChildModuleReady"
               /\ stack[i + 1].mod = p /\ stack[i + 1].reason # None
        BY <1>2, <3>1, <3>3 DEF Notifies
      <4>2. i + 1 \in Below \/ i + 1 = Len(stack)
        BY <1>1, <2>2, TopMoveFacts
      <4>3. CASE i + 1 \in Below
        BY <1>1, <1>4, <4>1, <4>3, TopMoveFacts
      <4>4. CASE i + 1 = Len(stack)
        BY <1>4, <1>5, <4>1, <4>4
      <4> QED
        BY <4>2, <4>3, <4>4
    <3> QED
      BY <1>3, <3>1, <3>2, <3>3 DEF SameGraph
  <2> QED
    BY <2>1, <2>2
<1>9. OnlyFailuresAbove'
  <2> SUFFICES ASSUME NEW i \in Positions', NEW j \in Positions', i < j,
                      stack'[i].op \in PassOps, stack'[i].mod \notin Whole
               PROVE  \/ stack'[j].op \in PassOps \cup {"childFailed"} /\ stack'[j].mod \in Failed'
                      \/ stack'[j].op = "OnChildModuleReady" /\ stack'[j].reason # None
    BY <1>3 DEF OnlyFailuresAbove
  <2>1. CASE j \notin Below
    BY <2>1
  <2>2. CASE j \in Below
    <3>1. i \in Below
      BY <2>2 DEF Below, Positions
    <3> QED
      BY <1>1, <1>2, <2>2, <3>1, TopMoveFacts DEF OnlyFailuresAbove
  <2> QED
    BY <2>1, <2>2
<1> QED
  BY <1>3, <1>6, <1>7, <1>8, <1>9 DEF LoadInv

\* ConfirmChildrenParsed stops at modules that have notified their parents; it
\* is right all the same: a module it confirms is whole, or has failed.
LEMMA ConfirmedWhole ==
  ASSUME Types, LoadInv, At("Prepare"), ConfirmChildrenParsed(top.mod)
  PROVE  top.mod \in Whole \cup Failed
<1> DEFINE m == top.mod
           next == [x \in Modules |-> IF x \in parentsNotified THEN {}
                                      ELSE childrenModuleSet[x] \ parentsNotified]
           C == Closure({m}, next)
<1>1. stack \in Seq(GoodFrames) /\ world \in Worlds /\ Depth > 0 /\ top.op = "Prepare"
  BY DEF Types, DataTypes, At
<1>2. /\ m \in Modules /\ Len(stack) \in Positions /\ top = stack[Len(stack)]
      /\ Len(stack) \in Nat
  BY <1>1, TopFacts
<1>3. Resolving /\ Resolved /\ Notified /\ OnlyFailuresAbove
  BY DEF LoadInv
<1>4. \A x \in Modules : childrenModuleSet[x] \subseteq Modules
  BY DEF Types, DataTypes
<1>5. C \subseteq wasParsed /\ C \subseteq Modules /\ m \in C
  <2>1. C \subseteq wasParsed
    BY DEF ConfirmChildrenParsed
  <2> HIDE DEF next
  <2> QED
    BY <1>2, <2>1, ClosureFrom, ClosureType
<1>6. CASE m \in parentsNotified \/ m \in Failed
  BY <1>3, <1>6 DEF Notified
<1>7. CASE m \notin parentsNotified /\ m \notin Failed
  <2>1. C \cap parentsNotified = {}
    <3> DEFINE S == Modules \ parentsNotified
    <3>1. {m} \subseteq S /\ \A x \in S : next[x] \subseteq S
      BY <1>2, <1>4, <1>7
    <3> HIDE DEF next
    <3>2. C \subseteq S
      BY <3>1, ClosureLeast
    <3> QED
      BY <3>2
  <2>2. \A y \in C : childrenModuleSet[y] \subseteq C \cup parentsNotified
    <3> TAKE y \in C
    <3>1. next[y] = childrenModuleSet[y] \ parentsNotified /\ next[y] \in SUBSET Modules
      BY <1>4, <1>5, <2>1
    <3> HIDE DEF next
    <3>2. next[y] \subseteq C
      BY <3>1, ClosureStep
    <3> QED
      BY <3>1, <3>2
  <2> HIDE DEF C
  <2>3. ASSUME NEW y \in C, y \in Doomed PROVE y \in Whole
    <3>1. PICK i \in Positions : stack[i].op \in PassOps /\ stack[i].mod = y
      BY <2>1, <2>3 DEF Doomed, Passing
    <3>2. i # Len(stack)
      BY <1>1, <1>2, <3>1 DEF PassOps
    <3>3. i < Len(stack)
      BY <1>2, <3>2 DEF Positions
    <3> QED
      BY <1>1, <1>2, <1>3, <3>1, <3>3 DEF OnlyFailuresAbove, PassOps
  <2>4. ASSUME NEW y \in C PROVE y \in Known
    <3>1. CASE y \in Known \cup Doomed
      BY <1>1, <2>3, <3>1, WholeMember
    <3>2. CASE \E i \in Positions : stack[i].op = "resolve" /\ stack[i].mod = y
      <4>1. PICK i \in Positions : stack[i].op = "resolve"
        BY <3>2
      <4>2. Len(stack) = 1 /\ i = Len(stack)
        BY <1>2, <1>3, <4>1 DEF Resolving, Positions
      <4> QED
        BY <1>1, <1>2, <4>1, <4>2
    <3> QED
      BY <1>3, <1>5, <3>1, <3>2 DEF Resolved
  <2>5. ASSUME NEW y \in C, NEW c \in Imports(y) PROVE c \in C \cup Whole
    <3>1. c \in childrenModuleSet[y] /\ y \in Modules
      BY <1>5, <2>4 DEF Known
    <3>2. CASE c \in parentsNotified
      <4>1. c \in Whole \/ y \in Doomed
        BY <1>3, <3>1, <3>2 DEF Notified
      <4> QED
        BY <1>1, <2>3, <2>5, <4>1, WholeMember
    <3> QED
      BY <2>2, <3>1, <3>2
  <2> DEFINE S == C \cup Whole
  <2>6. S \subseteq Known /\ S \in SUBSET Modules /\ m \in S
    BY <1>1, <1>5, <2>4, WholeMember
  <2>7. \A x \in S : Imports(x) \subseteq S
    BY <1>1, <2>5, WholeMember
  <2> HIDE DEF S
  <2>8. Cone[m] \subseteq S
    BY <1>1, <2>6, <2>7, ConeLeast
  <2> QED
    BY <1>2, <2>6, <2>8 DEF Whole
<1> QED
  BY <1>6, <1>7

-----------------------------------------------------------------------------
(* The steps of a load keep its invariant.                                 *)

LEMMA ReturnMove ==
  ASSUME stack \in Seq(GoodFrames), Depth > 0, Return
  PROVE  TopMove /\ Positions' = Below /\ Len(stack') = Len(stack) - 1
BY ReturnFacts DEF TopMove, Below, Positions

LEMMA BecomesMove ==
  ASSUME stack \in Seq(GoodFrames), Depth > 0, NEW f \in GoodFrames, Becomes(f)
  PROVE  /\ TopMove /\ Positions' = Below \cup {Len(stack)} /\ Len(stack') = Len(stack)
         /\ stack'[Len(stack)] = f
<1>1. Len(stack) \in Nat /\ Len(stack) > 0
  BY TopFacts
<1> QED
  BY <1>1, BecomesFacts DEF TopMove, Below, Positions

LEMMA CallsMove ==
  ASSUME stack \in Seq(GoodFrames), Depth > 0, NEW f \in GoodFrames, NEW g \in GoodFrames,
         Calls(f, g)
  PROVE  /\ TopMove /\ Positions' = Below \cup {Len(stack), Len(stack) + 1}
         /\ Len(stack') = Len(stack) + 1
         /\ stack'[Len(stack)] = f /\ stack'[Len(stack) + 1] = g
<1>1. Len(stack) \in Nat /\ Len(stack) > 0
  BY TopFacts
<1> QED
  BY <1>1, CallsFacts DEF TopMove, Below, Positions

LEMMA ErrorSet ==
  ASSUME DataTypes, NEW m \in Modules, NEW error \in Modules,
         SetError(m, error) \/ SetErrorIfNone(m, error)
  PROVE  Failed' = Failed \cup {m}
<1>1. error # None /\ errorObject \in [Modules -> Errors]
  BY ModulesAssumption DEF DataTypes
<1> QED
  BY <1>1 DEF SetError, SetErrorIfNone, Failed

LEMMA LinkErrors ==
  ASSUME DataTypes, NEW m \in Modules, Link(m)
  PROVE  Failed \subseteq Failed'
<1>1. errorObject \in [Modules -> Errors] /\ None \notin Modules
  BY ModulesAssumption DEF DataTypes
<1> HIDE DEF Uninitialized, Uncompiled
<1> QED
  BY <1>1 DEF Link, Failed

\* A step of the load, and what it leaves.
LEMMA LoadTop ==
  ASSUME Types, LoadInv, NEW op \in LoadOps, At(op)
  PROVE  /\ stack \in Seq(GoodFrames) /\ DataTypes /\ Depth > 0 /\ thrown = None
         /\ top.op = op /\ top.op \in LoadOps /\ top.mod \in Modules
         /\ top.rest \in Seq(Modules) /\ top.reason \in Errors
         /\ Len(stack) \in Positions /\ top = stack[Len(stack)]
         /\ Len(stack) \in Nat /\ Len(stack) > 0
         /\ Below \subseteq Positions /\ Len(stack) \notin Below
         /\ Positions = Below \cup {Len(stack)}
         /\ \A i \in Below : i \in Nat /\ i < Len(stack)
         /\ op \notin {"ParseSource", "resolve"} => wasParsed \subseteq Known \cup Doomed
<1>1. stack \in Seq(GoodFrames) /\ DataTypes /\ Depth > 0 /\ thrown = None /\ top.op = op
  BY DEF Types, At
<1>2. /\ Len(stack) \in Positions /\ top = stack[Len(stack)] /\ top.mod \in Modules
      /\ top.rest \in Seq(Modules) /\ top.reason \in Errors
      /\ Len(stack) \in Nat /\ Len(stack) > 0
  BY <1>1, TopFacts
<1>3. /\ Below \subseteq Positions /\ Len(stack) \notin Below
      /\ Positions = Below \cup {Len(stack)}
      /\ \A i \in Below : i \in Nat /\ i < Len(stack)
  BY <1>2 DEF Below, Positions
<1>4. ASSUME op \notin {"ParseSource", "resolve"}, NEW m \in wasParsed
      PROVE  m \in Known \cup Doomed
  <2>1. ASSUME NEW i \in Positions PROVE stack[i].op # "resolve"
    <3>1. stack[i].op = "resolve" => Len(stack) = 1
      BY DEF LoadInv, Resolving
    <3>2. Len(stack) = 1 => i = Len(stack)
      BY DEF Positions
    <3> QED
      BY <1>1, <1>2, <1>4, <3>1, <3>2
  <2> QED
    BY <2>1 DEF LoadInv, Resolved
<1> QED
  BY <1>1, <1>2, <1>3, <1>4

\* Notified is kept by steps that add nothing to parentsNotified.
LEMMA NotifiedStays ==
  ASSUME LoadInv, SameGraph, Failed \subseteq Failed', Doomed \subseteq Doomed',
         parentsNotified' = parentsNotified
  PROVE  Notified'
<1>1. Whole' = Whole /\ Notified
  BY SameGraphFacts DEF LoadInv
<1> QED
  BY <1>1 DEF SameGraph, Notified

\* NotifyingCalled is kept by steps that leave notifying and such calls alone.
LEMMA NotifyingStays ==
  ASSUME Types, LoadInv, Depth > 0, TopMove, notifying' = notifying,
         top.op = "notifying" => \E i \in Positions' : /\ stack'[i].op = "notifying"
                                                       /\ stack'[i].mod = top.mod
  PROVE  NotifyingCalled'
<1>1. stack \in Seq(GoodFrames) /\ NotifyingCalled
  BY DEF Types, LoadInv
<1> SUFFICES ASSUME NEW m \in notifying
             PROVE  \E i \in Positions' : stack'[i].op = "notifying" /\ stack'[i].mod = m
  BY DEF NotifyingCalled
<1>2. PICK i \in Positions : stack[i].op = "notifying" /\ stack[i].mod = m
  BY <1>1 DEF NotifyingCalled
<1>3. CASE i \in Below
  BY <1>1, <1>2, <1>3, TopMoveFacts
<1>4. CASE i = Len(stack)
  BY <1>1, <1>2, <1>4, TopFacts
<1> QED
  BY <1>1, <1>3, <1>4, TopMoveFacts

\* A call that is no news of a failure is on top: nothing below it is one.
LEMMA NoFailureBelow ==
  ASSUME Types, LoadInv, Depth > 0,
         top.op \notin PassOps \cup {"childFailed"},
         top.op = "OnChildModuleReady" => top.reason = None
  PROVE  \A i \in Below : stack[i].op \in PassOps => stack[i].mod \in Whole
<1>1. Len(stack) \in Positions /\ top = stack[Len(stack)] /\ Len(stack) \in Nat
  BY TopFacts DEF Types
<1>2. \A i \in Below : i \in Positions /\ i < Len(stack)
  BY <1>1 DEF Below, Positions
<1> QED
  BY <1>1, <1>2 DEF LoadInv, OnlyFailuresAbove

\* A call tells the parents of a module that has just failed.
LEMMA FailureStarts ==
  ASSUME Types, LoadInv, SameGraph, Depth > 0, thrown = None, thrown' = None,
         NEW m \in Modules, NEW op \in {"parseFailed", "notParsed", "childFailed"},
         top.op \in {"resolve", "parseFailed", "OnChildModuleReady"}, top.mod = m,
         Calls(Call(op, m), Call("NotifyParents", m)),
         op = "childFailed" \/ top.op # "OnChildModuleReady",
         UNCHANGED <<notifying, parentsNotified>>,
         Failed' = Failed \cup {m}
  PROVE  LoadInv'
<1> DEFINE n == Len(stack)
<1>1. stack \in Seq(GoodFrames) /\ DataTypes
  BY DEF Types
<1>2. /\ n \in Nat /\ n > 0 /\ n \in Positions /\ top = stack[n]
  BY <1>1, TopFacts
<1>3. Call(op, m) \in GoodFrames /\ Call("NotifyParents", m) \in GoodFrames
  BY FrameTypes DEF LoadOps
<1>4. /\ TopMove /\ Positions' = Below \cup {n, n + 1}
      /\ stack'[n] = Call(op, m) /\ stack'[n + 1] = Call("NotifyParents", m)
  BY <1>1, <1>3, CallsMove
<1>5. m \in Passing' /\ m \in Doomed'
  BY <1>4 DEF Passing, PassOps, Call, Doomed
<1>6. Doomed \subseteq Doomed'
  BY <1>1, <1>4, <1>5, DoomedGrows DEF PassOps
<1>7. Notified'
  BY <1>6, NotifiedStays
<1>8. NotifyingCalled'
  BY <1>4, NotifyingStays
<1>9. Resolved'
  <2>1. Known' = Known
    BY SameGraphFacts
  <2>2. ASSUME NEW x \in wasParsed, NEW i \in Positions, stack[i].op = "resolve",
               stack[i].mod = x
        PROVE  x = m
    <3>1. n = 1 /\ i = n
      BY <1>2, <2>2 DEF LoadInv, Resolving, Positions
    <3> QED
      BY <1>2, <2>2, <3>1
  <2> QED
    BY <1>5, <1>6, <2>1, <2>2 DEF LoadInv, Resolved, SameGraph
<1>10. \A i \in Below : i \in Positions /\ stack'[i] = stack[i] /\ i < n /\ i \in Nat
  BY <1>1, <1>2, <1>4 DEF Below, Positions, TopMove
<1>11. ASSUME NEW i \in Below, stack[i].op \in PassOps, stack[i].mod \notin Whole
       PROVE  op = "childFailed"
  BY <1>2, <1>10, <1>11 DEF LoadInv, OnlyFailuresAbove, PassOps
<1>12. \A i \in Positions' \ Below : i = n \/ i = n + 1
  BY <1>4
<1>13. n \notin Below /\ n + 1 \notin Below
  BY <1>2 DEF Below
<1>14. \A i \in Positions' \ Below :
           /\ stack'[i].op \in LoadOps \ {"ParseSource", "resolve"}
           /\ stack'[i].op # "notifying"
           /\ stack'[i].mod \in Failed'
  BY <1>4, <1>12 DEF Call, LoadOps
<1>15. \A i \in Positions', j \in Positions' \ Below :
           i < j /\ stack'[i].op \in PassOps /\ stack'[i].mod \notin Whole =>
             stack'[j].op \in PassOps \cup {"childFailed"} /\ stack'[j].mod \in Failed'
  <2> TAKE i \in Positions', j \in Positions' \ Below
  <2> HAVE i < j /\ stack'[i].op \in PassOps /\ stack'[i].mod \notin Whole
  <2>1. CASE i \in Below
    BY <1>4, <1>10, <1>11, <1>12, <1>14, <2>1 DEF Call, PassOps
  <2>2. CASE i = n
    BY <1>4, <2>2 DEF Call, PassOps
  <2>3. CASE i = n + 1
    BY <1>2, <1>12, <2>3
  <2> QED
    BY <1>4, <2>1, <2>2, <2>3
<1> HIDE DEF n
<1>16. top.op \in LoadOps /\ top.op \notin PassOps
  BY DEF LoadOps, PassOps
<1> QED
  BY <1>4, <1>5, <1>6, <1>7, <1>8, <1>9, <1>14, <1>15, <1>16, LoadStackStep

\* A call of the load returns.
LEMMA LoadReturns ==
  ASSUME Types, LoadInv, SameGraph, At(top.op), thrown' = None, Return,
         top.op \in LoadOps \ {"ParseSource", "resolve", "OnChildModuleReady"},
         Failed \subseteq Failed', parentsNotified \subseteq parentsNotified',
         top.op \in PassOps => top.mod \in parentsNotified' \cup Passing',
         Notified', NotifyingCalled'
  PROVE  LoadInv'
<1>1. /\ stack \in Seq(GoodFrames) /\ Depth > 0 /\ thrown = None
      /\ top.op \in LoadOps /\ top.op # "OnChildModuleReady"
  BY DEF Types, At
<1>2. TopMove /\ Positions' = Below
  BY <1>1, ReturnMove
<1>3. Doomed \subseteq Doomed'
  BY <1>1, <1>2, DoomedGrows
<1>4. Known' = Known
  BY SameGraphFacts
<1>5. wasParsed \subseteq Known \cup Doomed
  BY LoadTop
<1>6. Resolved'
  BY <1>3, <1>4, <1>5 DEF Resolved, SameGraph
<1> QED
  BY <1>1, <1>2, <1>6, LoadStackStep

LEMMA ParseSourceInv ==
  ASSUME Types, LoadInv, ParseSource
  PROVE  LoadInv' /\ Failed' = Failed /\ Whole \subseteq Whole'
<1> DEFINE m == top.mod
           n == Len(stack)
<1>1. /\ At("ParseSource") /\ world' = world /\ thrown' = None /\ errorObject' = errorObject
      /\ wasParsed \subseteq wasParsed' /\ wasParsed' \subseteq wasParsed \cup {m}
      /\ UNCHANGED <<childrenModuleSet, parentModuleList, notifying, parentsNotified>>
  BY DEF ParseSource, At
<1>2. /\ stack \in Seq(GoodFrames) /\ DataTypes /\ Depth > 0 /\ top.op = "ParseSource"
      /\ m \in Modules /\ n \in Positions /\ top = stack[n] /\ n \in Nat /\ n > 0
  BY <1>1, LoadTop DEF LoadOps
<1>3. n = 1 /\ Positions = {1}
  BY <1>2 DEF LoadInv, Resolving, Positions
<1>4. Call("parseFailed", m) \in GoodFrames /\ Loop("resolve", m, Requests(m)) \in GoodFrames
  BY <1>2, WorldType, ReverseFacts, FrameTypes DEF Requests, LoadOps, DataTypes
<1>5. /\ Len(stack') = 1 /\ Positions' = {1}
      /\ \/ stack'[1] = Call("parseFailed", m) /\ wasParsed' = wasParsed
         \/ stack'[1] = Loop("resolve", m, Requests(m))
  BY <1>2, <1>3, <1>4, BecomesFacts DEF ParseSource, Positions
<1>6. /\ stack'[1].mod = m
      /\ \/ stack'[1].op = "resolve" /\ stack'[1].rest = Requests(m)
         \/ stack'[1].op = "parseFailed" /\ wasParsed' = wasParsed
  BY <1>5 DEF Call, Loop
<1>7. ToSet(Requests(m)) = Imports(m) /\ childrenModuleSet[m] \subseteq Imports(m)
  <2>1. ToSet(Requests(m)) = Imports(m)
    BY <1>2, WorldType, ReverseFacts DEF Requests, Imports, DataTypes
  <2> QED
    BY <1>2, <2>1 DEF LoadInv, Linked, DataTypes
<1>8. \A x : Imports(x)' = Imports(x)
  BY <1>1, SameWorld
<1>9. Failed' = Failed
  BY <1>1 DEF Failed
<1>10. Known \subseteq Known' /\ Whole \subseteq Whole'
  <2>1. Known \subseteq Known'
    BY <1>1, <1>8 DEF Known
  <2> QED
    BY <1>1, <2>1, WholeGrows
<1>11. Passing = {} /\ Passing' = {} /\ Doomed' = Doomed
  <2>1. Passing = {}
    BY <1>2, <1>3 DEF Passing, PassOps
  <2>2. Passing' = {}
    BY <1>5, <1>6 DEF Passing, PassOps
  <2> QED
    BY <1>1, <1>9, <2>1, <2>2 DEF Doomed
<1>12. Homogeneous'
  BY <1>1, <1>5, <1>6 DEF Homogeneous, LoadOps
<1>13. Resolving'
  BY <1>1, <1>5, <1>6, <1>7, <1>8 DEF Resolving
<1>14. Linked'
  BY <1>1, <1>8 DEF LoadInv, Linked
<1>15. Resolved'
  <2>1. ASSUME NEW x \in wasParsed', x # m PROVE x \in Known' \cup Doomed'
    <3>1. \A i \in Positions : stack[i].op # "resolve"
      BY <1>2, <1>3
    <3> QED
      BY <1>1, <1>10, <1>11, <2>1, <3>1 DEF LoadInv, Resolved
  <2>2. ASSUME m \in wasParsed', stack'[1].op = "parseFailed" PROVE m \in Known' \cup Doomed'
    <3>1. \A i \in Positions : stack[i].op # "resolve"
      BY <1>2, <1>3
    <3> QED
      BY <1>6, <1>10, <1>11, <2>2, <3>1 DEF LoadInv, Resolved
  <2> QED
    BY <1>5, <1>6, <2>1, <2>2 DEF Resolved
<1>16. Notified'
  BY <1>1, <1>9, <1>10, <1>11 DEF LoadInv, Notified
<1>17. NotifyingCalled'
  BY <1>1, <1>2, <1>3 DEF LoadInv, NotifyingCalled
<1>18. Notifies' /\ OnlyFailuresAbove'
  BY <1>5, <1>6 DEF Notifies, OnlyFailuresAbove, PassOps
<1> QED
  BY <1>9, <1>10, <1>12, <1>13, <1>14, <1>15, <1>16, <1>17, <1>18 DEF LoadInv

LEMMA ResolveChildInv ==
  ASSUME Types, LoadInv, ResolveChild
  PROVE  LoadInv' /\ Failed' = Failed /\ Whole \subseteq Whole'
<1> DEFINE m == top.mod
           n == Len(stack)
           c == Head(top.rest)
<1>1. /\ At("resolve") /\ world' = world /\ thrown' = None /\ errorObject' = errorObject
      /\ SetParent(c, m) /\ top.rest # <<>>
      /\ UNCHANGED <<wasParsed, notifying, parentsNotified>>
  BY DEF ResolveChild, At
<1>2. /\ stack \in Seq(GoodFrames) /\ DataTypes /\ Depth > 0 /\ top.op = "resolve"
      /\ m \in Modules /\ n \in Positions /\ top = stack[n] /\ n \in Nat /\ n > 0
      /\ top.rest \in Seq(Modules)
  BY <1>1, LoadTop DEF LoadOps
<1>3. n = 1 /\ Positions = {1}
  BY <1>2 DEF LoadInv, Resolving, Positions
<1>4. /\ Onward \in GoodFrames /\ Onward.op = "resolve" /\ Onward.mod = m
      /\ Onward.rest = Tail(top.rest)
  BY <1>1, <1>2, OnwardFacts
<1>5. Len(stack') = 1 /\ Positions' = {1} /\ stack'[1] = Onward
  BY <1>2, <1>3, <1>4, BecomesFacts DEF ResolveChild, Positions
<1>6. c \in Modules /\ ToSet(top.rest) = {c} \cup ToSet(Tail(top.rest))
  BY <1>1, <1>2, HeadTail
<1>7. ToSet(top.rest) \cup childrenModuleSet[m] = Imports(m)
  BY <1>2 DEF LoadInv, Resolving
<1>8. \A x : Imports(x)' = Imports(x)
  BY <1>1, SameWorld
<1>9. /\ childrenModuleSet' = [childrenModuleSet EXCEPT ![m] = @ \cup {c}]
      /\ childrenModuleSet \in [Modules -> SUBSET Modules]
  BY <1>1, <1>2 DEF SetParent, DataTypes
<1>10. \A x \in Modules : ToSet(parentModuleList'[x]) =
          IF x = c THEN ToSet(parentModuleList[c]) \cup {m} ELSE ToSet(parentModuleList[x])
  <2>1. /\ parentModuleList' = [parentModuleList EXCEPT
             ![c] = IF Contains(@, m) THEN @ ELSE Append(@, m)]
        /\ parentModuleList \in [Modules -> Seq(Modules)]
    BY <1>1, <1>2 DEF SetParent, DataTypes
  <2>2. /\ ToSet(Append(parentModuleList[c], m)) = ToSet(parentModuleList[c]) \cup {m}
        /\ Contains(parentModuleList[c], m) <=> m \in ToSet(parentModuleList[c])
    BY <1>2, <1>6, <2>1, AppendFacts
  <2>3. parentModuleList'[c] = IF Contains(parentModuleList[c], m) THEN parentModuleList[c]
                               ELSE Append(parentModuleList[c], m)
    BY <1>6, <2>1
  <2>4. \A x \in Modules : x # c => parentModuleList'[x] = parentModuleList[x]
    BY <2>1
  <2>5. ToSet(parentModuleList'[c]) = ToSet(parentModuleList[c]) \cup {m}
    BY <2>2, <2>3
  <2> QED
    BY <2>4, <2>5
<1>11. Failed' = Failed
  BY <1>1 DEF Failed
<1>12. Known \subseteq Known' /\ Whole \subseteq Whole'
  <2>1. Known \subseteq Known'
    BY <1>1, <1>2, <1>6, <1>7, <1>8, <1>9 DEF Known, DataTypes
  <2> QED
    BY <1>1, <2>1, WholeGrows
<1>13. Passing = {} /\ Passing' = {} /\ Doomed' = Doomed
  <2>1. Passing = {}
    BY <1>2, <1>3 DEF Passing, PassOps
  <2>2. Passing' = {}
    BY <1>4, <1>5 DEF Passing, PassOps
  <2> QED
    BY <1>1, <1>11, <2>1, <2>2 DEF Doomed
<1>14. Homogeneous'
  BY <1>1, <1>4, <1>5 DEF Homogeneous, LoadOps
<1>15. Resolving'
  <2>1. ToSet(Tail(top.rest)) \cup childrenModuleSet'[m] = Imports(m)
    BY <1>2, <1>6, <1>7, <1>9
  <2> QED
    BY <1>4, <1>5, <1>8, <2>1 DEF Resolving
<1>16. Linked'
  <2>1. \A x, p \in Modules : x \in childrenModuleSet'[p] <=>
                                x \in childrenModuleSet[p] \/ (p = m /\ x = c)
    BY <1>9
  <2> QED
    BY <1>6, <1>7, <1>8, <1>10, <2>1 DEF LoadInv, Linked
<1>17. Resolved'
  BY <1>1, <1>2, <1>3, <1>4, <1>5, <1>12, <1>13 DEF LoadInv, Resolved
<1>18. Notified'
  <2>1. ASSUME NEW x \in parentsNotified
        PROVE  x \in Whole' \/ (x \in Failed' /\ \A p \in Modules :
                                  x \in childrenModuleSet'[p] => p \in Doomed')
    <3>1. x = c => x \notin Failed
      BY <1>6 DEF ResolveChild, Failed
    <3>2. x # c => \A p \in Modules : x \in childrenModuleSet'[p] => x \in childrenModuleSet[p]
      BY <1>9
    <3> QED
      BY <1>11, <1>12, <1>13, <3>1, <3>2 DEF LoadInv, Notified
  <2> QED
    BY <1>1, <2>1 DEF Notified
<1>19. NotifyingCalled'
  BY <1>1, <1>2, <1>3 DEF LoadInv, NotifyingCalled
<1>20. Notifies' /\ OnlyFailuresAbove'
  BY <1>4, <1>5 DEF Notifies, OnlyFailuresAbove, PassOps
<1> QED
  BY <1>11, <1>12, <1>14, <1>15, <1>16, <1>17, <1>18, <1>19, <1>20 DEF LoadInv

LEMMA ResolveEndsInv ==
  ASSUME Types, LoadInv, ResolveEnds
  PROVE  LoadInv' /\ Failed' = Failed
<1> DEFINE m == top.mod
           n == Len(stack)
<1>1. At("resolve") /\ UNCHANGED data /\ thrown' = None /\ SameGraph
  BY DEF ResolveEnds, At, SameGraph
<1>2. /\ stack \in Seq(GoodFrames) /\ DataTypes /\ Depth > 0 /\ top.op = "resolve"
      /\ m \in Modules /\ n \in Positions /\ top = stack[n] /\ n \in Nat /\ n > 0
      /\ thrown = None
  BY <1>1, LoadTop DEF LoadOps
<1>3. n = 1 /\ Positions = {1} /\ Below = {}
  BY <1>2 DEF LoadInv, Resolving, Positions, Below
<1>4. Call("parsed", m) \in GoodFrames /\ Call("Prepare", m) \in GoodFrames
  BY <1>2, FrameTypes DEF LoadOps
<1>5. /\ TopMove /\ Positions' = {1, 2}
      /\ stack'[1] = Call("parsed", m) /\ stack'[2] = Call("Prepare", m)
  BY <1>2, <1>3, <1>4, CallsMove DEF ResolveEnds
<1>6. stack'[1].op = "parsed" /\ stack'[2].op = "Prepare"
  BY <1>5 DEF Call
<1>7. Failed' = Failed
  BY <1>1 DEF Failed
<1>8. Doomed \subseteq Doomed'
  BY <1>1, <1>2, <1>5, <1>7, DoomedGrows DEF PassOps
<1>9. Notified'
  BY <1>1, <1>7, <1>8, NotifiedStays
<1>10. NotifyingCalled'
  BY <1>1, <1>2, <1>5, NotifyingStays
<1>11. Resolved'
  <2>1. ToSet(top.rest) = {}
    <3>1. top.rest = <<>> /\ <<>> \in Seq(Modules)
      BY DEF ResolveEnds
    <3> QED
      BY <3>1, ToSetEmpty
  <2>2. m \in wasParsed => m \in Known
    BY <1>2, <2>1 DEF LoadInv, Resolving, Known
  <2>3. Known' = Known
    BY <1>1, SameGraphFacts
  <2> QED
    BY <1>1, <1>2, <1>3, <1>8, <2>2, <2>3 DEF LoadInv, Resolved
<1>12. \A i \in Positions' : stack'[i].op \in LoadOps \ ({"ParseSource", "resolve",
                                               "prepared", "childFailed"} \cup PassOps)
  BY <1>5, <1>6 DEF LoadOps, PassOps
<1>13. top.op \in LoadOps \ (PassOps \cup {"OnChildModuleReady"})
  BY <1>2 DEF LoadOps, PassOps
<1> HIDE DEF m, n
<1>14. LoadInv'
  BY <1>1, <1>2, <1>5, <1>7, <1>9, <1>10, <1>11, <1>12, <1>13, LoadStackStep DEF PassOps
<1> QED
  BY <1>7, <1>14

LEMMA NotifyParentsInv ==
  ASSUME Types, LoadInv, NotifyParentsAsNeeded
  PROVE  LoadInv' /\ Failed' = Failed
<1> DEFINE m == top.mod
           n == Len(stack)
<1>1. /\ At("NotifyParents") /\ thrown' = None /\ SameGraph
      /\ UNCHANGED <<errorObject, parentsNotified>>
  BY DEF NotifyParentsAsNeeded, At, SameGraph
<1>2. /\ stack \in Seq(GoodFrames) /\ DataTypes /\ Depth > 0 /\ top.op = "NotifyParents"
      /\ m \in Modules /\ n \in Positions /\ top = stack[n] /\ n \in Nat /\ n > 0
      /\ thrown = None /\ wasParsed \subseteq Known \cup Doomed
      /\ Positions = Below \cup {n} /\ \A i \in Below : i < n
  BY <1>1, LoadTop DEF LoadOps
<1>3. Failed' = Failed /\ Known' = Known
  BY <1>1, SameGraphFacts DEF Failed
<1>4. CASE m \in notifying
  <2>1. Return /\ notifying' = notifying
    BY <1>4 DEF NotifyParentsAsNeeded
  <2>2. TopMove /\ Positions' = Below
    BY <1>2, <2>1, ReturnMove
  <2>3. PICK i \in Positions : stack[i].op = "notifying" /\ stack[i].mod = m
    BY <1>4 DEF LoadInv, NotifyingCalled
  <2>4. i \in Below
    BY <1>2, <2>3
  <2>5. m \in Passing'
    BY <2>2, <2>3, <2>4 DEF Passing, PassOps, TopMove
  <2>6. Doomed \subseteq Doomed'
    BY <1>1, <1>2, <1>3, <2>2, <2>5, DoomedGrows
  <2>7. Notified'
    BY <1>1, <1>3, <2>6, NotifiedStays
  <2>8. NotifyingCalled'
    BY <1>2, <2>1, <2>2, NotifyingStays
  <2>9. top.op \in LoadOps \ {"ParseSource", "resolve", "OnChildModuleReady"} /\ At(top.op)
    BY <1>1, <1>2 DEF LoadOps
  <2> QED
    BY <1>1, <1>2, <1>3, <2>1, <2>5, <2>7, <2>8, <2>9, LoadReturns
<1>5. CASE m \notin notifying
  <2> DEFINE f == Loop("notifying", m, parentModuleList[m])
  <2>1. f \in GoodFrames
    BY <1>2, FrameTypes DEF LoadOps, DataTypes
  <2>2. Becomes(f) /\ notifying' = notifying \cup {m}
    BY <1>5 DEF NotifyParentsAsNeeded
  <2>3. /\ f.op = "notifying" /\ f.mod = m /\ f.rest = parentModuleList[m]
    BY DEF Loop
  <2> HIDE DEF f
  <2>4. TopMove /\ Positions' = Below \cup {n} /\ stack'[n] = f
    BY <1>2, <2>1, <2>2, BecomesMove
  <2>5. m \in Passing'
    BY <2>3, <2>4 DEF Passing, PassOps
  <2>6. Doomed \subseteq Doomed'
    BY <1>1, <1>2, <1>3, <2>4, <2>5, DoomedGrows
  <2>7. Notified'
    BY <1>1, <1>3, <2>6, NotifiedStays
  <2>8. NotifyingCalled'
    <3>1. ASSUME NEW x \in notifying
          PROVE  \E i \in Positions' : stack'[i].op = "notifying" /\ stack'[i].mod = x
      <4>1. PICK i \in Positions : stack[i].op = "notifying" /\ stack[i].mod = x
        BY DEF LoadInv, NotifyingCalled
      <4>2. i \in Below
        BY <1>2, <4>1
      <4> QED
        BY <2>4, <4>1, <4>2 DEF TopMove
    <3> QED
      BY <2>2, <2>3, <2>4, <3>1 DEF NotifyingCalled
  <2>9. Resolved'
    BY <1>1, <1>2, <1>3, <2>6 DEF Resolved, SameGraph
  <2>10. m \in Whole \cup Failed
    BY <1>2 DEF LoadInv, Notifies, PassOps
  <2>11. \A p \in Modules : m \in childrenModuleSet[p] => p \in ToSet(f.rest)
    BY <1>2, <2>3 DEF LoadInv, Linked
  <2>12. ASSUME NEW i \in Below, stack[i].op \in PassOps, stack[i].mod \notin Whole
         PROVE  m \in Failed
    BY <1>2, <2>12 DEF LoadInv, OnlyFailuresAbove, PassOps
  <2>13. \A i \in Positions' \ Below :
           /\ stack'[i].op \in LoadOps \ {"ParseSource", "resolve"}
           /\ stack'[i].op \in PassOps \cup {"prepared"} => stack'[i].mod \in Whole \cup Failed'
           /\ stack'[i].op = "childFailed" => stack'[i].mod \in Failed'
           /\ stack'[i].op = "notifying" /\ stack'[i].mod \notin Whole =>
                \A p \in Modules : stack'[i].mod \in childrenModuleSet[p] =>
                  p \in Doomed' \cup ToSet(stack'[i].rest)
    BY <1>3, <2>3, <2>4, <2>10, <2>11 DEF LoadOps
  <2>14. \A i \in Positions', j \in Positions' \ Below :
           i < j /\ stack'[i].op \in PassOps /\ stack'[i].mod \notin Whole =>
             stack'[j].op \in PassOps /\ stack'[j].mod \in Failed'
    BY <1>2, <1>3, <2>3, <2>4, <2>12 DEF PassOps, TopMove
  <2>15. top.op \in LoadOps /\ top.op # "OnChildModuleReady"
    BY <1>2 DEF LoadOps
  <2> HIDE DEF m, n
  <2>16. top.mod \in Passing'
    BY <2>5 DEF m
  <2> QED
    BY <1>1, <1>2, <1>3, <2>4, <2>16, <2>7, <2>8, <2>9, <2>13, <2>14, <2>15, LoadStackStep
<1> QED
  BY <1>3, <1>4, <1>5

LEMMA NotifyParentInv ==
  ASSUME Types, LoadInv, NotifyParent
  PROVE  LoadInv' /\ Failed' = Failed
<1> DEFINE m == top.mod
           n == Len(stack)
           g == CallWith("OnChildModuleReady", Head(top.rest), errorObject[m])
<1>1. /\ At("notifying") /\ thrown' = None /\ SameGraph /\ UNCHANGED data
      /\ top.rest # <<>> /\ Calls(Onward, g)
  BY DEF NotifyParent, At, SameGraph
<1>2. /\ stack \in Seq(GoodFrames) /\ DataTypes /\ Depth > 0 /\ top.op = "notifying"
      /\ m \in Modules /\ n \in Positions /\ top = stack[n] /\ n \in Nat /\ n > 0
      /\ thrown = None /\ wasParsed \subseteq Known \cup Doomed /\ top.rest \in Seq(Modules)
      /\ Positions = Below \cup {n} /\ \A i \in Below : i < n
  BY <1>1, LoadTop DEF LoadOps
<1>3. Failed' = Failed /\ Known' = Known
  BY <1>1, SameGraphFacts DEF Failed
<1>4. /\ Onward \in GoodFrames /\ Onward.op = "notifying" /\ Onward.mod = m
      /\ Onward.rest = Tail(top.rest)
  BY <1>1, <1>2, OnwardFacts
<1>5. /\ g \in GoodFrames /\ g.op = "OnChildModuleReady" /\ g.mod = Head(top.rest)
      /\ g.reason = errorObject[m]
  <2>1. Head(top.rest) \in Modules /\ errorObject[m] \in Errors
    BY <1>1, <1>2, HeadTail DEF DataTypes
  <2> QED
    BY <2>1, FrameTypes DEF CallWith, LoadOps
<1> HIDE DEF g
<1>6. /\ TopMove /\ Positions' = Below \cup {n, n + 1}
      /\ stack'[n] = Onward /\ stack'[n + 1] = g
  BY <1>1, <1>2, <1>4, <1>5, CallsMove
<1>7. m \in Passing'
  BY <1>4, <1>6 DEF Passing, PassOps
<1>8. Doomed \subseteq Doomed'
  BY <1>1, <1>2, <1>3, <1>6, <1>7, DoomedGrows
<1>9. Notified'
  BY <1>1, <1>3, <1>8, NotifiedStays
<1>10. NotifyingCalled'
  BY <1>1, <1>2, <1>4, <1>6, NotifyingStays
<1>11. Resolved'
  BY <1>1, <1>2, <1>3, <1>8 DEF Resolved
<1>12. m \in Whole \cup Failed
  BY <1>2 DEF LoadInv, Notifies, PassOps
<1>13. ASSUME m \notin Whole, NEW p \in Modules, m \in childrenModuleSet[p]
       PROVE  p \in Doomed' \cup ToSet(Tail(top.rest)) \/ p = Head(top.rest)
  <2>1. n + 1 \notin Positions
    BY <1>2 DEF Positions
  <2>2. p \in Doomed \cup ToSet(top.rest)
    BY <1>2, <1>13, <2>1 DEF LoadInv, Notifies
  <2> QED
    BY <1>1, <1>2, <1>8, <2>2, HeadTail
<1>14. ASSUME NEW i \in Below, stack[i].op \in PassOps, stack[i].mod \notin Whole
       PROVE  m \in Failed
  BY <1>2, <1>14 DEF LoadInv, OnlyFailuresAbove, PassOps
<1>15. m \in Failed => g.reason # None
  BY <1>5 DEF Failed
<1>16. \A i \in Positions' \ Below : i = n \/ i = n + 1
  BY <1>6
<1>17. n + 1 \in Positions'
  BY <1>6
<1>18. \A i \in Positions' \ Below :
         /\ stack'[i].op \in LoadOps \ {"ParseSource", "resolve", "childFailed"}
         /\ stack'[i].op \in PassOps \cup {"prepared"} => stack'[i].mod \in Whole \cup Failed'
  BY <1>3, <1>4, <1>5, <1>6, <1>12, <1>16 DEF LoadOps, PassOps
<1>19. ASSUME NEW i \in Positions' \ Below, stack'[i].op = "notifying",
              stack'[i].mod \notin Whole,
              NEW p \in Modules, stack'[i].mod \in childrenModuleSet[p]
       PROVE  \/ p \in Doomed' \cup ToSet(stack'[i].rest)
              \/ /\ i + 1 \in Positions'
                 /\ stack'[i + 1].op = "OnChildModuleReady"
                 /\ stack'[i + 1].mod = p /\ stack'[i + 1].reason # None
  <2>1. i = n
    BY <1>5, <1>6, <1>16, <1>19
  <2>2. m \notin Whole /\ m \in childrenModuleSet[p] /\ m \in Failed
    BY <1>4, <1>6, <1>12, <1>19, <2>1
  <2> QED
    BY <1>4, <1>5, <1>6, <1>13, <1>15, <1>17, <2>1, <2>2
<1>20. ASSUME NEW i \in Positions', NEW j \in Positions' \ Below, i < j,
              stack'[i].op \in PassOps, stack'[i].mod \notin Whole
       PROVE  \/ stack'[j].op \in PassOps /\ stack'[j].mod \in Failed'
              \/ stack'[j].op = "OnChildModuleReady" /\ stack'[j].reason # None
  <2>1. m \in Failed
    <3>1. CASE i \in Below
      BY <1>6, <1>14, <1>20, <3>1 DEF TopMove
    <3>2. CASE i = n
      BY <1>4, <1>6, <1>12, <1>20, <3>2
    <3>3. i # n + 1
      BY <1>2, <1>16, <1>20
    <3> QED
      BY <1>6, <3>1, <3>2, <3>3
  <2> QED
    BY <1>3, <1>4, <1>5, <1>6, <1>15, <1>16, <2>1 DEF PassOps
<1>21. top.op \in LoadOps /\ top.op # "OnChildModuleReady"
  BY <1>2 DEF LoadOps
<1>22. top.mod \in Passing'
  BY <1>7
<1> HIDE DEF m, n
<1>23. LoadInv'
  BY <1>1, <1>2, <1>3, <1>6, <1>9, <1>10, <1>11, <1>18, <1>19, <1>20, <1>21, <1>22,
     LoadStackStep
<1> QED
  BY <1>3, <1>23

LEMMA NotifyEndsInv ==
  ASSUME Types, LoadInv, NotifyEnds
  PROVE  LoadInv' /\ Failed' = Failed
<1> DEFINE m == top.mod
           n == Len(stack)
<1>1. /\ At("notifying") /\ thrown' = None /\ SameGraph /\ Return /\ top.rest = <<>>
      /\ errorObject' = errorObject /\ notifying' = notifying \ {m}
      /\ parentsNotified' = parentsNotified \cup {m}
  BY DEF NotifyEnds, At, SameGraph
<1>2. /\ stack \in Seq(GoodFrames) /\ DataTypes /\ Depth > 0 /\ top.op = "notifying"
      /\ m \in Modules /\ n \in Positions /\ top = stack[n] /\ n \in Nat /\ n > 0
      /\ Positions = Below \cup {n} /\ \A i \in Below : i < n
  BY <1>1, LoadTop DEF LoadOps
<1>3. Failed' = Failed /\ Whole' = Whole
  BY <1>1, SameGraphFacts DEF Failed
<1>4. TopMove /\ Positions' = Below
  BY <1>1, <1>2, ReturnMove
<1>5. Doomed \subseteq Doomed'
  BY <1>1, <1>2, <1>3, <1>4, DoomedGrows
<1>6. Notified'
  <2>1. m \in Whole \/ (m \in Failed /\ \A p \in Modules : m \in childrenModuleSet[p] => p \in Doomed)
    <3>1. n + 1 \notin Positions
      BY <1>2 DEF Positions
    <3>2. ToSet(top.rest) = {}
      <4>1. <<>> \in Seq(Modules)
        OBVIOUS
      <4> QED
        BY <1>1, <4>1, ToSetEmpty
    <3>3. m \in Whole \cup Failed
      BY <1>2 DEF LoadInv, Notifies, PassOps
    <3>4. m \notin Whole => \A p \in Modules : m \in childrenModuleSet[p] => p \in Doomed
      BY <1>2, <3>1, <3>2 DEF LoadInv, Notifies
    <3> QED
      BY <3>3, <3>4
  <2> QED
    BY <1>1, <1>3, <1>5, <2>1 DEF LoadInv, Notified, SameGraph
<1>7. NotifyingCalled'
  <2> SUFFICES ASSUME NEW x \in notifying, x # m
               PROVE  \E i \in Positions' : stack'[i].op = "notifying" /\ stack'[i].mod = x
    BY <1>1 DEF NotifyingCalled
  <2>1. PICK i \in Positions : stack[i].op = "notifying" /\ stack[i].mod = x
    BY DEF LoadInv, NotifyingCalled
  <2>2. i \in Below
    BY <1>2, <2>1
  <2> QED
    BY <1>4, <2>1, <2>2 DEF TopMove
<1>8. top.op \in LoadOps \ {"ParseSource", "resolve", "OnChildModuleReady"} /\ At(top.op)
  BY <1>1, <1>2 DEF LoadOps
<1>9. top.mod \in parentsNotified' /\ parentsNotified \subseteq parentsNotified'
  BY <1>1
<1>10. LoadInv'
  BY <1>1, <1>3, <1>6, <1>7, <1>8, <1>9, LoadReturns
<1> QED
  BY <1>3, <1>10

\* Calls that return and leave the notifications alone.
LEMMA PlainReturns ==
  ASSUME Types, LoadInv, SameGraph, NEW op \in LoadOps, At(op), thrown' = None, Return,
         op \notin {"ParseSource", "resolve", "OnChildModuleReady"} \cup PassOps,
         Failed \subseteq Failed', UNCHANGED <<notifying, parentsNotified>>
  PROVE  LoadInv'
<1>1. stack \in Seq(GoodFrames) /\ Depth > 0 /\ top.op = op
  BY LoadTop
<1>2. TopMove
  BY <1>1, ReturnMove
<1>3. Doomed \subseteq Doomed'
  BY <1>1, <1>2, DoomedGrows
<1>4. Notified'
  BY <1>3, NotifiedStays
<1>5. NotifyingCalled'
  BY <1>1, <1>2, NotifyingStays DEF PassOps
<1> QED
  BY <1>1, <1>4, <1>5, LoadReturns

LEMMA OnChildInv ==
  ASSUME Types, LoadInv, OnChildModuleReady
  PROVE  LoadInv' /\ Failed \subseteq Failed'
<1> DEFINE m == top.mod
           n == Len(stack)
<1>1. /\ At("OnChildModuleReady") /\ thrown' = None /\ SameGraph
      /\ UNCHANGED <<notifying, parentsNotified>>
  BY DEF OnChildModuleReady, At, SameGraph
<1>2. /\ stack \in Seq(GoodFrames) /\ DataTypes /\ Depth > 0 /\ top.op = "OnChildModuleReady"
      /\ m \in Modules /\ n \in Positions /\ top = stack[n] /\ n \in Nat /\ n > 0
      /\ top.reason \in Errors /\ thrown = None /\ wasParsed \subseteq Known \cup Doomed
      /\ Positions = Below \cup {n} /\ \A i \in Below : i < n
  BY <1>1, LoadTop DEF LoadOps
<1>3. CASE top.reason # None
  <2>1. SetErrorIfNone(m, top.reason) /\ Calls(Call("childFailed", m), Call("NotifyParents", m))
    BY <1>3 DEF OnChildModuleReady
  <2>2. top.reason \in Modules
    BY <1>2, <1>3 DEF Errors
  <2>3. Failed' = Failed \cup {m}
    BY <1>2, <2>1, <2>2, ErrorSet
  <2> HIDE DEF n
  <2>4. LoadInv'
    BY <1>1, <1>2, <2>1, <2>3, FailureStarts
  <2> QED
    BY <2>3, <2>4
<1>4. CASE top.reason = None
  <2> DEFINE f == Call("Prepare", m)
  <2>1. Becomes(f) /\ errorObject' = errorObject
    BY <1>4 DEF OnChildModuleReady
  <2>2. f \in GoodFrames /\ f.op = "Prepare"
    BY <1>2, FrameTypes DEF Call, LoadOps
  <2> HIDE DEF f
  <2>3. TopMove /\ Positions' = Below \cup {n} /\ stack'[n] = f
    BY <1>2, <2>1, <2>2, BecomesMove
  <2>4. Failed' = Failed /\ Known' = Known
    BY <1>1, <2>1, SameGraphFacts DEF Failed
  <2>5. Doomed \subseteq Doomed'
    BY <1>1, <1>2, <2>3, <2>4, DoomedGrows DEF PassOps
  <2>6. Notified'
    BY <1>1, <2>4, <2>5, NotifiedStays
  <2>7. NotifyingCalled'
    BY <1>1, <1>2, <2>3, NotifyingStays
  <2>8. Resolved'
    BY <1>1, <1>2, <2>4, <2>5 DEF Resolved, SameGraph
  <2>9. \A i \in Below : stack[i].op \in PassOps => stack[i].mod \in Whole
    BY <1>2, <1>4, NoFailureBelow DEF PassOps
  <2>10. \A i \in Positions' \ Below :
           stack'[i].op \in LoadOps \ ({"ParseSource", "resolve", "prepared", "childFailed"}
                                    \cup PassOps)
    BY <2>2, <2>3 DEF LoadOps, PassOps
  <2>11. \A i \in Positions' : stack'[i].op \in PassOps => stack'[i].mod \in Whole
    BY <2>2, <2>3, <2>9 DEF TopMove, PassOps
  <2>12. top.op \in LoadOps /\ top.op \notin PassOps
    BY <1>2 DEF LoadOps, PassOps
  <2> HIDE DEF m, n
  <2>13. LoadInv'
    BY <1>1, <1>2, <1>4, <2>3, <2>4, <2>6, <2>7, <2>8, <2>10, <2>11, <2>12, LoadStackStep
    DEF PassOps
  <2> QED
    BY <2>4, <2>13
<1> QED
  BY <1>3, <1>4

LEMMA PrepareInv ==
  ASSUME Types, LoadInv, Prepare
  PROVE  LoadInv' /\ Failed' = Failed
<1> DEFINE m == top.mod
           n == Len(stack)
<1>1. At("Prepare") /\ thrown' = None /\ SameGraph /\ UNCHANGED data
  BY DEF Prepare, At, SameGraph
<1>2. /\ stack \in Seq(GoodFrames) /\ DataTypes /\ Depth > 0 /\ top.op = "Prepare"
      /\ m \in Modules /\ n \in Positions /\ top = stack[n] /\ n \in Nat /\ n > 0
      /\ thrown = None /\ wasParsed \subseteq Known \cup Doomed
      /\ Positions = Below \cup {n} /\ \A i \in Below : i < n
  BY <1>1, LoadTop DEF LoadOps
<1>3. Failed' = Failed /\ Known' = Known
  BY <1>1, SameGraphFacts DEF Failed
<1>4. CASE ~ConfirmChildrenParsed(m)
  BY <1>1, <1>3, <1>4, PlainReturns DEF Prepare, LoadOps, PassOps
<1>5. CASE ConfirmChildrenParsed(m)
  <2> DEFINE f == Call("prepared", m)
             g == Call("NotifyParents", m)
  <2>1. Calls(f, g)
    BY <1>5 DEF Prepare
  <2>2. /\ f \in GoodFrames /\ f.op = "prepared" /\ f.mod = m
        /\ g \in GoodFrames /\ g.op = "NotifyParents" /\ g.mod = m
    BY <1>2, FrameTypes DEF Call, LoadOps
  <2> HIDE DEF f, g
  <2>3. TopMove /\ Positions' = Below \cup {n, n + 1} /\ stack'[n] = f /\ stack'[n + 1] = g
    BY <1>2, <2>1, <2>2, CallsMove
  <2>4. m \in Whole \cup Failed
    BY <1>1, <1>5, ConfirmedWhole
  <2>5. Doomed \subseteq Doomed'
    BY <1>1, <1>2, <1>3, <2>3, DoomedGrows DEF PassOps
  <2>6. Notified'
    BY <1>1, <1>3, <2>5, NotifiedStays
  <2>7. NotifyingCalled'
    BY <1>1, <1>2, <2>3, NotifyingStays
  <2>8. Resolved'
    BY <1>1, <1>2, <1>3, <2>5 DEF Resolved
  <2>9. \A i \in Below : stack[i].op \in PassOps => stack[i].mod \in Whole
    BY <1>2, NoFailureBelow DEF PassOps
  <2>10. \A i \in Positions' \ Below :
           /\ stack'[i].op \in LoadOps \ {"ParseSource", "resolve", "notifying", "childFailed"}
           /\ stack'[i].mod \in Whole \cup Failed'
    BY <1>3, <2>2, <2>3, <2>4 DEF LoadOps
  <2>11. ASSUME NEW i \in Positions', NEW j \in Positions' \ Below, i < j,
                stack'[i].op \in PassOps
         PROVE  stack'[i].mod \in Whole
    <3>1. CASE i \in Below
      BY <2>3, <2>9, <2>11, <3>1 DEF TopMove
    <3>2. i # n
      BY <2>2, <2>3, <2>11 DEF PassOps
    <3>3. i # n + 1
      BY <1>2, <2>3, <2>11
    <3> QED
      BY <2>3, <3>1, <3>2, <3>3
  <2>12. top.op \in LoadOps /\ top.op \notin PassOps /\ top.op # "OnChildModuleReady"
    BY <1>2 DEF LoadOps, PassOps
  <2> HIDE DEF m, n
  <2> QED
    BY <1>1, <1>2, <1>3, <2>3, <2>6, <2>7, <2>8, <2>10, <2>11, <2>12, LoadStackStep
<1> QED
  BY <1>3, <1>4, <1>5

\* Every step of a load keeps the invariant, and forgets no failure.
LEMMA LoadStepInv ==
  ASSUME Types, LoadInv, LoadStep
  PROVE  LoadInv' /\ Failed \subseteq Failed' /\ Whole \subseteq Whole'
<1>1. CASE ParseSource \/ ResolveChild
  BY <1>1, ParseSourceInv, ResolveChildInv
<1>2. CASE ResolveFails
  <2> DEFINE m == top.mod
             c == Head(top.rest)
  <2>1. /\ At("resolve") /\ thrown' = None /\ SameGraph /\ top.rest # <<>>
        /\ Calls(Call("parseFailed", m), Call("NotifyParents", m))
        /\ UNCHANGED <<notifying, parentsNotified>>
    BY <1>2 DEF ResolveFails, At, SameGraph
  <2>2. /\ DataTypes /\ m \in Modules /\ Depth > 0 /\ top.op = "resolve"
        /\ top.rest \in Seq(Modules) /\ thrown = None
    BY <2>1, LoadTop DEF LoadOps
  <2>3. Failed' = Failed \cup {m}
    <3>1. errorObject[c] \in Errors
      BY <2>1, <2>2, HeadTail DEF DataTypes
    <3>2. errorObject[c] # None => errorObject[c] \in Modules
      BY <3>1 DEF Errors
    <3> QED
      BY <1>2, <2>2, <3>2, ErrorSet DEF ResolveFails
  <2>4. LoadInv'
    BY <2>1, <2>2, <2>3, FailureStarts
  <2> QED
    BY <2>1, <2>3, <2>4, SameGraphFacts
<1>3. CASE ResolveEnds \/ NotifyParentsAsNeeded \/ NotifyParent \/ NotifyEnds \/ Prepare
           \/ OnChildModuleReady
  <2>1. SameGraph
    BY <1>3 DEF ResolveEnds, NotifyParentsAsNeeded, NotifyParent, NotifyEnds, Prepare,
                OnChildModuleReady, SameGraph
  <2> QED
    BY <1>3, <2>1, ResolveEndsInv, NotifyParentsInv, NotifyParentInv, NotifyEndsInv,
       PrepareInv, OnChildInv, SameGraphFacts
<1>4. CASE ParseFailed
  <2> DEFINE m == top.mod
  <2>1. /\ At("parseFailed") /\ thrown' = None /\ SameGraph
        /\ Calls(Call("notParsed", m), Call("NotifyParents", m))
        /\ UNCHANGED <<notifying, parentsNotified>> /\ SetErrorIfNone(m, m)
    BY <1>4 DEF ParseFailed, At, SameGraph
  <2>2. /\ DataTypes /\ m \in Modules /\ Depth > 0 /\ top.op = "parseFailed" /\ thrown = None
    BY <2>1, LoadTop DEF LoadOps
  <2>3. Failed' = Failed \cup {m}
    BY <2>1, <2>2, ErrorSet
  <2>4. LoadInv'
    BY <2>1, <2>2, <2>3, FailureStarts
  <2> QED
    BY <2>1, <2>3, <2>4, SameGraphFacts
<1>5. CASE ParseReturns
  <2>1. /\ At("parsed") \/ At("notParsed")
        /\ thrown' = None /\ SameGraph /\ Return
        /\ UNCHANGED <<notifying, parentsNotified, errorObject>>
    BY <1>5 DEF ParseReturns, At, SameGraph
  <2>2. Failed' = Failed
    BY <2>1 DEF Failed
  <2>3. LoadInv'
    BY <2>1, <2>2, PlainReturns DEF LoadOps, PassOps
  <2> QED
    BY <2>1, <2>2, <2>3, SameGraphFacts
<1>6. CASE ChildFailed
  <2>1. /\ At("childFailed") /\ thrown' = None /\ SameGraph /\ Return
        /\ UNCHANGED <<notifying, parentsNotified, errorObject>>
    BY <1>6 DEF ChildFailed, At, SameGraph
  <2>2. Failed' = Failed
    BY <2>1 DEF Failed
  <2>3. LoadInv'
    BY <2>1, <2>2, PlainReturns DEF LoadOps, PassOps
  <2> QED
    BY <2>1, <2>2, <2>3, SameGraphFacts
<1>7. CASE Prepared
  <2>1. /\ At("prepared") /\ thrown' = None /\ SameGraph /\ Return
        /\ UNCHANGED <<notifying, parentsNotified>>
    BY <1>7 DEF Prepared, At, SameGraph
  <2>2. DataTypes /\ top.mod \in Modules
    BY <2>1, LoadTop DEF LoadOps
  <2>3. Failed \subseteq Failed'
    BY <1>7, <2>2, LinkErrors DEF Prepared, Failed
  <2>4. LoadInv'
    BY <2>1, <2>3, PlainReturns DEF LoadOps, PassOps
  <2> QED
    BY <2>1, <2>3, <2>4, SameGraphFacts
<1> QED
  BY <1>1, <1>2, <1>3, <1>4, <1>5, <1>6, <1>7 DEF LoadStep

-----------------------------------------------------------------------------
(* The other steps keep the invariant of loading too.                      *)

NoLoad == \A i \in Positions : stack[i].op \notin LoadOps

LEMMA OutsideLoad ==
  ASSUME LoadInv, SameGraph, Failed \subseteq Failed', NoLoad, NoLoad',
         UNCHANGED <<notifying, parentsNotified>>
  PROVE  LoadInv'
<1>1. PassOps \cup {"ParseSource", "resolve", "prepared", "OnChildModuleReady", "childFailed"}
        \subseteq LoadOps
  BY DEF PassOps, LoadOps
<1>2. Known' = Known /\ Whole' = Whole /\ Linked'
  BY SameGraphFacts DEF LoadInv
<1>3. Passing = {} /\ Passing' = {}
  BY <1>1 DEF NoLoad, Passing
<1>4. Doomed \subseteq Doomed'
  BY <1>3 DEF Doomed
<1>5. Homogeneous'
  BY DEF Homogeneous, NoLoad
<1>6. Resolving' /\ Notifies' /\ OnlyFailuresAbove'
  <2>1. \A i \in Positions' : stack'[i].op \notin PassOps \cup {"ParseSource", "resolve",
                                                "prepared", "notifying", "childFailed"}
    BY <1>1 DEF NoLoad, PassOps
  <2> QED
    BY <2>1 DEF Resolving, Notifies, OnlyFailuresAbove
<1>7. Resolved'
  <2>1. wasParsed \subseteq Known \cup Doomed
    BY <1>1 DEF NoLoad, LoadInv, Resolved
  <2> QED
    BY <1>2, <1>4, <2>1 DEF Resolved, SameGraph
<1>8. Notified'
  BY <1>4, NotifiedStays
<1>9. NotifyingCalled'
  <2>1. notifying = {}
    BY <1>1 DEF LoadInv, NotifyingCalled, NoLoad, PassOps
  <2> QED
    BY <2>1 DEF NotifyingCalled
<1> QED
  BY <1>2, <1>5, <1>6, <1>7, <1>8, <1>9 DEF LoadInv

LEMMA OpsApart == LoadOps \cap OtherOps = {}
BY DEF LoadOps, OtherOps, EvaluateOps, PrepassOps, OwnOps, WaitedOps, RejectOps

\* A stack without calls of a load stays one.
LEMMA NoLoadMove ==
  ASSUME stack \in Seq(GoodFrames), NoLoad, StackMove(OtherFrames)
  PROVE  NoLoad'
<1>1. \A f \in OtherFrames : f \in GoodFrames /\ f.op \notin LoadOps
  BY OpsApart DEF OtherFrames
<1>2. CASE UNCHANGED stack
  BY <1>2 DEF NoLoad, Positions
<1>3. ASSUME NEW f \in OtherFrames, Begins(f) PROVE NoLoad'
  BY <1>1, <1>3, BeginsFacts DEF NoLoad, Positions
<1>4. CASE Depth > 0 /\ Return
  <2>1. TopMove /\ Positions' = Below /\ Below \subseteq Positions
    BY <1>4, ReturnMove, TopMoveFacts
  <2> QED
    BY <2>1 DEF NoLoad, TopMove
<1>5. ASSUME NEW f \in OtherFrames, Depth > 0, Becomes(f) PROVE NoLoad'
  <2>1. /\ TopMove /\ Positions' = Below \cup {Len(stack)} /\ stack'[Len(stack)] = f
        /\ Below \subseteq Positions
    BY <1>1, <1>5, BecomesMove, TopMoveFacts
  <2> QED
    BY <1>1, <2>1 DEF NoLoad, TopMove
<1>6. ASSUME NEW f \in OtherFrames, NEW g \in OtherFrames, Depth > 0, Calls(f, g)
      PROVE  NoLoad'
  <2>1. /\ TopMove /\ Positions' = Below \cup {Len(stack), Len(stack) + 1}
        /\ stack'[Len(stack)] = f /\ stack'[Len(stack) + 1] = g
        /\ Below \subseteq Positions
    BY <1>1, <1>6, CallsMove, TopMoveFacts
  <2> QED
    BY <1>1, <2>1 DEF NoLoad, TopMove
<1> QED
  BY <1>2, <1>3, <1>4, <1>5, <1>6 DEF StackMove

\* Evaluation goes on with no call of a load on the stack.
LEMMA NoLoadOnTop ==
  ASSUME Types, LoadInv, Depth > 0, thrown # None \/ top.op \notin LoadOps
  PROVE  NoLoad
<1>1. Len(stack) \in Positions /\ top = stack[Len(stack)]
  BY TopFacts DEF Types
<1> QED
  BY <1>1 DEF LoadInv, Homogeneous, NoLoad

LEMMA EvaluateNoLoad ==
  ASSUME Types, LoadInv, EvaluateStep \/ FinishStep
  PROVE  NoLoad
<1>1. EvaluateStep => Depth > 0 /\ (thrown # None \/ top.op \notin LoadOps)
  BY DEF EvaluateStep, ModuleEvaluationReturns, ModuleEvaluationPrepasses, PrepassRefuses,
         SetEvaluating, EvaluateChild, ChildEvaluated, ChildrenEvaluated,
         CatchInEvaluation, PrepassFails, PrepassBegins, PrepassChild, PrepassRethrows,
         PrepassNext, PrepassEnds, At, LoadOps
<1>2. FinishStep => Depth > 0 /\ (thrown # None \/ top.op \notin LoadOps)
  BY DEF FinishStep, FinishNothing, FinishCrashes, FinishAsync, FinishSync, FinishThrows,
         TellParent, ParentsTold, Complete, FulfilledParent, NothingAwaited,
         CatchInWaited, FulfilledEnds, PropogateRejection, RejectParent, RejectEnds,
         Returns, Unwind, AtFinish, At, LoadOps
<1> QED
  BY <1>1, <1>2, NoLoadOnTop

\* Evaluation leaves the graph and its links alone, and forgets no error.
LEMMA EvaluateLeaves ==
  ASSUME Types, EvaluateStep \/ FinishStep
  PROVE  SameGraph /\ UNCHANGED loadState /\ Failed \subseteq Failed'
<1>1. UNCHANGED <<world, loadState>>
  BY DEF EvaluateStep, ModuleEvaluationReturns, ModuleEvaluationPrepasses, PrepassRefuses,
         SetEvaluating, EvaluateChild, ChildEvaluated, ChildrenEvaluated,
         CatchInEvaluation, PrepassFails, PrepassBegins, PrepassChild, PrepassRethrows,
         PrepassNext, PrepassEnds,
         FinishStep, FinishNothing, FinishCrashes, FinishAsync, FinishSync, FinishThrows,
         TellParent, ParentsTold, Complete, FulfilledParent, NothingAwaited,
         CatchInWaited, FulfilledEnds, PropogateRejection, RejectParent, RejectEnds,
         Returns, Unwind
<1>2. \/ errorObject' = errorObject
      \/ CatchInEvaluation \/ PropogateRejection
  BY DEF EvaluateStep, ModuleEvaluationReturns, ModuleEvaluationPrepasses, PrepassRefuses,
         SetEvaluating, EvaluateChild, ChildEvaluated, ChildrenEvaluated,
         PrepassFails, PrepassBegins, PrepassChild, PrepassRethrows,
         PrepassNext, PrepassEnds,
         FinishStep, FinishNothing, FinishCrashes, FinishAsync, FinishSync, FinishThrows,
         TellParent, ParentsTold, Complete, FulfilledParent, NothingAwaited,
         CatchInWaited, FulfilledEnds, RejectParent, RejectEnds, Returns, Unwind
<1>3. DataTypes /\ stack \in Seq(GoodFrames) /\ thrown \in Errors
  BY DEF Types
<1>4. CASE errorObject' = errorObject
  BY <1>1, <1>4 DEF SameGraph, Failed
<1>5. CASE CatchInEvaluation
  <2>1. SetError(top.mod, thrown) /\ top.mod \in Modules /\ thrown \in Modules
    BY <1>3, <1>5, TopFacts DEF CatchInEvaluation, Errors
  <2> QED
    BY <1>1, <1>3, <2>1, ErrorSet DEF SameGraph
<1>6. CASE PropogateRejection
  <2>1. /\ top.mod \in Modules /\ top.reason \in Modules
        /\ SetError(top.mod, top.reason) \/ errorObject' = errorObject
    BY <1>3, <1>6, TopFacts DEF PropogateRejection, At, Errors, RejectOps
  <2>2. CASE errorObject' = errorObject
    BY <1>4, <2>2
  <2>3. CASE SetError(top.mod, top.reason)
    BY <1>1, <1>3, <2>1, <2>3, ErrorSet DEF SameGraph
  <2> QED
    BY <2>1, <2>2, <2>3
<1> QED
  BY <1>2, <1>4, <1>5, <1>6

-----------------------------------------------------------------------------
(* Linking.                                                                *)

\* What is linked stays so; a module that is announced without being linked
\* has failed.
LEMMA LinkStays ==
  ASSUME LinkInv, world' = world, Whole \subseteq Whole', Failed \subseteq Failed',
         UNCHANGED <<wasDeclarationInitialized, rootFunction>>,
         toEvaluate' \subseteq toEvaluate \cup Failed'
  PROVE  LinkInv'
<1>1. \A m : Imports(m)' = Imports(m)
  BY SameWorld
<1> QED
  BY <1>1 DEF LinkInv, Initialized, Compiled, Ready

\* Linking a module that is whole links everything that it leads to.
LEMMA LinkWhole ==
  ASSUME Types, LoadInv, LinkInv, SameGraph, NEW m \in Whole \cup Failed,
         m \in Modules, m \notin wasDeclarationInitialized, Link(m),
         toEvaluate' \subseteq toEvaluate \cup {m}
  PROVE  LinkInv'
<1> DEFINE fresh == [x \in Modules |->
             {c \in childrenModuleSet[x] \ wasDeclarationInitialized : errorObject[c] = None}]
           raw == [x \in Modules |-> childrenModuleSet[x] \ rootFunction]
           U == Closure({m}, fresh)
           R == Closure({m}, raw)
<1>1. /\ world \in Worlds /\ world' = world /\ DataTypes
      /\ Whole' = Whole /\ \A x : Imports(x)' = Imports(x)
  BY SameGraphFacts, SameWorld DEF Types, DataTypes, SameGraph
<1>2. Failed \subseteq Failed'
  BY <1>1, LinkErrors
<1>3. CASE m \in Failed
  <2>1. UNCHANGED <<wasDeclarationInitialized, rootFunction>>
    BY <1>3 DEF Link, Failed
  <2>2. toEvaluate' \subseteq toEvaluate \cup Failed'
    BY <1>2, <1>3
  <2> QED
    BY <1>1, <1>2, <2>1, <2>2, LinkStays
<1>4. CASE m \notin Failed
  <2>1. m \in Whole /\ Cone[m] \subseteq Whole /\ Cone[m] \subseteq Known
    BY <1>1, <1>4, WholeMember
  <2>2. \A x \in Cone[m] : x \in Modules /\ childrenModuleSet[x] = Imports(x)
                           /\ childrenModuleSet[x] \subseteq Cone[m]
    BY <1>1, <2>1, ConeFacts DEF Known
  <2>3. U \subseteq Cone[m] /\ R \subseteq Cone[m] /\ m \in U /\ m \in R
    <3>1. /\ {m} \subseteq Cone[m] /\ Cone[m] \in SUBSET Modules
          /\ \A x \in Cone[m] : fresh[x] \subseteq Cone[m]
          /\ \A x \in Cone[m] : raw[x] \subseteq Cone[m]
      BY <1>1, <2>2, ConeFacts
    <3> HIDE DEF fresh, raw
    <3>2. U \subseteq Cone[m] /\ R \subseteq Cone[m]
      BY <3>1, ClosureLeast
    <3>3. {m} \subseteq U /\ {m} \subseteq R
      BY ClosureFrom
    <3> QED
      BY <3>2, <3>3
  <2>4. /\ wasDeclarationInitialized' = wasDeclarationInitialized \cup U
        /\ errorObject' = [x \in Modules |-> IF x \in U \cap world.unlinkable
                                             THEN x ELSE errorObject[x]]
        /\ rootFunction' = IF m \in world.unlinkable THEN rootFunction
                           ELSE rootFunction \cup R
    BY <1>4 DEF Link, Failed, Uninitialized, Uncompiled
  <2>5. ASSUME NEW x \in U, NEW c \in Imports(x)
        PROVE  c \in wasDeclarationInitialized' \cup Failed'
    <3>1. x \in Modules /\ c \in childrenModuleSet[x] /\ c \in Modules
      BY <1>1, <2>2, <2>3, <2>5, WorldType
    <3>2. fresh[x] \in SUBSET Modules
      BY <1>1, <3>1 DEF DataTypes
    <3>3. c \in Failed \/ c \in wasDeclarationInitialized \/ c \in fresh[x]
      BY <3>1 DEF Failed
    <3> HIDE DEF fresh
    <3>4. fresh[x] \subseteq U
      BY <3>2, ClosureStep
    <3> QED
      BY <1>2, <2>4, <3>3, <3>4
  <2>6. ASSUME NEW x \in R, NEW c \in Imports(x) PROVE c \in rootFunction \cup R
    <3>1. x \in Modules /\ c \in childrenModuleSet[x]
      BY <2>2, <2>3, <2>6
    <3>2. raw[x] \in SUBSET Modules
      BY <1>1, <3>1 DEF DataTypes
    <3>3. c \in rootFunction \/ c \in raw[x]
      BY <3>1
    <3> HIDE DEF raw
    <3>4. raw[x] \subseteq R
      BY <3>2, ClosureStep
    <3> QED
      BY <3>3, <3>4
  <2> HIDE DEF U, R
  <2>7. Initialized'
    BY <1>1, <1>2, <2>1, <2>3, <2>4, <2>5 DEF LinkInv, Initialized
  <2>8. Compiled'
    BY <1>1, <2>4, <2>6 DEF LinkInv, Compiled
  <2>9. Ready'
    <3>1. m \in world.unlinkable => m \in Failed'
      BY <2>3, <2>4, ModulesAssumption DEF Failed
    <3>2. m \notin world.unlinkable => m \in Whole \cap wasDeclarationInitialized' \cap rootFunction'
      BY <2>1, <2>3, <2>4
    <3>3. rootFunction \subseteq rootFunction'
      BY <2>4
    <3> QED
      BY <1>1, <1>2, <2>4, <3>1, <3>2, <3>3 DEF LinkInv, Ready
  <2> QED
    BY <2>7, <2>8, <2>9 DEF LinkInv
<1> QED
  BY <1>3, <1>4

LEMMA LoadStepLinks ==
  ASSUME Types, LoadInv, LinkInv, LoadStep
  PROVE  LinkInv'
<1>1. /\ Failed \subseteq Failed' /\ Whole \subseteq Whole' /\ LoadInv'
  BY LoadStepInv
<1>2. world' = world
  BY WorldStep DEF Next
<1>3. CASE Prepared
  <2> DEFINE m == top.mod
  <2>1. At("prepared") /\ SameGraph
    BY <1>3 DEF Prepared, SameGraph
  <2>2. m \in Modules /\ m \in Whole \cup Failed
    <3>1. m \in Modules /\ Len(stack) \in Positions /\ top = stack[Len(stack)] /\ top.op = "prepared"
      BY <2>1, LoadTop DEF LoadOps
    <3> QED
      BY <3>1 DEF LoadInv, Notifies
  <2>3. CASE m \in wasDeclarationInitialized \/ m \notin isRootModule \cup promise
    BY <1>1, <1>2, <1>3, <2>3, LinkStays DEF Prepared
  <2>4. CASE ~(m \in wasDeclarationInitialized \/ m \notin isRootModule \cup promise)
    <3>1. Link(m) /\ toEvaluate' \subseteq toEvaluate \cup {m}
      BY <1>3, <2>4 DEF Prepared, AnnounceFlags
    <3> QED
      BY <2>1, <2>2, <2>4, <3>1, LinkWhole
  <2> QED
    BY <2>3, <2>4
<1>4. CASE ParseFailed \/ ChildFailed
  <2> DEFINE m == top.mod
  <2>1. UNCHANGED <<wasDeclarationInitialized, rootFunction>>
    BY <1>4 DEF ParseFailed, ChildFailed
  <2>2. toEvaluate' \subseteq toEvaluate \cup {m}
    BY <1>4 DEF ParseFailed, ChildFailed, FailLoad, AnnounceFlags
  <2>3. m \in Failed'
    <3>1. CASE ParseFailed
      <4>1. At("parseFailed") /\ SetErrorIfNone(m, m)
        BY <3>1 DEF ParseFailed
      <4>2. m \in Modules /\ DataTypes
        BY <4>1, LoadTop DEF LoadOps
      <4> QED
        BY <4>1, <4>2, ErrorSet
    <3>2. CASE ChildFailed
      <4>1. At("childFailed")
        BY <3>2 DEF ChildFailed
      <4>2. m \in Modules /\ Len(stack) \in Positions /\ top = stack[Len(stack)] /\ top.op = "childFailed"
        BY <4>1, LoadTop DEF LoadOps
      <4> QED
        BY <1>1, <4>2 DEF LoadInv, Notifies
    <3> QED
      BY <1>4, <3>1, <3>2
  <2> QED
    BY <1>1, <1>2, <2>1, <2>2, <2>3, LinkStays
<1>5. CASE ~(Prepared \/ ParseFailed \/ ChildFailed)
  <2>1. UNCHANGED <<wasDeclarationInitialized, rootFunction, toEvaluate>>
    BY <1>5 DEF LoadStep, ParseSource, ResolveChild, ResolveFails, ResolveEnds,
         ParseReturns, NotifyParentsAsNeeded, NotifyParent, NotifyEnds, OnChildModuleReady,
         Prepare
  <2> QED
    BY <1>1, <1>2, <2>1, LinkStays
<1> QED
  BY <1>3, <1>4, <1>5

-----------------------------------------------------------------------------
(* Every exception is caught.                                              *)

\* The calls that throw, or that call one that may.
ThrowOps == PrepassOps \cup {"FinishOwn", "FinishWaited", "telling"}

Caught ==
  /\ \A i \in Positions : stack[i].op \in ThrowOps =>
       \E j \in Positions : j < i /\ stack[j].op \in Catches
  /\ thrown # None => \E i \in Positions : stack[i].op \in Catches

LEMMA CaughtMove ==
  ASSUME stack \in Seq(GoodFrames), Caught, Depth > 0, TopMove,
         \A i \in Positions' \ Below : stack'[i].op \in ThrowOps =>
           top.op \in ThrowOps \/ (i = Len(stack) + 1 /\ stack'[Len(stack)].op \in Catches),
         \/ thrown' = None \/ top.op \in ThrowOps
         \/ thrown # None /\ top.op \notin Catches
  PROVE  Caught'
<1>1. /\ Len(stack) \in Positions /\ top = stack[Len(stack)] /\ Len(stack) \in Nat
      /\ Positions = Below \cup {Len(stack)} /\ Below \subseteq Positions'
      /\ \A i \in Below : stack'[i] = stack[i] /\ i < Len(stack) /\ i \in Nat
  BY TopFacts, TopMoveFacts DEF Below
<1>2. \A i \in Positions' \ Below : i = Len(stack) \/ i = Len(stack) + 1
  BY TopMoveFacts
<1>3. top.op \in ThrowOps => \E j \in Below : stack[j].op \in Catches
  BY <1>1 DEF Caught
<1>4. ASSUME NEW i \in Positions', stack'[i].op \in ThrowOps
      PROVE  \E j \in Positions' : j < i /\ stack'[j].op \in Catches
  <2>1. CASE i \in Below
    <3>1. PICK j \in Positions : j < i /\ stack[j].op \in Catches
      BY <1>1, <1>4, <2>1 DEF Caught
    <3>2. j \in Below
      BY <1>1, <2>1, <3>1
    <3> QED
      BY <1>1, <3>1, <3>2
  <2>2. CASE i \notin Below /\ top.op \in ThrowOps
    <3>1. PICK j \in Below : stack[j].op \in Catches
      BY <1>3, <2>2
    <3>2. j < i
      BY <1>1, <1>2, <2>2
    <3> QED
      BY <1>1, <3>1, <3>2
  <2>3. CASE i \notin Below /\ top.op \notin ThrowOps
    <3>1. i = Len(stack) + 1 /\ stack'[Len(stack)].op \in Catches
      BY <1>4, <2>3
    <3>2. Len(stack) \in Positions'
      BY <1>1, <3>1 DEF Positions
    <3>3. Len(stack) < i
      BY <1>1, <3>1
    <3> QED
      BY <3>1, <3>2, <3>3
  <2> QED
    BY <2>1, <2>2, <2>3
<1>5. ASSUME thrown' # None PROVE \E i \in Positions' : stack'[i].op \in Catches
  <2>1. \E j \in Below : stack[j].op \in Catches
    <3>1. CASE top.op \in ThrowOps
      BY <1>3, <3>1
    <3>2. CASE thrown # None /\ top.op \notin Catches
      BY <1>1, <3>2 DEF Caught
    <3> QED
      BY <1>5, <3>1, <3>2
  <2> QED
    BY <1>1, <2>1
<1> QED
  BY <1>4, <1>5 DEF Caught

\* The same for each way to change the stack.
LEMMA CaughtMoves ==
  ASSUME stack \in Seq(GoodFrames), Caught, Depth > 0
  PROVE  /\ (/\ Return
             /\ \/ thrown' = None \/ top.op \in ThrowOps
                \/ thrown # None /\ top.op \notin Catches) => Caught'
         /\ \A f \in GoodFrames :
              (/\ Becomes(f) /\ thrown' = None
               /\ f.op \in ThrowOps => top.op \in ThrowOps) => Caught'
         /\ \A f, g \in GoodFrames :
              (/\ Calls(f, g) /\ thrown' = None
               /\ f.op \in ThrowOps => top.op \in ThrowOps
               /\ g.op \in ThrowOps => top.op \in ThrowOps \/ f.op \in Catches) => Caught'
<1>1. Len(stack) \in Nat
  BY TopFacts
<1>2. ASSUME Return, \/ thrown' = None \/ top.op \in ThrowOps
                     \/ thrown # None /\ top.op \notin Catches
      PROVE  Caught'
  BY <1>2, ReturnMove, CaughtMove
<1>3. ASSUME NEW f \in GoodFrames, Becomes(f), thrown' = None,
             f.op \in ThrowOps => top.op \in ThrowOps
      PROVE  Caught'
  <2>1. TopMove /\ Positions' = Below \cup {Len(stack)} /\ stack'[Len(stack)] = f
    BY <1>3, BecomesMove
  <2> QED
    BY <1>3, <2>1, CaughtMove
<1>4. ASSUME NEW f \in GoodFrames, NEW g \in GoodFrames, Calls(f, g), thrown' = None,
             f.op \in ThrowOps => top.op \in ThrowOps,
             g.op \in ThrowOps => top.op \in ThrowOps \/ f.op \in Catches
      PROVE  Caught'
  <2>1. /\ TopMove /\ Positions' = Below \cup {Len(stack), Len(stack) + 1}
        /\ stack'[Len(stack)] = f /\ stack'[Len(stack) + 1] = g
    BY <1>4, CallsMove
  <2> QED
    BY <1>4, <2>1, CaughtMove
<1> QED
  BY <1>2, <1>3, <1>4

\* Idle, nothing is in flight.
LEMMA IdleCaught ==
  ASSUME Idle, Caught
  PROVE  thrown = None
BY DEF Idle, Caught, Positions

\* A step of a load calls nothing that throws.
LEMMA LoadFrames ==
  ASSUME Types, LoadStep
  PROVE  \/ Return
         \/ \E f \in GoodFrames : Becomes(f) /\ f.op \in LoadOps
         \/ \E f, g \in GoodFrames : Calls(f, g) /\ f.op \in LoadOps /\ g.op \in LoadOps
<1>1. stack \in Seq(GoodFrames) /\ DataTypes
  BY DEF Types
<1>2. Depth > 0 => /\ top.mod \in Modules /\ top.rest \in Seq(Modules)
                   /\ top.reason \in Errors
  BY <1>1, TopFacts
<1>3. /\ \A op \in LoadOps, m \in Modules :
           Call(op, m) \in GoodFrames /\ Call(op, m).op = op
      /\ \A op \in LoadOps, m \in Modules, rest \in Seq(Modules) :
           Loop(op, m, rest) \in GoodFrames /\ Loop(op, m, rest).op = op
      /\ \A op \in LoadOps, m \in Modules, reason \in Errors :
           CallWith(op, m, reason) \in GoodFrames /\ CallWith(op, m, reason).op = op
  BY FrameTypes DEF Call, Loop, CallWith
<1>4. CASE ParseSource
  <2>1. Depth > 0 /\ Requests(top.mod) \in Seq(Modules)
    BY <1>1, <1>2, <1>4, WorldType, ReverseFacts DEF ParseSource, At, Requests, DataTypes
  <2> QED
    BY <1>2, <1>3, <1>4, <2>1 DEF ParseSource, LoadOps
<1>5. CASE ResolveChild
  <2>1. Onward \in GoodFrames /\ Onward.op = "resolve" /\ Becomes(Onward)
    BY <1>1, <1>5, OnwardFacts DEF ResolveChild, At
  <2> QED
    BY <2>1 DEF LoadOps
<1>6. CASE NotifyParentsAsNeeded
  <2>1. Depth > 0 /\ parentModuleList[top.mod] \in Seq(Modules)
    BY <1>1, <1>2, <1>6 DEF NotifyParentsAsNeeded, At, DataTypes
  <2> QED
    BY <1>2, <1>3, <1>6, <2>1 DEF NotifyParentsAsNeeded, LoadOps
<1>7. CASE NotifyParent
  <2>1. Onward \in GoodFrames /\ Onward.op = "notifying"
    BY <1>1, <1>7, OnwardFacts DEF NotifyParent, At
  <2>2. Head(top.rest) \in Modules /\ errorObject[top.mod] \in Errors
    BY <1>1, <1>2, <1>7, HeadTail DEF NotifyParent, At, DataTypes
  <2> QED
    BY <1>3, <1>7, <2>1, <2>2 DEF NotifyParent, LoadOps
<1>8. CASE ParseReturns \/ NotifyEnds \/ ChildFailed \/ Prepared
  BY <1>8 DEF ParseReturns, NotifyEnds, ChildFailed, Prepared
<1>9. CASE ResolveFails \/ ResolveEnds \/ ParseFailed \/ OnChildModuleReady \/ Prepare
  <2>1. Depth > 0
    BY <1>9 DEF ResolveFails, ResolveEnds, ParseFailed, OnChildModuleReady, Prepare, At
  <2> QED
    BY <1>2, <1>3, <1>9, <2>1
    DEF ResolveFails, ResolveEnds, ParseFailed, OnChildModuleReady, Prepare, LoadOps
<1> QED
  BY <1>4, <1>5, <1>6, <1>7, <1>8, <1>9 DEF LoadStep

LEMMA LoadCaught ==
  ASSUME Types, Caught, LoadStep
  PROVE  Caught'
<1>1. thrown' = None /\ Depth > 0
  BY DEF LoadStep, ParseSource, ResolveChild, ResolveFails, ResolveEnds, ParseFailed,
         ParseReturns, NotifyParentsAsNeeded, NotifyParent, NotifyEnds, OnChildModuleReady,
         ChildFailed, Prepare, Prepared, At
<1>2. LoadOps \cap ThrowOps = {}
  BY DEF LoadOps, ThrowOps, PrepassOps
<1>3. stack \in Seq(GoodFrames)
  BY DEF Types
<1> QED
  BY <1>1, <1>2, <1>3, LoadFrames, CaughtMoves

LEMMA EvaluateCaught ==
  ASSUME Types, Caught, EvaluateStep
  PROVE  Caught'
<1>1. stack \in Seq(GoodFrames) /\ DataTypes
  BY DEF Types
<1>2. Depth > 0 /\ top.mod \in Modules /\ top.rest \in Seq(Modules)
      /\ (top.op \in {"child", "prepassChild"} => top.rest # <<>>)
  <2>1. Depth > 0
    BY DEF EvaluateStep, ModuleEvaluationReturns, ModuleEvaluationPrepasses, PrepassRefuses,
         SetEvaluating, EvaluateChild, ChildEvaluated, ChildrenEvaluated,
         CatchInEvaluation, PrepassFails, PrepassBegins, PrepassChild, PrepassRethrows,
         PrepassNext, PrepassEnds, At
  <2> QED
    BY <1>1, <2>1, TopFacts
<1>3. /\ \A op \in PlainOps, m \in Modules :
           Call(op, m) \in GoodFrames /\ Call(op, m).op = op
      /\ \A op \in PlainOps, m \in Modules, rest \in Seq(Modules) :
           Loop(op, m, rest) \in GoodFrames /\ Loop(op, m, rest).op = op
  BY FrameTypes DEF Call, Loop, OtherFrames
<1>4. \A op \in {"child", "prepassChild"}, m \in Modules, rest \in Seq(Modules) :
        rest # <<>> => Loop(op, m, rest) \in GoodFrames /\ Loop(op, m, rest).op = op
  BY FrameTypes DEF Loop, OtherFrames
<1> USE DEF ThrowOps, PrepassOps, Catches
<1>5. CASE ModuleEvaluationReturns \/ PrepassRefuses \/ PrepassEnds
  BY <1>1, <1>2, <1>5, CaughtMoves DEF ModuleEvaluationReturns, PrepassRefuses, PrepassEnds, At
<1>6. CASE ModuleEvaluationPrepasses
  <2>1. /\ Call("prepassing", top.mod) \in GoodFrames /\ Call("prepassing", top.mod).op = "prepassing"
        /\ Call("Prepass", top.mod) \in GoodFrames
    BY <1>2, <1>3 DEF PlainOps
  <2> QED
    BY <1>1, <1>2, <1>6, <2>1, CaughtMoves DEF ModuleEvaluationPrepasses, At
<1>7. CASE SetEvaluating
  <2>1. thrown' = None /\ world.imports[top.mod] \in Seq(Modules)
    BY <1>1, <1>2, <1>7, WorldType DEF SetEvaluating, At, DataTypes
  <2>2. /\ Loop("children", top.mod, world.imports[top.mod]) \in GoodFrames
        /\ Loop("children", top.mod, world.imports[top.mod]).op = "children"
    BY <1>2, <1>3, <2>1 DEF PlainOps
  <2> QED
    BY <1>1, <1>2, <1>7, <2>1, <2>2, CaughtMoves DEF SetEvaluating
<1>8. CASE EvaluateChild
  <2>1. Head(top.rest) \in Modules /\ thrown' = None /\ top.rest # <<>>
    BY <1>2, <1>8, HeadTail DEF EvaluateChild, At
  <2>2. /\ Call("ModuleEvaluation", Head(top.rest)) \in GoodFrames
        /\ Call("ModuleEvaluation", Head(top.rest)).op = "ModuleEvaluation"
        /\ Loop("child", top.mod, top.rest) \in GoodFrames
        /\ Loop("child", top.mod, top.rest).op = "child"
    BY <1>2, <1>3, <1>4, <2>1 DEF PlainOps
  <2> QED
    BY <1>1, <1>2, <1>8, <2>1, <2>2, CaughtMoves DEF EvaluateChild
<1>9. CASE ChildEvaluated
  <2>1. CASE errorObject[Head(top.rest)] # None
    <3>1. UNCHANGED stack /\ top.op = "child"
      BY <1>9, <2>1 DEF ChildEvaluated, At
    <3>2. Len(stack) \in Positions /\ top = stack[Len(stack)]
      BY <1>1, <1>2, TopFacts
    <3> QED
      BY <3>1, <3>2 DEF Caught, Positions
  <2>2. CASE errorObject[Head(top.rest)] = None
    <3> DEFINE r == Tail(top.rest)
    <3>1. r \in Seq(Modules) /\ thrown' = None
      BY <1>2, <1>9, <2>2, HeadTail DEF ChildEvaluated, At
    <3>2. Becomes(Loop("children", top.mod, r))
      BY <1>9, <2>2 DEF ChildEvaluated
    <3> HIDE DEF r
    <3>3. /\ Loop("children", top.mod, r) \in GoodFrames
          /\ Loop("children", top.mod, r).op = "children"
      BY <1>2, <1>3, <3>1 DEF PlainOps
    <3> QED
      BY <1>1, <1>2, <3>1, <3>2, <3>3, CaughtMoves
  <2> QED
    BY <2>1, <2>2
<1>10. CASE ChildrenEvaluated
  <2>1. /\ Call("finishing", top.mod) \in GoodFrames /\ Call("finishing", top.mod).op = "finishing"
        /\ Call("FinishOwn", top.mod) \in GoodFrames
    BY <1>2, <1>3 DEF PlainOps
  <2> QED
    BY <1>1, <1>2, <1>10, <2>1, CaughtMoves DEF ChildrenEvaluated, At
<1>11. CASE CatchInEvaluation
  BY <1>1, <1>2, <1>11, CaughtMoves DEF CatchInEvaluation
<1>12. CASE PrepassFails \/ PrepassRethrows
  BY <1>1, <1>2, <1>12, CaughtMoves DEF PrepassFails, PrepassRethrows, At
<1>13. CASE PrepassBegins \/ PrepassNext
  <2>1. Call("prepassLoop", top.mod) \in GoodFrames
    BY <1>2, <1>3 DEF PlainOps
  <2> QED
    BY <1>1, <1>2, <1>13, <2>1, CaughtMoves DEF PrepassBegins, PrepassNext, At
<1>14. CASE PrepassChild
  <2>1. PICK c \in childrenModuleSet[top.mod] :
          Calls(Loop("prepassChild", top.mod, <<c>>), Call("Prepass", c))
    BY <1>14 DEF PrepassChild
  <2>2. thrown' = None /\ c \in Modules /\ top.op = "prepassLoop"
    BY <1>1, <1>2, <1>14 DEF PrepassChild, At, DataTypes
  <2>3. <<c>> \in Seq(Modules) /\ <<c>> # <<>>
    BY <2>2
  <2>4. Loop("prepassChild", top.mod, <<c>>) \in GoodFrames /\ Call("Prepass", c) \in GoodFrames
    BY <1>2, <1>3, <1>4, <2>2, <2>3 DEF PlainOps
  <2> QED
    BY <1>1, <1>2, <2>1, <2>2, <2>4, CaughtMoves
<1> QED
  BY <1>5, <1>6, <1>7, <1>8, <1>9, <1>10, <1>11, <1>12, <1>13, <1>14 DEF EvaluateStep

LEMMA FinishCaught ==
  ASSUME Types, Caught, FinishStep
  PROVE  Caught'
<1>1. stack \in Seq(GoodFrames) /\ DataTypes /\ thrown \in Errors
  BY DEF Types
<1>2. /\ Depth > 0 /\ top.mod \in Modules /\ top.rest \in Seq(Modules)
      /\ parentModuleList[top.mod] \in Seq(Modules)
      /\ top.op \in RejectOps => top.reason \in Modules
  <2>1. Depth > 0
    BY DEF FinishStep, FinishNothing, FinishCrashes, FinishAsync, FinishSync, FinishThrows,
         TellParent, ParentsTold, Complete, FulfilledParent, NothingAwaited,
         CatchInWaited, FulfilledEnds, PropogateRejection, RejectParent, RejectEnds,
         Returns, Unwind, AtFinish, At
  <2> QED
    BY <1>1, <2>1, TopFacts DEF DataTypes, Errors
<1>3. /\ \A op \in PlainOps, m \in Modules :
           Call(op, m) \in GoodFrames /\ Call(op, m).op = op
      /\ \A op \in PlainOps, m \in Modules, rest \in Seq(Modules) :
           Loop(op, m, rest) \in GoodFrames /\ Loop(op, m, rest).op = op
  BY FrameTypes DEF Call, Loop, OtherFrames
<1>4. \A op \in RejectOps, m \in Modules, reason \in Modules :
        CallWith(op, m, reason) \in GoodFrames /\ CallWith(op, m, reason).op = op
  BY FrameTypes DEF CallWith, OtherFrames
<1>5. top.rest # <<>> /\ top.op \in {"telling", "fulfilled", "rejecting"} =>
        Onward \in GoodFrames /\ Onward.op = top.op /\ Head(top.rest) \in Modules
  BY <1>1, <1>2, OnwardFacts, HeadTail
<1> USE DEF ThrowOps, PrepassOps, Catches
<1>6. CASE FinishNothing \/ FinishAsync \/ FinishThrows \/ Complete \/ FulfilledEnds
           \/ RejectEnds \/ Returns \/ Unwind
  BY <1>1, <1>2, <1>6, CaughtMoves
  DEF FinishNothing, FinishAsync, FinishThrows, Complete, FulfilledEnds, RejectEnds, Returns,
      Unwind, AtFinish, At
<1>7. CASE FinishCrashes
  BY <1>7 DEF FinishCrashes, Caught, Positions
<1>8. CASE FinishSync
  <2>1. /\ Call("complete", top.mod) \in GoodFrames
        /\ Loop("telling", top.mod, parentModuleList[top.mod]) \in GoodFrames
    BY <1>2, <1>3 DEF PlainOps
  <2> QED
    BY <1>1, <1>2, <1>8, <2>1, CaughtMoves DEF FinishSync, AtFinish, At
<1>9. CASE TellParent
  <2>1. /\ thrown' = None /\ top.op = "telling" /\ top.rest # <<>>
        /\ Becomes(Onward) \/ Calls(Onward, Call("FinishWaited", Head(top.rest)))
    BY <1>9 DEF TellParent, At
  <2>2. Call("FinishWaited", Head(top.rest)) \in GoodFrames
    BY <1>3, <1>5, <2>1 DEF PlainOps
  <2> QED
    BY <1>1, <1>2, <1>5, <2>1, <2>2, CaughtMoves
<1>10. CASE ParentsTold
  <2>1. Call("complete", top.mod) \in GoodFrames /\ Call("complete", top.mod).op = "complete"
    BY <1>2, <1>3 DEF PlainOps
  <2> QED
    BY <1>1, <1>2, <1>10, <2>1, CaughtMoves DEF ParentsTold, At
<1>11. CASE FulfilledParent
  <2>1. /\ thrown' = None /\ top.op = "fulfilled" /\ top.rest # <<>>
        /\ Becomes(Onward) \/ Calls(Onward, Call("nothingAwaited", Head(top.rest)))
    BY <1>11 DEF FulfilledParent, At
  <2>2. /\ Call("nothingAwaited", Head(top.rest)) \in GoodFrames
        /\ Call("nothingAwaited", Head(top.rest)).op = "nothingAwaited"
    BY <1>3, <1>5, <2>1 DEF PlainOps
  <2> QED
    BY <1>1, <1>2, <1>5, <2>1, <2>2, CaughtMoves
<1>12. CASE NothingAwaited
  <2>1. /\ Call("waited", top.mod) \in GoodFrames /\ Call("waited", top.mod).op = "waited"
        /\ Call("FinishWaited", top.mod) \in GoodFrames
    BY <1>2, <1>3 DEF PlainOps
  <2> QED
    BY <1>1, <1>2, <1>12, <2>1, CaughtMoves DEF NothingAwaited, At
<1>13. CASE CatchInWaited
  <2>1. thrown \in Modules
    BY <1>1, <1>13 DEF CatchInWaited, Errors
  <2>2. /\ CallWith("PropogateRejection", top.mod, thrown) \in GoodFrames
        /\ CallWith("PropogateRejection", top.mod, thrown).op = "PropogateRejection"
    BY <1>2, <1>4, <2>1 DEF RejectOps
  <2> QED
    BY <1>1, <1>2, <1>13, <2>2, CaughtMoves DEF CatchInWaited
<1>14. CASE PropogateRejection
  <2> DEFINE f == [top EXCEPT !.op = "rejecting", !.rest = WaitingParents(top.mod)]
  <2>1. top \in GoodFrames /\ top.reason \in Modules
    BY <1>1, <1>2, <1>14, TopFacts DEF PropogateRejection, At, RejectOps
  <2>2. f \in Frames /\ f.op = "rejecting" /\ f.reason = top.reason
    BY <1>2, <2>1 DEF WaitingParents, GoodFrames, Frames, OtherOps, RejectOps
  <2>3. f \in GoodFrames
    BY <2>1, <2>2, ModulesAssumption DEF GoodFrames
  <2> HIDE DEF f
  <2>4. thrown' = None /\ (Return \/ Becomes(f))
    BY <1>14 DEF PropogateRejection, At, f
  <2> QED
    BY <1>1, <1>2, <2>2, <2>3, <2>4, CaughtMoves
<1>15. CASE RejectParent
  <2>1. /\ thrown' = None /\ top.op = "rejecting" /\ top.rest # <<>>
        /\ \/ Becomes(Onward)
           \/ Calls(Onward, CallWith("PropogateRejection", Head(top.rest), top.reason))
    BY <1>15 DEF RejectParent, At
  <2>2. /\ CallWith("PropogateRejection", Head(top.rest), top.reason) \in GoodFrames
        /\ CallWith("PropogateRejection", Head(top.rest), top.reason).op = "PropogateRejection"
    BY <1>2, <1>4, <1>5, <2>1 DEF RejectOps
  <2> QED
    BY <1>1, <1>2, <1>5, <2>1, <2>2, CaughtMoves
<1> QED
  BY <1>6, <1>7, <1>8, <1>9, <1>10, <1>11, <1>12, <1>13, <1>14, <1>15 DEF FinishStep

-----------------------------------------------------------------------------
(* Loading and linking, together.                                          *)

GraphInv == Types /\ Caught /\ LoadInv /\ LinkInv

LEMMA IdleFacts ==
  ASSUME Idle
  PROVE  Positions = {} /\ NoLoad /\ Passing = {} /\ Len(stack) = 0
<1>1. Positions = {} /\ Len(stack) = 0
  BY DEF Idle, Positions
<1> QED
  BY <1>1 DEF NoLoad, Passing

\* A source arrives.
LEMMA SourceInv ==
  ASSUME Types, LoadInv, LinkInv, NEW m \in Modules, Idle, thrown = None, JsParseModuleSource(m), SameGraph,
         UNCHANGED <<notifying, parentsNotified, errorObject, linkVars, toEvaluate, thrown>>
  PROVE  LoadInv' /\ LinkInv'
<1>1. Failed' = Failed /\ Known' = Known /\ Whole' = Whole /\ world' = world
  BY SameGraphFacts DEF Failed, SameGraph
<1>2. LinkInv'
  BY <1>1, LinkStays
<1>3. CASE UNCHANGED stack
  <2>1. NoLoad /\ NoLoad'
    BY <1>3, IdleFacts DEF NoLoad, Positions
  <2> QED
    BY <1>1, <1>2, <2>1, OutsideLoad
<1>4. CASE Begins(Call("ParseSource", m))
  <2> DEFINE f == Call("ParseSource", m)
  <2>1. f \in GoodFrames /\ f.op = "ParseSource" /\ Begins(f)
    BY <1>4, FrameTypes DEF Call, LoadOps
  <2> HIDE DEF f
  <2>a. stack'[1] = f /\ Len(stack') = 1
    BY <2>1, BeginsFacts
  <2>2. Positions' = {1} /\ stack'[1].op = "ParseSource" /\ Len(stack') = 1
    BY <2>1, <2>a DEF Positions
  <2>3. Positions = {} /\ Passing = {} /\ Passing' = {}
    BY <2>2, IdleFacts DEF Passing, PassOps
  <2>4. Doomed' = Doomed
    BY <1>1, <2>3 DEF Doomed
  <2>6. Homogeneous' /\ Resolving' /\ Notifies' /\ OnlyFailuresAbove'
    BY <2>2 DEF Homogeneous, Resolving, Notifies, OnlyFailuresAbove, LoadOps, PassOps
  <2>7. Linked'
    BY SameGraphFacts DEF LoadInv
  <2>8. Resolved'
    BY <1>1, <2>3, <2>4 DEF LoadInv, Resolved, SameGraph
  <2>9. Notified'
    BY <1>1, <2>4, NotifiedStays
  <2>10. NotifyingCalled'
    BY <2>3 DEF LoadInv, NotifyingCalled
  <2> QED
    BY <1>2, <2>6, <2>7, <2>8, <2>9, <2>10 DEF LoadInv
<1> QED
  BY <1>3, <1>4 DEF JsParseModuleSource

\* A message of the host keeps the invariant.
LEMMA MessageInv ==
  ASSUME GraphInv, NEW m \in Modules, Message(m)
  PROVE  Caught' /\ LoadInv' /\ LinkInv'
<1>1. /\ Types /\ Caught /\ LoadInv /\ LinkInv /\ DataTypes /\ stack \in Seq(GoodFrames)
  BY DEF GraphInv, Types
<1>2. Idle
  BY DEF Message, LoadRoot, LoadImported, OnHostException, Evaluate, AsyncBodyReturns,
         AsyncBodyThrows, ImportRefused, ImportDone, ImportWaits, ImportCrashes,
         ImportBegins
<1>3. thrown = None /\ NoLoad /\ Positions = {} /\ world' = world
  BY <1>1, <1>2, IdleCaught, IdleFacts, WorldStep DEF Next
<1>4. ASSUME UNCHANGED stack, thrown' = None PROVE Caught' /\ NoLoad'
  BY <1>3, <1>4 DEF Caught, NoLoad, Positions
<1>5. ASSUME NEW f \in GoodFrames, Begins(f), f.op \notin ThrowOps, thrown' = None
      PROVE  Caught' /\ (f.op \notin LoadOps => NoLoad')
  BY <1>5, BeginsFacts DEF Caught, NoLoad, Positions
<1>6. ASSUME SameGraph, Failed \subseteq Failed', UNCHANGED <<notifyVars, linkVars>>,
             toEvaluate' \subseteq toEvaluate, NoLoad'
      PROVE  LoadInv' /\ LinkInv'
  <2>1. Whole' = Whole
    BY <1>6, SameGraphFacts
  <2> QED
    BY <1>1, <1>3, <1>6, <2>1, OutsideLoad, LinkStays
<1>7. CASE LoadRoot(m) \/ LoadImported(m)
  <2>1. /\ JsParseModuleSource(m) /\ SameGraph /\ thrown' = None
        /\ UNCHANGED <<notifying, parentsNotified, errorObject, linkVars, toEvaluate, thrown>>
    BY <1>3, <1>7 DEF LoadRoot, LoadImported, SameGraph
  <2>2. Call("ParseSource", m) \in GoodFrames /\ Call("ParseSource", m).op \notin ThrowOps
    BY FrameTypes DEF LoadOps, Call, ThrowOps, PrepassOps
  <2>3. Caught'
    BY <1>4, <1>5, <2>1, <2>2 DEF JsParseModuleSource
  <2> QED
    BY <1>1, <1>2, <1>3, <2>1, <2>3, SourceInv
<1>8. CASE OnHostException(m)
  <2>1. Failed \subseteq Failed'
    BY <1>1, <1>8, ErrorSet DEF OnHostException
  <2>2. NoLoad' /\ Caught'
    BY <1>3, <1>4, <1>8 DEF OnHostException
  <2> QED
    BY <1>6, <1>8, <2>1, <2>2 DEF OnHostException, SameGraph
<1>9. CASE Evaluate(m)
  <2>1. /\ Call("ModuleEvaluation", m) \in GoodFrames
        /\ Call("ModuleEvaluation", m).op \notin ThrowOps \cup LoadOps
    BY FrameTypes DEF PlainOps, OtherFrames, Call, ThrowOps, PrepassOps, LoadOps
  <2>2. NoLoad' /\ Caught'
    BY <1>3, <1>4, <1>5, <1>9, <2>1 DEF Evaluate
  <2> QED
    BY <1>6, <1>9, <2>2 DEF Evaluate, SameGraph, Failed
<1>10. CASE AsyncBodyReturns(m)
  <2> DEFINE f == Loop("fulfilled", m, parentModuleList[m])
  <2>1. f \in GoodFrames /\ f.op \notin ThrowOps \cup LoadOps
    BY <1>1, FrameTypes DEF PlainOps, OtherFrames, Loop, ThrowOps, PrepassOps, LoadOps, DataTypes
  <2>2. Begins(f)
    BY <1>10 DEF AsyncBodyReturns
  <2> HIDE DEF f
  <2>3. NoLoad' /\ Caught'
    BY <1>3, <1>5, <1>10, <2>1, <2>2 DEF AsyncBodyReturns
  <2> QED
    BY <1>6, <1>10, <2>3 DEF AsyncBodyReturns, SameGraph, Failed
<1>11. CASE AsyncBodyThrows(m)
  <2> DEFINE f == CallWith("PropogateRejection", m, m)
  <2>1. f \in GoodFrames /\ f.op \notin ThrowOps \cup LoadOps
    BY FrameTypes DEF RejectOps, OtherFrames, CallWith, ThrowOps, PrepassOps, LoadOps
  <2>2. Begins(f)
    BY <1>11 DEF AsyncBodyThrows
  <2> HIDE DEF f
  <2>3. NoLoad' /\ Caught'
    BY <1>3, <1>5, <1>11, <2>1, <2>2 DEF AsyncBodyThrows
  <2> QED
    BY <1>6, <1>11, <2>3 DEF AsyncBodyThrows, SameGraph, Failed
<1>12. CASE ImportRefused(m) \/ ImportDone(m)
  <2>1. NoLoad' /\ Caught'
    BY <1>3, <1>4, <1>12 DEF ImportRefused, ImportDone, ImportSettles
  <2> QED
    BY <1>6, <1>12, <2>1 DEF ImportRefused, ImportDone, ImportSettles, SameGraph, Failed
<1>13. ASSUME ImportLinks(m), Link(m), toEvaluate' \subseteq toEvaluate \cup {m},
              SameGraph, NoLoad', UNCHANGED notifyVars
       PROVE  LoadInv' /\ LinkInv'
  <2>1. m \in Whole \cup Failed
    BY <1>1, <1>13 DEF ImportLinks, LoadInv, Notified
  <2>2. LinkInv'
    BY <1>1, <1>13, <2>1, LinkWhole DEF ImportLinks
  <2>3. Failed \subseteq Failed'
    BY <1>1, <1>13, LinkErrors
  <2> QED
    BY <1>1, <1>3, <1>13, <2>2, <2>3, OutsideLoad
<1>14. CASE ImportWaits(m)
  <2>1. NoLoad' /\ Caught' /\ SameGraph /\ UNCHANGED notifyVars
    BY <1>3, <1>4, <1>14 DEF ImportWaits, SameGraph
  <2>2. CASE ~ImportLinks(m)
    BY <1>6, <1>14, <2>1, <2>2 DEF ImportWaits, Failed
  <2>3. CASE ImportLinks(m)
    <3>1. Link(m) /\ toEvaluate' \subseteq toEvaluate \cup {m}
      BY <1>14, <2>3 DEF ImportWaits, AnnounceFlags
    <3> QED
      BY <1>13, <2>1, <2>3, <3>1
  <2> QED
    BY <2>2, <2>3
<1>15. CASE ImportCrashes(m)
  <2>1. NoLoad' /\ Caught' /\ SameGraph /\ UNCHANGED <<notifyVars, toEvaluate>>
    BY <1>3, <1>4, <1>15 DEF ImportCrashes, SameGraph
  <2>2. ImportLinks(m) /\ Link(m)
    BY <1>15 DEF ImportCrashes
  <2> QED
    BY <1>13, <2>1, <2>2
<1> QED
  BY <1>7, <1>8, <1>9, <1>10, <1>11, <1>12, <1>14, <1>15 DEF Message

LEMMA InitGraph ==
  ASSUME Init
  PROVE  GraphInv
<1>1. Types
  BY InitTypes
<1>2. Positions = {} /\ Caught
  BY DEF Init, Positions, Caught
<1>3. Homogeneous /\ Resolving /\ Notifies /\ OnlyFailuresAbove
  BY <1>2 DEF Homogeneous, Resolving, Notifies, OnlyFailuresAbove
<1>4. Linked
  <2>1. ToSet(<<>>) = {}
    BY DEF ToSet
  <2> QED
    BY <2>1 DEF Init, Linked
<1>5. Resolved /\ Notified /\ NotifyingCalled /\ LinkInv
  BY DEF Init, Resolved, Notified, NotifyingCalled, LinkInv, Initialized, Compiled, Ready
<1> QED
  BY <1>1, <1>2, <1>3, <1>4, <1>5 DEF GraphInv, LoadInv

LEMMA NextGraph ==
  ASSUME GraphInv, [Next]_vars
  PROVE  GraphInv'
<1>1. /\ Types /\ Caught /\ LoadInv /\ LinkInv /\ stack \in Seq(GoodFrames) /\ Types'
  BY NextTypes DEF GraphInv, Types
<1>2. CASE UNCHANGED vars
  <2>1. UNCHANGED <<data, stack, thrown>>
    BY <1>2 DEF vars
  <2>2. SameGraph /\ Failed' = Failed /\ Positions' = Positions
    BY <2>1 DEF SameGraph, Failed, Positions
  <2>3. Whole' = Whole /\ Known' = Known /\ Linked'
    BY <1>1, <2>2, SameGraphFacts DEF LoadInv
  <2>4. Doomed' = Doomed
    BY <2>1, <2>2 DEF Doomed, Passing
  <2>5. Caught'
    BY <1>1, <2>1, <2>2 DEF Caught
  <2>6. \A m : Imports(m)' = Imports(m)
    BY <2>1, SameWorld
  <2>7. LoadInv'
    BY <1>1, <2>1, <2>2, <2>3, <2>4, <2>6
    DEF LoadInv, Homogeneous, Resolving, Resolved, Notified, NotifyingCalled, Notifies,
        OnlyFailuresAbove
  <2>8. LinkInv'
    BY <1>1, <2>1, <2>2, <2>3, LinkStays
  <2> QED
    BY <1>1, <2>5, <2>7, <2>8 DEF GraphInv
<1>3. CASE LoadStep
  BY <1>1, <1>3, LoadCaught, LoadStepInv, LoadStepLinks DEF GraphInv
<1>4. CASE EvaluateStep \/ FinishStep
  <2>1. Caught'
    BY <1>1, <1>4, EvaluateCaught, FinishCaught
  <2>2. SameGraph /\ UNCHANGED loadState /\ Failed \subseteq Failed'
    BY <1>1, <1>4, EvaluateLeaves
  <2>3. NoLoad
    BY <1>1, <1>4, EvaluateNoLoad
  <2>4. StackMove(OtherFrames)
    BY <1>1, <1>4, EvaluateStackMove, FinishStackMove
  <2>5. NoLoad'
    BY <1>1, <2>3, <2>4, NoLoadMove
  <2>6. LoadInv'
    BY <1>1, <2>2, <2>3, <2>5, OutsideLoad
  <2>7. Whole' = Whole /\ world' = world
    BY <2>2, SameGraphFacts DEF SameGraph
  <2>8. LinkInv'
    BY <1>1, <2>2, <2>7, LinkStays
  <2> QED
    BY <1>1, <2>1, <2>6, <2>8 DEF GraphInv
<1>5. CASE \E m \in Modules : Message(m)
  BY <1>1, <1>5, MessageInv DEF GraphInv
<1> QED
  BY <1>2, <1>3, <1>4, <1>5 DEF Next

\* However the sources arrive and fail, the invariant of loading and linking
\* holds: the methods of SourceTextModuleRecord.cpp keep it in every order.
THEOREM GraphInvariant == Spec => []GraphInv
BY InitGraph, NextGraph, PTL DEF Spec

\* Every field of the records, every call and the counters have their types,
\* and no exception leaves the methods of the records: it is caught below.
THEOREM TypesInvariant == Spec => [](Types /\ Caught)
<1>1. GraphInv => Types /\ Caught
  BY DEF GraphInv
<1> QED
  BY <1>1, GraphInvariant, PTL

LEMMA ReadyLinked ==
  ASSUME GraphInv
  PROVE  LinkedWhenReady
<1> SUFFICES ASSUME NEW m \in toEvaluate,
                    \A c \in {m} \cup Dependencies(m) : errorObject[c] = None
             PROVE  {m} \cup Dependencies(m) \subseteq
                      wasParsed \cap wasDeclarationInitialized \cap rootFunction
  BY DEF LinkedWhenReady
<1>1. world \in Worlds /\ m \in Modules /\ LinkInv
  BY DEF GraphInv, Types, DataTypes
<1>2. Cone[m] = {m} \cup Dependencies(m) /\ Cone[m] \cap Failed = {}
  BY <1>1 DEF Cone, Failed
<1>3. m \in Cone[m] /\ Cone[m] \subseteq Modules /\ \A x \in Cone[m] : Imports(x) \subseteq Cone[m]
  BY <1>1, ConeFacts
<1>4. m \in Whole \cap wasDeclarationInitialized \cap rootFunction
  BY <1>1, <1>2, <1>3 DEF LinkInv, Ready
<1> DEFINE S == Cone[m] \cap wasDeclarationInitialized \cap rootFunction
<1>5. S \in SUBSET Modules /\ m \in S /\ \A x \in S : Imports(x) \subseteq S
  BY <1>1, <1>2, <1>3, <1>4 DEF LinkInv, Initialized, Compiled
<1> HIDE DEF S
<1>6. Cone[m] \subseteq S
  BY <1>1, <1>5, ConeLeast
<1>7. Cone[m] \subseteq wasParsed
  BY <1>1, <1>4 DEF Whole, Known
<1> QED
  BY <1>2, <1>6, <1>7 DEF S

\* ModuleEvaluationPrepass asserts that the module and everything it imports was
\* parsed, initialized and compiled.  It is so for every module announced to the
\* host without an error, whatever the import graph, however many roots share
\* it, and in whatever order the sources arrive or fail.
THEOREM LinkedWhenReadyHolds == Spec => []LinkedWhenReady
BY GraphInvariant, ReadyLinked, PTL

-----------------------------------------------------------------------------
(* The invariant of evaluation, if nothing fails.                          *)

Begun == evaluating \cup ended

InProgress == {stack[i] : i \in Positions}

\* ModuleEvaluation of these is in progress, and their bodies have not begun.
InsideOps == {"children", "child", "FinishOwn"}
InsideIn(F) == {f.mod : f \in {g \in F : g.op \in InsideOps}}
Inside == InsideIn(InProgress)

\* A pair of a module that has ended and one that it has yet to tell.
TellOps == {"telling", "fulfilled"}
TellsIn(F) == {cp \in Modules \X Modules :
  \E f \in F : f.op \in TellOps /\ f.mod = cp[1] /\ cp[2] \in ToSet(f.rest)}
Tells == TellsIn(InProgress)

\* A pair of a module and an import that its ModuleEvaluation has yet to come to.
VisitOps == {"children", "child"}
VisitsIn(F) == {mc \in Modules \X Modules :
  \E f \in F : f.op \in VisitOps /\ f.mod = mc[1] /\ mc[2] \in ToSet(f.rest)}
Visits == VisitsIn(InProgress)

\* ModuleEvaluation of a module that the host asked for is in progress.
Evaluation == Len(stack) > 0 /\ stack[1].op \in EvaluateOps

\* The children that a module waits for.
PendingOf(E, T) == [p \in Modules |-> {c \in childrenModuleSet[p] : c \in E \/ <<c, p>> \in T}]
Pending == PendingOf(evaluating \ Inside, Tells)

\* The modules whose evaluation has led to that of a module, and itself.
CallersOf(call) == [m \in Modules |-> Closure({m}, [x \in Modules |-> {call[x]} \ {None}])]
Callers == CallersOf(caller)

ClosedUnderImports(S) == \A x \in S : Imports(x) \subseteq S

CalmCall(f) == /\ f.reason = None
               /\ f.op \notin {"parseFailed", "notParsed", "childFailed"} \cup RejectOps
Calm == /\ thrown = None /\ log.rejected = {} /\ log.threw = {} /\ Failed = {}
        /\ \A f \in InProgress : CalmCall(f)

\* Each request of a module is resolved once.
Requesting ==
  /\ \A m \in Modules : IsInjective(parentModuleList[m])
  /\ \A m \in Modules \ wasParsed : childrenModuleSet[m] = {}
  /\ \A f \in InProgress :
       /\ f.op = "ParseSource" => f.mod \notin wasParsed
       /\ f.op = "resolve" => /\ f.mod \in wasParsed /\ IsInjective(f.rest)
                              /\ childrenModuleSet[f.mod] \cap ToSet(f.rest) = {}

\* A module under evaluation calls the modules it imports; a module that has
\* ended calls the modules that wait for it; the two do not mix.
OwnModeOps == EvaluateOps \cup PrepassOps \cup OwnOps
Modes ==
  /\ Evaluation => \A i \in Positions : stack[i].op \in OwnModeOps
  /\ ~Evaluation => \/ \A i \in Positions : stack[i].op \in LoadOps
                    \/ \A i \in Positions : stack[i].op \in WaitedOps

\* How the calls of an evaluation are nested.
LastOps == {"children", "FinishOwn", "FinishWaited", "nothingAwaited"}
NestedAt(i) ==
  /\ stack[i].op \in LastOps => i = Len(stack)
  /\ stack[i].op = "child" =>
       IF i = Len(stack) THEN Head(stack[i].rest) \in Begun
       ELSE /\ stack[i + 1].op \in EvaluateOps
            /\ stack[i + 1].mod = Head(stack[i].rest)
  /\ stack[i].op \in EvaluateOps => i = 1 \/ stack[i - 1].op = "child"

NestedPair(i, j) ==
  /\ stack[i].op \in {"prepassing", "prepassChild"} => stack[j].op \in PrepassOps
  /\ stack[i].op = "child" /\ stack[j].op \in EvaluateOps \cup {"FinishOwn"} =>
       stack[j].mod \in Reach[stack[i].mod]
  /\ stack[i].op = "child" /\ stack[j].op \in InsideOps =>
       stack[i].mod \in Callers[stack[j].mod]
  /\ stack[i].op \in InsideOps /\ stack[j].op \in InsideOps =>
       stack[i].mod # stack[j].mod
  /\ stack[i].op \in TellOps /\ stack[j].op \in TellOps => stack[i].mod # stack[j].mod

\* The module of the call was called from one that is under evaluation.
CalledAt(i) ==
  stack[i].op \in InsideOps =>
    \/ caller[stack[i].mod] = None
    \/ \E j \in Positions : /\ j < i /\ stack[j].op = "child"
                             /\ stack[j].mod = caller[stack[i].mod]

Nesting == /\ \A i \in Positions : NestedAt(i) /\ CalledAt(i)
           /\ \A i, j \in Positions : i < j => NestedPair(i, j)

\* What the calls know of their modules.
Knows(f) ==
  /\ f.op \in EvaluateOps => f.mod \in Whole
  /\ f.op = "finishing" => f.mod \in Begun
  /\ f.op = "prepassing" => f.mod \notin Begun
  /\ f.op \in VisitOps => ToSet(f.rest) \subseteq Imports(f.mod)
  /\ f.op \in InsideOps => f.mod \in evaluating \ suspended
  /\ f.op \in {"prepassLoop", "prepassChild"} => f.mod \in wasPrepassed
  /\ f.op \in TellOps \cup {"complete"} => f.mod \in ended
  /\ f.op \in TellOps =>
       /\ IsInjective(f.rest)
       /\ \A p \in ToSet(f.rest) : f.mod \in childrenModuleSet[p]
  /\ f.op \in {"FinishOwn", "FinishWaited", "nothingAwaited"} =>
       awaitedModules[f.mod] = 0 /\ f.mod \notin suspended

CallsKnow == \A f \in InProgress : Knows(f)

\* Prepasses go no further than the evaluation that began them.
Prepassed ==
  /\ generator \subseteq wasPrepassed
  /\ ~Evaluation => wasPrepassed \subseteq Begun
  /\ Evaluation =>
       \A S \in SUBSET Modules :
         ClosedUnderImports(S) /\ Begun \subseteq S /\ stack[1].mod \in S =>
           wasPrepassed \subseteq S /\ \A f \in InProgress : f.mod \in S

Bodies ==
  /\ wasEvaluated = ended /\ evaluating \cap ended = {} /\ suspended \subseteq evaluating
  /\ \A m \in Modules : runs[m] = IF m \in ended \cup suspended THEN 1 ELSE 0
  /\ Begun \subseteq Whole
  /\ log.fulfilled \subseteq ended

Visited == \A m \in Begun : \A c \in Imports(m) : c \in Begun \/ <<m, c>> \in Visits

Counted == \A p \in Modules : awaitedModules[p] = Cardinality(Pending[p])

CallersEvaluating == \A m \in evaluating :
  caller[m] = None \/ (caller[m] \in evaluating /\ m \in Imports(caller[m]))

\* What a suspended body has requested has ended and has told it so, or waits
\* for that very body.
Suspended == \A m \in suspended :
  /\ m \notin Inside
  /\ \A x \in evaluating : caller[x] # m
  /\ \A c \in Imports(m) : \/ c \in ended /\ <<c, m>> \notin Tells
                           \/ c \in evaluating /\ c \in Callers[m]

Ordered == \A m \in Modules :
  /\ before[m] \subseteq ended
  /\ runs[m] > 0 => \A c \in Imports(m) : c \in before[m] \/ m \in Reach[c]

StackInv == Modes /\ Nesting /\ CallsKnow
BodyInv == Bodies /\ Visited /\ Counted /\ CallersEvaluating /\ Suspended /\ Ordered
EvalInv == Calm /\ Requesting /\ StackInv /\ Prepassed /\ BodyInv

-----------------------------------------------------------------------------
(* The calls in progress.                                                  *)

\* The calls below the top.
Lower == {stack[i] : i \in Below}

LEMMA CallsSplit ==
  ASSUME stack \in Seq(GoodFrames), Depth > 0
  PROVE  InProgress = Lower \cup {top} /\ Lower \subseteq GoodFrames /\ top \in GoodFrames
<1>1. /\ Len(stack) \in Nat /\ Len(stack) > 0 /\ top = stack[Len(stack)]
      /\ \A i \in Positions : stack[i] \in GoodFrames
  BY TopFacts
<1>2. Positions = Below \cup {Len(stack)}
  BY <1>1 DEF Positions, Below
<1> QED
  BY <1>1, <1>2 DEF InProgress, Lower

LEMMA ReturnCalls ==
  ASSUME stack \in Seq(GoodFrames), Depth > 0, Return
  PROVE  InProgress' = Lower
<1>1. TopMove /\ Positions' = Below
  BY ReturnMove
<1> QED
  BY <1>1 DEF InProgress, Lower, TopMove

LEMMA BecomesCalls ==
  ASSUME stack \in Seq(GoodFrames), Depth > 0, NEW f \in GoodFrames, Becomes(f)
  PROVE  InProgress' = Lower \cup {f}
<1>1. /\ TopMove /\ Positions' = Below \cup {Len(stack)} /\ stack'[Len(stack)] = f
  BY BecomesMove
<1> QED
  BY <1>1 DEF InProgress, Lower, TopMove

LEMMA CallsCalls ==
  ASSUME stack \in Seq(GoodFrames), Depth > 0, NEW f \in GoodFrames, NEW g \in GoodFrames,
         Calls(f, g)
  PROVE  InProgress' = Lower \cup {f, g}
<1>1. /\ TopMove /\ Positions' = Below \cup {Len(stack), Len(stack) + 1}
      /\ stack'[Len(stack)] = f /\ stack'[Len(stack) + 1] = g
  BY CallsMove
<1> QED
  BY <1>1 DEF InProgress, Lower, TopMove

LEMMA BeginsCalls ==
  ASSUME NEW f \in GoodFrames, Begins(f)
  PROVE  InProgress' = {f} /\ Len(stack') = 1 /\ stack'[1] = f /\ Positions' = {1}
<1>1. Len(stack') = 1 /\ stack'[1] = f
  BY BeginsFacts
<1>2. Positions' = {1}
  BY <1>1 DEF Positions
<1> QED
  BY <1>1, <1>2 DEF InProgress

\* What one more call adds to the projections.
LEMMA InsideAdds ==
  ASSUME NEW F, NEW f
  PROVE  InsideIn(F \cup {f}) = InsideIn(F) \cup (IF f.op \in InsideOps THEN {f.mod} ELSE {})
BY DEF InsideIn

LEMMA TellsAdds ==
  ASSUME NEW F, NEW f, f.mod \in Modules, f.rest \in Seq(Modules)
  PROVE  /\ f.op \notin TellOps => TellsIn(F \cup {f}) = TellsIn(F)
         /\ f.op \in TellOps => TellsIn(F \cup {f}) = TellsIn(F) \cup ({f.mod} \X ToSet(f.rest))
<1>1. f.op \notin TellOps => TellsIn(F \cup {f}) = TellsIn(F)
  BY DEF TellsIn
<1>2. ASSUME f.op \in TellOps
      PROVE TellsIn(F \cup {f}) = TellsIn(F) \cup ({f.mod} \X ToSet(f.rest))
  BY <1>2, ToSetType DEF TellsIn
<1> QED
  BY <1>1, <1>2

LEMMA VisitsAdds ==
  ASSUME NEW F, NEW f, f.mod \in Modules, f.rest \in Seq(Modules)
  PROVE  /\ f.op \notin VisitOps => VisitsIn(F \cup {f}) = VisitsIn(F)
         /\ f.op \in VisitOps => VisitsIn(F \cup {f}) = VisitsIn(F) \cup ({f.mod} \X ToSet(f.rest))
<1>1. f.op \notin VisitOps => VisitsIn(F \cup {f}) = VisitsIn(F)
  BY DEF VisitsIn
<1>2. ASSUME f.op \in VisitOps
      PROVE VisitsIn(F \cup {f}) = VisitsIn(F) \cup ({f.mod} \X ToSet(f.rest))
  BY <1>2, ToSetType DEF VisitsIn
<1> QED
  BY <1>1, <1>2

-----------------------------------------------------------------------------
(* Who called whom.                                                        *)

LEMMA CallersOfFacts ==
  ASSUME NEW call \in [Modules -> Errors], NEW m \in Modules
  PROVE  /\ m \in CallersOf(call)[m] /\ CallersOf(call)[m] \subseteq Modules
         /\ \A x \in CallersOf(call)[m] : call[x] = None \/ call[x] \in CallersOf(call)[m]
<1> DEFINE next == [x \in Modules |-> {call[x]} \ {None}]
<1>1. CallersOf(call)[m] = Closure({m}, next)
  BY DEF CallersOf
<1>2. CallersOf(call)[m] \subseteq Modules
  BY <1>1, ClosureType
<1>3. {m} \in SUBSET Modules
  OBVIOUS
<1>4. m \in CallersOf(call)[m]
  BY <1>1, <1>3, ClosureFrom
<1>5. ASSUME NEW x \in CallersOf(call)[m], call[x] # None PROVE call[x] \in CallersOf(call)[m]
  <2>1. x \in Modules /\ call[x] \in Modules
    BY <1>2, <1>5 DEF Errors
  <2>2. next[x] = {call[x]} /\ next[x] \in SUBSET Modules
    BY <1>5, <2>1
  <2> HIDE DEF next
  <2>3. next[x] \subseteq Closure({m}, next)
    BY <1>1, <1>5, <2>2, ClosureStep
  <2> QED
    BY <1>1, <2>2, <2>3
<1> QED
  BY <1>2, <1>4, <1>5

LEMMA CallersOfLeast ==
  ASSUME NEW call \in [Modules -> Errors], NEW S \in SUBSET Modules, NEW m \in S,
         \A x \in S : call[x] = None \/ call[x] \in S
  PROVE  CallersOf(call)[m] \subseteq S
<1> DEFINE next == [x \in Modules |-> {call[x]} \ {None}]
<1>1. CallersOf(call)[m] = Closure({m}, next)
  BY DEF CallersOf
<1>2. \A x \in S : next[x] \subseteq S
  OBVIOUS
<1>3. {m} \subseteq S
  OBVIOUS
<1> HIDE DEF next
<1> QED
  BY <1>1, <1>2, <1>3, ClosureLeast

LEMMA CallersFacts ==
  ASSUME caller \in [Modules -> Errors], NEW m \in Modules
  PROVE  /\ m \in Callers[m] /\ Callers[m] \subseteq Modules
         /\ \A x \in Callers[m] : caller[x] = None \/ caller[x] \in Callers[m]
BY CallersOfFacts DEF Callers

LEMMA CallersLeast ==
  ASSUME caller \in [Modules -> Errors], NEW S \in SUBSET Modules, NEW m \in S,
         \A x \in S : caller[x] = None \/ caller[x] \in S
  PROVE  Callers[m] \subseteq S
BY CallersOfLeast DEF Callers

\* A module under evaluation was called by modules under evaluation; a module
\* that has called none of them is not among their callers.
LEMMA CallersInside ==
  ASSUME caller \in [Modules -> Errors], evaluating \subseteq Modules, CallersEvaluating,
         NEW m \in evaluating
  PROVE  Callers[m] \subseteq evaluating
BY CallersLeast DEF CallersEvaluating

LEMMA Childless ==
  ASSUME caller \in [Modules -> Errors], evaluating \subseteq Modules, CallersEvaluating,
         NEW c, \A x \in evaluating : caller[x] # c,
         NEW m \in evaluating, m # c
  PROVE  c \notin Callers[m]
<1> DEFINE S == evaluating \ {c}
<1>1. S \in SUBSET Modules /\ m \in S
  OBVIOUS
<1>2. \A x \in S : caller[x] = None \/ caller[x] \in S
  BY DEF CallersEvaluating
<1> HIDE DEF S
<1>3. Callers[m] \subseteq S
  BY <1>1, <1>2, CallersLeast
<1> QED
  BY <1>3 DEF S

\* The callers of the modules under evaluation stay what they are.
LEMMA CallersStay ==
  ASSUME caller \in [Modules -> Errors], caller' \in [Modules -> Errors],
         evaluating \subseteq Modules, CallersEvaluating,
         \A x \in evaluating : caller'[x] = caller[x],
         NEW m \in evaluating
  PROVE  Callers'[m] = Callers[m]
<1>1. m \in Modules /\ Callers[m] \subseteq evaluating
  BY CallersInside
<1>2. /\ m \in Callers[m] /\ Callers[m] \subseteq Modules
      /\ \A x \in Callers[m] : caller[x] = None \/ caller[x] \in Callers[m]
  BY <1>1, CallersFacts
<1> DEFINE next == [x \in Modules |-> {caller'[x]} \ {None}]
<1>3. Callers'[m] = Closure({m}, next)
  BY <1>1 DEF Callers, CallersOf, Closure
<1>4. Callers'[m] \subseteq Callers[m]
  <2>1. \A x \in Callers[m] : next[x] \subseteq Callers[m]
    BY <1>1, <1>2
  <2>2. {m} \subseteq Callers[m] /\ Callers[m] \in SUBSET Modules
    BY <1>2
  <2> HIDE DEF next
  <2> QED
    BY <1>3, <2>1, <2>2, ClosureLeast
<1>5. Callers[m] \subseteq Callers'[m]
  <2> DEFINE T == Closure({m}, next) \cap evaluating
  <2>1. T \in SUBSET Modules /\ T \subseteq evaluating
    OBVIOUS
  <2>2. m \in T
    <3>1. {m} \in SUBSET Modules
      BY <1>1
    <3> HIDE DEF next
    <3> QED
      BY <3>1, ClosureFrom
  <2>3. ASSUME NEW x \in T, caller[x] # None PROVE caller[x] \in T
    <3>1. caller'[x] = caller[x] /\ caller[x] \in evaluating /\ x \in Modules
      BY <2>1, <2>3 DEF CallersEvaluating
    <3>2. next[x] = {caller[x]} /\ next[x] \in SUBSET Modules
      BY <2>3, <3>1
    <3> HIDE DEF next
    <3>3. next[x] \subseteq Closure({m}, next)
      BY <3>2, ClosureStep
    <3> QED
      BY <3>1, <3>2, <3>3
  <2>4. \A x \in T : caller[x] = None \/ caller[x] \in T
    BY <2>3
  <2> HIDE DEF T
  <2>5. Callers[m] \subseteq T
    BY <2>1, <2>2, <2>4, CallersLeast
  <2> QED
    BY <1>3, <2>5 DEF T
<1> QED
  BY <1>4, <1>5

-----------------------------------------------------------------------------
(* The calls below the top stay in order.                                  *)

\* What a step may not disturb: what the calls below know, and the promise of an
\* evaluation on the top to its caller.
KeepsLower ==
  /\ TopMove /\ SameGraph
  /\ Begun \subseteq Begun' /\ ended \subseteq ended' /\ wasPrepassed \subseteq wasPrepassed'
  /\ top.op \in PrepassOps => Begun' = Begun
  /\ \A f \in Lower : f.op \in InsideOps =>
       /\ f.mod \in evaluating' \ suspended' /\ caller'[f.mod] = caller[f.mod]
       /\ Callers[f.mod] \subseteq Callers'[f.mod]
  /\ top.op \in EvaluateOps /\ Len(stack') < Len(stack) => top.mod \in Begun'
  /\ top.op \in EvaluateOps /\ Len(stack') >= Len(stack) =>
       stack'[Len(stack)].op \in EvaluateOps /\ stack'[Len(stack)].mod = top.mod

LEMMA OpsFacts ==
  /\ InsideOps \cap PrepassOps = {} /\ InsideOps \cap TellOps = {}
  /\ EvaluateOps \cap PrepassOps = {} /\ EvaluateOps \cap TellOps = {}
  /\ TellOps \cap OwnModeOps = {} /\ TellOps \cap PrepassOps = {} /\ TellOps \subseteq WaitedOps
  /\ VisitOps \subseteq InsideOps /\ VisitOps \subseteq EvaluateOps
  /\ InsideOps \cap (LoadOps \cup WaitedOps) = {} /\ InsideOps \subseteq OwnModeOps
  /\ EvaluateOps \cap (LoadOps \cup WaitedOps) = {} /\ EvaluateOps \subseteq OwnModeOps
  /\ PrepassOps \cap (LoadOps \cup WaitedOps) = {} /\ PrepassOps \subseteq OwnModeOps
  /\ LoadOps \cap (OwnModeOps \cup WaitedOps) = {}
BY DEF InsideOps, PrepassOps, TellOps, EvaluateOps, OwnModeOps, WaitedOps, VisitOps, LoadOps,
       OwnOps

LEMMA LowerKnows ==
  ASSUME Types, Nesting, CallsKnow, Depth > 0, KeepsLower, NEW f \in Lower
  PROVE  Knows(f)'
<1>1. stack \in Seq(GoodFrames)
  BY DEF Types
<1>2. /\ f \in InProgress /\ Knows(f)
  BY <1>1, CallsSplit DEF CallsKnow
<1>3. PICK i \in Below : f = stack[i]
  BY DEF Lower
<1>4. /\ i \in Positions /\ Len(stack) \in Positions /\ i < Len(stack) /\ i # Len(stack)
      /\ top = stack[Len(stack)]
  BY <1>1, TopFacts DEF Below, Positions
<1>5. f.op \notin LastOps
  BY <1>3, <1>4 DEF Nesting, NestedAt
<1>6. f.op = "prepassing" => Begun' = Begun
  <2>1. f.op = "prepassing" => top.op \in PrepassOps
    BY <1>3, <1>4 DEF Nesting, NestedPair
  <2> QED
    BY <2>1 DEF KeepsLower
<1>7. /\ Whole' = Whole /\ \A m : Imports(m)' = Imports(m) /\ childrenModuleSet' = childrenModuleSet
  BY SameGraphFacts, SameWorld DEF KeepsLower, SameGraph
<1>8. /\ Begun \subseteq Begun' /\ ended \subseteq ended' /\ wasPrepassed \subseteq wasPrepassed'
      /\ f.op \in InsideOps => f.mod \in evaluating' \ suspended'
  BY DEF KeepsLower
<1> QED
  BY <1>2, <1>5, <1>6, <1>7, <1>8 DEF Knows, LastOps

LEMMA LowerNests ==
  ASSUME Types, Nesting, CallsKnow, Depth > 0, KeepsLower, NEW i \in Below
  PROVE  /\ NestedAt(i)' /\ CalledAt(i)'
         /\ \A j \in Below : i < j => NestedPair(i, j)'
<1>1. stack \in Seq(GoodFrames) /\ TopMove
  BY DEF Types, KeepsLower
<1>2. /\ Len(stack) \in Nat /\ Len(stack) > 0 /\ Len(stack) \in Positions
      /\ top = stack[Len(stack)]
      /\ Positions = Below \cup {Len(stack)} /\ Below \subseteq Positions'
      /\ \A k \in Below : k \in Nat /\ k >= 1 /\ k < Len(stack) /\ stack'[k] = stack[k]
      /\ \A k \in Below : k + 1 \in Below \/ k + 1 = Len(stack)
      /\ \A k \in Below : k = 1 \/ k - 1 \in Below
  BY <1>1, TopFacts, TopMoveFacts DEF Below
<1>3. NestedAt(i) /\ CalledAt(i) /\ i \in Positions /\ i # Len(stack)
  BY <1>2 DEF Nesting
<1>4. NestedAt(i)'
  <2>1. stack[i].op \notin LastOps
    BY <1>3 DEF NestedAt
  <2>2. ASSUME stack[i].op = "child"
        PROVE  IF i = Len(stack') THEN Head(stack[i].rest) \in Begun'
               ELSE /\ stack'[i + 1].op \in EvaluateOps
                    /\ stack'[i + 1].mod = Head(stack[i].rest)
    <3>1. stack[i + 1].op \in EvaluateOps /\ stack[i + 1].mod = Head(stack[i].rest)
      BY <1>3, <2>2 DEF NestedAt
    <3>2. CASE i + 1 \in Below
      <4>1. i # Len(stack')
        BY <1>2, <3>2 DEF Positions
      <4> QED
        BY <1>2, <3>1, <3>2, <4>1
    <3>3. CASE i + 1 = Len(stack)
      <4>1. /\ top.op \in EvaluateOps /\ top.mod = Head(stack[i].rest)
        BY <1>2, <3>1, <3>3
      <4>2. CASE Len(stack') < Len(stack)
        <5>1. Len(stack') = i
          BY <1>1, <1>2, <3>3, <4>2 DEF TopMove
        <5> QED
          BY <4>1, <4>2, <5>1 DEF KeepsLower
      <4>3. CASE Len(stack') >= Len(stack)
        <5>1. i # Len(stack')
          BY <1>2, <4>3
        <5> QED
          BY <3>3, <4>1, <4>3, <5>1 DEF KeepsLower
      <4> QED
        BY <1>1, <1>2, <4>2, <4>3 DEF TopMove
    <3> QED
      BY <1>2, <3>2, <3>3
  <2>3. stack[i].op \in EvaluateOps => i = 1 \/ stack'[i - 1].op = "child"
    BY <1>2, <1>3 DEF NestedAt
  <2>4. stack'[i] = stack[i]
    BY <1>2
  <2> QED
    BY <2>1, <2>2, <2>3, <2>4 DEF NestedAt
<1>5. CalledAt(i)'
  <2>1. stack'[i] = stack[i] /\ stack[i] \in Lower
    BY <1>2 DEF Lower
  <2>2. ASSUME stack[i].op \in InsideOps, caller'[stack[i].mod] # None
        PROVE  \E j \in Positions' : /\ j < i /\ stack'[j].op = "child"
                                     /\ stack'[j].mod = caller'[stack[i].mod]
    <3>1. caller'[stack[i].mod] = caller[stack[i].mod]
      BY <2>1, <2>2 DEF KeepsLower
    <3>2. PICK j \in Positions : /\ j < i /\ stack[j].op = "child"
                                 /\ stack[j].mod = caller[stack[i].mod]
      BY <1>3, <2>2, <3>1 DEF CalledAt
    <3>3. j \in Below
      BY <1>2, <3>2
    <3> QED
      BY <1>2, <3>1, <3>2, <3>3
  <2> QED
    BY <2>1, <2>2 DEF CalledAt
<1>6. ASSUME NEW j \in Below, i < j PROVE NestedPair(i, j)'
  <2>1. NestedPair(i, j)
    BY <1>2, <1>6 DEF Nesting
  <2>2. stack'[i] = stack[i] /\ stack'[j] = stack[j] /\ stack[j] \in Lower
    BY <1>2 DEF Lower
  <2>3. Reach' = Reach
    BY SameWorld DEF KeepsLower, SameGraph
  <2>4. stack[j].op \in InsideOps => Callers[stack[j].mod] \subseteq Callers'[stack[j].mod]
    BY <2>2 DEF KeepsLower
  <2> QED
    BY <2>1, <2>2, <2>3, <2>4 DEF NestedPair
<1> QED
  BY <1>4, <1>5, <1>6

\* The calls of a step that returns are in order.
LEMMA ReturnKeeps ==
  ASSUME Types, Nesting, CallsKnow, Depth > 0, KeepsLower, Return
  PROVE  Nesting' /\ CallsKnow'
<1>1. Positions' = Below /\ InProgress' = Lower
  BY ReturnMove, ReturnCalls DEF Types
<1>2. Nesting'
  BY <1>1, LowerNests DEF Nesting
<1>3. CallsKnow'
  BY <1>1, LowerKnows DEF CallsKnow
<1> QED
  BY <1>2, <1>3

LEMMA BecomesKeeps ==
  ASSUME Types, Nesting, CallsKnow, Depth > 0, KeepsLower, NEW f \in GoodFrames, Becomes(f),
         NEW n \in Nat, n = Len(stack), NestedAt(n)', CalledAt(n)', Knows(f)',
         \A i \in Below : NestedPair(i, n)'
  PROVE  Nesting' /\ CallsKnow'
<1>1. /\ Positions' = Below \cup {n} /\ InProgress' = Lower \cup {f}
      /\ \A i \in Below : i < n /\ i \in Nat
  BY BecomesMove, BecomesCalls, TopFacts DEF Types, Below
<1>a. \A i \in Positions' : NestedAt(i)' /\ CalledAt(i)'
  BY <1>1, LowerNests
<1>b. ASSUME NEW i \in Positions', NEW j \in Positions', i < j PROVE NestedPair(i, j)'
  <2>1. i \in Below
    BY <1>1, <1>b
  <2>2. CASE j \in Below
    BY <1>b, <2>1, <2>2, LowerNests
  <2>3. CASE j = n
    BY <2>1, <2>3
  <2> QED
    BY <1>1, <2>2, <2>3
<1>2. Nesting'
  BY <1>a, <1>b DEF Nesting
<1>3. CallsKnow'
  BY <1>1, LowerKnows DEF CallsKnow
<1> QED
  BY <1>2, <1>3

LEMMA CallsKeeps ==
  ASSUME Types, Nesting, CallsKnow, Depth > 0, KeepsLower,
         NEW f \in GoodFrames, NEW g \in GoodFrames, Calls(f, g),
         NEW n \in Nat, n = Len(stack), NestedAt(n)', CalledAt(n)', Knows(f)',
         NestedAt(n + 1)', CalledAt(n + 1)', Knows(g)',
         \A i \in Below : NestedPair(i, n)' /\ NestedPair(i, n + 1)',
         NestedPair(n, n + 1)'
  PROVE  Nesting' /\ CallsKnow'
<1>1. /\ Positions' = Below \cup {n, n + 1} /\ InProgress' = Lower \cup {f, g}
      /\ \A i \in Below : i < n /\ i \in Nat
  BY CallsMove, CallsCalls, TopFacts DEF Types, Below
<1>a. \A i \in Positions' : NestedAt(i)' /\ CalledAt(i)'
  BY <1>1, LowerNests
<1>b. ASSUME NEW i \in Positions', NEW j \in Positions', i < j PROVE NestedPair(i, j)'
  <2>1. CASE j \in Below
    <3>1. i \in Below
      BY <1>1, <1>b, <2>1
    <3> QED
      BY <1>b, <2>1, <3>1, LowerNests
  <2>2. CASE j = n
    <3>1. i \in Below
      BY <1>1, <1>b, <2>2
    <3> QED
      BY <2>2, <3>1
  <2>3. CASE j = n + 1
    <3>1. i \in Below \/ i = n
      BY <1>1, <1>b, <2>3
    <3> QED
      BY <2>3, <3>1
  <2> QED
    BY <1>1, <2>1, <2>2, <2>3
<1>2. Nesting'
  BY <1>a, <1>b DEF Nesting
<1>3. CallsKnow'
  BY <1>1, LowerKnows DEF CallsKnow
<1> QED
  BY <1>2, <1>3

-----------------------------------------------------------------------------
(* The two modes of evaluation, and the prepass.                           *)

LEMMA TopState ==
  ASSUME Types, Depth > 0
  PROVE  /\ stack \in Seq(GoodFrames) /\ DataTypes
         /\ Len(stack) \in Nat /\ Len(stack) > 0 /\ Len(stack) \in Positions
         /\ top = stack[Len(stack)] /\ top \in GoodFrames
         /\ Positions = Below \cup {Len(stack)} /\ Len(stack) \notin Below
         /\ \A i \in Below : i \in Nat /\ i >= 1 /\ i < Len(stack) /\ stack[i] \in Lower
         /\ InProgress = Lower \cup {top}
         /\ \A f \in InProgress : f.mod \in Modules /\ f.rest \in Seq(Modules)
         /\ top.mod \in Modules /\ top.rest \in Seq(Modules)
<1>1. stack \in Seq(GoodFrames) /\ DataTypes
  BY DEF Types
<1>2. /\ Len(stack) \in Nat /\ Len(stack) > 0 /\ Len(stack) \in Positions
      /\ top = stack[Len(stack)]
      /\ \A i \in Positions : stack[i].mod \in Modules /\ stack[i].rest \in Seq(Modules)
  BY <1>1, TopFacts
<1>3. /\ Positions = Below \cup {Len(stack)} /\ Len(stack) \notin Below
      /\ \A i \in Below : i \in Nat /\ i >= 1 /\ i < Len(stack)
  BY <1>2 DEF Positions, Below
<1>4. InProgress = Lower \cup {top} /\ top \in GoodFrames
  BY <1>1, CallsSplit
<1> QED
  BY <1>1, <1>2, <1>3, <1>4 DEF InProgress, Lower

LEMMA OwnMode ==
  ASSUME Types, Modes, Depth > 0, top.op \in OwnModeOps \ {"complete"}
  PROVE  /\ Evaluation /\ Tells = {}
         /\ \A f \in InProgress : f.op \in OwnModeOps
<1>1. Len(stack) \in Positions /\ top = stack[Len(stack)]
  BY TopState
<1>2. OwnModeOps \cap LoadOps = {} /\ OwnModeOps \cap WaitedOps \subseteq {"complete"}
  BY DEF OwnModeOps, EvaluateOps, PrepassOps, OwnOps, LoadOps, WaitedOps
<1>3. Evaluation
  BY <1>1, <1>2 DEF Modes
<1>4. \A f \in InProgress : f.op \in OwnModeOps
  BY <1>3 DEF Modes, InProgress
<1>5. Tells = {}
  BY <1>4, OpsFacts DEF Tells, TellsIn
<1> QED
  BY <1>3, <1>4, <1>5

LEMMA NotEvaluating ==
  ASSUME Modes, ~Evaluation
  PROVE  Inside = {} /\ Visits = {}
<1>1. \A f \in InProgress : f.op \notin InsideOps
  BY OpsFacts DEF Modes, InProgress
<1> QED
  BY <1>1, OpsFacts DEF Inside, InsideIn, Visits, VisitsIn

LEMMA WaitedMode ==
  ASSUME Types, Modes, Depth > 0, top.op \in WaitedOps,
         top.op # "complete" \/ ~Evaluation
  PROVE  /\ ~Evaluation /\ Inside = {} /\ Visits = {}
         /\ \A i \in Positions : stack[i].op \in WaitedOps
<1>1. Len(stack) \in Positions /\ top = stack[Len(stack)]
  BY TopState
<1>2. OwnModeOps \cap WaitedOps \subseteq {"complete"} /\ LoadOps \cap WaitedOps = {}
  BY DEF OwnModeOps, EvaluateOps, PrepassOps, OwnOps, LoadOps, WaitedOps
<1>3. ~Evaluation
  BY <1>1, <1>2 DEF Modes
<1>4. \A i \in Positions : stack[i].op \in WaitedOps
  BY <1>1, <1>2, <1>3 DEF Modes
<1> QED
  BY <1>3, <1>4, NotEvaluating

LEMMA OneOrMore ==
  ASSUME NEW n \in Nat, n > 0
  PROVE  n = 1 \/ n > 1
OBVIOUS

LEMMA ModesOwn ==
  ASSUME Types, Modes, Depth > 0, KeepsLower, Evaluation,
         \A i \in Positions' \ Below : stack'[i].op \in OwnModeOps
  PROVE  /\ Modes'
         /\ Len(stack') > 0 => Evaluation' /\ stack'[1].mod = stack[1].mod
<1>1. /\ Len(stack) \in Nat /\ Len(stack) > 0 /\ top = stack[Len(stack)]
      /\ stack \in Seq(GoodFrames) /\ TopMove
      /\ Len(stack') \in {Len(stack) - 1, Len(stack), Len(stack) + 1}
  BY TopState DEF KeepsLower, TopMove
<1>2. ASSUME Len(stack') > 0 PROVE Evaluation' /\ stack'[1].mod = stack[1].mod
  <2>1. CASE Len(stack) = 1
    <3>1. Len(stack') >= Len(stack)
      BY <1>1, <1>2, <2>1
    <3> QED
      BY <1>1, <1>2, <2>1, <3>1 DEF KeepsLower, Evaluation
  <2>2. CASE Len(stack) > 1
    <3>1. stack'[1] = stack[1]
      BY <1>1, <2>2 DEF TopMove, Below
    <3> QED
      BY <1>2, <3>1 DEF Evaluation
  <2>3. Len(stack) = 1 \/ Len(stack) > 1
    BY <1>1, OneOrMore
  <2> QED
    BY <2>1, <2>2, <2>3
<1>3. \A i \in Positions' : stack'[i].op \in OwnModeOps
  <2>1. ASSUME NEW i \in Below PROVE stack'[i].op \in OwnModeOps
    BY <1>1, <2>1, TopState DEF Modes, TopMove
  <2> QED
    BY <2>1
<1>4. Len(stack') = 0 => Positions' = {}
  BY DEF Positions
<1>5. Len(stack') > 0 \/ Len(stack') = 0
  BY <1>1
<1>6. ~Evaluation' => Len(stack') = 0
  BY <1>2, <1>5
<1>7. Evaluation' => \A i \in Positions' : stack'[i].op \in OwnModeOps
  BY <1>3
<1> QED
  BY <1>2, <1>4, <1>6, <1>7 DEF Modes

LEMMA ModesWaited ==
  ASSUME Types, Modes, Depth > 0, TopMove, ~Evaluation, top.op \in WaitedOps,
         \A i \in Positions' \ Below : stack'[i].op \in WaitedOps
  PROVE  Modes' /\ ~Evaluation'
<1>1. \A i \in Positions : stack[i].op \in WaitedOps
  BY WaitedMode
<1>2. \A i \in Positions' : stack'[i].op \in WaitedOps
  <2>1. ASSUME NEW i \in Below PROVE stack'[i].op \in WaitedOps
    BY <1>1, <2>1, TopState DEF TopMove
  <2> QED
    BY <2>1
<1>3. ~Evaluation'
  <2>1. ASSUME Len(stack') > 0, stack'[1].op \in EvaluateOps PROVE FALSE
    <3>1. Len(stack') \in Nat
      BY TopState DEF TopMove
    <3>2. 1 \in Positions'
      BY <2>1, <3>1 DEF Positions
    <3> QED
      BY <1>2, <2>1, <3>2, OpsFacts
  <2> QED
    BY <2>1 DEF Evaluation
<1> QED
  BY <1>2, <1>3 DEF Modes

LEMMA PrepassedOwn ==
  ASSUME Types, Prepassed, Depth > 0, Evaluation, Evaluation', world' = world,
         stack'[1].mod = stack[1].mod, Begun \subseteq Begun',
         wasPrepassed' \subseteq wasPrepassed \cup {top.mod}, generator' \subseteq wasPrepassed',
         \A f \in InProgress' : f \in Lower \/ f.mod \in {top.mod} \cup Imports(top.mod)
  PROVE  Prepassed'
<1>1. InProgress = Lower \cup {top} /\ \A m : Imports(m)' = Imports(m)
  BY TopState, SameWorld
<1>2. ASSUME NEW S \in SUBSET Modules, ClosedUnderImports(S)', Begun' \subseteq S,
             stack'[1].mod \in S
      PROVE  wasPrepassed' \subseteq S /\ \A f \in InProgress' : f.mod \in S
  <2>1. ClosedUnderImports(S)
    BY <1>1, <1>2 DEF ClosedUnderImports
  <2>2. Begun \subseteq S /\ stack[1].mod \in S
    BY <1>2
  <2>3. wasPrepassed \subseteq S /\ \A f \in InProgress : f.mod \in S
    BY <2>1, <2>2 DEF Prepassed
  <2>4. top.mod \in S /\ Imports(top.mod) \subseteq S
    BY <1>1, <2>1, <2>3 DEF ClosedUnderImports
  <2> QED
    BY <1>1, <2>3, <2>4
<1> QED
  BY <1>2 DEF Prepassed

\* The evaluation that the host asked for returns.
LEMMA PrepassedEnds ==
  ASSUME Types, Prepassed, Visited, Depth > 0, Len(stack) = 1, Evaluation, Visits = {},
         top.mod \in Begun, Begun \subseteq Whole, Return, Begun' = Begun,
         UNCHANGED <<wasPrepassed, generator>>
  PROVE  Prepassed'
<1>1. Len(stack') = 0 /\ top = stack[1] /\ stack \in Seq(GoodFrames)
  BY TopState, ReturnMove
<1>2. ~Evaluation'
  BY <1>1 DEF Evaluation
<1>3. ClosedUnderImports(Begun) /\ Begun \in SUBSET Modules
  BY DEF Visited, ClosedUnderImports, Whole
<1>4. wasPrepassed \subseteq Begun
  BY <1>1, <1>3 DEF Prepassed
<1> QED
  BY <1>2, <1>4 DEF Prepassed

LEMMA PrepassedWaited ==
  ASSUME Prepassed, ~Evaluation, ~Evaluation', Begun \subseteq Begun',
         UNCHANGED <<wasPrepassed, generator>>
  PROVE  Prepassed'
BY DEF Prepassed

-----------------------------------------------------------------------------
(* Steps that leave the bodies alone.                                      *)

LEMMA KeepsQuiet ==
  ASSUME Types, CallsKnow, Depth > 0, TopMove, SameGraph,
         UNCHANGED <<evaluating, ended, suspended, caller>>, wasPrepassed \subseteq wasPrepassed',
         top.op \in EvaluateOps /\ Len(stack') < Len(stack) => top.mod \in Begun,
         top.op \in EvaluateOps /\ Len(stack') >= Len(stack) =>
           stack'[Len(stack)].op \in EvaluateOps /\ stack'[Len(stack)].mod = top.mod
  PROVE  KeepsLower
<1>1. Begun' = Begun /\ Callers' = Callers
  BY DEF Begun, Callers, CallersOf, Closure
<1>2. \A f \in Lower : Knows(f)
  BY TopState DEF CallsKnow
<1> QED
  BY <1>1, <1>2 DEF KeepsLower, Knows

\* A call of the module on the top that is in no class that the top is not in.
Like(f) ==
  /\ top.op \in PrepassOps => f.op \in PrepassOps
  /\ f.op \in EvaluateOps => top.op \in EvaluateOps
  /\ f.op = "FinishOwn" => top.op \in EvaluateOps \cup {"FinishOwn"}
  /\ f.op \in EvaluateOps \cup {"FinishOwn"} \cup TellOps => f.mod = top.mod
  /\ f.op \in InsideOps => /\ top.op \in InsideOps /\ caller'[top.mod] = caller[top.mod]
                           /\ Callers[top.mod] \subseteq Callers'[top.mod]
  /\ f.op \in TellOps => top.op \in TellOps

LEMMA LikeNests ==
  ASSUME Types, Nesting, Depth > 0, KeepsLower, NEW f, Like(f),
         NEW k \in Positions', k \notin Below, stack'[k] = f
  PROVE  CalledAt(k)' /\ \A i \in Below : NestedPair(i, k)'
<1> DEFINE n == Len(stack)
<1>1. /\ n \in Positions /\ top = stack[n] /\ Below \subseteq Positions'
      /\ \A i \in Below : i \in Positions /\ i < n /\ i < k /\ stack'[i] = stack[i]
      /\ \A i \in Positions : i < n => i \in Below
  <2>1. TopMove /\ k \in Nat /\ k >= 1
    BY TopState DEF KeepsLower, Positions
  <2>2. /\ n \in Nat /\ n \in Positions /\ top = stack[n] /\ n > 0
        /\ Below = 1 .. n - 1 /\ Positions = 1 .. n
        /\ Below \subseteq Positions'
    BY <2>1, TopState, TopMoveFacts DEF Below, Positions
  <2>3. k >= n
    BY <2>1, <2>2
  <2> HIDE DEF n
  <2> QED
    BY <2>1, <2>2, <2>3 DEF TopMove
<1>2. InsideOps \subseteq EvaluateOps \cup {"FinishOwn"}
  BY DEF InsideOps, EvaluateOps
<1>3. ASSUME NEW i \in Below PROVE NestedPair(i, k)'
  <2>1. NestedPair(i, n)
    BY <1>1 DEF Nesting
  <2>2. stack'[i] = stack[i] /\ top = stack[n] /\ Reach' = Reach
    BY <1>1, SameWorld DEF KeepsLower, SameGraph
  <2> QED
    BY <1>2, <2>1, <2>2 DEF NestedPair, Like
<1>4. CalledAt(k)'
  <2>1. CalledAt(n)
    BY <1>1 DEF Nesting
  <2>2. SUFFICES ASSUME f.op \in InsideOps, caller'[f.mod] # None
                 PROVE  \E j \in Positions' : /\ j < k /\ stack'[j].op = "child"
                                              /\ stack'[j].mod = caller'[f.mod]
    BY DEF CalledAt
  <2>3. top.op \in InsideOps /\ f.mod = top.mod /\ caller'[f.mod] = caller[top.mod]
    BY <1>2, <2>2 DEF Like
  <2>4. PICK j \in Positions : /\ j < n /\ stack[j].op = "child"
                               /\ stack[j].mod = caller[top.mod]
    BY <1>1, <2>1, <2>2, <2>3 DEF CalledAt
  <2>5. j \in Below
    BY <1>1, <2>4
  <2> QED
    BY <1>1, <2>3, <2>4, <2>5
<1> QED
  BY <1>3, <1>4

\* The top stays a call of an evaluation, and where it was.
LEMMA TopNests ==
  ASSUME Types, Nesting, Depth > 0, KeepsLower, NEW n \in Nat, n = Len(stack),
         Len(stack') >= n,
         stack'[n].op \in EvaluateOps => top.op \in EvaluateOps,
         stack'[n].op \in LastOps => Len(stack') = n,
         stack'[n].op # "child"
  PROVE  NestedAt(n)'
<1>1. /\ n \in Positions /\ top = stack[n] /\ n > 0 /\ n \in Nat /\ TopMove
      /\ n = 1 \/ n - 1 \in Below
  BY TopState DEF Below, KeepsLower
<1>2. NestedAt(n)
  BY <1>1 DEF Nesting
<1>3. stack'[n].op \in EvaluateOps => n = 1 \/ stack'[n - 1].op = "child"
  BY <1>1, <1>2 DEF NestedAt, TopMove
<1> QED
  BY <1>3 DEF NestedAt

LEMMA BecomesLike ==
  ASSUME Types, Nesting, CallsKnow, Depth > 0, KeepsLower, NEW f \in GoodFrames, Becomes(f),
         Like(f), f.op # "child", Knows(f)'
  PROVE  Nesting' /\ CallsKnow'
<1>1. PICK n \in Nat : n = Len(stack)
  BY TopState
<1>2. Positions' = Below \cup {n} /\ Len(stack') = n /\ stack'[n] = f /\ n \notin Below
  BY <1>1, BecomesMove, TopState
<1>3. NestedAt(n)'
  BY <1>1, <1>2, TopNests DEF Like
<1>4. CalledAt(n)' /\ \A i \in Below : NestedPair(i, n)'
  BY <1>2, LikeNests
<1> QED
  BY <1>1, <1>3, <1>4, BecomesKeeps

LEMMA CallsLike ==
  ASSUME Types, Nesting, CallsKnow, Depth > 0, KeepsLower,
         NEW f \in GoodFrames, NEW g \in GoodFrames, Calls(f, g),
         Like(f), Like(g), Knows(f)', Knows(g)',
         f.op \notin LastOps \cup InsideOps, g.op \notin EvaluateOps \cup TellOps,
         f.op \in {"prepassing", "prepassChild"} => g.op \in PrepassOps
  PROVE  Nesting' /\ CallsKnow'
<1>1. PICK n \in Nat : n = Len(stack)
  BY TopState
<1>2. /\ Positions' = Below \cup {n, n + 1} /\ Len(stack') = n + 1 /\ n + 1 \in Nat
      /\ stack'[n] = f /\ stack'[n + 1] = g /\ n \notin Below /\ n + 1 \notin Below
  BY <1>1, CallsMove, TopState DEF Below
<1>3. NestedAt(n)'
  BY <1>1, <1>2, TopNests DEF Like, InsideOps
<1>4. CalledAt(n)' /\ \A i \in Below : NestedPair(i, n)'
  BY <1>2, LikeNests
<1>5. CalledAt(n + 1)' /\ \A i \in Below : NestedPair(i, n + 1)'
  BY <1>2, LikeNests
<1>6. NestedAt(n + 1)'
  BY <1>2 DEF NestedAt, EvaluateOps
<1>7. NestedPair(n, n + 1)'
  BY <1>2 DEF NestedPair, InsideOps
<1> QED
  BY <1>1, <1>3, <1>4, <1>5, <1>6, <1>7, CallsKeeps

\* What a single call is inside of, has to tell and to visit.
InsideOf(f) == IF f.op \in InsideOps THEN {f.mod} ELSE {}
TellsOf(f) == IF f.op \in TellOps THEN {f.mod} \X ToSet(f.rest) ELSE {}
VisitsOf(f) == IF f.op \in VisitOps THEN {f.mod} \X ToSet(f.rest) ELSE {}

LEMMA OneMore ==
  ASSUME NEW F, NEW f \in GoodFrames
  PROVE  /\ InsideIn(F \cup {f}) = InsideIn(F) \cup InsideOf(f)
         /\ TellsIn(F \cup {f}) = TellsIn(F) \cup TellsOf(f)
         /\ VisitsIn(F \cup {f}) = VisitsIn(F) \cup VisitsOf(f)
<1>1. f.mod \in Modules /\ f.rest \in Seq(Modules)
  BY DEF GoodFrames, Frames
<1>2. InsideIn(F \cup {f}) = InsideIn(F) \cup InsideOf(f)
  BY InsideAdds DEF InsideOf
<1>3. TellsIn(F \cup {f}) = TellsIn(F) \cup TellsOf(f)
  BY <1>1, TellsAdds DEF TellsOf
<1>4. VisitsIn(F \cup {f}) = VisitsIn(F) \cup VisitsOf(f)
  BY <1>1, VisitsAdds DEF VisitsOf
<1> QED
  BY <1>2, <1>3, <1>4

LEMMA TopSplit ==
  ASSUME Types, Depth > 0
  PROVE  /\ Inside = InsideIn(Lower) \cup InsideOf(top)
         /\ Tells = TellsIn(Lower) \cup TellsOf(top)
         /\ Visits = VisitsIn(Lower) \cup VisitsOf(top)
<1>1. InProgress = Lower \cup {top} /\ top \in GoodFrames
  BY TopState
<1> QED
  BY <1>1, OneMore DEF Inside, Tells, Visits

LEMMA ReturnSplit ==
  ASSUME Types, Depth > 0, Return
  PROVE  Inside' = InsideIn(Lower) /\ Tells' = TellsIn(Lower) /\ Visits' = VisitsIn(Lower)
<1>1. InProgress' = Lower
  BY ReturnCalls DEF Types
<1> QED
  BY <1>1 DEF Inside, Tells, Visits, InsideIn, TellsIn, VisitsIn

LEMMA BecomesSplit ==
  ASSUME Types, Depth > 0, NEW f \in GoodFrames, Becomes(f)
  PROVE  /\ Inside' = InsideIn(Lower) \cup InsideOf(f)
         /\ Tells' = TellsIn(Lower) \cup TellsOf(f)
         /\ Visits' = VisitsIn(Lower) \cup VisitsOf(f)
<1>1. InProgress' = Lower \cup {f}
  BY BecomesCalls DEF Types
<1>2. /\ Inside' = InsideIn(InProgress') /\ Tells' = TellsIn(InProgress')
      /\ Visits' = VisitsIn(InProgress')
  BY DEF Inside, Tells, Visits, InsideIn, TellsIn, VisitsIn
<1> QED
  BY <1>1, <1>2, OneMore

LEMMA BothSplit ==
  ASSUME Types, Depth > 0, NEW f \in GoodFrames, NEW g \in GoodFrames, Calls(f, g)
  PROVE  /\ Inside' = InsideIn(Lower) \cup InsideOf(f) \cup InsideOf(g)
         /\ Tells' = TellsIn(Lower) \cup TellsOf(f) \cup TellsOf(g)
         /\ Visits' = VisitsIn(Lower) \cup VisitsOf(f) \cup VisitsOf(g)
<1>1. InProgress' = (Lower \cup {f}) \cup {g}
  BY CallsCalls DEF Types
<1>2. /\ Inside' = InsideIn(InProgress') /\ Tells' = TellsIn(InProgress')
      /\ Visits' = VisitsIn(InProgress')
  BY DEF Inside, Tells, Visits, InsideIn, TellsIn, VisitsIn
<1>3. /\ InsideIn(Lower \cup {f}) = InsideIn(Lower) \cup InsideOf(f)
      /\ TellsIn(Lower \cup {f}) = TellsIn(Lower) \cup TellsOf(f)
      /\ VisitsIn(Lower \cup {f}) = VisitsIn(Lower) \cup VisitsOf(f)
  BY OneMore
<1> DEFINE F == Lower \cup {f}
<1>4. /\ InsideIn(F \cup {g}) = InsideIn(F) \cup InsideOf(g)
      /\ TellsIn(F \cup {g}) = TellsIn(F) \cup TellsOf(g)
      /\ VisitsIn(F \cup {g}) = VisitsIn(F) \cup VisitsOf(g)
  <2> HIDE DEF F
  <2> QED
    BY OneMore
<1> QED
  BY <1>1, <1>2, <1>3, <1>4

LEMMA BodyStays ==
  ASSUME BodyInv, world' = world, childrenModuleSet' = childrenModuleSet, Whole \subseteq Whole',
         UNCHANGED <<evaluating, awaitedModules, caller, suspended, runs, before, ended,
                     wasEvaluated>>,
         log.fulfilled' \subseteq ended,
         Inside' = Inside, Tells' = Tells,
         \A m \in Modules, c \in Modules : <<m, c>> \in Visits => <<m, c>> \in Visits' \/ c \in Begun,
         world \in Worlds
  PROVE  BodyInv'
<1>1. /\ Begun' = Begun /\ Callers' = Callers /\ Reach' = Reach
      /\ \A m : Imports(m)' = Imports(m)
  BY SameWorld DEF Begun, Callers, CallersOf, Closure
<1>2. Begun \subseteq Modules
  BY DEF BodyInv, Bodies, Whole
<1>3. Bodies'
  BY <1>1 DEF BodyInv, Bodies
<1>4. Visited'
  BY <1>1, <1>2, WorldType DEF BodyInv, Visited
<1>5. Counted'
  <2>1. Pending' = Pending
    BY DEF Pending, PendingOf
  <2> QED
    BY <2>1 DEF BodyInv, Counted
<1>6. CallersEvaluating'
  BY <1>1 DEF BodyInv, CallersEvaluating
<1>7. Suspended'
  BY <1>1 DEF BodyInv, Suspended
<1>8. Ordered'
  BY <1>1 DEF BodyInv, Ordered
<1> QED
  BY <1>3, <1>4, <1>5, <1>6, <1>7, <1>8 DEF BodyInv

-----------------------------------------------------------------------------
(* Where nothing fails, no step fails, and each request is resolved once.   *)

QuietFrames == {f \in OtherFrames : CalmCall(f)}

LEMMA QuietTypes ==
  /\ \A op \in {"child", "prepassChild"}, m \in Modules, rest \in Seq(Modules) :
       rest # <<>> => Loop(op, m, rest) \in QuietFrames
  /\ \A op \in PlainOps, m \in Modules : Call(op, m) \in QuietFrames
  /\ \A op \in PlainOps, m \in Modules, rest \in Seq(Modules) : Loop(op, m, rest) \in QuietFrames
<1>1. /\ \A op, m : Call(op, m).reason = None /\ Call(op, m).op = op
      /\ \A op, m, rest : Loop(op, m, rest).reason = None /\ Loop(op, m, rest).op = op
  BY DEF Call, Loop
<1>2. (PlainOps \cup {"child", "prepassChild"})
        \cap ({"parseFailed", "notParsed", "childFailed"} \cup RejectOps) = {}
  BY DEF PlainOps, RejectOps
<1> QED
  BY <1>1, <1>2, FrameTypes DEF QuietFrames, CalmCall

LEMMA NewCalls ==
  ASSUME stack \in Seq(GoodFrames), NEW F \in SUBSET GoodFrames, StackMove(F)
  PROVE  \A f \in InProgress' : f \in InProgress \/ f \in F
<1>1. CASE UNCHANGED stack
  BY <1>1 DEF InProgress, Positions
<1>2. ASSUME NEW f \in F, Begins(f) PROVE InProgress' = {f}
  BY <1>2, BeginsCalls
<1>3. Depth > 0 => Lower \subseteq InProgress
  BY CallsSplit
<1>4. CASE Depth > 0 /\ Return
  BY <1>3, <1>4, ReturnCalls
<1>5. ASSUME NEW f \in F, Depth > 0, Becomes(f) PROVE InProgress' = Lower \cup {f}
  BY <1>5, BecomesCalls
<1>6. ASSUME NEW f \in F, NEW g \in F, Depth > 0, Calls(f, g) PROVE InProgress' = Lower \cup {f, g}
  BY <1>6, CallsCalls
<1> QED
  BY <1>1, <1>2, <1>3, <1>4, <1>5, <1>6 DEF StackMove

LEMMA CalmMove ==
  ASSUME Types, Calm, Requesting, SameGraph, StackMove(QuietFrames), thrown' = None,
         log'.rejected = {}, log'.threw = {}, errorObject' = errorObject
  PROVE  Calm' /\ Requesting'
<1>1. \A f \in InProgress' : f \in InProgress \/ f \in QuietFrames
  BY NewCalls DEF Types, QuietFrames, OtherFrames
<1>2. Failed' = Failed
  BY DEF Failed
<1>3. Calm'
  BY <1>1, <1>2 DEF Calm, QuietFrames, CalmCall
<1>4. \A f \in QuietFrames : f.op \notin {"ParseSource", "resolve"}
  BY OpsApart DEF QuietFrames, OtherFrames, LoadOps
<1>5. Requesting'
  BY <1>1, <1>4 DEF Requesting, SameGraph
<1> QED
  BY <1>3, <1>5

LEMMA CalmTop ==
  ASSUME Types, Calm, Depth > 0
  PROVE  /\ thrown = None /\ CalmCall(top) /\ top.op \notin RejectOps
         /\ \A m \in Modules : errorObject[m] = None
<1>1. top \in InProgress
  BY TopState
<1> QED
  BY <1>1 DEF Calm, CalmCall, Failed

LEMMA EvaluateCalm ==
  ASSUME Types, Calm, EvaluateStep
  PROVE  /\ StackMove(QuietFrames) /\ thrown' = None /\ errorObject' = errorObject /\ log' = log
         /\ Depth > 0 /\ At(top.op)
<1>1. stack \in Seq(GoodFrames) /\ world \in Worlds
  BY DEF Types, DataTypes
<1>2. Depth > 0
  BY DEF EvaluateStep, ModuleEvaluationReturns, ModuleEvaluationPrepasses, PrepassRefuses,
         SetEvaluating, EvaluateChild, ChildEvaluated, ChildrenEvaluated, CatchInEvaluation,
         PrepassFails, PrepassBegins, PrepassChild, PrepassRethrows, PrepassNext, PrepassEnds, At
<1>3. /\ top.mod \in Modules /\ top.rest \in Seq(Modules)
      /\ top.op \in {"child", "prepassChild"} => top.rest # <<>>
  BY <1>1, <1>2, TopFacts
<1>4. top.rest # <<>> => Head(top.rest) \in Modules /\ Tail(top.rest) \in Seq(Modules)
  BY <1>3, HeadTail
<1>5. thrown = None /\ \A m \in Modules : errorObject[m] = None
  BY <1>2, CalmTop
<1>6. world.imports[top.mod] \in Seq(Modules)
  BY <1>1, <1>3, WorldType
<1> USE DEF PlainOps
<1>7. CASE ModuleEvaluationReturns \/ ModuleEvaluationPrepasses
  BY <1>2, <1>3, <1>5, <1>7, QuietTypes
  DEF ModuleEvaluationReturns, ModuleEvaluationPrepasses, At, StackMove, data, settleVars
<1>8. CASE SetEvaluating
  BY <1>2, <1>3, <1>5, <1>6, <1>8, QuietTypes DEF SetEvaluating, At, StackMove, settleVars
<1>9. CASE EvaluateChild \/ ChildEvaluated
  BY <1>2, <1>3, <1>4, <1>5, <1>9, QuietTypes
  DEF EvaluateChild, ChildEvaluated, At, StackMove, data, settleVars
<1>10. CASE ChildrenEvaluated
  BY <1>2, <1>3, <1>5, <1>10, QuietTypes DEF ChildrenEvaluated, At, StackMove, settleVars
<1>11. CASE PrepassBegins \/ PrepassNext \/ PrepassEnds
  BY <1>2, <1>3, <1>5, <1>11, QuietTypes
  DEF PrepassBegins, PrepassNext, PrepassEnds, At, StackMove, data, settleVars
<1>12. CASE PrepassChild
  <2>1. PICK c \in childrenModuleSet[top.mod] :
          Calls(Loop("prepassChild", top.mod, <<c>>), Call("Prepass", c))
    BY <1>12 DEF PrepassChild
  <2>2. c \in Modules /\ <<c>> \in Seq(Modules) /\ <<c>> # <<>>
    BY <1>3 DEF Types, DataTypes
  <2>3. StackMove(QuietFrames)
    BY <1>2, <1>3, <2>1, <2>2, QuietTypes DEF StackMove
  <2> QED
    BY <1>2, <1>5, <1>12, <2>3 DEF PrepassChild, At, data, settleVars
<1>13. CASE PrepassRefuses \/ CatchInEvaluation \/ PrepassFails
  BY <1>3, <1>5, <1>13 DEF PrepassRefuses, CatchInEvaluation, PrepassFails
<1>14. CASE PrepassRethrows
  <2>1. \A c \in childrenModuleSet[top.mod] : c \in Modules
    BY <1>3 DEF Types, DataTypes
  <2> QED
    BY <1>3, <1>4, <1>5, <1>14, <2>1 DEF PrepassRethrows, At
<1> QED
  BY <1>7, <1>8, <1>9, <1>10, <1>11, <1>12, <1>13, <1>14 DEF EvaluateStep

LEMMA SettledCalm ==
  ASSUME DataTypes, NEW m \in Modules
  PROVE  /\ LET l == Settled(m, "fulfilled") IN
              l \in Logs /\ l.rejected = log.rejected /\ l.threw = log.threw
                /\ l.fulfilled \subseteq log.fulfilled \cup {m}
         /\ \A l \in Logs : LET r == Reported(l, m, None) IN
              r.rejected = l.rejected /\ r.threw = l.threw /\ r.fulfilled = l.fulfilled
<1>1. Settled(m, "fulfilled") \in Logs /\ log \in Logs
  BY SettledTypes DEF DataTypes
<1>2. ASSUME NEW l \in Logs
      PROVE LET r == Reported(l, m, None) IN
              r.rejected = l.rejected /\ r.threw = l.threw /\ r.fulfilled = l.fulfilled
  BY DEF Reported, Logs
<1> QED
  BY <1>1, <1>2 DEF Settled, Logs

LEMMA FinishCalm ==
  ASSUME Types, Calm, Broken = {}, FinishStep
  PROVE  /\ StackMove(QuietFrames) /\ thrown' = None /\ errorObject' = errorObject
         /\ log'.rejected = {} /\ log'.threw = {}
         /\ log'.fulfilled \subseteq log.fulfilled \cup {top.mod}
         /\ log' = log \/ top.op \in {"complete", "fulfilled"}
         /\ Depth > 0 /\ At(top.op)
<1>1. stack \in Seq(GoodFrames) /\ DataTypes /\ log \in Logs /\ log.rejected = {} /\ log.threw = {}
  BY DEF Types, DataTypes, Calm
<1>2. Depth > 0
  BY DEF FinishStep, FinishNothing, FinishCrashes, FinishAsync, FinishSync, FinishThrows,
         TellParent, ParentsTold, Complete, FulfilledParent, NothingAwaited, CatchInWaited,
         FulfilledEnds, PropogateRejection, RejectParent, RejectEnds, Returns, Unwind, AtFinish, At
<1>3. /\ top.mod \in Modules /\ top.rest \in Seq(Modules) /\ top \in GoodFrames
      /\ parentModuleList[top.mod] \in Seq(Modules)
  BY <1>1, <1>2, TopState DEF DataTypes
<1>4. top.rest # <<>> => Head(top.rest) \in Modules /\ Tail(top.rest) \in Seq(Modules)
  BY <1>3, HeadTail
<1>5. thrown = None /\ CalmCall(top) /\ top.op \notin RejectOps
  BY <1>2, CalmTop
<1>6. top.rest # <<>> /\ top.op \in {"telling", "fulfilled"} => Onward \in QuietFrames
  <2> SUFFICES ASSUME top.rest # <<>>, top.op \in {"telling", "fulfilled"} PROVE Onward \in QuietFrames
    OBVIOUS
  <2>1. Onward \in GoodFrames /\ Onward.op = top.op /\ Onward.reason = top.reason
    BY <1>1, <1>2, OnwardFacts
  <2> QED
    BY <1>5, <2>1 DEF QuietFrames, OtherFrames, OtherOps, WaitedOps, CalmCall
<1>7. world.throws = {}
  BY DEF Broken
<1> USE DEF PlainOps
<1>8. CASE FinishNothing \/ FinishCrashes \/ FinishAsync
  BY <1>1, <1>2, <1>5, <1>8
  DEF FinishNothing, FinishCrashes, FinishAsync, AtFinish, At, StackMove, data, settleVars
<1>9. CASE FinishSync
  BY <1>1, <1>2, <1>3, <1>5, <1>9, QuietTypes DEF FinishSync, AtFinish, At, StackMove
<1>10. CASE TellParent \/ FulfilledParent
  BY <1>1, <1>2, <1>4, <1>5, <1>6, <1>10, QuietTypes
  DEF TellParent, FulfilledParent, At, StackMove, settleVars
<1>11. CASE ParentsTold \/ NothingAwaited \/ Returns
  BY <1>1, <1>2, <1>3, <1>5, <1>11, QuietTypes
  DEF ParentsTold, NothingAwaited, Returns, At, StackMove, data, settleVars
<1>12. CASE Complete \/ FulfilledEnds
  <2>1. /\ log' = Reported(Settled(top.mod, "fulfilled"), top.mod, None)
           \/ log' = Settled(top.mod, "fulfilled") \/ log' = Reported(log, top.mod, None)
    BY <1>12 DEF Complete, FulfilledEnds
  <2>2. /\ log'.rejected = {} /\ log'.threw = {}
        /\ log'.fulfilled \subseteq log.fulfilled \cup {top.mod}
    BY <1>1, <1>3, <2>1, SettledCalm
  <2> QED
    BY <1>2, <1>5, <1>12, <2>2 DEF Complete, FulfilledEnds, At, StackMove
<1>13. CASE FinishThrows
  BY <1>7, <1>13 DEF FinishThrows
<1>14. CASE CatchInWaited \/ Unwind
  BY <1>5, <1>14 DEF CatchInWaited, Unwind
<1>15. CASE PropogateRejection \/ RejectParent \/ RejectEnds
  BY <1>5, <1>15 DEF PropogateRejection, RejectParent, RejectEnds, At, RejectOps
<1> QED
  BY <1>8, <1>9, <1>10, <1>11, <1>12, <1>13, <1>14, <1>15 DEF FinishStep

-----------------------------------------------------------------------------
(* ModuleEvaluation and the prepass, up to the body.                       *)

LEMMA OwnKeeps ==
  ASSUME Types, EvalInv, Depth > 0, KeepsLower, Evaluation, Nesting', CallsKnow',
         \A i \in Positions' \ Below : stack'[i].op \in OwnModeOps,
         wasPrepassed' \subseteq wasPrepassed \cup {top.mod}, generator' \subseteq wasPrepassed',
         \A f \in InProgress' : f \in Lower \/ f.mod \in {top.mod} \cup Imports(top.mod),
         Len(stack) = 1 /\ Len(stack') = 0 =>
           /\ Return /\ Visits = {} /\ top.mod \in Begun /\ Begun' = Begun
           /\ UNCHANGED <<wasPrepassed, generator>>
  PROVE  StackInv' /\ Prepassed'
<1>1. Modes' /\ (Len(stack') > 0 => Evaluation' /\ stack'[1].mod = stack[1].mod)
  BY ModesOwn DEF EvalInv, StackInv
<1>2. Prepassed /\ Visited /\ Begun \subseteq Whole /\ Begun \subseteq Begun' /\ world' = world
  BY DEF EvalInv, BodyInv, Bodies, KeepsLower, SameGraph
<1>3. Len(stack) \in Nat /\ Len(stack) > 0 /\ Len(stack') \in {Len(stack) - 1, Len(stack), Len(stack) + 1}
  BY TopState DEF KeepsLower, TopMove
<1>4. CASE Len(stack') > 0
  <2>1. Evaluation' /\ stack'[1].mod = stack[1].mod
    BY <1>1, <1>4
  <2>2. Prepassed'
    BY <1>2, <2>1, PrepassedOwn
  <2> QED
    BY <1>1, <2>2 DEF StackInv
<1>5. CASE Len(stack') = 0
  <2>1. Len(stack) = 1
    BY <1>3, <1>5
  <2> QED
    BY <1>1, <1>2, <1>5, <2>1, PrepassedEnds DEF StackInv
<1>6. Len(stack') > 0 \/ Len(stack') = 0
  BY <1>3
<1> QED
  BY <1>1, <1>4, <1>5, <1>6 DEF StackInv

\* A call returns that has left the bodies alone.
LEMMA ReturnQuiet ==
  ASSUME Types, EvalInv, Depth > 0, Evaluation, Return, SameGraph,
         UNCHANGED <<evaluating, awaitedModules, caller, suspended, runs, before, ended,
                     wasEvaluated, wasPrepassed>>,
         log'.fulfilled \subseteq ended,
         top.op \notin InsideOps \cup TellOps, top.op \in EvaluateOps => top.mod \in Begun,
         generator' \subseteq wasPrepassed, top.op \in EvaluateOps => generator' = generator
  PROVE  StackInv' /\ Prepassed' /\ BodyInv'
<1>1. /\ TopMove /\ Positions' = Below /\ Len(stack') = Len(stack) - 1 /\ InProgress' = Lower
      /\ Len(stack) \in Nat /\ top = stack[Len(stack)]
  BY ReturnMove, ReturnCalls, TopState
<1>2. KeepsLower
  BY <1>1, KeepsQuiet DEF EvalInv, StackInv
<1>3. Nesting' /\ CallsKnow'
  BY <1>2, ReturnKeeps DEF EvalInv, StackInv
<1>4. /\ Inside = InsideIn(Lower) /\ Tells = TellsIn(Lower) /\ Visits = VisitsIn(Lower)
  BY TopSplit, OpsFacts DEF InsideOf, TellsOf, VisitsOf
<1>5. Inside' = Inside /\ Tells' = Tells /\ Visits' = Visits
  BY <1>4, ReturnSplit
<1>6. BodyInv'
  <2>1. Whole' = Whole /\ world' = world /\ world \in Worlds
    BY SameGraphFacts DEF SameGraph, Types, DataTypes
  <2> QED
    BY <1>5, <2>1, BodyStays DEF EvalInv, SameGraph
<1>7. Len(stack) = 1 => /\ Visits = {} /\ top.mod \in Begun /\ generator' = generator
  <2>1. ASSUME Len(stack) = 1 PROVE Lower = {} /\ top.op \in EvaluateOps
    BY <1>1, <2>1 DEF Lower, Below, Evaluation
  <2>2. VisitsIn({}) = {}
    BY DEF VisitsIn
  <2> QED
    BY <1>4, <2>1, <2>2
<1>8. Begun' = Begun
  BY DEF Begun
<1> QED
  BY <1>1, <1>2, <1>3, <1>6, <1>7, <1>8, OwnKeeps

LEMMA BecomesQuiet ==
  ASSUME Types, EvalInv, Depth > 0, Evaluation, NEW f \in GoodFrames, Becomes(f), SameGraph,
         UNCHANGED <<evaluating, awaitedModules, caller, suspended, runs, before, ended,
                     wasEvaluated, log, generator>>,
         wasPrepassed \subseteq wasPrepassed', wasPrepassed' \subseteq wasPrepassed \cup {top.mod},
         f.mod = top.mod, f.op \in OwnModeOps \ {"child"},
         top.op \in EvaluateOps <=> f.op \in EvaluateOps,
         top.op \in PrepassOps <=> f.op \in PrepassOps,
         top.op \in InsideOps <=> f.op \in InsideOps,
         f.op # "FinishOwn", Knows(f)',
         \A c : <<top.mod, c>> \in VisitsOf(top) => <<top.mod, c>> \in VisitsOf(f) \/ c \in Begun
  PROVE  StackInv' /\ Prepassed' /\ BodyInv'
<1>1. /\ TopMove /\ Positions' = Below \cup {Len(stack)} /\ Len(stack') = Len(stack)
      /\ InProgress' = Lower \cup {f} /\ Len(stack) \in Nat /\ Len(stack) > 0
      /\ stack'[Len(stack)] = f
  BY BecomesMove, BecomesCalls, TopState
<1>2. KeepsLower
  BY <1>1, KeepsQuiet DEF EvalInv, StackInv
<1>3. Callers' = Callers /\ f.op \notin TellOps /\ top.op \notin TellOps
  <2>1. Callers' = Callers
    BY DEF Callers, CallersOf, Closure
  <2>2. f.op \notin TellOps
    BY OpsFacts
  <2>3. top \in InProgress /\ \A i \in Positions : stack[i].op \in OwnModeOps
    BY TopState DEF EvalInv, StackInv, Modes
  <2> QED
    BY <2>1, <2>2, <2>3, OpsFacts DEF InProgress
<1>4. Like(f)
  BY <1>3, OpsFacts DEF Like
<1>5. Nesting' /\ CallsKnow'
  BY <1>2, <1>4, BecomesLike DEF EvalInv, StackInv
<1>6. Inside' = Inside /\ Tells' = Tells
  BY <1>3, TopSplit, BecomesSplit DEF InsideOf, TellsOf
<1>7. \A m \in Modules, c \in Modules : <<m, c>> \in Visits => <<m, c>> \in Visits' \/ c \in Begun
  BY TopSplit, BecomesSplit DEF VisitsOf
<1>8. BodyInv'
  <2>1. Whole' = Whole /\ world' = world /\ world \in Worlds
    BY SameGraphFacts DEF SameGraph, Types, DataTypes
  <2>2. log'.fulfilled \subseteq ended
    BY DEF EvalInv, BodyInv, Bodies
  <2> QED
    BY <1>6, <1>7, <2>1, <2>2, BodyStays DEF EvalInv, SameGraph
<1>9. generator' \subseteq wasPrepassed'
  BY DEF EvalInv, Prepassed
<1> QED
  BY <1>1, <1>2, <1>5, <1>8, <1>9, OwnKeeps

LEMMA CallsQuiet ==
  ASSUME Types, EvalInv, Depth > 0, Evaluation, NEW f \in GoodFrames, NEW g \in GoodFrames,
         Calls(f, g), SameGraph,
         UNCHANGED <<evaluating, awaitedModules, caller, suspended, runs, before, ended,
                     wasEvaluated, log, generator, wasPrepassed>>,
         f.mod = top.mod, g.mod \in {top.mod} \cup Imports(top.mod),
         f.op \in OwnModeOps, g.op \in OwnModeOps,
         top.op \in EvaluateOps => f.op \in EvaluateOps,
         KeepsLower => Nesting' /\ CallsKnow',
         InsideOf(f) \cup InsideOf(g) = InsideOf(top),
         VisitsOf(top) \subseteq VisitsOf(f)
  PROVE  StackInv' /\ Prepassed' /\ BodyInv'
<1>1. /\ TopMove /\ Positions' = Below \cup {Len(stack), Len(stack) + 1}
      /\ Len(stack') = Len(stack) + 1
      /\ InProgress' = Lower \cup {f, g} /\ Len(stack) \in Nat /\ Len(stack) > 0
      /\ stack'[Len(stack)] = f /\ stack'[Len(stack) + 1] = g
  BY CallsMove, CallsCalls, TopState
<1>2. KeepsLower
  BY <1>1, KeepsQuiet DEF EvalInv, StackInv
<1>3. f.op \notin TellOps /\ g.op \notin TellOps /\ top.op \notin TellOps
  <2>1. f.op \notin TellOps /\ g.op \notin TellOps
    BY OpsFacts
  <2>2. top \in InProgress /\ \A i \in Positions : stack[i].op \in OwnModeOps
    BY TopState DEF EvalInv, StackInv, Modes
  <2> QED
    BY <2>1, <2>2, OpsFacts DEF InProgress
<1>6. Inside' = Inside /\ Tells' = Tells
  BY <1>3, TopSplit, BothSplit DEF TellsOf
<1>7. \A m \in Modules, c \in Modules : <<m, c>> \in Visits => <<m, c>> \in Visits' \/ c \in Begun
  BY TopSplit, BothSplit
<1>8. BodyInv'
  <2>1. Whole' = Whole /\ world' = world /\ world \in Worlds
    BY SameGraphFacts DEF SameGraph, Types, DataTypes
  <2>2. log'.fulfilled \subseteq ended
    BY DEF EvalInv, BodyInv, Bodies
  <2> QED
    BY <1>6, <1>7, <2>1, <2>2, BodyStays DEF EvalInv, SameGraph
<1>9. generator' \subseteq wasPrepassed'
  BY DEF EvalInv, Prepassed
<1> QED
  BY <1>1, <1>2, <1>8, <1>9, OwnKeeps

LEMMA KnowsSame ==
  ASSUME SameGraph, NEW f, Knows(f), wasPrepassed \subseteq wasPrepassed',
         UNCHANGED <<evaluating, suspended, ended, awaitedModules>>
  PROVE  Knows(f)'
<1>1. /\ Whole' = Whole /\ \A m : Imports(m)' = Imports(m)
      /\ childrenModuleSet' = childrenModuleSet /\ Begun' = Begun
  BY SameGraphFacts, SameWorld DEF SameGraph, Begun
<1> QED
  BY <1>1 DEF Knows

\* The state of a step of ModuleEvaluation or of its prepass.
LEMMA OwnTop ==
  ASSUME GraphInv, EvalInv, NEW op \in OwnModeOps \ {"complete"}, At(op)
  PROVE  /\ Types /\ Depth > 0 /\ top.op = op /\ world \in Worlds
         /\ Evaluation /\ Tells = {} /\ Knows(top)
         /\ top.mod \in Modules /\ top.rest \in Seq(Modules) /\ top \in GoodFrames
         /\ op \in EvaluateOps => top.mod \in Whole
         /\ op \in VisitOps => ToSet(top.rest) \subseteq Imports(top.mod)
         /\ wasEvaluated = ended /\ \A m \in Modules : errorObject[m] = None
         /\ log.fulfilled \subseteq ended /\ generator \subseteq wasPrepassed
<1>1. Types /\ Depth > 0 /\ top.op = op /\ world \in Worlds
  BY DEF GraphInv, At, Types, DataTypes
<1>2. Evaluation /\ Tells = {}
  BY <1>1, OwnMode DEF EvalInv, StackInv
<1>3. /\ top.mod \in Modules /\ top.rest \in Seq(Modules) /\ top \in GoodFrames
      /\ top \in InProgress
  BY <1>1, TopState
<1>4. Knows(top)
  BY <1>3 DEF EvalInv, StackInv, CallsKnow
<1> QED
  BY <1>1, <1>2, <1>3, <1>4 DEF Knows, EvalInv, BodyInv, Bodies, Calm, Failed, Prepassed

LEMMA EvaluationReturnsKeeps ==
  ASSUME GraphInv, EvalInv, ModuleEvaluationReturns
  PROVE  StackInv' /\ Prepassed' /\ BodyInv'
<1>1. At("ModuleEvaluation") /\ Return /\ UNCHANGED data /\ top.mod \in wasEvaluated \cup evaluating
  BY DEF ModuleEvaluationReturns
<1>2. "ModuleEvaluation" \in EvaluateOps \ (InsideOps \cup TellOps \cup {"complete"})
  BY DEF EvaluateOps, InsideOps, TellOps
<1>3. /\ Types /\ Depth > 0 /\ top.op = "ModuleEvaluation" /\ Evaluation /\ wasEvaluated = ended
      /\ log.fulfilled \subseteq ended /\ generator \subseteq wasPrepassed
  BY <1>1, <1>2, OwnTop, OpsFacts
<1>4. top.mod \in Begun
  BY <1>1, <1>3 DEF Begun
<1> QED
  BY <1>1, <1>2, <1>3, <1>4, ReturnQuiet
  DEF data, evalState, bodyVars, prepassVars, settleVars, SameGraph, loadState, loadVars

LEMMA EvaluationPrepassesKeeps ==
  ASSUME GraphInv, EvalInv, ModuleEvaluationPrepasses
  PROVE  StackInv' /\ Prepassed' /\ BodyInv'
<1>1. At("ModuleEvaluation") /\ UNCHANGED data /\ top.mod \notin wasEvaluated \cup evaluating
  BY DEF ModuleEvaluationPrepasses
<1>2. "ModuleEvaluation" \in OwnModeOps \ {"complete"}
  BY DEF OwnModeOps, EvaluateOps
<1>3. /\ Types /\ Depth > 0 /\ top.op = "ModuleEvaluation" /\ Evaluation /\ wasEvaluated = ended
      /\ top.mod \in Whole /\ top.mod \in Modules /\ top.op \in EvaluateOps
  BY <1>1, <1>2, OwnTop DEF EvaluateOps
<1>4. PICK m \in Modules : m = top.mod
  BY <1>3
<1> DEFINE f == Call("prepassing", m)
           g == Call("Prepass", m)
<1>5. /\ f \in GoodFrames /\ g \in GoodFrames
      /\ f.op = "prepassing" /\ f.mod = m /\ g.op = "Prepass" /\ g.mod = m
  BY FrameTypes DEF PlainOps, OtherFrames, Call
<1>6. Calls(f, g)
  BY <1>4 DEF ModuleEvaluationPrepasses
<1> HIDE DEF f, g
<1>7. /\ SameGraph /\ UNCHANGED <<evaluating, awaitedModules, caller, suspended, runs, before, ended,
                                  wasEvaluated, log, generator, wasPrepassed>>
  BY <1>1 DEF data, evalState, bodyVars, prepassVars, settleVars, SameGraph, loadState, loadVars
<1>8. m \notin Begun
  BY <1>1, <1>3, <1>4 DEF Begun
<1>9. Knows(f)' /\ Knows(g)'
  <2>1. Knows(f) /\ Knows(g)
    BY <1>3, <1>4, <1>5, <1>8 DEF Knows, EvaluateOps, VisitOps, InsideOps, TellOps
  <2> QED
    BY <1>7, <2>1, KnowsSame
<1>10. ASSUME KeepsLower PROVE Nesting' /\ CallsKnow'
  <2>1. Like(f) /\ Like(g)
    BY <1>3, <1>4, <1>5 DEF Like, EvaluateOps, InsideOps, TellOps, PrepassOps
  <2> QED
    BY <1>3, <1>5, <1>6, <1>9, <1>10, <2>1, CallsLike
    DEF EvalInv, StackInv, LastOps, InsideOps, EvaluateOps, TellOps, PrepassOps
<1>11. /\ InsideOf(f) \cup InsideOf(g) = InsideOf(top) /\ VisitsOf(top) \subseteq VisitsOf(f)
       /\ f.op \in OwnModeOps /\ g.op \in OwnModeOps /\ f.op \in EvaluateOps
  BY <1>3, <1>5 DEF InsideOf, VisitsOf, InsideOps, VisitOps, OwnModeOps, EvaluateOps, PrepassOps
<1> QED
  BY <1>3, <1>4, <1>5, <1>6, <1>7, <1>10, <1>11, CallsQuiet

LEMMA EvaluateChildKeeps ==
  ASSUME GraphInv, EvalInv, EvaluateChild
  PROVE  StackInv' /\ Prepassed' /\ BodyInv'
<1>1. At("children") /\ UNCHANGED data /\ top.rest # <<>>
  BY DEF EvaluateChild
<1>2. "children" \in OwnModeOps \ {"complete"} /\ "children" \in EvaluateOps \cap VisitOps \cap InsideOps
  BY DEF OwnModeOps, EvaluateOps, VisitOps, InsideOps
<1>3. /\ Types /\ Depth > 0 /\ top.op = "children" /\ Evaluation /\ Knows(top)
      /\ top.mod \in Whole /\ top.mod \in Modules /\ top.rest \in Seq(Modules)
      /\ ToSet(top.rest) \subseteq Imports(top.mod) /\ world \in Worlds
  BY <1>1, <1>2, OwnTop
<1>4. PICK m \in Modules, r \in Seq(Modules) : m = top.mod /\ r = top.rest
  BY <1>3
<1>5. PICK c \in Modules : c = Head(r)
  BY <1>1, <1>4, HeadTail
<1>6. c \in Imports(m) /\ c \in Whole
  <2>1. c \in Imports(m)
    BY <1>1, <1>3, <1>4, <1>5, HeadTail
  <2> QED
    BY <1>3, <1>4, <2>1, WholeMember
<1> DEFINE f == Loop("child", m, r)
           g == Call("ModuleEvaluation", c)
<1>7. /\ f \in GoodFrames /\ g \in GoodFrames /\ f.op = "child" /\ f.mod = m /\ f.rest = r
      /\ g.op = "ModuleEvaluation" /\ g.mod = c
  BY <1>1, <1>4, FrameTypes DEF PlainOps, OtherFrames, Call, Loop
<1>8. Calls(f, g)
  BY <1>4, <1>5 DEF EvaluateChild
<1> HIDE DEF f, g
<1>9. /\ SameGraph /\ UNCHANGED <<evaluating, awaitedModules, caller, suspended, runs, before, ended,
                                  wasEvaluated, log, generator, wasPrepassed>>
  BY <1>1 DEF data, evalState, bodyVars, prepassVars, settleVars, SameGraph, loadState, loadVars
<1>10. Knows(f)' /\ Knows(g)'
  <2>1. Knows(f) /\ Knows(g)
    BY <1>2, <1>3, <1>4, <1>6, <1>7 DEF Knows, EvaluateOps, VisitOps, InsideOps, TellOps
  <2> QED
    BY <1>9, <2>1, KnowsSame
<1>11. ASSUME KeepsLower PROVE Nesting' /\ CallsKnow'
  <2>1. PICK n \in Nat : n = Len(stack)
    BY <1>3, TopState
  <2>2. /\ Positions' = Below \cup {n, n + 1} /\ Len(stack') = n + 1 /\ n + 1 \in Nat
        /\ stack'[n] = f /\ stack'[n + 1] = g /\ n \notin Below /\ n + 1 \notin Below
        /\ n \in Positions /\ top = stack[n] /\ n > 0
        /\ \A i \in Below : i \in Positions /\ i < n /\ stack'[i] = stack[i]
        /\ n = 1 \/ n - 1 \in Below
    <3>1. /\ stack \in Seq(GoodFrames) /\ n \in Positions /\ top = stack[n] /\ n > 0
          /\ Below = 1 .. n - 1 /\ Below \subseteq Positions
      BY <1>3, <2>1, TopState DEF Below
    <3>2. /\ Positions' = Below \cup {n, n + 1} /\ Len(stack') = n + 1 /\ TopMove
          /\ stack'[n] = f /\ stack'[n + 1] = g
      BY <1>3, <1>7, <1>8, <2>1, <3>1, CallsMove
    <3>3. n \notin Below /\ n + 1 \notin Below /\ n + 1 \in Nat /\ (\A i \in Below : i < n)
      BY <3>1
    <3>4. n = 1 \/ n - 1 \in Below
      BY <3>1
    <3> QED
      BY <3>1, <3>2, <3>3, <3>4 DEF TopMove
  <2>3. Callers' = Callers /\ Reach' = Reach
    BY <1>9, SameWorld DEF Callers, CallersOf, Closure, SameGraph
  <2>4. Nesting
    BY DEF EvalInv, StackInv
  <2>5. Like(f)
    BY <1>3, <1>4, <1>7, <1>9, <2>3 DEF Like, EvaluateOps, InsideOps, TellOps, PrepassOps
  <2>6. CalledAt(n)' /\ \A i \in Below : NestedPair(i, n)'
    BY <1>3, <1>11, <2>2, <2>4, <2>5, LikeNests
  <2>7. NestedAt(n)'
    <3>1. NestedAt(n) /\ top.op \in EvaluateOps
      BY <1>2, <1>3, <2>2, <2>4 DEF Nesting
    <3>2. n = 1 \/ stack'[n - 1].op = "child"
      BY <2>2, <3>1 DEF NestedAt
    <3> QED
      BY <1>5, <1>7, <2>2, <3>2 DEF NestedAt, LastOps, EvaluateOps
  <2>8. NestedAt(n + 1)' /\ CalledAt(n + 1)'
    BY <1>7, <2>2 DEF NestedAt, CalledAt, LastOps, InsideOps
  <2>9. NestedPair(n, n + 1)'
    <3>1. c \in Reach[m]
      BY <1>3, <1>6, DependenciesStep DEF Reach
    <3> QED
      BY <1>7, <2>2, <2>3, <3>1 DEF NestedPair, InsideOps, TellOps
  <2>10. ASSUME NEW i \in Below PROVE NestedPair(i, n + 1)'
    <3>1. NestedPair(i, n) /\ stack'[i] = stack[i]
      BY <2>2, <2>4 DEF Nesting
    <3>2. stack[i].op = "child" => c \in Reach[stack[i].mod]
      <4>1. stack[i].op = "child" => m \in Reach[stack[i].mod] /\ stack[i].mod \in Modules
        BY <1>2, <1>3, <1>4, <2>2, <3>1, TopState DEF NestedPair, InProgress
      <4> QED
        BY <1>3, <1>6, <4>1, DependenciesStep DEF Reach
    <3>3. stack[i].op \notin {"prepassing", "prepassChild"}
      BY <1>3, <2>2, <3>1 DEF NestedPair, PrepassOps
    <3> QED
      BY <1>7, <2>2, <2>3, <3>1, <3>2, <3>3 DEF NestedPair, InsideOps, TellOps
  <2> QED
    BY <1>3, <1>7, <1>8, <1>10, <1>11, <2>1, <2>4, <2>6, <2>7, <2>8, <2>9, <2>10, CallsKeeps
    DEF EvalInv, StackInv
<1>12. /\ InsideOf(f) \cup InsideOf(g) = InsideOf(top) /\ VisitsOf(top) \subseteq VisitsOf(f)
       /\ f.op \in OwnModeOps /\ g.op \in OwnModeOps /\ f.op \in EvaluateOps
  BY <1>3, <1>4, <1>7 DEF InsideOf, VisitsOf, InsideOps, VisitOps, OwnModeOps, EvaluateOps
<1> QED
  BY <1>3, <1>4, <1>6, <1>7, <1>8, <1>9, <1>11, <1>12, CallsQuiet

LEMMA ChildEvaluatedKeeps ==
  ASSUME GraphInv, EvalInv, ChildEvaluated
  PROVE  StackInv' /\ Prepassed' /\ BodyInv'
<1>1. At("child") /\ UNCHANGED data
  BY DEF ChildEvaluated
<1>2. "child" \in OwnModeOps \ {"complete"} /\ "child" \in EvaluateOps \cap VisitOps \cap InsideOps
  BY DEF OwnModeOps, EvaluateOps, VisitOps, InsideOps
<1>3. /\ Types /\ Depth > 0 /\ top.op = "child" /\ Evaluation /\ Knows(top)
      /\ top.mod \in Whole /\ top.mod \in Modules /\ top.rest \in Seq(Modules)
      /\ ToSet(top.rest) \subseteq Imports(top.mod) /\ world \in Worlds
      /\ \A x \in Modules : errorObject[x] = None
  BY <1>1, <1>2, OwnTop
<1>4. top.rest # <<>> /\ Len(stack) \in Positions /\ top = stack[Len(stack)]
  BY <1>3, TopFacts DEF Types
<1>5. PICK m \in Modules, r \in Seq(Modules) : m = top.mod /\ r = Tail(top.rest)
  BY <1>3, <1>4, HeadTail
<1>6. Head(top.rest) \in Modules /\ ToSet(top.rest) = {Head(top.rest)} \cup ToSet(r)
  BY <1>3, <1>4, <1>5, HeadTail
<1>7. Head(top.rest) \in Begun
  BY <1>3, <1>4 DEF EvalInv, StackInv, Nesting, NestedAt
<1> DEFINE f == Loop("children", m, r)
<1>8. f \in GoodFrames /\ f.op = "children" /\ f.mod = m /\ f.rest = r
  BY FrameTypes DEF PlainOps, OtherFrames, Loop
<1>9. Becomes(f)
  BY <1>3, <1>5, <1>6 DEF ChildEvaluated
<1> HIDE DEF f
<1>10. /\ SameGraph /\ UNCHANGED <<evaluating, awaitedModules, caller, suspended, runs, before, ended,
                                   wasEvaluated, log, generator, wasPrepassed>>
  BY <1>1 DEF data, evalState, bodyVars, prepassVars, settleVars, SameGraph, loadState, loadVars
<1>11. Knows(f)'
  <2>1. Knows(f)
    BY <1>2, <1>3, <1>5, <1>6, <1>8 DEF Knows, EvaluateOps, VisitOps, InsideOps, TellOps
  <2> QED
    BY <1>10, <2>1, KnowsSame
<1>12. \A c : <<top.mod, c>> \in VisitsOf(top) => <<top.mod, c>> \in VisitsOf(f) \/ c \in Begun
  BY <1>3, <1>5, <1>6, <1>7, <1>8 DEF VisitsOf, VisitOps
<1>13. /\ f.op \in OwnModeOps \ {"child"} /\ f.op \in EvaluateOps /\ f.op \notin PrepassOps
       /\ f.op \in InsideOps /\ f.op # "FinishOwn" /\ top.op \notin PrepassOps
  BY <1>3, <1>8 DEF OwnModeOps, EvaluateOps, PrepassOps, InsideOps
<1> QED
  BY <1>2, <1>3, <1>5, <1>8, <1>9, <1>10, <1>11, <1>12, <1>13, BecomesQuiet

LEMMA PrepassBeginsKeeps ==
  ASSUME GraphInv, EvalInv, PrepassBegins \/ PrepassNext
  PROVE  StackInv' /\ Prepassed' /\ BodyInv'
<1>1. /\ Depth > 0 /\ top.op \in {"Prepass", "prepassChild"} /\ At(top.op)
      /\ Becomes(Call("prepassLoop", top.mod))
      /\ PrepassNext => wasPrepassed' = wasPrepassed
      /\ PrepassBegins => wasPrepassed' = wasPrepassed \cup {top.mod}
  BY DEF PrepassBegins, PrepassNext, At, data, evalState, prepassVars
<1>2. {"Prepass", "prepassChild"} \subseteq OwnModeOps \ {"complete"}
  BY DEF OwnModeOps, PrepassOps
<1>3. Types /\ Evaluation /\ Knows(top) /\ top.mod \in Modules
  BY <1>1, <1>2, OwnTop
<1>4. PICK m \in Modules : m = top.mod
  BY <1>3
<1> DEFINE f == Call("prepassLoop", m)
<1>5. f \in GoodFrames /\ f.op = "prepassLoop" /\ f.mod = m
  BY FrameTypes DEF PlainOps, OtherFrames, Call
<1>6. Becomes(f)
  BY <1>1, <1>4
<1> HIDE DEF f
<1>7. /\ SameGraph /\ UNCHANGED <<evaluating, awaitedModules, caller, suspended, runs, before, ended,
                                  wasEvaluated, log, generator>>
  BY DEF PrepassBegins, PrepassNext, data, evalState, bodyVars, prepassVars, settleVars, SameGraph,
         loadState, loadVars
<1>8. m \in wasPrepassed'
  <2>1. PrepassNext => top.op = "prepassChild"
    BY DEF PrepassNext, At
  <2> QED
    BY <1>1, <1>3, <1>4, <2>1 DEF Knows
<1>9. Knows(f)'
  BY <1>5, <1>8 DEF Knows, EvaluateOps, VisitOps, InsideOps, TellOps
<1>10. /\ wasPrepassed \subseteq wasPrepassed' /\ wasPrepassed' \subseteq wasPrepassed \cup {top.mod}
  BY <1>1
<1>11. VisitsOf(top) = {}
  BY <1>1 DEF VisitsOf, VisitOps
<1>12. /\ f.op \in OwnModeOps \ {"child"} /\ f.op \notin EvaluateOps /\ f.op \in PrepassOps
       /\ f.op \notin InsideOps /\ f.op # "FinishOwn" /\ top.op \in PrepassOps
       /\ top.op \notin EvaluateOps /\ top.op \notin InsideOps
  BY <1>1, <1>5 DEF OwnModeOps, EvaluateOps, PrepassOps, InsideOps
<1> QED
  BY <1>1, <1>3, <1>4, <1>5, <1>6, <1>7, <1>9, <1>10, <1>11, <1>12, BecomesQuiet

LEMMA PrepassChildKeeps ==
  ASSUME GraphInv, EvalInv, PrepassChild
  PROVE  StackInv' /\ Prepassed' /\ BodyInv'
<1>1. At("prepassLoop") /\ UNCHANGED data
  BY DEF PrepassChild
<1>2. "prepassLoop" \in OwnModeOps \ {"complete"}
  BY DEF OwnModeOps, PrepassOps
<1>3. /\ Types /\ Depth > 0 /\ top.op = "prepassLoop" /\ Evaluation /\ Knows(top) /\ top.mod \in Modules
      /\ LoadInv
  BY <1>1, <1>2, OwnTop DEF GraphInv
<1>4. PICK m \in Modules : m = top.mod
  BY <1>3
<1>5. PICK c \in childrenModuleSet[m] : Calls(Loop("prepassChild", m, <<c>>), Call("Prepass", c))
  BY <1>4 DEF PrepassChild
<1>6. c \in Modules /\ <<c>> \in Seq(Modules) /\ <<c>> # <<>>
  BY <1>3 DEF Types, DataTypes
<1>7. c \in Imports(m)
  BY <1>3, <1>5, <1>6 DEF LoadInv, Linked
<1> DEFINE f == Loop("prepassChild", m, <<c>>)
           g == Call("Prepass", c)
<1>8. /\ f \in GoodFrames /\ g \in GoodFrames
      /\ f.op = "prepassChild" /\ f.mod = m /\ g.op = "Prepass" /\ g.mod = c
  BY <1>6, FrameTypes DEF PlainOps, OtherFrames, Call, Loop
<1>9. Calls(f, g)
  BY <1>5
<1> HIDE DEF f, g
<1>10. /\ SameGraph /\ UNCHANGED <<evaluating, awaitedModules, caller, suspended, runs, before, ended,
                                  wasEvaluated, log, generator, wasPrepassed>>
  BY <1>1 DEF data, evalState, bodyVars, prepassVars, settleVars, SameGraph, loadState, loadVars
<1>11. Knows(f)' /\ Knows(g)'
  <2>1. Knows(f) /\ Knows(g)
    BY <1>3, <1>4, <1>8 DEF Knows, EvaluateOps, VisitOps, InsideOps, TellOps
  <2> QED
    BY <1>10, <2>1, KnowsSame
<1>12. ASSUME KeepsLower PROVE Nesting' /\ CallsKnow'
  <2>1. Like(f) /\ Like(g)
    BY <1>3, <1>4, <1>8 DEF Like, EvaluateOps, InsideOps, TellOps, PrepassOps
  <2> QED
    BY <1>3, <1>8, <1>9, <1>11, <1>12, <2>1, CallsLike
    DEF EvalInv, StackInv, LastOps, InsideOps, EvaluateOps, TellOps, PrepassOps
<1>13. /\ InsideOf(f) \cup InsideOf(g) = InsideOf(top) /\ VisitsOf(top) \subseteq VisitsOf(f)
       /\ f.op \in OwnModeOps /\ g.op \in OwnModeOps /\ top.op \notin EvaluateOps
  BY <1>3, <1>8 DEF InsideOf, VisitsOf, InsideOps, VisitOps, OwnModeOps, EvaluateOps, PrepassOps
<1> QED
  BY <1>3, <1>4, <1>7, <1>8, <1>9, <1>10, <1>12, <1>13, CallsQuiet

LEMMA PrepassEndsKeeps ==
  ASSUME GraphInv, EvalInv, PrepassEnds
  PROVE  StackInv' /\ Prepassed' /\ BodyInv'
<1>1. At("prepassLoop") /\ Return /\ generator' \subseteq generator \cup {top.mod}
  BY DEF PrepassEnds
<1>2. "prepassLoop" \in PrepassOps \ (EvaluateOps \cup InsideOps \cup TellOps \cup {"complete"})
  BY DEF EvaluateOps, InsideOps, TellOps, PrepassOps
<1>3. /\ Types /\ Depth > 0 /\ top.op = "prepassLoop" /\ Evaluation /\ Knows(top)
      /\ log.fulfilled \subseteq ended /\ generator \subseteq wasPrepassed
  BY <1>1, <1>2, OwnTop, OpsFacts
<1>4. top.mod \in wasPrepassed
  BY <1>3 DEF Knows
<1>5. /\ SameGraph /\ UNCHANGED <<evaluating, awaitedModules, caller, suspended, runs, before, ended,
                                  wasEvaluated, log, wasPrepassed>>
  BY DEF PrepassEnds, bodyVars, settleVars, SameGraph, loadState, loadVars
<1> QED
  BY <1>1, <1>2, <1>3, <1>4, <1>5, ReturnQuiet

LEMMA FinishingReturnsKeeps ==
  ASSUME GraphInv, EvalInv, Returns, At("finishing")
  PROVE  StackInv' /\ Prepassed' /\ BodyInv'
<1>1. Return /\ UNCHANGED data
  BY DEF Returns
<1>2. "finishing" \in EvaluateOps \ (InsideOps \cup TellOps \cup {"complete"})
  BY DEF EvaluateOps, InsideOps, TellOps
<1>3. /\ Types /\ Depth > 0 /\ top.op = "finishing" /\ Evaluation /\ Knows(top)
      /\ log.fulfilled \subseteq ended /\ generator \subseteq wasPrepassed
  BY <1>2, OwnTop, OpsFacts
<1>4. top.mod \in Begun
  BY <1>3 DEF Knows
<1> QED
  BY <1>1, <1>2, <1>3, <1>4, ReturnQuiet
  DEF data, evalState, bodyVars, prepassVars, settleVars, SameGraph, loadState, loadVars

-----------------------------------------------------------------------------
(* A module that has ended tells the ones that wait for it.                *)

LEMMA WaitedKeeps ==
  ASSUME Types, EvalInv, Depth > 0, KeepsLower, ~Evaluation, top.op \in WaitedOps,
         Nesting', CallsKnow',
         \A i \in Positions' \ Below : stack'[i].op \in WaitedOps,
         UNCHANGED <<wasPrepassed, generator>>
  PROVE  StackInv' /\ Prepassed'
<1>1. TopMove /\ Begun \subseteq Begun'
  BY DEF KeepsLower
<1>2. Modes' /\ ~Evaluation'
  BY <1>1, ModesWaited DEF EvalInv, StackInv
<1>3. Prepassed'
  BY <1>1, <1>2, PrepassedWaited DEF EvalInv
<1> QED
  BY <1>2, <1>3 DEF StackInv

LEMMA WaitedTop ==
  ASSUME GraphInv, EvalInv, NEW op \in WaitedOps, At(op), op # "complete" \/ ~Evaluation
  PROVE  /\ Types /\ Depth > 0 /\ top.op = op /\ world \in Worlds
         /\ ~Evaluation /\ Inside = {} /\ Visits = {} /\ Knows(top)
         /\ top.mod \in Modules /\ top.rest \in Seq(Modules) /\ top \in GoodFrames
         /\ op \notin EvaluateOps \cup InsideOps \cup PrepassOps \cup VisitOps
         /\ wasEvaluated = ended /\ evaluating \cap ended = {} /\ log.fulfilled \subseteq ended
<1>1. Types /\ Depth > 0 /\ top.op = op /\ world \in Worlds
  BY DEF GraphInv, At, Types, DataTypes
<1>2. ~Evaluation /\ Inside = {} /\ Visits = {}
  BY <1>1, WaitedMode DEF EvalInv, StackInv
<1>3. /\ top.mod \in Modules /\ top.rest \in Seq(Modules) /\ top \in GoodFrames
      /\ top \in InProgress
  BY <1>1, TopState
<1>4. Knows(top)
  BY <1>3 DEF EvalInv, StackInv, CallsKnow
<1> QED
  BY <1>1, <1>2, <1>3, <1>4, OpsFacts DEF EvalInv, BodyInv, Bodies

LEMMA WaitedReturnQuiet ==
  ASSUME GraphInv, EvalInv, NEW op \in WaitedOps, At(op), ~Evaluation, Return, SameGraph,
         UNCHANGED <<evaluating, awaitedModules, caller, suspended, runs, before, ended,
                     wasEvaluated, wasPrepassed, generator>>,
         log'.fulfilled \subseteq ended, TellsOf(top) = {}
  PROVE  StackInv' /\ Prepassed' /\ BodyInv'
<1>1. /\ Types /\ Depth > 0 /\ top.op = op /\ world \in Worlds
      /\ top.op \notin EvaluateOps \cup InsideOps \cup VisitOps
  BY WaitedTop
<1>2. TopMove /\ Positions' = Below
  BY <1>1, ReturnMove, TopState
<1>3. KeepsLower
  BY <1>1, <1>2, KeepsQuiet DEF EvalInv, StackInv
<1>4. Nesting' /\ CallsKnow'
  BY <1>1, <1>3, ReturnKeeps DEF EvalInv, StackInv
<1>5. StackInv' /\ Prepassed'
  BY <1>1, <1>2, <1>3, <1>4, WaitedKeeps
<1>6. Inside' = Inside /\ Tells' = Tells /\ Visits' = Visits
  BY <1>1, TopSplit, ReturnSplit DEF InsideOf, VisitsOf
<1>7. BodyInv'
  <2>1. Whole' = Whole /\ world' = world
    BY SameGraphFacts DEF SameGraph
  <2> QED
    BY <1>1, <1>6, <2>1, BodyStays DEF EvalInv, SameGraph
<1> QED
  BY <1>5, <1>7

LEMMA NothingToTell ==
  ASSUME Types, Depth > 0, top.op \notin TellOps \/ top.rest = <<>>
  PROVE  TellsOf(top) = {}
<1>1. <<>> \in Seq(Modules)
  OBVIOUS
<1>2. ToSet(<<>>) = {}
  BY <1>1, ToSetEmpty
<1> QED
  BY <1>2 DEF TellsOf

LEMMA FinishNothingKeeps ==
  ASSUME GraphInv, EvalInv, FinishNothing
  PROVE  StackInv' /\ Prepassed' /\ BodyInv'
<1>1. Return /\ UNCHANGED data /\ AtFinish /\ top.mod \in wasEvaluated
  BY DEF FinishNothing
<1>2. ~At("FinishOwn")
  <2>1. SUFFICES ASSUME At("FinishOwn") PROVE FALSE
    OBVIOUS
  <2>2. "FinishOwn" \in OwnModeOps \ {"complete"} /\ "FinishOwn" \in InsideOps
    BY DEF OwnModeOps, OwnOps, InsideOps
  <2>3. Knows(top) /\ top.op = "FinishOwn" /\ wasEvaluated = ended
    BY <2>1, <2>2, OwnTop
  <2> QED
    BY <1>1, <2>2, <2>3 DEF Knows, EvalInv, BodyInv, Bodies
<1>3. At("FinishWaited") /\ "FinishWaited" \in WaitedOps \ {"complete"} /\ "FinishWaited" \notin TellOps
  BY <1>1, <1>2 DEF AtFinish, WaitedOps, TellOps
<1>4. Types /\ Depth > 0 /\ top.op = "FinishWaited" /\ ~Evaluation /\ log.fulfilled \subseteq ended
  BY <1>3, WaitedTop
<1>5. TellsOf(top) = {}
  BY <1>3, <1>4, NothingToTell
<1> QED
  BY <1>1, <1>3, <1>4, <1>5, WaitedReturnQuiet
  DEF data, evalState, bodyVars, prepassVars, settleVars, SameGraph, loadState, loadVars

LEMMA WaitedReturnsKeeps ==
  ASSUME GraphInv, EvalInv, Returns, At("waited")
  PROVE  StackInv' /\ Prepassed' /\ BodyInv'
<1>1. Return /\ UNCHANGED data
  BY DEF Returns
<1>2. "waited" \in WaitedOps \ {"complete"} /\ "waited" \notin TellOps
  BY DEF WaitedOps, TellOps
<1>3. Types /\ Depth > 0 /\ top.op = "waited" /\ ~Evaluation /\ log.fulfilled \subseteq ended
  BY <1>2, WaitedTop
<1>4. TellsOf(top) = {}
  BY <1>2, <1>3, NothingToTell
<1> QED
  BY <1>1, <1>2, <1>3, <1>4, WaitedReturnQuiet
  DEF data, evalState, bodyVars, prepassVars, settleVars, SameGraph, loadState, loadVars

LEMMA CompleteKeeps ==
  ASSUME GraphInv, EvalInv, Complete \/ FulfilledEnds,
         log'.fulfilled \subseteq log.fulfilled \cup {top.mod}
  PROVE  StackInv' /\ Prepassed' /\ BodyInv'
<1>1. /\ At("complete") \/ (At("fulfilled") /\ top.rest = <<>>)
      /\ Return /\ SettleFlags(top.mod) /\ SameGraph
      /\ UNCHANGED <<evaluating, awaitedModules, caller, suspended, runs, before, ended,
                     wasPrepassed, generator>>
  BY DEF Complete, FulfilledEnds, evalState, bodyVars, prepassVars, SameGraph, loadState, loadVars
<1>2. Types /\ Depth > 0 /\ top \in InProgress /\ top.op \in {"complete", "fulfilled"}
  BY <1>1, TopState DEF GraphInv, At
<1>3. Knows(top)
  BY <1>2 DEF EvalInv, StackInv, CallsKnow
<1>4. top.mod \in ended
  BY <1>2, <1>3 DEF Knows, TellOps
<1>5. log'.fulfilled \subseteq ended /\ wasEvaluated' = wasEvaluated
  BY <1>1, <1>4 DEF EvalInv, BodyInv, Bodies, SettleFlags
<1>6. CASE At("complete") /\ Evaluation
  <2>1. "complete" \notin InsideOps \cup TellOps \cup EvaluateOps /\ top.op = "complete"
    BY <1>6 DEF InsideOps, TellOps, EvaluateOps, At
  <2>2. generator' \subseteq wasPrepassed
    BY <1>1 DEF EvalInv, Prepassed
  <2> QED
    BY <1>1, <1>2, <1>5, <1>6, <2>1, <2>2, ReturnQuiet
<1>7. CASE At("complete") /\ ~Evaluation
  <2>1. "complete" \in WaitedOps \ TellOps /\ top.op = "complete"
    BY <1>7 DEF WaitedOps, TellOps, At
  <2>2. TellsOf(top) = {}
    BY <1>2, <2>1, NothingToTell
  <2> QED
    BY <1>1, <1>5, <1>7, <2>1, <2>2, WaitedReturnQuiet
<1>8. CASE At("fulfilled") /\ top.rest = <<>>
  <2>1. "fulfilled" \in WaitedOps \ {"complete"}
    BY DEF WaitedOps
  <2>2. TellsOf(top) = {}
    BY <1>2, <1>8, NothingToTell
  <2>3. ~Evaluation
    BY <1>8, <2>1, WaitedTop
  <2> QED
    BY <1>1, <1>5, <1>8, <2>1, <2>2, <2>3, WaitedReturnQuiet
<1> QED
  BY <1>1, <1>6, <1>7, <1>8

LEMMA ParentsToldKeeps ==
  ASSUME GraphInv, EvalInv, ParentsTold
  PROVE  StackInv' /\ Prepassed' /\ BodyInv'
<1>1. At("telling") /\ UNCHANGED data /\ top.rest = <<>>
  BY DEF ParentsTold
<1>2. "telling" \in WaitedOps \ {"complete"} /\ "telling" \in TellOps
  BY DEF WaitedOps, TellOps
<1>3. /\ Types /\ Depth > 0 /\ top.op = "telling" /\ ~Evaluation /\ log.fulfilled \subseteq ended
      /\ Knows(top) /\ top.mod \in Modules /\ Inside = {} /\ Visits = {} /\ world \in Worlds
      /\ top.op \notin EvaluateOps \cup InsideOps \cup VisitOps \cup PrepassOps
  BY <1>1, <1>2, WaitedTop
<1>4. PICK m \in Modules : m = top.mod
  BY <1>3
<1> DEFINE f == Call("complete", m)
<1>5. f \in GoodFrames /\ f.op = "complete" /\ f.mod = m
  BY FrameTypes DEF PlainOps, OtherFrames, Call
<1>6. Becomes(f)
  BY <1>4 DEF ParentsTold
<1> HIDE DEF f
<1>7. /\ SameGraph /\ UNCHANGED <<evaluating, awaitedModules, caller, suspended, runs, before, ended,
                                  wasEvaluated, log, generator, wasPrepassed>>
  BY <1>1 DEF data, evalState, bodyVars, prepassVars, settleVars, SameGraph, loadState, loadVars
<1>8. Knows(f)'
  <2>1. Knows(f)
    BY <1>2, <1>3, <1>4, <1>5 DEF Knows, EvaluateOps, VisitOps, InsideOps, TellOps
  <2> QED
    BY <1>7, <2>1, KnowsSame
<1>9. /\ TopMove /\ Positions' = Below \cup {Len(stack)} /\ stack'[Len(stack)] = f
  BY <1>3, <1>5, <1>6, BecomesMove, TopState
<1>10. KeepsLower
  BY <1>3, <1>7, <1>9, KeepsQuiet DEF EvalInv, StackInv
<1>11. Like(f)
  BY <1>3, <1>5 DEF Like, EvaluateOps, InsideOps, TellOps, PrepassOps
<1>12. Nesting' /\ CallsKnow'
  BY <1>3, <1>5, <1>6, <1>8, <1>10, <1>11, BecomesLike DEF EvalInv, StackInv
<1>13. StackInv' /\ Prepassed'
  BY <1>2, <1>3, <1>5, <1>7, <1>9, <1>10, <1>12, WaitedKeeps DEF WaitedOps
<1>14. TellsOf(top) = {} /\ InsideOf(top) = {} /\ VisitsOf(top) = {}
  BY <1>1, <1>3, NothingToTell DEF InsideOf, VisitsOf
<1>15. TellsOf(f) = {} /\ InsideOf(f) = {} /\ VisitsOf(f) = {}
  BY <1>5 DEF TellsOf, InsideOf, VisitsOf, TellOps, InsideOps, VisitOps
<1>16. Inside' = Inside /\ Tells' = Tells /\ Visits' = Visits
  BY <1>3, <1>5, <1>6, <1>14, <1>15, TopSplit, BecomesSplit
<1>17. BodyInv'
  <2>1. Whole' = Whole /\ world' = world /\ log'.fulfilled \subseteq ended
    BY <1>3, <1>7, SameGraphFacts DEF SameGraph
  <2> QED
    BY <1>3, <1>7, <1>16, <2>1, BodyStays DEF EvalInv, SameGraph
<1> QED
  BY <1>13, <1>17

LEMMA NothingAwaitedKeeps ==
  ASSUME GraphInv, EvalInv, NothingAwaited
  PROVE  StackInv' /\ Prepassed' /\ BodyInv'
<1>1. At("nothingAwaited") /\ UNCHANGED data
  BY DEF NothingAwaited
<1>2. "nothingAwaited" \in WaitedOps \ {"complete"} /\ "nothingAwaited" \notin TellOps
  BY DEF WaitedOps, TellOps
<1>3. /\ Types /\ Depth > 0 /\ top.op = "nothingAwaited" /\ ~Evaluation /\ log.fulfilled \subseteq ended
      /\ Knows(top) /\ top.mod \in Modules /\ Inside = {} /\ Visits = {} /\ world \in Worlds
      /\ top.op \notin EvaluateOps \cup InsideOps \cup VisitOps \cup PrepassOps
  BY <1>1, <1>2, WaitedTop
<1>4. PICK m \in Modules : m = top.mod
  BY <1>3
<1> DEFINE f == Call("waited", m)
           g == Call("FinishWaited", m)
<1>5. /\ f \in GoodFrames /\ f.op = "waited" /\ f.mod = m
      /\ g \in GoodFrames /\ g.op = "FinishWaited" /\ g.mod = m
  BY FrameTypes DEF PlainOps, OtherFrames, Call
<1>6. Calls(f, g)
  BY <1>4 DEF NothingAwaited
<1> HIDE DEF f, g
<1>7. /\ SameGraph /\ UNCHANGED <<evaluating, awaitedModules, caller, suspended, runs, before, ended,
                                  wasEvaluated, log, generator, wasPrepassed>>
  BY <1>1 DEF data, evalState, bodyVars, prepassVars, settleVars, SameGraph, loadState, loadVars
<1>8. Knows(f)' /\ Knows(g)'
  <2>1. Knows(f) /\ Knows(g)
    BY <1>2, <1>3, <1>4, <1>5 DEF Knows, EvaluateOps, VisitOps, InsideOps, TellOps
  <2> QED
    BY <1>7, <2>1, KnowsSame
<1>9. /\ TopMove /\ Positions' = Below \cup {Len(stack), Len(stack) + 1}
      /\ stack'[Len(stack)] = f /\ stack'[Len(stack) + 1] = g
  BY <1>3, <1>5, <1>6, CallsMove, TopState
<1>10. KeepsLower
  BY <1>3, <1>7, <1>9, KeepsQuiet DEF EvalInv, StackInv
<1>11. Like(f) /\ Like(g)
  BY <1>3, <1>5 DEF Like, EvaluateOps, InsideOps, TellOps, PrepassOps
<1>12. Nesting' /\ CallsKnow'
  BY <1>3, <1>5, <1>6, <1>8, <1>10, <1>11, CallsLike
  DEF EvalInv, StackInv, LastOps, InsideOps, EvaluateOps, TellOps
<1>13. StackInv' /\ Prepassed'
  BY <1>2, <1>3, <1>5, <1>7, <1>9, <1>10, <1>12, WaitedKeeps DEF WaitedOps
<1>14. TellsOf(top) = {} /\ InsideOf(top) = {} /\ VisitsOf(top) = {}
  BY <1>2, <1>3, NothingToTell DEF InsideOf, VisitsOf
<1>15. /\ TellsOf(f) = {} /\ InsideOf(f) = {} /\ VisitsOf(f) = {}
       /\ TellsOf(g) = {} /\ InsideOf(g) = {} /\ VisitsOf(g) = {}
  BY <1>5 DEF TellsOf, InsideOf, VisitsOf, TellOps, InsideOps, VisitOps
<1>16. Inside' = Inside /\ Tells' = Tells /\ Visits' = Visits
  BY <1>3, <1>5, <1>6, <1>14, <1>15, TopSplit, BothSplit
<1>17. BodyInv'
  <2>1. Whole' = Whole /\ world' = world /\ log'.fulfilled \subseteq ended
    BY <1>3, <1>7, SameGraphFacts DEF SameGraph
  <2> QED
    BY <1>3, <1>7, <1>16, <2>1, BodyStays DEF EvalInv, SameGraph
<1> QED
  BY <1>13, <1>17

\* Nothing changes that the invariant is about.
LEMMA EvalUnchanged ==
  ASSUME EvalInv,
         UNCHANGED <<world, wasParsed, parentModuleList, childrenModuleSet, wasPrepassed,
                     generator, suspended, runs, before, ended, evaluating, awaitedModules,
                     caller, wasEvaluated, log, errorObject, stack, thrown>>
  PROVE  EvalInv'
<1>1. UNCHANGED <<world, wasParsed, parentModuleList, childrenModuleSet, wasPrepassed,
                  generator, suspended, runs, before, ended, evaluating, awaitedModules,
                  caller, wasEvaluated, log, errorObject, stack, thrown>>
  OBVIOUS
<1>2. /\ InProgress' = InProgress /\ Positions' = Positions /\ Begun' = Begun /\ Failed' = Failed
      /\ Evaluation' = Evaluation /\ Callers' = Callers
  BY <1>1 DEF InProgress, Positions, Begun, Failed, Evaluation, Callers, CallersOf, Closure
<1>3. Inside' = Inside /\ Tells' = Tells /\ Visits' = Visits
  BY <1>2 DEF Inside, InsideIn, Tells, TellsIn, Visits, VisitsIn
<1>4. /\ Whole' = Whole /\ Reach' = Reach /\ \A m : Imports(m)' = Imports(m)
  BY <1>1, SameGraphFacts, SameWorld DEF SameGraph
<1>5. Pending' = Pending
  BY <1>1, <1>3 DEF Pending, PendingOf
<1>6. Calm' /\ Requesting'
  BY <1>1, <1>2 DEF EvalInv, Calm, Requesting, CalmCall
<1>7. Modes'
  BY <1>1, <1>2 DEF EvalInv, StackInv, Modes
<1>8. Nesting'
  BY <1>1, <1>2, <1>4 DEF EvalInv, StackInv, Nesting, NestedAt, NestedPair, CalledAt
<1>9. CallsKnow'
  BY <1>1, <1>2, <1>4 DEF EvalInv, StackInv, CallsKnow, Knows
<1>10. Prepassed'
  BY <1>1, <1>2, <1>4 DEF EvalInv, Prepassed, ClosedUnderImports
<1>11. Bodies' /\ Visited' /\ Counted' /\ CallersEvaluating' /\ Suspended' /\ Ordered'
  BY <1>1, <1>2, <1>3, <1>4, <1>5
  DEF EvalInv, BodyInv, Bodies, Visited, Counted, CallersEvaluating, Suspended, Ordered
<1> QED
  BY <1>6, <1>7, <1>8, <1>9, <1>10, <1>11 DEF EvalInv, StackInv, BodyInv

-----------------------------------------------------------------------------
(* Counting.                                                               *)

LEMMA SmallModulus ==
  ASSUME NEW n \in Nat, n < UIntSpan
  PROVE  n % UIntSpan = n
<1>1. UIntSpan \in Nat /\ UIntSpan > 0
  BY ModulesAssumption
<1> QED
  BY <1>1

LEMMA CountMore ==
  ASSUME NEW S \in SUBSET Modules, NEW c \in Modules, c \notin S
  PROVE  (Cardinality(S) + 1) % UIntSpan = Cardinality(S \cup {c})
<1>1. IsFiniteSet(S)
  BY FS_Subset, ModulesAssumption
<1>2. Cardinality(S) \in Nat /\ Cardinality(S \cup {c}) = Cardinality(S) + 1
  BY <1>1, FS_AddElement, FS_CardinalityType
<1>3. S \cup {c} \in SUBSET Modules
  OBVIOUS
<1>4. Cardinality(S \cup {c}) <= Cardinality(Modules) /\ Cardinality(Modules) \in Nat
  BY <1>3, FS_Subset, FS_CardinalityType, ModulesAssumption
<1>5. Cardinality(S) + 1 < UIntSpan /\ Cardinality(S) + 1 \in Nat
  BY <1>2, <1>4, ModulesAssumption
<1> QED
  BY <1>2, <1>5, SmallModulus

LEMMA CountFewer ==
  ASSUME NEW S \in SUBSET Modules, NEW c \in S
  PROVE  (Cardinality(S) - 1) % UIntSpan = Cardinality(S \ {c})
<1>1. IsFiniteSet(S)
  BY FS_Subset, ModulesAssumption
<1>2. /\ Cardinality(S) \in Nat /\ Cardinality(S \ {c}) = Cardinality(S) - 1
      /\ Cardinality(S \ {c}) \in Nat
  BY <1>1, FS_RemoveElement, FS_CardinalityType
<1>3. Cardinality(S) <= Cardinality(Modules) /\ Cardinality(Modules) \in Nat
  BY FS_Subset, FS_CardinalityType, ModulesAssumption
<1>4. Cardinality(S) - 1 < UIntSpan /\ Cardinality(S) - 1 \in Nat
  BY <1>2, <1>3, ModulesAssumption
<1> QED
  BY <1>2, <1>4, SmallModulus

LEMMA CountNone ==
  ASSUME NEW S \in SUBSET Modules, Cardinality(S) = 0
  PROVE  S = {}
BY FS_Subset, FS_EmptySet, ModulesAssumption

-----------------------------------------------------------------------------
(* Loading does not disturb evaluation.                                    *)

AllLoad == \A i \in Positions : stack[i].op \in LoadOps

LEMMA LoadingKeeps ==
  ASSUME Types, EvalInv, AllLoad, AllLoad', stack' \in Seq(GoodFrames), world' = world,
         UNCHANGED <<evaluating, caller, suspended, runs, before, ended, wasEvaluated,
                     wasPrepassed, generator>>,
         log'.fulfilled \subseteq ended, Whole \subseteq Whole', Counted'
  PROVE  StackInv' /\ Prepassed' /\ BodyInv'
<1>1. Len(stack) \in Nat /\ Len(stack') \in Nat /\ world \in Worlds
  BY DEF Types, DataTypes
<1>2. ~Evaluation /\ ~Evaluation'
  <2>1. Len(stack) > 0 => 1 \in Positions
    BY <1>1 DEF Positions
  <2>2. Len(stack') > 0 => 1 \in Positions'
    BY <1>1 DEF Positions
  <2> QED
    BY <2>1, <2>2, OpsFacts DEF AllLoad, Evaluation
<1>3. Modes'
  BY <1>2 DEF AllLoad, Modes
<1>4. Nesting'
  <2>1. LoadOps \cap (LastOps \cup {"child", "prepassing", "prepassChild"} \cup EvaluateOps
                        \cup InsideOps \cup TellOps) = {}
    BY DEF LoadOps, LastOps, EvaluateOps, InsideOps, TellOps
  <2> QED
    BY <2>1 DEF AllLoad, Nesting, NestedAt, NestedPair, CalledAt
<1>5. CallsKnow'
  <2>1. LoadOps \cap (EvaluateOps \cup VisitOps \cup InsideOps \cup TellOps \cup
          {"finishing", "prepassing", "prepassLoop", "prepassChild", "complete", "FinishOwn",
           "FinishWaited", "nothingAwaited"}) = {}
    BY DEF LoadOps, EvaluateOps, InsideOps, TellOps, VisitOps
  <2> QED
    BY <2>1 DEF AllLoad, CallsKnow, InProgress, Knows
<1>6. Inside = {} /\ Tells = {} /\ Visits = {}
  BY OpsFacts DEF AllLoad, Inside, InsideIn, Tells, TellsIn, Visits, VisitsIn, InProgress
<1>7. Inside' = {} /\ Tells' = {} /\ Visits' = {}
  BY OpsFacts DEF AllLoad, Inside, InsideIn, Tells, TellsIn, Visits, VisitsIn, InProgress
<1>8. /\ Begun' = Begun /\ Callers' = Callers /\ Reach' = Reach
      /\ \A m : Imports(m)' = Imports(m)
  BY SameWorld DEF Begun, Callers, CallersOf, Closure
<1>9. Prepassed'
  BY <1>2, <1>8 DEF EvalInv, Prepassed
<1>10. Bodies'
  BY <1>8 DEF EvalInv, BodyInv, Bodies
<1>11. Visited' /\ CallersEvaluating' /\ Suspended' /\ Ordered'
  BY <1>6, <1>7, <1>8 DEF EvalInv, BodyInv, Visited, CallersEvaluating, Suspended, Ordered
<1> QED
  BY <1>3, <1>4, <1>5, <1>9, <1>10, <1>11 DEF StackInv, BodyInv

LEMMA CountedLoads ==
  ASSUME EvalInv, AllLoad, AllLoad', UNCHANGED <<evaluating, awaitedModules, childrenModuleSet>>
  PROVE  Counted'
<1>1. Inside = {} /\ Tells = {}
  BY OpsFacts DEF AllLoad, Inside, InsideIn, Tells, TellsIn, InProgress
<1>2. Inside' = {} /\ Tells' = {}
  BY OpsFacts DEF AllLoad, Inside, InsideIn, Tells, TellsIn, InProgress
<1>3. Pending' = Pending
  BY <1>1, <1>2 DEF Pending, PendingOf
<1> QED
  BY <1>3 DEF EvalInv, BodyInv, Counted

LEMMA LoadStepLoads ==
  ASSUME GraphInv, LoadStep
  PROVE  /\ AllLoad /\ AllLoad' /\ Types /\ Depth > 0 /\ thrown = None /\ At(top.op)
         /\ top.op \in LoadOps
<1>1. Types /\ LoadInv /\ stack \in Seq(GoodFrames)
  BY DEF GraphInv, Types
<1>2. Depth > 0 /\ thrown = None /\ top.op \in LoadOps /\ At(top.op)
  BY DEF LoadStep, ParseSource, ResolveChild, ResolveFails, ResolveEnds, ParseFailed,
         ParseReturns, NotifyParentsAsNeeded, NotifyParent, NotifyEnds, OnChildModuleReady,
         ChildFailed, Prepare, Prepared, At, LoadOps
<1>3. AllLoad
  <2>1. Len(stack) \in Positions /\ top = stack[Len(stack)]
    BY <1>1, <1>2, TopState
  <2> QED
    BY <1>1, <1>2, <2>1 DEF LoadInv, Homogeneous, AllLoad
<1>4. \A i \in Below : stack[i].op \in LoadOps
  BY <1>1, <1>2, <1>3, TopState DEF AllLoad
<1>5. CASE Return
  <2>1. TopMove /\ Positions' = Below
    BY <1>1, <1>2, <1>5, ReturnMove
  <2> QED
    BY <1>1, <1>2, <1>3, <1>4, <2>1 DEF AllLoad, TopMove
<1>6. ASSUME NEW f \in GoodFrames, Becomes(f), f.op \in LoadOps PROVE AllLoad'
  <2>1. TopMove /\ Positions' = Below \cup {Len(stack)} /\ stack'[Len(stack)] = f
    BY <1>1, <1>2, <1>6, BecomesMove
  <2> QED
    BY <1>4, <1>6, <2>1 DEF AllLoad, TopMove
<1>7. ASSUME NEW f \in GoodFrames, NEW g \in GoodFrames, Calls(f, g), f.op \in LoadOps, g.op \in LoadOps
      PROVE  AllLoad'
  <2>1. /\ TopMove /\ Positions' = Below \cup {Len(stack), Len(stack) + 1}
        /\ stack'[Len(stack)] = f /\ stack'[Len(stack) + 1] = g
    BY <1>1, <1>2, <1>7, CallsMove
  <2> QED
    BY <1>4, <1>7, <2>1 DEF AllLoad, TopMove
<1>8. AllLoad'
  BY <1>1, <1>5, <1>6, <1>7, LoadFrames
<1> QED
  BY <1>1, <1>2, <1>3, <1>8

\* Calls of loading that find nothing wrong and resolve nothing.
CalmLoads == {f \in GoodFrames : CalmCall(f) /\ f.op \in LoadOps \ {"ParseSource", "resolve"}}

LEMMA CalmLoadTypes ==
  ASSUME NEW op \in {"parsed", "NotifyParents", "notifying", "OnChildModuleReady", "Prepare", "prepared"},
         NEW m \in Modules
  PROVE  /\ Call(op, m) \in CalmLoads /\ CallWith(op, m, None) \in CalmLoads
         /\ \A rest \in Seq(Modules) : Loop(op, m, rest) \in CalmLoads
<1>1. /\ op \in LoadOps \ {"ParseSource", "resolve"}
      /\ op \notin {"parseFailed", "notParsed", "childFailed"} \cup RejectOps
  BY DEF LoadOps, RejectOps
<1>2. Call(op, m) \in GoodFrames /\ Call(op, m).op = op /\ Call(op, m).reason = None
  BY <1>1, FrameTypes DEF Call
<1>3. /\ CallWith(op, m, None) \in GoodFrames /\ CallWith(op, m, None).op = op
      /\ CallWith(op, m, None).reason = None
  BY <1>1, FrameTypes DEF CallWith, Errors
<1>4. ASSUME NEW rest \in Seq(Modules)
      PROVE /\ Loop(op, m, rest) \in GoodFrames /\ Loop(op, m, rest).op = op
            /\ Loop(op, m, rest).reason = None
  BY <1>1, FrameTypes DEF Loop
<1> QED
  BY <1>1, <1>2, <1>3, <1>4 DEF CalmLoads, CalmCall

LEMMA LoadCalm ==
  ASSUME GraphInv, Calm, Broken = {},
         \/ ResolveEnds \/ ParseReturns \/ NotifyParentsAsNeeded \/ NotifyParent
         \/ NotifyEnds \/ OnChildModuleReady \/ Prepare \/ Prepared
  PROVE  /\ StackMove(CalmLoads) /\ thrown' = None /\ Failed' = {} /\ SameGraph
         /\ log'.rejected = {} /\ log'.threw = {} /\ log'.fulfilled = log.fulfilled
         /\ UNCHANGED <<evaluating, awaitedModules, caller, suspended, runs, before, ended,
                        wasEvaluated, wasPrepassed, generator>>
<1>1. LoadStep
  BY DEF LoadStep
<1>2. /\ Types /\ Depth > 0 /\ thrown = None /\ stack \in Seq(GoodFrames) /\ DataTypes
      /\ log \in Logs /\ log.rejected = {} /\ log.threw = {} /\ Failed = {}
  BY <1>1, LoadStepLoads DEF Types, DataTypes, Calm
<1>3. /\ top.mod \in Modules /\ top.rest \in Seq(Modules) /\ top \in GoodFrames /\ CalmCall(top)
      /\ \A m \in Modules : errorObject[m] = None
      /\ parentModuleList[top.mod] \in Seq(Modules)
  BY <1>2, TopState, CalmTop DEF DataTypes
<1>4. /\ thrown' = None /\ SameGraph
      /\ UNCHANGED <<evaluating, awaitedModules, caller, suspended, runs, before, ended,
                     wasEvaluated, wasPrepassed, generator>>
  BY <1>2 DEF ResolveEnds, ParseReturns, NotifyParentsAsNeeded, NotifyParent, NotifyEnds,
     OnChildModuleReady, Prepare, Prepared, SameGraph, data, evalState, bodyVars, prepassVars,
     settleVars, loadState, loadVars
<1>5. CASE ResolveEnds \/ ParseReturns \/ NotifyEnds \/ Prepare
  <2>1. log' = log /\ errorObject' = errorObject
    BY <1>5 DEF ResolveEnds, ParseReturns, NotifyEnds, Prepare, data, settleVars
  <2>2. StackMove(CalmLoads)
    BY <1>2, <1>3, <1>5, CalmLoadTypes DEF ResolveEnds, ParseReturns, NotifyEnds, Prepare, StackMove
  <2> QED
    BY <1>2, <1>4, <2>1, <2>2 DEF Failed
<1>6. CASE NotifyParentsAsNeeded \/ OnChildModuleReady
  <2>1. log' = log /\ (errorObject' = errorObject \/ top.reason # None)
    BY <1>6 DEF NotifyParentsAsNeeded, OnChildModuleReady, settleVars
  <2>2. top.reason = None
    BY <1>3 DEF CalmCall
  <2>3. StackMove(CalmLoads)
    BY <1>2, <1>3, <1>6, <2>2, CalmLoadTypes DEF NotifyParentsAsNeeded, OnChildModuleReady, StackMove
  <2> QED
    BY <1>2, <1>4, <2>1, <2>2, <2>3 DEF Failed
<1>7. CASE NotifyParent
  <2>1. log' = log /\ errorObject' = errorObject /\ top.op = "notifying" /\ top.rest # <<>>
    BY <1>7 DEF NotifyParent, data, settleVars, At
  <2>2. Head(top.rest) \in Modules /\ errorObject[top.mod] = None
    BY <1>3, <2>1, HeadTail
  <2>3. Onward \in CalmLoads
    <3>1. Onward \in GoodFrames /\ Onward.op = top.op /\ Onward.reason = top.reason
      BY <1>2, <2>1, OnwardFacts
    <3> QED
      BY <1>3, <2>1, <3>1 DEF CalmLoads, CalmCall, LoadOps
  <2>4. StackMove(CalmLoads)
    BY <1>2, <1>7, <2>2, <2>3, CalmLoadTypes DEF NotifyParent, StackMove
  <2> QED
    BY <1>2, <1>4, <2>1, <2>4 DEF Failed
<1>8. CASE Prepared
  <2>1. StackMove(CalmLoads)
    BY <1>2, <1>8 DEF Prepared, StackMove
  <2>2. log' = log \/ log' = Announced(log, top.mod)
    BY <1>8 DEF Prepared
  <2>3. log'.rejected = {} /\ log'.threw = {} /\ log'.fulfilled = log.fulfilled
    BY <1>2, <2>2 DEF Announced, Logs
  <2>4. Failed' = {}
    <3>1. errorObject' = errorObject \/ Link(top.mod)
      BY <1>8 DEF Prepared
    <3>2. world.unlinkable = {}
      BY DEF Broken
    <3>3. \A x \in Modules : errorObject'[x] = None
      BY <1>3, <3>1, <3>2 DEF Link
    <3> QED
      BY <3>3 DEF Failed
  <2> QED
    BY <1>4, <2>1, <2>3, <2>4
<1> QED
  BY <1>5, <1>6, <1>7, <1>8

LEMMA PlainLoadKeeps ==
  ASSUME GraphInv, EvalInv, Broken = {},
         \/ ResolveEnds \/ ParseReturns \/ NotifyParentsAsNeeded \/ NotifyParent
         \/ NotifyEnds \/ OnChildModuleReady \/ Prepare \/ Prepared
  PROVE  EvalInv'
<1>1. /\ StackMove(CalmLoads) /\ thrown' = None /\ Failed' = {} /\ SameGraph
      /\ log'.rejected = {} /\ log'.threw = {} /\ log'.fulfilled = log.fulfilled
      /\ UNCHANGED <<evaluating, awaitedModules, caller, suspended, runs, before, ended,
                     wasEvaluated, wasPrepassed, generator>>
  BY LoadCalm DEF EvalInv
<1>2. AllLoad /\ AllLoad' /\ Types /\ stack \in Seq(GoodFrames)
  BY LoadStepLoads DEF LoadStep, Types
<1>3. stack' \in Seq(GoodFrames) /\ Whole' = Whole /\ world' = world
  BY <1>1, <1>2, StackMoveTypes, SameGraphFacts DEF CalmLoads, SameGraph, StackMove
<1>4. \A f \in InProgress' : f \in InProgress \/ f \in CalmLoads
  BY <1>1, <1>2, NewCalls DEF CalmLoads
<1>5. Calm'
  BY <1>1, <1>4 DEF EvalInv, Calm, CalmLoads, CalmCall
<1>6. Requesting'
  BY <1>1, <1>4 DEF EvalInv, Requesting, SameGraph, CalmLoads
<1>7. Counted'
  BY <1>1, <1>2, CountedLoads DEF SameGraph
<1>8. log'.fulfilled \subseteq ended
  BY <1>1 DEF EvalInv, BodyInv, Bodies
<1> QED
  BY <1>1, <1>2, <1>3, <1>5, <1>6, <1>7, <1>8, LoadingKeeps DEF EvalInv

LEMMA ParseSourceKeeps ==
  ASSUME GraphInv, EvalInv, NothingFails, ParseSource
  PROVE  EvalInv'
<1>1. /\ At("ParseSource") /\ thrown' = None /\ world' = world
      /\ UNCHANGED <<evaluating, awaitedModules, caller, suspended, runs, before, ended,
                     wasEvaluated, wasPrepassed, generator, log, errorObject, childrenModuleSet,
                     parentModuleList>>
  BY DEF ParseSource, At, evalState, bodyVars, prepassVars, settleVars
<1>2. /\ AllLoad /\ AllLoad' /\ Types /\ LoadInv /\ Depth > 0 /\ stack \in Seq(GoodFrames)
      /\ DataTypes
  BY LoadStepLoads DEF LoadStep, Types, GraphInv
<1>3. /\ top.mod \in Modules /\ top \in InProgress /\ top.op = "ParseSource" /\ world \in Worlds
      /\ Len(stack) \in Positions /\ top = stack[Len(stack)] /\ InProgress = Lower \cup {top}
  BY <1>1, <1>2, TopState DEF At, DataTypes
<1>4. Lower = {}
  <2>1. Len(stack) = 1
    BY <1>2, <1>3 DEF LoadInv, Resolving
  <2> QED
    BY <2>1 DEF Lower, Below
<1>5. PICK m \in Modules : m = top.mod
  BY <1>3
<1>6. m \notin wasParsed /\ childrenModuleSet[m] = {}
  BY <1>3, <1>5 DEF EvalInv, Requesting
<1>7. PICK r \in Seq(Modules) : r = Requests(m) /\ IsInjective(r)
  BY <1>3, WorldType, ReverseFacts DEF Requests, NothingFails
<1> DEFINE f == Loop("resolve", m, r)
<1>8. /\ f \in GoodFrames /\ f.op = "resolve" /\ f.mod = m /\ f.rest = r /\ f.reason = None
  BY FrameTypes DEF LoadOps, Loop
<1>9. Becomes(f) /\ wasParsed' = wasParsed \cup {m}
  BY <1>5, <1>7 DEF ParseSource, NothingFails, Broken
<1> HIDE DEF f
<1>10. InProgress' = {f}
  BY <1>2, <1>4, <1>8, <1>9, BecomesCalls
<1>11. Calm'
  BY <1>1, <1>8, <1>10 DEF EvalInv, Calm, CalmCall, Failed, RejectOps
<1>12. Requesting'
  BY <1>1, <1>6, <1>7, <1>8, <1>9, <1>10 DEF EvalInv, Requesting
<1>13. Whole \subseteq Whole'
  BY <1>2, ParseSourceInv
<1>14. stack' \in Seq(GoodFrames)
  BY <1>2, <1>8, <1>9, BecomesFacts
<1>15. Counted' /\ log'.fulfilled \subseteq ended
  BY <1>1, <1>2, CountedLoads DEF EvalInv, BodyInv, Bodies
<1> QED
  BY <1>1, <1>2, <1>11, <1>12, <1>13, <1>14, <1>15, LoadingKeeps DEF EvalInv

LEMMA ResolveChildKeeps ==
  ASSUME GraphInv, EvalInv, NothingFails, ResolveChild
  PROVE  EvalInv'
<1>1. /\ At("resolve") /\ thrown' = None /\ world' = world /\ top.rest # <<>>
      /\ UNCHANGED <<evaluating, caller, suspended, runs, before, ended, wasParsed,
                     wasEvaluated, wasPrepassed, generator, log, errorObject>>
      /\ SetParent(Head(top.rest), top.mod) /\ Becomes(Onward)
  BY DEF ResolveChild, At, bodyVars, prepassVars, settleVars
<1>2. /\ AllLoad /\ AllLoad' /\ Types /\ LoadInv /\ Depth > 0 /\ stack \in Seq(GoodFrames)
      /\ DataTypes
  BY LoadStepLoads DEF LoadStep, Types, GraphInv
<1>3. /\ top.mod \in Modules /\ top \in InProgress /\ top.op = "resolve" /\ world \in Worlds
      /\ top.rest \in Seq(Modules)
      /\ Len(stack) \in Positions /\ top = stack[Len(stack)] /\ InProgress = Lower \cup {top}
  BY <1>1, <1>2, TopState DEF At, DataTypes
<1>4. Lower = {}
  <2>1. Len(stack) = 1
    BY <1>2, <1>3 DEF LoadInv, Resolving
  <2> QED
    BY <2>1 DEF Lower, Below
<1>5. PICK m \in Modules, c \in Modules : m = top.mod /\ c = Head(top.rest)
  BY <1>1, <1>3, HeadTail
<1>6. /\ ToSet(top.rest) = {c} \cup ToSet(Tail(top.rest)) /\ c \notin ToSet(Tail(top.rest))
      /\ IsInjective(Tail(top.rest)) /\ m \in wasParsed
      /\ childrenModuleSet[m] \cap ToSet(top.rest) = {}
  BY <1>1, <1>3, <1>5, HeadTail DEF EvalInv, Requesting
<1>7. c \notin childrenModuleSet[m] /\ m \notin ToSet(parentModuleList[c])
  BY <1>2, <1>6 DEF LoadInv, Linked
<1>8. PICK f \in GoodFrames : /\ f = Onward /\ f.op = "resolve" /\ f.mod = m
                              /\ f.rest = Tail(top.rest) /\ f.reason = top.reason
  BY <1>1, <1>2, <1>3, <1>5, OnwardFacts
<1>9. InProgress' = {f} /\ stack' \in Seq(GoodFrames)
  BY <1>1, <1>2, <1>4, <1>8, BecomesCalls, BecomesFacts
<1>10. /\ childrenModuleSet' = [childrenModuleSet EXCEPT ![m] = @ \cup {c}]
       /\ parentModuleList' = [parentModuleList EXCEPT ![c] = Append(@, m)]
       /\ awaitedModules' = [awaitedModules EXCEPT ![m] =
            IF c \in evaluating THEN (@ + 1) % UIntSpan ELSE @]
  <2>1. ~Contains(parentModuleList[c], m)
    BY <1>2, <1>7, AppendFacts DEF DataTypes
  <2> QED
    BY <1>1, <1>5, <2>1 DEF SetParent
<1>11. Calm'
  <2>1. CalmCall(top)
    BY <1>3 DEF EvalInv, Calm
  <2> QED
    BY <1>1, <1>3, <1>8, <1>9, <2>1 DEF EvalInv, Calm, CalmCall, Failed
<1>12. Requesting'
  <2>1. \A x \in Modules : IsInjective(parentModuleList'[x])
    <3>1. IsInjective(Append(parentModuleList[c], m))
      BY <1>2, <1>7, AppendFacts DEF DataTypes, EvalInv, Requesting
    <3> QED
      BY <1>2, <1>10, <3>1 DEF EvalInv, Requesting, DataTypes
  <2>2. \A x \in Modules \ wasParsed' : childrenModuleSet'[x] = {}
    BY <1>1, <1>2, <1>6, <1>10 DEF EvalInv, Requesting, DataTypes
  <2>3. childrenModuleSet'[m] = childrenModuleSet[m] \cup {c}
    BY <1>2, <1>10 DEF DataTypes
  <2> QED
    BY <1>1, <1>6, <1>8, <1>9, <2>1, <2>2, <2>3 DEF Requesting
<1>13. Whole \subseteq Whole'
  BY <1>2, ResolveChildInv
<1>14. Counted'
  <2>1. Inside = {} /\ Tells = {}
    BY <1>2, OpsFacts DEF AllLoad, Inside, InsideIn, Tells, TellsIn, InProgress
  <2>2. Inside' = {} /\ Tells' = {}
    BY <1>2, OpsFacts DEF AllLoad, Inside, InsideIn, Tells, TellsIn, InProgress
  <2>3. \A p \in Modules : Pending[p] = childrenModuleSet[p] \cap evaluating
    BY <2>1 DEF Pending, PendingOf
  <2>4. \A p \in Modules : Pending'[p] = childrenModuleSet'[p] \cap evaluating
    BY <1>1, <2>2 DEF Pending, PendingOf
  <2>5. \A p \in Modules : p # m => Pending'[p] = Pending[p] /\ awaitedModules'[p] = awaitedModules[p]
    BY <1>2, <1>10, <2>3, <2>4 DEF DataTypes
  <2>6. awaitedModules'[m] = Cardinality(Pending'[m])
    <3>1. /\ awaitedModules[m] = Cardinality(Pending[m]) /\ Pending[m] \in SUBSET Modules
          /\ c \notin Pending[m]
      BY <1>2, <1>7, <2>3 DEF EvalInv, BodyInv, Counted, DataTypes
    <3>a. childrenModuleSet'[m] = childrenModuleSet[m] \cup {c}
      BY <1>2, <1>10 DEF DataTypes
    <3>b. Pending[m] = childrenModuleSet[m] \cap evaluating
      BY <2>3
    <3>c. Pending'[m] = (childrenModuleSet[m] \cup {c}) \cap evaluating
      BY <2>4, <3>a
    <3>2. Pending'[m] = IF c \in evaluating THEN Pending[m] \cup {c} ELSE Pending[m]
      BY <3>b, <3>c
    <3>3. awaitedModules'[m] = IF c \in evaluating THEN (awaitedModules[m] + 1) % UIntSpan
                               ELSE awaitedModules[m]
      BY <1>2, <1>10 DEF DataTypes
    <3> QED
      BY <3>1, <3>2, <3>3, CountMore
  <2> QED
    BY <2>5, <2>6 DEF EvalInv, BodyInv, Counted
<1>15. log'.fulfilled \subseteq ended
  BY <1>1 DEF EvalInv, BodyInv, Bodies
<1> QED
  BY <1>1, <1>2, <1>9, <1>11, <1>12, <1>13, <1>14, <1>15, LoadingKeeps DEF EvalInv

LEMMA LoadStepKeeps ==
  ASSUME GraphInv, EvalInv, NothingFails, LoadStep
  PROVE  EvalInv'
<1>1. Broken = {} /\ Types /\ Depth > 0 /\ Calm
  BY LoadStepLoads DEF NothingFails, EvalInv
<1>2. ~ParseFailed /\ ~ChildFailed
  BY <1>1, CalmTop DEF ParseFailed, ChildFailed, At, CalmCall
<1>3. ~ResolveFails
  <2>1. SUFFICES ASSUME ResolveFails PROVE FALSE
    OBVIOUS
  <2>2. Head(top.rest) \in Modules
    BY <1>1, <2>1, TopState, HeadTail DEF ResolveFails
  <2>3. errorObject[Head(top.rest)] = None /\ world.refused = {}
    BY <1>1, <2>2, CalmTop DEF Broken
  <2> QED
    BY <2>1, <2>3 DEF ResolveFails
<1> QED
  BY <1>1, <1>2, <1>3, ParseSourceKeeps, ResolveChildKeeps, PlainLoadKeeps DEF LoadStep

-----------------------------------------------------------------------------
(* Messages of the host that load, announce or import.                     *)

LEMMA IdleFlat ==
  ASSUME GraphInv, EvalInv, Idle
  PROVE  /\ Types /\ DataTypes /\ stack \in Seq(GoodFrames) /\ Positions = {} /\ InProgress = {}
         /\ AllLoad /\ ~Evaluation /\ Inside = {} /\ Tells = {} /\ Visits = {}
         /\ thrown = None /\ Len(stack) = 0 /\ \A m \in Modules : errorObject[m] = None
<1>1. Types /\ DataTypes /\ stack \in Seq(GoodFrames) /\ Positions = {} /\ Len(stack) = 0
  BY IdleFacts DEF GraphInv, Types
<1>2. InProgress = {} /\ AllLoad /\ ~Evaluation
  BY <1>1 DEF InProgress, AllLoad, Evaluation
<1>3. Inside = {} /\ Tells = {} /\ Visits = {}
  BY <1>2 DEF Inside, InsideIn, Tells, TellsIn, Visits, VisitsIn
<1> QED
  BY <1>1, <1>2, <1>3 DEF EvalInv, Calm, Failed

LEMMA LoadMessageKeeps ==
  ASSUME GraphInv, EvalInv, NEW m \in Modules, LoadRoot(m) \/ LoadImported(m)
  PROVE  EvalInv'
<1>1. /\ Idle /\ JsParseModuleSource(m) /\ SameGraph
      /\ UNCHANGED <<evaluating, awaitedModules, caller, suspended, runs, before, ended,
                     wasEvaluated, wasPrepassed, generator, log, errorObject, thrown>>
  BY DEF LoadRoot, LoadImported, SameGraph, evalState, bodyVars, prepassVars, settleVars
<1>2. /\ Types /\ DataTypes /\ stack \in Seq(GoodFrames) /\ InProgress = {} /\ AllLoad
      /\ thrown = None /\ Positions = {}
  BY <1>1, IdleFlat
<1> DEFINE f == Call("ParseSource", m)
<1>3. f \in GoodFrames /\ f.op = "ParseSource" /\ f.mod = m /\ f.reason = None
  BY FrameTypes DEF LoadOps, Call
<1>4. \/ UNCHANGED stack
      \/ Begins(f) /\ m \notin wasParsed
  BY <1>1 DEF JsParseModuleSource
<1> HIDE DEF f
<1>5. /\ stack' \in Seq(GoodFrames) /\ AllLoad'
      /\ \A g \in InProgress' : g = f /\ m \notin wasParsed
  <2>1. CASE UNCHANGED stack
    BY <1>2, <2>1 DEF AllLoad, Positions, InProgress
  <2>2. CASE Begins(f) /\ m \notin wasParsed
    BY <1>3, <2>2, BeginsCalls, BeginsFacts DEF AllLoad, LoadOps
  <2> QED
    BY <1>4, <2>1, <2>2
<1>6. Calm'
  BY <1>1, <1>3, <1>5 DEF EvalInv, Calm, CalmCall, Failed, RejectOps
<1>7. Requesting'
  BY <1>1, <1>3, <1>5 DEF EvalInv, Requesting, SameGraph
<1>8. Counted' /\ Whole' = Whole /\ world' = world /\ log'.fulfilled \subseteq ended
  BY <1>1, <1>2, <1>5, CountedLoads, SameGraphFacts DEF EvalInv, BodyInv, Bodies, SameGraph
<1> QED
  BY <1>1, <1>2, <1>5, <1>6, <1>7, <1>8, LoadingKeeps DEF EvalInv

LEMMA ImportKeeps ==
  ASSUME GraphInv, EvalInv, Broken = {}, NEW m \in Modules, ImportDone(m) \/ ImportWaits(m)
  PROVE  EvalInv'
<1>1. /\ Idle /\ SameGraph
      /\ UNCHANGED <<evaluating, awaitedModules, caller, suspended, runs, before, ended,
                     wasPrepassed, generator, thrown, stack>>
  BY DEF ImportDone, ImportWaits, ImportBegins, ImportSettles, SameGraph, evalState, bodyVars,
         prepassVars
<1>2. /\ Types /\ DataTypes /\ stack \in Seq(GoodFrames) /\ InProgress = {} /\ AllLoad
      /\ thrown = None /\ Positions = {} /\ log \in Logs
      /\ \A x \in Modules : errorObject[x] = None
  BY <1>1, IdleFlat DEF DataTypes
<1>3. AllLoad' /\ InProgress' = {}
  BY <1>1, <1>2 DEF AllLoad, Positions, InProgress
<1>4. /\ wasEvaluated = ended /\ log.fulfilled \subseteq ended /\ log.rejected = {} /\ log.threw = {}
  BY DEF EvalInv, BodyInv, Bodies, Calm
<1>5. /\ wasEvaluated' = wasEvaluated /\ Failed' = {}
      /\ log'.rejected = {} /\ log'.threw = {} /\ log'.fulfilled \subseteq ended
  <2>1. CASE ImportDone(m)
    <3>1. /\ IsDone(m) /\ wasEvaluated' = wasEvaluated \cup {m} /\ errorObject' = errorObject
          /\ log' = [log EXCEPT !.fulfilled = @ \cup {m}]
      BY <1>2, <2>1 DEF ImportDone, ImportSettles
    <3>2. log' \in Logs /\ log'.rejected = {} /\ log'.threw = {} /\ log'.fulfilled = log.fulfilled \cup {m}
      BY <1>2, <1>4, <3>1 DEF Logs
    <3> QED
      BY <1>2, <1>4, <3>1, <3>2 DEF IsDone, Failed
  <2>2. CASE ImportWaits(m)
    <3>1. world.unlinkable = {}
      BY DEF Broken
    <3>2. /\ wasEvaluated' = wasEvaluated /\ (log' = log \/ log' = Announced(log, m))
          /\ errorObject' = errorObject \/ Link(m)
      BY <2>2, <3>1 DEF ImportWaits
    <3>3. \A x \in Modules : errorObject'[x] = None
      BY <1>2, <3>1, <3>2 DEF Link
    <3>4. log'.rejected = {} /\ log'.threw = {} /\ log'.fulfilled = log.fulfilled
      BY <1>2, <1>4, <3>2 DEF Announced, Logs
    <3> QED
      BY <1>4, <3>2, <3>3, <3>4 DEF Failed
  <2> QED
    BY <2>1, <2>2
<1>6. Calm'
  BY <1>1, <1>2, <1>3, <1>5 DEF Calm
<1>7. Requesting'
  BY <1>1, <1>3 DEF EvalInv, Requesting, SameGraph
<1>8. Counted' /\ Whole' = Whole /\ world' = world
  BY <1>1, <1>2, <1>3, CountedLoads, SameGraphFacts DEF SameGraph
<1> QED
  BY <1>1, <1>2, <1>3, <1>5, <1>6, <1>7, <1>8, LoadingKeeps DEF EvalInv

\* The host asks for the evaluation of a module that is ready.
LEMMA EvaluateKeeps ==
  ASSUME GraphInv, EvalInv, NEW m \in Modules, Evaluate(m)
  PROVE  EvalInv'
<1>1. /\ Idle /\ SameGraph /\ m \in toEvaluate
      /\ UNCHANGED <<evaluating, awaitedModules, caller, suspended, runs, before, ended,
                     wasEvaluated, wasPrepassed, generator, log, errorObject, thrown>>
  BY DEF Evaluate, SameGraph, evalState, bodyVars, prepassVars, settleVars, loadVars
<1>2. /\ Types /\ DataTypes /\ stack \in Seq(GoodFrames) /\ InProgress = {}
      /\ thrown = None /\ Positions = {} /\ ~Evaluation /\ Inside = {} /\ Tells = {} /\ Visits = {}
      /\ \A x \in Modules : errorObject[x] = None
  BY <1>1, IdleFlat
<1>3. m \in Whole
  BY <1>1, <1>2 DEF GraphInv, LinkInv, Ready, Failed
<1>4. CASE UNCHANGED stack
  BY <1>1, <1>4, EvalUnchanged DEF SameGraph
<1>5. CASE Begins(Call("ModuleEvaluation", m))
  <2> DEFINE f == Call("ModuleEvaluation", m)
  <2>1. f \in GoodFrames /\ f.op = "ModuleEvaluation" /\ f.mod = m /\ f.reason = None
    BY FrameTypes DEF PlainOps, OtherFrames, Call
  <2>2. Begins(f)
    BY <1>5
  <2> HIDE DEF f
  <2>3. /\ InProgress' = {f} /\ Len(stack') = 1 /\ stack'[1] = f /\ Positions' = {1}
    BY <2>1, <2>2, BeginsCalls
  <2>4. Evaluation'
    BY <2>1, <2>3 DEF Evaluation, EvaluateOps
  <2>5. Calm' /\ Requesting'
    BY <1>1, <1>2, <2>1, <2>3 DEF EvalInv, Calm, CalmCall, Failed, RejectOps, Requesting, SameGraph
  <2>6. Modes'
    BY <2>1, <2>3, <2>4 DEF Modes, OwnModeOps, EvaluateOps
  <2>7. Nesting'
    BY <2>1, <2>3 DEF Nesting, NestedAt, NestedPair, CalledAt, LastOps, InsideOps
  <2>8. /\ Whole' = Whole /\ Begun' = Begun /\ world' = world /\ world \in Worlds
        /\ \A x : Imports(x)' = Imports(x)
    BY <1>1, <1>2, SameGraphFacts, SameWorld DEF SameGraph, Begun, DataTypes
  <2>9. CallsKnow'
    BY <1>3, <2>1, <2>3, <2>8 DEF CallsKnow, Knows, VisitOps, InsideOps, TellOps
  <2>10. Prepassed'
    BY <1>1, <1>2, <2>1, <2>3, <2>4, <2>8 DEF EvalInv, Prepassed
  <2>11. Inside' = {} /\ Tells' = {} /\ Visits' = {}
    BY <2>1, <2>3 DEF Inside, InsideIn, Tells, TellsIn, Visits, VisitsIn, InsideOps, TellOps, VisitOps
  <2>12. BodyInv'
    <3>1. log'.fulfilled \subseteq ended
      BY <1>1 DEF EvalInv, BodyInv, Bodies
    <3> QED
      BY <1>1, <1>2, <2>8, <2>11, <3>1, BodyStays DEF EvalInv, SameGraph
  <2> QED
    BY <2>5, <2>6, <2>7, <2>9, <2>10, <2>12 DEF EvalInv, StackInv
<1> QED
  BY <1>4, <1>5 DEF Evaluate

-----------------------------------------------------------------------------
(* A module sets out to evaluate the modules it imports.                   *)

\* The callers of the caller are callers.
LEMMA CallersOfCaller ==
  ASSUME NEW call \in [Modules -> Errors], NEW m \in Modules, call[m] # None
  PROVE  call[m] \in CallersOf(call)[m] /\ CallersOf(call)[call[m]] \subseteq CallersOf(call)[m]
<1> DEFINE S == CallersOf(call)[m]
<1>1. m \in S /\ S \in SUBSET Modules /\ \A x \in S : call[x] = None \/ call[x] \in S
  BY CallersOfFacts
<1>2. call[m] \in S
  BY <1>1
<1> HIDE DEF S
<1>3. CallersOf(call)[call[m]] \subseteq S
  BY <1>1, <1>2, CallersOfLeast
<1> QED
  BY <1>2, <1>3 DEF S

\* Who called the module that is about to be evaluated.
LEMMA CallerBelow ==
  ASSUME GraphInv, EvalInv, Depth > 0, top.op \in EvaluateOps, Len(stack) > 1
  PROVE  LET q == stack[Len(stack) - 1] IN
           /\ q \in Lower /\ q.op = "child" /\ q.mod \in evaluating \ suspended
           /\ q.mod \in Modules /\ top.mod \in Imports(q.mod) /\ Len(stack) - 1 \in Below
<1> DEFINE n == Len(stack)
           q == stack[n - 1]
<1>1. Types /\ Nesting /\ CallsKnow
  BY DEF GraphInv, EvalInv, StackInv
<1>2. /\ n \in Nat /\ n > 1 /\ top = stack[n] /\ n \in Positions /\ Positions = Below \cup {n}
      /\ InProgress = Lower \cup {top} /\ \A i \in Below : stack[i] \in Lower
      /\ \A f \in InProgress : f.mod \in Modules /\ f.rest \in Seq(Modules)
      /\ \A i \in Positions : stack[i] \in GoodFrames
  BY <1>1, TopState, TopFacts
<1>3. n - 1 \in Below /\ n - 1 \in Positions /\ n - 1 # n /\ (n - 1) + 1 = n
  BY <1>2 DEF Below
<1>4. q.op = "child"
  BY <1>1, <1>2 DEF Nesting, NestedAt
<1>5. stack[n].mod = Head(q.rest)
  BY <1>1, <1>2, <1>3, <1>4 DEF Nesting, NestedAt
<1>6. q \in Lower /\ q \in InProgress /\ Knows(q) /\ q \in GoodFrames
  BY <1>1, <1>2, <1>3 DEF CallsKnow
<1>7. q.mod \in evaluating \ suspended /\ ToSet(q.rest) \subseteq Imports(q.mod)
  BY <1>4, <1>6 DEF Knows, InsideOps, VisitOps
<1>8. q.rest # <<>> /\ q.rest \in Seq(Modules)
  BY <1>2, <1>4, <1>6 DEF GoodFrames
<1>9. Head(q.rest) \in ToSet(q.rest)
  BY <1>8, HeadTail
<1> QED
  BY <1>2, <1>3, <1>4, <1>5, <1>6, <1>7, <1>9

LEMMA SetEvaluatingStart ==
  ASSUME GraphInv, EvalInv, SetEvaluating
  PROVE  /\ Types /\ DataTypes /\ Depth > 0 /\ Evaluation /\ Tells = {} /\ world \in Worlds
         /\ top.op \in {"ModuleEvaluation", "prepassing"} /\ top.mod \in Modules
         /\ top.mod \in Whole \ Begun /\ SameGraph
         /\ evaluating' = evaluating \cup {top.mod}
         /\ caller' = [caller EXCEPT ![top.mod] = IF Len(stack) = 1 THEN None
                                                  ELSE stack[Len(stack) - 1].mod]
         /\ UNCHANGED <<awaitedModules, suspended, runs, before, ended, wasEvaluated,
                        wasPrepassed, generator, log>>
<1>1. /\ top.op \in {"ModuleEvaluation", "prepassing"} /\ At(top.op)
      /\ top.op = "ModuleEvaluation" => top.mod \notin wasEvaluated \cup evaluating
  BY DEF SetEvaluating, At
<1>2. {"ModuleEvaluation", "prepassing"} \subseteq OwnModeOps \ {"complete"}
      /\ {"ModuleEvaluation", "prepassing"} \subseteq EvaluateOps
  BY DEF OwnModeOps, EvaluateOps
<1>3. /\ Types /\ Depth > 0 /\ Evaluation /\ Tells = {} /\ world \in Worlds /\ Knows(top)
      /\ top.mod \in Modules /\ top.mod \in Whole /\ wasEvaluated = ended
  BY <1>1, <1>2, OwnTop
<1>4. top.mod \notin Begun
  BY <1>1, <1>3 DEF Knows, Begun
<1> QED
  BY <1>1, <1>3, <1>4
  DEF SetEvaluating, Types, SameGraph, loadState, loadVars, prepassVars, bodyVars, settleVars, Depth

LEMMA SetEvaluatingCallers ==
  ASSUME GraphInv, EvalInv, SetEvaluating
  PROVE  /\ caller' \in [Modules -> Errors]
         /\ \A x \in evaluating : caller'[x] = caller[x] /\ Callers'[x] = Callers[x]
         /\ Len(stack) = 1 => caller'[top.mod] = None
         /\ Len(stack) > 1 =>
              /\ caller'[top.mod] = stack[Len(stack) - 1].mod
              /\ Callers[stack[Len(stack) - 1].mod] \subseteq Callers'[top.mod]
              /\ stack[Len(stack) - 1].mod \in Callers'[top.mod]
<1>1. /\ Types /\ DataTypes /\ Depth > 0 /\ top.mod \in Modules /\ top.mod \notin Begun
      /\ top.op \in EvaluateOps
      /\ caller' = [caller EXCEPT ![top.mod] = IF Len(stack) = 1 THEN None
                                               ELSE stack[Len(stack) - 1].mod]
  BY SetEvaluatingStart DEF EvaluateOps
<1>2. Len(stack) \in Nat /\ Len(stack) > 0 /\ (Len(stack) = 1 \/ Len(stack) > 1)
  BY <1>1, TopState, OneOrMore
<1>3. caller \in [Modules -> Errors] /\ evaluating \subseteq Modules
  BY <1>1 DEF DataTypes
<1>4. Len(stack) > 1 => /\ stack[Len(stack) - 1].mod \in Modules
                        /\ stack[Len(stack) - 1].mod \in evaluating
  BY <1>1, CallerBelow
<1>5. caller' \in [Modules -> Errors]
  BY <1>1, <1>2, <1>3, <1>4 DEF Errors
<1>6. \A x \in evaluating : caller'[x] = caller[x]
  BY <1>1, <1>3 DEF Begun
<1>7. \A x \in evaluating : Callers'[x] = Callers[x]
  BY <1>3, <1>5, <1>6, CallersStay DEF EvalInv, BodyInv
<1>8. caller'[top.mod] = IF Len(stack) = 1 THEN None ELSE stack[Len(stack) - 1].mod
  BY <1>1, <1>3
<1>9. ASSUME Len(stack) > 1
      PROVE  /\ caller'[top.mod] = stack[Len(stack) - 1].mod
             /\ Callers[stack[Len(stack) - 1].mod] \subseteq Callers'[top.mod]
             /\ stack[Len(stack) - 1].mod \in Callers'[top.mod]
  <2>a. Len(stack) # 1
    BY <1>2, <1>9
  <2>b. caller'[top.mod] = stack[Len(stack) - 1].mod
    BY <1>8, <2>a
  <2>1. caller'[top.mod] = stack[Len(stack) - 1].mod /\ caller'[top.mod] # None
    BY <1>4, <1>9, <2>b, ModulesAssumption
  <2>2. Callers' = CallersOf(caller')
    BY DEF Callers, CallersOf, Closure
  <2>3. /\ caller'[top.mod] \in CallersOf(caller')[top.mod]
        /\ CallersOf(caller')[caller'[top.mod]] \subseteq CallersOf(caller')[top.mod]
    BY <1>1, <1>5, <2>1, CallersOfCaller
  <2>4. Callers'[caller'[top.mod]] = Callers[caller'[top.mod]]
    BY <1>4, <1>7, <1>9, <2>1
  <2> QED
    BY <2>1, <2>2, <2>3, <2>4
<1> QED
  BY <1>2, <1>5, <1>6, <1>7, <1>8, <1>9

LEMMA SetEvaluatingStack ==
  ASSUME GraphInv, EvalInv, SetEvaluating
  PROVE  StackInv' /\ Prepassed'
<1>1. /\ Types /\ DataTypes /\ Depth > 0 /\ Evaluation /\ world \in Worlds
      /\ top.op \in {"ModuleEvaluation", "prepassing"} /\ top.mod \in Modules
      /\ top.mod \in Whole \ Begun /\ SameGraph
      /\ evaluating' = evaluating \cup {top.mod}
      /\ UNCHANGED <<suspended, ended, wasPrepassed, generator>>
  BY SetEvaluatingStart
<1>2. /\ \A x \in evaluating : caller'[x] = caller[x] /\ Callers'[x] = Callers[x]
      /\ Len(stack) = 1 => caller'[top.mod] = None
      /\ Len(stack) > 1 =>
           /\ caller'[top.mod] = stack[Len(stack) - 1].mod
           /\ Callers[stack[Len(stack) - 1].mod] \subseteq Callers'[top.mod]
           /\ stack[Len(stack) - 1].mod \in Callers'[top.mod]
  BY SetEvaluatingCallers
<1>3. PICK n \in Nat, m \in Modules : n = Len(stack) /\ m = top.mod
  BY <1>1, TopState
<1>4. PICK r \in Seq(Modules) : r = world.imports[m] /\ ToSet(r) = Imports(m)
  BY <1>1, WorldType DEF Imports
<1> DEFINE f == Loop("children", m, r)
<1>5. f \in GoodFrames /\ f.op = "children" /\ f.mod = m /\ f.rest = r
  BY FrameTypes DEF PlainOps, OtherFrames, Loop
<1>6. Becomes(f)
  BY <1>3, <1>4 DEF SetEvaluating
<1> HIDE DEF f
<1>7. /\ TopMove /\ Positions' = Below \cup {n} /\ Len(stack') = n /\ stack'[n] = f
      /\ InProgress' = Lower \cup {f}
  BY <1>1, <1>3, <1>5, <1>6, BecomesMove, BecomesCalls DEF Types
<1>8. /\ n > 0 /\ n \in Positions /\ top = stack[n] /\ InProgress = Lower \cup {top}
      /\ Below = 1 .. n - 1 /\ (n = 1 \/ n > 1)
      /\ \A i \in Below : i \in Nat /\ i \in Positions /\ i < n /\ stack[i] \in Lower /\ stack'[i] = stack[i]
  <2>1. n = 1 \/ n > 1
    BY <1>1, <1>3, TopState, OneOrMore
  <2> QED
    BY <1>1, <1>3, <1>7, <2>1, TopState DEF Below, TopMove
<1>9. top.op \in EvaluateOps /\ top.op \notin PrepassOps \cup InsideOps \cup TellOps
  BY <1>1 DEF EvaluateOps, PrepassOps, InsideOps, TellOps
<1>10. \A g \in Lower : g.op \in InsideOps => g.mod \in evaluating \ suspended
  BY <1>8 DEF EvalInv, StackInv, CallsKnow, Knows
<1>11. KeepsLower
  <2>1. Begun \subseteq Begun' /\ ended \subseteq ended' /\ wasPrepassed \subseteq wasPrepassed'
    BY <1>1 DEF Begun
  <2>2. \A g \in Lower : g.op \in InsideOps =>
          /\ g.mod \in evaluating' \ suspended' /\ caller'[g.mod] = caller[g.mod]
          /\ Callers[g.mod] \subseteq Callers'[g.mod]
    BY <1>1, <1>2, <1>10
  <2>3. ~(Len(stack') < Len(stack))
    BY <1>3, <1>7, <1>8
  <2>4. stack'[Len(stack)].op \in EvaluateOps /\ stack'[Len(stack)].mod = top.mod
    BY <1>3, <1>5, <1>7 DEF EvaluateOps
  <2> QED
    BY <1>1, <1>7, <1>9, <2>1, <2>2, <2>3, <2>4 DEF KeepsLower
<1>12. NestedAt(n)'
  BY <1>1, <1>3, <1>5, <1>7, <1>9, <1>11, TopNests DEF EvalInv, StackInv
<1>13. ASSUME n = 1
      PROVE  CalledAt(n)' /\ \A i \in Below : NestedPair(i, n)'
  <2>1. Below = {} /\ caller'[m] = None
    BY <1>2, <1>3, <1>8, <1>13
  <2>2. CalledAt(n)'
    BY <1>5, <1>7, <2>1 DEF CalledAt
  <2> QED
    BY <2>1, <2>2
<1>14. ASSUME n > 1
      PROVE  CalledAt(n)' /\ \A i \in Below : NestedPair(i, n)'
  <2>1. PICK q : q = stack[n - 1]
    OBVIOUS
  <2>2. /\ q \in Lower /\ q.op = "child" /\ n - 1 \in Below
        /\ q.mod \in evaluating
    BY <1>1, <1>3, <1>9, <1>14, <2>1, CallerBelow
  <2>3. /\ caller'[m] = q.mod /\ Callers[q.mod] \subseteq Callers'[m] /\ q.mod \in Callers'[m]
    BY <1>2, <1>3, <1>14, <2>1
  <2>4. CalledAt(n)'
    <3>1. n - 1 \in Positions' /\ n - 1 < n /\ stack'[n - 1] = q
      BY <1>7, <1>8, <2>1, <2>2
    <3> QED
      BY <1>5, <1>7, <2>2, <2>3, <3>1 DEF CalledAt
  <2>5. ASSUME NEW i \in Below PROVE NestedPair(i, n)'
    <3>1. NestedPair(i, n) /\ stack'[i] = stack[i] /\ Reach' = Reach
      BY <1>1, <1>8, SameWorld DEF EvalInv, StackInv, Nesting, SameGraph
    <3>2. stack[i].op \notin {"prepassing", "prepassChild"}
      BY <1>8, <1>9, <3>1 DEF NestedPair
    <3>3. stack[i].op = "child" => m \in Reach[stack[i].mod]
      BY <1>3, <1>8, <1>9, <3>1 DEF NestedPair
    <3>4. stack[i].op = "child" => stack[i].mod \in Callers'[m]
      <4>1. CASE i = n - 1
        BY <2>1, <2>3, <4>1
      <4>2. CASE i # n - 1
        <5>1. i < n - 1 /\ n - 1 \in Positions /\ i \in Positions
          BY <1>8, <2>2, <4>2
        <5>2. NestedPair(i, n - 1)
          BY <5>1 DEF EvalInv, StackInv, Nesting
        <5> QED
          BY <2>1, <2>2, <2>3, <5>2 DEF NestedPair, InsideOps
      <4> QED
        BY <4>1, <4>2
    <3>5. stack[i].op \in InsideOps => stack[i].mod # m
      BY <1>1, <1>3, <1>8, <1>10 DEF Begun
    <3> QED
      BY <1>5, <1>7, <3>1, <3>2, <3>3, <3>4, <3>5 DEF NestedPair, TellOps
  <2> QED
    BY <2>4, <2>5
<1>15. CalledAt(n)' /\ \A i \in Below : NestedPair(i, n)'
  BY <1>8, <1>13, <1>14
<1>16. Knows(f)'
  <2>1. Whole' = Whole /\ \A x : Imports(x)' = Imports(x)
    BY <1>1, SameGraphFacts, SameWorld DEF SameGraph
  <2>2. m \in evaluating' \ suspended'
    BY <1>1, <1>3 DEF Begun, EvalInv, BodyInv, Bodies
  <2> QED
    BY <1>1, <1>3, <1>4, <1>5, <2>1, <2>2 DEF Knows, TellOps
<1>17. Nesting' /\ CallsKnow'
  BY <1>1, <1>3, <1>5, <1>6, <1>11, <1>12, <1>15, <1>16, BecomesKeeps DEF EvalInv, StackInv
<1>18. Len(stack') # 0 /\ f.op \in OwnModeOps /\ generator' \subseteq wasPrepassed'
  BY <1>1, <1>5, <1>7, <1>8 DEF OwnModeOps, EvaluateOps, EvalInv, Prepassed
<1> QED
  BY <1>1, <1>3, <1>5, <1>7, <1>11, <1>17, <1>18, OwnKeeps

LEMMA SetEvaluatingKeeps ==
  ASSUME GraphInv, EvalInv, SetEvaluating
  PROVE  StackInv' /\ Prepassed' /\ BodyInv'
<1>1. /\ Types /\ DataTypes /\ Depth > 0 /\ Evaluation /\ world \in Worlds
      /\ top.op \in {"ModuleEvaluation", "prepassing"} /\ top.mod \in Modules
      /\ top.mod \in Whole \ Begun /\ SameGraph
      /\ evaluating' = evaluating \cup {top.mod}
      /\ UNCHANGED <<awaitedModules, suspended, runs, before, ended, wasEvaluated,
                     wasPrepassed, generator, log>>
  BY SetEvaluatingStart
<1>2. /\ \A x \in evaluating : caller'[x] = caller[x] /\ Callers'[x] = Callers[x]
      /\ Len(stack) = 1 => caller'[top.mod] = None
      /\ Len(stack) > 1 => caller'[top.mod] = stack[Len(stack) - 1].mod
  BY SetEvaluatingCallers
<1>3. PICK m \in Modules : m = top.mod
  BY <1>1
<1>4. PICK r \in Seq(Modules) : r = world.imports[m] /\ ToSet(r) = Imports(m)
  BY <1>1, WorldType DEF Imports
<1> DEFINE f == Loop("children", m, r)
<1>5. f \in GoodFrames /\ f.op = "children" /\ f.mod = m /\ f.rest = r
  BY FrameTypes DEF PlainOps, OtherFrames, Loop
<1>6. Becomes(f)
  BY <1>3, <1>4 DEF SetEvaluating
<1> HIDE DEF f
<1>7. Inside' = Inside \cup {m} /\ Tells' = Tells /\ Visits' = Visits \cup ({m} \X Imports(m))
  <2>1. InsideOf(top) = {} /\ TellsOf(top) = {} /\ VisitsOf(top) = {}
    BY <1>1 DEF InsideOf, InsideOps, TellsOf, TellOps, VisitsOf, VisitOps
  <2>2. InsideOf(f) = {m} /\ TellsOf(f) = {} /\ VisitsOf(f) = {m} \X Imports(m)
    BY <1>4, <1>5 DEF InsideOf, InsideOps, TellsOf, TellOps, VisitsOf, VisitOps
  <2> QED
    BY <1>1, <1>5, <1>6, <2>1, <2>2, TopSplit, BecomesSplit
<1>8. /\ Whole' = Whole /\ Reach' = Reach /\ (\A x : Imports(x)' = Imports(x))
      /\ childrenModuleSet' = childrenModuleSet
      /\ Begun' = Begun \cup {m} /\ m \notin evaluating /\ m \notin ended
  BY <1>1, <1>3, SameGraphFacts, SameWorld DEF SameGraph, Begun
<1>9. Bodies'
  BY <1>1, <1>3, <1>8 DEF EvalInv, BodyInv, Bodies
<1>10. Visited'
  BY <1>7, <1>8 DEF EvalInv, BodyInv, Visited
<1>11. Counted'
  <2>1. evaluating' \ Inside' = evaluating \ Inside
    BY <1>1, <1>3, <1>7, <1>8
  <2>2. Pending' = Pending
    BY <1>7, <1>8, <2>1 DEF Pending, PendingOf
  <2> QED
    BY <1>1, <2>2 DEF EvalInv, BodyInv, Counted
<1>12. \/ caller'[m] = None
       \/ caller'[m] \in evaluating \ suspended /\ m \in Imports(caller'[m])
  <2>1. Len(stack) = 1 \/ Len(stack) > 1
    BY <1>1, TopState, OneOrMore
  <2>2. ASSUME Len(stack) > 1
        PROVE  caller'[m] \in evaluating \ suspended /\ m \in Imports(caller'[m])
    <3>1. top.op \in EvaluateOps
      BY <1>1 DEF EvaluateOps
    <3> QED
      BY <1>1, <1>2, <1>3, <2>2, <3>1, CallerBelow
  <2> QED
    BY <1>2, <1>3, <2>1, <2>2
<1>13. CallersEvaluating'
  BY <1>1, <1>2, <1>3, <1>8, <1>12 DEF EvalInv, BodyInv, CallersEvaluating
<1>14. Suspended'
  <2>1. suspended \subseteq evaluating /\ None \notin suspended
    BY <1>1, ModulesAssumption DEF EvalInv, BodyInv, Bodies, DataTypes
  <2>2. ASSUME NEW x \in suspended
        PROVE  /\ x \notin Inside' /\ \A y \in evaluating' : caller'[y] # x
               /\ \A c \in Imports(x) : \/ c \in ended /\ <<c, x>> \notin Tells'
                                        \/ c \in evaluating' /\ c \in Callers'[x]
    <3>1. /\ x \notin Inside /\ \A y \in evaluating : caller[y] # x
          /\ \A c \in Imports(x) : \/ c \in ended /\ <<c, x>> \notin Tells
                                   \/ c \in evaluating /\ c \in Callers[x]
      BY DEF EvalInv, BodyInv, Suspended
    <3>2. x \in evaluating /\ x # m
      BY <1>8, <2>1
    <3>3. \A y \in evaluating' : caller'[y] # x
      BY <1>1, <1>2, <1>3, <1>12, <2>1, <3>1
    <3> QED
      BY <1>1, <1>2, <1>7, <3>1, <3>2, <3>3
  <2> QED
    BY <1>1, <1>8, <2>2 DEF Suspended
<1>15. Ordered'
  BY <1>1, <1>8 DEF EvalInv, BodyInv, Ordered
<1> QED
  BY <1>9, <1>10, <1>11, <1>13, <1>14, <1>15, SetEvaluatingStack DEF BodyInv

-----------------------------------------------------------------------------
(* Bodies begin and end.                                                   *)

LEMMA InsideTop ==
  ASSUME Types, Nesting, Depth > 0, top.op \in InsideOps
  PROVE  /\ top.mod \in Inside /\ InsideIn(Lower) = Inside \ {top.mod}
         /\ \A f \in Lower : f.op \in InsideOps => f.mod # top.mod
<1>1. Inside = InsideIn(Lower) \cup {top.mod}
  BY TopSplit DEF InsideOf
<1>2. /\ Len(stack) \in Positions /\ top = stack[Len(stack)] /\ Positions = Below \cup {Len(stack)}
      /\ \A i \in Below : i < Len(stack)
  BY TopState
<1>3. ASSUME NEW f \in Lower, f.op \in InsideOps PROVE f.mod # top.mod
  <2>1. PICK i \in Below : f = stack[i]
    BY DEF Lower
  <2>2. NestedPair(i, Len(stack))
    BY <1>2 DEF Nesting
  <2> QED
    BY <1>2, <1>3, <2>1, <2>2 DEF NestedPair
<1>4. top.mod \notin InsideIn(Lower)
  BY <1>3 DEF InsideIn
<1> QED
  BY <1>1, <1>3, <1>4

LEMMA KnownChildren ==
  ASSUME GraphInv, EvalInv, NEW m \in Begun
  PROVE  m \in Modules /\ childrenModuleSet[m] = Imports(m)
<1>1. m \in Whole
  BY DEF EvalInv, BodyInv, Bodies
<1>2. m \in Modules /\ m \in Cone[m] /\ Cone[m] \subseteq Known
  BY <1>1 DEF Whole, Cone
<1> QED
  BY <1>2 DEF Known

LEMMA NothingPending ==
  ASSUME GraphInv, EvalInv, NEW m \in Begun, awaitedModules[m] = 0
  PROVE  \A c \in Imports(m) : c \notin evaluating \ Inside /\ <<c, m>> \notin Tells
<1>1. m \in Modules /\ childrenModuleSet[m] = Imports(m)
  BY KnownChildren
<1>2. Pending[m] \in SUBSET Modules /\ Cardinality(Pending[m]) = 0
  <2>1. childrenModuleSet[m] \subseteq Modules
    BY <1>1 DEF GraphInv, Types, DataTypes
  <2>2. Cardinality(Pending[m]) = 0
    BY <1>1 DEF EvalInv, BodyInv, Counted
  <2> QED
    BY <1>1, <2>1, <2>2 DEF Pending, PendingOf
<1>3. Pending[m] = {}
  BY <1>2, CountNone
<1> QED
  BY <1>1, <1>3 DEF Pending, PendingOf

\* What a body that is about to begin has before it.
BodyReady(m) ==
  /\ m \in evaluating \ suspended /\ m \notin ended
  /\ \A x \in evaluating : caller[x] # m
  /\ \A c \in Imports(m) : \/ c \in ended /\ <<c, m>> \notin Tells
                           \/ c \in evaluating /\ c \in Callers[m] /\ m \in Reach[c]

LEMMA OwnBodyReady ==
  ASSUME GraphInv, EvalInv, At("FinishOwn")
  PROVE  BodyReady(top.mod)
<1>1. "FinishOwn" \in OwnModeOps \ {"complete"} /\ "FinishOwn" \in InsideOps
      /\ "FinishOwn" \notin VisitOps
  BY DEF OwnModeOps, OwnOps, InsideOps, VisitOps
<1>2. /\ Types /\ Depth > 0 /\ top.op = "FinishOwn" /\ world \in Worlds
      /\ Tells = {} /\ Knows(top) /\ top.mod \in Modules
  BY <1>1, OwnTop
<1>3. PICK n \in Nat, m \in Modules : n = Len(stack) /\ m = top.mod
  BY <1>2, TopState
<1>4. m \in evaluating \ suspended /\ m \notin ended /\ awaitedModules[m] = 0
  BY <1>1, <1>2, <1>3 DEF Knows, EvalInv, BodyInv, Bodies
<1>5. \A c \in Imports(m) : c \notin evaluating \ Inside
  BY <1>3, <1>4, NothingPending DEF Begun
<1>6. /\ n \in Positions /\ top = stack[n] /\ Positions = Below \cup {n}
      /\ \A i \in Below : i < n /\ stack[i] \in Lower
  BY <1>2, <1>3, TopState
<1>7. \A f \in Lower : f.op \in InsideOps => f.mod # m
  BY <1>1, <1>2, <1>3, InsideTop DEF EvalInv, StackInv
<1>8. ASSUME NEW x \in evaluating, caller[x] = m PROVE FALSE
  <2>1. x \in Imports(m) /\ caller[x] # None
    BY <1>3, <1>8, ModulesAssumption DEF EvalInv, BodyInv, CallersEvaluating
  <2>2. x \in Inside
    BY <1>5, <2>1
  <2>3. PICK i \in Positions : stack[i].op \in InsideOps /\ stack[i].mod = x
    BY <2>2 DEF Inside, InsideIn, InProgress
  <2>4. CalledAt(i)
    BY DEF EvalInv, StackInv, Nesting
  <2>5. PICK j \in Positions : stack[j].op = "child" /\ stack[j].mod = m
    BY <1>8, <2>1, <2>3, <2>4 DEF CalledAt
  <2>6. j \in Below
    BY <1>2, <1>6, <2>5
  <2> QED
    BY <1>6, <1>7, <2>5, <2>6 DEF InsideOps
<1>9. ASSUME NEW c \in Imports(m), c \notin ended
      PROVE  c \in evaluating /\ c \in Callers[m] /\ m \in Reach[c]
  <2>1. c \in Modules
    BY <1>2, <1>3, WorldType
  <2>2. <<m, c>> \notin Visits
    <3>1. ASSUME <<m, c>> \in Visits PROVE FALSE
      <4>1. PICK f \in InProgress : f.op \in VisitOps /\ f.mod = m
        BY <3>1 DEF Visits, VisitsIn
      <4>2. f \in Lower
        BY <1>1, <1>2, <4>1, TopState
      <4> QED
        BY <1>7, <4>1, <4>2, OpsFacts
    <3> QED
      BY <3>1
  <2>3. c \in evaluating
    BY <1>4, <1>9, <2>2 DEF EvalInv, BodyInv, Visited, Begun
  <2>4. PICK i \in Positions : stack[i].op \in InsideOps /\ stack[i].mod = c
    <3>1. c \in Inside
      BY <1>5, <2>3
    <3> QED
      BY <3>1 DEF Inside, InsideIn, InProgress
  <2>5. CASE i = n
    <3>1. c = m
      BY <1>3, <1>6, <2>4, <2>5
    <3>2. m \in Callers[m]
      BY <1>2, CallersFacts DEF Types, DataTypes
    <3>3. m \in Reach[m]
      BY <1>2, <3>1, DependenciesStep DEF Reach
    <3> QED
      BY <2>3, <3>1, <3>2, <3>3
  <2>6. CASE i # n
    <3>1. i \in Below /\ i < n /\ i # Len(stack)
      BY <1>3, <1>6, <2>6
    <3>2. NestedAt(i) /\ NestedPair(i, n)
      BY <1>6, <3>1 DEF EvalInv, StackInv, Nesting
    <3>3. stack[i].op = "child"
      BY <2>4, <3>1, <3>2 DEF NestedAt, LastOps, InsideOps
    <3> QED
      BY <1>1, <1>2, <1>3, <1>6, <2>3, <2>4, <3>2, <3>3 DEF NestedPair
  <2> QED
    BY <2>5, <2>6
<1> QED
  BY <1>2, <1>3, <1>4, <1>8, <1>9 DEF BodyReady

LEMMA WaitedBodyReady ==
  ASSUME GraphInv, EvalInv, At("FinishWaited"), top.mod \in generator \ wasEvaluated
  PROVE  BodyReady(top.mod)
<1>1. "FinishWaited" \in WaitedOps \ {"complete"}
  BY DEF WaitedOps
<1>2. /\ Types /\ top.op = "FinishWaited" /\ Knows(top) /\ ~Evaluation /\ Inside = {} /\ Visits = {}
      /\ wasEvaluated = ended
  BY <1>1, WaitedTop
<1>3. top.mod \in evaluating \ suspended /\ top.mod \notin ended /\ awaitedModules[top.mod] = 0
  BY <1>2 DEF Knows, EvalInv, Prepassed, Begun
<1>4. top.mod \in Begun
  BY <1>3 DEF Begun
<1>5. \A c \in Imports(top.mod) : c \notin evaluating /\ <<c, top.mod>> \notin Tells
  BY <1>2, <1>3, <1>4, NothingPending
<1>6. \A c \in Imports(top.mod) : c \in ended
  BY <1>2, <1>4, <1>5 DEF EvalInv, BodyInv, Visited, Begun
<1>7. \A x \in evaluating : caller[x] # top.mod
  <2>1. top.mod # None
    BY <1>2, <1>4, KnownChildren, ModulesAssumption
  <2> QED
    BY <1>5, <2>1 DEF EvalInv, BodyInv, CallersEvaluating
<1> QED
  BY <1>3, <1>5, <1>6, <1>7 DEF BodyReady

\* One more module under evaluation for each module that waits for m.
LEMMA ParentsWait ==
  ASSUME GraphInv, EvalInv, NEW m \in Modules, m \in Inside, m \in evaluating,
         Tells = {}, Tells' = {}, IncrementParents(m), Inside' = Inside \ {m},
         UNCHANGED <<evaluating, childrenModuleSet>>
  PROVE  Counted'
<1>1. /\ awaitedModules \in [Modules -> Nat] /\ childrenModuleSet \in [Modules -> SUBSET Modules]
      /\ \A p \in Modules : m \in childrenModuleSet[p] <=> p \in ToSet(parentModuleList[m])
  BY DEF GraphInv, Types, DataTypes, LoadInv, Linked
<1>2. ASSUME NEW p \in Modules PROVE awaitedModules'[p] = Cardinality(Pending'[p])
  <2>1. /\ Pending[p] \in SUBSET Modules /\ m \notin Pending[p]
        /\ awaitedModules[p] = Cardinality(Pending[p])
    BY <1>1 DEF Pending, PendingOf, EvalInv, BodyInv, Counted
  <2>2. CASE m \in childrenModuleSet[p]
    <3>1. awaitedModules'[p] = (awaitedModules[p] + 1) % UIntSpan
      BY <1>1, <2>2 DEF IncrementParents
    <3>2. Pending'[p] = Pending[p] \cup {m}
      BY <2>2 DEF Pending, PendingOf
    <3> QED
      BY <2>1, <3>1, <3>2, CountMore
  <2>3. CASE m \notin childrenModuleSet[p]
    <3>1. awaitedModules'[p] = awaitedModules[p]
      BY <1>1, <2>3 DEF IncrementParents
    <3>2. Pending'[p] = Pending[p]
      BY <2>3 DEF Pending, PendingOf
    <3> QED
      BY <2>1, <3>1, <3>2
  <2> QED
    BY <2>2, <2>3
<1> QED
  BY <1>2 DEF Counted

\* A body ends, and its module has the modules that wait for it to tell.
LEMMA ParentsToTell ==
  ASSUME GraphInv, EvalInv, NEW m \in evaluating, Inside = {}, Inside' = {},
         Tells' = Tells \cup ({m} \X ToSet(parentModuleList[m])),
         evaluating' = evaluating \ {m}, UNCHANGED <<childrenModuleSet, awaitedModules>>
  PROVE  Counted'
<1>1. /\ m \in Modules
      /\ \A p \in Modules : m \in childrenModuleSet[p] <=> p \in ToSet(parentModuleList[m])
  BY DEF GraphInv, Types, DataTypes, LoadInv, Linked
<1>2. ASSUME NEW p \in Modules PROVE Pending'[p] = Pending[p]
  <2>1. \A c : c # m => (<<c, p>> \in Tells' <=> <<c, p>> \in Tells)
    OBVIOUS
  <2>2. m \in childrenModuleSet[p] => <<m, p>> \in Tells'
    BY <1>1
  <2> QED
    BY <2>1, <2>2 DEF Pending, PendingOf
<1> QED
  BY <1>2 DEF EvalInv, BodyInv, Counted

LEMMA BeginsOnce ==
  ASSUME Types, EvalInv, NEW m \in Modules, BodyReady(m), BeginBody(m), world' = world,
         ended \subseteq ended'
  PROVE  /\ \A x \in Modules : runs'[x] = IF x \in ended \cup suspended \cup {m} THEN 1 ELSE 0
         /\ Ordered'
<1>1. /\ runs \in [Modules -> Nat] /\ before \in [Modules -> SUBSET Modules]
      /\ runs' = [runs EXCEPT ![m] = @ + 1] /\ before' = [before EXCEPT ![m] = ended]
  BY DEF Types, DataTypes, BeginBody, EvalInv, Calm
<1>2. runs[m] = 0
  BY DEF BodyReady, EvalInv, BodyInv, Bodies
<1>3. runs'[m] = 1 /\ \A x \in Modules \ {m} : runs'[x] = runs[x]
  BY <1>1, <1>2
<1>4. before'[m] = ended /\ \A x \in Modules \ {m} : before'[x] = before[x]
  BY <1>1
<1>5. \A x \in Modules : runs'[x] = IF x \in ended \cup suspended \cup {m} THEN 1 ELSE 0
  BY <1>3 DEF EvalInv, BodyInv, Bodies
<1>6. Reach' = Reach /\ \A x : Imports(x)' = Imports(x)
  BY SameWorld
<1>7. Ordered'
  <2>1. \A c \in Imports(m) : c \in ended \/ m \in Reach[c]
    BY DEF BodyReady
  <2> QED
    BY <1>3, <1>4, <1>6, <2>1 DEF EvalInv, BodyInv, Ordered
<1> QED
  BY <1>5, <1>7

LEMMA BodyBegins ==
  ASSUME GraphInv, EvalInv, NEW m \in Modules, BodyReady(m), BeginBody(m), SameGraph,
         suspended' = suspended \cup {m},
         UNCHANGED <<evaluating, ended, caller, wasEvaluated, log>>,
         Inside' = Inside \ {m}, Tells' = Tells, Visits' = Visits, Counted'
  PROVE  BodyInv'
<1>1. Types /\ world' = world /\ Whole' = Whole /\ Reach' = Reach /\ \A x : Imports(x)' = Imports(x)
  BY SameWorld, SameGraphFacts DEF GraphInv, SameGraph
<1>2. /\ \A x \in Modules : runs'[x] = IF x \in ended \cup suspended \cup {m} THEN 1 ELSE 0
      /\ Ordered'
  BY <1>1, BeginsOnce
<1>3. Begun' = Begun /\ Callers' = Callers
  BY DEF Begun, Callers, CallersOf, Closure
<1>4. Bodies'
  BY <1>1, <1>2, <1>3 DEF EvalInv, BodyInv, Bodies, BodyReady
<1>5. Visited' /\ CallersEvaluating'
  BY <1>1, <1>3 DEF EvalInv, BodyInv, Visited, CallersEvaluating
<1>6. Suspended'
  BY <1>1, <1>3 DEF EvalInv, BodyInv, Suspended, BodyReady
<1> QED
  BY <1>2, <1>4, <1>5, <1>6 DEF BodyInv

\* A body ends; no suspended body depends on that of m.
LEMMA BodyEnds ==
  ASSUME GraphInv, EvalInv, NEW m \in evaluating, SameGraph, m \notin ended,
         \A x \in evaluating : caller[x] # m,
         Evaluated(m), ended' = ended \cup {m}, suspended' = suspended \ {m},
         \A x \in Modules : runs'[x] = IF x \in ended \cup suspended \cup {m} THEN 1 ELSE 0,
         Ordered', UNCHANGED <<caller, log>>,
         Inside' = Inside \ {m}, Visits' = Visits, Counted',
         \A c, p : <<c, p>> \in Tells' => <<c, p>> \in Tells \/ c = m
  PROVE  BodyInv'
<1>1. Types /\ world' = world /\ Whole' = Whole /\ Reach' = Reach /\ \A x : Imports(x)' = Imports(x)
  BY SameWorld, SameGraphFacts DEF GraphInv, SameGraph
<1>2. /\ evaluating' = evaluating \ {m} /\ wasEvaluated' = wasEvaluated \cup {m}
      /\ evaluating \subseteq Modules /\ caller \in [Modules -> Errors]
  BY <1>1 DEF Evaluated, Types, DataTypes
<1>3. Begun' = Begun /\ Callers' = Callers
  BY <1>2 DEF Begun, Callers, CallersOf, Closure
<1>4. Bodies'
  BY <1>1, <1>2, <1>3 DEF EvalInv, BodyInv, Bodies
<1>5. Visited'
  BY <1>1, <1>3 DEF EvalInv, BodyInv, Visited
<1>6. CallersEvaluating'
  BY <1>1, <1>2 DEF EvalInv, BodyInv, CallersEvaluating
<1>7. Suspended'
  <2>1. ASSUME NEW s \in suspended, s # m PROVE m \notin Callers[s]
    <3>1. s \in evaluating
      BY <2>1 DEF EvalInv, BodyInv, Bodies
    <3> QED
      BY <1>2, <2>1, <3>1, Childless DEF EvalInv, BodyInv
  <2>2. ASSUME NEW s \in suspended, s # m, NEW c \in Imports(s)
        PROVE  \/ c \in ended' /\ <<c, s>> \notin Tells'
               \/ c \in evaluating' /\ c \in Callers[s]
    <3>1. \/ c \in ended /\ <<c, s>> \notin Tells
          \/ c \in evaluating /\ c \in Callers[s]
      BY DEF EvalInv, BodyInv, Suspended
    <3>2. c # m
      BY <2>1, <2>2, <3>1
    <3> QED
      BY <1>2, <3>1, <3>2
  <2> QED
    BY <1>1, <1>2, <1>3, <2>2 DEF EvalInv, BodyInv, Suspended
<1> QED
  BY <1>4, <1>5, <1>6, <1>7 DEF BodyInv

LEMMA ChildrenEvaluatedKeeps ==
  ASSUME GraphInv, EvalInv, ChildrenEvaluated
  PROVE  StackInv' /\ Prepassed' /\ BodyInv'
<1>1. /\ At("children") /\ top.rest = <<>> /\ SameGraph
      /\ UNCHANGED <<evaluating, caller, suspended, runs, before, ended,
                     wasEvaluated, log, generator, wasPrepassed>>
  BY DEF ChildrenEvaluated, evalState, bodyVars, prepassVars, settleVars, SameGraph, loadState,
         loadVars
<1>2. "children" \in OwnModeOps \ {"complete"}
  BY DEF OwnModeOps, EvaluateOps
<1>3. /\ Types /\ Depth > 0 /\ top.op = "children" /\ world \in Worlds /\ Evaluation /\ Tells = {}
      /\ Knows(top) /\ top.mod \in Modules /\ top.mod \in Whole /\ log.fulfilled \subseteq ended
  BY <1>1, <1>2, OwnTop DEF EvaluateOps
<1>4. /\ top.op \in EvaluateOps /\ top.op \in InsideOps /\ top.op \in VisitOps
      /\ top.op \notin PrepassOps \cup TellOps
  BY <1>3 DEF EvaluateOps, InsideOps, VisitOps, PrepassOps, TellOps
<1>5. PICK m \in Modules : m = top.mod
  BY <1>3
<1>6. m \in evaluating \ suspended /\ m \in Begun
  BY <1>3, <1>4, <1>5 DEF Knows, Begun
<1>7. VisitsOf(top) = {}
  <2>1. ToSet(top.rest) = {}
    BY <1>1, <1>3, ToSetEmpty, TopState
  <2> QED
    BY <2>1 DEF VisitsOf
<1>8. CASE awaitedModules[m] = 0
  <2> DEFINE f == Call("finishing", m)
             g == Call("FinishOwn", m)
  <2>1. /\ f \in GoodFrames /\ g \in GoodFrames
        /\ f.op = "finishing" /\ f.mod = m /\ g.op = "FinishOwn" /\ g.mod = m
    BY FrameTypes DEF PlainOps, OtherFrames, Call
  <2>2. Calls(f, g) /\ UNCHANGED awaitedModules
    BY <1>5, <1>8 DEF ChildrenEvaluated
  <2> HIDE DEF f, g
  <2>3. Knows(f)' /\ Knows(g)'
    <3>1. Knows(f) /\ Knows(g)
      BY <1>3, <1>5, <1>6, <1>8, <2>1 DEF Knows, EvaluateOps, VisitOps, InsideOps, TellOps
    <3> QED
      BY <1>1, <2>2, <3>1, KnowsSame
  <2>4. ASSUME KeepsLower PROVE Nesting' /\ CallsKnow'
    <3>1. Callers' = Callers
      BY <1>1 DEF Callers, CallersOf, Closure
    <3>2. Like(f) /\ Like(g)
      BY <1>1, <1>3, <1>5, <2>1, <3>1 DEF Like, EvaluateOps, InsideOps, TellOps, PrepassOps
    <3> QED
      BY <1>3, <2>1, <2>2, <2>3, <2>4, <3>2, CallsLike
      DEF EvalInv, StackInv, LastOps, InsideOps, EvaluateOps, TellOps, PrepassOps
  <2>5. /\ InsideOf(f) \cup InsideOf(g) = InsideOf(top) /\ VisitsOf(top) \subseteq VisitsOf(f)
        /\ f.op \in OwnModeOps /\ g.op \in OwnModeOps /\ f.op \in EvaluateOps
    BY <1>3, <1>5, <1>7, <2>1 DEF InsideOf, InsideOps, OwnModeOps, EvaluateOps, OwnOps
  <2> QED
    BY <1>1, <1>3, <1>5, <2>1, <2>2, <2>4, <2>5, CallsQuiet
<1>9. CASE awaitedModules[m] # 0
  <2>1. IncrementParents(m) /\ Return
    BY <1>5, <1>9 DEF ChildrenEvaluated
  <2>2. /\ TopMove /\ Positions' = Below /\ Len(stack') = Len(stack) - 1 /\ InProgress' = Lower
        /\ Len(stack) \in Nat
    BY <1>3, <2>1, ReturnMove, ReturnCalls, TopState
  <2>3. KeepsLower
    BY <1>1, <1>3, <1>5, <1>6, <2>2, KeepsQuiet DEF EvalInv, StackInv
  <2>4. Nesting' /\ CallsKnow'
    BY <1>3, <2>1, <2>3, ReturnKeeps DEF EvalInv, StackInv
  <2>5. /\ m \in Inside /\ Inside' = Inside \ {m} /\ Visits' = Visits /\ Tells' = {}
        /\ Visits = VisitsIn(Lower)
    <3>1. m \in Inside /\ InsideIn(Lower) = Inside \ {m}
      BY <1>3, <1>4, <1>5, InsideTop DEF EvalInv, StackInv
    <3> QED
      BY <1>3, <1>7, <2>1, <3>1, TopSplit, ReturnSplit
  <2>6. Len(stack) = 1 => Visits = {}
    <3>1. Len(stack) = 1 => Lower = {}
      BY <2>2 DEF Lower, Below
    <3>2. VisitsIn({}) = {}
      BY DEF VisitsIn
    <3> QED
      BY <2>5, <3>1, <3>2
  <2>7. Begun' = Begun /\ Callers' = Callers
    BY <1>1 DEF Begun, Callers, CallersOf, Closure
  <2>8. StackInv' /\ Prepassed'
    BY <1>1, <1>3, <1>5, <1>6, <2>1, <2>2, <2>3, <2>4, <2>6, <2>7, OwnKeeps DEF EvalInv, Prepassed
  <2>9. Counted'
    BY <1>1, <1>3, <1>6, <2>1, <2>5, ParentsWait DEF SameGraph
  <2>10. BodyInv'
    <3>1. Whole' = Whole /\ Reach' = Reach /\ \A x : Imports(x)' = Imports(x)
      BY <1>1, SameGraphFacts, SameWorld DEF SameGraph
    <3>2. Bodies' /\ Visited' /\ CallersEvaluating'
      BY <1>1, <2>5, <2>7, <3>1 DEF EvalInv, BodyInv, Bodies, Visited, CallersEvaluating
    <3>3. Suspended' /\ Ordered'
      BY <1>1, <1>3, <2>5, <2>7, <3>1 DEF EvalInv, BodyInv, Suspended, Ordered
    <3> QED
      BY <2>9, <3>2, <3>3 DEF BodyInv
  <2> QED
    BY <2>8, <2>10
<1> QED
  BY <1>8, <1>9

\* A body begins or ends in the call of its own ModuleEvaluation.
LEMMA OwnFinishStack ==
  ASSUME GraphInv, EvalInv, At("FinishOwn"), SameGraph,
         UNCHANGED <<caller, wasPrepassed, generator>>,
         evaluating \ {top.mod} \subseteq evaluating', suspended' \subseteq suspended \cup {top.mod},
         Begun' = Begun, ended \subseteq ended',
         \/ Return
         \/ Becomes(Call("complete", top.mod)) /\ top.mod \in ended'
  PROVE  StackInv' /\ Prepassed'
<1>1. "FinishOwn" \in OwnModeOps \ {"complete"}
  BY DEF OwnModeOps, OwnOps
<1>2. /\ Types /\ Depth > 0 /\ top.op = "FinishOwn" /\ Evaluation /\ top.mod \in Modules
      /\ Knows(top) /\ generator \subseteq wasPrepassed
  BY <1>1, OwnTop
<1>3. top.op \notin EvaluateOps \cup PrepassOps /\ top.op \in InsideOps
  BY <1>2 DEF EvaluateOps, PrepassOps, InsideOps
<1>4. Callers' = Callers
  BY DEF Callers, CallersOf, Closure
<1>5. \A f \in Lower : f.op \in InsideOps => f.mod \in evaluating' \ suspended'
  <2>1. \A f \in Lower : f.op \in InsideOps => f.mod # top.mod
    BY <1>2, <1>3, InsideTop DEF EvalInv, StackInv
  <2>2. \A f \in Lower : f.op \in InsideOps => f.mod \in evaluating \ suspended
    BY <1>2, TopState DEF EvalInv, StackInv, CallsKnow, Knows
  <2> QED
    BY <2>1, <2>2
<1>6. ASSUME TopMove PROVE KeepsLower
  BY <1>3, <1>4, <1>5, <1>6 DEF KeepsLower
<1>7. PICK n \in Nat : n = Len(stack) /\ n # 1 /\ top = stack[n]
  BY <1>2, <1>3, TopState DEF Evaluation
<1>8. CASE Return
  <2>1. TopMove /\ Positions' = Below /\ InProgress' = Lower
    BY <1>2, <1>8, ReturnMove, ReturnCalls, TopState
  <2>2. KeepsLower /\ Nesting' /\ CallsKnow'
    BY <1>2, <1>6, <1>8, <2>1, ReturnKeeps DEF EvalInv, StackInv
  <2> QED
    BY <1>2, <1>7, <2>1, <2>2, OwnKeeps
<1>9. CASE Becomes(Call("complete", top.mod)) /\ top.mod \in ended'
  <2>1. PICK m \in Modules : m = top.mod
    BY <1>2
  <2> DEFINE f == Call("complete", m)
  <2>2. f \in GoodFrames /\ f.op = "complete" /\ f.mod = m
    BY FrameTypes DEF PlainOps, OtherFrames, Call
  <2>3. Becomes(f) /\ m \in ended'
    BY <1>9, <2>1
  <2> HIDE DEF f
  <2>4. /\ TopMove /\ Positions' = Below \cup {n} /\ Len(stack') = n /\ stack'[n] = f
        /\ InProgress' = Lower \cup {f}
    BY <1>2, <1>7, <2>2, <2>3, BecomesMove, BecomesCalls, TopState
  <2>5. Like(f)
    BY <1>2, <2>2 DEF Like, EvaluateOps, PrepassOps, InsideOps, TellOps
  <2>6. Knows(f)'
    BY <2>2, <2>3 DEF Knows, EvaluateOps, VisitOps, InsideOps, TellOps
  <2>7. KeepsLower /\ Nesting' /\ CallsKnow'
    BY <1>2, <1>6, <2>2, <2>3, <2>4, <2>5, <2>6, BecomesLike DEF EvalInv, StackInv
  <2>8. f.op \in OwnModeOps /\ n # 0
    BY <1>2, <1>7, <2>2, TopState DEF OwnModeOps, OwnOps
  <2> QED
    BY <1>2, <2>1, <2>2, <2>4, <2>7, <2>8, OwnKeeps
<1> QED
  BY <1>8, <1>9

LEMMA OwnAsyncKeeps ==
  ASSUME GraphInv, EvalInv, FinishAsync, At("FinishOwn")
  PROVE  StackInv' /\ Prepassed' /\ BodyInv'
<1>1. /\ BeginBody(top.mod) /\ suspended' = suspended \cup {top.mod} /\ Return /\ SameGraph
      /\ IncrementParents(top.mod)
      /\ UNCHANGED <<evaluating, ended, caller, wasEvaluated, log, wasPrepassed, generator>>
  BY DEF FinishAsync, At, SameGraph, loadState, loadVars, prepassVars, settleVars
<1>2. "FinishOwn" \in OwnModeOps \ {"complete"}
  BY DEF OwnModeOps, OwnOps
<1>3. /\ Types /\ Depth > 0 /\ top.op = "FinishOwn" /\ Tells = {} /\ top.mod \in Modules
      /\ BodyReady(top.mod)
  BY <1>2, OwnTop, OwnBodyReady
<1>4. Begun' = Begun
  BY <1>1 DEF Begun
<1>5. StackInv' /\ Prepassed'
  BY <1>1, <1>4, OwnFinishStack
<1>6. PICK m \in Modules : m = top.mod
  BY <1>3
<1>7. m \in Inside /\ Inside' = Inside \ {m} /\ Tells' = Tells /\ Visits' = Visits
  <2>1. top.op \in InsideOps /\ top.op \notin VisitOps \cup TellOps
    BY <1>3 DEF InsideOps, VisitOps, TellOps
  <2> QED
    BY <1>1, <1>3, <1>6, <2>1, InsideTop, TopSplit, ReturnSplit
    DEF EvalInv, StackInv, VisitsOf, TellsOf
<1>8. Counted'
  BY <1>1, <1>3, <1>6, <1>7, ParentsWait DEF SameGraph, BodyReady
<1>9. BodyInv'
  BY <1>1, <1>3, <1>6, <1>7, <1>8, BodyBegins
<1> QED
  BY <1>5, <1>9

LEMMA OwnSyncKeeps ==
  ASSUME GraphInv, EvalInv, FinishSync, At("FinishOwn")
  PROVE  StackInv' /\ Prepassed' /\ BodyInv'
<1>1. /\ BeginBody(top.mod) /\ Evaluated(top.mod) /\ ended' = ended \cup {top.mod} /\ SameGraph
      /\ Becomes(Call("complete", top.mod))
      /\ UNCHANGED <<suspended, awaitedModules, caller, log, wasPrepassed, generator>>
  BY DEF FinishSync, At, SameGraph, loadState, loadVars, prepassVars
<1>2. "FinishOwn" \in OwnModeOps \ {"complete"}
  BY DEF OwnModeOps, OwnOps
<1>3. /\ Types /\ Depth > 0 /\ top.op = "FinishOwn" /\ Tells = {} /\ top.mod \in Modules
      /\ BodyReady(top.mod)
  BY <1>2, OwnTop, OwnBodyReady
<1>4. Begun' = Begun /\ evaluating' = evaluating \ {top.mod}
  BY <1>1, <1>3 DEF Begun, Evaluated, BodyReady
<1>5. StackInv' /\ Prepassed'
  BY <1>1, <1>4, OwnFinishStack
<1>6. PICK m \in Modules : m = top.mod
  BY <1>3
<1> DEFINE f == Call("complete", m)
<1>7. f \in GoodFrames /\ f.op = "complete" /\ f.mod = m /\ Becomes(f)
  BY <1>1, <1>6, FrameTypes DEF PlainOps, OtherFrames, Call
<1> HIDE DEF f
<1>8. m \in Inside /\ Inside' = Inside \ {m} /\ Tells' = Tells /\ Visits' = Visits
  <2>1. /\ top.op \in InsideOps /\ top.op \notin VisitOps \cup TellOps
        /\ f.op \notin InsideOps \cup VisitOps \cup TellOps
    BY <1>3, <1>7 DEF InsideOps, VisitOps, TellOps
  <2> QED
    BY <1>3, <1>6, <1>7, <2>1, InsideTop, TopSplit, BecomesSplit
    DEF EvalInv, StackInv, InsideOf, VisitsOf, TellsOf
<1>9. Counted'
  <2>1. evaluating' \ Inside' = evaluating \ Inside
    BY <1>4, <1>6, <1>8
  <2>2. Pending' = Pending
    BY <1>1, <1>8, <2>1 DEF Pending, PendingOf, SameGraph
  <2> QED
    BY <1>1, <2>2 DEF EvalInv, BodyInv, Counted
<1>10. /\ \A x \in Modules : runs'[x] = IF x \in ended \cup suspended \cup {m} THEN 1 ELSE 0
       /\ Ordered'
  BY <1>1, <1>3, <1>6, BeginsOnce DEF SameGraph
<1>11. /\ m \in evaluating /\ m \notin ended /\ suspended' = suspended \ {m}
       /\ \A x \in evaluating : caller[x] # m
  BY <1>1, <1>3, <1>6 DEF BodyReady
<1>12. BodyInv'
  BY <1>1, <1>6, <1>8, <1>9, <1>10, <1>11, BodyEnds
<1> QED
  BY <1>5, <1>12

\* A call that tells the modules that wait for m begins; m has just ended.
LEMMA TellingKnows ==
  ASSUME GraphInv, EvalInv, NEW m \in Modules, m \in ended', SameGraph,
         NEW f, f.op \in TellOps, f.mod = m, f.rest = parentModuleList[m]
  PROVE  Knows(f)'
<1>1. /\ IsInjective(parentModuleList[m])
      /\ \A p \in ToSet(parentModuleList[m]) : m \in childrenModuleSet[p]
  <2>1. ToSet(parentModuleList[m]) \subseteq Modules
    BY ToSetType DEF GraphInv, Types, DataTypes
  <2> QED
    BY <2>1 DEF GraphInv, LoadInv, Linked, EvalInv, Requesting
<1>2. f.op \notin EvaluateOps \cup VisitOps \cup InsideOps
  BY DEF EvaluateOps, VisitOps, InsideOps, TellOps
<1> QED
  BY <1>1, <1>2 DEF Knows, TellOps, EvaluateOps, SameGraph

LEMMA NoneInside ==
  ASSUME Types, Depth > 0, Inside = {}
  PROVE  \A f \in Lower : f.op \notin InsideOps
<1>1. ASSUME NEW f \in Lower, f.op \in InsideOps PROVE FALSE
  <2>1. f.mod \in InsideIn(InProgress)
    BY <1>1, TopState DEF InsideIn
  <2> QED
    BY <2>1 DEF Inside
<1> QED
  BY <1>1

LEMMA WaitedAsyncKeeps ==
  ASSUME GraphInv, EvalInv, FinishAsync, At("FinishWaited")
  PROVE  StackInv' /\ Prepassed' /\ BodyInv'
<1>1. /\ BeginBody(top.mod) /\ suspended' = suspended \cup {top.mod} /\ Return /\ SameGraph
      /\ top.mod \in generator \ wasEvaluated
      /\ UNCHANGED <<evaluating, ended, caller, wasEvaluated, log, wasPrepassed, generator,
                     awaitedModules>>
  BY DEF FinishAsync, At, SameGraph, loadState, loadVars, prepassVars, settleVars
<1>2. "FinishWaited" \in WaitedOps \ {"complete"}
  BY DEF WaitedOps
<1>3. /\ Types /\ Depth > 0 /\ top.op = "FinishWaited" /\ ~Evaluation /\ Inside = {} /\ Visits = {}
      /\ top.mod \in Modules /\ BodyReady(top.mod)
  BY <1>1, <1>2, WaitedTop, WaitedBodyReady
<1>4. top.op \notin EvaluateOps \cup InsideOps \cup VisitOps \cup TellOps \cup PrepassOps
  BY <1>3 DEF EvaluateOps, InsideOps, VisitOps, TellOps, PrepassOps
<1>5. TopMove /\ Positions' = Below
  BY <1>1, <1>3, ReturnMove, TopState
<1>6. Begun' = Begun /\ Callers' = Callers
  BY <1>1 DEF Begun, Callers, CallersOf, Closure
<1>7. \A f \in Lower : f.op \notin InsideOps
  BY <1>3, NoneInside
<1>8. KeepsLower
  BY <1>1, <1>4, <1>5, <1>6, <1>7 DEF KeepsLower
<1>9. Nesting' /\ CallsKnow'
  BY <1>1, <1>3, <1>8, ReturnKeeps DEF EvalInv, StackInv
<1>10. StackInv' /\ Prepassed'
  BY <1>1, <1>2, <1>3, <1>5, <1>8, <1>9, WaitedKeeps
<1>11. PICK m \in Modules : m = top.mod
  BY <1>3
<1>12. Inside' = Inside /\ Inside' = Inside \ {m} /\ Tells' = Tells /\ Visits' = Visits
  BY <1>1, <1>3, <1>4, TopSplit, ReturnSplit DEF InsideOf, TellsOf, VisitsOf
<1>13. Counted'
  <2>1. Pending' = Pending
    BY <1>1, <1>12 DEF Pending, PendingOf, SameGraph
  <2> QED
    BY <1>1, <2>1 DEF EvalInv, BodyInv, Counted
<1>14. BodyInv'
  BY <1>1, <1>3, <1>11, <1>12, <1>13, BodyBegins
<1> QED
  BY <1>10, <1>14

LEMMA WaitedSyncKeeps ==
  ASSUME GraphInv, EvalInv, FinishSync, At("FinishWaited")
  PROVE  StackInv' /\ Prepassed' /\ BodyInv'
<1>1. /\ BeginBody(top.mod) /\ Evaluated(top.mod) /\ ended' = ended \cup {top.mod} /\ SameGraph
      /\ Becomes(Loop("telling", top.mod, parentModuleList[top.mod]))
      /\ top.mod \in generator \ wasEvaluated
      /\ UNCHANGED <<suspended, awaitedModules, caller, log, wasPrepassed, generator>>
  BY DEF FinishSync, At, SameGraph, loadState, loadVars, prepassVars
<1>2. "FinishWaited" \in WaitedOps \ {"complete"}
  BY DEF WaitedOps
<1>3. /\ Types /\ Depth > 0 /\ top.op = "FinishWaited" /\ ~Evaluation /\ Inside = {} /\ Visits = {}
      /\ top.mod \in Modules /\ BodyReady(top.mod)
  BY <1>1, <1>2, WaitedTop, WaitedBodyReady
<1>4. top.op \notin EvaluateOps \cup InsideOps \cup VisitOps \cup TellOps \cup PrepassOps
  BY <1>3 DEF EvaluateOps, InsideOps, VisitOps, TellOps, PrepassOps
<1>5. PICK n \in Nat, m \in Modules, r \in Seq(Modules) :
        n = Len(stack) /\ m = top.mod /\ r = parentModuleList[m]
  BY <1>3, TopState DEF Types, DataTypes
<1> DEFINE f == Loop("telling", m, r)
<1>6. f \in GoodFrames /\ f.op = "telling" /\ f.mod = m /\ f.rest = r /\ Becomes(f)
  BY <1>1, <1>5, FrameTypes DEF PlainOps, OtherFrames, Loop
<1> HIDE DEF f
<1>7. /\ TopMove /\ Positions' = Below \cup {n} /\ Len(stack') = n /\ stack'[n] = f
      /\ InProgress' = Lower \cup {f}
  BY <1>3, <1>5, <1>6, BecomesMove, BecomesCalls, TopState
<1>8. /\ Begun' = Begun /\ Callers' = Callers /\ evaluating' = evaluating \ {m}
      /\ m \in evaluating /\ m \notin ended /\ m \in ended'
  BY <1>1, <1>3, <1>5 DEF Begun, Callers, CallersOf, Closure, Evaluated, BodyReady
<1>9. \A g \in Lower : g.op \notin InsideOps
  BY <1>3, NoneInside
<1>10. KeepsLower
  BY <1>1, <1>4, <1>7, <1>8, <1>9 DEF KeepsLower
<1>11. f.op \in TellOps /\ f.op \in WaitedOps
       /\ f.op \notin EvaluateOps \cup InsideOps \cup VisitOps \cup LastOps
  BY <1>6 DEF EvaluateOps, InsideOps, VisitOps, TellOps, LastOps, WaitedOps
<1>12. Knows(f)'
  BY <1>1, <1>5, <1>6, <1>8, <1>11, TellingKnows
<1>13. NestedAt(n)' /\ CalledAt(n)'
  BY <1>6, <1>7, <1>11 DEF NestedAt, CalledAt
<1>14. ASSUME NEW i \in Below PROVE NestedPair(i, n)'
  <2>1. stack[i] \in Lower /\ stack'[i] = stack[i] /\ i \in Positions
    BY <1>3, <1>7, TopState DEF TopMove
  <2>2. stack[i].op \in WaitedOps
    BY <1>2, <1>3, <2>1, WaitedMode DEF EvalInv, StackInv
  <2>3. stack[i].op \in TellOps => stack[i].mod # m
    <3>1. Knows(stack[i])
      BY <1>3, <2>1, TopState DEF EvalInv, StackInv, CallsKnow
    <3> QED
      BY <1>8, <3>1 DEF Knows
  <2>4. stack[i].op \notin {"prepassing", "prepassChild", "child"} /\ stack[i].op \notin InsideOps
    BY <2>2 DEF WaitedOps, InsideOps
  <2> QED
    BY <1>6, <1>7, <2>1, <2>3, <2>4 DEF NestedPair
<1>15. Nesting' /\ CallsKnow'
  BY <1>3, <1>5, <1>6, <1>10, <1>12, <1>13, <1>14, BecomesKeeps DEF EvalInv, StackInv
<1>16. StackInv' /\ Prepassed'
  BY <1>1, <1>2, <1>3, <1>7, <1>10, <1>11, <1>15, WaitedKeeps
<1>17. /\ Inside' = {} /\ Inside' = Inside \ {m} /\ Visits' = Visits
       /\ Tells' = Tells \cup ({m} \X ToSet(parentModuleList[m]))
  BY <1>3, <1>4, <1>5, <1>6, <1>11, TopSplit, BecomesSplit DEF InsideOf, TellsOf, VisitsOf
<1>18. Counted'
  BY <1>1, <1>3, <1>8, <1>17, ParentsToTell DEF SameGraph
<1>19. /\ \A x \in Modules : runs'[x] = IF x \in ended \cup suspended \cup {m} THEN 1 ELSE 0
       /\ Ordered'
  BY <1>1, <1>3, <1>5, BeginsOnce DEF SameGraph
<1>20. suspended' = suspended \ {m} /\ \A x \in evaluating : caller[x] # m
  BY <1>1, <1>3, <1>5 DEF BodyReady
<1>21. \A c, p : <<c, p>> \in Tells' => <<c, p>> \in Tells \/ c = m
  BY <1>17
<1>22. BodyInv'
  BY <1>1, <1>5, <1>8, <1>17, <1>18, <1>19, <1>20, <1>21, BodyEnds
<1> QED
  BY <1>16, <1>22

\* The promise of a body with a top level await is fulfilled.
LEMMA AsyncReturnsKeeps ==
  ASSUME GraphInv, EvalInv, NEW m \in Modules, AsyncBodyReturns(m)
  PROVE  EvalInv'
<1>1. /\ Idle /\ m \in suspended /\ suspended' = suspended \ {m} /\ ended' = ended \cup {m}
      /\ Evaluated(m) /\ SameGraph
      /\ UNCHANGED <<runs, before, awaitedModules, caller, log, wasPrepassed, generator, thrown,
                     errorObject>>
  BY DEF AsyncBodyReturns, SameGraph, loadState, loadVars, prepassVars
<1>2. /\ Types /\ DataTypes /\ Inside = {} /\ Tells = {} /\ Visits = {} /\ ~Evaluation
      /\ thrown = None
  BY <1>1, IdleFlat
<1>3. PICK r \in Seq(Modules) : r = parentModuleList[m]
  BY <1>2 DEF DataTypes
<1> DEFINE f == Loop("fulfilled", m, r)
<1>4. f \in GoodFrames /\ f.op = "fulfilled" /\ f.mod = m /\ f.rest = r /\ f.reason = None
  BY FrameTypes DEF PlainOps, OtherFrames, Loop
<1>5. Begins(f)
  BY <1>3 DEF AsyncBodyReturns
<1> HIDE DEF f
<1>6. InProgress' = {f} /\ Len(stack') = 1 /\ stack'[1] = f /\ Positions' = {1}
  BY <1>4, <1>5, BeginsCalls
<1>7. /\ f.op \in TellOps /\ f.op \in WaitedOps
      /\ f.op \notin EvaluateOps \cup InsideOps \cup VisitOps \cup LastOps
  BY <1>4 DEF EvaluateOps, InsideOps, VisitOps, TellOps, LastOps, WaitedOps
<1>8. /\ m \in evaluating /\ m \notin ended /\ m \in ended' /\ evaluating' = evaluating \ {m}
      /\ \A x \in evaluating : caller[x] # m
  BY <1>1 DEF Evaluated, EvalInv, BodyInv, Bodies, Suspended
<1>9. Begun' = Begun /\ ~Evaluation'
  BY <1>1, <1>6, <1>7, <1>8 DEF Begun, Evaluation
<1>10. Calm' /\ Requesting'
  BY <1>1, <1>2, <1>4, <1>6 DEF EvalInv, Calm, CalmCall, Failed, RejectOps, Requesting, SameGraph
<1>11. Modes' /\ Nesting'
  BY <1>4, <1>6, <1>7, <1>9 DEF Modes, Nesting, NestedAt, NestedPair, CalledAt
<1>12. CallsKnow'
  <2>1. Knows(f)'
    BY <1>1, <1>3, <1>4, <1>7, <1>8, TellingKnows
  <2> QED
    BY <1>6, <2>1 DEF CallsKnow
<1>13. Prepassed'
  BY <1>1, <1>2, <1>9, PrepassedWaited DEF EvalInv
<1>14. /\ Inside' = {} /\ Visits' = {} /\ Tells' = {m} \X ToSet(parentModuleList[m])
  <2>1. Inside' = {} /\ Visits' = {}
    BY <1>6, <1>7 DEF Inside, InsideIn, Visits, VisitsIn
  <2>2. ToSet(r) \subseteq Modules
    BY ToSetType
  <2>3. Tells' = {m} \X ToSet(r)
    BY <1>4, <1>6, <1>7, <2>2 DEF Tells, TellsIn
  <2> QED
    BY <1>3, <2>1, <2>3
<1>15. Counted'
  BY <1>1, <1>2, <1>8, <1>14, ParentsToTell DEF SameGraph
<1>16. Ordered' /\ \A x \in Modules : runs'[x] = IF x \in ended \cup suspended \cup {m} THEN 1 ELSE 0
  <2>1. Reach' = Reach /\ \A x : Imports(x)' = Imports(x)
    BY <1>1, SameWorld DEF SameGraph
  <2> QED
    BY <1>1, <2>1 DEF EvalInv, BodyInv, Ordered, Bodies
<1>17. \A c, p : <<c, p>> \in Tells' => <<c, p>> \in Tells \/ c = m
  BY <1>14
<1>18. BodyInv'
  BY <1>1, <1>2, <1>8, <1>14, <1>15, <1>16, <1>17, BodyEnds
<1> QED
  BY <1>10, <1>11, <1>12, <1>13, <1>18 DEF EvalInv, StackInv

\* A module that has ended tells the first of those that wait for it.
LEMMA TellsOne ==
  ASSUME GraphInv, EvalInv, NEW op \in TellOps, At(op), top.rest # <<>>,
         DecrementAwaited(Head(top.rest)), SameGraph,
         UNCHANGED <<evaluating, caller, suspended, runs, before, ended,
                     wasEvaluated, log, generator, wasPrepassed>>,
         NEW next \in {"FinishWaited", "nothingAwaited"},
         \/ Becomes(Onward)
         \/ /\ Calls(Onward, Call(next, Head(top.rest)))
            /\ awaitedModules'[Head(top.rest)] = 0
  PROVE  StackInv' /\ Prepassed' /\ BodyInv'
<1>1. op \in WaitedOps \ {"complete"}
  BY DEF WaitedOps, TellOps
<1>2. /\ Types /\ Depth > 0 /\ top.op = op /\ world \in Worlds /\ ~Evaluation /\ Inside = {}
      /\ Visits = {} /\ Knows(top) /\ top.mod \in Modules /\ top.rest \in Seq(Modules)
      /\ top \in GoodFrames /\ log.fulfilled \subseteq ended /\ evaluating \cap ended = {}
      /\ op \notin EvaluateOps \cup InsideOps \cup PrepassOps \cup VisitOps
  BY <1>1, WaitedTop
<1>3. PICK n \in Nat, m \in Modules, p \in Modules, r \in Seq(Modules), f \in GoodFrames :
        /\ n = Len(stack) /\ m = top.mod /\ p = Head(top.rest) /\ r = Tail(top.rest) /\ f = Onward
  <2>1. stack \in Seq(GoodFrames) /\ top.op \notin {"child", "prepassChild"}
    BY <1>2, TopState DEF TellOps
  <2> QED
    BY <1>2, <2>1, TopState, HeadTail, OnwardFacts
<1>4. f.op = op /\ f.mod = m /\ f.rest = r
  <2>1. stack \in Seq(GoodFrames) /\ top.op \notin {"child", "prepassChild"}
    BY <1>2, TopState DEF TellOps
  <2> QED
    BY <1>2, <1>3, <2>1, OnwardFacts
<1>5. /\ m \in ended /\ m \notin evaluating /\ m \in childrenModuleSet[p] /\ p \notin ToSet(r)
      /\ IsInjective(r) /\ \A q \in ToSet(r) : m \in childrenModuleSet[q]
      /\ ToSet(top.rest) = {p} \cup ToSet(r)
  BY <1>2, <1>3, HeadTail DEF Knows
<1>6. p \notin suspended
  <2>1. <<m, p>> \in Tells
    BY <1>2, <1>3, <1>5, TopSplit DEF TellsOf
  <2>2. m \in Imports(p)
    BY <1>5 DEF GraphInv, LoadInv, Linked
  <2> QED
    BY <1>5, <2>1, <2>2 DEF EvalInv, BodyInv, Suspended
<1> DEFINE g == Call(next, p)
<1>7. g \in GoodFrames /\ g.op = next /\ g.mod = p
  BY FrameTypes DEF PlainOps, OtherFrames, Call
<1>8. Becomes(f) \/ (Calls(f, g) /\ awaitedModules'[p] = 0)
  BY <1>3
<1> HIDE DEF g
<1>9. /\ next \in WaitedOps
      /\ next \notin EvaluateOps \cup InsideOps \cup VisitOps \cup TellOps \cup PrepassOps
      /\ op \notin LastOps
  BY DEF WaitedOps, EvaluateOps, InsideOps, VisitOps, TellOps, PrepassOps, LastOps
<1>10. Knows(f)'
  BY <1>2, <1>4, <1>5 DEF Knows, TellOps, EvaluateOps, InsideOps, VisitOps, SameGraph
<1>11. ASSUME awaitedModules'[p] = 0 PROVE Knows(g)'
  BY <1>6, <1>7, <1>9, <1>11 DEF Knows, TellOps, EvaluateOps, InsideOps, VisitOps
<1>12. Like(f) /\ Like(g)
  BY <1>2, <1>3, <1>4, <1>7, <1>9 DEF Like
<1>13. StackInv' /\ Prepassed'
  <2>1. CASE Becomes(f)
    <3>1. TopMove /\ Positions' = Below \cup {n} /\ stack'[n] = f
      BY <1>2, <1>3, <2>1, BecomesMove, TopState
    <3>2. KeepsLower
      BY <1>2, <3>1, KeepsQuiet DEF EvalInv, StackInv
    <3>3. Nesting' /\ CallsKnow'
      BY <1>2, <1>4, <1>10, <1>12, <2>1, <3>2, BecomesLike DEF EvalInv, StackInv, EvaluateOps
    <3> QED
      BY <1>1, <1>2, <1>4, <3>1, <3>2, <3>3, WaitedKeeps
  <2>2. CASE Calls(f, g) /\ awaitedModules'[p] = 0
    <3>1. TopMove /\ Positions' = Below \cup {n, n + 1} /\ stack'[n] = f /\ stack'[n + 1] = g
      BY <1>2, <1>3, <1>7, <2>2, CallsMove, TopState
    <3>2. KeepsLower
      BY <1>2, <3>1, KeepsQuiet DEF EvalInv, StackInv
    <3>3. Nesting' /\ CallsKnow'
      <4>1. f.op \notin {"prepassing", "prepassChild"}
        BY <1>2, <1>4 DEF PrepassOps, EvaluateOps
      <4> QED
        BY <1>2, <1>4, <1>7, <1>9, <1>10, <1>11, <1>12, <2>2, <3>2, <4>1, CallsLike
        DEF EvalInv, StackInv
    <3> QED
      BY <1>1, <1>2, <1>4, <1>7, <1>9, <3>1, <3>2, <3>3, WaitedKeeps
  <2> QED
    BY <1>8, <2>1, <2>2
<1>14. /\ Tells = TellsIn(Lower) \cup ({m} \X ({p} \cup ToSet(r)))
       /\ Tells' = TellsIn(Lower) \cup ({m} \X ToSet(r))
       /\ Inside' = {} /\ Visits' = {}
  <2>1. /\ TellsOf(top) = {m} \X ({p} \cup ToSet(r)) /\ InsideOf(top) = {} /\ VisitsOf(top) = {}
        /\ TellsOf(f) = {m} \X ToSet(r) /\ InsideOf(f) = {} /\ VisitsOf(f) = {}
        /\ TellsOf(g) = {} /\ InsideOf(g) = {} /\ VisitsOf(g) = {}
    BY <1>2, <1>3, <1>4, <1>5, <1>7, <1>9 DEF TellsOf, InsideOf, VisitsOf
  <2>2. /\ Inside = InsideIn(Lower) \cup InsideOf(top)
        /\ Tells = TellsIn(Lower) \cup TellsOf(top)
        /\ Visits = VisitsIn(Lower) \cup VisitsOf(top)
    BY <1>2, TopSplit
  <2>3. CASE Becomes(f)
    BY <1>2, <2>1, <2>2, <2>3, BecomesSplit
  <2>4. CASE Calls(f, g)
    BY <1>2, <1>7, <2>1, <2>2, <2>4, BothSplit
  <2> QED
    BY <1>8, <2>3, <2>4
<1>15. \A q : <<m, q>> \notin TellsIn(Lower)
  <2>1. ASSUME NEW q, <<m, q>> \in TellsIn(Lower) PROVE FALSE
    <3>1. PICK h \in Lower : h.op \in TellOps /\ h.mod = m
      BY <2>1 DEF TellsIn
    <3>2. PICK i \in Below : h = stack[i]
      BY DEF Lower
    <3>3. i \in Positions /\ n \in Positions /\ i < n /\ top = stack[n]
      BY <1>2, <1>3, TopState
    <3>4. NestedPair(i, n)
      BY <3>3 DEF EvalInv, StackInv, Nesting
    <3> QED
      BY <1>2, <1>3, <3>1, <3>2, <3>3, <3>4 DEF NestedPair
  <2> QED
    BY <2>1
<1>16. Tells' = Tells \ {<<m, p>>} /\ <<m, p>> \in Tells
  BY <1>5, <1>14, <1>15
<1>17. Counted'
  <2>1. /\ awaitedModules \in [Modules -> 0 .. UIntSpan - 1] /\ childrenModuleSet \in [Modules -> SUBSET Modules]
        /\ childrenModuleSet' = childrenModuleSet
    BY <1>2 DEF Types, DataTypes, SameGraph
  <2>2. awaitedModules' = [awaitedModules EXCEPT ![p] = (@ - 1) % UIntSpan]
    BY <1>3 DEF DecrementAwaited
  <2>3. /\ awaitedModules'[p] = (awaitedModules[p] - 1) % UIntSpan
        /\ \A q \in Modules \ {p} : awaitedModules'[q] = awaitedModules[q]
    BY <2>1, <2>2
  <2>4. Pending[p] \in SUBSET Modules /\ m \in Pending[p] /\ Pending'[p] = Pending[p] \ {m}
    BY <1>2, <1>5, <1>14, <1>16, <2>1 DEF Pending, PendingOf
  <2>5. \A q \in Modules \ {p} : Pending'[q] = Pending[q]
    BY <1>2, <1>14, <1>16, <2>1 DEF Pending, PendingOf
  <2>6. awaitedModules'[p] = Cardinality(Pending'[p])
    <3>1. awaitedModules[p] = Cardinality(Pending[p])
      BY DEF EvalInv, BodyInv, Counted
    <3> QED
      BY <2>3, <2>4, <3>1, CountFewer
  <2> QED
    BY <2>3, <2>5, <2>6 DEF EvalInv, BodyInv, Counted
<1>18. BodyInv'
  <2>1. /\ Whole' = Whole /\ Reach' = Reach /\ (\A x : Imports(x)' = Imports(x))
        /\ Begun' = Begun /\ Callers' = Callers
    BY SameGraphFacts, SameWorld DEF SameGraph, Begun, Callers, CallersOf, Closure
  <2>2. Bodies' /\ Visited' /\ CallersEvaluating'
    BY <1>2, <1>14, <2>1 DEF EvalInv, BodyInv, Bodies, Visited, CallersEvaluating
  <2>3. Suspended'
    BY <1>2, <1>14, <1>16, <2>1 DEF EvalInv, BodyInv, Suspended
  <2>4. Ordered'
    BY <2>1 DEF EvalInv, BodyInv, Ordered
  <2> QED
    BY <1>17, <2>2, <2>3, <2>4 DEF BodyInv
<1> QED
  BY <1>13, <1>18

LEMMA TellParentKeeps ==
  ASSUME GraphInv, EvalInv, TellParent \/ FulfilledParent
  PROVE  StackInv' /\ Prepassed' /\ BodyInv'
<1>1. /\ SameGraph /\ DecrementAwaited(Head(top.rest)) /\ top.rest # <<>>
      /\ UNCHANGED <<evaluating, caller, suspended, runs, before, ended,
                     wasEvaluated, log, generator, wasPrepassed>>
  BY DEF TellParent, FulfilledParent, bodyVars, prepassVars, settleVars, SameGraph, loadState,
         loadVars
<1>2. CASE TellParent
  <2>1. /\ At("telling")
        /\ \/ Becomes(Onward)
           \/ /\ Calls(Onward, Call("FinishWaited", Head(top.rest)))
              /\ awaitedModules'[Head(top.rest)] = 0
    BY <1>2 DEF TellParent
  <2> QED
    BY <1>1, <2>1, TellsOne DEF TellOps
<1>3. CASE FulfilledParent
  <2>1. /\ At("fulfilled")
        /\ \/ Becomes(Onward)
           \/ /\ Calls(Onward, Call("nothingAwaited", Head(top.rest)))
              /\ awaitedModules'[Head(top.rest)] = 0
    BY <1>3 DEF FulfilledParent
  <2> QED
    BY <1>1, <2>1, TellsOne DEF TellOps
<1> QED
  BY <1>2, <1>3

-----------------------------------------------------------------------------
(* The invariant is inductive.                                             *)

LEMMA InitEval ==
  ASSUME Init
  PROVE  EvalInv
<1>1. /\ stack = <<>> /\ Positions = {} /\ InProgress = {} /\ Len(stack) = 0
  BY DEF Init, Positions, InProgress
<1>2. ~Evaluation /\ Inside = {} /\ Tells = {} /\ Visits = {}
  BY <1>1 DEF Evaluation, Inside, InsideIn, Tells, TellsIn, Visits, VisitsIn
<1>3. Calm /\ Requesting
  BY <1>1 DEF Init, Calm, Failed, Requesting, IsInjective
<1>4. StackInv
  BY <1>1, <1>2 DEF StackInv, Modes, Nesting, CallsKnow
<1>5. Prepassed
  BY <1>2 DEF Init, Prepassed, Begun
<1>6. Counted
  <2>1. \A p \in Modules : Pending[p] = {}
    BY <1>2 DEF Init, Pending, PendingOf
  <2> QED
    BY <2>1, FS_EmptySet DEF Init, Counted
<1>7. Bodies /\ Visited /\ CallersEvaluating /\ Suspended /\ Ordered
  BY DEF Init, Bodies, Begun, Visited, CallersEvaluating, Suspended, Ordered
<1> QED
  BY <1>3, <1>4, <1>5, <1>6, <1>7 DEF EvalInv, BodyInv

LEMMA EvaluateStepKeeps ==
  ASSUME GraphInv, EvalInv, EvaluateStep
  PROVE  EvalInv'
<1>1. /\ Types /\ stack \in Seq(GoodFrames) /\ Calm /\ Requesting /\ log.rejected = {} /\ log.threw = {}
  BY DEF GraphInv, Types, EvalInv, Calm
<1>2. /\ StackMove(QuietFrames) /\ thrown' = None /\ errorObject' = errorObject /\ log' = log
      /\ Depth > 0 /\ At(top.op)
  BY <1>1, EvaluateCalm
<1>3. SameGraph
  BY <1>1, EvaluateLeaves
<1>4. Calm' /\ Requesting'
  BY <1>1, <1>2, <1>3, CalmMove
<1>5. /\ thrown = None /\ \A m \in Modules : errorObject[m] = None
      /\ top.mod \in Modules /\ top.rest \in Seq(Modules)
      /\ \A m \in Modules : childrenModuleSet[m] \subseteq Modules
  BY <1>1, <1>2, CalmTop, TopState DEF DataTypes
<1>6. ~PrepassRefuses /\ ~CatchInEvaluation /\ ~PrepassFails
  BY <1>5 DEF PrepassRefuses, CatchInEvaluation, PrepassFails
<1>7. ~PrepassRethrows
  <2>1. ASSUME At("prepassChild") PROVE Head(top.rest) \in Modules
    <3>1. top.rest # <<>>
      BY <1>1, <1>2, <2>1, TopState DEF At, GoodFrames
    <3> QED
      BY <1>5, <3>1, HeadTail
  <2> QED
    BY <1>5, <2>1 DEF PrepassRethrows
<1>8. StackInv' /\ Prepassed' /\ BodyInv'
  BY <1>6, <1>7, EvaluationReturnsKeeps, EvaluationPrepassesKeeps, SetEvaluatingKeeps,
     EvaluateChildKeeps, ChildEvaluatedKeeps, ChildrenEvaluatedKeeps, PrepassBeginsKeeps,
     PrepassChildKeeps, PrepassEndsKeeps DEF EvaluateStep
<1> QED
  BY <1>4, <1>8 DEF EvalInv

LEMMA FinishStepKeeps ==
  ASSUME GraphInv, EvalInv, NothingFails, FinishStep
  PROVE  EvalInv'
<1>1. /\ Types /\ stack \in Seq(GoodFrames) /\ Calm /\ Requesting /\ Broken = {}
  BY DEF GraphInv, Types, EvalInv, NothingFails
<1>2. /\ StackMove(QuietFrames) /\ thrown' = None /\ errorObject' = errorObject
      /\ log'.rejected = {} /\ log'.threw = {} /\ Depth > 0 /\ At(top.op)
      /\ log'.fulfilled \subseteq log.fulfilled \cup {top.mod}
  BY <1>1, FinishCalm
<1>3. SameGraph
  BY <1>1, EvaluateLeaves
<1>4. Calm' /\ Requesting'
  BY <1>1, <1>2, <1>3, CalmMove
<1>5. thrown = None /\ top.op \notin RejectOps
  BY <1>1, <1>2, CalmTop
<1>6. ~CatchInWaited /\ ~Unwind /\ ~PropogateRejection /\ ~RejectParent /\ ~RejectEnds
  BY <1>5 DEF CatchInWaited, Unwind, PropogateRejection, RejectParent, RejectEnds, At, RejectOps
<1>7. ~FinishThrows
  BY <1>1 DEF FinishThrows, Broken
<1>8. CASE FinishCrashes
  BY <1>8, EvalUnchanged
  DEF FinishCrashes, loadState, loadVars, prepassVars, bodyVars, settleVars
<1>9. CASE ~FinishCrashes
  <2>1. FinishAsync => StackInv' /\ Prepassed' /\ BodyInv'
    BY OwnAsyncKeeps, WaitedAsyncKeeps DEF FinishAsync, AtFinish
  <2>2. FinishSync => StackInv' /\ Prepassed' /\ BodyInv'
    BY OwnSyncKeeps, WaitedSyncKeeps DEF FinishSync, AtFinish
  <2>3. Returns => StackInv' /\ Prepassed' /\ BodyInv'
    BY FinishingReturnsKeeps, WaitedReturnsKeeps DEF Returns
  <2>4. Complete \/ FulfilledEnds => StackInv' /\ Prepassed' /\ BodyInv'
    BY <1>2, CompleteKeeps
  <2>5. StackInv' /\ Prepassed' /\ BodyInv'
    BY <1>6, <1>7, <1>9, <2>1, <2>2, <2>3, <2>4, FinishNothingKeeps, TellParentKeeps,
       ParentsToldKeeps, NothingAwaitedKeeps DEF FinishStep
  <2> QED
    BY <1>4, <2>5 DEF EvalInv
<1> QED
  BY <1>8, <1>9

LEMMA MessageKeeps ==
  ASSUME GraphInv, EvalInv, NothingFails, NEW m \in Modules, Message(m)
  PROVE  EvalInv'
<1>1. Broken = {}
  BY DEF NothingFails
<1>2. ~OnHostException(m) /\ ~AsyncBodyThrows(m) /\ ~ImportRefused(m) /\ ~ImportCrashes(m)
  BY <1>1 DEF Broken, OnHostException, AsyncBodyThrows, ImportRefused, ImportCrashes
<1> QED
  BY <1>1, <1>2, LoadMessageKeeps, EvaluateKeeps, AsyncReturnsKeeps, ImportKeeps DEF Message

LEMMA NextEval ==
  ASSUME GraphInv, EvalInv, NothingFails, [Next]_vars
  PROVE  EvalInv'
<1>1. CASE UNCHANGED vars
  BY <1>1, EvalUnchanged
  DEF vars, data, loadState, loadVars, evalState, prepassVars, bodyVars, settleVars
<1>2. CASE LoadStep
  BY <1>2, LoadStepKeeps
<1>3. CASE EvaluateStep
  BY <1>3, EvaluateStepKeeps
<1>4. CASE FinishStep
  BY <1>4, FinishStepKeeps
<1>5. CASE \E m \in Modules : Message(m)
  BY <1>5, MessageKeeps
<1> QED
  BY <1>1, <1>2, <1>3, <1>4, <1>5 DEF Next

\* If no source fails and no body throws, evaluation keeps its invariant: the
\* calls in progress are nested as the import graph has it, and every awaited
\* count is that of the children that a module waits for.
THEOREM EvaluationInvariant == Spec => [](NothingFails => EvalInv)
<1> DEFINE IInv == GraphInv /\ (NothingFails => EvalInv)
<1>1. Init => IInv
  BY InitGraph, InitEval
<1>2. IInv /\ [Next]_vars => IInv'
  <2> SUFFICES ASSUME GraphInv, NothingFails => EvalInv, [Next]_vars PROVE IInv'
    OBVIOUS
  <2>1. world' = world
    BY WorldStep DEF vars, data
  <2>2. NothingFails' = NothingFails
    BY <2>1 DEF NothingFails, Broken
  <2> QED
    BY <2>2, NextGraph, NextEval
<1>3. IInv => (NothingFails => EvalInv)
  OBVIOUS
<1> QED
  BY <1>1, <1>2, <1>3, PTL DEF Spec

\* However the graph is shared or cyclic, whichever modules await, and however
\* roots, imports and promise jobs interleave: if nothing fails, no body begins
\* twice.
THEOREM RunsOnceHolds == Spec => [](NothingFails => RunsOnce)
<1>1. EvalInv => RunsOnce
  BY DEF EvalInv, BodyInv, Bodies, RunsOnce
<1> QED
  BY <1>1, EvaluationInvariant, PTL

\* A body begins after the bodies of all modules that its own requests have
\* ended, those on a cycle with it excepted, whether it runs from ModuleEvaluation
\* or because nothing is awaited any more.
THEOREM DependenciesFirstHolds == Spec => [](NothingFails => DependenciesFirst)
<1>1. ASSUME GraphInv, EvalInv PROVE DependenciesFirst
  <2> SUFFICES ASSUME NEW m \in Modules, runs[m] > 0, NEW c \in Imports(m)
               PROVE  c \in before[m] \/ m \in Dependencies(c)
    BY DEF DependenciesFirst
  <2>1. c \in Modules
    BY <1>1, WorldType DEF GraphInv, Types, DataTypes
  <2>2. c \in before[m] \/ m \in Reach[c]
    BY <1>1 DEF EvalInv, BodyInv, Ordered
  <2> QED
    BY <2>1, <2>2 DEF Reach
<1> QED
  BY <1>1, GraphInvariant, EvaluationInvariant, PTL

\* awaitedModules does not drift: between two messages it is the number of the
\* children that are under evaluation, for modules on cycles as well.
THEOREM AwaitedExactHolds == Spec => [](NothingFails => AwaitedExact)
<1>1. ASSUME GraphInv, EvalInv PROVE AwaitedExact
  <2> SUFFICES ASSUME Idle, NEW m \in Modules
               PROVE  awaitedModules[m] = Cardinality(childrenModuleSet[m] \cap evaluating)
    BY DEF AwaitedExact
  <2>1. Inside = {} /\ Tells = {}
    BY <1>1, IdleFlat
  <2>2. Pending[m] = childrenModuleSet[m] \cap evaluating
    BY <2>1 DEF Pending, PendingOf
  <2> QED
    BY <1>1, <2>2 DEF EvalInv, BodyInv, Counted
<1> QED
  BY <1>1, GraphInvariant, EvaluationInvariant, PTL

\* The first two conjuncts of ImportsFulfilled, without cycles.
FulfilledLate ==
  (\A m \in Modules : ~OnCycle(m)) =>
    /\ log.rejected = {}
    /\ \A m \in log.fulfilled : {m} \cup Dependencies(m) \subseteq ended

LEMMA EndedClosed ==
  ASSUME GraphInv, EvalInv, \A m \in Modules : ~OnCycle(m), NEW m \in ended
  PROVE  m \in Modules /\ Imports(m) \subseteq ended
<1>1. world \in Worlds /\ m \in Modules
  BY DEF GraphInv, Types, DataTypes
<1>2. runs[m] = 1 /\ before[m] \subseteq ended
  BY <1>1 DEF EvalInv, BodyInv, Bodies, Ordered
<1>3. ASSUME NEW c \in Imports(m) PROVE c \in ended
  <2>1. c \in Modules /\ c \in Cone[m]
    BY <1>1, WorldType, ConeFacts
  <2>2. CASE m \in Reach[c]
    <3>1. m \in Dependencies(c)
      BY <2>1, <2>2 DEF Reach
    <3>2. Imports(m) \subseteq Dependencies(c)
      BY <1>1, <2>1, <3>1, DependenciesStep
    <3> QED
      BY <2>1, <3>2 DEF OnCycle
  <2>3. CASE m \notin Reach[c]
    BY <1>1, <1>2, <2>3 DEF EvalInv, BodyInv, Ordered
  <2> QED
    BY <2>2, <2>3
<1> QED
  BY <1>1, <1>3

\* If nothing fails, no import() is rejected, and without cycles none is
\* fulfilled before everything that the module leads to has run to its end.
THEOREM FulfilledLateHolds == Spec => [](NothingFails => FulfilledLate)
<1>1. ASSUME GraphInv, EvalInv PROVE FulfilledLate
  <2> SUFFICES ASSUME \A m \in Modules : ~OnCycle(m)
               PROVE  /\ log.rejected = {}
                      /\ \A m \in log.fulfilled : {m} \cup Dependencies(m) \subseteq ended
    BY DEF FulfilledLate
  <2>1. /\ world \in Worlds /\ ended \in SUBSET Modules
        /\ log.rejected = {} /\ log.fulfilled \subseteq ended
    BY <1>1 DEF GraphInv, Types, DataTypes, EvalInv, Calm, BodyInv, Bodies
  <2>2. \A m \in ended : Imports(m) \subseteq ended
    BY <1>1, EndedClosed
  <2>3. ASSUME NEW m \in log.fulfilled PROVE {m} \cup Dependencies(m) \subseteq ended
    <3>1. m \in ended /\ m \in Modules
      BY <2>1, <2>3
    <3>2. Cone[m] \subseteq ended
      BY <2>1, <2>2, <3>1, ConeLeast
    <3> QED
      BY <3>1, <3>2 DEF Cone
  <2> QED
    BY <2>1, <2>3
<1> QED
  BY <1>1, GraphInvariant, EvaluationInvariant, PTL
=============================================================================
