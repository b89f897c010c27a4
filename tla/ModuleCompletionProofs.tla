----------------------- MODULE ModuleCompletionProofs -----------------------
(***************************************************************************)
(* What ModuleRecords brings about when nothing fails, for any sources:    *)
(* every root whose sources have arrived is announced, what is announced   *)
(* is evaluated, and when nothing is left to do, a graph without cycles    *)
(* has run to its end, each import() of it is fulfilled and its root has   *)
(* been reported once.                                                     *)
(***************************************************************************)
EXTENDS ModuleRecordsProofs, WellFoundedInduction

USE DEF data, loadState, evalState, loadVars, notifyVars, linkVars, readyVars,
        prepassVars, bodyVars, settleVars

-----------------------------------------------------------------------------
(* What has arrived is announced, if nothing fails.                        *)

\* NotifyParentsAsNeeded of these has been called.
Settling == parentsNotified \cup Passing

\* The modules that m leads to without passing one of cut, and m.
WalkOf(children, cut) ==
  [m \in Modules |->
     Closure({m}, [x \in Modules |-> IF x \in cut THEN {} ELSE children[x] \ cut])]
Walk == WalkOf(childrenModuleSet, Settling)

\* PrepareForModuleDeclarationInitialization of these is about to be called.
VisitDue(f) == {x \in Modules :
  \/ f.op \in {"resolve", "Prepare", "OnChildModuleReady"} /\ x = f.mod
  \/ f.op = "notifying" /\ x \in ToSet(f.rest)
  \/ f.op = "NotifyParents" /\ f.mod \notin notifying /\ f.mod \in childrenModuleSet[x]}
Due == UNION {VisitDue(f) : f \in InProgress}

\* A module whose graph has been parsed tells its parents, or there is a module
\* in the way that is about to be looked at again.
Scheduled == \A m \in wasParsed \ Settling :
  Walk[m] \subseteq wasParsed => Walk[m] \cap Due # {}

\* The source of every record is there or on its way.
Fetched ==
  /\ \A m \in host.created : \/ m \in wasParsed \cup host.toParse
                             \/ \E f \in InProgress : f.op = "ParseSource" /\ f.mod = m
  /\ wasParsed \subseteq host.created
  /\ \A f \in InProgress : f.op = "ParseSource" => f.mod \in host.created
  /\ \A p \in Modules : childrenModuleSet[p] \subseteq host.created
  /\ host.loaded \cup host.toParse \cup promise \subseteq host.created
  /\ host.errored = {}

\* NotifyParentsAsNeeded is called by PrepareForModuleDeclarationInitialization.
Preparing == \A i \in Positions : stack[i].op \in PassOps =>
  i > 1 /\ stack[i - 1].op = "prepared" /\ stack[i - 1].mod = stack[i].mod

\* A root or an imported module that has told its parents is linked.
RootsLinked ==
  /\ isRootModule \subseteq wasParsed
  /\ \A m \in (isRootModule \cup promise) \cap parentsNotified :
       \/ m \in wasDeclarationInitialized
       \/ \E f \in InProgress : f.op = "prepared" /\ f.mod = m

\* Only announced modules are linked, with what they lead to.
LinkedAnnounced ==
  /\ hadNotifyHostReady \subseteq wasDeclarationInitialized
  /\ \A m \in wasDeclarationInitialized : \E r \in hadNotifyHostReady : m \in Cone[r]
  /\ \A m \in Modules : log.notices[m] = IF m \in hadNotifyHostReady THEN 1 ELSE 0

\* Only what has been linked is evaluated.
EvaluatesLinked ==
  /\ toEvaluate \subseteq hadNotifyHostReady
  /\ Begun \subseteq wasDeclarationInitialized
  /\ \A f \in InProgress : f.op \in EvaluateOps => f.mod \in wasDeclarationInitialized

AnnounceInv == /\ Scheduled /\ Fetched /\ Preparing /\ RootsLinked
               /\ LinkedAnnounced /\ EvaluatesLinked

-----------------------------------------------------------------------------
(* Walks along the imports, up to a cut.                                   *)

LEMMA WalkFacts ==
  ASSUME NEW ch \in [Modules -> SUBSET Modules], NEW cut, NEW m \in Modules
  PROVE  /\ m \in WalkOf(ch, cut)[m] /\ WalkOf(ch, cut)[m] \subseteq Modules
         /\ \A x \in WalkOf(ch, cut)[m] \ cut : ch[x] \ cut \subseteq WalkOf(ch, cut)[m]
<1> DEFINE next == [x \in Modules |-> IF x \in cut THEN {} ELSE ch[x] \ cut]
           W == Closure({m}, next)
<1>1. WalkOf(ch, cut)[m] = W
  BY DEF WalkOf
<1>2. \A x \in Modules : next[x] \in SUBSET Modules /\ (x \notin cut => next[x] = ch[x] \ cut)
  OBVIOUS
<1> HIDE DEF next
<1>3. {m} \subseteq W /\ W \subseteq Modules
  BY ClosureFrom, ClosureType
<1>4. ASSUME NEW x \in W \ cut PROVE ch[x] \ cut \subseteq W
  <2>1. next[x] \in SUBSET Modules /\ next[x] = ch[x] \ cut
    BY <1>2, <1>3
  <2> QED
    BY <2>1, ClosureStep
<1> QED
  BY <1>1, <1>3, <1>4

LEMMA WalkLeast ==
  ASSUME NEW ch \in [Modules -> SUBSET Modules], NEW cut, NEW S \in SUBSET Modules, NEW m \in S,
         \A x \in S \ cut : ch[x] \ cut \subseteq S
  PROVE  WalkOf(ch, cut)[m] \subseteq S
<1> DEFINE next == [x \in Modules |-> IF x \in cut THEN {} ELSE ch[x] \ cut]
<1>1. WalkOf(ch, cut)[m] = Closure({m}, next)
  BY DEF WalkOf
<1>2. {m} \subseteq S /\ \A x \in S : next[x] \subseteq S
  OBVIOUS
<1> HIDE DEF next
<1> QED
  BY <1>1, <1>2, ClosureLeast

\* A walk that begins outside the cut stays outside, and holds the walks from
\* the modules that it comes by.
LEMMA WalkOutside ==
  ASSUME NEW ch \in [Modules -> SUBSET Modules], NEW cut, NEW m \in Modules \ cut
  PROVE  /\ WalkOf(ch, cut)[m] \cap cut = {}
         /\ \A y \in WalkOf(ch, cut)[m] : WalkOf(ch, cut)[y] \subseteq WalkOf(ch, cut)[m]
<1>1. WalkOf(ch, cut)[m] \subseteq Modules \ cut
  BY WalkLeast
<1>2. ASSUME NEW y \in WalkOf(ch, cut)[m]
      PROVE  WalkOf(ch, cut)[y] \subseteq WalkOf(ch, cut)[m]
  <2> DEFINE S == WalkOf(ch, cut)[m]
  <2>1. S \in SUBSET Modules /\ y \in S /\ \A x \in S \ cut : ch[x] \ cut \subseteq S
    BY WalkFacts
  <2> HIDE DEF S
  <2>2. WalkOf(ch, cut)[y] \subseteq S
    BY <2>1, WalkLeast
  <2> QED
    BY <2>2 DEF S
<1> QED
  BY <1>1, <1>2

LEMMA PassingCalls ==
  /\ Passing = {f.mod : f \in {g \in InProgress : g.op \in PassOps}}
  /\ Passing' = {f.mod : f \in {g \in InProgress' : g.op \in PassOps}}
BY DEF Passing, InProgress

\* If nothing fails, the modules that tell their parents are whole.
LEMMA SettlingFacts ==
  ASSUME GraphInv, EvalInv
  PROVE  /\ Settling \subseteq Whole /\ Whole \subseteq wasParsed /\ Settling \subseteq Modules
         /\ notifying \subseteq Passing /\ Failed = {} /\ world \in Worlds
         /\ childrenModuleSet \in [Modules -> SUBSET Modules]
         /\ \A x \in Whole : childrenModuleSet[x] = Imports(x) /\ Imports(x) \subseteq Whole
<1>1. /\ Failed = {} /\ Types /\ LoadInv /\ stack \in Seq(GoodFrames) /\ world \in Worlds
      /\ childrenModuleSet \in [Modules -> SUBSET Modules]
  BY DEF GraphInv, Types, DataTypes, EvalInv, Calm
<1>2. Passing \subseteq Whole
  BY <1>1 DEF LoadInv, Notifies, Passing
<1>3. parentsNotified \subseteq Whole
  BY <1>1 DEF LoadInv, Notified, Types, DataTypes
<1>4. \A x \in Whole : x \in Modules /\ x \in Known /\ Imports(x) \subseteq Whole
  BY <1>1, WholeMember
<1>5. notifying \subseteq Passing
  BY <1>1 DEF LoadInv, NotifyingCalled, Passing, PassOps, Types, DataTypes
<1> QED
  BY <1>1, <1>2, <1>3, <1>4, <1>5 DEF Settling, Known

\* What the walk of ConfirmChildrenParsed adds is whole.
LEMMA Confirms ==
  ASSUME GraphInv, EvalInv, NEW m \in Modules \ Settling, Walk[m] \subseteq wasParsed
  PROVE  ConfirmChildrenParsed(m)
<1> DEFINE S == Walk[m] \cup Whole
<1>1. /\ Settling \subseteq Whole /\ Whole \subseteq wasParsed /\ Whole \subseteq Modules
      /\ childrenModuleSet \in [Modules -> SUBSET Modules]
      /\ \A x \in Whole : childrenModuleSet[x] \subseteq Whole
  BY SettlingFacts DEF Whole
<1>2. /\ m \in Walk[m] /\ Walk[m] \subseteq Modules /\ Walk[m] \cap Settling = {}
      /\ \A x \in Walk[m] : childrenModuleSet[x] \ Settling \subseteq Walk[m]
  BY <1>1, WalkFacts, WalkOutside DEF Walk
<1>3. S \in SUBSET Modules /\ m \in S /\ S \subseteq wasParsed
  BY <1>1, <1>2
<1>4. \A x \in S : childrenModuleSet[x] \subseteq S
  BY <1>1, <1>2
<1> HIDE DEF S
<1>5. WalkOf(childrenModuleSet, parentsNotified)[m] \subseteq S
  BY <1>1, <1>3, <1>4, WalkLeast
<1> QED
  BY <1>3, <1>5 DEF ConfirmChildrenParsed, WalkOf

\* A step that leaves the walks alone, and forgets no module in the way.
LEMMA SameWalk ==
  ASSUME GraphInv, EvalInv, Scheduled, SameGraph, Settling' = Settling,
         \A y \in Due : y \in Due' \cup Settling \/ ~(Walk[y] \subseteq wasParsed)
  PROVE  Scheduled'
<1>1. Walk' = Walk /\ wasParsed' = wasParsed
  BY DEF Walk, WalkOf, SameGraph, Closure
<1> SUFFICES ASSUME NEW m \in wasParsed \ Settling, Walk[m] \subseteq wasParsed
             PROVE  Walk[m] \cap Due' # {}
  BY <1>1 DEF Scheduled
<1>2. m \in Modules /\ childrenModuleSet \in [Modules -> SUBSET Modules]
  BY SettlingFacts DEF GraphInv, Types, DataTypes
<1>3. PICK y \in Walk[m] : y \in Due
  BY DEF Scheduled
<1>4. Walk[y] \subseteq Walk[m] /\ y \notin Settling
  BY <1>2, WalkOutside DEF Walk
<1> QED
  BY <1>3, <1>4

-----------------------------------------------------------------------------
(* Loading, if nothing fails.                                              *)

\* A call of loading, if nothing fails.
LEMMA LoadCalls ==
  ASSUME GraphInv, EvalInv, LoadStep
  PROVE  /\ Types /\ DataTypes /\ Depth > 0 /\ stack \in Seq(GoodFrames) /\ thrown = None
         /\ InProgress = Lower \cup {top} /\ Lower \subseteq GoodFrames /\ top \in GoodFrames
         /\ top.mod \in Modules /\ top.rest \in Seq(Modules) /\ top.reason = None
         /\ \A f \in InProgress :
              /\ f.op \in LoadOps /\ f.mod \in Modules /\ f.rest \in Seq(Modules) /\ CalmCall(f)
         /\ \A m \in Modules : errorObject[m] = None
         /\ Len(stack) \in Positions /\ top = stack[Len(stack)]
<1>1. AllLoad /\ Types /\ Depth > 0 /\ thrown = None
  BY LoadStepLoads
<1>2. /\ stack \in Seq(GoodFrames) /\ DataTypes /\ InProgress = Lower \cup {top}
      /\ \A f \in InProgress : f.mod \in Modules /\ f.rest \in Seq(Modules)
      /\ top.mod \in Modules /\ top.rest \in Seq(Modules) /\ top \in GoodFrames
      /\ Len(stack) \in Positions /\ top = stack[Len(stack)]
  BY <1>1, TopState
<1>3. Lower \subseteq GoodFrames
  BY <1>1, <1>2, CallsSplit
<1>4. \A f \in InProgress : f.op \in LoadOps /\ CalmCall(f)
  BY <1>1 DEF EvalInv, Calm, AllLoad, InProgress
<1>5. \A m \in Modules : errorObject[m] = None
  BY DEF EvalInv, Calm, Failed
<1> QED
  BY <1>1, <1>2, <1>3, <1>4, <1>5 DEF CalmCall

LEMMA LoadSucceeds ==
  ASSUME GraphInv, EvalInv, NothingFails, LoadStep
  PROVE  ~ResolveFails /\ ~ParseFailed /\ ~ChildFailed /\ Broken = {}
<1>1. ~ParseFailed /\ ~ChildFailed
  BY LoadCalls DEF ParseFailed, ChildFailed, At, CalmCall
<1>2. SUFFICES ASSUME ResolveFails PROVE FALSE
  BY <1>1 DEF NothingFails
<1>3. Head(top.rest) \in Modules
  BY <1>2, LoadCalls, HeadTail DEF ResolveFails
<1> QED
  BY <1>2, <1>3, LoadCalls DEF ResolveFails, NothingFails, Broken

LEMMA LowerStays ==
  ASSUME Types, LoadStep, Depth > 0
  PROVE  Lower \subseteq InProgress'
BY LoadFrames, ReturnCalls, BecomesCalls, CallsCalls DEF Types

LEMMA ParentsOf ==
  ASSUME GraphInv, NEW m \in Modules
  PROVE  /\ parentModuleList[m] \in Seq(Modules)
         /\ ToSet(parentModuleList[m]) = {x \in Modules : m \in childrenModuleSet[x]}
<1>1. parentModuleList[m] \in Seq(Modules) /\ Linked
  BY DEF GraphInv, Types, DataTypes, LoadInv
<1>2. ToSet(parentModuleList[m]) \subseteq Modules
  BY <1>1, ToSetType
<1> QED
  BY <1>1, <1>2 DEF Linked

LEMMA PlainLoadSchedules ==
  ASSUME GraphInv, EvalInv, NothingFails, Scheduled,
         ResolveEnds \/ ParseReturns \/ NotifyParent \/ OnChildModuleReady \/ Prepared
  PROVE  Scheduled'
<1>1. LoadStep
  BY DEF LoadStep
<1>2. /\ Depth > 0 /\ stack \in Seq(GoodFrames) /\ InProgress = Lower \cup {top}
      /\ top.mod \in Modules /\ top.rest \in Seq(Modules) /\ top.reason = None
      /\ top \in InProgress /\ CalmCall(top) /\ \A m \in Modules : errorObject[m] = None
  BY <1>1, LoadCalls
<1>3. SameGraph /\ UNCHANGED <<notifying, parentsNotified>>
  BY DEF ResolveEnds, ParseReturns, NotifyParent, OnChildModuleReady, Prepared, SameGraph
<1> SUFFICES /\ Passing' = Passing
             /\ \A y \in Due : y \in Due'
  BY <1>3, SameWalk DEF Settling
<1>4. CASE ResolveEnds
  <2>1. InProgress' = Lower \cup {Call("parsed", top.mod), Call("Prepare", top.mod)}
    BY <1>2, <1>4, CalmLoadTypes, CallsCalls DEF ResolveEnds, CalmLoads
  <2> QED
    BY <1>2, <1>3, <1>4, <2>1, PassingCalls
    DEF ResolveEnds, At, Due, VisitDue, Call, SameGraph, PassOps
<1>5. CASE ParseReturns
  <2>1. InProgress' = Lower /\ top.op = "parsed"
    BY <1>2, <1>5, ReturnCalls DEF ParseReturns, At, CalmCall
  <2> QED
    BY <1>2, <1>3, <2>1, PassingCalls DEF Due, VisitDue, SameGraph, PassOps
<1>6. CASE NotifyParent
  <2> DEFINE c == CallWith("OnChildModuleReady", Head(top.rest), None)
  <2>1. /\ top.op = "notifying" /\ Head(top.rest) \in Modules /\ Onward \in GoodFrames
        /\ Onward.op = "notifying" /\ Onward.mod = top.mod /\ Onward.rest = Tail(top.rest)
        /\ ToSet(top.rest) = {Head(top.rest)} \cup ToSet(Tail(top.rest))
    BY <1>2, <1>6, HeadTail, OnwardFacts DEF NotifyParent, At
  <2>2. /\ c \in GoodFrames /\ c.op = "OnChildModuleReady" /\ c.mod = Head(top.rest)
        /\ Calls(Onward, c)
    BY <1>2, <1>6, <2>1, CalmLoadTypes DEF NotifyParent, CalmLoads, CallWith
  <2> HIDE DEF c
  <2>3. InProgress' = Lower \cup {Onward, c}
    BY <1>2, <2>1, <2>2, CallsCalls
  <2> QED
    BY <1>2, <1>3, <2>1, <2>2, <2>3, PassingCalls DEF Due, VisitDue, SameGraph, PassOps
<1>7. CASE OnChildModuleReady
  <2>1. InProgress' = Lower \cup {Call("Prepare", top.mod)}
    BY <1>2, <1>7, CalmLoadTypes, BecomesCalls DEF OnChildModuleReady, CalmLoads
  <2> QED
    BY <1>2, <1>3, <1>7, <2>1, PassingCalls
    DEF OnChildModuleReady, At, Due, VisitDue, Call, SameGraph, PassOps
<1>8. CASE Prepared
  <2>1. InProgress' = Lower /\ top.op = "prepared"
    BY <1>2, <1>8, ReturnCalls DEF Prepared, At
  <2> QED
    BY <1>2, <1>3, <2>1, PassingCalls DEF Due, VisitDue, SameGraph, PassOps
<1> QED
  BY <1>4, <1>5, <1>6, <1>7, <1>8

LEMMA NotifySchedules ==
  ASSUME GraphInv, EvalInv, NothingFails, Scheduled, NotifyParentsAsNeeded \/ NotifyEnds
  PROVE  Scheduled'
<1>1. LoadStep
  BY DEF LoadStep
<1>2. /\ Depth > 0 /\ stack \in Seq(GoodFrames) /\ InProgress = Lower \cup {top}
      /\ top.mod \in Modules /\ top.rest \in Seq(Modules) /\ top \in InProgress
  BY <1>1, LoadCalls
<1>3. SameGraph
  BY DEF NotifyParentsAsNeeded, NotifyEnds, SameGraph
<1> SUFFICES /\ Settling' = Settling
             /\ \A y \in Due : y \in Due'
  BY <1>3, SameWalk
<1>4. CASE NotifyEnds
  <2>1. /\ InProgress' = Lower /\ top.op = "notifying" /\ top.rest = <<>>
        /\ notifying' = notifying \ {top.mod}
        /\ parentsNotified' = parentsNotified \cup {top.mod}
    BY <1>2, <1>4, ReturnCalls DEF NotifyEnds, At
  <2>2. Passing = Passing' \cup {top.mod}
    BY <1>2, <2>1, PassingCalls DEF PassOps
  <2>3. ToSet(top.rest) = {}
    BY <1>2, <2>1, ToSetEmpty
  <2>4. \A y \in Due : y \in Due'
    BY <1>2, <1>3, <2>1, <2>3 DEF Due, VisitDue, SameGraph
  <2> QED
    BY <2>1, <2>2, <2>4 DEF Settling
<1>5. CASE NotifyParentsAsNeeded /\ top.mod \in notifying
  <2>1. /\ InProgress' = Lower /\ top.op = "NotifyParents"
        /\ UNCHANGED <<notifying, parentsNotified>>
    BY <1>2, <1>5, ReturnCalls DEF NotifyParentsAsNeeded, At
  <2>2. \E f \in InProgress : f.op = "notifying" /\ f.mod = top.mod
    BY <1>5 DEF GraphInv, LoadInv, NotifyingCalled, InProgress
  <2>3. \E f \in Lower : f.op \in PassOps /\ f.mod = top.mod
    BY <1>2, <2>1, <2>2 DEF PassOps
  <2> QED
    BY <1>2, <1>3, <1>5, <2>1, <2>3, PassingCalls DEF Due, VisitDue, SameGraph, PassOps, Settling
<1>6. CASE NotifyParentsAsNeeded /\ top.mod \notin notifying
  <2> DEFINE g == Loop("notifying", top.mod, parentModuleList[top.mod])
  <2>1. /\ parentModuleList[top.mod] \in Seq(Modules)
        /\ ToSet(parentModuleList[top.mod]) = {x \in Modules : top.mod \in childrenModuleSet[x]}
    BY <1>2, ParentsOf
  <2>2. /\ g \in GoodFrames /\ g.op = "notifying" /\ g.mod = top.mod
        /\ ToSet(g.rest) = {x \in Modules : top.mod \in childrenModuleSet[x]}
    BY <1>2, <2>1, CalmLoadTypes DEF CalmLoads, Loop
  <2>3. /\ Becomes(g) /\ top.op = "NotifyParents" /\ notifying' = notifying \cup {top.mod}
        /\ parentsNotified' = parentsNotified
    BY <1>6 DEF NotifyParentsAsNeeded, At
  <2> HIDE DEF g
  <2>4. InProgress' = Lower \cup {g}
    BY <1>2, <2>2, <2>3, BecomesCalls
  <2>5. Passing' = Passing
    BY <1>2, <2>2, <2>3, <2>4, PassingCalls DEF PassOps
  <2>6. ASSUME NEW y \in Due PROVE y \in Due'
    <3>1. y \in Modules
      BY DEF Due, VisitDue
    <3>2. PICK f \in InProgress : y \in VisitDue(f)
      BY DEF Due
    <3>3. CASE f.op = "NotifyParents" /\ f.mod = top.mod
      <4>1. y \in ToSet(g.rest)
        BY <2>2, <3>1, <3>2, <3>3 DEF VisitDue
      <4> QED
        BY <2>2, <2>4, <3>1, <4>1 DEF Due, VisitDue
    <3>4. CASE f.op # "NotifyParents" \/ f.mod # top.mod
      <4>1. f \in InProgress'
        BY <1>2, <2>3, <2>4, <3>4
      <4> QED
        BY <1>3, <2>3, <3>1, <3>2, <3>4, <4>1 DEF Due, VisitDue, SameGraph
    <3> QED
      BY <3>3, <3>4
  <2> QED
    BY <2>3, <2>5, <2>6 DEF Settling
<1> QED
  BY <1>4, <1>5, <1>6

-----------------------------------------------------------------------------
(* A visit keeps the schedule.                                             *)

LEMMA PrepareSchedules ==
  ASSUME GraphInv, EvalInv, NothingFails, Scheduled, Prepare
  PROVE  Scheduled'
<1>1. LoadStep
  BY DEF LoadStep
<1>2. /\ Depth > 0 /\ stack \in Seq(GoodFrames) /\ InProgress = Lower \cup {top}
      /\ top.mod \in Modules /\ top \in InProgress /\ top.op = "Prepare"
  BY <1>1, LoadCalls DEF Prepare, At
<1>3. SameGraph /\ UNCHANGED <<notifying, parentsNotified>>
  BY DEF Prepare, SameGraph
<1> DEFINE m == top.mod
<1>4. /\ childrenModuleSet \in [Modules -> SUBSET Modules] /\ notifying \subseteq Passing
      /\ Settling \subseteq Modules /\ wasParsed \subseteq Modules
  BY SettlingFacts DEF GraphInv, Types, DataTypes
<1>5. CASE ~ConfirmChildrenParsed(m)
  <2>1. InProgress' = Lower
    BY <1>2, <1>5, ReturnCalls DEF Prepare
  <2>2. Passing' = Passing
    BY <1>2, <2>1, PassingCalls DEF PassOps
  <2>3. \A y \in Due : y = m \/ y \in Due'
    BY <1>2, <1>3, <2>1 DEF Due, VisitDue, SameGraph
  <2>4. m \in Settling \/ ~(Walk[m] \subseteq wasParsed)
    BY <1>2, <1>5, Confirms
  <2> QED
    BY <1>3, <2>2, <2>3, <2>4, SameWalk DEF Settling
<1>6. CASE ConfirmChildrenParsed(m)
  <2> DEFINE f == Call("prepared", m)
             g == Call("NotifyParents", m)
  <2>1. /\ f \in GoodFrames /\ g \in GoodFrames /\ Calls(f, g)
        /\ f.op = "prepared" /\ f.mod = m /\ g.op = "NotifyParents" /\ g.mod = m
    BY <1>2, <1>6, CalmLoadTypes DEF CalmLoads, Call, Prepare
  <2> HIDE DEF f, g
  <2>2. InProgress' = Lower \cup {f, g}
    BY <1>2, <2>1, CallsCalls
  <2>3. Passing' = Passing \cup {m}
    BY <1>2, <2>1, <2>2, PassingCalls DEF PassOps
  <2>4. Settling' = Settling \cup {m}
    BY <1>3, <2>3 DEF Settling
  <2>5. \A y \in Due : y = m \/ y \in Due'
    BY <1>2, <1>3, <2>2 DEF Due, VisitDue, SameGraph
  <2>6. CASE m \in Settling
    <3>1. Settling' = Settling
      BY <2>4, <2>6
    <3> QED
      BY <1>3, <2>5, <2>6, <3>1, SameWalk
  <2>7. CASE m \notin Settling
    <3>1. \A x \in Modules : m \in childrenModuleSet[x] => x \in Due'
      <4>1. m \notin notifying'
        BY <1>3, <1>4, <2>7 DEF Settling
      <4> QED
        BY <1>3, <2>1, <2>2, <4>1 DEF Due, VisitDue, SameGraph
    <3>2. Walk' = WalkOf(childrenModuleSet, Settling')
      BY <1>3 DEF Walk, WalkOf, SameGraph, Closure
    <3> SUFFICES ASSUME NEW x \in wasParsed \ Settling', Walk'[x] \subseteq wasParsed,
                        Walk'[x] \cap Due' = {}
                 PROVE  FALSE
      BY <1>3 DEF Scheduled, SameGraph
    <3> DEFINE S == Walk'[x]
    <3>3. /\ x \in Modules /\ x \in S /\ S \subseteq Modules /\ S \cap Settling' = {}
          /\ \A z \in S : childrenModuleSet[z] \ Settling' \subseteq S
      BY <1>4, <3>2, WalkFacts, WalkOutside
    <3>4. \A z \in S : m \notin childrenModuleSet[z]
      BY <3>1, <3>3
    <3>5. \A z \in S \ Settling : childrenModuleSet[z] \ Settling \subseteq S
      BY <2>4, <3>3, <3>4
    <3>6. S \in SUBSET Modules /\ x \in S /\ m \notin S /\ S \subseteq wasParsed
      BY <2>4, <3>3
    <3> HIDE DEF S
    <3>7. Walk[x] \subseteq S
      BY <1>4, <3>5, <3>6, WalkLeast DEF Walk
    <3>8. x \in wasParsed \ Settling /\ Walk[x] \subseteq wasParsed
      BY <2>4, <3>6, <3>7
    <3>9. PICK y \in Walk[x] : y \in Due
      BY <3>8 DEF Scheduled
    <3>10. y \in Due' /\ y \in S
      BY <2>5, <3>6, <3>7, <3>9
    <3> QED
      BY <3>10 DEF S
  <2> QED
    BY <2>6, <2>7
<1> QED
  BY <1>5, <1>6

\* The call that parses or resolves a module is the only one.
LEMMA SourceCalls ==
  ASSUME GraphInv, EvalInv, ParseSource \/ ResolveChild
  PROVE  /\ Lower = {} /\ InProgress = {top} /\ Depth > 0 /\ stack \in Seq(GoodFrames)
         /\ top.mod \in Modules /\ top.rest \in Seq(Modules) /\ top.reason = None
         /\ Types /\ DataTypes /\ \A m \in Modules : errorObject[m] = None
         /\ ParseSource => /\ top.mod \notin wasParsed /\ childrenModuleSet[top.mod] = {}
                           /\ top.op = "ParseSource"
         /\ ResolveChild => /\ top.op = "resolve" /\ Head(top.rest) \in Modules
                            /\ Onward \in GoodFrames /\ Onward.op = "resolve"
                            /\ Onward.mod = top.mod
<1>1. LoadStep
  BY DEF LoadStep
<1>2. /\ Types /\ DataTypes /\ Depth > 0 /\ stack \in Seq(GoodFrames)
      /\ InProgress = Lower \cup {top} /\ top \in GoodFrames /\ top \in InProgress
      /\ top.mod \in Modules /\ top.rest \in Seq(Modules) /\ top.reason = None
      /\ Len(stack) \in Positions /\ top = stack[Len(stack)]
      /\ \A m \in Modules : errorObject[m] = None
  BY <1>1, LoadCalls
<1>3. top.op \in {"ParseSource", "resolve"}
  BY DEF ParseSource, ResolveChild, At
<1>4. Lower = {}
  <2>1. Len(stack) = 1
    BY <1>2, <1>3 DEF GraphInv, LoadInv, Resolving
  <2> QED
    BY <2>1 DEF Lower, Below
<1>5. ASSUME ParseSource
      PROVE  /\ top.mod \notin wasParsed /\ childrenModuleSet[top.mod] = {}
             /\ top.op = "ParseSource"
  BY <1>2, <1>5 DEF EvalInv, Requesting, ParseSource, At
<1>6. ASSUME ResolveChild
      PROVE  /\ top.op = "resolve" /\ Head(top.rest) \in Modules
             /\ Onward \in GoodFrames /\ Onward.op = "resolve" /\ Onward.mod = top.mod
  BY <1>2, <1>6, OnwardFacts, HeadTail DEF ResolveChild, At
<1> QED
  BY <1>2, <1>4, <1>5, <1>6

\* What ParseSource does, if nothing fails.
LEMMA ParseSourceMove ==
  ASSUME GraphInv, EvalInv, NothingFails, ParseSource
  PROVE  /\ wasParsed' = wasParsed \cup {top.mod}
         /\ \E f \in GoodFrames : f.op = "resolve" /\ f.mod = top.mod /\ InProgress' = {f}
                                  /\ Becomes(f)
<1>1. /\ Depth > 0 /\ stack \in Seq(GoodFrames) /\ Lower = {} /\ top.mod \in Modules /\ Types
  BY SourceCalls
<1>2. Requests(top.mod) \in Seq(Modules)
  BY <1>1, WorldType, ReverseFacts DEF Requests, Types, DataTypes
<1> DEFINE f == Loop("resolve", top.mod, Requests(top.mod))
<1>3. f \in GoodFrames /\ f.op = "resolve" /\ f.mod = top.mod
  BY <1>1, <1>2, FrameTypes DEF LoadOps, Loop
<1>4. Becomes(f) /\ wasParsed' = wasParsed \cup {top.mod}
  BY DEF ParseSource, NothingFails, Broken
<1> HIDE DEF f
<1>5. InProgress' = {f}
  BY <1>1, <1>3, <1>4, BecomesCalls
<1> QED
  BY <1>3, <1>4, <1>5

LEMMA ParseSourceSchedules ==
  ASSUME GraphInv, EvalInv, NothingFails, Scheduled, ParseSource
  PROVE  Scheduled'
<1> DEFINE m == top.mod
<1>1. /\ wasParsed' = wasParsed \cup {m} /\ InProgress = {top} /\ top.op = "ParseSource"
      /\ m \in Modules /\ wasParsed \subseteq Modules
      /\ UNCHANGED <<childrenModuleSet, parentsNotified>>
  BY SourceCalls, ParseSourceMove DEF ParseSource, DataTypes
<1>2. PICK f \in GoodFrames : f.op = "resolve" /\ f.mod = m /\ InProgress' = {f}
  BY ParseSourceMove
<1>3. Passing = {} /\ Passing' = {} /\ Settling' = Settling
  BY <1>1, <1>2, PassingCalls DEF PassOps, Settling
<1>4. Due = {} /\ m \in Due'
  BY <1>1, <1>2 DEF Due, VisitDue
<1>5. Walk' = Walk
  BY <1>1, <1>3 DEF Walk, WalkOf, Closure
<1> SUFFICES ASSUME NEW x \in wasParsed' \ Settling, Walk[x] \subseteq wasParsed \cup {m},
                    m \notin Walk[x]
             PROVE  FALSE
  BY <1>1, <1>3, <1>4, <1>5 DEF Scheduled
<1>6. x \in Walk[x]
  <2>1. x \in Modules /\ childrenModuleSet \in [Modules -> SUBSET Modules]
    BY <1>1, SettlingFacts
  <2> QED
    BY <2>1, WalkFacts DEF Walk
<1> QED
  BY <1>1, <1>4, <1>6 DEF Scheduled

LEMMA ResolveChildSchedules ==
  ASSUME GraphInv, EvalInv, NothingFails, Scheduled, ResolveChild
  PROVE  Scheduled'
<1> DEFINE m == top.mod
           c == Head(top.rest)
<1>1. /\ InProgress = {top} /\ top.op = "resolve" /\ m \in Modules /\ c \in Modules
      /\ Lower = {} /\ Depth > 0 /\ stack \in Seq(GoodFrames)
      /\ Onward \in GoodFrames /\ Onward.op = "resolve" /\ Onward.mod = m
      /\ wasParsed \subseteq Modules
  BY SourceCalls DEF DataTypes
<1>2. /\ childrenModuleSet' = [childrenModuleSet EXCEPT ![m] = @ \cup {c}]
      /\ UNCHANGED <<wasParsed, parentsNotified>> /\ Becomes(Onward)
  BY DEF ResolveChild, SetParent
<1>3. InProgress' = {Onward}
  BY <1>1, <1>2, BecomesCalls
<1>4. Passing = {} /\ Passing' = {} /\ Settling' = Settling
  BY <1>1, <1>2, <1>3, PassingCalls DEF PassOps, Settling
<1>5. Due = {m} /\ m \in Due'
  BY <1>1, <1>3 DEF Due, VisitDue
<1>6. childrenModuleSet \in [Modules -> SUBSET Modules]
  BY SettlingFacts
<1>7. /\ childrenModuleSet' \in [Modules -> SUBSET Modules]
      /\ \A x \in Modules : childrenModuleSet[x] \subseteq childrenModuleSet'[x]
  BY <1>1, <1>2, <1>6
<1>8. Walk' = WalkOf(childrenModuleSet', Settling)
  BY <1>4 DEF Walk, WalkOf, Closure
<1>9. ASSUME NEW x \in Modules PROVE Walk[x] \subseteq Walk'[x]
  <2> DEFINE S == Walk'[x]
  <2>1. /\ x \in S /\ S \in SUBSET Modules
        /\ \A z \in S \ Settling : childrenModuleSet'[z] \ Settling \subseteq S
    BY <1>7, <1>8, WalkFacts
  <2>2. \A z \in S \ Settling : childrenModuleSet[z] \ Settling \subseteq S
    BY <1>7, <2>1
  <2> HIDE DEF S
  <2>3. Walk[x] \subseteq S
    BY <1>6, <2>1, <2>2, WalkLeast DEF Walk
  <2> QED
    BY <2>3 DEF S
<1> SUFFICES ASSUME NEW x \in wasParsed \ Settling, Walk'[x] \subseteq wasParsed
             PROVE  Walk'[x] \cap Due' # {}
  BY <1>2, <1>4 DEF Scheduled
<1>10. m \in Walk[x] /\ Walk[x] \subseteq Walk'[x]
  BY <1>1, <1>5, <1>9 DEF Scheduled
<1> QED
  BY <1>5, <1>10

\* No call of loading is in progress, before and after the step but for a call of
\* ParseSource.
LEMMA OutsideSchedules ==
  ASSUME GraphInv, EvalInv, Scheduled, SameGraph, NoLoad, parentsNotified' = parentsNotified,
         \A f \in InProgress' : f.op \notin PassOps
  PROVE  Scheduled'
<1>1. \A f \in InProgress : f.op \notin LoadOps
  BY DEF NoLoad, InProgress
<1>2. Due = {} /\ Passing = {}
  BY <1>1, PassingCalls DEF Due, VisitDue, LoadOps, PassOps
<1>3. Passing' = {}
  BY PassingCalls
<1>4. Settling' = Settling
  BY <1>2, <1>3 DEF Settling
<1> QED
  BY <1>2, <1>4, SameWalk

-----------------------------------------------------------------------------
(* Sources.                                                                *)

LEMMA FetchFacts ==
  ASSUME NEW h \in Hosts, NEW c \in Modules
  PROVE  LET g == FetchImportedModule(h, c) IN
         /\ g \in Hosts /\ g.created = h.created \cup {c} /\ h.toParse \subseteq g.toParse
         /\ g.toParse \subseteq h.toParse \cup {c}
         /\ c \notin h.created => c \in g.toParse
         /\ g.loaded = h.loaded /\ g.errored = h.errored /\ g.imported = h.imported
BY DEF FetchImportedModule, Hosts

\* Nothing of this changes while calls that do not parse are in progress.
LEMMA SameFetched ==
  ASSUME Fetched, UNCHANGED <<host, wasParsed, childrenModuleSet>>,
         promise' \subseteq promise,
         \A f \in InProgress : f.op # "ParseSource",
         \A f \in InProgress' : f.op # "ParseSource"
  PROVE  Fetched'
BY DEF Fetched

LEMMA LoadFetches ==
  ASSUME GraphInv, EvalInv, NothingFails, Fetched, LoadStep
  PROVE  Fetched'
<1>1. /\ Types /\ DataTypes /\ Depth > 0 /\ stack \in Seq(GoodFrames)
      /\ top.mod \in Modules /\ top \in InProgress /\ InProgress = Lower \cup {top}
      /\ \A m \in Modules : errorObject[m] = None
      /\ Len(stack) \in Positions /\ top = stack[Len(stack)] /\ CalmCall(top)
  BY LoadCalls
<1>2. ~ResolveFails /\ ~ParseFailed /\ ~ChildFailed /\ Broken = {}
  BY LoadSucceeds
<1>4. CASE ParseSource
  <2>1. /\ InProgress = {top} /\ top.op = "ParseSource" /\ wasParsed' = wasParsed \cup {top.mod}
        /\ UNCHANGED <<host, childrenModuleSet, promise>>
    BY <1>4, SourceCalls, ParseSourceMove DEF ParseSource
  <2>2. \A f \in InProgress' : f.op # "ParseSource"
    BY <1>4, ParseSourceMove
  <2> QED
    BY <2>1, <2>2 DEF Fetched
<1>5. CASE ResolveChild
  <2> DEFINE c == Head(top.rest)
  <2>1. /\ InProgress = {top} /\ Lower = {} /\ top.op = "resolve" /\ c \in Modules
        /\ Onward \in GoodFrames /\ Onward.op = "resolve" /\ host \in Hosts
    BY <1>1, <1>5, SourceCalls DEF DataTypes
  <2>2. /\ host' = FetchImportedModule(host, c) /\ Becomes(Onward)
        /\ childrenModuleSet' = [childrenModuleSet EXCEPT ![top.mod] = @ \cup {c}]
        /\ UNCHANGED <<wasParsed, promise>>
    BY <1>5 DEF ResolveChild, SetParent
  <2>3. InProgress' = {Onward}
    BY <1>1, <2>1, <2>2, BecomesCalls
  <2>4. /\ host'.created = host.created \cup {c} /\ host.toParse \subseteq host'.toParse
        /\ host'.toParse \subseteq host.toParse \cup {c}
        /\ c \notin host.created => c \in host'.toParse
        /\ host'.loaded = host.loaded /\ host'.errored = host.errored
    BY <2>1, <2>2, FetchFacts
  <2>5. \A p \in Modules : childrenModuleSet'[p] \subseteq childrenModuleSet[p] \cup {c}
    BY <1>1, <2>2 DEF DataTypes
  <2> HIDE DEF c
  <2> QED
    BY <2>1, <2>2, <2>3, <2>4, <2>5 DEF Fetched
<1>6. CASE \/ ResolveEnds \/ ParseReturns \/ NotifyParentsAsNeeded \/ NotifyParent
           \/ NotifyEnds \/ OnChildModuleReady \/ Prepare \/ Prepared
  <2>1. /\ StackMove(CalmLoads) /\ SameGraph
    BY <1>2, <1>6, LoadCalm DEF EvalInv
  <2>2. \A f \in InProgress : f.op # "ParseSource"
    <3>1. top.op # "ParseSource"
      BY <1>6 DEF ResolveEnds, ParseReturns, NotifyParentsAsNeeded, NotifyParent, NotifyEnds,
                  OnChildModuleReady, Prepare, Prepared, At
    <3>2. ASSUME NEW i \in Positions, stack[i].op = "ParseSource" PROVE i = Len(stack)
      BY <3>2 DEF GraphInv, LoadInv, Resolving, Positions
    <3> QED
      BY <1>1, <3>1, <3>2 DEF InProgress
  <2>3. \A f \in InProgress' : f.op # "ParseSource"
    BY <1>1, <2>1, <2>2, NewCalls DEF CalmLoads
  <2>4. host' = host /\ promise' = promise
    <3>1. ParseReturns => host' = host
      BY <1>1, <1>2 DEF ParseReturns, At, CalmCall
    <3> QED
      BY <1>6, <3>1 DEF ResolveEnds, NotifyParentsAsNeeded, NotifyParent, NotifyEnds,
                  OnChildModuleReady, Prepare, Prepared, ParseReturns
  <2> QED
    BY <2>1, <2>2, <2>3, <2>4, SameFetched DEF SameGraph
<1> QED
  BY <1>2, <1>4, <1>5, <1>6 DEF LoadStep

\* The calls of NotifyParentsAsNeeded.

LEMMA ReturnPrepares ==
  ASSUME stack \in Seq(GoodFrames), Depth > 0, Preparing, Return
  PROVE  Preparing'
<1>1. TopMove /\ Positions' = Below
  BY ReturnMove
<1>2. /\ Below \subseteq Positions
      /\ \A i \in Below : stack'[i] = stack[i] /\ (i > 1 => i - 1 \in Below /\ stack'[i - 1] = stack[i - 1])
  BY <1>1, TopFacts DEF TopMove, Below, Positions, Depth
<1> QED
  BY <1>1, <1>2 DEF Preparing

LEMMA BecomesPrepares ==
  ASSUME stack \in Seq(GoodFrames), Depth > 0, Preparing, NEW f \in GoodFrames, Becomes(f),
         f.op \in PassOps => top.op \in PassOps /\ top.mod = f.mod
  PROVE  Preparing'
<1>1. /\ TopMove /\ Positions' = Below \cup {Len(stack)} /\ stack'[Len(stack)] = f
      /\ Len(stack) \in Nat /\ top = stack[Len(stack)] /\ Len(stack) \in Positions
  BY BecomesMove, TopFacts
<1>2. /\ Below \subseteq Positions
      /\ \A i \in Below : stack'[i] = stack[i]
      /\ \A i \in Positions : i > 1 => i - 1 \in Below
  BY <1>1 DEF TopMove, Below, Positions
<1>3. ASSUME NEW i \in Positions', stack'[i].op \in PassOps
      PROVE  i > 1 /\ stack'[i - 1].op = "prepared" /\ stack'[i - 1].mod = stack'[i].mod
  <2>1. i \in Positions /\ stack[i].op \in PassOps /\ stack[i].mod = stack'[i].mod
    BY <1>1, <1>2, <1>3
  <2>2. i > 1 /\ stack[i - 1].op = "prepared" /\ stack[i - 1].mod = stack[i].mod
    BY <2>1 DEF Preparing
  <2> QED
    BY <1>2, <2>1, <2>2
<1> QED
  BY <1>3 DEF Preparing

LEMMA CallsPrepares ==
  ASSUME stack \in Seq(GoodFrames), Depth > 0, Preparing,
         NEW f \in GoodFrames, NEW g \in GoodFrames, Calls(f, g),
         f.op \in PassOps => top.op \in PassOps /\ top.mod = f.mod,
         g.op \in PassOps => f.op = "prepared" /\ f.mod = g.mod
  PROVE  Preparing'
<1>1. /\ TopMove /\ Positions' = Below \cup {Len(stack), Len(stack) + 1}
      /\ stack'[Len(stack)] = f /\ stack'[Len(stack) + 1] = g
      /\ Len(stack) \in Nat /\ Len(stack) > 0 /\ top = stack[Len(stack)] /\ Len(stack) \in Positions
  BY CallsMove, TopFacts
<1>2. /\ Below \subseteq Positions
      /\ \A i \in Below : stack'[i] = stack[i]
      /\ \A i \in Positions : i > 1 => i - 1 \in Below
  <2>1. Len(stack) \in Nat /\ Len(stack) > 0 /\ \A i \in Below : stack'[i] = stack[i]
    BY <1>1 DEF TopMove
  <2>2. Below \subseteq Positions /\ \A i \in Positions : i > 1 => i - 1 \in Below
    BY <2>1 DEF Below, Positions
  <2> QED
    BY <2>1, <2>2
<1>3. ASSUME NEW i \in Positions', stack'[i].op \in PassOps
      PROVE  i > 1 /\ stack'[i - 1].op = "prepared" /\ stack'[i - 1].mod = stack'[i].mod
  <2>1. CASE i = Len(stack) + 1
    <3>1. i > 1 /\ i - 1 = Len(stack)
      BY <1>1, <2>1
    <3> QED
      BY <1>1, <1>3, <2>1, <3>1
  <2>2. CASE i # Len(stack) + 1
    <3>1. i \in Positions /\ stack[i].op \in PassOps /\ stack[i].mod = stack'[i].mod
      BY <1>1, <1>2, <1>3, <2>2
    <3>2. i > 1 /\ stack[i - 1].op = "prepared" /\ stack[i - 1].mod = stack[i].mod
      BY <3>1 DEF Preparing
    <3> QED
      BY <1>2, <3>1, <3>2
  <2> QED
    BY <2>1, <2>2
<1> QED
  BY <1>3 DEF Preparing

LEMMA LoadPrepares ==
  ASSUME GraphInv, EvalInv, NothingFails, Preparing, LoadStep
  PROVE  Preparing'
<1>1. /\ Types /\ DataTypes /\ Depth > 0 /\ stack \in Seq(GoodFrames)
      /\ top.mod \in Modules /\ top.rest \in Seq(Modules) /\ top \in InProgress /\ CalmCall(top)
      /\ InProgress = Lower \cup {top} /\ \A m \in Modules : errorObject[m] = None
      /\ parentModuleList[top.mod] \in Seq(Modules)
  BY LoadCalls DEF DataTypes
<1>2. ~ResolveFails /\ ~ParseFailed /\ ~ChildFailed
  BY LoadSucceeds
<1>4. CASE ParseSource
  BY <1>1, <1>4, ParseSourceMove, BecomesPrepares DEF PassOps
<1>5. CASE ResolveChild
  <2>1. Onward \in GoodFrames /\ Onward.op = "resolve" /\ Becomes(Onward)
    BY <1>5, SourceCalls DEF ResolveChild
  <2> QED
    BY <1>1, <2>1, BecomesPrepares DEF PassOps
<1>6. CASE ParseReturns \/ NotifyEnds \/ Prepared
  BY <1>1, <1>6, ReturnPrepares DEF ParseReturns, NotifyEnds, Prepared
<1>7. CASE ResolveEnds
  <2> DEFINE f == Call("parsed", top.mod)
             g == Call("Prepare", top.mod)
  <2>1. f \in GoodFrames /\ g \in GoodFrames /\ f.op = "parsed" /\ g.op = "Prepare" /\ Calls(f, g)
    BY <1>1, <1>7, CalmLoadTypes DEF CalmLoads, Call, ResolveEnds
  <2> HIDE DEF f, g
  <2> QED
    BY <1>1, <2>1, CallsPrepares DEF PassOps
<1>8. CASE NotifyParentsAsNeeded
  <2> DEFINE f == Loop("notifying", top.mod, parentModuleList[top.mod])
  <2>1. /\ f \in GoodFrames /\ f.op = "notifying" /\ f.mod = top.mod /\ top.op = "NotifyParents"
        /\ Return \/ Becomes(f)
    BY <1>1, <1>8, CalmLoadTypes DEF CalmLoads, Loop, NotifyParentsAsNeeded, At
  <2> HIDE DEF f
  <2> QED
    BY <1>1, <2>1, ReturnPrepares, BecomesPrepares DEF PassOps
<1>9. CASE NotifyParent
  <2> DEFINE g == CallWith("OnChildModuleReady", Head(top.rest), None)
  <2>1. /\ top.op = "notifying" /\ Head(top.rest) \in Modules /\ Onward \in GoodFrames
        /\ Onward.op = "notifying" /\ Onward.mod = top.mod
    BY <1>1, <1>9, HeadTail, OnwardFacts DEF NotifyParent, At
  <2>2. g \in GoodFrames /\ g.op = "OnChildModuleReady" /\ Calls(Onward, g)
    BY <1>1, <1>9, <2>1, CalmLoadTypes DEF CalmLoads, CallWith, NotifyParent
  <2> HIDE DEF g
  <2> QED
    BY <1>1, <2>1, <2>2, CallsPrepares DEF PassOps
<1>10. CASE OnChildModuleReady
  <2> DEFINE f == Call("Prepare", top.mod)
  <2>1. f \in GoodFrames /\ f.op = "Prepare" /\ Becomes(f)
    BY <1>1, <1>10, CalmLoadTypes DEF CalmLoads, Call, OnChildModuleReady, CalmCall
  <2> HIDE DEF f
  <2> QED
    BY <1>1, <2>1, BecomesPrepares DEF PassOps
<1>11. CASE Prepare
  <2> DEFINE f == Call("prepared", top.mod)
             g == Call("NotifyParents", top.mod)
  <2>1. /\ f \in GoodFrames /\ g \in GoodFrames /\ f.op = "prepared" /\ f.mod = top.mod
        /\ g.op = "NotifyParents" /\ g.mod = top.mod
        /\ Return \/ Calls(f, g)
    BY <1>1, <1>11, CalmLoadTypes DEF CalmLoads, Call, Prepare
  <2> HIDE DEF f, g
  <2>2. CASE Return
    BY <1>1, <2>2, ReturnPrepares
  <2>3. CASE Calls(f, g)
    <3>1. f.op \notin PassOps /\ f.op = "prepared" /\ f.mod = g.mod
      BY <2>1 DEF PassOps
    <3> QED
      BY <1>1, <2>1, <2>3, <3>1, CallsPrepares
  <2> QED
    BY <2>1, <2>2, <2>3
<1> QED
  BY <1>2, <1>4, <1>5, <1>6, <1>7, <1>8, <1>9, <1>10, <1>11 DEF LoadStep

-----------------------------------------------------------------------------
(* Links.                                                                  *)

\* What a module that is not linked yet links is what it leads to.
LEMMA LinkCone ==
  ASSUME GraphInv, NEW m \in Modules
  PROVE  Uninitialized(m) \subseteq Cone[m] /\ m \in Uninitialized(m)
<1> DEFINE fresh == [x \in Modules |->
             {c \in childrenModuleSet[x] \ wasDeclarationInitialized : errorObject[c] = None}]
<1>1. world \in Worlds /\ Linked /\ childrenModuleSet \in [Modules -> SUBSET Modules]
  BY DEF GraphInv, Types, DataTypes, LoadInv
<1>2. \A x \in Modules : childrenModuleSet[x] \subseteq Imports(x)
  BY <1>1 DEF Linked
<1>3. /\ {m} \subseteq Cone[m] /\ Cone[m] \in SUBSET Modules
      /\ \A x \in Cone[m] : fresh[x] \subseteq Cone[m]
  BY <1>1, <1>2, ConeFacts
<1>4. Uninitialized(m) = Closure({m}, fresh)
  BY DEF Uninitialized
<1> HIDE DEF fresh
<1> QED
  BY <1>3, <1>4, ClosureFrom, ClosureLeast

\* A module that is not linked has not been announced, and not been evaluated.
LEMMA NotLinked ==
  ASSUME EvalInv, LinkedAnnounced, EvaluatesLinked, NEW m,
         m \notin wasDeclarationInitialized
  PROVE  m \notin hadNotifyHostReady \cup wasEvaluated
BY DEF EvalInv, BodyInv, Bodies, LinkedAnnounced, EvaluatesLinked, Begun

\* A module is linked and announced, if nothing fails.
LEMMA LinkAnnounces ==
  ASSUME GraphInv, EvalInv, LinkedAnnounced, NEW m \in Modules,
         m \notin wasDeclarationInitialized, Link(m), AnnounceFlags(m),
         log' = Announced(log, m), world' = world
  PROVE  /\ LinkedAnnounced'
         /\ wasDeclarationInitialized \subseteq wasDeclarationInitialized'
         /\ m \in wasDeclarationInitialized' /\ m \in hadNotifyHostReady'
<1>1. /\ world \in Worlds /\ log \in Logs /\ errorObject[m] = None
      /\ wasDeclarationInitialized \subseteq Modules
  BY DEF GraphInv, Types, DataTypes, EvalInv, Calm, Failed
<1>2. /\ wasDeclarationInitialized' = wasDeclarationInitialized \cup Uninitialized(m)
      /\ hadNotifyHostReady' = hadNotifyHostReady \cup {m}
  BY <1>1 DEF Link, AnnounceFlags
<1>3. Uninitialized(m) \subseteq Cone[m] /\ m \in Uninitialized(m) /\ Cone' = Cone
  BY LinkCone, SameWorld
<1>4. m \notin hadNotifyHostReady
  BY DEF LinkedAnnounced
<1>5. \A x \in Modules : log'.notices[x] = IF x = m THEN log.notices[x] + 1 ELSE log.notices[x]
  BY <1>1 DEF Announced, Logs
<1>6. \A x \in Modules : log'.notices[x] = IF x \in hadNotifyHostReady' THEN 1 ELSE 0
  BY <1>2, <1>4, <1>5 DEF LinkedAnnounced
<1> HIDE DEF Uninitialized
<1>7. \A x \in wasDeclarationInitialized' : \E r \in hadNotifyHostReady' : x \in Cone[r]
  BY <1>2, <1>3 DEF LinkedAnnounced
<1> QED
  BY <1>2, <1>3, <1>6, <1>7 DEF LinkedAnnounced

\* What Prepared does, if nothing fails.
LEMMA PreparedMove ==
  ASSUME GraphInv, EvalInv, LinkedAnnounced, EvaluatesLinked, Prepared
  PROVE  \/ /\ top.mod \in wasDeclarationInitialized \/ top.mod \notin isRootModule \cup promise
            /\ UNCHANGED <<linkVars, readyVars, log>>
         \/ /\ top.mod \notin wasDeclarationInitialized
            /\ Link(top.mod) /\ AnnounceFlags(top.mod) /\ log' = Announced(log, top.mod)
BY NotLinked DEF Prepared

\* Nothing is linked or announced.
LEMMA SameAnnounced ==
  ASSUME LinkedAnnounced, world' = world,
         UNCHANGED <<hadNotifyHostReady, wasDeclarationInitialized>>, log'.notices = log.notices
  PROVE  LinkedAnnounced'
BY SameWorld DEF LinkedAnnounced

LEMMA LoadLeaves ==
  ASSUME GraphInv, EvalInv, NothingFails, LoadStep
  PROVE  /\ UNCHANGED <<world, promise, evaluating, ended>>
         /\ Prepared \/ UNCHANGED <<linkVars, readyVars, log>>
<1>1. ~ResolveFails /\ ~ParseFailed /\ ~ChildFailed
  BY LoadSucceeds
<1>2. \/ ParseSource \/ ResolveChild \/ ResolveEnds \/ ParseReturns
      \/ NotifyParentsAsNeeded \/ NotifyParent \/ NotifyEnds \/ OnChildModuleReady
      \/ Prepare \/ Prepared
  BY <1>1 DEF LoadStep
<1>3. UNCHANGED <<world, promise, evaluating, ended>>
  BY <1>2 DEF ParseSource, ResolveChild, ResolveEnds, ParseReturns,
     NotifyParentsAsNeeded, NotifyParent, NotifyEnds, OnChildModuleReady, Prepare, Prepared
<1>4. Prepared \/ UNCHANGED <<linkVars, readyVars, log>>
  BY <1>2 DEF ParseSource, ResolveChild, ResolveEnds, ParseReturns,
     NotifyParentsAsNeeded, NotifyParent, NotifyEnds, OnChildModuleReady, Prepare
<1> QED
  BY <1>3, <1>4

LEMMA LoadAnnounces ==
  ASSUME GraphInv, EvalInv, NothingFails, LinkedAnnounced, EvaluatesLinked, LoadStep
  PROVE  LinkedAnnounced' /\ EvaluatesLinked'
<1>1. /\ UNCHANGED <<world, promise, evaluating, ended>>
      /\ Prepared \/ UNCHANGED <<linkVars, readyVars, log>>
      /\ top.mod \in Modules
  BY LoadLeaves, LoadCalls
<1>2. Begun' = Begun
  BY <1>1 DEF Begun
<1>3. \A f \in InProgress' : f.op \notin EvaluateOps
  BY LoadStepLoads, OpsFacts DEF AllLoad, InProgress
<1>4. CASE UNCHANGED <<linkVars, readyVars, log>>
  BY <1>1, <1>2, <1>3, <1>4, SameAnnounced DEF EvaluatesLinked
<1>5. CASE /\ Prepared /\ top.mod \notin wasDeclarationInitialized
           /\ Link(top.mod) /\ AnnounceFlags(top.mod) /\ log' = Announced(log, top.mod)
  <2>1. /\ LinkedAnnounced' /\ wasDeclarationInitialized \subseteq wasDeclarationInitialized'
    BY <1>1, <1>5, LinkAnnounces
  <2>2. EvaluatesLinked'
    BY <1>2, <1>3, <1>5, <2>1 DEF EvaluatesLinked, AnnounceFlags
  <2> QED
    BY <2>1, <2>2
<1> QED
  BY <1>1, <1>4, <1>5, PreparedMove

LEMMA LoadLinks ==
  ASSUME GraphInv, EvalInv, NothingFails, Preparing, RootsLinked, LinkedAnnounced,
         EvaluatesLinked, LoadStep
  PROVE  RootsLinked'
<1>1. /\ UNCHANGED <<world, promise>>
      /\ Prepared \/ UNCHANGED <<linkVars, readyVars, log>>
      /\ Types /\ Depth > 0 /\ stack \in Seq(GoodFrames) /\ InProgress = Lower \cup {top}
      /\ top.mod \in Modules /\ Len(stack) \in Positions /\ top = stack[Len(stack)]
      /\ top.rest \in Seq(Modules) /\ CalmCall(top) /\ \A m \in Modules : errorObject[m] = None
  BY LoadLeaves, LoadCalls
<1>2. parentsNotified \subseteq wasParsed
  BY SettlingFacts DEF Settling
<1>3. CASE ParseSource
  <2>1. /\ wasParsed' = wasParsed \cup {top.mod} /\ top.mod \notin wasParsed
        /\ isRootModule' \subseteq isRootModule \cup {top.mod} /\ InProgress = {top}
        /\ top.op = "ParseSource" /\ UNCHANGED <<parentsNotified, wasDeclarationInitialized>>
    BY <1>3, SourceCalls, ParseSourceMove DEF ParseSource
  <2> QED
    BY <1>1, <1>2, <2>1 DEF RootsLinked
<1>4. CASE Prepared
  <2>1. /\ InProgress' = Lower /\ UNCHANGED <<isRootModule, parentsNotified, wasParsed>>
    BY <1>1, <1>4, ReturnCalls DEF Prepared
  <2>2. /\ wasDeclarationInitialized \subseteq wasDeclarationInitialized'
        /\ top.mod \in isRootModule \cup promise => top.mod \in wasDeclarationInitialized'
    BY <1>1, <1>4, PreparedMove, LinkAnnounces
  <2> QED
    BY <1>1, <2>1, <2>2 DEF RootsLinked
<1>5. CASE NotifyEnds
  <2>1. /\ InProgress' = Lower /\ parentsNotified' = parentsNotified \cup {top.mod}
        /\ UNCHANGED <<isRootModule, wasParsed, wasDeclarationInitialized>>
        /\ top.op = "notifying"
    BY <1>1, <1>5, ReturnCalls DEF NotifyEnds, At
  <2>2. \E f \in Lower : f.op = "prepared" /\ f.mod = top.mod
    <3>1. /\ Len(stack) > 1 /\ stack[Len(stack) - 1].op = "prepared"
          /\ stack[Len(stack) - 1].mod = top.mod
      BY <1>1, <2>1 DEF Preparing, PassOps
    <3>2. Len(stack) - 1 \in Below
      BY <1>1, <3>1 DEF Below, Positions
    <3> QED
      BY <3>1, <3>2 DEF Lower
  <2> QED
    BY <1>1, <2>1, <2>2 DEF RootsLinked
<1>6. CASE /\ UNCHANGED <<isRootModule, wasParsed, wasDeclarationInitialized, parentsNotified>>
           /\ Lower \subseteq InProgress' /\ top.op # "prepared"
  BY <1>1, <1>6 DEF RootsLinked
<1>7. ASSUME \/ ResolveChild \/ ResolveEnds \/ ParseReturns \/ NotifyParentsAsNeeded
             \/ NotifyParent \/ OnChildModuleReady \/ Prepare
      PROVE  /\ UNCHANGED <<isRootModule, wasParsed, wasDeclarationInitialized, parentsNotified>>
             /\ Lower \subseteq InProgress' /\ top.op # "prepared"
  <2>1. /\ UNCHANGED <<isRootModule, wasParsed, wasDeclarationInitialized, parentsNotified>>
        /\ top.op # "prepared"
    BY <1>7 DEF ResolveChild, ResolveEnds, ParseReturns, NotifyParentsAsNeeded, NotifyParent,
       OnChildModuleReady, Prepare, At, SetParent
  <2>2. Lower \subseteq InProgress'
    BY <1>1, <1>7, LowerStays DEF LoadStep
  <2> QED
    BY <2>1, <2>2
<1>8. ~ResolveFails /\ ~ParseFailed /\ ~ChildFailed
  BY LoadSucceeds
<1> QED
  BY <1>3, <1>4, <1>5, <1>6, <1>7, <1>8 DEF LoadStep

-----------------------------------------------------------------------------
(* Messages of the host.                                                   *)

LEMMA NothingPrepares ==
  ASSUME \A f \in InProgress' : f.op \notin PassOps
  PROVE  Preparing'
BY DEF Preparing, InProgress

LEMMA SourceAnnounces ==
  ASSUME GraphInv, EvalInv, NothingFails, AnnounceInv, NEW m \in Modules,
         LoadRoot(m) \/ LoadImported(m)
  PROVE  AnnounceInv'
<1>1. /\ Idle /\ JsParseModuleSource(m) /\ SameGraph /\ log' = log
      /\ UNCHANGED <<parentsNotified, isRootModule, promise, evaluating, ended,
                     wasDeclarationInitialized, hadNotifyHostReady, toEvaluate>>
  BY DEF LoadRoot, LoadImported, SameGraph
<1>2. /\ Scheduled /\ Fetched /\ RootsLinked /\ LinkedAnnounced /\ EvaluatesLinked
      /\ InProgress = {} /\ NoLoad /\ DataTypes /\ host \in Hosts
  BY <1>1, IdleFlat, IdleFacts DEF AnnounceInv, DataTypes
<1> DEFINE f == Call("ParseSource", m)
<1>3. f \in GoodFrames /\ f.op = "ParseSource" /\ f.mod = m
  BY FrameTypes DEF LoadOps, Call
<1>4. IF m \in wasParsed THEN UNCHANGED stack ELSE Begins(f)
  BY <1>1 DEF JsParseModuleSource
<1> HIDE DEF f
<1>5. InProgress' = IF m \in wasParsed THEN {} ELSE {f}
  BY <1>2, <1>3, <1>4, BeginsCalls DEF InProgress, Positions
<1>6. Scheduled' /\ Preparing'
  BY <1>1, <1>2, <1>3, <1>5, OutsideSchedules, NothingPrepares DEF PassOps
<1>7. Fetched'
  <2>1. CASE LoadRoot(m)
    <3>1. /\ host'.created = host.created \cup {m} /\ host'.loaded = host.loaded \cup {m}
          /\ host'.toParse = host.toParse /\ host'.errored = host.errored
      BY <1>2, <2>1 DEF LoadRoot, Hosts
    <3> QED
      BY <1>1, <1>2, <1>3, <1>5, <3>1 DEF Fetched, SameGraph
  <2>2. CASE LoadImported(m)
    <3>1. /\ host'.created = host.created /\ host'.loaded = host.loaded
          /\ host'.toParse = host.toParse \ {m} /\ host'.errored = host.errored
          /\ m \in host.toParse
      BY <1>2, <2>2 DEF LoadImported, Hosts
    <3> QED
      BY <1>1, <1>2, <1>3, <1>5, <3>1 DEF Fetched, SameGraph
  <2> QED
    BY <2>1, <2>2
<1>8. RootsLinked'
  BY <1>1, <1>2 DEF RootsLinked, SameGraph
<1>9. LinkedAnnounced'
  BY <1>1, <1>2, SameAnnounced DEF SameGraph
<1>10. EvaluatesLinked'
  BY <1>1, <1>2, <1>3, <1>5 DEF EvaluatesLinked, Begun, EvaluateOps
<1> QED
  BY <1>6, <1>7, <1>8, <1>9, <1>10 DEF AnnounceInv

LEMMA ImportAnnounces ==
  ASSUME GraphInv, EvalInv, NothingFails, AnnounceInv, NEW m \in Modules,
         ImportDone(m) \/ ImportWaits(m)
  PROVE  AnnounceInv'
<1>1. /\ Idle /\ SameGraph /\ world' = world
      /\ UNCHANGED <<parentsNotified, isRootModule, evaluating, ended, stack>>
      /\ host' = FetchImportedModule([host EXCEPT !.imported = @ \cup {m}], m)
  BY DEF ImportDone, ImportWaits, ImportBegins, ImportSettles, SameGraph
<1>2. /\ Scheduled /\ Fetched /\ RootsLinked /\ LinkedAnnounced /\ EvaluatesLinked
      /\ InProgress = {} /\ NoLoad /\ DataTypes /\ host \in Hosts /\ log \in Logs
      /\ \A x \in Modules : errorObject[x] = None
  BY <1>1, IdleFlat, IdleFacts DEF AnnounceInv, DataTypes
<1>3. InProgress' = {} /\ Begun' = Begun
  BY <1>1, <1>2 DEF InProgress, Positions, Begun
<1>4. Scheduled' /\ Preparing'
  BY <1>1, <1>2, <1>3, OutsideSchedules, NothingPrepares
<1>5. promise' \subseteq promise \cup {m}
  BY DEF ImportDone, ImportWaits
<1>6. Fetched'
  <2> DEFINE h == [host EXCEPT !.imported = @ \cup {m}]
  <2>1. /\ h \in Hosts /\ h.created = host.created /\ h.toParse = host.toParse
        /\ h.loaded = host.loaded /\ h.errored = host.errored
    BY <1>2 DEF Hosts
  <2>2. host' = FetchImportedModule(h, m)
    BY <1>1
  <2> HIDE DEF h
  <2>3. /\ host'.created = h.created \cup {m} /\ h.toParse \subseteq host'.toParse
        /\ host'.toParse \subseteq h.toParse \cup {m}
        /\ m \notin h.created => m \in host'.toParse
        /\ host'.loaded = h.loaded /\ host'.errored = h.errored
    BY <2>1, <2>2, FetchFacts
  <2> QED
    BY <1>1, <1>2, <1>3, <1>5, <2>1, <2>3 DEF Fetched, SameGraph
<1>7. CASE /\ UNCHANGED <<wasDeclarationInitialized, hadNotifyHostReady, toEvaluate>>
           /\ log'.notices = log.notices
           /\ m \in promise' => m \notin parentsNotified \ wasDeclarationInitialized
  <2>1. RootsLinked'
    BY <1>1, <1>2, <1>5, <1>7 DEF RootsLinked, SameGraph
  <2>2. LinkedAnnounced' /\ EvaluatesLinked'
    BY <1>1, <1>2, <1>3, <1>7, SameAnnounced DEF EvaluatesLinked
  <2> QED
    BY <1>4, <1>6, <2>1, <2>2 DEF AnnounceInv
<1>8. CASE /\ m \notin wasDeclarationInitialized /\ Link(m) /\ AnnounceFlags(m)
           /\ log' = Announced(log, m)
  <2>1. /\ LinkedAnnounced' /\ wasDeclarationInitialized \subseteq wasDeclarationInitialized'
        /\ m \in wasDeclarationInitialized'
    BY <1>1, <1>2, <1>8, LinkAnnounces
  <2>2. RootsLinked'
    BY <1>1, <1>2, <1>5, <2>1 DEF RootsLinked, SameGraph
  <2>3. EvaluatesLinked'
    BY <1>2, <1>3, <1>8, <2>1 DEF EvaluatesLinked, AnnounceFlags
  <2> QED
    BY <1>4, <1>6, <2>1, <2>2, <2>3 DEF AnnounceInv
<1>9. ImportDone(m) => /\ UNCHANGED <<wasDeclarationInitialized, hadNotifyHostReady, toEvaluate>>
                       /\ log'.notices = log.notices /\ m \notin promise'
  BY <1>2 DEF ImportDone, ImportSettles, Logs
<1>10. ASSUME ImportWaits(m), ImportLinks(m)
       PROVE  Link(m) /\ AnnounceFlags(m) /\ log' = Announced(log, m)
  BY <1>2, <1>10, NotLinked DEF ImportWaits, ImportLinks
<1>11. ASSUME ImportWaits(m), ~ImportLinks(m)
       PROVE  /\ UNCHANGED <<wasDeclarationInitialized, hadNotifyHostReady, toEvaluate, log>>
  BY <1>11 DEF ImportWaits
<1> QED
  BY <1>7, <1>8, <1>9, <1>10, <1>11 DEF ImportLinks

LEMMA BodyMessageAnnounces ==
  ASSUME GraphInv, EvalInv, NothingFails, AnnounceInv, NEW m \in Modules,
         Evaluate(m) \/ AsyncBodyReturns(m)
  PROVE  AnnounceInv'
<1>1. /\ Idle /\ SameGraph /\ world' = world /\ log' = log
      /\ UNCHANGED <<parentsNotified, isRootModule, promise, host, wasDeclarationInitialized,
                     hadNotifyHostReady>>
      /\ toEvaluate' \subseteq toEvaluate
  BY DEF Evaluate, AsyncBodyReturns, SameGraph
<1>2. /\ Scheduled /\ Fetched /\ RootsLinked /\ LinkedAnnounced /\ EvaluatesLinked
      /\ InProgress = {} /\ NoLoad /\ DataTypes
  BY <1>1, IdleFlat, IdleFacts DEF AnnounceInv
<1>3. /\ Begun' \subseteq Begun
      /\ \A f \in InProgress' : \/ f.op = "ModuleEvaluation" /\ f.mod \in wasDeclarationInitialized
                                \/ f.op = "fulfilled"
  <2>1. CASE Evaluate(m)
    <3> DEFINE f == Call("ModuleEvaluation", m)
    <3>1. f \in GoodFrames /\ f.op = "ModuleEvaluation" /\ f.mod = m
      BY FrameTypes DEF PlainOps, OtherFrames, Call
    <3>2. UNCHANGED stack \/ Begins(f)
      BY <2>1 DEF Evaluate
    <3> HIDE DEF f
    <3>3. InProgress' \subseteq {f}
      BY <1>2, <3>1, <3>2, BeginsCalls DEF InProgress, Positions
    <3>4. m \in wasDeclarationInitialized /\ Begun' = Begun
      BY <1>2, <2>1 DEF Evaluate, EvaluatesLinked, LinkedAnnounced, Begun
    <3> QED
      BY <3>1, <3>3, <3>4
  <2>2. CASE AsyncBodyReturns(m)
    <3> DEFINE f == Loop("fulfilled", m, parentModuleList[m])
    <3>1. parentModuleList[m] \in Seq(Modules)
      BY <1>2 DEF DataTypes
    <3>2. f \in GoodFrames /\ f.op = "fulfilled"
      BY <3>1, FrameTypes DEF PlainOps, OtherFrames, Loop
    <3>3. Begins(f)
      BY <2>2 DEF AsyncBodyReturns
    <3> HIDE DEF f
    <3>4. InProgress' = {f}
      BY <3>2, <3>3, BeginsCalls
    <3>5. Begun' \subseteq Begun
      BY <2>2 DEF AsyncBodyReturns, Evaluated, Begun, EvalInv, BodyInv, Bodies
    <3> QED
      BY <3>2, <3>4, <3>5
  <2> QED
    BY <2>1, <2>2
<1>4. Scheduled' /\ Preparing'
  BY <1>1, <1>2, <1>3, OutsideSchedules, NothingPrepares DEF PassOps
<1>5. Fetched'
  BY <1>1, <1>2, <1>3, SameFetched DEF SameGraph
<1>6. RootsLinked'
  BY <1>1, <1>2 DEF RootsLinked, SameGraph
<1>7. LinkedAnnounced'
  BY <1>1, <1>2, SameAnnounced
<1>8. EvaluatesLinked'
  BY <1>1, <1>2, <1>3 DEF EvaluatesLinked, EvaluateOps
<1> QED
  BY <1>4, <1>5, <1>6, <1>7, <1>8 DEF AnnounceInv

LEMMA MessageAnnounces ==
  ASSUME GraphInv, EvalInv, NothingFails, AnnounceInv, NEW m \in Modules, Message(m)
  PROVE  AnnounceInv'
<1>1. ~OnHostException(m) /\ ~AsyncBodyThrows(m) /\ ~ImportRefused(m) /\ ~ImportCrashes(m)
  BY DEF OnHostException, AsyncBodyThrows, ImportRefused, ImportCrashes, NothingFails, Broken
<1> QED
  BY <1>1, SourceAnnounces, ImportAnnounces, BodyMessageAnnounces DEF Message

-----------------------------------------------------------------------------
(* Evaluation does not disturb what is announced.                          *)

\* Evaluation announces nothing, and settles promises only.
LEMMA EvaluateSettles ==
  ASSUME Types, EvaluateStep \/ FinishStep
  PROVE  promise' \subseteq promise /\ log'.notices = log.notices
<1>1. log \in Logs
  BY DEF Types, DataTypes
<1>2. \A m, e : /\ Settled(m, e).notices = log.notices
                /\ Reported(log, m, e).notices = log.notices
                /\ \A x : Reported(Settled(m, x), m, e).notices = log.notices
  BY <1>1 DEF Settled, Reported, Logs
<1>3. promise' \subseteq promise
  BY DEF EvaluateStep, ModuleEvaluationReturns, ModuleEvaluationPrepasses, PrepassRefuses,
         SetEvaluating, EvaluateChild, ChildEvaluated, ChildrenEvaluated,
         CatchInEvaluation, PrepassFails, PrepassBegins, PrepassChild, PrepassRethrows,
         PrepassNext, PrepassEnds, SettleFlags,
         FinishStep, FinishNothing, FinishCrashes, FinishAsync, FinishSync, FinishThrows,
         TellParent, ParentsTold, Complete, FulfilledParent, NothingAwaited,
         CatchInWaited, FulfilledEnds, PropogateRejection, RejectParent, RejectEnds,
         Returns, Unwind
<1>4. EvaluateStep => log'.notices = log.notices
  BY <1>2
  DEF EvaluateStep, ModuleEvaluationReturns, ModuleEvaluationPrepasses, PrepassRefuses,
         SetEvaluating, EvaluateChild, ChildEvaluated, ChildrenEvaluated,
         CatchInEvaluation, PrepassFails, PrepassBegins, PrepassChild, PrepassRethrows,
         PrepassNext, PrepassEnds
<1>5. FinishThrows => log'.notices = log.notices
  BY <1>1 DEF FinishThrows, Logs
<1>6. FinishStep => log'.notices = log.notices
  BY <1>2, <1>5
  DEF FinishStep, FinishNothing, FinishCrashes, FinishAsync, FinishSync,
         TellParent, ParentsTold, Complete, FulfilledParent, NothingAwaited,
         CatchInWaited, FulfilledEnds, PropogateRejection, RejectParent, RejectEnds,
         Returns, Unwind
<1> QED
  BY <1>3, <1>4, <1>6

\* The steps of an evaluation, if nothing fails.
LEMMA EvaluateSucceeds ==
  ASSUME GraphInv, EvalInv, EvaluateStep
  PROVE  /\ \/ ModuleEvaluationReturns \/ ModuleEvaluationPrepasses \/ SetEvaluating
            \/ EvaluateChild \/ ChildEvaluated \/ ChildrenEvaluated \/ PrepassBegins
            \/ PrepassChild \/ PrepassNext \/ PrepassEnds
         /\ Types /\ DataTypes /\ Depth > 0 /\ At(top.op) /\ Evaluation
         /\ stack \in Seq(GoodFrames) /\ InProgress = Lower \cup {top}
         /\ top \in GoodFrames /\ top.mod \in Modules /\ top.rest \in Seq(Modules)
         /\ \A m \in Modules : errorObject[m] = None
         /\ Len(stack) \in Positions /\ top = stack[Len(stack)]
<1>1. Types /\ Calm /\ Depth > 0 /\ At(top.op)
  BY EvaluateCalm DEF GraphInv, EvalInv
<1>2. /\ stack \in Seq(GoodFrames) /\ InProgress = Lower \cup {top} /\ top.mod \in Modules
      /\ top \in GoodFrames /\ top.rest \in Seq(Modules) /\ thrown = None /\ DataTypes
      /\ Len(stack) \in Positions /\ top = stack[Len(stack)]
      /\ \A m \in Modules : errorObject[m] = None /\ childrenModuleSet[m] \subseteq Modules
  BY <1>1, TopState, CalmTop DEF DataTypes
<1>3. ~CatchInEvaluation /\ ~PrepassFails /\ ~PrepassRefuses
  BY <1>2 DEF CatchInEvaluation, PrepassFails, PrepassRefuses
<1>4. ~PrepassRethrows
  <2>1. ASSUME At("prepassChild") PROVE Head(top.rest) \in Modules
    <3>1. top.rest # <<>>
      BY <1>2, <2>1 DEF At, GoodFrames
    <3> QED
      BY <1>2, <3>1, HeadTail
  <2> QED
    BY <1>2, <2>1 DEF PrepassRethrows
<1>5. Evaluation
  <2>1. top.op \in EvaluateOps \cup PrepassOps
    BY <1>3, <1>4 DEF EvaluateStep, ModuleEvaluationReturns, ModuleEvaluationPrepasses,
       SetEvaluating, EvaluateChild, ChildEvaluated, ChildrenEvaluated, PrepassBegins,
       PrepassChild, PrepassNext, PrepassEnds, At, EvaluateOps, PrepassOps
  <2>2. top.op \in OwnModeOps \ {"complete"}
    BY <2>1 DEF OwnModeOps, EvaluateOps, PrepassOps
  <2> QED
    BY <1>1, <2>2, OwnMode DEF EvalInv, StackInv
<1> QED
  BY <1>1, <1>2, <1>3, <1>4, <1>5 DEF EvaluateStep

LEMMA FinishSucceeds ==
  ASSUME GraphInv, EvalInv, NothingFails, FinishStep
  PROVE  /\ \/ FinishNothing \/ FinishCrashes \/ FinishAsync \/ FinishSync \/ TellParent
            \/ ParentsTold \/ Complete \/ FulfilledParent \/ NothingAwaited \/ FulfilledEnds
            \/ Returns
         /\ Types /\ DataTypes /\ Depth > 0 /\ At(top.op)
         /\ stack \in Seq(GoodFrames) /\ InProgress = Lower \cup {top}
         /\ top \in GoodFrames /\ top.mod \in Modules /\ top.rest \in Seq(Modules)
         /\ Len(stack) \in Positions /\ top = stack[Len(stack)]
         /\ parentModuleList[top.mod] \in Seq(Modules)
<1>1. Types /\ Calm /\ Broken = {} /\ Depth > 0 /\ At(top.op)
  BY FinishCalm DEF GraphInv, EvalInv, NothingFails
<1>2. /\ stack \in Seq(GoodFrames) /\ InProgress = Lower \cup {top} /\ top.mod \in Modules
      /\ top \in GoodFrames /\ top.rest \in Seq(Modules) /\ DataTypes
      /\ Len(stack) \in Positions /\ top = stack[Len(stack)]
      /\ parentModuleList[top.mod] \in Seq(Modules)
      /\ thrown = None /\ top.op \notin RejectOps
  BY <1>1, TopState, CalmTop DEF DataTypes
<1>3. ~CatchInWaited /\ ~Unwind /\ ~PropogateRejection /\ ~RejectParent /\ ~RejectEnds
  BY <1>2 DEF CatchInWaited, Unwind, PropogateRejection, RejectParent, RejectEnds, At, RejectOps
<1>4. ~FinishThrows
  BY <1>1 DEF FinishThrows, Broken
<1> QED
  BY <1>1, <1>2, <1>3, <1>4 DEF FinishStep

\* What is evaluated or prepassed is linked.
LEMMA LinkedCalls ==
  ASSUME GraphInv, EvalInv, EvaluatesLinked
  PROVE  /\ wasPrepassed \subseteq wasDeclarationInitialized
         /\ generator \subseteq wasDeclarationInitialized
         /\ Evaluation => \A f \in InProgress : f.mod \in wasDeclarationInitialized
<1> DEFINE S == wasDeclarationInitialized
<1>1. /\ S \in SUBSET Modules /\ Begun \subseteq S /\ Failed = {} /\ stack \in Seq(GoodFrames)
  BY DEF GraphInv, Types, DataTypes, EvaluatesLinked, EvalInv, Calm
<1>2. ClosedUnderImports(S)
  BY <1>1 DEF ClosedUnderImports, GraphInv, LinkInv, Initialized
<1>3. Evaluation => stack[1].mod \in S
  BY <1>1 DEF Evaluation, EvaluatesLinked, InProgress, Positions
<1>4. generator \subseteq wasPrepassed /\ Prepassed
  BY DEF EvalInv, Prepassed
<1> HIDE DEF S
<1>5. wasPrepassed \subseteq S /\ (Evaluation => \A f \in InProgress : f.mod \in S)
  BY <1>1, <1>2, <1>3, <1>4 DEF Prepassed
<1> QED
  BY <1>4, <1>5 DEF S

\* Calls of evaluations are of linked modules.
LinkedFrames ==
  {f \in OtherFrames : f.op \in EvaluateOps => f.mod \in wasDeclarationInitialized}

LEMMA LinkedTypes ==
  ASSUME NEW m \in wasDeclarationInitialized, m \in Modules
  PROVE  /\ \A op \in {"child", "prepassChild"}, rest \in Seq(Modules) :
              rest # <<>> => Loop(op, m, rest) \in LinkedFrames
         /\ \A op \in PlainOps : Call(op, m) \in LinkedFrames
         /\ \A op \in PlainOps, rest \in Seq(Modules) : Loop(op, m, rest) \in LinkedFrames
<1>1. /\ \A op : Call(op, m).mod = m
      /\ \A op, rest : Loop(op, m, rest).mod = m
  BY DEF Call, Loop
<1> QED
  BY <1>1, FrameTypes DEF LinkedFrames

LEMMA PlainLinked ==
  ASSUME NEW m \in Modules
  PROVE  /\ \A op \in PlainOps \ EvaluateOps : Call(op, m) \in LinkedFrames
         /\ \A op \in PlainOps \ EvaluateOps, rest \in Seq(Modules) :
              Loop(op, m, rest) \in LinkedFrames
<1>1. /\ \A op : Call(op, m).op = op
      /\ \A op, rest : Loop(op, m, rest).op = op
  BY DEF Call, Loop
<1> QED
  BY <1>1, FrameTypes DEF LinkedFrames

LEMMA EvaluateLinks ==
  ASSUME GraphInv, EvalInv, NothingFails, EvaluatesLinked, EvaluateStep
  PROVE  StackMove(LinkedFrames) /\ Begun' \subseteq wasDeclarationInitialized
<1>1. /\ \/ ModuleEvaluationReturns \/ ModuleEvaluationPrepasses \/ SetEvaluating
         \/ EvaluateChild \/ ChildEvaluated \/ ChildrenEvaluated \/ PrepassBegins
         \/ PrepassChild \/ PrepassNext \/ PrepassEnds
      /\ Types /\ DataTypes /\ Depth > 0 /\ Evaluation /\ world \in Worlds
      /\ top \in InProgress /\ top \in GoodFrames
      /\ top.mod \in Modules /\ top.rest \in Seq(Modules)
      /\ \A m \in Modules : errorObject[m] = None
  BY EvaluateSucceeds DEF DataTypes
<1>2. top.mod \in wasDeclarationInitialized
  BY <1>1, LinkedCalls
<1>3. Begun' \subseteq Begun \cup {top.mod}
  BY <1>1 DEF ModuleEvaluationReturns, ModuleEvaluationPrepasses, SetEvaluating, EvaluateChild,
     ChildEvaluated, ChildrenEvaluated, PrepassBegins, PrepassChild, PrepassNext, PrepassEnds, Begun
<1> SUFFICES StackMove(LinkedFrames)
  BY <1>2, <1>3 DEF EvaluatesLinked
<1> USE DEF PlainOps
<1>4. CASE ModuleEvaluationReturns \/ PrepassEnds
  BY <1>1, <1>4 DEF ModuleEvaluationReturns, PrepassEnds, StackMove
<1>5. CASE ModuleEvaluationPrepasses \/ PrepassBegins \/ PrepassNext
  BY <1>1, <1>2, <1>5, LinkedTypes DEF ModuleEvaluationPrepasses, PrepassBegins, PrepassNext, StackMove
<1>6. CASE SetEvaluating
  <2>1. world.imports[top.mod] \in Seq(Modules)
    BY <1>1, WorldType
  <2> QED
    BY <1>1, <1>2, <1>6, <2>1, LinkedTypes DEF SetEvaluating, StackMove
<1>7. CASE ChildrenEvaluated
  BY <1>1, <1>2, <1>7, LinkedTypes DEF ChildrenEvaluated, StackMove
<1>8. CASE ChildEvaluated
  <2>1. top.rest # <<>>
    BY <1>1, <1>8 DEF ChildEvaluated, At, GoodFrames
  <2>2. Tail(top.rest) \in Seq(Modules)
    BY <1>1, <2>1, HeadTail
  <2> QED
    BY <1>1, <1>2, <1>8, <2>2, LinkedTypes DEF ChildEvaluated, StackMove
<1>9. CASE EvaluateChild
  <2>1. top.op = "children" /\ top.rest # <<>>
    BY <1>9 DEF EvaluateChild, At
  <2>2. Head(top.rest) \in Modules /\ Head(top.rest) \in ToSet(top.rest)
    BY <1>1, <2>1, HeadTail
  <2>3. Head(top.rest) \in wasDeclarationInitialized
    <3>1. Head(top.rest) \in Imports(top.mod)
      BY <1>1, <2>1, <2>2 DEF EvalInv, StackInv, CallsKnow, Knows, VisitOps
    <3>2. Failed = {}
      BY DEF EvalInv, Calm
    <3> QED
      BY <1>2, <3>1, <3>2 DEF GraphInv, LinkInv, Initialized
  <2>4. Loop("child", top.mod, top.rest) \in LinkedFrames
    BY <1>1, <1>2, <2>1, LinkedTypes
  <2>5. Call("ModuleEvaluation", Head(top.rest)) \in LinkedFrames
    BY <2>2, <2>3, LinkedTypes
  <2> QED
    BY <1>1, <1>9, <2>4, <2>5 DEF EvaluateChild, StackMove
<1>10. CASE PrepassChild
  <2>1. PICK c \in childrenModuleSet[top.mod] :
          Calls(Loop("prepassChild", top.mod, <<c>>), Call("Prepass", c))
    BY <1>10 DEF PrepassChild
  <2>2. c \in Modules /\ <<c>> \in Seq(Modules) /\ <<c>> # <<>>
    BY <1>1 DEF DataTypes
  <2>3. Loop("prepassChild", top.mod, <<c>>) \in LinkedFrames
    BY <1>1, <1>2, <2>2, LinkedTypes
  <2>4. Call("Prepass", c) \in LinkedFrames
    BY <2>2, PlainLinked DEF EvaluateOps
  <2> QED
    BY <1>1, <2>1, <2>3, <2>4 DEF StackMove
<1> QED
  BY <1>1, <1>2, <1>3, <1>4, <1>5, <1>6, <1>7, <1>8, <1>9, <1>10

LEMMA FinishLinks ==
  ASSUME GraphInv, EvalInv, NothingFails, EvaluatesLinked, FinishStep
  PROVE  StackMove(LinkedFrames) /\ Begun' \subseteq wasDeclarationInitialized
<1>1. /\ \/ FinishNothing \/ FinishCrashes \/ FinishAsync \/ FinishSync \/ TellParent
         \/ ParentsTold \/ Complete \/ FulfilledParent \/ NothingAwaited \/ FulfilledEnds
         \/ Returns
      /\ Types /\ DataTypes /\ Depth > 0 /\ stack \in Seq(GoodFrames)
      /\ top \in GoodFrames /\ top.mod \in Modules /\ top.rest \in Seq(Modules)
      /\ parentModuleList[top.mod] \in Seq(Modules)
  BY FinishSucceeds
<1>2. generator \subseteq wasDeclarationInitialized
  BY LinkedCalls
<1>3. Begun' \subseteq wasDeclarationInitialized
  BY <1>1, <1>2 DEF FinishNothing, FinishCrashes, FinishAsync, FinishSync, TellParent,
     ParentsTold, Complete, FulfilledParent, NothingAwaited, FulfilledEnds, Returns, Begun,
     Evaluated, EvaluatesLinked
<1>4. top.rest # <<>> => Head(top.rest) \in Modules
  BY <1>1, HeadTail
<1>5. ASSUME top.rest # <<>>, top.op \in {"telling", "fulfilled"} PROVE Onward \in LinkedFrames
  BY <1>1, <1>5, OnwardFacts DEF LinkedFrames, OtherFrames, OtherOps, WaitedOps, EvaluateOps
<1> SUFFICES StackMove(LinkedFrames)
  BY <1>3
<1> USE DEF PlainOps, EvaluateOps
<1>6. CASE FinishNothing \/ FinishCrashes \/ FinishAsync \/ Complete \/ FulfilledEnds \/ Returns
  BY <1>1, <1>6 DEF FinishNothing, FinishCrashes, FinishAsync, Complete, FulfilledEnds, Returns, StackMove
<1>7. CASE FinishSync
  BY <1>1, <1>7, PlainLinked DEF FinishSync, StackMove
<1>8. CASE TellParent \/ FulfilledParent
  BY <1>1, <1>4, <1>5, <1>8, PlainLinked DEF TellParent, FulfilledParent, At, StackMove
<1>9. CASE ParentsTold \/ NothingAwaited
  BY <1>1, <1>9, PlainLinked DEF ParentsTold, NothingAwaited, StackMove
<1> QED
  BY <1>1, <1>3, <1>6, <1>7, <1>8, <1>9

LEMMA EvaluateAnnounces ==
  ASSUME GraphInv, EvalInv, NothingFails, AnnounceInv, EvaluateStep \/ FinishStep
  PROVE  AnnounceInv'
<1>1. /\ Types /\ LoadInv /\ stack \in Seq(GoodFrames)
      /\ Scheduled /\ Fetched /\ RootsLinked /\ LinkedAnnounced /\ EvaluatesLinked
  BY DEF GraphInv, Types, AnnounceInv
<1>2. /\ SameGraph /\ UNCHANGED loadState /\ NoLoad
      /\ promise' \subseteq promise /\ log'.notices = log.notices
  BY <1>1, EvaluateLeaves, EvaluateNoLoad, EvaluateSettles
<1>3. StackMove(LinkedFrames) /\ Begun' \subseteq wasDeclarationInitialized
  BY <1>1, EvaluateLinks, FinishLinks
<1>4. \A f \in InProgress' : f \in InProgress \/ f \in LinkedFrames
  BY <1>1, <1>3, NewCalls DEF LinkedFrames, OtherFrames
<1>5. \A f \in InProgress : f.op \notin LoadOps
  BY <1>2 DEF NoLoad, InProgress
<1>6. \A f \in InProgress' : f.op \notin LoadOps
  BY <1>4, <1>5, OpsApart DEF LinkedFrames, OtherFrames
<1>7. "ParseSource" \in LoadOps /\ PassOps \subseteq LoadOps /\ "prepared" \in LoadOps
  BY DEF LoadOps, PassOps
<1>8. Scheduled' /\ Preparing'
  BY <1>1, <1>2, <1>6, <1>7, OutsideSchedules, NothingPrepares
<1>9. Fetched'
  BY <1>1, <1>2, <1>5, <1>6, <1>7, SameFetched DEF SameGraph
<1>10. RootsLinked'
  BY <1>1, <1>2, <1>5, <1>7 DEF RootsLinked
<1>11. LinkedAnnounced'
  BY <1>1, <1>2, SameAnnounced DEF SameGraph
<1>12. EvaluatesLinked'
  BY <1>1, <1>2, <1>3, <1>4 DEF EvaluatesLinked, LinkedFrames
<1> QED
  BY <1>8, <1>9, <1>10, <1>11, <1>12 DEF AnnounceInv

-----------------------------------------------------------------------------
(* What has arrived is announced.                                          *)

LEMMA InitAnnounces ==
  ASSUME Init
  PROVE  AnnounceInv
<1>1. InProgress = {} /\ Positions = {}
  BY DEF Init, InProgress, Positions
<1>2. Scheduled /\ Preparing
  BY <1>1 DEF Init, Scheduled, Preparing
<1>3. Fetched /\ RootsLinked
  BY <1>1 DEF Init, Fetched, RootsLinked
<1>4. LinkedAnnounced /\ EvaluatesLinked
  BY <1>1 DEF Init, LinkedAnnounced, EvaluatesLinked, Begun
<1> QED
  BY <1>2, <1>3, <1>4 DEF AnnounceInv

LEMMA SameAnnounceInv ==
  ASSUME AnnounceInv, GraphInv, EvalInv, UNCHANGED vars
  PROVE  AnnounceInv'
<1>1. /\ SameGraph /\ InProgress' = InProgress /\ Positions' = Positions /\ Begun' = Begun
      /\ UNCHANGED <<data, stack, thrown>>
  BY DEF vars, SameGraph, InProgress, Positions, Begun
<1>2. Settling' = Settling /\ Due' = Due
  BY <1>1 DEF Settling, Passing, Due, VisitDue
<1>3. Scheduled'
  BY <1>1, <1>2, SameWalk DEF AnnounceInv
<1>4. Preparing' /\ Fetched' /\ RootsLinked' /\ EvaluatesLinked'
  BY <1>1 DEF AnnounceInv, Preparing, Fetched, RootsLinked, EvaluatesLinked
<1>5. LinkedAnnounced'
  BY <1>1, SameAnnounced DEF AnnounceInv
<1> QED
  BY <1>3, <1>4, <1>5 DEF AnnounceInv

LEMMA NextAnnounces ==
  ASSUME GraphInv, EvalInv, NothingFails, AnnounceInv, [Next]_vars
  PROVE  AnnounceInv'
<1>1. CASE LoadStep
  <2>1. /\ Scheduled /\ Fetched /\ Preparing /\ RootsLinked /\ LinkedAnnounced
        /\ EvaluatesLinked
    BY DEF AnnounceInv
  <2>2. Scheduled'
    BY <1>1, <2>1, LoadSucceeds, ParseSourceSchedules, ResolveChildSchedules,
       PlainLoadSchedules, NotifySchedules, PrepareSchedules DEF LoadStep
  <2> QED
    BY <1>1, <2>1, <2>2, LoadFetches, LoadPrepares, LoadLinks, LoadAnnounces DEF AnnounceInv
<1>2. CASE EvaluateStep \/ FinishStep
  BY <1>2, EvaluateAnnounces
<1>3. CASE \E m \in Modules : Message(m)
  BY <1>3, MessageAnnounces
<1>4. CASE UNCHANGED vars
  BY <1>4, SameAnnounceInv
<1> QED
  BY <1>1, <1>2, <1>3, <1>4 DEF Next

\* If nothing fails, a module whose graph has been parsed tells its parents, or
\* NotifyParentsAsNeeded and PrepareForModuleDeclarationInitialization in progress
\* will come by; what has been linked belongs to a module that was announced.
THEOREM AnnounceInvariant == Spec => [](NothingFails => AnnounceInv)
<1> DEFINE IInv == GraphInv /\ (NothingFails => EvalInv /\ AnnounceInv)
<1>1. Init => IInv
  BY InitGraph, InitEval, InitAnnounces
<1>2. IInv /\ [Next]_vars => IInv'
  <2> SUFFICES ASSUME GraphInv, NothingFails => EvalInv /\ AnnounceInv, [Next]_vars PROVE IInv'
    OBVIOUS
  <2>1. world' = world
    BY WorldStep DEF vars, data
  <2>2. NothingFails' = NothingFails
    BY <2>1 DEF NothingFails, Broken
  <2> QED
    BY <2>2, NextGraph, NextEval, NextAnnounces
<1>3. IInv => (NothingFails => AnnounceInv)
  OBVIOUS
<1> QED
  BY <1>1, <1>2, <1>3, PTL DEF Spec

\* When no source is on its way, every module that was parsed has told its parents.
LEMMA AllSettled ==
  ASSUME GraphInv, EvalInv, AnnounceInv, Idle, host.toParse = {}
  PROVE  wasParsed = host.created /\ wasParsed \subseteq parentsNotified
<1>1. /\ InProgress = {} /\ DataTypes /\ Passing = {} /\ Fetched /\ Scheduled
      /\ host.created \subseteq Modules
      /\ childrenModuleSet \in [Modules -> SUBSET Modules]
  BY IdleFlat, IdleFacts DEF AnnounceInv, DataTypes, Hosts
<1>2. Due = {}
  BY <1>1 DEF Due
<1>3. wasParsed = host.created
  BY <1>1 DEF Fetched
<1> SUFFICES ASSUME NEW m \in wasParsed \ parentsNotified PROVE FALSE
  BY <1>3
<1>4. \A x \in wasParsed : childrenModuleSet[x] \subseteq wasParsed
  BY <1>1, <1>3 DEF Fetched
<1>5. Walk[m] \subseteq wasParsed
  <2>1. m \in Modules /\ wasParsed \in SUBSET Modules /\ Settling \subseteq Modules
    BY <1>1, <1>3 DEF Settling, DataTypes
  <2>2. \A x \in wasParsed \ Settling :
           childrenModuleSet[x] \ Settling \subseteq wasParsed
    BY <1>4
  <2> QED
    BY <1>1, <2>1, <2>2, WalkLeast DEF Walk
<1>6. m \in wasParsed \ Settling
  BY <1>1 DEF Settling
<1> QED
  BY <1>1, <1>2, <1>5, <1>6 DEF Scheduled

LEMMA Announces ==
  ASSUME GraphInv, EvalInv, AnnounceInv
  PROVE  RootsAnnounced
<1> SUFFICES ASSUME Idle, host.toParse = {}, NEW m \in isRootModule
             PROVE  \/ log.notices[m] = 1
                    \/ /\ log.notices[m] = 0
                       /\ \E r \in Modules : log.notices[r] = 1 /\ m \in Dependencies(r)
  BY DEF RootsAnnounced
<1>1. /\ InProgress = {} /\ wasParsed \subseteq parentsNotified /\ m \in Modules
      /\ hadNotifyHostReady \subseteq Modules
      /\ RootsLinked /\ LinkedAnnounced
  BY IdleFlat, AllSettled DEF AnnounceInv, DataTypes
<1>2. m \in wasDeclarationInitialized
  BY <1>1 DEF RootsLinked
<1>3. PICK r \in hadNotifyHostReady : m \in Cone[r]
  BY <1>1, <1>2 DEF LinkedAnnounced
<1>4. r \in Modules /\ log.notices[r] = 1 /\ m \in {r} \cup Dependencies(r)
  BY <1>1, <1>3 DEF LinkedAnnounced, Cone
<1>5. log.notices[m] \in {0, 1}
  BY <1>1 DEF LinkedAnnounced
<1> QED
  BY <1>4, <1>5

\* However many roots share the graph, in whatever order their sources arrive and
\* whichever cycles they close: if nothing fails, ConfirmChildrenParsed lets each
\* root be announced as soon as everything has been delivered, once, unless a root
\* that imports it came first and linked it.
THEOREM RootsAnnouncedHolds == Spec => [](NothingFails => RootsAnnounced)
<1>1. GraphInv /\ (NothingFails => EvalInv) /\ (NothingFails => AnnounceInv)
        => (NothingFails => RootsAnnounced)
  BY Announces
<1> QED
  BY <1>1, GraphInvariant, EvaluationInvariant, AnnounceInvariant, PTL

-----------------------------------------------------------------------------
(* What is announced is evaluated, fulfilled and reported, if nothing fails. *)

\* What has been announced is evaluated.
AskOps == {"ModuleEvaluation", "prepassing"}
AnnouncedBegun == \A m \in hadNotifyHostReady :
  \/ m \in toEvaluate \cup Begun
  \/ \E f \in InProgress : f.op \in AskOps /\ f.mod = m

\* A module under evaluation awaits its own body or one that it imports, or its
\* body is about to run.
ReadyOps == {"FinishWaited", "nothingAwaited"}
Awaits(m) == \/ m \in suspended \cup Inside
             \/ Pending[m] # {}
             \/ \E f \in InProgress : f.op \in ReadyOps /\ f.mod = m
Awaiting == \A m \in evaluating : Awaits(m)

\* These modules have ended and have yet to tell all their parents, or the host.
EndOps == TellOps \cup {"complete"}
EndingIn(F) == {f.mod : f \in {g \in F : g.op \in EndOps}}
Ending == EndingIn(InProgress)

EndsOnce == \A i, j \in Positions : i < j /\ stack[i].op \in EndOps /\ stack[j].op \in EndOps
              => stack[i].mod # stack[j].mod

\* An import() is settled when its module has ended.
Promised ==
  /\ host.imported \subseteq promise \cup log.fulfilled
  /\ promise \subseteq host.imported
  /\ promise \cap ended \subseteq Ending

\* A root is reported once, when it has ended.
ReportedOnce == \A m \in Modules \ host.imported :
  log.reports[m] = IF m \in (isRootModule \cap ended) \ Ending THEN <<None>> ELSE <<>>

\* The host loads its roots and what they import.
Origins ==
  /\ host.loaded \subseteq world.roots /\ host.imported \subseteq world.dynamic
  /\ \A m \in host.created : \E r \in host.loaded \cup host.imported : m \in Cone[r]
  /\ \A m \in wasParsed \ host.imported : m \in isRootModule \/ parentModuleList[m] # <<>>

SettleInv == /\ AnnouncedBegun /\ Awaiting /\ EndsOnce /\ Promised /\ ReportedOnce
             /\ Origins

-----------------------------------------------------------------------------
(* Calls of modules that have ended.                                       *)

LEMMA EndingAdds ==
  ASSUME NEW F, NEW f
  PROVE  EndingIn(F \cup {f}) = EndingIn(F) \cup (IF f.op \in EndOps THEN {f.mod} ELSE {})
BY DEF EndingIn

LEMMA ReturnEnds ==
  ASSUME stack \in Seq(GoodFrames), Depth > 0, EndsOnce, Return
  PROVE  /\ EndsOnce'
         /\ top.op \in EndOps => top.mod \notin Ending'
<1>1. TopMove /\ Positions' = Below /\ InProgress' = Lower
  BY ReturnMove, ReturnCalls
<1>2. /\ Positions = Below \cup {Len(stack)} /\ top = stack[Len(stack)]
      /\ \A i \in Below : stack'[i] = stack[i] /\ i < Len(stack) /\ i \in Nat
      /\ Len(stack) \in Nat
  BY <1>1, TopFacts DEF TopMove, Below, Positions
<1>3. EndsOnce'
  BY <1>1, <1>2 DEF EndsOnce
<1>4. ASSUME top.op \in EndOps, top.mod \in Ending' PROVE FALSE
  <2>1. PICK i \in Below : stack[i].op \in EndOps /\ stack[i].mod = top.mod
    BY <1>1, <1>4 DEF Ending, EndingIn, Lower
  <2> QED
    BY <1>2, <1>4, <2>1 DEF EndsOnce
<1> QED
  BY <1>3, <1>4

\* The call f takes the place of the top: it belongs to a module that has not
\* ended before, or to the module of the top.
EndsAlone(f) == f.op \in EndOps =>
  (top.op \in EndOps /\ top.mod = f.mod) \/ f.mod \notin Ending

LEMMA BecomesEnds ==
  ASSUME stack \in Seq(GoodFrames), Depth > 0, EndsOnce, NEW f \in GoodFrames, Becomes(f),
         EndsAlone(f)
  PROVE  EndsOnce'
<1>1. /\ TopMove /\ Positions' = Below \cup {Len(stack)} /\ stack'[Len(stack)] = f
  BY BecomesMove
<1>2. /\ Positions = Below \cup {Len(stack)} /\ top = stack[Len(stack)]
      /\ \A i \in Below : stack'[i] = stack[i] /\ i < Len(stack) /\ i \in Nat
      /\ Len(stack) \in Nat
  BY <1>1, TopFacts DEF TopMove, Below, Positions
<1>3. ASSUME NEW i \in Below, stack[i].op \in EndOps, f.op \in EndOps
      PROVE  stack[i].mod # f.mod
  <2>1. stack[i].mod \in Ending
    BY <1>2, <1>3 DEF Ending, EndingIn, InProgress
  <2>2. top.op \in EndOps => stack[i].mod # top.mod
    BY <1>2, <1>3 DEF EndsOnce
  <2> QED
    BY <1>3, <2>1, <2>2 DEF EndsAlone
<1>4. ASSUME NEW i \in Positions', NEW j \in Positions', i < j,
             stack'[i].op \in EndOps, stack'[j].op \in EndOps
      PROVE  stack'[i].mod # stack'[j].mod
  <2>1. i \in Below
    BY <1>1, <1>2, <1>4
  <2> QED
    BY <1>1, <1>2, <1>3, <1>4, <2>1 DEF EndsOnce
<1> QED
  BY <1>4 DEF EndsOnce

LEMMA CallsEnds ==
  ASSUME stack \in Seq(GoodFrames), Depth > 0, EndsOnce,
         NEW f \in GoodFrames, NEW g \in GoodFrames, Calls(f, g), EndsAlone(f),
         g.op \notin EndOps
  PROVE  EndsOnce'
<1>1. /\ TopMove /\ Positions' = Below \cup {Len(stack), Len(stack) + 1}
      /\ stack'[Len(stack)] = f /\ stack'[Len(stack) + 1] = g
  BY CallsMove
<1>2. /\ Positions = Below \cup {Len(stack)} /\ top = stack[Len(stack)]
      /\ \A i \in Below : stack'[i] = stack[i] /\ i < Len(stack) /\ i \in Nat
      /\ Len(stack) \in Nat
  BY <1>1, TopFacts DEF TopMove, Below, Positions
<1>3. ASSUME NEW i \in Below, stack[i].op \in EndOps, f.op \in EndOps
      PROVE  stack[i].mod # f.mod
  <2>1. stack[i].mod \in Ending
    BY <1>2, <1>3 DEF Ending, EndingIn, InProgress
  <2>2. top.op \in EndOps => stack[i].mod # top.mod
    BY <1>2, <1>3 DEF EndsOnce
  <2> QED
    BY <1>3, <2>1, <2>2 DEF EndsAlone
<1>4. ASSUME NEW i \in Positions', NEW j \in Positions', i < j,
             stack'[i].op \in EndOps, stack'[j].op \in EndOps
      PROVE  stack'[i].mod # stack'[j].mod
  <2>1. i \in Below /\ j \in Below \cup {Len(stack)}
    BY <1>1, <1>2, <1>4
  <2> QED
    BY <1>1, <1>2, <1>3, <1>4, <2>1 DEF EndsOnce
<1> QED
  BY <1>4 DEF EndsOnce

\* No call of a module that has ended.
LEMMA NoneEnds ==
  ASSUME \A f \in InProgress : f.op \notin EndOps
  PROVE  EndsOnce /\ Ending = {}
BY DEF EndsOnce, Ending, EndingIn, InProgress

-----------------------------------------------------------------------------
(* Steps of an evaluation.                                                 *)

\* Calls that do not end a module.
FreeFrames == {f \in OtherFrames : f.op \notin EndOps}

LEMMA FreeTypes ==
  /\ \A op \in {"child", "prepassChild"}, m \in Modules, rest \in Seq(Modules) :
       rest # <<>> => Loop(op, m, rest) \in FreeFrames
  /\ \A op \in PlainOps \ EndOps, m \in Modules : Call(op, m) \in FreeFrames
  /\ \A op \in PlainOps \ EndOps, m \in Modules, rest \in Seq(Modules) :
       Loop(op, m, rest) \in FreeFrames
<1>1. /\ \A op, m : Call(op, m).op = op
      /\ \A op, m, rest : Loop(op, m, rest).op = op
  BY DEF Call, Loop
<1>2. "child" \notin EndOps /\ "prepassChild" \notin EndOps
  BY DEF EndOps, TellOps
<1> QED
  BY <1>1, <1>2, FrameTypes DEF FreeFrames

LEMMA FreeMoves ==
  ASSUME stack \in Seq(GoodFrames), Depth > 0, EndsOnce,
         \/ Return
         \/ \E f \in FreeFrames : Becomes(f)
         \/ \E f, g \in FreeFrames : Calls(f, g)
  PROVE  EndsOnce'
BY ReturnEnds, BecomesEnds, CallsEnds DEF FreeFrames, OtherFrames, EndsAlone

\* The calls of N take the place of the top, which has no business with a module
\* whose body is to begin; or an evaluation begins; or it goes on or is suspended.
PassesBy(N) ==
  /\ top.op \notin InsideOps /\ \A f \in N : f.op \notin InsideOps
  /\ evaluating' = evaluating
  /\ top.op \in AskOps => \/ top.mod \in Begun
                          \/ \E f \in N : f.op \in AskOps /\ f.mod = top.mod
Enters(N) ==
  /\ top.op \in AskOps /\ top.mod \notin evaluating
  /\ evaluating' = evaluating \cup {top.mod}
  /\ \E f \in N : N = {f} /\ f.op \in InsideOps /\ f.mod = top.mod
GoesOn(N) ==
  /\ top.op \in InsideOps /\ evaluating' = evaluating
  /\ \A f \in N : f.op \in InsideOps => f.mod = top.mod
  /\ (\E f \in N : f.op \in InsideOps) \/ awaitedModules[top.mod] # 0
EvaluatesBy(N) == InProgress' = Lower \cup N /\ (PassesBy(N) \/ Enters(N) \/ GoesOn(N))

\* How an evaluation goes on, if nothing fails.
LEMMA EvaluateCalls ==
  ASSUME GraphInv, EvalInv, EvaluateStep
  PROVE  (EndsOnce => EndsOnce') /\ \E N \in SUBSET FreeFrames : EvaluatesBy(N)
<1>1. /\ \/ ModuleEvaluationReturns \/ ModuleEvaluationPrepasses \/ SetEvaluating
         \/ EvaluateChild \/ ChildEvaluated \/ ChildrenEvaluated \/ PrepassBegins
         \/ PrepassChild \/ PrepassNext \/ PrepassEnds
      /\ DataTypes /\ Depth > 0 /\ world \in Worlds
      /\ stack \in Seq(GoodFrames) /\ top \in GoodFrames /\ top \in InProgress
      /\ top.mod \in Modules /\ top.rest \in Seq(Modules)
      /\ \A m \in Modules : errorObject[m] = None
  BY EvaluateSucceeds DEF DataTypes
<1>2. /\ \A op, m : Call(op, m).op = op /\ Call(op, m).mod = m
      /\ \A op, m, rest : Loop(op, m, rest).op = op /\ Loop(op, m, rest).mod = m
  BY DEF Call, Loop
<1>3. ASSUME Return PROVE InProgress' = Lower /\ (EndsOnce => EndsOnce')
  BY <1>1, <1>3, ReturnCalls, FreeMoves
<1>4. ASSUME NEW f \in FreeFrames, Becomes(f)
      PROVE  InProgress' = Lower \cup {f} /\ (EndsOnce => EndsOnce')
  BY <1>1, <1>4, BecomesCalls, FreeMoves DEF FreeFrames, OtherFrames
<1>5. ASSUME NEW f \in FreeFrames, NEW g \in FreeFrames, Calls(f, g)
      PROVE  InProgress' = Lower \cup {f, g} /\ (EndsOnce => EndsOnce')
  BY <1>1, <1>5, CallsCalls, FreeMoves DEF FreeFrames, OtherFrames
<1>6. {"prepassing", "children", "finishing", "FinishOwn", "ModuleEvaluation", "prepassLoop",
       "Prepass"} \subseteq PlainOps \ EndOps
  BY DEF PlainOps, EndOps, TellOps
<1> DEFINE C(op) == Call(op, top.mod)
<1>7. CASE ModuleEvaluationReturns
  <2>1. /\ Return /\ top.op = "ModuleEvaluation" /\ top.mod \in Begun /\ evaluating' = evaluating
    BY <1>7 DEF ModuleEvaluationReturns, At, Begun, EvalInv, BodyInv, Bodies
  <2>2. EvaluatesBy({})
    BY <1>3, <2>1 DEF EvaluatesBy, PassesBy, InsideOps
  <2> QED
    BY <1>3, <2>1, <2>2
<1>8. CASE ModuleEvaluationPrepasses
  <2>1. /\ Calls(C("prepassing"), C("Prepass")) /\ evaluating' = evaluating
        /\ top.op = "ModuleEvaluation"
    BY <1>8 DEF ModuleEvaluationPrepasses, At
  <2>2. C("prepassing") \in FreeFrames /\ C("Prepass") \in FreeFrames
    BY <1>1, <1>6, FreeTypes
  <2>3. InProgress' = Lower \cup {C("prepassing"), C("Prepass")} /\ (EndsOnce => EndsOnce')
    BY <1>5, <2>1, <2>2
  <2> QED
    <3>1. EvaluatesBy({C("prepassing"), C("Prepass")})
      BY <1>2, <2>1, <2>3 DEF EvaluatesBy, PassesBy, InsideOps, AskOps
    <3> QED
      BY <2>2, <2>3, <3>1
<1>9. CASE SetEvaluating
  <2> DEFINE f == Loop("children", top.mod, world.imports[top.mod])
  <2>1. Becomes(f) /\ evaluating' = evaluating \cup {top.mod} /\ top.op \in AskOps
    BY <1>9 DEF SetEvaluating, At, AskOps
  <2>3. top.op = "prepassing" => top.mod \notin evaluating
    BY <1>1 DEF EvalInv, StackInv, CallsKnow, Knows, Begun
  <2>4. top.mod \notin evaluating
    BY <1>9, <2>3 DEF SetEvaluating, At
  <2>2. f \in FreeFrames /\ f.op = "children" /\ f.mod = top.mod
    BY <1>1, <1>2, <1>6, WorldType, FreeTypes
  <2> HIDE DEF f
  <2> QED
    <3>1. EvaluatesBy({f})
      BY <1>4, <2>1, <2>2, <2>4 DEF EvaluatesBy, Enters, InsideOps
    <3> QED
      BY <1>4, <2>1, <2>2, <3>1
<1>10. CASE EvaluateChild
  <2> DEFINE f == Loop("child", top.mod, top.rest)
             g == Call("ModuleEvaluation", Head(top.rest))
  <2>1. Calls(f, g) /\ evaluating' = evaluating /\ top.op = "children" /\ top.rest # <<>>
    BY <1>10 DEF EvaluateChild, At
  <2>2. Head(top.rest) \in Modules
    BY <1>1, <2>1, HeadTail
  <2>3. /\ f \in FreeFrames /\ f.op = "child" /\ f.mod = top.mod
        /\ g \in FreeFrames /\ g.op = "ModuleEvaluation"
    BY <1>1, <1>2, <1>6, <2>1, <2>2, FreeTypes
  <2> HIDE DEF f, g
  <2>4. InProgress' = Lower \cup {f, g} /\ (EndsOnce => EndsOnce')
    BY <1>5, <2>1, <2>3
  <2> QED
    <3>1. EvaluatesBy({f, g})
      BY <2>1, <2>3, <2>4 DEF EvaluatesBy, GoesOn, InsideOps
    <3> QED
      BY <2>3, <2>4, <3>1
<1>11. CASE ChildEvaluated
  <2> DEFINE f == Loop("children", top.mod, Tail(top.rest))
  <2>1. top.rest # <<>> /\ top.op = "child"
    BY <1>1, <1>11 DEF ChildEvaluated, At, GoodFrames
  <2>2. Head(top.rest) \in Modules /\ Tail(top.rest) \in Seq(Modules)
    BY <1>1, <2>1, HeadTail
  <2>3. Becomes(f) /\ evaluating' = evaluating
    BY <1>1, <1>11, <2>2 DEF ChildEvaluated
  <2>4. f \in FreeFrames /\ f.op = "children" /\ f.mod = top.mod
    <3>1. \A rest \in Seq(Modules) : /\ Loop("children", top.mod, rest) \in FreeFrames
                                     /\ Loop("children", top.mod, rest).op = "children"
                                     /\ Loop("children", top.mod, rest).mod = top.mod
      BY <1>1, <1>2, <1>6, FreeTypes
    <3> QED
      BY <2>2, <3>1
  <2> HIDE DEF f
  <2> QED
    <3>1. EvaluatesBy({f})
      BY <1>4, <2>1, <2>3, <2>4 DEF EvaluatesBy, GoesOn, InsideOps
    <3> QED
      BY <1>4, <2>3, <2>4, <3>1
<1>12. CASE ChildrenEvaluated
  <2>1. top.op = "children" /\ evaluating' = evaluating
    BY <1>12 DEF ChildrenEvaluated, At
  <2>2. CASE awaitedModules[top.mod] = 0
    <3>1. Calls(C("finishing"), C("FinishOwn"))
      BY <1>12, <2>2 DEF ChildrenEvaluated
    <3>2. C("finishing") \in FreeFrames /\ C("FinishOwn") \in FreeFrames
      BY <1>1, <1>6, FreeTypes
    <3>3. InProgress' = Lower \cup {C("finishing"), C("FinishOwn")} /\ (EndsOnce => EndsOnce')
      BY <1>5, <3>1, <3>2
    <3> QED
      <4>1. EvaluatesBy({C("finishing"), C("FinishOwn")})
        BY <1>2, <2>1, <3>3 DEF EvaluatesBy, GoesOn, InsideOps
      <4> QED
        BY <3>2, <3>3, <4>1
  <2>3. CASE awaitedModules[top.mod] # 0
    <3>1. Return
      BY <1>12, <2>3 DEF ChildrenEvaluated
    <3>2. EvaluatesBy({})
      BY <1>3, <2>1, <2>3, <3>1 DEF EvaluatesBy, GoesOn, InsideOps
    <3> QED
      BY <1>3, <3>1, <3>2
  <2> QED
    BY <2>2, <2>3
<1>13. CASE PrepassBegins \/ PrepassNext
  <2>1. /\ Becomes(C("prepassLoop")) /\ evaluating' = evaluating
        /\ top.op \notin InsideOps \cup AskOps
    BY <1>13 DEF PrepassBegins, PrepassNext, At, InsideOps, AskOps
  <2>2. C("prepassLoop") \in FreeFrames
    BY <1>1, <1>6, FreeTypes
  <2> QED
    <3>1. EvaluatesBy({C("prepassLoop")})
      BY <1>2, <1>4, <2>1, <2>2 DEF EvaluatesBy, PassesBy, InsideOps
    <3> QED
      BY <1>4, <2>1, <2>2, <3>1
<1>14. CASE PrepassChild
  <2>1. /\ evaluating' = evaluating /\ top.op \notin InsideOps \cup AskOps
    BY <1>14 DEF PrepassChild, At, InsideOps, AskOps
  <2>2. PICK c \in childrenModuleSet[top.mod] :
          Calls(Loop("prepassChild", top.mod, <<c>>), Call("Prepass", c))
    BY <1>14 DEF PrepassChild
  <2>3. c \in Modules /\ <<c>> \in Seq(Modules) /\ <<c>> # <<>>
    BY <1>1 DEF DataTypes
  <2> DEFINE f == Loop("prepassChild", top.mod, <<c>>)
             g == Call("Prepass", c)
  <2>4. f \in FreeFrames /\ g \in FreeFrames /\ f.op = "prepassChild" /\ g.op = "Prepass"
    BY <1>1, <1>2, <1>6, <2>3, FreeTypes
  <2>5. Calls(f, g)
    BY <2>2
  <2> HIDE DEF f, g
  <2>6. InProgress' = Lower \cup {f, g} /\ (EndsOnce => EndsOnce')
    BY <1>5, <2>4, <2>5
  <2> QED
    <3>1. EvaluatesBy({f, g})
      BY <2>1, <2>4, <2>6 DEF EvaluatesBy, PassesBy, InsideOps
    <3> QED
      BY <2>4, <2>6, <3>1
<1>15. CASE PrepassEnds
  <2>1. Return /\ evaluating' = evaluating /\ top.op \notin InsideOps \cup AskOps
    BY <1>15 DEF PrepassEnds, At, InsideOps, AskOps
  <2>2. EvaluatesBy({})
    BY <1>3, <2>1 DEF EvaluatesBy, PassesBy
  <2> QED
    BY <1>3, <2>1, <2>2
<1> QED
  BY <1>1, <1>7, <1>8, <1>9, <1>10, <1>11, <1>12, <1>13, <1>14, <1>15

LEMMA OpsEvaluate ==
  ASSUME GraphInv, EvalInv, EvaluateStep
  PROVE  /\ top.op \notin EndOps \cup ReadyOps
         /\ UNCHANGED <<ended, suspended, promise, log>>
<1>1. \/ ModuleEvaluationReturns \/ ModuleEvaluationPrepasses \/ SetEvaluating
      \/ EvaluateChild \/ ChildEvaluated \/ ChildrenEvaluated \/ PrepassBegins
      \/ PrepassChild \/ PrepassNext \/ PrepassEnds
  BY EvaluateSucceeds
<1>2. top.op \in EvaluateOps \cup PrepassOps
  BY <1>1 DEF ModuleEvaluationReturns, ModuleEvaluationPrepasses,
     SetEvaluating, EvaluateChild, ChildEvaluated, ChildrenEvaluated, PrepassBegins,
     PrepassChild, PrepassNext, PrepassEnds, At, EvaluateOps, PrepassOps
<1>3. UNCHANGED <<ended, suspended, promise, log>>
  BY <1>1 DEF ModuleEvaluationReturns, ModuleEvaluationPrepasses,
     SetEvaluating, EvaluateChild, ChildEvaluated, ChildrenEvaluated, PrepassBegins,
     PrepassChild, PrepassNext, PrepassEnds
<1> QED
  BY <1>2, <1>3 DEF EvaluateOps, PrepassOps, EndOps, TellOps, ReadyOps

\* A module that has not been told by all it waits for keeps waiting.
LEMMA PendingGrows ==
  ASSUME childrenModuleSet' = childrenModuleSet,
         \A p \in Modules : \A c \in childrenModuleSet[p] :
           c \in evaluating \ Inside \/ <<c, p>> \in Tells
             => c \in evaluating' \ Inside' \/ <<c, p>> \in Tells'
  PROVE  \A p \in Modules : Pending[p] \subseteq Pending'[p]
BY DEF Pending, PendingOf

LEMMA PendingCounted ==
  ASSUME EvalInv, NEW p \in Modules, awaitedModules[p] # 0
  PROVE  Pending[p] # {}
<1>1. awaitedModules[p] = Cardinality(Pending[p])
  BY DEF EvalInv, BodyInv, Counted
<1> QED
  BY <1>1, FS_EmptySet

LEMMA EvaluateAwaits ==
  ASSUME GraphInv, EvalInv, Awaiting, EvaluateStep
  PROVE  Awaiting'
<1>1. /\ DataTypes /\ InProgress = Lower \cup {top} /\ top.mod \in Modules /\ SameGraph
      /\ Tells = {} /\ evaluating \subseteq Modules
      /\ top.op \notin ReadyOps /\ suspended' = suspended
  <2>1. Types /\ Depth > 0 /\ Modes /\ top.op \in OwnModeOps \ {"complete"} => Tells = {}
    BY OwnMode
  <2>2. top.op \in EvaluateOps \cup PrepassOps
    BY EvaluateSucceeds DEF ModuleEvaluationReturns, ModuleEvaluationPrepasses,
     SetEvaluating, EvaluateChild, ChildEvaluated, ChildrenEvaluated, PrepassBegins,
     PrepassChild, PrepassNext, PrepassEnds, At, EvaluateOps, PrepassOps
  <2>3. top.op \in OwnModeOps \ {"complete"}
    BY <2>2 DEF OwnModeOps, EvaluateOps, PrepassOps
  <2> QED
    BY <2>1, <2>3, EvaluateSucceeds, OpsEvaluate, EvaluateLeaves
    DEF EvalInv, StackInv, DataTypes
<1>2. PICK N \in SUBSET FreeFrames : EvaluatesBy(N)
  BY EvaluateCalls
<1>3. /\ evaluating \subseteq evaluating' /\ evaluating' \ evaluating \subseteq Inside'
      /\ evaluating \ Inside \subseteq evaluating' \ Inside'
      /\ \A x \in Inside : x \in Inside' \/ (x = top.mod /\ awaitedModules[x] # 0)
  BY <1>1, <1>2 DEF Inside, InsideIn, EvaluatesBy, PassesBy, Enters, GoesOn, AskOps, InsideOps
<1>4. \A p \in Modules : Pending[p] \subseteq Pending'[p]
  BY <1>1, <1>3, PendingGrows DEF SameGraph
<1>5. \A f \in InProgress : f.op \in ReadyOps => f \in InProgress'
  BY <1>1, <1>2 DEF EvaluatesBy
<1>6. \A x \in evaluating' \ evaluating : Awaits(x)'
  BY <1>3 DEF Awaits
<1>7. ASSUME NEW x \in evaluating PROVE Awaits(x)'
  <2>1. CASE x \in suspended \/ Pending[x] # {}
    BY <1>1, <1>4, <2>1 DEF Awaits
  <2>2. CASE x \in Inside
    BY <1>1, <1>3, <1>4, <2>2, PendingCounted DEF Awaits
  <2>3. CASE \E f \in InProgress : f.op \in ReadyOps /\ f.mod = x
    BY <1>5, <2>3 DEF Awaits
  <2> QED
    BY <2>1, <2>2, <2>3 DEF Awaiting, Awaits
<1> QED
  BY <1>6, <1>7 DEF Awaiting

LEMMA EvaluateAsks ==
  ASSUME GraphInv, EvalInv, AnnouncedBegun, EvaluateStep
  PROVE  AnnouncedBegun'
<1>1. /\ InProgress = Lower \cup {top} /\ UNCHANGED <<hadNotifyHostReady, toEvaluate, ended>>
  BY EvaluateSucceeds, OpsEvaluate, EvaluateLeaves
<1>2. PICK N \in SUBSET FreeFrames : EvaluatesBy(N)
  BY EvaluateCalls
<1>3. /\ InProgress' = Lower \cup N /\ evaluating \subseteq evaluating'
      /\ top.op \in AskOps => \/ top.mod \in Begun \cup evaluating'
                              \/ \E f \in N : f.op \in AskOps /\ f.mod = top.mod
  BY <1>2 DEF EvaluatesBy, PassesBy, Enters, GoesOn, AskOps, InsideOps
<1> QED
  BY <1>1, <1>3 DEF AnnouncedBegun, Begun

LEMMA EvaluateEnds ==
  ASSUME GraphInv, EvalInv, EvaluateStep
  PROVE  Ending' = Ending
<1>1. InProgress = Lower \cup {top} /\ top.op \notin EndOps
  BY EvaluateSucceeds, OpsEvaluate
<1>2. PICK N \in SUBSET FreeFrames : InProgress' = Lower \cup N
  BY EvaluateCalls DEF EvaluatesBy
<1> QED
  BY <1>1, <1>2 DEF Ending, EndingIn, FreeFrames

\* No import() is settled, nothing is reported, and no body ends.
LEMMA NothingSettles ==
  ASSUME Promised, ReportedOnce,
         UNCHANGED <<host, promise, log, ended, isRootModule, Ending>>
  PROVE  Promised' /\ ReportedOnce'
BY DEF Promised, ReportedOnce

LEMMA SameOrigins ==
  ASSUME Origins, SameGraph, UNCHANGED <<host, isRootModule>>
  PROVE  Origins'
BY SameWorld DEF Origins, SameGraph

LEMMA EvaluateSettleInv ==
  ASSUME GraphInv, EvalInv, SettleInv, EvaluateStep
  PROVE  SettleInv'
<1>1. /\ UNCHANGED <<ended, promise, log>> /\ SameGraph /\ UNCHANGED loadState
      /\ Ending' = Ending
  BY EvaluateSucceeds, OpsEvaluate, EvaluateLeaves, EvaluateEnds
<1>2. AnnouncedBegun' /\ Awaiting' /\ EndsOnce'
  BY EvaluateAsks, EvaluateAwaits, EvaluateCalls DEF SettleInv
<1>3. Promised' /\ ReportedOnce' /\ Origins'
  BY <1>1, NothingSettles, SameOrigins DEF SettleInv
<1> QED
  BY <1>2, <1>3 DEF SettleInv

-----------------------------------------------------------------------------
(* A body begins or ends, and those that wait are told.                    *)

\* The top call returns, or goes on as calls N that do not wait.
Leaves(N) ==
  /\ InProgress' = Lower \cup N /\ \A f \in N : f.op \notin InsideOps
  /\ childrenModuleSet' = childrenModuleSet /\ suspended \subseteq suspended'
  /\ evaluating \ {top.mod} \subseteq evaluating' /\ evaluating' \subseteq evaluating
  /\ top.op \notin TellOps \/ top.rest = <<>>
  /\ top.op \in InsideOps \cup ReadyOps =>
       \A x \in evaluating' : x = top.mod => Awaits(x)'
  /\ top.mod \in evaluating \ (Inside \cup evaluating') =>
       \A p \in Modules : top.mod \in childrenModuleSet[p] => <<top.mod, p>> \in Tells'

LEMMA TopAwaits ==
  ASSUME Awaiting, DataTypes, stack \in Seq(GoodFrames), Depth > 0, NEW N, Leaves(N)
  PROVE  Awaiting'
<1>1. /\ InProgress = Lower \cup {top} /\ top.rest \in Seq(Modules) /\ top.mod \in Modules
  BY TopFacts, CallsSplit DEF GoodFrames, Frames
<1>2. ToSet(top.rest) = {} \/ top.op \notin TellOps
  BY <1>1, ToSetEmpty DEF Leaves
<1>3. Tells \subseteq Tells'
  BY <1>1, <1>2 DEF Tells, TellsIn, Leaves
<1>4. Inside' \subseteq Inside
  BY <1>1 DEF Inside, InsideIn, Leaves
<1>5. \A p \in Modules : Pending[p] \subseteq Pending'[p]
  BY <1>3, <1>4, PendingGrows DEF Leaves
<1>6. ASSUME NEW x \in evaluating' PROVE Awaits(x)'
  <2>1. x \in evaluating /\ x \in Modules /\ Awaits(x)
    BY DEF Awaiting, DataTypes, Leaves
  <2>2. CASE x \in suspended \/ Pending[x] # {}
    BY <1>5, <2>1, <2>2 DEF Awaits, Leaves
  <2>3. CASE \E f \in InProgress : f.op \in InsideOps \cup ReadyOps /\ f.mod = x
    <3>1. PICK f \in InProgress : f.op \in InsideOps \cup ReadyOps /\ f.mod = x
      BY <2>3
    <3>2. CASE f = top
      BY <3>1, <3>2 DEF Leaves
    <3>3. CASE f \in Lower
      BY <3>1, <3>3 DEF Awaits, Inside, InsideIn, Leaves
    <3> QED
      BY <1>1, <3>2, <3>3
  <2> QED
    BY <2>1, <2>2, <2>3 DEF Awaits, Inside, InsideIn
<1> QED
  BY <1>6 DEF Awaiting

\* What every step of FinishModuleEvaluation and of its callers leaves alone.
LEMMA FinishLeaves ==
  ASSUME GraphInv, EvalInv, NothingFails, FinishStep
  PROVE  /\ SameGraph /\ UNCHANGED loadState /\ top.op \notin AskOps
         /\ Begun \subseteq Begun'
<1>1. /\ \/ FinishNothing \/ FinishCrashes \/ FinishAsync \/ FinishSync \/ TellParent
         \/ ParentsTold \/ Complete \/ FulfilledParent \/ NothingAwaited \/ FulfilledEnds
         \/ Returns
  BY FinishSucceeds
<1>2. top.op \notin AskOps /\ Begun \subseteq Begun'
  BY <1>1 DEF FinishNothing, FinishCrashes, FinishAsync, FinishSync, TellParent,
     ParentsTold, Complete, FulfilledParent, NothingAwaited, FulfilledEnds, Returns, Begun,
     Evaluated, AtFinish, At, AskOps
<1> QED
  BY <1>2, FinishSucceeds, EvaluateLeaves

LEMMA FinishAsks ==
  ASSUME GraphInv, EvalInv, NothingFails, SettleInv, FinishStep,
         NEW N, InProgress' = Lower \cup N
  PROVE  AnnouncedBegun' /\ Origins'
<1>1. /\ InProgress = Lower \cup {top} /\ SameGraph /\ top.op \notin AskOps
      /\ Begun \subseteq Begun' /\ UNCHANGED <<hadNotifyHostReady, toEvaluate, host, isRootModule>>
  BY FinishSucceeds, FinishLeaves
<1>2. AnnouncedBegun'
  BY <1>1 DEF SettleInv, AnnouncedBegun
<1> QED
  BY <1>1, <1>2, SameOrigins DEF SettleInv

\* The calls in progress after a step that pushes none of a module that ends.
LEMMA PlainEnds ==
  ASSUME stack \in Seq(GoodFrames), Depth > 0, EndsOnce,
         top.op \notin EndOps,
         NEW N \in SUBSET FreeFrames, InProgress' = Lower \cup N
  PROVE  Ending' = Ending
<1>1. InProgress = Lower \cup {top}
  BY CallsSplit
<1> QED
  BY <1>1 DEF Ending, EndingIn, FreeFrames

\* The calls of N take the place of the top, and none of them waits.
PlainlyBy(N) ==
  /\ InProgress' = Lower \cup N /\ EndsOnce' /\ \A f \in N : f.op \notin InsideOps
  /\ top.mod \in evaluating /\ top.op \in InsideOps \cup ReadyOps =>
       top.mod \in suspended' \/ \E f \in N : f.op \in ReadyOps /\ f.mod = top.mod

LEMMA PlainFinishSettles ==
  ASSUME GraphInv, EvalInv, NothingFails, SettleInv,
         FinishNothing \/ FinishAsync \/ NothingAwaited \/ Returns
  PROVE  SettleInv'
<1>1. FinishStep
  BY DEF FinishStep
<1>2. /\ DataTypes /\ Depth > 0 /\ stack \in Seq(GoodFrames) /\ top.mod \in Modules
      /\ SameGraph /\ UNCHANGED loadState /\ Calm /\ Bodies
  BY <1>1, FinishSucceeds, FinishLeaves DEF EvalInv, BodyInv
<1>3. /\ UNCHANGED <<ended, promise, log, evaluating>> /\ suspended \subseteq suspended'
      /\ top.op \notin EndOps
  BY DEF FinishNothing, FinishAsync, NothingAwaited, Returns, AtFinish, At, EndOps, TellOps
<1>4. EndsOnce /\ Awaiting
  BY DEF SettleInv
<1>5. \E N \in SUBSET FreeFrames : PlainlyBy(N)
  <2>1. ASSUME Return,
               \/ top.mod \notin evaluating \/ top.mod \in suspended'
               \/ top.op \notin InsideOps \cup ReadyOps
        PROVE  PlainlyBy({})
    BY <1>2, <1>4, <2>1, ReturnCalls, ReturnEnds DEF PlainlyBy
  <2>2. CASE FinishNothing
    <3>1. Return /\ top.mod \notin evaluating
      BY <1>2, <2>2 DEF FinishNothing, Bodies
    <3> QED
      BY <2>1, <3>1
  <2>3. CASE FinishAsync
    <3>1. Return /\ top.mod \in suspended'
      BY <2>3 DEF FinishAsync
    <3> QED
      BY <2>1, <3>1
  <2>4. CASE Returns
    <3>1. Return /\ top.op \notin InsideOps \cup ReadyOps
      BY <2>4 DEF Returns, At, InsideOps, ReadyOps
    <3> QED
      BY <2>1, <3>1
  <2>5. CASE NothingAwaited
    <3> DEFINE f == Call("waited", top.mod)
               g == Call("FinishWaited", top.mod)
    <3>1. /\ f \in FreeFrames /\ g \in FreeFrames /\ f.op = "waited"
          /\ g.op = "FinishWaited" /\ g.mod = top.mod
      BY <1>2, FreeTypes DEF Call, PlainOps, EndOps, TellOps
    <3>2. Calls(f, g)
      BY <2>5 DEF NothingAwaited
    <3> HIDE DEF f, g
    <3>3. InProgress' = Lower \cup {f, g} /\ EndsOnce'
      BY <1>2, <1>4, <3>1, <3>2, CallsCalls, FreeMoves DEF FreeFrames, OtherFrames
    <3> QED
      <4>1. PlainlyBy({f, g})
        BY <3>1, <3>3 DEF PlainlyBy, InsideOps, ReadyOps
      <4> QED
        BY <3>1, <4>1
  <2> QED
    BY <2>2, <2>3, <2>4, <2>5
<1>6. PICK N \in SUBSET FreeFrames : PlainlyBy(N)
  BY <1>5
<1>7. AnnouncedBegun' /\ Origins'
  BY <1>1, <1>6, FinishAsks DEF PlainlyBy
<1>8. Ending' = Ending
  BY <1>2, <1>3, <1>4, <1>6, PlainEnds DEF PlainlyBy
<1>9. Promised' /\ ReportedOnce'
  BY <1>2, <1>3, <1>8, NothingSettles DEF SettleInv
<1>10. Awaiting'
  <2>1. ASSUME top.op \in InsideOps \cup ReadyOps, NEW x \in evaluating', x = top.mod
        PROVE  Awaits(x)'
    <3>1. CASE x \in suspended'
      BY <3>1 DEF Awaits
    <3>2. CASE \E f \in N : f.op \in ReadyOps /\ f.mod = x
      BY <1>6, <3>2 DEF Awaits, PlainlyBy
    <3> QED
      BY <1>3, <1>6, <2>1, <3>1, <3>2 DEF PlainlyBy
  <2>2. Leaves(N)
    BY <1>2, <1>3, <1>6, <2>1 DEF Leaves, PlainlyBy, SameGraph, EndOps
  <2> QED
    BY <1>2, <1>4, <2>2, TopAwaits
<1> QED
  BY <1>6, <1>7, <1>9, <1>10 DEF SettleInv, PlainlyBy

LEMMA CrashSettles ==
  ASSUME GraphInv, EvalInv, NothingFails, SettleInv, FinishCrashes
  PROVE  SettleInv'
<1>1. FinishStep
  BY DEF FinishStep
<1>2. /\ SameGraph /\ UNCHANGED <<host, isRootModule, hadNotifyHostReady, toEvaluate>>
  BY <1>1, FinishLeaves
<1>3. UNCHANGED <<evaluating, suspended, ended, promise, log, stack>>
  BY DEF FinishCrashes
<1>4. Positions' = Positions /\ InProgress' = InProgress
  BY <1>3 DEF Positions, InProgress
<1>5. Begun' = Begun /\ Ending' = Ending /\ Inside' = Inside /\ Tells' = Tells
  BY <1>3, <1>4 DEF Begun, Ending, Inside, Tells
<1>6. Pending' = Pending
  BY <1>2, <1>3, <1>5 DEF Pending, PendingOf, SameGraph
<1>7. AnnouncedBegun'
  BY <1>2, <1>4, <1>5 DEF SettleInv, AnnouncedBegun
<1>8. Awaiting'
  BY <1>3, <1>4, <1>5, <1>6 DEF SettleInv, Awaiting, Awaits
<1>9. EndsOnce'
  BY <1>3, <1>4 DEF SettleInv, EndsOnce
<1>10. Promised' /\ ReportedOnce' /\ Origins'
  BY <1>2, <1>3, <1>5, NothingSettles, SameOrigins DEF SettleInv
<1> QED
  BY <1>7, <1>8, <1>9, <1>10 DEF SettleInv

\* What a step that settles nothing makes of the promises and the reports, if the
\* module of the top has ended and yet has to tell so.
LEMMA StillEnding ==
  ASSUME Promised, ReportedOnce, UNCHANGED <<host, promise, log, isRootModule>>,
         NEW m, ended' = ended \cup {m}, Ending' = Ending \cup {m},
         m \in ended => m \in Ending
  PROVE  Promised' /\ ReportedOnce'
BY DEF Promised, ReportedOnce

\* A body ends: the module is about to tell its parents, or to be reported.
LEMMA SyncSettles ==
  ASSUME GraphInv, EvalInv, NothingFails, SettleInv, FinishSync
  PROVE  SettleInv'
<1>1. FinishStep
  BY DEF FinishStep
<1> DEFINE m == top.mod
           f == IF top.op = "FinishOwn" THEN Call("complete", m)
                ELSE Loop("telling", m, parentModuleList[m])
<1>2. /\ DataTypes /\ Depth > 0 /\ stack \in Seq(GoodFrames) /\ m \in Modules
      /\ SameGraph /\ UNCHANGED loadState /\ Bodies /\ CallsKnow
      /\ InProgress = Lower \cup {top} /\ parentModuleList[m] \in Seq(Modules)
  BY <1>1, FinishSucceeds, FinishLeaves DEF EvalInv, BodyInv, StackInv
<1>3. /\ Becomes(f) /\ UNCHANGED <<promise, log, suspended>> /\ ended' = ended \cup {m}
      /\ evaluating' = evaluating \ {m} /\ m \notin ended
      /\ top.op \in {"FinishOwn", "FinishWaited"}
  BY <1>2 DEF FinishSync, Evaluated, AtFinish, At, Bodies
<1>4. /\ f \in OtherFrames /\ f.mod = m /\ f.op \in EndOps /\ f.op \notin InsideOps
      /\ top.op = "FinishWaited" => f.op \in TellOps /\ f.rest = parentModuleList[m]
  BY <1>2, <1>3, FrameTypes DEF PlainOps, Call, Loop, EndOps, TellOps, InsideOps
<1> HIDE DEF f
<1>5. InProgress' = Lower \cup {f}
  BY <1>2, <1>3, <1>4, BecomesCalls DEF OtherFrames
<1>6. EndsOnce /\ Awaiting /\ Ending \subseteq ended
  BY <1>2 DEF SettleInv, Ending, EndingIn, CallsKnow, Knows, EndOps
<1>7. EndsOnce'
  BY <1>2, <1>3, <1>4, <1>6, BecomesEnds DEF OtherFrames, EndsAlone
<1>8. AnnouncedBegun' /\ Origins'
  BY <1>1, <1>5, FinishAsks
<1>9. Ending' = Ending \cup {m}
  BY <1>2, <1>3, <1>4, <1>5 DEF Ending, EndingIn, EndOps, TellOps
<1>10. Promised' /\ ReportedOnce'
  BY <1>2, <1>3, <1>9, StillEnding DEF SettleInv
<1>11. Awaiting'
  <2>1. top.op = "FinishOwn" => m \in Inside
    BY <1>2 DEF Inside, InsideIn, InsideOps
  <2>2. ASSUME NEW p \in Modules, m \in evaluating \ Inside, m \in childrenModuleSet[p]
        PROVE  <<m, p>> \in Tells'
    <3>1. top.op = "FinishWaited" /\ p \in ToSet(parentModuleList[m])
      BY <1>2, <1>3, <2>1, <2>2, ParentsOf
    <3> QED
      BY <1>2, <1>4, <1>5, <3>1 DEF Tells, TellsIn
  <2>3. top.op \notin TellOps /\ m \notin evaluating'
    BY <1>3 DEF TellOps
  <2> QED
    <3>1. Leaves({f})
      BY <1>2, <1>3, <1>4, <1>5, <2>2, <2>3 DEF Leaves, SameGraph
    <3> QED
      BY <1>2, <1>6, <3>1, TopAwaits
<1> QED
  BY <1>7, <1>8, <1>10, <1>11 DEF SettleInv

\* All parents have been told.
LEMMA ToldSettles ==
  ASSUME GraphInv, EvalInv, NothingFails, SettleInv, ParentsTold
  PROVE  SettleInv'
<1>1. FinishStep
  BY DEF FinishStep
<1> DEFINE f == Call("complete", top.mod)
<1>2. /\ DataTypes /\ Depth > 0 /\ stack \in Seq(GoodFrames) /\ top.mod \in Modules
      /\ SameGraph /\ UNCHANGED loadState /\ InProgress = Lower \cup {top}
  BY <1>1, FinishSucceeds, FinishLeaves
<1>3. /\ Becomes(f) /\ UNCHANGED <<promise, log, suspended, ended, evaluating>>
      /\ top.op = "telling" /\ top.rest = <<>>
  BY DEF ParentsTold, At
<1>4. /\ f \in OtherFrames /\ f.mod = top.mod /\ f.op = "complete"
  BY <1>2, FrameTypes DEF PlainOps, Call
<1> HIDE DEF f
<1>5. InProgress' = Lower \cup {f}
  BY <1>2, <1>3, <1>4, BecomesCalls DEF OtherFrames
<1>6. EndsOnce'
  BY <1>2, <1>3, <1>4, BecomesEnds DEF SettleInv, OtherFrames, EndsAlone, EndOps, TellOps
<1>7. AnnouncedBegun' /\ Origins'
  BY <1>1, <1>5, FinishAsks
<1>8. Ending' = Ending
  BY <1>2, <1>3, <1>4, <1>5 DEF Ending, EndingIn, EndOps, TellOps
<1>9. Promised' /\ ReportedOnce'
  BY <1>2, <1>3, <1>8, NothingSettles DEF SettleInv
<1>10. Awaiting'
  <2>1. Leaves({f})
    BY <1>2, <1>3, <1>4, <1>5 DEF Leaves, SameGraph, InsideOps, ReadyOps
  <2> QED
    BY <1>2, <2>1, TopAwaits DEF SettleInv
<1> QED
  BY <1>6, <1>7, <1>9, <1>10 DEF SettleInv

\* One parent is told.
LEMMA TellSettles ==
  ASSUME GraphInv, EvalInv, EvalInv', NothingFails, SettleInv, TellParent \/ FulfilledParent
  PROVE  SettleInv'
<1>1. FinishStep
  BY DEF FinishStep
<1> DEFINE p == Head(top.rest)
           op == IF top.op = "telling" THEN "FinishWaited" ELSE "nothingAwaited"
           g == Call(op, p)
<1>2. /\ DataTypes /\ Depth > 0 /\ stack \in Seq(GoodFrames) /\ top.mod \in Modules
      /\ SameGraph /\ UNCHANGED loadState /\ InProgress = Lower \cup {top}
      /\ top.rest \in Seq(Modules)
  BY <1>1, FinishSucceeds, FinishLeaves
<1>3. /\ UNCHANGED <<promise, log, suspended, ended, evaluating>>
      /\ top.op \in TellOps /\ top.rest # <<>>
      /\ \/ Calls(Onward, g)
         \/ Becomes(Onward) /\ (awaitedModules'[p] # 0 \/ p \notin evaluating)
  BY DEF TellParent, FulfilledParent, At, TellOps
<1>4. /\ p \in Modules /\ ToSet(top.rest) = {p} \cup ToSet(Tail(top.rest))
      /\ Onward \in GoodFrames /\ Onward.op = top.op /\ Onward.mod = top.mod
      /\ Onward.rest = Tail(top.rest)
  BY <1>2, <1>3, HeadTail, OnwardFacts DEF TellOps
<1>5. g \in GoodFrames /\ g.mod = p /\ g.op \in ReadyOps
  BY <1>4, FrameTypes DEF PlainOps, Call, ReadyOps, OtherFrames
<1> HIDE DEF p, g
<1>6. \/ InProgress' = Lower \cup {Onward, g}
      \/ /\ InProgress' = Lower \cup {Onward}
         /\ awaitedModules'[p] # 0 \/ p \notin evaluating
  BY <1>2, <1>3, <1>4, <1>5, CallsCalls, BecomesCalls
<1>7. ReadyOps \cap (EndOps \cup InsideOps) = {} /\ TellOps \cap (InsideOps \cup ReadyOps) = {}
  BY DEF ReadyOps, EndOps, InsideOps, TellOps
<1>8. EndsOnce'
  BY <1>2, <1>3, <1>4, <1>5, <1>7, BecomesEnds, CallsEnds DEF SettleInv, EndsAlone, EndOps
<1>9. AnnouncedBegun' /\ Origins'
  <2>1. CASE InProgress' = Lower \cup {Onward, g}
    BY <1>1, <2>1, FinishAsks
  <2>2. CASE InProgress' = Lower \cup {Onward}
    BY <1>1, <2>2, FinishAsks
  <2> QED
    BY <1>6, <2>1, <2>2
<1>10. Ending' = Ending
  BY <1>2, <1>4, <1>5, <1>6, <1>7 DEF Ending, EndingIn
<1>11. Promised' /\ ReportedOnce'
  BY <1>2, <1>3, <1>10, NothingSettles DEF SettleInv
<1>12. Inside' = Inside
  BY <1>2, <1>3, <1>4, <1>5, <1>6, <1>7 DEF Inside, InsideIn
<1>13. \A x, y : y # p /\ <<x, y>> \in Tells => <<x, y>> \in Tells'
  BY <1>2, <1>4, <1>6 DEF Tells, TellsIn
<1>14. \A x \in Modules \ {p} : Pending[x] \subseteq Pending'[x]
  BY <1>2, <1>3, <1>12, <1>13 DEF Pending, PendingOf, SameGraph
<1>15. Awaiting'
  <2> SUFFICES ASSUME NEW x \in evaluating PROVE Awaits(x)'
    BY <1>3 DEF Awaiting
  <2>1. x \in Modules /\ Awaits(x)
    BY <1>2 DEF DataTypes, SettleInv, Awaiting
  <2>2. CASE x = p
    <3>1. CASE g \in InProgress'
      BY <1>5, <2>2, <3>1 DEF Awaits
    <3>2. CASE awaitedModules'[p] # 0
      <4>1. awaitedModules'[p] = Cardinality(Pending'[p])
        BY <1>4 DEF EvalInv, BodyInv, Counted
      <4>2. Pending'[p] # {}
        BY <3>2, <4>1, FS_EmptySet
      <4> QED
        BY <2>2, <4>2 DEF Awaits
    <3> QED
      BY <1>6, <2>2, <3>1, <3>2
  <2>3. CASE x # p
    <3>1. \A f \in InProgress : f.op \in ReadyOps => f \in InProgress'
      BY <1>2, <1>3, <1>6, <1>7
    <3> QED
      BY <1>3, <1>12, <1>14, <2>1, <2>3, <3>1 DEF Awaits
  <2> QED
    BY <2>2, <2>3
<1> QED
  BY <1>8, <1>9, <1>11, <1>15 DEF SettleInv

\* The module of the top has told everybody: an import() of it is fulfilled, a
\* root is reported.
LEMMA SettlesOne ==
  ASSUME DataTypes, Promised, ReportedOnce, NEW m \in ended, m \in Modules, m \in Ending,
         Ending' = Ending \ {m}, UNCHANGED <<host, isRootModule, ended>>,
         promise' = promise \ {m},
         \/ log' = Reported(Settled(m, "fulfilled"), m, None)
         \/ log' = IF m \in promise THEN Settled(m, "fulfilled") ELSE Reported(log, m, None)
  PROVE  Promised' /\ ReportedOnce'
<1>1. log \in Logs
  BY DEF DataTypes
<1>2. /\ log'.fulfilled = log.fulfilled \cup ({m} \cap promise)
      /\ \A x \in Modules \ {m} : log'.reports[x] = log.reports[x]
      /\ m \notin promise => log'.reports[m] = IF m \in isRootModule
                                               THEN Append(log.reports[m], None)
                                               ELSE log.reports[m]
  BY <1>1 DEF Reported, Settled, Logs
<1>3. Promised'
  BY <1>2 DEF Promised
<1>4. ASSUME NEW x \in Modules \ host.imported
      PROVE  log'.reports[x] = IF x \in (isRootModule \cap ended) \ Ending' THEN <<None>> ELSE <<>>
  <2>1. CASE x # m
    BY <1>2, <2>1 DEF ReportedOnce
  <2>2. CASE x = m
    <3>1. m \notin promise /\ log.reports[m] = <<>>
      BY <1>4, <2>2 DEF Promised, ReportedOnce
    <3>2. Append(<<>>, None) = <<None>>
      OBVIOUS
    <3> QED
      BY <1>2, <2>2, <3>1, <3>2
  <2> QED
    BY <2>1, <2>2
<1> QED
  BY <1>3, <1>4 DEF ReportedOnce

LEMMA EndSettles ==
  ASSUME GraphInv, EvalInv, NothingFails, SettleInv, Complete \/ FulfilledEnds
  PROVE  SettleInv'
<1>1. FinishStep
  BY DEF FinishStep
<1>2. /\ DataTypes /\ Depth > 0 /\ stack \in Seq(GoodFrames) /\ top.mod \in Modules
      /\ SameGraph /\ UNCHANGED loadState /\ InProgress = Lower \cup {top} /\ CallsKnow
  BY <1>1, FinishSucceeds, FinishLeaves DEF EvalInv, StackInv
<1>3. /\ Return /\ UNCHANGED <<suspended, ended, evaluating>>
      /\ top.op \in EndOps /\ (top.op \notin TellOps \/ top.rest = <<>>)
      /\ promise' = promise \ {top.mod}
      /\ \/ log' = Reported(Settled(top.mod, "fulfilled"), top.mod, None)
         \/ log' = IF top.mod \in promise THEN Settled(top.mod, "fulfilled")
                   ELSE Reported(log, top.mod, None)
  BY DEF Complete, FulfilledEnds, At, EndOps, TellOps, SettleFlags
<1>4. InProgress' = Lower /\ EndsOnce' /\ top.mod \notin Ending'
  BY <1>2, <1>3, ReturnCalls, ReturnEnds DEF SettleInv
<1>5. top.mod \in ended /\ top.mod \in Ending /\ Ending' = Ending \ {top.mod}
  BY <1>2, <1>3, <1>4 DEF Ending, EndingIn, CallsKnow, Knows, EndOps
<1>6. AnnouncedBegun' /\ Origins'
  <2> DEFINE N == {}
  <2>1. InProgress' = Lower \cup N
    BY <1>4
  <2> HIDE DEF N
  <2> QED
    BY <1>1, <2>1, FinishAsks
<1>7. Promised' /\ ReportedOnce'
  BY <1>2, <1>3, <1>5, SettlesOne DEF SettleInv
<1>8. Awaiting'
  <2>1. EndOps \cap (InsideOps \cup ReadyOps) = {}
    BY DEF EndOps, TellOps, InsideOps, ReadyOps
  <2>2. Bodies /\ top.mod \notin evaluating
    BY <1>5 DEF EvalInv, BodyInv, Bodies
  <2>3. Leaves({})
    BY <1>2, <1>3, <1>4, <2>1, <2>2 DEF Leaves, SameGraph
  <2> QED
    BY <1>2, <2>3, TopAwaits DEF SettleInv
<1> QED
  BY <1>4, <1>6, <1>7, <1>8 DEF SettleInv

LEMMA FinishSettleInv ==
  ASSUME GraphInv, EvalInv, EvalInv', NothingFails, SettleInv, FinishStep
  PROVE  SettleInv'
BY FinishSucceeds, CrashSettles, PlainFinishSettles, SyncSettles, ToldSettles, TellSettles,
   EndSettles

-----------------------------------------------------------------------------
(* Loading settles nothing.                                                *)

\* What loading leaves alone, if nothing fails, and what it adds to.
LEMMA LoadAdds ==
  ASSUME GraphInv, EvalInv, NothingFails, AnnounceInv, LoadStep
  PROVE  /\ UNCHANGED <<suspended, host.imported, host.loaded, log.reports, log.fulfilled>>
         /\ hadNotifyHostReady' \ hadNotifyHostReady \subseteq toEvaluate'
         /\ toEvaluate \subseteq toEvaluate'
         /\ isRootModule' \subseteq isRootModule \cup (Modules \ wasParsed)
         /\ \A m \in Modules : childrenModuleSet[m] \subseteq childrenModuleSet'[m]
<1>1. /\ Types /\ DataTypes /\ top.mod \in Modules /\ host \in Hosts /\ log \in Logs
      /\ top.rest \in Seq(Modules)
  BY LoadCalls DEF DataTypes
<1>2. \/ ParseSource \/ ResolveChild \/ ResolveEnds \/ ParseReturns
      \/ NotifyParentsAsNeeded \/ NotifyParent \/ NotifyEnds \/ OnChildModuleReady
      \/ Prepare \/ Prepared
  BY LoadSucceeds DEF LoadStep
<1>3. suspended' = suspended
  BY <1>2 DEF ParseSource, ResolveChild, ResolveEnds, ParseReturns,
     NotifyParentsAsNeeded, NotifyParent, NotifyEnds, OnChildModuleReady, Prepare, Prepared
<1>4. host'.imported = host.imported /\ host'.loaded = host.loaded
  <2>1. CASE ResolveChild
    <3>1. Head(top.rest) \in Modules
      BY <2>1, SourceCalls
    <3>2. host' = FetchImportedModule(host, Head(top.rest))
      BY <2>1 DEF ResolveChild
    <3> QED
      BY <1>1, <3>1, <3>2, FetchFacts
  <2>2. CASE ParseReturns
    BY <1>1, <2>2 DEF ParseReturns, Hosts
  <2>3. CASE ~ResolveChild /\ ~ParseReturns
    BY <1>2, <2>3 DEF ParseSource, ResolveEnds, NotifyParentsAsNeeded, NotifyParent,
       NotifyEnds, OnChildModuleReady, Prepare, Prepared
  <2> QED
    BY <2>1, <2>2, <2>3
<1>5. /\ log'.reports = log.reports /\ log'.fulfilled = log.fulfilled
      /\ hadNotifyHostReady' \ hadNotifyHostReady \subseteq toEvaluate'
      /\ toEvaluate \subseteq toEvaluate'
  <2>1. CASE UNCHANGED <<linkVars, readyVars, log>>
    BY <2>1
  <2>2. CASE Prepared
    BY <1>1, <2>2 DEF Prepared, Announced, AnnounceFlags, Logs
  <2> QED
    BY <2>1, <2>2, LoadLeaves
<1>6. isRootModule' \subseteq isRootModule \cup (Modules \ wasParsed)
  <2>1. CASE ParseSource
    <3>1. top.mod \notin wasParsed
      BY <2>1, SourceCalls
    <3> QED
      BY <1>1, <2>1, <3>1 DEF ParseSource
  <2>2. CASE ~ParseSource
    BY <1>2, <2>2 DEF ResolveChild, ResolveEnds, ParseReturns,
       NotifyParentsAsNeeded, NotifyParent, NotifyEnds, OnChildModuleReady, Prepare, Prepared
  <2> QED
    BY <2>1, <2>2
<1>7. ASSUME NEW m \in Modules PROVE childrenModuleSet[m] \subseteq childrenModuleSet'[m]
  <2>1. CASE ResolveChild
    BY <1>1, <2>1 DEF ResolveChild, SetParent, DataTypes
  <2>2. CASE ~ResolveChild
    BY <1>2, <2>2 DEF ParseSource, ResolveEnds, ParseReturns,
       NotifyParentsAsNeeded, NotifyParent, NotifyEnds, OnChildModuleReady, Prepare, Prepared
  <2> QED
    BY <2>1, <2>2
<1> QED
  BY <1>3, <1>4, <1>5, <1>6, <1>7

\* The modules that have ended have been parsed.
LEMMA EndedParsed ==
  ASSUME GraphInv, EvalInv
  PROVE  ended \subseteq wasParsed /\ wasParsed \subseteq Modules
<1>1. Begun \subseteq Whole /\ Whole \subseteq wasParsed /\ wasParsed \subseteq Modules
  BY SettlingFacts DEF GraphInv, Types, DataTypes, EvalInv, BodyInv, Bodies
<1> QED
  BY <1>1 DEF Begun

\* What is requested is found along the imports of a module that the host asked for.
LEMMA LoadOrigins ==
  ASSUME GraphInv, EvalInv, NothingFails, AnnounceInv, Promised, Origins,
         LoadStep
  PROVE  Origins'
<1>1. /\ Types /\ DataTypes /\ top.mod \in Modules /\ host \in Hosts /\ top.rest \in Seq(Modules)
      /\ top \in InProgress /\ world \in Worlds /\ world' = world /\ promise' = promise
      /\ Cone' = Cone /\ Len(stack) \in Positions /\ top = stack[Len(stack)]
  BY LoadCalls, LoadLeaves, SameWorld DEF DataTypes
<1>2. UNCHANGED <<host.imported, host.loaded>>
  BY LoadAdds
<1>3. \/ ParseSource \/ ResolveChild \/ ResolveEnds \/ ParseReturns
      \/ NotifyParentsAsNeeded \/ NotifyParent \/ NotifyEnds \/ OnChildModuleReady
      \/ Prepare \/ Prepared
  BY LoadSucceeds DEF LoadStep
<1>4. CASE ParseSource
  <2>1. /\ UNCHANGED <<host, parentModuleList>> /\ wasParsed' \subseteq wasParsed \cup {top.mod}
        /\ isRootModule' = IF parentModuleList[top.mod] = <<>> /\ top.mod \notin promise
                           THEN isRootModule \cup {top.mod} ELSE isRootModule
    BY <1>4, ParseSourceMove DEF ParseSource
  <2>2. top.mod \in promise => top.mod \in host.imported
    BY DEF Promised
  <2> QED
    BY <1>1, <1>2, <2>1, <2>2 DEF Origins
<1>5. CASE ResolveChild
  <2> DEFINE c == Head(top.rest)
             m == top.mod
  <2>1. /\ c \in Modules /\ top.op = "resolve" /\ UNCHANGED <<wasParsed, isRootModule>>
        /\ host' = FetchImportedModule(host, c) /\ SetParent(c, m) /\ top.rest # <<>>
    BY <1>5, SourceCalls DEF ResolveChild
  <2>2. host'.created = host.created \cup {c}
    BY <1>1, <2>1, FetchFacts
  <2>3. m \in host.created
    BY <1>1, <2>1 DEF EvalInv, Requesting, AnnounceInv, Fetched
  <2>4. c \in Imports(m)
    <3>1. ToSet(top.rest) \subseteq Imports(m)
      BY <1>1, <2>1 DEF GraphInv, LoadInv, Resolving
    <3> QED
      BY <1>1, <2>1, <3>1, HeadTail
  <2>5. PICK r \in host.loaded \cup host.imported : m \in Cone[r]
    BY <2>3 DEF Origins
  <2>6. c \in Cone[r]
    <3>1. r \in Modules
      BY <1>1, <2>5 DEF Hosts
    <3> QED
      BY <1>1, <2>4, <2>5, <3>1, ConeFacts
  <2>7. \A x \in Modules : parentModuleList[x] # <<>> => parentModuleList'[x] # <<>>
    <3>1. parentModuleList \in [Modules -> Seq(Modules)]
      BY <1>1 DEF DataTypes
    <3>2. ASSUME NEW s \in Seq(Modules) PROVE Append(s, m) # <<>>
      <4>1. Append(s, m) \in Seq(Modules) /\ m \in ToSet(Append(s, m))
        BY <1>1, AppendFacts
      <4> QED
        BY <4>1, ToSetEmpty
    <3> QED
      BY <1>1, <2>1, <3>1, <3>2 DEF SetParent
  <2>8. wasParsed \subseteq Modules
    BY <1>1 DEF DataTypes
  <2> QED
    BY <1>1, <1>2, <2>1, <2>2, <2>5, <2>6, <2>7, <2>8 DEF Origins
<1>6. CASE ~ParseSource /\ ~ResolveChild
  <2>1. UNCHANGED <<wasParsed, isRootModule, parentModuleList>> /\ host'.created = host.created
    <3>1. CASE ParseReturns
      BY <1>1, <3>1 DEF ParseReturns, Hosts
    <3>2. CASE ~ParseReturns
      BY <1>3, <1>6, <3>2 DEF ResolveEnds, NotifyParentsAsNeeded, NotifyParent,
         NotifyEnds, OnChildModuleReady, Prepare, Prepared
    <3> QED
      BY <3>1, <3>2
  <2> QED
    BY <1>1, <1>2, <2>1 DEF Origins
<1> QED
  BY <1>4, <1>5, <1>6

LEMMA LoadSettleInv ==
  ASSUME GraphInv, EvalInv, NothingFails, AnnounceInv, SettleInv, LoadStep
  PROVE  SettleInv'
<1>1. /\ UNCHANGED <<world, promise, evaluating, ended>>
      /\ UNCHANGED <<suspended, host.imported, host.loaded, log.reports, log.fulfilled>>
      /\ hadNotifyHostReady' \ hadNotifyHostReady \subseteq toEvaluate'
      /\ toEvaluate \subseteq toEvaluate'
      /\ isRootModule' \subseteq isRootModule \cup (Modules \ wasParsed)
      /\ isRootModule \subseteq isRootModule'
      /\ \A m \in Modules : childrenModuleSet[m] \subseteq childrenModuleSet'[m]
      /\ evaluating \subseteq Modules
  <2>1. isRootModule \subseteq isRootModule'
    BY LoadSucceeds DEF LoadStep, ParseSource, ResolveChild, ResolveEnds, ParseReturns,
       NotifyParentsAsNeeded, NotifyParent, NotifyEnds, OnChildModuleReady, Prepare, Prepared
  <2> QED
    BY <2>1, LoadLeaves, LoadAdds DEF GraphInv, Types, DataTypes
<1>2. /\ \A f \in InProgress : f.op \in LoadOps
      /\ \A f \in InProgress' : f.op \in LoadOps
  BY LoadStepLoads DEF AllLoad, InProgress
<1>3. LoadOps \cap (AskOps \cup ReadyOps \cup EndOps \cup InsideOps \cup TellOps) = {}
  BY DEF LoadOps, AskOps, ReadyOps, EndOps, InsideOps, TellOps
<1>4. /\ Ending = {} /\ Ending' = {} /\ EndsOnce' /\ Inside = {} /\ Inside' = {}
      /\ Tells = {} /\ Tells' = {} /\ Begun' = Begun
  BY <1>1, <1>2, <1>3 DEF EndsOnce, Ending, EndingIn, Inside, InsideIn, Tells, TellsIn, Begun,
     InProgress
<1>5. AnnouncedBegun'
  BY <1>1, <1>2, <1>3, <1>4 DEF SettleInv, AnnouncedBegun
<1>6. Awaiting'
  <2>1. \A p \in Modules : Pending[p] \subseteq Pending'[p]
    BY <1>1, <1>4 DEF Pending, PendingOf
  <2>2. \A x \in evaluating : x \in suspended \/ Pending[x] # {}
    BY <1>2, <1>3, <1>4 DEF SettleInv, Awaiting, Awaits
  <2> QED
    BY <1>1, <2>1, <2>2 DEF Awaiting, Awaits
<1>7. Promised'
  BY <1>1, <1>4 DEF SettleInv, Promised
<1>8. ReportedOnce'
  <2>1. isRootModule' \cap ended = isRootModule \cap ended
    BY <1>1, EndedParsed
  <2> QED
    BY <1>1, <1>4, <2>1 DEF SettleInv, ReportedOnce
<1>9. Origins'
  BY LoadOrigins DEF SettleInv
<1> QED
  BY <1>4, <1>5, <1>6, <1>7, <1>8, <1>9 DEF SettleInv
-----------------------------------------------------------------------------
(* Messages.                                                               *)

\* When no call is in progress.
LEMMA IdleSettles ==
  ASSUME GraphInv, EvalInv, SettleInv, Idle
  PROVE  /\ InProgress = {} /\ Inside = {} /\ Tells = {} /\ Ending = {}
         /\ hadNotifyHostReady \subseteq toEvaluate \cup Begun
         /\ \A m \in evaluating : m \in suspended \/ Pending[m] # {}
         /\ promise \cap ended = {}
<1>1. InProgress = {} /\ Inside = {} /\ Tells = {}
  BY IdleFlat
<1>2. Ending = {}
  BY <1>1, NoneEnds
<1> QED
  BY <1>1, <1>2 DEF SettleInv, AnnouncedBegun, Awaiting, Awaits, Promised

\* A message that begins a call f, or none, and leaves bodies and their parents alone.
LEMMA MessageWaits ==
  ASSUME GraphInv, EvalInv, SettleInv, Idle,
         UNCHANGED <<evaluating, ended, suspended, childrenModuleSet>>,
         \A f \in InProgress' : f.op \in {"ParseSource", "ModuleEvaluation"}
  PROVE  /\ Awaiting' /\ EndsOnce' /\ Ending' = {} /\ Ending = {} /\ Begun' = Begun
<1>1. /\ Inside' = {} /\ Tells' = {} /\ EndsOnce' /\ Ending' = {}
  BY DEF Inside, InsideIn, InsideOps, Tells, TellsIn, TellOps, EndsOnce, Ending, EndingIn,
     EndOps, InProgress
<1>2. Pending' = Pending /\ Begun' = Begun
  BY <1>1, IdleSettles DEF Pending, PendingOf, Begun
<1>3. Awaiting'
  BY <1>2, IdleSettles DEF Awaiting, Awaits
<1> QED
  BY <1>1, <1>2, <1>3, IdleSettles

LEMMA SourceSettles ==
  ASSUME GraphInv, EvalInv, NothingFails, SettleInv, NEW m \in Modules,
         LoadRoot(m) \/ LoadImported(m)
  PROVE  SettleInv'
<1>1. /\ Idle /\ JsParseModuleSource(m) /\ SameGraph
      /\ UNCHANGED <<isRootModule, promise, evaluating, ended, suspended, log,
                     hadNotifyHostReady, toEvaluate>>
  BY DEF LoadRoot, LoadImported, SameGraph
<1>2. InProgress = {} /\ DataTypes /\ host \in Hosts /\ world \in Worlds
  BY <1>1, IdleFlat DEF DataTypes
<1>3. \A f \in InProgress' : f.op \in {"ParseSource", "ModuleEvaluation"}
  <2> DEFINE f == Call("ParseSource", m)
  <2>1. f \in GoodFrames /\ f.op = "ParseSource"
    BY FrameTypes DEF LoadOps, Call
  <2>2. UNCHANGED stack \/ Begins(f)
    BY <1>1 DEF JsParseModuleSource
  <2> HIDE DEF f
  <2>3. InProgress' \subseteq {f}
    BY <1>2, <2>1, <2>2, BeginsCalls DEF InProgress, Positions
  <2> QED
    BY <2>1, <2>3
<1>4. Awaiting' /\ EndsOnce' /\ Ending' = Ending /\ Begun' = Begun
  BY <1>1, <1>3, MessageWaits DEF SameGraph
<1>5. AnnouncedBegun'
  BY <1>1, <1>4, IdleSettles DEF AnnouncedBegun
<1>6. /\ host'.imported = host.imported
      /\ \/ host'.created = host.created /\ host'.loaded = host.loaded
         \/ /\ host'.created = host.created \cup {m} /\ host'.loaded = host.loaded \cup {m}
            /\ m \in world.roots
  BY <1>2 DEF LoadRoot, LoadImported, Hosts
<1>7. Promised' /\ ReportedOnce'
  BY <1>1, <1>4, <1>6 DEF SettleInv, Promised, ReportedOnce
<1>8. Origins'
  <2>1. m \in Cone[m] /\ Cone' = Cone
    BY <1>1, <1>2, ConeFacts, SameWorld DEF SameGraph
  <2> QED
    BY <1>1, <1>6, <2>1 DEF SettleInv, Origins, SameGraph
<1> QED
  BY <1>4, <1>5, <1>7, <1>8 DEF SettleInv

LEMMA ImportSettlesInv ==
  ASSUME GraphInv, EvalInv, NothingFails, SettleInv, NEW m \in Modules,
         ImportDone(m) \/ ImportWaits(m)
  PROVE  SettleInv'
<1>1. /\ Idle /\ SameGraph /\ m \in world.dynamic \ host.imported
      /\ UNCHANGED <<isRootModule, evaluating, ended, suspended, stack>>
      /\ host' = FetchImportedModule([host EXCEPT !.imported = @ \cup {m}], m)
  BY DEF ImportDone, ImportWaits, ImportBegins, ImportSettles, SameGraph
<1>2. /\ InProgress = {} /\ DataTypes /\ host \in Hosts /\ world \in Worlds /\ log \in Logs
      /\ \A x \in Modules : errorObject[x] = None
  BY <1>1, IdleFlat DEF DataTypes
<1>3. InProgress' = {}
  BY <1>1, <1>2 DEF InProgress, Positions
<1>4. Awaiting' /\ EndsOnce' /\ Ending' = {} /\ Begun' = Begun
  BY <1>1, <1>3, MessageWaits DEF SameGraph
<1>5. AnnouncedBegun'
  <2>1. UNCHANGED readyVars \/ AnnounceFlags(m)
    BY DEF ImportDone, ImportWaits, ImportSettles, NothingFails, Broken
  <2> QED
    BY <1>1, <1>4, <2>1, IdleSettles DEF AnnouncedBegun, AnnounceFlags
<1>6. /\ host'.imported = host.imported \cup {m} /\ host'.created = host.created \cup {m}
      /\ host'.loaded = host.loaded
  <2> DEFINE h == [host EXCEPT !.imported = @ \cup {m}]
  <2>1. /\ h \in Hosts /\ h.created = host.created /\ h.loaded = host.loaded
        /\ h.imported = host.imported \cup {m} /\ host' = FetchImportedModule(h, m)
    BY <1>1, <1>2 DEF Hosts
  <2> HIDE DEF h
  <2> QED
    BY <2>1, FetchFacts
<1>7. log'.reports = log.reports
  BY <1>2 DEF ImportDone, ImportWaits, ImportSettles, Announced, NothingFails, Broken, Logs
<1>8. /\ promise \subseteq promise' \/ m \notin promise
      /\ \/ promise' = promise \ {m} /\ log'.fulfilled = log.fulfilled \cup {m}
         \/ promise' = promise \cup {m} /\ log'.fulfilled = log.fulfilled /\ m \notin wasEvaluated
  <2>1. m \notin promise
    BY <1>1 DEF SettleInv, Promised
  <2>2. CASE ImportDone(m)
    BY <1>2, <2>1, <2>2 DEF ImportDone, ImportSettles, Logs
  <2>3. CASE ImportWaits(m)
    BY <1>2, <2>1, <2>3 DEF ImportWaits, IsDone, Announced, NothingFails, Broken, Logs
  <2> QED
    BY <2>1, <2>2, <2>3
<1>9. wasEvaluated = ended
  BY DEF EvalInv, BodyInv, Bodies
<1>10. Promised'
  BY <1>1, <1>4, <1>6, <1>8, <1>9, IdleSettles DEF SettleInv, Promised
<1>11. ReportedOnce'
  BY <1>1, <1>4, <1>6, <1>7, IdleSettles DEF SettleInv, ReportedOnce
<1>12. Origins'
  <2>1. m \in Cone[m] /\ Cone' = Cone
    BY <1>1, <1>2, ConeFacts, SameWorld DEF SameGraph
  <2> QED
    BY <1>1, <1>6, <2>1 DEF SettleInv, Origins, SameGraph
<1> QED
  BY <1>4, <1>5, <1>10, <1>11, <1>12 DEF SettleInv

LEMMA EvaluateMessageSettles ==
  ASSUME GraphInv, EvalInv, NothingFails, AnnounceInv, SettleInv, NEW m \in Modules, Evaluate(m)
  PROVE  SettleInv'
<1>1. /\ Idle /\ SameGraph /\ toEvaluate' = toEvaluate \ {m}
      /\ UNCHANGED <<isRootModule, evaluating, ended, suspended, log, host, promise,
                     hadNotifyHostReady>>
  BY DEF Evaluate, SameGraph
<1>2. InProgress = {}
  BY <1>1, IdleFlat
<1> DEFINE f == Call("ModuleEvaluation", m)
<1>3. f \in GoodFrames /\ f.op = "ModuleEvaluation" /\ f.mod = m
  BY FrameTypes DEF PlainOps, OtherFrames, Call
<1>4. Begins(f)
  BY DEF Evaluate, AnnounceInv, Fetched
<1> HIDE DEF f
<1>5. InProgress' = {f}
  BY <1>3, <1>4, BeginsCalls
<1>6. Awaiting' /\ EndsOnce' /\ Ending' = Ending /\ Begun' = Begun
  BY <1>1, <1>3, <1>5, MessageWaits DEF SameGraph
<1>7. AnnouncedBegun'
  BY <1>1, <1>3, <1>5, <1>6, IdleSettles DEF AnnouncedBegun, AskOps
<1>8. Promised' /\ ReportedOnce' /\ Origins'
  BY <1>1, <1>6, NothingSettles, SameOrigins DEF SettleInv
<1> QED
  BY <1>6, <1>7, <1>8 DEF SettleInv

\* An asynchronous body ends: the module is about to tell its parents.
LEMMA AsyncReturnsSettles ==
  ASSUME GraphInv, EvalInv, NothingFails, SettleInv, NEW m \in Modules, AsyncBodyReturns(m)
  PROVE  SettleInv'
<1>1. /\ Idle /\ SameGraph /\ suspended' = suspended \ {m} /\ evaluating' = evaluating \ {m}
      /\ ended' = ended \cup {m} /\ m \in suspended
      /\ UNCHANGED <<isRootModule, log, host, promise, hadNotifyHostReady, toEvaluate>>
  BY DEF AsyncBodyReturns, Evaluated, SameGraph
<1>2. InProgress = {} /\ DataTypes
  BY <1>1, IdleFlat
<1> DEFINE f == Loop("fulfilled", m, parentModuleList[m])
<1>3. parentModuleList[m] \in Seq(Modules)
  BY <1>2 DEF DataTypes
<1>4. /\ f \in GoodFrames /\ f.op = "fulfilled" /\ f.mod = m /\ f.rest = parentModuleList[m]
  BY <1>3, FrameTypes DEF PlainOps, OtherFrames, Loop
<1>5. Begins(f)
  BY DEF AsyncBodyReturns
<1> HIDE DEF f
<1>6. InProgress' = {f} /\ Positions' = {1}
  BY <1>4, <1>5, BeginsCalls
<1>7. m \in evaluating /\ m \notin ended
  BY <1>1 DEF EvalInv, BodyInv, Bodies
<1>8. Begun \subseteq Begun' /\ Ending' = Ending \cup {m} /\ EndsOnce'
  BY <1>1, <1>4, <1>6, IdleSettles DEF Begun, Ending, EndingIn, EndOps, TellOps, EndsOnce
<1>9. AnnouncedBegun'
  BY <1>1, <1>8, IdleSettles DEF AnnouncedBegun
<1>10. Inside' = {}
  BY <1>4, <1>6 DEF Inside, InsideIn, InsideOps
<1>11. \A p \in Modules : Pending[p] \subseteq Pending'[p]
  <2> SUFFICES ASSUME NEW p \in Modules, NEW c \in childrenModuleSet[p], c \in evaluating
               PROVE  c \in evaluating' \/ <<c, p>> \in Tells'
    BY <1>1, <1>10, IdleSettles DEF Pending, PendingOf, SameGraph
  <2>1. c = m => p \in ToSet(f.rest)
    BY <1>4, ParentsOf
  <2> QED
    BY <1>1, <1>4, <1>6, <2>1 DEF Tells, TellsIn, TellOps
<1>12. Awaiting'
  <2>1. evaluating \subseteq Modules
    BY <1>2 DEF DataTypes
  <2> QED
    BY <1>1, <1>11, <2>1, IdleSettles DEF Awaiting, Awaits
<1>13. Promised' /\ ReportedOnce' /\ Origins'
  BY <1>1, <1>7, <1>8, StillEnding, SameOrigins DEF SettleInv
<1> QED
  BY <1>8, <1>9, <1>12, <1>13 DEF SettleInv

LEMMA MessageSettles ==
  ASSUME GraphInv, EvalInv, NothingFails, AnnounceInv, SettleInv, NEW m \in Modules, Message(m)
  PROVE  SettleInv'
<1>1. ~OnHostException(m) /\ ~AsyncBodyThrows(m) /\ ~ImportRefused(m) /\ ~ImportCrashes(m)
  BY DEF OnHostException, AsyncBodyThrows, ImportRefused, ImportCrashes, NothingFails, Broken
<1> QED
  BY <1>1, SourceSettles, ImportSettlesInv, EvaluateMessageSettles, AsyncReturnsSettles
  DEF Message
-----------------------------------------------------------------------------
(* What has been asked for ends, is fulfilled and is reported.             *)

LEMMA InitSettles ==
  ASSUME Init
  PROVE  SettleInv
<1>1. InProgress = {} /\ Positions = {}
  BY DEF Init, InProgress, Positions
<1>2. EndsOnce /\ Ending = {}
  BY <1>1, NoneEnds
<1> QED
  BY <1>2 DEF Init, SettleInv, AnnouncedBegun, Awaiting, Promised, ReportedOnce, Origins

LEMMA SameSettleInv ==
  ASSUME SettleInv, UNCHANGED vars
  PROVE  SettleInv'
<1>1. /\ SameGraph /\ InProgress' = InProgress /\ Positions' = Positions /\ Begun' = Begun
      /\ UNCHANGED <<data, stack, thrown>>
  BY DEF vars, SameGraph, InProgress, Positions, Begun
<1>2. Inside' = Inside /\ Tells' = Tells /\ Ending' = Ending
  BY <1>1 DEF Inside, Tells, Ending
<1>3. Pending' = Pending
  BY <1>1, <1>2 DEF Pending, PendingOf
<1>4. Awaiting'
  BY <1>1, <1>2, <1>3 DEF SettleInv, Awaiting, Awaits
<1>5. AnnouncedBegun' /\ EndsOnce'
  BY <1>1 DEF SettleInv, AnnouncedBegun, EndsOnce
<1>6. Promised' /\ ReportedOnce' /\ Origins'
  BY <1>1, <1>2, NothingSettles, SameOrigins DEF SettleInv
<1> QED
  BY <1>4, <1>5, <1>6 DEF SettleInv

LEMMA NextSettles ==
  ASSUME GraphInv, EvalInv, EvalInv', NothingFails, AnnounceInv, SettleInv, [Next]_vars
  PROVE  SettleInv'
BY LoadSettleInv, EvaluateSettleInv, FinishSettleInv, MessageSettles, SameSettleInv DEF Next

\* If nothing fails, what has been announced is evaluated, what is evaluated waits
\* for a body that is suspended or for a module that waits itself, and a module
\* that has ended settles its import() or is reported, once.
THEOREM SettleInvariant == Spec => [](NothingFails => SettleInv)
<1> DEFINE IInv == GraphInv /\ (NothingFails => EvalInv /\ AnnounceInv /\ SettleInv)
<1>1. Init => IInv
  BY InitGraph, InitEval, InitAnnounces, InitSettles
<1>2. IInv /\ [Next]_vars => IInv'
  <2> SUFFICES ASSUME GraphInv, NothingFails => EvalInv /\ AnnounceInv /\ SettleInv, [Next]_vars
               PROVE  IInv'
    OBVIOUS
  <2>1. world' = world
    BY WorldStep DEF vars, data
  <2>2. NothingFails' = NothingFails
    BY <2>1 DEF NothingFails, Broken
  <2> QED
    BY <2>2, NextGraph, NextEval, NextAnnounces, NextSettles
<1>3. IInv => (NothingFails => SettleInv)
  OBVIOUS
<1> QED
  BY <1>1, <1>2, <1>3, PTL DEF Spec

\* Modules that each import one of them lie on a cycle, or lead to one.
LEMMA NoEndlessImports ==
  ASSUME world \in Worlds, NEW S \in SUBSET Modules, S # {},
         \A x \in S : \E y \in S : y \in Imports(x)
  PROVE  \E x \in S : OnCycle(x)
<1> SUFFICES ASSUME \A x \in S : ~OnCycle(x) PROVE FALSE
  OBVIOUS
<1> DEFINE T == {Reach[x] : x \in S}
           R == StrictSubsetOrdering(Modules)
<1>1. T \subseteq SUBSET Modules /\ T # {}
  BY DependenciesType DEF Reach
<1>2. IsWellFoundedOn(R, SUBSET Modules)
  BY FS_StrictSubsetOrderingWellFounded, FS_FiniteSubsetsOfFinite, ModulesAssumption
<1>3. \E X \in T : \A Y \in T : ~(<<Y, X>> \in R)
  <2> HIDE DEF T, R
  <2> QED
    BY <1>1, <1>2, WFMin
<1>4. PICK x \in S : \A y \in S : ~(<<Reach[y], Reach[x]>> \in R)
  BY <1>3
<1>5. PICK y \in S : y \in Imports(x)
  OBVIOUS
<1>6. y \in Reach[x] /\ y \notin Reach[y]
  BY <1>5, DependenciesStep DEF Reach, OnCycle
<1>7. Reach[y] \subseteq Reach[x] /\ Reach[y] \in SUBSET Modules /\ Reach[x] \in SUBSET Modules
  <2>1. Cone[y] \subseteq Dependencies(x)
    <3>1. y \in Dependencies(x) /\ Dependencies(x) \in SUBSET Modules
      BY <1>6, DependenciesType DEF Reach
    <3> QED
      BY <3>1, DependenciesStep, ConeLeast
  <2> QED
    BY <2>1, DependenciesType DEF Reach, Cone
<1>8. <<Reach[y], Reach[x]>> \in R
  BY <1>6, <1>7 DEF StrictSubsetOrdering
<1> QED
  BY <1>4, <1>8

\* When nothing is left to do, no module waits for another without end.
LEMMA NothingAwaits ==
  ASSUME GraphInv, EvalInv, SettleInv, Quiet, \A m \in Modules : ~OnCycle(m)
  PROVE  evaluating = {}
<1>1. /\ Idle /\ suspended = {} /\ world \in Worlds /\ evaluating \in SUBSET Modules /\ Linked
      /\ childrenModuleSet \in [Modules -> SUBSET Modules]
  BY DEF Quiet, GraphInv, Types, DataTypes, LoadInv
<1>2. Tells = {} /\ \A m \in evaluating : Pending[m] # {}
  BY <1>1, IdleSettles
<1>3. ASSUME NEW m \in evaluating PROVE \E c \in evaluating : c \in Imports(m)
  <2>1. PICK c \in childrenModuleSet[m] : c \in evaluating
    BY <1>1, <1>2 DEF Pending, PendingOf
  <2> QED
    BY <1>1, <2>1 DEF Linked
<1> QED
  BY <1>1, <1>3, NoEndlessImports

\* Every module that has been linked has ended.
LEMMA LinkedEnds ==
  ASSUME GraphInv, EvalInv, AnnounceInv, SettleInv, Quiet, \A m \in Modules : ~OnCycle(m)
  PROVE  /\ wasDeclarationInitialized \subseteq ended /\ host.created \subseteq parentsNotified
         /\ wasParsed = host.created /\ Ending = {} /\ promise \cap ended = {}
         /\ InProgress = {}
<1>1. /\ Idle /\ toEvaluate = {} /\ host.toParse = {} /\ world \in Worlds
      /\ ended \in SUBSET Modules
  BY DEF Quiet, GraphInv, Types, DataTypes
<1>2. hadNotifyHostReady \subseteq ended
  BY <1>1, IdleSettles, NothingAwaits DEF Begun
<1>3. ASSUME NEW m \in wasDeclarationInitialized PROVE m \in ended
  <2>1. PICK r \in hadNotifyHostReady : m \in Cone[r]
    BY DEF AnnounceInv, LinkedAnnounced
  <2>2. Cone[r] \subseteq ended
    BY <1>1, <1>2, EndedClosed, ConeLeast
  <2> QED
    BY <2>1, <2>2
<1> QED
  BY <1>1, <1>3, AllSettled, IdleSettles

\* If nothing fails and no module imports itself, every import() is fulfilled when
\* nothing is left to do, never rejected, and not before everything that its
\* module leads to has run to its end.
THEOREM ImportsFulfilledHolds ==
  Spec => [](NothingFails /\ (\A m \in Modules : ~OnCycle(m)) => ImportsFulfilled)
<1> DEFINE NoCycle == \A m \in Modules : ~OnCycle(m)
<1>1. ASSUME GraphInv, EvalInv, AnnounceInv, SettleInv, FulfilledLate, NoCycle
      PROVE  ImportsFulfilled
  <2>1. ASSUME Quiet PROVE host.imported \subseteq log.fulfilled
    <3>1. ASSUME NEW m \in promise PROVE FALSE
      <4>1. m \in host.created
        BY <1>1 DEF AnnounceInv, Fetched
      <4>2. m \in parentsNotified /\ m \notin ended /\ InProgress = {}
        BY <1>1, <2>1, <4>1, LinkedEnds
      <4>3. m \in wasDeclarationInitialized
        BY <1>1, <4>2 DEF AnnounceInv, RootsLinked
      <4> QED
        BY <1>1, <2>1, <4>2, <4>3, LinkedEnds
    <3> QED
      BY <1>1, <3>1 DEF SettleInv, Promised
  <2> QED
    BY <1>1, <2>1 DEF FulfilledLate, ImportsFulfilled
<1>2. GraphInv /\ (NothingFails => EvalInv) /\ (NothingFails => AnnounceInv)
        /\ (NothingFails => SettleInv) /\ (NothingFails => FulfilledLate)
        => (NothingFails /\ NoCycle => ImportsFulfilled)
  BY <1>1
<1> QED
  BY <1>2, GraphInvariant, EvaluationInvariant, AnnounceInvariant, SettleInvariant,
     FulfilledLateHolds, PTL

\* The only root of a graph without cycles has no parent.
LEMMA RootIsRoot ==
  ASSUME GraphInv, EvalInv, AnnounceInv, SettleInv, \A x \in Modules : ~OnCycle(x),
         NEW m, world.roots = {m}, m \in host.created, host.imported = {}, m \in wasParsed,
         wasParsed = host.created
  PROVE  m \in isRootModule
<1>1. /\ world \in Worlds /\ m \in Modules /\ Linked /\ Requesting
      /\ parentModuleList \in [Modules -> Seq(Modules)]
  BY DEF GraphInv, Types, DataTypes, LoadInv, EvalInv
<1> SUFFICES ASSUME parentModuleList[m] # <<>> PROVE FALSE
  BY DEF SettleInv, Origins
<1>2. PICK p \in Modules : m \in childrenModuleSet[p]
  <2>1. parentModuleList[m] \in Seq(Modules) /\ Head(parentModuleList[m]) \in ToSet(parentModuleList[m])
    BY <1>1, HeadTail
  <2> QED
    BY <1>1, <2>1, ParentsOf
<1>3. p \in wasParsed /\ m \in Imports(p)
  BY <1>1, <1>2 DEF Linked, Requesting
<1>4. p \in Cone[m]
  <2>1. PICK r \in host.loaded \cup host.imported : p \in Cone[r]
    BY <1>3 DEF SettleInv, Origins
  <2>2. r = m
    BY <2>1 DEF SettleInv, Origins
  <2> QED
    BY <2>1, <2>2
<1>5. m \in Dependencies(m)
  BY <1>1, <1>2, <1>3, <1>4, DependenciesStep DEF Cone
<1> QED
  BY <1>1, <1>5 DEF OnCycle

\* If nothing fails, the host hears of the end of its only root exactly once, by
\* ReportModuleCompletion and without an error.
THEOREM CompletionReportedHolds == Spec => [](NothingFails => CompletionReported)
<1>1. ASSUME GraphInv, EvalInv, AnnounceInv, SettleInv, NothingFails
      PROVE  CompletionReported
  <2> SUFFICES ASSUME Quiet, Benign, NEW m \in world.roots
               PROVE  m \notin host.errored /\ log.reports[m] = <<None>>
    BY <1>1 DEF CompletionReported, NothingFails
  <2>1. /\ world.dynamic = {} /\ \A x \in Modules : ~OnCycle(x)
        /\ world.roots \subseteq host.loaded /\ host.errored = {} /\ host.imported = {}
        /\ m \in host.created /\ m \in Modules
    BY <1>1 DEF Quiet, Benign, AnnounceInv, Fetched, SettleInv, Origins, GraphInv, Types,
       DataTypes, Hosts
  <2>2. world.roots = {m}
    <3>1. world.roots \subseteq Modules /\ Cardinality(world.roots) = 1
      BY <1>1, ModulesAssumption DEF GraphInv, Types, DataTypes, Benign
    <3>2. IsFiniteSet(world.roots)
      BY <3>1, FS_Subset, ModulesAssumption
    <3>3. \E x : world.roots = {x}
      BY <3>1, <3>2, FS_Singleton
    <3> QED
      BY <3>3
  <2>3. /\ m \in wasParsed /\ m \in parentsNotified /\ wasParsed = host.created
        /\ Ending = {} /\ InProgress = {} /\ wasDeclarationInitialized \subseteq ended
    BY <1>1, <2>1, LinkedEnds
  <2>4. m \in isRootModule
    BY <1>1, <2>1, <2>2, <2>3, RootIsRoot
  <2>5. m \in ended
    BY <1>1, <2>3, <2>4 DEF AnnounceInv, RootsLinked
  <2> QED
    BY <1>1, <2>1, <2>3, <2>4, <2>5 DEF SettleInv, ReportedOnce
<1>2. GraphInv /\ (NothingFails => EvalInv) /\ (NothingFails => AnnounceInv)
        /\ (NothingFails => SettleInv) => (NothingFails => CompletionReported)
  BY <1>1
<1> QED
  BY <1>2, GraphInvariant, EvaluationInvariant, AnnounceInvariant, SettleInvariant, PTL
=============================================================================
