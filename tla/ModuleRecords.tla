---------------------------- MODULE ModuleRecords ----------------------------
(***************************************************************************)
(* ES module records: lib/Runtime/Language/SourceTextModuleRecord.cpp, the *)
(* calls of lib/Jsrt/Core/JsrtCore.cpp that drive them and the host ch     *)
(* (bin/ch/WScriptJsrt.cpp), which fetches sources and evaluates modules   *)
(* from its message queue.                                                 *)
(*                                                                         *)
(* One thread runs everything.  A message of the host or a promise job     *)
(* starts when no call is in progress; then the records call each other up *)
(* and down the import graph.  `stack` holds these calls, and a step is a  *)
(* stretch of the method on its top, up to the next call or the return.    *)
(* `thrown` is the exception in flight.  Flags of the records are sets of  *)
(* modules and have the names of the fields.                               *)
(*                                                                         *)
(* What the sources contain is chosen once, in world: which modules a      *)
(* module requests (one entry per specifier), which have a top level       *)
(* await, whose bodies throw, whose sources are missing, malformed or do   *)
(* not link, and which ones the host refuses to fetch.                     *)
(***************************************************************************)
EXTENDS Integers, FiniteSets, SequencesExt

CONSTANTS Modules,      \* module records
          Worlds,       \* the sets of sources considered
          UIntSpan,     \* number of values of uint awaitedModules (2^32)
          None          \* no error, no exception, no caller

ASSUME ModulesAssumption ==
  /\ None \notin Modules /\ IsFiniteSet(Modules)
  /\ UIntSpan \in Nat /\ Cardinality(Modules) < UIntSpan
  /\ \A w \in Worlds :
       /\ w.imports \in [Modules -> Seq(Modules)]
       /\ {w.async, w.throws, w.missing, w.malformed, w.unlinkable, w.refused,
           w.roots, w.dynamic} \subseteq SUBSET Modules

VARIABLES
    world,              \* the sources, one of Worlds
    wasParsed, isRootModule, parentModuleList, childrenModuleSet,
    notifying, parentsNotified, hadNotifyHostReady,
    wasDeclarationInitialized, rootFunction,
    wasPrepassed, generator, evaluating, wasEvaluated, awaitedModules,
    errorObject, promise,
    stack, thrown,      \* calls in progress, outermost first; exception in flight
    host,               \* what ch knows of the modules and has to load
    toEvaluate,         \* modules that ch has to evaluate
    suspended,          \* modules whose bodies await
    crashed,            \* a generator, root function or promise that is not there was used
    runs, before, ended, uncalled, \* history: how often a body began, after which
                        \* bodies had ended, and without ModuleEvaluation
    caller,             \* history: the module that evaluated a module first
    log                 \* history: announcements, reports, settled imports, throws

loadVars == <<wasParsed, isRootModule, parentModuleList, childrenModuleSet, host>>
notifyVars == <<notifying, parentsNotified>>
linkVars == <<wasDeclarationInitialized, rootFunction>>
readyVars == <<hadNotifyHostReady, toEvaluate>>
prepassVars == <<wasPrepassed, generator>>
bodyVars == <<suspended, runs, before, ended, uncalled>>
settleVars == <<promise, wasEvaluated, log>>

loadState == <<loadVars, notifyVars, linkVars, readyVars>>
evalState == <<prepassVars, bodyVars, evaluating, awaitedModules, caller, crashed>>

\* Everything but the calls in progress.
data == <<world, loadState, evalState, settleVars, errorObject>>

vars == <<data, stack, thrown>>

Init ==
  /\ world \in Worlds
  /\ wasParsed = {} /\ isRootModule = {}
  /\ parentModuleList = [m \in Modules |-> <<>>]
  /\ childrenModuleSet = [m \in Modules |-> {}]
  /\ notifying = {} /\ parentsNotified = {} /\ hadNotifyHostReady = {}
  /\ wasDeclarationInitialized = {} /\ rootFunction = {}
  /\ wasPrepassed = {} /\ generator = {} /\ evaluating = {} /\ wasEvaluated = {}
  /\ awaitedModules = [m \in Modules |-> 0]
  /\ errorObject = [m \in Modules |-> None]
  /\ promise = {}
  /\ stack = <<>> /\ thrown = None
  /\ host = [created |-> {}, loaded |-> {}, entry |-> {}, toParse |-> {},
             errored |-> {}, imported |-> {}]
  /\ toEvaluate = {} /\ suspended = {} /\ crashed = FALSE
  /\ runs = [m \in Modules |-> 0]
  /\ before = [m \in Modules |-> {}]
  /\ ended = {} /\ uncalled = {}
  /\ caller = [m \in Modules |-> None]
  /\ log = [notices |-> [m \in Modules |-> 0], reports |-> [m \in Modules |-> <<>>],
            fulfilled |-> {}, rejected |-> {}, threw |-> {}]

-----------------------------------------------------------------------------
(* The import graph.                                                       *)

\* The modules that `from` leads to along the successors in next.
Closure(from, next) ==
  {m \in Modules : \A S \in SUBSET Modules :
     (from \subseteq S /\ \A x \in S : next[x] \subseteq S) => m \in S}

Imports(m) == ToSet(world.imports[m])

\* The modules that m imports, directly or not.
Dependencies(m) == Closure(Imports(m), [x \in Modules |-> Imports(x)])

-----------------------------------------------------------------------------
(* Calls.                                                                  *)

Depth == Len(stack)
top == stack[Depth]

\* A call of a method of m; a loop of it over the modules in rest.
Call(op, m) == [op |-> op, mod |-> m, rest |-> <<>>, reason |-> None]
Loop(op, m, rest) == [op |-> op, mod |-> m, rest |-> rest, reason |-> None]
CallWith(op, m, reason) == [op |-> op, mod |-> m, rest |-> <<>>, reason |-> reason]

\* No call is in progress: the host takes a message or a promise job runs.
Idle == stack = <<>> /\ ~crashed

\* The method on the top is at op, and goes on.
At(op) == /\ Depth > 0 /\ ~crashed /\ thrown = None
          /\ top.op = op

Begins(f) == stack' = <<f>>
Becomes(f) == stack' = [stack EXCEPT ![Depth] = f]
Return == stack' = SubSeq(stack, 1, Depth - 1)

\* The method on the top calls g, and is at f when g returns.
Calls(f, g) == stack' = Append([stack EXCEPT ![Depth] = f], g)

\* The loop on the top has done with the first module of the rest.
Onward == [top EXCEPT !.rest = Tail(@)]

-----------------------------------------------------------------------------
(* Parts of the methods.                                                   *)

SetError(m, error) == errorObject' = [errorObject EXCEPT ![m] = error]

SetErrorIfNone(m, error) ==
  SetError(m, IF errorObject[m] = None THEN error ELSE errorObject[m])

\* ResolveOrRejectDynamicImportPromise, if m has a promise: it is settled and
\* dropped, and the record counts as evaluated.  settled is the log.
Settled(m, as) ==
  IF m \notin promise THEN log
  ELSE IF as = "fulfilled" THEN [log EXCEPT !.fulfilled = @ \cup {m}]
                           ELSE [log EXCEPT !.rejected = @ \cup {m}]

SettleFlags(m) ==
  /\ promise' = promise \ {m}
  /\ wasEvaluated' = IF m \in promise THEN wasEvaluated \cup {m} ELSE wasEvaluated

\* ReportModuleCompletion: ch has the callback set, and it returns JsNoError.
Reported(l, m, error) ==
  IF m \in isRootModule THEN [l EXCEPT !.reports[m] = Append(@, error)] ELSE l

\* NotifyHostAboutModuleReady: ch queues a message that evaluates the module.
Announced(l, m) == [l EXCEPT !.notices[m] = @ + 1]

AnnounceFlags(m) ==
  /\ hadNotifyHostReady' = hadNotifyHostReady \cup {m}
  /\ toEvaluate' = toEvaluate \cup {m}

\* Mutant: a root is announced for each of its children that failed.
AnnouncesErrorMutant(m) == m \in isRootModule

\* A root that failed is announced unless it was before.
AnnouncesError(m) == m \in isRootModule \ hadNotifyHostReady

\* The end of a failed load: the promise is rejected, a root is announced.
FailLoad(m) ==
  /\ SettleFlags(m)
  /\ IF AnnouncesError(m)
       THEN AnnounceFlags(m) /\ log' = Announced(Settled(m, "rejected"), m)
       ELSE UNCHANGED readyVars /\ log' = Settled(m, "rejected")

\* Mutant: the record is not marked as evaluated.
EvaluatedMutant(m) == UNCHANGED wasEvaluated /\ evaluating' = evaluating \ {m}

\* SetWasEvaluated(); SetEvaluating(false);
Evaluated(m) ==
  /\ wasEvaluated' = wasEvaluated \cup {m}
  /\ evaluating' = evaluating \ {m}

\* Mutant: only the module that asked first waits.
IncrementParentsMutant(m) ==
  awaitedModules' = [p \in Modules |->
    IF p = Head(parentModuleList[m] \o <<m>>) THEN (awaitedModules[p] + 1) % UIntSpan
                                              ELSE awaitedModules[p]]

\* IncrementAwaited for each parent; a list of parents has no duplicates.
IncrementParents(m) ==
  awaitedModules' = [p \in Modules |->
    IF p \in ToSet(parentModuleList[m]) THEN (awaitedModules[p] + 1) % UIntSpan
                                        ELSE awaitedModules[p]]

DecrementAwaited(p) ==
  awaitedModules' = [awaitedModules EXCEPT ![p] = (@ - 1) % UIntSpan]

\* The loop over the requested modules, last one first.
Requests(m) == Reverse(world.imports[m])

-----------------------------------------------------------------------------
(* Loading: parse, find the children, link.                                *)

\* The beginning of ParseSource, up to ResolveExternalModuleDependencies.
ParseSource ==
  /\ At("ParseSource")
  /\ LET m == top.mod IN
     /\ isRootModule' = IF parentModuleList[m] = <<>> /\ m \notin promise
                        THEN isRootModule \cup {m} ELSE isRootModule
     /\ IF m \in world.missing \cup world.malformed
          THEN Becomes(Call("parseFailed", m)) /\ UNCHANGED wasParsed
          ELSE /\ Becomes(Loop("resolve", m, Requests(m)))
               /\ wasParsed' = wasParsed \cup {m}
  /\ UNCHANGED <<world, parentModuleList, childrenModuleSet, host, notifyVars, linkVars,
                 readyVars, evalState, settleVars, errorObject, thrown>>

\* The FetchImportedModule callback of ch: an existing record, or a new one and
\* a message that loads its source.
FetchImportedModule(h, c) ==
  IF c \in h.created THEN h
  ELSE [h EXCEPT !.created = @ \cup {c}, !.toParse = @ \cup {c}]

\* Mutant: a parent that comes late does not wait for a child under evaluation.
SetParentMutant(c, parent) ==
  /\ childrenModuleSet' = [childrenModuleSet EXCEPT ![parent] = @ \cup {c}]
  /\ parentModuleList' = [parentModuleList EXCEPT
       ![c] = IF Contains(@, parent) THEN @ ELSE Append(@, parent)]
  /\ UNCHANGED awaitedModules

SetParent(c, parent) ==
  /\ childrenModuleSet' = [childrenModuleSet EXCEPT ![parent] = @ \cup {c}]
  /\ parentModuleList' = [parentModuleList EXCEPT
       ![c] = IF Contains(@, parent) THEN @ ELSE Append(@, parent)]
  /\ awaitedModules' = [awaitedModules EXCEPT
       ![parent] = IF c \in evaluating THEN (@ + 1) % UIntSpan ELSE @]

\* The loop of ResolveExternalModuleDependencies for a module that is fetched.
ResolveChild ==
  /\ At("resolve") /\ top.rest # <<>>
  /\ LET c == Head(top.rest) IN
     /\ c \notin world.refused /\ errorObject[c] = None
     /\ host' = FetchImportedModule(host, c)
     /\ SetParent(c, top.mod)
  /\ Becomes(Onward)
  /\ UNCHANGED <<world, wasParsed, isRootModule, notifyVars, linkVars, readyVars,
                 prepassVars, bodyVars, evaluating, caller, crashed, settleVars,
                 errorObject, thrown>>

\* The loop ends at the first module that the host refuses or that has failed.
ResolveFails ==
  /\ At("resolve") /\ top.rest # <<>>
  /\ LET c == Head(top.rest)
         m == top.mod IN
     /\ \/ /\ c \in world.refused
           /\ SetErrorIfNone(m, m)
           /\ UNCHANGED host
        \/ /\ c \notin world.refused /\ errorObject[c] # None
           /\ SetError(m, errorObject[c])
           /\ host' = FetchImportedModule(host, c)
     /\ Calls(Call("parseFailed", m), Call("NotifyParents", m))
  /\ UNCHANGED <<world, wasParsed, isRootModule, parentModuleList, childrenModuleSet,
                 notifyVars, linkVars, readyVars, evalState, settleVars, thrown>>

ResolveEnds ==
  /\ At("resolve") /\ top.rest = <<>>
  /\ Calls(Call("parsed", top.mod), Call("Prepare", top.mod))
  /\ UNCHANGED <<data, thrown>>

\* The part of ParseSource after FAILED(hr).
ParseFailed ==
  /\ At("parseFailed")
  /\ SetErrorIfNone(top.mod, top.mod)
  /\ FailLoad(top.mod)
  /\ Calls(Call("notParsed", top.mod), Call("NotifyParents", top.mod))
  /\ UNCHANGED <<world, loadVars, notifyVars, linkVars, evalState, thrown>>

\* ParseSource returns.  ch will not evaluate a module that it loaded itself and
\* whose source did not parse.
ParseReturns ==
  /\ At("parsed") \/ At("notParsed")
  /\ LET m == top.mod
         succeeded == /\ top.op = "parsed"
                      /\ errorObject[m] = None \/ m \notin hadNotifyHostReady
     IN  host' = IF ~succeeded /\ m \in host.entry /\ m \notin world.missing
                 THEN [host EXCEPT !.errored = @ \cup {m}] ELSE host
  /\ Return
  /\ UNCHANGED <<world, wasParsed, isRootModule, parentModuleList, childrenModuleSet,
                 notifyVars, linkVars, readyVars, evalState, settleVars, errorObject,
                 thrown>>

\* NotifyParentsAsNeeded.
NotifyParentsAsNeeded ==
  /\ At("NotifyParents")
  /\ IF top.mod \in notifying THEN Return /\ UNCHANGED notifying
     ELSE /\ notifying' = notifying \cup {top.mod}
          /\ Becomes(Loop("notifying", top.mod, parentModuleList[top.mod]))
  /\ UNCHANGED <<world, loadVars, parentsNotified, linkVars, readyVars, evalState,
                 settleVars, errorObject, thrown>>

NotifyParent ==
  /\ At("notifying") /\ top.rest # <<>>
  /\ Calls(Onward, CallWith("OnChildModuleReady", Head(top.rest), errorObject[top.mod]))
  /\ UNCHANGED <<data, thrown>>

NotifyEnds ==
  /\ At("notifying") /\ top.rest = <<>>
  /\ notifying' = notifying \ {top.mod}
  /\ parentsNotified' = parentsNotified \cup {top.mod}
  /\ Return
  /\ UNCHANGED <<world, loadVars, linkVars, readyVars, evalState, settleVars,
                 errorObject, thrown>>

\* OnChildModuleReady, with the exception of the child or without.
OnChildModuleReady ==
  /\ At("OnChildModuleReady")
  /\ IF top.reason = None
       THEN Becomes(Call("Prepare", top.mod)) /\ UNCHANGED errorObject
       ELSE /\ SetErrorIfNone(top.mod, top.reason)
            /\ Calls(Call("childFailed", top.mod), Call("NotifyParents", top.mod))
  /\ UNCHANGED <<world, loadState, evalState, settleVars, thrown>>

\* The rest of OnChildModuleReady for a child that failed.
ChildFailed ==
  /\ At("childFailed")
  /\ FailLoad(top.mod)
  /\ Return
  /\ UNCHANGED <<world, loadVars, notifyVars, linkVars, evalState, errorObject, thrown>>

\* Mutant: looks at the children only.
ConfirmChildrenParsedMutant(m) == {m} \cup childrenModuleSet[m] \subseteq wasParsed

\* Everything that m leads to was parsed; the walk stops at modules that have
\* notified their parents.
ConfirmChildrenParsed(m) ==
  Closure({m}, [x \in Modules |-> IF x \in parentsNotified THEN {}
                                  ELSE childrenModuleSet[x] \ parentsNotified])
    \subseteq wasParsed

\* PrepareForModuleDeclarationInitialization, up to NotifyParentsAsNeeded.
Prepare ==
  /\ At("Prepare")
  /\ IF ConfirmChildrenParsed(top.mod)
       THEN Calls(Call("prepared", top.mod), Call("NotifyParents", top.mod))
       ELSE Return
  /\ UNCHANGED <<data, thrown>>

\* What ModuleDeclarationInstantiation of m initializes.
Uninitialized(m) ==
  Closure({m}, [x \in Modules |->
    {c \in childrenModuleSet[x] \ wasDeclarationInitialized : errorObject[c] = None}])

\* What GenerateRootFunction of m compiles.
Uncompiled(m) == Closure({m}, [x \in Modules |-> childrenModuleSet[x] \ rootFunction])

\* if (ModuleDeclarationInstantiation()) GenerateRootFunction();
Link(m) ==
  IF m \in wasDeclarationInitialized \/ errorObject[m] # None
  THEN UNCHANGED <<linkVars, errorObject>>
  ELSE /\ wasDeclarationInitialized' = wasDeclarationInitialized \cup Uninitialized(m)
       /\ errorObject' = [x \in Modules |-> IF x \in Uninitialized(m) \cap world.unlinkable
                                            THEN x ELSE errorObject[x]]
       /\ rootFunction' = IF m \in world.unlinkable THEN rootFunction
                          ELSE rootFunction \cup Uncompiled(m)

\* The rest of PrepareForModuleDeclarationInitialization.
Prepared ==
  /\ At("prepared")
  /\ LET m == top.mod IN
     IF m \in wasDeclarationInitialized \/ m \notin isRootModule \cup promise
     THEN UNCHANGED <<linkVars, errorObject, readyVars, log>>
     ELSE /\ Link(m)
          /\ IF m \in hadNotifyHostReady \cup wasEvaluated THEN UNCHANGED <<readyVars, log>>
             ELSE AnnounceFlags(m) /\ log' = Announced(log, m)
  /\ Return
  /\ UNCHANGED <<world, loadVars, notifyVars, evalState, promise, wasEvaluated, thrown>>

-----------------------------------------------------------------------------
(* Evaluation.                                                             *)

\* The beginning of ModuleEvaluation.
ModuleEvaluationReturns ==
  /\ At("ModuleEvaluation")
  /\ top.mod \in wasEvaluated \cup evaluating
  /\ Return
  /\ UNCHANGED <<data, thrown>>

ModuleEvaluationPrepasses ==
  /\ At("ModuleEvaluation")
  /\ top.mod \notin wasEvaluated \cup evaluating \cup wasPrepassed
  /\ Calls(Call("prepassing", top.mod), Call("Prepass", top.mod))
  /\ UNCHANGED <<data, thrown>>

\* The prepass has returned false: the error went to a promise or to the host.
PrepassRefuses ==
  /\ At("prepassing") /\ errorObject[top.mod] # None
  /\ Return
  /\ UNCHANGED <<data, thrown>>

\* SetEvaluating(true), and on to the requested modules.
SetEvaluating ==
  /\ \/ /\ At("ModuleEvaluation")
        /\ top.mod \in wasPrepassed \ (wasEvaluated \cup evaluating)
     \/ At("prepassing") /\ errorObject[top.mod] = None
  /\ evaluating' = evaluating \cup {top.mod}
  /\ caller' = [caller EXCEPT ![top.mod] = IF Depth = 1 THEN None ELSE stack[Depth - 1].mod]
  /\ Becomes(Loop("children", top.mod, world.imports[top.mod]))
  /\ UNCHANGED <<world, loadState, prepassVars, bodyVars, awaitedModules, crashed,
                 settleVars, errorObject, thrown>>

EvaluateChild ==
  /\ At("children") /\ top.rest # <<>>
  /\ Calls(Loop("child", top.mod, top.rest), Call("ModuleEvaluation", Head(top.rest)))
  /\ UNCHANGED <<data, thrown>>

\* The evaluation of a child has returned; if the child has an error, it is
\* thrown again.
ChildEvaluated ==
  /\ At("child")
  /\ LET error == errorObject[Head(top.rest)]
     IN  IF error # None THEN thrown' = error /\ UNCHANGED stack
         ELSE Becomes(Loop("children", top.mod, Tail(top.rest))) /\ UNCHANGED thrown
  /\ UNCHANGED data

\* The end of ModuleEvaluation: the body runs, or the parents wait too.
ChildrenEvaluated ==
  /\ At("children") /\ top.rest = <<>>
  /\ IF awaitedModules[top.mod] = 0
       THEN /\ Calls(Call("finishing", top.mod), Call("FinishOwn", top.mod))
            /\ UNCHANGED awaitedModules
       ELSE IncrementParents(top.mod) /\ Return
  /\ UNCHANGED <<world, loadState, prepassVars, bodyVars, evaluating, caller, crashed,
                 settleVars, errorObject, thrown>>

\* catch (JavascriptException) in ModuleEvaluation.  A root without a host
\* callback would rethrow; ch has one.
CatchInEvaluation ==
  /\ Depth > 0 /\ thrown # None
  /\ top.op \in {"prepassing", "child", "finishing"}
  /\ LET m == top.mod IN
     /\ Evaluated(m)
     /\ SetError(m, thrown)
     /\ promise' = promise \ {m}
     /\ log' = Reported(Settled(m, "rejected"), m, thrown)
  /\ thrown' = None
  /\ Return
  /\ UNCHANGED <<world, loadState, prepassVars, bodyVars, awaitedModules, caller,
                 crashed>>

\* ModuleEvaluationPrepass of a module with an error: the promise is rejected,
\* or the host is told, or the error is thrown.
PrepassFails ==
  /\ At("Prepass") /\ errorObject[top.mod] # None
  /\ LET m == top.mod IN
     /\ SettleFlags(m)
     /\ log' = IF m \in promise THEN Settled(m, "rejected")
               ELSE Reported(log, m, errorObject[m])
     /\ thrown' = IF m \in promise \cup isRootModule THEN None ELSE errorObject[m]
  /\ Return
  /\ UNCHANGED <<world, loadState, evalState, errorObject>>

PrepassBegins ==
  /\ At("Prepass") /\ errorObject[top.mod] = None
  /\ wasPrepassed' = wasPrepassed \cup {top.mod}
  /\ Becomes(Call("prepassLoop", top.mod))
  /\ UNCHANGED <<world, loadState, generator, bodyVars, evaluating, awaitedModules,
                 caller, crashed, settleVars, errorObject, thrown>>

\* The loop over childrenModuleSet, a hash table: in any order, those that have
\* not been prepassed are, and those with an error make it throw.
PrepassChild ==
  /\ At("prepassLoop")
  /\ \E c \in childrenModuleSet[top.mod] \ wasPrepassed :
       Calls(Loop("prepassChild", top.mod, <<c>>), Call("Prepass", c))
  /\ UNCHANGED <<data, thrown>>

PrepassRethrows ==
  /\ \/ /\ At("prepassLoop")
        /\ \E c \in childrenModuleSet[top.mod] \cap wasPrepassed :
             errorObject[c] # None /\ thrown' = errorObject[c]
     \/ /\ At("prepassChild") /\ errorObject[Head(top.rest)] # None
        /\ thrown' = errorObject[Head(top.rest)]
  /\ Return
  /\ UNCHANGED data

PrepassNext ==
  /\ At("prepassChild") /\ errorObject[Head(top.rest)] = None
  /\ Becomes(Call("prepassLoop", top.mod))
  /\ UNCHANGED <<data, thrown>>

\* The root function makes the generator.
PrepassEnds ==
  /\ At("prepassLoop")
  /\ \A c \in childrenModuleSet[top.mod] : c \in wasPrepassed /\ errorObject[c] = None
  /\ crashed' = (top.mod \notin rootFunction)
  /\ generator' = IF top.mod \in rootFunction THEN generator \cup {top.mod} ELSE generator
  /\ Return
  /\ UNCHANGED <<world, loadState, wasPrepassed, bodyVars, evaluating, awaitedModules,
                 caller, settleVars, errorObject, thrown>>

-----------------------------------------------------------------------------
(* FinishModuleEvaluation.  FinishOwn is the call with shouldIncrementAwait *)
(* from ModuleEvaluation, FinishWaited the one when nothing is awaited any  *)
(* more.                                                                   *)

AtFinish == At("FinishOwn") \/ At("FinishWaited")

\* The body of m begins: gen->CallGenerator or BeginAsyncFunctionExecution.
BeginBody(m) ==
  /\ runs' = [runs EXCEPT ![m] = @ + 1]
  /\ before' = [before EXCEPT ![m] = ended \cup log.threw]
  /\ uncalled' = IF m \in evaluating THEN uncalled ELSE uncalled \cup {m}

FinishNothing ==
  /\ AtFinish /\ top.mod \in wasEvaluated
  /\ Return
  /\ UNCHANGED <<data, thrown>>

FinishCrashes ==
  /\ AtFinish /\ top.mod \notin wasEvaluated \cup generator
  /\ crashed' = TRUE
  /\ UNCHANGED <<world, loadState, prepassVars, bodyVars, evaluating, awaitedModules,
                 caller, settleVars, errorObject, stack, thrown>>

\* A body with a top level await begins.
FinishAsync ==
  /\ AtFinish /\ top.mod \in (generator \cap world.async) \ wasEvaluated
  /\ BeginBody(top.mod)
  /\ suspended' = suspended \cup {top.mod}
  /\ IF top.op = "FinishOwn" THEN IncrementParents(top.mod) ELSE UNCHANGED awaitedModules
  /\ Return
  /\ UNCHANGED <<world, loadState, prepassVars, ended, evaluating, caller, crashed,
                 settleVars, errorObject, thrown>>

\* A body without one runs; if it returns, the parents that wait are told.
FinishSync ==
  /\ AtFinish /\ top.mod \in generator \ (wasEvaluated \cup world.async)
  /\ top.mod \notin world.throws
  /\ BeginBody(top.mod)
  /\ Evaluated(top.mod)
  /\ ended' = ended \cup {top.mod}
  /\ Becomes(IF top.op = "FinishOwn" THEN Call("complete", top.mod)
             ELSE Loop("telling", top.mod, parentModuleList[top.mod]))
  /\ UNCHANGED <<world, loadState, prepassVars, suspended, awaitedModules, caller,
                 crashed, promise, log, errorObject, thrown>>

FinishThrows ==
  /\ AtFinish /\ top.mod \in generator \ (wasEvaluated \cup world.async)
  /\ top.mod \in world.throws
  /\ BeginBody(top.mod)
  /\ Evaluated(top.mod)
  /\ log' = [log EXCEPT !.threw = @ \cup {top.mod}]
  /\ thrown' = top.mod
  /\ Return
  /\ UNCHANGED <<world, loadState, prepassVars, suspended, ended, awaitedModules,
                 caller, crashed, promise, errorObject>>

\* if (parentModule->DecrementAwaited() && parentModule->IsEvaluating()) ...
TellParent ==
  /\ At("telling") /\ top.rest # <<>>
  /\ LET p == Head(top.rest) IN
     /\ DecrementAwaited(p)
     /\ IF awaitedModules'[p] = 0 /\ p \in evaluating
          THEN Calls(Onward, Call("FinishWaited", p)) ELSE Becomes(Onward)
  /\ UNCHANGED <<world, loadState, prepassVars, bodyVars, evaluating, caller, crashed,
                 settleVars, errorObject, thrown>>

ParentsTold ==
  /\ At("telling") /\ top.rest = <<>>
  /\ Becomes(Call("complete", top.mod))
  /\ UNCHANGED <<data, thrown>>

\* The end of FinishModuleEvaluation.
Complete ==
  /\ At("complete")
  /\ SettleFlags(top.mod)
  /\ log' = Reported(Settled(top.mod, "fulfilled"), top.mod, None)
  /\ Return
  /\ UNCHANGED <<world, loadState, evalState, errorObject, thrown>>

-----------------------------------------------------------------------------
(* The end of an asynchronous body.                                        *)

\* The loop of EntryAsyncModuleFulfilled, up to FinishModuleEvaluation of a
\* parent that awaits nothing any more (DecrementAndEvaluateIfNothingAwaited).
FulfilledParent ==
  /\ At("fulfilled") /\ top.rest # <<>>
  /\ LET p == Head(top.rest) IN
     /\ DecrementAwaited(p)
     /\ IF awaitedModules'[p] = 0 THEN Calls(Onward, Call("nothingAwaited", p))
        ELSE Becomes(Onward)
  /\ UNCHANGED <<world, loadState, prepassVars, bodyVars, evaluating, caller, crashed,
                 settleVars, errorObject, thrown>>

NothingAwaited ==
  /\ At("nothingAwaited")
  /\ Calls(Call("waited", top.mod), Call("FinishWaited", top.mod))
  /\ UNCHANGED <<data, thrown>>

\* catch in DecrementAndEvaluateIfNothingAwaited.
CatchInWaited ==
  /\ Depth > 0 /\ thrown # None /\ top.op = "waited"
  /\ Evaluated(top.mod)
  /\ thrown' = None
  /\ Becomes(CallWith("PropogateRejection", top.mod, thrown))
  /\ UNCHANGED <<world, loadState, prepassVars, bodyVars, awaitedModules, caller,
                 crashed, promise, log, errorObject>>

\* The end of EntryAsyncModuleFulfilled: a module with a promise is not reported.
FulfilledEnds ==
  /\ At("fulfilled") /\ top.rest = <<>>
  /\ SettleFlags(top.mod)
  /\ log' = IF top.mod \in promise THEN Settled(top.mod, "fulfilled")
            ELSE Reported(log, top.mod, None)
  /\ Return
  /\ UNCHANGED <<world, loadState, evalState, errorObject, thrown>>

\* Mutant: the modules that wait for m are not told.
WaitingParentsMutant(m) == <<>>

\* The parents that PropogateRejection goes through.
WaitingParents(m) == parentModuleList[m]

\* PropogateRejection, up to the loop over the parents.
PropogateRejection ==
  /\ At("PropogateRejection")
  /\ LET m == top.mod IN
     IF m \in wasEvaluated
     THEN /\ evaluating' = evaluating \ {m}
          /\ Return
          /\ UNCHANGED <<wasEvaluated, errorObject>>
     ELSE /\ Evaluated(m)
          /\ SetError(m, top.reason)
          /\ Becomes([top EXCEPT !.op = "rejecting", !.rest = WaitingParents(m)])
  /\ UNCHANGED <<world, loadState, prepassVars, bodyVars, awaitedModules, caller,
                 crashed, promise, log, thrown>>

RejectParent ==
  /\ At("rejecting") /\ top.rest # <<>>
  /\ IF errorObject[Head(top.rest)] = None
       THEN Calls(Onward, CallWith("PropogateRejection", Head(top.rest), top.reason))
       ELSE Becomes(Onward)
  /\ UNCHANGED <<data, thrown>>

RejectEnds ==
  /\ At("rejecting") /\ top.rest = <<>>
  /\ SettleFlags(top.mod)
  /\ log' = Reported(Settled(top.mod, "rejected"), top.mod, top.reason)
  /\ Return
  /\ UNCHANGED <<world, loadState, evalState, errorObject, thrown>>

-----------------------------------------------------------------------------
(* Calls that have nothing left to do, and calls that an exception leaves.  *)

Catches == {"prepassing", "child", "finishing", "waited"}

Returns ==
  /\ At("finishing") \/ At("waited")
  /\ Return
  /\ UNCHANGED <<data, thrown>>

Unwind ==
  /\ Depth > 0 /\ thrown # None /\ top.op \notin Catches
  /\ Return
  /\ UNCHANGED <<data, thrown>>

-----------------------------------------------------------------------------
(* Messages of the host, promise jobs, calls of import().                  *)

\* JsParseModuleSource refuses a record that was parsed.
JsParseModuleSource(m) ==
  IF m \in wasParsed THEN UNCHANGED stack ELSE Begins(Call("ParseSource", m))

\* LoadModuleFromString for a module that the host starts with.
LoadRoot(m) ==
  /\ Idle
  /\ m \in world.roots \ host.loaded
  /\ host' = [host EXCEPT !.loaded = @ \cup {m}, !.created = @ \cup {m},
                          !.entry = IF m \in host.created THEN @ ELSE @ \cup {m}]
  /\ JsParseModuleSource(m)
  /\ UNCHANGED <<world, wasParsed, isRootModule, parentModuleList, childrenModuleSet,
                 notifyVars, linkVars, readyVars, evalState, settleVars, errorObject,
                 thrown>>

\* The message of ch that loads the source of an imported module.
LoadImported(m) ==
  /\ Idle
  /\ m \in host.toParse
  /\ host' = [host EXCEPT !.toParse = @ \ {m}]
  /\ JsParseModuleSource(m)
  /\ UNCHANGED <<world, wasParsed, isRootModule, parentModuleList, childrenModuleSet,
                 notifyVars, linkVars, readyVars, evalState, settleVars, errorObject,
                 thrown>>

\* JsSetModuleHostInfo(JsModuleHostInfo_Exception): the host could not load the
\* source, and says so before it calls JsParseModuleSource without one.
OnHostException(m) ==
  /\ Idle
  /\ m \in host.toParse \cap world.missing
  /\ errorObject[m] = None
  /\ m \notin wasParsed
  /\ SetError(m, m)
  /\ UNCHANGED <<world, loadState, evalState, settleVars, stack, thrown>>

\* The message of ch that calls JsModuleEvaluation.
Evaluate(m) ==
  /\ Idle
  /\ m \in toEvaluate
  /\ toEvaluate' = toEvaluate \ {m}
  /\ IF m \in host.errored THEN UNCHANGED stack ELSE Begins(Call("ModuleEvaluation", m))
  /\ UNCHANGED <<world, loadVars, notifyVars, linkVars, hadNotifyHostReady, evalState,
                 settleVars, errorObject, thrown>>

\* The body of a module with a top level await ends, and its promise calls
\* EntryAsyncModuleFulfilled or EntryAsyncModuleRejected.
AsyncBodyReturns(m) ==
  /\ Idle
  /\ m \in suspended \ world.throws
  /\ suspended' = suspended \ {m}
  /\ ended' = ended \cup {m}
  /\ Evaluated(m)
  /\ Begins(Loop("fulfilled", m, parentModuleList[m]))
  /\ UNCHANGED <<world, loadState, prepassVars, runs, before, uncalled, awaitedModules,
                 caller, crashed, promise, log, errorObject, thrown>>

AsyncBodyThrows(m) ==
  /\ Idle
  /\ m \in suspended \cap world.throws
  /\ suspended' = suspended \ {m}
  /\ log' = [log EXCEPT !.threw = @ \cup {m}]
  /\ Begins(CallWith("PropogateRejection", m, m))
  /\ UNCHANGED <<world, loadState, prepassVars, runs, before, ended, uncalled,
                 evaluating, awaitedModules, caller, crashed, promise, wasEvaluated,
                 errorObject, thrown>>

\* import(m) by a script: JavascriptOperators::OP_ImportCall.  Scripts import a
\* module at most once here.
ImportBegins(m) ==
  /\ Idle
  /\ m \in world.dynamic \ host.imported

\* The module is refused, has failed or was evaluated.
ImportSettles(m, as) ==
  /\ log' = IF as = "fulfilled" THEN [log EXCEPT !.fulfilled = @ \cup {m}]
                                ELSE [log EXCEPT !.rejected = @ \cup {m}]
  /\ UNCHANGED <<world, wasParsed, isRootModule, parentModuleList, childrenModuleSet,
                 notifyVars, linkVars, readyVars, evalState, errorObject, stack,
                 thrown>>

ImportRefused(m) ==
  /\ ImportBegins(m) /\ m \in world.refused
  /\ host' = [host EXCEPT !.imported = @ \cup {m}]
  /\ ImportSettles(m, "rejected")
  /\ UNCHANGED <<promise, wasEvaluated>>

\* Mutant: import() does not wait for an evaluation in progress.
IsDoneMutant(m) == m \in wasEvaluated \cup evaluating

IsDone(m) == m \in wasEvaluated

ImportDone(m) ==
  /\ ImportBegins(m) /\ m \notin world.refused
  /\ errorObject[m] # None \/ IsDone(m)
  /\ host' = FetchImportedModule([host EXCEPT !.imported = @ \cup {m}], m)
  /\ promise' = promise \ {m}
  /\ wasEvaluated' = wasEvaluated \cup {m}
  /\ ImportSettles(m, IF errorObject[m] # None THEN "rejected" ELSE "fulfilled")

\* PostProcessDynamicModuleImport links a module whose children are ready and
\* that no root has linked.
ImportLinks(m) == m \in parentsNotified \ wasDeclarationInitialized

\* PostProcessDynamicModuleImport.  The callback of ch fails only when it is out
\* of memory, so that FAILED(hr) is left out.
ImportWaits(m) ==
  /\ ImportBegins(m) /\ m \notin world.refused
  /\ errorObject[m] = None /\ ~IsDone(m)
  /\ host' = FetchImportedModule([host EXCEPT !.imported = @ \cup {m}], m)
  /\ promise' = promise \cup {m}
  /\ IF ~ImportLinks(m)
     THEN UNCHANGED <<linkVars, errorObject, readyVars, log>>
     ELSE /\ m \notin world.unlinkable
          /\ Link(m)
          /\ IF m \in hadNotifyHostReady THEN UNCHANGED <<readyVars, log>>
             ELSE AnnounceFlags(m) /\ log' = Announced(log, m)
  /\ UNCHANGED <<world, wasParsed, isRootModule, parentModuleList, childrenModuleSet,
                 notifyVars, evalState, wasEvaluated, stack, thrown>>

\* The module does not link: its promise is rejected and dropped, and then
\* CreatePassThroughPromise(this->promise) is called all the same.
ImportCrashes(m) ==
  /\ ImportBegins(m) /\ m \notin world.refused
  /\ errorObject[m] = None /\ ~IsDone(m)
  /\ ImportLinks(m) /\ m \in world.unlinkable
  /\ host' = FetchImportedModule([host EXCEPT !.imported = @ \cup {m}], m)
  /\ Link(m)
  /\ promise' = promise \ {m}
  /\ wasEvaluated' = wasEvaluated \cup {m}
  /\ log' = [log EXCEPT !.rejected = @ \cup {m}]
  /\ crashed' = TRUE
  /\ UNCHANGED <<world, wasParsed, isRootModule, parentModuleList, childrenModuleSet,
                 notifyVars, readyVars, prepassVars, bodyVars, evaluating,
                 awaitedModules, caller, stack, thrown>>

Message(m) ==
  \/ LoadRoot(m) \/ LoadImported(m) \/ OnHostException(m)
  \/ Evaluate(m) \/ AsyncBodyReturns(m) \/ AsyncBodyThrows(m)
  \/ ImportRefused(m) \/ ImportDone(m) \/ ImportWaits(m) \/ ImportCrashes(m)

LoadStep ==
  \/ ParseSource \/ ResolveChild \/ ResolveFails \/ ResolveEnds \/ ParseFailed
  \/ ParseReturns \/ NotifyParentsAsNeeded \/ NotifyParent \/ NotifyEnds
  \/ OnChildModuleReady \/ ChildFailed \/ Prepare \/ Prepared

EvaluateStep ==
  \/ ModuleEvaluationReturns \/ ModuleEvaluationPrepasses \/ PrepassRefuses
  \/ SetEvaluating \/ EvaluateChild \/ ChildEvaluated \/ ChildrenEvaluated
  \/ CatchInEvaluation \/ PrepassFails \/ PrepassBegins \/ PrepassChild
  \/ PrepassRethrows \/ PrepassNext \/ PrepassEnds

FinishStep ==
  \/ FinishNothing \/ FinishCrashes \/ FinishAsync \/ FinishSync \/ FinishThrows
  \/ TellParent \/ ParentsTold \/ Complete \/ FulfilledParent \/ NothingAwaited
  \/ CatchInWaited \/ FulfilledEnds \/ PropogateRejection \/ RejectParent \/ RejectEnds
  \/ Returns \/ Unwind

Next == (\E m \in Modules : Message(m)) \/ LoadStep \/ EvaluateStep \/ FinishStep

Spec == Init /\ [][Next]_vars

-----------------------------------------------------------------------------
(* Properties.                                                             *)

OnCycle(m) == m \in Dependencies(m)

Broken == world.missing \cup world.malformed \cup world.unlinkable \cup world.refused
            \cup world.throws

\* Nothing fails, and no two specifiers of a module name the same module.
NothingFails == Broken = {} /\ \A m \in Modules : IsInjective(world.imports[m])

\* Nothing is left to do: no source, no message, no suspended body.
Quiet == /\ Idle
         /\ world.roots \subseteq host.loaded
         /\ host.toParse = {} /\ toEvaluate = {} /\ suspended = {}

\* However the graph is shared or cyclic, and however its roots are evaluated,
\* imported and awaited, the body of a module begins at most once.  (If nothing
\* fails; when a body throws, three roots can make another begin twice.)
RunsOnce == \A m \in Modules : runs[m] <= 1

\* A body that ModuleEvaluation asked for begins only after the bodies of all
\* modules it requests have ended, unless they are on a cycle with it.
DependenciesFirst ==
  \A m \in Modules : runs[m] > 0 /\ m \notin uncalled
    => \A c \in Imports(m) : c \in before[m] \/ m \in Dependencies(c)

\* When every source has been delivered, each root has been announced to the
\* host exactly once, whatever failed to load and in whatever order.  A root is
\* not announced if its failure was reported meanwhile, or if a module that
\* imports it was announced first and linked it too.
RootsAnnounced ==
  Idle /\ host.toParse = {} =>
    \A m \in isRootModule :
      \/ log.notices[m] = 1
      \/ /\ log.notices[m] = 0
         /\ \/ errorObject[m] # None /\ log.reports[m] # <<>>
            \/ \E r \in Modules : log.notices[r] = 1 /\ m \in Dependencies(r)

\* A module announced without an error heads a graph in which every module was
\* parsed, linked and compiled (the assertions of ModuleEvaluationPrepass).
LinkedWhenReady ==
  \A m \in toEvaluate :
    (\A c \in {m} \cup Dependencies(m) : errorObject[c] = None) =>
      {m} \cup Dependencies(m) \subseteq
        wasParsed \cap wasDeclarationInitialized \cap rootFunction

\* awaitedModules is the number of children whose evaluation has begun and not
\* ended, for modules off cycles, as long as nothing threw.
AwaitedExact ==
  Idle /\ log.threw = {} =>
    \A m \in Modules : ~OnCycle(m) /\ m \notin wasEvaluated =>
      awaitedModules[m] = Cardinality(childrenModuleSet[m] \cap evaluating)

\* The worlds in which awaiting is well founded: one root, no cycle, and a module
\* that throws is asynchronous or has no asynchronous dependency.
Benign ==
  /\ Cardinality(world.roots) = 1 /\ world.dynamic = {}
  /\ \A m \in Modules : ~OnCycle(m)
  /\ \A m \in world.throws : m \in world.async \/ Dependencies(m) \cap world.async = {}

\* In such a world the host learns how the root ended exactly once: from the call
\* that parsed it, or by ReportModuleCompletion, with an error exactly if a module
\* of its graph failed.
CompletionReported ==
  Quiet /\ Benign =>
    \A m \in world.roots :
      LET failed == ({m} \cup Dependencies(m)) \cap Broken # {}
      IN  IF m \in host.errored THEN failed /\ log.reports[m] = <<>>
          ELSE Len(log.reports[m]) = 1 /\ (log.reports[m][1] # None) = failed

\* A body begins only after ModuleEvaluation has come by its module, and with a
\* generator to run (the assertions of CleanupBeforeExecution).
BodiesRequested == ~crashed /\ uncalled = {}

\* If nothing fails, every import() is fulfilled, never rejected, and not before
\* the bodies of the module and of everything it imports have ended.
ImportsFulfilled ==
  Broken = {} =>
    /\ log.rejected = {}
    /\ \A m \in log.fulfilled : {m} \cup Dependencies(m) \subseteq ended
    /\ Quiet => host.imported \subseteq log.fulfilled
=============================================================================
