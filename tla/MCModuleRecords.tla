-------------------------- MODULE MCModuleRecords --------------------------
(***************************************************************************)
(* Instances of ModuleRecords: small import graphs with every choice of    *)
(* asynchronous modules and at most one defect.                            *)
(***************************************************************************)
EXTENDS ModuleRecords

CONSTANTS m1, m2, m3, m4

AllModules == {m1, m2, m3, m4}

Graph(ia, ib, ic, id) == m1 :> ia @@ m2 :> ib @@ m3 :> ic @@ m4 :> id

Chain      == Graph(<<m2>>, <<m3>>, <<m4>>, <<>>)
Diamond    == Graph(<<m2, m3>>, <<m4>>, <<m4>>, <<>>)
Fan        == Graph(<<m2, m3, m4>>, <<>>, <<>>, <<>>)
Cycle      == Graph(<<m2>>, <<m3>>, <<m1, m4>>, <<>>)
InnerCycle == Graph(<<m2>>, <<m3, m4>>, <<m2>>, <<>>)
TwoRoots   == Graph(<<m3>>, <<m3>>, <<m4>>, <<>>)
RootInTree == Graph(<<m2>>, <<m3>>, <<>>, <<m2>>)

Defects == {"throws", "missing", "malformed", "unlinkable", "refused"}

\* A world with one defect, in module m.
World(imports, roots, dynamic, async, defect, m) ==
  LET Only(kind) == IF defect = kind THEN {m} ELSE {}
  IN  [imports |-> imports, roots |-> roots, dynamic |-> dynamic, async |-> async,
       throws |-> Only("throws"), missing |-> Only("missing"),
       malformed |-> Only("malformed"), unlinkable |-> Only("unlinkable"),
       refused |-> Only("refused")]

Sound(imports, roots, dynamic) ==
  {World(imports, roots, dynamic, async, "none", m1) : async \in SUBSET AllModules}

\* The host has the source of a root.
Defective(imports, roots, dynamic) ==
  {World(imports, roots, dynamic, async, defect, m) :
     async \in SUBSET AllModules, defect \in Defects, m \in AllModules \ roots}
  \cup {World(imports, roots, dynamic, async, defect, m) : async \in SUBSET AllModules,
          defect \in {"throws", "malformed", "unlinkable"}, m \in roots}

ManyWorlds ==
  UNION {Sound(g, {m1}, {}) \cup Defective(g, {m1}, {}) :
           g \in {Chain, Diamond, Fan, Cycle, InnerCycle}}
  \cup UNION {Sound(Diamond, {m1}, {m}) : m \in {m2, m3, m4}}
  \cup Sound(TwoRoots, {m1, m2}, {}) \cup Defective(TwoRoots, {m1, m2}, {})
  \cup Sound(RootInTree, {m1, m4}, {}) \cup Sound(Chain, {m1, m3}, {})
  \cup Sound(Chain, {m1}, {m3})
  \cup Sound(TwoRoots, {m1}, {m2, m4}) \cup Defective(Fan, {m1}, {m4})

\* The host evaluates the root m1 while the root m2, which imports the same
\* asynchronous module, waits for its turn.
SharedByRoots == {World(TwoRoots, {m1, m2}, {}, {m3}, "none", m1)}
==============================================================================
