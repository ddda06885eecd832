----------------------------- MODULE BundleGraph -----------------------------
(***************************************************************************)
(* The module graph of a code-split provider on its way to a staged graph  *)
(* that can be compiled: extractGraphToFile sorts the require() edges into *)
(* safe ones, which become static imports, and cyclic ones, and orders the *)
(* modules; mergeStagedGraph then merges every cyclic group into one       *)
(* module, orders its bodies, orders the modules again, and refuses a      *)
(* graph in which a require() is left.                                     *)
(*                                                                         *)
(* Sources are abstracted to their edges.  The order in which a source     *)
(* names its targets, and whether it reads another module's binding while  *)
(* it evaluates, are read from its text: any answer is possible.           *)
(***************************************************************************)
EXTENDS Naturals, Sequences, FiniteSets

CONSTANTS N,       \* number of modules of the provider's graph
          Graphs   \* the graphs considered: [imports, requires], sets of pairs

Modules == 1..N
\* The k-th merged module, __clode-scc-<k-1>.js.
Merged(k) == N + k

ASSUME BundleGraphAssumption ==
  /\ N \in Nat
  /\ Graphs \subseteq [imports : SUBSET (Modules \X Modules),
                       requires : SUBSET (Modules \X Modules)]

VARIABLES
  given,     \* the graph as the provider has it
  imports,   \* static imports of the sources as they now are
  requires,  \* require() calls of graph modules left in them
  eager,     \* pairs of which the first was found to read the second eagerly
  names,     \* the modules in the order of the map, or of doc.order
  phase,
  round,     \* 1: extracting; 2: merging the staged graph
  deps,      \* classifyRequires: the working graph
  safe, cyclic,
  edge, frontier, seen,       \* reaches(edge[2], edge[1])
  frames, order,              \* planOrder: its stack, and its result
  num, low, st, work, comps,  \* cyclicGroups
  bodies,    \* the groups ordered so far
  before,    \* mergeBodyOrder: <<j, i>> when j's body comes before i's
  pairs,     \* the pairs it still has to look at
  emitted

doc     == <<given, imports, requires, eager, names>>
classes == <<deps, safe, cyclic, edge, frontier, seen>>
plan    == <<frames, order>>
tarjan  == <<num, low, st, work, comps>>
merging == <<bodies, before, pairs, emitted>>
vars    == <<doc, phase, round, classes, plan, tarjan, merging>>

ClosedUnder(S, G) == \A e \in G : e[1] \in S => e[2] \in S

\* A path of G leads from a to b: every set that holds a and is closed holds b.
Reaches(G, a, b) == \A S \in SUBSET Modules : a \in S /\ ClosedUnder(S, G) => b \in S

Acyclic(G)     == \A e \in G : ~Reaches(G, e[2], e[1])
Targets(G, x)  == {e[2] : e \in {f \in G : f[1] = x}}
Elems(s)       == {s[i] : i \in DOMAIN s}
Position(x, s) == CHOOSE i \in DOMAIN s : s[i] = x
Top(s)         == s[Len(s)]
Pop(s)         == SubSeq(s, 1, Len(s) - 1)
Sooner(x, y)   == Position(x, names) <= Position(y, names)
Lesser(a, b)   == IF a < b THEN a ELSE b

Init ==
  /\ given \in Graphs
  /\ imports = given.imports /\ requires = given.requires /\ eager = {}
  /\ names = [i \in Modules |-> i]
  /\ phase = "classify" /\ round = 1
  /\ deps = given.imports /\ safe = {} /\ cyclic = {}
  /\ edge = <<0, 0>> /\ frontier = {} /\ seen = {}
  /\ frames = <<>> /\ order = <<>>
  /\ num = [x \in Modules |-> 0] /\ low = [x \in Modules |-> 0]
  /\ st = <<>> /\ work = <<>> /\ comps = {}
  /\ bodies = <<>> /\ before = {} /\ pairs = {} /\ emitted = <<>>

-----------------------------------------------------------------------------
\* classifyRequires

Unclassified == requires \ (safe \cup cyclic)

\* The next edge: sources in the map's order, and any of their targets first.
TestRequire ==
  /\ phase = "classify"
  /\ \E e \in Unclassified :
       /\ \A f \in Unclassified : Sooner(e[1], f[1])
       /\ edge' = e /\ frontier' = {e[2]}
  /\ seen' = {}
  /\ phase' = "test"
  /\ UNCHANGED <<doc, round, deps, safe, cyclic, plan, tarjan, merging>>

\* reaches() takes a module from its stack that is not the one it looks for.
Search ==
  /\ phase = "test"
  /\ \E x \in frontier \ {edge[1]} :
       /\ seen' = seen \cup {x}
       /\ frontier' = (frontier \ {x}) \cup (Targets(deps, x) \ seen')
  /\ UNCHANGED <<doc, phase, round, deps, safe, cyclic, edge, plan, tarjan, merging>>

\* ... or the very one: an import would close a cycle.
LeaveRequire ==
  /\ phase = "test" /\ edge[1] \in frontier
  /\ cyclic' = cyclic \cup {edge}
  /\ phase' = "classify" /\ frontier' = {} /\ seen' = {}
  /\ UNCHANGED <<doc, round, deps, safe, edge, plan, tarjan, merging>>

\* Mutant: every edge is tested against the original graph.
MakeImportUncommitted ==
  /\ phase = "test" /\ frontier = {}
  /\ safe' = safe \cup {edge}
  /\ phase' = "classify" /\ seen' = {}
  /\ UNCHANGED <<doc, round, deps, cyclic, edge, frontier, plan, tarjan, merging>>

\* Nothing leads back: the edge is safe, and the next test sees it.
MakeImport ==
  /\ phase = "test" /\ frontier = {}
  /\ safe' = safe \cup {edge} /\ deps' = deps \cup {edge}
  /\ phase' = "classify" /\ seen' = {}
  /\ UNCHANGED <<doc, round, cyclic, edge, frontier, plan, tarjan, merging>>

\* rewriteSafeRequires; then planGraph orders the rewritten sources.
Rewrite ==
  /\ phase = "classify" /\ round = 1 /\ Unclassified = {}
  /\ imports' = imports \cup safe /\ requires' = requires \ safe
  /\ phase' = "plan"
  /\ UNCHANGED <<given, eager, names, round, classes, plan, tarjan, merging>>

-----------------------------------------------------------------------------
\* planOrder

Frame(x) == [node |-> x, left |-> Targets(imports, x)]
Planned  == Elems(order)
Open     == {frames[k].node : k \in DOMAIN frames}
Unplanned == Elems(names) \ Planned
Took(y)  == [frames EXCEPT ![Len(frames)].left = @ \ {y}]

PlanRoot ==
  /\ phase = "plan" /\ frames = <<>>
  /\ \E x \in Unplanned : (\A y \in Unplanned : Sooner(x, y)) /\ frames' = <<Frame(x)>>
  /\ UNCHANGED <<doc, phase, round, classes, order, tarjan, merging>>

\* Mutant: a module planned already is walked, and listed, again.
PlanDepAgain ==
  /\ phase = "plan" /\ frames # <<>>
  /\ \E y \in Top(frames).left \ Open : frames' = Append(Took(y), Frame(y))
  /\ UNCHANGED <<doc, phase, round, classes, order, tarjan, merging>>

PlanDep ==
  /\ phase = "plan" /\ frames # <<>>
  /\ \E y \in Top(frames).left \ Open :
       frames' = IF y \in Planned THEN Took(y) ELSE Append(Took(y), Frame(y))
  /\ UNCHANGED <<doc, phase, round, classes, order, tarjan, merging>>

\* An import cycle: the build stops.
PlanCycle ==
  /\ phase = "plan" /\ frames # <<>>
  /\ Top(frames).left \cap Open # {}
  /\ phase' = "refused"
  /\ UNCHANGED <<doc, round, classes, plan, tarjan, merging>>

PlanEmit ==
  /\ phase = "plan" /\ frames # <<>> /\ Top(frames).left = {}
  /\ order' = Append(order, Top(frames).node)
  /\ frames' = Pop(frames)
  /\ UNCHANGED <<doc, phase, round, classes, tarjan, merging>>

\* The order is doc.order.  After the merge no require() may be left.
Planning ==
  /\ phase = "plan" /\ frames = <<>> /\ Unplanned = {}
  /\ names' = order /\ order' = <<>>
  /\ phase' = IF round = 1 THEN "staged" ELSE IF requires = {} THEN "done" ELSE "refused"
  /\ UNCHANGED <<given, imports, requires, eager, round, classes, frames, tarjan, merging>>

-----------------------------------------------------------------------------
\* mergeStagedGraph: a graph without residual requires is left as it is; the
\* others are classified anew, for cyclicGroups.
Staged ==
  /\ phase = "staged"
  /\ IF requires = {}
     THEN phase' = "done" /\ UNCHANGED <<round, deps, safe, cyclic>>
     ELSE /\ phase' = "classify" /\ round' = 2
          /\ deps' = imports /\ safe' = {} /\ cyclic' = {}
  /\ UNCHANGED <<doc, edge, frontier, seen, plan, tarjan, merging>>

FindGroups ==
  /\ phase = "classify" /\ round = 2 /\ Unclassified = {}
  /\ phase' = "groups"
  /\ UNCHANGED <<doc, round, classes, plan, tarjan, merging>>

Adjacent(x) == Targets(deps \cup cyclic, x)
Fresh       == {x \in Modules : num[x] = 0}
Counter     == Cardinality(Modules \ Fresh) + 1
Enter(x, w) == /\ num' = [num EXCEPT ![x] = Counter] /\ low' = [low EXCEPT ![x] = Counter]
               /\ st' = Append(st, x)
               /\ work' = Append(w, [node |-> x, left |-> Adjacent(x)])
Drawn(w)    == [work EXCEPT ![Len(work)].left = @ \ {w}]

GroupRoot ==
  /\ phase = "groups" /\ work = <<>>
  /\ \E x \in Fresh : (\A y \in Fresh : Sooner(x, y)) /\ Enter(x, <<>>)
  /\ UNCHANGED <<doc, phase, round, classes, plan, comps, merging>>

\* Mutant: an edge to a module of a finished component counts.
GroupEdgeToFinished ==
  /\ phase = "groups" /\ work # <<>>
  /\ \E w \in Top(work).left :
       \/ num[w] = 0 /\ Enter(w, Drawn(w))
       \/ /\ num[w] # 0
          /\ work' = Drawn(w)
          /\ low' = [low EXCEPT ![Top(work).node] = Lesser(@, num[w])]
          /\ UNCHANGED <<num, st>>
  /\ UNCHANGED <<doc, phase, round, classes, plan, comps, merging>>

GroupEdge ==
  /\ phase = "groups" /\ work # <<>>
  /\ \E w \in Top(work).left :
       \/ num[w] = 0 /\ Enter(w, Drawn(w))
       \/ /\ num[w] # 0
          /\ work' = Drawn(w)
          /\ low' = IF w \in Elems(st)
                    THEN [low EXCEPT ![Top(work).node] = Lesser(@, num[w])]
                    ELSE low
          /\ UNCHANGED <<num, st>>
  /\ UNCHANGED <<doc, phase, round, classes, plan, comps, merging>>

\* The last edge: a root takes its component from the stack.
GroupLeave ==
  /\ phase = "groups" /\ work # <<>> /\ Top(work).left = {}
  /\ LET v    == Top(work).node
         rest == Pop(work)
     IN /\ work' = rest
        /\ IF low[v] = num[v]
           THEN \E at \in DOMAIN st :
                  LET comp == {st[i] : i \in at..Len(st)} IN
                  /\ st[at] = v /\ st' = SubSeq(st, 1, at - 1)
                  /\ comps' = IF Cardinality(comp) > 1 THEN comps \cup {comp} ELSE comps
           ELSE UNCHANGED <<st, comps>>
        /\ low' = IF rest = <<>> THEN low
                  ELSE [low EXCEPT ![Top(rest).node] = Lesser(@, low[v])]
  /\ UNCHANGED <<doc, phase, round, classes, plan, num, merging>>

-----------------------------------------------------------------------------
\* mergeCyclicGroups and mergeBodyOrder

\* The groups, by their first members, and a group's members that name others.
First(C)    == CHOOSE i \in DOMAIN names : names[i] \in C /\ \A j \in 1..(i - 1) : names[j] \notin C
Rank(C)     == Cardinality({D \in comps : First(D) <= First(C)})
Group(k)    == {x \in Modules : \E C \in comps : x \in C /\ Rank(C) = k}
Current     == Group(Len(bodies) + 1)
References(C) == {e \in imports \cup requires : {e[1], e[2]} \subseteq C /\ e[1] # e[2]}
IsNext(p)   == \A q \in pairs : /\ Sooner(p[1], q[1])
                                /\ p[1] = q[1] => Sooner(p[2], q[2])

GroupsFound == phase = "groups" /\ work = <<>> /\ Fresh = {}

\* Without a group the requires are not what they were taken for.
MergeGroups ==
  /\ GroupsFound
  /\ IF comps = {} THEN phase' = "refused" /\ UNCHANGED pairs
     ELSE phase' = "eager" /\ pairs' = References(Group(1))
  /\ UNCHANGED <<doc, round, classes, plan, tarjan, bodies, before, emitted>>

\* An eager read: the one that is read comes first, or there is no order.
EagerPair ==
  /\ phase = "eager"
  /\ \E p \in pairs :
     /\ IsNext(p) /\ pairs' = pairs \ {p}
     /\ \/ UNCHANGED <<eager, before, phase>>
        \/ /\ eager' = eager \cup {p}
           /\ IF Reaches(before, p[1], p[2])
              THEN phase' = "refused" /\ UNCHANGED before
              ELSE before' = before \cup {<<p[2], p[1]>>} /\ UNCHANGED phase
  /\ UNCHANGED <<given, imports, requires, names, round, classes, plan, tarjan, bodies, emitted>>

EagerDone ==
  /\ phase = "eager" /\ pairs = {}
  /\ phase' = "prefer" /\ pairs' = References(Current)
  /\ UNCHANGED <<doc, round, classes, plan, tarjan, bodies, before, emitted>>

\* Any other reference, unless what is decided says otherwise.
PreferPair ==
  /\ phase = "prefer"
  /\ \E p \in pairs :
     /\ IsNext(p) /\ pairs' = pairs \ {p}
     /\ before' = IF Reaches(before, p[1], p[2]) THEN before
                  ELSE before \cup {<<p[2], p[1]>>}
  /\ UNCHANGED <<doc, phase, round, classes, plan, tarjan, bodies, emitted>>

Ready == {x \in Current \ Elems(emitted) : \A e \in before : e[2] = x => e[1] \in Elems(emitted)}

EmitBody ==
  /\ phase = "prefer" /\ pairs = {}
  /\ \E x \in Ready : (\A y \in Ready : Sooner(x, y)) /\ emitted' = Append(emitted, x)
  /\ UNCHANGED <<doc, phase, round, classes, plan, tarjan, bodies, before, pairs>>

\* On to the next group.
GroupOrdered ==
  /\ phase = "prefer" /\ pairs = {} /\ Elems(emitted) = Current
  /\ bodies' = Append(bodies, emitted) /\ emitted' = <<>> /\ before' = {}
  /\ IF Len(bodies) + 1 < Cardinality(comps)
     THEN phase' = "eager" /\ pairs' = References(Group(Len(bodies) + 2))
     ELSE phase' = "apply" /\ UNCHANGED pairs
  /\ UNCHANGED <<doc, round, classes, plan, tarjan>>

Groups == DOMAIN bodies
InNone(x) == \A k \in Groups : x \notin Elems(bodies[k])

Members(k) == Elems(bodies[k])
Others(G, k) == (UNION {Targets(G, x) : x \in Members(k)}) \ Members(k)
Itself(G, k) == {x \in Members(k) : <<x, x>> \in G}

\* Mutant: the shim re-exports without an import, which depsOf does not see.
MergedImportsUnseen ==
  {e \in imports : InNone(e[1])} \cup UNION {{Merged(k)} \X Others(imports, k) : k \in Groups}

\* A member becomes a shim that imports the merged module, which imports what
\* the members imported; a module's require of itself is not rewritten.
Shims == UNION {Members(k) \X {Merged(k)} : k \in Groups}

MergedImports ==
  {e \in imports : InNone(e[1])} \cup Shims
    \cup UNION {{Merged(k)} \X Others(imports, k) : k \in Groups}

MergedRequires ==
  {e \in requires : InNone(e[1])}
    \cup UNION {{Merged(k)} \X (Others(requires, k) \cup Itself(requires, k)) : k \in Groups}

\* The rewritten sources are set, the merged modules at the end of the map, and
\* everything is ordered again.
ApplyMerge ==
  /\ phase = "apply"
  /\ imports' = MergedImports /\ requires' = MergedRequires
  /\ names' = names \o [k \in Groups |-> Merged(k)]
  /\ phase' = "plan"
  /\ UNCHANGED <<given, eager, round, classes, plan, tarjan, merging>>

-----------------------------------------------------------------------------
Classify == TestRequire \/ Search \/ LeaveRequire \/ MakeImport \/ Rewrite
Plan     == PlanRoot \/ PlanDep \/ PlanCycle \/ PlanEmit \/ Planning
FindAll  == FindGroups \/ GroupRoot \/ GroupEdge \/ GroupLeave
Merge    == Staged \/ MergeGroups \/ EagerPair \/ EagerDone \/ PreferPair \/ EmitBody
              \/ GroupOrdered \/ ApplyMerge
Finished == phase \in {"done", "refused"} /\ UNCHANGED vars

Next == Classify \/ Plan \/ FindAll \/ Merge \/ Finished

Spec == Init /\ [][Next]_vars

-----------------------------------------------------------------------------
Edges  == SUBSET (Modules \X Modules)
Frames(S) == [node : S, left : SUBSET S]

DocOK ==
  /\ given.imports \in Edges /\ given.requires \in Edges /\ eager \in Edges
  /\ imports \subseteq Nat \X Nat /\ requires \subseteq Nat \X Nat
  /\ names \in Seq(Nat)
PhaseOK ==
  /\ phase \in {"classify", "test", "plan", "staged", "groups", "eager", "prefer", "apply",
                "done", "refused"}
  /\ round \in {1, 2}
ClassesOK ==
  /\ deps \in Edges /\ safe \in Edges /\ cyclic \in Edges
  /\ edge \in (Modules \X Modules) \cup {<<0, 0>>}
  /\ frontier \subseteq Modules /\ seen \subseteq Modules
PlanOK ==
  /\ frames \in Seq(Frames(Nat)) /\ order \in Seq(Nat)
  /\ \A i, j \in DOMAIN order : order[i] = order[j] => i = j
TarjanOK ==
  /\ num \in [Modules -> 0..N] /\ low \in [Modules -> 0..N]
  /\ st \in Seq(Modules) /\ work \in Seq(Frames(Modules))
  /\ comps \subseteq SUBSET Modules
MergingOK ==
  /\ before \in Edges /\ pairs \in Edges
  /\ bodies \in Seq(Seq(Modules)) /\ emitted \in Seq(Modules)

\* Type correctness; a module is ordered once.
TypeOK == DocOK /\ PhaseOK /\ ClassesOK /\ PlanOK /\ TarjanOK /\ MergingOK

\* classifyRequires: no import made of a require lies on a cycle with those made
\* before or after it, and one that was left would have closed a cycle.
ClassesAreRight ==
  /\ \A e \in safe : ~Reaches(deps \cup safe, e[2], e[1])
  /\ \A e \in cyclic : Reaches(deps \cup safe, e[2], e[1])

\* cyclicGroups: the groups are the strongly connected components of more than
\* one module, and no residual require leaves its group.
GroupsAreComponents ==
  GroupsFound =>
    LET G == imports \cup requires
        Together(x, y) == Reaches(G, x, y) /\ Reaches(G, y, x)
    IN /\ comps = {C \in {{y \in Modules : Together(x, y)} : x \in Modules} : Cardinality(C) > 1}
       /\ \A e \in requires : e[1] # e[2] => \E C \in comps : {e[1], e[2]} \subseteq C

\* Where x's body is: a module of its own, or a place in a merged one.
Home(x)  == IF InNone(x) THEN x ELSE Merged(CHOOSE k \in Groups : x \in Members(k))
Place(x) == IF InNone(x) THEN 1
            ELSE LET b == bodies[CHOOSE k \in Groups : x \in Members(k)] IN Position(x, b)

InOrder(s, G) == \A k \in DOMAIN s : Targets(G, s[k]) \subseteq {s[j] : j \in 1..(k - 1)}
StagedRuns ==
  /\ requires = {}
  /\ Elems(names) = Modules \cup {Merged(k) : k \in Groups}
  /\ Len(names) = Cardinality(Elems(names))
  /\ InOrder(names, imports)
  /\ \A e \in given.imports \cup given.requires :
       IF Home(e[1]) = Home(e[2])
       THEN e \in eager => Place(e[2]) < Place(e[1])
       ELSE Position(Home(e[2]), names) < Position(Home(e[1]), names)

\* A staged graph works: no require is left, every module is compiled after
\* those it imports, what a module named is evaluated before it unless the two
\* were merged, and then too if it is read eagerly.  A refused one cannot be
\* staged: its imports form a cycle, a module requires itself, or the eager
\* reads of a group have no order.
VerdictIsRight ==
  /\ phase = "done" => StagedRuns
  /\ phase = "refused" => \/ ~Acyclic(given.imports)
                          \/ \E x \in Modules : <<x, x>> \in given.requires
                          \/ ~Acyclic(eager)
=============================================================================
