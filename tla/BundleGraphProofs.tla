-------------------------- MODULE BundleGraphProofs --------------------------
(***************************************************************************)
(* Proofs about BundleGraph, for every graph of any size: what the search  *)
(* of classifyRequires computes, that making imports of safe edges closes  *)
(* no cycle, that residual requires stay cyclic, that the order of a       *)
(* staged graph puts every module behind those it imports, that the        *)
(* extraction stops only at a graph whose own imports form a cycle, and    *)
(* that the groups cyclicGroups finds are the strongly connected           *)
(* components, with every residual require inside one of them, and that    *)
(* what mergeStagedGraph makes of them runs, or is refused for a reason;   *)
(* and that no loop on the way is ever stuck.                              *)
(***************************************************************************)
EXTENDS BundleGraph, TLAPS, FiniteSetTheorems

USE DEF Modules

-----------------------------------------------------------------------------
\* Reaches is a preorder that grows with the graph.
LEMMA ReachesItself ==
  ASSUME NEW G, NEW a
  PROVE  Reaches(G, a, a)
BY DEF Reaches

LEMMA ReachesOn ==
  ASSUME NEW G, NEW a, NEW b \in Modules, NEW c \in Modules, Reaches(G, a, b), <<b, c>> \in G
  PROVE  Reaches(G, a, c)
<1> SUFFICES ASSUME NEW S \in SUBSET Modules, a \in S, ClosedUnder(S, G)
             PROVE  c \in S
  BY DEF Reaches
<1>1. b \in S
  BY DEF Reaches
<1> QED
  BY <1>1 DEF ClosedUnder

LEMMA ReachesTransitive ==
  ASSUME NEW G, NEW a, NEW b, NEW c, Reaches(G, a, b), Reaches(G, b, c)
  PROVE  Reaches(G, a, c)
BY DEF Reaches

LEMMA ReachesMore ==
  ASSUME NEW G, NEW H, G \subseteq H, NEW a, NEW b, Reaches(G, a, b)
  PROVE  Reaches(H, a, b)
<1>1. \A S : ClosedUnder(S, H) => ClosedUnder(S, G)
  BY DEF ClosedUnder
<1> QED
  BY <1>1 DEF Reaches

\* A closed set is a witness that nothing outside it is reached.
LEMMA ClosedStops ==
  ASSUME NEW G, NEW S \in SUBSET Modules, ClosedUnder(S, G), NEW a \in S, NEW b, b \notin S
  PROVE  ~Reaches(G, a, b)
BY DEF Reaches

LEMMA ReachedIsClosed ==
  ASSUME NEW G \in SUBSET (Modules \X Modules), NEW a
  PROVE  ClosedUnder({x \in Modules : Reaches(G, a, x)}, G)
<1> DEFINE R == {x \in Modules : Reaches(G, a, x)}
<1> SUFFICES ASSUME NEW e \in G, e[1] \in R
             PROVE  e[2] \in R
  BY DEF ClosedUnder
<1>1. e[1] \in Modules /\ e[2] \in Modules /\ e = <<e[1], e[2]>>
  OBVIOUS
<1>2. Reaches(G, a, e[1])
  OBVIOUS
<1> QED
  BY <1>1, <1>2, ReachesOn

\* The crux of classifyRequires: an edge that closes no cycle puts no other edge
\* on one.
LEMMA SafeEdgeClosesNothing ==
  ASSUME NEW G \in SUBSET (Modules \X Modules), NEW i \in Modules, NEW v \in Modules,
         ~Reaches(G, v, i), NEW x \in Modules, NEW y \in Modules, <<x, y>> \in G,
         ~Reaches(G, y, x)
  PROVE  ~Reaches(G \cup {<<i, v>>}, y, x)
<1> DEFINE R(a) == {z \in Modules : Reaches(G, a, z)}
           H    == G \cup {<<i, v>>}
<1>1. \A a \in Modules : a \in R(a) /\ ClosedUnder(R(a), G)
  BY ReachesItself, ReachedIsClosed
<1>2. CASE ~Reaches(G, y, i)
  <2>1. ClosedUnder(R(y), H)
    BY <1>1, <1>2 DEF ClosedUnder
  <2> QED
    BY <1>1, <2>1, ClosedStops
<1>3. CASE Reaches(G, y, i)
  <2> DEFINE T == R(y) \cup R(v)
  <2>1. ClosedUnder(T, H)
    BY <1>1 DEF ClosedUnder
  <2>2. x \notin R(v)
    <3> SUFFICES ASSUME Reaches(G, v, x)
                 PROVE  FALSE
      OBVIOUS
    <3>1. Reaches(G, v, y)
      BY ReachesOn
    <3> QED
      BY <3>1, <1>3, ReachesTransitive
  <2>3. y \in T /\ x \notin T /\ T \in SUBSET Modules
    BY <1>1, <2>2
  <2> HIDE DEF T
  <2> QED
    BY <2>1, <2>3, ClosedStops
<1> QED
  BY <1>2, <1>3

\* The edge itself closes no cycle either.
LEMMA SafeEdgeIsSafe ==
  ASSUME NEW G \in SUBSET (Modules \X Modules), NEW i \in Modules, NEW v \in Modules,
         ~Reaches(G, v, i)
  PROVE  ~Reaches(G \cup {<<i, v>>}, v, i)
<1> DEFINE R == {z \in Modules : Reaches(G, v, z)}
           H == G \cup {<<i, v>>}
<1>1. v \in R /\ i \notin R /\ ClosedUnder(R, G) /\ R \in SUBSET Modules
  BY ReachesItself, ReachedIsClosed
<1>2. ClosedUnder(R, H)
  BY <1>1 DEF ClosedUnder
<1> HIDE DEF R
<1> QED
  BY <1>1, <1>2, ClosedStops

-----------------------------------------------------------------------------
\* Targets, and the other operators on graphs and sequences.
LEMMA TargetsAre ==
  ASSUME NEW A, NEW G, G \subseteq A \X A, NEW x
  PROVE  /\ Targets(G, x) \subseteq A
         /\ \A y : y \in Targets(G, x) <=> <<x, y>> \in G
BY DEF Targets

LEMMA TookIs ==
  ASSUME NEW S, NEW w \in Seq(Frames(S)), w # <<>>, NEW y
  PROVE  LET t == [w EXCEPT ![Len(w)].left = @ \ {y}] IN
         /\ t \in Seq(Frames(S)) /\ Len(t) = Len(w) /\ DOMAIN t = DOMAIN w
         /\ \A k \in DOMAIN w : t[k].node = w[k].node /\ (k # Len(w) => t[k] = w[k])
         /\ t[Len(w)].left = w[Len(w)].left \ {y}
<1>1. Len(w) \in DOMAIN w /\ w[Len(w)] \in Frames(S)
  OBVIOUS
<1>2. [w[Len(w)] EXCEPT !.left = @ \ {y}] \in Frames(S)
  BY <1>1 DEF Frames
<1> QED
  BY <1>1, <1>2 DEF Frames

LEMMA PopIs ==
  ASSUME NEW S, NEW w \in Seq(S), w # <<>>
  PROVE  /\ Pop(w) \in Seq(S) /\ Len(Pop(w)) = Len(w) - 1
         /\ \A k \in DOMAIN Pop(w) : k \in DOMAIN w /\ k < Len(w) /\ Pop(w)[k] = w[k]
         /\ Top(w) \in S
<1>1. Len(w) \in Nat \ {0} /\ \A k \in 1..Len(w) : w[k] \in S
  OBVIOUS
<1>2. Pop(w) = [k \in 1..(Len(w) - 1) |-> w[k]]
  BY <1>1 DEF Pop
<1> QED
  BY <1>1, <1>2 DEF Top

LEMMA TopTyped ==
  ASSUME NEW S, NEW w \in Seq(Frames(S)), w # <<>>
  PROVE  Top(w) \in Frames(S) /\ Top(w).node \in S /\ Top(w).left \subseteq S
<1>1. Top(w) \in Frames(S)
  BY PopIs
<1> QED
  BY <1>1 DEF Frames

LEMMA PrefixTyped ==
  ASSUME NEW S, NEW s \in Seq(S), NEW i \in DOMAIN s
  PROVE  s[i] \in S /\ SubSeq(s, 1, i - 1) \in Seq(S)
<1>1. /\ i \in Nat \ {0} /\ i <= Len(s) /\ Len(s) \in Nat
      /\ \A k \in 1..Len(s) : s[k] \in S
  OBVIOUS
<1>2. SubSeq(s, 1, i - 1) = [k \in 1..(i - 1) |-> s[k]]
  BY <1>1
<1>3. [k \in 1..(i - 1) |-> s[k]] \in Seq(S)
  BY <1>1
<1> QED
  BY <1>1, <1>2, <1>3

LEMMA AppendAdds ==
  ASSUME NEW S, NEW s \in Seq(S), NEW x \in S
  PROVE  Elems(Append(s, x)) = Elems(s) \cup {x}
<1>1. /\ DOMAIN Append(s, x) = DOMAIN s \cup {Len(s) + 1}
      /\ \A k \in DOMAIN s : Append(s, x)[k] = s[k]
      /\ Append(s, x)[Len(s) + 1] = x
  OBVIOUS
<1> QED
  BY <1>1 DEF Elems

-----------------------------------------------------------------------------
\* Before the merge is applied the graph is one of the provider's modules.
PreMerge == round = 1 \/ phase \notin {"plan", "done", "refused"}

PhaseInv ==
  /\ phase \in {"groups", "eager", "prefer", "apply"} => round = 2
  /\ phase = "staged" => round = 1

EdgesInv ==
  /\ PreMerge => imports \in Edges /\ requires \in Edges
  /\ phase = "test" => edge \in requires

\* planOrder's stack holds modules not listed yet, each once.
OpenInv ==
  /\ phase = "plan" => /\ Open \cap Planned = {}
                       /\ \A j, k \in DOMAIN frames : frames[j].node = frames[k].node => j = k
  /\ phase \notin {"plan", "refused"} => frames = <<>> /\ order = <<>>

\* The type invariant, with what makes it inductive.
Typed == TypeOK /\ PhaseInv /\ EdgesInv /\ OpenInv

LEMMA NumberFits ==
  ASSUME Typed, NEW x \in Fresh
  PROVE  Counter \in 1..N
<1>1. IsFiniteSet(Modules) /\ Cardinality(Modules) = N
  BY BundleGraphAssumption, FS_Interval
<1>2. x \in Modules
  BY DEF Fresh
<1>3. IsFiniteSet(Modules \ {x}) /\ Cardinality(Modules \ {x}) = N - 1
  BY <1>1, <1>2, FS_RemoveElement
<1>4. Modules \ Fresh \subseteq Modules \ {x}
  OBVIOUS
<1>5. /\ IsFiniteSet(Modules \ Fresh)
      /\ Cardinality(Modules \ Fresh) <= N - 1
  BY <1>3, <1>4, FS_Subset
<1>6. Cardinality(Modules \ Fresh) \in Nat
  BY <1>5, FS_CardinalityType
<1> QED
  BY <1>5, <1>6, BundleGraphAssumption DEF Counter

LEMMA TypedInit == Init => Typed
<1> SUFFICES ASSUME Init PROVE Typed
  OBVIOUS
<1>1. given.imports \in Edges /\ given.requires \in Edges
  BY BundleGraphAssumption DEF Init, Edges
<1> QED
  BY <1>1, BundleGraphAssumption
  DEF Init, Typed, TypeOK, DocOK, PhaseOK, ClassesOK, PlanOK, TarjanOK, MergingOK, PhaseInv, EdgesInv, OpenInv, PreMerge, Edges, Frames

\* What a step leaves alone stays well typed.
LEMMA Stays ==
  ASSUME Typed
  PROVE  /\ UNCHANGED doc => DocOK'
         /\ UNCHANGED classes => ClassesOK'
         /\ UNCHANGED plan => PlanOK'
         /\ UNCHANGED tarjan => TarjanOK'
         /\ UNCHANGED merging => MergingOK'
         /\ UNCHANGED <<imports, requires, edge, phase, round>> => EdgesInv' /\ PhaseInv'
         /\ UNCHANGED <<frames, order, phase>> => OpenInv'
<1> USE DEF Typed, TypeOK
<1>1. UNCHANGED doc => DocOK'
  BY DEF DocOK, doc
<1>2. UNCHANGED classes => ClassesOK'
  BY DEF ClassesOK, classes
<1>3. UNCHANGED plan => PlanOK'
  BY DEF PlanOK, plan
<1>4. UNCHANGED tarjan => TarjanOK'
  BY DEF TarjanOK, tarjan
<1>5. UNCHANGED merging => MergingOK'
  BY DEF MergingOK, merging
<1>6. UNCHANGED <<imports, requires, edge, phase, round>> => EdgesInv' /\ PhaseInv'
  BY DEF EdgesInv, PhaseInv, PreMerge
<1>7. UNCHANGED <<frames, order, phase>> => OpenInv'
  BY DEF OpenInv, Open, Planned, Elems
<1> QED
  BY <1>1, <1>2, <1>3, <1>4, <1>5, <1>6, <1>7

LEMMA ReferencesAreEdges ==
  ASSUME Typed, PreMerge, NEW C
  PROVE  References(C) \in Edges
BY DEF Typed, EdgesInv, References, Edges

LEMMA FrameTyped ==
  ASSUME Typed, NEW x \in Nat
  PROVE  Frame(x) \in Frames(Nat)
BY TargetsAre DEF Typed, TypeOK, DocOK, Frame, Frames

\* Entering a module numbers it, and puts it on both stacks.
LEMMA EnterTyped ==
  ASSUME Typed, NEW x \in Modules, x \in Fresh, NEW w \in Seq(Frames(Modules)), Enter(x, w),
         comps' = comps
  PROVE  TarjanOK'
<1>1. Counter \in 0..N
  BY NumberFits, BundleGraphAssumption
<1>2. num' \in [Modules -> 0..N] /\ low' \in [Modules -> 0..N] /\ st' \in Seq(Modules)
  BY <1>1 DEF Enter, Typed, TypeOK, TarjanOK
<1>3. Adjacent(x) \subseteq Modules
  BY TargetsAre DEF Adjacent, Typed, TypeOK, ClassesOK, Edges
<1>4. [node |-> x, left |-> Adjacent(x)] \in Frames(Modules)
  BY <1>3 DEF Frames
<1>5. work' \in Seq(Frames(Modules))
  BY <1>4 DEF Enter
<1> QED
  BY <1>2, <1>5 DEF Typed, TypeOK, TarjanOK

LEMMA TypedClassify == Typed /\ Classify => Typed'
<1> SUFFICES ASSUME Typed, Classify PROVE Typed'
  OBVIOUS
<1> USE DEF Typed, TypeOK
<1>1. CASE TestRequire
  <2>1. DocOK' /\ PlanOK' /\ TarjanOK' /\ MergingOK'
    BY <1>1, Stays DEF TestRequire
  <2>2. ClassesOK'
    BY <1>1 DEF TestRequire, Unclassified, ClassesOK, Edges, EdgesInv, PreMerge, PhaseInv, PhaseOK
  <2>3. PhaseOK' /\ PhaseInv' /\ EdgesInv'
    BY <1>1 DEF TestRequire, Unclassified, PhaseOK, PhaseInv, EdgesInv, PreMerge, doc
  <2>4. OpenInv'
    BY <1>1 DEF TestRequire, OpenInv, plan, Open, Planned, Elems
  <2> QED
    BY <2>1, <2>2, <2>3, <2>4
<1>2. CASE Search
  <2>1. DocOK' /\ PlanOK' /\ TarjanOK' /\ MergingOK'
    BY <1>2, Stays DEF Search
  <2>2. ClassesOK'
    <3>1. \A x : Targets(deps, x) \subseteq Modules
      BY TargetsAre DEF ClassesOK, Edges
    <3> QED
      BY <1>2, <3>1 DEF Search, ClassesOK
  <2>3. PhaseOK' /\ PhaseInv' /\ EdgesInv'
    BY <1>2 DEF Search, PhaseOK, PhaseInv, EdgesInv, PreMerge, Edges, doc, classes
  <2>4. OpenInv'
    BY <1>2 DEF Search, OpenInv, plan, Open, Planned, Elems
  <2> QED
    BY <2>1, <2>2, <2>3, <2>4
<1>3. CASE LeaveRequire
  <2>1. DocOK' /\ PlanOK' /\ TarjanOK' /\ MergingOK'
    BY <1>3, Stays DEF LeaveRequire
  <2>2. ClassesOK'
    BY <1>3 DEF LeaveRequire, ClassesOK, Edges, EdgesInv, PreMerge
  <2>3. PhaseOK' /\ PhaseInv' /\ EdgesInv'
    BY <1>3 DEF LeaveRequire, PhaseOK, PhaseInv, EdgesInv, PreMerge, Edges, doc, classes
  <2>4. OpenInv'
    BY <1>3 DEF LeaveRequire, OpenInv, plan, Open, Planned, Elems
  <2> QED
    BY <2>1, <2>2, <2>3, <2>4
<1>4. CASE MakeImport
  <2>1. DocOK' /\ PlanOK' /\ TarjanOK' /\ MergingOK'
    BY <1>4, Stays DEF MakeImport
  <2>2. ClassesOK'
    BY <1>4 DEF MakeImport, ClassesOK, Edges, EdgesInv, PreMerge
  <2>3. PhaseOK' /\ PhaseInv' /\ EdgesInv'
    BY <1>4 DEF MakeImport, PhaseOK, PhaseInv, EdgesInv, PreMerge, Edges, doc, classes
  <2>4. OpenInv'
    BY <1>4 DEF MakeImport, OpenInv, plan, Open, Planned, Elems
  <2> QED
    BY <2>1, <2>2, <2>3, <2>4
<1>5. CASE Rewrite
  <2>1. ClassesOK' /\ PlanOK' /\ TarjanOK' /\ MergingOK'
    BY <1>5, Stays DEF Rewrite
  <2>2. DocOK'
    BY <1>5 DEF Rewrite, DocOK, ClassesOK, Edges, EdgesInv, PreMerge
  <2>3. PhaseOK' /\ PhaseInv' /\ EdgesInv'
    BY <1>5 DEF Rewrite, PhaseOK, PhaseInv, EdgesInv, PreMerge, Edges, ClassesOK
  <2>4. OpenInv'
    BY <1>5 DEF Rewrite, OpenInv, plan, Open, Planned, Elems
  <2> QED
    BY <2>1, <2>2, <2>3, <2>4
<1> QED
  BY <1>1, <1>2, <1>3, <1>4, <1>5 DEF Classify

LEMMA TypedPlan == Typed /\ Plan => Typed'
<1> SUFFICES ASSUME Typed, Plan PROVE Typed'
  OBVIOUS
<1> USE DEF Typed, TypeOK
<1>1. CASE PlanRoot
  <2>1. DocOK' /\ ClassesOK' /\ TarjanOK' /\ MergingOK'
    BY <1>1, Stays DEF PlanRoot
  <2>2. PlanOK'
    BY <1>1, FrameTyped DEF PlanRoot, PlanOK, Unplanned, Elems, DocOK
  <2>3. PhaseOK' /\ PhaseInv' /\ EdgesInv'
    BY <1>1 DEF PlanRoot, PhaseOK, PhaseInv, EdgesInv, PreMerge, Edges, doc, classes
  <2>4. OpenInv'
    <3> SUFFICES ASSUME NEW x \in Unplanned, frames' = <<Frame(x)>>
                 PROVE  OpenInv'
      BY <1>1 DEF PlanRoot
    <3>1. Open' = {x}
      BY DEF Open, Frame
    <3> QED
      BY <1>1, <3>1 DEF PlanRoot, OpenInv, Planned, Unplanned, Frame
  <2> QED
    BY <2>1, <2>2, <2>3, <2>4
<1>2. CASE PlanDep
  <2>1. DocOK' /\ ClassesOK' /\ TarjanOK' /\ MergingOK'
    BY <1>2, Stays DEF PlanDep
  <2>2. PlanOK'
    <3> SUFFICES ASSUME NEW y \in Top(frames).left
                 PROVE  Took(y) \in Seq(Frames(Nat)) /\ Append(Took(y), Frame(y)) \in Seq(Frames(Nat))
      BY <1>2 DEF PlanDep, PlanOK
    <3>1. frames \in Seq(Frames(Nat)) /\ frames # <<>>
      BY <1>2 DEF PlanDep, PlanOK
    <3>2. y \in Nat
      BY <3>1, TopTyped
    <3>3. Frame(y) \in Frames(Nat)
      BY <3>2, FrameTyped
    <3>4. Took(y) \in Seq(Frames(Nat))
      BY <3>1, TookIs DEF Took
    <3> QED
      BY <3>3, <3>4
  <2>3. PhaseOK' /\ PhaseInv' /\ EdgesInv'
    BY <1>2 DEF PlanDep, PhaseOK, PhaseInv, EdgesInv, PreMerge, Edges, doc, classes
  <2>4. OpenInv'
    <3>1. frames \in Seq(Frames(Nat)) /\ frames # <<>>
      BY <1>2 DEF PlanDep, PlanOK
    <3>2. /\ Open \cap Planned = {}
          /\ \A j, k \in DOMAIN frames : frames[j].node = frames[k].node => j = k
      BY <1>2 DEF PlanDep, OpenInv
    <3>3. PICK y \in Top(frames).left \ Open :
            frames' = IF y \in Planned THEN Took(y) ELSE Append(Took(y), Frame(y))
      BY <1>2 DEF PlanDep
    <3>4. /\ Took(y) \in Seq(Frames(Nat)) /\ Len(Took(y)) = Len(frames)
          /\ DOMAIN Took(y) = DOMAIN frames
          /\ \A k \in DOMAIN frames : Took(y)[k].node = frames[k].node
      BY <3>1, TookIs DEF Took
    <3>5. Planned' = Planned
      BY <1>2 DEF PlanDep, Planned, Elems
    <3>6. CASE y \in Planned
      <4>1. Open' = Open
        BY <3>3, <3>4, <3>6 DEF Open
      <4> QED
        BY <1>2, <3>2, <3>3, <3>4, <3>5, <3>6, <4>1 DEF PlanDep, OpenInv
    <3>7. CASE y \notin Planned
      <4> DEFINE t == Append(Took(y), Frame(y))
      <4>1. /\ DOMAIN t = 1..(Len(frames) + 1)
            /\ \A k \in DOMAIN frames : t[k].node = frames[k].node
            /\ t[Len(frames) + 1].node = y
        BY <3>1, <3>4 DEF Frame
      <4>2. \A k \in DOMAIN frames : frames[k].node # y
        BY <3>3 DEF Open
      <4>3. DOMAIN frames = 1..Len(frames) /\ Len(frames) \in Nat
        BY <3>1
      <4>4. frames' = t
        BY <3>3, <3>7
      <4> HIDE DEF t
      <4>5. Open' = Open \cup {y}
        BY <4>1, <4>3, <4>4 DEF Open
      <4>6. \A j, k \in DOMAIN t : t[j].node = t[k].node => j = k
        BY <3>2, <4>1, <4>2, <4>3
      <4> QED
        BY <1>2, <3>2, <3>5, <3>7, <4>4, <4>5, <4>6 DEF PlanDep, OpenInv
    <3> QED
      BY <3>6, <3>7
  <2> QED
    BY <2>1, <2>2, <2>3, <2>4
<1>3. CASE PlanCycle
  <2>1. DocOK' /\ ClassesOK' /\ PlanOK' /\ TarjanOK' /\ MergingOK'
    BY <1>3, Stays DEF PlanCycle
  <2>2. PhaseOK' /\ PhaseInv' /\ EdgesInv'
    BY <1>3 DEF PlanCycle, PhaseOK, PhaseInv, EdgesInv, PreMerge, Edges, doc, classes
  <2>3. OpenInv'
    BY <1>3 DEF PlanCycle, OpenInv, plan, Open, Planned, Elems
  <2> QED
    BY <2>1, <2>2, <2>3
<1>4. CASE PlanEmit
  <2>1. DocOK' /\ ClassesOK' /\ TarjanOK' /\ MergingOK'
    BY <1>4, Stays DEF PlanEmit
  <2>2. PlanOK'
    <3>1. frames \in Seq(Frames(Nat)) /\ frames # <<>>
      BY <1>4 DEF PlanEmit, PlanOK
    <3>2. Pop(frames) \in Seq(Frames(Nat)) /\ Top(frames).node \in Nat
      BY <3>1, PopIs, TopTyped
    <3>3. Top(frames).node \in Open
      BY <3>1 DEF Open, Top
    <3>4. \A i \in DOMAIN order : order[i] # Top(frames).node
      BY <1>4, <3>3 DEF PlanEmit, OpenInv, Planned, Elems
    <3>5. \A i, j \in DOMAIN order' : order'[i] = order'[j] => i = j
      BY <1>4, <3>2, <3>4 DEF PlanEmit, PlanOK
    <3> QED
      BY <1>4, <3>2, <3>5 DEF PlanEmit, PlanOK
  <2>3. PhaseOK' /\ PhaseInv' /\ EdgesInv'
    BY <1>4 DEF PlanEmit, PhaseOK, PhaseInv, EdgesInv, PreMerge, Edges, doc, classes
  <2>4. OpenInv'
    <3>1. frames \in Seq(Frames(Nat)) /\ frames # <<>> /\ order \in Seq(Nat)
      BY <1>4 DEF PlanEmit, PlanOK
    <3>2. /\ Open \cap Planned = {}
          /\ \A j, k \in DOMAIN frames : frames[j].node = frames[k].node => j = k
      BY <1>4 DEF PlanEmit, OpenInv
    <3>3. /\ DOMAIN Pop(frames) = 1..(Len(frames) - 1) /\ DOMAIN frames = 1..Len(frames)
          /\ \A k \in DOMAIN Pop(frames) : k \in DOMAIN frames /\ k < Len(frames)
                                          /\ Pop(frames)[k] = frames[k]
          /\ Len(frames) \in Nat \ {0}
      BY <3>1, PopIs
    <3>4. Open' = Open \ {Top(frames).node}
      BY <1>4, <3>2, <3>3 DEF PlanEmit, Open, Top
    <3>5. Planned' = Planned \cup {Top(frames).node}
      BY <1>4, <3>1, TopTyped, AppendAdds DEF PlanEmit, Planned
    <3>6. \A j, k \in DOMAIN frames' : frames'[j].node = frames'[k].node => j = k
      BY <1>4, <3>2, <3>3 DEF PlanEmit
    <3> QED
      BY <1>4, <3>2, <3>4, <3>5, <3>6 DEF PlanEmit, OpenInv
  <2> QED
    BY <2>1, <2>2, <2>3, <2>4
<1>5. CASE Planning
  <2>1. ClassesOK' /\ TarjanOK' /\ MergingOK'
    BY <1>5, Stays DEF Planning
  <2>2. DocOK'
    BY <1>5 DEF Planning, DocOK, PlanOK
  <2>3. PlanOK'
    BY <1>5 DEF Planning, PlanOK
  <2>4. PhaseOK' /\ PhaseInv' /\ EdgesInv'
    BY <1>5 DEF Planning, PhaseOK, PhaseInv, EdgesInv, PreMerge, Edges, doc, classes
  <2>5. OpenInv'
    BY <1>5 DEF Planning, OpenInv, plan, Open, Planned, Elems
  <2> QED
    BY <2>1, <2>2, <2>3, <2>4, <2>5
<1> QED
  BY <1>1, <1>2, <1>3, <1>4, <1>5 DEF Plan

LEMMA TypedFindAll == Typed /\ FindAll => Typed'
<1> SUFFICES ASSUME Typed, FindAll PROVE Typed'
  OBVIOUS
<1> USE DEF Typed, TypeOK
<1>1. CASE FindGroups
  <2>1. DocOK' /\ ClassesOK' /\ PlanOK' /\ TarjanOK' /\ MergingOK'
    BY <1>1, Stays DEF FindGroups
  <2>2. PhaseOK' /\ PhaseInv' /\ EdgesInv'
    BY <1>1 DEF FindGroups, PhaseOK, PhaseInv, EdgesInv, PreMerge, Edges, doc, classes
  <2>3. OpenInv'
    BY <1>1 DEF FindGroups, OpenInv, plan, Open, Planned, Elems
  <2> QED
    BY <2>1, <2>2, <2>3
<1>2. CASE GroupRoot
  <2>1. DocOK' /\ ClassesOK' /\ PlanOK' /\ MergingOK'
    BY <1>2, Stays DEF GroupRoot
  <2>2. TarjanOK'
    <3>1. PICK x \in Fresh : Enter(x, <<>>)
      BY <1>2 DEF GroupRoot
    <3>2. <<>> \in Seq(Frames(Modules)) /\ x \in Modules /\ comps' = comps
      BY <1>2 DEF GroupRoot, Fresh
    <3> QED
      BY <3>1, <3>2, EnterTyped
  <2>3. PhaseOK' /\ PhaseInv' /\ EdgesInv'
    BY <1>2 DEF GroupRoot, PhaseOK, PhaseInv, EdgesInv, PreMerge, Edges, doc, classes
  <2>4. OpenInv'
    BY <1>2 DEF GroupRoot, OpenInv, plan, Open, Planned, Elems
  <2> QED
    BY <2>1, <2>2, <2>3, <2>4
<1>3. CASE GroupEdge
  <2>1. DocOK' /\ ClassesOK' /\ PlanOK' /\ MergingOK'
    BY <1>3, Stays DEF GroupEdge
  <2>2. TarjanOK'
    <3>1. work \in Seq(Frames(Modules)) /\ work # <<>>
      BY <1>3 DEF GroupEdge, TarjanOK
    <3>2. PICK w \in Top(work).left :
            \/ num[w] = 0 /\ Enter(w, Drawn(w))
            \/ /\ num[w] # 0
               /\ work' = Drawn(w)
               /\ low' = IF w \in Elems(st)
                         THEN [low EXCEPT ![Top(work).node] = Lesser(@, num[w])]
                         ELSE low
               /\ UNCHANGED <<num, st>>
      BY <1>3 DEF GroupEdge
    <3>3. w \in Modules /\ Top(work).node \in Modules
      BY <3>1, TopTyped
    <3>4. Drawn(w) \in Seq(Frames(Modules))
      BY <3>1, TookIs DEF Drawn
    <3>5. comps' = comps
      BY <1>3 DEF GroupEdge
    <3>6. CASE num[w] = 0
      BY <3>2, <3>3, <3>4, <3>5, <3>6, EnterTyped DEF Fresh
    <3>7. CASE num[w] # 0
      <4>1. low' \in [Modules -> 0..N]
        BY <3>2, <3>3, <3>7, BundleGraphAssumption DEF TarjanOK, Lesser
      <4> QED
        BY <3>2, <3>4, <3>5, <3>7, <4>1 DEF TarjanOK
    <3> QED
      BY <3>6, <3>7
  <2>3. PhaseOK' /\ PhaseInv' /\ EdgesInv'
    BY <1>3 DEF GroupEdge, PhaseOK, PhaseInv, EdgesInv, PreMerge, Edges, doc, classes
  <2>4. OpenInv'
    BY <1>3 DEF GroupEdge, OpenInv, plan, Open, Planned, Elems
  <2> QED
    BY <2>1, <2>2, <2>3, <2>4
<1>4. CASE GroupLeave
  <2>1. DocOK' /\ ClassesOK' /\ PlanOK' /\ MergingOK'
    BY <1>4, Stays DEF GroupLeave
  <2>2. TarjanOK'
    <3>1. work \in Seq(Frames(Modules)) /\ work # <<>>
      BY <1>4 DEF GroupLeave, TarjanOK
    <3>2. work' \in Seq(Frames(Modules))
      BY <1>4, <3>1, PopIs DEF GroupLeave
    <3>3. Top(work).node \in Modules /\ (Pop(work) # <<>> => Top(Pop(work)).node \in Modules)
      BY <3>1, PopIs, TopTyped
    <3>4. low' \in [Modules -> 0..N]
      BY <1>4, <3>3, BundleGraphAssumption DEF GroupLeave, TarjanOK, Lesser
    <3>5. \A i \in DOMAIN st : st[i] \in Modules /\ SubSeq(st, 1, i - 1) \in Seq(Modules)
      BY PrefixTyped DEF TarjanOK
    <3>6. st' \in Seq(Modules) /\ comps' \subseteq SUBSET Modules
      <4>1. CASE low[Top(work).node] = num[Top(work).node]
        <5>1. PICK at \in DOMAIN st :
                LET comp == {st[i] : i \in at..Len(st)} IN
                /\ st' = SubSeq(st, 1, at - 1)
                /\ comps' = IF Cardinality(comp) > 1 THEN comps \cup {comp} ELSE comps
          BY <1>4, <4>1 DEF GroupLeave
        <5>2. {st[i] : i \in at..Len(st)} \subseteq Modules
          BY <3>5 DEF TarjanOK
        <5> QED
          BY <3>5, <5>1, <5>2 DEF TarjanOK
      <4>2. CASE low[Top(work).node] # num[Top(work).node]
        BY <1>4, <4>2 DEF GroupLeave, TarjanOK
      <4> QED
        BY <4>1, <4>2
    <3> QED
      BY <1>4, <3>2, <3>4, <3>6 DEF GroupLeave, TarjanOK
  <2>3. PhaseOK' /\ PhaseInv' /\ EdgesInv'
    BY <1>4 DEF GroupLeave, PhaseOK, PhaseInv, EdgesInv, PreMerge, Edges, doc, classes
  <2>4. OpenInv'
    BY <1>4 DEF GroupLeave, OpenInv, plan, Open, Planned, Elems
  <2> QED
    BY <2>1, <2>2, <2>3, <2>4
<1> QED
  BY <1>1, <1>2, <1>3, <1>4 DEF FindAll

LEMMA TypedMerge == Typed /\ Merge => Typed'
<1> SUFFICES ASSUME Typed, Merge PROVE Typed'
  OBVIOUS
<1> USE DEF Typed, TypeOK
<1>1. CASE Staged
  <2>1. DocOK' /\ PlanOK' /\ TarjanOK' /\ MergingOK'
    BY <1>1, Stays DEF Staged, classes
  <2>2. ClassesOK'
    BY <1>1 DEF Staged, ClassesOK, Edges, EdgesInv, PreMerge, PhaseInv
  <2>3. PhaseOK' /\ PhaseInv' /\ EdgesInv'
    BY <1>1 DEF Staged, PhaseOK, PhaseInv, EdgesInv, PreMerge, Edges, doc, classes
  <2>4. OpenInv'
    BY <1>1 DEF Staged, OpenInv, plan, Open, Planned, Elems
  <2> QED
    BY <2>1, <2>2, <2>3, <2>4
<1>2. CASE MergeGroups
  <2>1. DocOK' /\ ClassesOK' /\ PlanOK' /\ TarjanOK'
    BY <1>2, Stays DEF MergeGroups
  <2>2. MergingOK'
    BY <1>2, ReferencesAreEdges DEF MergeGroups, GroupsFound, MergingOK, PreMerge, Edges
  <2>3. PhaseOK' /\ PhaseInv' /\ EdgesInv'
    BY <1>2 DEF MergeGroups, GroupsFound, PhaseOK, PhaseInv, EdgesInv, PreMerge, doc
  <2>4. OpenInv'
    BY <1>2 DEF MergeGroups, GroupsFound, OpenInv, plan
  <2> QED
    BY <2>1, <2>2, <2>3, <2>4
<1>3. CASE EagerPair
  <2>1. ClassesOK' /\ PlanOK' /\ TarjanOK'
    BY <1>3, Stays DEF EagerPair
  <2>2. DocOK'
    BY <1>3 DEF EagerPair, DocOK, MergingOK, Edges
  <2>3. MergingOK'
    BY <1>3 DEF EagerPair, MergingOK, Edges
  <2>4. PhaseOK' /\ PhaseInv' /\ EdgesInv'
    BY <1>3 DEF EagerPair, PhaseOK, PhaseInv, EdgesInv, PreMerge, Edges, doc, classes
  <2>5. OpenInv'
    BY <1>3 DEF EagerPair, OpenInv, plan, Open, Planned, Elems
  <2> QED
    BY <2>1, <2>2, <2>3, <2>4, <2>5
<1>4. CASE EagerDone
  <2>1. DocOK' /\ ClassesOK' /\ PlanOK' /\ TarjanOK'
    BY <1>4, Stays DEF EagerDone
  <2>2. MergingOK'
    BY <1>4, ReferencesAreEdges DEF EagerDone, MergingOK, PreMerge
  <2>3. PhaseOK' /\ PhaseInv' /\ EdgesInv'
    BY <1>4 DEF EagerDone, PhaseOK, PhaseInv, EdgesInv, PreMerge, Edges, doc, classes
  <2>4. OpenInv'
    BY <1>4 DEF EagerDone, OpenInv, plan, Open, Planned, Elems
  <2> QED
    BY <2>1, <2>2, <2>3, <2>4
<1>5. CASE PreferPair
  <2>1. DocOK' /\ ClassesOK' /\ PlanOK' /\ TarjanOK'
    BY <1>5, Stays DEF PreferPair
  <2>2. MergingOK'
    BY <1>5 DEF PreferPair, MergingOK, Edges
  <2>3. PhaseOK' /\ PhaseInv' /\ EdgesInv'
    BY <1>5 DEF PreferPair, PhaseOK, PhaseInv, EdgesInv, PreMerge, Edges, doc, classes
  <2>4. OpenInv'
    BY <1>5 DEF PreferPair, OpenInv, plan, Open, Planned, Elems
  <2> QED
    BY <2>1, <2>2, <2>3, <2>4
<1>6. CASE EmitBody
  <2>1. DocOK' /\ ClassesOK' /\ PlanOK' /\ TarjanOK'
    BY <1>6, Stays DEF EmitBody
  <2>2. MergingOK'
    BY <1>6 DEF EmitBody, Ready, Current, Group, MergingOK
  <2>3. PhaseOK' /\ PhaseInv' /\ EdgesInv'
    BY <1>6 DEF EmitBody, PhaseOK, PhaseInv, EdgesInv, PreMerge, Edges, doc, classes
  <2>4. OpenInv'
    BY <1>6 DEF EmitBody, OpenInv, plan, Open, Planned, Elems
  <2> QED
    BY <2>1, <2>2, <2>3, <2>4
<1>7. CASE GroupOrdered
  <2>1. DocOK' /\ ClassesOK' /\ PlanOK' /\ TarjanOK'
    BY <1>7, Stays DEF GroupOrdered
  <2>2. MergingOK'
    BY <1>7, ReferencesAreEdges DEF GroupOrdered, MergingOK, PreMerge, Edges
  <2>3. PhaseOK' /\ PhaseInv' /\ EdgesInv'
    BY <1>7 DEF GroupOrdered, PhaseOK, PhaseInv, EdgesInv, PreMerge, Edges, doc, classes
  <2>4. OpenInv'
    BY <1>7 DEF GroupOrdered, OpenInv, plan, Open, Planned, Elems
  <2> QED
    BY <2>1, <2>2, <2>3, <2>4
<1>8. CASE ApplyMerge
  <2>1. ClassesOK' /\ PlanOK' /\ TarjanOK' /\ MergingOK'
    BY <1>8, Stays DEF ApplyMerge
  <2>2. DocOK'
    <3>1. imports \in Edges /\ requires \in Edges
      BY <1>8 DEF ApplyMerge, EdgesInv, PreMerge
    <3>2. \A k \in Groups : Merged(k) \in Nat /\ Members(k) \subseteq Modules
      BY BundleGraphAssumption DEF MergingOK, Groups, Merged, Members, Elems
    <3>3. \A k \in Groups : /\ Others(imports, k) \subseteq Modules
                            /\ Others(requires, k) \subseteq Modules
                            /\ Itself(requires, k) \subseteq Modules
      <4>1. \A x : Targets(imports, x) \subseteq Modules /\ Targets(requires, x) \subseteq Modules
        BY <3>1, TargetsAre DEF Edges
      <4> QED
        BY <3>2, <4>1 DEF Others, Itself
    <3>4. Modules \subseteq Nat
      OBVIOUS
    <3>5. imports' \subseteq Nat \X Nat
      BY <1>8, <3>1, <3>2, <3>3, <3>4 DEF ApplyMerge, MergedImports, Shims, Edges
    <3>6. requires' \subseteq Nat \X Nat
      BY <1>8, <3>1, <3>2, <3>3, <3>4 DEF ApplyMerge, MergedRequires, Edges
    <3>7. [k \in Groups |-> Merged(k)] \in Seq(Nat)
      <4>1. Groups = 1..Len(bodies) /\ Len(bodies) \in Nat
        BY DEF MergingOK, Groups
      <4> QED
        BY <3>2, <4>1
    <3>8. names' \in Seq(Nat)
      BY <1>8, <3>7 DEF ApplyMerge, DocOK
    <3> QED
      BY <1>8, <3>5, <3>6, <3>8 DEF ApplyMerge, DocOK
  <2>3. PhaseOK' /\ PhaseInv' /\ EdgesInv'
    BY <1>8 DEF ApplyMerge, PhaseOK, PhaseInv, EdgesInv, PreMerge, Edges, doc, classes
  <2>4. OpenInv'
    BY <1>8 DEF ApplyMerge, OpenInv, plan, Open, Planned, Elems
  <2> QED
    BY <2>1, <2>2, <2>3, <2>4
<1> QED
  BY <1>1, <1>2, <1>3, <1>4, <1>5, <1>6, <1>7, <1>8 DEF Merge

\* Every step of the specification.
LEMMA TypedStep == Typed /\ [Next]_vars => Typed'
<1> SUFFICES ASSUME Typed, [Next]_vars PROVE Typed'
  OBVIOUS
<1>1. CASE Finished \/ UNCHANGED vars
  BY <1>1, Stays DEF Finished, vars, doc, classes, plan, Typed, TypeOK, PhaseOK
<1> QED
  BY <1>1, TypedClassify, TypedPlan, TypedFindAll, TypedMerge DEF Next

\* Type correctness, whatever the graph: a module is ordered once.
THEOREM TypeCorrect == Spec => []TypeOK
<1>1. Typed => TypeOK
  BY DEF Typed
<1> QED
  BY TypedInit, TypedStep, <1>1, PTL DEF Spec

-----------------------------------------------------------------------------
\* reaches(edge[2], edge[1]): what was seen is reached, and what it leads to was
\* seen or is due; the module looked for was not seen.
SearchInv ==
  phase = "test" =>
    /\ edge[2] \in seen \cup frontier /\ edge[1] \notin seen
    /\ \A x \in seen : Targets(deps, x) \subseteq seen \cup frontier
    /\ \A x \in seen \cup frontier : Reaches(deps, edge[2], x)

\* The working graph holds the safe edges, and is acyclic if the imports are.
ClassInv ==
  /\ safe \subseteq deps
  /\ \A e \in safe : ~Reaches(deps, e[2], e[1])
  /\ \A e \in cyclic : Reaches(deps, e[2], e[1])
  /\ Acyclic(given.imports) => Acyclic(deps)

\* The working graph is the graph itself once the sources are rewritten, and the
\* requires that are left are cyclic in it: to the second classification too.
Rewritten == PreMerge /\ (round = 2 \/ phase \notin {"classify", "test"})
LinkInv ==
  /\ round = 1 /\ phase \in {"classify", "test"} => deps = imports \cup safe
  /\ Rewritten => /\ deps = imports
                  /\ \A e \in requires : Reaches(imports, e[2], e[1])

Sorted == Typed /\ SearchInv /\ ClassInv /\ LinkInv

\* The search has ended without finding the module it looked for.
LEMMA SearchedIsUnreached ==
  ASSUME Sorted, phase = "test", frontier = {}
  PROVE  ~Reaches(deps, edge[2], edge[1]) /\ edge[1] \in Modules /\ edge[2] \in Modules
         /\ edge = <<edge[1], edge[2]>>
<1> USE DEF Sorted, Typed, TypeOK
<1>1. edge \in Modules \X Modules
  BY DEF EdgesInv, PreMerge, Edges, PhaseOK
<1>2. \A x, y : <<x, y>> \in deps /\ x \in seen => y \in seen
  BY TargetsAre DEF SearchInv, ClassesOK, Edges
<1>3. ClosedUnder(seen, deps)
  BY <1>2 DEF ClosedUnder, ClassesOK, Edges
<1>4. seen \in SUBSET Modules /\ edge[2] \in seen /\ edge[1] \notin seen
  BY DEF SearchInv, ClassesOK
<1> QED
  BY <1>1, <1>3, <1>4, ClosedStops

LEMMA SortedInit == Init => Sorted
<1> SUFFICES ASSUME Init PROVE Sorted
  OBVIOUS
<1> QED
  BY TypedInit DEF Init, Sorted, SearchInv, ClassInv, LinkInv, Rewritten

LEMMA SortedClassify == Sorted /\ Classify => Sorted'
<1> SUFFICES ASSUME Sorted, Classify PROVE Sorted'
  OBVIOUS
<1> USE DEF Sorted
<1>1. Typed'
  BY TypedClassify
<1>2. CASE TestRequire
  <2>1. SearchInv'
    BY <1>2, ReachesItself DEF TestRequire, SearchInv, Unclassified
  <2>2. ClassInv' /\ LinkInv'
    BY <1>2 DEF TestRequire, ClassInv, LinkInv, Rewritten, PreMerge, Acyclic, doc
  <2> QED
    BY <1>1, <2>1, <2>2
<1>3. CASE Search
  <2>1. SearchInv'
    <3>1. PICK x \in frontier \ {edge[1]} :
            /\ seen' = seen \cup {x}
            /\ frontier' = (frontier \ {x}) \cup (Targets(deps, x) \ seen')
      BY <1>3 DEF Search
    <3>2. deps \in Edges /\ edge' = edge /\ deps' = deps /\ x \in Modules
      BY <1>3, <3>1 DEF Search, Typed, TypeOK, ClassesOK
    <3>3. Reaches(deps, edge[2], x)
      BY <1>3 DEF Search, SearchInv
    <3>4. \A y \in Targets(deps, x) : Reaches(deps, edge[2], y)
      <4> SUFFICES ASSUME NEW y \in Targets(deps, x)
                   PROVE  Reaches(deps, edge[2], y)
        OBVIOUS
      <4>1. <<x, y>> \in deps /\ y \in Modules
        BY <3>2, TargetsAre DEF Edges
      <4> QED
        BY <3>2, <3>3, <4>1, ReachesOn
    <3> QED
      BY <1>3, <3>1, <3>2, <3>3, <3>4 DEF Search, SearchInv
  <2>2. ClassInv' /\ LinkInv'
    BY <1>3 DEF Search, ClassInv, LinkInv, Rewritten, PreMerge, Acyclic, doc
  <2> QED
    BY <1>1, <2>1, <2>2
<1>4. CASE LeaveRequire
  <2>1. Reaches(deps, edge[2], edge[1])
    BY <1>4 DEF LeaveRequire, SearchInv
  <2>2. ClassInv'
    BY <1>4, <2>1 DEF LeaveRequire, ClassInv, Acyclic, doc
  <2>3. SearchInv' /\ LinkInv'
    BY <1>4 DEF LeaveRequire, SearchInv, LinkInv, Rewritten, PreMerge, doc
  <2> QED
    BY <1>1, <2>2, <2>3
<1>5. CASE MakeImport
  <2>1. /\ ~Reaches(deps, edge[2], edge[1]) /\ edge[1] \in Modules /\ edge[2] \in Modules
        /\ edge = <<edge[1], edge[2]>>
    BY <1>5, SearchedIsUnreached DEF MakeImport
  <2>2. deps \in Edges /\ deps' = deps \cup {<<edge[1], edge[2]>>}
    BY <1>5, <2>1 DEF MakeImport, Typed, TypeOK, ClassesOK
  <2>3. \A e \in deps : ~Reaches(deps, e[2], e[1]) => ~Reaches(deps', e[2], e[1])
    <3> SUFFICES ASSUME NEW e \in deps, ~Reaches(deps, e[2], e[1])
                 PROVE  ~Reaches(deps', e[2], e[1])
      OBVIOUS
    <3>1. e[1] \in Modules /\ e[2] \in Modules /\ <<e[1], e[2]>> \in deps
      BY <2>2 DEF Edges
    <3>2. deps \in SUBSET (Modules \X Modules)
      BY <2>2 DEF Edges
    <3> QED
      BY <2>1, <2>2, <3>1, <3>2, SafeEdgeClosesNothing
  <2>4. ~Reaches(deps', edge[2], edge[1])
    BY <2>1, <2>2, SafeEdgeIsSafe DEF Edges
  <2>5. \A e \in cyclic : Reaches(deps', e[2], e[1])
    BY <2>2, ReachesMore DEF ClassInv
  <2>6. Acyclic(given.imports) => Acyclic(deps')
    BY <2>1, <2>2, <2>3, <2>4 DEF ClassInv, Acyclic
  <2>7. ClassInv'
    BY <1>5, <2>1, <2>2, <2>3, <2>4, <2>5, <2>6 DEF MakeImport, ClassInv, Acyclic, doc
  <2>8. round = 1
    <3> SUFFICES ASSUME round = 2 PROVE FALSE
      BY DEF Typed, TypeOK, PhaseOK
    <3>1. edge \in requires /\ deps = imports
      BY <1>5 DEF MakeImport, Typed, EdgesInv, LinkInv, Rewritten, PreMerge
    <3>2. Reaches(imports, edge[2], edge[1])
      BY <1>5, <3>1 DEF MakeImport, LinkInv, Rewritten, PreMerge
    <3> QED
      BY <2>1, <3>1, <3>2
  <2>9. SearchInv' /\ LinkInv'
    BY <1>5, <2>8 DEF MakeImport, SearchInv, LinkInv, Rewritten, PreMerge, doc
  <2> QED
    BY <1>1, <2>7, <2>9
<1>6. CASE Rewrite
  <2>1. deps = imports \cup safe /\ requires \subseteq safe \cup cyclic
    BY <1>6 DEF Rewrite, LinkInv, Unclassified
  <2>2. imports' = deps /\ requires' \subseteq cyclic
    BY <1>6, <2>1 DEF Rewrite
  <2>3. LinkInv'
    BY <1>6, <2>2 DEF Rewrite, LinkInv, ClassInv, Rewritten, classes
  <2>4. SearchInv' /\ ClassInv'
    BY <1>6 DEF Rewrite, SearchInv, ClassInv, Acyclic, classes
  <2> QED
    BY <1>1, <2>3, <2>4
<1> QED
  BY <1>2, <1>3, <1>4, <1>5, <1>6 DEF Classify

\* The other steps leave the classes alone, or start a second classification of
\* the rewritten sources.
LEMMA SortedOthers == Sorted /\ (Plan \/ FindAll \/ Merge) => Sorted'
<1> SUFFICES ASSUME Sorted, Plan \/ FindAll \/ Merge PROVE Sorted'
  OBVIOUS
<1> USE DEF Sorted
<1>1. Typed'
  BY TypedPlan, TypedFindAll, TypedMerge
<1>2. CASE Staged
  <2>1. deps = imports
    BY <1>2 DEF Staged, LinkInv, Rewritten, PreMerge, Typed, PhaseInv
  <2>2. ClassInv'
    BY <1>2, <2>1 DEF Staged, ClassInv, Acyclic, doc
  <2>3. SearchInv' /\ LinkInv'
    BY <1>2, <2>1 DEF Staged, SearchInv, LinkInv, Rewritten, PreMerge, doc, Typed, PhaseInv
  <2> QED
    BY <1>1, <2>2, <2>3
<1>3. CASE Plan
  <2>1. UNCHANGED <<given, imports, requires, round, classes>> /\ phase = "plan"
        /\ phase' \notin {"classify", "test"}
    BY <1>3 DEF Plan, PlanRoot, PlanDep, PlanCycle, PlanEmit, Planning, doc
  <2>2. (round' = 2 /\ phase' \in {"done", "refused", "plan"}) \/ round' = 1
    BY <1>3, <2>1 DEF Plan, PlanRoot, PlanDep, PlanCycle, PlanEmit, Planning, Typed, TypeOK, PhaseOK
  <2> QED
    BY <1>1, <2>1, <2>2 DEF SearchInv, ClassInv, LinkInv, Rewritten, PreMerge, Acyclic, classes
<1>4. CASE ApplyMerge
  <2>1. round = 2
    BY <1>4 DEF ApplyMerge, Typed, PhaseInv
  <2> QED
    BY <1>1, <1>4, <2>1 DEF ApplyMerge, SearchInv, ClassInv, LinkInv, Rewritten, PreMerge, Acyclic,
                            classes
<1>5. CASE FindAll \/ (Merge /\ ~Staged /\ ~ApplyMerge)
  <2>1. /\ UNCHANGED <<given, imports, requires, round, classes>>
        /\ phase \in {"classify", "groups", "eager", "prefer"}
        /\ phase' \in {"groups", "eager", "prefer", "apply", "refused"}
        /\ round = 2
    BY <1>5 DEF FindAll, Merge, FindGroups, GroupRoot, GroupEdge, GroupLeave, MergeGroups,
                GroupsFound, EagerPair, EagerDone, PreferPair, EmitBody, GroupOrdered, doc,
                Typed, PhaseInv
  <2> QED
    BY <1>1, <2>1 DEF SearchInv, ClassInv, LinkInv, Rewritten, PreMerge, Acyclic, classes
<1> QED
  BY <1>2, <1>3, <1>4, <1>5

LEMMA SortedStep == Sorted /\ [Next]_vars => Sorted'
<1> SUFFICES ASSUME Sorted, [Next]_vars PROVE Sorted'
  OBVIOUS
<1>1. CASE Finished \/ UNCHANGED vars
  BY <1>1, TypedStep DEF Finished, vars, doc, classes, Sorted, SearchInv, ClassInv, LinkInv,
                         Rewritten, PreMerge, Acyclic
<1> QED
  BY <1>1, SortedClassify, SortedOthers DEF Next

\* Making imports of requires one by one, each tested against what the earlier
\* ones made of the graph, puts none of them on a cycle; and what is left would
\* have closed one.
THEOREM ClassifiesRight == Spec => []ClassesAreRight
<1>1. Sorted => ClassesAreRight
  <2> SUFFICES ASSUME Sorted PROVE ClassesAreRight
    OBVIOUS
  <2>1. deps \cup safe = deps
    BY DEF Sorted, ClassInv
  <2> QED
    BY <2>1 DEF Sorted, ClassInv, ClassesAreRight
<1> QED
  BY SortedInit, SortedStep, <1>1, PTL DEF Spec

\* The sources that are merged require only what their imports make cyclic: the
\* second classification makes no import, and cyclicGroups sees the staged graph.
ResidualsAreCyclic ==
  phase = "groups" =>
    /\ deps = imports
    /\ \A e \in requires : Reaches(imports, e[2], e[1])

THEOREM ResidualsStayCyclic == Spec => []ResidualsAreCyclic
<1>1. Sorted => ResidualsAreCyclic
  BY DEF Sorted, LinkInv, Rewritten, PreMerge, ResidualsAreCyclic
<1> QED
  BY SortedInit, SortedStep, <1>1, PTL DEF Spec

-----------------------------------------------------------------------------
\* What an open module imports is still to be looked at, or listed, or open as
\* the next frame; so a listed module comes behind those it imports.
PlanInv ==
  phase = "plan" =>
    /\ InOrder(order, imports)
    /\ \A k \in DOMAIN frames : \A y \in Targets(imports, frames[k].node) :
         \/ y \in frames[k].left \/ y \in Planned
         \/ k < Len(frames) /\ y = frames[k + 1].node

\* An order that was returned is the order of the names.
NamesInv ==
  /\ Modules \subseteq Elems(names)
  /\ phase \in {"staged", "done"} =>
       /\ InOrder(names, imports)
       /\ \A i, j \in DOMAIN names : names[i] = names[j] => i = j
  /\ phase = "done" => requires = {}

Ordered == Typed /\ PlanInv /\ NamesInv

\* The stack, and the list, of a step of planOrder that opens a module.
LEMMA OpensFrame ==
  ASSUME Typed, frames # <<>>, NEW y \in Top(frames).left
  PROVE  LET t == Append(Took(y), Frame(y)) IN
         /\ Took(y) \in Seq(Frames(Nat)) /\ Len(Took(y)) = Len(frames)
         /\ Len(frames) \in Nat \ {0}
         /\ \A k \in DOMAIN frames : Took(y)[k].node = frames[k].node
         /\ \A k \in DOMAIN frames : Took(y)[k].left = IF k = Len(frames)
                                                       THEN frames[k].left \ {y} ELSE frames[k].left
         /\ t \in Seq(Frames(Nat)) /\ Len(t) = Len(frames) + 1
         /\ \A k \in DOMAIN frames : t[k] = Took(y)[k]
         /\ t[Len(frames) + 1] = Frame(y)
<1>1. frames \in Seq(Frames(Nat))
  BY DEF Typed, TypeOK, PlanOK
<1>2. y \in Nat /\ Frame(y) \in Frames(Nat)
  BY <1>1, TopTyped, FrameTyped
<1>3. /\ Took(y) \in Seq(Frames(Nat)) /\ Len(Took(y)) = Len(frames)
      /\ \A k \in DOMAIN frames : Took(y)[k].node = frames[k].node
                                  /\ (k # Len(frames) => Took(y)[k] = frames[k])
      /\ Took(y)[Len(frames)].left = frames[Len(frames)].left \ {y}
  <2>1. Took(y) \in Seq(Frames(Nat)) /\ Len(Took(y)) = Len(frames)
    BY <1>1, TookIs DEF Took
  <2>2. \A k \in DOMAIN frames : /\ Took(y)[k].node = frames[k].node
                                 /\ k # Len(frames) => Took(y)[k] = frames[k]
    BY <1>1, TookIs DEF Took
  <2>3. Took(y)[Len(frames)].left = frames[Len(frames)].left \ {y}
    BY <1>1, TookIs DEF Took
  <2> QED
    BY <2>1, <2>2, <2>3
<1>4. Len(frames) \in Nat \ {0} /\ DOMAIN frames = 1..Len(frames)
  BY <1>1
<1>5. \A k \in DOMAIN frames : Took(y)[k].left = IF k = Len(frames)
                                                 THEN frames[k].left \ {y} ELSE frames[k].left
  BY <1>3, <1>4
<1>6. LET t == Append(Took(y), Frame(y)) IN
      /\ t \in Seq(Frames(Nat)) /\ Len(t) = Len(frames) + 1
      /\ \A k \in DOMAIN frames : t[k] = Took(y)[k]
      /\ t[Len(frames) + 1] = Frame(y)
  BY <1>2, <1>3, <1>4
<1> QED
  BY <1>3, <1>4, <1>5, <1>6

LEMMA PlanKeepsOrder == Ordered /\ phase = "plan" /\ Plan => PlanInv' /\ NamesInv'
<1> SUFFICES ASSUME Ordered, phase = "plan", Plan PROVE PlanInv' /\ NamesInv'
  OBVIOUS
<1> USE DEF Ordered
<1>0. frames \in Seq(Frames(Nat)) /\ order \in Seq(Nat) /\ names \in Seq(Nat)
  BY DEF Typed, TypeOK, PlanOK, DocOK
<1>1. CASE PlanRoot
  <2>1. PICK x \in Unplanned : frames' = <<Frame(x)>>
    BY <1>1 DEF PlanRoot
  <2>2. /\ DOMAIN frames' = {1} /\ frames'[1].node = x
        /\ frames'[1].left = Targets(imports, x)
    BY <2>1 DEF Frame
  <2>3. UNCHANGED <<imports, requires, names, order, phase>>
    BY <1>1 DEF PlanRoot, doc
  <2> QED
    BY <2>2, <2>3 DEF PlanInv, NamesInv
<1>2. CASE PlanDep
  <2>1. frames # <<>> /\ UNCHANGED <<imports, requires, names, order, phase>>
    BY <1>2 DEF PlanDep, doc
  <2>2. PICK y \in Top(frames).left \ Open :
          frames' = IF y \in Planned THEN Took(y) ELSE Append(Took(y), Frame(y))
    BY <1>2 DEF PlanDep
  <2> DEFINE t == Append(Took(y), Frame(y))
  <2>3. /\ Took(y) \in Seq(Frames(Nat)) /\ Len(Took(y)) = Len(frames)
        /\ Len(frames) \in Nat \ {0}
        /\ \A k \in DOMAIN frames : Took(y)[k].node = frames[k].node
        /\ \A k \in DOMAIN frames : Took(y)[k].left = IF k = Len(frames)
                                                      THEN frames[k].left \ {y} ELSE frames[k].left
        /\ t \in Seq(Frames(Nat)) /\ Len(t) = Len(frames) + 1
        /\ \A k \in DOMAIN frames : t[k] = Took(y)[k]
        /\ t[Len(frames) + 1] = Frame(y)
    BY <2>1, OpensFrame
  <2> HIDE DEF t
  <2>4. Planned' = Planned /\ NamesInv' /\ InOrder(order, imports)'
    BY <2>1 DEF Planned, NamesInv, PlanInv
  <2>5. DOMAIN frames = 1..Len(frames) /\ DOMAIN frames' = 1..Len(frames')
    BY <1>0, <2>2, <2>3 DEF t
  <2>6. ASSUME NEW k \in DOMAIN frames', NEW z \in Targets(imports, frames'[k].node)
        PROVE  \/ z \in frames'[k].left \/ z \in Planned
               \/ k < Len(frames') /\ z = frames'[k + 1].node
    <3>1. CASE y \in Planned
      <4>1. frames' = Took(y)
        BY <2>2, <3>1
      <4>2. k \in DOMAIN frames /\ frames'[k].node = frames[k].node
        BY <4>1, <2>3, <2>5
      <4>3. \/ z \in frames[k].left \/ z \in Planned
            \/ k < Len(frames) /\ z = frames[k + 1].node
        BY <4>2, <2>6 DEF PlanInv
      <4>4. k < Len(frames) => k + 1 \in DOMAIN frames /\ frames'[k + 1].node = frames[k + 1].node
        BY <4>1, <4>2, <2>3, <2>5
      <4> QED
        BY <4>1, <4>2, <4>3, <4>4, <3>1, <2>3
    <3>2. CASE y \notin Planned /\ k = Len(frames) + 1
      <4>1. frames'[k] = Frame(y)
        BY <2>2, <2>3, <3>2 DEF t
      <4> QED
        BY <4>1, <2>6 DEF Frame
    <3>3. CASE y \notin Planned /\ k # Len(frames) + 1
      <4>1. frames' = t
        BY <2>2, <3>3 DEF t
      <4>2. k \in DOMAIN frames /\ frames'[k] = Took(y)[k]
        BY <4>1, <3>3, <2>3, <2>5
      <4>3. frames'[k].node = frames[k].node
        BY <4>2, <2>3
      <4>4. \/ z \in frames[k].left \/ z \in Planned
            \/ k < Len(frames) /\ z = frames[k + 1].node
        BY <4>2, <4>3, <2>6 DEF PlanInv
      <4>5. /\ k < Len(frames) => k + 1 \in DOMAIN frames /\ frames'[k + 1].node = frames[k + 1].node
            /\ k = Len(frames) => frames'[k + 1].node = y
            /\ k < Len(frames') /\ (k < Len(frames) \/ k = Len(frames))
        BY <4>1, <4>2, <2>3, <2>5 DEF Frame
      <4> QED
        BY <4>2, <4>4, <4>5, <2>3
    <3> QED
      BY <3>1, <3>2, <3>3
  <2> QED
    BY <2>1, <2>4, <2>6 DEF PlanInv
<1>3. CASE PlanCycle
  <2>1. phase' = "refused" /\ names' = names
    BY <1>3 DEF PlanCycle, doc
  <2> QED
    BY <2>1 DEF PlanInv, NamesInv
<1>4. CASE PlanEmit
  <2>1. /\ frames # <<>> /\ Top(frames).left = {}
        /\ order' = Append(order, Top(frames).node) /\ frames' = Pop(frames)
        /\ UNCHANGED <<imports, requires, names, phase>>
    BY <1>4 DEF PlanEmit, doc
  <2> DEFINE n == Len(frames)
             x == Top(frames).node
  <2>2. n \in Nat \ {0} /\ DOMAIN frames = 1..n /\ x = frames[n].node /\ frames[n].left = {} /\ x \in Nat
    BY <1>0, <2>1, TopTyped DEF Top
  <2>3. Targets(imports, x) \subseteq Planned
    BY <2>2 DEF PlanInv
  <2>4. Planned' = Planned \cup {x}
    <3>1. Elems(Append(order, x)) = Elems(order) \cup {x}
      BY <1>0, <2>2, AppendAdds
    <3> QED
      BY <2>1, <3>1 DEF Planned
  <2>5. InOrder(order', imports)
    <3>1. /\ DOMAIN order' = 1..(Len(order) + 1) /\ DOMAIN order = 1..Len(order) /\ Len(order) \in Nat
          /\ \A j \in DOMAIN order : order'[j] = order[j]
          /\ order'[Len(order) + 1] = x
      BY <1>0, <2>1, <2>2
    <3> SUFFICES ASSUME NEW k \in DOMAIN order'
                 PROVE  Targets(imports, order'[k]) \subseteq {order'[j] : j \in 1..(k - 1)}
      BY DEF InOrder
    <3>2. CASE k = Len(order) + 1
      BY <2>3, <3>1, <3>2 DEF Planned, Elems
    <3>3. CASE k # Len(order) + 1
      <4>1. k \in DOMAIN order
        BY <3>1, <3>3
      <4>2. {order'[j] : j \in 1..(k - 1)} = {order[j] : j \in 1..(k - 1)}
        BY <3>1, <4>1
      <4> QED
        BY <3>1, <4>1, <4>2 DEF PlanInv, InOrder
    <3> QED
      BY <3>2, <3>3
  <2>6. /\ Len(frames') = n - 1 /\ DOMAIN frames' = 1..(n - 1)
        /\ \A k \in DOMAIN frames' : k \in DOMAIN frames /\ k < n /\ frames'[k] = frames[k]
    <3>1. /\ Pop(frames) \in Seq(Frames(Nat)) /\ Len(Pop(frames)) = n - 1
          /\ \A k \in DOMAIN Pop(frames) :
               k \in DOMAIN frames /\ k < n /\ Pop(frames)[k] = frames[k]
      BY <1>0, <2>1, PopIs
    <3> QED
      BY <2>1, <3>1
  <2>7. ASSUME NEW k \in DOMAIN frames', NEW z \in Targets(imports, frames'[k].node)
        PROVE  \/ z \in frames'[k].left \/ z \in Planned'
               \/ k < Len(frames') /\ z = frames'[k + 1].node
    <3>1. k \in DOMAIN frames /\ k < n /\ frames'[k] = frames[k]
      BY <2>6
    <3>2. \/ z \in frames[k].left \/ z \in Planned \/ z = frames[k + 1].node
      BY <2>7, <3>1 DEF PlanInv
    <3>3. CASE k + 1 = n
      BY <3>1, <3>2, <3>3, <2>2, <2>4
    <3>4. CASE k + 1 # n
      <4>1. k < n - 1 /\ k + 1 \in DOMAIN frames'
        BY <2>2, <2>6, <3>1, <3>4
      <4>2. frames'[k + 1] = frames[k + 1]
        BY <2>6, <4>1
      <4> QED
        BY <2>4, <2>6, <3>1, <3>2, <4>1, <4>2
    <3> QED
      BY <3>3, <3>4
  <2>8. NamesInv'
    BY <2>1 DEF NamesInv
  <2> QED
    BY <2>1, <2>5, <2>7, <2>8 DEF PlanInv
<1>5. CASE Planning
  <2>1. /\ names' = order /\ UNCHANGED <<imports, requires>> /\ Unplanned = {}
        /\ phase' \in {"staged", "done", "refused"} /\ (phase' = "done" => requires = {})
    BY <1>5 DEF Planning
  <2>2. Modules \subseteq Elems(order)
    BY <2>1 DEF NamesInv, Unplanned, Planned
  <2>3. \A i, j \in DOMAIN order : order[i] = order[j] => i = j
    BY DEF Typed, TypeOK, PlanOK
  <2> QED
    BY <2>1, <2>2, <2>3 DEF PlanInv, NamesInv
<1> QED
  BY <1>1, <1>2, <1>3, <1>4, <1>5 DEF Plan

\* The other steps leave the names in place, or append the merged modules.
LEMMA OrderedStep == Ordered /\ [Next]_vars => Ordered'
<1> SUFFICES ASSUME Ordered, [Next]_vars PROVE Ordered'
  OBVIOUS
<1> USE DEF Ordered
<1>1. Typed'
  BY TypedStep
<1>2. CASE Plan
  <2>1. phase = "plan"
    BY <1>2 DEF Plan, PlanRoot, PlanDep, PlanCycle, PlanEmit, Planning
  <2> QED
    BY <1>1, <1>2, <2>1, PlanKeepsOrder
<1>3. CASE Rewrite \/ ApplyMerge
  <2>1. phase' = "plan" /\ frames' = <<>> /\ order' = <<>>
    BY <1>3 DEF Rewrite, ApplyMerge, plan, Typed, OpenInv
  <2>2. PlanInv'
    BY <2>1 DEF PlanInv, InOrder
  <2>3. CASE Rewrite
    BY <1>1, <2>1, <2>2, <2>3 DEF Rewrite, NamesInv
  <2>4. CASE ApplyMerge
    <3> DEFINE m == [k \in Groups |-> Merged(k)]
    <3>1. names' = names \o m /\ names \in Seq(Nat) /\ m \in Seq(Nat)
      <4>1. Groups = 1..Len(bodies) /\ Len(bodies) \in Nat
        BY DEF Typed, TypeOK, MergingOK, Groups
      <4>2. \A k \in Groups : Merged(k) \in Nat
        BY <4>1, BundleGraphAssumption DEF Merged
      <4>3. m \in Seq(Nat)
        BY <4>1, <4>2
      <4> QED
        BY <2>4, <4>3 DEF ApplyMerge, Typed, TypeOK, DocOK
    <3> HIDE DEF m
    <3>2. \A i \in DOMAIN names : i \in DOMAIN (names \o m) /\ (names \o m)[i] = names[i]
      BY <3>1
    <3>3. Elems(names) \subseteq Elems(names')
      BY <3>1, <3>2 DEF Elems
    <3> QED
      BY <1>1, <2>1, <2>2, <3>3 DEF NamesInv
  <2> QED
    BY <1>3, <2>3, <2>4
<1>4. CASE Staged
  <2>1. /\ UNCHANGED <<imports, requires, names>> /\ phase = "staged"
        /\ (phase' = "classify" \/ (phase' = "done" /\ requires = {}))
    BY <1>4 DEF Staged, doc
  <2> QED
    BY <1>1, <2>1 DEF PlanInv, NamesInv
<1>5. CASE (Classify /\ ~Rewrite) \/ FindAll \/ (Merge /\ ~Staged /\ ~ApplyMerge)
  <2>1. /\ UNCHANGED <<imports, requires, names>>
        /\ phase' \in {"classify", "test", "groups", "eager", "prefer", "apply", "refused"}
    BY <1>5 DEF Classify, TestRequire, Search, LeaveRequire, MakeImport,
                FindAll, Merge, FindGroups, GroupRoot, GroupEdge, GroupLeave, MergeGroups,
                GroupsFound, EagerPair, EagerDone, PreferPair, EmitBody, GroupOrdered, doc
  <2> QED
    BY <1>1, <2>1 DEF PlanInv, NamesInv
<1>6. CASE Finished \/ UNCHANGED vars
  BY <1>1, <1>6 DEF Finished, vars, doc, plan, PlanInv, NamesInv, Planned
<1> QED
  BY <1>2, <1>3, <1>4, <1>5, <1>6 DEF Next

\* A graph that is staged has no require() left, and lists every module of the
\* provider, once, behind those it imports: the order planOrder returned can be
\* compiled, after the merge as without it.
StagedInOrder ==
  phase = "done" =>
    /\ requires = {} /\ InOrder(names, imports)
    /\ Modules \subseteq Elems(names)
    /\ \A i, j \in DOMAIN names : names[i] = names[j] => i = j

THEOREM StagesInOrder == Spec => []StagedInOrder
<1>1. Init => Ordered
  <2> SUFFICES ASSUME Init PROVE Ordered
    OBVIOUS
  <2>1. phase = "classify" /\ \A i \in Modules : i \in DOMAIN names /\ names[i] = i
    BY DEF Init
  <2>2. Modules \subseteq Elems(names)
    BY <2>1 DEF Elems
  <2> QED
    BY <2>1, <2>2, TypedInit DEF Ordered, PlanInv, NamesInv
<1>2. Ordered => StagedInOrder
  BY DEF Ordered, NamesInv, StagedInOrder
<1> QED
  BY <1>1, OrderedStep, <1>2, PTL DEF Spec

-----------------------------------------------------------------------------
\* While the provider's own modules are ordered, an open module reaches those
\* opened after it, and imports what is left of its frame.
ChainInv ==
  round = 1 =>
    /\ Elems(names) \subseteq Modules
    /\ phase = "plan" =>
         /\ Planned \subseteq Modules
         /\ \A k \in DOMAIN frames : /\ frames[k].node \in Modules
                                     /\ frames[k].left \subseteq Targets(imports, frames[k].node)
         /\ \A j, k \in DOMAIN frames : j <= k => Reaches(imports, frames[j].node, frames[k].node)
    /\ phase = "refused" => ~Acyclic(given.imports)

Chained == Sorted /\ ChainInv

LEMMA ChainPlan == Chained /\ round = 1 /\ phase = "plan" /\ Plan => ChainInv'
<1> SUFFICES ASSUME Chained, round = 1, phase = "plan", Plan PROVE ChainInv'
  OBVIOUS
<1> USE DEF Chained
<1>0. /\ frames \in Seq(Frames(Nat)) /\ order \in Seq(Nat) /\ imports \in Edges
      /\ frames # <<>> => /\ Len(frames) \in DOMAIN frames /\ Top(frames) = frames[Len(frames)]
                          /\ DOMAIN frames = 1..Len(frames) /\ Len(frames) \in Nat
  BY DEF Sorted, Typed, TypeOK, PlanOK, EdgesInv, PreMerge, Top
<1>1. CASE PlanRoot
  <2>1. PICK x \in Unplanned : frames' = <<Frame(x)>>
    BY <1>1 DEF PlanRoot
  <2>2. /\ DOMAIN frames' = {1} /\ frames'[1].node = x /\ x \in Modules
        /\ frames'[1].left = Targets(imports, x)
    BY <2>1 DEF Frame, Unplanned, ChainInv
  <2>3. UNCHANGED <<imports, names, order, phase, round>>
    BY <1>1 DEF PlanRoot, doc
  <2>4. Reaches(imports, x, x)
    BY ReachesItself
  <2> QED
    BY <2>2, <2>3, <2>4 DEF ChainInv, Planned
<1>2. CASE PlanDep
  <2>1. frames # <<>> /\ UNCHANGED <<imports, names, order, phase, round>>
    BY <1>2 DEF PlanDep, doc
  <2>2. PICK y \in Top(frames).left \ Open :
          frames' = IF y \in Planned THEN Took(y) ELSE Append(Took(y), Frame(y))
    BY <1>2 DEF PlanDep
  <2> DEFINE t == Append(Took(y), Frame(y))
             n == Len(frames)
  <2>3. /\ Took(y) \in Seq(Frames(Nat)) /\ Len(Took(y)) = n
        /\ n \in Nat \ {0}
        /\ \A k \in DOMAIN frames : Took(y)[k].node = frames[k].node
        /\ \A k \in DOMAIN frames : Took(y)[k].left = IF k = n
                                                      THEN frames[k].left \ {y} ELSE frames[k].left
        /\ t \in Seq(Frames(Nat)) /\ Len(t) = n + 1
        /\ \A k \in DOMAIN frames : t[k] = Took(y)[k]
        /\ t[n + 1] = Frame(y)
    BY <2>1, OpensFrame DEF Sorted
  <2> HIDE DEF t
  <2>4. frames' = Took(y) \/ frames' = t
    BY <2>2 DEF t
  <2>5. \A k \in DOMAIN frames : /\ k \in 1..n /\ frames'[k].node = frames[k].node
                                 /\ frames'[k].left \subseteq frames[k].left
    BY <1>0, <2>1, <2>3, <2>4
  <2>6. DOMAIN frames' = DOMAIN frames \/ (DOMAIN frames' = DOMAIN frames \cup {n + 1}
                                             /\ frames'[n + 1] = Frame(y))
    <3>1. DOMAIN Took(y) = 1..n /\ DOMAIN t = 1..(n + 1) /\ DOMAIN frames = 1..n
      BY <1>0, <2>1, <2>3
    <3>2. 1..(n + 1) = (1..n) \cup {n + 1}
      BY <2>3
    <3> QED
      BY <2>3, <2>4, <3>1, <3>2
  <2>7. <<frames[n].node, y>> \in imports /\ y \in Modules
    <3>1. y \in Targets(imports, frames[n].node)
      BY <1>0, <2>1, <2>2 DEF ChainInv
    <3> QED
      BY <1>0, <3>1, TargetsAre DEF Edges
  <2>8. \A j \in DOMAIN frames : Reaches(imports, frames[j].node, y)
    <3> SUFFICES ASSUME NEW j \in DOMAIN frames PROVE Reaches(imports, frames[j].node, y)
      OBVIOUS
    <3>1. Reaches(imports, frames[j].node, frames[n].node) /\ frames[n].node \in Modules
      BY <1>0, <2>1 DEF ChainInv
    <3> QED
      BY <2>7, <3>1, ReachesOn
  <2>9. ASSUME NEW k \in DOMAIN frames'
        PROVE  /\ frames'[k].node \in Modules
               /\ frames'[k].left \subseteq Targets(imports, frames'[k].node)
    BY <2>5, <2>6, <2>7 DEF ChainInv, Frame
  <2>10. ASSUME NEW j \in DOMAIN frames', NEW k \in DOMAIN frames', j <= k
         PROVE  Reaches(imports, frames'[j].node, frames'[k].node)
    <3>1. CASE k \in DOMAIN frames
      <4>1. j \in DOMAIN frames
        BY <1>0, <2>1, <2>3, <2>5, <2>6, <2>10, <3>1
      <4> QED
        BY <2>5, <2>10, <3>1, <4>1 DEF ChainInv
    <3>2. CASE k \notin DOMAIN frames
      <4>1. k = n + 1 /\ frames'[k].node = y
        BY <2>6, <3>2 DEF Frame
      <4>2. CASE j \in DOMAIN frames
        BY <2>5, <2>8, <4>1, <4>2
      <4>3. CASE j \notin DOMAIN frames
        <5>1. j = k
          BY <2>6, <4>1, <4>3
        <5> QED
          BY <5>1, ReachesItself
      <4> QED
        BY <4>2, <4>3
    <3> QED
      BY <3>1, <3>2
  <2> QED
    BY <2>1, <2>9, <2>10 DEF ChainInv, Planned
<1>3. CASE PlanCycle
  <2>1. frames # <<>> /\ UNCHANGED <<given, names, round>> /\ phase' = "refused"
    BY <1>3 DEF PlanCycle, doc
  <2>2. PICK k \in DOMAIN frames : frames[k].node \in Top(frames).left
    BY <1>3 DEF PlanCycle, Open
  <2> DEFINE x == frames[Len(frames)].node
             y == frames[k].node
  <2>3. <<x, y>> \in imports
    <3>1. frames[k].node \in Targets(imports, frames[Len(frames)].node)
      BY <1>0, <2>1, <2>2 DEF ChainInv
    <3>2. imports \subseteq Modules \X Modules
      BY <1>0 DEF Edges
    <3> QED
      BY <3>1, <3>2, TargetsAre
  <2>4. Reaches(imports, y, x)
    BY <1>0, <2>1, <2>2 DEF ChainInv
  <2>5. ~Acyclic(imports)
    BY <2>3, <2>4 DEF Acyclic
  <2>6. imports = deps
    BY DEF Sorted, LinkInv, Rewritten, PreMerge
  <2>7. ~Acyclic(given.imports)
    BY <2>5, <2>6 DEF Sorted, ClassInv
  <2> QED
    BY <2>1, <2>7 DEF ChainInv, Acyclic
<1>4. CASE PlanEmit
  <2>1. /\ frames # <<>> /\ UNCHANGED <<imports, names, phase, round>>
        /\ order' = Append(order, Top(frames).node) /\ frames' = Pop(frames)
    BY <1>4 DEF PlanEmit, doc
  <2>2. Top(frames).node \in Modules /\ Top(frames).node \in Nat
    BY <1>0, <2>1 DEF ChainInv
  <2>3. Elems(Append(order, Top(frames).node)) = Elems(order) \cup {Top(frames).node}
    BY <1>0, <2>2, AppendAdds
  <2>4. Planned' \subseteq Modules
    BY <2>1, <2>2, <2>3 DEF Planned, ChainInv
  <2>5. \A k \in DOMAIN Pop(frames) : k \in DOMAIN frames /\ Pop(frames)[k] = frames[k]
    BY <1>0, <2>1, PopIs
  <2> QED
    BY <2>1, <2>4, <2>5 DEF ChainInv
<1>5. CASE Planning
  <2>1. names' = order /\ phase' = "staged" /\ round' = 1
    BY <1>5 DEF Planning
  <2> QED
    BY <2>1 DEF ChainInv, Planned
<1> QED
  BY <1>1, <1>2, <1>3, <1>4, <1>5 DEF Plan

LEMMA ChainedStep == Chained /\ [Next]_vars => Chained'
<1> SUFFICES ASSUME Chained, [Next]_vars PROVE Chained'
  OBVIOUS
<1> USE DEF Chained
<1>1. Sorted'
  BY SortedStep
<1>2. CASE round' # 1
  BY <1>1, <1>2 DEF ChainInv
<1>3. CASE round' = 1 /\ Plan
  <2>1. phase = "plan" /\ round = 1
    BY <1>3 DEF Plan, PlanRoot, PlanDep, PlanCycle, PlanEmit, Planning
  <2> QED
    BY <1>1, <1>3, <2>1, ChainPlan
<1>4. CASE round' = 1 /\ Rewrite
  <2>1. /\ round = 1 /\ names' = names
        /\ phase' = "plan" /\ frames' = <<>> /\ order' = <<>>
    BY <1>4 DEF Rewrite, plan, Sorted, Typed, OpenInv
  <2>2. Planned' = {} /\ DOMAIN frames' = {}
    BY <2>1 DEF Planned, Elems
  <2> QED
    BY <1>1, <2>1, <2>2 DEF ChainInv
<1>5. CASE round' = 1 /\ ((Classify /\ ~Rewrite) \/ Staged)
  <2>1. round = 1 /\ names' = names /\ phase' \in {"classify", "test", "done"}
    BY <1>5 DEF Classify, TestRequire, Search, LeaveRequire, MakeImport, Staged, doc,
                Sorted, Typed, PhaseInv
  <2> QED
    BY <1>1, <2>1 DEF ChainInv
<1>6. CASE round' = 1 /\ (FindAll \/ (Merge /\ ~Staged))
  <2>1. round = 2 /\ round' = round
    BY <1>6 DEF FindAll, Merge, FindGroups, GroupRoot, GroupEdge, GroupLeave, MergeGroups,
                GroupsFound, EagerPair, EagerDone, PreferPair, EmitBody, GroupOrdered, ApplyMerge,
                Sorted, Typed, PhaseInv
  <2> QED
    BY <1>6, <2>1
<1>7. CASE Finished \/ UNCHANGED vars
  BY <1>1, <1>7 DEF Finished, vars, doc, plan, ChainInv, Planned
<1> QED
  BY <1>2, <1>3, <1>4, <1>5, <1>6, <1>7 DEF Next

\* The extraction stops for an import cycle only if the provider's own imports
\* have one: the imports it makes of require() calls are never the reason.
StopsOnlyAtCycles == phase = "refused" /\ round = 1 => ~Acyclic(given.imports)

THEOREM RefusesOnlyCycles == Spec => []StopsOnlyAtCycles
<1>1. Init => Chained
  <2> SUFFICES ASSUME Init PROVE Chained
    OBVIOUS
  <2>1. phase = "classify" /\ Elems(names) \subseteq Modules
    BY DEF Init, Elems
  <2> QED
    BY <2>1, SortedInit DEF Chained, ChainInv
<1>2. Chained => StopsOnlyAtCycles
  BY DEF Chained, ChainInv, StopsOnlyAtCycles
<1> QED
  BY <1>1, ChainedStep, <1>2, PTL DEF Spec

-----------------------------------------------------------------------------
\* cyclicGroups.  The graph it looks at, a module's component in it, and the
\* modules whose components were taken from the stack.
Linked  == deps \cup cyclic
Mutual(x) == {y \in Modules : Reaches(Linked, x, y) /\ Reaches(Linked, y, x)}
Stacked == Elems(st)
Placed  == {x \in Modules : num[x] # 0} \ Stacked

\* The search has looked at an edge if it is not due in an open frame.
LookedAt(e) == \A k \in DOMAIN work : work[k].node = e[1] => e[2] \notin work[k].left

\* Both stacks are in the order of the numbers, which grow; an open frame's
\* module is on the other stack, and its frame holds edges of the graph.
StackInv ==
  /\ \A x \in Modules : num[x] < Counter
  /\ \A x \in Stacked : num[x] # 0
  /\ \A i, j \in DOMAIN st : i < j => num[st[i]] < num[st[j]]
  /\ \A j, k \in DOMAIN work : j < k => num[work[j].node] < num[work[k].node]
  /\ \A k \in DOMAIN work : /\ work[k].node \in Stacked
                            /\ \A y \in work[k].left : <<work[k].node, y>> \in Linked

\* An open module reaches what was numbered after it, and what is stacked
\* reaches an open module numbered before it.
PathInv ==
  /\ \A k \in DOMAIN work : \A u \in Stacked :
       num[work[k].node] <= num[u] => Reaches(Linked, work[k].node, u)
  /\ \A u \in Stacked : \E k \in DOMAIN work :
       num[work[k].node] <= num[u] /\ Reaches(Linked, u, work[k].node)

\* An open module's low number is that of a stacked module it reaches; and an
\* edge that was looked at leads to no lower number than the open modules since
\* its source have between them.
LowInv ==
  /\ \A k \in DOMAIN work :
       /\ low[work[k].node] <= num[work[k].node]
       /\ \E u \in Stacked : num[u] = low[work[k].node] /\ Reaches(Linked, work[k].node, u)
  /\ \A e \in Linked : num[e[1]] # 0 /\ LookedAt(e) => num[e[2]] # 0
  /\ \A e \in Linked : e[1] \in Stacked /\ e[2] \in Stacked /\ LookedAt(e) =>
       \A k \in DOMAIN work : num[work[k].node] <= num[e[1]] =>
         \E j \in DOMAIN work : k <= j /\ low[work[j].node] <= num[e[2]]

\* The components taken are those of the graph, and no edge leaves them.
PlacedInv ==
  /\ ClosedUnder(Placed, Linked)
  /\ comps = {C \in {Mutual(x) : x \in Placed} : Cardinality(C) > 1}

Components == StackInv /\ PathInv /\ LowInv /\ PlacedInv

Unsearched == (\A x \in Modules : num[x] = 0) /\ st = <<>> /\ work = <<>> /\ comps = {}
TarjanInv ==
  /\ round = 1 \/ phase \in {"classify", "test"} => Unsearched
  /\ round = 2 /\ PreMerge => cyclic \subseteq requires
  /\ phase = "groups" => /\ requires \subseteq safe \cup cyclic
                         /\ Components

LEMMA SearchTyped ==
  ASSUME Typed
  PROVE  /\ num \in [Modules -> 0..N] /\ low \in [Modules -> 0..N] /\ N \in Nat
         /\ st \in Seq(Modules) /\ Len(st) \in Nat /\ DOMAIN st = 1..Len(st)
         /\ work \in Seq(Frames(Modules)) /\ Len(work) \in Nat /\ DOMAIN work = 1..Len(work)
         /\ Linked \subseteq Modules \X Modules
         /\ Stacked \subseteq Modules /\ Placed \subseteq Modules
         /\ \A x \in Modules : num[x] \in Nat /\ low[x] \in Nat
<1>1. /\ num \in [Modules -> 0..N] /\ low \in [Modules -> 0..N] /\ N \in Nat
      /\ st \in Seq(Modules) /\ work \in Seq(Frames(Modules))
  BY BundleGraphAssumption DEF Typed, TypeOK, TarjanOK
<1>2. Linked \subseteq Modules \X Modules
  BY DEF Typed, TypeOK, ClassesOK, Edges, Linked
<1>3. Stacked \subseteq Modules /\ Placed \subseteq Modules
  BY <1>1 DEF Stacked, Placed, Elems
<1> QED
  BY <1>1, <1>2, <1>3

LEMMA FrameNodes ==
  ASSUME Typed, NEW k \in DOMAIN work
  PROVE  work[k].node \in Modules /\ work[k].left \subseteq Modules
<1>1. work[k] \in Frames(Modules)
  BY SearchTyped
<1> QED
  BY <1>1 DEF Frames

LEMMA MutualIs ==
  ASSUME NEW x \in Modules
  PROVE  /\ x \in Mutual(x) /\ Mutual(x) \subseteq Modules
         /\ \A y \in Mutual(x) : Mutual(y) = Mutual(x)
<1>1. x \in Mutual(x) /\ Mutual(x) \subseteq Modules
  BY ReachesItself DEF Mutual
<1>2. ASSUME NEW y \in Mutual(x) PROVE Mutual(y) = Mutual(x)
  BY ReachesTransitive DEF Mutual
<1> QED
  BY <1>1, <1>2

\* Entering a module: it is numbered next, and it is above all others.
LEMMA NextNumber ==
  ASSUME Typed, NEW x \in Fresh, num' = [num EXCEPT ![x] = Counter]
  PROVE  Counter' = Counter + 1 /\ Counter \in 1..N /\ num[x] = 0 /\ x \in Modules
<1>1. Counter \in 1..N /\ x \in Modules /\ num[x] = 0
  BY NumberFits DEF Fresh
<1>2. num \in [Modules -> 0..N]
  BY SearchTyped
<1>3. Fresh' = Fresh \ {x}
  BY <1>1, <1>2 DEF Fresh
<1>4. Modules \ Fresh' = (Modules \ Fresh) \cup {x} /\ x \notin Modules \ Fresh
  BY <1>1, <1>3
<1>5. IsFiniteSet(Modules \ Fresh)
  <2>1. IsFiniteSet(Modules)
    BY FS_Interval, BundleGraphAssumption
  <2> QED
    BY <2>1, FS_Subset
<1>6. Cardinality(Modules \ Fresh') = Cardinality(Modules \ Fresh) + 1
  BY <1>4, <1>5, FS_AddElement
<1> QED
  BY <1>1, <1>6 DEF Counter

LEMMA AppendIs ==
  ASSUME NEW S, NEW s \in Seq(S), NEW x \in S
  PROVE  /\ DOMAIN Append(s, x) = 1..(Len(s) + 1) /\ Append(s, x)[Len(s) + 1] = x
         /\ \A i \in DOMAIN s : Append(s, x)[i] = s[i] /\ s[i] \in Elems(s)
BY DEF Elems

LEMMA StackedMore ==
  ASSUME st \in Seq(Modules), NEW x \in Modules, st' = Append(st, x)
  PROVE  Stacked' = Stacked \cup {x}
<1> DEFINE S == Modules
<1>1. st \in Seq(S) /\ x \in S
  OBVIOUS
<1> HIDE DEF S
<1>2. Elems(Append(st, x)) = Elems(st) \cup {x}
  BY <1>1, AppendAdds
<1> QED
  BY <1>2 DEF Stacked

LEMMA EnterKeeps ==
  ASSUME Typed, Components, NEW x \in Fresh, NEW w \in Seq(Frames(Modules)),
         Len(w) = Len(work),
         \A k \in DOMAIN work : /\ w[k].node = work[k].node
                                /\ w[k].left \subseteq work[k].left
                                /\ \A y \in work[k].left \ w[k].left : k = Len(work) /\ y = x,
         work # <<>> => x \in Top(work).left,
         Enter(x, w), UNCHANGED <<deps, cyclic, comps>>
  PROVE  Components'
<1> DEFINE n == Len(work)
           m == Len(st)
           c == Counter
<1> USE DEF Components
<1>1. /\ num \in [Modules -> 0..N] /\ low \in [Modules -> 0..N] /\ N \in Nat
      /\ st \in Seq(Modules) /\ m \in Nat /\ DOMAIN st = 1..m
      /\ n \in Nat /\ DOMAIN work = 1..n
      /\ Linked \subseteq Modules \X Modules
      /\ Stacked \subseteq Modules
      /\ \A y \in Modules : num[y] \in Nat /\ low[y] \in Nat
  BY SearchTyped
<1>2. /\ num' = [num EXCEPT ![x] = c] /\ low' = [low EXCEPT ![x] = c]
      /\ st' = Append(st, x) /\ work' = Append(w, [node |-> x, left |-> Adjacent(x)])
  BY DEF Enter
<1>3. Counter' = c + 1 /\ c \in 1..N /\ num[x] = 0 /\ x \in Modules
  BY <1>2, NextNumber
<1>4. x \notin Stacked
  BY <1>3 DEF StackInv
<1>5. \A y \in Modules : y # x => num'[y] = num[y] /\ low'[y] = low[y]
  BY <1>1, <1>2
<1>6. num'[x] = c /\ low'[x] = c
  BY <1>1, <1>2, <1>3
<1>7. /\ DOMAIN st' = 1..(m + 1) /\ st'[m + 1] = x
      /\ \A i \in DOMAIN st : st'[i] = st[i] /\ st[i] \in Stacked
  <2>1. st \in Seq(Modules) /\ x \in Modules
    BY <1>1, <1>3
  <2> QED
    BY <1>2, <2>1, AppendIs DEF Stacked
<1>8. Stacked' = Stacked \cup {x}
  BY <1>1, <1>2, <1>3, StackedMore
<1>9. /\ DOMAIN work' = 1..(n + 1) /\ work'[n + 1].node = x /\ work'[n + 1].left = Adjacent(x)
      /\ \A k \in DOMAIN work : /\ work'[k].node = work[k].node
                                /\ work'[k].left = w[k].left
                                /\ work[k].node \in Stacked /\ work[k].node # x
  <2>1. \A k \in DOMAIN work : work[k].node \in Stacked
    BY DEF StackInv
  <2>2. DOMAIN w = 1..n /\ Len(w) = n
    BY <1>1
  <2>3. DOMAIN work' = 1..(n + 1) /\ work'[n + 1] = [node |-> x, left |-> Adjacent(x)]
    BY <1>1, <1>2, <2>2
  <2>4. \A k \in DOMAIN work : work'[k] = w[k]
    BY <1>1, <1>2, <2>2
  <2> QED
    BY <1>4, <2>1, <2>3, <2>4
<1>10. Linked' = Linked /\ \A y : y \in Adjacent(x) <=> <<x, y>> \in Linked
  <2>1. Adjacent(x) = Targets(Linked, x) /\ Linked' = Linked
    BY DEF Adjacent, Linked
  <2>2. \A y : y \in Targets(Linked, x) <=> <<x, y>> \in Linked
    BY <1>1, TargetsAre
  <2> QED
    BY <2>1, <2>2
<1>11. Placed' = Placed
  <2>1. \A y \in Modules : num'[y] # 0 <=> num[y] # 0 \/ y = x
    BY <1>3, <1>5, <1>6
  <2> QED
    BY <1>3, <1>8, <2>1 DEF Placed
<1>12. \A y \in Stacked : num[y] < c /\ num'[y] = num[y] /\ low'[y] = low[y] /\ num[y] # 0
  BY <1>1, <1>4, <1>5 DEF StackInv
<1>13. n # 0 => <<work[n].node, x>> \in Linked /\ work[n].node \in Stacked
  <2> SUFFICES ASSUME n # 0 PROVE <<work[n].node, x>> \in Linked /\ work[n].node \in Stacked
    OBVIOUS
  <2>1. n \in DOMAIN work /\ work # <<>>
    BY <1>1
  <2>2. x \in work[n].left
    BY <2>1 DEF Top
  <2> QED
    BY <2>1, <2>2 DEF StackInv
<1>19. \A y \in Modules : num[y] < c
  BY DEF StackInv
<1> HIDE DEF n, m, c
<1>14. StackInv'
  <2>1. \A y \in Modules : num'[y] < Counter'
    <3> SUFFICES ASSUME NEW y \in Modules PROVE num'[y] < Counter'
      OBVIOUS
    <3>1. c \in Nat /\ Counter' = c + 1
      BY <1>3
    <3>2. CASE y = x
      BY <1>6, <3>1, <3>2
    <3>3. CASE y # x
      <4>1. num'[y] = num[y] /\ num[y] < c /\ num[y] \in Nat
        BY <1>1, <1>5, <1>19, <3>3
      <4> QED
        BY <3>1, <4>1
    <3> QED
      BY <3>2, <3>3
  <2>2. \A y \in Stacked' : num'[y] # 0
    BY <1>3, <1>6, <1>8, <1>12
  <2>3. ASSUME NEW i \in DOMAIN st', NEW j \in DOMAIN st', i < j
        PROVE  num'[st'[i]] < num'[st'[j]]
    <3>1. i \in DOMAIN st
      BY <1>1, <1>7, <2>3
    <3>2. CASE j = m + 1
      BY <1>6, <1>7, <1>12, <3>1, <3>2
    <3>3. CASE j # m + 1
      <4>1. j \in DOMAIN st
        <5>1. j \in 1..(m + 1) /\ m \in Nat
          BY <1>1, <1>7
        <5> QED
          BY <1>1, <3>3, <5>1
      <4> QED
        BY <1>7, <1>12, <2>3, <3>1, <4>1 DEF StackInv
    <3> QED
      BY <3>2, <3>3
  <2>4. ASSUME NEW j \in DOMAIN work', NEW k \in DOMAIN work', j < k
        PROVE  num'[work'[j].node] < num'[work'[k].node]
    <3>1. j \in DOMAIN work
      BY <1>1, <1>9, <2>4
    <3>2. CASE k = n + 1
      BY <1>6, <1>9, <1>12, <3>1, <3>2
    <3>3. CASE k # n + 1
      <4>1. k \in DOMAIN work
        BY <1>1, <1>9, <3>3
      <4> QED
        BY <1>9, <1>12, <2>4, <3>1, <4>1 DEF StackInv
    <3> QED
      BY <3>2, <3>3
  <2>5. ASSUME NEW k \in DOMAIN work'
        PROVE  /\ work'[k].node \in Stacked'
               /\ \A y \in work'[k].left : <<work'[k].node, y>> \in Linked'
    <3>1. CASE k = n + 1
      BY <1>8, <1>9, <1>10, <3>1
    <3>2. CASE k # n + 1
      <4>1. k \in DOMAIN work
        BY <1>1, <1>9, <3>2
      <4> QED
        BY <1>8, <1>9, <1>10, <4>1 DEF StackInv
    <3> QED
      BY <3>1, <3>2
  <2> QED
    BY <2>1, <2>2, <2>3, <2>4, <2>5 DEF StackInv
<1>15. PathInv'
  <2>1. \A k \in DOMAIN work : Reaches(Linked, work[k].node, x)
    <3> SUFFICES ASSUME NEW k \in DOMAIN work PROVE Reaches(Linked, work[k].node, x)
      OBVIOUS
    <3>1. n # 0 /\ n \in DOMAIN work /\ k <= n
      BY <1>1
    <3>2. num[work[k].node] <= num[work[n].node]
      <4>1. k = n \/ k < n
        BY <1>1, <3>1
      <4>2. num[work[n].node] \in Nat /\ num[work[k].node] \in Nat
        BY <1>1, <3>1, FrameNodes
      <4> QED
        BY <3>1, <4>1, <4>2 DEF StackInv
    <3>3. Reaches(Linked, work[k].node, work[n].node)
      BY <1>13, <3>1, <3>2 DEF PathInv
    <3>4. work[n].node \in Modules
      BY <3>1, FrameNodes
    <3> QED
      BY <1>3, <1>13, <3>1, <3>3, <3>4, ReachesOn
  <2>2. ASSUME NEW k \in DOMAIN work', NEW u \in Stacked', num'[work'[k].node] <= num'[u]
        PROVE  Reaches(Linked, work'[k].node, u)
    <3>1. CASE k = n + 1
      <4>1. u = x
        <5>1. num'[work'[k].node] = c
          BY <1>6, <1>9, <3>1
        <5>2. ASSUME u \in Stacked PROVE FALSE
          <6>1. num'[u] = num[u] /\ num[u] < c
            BY <1>12, <5>2
          <6>2. num[u] \in Nat /\ c \in Nat
            BY <1>1, <1>3, <5>2
          <6> QED
            BY <2>2, <5>1, <6>1, <6>2
        <5> QED
          BY <1>8, <5>2
      <4> QED
        BY <1>9, <3>1, <4>1, ReachesItself
    <3>2. CASE k # n + 1
      <4>1. k \in DOMAIN work
        BY <1>1, <1>9, <3>2
      <4> QED
        BY <1>8, <1>9, <1>12, <2>1, <2>2, <4>1 DEF PathInv
    <3> QED
      BY <3>1, <3>2
  <2>3. ASSUME NEW u \in Stacked'
        PROVE  \E k \in DOMAIN work' : /\ num'[work'[k].node] <= num'[u]
                                       /\ Reaches(Linked, u, work'[k].node)
    <3>1. CASE u = x
      <4>1. n + 1 \in DOMAIN work'
        BY <1>1, <1>9
      <4>2. num'[work'[n + 1].node] <= num'[u] /\ Reaches(Linked, u, work'[n + 1].node)
        BY <1>3, <1>6, <1>9, <3>1, ReachesItself
      <4> QED
        BY <4>1, <4>2
    <3>2. CASE u # x
      <4>1. u \in Stacked
        BY <1>8, <3>2
      <4>2. PICK k \in DOMAIN work : num[work[k].node] <= num[u] /\ Reaches(Linked, u, work[k].node)
        BY <4>1 DEF PathInv
      <4>3. k \in DOMAIN work'
        BY <1>1, <1>9
      <4> QED
        BY <1>9, <1>12, <4>1, <4>2, <4>3
    <3> QED
      BY <3>1, <3>2
  <2> QED
    BY <1>10, <2>2, <2>3 DEF PathInv
<1>16. ASSUME NEW e \in Linked, num'[e[1]] # 0, LookedAt(e)'
       PROVE  /\ e[1] \in Modules /\ e[1] # x /\ e[2] \in Modules
              /\ LookedAt(e) \/ (n # 0 /\ e[1] = work[n].node /\ e[2] = x)
  <2>1. e[1] \in Modules /\ e[2] \in Modules /\ e = <<e[1], e[2]>>
    <3>1. e \in Modules \X Modules
      BY <1>1
    <3> QED
      BY <3>1
  <2>2. \A k \in DOMAIN work' : work'[k].node = e[1] => e[2] \notin work'[k].left
    BY <1>16 DEF LookedAt
  <2>3. e[1] # x
    <3>1. n + 1 \in DOMAIN work'
      BY <1>1, <1>9
    <3> QED
      BY <1>9, <1>10, <2>1, <2>2, <3>1
  <2>4. CASE ~LookedAt(e)
    <3>1. PICK k \in DOMAIN work : work[k].node = e[1] /\ e[2] \in work[k].left
      BY <2>4 DEF LookedAt
    <3>2. k \in DOMAIN work' /\ e[2] \notin w[k].left
      BY <1>1, <1>9, <2>2, <3>1
    <3>3. k = n /\ e[2] = x
      BY <3>1, <3>2 DEF n
    <3> QED
      BY <1>1, <2>1, <2>3, <3>1, <3>3
  <2> QED
    BY <2>1, <2>3, <2>4
<1>17. LowInv'
  <2>1. ASSUME NEW k \in DOMAIN work'
        PROVE  /\ low'[work'[k].node] <= num'[work'[k].node]
               /\ \E u \in Stacked' : /\ num'[u] = low'[work'[k].node]
                                      /\ Reaches(Linked, work'[k].node, u)
    <3>1. CASE k = n + 1
      <4>1. x \in Stacked' /\ num'[x] = low'[work'[k].node] /\ Reaches(Linked, work'[k].node, x)
        BY <1>6, <1>8, <1>9, <3>1, ReachesItself
      <4> QED
        BY <1>3, <1>6, <1>9, <3>1, <4>1
    <3>2. CASE k # n + 1
      <4>1. k \in DOMAIN work
        BY <1>1, <1>9, <3>2
      <4>2. PICK u \in Stacked : num[u] = low[work[k].node] /\ Reaches(Linked, work[k].node, u)
        BY <4>1 DEF LowInv
      <4>3. low[work[k].node] <= num[work[k].node]
        BY <4>1 DEF LowInv
      <4> QED
        BY <1>8, <1>9, <1>12, <4>1, <4>2, <4>3
    <3> QED
      BY <3>1, <3>2
  <2>2. ASSUME NEW e \in Linked, num'[e[1]] # 0, LookedAt(e)'
        PROVE  num'[e[2]] # 0
    <3>1. /\ e[1] \in Modules /\ e[1] # x /\ e[2] \in Modules
          /\ LookedAt(e) \/ (n # 0 /\ e[1] = work[n].node /\ e[2] = x)
      BY <1>16, <2>2
    <3>2. CASE e[2] = x
      BY <1>3, <1>6, <3>2
    <3>3. CASE e[2] # x
      BY <1>5, <2>2, <3>1, <3>3 DEF LowInv
    <3> QED
      BY <3>2, <3>3
  <2>3. ASSUME NEW e \in Linked, e[1] \in Stacked', e[2] \in Stacked', LookedAt(e)',
               NEW k \in DOMAIN work', num'[work'[k].node] <= num'[e[1]]
        PROVE  \E j \in DOMAIN work' : k <= j /\ low'[work'[j].node] <= num'[e[2]]
    <3>1. num'[e[1]] # 0
      BY <1>14, <2>3 DEF StackInv
    <3>2. /\ e[1] \in Modules /\ e[1] # x /\ e[2] \in Modules
          /\ LookedAt(e) \/ (n # 0 /\ e[1] = work[n].node /\ e[2] = x)
      BY <1>16, <2>3, <3>1
    <3>3. e[1] \in Stacked
      BY <1>8, <2>3, <3>2
    <3>4. k \in DOMAIN work /\ num[work[k].node] <= num[e[1]]
      <4>1. k # n + 1
        <5>1. num'[e[1]] < c
          BY <1>12, <3>3
        <5>2. num'[work'[n + 1].node] = c
          BY <1>6, <1>9
        <5>3. num'[e[1]] = num[e[1]] /\ num[e[1]] \in Nat
          BY <1>1, <1>12, <3>2, <3>3
        <5>4. c \in Nat
          BY <1>1, <1>3
        <5> QED
          BY <5>1, <5>2, <5>3, <5>4, <2>3
      <4>2. k \in DOMAIN work
        BY <1>1, <1>9, <4>1
      <4> QED
        BY <1>9, <1>12, <2>3, <3>3, <4>2
    <3>5. CASE LookedAt(e) /\ e[2] # x
      <4>1. e[2] \in Stacked
        BY <1>8, <2>3, <3>5
      <4>2. PICK j \in DOMAIN work : k <= j /\ low[work[j].node] <= num[e[2]]
        BY <3>3, <3>4, <3>5, <4>1 DEF LowInv
      <4>3. j \in DOMAIN work'
        BY <1>1, <1>9
      <4> QED
        BY <1>9, <1>12, <4>1, <4>2, <4>3
    <3>6. CASE e[2] = x
      <4>1. k \in DOMAIN work' /\ low[work[k].node] <= num[work[k].node]
        BY <2>3, <3>4 DEF LowInv
      <4>2. num[work[k].node] < c /\ num'[e[2]] = c /\ low'[work'[k].node] = low[work[k].node]
        BY <1>6, <1>9, <1>12, <3>4, <3>6
      <4>3. low[work[k].node] \in Nat /\ num[work[k].node] \in Nat /\ c \in Nat /\ k <= k
        <5>1. work[k].node \in Modules
          BY <3>4, FrameNodes
        <5>2. k \in Nat
          BY <1>1, <3>4
        <5>3. low[work[k].node] \in Nat /\ num[work[k].node] \in Nat
          BY <1>1, <5>1
        <5>4. c \in Nat
          BY <1>1, <1>3
        <5>5. k <= k
          BY <5>2
        <5> QED
          BY <5>3, <5>4, <5>5
      <4>4. k <= k /\ low'[work'[k].node] <= num'[e[2]]
        BY <4>1, <4>2, <4>3
      <4> QED
        BY <4>1, <4>4
    <3> QED
      BY <3>2, <3>5, <3>6
  <2> QED
    BY <1>10, <2>1, <2>2, <2>3 DEF LowInv
<1>18. PlacedInv'
  BY <1>10, <1>11 DEF PlacedInv, Mutual
<1> QED
  BY <1>14, <1>15, <1>17, <1>18

\* Looking at an edge to a module that was numbered before.
LEMMA EdgeKeeps ==
  ASSUME Typed, Components, work # <<>>, NEW w \in Top(work).left, num[w] # 0,
         work' = Drawn(w),
         low' = IF w \in Stacked THEN [low EXCEPT ![Top(work).node] = Lesser(@, num[w])] ELSE low,
         UNCHANGED <<num, st, deps, cyclic, comps>>
  PROVE  Components'
<1> DEFINE n == Len(work)
           v == work[n].node
<1> USE DEF Components
<1>1. /\ low \in [Modules -> 0..N] /\ n \in Nat /\ DOMAIN work = 1..n
      /\ work \in Seq(Frames(Modules))
      /\ Linked \subseteq Modules \X Modules
      /\ Stacked \subseteq Modules
      /\ \A y \in Modules : num[y] \in Nat /\ low[y] \in Nat
  BY SearchTyped
<1>2. n \in DOMAIN work /\ Top(work) = work[n] /\ v \in Modules /\ w \in Modules
  <2>1. n \in DOMAIN work /\ Top(work) = work[n]
    BY <1>1 DEF Top
  <2> QED
    BY <2>1, FrameNodes
<1>3. v \in Stacked /\ <<v, w>> \in Linked
  BY <1>2 DEF StackInv
<1>4. /\ DOMAIN work' = DOMAIN work
      /\ \A k \in DOMAIN work : work'[k].node = work[k].node
  BY <1>1, TookIs DEF Drawn
<1>5. \A k \in DOMAIN work : k # n => work'[k].left = work[k].left
  <2>1. \A k \in DOMAIN work : k # n => work'[k] = work[k]
    BY <1>1, TookIs DEF Drawn
  <2> QED
    BY <2>1
<1>6. work'[n].left = work[n].left \ {w}
  BY <1>1, TookIs DEF Drawn
<1>7. /\ \A y \in Modules : low'[y] \in Nat /\ low'[y] <= low[y] /\ (y # v => low'[y] = low[y])
      /\ w \in Stacked => low'[v] <= num[w]
      /\ low'[v] = low[v] \/ (w \in Stacked /\ low'[v] = num[w])
  BY <1>1, <1>2 DEF Lesser
<1>8. Linked' = Linked /\ Stacked' = Stacked /\ Placed' = Placed /\ Counter' = Counter
  BY DEF Linked, Stacked, Placed, Counter, Fresh, Elems
<1>9. ASSUME NEW e \in Linked, LookedAt(e)'
      PROVE  LookedAt(e) \/ (e[1] = v /\ e[2] = w)
  <2> SUFFICES ASSUME ~LookedAt(e) PROVE e[1] = v /\ e[2] = w
    OBVIOUS
  <2>1. PICK k \in DOMAIN work : work[k].node = e[1] /\ e[2] \in work[k].left
    BY DEF LookedAt
  <2>2. e[2] \notin work'[k].left
    BY <1>4, <1>9, <2>1 DEF LookedAt
  <2>3. k = n
    BY <1>5, <2>1, <2>2
  <2> QED
    BY <1>6, <2>1, <2>2, <2>3
<1>10. \A k \in DOMAIN work : work[k].node \in Stacked /\ work[k].node \in Modules
  BY <1>1 DEF StackInv
<1> HIDE DEF n, v
<1>11. StackInv'
  <2>1. \A k \in DOMAIN work : \A y \in work'[k].left : y \in work[k].left
    BY <1>5, <1>6
  <2>2. \A k \in DOMAIN work' : /\ work'[k].node \in Stacked'
                                /\ \A y \in work'[k].left : <<work'[k].node, y>> \in Linked'
    BY <1>4, <1>8, <1>10, <2>1 DEF StackInv
  <2>3. \A j, k \in DOMAIN work' : j < k => num'[work'[j].node] < num'[work'[k].node]
    BY <1>4 DEF StackInv
  <2> QED
    BY <1>8, <2>2, <2>3 DEF StackInv
<1>12. PathInv'
  BY <1>4, <1>8 DEF PathInv
<1>13. LowInv'
  <2>1. ASSUME NEW k \in DOMAIN work
        PROVE  /\ low'[work[k].node] <= num[work[k].node]
               /\ \E u \in Stacked : num[u] = low'[work[k].node] /\ Reaches(Linked, work[k].node, u)
    <3>1. work[k].node \in Modules /\ low[work[k].node] <= num[work[k].node]
      BY <1>10 DEF LowInv
    <3>2. low'[work[k].node] <= num[work[k].node]
      BY <1>1, <1>7, <3>1
    <3>3. PICK u \in Stacked : num[u] = low[work[k].node] /\ Reaches(Linked, work[k].node, u)
      BY DEF LowInv
    <3>4. CASE low'[work[k].node] = low[work[k].node]
      BY <3>2, <3>3, <3>4
    <3>5. CASE low'[work[k].node] # low[work[k].node]
      <4>1. work[k].node = v /\ w \in Stacked /\ low'[v] = num[w]
        BY <1>7, <3>1, <3>5
      <4>2. Reaches(Linked, v, w)
        BY <1>2, <1>3, ReachesItself, ReachesOn
      <4> QED
        BY <3>2, <4>1, <4>2
    <3> QED
      BY <3>4, <3>5
  <2>2. ASSUME NEW e \in Linked, num[e[1]] # 0, LookedAt(e)'
        PROVE  num[e[2]] # 0
    BY <1>9, <2>2 DEF LowInv
  <2>3. ASSUME NEW e \in Linked, e[1] \in Stacked, e[2] \in Stacked, LookedAt(e)',
               NEW k \in DOMAIN work, num[work[k].node] <= num[e[1]]
        PROVE  \E j \in DOMAIN work : k <= j /\ low'[work[j].node] <= num[e[2]]
    <3>1. CASE LookedAt(e)
      <4>1. PICK j \in DOMAIN work : k <= j /\ low[work[j].node] <= num[e[2]]
        BY <2>3, <3>1 DEF LowInv
      <4>2. low'[work[j].node] <= low[work[j].node] /\ low'[work[j].node] \in Nat
            /\ low[work[j].node] \in Nat /\ num[e[2]] \in Nat
        BY <1>1, <1>7, <1>10, <2>3
      <4> QED
        BY <4>1, <4>2
    <3>2. CASE e[1] = v /\ e[2] = w
      <4>1. k <= n /\ low'[v] <= num[e[2]]
        BY <1>1, <1>7, <2>3, <3>2
      <4> QED
        BY <1>2, <4>1 DEF v
    <3> QED
      BY <1>9, <2>3, <3>1, <3>2
  <2>4. \A k \in DOMAIN work' :
          /\ low'[work'[k].node] <= num'[work'[k].node]
          /\ \E u \in Stacked' : num'[u] = low'[work'[k].node] /\ Reaches(Linked', work'[k].node, u)
    BY <1>4, <1>8, <2>1
  <2>5. \A e \in Linked' : e[1] \in Stacked' /\ e[2] \in Stacked' /\ LookedAt(e)' =>
          \A k \in DOMAIN work' : num'[work'[k].node] <= num'[e[1]] =>
            \E j \in DOMAIN work' : k <= j /\ low'[work'[j].node] <= num'[e[2]]
    BY <1>4, <1>8, <2>3
  <2>6. \A e \in Linked' : num'[e[1]] # 0 /\ LookedAt(e)' => num'[e[2]] # 0
    BY <1>8, <2>2
  <2> QED
    BY <2>4, <2>5, <2>6 DEF LowInv
<1>14. PlacedInv'
  BY <1>8 DEF PlacedInv, Mutual
<1> QED
  BY <1>11, <1>12, <1>13, <1>14

\* Leaving v, of the n-th frame: its frame is gone, its edges were all looked at,
\* and the next open module has its low number, if that is lower.
Leaves(n, v) ==
  /\ n \in DOMAIN work /\ DOMAIN work = 1..n /\ DOMAIN work' = 1..(n - 1) /\ n \in Nat
  /\ Top(work).node = v /\ v \in Modules /\ v \in Stacked /\ work[n].node = v
  /\ \A k \in DOMAIN work' : /\ k \in DOMAIN work /\ k # n /\ work'[k] = work[k]
                             /\ num[work[k].node] < num[v]
  /\ \A k \in DOMAIN work : /\ work[k].node \in Modules /\ work[k].node \in Stacked
                            /\ num[work[k].node] <= num[v]
                            /\ k # n => k \in DOMAIN work'
                            /\ Reaches(Linked, work[k].node, v)
  /\ \A y \in Modules : low'[y] \in Nat /\ low'[y] <= low[y]
  /\ n # 1 => low'[work[n - 1].node] <= low[v]
  /\ \A y \in Modules : low'[y] # low[y] =>
       n # 1 /\ y = work[n - 1].node /\ low'[y] = low[v] /\ low[v] < low[y]
  /\ \A e \in Linked : /\ LookedAt(e)' => LookedAt(e)
                       /\ e[1] = v => LookedAt(e)
  /\ Linked' = Linked /\ Counter' = Counter

LEMMA LeaveIs ==
  ASSUME Typed, Components, work # <<>>, Top(work).left = {}, work' = Pop(work),
         low' = IF Pop(work) = <<>> THEN low
                ELSE [low EXCEPT ![Top(Pop(work)).node] = Lesser(@, low[Top(work).node])],
         UNCHANGED <<num, deps, cyclic>>
  PROVE  Leaves(Len(work), work[Len(work)].node)
<1> DEFINE n == Len(work)
           v == work[n].node
<1> USE DEF Components
<1>1. /\ low \in [Modules -> 0..N] /\ n \in Nat /\ DOMAIN work = 1..n
      /\ work \in Seq(Frames(Modules))
      /\ Linked \subseteq Modules \X Modules
      /\ Stacked \subseteq Modules
      /\ \A y \in Modules : num[y] \in Nat /\ low[y] \in Nat
  BY SearchTyped
<1>2. n \in DOMAIN work /\ Top(work) = work[n] /\ n # 0
  BY <1>1 DEF Top
<1>3. \A k \in DOMAIN work : work[k].node \in Modules /\ work[k].node \in Stacked
  BY FrameNodes DEF StackInv
<1>4. /\ Len(Pop(work)) = n - 1 /\ Pop(work) \in Seq(Frames(Modules))
      /\ \A k \in DOMAIN Pop(work) : k \in DOMAIN work /\ k < n /\ Pop(work)[k] = work[k]
  BY <1>1, PopIs
<1>5. DOMAIN work' = 1..(n - 1)
  BY <1>1, <1>2, <1>4
<1>6. ASSUME NEW k \in DOMAIN work'
      PROVE  k \in DOMAIN work /\ k # n /\ work'[k] = work[k] /\ num[work[k].node] < num[v]
  <2>1. k \in DOMAIN work /\ k < n /\ work'[k] = work[k]
    BY <1>4, <1>6
  <2>2. num[work[k].node] < num[work[n].node]
    BY <1>2, <2>1 DEF StackInv
  <2> QED
    BY <1>1, <2>1, <2>2
<1>7. \A k \in DOMAIN work : k # n => k \in DOMAIN work'
  BY <1>1, <1>2, <1>5
<1>8. ASSUME NEW k \in DOMAIN work
      PROVE  num[work[k].node] <= num[v] /\ Reaches(Linked, work[k].node, v)
  <2>1. num[work[k].node] <= num[v]
    <3>1. k = n \/ num[work[k].node] < num[v]
      BY <1>6, <1>7
    <3>2. num[v] \in Nat /\ num[work[k].node] \in Nat
      BY <1>1, <1>2, <1>3
    <3>3. k = n => num[work[k].node] = num[v]
      OBVIOUS
    <3> HIDE DEF v
    <3> QED
      BY <3>1, <3>2, <3>3
  <2> QED
    BY <1>2, <1>3, <2>1 DEF PathInv
<1>9. n # 1 => Pop(work) # <<>> /\ Top(Pop(work)).node = work[n - 1].node /\ n - 1 \in DOMAIN work
  <2> SUFFICES ASSUME n # 1
               PROVE  Pop(work) # <<>> /\ Top(Pop(work)).node = work[n - 1].node
                      /\ n - 1 \in DOMAIN work
    OBVIOUS
  <2>1. n - 1 \in DOMAIN work' /\ Len(Pop(work)) # 0
    BY <1>1, <1>2, <1>4, <1>5
  <2> QED
    BY <1>4, <2>1 DEF Top
<1>10. n = 1 => Pop(work) = <<>>
  BY <1>4
<1> DEFINE Lows == /\ \A y \in Modules : low'[y] \in Nat /\ low'[y] <= low[y]
                   /\ n # 1 => low'[work[n - 1].node] <= low[v]
                   /\ \A y \in Modules : low'[y] # low[y] =>
                        n # 1 /\ y = work[n - 1].node /\ low'[y] = low[v] /\ low[v] < low[y]
<1>11. ASSUME n = 1 PROVE Lows
  <2>1. low' = low
    BY <1>10, <1>11
  <2> QED
    BY <1>1, <1>11, <2>1
<1>12. ASSUME n # 1 PROVE Lows
  <2> DEFINE p == work[n - 1].node
  <2>1. low' = [low EXCEPT ![p] = Lesser(@, low[v])] /\ p \in Modules /\ v \in Modules
    BY <1>2, <1>3, <1>9, <1>12
  <2> HIDE DEF p, v
  <2>2. low'[p] = Lesser(low[p], low[v]) /\ \A y \in Modules : y # p => low'[y] = low[y]
    BY <1>1, <2>1
  <2>3. low[p] \in Nat /\ low[v] \in Nat
    BY <1>1, <2>1
  <2>4. /\ low'[p] \in Nat /\ low'[p] <= low[p] /\ low'[p] <= low[v]
        /\ low'[p] = low[p] \/ (low'[p] = low[v] /\ low[v] < low[p])
    BY <2>2, <2>3 DEF Lesser
  <2>5. \A y \in Modules : low'[y] \in Nat /\ low'[y] <= low[y]
    BY <1>1, <2>2, <2>4
  <2> QED
    BY <1>12, <2>2, <2>4, <2>5 DEF p
<1>13. Lows
  BY <1>11, <1>12
<1>14. work[n].left = {}
  BY <1>2
<1>15. ASSUME NEW e \in Linked, LookedAt(e)', ~LookedAt(e) PROVE FALSE
  <2>1. PICK k \in DOMAIN work : work[k].node = e[1] /\ e[2] \in work[k].left
    BY <1>15 DEF LookedAt
  <2>2. k \in DOMAIN work' /\ work'[k] = work[k]
    BY <1>6, <1>7, <1>14, <2>1
  <2> QED
    BY <1>15, <2>1, <2>2 DEF LookedAt
<1>16. ASSUME NEW e \in Linked, e[1] = v PROVE LookedAt(e)
  <2> SUFFICES ASSUME NEW k \in DOMAIN work, work[k].node = v PROVE e[2] \notin work[k].left
    BY <1>16 DEF LookedAt
  <2>1. k = n
    <3> SUFFICES ASSUME k # n PROVE FALSE
      OBVIOUS
    <3>1. num[v] < num[v] /\ num[v] \in Nat
      BY <1>1, <1>2, <1>3, <1>6, <1>7
    <3> QED
      BY <3>1
  <2> QED
    BY <1>14, <2>1
<1>17. Linked' = Linked /\ Counter' = Counter
  BY DEF Linked, Counter, Fresh
<1>18. n \in Nat /\ Top(work).node = v /\ v \in Modules /\ v \in Stacked
  BY <1>1, <1>2, <1>3
<1>19. \A k \in DOMAIN work' : k \in DOMAIN work /\ k # n /\ work'[k] = work[k] /\ num[work[k].node] < num[v]
  BY <1>6
<1>20. \A k \in DOMAIN work : /\ work[k].node \in Modules /\ work[k].node \in Stacked
                              /\ num[work[k].node] <= num[v]
                              /\ k # n => k \in DOMAIN work'
                              /\ Reaches(Linked, work[k].node, v)
  BY <1>3, <1>7, <1>8
<1>21. \A e \in Linked : (LookedAt(e)' => LookedAt(e)) /\ (e[1] = v => LookedAt(e))
  BY <1>15, <1>16
<1>22. n \in DOMAIN work /\ DOMAIN work = 1..n /\ work[n].node = v
  BY <1>1, <1>2
<1> HIDE DEF n, v
<1>23. Leaves(n, v)
  BY <1>5, <1>13, <1>17, <1>18, <1>19, <1>20, <1>21, <1>22 DEF Leaves
<1> QED
  BY <1>23 DEF n, v

\* A module that reaches a module numbered before it stays stacked: the open
\* modules before it take over what led to it.
LEMMA LeaveOpenKeeps ==
  ASSUME Typed, Components, NEW n, NEW v, Leaves(n, v), low[v] # num[v],
         UNCHANGED <<num, st, comps>>
  PROVE  Components'
<1> USE DEF Components
<1>1. /\ Linked \subseteq Modules \X Modules /\ Stacked \subseteq Modules
      /\ \A y \in Modules : num[y] \in Nat /\ low[y] \in Nat
  BY SearchTyped
<1>2. /\ n \in DOMAIN work /\ DOMAIN work = 1..n /\ DOMAIN work' = 1..(n - 1) /\ n \in Nat
      /\ v \in Modules /\ v \in Stacked /\ work[n].node = v
      /\ \A k \in DOMAIN work' : /\ k \in DOMAIN work /\ k # n /\ work'[k] = work[k]
                                 /\ num[work[k].node] < num[v]
      /\ \A k \in DOMAIN work : /\ work[k].node \in Modules /\ work[k].node \in Stacked
                                /\ num[work[k].node] <= num[v]
                                /\ k # n => k \in DOMAIN work'
                                /\ Reaches(Linked, work[k].node, v)
  BY DEF Leaves
<1>3. /\ \A y \in Modules : low'[y] \in Nat /\ low'[y] <= low[y]
      /\ n # 1 => low'[work[n - 1].node] <= low[v]
      /\ \A y \in Modules : low'[y] # low[y] =>
           n # 1 /\ y = work[n - 1].node /\ low'[y] = low[v] /\ low[v] < low[y]
      /\ \A e \in Linked : LookedAt(e)' => LookedAt(e)
  BY DEF Leaves
<1>4. Linked' = Linked /\ Counter' = Counter
  BY DEF Leaves
<1>5. Stacked' = Stacked /\ Placed' = Placed
  BY DEF Stacked, Placed, Elems
<1>6. PICK w \in Stacked : num[w] = low[v] /\ Reaches(Linked, v, w)
  BY <1>2 DEF LowInv
<1>7. num[w] < num[v] /\ w \in Modules
  <2>1. low[v] <= num[v]
    BY <1>2 DEF LowInv
  <2> QED
    BY <1>1, <1>2, <1>6, <2>1
<1>8. PICK b \in DOMAIN work' : num[work[b].node] <= num[w] /\ Reaches(Linked, w, work[b].node)
  <2>1. PICK b \in DOMAIN work : num[work[b].node] <= num[w] /\ Reaches(Linked, w, work[b].node)
    BY DEF PathInv
  <2>2. b # n
    BY <1>1, <1>2, <1>7, <2>1
  <2> QED
    BY <1>2, <2>1, <2>2
<1>9. StackInv'
  BY <1>2, <1>4, <1>5 DEF StackInv
<1>10. PathInv'
  <2>1. ASSUME NEW u \in Stacked
        PROVE  \E k \in DOMAIN work' : num[work[k].node] <= num[u] /\ Reaches(Linked, u, work[k].node)
    <3>1. PICK k \in DOMAIN work : num[work[k].node] <= num[u] /\ Reaches(Linked, u, work[k].node)
      BY DEF PathInv
    <3>2. CASE k # n
      BY <1>2, <3>1, <3>2
    <3>3. CASE k = n
      <4>1. num[v] <= num[u] /\ Reaches(Linked, u, v)
        BY <1>2, <3>1, <3>3
      <4>2. Reaches(Linked, u, work[b].node)
        BY <1>6, <1>8, <4>1, ReachesTransitive
      <4>3. num[work[b].node] \in Nat /\ num[w] \in Nat /\ num[v] \in Nat /\ num[u] \in Nat
        BY <1>1, <1>2, <1>7
      <4>4. num[work[b].node] <= num[u]
        BY <1>7, <1>8, <4>1, <4>3
      <4> QED
        BY <4>2, <4>4
    <3> QED
      BY <3>2, <3>3
  <2>2. \A k \in DOMAIN work' : work'[k] = work[k] /\ k \in DOMAIN work
    BY <1>2
  <2> QED
    BY <1>4, <1>5, <2>1, <2>2 DEF PathInv
<1>11. LowInv'
  <2>1. ASSUME NEW k \in DOMAIN work'
        PROVE  /\ low'[work[k].node] <= num[work[k].node]
               /\ \E u \in Stacked : num[u] = low'[work[k].node] /\ Reaches(Linked, work[k].node, u)
    <3>1. /\ k \in DOMAIN work /\ work[k].node \in Modules /\ low[work[k].node] <= num[work[k].node]
          /\ Reaches(Linked, work[k].node, v)
      BY <1>2 DEF LowInv
    <3>2. low'[work[k].node] <= num[work[k].node]
      BY <1>1, <1>3, <3>1
    <3>3. CASE low'[work[k].node] = low[work[k].node]
      BY <3>1, <3>2, <3>3 DEF LowInv
    <3>4. CASE low'[work[k].node] # low[work[k].node]
      <4>1. low'[work[k].node] = low[v]
        BY <1>3, <3>1, <3>4
      <4>2. Reaches(Linked, work[k].node, w)
        BY <1>6, <3>1, ReachesTransitive
      <4> QED
        BY <1>6, <3>2, <4>1, <4>2
    <3> QED
      BY <3>3, <3>4
  <2>2. ASSUME NEW e \in Linked, e[1] \in Stacked, e[2] \in Stacked, LookedAt(e)',
               NEW k \in DOMAIN work', num[work[k].node] <= num[e[1]]
        PROVE  \E j \in DOMAIN work' : k <= j /\ low'[work[j].node] <= num[e[2]]
    <3>1. k \in DOMAIN work /\ LookedAt(e)
      BY <1>2, <1>3, <2>2
    <3>2. PICK j \in DOMAIN work : k <= j /\ low[work[j].node] <= num[e[2]]
      BY <2>2, <3>1 DEF LowInv
    <3>3. num[e[2]] \in Nat
      BY <1>1, <2>2
    <3>4. CASE j # n
      <4>1. j \in DOMAIN work' /\ low'[work[j].node] <= low[work[j].node]
            /\ low'[work[j].node] \in Nat /\ low[work[j].node] \in Nat
        BY <1>1, <1>2, <1>3, <3>4
      <4> QED
        BY <3>2, <3>3, <4>1
    <3>5. CASE j = n
      <4>1. n # 1 /\ n - 1 \in DOMAIN work' /\ k <= n - 1 /\ n - 1 \in DOMAIN work
        BY <1>2, <2>2
      <4>2. low'[work[n - 1].node] <= low[v] /\ low[v] <= num[e[2]]
        BY <1>2, <1>3, <3>2, <3>5, <4>1
      <4>3. low'[work[n - 1].node] \in Nat /\ low[v] \in Nat
        BY <1>1, <1>2, <1>3, <4>1
      <4>4. low'[work[n - 1].node] <= num[e[2]]
        BY <3>3, <4>2, <4>3
      <4> QED
        BY <4>1, <4>4
    <3> QED
      BY <3>4, <3>5
  <2>3. \A e \in Linked : num[e[1]] # 0 /\ LookedAt(e)' => num[e[2]] # 0
    BY <1>3 DEF LowInv
  <2>4. \A k \in DOMAIN work' : work'[k] = work[k]
    BY <1>2
  <2>5. \A k \in DOMAIN work' :
          /\ low'[work'[k].node] <= num'[work'[k].node]
          /\ \E u \in Stacked' : num'[u] = low'[work'[k].node] /\ Reaches(Linked', work'[k].node, u)
    BY <1>4, <1>5, <2>1, <2>4
  <2>6. \A e \in Linked' : e[1] \in Stacked' /\ e[2] \in Stacked' /\ LookedAt(e)' =>
          \A k \in DOMAIN work' : num'[work'[k].node] <= num'[e[1]] =>
            \E j \in DOMAIN work' : k <= j /\ low'[work'[j].node] <= num'[e[2]]
    BY <1>4, <1>5, <2>2, <2>4
  <2> QED
    BY <1>4, <2>3, <2>5, <2>6 DEF LowInv
<1>12. PlacedInv'
  BY <1>4, <1>5 DEF PlacedInv, Mutual
<1> QED
  BY <1>9, <1>10, <1>11, <1>12

\* What is taken from the stack with v is what was numbered since.
LEMMA Taken ==
  ASSUME Typed, StackInv, NEW at \in DOMAIN st, st' = SubSeq(st, 1, at - 1), UNCHANGED num
  PROVE  LET v == st[at]
             C == {st[i] : i \in at..Len(st)}
         IN /\ C = {u \in Stacked : num[v] <= num[u]}
            /\ Stacked' = {u \in Stacked : num[u] < num[v]}
            /\ \A i, j \in DOMAIN st' : i < j => num[st'[i]] < num[st'[j]]
<1> DEFINE m == Len(st)
           v == st[at]
           C == {st[i] : i \in at..m}
<1>1. /\ st \in Seq(Modules) /\ m \in Nat /\ DOMAIN st = 1..m
      /\ \A y \in Modules : num[y] \in Nat
  BY SearchTyped
<1>2. \A i \in DOMAIN st : st[i] \in Modules /\ st[i] \in Stacked
  <2>1. \A i \in DOMAIN st : st[i] \in Stacked
    BY DEF Stacked, Elems
  <2> QED
    BY <1>1, <2>1, PrefixTyped
<1>3. \A u \in Stacked : \E i \in DOMAIN st : st[i] = u
  BY DEF Stacked, Elems
<1>4. \A i \in DOMAIN st : at <= i <=> num[v] <= num[st[i]]
  <2> SUFFICES ASSUME NEW i \in DOMAIN st PROVE at <= i <=> num[v] <= num[st[i]]
    OBVIOUS
  <2>1. at \in Nat /\ i \in Nat /\ num[v] \in Nat /\ num[st[i]] \in Nat
    BY <1>1, <1>2
  <2>2. CASE i < at
    <3>1. num[st[i]] < num[v]
      BY <2>2 DEF StackInv
    <3> QED
      BY <2>1, <2>2, <3>1
  <2>3. CASE i = at
    BY <2>1, <2>3
  <2>4. CASE at < i
    <3>1. num[v] < num[st[i]]
      BY <2>4 DEF StackInv
    <3> QED
      BY <2>1, <2>4, <3>1
  <2> QED
    BY <2>1, <2>2, <2>3, <2>4
<1>5. \A i : i \in at..m <=> i \in DOMAIN st /\ at <= i
  BY <1>1
<1>6. /\ DOMAIN st' = 1..(at - 1)
      /\ \A i \in DOMAIN st' : i \in DOMAIN st /\ i < at /\ st'[i] = st[i]
      /\ \A i \in DOMAIN st : i < at => i \in DOMAIN st'
  <2>1. at \in 1..m /\ at - 1 \in Nat
    BY <1>1
  <2>2. st' = [i \in 1..(at - 1) |-> st[i]]
    BY <1>1, <2>1
  <2> QED
    BY <1>1, <2>1, <2>2
<1>7. \A i, j \in DOMAIN st' : i < j => num[st'[i]] < num[st'[j]]
  BY <1>6 DEF StackInv
<1> HIDE DEF v, m
<1>8. C = {u \in Stacked : num[v] <= num[u]}
  <2>1. ASSUME NEW u \in C PROVE u \in Stacked /\ num[v] <= num[u]
    <3>1. PICK i \in at..m : u = st[i]
      BY <2>1
    <3> QED
      BY <1>2, <1>4, <1>5, <3>1
  <2>2. ASSUME NEW u \in Stacked, num[v] <= num[u] PROVE u \in C
    <3>1. PICK i \in DOMAIN st : st[i] = u
      BY <1>3
    <3>2. i \in at..m
      BY <1>4, <1>5, <2>2, <3>1
    <3> QED
      BY <3>1, <3>2
  <2> QED
    BY <2>1, <2>2
<1>9. Stacked' = {u \in Stacked : num[u] < num[v]}
  <2>1. \A u : u \in Stacked' <=> \E i \in DOMAIN st' : st'[i] = u
    BY DEF Stacked, Elems
  <2>2. v \in Modules /\ at \in Nat /\ \A i \in DOMAIN st : i \in Nat
    BY <1>1, <1>2 DEF v
  <2>3. ASSUME NEW u \in Stacked' PROVE u \in Stacked /\ num[u] < num[v]
    <3>1. PICK i \in DOMAIN st' : st'[i] = u
      BY <2>1
    <3>2. i \in DOMAIN st /\ i < at /\ st[i] = u /\ i \in Nat
      BY <1>6, <2>2, <3>1
    <3>3. u \in Modules /\ u \in Stacked /\ ~(num[v] <= num[u])
      BY <1>2, <1>4, <2>2, <3>2
    <3> QED
      BY <1>1, <2>2, <3>3
  <2>4. ASSUME NEW u \in Stacked, num[u] < num[v] PROVE u \in Stacked'
    <3>1. PICK i \in DOMAIN st : st[i] = u
      BY <1>3
    <3>2. u \in Modules /\ i \in Nat /\ ~(num[v] <= num[u])
      BY <1>1, <1>2, <2>2, <2>4, <3>1
    <3>3. i < at
      BY <1>4, <2>2, <3>1, <3>2
    <3> QED
      BY <1>6, <2>1, <3>1, <3>3
  <2> QED
    BY <2>3, <2>4
<1> QED
  BY <1>7, <1>8, <1>9 DEF v, m

\* A module that reaches none numbered before it takes its component, which is
\* what was stacked since, from the stack.
LEMMA LeaveRootKeeps ==
  ASSUME Typed, Components, NEW n, NEW v, Leaves(n, v), low[v] = num[v],
         NEW C, C = {u \in Stacked : num[v] <= num[u]},
         Stacked' = {u \in Stacked : num[u] < num[v]},
         \A i, j \in DOMAIN st' : i < j => num[st'[i]] < num[st'[j]],
         comps' = IF Cardinality(C) > 1 THEN comps \cup {C} ELSE comps,
         UNCHANGED num
  PROVE  Components'
<1> USE DEF Components
<1>1. /\ Linked \subseteq Modules \X Modules /\ Stacked \subseteq Modules /\ Placed \subseteq Modules
      /\ \A y \in Modules : num[y] \in Nat /\ low[y] \in Nat
  BY SearchTyped
<1>2. /\ n \in DOMAIN work /\ DOMAIN work = 1..n /\ DOMAIN work' = 1..(n - 1) /\ n \in Nat
      /\ v \in Modules /\ v \in Stacked /\ work[n].node = v
      /\ \A k \in DOMAIN work' : /\ k \in DOMAIN work /\ k # n /\ work'[k] = work[k]
                                 /\ num[work[k].node] < num[v]
      /\ \A k \in DOMAIN work : /\ work[k].node \in Modules /\ work[k].node \in Stacked
                                /\ num[work[k].node] <= num[v]
                                /\ k # n => k \in DOMAIN work'
                                /\ Reaches(Linked, work[k].node, v)
  BY DEF Leaves
<1>3. /\ \A y \in Modules : low'[y] # low[y] =>
           n # 1 /\ y = work[n - 1].node /\ low'[y] = low[v] /\ low[v] < low[y]
      /\ \A e \in Linked : (LookedAt(e)' => LookedAt(e)) /\ (e[1] = v => LookedAt(e))
  BY DEF Leaves
<1>4. Linked' = Linked /\ Counter' = Counter
  BY DEF Leaves
<1>5. Placed' = Placed \cup C
  <2>1. \A u \in Modules : u \in Placed' <=> num[u] # 0 /\ u \notin Stacked'
    BY DEF Placed
  <2>2. \A u \in Modules : u \in Placed <=> num[u] # 0 /\ u \notin Stacked
    BY DEF Placed
  <2>3. \A u \in Stacked : num[u] # 0 /\ num[u] \in Nat
    BY <1>1 DEF StackInv
  <2>4. Placed' \subseteq Modules
    BY DEF Placed
  <2>5. num[v] \in Nat /\ C \subseteq Modules
    BY <1>1, <1>2
  <2>6. \A u \in Modules : u \in Placed' <=> u \in Placed \/ u \in C
    BY <2>1, <2>2, <2>3, <2>5
  <2> QED
    BY <1>1, <2>4, <2>5, <2>6
<1>6. ASSUME NEW e \in Linked, e[1] \in C PROVE LookedAt(e)
  <2>1. CASE e[1] = v
    BY <1>3, <1>6, <2>1
  <2>2. CASE e[1] # v
    <3> SUFFICES ASSUME NEW k \in DOMAIN work, work[k].node = e[1] PROVE FALSE
      BY DEF LookedAt
    <3>1. k # n
      BY <1>2, <2>2
    <3>2. num[e[1]] < num[v] /\ num[v] <= num[e[1]] /\ num[v] \in Nat /\ num[e[1]] \in Nat
      BY <1>1, <1>2, <1>6, <3>1
    <3> QED
      BY <3>2
  <2> QED
    BY <2>1, <2>2
<1>7. ClosedUnder(Placed \cup C, Linked)
  <2> SUFFICES ASSUME NEW e \in Linked, e[1] \in C PROVE e[2] \in Placed \cup C
    BY DEF ClosedUnder, PlacedInv
  <2>1. LookedAt(e) /\ e[1] \in Stacked /\ num[v] <= num[e[1]] /\ e[2] \in Modules
    <3>1. e \in Modules \X Modules
      BY <1>1
    <3> QED
      BY <1>6, <3>1
  <2>2. num[e[2]] # 0
    BY <2>1 DEF LowInv, StackInv
  <2>3. CASE e[2] \notin Stacked
    BY <2>1, <2>2, <2>3 DEF Placed
  <2>4. CASE e[2] \in Stacked
    <3>1. PICK j \in DOMAIN work : n <= j /\ low[work[j].node] <= num[e[2]]
      BY <1>2, <2>1, <2>4 DEF LowInv
    <3>2. j = n
      BY <1>2, <3>1
    <3> QED
      BY <1>2, <2>4, <3>1, <3>2
  <2> QED
    BY <2>3, <2>4
<1>8. C = Mutual(v)
  <2>1. ASSUME NEW u \in C PROVE u \in Mutual(v)
    <3>1. u \in Stacked /\ num[v] <= num[u] /\ u \in Modules
      BY <1>1
    <3>2. Reaches(Linked, v, u)
      BY <1>2, <3>1 DEF PathInv
    <3>3. PICK k \in DOMAIN work : Reaches(Linked, u, work[k].node)
      BY <3>1 DEF PathInv
    <3>4. Reaches(Linked, u, v)
      BY <1>2, <3>3, ReachesTransitive
    <3> QED
      BY <3>1, <3>2, <3>4 DEF Mutual
  <2>2. ASSUME NEW u \in Mutual(v) PROVE u \in C
    <3>1. u \in Modules /\ Reaches(Linked, v, u) /\ Reaches(Linked, u, v)
      BY DEF Mutual
    <3>2. v \in C
      BY <1>1, <1>2
    <3>3. Placed \cup C \in SUBSET Modules
      BY <1>1
    <3>4. u \in Placed \cup C
      BY <1>7, <3>1, <3>2, <3>3 DEF Reaches
    <3>5. u \notin Placed
      <4> SUFFICES ASSUME u \in Placed PROVE FALSE
        OBVIOUS
      <4>1. v \in Placed
        BY <1>1, <3>1 DEF Reaches, PlacedInv
      <4> QED
        BY <1>2, <4>1 DEF Placed
    <3> QED
      BY <3>4, <3>5
  <2> QED
    BY <2>1, <2>2
<1>9. PlacedInv'
  <2>1. \A x \in C : Mutual(x) = C
    BY <1>2, <1>8, MutualIs
  <2>2. v \in C
    BY <1>1, <1>2
  <2>3. {Mutual(x) : x \in Placed'} = {Mutual(x) : x \in Placed} \cup {C}
    BY <1>5, <2>1, <2>2
  <2>4. comps' = {D \in {Mutual(x) : x \in Placed'} : Cardinality(D) > 1}
    BY <2>3 DEF PlacedInv
  <2>5. \A x : Mutual(x)' = Mutual(x)
    BY <1>4 DEF Mutual
  <2>6. ClosedUnder(Placed', Linked')
    BY <1>4, <1>5, <1>7
  <2> QED
    BY <2>4, <2>5, <2>6 DEF PlacedInv
<1>10. \A k \in DOMAIN work' : /\ work'[k] = work[k] /\ k \in DOMAIN work /\ work[k].node \in Modules
                               /\ work[k].node \in Stacked' /\ num[work[k].node] < num[v]
  BY <1>2
<1>11. \A k \in DOMAIN work' : low'[work[k].node] = low[work[k].node]
  <2> SUFFICES ASSUME NEW k \in DOMAIN work', low'[work[k].node] # low[work[k].node] PROVE FALSE
    OBVIOUS
  <2>1. num[v] < low[work[k].node]
    BY <1>3, <1>10
  <2>2. low[work[k].node] <= num[work[k].node]
    BY <1>10 DEF LowInv
  <2>3. low[work[k].node] \in Nat /\ num[work[k].node] \in Nat /\ num[v] \in Nat
    BY <1>1, <1>2, <1>10
  <2> QED
    BY <1>10, <2>1, <2>2, <2>3
<1>12. \A u \in Stacked' : u \in Stacked /\ u \in Modules /\ num[u] < num[v] /\ num[u] \in Nat
  BY <1>1
<1>13. StackInv'
  BY <1>4, <1>10, <1>12 DEF StackInv
<1>14. PathInv'
  <2>1. ASSUME NEW u \in Stacked'
        PROVE  \E k \in DOMAIN work' : num[work[k].node] <= num[u] /\ Reaches(Linked, u, work[k].node)
    <3>1. PICK k \in DOMAIN work : num[work[k].node] <= num[u] /\ Reaches(Linked, u, work[k].node)
      BY <1>12 DEF PathInv
    <3>2. k # n
      BY <1>1, <1>2, <1>12, <3>1
    <3> QED
      BY <1>2, <3>1, <3>2
  <2> QED
    BY <1>4, <1>10, <1>12, <2>1 DEF PathInv
<1>15. LowInv'
  <2>1. ASSUME NEW k \in DOMAIN work'
        PROVE  /\ low[work[k].node] <= num[work[k].node]
               /\ \E u \in Stacked' : num[u] = low[work[k].node] /\ Reaches(Linked, work[k].node, u)
    <3>1. low[work[k].node] <= num[work[k].node]
      BY <1>10 DEF LowInv
    <3>2. PICK u \in Stacked : num[u] = low[work[k].node] /\ Reaches(Linked, work[k].node, u)
      BY <1>10 DEF LowInv
    <3>3. num[work[k].node] \in Nat /\ num[u] \in Nat /\ num[v] \in Nat
      BY <1>1, <1>2, <1>10
    <3>4. num[u] < num[v]
      BY <1>10, <3>1, <3>2, <3>3
    <3> QED
      BY <3>1, <3>2, <3>4
  <2>2. ASSUME NEW e \in Linked, e[1] \in Stacked', e[2] \in Stacked', LookedAt(e)',
               NEW k \in DOMAIN work', num[work[k].node] <= num[e[1]]
        PROVE  \E j \in DOMAIN work' : k <= j /\ low[work[j].node] <= num[e[2]]
    <3>1. PICK j \in DOMAIN work : k <= j /\ low[work[j].node] <= num[e[2]]
      BY <1>3, <1>10, <1>12, <2>2 DEF LowInv
    <3>2. j # n
      BY <1>1, <1>2, <1>12, <2>2, <3>1
    <3> QED
      BY <1>2, <3>1, <3>2
  <2>3. \A e \in Linked : num[e[1]] # 0 /\ LookedAt(e)' => num[e[2]] # 0
    BY <1>3 DEF LowInv
  <2>4. \A k \in DOMAIN work' :
          /\ low'[work'[k].node] <= num'[work'[k].node]
          /\ \E u \in Stacked' : num'[u] = low'[work'[k].node] /\ Reaches(Linked', work'[k].node, u)
    BY <1>4, <1>10, <1>11, <2>1
  <2>5. \A e \in Linked' : e[1] \in Stacked' /\ e[2] \in Stacked' /\ LookedAt(e)' =>
          \A k \in DOMAIN work' : num'[work'[k].node] <= num'[e[1]] =>
            \E j \in DOMAIN work' : k <= j /\ low'[work'[j].node] <= num'[e[2]]
    BY <1>4, <1>10, <1>11, <2>2
  <2> QED
    BY <1>4, <2>3, <2>4, <2>5 DEF LowInv
<1> QED
  BY <1>9, <1>13, <1>14, <1>15

Grouped == Sorted /\ TarjanInv

LEMMA ComponentsStay ==
  ASSUME Components, UNCHANGED <<num, low, st, work, comps, deps, cyclic>>
  PROVE  Components'
<1>1. /\ Stacked' = Stacked /\ Placed' = Placed /\ Linked' = Linked /\ Counter' = Counter
      /\ \A e : LookedAt(e)' <=> LookedAt(e)
      /\ \A x : Mutual(x)' = Mutual(x)
  BY DEF Stacked, Placed, Linked, Counter, Fresh, Elems, LookedAt, Mutual
<1>2. StackInv'
  BY <1>1 DEF Components, StackInv
<1>3. PathInv'
  BY <1>1 DEF Components, PathInv
<1>4. LowInv'
  BY <1>1 DEF Components, LowInv
<1>5. PlacedInv'
  BY <1>1 DEF Components, PlacedInv
<1> QED
  BY <1>2, <1>3, <1>4, <1>5 DEF Components

\* Before the search there is nothing on the stacks.
LEMMA NothingSearched == Typed /\ Unsearched => Components
<1> SUFFICES ASSUME Typed, Unsearched PROVE Components
  OBVIOUS
<1>1. Stacked = {} /\ Placed = {} /\ DOMAIN st = {} /\ DOMAIN work = {}
  BY DEF Unsearched, Stacked, Placed, Elems
<1>2. \A x \in Modules : num[x] < Counter
  <2>1. Modules \ Fresh = {}
    BY DEF Unsearched, Fresh
  <2>2. Counter = 1
    BY <2>1, FS_EmptySet DEF Counter
  <2> QED
    BY <2>2 DEF Unsearched
<1>3. StackInv /\ PathInv
  BY <1>1, <1>2 DEF StackInv, PathInv
<1>4. LowInv
  <2>1. \A e \in Linked : num[e[1]] = 0
    BY SearchTyped DEF Unsearched
  <2> QED
    BY <1>1, <2>1 DEF LowInv
<1>5. PlacedInv
  BY <1>1 DEF PlacedInv, ClosedUnder, Unsearched
<1> QED
  BY <1>3, <1>4, <1>5 DEF Components

LEMMA ComponentsStep ==
  ASSUME Typed, Components, GroupRoot \/ GroupEdge \/ GroupLeave
  PROVE  Components'
<1>0. /\ work \in Seq(Frames(Modules)) /\ st \in Seq(Modules)
      /\ UNCHANGED <<deps, cyclic>>
  BY SearchTyped DEF GroupRoot, GroupEdge, GroupLeave, classes
<1>1. CASE GroupRoot
  <2>1. work = <<>> /\ comps' = comps
    BY <1>1 DEF GroupRoot
  <2>2. PICK x \in Fresh : Enter(x, <<>>)
    BY <1>1 DEF GroupRoot
  <2>3. work \in Seq(Frames(Modules)) /\ DOMAIN work = {} /\ Enter(x, work)
    BY <1>0, <2>1, <2>2
  <2> QED
    BY <1>0, <2>1, <2>3, EnterKeeps
<1>2. CASE GroupEdge
  <2>1. work # <<>> /\ comps' = comps
    BY <1>2 DEF GroupEdge
  <2>2. PICK w \in Top(work).left :
          \/ num[w] = 0 /\ Enter(w, Drawn(w))
          \/ /\ num[w] # 0
             /\ work' = Drawn(w)
             /\ low' = IF w \in Elems(st)
                       THEN [low EXCEPT ![Top(work).node] = Lesser(@, num[w])]
                       ELSE low
             /\ UNCHANGED <<num, st>>
    BY <1>2 DEF GroupEdge
  <2>3. CASE num[w] = 0
    <3>1. w \in Fresh /\ Enter(w, Drawn(w))
      BY <1>0, <2>1, <2>2, <2>3, TopTyped DEF Fresh
    <3>2. Drawn(w) \in Seq(Frames(Modules)) /\ Len(Drawn(w)) = Len(work)
      BY <1>0, <2>1, TookIs DEF Drawn
    <3>3. \A k \in DOMAIN work : /\ Drawn(w)[k].node = work[k].node
                                 /\ k # Len(work) => Drawn(w)[k] = work[k]
      BY <1>0, <2>1, TookIs DEF Drawn
    <3>4. Drawn(w)[Len(work)].left = work[Len(work)].left \ {w}
      BY <1>0, <2>1, TookIs DEF Drawn
    <3>5. ASSUME NEW k \in DOMAIN work
          PROVE  /\ Drawn(w)[k].node = work[k].node
                 /\ Drawn(w)[k].left \subseteq work[k].left
                 /\ \A y \in work[k].left \ Drawn(w)[k].left : k = Len(work) /\ y = w
      <4>1. CASE k = Len(work)
        BY <3>3, <3>4, <4>1
      <4>2. CASE k # Len(work)
        BY <3>3, <4>2
      <4> QED
        BY <4>1, <4>2
    <3> QED
      BY <1>0, <2>1, <3>1, <3>2, <3>5, EnterKeeps
  <2>4. CASE num[w] # 0
    BY <1>0, <2>1, <2>2, <2>4, EdgeKeeps DEF Stacked
  <2> QED
    BY <2>3, <2>4
<1>3. CASE GroupLeave
  <2> DEFINE n == Len(work)
             v == work[n].node
  <2>1. /\ work # <<>> /\ Top(work).left = {} /\ work' = Pop(work) /\ UNCHANGED num
        /\ low' = IF Pop(work) = <<>> THEN low
                  ELSE [low EXCEPT ![Top(Pop(work)).node] = Lesser(@, low[Top(work).node])]
    BY <1>3 DEF GroupLeave
  <2>2. Leaves(n, v)
    BY <1>0, <2>1, LeaveIs
  <2>3. Top(work).node = v
    BY DEF Top
  <2> HIDE DEF n, v
  <2>4. CASE low[v] # num[v]
    <3>1. UNCHANGED <<st, comps>>
      BY <1>3, <2>3, <2>4 DEF GroupLeave
    <3> QED
      BY <2>1, <2>2, <2>4, <3>1, LeaveOpenKeeps
  <2>5. CASE low[v] = num[v]
    <3>1. PICK at \in DOMAIN st :
            LET comp == {st[i] : i \in at..Len(st)} IN
            /\ st[at] = v /\ st' = SubSeq(st, 1, at - 1)
            /\ comps' = IF Cardinality(comp) > 1 THEN comps \cup {comp} ELSE comps
      BY <1>3, <2>3, <2>5 DEF GroupLeave
    <3> DEFINE C == {st[i] : i \in at..Len(st)}
    <3>2. /\ C = {u \in Stacked : num[v] <= num[u]}
          /\ Stacked' = {u \in Stacked : num[u] < num[v]}
          /\ \A i, j \in DOMAIN st' : i < j => num[st'[i]] < num[st'[j]]
      BY <2>1, <3>1, Taken DEF Components
    <3>3. comps' = IF Cardinality(C) > 1 THEN comps \cup {C} ELSE comps
      BY <3>1
    <3> HIDE DEF C
    <3> QED
      BY <2>1, <2>2, <2>5, <3>2, <3>3, LeaveRootKeeps
  <2> QED
    BY <2>4, <2>5
<1> QED
  BY <1>1, <1>2, <1>3

LEMMA GroupedStep == Grouped /\ [Next]_vars => Grouped'
<1> SUFFICES ASSUME Grouped, [Next]_vars PROVE Grouped'
  OBVIOUS
<1> USE DEF Grouped
<1>1. Sorted' /\ Typed /\ Typed'
  BY SortedStep DEF Sorted
<1>2. CASE Classify \/ Staged
  <2>1. UNCHANGED tarjan /\ phase' # "groups"
    BY <1>2 DEF Classify, TestRequire, Search, LeaveRequire, MakeImport, Rewrite, Staged
  <2>2. round = 1 \/ phase \in {"classify", "test"}
    BY <1>1, <1>2 DEF Classify, TestRequire, Search, LeaveRequire, MakeImport, Rewrite, Staged,
                Typed, PhaseInv
  <2>3. Unsearched'
    BY <2>1, <2>2 DEF TarjanInv, Unsearched, tarjan
  <2>4. round' = 2 /\ PreMerge' => cyclic' \subseteq requires'
    <3>1. CASE LeaveRequire
      BY <1>1, <3>1 DEF LeaveRequire, TarjanInv, PreMerge, doc, Typed, EdgesInv
    <3>2. CASE Staged
      BY <1>1, <3>2 DEF Staged, TarjanInv, Typed, PhaseInv
    <3>3. CASE Rewrite
      BY <3>3 DEF Rewrite
    <3>4. CASE TestRequire \/ Search \/ MakeImport
      BY <3>4 DEF TestRequire, Search, MakeImport, TarjanInv, PreMerge, doc
    <3> QED
      BY <1>2, <3>1, <3>2, <3>3, <3>4 DEF Classify
  <2> QED
    BY <1>1, <2>1, <2>3, <2>4 DEF TarjanInv
<1>3. CASE Plan
  <2>1. /\ UNCHANGED <<tarjan, round, cyclic>> /\ phase = "plan"
        /\ phase' \in {"plan", "refused", "staged", "done"}
        /\ requires' = requires
        /\ phase' = "staged" => round = 1
    BY <1>3 DEF Plan, PlanRoot, PlanDep, PlanCycle, PlanEmit, Planning, doc, classes
  <2>2. round = 1 => Unsearched'
    BY <2>1 DEF TarjanInv, Unsearched, tarjan
  <2>3. ~(round' = 2 /\ PreMerge')
    BY <2>1 DEF PreMerge
  <2> QED
    BY <1>1, <2>1, <2>2, <2>3 DEF TarjanInv
<1>4. CASE FindGroups
  <2>1. /\ phase = "classify" /\ phase' = "groups" /\ round = 2 /\ round' = 2
        /\ UNCHANGED <<tarjan, safe, cyclic, requires, deps>>
        /\ requires \subseteq safe \cup cyclic
    BY <1>4 DEF FindGroups, Unclassified, doc, classes
  <2>2. Components
    BY <1>1, <2>1, NothingSearched DEF TarjanInv
  <2>3. Components'
    BY <2>1, <2>2, ComponentsStay DEF tarjan
  <2> QED
    BY <1>1, <2>1, <2>3 DEF TarjanInv, PreMerge
<1>5. CASE GroupRoot \/ GroupEdge \/ GroupLeave
  <2>1. /\ phase = "groups" /\ phase' = "groups" /\ round' = round
        /\ UNCHANGED <<safe, cyclic, requires>>
    BY <1>5 DEF GroupRoot, GroupEdge, GroupLeave, doc, classes
  <2>2. Components'
    BY <1>1, <1>5, <2>1, ComponentsStep DEF TarjanInv
  <2>3. round = 2
    BY <1>1, <2>1 DEF Typed, PhaseInv
  <2> QED
    BY <1>1, <2>1, <2>2, <2>3 DEF TarjanInv, PreMerge
<1>6. CASE Merge /\ ~Staged
  <2>1. /\ round = 2 /\ round' = 2 /\ phase' \notin {"classify", "test", "groups"}
        /\ PreMerge /\ (phase' = "plan" \/ UNCHANGED <<cyclic, requires>>)
    BY <1>1, <1>6 DEF Merge, MergeGroups, GroupsFound, EagerPair, EagerDone, PreferPair, EmitBody,
                GroupOrdered, ApplyMerge, Typed, PhaseInv, PreMerge, doc, classes
  <2> QED
    BY <1>1, <2>1 DEF TarjanInv, PreMerge
<1>7. CASE Finished \/ UNCHANGED vars
  <2>1. UNCHANGED <<tarjan, classes, requires, phase, round>>
    BY <1>7 DEF Finished, vars, doc
  <2>2. phase = "groups" => Components'
    BY <2>1, ComponentsStay DEF TarjanInv, tarjan, classes
  <2> QED
    BY <1>1, <2>1, <2>2 DEF TarjanInv, Unsearched, PreMerge, tarjan, classes
<1> QED
  BY <1>2, <1>3, <1>4, <1>5, <1>6, <1>7 DEF Next, FindAll, Merge

\* When the search ends everything is placed, and its graph is that of the sources.
LEMMA GroupedRight == Grouped => GroupsAreComponents
<1> SUFFICES ASSUME Grouped, GroupsFound PROVE GroupsAreComponents
  BY DEF GroupsAreComponents
<1> DEFINE G == imports \cup requires
<1>1. /\ phase = "groups" /\ work = <<>> /\ Fresh = {} /\ Typed /\ round = 2 /\ Components
      /\ requires \subseteq safe \cup cyclic
  BY DEF Grouped, Sorted, Typed, PhaseInv, TarjanInv, GroupsFound
<1>2. /\ safe \subseteq deps /\ deps = imports /\ cyclic \subseteq requires
      /\ \A e \in requires : Reaches(imports, e[2], e[1])
  BY <1>1 DEF Grouped, Sorted, ClassInv, LinkInv, Rewritten, PreMerge, TarjanInv
<1>3. Linked = G
  BY <1>1, <1>2 DEF Linked
<1>4. Stacked = {}
  BY <1>1 DEF Components, PathInv
<1>5. Placed = Modules
  BY <1>1, <1>4 DEF Placed, Fresh
<1>6. comps = {C \in {Mutual(x) : x \in Modules} : Cardinality(C) > 1}
  BY <1>1, <1>5 DEF Components, PlacedInv
<1>7. \A x : Mutual(x) = {y \in Modules : Reaches(G, x, y) /\ Reaches(G, y, x)}
  BY <1>3 DEF Mutual
<1>8. ASSUME NEW e \in requires, e[1] # e[2]
      PROVE  \E C \in comps : {e[1], e[2]} \subseteq C
  <2>1. requires \subseteq Modules \X Modules /\ imports \subseteq G
    BY <1>1 DEF Typed, EdgesInv, PreMerge, Edges
  <2>2. e[1] \in Modules /\ e[2] \in Modules /\ e = <<e[1], e[2]>> /\ e \in G
    BY <2>1
  <2>3. Reaches(G, e[1], e[2])
    BY <2>2, ReachesItself, ReachesOn
  <2>4. Reaches(G, e[2], e[1])
    BY <1>2, <2>1, ReachesMore
  <2>5. {e[1], e[2]} \subseteq Mutual(e[1])
    BY <1>3, <2>2, <2>3, <2>4, ReachesItself DEF Mutual
  <2>6. Mutual(e[1]) \subseteq Modules /\ IsFiniteSet(Modules)
    BY FS_Interval, BundleGraphAssumption DEF Mutual
  <2>7. Cardinality({e[1], e[2]}) = 2
    <3>1. IsFiniteSet({e[1]}) /\ Cardinality({e[1]}) = 1
      BY FS_Singleton
    <3>2. e[2] \notin {e[1]} /\ {e[1], e[2]} = {e[1]} \cup {e[2]}
      BY <1>8
    <3> QED
      BY <3>1, <3>2, FS_AddElement
  <2>8. IsFiniteSet(Mutual(e[1])) /\ Cardinality({e[1], e[2]}) <= Cardinality(Mutual(e[1]))
    BY <2>5, <2>6, FS_Subset
  <2>9. Cardinality(Mutual(e[1])) > 1
    BY <2>7, <2>8, FS_CardinalityType
  <2> QED
    BY <1>6, <2>2, <2>5, <2>9
<1>9. {Mutual(x) : x \in Modules}
        = {{y \in Modules : Reaches(G, x, y) /\ Reaches(G, y, x)} : x \in Modules}
  BY <1>7
<1> QED
  BY <1>6, <1>8, <1>9 DEF GroupsAreComponents

\* The groups that are merged are the strongly connected components of more than
\* one module, and no residual require leaves its group.
THEOREM GroupsFoundRight == Spec => []GroupsAreComponents
<1>1. Init => Grouped
  <2> SUFFICES ASSUME Init PROVE Grouped
    OBVIOUS
  <2>1. Unsearched /\ round = 1 /\ phase = "classify"
    BY DEF Init, Unsearched
  <2> QED
    BY <2>1, SortedInit DEF Grouped, TarjanInv
<1> QED
  BY <1>1, GroupedStep, GroupedRight, PTL DEF Spec

-----------------------------------------------------------------------------
\* The merge.  What every module names as the provider has it, and the modules
\* that x both reaches and is reached from.
Named == given.imports \cup given.requires
Strong(x) == {y \in Modules : Reaches(Named, x, y) /\ Reaches(Named, y, x)}

\* Until the merge is applied no edge is lost, and the names are the modules,
\* each once; there is no merge without a residual require.
NamedInv ==
  /\ PreMerge => /\ imports \cup requires = Named /\ requires \subseteq given.requires
                 /\ Elems(names) = Modules
                 /\ \A i, j \in DOMAIN names : names[i] = names[j] => i = j
                 /\ round = 2 => requires # {}
  /\ round = 1 /\ phase \in {"classify", "test"} => safe \subseteq requires
  /\ round = 1 \/ phase \in {"classify", "test", "groups"} =>
       eager = {} /\ bodies = <<>> /\ emitted = <<>> /\ before = {}

\* In s, x comes after y.
After(x, y, s) == \A i \in DOMAIN s : s[i] = x => \E j \in 1..(i - 1) : s[j] = y
OnceIn(s) == \A i, j \in DOMAIN s : s[i] = s[j] => i = j

\* The groups are the components of the provider's graph, and the bodies that are
\* ordered are whole groups, with what they read eagerly before them.
CompsInv ==
  /\ round = 2 /\ phase \notin {"classify", "test", "groups"} =>
       comps = {C \in {Strong(x) : x \in Modules} : Cardinality(C) > 1}
  /\ phase \in {"eager", "prefer", "apply"} =>
       \A e \in requires : e[1] # e[2] => \E C \in comps : {e[1], e[2]} \subseteq C
BodiesInv ==
  /\ \A k \in Groups : /\ Members(k) \in comps /\ OnceIn(bodies[k])
                       /\ \A j \in Groups : j # k => Members(j) \cap Members(k) = {}
                       /\ \A e \in eager : e[1] \in Members(k) => After(e[1], e[2], bodies[k])
  /\ \A e \in eager : e[1] # e[2]
  /\ phase = "apply" \/ (round = 2 /\ phase \in {"plan", "done"}) =>
       \A C \in comps : \E k \in Groups : C = Members(k)

\* The group that is being ordered.
CurrentInv ==
  phase \in {"eager", "prefer"} =>
    /\ \A k \in Groups : Members(k) = Group(k)
    /\ Len(bodies) < Cardinality(comps)
    /\ pairs \subseteq References(Current) /\ before \subseteq Current \X Current
    /\ \A e \in eager : \E k \in 1..(Len(bodies) + 1) : {e[1], e[2]} \subseteq Group(k)
    /\ \A e \in eager : e[1] \in Current => <<e[2], e[1]>> \in before
    /\ phase = "eager" => \A b \in before : <<b[2], b[1]>> \in eager
    /\ OnceIn(emitted) /\ Elems(emitted) \subseteq Current
    /\ phase = "eager" \/ pairs # {} => emitted = <<>>
    /\ \A b \in before : After(b[2], b[1], emitted)

\* What the modules of a merged graph stand for, and what its edges are.
Stands(x) == IF x \in Modules
             THEN IF InNone(x) THEN {x} ELSE Members(CHOOSE k \in Groups : x \in Members(k))
             ELSE UNION {Members(k) : k \in {g \in Groups : x = Merged(g)}}
Leads(x, y) == \A a \in Stands(x), b \in Stands(y) : Reaches(Named, a, b)
Kept(e) == e[1] \in Modules /\ InNone(e[1]) /\ e[2] \in Modules /\ e \in Named
Shim(e) == \E k \in Groups : e[1] \in Members(k) /\ e[2] = Merged(k)
Outward(e) == \E k \in Groups : /\ e[1] = Merged(k) /\ e[2] \in Modules \ Members(k)
                             /\ \E x \in Members(k) : <<x, e[2]>> \in Named
AllNames == Modules \cup {Merged(k) : k \in Groups}

MergedGraph ==
  /\ \A e \in imports : Kept(e) \/ Shim(e) \/ Outward(e)
  /\ \A k \in Groups : \A x \in Members(k) : <<x, Merged(k)>> \in imports
  /\ \A e \in Named : Home(e[1]) # Home(e[2]) => <<Home(e[1]), e[2]>> \in imports
  /\ \A e \in requires : \E x \in Modules : <<x, x>> \in given.requires
  /\ Acyclic(given.imports) => \A x \in Modules : InNone(x) => <<x, x>> \notin imports
  /\ imports \subseteq AllNames \X AllNames
MergedNames == Elems(names) = AllNames /\ OnceIn(names) /\ Planned \subseteq AllNames
MergedFrames ==
  /\ \A k \in DOMAIN frames : /\ frames[k].node \in AllNames
                              /\ frames[k].left \subseteq Targets(imports, frames[k].node)
                              /\ k + 1 \in DOMAIN frames => <<frames[k].node, frames[k + 1].node>> \in imports
  /\ \A j, k \in DOMAIN frames : j <= k => Leads(frames[j].node, frames[k].node)
MergedInv ==
  phase = "done" \/ (round = 2 /\ phase = "plan") => MergedGraph /\ MergedNames /\ MergedFrames

RefusedInv ==
  phase = "refused" => \/ ~Acyclic(given.imports)
                       \/ \E x \in Modules : <<x, x>> \in given.requires
                       \/ ~Acyclic(eager)

Based == Chained /\ Ordered /\ Grouped
Provided == Based /\ NamedInv

LEMMA NamedStep == Provided /\ [Next]_vars => NamedInv'
<1> SUFFICES ASSUME Provided, [Next]_vars PROVE NamedInv'
  OBVIOUS
<1>1. Typed /\ NamedInv
  BY DEF Provided, Based, Ordered
<1>2. CASE Rewrite
  <2>1. /\ imports' = imports \cup safe /\ requires' = requires \ safe /\ safe \subseteq requires
        /\ UNCHANGED <<given, names, round, merging, eager>> /\ round = 1 /\ phase' = "plan"
    BY <1>1, <1>2 DEF Rewrite, NamedInv
  <2> QED
    BY <1>1, <2>1 DEF NamedInv, PreMerge, Named, merging
<1>3. CASE Planning
  <2>1. /\ names' = order /\ UNCHANGED <<given, imports, requires, round, merging, eager>>
        /\ Unplanned = {} /\ phase = "plan" /\ phase' \in {"staged", "done", "refused"}
        /\ round # 1 => phase' # "staged"
    BY <1>3 DEF Planning
  <2>2. ASSUME round = 1 PROVE Elems(order) = Modules
    <3>1. Elems(names) = Modules
      BY <1>1, <2>2 DEF NamedInv, PreMerge
    <3>2. Elems(order) \subseteq Modules
      BY <2>1, <2>2 DEF Provided, Based, Chained, ChainInv, Planned
    <3> QED
      BY <2>1, <3>1, <3>2 DEF Unplanned, Planned
  <2>3. \A i, j \in DOMAIN order : order[i] = order[j] => i = j
    BY <1>1 DEF Typed, TypeOK, PlanOK
  <2>4. Named' = Named
    BY <2>1 DEF Named
  <2>5. CASE round = 1
    <3>1. /\ imports \cup requires = Named /\ requires \subseteq given.requires
          /\ eager = {} /\ bodies = <<>> /\ emitted = <<>> /\ before = {}
      BY <1>1, <2>5 DEF NamedInv, PreMerge
    <3>2. Elems(names') = Modules
      BY <2>1, <2>2, <2>5
    <3> QED
      BY <2>1, <2>3, <2>4, <2>5, <3>1, <3>2 DEF NamedInv, PreMerge, merging
  <2>6. CASE round = 2
    BY <2>1, <2>6 DEF NamedInv, PreMerge
  <2> QED
    BY <1>1, <2>5, <2>6 DEF Typed, TypeOK, PhaseOK
<1>4. CASE Staged
  <2>1. UNCHANGED <<given, imports, requires, names, merging, eager>> /\ phase = "staged" /\ round = 1
    BY <1>1, <1>4 DEF Staged, doc, Typed, PhaseInv
  <2>2. (phase' = "done" /\ round' = 1) \/ (phase' = "classify" /\ round' = 2 /\ requires # {})
    BY <1>4, <2>1 DEF Staged
  <2> QED
    BY <1>1, <2>1, <2>2 DEF NamedInv, PreMerge, Named, merging
<1>5. CASE MakeImport
  <2>1. edge \in requires
    BY <1>1, <1>5 DEF MakeImport, Typed, EdgesInv
  <2> QED
    BY <1>1, <1>5, <2>1 DEF MakeImport, NamedInv, PreMerge, Named, merging, doc
<1>6. CASE TestRequire \/ Search \/ LeaveRequire \/ FindAll
  <2>1. /\ UNCHANGED <<given, imports, requires, names, round, merging, eager, safe>>
        /\ phase \in {"classify", "test", "groups"} /\ phase' \in {"classify", "test", "groups"}
        /\ phase' = "groups" => round = 2
    BY <1>1, <1>6 DEF TestRequire, Search, LeaveRequire, FindAll, FindGroups, GroupRoot, GroupEdge,
                 GroupLeave, doc, classes, Typed, PhaseInv
  <2>2. phase = "groups" => phase' = "groups"
    BY <1>6 DEF TestRequire, Search, LeaveRequire, FindAll, FindGroups, GroupRoot, GroupEdge, GroupLeave
  <2> QED
    BY <1>1, <2>1, <2>2 DEF NamedInv, PreMerge, Named, merging
<1>7. CASE Plan /\ ~Planning
  <2>1. /\ UNCHANGED <<given, imports, requires, names, round, merging, eager>>
        /\ phase = "plan" /\ phase' \in {"plan", "refused"}
    BY <1>7 DEF Plan, PlanRoot, PlanDep, PlanCycle, PlanEmit, doc
  <2> QED
    BY <1>1, <2>1 DEF NamedInv, PreMerge, Named, merging
<1>8. CASE Merge /\ ~Staged
  <2>1. /\ round = 2 /\ round' = 2 /\ phase' \in {"eager", "prefer", "apply", "plan", "refused"}
        /\ phase \in {"groups", "eager", "prefer", "apply"}
        /\ phase' = "plan" \/ UNCHANGED <<given, imports, requires, names>>
    BY <1>1, <1>8 DEF Merge, MergeGroups, GroupsFound, EagerPair, EagerDone, PreferPair, EmitBody,
                GroupOrdered, ApplyMerge, Typed, PhaseInv, doc
  <2> QED
    BY <1>1, <2>1 DEF NamedInv, PreMerge, Named
<1>9. CASE Finished \/ UNCHANGED vars
  BY <1>1, <1>9 DEF Finished, vars, doc, merging, classes, NamedInv, PreMerge, Named
<1> QED
  BY <1>2, <1>3, <1>4, <1>5, <1>6, <1>7, <1>8, <1>9 DEF Next, Classify, Merge

LEMMA ProvidedStep == Provided /\ [Next]_vars => Provided'
BY NamedStep, ChainedStep, OrderedStep, GroupedStep DEF Provided, Based

LEMMA BasedInit == Init => Based
<1> SUFFICES ASSUME Init PROVE Based
  OBVIOUS
<1>1. phase = "classify" /\ round = 1 /\ Elems(names) = Modules
  BY DEF Init, Elems
<1>2. Chained
  BY <1>1, SortedInit DEF Chained, ChainInv
<1>3. Ordered
  BY <1>1, TypedInit DEF Ordered, PlanInv, NamesInv
<1>4. Grouped
  BY <1>1, SortedInit DEF Init, Grouped, TarjanInv, Unsearched
<1> QED
  BY <1>2, <1>3, <1>4 DEF Based

LEMMA ProvidedInit == Init => Provided
<1> SUFFICES ASSUME Init PROVE Provided
  OBVIOUS
<1>1. Elems(names) = Modules
  BY DEF Init, Elems
<1> QED
  BY <1>1, BasedInit DEF Init, Provided, NamedInv, PreMerge, Named

-----------------------------------------------------------------------------
\* The ranks of the groups.
LEMMA StrongIs ==
  ASSUME NEW x \in Modules
  PROVE  /\ x \in Strong(x) /\ Strong(x) \subseteq Modules
         /\ \A y \in Strong(x) : Strong(y) = Strong(x)
<1>1. x \in Strong(x) /\ Strong(x) \subseteq Modules
  BY ReachesItself DEF Strong
<1>2. ASSUME NEW y \in Strong(x) PROVE Strong(y) = Strong(x)
  BY ReachesTransitive DEF Strong
<1> QED
  BY <1>1, <1>2

AreComponents == comps = {C \in {Strong(x) : x \in Modules} : Cardinality(C) > 1}
AreNames == Elems(names) = Modules /\ OnceIn(names) /\ names \in Seq(Nat)

\* A component is that of each of its modules, and not empty.
LEMMA ComponentIs ==
  ASSUME AreComponents, NEW C \in comps
  PROVE  /\ C \subseteq Modules /\ C # {} /\ Cardinality(C) > 1
         /\ \A x \in C : C = Strong(x)
         /\ \A D \in comps : C \cap D # {} => C = D
<1>1. PICK x \in Modules : C = Strong(x)
  BY DEF AreComponents
<1>2. C \subseteq Modules /\ C # {} /\ \A y \in C : C = Strong(y)
  BY <1>1, StrongIs
<1>3. ASSUME NEW D \in comps, C \cap D # {} PROVE C = D
  <2>1. PICK y \in Modules : D = Strong(y)
    BY DEF AreComponents
  <2>2. PICK z \in C : z \in D
    BY <1>3
  <2> QED
    BY <1>2, <2>1, <2>2, StrongIs
<1> QED
  BY <1>2, <1>3 DEF AreComponents

LEMMA ComponentsFinite ==
  ASSUME AreComponents
  PROVE  IsFiniteSet(comps) /\ Cardinality(comps) \in Nat
<1>1. IsFiniteSet(Modules)
  BY FS_Interval, BundleGraphAssumption
<1>2. IsFiniteSet(SUBSET Modules)
  BY <1>1, FS_SUBSET
<1>3. comps \in SUBSET (SUBSET Modules)
  BY StrongIs DEF AreComponents
<1> QED
  BY <1>2, <1>3, FS_Subset, FS_CardinalityType

LEMMA HasSmallest ==
  ASSUME NEW S \in SUBSET Nat, S # {}
  PROVE  \E n \in S : \A m \in S : n <= m
<1> DEFINE R == {ss \in Nat \X Nat : ss[1] < ss[2]}
<1>1. IsWellFoundedOn(R, Nat)
  BY NatLessThanWellFounded DEF OpToRel
<1>2. PICK n \in S : \A m \in S : ~(<<m, n>> \in R)
  <2> HIDE DEF R
  <2> QED
    BY <1>1, WFMin
<1>3. \A m \in S : m \in Nat /\ n \in Nat /\ ~(m < n)
  <2> SUFFICES ASSUME NEW m \in S PROVE m \in Nat /\ n \in Nat /\ ~(m < n)
    OBVIOUS
  <2>1. m \in Nat /\ n \in Nat /\ ~(<<m, n>> \in R)
    BY <1>2
  <2> QED
    BY <2>1
<1> HIDE DEF R
<1> QED
  BY <1>3

LEMMA FirstIs ==
  ASSUME AreComponents, AreNames, NEW C \in comps
  PROVE  First(C) \in DOMAIN names /\ names[First(C)] \in C /\ First(C) \in Nat
<1> DEFINE S == {i \in DOMAIN names : names[i] \in C}
<1>1. DOMAIN names = 1..Len(names) /\ Len(names) \in Nat
  BY DEF AreNames
<1>2. S \in SUBSET Nat
  BY <1>1
<1>3. S # {}
  <2>1. PICK x \in C : x \in Elems(names)
    BY ComponentIs DEF AreNames
  <2> QED
    BY <2>1 DEF Elems
<1> HIDE DEF S
<1>4. PICK n \in S : \A m \in S : n <= m
  BY <1>2, <1>3, HasSmallest
<1>5. n \in DOMAIN names /\ names[n] \in C /\ n \in Nat
  BY <1>2, <1>4 DEF S
<1>6. ASSUME NEW j \in 1..(n - 1) PROVE names[j] \notin C
  <2>1. j \in DOMAIN names /\ j \in Nat /\ j < n
    BY <1>1, <1>5
  <2>2. j \notin S
    BY <1>4, <1>5, <2>1
  <2> QED
    BY <2>1, <2>2 DEF S
<1>7. \E i \in DOMAIN names : names[i] \in C /\ \A j \in 1..(i - 1) : names[j] \notin C
  BY <1>5, <1>6
<1>8. First(C) \in DOMAIN names /\ names[First(C)] \in C
  BY <1>7 DEF First
<1> QED
  BY <1>1, <1>8

LEMMA RankIs ==
  ASSUME AreComponents, AreNames, NEW C \in comps
  PROVE  /\ Rank(C) \in 1..Cardinality(comps)
         /\ \A D \in comps : Rank(C) = Rank(D) => C = D
<1> DEFINE B(E) == {D \in comps : First(D) <= First(E)}
<1>0. \A E \in comps : First(E) \in Nat
  BY FirstIs
<1>1. \A E \in comps : /\ Rank(E) = Cardinality(B(E)) /\ B(E) \in SUBSET comps /\ E \in B(E)
                       /\ First(E) \in Nat
  BY FirstIs DEF Rank
<1>2. ASSUME NEW E \in comps
      PROVE  IsFiniteSet(B(E)) /\ Cardinality(B(E)) \in 1..Cardinality(comps)
  <2>1. IsFiniteSet(B(E)) /\ Cardinality(B(E)) <= Cardinality(comps)
    BY <1>1, ComponentsFinite, FS_Subset
  <2>2. Cardinality(B(E)) # 0
    BY <1>1, <2>1, FS_EmptySet
  <2>3. Cardinality(B(E)) \in Nat
    BY <2>1, FS_CardinalityType
  <2> QED
    BY <2>1, <2>2, <2>3, ComponentsFinite
<1>3. ASSUME NEW E \in comps, NEW D \in comps, First(E) < First(D) PROVE Rank(E) # Rank(D)
  <2>1. B(E) \in SUBSET B(D)
    <3>1. \A F \in comps : First(F) <= First(E) => First(F) <= First(D)
      BY <1>0, <1>3
    <3> QED
      BY <3>1
  <2>2. D \in B(D) /\ D \notin B(E)
    BY <1>0, <1>3
  <2> HIDE DEF B
  <2>3. IsFiniteSet(B(D))
    BY <1>2
  <2>4. Cardinality(B(D)) # Cardinality(B(E))
    BY <2>1, <2>2, <2>3, FS_Subset
  <2> QED
    BY <1>1, <2>4
<1>4. ASSUME NEW D \in comps, Rank(C) = Rank(D) PROVE C = D
  <2>1. First(C) = First(D)
    <3>1. ~(First(C) < First(D)) /\ ~(First(D) < First(C))
      BY <1>3, <1>4
    <3> QED
      BY <1>0, <3>1
  <2>2. names[First(C)] \in C /\ names[First(C)] \in D
    BY <2>1, FirstIs
  <2> QED
    BY <2>2, ComponentIs
<1> HIDE DEF B
<1> QED
  BY <1>1, <1>2, <1>4

\* The group of a rank is the component that has it.
LEMMA GroupIs ==
  ASSUME AreComponents, AreNames, NEW C \in comps
  PROVE  Group(Rank(C)) = C
<1>1. C \subseteq Modules
  BY ComponentIs
<1>2. \A D \in comps : Rank(D) = Rank(C) => D = C
  BY RankIs
<1> QED
  BY <1>1, <1>2 DEF Group

\* Every rank up to the number of groups is that of one: ranks differ.
LEMMA GroupsApart ==
  ASSUME AreComponents, AreNames, NEW k \in Nat
  PROVE  /\ Group(k) # {} => Group(k) \in comps /\ Rank(Group(k)) = k
         /\ \A j \in Nat : Group(j) \cap Group(k) # {} => j = k
<1>1. ASSUME NEW i, NEW x \in Group(i) PROVE \E C \in comps : x \in C /\ Rank(C) = i
  BY <1>1 DEF Group
<1>2. ASSUME Group(k) # {} PROVE Group(k) \in comps /\ Rank(Group(k)) = k
  <2>1. PICK x \in Group(k) : TRUE
    BY <1>2
  <2>2. PICK C \in comps : x \in C /\ Rank(C) = k
    BY <1>1, <2>1
  <2> QED
    BY <2>2, GroupIs
<1>3. ASSUME NEW j \in Nat, Group(j) \cap Group(k) # {} PROVE j = k
  <2>1. PICK x : x \in Group(j) /\ x \in Group(k)
    BY <1>3
  <2>2. PICK C \in comps : x \in C /\ Rank(C) = j
    BY <1>1, <2>1
  <2>3. PICK D \in comps : x \in D /\ Rank(D) = k
    BY <1>1, <2>1
  <2>4. C = D
    BY <2>2, <2>3, ComponentIs
  <2> QED
    BY <2>2, <2>3, <2>4
<1> QED
  BY <1>2, <1>3

\* Every rank is that of a group.
LEMMA GroupsFill ==
  ASSUME AreComponents, AreNames, NEW k \in 1..Cardinality(comps)
  PROVE  Group(k) \in comps
<1> DEFINE n == Cardinality(comps)
           f == [C \in comps |-> Rank(C)]
<1>1. IsFiniteSet(comps) /\ n \in Nat
  BY ComponentsFinite
<1>2. IsFiniteSet(1..n) /\ Cardinality(1..n) = n
  BY <1>1, FS_Interval
<1>3. \A C \in comps : Rank(C) \in 1..n /\ \A D \in comps : Rank(C) = Rank(D) => C = D
  BY RankIs
<1> HIDE DEF n
<1>4. f \in Injection(comps, 1..n)
  BY <1>3 DEF Injection, IsInjective
<1> HIDE DEF f
<1>5. f \in Surjection(comps, 1..n)
  BY <1>1, <1>2, <1>4, FS_Injection DEF n
<1>6. PICK C \in comps : Rank(C) = k
  BY <1>5 DEF Surjection, f, n
<1> QED
  BY <1>6, GroupIs

LEMMA SameGroups ==
  ASSUME UNCHANGED <<names, comps>>
  PROVE  \A k : Group(k)' = Group(k)
BY DEF Group, Rank, First

LEMMA ReferencesAre ==
  ASSUME NEW C, NEW e \in References(C)
  PROVE  e[1] \in C /\ e[2] \in C /\ e[1] # e[2]
BY DEF References

Merging == Provided /\ CompsInv /\ BodiesInv /\ CurrentInv

LEMMA CompsStep == Merging /\ [Next]_vars => CompsInv'
<1> SUFFICES ASSUME Merging, [Next]_vars PROVE CompsInv'
  OBVIOUS
<1>1. Typed /\ CompsInv /\ NamedInv /\ Grouped
  BY DEF Merging, Provided, Based, Ordered
<1>2. CASE MergeGroups
  <2>1. UNCHANGED <<given, comps, requires>> /\ GroupsFound /\ phase = "groups" /\ round = 2
    BY <1>1, <1>2 DEF MergeGroups, GroupsFound, doc, tarjan, Typed, PhaseInv
  <2>2. imports \cup requires = Named
    BY <1>1, <2>1 DEF NamedInv, PreMerge
  <2>3. GroupsAreComponents
    BY <1>1, GroupedRight
  <2>4. \A e \in requires : e[1] # e[2] => \E C \in comps : {e[1], e[2]} \subseteq C
    BY <2>1, <2>3 DEF GroupsAreComponents
  <2>5. comps = {C \in {Strong(x) : x \in Modules} : Cardinality(C) > 1}
    <3> DEFINE G == imports \cup requires
    <3>1. \A x : Strong(x) = {y \in Modules : Reaches(G, x, y) /\ Reaches(G, y, x)}
      BY <2>2 DEF Strong
    <3>2. {Strong(x) : x \in Modules}
            = {{y \in Modules : Reaches(G, x, y) /\ Reaches(G, y, x)} : x \in Modules}
      BY <3>1
    <3>3. comps = {C \in {{y \in Modules : Reaches(G, x, y) /\ Reaches(G, y, x)} : x \in Modules} :
                     Cardinality(C) > 1}
      BY <2>1, <2>3 DEF GroupsAreComponents
    <3> QED
      BY <3>2, <3>3
  <2>6. \A x : Strong(x)' = Strong(x)
    BY <2>1 DEF Strong, Named
  <2> QED
    BY <2>1, <2>4, <2>5, <2>6 DEF CompsInv
<1>3. CASE Merge /\ ~Staged /\ ~MergeGroups
  <2>1. /\ UNCHANGED <<given, comps>> /\ round = 2 /\ phase \in {"eager", "prefer", "apply"}
        /\ phase' = "plan" \/ requires' = requires
    BY <1>1, <1>3 DEF Merge, EagerPair, EagerDone, PreferPair, EmitBody, GroupOrdered, ApplyMerge,
                      Typed, PhaseInv, doc, tarjan
  <2>2. \A x : Strong(x)' = Strong(x)
    BY <2>1 DEF Strong, Named
  <2> QED
    BY <1>1, <2>1, <2>2 DEF CompsInv
<1>4. CASE Plan
  <2>1. /\ UNCHANGED <<given, comps>> /\ phase = "plan" /\ phase' \in {"plan", "refused", "staged", "done"}
        /\ round' = round
    BY <1>4 DEF Plan, PlanRoot, PlanDep, PlanCycle, PlanEmit, Planning, doc, tarjan
  <2>2. \A x : Strong(x)' = Strong(x)
    BY <2>1 DEF Strong, Named
  <2> QED
    BY <1>1, <2>1, <2>2 DEF CompsInv
<1>5. CASE Classify \/ FindAll \/ Staged
  <2>1. (round' = 1 /\ phase' \notin {"eager", "prefer", "apply"}) \/ phase' \in {"classify", "test", "groups"}
    BY <1>1, <1>5 DEF Classify, TestRequire, Search, LeaveRequire, MakeImport, Rewrite, FindAll,
                 FindGroups, GroupRoot, GroupEdge, GroupLeave, Staged, Typed, PhaseInv
  <2> QED
    BY <2>1 DEF CompsInv
<1>6. CASE Finished \/ UNCHANGED vars
  <2>1. UNCHANGED <<given, comps, requires, phase, round>>
    BY <1>6 DEF Finished, vars, doc, tarjan
  <2>2. \A x : Strong(x)' = Strong(x)
    BY <2>1 DEF Strong, Named
  <2> QED
    BY <1>1, <2>1, <2>2 DEF CompsInv
<1> QED
  BY <1>2, <1>3, <1>4, <1>5, <1>6 DEF Next, Merge

\* Before and after the groups are ordered.
LEMMA OutsideMerge ==
  ASSUME Merging, Provided',
         \/ round' = 1 \/ phase' \in {"classify", "test", "groups"}
         \/ /\ phase' \notin {"eager", "prefer"} /\ UNCHANGED <<eager, bodies, comps, round>>
            /\ phase' \in {"apply", "plan", "done"} => phase \in {"apply", "plan", "done"}
  PROVE  BodiesInv' /\ CurrentInv'
<1>1. CASE round' = 1 \/ phase' \in {"classify", "test", "groups"}
  <2>1. eager' = {} /\ bodies' = <<>> /\ NamedInv' /\ Typed'
    BY <1>1 DEF Provided, NamedInv, Based, Ordered
  <2>2. phase' \notin {"eager", "prefer", "apply"} /\ ~(round' = 2 /\ phase' \in {"plan", "done"})
    BY <1>1, <2>1 DEF Typed, PhaseInv
  <2>3. Groups' = {}
    BY <2>1 DEF Groups
  <2> QED
    BY <2>1, <2>2, <2>3 DEF BodiesInv, CurrentInv
<1>2. CASE /\ phase' \notin {"eager", "prefer"} /\ UNCHANGED <<eager, bodies, comps, round>>
           /\ phase' \in {"apply", "plan", "done"} => phase \in {"apply", "plan", "done"}
  <2>1. Groups' = Groups /\ \A k : Members(k)' = Members(k)
    BY <1>2 DEF Groups, Members, Elems
  <2>2. phase' = "apply" => round' = 2
    BY DEF Provided, Based, Ordered, Typed, PhaseInv
  <2>3. BodiesInv
    BY DEF Merging
  <2>4. phase' = "apply" \/ (round' = 2 /\ phase' \in {"plan", "done"}) =>
          \A C \in comps : \E k \in Groups : C = Members(k)
    BY <1>2, <2>2, <2>3 DEF BodiesInv
  <2> QED
    BY <1>2, <2>1, <2>3, <2>4 DEF BodiesInv, CurrentInv
<1> QED
  BY <1>1, <1>2

LEMMA InMerge ==
  ASSUME Merging, phase \in {"groups", "eager", "prefer", "apply"}
  PROVE  /\ round = 2 /\ AreNames /\ Typed /\ NamedInv /\ BodiesInv /\ CurrentInv /\ CompsInv
         /\ phase # "groups" => AreComponents
         /\ emitted \in Seq(Modules) /\ bodies \in Seq(Seq(Modules)) /\ Len(bodies) \in Nat
         /\ Groups = 1..Len(bodies)
<1>1. /\ Typed /\ NamedInv /\ CompsInv /\ BodiesInv /\ CurrentInv
  BY DEF Merging, Provided, Based, Ordered
<1>2. round = 2
  BY <1>1 DEF Typed, PhaseInv
<1>3. AreNames
  BY <1>1, <1>2 DEF AreNames, OnceIn, NamedInv, PreMerge, Typed, TypeOK, DocOK
<1>4. phase # "groups" => AreComponents
  BY <1>1, <1>2 DEF AreComponents, CompsInv
<1>5. emitted \in Seq(Modules) /\ bodies \in Seq(Seq(Modules))
  BY <1>1 DEF Typed, TypeOK, MergingOK
<1> QED
  BY <1>1, <1>2, <1>3, <1>4, <1>5 DEF Groups

LEMMA TheCurrent ==
  ASSUME Merging, phase \in {"eager", "prefer"}
  PROVE  /\ Current \in comps
         /\ \A k \in Groups : Members(k) = Group(k) /\ Members(k) \cap Current = {}
         /\ \A k \in 1..(Len(bodies) + 1) : k \in Groups \/ Group(k) = Current
<1> DEFINE n == Len(bodies) + 1
<1>1. AreComponents /\ AreNames /\ Len(bodies) \in Nat /\ Groups = 1..Len(bodies) /\ CurrentInv
  BY InMerge
<1>2. n \in 1..Cardinality(comps)
  BY <1>1, ComponentsFinite DEF CurrentInv
<1>3. Current = Group(n) /\ Current \in comps
  BY <1>1, <1>2, GroupsFill DEF Current
<1>4. ASSUME NEW k \in Groups PROVE Members(k) = Group(k) /\ Members(k) \cap Current = {}
  <2>1. Members(k) = Group(k) /\ k \in Nat /\ n \in Nat /\ k # n
    BY <1>1 DEF CurrentInv
  <2> QED
    BY <1>1, <1>3, <2>1, GroupsApart
<1>5. \A k \in 1..n : k \in 1..Len(bodies) \/ k = n
  BY <1>1
<1> QED
  BY <1>1, <1>3, <1>4, <1>5

\* An edge p of the current group joins those that are decided.
LEMMA DecideKeeps ==
  ASSUME Merging, phase \in {"eager", "prefer"}, NEW p \in pairs,
         before' \in {before, before \cup {<<p[2], p[1]>>}},
         \/ eager' = eager
         \/ /\ eager' = eager \cup {p}
            /\ phase' = "refused" \/ before' = before \cup {<<p[2], p[1]>>},
         phase' \in {phase, "refused"}, pairs' \subseteq pairs,
         phase = "eager" => emitted = <<>> /\ (before' = before \/ eager' = eager \cup {p}),
         UNCHANGED <<imports, requires, names, comps, bodies, emitted, round>>
  PROVE  BodiesInv' /\ CurrentInv'
<1>1. /\ round = 2 /\ AreComponents /\ AreNames /\ BodiesInv /\ CurrentInv
      /\ Len(bodies) \in Nat /\ Groups = 1..Len(bodies)
  BY InMerge
<1>2. /\ Current \in comps
      /\ \A k \in Groups : Members(k) = Group(k) /\ Members(k) \cap Current = {}
  BY TheCurrent
<1>3. p[1] \in Current /\ p[2] \in Current /\ p[1] # p[2]
  BY <1>1, ReferencesAre DEF CurrentInv
<1>4. emitted = <<>>
  BY <1>1 DEF CurrentInv
<1>5. /\ Groups' = Groups /\ \A k : Members(k)' = Members(k) /\ Group(k)' = Group(k)
      /\ Current' = Current
  <2>1. \A k : Group(k)' = Group(k)
    BY SameGroups
  <2> QED
    BY <2>1 DEF Groups, Members, Elems, Current
<1>6. BodiesInv'
  <2>1. ASSUME NEW k \in Groups, NEW e \in eager', e[1] \in Members(k)
        PROVE  After(e[1], e[2], bodies[k])
    <3>1. e \in eager
      BY <1>2, <1>3, <2>1
    <3> QED
      BY <1>1, <2>1, <3>1 DEF BodiesInv
  <2>2. \A e \in eager' : e[1] # e[2]
    BY <1>1, <1>3 DEF BodiesInv
  <2>3. \A k \in Groups : /\ Members(k) \in comps /\ OnceIn(bodies[k])
                          /\ \A j \in Groups : j # k => Members(j) \cap Members(k) = {}
    BY <1>1 DEF BodiesInv
  <2> QED
    BY <1>1, <1>5, <2>1, <2>2, <2>3 DEF BodiesInv
<1>7. CASE phase' = "refused"
  BY <1>6, <1>7 DEF CurrentInv
<1>8. CASE phase' = phase /\ phase # "refused"
  <2>1. pairs' \subseteq References(Current)
    BY <1>1 DEF CurrentInv
  <2>2. before' \subseteq Current \X Current
    BY <1>1, <1>3 DEF CurrentInv
  <2>3. \A e \in eager' : \E k \in 1..(Len(bodies) + 1) : {e[1], e[2]} \subseteq Group(k)
    <3>1. p[1] \in Group(Len(bodies) + 1) /\ p[2] \in Group(Len(bodies) + 1)
      BY <1>3 DEF Current
    <3>2. Len(bodies) + 1 \in 1..(Len(bodies) + 1)
      BY <1>1
    <3> QED
      BY <1>1, <3>1, <3>2 DEF CurrentInv
  <2>4. \A e \in eager' : e[1] \in Current => <<e[2], e[1]>> \in before'
    <3>1. eager' = eager \/ (eager' = eager \cup {p} /\ before' = before \cup {<<p[2], p[1]>>})
      BY <1>8
    <3> QED
      BY <1>1, <3>1 DEF CurrentInv
  <2>5. phase = "eager" => \A b \in before' : <<b[2], b[1]>> \in eager'
    <3> SUFFICES ASSUME phase = "eager", NEW b \in before' PROVE <<b[2], b[1]>> \in eager'
      OBVIOUS
    <3>1. CASE b \in before
      BY <1>1, <3>1 DEF CurrentInv
    <3>2. CASE b \notin before
      <4>1. b = <<p[2], p[1]>> /\ p \in eager'
        BY <3>2
      <4>2. p = <<p[1], p[2]>>
        BY DEF Merging, Provided, Based, Ordered, Typed, TypeOK, MergingOK, Edges
      <4> QED
        BY <4>1, <4>2
    <3> QED
      BY <3>1, <3>2
  <2>6. \A x, y : After(x, y, emitted)
    BY <1>4 DEF After
  <2>7. References(Current)' = References(Current)
    BY <1>5 DEF References
  <2>8. UNCHANGED <<comps, bodies, emitted>> /\ CurrentInv
    BY <1>1
  <2>9. pairs' \subseteq References(Current)' /\ before' \subseteq Current' \X Current'
    BY <1>5, <2>1, <2>2, <2>7
  <2>10. \A k \in Groups' : Members(k)' = Group(k)'
    BY <1>2, <1>5
  <2>11. /\ OnceIn(emitted') /\ Elems(emitted') \subseteq Current'
         /\ Len(bodies') < Cardinality(comps')
    BY <1>1, <1>5, <2>8 DEF CurrentInv
  <2>12. \A e \in eager' : \E k \in 1..(Len(bodies') + 1) : {e[1], e[2]} \subseteq Group(k)'
    BY <1>5, <2>3, <2>8
  <2>13. \A e \in eager' : e[1] \in Current' => <<e[2], e[1]>> \in before'
    BY <1>5, <2>4
  <2>14. phase' = "eager" => \A b \in before' : <<b[2], b[1]>> \in eager'
    BY <1>8, <2>5
  <2>15. emitted' = <<>> /\ \A b \in before' : After(b[2], b[1], emitted')
    BY <1>4, <2>6, <2>8
  <2> QED
    BY <1>6, <2>9, <2>10, <2>11, <2>12, <2>13, <2>14, <2>15 DEF CurrentInv
<1> QED
  BY <1>7, <1>8

\* A body is emitted after those that are to come before it.
LEMMA EmitKeeps == Merging /\ EmitBody => BodiesInv' /\ CurrentInv'
<1> SUFFICES ASSUME Merging, EmitBody PROVE BodiesInv' /\ CurrentInv'
  OBVIOUS
<1>1. /\ phase = "prefer" /\ phase' = "prefer" /\ pairs = {}
      /\ UNCHANGED <<doc, round, comps, bodies, before, pairs>>
  BY DEF EmitBody, tarjan
<1>2. /\ round = 2 /\ BodiesInv /\ CurrentInv /\ emitted \in Seq(Modules)
      /\ Len(bodies) \in Nat /\ Groups = 1..Len(bodies)
  BY <1>1, InMerge
<1>3. /\ Groups' = Groups /\ \A k : Members(k)' = Members(k) /\ Group(k)' = Group(k)
      /\ Current' = Current /\ eager' = eager /\ \A C : References(C)' = References(C)
  <2>1. \A k : Group(k)' = Group(k)
    BY <1>1, SameGroups DEF doc
  <2> QED
    BY <1>1, <2>1 DEF Groups, Members, Elems, Current, doc, References
<1>4. PICK x \in Ready : emitted' = Append(emitted, x)
  BY DEF EmitBody
<1>5. /\ x \in Current /\ x \notin Elems(emitted) /\ x \in Modules
      /\ \A e \in before : e[2] = x => e[1] \in Elems(emitted)
  BY DEF Ready, Current, Group
<1>6. /\ DOMAIN emitted = 1..Len(emitted) /\ Len(emitted) \in Nat
      /\ DOMAIN emitted' = 1..(Len(emitted) + 1) /\ emitted'[Len(emitted) + 1] = x
      /\ \A i \in DOMAIN emitted : emitted'[i] = emitted[i] /\ emitted[i] \in Elems(emitted)
  <2>1. emitted \in Seq(Modules) /\ x \in Modules
    BY <1>2, <1>5
  <2> QED
    BY <1>4, <2>1, AppendIs
<1>7. \A i \in DOMAIN emitted' : i \in DOMAIN emitted \/ i = Len(emitted) + 1
  BY <1>6
<1>8. OnceIn(emitted')
  <2>1. \A i \in DOMAIN emitted : emitted[i] # x
    BY <1>5, <1>6
  <2>2. OnceIn(emitted)
    BY <1>1, <1>2 DEF CurrentInv
  <2> QED
    BY <1>6, <1>7, <2>1, <2>2 DEF OnceIn
<1>9. Elems(emitted') \subseteq Current
  <2>1. \A i \in DOMAIN emitted' : emitted'[i] \in Current
    BY <1>1, <1>2, <1>5, <1>6, <1>7 DEF CurrentInv
  <2> QED
    BY <2>1 DEF Elems
<1>10. ASSUME NEW b \in before PROVE After(b[2], b[1], emitted')
  <2> SUFFICES ASSUME NEW i \in DOMAIN emitted', emitted'[i] = b[2]
               PROVE  \E j \in 1..(i - 1) : emitted'[j] = b[1]
    BY DEF After
  <2>1. CASE i \in DOMAIN emitted
    <3>1. After(b[2], b[1], emitted)
      BY <1>1, <1>2 DEF CurrentInv
    <3>2. PICK j \in 1..(i - 1) : emitted[j] = b[1]
      BY <1>6, <2>1, <3>1 DEF After
    <3>3. j \in DOMAIN emitted
      BY <1>6, <2>1
    <3> QED
      BY <1>6, <3>2, <3>3
  <2>2. CASE i = Len(emitted) + 1
    <3>1. b[1] \in Elems(emitted)
      BY <1>5, <1>6, <2>2
    <3>2. PICK j \in DOMAIN emitted : emitted[j] = b[1]
      BY <3>1 DEF Elems
    <3>3. j \in 1..(i - 1)
      BY <1>6, <2>2
    <3> QED
      BY <1>6, <3>2, <3>3
  <2> QED
    BY <1>7, <2>1, <2>2
<1>11. BodiesInv'
  BY <1>1, <1>2, <1>3 DEF BodiesInv
<1>12. CurrentInv'
  <2>1. UNCHANGED <<bodies, comps, pairs, before>>
    BY <1>1
  <2> QED
    BY <1>1, <1>2, <1>3, <1>8, <1>9, <1>10, <2>1 DEF CurrentInv
<1> QED
  BY <1>11, <1>12

\* The ordering of the next group begins.
LEMMA StartsGroup ==
  ASSUME AreComponents, AreNames, UNCHANGED <<names, comps, imports, requires>>,
         phase' = "eager", emitted' = <<>>, before' = {}, Len(bodies') \in Nat,
         Groups' = 1..Len(bodies'), pairs' = References(Group(Len(bodies') + 1)),
         Len(bodies') < Cardinality(comps),
         \A k \in Groups' : Members(k)' = Group(k),
         \A e \in eager' : \E k \in Groups' : {e[1], e[2]} \subseteq Group(k)
  PROVE  CurrentInv'
<1>1. \A k : Group(k)' = Group(k)
  BY SameGroups
<1>2. Current' = Group(Len(bodies') + 1) /\ \A C : References(C)' = References(C)
  BY <1>1 DEF Current, References
<1>3. \A e \in eager' : e[1] \notin Current'
  <2> SUFFICES ASSUME NEW e \in eager', e[1] \in Current' PROVE FALSE
    OBVIOUS
  <2>1. PICK k \in Groups' : {e[1], e[2]} \subseteq Group(k)
    OBVIOUS
  <2>2. k \in Nat /\ Len(bodies') + 1 \in Nat /\ k # Len(bodies') + 1
    OBVIOUS
  <2>3. e[1] \in Group(k) \cap Group(Len(bodies') + 1)
    BY <1>2, <2>1
  <2> QED
    BY <2>2, <2>3, GroupsApart
<1>4. \A e \in eager' : \E k \in 1..(Len(bodies') + 1) : {e[1], e[2]} \subseteq Group(k)'
  <2> SUFFICES ASSUME NEW e \in eager'
               PROVE  \E k \in 1..(Len(bodies') + 1) : {e[1], e[2]} \subseteq Group(k)
    BY <1>1
  <2>1. PICK k \in Groups' : {e[1], e[2]} \subseteq Group(k)
    OBVIOUS
  <2>2. k \in 1..(Len(bodies') + 1)
    OBVIOUS
  <2> QED
    BY <2>1, <2>2
<1>5. pairs' \subseteq References(Current)' /\ \A k \in Groups' : Members(k)' = Group(k)'
  BY <1>1, <1>2
<1>6. OnceIn(emitted') /\ Elems(emitted') \subseteq Current'
  BY DEF OnceIn, Elems
<1> QED
  BY <1>3, <1>4, <1>5, <1>6 DEF CurrentInv

LEMMA MergeGroupsKeeps == Merging /\ MergeGroups /\ CompsInv' => BodiesInv' /\ CurrentInv'
<1> SUFFICES ASSUME Merging, MergeGroups, CompsInv' PROVE BodiesInv' /\ CurrentInv'
  OBVIOUS
<1>1. /\ phase = "groups" /\ phase' \in {"refused", "eager"} /\ round' = round
      /\ UNCHANGED <<doc, comps, bodies, before, emitted>>
  BY DEF MergeGroups, GroupsFound, tarjan
<1>2. round = 2 /\ AreNames /\ NamedInv
  BY <1>1, InMerge
<1>3. eager' = {} /\ bodies' = <<>> /\ emitted' = <<>> /\ before' = {} /\ Groups' = {}
  BY <1>1, <1>2 DEF NamedInv, doc, Groups
<1>4. AreComponents
  <2>1. \A x : Strong(x)' = Strong(x)
    BY <1>1 DEF Strong, Named, doc
  <2> QED
    BY <1>1, <1>2, <2>1 DEF CompsInv, AreComponents
<1>5. BodiesInv'
  BY <1>1, <1>3 DEF BodiesInv
<1>6. CASE phase' = "refused"
  BY <1>5, <1>6 DEF CurrentInv
<1>7. CASE phase' = "eager"
  <2>1. comps # {} /\ pairs' = References(Group(1)) /\ 0 < Cardinality(comps)
    <3>1. comps # {} /\ pairs' = References(Group(1))
      BY <1>7 DEF MergeGroups
    <3>2. IsFiniteSet(comps) /\ Cardinality(comps) \in Nat
      BY <1>4, ComponentsFinite
    <3>3. Cardinality(comps) # 0
      BY <3>1, <3>2, FS_EmptySet
    <3> QED
      BY <3>1, <3>2, <3>3
  <2>2. Len(bodies') = 0 /\ UNCHANGED <<names, comps, imports, requires>>
    BY <1>1, <1>3 DEF doc
  <2>3. CurrentInv'
    BY <1>2, <1>3, <1>4, <1>7, <2>1, <2>2, StartsGroup
  <2> QED
    BY <1>5, <2>3
<1> QED
  BY <1>1, <1>6, <1>7

LEMMA EagerDoneKeeps == Merging /\ EagerDone => BodiesInv' /\ CurrentInv'
<1> SUFFICES ASSUME Merging, EagerDone PROVE BodiesInv' /\ CurrentInv'
  OBVIOUS
<1>1. /\ phase = "eager" /\ phase' = "prefer" /\ pairs' = References(Current)
      /\ UNCHANGED <<imports, requires, eager, names, round, comps, bodies, before, emitted>>
  BY DEF EagerDone, doc, tarjan
<1>2. BodiesInv /\ CurrentInv
  BY DEF Merging
<1>3. /\ Groups' = Groups /\ \A k : Members(k)' = Members(k) /\ Group(k)' = Group(k)
      /\ Current' = Current /\ \A C : References(C)' = References(C)
  <2>1. \A k : Group(k)' = Group(k)
    BY <1>1, SameGroups
  <2> QED
    BY <1>1, <2>1 DEF Groups, Members, Elems, Current, References
<1>4. BodiesInv'
  BY <1>1, <1>2, <1>3 DEF BodiesInv
<1>5. emitted = <<>>
  BY <1>1, <1>2 DEF CurrentInv
<1>6. CurrentInv'
  BY <1>1, <1>2, <1>3, <1>5 DEF CurrentInv
<1> QED
  BY <1>4, <1>6

\* A group whose bodies are all emitted is ordered.
LEMMA GroupOrderedKeeps == Merging /\ GroupOrdered => BodiesInv' /\ CurrentInv'
<1> SUFFICES ASSUME Merging, GroupOrdered PROVE BodiesInv' /\ CurrentInv'
  OBVIOUS
<1>0. PICK n \in Nat : n = Len(bodies) + 1
  <2>1. Len(bodies) \in Nat
    BY InMerge DEF GroupOrdered
  <2> QED
    BY <2>1
<1>1. /\ phase = "prefer" /\ Elems(emitted) = Current /\ bodies' = Append(bodies, emitted)
      /\ emitted' = <<>> /\ before' = {} /\ phase' \in {"eager", "apply"}
      /\ UNCHANGED <<imports, requires, eager, names, round, comps>>
      /\ phase' = "eager" => n < Cardinality(comps) /\ pairs' = References(Group(Len(bodies) + 2))
      /\ phase' = "apply" => ~(n < Cardinality(comps))
  BY <1>0 DEF GroupOrdered, doc, tarjan
<1>2. /\ round = 2 /\ AreComponents /\ AreNames /\ BodiesInv /\ CurrentInv
      /\ Len(bodies) \in Nat /\ Groups = 1..Len(bodies)
      /\ emitted \in Seq(Modules) /\ bodies \in Seq(Seq(Modules))
  BY <1>1, InMerge
<1>3. /\ Current \in comps
      /\ \A k \in Groups : Members(k) = Group(k) /\ Members(k) \cap Current = {}
      /\ \A k \in 1..n : k \in Groups \/ Group(k) = Current
  BY <1>0, <1>1, TheCurrent
<1>4. /\ Len(bodies') = n /\ Groups' = 1..n /\ bodies'[n] = emitted
      /\ \A k \in Groups : bodies'[k] = bodies[k]
  BY <1>0, <1>1, <1>2 DEF Groups
<1>5. /\ \A k \in Groups : Members(k)' = Members(k)
      /\ Members(n)' = Current
  <2>1. \A k \in Groups : Elems(bodies'[k]) = Elems(bodies[k])
    BY <1>4
  <2>2. Elems(bodies'[n]) = Elems(emitted)
    BY <1>4
  <2> QED
    BY <1>1, <2>1, <2>2 DEF Members
<1>6. n \in Nat /\ \A k \in Groups' : k \in Groups \/ k = n
  BY <1>0, <1>2, <1>4
<1>7. ASSUME NEW k \in Groups' PROVE Members(k)' = Group(k) /\ Members(k)' \in comps
  <2>1. CASE k \in Groups
    BY <1>2, <1>3, <1>5, <2>1 DEF BodiesInv
  <2>2. CASE k = n
    BY <1>0, <1>3, <1>5, <2>2 DEF Current
  <2> QED
    BY <1>6, <2>1, <2>2
<1>8. ASSUME NEW k \in Groups', NEW j \in Groups', j # k PROVE Members(j)' \cap Members(k)' = {}
  <2>1. CASE j \in Groups /\ k \in Groups
    BY <1>2, <1>5, <1>8, <2>1 DEF BodiesInv
  <2>2. CASE j = n /\ k \in Groups
    BY <1>3, <1>5, <2>2
  <2>3. CASE j \in Groups /\ k = n
    BY <1>3, <1>5, <2>3
  <2> QED
    BY <1>6, <1>8, <2>1, <2>2, <2>3
<1>9. ASSUME NEW k \in Groups'
      PROVE  OnceIn(bodies'[k]) /\ \A e \in eager : e[1] \in Members(k)' => After(e[1], e[2], bodies'[k])
  <2>1. CASE k \in Groups
    BY <1>2, <1>4, <1>5, <2>1 DEF BodiesInv
  <2>2. CASE k = n
    <3>1. OnceIn(emitted) /\ \A b \in before : After(b[2], b[1], emitted)
      BY <1>1, <1>2 DEF CurrentInv
    <3>2. ASSUME NEW e \in eager, e[1] \in Current PROVE After(e[1], e[2], emitted)
      <4>1. <<e[2], e[1]>> \in before
        BY <1>1, <1>2, <3>2 DEF CurrentInv
      <4> QED
        BY <3>1, <4>1
    <3> QED
      BY <1>4, <1>5, <2>2, <3>1, <3>2
  <2> QED
    BY <1>6, <2>1, <2>2
<1>10. ASSUME phase' = "apply", NEW C \in comps PROVE \E k \in Groups' : C = Members(k)'
  <2>1. Rank(C) \in 1..Cardinality(comps) /\ Group(Rank(C)) = C
    BY <1>2, RankIs, GroupIs
  <2>2. Cardinality(comps) \in Nat /\ ~(n < Cardinality(comps))
    BY <1>1, <1>2, <1>10, ComponentsFinite
  <2>3. Rank(C) \in Groups'
    BY <1>4, <1>6, <2>1, <2>2
  <2> QED
    BY <1>7, <2>1, <2>3
<1>11. BodiesInv'
  <2>1. phase' # "plan" /\ phase' # "done" /\ eager' = eager /\ comps' = comps
    BY <1>1
  <2> QED
    BY <1>2, <1>7, <1>8, <1>9, <1>10, <2>1 DEF BodiesInv
<1>12. CASE phase' = "apply"
  BY <1>11, <1>12 DEF CurrentInv
<1>13. CASE phase' = "eager"
  <2>1. pairs' = References(Group(Len(bodies') + 1)) /\ Len(bodies') < Cardinality(comps)
    <3>1. Len(bodies) + 2 = Len(bodies') + 1
      BY <1>0, <1>2, <1>4, <1>6
    <3> QED
      BY <1>0, <1>1, <1>4, <1>6, <1>13, <3>1
  <2>2. \A e \in eager' : \E k \in Groups' : {e[1], e[2]} \subseteq Group(k)
    BY <1>1, <1>2, <1>4 DEF CurrentInv
  <2>3. \A k \in Groups' : Members(k)' = Group(k)
    BY <1>7
  <2>4. Len(bodies') \in Nat /\ Groups' = 1..Len(bodies') /\ UNCHANGED <<names, comps, imports, requires>>
    BY <1>1, <1>4, <1>6
  <2>5. CurrentInv'
    BY <1>1, <1>2, <1>13, <2>1, <2>2, <2>3, <2>4, StartsGroup
  <2> QED
    BY <1>11, <2>5
<1> QED
  BY <1>1, <1>12, <1>13

LEMMA MergingStep == Merging /\ [Next]_vars => Merging'
<1> SUFFICES ASSUME Merging, [Next]_vars PROVE Merging'
  OBVIOUS
<1>1. Provided' /\ CompsInv' /\ Typed /\ Provided
  BY ProvidedStep, CompsStep DEF Merging, Provided, Based, Ordered
<1>2. CASE EagerPair \/ PreferPair
  <2>1. /\ phase \in {"eager", "prefer"}
        /\ UNCHANGED <<imports, requires, names, comps, bodies, emitted, round>>
    BY <1>2 DEF EagerPair, PreferPair, doc, tarjan
  <2>2. phase = "eager" => emitted = <<>>
    BY DEF Merging, CurrentInv
  <2>3. PICK p \in pairs :
          /\ before' \in {before, before \cup {<<p[2], p[1]>>}}
          /\ \/ eager' = eager
             \/ /\ eager' = eager \cup {p}
                /\ phase' = "refused" \/ before' = before \cup {<<p[2], p[1]>>}
          /\ phase' \in {phase, "refused"} /\ pairs' \subseteq pairs
          /\ phase = "eager" => (before' = before \/ eager' = eager \cup {p})
    <3>1. CASE EagerPair
      BY <3>1 DEF EagerPair
    <3>2. CASE PreferPair
      BY <2>1, <3>2 DEF PreferPair, doc
    <3> QED
      BY <1>2, <3>1, <3>2
  <2>4. BodiesInv' /\ CurrentInv'
    BY <2>1, <2>2, <2>3, DecideKeeps
  <2> QED
    BY <1>1, <2>4 DEF Merging
<1>3. CASE MergeGroups \/ EagerDone \/ EmitBody \/ GroupOrdered
  BY <1>1, <1>3, MergeGroupsKeeps, EagerDoneKeeps, EmitKeeps, GroupOrderedKeeps DEF Merging
<1>4. CASE Classify \/ FindAll \/ Staged
  <2>1. round' = 1 \/ phase' \in {"classify", "test", "groups"}
    BY <1>1, <1>4 DEF Classify, TestRequire, Search, LeaveRequire, MakeImport, Rewrite, FindAll,
                 FindGroups, GroupRoot, GroupEdge, GroupLeave, Staged, Typed, PhaseInv
  <2> QED
    BY <1>1, <2>1, OutsideMerge DEF Merging
<1>5. CASE Plan \/ ApplyMerge
  <2>1. /\ phase' \notin {"eager", "prefer"} /\ UNCHANGED <<eager, bodies, comps, round>>
        /\ phase' \in {"apply", "plan", "done"} => phase \in {"apply", "plan", "done"}
    BY <1>5 DEF Plan, PlanRoot, PlanDep, PlanCycle, PlanEmit, Planning, ApplyMerge, doc, tarjan, merging
  <2> QED
    BY <1>1, <2>1, OutsideMerge DEF Merging
<1>6. CASE Finished \/ UNCHANGED vars
  <2>1. UNCHANGED <<doc, phase, round, tarjan, merging>>
    BY <1>6 DEF Finished, vars
  <2>2. CASE phase' \notin {"eager", "prefer"}
    BY <1>1, <2>1, <2>2, OutsideMerge DEF Merging, doc, tarjan, merging
  <2>3. CASE phase' \in {"eager", "prefer"}
    <3>1. UNCHANGED <<imports, requires, eager, names, phase, round, comps, bodies, before, pairs, emitted>>
      BY <2>1 DEF doc, tarjan, merging
    <3>2. /\ Groups' = Groups /\ \A k : Members(k)' = Members(k) /\ Group(k)' = Group(k)
          /\ Current' = Current /\ \A C : References(C)' = References(C)
      <4>1. \A k : Group(k)' = Group(k)
        BY <3>1, SameGroups
      <4> QED
        BY <3>1, <4>1 DEF Groups, Members, Elems, Current, References
    <3>3. BodiesInv /\ CurrentInv
      BY DEF Merging
    <3>4. BodiesInv'
      BY <3>1, <3>2, <3>3 DEF BodiesInv
    <3>5. CurrentInv'
      BY <3>1, <3>2, <3>3 DEF CurrentInv
    <3> QED
      BY <1>1, <3>4, <3>5 DEF Merging
  <2> QED
    BY <2>2, <2>3
<1> QED
  BY <1>2, <1>3, <1>4, <1>5, <1>6 DEF Next, Merge

LEMMA MergingInit == Init => Merging
<1> SUFFICES ASSUME Init PROVE Merging
  OBVIOUS
<1>1. phase = "classify" /\ round = 1 /\ bodies = <<>> /\ eager = {} /\ Groups = {}
  BY DEF Init, Groups
<1>2. Provided
  BY ProvidedInit
<1> QED
  BY <1>1, <1>2 DEF Merging, CompsInv, BodiesInv, CurrentInv

-----------------------------------------------------------------------------
\* The ordered groups are components, apart from one another.
LEMMA MembersAre ==
  ASSUME Merging
  PROVE  /\ \A k \in Groups : /\ Members(k) \subseteq Modules /\ Members(k) # {}
                              /\ \A x \in Members(k) : Members(k) = Strong(x)
                              /\ Merged(k) \in Nat /\ Merged(k) \notin Modules
         /\ \A j, k \in Groups : /\ Members(j) \cap Members(k) # {} => j = k
                                 /\ Merged(j) = Merged(k) => j = k
<1>1. Typed /\ NamedInv /\ CompsInv /\ BodiesInv
  BY DEF Merging, Provided, Based, Ordered
<1>2. Groups = 1..Len(bodies) /\ Len(bodies) \in Nat
  BY <1>1 DEF Typed, TypeOK, MergingOK, Groups
<1>3. ASSUME NEW k \in Groups
      PROVE  Members(k) \subseteq Modules /\ Members(k) # {} /\ \A x \in Members(k) : Members(k) = Strong(x)
  <2>1. bodies # <<>>
    BY <1>3 DEF Groups
  <2>2. round = 2 /\ phase \notin {"classify", "test", "groups"}
    BY <1>1, <2>1 DEF NamedInv, Typed, TypeOK, PhaseOK
  <2>3. AreComponents /\ Members(k) \in comps
    BY <1>1, <2>2 DEF CompsInv, BodiesInv, AreComponents
  <2> QED
    BY <2>3, ComponentIs
<1>4. ASSUME NEW k \in Groups PROVE Merged(k) \in Nat /\ Merged(k) \notin Modules /\ k \in Nat
  BY <1>2, BundleGraphAssumption DEF Merged
<1>5. ASSUME NEW j \in Groups, NEW k \in Groups, Merged(j) = Merged(k) PROVE j = k
  BY <1>2, <1>5, BundleGraphAssumption DEF Merged
<1>6. ASSUME NEW j \in Groups, NEW k \in Groups, Members(j) \cap Members(k) # {} PROVE j = k
  BY <1>1, <1>6 DEF BodiesInv
<1> QED
  BY <1>3, <1>4, <1>5, <1>6

\* Where a module's body is, and what a name of the merged graph stands for.
LEMMA HomeIs ==
  ASSUME Merging, NEW x \in Modules
  PROVE  /\ InNone(x) => Home(x) = x /\ Stands(x) = {x}
         /\ \A k \in Groups : x \in Members(k) =>
              /\ ~InNone(x) /\ Home(x) = Merged(k) /\ Stands(x) = Members(k)
              /\ Place(x) = Position(x, bodies[k])
         /\ ~InNone(x) => \E k \in Groups : x \in Members(k)
<1>1. InNone(x) => Home(x) = x /\ Stands(x) = {x}
  BY DEF Home, Stands
<1>2. ASSUME NEW k \in Groups, x \in Members(k)
      PROVE  /\ ~InNone(x) /\ Home(x) = Merged(k) /\ Stands(x) = Members(k)
             /\ Place(x) = Position(x, bodies[k])
  <2>1. ~InNone(x)
    BY <1>2 DEF InNone, Members
  <2>2. (CHOOSE g \in Groups : x \in Members(g)) = k
    BY <1>2, MembersAre
  <2> QED
    BY <2>1, <2>2 DEF Home, Stands, Place
<1>3. ~InNone(x) => \E k \in Groups : x \in Members(k)
  BY DEF InNone, Members
<1> QED
  BY <1>1, <1>2, <1>3

LEMMA MergedStands ==
  ASSUME Merging, NEW k \in Groups
  PROVE  Stands(Merged(k)) = Members(k)
<1>1. Merged(k) \notin Modules /\ {g \in Groups : Merged(k) = Merged(g)} = {k}
  BY MembersAre
<1>2. UNION {Members(g) : g \in {k}} = Members(k)
  OBVIOUS
<1> QED
  BY <1>1, <1>2 DEF Stands

LEMMA StandsIs ==
  ASSUME Merging, NEW x \in AllNames
  PROVE  /\ Stands(x) # {} /\ Stands(x) \subseteq Modules
         /\ \A a \in Stands(x), b \in Stands(x) : Reaches(Named, a, b)
         /\ x \in Modules => x \in Stands(x)
<1>1. ASSUME NEW k \in Groups, Stands(x) = Members(k)
      PROVE  /\ Stands(x) # {} /\ Stands(x) \subseteq Modules
             /\ \A a \in Stands(x), b \in Stands(x) : Reaches(Named, a, b)
  <2>1. Members(k) # {} /\ Members(k) \subseteq Modules /\ \A a \in Members(k) : Members(k) = Strong(a)
    BY MembersAre
  <2> QED
    BY <1>1, <2>1 DEF Strong
<1>2. CASE x \in Modules /\ InNone(x)
  BY <1>2, HomeIs, ReachesItself
<1>3. CASE x \in Modules /\ ~InNone(x)
  <2>1. PICK k \in Groups : x \in Members(k)
    BY <1>3, HomeIs
  <2>2. Stands(x) = Members(k)
    BY <1>3, <2>1, HomeIs
  <2> QED
    BY <1>1, <2>1, <2>2
<1>4. CASE x \notin Modules
  <2>1. PICK k \in Groups : x = Merged(k)
    BY <1>4 DEF AllNames
  <2> QED
    BY <1>1, <1>4, <2>1, MergedStands
<1> QED
  BY <1>2, <1>3, <1>4

LEMMA LeadsOn ==
  ASSUME Merging, NEW x \in AllNames, NEW y \in AllNames, NEW z \in AllNames, Leads(x, y), Leads(y, z)
  PROVE  Leads(x, z)
<1>1. PICK b \in Stands(y) : TRUE
  BY StandsIs
<1> QED
  BY <1>1, ReachesTransitive DEF Leads

LEMMA LeadsItself ==
  ASSUME Merging, NEW x \in AllNames
  PROVE  Leads(x, x)
BY StandsIs DEF Leads

\* An import of the merged graph stands for paths of the provider's.
LEMMA LeadsEdge ==
  ASSUME Merging, NEW e \in AllNames \X AllNames, Kept(e) \/ Shim(e) \/ Outward(e)
  PROVE  Leads(e[1], e[2])
<1>1. ASSUME NEW a \in Stands(e[1]), NEW x \in Stands(e[1]), e[2] \in Modules, <<x, e[2]>> \in Named,
             NEW b \in Stands(e[2])
      PROVE  Reaches(Named, a, b)
  <2>1. e[1] \in AllNames /\ e[2] \in AllNames
    OBVIOUS
  <2>2. Reaches(Named, a, x) /\ x \in Modules
    BY <2>1, StandsIs
  <2>3. Reaches(Named, a, e[2])
    BY <1>1, <2>2, ReachesOn
  <2>4. Reaches(Named, e[2], b)
    BY <1>1, <2>1, StandsIs
  <2> QED
    BY <2>3, <2>4, ReachesTransitive
<1>2. CASE Kept(e)
  <2>1. e[1] \in Stands(e[1]) /\ e[2] \in Modules /\ <<e[1], e[2]>> \in Named
    <3>1. e = <<e[1], e[2]>>
      OBVIOUS
    <3> QED
      BY <1>2, <3>1, HomeIs DEF Kept
  <2> QED
    BY <1>1, <2>1 DEF Leads
<1>3. CASE Outward(e)
  <2>1. PICK k \in Groups : /\ e[1] = Merged(k) /\ e[2] \in Modules
                            /\ \E x \in Members(k) : <<x, e[2]>> \in Named
    BY <1>3 DEF Outward
  <2>2. PICK x \in Members(k) : <<x, e[2]>> \in Named
    BY <2>1
  <2>3. x \in Stands(e[1])
    BY <2>1, MergedStands
  <2> QED
    BY <1>1, <2>1, <2>2, <2>3 DEF Leads
<1>4. CASE Shim(e)
  <2>1. PICK k \in Groups : e[1] \in Members(k) /\ e[2] = Merged(k)
    BY <1>4 DEF Shim
  <2>2. e[1] \in Modules
    BY <2>1, MembersAre
  <2>3. Stands(e[1]) = Members(k) /\ Stands(e[2]) = Members(k)
    BY <2>1, <2>2, HomeIs, MergedStands
  <2>4. e[1] \in AllNames
    OBVIOUS
  <2> QED
    BY <2>3, <2>4, StandsIs DEF Leads
<1> QED
  BY <1>2, <1>3, <1>4

-----------------------------------------------------------------------------
\* What is not affected by a step that leaves the bodies alone.
LEMMA HomesStay ==
  ASSUME UNCHANGED <<given, bodies>>
  PROVE  /\ Named' = Named /\ Groups' = Groups /\ AllNames' = AllNames
         /\ \A k : Members(k)' = Members(k)
         /\ \A x : InNone(x)' = InNone(x) /\ Home(x)' = Home(x) /\ Stands(x)' = Stands(x)
         /\ \A x, y : Leads(x, y)' = Leads(x, y)
         /\ \A e : Kept(e)' = Kept(e) /\ Shim(e)' = Shim(e) /\ Outward(e)' = Outward(e)
<1>1. Named' = Named /\ Groups' = Groups /\ \A k : Members(k)' = Members(k)
  BY DEF Named, Groups, Members, Elems
<1>2. AllNames' = AllNames /\ \A x : InNone(x)' = InNone(x)
  BY <1>1 DEF AllNames, InNone, Elems
<1>3. \A x : Home(x)' = Home(x) /\ Stands(x)' = Stands(x)
  <2> SUFFICES ASSUME NEW x PROVE Home(x)' = Home(x) /\ Stands(x)' = Stands(x)
    OBVIOUS
  <2>1. Home(x)' = Home(x)
    BY ONLY bodies' = bodies DEF Home, InNone, Members, Groups, Elems, Merged
  <2>2. Stands(x)' = Stands(x)
    BY ONLY bodies' = bodies DEF Stands, InNone, Members, Groups, Elems, Merged
  <2> QED
    BY <2>1, <2>2
<1>4. \A x, y : Leads(x, y)' = Leads(x, y)
  BY <1>1, <1>3 DEF Leads
<1>5. \A e : Kept(e)' = Kept(e) /\ Shim(e)' = Shim(e) /\ Outward(e)' = Outward(e)
  BY <1>1, <1>2 DEF Kept, Shim, Outward
<1> QED
  BY <1>1, <1>2, <1>3, <1>4, <1>5

\* The imports of a provider that can be ordered at all do not name their own module.
LEMMA NoSelfImport ==
  ASSUME Merging, phase \in {"staged", "apply"}, Acyclic(given.imports), NEW x
  PROVE  <<x, x>> \notin imports
<1>1. Typed /\ ClassInv /\ LinkInv
  BY DEF Merging, Provided, Based, Chained, Sorted
<1>2. Rewritten
  BY DEF Rewritten, PreMerge
<1>3. deps = imports /\ Acyclic(deps)
  BY <1>1, <1>2 DEF ClassInv, LinkInv
<1> QED
  BY <1>3, ReachesItself DEF Acyclic

\* Without a residual require the staged graph is what it was.
LEMMA StagedAsIs ==
  ASSUME Merging, Merging', Staged, phase' = "done"
  PROVE  MergedGraph' /\ MergedNames' /\ MergedFrames'
<1>1. /\ phase = "staged" /\ requires = {} /\ UNCHANGED <<given, imports, requires, names, round, frames, order, bodies>>
  BY DEF Staged, doc, plan, merging
<1>2. Typed /\ NamedInv /\ round = 1
  BY <1>1 DEF Merging, Provided, Based, Ordered, Typed, PhaseInv
<1>3. imports = Named /\ Elems(names) = Modules /\ OnceIn(names) /\ bodies = <<>>
  BY <1>1, <1>2 DEF NamedInv, PreMerge, OnceIn
<1>4. Groups = {} /\ AllNames = Modules /\ \A x : InNone(x) /\ Home(x) = x
  <2>1. Groups = {} /\ AllNames = Modules /\ \A x : InNone(x)
    BY <1>3 DEF Groups, AllNames, InNone
  <2> QED
    BY <2>1 DEF Home
<1>5. frames = <<>> /\ order = <<>>
  BY <1>1, <1>2 DEF Typed, OpenInv
<1>6. imports \subseteq Modules \X Modules
  BY <1>2 DEF Typed, EdgesInv, PreMerge, Edges
<1>7. /\ Named' = Named /\ Groups' = Groups /\ AllNames' = AllNames
      /\ \A x : InNone(x)' = InNone(x) /\ Home(x)' = Home(x)
      /\ \A e : Kept(e)' = Kept(e)
  BY <1>1, HomesStay
<1>8. ASSUME NEW e \in imports PROVE Kept(e)
  BY <1>3, <1>4, <1>6 DEF Kept
<1>9. ASSUME NEW e \in Named PROVE <<e[1], e[2]>> \in imports
  <2>1. e \in Modules \X Modules
    BY <1>3, <1>6
  <2>2. e = <<e[1], e[2]>>
    BY <2>1
  <2> QED
    BY <1>3, <2>2
<1>10. Acyclic(given.imports) => \A x \in Modules : <<x, x>> \notin imports
  BY <1>1, NoSelfImport
<1>11. MergedGraph'
  <2>1. \A e \in imports : Kept(e)'
    BY <1>7, <1>8
  <2>2. \A e \in Named' : Home(e[1])' # Home(e[2])' => <<Home(e[1])', e[2]>> \in imports
    BY <1>4, <1>7, <1>9
  <2>3. requires' = {} /\ imports' = imports /\ given' = given /\ Groups' = {}
    BY <1>1, <1>4, <1>7
  <2>4. imports \subseteq AllNames' \X AllNames'
    BY <1>4, <1>6, <1>7
  <2> QED
    BY <1>10, <2>1, <2>2, <2>3, <2>4 DEF MergedGraph
<1>12. MergedNames' /\ MergedFrames'
  <2>1. Planned' = {} /\ DOMAIN frames' = {}
    BY <1>1, <1>5 DEF Planned, Elems
  <2> QED
    BY <1>1, <1>3, <1>4, <1>7, <2>1 DEF MergedNames, MergedFrames
<1> QED
  BY <1>11, <1>12

\* The edges once every group is one module.
LEMMA MergeApplied ==
  ASSUME Merging, ApplyMerge
  PROVE  MergedGraph'
<1>1. /\ phase = "apply" /\ imports' = MergedImports /\ requires' = MergedRequires
      /\ UNCHANGED <<given, bodies>>
  BY DEF ApplyMerge, merging
<1>2. NamedInv /\ CompsInv /\ BodiesInv /\ Typed /\ round = 2
  BY <1>1, InMerge
<1>3. /\ imports \cup requires = Named /\ requires \subseteq given.requires
      /\ imports \subseteq Modules \X Modules /\ requires \subseteq Modules \X Modules
  <2>1. imports \in Edges /\ requires \in Edges
    BY <1>1, <1>2 DEF Typed, EdgesInv, PreMerge
  <2> QED
    BY <1>1, <1>2, <2>1 DEF NamedInv, PreMerge, Edges
<1>4. ASSUME NEW e \in requires, e[1] # e[2] PROVE \E k \in Groups : e[1] \in Members(k) /\ e[2] \in Members(k)
  <2>1. PICK C \in comps : {e[1], e[2]} \subseteq C
    BY <1>1, <1>2, <1>4 DEF CompsInv
  <2>2. PICK k \in Groups : C = Members(k)
    BY <1>1, <1>2 DEF BodiesInv
  <2> QED
    BY <2>1, <2>2
<1>5. /\ Named' = Named /\ Groups' = Groups /\ AllNames' = AllNames
      /\ \A k : Members(k)' = Members(k)
      /\ \A x : InNone(x)' = InNone(x) /\ Home(x)' = Home(x)
      /\ \A e : Kept(e)' = Kept(e) /\ Shim(e)' = Shim(e) /\ Outward(e)' = Outward(e)
  BY <1>1, HomesStay
<1>6. /\ \A k \in Groups : Members(k) \subseteq Modules /\ Merged(k) \notin Modules
      /\ \A j, k \in Groups : Members(j) \cap Members(k) # {} => j = k
  BY MembersAre
<1>7. ASSUME NEW G, G \subseteq Modules \X Modules, NEW k, NEW y \in Others(G, k)
      PROVE  y \notin Members(k) /\ \E x \in Members(k) : <<x, y>> \in G
  <2>1. y \notin Members(k) /\ \E x \in Members(k) : y \in Targets(G, x)
    <3>1. y \in UNION {Targets(G, x) : x \in Members(k)} /\ y \notin Members(k)
      BY <1>7 DEF Others
    <3> QED
      BY <3>1
  <2> QED
    BY <1>7, <2>1, TargetsAre
<1>8. ASSUME NEW e \in imports'
      PROVE  /\ Kept(e) \/ Shim(e) \/ Outward(e)
             /\ e \in AllNames \X AllNames
             /\ InNone(e[1]) /\ e[1] \in Modules => e \in imports
  <2>1. CASE e \in imports /\ InNone(e[1])
    BY <1>3, <2>1 DEF Kept, AllNames
  <2>2. CASE e \in Shims
    <3>1. PICK k \in Groups : e \in Members(k) \X {Merged(k)}
      BY <2>2 DEF Shims
    <3>2. e[1] \in Members(k) /\ e[2] = Merged(k) /\ e[1] \in Modules
      BY <1>6, <3>1
    <3>3. Shim(e)
      BY <3>2 DEF Shim
    <3>4. e \in AllNames \X AllNames
      BY <1>6, <3>1 DEF AllNames
    <3> QED
      BY <3>2, <3>3, <3>4, HomeIs
  <2>3. CASE \E k \in Groups : e \in {Merged(k)} \X Others(imports, k)
    <3>1. PICK k \in Groups : e \in {Merged(k)} \X Others(imports, k)
      BY <2>3
    <3>2. e = <<e[1], e[2]>> /\ e[1] = Merged(k) /\ e[2] \in Others(imports, k)
      BY <3>1
    <3>3. PICK x \in Members(k) : <<x, e[2]>> \in imports
      BY <1>3, <1>7, <3>2
    <3>4. e[2] \in Modules \ Members(k) /\ <<x, e[2]>> \in Named
      BY <1>3, <1>7, <3>2, <3>3
    <3>5. Outward(e)
      BY <3>2, <3>4 DEF Outward
    <3> QED
      BY <1>6, <3>2, <3>4, <3>5 DEF AllNames
  <2> QED
    BY <1>1, <2>1, <2>2, <2>3 DEF MergedImports
<1>9. ASSUME NEW k \in Groups, NEW x \in Members(k) PROVE <<x, Merged(k)>> \in imports'
  BY <1>1 DEF MergedImports, Shims
<1>10. ASSUME NEW e \in Named, Home(e[1]) # Home(e[2]) PROVE <<Home(e[1]), e[2]>> \in imports'
  <2>1. e \in Modules \X Modules
    BY <1>3
  <2>2. e[1] \in Modules /\ e[2] \in Modules /\ e = <<e[1], e[2]>>
    BY <2>1
  <2>3. e \in imports
    <3> SUFFICES ASSUME e \in requires, e[1] # e[2] PROVE FALSE
      BY <1>3, <1>10
    <3>1. PICK k \in Groups : e[1] \in Members(k) /\ e[2] \in Members(k)
      BY <1>4
    <3> QED
      BY <1>10, <2>2, <3>1, HomeIs
  <2>4. CASE InNone(e[1])
    <3>1. Home(e[1]) = e[1]
      BY <2>2, <2>4, HomeIs
    <3> QED
      BY <1>1, <2>2, <2>3, <2>4, <3>1 DEF MergedImports
  <2>5. CASE ~InNone(e[1])
    <3>1. PICK k \in Groups : e[1] \in Members(k)
      BY <2>2, <2>5, HomeIs
    <3>2. Home(e[1]) = Merged(k) /\ e[2] \notin Members(k)
      BY <1>10, <2>2, <3>1, HomeIs
    <3>3. e[2] \in Others(imports, k)
      <4>1. e[2] \in Targets(imports, e[1])
        BY <1>3, <2>2, <2>3, TargetsAre
      <4> QED
        <5>1. e[2] \in UNION {Targets(imports, x) : x \in Members(k)}
          BY <3>1, <4>1
        <5> QED
          BY <3>2, <5>1 DEF Others
    <3> QED
      BY <1>1, <3>2, <3>3 DEF MergedImports
  <2> QED
    BY <2>4, <2>5
<1>11. ASSUME NEW e \in requires' PROVE \E x \in Modules : <<x, x>> \in given.requires
  <2>0. ASSUME NEW x, <<x, x>> \in requires PROVE \E y \in Modules : <<y, y>> \in given.requires
    BY <1>3, <2>0
  <2>1. CASE e \in requires /\ InNone(e[1])
    <3>1. e = <<e[1], e[2]>> /\ e[1] \in Modules
      BY <1>3, <2>1
    <3>2. e[1] = e[2]
      BY <1>4, <2>1, <3>1, HomeIs
    <3>3. <<e[1], e[1]>> \in requires
      BY <2>1, <3>1, <3>2
    <3> QED
      BY <2>0, <3>3
  <2>2. CASE \E k \in Groups : e \in {Merged(k)} \X (Others(requires, k) \cup Itself(requires, k))
    <3>1. PICK k \in Groups : e \in {Merged(k)} \X (Others(requires, k) \cup Itself(requires, k))
      BY <2>2
    <3>2. CASE e[2] \in Itself(requires, k)
      BY <2>0, <3>2 DEF Itself
    <3>3. CASE e[2] \in Others(requires, k)
      <4>1. PICK x \in Members(k) : <<x, e[2]>> \in requires
        BY <1>3, <1>7, <3>3
      <4>2. e[2] \notin Members(k)
        BY <1>3, <1>7, <3>3
      <4>3. PICK j \in Groups : x \in Members(j) /\ e[2] \in Members(j)
        <5>1. <<x, e[2]>>[1] = x /\ <<x, e[2]>>[2] = e[2] /\ x # e[2]
          BY <4>1, <4>2
        <5> QED
          BY <1>4, <4>1, <5>1
      <4> QED
        BY <1>6, <4>1, <4>2, <4>3
    <3> QED
      BY <3>1, <3>2, <3>3
  <2> QED
    BY <1>1, <2>1, <2>2 DEF MergedRequires
<1>12. ASSUME Acyclic(given.imports), NEW x \in Modules, InNone(x) PROVE <<x, x>> \notin imports'
  <2> SUFFICES ASSUME <<x, x>> \in imports' PROVE FALSE
    OBVIOUS
  <2>1. <<x, x>>[1] = x
    OBVIOUS
  <2>2. <<x, x>> \in imports
    BY <1>8, <1>12, <2>1
  <2> QED
    BY <1>1, <1>12, <2>2, NoSelfImport
<1>13. imports' \subseteq AllNames \X AllNames /\ given' = given
  BY <1>1, <1>8
<1> QED
  BY <1>5, <1>8, <1>9, <1>10, <1>11, <1>12, <1>13 DEF MergedGraph

\* The merged modules' names follow those of the modules.
LEMMA NamesApplied ==
  ASSUME Merging, ApplyMerge
  PROVE  MergedNames' /\ MergedFrames'
<1>1. /\ phase = "apply" /\ names' = names \o [k \in Groups |-> Merged(k)]
      /\ UNCHANGED <<given, bodies, frames, order>>
  BY DEF ApplyMerge, merging, plan
<1>2. /\ AreNames /\ Typed /\ Groups = 1..Len(bodies) /\ Len(bodies) \in Nat
  BY <1>1, InMerge
<1>3. /\ names \in Seq(Nat) /\ Elems(names) = Modules /\ OnceIn(names)
      /\ Len(names) \in Nat /\ DOMAIN names = 1..Len(names)
  BY <1>2 DEF AreNames
<1> DEFINE m == [k \in Groups |-> Merged(k)]
<1>4. m \in Seq(Nat) /\ Len(m) = Len(bodies) /\ \A k \in Groups : m[k] = Merged(k)
  BY <1>2, MembersAre
<1> HIDE DEF m
<1>5. /\ DOMAIN names' = 1..(Len(names) + Len(bodies))
      /\ \A i \in 1..Len(names) : names'[i] = names[i]
      /\ \A k \in Groups : names'[Len(names) + k] = Merged(k)
  BY <1>1, <1>2, <1>3, <1>4 DEF m
<1>6. ASSUME NEW i \in DOMAIN names'
      PROVE  \/ i \in 1..Len(names) /\ names'[i] \in Modules /\ names'[i] = names[i]
             \/ \E k \in Groups : i = Len(names) + k /\ names'[i] = Merged(k)
  <2>1. CASE i <= Len(names)
    <3>1. i \in 1..Len(names)
      BY <1>5, <2>1
    <3> QED
      BY <1>3, <1>5, <3>1 DEF Elems
  <2>2. CASE ~(i <= Len(names))
    <3>1. i - Len(names) \in Groups /\ i = Len(names) + (i - Len(names))
      BY <1>2, <1>3, <1>5, <2>2
    <3> QED
      BY <1>5, <3>1
  <2> QED
    BY <2>1, <2>2
<1>7. /\ \A k \in Groups : Merged(k) \notin Modules
      /\ \A j, k \in Groups : Merged(j) = Merged(k) => j = k
  BY MembersAre
<1>8. Elems(names') = AllNames
  <2>1. ASSUME NEW x \in Elems(names') PROVE x \in AllNames
    BY <1>6 DEF Elems, AllNames
  <2>2. ASSUME NEW x \in AllNames PROVE x \in Elems(names')
    <3>1. CASE x \in Modules
      <4>1. PICK i \in 1..Len(names) : names[i] = x
        BY <1>3, <3>1 DEF Elems
      <4>2. i \in DOMAIN names' /\ names'[i] = x
        BY <1>2, <1>3, <1>5, <4>1
      <4> QED
        BY <4>2 DEF Elems
    <3>2. CASE x \notin Modules
      <4>1. PICK k \in Groups : x = Merged(k)
        BY <3>2 DEF AllNames
      <4>2. Len(names) + k \in DOMAIN names'
        BY <1>2, <1>3, <1>5
      <4> QED
        BY <1>5, <4>1, <4>2 DEF Elems
    <3> QED
      BY <3>1, <3>2
  <2> QED
    BY <2>1, <2>2
<1>9. OnceIn(names')
  <2> SUFFICES ASSUME NEW i \in DOMAIN names', NEW j \in DOMAIN names', names'[i] = names'[j] PROVE i = j
    BY DEF OnceIn
  <2>1. CASE i \in 1..Len(names) /\ names'[i] \in Modules /\ names'[i] = names[i]
    <3>1. j \in 1..Len(names) /\ names'[j] = names[j]
      <4>1. \/ j \in 1..Len(names) /\ names'[j] = names[j]
            \/ \E k \in Groups : names'[j] = Merged(k)
        BY <1>6
      <4>2. names'[j] \in Modules
        BY <2>1
      <4>3. \A k \in Groups : names'[j] # Merged(k)
        BY <1>7, <4>2
      <4> QED
        BY <4>1, <4>3
    <3> QED
      BY <1>3, <2>1, <3>1 DEF OnceIn
  <2>2. CASE \E k \in Groups : i = Len(names) + k /\ names'[i] = Merged(k)
    BY <1>6, <1>7, <2>2
  <2> QED
    BY <1>6, <2>1, <2>2
<1>10. AllNames' = AllNames
  BY <1>1, HomesStay
<1>11. frames = <<>> /\ order = <<>>
  BY <1>1, <1>2 DEF Typed, OpenInv
<1>12. Planned' = {} /\ DOMAIN frames' = {}
  BY <1>1, <1>11 DEF Planned, Elems
<1> QED
  BY <1>8, <1>9, <1>10, <1>12 DEF MergedNames, MergedFrames

-----------------------------------------------------------------------------
LEMMA EdgesLead ==
  ASSUME Merging, MergedGraph, NEW x, NEW y, <<x, y>> \in imports
  PROVE  x \in AllNames /\ y \in AllNames /\ Leads(x, y)
<1> DEFINE e == <<x, y>>
<1>1. /\ e \in AllNames \X AllNames /\ e[1] = x /\ e[2] = y
      /\ Kept(e) \/ Shim(e) \/ Outward(e)
  BY DEF MergedGraph
<1>2. Leads(e[1], e[2])
  <2> HIDE DEF e
  <2> QED
    BY <1>1, LeadsEdge
<1> QED
  BY <1>1, <1>2

\* planOrder goes down the merged graph along its imports.
LEMMA MergedPlan ==
  ASSUME Merging, MergedInv, round = 2, phase = "plan", Plan
  PROVE  MergedInv'
<1>0. /\ frames \in Seq(Frames(Nat)) /\ order \in Seq(Nat) /\ Typed
      /\ MergedGraph /\ MergedNames /\ MergedFrames
      /\ frames # <<>> => /\ Len(frames) \in DOMAIN frames /\ Top(frames) = frames[Len(frames)]
                          /\ DOMAIN frames = 1..Len(frames) /\ Len(frames) \in Nat
  <2>1. Typed /\ MergedGraph /\ MergedNames /\ MergedFrames
    BY DEF Merging, Provided, Based, Ordered, MergedInv
  <2> QED
    BY <2>1 DEF Typed, TypeOK, PlanOK, Top
<1>1. UNCHANGED <<given, imports, requires, bodies, round>>
  BY DEF Plan, PlanRoot, PlanDep, PlanCycle, PlanEmit, Planning, doc, merging
<1>2. MergedGraph'
  BY <1>0, <1>1, HomesStay DEF MergedGraph
<1>3. AllNames' = AllNames /\ \A x, y : Leads(x, y)' = Leads(x, y)
  BY <1>1, HomesStay
<1>4. CASE PlanRoot
  <2>1. PICK x \in Unplanned : frames' = <<Frame(x)>>
    BY <1>4 DEF PlanRoot
  <2>2. /\ DOMAIN frames' = {1} /\ frames'[1].node = x /\ x \in AllNames
        /\ frames'[1].left = Targets(imports, x)
    BY <1>0, <2>1 DEF Frame, Unplanned, MergedNames
  <2>3. UNCHANGED <<imports, names, order, phase, round>>
    BY <1>4 DEF PlanRoot, doc
  <2>4. Leads(x, x)
    BY <2>2, LeadsItself
  <2>5. MergedNames'
    BY <1>0, <1>3, <2>3 DEF MergedNames, Planned
  <2>6. MergedFrames'
    BY <1>3, <2>2, <2>3, <2>4 DEF MergedFrames
  <2> QED
    BY <1>2, <2>5, <2>6 DEF MergedInv
<1>5. CASE PlanDep
  <2>1. frames # <<>> /\ UNCHANGED <<imports, names, order, phase, round>>
    BY <1>5 DEF PlanDep, doc
  <2>2. PICK y \in Top(frames).left \ Open :
          frames' = IF y \in Planned THEN Took(y) ELSE Append(Took(y), Frame(y))
    BY <1>5 DEF PlanDep
  <2>0. PICK n \in Nat \ {0} : n = Len(frames)
    <3>1. Len(frames) \in Nat \ {0}
      BY <1>0, <2>1
    <3> QED
      BY <3>1
  <2> DEFINE t == Append(Took(y), Frame(y))
  <2>3. /\ Took(y) \in Seq(Frames(Nat)) /\ Len(Took(y)) = n
        /\ \A k \in DOMAIN frames : Took(y)[k].node = frames[k].node
        /\ \A k \in DOMAIN frames : Took(y)[k].left = IF k = n
                                                      THEN frames[k].left \ {y} ELSE frames[k].left
        /\ t \in Seq(Frames(Nat)) /\ Len(t) = n + 1
        /\ \A k \in DOMAIN frames : t[k] = Took(y)[k]
        /\ t[n + 1] = Frame(y)
    BY <1>0, <2>0, <2>1, OpensFrame
  <2> HIDE DEF t
  <2>4. frames' = Took(y) \/ frames' = t
    BY <2>2 DEF t
  <2>5. \A k \in DOMAIN frames : /\ k \in 1..n /\ frames'[k].node = frames[k].node
                                 /\ frames'[k].left \subseteq frames[k].left
    BY <1>0, <2>0, <2>1, <2>3, <2>4
  <2>6. DOMAIN frames = 1..n /\ (DOMAIN frames' = 1..n \/ (DOMAIN frames' = 1..(n + 1)
                                             /\ frames'[n + 1] = Frame(y)))
    <3>1. DOMAIN Took(y) = 1..n /\ DOMAIN t = 1..(n + 1) /\ DOMAIN frames = 1..n
      BY <1>0, <2>0, <2>1, <2>3
    <3> QED
      BY <2>3, <2>4, <3>1
  <2>7. <<frames[n].node, y>> \in imports /\ y \in AllNames
    <3>1. y \in Targets(imports, frames[n].node)
      BY <1>0, <2>0, <2>1, <2>2 DEF MergedFrames
    <3>2. imports \subseteq AllNames \X AllNames
      BY <1>0 DEF MergedGraph
    <3> HIDE DEF AllNames
    <3> QED
      BY <3>1, <3>2, TargetsAre
  <2>8. \A j \in DOMAIN frames : Leads(frames[j].node, y)
    <3> SUFFICES ASSUME NEW j \in DOMAIN frames PROVE Leads(frames[j].node, y)
      OBVIOUS
    <3>1. Leads(frames[j].node, frames[n].node) /\ frames[j].node \in AllNames
      <4>1. n \in DOMAIN frames /\ j <= n
        BY <2>6
      <4> QED
        BY <1>0, <4>1 DEF MergedFrames
    <3>2. frames[n].node \in AllNames /\ Leads(frames[n].node, y)
      BY <1>0, <2>7, EdgesLead
    <3> QED
      BY <2>7, <3>1, <3>2, LeadsOn
  <2>9. ASSUME NEW k \in DOMAIN frames'
        PROVE  /\ frames'[k].node \in AllNames
               /\ frames'[k].left \subseteq Targets(imports, frames'[k].node)
    <3>1. CASE k \in DOMAIN frames
      BY <1>0, <2>5, <3>1 DEF MergedFrames
    <3>2. CASE k \notin DOMAIN frames
      <4>1. k = n + 1 /\ frames'[k].node = y /\ frames'[k].left = Targets(imports, y)
        BY <2>6, <3>2 DEF Frame
      <4> QED
        BY <2>7, <4>1
    <3> QED
      BY <3>1, <3>2
  <2>10. ASSUME NEW j \in DOMAIN frames', NEW k \in DOMAIN frames', j <= k
         PROVE  Leads(frames'[j].node, frames'[k].node)
    <3>1. CASE k \in DOMAIN frames
      <4>1. j \in DOMAIN frames
        BY <2>6, <2>10, <3>1
      <4> QED
        BY <1>0, <2>5, <2>10, <3>1, <4>1 DEF MergedFrames
    <3>2. CASE k \notin DOMAIN frames
      <4>1. k = n + 1 /\ frames'[k].node = y
        BY <2>6, <3>2 DEF Frame
      <4>2. CASE j \in DOMAIN frames
        BY <2>5, <2>8, <4>1, <4>2
      <4>3. CASE j \notin DOMAIN frames
        <5>1. j = k
          BY <2>6, <4>1, <4>3
        <5> QED
          BY <2>7, <4>1, <5>1, LeadsItself
      <4> QED
        BY <4>2, <4>3
    <3> QED
      BY <3>1, <3>2
  <2>11. ASSUME NEW k \in DOMAIN frames', k + 1 \in DOMAIN frames'
         PROVE  <<frames'[k].node, frames'[k + 1].node>> \in imports
    <3>1. CASE k + 1 \in DOMAIN frames
      <4>1. k \in DOMAIN frames
        BY <2>6, <2>11, <3>1
      <4> QED
        BY <1>0, <2>5, <3>1, <4>1 DEF MergedFrames
    <3>2. CASE k + 1 \notin DOMAIN frames
      <4>1. k = n /\ frames'[k + 1].node = y /\ k \in DOMAIN frames
        BY <2>6, <2>11, <3>2 DEF Frame
      <4> QED
        BY <2>5, <2>7, <4>1
    <3> QED
      BY <3>1, <3>2
  <2>12. MergedNames'
    BY <1>0, <1>3, <2>1 DEF MergedNames, Planned
  <2>13. MergedFrames'
    BY <1>3, <2>1, <2>9, <2>10, <2>11 DEF MergedFrames
  <2> QED
    BY <1>2, <2>12, <2>13 DEF MergedInv
<1>6. CASE PlanCycle
  BY <1>6 DEF PlanCycle, MergedInv
<1>7. CASE PlanEmit
  <2>1. /\ frames # <<>> /\ UNCHANGED <<imports, names, phase, round>>
        /\ order' = Append(order, Top(frames).node) /\ frames' = Pop(frames)
    BY <1>7 DEF PlanEmit, doc
  <2>2. Top(frames).node \in AllNames /\ Top(frames).node \in Nat
    <3>1. Top(frames).node \in AllNames
      BY <1>0, <2>1 DEF MergedFrames
    <3> QED
      BY <1>0, <2>1, <3>1, TopTyped
  <2>3. Elems(Append(order, Top(frames).node)) = Elems(order) \cup {Top(frames).node}
    BY <1>0, <2>2, AppendAdds
  <2>4. Planned' \subseteq AllNames
    BY <1>0, <2>1, <2>2, <2>3 DEF Planned, MergedNames
  <2>5. /\ DOMAIN Pop(frames) \subseteq DOMAIN frames
        /\ \A k \in DOMAIN Pop(frames) : Pop(frames)[k] = frames[k]
    BY <1>0, <2>1, PopIs
  <2>6. MergedNames'
    BY <1>0, <1>3, <2>1, <2>4 DEF MergedNames
  <2>7. MergedFrames'
    <3>1. \A k \in DOMAIN frames' : k \in DOMAIN frames /\ frames'[k] = frames[k]
      BY <2>1, <2>5
    <3>2. \A k \in DOMAIN frames' : /\ frames'[k].node \in AllNames
                                    /\ frames'[k].left \subseteq Targets(imports, frames'[k].node)
                                    /\ k + 1 \in DOMAIN frames' => <<frames'[k].node, frames'[k + 1].node>> \in imports
      BY <1>0, <3>1 DEF MergedFrames
    <3>3. \A j, k \in DOMAIN frames' : j <= k => Leads(frames'[j].node, frames'[k].node)
      BY <1>0, <3>1 DEF MergedFrames
    <3> QED
      BY <1>3, <2>1, <3>2, <3>3 DEF MergedFrames
  <2> QED
    BY <1>2, <2>6, <2>7 DEF MergedInv
<1>8. CASE Planning
  <2>1. /\ names' = order /\ frames = <<>> /\ frames' = frames /\ order' = <<>> /\ Unplanned = {}
    BY <1>8 DEF Planning
  <2>2. Elems(order) = AllNames
    BY <1>0, <2>1 DEF MergedNames, Unplanned, Planned
  <2>3. OnceIn(order)
    BY <1>0 DEF Typed, TypeOK, PlanOK, OnceIn
  <2>4. Planned' = {} /\ DOMAIN frames' = {}
    BY <2>1 DEF Planned, Elems
  <2>5. MergedNames' /\ MergedFrames'
    BY <1>3, <2>1, <2>2, <2>3, <2>4 DEF MergedNames, MergedFrames
  <2> QED
    BY <1>2, <2>5 DEF MergedInv
<1> QED
  BY <1>4, <1>5, <1>6, <1>7, <1>8 DEF Plan

LEMMA MergedStep == Merging /\ MergedInv /\ Merging' /\ [Next]_vars => MergedInv'
<1> SUFFICES ASSUME Merging, MergedInv, Merging', [Next]_vars PROVE MergedInv'
  OBVIOUS
<1>1. Typed /\ NamedInv
  BY DEF Merging, Provided, Based, Ordered
<1>2. CASE ApplyMerge
  BY <1>2, MergeApplied, NamesApplied DEF MergedInv
<1>3. CASE Staged
  <2>1. phase' = "done" \/ phase' = "classify"
    BY <1>3 DEF Staged
  <2>2. CASE phase' = "done"
    BY <1>3, <2>2, StagedAsIs DEF MergedInv
  <2> QED
    BY <2>1, <2>2 DEF MergedInv
<1>4. CASE Plan /\ round = 2
  <2>1. phase = "plan"
    BY <1>4 DEF Plan, PlanRoot, PlanDep, PlanCycle, PlanEmit, Planning
  <2> QED
    BY <1>4, <2>1, MergedPlan
<1>5. CASE Plan /\ round # 2
  <2>1. round' # 2 /\ phase' # "done"
    BY <1>1, <1>5 DEF Plan, PlanRoot, PlanDep, PlanCycle, PlanEmit, Planning, Typed, TypeOK, PhaseOK
  <2> QED
    BY <2>1 DEF MergedInv
<1>6. CASE Classify \/ FindAll
  <2>1. phase' # "done" /\ (phase' = "plan" => round' # 2)
    BY <1>6 DEF Classify, TestRequire, Search, LeaveRequire, MakeImport, Rewrite, FindAll,
                 FindGroups, GroupRoot, GroupEdge, GroupLeave
  <2> QED
    BY <2>1 DEF MergedInv
<1>7. CASE Merge /\ ~Staged /\ ~ApplyMerge
  <2>1. phase' \notin {"done", "plan"}
    BY <1>7 DEF Merge, MergeGroups, EagerPair, EagerDone, PreferPair, EmitBody, GroupOrdered
  <2> QED
    BY <2>1 DEF MergedInv
<1>8. CASE Finished \/ UNCHANGED vars
  <2>1. UNCHANGED <<given, imports, requires, names, phase, round, frames, order, bodies>>
    BY <1>8 DEF Finished, vars, doc, plan, merging
  <2>2. /\ Named' = Named /\ Groups' = Groups /\ AllNames' = AllNames
        /\ \A k : Members(k)' = Members(k)
        /\ \A x : InNone(x)' = InNone(x) /\ Home(x)' = Home(x) /\ Stands(x)' = Stands(x)
        /\ \A x, y : Leads(x, y)' = Leads(x, y)
        /\ \A e : Kept(e)' = Kept(e) /\ Shim(e)' = Shim(e) /\ Outward(e)' = Outward(e)
    BY <2>1, HomesStay
  <2>3. MergedGraph => MergedGraph'
    BY <2>1, <2>2 DEF MergedGraph
  <2>4. (MergedNames => MergedNames') /\ (MergedFrames => MergedFrames')
    BY <2>1, <2>2 DEF MergedNames, MergedFrames, Planned
  <2> QED
    BY <2>1, <2>3, <2>4 DEF MergedInv
<1> QED
  BY <1>2, <1>3, <1>4, <1>5, <1>6, <1>7, <1>8 DEF Next

-----------------------------------------------------------------------------
LEMMA ReachesBack ==
  ASSUME NEW G \in SUBSET (Modules \X Modules), NEW H, NEW a \in Modules, NEW b, Reaches(G, a, b),
         \A e \in G : <<e[2], e[1]>> \in H
  PROVE  Reaches(H, b, a)
<1> DEFINE S == {x \in Modules : Reaches(H, x, a)}
<1>1. a \in S
  BY ReachesItself
<1>2. ASSUME NEW e \in G, e[1] \in S PROVE e[2] \in S
  <2>1. e[1] \in Modules /\ e[2] \in Modules /\ <<e[2], e[1]>> \in H /\ Reaches(H, e[1], a)
    BY <1>2
  <2>2. Reaches(H, e[2], e[1])
    BY <2>1, ReachesItself, ReachesOn
  <2> QED
    BY <2>1, <2>2, ReachesTransitive
<1>3. ClosedUnder(S, G) /\ S \in SUBSET Modules
  BY <1>2 DEF ClosedUnder
<1>4. b \in S
  <2> HIDE DEF S
  <2> QED
    BY <1>1, <1>3 DEF Reaches
<1> QED
  BY <1>4

\* Two modules that reach one another are merged into one.
LEMMA MutualsMerge ==
  ASSUME Merging, round = 2, phase \in {"plan", "done"}, NEW x \in Modules, NEW y \in Strong(x), x # y
  PROVE  \E k \in Groups : x \in Members(k)
<1>1. BodiesInv /\ AreComponents
  BY DEF Merging, CompsInv, AreComponents
<1>2. x \in Strong(x) /\ Strong(x) \subseteq Modules
  BY StrongIs
<1>3. Cardinality(Strong(x)) > 1
  <2>1. IsFiniteSet(Modules)
    BY FS_Interval, BundleGraphAssumption
  <2>2. IsFiniteSet(Strong(x)) /\ Cardinality(Strong(x)) \in Nat
    BY <1>2, <2>1, FS_Subset, FS_CardinalityType
  <2>3. IsFiniteSet({x}) /\ Cardinality({x}) = 1 /\ {x} \in SUBSET Strong(x) /\ {x} # Strong(x)
    BY <1>2, FS_Singleton
  <2>4. Cardinality({x}) <= Cardinality(Strong(x)) /\ Cardinality({x}) # Cardinality(Strong(x))
    BY <2>2, <2>3, FS_Subset
  <2> QED
    BY <2>2, <2>3, <2>4
<1>4. Strong(x) \in comps
  BY <1>1, <1>3 DEF AreComponents
<1> QED
  BY <1>1, <1>2, <1>4 DEF BodiesInv

\* Two names of the merged graph that lead to one another and have no module in
\* common: there are none.
LEMMA ApartNames ==
  ASSUME Merging, NEW k \in Groups, NEW w \in Modules \ Members(k),
         NEW x \in AllNames, NEW y \in AllNames, Stands(x) = Members(k), Stands(y) = Members(k),
         Leads(x, w), Leads(w, y)
  PROVE  FALSE
<1>1. PICK a \in Members(k) : TRUE
  BY MembersAre
<1>2. Members(k) = Strong(a)
  BY MembersAre
<1>3. w \in Stands(w)
  <2>1. w \in AllNames
    BY DEF AllNames
  <2> QED
    BY <2>1, StandsIs
<1>4. Reaches(Named, a, w) /\ Reaches(Named, w, a)
  BY <1>3 DEF Leads
<1> QED
  BY <1>2, <1>4 DEF Strong

\* The merged graph has an import cycle only if the provider's own imports have.
LEMMA MergedCycle ==
  ASSUME Merging, MergedInv, round = 2, PlanCycle
  PROVE  ~Acyclic(given.imports)
<1>1. /\ phase = "plan" /\ frames # <<>> /\ Typed /\ MergedGraph /\ MergedFrames
  BY DEF PlanCycle, MergedInv, Merging, Provided, Based, Ordered
<1>2. /\ Len(frames) \in DOMAIN frames /\ DOMAIN frames = 1..Len(frames) /\ Len(frames) \in Nat
      /\ Top(frames) = frames[Len(frames)]
  BY <1>1 DEF Typed, TypeOK, PlanOK, Top
<1>3. PICK n \in Nat : n = Len(frames)
  BY <1>2
<1>4. PICK j \in DOMAIN frames : frames[j].node \in Top(frames).left
  BY DEF PlanCycle, Open
<1>5. PICK x : x = frames[n].node
  OBVIOUS
<1>6. PICK z : z = frames[j].node
  OBVIOUS
<1>7. <<x, z>> \in imports /\ x \in AllNames /\ z \in AllNames
  <2>1. z \in Targets(imports, x)
    BY <1>1, <1>2, <1>3, <1>4, <1>5, <1>6 DEF MergedFrames
  <2>2. imports \subseteq AllNames \X AllNames
    BY <1>1 DEF MergedGraph
  <2>3. <<x, z>> \in imports
    BY <2>1, <2>2, TargetsAre
  <2> QED
    BY <2>2, <2>3
<1>8. Leads(z, x) /\ Leads(x, z)
  <2>1. j <= n /\ n \in DOMAIN frames
    BY <1>2, <1>3
  <2>2. Leads(z, x)
    BY <1>1, <1>5, <1>6, <2>1 DEF MergedFrames
  <2> QED
    BY <1>1, <1>7, <2>2, EdgesLead
<1> DEFINE e == <<x, z>>
<1>9. (Kept(e) \/ Shim(e) \/ Outward(e)) /\ e[1] = x /\ e[2] = z
  BY <1>1, <1>7 DEF MergedGraph
<1> HIDE DEF e
<1>10. CASE Kept(e)
  <2>1. x \in Modules /\ InNone(x) /\ z \in Modules
    BY <1>9, <1>10 DEF Kept
  <2>2. z \in Strong(x)
    <3>1. x \in Stands(x) /\ z \in Stands(z)
      BY <1>7, <2>1, StandsIs
    <3> QED
      BY <1>8, <2>1, <3>1 DEF Leads, Strong
  <2>3. x = z
    <3> SUFFICES ASSUME x # z PROVE FALSE
      OBVIOUS
    <3>1. PICK k \in Groups : x \in Members(k)
      BY <1>1, <2>1, <2>2, MutualsMerge
    <3> QED
      BY <2>1, <3>1, HomeIs
  <2> QED
    BY <1>1, <1>7, <2>1, <2>3 DEF MergedGraph
<1>11. CASE Outward(e)
  <2>1. PICK k \in Groups : x = Merged(k) /\ z \in Modules \ Members(k)
    BY <1>9, <1>11 DEF Outward
  <2>2. Stands(x) = Members(k)
    BY <2>1, MergedStands
  <2>3. FALSE
    BY <1>7, <1>8, <2>1, <2>2, ApartNames
  <2> QED
    BY <2>3
<1>12. CASE Shim(e)
  <2>1. PICK k \in Groups : x \in Members(k) /\ z = Merged(k)
    BY <1>9, <1>12 DEF Shim
  <2>2. x \in Modules /\ z \notin Modules /\ Stands(x) = Members(k) /\ Stands(z) = Members(k)
    <3>1. x \in Modules /\ z \notin Modules
      BY <2>1, MembersAre
    <3> QED
      BY <2>1, <3>1, HomeIs, MergedStands
  <2>3. j \in 1..n /\ j # n /\ j + 1 \in DOMAIN frames /\ j + 1 <= n
    <3>1. j # n
      BY <1>5, <1>6, <2>2
    <3> QED
      BY <1>2, <1>3, <3>1
  <2>4. PICK w : w = frames[j + 1].node
    OBVIOUS
  <2>5. <<z, w>> \in imports /\ Leads(w, x)
    BY <1>1, <1>2, <1>3, <1>5, <1>6, <2>3, <2>4 DEF MergedFrames
  <2>6. w \in AllNames /\ Leads(z, w)
    BY <1>1, <2>5, EdgesLead
  <2> DEFINE f == <<z, w>>
  <2>7. (Kept(f) \/ Shim(f) \/ Outward(f)) /\ f[1] = z /\ f[2] = w
    BY <1>1, <2>5 DEF MergedGraph
  <2> HIDE DEF f
  <2>8. ~Kept(f) /\ ~Shim(f)
    BY <2>2, <2>7, MembersAre DEF Kept, Shim
  <2>9. PICK g \in Groups : z = Merged(g) /\ w \in Modules \ Members(g)
    BY <2>7, <2>8 DEF Outward
  <2>10. g = k
    BY <2>1, <2>9, MembersAre
  <2>11. FALSE
    BY <1>7, <2>2, <2>5, <2>6, <2>9, <2>10, ApartNames
  <2> QED
    BY <2>11
<1> QED
  BY <1>9, <1>10, <1>11, <1>12

\* Whatever is refused could not be staged.
Judged == Merging /\ MergedInv /\ RefusedInv

LEMMA RefusedStep == Judged /\ [Next]_vars => RefusedInv'
<1> SUFFICES ASSUME Judged, [Next]_vars, phase' = "refused"
             PROVE  \/ ~Acyclic(given'.imports)
                    \/ \E x \in Modules : <<x, x>> \in given'.requires
                    \/ ~Acyclic(eager')
  BY DEF RefusedInv
<1>1. /\ Typed /\ NamedInv /\ CurrentInv /\ Chained /\ Grouped /\ Merging /\ MergedInv
  BY DEF Judged, Merging, Provided, Based, Ordered
<1>2. CASE PlanCycle
  <2>1. given' = given /\ round' = round
    BY <1>2 DEF PlanCycle, doc
  <2>2. CASE round = 2
    BY <1>1, <1>2, <2>1, <2>2, MergedCycle
  <2>3. CASE round = 1
    <3>1. Chained'
      BY <1>1, ChainedStep
    <3> QED
      BY <2>1, <2>3, <3>1 DEF Chained, ChainInv
  <2> QED
    BY <1>1, <2>2, <2>3 DEF Typed, TypeOK, PhaseOK
<1>3. CASE MergeGroups
  <2>1. GroupsFound /\ phase = "groups" /\ comps = {} /\ given' = given
    BY <1>3 DEF MergeGroups, GroupsFound, doc
  <2>2. round = 2 /\ requires # {} /\ requires \subseteq given.requires /\ requires \in Edges
    BY <1>1, <2>1 DEF NamedInv, PreMerge, Typed, PhaseInv, EdgesInv
  <2>3. PICK e \in requires : TRUE
    BY <2>2
  <2>4. e[1] = e[2]
    BY <1>1, <2>1, GroupedRight DEF GroupsAreComponents
  <2>5. e \in Modules \X Modules
    BY <2>2 DEF Edges
  <2>6. e = <<e[1], e[2]>> /\ e[1] \in Modules
    BY <2>5
  <2> QED
    BY <2>1, <2>2, <2>4, <2>6
<1>4. CASE EagerPair
  <2>1. PICK p \in pairs : eager' = eager \cup {p} /\ Reaches(before, p[1], p[2]) /\ phase = "eager"
    BY <1>4 DEF EagerPair
  <2>2. pairs \in Edges /\ before \in Edges
    BY <1>1 DEF Typed, TypeOK, MergingOK
  <2>3. p[1] \in Modules /\ before \in SUBSET (Modules \X Modules)
    BY <2>2 DEF Edges
  <2>4. \A b \in before : <<b[2], b[1]>> \in eager'
    BY <1>1, <2>1 DEF CurrentInv
  <2>5. Reaches(eager', p[2], p[1])
    BY <2>1, <2>3, <2>4, ReachesBack
  <2> QED
    BY <2>1, <2>5 DEF Acyclic
<1>5. CASE Planning
  <2>1. round # 1 /\ requires # {} /\ phase = "plan" /\ given' = given
    BY <1>5 DEF Planning
  <2>2. round = 2
    BY <1>1, <2>1 DEF Typed, TypeOK, PhaseOK
  <2>3. MergedGraph
    BY <1>1, <2>1, <2>2 DEF MergedInv
  <2> QED
    BY <2>1, <2>3 DEF MergedGraph
<1>6. CASE Finished \/ UNCHANGED vars
  <2>1. phase = "refused" /\ given' = given /\ eager' = eager
    BY <1>6 DEF Finished, vars, doc
  <2> QED
    BY <2>1 DEF Judged, RefusedInv
<1>7. CASE \/ Classify \/ FindAll \/ (Plan /\ ~PlanCycle /\ ~Planning)
           \/ (Merge /\ ~MergeGroups /\ ~EagerPair)
  <2>1. phase' # "refused"
    BY <1>7 DEF Classify, TestRequire, Search, LeaveRequire, MakeImport, Rewrite, FindAll,
                FindGroups, GroupRoot, GroupEdge, GroupLeave, Plan, PlanRoot, PlanDep, PlanEmit,
                Merge, Staged, EagerDone, PreferPair, EmitBody, GroupOrdered, ApplyMerge
  <2> QED
    BY <2>1
<1> QED
  BY <1>2, <1>3, <1>4, <1>5, <1>6, <1>7 DEF Next

LEMMA PositionIs ==
  ASSUME NEW s, OnceIn(s), NEW i \in DOMAIN s
  PROVE  Position(s[i], s) = i
BY DEF Position, OnceIn

\* There are n numbers from one to n.
LEMMA CountedFrom1 ==
  ASSUME NEW n \in Nat
  PROVE  IsFiniteSet(1..n) /\ Cardinality(1..n) = n
<1>1. IsFiniteSet(1..n) /\ Cardinality(1..n) = IF 1 > n THEN 0 ELSE n - 1 + 1
  BY FS_Interval
<1> QED
  BY <1>1

\* A graph that was staged works.
LEMMA DoneRuns == Judged /\ phase = "done" => StagedRuns
<1> SUFFICES ASSUME Judged, phase = "done" PROVE StagedRuns
  OBVIOUS
<1>1. /\ Merging /\ MergedGraph /\ MergedNames /\ NamesInv /\ Typed /\ BodiesInv
  BY DEF Judged, Merging, MergedInv, Provided, Based, Ordered
<1>2. /\ requires = {} /\ InOrder(names, imports) /\ Elems(names) = AllNames /\ OnceIn(names)
  BY <1>1 DEF NamesInv, MergedNames
<1>3. names \in Seq(Nat) /\ Len(names) \in Nat /\ DOMAIN names = 1..Len(names)
  BY <1>1 DEF Typed, TypeOK, DocOK
<1>4. Len(names) = Cardinality(Elems(names))
  <2> DEFINE f == [i \in 1..Len(names) |-> names[i]]
  <2>1. f \in Bijection(1..Len(names), Elems(names))
    <3>1. f \in [1..Len(names) -> Elems(names)]
      BY <1>3 DEF Elems
    <3>2. f \in Injection(1..Len(names), Elems(names))
      BY <1>2, <1>3, <3>1 DEF Injection, IsInjective, OnceIn
    <3>3. \A x \in Elems(names) : \E i \in 1..Len(names) : f[i] = x
      BY <1>3 DEF Elems
    <3> QED
      BY <3>1, <3>2, <3>3 DEF Bijection, Surjection
  <2>2. IsFiniteSet(1..Len(names)) /\ Cardinality(1..Len(names)) = Len(names)
    <3>1. Len(names) \in Nat
      BY <1>3
    <3> QED
      BY <3>1, CountedFrom1
  <2> HIDE DEF f
  <2> QED
    BY <2>1, <2>2, FS_Bijection DEF ExistsBijection
<1>5. ASSUME NEW x, NEW y, <<x, y>> \in imports
      PROVE  Position(y, names) \in Nat /\ Position(x, names) \in Nat /\ Position(y, names) < Position(x, names)
  <2>1. x \in Elems(names)
    BY <1>1, <1>2, <1>5, EdgesLead
  <2>2. PICK i \in DOMAIN names : names[i] = x
    BY <2>1 DEF Elems
  <2>3. y \in Targets(imports, names[i])
    BY <1>5, <2>2 DEF Targets
  <2>4. PICK j \in 1..(i - 1) : names[j] = y
    BY <1>2, <2>2, <2>3 DEF InOrder
  <2>5. j \in DOMAIN names /\ j \in Nat /\ i \in Nat /\ j < i
    BY <1>3
  <2>6. Position(x, names) = i /\ Position(y, names) = j
    BY <1>2, <2>2, <2>4, <2>5, PositionIs
  <2> QED
    BY <2>5, <2>6
<1>6. ASSUME NEW e \in Named, Home(e[1]) # Home(e[2])
      PROVE  Position(Home(e[2]), names) < Position(Home(e[1]), names)
  <2>1. <<Home(e[1]), e[2]>> \in imports
    BY <1>1, <1>6 DEF MergedGraph
  <2>2. e[2] \in Modules
    <3>1. given.imports \subseteq Modules \X Modules /\ given.requires \subseteq Modules \X Modules
      BY <1>1 DEF Typed, TypeOK, DocOK, Edges
    <3> QED
      BY <3>1 DEF Named
  <2>3. CASE InNone(e[2])
    BY <1>1, <1>5, <2>1, <2>2, <2>3, HomeIs
  <2>4. CASE ~InNone(e[2])
    <3>1. PICK k \in Groups : e[2] \in Members(k)
      BY <1>1, <2>2, <2>4, HomeIs
    <3>2. Home(e[2]) = Merged(k) /\ <<e[2], Merged(k)>> \in imports
      BY <1>1, <2>2, <3>1, HomeIs DEF MergedGraph
    <3>3. Position(Merged(k), names) < Position(e[2], names) /\ Position(e[2], names) < Position(Home(e[1]), names)
      BY <1>5, <2>1, <3>2
    <3>4. Position(Merged(k), names) \in Nat /\ Position(e[2], names) \in Nat /\ Position(Home(e[1]), names) \in Nat
      BY <1>5, <2>1, <3>2
    <3> QED
      BY <3>2, <3>3, <3>4
  <2> QED
    BY <2>3, <2>4
<1>7. ASSUME NEW e \in Named, Home(e[1]) = Home(e[2]), e \in eager
      PROVE  Place(e[2]) < Place(e[1])
  <2>1. e[1] \in Modules /\ e[2] \in Modules
    BY <1>1, <1>7 DEF Typed, TypeOK, DocOK, Edges
  <2>2. e[1] # e[2]
    BY <1>1, <1>7 DEF BodiesInv
  <2>3. PICK k \in Groups : e[1] \in Members(k) /\ e[2] \in Members(k)
    <3>0. \A x \in Modules : InNone(x) => Home(x) = x
      BY <1>1, HomeIs
    <3>1. \A x \in Modules, j \in Groups : x \in Members(j) => Home(x) = Merged(j)
      BY <1>1, HomeIs
    <3>2. \A x \in Modules : ~InNone(x) => \E j \in Groups : x \in Members(j)
      BY <1>1, HomeIs
    <3>3. /\ \A j \in Groups : Merged(j) \notin Modules
          /\ \A i, j \in Groups : Merged(i) = Merged(j) => i = j
      BY <1>1, MembersAre
    <3>4. ~InNone(e[1]) /\ ~InNone(e[2])
      BY <1>7, <2>1, <2>2, <3>0, <3>1, <3>2, <3>3
    <3>5. PICK i \in Groups : e[1] \in Members(i)
      BY <2>1, <3>2, <3>4
    <3>6. PICK j \in Groups : e[2] \in Members(j)
      BY <2>1, <3>2, <3>4
    <3> QED
      BY <1>7, <2>1, <3>1, <3>3, <3>5, <3>6
  <2>4. Place(e[1]) = Position(e[1], bodies[k]) /\ Place(e[2]) = Position(e[2], bodies[k])
    BY <1>1, <2>1, <2>3, HomeIs
  <2>5. OnceIn(bodies[k]) /\ After(e[1], e[2], bodies[k])
    BY <1>1, <1>7, <2>3 DEF BodiesInv
  <2>6. bodies[k] \in Seq(Modules)
    BY <1>1 DEF Typed, TypeOK, MergingOK, Groups
  <2>7. PICK i \in DOMAIN bodies[k] : bodies[k][i] = e[1]
    BY <2>3 DEF Members, Elems
  <2>8. PICK j \in 1..(i - 1) : bodies[k][j] = e[2]
    BY <2>5, <2>7 DEF After
  <2>9. j \in DOMAIN bodies[k] /\ j < i
    BY <2>6, <2>7, <2>8
  <2>10. Position(e[1], bodies[k]) = i /\ Position(e[2], bodies[k]) = j
    BY <2>5, <2>7, <2>8, <2>9, PositionIs
  <2> QED
    BY <2>4, <2>9, <2>10
<1> QED
  BY <1>2, <1>4, <1>6, <1>7 DEF StagedRuns, AllNames, Named

\* Whatever graph a provider has, what is staged of it works, and it is refused only
\* if its imports form a cycle, a module requires itself, or the eager reads of
\* the members of a group have no order.
THEOREM VerdictsAreRight == Spec => []VerdictIsRight
<1>1. Init => Judged
  <2> SUFFICES ASSUME Init PROVE Judged
    OBVIOUS
  <2>1. phase = "classify"
    BY DEF Init
  <2> QED
    BY <2>1, MergingInit DEF Judged, MergedInv, RefusedInv
<1>2. Judged /\ [Next]_vars => Judged'
  <2> SUFFICES ASSUME Judged, [Next]_vars PROVE Judged'
    OBVIOUS
  <2>1. Merging'
    BY MergingStep DEF Judged
  <2>2. MergedInv'
    BY <2>1, MergedStep DEF Judged
  <2> QED
    BY <2>1, <2>2, RefusedStep DEF Judged
<1>3. Judged => VerdictIsRight
  BY DoneRuns DEF Judged, RefusedInv, VerdictIsRight
<1> QED
  BY <1>1, <1>2, <1>3, PTL DEF Spec

-----------------------------------------------------------------------------
\* The build goes on: whatever is left to classify, to list, to number, to look at
\* or to emit, there is a next one, and a root finds its module on the stack.  So
\* the throw at the end of mergeBodyOrder, for a group of which it "ordered only"
\* some members, is out of reach: what is decided always leaves a ready body.
GoesOn ==
  /\ phase = "classify" /\ Unclassified # {} =>
       \E e \in Unclassified : \A f \in Unclassified : Sooner(e[1], f[1])
  /\ phase = "plan" /\ Unplanned # {} => \E x \in Unplanned : \A y \in Unplanned : Sooner(x, y)
  /\ phase = "groups" /\ Fresh # {} => \E x \in Fresh : \A y \in Fresh : Sooner(x, y)
  /\ phase = "groups" /\ work # <<>> => Top(work).node \in Elems(st)
  /\ phase \in {"eager", "prefer"} /\ pairs # {} => \E p \in pairs : IsNext(p)
  /\ phase = "prefer" /\ pairs = {} /\ Elems(emitted) # Current =>
       \E x \in Ready : \A y \in Ready : Sooner(x, y)

LEMMA PositionsAre ==
  ASSUME NEW x \in Elems(names)
  PROVE  Position(x, names) \in DOMAIN names /\ names[Position(x, names)] = x
BY DEF Position, Elems

LEMMA HasSoonest ==
  ASSUME names \in Seq(Nat), NEW S, S \subseteq Elems(names), S # {}
  PROVE  \E x \in S : \A y \in S : Sooner(x, y)
<1> DEFINE P == {Position(x, names) : x \in S}
<1>1. DOMAIN names \subseteq Nat
  OBVIOUS
<1>2. P \in SUBSET Nat /\ P # {}
  BY <1>1, PositionsAre
<1>3. PICK n \in P : \A m \in P : n <= m
  <2> HIDE DEF P
  <2> QED
    BY <1>2, HasSmallest
<1>4. PICK x \in S : Position(x, names) = n
  OBVIOUS
<1>5. \A y \in S : Sooner(x, y)
  BY <1>3, <1>4 DEF Sooner
<1> QED
  BY <1>5

LEMMA HasNext ==
  ASSUME names \in Seq(Nat), pairs \in Edges, Modules \subseteq Elems(names), pairs # {}
  PROVE  \E p \in pairs : IsNext(p)
<1>1. pairs \subseteq Modules \X Modules
  BY DEF Edges
<1> DEFINE S == {p[1] : p \in pairs}
<1>2. S \subseteq Elems(names) /\ S # {}
  BY <1>1
<1>3. PICK x \in S : \A y \in S : Sooner(x, y)
  <2> HIDE DEF S
  <2> QED
    BY <1>2, HasSoonest
<1> DEFINE T == {p[2] : p \in {q \in pairs : q[1] = x}}
<1>4. T \subseteq Elems(names) /\ T # {}
  BY <1>1
<1>5. PICK z \in T : \A y \in T : Sooner(z, y)
  <2> HIDE DEF T
  <2> QED
    BY <1>4, HasSoonest
<1>6. PICK p \in pairs : p[1] = x /\ p[2] = z
  OBVIOUS
<1>7. \A q \in pairs : Sooner(p[1], q[1])
  BY <1>3, <1>6
<1>8. \A q \in pairs : p[1] = q[1] => Sooner(p[2], q[2])
  BY <1>5, <1>6
<1> QED
  BY <1>7, <1>8 DEF IsNext

\* Among finitely many modules of which each has one before it, two are before
\* one another.
LEMMA AcyclicStarts ==
  ASSUME NEW G \in SUBSET (Modules \X Modules), Acyclic(G), NEW S \in SUBSET Modules, S # {}
  PROVE  \E x \in S : \A e \in G : e[2] = x => e[1] \notin S
<1> DEFINE A(x) == {y \in Modules : Reaches(G, y, x)}
           P == {Cardinality(A(x)) : x \in S}
<1>1. IsFiniteSet(Modules)
  BY FS_Interval, BundleGraphAssumption
<1>2. \A x : IsFiniteSet(A(x)) /\ Cardinality(A(x)) \in Nat
  <2> SUFFICES ASSUME NEW x PROVE IsFiniteSet(A(x)) /\ Cardinality(A(x)) \in Nat
    OBVIOUS
  <2>1. A(x) \subseteq Modules
    OBVIOUS
  <2> HIDE DEF A
  <2> QED
    BY <1>1, <2>1, FS_Subset, FS_CardinalityType
<1>3. PICK n \in P : \A m \in P : n <= m
  <2>1. P \in SUBSET Nat /\ P # {}
    BY <1>2
  <2> HIDE DEF P
  <2> QED
    BY <2>1, HasSmallest
<1>4. PICK x \in S : Cardinality(A(x)) = n
  OBVIOUS
<1>5. ASSUME NEW e \in G, e[2] = x, e[1] \in S PROVE FALSE
  <2>1. e[1] \in Modules /\ e[2] \in Modules /\ e = <<e[1], e[2]>>
    OBVIOUS
  <2>2. Reaches(G, e[1], x) /\ ~Reaches(G, x, e[1])
    BY <1>5, <2>1, ReachesItself, ReachesOn DEF Acyclic
  <2>3. A(e[1]) \subseteq A(x) /\ x \in A(x) /\ x \notin A(e[1])
    BY <2>2, ReachesTransitive, ReachesItself
  <2>4. Cardinality(A(x)) <= Cardinality(A(e[1]))
    BY <1>3, <1>4, <1>5
  <2> HIDE DEF A
  <2>5. Cardinality(A(e[1])) # Cardinality(A(x)) /\ Cardinality(A(e[1])) <= Cardinality(A(x))
    BY <1>2, <2>3, FS_Subset
  <2> QED
    BY <1>2, <2>4, <2>5
<1> QED
  BY <1>5

\* What is decided of a group has an order.
DecidedInv == phase \in {"eager", "prefer"} => Acyclic(before)

LEMMA DecidedStep == Merging /\ DecidedInv /\ [Next]_vars => DecidedInv'
<1> SUFFICES ASSUME Merging, DecidedInv, [Next]_vars, phase' \in {"eager", "prefer"}
             PROVE  Acyclic(before')
  BY DEF DecidedInv
<1>1. Typed /\ NamedInv
  BY DEF Merging, Provided, Based, Ordered
<1>2. before \in SUBSET (Modules \X Modules) /\ pairs \in SUBSET (Modules \X Modules)
  BY <1>1 DEF Typed, TypeOK, MergingOK, Edges
<1>3. CASE EagerPair \/ PreferPair
  <2>1. PICK p \in pairs :
          \/ before' = before
          \/ before' = before \cup {<<p[2], p[1]>>} /\ ~Reaches(before, p[1], p[2])
    BY <1>3 DEF EagerPair, PreferPair
  <2>2. phase \in {"eager", "prefer"}
    BY <1>3 DEF EagerPair, PreferPair
  <2>3. Acyclic(before)
    BY <2>2 DEF DecidedInv
  <2>4. CASE before' = before
    BY <2>3, <2>4
  <2>5. CASE before' = before \cup {<<p[2], p[1]>>} /\ ~Reaches(before, p[1], p[2])
    <3>1. p[1] \in Modules /\ p[2] \in Modules
      BY <1>2
    <3>2. ASSUME NEW e \in before PROVE ~Reaches(before', e[2], e[1])
      <4>1. e[1] \in Modules /\ e[2] \in Modules /\ <<e[1], e[2]>> \in before
        BY <1>2
      <4>2. ~Reaches(before, e[2], e[1])
        BY <2>3 DEF Acyclic
      <4> QED
        BY <1>2, <2>5, <3>1, <4>1, <4>2, SafeEdgeClosesNothing
    <3>3. ~Reaches(before', p[1], p[2])
      BY <1>2, <2>5, <3>1, SafeEdgeIsSafe
    <3> QED
      BY <2>5, <3>2, <3>3 DEF Acyclic
  <2> QED
    BY <2>1, <2>4, <2>5
<1>4. CASE MergeGroups
  <2>1. before' = before /\ phase = "groups"
    BY <1>4 DEF MergeGroups, GroupsFound
  <2>2. before = {}
    BY <1>1, <2>1 DEF NamedInv
  <2> QED
    BY <2>1, <2>2 DEF Acyclic
<1>5. CASE GroupOrdered
  BY <1>5 DEF GroupOrdered, Acyclic
<1>6. CASE EagerDone \/ EmitBody
  <2>1. before' = before /\ phase \in {"eager", "prefer"}
    BY <1>6 DEF EagerDone, EmitBody
  <2> QED
    BY <2>1 DEF DecidedInv
<1>7. CASE Finished \/ UNCHANGED vars
  <2>1. before' = before /\ phase' = phase
    BY <1>7 DEF Finished, vars, merging
  <2> QED
    BY <2>1 DEF DecidedInv
<1>8. CASE Classify \/ FindAll \/ Plan \/ Staged \/ ApplyMerge
  <2>1. phase' \notin {"eager", "prefer"}
    BY <1>8 DEF Classify, TestRequire, Search, LeaveRequire, MakeImport, Rewrite, FindAll, FindGroups,
                GroupRoot, GroupEdge, GroupLeave, Plan, PlanRoot, PlanDep, PlanCycle, PlanEmit,
                Planning, Staged, ApplyMerge
  <2> QED
    BY <2>1
<1> QED
  BY <1>3, <1>4, <1>5, <1>6, <1>7, <1>8 DEF Next, Merge

LEMMA BodiesGoOn ==
  ASSUME Merging, DecidedInv, phase = "prefer", Elems(emitted) # Current
  PROVE  Ready # {} /\ Ready \subseteq Modules
<1>1. /\ CurrentInv /\ before \in SUBSET (Modules \X Modules) /\ Acyclic(before)
  <2>1. Typed /\ CurrentInv
    BY InMerge
  <2> QED
    BY <2>1 DEF Typed, TypeOK, MergingOK, Edges, DecidedInv
<1> DEFINE S == Current \ Elems(emitted)
<1>2. S # {} /\ S \in SUBSET Modules
  BY <1>1 DEF CurrentInv, Current, Group
<1>3. PICK x \in S : \A e \in before : e[2] = x => e[1] \notin S
  <2> HIDE DEF S
  <2> QED
    BY <1>1, <1>2, AcyclicStarts
<1>4. \A e \in before : e[1] \in Current
  BY <1>1 DEF CurrentInv
<1>5. x \in Ready
  BY <1>3, <1>4 DEF Ready
<1> QED
  BY <1>5 DEF Ready, Current, Group

\* The build is never stuck, for any graph: every loop that takes the next of what is
\* left finds one, and mergeBodyOrder orders every body of every group.
THEOREM NeverStuck == Spec => []GoesOn
<1>1. Init => Merging /\ DecidedInv
  BY MergingInit DEF Init, DecidedInv
<1>2. (Merging /\ DecidedInv) /\ [Next]_vars => (Merging /\ DecidedInv)'
  BY MergingStep, DecidedStep
<1>3. Merging /\ DecidedInv => GoesOn
  <2> SUFFICES ASSUME Merging, DecidedInv PROVE GoesOn
    OBVIOUS
  <2>1. /\ Typed /\ NamesInv /\ NamedInv /\ TarjanInv /\ names \in Seq(Nat)
        /\ Modules \subseteq Elems(names)
    BY DEF Merging, Provided, Based, Ordered, Grouped, NamesInv, Typed, TypeOK, DocOK
  <2>2. ASSUME phase = "classify", Unclassified # {}
        PROVE  \E e \in Unclassified : \A f \in Unclassified : Sooner(e[1], f[1])
    <3> DEFINE S == {e[1] : e \in Unclassified}
    <3>1. Unclassified \subseteq Modules \X Modules
      BY <2>1, <2>2 DEF Unclassified, Typed, EdgesInv, PreMerge, Edges
    <3>2. S \subseteq Elems(names) /\ S # {}
      BY <2>1, <2>2, <3>1
    <3>3. PICK x \in S : \A y \in S : Sooner(x, y)
      <4> HIDE DEF S
      <4> QED
        BY <2>1, <3>2, HasSoonest
    <3> QED
      BY <3>3
  <2>3. ASSUME phase = "plan", Unplanned # {}
        PROVE  \E x \in Unplanned : \A y \in Unplanned : Sooner(x, y)
    <3>1. Unplanned \subseteq Elems(names)
      BY DEF Unplanned
    <3> QED
      BY <2>1, <2>3, <3>1, HasSoonest
  <2>4. ASSUME Fresh # {} PROVE \E x \in Fresh : \A y \in Fresh : Sooner(x, y)
    <3>1. Fresh \subseteq Elems(names)
      BY <2>1 DEF Fresh
    <3> QED
      BY <2>1, <2>4, <3>1, HasSoonest
  <2>5. ASSUME phase = "groups", work # <<>> PROVE Top(work).node \in Elems(st)
    <3>1. StackInv
      BY <2>1, <2>5 DEF TarjanInv, Components
    <3>2. Len(work) \in DOMAIN work
      BY <2>1, <2>5 DEF Typed, TypeOK, TarjanOK
    <3> QED
      BY <3>1, <3>2 DEF StackInv, Stacked, Top
  <2>6. ASSUME pairs # {} PROVE \E p \in pairs : IsNext(p)
    <3>1. pairs \in Edges
      BY <2>1 DEF Typed, TypeOK, MergingOK
    <3> QED
      BY <2>1, <2>6, <3>1, HasNext
  <2>7. ASSUME phase = "prefer", Elems(emitted) # Current
        PROVE  \E x \in Ready : \A y \in Ready : Sooner(x, y)
    BY <2>1, <2>7, BodiesGoOn, HasSoonest
  <2> QED
    BY <2>2, <2>3, <2>4, <2>5, <2>6, <2>7 DEF GoesOn
<1> QED
  BY <1>1, <1>2, <1>3, PTL DEF Spec
=============================================================================
