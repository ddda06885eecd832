--------------------------- MODULE MCBundleGraph ---------------------------
(* Every graph of four modules with at most MaxEdges edges: two groups of two, *)
(* one of three or four, and what hangs between them.                          *)
EXTENDS BundleGraph

CONSTANT MaxEdges  \* imports and requires together, at most 4 (a bound for TLC)

Imports  == {<<"import", x, y>> : x, y \in Modules} \ {<<"import", x, x>> : x \in Modules}
Requires == {<<"require", x, y>> : x, y \in Modules}
All      == Imports \cup Requires
EdgeSets == {E \in {{a, b, c, d} : a, b, c, d \in All} : Cardinality(E) <= MaxEdges} \cup {{}}

Pairs(E, kind) == {<<e[2], e[3]>> : e \in {f \in E : f[1] = kind}}

SmallGraphs == {[imports |-> Pairs(E, "import"), requires |-> Pairs(E, "require")] :
                  E \in EdgeSets}
=============================================================================
