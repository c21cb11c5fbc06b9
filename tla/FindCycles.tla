----------------------------- MODULE FindCycles -----------------------------
(***************************************************************************)
(* How a C29 search finds cycles in its bipartite graph (src/c29.cpp): the *)
(* GPU drops edges that end in a node of degree one, on one side and then  *)
(* on the other, for some rounds; find_cycles reads what is left, in the   *)
(* order in which work groups have written it, into a graph of directed    *)
(* edges in which each node has at most one edge out.                      *)
(*                                                                         *)
(* No bucket of the trimmer overflows.  The numbers of the nodes of the    *)
(* two sides are from one range, and may be equal; two nonces may give the *)
(* same edge, so an edge has a copy number.                                *)
(***************************************************************************)
EXTENDS Integers, Sequences, FiniteSets

CONSTANTS
    UNodes, VNodes,    \* the numbers of nodes, without 0
    Target,            \* target_cycle_length
    Rounds,            \* rounds of trimming
    MaxEdges,          \* bound of the edges of a graph
    MaxTwice,          \* bound of the edges that two nonces give
    MaxPath            \* max_path_length

ASSUME FindCyclesAssumption ==
    /\ UNodes \subseteq Nat \ {0} /\ VNodes \subseteq Nat \ {0}
    /\ IsFiniteSet(UNodes) /\ IsFiniteSet(VNodes)
    /\ Target \in {n \in Nat : n % 2 = 0 /\ n >= 4}
    /\ Rounds \in Nat /\ MaxPath \in Nat \ {0}
    /\ {MaxEdges, MaxTwice} \subseteq Nat

VARIABLES
    edges,        \* the edges of the graph
    round,        \* rounds of trimming that are done
    left,         \* trimmed_edges that are not read, with their copy numbers
    graph,        \* graph_u and graph_v; 0 where there is no edge
    solutions     \* the cycles that were found

vars == <<edges, round, left, graph, solutions>>

Edge      == UNodes \X VNodes
Nodes     == UNodes \cup VNodes
Other(s)  == IF s = "u" THEN "v" ELSE "u"
Smallest(S) == CHOOSE n \in S : \A m \in S : n <= m

----------------------------------------------------------------------------
(* Trimming.                                                               *)

\* The node of an edge on a side.
End(e, s) == IF s = "u" THEN e[1] ELSE e[2]

TrimRound_OffByOne(E, s) ==
    {e \in E : \E f, g \in E \ {e} : f # g /\ End(f, s) = End(e, s) /\ End(g, s) = End(e, s)}

\* One round: the edges whose node on one side has a second edge.
TrimRound(E, s) == {e \in E : \E f \in E \ {e} : End(f, s) = End(e, s)}

----------------------------------------------------------------------------
(* Paths.                                                                  *)

\* The side of the k-th node of a path that starts on side s.
SideAt(s, k) == IF k % 2 = 1 THEN s ELSE Other(s)

\* create_path
CreatePath(g, s, node) ==
    LET p[n \in 1 .. MaxPath] ==
          IF n = 1 THEN <<node>>
          ELSE LET q  == p[n - 1]
                   to == g[SideAt(s, Len(q))][q[Len(q)]]
               IN  IF to = 0 THEN q ELSE Append(q, to)
    IN  p[MaxPath]

\* reverse_path, from the end of the path to its start.
ReversePath_NotLast(g, s, path) ==
    LET r[k \in 1 .. Len(path)] ==
          IF k >= Len(path) - 1 THEN g
          ELSE [r[k + 1] EXCEPT ![SideAt(s, k)][path[k]] = 0,
                                ![Other(SideAt(s, k))][path[k + 1]] = path[k]]
    IN  r[1]

ReversePath(g, s, path) ==
    LET r[k \in 1 .. Len(path)] ==
          IF k = Len(path) THEN g
          ELSE [r[k + 1] EXCEPT ![SideAt(s, k)][path[k]] = 0,
                                ![Other(SideAt(s, k))][path[k + 1]] = path[k]]
    IN  r[1]

PathEdges_NotLast(s, path, n) ==
    {IF SideAt(s, k) = "u" THEN <<path[k], path[k + 1]>> ELSE <<path[k + 1], path[k]>> : k \in 1 .. n - 1}

\* The edges of the first n steps of a path.
PathEdges(s, path, n) ==
    {IF SideAt(s, k) = "u" THEN <<path[k], path[k + 1]>> ELSE <<path[k + 1], path[k]>> : k \in 1 .. n}

----------------------------------------------------------------------------
(* The steps.                                                              *)

Init ==
    /\ edges \in {E \in SUBSET Edge : Cardinality(E) <= MaxEdges}
    /\ \E twice \in {E \in SUBSET edges : Cardinality(E) <= MaxTwice} :
          left = {<<e[1], e[2], 1>> : e \in edges} \cup {<<e[1], e[2], 2>> : e \in twice}
    /\ round = 0 /\ solutions = {}
    /\ graph = [s \in {"u", "v"} |-> [n \in Nodes |-> 0]]

Trim ==
    /\ round < Rounds
    /\ round' = round + 1
    /\ left' = TrimRound(left, IF round % 2 = 0 THEN "u" ELSE "v")
    /\ UNCHANGED <<edges, graph, solutions>>

\* find_cycles for its next edge: where the paths from its ends meet it closes a
\* cycle.  One of the right length is a solution; otherwise the edge is added,
\* and the shorter path reversed to make room for it.
ReadEdge(e) ==
    LET u  == CreatePath(graph, "u", e[1])
        v  == CreatePath(graph, "v", e[2])
        JoinA == {i \in DOMAIN u : \E j \in DOMAIN v : v[j] = u[i]}
        a  == Smallest(JoinA)
        b  == Smallest({j \in DOMAIN v : v[j] = u[a]})
        Closes == JoinA # {} /\ a + b - 1 = Target
        IsKnown == graph["u"][e[1]] = e[2] \/ graph["v"][e[2]] = e[1]
    IN  /\ round = Rounds /\ e \in left
        /\ left' = left \ {e}
        /\ \/ /\ IsKnown
              /\ UNCHANGED <<graph, solutions>>
           \/ /\ ~ IsKnown /\ Closes
              /\ solutions' = solutions \cup
                   {{<<e[1], e[2]>>} \cup PathEdges("u", u, a - 1) \cup PathEdges("v", v, b - 1)}
              /\ UNCHANGED graph
           \/ /\ ~ IsKnown /\ ~ Closes
              /\ graph' = IF Len(u) > Len(v)
                          THEN [ReversePath(graph, "v", v) EXCEPT !["v"][e[2]] = e[1]]
                          ELSE [ReversePath(graph, "u", u) EXCEPT !["u"][e[1]] = e[2]]
              /\ UNCHANGED solutions
    /\ UNCHANGED <<edges, round>>

Next == Trim \/ \E e \in left : ReadEdge(e)

Spec == Init /\ [][Next]_vars

----------------------------------------------------------------------------
(* Properties.                                                             *)

\* The reference: each node of a cycle has two edges of it, and no part of it is
\* a cycle.
Degree(S, i, n) == Cardinality({e \in S : e[i] = n})
TwoAtEachNode(S) == S # {} /\ \A e \in S : Degree(S, 1, e[1]) = 2 /\ Degree(S, 2, e[2]) = 2
IsCycle(S) == TwoAtEachNode(S) /\ \A T \in SUBSET S : TwoAtEachNode(T) => T = S

\* What is found is a cycle of the graph, of the length that is asked for
\* (c29.cpp:164-206), and nothing else.
FoundAreCycles == \A S \in solutions : S \subseteq edges /\ Cardinality(S) = Target /\ IsCycle(S)

\* find_cycles "returns all valid" cycles (c29.cpp:130): the only cycle of a graph
\* is found, in whatever order its edges come, if it has the right length and no
\* number names nodes of both sides.
OnlyCycleIsFound ==
    LET cycles == {S \in SUBSET edges : IsCycle(S)}
    IN  /\ round = Rounds /\ left = {}
        /\ {e[1] : e \in edges} \cap {e[2] : e \in edges} = {}
        /\ Cardinality(cycles) = 1 /\ \A S \in cycles : Cardinality(S) = Target
        => solutions = cycles
=============================================================================
