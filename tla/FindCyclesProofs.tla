-------------------------- MODULE FindCyclesProofs --------------------------
(***************************************************************************)
(* Proofs about FindCycles, for any nodes, graph and rounds of trimming.   *)
(* What is found is a cycle (FoundHolds), and a graph's only cycle is      *)
(* found (CycleIsFound).                                                   *)
(*                                                                         *)
(* A path and its reversal are recursive functions; what is proved of them *)
(* by induction is said of a set of numbers that has 0 and the successor   *)
(* of each of its elements (Steps).                                        *)
(***************************************************************************)
EXTENDS FindCycles, FiniteSetTheorems, TLAPS

----------------------------------------------------------------------------
(* Induction over sets of numbers.                                         *)

\* A set of numbers has a least element: so has the set of the intervals from 0 to
\* its elements, which are finite sets.
LEMMA Least ==
    ASSUME NEW S \in SUBSET Nat, S # {}
    PROVE  \E m \in S : \A k \in S : m <= k
<1> DEFINE T == {0 .. m : m \in S}
<1>1. T \subseteq FiniteSubsetsOf(Nat) /\ T # {}
  <2>1. \A m \in S : IsFiniteSet(0 .. m)
    BY FS_Interval
  <2> QED
    <3> SUFFICES ASSUME NEW m \in S PROVE 0 .. m \in FiniteSubsetsOf(Nat)
      OBVIOUS
    <3>1. 0 .. m \in SUBSET Nat /\ IsFiniteSet(0 .. m)
      BY <2>1
    <3> QED
      BY <3>1 DEF FiniteSubsetsOf
<1>2. PICK X \in T : \A Y \in T : ~ (<<Y, X>> \in StrictSubsetOrdering(Nat))
  <2> HIDE DEF T
  <2> QED
    BY <1>1, FS_StrictSubsetOrderingWellFounded, WFMin
<1>3. PICK m \in S : X = 0 .. m
  OBVIOUS
<1>4. ASSUME NEW k \in S, k < m PROVE FALSE
  <2>1. 0 .. k \subseteq 0 .. m /\ m \in 0 .. m /\ m \notin 0 .. k
    BY <1>4
  <2>2. <<0 .. k, X>> \in StrictSubsetOrdering(Nat)
    BY <2>1, <1>3 DEF StrictSubsetOrdering
  <2> QED
    BY <2>2, <1>2
<1> QED
  BY <1>4

\* Induction, for a property that is given as a set.
LEMMA Steps ==
    ASSUME NEW S, 0 \in S, \A n \in Nat : n \in S => n + 1 \in S
    PROVE  \A n \in Nat : n \in S
<1> SUFFICES ASSUME NEW n \in Nat, n \notin S PROVE FALSE
  OBVIOUS
<1>1. PICK m \in Nat \ S : \A k \in Nat \ S : m <= k
  BY Least
<1>2. m - 1 \in Nat
  BY <1>1
<1>3. m - 1 \in S
  BY <1>1, <1>2
<1>4. (m - 1) + 1 = m
  BY <1>1
<1> QED
  BY <1>1, <1>2, <1>3, <1>4

----------------------------------------------------------------------------
(* create_path as a function.                                              *)

\* A path with the node that its last one leads to, if there is one.
Longer(g, s, q) ==
    LET to == g[SideAt(s, Len(q))][q[Len(q)]]
    IN  IF to = 0 THEN q ELSE Append(q, to)

\* p has the paths of up to m nodes, as the recursion in CreatePath defines them.
IsPathFcn(p, g, s, node, m) ==
   p = [n \in 1 .. m |-> IF n = 1 THEN <<node>> ELSE Longer(g, s, p[n - 1])]

\* The recursive function of CreatePath is one of these.
LEMMA PathFcn ==
    ASSUME NEW g, NEW s, NEW node
    PROVE  CreatePath(g, s, node) = (CHOOSE p : IsPathFcn(p, g, s, node, MaxPath))[MaxPath]
  BY DEF CreatePath, IsPathFcn, Longer

\* There is such a function for any length: the recursion defines something.
LEMMA PathExists ==
    ASSUME NEW g, NEW s, NEW node
    PROVE  \A m \in Nat : \E p : IsPathFcn(p, g, s, node, m)
<1> DEFINE S == {m \in Nat : \E p : IsPathFcn(p, g, s, node, m)}
<1>1. 0 \in S
  <2> DEFINE p == [n \in 1 .. 0 |-> 0]
  <2>1. IsPathFcn(p, g, s, node, 0)
    BY DEF IsPathFcn
  <2> QED
    BY <2>1
<1>2. ASSUME NEW m \in Nat, m \in S PROVE m + 1 \in S
  <2>1. PICK p : IsPathFcn(p, g, s, node, m)
    BY <1>2
  <2> DEFINE q == [n \in 1 .. m + 1 |-> IF n = 1 THEN <<node>> ELSE Longer(g, s, p[n - 1])]
  <2>2. \A n \in 1 .. m : q[n] = p[n]
    BY <2>1 DEF IsPathFcn
  <2>3. ASSUME NEW n \in 1 .. m + 1, n # 1 PROVE Longer(g, s, p[n - 1]) = Longer(g, s, q[n - 1])
    <3>1. n - 1 \in 1 .. m
      BY <2>3
    <3>2. p[n - 1] = q[n - 1]
      BY <2>2, <3>1
    <3> QED
      BY <3>2
  <2>4. q = [n \in 1 .. m + 1 |-> IF n = 1 THEN <<node>> ELSE Longer(g, s, q[n - 1])]
    BY <2>3
  <2> HIDE DEF q
  <2>5. IsPathFcn(q, g, s, node, m + 1)
    BY <2>4 DEF IsPathFcn
  <2> QED
    BY <2>5
<1> HIDE DEF S
<1>3. \A n \in Nat : n \in S
  BY <1>1, <1>2, Steps
<1> QED
  BY <1>3 DEF S

----------------------------------------------------------------------------
(* Paths.                                                                  *)

\* The sides of the graph.
Sides == {"u", "v"}

\* A graph with edges from E only.
GraphOK(g, E) ==
    /\ g \in [Sides -> [Nodes -> Nodes \cup {0}]]
    /\ \A n \in Nodes : /\ g["u"][n] # 0 => <<n, g["u"][n]>> \in E
                        /\ g["v"][n] # 0 => <<g["v"][n], n>> \in E

\* A sequence of nodes in which each is the one that the edge of the last leads to.
IsPath(P, g, s) ==
    /\ P \in Seq(Nodes) /\ P # <<>>
    /\ \A k \in 1 .. Len(P) - 1 : P[k + 1] = g[SideAt(s, k)][P[k]] /\ P[k + 1] # 0

\* Places of a path are on sides, and change sides from one to the next.
LEMMA SideType == \A s \in Sides, k \in Nat : SideAt(s, k) \in Sides /\ Other(s) \in Sides
  BY DEF SideAt, Other, Sides

LEMMA SideNext ==
    ASSUME NEW s \in Sides, NEW k \in Nat
    PROVE  SideAt(s, k + 1) = Other(SideAt(s, k))
<1>1. (k % 2 = 1) <=> ((k + 1) % 2 = 0)
  OBVIOUS
<1>2. k % 2 \in {0, 1} /\ (k + 1) % 2 \in {0, 1}
  OBVIOUS
<1> QED
  BY <1>1, <1>2 DEF SideAt, Other, Sides

\* One step of create_path keeps a path a path, with its start.
LEMMA LongerIsPath ==
    ASSUME NEW E, NEW g, GraphOK(g, E), NEW s \in Sides, NEW q, IsPath(q, g, s)
    PROVE  IsPath(Longer(g, s, q), g, s) /\ Longer(g, s, q)[1] = q[1]
<1>1. PICK to : to = g[SideAt(s, Len(q))][q[Len(q)]]
  OBVIOUS
<1>2. q \in Seq(Nodes) /\ Len(q) \in Nat \ {0} /\ q[Len(q)] \in Nodes
  BY DEF IsPath
<1>3. to \in Nodes \cup {0}
  BY <1>1, <1>2, SideType DEF GraphOK
<1>4. CASE to = 0
  BY <1>1, <1>4 DEF Longer
<1>5. CASE to # 0
  <2>1. PICK P : P = Append(q, to)
    OBVIOUS
  <2>2. Longer(g, s, q) = P
    BY <1>1, <1>5, <2>1 DEF Longer
  <2>3. P \in Seq(Nodes) /\ P # <<>> /\ Len(P) = Len(q) + 1 /\ P[Len(q) + 1] = to
        /\ \A k \in 1 .. Len(q) : P[k] = q[k]
    BY <1>2, <1>3, <1>5, <2>1
  <2>4. ASSUME NEW k \in 1 .. Len(P) - 1
        PROVE  P[k + 1] = g[SideAt(s, k)][P[k]] /\ P[k + 1] # 0
    <3>1. CASE k = Len(q)
      BY <3>1, <2>3, <1>1, <1>2, <1>5
    <3>2. CASE k # Len(q)
      <4>1. k \in 1 .. Len(q) - 1 /\ k + 1 \in 1 .. Len(q)
        BY <3>2, <2>3, <1>2
      <4> QED
        BY <4>1, <2>3 DEF IsPath
    <3> QED
      BY <3>1, <3>2
  <2>5. P[1] = q[1]
    BY <2>3, <1>2
  <2> QED
    BY <2>2, <2>3, <2>4, <2>5 DEF IsPath
<1> QED
  BY <1>4, <1>5

\* create_path gives a path from the node.
LEMMA CreatePathIsPath ==
    ASSUME NEW E, NEW g, GraphOK(g, E), NEW s \in Sides, NEW node \in Nodes
    PROVE  IsPath(CreatePath(g, s, node), g, s) /\ CreatePath(g, s, node)[1] = node
<1>1. MaxPath \in Nat \ {0}
  BY FindCyclesAssumption
<1>2. PICK p : p = CHOOSE f : IsPathFcn(f, g, s, node, MaxPath)
  OBVIOUS
<1>3. IsPathFcn(p, g, s, node, MaxPath)
  BY <1>1, <1>2, PathExists
<1> DEFINE S == {n \in Nat : n + 1 \in 1 .. MaxPath => IsPath(p[n + 1], g, s) /\ p[n + 1][1] = node}
<1>4. 0 \in S
  <2>1. p[1] = <<node>>
    BY <1>1, <1>3 DEF IsPathFcn
  <2>2. <<node>> \in Seq(Nodes) /\ <<node>> # <<>> /\ Len(<<node>>) = 1 /\ <<node>>[1] = node
    OBVIOUS
  <2>3. IsPath(<<node>>, g, s)
    BY <2>2 DEF IsPath
  <2> QED
    BY <2>1, <2>2, <2>3
<1>5. ASSUME NEW n \in Nat, n \in S PROVE n + 1 \in S
  <2> SUFFICES ASSUME n + 2 \in 1 .. MaxPath PROVE IsPath(p[n + 2], g, s) /\ p[n + 2][1] = node
    OBVIOUS
  <2>1. n + 1 \in 1 .. MaxPath /\ n + 2 # 1 /\ (n + 2) - 1 = n + 1
    BY <1>1
  <2>2. IsPath(p[n + 1], g, s) /\ p[n + 1][1] = node
    BY <1>5, <2>1
  <2>3. p[n + 2] = Longer(g, s, p[n + 1])
    BY <2>1, <1>3 DEF IsPathFcn
  <2> QED
    BY <2>2, <2>3, LongerIsPath
<1> HIDE DEF S
<1>6. \A n \in Nat : n \in S
  BY <1>4, <1>5, Steps
<1>7. MaxPath - 1 \in Nat /\ (MaxPath - 1) + 1 = MaxPath
  BY <1>1
<1>8. IsPath(p[MaxPath], g, s) /\ p[MaxPath][1] = node
  BY <1>1, <1>6, <1>7 DEF S
<1> QED
  BY <1>2, <1>8, PathFcn

\* What follows a node on a side is always the same: a path that comes to a node
\* again goes round, and so does not get to a number that it has not met before.
LEMMA NoNodeAgain ==
    ASSUME NEW g, NEW s \in Sides, NEW P, IsPath(P, g, s), NEW a \in DOMAIN P,
           \A j \in DOMAIN P : j < a => P[j] # P[a],
           NEW i \in 1 .. a, NEW k \in 1 .. a, i # k, SideAt(s, i) = SideAt(s, k)
    PROVE  P[i] # P[k]
<1>1. Len(P) \in Nat /\ DOMAIN P = 1 .. Len(P)
  BY DEF IsPath
<1>2. ASSUME NEW x \in Nat, NEW y \in Nat, 0 < x, x < y, y <= a,
             SideAt(s, x) = SideAt(s, y), P[x] = P[y]
      PROVE  FALSE
  <2> DEFINE S == {m \in Nat : y + m <= Len(P) => P[x + m] = P[y + m] /\ SideAt(s, x + m) = SideAt(s, y + m)}
  <2>1. 0 \in S
    BY <1>2
  <2>2. ASSUME NEW m \in Nat, m \in S PROVE m + 1 \in S
    <3> SUFFICES ASSUME y + (m + 1) <= Len(P)
                 PROVE  P[x + (m + 1)] = P[y + (m + 1)] /\ SideAt(s, x + (m + 1)) = SideAt(s, y + (m + 1))
      OBVIOUS
    <3>1. P[x + m] = P[y + m] /\ SideAt(s, x + m) = SideAt(s, y + m)
      BY <1>1, <2>2
    <3>2. x + m \in 1 .. Len(P) - 1 /\ y + m \in 1 .. Len(P) - 1 /\ x + m \in Nat /\ y + m \in Nat
      BY <1>1, <1>2
    <3>3. P[(x + m) + 1] = P[(y + m) + 1]
      BY <3>1, <3>2 DEF IsPath
    <3>4. SideAt(s, (x + m) + 1) = SideAt(s, (y + m) + 1)
      BY <3>1, <3>2, SideNext
    <3>5. (x + m) + 1 = x + (m + 1) /\ (y + m) + 1 = y + (m + 1)
      OBVIOUS
    <3> QED
      BY <3>3, <3>4, <3>5
  <2> HIDE DEF S
  <2>3. \A m \in Nat : m \in S
    BY <2>1, <2>2, Steps
  <2>4. PICK m \in Nat : y + m = a
    <3>1. a - y \in Nat /\ y + (a - y) = a
      BY <1>1, <1>2
    <3> QED
      BY <3>1
  <2>5. P[x + m] = P[a]
    BY <2>3, <2>4, <1>1 DEF S
  <2>6. x + m \in DOMAIN P /\ x + m < a
    BY <2>4, <1>1, <1>2
  <2> QED
    BY <2>5, <2>6
<1>3. i \in Nat /\ k \in Nat /\ 0 < i /\ 0 < k /\ i <= a /\ k <= a
  BY <1>1
<1>4. CASE i < k
  BY <1>2, <1>3, <1>4
<1>5. CASE k < i
  BY <1>2, <1>3, <1>5
<1> QED
  BY <1>3, <1>4, <1>5

----------------------------------------------------------------------------
(* Reversing a path.                                                       *)

\* One step of reverse_path, and the graphs that its steps leave, from the last one.
Turned(h, s, path, k) ==
    [h EXCEPT ![SideAt(s, k)][path[k]] = 0, ![Other(SideAt(s, k))][path[k + 1]] = path[k]]

IsReverseFcn(r, g, s, path, from) ==
    r = [k \in from .. Len(path) |-> IF k = Len(path) THEN g ELSE Turned(r[k + 1], s, path, k)]

\* The recursive function of ReversePath is one of these, and exists.
LEMMA ReverseFcn ==
    ASSUME NEW g, NEW s, NEW path
    PROVE  ReversePath(g, s, path) = (CHOOSE r : IsReverseFcn(r, g, s, path, 1))[1]
  BY DEF ReversePath, IsReverseFcn, Turned

LEMMA ReverseExists ==
    ASSUME NEW g, NEW s, NEW path \in Seq(Nodes), path # <<>>
    PROVE  \E r : IsReverseFcn(r, g, s, path, 1)
<1>1. PICK len : len = Len(path) /\ len \in Nat \ {0}
  OBVIOUS
<1> DEFINE S == {m \in Nat : \E r : IsReverseFcn(r, g, s, path, len - m)}
<1>2. 0 \in S
  <2> DEFINE r == [k \in len .. len |-> g]
  <2>1. IsReverseFcn(r, g, s, path, len - 0)
    BY <1>1 DEF IsReverseFcn
  <2> QED
    BY <2>1
<1>3. ASSUME NEW m \in Nat, m \in S PROVE m + 1 \in S
  <2>1. PICK from : from = len - m /\ from \in Int
    <3>1. len - m \in Int
      BY <1>1
    <3> QED
      BY <3>1
  <2>2. PICK r : IsReverseFcn(r, g, s, path, from)
    BY <1>3, <2>1
  <2> DEFINE q == [k \in from - 1 .. len |-> IF k = len THEN g ELSE Turned(r[k + 1], s, path, k)]
  <2>3. \A k \in from .. len : q[k] = r[k]
    BY <1>1, <2>1, <2>2 DEF IsReverseFcn
  <2>4. ASSUME NEW k \in from - 1 .. len, k # len
        PROVE  Turned(r[k + 1], s, path, k) = Turned(q[k + 1], s, path, k)
    <3>1. k + 1 \in from .. len
      BY <1>1, <2>1, <2>4
    <3>2. r[k + 1] = q[k + 1]
      BY <2>3, <3>1
    <3> QED
      BY <3>2
  <2>5. q = [k \in from - 1 .. len |-> IF k = len THEN g ELSE Turned(q[k + 1], s, path, k)]
    BY <2>4
  <2> HIDE DEF q
  <2>6. IsReverseFcn(q, g, s, path, from - 1)
    BY <1>1, <2>5 DEF IsReverseFcn
  <2>7. from - 1 = len - (m + 1)
    BY <1>1, <2>1
  <2> QED
    BY <2>6, <2>7
<1> HIDE DEF S
<1>4. len - 1 \in S
  <2>1. \A n \in Nat : n \in S
    BY <1>2, <1>3, Steps
  <2>2. len - 1 \in Nat
    BY <1>1
  <2> QED
    BY <2>1, <2>2
<1>5. len - (len - 1) = 1
  BY <1>1
<1> QED
  BY <1>4, <1>5 DEF S

\* A graph stays one of edges when an edge is put into it.
LEMMA PutKeeps ==
    ASSUME NEW E, NEW g, GraphOK(g, E), NEW s \in Sides, NEW n \in Nodes, NEW m \in Nodes,
           (IF s = "u" THEN <<n, m>> ELSE <<m, n>>) \in E
    PROVE  GraphOK([g EXCEPT ![s][n] = m], E)
  BY DEF GraphOK, Sides

\* Nor is it spoilt when one is taken away.
LEMMA DropKeeps ==
    ASSUME NEW E, NEW g, GraphOK(g, E), NEW s \in Sides, NEW n \in Nodes
    PROVE  GraphOK([g EXCEPT ![s][n] = 0], E)
  BY DEF GraphOK, Sides

\* The steps of a path are edges.
LEMMA StepIsEdge ==
    ASSUME NEW E, NEW g, GraphOK(g, E), NEW s \in Sides, NEW P, IsPath(P, g, s), NEW k \in 1 .. Len(P) - 1
    PROVE  /\ P[k] \in Nodes /\ P[k + 1] \in Nodes /\ SideAt(s, k) \in Sides
           /\ (IF SideAt(s, k) = "u" THEN <<P[k], P[k + 1]>> ELSE <<P[k + 1], P[k]>>) \in E
<1>1. k \in Nat /\ k \in 1 .. Len(P) /\ k + 1 \in 1 .. Len(P) /\ Len(P) \in Nat /\ P \in Seq(Nodes)
  BY DEF IsPath
<1>2. P[k] \in Nodes /\ P[k + 1] \in Nodes /\ SideAt(s, k) \in Sides
  <2>1. P[k] \in Nodes /\ P[k + 1] \in Nodes
    BY <1>1
  <2>2. SideAt(s, k) \in Sides
    BY <1>1, SideType
  <2> QED
    BY <2>1, <2>2
<1>3. P[k + 1] = g[SideAt(s, k)][P[k]] /\ P[k + 1] # 0
  BY DEF IsPath
<1> QED
  BY <1>2, <1>3 DEF GraphOK, Sides

\* A step that is turned around is the same edge.
LEMMA TurnedKeeps ==
    ASSUME NEW E, NEW g, GraphOK(g, E), NEW s \in Sides, NEW P, IsPath(P, g, s), NEW k \in 1 .. Len(P) - 1,
           NEW h, GraphOK(h, E)
    PROVE  GraphOK(Turned(h, s, P, k), E)
<1>1. PICK t : t = SideAt(s, k)
  OBVIOUS
<1>2. /\ P[k] \in Nodes /\ P[k + 1] \in Nodes /\ t \in Sides
      /\ (IF t = "u" THEN <<P[k], P[k + 1]>> ELSE <<P[k + 1], P[k]>>) \in E
  BY <1>1, StepIsEdge
<1>3. PICK f : f = [h EXCEPT ![t][P[k]] = 0]
  OBVIOUS
<1>4. GraphOK(f, E)
  BY <1>2, <1>3, DropKeeps
<1>5. Other(t) \in Sides /\ (Other(t) = "u" <=> t # "u")
  BY <1>2 DEF Other, Sides
<1>6. GraphOK([f EXCEPT ![Other(t)][P[k + 1]] = P[k]], E)
  BY <1>2, <1>4, <1>5, PutKeeps
<1>7. Turned(h, s, P, k) = [f EXCEPT ![Other(t)][P[k + 1]] = P[k]]
  BY <1>1, <1>3 DEF Turned
<1> QED
  BY <1>6, <1>7

\* A graph stays one of edges when a path is reversed.
LEMMA ReverseKeeps ==
    ASSUME NEW E, NEW g, GraphOK(g, E), NEW s \in Sides, NEW P, IsPath(P, g, s)
    PROVE  GraphOK(ReversePath(g, s, P), E)
<1>1. PICK len : len = Len(P) /\ len \in Nat \ {0} /\ P \in Seq(Nodes) /\ P # <<>>
  BY DEF IsPath
<1>2. PICK r : r = CHOOSE f : IsReverseFcn(f, g, s, P, 1)
  OBVIOUS
<1>3. IsReverseFcn(r, g, s, P, 1)
  BY <1>1, <1>2, ReverseExists
<1> DEFINE S == {m \in Nat : len - m \in 1 .. len => GraphOK(r[len - m], E)}
<1>4. 0 \in S
  <2>1. r[len] = g
    BY <1>1, <1>3 DEF IsReverseFcn
  <2> QED
    BY <1>1, <2>1
<1>5. ASSUME NEW m \in Nat, m \in S PROVE m + 1 \in S
  <2> SUFFICES ASSUME len - (m + 1) \in 1 .. len PROVE GraphOK(r[len - (m + 1)], E)
    OBVIOUS
  <2>1. PICK k : k = len - (m + 1) /\ k \in 1 .. len - 1
    <3>1. len - (m + 1) \in 1 .. len - 1
      BY <1>1
    <3> QED
      BY <3>1
  <2>2. k + 1 = len - m /\ k + 1 \in 1 .. len /\ k \in 1 .. len /\ k # len
    BY <1>1, <2>1
  <2>3. GraphOK(r[k + 1], E)
    BY <1>5, <2>2
  <2>4. r[k] = Turned(r[k + 1], s, P, k)
    BY <1>1, <1>3, <2>2 DEF IsReverseFcn
  <2>5. GraphOK(r[k], E)
    BY <1>1, <2>1, <2>3, <2>4, TurnedKeeps
  <2> QED
    BY <2>1, <2>5
<1> HIDE DEF S
<1>6. len - 1 \in S
  <2>1. \A n \in Nat : n \in S
    BY <1>4, <1>5, Steps
  <2>2. len - 1 \in Nat
    BY <1>1
  <2> QED
    BY <2>1, <2>2
<1>7. len - (len - 1) = 1 /\ 1 \in 1 .. len
  BY <1>1
<1>8. GraphOK(r[1], E)
  BY <1>6, <1>7 DEF S
<1> QED
  BY <1>2, <1>8, ReverseFcn

----------------------------------------------------------------------------
(* Rings: nodes on the two sides in turn, from the last one to the first.  *)

\* The lengths of cycles in a graph with two sides.
Lengths == {n \in Nat : n % 2 = 0 /\ n >= 4}

After(n, k)   == IF k = n THEN 1 ELSE k + 1
Before(n, k)  == IF k = 1 THEN n ELSE k - 1
\* The edge from the k-th node to the next one.
RingEdge(n, w, k) == IF SideAt("u", k) = "u" THEN <<w[k], w[After(n, k)]>> ELSE <<w[After(n, k)], w[k]>>
Ring(n, w)    == {RingEdge(n, w, k) : k \in 1 .. n}

\* Before and After are inverse, and go from side to side.
LEMMA RingPlaces ==
    ASSUME NEW n \in Lengths, NEW k \in 1 .. n
    PROVE  /\ After(n, k) \in 1 .. n /\ Before(n, k) \in 1 .. n
           /\ After(n, Before(n, k)) = k /\ Before(n, After(n, k)) = k
           /\ After(n, k) # Before(n, k) /\ After(n, k) # k /\ Before(n, k) # k
           /\ SideAt("u", After(n, k)) = Other(SideAt("u", k))
           /\ SideAt("u", Before(n, k)) = Other(SideAt("u", k))
<1>1. n \in Nat /\ n >= 4 /\ n % 2 = 0
  BY DEF Lengths
<1>2. /\ After(n, k) \in 1 .. n /\ Before(n, k) \in 1 .. n
      /\ After(n, Before(n, k)) = k /\ Before(n, After(n, k)) = k
      /\ After(n, k) # Before(n, k) /\ After(n, k) # k /\ Before(n, k) # k
  BY <1>1 DEF After, Before
<1>3. /\ (After(n, k) % 2 = 1) <=> (k % 2 # 1)
      /\ (Before(n, k) % 2 = 1) <=> (k % 2 # 1)
  BY <1>1 DEF After, Before
<1> QED
  BY <1>2, <1>3 DEF SideAt, Other

\* Counted from the other end of an even number of places, a place is on the other side.
LEMMA Parity ==
    ASSUME NEW n \in Nat, n % 2 = 0, NEW k \in 1 .. n
    PROVE  ((n + 1 - k) % 2 = 1) <=> (k % 2 # 1)
<1>1. PICK m \in Nat : n = 2 * m
  <2>1. n \div 2 \in Nat /\ n = 2 * (n \div 2)
    OBVIOUS
  <2> QED
    BY <2>1
<1> QED
  BY <1>1

\* Two different elements are counted as two.
LEMMA TwoElements ==
    ASSUME NEW x, NEW y, x # y
    PROVE  Cardinality({x, y}) = 2
<1>1. IsFiniteSet({x}) /\ Cardinality({x}) = 1
  BY FS_Singleton
<1>2. {x, y} = {x} \cup {y}
  OBVIOUS
<1> QED
  BY <1>1, <1>2, FS_AddElement

\* A ring without repeated nodes is a cycle.
LEMMA RingIsCycle ==
    ASSUME NEW n \in Lengths, NEW w,
           \A i, k \in 1 .. n : i # k /\ SideAt("u", i) = SideAt("u", k) => w[i] # w[k]
    PROVE  Cardinality(Ring(n, w)) = n /\ IsCycle(Ring(n, w))
<1>1. n \in Nat /\ 1 \in 1 .. n
  BY DEF Lengths
<1> DEFINE Place(s) == IF s = "u" THEN 1 ELSE 2
<1>2. ASSUME NEW k \in 1 .. n
      PROVE  /\ SideAt("u", k) \in Sides
             /\ RingEdge(n, w, k)[Place(SideAt("u", k))] = w[k]
             /\ RingEdge(n, w, k)[Place(Other(SideAt("u", k)))] = w[After(n, k)]
  <2>1. SideAt("u", k) \in Sides
    BY SideType DEF Sides
  <2> QED
    BY <2>1 DEF RingEdge, Other, Sides
<1>3. ASSUME NEW k \in 1 .. n, NEW m \in 1 .. n,
             RingEdge(n, w, m)[Place(SideAt("u", k))] = w[k]
      PROVE  m = k \/ m = Before(n, k)
  <2>1. CASE SideAt("u", m) = SideAt("u", k)
    BY <2>1, <1>2, <1>3
  <2>2. CASE SideAt("u", m) # SideAt("u", k)
    <3>1. SideAt("u", k) = Other(SideAt("u", m))
      BY <2>2, <1>2 DEF Other, Sides
    <3>2. w[After(n, m)] = w[k] /\ After(n, m) \in 1 .. n /\ SideAt("u", After(n, m)) = SideAt("u", k)
      BY <3>1, <1>2, <1>3, RingPlaces
    <3>3. After(n, m) = k
      BY <3>2
    <3> QED
      BY <3>3, RingPlaces
  <2> QED
    BY <2>1, <2>2
<1>4. ASSUME NEW k \in 1 .. n
      PROVE  /\ RingEdge(n, w, Before(n, k))[Place(SideAt("u", k))] = w[k]
             /\ RingEdge(n, w, k) # RingEdge(n, w, Before(n, k))
  <2>1. PICK m \in 1 .. n : m = Before(n, k) /\ After(n, m) = k /\ SideAt("u", m) = Other(SideAt("u", k))
    BY RingPlaces
  <2>2. Other(SideAt("u", m)) = SideAt("u", k)
    BY <2>1, <1>2 DEF Other, Sides
  <2>3. RingEdge(n, w, m)[Place(SideAt("u", k))] = w[k]
    BY <2>1, <2>2, <1>2
  <2>4. RingEdge(n, w, m)[Place(SideAt("u", m))] = w[m]
    BY <1>2
  <2>5. RingEdge(n, w, k)[Place(SideAt("u", m))] = w[After(n, k)]
    BY <2>1, <1>2
  <2>6. w[After(n, k)] # w[m]
    <3>1. After(n, k) \in 1 .. n /\ After(n, k) # m /\ SideAt("u", After(n, k)) = SideAt("u", m)
      BY <2>1, RingPlaces
    <3> QED
      BY <3>1
  <2> QED
    BY <2>1, <2>3, <2>4, <2>5, <2>6
<1>5. \A k, m \in 1 .. n : RingEdge(n, w, k) = RingEdge(n, w, m) => k = m
  <2> SUFFICES ASSUME NEW k \in 1 .. n, NEW m \in 1 .. n, RingEdge(n, w, k) = RingEdge(n, w, m)
               PROVE  k = m
    OBVIOUS
  <2>1. m = k \/ m = Before(n, k)
    BY <1>2, <1>3
  <2> QED
    BY <2>1, <1>4
<1>6. ASSUME NEW k \in 1 .. n
      PROVE  Cardinality({e \in Ring(n, w) : e[Place(SideAt("u", k))] = w[k]}) = 2
  <2>1. {e \in Ring(n, w) : e[Place(SideAt("u", k))] = w[k]} = {RingEdge(n, w, k), RingEdge(n, w, Before(n, k))}
    <3>1. Before(n, k) \in 1 .. n
      BY RingPlaces
    <3>2. \A e \in Ring(n, w) : e[Place(SideAt("u", k))] = w[k] => e \in {RingEdge(n, w, k), RingEdge(n, w, Before(n, k))}
      BY <1>3 DEF Ring
    <3>3. {RingEdge(n, w, k), RingEdge(n, w, Before(n, k))} \subseteq Ring(n, w)
      BY <3>1 DEF Ring
    <3>4. RingEdge(n, w, k)[Place(SideAt("u", k))] = w[k] /\ RingEdge(n, w, Before(n, k))[Place(SideAt("u", k))] = w[k]
      BY <1>2, <1>4
    <3> QED
      BY <3>2, <3>3, <3>4
  <2>2. Cardinality({RingEdge(n, w, k), RingEdge(n, w, Before(n, k))}) = 2
    BY <1>4, TwoElements
  <2> QED
    BY <2>1, <2>2
<1>7. ASSUME NEW e \in Ring(n, w)
      PROVE  Degree(Ring(n, w), 1, e[1]) = 2 /\ Degree(Ring(n, w), 2, e[2]) = 2
  <2>1. PICK k \in 1 .. n : e = RingEdge(n, w, k)
    BY DEF Ring
  <2>2. After(n, k) \in 1 .. n /\ SideAt("u", After(n, k)) = Other(SideAt("u", k))
    BY RingPlaces
  <2>3. CASE SideAt("u", k) = "u"
    <3>1. SideAt("u", After(n, k)) = "v" /\ e[1] = w[k] /\ e[2] = w[After(n, k)]
      BY <2>1, <2>2, <2>3 DEF Other, RingEdge
    <3>2. Cardinality({d \in Ring(n, w) : d[1] = w[k]}) = 2
      BY <2>3, <1>6
    <3>3. Cardinality({d \in Ring(n, w) : d[2] = w[After(n, k)]}) = 2
      BY <2>2, <3>1, <1>6
    <3> QED
      BY <3>1, <3>2, <3>3 DEF Degree
  <2>4. CASE SideAt("u", k) # "u"
    <3>1. SideAt("u", k) = "v" /\ SideAt("u", After(n, k)) = "u" /\ e[2] = w[k] /\ e[1] = w[After(n, k)]
      BY <2>1, <2>2, <2>4, <1>2 DEF Other, RingEdge, Sides
    <3>2. Cardinality({d \in Ring(n, w) : d[2] = w[k]}) = 2
      BY <3>1, <1>6
    <3>3. Cardinality({d \in Ring(n, w) : d[1] = w[After(n, k)]}) = 2
      BY <2>2, <3>1, <1>6
    <3> QED
      BY <3>1, <3>2, <3>3 DEF Degree
  <2> QED
    BY <2>3, <2>4
<1>8. Cardinality(Ring(n, w)) = n
  <2> DEFINE f == [k \in 1 .. n |-> RingEdge(n, w, k)]
  <2>1. f \in Bijection(1 .. n, Ring(n, w))
    BY <1>5 DEF Bijection, Injection, Surjection, IsInjective, Ring
  <2>2. ExistsBijection(1 .. n, Ring(n, w))
    BY <2>1 DEF ExistsBijection
  <2> QED
    BY <2>2, <1>1, FS_CountingElements
<1>9. TwoAtEachNode(Ring(n, w))
  <2>1. Ring(n, w) # {}
    BY <1>1 DEF Ring
  <2> QED
    BY <2>1, <1>7 DEF TwoAtEachNode
<1>10. ASSUME NEW T \in SUBSET Ring(n, w), TwoAtEachNode(T)
       PROVE  T = Ring(n, w)
  <2>1. ASSUME NEW k \in 1 .. n, RingEdge(n, w, k) \in T
        PROVE  RingEdge(n, w, After(n, k)) \in T
    <3> SUFFICES ASSUME RingEdge(n, w, After(n, k)) \notin T PROVE FALSE
      OBVIOUS
    <3>1. PICK d \in T : d = RingEdge(n, w, k)
      BY <2>1
    <3>2. PICK m \in 1 .. n : /\ m = After(n, k) /\ Before(n, m) = k
                              /\ SideAt("u", m) = Other(SideAt("u", k))
      BY RingPlaces
    <3>3. PICK i \in {1, 2} : i = Place(SideAt("u", m))
      OBVIOUS
    <3>4. d[i] = w[m]
      BY <3>1, <3>2, <3>3, <1>2
    <3>5. \A e \in T : e[i] = w[m] => e = d
      <4> SUFFICES ASSUME NEW e \in T, e[i] = w[m] PROVE e = d
        OBVIOUS
      <4>1. PICK j \in 1 .. n : e = RingEdge(n, w, j)
        BY DEF Ring
      <4>2. j = m \/ j = k
        BY <4>1, <3>2, <3>3, <1>3
      <4> QED
        BY <4>1, <4>2, <3>1, <3>2
    <3>6. {e \in T : e[i] = w[m]} = {d}
      BY <3>4, <3>5
    <3>7. Cardinality({e \in T : e[i] = w[m]}) = 2
      <4>1. Degree(T, 1, d[1]) = 2 /\ Degree(T, 2, d[2]) = 2
        BY <1>10 DEF TwoAtEachNode
      <4>2. Degree(T, i, w[m]) = 2
        BY <3>4, <4>1
      <4> QED
        BY <4>2 DEF Degree
    <3>8. Cardinality({d}) = 1
      BY FS_Singleton
    <3> QED
      BY <3>6, <3>7, <3>8
  <2>2. ASSUME NEW k \in 1 .. n, RingEdge(n, w, k) \in T
        PROVE  \A m \in k .. n : RingEdge(n, w, m) \in T
    <3> DEFINE S == {m \in Nat : k + m <= n => RingEdge(n, w, k + m) \in T}
    <3>1. 0 \in S
      BY <2>2
    <3>2. ASSUME NEW m \in Nat, m \in S PROVE m + 1 \in S
      <4> SUFFICES ASSUME k + (m + 1) <= n PROVE RingEdge(n, w, k + (m + 1)) \in T
        OBVIOUS
      <4>1. k + m \in 1 .. n /\ k + m # n /\ (k + m) + 1 = k + (m + 1)
        BY <1>1
      <4>2. RingEdge(n, w, k + m) \in T
        BY <4>1, <3>2
      <4>3. After(n, k + m) = k + (m + 1)
        BY <4>1 DEF After
      <4> QED
        BY <4>1, <4>2, <4>3, <2>1
    <3> HIDE DEF S
    <3>3. \A m \in Nat : m \in S
      BY <3>1, <3>2, Steps
    <3> SUFFICES ASSUME NEW m \in k .. n PROVE RingEdge(n, w, m) \in T
      OBVIOUS
    <3>4. PICK j \in Nat : m = k + j
      <4>1. m - k \in Nat /\ m = k + (m - k)
        BY <1>1
      <4> QED
        BY <4>1
    <3>5. k + j <= n
      BY <3>4
    <3> QED
      BY <3>3, <3>4, <3>5 DEF S
  <2>3. RingEdge(n, w, 1) \in T
    <3>1. PICK k \in 1 .. n : RingEdge(n, w, k) \in T
      BY <1>10 DEF TwoAtEachNode, Ring
    <3>2. n \in k .. n /\ n \in 1 .. n /\ After(n, n) = 1
      BY <1>1 DEF After
    <3> QED
      BY <3>1, <3>2, <2>1, <2>2
  <2> QED
    BY <2>2, <2>3, <1>1 DEF Ring
<1> QED
  BY <1>8, <1>9, <1>10 DEF IsCycle

----------------------------------------------------------------------------
(* Reading an edge.                                                        *)

\* Smallest is the least element.
LEMMA SmallestIs ==
    ASSUME NEW S \in SUBSET Nat, S # {}
    PROVE  Smallest(S) \in S /\ \A k \in S : Smallest(S) <= k
<1>1. \E n \in S : \A m \in S : n <= m
  BY Least
<1> QED
  BY <1>1 DEF Smallest

\* The edges of the first steps of a path.
LEMMA StepsAreEdges ==
    ASSUME NEW E, NEW g, GraphOK(g, E), NEW s \in Sides, NEW P, IsPath(P, g, s),
           NEW m \in 1 .. Len(P)
    PROVE  PathEdges(s, P, m - 1) \subseteq E
<1>1. Len(P) \in Nat
  BY DEF IsPath
<1>2. \A k \in 1 .. m - 1 : k \in 1 .. Len(P) - 1
  BY <1>1
<1> QED
  BY <1>2, StepIsEdge DEF PathEdges

\* Where the paths from the ends of an edge meet: in order of the places on u, then
\* of those on v.
MeetAt(u, v, a, b) ==
    /\ a \in DOMAIN u /\ b \in DOMAIN v /\ v[b] = u[a]
    /\ \A i \in DOMAIN u : i < a => \A j \in DOMAIN v : v[j] # u[i]
    /\ \A j \in DOMAIN v : j < b => v[j] # u[a]

\* Paths with a common number meet at some first place.
LEMMA FirstMeeting ==
    ASSUME NEW u \in Seq(Nodes), NEW v \in Seq(Nodes), NEW Join,
           Join = {i \in DOMAIN u : \E j \in DOMAIN v : v[j] = u[i]}, Join # {},
           NEW a, a = Smallest(Join), NEW b, b = Smallest({j \in DOMAIN v : v[j] = u[a]})
    PROVE  MeetAt(u, v, a, b)
<1>1. DOMAIN u = 1 .. Len(u) /\ Len(u) \in Nat /\ DOMAIN v = 1 .. Len(v) /\ Len(v) \in Nat
  OBVIOUS
<1>2. a \in Join /\ \A i \in Join : a <= i
  <2>1. Join \in SUBSET Nat
    BY <1>1
  <2> QED
    BY <2>1, SmallestIs
<1>3. b \in DOMAIN v /\ v[b] = u[a] /\ \A j \in DOMAIN v : v[j] = u[a] => b <= j
  <2>1. PICK J : J = {j \in DOMAIN v : v[j] = u[a]}
    OBVIOUS
  <2>2. J \in SUBSET Nat /\ J # {}
    BY <2>1, <1>1, <1>2
  <2>3. b \in J /\ \A j \in J : b <= j
    BY <2>1, <2>2, SmallestIs
  <2> QED
    BY <2>1, <2>3
<1>4. a \in DOMAIN u /\ a \in Nat /\ b \in Nat
  BY <1>1, <1>2, <1>3
<1>5. ASSUME NEW i \in DOMAIN u, i < a, NEW j \in DOMAIN v, v[j] = u[i]
      PROVE  FALSE
  <2>1. i \in Join /\ i \in Nat
    BY <1>1, <1>5
  <2>2. a <= i
    BY <1>2, <2>1
  <2> QED
    BY <1>4, <1>5, <2>1, <2>2
<1>6. ASSUME NEW j \in DOMAIN v, j < b, v[j] = u[a]
      PROVE  FALSE
  <2>1. b <= j
    BY <1>3, <1>6
  <2>2. j \in Nat
    BY <1>1
  <2> QED
    BY <1>4, <1>6, <2>1, <2>2
<1> QED
  BY <1>3, <1>4, <1>5, <1>6 DEF MeetAt

\* Two paths up to the number at which they meet, and the edge between their
\* starts, are a ring.
LEMMA MeetingIsCycle ==
    ASSUME NEW n \in Lengths, NEW g, NEW u, NEW v, IsPath(u, g, "u"), IsPath(v, g, "v"),
           NEW a \in DOMAIN u, NEW b \in DOMAIN v, v[b] = u[a], a + b - 1 = n,
           \A i \in DOMAIN u : i < a => \A j \in DOMAIN v : v[j] # u[i],
           \A j \in DOMAIN v : j < b => v[j] # u[a],
           NEW S, S = {<<u[1], v[1]>>} \cup PathEdges("u", u, a - 1) \cup PathEdges("v", v, b - 1)
    PROVE  Cardinality(S) = n /\ IsCycle(S)
<1>1. /\ Len(u) \in Nat /\ DOMAIN u = 1 .. Len(u) /\ Len(v) \in Nat /\ DOMAIN v = 1 .. Len(v)
      /\ a \in Nat \ {0} /\ b \in Nat \ {0} /\ n \in Nat /\ n >= 4 /\ n % 2 = 0
  BY DEF IsPath, Lengths
<1> DEFINE w == [k \in 1 .. n |-> IF k <= a THEN u[k] ELSE v[a + b - k]]
<1>2. /\ \A k \in 1 .. a : k \in 1 .. n /\ w[k] = u[k]
      /\ \A k \in a .. n : k \in 1 .. n /\ w[k] = v[a + b - k] /\ a + b - k \in 1 .. b
  BY <1>1
<1>3. \A k \in a .. n : SideAt("v", a + b - k) = SideAt("u", k)
  <2> SUFFICES ASSUME NEW k \in a .. n PROVE SideAt("v", a + b - k) = SideAt("u", k)
    OBVIOUS
  <2>1. a + b - k = n + 1 - k /\ k \in 1 .. n
    BY <1>1
  <2>2. ((n + 1 - k) % 2 = 1) <=> (k % 2 # 1)
    BY <1>1, <2>1, Parity
  <2> QED
    BY <2>1, <2>2 DEF SideAt, Other
<1> HIDE DEF w
<1>4. ASSUME NEW i \in 1 .. n, NEW k \in 1 .. n, i < k, SideAt("u", i) = SideAt("u", k)
      PROVE  w[i] # w[k]
  <2>1. CASE k <= a
    <3>1. i \in 1 .. a /\ k \in 1 .. a /\ i # k
      BY <2>1, <1>1, <1>4
    <3>2. \A j \in DOMAIN u : j < a => u[j] # u[a]
      BY <1>1
    <3>3. u[i] # u[k]
      BY <3>1, <3>2, <1>4, NoNodeAgain DEF Sides
    <3> QED
      BY <3>1, <3>3, <1>2
  <2>2. CASE i >= a
    <3>1. i \in a .. n /\ k \in a .. n
      BY <2>2, <1>1, <1>4
    <3>2. PICK x, y : x = a + b - i /\ y = a + b - k
      OBVIOUS
    <3>3. x \in 1 .. b /\ y \in 1 .. b /\ x # y /\ SideAt("v", x) = SideAt("v", y)
      BY <3>1, <3>2, <1>1, <1>2, <1>3, <1>4
    <3>4. \A j \in DOMAIN v : j < b => v[j] # v[b]
      OBVIOUS
    <3>5. v[x] # v[y]
      BY <3>3, <3>4, NoNodeAgain DEF Sides
    <3> QED
      BY <3>1, <3>2, <3>5, <1>2
  <2>3. CASE i < a /\ k > a
    <3>1. i \in 1 .. a /\ k \in a .. n /\ i \in DOMAIN u
      BY <2>3, <1>1
    <3>2. a + b - k \in DOMAIN v
      BY <3>1, <1>1, <1>2
    <3>3. v[a + b - k] # u[i]
      BY <3>1, <3>2, <2>3
    <3> QED
      BY <3>1, <3>3, <1>2
  <2> QED
    BY <2>1, <2>2, <2>3, <1>1
<1>5. \A i, k \in 1 .. n : i # k /\ SideAt("u", i) = SideAt("u", k) => w[i] # w[k]
  <2> SUFFICES ASSUME NEW i \in 1 .. n, NEW k \in 1 .. n, i # k, SideAt("u", i) = SideAt("u", k)
               PROVE  w[i] # w[k]
    OBVIOUS
  <2>1. CASE i < k
    BY <2>1, <1>4
  <2>2. CASE k < i
    BY <2>2, <1>4
  <2> QED
    BY <2>1, <2>2
<1>6. RingEdge(n, w, n) = <<u[1], v[1]>>
  <2>1. n \in a .. n /\ 1 \in 1 .. a /\ a + b - n = 1
    BY <1>1
  <2>2. w[n] = v[1] /\ w[1] = u[1]
    BY <2>1, <1>2
  <2>3. SideAt("u", n) = "v"
    BY <1>1 DEF SideAt, Other
  <2> QED
    BY <2>2, <2>3 DEF RingEdge, After
<1>7. ASSUME NEW k \in 1 .. a - 1
      PROVE  RingEdge(n, w, k) = IF SideAt("u", k) = "u" THEN <<u[k], u[k + 1]>> ELSE <<u[k + 1], u[k]>>
  <2>1. k \in 1 .. a /\ k + 1 \in 1 .. a /\ After(n, k) = k + 1
    BY <1>1 DEF After
  <2> QED
    BY <2>1, <1>2 DEF RingEdge
<1>8. ASSUME NEW k \in a .. n - 1, NEW j, j = a + b - k - 1
      PROVE  RingEdge(n, w, k) = IF SideAt("v", j) = "u" THEN <<v[j], v[j + 1]>> ELSE <<v[j + 1], v[j]>>
  <2>1. k \in a .. n /\ k + 1 \in a .. n /\ After(n, k) = k + 1
    BY <1>1 DEF After
  <2>2. j \in Nat /\ j + 1 = a + b - k /\ j = a + b - (k + 1)
    BY <1>1, <1>8
  <2>3. w[k] = v[j + 1] /\ w[After(n, k)] = v[j]
    BY <2>1, <2>2, <1>2
  <2>4. SideAt("v", j + 1) = SideAt("u", k) /\ SideAt("v", j + 1) = Other(SideAt("v", j))
    BY <2>1, <2>2, <1>3, SideNext DEF Sides
  <2>5. SideAt("v", j) \in Sides
    BY <2>2, SideType DEF Sides
  <2> QED
    BY <2>3, <2>4, <2>5 DEF RingEdge, Other, Sides
<1>9. S \subseteq Ring(n, w)
  <2>1. \A k \in 1 .. a - 1 : k \in 1 .. n
    BY <1>1
  <2>2. PathEdges("u", u, a - 1) \subseteq Ring(n, w)
    BY <2>1, <1>7 DEF PathEdges, Ring
  <2>3. PathEdges("v", v, b - 1) \subseteq Ring(n, w)
    <3> SUFFICES ASSUME NEW j \in 1 .. b - 1
                 PROVE  (IF SideAt("v", j) = "u" THEN <<v[j], v[j + 1]>> ELSE <<v[j + 1], v[j]>>) \in Ring(n, w)
      BY DEF PathEdges
    <3>1. PICK k : k = a + b - j - 1
      OBVIOUS
    <3>2. k \in a .. n - 1 /\ k \in 1 .. n /\ j = a + b - k - 1
      <4>1. /\ j \in Int /\ a \in Int /\ b \in Int /\ n \in Int /\ 1 <= j /\ j <= b - 1 /\ a >= 1
            /\ n = a + b - 1
        BY <1>1
      <4>2. k \in Int /\ k >= a /\ k <= n - 1
        BY <3>1, <4>1
      <4>3. j = a + b - k - 1
        BY <3>1, <4>1
      <4> QED
        BY <4>1, <4>2, <4>3
    <3> QED
      BY <3>2, <1>8 DEF Ring
  <2>4. <<u[1], v[1]>> \in Ring(n, w)
    <3>1. n \in 1 .. n
      BY <1>1
    <3> QED
      BY <3>1, <1>6 DEF Ring
  <2> QED
    BY <2>2, <2>3, <2>4
<1>10. Ring(n, w) \subseteq S
  <2> SUFFICES ASSUME NEW k \in 1 .. n PROVE RingEdge(n, w, k) \in S
    BY DEF Ring
  <2>1. CASE k \in 1 .. a - 1
    BY <2>1, <1>7 DEF PathEdges
  <2>2. CASE k \in a .. n - 1
    <3>1. PICK j : j = a + b - k - 1
      OBVIOUS
    <3>2. j \in 1 .. b - 1
      BY <3>1, <2>2, <1>1
    <3> QED
      BY <3>1, <3>2, <2>2, <1>8 DEF PathEdges
  <2>3. CASE k = n
    BY <2>3, <1>6
  <2> QED
    BY <2>1, <2>2, <2>3, <1>1
<1>11. S = Ring(n, w)
  BY <1>9, <1>10
<1> QED
  BY <1>5, <1>11, RingIsCycle

----------------------------------------------------------------------------
(* The specification.                                                      *)

\* What is read and what was read are edges, and what was found are cycles.
FInv ==
    /\ edges \subseteq Edge
    /\ \A e \in left : <<e[1], e[2]>> \in edges
    /\ GraphOK(graph, edges)
    /\ FoundAreCycles

\* What is trimmed first are the edges, and the graph is empty.
LEMMA InitHolds == Init => FInv
<1> SUFFICES ASSUME Init PROVE FInv
  OBVIOUS
<1>1. edges \subseteq Edge
  BY DEF Init
<1>2. \A e \in left : <<e[1], e[2]>> \in edges
  <2>1. PICK twice \in SUBSET edges :
            left = {<<e[1], e[2], 1>> : e \in edges} \cup {<<e[1], e[2], 2>> : e \in twice}
    BY DEF Init
  <2>2. \A e \in edges : <<e[1], e[2]>> = e
    BY <1>1 DEF Edge
  <2>3. \A e \in left : \E d \in edges : e[1] = d[1] /\ e[2] = d[2]
    BY <2>1
  <2> QED
    BY <2>2, <2>3
<1>3. GraphOK(graph, edges)
  BY DEF Init, GraphOK, Sides
<1>4. FoundAreCycles
  BY DEF Init, FoundAreCycles
<1> QED
  BY <1>1, <1>2, <1>3, <1>4 DEF FInv

\* Trimming only takes edges away.
LEMMA TrimStep ==
    ASSUME FInv, Trim
    PROVE  FInv'
<1>1. left' \subseteq left /\ UNCHANGED <<edges, graph, solutions>>
  BY DEF Trim, TrimRound
<1> QED
  BY <1>1 DEF FInv, GraphOK, FoundAreCycles

\* A graph is one of edges whenever the edges are the same.
LEMMA SameEdges ==
    ASSUME edges' = edges, NEW g, GraphOK(g, edges), graph' = g
    PROVE  GraphOK(graph, edges)'
  BY DEF GraphOK

\* The graph has an edge, in one direction or the other.
Has(g, e) == g["u"][e[1]] = e[2] \/ g["v"][e[2]] = e[1]

\* What ReadEdge does with the paths from the ends of the edge.
Reads(u, v, e) ==
    LET Join == {i \in DOMAIN u : \E j \in DOMAIN v : v[j] = u[i]}
        a == Smallest(Join)
        b == Smallest({j \in DOMAIN v : v[j] = u[a]})
        Closes == Join # {} /\ a + b - 1 = Target
    IN  \/ Has(graph, e) /\ UNCHANGED <<graph, solutions>>
        \/ /\ Closes /\ UNCHANGED graph
           /\ solutions' = solutions \cup
                 {{<<e[1], e[2]>>} \cup PathEdges("u", u, a - 1) \cup PathEdges("v", v, b - 1)}
        \/ /\ ~ Has(graph, e) /\ ~ Closes /\ UNCHANGED solutions
           /\ \/ graph' = [ReversePath(graph, "v", v) EXCEPT !["v"][e[2]] = e[1]]
              \/ graph' = [ReversePath(graph, "u", u) EXCEPT !["u"][e[1]] = e[2]]

\* find_cycles for one edge: a solution is a ring, and what is added is an edge.
LEMMA ReadStep ==
    ASSUME FInv, NEW e \in left, ReadEdge(e)
    PROVE  FInv'
<1>1. /\ edges \subseteq Edge /\ <<e[1], e[2]>> \in edges /\ e[1] \in Nodes /\ e[2] \in Nodes
      /\ GraphOK(graph, edges) /\ edges' = edges /\ left' \subseteq left
  BY DEF FInv, ReadEdge, Edge, Nodes
<1>2. PICK u : u = CreatePath(graph, "u", e[1])
  OBVIOUS
<1>3. PICK v : v = CreatePath(graph, "v", e[2])
  OBVIOUS
<1>4. IsPath(u, graph, "u") /\ u[1] = e[1] /\ IsPath(v, graph, "v") /\ v[1] = e[2]
  BY <1>1, <1>2, <1>3, CreatePathIsPath DEF Sides
<1>5. PICK Join : Join = {i \in DOMAIN u : \E j \in DOMAIN v : v[j] = u[i]}
  OBVIOUS
<1>6. PICK a : a = Smallest(Join)
  OBVIOUS
<1>7. PICK b : b = Smallest({j \in DOMAIN v : v[j] = u[a]})
  OBVIOUS
<1>8. \/ UNCHANGED <<graph, solutions>>
      \/ /\ Join # {} /\ a + b - 1 = Target /\ UNCHANGED graph
         /\ solutions' = solutions \cup
               {{<<e[1], e[2]>>} \cup PathEdges("u", u, a - 1) \cup PathEdges("v", v, b - 1)}
      \/ /\ UNCHANGED solutions
         /\ \/ graph' = [ReversePath(graph, "v", v) EXCEPT !["v"][e[2]] = e[1]]
            \/ graph' = [ReversePath(graph, "u", u) EXCEPT !["u"][e[1]] = e[2]]
  <2>1. Reads(CreatePath(graph, "u", e[1]), CreatePath(graph, "v", e[2]), e)
    BY DEF ReadEdge, Reads, Has
  <2>2. Reads(u, v, e)
    BY <2>1, <1>2, <1>3
  <2> QED
    BY <2>2, <1>5, <1>6, <1>7 DEF Reads
<1>9. CASE UNCHANGED <<graph, solutions>>
  BY <1>1, <1>9 DEF FInv, GraphOK, FoundAreCycles
<1>10. CASE /\ Join # {} /\ a + b - 1 = Target /\ UNCHANGED graph
            /\ solutions' = solutions \cup
                  {{<<e[1], e[2]>>} \cup PathEdges("u", u, a - 1) \cup PathEdges("v", v, b - 1)}
  <2>1. PICK S : S = {<<e[1], e[2]>>} \cup PathEdges("u", u, a - 1) \cup PathEdges("v", v, b - 1)
    OBVIOUS
  <2>2. u \in Seq(Nodes) /\ v \in Seq(Nodes) /\ DOMAIN u = 1 .. Len(u) /\ DOMAIN v = 1 .. Len(v)
    BY <1>4 DEF IsPath
  <2>3. MeetAt(u, v, a, b)
    BY <2>2, <1>5, <1>6, <1>7, <1>10, FirstMeeting
  <2>4. S = {<<u[1], v[1]>>} \cup PathEdges("u", u, a - 1) \cup PathEdges("v", v, b - 1)
    BY <2>1, <1>4
  <2>5. Cardinality(S) = Target /\ IsCycle(S)
    <3>1. Target \in Lengths
      BY FindCyclesAssumption DEF Lengths
    <3> QED
      BY <3>1, <2>3, <2>4, <1>4, <1>10, MeetingIsCycle DEF MeetAt
  <2>6. S \subseteq edges
    <3>1. a \in 1 .. Len(u) /\ b \in 1 .. Len(v) /\ "u" \in Sides /\ "v" \in Sides
      BY <2>2, <2>3 DEF MeetAt, Sides
    <3>2. PathEdges("u", u, a - 1) \subseteq edges /\ PathEdges("v", v, b - 1) \subseteq edges
      BY <3>1, <1>1, <1>4, StepsAreEdges
    <3> QED
      BY <3>2, <2>1, <1>1
  <2>7. solutions' = solutions \cup {S}
    BY <2>1, <1>10
  <2>8. FoundAreCycles'
    BY <2>5, <2>6, <2>7, <1>1 DEF FInv, FoundAreCycles
  <2> QED
    BY <2>8, <1>1, <1>10 DEF FInv, GraphOK
<1>11. CASE /\ UNCHANGED solutions
            /\ \/ graph' = [ReversePath(graph, "v", v) EXCEPT !["v"][e[2]] = e[1]]
               \/ graph' = [ReversePath(graph, "u", u) EXCEPT !["u"][e[1]] = e[2]]
  <2>1. PICK g : g = graph'
    OBVIOUS
  <2>2. GraphOK(g, edges)
    <3>1. "u" \in Sides /\ "v" \in Sides /\ "u" # "v"
      BY DEF Sides
    <3>2. GraphOK(ReversePath(graph, "u", u), edges) /\ GraphOK(ReversePath(graph, "v", v), edges)
      BY <3>1, <1>1, <1>4, ReverseKeeps
    <3>3. GraphOK([ReversePath(graph, "v", v) EXCEPT !["v"][e[2]] = e[1]], edges)
      BY <3>1, <3>2, <1>1, PutKeeps
    <3>4. GraphOK([ReversePath(graph, "u", u) EXCEPT !["u"][e[1]] = e[2]], edges)
      BY <3>1, <3>2, <1>1, PutKeeps
    <3> QED
      BY <2>1, <3>3, <3>4, <1>11
  <2>3. GraphOK(graph, edges)'
    BY <2>1, <2>2, <1>1, SameEdges
  <2> QED
    BY <2>3, <1>1, <1>11 DEF FInv, FoundAreCycles
<1> QED
  BY <1>8, <1>9, <1>10, <1>11

\* FInv is an invariant.
LEMMA FInvHolds == Spec => []FInv
<1>1. FInv /\ [Next]_vars => FInv'
  <2> SUFFICES ASSUME FInv, [Next]_vars PROVE FInv'
    OBVIOUS
  <2>1. CASE UNCHANGED vars
    BY <2>1 DEF vars, FInv, GraphOK, FoundAreCycles
  <2> QED
    BY <2>1, TrimStep, ReadStep DEF Next
<1> QED
  BY <1>1, InitHolds, PTL DEF Spec

\* What the search finds are cycles of its graph, of the length that is asked for,
\* for any graph, any rounds of trimming and any order of the edges, also when a
\* path is cut at its longest or a number names nodes of both sides (c29.cpp:130).
THEOREM FoundHolds == Spec => []FoundAreCycles
<1>1. FInv => FoundAreCycles
  BY DEF FInv
<1> QED
  BY <1>1, FInvHolds, PTL

----------------------------------------------------------------------------
(* Forests: graphs in which no path goes round.                            *)

\* Each edge leads to a node of a lower rank.
Ranked(g, r) ==
    \A t \in Sides, n \in Nodes : g[t][n] # 0 => r[Other(t)][g[t][n]] < r[t][n]

\* The ranks up to M of the nodes of both sides.
Ranks(M) == [Sides -> [Nodes -> 0 .. M]]

\* The path goes on as far as the graph does.
Ends(g, s, P) == g[SideAt(s, Len(P))][P[Len(P)]] = 0

\* A path names the node k of a side.
At(s, P, k, t, n) == SideAt(s, k) = t /\ P[k] = n

\* No two places of a path are the same node.
Simple(s, P) ==
    \A i, k \in 1 .. Len(P) : i < k => SideAt(s, i) # SideAt(s, k) \/ P[i] # P[k]

\* create_path stops where no edge goes on, or at its bound.
LEMMA CreatePathEnds ==
    ASSUME NEW E, NEW g, GraphOK(g, E), NEW s \in Sides, NEW node \in Nodes
    PROVE  \/ Ends(g, s, CreatePath(g, s, node))
           \/ Len(CreatePath(g, s, node)) = MaxPath
<1>1. MaxPath \in Nat \ {0}
  BY FindCyclesAssumption
<1>2. PICK p : p = CHOOSE f : IsPathFcn(f, g, s, node, MaxPath)
  OBVIOUS
<1>3. IsPathFcn(p, g, s, node, MaxPath)
  BY <1>1, <1>2, PathExists
<1> DEFINE S == {n \in Nat : n + 1 \in 1 .. MaxPath =>
                     p[n + 1] \in Seq(Nodes) /\ (Ends(g, s, p[n + 1]) \/ Len(p[n + 1]) = n + 1)}
<1>4. 0 \in S
  <2>1. PICK q : q = <<node>>
    OBVIOUS
  <2>2. q \in Seq(Nodes) /\ Len(q) = 1
    BY <2>1
  <2>3. p[1] = q
    BY <2>1, <1>1, <1>3 DEF IsPathFcn
  <2> QED
    BY <2>2, <2>3
<1>5. ASSUME NEW n \in Nat, n \in S PROVE n + 1 \in S
  <2> SUFFICES ASSUME n + 2 \in 1 .. MaxPath
               PROVE  p[n + 2] \in Seq(Nodes) /\ (Ends(g, s, p[n + 2]) \/ Len(p[n + 2]) = n + 2)
    OBVIOUS
  <2>1. n + 1 \in 1 .. MaxPath /\ n + 2 # 1 /\ (n + 2) - 1 = n + 1
    BY <1>1
  <2>2. PICK q : q = p[n + 1]
    OBVIOUS
  <2>3. q \in Seq(Nodes) /\ (Ends(g, s, q) \/ Len(q) = n + 1)
    BY <1>5, <2>1, <2>2
  <2>4. p[n + 2] = Longer(g, s, q)
    BY <2>1, <2>2, <1>3 DEF IsPathFcn
  <2>5. CASE Ends(g, s, q)
    <3>1. p[n + 2] = q
      BY <2>4, <2>5 DEF Longer, Ends
    <3> QED
      BY <2>3, <2>5, <3>1
  <2>6. CASE ~ Ends(g, s, q)
    <3>1. PICK to : to = g[SideAt(s, Len(q))][q[Len(q)]]
      OBVIOUS
    <3>2. to # 0 /\ p[n + 2] = Append(q, to)
      BY <2>4, <2>6, <3>1 DEF Longer, Ends
    <3>3. Len(q) = n + 1
      BY <2>3, <2>6
    <3>4. to \in Nodes
      <4>1. q[Len(q)] \in Nodes /\ Len(q) \in Nat
        BY <2>3, <3>3
      <4>2. SideAt(s, Len(q)) \in Sides
        BY <4>1, SideType
      <4> QED
        BY <3>1, <3>2, <4>1, <4>2 DEF GraphOK
    <3>5. Append(q, to) \in Seq(Nodes) /\ Len(Append(q, to)) = Len(q) + 1
      BY <2>3, <3>4
    <3> QED
      BY <3>2, <3>3, <3>5
  <2> QED
    BY <2>5, <2>6
<1> HIDE DEF S
<1>6. \A n \in Nat : n \in S
  BY <1>4, <1>5, Steps
<1>7. MaxPath - 1 \in Nat /\ (MaxPath - 1) + 1 = MaxPath
  BY <1>1
<1>8. Ends(g, s, p[MaxPath]) \/ Len(p[MaxPath]) = MaxPath
  BY <1>1, <1>6, <1>7 DEF S
<1> QED
  BY <1>2, <1>8, PathFcn

\* Ranks go down on a path.
LEMMA PathGoesDown ==
    ASSUME NEW g, NEW M \in Nat, NEW r \in Ranks(M), Ranked(g, r),
           NEW s \in Sides, NEW P, IsPath(P, g, s), NEW i \in 1 .. Len(P)
    PROVE  \A k \in 1 .. Len(P) : i < k => r[SideAt(s, k)][P[k]] < r[SideAt(s, i)][P[i]]
<1>1. Len(P) \in Nat /\ P \in Seq(Nodes)
  BY DEF IsPath
<1>2. ASSUME NEW k \in 1 .. Len(P) - 1
      PROVE  r[SideAt(s, k + 1)][P[k + 1]] < r[SideAt(s, k)][P[k]]
  <2>1. P[k] \in Nodes /\ k \in Nat
    BY <1>1
  <2>2. SideAt(s, k) \in Sides /\ SideAt(s, k + 1) = Other(SideAt(s, k))
    BY <2>1, SideType, SideNext
  <2>3. P[k + 1] = g[SideAt(s, k)][P[k]] /\ P[k + 1] # 0
    BY DEF IsPath
  <2> QED
    BY <2>1, <2>2, <2>3 DEF Ranked
<1>3. \A k \in 1 .. Len(P) : r[SideAt(s, k)][P[k]] \in Nat
  <2> TAKE k \in 1 .. Len(P)
  <2>1. P[k] \in Nodes /\ k \in Nat
    BY <1>1
  <2>2. SideAt(s, k) \in Sides
    BY <2>1, SideType
  <2> QED
    BY <2>1, <2>2 DEF Ranks
<1> DEFINE S == {m \in Nat : i + 1 + m <= Len(P) =>
                    r[SideAt(s, i + 1 + m)][P[i + 1 + m]] < r[SideAt(s, i)][P[i]]}
<1>4. 0 \in S
  <2> SUFFICES ASSUME i + 1 <= Len(P)
               PROVE  r[SideAt(s, i + 1)][P[i + 1]] < r[SideAt(s, i)][P[i]]
    OBVIOUS
  <2>1. i \in 1 .. Len(P) - 1
    BY <1>1
  <2> QED
    BY <2>1, <1>2
<1>5. ASSUME NEW m \in Nat, m \in S PROVE m + 1 \in S
  <2> SUFFICES ASSUME i + 1 + (m + 1) <= Len(P)
               PROVE  r[SideAt(s, i + 1 + (m + 1))][P[i + 1 + (m + 1)]] < r[SideAt(s, i)][P[i]]
    OBVIOUS
  <2>1. PICK k : k = i + 1 + m
    OBVIOUS
  <2>2. k \in 1 .. Len(P) - 1 /\ k \in 1 .. Len(P) /\ k + 1 \in 1 .. Len(P) /\ k + 1 = i + 1 + (m + 1)
    BY <1>1, <2>1
  <2>3. r[SideAt(s, k)][P[k]] < r[SideAt(s, i)][P[i]]
    BY <1>5, <2>1, <2>2
  <2>4. r[SideAt(s, k + 1)][P[k + 1]] < r[SideAt(s, k)][P[k]]
    BY <1>2, <2>2
  <2>5. r[SideAt(s, k + 1)][P[k + 1]] < r[SideAt(s, i)][P[i]]
    <3>1. /\ r[SideAt(s, k + 1)][P[k + 1]] \in Nat /\ r[SideAt(s, k)][P[k]] \in Nat
          /\ r[SideAt(s, i)][P[i]] \in Nat
      BY <1>3, <2>2
    <3> QED
      BY <2>3, <2>4, <3>1
  <2> QED
    BY <2>2, <2>5
<1> HIDE DEF S
<1>6. \A m \in Nat : m \in S
  BY <1>4, <1>5, Steps
<1>7. ASSUME NEW k \in 1 .. Len(P), i < k
      PROVE  r[SideAt(s, k)][P[k]] < r[SideAt(s, i)][P[i]]
  <2>1. PICK m \in Nat : k = i + 1 + m
    <3>1. k - i - 1 \in Nat /\ k = i + 1 + (k - i - 1)
      BY <1>1, <1>7
    <3> QED
      BY <3>1
  <2>2. m \in S /\ i + 1 + m <= Len(P)
    BY <2>1, <1>1, <1>6
  <2> QED
    BY <2>1, <2>2 DEF S
<1> QED
  BY <1>7

\* So a path does not come back to a node.
LEMMA PathIsSimple ==
    ASSUME NEW g, NEW M \in Nat, NEW r \in Ranks(M), Ranked(g, r),
           NEW s \in Sides, NEW P, IsPath(P, g, s)
    PROVE  Simple(s, P)
<1> SUFFICES ASSUME NEW i \in 1 .. Len(P), NEW k \in 1 .. Len(P), i < k,
                    SideAt(s, i) = SideAt(s, k), P[i] = P[k]
             PROVE  FALSE
  BY DEF Simple
<1>1. r[SideAt(s, k)][P[k]] < r[SideAt(s, i)][P[i]]
  BY PathGoesDown
<1>2. P[k] \in Nodes /\ SideAt(s, k) \in Sides
  <2>1. P[k] \in Nodes /\ k \in Nat
    BY DEF IsPath
  <2> QED
    BY <2>1, SideType
<1>3. r[SideAt(s, k)][P[k]] \in Nat
  BY <1>2 DEF Ranks
<1> QED
  BY <1>1, <1>3

\* The edge of a step.
StepEdge(s, P, k) == IF SideAt(s, k) = "u" THEN <<P[k], P[k + 1]>> ELSE <<P[k + 1], P[k]>>

\* No path of the edges E, that comes nowhere twice, has as many nodes as create_path
\* follows.
ShortPaths(E) ==
    \A s \in Sides : \A P \in Seq(Nodes) :
        Simple(s, P) /\ (\A k \in 1 .. Len(P) - 1 : StepEdge(s, P, k) \in E) => Len(P) < MaxPath

----------------------------------------------------------------------------
(* What the reversal of a path makes of a graph.                           *)

\* h is g with the path turned around from its end down to place k.
Half(E, h, g, s, P, k) ==
    /\ GraphOK(h, E)
    /\ \A i \in 1 .. Len(P) : i > k => h[SideAt(s, i)][P[i]] = P[i - 1]
    /\ k < Len(P) => h[SideAt(s, k)][P[k]] = 0
    /\ \A t \in Sides, n \in Nodes :
          (\A i \in 1 .. Len(P) : i >= k => ~ At(s, P, i, t, n)) => h[t][n] = g[t][n]

\* One step of reverse_path clears one entry, writes one and leaves the others.
LEMMA TurnedAt ==
    ASSUME NEW E, NEW h, GraphOK(h, E), NEW s \in Sides, NEW P, NEW k \in Nat,
           P[k] \in Nodes, P[k + 1] \in Nodes
    PROVE  LET t == SideAt(s, k)
               T == Turned(h, s, P, k)
           IN  /\ T[t][P[k]] = 0
               /\ T[Other(t)][P[k + 1]] = P[k]
               /\ \A x \in Sides, n \in Nodes :
                     /\ ~ (x = t /\ n = P[k])
                     /\ ~ (x = Other(t) /\ n = P[k + 1])
                     => T[x][n] = h[x][n]
<1>1. PICK t : t = SideAt(s, k)
  OBVIOUS
<1>2. t \in Sides /\ Other(t) \in Sides /\ Other(t) # t
  BY <1>1, SideType DEF Other, Sides
<1>3. h \in [Sides -> [Nodes -> Nodes \cup {0}]]
  BY DEF GraphOK
<1>4. Turned(h, s, P, k) = [h EXCEPT ![t][P[k]] = 0, ![Other(t)][P[k + 1]] = P[k]]
  BY <1>1 DEF Turned
<1>5. PICK T : T = Turned(h, s, P, k)
  OBVIOUS
<1>6. T[t][P[k]] = 0 /\ T[Other(t)][P[k + 1]] = P[k]
  BY <1>2, <1>3, <1>4, <1>5
<1>7. ASSUME NEW x \in Sides, NEW n \in Nodes,
             ~ (x = t /\ n = P[k]), ~ (x = Other(t) /\ n = P[k + 1])
      PROVE  T[x][n] = h[x][n]
  <2>1. x = t \/ x = Other(t)
    BY <1>2 DEF Other, Sides
  <2> QED
    BY <2>1, <1>2, <1>3, <1>4, <1>5, <1>7
<1> QED
  BY <1>1, <1>5, <1>6, <1>7

\* A step of reverse_path turns one more edge around.
LEMMA HalfTurned ==
    ASSUME NEW E, NEW g, GraphOK(g, E), NEW s \in Sides, NEW P, IsPath(P, g, s), Simple(s, P),
           NEW k \in 1 .. Len(P) - 1, NEW h, Half(E, h, g, s, P, k + 1)
    PROVE  Half(E, Turned(h, s, P, k), g, s, P, k)
<1>1. /\ Len(P) \in Nat /\ P \in Seq(Nodes) /\ k \in 1 .. Len(P) /\ k + 1 \in 1 .. Len(P)
      /\ k \in Nat
  BY DEF IsPath
<1>2. P[k] \in Nodes /\ P[k + 1] \in Nodes
  BY <1>1
<1>3. PICK t : t = SideAt(s, k)
  OBVIOUS
<1>4. /\ SideAt(s, k + 1) = Other(t) /\ t \in Sides /\ Other(t) \in Sides /\ Other(t) # t
  BY <1>1, <1>3, SideNext, SideType DEF Other, Sides
<1>5. PICK T : T = Turned(h, s, P, k)
  OBVIOUS
<1>6. GraphOK(h, E)
  BY DEF Half
<1>7. /\ T[t][P[k]] = 0
      /\ T[Other(t)][P[k + 1]] = P[k]
      /\ \A x \in Sides, n \in Nodes :
            /\ ~ (x = t /\ n = P[k])
            /\ ~ (x = Other(t) /\ n = P[k + 1])
            => T[x][n] = h[x][n]
  BY <1>1, <1>2, <1>3, <1>5, <1>6, TurnedAt
<1>8. GraphOK(T, E)
  BY <1>5, <1>6, TurnedKeeps
<1>9. ASSUME NEW i \in 1 .. Len(P), i > k
      PROVE  T[SideAt(s, i)][P[i]] = P[i - 1]
  <2>1. CASE i = k + 1
    <3>1. i - 1 = k
      BY <2>1, <1>1
    <3> QED
      BY <2>1, <3>1, <1>4, <1>7
  <2>2. CASE i # k + 1
    <3>1. i > k + 1 /\ i \in Nat
      BY <2>2, <1>1, <1>9
    <3>2. h[SideAt(s, i)][P[i]] = P[i - 1]
      BY <3>1 DEF Half
    <3>3. SideAt(s, i) \in Sides /\ P[i] \in Nodes
      <4>1. P[i] \in Nodes
        BY <1>1
      <4> QED
        BY <3>1, <4>1, SideType
    <3>4. ~ (SideAt(s, i) = t /\ P[i] = P[k])
      BY <1>1, <1>3, <1>9 DEF Simple
    <3>5. ~ (SideAt(s, i) = Other(t) /\ P[i] = P[k + 1])
      BY <3>1, <1>1, <1>4 DEF Simple
    <3> QED
      BY <3>2, <3>3, <3>4, <3>5, <1>7
  <2> QED
    BY <2>1, <2>2
<1>10. ASSUME NEW x \in Sides, NEW n \in Nodes,
              \A i \in 1 .. Len(P) : i >= k => ~ At(s, P, i, x, n)
       PROVE  T[x][n] = g[x][n]
  <2>1. ~ At(s, P, k, x, n) /\ ~ At(s, P, k + 1, x, n)
    BY <1>1, <1>10
  <2>2. T[x][n] = h[x][n]
    BY <2>1, <1>3, <1>4, <1>7 DEF At
  <2>3. \A i \in 1 .. Len(P) : i >= k + 1 => ~ At(s, P, i, x, n)
    BY <1>1, <1>10
  <2> QED
    BY <2>2, <2>3 DEF Half
<1> QED
  BY <1>3, <1>5, <1>7, <1>8, <1>9, <1>10 DEF Half

\* The nodes of the path lead to the one before them, and the others where they did.
LEMMA ReverseIs ==
    ASSUME NEW E, NEW g, GraphOK(g, E), NEW s \in Sides, NEW P, IsPath(P, g, s), Simple(s, P)
    PROVE  Half(E, ReversePath(g, s, P), g, s, P, 1)
<1>1. PICK len : len = Len(P) /\ len \in Nat \ {0} /\ P \in Seq(Nodes) /\ P # <<>>
  BY DEF IsPath
<1>2. PICK r : r = CHOOSE f : IsReverseFcn(f, g, s, P, 1)
  OBVIOUS
<1>3. IsReverseFcn(r, g, s, P, 1)
  BY <1>1, <1>2, ReverseExists
<1> DEFINE S == {m \in Nat : len - m \in 1 .. len => Half(E, r[len - m], g, s, P, len - m)}
<1>4. 0 \in S
  <2>1. r[len] = g
    BY <1>1, <1>3 DEF IsReverseFcn
  <2>2. Half(E, g, g, s, P, len)
    BY <1>1 DEF Half
  <2> QED
    BY <1>1, <2>1, <2>2
<1>5. ASSUME NEW m \in Nat, m \in S PROVE m + 1 \in S
  <2> SUFFICES ASSUME len - (m + 1) \in 1 .. len
               PROVE  Half(E, r[len - (m + 1)], g, s, P, len - (m + 1))
    OBVIOUS
  <2>1. PICK k : k = len - (m + 1) /\ k \in 1 .. len - 1
    <3>1. len - (m + 1) \in 1 .. len - 1
      BY <1>1
    <3> QED
      BY <3>1
  <2>2. k + 1 = len - m /\ k + 1 \in 1 .. len /\ k \in 1 .. len /\ k # len
    BY <1>1, <2>1
  <2>3. Half(E, r[k + 1], g, s, P, k + 1)
    BY <1>5, <2>2
  <2>4. r[k] = Turned(r[k + 1], s, P, k)
    BY <1>1, <1>3, <2>2 DEF IsReverseFcn
  <2>5. Half(E, r[k], g, s, P, k)
    BY <1>1, <2>1, <2>3, <2>4, HalfTurned
  <2> QED
    BY <2>1, <2>5
<1> HIDE DEF S
<1>6. len - 1 \in S
  <2>1. \A n \in Nat : n \in S
    BY <1>4, <1>5, Steps
  <2>2. len - 1 \in Nat
    BY <1>1
  <2> QED
    BY <2>1, <2>2
<1>7. len - (len - 1) = 1 /\ 1 \in 1 .. len
  BY <1>1
<1>8. Half(E, r[1], g, s, P, 1)
  BY <1>6, <1>7 DEF S
<1> QED
  BY <1>2, <1>8, ReverseFcn

\* The graph with a path turned around and an edge put at its start.
Grown(g, s, P, y) == [ReversePath(g, s, P) EXCEPT ![s][P[1]] = y]

\* Its entries: the new edge, those of the path turned around, and all others as before.
LEMMA GrownIs ==
    ASSUME NEW E, NEW g, GraphOK(g, E), NEW s \in Sides, NEW P, IsPath(P, g, s), Simple(s, P), NEW y
    PROVE  /\ Grown(g, s, P, y)[s][P[1]] = y
           /\ \A i \in 1 .. Len(P) : i > 1 => Grown(g, s, P, y)[SideAt(s, i)][P[i]] = P[i - 1]
           /\ \A t \in Sides, n \in Nodes :
                 (\A i \in 1 .. Len(P) : ~ At(s, P, i, t, n)) => Grown(g, s, P, y)[t][n] = g[t][n]
<1>1. PICK R : R = ReversePath(g, s, P)
  OBVIOUS
<1>2. Half(E, R, g, s, P, 1)
  BY <1>1, ReverseIs
<1>3. R \in [Sides -> [Nodes -> Nodes \cup {0}]]
  BY <1>2 DEF Half, GraphOK
<1>4. PICK h : h = [R EXCEPT ![s][P[1]] = y]
  OBVIOUS
<1>5. 1 \in 1 .. Len(P) /\ P[1] \in Nodes /\ SideAt(s, 1) = s /\ Len(P) \in Nat /\ P \in Seq(Nodes)
  BY DEF IsPath, SideAt
<1>6. h[s][P[1]] = y
  BY <1>3, <1>4, <1>5
<1>7. \A t \in Sides, n \in Nodes : ~ (t = s /\ n = P[1]) => h[t][n] = R[t][n]
  BY <1>3, <1>4, <1>5
<1>8. ASSUME NEW i \in 1 .. Len(P), i > 1
      PROVE  h[SideAt(s, i)][P[i]] = P[i - 1]
  <2>1. R[SideAt(s, i)][P[i]] = P[i - 1]
    BY <1>2, <1>8 DEF Half
  <2>2. i \in Nat /\ P[i] \in Nodes
    BY <1>5
  <2>3. SideAt(s, i) \in Sides
    BY <2>2, SideType
  <2>4. ~ (SideAt(s, i) = s /\ P[i] = P[1])
    BY <1>5, <1>8 DEF Simple
  <2> QED
    BY <2>1, <2>2, <2>3, <2>4, <1>7
<1>9. ASSUME NEW t \in Sides, NEW n \in Nodes, \A i \in 1 .. Len(P) : ~ At(s, P, i, t, n)
      PROVE  h[t][n] = g[t][n]
  <2>1. ~ (t = s /\ n = P[1])
    BY <1>5, <1>9 DEF At
  <2>2. R[t][n] = g[t][n]
    BY <1>2, <1>9 DEF Half
  <2> QED
    BY <2>1, <2>2, <1>7
<1> QED
  BY <1>1, <1>4, <1>6, <1>8, <1>9 DEF Grown

\* A node is on a path; its place there.
On(s, P, t, n) == \E i \in 1 .. Len(P) : At(s, P, i, t, n)
PlaceOn(s, P, t, n) == CHOOSE i \in 1 .. Len(P) : At(s, P, i, t, n)

\* A node of a simple path has one place on it.
LEMMA PlaceIs ==
    ASSUME NEW s \in Sides, NEW P \in Seq(Nodes), Simple(s, P), NEW i \in 1 .. Len(P)
    PROVE  PlaceOn(s, P, SideAt(s, i), P[i]) = i /\ On(s, P, SideAt(s, i), P[i])
<1>1. At(s, P, i, SideAt(s, i), P[i])
  BY DEF At
<1>2. PICK k \in 1 .. Len(P) : k = PlaceOn(s, P, SideAt(s, i), P[i]) /\ At(s, P, k, SideAt(s, i), P[i])
  BY <1>1 DEF PlaceOn
<1>3. ~ (i < k) /\ ~ (k < i)
  BY <1>2 DEF Simple, At
<1>4. i \in Int /\ k \in Int
  OBVIOUS
<1> QED
  BY <1>1, <1>2, <1>3, <1>4 DEF On

\* A path that is turned around and led to the start of a path that it does not
\* meet leaves a graph in which no path goes round: the nodes of the second path
\* keep their ranks, those of the first come above them in their new order, and
\* all others above both.
LEMMA GrownIsRanked ==
    ASSUME NEW E, NEW g, GraphOK(g, E), NEW M \in Nat, NEW r \in Ranks(M), Ranked(g, r),
           NEW s \in Sides, NEW P, IsPath(P, g, s), Simple(s, P),
           NEW Q, IsPath(Q, g, Other(s)), Ends(g, Other(s), Q),
           \A i \in 1 .. Len(P), j \in 1 .. Len(Q) : P[i] # Q[j],
           NEW h, h = Grown(g, s, P, Q[1]), GraphOK(h, E)
    PROVE  \E L \in Nat : \E q \in Ranks(L) : Ranked(h, q)
<1> DEFINE o == Other(s)
           low(t, n) == On(o, Q, t, n)
           rank(t, n) == IF low(t, n) THEN r[t][n]
                         ELSE IF On(s, P, t, n) THEN M + PlaceOn(s, P, t, n)
                         ELSE M + Len(P) + 1 + r[t][n]
           L == M + Len(P) + 1 + M
           q == [t \in Sides |-> [n \in Nodes |-> rank(t, n)]]
<1>1. /\ Len(P) \in Nat \ {0} /\ P \in Seq(Nodes) /\ Len(Q) \in Nat \ {0} /\ Q \in Seq(Nodes)
      /\ o \in Sides /\ Other(o) = s /\ SideAt(s, 1) = s /\ SideAt(o, 1) = o
  BY DEF IsPath, Other, Sides, SideAt
<1>2. \A t \in Sides, n \in Nodes : r[t][n] \in 0 .. M /\ (On(s, P, t, n) => PlaceOn(s, P, t, n) \in 1 .. Len(P))
  BY DEF Ranks, On, PlaceOn
<1>3. \A t \in Sides, n \in Nodes : rank(t, n) \in 0 .. L
  BY <1>1, <1>2
<1>4. q \in Ranks(L) /\ L \in Nat
  BY <1>1, <1>3 DEF Ranks
<1>5. \A t \in Sides, n \in Nodes : low(t, n) => ~ On(s, P, t, n)
  BY DEF On, At
<1>6. /\ h[s][P[1]] = Q[1]
      /\ \A i \in 1 .. Len(P) : i > 1 => h[SideAt(s, i)][P[i]] = P[i - 1]
      /\ \A t \in Sides, n \in Nodes : ~ On(s, P, t, n) => h[t][n] = g[t][n]
  BY GrownIs DEF On
<1>7. ASSUME NEW t \in Sides, NEW n \in Nodes, h[t][n] # 0
      PROVE  rank(Other(t), h[t][n]) < rank(t, n) /\ Other(t) \in Sides /\ h[t][n] \in Nodes
  <2>1. Other(t) \in Sides /\ h[t][n] \in Nodes
    BY <1>7 DEF GraphOK, Other, Sides
  <2>2. CASE low(t, n)
    <3>1. PICK j \in 1 .. Len(Q) : SideAt(o, j) = t /\ Q[j] = n
      BY <2>2 DEF On, At
    <3>2. h[t][n] = g[t][n]
      BY <2>2, <1>5, <1>6
    <3>3. j # Len(Q)
      BY <3>1, <3>2, <1>7 DEF Ends
    <3>4. j \in 1 .. Len(Q) - 1 /\ j + 1 \in 1 .. Len(Q) /\ j \in Nat
      BY <3>3, <1>1
    <3>5. Q[j + 1] = g[t][n]
      BY <3>1, <3>4 DEF IsPath
    <3>6. SideAt(o, j + 1) = Other(t)
      BY <3>1, <3>4, <1>1, SideNext
    <3>7. low(Other(t), h[t][n])
      BY <3>2, <3>4, <3>5, <3>6 DEF On, At
    <3>8. r[Other(t)][h[t][n]] < r[t][n]
      BY <3>2, <1>7 DEF Ranked
    <3> QED
      BY <2>1, <2>2, <3>7, <3>8
  <2>3. CASE On(s, P, t, n)
    <3>1. PICK i \in 1 .. Len(P) : SideAt(s, i) = t /\ P[i] = n
      BY <2>3 DEF On, At
    <3>2. rank(t, n) = M + i
      BY <2>3, <3>1, <1>1, <1>5, PlaceIs
    <3>3. CASE i = 1
      <4>1. h[t][n] = Q[1] /\ Other(t) = o
        BY <3>1, <3>3, <1>1, <1>6
      <4>2. 1 \in 1 .. Len(Q)
        BY <1>1
      <4>3. low(Other(t), h[t][n])
        BY <4>1, <4>2, <1>1 DEF On, At
      <4>4. r[Other(t)][h[t][n]] \in 0 .. M
        BY <2>1, <1>2
      <4> QED
        BY <2>1, <3>2, <3>3, <4>3, <4>4
    <3>4. CASE i # 1
      <4>1. PICK k \in 1 .. Len(P) : i = k + 1 /\ k = i - 1
        <5>1. i - 1 \in 1 .. Len(P) /\ i = (i - 1) + 1
          BY <3>4, <1>1
        <5> QED
          BY <5>1
      <4>2. k \in Nat /\ i > 1
        BY <4>1, <1>1
      <4>3. h[t][n] = P[k]
        BY <3>1, <4>1, <4>2, <1>6
      <4>4. SideAt(s, k) \in Sides /\ t = Other(SideAt(s, k))
        BY <3>1, <4>1, <4>2, SideNext, SideType
      <4>5. SideAt(s, k) = Other(t)
        BY <4>4 DEF Other, Sides
      <4>6. On(s, P, Other(t), h[t][n]) /\ PlaceOn(s, P, Other(t), h[t][n]) = k
        BY <4>3, <4>5, <1>1, PlaceIs
      <4>7. rank(Other(t), h[t][n]) = M + k
        BY <2>1, <4>6, <1>5
      <4> QED
        BY <2>1, <3>2, <4>1, <4>2, <4>7
    <3> QED
      BY <3>3, <3>4
  <2>4. CASE ~ low(t, n) /\ ~ On(s, P, t, n)
    <3>1. h[t][n] = g[t][n]
      BY <2>4, <1>6
    <3>2. r[Other(t)][h[t][n]] < r[t][n]
      BY <3>1, <1>7 DEF Ranked
    <3>3. rank(t, n) = M + Len(P) + 1 + r[t][n]
      BY <2>4
    <3>4. /\ r[Other(t)][h[t][n]] \in 0 .. M /\ r[t][n] \in 0 .. M
          /\ On(s, P, Other(t), h[t][n]) => PlaceOn(s, P, Other(t), h[t][n]) \in 1 .. Len(P)
      BY <2>1, <1>2
    <3> QED
      BY <2>1, <3>2, <3>3, <3>4, <1>1
  <2> QED
    BY <2>2, <2>3, <2>4
<1>8. Ranked(h, q)
  <2> SUFFICES ASSUME NEW t \in Sides, NEW n \in Nodes, h[t][n] # 0
               PROVE  q[Other(t)][h[t][n]] < q[t][n]
    BY DEF Ranked
  <2>1. q[t][n] = rank(t, n) /\ q[Other(t)][h[t][n]] = rank(Other(t), h[t][n])
    BY <1>7
  <2> QED
    BY <2>1, <1>7
<1> QED
  BY <1>4, <1>8

\* A path turned around still has its edges.
LEMMA GrownHas ==
    ASSUME NEW E, NEW g, GraphOK(g, E), NEW s \in Sides, NEW P, IsPath(P, g, s), Simple(s, P), Ends(g, s, P),
           NEW y, NEW h, h = Grown(g, s, P, y),
           NEW t \in Sides, NEW n \in Nodes, g[t][n] \in Nodes
    PROVE  h[t][n] = g[t][n] \/ h[Other(t)][g[t][n]] = n
<1>1. Len(P) \in Nat \ {0} /\ P \in Seq(Nodes) /\ 0 \notin Nodes
  BY FindCyclesAssumption DEF IsPath, Nodes
<1>2. /\ \A i \in 1 .. Len(P) : i > 1 => h[SideAt(s, i)][P[i]] = P[i - 1]
      /\ (\A i \in 1 .. Len(P) : ~ At(s, P, i, t, n)) => h[t][n] = g[t][n]
  BY GrownIs
<1>3. ASSUME NEW i \in 1 .. Len(P), At(s, P, i, t, n)
      PROVE  h[Other(t)][g[t][n]] = n
  <2>1. SideAt(s, i) = t /\ P[i] = n
    BY <1>3 DEF At
  <2>2. i # Len(P)
    BY <2>1, <1>1 DEF Ends
  <2>3. i \in 1 .. Len(P) - 1 /\ i + 1 \in 1 .. Len(P) /\ i \in Nat /\ i + 1 > 1 /\ (i + 1) - 1 = i
    BY <2>2, <1>1
  <2>4. P[i + 1] = g[t][n]
    BY <2>1, <2>3 DEF IsPath
  <2>5. SideAt(s, i + 1) = Other(t)
    BY <2>1, <2>3, SideNext
  <2> QED
    BY <2>1, <2>3, <2>4, <2>5, <1>2
<1> QED
  BY <1>2, <1>3

\* So no edge is lost when one is added.
LEMMA GrownHasEdge ==
    ASSUME NEW E, NEW g, GraphOK(g, E), NEW s \in Sides, NEW P, IsPath(P, g, s), Simple(s, P), Ends(g, s, P),
           NEW y, NEW h, h = Grown(g, s, P, y),
           NEW d, d[1] \in Nodes, d[2] \in Nodes, Has(g, d)
    PROVE  Has(h, d)
<1>1. "u" \in Sides /\ "v" \in Sides /\ Other("u") = "v" /\ Other("v") = "u"
  BY DEF Sides, Other
<1>2. CASE g["u"][d[1]] = d[2]
  <2>1. g["u"][d[1]] \in Nodes
    BY <1>2
  <2>2. h["u"][d[1]] = g["u"][d[1]] \/ h["v"][g["u"][d[1]]] = d[1]
    BY <2>1, <1>1, GrownHas
  <2> QED
    BY <2>2, <1>2 DEF Has
<1>3. CASE g["v"][d[2]] = d[1]
  <2>1. g["v"][d[2]] \in Nodes
    BY <1>3
  <2>2. h["v"][d[2]] = g["v"][d[2]] \/ h["u"][g["v"][d[2]]] = d[2]
    BY <2>1, <1>1, GrownHas
  <2> QED
    BY <2>2, <1>3 DEF Has
<1> QED
  BY <1>2, <1>3 DEF Has

----------------------------------------------------------------------------
(* Paths that meet.                                                        *)

\* No number is an end of edges on both sides.
NoAlias == {e[1] : e \in edges} \cap {e[2] : e \in edges} = {}

\* The nodes of a path are ends of edges, on alternate sides.
LEMMA PathEnds ==
    ASSUME NEW g, GraphOK(g, edges), NEW s \in Sides, NEW P, IsPath(P, g, s),
           \E e \in edges : P[1] = End(e, s), NEW k \in 1 .. Len(P)
    PROVE  \E e \in edges : P[k] = End(e, SideAt(s, k))
<1>1. Len(P) \in Nat /\ k \in Nat
  BY DEF IsPath
<1>2. CASE k = 1
  BY <1>2 DEF SideAt
<1>3. CASE k # 1
  <2>1. PICK j \in 1 .. Len(P) - 1 : k = j + 1
    <3>1. k - 1 \in 1 .. Len(P) - 1 /\ k = (k - 1) + 1
      BY <1>1, <1>3
    <3> QED
      BY <3>1
  <2>2. PICK e : e = (IF SideAt(s, j) = "u" THEN <<P[j], P[j + 1]>> ELSE <<P[j + 1], P[j]>>)
    OBVIOUS
  <2>3. e \in edges /\ SideAt(s, j) \in Sides
    BY <2>2, StepIsEdge
  <2>4. SideAt(s, k) = Other(SideAt(s, j))
    <3>1. j \in Nat
      BY <1>1
    <3> QED
      BY <2>1, <3>1, SideNext
  <2>5. P[k] = End(e, SideAt(s, k))
    BY <2>1, <2>2, <2>3, <2>4 DEF End, Other, Sides
  <2> QED
    BY <2>3, <2>5
<1> QED
  BY <1>2, <1>3

\* If no number is a node of both sides and the edge is not in the graph, the paths
\* from its ends meet in a cycle.
LEMMA MeetingCloses ==
    ASSUME NEW g, GraphOK(g, edges), NoAlias, NEW u, NEW v, IsPath(u, g, "u"), IsPath(v, g, "v"),
           <<u[1], v[1]>> \in edges, ~ Has(g, <<u[1], v[1]>>),
           NEW a, NEW b, MeetAt(u, v, a, b)
    PROVE  \E S \in SUBSET edges : IsCycle(S) /\ Cardinality(S) = a + b - 1
<1>1. /\ Len(u) \in Nat /\ DOMAIN u = 1 .. Len(u) /\ Len(v) \in Nat /\ DOMAIN v = 1 .. Len(v)
      /\ a \in Nat \ {0} /\ b \in Nat \ {0} /\ a \in 1 .. Len(u) /\ b \in 1 .. Len(v)
  BY DEF IsPath, MeetAt
<1>2. "u" \in Sides /\ "v" \in Sides
  BY DEF Sides
<1>3. PICK d \in edges : d = <<u[1], v[1]>>
  OBVIOUS
<1>4. u[1] = End(d, "u") /\ v[1] = End(d, "v")
  BY <1>3 DEF End
<1>5. \E e \in edges : u[a] = End(e, SideAt("u", a))
  BY <1>1, <1>2, <1>4, PathEnds
<1>6. \E e \in edges : v[b] = End(e, SideAt("v", b))
  BY <1>1, <1>2, <1>4, PathEnds
<1>7. SideAt("u", a) = SideAt("v", b)
  <2>1. SideAt("u", a) \in Sides /\ SideAt("v", b) \in Sides
    BY <1>1, <1>2, SideType
  <2> QED
    BY <2>1, <1>5, <1>6 DEF NoAlias, MeetAt, End, Sides
<1>8. (a % 2 = 1) <=> (b % 2 # 1)
  BY <1>7 DEF SideAt, Other
<1>9. (a + b - 1) % 2 = 0 /\ a + b - 1 \in Nat /\ a + b - 1 >= 2
  BY <1>1, <1>8
<1>10. a + b - 1 # 2
  <2> SUFFICES ASSUME a + b - 1 = 2 PROVE FALSE
    OBVIOUS
  <2>1. CASE a = 1
    <3>1. b = 2 /\ 1 \in 1 .. Len(v) - 1
      BY <2>1, <1>1
    <3>2. v[2] = g["v"][v[1]]
      BY <3>1 DEF IsPath, SideAt
    <3> QED
      BY <2>1, <3>1, <3>2 DEF MeetAt, Has
  <2>2. CASE a # 1
    <3>1. a = 2 /\ b = 1 /\ 1 \in 1 .. Len(u) - 1
      BY <2>2, <1>1
    <3>2. u[2] = g["u"][u[1]]
      BY <3>1 DEF IsPath, SideAt
    <3> QED
      BY <3>1, <3>2 DEF MeetAt, Has
  <2> QED
    BY <2>1, <2>2
<1>11. PICK n : n = a + b - 1
  OBVIOUS
<1>12. n \in Lengths
  BY <1>9, <1>10, <1>11 DEF Lengths
<1>13. PICK S : S = {<<u[1], v[1]>>} \cup PathEdges("u", u, a - 1) \cup PathEdges("v", v, b - 1)
  OBVIOUS
<1>14. Cardinality(S) = n /\ IsCycle(S)
  BY <1>11, <1>12, <1>13, MeetingIsCycle DEF MeetAt
<1>15. S \subseteq edges
  <2>1. PathEdges("u", u, a - 1) \subseteq edges
    BY <1>1, <1>2, StepsAreEdges
  <2>2. PathEdges("v", v, b - 1) \subseteq edges
    BY <1>1, <1>2, StepsAreEdges
  <2> QED
    BY <1>13, <2>1, <2>2
<1> QED
  BY <1>11, <1>14, <1>15

\* The cycles of the graph: C and no other.
Only(C) ==
    /\ C \subseteq edges /\ IsCycle(C) /\ Cardinality(C) = Target /\ NoAlias
    /\ \A S \in SUBSET edges : IsCycle(S) => S = C

\* An edge of a cycle shares each of its ends with another one.
LEMMA SharesEnd ==
    ASSUME NEW C, IsCycle(C), NEW d \in C, NEW s \in Sides
    PROVE  \E f \in C : f # d /\ End(f, s) = End(d, s)
<1> SUFFICES ASSUME \A f \in C : End(f, s) = End(d, s) => f = d PROVE FALSE
  OBVIOUS
<1>1. Cardinality({d}) = 1
  BY FS_Singleton
<1>2. CASE s = "u"
  <2>1. {e \in C : e[1] = d[1]} = {d}
    BY <1>2 DEF End
  <2>2. Degree(C, 1, d[1]) = 2
    BY DEF IsCycle, TwoAtEachNode
  <2>3. Cardinality({d}) = 2
    BY <2>1, <2>2 DEF Degree
  <2> QED
    BY <2>3, <1>1
<1>3. CASE s = "v"
  <2>1. {e \in C : e[2] = d[2]} = {d}
    BY <1>3 DEF End
  <2>2. Degree(C, 2, d[2]) = 2
    BY DEF IsCycle, TwoAtEachNode
  <2>3. Cardinality({d}) = 2
    BY <2>1, <2>2 DEF Degree
  <2> QED
    BY <2>3, <1>1
<1> QED
  BY <1>2, <1>3 DEF Sides

\* A cycle whose edges are all in the graph has no node of highest rank: both its
\* edges would lead from it.
LEMMA NoCycleInForest ==
    ASSUME NEW g, NEW M \in Nat, NEW r \in Ranks(M), Ranked(g, r), edges \subseteq Edge,
           NEW C \in SUBSET edges, IsCycle(C), \A d \in C : Has(g, d)
    PROVE  FALSE
<1> DEFINE T == {M - r[t][End(d, t)] : t \in Sides, d \in C}
<1>1. \A d \in C, t \in Sides : End(d, t) \in Nodes /\ r[t][End(d, t)] \in 0 .. M
  <2> TAKE d \in C, t \in Sides
  <2>1. End(d, t) \in Nodes
    BY DEF Edge, Nodes, End, Sides
  <2> QED
    BY <2>1 DEF Ranks
<1>2. T \subseteq Nat /\ T # {}
  <2>1. T \subseteq Nat
    BY <1>1
  <2>2. PICK d \in C : TRUE
    BY DEF IsCycle, TwoAtEachNode
  <2>3. "u" \in Sides
    BY DEF Sides
  <2>4. M - r["u"][End(d, "u")] \in T
    BY <2>3
  <2> HIDE DEF T
  <2> QED
    BY <2>1, <2>4
<1>3. PICK m \in T : \A k \in T : m <= k
  <2> HIDE DEF T
  <2> QED
    BY <1>2, Least
<1>4. PICK t \in Sides, d \in C : m = M - r[t][End(d, t)]
  OBVIOUS
<1>5. \A x \in Sides, f \in C : r[x][End(f, x)] <= r[t][End(d, t)]
  <2> TAKE x \in Sides, f \in C
  <2>1. m <= M - r[x][End(f, x)]
    BY <1>3
  <2>2. r[x][End(f, x)] \in 0 .. M /\ r[t][End(d, t)] \in 0 .. M
    BY <1>1
  <2> QED
    BY <2>1, <2>2, <1>4
<1>6. ASSUME NEW f \in C, End(f, t) = End(d, t)
      PROVE  g[t][End(d, t)] = End(f, Other(t))
  <2>1. CASE g[t][End(f, t)] = End(f, Other(t))
    BY <2>1, <1>6
  <2>2. CASE g[t][End(f, t)] # End(f, Other(t))
    <3>1. g[Other(t)][End(f, Other(t))] = End(f, t) /\ Other(t) \in Sides /\ Other(Other(t)) = t
      BY <2>2 DEF Has, Other, Sides, End
    <3>2. End(f, t) # 0 /\ End(f, Other(t)) \in Nodes
      <4>1. End(f, t) \in Nodes /\ End(f, Other(t)) \in Nodes
        BY <3>1, <1>1
      <4> QED
        BY <4>1, FindCyclesAssumption DEF Nodes
    <3>3. r[t][End(f, t)] < r[Other(t)][End(f, Other(t))]
      BY <3>1, <3>2 DEF Ranked
    <3>4. r[Other(t)][End(f, Other(t))] <= r[t][End(d, t)]
      BY <3>1, <1>5
    <3>5. r[t][End(d, t)] \in Nat /\ r[Other(t)][End(f, Other(t))] \in Nat
      <4>1. r[t][End(d, t)] \in 0 .. M /\ r[Other(t)][End(f, Other(t))] \in 0 .. M
        BY <3>1, <1>1
      <4> QED
        BY <4>1
    <3> QED
      BY <3>3, <3>4, <3>5, <1>6
  <2> QED
    BY <2>1, <2>2
<1>7. PICK f \in C : f # d /\ End(f, t) = End(d, t)
  BY SharesEnd
<1>8. End(f, Other(t)) = End(d, Other(t))
  BY <1>6, <1>7
<1> QED
  BY <1>7, <1>8 DEF End, Other, Sides, Edge

\* No path of the graph goes round.
Forest(g) == \E M \in Nat : \E r \in Ranks(M) : Ranked(g, r)

\* find_cycles for an edge whose paths do not meet: one more edge, and still no circle.
LEMMA GrownKeeps ==
    ASSUME NEW E, NEW g, GraphOK(g, E), Forest(g), NEW s \in Sides,
           NEW P, IsPath(P, g, s), Ends(g, s, P), NEW Q, IsPath(Q, g, Other(s)), Ends(g, Other(s), Q),
           \A i \in 1 .. Len(P), j \in 1 .. Len(Q) : P[i] # Q[j],
           NEW e \in E, e = IF s = "u" THEN <<P[1], Q[1]>> ELSE <<Q[1], P[1]>>,
           NEW h, h = Grown(g, s, P, Q[1])
    PROVE  /\ Forest(h) /\ Has(h, e) /\ GraphOK(h, E)
           /\ \A d \in Nodes \X Nodes : Has(g, d) => Has(h, d)
<1>1. PICK M \in Nat : \E r \in Ranks(M) : Ranked(g, r)
  BY DEF Forest
<1>2. PICK r \in Ranks(M) : Ranked(g, r)
  BY <1>1
<1>3. Simple(s, P)
  BY <1>2, PathIsSimple
<1>4. P[1] \in Nodes /\ Q[1] \in Nodes
  BY DEF IsPath
<1>5. GraphOK(ReversePath(g, s, P), E)
  BY ReverseKeeps
<1>6. GraphOK(h, E)
  BY <1>4, <1>5, PutKeeps DEF Grown
<1>7. Forest(h)
  <2>1. \E L \in Nat : \E q \in Ranks(L) : Ranked(h, q)
    BY <1>2, <1>3, <1>6, GrownIsRanked
  <2> QED
    BY <2>1 DEF Forest
<1>8. Has(h, e)
  <2>1. h[s][P[1]] = Q[1]
    BY <1>3, GrownIs
  <2> QED
    BY <2>1 DEF Has, Sides
<1>9. ASSUME NEW d \in Nodes \X Nodes, Has(g, d)
      PROVE  Has(h, d)
  <2>1. d[1] \in Nodes /\ d[2] \in Nodes
    OBVIOUS
  <2> QED
    BY <2>1, <1>3, <1>9, GrownHasEdge
<1> QED
  BY <1>6, <1>7, <1>8, <1>9

\* create_path is not cut where no path goes round and none of its edges is too long.
LEMMA PathIsWhole ==
    ASSUME NEW E, NEW g, GraphOK(g, E), Forest(g), NEW s \in Sides, NEW node \in Nodes,
           ShortPaths(E)
    PROVE  Ends(g, s, CreatePath(g, s, node))
<1>1. PICK M \in Nat : \E r \in Ranks(M) : Ranked(g, r)
  BY DEF Forest
<1>2. PICK r \in Ranks(M) : Ranked(g, r)
  BY <1>1
<1>3. PICK P : P = CreatePath(g, s, node)
  OBVIOUS
<1>4. IsPath(P, g, s)
  BY <1>3, CreatePathIsPath
<1>5. Simple(s, P)
  BY <1>2, <1>4, PathIsSimple
<1>6. \A k \in 1 .. Len(P) - 1 : StepEdge(s, P, k) \in E
  BY <1>4, StepIsEdge DEF StepEdge
<1>7. P \in Seq(Nodes) /\ Len(P) \in Nat /\ MaxPath \in Nat
  BY <1>4, FindCyclesAssumption DEF IsPath
<1>8. Len(P) < MaxPath
  BY <1>5, <1>6, <1>7 DEF ShortPaths
<1>9. Ends(g, s, P) \/ Len(P) = MaxPath
  BY <1>3, CreatePathEnds
<1> QED
  BY <1>3, <1>7, <1>8, <1>9

----------------------------------------------------------------------------
(* The search for the only cycle.                                          *)

\* The paths in what trimming leaves are shorter than create_path follows them.
PathsFit == round = Rounds => ShortPaths({<<e[1], e[2]>> : e \in left})

\* What is read and what was read are edges from E, whose paths are short.
Within(E) ==
    /\ GraphOK(graph, E) /\ \A e \in left : <<e[1], e[2]>> \in E
    /\ ShortPaths(E)

\* Until it is found, each edge of the cycle is still to be read or in the graph.
Searching(C) ==
    Only(C) /\ solutions = {} =>
      /\ Forest(graph)
      /\ \A d \in C : <<d[1], d[2], 1>> \in left \/ (round = Rounds /\ Has(graph, d))
      /\ round # Rounds => GraphOK(graph, {})
      /\ round = Rounds => \E E \in SUBSET edges : Within(E)

\* The inductive invariant for the only cycle.
OInv ==
    /\ FInv
    /\ IsFiniteSet(edges)
    /\ \A C \in SUBSET edges : Searching(C)

\* The edges of the graph, and so its cycles, stay the same.
LEMMA OnlyKeeps ==
    ASSUME edges' = edges, NEW C
    PROVE  Only(C)' <=> Only(C)
  BY DEF Only, NoAlias

\* An empty graph and what trimming has left.
LEMMA LeftAreWithin ==
    FInv /\ GraphOK(graph, {}) /\ PathsFit /\ round = Rounds => \E E \in SUBSET edges : Within(E)
<1> SUFFICES ASSUME FInv, GraphOK(graph, {}), PathsFit, round = Rounds
             PROVE  \E E \in SUBSET edges : Within(E)
  OBVIOUS
<1>1. PICK E : E = {<<e[1], e[2]>> : e \in left}
  OBVIOUS
<1>2. E \in SUBSET edges
  BY <1>1 DEF FInv
<1>3. ShortPaths(E)
  BY <1>1 DEF PathsFit
<1>4. GraphOK(graph, E)
  BY DEF GraphOK
<1>5. \A e \in left : <<e[1], e[2]>> \in E
  BY <1>1
<1> QED
  BY <1>2, <1>3, <1>4, <1>5 DEF Within

\* All edges are to be read, and an empty graph has no circle.
LEMMA SearchStarts == Init /\ PathsFit => OInv
<1> SUFFICES ASSUME Init, PathsFit PROVE OInv
  OBVIOUS
<1>1. FInv
  BY InitHolds
<1>2. IsFiniteSet(edges)
  <2>1. IsFiniteSet(Edge)
    BY FindCyclesAssumption, FS_Product DEF Edge
  <2>2. edges \subseteq Edge
    BY DEF Init
  <2> QED
    BY <2>1, <2>2, FS_Subset
<1>3. ASSUME NEW C \in SUBSET edges PROVE Searching(C)
  <2>1. Forest(graph)
    <3>1. PICK r : r = [t \in Sides |-> [n \in Nodes |-> 0]]
      OBVIOUS
    <3>2. r \in Ranks(0)
      BY <3>1 DEF Ranks
    <3>3. Ranked(graph, r)
      BY DEF Init, Ranked, Sides
    <3> QED
      BY <3>2, <3>3 DEF Forest
  <2>2. \A d \in C : <<d[1], d[2], 1>> \in left
    BY DEF Init
  <2>3. GraphOK(graph, {})
    BY DEF Init, GraphOK, Sides
  <2>4. round = Rounds => \E E \in SUBSET edges : Within(E)
    BY <2>3, <1>1, LeftAreWithin
  <2> QED
    BY <2>1, <2>2, <2>3, <2>4 DEF Searching
<1> QED
  BY <1>1, <1>2, <1>3 DEF OInv

\* Trimming keeps the edges of a cycle: each has another edge of it at its node.
LEMMA SearchTrims ==
    ASSUME OInv, Trim, PathsFit'
    PROVE  OInv'
<1>1. FInv'
  BY TrimStep DEF OInv
<1>2. edges' = edges /\ graph' = graph /\ solutions' = solutions /\ round # Rounds
  BY FindCyclesAssumption DEF Trim
<1>3. PICK s \in Sides : left' = TrimRound(left, s)
  BY DEF Trim, Sides
<1>4. ASSUME NEW C \in SUBSET edges PROVE Searching(C)'
  <2> SUFFICES ASSUME Only(C), solutions = {}
               PROVE  /\ Forest(graph)' /\ \A d \in C : <<d[1], d[2], 1>> \in left'
                      /\ GraphOK(graph, {})'
                      /\ (round = Rounds => \E E \in SUBSET edges : Within(E))'
    BY <1>2, OnlyKeeps DEF Searching
  <2>1. Forest(graph) /\ GraphOK(graph, {}) /\ \A d \in C : <<d[1], d[2], 1>> \in left
    BY <1>2 DEF OInv, Searching
  <2>2. Forest(graph)'
    BY <2>1, <1>2 DEF Forest, Ranked
  <2>3. ASSUME NEW d \in C PROVE <<d[1], d[2], 1>> \in left'
    <3>1. PICK f \in C : f # d /\ End(f, s) = End(d, s)
      BY SharesEnd DEF Only
    <3>2. d \in Edge /\ f \in Edge
      BY DEF OInv, FInv
    <3>3. <<f[1], f[2], 1>> # <<d[1], d[2], 1>>
      BY <3>1, <3>2 DEF Edge
    <3>4. End(<<f[1], f[2], 1>>, s) = End(<<d[1], d[2], 1>>, s)
      BY <3>1 DEF End
    <3> QED
      BY <3>3, <3>4, <2>1, <1>3 DEF TrimRound
  <2>4. GraphOK(graph, {})'
    BY <2>1, <1>2 DEF GraphOK
  <2>5. (round = Rounds => \E E \in SUBSET edges : Within(E))'
    <3>1. (FInv /\ GraphOK(graph, {}) /\ PathsFit /\ round = Rounds => \E E \in SUBSET edges : Within(E))'
      BY LeftAreWithin, PTL
    <3> QED
      BY <3>1, <2>4, <1>1
  <2> QED
    BY <2>2, <2>3, <2>4, <2>5
<1> QED
  BY <1>1, <1>2, <1>4 DEF OInv

\* find_cycles, while the only cycle is not found: an edge that is read is put into
\* the graph, and none that was there is lost.
LEMMA ReadKeeps ==
    ASSUME OInv, NEW C \in SUBSET edges, Only(C), NEW E \in SUBSET edges, Within(E),
           NEW e \in left, ReadEdge(e), solutions = {}, solutions' = {}
    PROVE  /\ Forest(graph') /\ Has(graph', e) /\ GraphOK(graph', E)
           /\ \A d \in edges : Has(graph, d) => Has(graph', d)
<1>1. /\ edges \subseteq Edge /\ <<e[1], e[2]>> \in edges /\ e[1] \in Nodes /\ e[2] \in Nodes
      /\ GraphOK(graph, edges) /\ IsFiniteSet(edges) /\ edges \subseteq Nodes \X Nodes
  BY DEF OInv, FInv, Edge, Nodes
<1>0. GraphOK(graph, E) /\ <<e[1], e[2]>> \in E /\ ShortPaths(E)
  BY DEF Within
<1>2. Forest(graph)
  BY DEF OInv, Searching
<1>3. PICK u : u = CreatePath(graph, "u", e[1])
  OBVIOUS
<1>4. PICK v : v = CreatePath(graph, "v", e[2])
  OBVIOUS
<1>5. "u" \in Sides /\ "v" \in Sides /\ Other("u") = "v" /\ Other("v") = "u" /\ "v" # "u"
  BY DEF Sides, Other
<1>6. IsPath(u, graph, "u") /\ u[1] = e[1] /\ IsPath(v, graph, "v") /\ v[1] = e[2]
  BY <1>1, <1>3, <1>4, <1>5, CreatePathIsPath
<1>7. Ends(graph, "u", u) /\ Ends(graph, "v", v)
  BY <1>0, <1>1, <1>2, <1>3, <1>4, <1>5, PathIsWhole
<1>8. Reads(u, v, e)
  <2>1. Reads(CreatePath(graph, "u", e[1]), CreatePath(graph, "v", e[2]), e)
    BY DEF ReadEdge, Reads, Has
  <2> QED
    BY <2>1, <1>3, <1>4
<1>9. PICK Join : Join = {i \in DOMAIN u : \E j \in DOMAIN v : v[j] = u[i]}
  OBVIOUS
<1>10. PICK a : a = Smallest(Join)
  OBVIOUS
<1>11. PICK b : b = Smallest({j \in DOMAIN v : v[j] = u[a]})
  OBVIOUS
<1>12. \/ Has(graph, e) /\ UNCHANGED graph
       \/ /\ ~ Has(graph, e) /\ ~ (Join # {} /\ a + b - 1 = Target)
          /\ \/ graph' = [ReversePath(graph, "v", v) EXCEPT !["v"][e[2]] = e[1]]
             \/ graph' = [ReversePath(graph, "u", u) EXCEPT !["u"][e[1]] = e[2]]
  BY <1>8, <1>9, <1>10, <1>11 DEF Reads
<1>13. CASE Has(graph, e) /\ UNCHANGED graph
  BY <1>0, <1>2, <1>13
<1>14. CASE /\ ~ Has(graph, e) /\ ~ (Join # {} /\ a + b - 1 = Target)
            /\ \/ graph' = [ReversePath(graph, "v", v) EXCEPT !["v"][e[2]] = e[1]]
               \/ graph' = [ReversePath(graph, "u", u) EXCEPT !["u"][e[1]] = e[2]]
  <2>1. Join = {}
    <3> SUFFICES ASSUME Join # {} PROVE FALSE
      OBVIOUS
    <3>1. u \in Seq(Nodes) /\ v \in Seq(Nodes)
      BY <1>6 DEF IsPath
    <3>2. MeetAt(u, v, a, b)
      BY <3>1, <1>9, <1>10, <1>11, FirstMeeting
    <3>3. ~ Has(graph, <<u[1], v[1]>>)
      BY <1>6, <1>14 DEF Has
    <3>4. <<u[1], v[1]>> \in edges /\ NoAlias
      BY <1>1, <1>6 DEF Only
    <3>5. PICK S \in SUBSET edges : IsCycle(S) /\ Cardinality(S) = a + b - 1
      BY <3>2, <3>3, <3>4, <1>1, <1>6, MeetingCloses
    <3>6. S = C /\ Cardinality(C) = Target
      BY <3>5 DEF Only
    <3> QED
      BY <3>5, <3>6, <1>14
  <2>2. \A i \in 1 .. Len(u), j \in 1 .. Len(v) : u[i] # v[j]
    <3>1. DOMAIN u = 1 .. Len(u) /\ DOMAIN v = 1 .. Len(v)
      BY <1>6 DEF IsPath
    <3> QED
      BY <2>1, <3>1, <1>9
  <2>3. CASE graph' = [ReversePath(graph, "v", v) EXCEPT !["v"][e[2]] = e[1]]
    <3>1. PICK h : h = graph'
      OBVIOUS
    <3>2. h = Grown(graph, "v", v, u[1])
      BY <2>3, <3>1, <1>6 DEF Grown
    <3>3. PICK d \in E : d = <<e[1], e[2]>>
      BY <1>0
    <3>4. d = IF "v" = "u" THEN <<v[1], u[1]>> ELSE <<u[1], v[1]>>
      BY <3>3, <1>5, <1>6
    <3>5. \A i \in 1 .. Len(v), j \in 1 .. Len(u) : v[i] # u[j]
      BY <2>2
    <3>6. IsPath(u, graph, Other("v")) /\ Ends(graph, Other("v"), u)
      BY <1>5, <1>6, <1>7
    <3>7. Forest(h) /\ Has(h, d) /\ GraphOK(h, E) /\ \A x \in Nodes \X Nodes : Has(graph, x) => Has(h, x)
      BY <3>5, <3>2, <3>4, <3>6, <1>0, <1>2, <1>5, <1>6, <1>7, GrownKeeps
    <3>8. Has(h, e)
      BY <3>3, <3>7 DEF Has
    <3> QED
      BY <3>1, <3>7, <3>8, <1>1
  <2>4. CASE graph' = [ReversePath(graph, "u", u) EXCEPT !["u"][e[1]] = e[2]]
    <3>1. PICK h : h = graph'
      OBVIOUS
    <3>2. h = Grown(graph, "u", u, v[1])
      BY <2>4, <3>1, <1>6 DEF Grown
    <3>3. PICK d \in E : d = <<e[1], e[2]>>
      BY <1>0
    <3>4. d = IF "u" = "u" THEN <<u[1], v[1]>> ELSE <<v[1], u[1]>>
      BY <3>3, <1>5, <1>6
    <3>6. IsPath(v, graph, Other("u")) /\ Ends(graph, Other("u"), v)
      BY <1>5, <1>6, <1>7
    <3>7. Forest(h) /\ Has(h, d) /\ GraphOK(h, E) /\ \A x \in Nodes \X Nodes : Has(graph, x) => Has(h, x)
      BY <2>2, <3>2, <3>4, <3>6, <1>0, <1>2, <1>5, <1>6, <1>7, GrownKeeps
    <3>8. Has(h, e)
      BY <3>3, <3>7 DEF Has
    <3> QED
      BY <3>1, <3>7, <3>8, <1>1
  <2> QED
    BY <2>3, <2>4, <1>14
<1> QED
  BY <1>12, <1>13, <1>14

\* Reading an edge puts it into the graph or finds the cycle.
LEMMA SearchReads ==
    ASSUME OInv, NEW e \in left, ReadEdge(e)
    PROVE  OInv'
<1>1. FInv'
  BY ReadStep DEF OInv
<1>2. /\ edges' = edges /\ round' = round /\ round = Rounds /\ left' = left \ {e}
      /\ solutions \subseteq solutions'
  BY DEF ReadEdge
<1>3. ASSUME NEW C \in SUBSET edges PROVE Searching(C)'
  <2> SUFFICES ASSUME Only(C), solutions' = {}
               PROVE  /\ Forest(graph)'
                      /\ \A d \in C : <<d[1], d[2], 1>> \in left' \/ Has(graph', d)
                      /\ (\E E \in SUBSET edges : Within(E))'
    BY <1>2, OnlyKeeps DEF Searching
  <2>1. solutions = {}
    BY <1>2
  <2>2. PICK E \in SUBSET edges : Within(E)
    BY <2>1, <1>2 DEF OInv, Searching
  <2>3. /\ Forest(graph') /\ Has(graph', e) /\ GraphOK(graph', E)
        /\ \A d \in edges : Has(graph, d) => Has(graph', d)
    BY <2>1, <2>2, ReadKeeps
  <2>4. Forest(graph)'
    BY <2>3 DEF Forest, Ranked
  <2>5. ASSUME NEW d \in C PROVE <<d[1], d[2], 1>> \in left' \/ Has(graph', d)
    <3>1. <<d[1], d[2], 1>> \in left \/ Has(graph, d)
      BY <2>1 DEF OInv, Searching
    <3>2. CASE <<d[1], d[2], 1>> = e
      <4>1. e[1] = d[1] /\ e[2] = d[2]
        BY <3>2
      <4> QED
        BY <4>1, <2>3 DEF Has
    <3> QED
      BY <3>1, <3>2, <2>3, <1>2
  <2>6. Within(E)'
    <3>1. GraphOK(graph, E)'
      BY <2>3 DEF GraphOK
    <3> QED
      BY <3>1, <2>2, <1>2 DEF Within
  <2> QED
    BY <2>4, <2>5, <2>6, <1>2
<1> QED
  BY <1>1, <1>2, <1>3 DEF OInv

\* OInv is an invariant where no path is cut.
LEMMA OInvHolds == Spec /\ []PathsFit => []OInv
<1>1. OInv /\ PathsFit' /\ [Next]_vars => OInv'
  <2> SUFFICES ASSUME OInv, PathsFit', [Next]_vars PROVE OInv'
    OBVIOUS
  <2>1. CASE UNCHANGED vars
    <3>1. FInv'
      BY <2>1 DEF vars, OInv, FInv, GraphOK, FoundAreCycles
    <3>2. ASSUME NEW C \in SUBSET edges PROVE Searching(C)'
      <4>1. Searching(C) /\ (Only(C)' <=> Only(C))
        BY <2>1, OnlyKeeps DEF OInv, vars
      <4>2. GraphOK(graph, {})' <=> GraphOK(graph, {})
        BY <2>1 DEF GraphOK, vars
      <4>3. (\E E \in SUBSET edges : Within(E))' <=> \E E \in SUBSET edges : Within(E)
        BY <2>1 DEF Within, GraphOK, vars
      <4>4. Forest(graph)' <=> Forest(graph)
        BY <2>1 DEF Forest, Ranked, vars
      <4> QED
        BY <2>1, <4>1, <4>2, <4>3, <4>4 DEF Searching, vars
    <3> QED
      BY <2>1, <3>1, <3>2 DEF OInv, vars
  <2> QED
    BY <2>1, SearchTrims, SearchReads DEF Next
<1> QED
  BY <1>1, SearchStarts, PTL DEF Spec

\* A set of one element.
LEMMA OneElement ==
    ASSUME NEW S, IsFiniteSet(S), Cardinality(S) = 1
    PROVE  \E x : S = {x}
<1>1. PICK x : x \in S
  <2>1. S # {}
    BY FS_EmptySet
  <2> QED
    BY <2>1
<1>2. IsFiniteSet(S \ {x}) /\ Cardinality(S \ {x}) = 0
  BY <1>1, FS_RemoveElement
<1>3. S \ {x} = {}
  BY <1>2, FS_EmptySet
<1> QED
  BY <1>1, <1>3

\* The only cycle of a graph is found, in whatever order the edges that trimming
\* leaves are read (c29.cpp:130), if it has the right length and none of their paths is
\* longer than create_path follows it (c29.cpp:87, 97); however many edges there are.
THEOREM CycleIsFound == Spec /\ []PathsFit => []OnlyCycleIsFound
<1>1. OInv => OnlyCycleIsFound
  <2> SUFFICES ASSUME OInv, round = Rounds, left = {},
                      NEW cycles, cycles = {S \in SUBSET edges : IsCycle(S)},
                      Cardinality(cycles) = 1, \A S \in cycles : Cardinality(S) = Target, NoAlias
               PROVE  solutions = cycles
    BY DEF OnlyCycleIsFound, NoAlias
  <2>1. IsFiniteSet(cycles)
    <3>1. IsFiniteSet(SUBSET edges) /\ cycles \subseteq SUBSET edges
      BY FS_SUBSET DEF OInv
    <3> QED
      BY <3>1, FS_Subset
  <2>2. PICK C : cycles = {C}
    BY <2>1, OneElement
  <2>3. C \in cycles
    BY <2>2
  <2>4. C \in SUBSET edges /\ IsCycle(C) /\ Cardinality(C) = Target
    BY <2>3
  <2>5. Only(C)
    BY <2>2, <2>4 DEF Only
  <2>6. solutions # {}
    <3> SUFFICES ASSUME solutions = {} PROVE FALSE
      OBVIOUS
    <3>1. Forest(graph) /\ \A d \in C : Has(graph, d)
      BY <2>4, <2>5 DEF OInv, Searching
    <3>2. PICK M \in Nat : \E r \in Ranks(M) : Ranked(graph, r)
      BY <3>1 DEF Forest
    <3>3. PICK r \in Ranks(M) : Ranked(graph, r)
      BY <3>2
    <3>4. edges \subseteq Edge
      BY DEF OInv, FInv
    <3> QED
      BY <2>4, <3>1, <3>3, <3>4, NoCycleInForest
  <2>7. \A S \in solutions : S = C
    BY <2>5 DEF OInv, FInv, FoundAreCycles, Only
  <2> QED
    BY <2>2, <2>6, <2>7
<1> QED
  BY <1>1, OInvHolds, PTL
=============================================================================
