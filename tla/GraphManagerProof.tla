-------------------------- MODULE GraphManagerProof --------------------------
(***************************************************************************)
(* Proofs about building a graph, for any number of nodes, dependencies    *)
(* and calls: a push adds what it says or nothing, what a manager holds    *)
(* has an order, and from_parts accepts exactly the graphs that have one.  *)
(***************************************************************************)
EXTENDS GraphManager, FiniteSetTheorems, SequenceTheorems, WellFoundedInduction, TLAPS

-----------------------------------------------------------------------------
(* Counting, and sequences without repetition. *)

\* Sets of places in a sequence.
LEMMA FiniteIndices ==
  ASSUME NEW m \in Nat, NEW S \in SUBSET (1 .. m)
  PROVE  /\ IsFiniteSet(S)
         /\ Cardinality(S) \in Nat
         /\ Cardinality(S) = 0 <=> S = {}
<1>1. IsFiniteSet(1 .. m)
  BY FS_Interval
<1>2. IsFiniteSet(S)
  BY <1>1, FS_Subset
<1> QED BY <1>2, FS_CardinalityType, FS_EmptySet

Distinct(s) == \A p, q \in DOMAIN s : s[p] = s[q] => p = q

Within(s, v) == \E i \in DOMAIN s : s[i] = v

\* An element is added that was not there.
LEMMA WithinAppend ==
  ASSUME NEW S, NEW s \in Seq(S), NEW e \in S
  PROVE  /\ \A v : Within(Append(s, e), v) <=> Within(s, v) \/ v = e
         /\ Distinct(s) /\ ~Within(s, e) => Distinct(Append(s, e))
<1>1. /\ DOMAIN s = 1 .. Len(s) /\ DOMAIN Append(s, e) = 1 .. Len(s) + 1 /\ Len(s) \in Nat
      /\ Append(s, e)[Len(s) + 1] = e
      /\ \A i \in 1 .. Len(s) : Append(s, e)[i] = s[i]
  OBVIOUS
<1>2. \A i : i \in 1 .. Len(s) + 1 <=> i \in 1 .. Len(s) \/ i = Len(s) + 1
  BY <1>1
<1>3. \A v : Within(Append(s, e), v) <=> Within(s, v) \/ v = e
  BY <1>1, <1>2 DEF Within
<1>4. Distinct(s) /\ ~Within(s, e) => Distinct(Append(s, e))
  BY <1>1, <1>2 DEF Within, Distinct
<1> QED BY <1>3, <1>4

\* The last element is taken away.
LEMMA WithoutLast ==
  ASSUME NEW S, NEW s \in Seq(S), s # <<>>, Distinct(s)
  PROVE  /\ s[Len(s)] \in S /\ Within(s, s[Len(s)])
         /\ SubSeq(s, 1, Len(s) - 1) \in Seq(S)
         /\ Distinct(SubSeq(s, 1, Len(s) - 1))
         /\ \A v : Within(SubSeq(s, 1, Len(s) - 1), v) <=> Within(s, v) /\ v # s[Len(s)]
<1> DEFINE t == SubSeq(s, 1, Len(s) - 1)
<1>1. /\ Len(s) \in Nat /\ DOMAIN s = 1 .. Len(s) /\ Len(s) \in 1 .. Len(s)
      /\ t \in Seq(S) /\ DOMAIN t = 1 .. Len(s) - 1
      /\ \A i \in 1 .. Len(s) - 1 : t[i] = s[i]
  <2>1. Len(s) \in Nat /\ DOMAIN s = 1 .. Len(s) /\ Len(s) # 0
    OBVIOUS
  <2>2. Len(s) - 1 \in Nat /\ Len(s) \in 1 .. Len(s)
    BY ONLY <2>1
  <2>3. \A i \in 1 .. Len(s) - 1 : s[i] \in S
    BY <2>1
  <2>4. PICK l \in Nat : l = Len(s) - 1
    BY <2>2
  <2>5. /\ SubSeq(s, 1, l) \in Seq(S)
        /\ Len(SubSeq(s, 1, l)) = IF 1 <= l THEN l - 1 + 1 ELSE 0
        /\ \A i \in 1 .. l - 1 + 1 : SubSeq(s, 1, l)[i] = s[1 + i - 1]
    <3>1. \A i \in 1 .. l : s[i] \in S
      BY <2>3, <2>4
    <3>2. 1 \in Int /\ l \in Int
      OBVIOUS
    <3> QED BY ONLY <3>1, <3>2, SubSeqProperties
  <2>6. t \in Seq(S) /\ Len(t) = l /\ DOMAIN t = 1 .. Len(t)
    BY <2>4, <2>5
  <2>7. ASSUME NEW i \in 1 .. l PROVE t[i] = s[i]
    <3>1. i \in 1 .. l - 1 + 1 /\ 1 + i - 1 = i
      OBVIOUS
    <3> QED BY <2>4, <2>5, <3>1
  <2> HIDE DEF t
  <2> QED BY <2>1, <2>2, <2>4, <2>6, <2>7
<1> HIDE DEF t
<1>2. \A i : i \in 1 .. Len(s) <=> i \in 1 .. Len(s) - 1 \/ i = Len(s)
  BY <1>1
<1>3. \A i \in 1 .. Len(s) - 1 : i # Len(s)
  <2>1. Len(s) \in Nat
    BY <1>1
  <2> QED BY ONLY <2>1
<1>4. s[Len(s)] \in S
  BY <1>1
<1>5. Distinct(t)
  BY <1>1, <1>2 DEF Distinct
<1>6. ASSUME NEW v PROVE Within(t, v) <=> Within(s, v) /\ v # s[Len(s)]
  BY <1>1, <1>2, <1>3 DEF Within, Distinct
<1>7. Within(s, s[Len(s)])
  BY <1>1 DEF Within
<1> QED BY <1>1, <1>4, <1>5, <1>6, <1>7 DEF t

-----------------------------------------------------------------------------

Edges == [from : Nat, to : Nat]

\* In a graph whose edges all go from a smaller to a larger number every set
\* of nodes has a first one: the smallest.
LEMMA ForwardEdgesHaveAnOrder ==
  ASSUME NEW n \in Nat, NEW s \in Seq(Edges), \A i \in DOMAIN s : s[i].from < s[i].to
  PROVE  ~Cyclic(n, s)
<1> SUFFICES ASSUME NEW S \in SUBSET NodeIds(n), S # {},
                    \A v \in S : \E i \in DOMAIN s : s[i].to = v /\ s[i].from \in S
             PROVE  FALSE
  BY DEF Cyclic
<1> DEFINE R == OpToRel(<, Nat)
<1>1. S \subseteq Nat
  BY DEF NodeIds
<1>2. PICK x \in S : \A y \in S : <<y, x>> \notin R
  <2>1. IsWellFoundedOn(R, Nat)
    BY NatLessThanWellFounded
  <2> HIDE DEF R
  <2> QED BY ONLY <2>1, <1>1, S # {}, WFMin
<1>3. PICK i \in DOMAIN s : s[i].to = x /\ s[i].from \in S
  OBVIOUS
<1>4. s[i].from < x
  BY <1>3
<1>5. <<s[i].from, x>> \in R
  BY <1>1, <1>3, <1>4 DEF OpToRel
<1> QED BY <1>2, <1>3, <1>5

\* A sequence is the concatenation of two others when its elements are theirs.
LEMMA ConcatByElements ==
  ASSUME NEW S, NEW s \in Seq(S), NEW t \in Seq(S), NEW u \in Seq(S),
         Len(u) = Len(s) + Len(t),
         \A i \in 1 .. Len(s) : u[i] = s[i],
         \A i \in 1 .. Len(t) : u[Len(s) + i] = t[i]
  PROVE  u = s \o t
<1>1. s \o t \in Seq(S) /\ Len(s \o t) = Len(u)
  OBVIOUS
<1>2. ASSUME NEW i \in 1 .. Len(u) PROVE u[i] = (s \o t)[i]
  <2>1. CASE i <= Len(s)
    BY <2>1
  <2>2. CASE i > Len(s)
    <3>1. PICK l \in 1 .. Len(t) : i = Len(s) + l
      <4>1. i - Len(s) \in 1 .. Len(t) /\ i = Len(s) + (i - Len(s))
        BY <2>2
      <4> QED BY ONLY <4>1
    <3> QED BY <3>1
  <2> QED BY <2>1, <2>2
<1> QED BY <1>1, <1>2

-----------------------------------------------------------------------------

Pushing == {"edges", "reach", "scan"}
FirstLen == Len(before.nodes)      \* the id of the node pushed
FirstEdges == Len(before.edges)

BuilderTypes ==
  /\ nodes \in Seq(Nat) /\ edges \in Seq(Edges)
  /\ before \in [nodes : Seq(Nat), edges : Seq(Edges)]
  /\ depends \in Seq(Nat) /\ k \in Nat \ {0} /\ edgeBase \in Nat
  /\ pc \in {"idle", "depends", "edges", "reach", "scan", "freeze", "degrees", "roots", "pop",
            "relax"}

\* Ids are places in the list, and edges go from earlier to later nodes.
Ordered ==
  /\ \A i \in 1 .. Len(nodes) : nodes[i] = i - 1
  /\ \A i \in 1 .. Len(edges) : edges[i].from < edges[i].to /\ edges[i].to < Len(nodes)

\* Before the node is pushed nothing has changed ...
Checking ==
  pc = "depends" =>
    /\ nodes = before.nodes /\ edges = before.edges
    /\ \A i \in 1 .. Len(depends) : i < k => depends[i] < Len(nodes)

\* ... then the node and the edges of the dependencies before k have been added ...
Adding ==
  pc \in Pushing =>
    /\ nodes = Append(before.nodes, FirstLen)
    /\ Len(edges) = FirstEdges + (k - 1)
    /\ \A i \in 1 .. FirstEdges : edges[i] = before.edges[i] /\ edges[i].to < FirstLen
    /\ \A i \in 1 .. k - 1 : edges[FirstEdges + i] = Edge(depends[i], FirstLen)
    /\ \A i \in 1 .. Len(depends) : depends[i] < FirstLen
    /\ k <= Len(depends) + 1

\* ... and the search never leaves the new node, where no edge begins.
Searching ==
  /\ pc \in {"reach", "scan"} => k <= Len(depends)
  /\ pc = "reach" => stack = <<>> \/ (stack = <<FirstLen>> /\ visited = {})
  /\ pc = "scan" => stack = <<>> /\ node = FirstLen /\ j \in Nat \ {0}

BuilderInvariant ==
  BuilderTypes /\ Ordered /\ Checking /\ Adding /\ Searching /\ PushIsAllOrNothing

LEMMA InitBuilder == Init => BuilderInvariant
BY DEF Init, NoParts, BuilderInvariant, BuilderTypes, Ordered, Checking, Adding, Searching,
       Pushing, PushIsAllOrNothing, Edges

\* Where the edges stand while dependency k is looked at.
LEMMA EdgesStartEarlier ==
  ASSUME BuilderInvariant, pc \in Pushing
  PROVE  /\ Len(nodes) = FirstLen + 1 /\ FirstLen \in Nat /\ NewNode = FirstLen
         /\ nodes[Len(nodes)] = FirstLen
         /\ \A i \in 1 .. Len(edges) : edges[i].from # FirstLen
         /\ k <= Len(depends) => ValidId(depends[k]) /\ ValidId(NewNode) /\ depends[k] # NewNode
<1> USE DEF BuilderInvariant, BuilderTypes, Adding, Ordered
<1>1. Len(nodes) = FirstLen + 1 /\ FirstLen \in Nat
  <2>1. before.nodes \in Seq(Nat) /\ nodes = Append(before.nodes, FirstLen)
    OBVIOUS
  <2> QED BY ONLY <2>1 DEF FirstLen
<1>2. NewNode = FirstLen /\ nodes[Len(nodes)] = FirstLen
  BY <1>1 DEF NewNode
<1>3. ASSUME NEW i \in 1 .. Len(edges) PROVE edges[i].from # FirstLen
  <2>1. edges[i] \in Edges
    BY ONLY edges \in Seq(Edges), i \in 1 .. Len(edges)
  <2>2. edges[i].from \in Nat /\ edges[i].to \in Nat
    BY <2>1 DEF Edges
  <2>3. edges[i].from < edges[i].to /\ edges[i].to < FirstLen + 1
    BY ONLY <1>1, Ordered, i \in 1 .. Len(edges)
  <2> QED BY ONLY <2>2, <2>3, <1>1
<1>4. ASSUME k <= Len(depends)
      PROVE  ValidId(depends[k]) /\ ValidId(NewNode) /\ depends[k] # NewNode
  <2>1. k \in 1 .. Len(depends) /\ depends[k] < FirstLen /\ depends[k] \in Nat
    <3>1. /\ k \in Nat \ {0} /\ depends \in Seq(Nat)
          /\ \A i \in 1 .. Len(depends) : depends[i] < FirstLen
      OBVIOUS
    <3> QED BY ONLY <3>1, <1>4
  <2>2. depends[k] + 1 \in 1 .. Len(nodes) /\ NewNode + 1 \in 1 .. Len(nodes)
    BY ONLY <2>1, <1>1, <1>2
  <2>3. nodes[depends[k] + 1] = depends[k] /\ nodes[NewNode + 1] = NewNode
    <3>1. \A i \in 1 .. Len(nodes) : nodes[i] = i - 1
      OBVIOUS
    <3> QED BY ONLY <3>1, <2>1, <2>2, <1>1, <1>2
  <2> QED BY ONLY <2>1, <2>3, <1>1, <1>2 DEF ValidId
<1> QED BY <1>1, <1>2, <1>3, <1>4

\* The calls that only read the manager, and steps of from_parts.
LEMMA FreezeKeepsBuilder ==
  ASSUME BuilderInvariant, BeginFreeze \/ BeginFromParts \/ FreezeStep
  PROVE  BuilderInvariant'
<1> USE DEF BuilderInvariant, BuilderTypes, Ordered, Checking, Adding, Searching, Pushing,
            PushIsAllOrNothing, pushVars, freezeVars
<1>1. CASE BeginFreeze
  BY <1>1 DEF BeginFreeze
<1>2. CASE BeginFromParts
  BY <1>2 DEF BeginFromParts
<1>3. CASE CheckParts
  BY <1>3 DEF CheckParts, EndFreeze, Finish
<1>4. CASE CountDegrees
  BY <1>4 DEF CountDegrees
<1>5. CASE CollectReady
  BY <1>5 DEF CollectReady
<1>6. CASE EndCollect
  BY <1>6 DEF EndCollect
<1>7. CASE PopReady
  BY <1>7 DEF PopReady
<1>8. CASE RelaxEdge
  BY <1>8 DEF RelaxEdge
<1>9. CASE EndRelax
  BY <1>9 DEF EndRelax
<1>10. CASE EndKahn
  BY <1>10 DEF EndKahn, EndFreeze, Finish
<1> QED BY <1>1, <1>2, <1>3, <1>4, <1>5, <1>6, <1>7, <1>8, <1>9, <1>10 DEF FreezeStep

LEMMA BeginPushKeepsBuilder ==
  ASSUME BuilderInvariant, BeginPush
  PROVE  BuilderInvariant'
<1> USE DEF BuilderInvariant, BuilderTypes, BeginPush
<1>1. depends' \in Seq(Nat)
  <2>1. PICK l \in 0 .. MaxDepends : depends' \in [1 .. l -> 0 .. MaxNodes]
    BY DEF SeqUpTo
  <2>2. l \in Nat /\ 0 .. MaxNodes \subseteq Nat
    BY BuilderAssumption
  <2> QED BY <2>1, <2>2
<1>2. BuilderTypes'
  BY <1>1
<1>3. Ordered' /\ Checking' /\ Adding' /\ Searching' /\ PushIsAllOrNothing'
  BY <1>1 DEF Ordered, Checking, Adding, Searching, Pushing, PushIsAllOrNothing
<1> QED BY <1>2, <1>3

LEMMA CheckDependKeepsBuilder ==
  ASSUME BuilderInvariant, CheckDepend
  PROVE  BuilderInvariant'
<1> USE DEF BuilderInvariant, BuilderTypes, CheckDepend, Finish
<1>1. CASE ValidId(depends[k])
  <2>1. depends[k] < Len(nodes)
    BY <1>1 DEF ValidId
  <2>2. BuilderTypes' /\ Ordered'
    <3>1. k' = k + 1 /\ UNCHANGED <<nodes, edges, pc, depends, edgeBase, before>>
      BY <1>1
    <3>2. BuilderTypes'
      BY ONLY <3>1, BuilderTypes DEF BuilderTypes
    <3> QED BY ONLY <3>1, <3>2, Ordered DEF Ordered
  <2>3. Checking'
    <3>1. /\ nodes = before.nodes /\ edges = before.edges
          /\ \A i \in 1 .. Len(depends) : i < k => depends[i] < Len(nodes)
      BY DEF Checking
    <3>2. /\ k' = k + 1 /\ k \in Nat
          /\ UNCHANGED <<nodes, edges, depends, before>>
      BY <1>1
    <3>3. ASSUME NEW i \in 1 .. Len(depends), i < k + 1 PROVE depends[i] < Len(nodes)
      <4>1. i < k \/ i = k
        BY ONLY <3>2, <3>3, depends \in Seq(Nat)
      <4> QED BY ONLY <4>1, <3>1, <2>1, i \in 1 .. Len(depends)
    <3> QED BY ONLY <3>1, <3>2, <3>3 DEF Checking
  <2>4. Adding' /\ Searching' /\ PushIsAllOrNothing'
    BY <1>1 DEF Adding, Searching, Pushing, PushIsAllOrNothing
  <2> QED BY <2>2, <2>3, <2>4
<1>2. CASE ~ValidId(depends[k])
  <2>1. ~(depends[k] < Len(before.nodes))
    <3>1. depends[k] \in Nat /\ nodes = before.nodes
      BY DEF Checking
    <3>2. depends[k] < Len(nodes) => depends[k] + 1 \in 1 .. Len(nodes)
      BY <3>1
    <3>3. depends[k] < Len(nodes) => nodes[depends[k] + 1] = depends[k]
      BY <3>1, <3>2 DEF Ordered
    <3> QED BY <3>1, <3>3, <1>2 DEF ValidId
  <2>2. BuilderTypes' /\ Ordered' /\ Checking' /\ Adding' /\ Searching'
    BY <1>2 DEF Ordered, Checking, Adding, Searching, Pushing
  <2>3. PushIsAllOrNothing'
    <3>1. k \in DOMAIN depends
      OBVIOUS
    <3>2. nodes' = before.nodes /\ edges' = before.edges /\ before' = before /\ depends' = depends
      BY DEF Checking
    <3>3. answer'.result = "InvalidDepend"
      BY <1>2
    <3> QED BY ONLY <2>1, <3>1, <3>2, <3>3 DEF PushIsAllOrNothing
  <2> QED BY <2>2, <2>3
<1> QED BY <1>1, <1>2

LEMMA PushNodeKeepsBuilder ==
  ASSUME BuilderInvariant, PushNode
  PROVE  BuilderInvariant'
<1> USE DEF BuilderInvariant, BuilderTypes, PushNode, Finish
<1>1. /\ nodes = before.nodes /\ edges = before.edges
      /\ \A i \in 1 .. Len(depends) : depends[i] < Len(nodes)
  BY DEF Checking
<1>2. CASE Len(nodes) > MaxU32
  <2>1. BuilderTypes' /\ Ordered' /\ Checking' /\ Adding' /\ Searching'
    BY <1>2 DEF Ordered, Checking, Adding, Searching, Pushing
  <2>2. PushIsAllOrNothing'
    <3>1. /\ nodes' = before.nodes /\ edges' = before.edges /\ before' = before /\ depends' = depends
          /\ answer'.result = "TooManyNodes" /\ Len(before.nodes) > MaxU32
      BY <1>1, <1>2
    <3>2. \A i \in DOMAIN depends : depends[i] < Len(before.nodes)
      BY <1>1
    <3> QED BY ONLY <3>1, <3>2 DEF PushIsAllOrNothing
  <2> QED BY <2>1, <2>2
<1>3. CASE ~(Len(nodes) > MaxU32)
  <2>1. nodes' = Append(nodes, Len(nodes)) /\ nodes' \in Seq(Nat) /\ Len(nodes') = Len(nodes) + 1
    <3>1. nodes' = Append(nodes, Len(nodes)) /\ nodes \in Seq(Nat) /\ Len(nodes) \in Nat
      BY <1>3
    <3> QED BY ONLY <3>1
  <2>2. BuilderTypes'
    BY <1>3, <2>1
  <2>3. Ordered'
    <3>1. ASSUME NEW i \in 1 .. Len(nodes') PROVE nodes'[i] = i - 1
      BY <2>1 DEF Ordered
    <3>2. ASSUME NEW i \in 1 .. Len(edges)
          PROVE  edges[i].from < edges[i].to /\ edges[i].to < Len(nodes) + 1
      <4>1. edges[i] \in Edges
        BY ONLY edges \in Seq(Edges), i \in 1 .. Len(edges)
      <4>2. edges[i].to \in Nat /\ Len(nodes) \in Nat
        BY <4>1 DEF Edges
      <4>3. edges[i].from < edges[i].to /\ edges[i].to < Len(nodes)
        BY DEF Ordered
      <4> QED BY ONLY <4>2, <4>3
    <3> QED BY <3>1, <3>2, <2>1 DEF Ordered
  <2>4. Adding'
    <3>1. nodes' = Append(before'.nodes, FirstLen') /\ FirstLen' = Len(nodes) /\ FirstEdges' = Len(edges)
      BY <1>1, <2>1 DEF FirstLen, FirstEdges
    <3>2. /\ k' = 1 /\ edges' = edges /\ depends' = depends /\ before' = before
      OBVIOUS
    <3>3. \A i \in 1 .. Len(edges) : edges[i] = before.edges[i] /\ edges[i].to < Len(nodes)
      BY <1>1 DEF Ordered
    <3>4. Len(edges) \in Nat /\ Len(depends) \in Nat
      OBVIOUS
    <3> QED BY ONLY <1>1, <3>1, <3>2, <3>3, <3>4 DEF Adding
  <2>5. Checking' /\ Searching' /\ PushIsAllOrNothing'
    BY <1>3 DEF Checking, Searching, PushIsAllOrNothing
  <2> QED BY <2>2, <2>3, <2>4, <2>5
<1> QED BY <1>2, <1>3

\* No dependency is refused: the search is always started.
LEMMA CheckEdgeMoves ==
  ASSUME BuilderInvariant, CheckEdge
  PROVE  /\ pc = "edges" /\ k <= Len(depends)
         /\ stack' = <<FirstLen>> /\ visited' = {} /\ pc' = "reach"
         /\ UNCHANGED <<nodes, edges, depends, k, edgeBase, node, j, freezeVars, before, answer>>
<1>1. pc = "edges" /\ pc \in Pushing /\ k <= Len(depends)
  BY DEF CheckEdge, Pushing
<1>2. ValidId(depends[k]) /\ ValidId(NewNode) /\ depends[k] # NewNode /\ NewNode = FirstLen
  BY <1>1, EdgesStartEarlier
<1> QED BY <1>1, <1>2 DEF CheckEdge

LEMMA CheckEdgeKeepsBuilder ==
  ASSUME BuilderInvariant, CheckEdge
  PROVE  BuilderInvariant'
BY CheckEdgeMoves DEF BuilderInvariant, BuilderTypes, Ordered, Checking, Adding, Searching,
                      Pushing, PushIsAllOrNothing, FirstLen, FirstEdges

\* The search visits the new node, which is not the dependency.
LEMMA VisitNodeMoves ==
  ASSUME BuilderInvariant, VisitNode
  PROVE  /\ pc = "reach" /\ k <= Len(depends)
         /\ stack' = <<>> /\ visited' = {FirstLen} /\ node' = FirstLen /\ j' = 1 /\ pc' = "scan"
         /\ UNCHANGED <<nodes, edges, depends, k, edgeBase, freezeVars, before, answer>>
<1>1. pc = "reach" /\ pc \in Pushing /\ k <= Len(depends) /\ stack = <<FirstLen>> /\ visited = {}
  BY DEF VisitNode, Pushing, BuilderInvariant, Searching
<1>2. /\ depends[k] # FirstLen /\ FirstLen \in Nat /\ Len(nodes) = FirstLen + 1
  BY <1>1, EdgesStartEarlier
<1>3. stack[Len(stack)] = FirstLen /\ SubSeq(stack, 1, Len(stack) - 1) = <<>>
  BY ONLY <1>1
<1>4. ~(FirstLen >= Len(nodes) \/ FirstLen \in visited)
  BY <1>1, <1>2
<1> QED BY <1>1, <1>2, <1>3, <1>4 DEF VisitNode

LEMMA VisitNodeKeepsBuilder ==
  ASSUME BuilderInvariant, VisitNode
  PROVE  BuilderInvariant'
<1>1. /\ pc = "reach" /\ k <= Len(depends)
      /\ stack' = <<>> /\ node' = FirstLen /\ j' = 1 /\ pc' = "scan"
      /\ UNCHANGED <<nodes, edges, depends, k, edgeBase, before, answer>>
  BY VisitNodeMoves
<1> QED BY ONLY <1>1, BuilderInvariant
        DEF BuilderInvariant, BuilderTypes, Ordered, Checking, Adding, Searching, Pushing,
            PushIsAllOrNothing, FirstLen, FirstEdges

\* No edge begins at the new node.
LEMMA ScanEdgeMoves ==
  ASSUME BuilderInvariant, ScanEdge
  PROVE  /\ pc = "scan" /\ node = FirstLen
         /\ stack = <<>> /\ stack' = <<>> /\ j' \in Nat \ {0}
         /\ UNCHANGED <<nodes, edges, pc, depends, k, edgeBase, visited, node, freezeVars, before,
                        answer>>
<1>1. pc = "scan" /\ pc \in Pushing /\ node = FirstLen /\ stack = <<>> /\ j \in Nat \ {0}
  BY DEF ScanEdge, Pushing, BuilderInvariant, Searching
<1>2. j \in 1 .. Len(edges)
  BY <1>1 DEF ScanEdge, BuilderInvariant, BuilderTypes
<1>3. edges[j].from # FirstLen
  BY <1>1, <1>2, EdgesStartEarlier
<1> QED BY <1>1, <1>3 DEF ScanEdge

LEMMA ScanKeepsBuilder ==
  ASSUME BuilderInvariant, ScanEdge \/ EndScan
  PROVE  BuilderInvariant'
<1> USE DEF BuilderInvariant, BuilderTypes, Ordered, Checking, Adding, Searching,
            Pushing, PushIsAllOrNothing, FirstLen, FirstEdges
<1>1. CASE ScanEdge
  <2> HIDE DEF BuilderInvariant
  <2>1. /\ pc = "scan" /\ node = FirstLen /\ stack' = <<>> /\ j' \in Nat \ {0}
        /\ UNCHANGED <<nodes, edges, pc, depends, k, edgeBase, node, before, answer>>
    BY <1>1, ScanEdgeMoves
  <2> QED BY ONLY <2>1, BuilderInvariant DEF BuilderInvariant
<1>2. CASE EndScan
  BY <1>2 DEF EndScan, pushVars
<1> QED BY <1>1, <1>2

LEMMA PushEdgeKeepsBuilder ==
  ASSUME BuilderInvariant, PushEdge
  PROVE  BuilderInvariant'
<1>1. pc = "reach" /\ pc \in Pushing /\ k \in 1 .. Len(depends)
  BY DEF PushEdge, Pushing, BuilderInvariant, BuilderTypes, Searching
<1>2. /\ depends[k] < FirstLen /\ depends[k] \in Nat /\ FirstLen \in Nat
      /\ NewNode = FirstLen /\ Len(nodes) = FirstLen + 1
  <2>1. depends \in Seq(Nat) /\ \A i \in 1 .. Len(depends) : depends[i] < FirstLen
    BY <1>1 DEF BuilderInvariant, BuilderTypes, Adding
  <2> QED BY <1>1, <2>1, EdgesStartEarlier
<1>3. PICK e \in Edges : e = Edge(depends[k], FirstLen) /\ e.from < e.to /\ e.to = FirstLen
  <2>1. Edge(depends[k], FirstLen) \in Edges
    BY ONLY <1>2 DEF Edges, Edge
  <2>2. Edge(depends[k], FirstLen).from = depends[k] /\ Edge(depends[k], FirstLen).to = FirstLen
    BY DEF Edge
  <2> QED BY <2>1, <2>2, <1>2
<1>4. /\ edges' = Append(edges, e) /\ edges \in Seq(Edges) /\ k' = k + 1 /\ pc' = "edges"
      /\ UNCHANGED <<nodes, depends, edgeBase, stack, visited, node, j, before, answer>>
  BY <1>2, <1>3 DEF PushEdge, BuilderInvariant, BuilderTypes
<1>5. /\ edges' \in Seq(Edges) /\ Len(edges') = Len(edges) + 1 /\ edges'[Len(edges) + 1] = e
      /\ \A i \in 1 .. Len(edges) : edges'[i] = edges[i]
  BY ONLY <1>3, <1>4
<1>6. BuilderTypes'
  BY <1>4, <1>5 DEF BuilderInvariant, BuilderTypes
<1>7. Ordered'
  <2>1. ASSUME NEW i \in 1 .. Len(edges')
        PROVE  edges'[i].from < edges'[i].to /\ edges'[i].to < Len(nodes)
    <3>1. CASE i = Len(edges) + 1
      BY ONLY <3>1, <1>2, <1>3, <1>5
    <3>2. CASE i # Len(edges) + 1
      <4>1. i \in 1 .. Len(edges)
        <5>1. Len(edges) \in Nat
          BY <1>4
        <5> QED BY ONLY <5>1, <3>2, <1>5, i \in 1 .. Len(edges')
      <4> QED BY <4>1, <1>5 DEF BuilderInvariant, Ordered
    <3> QED BY <3>1, <3>2
  <2> QED BY <2>1, <1>4 DEF BuilderInvariant, Ordered
<1>8. Adding'
  <2>1. /\ nodes = Append(before.nodes, FirstLen) /\ Len(edges) = FirstEdges + (k - 1)
        /\ \A i \in 1 .. FirstEdges : edges[i] = before.edges[i] /\ edges[i].to < FirstLen
        /\ \A i \in 1 .. k - 1 : edges[FirstEdges + i] = Edge(depends[i], FirstLen)
        /\ \A i \in 1 .. Len(depends) : depends[i] < FirstLen
    BY <1>1 DEF BuilderInvariant, Adding
  <2>2. FirstEdges \in Nat /\ k \in Nat \ {0} /\ Len(depends) \in Nat /\ k <= Len(depends)
    BY <1>1 DEF BuilderInvariant, BuilderTypes, FirstEdges
  <2>3. FirstLen' = FirstLen /\ FirstEdges' = FirstEdges
    BY <1>4 DEF FirstLen, FirstEdges
  <2>4. Len(edges') = FirstEdges + (k' - 1) /\ k' <= Len(depends) + 1
    BY ONLY <2>1, <2>2, <1>4, <1>5
  <2>5. \A i \in 1 .. FirstEdges : edges'[i] = before.edges[i] /\ edges'[i].to < FirstLen
    <3>1. 1 .. FirstEdges \subseteq 1 .. Len(edges)
      BY ONLY <2>1, <2>2
    <3> QED BY ONLY <3>1, <2>1, <1>5
  <2>6. ASSUME NEW i \in 1 .. k' - 1 PROVE edges'[FirstEdges + i] = Edge(depends[i], FirstLen)
    <3>1. CASE i = k
      <4>1. FirstEdges + i = Len(edges) + 1
        BY ONLY <3>1, <2>1, <2>2
      <4> QED BY ONLY <4>1, <3>1, <1>3, <1>5
    <3>2. CASE i # k
      <4>1. i \in 1 .. k - 1 /\ FirstEdges + i \in 1 .. Len(edges)
        BY ONLY <3>2, <2>1, <2>2, <1>4, i \in 1 .. k' - 1
      <4> QED BY ONLY <4>1, <2>1, <1>5
    <3> QED BY <3>1, <3>2
  <2> QED BY <1>4, <2>1, <2>3, <2>4, <2>5, <2>6 DEF Adding
<1>9. Checking' /\ Searching' /\ PushIsAllOrNothing'
  BY <1>4 DEF Checking, Searching, PushIsAllOrNothing
<1> QED BY <1>6, <1>7, <1>8, <1>9 DEF BuilderInvariant

\* When the call returns, the edges added are those of the dependencies.
LEMMA EndPushKeepsBuilder ==
  ASSUME BuilderInvariant, EndPush
  PROVE  BuilderInvariant'
<1>1. pc = "edges" /\ pc \in Pushing /\ k > Len(depends)
  BY DEF EndPush, Pushing
<1>2. /\ nodes = Append(before.nodes, FirstLen) /\ Len(edges) = FirstEdges + (k - 1)
      /\ \A i \in 1 .. FirstEdges : edges[i] = before.edges[i] /\ edges[i].to < FirstLen
      /\ \A i \in 1 .. k - 1 : edges[FirstEdges + i] = Edge(depends[i], FirstLen)
      /\ \A i \in 1 .. Len(depends) : depends[i] < FirstLen
      /\ k <= Len(depends) + 1
  BY <1>1 DEF BuilderInvariant, Adding
<1>3. /\ k \in Nat /\ Len(depends) \in Nat /\ depends \in Seq(Nat) /\ FirstLen \in Nat
      /\ edges \in Seq(Edges) /\ before.edges \in Seq(Edges)
  BY DEF BuilderInvariant, BuilderTypes, FirstLen
<1>4. k - 1 = Len(depends)
  BY ONLY <1>1, <1>2, <1>3
<1> DEFINE added == [i \in DOMAIN depends |-> Edge(depends[i], FirstLen)]
<1>5. added \in Seq(Edges) /\ Len(added) = Len(depends)
      /\ \A i \in 1 .. Len(depends) : added[i] = Edge(depends[i], FirstLen)
  <2>1. \A i \in 1 .. Len(depends) : Edge(depends[i], FirstLen) \in Edges
    BY <1>3 DEF Edge, Edges
  <2>2. DOMAIN depends = 1 .. Len(depends)
    BY <1>3
  <2> QED BY <2>1, <2>2, <1>3
<1>6. edges = before.edges \o added
  <2> HIDE DEF added
  <2>1. FirstEdges = Len(before.edges)
    BY DEF FirstEdges
  <2>2. Len(edges) = Len(before.edges) + Len(added)
    BY ONLY <1>2, <1>4, <1>5, <2>1
  <2>3. \A i \in 1 .. Len(before.edges) : edges[i] = before.edges[i]
    BY ONLY <1>2, <2>1
  <2>4. \A i \in 1 .. Len(added) : edges[Len(before.edges) + i] = added[i]
    BY ONLY <1>2, <1>4, <1>5, <2>1
  <2> QED BY ONLY <1>3, <1>5, <2>2, <2>3, <2>4, ConcatByElements
<1>7. PushIsAllOrNothing'
  <2>1. /\ UNCHANGED <<nodes, edges, before, depends>> /\ answer'.result = "Ok"
    BY DEF EndPush, Finish, pushVars
  <2>2. \A i \in DOMAIN depends : depends[i] < Len(before.nodes)
    BY <1>2, <1>3 DEF FirstLen
  <2> QED BY ONLY <1>2, <1>6, <2>1, <2>2 DEF PushIsAllOrNothing, FirstLen
<1> QED BY <1>7 DEF EndPush, Finish, pushVars, BuilderInvariant, BuilderTypes, Ordered, Checking,
                    Adding, Searching, Pushing

LEMMA NextBuilder == BuilderInvariant /\ [Next]_vars => BuilderInvariant'
<1> SUFFICES ASSUME BuilderInvariant, [Next]_vars PROVE BuilderInvariant'
  OBVIOUS
<1>1. CASE UNCHANGED vars
  BY <1>1 DEF vars, pushVars, freezeVars, BuilderInvariant, BuilderTypes, Ordered, Checking, Adding,
              Searching, PushIsAllOrNothing, FirstLen, FirstEdges
<1>2. CASE PushStep
  BY <1>2, CheckDependKeepsBuilder, PushNodeKeepsBuilder, CheckEdgeKeepsBuilder,
     VisitNodeKeepsBuilder, ScanKeepsBuilder, PushEdgeKeepsBuilder, EndPushKeepsBuilder DEF PushStep
<1> QED BY <1>1, <1>2, BeginPushKeepsBuilder, FreezeKeepsBuilder DEF Next

-----------------------------------------------------------------------------

\* The invariant above holds of every manager, between and inside calls.
THEOREM BuilderCorrect == Spec => []BuilderInvariant
BY InitBuilder, NextBuilder, PTL DEF Spec

\* push_kernel_depend_many adds a node and all its edges, or nothing, and is
\* refused only for a dependency that does not exist or for want of ids.
THEOREM PushesAreAllOrNothing == Spec => []PushIsAllOrNothing
<1>1. BuilderInvariant => PushIsAllOrNothing
  BY DEF BuilderInvariant
<1> QED BY <1>1, BuilderCorrect, PTL

\* The graph of a manager always has an order.
THEOREM BuiltGraphsAreOrdered == Spec => []BuiltGraphsHaveAnOrder
<1>1. BuilderInvariant => BuiltGraphsHaveAnOrder
  <2> SUFFICES ASSUME BuilderInvariant
               PROVE  /\ \A i \in DOMAIN nodes : nodes[i] = i - 1
                      /\ InRange(Len(nodes), edges)
                      /\ ~Cyclic(Len(nodes), edges)
    BY DEF BuiltGraphsHaveAnOrder
  <2>1. /\ nodes \in Seq(Nat) /\ edges \in Seq(Edges) /\ Len(nodes) \in Nat
        /\ DOMAIN nodes = 1 .. Len(nodes) /\ DOMAIN edges = 1 .. Len(edges)
    BY DEF BuilderInvariant, BuilderTypes
  <2>2. \A i \in DOMAIN nodes : nodes[i] = i - 1
    BY <2>1 DEF BuilderInvariant, Ordered
  <2>3. \A i \in DOMAIN edges : edges[i].from < edges[i].to /\ edges[i].to < Len(nodes)
    BY <2>1 DEF BuilderInvariant, Ordered
  <2>4. ASSUME NEW i \in DOMAIN edges
        PROVE  edges[i].from \in NodeIds(Len(nodes)) /\ edges[i].to \in NodeIds(Len(nodes))
    <3>1. edges[i] \in Edges
      BY ONLY <2>1, i \in DOMAIN edges
    <3>2. edges[i].from \in Nat /\ edges[i].to \in Nat
      BY <3>1 DEF Edges
    <3>3. edges[i].from < edges[i].to /\ edges[i].to < Len(nodes)
      BY ONLY <2>3, i \in DOMAIN edges
    <3> QED BY ONLY <2>1, <3>2, <3>3 DEF NodeIds
  <2>5. ~Cyclic(Len(nodes), edges)
    BY ONLY <2>1, <2>3, ForwardEdgesHaveAnOrder
  <2> QED BY <2>2, <2>4, <2>5 DEF InRange
<1> QED BY <1>1, BuilderCorrect, PTL
-----------------------------------------------------------------------------
(***************************************************************************)
(* has_cycle.  The nodes that left the ready list are those with indegree  *)
(* zero outside it.  A counter is the number of edges from nodes that have *)
(* not left, and of the edges of the current node still to be relaxed; no  *)
(* set of nodes without a first one loses a node.                          *)
(***************************************************************************)

Collecting == {"roots", "pop", "relax"}

\* For n nodes and edges es: the edges to v, those from outside D, and those
\* from u at or after place m.
EdgesTo(es, v) == {i \in 1 .. Len(es) : es[i].to = v}
EdgesOutside(es, D, v) == {i \in EdgesTo(es, v) : es[i].from \notin D}
EdgesLeft(es, u, m, v) == {i \in EdgesTo(es, v) : es[i].from = u /\ m <= i}

NodesDone(S, counts, r) == {v \in S : counts[v] = 0 /\ ~Within(r, v)}
Done == NodesDone(GivenIds, indegree, ready)

\* No node of the set can come first.
Stuck(es, S) == \A v \in S : \E i \in DOMAIN es : es[i].to = v /\ es[i].from \in S
StuckStay(es, S, D) == \A T \in SUBSET S : Stuck(es, T) => T \cap D = {}

\* The nodes of the list have no edges to wait for.
AllZero(S, counts, r) == \A v \in S : Within(r, v) => counts[v] = 0

PartsChecked ==
  pc \in {"degrees"} \cup Collecting =>
    /\ ~(GivenCount > MaxU32) /\ ~(Len(parts.edges) > MaxU32)
    /\ \A i \in 1 .. GivenCount : parts.nodes[i] = i - 1
    /\ InRange(GivenCount, parts.edges)

WhileRoots ==
  pc = "roots" =>
    /\ j <= GivenCount + 1
    /\ count = 0
    /\ Distinct(ready)
    /\ \A v \in GivenIds : indegree[v] = Cardinality(EdgesTo(parts.edges, v))
    /\ \A v \in GivenIds : Within(ready, v) <=> v < j - 1 /\ indegree[v] = 0

WhilePopping ==
  pc \in {"pop", "relax"} =>
    /\ Distinct(ready)
    /\ AllZero(GivenIds, indegree, ready)
    /\ count = Cardinality(Done)
    /\ StuckStay(parts.edges, GivenIds, Done)

\* While the edges of u are relaxed, the next one at place m.
CountsLeft(es, S, counts, D, u, m) ==
  \A v \in S : counts[v] = Cardinality(EdgesOutside(es, D, v) \cup EdgesLeft(es, u, m, v))

BetweenPops ==
  pc = "pop" =>
    \A v \in GivenIds : indegree[v] = Cardinality(EdgesOutside(parts.edges, Done, v))

WhileRelaxing ==
  pc = "relax" =>
    node \in Done /\ CountsLeft(parts.edges, GivenIds, indegree, Done, node, j)

FreezeInvariant ==
  /\ TypeOK
  /\ PartsChecked /\ WhileRoots /\ WhilePopping /\ BetweenPops /\ WhileRelaxing
  /\ FreezeIsExact

LEMMA InitFreeze == Init => FreezeInvariant
<1> SUFFICES ASSUME Init PROVE FreezeInvariant
  OBVIOUS
<1>1. TypeOK
  BY DEF Init, NoParts, TypeOK
<1> QED BY <1>1 DEF Init, FreezeInvariant, PartsChecked, WhileRoots, WhilePopping, BetweenPops,
                    WhileRelaxing, Collecting, FreezeIsExact

-----------------------------------------------------------------------------
(* The types. *)

\* The variables of the builder are typed by its invariant; the others are left.
LEMMA TypesOf ==
  TypeOK <=> /\ BuilderTypes
             /\ stack \in Seq(Nat) /\ visited \subseteq Nat /\ node \in Nat /\ j \in Nat \ {0}
             /\ parts \in [nodes : Seq(Nat), edges : Seq(Edges)]
             /\ pc \in Collecting => indegree \in [GivenIds -> Nat] /\ ready \in Seq(GivenIds)
             /\ count \in Nat
             /\ answer \in [call : {"none", "push", "freeze"},
                            result : {"Ok", "InvalidDepend", "TooManyNodes", "TooManyEdges",
                                      "CycleDetected", "SizeOverflow"}]
BY DEF TypeOK, BuilderTypes, Collecting, Edges

\* A step of a push.
LEMMA PushTypes ==
  ASSUME BuilderInvariant, BuilderInvariant', TypeOK, BeginPush \/ PushStep
  PROVE  /\ TypeOK'
         /\ pc' \notin {"degrees"} \cup Collecting
         /\ pc' = "idle" => answer'.call = "push"
<1>1. BuilderTypes'
  BY DEF BuilderInvariant
<1>2. /\ stack \in Seq(Nat) /\ visited \subseteq Nat /\ node \in Nat /\ j \in Nat \ {0}
      /\ parts \in [nodes : Seq(Nat), edges : Seq(Edges)] /\ count \in Nat
      /\ answer \in [call : {"none", "push", "freeze"},
                     result : {"Ok", "InvalidDepend", "TooManyNodes", "TooManyEdges",
                               "CycleDetected", "SizeOverflow"}]
  BY TypesOf
<1>3. FirstLen \in Nat
  BY DEF BuilderInvariant, BuilderTypes, FirstLen
<1>4. /\ stack' \in Seq(Nat) /\ visited' \subseteq Nat /\ node' \in Nat /\ j' \in Nat \ {0}
      /\ parts' \in [nodes : Seq(Nat), edges : Seq(Edges)] /\ count' \in Nat
      /\ answer' \in [call : {"none", "push", "freeze"},
                      result : {"Ok", "InvalidDepend", "TooManyNodes", "TooManyEdges",
                                "CycleDetected", "SizeOverflow"}]
      /\ pc' \notin {"degrees"} \cup Collecting
      /\ pc' = "idle" => answer'.call = "push"
  <2> USE DEF pushVars, freezeVars, Finish, Collecting
  <2>1. CASE BeginPush
    <3>1. parts' \in [nodes : Seq(Nat), edges : Seq(Edges)]
      BY <2>1 DEF BeginPush, NoParts
    <3> QED BY ONLY <1>2, <2>1, <3>1 DEF BeginPush, Collecting
  <2>2. CASE CheckDepend
    BY ONLY <1>2, <2>2 DEF CheckDepend, Finish, freezeVars, Collecting
  <2>3. CASE PushNode
    BY ONLY <1>2, <2>3 DEF PushNode, Finish, freezeVars, Collecting
  <2>4. CASE CheckEdge
    <3>1. /\ stack' = <<FirstLen>> /\ visited' = {} /\ pc' = "reach"
          /\ UNCHANGED <<node, j, freezeVars, answer>>
      BY <2>4, CheckEdgeMoves
    <3> QED BY ONLY <1>2, <1>3, <3>1 DEF freezeVars, Collecting
  <2>5. CASE VisitNode
    <3>1. /\ stack' = <<>> /\ visited' = {FirstLen} /\ node' = FirstLen /\ j' = 1 /\ pc' = "scan"
          /\ UNCHANGED <<freezeVars, answer>>
      BY <2>5, VisitNodeMoves
    <3> QED BY ONLY <1>2, <1>3, <3>1 DEF freezeVars, Collecting
  <2>6. CASE ScanEdge
    <3>1. /\ stack' = <<>> /\ j' \in Nat \ {0} /\ pc = "scan"
          /\ UNCHANGED <<pc, visited, node, freezeVars, answer>>
      BY <2>6, ScanEdgeMoves
    <3> QED BY ONLY <1>2, <3>1 DEF freezeVars, Collecting
  <2>7. CASE EndScan
    BY ONLY <1>2, <2>7 DEF EndScan, pushVars, freezeVars, Collecting
  <2>8. CASE PushEdge
    BY ONLY <1>2, <2>8 DEF PushEdge, freezeVars, Collecting
  <2>9. CASE EndPush
    BY ONLY <1>2, <2>9 DEF EndPush, Finish, pushVars, freezeVars, Collecting
  <2> QED BY <2>1, <2>2, <2>3, <2>4, <2>5, <2>6, <2>7, <2>8, <2>9 DEF PushStep
<1>5. TypeOK'
  BY ONLY <1>1, <1>4 DEF TypeOK, BuilderTypes, Edges, Collecting
<1> QED BY ONLY <1>4, <1>5

LEMMA PushKeepsFreeze ==
  ASSUME BuilderInvariant, BuilderInvariant', FreezeInvariant, BeginPush \/ PushStep
  PROVE  FreezeInvariant'
<1>1. TypeOK' /\ pc' \notin {"degrees"} \cup Collecting /\ (pc' = "idle" => answer'.call = "push")
  BY PushTypes DEF FreezeInvariant
<1> QED BY ONLY <1>1 DEF FreezeInvariant, PartsChecked, WhileRoots, WhilePopping, BetweenPops,
                         WhileRelaxing, Collecting, FreezeIsExact

-----------------------------------------------------------------------------
(* Sets of edges. *)

LEMMA EdgeSetsFinite ==
  ASSUME NEW es \in Seq(Edges), NEW v, NEW T \in SUBSET EdgesTo(es, v)
  PROVE  IsFiniteSet(T) /\ Cardinality(T) \in Nat /\ (Cardinality(T) = 0 <=> T = {})
<1>1. Len(es) \in Nat /\ T \in SUBSET (1 .. Len(es))
  BY DEF EdgesTo
<1> QED BY <1>1, FiniteIndices

\* The node that is popped joins those that left; its edges are all to be relaxed.
LEMMA NodePopped ==
  ASSUME NEW es \in Seq(Edges), NEW D, NEW u, u \notin D, NEW v
  PROVE  EdgesOutside(es, D \cup {u}, v) \cup EdgesLeft(es, u, 1, v) = EdgesOutside(es, D, v)
<1>1. \A i \in EdgesTo(es, v) : 1 <= i
  BY DEF EdgesTo
<1> QED BY <1>1 DEF EdgesOutside, EdgesLeft

\* An edge is passed over: it is another node's, or its end loses one.
LEMMA EdgePassed ==
  ASSUME NEW es \in Seq(Edges), NEW u, NEW m \in 1 .. Len(es), NEW v
  PROVE  /\ m \notin EdgesLeft(es, u, m + 1, v)
         /\ EdgesLeft(es, u, m, v) = IF es[m].from = u /\ es[m].to = v
                                     THEN EdgesLeft(es, u, m + 1, v) \cup {m}
                                     ELSE EdgesLeft(es, u, m + 1, v)
<1>1. m \in Nat /\ EdgesTo(es, v) \subseteq Nat
  BY DEF EdgesTo
<1>2. \A i \in Nat : m <= i <=> m + 1 <= i \/ i = m
  BY <1>1
<1>3. ~(m + 1 <= m)
  BY <1>1
<1>4. m \in EdgesTo(es, v) <=> es[m].to = v
  BY DEF EdgesTo
<1> QED BY <1>1, <1>2, <1>3, <1>4 DEF EdgesLeft

\* After the last edge of the list nothing is left.
LEMMA AllPassed ==
  ASSUME NEW es \in Seq(Edges), NEW u, NEW m \in Nat, m > Len(es), NEW v
  PROVE  EdgesLeft(es, u, m, v) = {}
BY DEF EdgesLeft, EdgesTo

\* A node with no edge from outside D is in no stuck set that D avoids.
LEMMA StuckStayPopped ==
  ASSUME NEW es \in Seq(Edges), NEW S, NEW D, NEW u \in S,
         StuckStay(es, S, D), EdgesOutside(es, D, u) = {}
  PROVE  StuckStay(es, S, D \cup {u})
<1> SUFFICES ASSUME NEW T \in SUBSET S, Stuck(es, T), u \in T PROVE FALSE
  BY DEF StuckStay
<1>1. T \cap D = {}
  BY DEF StuckStay
<1>2. PICK i \in DOMAIN es : es[i].to = u /\ es[i].from \in T
  BY DEF Stuck
<1>3. i \in EdgesOutside(es, D, u)
  <2>1. DOMAIN es = 1 .. Len(es)
    OBVIOUS
  <2> QED BY <1>1, <1>2, <2>1 DEF EdgesOutside, EdgesTo
<1> QED BY <1>3

\* The list loses its last node.
LEMMA DonePopped ==
  ASSUME NEW S, NEW counts, NEW r \in Seq(S), r # <<>>, Distinct(r), counts[r[Len(r)]] = 0
  PROVE  /\ r[Len(r)] \in S /\ r[Len(r)] \notin NodesDone(S, counts, r)
         /\ NodesDone(S, counts, SubSeq(r, 1, Len(r) - 1)) = NodesDone(S, counts, r) \cup {r[Len(r)]}
<1> DEFINE x == r[Len(r)]
           rest == SubSeq(r, 1, Len(r) - 1)
<1>1. /\ x \in S /\ Within(r, x)
      /\ \A v : Within(rest, v) <=> Within(r, v) /\ v # x
  BY WithoutLast
<1> HIDE DEF x, rest
<1>2. counts[x] = 0
  BY DEF x
<1>3. x \notin NodesDone(S, counts, r) /\ NodesDone(S, counts, rest) = NodesDone(S, counts, r) \cup {x}
  BY ONLY <1>1, <1>2 DEF NodesDone
<1> QED BY <1>1, <1>3 DEF x, rest

-----------------------------------------------------------------------------
(* The steps of freeze and from_parts. *)

LEMMA GivenFacts ==
  ASSUME TypeOK
  PROVE  /\ parts.nodes \in Seq(Nat) /\ parts.edges \in Seq(Edges)
         /\ GivenCount \in Nat /\ GivenIds = 0 .. GivenCount - 1 /\ GivenIds \subseteq Nat
         /\ Len(parts.edges) \in Nat /\ DOMAIN parts.edges = 1 .. Len(parts.edges)
<1>1. parts \in [nodes : Seq(Nat), edges : Seq(Edges)]
  BY TypesOf
<1>2. /\ parts.nodes \in Seq(Nat) /\ parts.edges \in Seq(Edges)
      /\ GivenCount \in Nat /\ Len(parts.edges) \in Nat /\ DOMAIN parts.edges = 1 .. Len(parts.edges)
  BY ONLY <1>1 DEF GivenCount
<1> QED BY <1>2 DEF GivenIds, NodeIds

LEMMA SameGiven ==
  ASSUME UNCHANGED parts
  PROVE  GivenCount' = GivenCount /\ GivenIds' = GivenIds
BY DEF GivenCount, GivenIds, NodeIds

\* The types after a step that leaves the builder alone and types the rest.
LEMMA FreezeTypes ==
  ASSUME BuilderInvariant', TypeOK, UNCHANGED <<stack, visited>>,
         node' \in Nat, j' \in Nat \ {0}, count' \in Nat,
         parts' \in [nodes : Seq(Nat), edges : Seq(Edges)],
         pc' \in Collecting => indegree' \in [GivenIds' -> Nat] /\ ready' \in Seq(GivenIds'),
         \/ answer' = answer
         \/ /\ answer'.result \in {"Ok", "InvalidDepend", "TooManyNodes", "TooManyEdges",
                                   "CycleDetected", "SizeOverflow"}
            /\ answer' = [call |-> "freeze", result |-> answer'.result]
  PROVE  TypeOK'
<1>1. BuilderTypes'
  BY DEF BuilderInvariant
<1>2. /\ stack' \in Seq(Nat) /\ visited' \subseteq Nat
      /\ answer' \in [call : {"none", "push", "freeze"},
                      result : {"Ok", "InvalidDepend", "TooManyNodes", "TooManyEdges",
                                "CycleDetected", "SizeOverflow"}]
  BY TypesOf
<1> QED BY <1>1, <1>2 DEF TypeOK, BuilderTypes, Edges, Collecting

LEMMA BeginFreezeStep ==
  ASSUME BuilderInvariant, BuilderInvariant', FreezeInvariant, BeginFreeze
  PROVE  FreezeInvariant'
<1>1. TypeOK /\ node \in Nat /\ j \in Nat \ {0} /\ count \in Nat
  BY TypesOf DEF FreezeInvariant
<1>2. parts' \in [nodes : Seq(Nat), edges : Seq(Edges)]
  BY DEF BeginFreeze, BuilderInvariant, BuilderTypes
<1>3. pc' = "freeze" /\ UNCHANGED <<stack, visited, node, j, count, answer>>
  BY DEF BeginFreeze, pushVars
<1>4. TypeOK'
  BY <1>1, <1>2, <1>3, FreezeTypes DEF Collecting
<1> QED BY ONLY <1>3, <1>4 DEF FreezeInvariant, PartsChecked, WhileRoots, WhilePopping, BetweenPops,
                               WhileRelaxing, Collecting, FreezeIsExact

LEMMA PartsAreTyped == PartsGiven \subseteq [nodes : Seq(Nat), edges : Seq(Edges)]
<1> SUFFICES ASSUME NEW p \in PartsGiven
             PROVE  p \in [nodes : Seq(Nat), edges : Seq(Edges)]
  OBVIOUS
<1> DEFINE right(n) == [i \in 1 .. n |-> i - 1]
           ids(n) == {right(n)} \cup {[right(n) EXCEPT ![i] = n] : i \in 1 .. n}
<1>1. PICK n \in 0 .. MaxPartNodes :
        p \in [nodes : ids(n), edges : SeqUpTo([from : 0 .. n, to : 0 .. n], MaxPartEdges)]
  BY DEF PartsGiven
<1>2. n \in Nat /\ MaxPartEdges \in Nat
  BY BuilderAssumption
<1>3. p.nodes \in Seq(Nat)
  <2>1. right(n) \in [1 .. n -> Nat]
    BY <1>2
  <2>2. \A i \in 1 .. n : [right(n) EXCEPT ![i] = n] \in [1 .. n -> Nat]
    BY <1>2, <2>1
  <2>3. p.nodes \in ids(n)
    BY <1>1
  <2>4. p.nodes \in [1 .. n -> Nat]
    BY <2>1, <2>2, <2>3
  <2> QED BY <1>2, <2>4
<1>4. p.edges \in Seq(Edges)
  <2>1. PICK l \in 0 .. MaxPartEdges : p.edges \in [1 .. l -> [from : 0 .. n, to : 0 .. n]]
    BY <1>1 DEF SeqUpTo
  <2>2. l \in Nat /\ 0 .. n \subseteq Nat
    BY <1>2
  <2>3. [from : 0 .. n, to : 0 .. n] \subseteq Edges
    BY <2>2 DEF Edges
  <2>4. p.edges \in [1 .. l -> Edges]
    BY <2>1, <2>3
  <2> QED BY <2>2, <2>4
<1>5. p = [nodes |-> p.nodes, edges |-> p.edges]
  BY <1>1
<1> QED BY ONLY <1>3, <1>4, <1>5

LEMMA BeginFromPartsStep ==
  ASSUME BuilderInvariant, BuilderInvariant', FreezeInvariant, BeginFromParts
  PROVE  FreezeInvariant'
<1>1. TypeOK /\ node \in Nat /\ j \in Nat \ {0} /\ count \in Nat
  BY TypesOf DEF FreezeInvariant
<1>2. parts' \in [nodes : Seq(Nat), edges : Seq(Edges)]
  BY PartsAreTyped DEF BeginFromParts
<1>3. pc' = "freeze" /\ UNCHANGED <<stack, visited, node, j, count, answer>>
  BY DEF BeginFromParts, pushVars
<1>4. TypeOK'
  BY <1>1, <1>2, <1>3, FreezeTypes DEF Collecting
<1> QED BY ONLY <1>3, <1>4 DEF FreezeInvariant, PartsChecked, WhileRoots, WhilePopping, BetweenPops,
                               WhileRelaxing, Collecting, FreezeIsExact

\* What a call that ends leaves.
LEMMA CallEnds ==
  ASSUME BuilderInvariant', FreezeInvariant,
         NEW result \in {"Ok", "InvalidDepend", "TooManyNodes", "TooManyEdges", "CycleDetected",
                         "SizeOverflow"},
         EndFreeze(result), UNCHANGED <<pushVars, parts>>, FreezeIsExact'
  PROVE  FreezeInvariant'
<1>1. /\ node \in Nat /\ j \in Nat \ {0} /\ parts \in [nodes : Seq(Nat), edges : Seq(Edges)]
      /\ TypeOK
  BY TypesOf DEF FreezeInvariant
<1>2. /\ pc' = "idle" /\ count' = 0 /\ answer' = [call |-> "freeze", result |-> result]
      /\ UNCHANGED <<stack, visited, node, j, parts>>
  BY DEF EndFreeze, Finish, pushVars
<1>3. TypeOK'
  BY <1>1, <1>2, FreezeTypes DEF Collecting
<1> QED BY ONLY <1>2, <1>3, FreezeIsExact'
        DEF FreezeInvariant, PartsChecked, WhileRoots, WhilePopping, BetweenPops, WhileRelaxing,
            Collecting

\* The endpoints that from_parts compares with the number of nodes.
LEMMA EndpointsInRange ==
  ASSUME TypeOK
  PROVE  InRange(GivenCount, parts.edges) <=>
           ~\E i \in DOMAIN parts.edges :
              parts.edges[i].from >= GivenCount \/ parts.edges[i].to >= GivenCount
<1>1. /\ parts.edges \in Seq(Edges) /\ GivenCount \in Nat
      /\ DOMAIN parts.edges = 1 .. Len(parts.edges)
  BY GivenFacts
<1>2. ASSUME NEW i \in DOMAIN parts.edges
      PROVE  /\ parts.edges[i].from \in NodeIds(GivenCount) <=> ~(parts.edges[i].from >= GivenCount)
             /\ parts.edges[i].to \in NodeIds(GivenCount) <=> ~(parts.edges[i].to >= GivenCount)
  <2>1. parts.edges[i] \in Edges
    BY ONLY <1>1, i \in DOMAIN parts.edges
  <2>2. parts.edges[i].from \in Nat /\ parts.edges[i].to \in Nat
    BY ONLY <2>1 DEF Edges
  <2> QED BY ONLY <1>1, <2>2 DEF NodeIds
<1> QED BY <1>2 DEF InRange

LEMMA CheckPartsStep ==
  ASSUME BuilderInvariant, BuilderInvariant', FreezeInvariant, CheckParts
  PROVE  FreezeInvariant'
<1> DEFINE misnumbered == \E i \in 1 .. GivenCount : parts.nodes[i] # i - 1
           wrong == \/ misnumbered
                    \/ \E i \in DOMAIN parts.edges :
                         parts.edges[i].from >= GivenCount \/ parts.edges[i].to >= GivenCount
<1>1. TypeOK /\ UNCHANGED <<pushVars, parts>> /\ GivenCount' = GivenCount
  BY SameGiven DEF CheckParts, FreezeInvariant
<1>2. InRange(GivenCount, parts.edges) <=>
           ~\E i \in DOMAIN parts.edges :
              parts.edges[i].from >= GivenCount \/ parts.edges[i].to >= GivenCount
  BY <1>1, EndpointsInRange
<1>3. CASE GivenCount > MaxU32
  <2>1. EndFreeze("TooManyNodes")
    BY <1>3 DEF CheckParts
  <2>2. FreezeIsExact'
    BY ONLY <1>1, <1>3, <2>1 DEF FreezeIsExact, EndFreeze, Finish
  <2> QED BY <1>1, <2>1, <2>2, CallEnds
<1>4. CASE ~(GivenCount > MaxU32) /\ Len(parts.edges) > MaxU32
  <2>1. EndFreeze("TooManyEdges")
    BY <1>4 DEF CheckParts
  <2>2. FreezeIsExact'
    BY ONLY <1>1, <1>4, <2>1 DEF FreezeIsExact, EndFreeze, Finish
  <2> QED BY <1>1, <2>1, <2>2, CallEnds
<1>5. CASE ~(GivenCount > MaxU32) /\ ~(Len(parts.edges) > MaxU32) /\ wrong
  <2>1. EndFreeze("InvalidDepend")
    BY <1>5 DEF CheckParts
  <2>2. ~((\A i \in 1 .. GivenCount : parts.nodes[i] = i - 1) /\ InRange(GivenCount, parts.edges))
    BY <1>2, <1>5
  <2>3. FreezeIsExact'
    BY ONLY <1>1, <1>5, <2>1, <2>2 DEF FreezeIsExact, EndFreeze, Finish
  <2> QED BY <1>1, <2>1, <2>3, CallEnds
<1>6. CASE ~(GivenCount > MaxU32) /\ ~(Len(parts.edges) > MaxU32) /\ ~wrong
  <2>1. pc' = "degrees" /\ UNCHANGED <<answer, indegree, ready, count, stack, visited, node, j, parts>>
    BY <1>6 DEF CheckParts, pushVars
  <2>2. /\ node \in Nat /\ j \in Nat \ {0} /\ count \in Nat
        /\ parts \in [nodes : Seq(Nat), edges : Seq(Edges)]
    BY <1>1, TypesOf
  <2>3. TypeOK'
    BY <1>1, <2>1, <2>2, FreezeTypes DEF Collecting
  <2>4. (\A i \in 1 .. GivenCount : parts.nodes[i] = i - 1) /\ InRange(GivenCount, parts.edges)
    BY <1>2, <1>6
  <2>5. PartsChecked'
    BY ONLY <1>1, <1>6, <2>1, <2>4 DEF PartsChecked
  <2> QED BY ONLY <2>1, <2>3, <2>5
          DEF FreezeInvariant, WhileRoots, WhilePopping, BetweenPops, WhileRelaxing, Collecting,
              FreezeIsExact
<1> QED BY <1>3, <1>4, <1>5, <1>6

-----------------------------------------------------------------------------
(* The steps of has_cycle. *)

LEMMA CountDegreesStep ==
  ASSUME BuilderInvariant, BuilderInvariant', FreezeInvariant, CountDegrees
  PROVE  FreezeInvariant'
<1>1. /\ TypeOK /\ PartsChecked /\ pc = "degrees" /\ pc' = "roots"
      /\ ready' = <<>> /\ count' = 0 /\ j' = 1
      /\ UNCHANGED <<stack, visited, node, parts, answer>>
      /\ indegree' = [v \in GivenIds |-> Cardinality({i \in DOMAIN parts.edges : parts.edges[i].to = v})]
  BY DEF CountDegrees, FreezeInvariant
<1>2. /\ parts.edges \in Seq(Edges) /\ DOMAIN parts.edges = 1 .. Len(parts.edges)
      /\ GivenCount \in Nat /\ GivenIds = 0 .. GivenCount - 1 /\ GivenIds \subseteq Nat
  BY <1>1, GivenFacts
<1>3. GivenCount' = GivenCount /\ GivenIds' = GivenIds
  BY <1>1, SameGiven
<1>4. indegree' = [v \in GivenIds |-> Cardinality(EdgesTo(parts.edges, v))]
  BY ONLY <1>1, <1>2 DEF EdgesTo
<1>5. \A v \in GivenIds : Cardinality(EdgesTo(parts.edges, v)) \in Nat
  BY <1>2, EdgeSetsFinite
<1>6. /\ indegree' \in [GivenIds -> Nat] /\ ready' \in Seq(GivenIds)
      /\ \A v \in GivenIds : indegree'[v] = Cardinality(EdgesTo(parts.edges, v))
  BY ONLY <1>1, <1>4, <1>5
<1>7. node \in Nat /\ parts \in [nodes : Seq(Nat), edges : Seq(Edges)]
  BY <1>1, TypesOf
<1>8. TypeOK'
  BY <1>1, <1>3, <1>6, <1>7, FreezeTypes
<1>9. PartsChecked'
  BY ONLY <1>1, <1>3 DEF PartsChecked, Collecting
<1>10. WhileRoots'
  <2>1. \A v \in GivenIds : ~(v < j' - 1)
    BY ONLY <1>1, <1>2
  <2>2. Distinct(ready') /\ \A v : ~Within(ready', v)
    BY ONLY <1>1 DEF Distinct, Within
  <2>3. j' <= GivenCount + 1
    BY ONLY <1>1, <1>2
  <2> QED BY ONLY <1>1, <1>3, <1>6, <2>1, <2>2, <2>3 DEF WhileRoots
<1> QED BY ONLY <1>1, <1>8, <1>9, <1>10
        DEF FreezeInvariant, WhilePopping, BetweenPops, WhileRelaxing, FreezeIsExact

LEMMA CollectReadyStep ==
  ASSUME BuilderInvariant, BuilderInvariant', FreezeInvariant, CollectReady
  PROVE  FreezeInvariant'
<1>1. /\ TypeOK /\ PartsChecked /\ WhileRoots /\ pc = "roots" /\ j <= GivenCount
      /\ ready' = IF indegree[j - 1] = 0 THEN Append(ready, j - 1) ELSE ready
      /\ j' = j + 1
      /\ UNCHANGED <<stack, visited, node, pc, parts, indegree, count, answer>>
  BY DEF CollectReady, FreezeInvariant
<1>2. /\ GivenCount \in Nat /\ GivenIds = 0 .. GivenCount - 1 /\ GivenIds \subseteq Nat
      /\ node \in Nat /\ j \in Nat \ {0} /\ count \in Nat
      /\ parts \in [nodes : Seq(Nat), edges : Seq(Edges)]
      /\ indegree \in [GivenIds -> Nat] /\ ready \in Seq(GivenIds)
  BY <1>1, GivenFacts, TypesOf DEF Collecting
<1>3. GivenCount' = GivenCount /\ GivenIds' = GivenIds
  BY <1>1, SameGiven
<1>4. j - 1 \in GivenIds
  BY ONLY <1>1, <1>2
<1>5. ~Within(ready, j - 1)
  <2>1. ~(j - 1 < j - 1)
    BY ONLY <1>2
  <2> QED BY <1>1, <1>4, <2>1 DEF WhileRoots
<1>6. /\ ready' \in Seq(GivenIds) /\ Distinct(ready')
      /\ \A v : Within(ready', v) <=> Within(ready, v) \/ (v = j - 1 /\ indegree[j - 1] = 0)
  <2>1. Distinct(ready)
    BY <1>1 DEF WhileRoots
  <2>2. CASE indegree[j - 1] = 0
    BY <1>1, <1>2, <1>4, <1>5, <2>1, <2>2, WithinAppend
  <2>3. CASE indegree[j - 1] # 0
    BY <1>1, <1>2, <2>1, <2>3
  <2> QED BY <2>2, <2>3
<1>7. TypeOK'
  BY <1>1, <1>2, <1>3, <1>6, FreezeTypes
<1>8. WhileRoots'
  <2>1. \A v \in GivenIds : v < j' - 1 <=> v < j - 1 \/ v = j - 1
    BY ONLY <1>1, <1>2
  <2>2. \A v \in GivenIds : Within(ready, v) <=> v < j - 1 /\ indegree[v] = 0
    BY <1>1 DEF WhileRoots
  <2>3. \A v \in GivenIds : Within(ready', v) <=> v < j' - 1 /\ indegree[v] = 0
    BY ONLY <1>6, <2>1, <2>2
  <2>4. j' <= GivenCount + 1
    BY ONLY <1>1, <1>2
  <2> QED BY ONLY <1>1, <1>3, <1>6, <2>3, <2>4 DEF WhileRoots
<1>9. PartsChecked'
  BY ONLY <1>1, <1>3 DEF PartsChecked, Collecting
<1> QED BY ONLY <1>1, <1>7, <1>8, <1>9
        DEF FreezeInvariant, WhilePopping, BetweenPops, WhileRelaxing, FreezeIsExact

\* No node has left the list when the first is popped.
LEMMA EndCollectStep ==
  ASSUME BuilderInvariant, BuilderInvariant', FreezeInvariant, EndCollect
  PROVE  FreezeInvariant'
<1>1. /\ TypeOK /\ PartsChecked /\ WhileRoots /\ pc = "roots" /\ j > GivenCount /\ pc' = "pop"
      /\ UNCHANGED <<stack, visited, node, j, parts, indegree, ready, count, answer>>
  BY DEF EndCollect, FreezeInvariant, pushVars, freezeVars
<1>2. /\ GivenCount \in Nat /\ GivenIds = 0 .. GivenCount - 1 /\ GivenIds \subseteq Nat
      /\ node \in Nat /\ j \in Nat \ {0} /\ count \in Nat
      /\ parts \in [nodes : Seq(Nat), edges : Seq(Edges)] /\ parts.edges \in Seq(Edges)
      /\ indegree \in [GivenIds -> Nat] /\ ready \in Seq(GivenIds)
  BY <1>1, GivenFacts, TypesOf DEF Collecting
<1>3. GivenCount' = GivenCount /\ GivenIds' = GivenIds /\ Done' = Done
  BY <1>1, SameGiven DEF Done
<1>4. TypeOK'
  BY <1>1, <1>2, <1>3, FreezeTypes
<1>5. /\ count = 0 /\ Distinct(ready)
      /\ \A v \in GivenIds : indegree[v] = Cardinality(EdgesTo(parts.edges, v))
      /\ \A v \in GivenIds : Within(ready, v) <=> v < j - 1 /\ indegree[v] = 0
  BY <1>1 DEF WhileRoots
<1>6. \A v \in GivenIds : v < j - 1
  BY ONLY <1>1, <1>2
<1>7. Done = {}
  BY ONLY <1>5, <1>6 DEF Done, NodesDone
<1>8. WhilePopping'
  <2>1. Cardinality({}) = 0
    BY FS_EmptySet
  <2>2. StuckStay(parts.edges, GivenIds, {})
    BY DEF StuckStay
  <2> QED BY ONLY <1>1, <1>3, <1>5, <1>6, <1>7, <2>1, <2>2 DEF WhilePopping, AllZero
<1>9. BetweenPops'
  <2>1. \A v : EdgesOutside(parts.edges, {}, v) = EdgesTo(parts.edges, v)
    BY DEF EdgesOutside
  <2> QED BY ONLY <1>1, <1>3, <1>5, <1>7, <2>1 DEF BetweenPops
<1>10. PartsChecked'
  BY ONLY <1>1, <1>3 DEF PartsChecked, Collecting
<1> QED BY ONLY <1>1, <1>4, <1>8, <1>9, <1>10
        DEF FreezeInvariant, WhileRoots, WhileRelaxing, FreezeIsExact

\* What is known while nodes are popped and their edges relaxed.
LEMMA PoppingFacts ==
  ASSUME FreezeInvariant, pc \in {"pop", "relax"}
  PROVE  /\ TypeOK /\ PartsChecked
         /\ GivenCount \in Nat /\ GivenIds = 0 .. GivenCount - 1 /\ GivenIds \subseteq Nat
         /\ parts \in [nodes : Seq(Nat), edges : Seq(Edges)]
         /\ parts.edges \in Seq(Edges) /\ DOMAIN parts.edges = 1 .. Len(parts.edges)
         /\ Len(parts.edges) \in Nat
         /\ node \in Nat /\ j \in Nat \ {0} /\ count \in Nat
         /\ indegree \in [GivenIds -> Nat] /\ ready \in Seq(GivenIds)
         /\ Done \subseteq GivenIds /\ IsFiniteSet(Done)
         /\ Distinct(ready) /\ AllZero(GivenIds, indegree, ready)
         /\ count = Cardinality(Done) /\ StuckStay(parts.edges, GivenIds, Done)
<1>1. TypeOK /\ PartsChecked /\ WhilePopping
  BY DEF FreezeInvariant
<1>2. /\ GivenCount \in Nat /\ GivenIds = 0 .. GivenCount - 1 /\ GivenIds \subseteq Nat
      /\ parts \in [nodes : Seq(Nat), edges : Seq(Edges)]
      /\ parts.edges \in Seq(Edges) /\ DOMAIN parts.edges = 1 .. Len(parts.edges)
      /\ Len(parts.edges) \in Nat
      /\ node \in Nat /\ j \in Nat \ {0} /\ count \in Nat
      /\ indegree \in [GivenIds -> Nat] /\ ready \in Seq(GivenIds)
  BY <1>1, GivenFacts, TypesOf DEF Collecting
<1>3. IsFiniteSet(0 .. GivenCount - 1)
  BY <1>2, FS_Interval
<1>4. Done \subseteq GivenIds
  BY DEF Done, NodesDone
<1>5. IsFiniteSet(Done)
  BY <1>2, <1>3, <1>4, FS_Subset
<1> QED BY <1>1, <1>2, <1>4, <1>5 DEF WhilePopping

LEMMA PopReadyStep ==
  ASSUME BuilderInvariant, BuilderInvariant', FreezeInvariant, PopReady
  PROVE  FreezeInvariant'
<1> DEFINE top == ready[Len(ready)]
           es == parts.edges
<1>1. /\ pc = "pop" /\ pc' = "relax" /\ ready # <<>> /\ node' = top /\ j' = 1
      /\ ready' = SubSeq(ready, 1, Len(ready) - 1) /\ count' = count + 1
      /\ UNCHANGED <<stack, visited, parts, indegree, answer>>
  BY DEF PopReady
<1>2. /\ TypeOK /\ PartsChecked
      /\ GivenIds \subseteq Nat /\ parts \in [nodes : Seq(Nat), edges : Seq(Edges)]
      /\ es \in Seq(Edges) /\ count \in Nat
      /\ indegree \in [GivenIds -> Nat] /\ ready \in Seq(GivenIds)
      /\ IsFiniteSet(Done)
      /\ Distinct(ready) /\ AllZero(GivenIds, indegree, ready)
      /\ count = Cardinality(Done) /\ StuckStay(es, GivenIds, Done)
  BY <1>1, PoppingFacts
<1>3. GivenCount' = GivenCount /\ GivenIds' = GivenIds
  BY <1>1, SameGiven
<1>4. /\ top \in GivenIds /\ ready' \in Seq(GivenIds) /\ Distinct(ready')
      /\ Within(ready, top) /\ \A v : Within(ready', v) => Within(ready, v)
  BY <1>1, <1>2, WithoutLast
<1>5. indegree[top] = 0
  BY <1>2, <1>4 DEF AllZero
<1>6. top \notin Done /\ Done' = Done \cup {top}
  BY <1>1, <1>2, <1>3, <1>5, DonePopped DEF Done
<1> HIDE DEF top
<1>7. TypeOK'
  <2>1. top \in Nat /\ count' \in Nat
    BY ONLY <1>1, <1>2, <1>4
  <2>2. /\ UNCHANGED <<stack, visited>> /\ node' \in Nat /\ j' \in Nat \ {0} /\ answer' = answer
        /\ parts' \in [nodes : Seq(Nat), edges : Seq(Edges)]
        /\ indegree' \in [GivenIds' -> Nat] /\ ready' \in Seq(GivenIds')
    BY ONLY <1>1, <1>2, <1>3, <1>4, <2>1
  <2> QED BY <1>2, <2>1, <2>2, FreezeTypes
<1>8. BetweenPops /\ \A v \in GivenIds : indegree[v] = Cardinality(EdgesOutside(es, Done, v))
  BY <1>1 DEF FreezeInvariant, BetweenPops
<1>9. EdgesOutside(es, Done, top) = {}
  <2>1. EdgesOutside(es, Done, top) \in SUBSET EdgesTo(es, top)
    BY DEF EdgesOutside
  <2> QED BY <1>2, <1>4, <1>5, <1>8, <2>1, EdgeSetsFinite
<1>10. WhilePopping'
  <2>1. Cardinality(Done \cup {top}) = Cardinality(Done) + 1
    BY <1>2, <1>6, FS_AddElement
  <2>2. StuckStay(es, GivenIds, Done \cup {top})
    BY <1>2, <1>4, <1>9, StuckStayPopped
  <2>3. AllZero(GivenIds, indegree, ready')
    BY <1>2, <1>4 DEF AllZero
  <2> QED BY ONLY <1>1, <1>2, <1>3, <1>4, <1>6, <2>1, <2>2, <2>3 DEF WhilePopping
<1>11. WhileRelaxing'
  <2>1. \A v \in GivenIds : EdgesOutside(es, Done \cup {top}, v) \cup EdgesLeft(es, top, 1, v)
                              = EdgesOutside(es, Done, v)
    BY <1>2, <1>6, NodePopped
  <2>2. \A v \in GivenIds : indegree[v] = Cardinality(EdgesOutside(es, Done \cup {top}, v)
                                                        \cup EdgesLeft(es, top, 1, v))
    BY <1>8, <2>1
  <2> QED BY ONLY <1>1, <1>3, <1>6, <2>2 DEF WhileRelaxing, CountsLeft
<1>12. PartsChecked'
  BY ONLY <1>1, <1>2, <1>3 DEF PartsChecked, Collecting
<1> QED BY ONLY <1>1, <1>7, <1>10, <1>11, <1>12
        DEF FreezeInvariant, WhileRoots, BetweenPops, FreezeIsExact

OneLess(counts, v) == [counts EXCEPT ![v] = @ - 1]

\* The counters after one edge of the popped node.
LEMMA RelaxCounts ==
  ASSUME NEW es \in Seq(Edges), NEW S, NEW counts \in [S -> Nat], NEW D, NEW u \in D,
         NEW m \in 1 .. Len(es), es[m].from = u, es[m].to \in S,
         CountsLeft(es, S, counts, D, u, m)
  PROVE  /\ counts[es[m].to] # 0
         /\ OneLess(counts, es[m].to) \in [S -> Nat]
         /\ CountsLeft(es, S, OneLess(counts, es[m].to), D, u, m + 1)
<1> DEFINE Before(v) == EdgesOutside(es, D, v) \cup EdgesLeft(es, u, m, v)
           After(v) == EdgesOutside(es, D, v) \cup EdgesLeft(es, u, m + 1, v)
           x == es[m].to
           less == [counts EXCEPT ![x] = @ - 1]
<1>1. \A v : /\ Before(v) = IF v = x THEN After(v) \cup {m} ELSE After(v)
             /\ m \notin After(v)
             /\ After(v) \in SUBSET EdgesTo(es, v)
  <2> TAKE v
  <2>1. /\ m \notin EdgesLeft(es, u, m + 1, v)
        /\ EdgesLeft(es, u, m, v) = IF es[m].from = u /\ es[m].to = v
                                    THEN EdgesLeft(es, u, m + 1, v) \cup {m}
                                    ELSE EdgesLeft(es, u, m + 1, v)
    BY EdgePassed
  <2>2. m \notin EdgesOutside(es, D, v)
    BY DEF EdgesOutside
  <2>3. After(v) \in SUBSET EdgesTo(es, v)
    BY DEF EdgesOutside, EdgesLeft
  <2>4. CASE v = x
    BY ONLY <2>1, <2>2, <2>3, <2>4, es[m].from = u
  <2>5. CASE v # x
    BY ONLY <2>1, <2>2, <2>3, <2>5
  <2> QED BY <2>4, <2>5
<1>2. \A v \in S : counts[v] = Cardinality(Before(v))
  BY DEF CountsLeft
<1> HIDE DEF Before, After, x
<1>3. \A v : IsFiniteSet(After(v)) /\ Cardinality(After(v)) \in Nat
  BY <1>1, EdgeSetsFinite
<1>4. Cardinality(After(x) \cup {m}) = Cardinality(After(x)) + 1
  BY <1>1, <1>3, FS_AddElement
<1>5. x \in S
  BY DEF x
<1>6. counts[x] = Cardinality(After(x)) + 1
  BY ONLY <1>1, <1>2, <1>4, <1>5
<1>7. counts[x] # 0 /\ counts[x] - 1 = Cardinality(After(x)) /\ counts[x] - 1 \in Nat
  BY ONLY <1>3, <1>6
<1>8. \A v \in S : less[v] = IF v = x THEN counts[x] - 1 ELSE counts[v]
  BY ONLY <1>5, counts \in [S -> Nat]
<1>9. less \in [S -> Nat]
  BY ONLY <1>7, counts \in [S -> Nat]
<1>10. \A v \in S : less[v] = Cardinality(After(v))
  BY ONLY <1>1, <1>2, <1>7, <1>8
<1> QED BY <1>7, <1>9, <1>10 DEF After, x, CountsLeft, OneLess

\* The counters after an edge of another node.
LEMMA OtherCounts ==
  ASSUME NEW es \in Seq(Edges), NEW S, NEW counts, NEW D, NEW u, NEW m \in 1 .. Len(es),
         es[m].from # u, CountsLeft(es, S, counts, D, u, m)
  PROVE  CountsLeft(es, S, counts, D, u, m + 1)
<1>1. ASSUME NEW v PROVE EdgesLeft(es, u, m, v) = EdgesLeft(es, u, m + 1, v)
  <2>1. EdgesLeft(es, u, m, v) = IF es[m].from = u /\ es[m].to = v
                                 THEN EdgesLeft(es, u, m + 1, v) \cup {m}
                                 ELSE EdgesLeft(es, u, m + 1, v)
    BY EdgePassed
  <2> QED BY ONLY <2>1, es[m].from # u
<1> QED BY <1>1 DEF CountsLeft

\* The nodes that left stay the same: the end of an edge that is relaxed either
\* waits on or joins the list.
LEMMA DoneKept ==
  ASSUME NEW S, NEW counts \in [S -> Nat], NEW r \in Seq(S), NEW x \in S, counts[x] # 0,
         NEW less \in [S -> Nat], less = OneLess(counts, x), Distinct(r), AllZero(S, counts, r)
  PROVE  /\ less[x] = 0 => /\ Append(r, x) \in Seq(S) /\ Distinct(Append(r, x))
                            /\ AllZero(S, less, Append(r, x))
                            /\ NodesDone(S, less, Append(r, x)) = NodesDone(S, counts, r)
         /\ less[x] # 0 => /\ AllZero(S, less, r)
                            /\ NodesDone(S, less, r) = NodesDone(S, counts, r)
<1>1. \A v \in S : v # x => less[v] = counts[v]
  BY ONLY counts \in [S -> Nat], less = OneLess(counts, x) DEF OneLess
<1>2. ~Within(r, x)
  BY DEF AllZero
<1>3. ASSUME less[x] = 0
      PROVE  /\ Append(r, x) \in Seq(S) /\ Distinct(Append(r, x))
             /\ AllZero(S, less, Append(r, x))
             /\ NodesDone(S, less, Append(r, x)) = NodesDone(S, counts, r)
  <2>1. /\ Append(r, x) \in Seq(S) /\ Distinct(Append(r, x))
        /\ \A v : Within(Append(r, x), v) <=> Within(r, v) \/ v = x
    BY <1>2, WithinAppend
  <2>2. AllZero(S, less, Append(r, x))
    BY <1>1, <1>2, <1>3, <2>1 DEF AllZero
  <2>3. NodesDone(S, less, Append(r, x)) = NodesDone(S, counts, r)
    BY <1>1, <1>3, <2>1 DEF NodesDone
  <2> QED BY <2>1, <2>2, <2>3
<1>4. ASSUME less[x] # 0
      PROVE  AllZero(S, less, r) /\ NodesDone(S, less, r) = NodesDone(S, counts, r)
  <2>1. AllZero(S, less, r)
    BY <1>1, <1>2 DEF AllZero
  <2>2. NodesDone(S, less, r) = NodesDone(S, counts, r)
    BY <1>1, <1>4 DEF NodesDone
  <2> QED BY <2>1, <2>2
<1> QED BY <1>3, <1>4

LEMMA RelaxEdgeStep ==
  ASSUME BuilderInvariant, BuilderInvariant', FreezeInvariant, RelaxEdge
  PROVE  FreezeInvariant'
<1> DEFINE es == parts.edges
           x == es[j].to
<1>1. /\ pc = "relax" /\ pc' = "relax" /\ j <= Len(es) /\ j' = j + 1
      /\ UNCHANGED <<stack, visited, node, parts, count, answer>>
      /\ IF es[j].from = node
         THEN /\ indegree' = [indegree EXCEPT ![x] = @ - 1]
              /\ ready' = IF indegree'[x] = 0 THEN Append(ready, x) ELSE ready
         ELSE UNCHANGED <<indegree, ready>>
  BY DEF RelaxEdge
<1>2. /\ TypeOK /\ PartsChecked
      /\ parts \in [nodes : Seq(Nat), edges : Seq(Edges)]
      /\ es \in Seq(Edges) /\ DOMAIN es = 1 .. Len(es) /\ Len(es) \in Nat
      /\ node \in Nat /\ j \in Nat \ {0} /\ count \in Nat
      /\ indegree \in [GivenIds -> Nat] /\ ready \in Seq(GivenIds)
      /\ Distinct(ready) /\ AllZero(GivenIds, indegree, ready)
      /\ count = Cardinality(Done) /\ StuckStay(es, GivenIds, Done)
  BY <1>1, PoppingFacts
<1>3. GivenCount' = GivenCount /\ GivenIds' = GivenIds
  BY <1>1, SameGiven
<1>4. node \in Done /\ CountsLeft(es, GivenIds, indegree, Done, node, j)
  BY <1>1 DEF FreezeInvariant, WhileRelaxing
<1>5. j \in 1 .. Len(es)
  BY ONLY <1>1, <1>2
<1>6. x \in GivenIds
  BY <1>1, <1>2, <1>5 DEF PartsChecked, Collecting, InRange, GivenIds
<1> HIDE DEF x
<1>7. /\ indegree' \in [GivenIds -> Nat] /\ ready' \in Seq(GivenIds) /\ Distinct(ready')
      /\ AllZero(GivenIds, indegree', ready')
      /\ NodesDone(GivenIds, indegree', ready') = Done
      /\ CountsLeft(es, GivenIds, indegree', Done, node, j + 1)
  <2>1. CASE es[j].from = node
    <3>1. /\ indegree' = OneLess(indegree, x)
          /\ ready' = IF indegree'[x] = 0 THEN Append(ready, x) ELSE ready
      BY <1>1, <2>1 DEF OneLess
    <3>2. /\ indegree[x] # 0 /\ indegree' \in [GivenIds -> Nat]
          /\ CountsLeft(es, GivenIds, indegree', Done, node, j + 1)
      <4>1. /\ es \in Seq(Edges) /\ indegree \in [GivenIds -> Nat] /\ node \in Done
            /\ j \in 1 .. Len(es) /\ es[j].from = node /\ es[j].to \in GivenIds
            /\ CountsLeft(es, GivenIds, indegree, Done, node, j)
        BY ONLY <1>2, <1>4, <1>5, <1>6, <2>1 DEF x
      <4>2. /\ indegree[es[j].to] # 0
            /\ OneLess(indegree, es[j].to) \in [GivenIds -> Nat]
            /\ CountsLeft(es, GivenIds, OneLess(indegree, es[j].to), Done, node, j + 1)
        BY ONLY <4>1, RelaxCounts
      <4> QED BY ONLY <3>1, <4>2 DEF x
    <3>3. /\ ready' \in Seq(GivenIds) /\ Distinct(ready')
          /\ AllZero(GivenIds, indegree', ready')
          /\ NodesDone(GivenIds, indegree', ready') = NodesDone(GivenIds, indegree, ready)
      <4>1. PICK less \in [GivenIds -> Nat] : less = indegree'
        BY ONLY <3>2
      <4>2. /\ indegree \in [GivenIds -> Nat] /\ ready \in Seq(GivenIds) /\ x \in GivenIds
            /\ indegree[x] # 0 /\ less \in [GivenIds -> Nat] /\ less = OneLess(indegree, x)
            /\ Distinct(ready) /\ AllZero(GivenIds, indegree, ready)
        BY ONLY <1>2, <1>6, <3>1, <3>2, <4>1
      <4>3. CASE less[x] = 0
        <5>1. ready' = Append(ready, x)
          BY <3>1, <4>1, <4>3
        <5>2. /\ Append(ready, x) \in Seq(GivenIds) /\ Distinct(Append(ready, x))
              /\ AllZero(GivenIds, less, Append(ready, x))
              /\ NodesDone(GivenIds, less, Append(ready, x)) = NodesDone(GivenIds, indegree, ready)
          BY ONLY <4>2, <4>3, DoneKept, SMTT(30)
        <5> QED BY ONLY <4>1, <5>1, <5>2
      <4>4. CASE less[x] # 0
        <5>1. ready' = ready
          BY <3>1, <4>1, <4>4
        <5> QED BY ONLY <4>1, <4>2, <4>4, <5>1, DoneKept
      <4> QED BY <4>3, <4>4
    <3> QED BY ONLY <3>2, <3>3 DEF Done
  <2>2. CASE es[j].from # node
    <3>1. UNCHANGED <<indegree, ready>>
      BY <1>1, <2>2
    <3>2. CountsLeft(es, GivenIds, indegree, Done, node, j + 1)
      BY ONLY <1>2, <1>4, <1>5, <2>2, OtherCounts
    <3> QED BY ONLY <1>2, <1>4, <3>1, <3>2 DEF Done
  <2> QED BY <2>1, <2>2
<1>8. Done' = Done
  BY ONLY <1>3, <1>7 DEF Done
<1>9. TypeOK'
  <2>1. /\ UNCHANGED <<stack, visited>> /\ node' \in Nat /\ j' \in Nat \ {0} /\ answer' = answer
        /\ parts' \in [nodes : Seq(Nat), edges : Seq(Edges)] /\ count' \in Nat
        /\ indegree' \in [GivenIds' -> Nat] /\ ready' \in Seq(GivenIds')
    BY ONLY <1>1, <1>2, <1>3, <1>7, SMTT(30)
  <2> QED BY <1>2, <2>1, FreezeTypes
<1>10. WhilePopping'
  BY ONLY <1>1, <1>2, <1>3, <1>7, <1>8 DEF WhilePopping
<1>11. WhileRelaxing'
  BY ONLY <1>1, <1>3, <1>4, <1>7, <1>8 DEF WhileRelaxing
<1>12. PartsChecked'
  BY ONLY <1>1, <1>2, <1>3 DEF PartsChecked, Collecting
<1> QED BY ONLY <1>1, <1>9, <1>10, <1>11, <1>12
        DEF FreezeInvariant, WhileRoots, BetweenPops, FreezeIsExact

LEMMA EndRelaxStep ==
  ASSUME BuilderInvariant, BuilderInvariant', FreezeInvariant, EndRelax
  PROVE  FreezeInvariant'
<1> DEFINE es == parts.edges
<1>1. /\ pc = "relax" /\ pc' = "pop" /\ j > Len(es)
      /\ UNCHANGED <<stack, visited, node, j, parts, indegree, ready, count, answer>>
  BY DEF EndRelax, pushVars, freezeVars
<1>2. /\ TypeOK /\ PartsChecked
      /\ parts \in [nodes : Seq(Nat), edges : Seq(Edges)] /\ es \in Seq(Edges)
      /\ node \in Nat /\ j \in Nat \ {0} /\ count \in Nat
      /\ indegree \in [GivenIds -> Nat] /\ ready \in Seq(GivenIds)
      /\ WhilePopping
  BY <1>1, PoppingFacts DEF FreezeInvariant
<1>3. GivenCount' = GivenCount /\ GivenIds' = GivenIds /\ Done' = Done
  BY <1>1, SameGiven DEF Done
<1>4. CountsLeft(es, GivenIds, indegree, Done, node, j)
  BY <1>1 DEF FreezeInvariant, WhileRelaxing
<1>5. \A v : EdgesLeft(es, node, j, v) = {}
  BY <1>1, <1>2, AllPassed
<1>6. TypeOK'
  BY <1>1, <1>2, <1>3, FreezeTypes
<1>7. WhilePopping'
  BY ONLY <1>1, <1>2, <1>3 DEF WhilePopping
<1>8. BetweenPops'
  BY ONLY <1>1, <1>3, <1>4, <1>5 DEF BetweenPops, CountsLeft
<1>9. PartsChecked'
  BY ONLY <1>1, <1>2, <1>3 DEF PartsChecked, Collecting
<1> QED BY ONLY <1>1, <1>6, <1>7, <1>8, <1>9
        DEF FreezeInvariant, WhileRoots, WhileRelaxing, FreezeIsExact

\* When the list is empty, the nodes that did not leave are a set without a
\* first one; when all left, there is no such set.
LEMMA CycleFound ==
  ASSUME FreezeInvariant, pc = "pop", ready = <<>>
  PROVE  count # GivenCount <=> Cyclic(GivenCount, parts.edges)
<1> DEFINE es == parts.edges
<1>1. /\ GivenCount \in Nat /\ GivenIds = 0 .. GivenCount - 1 /\ es \in Seq(Edges)
      /\ DOMAIN es = 1 .. Len(es)
      /\ indegree \in [GivenIds -> Nat]
      /\ Done \subseteq GivenIds /\ IsFiniteSet(Done) /\ count = Cardinality(Done)
      /\ StuckStay(es, GivenIds, Done) /\ InRange(GivenCount, es)
  BY PoppingFacts DEF PartsChecked, Collecting
<1>2. \A v \in GivenIds : indegree[v] = Cardinality(EdgesOutside(es, Done, v))
  BY DEF FreezeInvariant, BetweenPops
<1>3. \A v : ~Within(ready, v)
  BY DEF Within
<1>4. IsFiniteSet(GivenIds) /\ Cardinality(GivenIds) = GivenCount
  <2>1. PICK g \in Nat : g = GivenCount
    BY <1>1
  <2>2. IsFiniteSet(0 .. g - 1) /\ Cardinality(0 .. g - 1) = g
    BY FS_Interval
  <2> QED BY <1>1, <2>1, <2>2
<1>5. ASSUME count # GivenCount PROVE Cyclic(GivenCount, es)
  <2> DEFINE S == GivenIds \ Done
  <2>1. S # {} /\ S \in SUBSET NodeIds(GivenCount)
    BY <1>1, <1>4, <1>5 DEF GivenIds
  <2>2. ASSUME NEW v \in S PROVE \E i \in DOMAIN es : es[i].to = v /\ es[i].from \in S
    <3>1. indegree[v] # 0
      BY <1>3 DEF Done, NodesDone
    <3>2. EdgesOutside(es, Done, v) \in SUBSET EdgesTo(es, v)
      BY DEF EdgesOutside
    <3>3. EdgesOutside(es, Done, v) # {}
      BY <1>1, <1>2, <3>1, <3>2, EdgeSetsFinite
    <3>4. PICK i \in 1 .. Len(es) : es[i].to = v /\ es[i].from \notin Done
      BY <3>3 DEF EdgesOutside, EdgesTo
    <3>5. es[i].from \in GivenIds
      BY <1>1, <3>4 DEF InRange, GivenIds
    <3> QED BY <1>1, <3>4, <3>5
  <2> QED BY <2>1, <2>2 DEF Cyclic
<1>6. ASSUME Cyclic(GivenCount, es), count = GivenCount PROVE FALSE
  <2>1. PICK S \in SUBSET GivenIds :
          S # {} /\ \A v \in S : \E i \in DOMAIN es : es[i].to = v /\ es[i].from \in S
    BY <1>6 DEF Cyclic, GivenIds
  <2>2. Done = GivenIds
    BY <1>1, <1>4, <1>6, FS_Subset
  <2>3. S \cap Done = {}
    BY <1>1, <2>1 DEF StuckStay, Stuck
  <2> QED BY <2>1, <2>2, <2>3
<1> QED BY <1>5, <1>6

LEMMA EndKahnStep ==
  ASSUME BuilderInvariant, BuilderInvariant', FreezeInvariant, EndKahn
  PROVE  FreezeInvariant'
<1> DEFINE result == IF count # GivenCount THEN "CycleDetected"
                     ELSE IF ~SizeFits(GivenCount, Len(parts.edges)) THEN "SizeOverflow"
                     ELSE "Ok"
<1>1. /\ pc = "pop" /\ ready = <<>> /\ EndFreeze(result) /\ UNCHANGED <<pushVars, parts>>
      /\ result \in {"Ok", "InvalidDepend", "TooManyNodes", "TooManyEdges", "CycleDetected",
                     "SizeOverflow"}
  BY DEF EndKahn
<1>2. GivenCount' = GivenCount
  BY <1>1, SameGiven
<1>3. count # GivenCount <=> Cyclic(GivenCount, parts.edges)
  BY <1>1, CycleFound
<1>4. /\ ~(GivenCount > MaxU32) /\ ~(Len(parts.edges) > MaxU32)
      /\ \A i \in 1 .. GivenCount : parts.nodes[i] = i - 1
      /\ InRange(GivenCount, parts.edges)
  BY <1>1 DEF FreezeInvariant, PartsChecked, Collecting
<1>5. FreezeIsExact'
  <2>1. answer'.result = result /\ parts' = parts
    BY <1>1 DEF EndFreeze, Finish
  <2> QED BY ONLY <1>2, <1>3, <1>4, <2>1 DEF FreezeIsExact
<1> HIDE DEF result
<1> QED BY <1>1, <1>5, CallEnds

LEMMA NextFreeze ==
  ASSUME BuilderInvariant, BuilderInvariant', FreezeInvariant, [Next]_vars
  PROVE  FreezeInvariant'
<1>1. CASE UNCHANGED vars
  <2>1. TypeOK'
    BY <1>1, TypesOf DEF vars, pushVars, freezeVars, FreezeInvariant, TypeOK, GivenIds, GivenCount,
                         NodeIds
  <2>2. GivenCount' = GivenCount /\ GivenIds' = GivenIds /\ Done' = Done
    BY <1>1 DEF vars, freezeVars, GivenCount, GivenIds, NodeIds, Done
  <2> QED BY <1>1, <2>1, <2>2
          DEF vars, pushVars, freezeVars, FreezeInvariant, PartsChecked, WhileRoots, WhilePopping,
              BetweenPops, WhileRelaxing, FreezeIsExact
<1>2. CASE BeginPush \/ PushStep
  BY <1>2, PushKeepsFreeze
<1>3. CASE BeginFreeze \/ BeginFromParts
  BY <1>3, BeginFreezeStep, BeginFromPartsStep
<1>4. CASE FreezeStep
  BY <1>4, CheckPartsStep, CountDegreesStep, CollectReadyStep, EndCollectStep, PopReadyStep,
     RelaxEdgeStep, EndRelaxStep, EndKahnStep DEF FreezeStep
<1> QED BY <1>1, <1>2, <1>3, <1>4 DEF Next

\* freeze and from_parts count exactly, whatever graph they are given.
THEOREM FreezeCorrect == Spec => []FreezeInvariant
<1>1. FreezeInvariant /\ BuilderInvariant /\ BuilderInvariant' /\ [Next]_vars => FreezeInvariant'
  BY NextFreeze
<1> QED BY <1>1, InitFreeze, BuilderCorrect, PTL DEF Spec

\* The variables of the builder keep their types; in has_cycle no counter of
\* the code's unsigned numbers is taken below zero.
THEOREM TypeCorrect == Spec => []TypeOK
<1>1. FreezeInvariant => TypeOK
  BY DEF FreezeInvariant
<1> QED BY <1>1, FreezeCorrect, PTL

\* from_parts freezes the graphs that have an order and fit the formats, and
\* refuses every other one for the first reason that applies.
THEOREM FreezeAcceptsExactly == Spec => []FreezeIsExact
<1>1. FreezeInvariant => FreezeIsExact
  BY DEF FreezeInvariant
<1> QED BY <1>1, FreezeCorrect, PTL
=============================================================================
