---------------------------- MODULE ResolveProof -----------------------------
(***************************************************************************)
(* Proofs about resolve_parsed_graph, for graphs of any size: the counters *)
(* of the loop are exact, a chain it returns runs every node once after    *)
(* all its predecessors, and it refuses only graphs that have none.        *)
(***************************************************************************)
EXTENDS Resolve, FiniteSetTheorems, SequenceTheorems, TLAPS

-----------------------------------------------------------------------------
(* Counting, and sequences without repetition. *)

\* One element more, or not.
LEMMA OneMore ==
  ASSUME NEW S, NEW T, NEW x, IsFiniteSet(S), x \notin S, NEW c \in BOOLEAN,
         T = IF c THEN S \cup {x} ELSE S
  PROVE  IsFiniteSet(T) /\ Cardinality(T) = Cardinality(S) + (IF c THEN 1 ELSE 0)
<1>1. Cardinality(S) \in Nat
  BY FS_CardinalityType
<1>2. IsFiniteSet(S \cup {x}) /\ Cardinality(S \cup {x}) = Cardinality(S) + 1
  BY FS_AddElement
<1> QED BY <1>1, <1>2

\* Sets of places in a sequence.
LEMMA FiniteIndices ==
  ASSUME NEW m \in Nat, NEW S \in SUBSET (1 .. m)
  PROVE  /\ IsFiniteSet(S)
         /\ Cardinality(S) \in Nat
         /\ Cardinality(S) = 0 <=> S = {}
<1>1. IsFiniteSet(1 .. m)
  BY FS_Interval
<1>2. IsFiniteSet(S)
  BY <1>1, FS_Subset
<1> QED BY <1>2, FS_CardinalityType, FS_EmptySet

Distinct(s) == \A i, j \in DOMAIN s : s[i] = s[j] => i = j

Within(s, v) == \E i \in DOMAIN s : s[i] = v

\* An element is added that was not there.
LEMMA WithinAppend ==
  ASSUME NEW S, NEW s \in Seq(S), NEW e \in S
  PROVE  /\ \A v : Within(Append(s, e), v) <=> Within(s, v) \/ v = e
         /\ Distinct(s) /\ ~Within(s, e) => Distinct(Append(s, e))
<1>1. /\ DOMAIN s = 1 .. Len(s) /\ DOMAIN Append(s, e) = 1 .. Len(s) + 1 /\ Len(s) \in Nat
      /\ Append(s, e)[Len(s) + 1] = e
      /\ \A i \in 1 .. Len(s) : Append(s, e)[i] = s[i]
  OBVIOUS
<1>2. \A i : i \in 1 .. Len(s) + 1 <=> i \in 1 .. Len(s) \/ i = Len(s) + 1
  BY <1>1
<1>3. \A v : Within(Append(s, e), v) <=> Within(s, v) \/ v = e
  BY <1>1, <1>2 DEF Within
<1>4. Distinct(s) /\ ~Within(s, e) => Distinct(Append(s, e))
  BY <1>1, <1>2 DEF Within, Distinct
<1> QED BY <1>3, <1>4

\* Moving the first element of one sequence to the end of the other keeps the
\* two put together, and so does appending before or after.
LEMMA PopMoves ==
  ASSUME NEW S, NEW s \in Seq(S), NEW t \in Seq(S), t # <<>>
  PROVE  Append(s, Head(t)) \o Tail(t) = s \o t
<1>1. /\ Append(s, Head(t)) \o Tail(t) \in Seq(S) /\ s \o t \in Seq(S)
      /\ Len(Append(s, Head(t)) \o Tail(t)) = Len(s \o t)
  OBVIOUS
<1>2. \A i \in 1 .. Len(s \o t) : (Append(s, Head(t)) \o Tail(t))[i] = (s \o t)[i]
  OBVIOUS
<1> QED BY <1>1, <1>2, SeqEqual

\* Appending to the second of two sequences appends to both in a row.
LEMMA AppendAfter ==
  ASSUME NEW S, NEW s \in Seq(S), NEW t \in Seq(S), NEW e \in S
  PROVE  s \o Append(t, e) = Append(s \o t, e)
OBVIOUS

-----------------------------------------------------------------------------

Edges == [from : Nat, to : Nat]

\* How often v is in a sequence, and how many of the first m edges end at v
\* or go from u to v.
CountOf(s, v) == Cardinality({j \in DOMAIN s : s[j] = v})
InEdges(es, m, v) == Cardinality({i \in 1 .. m : es[i].to = v})
Between(es, m, u, v) == Cardinality({i \in 1 .. m : es[i].from = u /\ es[i].to = v})

Numbered == \A i \in 1 .. n : ids[i] = i - 1

\* A list of successors per node that has the first m edges, and their counts.
OutgoingCounted(es, S, lists, m) == \A u, v \in S : CountOf(lists[u], v) = Between(es, m, u, v)
IndegreeCounted(es, S, counts, m) == \A v \in S : counts[v] = InEdges(es, m, v)

WhileIds ==
  pc = "ids" =>
    /\ k \in 1 .. n + 1
    /\ \A i \in 1 .. k - 1 : ids[i] = i - 1
    /\ OutgoingCounted(edges, Ids, outgoing, 0) /\ IndegreeCounted(edges, Ids, indegree, 0)
    /\ ready = <<>> /\ order = <<>> /\ left = <<>>

WhileEdges ==
  pc = "edges" =>
    /\ k \in 1 .. Len(edges) + 1
    /\ Numbered
    /\ \A i \in 1 .. k - 1 : edges[i].from \in Ids /\ edges[i].to \in Ids
    /\ OutgoingCounted(edges, Ids, outgoing, k - 1) /\ IndegreeCounted(edges, Ids, indegree, k - 1)
    /\ ready = <<>> /\ order = <<>> /\ left = <<>>

WhileRoots ==
  pc = "roots" =>
    /\ k \in 1 .. n + 1
    /\ WellFormed
    /\ OutgoingCounted(edges, Ids, outgoing, Len(edges)) /\ IndegreeCounted(edges, Ids, indegree, Len(edges))
    /\ Distinct(ready)
    /\ \A v \in Ids : Within(ready, v) <=> v < k - 1 /\ indegree[v] = 0
    /\ order = <<>> /\ left = <<>>

\* Every predecessor of a node of the order is in front of it.
Forward ==
  \A q \in 1 .. Len(order), i \in 1 .. Len(edges) :
    edges[i].to = order[q] => \E p \in 1 .. q - 1 : order[p] = edges[i].from

WhilePopping ==
  pc \in {"pop", "relax"} =>
    /\ WellFormed
    /\ OutgoingCounted(edges, Ids, outgoing, Len(edges))
    /\ Distinct(order \o ready)
    /\ Forward
    /\ pc = "pop" => left = <<>>

GraphGiven == ids \in Seq(Nat) /\ edges \in Seq(Edges)

ResolveInvariant ==
  /\ GraphGiven /\ TypeOK
  /\ WhileIds /\ WhileEdges /\ WhileRoots /\ WhilePopping
  /\ CountsAreExact /\ ChainIsTopological /\ FailsOnlyWithoutChain

-----------------------------------------------------------------------------
(* Counting. *)

LEMMA CountType ==
  ASSUME NEW S, NEW s \in Seq(S), NEW v
  PROVE  /\ CountOf(s, v) \in Nat
         /\ CountOf(s, v) = 0 <=> ~Within(s, v)
<1>1. DOMAIN s = 1 .. Len(s) /\ Len(s) \in Nat
  OBVIOUS
<1>2. {j \in DOMAIN s : s[j] = v} \in SUBSET (1 .. Len(s))
  BY <1>1
<1> QED BY <1>1, <1>2, FiniteIndices DEF CountOf, Within

LEMMA CountAppend ==
  ASSUME NEW S, NEW s \in Seq(S), NEW e \in S, NEW v
  PROVE  CountOf(Append(s, e), v) = CountOf(s, v) + (IF e = v THEN 1 ELSE 0)
<1> DEFINE A == {j \in DOMAIN s : s[j] = v}
           B == {j \in DOMAIN Append(s, e) : Append(s, e)[j] = v}
<1>1. A \in SUBSET (1 .. Len(s)) /\ Len(s) \in Nat /\ Len(s) + 1 \notin A
  OBVIOUS
<1>2. B = IF e = v THEN A \cup {Len(s) + 1} ELSE A
  OBVIOUS
<1>3. IsFiniteSet(A)
  BY <1>1, FiniteIndices
<1> HIDE DEF A, B
<1>4. Cardinality(B) = Cardinality(A) + (IF e = v THEN 1 ELSE 0)
  BY <1>1, <1>2, <1>3, OneMore
<1> QED BY <1>4 DEF CountOf, A, B

LEMMA CountTail ==
  ASSUME NEW S, NEW s \in Seq(S), s # <<>>, NEW v
  PROVE  CountOf(s, v) = CountOf(Tail(s), v) + (IF Head(s) = v THEN 1 ELSE 0)
<1> DEFINE A == {j \in DOMAIN Tail(s) : Tail(s)[j] = v}
           B == {j \in 2 .. Len(s) : s[j] = v}
           C == {j \in DOMAIN s : s[j] = v}
           f == [j \in A |-> j + 1]
<1>1. /\ Tail(s) \in Seq(S) /\ Len(Tail(s)) = Len(s) - 1 /\ Len(s) \in Nat /\ Len(s) >= 1
      /\ \A j \in 1 .. Len(s) - 1 : Tail(s)[j] = s[j + 1]
      /\ Head(s) = s[1] /\ DOMAIN Tail(s) = 1 .. Len(s) - 1 /\ DOMAIN s = 1 .. Len(s)
  OBVIOUS
<1>2. f \in Bijection(A, B)
  <2>1. f \in [A -> B]
    BY <1>1
  <2>2. \A i, j \in A : f[i] = f[j] => i = j
    BY <1>1
  <2>3. ASSUME NEW b \in B PROVE \E a \in A : f[a] = b
    <3>1. b - 1 \in A /\ f[b - 1] = b
      BY <1>1
    <3> QED BY <3>1
  <2> HIDE DEF f
  <2> QED BY <2>1, <2>2, <2>3 DEF Bijection, Injection, Surjection, IsInjective
<1>3. IsFiniteSet(A)
  <2>1. A \in SUBSET (1 .. Len(Tail(s))) /\ Len(Tail(s)) \in Nat
    BY <1>1
  <2> QED BY <2>1, FiniteIndices
<1>4. IsFiniteSet(B) /\ Cardinality(A) = Cardinality(B)
  BY <1>2, <1>3, FS_Bijection DEF ExistsBijection
<1>5. 1 \notin B /\ C = IF Head(s) = v THEN B \cup {1} ELSE B
  BY <1>1
<1> HIDE DEF A, B, C, f
<1>6. Cardinality(C) = Cardinality(B) + (IF Head(s) = v THEN 1 ELSE 0)
  BY <1>4, <1>5, OneMore
<1> QED BY <1>4, <1>6 DEF CountOf, A, C

LEMMA InEdgesNext ==
  ASSUME NEW m \in Nat, NEW v
  PROVE  InEdges(edges, m + 1, v) = InEdges(edges, m, v) + (IF edges[m + 1].to = v THEN 1 ELSE 0)
<1> DEFINE A == {i \in 1 .. m : edges[i].to = v}
           B == {i \in 1 .. m + 1 : edges[i].to = v}
<1>1. A \in SUBSET (1 .. m) /\ m + 1 \notin A
  OBVIOUS
<1>2. B = IF edges[m + 1].to = v THEN A \cup {m + 1} ELSE A
  OBVIOUS
<1>3. IsFiniteSet(A)
  BY <1>1, FiniteIndices
<1> HIDE DEF A, B
<1>4. Cardinality(B) = Cardinality(A) + (IF edges[m + 1].to = v THEN 1 ELSE 0)
  BY <1>1, <1>2, <1>3, OneMore
<1> QED BY <1>4 DEF InEdges, A, B

LEMMA BetweenNext ==
  ASSUME NEW m \in Nat, NEW u, NEW v
  PROVE  Between(edges, m + 1, u, v) =
           Between(edges, m, u, v) + (IF edges[m + 1].from = u /\ edges[m + 1].to = v THEN 1 ELSE 0)
<1> DEFINE A == {i \in 1 .. m : edges[i].from = u /\ edges[i].to = v}
           B == {i \in 1 .. m + 1 : edges[i].from = u /\ edges[i].to = v}
<1>1. A \in SUBSET (1 .. m) /\ m + 1 \notin A
  OBVIOUS
<1>2. B = IF edges[m + 1].from = u /\ edges[m + 1].to = v THEN A \cup {m + 1} ELSE A
  OBVIOUS
<1>3. IsFiniteSet(A)
  BY <1>1, FiniteIndices
<1> HIDE DEF A, B
<1>4. Cardinality(B) = Cardinality(A)
                         + (IF edges[m + 1].from = u /\ edges[m + 1].to = v THEN 1 ELSE 0)
  BY <1>1, <1>2, <1>3, OneMore
<1> QED BY <1>4 DEF Between, A, B

LEMMA NoEdgesYet ==
  ASSUME NEW u, NEW v
  PROVE  InEdges(edges, 0, v) = 0 /\ Between(edges, 0, u, v) = 0 /\ CountOf(<<>>, v) = 0
BY FS_EmptySet DEF InEdges, Between, CountOf

-----------------------------------------------------------------------------
(* Sequences. *)

LEMMA WithinConcat ==
  ASSUME NEW S, NEW s \in Seq(S), NEW t \in Seq(S)
  PROVE  /\ \A v : Within(s \o t, v) <=> Within(s, v) \/ Within(t, v)
         /\ Distinct(s \o t) => Distinct(s) /\ \A v : Within(s, v) => ~Within(t, v)
<1>1. /\ s \o t \in Seq(S) /\ Len(s \o t) = Len(s) + Len(t) /\ Len(s) \in Nat /\ Len(t) \in Nat
      /\ \A i \in 1 .. Len(s) : (s \o t)[i] = s[i] /\ i \in 1 .. Len(s) + Len(t)
      /\ \A i \in 1 .. Len(t) : (s \o t)[Len(s) + i] = t[i] /\ Len(s) + i \in 1 .. Len(s) + Len(t)
      /\ DOMAIN s = 1 .. Len(s) /\ DOMAIN t = 1 .. Len(t)
      /\ DOMAIN (s \o t) = 1 .. Len(s) + Len(t)
  OBVIOUS
<1>2. ASSUME NEW i \in 1 .. Len(s) + Len(t), i \notin 1 .. Len(s)
      PROVE  \E j \in 1 .. Len(t) : i = Len(s) + j
  <2>1. i - Len(s) \in 1 .. Len(t) /\ i = Len(s) + (i - Len(s))
    BY <1>1, <1>2
  <2> QED BY <2>1
<1>3. ASSUME NEW v PROVE Within(s \o t, v) <=> Within(s, v) \/ Within(t, v)
  <2>1. ASSUME Within(s \o t, v) PROVE Within(s, v) \/ Within(t, v)
    <3>1. PICK i \in 1 .. Len(s) + Len(t) : (s \o t)[i] = v
      BY <1>1, <2>1 DEF Within
    <3>2. CASE i \in 1 .. Len(s)
      BY <1>1, <3>1, <3>2 DEF Within
    <3>3. CASE i \notin 1 .. Len(s)
      <4>1. PICK j \in 1 .. Len(t) : i = Len(s) + j
        BY <1>2, <3>3
      <4> QED BY <1>1, <3>1, <4>1 DEF Within
    <3> QED BY <3>2, <3>3
  <2>2. ASSUME Within(s, v) PROVE Within(s \o t, v)
    BY <1>1, <2>2 DEF Within
  <2>3. ASSUME Within(t, v) PROVE Within(s \o t, v)
    <3>1. PICK j \in 1 .. Len(t) : t[j] = v
      BY <1>1, <2>3 DEF Within
    <3>2. (s \o t)[Len(s) + j] = v /\ Len(s) + j \in DOMAIN (s \o t)
      BY <1>1, <3>1
    <3> QED BY <3>2 DEF Within
  <2> QED BY <2>1, <2>2, <2>3
<1>4. ASSUME Distinct(s \o t) PROVE Distinct(s)
  BY <1>1, <1>4 DEF Distinct
<1>5. ASSUME Distinct(s \o t), NEW v, Within(s, v), Within(t, v) PROVE FALSE
  <2>1. PICK i \in 1 .. Len(s), j \in 1 .. Len(t) : s[i] = v /\ t[j] = v
    BY <1>1, <1>5 DEF Within
  <2>2. i = Len(s) + j
    BY <1>1, <1>5, <2>1 DEF Distinct
  <2> QED BY <1>1, <2>2
<1> QED BY <1>3, <1>4, <1>5

\* A sequence without repetition that is as long as a set of numbers 0 .. m - 1
\* is large has all of them.
LEMMA LongEnough ==
  ASSUME NEW m \in Nat, NEW s \in Seq(0 .. m - 1), Distinct(s)
  PROVE  (\A v \in 0 .. m - 1 : Within(s, v)) <=> Len(s) = m
<1> DEFINE T == 0 .. m - 1
<1>1. s \in [1 .. Len(s) -> T] /\ Len(s) \in Nat
  OBVIOUS
<1>2. s \in Injection(1 .. Len(s), T)
  BY <1>1 DEF Injection, IsInjective, Distinct
<1>3. IsFiniteSet(T) /\ Cardinality(T) = m
  <2>1. 0 \in Int /\ m - 1 \in Int
    OBVIOUS
  <2>2. IsFiniteSet(T) /\ Cardinality(T) = IF 0 > m - 1 THEN 0 ELSE (m - 1) - 0 + 1
    BY ONLY <2>1, FS_Interval
  <2>. HIDE DEF T
  <2> QED BY ONLY <2>2, m \in Nat
<1>4. IsFiniteSet(1 .. Len(s)) /\ Cardinality(1 .. Len(s)) = Len(s)
  <2>1. PICK l \in Nat : l = Len(s)
    BY <1>1
  <2>2. IsFiniteSet(1 .. l) /\ Cardinality(1 .. l) = IF 1 > l THEN 0 ELSE l - 1 + 1
    BY ONLY 1 \in Int, l \in Int, FS_Interval
  <2>3. Cardinality(1 .. l) = l
    BY ONLY <2>2, l \in Nat
  <2> QED BY ONLY <2>1, <2>2, <2>3
<1> HIDE DEF T
<1>5. Len(s) = m <=> s \in Surjection(1 .. Len(s), T)
  BY <1>2, <1>3, <1>4, FS_Injection
<1>6. s \in Surjection(1 .. Len(s), T) <=> \A v \in T : Within(s, v)
  BY <1>1 DEF Surjection, Within
<1> QED BY <1>5, <1>6 DEF T

-----------------------------------------------------------------------------

PendingOf(es, o, v) ==
  Cardinality({i \in DOMAIN es : es[i].to = v /\ \A j \in DOMAIN o : o[j] # es[i].from})

CountsExact(es, S, counts, o, r, l) ==
  \A v \in S : /\ counts[v] = PendingOf(es, o, v) + CountOf(l, v)
               /\ counts[v] = 0 <=> Within(o \o r, v)

LEMMA CountsAre ==
  /\ CountsAreExact <=>
       (pc \in {"pop", "relax"} => CountsExact(edges, Ids, indegree, order, ready, left))
  /\ CountsAreExact' <=>
       (pc' \in {"pop", "relax"} => CountsExact(edges', Ids', indegree', order', ready', left'))
<1>1. \A v : /\ Pending(v) = PendingOf(edges, order, v)
             /\ StillLeft(v) = CountOf(left, v)
  BY DEF Pending, PendingOf, StillLeft, CountOf
<1>2. \A v : /\ Pending(v)' = PendingOf(edges', order', v)
             /\ StillLeft(v)' = CountOf(left', v)
  BY DEF Pending, PendingOf, StillLeft, CountOf
<1>3. CountsAreExact <=>
        (pc \in {"pop", "relax"} => CountsExact(edges, Ids, indegree, order, ready, left))
  BY <1>1 DEF CountsAreExact, CountsExact, Within
<1>4. CountsAreExact' <=>
        (pc' \in {"pop", "relax"} => CountsExact(edges', Ids', indegree', order', ready', left'))
  BY <1>2 DEF CountsAreExact, CountsExact, Within
<1> QED BY <1>3, <1>4

\* An edge is pending as long as its source is not in the order.
LEMMA PendingType ==
  ASSUME edges \in Seq(Edges), NEW o, NEW v
  PROVE  /\ PendingOf(edges, o, v) \in Nat
         /\ PendingOf(edges, o, v) = 0
              <=> \A i \in 1 .. Len(edges) : edges[i].to = v => Within(o, edges[i].from)
<1> DEFINE A == {i \in DOMAIN edges : edges[i].to = v /\ \A j \in DOMAIN o : o[j] # edges[i].from}
<1>1. DOMAIN edges = 1 .. Len(edges) /\ Len(edges) \in Nat
  OBVIOUS
<1>2. A \in SUBSET (1 .. Len(edges))
  BY <1>1
<1>3. Cardinality(A) \in Nat /\ (Cardinality(A) = 0 <=> A = {})
  BY ONLY <1>1, <1>2, FiniteIndices
<1> QED BY <1>1, <1>3 DEF PendingOf, Within

\* A node that joins the order takes its edges out of those pending.
LEMMA PendingSplits ==
  ASSUME edges \in Seq(Edges), NEW S, NEW o \in Seq(S), NEW h \in S, ~Within(o, h), NEW v
  PROVE  PendingOf(edges, o, v) = PendingOf(edges, Append(o, h), v) + Between(edges, Len(edges), h, v)
<1> DEFINE A == {i \in DOMAIN edges : edges[i].to = v /\ \A j \in DOMAIN o : o[j] # edges[i].from}
           q == Append(o, h)
           B == {i \in DOMAIN edges : edges[i].to = v /\ \A j \in DOMAIN q : q[j] # edges[i].from}
           C == {i \in 1 .. Len(edges) : edges[i].from = h /\ edges[i].to = v}
<1>1. DOMAIN edges = 1 .. Len(edges) /\ Len(edges) \in Nat
  OBVIOUS
<1> HIDE DEF q
<1>2. \A x : (\A j \in DOMAIN q : q[j] # x) <=> x # h /\ \A j \in DOMAIN o : o[j] # x
  <2>1. \A x : Within(q, x) <=> Within(o, x) \/ x = h
    BY WithinAppend DEF q
  <2> QED BY ONLY <2>1 DEF Within
<1>3. A = B \cup C /\ B \cap C = {}
  <2>1. \A j \in DOMAIN o : o[j] # h
    BY DEF Within
  <2>2. ~\A j \in DOMAIN q : q[j] # h
    BY ONLY <1>2
  <2>3. \A x : (\A j \in DOMAIN o : o[j] # x) <=> (\A j \in DOMAIN q : q[j] # x) \/ x = h
    BY ONLY <1>2, <2>1
  <2>4. ASSUME NEW i \in 1 .. Len(edges)
        PROVE  /\ i \in A <=> i \in B \/ i \in C
               /\ ~(i \in B /\ i \in C)
    BY ONLY <1>1, <2>2, <2>3, <2>4 DEF A, B, C
  <2>5. A \subseteq 1 .. Len(edges) /\ B \subseteq 1 .. Len(edges) /\ C \subseteq 1 .. Len(edges)
    BY ONLY <1>1 DEF A, B, C
  <2> QED BY ONLY <2>4, <2>5
<1>4. B \in SUBSET (1 .. Len(edges)) /\ C \in SUBSET (1 .. Len(edges))
  BY <1>1
<1> HIDE DEF A, B, C, q
<1>5. /\ IsFiniteSet(B) /\ IsFiniteSet(C)
      /\ Cardinality(B) \in Nat /\ Cardinality(C) \in Nat
  BY ONLY <1>1, <1>4, FiniteIndices
<1>6. Cardinality(B \cup C) = Cardinality(B) + Cardinality(C) - Cardinality(B \cap C)
  BY <1>5, FS_Union
<1>7. Cardinality(A) = Cardinality(B) + Cardinality(C)
  <2>1. Cardinality(B \cap C) = 0
    BY <1>3, FS_EmptySet
  <2> QED BY <1>3, <1>5, <1>6, <2>1
<1> QED BY <1>7 DEF PendingOf, Between, A, B, C, q

-----------------------------------------------------------------------------
(* The phases of the function. *)

LEMMA ResolveInit == Init => ResolveInvariant
<1> SUFFICES ASSUME Init PROVE ResolveInvariant
  OBVIOUS
<1> USE BoundAssumption DEF Init
<1>1. PICK count \in 0 .. MaxNodes : ids \in IdChoices(count) /\ edges \in EdgeChoices(count)
  OBVIOUS
<1>2. count \in Nat
  OBVIOUS
<1>3. ids \in [1 .. count -> Nat]
  <2> DEFINE right == [i \in 1 .. count |-> i - 1]
  <2>1. right \in [1 .. count -> Nat]
    BY <1>2
  <2>2. ids = right \/ \E i \in 1 .. count : ids = [right EXCEPT ![i] = count]
    BY <1>1 DEF IdChoices
  <2> HIDE DEF right
  <2> QED BY <1>2, <2>1, <2>2
<1>4. edges \in Seq(Edges)
  <2>1. PICK m \in 0 .. MaxEdges : edges \in [1 .. m -> [from : 0 .. count, to : 0 .. count]]
    BY <1>1 DEF EdgeChoices, SeqOf
  <2>2. edges \in [1 .. m -> Edges] /\ m \in Nat
    BY <1>2, <2>1 DEF Edges
  <2> QED BY ONLY <2>2
<1>5. ids \in Seq(Nat) /\ n \in Nat
  BY ONLY <1>2, <1>3 DEF n
<1>6. TypeOK
  BY <1>5 DEF TypeOK
<1>7. WhileIds
  <2>1. OutgoingCounted(edges, Ids, outgoing, 0)
    BY NoEdgesYet DEF OutgoingCounted
  <2>2. IndegreeCounted(edges, Ids, indegree, 0)
    BY NoEdgesYet DEF IndegreeCounted
  <2> QED BY <1>5, <2>1, <2>2 DEF WhileIds
<1> QED BY <1>4, <1>5, <1>6, <1>7
      DEF ResolveInvariant, GraphGiven, WhileEdges, WhileRoots, WhilePopping, CountsAreExact,
          ChainIsTopological, FailsOnlyWithoutChain

\* No step changes the graph.
LEMMA SameGraph ==
  ASSUME UNCHANGED <<ids, edges>>
  PROVE  /\ n' = n /\ Ids' = Ids /\ NoNode' = NoNode
         /\ WellFormed' = WellFormed /\ Numbered' = Numbered
         /\ GraphGiven' = GraphGiven
BY DEF n, Ids, NoNode, WellFormed, Numbered, GraphGiven

LEMMA GivenFacts ==
  ASSUME GraphGiven
  PROVE  /\ n \in Nat /\ Ids = 0 .. n - 1
         /\ Len(edges) \in Nat /\ DOMAIN edges = 1 .. Len(edges)
         /\ \A i \in 1 .. Len(edges) : edges[i].from \in Nat /\ edges[i].to \in Nat
<1>1. n \in Nat /\ Ids = 0 .. n - 1
  BY DEF GraphGiven, n, Ids, NodeIds
<1>2. Len(edges) \in Nat /\ DOMAIN edges = 1 .. Len(edges)
  BY DEF GraphGiven
<1>3. \A i \in 1 .. Len(edges) : edges[i] \in Edges
  BY DEF GraphGiven
<1> QED BY <1>1, <1>2, <1>3 DEF Edges

\* Checking the ids and storing the edges.
LEMMA CheckIdStep ==
  ASSUME ResolveInvariant, CheckId
  PROVE  ResolveInvariant'
<1> USE DEF CheckId, graphVars
<1>1. n \in Nat /\ k \in 1 .. n
  BY GivenFacts DEF ResolveInvariant, WhileIds
<1>2. TypeOK'
  BY <1>1, SameGraph DEF ResolveInvariant, TypeOK
<1>3. WhileIds'
  BY <1>1, SameGraph DEF ResolveInvariant, WhileIds
<1>4. FailsOnlyWithoutChain'
  BY <1>1, SameGraph DEF FailsOnlyWithoutChain, WellFormed
<1> QED BY <1>2, <1>3, <1>4, SameGraph
      DEF ResolveInvariant, WhileEdges, WhileRoots, WhilePopping, CountsAreExact, ChainIsTopological

LEMMA IdsCheckedStep ==
  ASSUME ResolveInvariant, IdsChecked
  PROVE  ResolveInvariant'
<1> USE DEF IdsChecked, graphVars
<1>1. n \in Nat /\ k = n + 1 /\ Len(edges) \in Nat
  BY GivenFacts DEF ResolveInvariant, WhileIds
<1>2. TypeOK'
  BY <1>1, SameGraph DEF ResolveInvariant, TypeOK
<1>3. WhileEdges'
  BY <1>1, SameGraph DEF ResolveInvariant, WhileIds, WhileEdges, Numbered
<1> QED BY <1>2, <1>3, SameGraph
      DEF ResolveInvariant, WhileIds, WhileRoots, WhilePopping, CountsAreExact, ChainIsTopological,
          FailsOnlyWithoutChain

LEMMA AddEdgeStep ==
  ASSUME ResolveInvariant, AddEdge
  PROVE  ResolveInvariant'
<1> USE DEF AddEdge, graphVars
<1> DEFINE u == edges[k].from
           w == edges[k].to
<1>1. /\ n \in Nat /\ Ids = 0 .. n - 1 /\ Len(edges) \in Nat /\ DOMAIN edges = 1 .. Len(edges)
      /\ k \in 1 .. Len(edges) /\ u \in Nat /\ w \in Nat
  BY GivenFacts DEF ResolveInvariant, WhileEdges
<1>2. /\ outgoing \in [Ids -> Seq(Ids)] /\ indegree \in [Ids -> Nat]
      /\ OutgoingCounted(edges, Ids, outgoing, k - 1) /\ IndegreeCounted(edges, Ids, indegree, k - 1)
      /\ Numbered /\ \A i \in 1 .. k - 1 : edges[i].from \in Ids /\ edges[i].to \in Ids
  BY DEF ResolveInvariant, WhileEdges, TypeOK
<1>3. CASE u >= n \/ w >= n
  <2>1. pc' = "failed" /\ UNCHANGED <<indegree, outgoing>>
    BY <1>3
  <2>2. u \notin Ids \/ w \notin Ids
    BY <1>1, <1>3
  <2>3. ~WellFormed
    <3>1. k \in DOMAIN edges
      BY <1>1
    <3> QED BY <2>2, <3>1 DEF WellFormed, InRange, Ids
  <2>4. TypeOK'
    <3>1. TypeOK /\ k' \in Nat
      BY <1>1 DEF ResolveInvariant
    <3> QED BY <2>1, <3>1, SameGraph DEF TypeOK
  <2> QED BY <2>1, <2>3, <2>4, SameGraph
        DEF ResolveInvariant, WhileIds, WhileEdges, WhileRoots, WhilePopping, CountsAreExact,
            ChainIsTopological, FailsOnlyWithoutChain
<1>4. CASE ~(u >= n \/ w >= n)
  <2>1. /\ u \in Ids /\ w \in Ids /\ pc' = "edges"
        /\ outgoing' = [outgoing EXCEPT ![u] = Append(@, w)]
        /\ indegree' = [indegree EXCEPT ![w] = @ + 1]
    BY <1>1, <1>4
  <2>2. OutgoingCounted(edges, Ids, outgoing', k)
    <3> SUFFICES ASSUME NEW x \in Ids, NEW v \in Ids
                 PROVE  CountOf(outgoing'[x], v) = Between(edges, k, x, v)
      BY DEF OutgoingCounted
    <3>1. Between(edges, k, x, v) = Between(edges, k - 1, x, v) + (IF u = x /\ w = v THEN 1 ELSE 0)
      <4>1. k - 1 \in Nat /\ (k - 1) + 1 = k
        BY <1>1
      <4> QED BY <4>1, BetweenNext
    <3>2. CountOf(outgoing[x], v) = Between(edges, k - 1, x, v)
      BY <1>2 DEF OutgoingCounted
    <3>3. CountOf(outgoing[x], v) \in Nat
      BY <1>2, CountType
    <3>4. CASE x = u
      <4>1. outgoing'[x] = Append(outgoing[x], w)
        BY <1>2, <2>1, <3>4
      <4>2. CountOf(Append(outgoing[x], w), v) = CountOf(outgoing[x], v) + (IF w = v THEN 1 ELSE 0)
        <5>1. w \in Ids /\ outgoing[x] \in Seq(Ids)
          BY <1>2, <2>1
        <5> QED BY ONLY <5>1, CountAppend
      <4> QED BY <3>1, <3>2, <3>4, <4>1, <4>2
    <3>5. CASE x # u
      <4>1. outgoing'[x] = outgoing[x]
        BY <1>2, <2>1, <3>5
      <4> QED BY <3>1, <3>2, <3>3, <3>5, <4>1
    <3> QED BY <3>4, <3>5
  <2>3. IndegreeCounted(edges, Ids, indegree', k)
    <3> SUFFICES ASSUME NEW v \in Ids PROVE indegree'[v] = InEdges(edges, k, v)
      BY DEF IndegreeCounted
    <3>1. InEdges(edges, k, v) = InEdges(edges, k - 1, v) + (IF w = v THEN 1 ELSE 0)
      <4>1. k - 1 \in Nat /\ (k - 1) + 1 = k
        BY <1>1
      <4> QED BY <4>1, InEdgesNext
    <3>2. indegree[v] = InEdges(edges, k - 1, v) /\ indegree[v] \in Nat
      BY <1>2 DEF IndegreeCounted
    <3>3. indegree'[v] = indegree[v] + (IF w = v THEN 1 ELSE 0)
      BY <1>2, <2>1
    <3> QED BY ONLY <3>1, <3>2, <3>3
  <2>4. TypeOK'
    <3>1. outgoing' \in [Ids -> Seq(Ids)]
      <4>1. Append(outgoing[u], w) \in Seq(Ids)
        BY ONLY <1>2, <2>1
      <4> QED BY ONLY <1>2, <2>1, <4>1
    <3>2. TypeOK /\ k' \in Nat /\ indegree' \in [Ids -> Nat]
      <4>1. indegree[w] + 1 \in Nat
        BY ONLY <1>2, <2>1
      <4>2. indegree' \in [Ids -> Nat]
        BY ONLY <1>2, <2>1, <4>1
      <4> QED BY <1>1, <4>2 DEF ResolveInvariant
    <3> QED BY <2>1, <3>1, <3>2, SameGraph DEF TypeOK
  <2>5. WhileEdges'
    <3>1. k' = k + 1 /\ k' - 1 = k /\ Numbered'
      BY <1>1, <1>2, SameGraph
    <3>2. \A i \in 1 .. k : edges[i].from \in Ids /\ edges[i].to \in Ids
      <4>1. \A i \in 1 .. k : i = k \/ i \in 1 .. k - 1
        BY <1>1
      <4> QED BY <1>2, <2>1, <4>1
    <3>3. ready' = <<>> /\ order' = <<>> /\ left' = <<>>
      BY DEF ResolveInvariant, WhileEdges
    <3>4. OutgoingCounted(edges, Ids, outgoing', k' - 1) /\ IndegreeCounted(edges, Ids, indegree', k' - 1)
      BY <2>2, <2>3, <3>1
    <3>5. k' \in 1 .. Len(edges) + 1
      BY <1>1, <3>1
    <3> QED BY <3>1, <3>2, <3>3, <3>4, <3>5, SameGraph DEF WhileEdges
  <2> QED BY <2>1, <2>4, <2>5, SameGraph
        DEF ResolveInvariant, WhileIds, WhileRoots, WhilePopping, CountsAreExact,
            ChainIsTopological, FailsOnlyWithoutChain
<1> QED BY <1>3, <1>4

\* Collecting the roots.
LEMMA EdgesAddedStep ==
  ASSUME ResolveInvariant, EdgesAdded
  PROVE  ResolveInvariant'
<1> USE DEF EdgesAdded, graphVars
<1>1. /\ n \in Nat /\ Ids = 0 .. n - 1 /\ Len(edges) \in Nat /\ DOMAIN edges = 1 .. Len(edges)
      /\ k = Len(edges) + 1
  BY GivenFacts DEF ResolveInvariant, WhileEdges
<1>2. TypeOK'
  <2>1. TypeOK
    BY DEF ResolveInvariant
  <2> QED BY <2>1, SameGraph DEF TypeOK
<1>3. WhileRoots'
  <2>1. k - 1 = Len(edges) /\ k' \in 1 .. n + 1 /\ k' = 1
    BY <1>1
  <2>2. /\ Numbered /\ \A i \in 1 .. Len(edges) : edges[i].from \in Ids /\ edges[i].to \in Ids
        /\ OutgoingCounted(edges, Ids, outgoing, Len(edges))
        /\ IndegreeCounted(edges, Ids, indegree, Len(edges))
        /\ ready = <<>> /\ order = <<>> /\ left = <<>>
    BY <2>1 DEF ResolveInvariant, WhileEdges
  <2>3. WellFormed
    BY <1>1, <2>2 DEF WellFormed, Numbered, InRange, Ids
  <2>4. Distinct(ready) /\ \A v \in Ids : ~Within(ready, v) /\ ~(v < k' - 1)
    BY <1>1, <2>1, <2>2 DEF Distinct, Within
  <2> QED BY <2>1, <2>2, <2>3, <2>4, SameGraph DEF WhileRoots
<1> QED BY <1>2, <1>3, SameGraph
      DEF ResolveInvariant, WhileIds, WhileEdges, WhilePopping, CountsAreExact, ChainIsTopological,
          FailsOnlyWithoutChain

LEMMA CollectRootStep ==
  ASSUME ResolveInvariant, CollectRoot
  PROVE  ResolveInvariant'
<1> USE DEF CollectRoot, graphVars
<1>1. n \in Nat /\ Ids = 0 .. n - 1 /\ k \in 1 .. n /\ k - 1 \in Ids
  BY GivenFacts DEF ResolveInvariant, WhileRoots
<1>2. /\ ready \in Seq(Ids) /\ indegree \in [Ids -> Nat]
      /\ Distinct(ready)
      /\ \A v \in Ids : Within(ready, v) <=> v < k - 1 /\ indegree[v] = 0
  BY DEF ResolveInvariant, WhileRoots, TypeOK
<1>3. ~Within(ready, k - 1)
  BY <1>1, <1>2
<1>4. /\ ready' \in Seq(Ids) /\ Distinct(ready')
      /\ \A v \in Ids : Within(ready', v) <=> v < k' - 1 /\ indegree'[v] = 0
  <2>1. \A v \in Ids : v < k' - 1 <=> v < k - 1 \/ v = k - 1
    BY <1>1
  <2>2. CASE indegree[k - 1] = 0
    <3>1. ready' = Append(ready, k - 1) /\ ready' \in Seq(Ids)
      BY <1>1, <1>2, <2>2
    <3> QED BY <1>1, <1>2, <1>3, <2>1, <2>2, <3>1, WithinAppend
  <2>3. CASE indegree[k - 1] # 0
    BY <1>2, <2>1, <2>3
  <2> QED BY <2>2, <2>3
<1>5. TypeOK'
  <2>1. TypeOK /\ k' \in Nat
    BY <1>1 DEF ResolveInvariant
  <2> QED BY <1>4, <2>1, SameGraph DEF TypeOK
<1>6. WhileRoots'
  <2>1. k' \in 1 .. n + 1
    BY <1>1
  <2>2. /\ WellFormed /\ order = <<>> /\ left = <<>>
        /\ OutgoingCounted(edges, Ids, outgoing, Len(edges))
        /\ IndegreeCounted(edges, Ids, indegree, Len(edges))
    BY DEF ResolveInvariant, WhileRoots
  <2> QED BY <1>4, <2>1, <2>2, SameGraph DEF WhileRoots
<1> QED BY <1>5, <1>6, SameGraph
      DEF ResolveInvariant, WhileIds, WhileEdges, WhilePopping, CountsAreExact, ChainIsTopological,
          FailsOnlyWithoutChain

\* Before the first node is popped every edge is pending.
LEMMA AllPending ==
  ASSUME GraphGiven, NEW v
  PROVE  PendingOf(edges, <<>>, v) = InEdges(edges, Len(edges), v)
<1>1. DOMAIN edges = 1 .. Len(edges)
  BY GivenFacts
<1>2. {i \in DOMAIN edges : edges[i].to = v /\ \A j \in DOMAIN <<>> : <<>>[j] # edges[i].from}
        = {i \in 1 .. Len(edges) : edges[i].to = v}
  BY <1>1
<1> QED BY <1>2 DEF PendingOf, InEdges

LEMMA RootsCollectedStep ==
  ASSUME ResolveInvariant, RootsCollected
  PROVE  ResolveInvariant'
<1> USE DEF RootsCollected, graphVars
<1>1. n \in Nat /\ Ids = 0 .. n - 1 /\ k = n + 1
  <2>1. GraphGiven /\ WhileRoots /\ pc = "roots" /\ k > n
    BY ONLY ResolveInvariant, RootsCollected DEF RootsCollected, ResolveInvariant
  <2>2. n \in Nat /\ Ids = 0 .. n - 1
    BY ONLY <2>1, GivenFacts
  <2>3. k \in 1 .. n + 1
    BY ONLY <2>1 DEF WhileRoots
  <2> QED BY ONLY <2>1, <2>2, <2>3
<1>2. /\ ready \in Seq(Ids) /\ indegree \in [Ids -> Nat] /\ order = <<>> /\ left = <<>>
      /\ WellFormed
      /\ OutgoingCounted(edges, Ids, outgoing, Len(edges))
      /\ IndegreeCounted(edges, Ids, indegree, Len(edges))
      /\ Distinct(ready)
      /\ \A v \in Ids : Within(ready, v) <=> v < k - 1 /\ indegree[v] = 0
  BY DEF ResolveInvariant, WhileRoots, TypeOK
<1>3. TypeOK'
  <2>1. TypeOK
    BY DEF ResolveInvariant
  <2> QED BY <2>1, SameGraph DEF TypeOK
<1>4. order \o ready = ready
  BY <1>2
<1>5. WhilePopping'
  <2>1. Forward'
    BY <1>2 DEF Forward
  <2> QED BY <1>2, <1>4, <2>1, SameGraph DEF WhilePopping
<1>6. CountsExact(edges, Ids, indegree, order, ready, left)
  <2> SUFFICES ASSUME NEW v \in Ids
               PROVE  /\ indegree[v] = PendingOf(edges, order, v) + CountOf(left, v)
                      /\ indegree[v] = 0 <=> Within(order \o ready, v)
    BY DEF CountsExact
  <2>1. indegree[v] = PendingOf(edges, order, v) /\ indegree[v] \in Nat
    BY <1>2, AllPending DEF IndegreeCounted, ResolveInvariant
  <2>2. CountOf(left, v) = 0
    BY <1>2, NoEdgesYet
  <2>3. v < k - 1
    BY <1>1
  <2> QED BY <1>2, <1>4, <2>1, <2>2, <2>3
<1>7. CountsAreExact'
  BY <1>6, CountsAre, SameGraph
<1> QED BY <1>3, <1>5, <1>7, SameGraph
      DEF ResolveInvariant, WhileIds, WhileEdges, WhileRoots, ChainIsTopological,
          FailsOnlyWithoutChain

\* What the loop that pops nodes knows.
LEMMA PoppingFacts ==
  ASSUME ResolveInvariant, pc \in {"pop", "relax"}
  PROVE  /\ n \in Nat /\ Ids = 0 .. n - 1
         /\ edges \in Seq(Edges) /\ Len(edges) \in Nat /\ DOMAIN edges = 1 .. Len(edges)
         /\ \A i \in 1 .. Len(edges) : edges[i].from \in Ids /\ edges[i].to \in Ids
         /\ indegree \in [Ids -> Nat] /\ outgoing \in [Ids -> Seq(Ids)]
         /\ ready \in Seq(Ids) /\ order \in Seq(Ids) /\ left \in Seq(Ids)
         /\ WellFormed
         /\ OutgoingCounted(edges, Ids, outgoing, Len(edges))
         /\ Distinct(order \o ready) /\ Forward
         /\ CountsExact(edges, Ids, indegree, order, ready, left)
<1>1. GraphGiven /\ WhilePopping /\ CountsAreExact
  BY DEF ResolveInvariant
<1>2. /\ indegree \in [Ids -> Nat] /\ outgoing \in [Ids -> Seq(Ids)]
      /\ ready \in Seq(Ids) /\ order \in Seq(Ids) /\ left \in Seq(Ids)
  BY DEF ResolveInvariant, TypeOK
<1>3. \A i \in DOMAIN edges : edges[i].from \in Ids /\ edges[i].to \in Ids
  BY <1>1 DEF WhilePopping, WellFormed, InRange, Ids
<1> QED BY <1>1, <1>2, <1>3, GivenFacts, CountsAre DEF WhilePopping, GraphGiven

LEMMA PopReadyStep ==
  ASSUME ResolveInvariant, PopReady
  PROVE  ResolveInvariant'
<1> USE DEF PopReady, graphVars
<1> DEFINE h == Head(ready)
<1>1. /\ n \in Nat /\ Ids = 0 .. n - 1
      /\ edges \in Seq(Edges) /\ Len(edges) \in Nat
      /\ indegree \in [Ids -> Nat] /\ outgoing \in [Ids -> Seq(Ids)]
      /\ ready \in Seq(Ids) /\ order \in Seq(Ids) /\ left = <<>>
      /\ WellFormed
      /\ OutgoingCounted(edges, Ids, outgoing, Len(edges))
      /\ Distinct(order \o ready) /\ Forward
      /\ CountsExact(edges, Ids, indegree, order, ready, left)
  BY PoppingFacts DEF ResolveInvariant, WhilePopping
<1>2. h \in Ids /\ Within(ready, h) /\ Tail(ready) \in Seq(Ids)
  <2>1. 1 \in DOMAIN ready /\ ready[1] = h
    BY <1>1
  <2> QED BY <1>1, <2>1 DEF Within
<1>3. /\ order' = Append(order, h) /\ order' \in Seq(Ids) /\ Len(order) \in Nat
      /\ Len(order') = Len(order) + 1 /\ order'[Len(order) + 1] = h
      /\ \A p \in 1 .. Len(order) : order'[p] = order[p]
  BY <1>1, <1>2
<1>4. order' \o ready' = order \o ready
  BY <1>1, PopMoves
<1>5. ~Within(order, h) /\ Within(order \o ready, h)
  BY <1>1, <1>2, WithinConcat
<1>6. TypeOK'
  <2>1. TypeOK
    BY DEF ResolveInvariant
  <2>2. ready' \in Seq(Ids) /\ left' \in Seq(Ids)
    BY <1>1, <1>2
  <2> QED BY <1>3, <2>1, <2>2, SameGraph DEF TypeOK
<1>7. CountsExact(edges, Ids, indegree, order', ready', left')
  <2> SUFFICES ASSUME NEW v \in Ids
               PROVE  /\ indegree[v] = PendingOf(edges, order', v) + CountOf(left', v)
                      /\ indegree[v] = 0 <=> Within(order' \o ready', v)
    BY DEF CountsExact
  <2>1. /\ indegree[v] = PendingOf(edges, order, v) + CountOf(left, v)
        /\ indegree[v] = 0 <=> Within(order \o ready, v)
    BY <1>1 DEF CountsExact
  <2>2. PendingOf(edges, order, v) \in Nat /\ CountOf(left, v) = 0
    BY <1>1, PendingType, NoEdgesYet
  <2>3. PendingOf(edges, order, v) = PendingOf(edges, order', v) + Between(edges, Len(edges), h, v)
    BY <1>1, <1>2, <1>3, <1>5, PendingSplits
  <2>4. CountOf(left', v) = Between(edges, Len(edges), h, v)
    <3>1. CountOf(outgoing[h], v) = Between(edges, Len(edges), h, v)
      BY <1>1, <1>2 DEF OutgoingCounted
    <3> QED BY <3>1
  <2>5. indegree[v] = PendingOf(edges, order', v) + CountOf(left', v)
    BY <2>1, <2>2, <2>3, <2>4
  <2> QED BY <1>4, <2>1, <2>5
<1>8. Forward'
  <2> SUFFICES ASSUME NEW q \in 1 .. Len(order'), NEW i \in 1 .. Len(edges), edges[i].to = order'[q]
               PROVE  \E p \in 1 .. q - 1 : order'[p] = edges[i].from
    BY DEF Forward
  <2>1. CASE q \in 1 .. Len(order)
    <3>1. PICK p \in 1 .. q - 1 : order[p] = edges[i].from
      BY <1>1, <1>3, <2>1 DEF Forward
    <3>2. p \in 1 .. Len(order)
      BY <1>3, <2>1
    <3> QED BY <1>3, <3>1, <3>2
  <2>2. CASE q = Len(order) + 1
    <3>1. edges[i].to = h
      BY <1>3, <2>2
    <3>2. PendingOf(edges, order, h) = 0
      <4>1. /\ indegree[h] = PendingOf(edges, order, h) + CountOf(left, h)
            /\ indegree[h] = 0
        BY <1>1, <1>2, <1>5 DEF CountsExact
      <4>2. PendingOf(edges, order, h) \in Nat /\ CountOf(left, h) = 0
        BY <1>1, PendingType, NoEdgesYet
      <4> QED BY <4>1, <4>2
    <3>3. Within(order, edges[i].from)
      BY <1>1, <3>1, <3>2, PendingType
    <3>4. PICK p \in 1 .. Len(order) : order[p] = edges[i].from
      <4>1. DOMAIN order = 1 .. Len(order)
        BY <1>1
      <4> QED BY <3>3, <4>1 DEF Within
    <3> QED BY <1>3, <2>2, <3>4
  <2> QED BY <1>3, <2>1, <2>2
<1>9. WhilePopping'
  BY <1>1, <1>4, <1>8, SameGraph DEF WhilePopping
<1>10. CountsAreExact'
  BY <1>7, CountsAre, SameGraph
<1> QED BY <1>6, <1>9, <1>10, SameGraph
      DEF ResolveInvariant, WhileIds, WhileEdges, WhileRoots, ChainIsTopological,
          FailsOnlyWithoutChain

LEMMA RelaxStep ==
  ASSUME ResolveInvariant, Relax
  PROVE  ResolveInvariant'
<1> USE DEF Relax, graphVars
<1> DEFINE next == Head(left)
<1>1. /\ n \in Nat /\ Ids = 0 .. n - 1
      /\ edges \in Seq(Edges)
      /\ indegree \in [Ids -> Nat]
      /\ ready \in Seq(Ids) /\ order \in Seq(Ids) /\ left \in Seq(Ids)
      /\ WellFormed
      /\ OutgoingCounted(edges, Ids, outgoing, Len(edges))
      /\ Distinct(order \o ready) /\ Forward
      /\ CountsExact(edges, Ids, indegree, order, ready, left)
  BY PoppingFacts
<1>2. next \in Ids /\ left # <<>> /\ left' = Tail(left) /\ left' \in Seq(Ids)
  BY <1>1
<1>3. \A v \in Ids : /\ CountOf(left, v) = CountOf(left', v) + (IF next = v THEN 1 ELSE 0)
                     /\ CountOf(left', v) \in Nat
                     /\ PendingOf(edges, order, v) \in Nat
  <2> SUFFICES ASSUME NEW v \in Ids
               PROVE  /\ CountOf(left, v) = CountOf(left', v) + (IF next = v THEN 1 ELSE 0)
                      /\ CountOf(left', v) \in Nat
                      /\ PendingOf(edges, order, v) \in Nat
    OBVIOUS
  <2>1. CountOf(left, v) = CountOf(left', v) + (IF next = v THEN 1 ELSE 0)
    <3>1. left \in Seq(Ids) /\ left # <<>> /\ left' = Tail(left)
      BY ONLY <1>1, <1>2
    <3> QED BY ONLY <3>1, CountTail
  <2>2. CountOf(left', v) \in Nat
    BY ONLY <1>2, CountType
  <2>3. PendingOf(edges, order, v) \in Nat
    BY <1>1, PendingType
  <2> QED BY ONLY <2>1, <2>2, <2>3
<1>4. \A v \in Ids : /\ indegree[v] = PendingOf(edges, order, v) + CountOf(left, v)
                     /\ indegree[v] = 0 <=> Within(order \o ready, v)
  BY <1>1 DEF CountsExact
<1>5. indegree[next] # 0
  <2>1. PICK a \in Nat, b \in Nat : indegree[next] = a + (b + 1)
    BY ONLY <1>2, <1>3, <1>4
  <2> QED BY ONLY <2>1
<1>6. /\ indegree' = [indegree EXCEPT ![next] = @ - 1]
      /\ indegree' \in [Ids -> Nat]
      /\ \A v \in Ids : indegree'[v] = indegree[v] - (IF next = v THEN 1 ELSE 0)
  <2>1. indegree' = [indegree EXCEPT ![next] = @ - 1]
    OBVIOUS
  <2>2. indegree[next] \in Nat /\ indegree[next] - 1 \in Nat
    <3>1. indegree[next] \in Nat
      BY ONLY <1>1, <1>2
    <3> QED BY ONLY <3>1, <1>5
  <2>3. \A v \in Ids : indegree[v] \in Nat
                       /\ indegree'[v] = IF v = next THEN indegree[next] - 1 ELSE indegree[v]
    BY ONLY <1>1, <2>1
  <2>4. indegree' \in [Ids -> Nat]
    BY ONLY <1>1, <2>1, <2>2
  <2> QED BY ONLY <2>1, <2>3, <2>4
<1>7. ~Within(order \o ready, next)
  BY <1>2, <1>4, <1>5
<1>8. /\ ready' \in Seq(Ids)
      /\ Distinct(order \o ready')
      /\ \A v \in Ids : indegree'[v] = 0 <=> Within(order \o ready', v)
  <2>1. CASE indegree'[next] = 0
    <3>1. ready' = Append(ready, next)
      BY <2>1
    <3>2. order \o ready' = Append(order \o ready, next) /\ order \o ready \in Seq(Ids)
      <4>1. order \o ready \in Seq(Ids)
        BY ONLY <1>1
      <4>2. ASSUME NEW e \in Ids PROVE order \o Append(ready, e) = Append(order \o ready, e)
        <5>1. order \in Seq(Ids) /\ ready \in Seq(Ids)
          BY ONLY <1>1
        <5> QED BY ONLY <5>1, e \in Ids, AppendAfter
      <4> QED BY <1>2, <3>1, <4>1, <4>2
    <3>3. /\ Distinct(Append(order \o ready, next))
          /\ \A v : Within(Append(order \o ready, next), v)
                      <=> Within(order \o ready, v) \/ v = next
      BY <1>1, <1>2, <1>7, <3>2, WithinAppend
    <3>4. \A v \in Ids : indegree'[v] = 0 <=> Within(order \o ready, v) \/ v = next
      BY <1>2, <1>4, <1>6, <1>5, <2>1
    <3>5. ready' \in Seq(Ids)
      BY ONLY <1>1, <1>2, <3>1
    <3> QED BY <3>2, <3>3, <3>4, <3>5
  <2>2. CASE indegree'[next] # 0
    <3>1. ready' = ready
      BY <2>2
    <3>2. \A v \in Ids : indegree'[v] = 0 <=> Within(order \o ready, v)
      BY <1>2, <1>4, <1>6, <1>5, <2>2
    <3> QED BY <1>1, <3>1, <3>2
  <2> QED BY <2>1, <2>2
<1>9. TypeOK'
  <2>1. TypeOK
    BY DEF ResolveInvariant
  <2> QED BY <1>2, <1>6, <1>8, <2>1, SameGraph DEF TypeOK
<1>10. CountsExact(edges, Ids, indegree', order, ready', left')
  <2>1. ASSUME NEW v \in Ids
        PROVE  indegree'[v] = PendingOf(edges, order, v) + CountOf(left', v)
    <3>1. PICK a \in Nat, b \in Nat :
            /\ a = PendingOf(edges, order, v) /\ b = CountOf(left', v)
            /\ indegree[v] = a + (b + (IF next = v THEN 1 ELSE 0))
      BY <1>3, <1>4
    <3>2. indegree'[v] = a + b
      BY <1>6, <3>1
    <3> QED BY <3>1, <3>2
  <2> QED BY <1>8, <2>1 DEF CountsExact
<1>11. CountsAreExact'
  BY <1>10, CountsAre, SameGraph
<1>12. WhilePopping'
  <2>1. Forward'
    BY <1>1 DEF Forward
  <2> QED BY <1>1, <1>8, <2>1, SameGraph DEF WhilePopping
<1> QED BY <1>9, <1>11, <1>12, SameGraph
      DEF ResolveInvariant, WhileIds, WhileEdges, WhileRoots, ChainIsTopological,
          FailsOnlyWithoutChain

LEMMA RelaxedStep ==
  ASSUME ResolveInvariant, Relaxed
  PROVE  ResolveInvariant'
<1> USE DEF Relaxed, graphVars
<1>1. CountsExact(edges, Ids, indegree, order, ready, left)
  BY PoppingFacts
<1>2. TypeOK'
  <2>1. TypeOK
    BY DEF ResolveInvariant
  <2> QED BY <2>1, SameGraph DEF TypeOK
<1>3. WhilePopping'
  <2>1. Forward'
    BY DEF Forward, ResolveInvariant, WhilePopping
  <2> QED BY <2>1, SameGraph DEF ResolveInvariant, WhilePopping
<1>4. CountsAreExact'
  BY <1>1, CountsAre, SameGraph
<1> QED BY <1>2, <1>3, <1>4, SameGraph
      DEF ResolveInvariant, WhileIds, WhileEdges, WhileRoots, ChainIsTopological,
          FailsOnlyWithoutChain

\* The loop has ended: what it left out has no first node; what it put in is
\* everything, once.
LEMMA NothingLeftOut ==
  ASSUME ResolveInvariant, pc = "pop", ready = <<>>
  PROVE  /\ Len(order) # n => Cyclic(n, edges)
         /\ Len(order) = n => \A v \in Ids : Within(order, v)
<1>1. /\ n \in Nat /\ Ids = 0 .. n - 1
      /\ edges \in Seq(Edges) /\ DOMAIN edges = 1 .. Len(edges)
      /\ \A i \in 1 .. Len(edges) : edges[i].from \in Ids /\ edges[i].to \in Ids
      /\ order \in Seq(Ids) /\ left = <<>>
      /\ Distinct(order \o ready)
      /\ CountsExact(edges, Ids, indegree, order, ready, left)
  BY PoppingFacts DEF ResolveInvariant, WhilePopping
<1>2. order \o ready = order
  BY <1>1
<1>3. (\A v \in Ids : Within(order, v)) <=> Len(order) = n
  BY <1>1, <1>2, LongEnough
<1>4. ASSUME Len(order) # n PROVE Cyclic(n, edges)
  <2> DEFINE S == {v \in Ids : ~Within(order, v)}
  <2>1. S # {} /\ S \in SUBSET NodeIds(n)
    BY <1>1, <1>3, <1>4 DEF NodeIds
  <2>2. ASSUME NEW v \in S PROVE \E i \in DOMAIN edges : edges[i].to = v /\ edges[i].from \in S
    <3>1. /\ indegree[v] = PendingOf(edges, order, v) + CountOf(left, v)
          /\ indegree[v] = 0 <=> Within(order \o ready, v)
      BY <1>1 DEF CountsExact
    <3>2. PendingOf(edges, order, v) \in Nat /\ CountOf(left, v) = 0
      BY <1>1, PendingType, NoEdgesYet
    <3>3. PendingOf(edges, order, v) # 0
      BY <1>2, <3>1, <3>2
    <3>4. PICK i \in 1 .. Len(edges) : edges[i].to = v /\ ~Within(order, edges[i].from)
      BY <1>1, <3>3, PendingType
    <3> QED BY <1>1, <3>4
  <2> QED BY <2>1, <2>2 DEF Cyclic
<1> QED BY <1>3, <1>4

\* Without repetition a node has one position.
LEMMA PositionIs ==
  ASSUME NEW s, Distinct(s), NEW i \in DOMAIN s
  PROVE  Position(s, s[i]) = i
BY DEF Position, Distinct

LEMMA BuildLinkStep ==
  ASSUME ResolveInvariant, BuildLink
  PROVE  ResolveInvariant'
<1> USE DEF BuildLink, graphVars
<1>1. /\ n \in Nat /\ Ids = 0 .. n - 1
      /\ edges \in Seq(Edges) /\ DOMAIN edges = 1 .. Len(edges)
      /\ \A i \in 1 .. Len(edges) : edges[i].from \in Ids /\ edges[i].to \in Ids
      /\ order \in Seq(Ids) /\ Distinct(order \o ready) /\ Forward
  BY PoppingFacts
<1>2. order \o ready = order /\ DOMAIN order = 1 .. Len(order)
  BY <1>1
<1>3. CASE Len(order) # n
  <2>1. pc' = "failed" /\ link' = link
    BY <1>3
  <2>2. TypeOK'
    <3>1. TypeOK
      BY DEF ResolveInvariant
    <3> QED BY <2>1, <3>1, SameGraph DEF TypeOK
  <2>3. Cyclic(n, edges)
    BY <1>3, NothingLeftOut
  <2> QED BY <2>1, <2>2, <2>3, SameGraph
        DEF ResolveInvariant, WhileIds, WhileEdges, WhileRoots, WhilePopping, CountsAreExact,
            ChainIsTopological, FailsOnlyWithoutChain
<1>4. CASE Len(order) = n
  <2>1. /\ pc' = "done"
        /\ link' = [v \in Ids |-> IF v = Last(order) THEN NoNode
                                  ELSE order[Position(order, v) + 1]]
    BY <1>4
  <2>2. \A v \in Ids : \E i \in DOMAIN order : order[i] = v
    BY <1>4, NothingLeftOut DEF Within
  <2>3. \A i \in 1 .. n : Position(order, order[i]) = i /\ order[i] \in Ids
    BY <1>1, <1>2, <1>4, PositionIs
  <2>4. ASSUME NEW i \in 1 .. n
        PROVE  link'[order[i]] = (IF i = n THEN NoNode ELSE order[i + 1])
    <3>1. order[i] = Last(order) <=> i = n
      <4>1. Last(order) = order[n] /\ n \in 1 .. n
        BY <1>1, <1>4 DEF Last
      <4> QED BY <2>3, <4>1
    <3> QED BY <2>1, <2>3, <3>1
  <2>5. TypeOK'
    <3>1. TypeOK
      BY DEF ResolveInvariant
    <3>2. ASSUME NEW v \in Ids PROVE link'[v] \in Ids \cup {NoNode}
      <4>1. PICK i \in 1 .. n : order[i] = v
        BY <1>2, <1>4, <2>2
      <4>2. CASE i = n
        BY <2>4, <4>1, <4>2
      <4>3. CASE i # n
        <5>1. i + 1 \in 1 .. n
          BY <1>1, <4>3
        <5> QED BY <2>3, <2>4, <4>1, <4>3, <5>1
      <4> QED BY <4>2, <4>3
    <3>3. link' \in [Ids -> Ids \cup {NoNode}]
      BY <2>1, <3>2
    <3> QED BY <2>1, <3>1, <3>3, SameGraph DEF TypeOK
  <2>6. Topological(n, edges, order)
    <3>1. ASSUME NEW i \in 1 .. Len(edges)
          PROVE  Position(order, edges[i].from) < Position(order, edges[i].to)
      <4>1. PICK q \in 1 .. n : order[q] = edges[i].to
        BY <1>1, <1>2, <1>4, <2>2
      <4>2. PICK p \in 1 .. q - 1 : order[p] = edges[i].from
        BY <1>1, <1>4, <4>1 DEF Forward
      <4>3. p \in 1 .. n /\ p < q
        BY <1>1
      <4>4. Position(order, order[p]) = p /\ Position(order, order[q]) = q
        BY <2>3, <4>3
      <4> QED BY <4>1, <4>2, <4>3, <4>4
    <3> QED BY <1>1, <1>4, <2>2, <3>1 DEF Topological, Ids
  <2>7. ChainIsTopological'
    BY <2>1, <2>4, <2>6, SameGraph DEF ChainIsTopological
  <2> QED BY <2>1, <2>5, <2>7, SameGraph
        DEF ResolveInvariant, WhileIds, WhileEdges, WhileRoots, WhilePopping, CountsAreExact,
            FailsOnlyWithoutChain
<1> QED BY <1>3, <1>4

LEMMA ResolveStutter ==
  ASSUME ResolveInvariant, UNCHANGED vars
  PROVE  ResolveInvariant'
<1> USE SameGraph DEF vars, graphVars, ResolveInvariant
<1>1. TypeOK' /\ GraphGiven'
  BY DEF TypeOK
<1>2. WhileIds' /\ WhileEdges' /\ WhileRoots'
  BY DEF WhileIds, WhileEdges, WhileRoots
<1>3. WhilePopping'
  BY DEF WhilePopping, Forward
<1>4. CountsAreExact'
  BY CountsAre
<1>5. ChainIsTopological' /\ FailsOnlyWithoutChain'
  BY DEF ChainIsTopological, FailsOnlyWithoutChain
<1> QED BY <1>1, <1>2, <1>3, <1>4, <1>5

LEMMA ResolveStep == ResolveInvariant /\ [Next]_vars => ResolveInvariant'
BY CheckIdStep, IdsCheckedStep, AddEdgeStep, EdgesAddedStep, CollectRootStep, RootsCollectedStep,
   PopReadyStep, RelaxStep, RelaxedStep, BuildLinkStep, ResolveStutter
   DEF Next

-----------------------------------------------------------------------------

\* The counters and queues of resolve_parsed_graph stay in their types: no
\* index misses its vector and no count goes below zero.
THEOREM TypeCorrect == Spec => []TypeOK
<1>1. ResolveInvariant => TypeOK
  BY DEF ResolveInvariant
<1> QED BY <1>1, ResolveInit, ResolveStep, PTL DEF Spec

\* While nodes are popped, indegree counts the edges from nodes not yet
\* relaxed, repeated edges included, and is zero for the nodes ready or popped.
THEOREM IndegreeIsExact == Spec => []CountsAreExact
<1>1. ResolveInvariant => CountsAreExact
  BY DEF ResolveInvariant
<1> QED BY <1>1, ResolveInit, ResolveStep, PTL DEF Spec

\* The chain has every node once, after all its predecessors, and next_node
\* walks it from its head to its end.
THEOREM ChainRunsInOrder == Spec => []ChainIsTopological
<1>1. ResolveInvariant => ChainIsTopological
  BY DEF ResolveInvariant
<1> QED BY <1>1, ResolveInit, ResolveStep, PTL DEF Spec

\* ParseFailed is answered only for a graph with a wrong id, an edge to nowhere
\* or a cycle.
THEOREM RefusesOnlyUnorderable == Spec => []FailsOnlyWithoutChain
<1>1. ResolveInvariant => FailsOnlyWithoutChain
  BY DEF ResolveInvariant
<1> QED BY <1>1, ResolveInit, ResolveStep, PTL DEF Spec
=============================================================================
