-------------------------------- MODULE Dag ---------------------------------
(***************************************************************************)
(* Reference definitions about a graph of n nodes, numbered from 0, and a  *)
(* sequence of edges [from, to]: what an order of its nodes must satisfy,  *)
(* and when there is none.  They define the words the graph code of        *)
(* k3_aiUabi and k3_aiScheduler is held to, not that code.                 *)
(***************************************************************************)
EXTENDS Integers, Sequences, FiniteSets

NodeIds(n) == 0 .. n - 1

InRange(n, edges) ==
  \A i \in DOMAIN edges : edges[i].from \in NodeIds(n) /\ edges[i].to \in NodeIds(n)

\* A set of nodes none of which can come first: each has a predecessor in it.
Cyclic(n, edges) ==
  \E S \in SUBSET NodeIds(n) :
    /\ S # {}
    /\ \A v \in S : \E i \in DOMAIN edges : edges[i].to = v /\ edges[i].from \in S

Position(order, v) == CHOOSE k \in DOMAIN order : order[k] = v

\* Every node once, and every edge points forwards.
Topological(n, edges, order) ==
  /\ Len(order) = n
  /\ \A v \in NodeIds(n) : \E k \in DOMAIN order : order[k] = v
  /\ \A i \in DOMAIN edges : Position(order, edges[i].from) < Position(order, edges[i].to)
=============================================================================
