------------------------------ MODULE Resolve -------------------------------
(***************************************************************************)
(* resolve_parsed_graph (src/k3_aiScheduler/src/kd_kring.rs:167-231): the  *)
(* kernel turns a parsed graph into the chain a worker executes.  One      *)
(* action is one iteration of a loop; the graph is any that a blob can     *)
(* hold, with ids and edge endpoints the blob parser does not check.       *)
(***************************************************************************)
EXTENDS Dag, SequencesExt

CONSTANTS
  MaxNodes,    \* bound on the nodes of the graphs explored
  MaxEdges     \* bound on their edges

ASSUME BoundAssumption == MaxNodes \in Nat /\ MaxEdges \in Nat

VARIABLES
  ids,         \* node_id of each node of the graph
  edges,       \* its edges
  pc,          \* where the function is
  k,           \* index of the current loop
  indegree,
  outgoing,
  ready,       \* the VecDeque of nodes without a pending predecessor
  order,       \* node_order
  left,        \* successors of the popped node still to be visited
  link         \* next_node of the TaskLink, Len(ids) for None

graphVars == <<ids, edges>>
vars == <<ids, edges, pc, k, indegree, outgoing, ready, order, left, link>>

n == Len(ids)
Ids == NodeIds(n)
NoNode == n

\* A node's id is its index, or one node has another id.
IdChoices(count) ==
  LET right == [i \in 1 .. count |-> i - 1]
  IN  {right} \cup {[right EXCEPT ![i] = count] : i \in 1 .. count}

EdgeChoices(count) ==
  SeqOf([from : 0 .. count, to : 0 .. count], MaxEdges)

Init ==
  /\ \E count \in 0 .. MaxNodes : ids \in IdChoices(count) /\ edges \in EdgeChoices(count)
  /\ pc = "ids"
  /\ k = 1
  /\ indegree = [v \in Ids |-> 0]
  /\ outgoing = [v \in Ids |-> <<>>]
  /\ ready = <<>>
  /\ order = <<>>
  /\ left = <<>>
  /\ link = [v \in Ids |-> NoNode]

-----------------------------------------------------------------------------

CheckId ==
  /\ pc = "ids"
  /\ k <= n
  /\ pc' = IF ids[k] = k - 1 THEN pc ELSE "failed"
  /\ k' = k + 1
  /\ UNCHANGED <<graphVars, indegree, outgoing, ready, order, left, link>>

IdsChecked ==
  /\ pc = "ids"
  /\ k > n
  /\ pc' = "edges"
  /\ k' = 1
  /\ UNCHANGED <<graphVars, indegree, outgoing, ready, order, left, link>>

\* Mutant: an edge that repeats an earlier one is not counted again.
AddEdgeCountedOnce ==
  /\ pc = "edges"
  /\ k <= Len(edges)
  /\ LET from == edges[k].from
         to == edges[k].to
         counted == \E j \in 1 .. k - 1 : edges[j] = edges[k]
     IN  IF from >= n \/ to >= n
         THEN pc' = "failed" /\ UNCHANGED <<indegree, outgoing>>
         ELSE /\ outgoing' = [outgoing EXCEPT ![from] = Append(@, to)]
              /\ indegree' = [indegree EXCEPT ![to] = IF counted THEN @ ELSE @ + 1]
              /\ UNCHANGED pc
  /\ k' = k + 1
  /\ UNCHANGED <<graphVars, ready, order, left, link>>

\* Mutant: the predecessor's count grows, not the successor's.
AddEdgeSwapped ==
  /\ pc = "edges"
  /\ k <= Len(edges)
  /\ LET from == edges[k].from
         to == edges[k].to
     IN  IF from >= n \/ to >= n
         THEN pc' = "failed" /\ UNCHANGED <<indegree, outgoing>>
         ELSE /\ outgoing' = [outgoing EXCEPT ![to] = Append(@, from)]
              /\ indegree' = [indegree EXCEPT ![from] = @ + 1]
              /\ UNCHANGED pc
  /\ k' = k + 1
  /\ UNCHANGED <<graphVars, ready, order, left, link>>

AddEdge ==
  /\ pc = "edges"
  /\ k <= Len(edges)
  /\ LET from == edges[k].from
         to == edges[k].to
     IN  IF from >= n \/ to >= n
         THEN pc' = "failed" /\ UNCHANGED <<indegree, outgoing>>
         ELSE /\ outgoing' = [outgoing EXCEPT ![from] = Append(@, to)]
              /\ indegree' = [indegree EXCEPT ![to] = @ + 1]
              /\ UNCHANGED pc
  /\ k' = k + 1
  /\ UNCHANGED <<graphVars, ready, order, left, link>>

EdgesAdded ==
  /\ pc = "edges"
  /\ k > Len(edges)
  /\ pc' = "roots"
  /\ k' = 1
  /\ UNCHANGED <<graphVars, indegree, outgoing, ready, order, left, link>>

\* Mutant: the search for roots stops at the first node that is not one.
CollectLeadingRoot ==
  /\ pc = "roots"
  /\ k <= n
  /\ ready' = IF indegree[k - 1] = 0 THEN Append(ready, k - 1) ELSE ready
  /\ k' = IF indegree[k - 1] = 0 THEN k + 1 ELSE n + 1
  /\ UNCHANGED <<graphVars, pc, indegree, outgoing, order, left, link>>

\* Nodes without predecessors, by id.
CollectRoot ==
  /\ pc = "roots"
  /\ k <= n
  /\ ready' = IF indegree[k - 1] = 0 THEN Append(ready, k - 1) ELSE ready
  /\ k' = k + 1
  /\ UNCHANGED <<graphVars, pc, indegree, outgoing, order, left, link>>

RootsCollected ==
  /\ pc = "roots"
  /\ k > n
  /\ pc' = "pop"
  /\ UNCHANGED <<graphVars, k, indegree, outgoing, ready, order, left, link>>

PopReady ==
  /\ pc = "pop"
  /\ ready # <<>>
  /\ order' = Append(order, Head(ready))
  /\ left' = outgoing[Head(ready)]
  /\ ready' = Tail(ready)
  /\ pc' = "relax"
  /\ UNCHANGED <<graphVars, k, indegree, outgoing, link>>

\* Mutant: a node becomes ready with its last predecessor but one.
RelaxEarly ==
  /\ pc = "relax"
  /\ left # <<>>
  /\ LET next == Head(left)
     IN  /\ indegree' = [indegree EXCEPT ![next] = @ - 1]
         /\ ready' = IF indegree'[next] <= 1 THEN Append(ready, next) ELSE ready
  /\ left' = Tail(left)
  /\ UNCHANGED <<graphVars, pc, k, outgoing, order, link>>

Relax ==
  /\ pc = "relax"
  /\ left # <<>>
  /\ LET next == Head(left)
     IN  /\ indegree' = [indegree EXCEPT ![next] = @ - 1]
         /\ ready' = IF indegree'[next] = 0 THEN Append(ready, next) ELSE ready
  /\ left' = Tail(left)
  /\ UNCHANGED <<graphVars, pc, k, outgoing, order, link>>

Relaxed ==
  /\ pc = "relax"
  /\ left = <<>>
  /\ pc' = "pop"
  /\ UNCHANGED <<graphVars, k, indegree, outgoing, ready, order, left, link>>

\* A node the loop did not reach is on a cycle.  Otherwise link the chain.
BuildLink ==
  /\ pc = "pop"
  /\ ready = <<>>
  /\ pc' = IF Len(order) = n THEN "done" ELSE "failed"
  /\ link' = IF Len(order) = n
             THEN [v \in Ids |-> IF v = Last(order) THEN NoNode
                                 ELSE order[Position(order, v) + 1]]
             ELSE link
  /\ UNCHANGED <<graphVars, k, indegree, outgoing, ready, order, left>>

Next ==
  \/ CheckId
  \/ IdsChecked
  \/ AddEdge
  \/ EdgesAdded
  \/ CollectRoot
  \/ RootsCollected
  \/ PopReady
  \/ Relax
  \/ Relaxed
  \/ BuildLink

Spec == Init /\ [][Next]_vars

-----------------------------------------------------------------------------
(* Properties.                                                             *)

WellFormed == (\A i \in 1 .. n : ids[i] = i - 1) /\ InRange(n, edges)

\* The counters and queues of the function; no usize goes below zero.
TypeOK ==
  /\ pc \in {"ids", "edges", "roots", "pop", "relax", "done", "failed"}
  /\ k \in Nat
  /\ indegree \in [Ids -> Nat]
  /\ outgoing \in [Ids -> Seq(Ids)]
  /\ ready \in Seq(Ids)
  /\ order \in Seq(Ids)
  /\ left \in Seq(Ids)
  /\ link \in [Ids -> Ids \cup {NoNode}]

\* The worker runs every node after all its predecessors, each once, and
\* next_node walks the chain in that order and ends.
ChainIsTopological ==
  pc = "done" =>
    /\ Topological(n, edges, order)
    /\ \A i \in 1 .. n : link[order[i]] = IF i = n THEN NoNode ELSE order[i + 1]

\* ParseFailed says that the graph has no chain: a wrong id, an endpoint that
\* does not exist, or a cycle; repeated edges and any shape of DAG are fine.
FailsOnlyWithoutChain == pc = "failed" => ~WellFormed \/ Cyclic(n, edges)

\* Edges of the graph whose source the loop has not relaxed yet.
Pending(v) ==
  Cardinality({i \in DOMAIN edges : edges[i].to = v /\ \A j \in DOMAIN order : order[j] # edges[i].from})
StillLeft(v) == Cardinality({j \in DOMAIN left : left[j] = v})

\* While nodes are popped, the count of a node is the number of its edges,
\* repeated ones included, not relaxed yet; it is ready or popped iff the
\* count is zero.
CountsAreExact ==
  pc \in {"pop", "relax"} =>
    \A v \in Ids :
      /\ indegree[v] = Pending(v) + StillLeft(v)
      /\ indegree[v] = 0 <=> \E i \in DOMAIN (order \o ready) : (order \o ready)[i] = v

\* "ready 队列按 node id 的自然顺序出队" (kd_kring.rs:163): the node popped is
\* the one with the smallest id among those ready.
PopsSmallestId ==
  [][ Len(order') > Len(order) =>
        \A i \in DOMAIN ready : order'[Len(order')] <= ready[i] ]_vars
=============================================================================
