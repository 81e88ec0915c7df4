---------------------------- MODULE GraphManager -----------------------------
(***************************************************************************)
(* Building a graph (src/k3_aiUabi/src/graph.rs): the push_kernel calls of *)
(* GraphManager, which search for a cycle before each edge and take a node *)
(* back when one of its edges is refused, and freeze, which checks the     *)
(* whole graph once more with Kahn's algorithm.  One action is one         *)
(* iteration of a loop of push_edge_checked, reaches and has_cycle.        *)
(* from_parts, which freeze calls, is public and may be given any graph.   *)
(***************************************************************************)
EXTENDS BlobLayout, Dag

CONSTANTS
  MaxNodes,      \* bound on the nodes that are pushed
  MaxDepends,    \* bound on the dependencies of a push
  MaxPartNodes,  \* bounds on the graphs given to from_parts directly
  MaxPartEdges

ASSUME BuilderAssumption == {MaxNodes, MaxDepends, MaxPartNodes, MaxPartEdges} \subseteq Nat

VARIABLES
  nodes,       \* GraphManager::nodes, the node_id of each
  edges,       \* GraphManager::edges
  pc,          \* where the current call is, "idle" outside calls
  depends,     \* push_kernel_depend_many: its argument, the index in it,
  k,
  edgeBase,    \*   edges.len() before the push
  stack,       \* reaches: nodes to visit, nodes visited, the node whose
  visited,     \*   edges are scanned and the index of the next edge
  node,
  j,
  parts,       \* from_parts: the nodes and edges given
  indegree,    \* has_cycle
  ready,
  count,
  before,      \* history: nodes and edges when the current or last call began
  answer       \* history: the call that ended last and its result

pushVars == <<depends, k, edgeBase, stack, visited, node, j>>
freezeVars == <<parts, indegree, ready, count>>
vars == <<nodes, edges, pc, pushVars, freezeVars, before, answer>>

NoParts == [nodes |-> <<>>, edges |-> <<>>]
Edge(from, to) == [from |-> from, to |-> to]
SeqUpTo(S, m) == UNION {[1 .. l -> S] : l \in 0 .. m}

Init ==
  /\ nodes = <<>> /\ edges = <<>>
  /\ pc = "idle"
  /\ depends = <<>> /\ k = 1 /\ edgeBase = 0
  /\ stack = <<>> /\ visited = {} /\ node = 0 /\ j = 1
  /\ parts = NoParts /\ indegree = <<>> /\ ready = <<>> /\ count = 0
  /\ before = NoParts
  /\ answer = [call |-> "none", result |-> "Ok"]

Finish(call, result) ==
  /\ pc' = "idle"
  /\ answer' = [call |-> call, result |-> result]

\* Mutant: the length of the node list is taken for an index in it.
ValidIdInclusive(id) == id <= Len(nodes)

\* validate_node_id
ValidId(id) == id < Len(nodes) /\ nodes[id + 1] = id

-----------------------------------------------------------------------------
(* push_kernel_no_depend, push_kernel_depend, push_kernel_depend_many.     *)

\* A call begins; the first two are those with no and one dependency.
BeginPush ==
  /\ pc = "idle"
  /\ Len(nodes) < MaxNodes
  /\ depends' \in SeqUpTo(0 .. MaxNodes, MaxDepends)
  /\ k' = 1
  /\ before' = [nodes |-> nodes, edges |-> edges]
  /\ parts' = NoParts
  /\ pc' = "depends"
  /\ UNCHANGED <<nodes, edges, edgeBase, stack, visited, node, j, indegree, ready, count, answer>>

CheckDepend ==
  /\ pc = "depends"
  /\ k <= Len(depends)
  /\ IF ValidId(depends[k])
     THEN k' = k + 1 /\ UNCHANGED <<pc, answer>>
     ELSE Finish("push", "InvalidDepend") /\ UNCHANGED k
  /\ UNCHANGED <<nodes, edges, depends, edgeBase, stack, visited, node, j, freezeVars, before>>

\* Mutant: ids count from one.
PushNodeFromOne ==
  /\ pc = "depends"
  /\ k > Len(depends)
  /\ edgeBase' = Len(edges)
  /\ k' = 1
  /\ IF Len(nodes) > MaxU32
     THEN Finish("push", "TooManyNodes") /\ UNCHANGED nodes
     ELSE /\ nodes' = Append(nodes, Len(nodes) + 1)
          /\ pc' = "edges"
          /\ UNCHANGED answer
  /\ UNCHANGED <<edges, depends, stack, visited, node, j, freezeVars, before>>

\* push_node
PushNode ==
  /\ pc = "depends"
  /\ k > Len(depends)
  /\ edgeBase' = Len(edges)
  /\ k' = 1
  /\ IF Len(nodes) > MaxU32
     THEN Finish("push", "TooManyNodes") /\ UNCHANGED nodes
     ELSE /\ nodes' = Append(nodes, Len(nodes))
          /\ pc' = "edges"
          /\ UNCHANGED answer
  /\ UNCHANGED <<edges, depends, stack, visited, node, j, freezeVars, before>>

\* An edge is refused: the edges of this push and its node are taken back.
TakeBack(error) ==
  /\ edges' = SubSeq(edges, 1, edgeBase)
  /\ nodes' = SubSeq(nodes, 1, Len(nodes) - 1)
  /\ Finish("push", error)

NewNode == Len(nodes) - 1

\* push_edge_checked up to its search, which starts at the new node.
CheckEdge ==
  /\ pc = "edges"
  /\ k <= Len(depends)
  /\ IF ~ValidId(depends[k]) \/ ~ValidId(NewNode)
     THEN TakeBack("InvalidDepend") /\ UNCHANGED <<stack, visited>>
     ELSE IF depends[k] = NewNode
     THEN TakeBack("CycleDetected") /\ UNCHANGED <<stack, visited>>
     ELSE /\ stack' = <<NewNode>>
          /\ visited' = {}
          /\ pc' = "reach"
          /\ UNCHANGED <<nodes, edges, answer>>
  /\ UNCHANGED <<depends, k, edgeBase, node, j, freezeVars, before>>

\* reaches: pop a node and, unless it was visited, look at its edges.
VisitNode ==
  /\ pc = "reach"
  /\ stack # <<>>
  /\ LET top == stack[Len(stack)]
     IN  IF top = depends[k]
         THEN TakeBack("CycleDetected") /\ UNCHANGED <<visited, node, j>>
         ELSE /\ IF top >= Len(nodes) \/ top \in visited
                 THEN UNCHANGED <<pc, visited, node, j>>
                 ELSE /\ visited' = visited \cup {top}
                      /\ node' = top
                      /\ j' = 1
                      /\ pc' = "scan"
              /\ UNCHANGED <<nodes, edges, answer>>
  /\ stack' = SubSeq(stack, 1, Len(stack) - 1)
  /\ UNCHANGED <<depends, k, edgeBase, freezeVars, before>>

ScanEdge ==
  /\ pc = "scan"
  /\ j <= Len(edges)
  /\ stack' = IF edges[j].from = node THEN Append(stack, edges[j].to) ELSE stack
  /\ j' = j + 1
  /\ UNCHANGED <<nodes, edges, pc, depends, k, edgeBase, visited, node, freezeVars, before, answer>>

EndScan ==
  /\ pc = "scan"
  /\ j > Len(edges)
  /\ pc' = "reach"
  /\ UNCHANGED <<nodes, edges, pushVars, freezeVars, before, answer>>

\* reaches answered false: the edge is pushed.
PushEdge ==
  /\ pc = "reach"
  /\ stack = <<>>
  /\ edges' = Append(edges, Edge(depends[k], NewNode))
  /\ k' = k + 1
  /\ pc' = "edges"
  /\ UNCHANGED <<nodes, depends, edgeBase, stack, visited, node, j, freezeVars, before, answer>>

EndPush ==
  /\ pc = "edges"
  /\ k > Len(depends)
  /\ Finish("push", "Ok")
  /\ UNCHANGED <<nodes, edges, pushVars, freezeVars, before>>

-----------------------------------------------------------------------------
(* freeze and AiGraphBlob::from_parts.                                     *)

\* freeze hands over the nodes and edges of the manager.
BeginFreeze ==
  /\ pc = "idle"
  /\ parts' = [nodes |-> nodes, edges |-> edges]
  /\ before' = parts'
  /\ pc' = "freeze"
  /\ UNCHANGED <<nodes, edges, pushVars, indegree, ready, count, answer>>

\* Anybody may call from_parts.  It does not touch a manager, so it is tried
\* before the first call to one only: ids that are not their index, endpoints
\* that do not exist, self loops, repeated edges and cycles.
PartsGiven ==
  LET right(n) == [i \in 1 .. n |-> i - 1]
      ids(n) == {right(n)} \cup {[right(n) EXCEPT ![i] = n] : i \in 1 .. n}
  IN  UNION {[nodes : ids(n), edges : SeqUpTo([from : 0 .. n, to : 0 .. n], MaxPartEdges)] :
               n \in 0 .. MaxPartNodes}

BeginFromParts ==
  /\ pc = "idle"
  /\ answer.call = "none"
  /\ parts' \in PartsGiven
  /\ pc' = "freeze"
  /\ UNCHANGED <<nodes, edges, pushVars, indegree, ready, count, before, answer>>

GivenCount == Len(parts.nodes)
GivenIds == NodeIds(GivenCount)

\* The result, or the next part of the call.
EndFreeze(result) == Finish("freeze", result) /\ indegree' = <<>> /\ ready' = <<>> /\ count' = 0

\* The counts fit a u32; then validate_graph up to has_cycle.
CheckParts ==
  /\ pc = "freeze"
  /\ IF GivenCount > MaxU32 THEN EndFreeze("TooManyNodes")
     ELSE IF Len(parts.edges) > MaxU32 THEN EndFreeze("TooManyEdges")
     ELSE IF \/ \E i \in 1 .. GivenCount : parts.nodes[i] # i - 1
             \/ \E i \in DOMAIN parts.edges :
                  parts.edges[i].from >= GivenCount \/ parts.edges[i].to >= GivenCount
     THEN EndFreeze("InvalidDepend")
     ELSE pc' = "degrees" /\ UNCHANGED <<answer, indegree, ready, count>>
  /\ UNCHANGED <<nodes, edges, pushVars, parts, before>>

\* Mutant: repeated edges are counted once.
CountDegreesOnce ==
  /\ pc = "degrees"
  /\ indegree' = [v \in GivenIds |->
                    Cardinality({parts.edges[i] : i \in {l \in DOMAIN parts.edges : parts.edges[l].to = v}})]
  /\ ready' = <<>>
  /\ count' = 0
  /\ j' = 1
  /\ pc' = "roots"
  /\ UNCHANGED <<nodes, edges, depends, k, edgeBase, stack, visited, node, parts, before, answer>>

\* has_cycle: the edges that end at each node ...
CountDegrees ==
  /\ pc = "degrees"
  /\ indegree' = [v \in GivenIds |-> Cardinality({i \in DOMAIN parts.edges : parts.edges[i].to = v})]
  /\ ready' = <<>>
  /\ count' = 0
  /\ j' = 1
  /\ pc' = "roots"
  /\ UNCHANGED <<nodes, edges, depends, k, edgeBase, stack, visited, node, parts, before, answer>>

\* ... and the nodes where none does.
CollectReady ==
  /\ pc = "roots"
  /\ j <= GivenCount
  /\ ready' = IF indegree[j - 1] = 0 THEN Append(ready, j - 1) ELSE ready
  /\ j' = j + 1
  /\ UNCHANGED <<nodes, edges, pc, depends, k, edgeBase, stack, visited, node, parts, indegree, count,
                 before, answer>>

EndCollect ==
  /\ pc = "roots"
  /\ j > GivenCount
  /\ pc' = "pop"
  /\ UNCHANGED <<nodes, edges, pushVars, freezeVars, before, answer>>

\* The last node that became ready comes first.
PopReady ==
  /\ pc = "pop"
  /\ ready # <<>>
  /\ node' = ready[Len(ready)]
  /\ ready' = SubSeq(ready, 1, Len(ready) - 1)
  /\ count' = count + 1
  /\ j' = 1
  /\ pc' = "relax"
  /\ UNCHANGED <<nodes, edges, depends, k, edgeBase, stack, visited, parts, indegree, before, answer>>

\* Mutant: a node becomes ready with its last predecessor but one.
RelaxEdgeEarly ==
  /\ pc = "relax"
  /\ j <= Len(parts.edges)
  /\ LET next == parts.edges[j].to
     IN  IF parts.edges[j].from = node
         THEN /\ indegree' = [indegree EXCEPT ![next] = @ - 1]
              /\ ready' = IF indegree'[next] <= 1 THEN Append(ready, next) ELSE ready
         ELSE UNCHANGED <<indegree, ready>>
  /\ j' = j + 1
  /\ UNCHANGED <<nodes, edges, pc, depends, k, edgeBase, stack, visited, node, parts, count, before, answer>>

RelaxEdge ==
  /\ pc = "relax"
  /\ j <= Len(parts.edges)
  /\ LET next == parts.edges[j].to
     IN  IF parts.edges[j].from = node
         THEN /\ indegree' = [indegree EXCEPT ![next] = @ - 1]
              /\ ready' = IF indegree'[next] = 0 THEN Append(ready, next) ELSE ready
         ELSE UNCHANGED <<indegree, ready>>
  /\ j' = j + 1
  /\ UNCHANGED <<nodes, edges, pc, depends, k, edgeBase, stack, visited, node, parts, count, before, answer>>

EndRelax ==
  /\ pc = "relax"
  /\ j > Len(parts.edges)
  /\ pc' = "pop"
  /\ UNCHANGED <<nodes, edges, pushVars, freezeVars, before, answer>>

\* A node that was not reached is on or behind a cycle; else write the blob.
EndKahn ==
  /\ pc = "pop"
  /\ ready = <<>>
  /\ EndFreeze(IF count # GivenCount THEN "CycleDetected"
               ELSE IF ~SizeFits(GivenCount, Len(parts.edges)) THEN "SizeOverflow"
               ELSE "Ok")
  /\ UNCHANGED <<nodes, edges, pushVars, parts, before>>

PushStep ==
  \/ CheckDepend
  \/ PushNode
  \/ CheckEdge
  \/ VisitNode
  \/ ScanEdge
  \/ EndScan
  \/ PushEdge
  \/ EndPush

FreezeStep ==
  \/ CheckParts
  \/ CountDegrees
  \/ CollectReady
  \/ EndCollect
  \/ PopReady
  \/ RelaxEdge
  \/ EndRelax
  \/ EndKahn

Next == BeginPush \/ BeginFreeze \/ BeginFromParts \/ PushStep \/ FreezeStep

Spec == Init /\ [][Next]_vars

-----------------------------------------------------------------------------
(* Properties.                                                             *)

TypeOK ==
  /\ nodes \in Seq(Nat)
  /\ edges \in Seq([from : Nat, to : Nat])
  /\ pc \in {"idle", "depends", "edges", "reach", "scan", "freeze", "degrees", "roots", "pop",
            "relax"}
  /\ depends \in Seq(Nat) /\ k \in Nat \ {0} /\ edgeBase \in Nat
  /\ stack \in Seq(Nat) /\ visited \subseteq Nat /\ node \in Nat /\ j \in Nat \ {0}
  /\ parts \in [nodes : Seq(Nat), edges : Seq([from : Nat, to : Nat])]
  /\ before \in [nodes : Seq(Nat), edges : Seq([from : Nat, to : Nat])]
  /\ pc \in {"roots", "pop", "relax"} =>
       indegree \in [GivenIds -> Nat] /\ ready \in Seq(GivenIds)
  /\ count \in Nat
  /\ answer \in [call : {"none", "push", "freeze"},
                 result : {"Ok", "InvalidDepend", "TooManyNodes", "TooManyEdges",
                           "CycleDetected", "SizeOverflow"}]

\* push_kernel_depend_many adds the node, with an edge from each dependency in
\* their order, or nothing; it is refused iff a dependency is not an earlier
\* node of the manager (or there is no id left).  The search for a cycle never
\* finds one: once the dependencies are checked no edge is refused.
PushIsAllOrNothing ==
  pc = "idle" /\ answer.call = "push" =>
    LET new == Len(before.nodes)
        added == [i \in DOMAIN depends |-> Edge(depends[i], new)]
        known == \A i \in DOMAIN depends : depends[i] < new
    IN  CASE answer.result = "Ok" ->
               known /\ nodes = Append(before.nodes, new) /\ edges = before.edges \o added
          [] answer.result = "InvalidDepend" ->
               ~known /\ nodes = before.nodes /\ edges = before.edges
          [] answer.result = "TooManyNodes" ->
               known /\ new > MaxU32 /\ nodes = before.nodes /\ edges = before.edges
          [] OTHER -> FALSE

\* What a manager holds between calls has an order, so that resolve_parsed_graph
\* accepts it.
BuiltGraphsHaveAnOrder ==
  pc = "idle" =>
    /\ \A i \in DOMAIN nodes : nodes[i] = i - 1
    /\ InRange(Len(nodes), edges)
    /\ ~Cyclic(Len(nodes), edges)

\* from_parts freezes the graphs that have an order and fit, and no others;
\* those are the ones that resolve_parsed_graph accepts.
FreezeIsExact ==
  pc = "idle" /\ answer.call = "freeze" =>
    LET wellFormed == /\ \A i \in 1 .. GivenCount : parts.nodes[i] = i - 1
                      /\ InRange(GivenCount, parts.edges)
        cyclic == Cyclic(GivenCount, parts.edges)
        fits == SizeFits(GivenCount, Len(parts.edges))
    IN  answer.result = IF GivenCount > MaxU32 THEN "TooManyNodes"
                        ELSE IF Len(parts.edges) > MaxU32 THEN "TooManyEdges"
                        ELSE IF ~wellFormed THEN "InvalidDepend"
                        ELSE IF cyclic THEN "CycleDetected"
                        ELSE IF ~fits THEN "SizeOverflow"
                        ELSE "Ok"
=============================================================================
