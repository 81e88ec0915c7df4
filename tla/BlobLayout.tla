----------------------------- MODULE BlobLayout ------------------------------
(***************************************************************************)
(* The layout of a graph blob (src/k3_aiUabi/src/graph.rs): a header, then *)
(* the nodes, then the edges, each section aligned, and the checks with    *)
(* which the parser finds them again.  A blob is its length and its        *)
(* header; the bytes of the sections matter only by their place.           *)
(***************************************************************************)
EXTENDS Integers

CONSTANTS
  HeaderSize,              \* size_of::<AiGraphHeader>()
  NodeSize, NodeAlign,     \* of AiGraphNode
  EdgeSize, EdgeAlign,     \* of AiGraphEdge
  MaxU32,                  \* u32::MAX
  MaxUsize                 \* usize::MAX

ASSUME LayoutAssumption ==
  /\ {HeaderSize, NodeSize, NodeAlign, EdgeSize, EdgeAlign, MaxU32, MaxUsize} \subseteq Nat \ {0}
  /\ MaxU32 <= MaxUsize

U32 == 0 .. MaxU32

\* The length after pad_to.
Padded(len, align) == len + ((align - (len % align)) % align)

NodesOffset == Padded(HeaderSize, NodeAlign)
EdgesOffset(nodeCount) == Padded(NodesOffset + nodeCount * NodeSize, EdgeAlign)
TotalSize(nodeCount, edgeCount) == EdgesOffset(nodeCount) + edgeCount * EdgeSize

\* The sums of from_parts that are checked: the reserve fits a usize, the
\* offsets and the total, which is the largest of them, fit a u32.
SizeFits(nodeCount, edgeCount) ==
  /\ HeaderSize + NodeAlign + nodeCount * NodeSize + EdgeAlign + edgeCount * EdgeSize <= MaxUsize
  /\ TotalSize(nodeCount, edgeCount) <= MaxU32

Headers ==
  [magic : BOOLEAN,        \* whether it is AI_GRAPH_MAGIC
   total_size : U32, node_count : U32, edge_count : U32,
   nodes_offset : U32, edges_offset : U32]

HeaderOf(nodeCount, edgeCount) ==
  [magic |-> TRUE,
   total_size |-> TotalSize(nodeCount, edgeCount),
   node_count |-> nodeCount, edge_count |-> edgeCount,
   nodes_offset |-> NodesOffset, edges_offset |-> EdgesOffset(nodeCount)]

\* Mutant: only the start of the section is compared with the end of the blob.
SectionVerdictOfStart(total, offset, count, size) ==
  IF count * size > MaxUsize \/ offset + count * size > MaxUsize THEN "CountOverflow"
  ELSE IF offset > total THEN "SectionOutOfRange"
  ELSE "Ok"

\* checked_section: the product and the sum are checked, then the end.
SectionVerdict(total, offset, count, size) ==
  IF count * size > MaxUsize \/ offset + count * size > MaxUsize THEN "CountOverflow"
  ELSE IF offset + count * size > total THEN "SectionOutOfRange"
  ELSE "Ok"

NodesVerdict(len, h) == SectionVerdict(len, h.nodes_offset, h.node_count, NodeSize)
EdgesVerdict(len, h) == SectionVerdict(len, h.edges_offset, h.edge_count, EdgeSize)

\* AiGraphParser::parse of len bytes that begin with header h.
ParseVerdict(len, h) ==
  IF len < HeaderSize THEN "TooSmall"
  ELSE IF ~h.magic THEN "BadMagic"
  ELSE IF h.total_size # len THEN "SizeMismatch"
  ELSE IF NodesVerdict(len, h) # "Ok" THEN NodesVerdict(len, h)
  ELSE EdgesVerdict(len, h)

\* The end of the range that read_repr_vec reads, from its offset on.
NodesEnd(h) == h.nodes_offset + h.node_count * NodeSize
EdgesEnd(h) == h.edges_offset + h.edge_count * EdgeSize
=============================================================================
