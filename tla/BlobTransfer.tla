---------------------------- MODULE BlobTransfer -----------------------------
(***************************************************************************)
(* A graph blob from AiGraphBlob::from_parts to AiGraphParser::parse       *)
(* (src/k3_aiUabi/src/graph.rs:250-351): the process that owns the bytes   *)
(* may have written over the header, or have submitted another length,     *)
(* before the driver parses them.                                          *)
(***************************************************************************)
EXTENDS BlobLayout

CONSTANTS
  MaxCount,    \* bound on the nodes and edges that are frozen
  MaxDamages   \* bound on the changes before the parse

ASSUME TransferAssumption == MaxCount \in Nat /\ MaxDamages \in Nat

VARIABLES
  nodeCount, edgeCount,   \* the parts
  verdict,                \* "parts", "blob", or how from_parts or parse ended
  len, header,            \* the blob
  damages                 \* changes made to it

vars == <<nodeCount, edgeCount, verdict, len, header, damages>>

NoHeader ==
  [magic |-> FALSE, total_size |-> 0, node_count |-> 0, edge_count |-> 0,
   nodes_offset |-> 0, edges_offset |-> 0]

Init ==
  /\ nodeCount \in 0 .. MaxCount
  /\ edgeCount \in 0 .. MaxCount
  /\ verdict = "parts"
  /\ len = 0
  /\ header = NoHeader
  /\ damages = 0

\* Mutant: the nodes are not aligned, their offset says they are.
FromPartsUnpadded ==
  /\ verdict = "parts"
  /\ IF SizeFits(nodeCount, edgeCount)
     THEN /\ verdict' = "blob"
          /\ len' = HeaderSize + nodeCount * NodeSize + edgeCount * EdgeSize
          /\ header' = HeaderOf(nodeCount, edgeCount)
     ELSE verdict' = "SizeOverflow" /\ UNCHANGED <<len, header>>
  /\ UNCHANGED <<nodeCount, edgeCount, damages>>

\* Mutant: the total is stored without the u32 check, as a cast would.
FromPartsCast ==
  /\ verdict = "parts"
  /\ verdict' = "blob"
  /\ len' = TotalSize(nodeCount, edgeCount)
  /\ header' = [HeaderOf(nodeCount, edgeCount) EXCEPT !.total_size = @ % (MaxU32 + 1)]
  /\ UNCHANGED <<nodeCount, edgeCount, damages>>

FromParts ==
  /\ verdict = "parts"
  /\ IF SizeFits(nodeCount, edgeCount)
     THEN /\ verdict' = "blob"
          /\ len' = TotalSize(nodeCount, edgeCount)
          /\ header' = HeaderOf(nodeCount, edgeCount)
     ELSE verdict' = "SizeOverflow" /\ UNCHANGED <<len, header>>
  /\ UNCHANGED <<nodeCount, edgeCount, damages>>

\* The headers that differ from header in one field.
Overwritten ==
  {[header EXCEPT !.magic = FALSE]}
    \cup UNION {{[header EXCEPT !.total_size = v], [header EXCEPT !.node_count = v],
                 [header EXCEPT !.edge_count = v], [header EXCEPT !.nodes_offset = v],
                 [header EXCEPT !.edges_offset = v]} : v \in U32}

\* A field of the header is overwritten ...
DamageHeader ==
  /\ verdict = "blob"
  /\ damages < MaxDamages
  /\ header' \in Overwritten
  /\ damages' = damages + 1
  /\ UNCHANGED <<nodeCount, edgeCount, verdict, len>>

\* ... or another length is submitted.
DamageLength ==
  /\ verdict = "blob"
  /\ damages < MaxDamages
  /\ len' \in U32
  /\ damages' = damages + 1
  /\ UNCHANGED <<nodeCount, edgeCount, verdict, header>>

Parse ==
  /\ verdict = "blob"
  /\ verdict' = ParseVerdict(len, header)
  /\ UNCHANGED <<nodeCount, edgeCount, len, header, damages>>

Next == FromParts \/ DamageHeader \/ DamageLength \/ Parse

Spec == Init /\ [][Next]_vars

-----------------------------------------------------------------------------
(* Properties.                                                             *)

TypeOK ==
  /\ nodeCount \in 0 .. MaxCount
  /\ edgeCount \in 0 .. MaxCount
  /\ verdict \in {"parts", "blob", "SizeOverflow", "Ok", "TooSmall", "BadMagic", "SizeMismatch",
                  "SectionOutOfRange", "CountOverflow"}
  /\ len \in U32
  /\ header \in Headers
  /\ damages \in 0 .. MaxDamages

\* Whatever was written over the header, parse reads no byte beyond the blob.
ReadsInBounds ==
  verdict = "Ok" => HeaderSize <= len /\ NodesEnd(header) <= len /\ EdgesEnd(header) <= len

\* A blob that nobody touched parses to the counts it was frozen with, and its
\* sections are aligned and lie behind one another, none over the header.
RoundTrip ==
  damages = 0 =>
    /\ verdict \in {"parts", "blob", "SizeOverflow", "Ok"}
    /\ verdict \in {"blob", "Ok"} =>
         /\ header.node_count = nodeCount /\ header.edge_count = edgeCount
         /\ header.nodes_offset % NodeAlign = 0 /\ header.edges_offset % EdgeAlign = 0
         /\ HeaderSize <= header.nodes_offset
         /\ NodesEnd(header) <= header.edges_offset
         /\ EdgesEnd(header) = len
=============================================================================
