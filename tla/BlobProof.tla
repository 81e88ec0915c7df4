----------------------------- MODULE BlobProof -------------------------------
(***************************************************************************)
(* Proofs about graph blobs, for every layout, every width of u32 and      *)
(* usize, every graph and every change to a header.                        *)
(***************************************************************************)
EXTENDS BlobTransfer, TLAPS


USE DEF U32

\* Products of natural numbers stay natural, and do not shrink what is
\* multiplied by a positive number.
LEMMA ProductOfNats ==
  ASSUME NEW c \in Nat, NEW s \in Nat \ {0}
  PROVE  c * s \in Nat /\ c <= c * s
<1>1. c * s \in Nat
  OBVIOUS
<1>2. c * s = c + c * (s - 1) /\ c * (s - 1) \in Nat
  OBVIOUS
<1> QED BY ONLY <1>1, <1>2, c \in Nat

\* pad_to only appends, and what follows it is aligned.
LEMMA PaddedIsAligned ==
  ASSUME NEW l \in Nat, NEW align \in Nat \ {0}
  PROVE  Padded(l, align) \in Nat /\ l <= Padded(l, align) /\ Padded(l, align) % align = 0
<1> DEFINE r == l % align
           q == l \div align
<1>1. r \in 0 .. align - 1 /\ q \in Int /\ l = align * q + r
  OBVIOUS
<1>2. CASE r = 0
  <2>1. (align - r) % align = 0
    BY <1>2
  <2>2. Padded(l, align) = l
    BY <2>1 DEF Padded
  <2> QED BY <2>2, <1>2
<1>3. CASE r # 0
  <2>1. (align - r) % align = align - r
    <3>1. align - r \in 1 .. align - 1
      BY <1>1, <1>3
    <3> QED BY ONLY <3>1, align \in Nat \ {0}
  <2>2. Padded(l, align) = align * q + align
    BY <2>1, <1>1 DEF Padded
  <2>3. align * q + align = align * (q + 1)
    BY <1>1
  <2>4. (align * (q + 1)) % align = 0
    BY <1>1
  <2>5. l <= align * q + align /\ align * q + align \in Nat
    BY <1>1
  <2> QED BY ONLY <2>2, <2>3, <2>4, <2>5
<1> QED BY <1>2, <1>3

\* Where the sections of a blob lie.
LEMMA SectionsInOrder ==
  ASSUME NEW n \in Nat, NEW e \in Nat
  PROVE  /\ NodesOffset \in Nat /\ EdgesOffset(n) \in Nat /\ TotalSize(n, e) \in Nat
         /\ NodesOffset % NodeAlign = 0 /\ EdgesOffset(n) % EdgeAlign = 0
         /\ HeaderSize <= NodesOffset
         /\ n * NodeSize \in Nat /\ n <= n * NodeSize
         /\ e * EdgeSize \in Nat /\ e <= e * EdgeSize
         /\ NodesOffset + n * NodeSize <= EdgesOffset(n)
         /\ EdgesOffset(n) + e * EdgeSize = TotalSize(n, e)
<1>1. /\ n * NodeSize \in Nat /\ n <= n * NodeSize
      /\ e * EdgeSize \in Nat /\ e <= e * EdgeSize
  BY ProductOfNats, LayoutAssumption
<1>2. NodesOffset \in Nat /\ HeaderSize <= NodesOffset /\ NodesOffset % NodeAlign = 0
  BY PaddedIsAligned, LayoutAssumption DEF NodesOffset
<1>3. NodesOffset + n * NodeSize \in Nat
  BY <1>1, <1>2
<1>4. /\ EdgesOffset(n) \in Nat /\ NodesOffset + n * NodeSize <= EdgesOffset(n)
      /\ EdgesOffset(n) % EdgeAlign = 0
  BY <1>3, PaddedIsAligned, LayoutAssumption DEF EdgesOffset
<1>5. TotalSize(n, e) = EdgesOffset(n) + e * EdgeSize
  BY DEF TotalSize
<1>6. TotalSize(n, e) \in Nat
  BY ONLY <1>1, <1>4, <1>5
<1> QED BY ONLY <1>1, <1>2, <1>4, <1>5, <1>6

\* A section is accepted iff it ends inside the blob.
LEMMA AcceptedSection ==
  ASSUME NEW total \in U32, NEW offset \in U32, NEW count \in U32, NEW size \in Nat \ {0}
  PROVE  SectionVerdict(total, offset, count, size) = "Ok" <=> offset + count * size <= total
<1>1. PICK p \in Nat : p = count * size
  BY ProductOfNats
<1>2. total <= MaxUsize /\ MaxUsize \in Nat /\ total \in Nat /\ offset \in Nat
  BY LayoutAssumption
<1>3. SectionVerdict(total, offset, count, size) =
        IF p > MaxUsize \/ offset + p > MaxUsize THEN "CountOverflow"
        ELSE IF offset + p > total THEN "SectionOutOfRange"
        ELSE "Ok"
  BY <1>1 DEF SectionVerdict
<1> QED BY ONLY <1>1, <1>2, <1>3

\* What from_parts wrote is what parse accepts.
LEMMA FrozenIsAccepted ==
  ASSUME NEW n \in Nat, NEW e \in Nat, SizeFits(n, e)
  PROVE  /\ HeaderOf(n, e) \in Headers /\ TotalSize(n, e) \in U32
         /\ ParseVerdict(TotalSize(n, e), HeaderOf(n, e)) = "Ok"
<1> DEFINE h == HeaderOf(n, e)
           t == TotalSize(n, e)
<1>1. t <= MaxU32 /\ MaxU32 \in Nat
  BY LayoutAssumption DEF SizeFits
<1>2. /\ t \in U32 /\ NodesOffset \in U32 /\ EdgesOffset(n) \in U32
      /\ n \in U32 /\ e \in U32 /\ HeaderSize <= t
      /\ NodesOffset + n * NodeSize <= t /\ EdgesOffset(n) + e * EdgeSize <= t
  <2> HIDE DEF t
  <2>1. HeaderSize \in Nat
    BY LayoutAssumption
  <2>2. EdgesOffset(n) + e * EdgeSize = t
    BY SectionsInOrder DEF t
  <2>3. t \in Nat
    BY SectionsInOrder DEF t
  <2>4. PICK p, q \in Nat : p = n * NodeSize /\ q = e * EdgeSize
    BY SectionsInOrder
  <2>5. /\ n <= p /\ e <= q /\ NodesOffset \in Nat /\ EdgesOffset(n) \in Nat
        /\ HeaderSize <= NodesOffset /\ NodesOffset + p <= EdgesOffset(n)
    BY <2>4, SectionsInOrder
  <2>6. /\ NodesOffset <= t /\ EdgesOffset(n) <= t /\ n <= t /\ e <= t /\ HeaderSize <= t
        /\ NodesOffset + p <= t /\ EdgesOffset(n) + q <= t
    BY ONLY <2>1, <2>2, <2>3, <2>4, <2>5, n \in Nat, e \in Nat
  <2> QED BY ONLY <2>3, <2>4, <2>5, <2>6, <1>1, n \in Nat, e \in Nat DEF U32
<1>3. h = [magic |-> TRUE, total_size |-> t, node_count |-> n, edge_count |-> e,
           nodes_offset |-> NodesOffset, edges_offset |-> EdgesOffset(n)]
  BY DEF HeaderOf
<1>4. h \in Headers
  BY ONLY <1>2, <1>3 DEF Headers
<1>5. NodesVerdict(t, h) = "Ok" /\ EdgesVerdict(t, h) = "Ok"
  <2>1. NodeSize \in Nat \ {0} /\ EdgeSize \in Nat \ {0}
    BY LayoutAssumption
  <2>2. SectionVerdict(t, NodesOffset, n, NodeSize) = "Ok"
    BY ONLY <2>1, <1>2, AcceptedSection
  <2>3. SectionVerdict(t, EdgesOffset(n), e, EdgeSize) = "Ok"
    BY ONLY <2>1, <1>2, AcceptedSection
  <2> QED BY <2>2, <2>3, <1>3 DEF NodesVerdict, EdgesVerdict
<1>6. ~(t < HeaderSize) /\ h.magic /\ h.total_size = t
  <2>1. HeaderSize \in Nat /\ t \in Nat
    BY <1>2, LayoutAssumption
  <2> QED BY ONLY <2>1, <1>2, <1>3
<1>7. ParseVerdict(t, h) = "Ok"
  BY ONLY <1>5, <1>6 DEF ParseVerdict
<1> QED BY <1>2, <1>4, <1>7

-----------------------------------------------------------------------------

\* A header is only ever changed to another header.
LEMMA OverwrittenAreHeaders ==
  ASSUME header \in Headers
  PROVE  Overwritten \subseteq Headers
<1> SUFFICES ASSUME NEW h \in Overwritten PROVE h \in Headers
  OBVIOUS
<1>1. CASE h = [header EXCEPT !.magic = FALSE]
  BY <1>1 DEF Headers
<1>2. ASSUME NEW v \in U32,
             h \in {[header EXCEPT !.total_size = v], [header EXCEPT !.node_count = v],
                    [header EXCEPT !.edge_count = v], [header EXCEPT !.nodes_offset = v],
                    [header EXCEPT !.edges_offset = v]}
      PROVE  h \in Headers
  BY <1>2 DEF Headers
<1> QED BY <1>1, <1>2 DEF Overwritten

\* Whatever the parser answers is one of its answers.
LEMMA ParseAnswers ==
  ParseVerdict(len, header) \in
    {"Ok", "TooSmall", "BadMagic", "SizeMismatch", "SectionOutOfRange", "CountOverflow"}
BY DEF ParseVerdict, NodesVerdict, EdgesVerdict, SectionVerdict

\* The verdict is the one the blob deserves, and a blob that was not touched
\* is the one that from_parts wrote.
VerdictIsParse == verdict = "Ok" => ParseVerdict(len, header) = "Ok"

Untouched ==
  verdict \in {"blob", "Ok"} /\ damages = 0 =>
    /\ header = HeaderOf(nodeCount, edgeCount)
    /\ len = TotalSize(nodeCount, edgeCount)
    /\ SizeFits(nodeCount, edgeCount)

OnlyOverflowFails == damages = 0 => verdict \in {"parts", "blob", "SizeOverflow", "Ok"}

BlobInvariant == TypeOK /\ VerdictIsParse /\ Untouched /\ OnlyOverflowFails

LEMMA InitBlob == Init => BlobInvariant
<1> SUFFICES ASSUME Init PROVE BlobInvariant
  OBVIOUS
<1>1. NoHeader \in Headers
  BY LayoutAssumption DEF NoHeader, Headers
<1>2. 0 \in 0 .. MaxDamages /\ 0 \in U32
  BY LayoutAssumption, TransferAssumption
<1> QED BY <1>1, <1>2 DEF Init, BlobInvariant, TypeOK, VerdictIsParse, Untouched, OnlyOverflowFails

LEMMA NextBlob == BlobInvariant /\ [Next]_vars => BlobInvariant'
<1> SUFFICES ASSUME BlobInvariant, [Next]_vars PROVE BlobInvariant'
  OBVIOUS
<1> USE DEF BlobInvariant, TypeOK, VerdictIsParse, Untouched, OnlyOverflowFails
<1>1. CASE FromParts
  <2>1. nodeCount \in Nat /\ edgeCount \in Nat
    BY TransferAssumption
  <2>2. SizeFits(nodeCount, edgeCount) =>
          HeaderOf(nodeCount, edgeCount) \in Headers /\ TotalSize(nodeCount, edgeCount) \in U32
    BY <2>1, FrozenIsAccepted
  <2> QED BY <1>1, <2>2 DEF FromParts
<1>2. CASE DamageHeader
  <2>1. damages' # 0 /\ damages' \in 0 .. MaxDamages
    BY <1>2, TransferAssumption DEF DamageHeader
  <2>2. header' \in Headers
    BY <1>2, OverwrittenAreHeaders DEF DamageHeader
  <2> QED BY <1>2, <2>1, <2>2 DEF DamageHeader
<1>3. CASE DamageLength
  <2>1. damages' # 0 /\ damages' \in 0 .. MaxDamages
    BY <1>3, TransferAssumption DEF DamageLength
  <2> QED BY <1>3, <2>1 DEF DamageLength
<1>4. CASE Parse
  <2>1. damages = 0 => ParseVerdict(len, header) = "Ok"
    <3>1. nodeCount \in Nat /\ edgeCount \in Nat
      BY TransferAssumption
    <3> QED BY <1>4, <3>1, FrozenIsAccepted DEF Parse
  <2> QED BY <1>4, <2>1, ParseAnswers DEF Parse
<1>5. CASE UNCHANGED vars
  BY <1>5 DEF vars
<1> QED BY <1>1, <1>2, <1>3, <1>4, <1>5 DEF Next

\* The invariant above holds of every blob on its way.
THEOREM BlobCorrect == Spec => []BlobInvariant
BY InitBlob, NextBlob, PTL DEF Spec

\* Counts, offsets and lengths stay in their widths.
THEOREM TypeCorrect == Spec => []TypeOK
<1>1. BlobInvariant => TypeOK
  BY DEF BlobInvariant
<1> QED BY <1>1, BlobCorrect, PTL

\* The parser of a blob changed in any way reads nothing outside it.
THEOREM ReadsStayInBounds == Spec => []ReadsInBounds
<1>1. BlobInvariant => ReadsInBounds
  <2> SUFFICES ASSUME BlobInvariant, verdict = "Ok"
               PROVE  HeaderSize <= len /\ NodesEnd(header) <= len /\ EdgesEnd(header) <= len
    BY DEF ReadsInBounds
  <2>1. /\ ~(len < HeaderSize) /\ header.total_size = len
        /\ NodesVerdict(len, header) = "Ok" /\ EdgesVerdict(len, header) = "Ok"
    BY DEF BlobInvariant, VerdictIsParse, ParseVerdict
  <2>2. /\ len \in U32 /\ header.nodes_offset \in U32 /\ header.node_count \in U32
        /\ header.edges_offset \in U32 /\ header.edge_count \in U32
    BY DEF BlobInvariant, TypeOK, Headers
  <2>3. NodesEnd(header) <= len /\ EdgesEnd(header) <= len
    BY <2>1, <2>2, AcceptedSection, LayoutAssumption
    DEF NodesVerdict, EdgesVerdict, NodesEnd, EdgesEnd
  <2>4. HeaderSize \in Nat /\ len \in Nat
    BY <2>2, LayoutAssumption
  <2>5. HeaderSize <= len
    BY ONLY <2>1, <2>4
  <2> QED BY <2>3, <2>5
<1> QED BY <1>1, BlobCorrect, PTL

\* An untouched blob parses, to the sections that were written.
THEOREM RoundTripCorrect == Spec => []RoundTrip
<1>1. BlobInvariant => RoundTrip
  <2> SUFFICES ASSUME BlobInvariant, damages = 0, verdict \in {"blob", "Ok"}
               PROVE  /\ header.node_count = nodeCount /\ header.edge_count = edgeCount
                      /\ header.nodes_offset % NodeAlign = 0 /\ header.edges_offset % EdgeAlign = 0
                      /\ HeaderSize <= header.nodes_offset
                      /\ NodesEnd(header) <= header.edges_offset
                      /\ EdgesEnd(header) = len
    BY DEF BlobInvariant, OnlyOverflowFails, RoundTrip
  <2>1. nodeCount \in Nat /\ edgeCount \in Nat
    BY TransferAssumption DEF BlobInvariant, TypeOK
  <2>2. /\ header.node_count = nodeCount /\ header.edge_count = edgeCount
        /\ header.nodes_offset = NodesOffset /\ header.edges_offset = EdgesOffset(nodeCount)
        /\ len = TotalSize(nodeCount, edgeCount)
    BY DEF BlobInvariant, Untouched, HeaderOf
  <2>3. /\ NodesEnd(header) = NodesOffset + nodeCount * NodeSize
        /\ EdgesEnd(header) = EdgesOffset(nodeCount) + edgeCount * EdgeSize
    BY <2>2 DEF NodesEnd, EdgesEnd
  <2> QED BY ONLY <2>1, <2>2, <2>3, SectionsInOrder
<1> QED BY <1>1, BlobCorrect, PTL
=============================================================================
