--------------------------- MODULE KernelReference ---------------------------
(***************************************************************************)
(* What the kernels promise, said in the coordinates of the tensors: which   *)
(* cells of the inputs a cell of an output shows.  The kernels work with      *)
(* linear indices, blocks, tiles and byte offsets; nothing of that is used     *)
(* here, and every cell is found by its strides alone.                        *)
(***************************************************************************)
EXTENDS KernelBackend

Call == CallOf(desc)
Running == pc = "writing"
Completed == node.complete /\ node.ret = "ok"
Now(address) == Held(mem, address)

\* The cells of a tensor, the address of one, and the order they come in.
Cells(shape) ==
  LET top == CHOOSE t \in {0} \cup {shape[a] : a \in DOMAIN shape} :
               \A a \in DOMAIN shape : shape[a] <= t
  IN {x \in [1 .. Len(shape) -> 0 .. top - 1] : InShape(shape, x)}
At(v, x) ==
  LET o[a \in 0 .. Len(x)] == IF a = 0 THEN v.data ELSE o[a-1] + x[a] * v.stride[a] IN o[Len(x)]
CellsBefore(shape, x) ==
  Cardinality({y \in Cells(shape) :
    \E a \in 1 .. Len(shape) : y[a] < x[a] /\ \A b \in 1 .. a - 1 : y[b] = x[b]})
IntAt(c, x) == c.ints[(At(c.in[2], x) - c.in[2].data) \div SizeOf(c.in[2])]
NumberAt(c, x) == c.vals[(At(Src(c), x) - Src(c).data) \div SizeOf(Src(c))]

\* An index or an axis below zero counts from the end.
Wrap(i, n) == (i + n) % n
Agree(x, y, axes) == \A a \in axes : x[a] = y[a]
AxisIn(c, v) == 1 + Wrap(c.attr.axis, Rank(v))
SumOfExtents(c, i, axis) ==
  LET s[j \in 0 .. i] == IF j = 0 THEN 0 ELSE s[j-1] + c.in[j].shape[axis] IN s[i]

(* --- data movement ----------------------------------------------------------- *)
\* The position p/q between the n cells of an axis of the input that position y
\* of the m cells of the output stands for.
ExactPosition(c, y, n, m) ==
  CASE c.attr.coordinate_mode = 0 -> [p |-> (2 * y + 1) * n - m, q |-> 2 * m]
    [] c.attr.coordinate_mode = 1 -> [p |-> y * n, q |-> m]
    [] c.attr.coordinate_mode = 2 ->
         IF m = 1 THEN [p |-> 0, q |-> 1] ELSE [p |-> y * (n - 1), q |-> m - 1]

\* Cell x of n lies at position p/q or is the last one below it.
Below(x, p, q, n) == (x * q <= p \/ x = 0) /\ ((x + 1) * q > p \/ x = n - 1)

\* RESIZE takes cell x for that position: the nearest (the lower of two), the one
\* below or the one above.
TakenFor(c, x, p, q, n) ==
  LET away(j) == IF j * q > p THEN j * q - p ELSE p - j * q
  IN CASE c.attr.nearest_mode = 0 ->
            \A j \in 0 .. n - 1 : away(x) < away(j) \/ (away(x) = away(j) /\ x <= j)
       [] c.attr.nearest_mode = 1 -> Below(x, p, q, n)
       [] c.attr.nearest_mode = 2 ->
            (x * q >= p \/ x = n - 1) /\ ((x - 1) * q < p \/ x = 0)
ResizedFrom(c, x, y, n, m) ==
  LET e == ExactPosition(c, y, n, m) IN TakenFor(c, x, e.p, e.q, n)

MoveOps == {"CONCAT", "TRANSPOSE", "GATHER", "GATHER_ELEMENTS", "COPY", "CAST", "EXPAND",
            "TILE", "RESIZE"}
Moves(c) == c.op \in MoveOps /\ (c.op = "RESIZE" => c.attr.mode = 0) /\ ~Skips(c)

\* Cell y of the output shows cell x of input i.
Shows(c, i, x, y) ==
  CASE c.op = "CONCAT" ->
         LET axis == AxisIn(c, Dst(c))
         IN /\ Agree(x, y, Axes(Dst(c)) \ {axis})
            /\ y[axis] = SumOfExtents(c, i - 1, axis) + x[axis]
    [] c.op = "TRANSPOSE" ->
         \A a \in Axes(Dst(c)) : y[a] = x[1 + Wrap(c.attr.perm[a], Rank(Src(c)))]
    [] c.op = "GATHER" ->
         LET axis == AxisIn(c, Src(c))  q == Rank(c.in[2])
         IN /\ Agree(x, y, 1 .. axis - 1)
            /\ x[axis] = Wrap(IntAt(c, SubSeq(y, axis, axis + q - 1)), Src(c).shape[axis])
            /\ \A a \in axis + 1 .. Rank(Src(c)) : x[a] = y[a + q - 1]
    [] c.op = "GATHER_ELEMENTS" ->
         LET axis == AxisIn(c, Src(c))
         IN /\ Agree(x, y, Axes(Src(c)) \ {axis})
            /\ x[axis] = Wrap(IntAt(c, y), Src(c).shape[axis])
    [] c.op = "COPY" -> CellsBefore(Src(c).shape, x) = CellsBefore(Dst(c).shape, y)
    [] c.op = "CAST" -> x = y
    [] c.op = "EXPAND" ->
         \A a \in Axes(Src(c)) :
           Src(c).shape[a] = 1 \/ x[a] = y[a + Rank(Dst(c)) - Rank(Src(c))]
    [] c.op = "TILE" -> \A a \in Axes(Src(c)) : (y[a] - x[a]) % Src(c).shape[a] = 0
    [] c.op = "RESIZE" ->
         /\ Agree(x, y, {1, 2})
         /\ \A a \in {3, 4} : ResizedFrom(c, x[a], y[a], Src(c).shape[a], Dst(c).shape[a])

Sources(c, y) ==
  {ix \in UNION {{i} \X Cells(c.in[i].shape) : i \in IF c.op = "CONCAT" THEN DOMAIN c.in ELSE {1}} :
     Shows(c, ix[1], ix[2], y)}

MovedValue(c, address) ==
  IF c.op = "CAST" /\ c.in[1].dtype # c.out[1].dtype
  THEN Term("cast", <<SizeOf(Src(c)), SizeOf(Dst(c))>>, <<address>>) ELSE Moved(address)

\* The cells that lie at the address of cell y: y alone, unless strides overlap.
SameAddress(v, y) == {z \in Cells(v.shape) : At(v, z) = At(v, y)}

\* Every cell of the output of a data movement kernel shows exactly one cell of
\* its inputs, the one its ONNX operation names in coordinates, and its address
\* ends up with what that cell holds, whatever the strides of the two tensors:
\* only where the strides of the output put several of its cells at one address
\* does it keep what one of them shows.  A copy onto the same address moves
\* nothing (transform.rs:377) and is left out.
MovesTheRightElements ==
  Completed /\ Moves(Call) =>
    \A y \in Cells(Dst(Call).shape) :
      /\ Cardinality(Sources(Call, y)) = 1
      /\ \E z \in SameAddress(Dst(Call), y) : \A ix \in Sources(Call, z) :
           Now(At(Dst(Call), y)) = MovedValue(Call, At(Call.in[ix[1]], ix[2]))

(* --- arithmetic ---------------------------------------------------------------- *)
\* The cells of the row of y along an axis, in order.
Along(v, y, axis) == [j \in 1 .. v.shape[axis] |-> At(v, [y EXCEPT ![axis] = j - 1])]
\* The cell of a smaller tensor that meets cell y, axis a of it facing axis a + lead.
Facing(v, y, lead) == At(v, [a \in Axes(v) |-> IF v.shape[a] = 1 THEN 0 ELSE y[a + lead]])
CellNumber(v, n) == CHOOSE x \in Cells(v.shape) : CellsBefore(v.shape, x) = n

SoftmaxReads(c, y) ==
  LET axis == AxisIn(c, Src(c))
      mask(z) == IF Len(c.in) = 2 THEN <<Facing(c.in[2], z, 0)>> ELSE <<>>
      masks == [j \in 1 .. Src(c).shape[axis] |-> Facing(c.in[2], [y EXCEPT ![axis] = j - 1], 0)]
  IN (<<At(Src(c), y)>> \o mask(y))
       \o (Along(Src(c), y, axis) \o (IF Len(c.in) = 2 THEN masks ELSE <<>>))

RmsNormReads(c, y) ==
  LET last == Rank(Src(c))
  IN <<At(Src(c), y)>>
       \o (IF Len(c.in) = 2 THEN <<At(c.in[2], CellNumber(c.in[2], y[last]))>> ELSE <<>>)
       \o Along(Src(c), y, last)

\* ROPE rotates dimension x with dimension y, x being the first of the pair.
RopePair(c, x, y) ==
  IF c.attr.mode = GptJ THEN x % 2 = 0 /\ y = x + 1 ELSE y = x + c.attr.n_dims \div 2
RopeValue(c, y) ==
  LET d == y[4]
      dims == 0 .. c.attr.n_dims - 1
      other == CHOOSE e \in dims : RopePair(c, d, e) \/ RopePair(c, e, d)
      first == IF d < other THEN d ELSE other
      position ==
        IF Len(c.in) = 1 THEN y[2]
        ELSE IF Count(c.in[2]) = Src(c).shape[2] THEN IntAt(c, CellNumber(c.in[2], y[2]))
        ELSE IntAt(c, CellNumber(c.in[2], y[1] * Src(c).shape[2] + y[2]))
      pair == IF c.attr.mode = GptJ THEN first \div 2 ELSE first
  IN IF d \in dims
     THEN Term("rotate", <<IF d = first THEN 1 ELSE 2, pair, position>>,
               <<At(Src(c), [y EXCEPT ![4] = first]),
                 At(Src(c), [y EXCEPT ![4] = d + other - first])>>)
     ELSE Moved(At(Src(c), y))

GluReads(c, y) ==
  LET upper == [y EXCEPT ![1] = @ + Dst(c).shape[1]]
  IN IF Len(c.in) = 2 THEN <<At(Src(c), y), At(c.in[2], y)>>
     ELSE IF c.attr.swapped # 0 THEN <<At(Src(c), upper), At(Src(c), y)>>
     ELSE <<At(Src(c), y), At(Src(c), upper)>>

\* REDUCE_MAX: the cells that differ from y at most along the reduced axes.
ReducedAxes(c) ==
  IF c.attr.axes = <<>> THEN (IF c.attr.noop_with_empty_axes THEN {} ELSE Axes(Src(c)))
  ELSE {1 + Wrap(c.attr.axes[i], Rank(Src(c))) : i \in DOMAIN c.attr.axes}
AxisInOutput(c, a) ==
  IF c.attr.keepdims THEN a ELSE Cardinality({b \in 1 .. a : b \notin ReducedAxes(c)})
ReducedCells(c, y) ==
  {x \in Cells(Src(c).shape) :
     \A a \in Axes(Src(c)) \ ReducedAxes(c) : x[a] = y[AxisInOutput(c, a)]}
\* Each of them is read once, in whatever order; with no axis to reduce, the one
\* cell is moved.
ReduceValue(c, y, value) ==
  /\ value.f = (IF c.attr.axes = <<>> /\ c.attr.noop_with_empty_axes THEN "moved" ELSE "max")
  /\ {value.from[i] : i \in DOMAIN value.from} = {At(Src(c), x) : x \in ReducedCells(c, y)}
  /\ Len(value.from) = Cardinality(ReducedCells(c, y))

BinaryReads(c, y) == [i \in 1 .. 2 |-> Facing(c.in[i], y, Rank(Dst(c)) - Rank(c.in[i]))]

\* The pairs of cells a product runs over.
MatMulReads(c, y) ==
  [i \in 1 .. 2 * c.attr.k |->
     LET d == (i - 1) \div 2
     IN IF i % 2 = 1 THEN At(c.in[1], IF c.attr.lhsT THEN <<y[1], d, y[2]>> ELSE <<y[1], y[2], d>>)
        ELSE At(c.in[2], IF c.attr.rhsT THEN <<y[1], y[3], d>> ELSE <<y[1], d, y[3]>>)]

\* The input pixel under a tap of the kernel for output position o, the taps
\* <<channel, row, column>> that meet a pixel, and the pair of cells of one.
Pixel(g, d, o, tap) == o * g.stride[d] + tap * g.dilation[d] - g.pad[d]
ConvTaps(g, y) ==
  {t \in (0 .. CinPerGroup(g) - 1) \X (0 .. g.kernel[1] - 1) \X (0 .. g.kernel[2] - 1) :
     \A d \in {1, 2} : Pixel(g, d, y[d + 2], t[d + 1]) \in 0 .. g.in[d] - 1}
ConvPair(c, g, y, t) ==
  LET channel == (y[2] \div CoutPerGroup(g)) * CinPerGroup(g) + t[1]
  IN <<At(c.in[2], <<y[2], t[1], t[2], t[3]>>),
       At(c.in[1], <<y[1], channel, Pixel(g, 1, y[3], t[2]), Pixel(g, 2, y[4], t[3])>>)>>
\* Every pair once; the bias is added after them, to the rounded product.
ConvValue(c, y, value) ==
  LET g == Geom(c.attr)
      pairs == Cardinality(ConvTaps(g, y))
      from == value.from
  IN /\ value.f = (IF Biased(c) THEN "biased" ELSE "conv")
     /\ Len(from) = 2 * pairs + (IF Biased(c) THEN 1 ELSE 0)
     /\ {<<from[2*i - 1], from[2*i]>> : i \in 1 .. pairs} = {ConvPair(c, g, y, t) : t \in ConvTaps(g, y)}
     /\ Biased(c) => from[Len(from)] = At(c.in[3], <<y[2]>>)

\* RESIZE between pixels: the cell below the exact position along each axis, the
\* one above it, and how far the position is from the one below; a position
\* outside the image is the one at its edge.
LerpValue(c, y) ==
  LET n(d) == Src(c).shape[d + 2]
      e(d) == ExactPosition(c, y[d + 2], n(d), Dst(c).shape[d + 2])
      below(d) == CHOOSE x \in 0 .. n(d) - 1 : Below(x, e(d).p, e(d).q, n(d))
      above(d) == IF below(d) = n(d) - 1 THEN n(d) - 1 ELSE below(d) + 1
      away(d) == IF e(d).p < 0 \/ below(d) = n(d) - 1 THEN 0 ELSE e(d).p - below(d) * e(d).q
      at(i, j) == At(Src(c), <<y[1], y[2], i, j>>)
  IN Term("lerp", <<away(1), e(1).q, away(2), e(2).q>>,
          <<at(below(1), below(2)), at(below(1), above(2)),
            at(above(1), below(2)), at(above(1), above(2))>>)

Computes(c) == c.op \notin MoveOps \cup {"MAX_POOL", "TOP_K"} \/ (c.op = "RESIZE" /\ c.attr.mode = 1)

\* What the kernels that address the buffers themselves take on trust: the unary
\* ones that both views have the same strides, MAT_MUL that they are batches of
\* matrices with the strides of the attribute, CONV2D that they are the dense
\* images and weights it describes and that their sizes fit in 32 bits; and the
\* unary ones and MAT_MUL, which accept an output that overlaps an input, that it
\* does not, or is the input.
CastsFit(g) == PatchSize(g) <= U32Max /\ Spatial(g) <= U32Max
Apart(c) == \A i \in DOMAIN c.in : ~Overlap(c.in[i], Dst(c))
Batched(v, s) == v.stride = <<2 * s.batch, 2 * s.row, 2 * s.col>>
Described(c) ==
  LET g == Geom(c.attr)
  IN CASE c.op \in UnaryOps ->
            /\ MetaOK(Dst(c)) /\ Src(c).stride = Dst(c).stride
            /\ Apart(c) \/ Src(c).data = Dst(c).data
       [] c.op = "MAT_MUL" ->
            /\ Apart(c) /\ Dst(c).shape = <<Batches(c.attr), c.attr.m, c.attr.n>>
            /\ Batched(c.in[1], c.attr.lhs) /\ Batched(c.in[2], c.attr.rhs)
            /\ Batched(Dst(c), c.attr.out)
       [] c.op = "CONV2D" ->
            /\ CastsFit(g)
            /\ \A v \in ViewsOf(c) : IsContiguous(v)
            /\ c.in[1].shape = <<g.batch, g.cin, g.in[1], g.in[2]>>
            /\ c.in[2].shape = <<g.cout, CinPerGroup(g), g.kernel[1], g.kernel[2]>>
            /\ Len(c.in) = 3 => c.in[3].shape = <<g.cout>>
            /\ Dst(c).shape = <<g.batch, g.cout, g.out[1], g.out[2]>>
       [] OTHER -> TRUE

\* The value in a cell of the output of a kernel that computes.
ComputedValue(c, y, value) ==
  CASE c.op = "SOFTMAX" -> value = Term("softmax", <<>>, SoftmaxReads(c, y))
    [] c.op = "RMS_NORM" -> value = Term("rms_norm", <<>>, RmsNormReads(c, y))
    [] c.op = "ROPE" -> value = RopeValue(c, y)
    [] c.op = "GLU" -> value = Term("swiglu", <<>>, GluReads(c, y))
    [] c.op = "REDUCE_MAX" -> ReduceValue(c, y, value)
    [] c.op = "RESIZE" -> value = LerpValue(c, y)
    [] c.op \in UnaryOps -> value = Term(c.op, <<>>, <<At(Src(c), y)>>)
    [] c.op \in BinaryOps -> value = Term(c.op, <<>>, BinaryReads(c, y))
    [] c.op = "MAT_MUL" -> value = Term("dot", <<>>, MatMulReads(c, y))
    [] c.op = "CONV2D" -> ConvValue(c, y, value)

\* Every cell of the output of a kernel that computes is computed from exactly
\* the cells its operation is defined on: the row and the mask of a softmax, the
\* rotated pair and its position, the pixels under the kernel and their weights.
\* As above, a cell that shares its address may hold what another one should.
\* The kernels that look at no stride are held to it where the views are those
\* their attribute speaks of (Described).
ComputesFromTheRightElements ==
  Completed /\ Computes(Call) /\ Described(Call) =>
    \A y \in Cells(Dst(Call).shape) :
      \E z \in SameAddress(Dst(Call), y) : ComputedValue(Call, z, Now(At(Dst(Call), y)))

(* --- selection ------------------------------------------------------------------ *)
PoolCells(c, y) ==
  {x \in Cells(Src(c).shape) :
     /\ x[1] = y[1] /\ x[2] = y[2]
     /\ \A d \in {1, 2} : \E tap \in 0 .. c.attr.kernel[d] - 1 :
          x[d + 2] = y[d + 2] * AtLeast1(c.attr.stride[d]) + tap * AtLeast1(c.attr.dilation[d])
                       - c.attr.pad_before[d]}
RowCells(c, y) == {x \in Cells(Src(c).shape) : Agree(x, y, Axes(Src(c)) \ {AxisIn(c, Src(c))})}

\* x comes before z: the larger number (for TOP_K, the one asked for), and of
\* two equal numbers the one that lies first.
Better(c, x, z) ==
  LET p == NumberAt(c, x)  q == NumberAt(c, z)
  IN \/ IF c.op = "TOP_K" /\ c.attr.largest = 0 THEN p < q ELSE p > q
     \/ p = q /\ CellsBefore(Src(c).shape, x) < CellsBefore(Src(c).shape, z)

\* The cell an output cell of MAX_POOL or TOP_K stands for, and its number in
\* the index output.
Candidates(c, y) == IF c.op = "TOP_K" THEN RowCells(c, y) ELSE PoolCells(c, y)
BetterThan(c, y) == IF c.op = "TOP_K" THEN y[AxisIn(c, Src(c))] ELSE 0
SelectedCells(c, y) ==
  {x \in Candidates(c, y) :
     Cardinality({z \in Candidates(c, y) : Better(c, z, x)}) = BetterThan(c, y)}
IndexOf(c, x) ==
  IF c.op = "TOP_K" THEN x[AxisIn(c, Src(c))] ELSE CellsBefore(Src(c).shape, x)

\* What the two outputs show in cell y; an empty window leaves minus infinity and 0.
ShownCell(c, y) == CHOOSE x \in SelectedCells(c, y) : TRUE
ShownValue(c, y) ==
  IF Candidates(c, y) = {} THEN Term("minus_infinity", <<>>, <<>>)
  ELSE Moved(At(Src(c), ShownCell(c, y)))
ShownIndex(c, y) ==
  Term("index", <<IF Candidates(c, y) = {} THEN 0 ELSE IndexOf(c, ShownCell(c, y))>>, <<>>)

\* The two outputs share no byte; no kernel checks that (call.rs:455).
OutputsApart(c) == Len(c.out) = 2 => ~Overlap(c.out[1], c.out[2])

\* MAX_POOL and TOP_K write the extreme elements of their windows and rows, in
\* order, and the index output names the very element the value output shows:
\* there is exactly one that has as many better ones as the place asks for.  As
\* above, a cell that shares its address may show what another one should.
SelectsTheExtremes ==
  Completed /\ desc.op \in {"MAX_POOL", "TOP_K"} /\ OutputsApart(Call) =>
    \A y \in Cells(Dst(Call).shape) :
      /\ Candidates(Call, y) # {} => Cardinality(SelectedCells(Call, y)) = 1
      /\ \E z \in SameAddress(Dst(Call), y) : Now(At(Dst(Call), y)) = ShownValue(Call, z)
      /\ Len(Call.out) = 2 =>
           \E z \in SameAddress(Call.out[2], y) :
             Now(At(Call.out[2], y)) = ShownIndex(Call, z)

(* --- the buffers ------------------------------------------------------------------ *)
Extent(v, size) == v.data .. v.data + v.bytes - size
Written(c, o) == LET stores == Stores(c, o) IN {stores[k] : k \in DOMAIN stores}

\* Every element an accepted call is about to store lies inside the buffer of its
\* output, whatever shapes, strides and attributes the descriptor has.
StoresInBounds ==
  Running /\ next <= desc.output_count /\ LengthOK(Call, next) =>
    \A w \in Written(Call, next) :
      w.at \in Extent(Call.out[next], SizeOf(Call.out[next]))

\* Every element a stored value is computed from lies inside a buffer of the
\* inputs, also where an index tensor, a mask or a padded window chose it; only
\* CONV2D may read the output too, in the cell it adds the bias to.
LoadsInBounds ==
  Running /\ next <= desc.output_count /\ LengthOK(Call, next) =>
    \A w \in Written(Call, next) : \A k \in DOMAIN w.val.from :
      \/ \E i \in DOMAIN Call.in : w.val.from[k] \in Extent(Call.in[i], SizeOf(Call.in[i]))
      \/ desc.op = "CONV2D" /\ w.val.from[k] = w.at

\* What the A100 stores where the CPU stores w: a convolution with a bias gets it
\* after its pairs, and is rounded before that, where the sum of the CPU starts
\* from the bias.
OnA100(w) ==
  IF desc.op = "CONV2D" /\ Biased(Call)
  THEN [at |-> w.at, val |-> Term("biased", <<>>, Tail(w.val.from) \o <<Head(w.val.from)>>)]
  ELSE w
StoresOn(target) == Written([Call EXCEPT !.target = target], 1)

\* MAT_MUL and CONV2D go through the same pairs of elements in the same order on
\* the CPU and on the A100, and store to the same addresses: padding the tiles,
\* im2col, its compact layout and the places of the groups change nothing, as
\* long as the sizes of a convolution fit in 32 bits.  How the single precision
\* sums are grouped, by tile or not, is not in a term; nor is that the A100 adds a
\* product with zero for a tap in the padding, which the CPU leaves out: the two
\* differ there for a weight that is not finite.
TargetsAgree ==
  (/\ Running /\ next = 1 /\ desc.op \in {"MAT_MUL", "CONV2D"}
   /\ desc.op = "CONV2D" => CastsFit(Geom(desc.attr))) =>
    StoresOn("A100") = {OnA100(w) : w \in StoresOn("CPU")}

\* A call that reports an error has stored nothing: also a kernel with two
\* outputs has checked everything before it writes the first.
FailedCallWritesNothing == node.error_flag => mem = UntouchedMem

\* A call never changes its operands, except COPY, MAT_MUL and the unary kernels,
\* which accept an output that overlaps an input.
InputsSurvive ==
  node.complete /\ ~node.error_flag /\ desc.op \notin {"COPY", "MAT_MUL"} \cup UnaryOps =>
    \A i \in DOMAIN Call.in :
      \A a \in Extent(Call.in[i], 1) : Now(a) = Moved(a)

(* --- the ONNX Runtime entry ---------------------------------------------------------- *)
\* A request that validate_request lets through never panics in the constructors
\* of desc.rs, whether or not its tensors can then be borrowed; a submitted one
\* passes the tensor count and the metadata checks of the backend, and gives the
\* kernel the tensors of the request as row-major views.
RequestsFitTheKernel ==
  \A r \in {r \in Requests : ValidRequest(r)} :
    /\ \A i \in 1 .. TotalOf(r) :
         LET t == r.tensors[i] IN DescAsserts(t.bytes, t.dtype, t.layout, t.shape)
    /\ pc = "submitted" /\ desc = BuildDesc(r) =>
         /\ CountsOK(desc)
         /\ \A i \in 1 .. TotalOf(r) :
              LET t == r.tensors[i]  v == (Call.in \o Call.out)[i]
              IN /\ MetaOK(v) /\ IsContiguous(v)
                 /\ v.stride = t.stride /\ v.shape = t.shape /\ v.data = t.data

(* --- types ---------------------------------------------------------------------------- *)
Functions == {"moved", "cast", "lerp", "softmax", "rms_norm", "rotate", "swiglu",
              "minus_infinity", "index", "max", "dot", "conv", "biased"} \cup BinaryOps \cup UnaryOps

\* The types, and the agreement of the node's flags, the returned code and the
\* progress of the call.
TypeOK ==
  /\ pc \in {"idle", "refused", "submitted", "writing", "done", "panicked"}
  /\ desc = NoDesc \/ desc \in Descs \/ desc \in {BuildDesc(r) : r \in {r \in Requests : ValidRequest(r)}}
  /\ next \in 0 .. MaxSubmit + 1
  /\ \A a \in DOMAIN mem : a \in Nat /\ mem[a].f \in Functions
  /\ node.complete = (pc = "done")
  /\ node.error_flag = (node.ret = "error")
  /\ node.ret = IF node.complete THEN (IF node.error_flag THEN "error" ELSE "ok") ELSE "none"
=============================================================================
