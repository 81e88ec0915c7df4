------------------------------- MODULE Matrix -------------------------------
(***************************************************************************)
(* MAT_MUL and CONV2D (matmul.rs, conv2d.rs), each with its two             *)
(* implementations: the scalar loops for the CPU and the tiles (for CONV2D,  *)
(* im2col and the tiles) for the A100.  These kernels index the buffers by   *)
(* the strides and extents of their attribute; the shapes of the views play  *)
(* no part.                                                                  *)
(***************************************************************************)
EXTENDS TensorMeta, KernelAttr

CONSTANT Tile   \* A100_FP16_TILE
ASSUME TileAssumption == Tile \in Nat \ {0}

AtLeastOne(n) == IF n = 0 THEN 1 ELSE n
Elements(v) == v.bytes \div 2

(* --- the index arithmetic of MatMulAttr ---------------------------------- *)
\* Mutant: the index after the last one is accepted.
RegionFitsByOne(len, batch, rows, cols, s) ==
  \/ batch = 0 \/ rows = 0 \/ cols = 0
  \/ LET last == (batch - 1) * s.batch + (rows - 1) * s.row + (cols - 1) * s.col
     IN last <= UsizeMax /\ last <= len

\* A region of `rows' by `cols' in each of `batch' matrices, with strides
\* s = [row, col, batch]: the last index, computed without overflow, is inside.
RegionFits(len, batch, rows, cols, s) ==
  \/ batch = 0 \/ rows = 0 \/ cols = 0
  \/ LET last == (batch - 1) * s.batch + (rows - 1) * s.row + (cols - 1) * s.col
     IN last <= UsizeMax /\ last < len

Batches(a) == AtLeastOne(a.batch)
LhsRows(a) == IF a.lhsT THEN a.k ELSE a.m
LhsCols(a) == IF a.lhsT THEN a.m ELSE a.k
RhsRows(a) == IF a.rhsT THEN a.n ELSE a.k
RhsCols(a) == IF a.rhsT THEN a.k ELSE a.n

ValidateBounds(a, lhs_len, rhs_len, out_len) ==
  /\ RegionFits(lhs_len, Batches(a), LhsRows(a), LhsCols(a), a.lhs)
  /\ RegionFits(rhs_len, Batches(a), RhsRows(a), RhsCols(a), a.rhs)
  /\ RegionFits(out_len, Batches(a), a.m, a.n, a.out)

LhsIndex(a, b, row, depth) ==
  b * a.lhs.batch + (IF a.lhsT THEN depth ELSE row) * a.lhs.row
                  + (IF a.lhsT THEN row ELSE depth) * a.lhs.col
RhsIndex(a, b, depth, col) ==
  b * a.rhs.batch + (IF a.rhsT THEN col ELSE depth) * a.rhs.row
                  + (IF a.rhsT THEN depth ELSE col) * a.rhs.col
OutIndex(a, b, row, col) == b * a.out.batch + row * a.out.row + col * a.out.col

(* --- the two ways to accumulate a dot product ---------------------------- *)
\* lhs[row, depth] and rhs[col, depth] are the addresses of the operands, or 0
\* for a padding cell; a pair with a padding cell adds zero and is left out.
Paired(pairs) ==
  LET real == InOrder({d \in DOMAIN pairs : pairs[d][1] # 0 /\ pairs[d][2] # 0})
  IN [i \in 1 .. 2 * Len(real) |-> pairs[real[(i + 1) \div 2]][IF i % 2 = 1 THEN 1 ELSE 2]]

ScalarDot(k, row, col, lhs, rhs) ==
  Paired([d \in 1 .. k |-> <<lhs[<<row, d - 1>>], rhs[<<col, d - 1>>]>>])

\* pack_f16_tile and vfwmadot_tile: the tile that holds (row, col) is packed
\* into two flat arrays, padded with zeros where the matrix ends, and
\* accumulated one depth tile after the other.
Packed(k, row, depth, operand) ==
  LET first == (row \div Tile) * Tile
  IN [i \in 0 .. Tile * Tile - 1 |->
        IF depth + (i % Tile) < k /\ i \div Tile = row - first
        THEN operand[<<first + (i \div Tile), depth + (i % Tile)>>] ELSE 0]

\* Mutant: the last tile is dropped when the depth does not fill it.
FullTiles(k) == k \div Tile
DepthTiles(k) == (k + Tile - 1) \div Tile

TiledDot(k, row, col, lhs, rhs) ==
  LET tiles == 0 .. DepthTiles(k) - 1
      l == [t \in tiles |-> Packed(k, row, t * Tile, lhs)]
      r == [t \in tiles |-> Packed(k, col, t * Tile, rhs)]
      cell(tile, line, d) == tile[d \div Tile][(line % Tile) * Tile + (d % Tile)]
  IN Paired([d \in 1 .. DepthTiles(k) * Tile |-> <<cell(l, row, d - 1), cell(r, col, d - 1)>>])

Dot(vector, k, row, col, lhs, rhs) ==
  IF vector THEN TiledDot(k, row, col, lhs, rhs) ELSE ScalarDot(k, row, col, lhs, rhs)

(* --- MAT_MUL --------------------------------------------------------------- *)
MatMulOK(c) ==
  /\ ExpectIO(c, {2}, {1}) /\ AllF16(c)
  /\ c.attr.accum = "F32"
  /\ \A v \in ViewsOf(c) : TypedOK(v, 2)
  /\ ValidateBounds(c.attr, Elements(c.in[1]), Elements(c.in[2]), Elements(c.out[1]))
  /\ TargetOf(c) \in {"CPU", "A100"}

MatMulTerm(c, batch, row, col) ==
  LET a == c.attr
      depths == 0 .. a.k - 1
      lhs == [x \in {row} \X depths |-> c.in[1].data + 2 * LhsIndex(a, batch, x[1], x[2])]
      rhs == [x \in {col} \X depths |-> c.in[2].data + 2 * RhsIndex(a, batch, x[2], x[1])]
  IN Term("dot", <<>>, Dot(VectorTarget(c), a.k, row, col, lhs, rhs))

\* The stores of MAT_MUL, by batch, row and column.
MatMulCells(a) == (0 .. Batches(a) - 1) \X (0 .. a.m - 1) \X (0 .. a.n - 1)
MatMulWrites(c) ==
  [x \in MatMulCells(c.attr) |->
     [at  |-> c.out[1].data + 2 * OutIndex(c.attr, x[1], x[2], x[3]),
      val |-> MatMulTerm(c, x[1], x[2], x[3])]]

(* --- CONV2D ---------------------------------------------------------------- *)
\* Conv2dGeom: zero means one for the batch, the groups, the strides and the
\* dilations.  Pairs are <<height, width>>.
Geom(a) ==
  [batch |-> AtLeastOne(a.batch), groups |-> AtLeastOne(a.groups),
   cin |-> a.cin, cout |-> a.cout, in |-> a.in, out |-> a.out, kernel |-> a.kernel, pad |-> a.pad,
   stride |-> <<AtLeastOne(a.stride[1]), AtLeastOne(a.stride[2])>>,
   dilation |-> <<AtLeastOne(a.dilation[1]), AtLeastOne(a.dilation[2])>>]

GeomOK(g) ==
  /\ g.cin # 0 /\ g.cout # 0
  /\ \A d \in {1, 2} : g.in[d] # 0 /\ g.out[d] # 0 /\ g.kernel[d] # 0
  /\ g.cin % g.groups = 0 /\ g.cout % g.groups = 0

CinPerGroup(g) == g.cin \div g.groups
CoutPerGroup(g) == g.cout \div g.groups
\* The two products the code leaves unchecked: they wrap.
Taps(g) == CinPerGroup(g) * g.kernel[1] * g.kernel[2]
PatchSize(g) == Taps(g) % (UsizeMax + 1)
Spatial(g) == (g.out[1] * g.out[2]) % (UsizeMax + 1)

InputNeed(g) == g.batch * g.cin * g.in[1] * g.in[2]
WeightNeed(g) == g.cout * PatchSize(g)
OutputNeed(g) == g.batch * g.cout * Spatial(g)

ValidateLengths(g, input_len, weight_len, output_len, bias_len) ==
  /\ InputNeed(g) <= UsizeMax /\ InputNeed(g) <= input_len
  /\ WeightNeed(g) <= UsizeMax /\ WeightNeed(g) <= weight_len
  /\ OutputNeed(g) <= UsizeMax /\ OutputNeed(g) <= output_len
  /\ g.cout <= bias_len

\* Where a kernel tap reads the input, per axis d, before the padding is
\* subtracted; a tap in the padding reads nothing.
Tap(g, d, o, k) == o * g.stride[d] + k * g.dilation[d]

\* Mutant: a tap that runs past the far edge is read all the same.
TapInsideNear(g, d, o, k) == Tap(g, d, o, k) >= g.pad[d]
TapInside(g, d, o, k) == Tap(g, d, o, k) - g.pad[d] \in 0 .. g.in[d] - 1
InputIndex(g, batch, channel, oy, ox, ky, kx) ==
  ((batch * g.cin + channel) * g.in[1] + Tap(g, 1, oy, ky) - g.pad[1]) * g.in[2]
    + Tap(g, 2, ox, kx) - g.pad[2]
OutputIndex(g, batch, channel, oy, ox) ==
  ((batch * g.cout + channel) * g.out[1] + oy) * g.out[2] + ox

ConvOK(c) ==
  /\ ExpectIO(c, 2 .. 3, {1}) /\ NoAlias(c) /\ AllF16(c)
  /\ GeomOK(Geom(c.attr))
  /\ \A v \in ViewsOf(c) : TypedOK(v, 2)
  /\ ValidateLengths(Geom(c.attr), Elements(c.in[1]), Elements(c.in[2]), Elements(c.out[1]),
                     IF Len(c.in) = 3 THEN Elements(c.in[3]) ELSE c.attr.cout)
  /\ TargetOf(c) \in {"CPU", "A100"}

\* The address a patch position p of group `group' reads for output cell s, or
\* 0 in the padding: one cell of the im2col matrix.
PatchAddr(c, batch, group, p, s) ==
  LET g == Geom(c.attr)
      channel == group * CinPerGroup(g) + p \div (g.kernel[1] * g.kernel[2])
      ky == (p \div g.kernel[2]) % g.kernel[1]
      kx == p % g.kernel[2]
      oy == s \div g.out[2]
      ox == s % g.out[2]
  IN IF TapInside(g, 1, oy, ky) /\ TapInside(g, 2, ox, kx)
     THEN c.in[1].data + 2 * InputIndex(g, batch, channel, oy, ox, ky, kx) ELSE 0

(* --- CONV2D on the A100 ------------------------------------------------------ *)
\* The im2col matrix of a group has one element per tap and output cell.  vec!
\* panics beyond isize::MAX bytes; where the number of elements, or that of the
\* taps in it, has wrapped, the matrix is shorter than the loop that fills it in
\* order, which panics at its end (conv2d.rs:287).  Nothing is stored before.
ConvPanics(g) == 2 * (Taps(g) * Spatial(g)) > UsizeMax \div 2

\* compact_matmul_attr cuts the two sizes to 32 bits: what is left is the number
\* of columns and the depth of the product, and the length it takes the rows of
\* its three matrices to have.
AsU32(n) == n % (U32Max + 1)
TileCols(g) == AsU32(Spatial(g))
TileDepth(g) == AsU32(PatchSize(g))

\* The place of a cell in the output of its group, and whether the product, which
\* stores its rows one after the other from the first place on, gets that far.
GroupPlace(g, oc, s) == (oc % CoutPerGroup(g)) * Spatial(g) + s
Reached(g, place) == place < CoutPerGroup(g) * TileCols(g)

\* What the product stores at a place.
ConvProduct(c, batch, group, place) ==
  LET g == Geom(c.attr)
      row == place \div TileCols(g)
      col == place % TileCols(g)
      depths == 0 .. TileDepth(g) - 1
      im2col == [i \in 0 .. PatchSize(g) * Spatial(g) - 1 |->
                   PatchAddr(c, batch, group, i \div Spatial(g), i % Spatial(g))]
      weight == [x \in {row} \X depths |->
        c.in[2].data + 2 * (group * CoutPerGroup(g) * PatchSize(g) + x[1] * TileDepth(g) + x[2])]
      column == [x \in {col} \X depths |-> im2col[x[2] * TileCols(g) + x[1]]]
  IN TiledDot(TileDepth(g), row, col, weight, column)

ConvA100At(c, batch, oc, s) ==
  LET g == Geom(c.attr)
      group == oc \div CoutPerGroup(g)
      base == batch * g.cout * Spatial(g) + group * CoutPerGroup(g) * Spatial(g)
  IN c.out[1].data + 2 * (base + GroupPlace(g, oc, s))

\* The product is rounded and stored; add_bias then reads every cell of the group
\* again, those the product has not reached too, adds the bias and rounds once more.
Biased(c) == Len(c.in) = 3
ConvA100Term(c, batch, oc, s) ==
  LET g == Geom(c.attr)
      group == oc \div CoutPerGroup(g)
      row == oc % CoutPerGroup(g)
      place == GroupPlace(g, oc, s)
      held == IF Reached(g, place) THEN ConvProduct(c, batch, group, place)
              ELSE <<ConvA100At(c, batch, oc, s)>>
  IN IF Biased(c)
     THEN Term("biased", <<>>, held \o <<c.in[3].data + 2 * (group * CoutPerGroup(g) + row)>>)
     ELSE Term("conv", <<>>, held)

(* --- CONV2D on the CPU --------------------------------------------------------- *)
\* The CPU path: the sum starts from the bias and runs over the taps.
ConvCpuTerm(c, batch, oc, oy, ox) ==
  LET g == Geom(c.attr)
      group == oc \div CoutPerGroup(g)
      s == oy * g.out[2] + ox
      depths == 0 .. Taps(g) - 1
      weight == [x \in {0} \X depths |-> c.in[2].data + 2 * (oc * PatchSize(g) + x[2])]
      input == [x \in {s} \X depths |-> PatchAddr(c, batch, group, x[2], x[1])]
      bias == IF Biased(c) THEN <<c.in[3].data + 2 * oc>> ELSE <<>>
  IN Term("conv", <<>>, bias \o ScalarDot(Taps(g), 0, s, weight, input))

ConvCells(g) ==
  (0 .. g.batch - 1) \X (0 .. g.cout - 1) \X (0 .. g.out[1] - 1) \X (0 .. g.out[2] - 1)
ConvCpuAt(c, batch, oc, oy, ox) == c.out[1].data + 2 * OutputIndex(Geom(c.attr), batch, oc, oy, ox)
\* The cells a target stores to.
ConvStoredCells(c) ==
  LET g == Geom(c.attr)
  IN {x \in ConvCells(g) :
        VectorTarget(c) => Biased(c) \/ Reached(g, GroupPlace(g, x[2], x[3] * g.out[2] + x[4]))}
ConvWrites(c) ==
  [x \in ConvStoredCells(c) |->
     LET s == x[3] * Geom(c.attr).out[2] + x[4]
     IN IF VectorTarget(c)
        THEN [at |-> ConvA100At(c, x[1], x[2], s), val |-> ConvA100Term(c, x[1], x[2], s)]
        ELSE [at |-> ConvCpuAt(c, x[1], x[2], x[3], x[4]),
              val |-> ConvCpuTerm(c, x[1], x[2], x[3], x[4])]]
=============================================================================
