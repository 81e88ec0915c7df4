--------------------------------- MODULE Nn ---------------------------------
(***************************************************************************)
(* The normalisation, attention, pooling and selection kernels (nn.rs).      *)
(* <Op>OK(c) is every check made before the first store; <Op>Result(c) the   *)
(* logical output (for the kernels with two outputs, a pair of them).        *)
(* Floating-point values are terms over the addresses they are computed      *)
(* from; the numbers themselves matter only where the code compares them     *)
(* (max_pool, top_k), and are then taken from Values(c).                     *)
(***************************************************************************)
EXTENDS Transform

AtLeast1(n) == IF n = 0 THEN 1 ELSE n

\* validate_float_same_shape, with the checks shared by its three callers.
SameShape(c) ==
  /\ ExpectIO(c, 1 .. 2, {1}) /\ NoAlias(c)
  /\ AllMetaOK(c)
  /\ Src(c).dtype = "F16" /\ Dst(c).dtype = "F16"
  /\ Src(c).shape = Dst(c).shape
HasSecond(c) == Len(c.in) = 2

\* The linear indices of the row along an axis that index l belongs to:
\* element j of outer block l \div (n * inner), inner position l % inner.
RowAt(shape, axis, l, j) ==
  LET inner == Inner(shape, axis)  n == shape[axis]
  IN (l \div (n * inner)) * n * inner + j * inner + (l % inner)
RowOf(shape, axis, l) == [j \in 1 .. shape[axis] |-> RowAt(shape, axis, l, j - 1)]

(* --- softmax ------------------------------------------------------------- *)
\* The mask is aligned with the input at the first axis.
MaskCoordinates(mask, ic) ==
  [a \in Axes(mask) |-> IF mask.shape[a] = 1 THEN 0 ELSE ic[a]]

SoftmaxOK(c) ==
  /\ SameShape(c)
  /\ c.attr.max_bias = 0
  /\ AxisOK(c.attr.axis, Rank(Src(c)))
  /\ ProductFits(Behind(Src(c).shape, AxisOf(c, Src(c))))
  /\ HasSecond(c) =>
       /\ c.in[2].dtype = "F16" /\ Rank(c.in[2]) <= Rank(Src(c))
       /\ \A a \in Axes(c.in[2]) : c.in[2].shape[a] \in {1, Src(c).shape[a]}

SoftmaxResult(c) ==
  LET shape == Src(c).shape
      axis == AxisOf(c, Src(c))
      addr == LogicalAddr(Src(c))
      mask == LogicalAddr(c.in[2])
      maskAt(l) == mask[RowMajor(c.in[2].shape, MaskCoordinates(c.in[2], Coordinates(shape, l)))]
      masked(ls) == IF HasSecond(c) THEN [j \in DOMAIN ls |-> maskAt(ls[j])] ELSE <<>>
      read(ls) == [j \in DOMAIN ls |-> addr[ls[j]]] \o masked(ls)
  IN [l \in Linears(Dst(c)) |->
        Term("softmax", <<>>, read(<<l>>) \o read(RowOf(shape, axis, l)))]

(* --- rms_norm -------------------------------------------------------------- *)
RmsNormOK(c) ==
  /\ SameShape(c)
  /\ c.attr.hidden_size # 0 /\ c.attr.eps > 0
  /\ Rank(Src(c)) > 0 /\ Src(c).shape[Rank(Src(c))] = c.attr.hidden_size
  /\ HasSecond(c) => c.in[2].dtype = "F16" /\ Count(c.in[2]) = c.attr.hidden_size

\* Chunks of hidden_size consecutive elements, each with the whole weight.
RmsNormResult(c) ==
  LET hidden == c.attr.hidden_size
      addr == LogicalAddr(Src(c))
      weight == LogicalAddr(c.in[2])
      chunk(l) == [j \in 1 .. hidden |-> addr[(l \div hidden) * hidden + j - 1]]
  IN [l \in Linears(Dst(c)) |->
        Term("rms_norm", <<>>,
             <<addr[l]>> \o (IF HasSecond(c) THEN <<weight[l % hidden]>> ELSE <<>>) \o chunk(l))]

(* --- rope ------------------------------------------------------------------ *)
GptJ == 0
Neox == 1

RopeOK(c) ==
  /\ SameShape(c) /\ Rank(Src(c)) = 4
  /\ c.attr.n_dims \in 1 .. Src(c).shape[4] /\ c.attr.n_dims % 2 = 0
  /\ c.attr.head_count \in {0, Src(c).shape[3]}
  /\ c.attr.mode \in {GptJ, Neox}
  /\ HasSecond(c) =>
       /\ IndicesOK(c.in[2])
       /\ Count(c.in[2]) \in {Src(c).shape[2], Src(c).shape[1] * Src(c).shape[2]}

\* The position of one token: its own index, or read from the second input,
\* which holds one row for all batches or one per batch.
PositionOf(c, b, s) ==
  IF ~HasSecond(c) THEN s
  ELSE Indices(c, c.in[2])[IF Count(c.in[2]) = Src(c).shape[2] THEN s ELSE b * Src(c).shape[2] + s]

\* Mutant: NEOX pairs are half a head apart, not half the rotated dimensions.
PairOfHead(c, p) ==
  IF c.attr.mode = GptJ THEN <<2 * p, 2 * p + 1>> ELSE <<p, p + Src(c).shape[4] \div 2>>

\* The two dimensions rotated as pair p.
PairOf(c, p) == IF c.attr.mode = GptJ THEN <<2 * p, 2 * p + 1>> ELSE <<p, p + c.attr.n_dims \div 2>>

RopeResult(c) ==
  LET shape == Src(c).shape
      addr == LogicalAddr(Src(c))
      base(l) == (l \div shape[4]) * shape[4]
      token(l) == l \div (shape[3] * shape[4])
      position(l) == PositionOf(c, token(l) \div shape[2], token(l) % shape[2])
      rotated(l, p, half) ==
        Term("rotate", <<half, p, position(l)>>,
             <<addr[base(l) + PairOf(c, p)[1]], addr[base(l) + PairOf(c, p)[2]]>>)
      pairs == 0 .. c.attr.n_dims \div 2 - 1
  IN [l \in Linears(Dst(c)) |->
        IF \E p \in pairs, half \in 1 .. 2 : l % shape[4] = PairOf(c, p)[half]
        THEN LET p == CHOOSE p \in pairs : \E half \in 1 .. 2 : l % shape[4] = PairOf(c, p)[half]
                 half == CHOOSE half \in 1 .. 2 : l % shape[4] = PairOf(c, p)[half]
             IN rotated(l, p, half)
        ELSE Moved(addr[l])]

(* --- glu ------------------------------------------------------------------- *)
GluOK(c) ==
  /\ ExpectIO(c, 1 .. 2, {1}) /\ NoAlias(c)
  /\ c.attr.op = 2 /\ c.attr.flags = 0
  /\ AllF16(c) /\ AllMetaOK(c)
  /\ Rank(Src(c)) = Rank(Dst(c))
  /\ IF HasSecond(c) THEN c.in[2].shape = Dst(c).shape /\ Src(c).shape = Dst(c).shape
     ELSE \/ Src(c).shape = Dst(c).shape
             /\ (Rank(Src(c)) > 0 => Src(c).shape[1] = 2 * Dst(c).shape[1])
          \/ /\ Rank(Src(c)) > 0
             /\ Src(c).shape[1] = 2 * Dst(c).shape[1]
             /\ Tail(Src(c).shape) = Tail(Dst(c).shape)

\* Two operands element by element, or the two halves of axis 0 of one.
GluResult(c) ==
  LET lhs == LogicalAddr(Src(c))
      rhs == LogicalAddr(c.in[Len(c.in)])
      half(oc, upper) ==
        RowMajor(Src(c).shape, [oc EXCEPT ![1] = @ + (IF upper THEN Dst(c).shape[1] ELSE 0)])
      swapped == c.attr.swapped # 0
  IN [l \in Linears(Dst(c)) |->
        IF Src(c).shape = Dst(c).shape THEN Term("swiglu", <<>>, <<lhs[l], rhs[l]>>)
        ELSE LET oc == Coordinates(Dst(c).shape, l)
             IN Term("swiglu", <<>>, <<lhs[half(oc, swapped)], rhs[half(oc, ~swapped)]>>)]

(* --- max_pool -------------------------------------------------------------- *)
\* pool_output_dim, per spatial axis d of 1 .. 2.
PoolDim(c, d) ==
  LET effective == AtLeast1(c.attr.dilation[d]) * (c.attr.kernel[d] - 1) + 1
      padded == Src(c).shape[d + 2] + c.attr.pad_before[d] + c.attr.pad_after[d]
      stride == AtLeast1(c.attr.stride[d])
      steps == padded - effective
  IN IF padded < effective THEN 0
     ELSE (IF c.attr.ceil THEN (steps + stride - 1) \div stride ELSE steps \div stride) + 1

MaxPoolOK(c) ==
  /\ ExpectIO(c, {1}, 1 .. 2) /\ NoAlias(c)
  /\ Src(c).dtype = "F16" /\ Dst(c).dtype = "F16" /\ AllMetaOK(c)
  /\ Rank(Src(c)) = 4 /\ Rank(Dst(c)) = 4
  /\ \A a \in {1, 2} : Src(c).shape[a] = Dst(c).shape[a]
  /\ \A d \in {1, 2} : c.attr.kernel[d] # 0 /\ Dst(c).shape[d + 2] = PoolDim(c, d)
  /\ Len(c.out) = 2 => c.out[2].dtype = "I64" /\ c.out[2].shape = Dst(c).shape

\* The input cells under the window of an output cell, in scan order; cells in
\* the padding are skipped.
Window(c, oc) ==
  LET is == Src(c).shape
      raw(d, k) == oc[d + 2] * AtLeast1(c.attr.stride[d]) + k * AtLeast1(c.attr.dilation[d])
      inside(d, k) == raw(d, k) - c.attr.pad_before[d] \in 0 .. is[d + 2] - 1
      ky(t) == t \div c.attr.kernel[2]
      kx(t) == t % c.attr.kernel[2]
      kept == InOrder({t \in 0 .. c.attr.kernel[1] * c.attr.kernel[2] - 1 :
                         inside(1, ky(t)) /\ inside(2, kx(t))})
      at(t) == ((oc[1] * is[2] + oc[2]) * is[3] + raw(1, ky(t)) - c.attr.pad_before[1]) * is[4]
                 + raw(2, kx(t)) - c.attr.pad_before[2]
  IN [i \in DOMAIN kept |-> at(kept[i])]

\* Mutant: among equal cells the last one is taken.
LastMax(window, values) ==
  CHOOSE i \in DOMAIN window :
    /\ \A j \in DOMAIN window : values[window[j]] <= values[window[i]]
    /\ \A j \in i + 1 .. Len(window) : values[window[j]] < values[window[i]]

\* The first cell of a window that holds its maximum.
FirstMax(window, values) ==
  CHOOSE i \in DOMAIN window :
    /\ \A j \in DOMAIN window : values[window[j]] <= values[window[i]]
    /\ \A j \in 1 .. i - 1 : values[window[j]] < values[window[i]]

\* An empty window leaves -inf and index 0.
MaxPoolResult(c) ==
  LET addr == LogicalAddr(Src(c))
      values == Values(c)
      best == [l \in Linears(Dst(c)) |->
                 LET w == Window(c, Coordinates(Dst(c).shape, l))
                 IN IF w = <<>> THEN -1 ELSE w[FirstMax(w, values)]]
  IN << [l \in DOMAIN best |->
           IF best[l] = -1 THEN Term("minus_infinity", <<>>, <<>>) ELSE Moved(addr[best[l]])],
        [l \in DOMAIN best |-> Term("index", <<IF best[l] = -1 THEN 0 ELSE best[l]>>, <<>>)] >>

(* --- reduce_max ------------------------------------------------------------ *)
Reduced(c) ==
  IF c.attr.axes = <<>> THEN Axes(Src(c))
  ELSE {NormalizeAxis(c.attr.axes[i], Rank(Src(c))) + 1 : i \in DOMAIN c.attr.axes}

\* The axes of the input that have an axis of their own in the output, in order.
KeptAxes(c) ==
  InOrder({a \in Axes(Src(c)) : c.attr.keepdims \/ a \notin Reduced(c)})

ReduceNoop(c) == c.attr.axes = <<>> /\ c.attr.noop_with_empty_axes

\* The extents of the reduced axes, in order.
ReducedExtents(c) ==
  LET axes == InOrder(Reduced(c)) IN [i \in DOMAIN axes |-> Src(c).shape[axes[i]]]

ReduceMaxOK(c) ==
  /\ OneToOne(c)
  /\ Len(c.attr.axes) <= Rank(Src(c))
  /\ \A i \in DOMAIN c.attr.axes : AxisOK(c.attr.axes[i], Rank(Src(c)))
  /\ Cardinality(Reduced(c)) >= Len(c.attr.axes)
  /\ ~ReduceNoop(c) => ProductFits(ReducedExtents(c))
  /\ Dst(c).shape =
       IF ReduceNoop(c) THEN Src(c).shape
       ELSE [i \in DOMAIN KeptAxes(c) |->
               IF KeptAxes(c)[i] \in Reduced(c) THEN 1 ELSE Src(c).shape[KeptAxes(c)[i]]]

\* Every combination of the reduced axes, the last one fastest.
ReduceMaxResult(c) ==
  LET addr == LogicalAddr(Src(c))
      kept == KeptAxes(c)
      axes == InOrder(Reduced(c))
      extents == ReducedExtents(c)
      source(oc, r) ==
        [a \in Axes(Src(c)) |->
           IF a \in Reduced(c)
           THEN Coordinates(extents, r)[CHOOSE i \in DOMAIN axes : axes[i] = a]
           ELSE oc[CHOOSE i \in DOMAIN kept : kept[i] = a]]
  IN IF ReduceNoop(c) THEN Gathered(Src(c), [l \in Linears(Dst(c)) |-> l])
     ELSE [l \in Linears(Dst(c)) |->
             Term("max", <<>>,
               [i \in 1 .. Product(extents) |->
                  addr[RowMajor(Src(c).shape, source(Coordinates(Dst(c).shape, l), i - 1))]])]

(* --- top_k ----------------------------------------------------------------- *)
\* Mutant: the index output is only looked at when it is written.
TopKUncheckedIndex(c) ==
  /\ ExpectIO(c, {1}, {2}) /\ NoAlias(c)
  /\ Src(c).dtype = "F16" /\ Dst(c).dtype = "F16" /\ c.out[2].dtype = "I64"
  /\ AllMetaOK(c)
  /\ AxisOK(c.attr.axis, Rank(Src(c)))
  /\ c.attr.k \in 1 .. Src(c).shape[AxisOf(c, Src(c))]
  /\ ProductFits(Behind(Src(c).shape, AxisOf(c, Src(c))))
  /\ Dst(c).shape = [Src(c).shape EXCEPT ![AxisOf(c, Src(c))] = c.attr.k]

TopKOK(c) ==
  /\ ExpectIO(c, {1}, {2}) /\ NoAlias(c)
  /\ Src(c).dtype = "F16" /\ Dst(c).dtype = "F16" /\ c.out[2].dtype = "I64"
  /\ AllMetaOK(c)
  /\ AxisOK(c.attr.axis, Rank(Src(c)))
  /\ c.attr.k \in 1 .. Src(c).shape[AxisOf(c, Src(c))]
  /\ ProductFits(Behind(Src(c).shape, AxisOf(c, Src(c))))
  /\ c.out[2].shape = Dst(c).shape
  /\ Dst(c).shape = [Src(c).shape EXCEPT ![AxisOf(c, Src(c))] = c.attr.k]

\* The comparison of the stable sort: by value, then by position.
Precedes(c, row, values, i, j) ==
  LET x == values[row[i]]  y == values[row[j]]
  IN \/ IF c.attr.largest # 0 THEN x > y ELSE x < y
     \/ x = y /\ i < j

\* The position along the row of its s-th element in that order.
Ranked(c, row, values, s) ==
  CHOOSE i \in DOMAIN row :
    Cardinality({j \in DOMAIN row : Precedes(c, row, values, j, i)}) = s

TopKResult(c) ==
  LET axis == AxisOf(c, Src(c))
      shape == Src(c).shape
      addr == LogicalAddr(Src(c))
      values == Values(c)
      inner == Inner(shape, axis)
      k == c.attr.k
      rowOf(l) == RowOf(shape, axis, (l \div (k * inner)) * shape[axis] * inner + (l % inner))
      pick(l) == Ranked(c, rowOf(l), values, (l \div inner) % k)
  IN << [l \in Linears(Dst(c)) |-> Moved(addr[rowOf(l)[pick(l)]])],
        [l \in Linears(Dst(c)) |-> Term("index", <<pick(l) - 1>>, <<>>)] >>
=============================================================================
