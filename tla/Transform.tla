------------------------------ MODULE Transform ------------------------------
(***************************************************************************)
(* The kernels that move or convert data (transform.rs).  For each of them   *)
(* <Op>OK(c) is every check made before the first store, and <Op>Result(c)   *)
(* the logical output it then writes: a function from the row-major linear   *)
(* index of the output to a term.  The arithmetic is the code's: blocks and  *)
(* linear indices, not coordinates of a mathematical array.                  *)
(***************************************************************************)
EXTENDS TensorMeta

\* The operands of the single-input kernels, and an axis attribute as a
\* position in a shape.
Src(c) == c.in[1]
Dst(c) == c.out[1]
AxisOf(c, v) == NormalizeAxis(c.attr.axis, Rank(v)) + 1
OneToOne(c) == ExpectIO(c, {1}, {1}) /\ NoAlias(c) /\ AllF16(c) /\ AllMetaOK(c)

\* gather_logical: element l of the result is element source[l] of input i.
Gathered(v, source) ==
  LET addr == LogicalAddr(v) IN [l \in DOMAIN source |-> Moved(addr[source[l]])]

(* --- concat ------------------------------------------------------------ *)
\* Where the inputs after the first i start along the axis of the output.
AxisStart(c, axis) == Sums(Len(c.in), [i \in DOMAIN c.in |-> c.in[i].shape[axis]])

ConcatOK(c) ==
  /\ ExpectIO(c, 1 .. 7, {1})
  /\ NoAlias(c) /\ AllF16(c) /\ AllMetaOK(c)
  /\ AxisOK(c.attr.axis, Rank(Dst(c)))
  /\ \A i \in DOMAIN c.in :
       /\ Rank(c.in[i]) = Rank(Dst(c))
       /\ \A a \in Axes(Dst(c)) \ {AxisOf(c, Dst(c))} : c.in[i].shape[a] = Dst(c).shape[a]
  /\ LET axis == AxisOf(c, Dst(c))
         behind == Behind(Dst(c).shape, axis)
     IN /\ AxisStart(c, axis)[Len(c.in)] = Dst(c).shape[axis]
        /\ ProductFits(behind)
        /\ (\A v \in ViewsOf(c) : IsContiguous(v)) =>
             SizeOf(Dst(c)) * (Dst(c).shape[axis] * Product(behind)) <= UsizeMax

\* Both paths of the code copy the same blocks: per index outside the axis,
\* one block of each input in turn.
ConcatResult(c) ==
  LET axis == AxisOf(c, Dst(c))
      inner == Inner(Dst(c).shape, axis)
      start == AxisStart(c, axis)
      addr == [i \in DOMAIN c.in |-> LogicalAddr(c.in[i])]
      row == Dst(c).shape[axis] * inner
  IN [l \in Linears(Dst(c)) |->
        LET i == CHOOSE i \in DOMAIN c.in :
                   l % row \in start[i-1] * inner .. start[i] * inner - 1
            block == c.in[i].shape[axis] * inner
        IN Moved(addr[i][(l \div row) * block + (l % row) - start[i-1] * inner])]

(* --- transpose ----------------------------------------------------------- *)
PermAxis(c, a) == NormalizeAxis(c.attr.perm[a], Rank(Src(c))) + 1

TransposeOK(c) ==
  /\ OneToOne(c)
  /\ Rank(Src(c)) = Rank(Dst(c)) /\ c.attr.rank = Rank(Src(c))
  /\ \A a \in Axes(Dst(c)) :
       /\ AxisOK(c.attr.perm[a], Rank(Src(c)))
       /\ \A b \in 1 .. a - 1 : PermAxis(c, b) # PermAxis(c, a)
       /\ Dst(c).shape[a] = Src(c).shape[PermAxis(c, a)]

TransposeResult(c) ==
  LET source(oc) == [b \in Axes(Src(c)) |->
                       oc[CHOOSE a \in Axes(Dst(c)) : PermAxis(c, a) = b]]
  IN Gathered(Src(c), [l \in Linears(Dst(c)) |->
       RowMajor(Src(c).shape, source(Coordinates(Dst(c).shape, l)))])

(* --- gather and gather_elements ------------------------------------------ *)
\* normalize_index: negative indices count from the end of the axis.
NormalizeIndex(index, dimension) == IF index < 0 THEN index + dimension ELSE index
IndexOK(index, dimension) == NormalizeIndex(index, dimension) \in 0 .. dimension - 1

\* The coordinates of the index tensor inside those of the output.
IndexPart(c, oc) ==
  LET axis == AxisOf(c, Src(c)) IN SubSeq(oc, axis, axis + Rank(c.in[2]) - 1)
Selected(c, index, oc) == index[RowMajor(c.in[2].shape, IndexPart(c, oc))]

GatherIO(c) ==
  /\ ExpectIO(c, {2}, {1}) /\ NoAlias(c)
  /\ Src(c).dtype = "F16" /\ Dst(c).dtype = "F16"
  /\ AllMetaOK(c)

GatherOK(c) ==
  /\ GatherIO(c)
  /\ AxisOK(c.attr.axis, Rank(Src(c)))
  /\ LET axis == AxisOf(c, Src(c))
     IN Dst(c).shape = SubSeq(Src(c).shape, 1, axis - 1) \o c.in[2].shape
                        \o SubSeq(Src(c).shape, axis + 1, Rank(Src(c)))
  /\ IndicesOK(c.in[2])
  /\ LET index == Indices(c, c.in[2])
     IN \A l \in Linears(Dst(c)) :
          IndexOK(Selected(c, index, Coordinates(Dst(c).shape, l)),
                  Src(c).shape[AxisOf(c, Src(c))])

GatherResult(c) ==
  LET axis == AxisOf(c, Src(c))
      index == Indices(c, c.in[2])
      source(oc) ==
        SubSeq(oc, 1, axis - 1)
          \o << NormalizeIndex(Selected(c, index, oc), Src(c).shape[axis]) >>
          \o SubSeq(oc, axis + Rank(c.in[2]), Len(oc))
  IN Gathered(Src(c), [l \in Linears(Dst(c)) |->
       RowMajor(Src(c).shape, source(Coordinates(Dst(c).shape, l)))])

GatherElementsOK(c) ==
  /\ GatherIO(c)
  /\ Rank(Src(c)) = Rank(c.in[2]) /\ Dst(c).shape = c.in[2].shape
  /\ AxisOK(c.attr.axis, Rank(Src(c)))
  /\ \A a \in Axes(Src(c)) \ {AxisOf(c, Src(c))} : c.in[2].shape[a] <= Src(c).shape[a]
  /\ IndicesOK(c.in[2])
  /\ \A l \in Linears(Dst(c)) :
       IndexOK(Indices(c, c.in[2])[l], Src(c).shape[AxisOf(c, Src(c))])

GatherElementsResult(c) ==
  LET axis == AxisOf(c, Src(c))
      index == Indices(c, c.in[2])
  IN Gathered(Src(c), [l \in Linears(Dst(c)) |->
       RowMajor(Src(c).shape,
         [Coordinates(Dst(c).shape, l) EXCEPT
            ![axis] = NormalizeIndex(index[l], Src(c).shape[axis])])])

(* --- copy, expand, tile, cast -------------------------------------------- *)
\* COPY does not reject overlapping buffers: it reads all of its input first.
CopyOK(c) ==
  /\ ExpectIO(c, {1}, {1}) /\ AllF16(c)
  /\ c.attr.flags = 0
  /\ AllMetaOK(c) /\ Count(Src(c)) = Count(Dst(c))

\* With equal data pointers the call returns before it reads or writes.
CopySkips(c) == Src(c).data = Dst(c).data
CopyResult(c) == Gathered(Src(c), [l \in Linears(Dst(c)) |-> l])

AlignedShape(v, rank, a) == IF a <= rank - Rank(v) THEN 1 ELSE v.shape[a - (rank - Rank(v))]
ExpandOK(c) ==
  /\ OneToOne(c)
  /\ c.attr.rank = Rank(Dst(c)) /\ Rank(Src(c)) <= Rank(Dst(c))
  /\ \A a \in Axes(Dst(c)) :
       /\ c.attr.target_shape[a] = Dst(c).shape[a]
       /\ AlignedShape(Src(c), Rank(Dst(c)), a) \in {1, Dst(c).shape[a]}

\* Coordinates of a broadcast operand, aligned at the last axis.
Broadcast(v, oc) ==
  LET lead == Len(oc) - Rank(v)
  IN [a \in Axes(v) |-> IF v.shape[a] = 1 THEN 0 ELSE oc[lead + a]]

\* remap_single_input, for the coordinate map of each kernel.
ExpandResult(c) ==
  Gathered(Src(c), [l \in Linears(Dst(c)) |->
    RowMajor(Src(c).shape, Broadcast(Src(c), Coordinates(Dst(c).shape, l)))])

TileOK(c) ==
  /\ OneToOne(c)
  /\ c.attr.rank = Rank(Src(c)) /\ Rank(Dst(c)) = Rank(Src(c))
  /\ \A a \in Axes(Src(c)) :
       /\ c.attr.repeats[a] # 0
       /\ Src(c).shape[a] * c.attr.repeats[a] = Dst(c).shape[a]

TileResult(c) ==
  Gathered(Src(c), [l \in Linears(Dst(c)) |->
    RowMajor(Src(c).shape,
      LET oc == Coordinates(Dst(c).shape, l)
      IN [a \in Axes(Src(c)) |-> oc[a] % Src(c).shape[a]])])

CastOK(c) ==
  /\ ExpectIO(c, {1}, {1}) /\ NoAlias(c)
  /\ {Src(c).dtype, Dst(c).dtype} \subseteq {"F16", "I32", "I64"}
  /\ AllMetaOK(c)
  /\ c.attr.to = Dst(c).dtype /\ Src(c).shape = Dst(c).shape

CastResult(c) ==
  LET moved == Gathered(Src(c), [l \in Linears(Dst(c)) |-> l])
  IN IF Src(c).dtype = Dst(c).dtype THEN moved
     ELSE [l \in DOMAIN moved |->
             Term("cast", <<SizeOf(Src(c)), SizeOf(Dst(c))>>, moved[l].from)]

(* --- resize -------------------------------------------------------------- *)
\* Positions are fractions <<n, d>>; the rounding of f32 is not modelled.
Floor(q) == q[1] \div q[2]
Ceil(q) == -((-q[1]) \div q[2])
Clamp(x, hi) == IF x < 0 THEN 0 ELSE IF x > hi THEN hi ELSE x

\* An output with elements but an input without any.  gather_bytes refuses it; the
\* loops of the linear mode index the empty input, and panic.
Starved(c) == Count(Dst(c)) > 0 /\ Count(Src(c)) = 0
ResizePanics(c) == c.attr.mode = 1 /\ Starved(c)

ResizeOK(c) ==
  /\ OneToOne(c)
  /\ Rank(Src(c)) = 4 /\ Rank(Dst(c)) = 4
  /\ \A a \in {1, 2} : Src(c).shape[a] = Dst(c).shape[a]
  /\ c.attr.input = SubSeq(Src(c).shape, 3, 4)
  /\ c.attr.output = SubSeq(Dst(c).shape, 3, 4)
  /\ c.attr.mode \in 0 .. 1 /\ c.attr.coordinate_mode \in 0 .. 2 /\ c.attr.nearest_mode \in 0 .. 2
  /\ c.attr.mode = 0 => ~Starved(c)

\* source_coordinate: half-pixel, asymmetric or align-corners.
SourceCoordinate(c, i, input, output) ==
  IF c.attr.coordinate_mode = 0 THEN <<(2 * i + 1) * input - output, 2 * output>>
  ELSE IF c.attr.coordinate_mode = 1 THEN <<i * input, output>>
  ELSE IF output > 1 THEN <<i * (input - 1), output - 1>>
  ELSE <<0, 1>>

\* nearest_coordinate: round half down, floor or ceiling.
Nearest(c, q, input) ==
  Clamp(IF c.attr.nearest_mode = 0 THEN Ceil(<<2 * q[1] - q[2], 2 * q[2]>>)
        ELSE IF c.attr.nearest_mode = 1 THEN Floor(q) ELSE Ceil(q),
        input - 1)

\* The two neighbours of a position and its weight between them.
Neighbours(q, input) ==
  LET p == IF q[1] < 0 THEN <<0, q[2]>>
           ELSE IF q[1] > (input - 1) * q[2] THEN <<(input - 1) * q[2], q[2]>> ELSE q
  IN [lo |-> Floor(p), hi |-> Clamp(Floor(p) + 1, input - 1), w |-> <<p[1] % p[2], p[2]>>]

ResizeResult(c) ==
  LET is == Src(c).shape  os == Dst(c).shape
      addr == LogicalAddr(Src(c))
      plane(oc) == oc[1] * is[2] + oc[2]
      at(oc, y, x) == addr[(plane(oc) * is[3] + y) * is[4] + x]
      qy(oc) == SourceCoordinate(c, oc[3], is[3], os[3])
      qx(oc) == SourceCoordinate(c, oc[4], is[4], os[4])
      nearest(oc) == Moved(at(oc, Nearest(c, qy(oc), is[3]), Nearest(c, qx(oc), is[4])))
      linear(oc) ==
        LET ny == Neighbours(qy(oc), is[3])  nx == Neighbours(qx(oc), is[4])
        IN Term("lerp", ny.w \o nx.w,
                << at(oc, ny.lo, nx.lo), at(oc, ny.lo, nx.hi),
                   at(oc, ny.hi, nx.lo), at(oc, ny.hi, nx.hi) >>)
  IN [l \in Linears(Dst(c)) |->
        LET oc == Coordinates(os, l) IN IF c.attr.mode = 0 THEN nearest(oc) ELSE linear(oc)]
=============================================================================
