--------------------------- MODULE MCKernelBackend ---------------------------
(***************************************************************************)
(* The calls the kernel backend is model-checked on: for every operation,    *)
(* small ones it accepts (over dense, spread and turned buffers, broadcast,   *)
(* padded and partial tiles) and ones it must refuse.                         *)
(***************************************************************************)
EXTENDS KernelReference

\* Where the buffers lie; no two overlap.
In1 == 16
In2 == 160
In3 == 304
Out1 == 448
Out2 == 640

\* The tensors of the calls, as the tensor manager allocates them.
V(data, dtype, shape) == AllocTensor(data, dtype, "DENSE", shape)
H(data, shape) == V(data, "F16", shape)
Call0(op, ins, outs, attr) ==
  [op |-> op, target |-> "AUTO", input_count |-> Len(ins), output_count |-> Len(outs),
   attr |-> attr, attr_size |-> AttrBytes(op), ints |-> <<>>, vals |-> <<>>,
   tensors |-> ins \o outs]
ByOffset(s) == [i \in 0 .. Len(s) - 1 |-> s[i + 1]]
WithInts(s, d) == [d EXCEPT !.ints = ByOffset(s)]
WithVals(s, d) == [d EXCEPT !.vals = ByOffset(s)]

\* The same tensor with gaps between its elements, or with its axes stored in
\* the opposite order.
Spread(v) == [v EXCEPT !.layout = "STRIDED", !.bytes = 2 * @,
                       !.stride = [a \in DOMAIN @ |-> 2 * @[a]]]
Turned(v) == [v EXCEPT !.layout = "STRIDED",
                       !.stride = [a \in DOMAIN @ |-> SizeOf(v) * Prefix(v.shape)[a - 1]]]
SpreadFirst(d) == [d EXCEPT !.tensors[1] = Spread(@)]
TurnLast(d) == [d EXCEPT !.tensors[Len(d.tensors)] = Turned(@)]
InLayouts(ds) == ds \cup {SpreadFirst(d) : d \in ds} \cup {TurnLast(d) : d \in ds}

(* --- data movement ----------------------------------------------------------- *)
Concat(ins, out, axis) == Call0("CONCAT", ins, <<out>>, [axis |-> axis])
Concats ==
  InLayouts({Concat(<<H(In1, <<2,2>>), H(In2, <<2,3>>)>>, H(Out1, <<2,5>>), 1),
             Concat(<<H(In1, <<1,3>>), H(In2, <<2,3>>), H(In3, <<1,3>>)>>, H(Out1, <<4,3>>), -2)})
    \cup {Concat(<<H(In1, <<2,2>>), H(In2, <<2,3>>)>>, H(Out1, <<2,5>>), 2),
          Concat(<<H(In1, <<2,2>>), H(In2, <<3,2>>)>>, H(Out1, <<2,4>>), 1),
          Concat(<<H(In1, <<2,2>>), H(In1 + 8, <<2,2>>)>>, H(In1 + 14, <<2,4>>), 1)}

Transpose(in, out, perm) == Call0("TRANSPOSE", <<in>>, <<out>>, [rank |-> Len(perm), perm |-> perm])
Transposes ==
  InLayouts({Transpose(H(In1, <<2,3>>), H(Out1, <<3,2>>), <<1,0>>),
             Transpose(H(In1, <<2,3,4>>), H(Out1, <<4,2,3>>), <<-1,0,1>>)})
    \cup {Transpose(H(In1, <<2,2>>), H(Out1, <<2,2>>), <<0,-2>>),
          Transpose(H(In1, <<2,3>>), H(Out1, <<3,2>>), <<0,1>>)}

Gather(op, in, index, out, axis) == Call0(op, <<in, index>>, <<out>>, [axis |-> axis])
Gathers ==
  InLayouts({WithInts(<<-1, 0>>,
               Gather("GATHER", H(In1, <<3,2>>), V(In2, "I64", <<2>>), H(Out1, <<2,2>>), 0)),
             WithInts(<<1, -2, 0, -1>>,
               Gather("GATHER", H(In1, <<3,2>>), V(In2, "I32", <<2,2>>), H(Out1, <<3,2,2>>), -1)),
             WithInts(<<-3, 2, 1, 0>>,
               Gather("GATHER_ELEMENTS", H(In1, <<3,2>>), V(In2, "I32", <<2,2>>), H(Out1, <<2,2>>), 0)),
             WithInts(<<-1, 0>>,
               Gather("GATHER_ELEMENTS", H(In1, <<3,2>>), V(In2, "I64", <<2,1>>), H(Out1, <<2,1>>), -1))})
    \cup {WithInts(<<i>>,
            Gather("GATHER", H(In1, <<3,2>>), V(In2, "I64", <<>>), H(Out1, <<2>>), 0)) : i \in {1, 3, -3, -4}}
    \cup {WithInts(<<7, 2, 7, -3, 7, 0>>,
            Gather("GATHER", H(In1, <<3>>), Spread(V(In2, "I64", <<3>>)), H(Out1, <<3>>), 0)),
          WithInts(<<0, 2>>,
            Gather("GATHER_ELEMENTS", H(In1, <<3,2>>), V(In2, "I64", <<2,1>>), H(Out1, <<2,1>>), 1)),
          Gather("GATHER", H(In1, <<3>>), H(In2, <<2>>), H(Out1, <<2>>), 0)}

Copy(in, out, flags) == Call0("COPY", <<in>>, <<out>>, [flags |-> flags])
Copies ==
  InLayouts({Copy(H(In1, <<2,3>>), H(Out1, <<6>>), 0), Copy(H(In1, <<2,3>>), H(Out1, <<3,2>>), 0),
             Copy(H(In1, <<2,3>>), H(In1 + 2, <<3,2>>), 0), Copy(H(In1, <<2,3>>), H(In1, <<3,2>>), 0)})
    \cup {Copy(H(In1, <<2,3>>), H(Out1, <<6>>), 1), Copy(H(In1, <<2,3>>), H(Out1, <<5>>), 0),
          Copy(H(In1, <<0,2>>), H(Out1, <<2,0>>), 0), Copy(H(In1, <<>>), H(Out1, <<1>>), 0)}

Expand(in, out, target) ==
  Call0("EXPAND", <<in>>, <<out>>, [rank |-> Len(target), target_shape |-> target])
Tiled(in, out, repeats) ==
  Call0("TILE", <<in>>, <<out>>, [rank |-> Len(repeats), repeats |-> repeats])
Repeats ==
  InLayouts({Expand(H(In1, <<3,1>>), H(Out1, <<2,3,4>>), <<2,3,4>>),
             Expand(H(In1, <<1,2>>), H(Out1, <<3,2>>), <<3,2>>),
             Tiled(H(In1, <<2,2>>), H(Out1, <<4,6>>), <<2,3>>)})
    \cup {Expand(H(In1, <<2>>), H(Out1, <<2,3>>), <<2,3>>), Expand(H(In1, <<1>>), H(Out1, <<2>>), <<3>>),
          Tiled(H(In1, <<2,2>>), H(Out1, <<4,4>>), <<2,3>>), Tiled(H(In1, <<2>>), H(Out1, <<0>>), <<0>>)}

CastTo(from, to, shape) ==
  Call0("CAST", <<V(In1, from, shape)>>, <<V(Out1, to, shape)>>, [to |-> to])
Casts ==
  InLayouts({CastTo("F16", "I32", <<2,3>>), CastTo("I64", "F16", <<2,2>>), CastTo("I32", "I32", <<3>>)})
    \cup {CastTo("F32", "F16", <<2>>), [CastTo("F16", "I32", <<2>>) EXCEPT !.attr.to = "I64"]}

Resize(in, out, m, cm, nm) ==
  Call0("RESIZE", <<in>>, <<out>>,
        [input |-> SubSeq(in.shape, 3, 4), output |-> SubSeq(out.shape, 3, 4), mode |-> m,
         coordinate_mode |-> cm, nearest_mode |-> nm])
Resizes ==
  InLayouts({Resize(H(In1, <<1,2,3,2>>), H(Out1, <<1,2,2,1>>), m, 0, m) : m \in 0 .. 1})
    \cup {Resize(H(In1, <<1,1,2,3>>), H(Out1, <<1,1,4,5>>), 0, cm, nm) : cm \in 0 .. 2, nm \in 0 .. 3}
    \cup {Resize(H(In1, <<1,1,4,3>>), H(Out1, <<1,1,3,1>>), m, cm, 1) : m \in 0 .. 2, cm \in 0 .. 3}
    \cup {Resize(H(In1, <<1,1,2,3>>), H(Out1, <<1,1,4,5>>), 1, cm, 0) : cm \in 0 .. 2}
    \cup {Resize(H(In1, <<1,1,2,2>>), H(Out1, <<1,2,4,4>>), 0, 0, 0)}
    \cup {Resize(H(In1, <<1,1,0,2>>), H(Out1, <<1,1,2,2>>), m, 0, 0) : m \in 0 .. 1}

Movements == Concats \cup Transposes \cup Gathers \cup Copies \cup Repeats \cup Casts \cup Resizes

(* --- arithmetic ------------------------------------------------------------------ *)
Softmax(ins, out, axis) == Call0("SOFTMAX", ins, <<out>>, [axis |-> axis, max_bias |-> 0])
Softmaxes ==
  InLayouts({Softmax(<<H(In1, <<2,3,2>>)>>, H(Out1, <<2,3,2>>), 1),
             Softmax(<<H(In1, <<2,3>>), H(In2, <<2,1>>)>>, H(Out1, <<2,3>>), -2),
             Softmax(<<H(In1, <<2,3>>), H(In2, <<2>>)>>, H(Out1, <<2,3>>), -1)})
    \cup {Softmax(<<H(In1, <<2,3>>), H(In2, <<3>>)>>, H(Out1, <<2,3>>), 1),
          Softmax(<<H(In1, <<2,3>>)>>, H(Out1, <<2,3>>), -3),
          [Softmax(<<H(In1, <<2>>)>>, H(Out1, <<2>>), 0) EXCEPT !.attr.max_bias = 1]}

RmsNorm(ins, out, hidden, eps) ==
  Call0("RMS_NORM", ins, <<out>>, [hidden_size |-> hidden, eps |-> eps])
RmsNorms ==
  InLayouts({RmsNorm(<<H(In1, <<3,4>>), H(In2, <<4>>)>>, H(Out1, <<3,4>>), 4, 1),
             RmsNorm(<<H(In1, <<2,4>>), Turned(H(In2, <<2,2>>))>>, H(Out1, <<2,4>>), 4, 1),
             RmsNorm(<<H(In1, <<2,4>>)>>, H(Out1, <<2,4>>), 4, 1)})
    \cup {RmsNorm(<<H(In1, <<2,4>>)>>, H(Out1, <<2,4>>), 2, 1),
          RmsNorm(<<H(In1, <<2,4>>)>>, H(Out1, <<2,4>>), 4, 0),
          RmsNorm(<<H(In1, <<2,4>>), H(In2, <<3>>)>>, H(Out1, <<2,4>>), 4, 1)}

Rope(ins, out, dims, heads, mode) ==
  Call0("ROPE", ins, <<out>>, [n_dims |-> dims, head_count |-> heads, mode |-> mode])
Ropes ==
  InLayouts({Rope(<<H(In1, <<1,2,2,6>>)>>, H(Out1, <<1,2,2,6>>), 4, 0, m) : m \in {GptJ, Neox}}
    \cup {WithInts(<<5, 3>>, Rope(<<H(In1, <<2,2,1,4>>), V(In2, "I64", <<2>>)>>,
                                  H(Out1, <<2,2,1,4>>), 4, 1, Neox)),
          WithInts(<<5, 3, 8, 6>>, Rope(<<H(In1, <<2,2,1,4>>), V(In2, "I32", <<2,2>>)>>,
                                        H(Out1, <<2,2,1,4>>), 4, 1, GptJ))})
    \cup {Rope(<<H(In1, <<1,2,2,4>>)>>, H(Out1, <<1,2,2,4>>), n, h, m) :
            n \in {0, 3, 6}, h \in {2, 4}, m \in {0, 2}}

Glu(ins, out, swapped) == Call0("GLU", ins, <<out>>, [op |-> 2, flags |-> 0, swapped |-> swapped])
Glus ==
  InLayouts({Glu(<<H(In1, <<4,2>>)>>, H(Out1, <<2,2>>), s) : s \in 0 .. 1}
    \cup {Glu(<<H(In1, <<2,2>>), H(In2, <<2,2>>)>>, H(Out1, <<2,2>>), 1)})
    \cup {Glu(<<H(In1, <<4,2>>)>>, H(Out1, <<4,1>>), 0), Glu(<<H(In1, <<3,2>>)>>, H(Out1, <<2,2>>), 0),
          [Glu(<<H(In1, <<4,2>>)>>, H(Out1, <<2,2>>), 0) EXCEPT !.attr.op = 1]}

ReduceMax(in, out, axes, keep, noop) ==
  Call0("REDUCE_MAX", <<in>>, <<out>>,
        [axes |-> axes, keepdims |-> keep, noop_with_empty_axes |-> noop])
Reductions ==
  InLayouts({ReduceMax(H(In1, <<2,3,2>>), H(Out1, <<2,1,2>>), <<1>>, TRUE, FALSE),
             ReduceMax(H(In1, <<2,3,2>>), H(Out1, <<3>>), <<-1,0>>, FALSE, FALSE),
             ReduceMax(H(In1, <<2,3>>), H(Out1, <<>>), <<>>, FALSE, FALSE),
             ReduceMax(H(In1, <<2,3>>), H(Out1, <<2,3>>), <<>>, FALSE, TRUE)})
    \cup {ReduceMax(H(In1, <<2,3>>), H(Out1, <<2>>), <<1,-1>>, FALSE, FALSE),
          ReduceMax(H(In1, <<2,3>>), H(Out1, <<3>>), <<1>>, FALSE, FALSE)}

Binary(op, lhs, rhs, out) ==
  Call0(op, <<lhs, rhs>>, <<out>>, [broadcast_kind |-> 0, fmod |-> TRUE])
Binaries ==
  InLayouts({Binary("ADD", H(In1, <<2,3>>), H(In2, <<3>>), H(Out1, <<2,3>>)),
             Binary("SUB", H(In1, <<2,1>>), H(In2, <<1,3>>), H(Out1, <<2,3>>)),
             Binary("MUL", H(In1, <<>>), H(In2, <<2>>), H(Out1, <<2>>)),
             Binary("DIV", H(In1, <<3>>), H(In2, <<2,2,1>>), H(Out1, <<2,2,3>>)),
             Binary("MOD", H(In1, <<2>>), H(In2, <<2>>), H(Out1, <<2>>))})
    \cup {[Binary("MOD", H(In1, <<2>>), H(In2, <<2>>), H(Out1, <<2>>)) EXCEPT !.attr.fmod = FALSE],
          [Binary("ADD", H(In1, <<2>>), H(In2, <<2>>), H(Out1, <<2>>)) EXCEPT !.attr.broadcast_kind = 1],
          Binary("ADD", H(In1, <<2>>), H(In2, <<3>>), H(Out1, <<3>>)),
          Binary("ADD", H(In1, <<0>>), H(In2, <<1>>), H(Out1, <<1>>)),
          Binary("ADD", H(In1, <<0>>), H(In2, <<1>>), H(Out1, <<0>>)),
          Binary("ADD", H(In1, <<2>>), H(In2, <<2>>), H(Out1, <<1,2>>)),
          Binary("ADD", H(In1, <<2>>), H(In2 + 1, <<2>>), H(Out1, <<2>>)),
          Binary("ADD", H(In1, <<2>>), H(In2, <<2>>), H(In2 + 2, <<2>>)),
          Binary("ADD", H(In1, <<2>>), H(In2, <<2>>), H(In2 - 2, <<2>>))}

Unary(op, in, out) == Call0(op, <<in>>, <<out>>, [scale |-> 1])
Unaries ==
  {Unary("SILU", H(In1, <<2,3>>), H(Out1, <<2,3>>)), Unary("SIGMOID", H(In1, <<4>>), H(In1, <<4>>)),
   Unary("SCALE", Turned(H(In1, <<2,3>>)), Turned(H(Out1, <<2,3>>))),
   Unary("SCALE", Turned(H(In1, <<2,3>>)), H(Out1, <<2,3>>)),
   Unary("SILU", H(In1, <<2>>), H(Out1, <<3>>))}

(* --- selection -------------------------------------------------------------------- *)
Pool(in, outs, kernel, stride, dilation, before, after, ceil) ==
  Call0("MAX_POOL", <<in>>, outs,
        [kernel |-> kernel, stride |-> stride, dilation |-> dilation, pad_before |-> before,
         pad_after |-> after, ceil |-> ceil])
Twice(shape) == <<H(Out1, shape), V(Out2, "I64", shape)>>
PoolValues == <<3, 1, 4, 1, 5, 9, 2, 6, 5, 3, 5, 8, 9, 7, 9, 3, 2, 3, 8, 4>>
PoolCalls ==
  {Pool(H(In1, <<1,1,4,4>>), Twice(<<1,1,2,2>>), <<2,2>>, <<2,2>>, <<1,1>>, <<0,0>>, <<0,0>>, FALSE),
   Pool(H(In1, <<1,2,3,3>>), Twice(<<1,2,2,3>>), <<3,2>>, <<2,2>>, <<0,1>>, <<1,1>>, <<1,1>>, TRUE),
   Pool(H(In1, <<1,1,4,3>>), <<H(Out1, <<1,1,2,3>>)>>, <<2,1>>, <<0,0>>, <<2,1>>, <<0,0>>, <<0,0>>, FALSE),
   Pool(H(In1, <<1,1,2,2>>), Twice(<<1,1,2,1>>), <<1,2>>, <<3,1>>, <<1,1>>, <<0,0>>, <<0,0>>, TRUE),
   Pool(H(In1, <<1,1,2,2>>), Twice(<<1,1,1,1>>), <<1,2>>, <<3,1>>, <<1,1>>, <<0,0>>, <<0,0>>, TRUE),
   Pool(H(In1, <<1,1,2,2>>), <<H(Out1, <<1,1,1,1>>), V(Out2, "I64", <<1>>)>>,
        <<2,2>>, <<1,1>>, <<1,1>>, <<0,0>>, <<0,0>>, FALSE),
   Pool(H(In1, <<1,1,2,2>>), <<H(Out1, <<1,1,0,0>>)>>, <<3,3>>, <<1,1>>, <<1,1>>, <<0,0>>, <<0,0>>, FALSE)}

TopK(in, outs, axis, k, largest) ==
  Call0("TOP_K", <<in>>, outs, [axis |-> axis, k |-> k, largest |-> largest])
TopKCalls ==
  {TopK(H(In1, <<2,4>>), Twice(<<2,3>>), -1, 3, l) : l \in 0 .. 1}
    \cup {TopK(H(In1, <<4,2>>), Twice(<<k,2>>), 0, k, 1) : k \in {0, 2, 4, 5}}
    \cup {TopK(H(In1, <<2,4>>), <<H(Out1, <<2,2>>), V(Out2, "I64", <<4>>)>>, 1, 2, 1),
          TopK(H(In1, <<2,4>>), <<H(Out1, <<2,2>>), V(Out2, "I64", <<2,1>>)>>, 1, 2, 1)}
Selections ==
  LET ds == {WithVals(PoolValues, d) : d \in PoolCalls \cup TopKCalls}
      gaps == [i \in 1 .. 40 |-> IF i % 2 = 1 THEN PoolValues[(i + 1) \div 2] ELSE 99]
  IN ds \cup {WithVals(gaps, SpreadFirst(d)) : d \in ds} \cup {TurnLast(d) : d \in ds}

(* --- MAT_MUL and CONV2D -------------------------------------------------------------- *)
Strides(v) == [row |-> v.stride[2] \div 2, col |-> v.stride[3] \div 2, batch |-> v.stride[1] \div 2]
MatMul(lhs, rhs, out, k, lhsT, rhsT) ==
  Call0("MAT_MUL", <<lhs, rhs>>, <<out>>,
        [batch |-> out.shape[1], m |-> out.shape[2], n |-> out.shape[3], k |-> k,
         lhs |-> Strides(lhs), rhs |-> Strides(rhs), out |-> Strides(out),
         lhsT |-> lhsT, rhsT |-> rhsT, accum |-> "F32"])
Rows(b, rows, cols, turned) == IF turned THEN <<b, cols, rows>> ELSE <<b, rows, cols>>
MatMuls ==
  {MatMul(H(In1, Rows(2, 3, k, lt)), H(In2, Rows(2, k, 2, rt)), H(Out1, <<2,3,2>>), k, lt, rt) :
     k \in {1, 2, 3}, lt \in BOOLEAN, rt \in BOOLEAN}
    \cup {MatMul(Spread(H(In1, <<1,1,5>>)), Turned(H(In2, <<1,5,3>>)), Turned(H(Out1, <<1,1,3>>)),
                 5, FALSE, FALSE)}
ShortBy(i, bytes, d) == [d EXCEPT !.tensors[i].bytes = @ - bytes]
MatMulBase == MatMul(H(In1, <<2,2,3>>), H(In2, <<2,3,2>>), H(Out1, <<2,2,2>>), 3, FALSE, FALSE)
MatMulEdges ==
  {ShortBy(i, b, MatMulBase) : i \in 1 .. 3, b \in 1 .. 2}
    \cup {[MatMulBase EXCEPT !.attr.batch = 0], [MatMulBase EXCEPT !.attr.k = 0],
          [MatMulBase EXCEPT !.attr.accum = "F16"], [MatMulBase EXCEPT !.attr.lhs.row = 4],
          [MatMulBase EXCEPT !.attr.out.batch = U32Max],
          [MatMulBase EXCEPT !.attr.m = U32Max, !.attr.n = U32Max, !.attr.lhs.row = 0, !.attr.rhs.col = 0,
                             !.attr.out = [row |-> U32Max, col |-> U32Max, batch |-> U32Max]], [MatMulBase EXCEPT !.attr.m = 0],
          [MatMulBase EXCEPT !.attr_size = 71]}

Conv(ins, out, groups, kernel, pad, stride, dilation) ==
  LET is == ins[1].shape  os == out.shape
  IN Call0("CONV2D", ins, <<out>>,
       [batch |-> is[1], groups |-> groups, cin |-> is[2], cout |-> os[2], in |-> SubSeq(is, 3, 4),
        out |-> SubSeq(os, 3, 4), kernel |-> kernel, pad |-> pad, stride |-> stride,
        dilation |-> dilation])
Convs ==
  {Conv(<<H(In1, <<1,2,3,3>>), H(In2, <<2,2,2,2>>)>> \o bias, H(Out1, <<1,2,2,2>>), 1,
        <<2,2>>, <<1,0>>, <<2,0>>, <<1,1>>) : bias \in {<<>>, <<H(In3, <<2>>)>>, <<H(In3, <<1>>)>>}}
    \cup {Conv(<<H(In1, <<2,2,2,2>>), H(In2, <<4,1,1,2>>), H(In3, <<4>>)>>, H(Out1, <<2,4,2,3>>), 2,
               <<1,2>>, <<0,1>>, <<1,1>>, <<1,1>>),
          Conv(<<H(In1, <<1,1,4,3>>), H(In2, <<1,1,2,2>>)>>, H(Out1, <<1,1,2,1>>), 0,
               <<2,2>>, <<0,0>>, <<1,1>>, <<2,2>>),
          Conv(<<H(In1, <<1,3,2,2>>), H(In2, <<2,3,1,1>>)>>, H(Out1, <<1,2,2,2>>), 2,
               <<1,1>>, <<0,0>>, <<1,1>>, <<1,1>>),
          Conv(<<H(In1, <<1,2,2,2>>), H(In2, <<2,2,0,1>>)>>, H(Out1, <<1,2,2,2>>), 1,
               <<0,1>>, <<0,0>>, <<1,1>>, <<1,1>>)}
ConvBase == Conv(<<H(In1, <<1,2,2,2>>), H(In2, <<2,2,1,1>>)>>, H(Out1, <<1,2,2,2>>), 1,
                 <<1,1>>, <<0,0>>, <<1,1>>, <<1,1>>)
ConvEdges == {ShortBy(i, b, ConvBase) : i \in 1 .. 3, b \in 0 .. 2}

\* At the limits of 32 bits, where the sizes are cut, and of a usize, where the
\* patch wraps: an image of 260 cells, a patch of 272 taps, an im2col matrix of
\* the most bytes and of two more, and a patch of 65536 taps.  Their buffers lie
\* further apart.
Plain(ins, out, kernel) == Conv(ins, out, 1, kernel, <<0,0>>, <<1,1>>, <<1,1>>)
WideConvs ==
  {Plain(<<H(4096, <<1,1,13,20>>), H(In2, <<2,1,1,1>>)>> \o bias, H(8192, <<1,2,13,20>>), <<1,1>>) :
     bias \in {<<>>, <<H(In3, <<2>>)>>}}
    \cup {Plain(<<H(4096, <<1,1,16,17>>), H(8192, <<2,1,16,17>>), H(In3, <<2>>)>>,
                H(Out1, <<1,2,1,1>>), <<16,17>>),
          Plain(<<H(In1, <<1,1,2,2>>), H(4096, <<1,1,63,65>>)>>, H(Out1, <<1,1,2,2>>), <<63,65>>),
          Plain(<<H(In1, <<1,1,2,2>>), H(4096, <<1,1,64,64>>)>>, H(Out1, <<1,1,2,2>>), <<64,64>>),
          Plain(<<H(In1, <<1,4,1,1>>), H(In2, <<1>>)>>, H(Out1, <<1,1,1,1>>), <<128,128>>)}

(* --- descriptors no kernel sees, or that fail its metadata checks ------------------------ *)
Base == Copy(H(In1, <<2,3>>), H(Out1, <<2,3>>), 0)
Malformed ==
  {[Base EXCEPT !.op = "NOP"], [Base EXCEPT !.attr_size = 63],
   [Base EXCEPT !.input_count = U32Max], [Base EXCEPT !.output_count = MaxSubmit],
   [Base EXCEPT !.input_count = 0], [Base EXCEPT !.input_count = 2, !.output_count = 0]}
    \cup {[Base EXCEPT !.tensors[i].data = 0] : i \in 1 .. 2}
    \cup {[Base EXCEPT !.tensors[i].layout = "GGML_QUANT"] : i \in 1 .. 2}
    \cup {[Base EXCEPT !.tensors[1] = t] :
            t \in {AllocQuantTensor(In1, "Q8_0", <<32,2>>), AllocQuantTensor(In1, "IQ4_NL", <<64>>),
                   AllocTensor(In1, "F16", "STRIDED", <<2,3>>)}}
    \cup {[Base EXCEPT !.tensors[i].bytes = b] : i \in 1 .. 2, b \in {11, 13}}
    \cup {[Base EXCEPT !.tensors[i].stride = s, !.tensors[i].layout = l] :
            i \in 1 .. 2, s \in {<<8,2>>, <<6,3>>, <<0,2>>, <<UsizeMax - 1, 2>>}, l \in {"DENSE", "STRIDED"}}
    \cup {[Base EXCEPT !.tensors[1].shape = <<1,1,1,1,1,1,1,1,6>>,
                       !.tensors[1].stride = <<12,12,12,12,12,12,12,12,2>>]}

MCDescs ==
  Movements \cup Softmaxes \cup RmsNorms \cup Ropes \cup Glus \cup Reductions \cup Binaries
    \cup Unaries \cup Selections \cup MatMuls \cup MatMulEdges \cup Convs \cup ConvEdges \cup WideConvs
    \cup Malformed

(* --- requests of the ONNX Runtime plugin --------------------------------------------------- *)
Raw(v) == [data |-> v.data, bytes |-> v.bytes, dtype |-> v.dtype, layout |-> v.layout,
           shape |-> v.shape, stride |-> v.stride, format |-> "ANY"]
Request(d) == [d EXCEPT !.tensors = [i \in DOMAIN d.tensors |-> Raw(d.tensors[i])]]
Asked == Request(Binary("ADD", H(In1, <<2,3>>), H(In2, <<1,3>>), H(Out1, <<2,3>>)))
MCRequests ==
  {Asked, Request(MatMulBase), Request(ConvBase), Request([Base EXCEPT !.target = "CPU"]),
   Request(Copy(V(In1, "F32", <<2,2>>), V(Out1, "F32", <<2,2>>), 0)),
   Request(Tiled(H(In1, <<>>), H(Out1, <<>>), <<>>)),
   [Asked EXCEPT !.op = "NOP"], [Asked EXCEPT !.target = "GPU"], [Asked EXCEPT !.attr_size = 129],
   [Asked EXCEPT !.input_count = 0], [Asked EXCEPT !.output_count = MaxSubmit],
   [Asked EXCEPT !.input_count = U32Max], Request(Copy(H(In1, <<0>>), H(Out1, <<0>>), 0)),
   Request(SpreadFirst(Base)), Request(TurnLast(Base)),
   Request(Copy(H(UsizeMax - 3, <<2>>), H(Out1, <<2>>), 0))}
    \cup {[Asked EXCEPT !.tensors[3] = t] :
            t \in {[Raw(H(Out1, <<2,3>>)) EXCEPT !.format = "NHWC"], [Raw(H(Out1, <<2,3>>)) EXCEPT !.bytes = 14],
                   [Raw(H(Out1, <<2,3>>)) EXCEPT !.stride = <<2,4>>], [Raw(H(Out1, <<2,3>>)) EXCEPT !.data = 0],
                   Raw(V(Out1, "I32", <<2,3>>))}}
=============================================================================
