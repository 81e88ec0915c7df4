----------------------------- MODULE KernelAttr -----------------------------
(***************************************************************************)
(* The attribute structures of the kernels (kernelattr.rs), with the fields  *)
(* the kernels decide by.  Pairs are <<height, width>>; the arrays of        *)
(* MAX_DIM entries with a count are sequences; flags are BOOLEAN; of a        *)
(* floating-point field only the sign is kept.  The fields that no kernel    *)
(* reads, and those that only enter the numbers computed, are left out.      *)
(***************************************************************************)
EXTENDS Integers, Sequences

CONSTANTS U32Max,           \* u32::MAX
          AttrInlineSize    \* ATTR_INLINE_SIZE

ASSUME AttrAssumption == U32Max \in Nat /\ AttrInlineSize \in Nat

U32 == 0 .. U32Max
I32 == -((U32Max + 1) \div 2) .. U32Max \div 2
U32Pairs == U32 \X U32

MatMulStrides == [row : U32, col : U32, batch : U32]
MatMulAttrs ==
  [batch : U32, m : U32, n : U32, k : U32, lhs : MatMulStrides, rhs : MatMulStrides,
   out : MatMulStrides, lhsT : BOOLEAN, rhsT : BOOLEAN, accum : STRING]
ConvAttrs ==
  [batch : U32, groups : U32, cin : U32, cout : U32, in : U32Pairs, out : U32Pairs,
   kernel : U32Pairs, pad : U32Pairs, stride : U32Pairs, dilation : U32Pairs]

BinaryAttrs == [broadcast_kind : U32, fmod : BOOLEAN]
UnaryAttrs == [scale : Int]

RmsNormAttrs == [hidden_size : U32, eps : Int]
RopeAttrs == [n_dims : U32, head_count : U32, mode : U32]
SoftmaxAttrs == [axis : I32, max_bias : Int]
GluAttrs == [op : U32, flags : U32, swapped : U32]
PoolAttrs ==
  [kernel : U32Pairs, stride : U32Pairs, dilation : U32Pairs, pad_before : U32Pairs,
   pad_after : U32Pairs, ceil : BOOLEAN]
ReduceMaxAttrs == [axes : Seq(I32), keepdims : BOOLEAN, noop_with_empty_axes : BOOLEAN]
TopKAttrs == [axis : I32, k : U32, largest : U32]

ConcatAttrs == [axis : I32]
TransposeAttrs == [rank : U32, perm : Seq(I32)]
GatherAttrs == [axis : I32]
GatherElementsAttrs == [axis : I32]
CopyAttrs == [flags : U32]
CastAttrs == [to : STRING]
ResizeAttrs ==
  [input : U32Pairs, output : U32Pairs, mode : U32, coordinate_mode : U32, nearest_mode : U32]
ExpandAttrs == [rank : U32, target_shape : Seq(U32)]
TileAttrs == [rank : U32, repeats : Seq(U32)]

\* The structure an operation comes with.
TypedAttr(op, attr) ==
  /\ op = "MAT_MUL" => attr \in MatMulAttrs
  /\ op = "CONV2D" => attr \in ConvAttrs
  /\ op \in {"ADD", "SUB", "MUL", "DIV", "MOD"} => attr \in BinaryAttrs
  /\ op \in {"SILU", "SIGMOID", "SCALE"} => attr \in UnaryAttrs
  /\ op = "RMS_NORM" => attr \in RmsNormAttrs
  /\ op = "ROPE" => attr \in RopeAttrs
  /\ op = "SOFTMAX" => attr \in SoftmaxAttrs
  /\ op = "GLU" => attr \in GluAttrs
  /\ op = "MAX_POOL" => attr \in PoolAttrs
  /\ op = "REDUCE_MAX" => attr \in ReduceMaxAttrs
  /\ op = "TOP_K" => attr \in TopKAttrs
  /\ op = "CONCAT" => attr \in ConcatAttrs
  /\ op = "TRANSPOSE" => attr \in TransposeAttrs
  /\ op = "GATHER" => attr \in GatherAttrs
  /\ op = "GATHER_ELEMENTS" => attr \in GatherElementsAttrs
  /\ op = "COPY" => attr \in CopyAttrs
  /\ op = "CAST" => attr \in CastAttrs
  /\ op = "RESIZE" => attr \in ResizeAttrs
  /\ op = "EXPAND" => attr \in ExpandAttrs
  /\ op = "TILE" => attr \in TileAttrs

\* The sizes of the structures; those not named are 64 bytes.
AttrBytes(op) == IF op = "CONV2D" THEN 128 ELSE IF op = "MAT_MUL" THEN 72 ELSE 64
=============================================================================
