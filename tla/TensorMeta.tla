----------------------------- MODULE TensorMeta -----------------------------
(***************************************************************************)
(* Tensor views of the kernel backend and the metadata every kernel derives *)
(* from them (call.rs, and the size table of desc.rs).                      *)
(*                                                                         *)
(* A view is a record [data, bytes, dtype, layout, shape, stride]: the      *)
(* address of the buffer (0 is null), its length, and per axis the extent   *)
(* and the stride in bytes; the rank is Len(shape).  Axes are numbered from *)
(* 0 in the code and from 1 in the sequences; linear indices start at 0 in  *)
(* both.  The code returns a BackendErr, here a check is TRUE or FALSE:     *)
(* which error code a refusal carries is not modelled.                      *)
(***************************************************************************)
EXTENDS Integers, Sequences, FiniteSets

CONSTANTS MaxDim,     \* MAX_DIM
          UsizeMax    \* usize::MAX

ASSUME MetaAssumption == MaxDim \in Nat \ {0} /\ UsizeMax \in Nat \ {0}

ElementSize == [F32 |-> 4, F16 |-> 2, BF16 |-> 2, I8 |-> 1, U8 |-> 1,
                I32 |-> 4, I64 |-> 8, BOOL |-> 1]

Views == {v \in [data : Nat, bytes : Nat, dtype : STRING, layout : STRING,
                 shape : Seq(Nat), stride : Seq(Nat)] : Len(v.stride) = Len(v.shape)}

Rank(v) == Len(v.shape)
Axes(v) == 1 .. Rank(v)
SizeOf(v) == ElementSize[v.dtype]

\* The product of the first i extents of a shape.
Prefix(shape) ==
  LET p[i \in 0 .. Len(shape)] == IF i = 0 THEN 1 ELSE p[i-1] * shape[i] IN p
Product(shape) == Prefix(shape)[Len(shape)]

\* product and shape_product: the multiplication from the first extent on never
\* overflows; and the extents behind an axis, where the kernels check that again.
ProductFits(shape) == \A i \in 1 .. Len(shape) : Prefix(shape)[i] <= UsizeMax
Behind(shape, axis) == SubSeq(shape, axis + 1, Len(shape))

Count(v) == Product(v.shape)
Linears(v) == 0 .. Count(v) - 1

\* The product of the extents after the first i, multiplied from the last axis:
\* the elements inside one step along axis i.
Suffix(shape) ==
  LET p[i \in 0 .. Len(shape)] == IF i = Len(shape) THEN 1 ELSE shape[i+1] * p[i+1] IN p
Inner(shape, a) == Suffix(shape)[a]

\* Row-major strides up to axes of extent 0 or 1; an overflow of the running
\* product answers FALSE.
IsContiguous(v) ==
  \A a \in Axes(v) :
    /\ v.shape[a] > 1 => v.stride[a] = Inner(v.shape, a) * SizeOf(v)
    /\ Inner(v.shape, a) * v.shape[a] <= UsizeMax

\* d[1] + ... + d[i] for every i up to n.
Sums(n, d) == LET s[i \in 0 .. n] == IF i = 0 THEN 0 ELSE s[i-1] + d[i] IN s

\* The byte offset of the last element along the first i axes.
Steps(v, a) == IF v.shape[a] > 0 THEN v.shape[a] - 1 ELSE 0
Reach(v) == Sums(Rank(v), [a \in Axes(v) |-> Steps(v, a) * v.stride[a]])

\* checked_meta: what a view must satisfy before any element is addressed.
MetaOK(v) ==
  /\ Rank(v) <= MaxDim
  /\ v.dtype \in DOMAIN ElementSize
  /\ v.data # 0
  /\ v.layout \in {"DENSE", "STRIDED"}
  /\ \A a \in Axes(v) :
       /\ v.stride[a] % SizeOf(v) = 0
       /\ v.shape[a] > 1 => v.stride[a] # 0
       /\ Prefix(v.shape)[a] <= UsizeMax
       /\ Reach(v)[a] <= UsizeMax
  /\ Count(v) # 0 => Reach(v)[Rank(v)] + SizeOf(v) <= v.bytes
  /\ v.layout = "DENSE" => IsContiguous(v)

\* The row-major coordinates of a linear index: the remainder is peeled off
\* from the last axis to the first.
Rest(shape, linear) ==
  LET r[i \in 0 .. Len(shape)] ==
        IF i = Len(shape) THEN linear ELSE r[i+1] \div shape[i+1]
  IN r
Coordinates(shape, linear) ==
  LET rest == Rest(shape, linear) IN [a \in 1 .. Len(shape) |-> rest[a] % shape[a]]

InShape(shape, coords) == \A a \in 1 .. Len(shape) : coords[a] \in 0 .. shape[a] - 1

\* offset_for_coordinates, in elements.
Offset(v, coords) ==
  Sums(Rank(v), [a \in Axes(v) |-> coords[a] * (v.stride[a] \div SizeOf(v))])[Rank(v)]

\* row_major_linear: the way back from coordinates to the linear index.
RowMajor(shape, coords) ==
  LET r[a \in 0 .. Len(shape)] == IF a = 0 THEN 0 ELSE r[a-1] * shape[a] + coords[a]
  IN r[Len(shape)]

\* Mutant: the strides are forgotten.
LogicalAddrDense(v) == [l \in Linears(v) |-> v.data + SizeOf(v) * l]

\* The address of every element in logical order, as read_logical_bytes and
\* write_logical_bytes go through it: a prefix of the buffer when the view is
\* contiguous, one computed offset per element otherwise.
LogicalAddr(v) ==
  LET dense == IsContiguous(v)
  IN [l \in Linears(v) |->
        v.data + SizeOf(v) * (IF dense THEN l ELSE Offset(v, Coordinates(v.shape, l)))]

NormalizeAxis(axis, rank) == IF axis < 0 THEN axis + rank ELSE axis
AxisOK(axis, rank) == rank \in 1 .. MaxDim /\ NormalizeAxis(axis, rank) \in 0 .. rank - 1

\* as_slice::<T>, size_of::<T>() = align_of::<T>() = size.
TypedOK(v, size) == v.data # 0 /\ v.bytes % size = 0 /\ v.data % size = 0

\* The calls.  c.in and c.out are sequences of views, c.ints the contents of
\* the index input and c.vals those of input 1, both by storage offset (0-based).
ExpectIO(c, ins, outs) == Len(c.in) \in ins /\ Len(c.out) \in outs
ViewsOf(c) == {c.in[i] : i \in DOMAIN c.in} \cup {c.out[i] : i \in DOMAIN c.out}
AllF16(c) == \A v \in ViewsOf(c) : v.dtype = "F16"
AllMetaOK(c) == \A v \in ViewsOf(c) : MetaOK(v)

\* Mutant: a buffer that starts before the other one is taken to be apart from it.
OverlapFromAbove(u, v) == u.data <= v.data /\ v.data < u.data + u.bytes

\* reject_input_output_alias
Overlap(u, v) == u.data < v.data + v.bytes /\ v.data < u.data + u.bytes
NoAlias(c) == \A i \in DOMAIN c.in, o \in DOMAIN c.out :
  /\ c.in[i].data + c.in[i].bytes <= UsizeMax
  /\ c.out[o].data + c.out[o].bytes <= UsizeMax
  /\ ~Overlap(c.in[i], c.out[o])

\* from_call: AUTO is resolved to A100.
TargetOf(c) == IF c.target = "AUTO" THEN "A100" ELSE c.target
VectorTarget(c) == TargetOf(c) \in {"X100", "A100"}

\* read_indices: the integers of an index view in logical order.
IndicesOK(v) == v.dtype \in {"I32", "I64"} /\ TypedOK(v, SizeOf(v))
Indices(c, v) == [l \in Linears(v) |-> c.ints[Offset(v, Coordinates(v.shape, l))]]

\* The numbers read from input 1, in logical order.
Values(c) ==
  LET v == c.in[1]  addr == LogicalAddr(v)
  IN [l \in Linears(v) |-> c.vals[(addr[l] - v.data) \div SizeOf(v)]]

\* A finite set of integers in increasing order: how a loop meets the members
\* that pass its condition.
InOrder(S) ==
  [i \in 1 .. Cardinality(S) |-> CHOOSE x \in S : Cardinality({y \in S : y <= x}) = i]

(***************************************************************************)
(* Element values are symbolic: Term(f, w, from) is function f, with the    *)
(* integer parameters w, of what the addresses `from' held when the call    *)
(* began.  A moved element is Moved(address).                               *)
(***************************************************************************)
Term(f, w, from) == [f |-> f, w |-> w, from |-> from]
Moved(address) == Term("moved", <<>>, <<address>>)

\* write_logical_bytes: the stores that materialise a logical result.
WriteLogical(v, terms) ==
  LET at == LogicalAddr(v) IN [l \in Linears(v) |-> [at |-> at[l], val |-> terms[l]]]
=============================================================================
