---------------------------- MODULE TensorRequest ----------------------------
(***************************************************************************)
(* Where the descriptors of a call come from: the ONNX Runtime entry          *)
(* (ort_ffi.rs) validates a raw request, borrows its tensors through the      *)
(* tensor manager (tensormanager.rs, the memory types of kd_uring.rs) and     *)
(* builds the kernel descriptor; native callers allocate tensors from the     *)
(* tensor manager.  Both end in the constructors of desc.rs.                  *)
(***************************************************************************)
EXTENDS TensorMeta, KernelAttr

CONSTANT MaxSubmit   \* MAX_SUBMIT_TENSORS

ASSUME RequestAssumption == MaxSubmit \in Nat \ {0}

Known == {"MAT_MUL", "RMS_NORM", "ROPE", "SOFTMAX", "ADD", "MUL", "SILU", "SCALE", "CONV2D",
          "SIGMOID", "CONCAT", "TRANSPOSE", "GATHER", "MAX_POOL", "CAST", "RESIZE", "DIV",
          "TOP_K", "EXPAND", "TILE", "GATHER_ELEMENTS", "SUB", "REDUCE_MAX", "MOD", "GLU", "COPY"}
Targets == {"AUTO", "CPU", "X100", "A100"}

(* --- desc.rs -------------------------------------------------------------- *)
TensorSizeBytes(shape, size) == Product(shape) * size

\* Where a product does not fit, tensor_size_bytes panics.
SizeFits(shape, size) == ProductFits(shape) /\ TensorSizeBytes(shape, size) <= UsizeMax

\* from_user_buffer: row-major strides whatever the layout says, multiplied from the
\* last axis to the first, the extent of the first one included.  The asserts and
\* expects of the code are DescAsserts: where one fails the process panics.
RowMajorStrides(shape, size) == [a \in 1 .. Len(shape) |-> size * Inner(shape, a)]
StridesFit(shape, size) == \A a \in 0 .. Len(shape) : size * Inner(shape, a) <= UsizeMax
DescAsserts(bytes, dtype, layout, shape) ==
  /\ Len(shape) <= MaxDim
  /\ layout # "GGML_QUANT"
  /\ dtype \in DOMAIN ElementSize
  /\ SizeFits(shape, ElementSize[dtype])
  /\ TensorSizeBytes(shape, ElementSize[dtype]) <= bytes
  /\ StridesFit(shape, ElementSize[dtype])
FromUserBuffer(data, bytes, dtype, layout, shape) ==
  [data |-> data, bytes |-> bytes, dtype |-> dtype, layout |-> layout, shape |-> shape,
   stride |-> RowMajorStrides(shape, ElementSize[dtype])]

\* Block-quantised tensors: the first axis is stored in blocks.
Quant == [Q8_0 |-> [block |-> 32, bytes |-> 34], Q3_K |-> [block |-> 256, bytes |-> 110],
          IQ4_NL |-> [block |-> 32, bytes |-> 18]]
QuantShapeOK(dtype, shape) ==
  /\ shape # <<>> /\ dtype \in DOMAIN Quant
  /\ shape[1] # 0 /\ shape[1] % Quant[dtype].block = 0
RowBytes(dtype, shape) == (shape[1] \div Quant[dtype].block) * Quant[dtype].bytes
QuantSizeBytes(dtype, shape) == RowBytes(dtype, shape) * Product(Tail(shape))
QuantSizeFits(dtype, shape) ==
  /\ RowBytes(dtype, shape) <= UsizeMax /\ ProductFits(Tail(shape))
  /\ QuantSizeBytes(dtype, shape) <= UsizeMax
FromUserQuantBuffer(data, bytes, dtype, shape) ==
  LET row == RowBytes(dtype, shape)
      stride[a \in 1 .. Len(shape)] ==
        IF a = 1 THEN Quant[dtype].bytes ELSE row * Product(SubSeq(shape, 2, a - 1))
  IN [data |-> data, bytes |-> bytes, dtype |-> dtype, layout |-> "GGML_QUANT",
      shape |-> shape, stride |-> stride]

(* --- the tensor manager --------------------------------------------------- *)
\* borrow_tensor_with_layout over caller memory, which BorrowedMemory refuses
\* when it is null or empty or wraps around the address space: what it answers with
\* an error.  Where the product or the strides overflow it panics (DescAsserts).
BorrowOK(data, bytes, dtype, shape) ==
  /\ dtype \in DOMAIN ElementSize
  /\ Len(shape) <= MaxDim
  /\ TensorSizeBytes(shape, ElementSize[dtype]) <= bytes
  /\ data # 0 /\ bytes # 0 /\ data + bytes <= UsizeMax

\* alloc_tensor_with_layout: mmap refuses a mapping of length 0, and gives one
\* that does not wrap around the address space.  Where SizeFits fails, the call
\* panics instead of returning an error.
AllocOK(dtype, shape) ==
  /\ dtype \in DOMAIN ElementSize
  /\ Len(shape) <= MaxDim
  /\ SizeFits(shape, ElementSize[dtype])
  /\ TensorSizeBytes(shape, ElementSize[dtype]) # 0
AllocTensor(data, dtype, layout, shape) ==
  FromUserBuffer(data, TensorSizeBytes(shape, ElementSize[dtype]), dtype, layout, shape)

AllocQuantOK(dtype, shape) ==
  /\ Len(shape) <= MaxDim
  /\ QuantShapeOK(dtype, shape) /\ QuantSizeFits(dtype, shape)
  /\ QuantSizeBytes(dtype, shape) # 0
AllocQuantTensor(data, dtype, shape) ==
  FromUserQuantBuffer(data, QuantSizeBytes(dtype, shape), dtype, shape)

(* --- ort_ffi.rs ------------------------------------------------------------ *)
\* K3OrtTensor
RawTensors == [data : Nat, bytes : Nat, dtype : STRING, layout : STRING, shape : Seq(Nat),
               stride : Seq(Nat), format : STRING]

\* Mutant: the strides are not compared with the shape.
ValidTensorAnyStride(t) ==
  /\ t.dtype \in {"F32", "F16"}
  /\ Rank(t) <= MaxDim /\ t.data # 0
  /\ t.format \in {"ANY", "NCHW"} /\ t.layout = "DENSE"
  /\ \A a \in Axes(t) : t.shape[a] # 0
  /\ TensorSizeBytes(t.shape, SizeOf(t)) <= UsizeMax
  /\ t.bytes = TensorSizeBytes(t.shape, SizeOf(t))

\* validate_tensor: dense row-major F32 or F16 tensors of the exact size.
ValidTensor(t) ==
  /\ t.dtype \in {"F32", "F16"}
  /\ Rank(t) <= MaxDim /\ t.data # 0
  /\ t.format \in {"ANY", "NCHW"} /\ t.layout = "DENSE"
  /\ \A a \in Axes(t) : t.shape[a] # 0
  /\ TensorSizeBytes(t.shape, SizeOf(t)) <= UsizeMax
  /\ t.bytes = TensorSizeBytes(t.shape, SizeOf(t))
  /\ \A a \in Axes(t) : t.stride[a] = SizeOf(t) * Inner(t.shape, a)

ValidCounts(r) ==
  /\ r.input_count + r.output_count <= U32Max
  /\ r.input_count # 0 /\ r.output_count # 0
  /\ r.input_count + r.output_count <= MaxSubmit

TotalOf(r) == r.input_count + r.output_count
ValidRequest(r) ==
  /\ r.op \in Known /\ r.target \in Targets
  /\ r.attr_size <= AttrInlineSize
  /\ ValidCounts(r)
  /\ \A i \in 1 .. TotalOf(r) : ValidTensor(r.tensors[i])

BorrowTensor(t) == FromUserBuffer(t.data, t.bytes, t.dtype, t.layout, t.shape)
BorrowsOK(r) ==
  \A i \in 1 .. TotalOf(r) :
    LET t == r.tensors[i] IN BorrowOK(t.data, t.bytes, t.dtype, t.shape)

\* build_desc: the borrowed tensors in the order of the request.
BuildDesc(r) ==
  [op |-> r.op, target |-> r.target, input_count |-> r.input_count,
   output_count |-> r.output_count, attr |-> r.attr, attr_size |-> r.attr_size,
   ints |-> r.ints, vals |-> r.vals,
   tensors |-> [i \in 1 .. TotalOf(r) |-> BorrowTensor(r.tensors[i])]]
=============================================================================
