---------------------------- MODULE KernelBackend ----------------------------
(***************************************************************************)
(* One kernel call, from the descriptor to the flags of its graph node.      *)
(*                                                                         *)
(* k3_run_kernel (lib.rs) counts the tensors, splits them into inputs and     *)
(* outputs, and dispatches to the kernel of the operation; the kernel checks  *)
(* its operands and writes its outputs one after the other.  A refusal, at    *)
(* whatever point, puts an error into the node and completes it.  The         *)
(* descriptor is either built from an ONNX Runtime request or taken as it is  *)
(* from the graph of a native caller, who may have written anything in it.    *)
(*                                                                         *)
(* Memory is one term per element, at the address of its first byte; only     *)
(* what the call has stored is kept, every other address a still holds what   *)
(* it held before the call, Moved(a).                                         *)
(***************************************************************************)
EXTENDS TensorRequest, Nn, Elementwise, Matrix

CONSTANTS Requests,   \* raw requests of the ONNX Runtime plugin
          Descs,      \* descriptors submitted by native callers
          NoDesc

\* The fields of a descriptor and of a request, as far as the Rust types fix them.
TypedCall(d) ==
  /\ d.input_count \in U32 /\ d.output_count \in U32
  /\ TypedAttr(d.op, d.attr)
  /\ d.op = "TILE" /\ d.attr.rank <= MaxDim => d.attr.rank <= Len(d.attr.repeats)
  /\ d.op = "TRANSPOSE" /\ d.attr.rank <= MaxDim => d.attr.rank <= Len(d.attr.perm)
\* Where a kernel looks at the contents of an operand, it finds numbers there.
TypedContents(op, tensors, ints, vals) ==
  /\ op \in {"MAX_POOL", "TOP_K"} /\ Len(tensors) > 0 =>
       \A i \in 0 .. tensors[1].bytes \div 2 - 1 : vals[i] \in Int
  /\ op \in {"GATHER", "GATHER_ELEMENTS"} /\ Len(tensors) > 1 /\ tensors[2].dtype \in {"I32", "I64"} =>
       \A i \in 0 .. tensors[2].bytes \div SizeOf(tensors[2]) - 1 : ints[i] \in Int
TypedDesc(d) ==
  /\ TypedCall(d)
  /\ d.tensors \in Seq(Views)
  /\ d.input_count + d.output_count <= MaxSubmit =>
       d.input_count + d.output_count <= Len(d.tensors)
  /\ TypedContents(d.op, d.tensors, d.ints, d.vals)
TypedRequest(r) ==
  /\ TypedCall(r)
  /\ r.tensors \in Seq({t \in RawTensors : Len(t.stride) = Len(t.shape)})
  /\ ValidCounts(r) => TotalOf(r) <= Len(r.tensors)
  /\ TypedContents(r.op, r.tensors, r.ints, r.vals)

\* A product of two 32-bit numbers fits into a usize.
ASSUME CallAssumption ==
  /\ U32Max * U32Max <= UsizeMax
  /\ \A d \in Descs : TypedDesc(d)
  /\ \A r \in Requests : TypedRequest(r)

VARIABLES pc,      \* "idle", "refused", "submitted", "writing", "done" or "panicked"
          desc,    \* the descriptor of the node
          mem,     \* [address -> term], for the addresses stored to
          next,    \* the output written next
          node     \* AiGraphState: [complete, error_flag], and the value returned

vars == <<pc, desc, mem, next, node>>

UntouchedMem == <<>>
FreshNode == [complete |-> FALSE, error_flag |-> FALSE, ret |-> "none"]

(* --- k3_run_kernel --------------------------------------------------------- *)
CountsOK(d) ==
  d.input_count + d.output_count <= U32Max /\ d.input_count + d.output_count <= MaxSubmit

\* The BackendCall: the target is A100 whatever the hint says.
CallOf(d) ==
  [op |-> d.op, target |-> "A100", attr |-> d.attr, attr_size |-> d.attr_size,
   ints |-> d.ints, vals |-> d.vals,
   in |-> SubSeq(d.tensors, 1, d.input_count),
   out |-> SubSeq(d.tensors, d.input_count + 1, d.input_count + d.output_count)]

\* The checks of the kernel an operation is dispatched to.
Accepts(c) ==
  /\ c.attr_size >= AttrBytes(c.op)
  /\ \/ c.op = "MAT_MUL" /\ MatMulOK(c)
     \/ c.op = "CONV2D" /\ ConvOK(c)
     \/ c.op \in BinaryOps /\ BinaryOK(c)
     \/ c.op \in UnaryOps /\ UnaryOK(c)
     \/ c.op = "SOFTMAX" /\ SoftmaxOK(c)
     \/ c.op = "RMS_NORM" /\ RmsNormOK(c)
     \/ c.op = "ROPE" /\ RopeOK(c)
     \/ c.op = "GLU" /\ GluOK(c)
     \/ c.op = "MAX_POOL" /\ MaxPoolOK(c)
     \/ c.op = "REDUCE_MAX" /\ ReduceMaxOK(c)
     \/ c.op = "TOP_K" /\ TopKOK(c)
     \/ c.op = "CONCAT" /\ ConcatOK(c)
     \/ c.op = "TRANSPOSE" /\ TransposeOK(c)
     \/ c.op = "GATHER" /\ GatherOK(c)
     \/ c.op = "GATHER_ELEMENTS" /\ GatherElementsOK(c)
     \/ c.op = "COPY" /\ CopyOK(c)
     \/ c.op = "CAST" /\ CastOK(c)
     \/ c.op = "RESIZE" /\ ResizeOK(c)
     \/ c.op = "EXPAND" /\ ExpandOK(c)
     \/ c.op = "TILE" /\ TileOK(c)

\* The logical outputs of the kernels that go through write_logical_bytes: two
\* of MAX_POOL (the second only if it is asked for) and of TOP_K, one of the rest.
LogicalOutput(c) ==
  CASE c.op = "SOFTMAX" -> SoftmaxResult(c)
    [] c.op = "RMS_NORM" -> RmsNormResult(c)
    [] c.op = "ROPE" -> RopeResult(c)
    [] c.op = "GLU" -> GluResult(c)
    [] c.op = "REDUCE_MAX" -> ReduceMaxResult(c)
    [] c.op = "CONCAT" -> ConcatResult(c)
    [] c.op = "TRANSPOSE" -> TransposeResult(c)
    [] c.op = "GATHER" -> GatherResult(c)
    [] c.op = "GATHER_ELEMENTS" -> GatherElementsResult(c)
    [] c.op = "COPY" -> CopyResult(c)
    [] c.op = "CAST" -> CastResult(c)
    [] c.op = "RESIZE" -> ResizeResult(c)
    [] c.op = "EXPAND" -> ExpandResult(c)
    [] c.op = "TILE" -> TileResult(c)
LogicalOutputs(c) ==
  IF c.op = "MAX_POOL" THEN MaxPoolResult(c)
  ELSE IF c.op = "TOP_K" THEN TopKResult(c)
  ELSE <<LogicalOutput(c)>>

\* Where an accepted call panics: CONV2D on the A100, the target of every call here.
Panics(c) ==
  \/ c.op = "RESIZE" /\ ResizePanics(c)
  \/ c.op = "CONV2D" /\ ConvPanics(Geom(c.attr))

DirectOps == BinaryOps \cup UnaryOps \cup {"MAT_MUL", "CONV2D"}
Skips(c) == c.op = "COPY" /\ CopySkips(c)

\* write_logical_bytes refuses a result of another length than its output.
LengthOK(c, o) ==
  c.op \in DirectOps \/ Skips(c)
    \/ Cardinality(DOMAIN LogicalOutputs(c)[o]) = Count(c.out[o])

\* The stores a call makes into output o.
Stores(c, o) ==
  IF Skips(c) THEN <<>>
  ELSE IF c.op = "MAT_MUL" THEN MatMulWrites(c)
  ELSE IF c.op = "CONV2D" THEN ConvWrites(c)
  ELSE IF c.op \in BinaryOps THEN BinaryWrites(c)
  ELSE IF c.op \in UnaryOps THEN UnaryWrites(c)
  ELSE WriteLogical(c.out[o], LogicalOutputs(c)[o])

Held(m, a) == IF a \in DOMAIN m THEN m[a] ELSE Moved(a)
After(m, stores) ==
  LET written == {stores[k].at : k \in DOMAIN stores}
      last(a) == stores[CHOOSE k \in DOMAIN stores : stores[k].at = a].val
  IN [a \in DOMAIN m \cup written |-> IF a \in written THEN last(a) ELSE m[a]]

(* --- the steps --------------------------------------------------------------- *)
Init ==
  /\ pc = "idle" /\ desc = NoDesc /\ next = 0
  /\ mem = UntouchedMem
  /\ node = FreshNode

\* k3_ort_run_node: an invalid request comes back with a status and no node.
RefuseRequest(r) ==
  /\ pc = "idle" /\ ~(ValidRequest(r) /\ BorrowsOK(r))
  /\ pc' = "refused"
  /\ UNCHANGED <<desc, mem, next, node>>

RunRequest(r) ==
  /\ pc = "idle" /\ ValidRequest(r) /\ BorrowsOK(r)
  /\ desc' = BuildDesc(r)
  /\ pc' = "submitted"
  /\ UNCHANGED <<mem, next, node>>

SubmitDesc(d) ==
  /\ pc = "idle"
  /\ desc' = d
  /\ pc' = "submitted"
  /\ UNCHANGED <<mem, next, node>>

\* Mutant: the error is returned, but the node does not show it.
FailWithoutFlag ==
  /\ node' = [complete |-> TRUE, error_flag |-> FALSE, ret |-> "error"]
  /\ pc' = "done"
  /\ UNCHANGED <<desc, mem, next>>

\* Every refusal of k3_run_kernel: error_flag and complete set, negative code.
Fail ==
  /\ node' = [complete |-> TRUE, error_flag |-> TRUE, ret |-> "error"]
  /\ pc' = "done"
  /\ UNCHANGED <<desc, mem, next>>

RejectCounts == pc = "submitted" /\ ~CountsOK(desc) /\ Fail

RejectCall ==
  /\ pc = "submitted" /\ CountsOK(desc)
  /\ desc.op \notin Known \/ ~Accepts(CallOf(desc))
  /\ Fail

StartCall ==
  /\ pc = "submitted" /\ CountsOK(desc)
  /\ desc.op \in Known /\ Accepts(CallOf(desc)) /\ ~Panics(CallOf(desc))
  /\ pc' = "writing" /\ next' = 1
  /\ UNCHANGED <<desc, mem, node>>

\* A panic cannot leave an extern "C" function: the process stops, and the node
\* is never completed.
Panic ==
  /\ pc = "submitted" /\ CountsOK(desc)
  /\ desc.op \in Known /\ Accepts(CallOf(desc)) /\ Panics(CallOf(desc))
  /\ pc' = "panicked"
  /\ UNCHANGED <<desc, mem, next, node>>

\* One output; write_logical_bytes may still refuse its length.
WriteOutput ==
  /\ pc = "writing" /\ next <= desc.output_count
  /\ IF LengthOK(CallOf(desc), next)
     THEN /\ mem' = After(mem, Stores(CallOf(desc), next))
          /\ next' = next + 1
          /\ UNCHANGED <<pc, desc, node>>
     ELSE Fail

Succeed ==
  /\ pc = "writing" /\ next > desc.output_count
  /\ node' = [node EXCEPT !.complete = TRUE, !.ret = "ok"]
  /\ pc' = "done"
  /\ UNCHANGED <<desc, mem, next>>

Kernel == RejectCounts \/ RejectCall \/ StartCall \/ Panic \/ WriteOutput \/ Succeed
Entry == \/ \E r \in Requests : RefuseRequest(r) \/ RunRequest(r)
         \/ \E d \in Descs : SubmitDesc(d)
Next == Entry \/ Kernel

Spec == Init /\ [][Next]_vars

=============================================================================
