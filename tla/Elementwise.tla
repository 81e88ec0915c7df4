----------------------------- MODULE Elementwise -----------------------------
(***************************************************************************)
(* The element-wise kernels: the binary ones with broadcasting (binary.rs)   *)
(* and the unary ones (unary.rs).                                            *)
(***************************************************************************)
EXTENDS Transform

BinaryOps == {"ADD", "SUB", "MUL", "DIV", "MOD"}
UnaryOps == {"SILU", "SIGMOID", "SCALE"}

\* BroadcastPlan::new: the operands are aligned at the last axis, and the
\* output has the larger extent of each pair.
PlanOK(lhs, rhs, output) ==
  LET rank == IF Rank(lhs) > Rank(rhs) THEN Rank(lhs) ELSE Rank(rhs)
  IN /\ Rank(output) = rank
     /\ \A a \in 1 .. rank :
          LET l == AlignedShape(lhs, rank, a)  r == AlignedShape(rhs, rank, a)
          IN /\ l = r \/ l = 1 \/ r = 1
             /\ output.shape[a] = IF l > r THEN l ELSE r

\* What is found out at the first element of the output: MOD without its fmod
\* flag, or an operand without any element (its extent 0 facing an extent 1).
ApplyOK(c) ==
  Count(c.out[1]) > 0 =>
    /\ c.op = "MOD" => c.attr.fmod
    /\ \A i \in DOMAIN c.in : Count(c.in[i]) > 0

BinaryOK(c) ==
  /\ ExpectIO(c, {2}, {1}) /\ NoAlias(c)
  /\ c.attr.broadcast_kind = 0
  /\ AllF16(c) /\ AllMetaOK(c)
  /\ PlanOK(c.in[1], c.in[2], c.out[1])
  /\ \A v \in ViewsOf(c) : TypedOK(v, 2)
  /\ ApplyOK(c)

\* BroadcastPlan::offsets, as addresses, for one element of the output.
Operand(v, oc) == v.data + 2 * Offset(v, Broadcast(v, oc))
BinaryWrites(c) ==
  [l \in Linears(c.out[1]) |->
     LET oc == Coordinates(c.out[1].shape, l)
     IN [at  |-> c.out[1].data + 2 * Offset(c.out[1], oc),
         val |-> Term(c.op, <<>>, <<Operand(c.in[1], oc), Operand(c.in[2], oc)>>)]]

\* The unary kernels go over the whole buffers: shapes and strides are not
\* looked at, and the input may be the output.
UnaryOK(c) ==
  /\ ExpectIO(c, {1}, {1}) /\ AllF16(c)
  /\ \A v \in ViewsOf(c) : TypedOK(v, 2)
  /\ c.in[1].bytes = c.out[1].bytes

UnaryWrites(c) ==
  [i \in 0 .. c.in[1].bytes \div 2 - 1 |->
     [at |-> c.out[1].data + 2 * i, val |-> Term(c.op, <<>>, <<c.in[1].data + 2 * i>>)]]
=============================================================================
