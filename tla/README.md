# k3x-HERA-RT in TLA+

Specifications of the AI graph runtime in `src/`: a user process builds a
graph of kernels, submits it to the driver `/dev/k3_airunner`, a per-core
scheduler queues it, a resident worker executes its nodes, and a completion
comes back. Everything here is translated from the Rust sources; the modules
are model-checked on small instances and the most important results are proved
for every instance.

## The system

| Component | Source | State | Operations | What must hold |
|---|---|---|---|---|
| Per-core ready queue | `k3_aiScheduler/src/scheduler.rs:41-195` | `head`, `tail`, a sequence and a cell per slot | `try_push`, `try_pop`, retried by `push_task_for_core` and polled by the worker | no two threads on a slot, no task lost or doubled, FIFO by claim, true answers, no push stuck |
| Scheduler slot, `run_graph` | `scheduler.rs:207-474`, `lib.rs` | `init_state`, the scheduler cell, the wait queue | first submitter builds and spawns, everyone pushes and notifies | built once, nobody sees it half built, no lost wakeup |
| Worker | `woker.rs` | the task in hand, `worker_busy`/`worker_token` | take, run nodes, unmap, send completion, sleep | aliases live exactly while needed, one true completion per graph, in order |
| Graph resolution | `kd_kring.rs` | indegrees, ready queue | `resolve_parsed_graph` | a topological chain iff there is one |
| User-side channel | `k3_aiRuntime/src/fronted/kd_uring.rs` | `CHANNEL_BUILT`, `CHANNEL_MEMORY` | `build_channel`, `submit_graph`, `wait_graph_complete` | one channel per process, each caller gets its own result |
| ONNX Runtime entry | `k3_aiRuntime/src/ort_ffi.rs` | the `CHANNEL` mutex, `NEXT_TOKEN` | `k3_ort_run_node` | every call returns, whatever step fails |
| Tensor manager | `k3_aiRuntime/src/fronted/tensormanager.rs` | none but the memory | borrow and allocate tensors | a borrowed tensor is a view inside the caller's buffer, no assertion fails |
| Graph building and blob | `k3_aiUabi/src/graph.rs` | nodes and edges under construction | `push_kernel_*`, `freeze`, `parse` | failed calls leave no trace, what freezes resolves, sections in bounds |
| ABI types, descriptors | `k3_aiUabi/src/{types,desc,kernel,kernelattr,error,control}.rs` | none | checked arithmetic, constructors | no overflow passes |
| Kernel dispatch, call metadata | `k3_kernel_backend/src/{lib,call}.rs` | the flags of the node | `k3_run_kernel`, `checked_meta`, `CallContext` | a refused call leaves no trace but the flags, every offset of a checked view is in its buffer |
| Data movement kernels | `k3_kernel_backend/src/transform.rs` | the output buffers | CONCAT ... TILE, CAST, RESIZE | each output cell shows the input cell the operation names |
| Arithmetic kernels | `k3_kernel_backend/src/{binary,unary,matmul,conv2d,nn}.rs` | the output buffers | 17 operations, two of them with a scalar and a tiled implementation | computed from the right cells, no access outside a buffer, both implementations alike |
| Vector instructions | `k3_kernel_backend/src/rvv.rs` | none | RVV and matrix primitives | not modelled |

How they interact. The process maps a shared memory with two channels and hands
it to the driver once (`build_channel`). `submit_graph` sends an entry on
channel 0 and issues an ioctl. The driver (not in the repository) copies the
blob, parses it (`AiGraphParser`), maps the tensors, resolves the graph
(`resolve_parsed_graph`) and calls `run_graph`. The slot of the caller's core
is initialised by the first caller; each caller pushes its task on the slot's
lock-free ring and notifies the worker. The worker executes the nodes through
`k3_run_kernel`, unmaps the tensors and tries to send an `AiCompletion` on
channel 1, for which `wait_graph_complete` polls.

What is hard: the ring (several producers stalled anywhere between their loads,
compare-exchange, write and publication); the race to initialise a slot while
others submit; sleep against wakeup; a failing node, unmap, ioctl or endpoint
in the middle of a sequence; completions that belong to somebody else; a full
queue and a full channel. In the kernels it is the index arithmetic: strides,
broadcasting, partial tiles, padding, negative axes and indices, and buffers
whose sizes, shapes and attributes come from a caller and need not agree.
`PROJECT.json` lists these hazards at their lines
with the properties that guard them.

## Modules

    ReadyQueue   <--implements--  TaskQueue      (ring)       TaskQueueProof
        ^ operations
    Scheduler    --implements-->  GraphService   (promise)    SchedulerProof, MCScheduler
    Dag <-- Resolve, GraphManager  (reference definitions)    ResolveProof, GraphManagerProof
    BlobLayout <-- GraphManager, BlobTransfer                 BlobProof
    Frontend                       (user side, driver abstr.) FrontendProof
    TensorMeta <-- Transform <-- Nn, Elementwise              (views, kernels)
    TensorMeta <-- Matrix;  TensorMeta, KernelAttr <-- TensorRequest
    all of these <-- KernelBackend <-- KernelReference        MCKernelBackend
    KernelReference <-- KernelProof <-- KernelReferenceProof

**TaskQueue** is the ring at the grain of its atomics: each load, store,
compare-exchange and cell access of `try_push` and `try_pop` is an action.
`ppc`/`cpc` say where a thread is, `ppos`/`ctask` and the like are its locals;
`order` and `returned` are history. `compare_exchange_weak` may fail
spuriously (`LoseTail`, `LoseHead`). Several consumers are allowed, as in the
code; the scheduler uses one. Counters are unbounded in the model: the theorems
`WrappedDelta` and `WrappedSlot` of **TaskQueueProof** say that the wrapping
arithmetic of the code cannot tell. A Relaxed load may return an old value; so
may a load by a thread that then stalls, which is a behaviour of the model.

**ReadyQueue** is what the ring promises: claim a position, publish it, take
published positions in order, give the room back. **Scheduler** uses its
actions as the queue of one slot, so the composition is through the refinement
`TaskQueue!ImplementsReadyQueue`. A submitter goes through `run_graph`
(`spc`: init, build, ready, spawn, await, claim, publish, notify), the worker
through its loop (`wpc`). `alias[g][n]` is the kernel alias of node `n`'s
tensor: live from submission, then gone or, if unmap fails, stuck. The two
stores before and the two after a graph that only feed log lines
(`worker_busy`, `worker_token`) are one assignment of `busy` each.
`wait_until` checks and sleeps in one step: that is the contract of
`lib.rs:23-27`, implemented by the host.

**GraphService** is the promise of the slot: graphs execute one at a time in
the order of acceptance, and each result is reported once before the next
starts. The refinement takes the results from the history of kernel calls, not
from the worker's own `failed`.

**Resolve** is `resolve_parsed_graph`, an iteration of a loop per action, over
every graph with up to `MaxNodes` nodes and `MaxEdges` edges, ids and endpoints
included that a blob may hold. **Dag** holds the reference definitions
(`Cyclic` by the existence of a set without a first node, `Topological`).

**GraphManager** is graph building: the `push_kernel_*` calls, with the search
of `reaches` and the roll-back, and `freeze`, with `validate_graph` and the
Kahn loop of `has_cycle`. `pc` says where the one call in progress is; `before`
and `answer` are history. `from_parts` is public, so it is also given graphs no
manager builds. `FreezeIsExact` and `FailsOnlyWithoutChain` of Resolve are
stated with the same definitions of Dag: what `freeze` accepts is what
`resolve_parsed_graph` accepts, although one loop is last in, first out and the
other first in, first out. The body of the roll-back (`TakeBack`) is modelled
and has no case: the dependencies are checked before the node is pushed.

**BlobLayout** holds the arithmetic of blobs, `pad_to`, the offsets and
`checked_section`, as operators over the sizes and the widths of `u32` and
`usize`. **BlobTransfer** takes a blob from `from_parts` to `parse`; in between
its owner may overwrite header fields or submit another length. Bytes are not
modelled: a section is its range, a header its fields.

**Frontend** is the user side. Threads in `OrtThreads` go through
`execute_on_device`, the others call the public functions. The driver is
external: it keeps the first memory it is given (the idempotence that
`kd_uring.rs:61` and `:232` speak of), executes what it accepts, and may or may
not later execute an entry whose ioctl failed.

**KernelBackend** is one kernel call, from the descriptor to the flags of its
node: `pc` is idle, submitted, writing, done or, for a request refused at the
entry, refused; `desc` the descriptor, `mem` what the call has stored, `next`
the output it writes, `node` the flags and the returned value. The descriptor
comes from an ONNX Runtime request (`RunRequest`) or as it is from a native
caller (`SubmitDesc`); `RejectCounts`, `RejectCall`, `StartCall`, one
`WriteOutput` per output and `Succeed` are `k3_run_kernel`, which resolves
every target to the A100, so X100 is never reached. The pieces of it:

- **TensorMeta**: `checked_meta`, coordinates and offsets, contiguity, axes,
  aliasing, and the logical order of `read_logical_bytes` and
  `write_logical_bytes`. A view is a record [data, bytes, dtype, layout, shape,
  stride] with strides in bytes; sums and products are partial results per axis
  because the code checks each of them.
- **Transform**, **Nn**, **Elementwise**, **Matrix**: the kernels. `<Op>OK(c)` is every
  check a kernel makes before its first store, `<Op>Result(c)` (or `...Writes`)
  what it stores, in the linear indices, blocks, strides and tiles of the code.
- **KernelAttr**: the attribute structures. **TensorRequest**: the constructors
  of `desc.rs`, the tensor manager, and the validation, borrowing and descriptor
  of `ort_ffi.rs`.

Element values are terms: `Term(f, w, from)` is function `f`, with the integers
`w`, of what the addresses `from` held before the call; `Moved(a)` is the
element at `a`. Memory maps the first byte of an element to its term, and only
stored addresses are kept. Numbers appear where the code decides by them: the
contents of index tensors (`ints`) and of the input of MAX_POOL and TOP_K
(`vals`). A refusal is one refusal, whatever its error code; of a
floating-point attribute only the sign is kept.

**KernelReference** says what the kernels promise, independently of the code:
in coordinates, with `At(v, x)` as the only way to an address. It holds no
model of code, only the reference definitions and the properties of the run.

## Runs

| Run | Module, cfg | Instance | What it shows |
|---|---|---|---|
| ready_queue | TaskQueue, MCTaskQueue | 2 producers, 2 consumers, 2 slots, 3 tasks | the ring's safety, its refinement of ReadyQueue, and that every push is returned |
| scheduler | MCScheduler | 3 submitters, 3 graphs of 1 node, queue of 2, channel of 1, symmetric | initialisation race, lost wakeup, bounded channel |
| scheduler_results | Scheduler, MCSchedulerResults | 2 submitters, 2 graphs of 2 nodes, queue of 1, channel of 1 | alias lifetime, refinement of GraphService, every graph ends |
| resolve | Resolve, MCResolve | up to 3 nodes, 4 edges | topological chain iff possible, exact counters |
| graph_manager | GraphManager, MCGraphManager | pushes up to 4 nodes with up to 2 dependencies; parts of up to 3 nodes, 4 edges | pushes are all or nothing, built graphs have an order, exactly what has an order and fits freezes |
| blob | BlobTransfer, MCBlob | up to 3 nodes and edges, `u32` up to 18, `usize` up to 60, 2 changes | no read outside the blob, an untouched blob parses back |
| frontend | Frontend, MCFrontend | 2 ONNX Runtime threads, 4 calls | one channel, own results, every call returns |
| kernel_backend | MCKernelBackend | 341 calls (all 26 operations, and an unknown one) and 21 requests | right elements, bounds, aliasing, both targets alike, requests fit |
| lost_completion | Scheduler, MCLostCompletion | channel of 1 | **violation**: a completion is dropped on a full channel |
| alias_release | Scheduler, MCAliasRelease | | **violation**: aliases go before the completion, unlike `kd_kring.rs:109` |
| ready_order | Resolve, MCReadyOrder | up to 4 nodes, 2 edges | **violation**: the ready queue is FIFO, not by id as `kd_kring.rs:163` |
| build_race | Frontend, MCBuildRace | 2 direct callers | **violation**: both execute the ioctl, unlike `kd_uring.rs:231` |

Bounds. With two slots and three tasks the ring wraps, so a slot serves two
laps, is full, and a thread stalled on one lap meets the next; two threads on
each side are enough for every race between loads and exchanges. The queue of
one in scheduler_results makes two graphs fill it. Two nodes allow success,
failure of the first and of the last. Three nodes and four edges contain
self loops, repeated edges, two- and three-cycles and chains with a shortcut.
The sizes and word widths of the blob are small so that totals, products and
sums overflow, alignment pads by zero and by more, and a changed field takes
every value; the graph_manager run has a `u32` so small that its four-node
graphs no longer fit. `from_parts` is given parts only before the first push,
since it shares no state with a manager.
Four calls let a call meet the leftovers of two failed ones.
In kernel_backend `usize` is 16 bits and `u32` 8 (so that a product of two
fits, as in the code), a tile 2 by 2 instead of 8 by 8, so that matrices of three
rows have full and partial tiles in every direction; `MAX_DIM`,
`MAX_SUBMIT_TENSORS` and the inline attribute size are the code's. Each
operation comes with accepted calls over dense, spread (gaps between elements)
and turned (axes stored in the opposite order) buffers where it looks at strides, with every
variant of its attribute (axes from both ends, broadcast operands, negative and
repeated indices, equal numbers, padding, dilation, groups, ceiling, both
pairings and position layouts of ROPE, transposed and batched matrices), and
with calls one step beyond a check. For CONV2D, images and kernels at the limits of
`u32` and `usize`. The calls of MCKernelBackend are a choice,
not an enumeration: the theorems below cover all others.
Deadlock is not checked where the system may stop: all graphs submitted and the
worker asleep, `resolve` finished, a blob parsed, `MaxCalls` used up, a kernel call done.

Fairness. Threads inside `try_push`, `try_pop`, `run_graph` and the worker are
running, not blocked, hence weak fairness of their steps. Strong fairness of
the compare-exchanges says that one which finds its expected value again and
again is not refused for ever; strong fairness of `ClaimPosition` is what
`EveryPushReturned` provides at the level below; strong fairness of
`LockChannel` is that of a mutex that passes nobody over for ever. That a
submitter spinning on a full queue does not keep the worker of the same core
from running is a duty of the host's scheduler. Starting a push or a call is
never assumed.

What the properties of kernel_backend say. `MovesTheRightElements`: every cell
of the output of a data movement kernel shows exactly one cell of the inputs,
the one its operation names, and its address ends up with what that cell holds (where
the strides of an output put several of its cells at one address, with what one of
them shows: `SameAddress`). `ComputesFromTheRightElements`: every cell of the
other kernels is computed from the cells its operation is defined on, in their order
and with their weights. In RESIZE between pixels a position outside the image is the one at its
edge. The kernels that address the buffers themselves are held to it where the views
are what they take on trust (`Described`): the unary ones equal strides, MAT_MUL batches of
matrices with the strides of its attribute, CONV2D dense images and weights of its
geometry whose sizes fit in 32 bits. The calls of the run include both such views and others.
`SelectsTheExtremes`: MAX_POOL and TOP_K write the extreme elements, the first of
equal ones, and indices that name them; of every window with a pixel and every rank
below `k` there is exactly one. It speaks of calls whose two outputs do not overlap
(`OutputsApart`): `reject_input_output_alias` compares inputs with outputs only
(`call.rs:455`), so a descriptor whose index output lies on its value output is
accepted, and the indices, stored last, overwrite values. `StoresInBounds`, `LoadsInBounds`: no
store outside the output, no operand outside the inputs, but for the cell of the output
that `add_bias` reads back. `TargetsAgree`: MAT_MUL
and CONV2D go through the same pairs in the same order on the CPU and on the A100 and
store to the same addresses, for convolutions while their sizes fit in 32 bits (`CastsFit`).
`OnA100` says where the bias stands: first on the CPU, last on the A100, after the
rounded product. How the single precision sums are grouped, by tiles of the depth or
not, is not in a term. `FailedCallWritesNothing`,
`InputsSurvive`: a failed call leaves no trace, a successful one keeps its
operands. `RequestsFitTheKernel`: for a request that `validate_request` lets through no
assertion of a constructor fails (`DescAsserts`, said of the request itself, whether or not
it can then be borrowed), and the request that is submitted passes the metadata checks
with the strides it came with.

Every property of a passing run has a mutant beside the definition it changes,
the plausible bug that breaks it.

## Proofs

All proofs hold for every value of the constants under the named assumptions.

- **TaskQueueProof**, from `Capacity >= 2` and `NoTask \notin Tasks`.
  `TypeCorrect`; `RingCorrect`, the inductive invariant `RingInvariant`:
  positions below `tail` are claimed, `tail - head <= Capacity`, a slot's
  sequence is its free position, one more once published, and a lap more once
  released, and a thread past its compare-exchange is alone on its position.
  `SlotExclusive` alone is not inductive, since it does not say why a slot whose
  sequence matches is free; the invariant does. From it follow
  `SlotsExclusive`, `ReadsCorrect` and `RingImplementsReadyQueue`, step by step
  for the refinement mapping `LinePublished`, `LineFreed`, `LineHand`. Two more
  need their own strengthening. `AnswersCorrect` is an action property: the
  position a thread compares with may be laps old when it reads the sequence, so
  `Passed` says that the sequence of a slot never falls behind any position ever
  claimed or taken there; "full" and "empty" can then only be said of the
  present end. `NothingLostOrDoubled`: a task is in one place only if no two
  producers hold it, none holds a claimed one, and `order` has none twice
  (`Places`). `WrappedDelta` and `WrappedSlot` follow from quotient and remainder alone.
- **SchedulerProof**, from a positive capacity of the queue, natural numbers for
  the room of the channel and the nodes, and `NoGraph` outside the graphs and submitters. `TypeCorrect` with `HoldingInvariant` (who holds a graph);
  `SlotCorrect`, the inductive `SlotInvariant` of the initialisation (one
  initialiser, nobody beyond it before READY); from these
  `NobodyIsTurnedAway`, `SchedulerIsKept` and `NoWakeupLost`. `GraphsCorrect` is
  the inductive `GraphInvariant`, in three parts: a graph is still to be
  submitted, in the hands of one submitter or at one position of the queue, and
  untouched until the worker takes it (`PlacesInvariant`); at each label the
  worker has executed so many nodes and unmapped so many tensors of the graph
  it took last, and `failed` is the first that failed (`WorkInvariant`); no
  graph in the log of completions has a live alias (`LogInvariant`).
  `AliasLifetime` is not inductive, because it does not say that the graph the
  worker takes next is another one; with the places it is, and
  `AliasesOutliveTheirUse` follows. `SlotImplementsGraphService` maps the claim
  of a position to `Accept`, the end of the node loop to `Execute`, sending the
  completion or finding no room for it to `Report`, and everything else to a stutter.
- **ResolveProof**, for graphs of any size. The invariant is one part per loop of
  `resolve_parsed_graph` (`WhileIds`, `WhileEdges`, `WhileRoots`,
  `WhilePopping`) beside `CountsAreExact`: after `m` edges the lists and counters
  are those of the first `m` edges; what is in the order and the queue has no
  repetitions, and predecessors in the order come first. The counter of a node
  is the number of its edges, repeated ones included, so the proof adds up
  cardinalities edge by edge (`OneMore`). `IndegreeIsExact`, `ChainRunsInOrder`
  and `RefusesOnlyUnorderable` follow: when the queue runs dry, the nodes left
  all have a predecessor among themselves, which is a cycle of Dag.
- **GraphManagerProof**: `BuilderCorrect`, the inductive `BuilderInvariant` of
  a push in progress: what has been added are the node and the edges of the
  dependencies looked at so far, every edge goes from a smaller to a larger id,
  and the search stays at the new node, where no edge begins. Hence
  `PushesAreAllOrNothing`, and, since a set of numbers has a smallest
  (`ForwardEdgesHaveAnOrder`, from well-foundedness), `BuiltGraphsAreOrdered`.
  `FreezeCorrect` is the inductive `FreezeInvariant` of `validate_graph` and
  `has_cycle`, for any parts: the nodes taken (`Done`) are those with counter
  zero outside `ready`, the counter of a node is the number of its edges from
  nodes not taken and of those still to be relaxed, and no set of nodes without a
  first one loses a node. It gives `TypeCorrect` (the subtraction never goes
  below zero) and `FreezeAcceptsExactly`: when `ready` runs dry, the nodes left
  are such a set, or there are none.
- **BlobProof**, from positive sizes and alignments and `u32` no wider than
  `usize`. `BlobCorrect`: the verdict is that of `parse`, and a blob nobody
  changed is the one that was written. From `PaddedIsAligned`,
  `SectionsInOrder` and `AcceptedSection` (a section is accepted iff it ends
  inside) follow `TypeCorrect`, `ReadsStayInBounds` and `RoundTripCorrect`.
- **FrontendProof**, from `OrtThreads \subseteq Threads` and `NoThread` outside
  them. `CallsCorrect` is the inductive `CallInvariant`: a thread in a call has
  a token of its own, an entry is pending at most once and not yet executed, and
  the completions in the channel are verdicts of the driver. `OwnVerdict` alone
  says nothing of what is on its way; with these `EveryCallGetsItsOwn` follows,
  also for callers that bypass the mutex. `NobodyIsRobbed` and
  `ChannelIsBuiltOnce` assume that every thread goes through ONNX Runtime: then
  the holder of the mutex is alone in the call. The run build_race shows that
  this assumption is needed.
- **KernelProof**, from `MetaAssumption`, `AttrAssumption`, `RequestAssumption`,
  `TileAssumption` and `CallAssumption` (widths are numbers, a product of two
  `u32` fits into a `usize`, descriptors and attributes have the types of their
  structures and hold as many tensors as they count), but with any operations,
  shapes, strides, attributes, addresses and requests. First the views: an
  element of a view that passed `checked_meta` lies in its buffer
  (`CoordinatesInBounds`, `LogicalAddrInBounds`), for every rank. The products
  and sums per axis are recursive functions on `0 .. n`, hence an induction of their
  own: the library's takes an operator and cannot be used, so the module proves from the
  smallest element of a set of numbers that a set closed under successor contains every
  number up to `n`, and that a recursive definition on `0 .. n` has the function it
  describes. Then the coordinates stay below the extents, an offset is at most the
  `Reach` that `checked_meta` compares with the length, and the dense order is a
  prefix of the buffer. Then the calls. The invariant is `IInv`: a call is `Idle`, `Writing` (accepted,
  the outputs below `next` stored) or `Finished`, and whatever is in `mem` lies in an
  output of the call and is computed from elements of its inputs (`StoredInside`, of
  `Extent` and `Sound`). The properties alone are not
  inductive: they say nothing of how `mem` came about. It gives
  `FailsWithoutWriting` (needs that `LengthOK` cannot fail after the checks, that is,
  that every kernel computes as many elements as its output has),
  `StoresStayInside` (from `LogicalAddrInBounds`, and for MAT_MUL and CONV2D from
  `region_fits` and `validate_lengths`), `InputsAreKept` (from `StoredInside` and
  `NoAlias`), `TypeCorrect`, `RequestsFit`, and `AllocatedTensorsFit` for the tensors
  of the manager. `LoadsStayInside` rests on one lemma per kernel, from `CopyLoads` to
  `ConvLoads`: the checks of the kernel keep every index it computes inside the view
  it is for. They share `RowMajorBound` (coordinates below the extents give a
  linear index below the product, axis by axis), `RowAtInside` (a row along an
  axis stays in its tensor) and `InOrderMembers` (a loop over the members of a set).
  CONCAT needs that its blocks fill the axis (`BlockOf`), TOP_K that the order of the
  numbers gives each place of a row exactly one rank (`Ranks`, so that ranks below
  `k` are places of it), MAT_MUL that the padded cells of a tile reach no product
  (`PackedMembers`, `DotMembers`), CONV2D that the position of a patch, taken apart into
  channel and tap, names a pixel of the image or the padding (`PatchInside`).
  `BothTargetsAgree` shows that the A100's way of computing a product changes none:
  the members of its padded row that reach the product are those of the CPU's loop
  in the same order (`PaddingIsLeftOut`: the kept numbers of a row of tiles are the
  first `k`), the packed cell of member `d` is the cell of the CPU (`PackedCell`,
  `DotAgrees`), and position `t` of a patch, taken apart, is the tap the CPU's nested
  loops visit at step `t` (`RowCell`). A cell of the output, at its place in its group, is the
  row and the column of the product that the A100 stores there, and its depth is the whole
  patch, as long as the two sizes survive the cast (`ConvProductAgrees`); then the terms
  differ only in where the bias stands (`ConvTermAgrees`).
- **KernelReferenceProof**, from the same assumptions.
  `RightElementsMove` compares the data movement kernels with the coordinates of
  KernelReference. Its common part says that the kernels' linear index of a cell is
  its number in row-major order (`CellsBeforeIs`), that both ways of turning one into
  the other are inverse (`ThereAndBack`, `BackAndThere`), and that `LogicalAddr` is the
  address the strides give (`CellOfIndex`, `IndexOfCell`). Then one lemma per kernel,
  from `CopyMoves` to `ConcatMoves`, shows that the cell it takes is a source of the
  output cell and the only one: TRANSPOSE that its permutation is invertible, GATHER that
  the row of the index tensor is the middle of the output cell, TILE that only one cell
  is a whole number of copies away, RESIZE that rounding, flooring and clamping choose
  the nearest, lower or upper cell (`ResizedFromIs`), CONCAT that the bytes of a block
  are the cells of one input (`SplitAtAxis`, `BlockCell`, `OneBlock`). `WrittenOnce`,
  inductive together with `IInv`, carries the result to the memory at the end of the call.
  `ExtremesAreSelected` compares the two kernels that choose by number. MAX_POOL: the
  taps of a window that lie in the image are met in the order of their pixels
  (`WindowScans`: both loops run upwards and a dilation is never zero), so the first
  of the largest taps is the pixel that no other beats (`MaxPoolSelects`). TOP_K: the place
  of a row at an axis is a cell (`RowDigits`, `PlacedRow`), and the code's order of a row,
  by number and then by place, gives each rank below `k` to exactly one of them
  (`OneRanked`, `TopKSelects`). `WrittenTwice` is what memory holds when there may be two
  outputs: each one below `next` shows its stores, as long as the second does not lie
  on the first (`KeptApart`).
  `ComputedRight` has one lemma per kernel, from `SoftmaxComputes` to
  `ConvComputes`, on the terms memory receives. The row kernels step along an axis by
  index arithmetic, which is the cell with another coordinate there (`RowAtPlace`,
  `RowAtCell`), along the last axis a chunk (`LastRow`); a mask or an operand that broadcasts is
  the cell that faces the output's (`FacingInside`, `CellNumberIs`). ROPE: the
  dimensions below `n_dims` fall into disjoint pairs in both layouts (`RopePairs`).
  RESIZE: the clamped quotient is the cell below, its remainder the distance
  (`NeighboursAre`). REDUCE_MAX: counting through the reduced axes meets every cell
  with the kept coordinates once (`PointsCounted`, `KeptPlace`). The kernels
  that address the buffers need `Described`: the same offset for the unary ones, the
  affine address of an entry for MAT_MUL (`AtBatched`), and for CONV2D that position
  and tap are one to one (`TapPlace`, `TapOf`), that a position taken apart names the
  pixel under its tap (`PatchReads`), and that the pairs kept are those of the taps that
  meet a pixel (`TapsKept`, `PairedValues`). `LogicalComputes` and `DirectComputes`
  collect them, and `WrittenOnce` carries them to the end of the call.

Model-checked only: liveness (`EveryPushReturned`, `EveryGraphEnds`,
`EveryCallReturns`), which is out of reach of the prover. Every safety invariant and
action property of the passing runs is stated by a theorem.

## Not modelled

The driver (its source is elsewhere), `ov_channels` beyond a bounded queue,
RISC-V instructions, ABI layout, the build script, logging, and the test
programs. Memory order is modelled as interleaving; the acquire/release pairs
are those of the sequence and of `init_state`. `error.rs` is modelled as far as
completions go, `control.rs` (ioctl numbers) not at all.

Of the kernels: the value of a floating-point function and its rounding (in RESIZE the
positions are exact fractions, in the code `f32`), the order of NaNs, and
which of several errors is reported. Not among the calls of the run are output
strides that overlap themselves, buffers of a unary operation or of MAT_MUL
that overlap partly, and GLU of rank 0. The temporary buffers of a kernel are assumed
to be allocated, except that `vec!` panics beyond `isize::MAX` bytes for the im2col matrix;
`Tap` is exact: `input_index` could wrap only with 2^31 or more rows or columns. A NaN among the `vals` is not modelled.

Noted while modelling, and followed by the models:

- A successful call does not reset `error_flag` (`k3_kernel_backend/src/lib.rs:147`);
  the worker reads it only after a negative return value.
- COPY returns at once when both data pointers are equal, also when the layouts
  differ (`transform.rs:377`).
- The unary kernels ignore shapes and strides; MAT_MUL ignores them too and trusts its
  attribute, checked against the buffers. Both accept an output that overlaps an
  input.
- `Conv2dGeom::patch_size` and `spatial` multiply 32-bit fields unchecked
  (`conv2d.rs:111`). Where a product wraps, the im2col matrix is shorter than the loop that
  fills it, and the index at `conv2d.rs:287` panics in a release build too
  (`ConvPanics`); a debug build panics at the product. Nothing is stored before. The run has
  a patch that wraps to zero, and im2col matrices of the largest size and just beyond.
- `compact_matmul_attr` casts the sizes of the patch and of the output to `u32`
  (`conv2d.rs:339`). Beyond 32 bits the product on the A100 is too shallow, or has rows
  too short and stops before the end of its group, whose remaining cells `add_bias` still
  goes over. The values are wrong there; no access leaves its buffer. The
  run has one call of each kind, with 260 cells and 272 taps in an 8-bit `u32`.
- On the A100 the product of a convolution is rounded to FP16 before the bias is added and
  rounded again; on the CPU the sum starts from the bias. A product of 2049 and a
  bias of 1 give 2048 and 2050, where the comment at `conv2d.rs:389` asks for equal results
  (its test has no bias). For a tap in the padding the A100
  multiplies the weight by zero, the CPU skips it: they differ for a weight that is not finite.
- The tensor manager allocates tensors with any layout but GGML_QUANT; `checked_meta` takes
  DENSE and STRIDED only, so a BLOCKED one reaches no kernel (`AllocatedTensorsFit`).
- RESIZE of an input without elements to an output with some: the nearest mode fails
  in `gather_bytes` (`rvv.rs:144`), the linear mode indexes the empty input and
  panics (`transform.rs:942`; `Panic` of KernelBackend). `k3_run_kernel` is
  `extern "C"`, so the process ends and the node never completes. A debug build panics
  in both modes, at `ih - 1`. The run has one call of each mode.
- A binary operation that broadcasts an empty operand to an output with elements
  is refused only when its first element is computed, by
  `offset_for_coordinates` (`call.rs:274`); nothing is stored by then.
- The mask of SOFTMAX is aligned with the input at the first axis, the operands of the
  binary kernels at the last; `SoftmaxAttr::HAS_MASK` is never read.
- A pooling window that lies in the padding gives minus infinity and index 0,
  which ceiling mode can produce.
- The entry accepts F32 tensors, which every kernel refuses.
- A DENSE view must have its row-major stride on every axis of more than one cell.
- The tensor manager panics when it is asked to borrow or allocate a tensor with the layout
  GGML_QUANT: the constructor asserts (`desc.rs:198`).

## Plan

1. *Done*: the ring, the slot and the worker, resolution, the user side.
2. *Done*: GraphManager, freezing, the blob and its parser.
3. *Done*: request validation, tensor manager, descriptors, dispatch, call
   metadata and all kernels, with the bounds proved.
4. *Done*: proofs of the ring, the slot with its refinement, resolution, freezing,
   the blob, the user side, the loads and stores of every kernel, the agreement
   of the two targets, and all kernels against KernelReference.
5. A composition of Frontend, Scheduler and a driver, if the driver's source
   becomes available.
