----------------------------- MODULE Scheduler ------------------------------
(***************************************************************************)
(* One SchedulerSlot of src/k3_aiScheduler/src/scheduler.rs, the threads   *)
(* that call run_graph on its core, and the worker of woker.rs.  The slots *)
(* of different cores share nothing, so one slot is the whole scheduler; a *)
(* core id beyond the slots is refused before any state changes.           *)
(*                                                                         *)
(* The ready queue is taken at the level of ReadyQueue, which the ring     *)
(* implements (TaskQueue!ImplementsReadyQueue).  A graph is a chain of     *)
(* NodeCount nodes, already ordered by TaskLink::resolve; each node has    *)
(* one kernel alias of a user tensor, created by the driver before         *)
(* run_graph.  A kernel call or an unmap succeeds or fails freely.         *)
(***************************************************************************)
EXTENDS Integers, Sequences

CONSTANTS
  Capacity,         \* SCHEDULER_QUEUE_CAPACITY
  ChannelCapacity,  \* room of the completion channel
  Submitters,       \* threads that call run_graph
  Graphs,           \* graphs they submit
  NodeCount,        \* nodes of a graph
  Worker,           \* the resident worker of the core
  NoGraph           \* no graph in hand

ASSUME CapacityAssumption == Capacity \in Nat \ {0}
ASSUME ChannelAssumption == ChannelCapacity \in Nat
ASSUME NodeAssumption == NodeCount \in Nat
ASSUME GraphAssumption == NoGraph \notin Graphs /\ NoGraph \notin Submitters

VARIABLES
  initState,   \* SchedulerSlot::init_state
  scheduler,   \* SchedulerSlot::scheduler: who built it, or NoGraph
  spc,         \* where each submitter is in run_graph
  graph,       \* the task each submitter holds
  pos,         \* the queue position each submitter has claimed
  todo,        \* graphs not submitted yet
  refused,     \* graphs whose run_graph returned an error
  order, published, head, freed, hand,   \* the ready queue
  wpc,         \* where the worker is
  unit,        \* the AINodeUnit the worker executes
  nextNode,    \* next node of the node loop, then of the release loop
  failed,      \* first_failed_node_id, 0 while there is none
  busy,        \* worker_busy and worker_token, written together
  alias,       \* kernel alias of each node of each graph
  channel,     \* completions in the channel
  received,    \* completions the process has received
  dropped,     \* how many completions found the channel full
  outcome      \* history: what k3_run_kernel returned for each node run

queueVars == <<order, published, head, freed, hand>>
slotVars == <<initState, scheduler>>
submitterVars == <<spc, graph, pos, todo, refused>>
runVars == <<unit, nextNode, failed, busy, outcome>>
channelVars == <<channel, received, dropped>>
workerVars == <<wpc, runVars, alias, channelVars>>
vars == <<slotVars, submitterVars, queueVars, workerVars>>

Nodes == 1 .. NodeCount

Queue == INSTANCE ReadyQueue WITH
           Tasks <- Graphs, Consumers <- {Worker}, NoTask <- NoGraph

\* AiCompletion: status is 0 iff no node failed.
Completions == [graph : Graphs, failed : 0 .. NodeCount]

-----------------------------------------------------------------------------

Init ==
  /\ initState = "uninit"
  /\ scheduler = NoGraph
  /\ spc = [s \in Submitters |-> "idle"]
  /\ graph = [s \in Submitters |-> NoGraph]
  /\ pos = [s \in Submitters |-> 0]
  /\ todo = Graphs
  /\ refused = {}
  /\ Queue!Init
  /\ wpc = "off"
  /\ unit = NoGraph
  /\ nextNode = 1
  /\ failed = 0
  /\ busy = NoGraph
  /\ alias = [g \in Graphs |-> [n \in Nodes |-> "none"]]
  /\ channel = <<>>
  /\ received = <<>>
  /\ dropped = 0
  /\ outcome = [g \in Graphs |-> <<>>]

SubmitterGoes(s, label) == spc' = [spc EXCEPT ![s] = label]

-----------------------------------------------------------------------------
(* run_graph and get_or_init_scheduler.                                    *)

\* The driver has mapped the tensors of the graph and calls run_graph.
EnterRunGraph(s) ==
  /\ spc[s] = "idle"
  /\ \E g \in todo :
       /\ graph' = [graph EXCEPT ![s] = g]
       /\ todo' = todo \ {g}
       /\ alias' = [alias EXCEPT ![g] = [n \in Nodes |-> "live"]]
  /\ SubmitterGoes(s, "init")
  /\ UNCHANGED <<slotVars, pos, refused, queueVars, wpc, runVars, channelVars>>

\* Mutant: the state is loaded and stored, not compared and exchanged.
WinInitWithoutExchange(s) ==
  /\ spc[s] = "init"
  /\ initState # "ready"
  /\ initState' = "initializing"
  /\ SubmitterGoes(s, "build")
  /\ UNCHANGED <<scheduler, graph, pos, todo, refused, queueVars, workerVars>>

\* Mutant: READY is stored before the scheduler is.
WinInitReadyFirst(s) ==
  /\ spc[s] = "init"
  /\ initState = "uninit"
  /\ initState' = "ready"
  /\ SubmitterGoes(s, "build")
  /\ UNCHANGED <<scheduler, graph, pos, todo, refused, queueVars, workerVars>>

WinInit(s) ==
  /\ spc[s] = "init"
  /\ initState = "uninit"
  /\ initState' = "initializing"
  /\ SubmitterGoes(s, "build")
  /\ UNCHANGED <<scheduler, graph, pos, todo, refused, queueVars, workerVars>>

LoseInit(s) ==
  /\ spc[s] = "init"
  /\ initState # "uninit"
  /\ SubmitterGoes(s, "await")
  /\ UNCHANGED <<slotVars, graph, pos, todo, refused, queueVars, workerVars>>

\* The cell is written: a new scheduler, with an empty queue of its own.
BuildScheduler(s) ==
  /\ spc[s] = "build"
  /\ scheduler' = s
  /\ order' = <<>> /\ published' = {} /\ head' = 0 /\ freed' = {}
  /\ SubmitterGoes(s, "ready")
  /\ UNCHANGED <<initState, graph, pos, todo, refused, hand, workerVars>>

PublishReady(s) ==
  /\ spc[s] = "ready"
  /\ initState' = "ready"
  /\ SubmitterGoes(s, "spawn")
  /\ UNCHANGED <<scheduler, graph, pos, todo, refused, queueVars, workerVars>>

SpawnWorker(s) ==
  /\ spc[s] = "spawn"
  /\ wpc' = "start"
  /\ SubmitterGoes(s, "await")
  /\ UNCHANGED <<slotVars, graph, pos, todo, refused, queueVars, runVars, alias, channelVars>>

\* scheduler_after_ready: spin while INITIALIZING; otherwise go on with the
\* scheduler, or fail when there is none.
SlotReady == initState = "ready" /\ scheduler # NoGraph

AwaitReady(s) ==
  /\ spc[s] = "await"
  /\ initState # "initializing"
  /\ SubmitterGoes(s, IF SlotReady THEN "claim" ELSE "idle")
  /\ graph' = [graph EXCEPT ![s] = IF SlotReady THEN @ ELSE NoGraph]
  /\ refused' = refused \cup (IF SlotReady THEN {} ELSE {graph[s]})
  /\ UNCHANGED <<slotVars, pos, todo, queueVars, workerVars>>

\* try_push wins a position; while the queue is full the submitter spins.
ClaimPosition(s) ==
  /\ spc[s] = "claim"
  /\ Queue!Claim(graph[s])
  /\ pos' = [pos EXCEPT ![s] = Len(order)]
  /\ SubmitterGoes(s, "publish")
  /\ UNCHANGED <<slotVars, graph, todo, refused, workerVars>>

\* Mutant: run_graph returns without notify_one.
PublishWithoutNotify(s) ==
  /\ spc[s] = "publish"
  /\ Queue!Publish(pos[s])
  /\ graph' = [graph EXCEPT ![s] = NoGraph]
  /\ SubmitterGoes(s, "idle")
  /\ UNCHANGED <<slotVars, pos, todo, refused, workerVars>>

PublishTask(s) ==
  /\ spc[s] = "publish"
  /\ Queue!Publish(pos[s])
  /\ graph' = [graph EXCEPT ![s] = NoGraph]
  /\ SubmitterGoes(s, "notify")
  /\ UNCHANGED <<slotVars, pos, todo, refused, workerVars>>

\* notify_one: a sleeping worker evaluates its condition again.
NotifyWorker(s) ==
  /\ spc[s] = "notify"
  /\ wpc' = IF wpc = "asleep" THEN "wait" ELSE wpc
  /\ SubmitterGoes(s, "idle")
  /\ UNCHANGED <<slotVars, graph, pos, todo, refused, queueVars, runVars, alias, channelVars>>

-----------------------------------------------------------------------------
(* The worker.                                                             *)

\* The worker looks its scheduler up; it returns for good when there is none.
StartWorker ==
  /\ wpc = "start"
  /\ initState # "initializing"
  /\ wpc' = IF SlotReady THEN "take" ELSE "stopped"
  /\ UNCHANGED <<slotVars, submitterVars, queueVars, runVars, alias, channelVars>>

TakeTask ==
  /\ wpc = "take"
  /\ Queue!Take(Worker)
  /\ wpc' = "free"
  /\ UNCHANGED <<slotVars, submitterVars, runVars, alias, channelVars>>

\* try_pop releases the slot and returns the task.
FreeSlot ==
  /\ wpc = "free"
  /\ unit' = hand[Worker]
  /\ Queue!Free(Worker, head - 1)
  /\ wpc' = "begin"
  /\ UNCHANGED <<slotVars, submitterVars, nextNode, failed, busy, outcome, alias, channelVars>>

FindNothing ==
  /\ wpc = "take"
  /\ head \notin published
  /\ wpc' = "wait"
  /\ UNCHANGED <<slotVars, submitterVars, queueVars, runVars, alias, channelVars>>

\* wait_until checks the approximate length and goes to sleep in one step.
SeeWork ==
  /\ wpc = "wait"
  /\ Len(order) # head
  /\ wpc' = "take"
  /\ UNCHANGED <<slotVars, submitterVars, queueVars, runVars, alias, channelVars>>

\* Mutant: the worker sleeps on what try_pop said, as with wait().
FallAsleepUnchecked ==
  /\ wpc = "wait"
  /\ wpc' = "asleep"
  /\ UNCHANGED <<slotVars, submitterVars, queueVars, runVars, alias, channelVars>>

FallAsleep ==
  /\ wpc = "wait"
  /\ Len(order) = head
  /\ wpc' = "asleep"
  /\ UNCHANGED <<slotVars, submitterVars, queueVars, runVars, alias, channelVars>>

BeginGraph ==
  /\ wpc = "begin"
  /\ busy' = unit
  /\ nextNode' = 1
  /\ failed' = 0
  /\ wpc' = "run"
  /\ UNCHANGED <<slotVars, submitterVars, queueVars, unit, outcome, alias, channelVars>>

\* Mutant: the node loop does not stop at the first failure, and the last
\* failure is the one remembered.
RunNodeToTheEnd ==
  /\ wpc = "run"
  /\ nextNode \in Nodes
  /\ \E ok \in BOOLEAN :
       /\ outcome' = [outcome EXCEPT ![unit] = Append(@, ok)]
       /\ failed' = IF ok THEN failed ELSE nextNode
  /\ nextNode' = nextNode + 1
  /\ UNCHANGED <<slotVars, submitterVars, queueVars, wpc, unit, busy, alias, channelVars>>

RunNode ==
  /\ wpc = "run"
  /\ nextNode \in Nodes
  /\ failed = 0
  /\ \E ok \in BOOLEAN :
       /\ outcome' = [outcome EXCEPT ![unit] = Append(@, ok)]
       /\ failed' = IF ok THEN 0 ELSE nextNode
  /\ nextNode' = nextNode + 1
  /\ UNCHANGED <<slotVars, submitterVars, queueVars, wpc, unit, busy, alias, channelVars>>

NodesDone == wpc = "run" /\ (nextNode \notin Nodes \/ failed # 0)

\* Mutant: a failed graph is reported without releasing its aliases.
EndNodeLoopFailedKeepsAliases ==
  /\ NodesDone
  /\ wpc' = IF failed = 0 THEN "release" ELSE "send"
  /\ nextNode' = 1
  /\ UNCHANGED <<slotVars, submitterVars, queueVars, unit, failed, busy, outcome, alias,
                 channelVars>>

EndNodeLoop ==
  /\ NodesDone
  /\ wpc' = "release"
  /\ nextNode' = 1
  /\ UNCHANGED <<slotVars, submitterVars, queueVars, unit, failed, busy, outcome, alias,
                 channelVars>>

\* release_tensor_mappings goes on when an unmap fails.
ReleaseAlias ==
  /\ wpc = "release"
  /\ nextNode \in Nodes
  /\ \E end \in {"gone", "stuck"} : alias' = [alias EXCEPT ![unit][nextNode] = end]
  /\ nextNode' = nextNode + 1
  /\ UNCHANGED <<slotVars, submitterVars, queueVars, wpc, unit, failed, busy, outcome,
                 channelVars>>

EndRelease ==
  /\ wpc = "release"
  /\ nextNode \notin Nodes
  /\ wpc' = "send"
  /\ UNCHANGED <<slotVars, submitterVars, queueVars, runVars, alias, channelVars>>

Completion == [graph |-> unit, failed |-> failed]
ChannelHasRoom == Len(channel) < ChannelCapacity

\* Mutant: the completion is appended whatever the room.
SendBeyondRoom ==
  /\ wpc = "send"
  /\ channel' = Append(channel, Completion)
  /\ wpc' = "end"
  /\ UNCHANGED <<slotVars, submitterVars, queueVars, runVars, alias, received, dropped>>

SendCompletion ==
  /\ wpc = "send"
  /\ ChannelHasRoom
  /\ channel' = Append(channel, Completion)
  /\ wpc' = "end"
  /\ UNCHANGED <<slotVars, submitterVars, queueVars, runVars, alias, received, dropped>>

\* try_send fails: the error is logged and the worker goes on.
DropCompletion ==
  /\ wpc = "send"
  /\ ~ChannelHasRoom
  /\ dropped' = dropped + 1
  /\ wpc' = "end"
  /\ UNCHANGED <<slotVars, submitterVars, queueVars, runVars, alias, channel, received>>

EndGraph ==
  /\ wpc = "end"
  /\ busy' = NoGraph
  /\ unit' = NoGraph
  /\ wpc' = "take"
  /\ UNCHANGED <<slotVars, submitterVars, queueVars, nextNode, failed, outcome, alias,
                 channelVars>>

\* The process takes the oldest completion off the channel.
Receive ==
  /\ channel # <<>>
  /\ received' = Append(received, Head(channel))
  /\ channel' = Tail(channel)
  /\ UNCHANGED <<slotVars, submitterVars, queueVars, wpc, runVars, alias, dropped>>

-----------------------------------------------------------------------------

\* What a submitter that has entered run_graph does next.
SubmitterStep(s) ==
  \/ WinInit(s)
  \/ LoseInit(s)
  \/ BuildScheduler(s)
  \/ PublishReady(s)
  \/ SpawnWorker(s)
  \/ AwaitReady(s)
  \/ ClaimPosition(s)
  \/ PublishTask(s)
  \/ NotifyWorker(s)

WorkerStep ==
  \/ StartWorker
  \/ TakeTask
  \/ FreeSlot
  \/ FindNothing
  \/ SeeWork
  \/ FallAsleep
  \/ BeginGraph
  \/ RunNode
  \/ EndNodeLoop
  \/ ReleaseAlias
  \/ EndRelease
  \/ SendCompletion
  \/ DropCompletion
  \/ EndGraph

Next ==
  \/ \E s \in Submitters : EnterRunGraph(s) \/ SubmitterStep(s)
  \/ WorkerStep
  \/ Receive

Spec == Init /\ [][Next]_vars

\* Threads inside run_graph and the worker keep running; a submitter that
\* spins on a full queue wins a position when there always is room again
\* (TaskQueue!EveryPushReturned).  The process polls its channel.
Fairness ==
  /\ \A s \in Submitters : WF_vars(SubmitterStep(s)) /\ SF_vars(ClaimPosition(s))
  /\ WF_vars(WorkerStep)
  /\ WF_vars(Receive)

FairSpec == Spec /\ Fairness

-----------------------------------------------------------------------------
(* Properties.                                                             *)

SubmitterLabels ==
  {"idle", "init", "build", "ready", "spawn", "await", "claim", "publish", "notify"}

WorkerLabels ==
  {"off", "start", "stopped", "take", "free", "wait", "asleep", "begin", "run",
   "release", "send", "end"}

\* The state of the slot, the queue, the worker and the channel, which never
\* holds more than its room.
TypeOK ==
  /\ initState \in {"uninit", "initializing", "ready"}
  /\ scheduler \in Submitters \cup {NoGraph}
  /\ spc \in [Submitters -> SubmitterLabels]
  /\ graph \in [Submitters -> Graphs \cup {NoGraph}]
  /\ pos \in [Submitters -> Nat]
  /\ todo \subseteq Graphs
  /\ refused \subseteq Graphs
  /\ order \in Seq(Graphs)
  /\ published \subseteq 0 .. Len(order) - 1
  /\ head \in 0 .. Len(order)
  /\ freed \subseteq 0 .. head - 1
  /\ hand \in [{Worker} -> Graphs \cup {NoGraph}]
  /\ wpc \in WorkerLabels
  /\ unit \in Graphs \cup {NoGraph}
  /\ nextNode \in 1 .. NodeCount + 1
  /\ failed \in 0 .. NodeCount
  /\ busy \in Graphs \cup {NoGraph}
  /\ alias \in [Graphs -> [Nodes -> {"none", "live", "gone", "stuck"}]]
  /\ channel \in Seq(Completions)
  /\ Len(channel) <= ChannelCapacity
  /\ received \in Seq(Completions)
  /\ dropped \in Nat
  /\ outcome \in [Graphs -> Seq(BOOLEAN)]

\* "READY 后不再替换或释放" (scheduler.rs:333): once a scheduler is in the
\* slot it stays, with everything in its queue, although submitters race to
\* create it; and its worker is started only once.
SchedulerKept ==
  [][ /\ scheduler # NoGraph => scheduler' = scheduler
      /\ wpc' = "start" => wpc \in {"off", "start"} ]_vars

\* No call of run_graph fails, and no worker gives up, because it met the
\* slot in the middle of its initialisation.
NobodyTurnedAway == refused = {} /\ wpc # "stopped"

\* "避免生产者入队后 worker 在等待前错过唤醒" (lib.rs:25-26): while the worker
\* sleeps on a queue that is not empty, a submitter still has to notify it.
NoLostWakeup ==
  wpc = "asleep" /\ Len(order) # head =>
    \E s \in Submitters : spc[s] \in {"publish", "notify"}

\* Every node runs with all aliases of its graph in place, and a process
\* that can see the completion has no alias left that an unmap call could
\* have removed: it may reuse or free the buffers (woker.rs:176-178).
AliasLifetime ==
  /\ wpc = "run" => \A n \in Nodes : alias[unit][n] = "live"
  /\ \A log \in {channel, received} : \A i \in DOMAIN log : \A n \in Nodes :
       alias[log[i].graph][n] \in {"gone", "stuck"}

\* How the nodes of a graph ended: the first one that failed, or 0.
FirstFailure(o) ==
  IF \E n \in DOMAIN o : ~o[n]
  THEN CHOOSE n \in DOMAIN o : ~o[n] /\ \A m \in 1 .. n - 1 : o[m]
  ELSE 0

\* The positions whose node loop has ended, and whose completion was tried.
Executed == IF wpc \in {"free", "begin", "run"} THEN head - 1 ELSE head
Reported == IF wpc \in {"free", "begin", "run", "release", "send"} THEN head - 1 ELSE head

Service == INSTANCE GraphService WITH
             line <- order,
             results <- [i \in 1 .. Executed |-> FirstFailure(outcome[order[i]])],
             reported <- Reported,
             told <- received \o channel

\* The slot executes graphs one at a time in queue order and reports each
\* result, with the first node that failed, once.
ImplementsGraphService == Service!Spec

\* Every graph somebody submits comes to its end: its result is reported or
\* dropped, and the submitter has returned.
EveryGraphEnds ==
  \A g \in Graphs :
    g \notin todo ~> /\ \E i \in 1 .. Reported : order[i] = g
                     /\ \A s \in Submitters : graph[s] # g

\* "graph 完成后通过 ovchannel 回包" (kd_kring.rs:106): every graph that is
\* executed is answered.  The answer is lost when the channel is full.
EveryGraphAnswered ==
  \A g \in Graphs :
    unit = g ~> \E i \in DOMAIN received : received[i].graph = g

\* "completion 发生后才能释放本次 graph bind 住的 tensor ref"
\* (kd_kring.rs:109-110): no alias is removed before the graph's completion
\* is sent.  The worker removes them first.
AliasKeptUntilCompletion ==
  [][ \A g \in Graphs : alias'[g] # alias[g] /\ alias[g] # [n \in Nodes |-> "none"] =>
        \E log \in {channel, received} : \E i \in DOMAIN log : log[i].graph = g ]_vars
=============================================================================
