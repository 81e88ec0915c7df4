--------------------------- MODULE SchedulerProof ---------------------------
(***************************************************************************)
(* Proofs about Scheduler, for any number of submitters, graphs, nodes and *)
(* any capacities: the invariants of the slot's initialisation, that no    *)
(* wakeup is lost, where every graph is and what happened to its aliases,  *)
(* and that the slot implements GraphService.                              *)
(***************************************************************************)
EXTENDS Scheduler, SequenceTheorems, TLAPS

-----------------------------------------------------------------------------
(* Sequences without repetition. *)

Distinct(s) == \A i, j \in DOMAIN s : s[i] = s[j] => i = j

Within(s, v) == \E i \in DOMAIN s : s[i] = v

\* An element is added that was not there.
LEMMA WithinAppend ==
  ASSUME NEW S, NEW s \in Seq(S), NEW e \in S
  PROVE  /\ \A v : Within(Append(s, e), v) <=> Within(s, v) \/ v = e
         /\ Distinct(s) /\ ~Within(s, e) => Distinct(Append(s, e))
<1>1. /\ DOMAIN s = 1 .. Len(s) /\ DOMAIN Append(s, e) = 1 .. Len(s) + 1 /\ Len(s) \in Nat
      /\ Append(s, e)[Len(s) + 1] = e
      /\ \A i \in 1 .. Len(s) : Append(s, e)[i] = s[i]
  OBVIOUS
<1>2. \A i : i \in 1 .. Len(s) + 1 <=> i \in 1 .. Len(s) \/ i = Len(s) + 1
  BY <1>1
<1>3. \A v : Within(Append(s, e), v) <=> Within(s, v) \/ v = e
  BY <1>1, <1>2 DEF Within
<1>4. Distinct(s) /\ ~Within(s, e) => Distinct(Append(s, e))
  BY <1>1, <1>2 DEF Within, Distinct
<1> QED BY <1>3, <1>4

\* Moving the first element of one sequence to the end of the other keeps the
\* two put together, and so does appending before or after.
LEMMA PopMoves ==
  ASSUME NEW S, NEW s \in Seq(S), NEW t \in Seq(S), t # <<>>
  PROVE  Append(s, Head(t)) \o Tail(t) = s \o t
<1>1. /\ Append(s, Head(t)) \o Tail(t) \in Seq(S) /\ s \o t \in Seq(S)
      /\ Len(Append(s, Head(t)) \o Tail(t)) = Len(s \o t)
  OBVIOUS
<1>2. \A i \in 1 .. Len(s \o t) : (Append(s, Head(t)) \o Tail(t))[i] = (s \o t)[i]
  OBVIOUS
<1> QED BY <1>1, <1>2, SeqEqual

\* Appending to the second of two sequences appends to both in a row.
LEMMA AppendAfter ==
  ASSUME NEW S, NEW s \in Seq(S), NEW t \in Seq(S), NEW e \in S
  PROVE  s \o Append(t, e) = Append(s \o t, e)
OBVIOUS

-----------------------------------------------------------------------------

\* Who may be where while the slot is being initialised: one submitter at a
\* time is between its compare-exchange and the spawn, the scheduler is in
\* the cell from the build on, nobody uses the slot before READY, and the
\* worker exists only after that.
Initialiser(s) == spc[s] \in {"build", "ready", "spawn"}

SlotInvariant ==
  /\ initState = "uninit" =>
       /\ scheduler = NoGraph
       /\ \A s \in Submitters : spc[s] \in {"idle", "init"}
  /\ initState # "ready" =>
       /\ \A s \in Submitters : spc[s] \in {"idle", "init", "build", "ready", "await"}
       /\ wpc = "off"
  /\ initState = "ready" =>
       /\ scheduler # NoGraph
       /\ \A s \in Submitters : spc[s] \notin {"build", "ready"}
  /\ \A s \in Submitters :
       /\ spc[s] = "build" => scheduler = NoGraph
       /\ spc[s] = "ready" => scheduler # NoGraph
       /\ spc[s] = "spawn" => wpc = "off"
  /\ \A s, t \in Submitters : Initialiser(s) /\ Initialiser(t) => s = t

\* Who holds a graph: a submitter from its entry to its publication, and the
\* worker from its take to the end.
HoldingInvariant ==
  /\ \A s \in Submitters : spc[s] \notin {"idle", "notify"} => graph[s] # NoGraph
  /\ wpc = "free" => hand[Worker] # NoGraph
  /\ wpc \in {"begin", "run", "release", "send", "end"} => unit # NoGraph

\* A graph whose aliases are in place and of which no node has run, and one
\* whose aliases are all removed or given up.
Fresh(a, o, g) == o[g] = <<>> /\ \A n \in Nodes : a[g][n] = "live"
Ended(a, g) == \A n \in Nodes : a[g][n] \in {"gone", "stuck"}

\* A submitter that has entered run_graph and not won a position yet.
Holding(s) == spc[s] \in {"init", "build", "ready", "spawn", "await", "claim"}

\* A graph is in one place: still to be submitted, in the hands of one
\* submitter, or at one position of the queue; and until the worker takes it
\* nothing has happened to it.
PlacesInvariant ==
  /\ \A g \in todo : /\ ~Within(order, g)
                     /\ outcome[g] = <<>>
                     /\ \A n \in Nodes : alias[g][n] = "none"
  /\ \A s \in Submitters : Holding(s) => /\ graph[s] \notin todo
                                         /\ ~Within(order, graph[s])
                                         /\ Fresh(alias, outcome, graph[s])
  /\ \A s, t \in Submitters : Holding(s) /\ Holding(t) /\ graph[s] = graph[t] => s = t
  /\ Distinct(order)
  /\ \A i \in 1 .. Len(order) : i > head => Fresh(alias, outcome, order[i])
  /\ initState # "ready" => order = <<>>

\* How far the worker is with the graph of the position it took last.
WorkInvariant ==
  /\ wpc = "free" => /\ head >= 1
                     /\ hand[Worker] = order[head]
                     /\ Fresh(alias, outcome, order[head])
  /\ wpc \in {"begin", "run", "release", "send", "end"} => head >= 1 /\ unit = order[head]
  /\ wpc = "begin" => Fresh(alias, outcome, unit)
  /\ wpc = "run" =>
       /\ \A n \in Nodes : alias[unit][n] = "live"
       /\ nextNode = Len(outcome[unit]) + 1
       /\ failed = 0 => \A n \in DOMAIN outcome[unit] : outcome[unit][n]
  /\ wpc \in {"run", "release", "send", "end"} => failed = FirstFailure(outcome[unit])
  /\ wpc = "release" =>
       \A n \in Nodes : n < nextNode => alias[unit][n] \in {"gone", "stuck"}
  /\ wpc \in {"send", "end"} => Ended(alias, unit)

\* Whoever can see a completion finds no alias of its graph.
LogInvariant ==
  /\ \A i \in 1 .. Len(channel) : Ended(alias, channel[i].graph)
  /\ \A i \in 1 .. Len(received) : Ended(alias, received[i].graph)

GraphInvariant == PlacesInvariant /\ WorkInvariant /\ LogInvariant

USE DEF slotVars, submitterVars, queueVars, runVars, channelVars, workerVars, vars

-----------------------------------------------------------------------------

LEMMA SlotInit == Init => SlotInvariant
BY GraphAssumption DEF Init, SlotInvariant, Initialiser

LEMMA HoldingInit == Init => HoldingInvariant
BY DEF Init, HoldingInvariant, Queue!Init

LEMMA TypeInit == Init => TypeOK
<1> SUFFICES ASSUME Init PROVE TypeOK
  OBVIOUS
<1> USE DEF Init, TypeOK, Queue!Init, Nodes, Completions, SubmitterLabels, WorkerLabels
<1>1. /\ order \in Seq(Graphs) /\ channel \in Seq(Completions) /\ received \in Seq(Completions)
      /\ outcome \in [Graphs -> Seq(BOOLEAN)]
  OBVIOUS
<1>2. Len(order) = 0 /\ Len(channel) = 0
  OBVIOUS
<1> QED BY <1>1, <1>2, NodeAssumption, ChannelAssumption

-----------------------------------------------------------------------------
(* Steps. *)

LEMMA ShiftedSequence ==
  ASSUME NEW S, NEW q \in Seq(S), q # <<>>
  PROVE  /\ Head(q) \in S
         /\ Tail(q) \in Seq(S)
         /\ Len(Tail(q)) = Len(q) - 1
OBVIOUS

LEMMA ExtendedSequence ==
  ASSUME NEW S, NEW q \in Seq(S), NEW e \in S
  PROVE  Append(q, e) \in Seq(S) /\ Len(Append(q, e)) = Len(q) + 1
OBVIOUS

LEMMA SlotStep ==
  ASSUME TypeOK, SlotInvariant, [Next]_vars
  PROVE  SlotInvariant'
<1> USE GraphAssumption DEF TypeOK, SlotInvariant, Initialiser, SubmitterLabels, WorkerLabels
<1>1. ASSUME NEW s \in Submitters, EnterRunGraph(s) PROVE SlotInvariant'
  BY <1>1 DEF EnterRunGraph, SubmitterGoes
<1>2. ASSUME NEW s \in Submitters, WinInit(s) PROVE SlotInvariant'
  BY <1>2 DEF WinInit, SubmitterGoes
<1>3. ASSUME NEW s \in Submitters, LoseInit(s) PROVE SlotInvariant'
  BY <1>3 DEF LoseInit, SubmitterGoes
<1>4. ASSUME NEW s \in Submitters, BuildScheduler(s) PROVE SlotInvariant'
  <2>1. /\ spc[s] = "build" /\ spc' = [spc EXCEPT ![s] = "ready"] /\ scheduler' = s
        /\ initState' = initState /\ wpc' = wpc
    BY <1>4 DEF BuildScheduler, SubmitterGoes
  <2>2. s # NoGraph
    OBVIOUS
  <2>3. spc \in [Submitters -> SubmitterLabels]
    OBVIOUS
  <2> QED BY ONLY <2>1, <2>2, <2>3, SlotInvariant, s \in Submitters DEF SlotInvariant, Initialiser
<1>5. ASSUME NEW s \in Submitters, PublishReady(s) PROVE SlotInvariant'
  BY <1>5 DEF PublishReady, SubmitterGoes
<1>6. ASSUME NEW s \in Submitters, SpawnWorker(s) PROVE SlotInvariant'
  BY <1>6 DEF SpawnWorker, SubmitterGoes
<1>7. ASSUME NEW s \in Submitters, AwaitReady(s) PROVE SlotInvariant'
  BY <1>7 DEF AwaitReady, SlotReady, SubmitterGoes
<1>8. ASSUME NEW s \in Submitters, ClaimPosition(s) PROVE SlotInvariant'
  BY <1>8 DEF ClaimPosition, Queue!Claim, Queue!HasRoom, Queue!tail, SubmitterGoes
<1>9. ASSUME NEW s \in Submitters, PublishTask(s) PROVE SlotInvariant'
  BY <1>9 DEF PublishTask, Queue!Publish, Queue!tail, SubmitterGoes
<1>10. ASSUME NEW s \in Submitters, NotifyWorker(s) PROVE SlotInvariant'
  BY <1>10 DEF NotifyWorker, SubmitterGoes
<1>11. CASE StartWorker
  BY <1>11 DEF StartWorker, SlotReady
<1>12. CASE TakeTask
  BY <1>12 DEF TakeTask, Queue!Take
<1>13. CASE FreeSlot
  BY <1>13 DEF FreeSlot, Queue!Free
<1>14. CASE FindNothing
  BY <1>14 DEF FindNothing
<1>15. CASE SeeWork
  BY <1>15 DEF SeeWork
<1>16. CASE FallAsleep
  BY <1>16 DEF FallAsleep
<1>17. CASE BeginGraph
  BY <1>17 DEF BeginGraph
<1>18. CASE RunNode
  BY <1>18 DEF RunNode
<1>19. CASE EndNodeLoop
  BY <1>19 DEF EndNodeLoop, NodesDone
<1>20. CASE ReleaseAlias
  BY <1>20 DEF ReleaseAlias
<1>21. CASE EndRelease
  BY <1>21 DEF EndRelease
<1>22. CASE SendCompletion
  BY <1>22 DEF SendCompletion, ChannelHasRoom, Completion
<1>23. CASE DropCompletion
  BY <1>23 DEF DropCompletion, ChannelHasRoom
<1>24. CASE EndGraph
  BY <1>24 DEF EndGraph
<1>25. CASE Receive
  BY <1>25 DEF Receive
<1>26. CASE UNCHANGED vars
  BY <1>26
<1> QED
  BY <1>1, <1>2, <1>3, <1>4, <1>5, <1>6, <1>7, <1>8, <1>9, <1>10, <1>11, <1>12, <1>13, <1>14, <1>15, <1>16, <1>17, <1>18, <1>19, <1>20, <1>21, <1>22, <1>23, <1>24, <1>25, <1>26 DEF Next, SubmitterStep, WorkerStep

LEMMA HoldingStep ==
  ASSUME TypeOK, HoldingInvariant, [Next]_vars
  PROVE  HoldingInvariant'
<1> USE GraphAssumption DEF TypeOK, HoldingInvariant, SubmitterLabels, WorkerLabels
<1>1. ASSUME NEW s \in Submitters, EnterRunGraph(s) PROVE HoldingInvariant'
  BY <1>1 DEF EnterRunGraph, SubmitterGoes
<1>2. ASSUME NEW s \in Submitters, WinInit(s) PROVE HoldingInvariant'
  BY <1>2 DEF WinInit, SubmitterGoes
<1>3. ASSUME NEW s \in Submitters, LoseInit(s) PROVE HoldingInvariant'
  BY <1>3 DEF LoseInit, SubmitterGoes
<1>4. ASSUME NEW s \in Submitters, BuildScheduler(s) PROVE HoldingInvariant'
  BY <1>4 DEF BuildScheduler, SubmitterGoes
<1>5. ASSUME NEW s \in Submitters, PublishReady(s) PROVE HoldingInvariant'
  BY <1>5 DEF PublishReady, SubmitterGoes
<1>6. ASSUME NEW s \in Submitters, SpawnWorker(s) PROVE HoldingInvariant'
  BY <1>6 DEF SpawnWorker, SubmitterGoes
<1>7. ASSUME NEW s \in Submitters, AwaitReady(s) PROVE HoldingInvariant'
  BY <1>7 DEF AwaitReady, SlotReady, SubmitterGoes
<1>8. ASSUME NEW s \in Submitters, ClaimPosition(s) PROVE HoldingInvariant'
  BY <1>8 DEF ClaimPosition, Queue!Claim, Queue!HasRoom, Queue!tail, SubmitterGoes
<1>9. ASSUME NEW s \in Submitters, PublishTask(s) PROVE HoldingInvariant'
  BY <1>9 DEF PublishTask, Queue!Publish, Queue!tail, SubmitterGoes
<1>10. ASSUME NEW s \in Submitters, NotifyWorker(s) PROVE HoldingInvariant'
  BY <1>10 DEF NotifyWorker, SubmitterGoes
<1>11. CASE StartWorker
  BY <1>11 DEF StartWorker, SlotReady
<1>12. CASE TakeTask
  BY <1>12 DEF TakeTask, Queue!Take
<1>13. CASE FreeSlot
  BY <1>13 DEF FreeSlot, Queue!Free
<1>14. CASE FindNothing
  BY <1>14 DEF FindNothing
<1>15. CASE SeeWork
  BY <1>15 DEF SeeWork
<1>16. CASE FallAsleep
  BY <1>16 DEF FallAsleep
<1>17. CASE BeginGraph
  BY <1>17 DEF BeginGraph
<1>18. CASE RunNode
  BY <1>18 DEF RunNode
<1>19. CASE EndNodeLoop
  BY <1>19 DEF EndNodeLoop, NodesDone
<1>20. CASE ReleaseAlias
  BY <1>20 DEF ReleaseAlias
<1>21. CASE EndRelease
  BY <1>21 DEF EndRelease
<1>22. CASE SendCompletion
  BY <1>22 DEF SendCompletion, ChannelHasRoom, Completion
<1>23. CASE DropCompletion
  BY <1>23 DEF DropCompletion, ChannelHasRoom
<1>24. CASE EndGraph
  BY <1>24 DEF EndGraph
<1>25. CASE Receive
  BY <1>25 DEF Receive
<1>26. CASE UNCHANGED vars
  BY <1>26
<1> QED
  BY <1>1, <1>2, <1>3, <1>4, <1>5, <1>6, <1>7, <1>8, <1>9, <1>10, <1>11, <1>12, <1>13, <1>14, <1>15, <1>16, <1>17, <1>18, <1>19, <1>20, <1>21, <1>22, <1>23, <1>24, <1>25, <1>26 DEF Next, SubmitterStep, WorkerStep

LEMMA TypeStep ==
  ASSUME TypeOK, HoldingInvariant, [Next]_vars
  PROVE  TypeOK'
<1> USE GraphAssumption, NodeAssumption, ChannelAssumption DEF TypeOK, HoldingInvariant, SubmitterLabels, WorkerLabels, Nodes, Completions
<1>1. ASSUME NEW s \in Submitters, EnterRunGraph(s) PROVE TypeOK'
  BY <1>1 DEF EnterRunGraph, SubmitterGoes
<1>2. ASSUME NEW s \in Submitters, WinInit(s) PROVE TypeOK'
  BY <1>2 DEF WinInit, SubmitterGoes
<1>3. ASSUME NEW s \in Submitters, LoseInit(s) PROVE TypeOK'
  BY <1>3 DEF LoseInit, SubmitterGoes
<1>4. ASSUME NEW s \in Submitters, BuildScheduler(s) PROVE TypeOK'
  BY <1>4 DEF BuildScheduler, SubmitterGoes
<1>5. ASSUME NEW s \in Submitters, PublishReady(s) PROVE TypeOK'
  BY <1>5 DEF PublishReady, SubmitterGoes
<1>6. ASSUME NEW s \in Submitters, SpawnWorker(s) PROVE TypeOK'
  BY <1>6 DEF SpawnWorker, SubmitterGoes
<1>7. ASSUME NEW s \in Submitters, AwaitReady(s) PROVE TypeOK'
  BY <1>7 DEF AwaitReady, SlotReady, SubmitterGoes
<1>8. ASSUME NEW s \in Submitters, ClaimPosition(s) PROVE TypeOK'
  <2>1. graph[s] \in Graphs /\ order' = Append(order, graph[s])
    BY <1>8 DEF ClaimPosition, Queue!Claim
  <2>2. order' \in Seq(Graphs) /\ Len(order') = Len(order) + 1
    BY <2>1
  <2>3. pos' \in [Submitters -> Nat] /\ spc' \in [Submitters -> SubmitterLabels]
    BY <1>8 DEF ClaimPosition, SubmitterGoes
  <2>4. UNCHANGED <<slotVars, graph, todo, refused, published, head, freed, hand, workerVars>>
    BY <1>8 DEF ClaimPosition, Queue!Claim
  <2>5. published' \subseteq 0 .. Len(order') - 1 /\ head' \in 0 .. Len(order')
    BY <2>2, <2>4
  <2> QED BY <2>2, <2>3, <2>4, <2>5
<1>9. ASSUME NEW s \in Submitters, PublishTask(s) PROVE TypeOK'
  BY <1>9 DEF PublishTask, Queue!Publish, Queue!tail, SubmitterGoes
<1>10. ASSUME NEW s \in Submitters, NotifyWorker(s) PROVE TypeOK'
  BY <1>10 DEF NotifyWorker, SubmitterGoes
<1>11. CASE StartWorker
  BY <1>11 DEF StartWorker, SlotReady
<1>12. CASE TakeTask
  <2>1. /\ head' = head + 1 /\ wpc' = "free" /\ head \in published
        /\ hand' = [hand EXCEPT ![Worker] = order[head + 1]]
        /\ UNCHANGED <<slotVars, submitterVars, order, published, freed, runVars, alias,
                       channelVars>>
    BY ONLY <1>12 DEF TakeTask, Queue!Take
  <2>2. head + 1 \in 1 .. Len(order) /\ head' \in 0 .. Len(order) /\ freed \subseteq 0 .. head' - 1
    BY <2>1
  <2>3. hand' \in [{Worker} -> Graphs \cup {NoGraph}]
    BY <2>1, <2>2
  <2> QED BY <2>1, <2>2, <2>3
<1>13. CASE FreeSlot
  BY <1>13 DEF FreeSlot, Queue!Free
<1>14. CASE FindNothing
  BY <1>14 DEF FindNothing
<1>15. CASE SeeWork
  BY <1>15 DEF SeeWork
<1>16. CASE FallAsleep
  BY <1>16 DEF FallAsleep
<1>17. CASE BeginGraph
  BY <1>17 DEF BeginGraph
<1>18. CASE RunNode
  BY <1>18 DEF RunNode
<1>19. CASE EndNodeLoop
  BY <1>19 DEF EndNodeLoop, NodesDone
<1>20. CASE ReleaseAlias
  <2>1. PICK end \in {"gone", "stuck"} : alias' = [alias EXCEPT ![unit][nextNode] = end]
    BY ONLY <1>20 DEF ReleaseAlias
  <2>2. /\ nextNode \in Nodes /\ nextNode' = nextNode + 1
        /\ UNCHANGED <<slotVars, submitterVars, queueVars, wpc, unit, failed, busy, outcome,
                       channelVars>>
    BY ONLY <1>20 DEF ReleaseAlias
  <2>3. alias' \in [Graphs -> [Nodes -> {"none", "live", "gone", "stuck"}]]
    <3>1. alias \in [Graphs -> [Nodes -> {"none", "live", "gone", "stuck"}]]
      OBVIOUS
    <3> QED BY ONLY <2>1, <3>1
  <2>4. nextNode' \in 1 .. NodeCount + 1
    BY <2>2
  <2> QED BY <2>2, <2>3, <2>4
<1>21. CASE EndRelease
  BY <1>21 DEF EndRelease
<1>22. CASE SendCompletion
  BY <1>22 DEF SendCompletion, ChannelHasRoom, Completion
<1>23. CASE DropCompletion
  BY <1>23 DEF DropCompletion, ChannelHasRoom
<1>24. CASE EndGraph
  BY <1>24 DEF EndGraph
<1>25. CASE Receive
  <2>1. channel # <<>> /\ channel \in Seq(Completions) /\ received \in Seq(Completions)
    BY <1>25 DEF Receive
  <2>2. /\ Head(channel) \in Completions
        /\ Tail(channel) \in Seq(Completions)
        /\ Len(Tail(channel)) = Len(channel) - 1
    BY ONLY <2>1, ShiftedSequence
  <2>3. /\ received' \in Seq(Completions)
        /\ channel' = Tail(channel)
    <3>1. received' = Append(received, Head(channel)) /\ channel' = Tail(channel)
      BY <1>25 DEF Receive
    <3> QED BY ONLY <2>1, <2>2, <3>1, ExtendedSequence
  <2>4. UNCHANGED <<slotVars, submitterVars, queueVars, wpc, runVars, alias, dropped>>
    BY <1>25 DEF Receive
  <2>5. Len(channel') <= ChannelCapacity /\ channel' \in Seq(Completions)
    <3>1. Len(channel) \in Nat /\ Len(channel) <= ChannelCapacity
      BY <2>1
    <3> QED BY ONLY <2>2, <2>3, <3>1, ChannelAssumption
  <2> HIDE DEF Completions
  <2> QED BY <2>3, <2>4, <2>5
<1>26. CASE UNCHANGED vars
  BY <1>26
<1> QED
  BY <1>1, <1>2, <1>3, <1>4, <1>5, <1>6, <1>7, <1>8, <1>9, <1>10, <1>11, <1>12, <1>13, <1>14, <1>15, <1>16, <1>17, <1>18, <1>19, <1>20, <1>21, <1>22, <1>23, <1>24, <1>25, <1>26 DEF Next, SubmitterStep, WorkerStep

LEMMA WakeupStep ==
  ASSUME TypeOK, SlotInvariant, NoLostWakeup, [Next]_vars
  PROVE  NoLostWakeup'
<1> USE DEF TypeOK, NoLostWakeup, SubmitterLabels
<1>1. ASSUME NEW s \in Submitters, EnterRunGraph(s) PROVE NoLostWakeup'
  BY <1>1 DEF EnterRunGraph, SubmitterGoes
<1>2. ASSUME NEW s \in Submitters, WinInit(s) PROVE NoLostWakeup'
  BY <1>2 DEF WinInit, SubmitterGoes
<1>3. ASSUME NEW s \in Submitters, LoseInit(s) PROVE NoLostWakeup'
  BY <1>3 DEF LoseInit, SubmitterGoes
<1>4. ASSUME NEW s \in Submitters, BuildScheduler(s) PROVE NoLostWakeup'
  BY <1>4 DEF BuildScheduler, SubmitterGoes
<1>5. ASSUME NEW s \in Submitters, PublishReady(s) PROVE NoLostWakeup'
  BY <1>5 DEF PublishReady, SubmitterGoes
<1>6. ASSUME NEW s \in Submitters, SpawnWorker(s) PROVE NoLostWakeup'
  BY <1>6 DEF SpawnWorker, SubmitterGoes
<1>7. ASSUME NEW s \in Submitters, AwaitReady(s) PROVE NoLostWakeup'
  BY <1>7 DEF AwaitReady, SlotReady, SubmitterGoes
<1>8. ASSUME NEW s \in Submitters, ClaimPosition(s) PROVE NoLostWakeup'
  BY <1>8 DEF ClaimPosition, Queue!Claim, Queue!HasRoom, Queue!tail, SubmitterGoes
<1>9. ASSUME NEW s \in Submitters, PublishTask(s) PROVE NoLostWakeup'
  BY <1>9 DEF PublishTask, Queue!Publish, Queue!tail, SubmitterGoes
<1>10. ASSUME NEW s \in Submitters, NotifyWorker(s) PROVE NoLostWakeup'
  BY <1>10 DEF NotifyWorker, SubmitterGoes
<1>11. CASE StartWorker
  BY <1>11 DEF StartWorker, SlotReady
<1>12. CASE TakeTask
  BY <1>12 DEF TakeTask, Queue!Take
<1>13. CASE FreeSlot
  BY <1>13 DEF FreeSlot, Queue!Free
<1>14. CASE FindNothing
  BY <1>14 DEF FindNothing
<1>15. CASE SeeWork
  BY <1>15 DEF SeeWork
<1>16. CASE FallAsleep
  BY <1>16 DEF FallAsleep
<1>17. CASE BeginGraph
  BY <1>17 DEF BeginGraph
<1>18. CASE RunNode
  BY <1>18 DEF RunNode
<1>19. CASE EndNodeLoop
  BY <1>19 DEF EndNodeLoop, NodesDone
<1>20. CASE ReleaseAlias
  BY <1>20 DEF ReleaseAlias
<1>21. CASE EndRelease
  BY <1>21 DEF EndRelease
<1>22. CASE SendCompletion
  BY <1>22 DEF SendCompletion, ChannelHasRoom, Completion
<1>23. CASE DropCompletion
  BY <1>23 DEF DropCompletion, ChannelHasRoom
<1>24. CASE EndGraph
  BY <1>24 DEF EndGraph
<1>25. CASE Receive
  BY <1>25 DEF Receive
<1>26. CASE UNCHANGED vars
  BY <1>26
<1> QED
  BY <1>1, <1>2, <1>3, <1>4, <1>5, <1>6, <1>7, <1>8, <1>9, <1>10, <1>11, <1>12, <1>13, <1>14, <1>15, <1>16, <1>17, <1>18, <1>19, <1>20, <1>21, <1>22, <1>23, <1>24, <1>25, <1>26 DEF Next, SubmitterStep, WorkerStep

-----------------------------------------------------------------------------
(* Where a graph is, and how far the worker is with it. *)

\* The graph of the position taken last is nowhere else.
LEMMA UnitElsewhere ==
  ASSUME TypeOK, PlacesInvariant, head \in 1 .. Len(order), unit = order[head]
  PROVE  /\ unit \notin todo
         /\ \A t \in Submitters : Holding(t) => graph[t] # unit
         /\ \A i \in 1 .. Len(order) : i > head => order[i] # unit
<1>1. DOMAIN order = 1 .. Len(order) /\ head \in Int
  BY DEF TypeOK
<1>2. Within(order, unit)
  BY <1>1 DEF Within
<1>3. \A i \in 1 .. Len(order) : order[i] = unit => i = head
  BY <1>1 DEF PlacesInvariant, Distinct
<1> QED BY <1>1, <1>2, <1>3 DEF PlacesInvariant

LEMMA HolderHasGraph ==
  ASSUME TypeOK, HoldingInvariant
  PROVE  \A t \in Submitters : Holding(t) => graph[t] \in Graphs
BY DEF TypeOK, HoldingInvariant, Holding

LEMMA LogsNameGraphs ==
  ASSUME TypeOK
  PROVE  /\ \A i \in 1 .. Len(channel) : channel[i].graph \in Graphs
         /\ \A i \in 1 .. Len(received) : received[i].graph \in Graphs
<1>1. \A q \in Seq(Completions) : \A i \in 1 .. Len(q) : q[i] \in Completions
  OBVIOUS
<1>2. \A c \in Completions : c.graph \in Graphs
  BY DEF Completions
<1> QED BY <1>1, <1>2 DEF TypeOK

\* One more node has run after nodes that all succeeded.
LEMMA FirstFailureGrows ==
  ASSUME NEW o \in Seq(BOOLEAN), NEW ok \in BOOLEAN, \A n \in DOMAIN o : o[n]
  PROVE  /\ FirstFailure(Append(o, ok)) = IF ok THEN 0 ELSE Len(o) + 1
         /\ ok => \A n \in DOMAIN Append(o, ok) : Append(o, ok)[n]
         /\ Len(Append(o, ok)) = Len(o) + 1
<1>1. PICK p : p = Append(o, ok)
  OBVIOUS
<1>2. /\ Len(p) = Len(o) + 1 /\ DOMAIN p = 1 .. Len(o) + 1 /\ Len(o) \in Nat
      /\ \A n \in 1 .. Len(o) : p[n] = o[n]
      /\ p[Len(o) + 1] = ok
  BY <1>1
<1>3. \A n \in 1 .. Len(o) : p[n]
  <2>1. DOMAIN o = 1 .. Len(o)
    OBVIOUS
  <2> QED BY <1>2, <2>1, Zenon
<1>4. CASE ok
  <2>1. \A n \in DOMAIN p : p[n]
    <3>1. \A n \in 1 .. Len(o) + 1 : n \in 1 .. Len(o) \/ n = Len(o) + 1
      BY <1>2
    <3>2. p[Len(o) + 1]
      BY <1>2, <1>4, Zenon
    <3> QED BY <1>2, <1>3, <3>1, <3>2, Zenon
  <2>2. FirstFailure(p) = 0
    BY <2>1, Zenon DEF FirstFailure
  <2> QED BY <1>1, <1>2, <1>4, <2>1, <2>2
<1>5. CASE ~ok
  <2>1. Len(o) + 1 \in DOMAIN p /\ ~p[Len(o) + 1]
    <3>1. Len(o) + 1 \in DOMAIN p
      BY <1>2
    <3>2. ~p[Len(o) + 1]
      BY <1>2, <1>5, Zenon
    <3> QED BY <3>1, <3>2
  <2>2. \A m \in 1 .. (Len(o) + 1) - 1 : p[m]
    <3>1. (Len(o) + 1) - 1 = Len(o)
      BY <1>2
    <3> QED BY <1>3, <3>1, Zenon
  <2>3. ASSUME NEW n \in DOMAIN p, ~p[n] PROVE n = Len(o) + 1
    <3>1. n \notin 1 .. Len(o)
      BY <1>3, <2>3, Zenon
    <3> QED BY <1>2, <2>3, <3>1
  <2>4. (CHOOSE n \in DOMAIN p : ~p[n] /\ \A m \in 1 .. n - 1 : p[m]) = Len(o) + 1
    BY <2>1, <2>2, <2>3, Zenon
  <2>5. FirstFailure(p) = Len(o) + 1
    BY <2>1, <2>4, Zenon DEF FirstFailure
  <2> QED BY <1>1, <1>2, <1>5, <2>5
<1> QED BY <1>4, <1>5

LEMMA PlacesStep ==
  ASSUME TypeOK, SlotInvariant, HoldingInvariant, GraphInvariant, [Next]_vars
  PROVE  PlacesInvariant'
<1> USE GraphAssumption DEF TypeOK, SlotInvariant, HoldingInvariant, GraphInvariant, PlacesInvariant, WorkInvariant, Initialiser, SubmitterLabels, WorkerLabels, Holding
<1>1. ASSUME NEW s \in Submitters, EnterRunGraph(s) PROVE PlacesInvariant'
  <2>1. PICK g \in todo :
          /\ graph' = [graph EXCEPT ![s] = g]
          /\ todo' = todo \ {g}
          /\ alias' = [alias EXCEPT ![g] = [n \in Nodes |-> "live"]]
    BY <1>1 DEF EnterRunGraph
  <2>2. /\ spc' = [spc EXCEPT ![s] = "init"] /\ spc[s] = "idle"
        /\ UNCHANGED <<slotVars, pos, refused, queueVars, wpc, runVars, channelVars>>
    BY <1>1 DEF EnterRunGraph, SubmitterGoes
  <2>3. /\ g \in Graphs /\ ~Within(order, g) /\ outcome[g] = <<>>
        /\ \A n \in Nodes : alias[g][n] = "none"
    BY <2>1 DEF PlacesInvariant
  <2>4. \A i \in 1 .. Len(order) : order[i] # g
    <3>1. DOMAIN order = 1 .. Len(order)
      OBVIOUS
    <3> QED BY ONLY <2>3, <3>1 DEF Within
  <2>5. \A h \in Graphs : h # g => alias'[h] = alias[h]
    BY <2>1
  <2>6. \A n \in Nodes : alias'[g][n] = "live"
    BY <2>1, <2>3
  <2>7. Fresh(alias', outcome', g)
    BY <2>2, <2>3, <2>6 DEF Fresh
  <2>8. \A h \in Graphs : h # g /\ Fresh(alias, outcome, h) => Fresh(alias', outcome', h)
    BY <2>2, <2>5 DEF Fresh
  <2>9. \A h \in todo' : /\ ~Within(order', h)
                         /\ outcome'[h] = <<>>
                         /\ \A n \in Nodes : alias'[h][n] = "none"
    BY <2>1, <2>2, <2>5 DEF PlacesInvariant
  <2>10. \A t \in Submitters : t # s => graph'[t] = graph[t] /\ spc'[t] = spc[t]
    BY <2>1, <2>2
  <2>11. graph'[s] = g /\ graph[s] \in Graphs \cup {NoGraph}
    BY <2>1, <2>3
  <2>12. ASSUME NEW t \in Submitters, Holding(t)'
         PROVE  graph'[t] \notin todo' /\ ~Within(order', graph'[t])
                /\ Fresh(alias', outcome', graph'[t])
    <3>1. CASE t = s
      BY <2>1, <2>2, <2>3, <2>7, <2>11, <3>1
    <3>2. CASE t # s
      <4>1. Holding(t) /\ graph[t] \in Graphs
        <5>1. Holding(t)
        BY <2>10, <2>12, <3>2
      <5> QED BY ONLY <5>1, TypeOK, HoldingInvariant, HolderHasGraph, t \in Submitters
      <4>2. graph[t] \notin todo /\ ~Within(order, graph[t]) /\ Fresh(alias, outcome, graph[t])
        BY <4>1 DEF PlacesInvariant
      <4>3. todo' \subseteq todo /\ order' = order /\ graph'[t] = graph[t] /\ graph[t] # g
        BY ONLY <2>1, <2>2, <2>10, <3>2, <4>2, t \in Submitters DEF queueVars
      <4> QED BY ONLY <2>8, <4>1, <4>2, <4>3
    <3> QED BY <3>1, <3>2
  <2>13. ASSUME NEW t \in Submitters, NEW u \in Submitters, Holding(t)', Holding(u)',
                graph'[t] = graph'[u]
         PROVE  t = u
    <3>1. \A r \in Submitters : r # s /\ Holding(r)' => graph'[r] # g /\ Holding(r)
      BY <2>1, <2>10 DEF PlacesInvariant
    <3>2. t = s <=> u = s
      BY ONLY <2>11, <2>13, <3>1, t \in Submitters, u \in Submitters
    <3>3. CASE t # s
      <4>1. Holding(t) /\ Holding(u) /\ graph[t] = graph[u]
        BY ONLY <2>10, <2>13, <3>1, <3>2, <3>3, t \in Submitters, u \in Submitters
      <4> QED BY <4>1
    <3> QED BY <3>2, <3>3
  <2>14. \A i \in 1 .. Len(order') : i > head' => Fresh(alias', outcome', order'[i])
    <3>1. /\ \A i \in 1 .. Len(order) : i > head => Fresh(alias, outcome, order[i])
          /\ \A i \in 1 .. Len(order) : order[i] \in Graphs
      BY DEF PlacesInvariant
    <3>2. order' = order /\ head' = head
      BY ONLY <2>2 DEF queueVars
    <3> QED BY ONLY <2>4, <2>8, <3>1, <3>2
  <2> QED BY <2>2, <2>9, <2>12, <2>13, <2>14 DEF PlacesInvariant
<1>2. ASSUME NEW s \in Submitters, WinInit(s) PROVE PlacesInvariant'
  BY <1>2 DEF WinInit, SubmitterGoes
<1>3. ASSUME NEW s \in Submitters, LoseInit(s) PROVE PlacesInvariant'
  BY <1>3 DEF LoseInit, SubmitterGoes
<1>4. ASSUME NEW s \in Submitters, BuildScheduler(s) PROVE PlacesInvariant'
  BY <1>4 DEF BuildScheduler, SubmitterGoes
<1>5. ASSUME NEW s \in Submitters, PublishReady(s) PROVE PlacesInvariant'
  BY <1>5 DEF PublishReady, SubmitterGoes
<1>6. ASSUME NEW s \in Submitters, SpawnWorker(s) PROVE PlacesInvariant'
  BY <1>6 DEF SpawnWorker, SubmitterGoes
<1>7. ASSUME NEW s \in Submitters, AwaitReady(s) PROVE PlacesInvariant'
  BY <1>7 DEF AwaitReady, SlotReady, SubmitterGoes
<1>8. ASSUME NEW s \in Submitters, ClaimPosition(s) PROVE PlacesInvariant'
  <2>1. /\ spc[s] = "claim" /\ order' = Append(order, graph[s])
        /\ spc' = [spc EXCEPT ![s] = "publish"]
        /\ UNCHANGED <<slotVars, graph, todo, refused, published, head, freed, hand, workerVars>>
    BY <1>8 DEF ClaimPosition, Queue!Claim, SubmitterGoes
  <2>2. /\ graph[s] \in Graphs /\ graph[s] \notin todo /\ ~Within(order, graph[s])
        /\ Fresh(alias, outcome, graph[s])
    <3>1. Holding(s)
      BY <2>1
    <3> QED BY <3>1, HolderHasGraph
  <2>3. /\ Distinct(order') /\ \A v : Within(order', v) <=> Within(order, v) \/ v = graph[s]
    <3>1. order \in Seq(Graphs) /\ Distinct(order)
      OBVIOUS
    <3> QED BY ONLY <2>1, <2>2, <3>1, WithinAppend
  <2>4. \A t \in Submitters : Holding(t)' => Holding(t) /\ t # s
    BY <2>1
  <2>5. /\ Len(order') = Len(order) + 1
        /\ \A i \in 1 .. Len(order') :
             order'[i] = IF i = Len(order') THEN graph[s] ELSE order[i]
    BY <2>1, <2>2
  <2>6. \A i \in 1 .. Len(order') : i > head' => Fresh(alias', outcome', order'[i])
    BY <2>1, <2>2, <2>5
  <2>7. initState' = "ready"
    BY <2>1
  <2>8. \A t \in Submitters : Holding(t)' => graph[t] # graph[s] /\ ~Within(order', graph[t])
    BY <2>1, <2>3, <2>4
  <2>9. \A g \in todo : ~Within(order', g)
    BY <2>2, <2>3
  <2> QED BY <2>1, <2>3, <2>4, <2>6, <2>7, <2>8, <2>9
<1>9. ASSUME NEW s \in Submitters, PublishTask(s) PROVE PlacesInvariant'
  BY <1>9 DEF PublishTask, Queue!Publish, Queue!tail, SubmitterGoes
<1>10. ASSUME NEW s \in Submitters, NotifyWorker(s) PROVE PlacesInvariant'
  BY <1>10 DEF NotifyWorker, SubmitterGoes
<1>11. CASE StartWorker
  BY <1>11 DEF StartWorker, SlotReady
<1>12. CASE TakeTask
  BY <1>12 DEF TakeTask, Queue!Take
<1>13. CASE FreeSlot
  BY <1>13 DEF FreeSlot, Queue!Free
<1>14. CASE FindNothing
  BY <1>14 DEF FindNothing
<1>15. CASE SeeWork
  BY <1>15 DEF SeeWork
<1>16. CASE FallAsleep
  BY <1>16 DEF FallAsleep
<1>17. CASE BeginGraph
  BY <1>17 DEF BeginGraph
<1>18. CASE RunNode
  <2>1. unit \in Graphs /\ head \in 1 .. Len(order) /\ unit = order[head]
    BY <1>18 DEF RunNode, WorkInvariant
  <2>2. /\ unit \notin todo
        /\ \A t \in Submitters : Holding(t) => graph[t] # unit
        /\ \A i \in 1 .. Len(order) : i > head => order[i] # unit
    BY <2>1, UnitElsewhere
  <2>3. /\ \A g \in Graphs : g # unit => outcome'[g] = outcome[g]
        /\ UNCHANGED <<slotVars, submitterVars, queueVars, wpc, unit, busy, alias, channelVars>>
    BY <1>18 DEF RunNode
  <2>4. \A g \in Graphs : g # unit /\ Fresh(alias, outcome, g) => Fresh(alias', outcome', g)
    BY <2>3 DEF Fresh
  <2>5. \A t \in Submitters : Holding(t) => graph[t] \in Graphs
    BY ONLY TypeOK, HoldingInvariant, HolderHasGraph
  <2>6. \A i \in 1 .. Len(order) : order[i] \in Graphs
    OBVIOUS
  <2> QED BY <2>2, <2>3, <2>4, <2>5, <2>6
<1>19. CASE EndNodeLoop
  BY <1>19 DEF EndNodeLoop, NodesDone
<1>20. CASE ReleaseAlias
  <2>1. unit \in Graphs /\ head \in 1 .. Len(order) /\ unit = order[head]
    BY <1>20 DEF ReleaseAlias, WorkInvariant
  <2>2. /\ unit \notin todo
        /\ \A t \in Submitters : Holding(t) => graph[t] # unit
        /\ \A i \in 1 .. Len(order) : i > head => order[i] # unit
    BY <2>1, UnitElsewhere
  <2>3. /\ \A g \in Graphs : g # unit => alias'[g] = alias[g]
        /\ UNCHANGED <<slotVars, submitterVars, queueVars, wpc, unit, failed, busy, outcome,
                       channelVars>>
    BY <1>20 DEF ReleaseAlias
  <2>4. \A g \in Graphs : g # unit /\ Fresh(alias, outcome, g) => Fresh(alias', outcome', g)
    BY <2>3 DEF Fresh
  <2>5. \A t \in Submitters : Holding(t) => graph[t] \in Graphs
    BY ONLY TypeOK, HoldingInvariant, HolderHasGraph
  <2>6. \A i \in 1 .. Len(order) : order[i] \in Graphs
    OBVIOUS
  <2>7. \A g \in todo : alias'[g] = alias[g]
    BY <2>2, <2>3
  <2>8. \A t \in Submitters : Holding(t) => Fresh(alias', outcome', graph[t])
    BY <2>2, <2>4, <2>5
  <2>9. \A i \in 1 .. Len(order) : i > head => Fresh(alias', outcome', order[i])
    BY <2>2, <2>4, <2>6
  <2>10. outcome' = outcome
    BY <2>3
  <2> QED BY <2>3, <2>7, <2>8, <2>9, <2>10
<1>21. CASE EndRelease
  BY <1>21 DEF EndRelease
<1>22. CASE SendCompletion
  BY <1>22 DEF SendCompletion, ChannelHasRoom, Completion
<1>23. CASE DropCompletion
  BY <1>23 DEF DropCompletion, ChannelHasRoom
<1>24. CASE EndGraph
  BY <1>24 DEF EndGraph
<1>25. CASE Receive
  BY <1>25 DEF Receive
<1>26. CASE UNCHANGED vars
  BY <1>26
<1> QED
  BY <1>1, <1>2, <1>3, <1>4, <1>5, <1>6, <1>7, <1>8, <1>9, <1>10, <1>11, <1>12, <1>13, <1>14, <1>15, <1>16, <1>17, <1>18, <1>19, <1>20, <1>21, <1>22, <1>23, <1>24, <1>25, <1>26 DEF Next, SubmitterStep, WorkerStep

LEMMA WorkStep ==
  ASSUME TypeOK, SlotInvariant, HoldingInvariant, GraphInvariant, [Next]_vars
  PROVE  WorkInvariant'
<1> USE GraphAssumption DEF TypeOK, SlotInvariant, HoldingInvariant, GraphInvariant, PlacesInvariant, WorkInvariant, Initialiser, SubmitterLabels, WorkerLabels, Holding
<1>1. ASSUME NEW s \in Submitters, EnterRunGraph(s) PROVE WorkInvariant'
  <2>1. PICK g \in todo :
          /\ graph' = [graph EXCEPT ![s] = g]
          /\ todo' = todo \ {g}
          /\ alias' = [alias EXCEPT ![g] = [n \in Nodes |-> "live"]]
    BY <1>1 DEF EnterRunGraph
  <2>2. /\ spc' = [spc EXCEPT ![s] = "init"] /\ spc[s] = "idle"
        /\ UNCHANGED <<slotVars, pos, refused, queueVars, wpc, runVars, channelVars>>
    BY <1>1 DEF EnterRunGraph, SubmitterGoes
  <2>3. /\ g \in Graphs /\ ~Within(order, g) /\ outcome[g] = <<>>
        /\ \A n \in Nodes : alias[g][n] = "none"
    BY <2>1 DEF PlacesInvariant
  <2>4. \A i \in 1 .. Len(order) : order[i] # g
    <3>1. DOMAIN order = 1 .. Len(order)
      OBVIOUS
    <3> QED BY ONLY <2>3, <3>1 DEF Within
  <2>5. \A h \in Graphs : h # g => alias'[h] = alias[h]
    BY <2>1
  <2>6. \A n \in Nodes : alias'[g][n] = "live"
    BY <2>1, <2>3
  <2>7. Fresh(alias', outcome', g)
    BY <2>2, <2>3, <2>6 DEF Fresh
  <2>8. \A h \in Graphs : h # g /\ Fresh(alias, outcome, h) => Fresh(alias', outcome', h)
    BY <2>2, <2>5 DEF Fresh
  <2>9. wpc \in {"free", "begin", "run", "release", "send", "end"} => head >= 1 /\ order[head] # g
    BY <2>4 DEF WorkInvariant
  <2>10. \A h \in Graphs : h # g /\ Ended(alias, h) => Ended(alias', h)
    BY <2>5 DEF Ended
  <2>11. wpc \in {"begin", "run", "release", "send", "end"} => unit # g /\ unit \in Graphs
    BY <2>9 DEF WorkInvariant
  <2>12. wpc = "free" => order[head] \in Graphs
    BY <2>9
  <2> QED BY <2>2, <2>5, <2>8, <2>9, <2>10, <2>11, <2>12 DEF WorkInvariant
<1>2. ASSUME NEW s \in Submitters, WinInit(s) PROVE WorkInvariant'
  BY <1>2 DEF WinInit, SubmitterGoes
<1>3. ASSUME NEW s \in Submitters, LoseInit(s) PROVE WorkInvariant'
  BY <1>3 DEF LoseInit, SubmitterGoes
<1>4. ASSUME NEW s \in Submitters, BuildScheduler(s) PROVE WorkInvariant'
  BY <1>4 DEF BuildScheduler, SubmitterGoes
<1>5. ASSUME NEW s \in Submitters, PublishReady(s) PROVE WorkInvariant'
  BY <1>5 DEF PublishReady, SubmitterGoes
<1>6. ASSUME NEW s \in Submitters, SpawnWorker(s) PROVE WorkInvariant'
  BY <1>6 DEF SpawnWorker, SubmitterGoes
<1>7. ASSUME NEW s \in Submitters, AwaitReady(s) PROVE WorkInvariant'
  BY <1>7 DEF AwaitReady, SlotReady, SubmitterGoes
<1>8. ASSUME NEW s \in Submitters, ClaimPosition(s) PROVE WorkInvariant'
  BY <1>8 DEF ClaimPosition, Queue!Claim, Queue!HasRoom, Queue!tail, SubmitterGoes
<1>9. ASSUME NEW s \in Submitters, PublishTask(s) PROVE WorkInvariant'
  BY <1>9 DEF PublishTask, Queue!Publish, Queue!tail, SubmitterGoes
<1>10. ASSUME NEW s \in Submitters, NotifyWorker(s) PROVE WorkInvariant'
  BY <1>10 DEF NotifyWorker, SubmitterGoes
<1>11. CASE StartWorker
  BY <1>11 DEF StartWorker, SlotReady
<1>12. CASE TakeTask
  BY <1>12 DEF TakeTask, Queue!Take
<1>13. CASE FreeSlot
  BY <1>13 DEF FreeSlot, Queue!Free
<1>14. CASE FindNothing
  BY <1>14 DEF FindNothing
<1>15. CASE SeeWork
  BY <1>15 DEF SeeWork
<1>16. CASE FallAsleep
  BY <1>16 DEF FallAsleep
<1>17. CASE BeginGraph
  <2>1. /\ wpc = "begin" /\ wpc' = "run" /\ nextNode' = 1 /\ failed' = 0
        /\ UNCHANGED <<slotVars, submitterVars, queueVars, unit, outcome, alias, channelVars>>
    BY <1>17 DEF BeginGraph
  <2>2. /\ outcome[unit] = <<>> /\ \A n \in Nodes : alias[unit][n] = "live"
    BY <2>1 DEF WorkInvariant, Fresh
  <2>3. FirstFailure(outcome[unit]) = 0
    BY <2>2 DEF FirstFailure
  <2> QED BY <2>1, <2>2, <2>3 DEF WorkInvariant
<1>18. CASE RunNode
  <2>1. PICK ok \in BOOLEAN :
          /\ outcome' = [outcome EXCEPT ![unit] = Append(@, ok)]
          /\ failed' = IF ok THEN 0 ELSE nextNode
    BY <1>18 DEF RunNode
  <2>2. /\ wpc = "run" /\ failed = 0 /\ nextNode' = nextNode + 1
        /\ UNCHANGED <<slotVars, submitterVars, queueVars, wpc, unit, busy, alias, channelVars>>
    BY <1>18 DEF RunNode
  <2>3. /\ unit \in Graphs /\ nextNode = Len(outcome[unit]) + 1
        /\ outcome[unit] \in Seq(BOOLEAN)
        /\ \A n \in DOMAIN outcome[unit] : outcome[unit][n]
    BY <2>2 DEF WorkInvariant
  <2>4. outcome'[unit] = Append(outcome[unit], ok)
    <3>1. outcome \in [Graphs -> Seq(BOOLEAN)]
      OBVIOUS
    <3> QED BY ONLY <2>1, <2>3, <3>1
  <2>5. /\ FirstFailure(outcome'[unit]) = IF ok THEN 0 ELSE Len(outcome[unit]) + 1
        /\ ok => \A n \in DOMAIN outcome'[unit] : outcome'[unit][n]
        /\ Len(outcome'[unit]) = Len(outcome[unit]) + 1
    BY ONLY <2>3, <2>4, ok \in BOOLEAN, FirstFailureGrows
  <2>6. failed' = FirstFailure(outcome'[unit])
    BY <2>1, <2>3, <2>5
  <2>7. failed' = 0 => ok
    BY <2>1, <2>3
  <2>8. nextNode' = Len(outcome'[unit]) + 1
    BY <2>2, <2>3, <2>5
  <2>9. /\ head >= 1 /\ unit = order[head] /\ \A n \in Nodes : alias[unit][n] = "live"
    BY <2>2 DEF WorkInvariant
  <2> QED BY <2>2, <2>5, <2>6, <2>7, <2>8, <2>9 DEF WorkInvariant
<1>19. CASE EndNodeLoop
  <2>1. /\ wpc = "run" /\ wpc' = "release" /\ nextNode' = 1
        /\ UNCHANGED <<slotVars, submitterVars, queueVars, unit, failed, busy, outcome, alias,
                       channelVars>>
    BY <1>19 DEF EndNodeLoop, NodesDone
  <2>2. head >= 1 /\ unit = order[head] /\ failed = FirstFailure(outcome[unit])
    BY <2>1 DEF WorkInvariant
  <2>3. \A n \in Nodes : ~(n < nextNode')
    BY <2>1, NodeAssumption DEF Nodes
  <2> QED BY <2>1, <2>2, <2>3 DEF WorkInvariant
<1>20. CASE ReleaseAlias
  BY <1>20 DEF ReleaseAlias
<1>21. CASE EndRelease
  <2>1. /\ wpc = "release" /\ wpc' = "send" /\ nextNode \notin Nodes
        /\ UNCHANGED <<slotVars, submitterVars, queueVars, runVars, alias, channelVars>>
    BY <1>21 DEF EndRelease
  <2>2. \A n \in Nodes : n < nextNode
    BY <2>1, NodeAssumption DEF Nodes
  <2>3. Ended(alias, unit)
    BY <2>1, <2>2 DEF Ended, WorkInvariant
  <2> QED BY <2>1, <2>3 DEF WorkInvariant
<1>22. CASE SendCompletion
  BY <1>22 DEF SendCompletion, ChannelHasRoom, Completion
<1>23. CASE DropCompletion
  BY <1>23 DEF DropCompletion, ChannelHasRoom
<1>24. CASE EndGraph
  BY <1>24 DEF EndGraph
<1>25. CASE Receive
  BY <1>25 DEF Receive
<1>26. CASE UNCHANGED vars
  BY <1>26
<1> QED
  BY <1>1, <1>2, <1>3, <1>4, <1>5, <1>6, <1>7, <1>8, <1>9, <1>10, <1>11, <1>12, <1>13, <1>14, <1>15, <1>16, <1>17, <1>18, <1>19, <1>20, <1>21, <1>22, <1>23, <1>24, <1>25, <1>26 DEF Next, SubmitterStep, WorkerStep

LEMMA LogStep ==
  ASSUME TypeOK, SlotInvariant, HoldingInvariant, GraphInvariant, [Next]_vars
  PROVE  LogInvariant'
<1> USE GraphAssumption DEF TypeOK, SlotInvariant, HoldingInvariant, GraphInvariant, LogInvariant, Initialiser, SubmitterLabels, WorkerLabels, Holding
<1>1. ASSUME NEW s \in Submitters, EnterRunGraph(s) PROVE LogInvariant'
  <2>1. PICK g \in todo :
          /\ graph' = [graph EXCEPT ![s] = g]
          /\ todo' = todo \ {g}
          /\ alias' = [alias EXCEPT ![g] = [n \in Nodes |-> "live"]]
    BY <1>1 DEF EnterRunGraph
  <2>2. /\ spc' = [spc EXCEPT ![s] = "init"] /\ spc[s] = "idle"
        /\ UNCHANGED <<slotVars, pos, refused, queueVars, wpc, runVars, channelVars>>
    BY <1>1 DEF EnterRunGraph, SubmitterGoes
  <2>3. /\ g \in Graphs /\ ~Within(order, g) /\ outcome[g] = <<>>
        /\ \A n \in Nodes : alias[g][n] = "none"
    BY <2>1 DEF PlacesInvariant
  <2>4. \A i \in 1 .. Len(order) : order[i] # g
    <3>1. DOMAIN order = 1 .. Len(order)
      OBVIOUS
    <3> QED BY ONLY <2>3, <3>1 DEF Within
  <2>5. \A h \in Graphs : h # g => alias'[h] = alias[h]
    BY <2>1
  <2>6. \A n \in Nodes : alias'[g][n] = "live"
    BY <2>1, <2>3
  <2>7. Fresh(alias', outcome', g)
    BY <2>2, <2>3, <2>6 DEF Fresh
  <2>8. \A h \in Graphs : h # g /\ Fresh(alias, outcome, h) => Fresh(alias', outcome', h)
    BY <2>2, <2>5 DEF Fresh
  <2>9. Ended(alias, g) => Nodes = {}
    BY <2>3 DEF Ended
  <2>10. \A h \in Graphs : Ended(alias, h) => Ended(alias', h)
    BY <2>5, <2>9 DEF Ended
  <2>11. /\ \A i \in 1 .. Len(channel) : channel[i].graph \in Graphs
         /\ \A i \in 1 .. Len(received) : received[i].graph \in Graphs
    BY ONLY TypeOK, LogsNameGraphs
  <2> QED BY <2>2, <2>10, <2>11 DEF LogInvariant
<1>2. ASSUME NEW s \in Submitters, WinInit(s) PROVE LogInvariant'
  BY <1>2 DEF WinInit, SubmitterGoes
<1>3. ASSUME NEW s \in Submitters, LoseInit(s) PROVE LogInvariant'
  BY <1>3 DEF LoseInit, SubmitterGoes
<1>4. ASSUME NEW s \in Submitters, BuildScheduler(s) PROVE LogInvariant'
  BY <1>4 DEF BuildScheduler, SubmitterGoes
<1>5. ASSUME NEW s \in Submitters, PublishReady(s) PROVE LogInvariant'
  BY <1>5 DEF PublishReady, SubmitterGoes
<1>6. ASSUME NEW s \in Submitters, SpawnWorker(s) PROVE LogInvariant'
  BY <1>6 DEF SpawnWorker, SubmitterGoes
<1>7. ASSUME NEW s \in Submitters, AwaitReady(s) PROVE LogInvariant'
  BY <1>7 DEF AwaitReady, SlotReady, SubmitterGoes
<1>8. ASSUME NEW s \in Submitters, ClaimPosition(s) PROVE LogInvariant'
  BY <1>8 DEF ClaimPosition, Queue!Claim, Queue!HasRoom, Queue!tail, SubmitterGoes
<1>9. ASSUME NEW s \in Submitters, PublishTask(s) PROVE LogInvariant'
  BY <1>9 DEF PublishTask, Queue!Publish, Queue!tail, SubmitterGoes
<1>10. ASSUME NEW s \in Submitters, NotifyWorker(s) PROVE LogInvariant'
  BY <1>10 DEF NotifyWorker, SubmitterGoes
<1>11. CASE StartWorker
  BY <1>11 DEF StartWorker, SlotReady
<1>12. CASE TakeTask
  BY <1>12 DEF TakeTask, Queue!Take
<1>13. CASE FreeSlot
  BY <1>13 DEF FreeSlot, Queue!Free
<1>14. CASE FindNothing
  BY <1>14 DEF FindNothing
<1>15. CASE SeeWork
  BY <1>15 DEF SeeWork
<1>16. CASE FallAsleep
  BY <1>16 DEF FallAsleep
<1>17. CASE BeginGraph
  BY <1>17 DEF BeginGraph
<1>18. CASE RunNode
  BY <1>18 DEF RunNode
<1>19. CASE EndNodeLoop
  BY <1>19 DEF EndNodeLoop, NodesDone
<1>20. CASE ReleaseAlias
  <2>1. PICK end \in {"gone", "stuck"} : alias' = [alias EXCEPT ![unit][nextNode] = end]
    BY <1>20 DEF ReleaseAlias
  <2>2. unit \in Graphs /\ nextNode \in Nodes /\ UNCHANGED channelVars
    BY <1>20 DEF ReleaseAlias
  <2>3. /\ \A h \in Graphs : h # unit => alias'[h] = alias[h]
        /\ \A n \in Nodes : alias'[unit][n] = IF n = nextNode THEN end ELSE alias[unit][n]
    BY <2>1, <2>2
  <2>4. \A h \in Graphs : Ended(alias, h) => Ended(alias', h)
    <3>1. Ended(alias, unit) => Ended(alias', unit)
      BY ONLY <2>1, <2>3 DEF Ended
    <3>2. \A h \in Graphs : h # unit /\ Ended(alias, h) => Ended(alias', h)
      BY ONLY <2>3 DEF Ended
    <3> QED BY ONLY <3>1, <3>2
  <2>5. /\ \A i \in 1 .. Len(channel) : channel[i].graph \in Graphs
        /\ \A i \in 1 .. Len(received) : received[i].graph \in Graphs
    BY ONLY TypeOK, LogsNameGraphs
  <2> QED BY <2>2, <2>4, <2>5 DEF LogInvariant
<1>21. CASE EndRelease
  BY <1>21 DEF EndRelease
<1>22. CASE SendCompletion
  <2>1. /\ wpc = "send" /\ channel' = Append(channel, Completion)
        /\ UNCHANGED <<alias, received>>
    BY <1>22 DEF SendCompletion
  <2>2. Ended(alias, unit) /\ unit \in Graphs
    BY <2>1 DEF WorkInvariant
  <2>3. Completion \in Completions /\ Completion.graph = unit
    BY <2>2 DEF Completion, Completions
  <2>4. \A i \in 1 .. Len(channel') : channel'[i] = IF i = Len(channel') THEN Completion
                                                                         ELSE channel[i]
    BY <2>1, <2>3
  <2>5. Len(channel') = Len(channel) + 1 /\ Len(channel) \in Nat
    BY <2>1, <2>3
  <2>6. \A i \in 1 .. Len(channel') : i # Len(channel') => i \in 1 .. Len(channel)
    BY ONLY <2>5
  <2>7. /\ \A i \in 1 .. Len(channel) : Ended(alias, channel[i].graph)
        /\ \A i \in 1 .. Len(received) : Ended(alias, received[i].graph)
    BY DEF LogInvariant
  <2>8. \A i \in 1 .. Len(channel') : Ended(alias', channel'[i].graph)
    BY ONLY <2>1, <2>2, <2>3, <2>4, <2>6, <2>7
  <2> QED BY <2>1, <2>7, <2>8 DEF LogInvariant
<1>23. CASE DropCompletion
  BY <1>23 DEF DropCompletion, ChannelHasRoom
<1>24. CASE EndGraph
  BY <1>24 DEF EndGraph
<1>25. CASE Receive
  BY <1>25 DEF Receive
<1>26. CASE UNCHANGED vars
  BY <1>26
<1> QED
  BY <1>1, <1>2, <1>3, <1>4, <1>5, <1>6, <1>7, <1>8, <1>9, <1>10, <1>11, <1>12, <1>13, <1>14, <1>15, <1>16, <1>17, <1>18, <1>19, <1>20, <1>21, <1>22, <1>23, <1>24, <1>25, <1>26 DEF Next, SubmitterStep, WorkerStep

LEMMA GraphInit == Init => GraphInvariant
<1> SUFFICES ASSUME Init PROVE GraphInvariant
  OBVIOUS
<1>1. /\ order = <<>> /\ head = 0 /\ wpc = "off" /\ channel = <<>> /\ received = <<>>
      /\ \A s \in Submitters : ~Holding(s)
      /\ \A g \in Graphs : outcome[g] = <<>> /\ \A n \in Nodes : alias[g][n] = "none"
      /\ todo = Graphs
  BY DEF Init, Queue!Init, Holding
<1>2. Len(order) = 0 /\ Len(channel) = 0 /\ Len(received) = 0 /\ DOMAIN order = {}
  BY <1>1
<1> QED BY <1>1, <1>2 DEF GraphInvariant, PlacesInvariant, WorkInvariant, LogInvariant,
           Within, Distinct

-----------------------------------------------------------------------------
(* The slot implements GraphService. *)

\* The results of the first n positions, seen through the history of the nodes.
ResultsOf(o, ord, n) == [i \in 1 .. n |-> FirstFailure(o[ord[i]])]

\* A step that touches nothing the service shows.
Quiet ==
  /\ UNCHANGED <<order, outcome, channel, received>>
  /\ Executed' = Executed
  /\ Reported' = Reported

LEMMA ResultsSame ==
  ASSUME NEW o, NEW p, NEW ord, NEW ord2, NEW n \in Nat,
         \A i \in 1 .. n : p[ord2[i]] = o[ord[i]]
  PROVE  ResultsOf(p, ord2, n) = ResultsOf(o, ord, n)
BY DEF ResultsOf

LEMMA ResultsLonger ==
  ASSUME NEW o, NEW ord, NEW n \in Nat
  PROVE  /\ ResultsOf(o, ord, n + 1) = Append(ResultsOf(o, ord, n), FirstFailure(o[ord[n + 1]]))
         /\ Len(ResultsOf(o, ord, n)) = n
<1>1. PICK r : r = ResultsOf(o, ord, n)
  OBVIOUS
<1>2. /\ r = [i \in 1 .. n |-> FirstFailure(o[ord[i]])]
  BY <1>1 DEF ResultsOf
<1>3. Len(r) = n
  BY <1>2
<1>4. Append(r, FirstFailure(o[ord[n + 1]]))
        = [i \in 1 .. n + 1 |-> IF i <= n THEN r[i] ELSE FirstFailure(o[ord[n + 1]])]
  BY <1>2, <1>3
<1>5. \A i \in 1 .. n + 1 : (IF i <= n THEN r[i] ELSE FirstFailure(o[ord[n + 1]]))
                              = FirstFailure(o[ord[i]])
  <2> TAKE i \in 1 .. n + 1
  <2>1. CASE i <= n
    BY <1>2, <2>1
  <2>2. CASE ~(i <= n)
    <3>1. i = n + 1
      BY <2>2
    <3> QED BY <2>2, <3>1
  <2> QED BY <2>1, <2>2
<1>6. Append(r, FirstFailure(o[ord[n + 1]])) = ResultsOf(o, ord, n + 1)
  BY <1>4, <1>5 DEF ResultsOf
<1> QED BY <1>1, <1>2, <1>3, <1>6

LEMMA LastResult ==
  ASSUME NEW o, NEW ord, NEW n \in Nat
  PROVE  /\ Len(ResultsOf(o, ord, n + 1)) = n + 1
         /\ ResultsOf(o, ord, n + 1)[n + 1] = FirstFailure(o[ord[n + 1]])
<1>1. n + 1 \in Nat /\ n + 1 \in 1 .. n + 1
  OBVIOUS
<1>2. PICK r : r = [i \in 1 .. n + 1 |-> FirstFailure(o[ord[i]])]
  OBVIOUS
<1>3. Len(r) = n + 1 /\ r[n + 1] = FirstFailure(o[ord[n + 1]])
  BY ONLY <1>1, <1>2
<1> QED BY ONLY <1>2, <1>3 DEF ResultsOf

LEMMA ExecutedType ==
  ASSUME TypeOK, WorkInvariant
  PROVE  /\ Executed \in Nat /\ Executed <= Len(order) /\ Executed <= head
         /\ Reported \in Nat /\ Reported <= Len(order)
<1>1. head \in Nat /\ Len(order) \in Nat /\ head <= Len(order)
  BY DEF TypeOK
<1>2. wpc \in {"free", "begin", "run", "release", "send"} => head >= 1
  BY DEF WorkInvariant
<1> QED BY <1>1, <1>2 DEF Executed, Reported

\* What the service shows, and a quiet step does not show.
LEMMA ServiceStutters ==
  ASSUME Executed \in Nat, order' = order, Executed' = Executed, Reported' = Reported,
         received' \o channel' = received \o channel,
         \A i \in 1 .. Executed : outcome'[order[i]] = outcome[order[i]]
  PROVE  UNCHANGED Service!serviceVars
<1>1. ResultsOf(outcome', order', Executed') = ResultsOf(outcome, order, Executed)
  BY ResultsSame
<1> QED BY <1>1 DEF Service!serviceVars, ResultsOf

LEMMA ServiceInit == Init => Service!Init
<1> SUFFICES ASSUME Init PROVE Service!Init
  OBVIOUS
<1>1. /\ order = <<>> /\ head = 0 /\ wpc = "off" /\ channel = <<>> /\ received = <<>>
  BY DEF Init, Queue!Init
<1>2. Executed = 0 /\ Reported = 0
  BY <1>1 DEF Executed, Reported
<1>3. ResultsOf(outcome, order, 0) = <<>>
  BY DEF ResultsOf
<1>4. received \o channel = <<>>
  BY <1>1
<1> QED BY <1>1, <1>2, <1>3, <1>4 DEF Service!Init, ResultsOf

\* An accepted graph is one the service has not seen.
LEMMA ClaimAccepts ==
  ASSUME TypeOK, HoldingInvariant, GraphInvariant, NEW s \in Submitters, ClaimPosition(s)
  PROVE  Service!Accept(graph[s]) /\ graph[s] \in Graphs
<1> USE DEF GraphInvariant
<1>1. /\ spc[s] = "claim" /\ order' = Append(order, graph[s])
      /\ UNCHANGED <<head, wpc, outcome, channel, received>>
  BY DEF ClaimPosition, Queue!Claim
<1>2. Holding(s)
  BY <1>1 DEF Holding
<1>3. graph[s] \in Graphs /\ ~Within(order, graph[s])
  BY <1>2, HolderHasGraph DEF PlacesInvariant
<1>4. Executed' = Executed /\ Reported' = Reported
  BY <1>1 DEF Executed, Reported
<1>5. Executed \in Nat /\ Executed <= Len(order)
  BY ExecutedType
<1>6. order \in Seq(Graphs)
  BY DEF TypeOK
<1>7. \A i \in 1 .. Executed : order'[i] = order[i]
  BY ONLY <1>1, <1>3, <1>5, <1>6
<1>8. ResultsOf(outcome', order', Executed') = ResultsOf(outcome, order, Executed)
  <2>1. \A i \in 1 .. Executed : outcome'[order'[i]] = outcome[order[i]]
    BY ONLY <1>1, <1>7
  <2>2. ResultsOf(outcome', order', Executed) = ResultsOf(outcome, order, Executed)
    BY ONLY <1>5, <2>1, ResultsSame
  <2> QED BY ONLY <1>4, <2>2
<1>9. \A i \in DOMAIN order : order[i] # graph[s]
  BY <1>3 DEF Within
<1> QED BY ONLY <1>1, <1>3, <1>4, <1>8, <1>9 DEF Service!Accept, ResultsOf

\* The node loop ends with the result of the next position.
LEMMA EndExecutes ==
  ASSUME TypeOK, GraphInvariant, EndNodeLoop
  PROVE  Service!Execute(failed) /\ failed \in 0 .. NodeCount
<1> USE DEF GraphInvariant
<1>1. /\ wpc = "run" /\ wpc' = "release"
      /\ UNCHANGED <<order, head, outcome, channel, received>>
  BY DEF EndNodeLoop, NodesDone
<1>2. head >= 1 /\ unit = order[head] /\ failed = FirstFailure(outcome[unit])
  BY <1>1 DEF WorkInvariant
<1>3. head \in Nat /\ Len(order) \in Nat /\ head <= Len(order) /\ failed \in 0 .. NodeCount
  BY DEF TypeOK
<1>4. PICK n \in Nat : n = head - 1
  BY <1>2, <1>3
<1>5. Executed = n /\ Reported = n /\ Executed' = n + 1 /\ Reported' = n /\ head = n + 1
  BY <1>1, <1>3, <1>4 DEF Executed, Reported
<1>6. /\ ResultsOf(outcome, order, n + 1) = Append(ResultsOf(outcome, order, n), failed)
      /\ Len(ResultsOf(outcome, order, n)) = n
  <2>1. failed = FirstFailure(outcome[order[n + 1]])
    BY ONLY <1>2, <1>5
  <2>2. /\ ResultsOf(outcome, order, n + 1)
             = Append(ResultsOf(outcome, order, n), FirstFailure(outcome[order[n + 1]]))
        /\ Len(ResultsOf(outcome, order, n)) = n
    BY ONLY n \in Nat, ResultsLonger, Zenon
  <2> QED BY ONLY <2>1, <2>2, Zenon
<1>7. ResultsOf(outcome', order', Executed') = Append(ResultsOf(outcome, order, Executed), failed)
  BY ONLY <1>1, <1>5, <1>6
<1>8. n < Len(order)
  BY <1>3, <1>5
<1> QED BY ONLY <1>1, <1>3, <1>5, <1>6, <1>7, <1>8 DEF Service!Execute, ResultsOf

\* The completion is sent or dropped: the result of the position is reported.
LEMMA SendReports ==
  ASSUME TypeOK, GraphInvariant, SendCompletion \/ DropCompletion
  PROVE  Service!Report
<1> USE DEF GraphInvariant
<1>1. /\ wpc = "send" /\ wpc' = "end"
      /\ UNCHANGED <<order, head, outcome, received>>
      /\ channel' = channel \/ channel' = Append(channel, Completion)
  BY DEF SendCompletion, DropCompletion
<1>2. head >= 1 /\ unit = order[head] /\ failed = FirstFailure(outcome[unit])
  BY <1>1 DEF WorkInvariant
<1>3. /\ head \in Nat /\ Len(order) \in Nat /\ head <= Len(order) /\ failed \in 0 .. NodeCount
      /\ channel \in Seq(Completions) /\ received \in Seq(Completions)
  BY DEF TypeOK
<1>4. PICK n \in Nat : n = head - 1
  BY <1>2, <1>3
<1>5. Executed = n + 1 /\ Reported = n /\ Executed' = n + 1 /\ Reported' = n + 1 /\ head = n + 1
  BY <1>1, <1>3, <1>4 DEF Executed, Reported
<1>6. /\ Len(ResultsOf(outcome, order, n + 1)) = n + 1
      /\ ResultsOf(outcome, order, n + 1)[n + 1] = failed
  <2>1. failed = FirstFailure(outcome[order[n + 1]])
    BY ONLY <1>2, <1>5
  <2>2. /\ Len(ResultsOf(outcome, order, n + 1)) = n + 1
        /\ ResultsOf(outcome, order, n + 1)[n + 1] = FirstFailure(outcome[order[n + 1]])
    BY ONLY n \in Nat, LastResult, Zenon
  <2> QED BY ONLY <2>1, <2>2, Zenon
<1>7. ResultsOf(outcome', order', Executed') = ResultsOf(outcome, order, Executed)
  BY ONLY <1>1, <1>5
<1>8. Completion = [graph |-> order[n + 1], failed |-> failed] /\ Completion \in Completions
  <2>1. unit \in Graphs
    <3>1. unit \in Graphs \cup {NoGraph} /\ order \in Seq(Graphs)
      BY DEF TypeOK
    <3> QED BY <1>2, <1>3, <3>1
  <2> QED BY <1>2, <1>3, <1>5, <2>1 DEF Completion, Completions
<1>9. received' \o channel' \in {received \o channel, Append(received \o channel, Completion)}
  <2>1. received \o Append(channel, Completion) = Append(received \o channel, Completion)
    BY ONLY <1>3, <1>8, AppendAfter
  <2> QED BY ONLY <1>1, <2>1
<1>10. n < n + 1
  OBVIOUS
<1> QED BY ONLY <1>1, <1>5, <1>6, <1>7, <1>8, <1>9, <1>10 DEF Service!Report, ResultsOf

\* A node that runs changes only the history of the position in work, whose
\* result the service does not show yet.
LEMMA RunIsHidden ==
  ASSUME TypeOK, GraphInvariant, RunNode
  PROVE  UNCHANGED Service!serviceVars
<1> USE DEF GraphInvariant
<1>1. /\ wpc = "run" /\ UNCHANGED <<order, head, wpc, channel, received>>
      /\ \A g \in Graphs : g # unit => outcome'[g] = outcome[g]
  BY DEF RunNode, TypeOK
<1>2. head >= 1 /\ unit = order[head] /\ head \in Nat /\ head <= Len(order)
  BY <1>1 DEF WorkInvariant, TypeOK
<1>3. order \in Seq(Graphs) /\ Distinct(order)
  BY DEF TypeOK, PlacesInvariant
<1>4. Executed = head - 1 /\ Executed' = Executed /\ Reported' = Reported /\ Executed \in Nat
  BY <1>1, <1>2 DEF Executed, Reported
<1>5. ASSUME NEW i \in 1 .. Executed PROVE outcome'[order[i]] = outcome[order[i]]
  <2>1. i \in DOMAIN order /\ head \in DOMAIN order /\ i # head
    BY <1>2, <1>3, <1>4, <1>5
  <2>2. order[i] # unit /\ order[i] \in Graphs
    BY <1>2, <1>3, <2>1 DEF Distinct
  <2> QED BY <1>1, <2>2
<1>6. received' \o channel' = received \o channel
  BY <1>1
<1> QED BY ONLY <1>1, <1>4, <1>5, <1>6, ServiceStutters

\* Every step of the slot is a step of the service or shows nothing.
LEMMA ServiceStep ==
  ASSUME TypeOK, SlotInvariant, HoldingInvariant, GraphInvariant, [Next]_vars
  PROVE  [Service!Next]_(Service!serviceVars)
<1>1. Executed \in Nat
  BY ExecutedType DEF GraphInvariant
<1>2. Quiet => UNCHANGED Service!serviceVars
  <2> SUFFICES ASSUME Quiet PROVE UNCHANGED Service!serviceVars
    OBVIOUS
  <2> QED BY <1>1, ServiceStutters DEF Quiet
<1>3. ASSUME NEW s \in Submitters, ClaimPosition(s) PROVE Service!Next
  BY <1>3, ClaimAccepts DEF Service!Next
<1>4. CASE EndNodeLoop
  BY <1>4, EndExecutes DEF Service!Next
<1>5. CASE SendCompletion \/ DropCompletion
  BY <1>5, SendReports DEF Service!Next
<1>6. CASE RunNode
  BY <1>6, RunIsHidden
<1>7. CASE Receive
  <2>1. /\ received' = Append(received, Head(channel)) /\ channel' = Tail(channel)
        /\ channel # <<>> /\ UNCHANGED <<order, head, wpc, outcome>>
    BY <1>7 DEF Receive
  <2>2. channel \in Seq(Completions) /\ received \in Seq(Completions)
    BY DEF TypeOK
  <2>3. received' \o channel' = received \o channel
    BY ONLY <2>1, <2>2, PopMoves
  <2>4. Executed' = Executed /\ Reported' = Reported
    BY <2>1 DEF Executed, Reported
  <2> QED BY ONLY <1>1, <2>1, <2>3, <2>4, ServiceStutters
<1>8. ASSUME NEW s \in Submitters, EnterRunGraph(s) \/ SubmitterStep(s), ~ClaimPosition(s)
      PROVE  Quiet
  <2>1. CASE BuildScheduler(s)
    <3>1. order = <<>> /\ head = 0
      BY <2>1 DEF BuildScheduler, SlotInvariant, GraphInvariant, PlacesInvariant, TypeOK
    <3> QED BY <2>1, <3>1 DEF BuildScheduler, Quiet, Executed, Reported
  <2>2. CASE SpawnWorker(s)
    BY <2>2 DEF SpawnWorker, SlotInvariant, Quiet, Executed, Reported
  <2>3. CASE ~BuildScheduler(s) /\ ~SpawnWorker(s)
    BY <1>8, <2>3 DEF SubmitterStep, EnterRunGraph, WinInit, LoseInit, PublishReady, AwaitReady,
       PublishTask, Queue!Publish, NotifyWorker, Quiet, Executed, Reported
  <2> QED BY <2>1, <2>2, <2>3
<1>9. CASE /\ WorkerStep /\ ~EndNodeLoop /\ ~SendCompletion /\ ~DropCompletion /\ ~RunNode
  <2>1. ASSUME TakeTask PROVE Quiet
    <3>1. head \in Nat
      BY DEF TypeOK
    <3>2. /\ wpc = "take" /\ wpc' = "free" /\ head' = head + 1
          /\ UNCHANGED <<order, outcome, channel, received>>
      BY <2>1 DEF TakeTask, Queue!Take
    <3> QED BY ONLY <3>1, <3>2 DEF Quiet, Executed, Reported
  <2>2. ASSUME ~TakeTask PROVE Quiet
    <3>1. /\ UNCHANGED <<order, head, outcome, channel, received>>
          /\ wpc \in {"free", "begin", "run"} <=> wpc' \in {"free", "begin", "run"}
          /\ wpc \in {"free", "begin", "run", "release", "send"}
               <=> wpc' \in {"free", "begin", "run", "release", "send"}
      BY ONLY <1>9, <2>2 DEF WorkerStep, StartWorker, FreeSlot, Queue!Free, FindNothing, SeeWork,
         FallAsleep, BeginGraph, ReleaseAlias, EndRelease, EndGraph
    <3> QED BY ONLY <3>1 DEF Quiet, Executed, Reported
  <2>3. Quiet
    BY ONLY <2>1, <2>2
  <2> QED BY <1>2, <2>3
<1>10. CASE UNCHANGED vars
  <2>1. Quiet
    BY <1>10 DEF Quiet, Executed, Reported
  <2> QED BY <1>2, <2>1
<1> QED BY <1>2, <1>3, <1>4, <1>5, <1>6, <1>7, <1>8, <1>9, <1>10 DEF Next, SubmitterStep

-----------------------------------------------------------------------------
(* Theorems. *)

\* The slot, the queue, the worker and the channel keep their types; the
\* channel never holds more than its room.
THEOREM TypeCorrect == Spec => []TypeOK
<1>1. Init => TypeOK /\ HoldingInvariant
  BY TypeInit, HoldingInit
<1>2. TypeOK /\ HoldingInvariant /\ [Next]_vars => TypeOK' /\ HoldingInvariant'
  BY TypeStep, HoldingStep
<1> QED BY <1>1, <1>2, PTL DEF Spec

\* However submitters race to initialise the slot, one at a time does it, and
\* nobody is past the initialisation before READY.
THEOREM SlotCorrect == Spec => []SlotInvariant
<1>1. Init => SlotInvariant
  BY SlotInit
<1>2. TypeOK /\ SlotInvariant /\ [Next]_vars => SlotInvariant'
  BY SlotStep
<1> QED BY <1>1, <1>2, TypeCorrect, PTL DEF Spec

\* A worker never sleeps on a queue that holds a graph nobody will wake it for.
THEOREM NoWakeupLost == Spec => []NoLostWakeup
<1>1. Init => NoLostWakeup
  BY DEF Init, NoLostWakeup
<1>2. TypeOK /\ SlotInvariant /\ NoLostWakeup /\ [Next]_vars => NoLostWakeup'
  BY WakeupStep
<1> QED BY <1>1, <1>2, TypeCorrect, SlotCorrect, PTL DEF Spec

\* run_graph never fails, and the worker never gives up, for having met the
\* slot in the middle of its initialisation.
THEOREM NobodyIsTurnedAway == Spec => []NobodyTurnedAway
<1>1. Init => NobodyTurnedAway
  BY DEF Init, NobodyTurnedAway
<1>2. TypeOK /\ SlotInvariant /\ NobodyTurnedAway /\ [Next]_vars => NobodyTurnedAway'
  <2> SUFFICES ASSUME TypeOK, SlotInvariant, NobodyTurnedAway, [Next]_vars
               PROVE  NobodyTurnedAway'
    OBVIOUS
  <2>1. ASSUME NEW s \in Submitters, AwaitReady(s) PROVE NobodyTurnedAway'
    <3>1. SlotReady
      BY <2>1 DEF AwaitReady, SlotReady, SlotInvariant, TypeOK
    <3> QED BY <2>1, <3>1 DEF AwaitReady, NobodyTurnedAway
  <2>2. CASE StartWorker
    <3>1. SlotReady
      BY <2>2 DEF StartWorker, SlotReady, SlotInvariant, TypeOK
    <3> QED BY <2>2, <3>1 DEF StartWorker, NobodyTurnedAway
  <2>3. CASE ~StartWorker /\ ~\E s \in Submitters : AwaitReady(s)
    <3>1. refused' = refused /\ (wpc' = "stopped" => wpc = "stopped")
      BY <2>3 DEF Next, SubmitterStep, WorkerStep, EnterRunGraph, WinInit, LoseInit,
         BuildScheduler, PublishReady, SpawnWorker, ClaimPosition, PublishTask, NotifyWorker,
         TakeTask, FreeSlot, FindNothing, SeeWork, FallAsleep, BeginGraph, RunNode,
         EndNodeLoop, ReleaseAlias, EndRelease, SendCompletion, DropCompletion, EndGraph, Receive
    <3> QED BY <3>1 DEF NobodyTurnedAway
  <2> QED BY <2>1, <2>2, <2>3
<1> QED BY <1>1, <1>2, TypeCorrect, SlotCorrect, PTL DEF Spec

\* Once built, the scheduler is never replaced, and the worker is started once.
THEOREM SchedulerIsKept == Spec => SchedulerKept
<1>1. TypeOK /\ SlotInvariant /\ [Next]_vars
      => [ /\ scheduler # NoGraph => scheduler' = scheduler
           /\ wpc' = "start" => wpc \in {"off", "start"} ]_vars
  <2> SUFFICES ASSUME TypeOK, SlotInvariant, Next
               PROVE  /\ scheduler # NoGraph => scheduler' = scheduler
                      /\ wpc' = "start" => wpc \in {"off", "start"}
    OBVIOUS
  <2>1. ASSUME NEW s \in Submitters, BuildScheduler(s)
        PROVE  scheduler = NoGraph /\ wpc' = wpc
    BY <2>1 DEF BuildScheduler, SlotInvariant
  <2>2. ASSUME NEW s \in Submitters, SpawnWorker(s)
        PROVE  scheduler' = scheduler /\ wpc = "off"
    BY <2>2 DEF SpawnWorker, SlotInvariant
  <2>3. CASE \A s \in Submitters : ~BuildScheduler(s) /\ ~SpawnWorker(s)
    BY <2>3 DEF Next, SubmitterStep, WorkerStep, EnterRunGraph, WinInit, LoseInit,
       PublishReady, AwaitReady, ClaimPosition, PublishTask, NotifyWorker, StartWorker,
       TakeTask, FreeSlot, FindNothing, SeeWork, FallAsleep, BeginGraph, RunNode,
       EndNodeLoop, ReleaseAlias, EndRelease, SendCompletion, DropCompletion, EndGraph, Receive
  <2> QED BY <2>1, <2>2, <2>3
<1> QED BY <1>1, TypeCorrect, SlotCorrect, PTL DEF Spec, SchedulerKept

\* A graph is in one place, nothing happens to it before the worker takes it,
\* and its aliases and node results are where the worker says they are.
THEOREM GraphsCorrect == Spec => []GraphInvariant
<1>1. Init => HoldingInvariant /\ GraphInvariant
  BY HoldingInit, GraphInit
<1>2. TypeOK /\ SlotInvariant /\ HoldingInvariant /\ GraphInvariant /\ [Next]_vars
      => HoldingInvariant' /\ GraphInvariant'
  BY HoldingStep, PlacesStep, WorkStep, LogStep DEF GraphInvariant
<1> QED BY <1>1, <1>2, TypeCorrect, SlotCorrect, PTL DEF Spec

\* Every node runs with all aliases of its graph in place, and when the process
\* can see a completion no alias of its graph is left.
THEOREM AliasesOutliveTheirUse == Spec => []AliasLifetime
<1>1. TypeOK /\ GraphInvariant => AliasLifetime
  <2> SUFFICES ASSUME TypeOK, GraphInvariant PROVE AliasLifetime
    OBVIOUS
  <2>1. wpc = "run" => \A n \in Nodes : alias[unit][n] = "live"
    BY DEF GraphInvariant, WorkInvariant
  <2>2. /\ \A i \in DOMAIN channel : Ended(alias, channel[i].graph)
        /\ \A i \in DOMAIN received : Ended(alias, received[i].graph)
    <3>1. DOMAIN channel = 1 .. Len(channel) /\ DOMAIN received = 1 .. Len(received)
      BY DEF TypeOK
    <3> QED BY ONLY <3>1, GraphInvariant DEF GraphInvariant, LogInvariant
  <2> QED BY <2>1, <2>2 DEF AliasLifetime, Ended
<1> QED BY <1>1, TypeCorrect, GraphsCorrect, PTL

\* The slot executes the graphs one at a time, in the order in which their
\* submitters won positions, and reports each result once, with the first
\* node that failed; only the report can be lost.
THEOREM SlotImplementsGraphService == Spec => ImplementsGraphService
<1>1. Init => HoldingInvariant
  BY HoldingInit
<1>2. TypeOK /\ HoldingInvariant /\ [Next]_vars => HoldingInvariant'
  BY HoldingStep
<1>3. TypeOK /\ SlotInvariant /\ HoldingInvariant /\ GraphInvariant /\ [Next]_vars
      => [Service!Next]_(Service!serviceVars)
  BY ServiceStep
<1> QED BY ServiceInit, <1>1, <1>2, <1>3, TypeCorrect, SlotCorrect, GraphsCorrect, PTL
    DEF Spec, ImplementsGraphService, Service!Spec
=============================================================================
