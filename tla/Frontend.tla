------------------------------ MODULE Frontend ------------------------------
(***************************************************************************)
(* The user side of one process: build_channel, submit_graph and           *)
(* wait_graph_complete (src/k3_aiRuntime/src/fronted/kd_uring.rs), and the *)
(* ONNX Runtime entry that calls them under a mutex (ort_ffi.rs).  Threads *)
(* in OrtThreads go through execute_on_device; the other threads call the  *)
(* public functions themselves.                                            *)
(*                                                                         *)
(* External: the driver.  It pins the first channel memory of the process  *)
(* and accepts later BUILD_CHANNEL calls without effect, it executes       *)
(* graphs in order, and a SUBMIT_GRAPH ioctl that fails may leave behind   *)
(* the entry already sent on the submit channel.  The completion channel   *)
(* has room here; Scheduler shows what happens when it has not.            *)
(***************************************************************************)
EXTENDS Integers, Sequences

CONSTANTS
  Threads,     \* threads of the process
  OrtThreads,  \* those that go through k3_ort_run_node
  NoThread,    \* no thread, no memory
  MaxCalls     \* bound on the calls explored

ASSUME ThreadAssumption == OrtThreads \subseteq Threads /\ NoThread \notin Threads
ASSUME CallAssumption == MaxCalls \in Nat

VARIABLES
  built,       \* CHANNEL_BUILT
  memory,      \* CHANNEL_MEMORY: whose mapping it holds
  lock,        \* holder of the mutex of ort_ffi's CHANNEL
  cached,      \* the UringChannel in it: whose mapping it is on
  pc,          \* where each thread is
  chan,        \* the mapping each thread's UringChannel is on
  token,       \* user_token of each thread's call, 0 outside a call
  result,      \* what the last call of each thread returned
  nextToken,   \* NEXT_TOKEN
  pinned,      \* driver: the mapping it uses
  ioctls,      \* driver: BUILD_CHANNEL calls that succeeded
  pending,     \* driver: tokens of the graphs accepted
  completions, \* the completion channel of the pinned mapping
  verdict      \* history: how each executed graph ended

channelVars == <<built, memory, cached>>
threadVars == <<chan, token, result, nextToken>>
driverVars == <<pinned, ioctls, pending, completions, verdict>>
vars == <<channelVars, lock, pc, threadVars, driverVars>>

Tokens == 1 .. MaxCalls

Goes(t, label) == pc' = [pc EXCEPT ![t] = label]
Fails(t) == Goes(t, "return") /\ result' = [result EXCEPT ![t] = "refused"]

Init ==
  /\ built = FALSE
  /\ memory = NoThread
  /\ lock = NoThread
  /\ cached = NoThread
  /\ pc = [t \in Threads |-> "idle"]
  /\ chan = [t \in Threads |-> NoThread]
  /\ token = [t \in Threads |-> 0]
  /\ result = [t \in Threads |-> "none"]
  /\ nextToken = 1
  /\ pinned = NoThread
  /\ ioctls = 0
  /\ pending = <<>>
  /\ completions = <<>>
  /\ verdict = [k \in Tokens |-> "none"]

-----------------------------------------------------------------------------
(* The calls.                                                              *)

\* A token is drawn before the channel is locked.
BeginCall(t) ==
  /\ pc[t] = "idle"
  /\ nextToken \in Tokens
  /\ token' = [token EXCEPT ![t] = nextToken]
  /\ nextToken' = nextToken + 1
  /\ result' = [result EXCEPT ![t] = "none"]
  /\ Goes(t, IF t \in OrtThreads THEN "lock" ELSE "build")
  /\ UNCHANGED <<channelVars, lock, chan, driverVars>>

\* Mutant: the channel is looked up under the mutex, which is then released.
LockAndRelease(t) ==
  /\ pc[t] = "lock"
  /\ lock = NoThread
  /\ chan' = [chan EXCEPT ![t] = cached]
  /\ Goes(t, IF cached = NoThread THEN "build" ELSE "send")
  /\ UNCHANGED <<channelVars, lock, token, result, nextToken, driverVars>>

LockChannel(t) ==
  /\ pc[t] = "lock"
  /\ lock = NoThread
  /\ lock' = t
  /\ chan' = [chan EXCEPT ![t] = cached]
  /\ Goes(t, IF cached = NoThread THEN "build" ELSE "send")
  /\ UNCHANGED <<channelVars, token, result, nextToken, driverVars>>

\* build_channel.
CheckBuilt(t) ==
  /\ pc[t] = "build"
  /\ Goes(t, IF built THEN "reuse" ELSE "pin")
  /\ UNCHANGED <<channelVars, lock, threadVars, driverVars>>

ReuseMemory(t) ==
  /\ pc[t] = "reuse"
  /\ chan' = [chan EXCEPT ![t] = memory]
  /\ IF memory = NoThread THEN Fails(t) ELSE Goes(t, "open") /\ UNCHANGED result
  /\ UNCHANGED <<channelVars, lock, token, nextToken, driverVars>>

\* Open the device, map, initialise and hand the memory to the driver.
PinMemory(t) ==
  /\ pc[t] = "pin"
  /\ chan' = [chan EXCEPT ![t] = t]
  /\ pinned' = IF pinned = NoThread THEN t ELSE pinned
  /\ ioctls' = ioctls + 1
  /\ Goes(t, "mark")
  /\ UNCHANGED <<channelVars, lock, token, result, nextToken, pending, completions, verdict>>

PinMemoryFails(t) ==
  /\ pc[t] = "pin"
  /\ Fails(t)
  /\ UNCHANGED <<channelVars, lock, chan, token, nextToken, driverVars>>

\* Mutant: CHANNEL_BUILT is never set.
MarkNothing(t) ==
  /\ pc[t] = "mark"
  /\ Goes(t, "store")
  /\ UNCHANGED <<channelVars, lock, threadVars, driverVars>>

MarkBuilt(t) ==
  /\ pc[t] = "mark"
  /\ built' = TRUE
  /\ Goes(t, "store")
  /\ UNCHANGED <<memory, cached, lock, threadVars, driverVars>>

StoreMemory(t) ==
  /\ pc[t] = "store"
  /\ memory' = chan[t]
  /\ Goes(t, "open")
  /\ UNCHANGED <<built, cached, lock, threadVars, driverVars>>

\* The sender and the receiver of the mapping; an ORT thread keeps them.
OpenEndpoints(t) ==
  /\ pc[t] = "open"
  /\ cached' = IF t \in OrtThreads THEN chan[t] ELSE cached
  /\ Goes(t, "send")
  /\ UNCHANGED <<built, memory, lock, threadVars, driverVars>>

OpenEndpointsFails(t) ==
  /\ pc[t] = "open"
  /\ Fails(t)
  /\ UNCHANGED <<channelVars, lock, chan, token, nextToken, driverVars>>

\* submit_graph: try_send, then the ioctl.
SendEntry(t) ==
  /\ pc[t] = "send"
  /\ Goes(t, "submit")
  /\ UNCHANGED <<channelVars, lock, threadVars, driverVars>>

SendEntryFails(t) ==
  /\ pc[t] = "send"
  /\ Fails(t)
  /\ UNCHANGED <<channelVars, lock, chan, token, nextToken, driverVars>>

SubmitAccepted(t) ==
  /\ pc[t] = "submit"
  /\ pending' = Append(pending, token[t])
  /\ Goes(t, "wait")
  /\ UNCHANGED <<channelVars, lock, threadVars, pinned, ioctls, completions, verdict>>

SubmitFails(t) ==
  /\ pc[t] = "submit"
  /\ pending' \in {pending, Append(pending, token[t])}
  /\ Fails(t)
  /\ UNCHANGED <<channelVars, lock, chan, token, nextToken, pinned, ioctls, completions, verdict>>

HasCompletion(t) == pc[t] = "wait" /\ chan[t] = pinned /\ completions # <<>>

\* Mutant: any completion ends the wait.
TakeAnyCompletion(t) ==
  /\ HasCompletion(t)
  /\ result' = [result EXCEPT ![t] = Head(completions).end]
  /\ completions' = Tail(completions)
  /\ Goes(t, "return")
  /\ UNCHANGED <<channelVars, lock, chan, token, nextToken, pinned, ioctls, pending, verdict>>

\* wait_graph_complete.
TakeCompletion(t) ==
  /\ HasCompletion(t)
  /\ Head(completions).token = token[t]
  /\ result' = [result EXCEPT ![t] = Head(completions).end]
  /\ completions' = Tail(completions)
  /\ Goes(t, "return")
  /\ UNCHANGED <<channelVars, lock, chan, token, nextToken, pinned, ioctls, pending, verdict>>

\* A completion with another token is consumed and forgotten.
DiscardCompletion(t) ==
  /\ HasCompletion(t)
  /\ Head(completions).token # token[t]
  /\ completions' = Tail(completions)
  /\ UNCHANGED <<channelVars, lock, pc, threadVars, pinned, ioctls, pending, verdict>>

\* Mutant: the mutex stays locked when the call failed.
ReturnLocked(t) ==
  /\ pc[t] = "return"
  /\ lock' = IF lock = t /\ result[t] # "refused" THEN NoThread ELSE lock
  /\ token' = [token EXCEPT ![t] = 0]
  /\ Goes(t, "idle")
  /\ UNCHANGED <<channelVars, chan, result, nextToken, driverVars>>

\* The guard is dropped with the call, whichever way it ends.
Return(t) ==
  /\ pc[t] = "return"
  /\ lock' = IF lock = t THEN NoThread ELSE lock
  /\ token' = [token EXCEPT ![t] = 0]
  /\ Goes(t, "idle")
  /\ UNCHANGED <<channelVars, chan, result, nextToken, driverVars>>

\* The driver and the scheduler behind it, reduced to their promise.
DriverExecutes ==
  /\ pending # <<>>
  /\ \E end \in {"ok", "failed"} :
       /\ verdict' = [verdict EXCEPT ![Head(pending)] = end]
       /\ completions' = Append(completions, [token |-> Head(pending), end |-> end])
  /\ pending' = Tail(pending)
  /\ UNCHANGED <<channelVars, lock, pc, threadVars, pinned, ioctls>>

-----------------------------------------------------------------------------

CallStep(t) ==
  \/ LockChannel(t)
  \/ CheckBuilt(t)
  \/ ReuseMemory(t)
  \/ PinMemory(t)
  \/ PinMemoryFails(t)
  \/ MarkBuilt(t)
  \/ StoreMemory(t)
  \/ OpenEndpoints(t)
  \/ OpenEndpointsFails(t)
  \/ SendEntry(t)
  \/ SendEntryFails(t)
  \/ SubmitAccepted(t)
  \/ SubmitFails(t)
  \/ TakeCompletion(t)
  \/ DiscardCompletion(t)
  \/ Return(t)

Next ==
  \/ \E t \in Threads : BeginCall(t) \/ CallStep(t)
  \/ DriverExecutes

Spec == Init /\ [][Next]_vars

\* A thread inside a call keeps running, std's Mutex does not pass a waiter
\* over for ever, and the driver executes what it accepted.
Fairness ==
  /\ \A t \in Threads : WF_vars(CallStep(t)) /\ SF_vars(LockChannel(t))
  /\ WF_vars(DriverExecutes)

FairSpec == Spec /\ Fairness

-----------------------------------------------------------------------------
(* Properties.                                                             *)

\* The state of the process and of its driver.  The mutex is held by the ORT
\* thread that is between its lock and its return, and by nobody else.
TypeOK ==
  /\ built \in BOOLEAN
  /\ {memory, lock, cached, pinned} \subseteq Threads \cup {NoThread}
  /\ pc \in [Threads -> {"idle", "lock", "build", "reuse", "pin", "mark", "store", "open",
                         "send", "submit", "wait", "return"}]
  /\ chan \in [Threads -> Threads \cup {NoThread}]
  /\ token \in [Threads -> Tokens \cup {0}]
  /\ result \in [Threads -> {"none", "ok", "failed", "refused"}]
  /\ nextToken \in 1 .. MaxCalls + 1
  /\ ioctls \in Nat
  /\ pending \in Seq(Tokens)
  /\ completions \in Seq([token : Tokens, end : {"ok", "failed"}])
  /\ verdict \in [Tokens -> {"none", "ok", "failed"}]
  /\ \A t \in Threads : lock = t <=> t \in OrtThreads /\ pc[t] \notin {"idle", "lock"}

\* "进程内只允许第一次调用真正执行 ioctl" (kd_uring.rs:231): the driver is
\* handed one memory for the channel, which is the one the process keeps.
BuiltOnce ==
  /\ ioctls <= 1
  /\ memory # NoThread => memory = pinned

\* A call that ends with a result has the result of its own graph, although
\* completions of entries left behind by failed calls come first.
OwnVerdict ==
  \A t \in Threads :
    pc[t] = "return" /\ result[t] \in {"ok", "failed"} => verdict[token[t]] = result[t]

\* A completion that wait_graph_complete throws away was nobody else's.
NoWaiterRobbed ==
  [][ \A t \in Threads :
        DiscardCompletion(t) =>
          \A u \in Threads : u # t /\ pc[u] \in {"submit", "wait"} =>
            token[u] # Head(completions).token ]_vars

\* Every call returns: nobody is left holding the mutex, waiting for it, or
\* waiting for a completion somebody else took.
EveryCallReturns == \A t \in Threads : pc[t] # "idle" ~> pc[t] = "idle"
=============================================================================
