---------------------------- MODULE FrontendProof ----------------------------
(***************************************************************************)
(* Proofs about the user side, for any number of threads and calls: who    *)
(* holds the mutex, whose result a call returns, and, when every thread    *)
(* goes through ONNX Runtime, that the channel is built once and no waiter *)
(* loses its completion to another.                                        *)
(***************************************************************************)
EXTENDS Frontend, TLAPS

USE DEF channelVars, threadVars, driverVars, vars

Labels == {"idle", "lock", "build", "reuse", "pin", "mark", "store", "open", "send", "submit",
           "wait", "return"}
Results == {"none", "ok", "failed", "refused"}
Ends == {"ok", "failed"}
CompletionRecords == [token : Tokens, end : Ends]

\* A thread has a token of its own from its call to its return.
OwnToken ==
  /\ \A t \in Threads : pc[t] # "idle" => token[t] \in Tokens /\ token[t] < nextToken
  /\ \A t, u \in Threads :
       t # u /\ pc[t] # "idle" /\ pc[u] # "idle" => token[t] # token[u]

\* Nobody but a thread of ONNX Runtime asks for the mutex.
LockedByOrt == \A t \in Threads : pc[t] = "lock" => t \in OrtThreads

\* The driver has each token once: pending, or executed and never again pending.
Unsent == {"lock", "build", "reuse", "pin", "mark", "store", "open", "send", "submit"}

TokenOnce ==
  /\ \A i \in 1 .. Len(pending) :
       /\ pending[i] < nextToken
       /\ verdict[pending[i]] = "none"
       /\ \A j \in 1 .. Len(pending) : pending[j] = pending[i] => j = i
  /\ \A k \in Tokens : verdict[k] # "none" => k < nextToken
  /\ \A t \in Threads : pc[t] \in Unsent =>
       /\ verdict[token[t]] = "none"
       /\ \A i \in 1 .. Len(pending) : pending[i] # token[t]

\* What is in the completion channel is what was executed.
TrueCompletions ==
  \A i \in 1 .. Len(completions) : verdict[completions[i].token] = completions[i].end

CallInvariant == TypeOK /\ LockedByOrt /\ OwnToken /\ TokenOnce /\ TrueCompletions /\ OwnVerdict

-----------------------------------------------------------------------------
(* Sequences. *)

LEMMA AppendFacts ==
  ASSUME NEW S, NEW q \in Seq(S), NEW e \in S
  PROVE  /\ Append(q, e) \in Seq(S)
         /\ Len(Append(q, e)) = Len(q) + 1
         /\ Append(q, e)[Len(q) + 1] = e
         /\ \A i \in 1 .. Len(q) : Append(q, e)[i] = q[i]
OBVIOUS

LEMMA TailFacts ==
  ASSUME NEW S, NEW q \in Seq(S), q # <<>>
  PROVE  /\ Head(q) \in S /\ Head(q) = q[1]
         /\ Tail(q) \in Seq(S)
         /\ Len(q) \in Nat /\ Len(q) >= 1 /\ Len(Tail(q)) = Len(q) - 1
         /\ \A i \in 1 .. Len(q) - 1 : Tail(q)[i] = q[i + 1] /\ i + 1 \in 1 .. Len(q)
OBVIOUS

-----------------------------------------------------------------------------

LEMMA CallInit == Init => CallInvariant
<1> SUFFICES ASSUME Init PROVE CallInvariant
  OBVIOUS
<1> USE ThreadAssumption, CallAssumption DEF Init
<1>1. pending \in Seq(Tokens) /\ completions \in Seq(CompletionRecords)
      /\ Len(pending) = 0 /\ Len(completions) = 0
  OBVIOUS
<1>2. TypeOK
  <2>1. \A t \in Threads : lock = t <=> t \in OrtThreads /\ pc[t] \notin {"idle", "lock"}
    OBVIOUS
  <2>2. token \in [Threads -> Tokens \cup {0}] /\ result \in [Threads -> {"none", "ok", "failed", "refused"}]
        /\ verdict \in [Tokens -> {"none", "ok", "failed"}] /\ nextToken \in 1 .. MaxCalls + 1
    OBVIOUS
  <2> QED BY <1>1, <2>1, <2>2 DEF TypeOK, CompletionRecords, Ends
<1>3. LockedByOrt /\ OwnToken /\ TokenOnce /\ TrueCompletions /\ OwnVerdict
  BY <1>1 DEF LockedByOrt, OwnToken, TokenOnce, TrueCompletions, OwnVerdict, Tokens, Unsent
<1> QED BY <1>2, <1>3 DEF CallInvariant

LEMMA TypeStep ==
  ASSUME TypeOK, LockedByOrt, OwnToken, [Next]_vars
  PROVE  TypeOK'
<1> USE ThreadAssumption, CallAssumption DEF TypeOK, Goes, Fails
<1>1. ASSUME NEW t \in Threads, BeginCall(t) PROVE TypeOK'
  BY <1>1 DEF BeginCall, Tokens
<1>2. ASSUME NEW t \in Threads, LockChannel(t) PROVE TypeOK'
  <2>1. PICK x \in {"build", "send"} : pc' = [pc EXCEPT ![t] = x]
    BY <1>2 DEF LockChannel
  <2>2. lock = NoThread /\ lock' = t /\ t \in OrtThreads
    BY <1>2 DEF LockChannel, LockedByOrt
  <2>3. \A u \in Threads : lock' = u <=> u \in OrtThreads /\ pc'[u] \notin {"idle", "lock"}
    BY <2>1, <2>2
  <2>4. UNCHANGED <<channelVars, token, result, nextToken, driverVars>>
        /\ chan' = [chan EXCEPT ![t] = cached]
    BY <1>2 DEF LockChannel
  <2> QED BY <2>1, <2>2, <2>3, <2>4
<1>3. ASSUME NEW t \in Threads, CheckBuilt(t) PROVE TypeOK'
  BY <1>3 DEF CheckBuilt
<1>4. ASSUME NEW t \in Threads, ReuseMemory(t) PROVE TypeOK'
  BY <1>4 DEF ReuseMemory
<1>5. ASSUME NEW t \in Threads, PinMemory(t) PROVE TypeOK'
  BY <1>5 DEF PinMemory
<1>6. ASSUME NEW t \in Threads, PinMemoryFails(t) PROVE TypeOK'
  BY <1>6 DEF PinMemoryFails
<1>7. ASSUME NEW t \in Threads, MarkBuilt(t) PROVE TypeOK'
  BY <1>7 DEF MarkBuilt
<1>8. ASSUME NEW t \in Threads, StoreMemory(t) PROVE TypeOK'
  BY <1>8 DEF StoreMemory
<1>9. ASSUME NEW t \in Threads, OpenEndpoints(t) PROVE TypeOK'
  BY <1>9 DEF OpenEndpoints
<1>10. ASSUME NEW t \in Threads, OpenEndpointsFails(t) PROVE TypeOK'
  BY <1>10 DEF OpenEndpointsFails
<1>11. ASSUME NEW t \in Threads, SendEntry(t) PROVE TypeOK'
  BY <1>11 DEF SendEntry
<1>12. ASSUME NEW t \in Threads, SendEntryFails(t) PROVE TypeOK'
  BY <1>12 DEF SendEntryFails
<1>13. ASSUME NEW t \in Threads, SubmitAccepted(t) PROVE TypeOK'
  <2>1. token[t] \in Tokens
    BY <1>13 DEF SubmitAccepted, OwnToken
  <2>2. pending' \in Seq(Tokens)
    <3>1. pending' = Append(pending, token[t]) /\ pending \in Seq(Tokens)
      BY <1>13 DEF SubmitAccepted
    <3> QED BY ONLY <2>1, <3>1, AppendFacts
  <2> QED BY <1>13, <2>2 DEF SubmitAccepted
<1>14. ASSUME NEW t \in Threads, SubmitFails(t) PROVE TypeOK'
  <2>1. token[t] \in Tokens
    BY <1>14 DEF SubmitFails, OwnToken
  <2>2. pending' \in Seq(Tokens)
    <3>1. pending' \in {pending, Append(pending, token[t])} /\ pending \in Seq(Tokens)
      BY <1>14 DEF SubmitFails
    <3> QED BY ONLY <2>1, <3>1, AppendFacts
  <2> QED BY <1>14, <2>2 DEF SubmitFails
<1>15. ASSUME NEW t \in Threads, TakeCompletion(t) PROVE TypeOK'
  <2>1. completions # <<>> /\ completions \in Seq(CompletionRecords) /\ completions' = Tail(completions)
    BY <1>15 DEF TakeCompletion, HasCompletion, CompletionRecords, Ends
  <2>2. completions' \in Seq(CompletionRecords) /\ Head(completions) \in CompletionRecords
    BY ONLY <2>1, TailFacts
  <2>3. Head(completions).end \in Ends
    BY <2>2 DEF CompletionRecords
  <2> QED BY <1>15, <2>2, <2>3 DEF TakeCompletion, HasCompletion, CompletionRecords, Ends
<1>16. ASSUME NEW t \in Threads, DiscardCompletion(t) PROVE TypeOK'
  <2>1. completions # <<>> /\ completions \in Seq(CompletionRecords) /\ completions' = Tail(completions)
    BY <1>16 DEF DiscardCompletion, HasCompletion, CompletionRecords, Ends
  <2>2. completions' \in Seq(CompletionRecords) /\ Head(completions) \in CompletionRecords
    BY ONLY <2>1, TailFacts
  <2>3. Head(completions).end \in Ends
    BY <2>2 DEF CompletionRecords
  <2> QED BY <1>16, <2>2, <2>3 DEF DiscardCompletion, HasCompletion, CompletionRecords, Ends
<1>17. ASSUME NEW t \in Threads, Return(t) PROVE TypeOK'
  BY <1>17 DEF Return
<1>18. CASE DriverExecutes
  BY <1>18 DEF DriverExecutes
<1>19. CASE UNCHANGED vars
  BY <1>19
<1> QED
  BY <1>1, <1>2, <1>3, <1>4, <1>5, <1>6, <1>7, <1>8, <1>9, <1>10, <1>11, <1>12, <1>13, <1>14, <1>15, <1>16, <1>17, <1>18, <1>19 DEF Next, CallStep

\* The steps of a call before its ioctl touch no token, and end in no result.
LEMMA QuietStepKeeps ==
  ASSUME CallInvariant, TypeOK', NEW t \in Threads, NEW x \in Unsent \cup {"return"},
         pc[t] \in Unsent, pc' = [pc EXCEPT ![t] = x], x # "lock",
         UNCHANGED <<token, nextToken, pending, completions, verdict>>,
         \A u \in Threads : u # t => result'[u] = result[u], x = "return" => result'[t] = "refused"
  PROVE  CallInvariant'
<1> USE DEF CallInvariant, TypeOK
<1>1. LockedByOrt' /\ OwnToken'
  BY DEF LockedByOrt, OwnToken, Unsent
<1>2. TokenOnce'
  BY DEF TokenOnce, Unsent
<1>3. TrueCompletions'
  BY DEF TrueCompletions
<1>4. OwnVerdict'
  BY DEF OwnVerdict
<1> QED BY <1>1, <1>2, <1>3, <1>4

LEMMA QuietStep ==
  ASSUME CallInvariant, TypeOK', NEW t \in Threads,
         \/ LockChannel(t) \/ CheckBuilt(t) \/ ReuseMemory(t)
         \/ PinMemory(t) \/ PinMemoryFails(t) \/ MarkBuilt(t)
         \/ StoreMemory(t) \/ OpenEndpoints(t) \/ OpenEndpointsFails(t)
         \/ SendEntry(t) \/ SendEntryFails(t)
  PROVE  CallInvariant'
<1>0. pc \in [Threads -> Labels] /\ result \in [Threads -> Results]
  BY DEF CallInvariant, TypeOK, Labels, Results
<1> USE DEF Goes, Fails, Unsent
<1>1. CASE LockChannel(t)
  <2>1. PICK x \in Unsent \cup {"return"} :
          pc' = [pc EXCEPT ![t] = x] /\ x # "lock" /\ (x = "return" => result'[t] = "refused")
    <3>1. CASE cached = NoThread
      BY <1>1, <1>0, <3>1 DEF LockChannel
    <3>2. CASE ~(cached = NoThread)
      BY <1>1, <1>0, <3>2 DEF LockChannel
    <3> QED BY <3>1, <3>2
  <2>2. /\ pc[t] \in Unsent /\ UNCHANGED <<token, nextToken, pending, completions, verdict>>
        /\ \A u \in Threads : u # t => result'[u] = result[u]
    BY <1>1, <1>0 DEF LockChannel
  <2> QED BY <2>1, <2>2, QuietStepKeeps
<1>2. CASE CheckBuilt(t)
  <2>1. PICK x \in Unsent \cup {"return"} :
          pc' = [pc EXCEPT ![t] = x] /\ x # "lock" /\ (x = "return" => result'[t] = "refused")
    <3>1. CASE built
      BY <1>2, <1>0, <3>1 DEF CheckBuilt
    <3>2. CASE ~(built)
      BY <1>2, <1>0, <3>2 DEF CheckBuilt
    <3> QED BY <3>1, <3>2
  <2>2. /\ pc[t] \in Unsent /\ UNCHANGED <<token, nextToken, pending, completions, verdict>>
        /\ \A u \in Threads : u # t => result'[u] = result[u]
    BY <1>2, <1>0 DEF CheckBuilt
  <2> QED BY <2>1, <2>2, QuietStepKeeps
<1>3. CASE ReuseMemory(t)
  <2>1. PICK x \in Unsent \cup {"return"} :
          pc' = [pc EXCEPT ![t] = x] /\ x # "lock" /\ (x = "return" => result'[t] = "refused")
    <3>1. CASE memory = NoThread
      BY <1>3, <1>0, <3>1 DEF ReuseMemory
    <3>2. CASE ~(memory = NoThread)
      BY <1>3, <1>0, <3>2 DEF ReuseMemory
    <3> QED BY <3>1, <3>2
  <2>2. /\ pc[t] \in Unsent /\ UNCHANGED <<token, nextToken, pending, completions, verdict>>
        /\ \A u \in Threads : u # t => result'[u] = result[u]
    BY <1>3, <1>0 DEF ReuseMemory
  <2> QED BY <2>1, <2>2, QuietStepKeeps
<1>4. CASE PinMemory(t)
  <2>1. PICK x \in Unsent \cup {"return"} :
          pc' = [pc EXCEPT ![t] = x] /\ x # "lock" /\ (x = "return" => result'[t] = "refused")
    BY <1>4, <1>0 DEF PinMemory
  <2>2. /\ pc[t] \in Unsent /\ UNCHANGED <<token, nextToken, pending, completions, verdict>>
        /\ \A u \in Threads : u # t => result'[u] = result[u]
    BY <1>4, <1>0 DEF PinMemory
  <2> QED BY <2>1, <2>2, QuietStepKeeps
<1>5. CASE PinMemoryFails(t)
  <2>1. PICK x \in Unsent \cup {"return"} :
          pc' = [pc EXCEPT ![t] = x] /\ x # "lock" /\ (x = "return" => result'[t] = "refused")
    BY <1>5, <1>0 DEF PinMemoryFails
  <2>2. /\ pc[t] \in Unsent /\ UNCHANGED <<token, nextToken, pending, completions, verdict>>
        /\ \A u \in Threads : u # t => result'[u] = result[u]
    BY <1>5, <1>0 DEF PinMemoryFails
  <2> QED BY <2>1, <2>2, QuietStepKeeps
<1>6. CASE MarkBuilt(t)
  <2>1. PICK x \in Unsent \cup {"return"} :
          pc' = [pc EXCEPT ![t] = x] /\ x # "lock" /\ (x = "return" => result'[t] = "refused")
    BY <1>6, <1>0 DEF MarkBuilt
  <2>2. /\ pc[t] \in Unsent /\ UNCHANGED <<token, nextToken, pending, completions, verdict>>
        /\ \A u \in Threads : u # t => result'[u] = result[u]
    BY <1>6, <1>0 DEF MarkBuilt
  <2> QED BY <2>1, <2>2, QuietStepKeeps
<1>7. CASE StoreMemory(t)
  <2>1. PICK x \in Unsent \cup {"return"} :
          pc' = [pc EXCEPT ![t] = x] /\ x # "lock" /\ (x = "return" => result'[t] = "refused")
    BY <1>7, <1>0 DEF StoreMemory
  <2>2. /\ pc[t] \in Unsent /\ UNCHANGED <<token, nextToken, pending, completions, verdict>>
        /\ \A u \in Threads : u # t => result'[u] = result[u]
    BY <1>7, <1>0 DEF StoreMemory
  <2> QED BY <2>1, <2>2, QuietStepKeeps
<1>8. CASE OpenEndpoints(t)
  <2>1. PICK x \in Unsent \cup {"return"} :
          pc' = [pc EXCEPT ![t] = x] /\ x # "lock" /\ (x = "return" => result'[t] = "refused")
    BY <1>8, <1>0 DEF OpenEndpoints
  <2>2. /\ pc[t] \in Unsent /\ UNCHANGED <<token, nextToken, pending, completions, verdict>>
        /\ \A u \in Threads : u # t => result'[u] = result[u]
    BY <1>8, <1>0 DEF OpenEndpoints
  <2> QED BY <2>1, <2>2, QuietStepKeeps
<1>9. CASE OpenEndpointsFails(t)
  <2>1. PICK x \in Unsent \cup {"return"} :
          pc' = [pc EXCEPT ![t] = x] /\ x # "lock" /\ (x = "return" => result'[t] = "refused")
    BY <1>9, <1>0 DEF OpenEndpointsFails
  <2>2. /\ pc[t] \in Unsent /\ UNCHANGED <<token, nextToken, pending, completions, verdict>>
        /\ \A u \in Threads : u # t => result'[u] = result[u]
    BY <1>9, <1>0 DEF OpenEndpointsFails
  <2> QED BY <2>1, <2>2, QuietStepKeeps
<1>10. CASE SendEntry(t)
  <2>1. PICK x \in Unsent \cup {"return"} :
          pc' = [pc EXCEPT ![t] = x] /\ x # "lock" /\ (x = "return" => result'[t] = "refused")
    BY <1>10, <1>0 DEF SendEntry
  <2>2. /\ pc[t] \in Unsent /\ UNCHANGED <<token, nextToken, pending, completions, verdict>>
        /\ \A u \in Threads : u # t => result'[u] = result[u]
    BY <1>10, <1>0 DEF SendEntry
  <2> QED BY <2>1, <2>2, QuietStepKeeps
<1>11. CASE SendEntryFails(t)
  <2>1. PICK x \in Unsent \cup {"return"} :
          pc' = [pc EXCEPT ![t] = x] /\ x # "lock" /\ (x = "return" => result'[t] = "refused")
    BY <1>11, <1>0 DEF SendEntryFails
  <2>2. /\ pc[t] \in Unsent /\ UNCHANGED <<token, nextToken, pending, completions, verdict>>
        /\ \A u \in Threads : u # t => result'[u] = result[u]
    BY <1>11, <1>0 DEF SendEntryFails
  <2> QED BY <2>1, <2>2, QuietStepKeeps
<1> QED BY <1>1, <1>2, <1>3, <1>4, <1>5, <1>6, <1>7, <1>8, <1>9, <1>10, <1>11

LEMMA BeginCallKeeps ==
  ASSUME CallInvariant, TypeOK', NEW t \in Threads, BeginCall(t)
  PROVE  CallInvariant'
<1> USE DEF CallInvariant, TypeOK, BeginCall, Goes
<1>1. LockedByOrt'
  BY DEF LockedByOrt
<1>2. OwnToken'
  BY CallAssumption DEF OwnToken, Tokens
<1>3. TokenOnce'
  BY CallAssumption DEF TokenOnce, Tokens, Unsent, OwnToken
<1>4. TrueCompletions' /\ OwnVerdict'
  BY DEF TrueCompletions, OwnVerdict
<1> QED BY <1>1, <1>2, <1>3, <1>4

\* An entry accepted, or left behind by a submission that failed, is a token
\* the driver has not had before.
LEMMA SubmitKeeps ==
  ASSUME CallInvariant, TypeOK', NEW t \in Threads, SubmitAccepted(t) \/ SubmitFails(t)
  PROVE  CallInvariant'
<1> USE DEF CallInvariant, TypeOK, Goes, Fails
<1>1. PICK x \in {"wait", "return"} :
        /\ pc[t] = "submit" /\ pc' = [pc EXCEPT ![t] = x]
        /\ x = "return" => result'[t] = "refused"
        /\ \A u \in Threads : u # t => result'[u] = result[u]
        /\ UNCHANGED <<token, nextToken, completions, verdict>>
        /\ pending' \in {pending, Append(pending, token[t])}
  BY DEF SubmitAccepted, SubmitFails
<1>2. token[t] \in Tokens /\ token[t] < nextToken /\ verdict[token[t]] = "none"
      /\ \A i \in 1 .. Len(pending) : pending[i] # token[t]
  BY <1>1 DEF OwnToken, TokenOnce, Unsent
<1>3. LockedByOrt' /\ OwnToken'
  BY <1>1 DEF LockedByOrt, OwnToken
<1>4. TokenOnce'
  <2>1. CASE pending' = pending
    BY <1>1, <2>1 DEF TokenOnce, Unsent
  <2>2. CASE pending' = Append(pending, token[t])
    <3>1. /\ Len(pending') = Len(pending) + 1 /\ pending'[Len(pending) + 1] = token[t]
          /\ \A i \in 1 .. Len(pending) : pending'[i] = pending[i]
          /\ Len(pending) \in Nat
      <4>1. pending \in Seq(Tokens)
        OBVIOUS
      <4> QED BY ONLY <4>1, <1>2, <2>2, AppendFacts
    <3>2. ASSUME NEW i \in 1 .. Len(pending')
          PROVE  /\ pending'[i] < nextToken
                 /\ verdict[pending'[i]] = "none"
                 /\ \A j \in 1 .. Len(pending') : pending'[j] = pending'[i] => j = i
      <4>1. \A j \in 1 .. Len(pending') : j = Len(pending) + 1 \/ j \in 1 .. Len(pending)
        BY <3>1
      <4>2. CASE i = Len(pending) + 1
        BY <4>1, <4>2, <3>1, <1>2
      <4>3. CASE i # Len(pending) + 1
        <5>1. i \in 1 .. Len(pending) /\ pending'[i] = pending[i] /\ pending[i] # token[t]
          BY <4>1, <4>3, <3>1, <1>2
        <5>2. /\ pending[i] < nextToken /\ verdict[pending[i]] = "none"
              /\ \A j \in 1 .. Len(pending) : pending[j] = pending[i] => j = i
          BY <5>1 DEF TokenOnce
        <5>3. \A j \in 1 .. Len(pending') : pending'[j] = pending'[i] => j = i
          BY ONLY <4>1, <5>1, <5>2, <3>1
        <5> QED BY <5>1, <5>2, <5>3
      <4> QED BY <4>2, <4>3
    <3>3. ASSUME NEW u \in Threads, pc'[u] \in Unsent
          PROVE  /\ verdict[token[u]] = "none"
                 /\ \A i \in 1 .. Len(pending') : pending'[i] # token[u]
      <4>1. u # t /\ pc[u] \in Unsent
        BY <1>1, <3>3 DEF Unsent
      <4>2. token[u] # token[t]
        BY <4>1, <1>1 DEF OwnToken, Unsent
      <4>3. \A j \in 1 .. Len(pending') : j = Len(pending) + 1 \/ j \in 1 .. Len(pending)
        BY <3>1
      <4> QED BY <4>1, <4>2, <4>3, <3>1 DEF TokenOnce
    <3> QED BY <3>2, <3>3, <1>1 DEF TokenOnce
  <2> QED BY <1>1, <2>1, <2>2
<1>5. TrueCompletions' /\ OwnVerdict'
  BY <1>1 DEF TrueCompletions, OwnVerdict
<1> QED BY <1>3, <1>4, <1>5

\* The completion that ends a wait carries the verdict on the thread's token.
LEMMA CompletionKeeps ==
  ASSUME CallInvariant, TypeOK', NEW t \in Threads, TakeCompletion(t) \/ DiscardCompletion(t)
  PROVE  CallInvariant'
<1> USE DEF CallInvariant, TypeOK, Goes
<1>1. /\ pc[t] = "wait" /\ completions # <<>> /\ completions' = Tail(completions)
      /\ UNCHANGED <<token, nextToken, pending, verdict>>
  BY DEF TakeCompletion, DiscardCompletion, HasCompletion
<1>2. /\ Head(completions) = completions[1] /\ Len(completions) \in Nat /\ Len(completions) >= 1
      /\ Len(completions') = Len(completions) - 1
      /\ \A i \in 1 .. Len(completions) - 1 :
           completions'[i] = completions[i + 1] /\ i + 1 \in 1 .. Len(completions)
  <2>1. completions \in Seq(CompletionRecords)
    BY DEF CompletionRecords, Ends
  <2> QED BY ONLY <2>1, <1>1, TailFacts
<1>3. TrueCompletions'
  BY <1>1, <1>2 DEF TrueCompletions
<1>4. LockedByOrt' /\ OwnToken' /\ TokenOnce'
  <2>1. PICK x \in {"wait", "return"} : pc' = [pc EXCEPT ![t] = x]
    BY <1>1 DEF TakeCompletion, DiscardCompletion
  <2>2. LockedByOrt' /\ OwnToken'
    BY <1>1, <2>1 DEF LockedByOrt, OwnToken
  <2> QED BY <1>1, <2>1, <2>2 DEF TokenOnce, Unsent
<1>5. OwnVerdict'
  <2>1. CASE TakeCompletion(t)
    <3>1. verdict[token[t]] = result'[t]
      BY <2>1, <1>2 DEF TakeCompletion, TrueCompletions
    <3> QED BY <1>1, <2>1, <3>1 DEF TakeCompletion, OwnVerdict
  <2>2. CASE DiscardCompletion(t)
    BY <1>1, <2>2 DEF DiscardCompletion, OwnVerdict
  <2> QED BY <2>1, <2>2
<1> QED BY <1>3, <1>4, <1>5

LEMMA ReturnKeeps ==
  ASSUME CallInvariant, TypeOK', NEW t \in Threads, Return(t)
  PROVE  CallInvariant'
<1> USE DEF CallInvariant, TypeOK, Goes, Return
<1>1. LockedByOrt' /\ OwnToken'
  BY DEF LockedByOrt, OwnToken
<1>2. TokenOnce'
  BY DEF TokenOnce, Unsent
<1>3. TrueCompletions' /\ OwnVerdict'
  BY DEF TrueCompletions, OwnVerdict
<1> QED BY <1>1, <1>2, <1>3

\* The driver executes a token that had no verdict, so no verdict changes.
LEMMA DriverKeeps ==
  ASSUME CallInvariant, TypeOK', DriverExecutes
  PROVE  CallInvariant'
<1> USE DEF CallInvariant, TypeOK
<1>1. PICK end \in Ends :
        /\ pending # <<>> /\ pending' = Tail(pending)
        /\ verdict' = [verdict EXCEPT ![Head(pending)] = end]
        /\ completions' = Append(completions, [token |-> Head(pending), end |-> end])
        /\ UNCHANGED <<channelVars, lock, pc, threadVars, pinned, ioctls>>
  BY DEF DriverExecutes, Ends
<1>2. /\ Head(pending) \in Tokens /\ Head(pending) = pending[1]
      /\ Len(pending) \in Nat /\ Len(pending) >= 1 /\ Len(pending') = Len(pending) - 1
      /\ \A i \in 1 .. Len(pending) - 1 : pending'[i] = pending[i + 1] /\ i + 1 \in 1 .. Len(pending)
  <2>1. pending \in Seq(Tokens)
    OBVIOUS
  <2> QED BY ONLY <2>1, <1>1, TailFacts
<1>3. verdict[Head(pending)] = "none" /\ Head(pending) < nextToken
  BY <1>2 DEF TokenOnce
<1>4. /\ completions \in Seq(CompletionRecords) /\ Len(completions) \in Nat
      /\ Len(completions') = Len(completions) + 1
      /\ completions'[Len(completions) + 1] = [token |-> Head(pending), end |-> end]
      /\ \A i \in 1 .. Len(completions) : completions'[i] = completions[i]
  <2>1. completions \in Seq(CompletionRecords)
    BY DEF CompletionRecords, Ends
  <2>2. [token |-> Head(pending), end |-> end] \in CompletionRecords
    BY <1>2 DEF CompletionRecords
  <2> QED BY ONLY <2>1, <2>2, <1>1, AppendFacts
<1>5. LockedByOrt' /\ OwnToken'
  BY <1>1 DEF LockedByOrt, OwnToken
<1>6. TokenOnce'
  <2>1. ASSUME NEW i \in 1 .. Len(pending')
        PROVE  /\ pending'[i] < nextToken
               /\ verdict'[pending'[i]] = "none"
               /\ \A j \in 1 .. Len(pending') : pending'[j] = pending'[i] => j = i
    <3>1. i \in Int /\ pending'[i] = pending[i + 1] /\ i + 1 \in 1 .. Len(pending) /\ i + 1 # 1
          /\ 1 \in 1 .. Len(pending)
      BY <1>2
    <3>2. pending[i + 1] # pending[1] /\ verdict[pending[i + 1]] = "none" /\ pending[i + 1] < nextToken
      BY <3>1 DEF TokenOnce
    <3>3. pending[i + 1] \in Tokens
      BY <3>1
    <3>4. verdict'[pending'[i]] = "none"
      BY <1>1, <1>2, <3>1, <3>2, <3>3
    <3>5. ASSUME NEW j \in 1 .. Len(pending'), pending'[j] = pending'[i] PROVE j = i
      <4>1. j \in Int /\ pending'[j] = pending[j + 1] /\ j + 1 \in 1 .. Len(pending)
        BY <1>2
      <4>2. pending[j + 1] = pending[i + 1]
        BY <3>1, <3>5, <4>1
      <4>3. j + 1 = i + 1
        <5>1. \A l, m \in 1 .. Len(pending) : pending[l] = pending[m] => l = m
          BY DEF TokenOnce
        <5> QED BY ONLY <5>1, <4>1, <4>2, <3>1
      <4> QED BY <3>1, <4>1, <4>3
    <3> QED BY <3>1, <3>2, <3>4, <3>5
  <2>2. \A k \in Tokens : verdict'[k] # "none" => k < nextToken
    BY <1>1, <1>2, <1>3 DEF TokenOnce
  <2>3. ASSUME NEW u \in Threads, pc[u] \in Unsent
        PROVE  /\ verdict'[token[u]] = "none"
               /\ \A i \in 1 .. Len(pending') : pending'[i] # token[u]
    <3>1. verdict[token[u]] = "none" /\ \A i \in 1 .. Len(pending) : pending[i] # token[u]
      BY <2>3 DEF TokenOnce
    <3>2. token[u] \in Tokens
      BY <2>3 DEF OwnToken, Unsent
    <3>3. token[u] # Head(pending)
      BY <3>1, <1>2
    <3> QED BY <1>1, <1>2, <3>1, <3>2, <3>3
  <2> QED BY <1>1, <2>1, <2>2, <2>3 DEF TokenOnce
<1>7. TrueCompletions'
  <2>1. ASSUME NEW i \in 1 .. Len(completions')
        PROVE  verdict'[completions'[i].token] = completions'[i].end
    <3>1. CASE i = Len(completions) + 1
      BY <3>1, <1>1, <1>2, <1>4
    <3>2. CASE i # Len(completions) + 1
      <4>1. i \in 1 .. Len(completions) /\ completions'[i] = completions[i]
        BY <3>2, <1>4
      <4>2. completions[i] \in CompletionRecords
        BY <4>1, <1>4
      <4>3. completions[i].end \in Ends /\ completions[i].token \in Tokens
        BY <4>2 DEF CompletionRecords
      <4>4. verdict[completions[i].token] = completions[i].end
        BY <4>1 DEF TrueCompletions
      <4>5. completions[i].token # Head(pending)
        BY <4>3, <4>4, <1>3 DEF Ends
      <4> QED BY <4>1, <4>3, <4>4, <4>5, <1>1
    <3> QED BY <3>1, <3>2
  <2> QED BY <2>1 DEF TrueCompletions
<1>8. OwnVerdict'
  <2>1. ASSUME NEW t \in Threads, pc[t] = "return", result[t] \in {"ok", "failed"}
        PROVE  verdict'[token[t]] = result[t]
    <3>1. token[t] \in Tokens /\ verdict[token[t]] = result[t]
      BY <2>1 DEF OwnToken, OwnVerdict
    <3>2. token[t] # Head(pending)
      BY <3>1, <1>3, <2>1
    <3> QED BY <3>1, <3>2, <1>1
  <2> QED BY <2>1, <1>1 DEF OwnVerdict
<1> QED BY <1>5, <1>6, <1>7, <1>8

LEMMA CallStepKeeps == CallInvariant /\ [Next]_vars => CallInvariant'
<1> SUFFICES ASSUME CallInvariant, [Next]_vars PROVE CallInvariant'
  OBVIOUS
<1>1. TypeOK'
  BY TypeStep DEF CallInvariant
<1>2. CASE UNCHANGED vars
  BY <1>1, <1>2 DEF CallInvariant, LockedByOrt, OwnToken, TokenOnce, TrueCompletions, OwnVerdict
<1> QED
  BY <1>1, <1>2, QuietStep, BeginCallKeeps, SubmitKeeps, CompletionKeeps, ReturnKeeps, DriverKeeps
  DEF Next, CallStep

-----------------------------------------------------------------------------

\* The process and the driver keep their types, and the mutex is held by the
\* ONNX Runtime thread that is between its lock and its return, by nobody else.
THEOREM TypeCorrect == Spec => []TypeOK
<1>1. CallInvariant => TypeOK
  BY DEF CallInvariant
<1> QED BY <1>1, CallInit, CallStepKeeps, PTL DEF Spec

\* The invariant of the tokens: every call has one of its own, and the driver
\* executes it at most once.
THEOREM CallsCorrect == Spec => []CallInvariant
BY CallInit, CallStepKeeps, PTL DEF Spec

\* Whatever entries failed calls left behind, and whether or not a thread goes
\* through the mutex: a call that ends with a result has that of its own graph.
THEOREM EveryCallGetsItsOwn == Spec => []OwnVerdict
<1>1. CallInvariant => OwnVerdict
  BY DEF CallInvariant
<1> QED BY <1>1, CallsCorrect, PTL

\* When all threads go through the mutex, the thread that throws a completion
\* away is the only one between its submission and its result.
THEOREM NobodyIsRobbed ==
  ASSUME Threads = OrtThreads
  PROVE  Spec => NoWaiterRobbed
<1>1. TypeOK /\ [Next]_vars
      => [ \A t \in Threads :
             DiscardCompletion(t) =>
               \A u \in Threads : u # t /\ pc[u] \in {"submit", "wait"} =>
                 token[u] # Head(completions).token ]_vars
  <2> SUFFICES ASSUME TypeOK, NEW t \in Threads, DiscardCompletion(t),
                      NEW u \in Threads, u # t, pc[u] \in {"submit", "wait"}
               PROVE  FALSE
    OBVIOUS
  <2>1. pc[t] = "wait"
    BY DEF DiscardCompletion, HasCompletion
  <2> QED BY <2>1 DEF TypeOK
<1> QED BY <1>1, TypeCorrect, PTL DEF Spec, NoWaiterRobbed

-----------------------------------------------------------------------------
(* Building the channel. *)

\* What the steps of build_channel leave behind one another, under the mutex:
\* nothing before the driver is handed a memory; then the flag, then the memory.
Inside(t) == pc[t] \notin {"idle", "lock"}

ChannelInvariant ==
  /\ ioctls = IF pinned = NoThread THEN 0 ELSE 1
  /\ pinned = NoThread => ~built /\ memory = NoThread
  /\ memory # NoThread => memory = pinned
  /\ \A t \in Threads :
       /\ pc[t] = "pin" => pinned = NoThread
       /\ pc[t] = "mark" => ~built
       /\ pc[t] \in {"mark", "store"} => memory = NoThread /\ pinned # NoThread /\ chan[t] = pinned
  /\ pinned # NoThread /\ ~built => \E t \in Threads : pc[t] = "mark"

\* One thread at a time is inside.
LEMMA Alone ==
  ASSUME Threads = OrtThreads, TypeOK, NEW t \in Threads, NEW u \in Threads, Inside(t), Inside(u)
  PROVE  t = u
BY DEF TypeOK, Inside

LEMMA ChannelStep ==
  ASSUME Threads = OrtThreads, TypeOK, ChannelInvariant, [Next]_vars
  PROVE  ChannelInvariant'
<1> USE ThreadAssumption DEF ChannelInvariant, Goes, Fails
<1>0. pc \in [Threads -> Labels] /\ chan \in [Threads -> Threads \cup {NoThread}]
  BY DEF TypeOK, Labels
<1>1. ASSUME NEW t \in Threads, CheckBuilt(t) PROVE ChannelInvariant'
  <2>1. \A u \in Threads : Inside(u) => u = t
    BY <1>1, Alone DEF Inside, CheckBuilt
  <2>2. ~built => pinned = NoThread
    BY <1>1, <2>1 DEF Inside, CheckBuilt
  <2> QED BY <1>0, <1>1, <2>1, <2>2 DEF Inside, CheckBuilt
<1>2. ASSUME NEW t \in Threads, PinMemory(t) PROVE ChannelInvariant'
  <2>1. \A u \in Threads : Inside(u) => u = t
    BY <1>2, Alone DEF Inside, PinMemory
  <2> QED BY <1>0, <1>2, <2>1 DEF Inside, PinMemory
<1>3. ASSUME NEW t \in Threads, MarkBuilt(t) PROVE ChannelInvariant'
  <2>1. \A u \in Threads : Inside(u) => u = t
    BY <1>3, Alone DEF Inside, MarkBuilt
  <2> QED BY <1>0, <1>3, <2>1 DEF Inside, MarkBuilt
<1>4. ASSUME NEW t \in Threads, StoreMemory(t) PROVE ChannelInvariant'
  <2>1. \A u \in Threads : Inside(u) => u = t
    BY <1>4, Alone DEF Inside, StoreMemory
  <2> QED BY <1>0, <1>4, <2>1 DEF Inside, StoreMemory
<1>5. CASE DriverExecutes \/ UNCHANGED vars
  BY <1>5 DEF DriverExecutes
<1>6. ASSUME NEW t \in Threads, BeginCall(t) \/ LockChannel(t) PROVE ChannelInvariant'
  BY <1>0, <1>6 DEF BeginCall, LockChannel
<1>7. ASSUME NEW t \in Threads,
             ReuseMemory(t) \/ PinMemoryFails(t) \/ OpenEndpoints(t) \/ OpenEndpointsFails(t)
      PROVE  ChannelInvariant'
  BY <1>0, <1>7 DEF ReuseMemory, PinMemoryFails, OpenEndpoints, OpenEndpointsFails
<1>8. ASSUME NEW t \in Threads,
             SendEntry(t) \/ SendEntryFails(t) \/ SubmitAccepted(t) \/ SubmitFails(t)
      PROVE  ChannelInvariant'
  BY <1>0, <1>8 DEF SendEntry, SendEntryFails, SubmitAccepted, SubmitFails
<1>9. ASSUME NEW t \in Threads, TakeCompletion(t) \/ DiscardCompletion(t) \/ Return(t)
       PROVE  ChannelInvariant'
  BY <1>0, <1>9 DEF TakeCompletion, DiscardCompletion, HasCompletion, Return
<1> QED BY <1>1, <1>2, <1>3, <1>4, <1>5, <1>6, <1>7, <1>8, <1>9 DEF Next, CallStep

\* When all threads go through the mutex, the driver is handed one memory, and
\* it is the one the process keeps, although a step of build_channel may fail.
THEOREM ChannelIsBuiltOnce ==
  ASSUME Threads = OrtThreads
  PROVE  Spec => []BuiltOnce
<1>1. Init => ChannelInvariant
  BY DEF Init, ChannelInvariant
<1>2. TypeOK /\ ChannelInvariant /\ [Next]_vars => ChannelInvariant'
  BY ChannelStep
<1>3. ChannelInvariant => BuiltOnce
  BY DEF ChannelInvariant, BuiltOnce
<1> QED BY <1>1, <1>2, <1>3, TypeCorrect, PTL DEF Spec
=============================================================================
