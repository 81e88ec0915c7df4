---------------------------- MODULE GraphService ----------------------------
(***************************************************************************)
(* What submitting a graph promises, whatever the threads do: graphs are   *)
(* executed one at a time in the order they were accepted, each one once,  *)
(* and each result is reported once, before the next graph starts.  The    *)
(* report may be lost only because the completion channel has no room.     *)
(*                                                                         *)
(* Scheduler implements this module.                                       *)
(***************************************************************************)
EXTENDS Integers, Sequences

CONSTANTS
  Graphs,      \* the graphs that may be submitted
  NodeCount    \* nodes of a graph

VARIABLES
  line,        \* graphs in the order they were accepted
  results,     \* results[i]: how line[i] ended, 0 or the node that failed
  reported,    \* how many results were reported
  told         \* the completions that reached the channel

serviceVars == <<line, results, reported, told>>

Completions == [graph : Graphs, failed : 0 .. NodeCount]

Init ==
  /\ line = <<>>
  /\ results = <<>>
  /\ reported = 0
  /\ told = <<>>

Accept(g) ==
  /\ \A i \in DOMAIN line : line[i] # g
  /\ line' = Append(line, g)
  /\ UNCHANGED <<results, reported, told>>

Execute(result) ==
  /\ reported = Len(results)
  /\ Len(results) < Len(line)
  /\ results' = Append(results, result)
  /\ UNCHANGED <<line, reported, told>>

Report ==
  /\ reported < Len(results)
  /\ reported' = reported + 1
  /\ told' \in {told, Append(told, [graph |-> line[reported + 1],
                                    failed |-> results[reported + 1]])}
  /\ UNCHANGED <<line, results>>

Next ==
  \/ \E g \in Graphs : Accept(g)
  \/ \E result \in 0 .. NodeCount : Execute(result)
  \/ Report

Spec == Init /\ [][Next]_serviceVars
=============================================================================
