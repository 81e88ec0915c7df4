---------------------------- MODULE MCScheduler -----------------------------
(***************************************************************************)
(* Scheduler for model checking: submitters and graphs are interchangeable *)
(* in it, so the runs that check no liveness explore one of each orbit.    *)
(***************************************************************************)
EXTENDS Scheduler, TLC

Symmetry == Permutations(Submitters) \cup Permutations(Graphs)
=============================================================================
