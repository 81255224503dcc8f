---------------------------- MODULE MCMilterLoop ----------------------------
(***************************************************************************)
(* An instance of MilterLoop for TLC.  Its allocator hands out the first   *)
(* free piece of memory, which the event freed last may have left, the     *)
(* system the lowest free descriptor, sessions are numbered in the order   *)
(* in which they begin, and the application sets all its callbacks or      *)
(* none.                                                                   *)
(***************************************************************************)
EXTENDS MilterLoop

CONSTANT u1

MCInit == LoopInit /\ cb.abort = cb.close /\ cb.abort = cb.log

FreeBlocks == {b \in Blocks : mem[b] = L!Free}

FirstFit ==
  /\ \A s \in Sessions :
       (st[s] = "new" /\ st'[s] = "live") =>
         /\ \A t \in Sessions : t < s => st[t] # "new"
         /\ \A b \in FreeBlocks : read_ev'[s] <= b
         /\ \A b \in FreeBlocks \ {read_ev'[s]} : timeout_ev'[s] <= b
  /\ \A f \in FDs :
       (owner[f] = "closed" /\ owner'[f] = "app") => \A g \in FDs : g < f => owner[g] # "closed"

MCSpec == MCInit /\ [][LoopNext /\ FirstFit]_allVars /\ LoopFairness
=============================================================================
