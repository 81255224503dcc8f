----------------------------- MODULE MCBindings -----------------------------
(***************************************************************************)
(* Instances of Bindings for TLC.                                          *)
(***************************************************************************)
EXTENDS Bindings

CONSTANTS b1, b2, b3, u1, u2

(* One event gets the first opaque pointer and whatever is added while it  *)
(* is there the second, so that a call back with the wrong one shows, and  *)
(* events that share one occur as well.                                    *)
Known(u) == \E b \in Blocks : mem[b] # Free /\ mem[b].ud = u

TellsApart ==
  \A b \in Blocks :
    (mem[b] = Free /\ mem'[b] # Free /\ mem'[b].ud \in UserData)
      => mem'[b].ud = IF Known(u1) THEN u2 ELSE u1

MCSpec == BindingsInit /\ [][BindingsNext /\ TellsApart]_allVars /\ Fairness
=============================================================================
