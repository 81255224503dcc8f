------------------------------ MODULE MCMilter ------------------------------
(***************************************************************************)
(* Instances of Milter for TLC.                                            *)
(***************************************************************************)
EXTENDS Milter

CONSTANTS s1, s2, s3, f1, f2, u1

(* Sessions are numbered in the order in which they begin, which loses no  *)
(* behaviour up to their names, and the system hands out the lowest free   *)
(* descriptor.                                                             *)
InOrder ==
  /\ \A s \in Sessions :
       (st[s] = "new" /\ st'[s] = "live") => \A t \in Sessions : t < s => st[t] # "new"
  /\ \A f \in FDs :
       (owner[f] = "closed" /\ owner'[f] = "app") => \A g \in FDs : g < f => owner[g] # "closed"

(* A read that asks for no bytes can not tell data from the end of a file, *)
(* so one of them is enough (but see ZeroMeansNothingToRead).              *)
OneKind == \A f \in FDs : sock'[f] # "data"

(* The application sets all its callbacks or none.                         *)
MCInit == Init /\ cb.abort = cb.close /\ cb.abort = cb.log

MCSpec == MCInit /\ [][Next /\ InOrder /\ OneKind]_vars /\ Fairness
=============================================================================
