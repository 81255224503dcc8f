--------------------------- MODULE AsyncContract ---------------------------
(***************************************************************************)
(* What the library relies on when it calls struct rmilter_async_context,  *)
(* whichever event library is behind it.                                   *)
(*                                                                         *)
(* An event that was added is called back with the kind and the user data  *)
(* it was added with, as long as it is neither stopped nor deleted, and a  *)
(* timer not before its time.  Nothing is called back for an event that    *)
(* was deleted, also if its handle is used again.                          *)
(***************************************************************************)
EXTENDS Integers, Functions

CONSTANTS Handles, UserData, MaxAfter

VARIABLES evs,          \* the events there are, by handle
          got           \* the last call back

vars == <<evs, got>>

NoCall == [kind |-> "none"]

Io == [kind : {"read", "write"}, ud : UserData, after : {0}, left : {0}, state : {"started"}]
Timer(a) == [kind : {"timer", "periodic"}, ud : UserData, after : {a}, left : {a}, state : {"started"}]

Init == evs = <<>> /\ got = NoCall

Add(h, e) ==
  /\ h \notin DOMAIN evs
  /\ evs' = [x \in DOMAIN evs \cup {h} |-> IF x = h THEN e ELSE evs[x]]
  /\ UNCHANGED got

Del(h) ==
  /\ evs' = Restrict(evs, DOMAIN evs \ {h})
  /\ UNCHANGED got

(* A timer that is stopped has its whole interval before it again.         *)
Stop(h) ==
  /\ evs' = [evs EXCEPT ![h].state = "stopped", ![h].left = evs[h].after]
  /\ UNCHANGED got

Start(h) ==
  /\ evs' = [evs EXCEPT ![h].state = "started"]
  /\ UNCHANGED got

(* A binding may leave this out.                                           *)
Repeat(h) ==
  /\ evs[h].state = "started"
  /\ evs' = [evs EXCEPT ![h].left = evs[h].after]
  /\ UNCHANGED got

(* No timer is faster than the clock.                                      *)
Wait ==
  /\ DOMAIN evs' = DOMAIN evs
  /\ \A h \in DOMAIN evs :
       \/ evs'[h] = evs[h]
       \/ /\ evs[h].state = "started" /\ evs[h].left > 0
          /\ evs'[h] = [evs[h] EXCEPT !.left = @ - 1]
  /\ UNCHANGED got

Deliver(h) ==
  /\ evs[h].state = "started"
  /\ evs[h].left = 0
  /\ got' = [kind |-> evs[h].kind, ud |-> evs[h].ud]
  /\ evs' = [evs EXCEPT ![h].left = evs[h].after]

Next ==
  \/ \E h \in Handles :
       \/ \E e \in Io \cup UNION {Timer(a) : a \in 1 .. MaxAfter} : Add(h, e)
       \/ h \in DOMAIN evs /\ (Del(h) \/ Stop(h) \/ Start(h) \/ Repeat(h) \/ Deliver(h))
  \/ Wait

Spec == Init /\ [][Next]_vars
=============================================================================
