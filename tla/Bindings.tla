------------------------------ MODULE Bindings ------------------------------
(***************************************************************************)
(* A program chooses one of the two bindings, rmilter_gen_libev or         *)
(* rmilter_gen_libevent, and uses it for everything.  Both keep the        *)
(* promises of AsyncContract.                                              *)
(***************************************************************************)
EXTENDS LibevBinding, LibeventBinding

VARIABLE lib            \* the binding

allVars == <<vars, lib>>

BindingsInit == Init /\ lib = "none"

GenLibev ==
  /\ lib = "none"
  /\ lib' = "libev"
  /\ UNCHANGED vars

GenLibevent ==
  /\ lib = "none"
  /\ lib' = "libevent"
  /\ UNCHANGED vars

BindingsNext ==
  \/ GenLibev
  \/ GenLibevent
  \/ lib = "libev" /\ LibevNext /\ UNCHANGED lib
  \/ lib = "libevent" /\ LibeventNext /\ UNCHANGED lib

Spec == BindingsInit /\ [][BindingsNext]_allVars

(* The call back of event b, by either binding.                            *)
Called(b) == \E k \in IoKinds \cup TimerKinds : CallsBack(b, k)

(* The loop turns, time passes whatever the loop does, and what was        *)
(* collected is called back.                                               *)
Fairness ==
  /\ WF_vars(\E S \in SUBSET Blocks : Collect(S) /\ S \subseteq active)
  /\ SF_vars(Tick)
  /\ WF_vars(\E b \in Blocks : Called(b))

FairSpec == Spec /\ Fairness

-----------------------------------------------------------------------------
(* INVARIANT: the loop never calls back, or looks at, an event whose       *)
(* memory was freed, also not one it had collected before (the functions   *)
(* that delete an event stop it first).                                    *)
NothingDangles ==
  /\ fault # "use_after_free"
  /\ \A b \in active : IsEvent(b)

(* INVARIANT: every event belongs to one handle and every handle to one    *)
(* event, so the caller can delete all there is (cbdata->ev of the         *)
(* periodic callbacks).                                                    *)
HandlesOwnEvents ==
  \A b \in Blocks :
    /\ Handle(b, {"periodic"}) =>
         mem[mem[b].ud].use = "cbdata" /\ mem[mem[b].ud].ev = b
    /\ mem[b].use = "cbdata" => Handle(mem[b].ev, {"periodic"}) /\ mem[mem[b].ev].ud = b

(* What a caller knows of its handles.                                     *)
Handles == {h \in Blocks : mem[h].use = "cbdata" \/ Handle(h, IoKinds \cup {"timer"})}

EventOf(h) == IF mem[h].use = "cbdata" THEN mem[h].ev ELSE h

LeftOf(e) ==
  IF mem[e].after = 0 \/ e \in pending THEN 0
  ELSE IF left[e] = Never THEN mem[e].after ELSE left[e]

Evs == [h \in Handles |->
         LET e == EventOf(h) IN
           [kind |-> mem[e].cb, ud |-> mem[h].ud, after |-> mem[e].after,
            left |-> LeftOf(e), state |-> IF e \in active THEN "started" ELSE "stopped"]]

(* PROPERTY: whatever is called back is an event that was added, with its  *)
(* kind and its user data, that is neither deleted nor stopped, and a      *)
(* timer not before its time, although memory is used again.               *)
Contract == INSTANCE AsyncContract WITH evs <- Evs, Handles <- Blocks
ImplementsContract == Contract!Spec

(* PROPERTY: a timer that is neither deleted nor stopped, nor repeated     *)
(* over and over, fires again and again, whatever else the loop is busy    *)
(* with.  Not so with libevent if it was stopped and started before:       *)
(* start_event has no interval to give it.                                 *)
TimersFire ==
  \A b \in Blocks :
    /\ <>[](/\ fault = "none" /\ b \in active /\ IsTimer(b)
            /\ lib = "libevent" => left[b] # Never)
    /\ <>[][~LibevRepeatTimer(b)]_allVars
    => []<><<Called(b)>>_allVars

(* PROPERTY: nothing puts off a timer that stays in the loop but its own   *)
(* call back and repeat_timer: not start_event, nor the deletion of other  *)
(* events, nor the turns of the loop (librmilter_event.h:267).  With a     *)
(* clock that advances this is why TimersFire.                             *)
NothingPostpones ==
  [][\A b \in active \cap active' :
       IsTimer(b) /\ mem'[b] = mem[b] =>
         \/ LeftOf(b)' <= LeftOf(b)
         \/ Called(b)
         \/ lib = "libev" /\ LibevRepeatTimer(b)]_allVars

-----------------------------------------------------------------------------
(* The inductive invariant behind the invariants above.                    *)
IInv == TypeOK /\ NothingDangles /\ HandlesOwnEvents

(* What is not in the loop has no timeout; a timer that was collected has  *)
(* been given its next interval.                                           *)
LoopSound ==
  /\ \A b \in Blocks \ active : left[b] = Never
  /\ \A b \in pending : IsTimer(b) => left[b] = mem[b].after
=============================================================================
