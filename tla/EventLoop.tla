----------------------------- MODULE EventLoop -----------------------------
(***************************************************************************)
(* The loop of an event library, libev or libevent, as far as the two      *)
(* bindings of librmilter use it, and what both bindings do with it in the *)
(* same way: allocate an event and add it, stop an event and free it.  The *)
(* functions of each binding are in LibevBinding and LibeventBinding.      *)
(*                                                                         *)
(* A turn of the loop first collects the events that are ready and then    *)
(* calls back for one after the other, while the functions it calls add    *)
(* and delete events.  Memory is handed out again after it was freed.      *)
(***************************************************************************)
EXTENDS Integers, FiniteSets, Functions

CONSTANTS
  Blocks,       \* pieces of memory
  UserData,     \* opaque pointers the caller of the binding passes
  MaxAfter      \* bound: the longest interval of a timer, in ticks

ASSUME BlocksAssumption == IsFiniteSet(Blocks) /\ Blocks \cap UserData = {}
ASSUME MaxAfterAssumption == MaxAfter \in Nat \ {0}

VARIABLES
  mem,          \* what each piece of memory holds
  active,       \* the events the loop has
  left,         \* ticks until a timer in the loop is due
  pending,      \* collected in this turn and not called back yet
  got,          \* what the loop called back last
  fault         \* undefined behaviour; then all stops

vars == <<mem, active, left, pending, got, fault>>

Never == -1     \* in the loop, but without a timeout
IoKinds == {"read", "write"}
TimerKinds == {"timer", "periodic"}

Free == [use |-> "free"]
Event(k, u, a) == [use |-> "event", cb |-> k, ud |-> u, after |-> a]
CbData(e, u) == [use |-> "cbdata", ev |-> e, ud |-> u]

IoEvents == [use : {"event"}, cb : IoKinds, ud : UserData, after : {0}]
Timers == [use : {"event"}, cb : {"timer"}, ud : UserData, after : 1 .. MaxAfter]
Periodics == [use : {"event"}, cb : {"periodic"}, ud : Blocks, after : 1 .. MaxAfter]
CbDatas == [use : {"cbdata"}, ev : Blocks, ud : UserData]

NoCall == [kind |-> "none"]
Calls == [kind : IoKinds \cup TimerKinds, ud : UserData]

IsEvent(b) == mem[b].use = "event"
IsTimer(b) == IsEvent(b) /\ mem[b].cb \in TimerKinds

Init ==
  /\ mem = [b \in Blocks |-> Free]
  /\ active = {}
  /\ left = [b \in Blocks |-> Never]
  /\ pending = {}
  /\ got = NoCall
  /\ fault = "none"

-----------------------------------------------------------------------------
(* What the functions of the library do to the loop.                       *)

(* ev_io_start, ev_timer_start, event_add: event b, due in l ticks.        *)
LoopAdds(b, l) ==
  /\ active' = active \cup {b}
  /\ left' = [left EXCEPT ![b] = l]

(* ev_io_stop, ev_timer_stop, event_del.  Also what was collected is       *)
(* forgotten.                                                              *)
LoopDrops(b) ==
  /\ active' = active \ {b}
  /\ pending' = pending \ {b}
  /\ left' = [left EXCEPT ![b] = Never]

(* When a timer that has fired is due again: both bindings ask for         *)
(* repetition.  Mutation: they do not.                                     *)
RearmedOnce(b) == Never
Rearmed(b) == mem[b].after

(* A turn begins with all timers that are due and some descriptors.  The   *)
(* loop reads the memory of all its events.                                *)
Due == {b \in active : IsTimer(b) /\ left[b] = 0}
Io == {b \in active : ~IsTimer(b)}

Collect(S) ==
  /\ fault = "none" /\ pending = {} /\ S # {}
  /\ Due \subseteq S /\ S \subseteq Due \cup Io
  /\ IF \A b \in active : IsEvent(b)
     THEN /\ pending' = S
          /\ left' = [b \in Blocks |-> IF b \in Due THEN Rearmed(b) ELSE left[b]]
          /\ UNCHANGED fault
     ELSE /\ fault' = "use_after_free"
          /\ UNCHANGED <<pending, left>>
  /\ UNCHANGED <<mem, active, got>>

(* Time passes.  Within a turn both libraries work with one reading of the *)
(* clock.                                                                  *)
Tick ==
  /\ fault = "none" /\ pending = {}
  /\ left' = [b \in Blocks |-> IF left[b] > 0 THEN left[b] - 1 ELSE left[b]]
  /\ left' # left
  /\ UNCHANGED <<mem, active, pending, got, fault>>

Loop == Tick \/ \E S \in SUBSET active : Collect(S)

-----------------------------------------------------------------------------
(* What both bindings do.  The allocator of GLib does not return null.     *)

Calling == fault = "none"

(* The handle is the event of one of these kinds: the caller's duty.       *)
Handle(h, kinds) == IsEvent(h) /\ mem[h].cb \in kinds

(* Something else is taken for an event.                                   *)
WrongType ==
  /\ fault' = "wrong_type"
  /\ UNCHANGED <<mem, active, left, pending, got>>

AddIo(b, k, u) ==
  /\ Calling /\ mem[b] = Free
  /\ mem' = [mem EXCEPT ![b] = Event(k, u, 0)]
  /\ LoopAdds(b, Never)
  /\ UNCHANGED <<pending, got, fault>>

(* The interval the library is asked for; mutation: in other units.        *)
InMilliseconds(a) == 1000 * a
Interval(a) == a

AddTimerEvent(b, u, a) ==
  /\ Calling /\ mem[b] = Free
  /\ mem' = [mem EXCEPT ![b] = Event("timer", u, a)]
  /\ LoopAdds(b, Interval(a))
  /\ UNCHANGED <<pending, got, fault>>

(* The event of a periodic callback points to the callback data, which     *)
(* points back and is the handle.                                          *)
AddPeriodicEvent(b, c, u, a) ==
  /\ Calling /\ b # c /\ mem[b] = Free /\ mem[c] = Free
  /\ mem' = [mem EXCEPT ![b] = Event("periodic", c, a), ![c] = CbData(b, u)]
  /\ LoopAdds(b, Interval(a))
  /\ UNCHANGED <<pending, got, fault>>

(* Mutation of Stopped: an event is freed and not stopped.                 *)
NotStopped(b) == UNCHANGED <<active, left, pending>>
Stopped(b) == LoopDrops(b)

DelEvent(h, kinds) ==
  /\ Calling /\ Handle(h, kinds)
  /\ Stopped(h)
  /\ mem' = [mem EXCEPT ![h] = Free]
  /\ UNCHANGED <<got, fault>>

(* What is freed with a periodic callback; mutation: only the handle.      *)
FreedHandle(h) == {h}
FreedWith(h) == {h, mem[h].ev}

DelPeriodicEvent(h) ==
  /\ Calling /\ mem[h].use = "cbdata"
  /\ Stopped(mem[h].ev)
  /\ mem' = [b \in Blocks |-> IF b \in FreedWith(h) THEN Free ELSE mem[b]]
  /\ UNCHANGED <<got, fault>>

(* The user data a call back for event b passes on; mutation: that of the  *)
(* event in any case.                                                      *)
OwnData(b) == mem[b].ud
Passed(b) == IF mem[b].cb = "periodic" THEN mem[mem[b].ud].ud ELSE mem[b].ud

(* The loop calls the binding's function for events of that kind, which    *)
(* reads the event and, for a periodic one, its callback data.             *)
Intact(b) ==
  IsEvent(b) /\ (mem[b].cb = "periodic" => mem[mem[b].ud].use = "cbdata")

TakesUp(b) ==
  /\ fault = "none"
  /\ b \in pending
  /\ pending' = pending \ {b}
  /\ UNCHANGED <<mem, active, left>>

CallsBack(b, kind) ==
  /\ TakesUp(b)
  /\ IF Intact(b)
     THEN mem[b].cb = kind /\ got' = [kind |-> kind, ud |-> Passed(b)] /\ UNCHANGED fault
     ELSE fault' = "use_after_free" /\ UNCHANGED got

TypeOK ==
  /\ mem \in [Blocks -> {Free} \cup IoEvents \cup Timers \cup Periodics \cup CbDatas]
  /\ active \subseteq Blocks
  /\ left \in [Blocks -> Never .. MaxAfter]
  /\ pending \subseteq active
  /\ got \in {NoCall} \cup Calls
  /\ fault \in {"none", "use_after_free", "wrong_type"}
=============================================================================
