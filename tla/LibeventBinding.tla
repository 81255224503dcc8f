-------------------------- MODULE LibeventBinding --------------------------
(***************************************************************************)
(* The binding of include/librmilter_event.h: the functions it puts in     *)
(* struct rmilter_async_context and those it has libevent call.            *)
(***************************************************************************)
EXTENDS EventLoop

LibeventAddRead(b, u) == AddIo(b, "read", u)
LibeventAddWrite(b, u) == AddIo(b, "write", u)
LibeventAddTimer(b, u, a) == AddTimerEvent(b, u, a)
LibeventAddPeriodic(b, c, u, a) == AddPeriodicEvent(b, c, u, a)

LibeventDelRead(h) == DelEvent(h, {"read"})
LibeventDelWrite(h) == DelEvent(h, {"write"})
LibeventDelTimer(h) == DelEvent(h, {"timer"})
LibeventDelPeriodic(h) == DelPeriodicEvent(h)

(* There is nothing libevent could be asked to do.                         *)
LibeventRepeatTimer(h) ==
  /\ Calling
  /\ Handle(h, {"timer"}) \/ mem[h].use = "cbdata"
  /\ UNCHANGED vars

(* event_del for any event.  The handle of a periodic callback is none.    *)
LibeventStopEvent(h) ==
  /\ Calling
  /\ \/ /\ Handle(h, IoKinds \cup {"timer"})
        /\ LoopDrops(h)
        /\ UNCHANGED <<mem, got, fault>>
     \/ mem[h].use = "cbdata" /\ WrongType

(* Mutation of AddedAgain: a timer gets its interval again.                *)
AddedAfresh(h) == mem[h].after

(* event_add without a timeout: an event that the loop has keeps its own,  *)
(* a timer that was stopped has none any more.                             *)
AddedAgain(h) == left[h]

LibeventStartEvent(h) ==
  /\ Calling
  /\ \/ /\ Handle(h, IoKinds \cup {"timer"})
        /\ LoopAdds(h, AddedAgain(h))
        /\ UNCHANGED <<mem, pending, got, fault>>
     \/ mem[h].use = "cbdata" /\ WrongType

LibeventReadEvent(b) == CallsBack(b, "read")
LibeventWriteEvent(b) == CallsBack(b, "write")
LibeventTimerEvent(b) == CallsBack(b, "timer")
LibeventPeriodicEvent(b) == CallsBack(b, "periodic")

LibeventAdds ==
  \E b \in Blocks, u \in UserData :
    \/ LibeventAddRead(b, u)
    \/ LibeventAddWrite(b, u)
    \/ \E a \in 1 .. MaxAfter :
         \/ LibeventAddTimer(b, u, a)
         \/ \E c \in Blocks : LibeventAddPeriodic(b, c, u, a)

LibeventDels ==
  \E h \in Blocks :
    LibeventDelRead(h) \/ LibeventDelWrite(h) \/ LibeventDelTimer(h) \/ LibeventDelPeriodic(h)

LibeventChanges ==
  \E h \in Blocks :
    LibeventRepeatTimer(h) \/ LibeventStopEvent(h) \/ LibeventStartEvent(h)

LibeventCallsBack ==
  \E b \in Blocks :
    \/ LibeventReadEvent(b)
    \/ LibeventWriteEvent(b)
    \/ LibeventTimerEvent(b)
    \/ LibeventPeriodicEvent(b)

LibeventNext == LibeventAdds \/ LibeventDels \/ LibeventChanges \/ LibeventCallsBack \/ Loop
=============================================================================
