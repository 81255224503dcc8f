---------------------------- MODULE LibevBinding ----------------------------
(***************************************************************************)
(* The binding of include/libmilter_ev.h: the functions it puts in         *)
(* struct rmilter_async_context and those it has libev call.               *)
(***************************************************************************)
EXTENDS EventLoop

LibevAddRead(b, u) == AddIo(b, "read", u)
LibevAddWrite(b, u) == AddIo(b, "write", u)
LibevAddTimer(b, u, a) == AddTimerEvent(b, u, a)
LibevAddPeriodic(b, c, u, a) == AddPeriodicEvent(b, c, u, a)

LibevDelRead(h) == DelEvent(h, {"read"})
LibevDelWrite(h) == DelEvent(h, {"write"})
LibevDelTimer(h) == DelEvent(h, {"timer"})
LibevDelPeriodic(h) == DelPeriodicEvent(h)

(* ev_timer_again starts the interval over and forgets a call back that    *)
(* was collected.  The handle of a periodic callback is not a watcher.     *)
LibevRepeatTimer(h) ==
  /\ Calling
  /\ \/ /\ Handle(h, {"timer"})
        /\ LoopAdds(h, mem[h].after)
        /\ pending' = pending \ {h}
        /\ UNCHANGED <<mem, got, fault>>
     \/ mem[h].use = "cbdata" /\ WrongType

(* Whatever the handle is, it is taken for that of an ev_io.               *)
LibevStopEvent(h) ==
  /\ Calling
  /\ \/ /\ Handle(h, IoKinds)
        /\ LoopDrops(h)
        /\ UNCHANGED <<mem, got, fault>>
     \/ (Handle(h, {"timer"}) \/ mem[h].use = "cbdata") /\ WrongType

LibevStartEvent(h) ==
  /\ Calling
  /\ \/ /\ Handle(h, IoKinds)
        /\ LoopAdds(h, Never)
        /\ UNCHANGED <<mem, pending, got, fault>>
     \/ (Handle(h, {"timer"}) \/ mem[h].use = "cbdata") /\ WrongType

LibevReadEvent(b) == CallsBack(b, "read")
LibevWriteEvent(b) == CallsBack(b, "write")
LibevTimerEvent(b) == CallsBack(b, "timer")
LibevPeriodicEvent(b) == CallsBack(b, "periodic")

LibevAdds ==
  \E b \in Blocks, u \in UserData :
    \/ LibevAddRead(b, u)
    \/ LibevAddWrite(b, u)
    \/ \E a \in 1 .. MaxAfter :
         \/ LibevAddTimer(b, u, a)
         \/ \E c \in Blocks : LibevAddPeriodic(b, c, u, a)

LibevDels ==
  \E h \in Blocks :
    LibevDelRead(h) \/ LibevDelWrite(h) \/ LibevDelTimer(h) \/ LibevDelPeriodic(h)

LibevChanges ==
  \E h \in Blocks :
    LibevRepeatTimer(h) \/ LibevStopEvent(h) \/ LibevStartEvent(h)

LibevCallsBack ==
  \E b \in Blocks :
    \/ LibevReadEvent(b)
    \/ LibevWriteEvent(b)
    \/ LibevTimerEvent(b)
    \/ LibevPeriodicEvent(b)

LibevNext == LibevAdds \/ LibevDels \/ LibevChanges \/ LibevCallsBack \/ Loop
=============================================================================
