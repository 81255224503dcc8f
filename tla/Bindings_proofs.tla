--------------------------- MODULE Bindings_proofs ---------------------------
(***************************************************************************)
(* Theorems about Bindings, for any number of events and any intervals: no *)
(* event that was freed is called back, handles and events belong          *)
(* together, and both bindings implement AsyncContract.                    *)
(***************************************************************************)
EXTENDS Bindings, TLAPS

(* The kinds of memory there are.                                          *)
LEMMA MemoryTyped ==
  ASSUME TypeOK, NEW b \in Blocks
  PROVE  \/ mem[b] = Free
         \/ mem[b] \in IoEvents
         \/ mem[b] \in Timers
         \/ mem[b] \in Periodics
         \/ mem[b] \in CbDatas
  BY DEF TypeOK

(* Every event has a kind; the periodic ones point to other memory.        *)
LEMMA EventTyped ==
  ASSUME TypeOK, NEW b \in Blocks, IsEvent(b)
  PROVE  /\ mem[b].cb \in IoKinds \cup TimerKinds
         /\ mem[b].cb = "periodic" => mem[b] \in Periodics /\ mem[b].ud \in Blocks
         /\ mem[b].cb # "periodic" => mem[b].ud \in UserData
         /\ mem[b].after \in 0 .. MaxAfter
  BY MemoryTyped, MaxAfterAssumption
     DEF IsEvent, Free, IoEvents, Timers, Periodics, CbDatas, IoKinds, TimerKinds

(* Callback data points to an event and has the user data of the caller.   *)
LEMMA CbDataTyped ==
  ASSUME TypeOK, NEW b \in Blocks, mem[b].use = "cbdata"
  PROVE  mem[b].ev \in Blocks /\ mem[b].ud \in UserData
  BY MemoryTyped DEF Free, IoEvents, Timers, Periodics, CbDatas

-----------------------------------------------------------------------------
(* Adding an event that is not periodic to free memory keeps the           *)
(* invariant.                                                              *)
LEMMA AddStep ==
  ASSUME IInv, NEW b \in Blocks, NEW e \in IoEvents \cup Timers,
         mem[b] = Free, mem' = [mem EXCEPT ![b] = e],
         NEW l \in Never .. MaxAfter, LoopAdds(b, l),
         UNCHANGED <<pending, got, fault>>
  PROVE  IInv'
  <1>1. TypeOK /\ NothingDangles /\ HandlesOwnEvents
    BY DEF IInv
  <1>2. e.use = "event" /\ e.cb # "periodic"
    BY DEF IoEvents, Timers, IoKinds
  <1>3. \A x \in Blocks : mem'[x] = IF x = b THEN e ELSE mem[x]
    BY <1>1 DEF TypeOK
  <1>4. TypeOK'
    <2>1. mem' \in [Blocks -> {Free} \cup IoEvents \cup Timers \cup Periodics \cup CbDatas]
      BY <1>1 DEF TypeOK
    <2>2. left' \in [Blocks -> Never .. MaxAfter]
      BY <1>1 DEF TypeOK, LoopAdds
    <2> QED
      BY <1>1, <2>1, <2>2 DEF TypeOK, LoopAdds
  <1>5. NothingDangles'
    BY <1>1, <1>2, <1>3 DEF NothingDangles, LoopAdds, IsEvent, TypeOK
  <1>6. HandlesOwnEvents'
    <2>1. Free.use = "free"
      BY DEF Free
    <2>2. ASSUME NEW x \in Blocks, Handle(x, {"periodic"})'
          PROVE  mem'[mem'[x].ud].use = "cbdata" /\ mem'[mem'[x].ud].ev = x
      <3>1. x # b /\ Handle(x, {"periodic"})
        BY <1>2, <1>3, <2>2 DEF Handle, IsEvent
      <3>2. mem[x].ud \in Blocks
        BY <1>1, <3>1, EventTyped DEF Handle
      <3>3. mem[mem[x].ud].use = "cbdata" /\ mem[mem[x].ud].ev = x
        BY <1>1, <3>1 DEF HandlesOwnEvents
      <3> QED
        BY <1>3, <2>1, <3>1, <3>2, <3>3
    <2>3. ASSUME NEW x \in Blocks, mem'[x].use = "cbdata"
          PROVE  Handle(mem[x].ev, {"periodic"})' /\ mem'[mem'[x].ev].ud = x
      <3>1. x # b /\ mem[x].use = "cbdata"
        BY <1>2, <1>3, <2>3
      <3>2. mem[x].ev \in Blocks
        BY <1>1, <3>1, CbDataTyped
      <3>3. Handle(mem[x].ev, {"periodic"}) /\ mem[mem[x].ev].ud = x
        BY <1>1, <3>1 DEF HandlesOwnEvents
      <3> QED
        BY <1>3, <2>1, <3>1, <3>2, <3>3 DEF Handle, IsEvent
    <2> QED
      BY <2>2, <2>3 DEF HandlesOwnEvents
  <1> QED
    BY <1>4, <1>5, <1>6 DEF IInv

(* add_read and add_write keep the invariant.                              *)
LEMMA AddIoStep ==
  ASSUME IInv, NEW b \in Blocks, NEW k \in IoKinds, NEW u \in UserData, AddIo(b, k, u)
  PROVE  IInv'
  <1>1. Event(k, u, 0) \in IoEvents \cup Timers /\ Never \in Never .. MaxAfter
    BY MaxAfterAssumption DEF Event, IoEvents, Never
  <1>2. /\ mem[b] = Free /\ mem' = [mem EXCEPT ![b] = Event(k, u, 0)]
        /\ LoopAdds(b, Never) /\ UNCHANGED <<pending, got, fault>>
    BY DEF AddIo
  <1> QED
    BY <1>1, <1>2, AddStep

(* add_timer keeps the invariant.                                          *)
LEMMA AddTimerStep ==
  ASSUME IInv, NEW b \in Blocks, NEW u \in UserData, NEW a \in 1 .. MaxAfter,
         AddTimerEvent(b, u, a)
  PROVE  IInv'
  <1>1. Event("timer", u, a) \in IoEvents \cup Timers /\ a \in Never .. MaxAfter
    BY MaxAfterAssumption DEF Event, Timers, Never
  <1>2. /\ mem[b] = Free /\ mem' = [mem EXCEPT ![b] = Event("timer", u, a)]
        /\ LoopAdds(b, a) /\ UNCHANGED <<pending, got, fault>>
    BY DEF AddTimerEvent, Interval
  <1> QED
    BY <1>1, <1>2, AddStep

(* Adding a periodic callback keeps the invariant.                         *)
LEMMA AddPeriodicStep ==
  ASSUME IInv, NEW b \in Blocks, NEW c \in Blocks, NEW u \in UserData,
         NEW a \in 1 .. MaxAfter, AddPeriodicEvent(b, c, u, a)
  PROVE  IInv'
  <1>1. TypeOK /\ NothingDangles /\ HandlesOwnEvents
    BY DEF IInv
  <1>2. /\ b # c /\ mem[b] = Free /\ mem[c] = Free
        /\ mem' = [mem EXCEPT ![b] = Event("periodic", c, a), ![c] = CbData(b, u)]
        /\ LoopAdds(b, a)
        /\ UNCHANGED <<pending, got, fault>>
    BY DEF AddPeriodicEvent, Interval
  <1>3. Event("periodic", c, a) \in Periodics /\ CbData(b, u) \in CbDatas
    BY DEF Event, CbData, Periodics, CbDatas
  <1>4. \A x \in Blocks : mem'[x] = IF x = b THEN Event("periodic", c, a)
                                    ELSE IF x = c THEN CbData(b, u) ELSE mem[x]
    BY <1>1, <1>2 DEF TypeOK
  <1>5. TypeOK'
    <2>1. mem' \in [Blocks -> {Free} \cup IoEvents \cup Timers \cup Periodics \cup CbDatas]
      BY <1>1, <1>2, <1>3 DEF TypeOK
    <2>2. left' \in [Blocks -> Never .. MaxAfter]
      BY <1>1, <1>2, MaxAfterAssumption DEF TypeOK, LoopAdds, Never
    <2> QED
      BY <1>1, <1>2, <2>1, <2>2 DEF TypeOK, LoopAdds
  <1>6. NothingDangles'
    <2>1. mem'[b].use = "event" /\ Free.use # "event"
      BY <1>4 DEF Event, Free
    <2> QED
      BY <1>1, <1>2, <1>4, <2>1 DEF NothingDangles, LoopAdds, IsEvent, TypeOK
  <1>7. HandlesOwnEvents'
    <2>1. /\ mem'[b].use = "event" /\ mem'[b].cb = "periodic" /\ mem'[b].ud = c
          /\ mem'[c].use = "cbdata" /\ mem'[c].ev = b
          /\ Free.use = "free"
      <3>1. b # c /\ mem'[b] = Event("periodic", c, a) /\ mem'[c] = CbData(b, u)
        BY <1>2, <1>4
      <3> QED
        BY <3>1 DEF Event, CbData, Free
    <2>2. ASSUME NEW x \in Blocks, Handle(x, {"periodic"})'
          PROVE  mem'[mem'[x].ud].use = "cbdata" /\ mem'[mem'[x].ud].ev = x
      <3>1. CASE x = b
        BY <2>1, <3>1
      <3>2. CASE x # b
        <4>1. x # c /\ mem'[x] = mem[x] /\ Handle(x, {"periodic"})
          BY <1>4, <2>1, <2>2, <3>2 DEF Handle, IsEvent
        <4>2. mem[x].ud \in Blocks
          BY <1>1, <4>1, EventTyped DEF Handle
        <4>3. mem[mem[x].ud].use = "cbdata" /\ mem[mem[x].ud].ev = x
          BY <1>1, <4>1 DEF HandlesOwnEvents
        <4> QED
          BY <1>2, <1>4, <2>1, <4>1, <4>2, <4>3
      <3> QED
        BY <3>1, <3>2
    <2>3. ASSUME NEW x \in Blocks, mem'[x].use = "cbdata"
          PROVE  Handle(mem[x].ev, {"periodic"})' /\ mem'[mem'[x].ev].ud = x
      <3>1. CASE x = c
        BY <2>1, <3>1 DEF Handle, IsEvent
      <3>2. CASE x # c
        <4>1. x # b /\ mem'[x] = mem[x] /\ mem[x].use = "cbdata"
          BY <1>4, <2>1, <2>3, <3>2
        <4>2. mem[x].ev \in Blocks
          BY <1>1, <4>1, CbDataTyped
        <4>3. Handle(mem[x].ev, {"periodic"}) /\ mem[mem[x].ev].ud = x
          BY <1>1, <4>1 DEF HandlesOwnEvents
        <4> QED
          BY <1>2, <1>4, <2>1, <4>1, <4>2, <4>3 DEF Handle, IsEvent
      <3> QED
        BY <3>1, <3>2
    <2> QED
      BY <2>2, <2>3 DEF HandlesOwnEvents
  <1> QED
    BY <1>5, <1>6, <1>7 DEF IInv

(* Stopping an event and freeing a set of memory keeps the invariant, if   *)
(* no event or handle that stays refers to what goes.                      *)
LEMMA FreeStep ==
  ASSUME IInv, NEW e \in Blocks, NEW F \in SUBSET Blocks,
         LoopDrops(e), UNCHANGED <<got, fault>>,
         mem' = [b \in Blocks |-> IF b \in F THEN Free ELSE mem[b]],
         \A b \in F : IsEvent(b) => b = e,
         \A b \in Blocks \ F : Handle(b, {"periodic"}) => mem[b].ud \notin F,
         \A b \in Blocks \ F : mem[b].use = "cbdata" => mem[b].ev \notin F
  PROVE  IInv'
  <1>1. TypeOK /\ NothingDangles /\ HandlesOwnEvents
    BY DEF IInv
  <1>2. Free.use = "free"
    BY DEF Free
  <1>3. TypeOK'
    <2>1. mem' \in [Blocks -> {Free} \cup IoEvents \cup Timers \cup Periodics \cup CbDatas]
      BY <1>1 DEF TypeOK
    <2>2. left' \in [Blocks -> Never .. MaxAfter]
      BY <1>1, MaxAfterAssumption DEF TypeOK, LoopDrops, Never
    <2> QED
      BY <1>1, <2>1, <2>2 DEF TypeOK, LoopDrops
  <1>4. NothingDangles'
    BY <1>1 DEF NothingDangles, LoopDrops, IsEvent, TypeOK
  <1>5. HandlesOwnEvents'
    <2>1. ASSUME NEW x \in Blocks, Handle(x, {"periodic"})'
          PROVE  mem'[mem'[x].ud].use = "cbdata" /\ mem'[mem'[x].ud].ev = x
      <3>1. x \notin F /\ mem'[x] = mem[x] /\ Handle(x, {"periodic"})
        BY <1>2, <2>1 DEF Handle, IsEvent
      <3>2. mem[x].ud \in Blocks \ F
        BY <1>1, <3>1, EventTyped DEF Handle
      <3>3. mem[mem[x].ud].use = "cbdata" /\ mem[mem[x].ud].ev = x
        BY <1>1, <3>1 DEF HandlesOwnEvents
      <3> QED
        BY <3>1, <3>2, <3>3
    <2>2. ASSUME NEW x \in Blocks, mem'[x].use = "cbdata"
          PROVE  Handle(mem[x].ev, {"periodic"})' /\ mem'[mem'[x].ev].ud = x
      <3>1. x \notin F /\ mem'[x] = mem[x] /\ mem[x].use = "cbdata"
        BY <1>2, <2>2
      <3>2. mem[x].ev \in Blocks \ F
        BY <1>1, <3>1, CbDataTyped
      <3>3. Handle(mem[x].ev, {"periodic"}) /\ mem[mem[x].ev].ud = x
        BY <1>1, <3>1 DEF HandlesOwnEvents
      <3> QED
        BY <3>1, <3>2, <3>3 DEF Handle, IsEvent
    <2> QED
      BY <2>1, <2>2 DEF HandlesOwnEvents
  <1> QED
    BY <1>3, <1>4, <1>5 DEF IInv

(* del_read, del_write and del_timer keep the invariant.                   *)
LEMMA DelStep ==
  ASSUME IInv, NEW h \in Blocks, NEW k \in IoKinds \cup {"timer"}, DelEvent(h, {k})
  PROVE  IInv'
  <1>1. TypeOK /\ HandlesOwnEvents
    BY DEF IInv
  <1>2. /\ IsEvent(h) /\ mem[h].cb # "periodic"
        /\ LoopDrops(h) /\ UNCHANGED <<got, fault>>
        /\ mem' = [mem EXCEPT ![h] = Free]
    BY DEF DelEvent, Handle, Stopped, IoKinds
  <1>3. mem' = [b \in Blocks |-> IF b \in {h} THEN Free ELSE mem[b]]
    BY <1>1, <1>2 DEF TypeOK
  <1>4. \A b \in Blocks : Handle(b, {"periodic"}) => mem[b].ud \notin {h}
    BY <1>1, <1>2 DEF HandlesOwnEvents, IsEvent
  <1>5. \A b \in Blocks : mem[b].use = "cbdata" => mem[b].ev \notin {h}
    BY <1>1, <1>2 DEF HandlesOwnEvents, Handle
  <1>6. {h} \in SUBSET Blocks
    OBVIOUS
  <1> HIDE DEF IInv
  <1> QED
    BY <1>2, <1>3, <1>4, <1>5, <1>6, FreeStep

(* del_periodic keeps the invariant: it frees the event and the data that  *)
(* belong to each other.                                                   *)
LEMMA DelPeriodicStep ==
  ASSUME IInv, NEW h \in Blocks, DelPeriodicEvent(h)
  PROVE  IInv'
  <1>1. TypeOK /\ HandlesOwnEvents
    BY DEF IInv
  <1>2. /\ mem[h].use = "cbdata"
        /\ LoopDrops(mem[h].ev) /\ UNCHANGED <<got, fault>>
        /\ mem' = [b \in Blocks |-> IF b \in {h, mem[h].ev} THEN Free ELSE mem[b]]
    BY DEF DelPeriodicEvent, Stopped, FreedWith
  <1>3. mem[h].ev \in Blocks /\ {h, mem[h].ev} \in SUBSET Blocks
    BY <1>1, <1>2, CbDataTyped
  <1>4. Handle(mem[h].ev, {"periodic"}) /\ mem[mem[h].ev].ud = h
    BY <1>1, <1>2 DEF HandlesOwnEvents
  <1>5. \A b \in {h, mem[h].ev} : IsEvent(b) => b = mem[h].ev
    BY <1>2 DEF IsEvent
  <1>6. \A b \in Blocks \ {h, mem[h].ev} :
          Handle(b, {"periodic"}) => mem[b].ud \notin {h, mem[h].ev}
    BY <1>1, <1>4 DEF HandlesOwnEvents, Handle, IsEvent
  <1>7. \A b \in Blocks \ {h, mem[h].ev} :
          mem[b].use = "cbdata" => mem[b].ev \notin {h, mem[h].ev}
    BY <1>1, <1>2, <1>4 DEF HandlesOwnEvents, Handle, IsEvent
  <1> QED
    BY <1>2, <1>3, <1>5, <1>6, <1>7, FreeStep

(* What leaves the memory alone and the loop within it keeps the           *)
(* invariant.                                                              *)
LEMMA LoopStep ==
  ASSUME IInv, mem' = mem, active' \subseteq active \cup {b \in Blocks : IsEvent(b)},
         pending' \subseteq active', left' \in [Blocks -> Never .. MaxAfter],
         got' \in {NoCall} \cup Calls, fault' \in {"none", "wrong_type"}
  PROVE  IInv'
  BY DEF IInv, TypeOK, NothingDangles, HandlesOwnEvents, IsEvent, Handle

(* An event the loop has collected, and its callback data, are intact when *)
(* it is called back, and so is the user data it passes on.                *)
LEMMA CallIntact ==
  ASSUME IInv, NEW b \in pending
  PROVE  Intact(b) /\ b \in Blocks /\ Passed(b) \in UserData
  <1>1. TypeOK /\ NothingDangles /\ HandlesOwnEvents
    BY DEF IInv
  <1>2. b \in Blocks /\ IsEvent(b)
    BY <1>1 DEF TypeOK, NothingDangles
  <1>3. CASE mem[b].cb = "periodic"
    <2>1. mem[b].ud \in Blocks /\ mem[mem[b].ud].use = "cbdata"
      BY <1>1, <1>2, <1>3, EventTyped DEF HandlesOwnEvents, Handle
    <2>2. mem[mem[b].ud].ud \in UserData
      BY <1>1, <2>1, CbDataTyped
    <2> QED
      BY <1>2, <1>3, <2>1, <2>2 DEF Intact, Passed
  <1>4. CASE mem[b].cb # "periodic"
    BY <1>1, <1>2, <1>4, EventTyped DEF Intact, Passed
  <1> QED
    BY <1>3, <1>4

(* Calling back keeps the invariant.                                       *)
LEMMA CallsBackStep ==
  ASSUME IInv, NEW b \in Blocks, NEW k \in IoKinds \cup TimerKinds, CallsBack(b, k)
  PROVE  IInv'
  <1>1. b \in pending /\ fault = "none"
    BY DEF CallsBack, TakesUp
  <1>2. Intact(b) /\ Passed(b) \in UserData
    BY <1>1, CallIntact
  <1>3. got' \in {NoCall} \cup Calls
    BY <1>2 DEF CallsBack, TakesUp, Calls
  <1>4. UNCHANGED <<mem, active, left, fault>> /\ pending' \subseteq pending
    BY <1>2 DEF CallsBack, TakesUp
  <1> QED
    BY <1>1, <1>3, <1>4, LoopStep DEF IInv, TypeOK

(* The loop itself keeps the invariant.                                    *)
LEMMA LoopKeeps ==
  ASSUME IInv, Loop
  PROVE  IInv'
  <1>1. TypeOK /\ NothingDangles
    BY DEF IInv
  <1>2. CASE Tick
    <2>1. left' \in [Blocks -> Never .. MaxAfter]
      BY <1>1, <1>2, MaxAfterAssumption DEF Tick, TypeOK, Never
    <2> QED
      BY <1>1, <1>2, <2>1, LoopStep DEF Tick, TypeOK
  <1>3. ASSUME NEW S \in SUBSET active, Collect(S)
        PROVE  IInv'
    <2>1. \A b \in active : IsEvent(b) /\ b \in Blocks
      BY <1>1 DEF NothingDangles, TypeOK
    <2>2. /\ pending' = S
          /\ left' = [b \in Blocks |-> IF b \in Due THEN Rearmed(b) ELSE left[b]]
          /\ UNCHANGED <<mem, active, got, fault>> /\ fault = "none"
      BY <1>3, <2>1 DEF Collect
    <2>3. ASSUME NEW b \in Due PROVE Rearmed(b) \in Never .. MaxAfter
      <3>1. b \in Blocks /\ IsEvent(b)
        BY <2>1 DEF Due
      <3> QED
        BY <1>1, <3>1, EventTyped, MaxAfterAssumption DEF Rearmed, Never
    <2>4. left' \in [Blocks -> Never .. MaxAfter]
      BY <1>1, <2>2, <2>3 DEF TypeOK
    <2> QED
      BY <1>1, <2>2, <2>4, LoopStep DEF TypeOK
  <1> QED
    BY <1>2, <1>3 DEF Loop

(* Taking something else for an event keeps the invariant: all stops.      *)
LEMMA WrongTypeStep ==
  ASSUME IInv, WrongType
  PROVE  IInv'
  BY LoopStep DEF WrongType, IInv, TypeOK

(* repeat_timer and start_event of either binding keep the invariant.      *)
LEMMA StartStep ==
  ASSUME IInv, NEW h \in Blocks, IsEvent(h), Calling,
         NEW l \in Never .. MaxAfter, LoopAdds(h, l),
         pending' \subseteq pending, UNCHANGED <<mem, got, fault>>
  PROVE  IInv'
  <1>1. TypeOK
    BY DEF IInv
  <1>2. left' \in [Blocks -> Never .. MaxAfter]
    BY <1>1 DEF TypeOK, LoopAdds
  <1> QED
    BY <1>1, <1>2, LoopStep DEF TypeOK, LoopAdds, Calling

(* stop_event of either binding keeps the invariant.                       *)
LEMMA StopStep ==
  ASSUME IInv, NEW h \in Blocks, Calling, LoopDrops(h), UNCHANGED <<mem, got, fault>>
  PROVE  IInv'
  <1>1. TypeOK
    BY DEF IInv
  <1>2. left' \in [Blocks -> Never .. MaxAfter]
    BY <1>1, MaxAfterAssumption DEF TypeOK, LoopDrops, Never
  <1> QED
    BY <1>1, <1>2, LoopStep DEF TypeOK, LoopDrops, Calling

-----------------------------------------------------------------------------
(* Every function of the libev binding keeps the invariant.                *)
LEMMA LibevStep == IInv /\ LibevNext => IInv'
  <1> SUFFICES ASSUME IInv, LibevNext PROVE IInv'
    OBVIOUS
  <1>1. Never \in Never .. MaxAfter /\ \A a \in 1 .. MaxAfter : a \in Never .. MaxAfter
    BY MaxAfterAssumption DEF Never
  <1>2. CASE LibevAdds
    <2>1. PICK b \in Blocks, u \in UserData :
            \/ LibevAddRead(b, u) \/ LibevAddWrite(b, u)
            \/ \E a \in 1 .. MaxAfter :
                 LibevAddTimer(b, u, a) \/ \E c \in Blocks : LibevAddPeriodic(b, c, u, a)
      BY <1>2 DEF LibevAdds
    <2>2. ASSUME NEW k \in IoKinds, AddIo(b, k, u) PROVE IInv'
      BY <1>1, <2>2, AddIoStep
    <2>3. ASSUME NEW a \in 1 .. MaxAfter, LibevAddTimer(b, u, a) PROVE IInv'
      BY <1>1, <2>3, AddTimerStep DEF LibevAddTimer
    <2>4. ASSUME NEW a \in 1 .. MaxAfter, NEW c \in Blocks, LibevAddPeriodic(b, c, u, a)
          PROVE  IInv'
      BY <2>4, AddPeriodicStep DEF LibevAddPeriodic
    <2> QED
      BY <2>1, <2>2, <2>3, <2>4 DEF LibevAddRead, LibevAddWrite, IoKinds
  <1>3. CASE LibevDels
    BY <1>3, DelStep, DelPeriodicStep
       DEF LibevDels, LibevDelRead, LibevDelWrite, LibevDelTimer, LibevDelPeriodic, IoKinds
  <1>4. CASE LibevChanges
    <2>1. ASSUME NEW h \in Blocks, LibevRepeatTimer(h) PROVE IInv'
      <3>1. CASE WrongType
        BY <3>1, WrongTypeStep
      <3>2. CASE ~WrongType
        <4>1. /\ Handle(h, {"timer"}) /\ LoopAdds(h, mem[h].after) /\ Calling
              /\ pending' = pending \ {h} /\ UNCHANGED <<mem, got, fault>>
          BY <2>1, <3>2 DEF LibevRepeatTimer
        <4>2. IsEvent(h) /\ mem[h].after \in Never .. MaxAfter
          BY <4>1, EventTyped, MaxAfterAssumption DEF Handle, IInv, Never
        <4> QED
          BY <4>1, <4>2, StartStep
      <3> QED
        BY <3>1, <3>2
    <2>2. ASSUME NEW h \in Blocks, LibevStopEvent(h) PROVE IInv'
      BY <2>2, WrongTypeStep, StopStep DEF LibevStopEvent
    <2>3. ASSUME NEW h \in Blocks, LibevStartEvent(h) PROVE IInv'
      BY <1>1, <2>3, WrongTypeStep, StartStep DEF LibevStartEvent, Handle
    <2> QED
      BY <1>4, <2>1, <2>2, <2>3 DEF LibevChanges
  <1>5. CASE LibevCallsBack
    BY <1>5, CallsBackStep
       DEF LibevCallsBack, LibevReadEvent, LibevWriteEvent, LibevTimerEvent,
           LibevPeriodicEvent, IoKinds, TimerKinds
  <1> QED
    BY <1>2, <1>3, <1>4, <1>5, LoopKeeps DEF LibevNext

(* Every function of the libevent binding keeps the invariant.             *)
LEMMA LibeventStep == IInv /\ LibeventNext => IInv'
  <1> SUFFICES ASSUME IInv, LibeventNext PROVE IInv'
    OBVIOUS
  <1>2. CASE LibeventAdds
    <2>1. PICK b \in Blocks, u \in UserData :
            \/ LibeventAddRead(b, u) \/ LibeventAddWrite(b, u)
            \/ \E a \in 1 .. MaxAfter :
                 \/ LibeventAddTimer(b, u, a)
                 \/ \E c \in Blocks : LibeventAddPeriodic(b, c, u, a)
      BY <1>2 DEF LibeventAdds
    <2>2. ASSUME NEW k \in IoKinds, AddIo(b, k, u) PROVE IInv'
      BY <2>2, AddIoStep
    <2>3. ASSUME NEW a \in 1 .. MaxAfter, LibeventAddTimer(b, u, a) PROVE IInv'
      BY <2>3, AddTimerStep DEF LibeventAddTimer
    <2>4. ASSUME NEW a \in 1 .. MaxAfter, NEW c \in Blocks, LibeventAddPeriodic(b, c, u, a)
          PROVE  IInv'
      BY <2>4, AddPeriodicStep DEF LibeventAddPeriodic
    <2> QED
      BY <2>1, <2>2, <2>3, <2>4 DEF LibeventAddRead, LibeventAddWrite, IoKinds
  <1>3. CASE LibeventDels
    BY <1>3, DelStep, DelPeriodicStep
       DEF LibeventDels, LibeventDelRead, LibeventDelWrite, LibeventDelTimer,
           LibeventDelPeriodic, IoKinds
  <1>4. CASE LibeventChanges
    <2>1. ASSUME NEW h \in Blocks, LibeventRepeatTimer(h) PROVE IInv'
      BY <2>1 DEF LibeventRepeatTimer, vars, IInv, TypeOK, NothingDangles,
                  HandlesOwnEvents, IsEvent, Handle
    <2>2. ASSUME NEW h \in Blocks, LibeventStopEvent(h) PROVE IInv'
      BY <2>2, WrongTypeStep, StopStep DEF LibeventStopEvent
    <2>3. ASSUME NEW h \in Blocks, LibeventStartEvent(h) PROVE IInv'
      <3>1. left[h] \in Never .. MaxAfter
        BY DEF IInv, TypeOK
      <3> QED
        BY <2>3, <3>1, WrongTypeStep, StartStep DEF LibeventStartEvent, AddedAgain, Handle
    <2> QED
      BY <1>4, <2>1, <2>2, <2>3 DEF LibeventChanges
  <1>5. CASE LibeventCallsBack
    BY <1>5, CallsBackStep
       DEF LibeventCallsBack, LibeventReadEvent, LibeventWriteEvent, LibeventTimerEvent,
           LibeventPeriodicEvent, IoKinds, TimerKinds
  <1> QED
    BY <1>2, <1>3, <1>4, <1>5, LoopKeeps DEF LibeventNext

(* The inductive invariant of Bindings holds throughout.                   *)
LEMMA Invariance == Spec => []IInv
  <1>1. BindingsInit => IInv
    BY MaxAfterAssumption
       DEF BindingsInit, Init, IInv, TypeOK, NothingDangles, HandlesOwnEvents,
           Handle, IsEvent, Free, Never
  <1>2. IInv /\ [BindingsNext]_allVars => IInv'
    <2>1. IInv /\ UNCHANGED vars => IInv'
      BY DEF vars, IInv, TypeOK, NothingDangles, HandlesOwnEvents, IsEvent, Handle
    <2> QED
      BY <2>1, LibevStep, LibeventStep DEF BindingsNext, GenLibev, GenLibevent, allVars
  <1> QED
    BY <1>1, <1>2, PTL DEF Spec

(***************************************************************************)
(* The memory, the loop and what it calls back keep their types; in        *)
(* particular what was collected is in the loop.                           *)
(***************************************************************************)
THEOREM TypeCorrect == Spec => []TypeOK
  <1>1. IInv => TypeOK
    BY DEF IInv
  <1> QED
    BY <1>1, Invariance, PTL

(***************************************************************************)
(* Neither binding lets the loop look at, or call back, an event whose     *)
(* memory was freed.                                                       *)
(***************************************************************************)
THEOREM NoDangling == Spec => []NothingDangles
  <1>1. IInv => NothingDangles
    BY DEF IInv
  <1> QED
    BY <1>1, Invariance, PTL

(***************************************************************************)
(* With either binding events and handles belong to each other one to one. *)
(***************************************************************************)
THEOREM NothingLost == Spec => []HandlesOwnEvents
  <1>1. IInv => HandlesOwnEvents
    BY DEF IInv
  <1> QED
    BY <1>1, Invariance, PTL

-----------------------------------------------------------------------------
(* What the loop knows of its events stays sound.                          *)
LEMMA LoopSoundStep == IInv /\ LoopSound /\ [BindingsNext]_allVars => LoopSound'
  <1> SUFFICES ASSUME IInv, LoopSound, [BindingsNext]_allVars PROVE LoopSound'
    OBVIOUS
  <1>1. TypeOK /\ NothingDangles
    BY DEF IInv
  <1>2. pending \subseteq active /\ active \subseteq Blocks /\ \A b \in active : IsEvent(b)
    BY <1>1 DEF TypeOK, NothingDangles
  <1>3. CASE UNCHANGED vars
    BY <1>3 DEF vars, LoopSound, IsTimer, IsEvent
  <1>4. ASSUME NEW b \in Blocks, mem[b] = Free, NEW l, LoopAdds(b, l), pending' = pending,
               \A x \in Blocks : mem[x] # Free => mem'[x] = mem[x]
        PROVE  LoopSound'
    <2>1. b \notin active /\ \A x \in active : mem'[x] = mem[x]
      BY <1>2, <1>4 DEF IsEvent, Free
    <2> QED
      BY <1>1, <1>2, <1>4, <2>1 DEF LoopSound, LoopAdds, IsTimer, IsEvent, TypeOK
  <1>5. ASSUME NEW e \in Blocks, LoopDrops(e), \A x \in active \ {e} : mem'[x] = mem[x]
        PROVE  LoopSound'
    BY <1>1, <1>2, <1>5 DEF LoopSound, LoopDrops, IsTimer, IsEvent, TypeOK
  <1>6. ASSUME NEW h \in Blocks, LoopAdds(h, left'[h]), mem' = mem,
               \/ pending' = pending \ {h}
               \/ pending' = pending /\ left'[h] = left[h]
               \/ pending' = pending /\ ~IsTimer(h)
        PROVE  LoopSound'
    BY <1>1, <1>2, <1>6 DEF LoopSound, LoopAdds, IsTimer, IsEvent, TypeOK
  <1>7. ASSUME UNCHANGED <<mem, active, left>>, pending' \subseteq pending
        PROVE  LoopSound'
    BY <1>7 DEF LoopSound, IsTimer, IsEvent
  <1>8. CASE Tick
    BY <1>1, <1>2, <1>8 DEF Tick, LoopSound, IsTimer, IsEvent, TypeOK, Never
  <1>9. ASSUME NEW S \in SUBSET active, Collect(S) PROVE LoopSound'
    <2>1. /\ pending' = S /\ S \subseteq Due \cup Io
          /\ left' = [b \in Blocks |-> IF b \in Due THEN Rearmed(b) ELSE left[b]]
          /\ UNCHANGED <<mem, active>>
      BY <1>2, <1>9 DEF Collect
    <2> QED
      BY <1>2, <2>1 DEF LoopSound, Due, Io, Rearmed, IsTimer, IsEvent
  <1>10. CASE Loop
    BY <1>8, <1>9, <1>10 DEF Loop
  <1>11. ASSUME NEW b \in Blocks, NEW k \in IoKinds, NEW u \in UserData, AddIo(b, k, u)
         PROVE  LoopSound'
    BY <1>1, <1>4, <1>11 DEF AddIo, TypeOK
  <1>12. ASSUME NEW b \in Blocks, NEW u \in UserData, NEW a \in 1 .. MaxAfter,
                AddTimerEvent(b, u, a)
         PROVE  LoopSound'
    BY <1>1, <1>4, <1>12 DEF AddTimerEvent, TypeOK
  <1>13. ASSUME NEW b \in Blocks, NEW c \in Blocks, NEW u \in UserData,
                NEW a \in 1 .. MaxAfter, AddPeriodicEvent(b, c, u, a)
         PROVE  LoopSound'
    BY <1>1, <1>4, <1>13 DEF AddPeriodicEvent, TypeOK
  <1>14. ASSUME NEW h \in Blocks, NEW k \in IoKinds \cup {"timer"}, DelEvent(h, {k})
         PROVE  LoopSound'
    BY <1>1, <1>2, <1>5, <1>14 DEF DelEvent, Stopped, TypeOK
  <1>15. ASSUME NEW h \in Blocks, DelPeriodicEvent(h) PROVE LoopSound'
    <2>1. /\ mem[h].use = "cbdata" /\ LoopDrops(mem[h].ev)
          /\ mem' = [b \in Blocks |-> IF b \in {h, mem[h].ev} THEN Free ELSE mem[b]]
      BY <1>15 DEF DelPeriodicEvent, Stopped, FreedWith
    <2>2. mem[h].ev \in Blocks /\ h \notin active
      BY <1>1, <1>2, <2>1, CbDataTyped DEF IsEvent
    <2>3. \A x \in active \ {mem[h].ev} : mem'[x] = mem[x]
      BY <1>2, <2>1, <2>2
    <2> QED
      BY <1>5, <2>1, <2>2, <2>3
  <1>16. ASSUME NEW h \in Blocks, NEW kinds, Handle(h, kinds), LoopDrops(h), mem' = mem
         PROVE  LoopSound'
    BY <1>5, <1>16
  <1>17. CASE WrongType
    BY <1>7, <1>17 DEF WrongType
  <1>18. ASSUME NEW b \in Blocks, NEW k, CallsBack(b, k) PROVE LoopSound'
    BY <1>7, <1>18 DEF CallsBack, TakesUp
  <1>19. CASE LibevNext
    <2>1. CASE LibevAdds
      BY <2>1, <1>11, <1>12, <1>13
         DEF LibevAdds, LibevAddRead, LibevAddWrite, LibevAddTimer, LibevAddPeriodic, IoKinds
    <2>2. CASE LibevDels
      BY <2>2, <1>14, <1>15
         DEF LibevDels, LibevDelRead, LibevDelWrite, LibevDelTimer, LibevDelPeriodic, IoKinds
    <2>3. CASE LibevChanges
      <3>1. ASSUME NEW h \in Blocks, LibevRepeatTimer(h) PROVE LoopSound'
        BY <1>1, <1>6, <1>17, <3>1 DEF LibevRepeatTimer, LoopAdds, TypeOK
      <3>2. ASSUME NEW h \in Blocks, LibevStopEvent(h) PROVE LoopSound'
        BY <1>16, <1>17, <3>2 DEF LibevStopEvent
      <3>3. ASSUME NEW h \in Blocks, LibevStartEvent(h) PROVE LoopSound'
        BY <1>1, <1>6, <1>17, <3>3
           DEF LibevStartEvent, LoopAdds, TypeOK, Handle, IsTimer, IoKinds, TimerKinds
      <3> QED
        BY <2>3, <3>1, <3>2, <3>3 DEF LibevChanges
    <2>4. CASE LibevCallsBack
      BY <2>4, <1>18
         DEF LibevCallsBack, LibevReadEvent, LibevWriteEvent, LibevTimerEvent, LibevPeriodicEvent
    <2> QED
      BY <1>10, <1>19, <2>1, <2>2, <2>3, <2>4 DEF LibevNext
  <1>20. CASE LibeventNext
    <2>1. CASE LibeventAdds
      BY <2>1, <1>11, <1>12, <1>13
         DEF LibeventAdds, LibeventAddRead, LibeventAddWrite, LibeventAddTimer,
             LibeventAddPeriodic, IoKinds
    <2>2. CASE LibeventDels
      BY <2>2, <1>14, <1>15
         DEF LibeventDels, LibeventDelRead, LibeventDelWrite, LibeventDelTimer,
             LibeventDelPeriodic, IoKinds
    <2>3. CASE LibeventChanges
      <3>1. ASSUME NEW h \in Blocks, LibeventRepeatTimer(h) PROVE LoopSound'
        BY <1>3, <3>1 DEF LibeventRepeatTimer
      <3>2. ASSUME NEW h \in Blocks, LibeventStopEvent(h) PROVE LoopSound'
        BY <1>16, <1>17, <3>2 DEF LibeventStopEvent
      <3>3. ASSUME NEW h \in Blocks, LibeventStartEvent(h) PROVE LoopSound'
        BY <1>1, <1>6, <1>17, <3>3 DEF LibeventStartEvent, AddedAgain, LoopAdds, TypeOK
      <3> QED
        BY <2>3, <3>1, <3>2, <3>3 DEF LibeventChanges
    <2>4. CASE LibeventCallsBack
      BY <2>4, <1>18
         DEF LibeventCallsBack, LibeventReadEvent, LibeventWriteEvent, LibeventTimerEvent,
             LibeventPeriodicEvent
    <2> QED
      BY <1>10, <1>20, <2>1, <2>2, <2>3, <2>4 DEF LibeventNext
  <1> QED
    BY <1>3, <1>19, <1>20 DEF BindingsNext, GenLibev, GenLibevent, allVars

-----------------------------------------------------------------------------
(* No step of either binding or of the loop puts off a timer that stays in *)
(* the loop, but for its call back and repeat_timer of libev.              *)
LEMMA PostponesStep ==
  ASSUME IInv, [BindingsNext]_allVars,
         NEW b \in active, b \in active', IsTimer(b), mem'[b] = mem[b]
  PROVE  \/ LeftOf(b)' <= LeftOf(b)
         \/ Called(b)
         \/ lib = "libev" /\ LibevRepeatTimer(b)
  <1> DEFINE Kept == LeftOf(b)' <= LeftOf(b)
  <1>1. TypeOK /\ active \subseteq Blocks /\ b \in Blocks
    BY DEF IInv, TypeOK
  <1>2. mem[b].after \in Nat /\ left[b] \in Int /\ left[b] >= Never
    <2>1. mem[b].after \in 0 .. MaxAfter
      BY <1>1, EventTyped DEF IsTimer
    <2> QED
      BY <1>1, <2>1, MaxAfterAssumption DEF TypeOK, Never
  <1>3. mem[b] # Free /\ mem[b].use # "cbdata" /\ mem[b].cb \notin IoKinds
    BY DEF IsTimer, IsEvent, Free, IoKinds, TimerKinds
  <1>4. ASSUME left'[b] = left[b], b \in pending => b \in pending'
        PROVE  Kept
    BY <1>2, <1>4 DEF LeftOf, Never
  <1>5. ASSUME UNCHANGED vars PROVE Kept
    BY <1>4, <1>5 DEF vars
  <1>6. ASSUME NEW x \in Blocks, mem[x] = Free, NEW l, LoopAdds(x, l), pending' = pending
        PROVE  Kept
    BY <1>1, <1>3, <1>4, <1>6 DEF LoopAdds, TypeOK
  <1>7. ASSUME NEW e, LoopDrops(e) PROVE Kept
    BY <1>1, <1>4, <1>7 DEF LoopDrops, TypeOK
  <1>8. ASSUME Tick PROVE Kept
    <2>1. left'[b] = IF left[b] > 0 THEN left[b] - 1 ELSE left[b]
      BY <1>1, <1>8 DEF Tick
    <2> QED
      BY <1>2, <1>8, <2>1 DEF Tick, LeftOf, Never
  <1>9. ASSUME NEW S \in SUBSET active, Collect(S) PROVE Kept
    <2>1. CASE UNCHANGED <<pending, left>>
      BY <1>4, <2>1
    <2>2. CASE /\ pending = {} /\ Due \subseteq S /\ pending' = S
               /\ left' = [x \in Blocks |-> IF x \in Due THEN Rearmed(x) ELSE left[x]]
      <3>1. CASE b \in Due
        <4>1. LeftOf(b)' = 0
          BY <2>2, <3>1 DEF LeftOf
        <4>2. LeftOf(b) >= 0
          BY <1>2 DEF LeftOf, Never
        <4> QED
          BY <4>1, <4>2
      <3>2. CASE b \notin Due
        BY <1>1, <1>4, <2>2, <3>2
      <3> QED
        BY <3>1, <3>2
    <2> QED
      BY <1>9, <2>1, <2>2 DEF Collect
  <1>10. ASSUME Loop PROVE Kept
    BY <1>8, <1>9, <1>10 DEF Loop
  <1>11. ASSUME NEW x \in Blocks, NEW k, NEW u, AddIo(x, k, u) PROVE Kept
    BY <1>6, <1>11 DEF AddIo
  <1>12. ASSUME NEW x \in Blocks, NEW u, NEW a, AddTimerEvent(x, u, a) PROVE Kept
    BY <1>6, <1>12 DEF AddTimerEvent
  <1>13. ASSUME NEW x \in Blocks, NEW c, NEW u, NEW a, AddPeriodicEvent(x, c, u, a)
         PROVE  Kept
    BY <1>6, <1>13 DEF AddPeriodicEvent
  <1>14. ASSUME NEW h, NEW kinds, DelEvent(h, kinds) PROVE Kept
    BY <1>7, <1>14 DEF DelEvent, Stopped
  <1>15. ASSUME NEW h, DelPeriodicEvent(h) PROVE Kept
    BY <1>7, <1>15 DEF DelPeriodicEvent, Stopped
  <1>16. ASSUME WrongType PROVE Kept
    BY <1>4, <1>16 DEF WrongType
  <1>17. ASSUME NEW x \in Blocks, NEW k \in IoKinds \cup TimerKinds, CallsBack(x, k)
         PROVE  Kept \/ Called(b)
    <2>1. CASE x = b
      BY <1>17, <2>1 DEF Called
    <2>2. CASE x # b
      BY <1>4, <1>17, <2>2 DEF CallsBack, TakesUp
    <2> QED
      BY <2>1, <2>2
  <1>18. CASE lib = "libev" /\ LibevNext
    <2>1. CASE LibevAdds
      BY <2>1, <1>11, <1>12, <1>13
         DEF LibevAdds, LibevAddRead, LibevAddWrite, LibevAddTimer, LibevAddPeriodic
    <2>2. CASE LibevDels
      BY <2>2, <1>14, <1>15
         DEF LibevDels, LibevDelRead, LibevDelWrite, LibevDelTimer, LibevDelPeriodic
    <2>3. CASE LibevChanges
      <3>1. ASSUME NEW h \in Blocks, LibevRepeatTimer(h)
            PROVE  Kept \/ (lib = "libev" /\ LibevRepeatTimer(b))
        <4>1. CASE h = b
          BY <1>18, <3>1, <4>1
        <4>2. CASE h # b /\ LoopAdds(h, mem[h].after) /\ pending' = pending \ {h}
          BY <1>1, <1>4, <4>2 DEF LoopAdds, TypeOK
        <4> QED
          BY <1>16, <3>1, <4>1, <4>2 DEF LibevRepeatTimer
      <3>2. ASSUME NEW h \in Blocks, LibevStopEvent(h) PROVE Kept
        BY <1>7, <1>16, <3>2 DEF LibevStopEvent
      <3>3. ASSUME NEW h \in Blocks, LibevStartEvent(h) PROVE Kept
        <4>1. CASE Handle(h, IoKinds) /\ LoopAdds(h, Never) /\ pending' = pending
          <5>1. h # b
            BY <1>3, <4>1 DEF Handle
          <5> QED
            BY <1>1, <1>4, <4>1, <5>1 DEF LoopAdds, TypeOK
        <4> QED
          BY <1>16, <3>3, <4>1 DEF LibevStartEvent
      <3> QED
        BY <2>3, <3>1, <3>2, <3>3 DEF LibevChanges
    <2>4. CASE LibevCallsBack
      BY <2>4, <1>17
         DEF LibevCallsBack, LibevReadEvent, LibevWriteEvent, LibevTimerEvent,
             LibevPeriodicEvent, IoKinds, TimerKinds
    <2> QED
      BY <1>10, <1>18, <2>1, <2>2, <2>3, <2>4 DEF LibevNext
  <1>19. CASE LibeventNext
    <2>1. CASE LibeventAdds
      BY <2>1, <1>11, <1>12, <1>13
         DEF LibeventAdds, LibeventAddRead, LibeventAddWrite, LibeventAddTimer,
             LibeventAddPeriodic
    <2>2. CASE LibeventDels
      BY <2>2, <1>14, <1>15
         DEF LibeventDels, LibeventDelRead, LibeventDelWrite, LibeventDelTimer,
             LibeventDelPeriodic
    <2>3. CASE LibeventChanges
      <3>1. ASSUME NEW h \in Blocks, LibeventRepeatTimer(h) PROVE Kept
        BY <1>5, <3>1 DEF LibeventRepeatTimer
      <3>2. ASSUME NEW h \in Blocks, LibeventStopEvent(h) PROVE Kept
        BY <1>7, <1>16, <3>2 DEF LibeventStopEvent
      <3>3. ASSUME NEW h \in Blocks, LibeventStartEvent(h) PROVE Kept
        <4>1. CASE LoopAdds(h, left[h]) /\ pending' = pending
          BY <1>1, <1>4, <4>1 DEF LoopAdds, TypeOK
        <4> QED
          BY <1>16, <3>3, <4>1 DEF LibeventStartEvent, AddedAgain
      <3> QED
        BY <2>3, <3>1, <3>2, <3>3 DEF LibeventChanges
    <2>4. CASE LibeventCallsBack
      BY <2>4, <1>17
         DEF LibeventCallsBack, LibeventReadEvent, LibeventWriteEvent, LibeventTimerEvent,
             LibeventPeriodicEvent, IoKinds, TimerKinds
    <2> QED
      BY <1>10, <1>19, <2>1, <2>2, <2>3, <2>4 DEF LibeventNext
  <1> QED
    BY <1>5, <1>18, <1>19 DEF BindingsNext, GenLibev, GenLibevent, allVars

(***************************************************************************)
(* With either binding a timer that stays in the loop is never put off,    *)
(* unless it is called back or, with libev, repeated: neither start_event  *)
(* nor what happens to other events gives it more time.                    *)
(***************************************************************************)
THEOREM NeverPutOff == Spec => NothingPostpones
  <1>1. IInv /\ [BindingsNext]_allVars =>
          [\A b \in active \cap active' :
             IsTimer(b) /\ mem'[b] = mem[b] =>
               \/ LeftOf(b)' <= LeftOf(b)
               \/ Called(b)
               \/ lib = "libev" /\ LibevRepeatTimer(b)]_allVars
    BY PostponesStep
  <1> QED
    BY <1>1, Invariance, PTL DEF Spec, NothingPostpones

-----------------------------------------------------------------------------
(* What AsyncContract sees of handle h.                                    *)
EvOf(h) ==
  [kind |-> mem[EventOf(h)].cb, ud |-> mem[h].ud, after |-> mem[EventOf(h)].after,
   left |-> LeftOf(EventOf(h)),
   state |-> IF EventOf(h) \in active THEN "started" ELSE "stopped"]

(* The event of a handle, and what is known of it.                         *)
LEMMA HandleTyped ==
  ASSUME IInv, NEW h \in Handles
  PROVE  /\ h \in Blocks /\ EventOf(h) \in Blocks /\ IsEvent(EventOf(h))
         /\ mem[h].ud \in UserData
         /\ mem[EventOf(h)].cb \in IoKinds \cup TimerKinds
         /\ mem[EventOf(h)].after \in 0 .. MaxAfter
         /\ Evs[h] = EvOf(h)
         /\ h # EventOf(h) <=> mem[EventOf(h)].cb = "periodic"
  <1>1. TypeOK /\ HandlesOwnEvents /\ h \in Blocks
    BY DEF IInv, Handles
  <1>2. Evs[h] = EvOf(h)
    BY DEF Evs, EvOf
  <1>3. CASE mem[h].use = "cbdata"
    <2>1. mem[h].ev \in Blocks /\ mem[h].ud \in UserData
      BY <1>1, <1>3, CbDataTyped
    <2>2. Handle(mem[h].ev, {"periodic"})
      BY <1>1, <1>3 DEF HandlesOwnEvents
    <2> QED
      BY <1>1, <1>2, <1>3, <2>1, <2>2, EventTyped DEF EventOf, Handle, IsEvent
  <1>4. CASE mem[h].use # "cbdata"
    <2>1. EventOf(h) = h /\ IsEvent(h) /\ mem[h].cb \in IoKinds \cup {"timer"}
      BY <1>4 DEF EventOf, Handles, Handle
    <2>2. mem[h].cb # "periodic"
      BY <2>1 DEF IoKinds
    <2> QED
      BY <1>1, <1>2, <2>1, <2>2, EventTyped
  <1> QED
    BY <1>3, <1>4

(* Two handles never share an event, and none is the event of another.     *)
LEMMA EventsApart ==
  ASSUME IInv, NEW g \in Handles, NEW h \in Handles, g # h
  PROVE  EventOf(g) # EventOf(h) /\ EventOf(g) # h
  <1>1. HandlesOwnEvents
    BY DEF IInv
  <1>2. /\ g # EventOf(g) => mem[g].use = "cbdata" /\ EventOf(g) = mem[g].ev
        /\ h # EventOf(h) => mem[h].use = "cbdata" /\ EventOf(h) = mem[h].ev
    BY DEF EventOf
  <1>3. g \in Blocks /\ h \in Blocks
    BY HandleTyped
  <1>4. g # EventOf(g) => mem[EventOf(g)].ud = g /\ mem[EventOf(g)].cb = "periodic"
    BY <1>1, <1>2, <1>3 DEF HandlesOwnEvents, Handle
  <1>5. h # EventOf(h) => mem[EventOf(h)].ud = h /\ mem[EventOf(h)].cb = "periodic"
    BY <1>1, <1>2, <1>3 DEF HandlesOwnEvents, Handle
  <1>6. g = EventOf(g) => mem[EventOf(g)].cb # "periodic"
    BY HandleTyped
  <1>7. h = EventOf(h) => mem[EventOf(h)].cb # "periodic"
    BY HandleTyped
  <1>8. EventOf(g) # EventOf(h)
    BY <1>4, <1>5, <1>6, <1>7
  <1>9. EventOf(g) # h
    <2>1. CASE h = EventOf(h)
      BY <1>8, <2>1
    <2>2. CASE h # EventOf(h)
      <3>1. mem[h].use = "cbdata"
        BY <1>2, <2>2
      <3>2. IsEvent(EventOf(g))
        BY HandleTyped
      <3> QED
        BY <3>1, <3>2 DEF IsEvent
    <2> QED
      BY <2>1, <2>2
  <1> QED
    BY <1>8, <1>9

(* A handle looks the same if nothing of its event has changed.            *)
LEMMA EvSame ==
  ASSUME NEW h, mem'[h] = mem[h], mem'[EventOf(h)] = mem[EventOf(h)],
         left'[EventOf(h)] = left[EventOf(h)],
         EventOf(h) \in active' <=> EventOf(h) \in active,
         EventOf(h) \in pending' <=> EventOf(h) \in pending
  PROVE  EvOf(h)' = EvOf(h) /\ EventOf(h)' = EventOf(h)
  <1>1. EventOf(h)' = EventOf(h)
    BY DEF EventOf
  <1>2. LeftOf(EventOf(h))' = LeftOf(EventOf(h))
    BY <1>1 DEF LeftOf
  <1>3. (EventOf(h) \in active)' = (EventOf(h) \in active)
    BY <1>1
  <1> QED
    BY <1>1, <1>2, <1>3 DEF EvOf

(* What AsyncContract sees when one handle changes.                        *)
LEMMA EvsChange ==
  ASSUME IInv, NEW h \in Handles, mem' = mem,
         \A g \in Handles \ {h} : EvOf(g)' = EvOf(g)
  PROVE  Evs' = [Evs EXCEPT ![h] = EvOf(h)']
  <1>1. Handles' = Handles
    BY DEF Handles, Handle, IsEvent
  <1>2. Evs' = [g \in Handles |-> EvOf(g)']
    BY <1>1 DEF Evs, EvOf
  <1>3. Evs = [g \in Handles |-> EvOf(g)]
    BY DEF Evs, EvOf
  <1> QED
    BY <1>2, <1>3

(* Nothing of the loop but event e changes.                                *)
LEMMA OthersSame ==
  ASSUME IInv, NEW h \in Handles, mem' = mem,
         \A e \in Blocks \ {EventOf(h)} :
           /\ left'[e] = left[e]
           /\ e \in active' <=> e \in active
           /\ e \in pending' <=> e \in pending
  PROVE  Evs' = [Evs EXCEPT ![h] = EvOf(h)']
  <1>1. ASSUME NEW g \in Handles \ {h} PROVE EvOf(g)' = EvOf(g)
    <2>1. EventOf(g) \in Blocks \ {EventOf(h)}
      BY EventsApart, HandleTyped
    <2> QED
      BY <2>1, EvSame
  <1> QED
    BY <1>1, EvsChange

(* AsyncContract sees nothing of a step that keeps all handles as they are. *)
LEMMA NothingSeen ==
  ASSUME mem' = mem, got' = got, \A h \in Handles : EvOf(h)' = EvOf(h)
  PROVE  UNCHANGED Contract!vars
  <1>1. Handles' = Handles
    BY DEF Handles, Handle, IsEvent
  <1>2. Evs' = [g \in Handles |-> EvOf(g)']
    BY <1>1 DEF Evs, EvOf
  <1>3. Evs = [g \in Handles |-> EvOf(g)]
    BY DEF Evs, EvOf
  <1> QED
    BY <1>2, <1>3 DEF Contract!vars

(* An event has an interval if it is a timer.                              *)
LEMMA TimerAfter ==
  ASSUME TypeOK, NEW b \in Blocks, IsEvent(b)
  PROVE  IsTimer(b) <=> mem[b].after # 0
  BY MemoryTyped, MaxAfterAssumption
     DEF IsEvent, IsTimer, Free, IoEvents, Timers, Periodics, CbDatas, IoKinds, TimerKinds

(* The handle of an event that is not periodic.                            *)
LEMMA PlainHandle ==
  ASSUME NEW h \in Blocks, NEW kinds \in SUBSET (IoKinds \cup {"timer"}), Handle(h, kinds)
  PROVE  h \in Handles /\ EventOf(h) = h /\ IsEvent(h)
  BY DEF Handle, Handles, EventOf, IsEvent

(* Stopping an event is a Stop of its handle.                              *)
LEMMA StopSeen ==
  ASSUME IInv, NEW h \in Handles, EventOf(h) = h, LoopDrops(h), UNCHANGED <<mem, got>>
  PROVE  Contract!Stop(h)
  <1>1. TypeOK /\ h \in Blocks
    BY HandleTyped DEF IInv
  <1>2. left'[h] = Never /\ h \notin active' /\ h \notin pending'
    BY <1>1 DEF LoopDrops, TypeOK
  <1>3. Evs' = [Evs EXCEPT ![h] = EvOf(h)']
    BY <1>1, OthersSame DEF LoopDrops, TypeOK
  <1>4. EventOf(h)' = h
    BY DEF EventOf
  <1>5. LeftOf(h)' = mem[h].after
    BY <1>2 DEF LeftOf
  <1>6. EvOf(h)' = [EvOf(h) EXCEPT !.state = "stopped", !.left = mem[h].after]
    <2> DEFINE stopped(l) == [kind |-> mem[h].cb, ud |-> mem[h].ud, after |-> mem[h].after,
                              left |-> l, state |-> "stopped"]
    <2>1. EvOf(h)' = stopped(mem[h].after)
      BY <1>2, <1>4, <1>5 DEF EvOf
    <2>2. [EvOf(h) EXCEPT !.state = "stopped"] = stopped(LeftOf(h))
      BY DEF EvOf
    <2>3. [stopped(LeftOf(h)) EXCEPT !.left = mem[h].after] = stopped(mem[h].after)
      OBVIOUS
    <2> HIDE DEF stopped
    <2> QED
      BY <2>1, <2>2, <2>3, Zenon
  <1>7. Evs[h] = EvOf(h) /\ Evs[h].after = mem[h].after
    BY HandleTyped DEF EvOf
  <1> QED
    BY <1>3, <1>6, <1>7 DEF Contract!Stop

(* Adding an event again with what is left for it is a Start of its        *)
(* handle.                                                                 *)
LEMMA StartSeen ==
  ASSUME IInv, NEW h \in Handles, EventOf(h) = h, NEW l, LoopAdds(h, l), pending' = pending,
         mem[h].after = 0 \/ l = left[h], UNCHANGED <<mem, got>>
  PROVE  Contract!Start(h)
  <1>1. TypeOK /\ h \in Blocks
    BY HandleTyped DEF IInv
  <1>2. left'[h] = l /\ h \in active'
    BY <1>1 DEF LoopAdds, TypeOK
  <1>3. Evs' = [Evs EXCEPT ![h] = EvOf(h)']
    BY <1>1, OthersSame DEF LoopAdds, TypeOK
  <1>4. EventOf(h)' = h
    BY DEF EventOf
  <1>5. LeftOf(h)' = LeftOf(h)
    BY <1>2 DEF LeftOf
  <1>6. EvOf(h)' = [EvOf(h) EXCEPT !.state = "started"]
    BY <1>2, <1>4, <1>5 DEF EvOf
  <1>7. Evs[h] = EvOf(h)
    BY HandleTyped
  <1> QED
    BY <1>3, <1>6, <1>7 DEF Contract!Start

(* Starting the interval over is a Repeat of a timer in the loop and a     *)
(* Start of one that is not.                                               *)
LEMMA RepeatSeen ==
  ASSUME IInv, LoopSound, NEW h \in Handles, EventOf(h) = h, LoopAdds(h, mem[h].after),
         pending' = pending \ {h}, UNCHANGED <<mem, got>>
  PROVE  Contract!Repeat(h) \/ Contract!Start(h)
  <1>1. TypeOK /\ h \in Blocks
    BY HandleTyped DEF IInv
  <1>2. left'[h] = mem[h].after /\ h \in active' /\ h \notin pending'
    BY <1>1 DEF LoopAdds, TypeOK
  <1>3. Evs' = [Evs EXCEPT ![h] = EvOf(h)']
    BY <1>1, OthersSame DEF LoopAdds, TypeOK
  <1>4. EventOf(h)' = h
    BY DEF EventOf
  <1>5. LeftOf(h)' = mem[h].after
    BY <1>2 DEF LeftOf
  <1>6. EvOf(h)' = [kind |-> mem[h].cb, ud |-> mem[h].ud, after |-> mem[h].after,
                    left |-> mem[h].after, state |-> "started"]
    BY <1>2, <1>4, <1>5 DEF EvOf
  <1>7. Evs[h] = EvOf(h) /\ Evs[h].after = mem[h].after
    BY HandleTyped DEF EvOf
  <1>8. CASE h \in active
    <2>1. Evs[h].state = "started"
      BY <1>7, <1>8 DEF EvOf
    <2>2. EvOf(h)' = [EvOf(h) EXCEPT !.left = mem[h].after]
      BY <1>6, <1>8 DEF EvOf
    <2> QED
      BY <1>3, <1>7, <2>1, <2>2 DEF Contract!Repeat
  <1>9. CASE h \notin active
    <2>1. LeftOf(h) = mem[h].after
      BY <1>1, <1>9 DEF LoopSound, LeftOf, TypeOK
    <2>2. EvOf(h)' = [EvOf(h) EXCEPT !.state = "started"]
      BY <1>6, <2>1 DEF EvOf
    <2> QED
      BY <1>3, <1>7, <2>2 DEF Contract!Start
  <1> QED
    BY <1>8, <1>9

(* Passing of time is a Wait.                                              *)
LEMMA TickSeen ==
  ASSUME IInv, LoopSound, Tick
  PROVE  Contract!Wait
  <1>1. TypeOK
    BY DEF IInv
  <1>2. /\ mem' = mem /\ active' = active /\ pending = {} /\ pending' = {} /\ got' = got
        /\ \A b \in Blocks : left'[b] = IF left[b] > 0 THEN left[b] - 1 ELSE left[b]
    BY DEF Tick
  <1>3. Handles' = Handles
    BY <1>2 DEF Handles, Handle, IsEvent
  <1>4. DOMAIN Evs' = DOMAIN Evs /\ DOMAIN Evs = Handles
    BY <1>3 DEF Evs
  <1>5. ASSUME NEW h \in Handles
        PROVE  \/ Evs'[h] = Evs[h]
               \/ Evs[h].state = "started" /\ Evs[h].left > 0 /\ Evs'[h] = [Evs[h] EXCEPT !.left = @ - 1]
    <2> DEFINE e == EventOf(h)
    <2>1. e \in Blocks /\ Evs[h] = EvOf(h) /\ e' = e
      BY <1>2, HandleTyped DEF EventOf
    <2>2. Evs'[h] = EvOf(h)'
      BY <1>3 DEF Evs, EvOf
    <2>3. left[e] \in Int /\ left'[e] = IF left[e] > 0 THEN left[e] - 1 ELSE left[e]
      BY <1>1, <1>2, <2>1, MaxAfterAssumption DEF TypeOK, Never
    <2>4. CASE left[e] > 0 /\ mem[e].after # 0
      <3>1. e \in active
        BY <2>1, <2>4 DEF LoopSound, Never
      <3>2. LeftOf(e) = left[e]
        BY <1>2, <2>3, <2>4 DEF LeftOf, Never
      <3>3. LeftOf(e)' = left[e] - 1
        BY <1>2, <2>1, <2>3, <2>4 DEF LeftOf, Never
      <3>4. EvOf(h)' = [EvOf(h) EXCEPT !.left = left[e] - 1]
        BY <1>2, <2>1, <3>3 DEF EvOf
      <3>5. EvOf(h).state = "started" /\ EvOf(h).left = left[e]
        BY <3>1, <3>2 DEF EvOf
      <3> QED
        BY <2>1, <2>2, <2>4, <3>4, <3>5
    <2>5. CASE ~(left[e] > 0 /\ mem[e].after # 0)
      <3>1. LeftOf(e)' = LeftOf(e)
        BY <1>2, <2>1, <2>3, <2>5 DEF LeftOf
      <3> QED
        BY <1>2, <2>1, <2>2, <3>1 DEF EvOf
    <2> QED
      BY <2>4, <2>5
  <1> QED
    BY <1>2, <1>4, <1>5 DEF Contract!Wait

(* Collecting events is not seen.                                          *)
LEMMA CollectSeen ==
  ASSUME IInv, NEW S \in SUBSET active, Collect(S)
  PROVE  UNCHANGED Contract!vars
  <1>1. TypeOK /\ NothingDangles
    BY DEF IInv
  <1>2. /\ pending = {} /\ pending' = S /\ S \subseteq Due \cup Io /\ Due \subseteq S
        /\ left' = [b \in Blocks |-> IF b \in Due THEN Rearmed(b) ELSE left[b]]
        /\ UNCHANGED <<mem, active, got>>
    BY <1>1 DEF Collect, NothingDangles
  <1>3. ASSUME NEW h \in Handles PROVE EvOf(h)' = EvOf(h)
    <2> DEFINE e == EventOf(h)
    <2>1. e \in Blocks /\ IsEvent(e) /\ e' = e
      BY <1>2, HandleTyped DEF EventOf
    <2>2. IsTimer(e) <=> mem[e].after # 0
      BY <1>1, <2>1, TimerAfter
    <2>3. CASE mem[e].after = 0
      BY <1>2, <2>1, <2>3 DEF LeftOf, EvOf
    <2>4. CASE mem[e].after # 0 /\ e \in Due
      <3>1. LeftOf(e) = 0
        BY <1>2, <2>4 DEF LeftOf, Due, Never
      <3>2. LeftOf(e)' = 0
        BY <1>2, <2>1, <2>4 DEF LeftOf
      <3> QED
        BY <1>2, <2>1, <3>1, <3>2 DEF EvOf
    <2>5. CASE mem[e].after # 0 /\ e \notin Due
      <3>1. e \notin S
        BY <1>2, <2>2, <2>5 DEF Io
      <3>2. LeftOf(e)' = LeftOf(e)
        BY <1>2, <2>1, <2>5, <3>1 DEF LeftOf
      <3> QED
        BY <1>2, <2>1, <3>2 DEF EvOf
    <2> QED
      BY <2>3, <2>4, <2>5
  <1> QED
    BY <1>2, <1>3, NothingSeen

(* A call back is a Deliver of the handle of the event.                    *)
LEMMA CallSeen ==
  ASSUME IInv, LoopSound, NEW b \in Blocks, NEW k, CallsBack(b, k)
  PROVE  \E h \in Handles : Contract!Deliver(h)
  <1>1. TypeOK /\ NothingDangles /\ HandlesOwnEvents
    BY DEF IInv
  <1>2. b \in pending /\ b \in active /\ Intact(b) /\ IsEvent(b)
    BY <1>1, CallIntact DEF CallsBack, TakesUp, TypeOK, NothingDangles
  <1>3. /\ pending' = pending \ {b} /\ UNCHANGED <<mem, active, left>>
        /\ mem[b].cb = k /\ got' = [kind |-> k, ud |-> Passed(b)]
    BY <1>2 DEF CallsBack, TakesUp
  <1>4. PICK h \in Handles : EventOf(h) = b /\ mem[h].ud = Passed(b)
    <2>1. CASE mem[b].cb = "periodic"
      <3>1. mem[b].ud \in Blocks /\ mem[mem[b].ud].use = "cbdata" /\ mem[mem[b].ud].ev = b
        BY <1>1, <1>2, <2>1, EventTyped DEF HandlesOwnEvents, Handle
      <3> QED
        BY <2>1, <3>1 DEF Handles, EventOf, Passed
    <2>2. CASE mem[b].cb # "periodic"
      <3>1. mem[b].cb \in IoKinds \cup {"timer"}
        BY <1>1, <1>2, <2>2, EventTyped DEF TimerKinds
      <3> QED
        BY <1>2, <2>2, <3>1 DEF Handles, Handle, EventOf, Passed, IsEvent
    <2> QED
      BY <2>1, <2>2
  <1>5. Evs[h] = EvOf(h) /\ EvOf(h).state = "started" /\ EvOf(h).left = 0 /\ EvOf(h).kind = k
        /\ EvOf(h).ud = Passed(b) /\ EvOf(h).after = mem[b].after
    <2>1. LeftOf(b) = 0
      BY <1>2 DEF LeftOf
    <2> QED
      BY <1>2, <1>3, <1>4, <2>1, HandleTyped DEF EvOf
  <1>6. EvOf(h)' = [EvOf(h) EXCEPT !.left = mem[b].after]
    <2>1. EventOf(h)' = b
      BY <1>3, <1>4 DEF EventOf
    <2>2. mem[b].after # 0 => left[b] = mem[b].after
      BY <1>1, <1>2, TimerAfter DEF LoopSound
    <2>3. LeftOf(b)' = mem[b].after
      BY <1>3, <2>2 DEF LeftOf
    <2> QED
      BY <1>3, <1>4, <2>1, <2>3 DEF EvOf
  <1>7. Evs' = [Evs EXCEPT ![h] = EvOf(h)']
    BY <1>3, <1>4, OthersSame
  <1> QED
    BY <1>3, <1>5, <1>6, <1>7 DEF Contract!Deliver

-----------------------------------------------------------------------------
(* What AsyncContract sees when a handle comes.                            *)
LEMMA EvsMore ==
  ASSUME NEW h, Handles' = Handles \cup {h}, \A g \in Handles : EvOf(g)' = EvOf(g),
         h \notin Handles, NEW e, e = EvOf(h)', got' = got
  PROVE  Contract!Add(h, e)
  <1>1. Evs' = [g \in Handles' |-> EvOf(g)']
    BY DEF Evs, EvOf
  <1>2. Evs = [g \in Handles |-> EvOf(g)]
    BY DEF Evs, EvOf
  <1>3. Evs' = [g \in DOMAIN Evs \cup {h} |-> IF g = h THEN e ELSE Evs[g]]
    BY <1>1, <1>2
  <1> QED
    BY <1>2, <1>3 DEF Contract!Add

(* What AsyncContract sees when a handle goes.                             *)
LEMMA EvsLess ==
  ASSUME NEW h, Handles' = Handles \ {h}, \A g \in Handles \ {h} : EvOf(g)' = EvOf(g),
         got' = got
  PROVE  Contract!Del(h)
  <1>1. Evs' = [g \in Handles' |-> EvOf(g)']
    BY DEF Evs, EvOf
  <1>2. Evs = [g \in Handles |-> EvOf(g)]
    BY DEF Evs, EvOf
  <1>3. Evs' = Restrict(Evs, DOMAIN Evs \ {h})
    BY <1>1, <1>2 DEF Restrict
  <1> QED
    BY <1>3 DEF Contract!Del, Contract!Restrict, Restrict

(* Adding a descriptor or a timer is an Add.                               *)
LEMMA AddSeen ==
  ASSUME IInv, NEW b \in Blocks, NEW k, k \in IoKinds \cup {"timer"},
         NEW u \in UserData, NEW a \in 0 .. MaxAfter, NEW l, a # 0 => l = a,
         mem[b] = Free, mem' = [mem EXCEPT ![b] = Event(k, u, a)], LoopAdds(b, l),
         UNCHANGED <<pending, got>>
  PROVE  Contract!Add(b, [kind |-> k, ud |-> u, after |-> a, left |-> a, state |-> "started"])
  <1>1. TypeOK /\ NothingDangles
    BY DEF IInv
  <1>2. /\ \A x \in Blocks : mem'[x] = IF x = b THEN Event(k, u, a) ELSE mem[x]
        /\ mem'[b] = Event(k, u, a) /\ Free.use = "free"
    BY <1>1 DEF TypeOK, Free
  <1>3. mem'[b].use = "event" /\ mem'[b].cb = k /\ mem'[b].ud = u /\ mem'[b].after = a
    BY <1>2 DEF Event
  <1>4. b \notin active /\ b \notin pending /\ b \notin Handles
    BY <1>1, <1>2 DEF TypeOK, NothingDangles, IsEvent, Handles, Handle
  <1>5. Handles' = Handles \cup {b}
    BY <1>2, <1>3 DEF Handles, Handle, IsEvent, IoKinds
  <1>6. ASSUME NEW g \in Handles PROVE EvOf(g)' = EvOf(g)
    <2>1. g \in Blocks /\ EventOf(g) \in Blocks /\ g # b /\ EventOf(g) # b
      BY <1>2, <1>4, HandleTyped DEF IsEvent
    <2> QED
      BY <1>1, <1>2, <2>1, EvSame DEF LoopAdds, TypeOK
  <1>7. EvOf(b)' = [kind |-> k, ud |-> u, after |-> a, left |-> a, state |-> "started"]
    <2>1. EventOf(b)' = b
      BY <1>3 DEF EventOf
    <2>2. left'[b] = l /\ b \in active' /\ b \notin pending'
      BY <1>1, <1>4 DEF LoopAdds, TypeOK
    <2>3. LeftOf(b)' = a
      BY <1>3, <2>2, MaxAfterAssumption DEF LeftOf, Never
    <2> QED
      BY <1>3, <2>1, <2>2, <2>3 DEF EvOf
  <1> QED
    BY <1>4, <1>5, <1>6, <1>7, EvsMore

(* Adding a periodic callback is an Add.                                   *)
LEMMA AddPeriodicSeen ==
  ASSUME IInv, NEW b \in Blocks, NEW c \in Blocks, NEW u \in UserData,
         NEW a \in 1 .. MaxAfter, AddPeriodicEvent(b, c, u, a)
  PROVE  Contract!Add(c, [kind |-> "periodic", ud |-> u, after |-> a, left |-> a,
                          state |-> "started"])
  <1>1. TypeOK /\ NothingDangles
    BY DEF IInv
  <1>2. /\ b # c /\ mem[b] = Free /\ mem[c] = Free
        /\ mem' = [mem EXCEPT ![b] = Event("periodic", c, a), ![c] = CbData(b, u)]
        /\ LoopAdds(b, a) /\ UNCHANGED <<pending, got>>
    BY DEF AddPeriodicEvent, Interval
  <1>3. /\ mem'[b] = Event("periodic", c, a) /\ mem'[c] = CbData(b, u) /\ Free.use = "free"
        /\ \A x \in Blocks \ {b, c} : mem'[x] = mem[x]
    BY <1>1, <1>2 DEF TypeOK, Free
  <1>4. /\ mem'[b].use = "event" /\ mem'[b].cb = "periodic" /\ mem'[b].after = a
        /\ mem'[c].use = "cbdata" /\ mem'[c].ev = b /\ mem'[c].ud = u
    BY <1>3 DEF Event, CbData
  <1>5. b \notin active /\ b \notin pending /\ b \notin Handles /\ c \notin Handles
    BY <1>1, <1>2, <1>3 DEF TypeOK, NothingDangles, IsEvent, Handles, Handle
  <1>6. Handles' = Handles \cup {c}
    <2>1. b \notin Handles' /\ c \in Handles'
      BY <1>4 DEF Handles, Handle, IoKinds
    <2>2. ASSUME NEW g \in Blocks \ {b, c} PROVE g \in Handles' <=> g \in Handles
      BY <1>3, <2>2 DEF Handles, Handle, IsEvent
    <2>3. Handles \subseteq Blocks /\ Handles' \subseteq Blocks
      BY DEF Handles
    <2> QED
      BY <1>5, <2>1, <2>2, <2>3
  <1>7. ASSUME NEW g \in Handles PROVE EvOf(g)' = EvOf(g)
    <2>1. /\ g \in Blocks \ {b, c} /\ EventOf(g) \in Blocks \ {b, c}
      BY <1>2, <1>3, <1>5, HandleTyped DEF IsEvent
    <2> QED
      BY <1>1, <1>2, <1>3, <2>1, EvSame DEF LoopAdds, TypeOK
  <1>8. EvOf(c)' = [kind |-> "periodic", ud |-> u, after |-> a, left |-> a,
                    state |-> "started"]
    <2>1. EventOf(c)' = b
      BY <1>4 DEF EventOf
    <2>2. left'[b] = a /\ b \in active' /\ b \notin pending'
      BY <1>1, <1>2, <1>5 DEF LoopAdds, TypeOK
    <2>3. LeftOf(b)' = a
      BY <1>4, <2>2, MaxAfterAssumption DEF LeftOf, Never
    <2> QED
      BY <1>4, <2>1, <2>2, <2>3 DEF EvOf
  <1> QED
    BY <1>2, <1>5, <1>6, <1>7, <1>8, EvsMore

(* Stopping an event and freeing it with its handle is a Del.              *)
LEMMA FreeSeen ==
  ASSUME IInv, NEW h \in Handles, LoopDrops(EventOf(h)), got' = got,
         mem' = [b \in Blocks |-> IF b \in {h, EventOf(h)} THEN Free ELSE mem[b]]
  PROVE  Contract!Del(h)
  <1>1. TypeOK /\ h \in Blocks /\ EventOf(h) \in Blocks
    BY HandleTyped DEF IInv
  <1>2. Free.use = "free"
    BY DEF Free
  <1>3. ASSUME NEW g \in Handles \ {h}
        PROVE  g \in Blocks \ {h, EventOf(h)} /\ EventOf(g) \in Blocks \ {h, EventOf(h)}
    BY <1>3, EventsApart, HandleTyped
  <1>4. EventOf(h) # h => EventOf(h) \notin Handles
    BY EventsApart
  <1>5. Handles' = Handles \ {h}
    <2>1. ASSUME NEW g \in Handles \ {h} PROVE g \in Handles'
      BY <1>3, <2>1 DEF Handles, Handle, IsEvent
    <2>2. ASSUME NEW g \in Handles' PROVE g \in Handles \ {h}
      BY <1>2, <2>2 DEF Handles, Handle, IsEvent
    <2> QED
      BY <2>1, <2>2
  <1>6. ASSUME NEW g \in Handles \ {h} PROVE EvOf(g)' = EvOf(g)
    BY <1>1, <1>3, EvSame DEF LoopDrops, TypeOK
  <1> QED
    BY <1>5, <1>6, EvsLess

-----------------------------------------------------------------------------
(* A step of AsyncContract by a handle there is.                           *)
LEMMA HandleIsStep ==
  ASSUME NEW h \in Handles,
         \/ Contract!Del(h) \/ Contract!Stop(h) \/ Contract!Start(h)
         \/ Contract!Repeat(h) \/ Contract!Deliver(h)
  PROVE  [Contract!Next]_(Contract!vars)
  <1>1. h \in Blocks /\ h \in DOMAIN Evs
    BY DEF Handles, Evs
  <1> QED
    BY <1>1 DEF Contract!Next

(* A step of AsyncContract that adds an event.                             *)
LEMMA AddIsStep ==
  ASSUME NEW h \in Blocks, NEW k, NEW u \in UserData, NEW a \in 0 .. MaxAfter,
         IF k \in IoKinds THEN a = 0 ELSE k \in TimerKinds /\ a # 0,
         Contract!Add(h, [kind |-> k, ud |-> u, after |-> a, left |-> a, state |-> "started"])
  PROVE  [Contract!Next]_(Contract!vars)
  <1> DEFINE e == [kind |-> k, ud |-> u, after |-> a, left |-> a, state |-> "started"]
  <1>1. e \in Contract!Io \cup UNION {Contract!Timer(x) : x \in 1 .. MaxAfter}
    <2>1. CASE k \in IoKinds
      BY <2>1 DEF Contract!Io, IoKinds
    <2>2. CASE k \notin IoKinds
      <3>1. k \in {"timer", "periodic"} /\ a \in 1 .. MaxAfter
        BY <2>2, MaxAfterAssumption DEF TimerKinds
      <3>2. e \in Contract!Timer(a)
        BY <3>1 DEF Contract!Timer
      <3> QED
        BY <3>1, <3>2
    <2> QED
      BY <2>1, <2>2
  <1>2. Contract!Add(h, e)
    OBVIOUS
  <1> HIDE DEF e
  <1> QED
    BY <1>1, <1>2 DEF Contract!Next

(* The functions that add events do what AsyncContract says.               *)
LEMMA AddIoIsStep ==
  ASSUME IInv, NEW b \in Blocks, NEW k \in IoKinds, NEW u \in UserData, AddIo(b, k, u)
  PROVE  [Contract!Next]_(Contract!vars)
  <1>1. 0 \in 0 .. MaxAfter /\ k \in IoKinds \cup {"timer"}
    BY MaxAfterAssumption
  <1>2. /\ mem[b] = Free /\ mem' = [mem EXCEPT ![b] = Event(k, u, 0)]
        /\ LoopAdds(b, Never) /\ UNCHANGED <<pending, got>>
    BY DEF AddIo
  <1>3. Contract!Add(b, [kind |-> k, ud |-> u, after |-> 0, left |-> 0, state |-> "started"])
    BY <1>1, <1>2, AddSeen
  <1> QED
    BY <1>1, <1>3, AddIsStep

(* The same of timers.                                                     *)
LEMMA AddTimerIsStep ==
  ASSUME IInv, NEW b \in Blocks, NEW u \in UserData, NEW a \in 1 .. MaxAfter,
         AddTimerEvent(b, u, a)
  PROVE  [Contract!Next]_(Contract!vars)
  <1>1. a # 0 /\ a \in 0 .. MaxAfter
    BY MaxAfterAssumption
  <1>2. Contract!Add(b, [kind |-> "timer", ud |-> u, after |-> a, left |-> a,
                         state |-> "started"])
    BY <1>1, AddSeen DEF AddTimerEvent, Interval
  <1>3. "timer" \notin IoKinds /\ "timer" \in TimerKinds
    BY DEF IoKinds, TimerKinds
  <1> QED
    BY <1>1, <1>2, <1>3, AddIsStep

(* The same of periodic callbacks.                                         *)
LEMMA AddPeriodicIsStep ==
  ASSUME IInv, NEW b \in Blocks, NEW c \in Blocks, NEW u \in UserData,
         NEW a \in 1 .. MaxAfter, AddPeriodicEvent(b, c, u, a)
  PROVE  [Contract!Next]_(Contract!vars)
  <1>1. a # 0 /\ a \in 0 .. MaxAfter
    BY MaxAfterAssumption
  <1>2. Contract!Add(c, [kind |-> "periodic", ud |-> u, after |-> a, left |-> a,
                         state |-> "started"])
    BY AddPeriodicSeen
  <1>3. "periodic" \notin IoKinds /\ "periodic" \in TimerKinds
    BY DEF IoKinds, TimerKinds
  <1> QED
    BY <1>1, <1>2, <1>3, AddIsStep

(* The functions that delete events do what AsyncContract says.            *)
LEMMA DelIsStep ==
  ASSUME IInv, NEW h \in Blocks, NEW k \in IoKinds \cup {"timer"}, DelEvent(h, {k})
  PROVE  [Contract!Next]_(Contract!vars)
  <1>1. TypeOK
    BY DEF IInv
  <1>2. /\ Handle(h, {k}) /\ LoopDrops(h) /\ got' = got
        /\ mem' = [mem EXCEPT ![h] = Free]
    BY DEF DelEvent, Stopped
  <1>3. h \in Handles /\ EventOf(h) = h
    BY <1>2, PlainHandle
  <1>4. mem' = [b \in Blocks |-> IF b \in {h, EventOf(h)} THEN Free ELSE mem[b]]
    BY <1>1, <1>2, <1>3 DEF TypeOK
  <1> QED
    BY <1>2, <1>3, <1>4, FreeSeen, HandleIsStep

(* The same of periodic callbacks.                                         *)
LEMMA DelPeriodicIsStep ==
  ASSUME IInv, NEW h \in Blocks, DelPeriodicEvent(h)
  PROVE  [Contract!Next]_(Contract!vars)
  <1>1. h \in Handles /\ EventOf(h) = mem[h].ev
    BY DEF DelPeriodicEvent, Handles, EventOf
  <1>2. /\ LoopDrops(EventOf(h)) /\ got' = got
        /\ mem' = [b \in Blocks |-> IF b \in {h, EventOf(h)} THEN Free ELSE mem[b]]
    BY <1>1 DEF DelPeriodicEvent, Stopped, FreedWith
  <1> QED
    BY <1>1, <1>2, FreeSeen, HandleIsStep

(* Calling back is what AsyncContract says.                                *)
LEMMA CallIsStep ==
  ASSUME IInv, LoopSound, NEW b \in Blocks, NEW k, CallsBack(b, k)
  PROVE  [Contract!Next]_(Contract!vars)
  BY CallSeen, HandleIsStep

(* The loop does what AsyncContract says.                                  *)
LEMMA LoopIsStep ==
  ASSUME IInv, LoopSound, Loop
  PROVE  [Contract!Next]_(Contract!vars)
  BY TickSeen, CollectSeen DEF Loop, Contract!Next

(* Steps AsyncContract does not see: nothing happens,                      *)
LEMMA UnchangedSeen ==
  ASSUME UNCHANGED vars
  PROVE  UNCHANGED Contract!vars
  <1>1. \A h : EvOf(h)' = EvOf(h)
    BY DEF vars, EvOf, EventOf, LeftOf
  <1> QED
    BY <1>1, NothingSeen DEF vars

(* or what happens is undefined.                                           *)
LEMMA WrongTypeSeen ==
  ASSUME WrongType
  PROVE  UNCHANGED Contract!vars
  <1>1. \A h : EvOf(h)' = EvOf(h)
    BY DEF WrongType, EvOf, EventOf, LeftOf
  <1> QED
    BY <1>1, NothingSeen DEF WrongType

(* Every step of a program that uses the libev binding is one of         *)
(* AsyncContract or not seen there.                                        *)
LEMMA LibevSeen ==
  ASSUME IInv, LoopSound, LibevNext
  PROVE  [Contract!Next]_(Contract!vars)
  <1>1. CASE LibevAdds
    <2>1. PICK b \in Blocks, u \in UserData :
            \/ LibevAddRead(b, u) \/ LibevAddWrite(b, u)
            \/ \E a \in 1 .. MaxAfter :
                 \/ LibevAddTimer(b, u, a)
                 \/ \E c \in Blocks : LibevAddPeriodic(b, c, u, a)
      BY <1>1 DEF LibevAdds
    <2>2. ASSUME NEW k \in IoKinds, AddIo(b, k, u) PROVE [Contract!Next]_(Contract!vars)
      BY <2>2, AddIoIsStep
    <2>3. ASSUME NEW a \in 1 .. MaxAfter, LibevAddTimer(b, u, a)
          PROVE  [Contract!Next]_(Contract!vars)
      BY <2>3, AddTimerIsStep DEF LibevAddTimer
    <2>4. ASSUME NEW a \in 1 .. MaxAfter, NEW c \in Blocks, LibevAddPeriodic(b, c, u, a)
          PROVE  [Contract!Next]_(Contract!vars)
      BY <2>4, AddPeriodicIsStep DEF LibevAddPeriodic
    <2> QED
      BY <2>1, <2>2, <2>3, <2>4 DEF LibevAddRead, LibevAddWrite, IoKinds
  <1>2. CASE LibevDels
    BY <1>2, DelIsStep, DelPeriodicIsStep
       DEF LibevDels, LibevDelRead, LibevDelWrite, LibevDelTimer, LibevDelPeriodic, IoKinds
  <1>3. CASE LibevChanges
    <2>1. ASSUME NEW h \in Blocks, LibevRepeatTimer(h) PROVE [Contract!Next]_(Contract!vars)
      <3>1. CASE WrongType
        BY <3>1, WrongTypeSeen
      <3>2. CASE Handle(h, {"timer"})
        <4>1. /\ h \in Handles /\ EventOf(h) = h
              /\ LoopAdds(h, mem[h].after) /\ pending' = pending \ {h} /\ UNCHANGED <<mem, got>>
          BY <2>1, <3>2, PlainHandle DEF LibevRepeatTimer, Handle, IsEvent, WrongType
        <4>2. Contract!Repeat(h) \/ Contract!Start(h)
          BY <4>1, RepeatSeen
        <4> QED
          BY <4>1, <4>2, HandleIsStep
      <3> QED
        BY <2>1, <3>1, <3>2 DEF LibevRepeatTimer
    <2>2. ASSUME NEW h \in Blocks, LibevStopEvent(h) PROVE [Contract!Next]_(Contract!vars)
      <3>1. CASE WrongType
        BY <3>1, WrongTypeSeen
      <3>2. CASE /\ Handle(h, IoKinds)
                 /\ LoopDrops(h) /\ UNCHANGED <<mem, got>>
        <4>1. h \in Handles /\ EventOf(h) = h
          BY <3>2, PlainHandle
        <4> QED
          BY <3>2, <4>1, StopSeen, HandleIsStep
      <3> QED
        BY <2>2, <3>1, <3>2 DEF LibevStopEvent
    <2>3. ASSUME NEW h \in Blocks, LibevStartEvent(h) PROVE [Contract!Next]_(Contract!vars)
      <3>1. CASE WrongType
        BY <3>1, WrongTypeSeen
      <3>2. CASE /\ Handle(h, IoKinds)
                 /\ LoopAdds(h, Never) /\ UNCHANGED <<mem, pending, got>>
        <4>1. h \in Handles /\ EventOf(h) = h
          BY <3>2, PlainHandle
        <4>2. mem[h].after = 0 \/ Never = left[h]
          BY <3>2, TimerAfter DEF IInv, Handle, IsTimer, IoKinds, TimerKinds
        <4> QED
          BY <3>2, <4>1, <4>2, StartSeen, HandleIsStep
      <3> QED
        BY <2>3, <3>1, <3>2 DEF LibevStartEvent
    <2> QED
      BY <1>3, <2>1, <2>2, <2>3 DEF LibevChanges
  <1>4. CASE LibevCallsBack
    BY <1>4, CallIsStep
       DEF LibevCallsBack, LibevReadEvent, LibevWriteEvent, LibevTimerEvent, LibevPeriodicEvent
  <1>5. CASE Loop
    BY <1>5, LoopIsStep
  <1> QED
    BY <1>1, <1>2, <1>3, <1>4, <1>5 DEF LibevNext

(* Every step of a program that uses the libevent binding is one of         *)
(* AsyncContract or not seen there.                                        *)
LEMMA LibeventSeen ==
  ASSUME IInv, LoopSound, LibeventNext
  PROVE  [Contract!Next]_(Contract!vars)
  <1>1. CASE LibeventAdds
    <2>1. PICK b \in Blocks, u \in UserData :
            \/ LibeventAddRead(b, u) \/ LibeventAddWrite(b, u)
            \/ \E a \in 1 .. MaxAfter :
                 \/ LibeventAddTimer(b, u, a)
                 \/ \E c \in Blocks : LibeventAddPeriodic(b, c, u, a)
      BY <1>1 DEF LibeventAdds
    <2>2. ASSUME NEW k \in IoKinds, AddIo(b, k, u) PROVE [Contract!Next]_(Contract!vars)
      BY <2>2, AddIoIsStep
    <2>3. ASSUME NEW a \in 1 .. MaxAfter, LibeventAddTimer(b, u, a)
          PROVE  [Contract!Next]_(Contract!vars)
      BY <2>3, AddTimerIsStep DEF LibeventAddTimer
    <2>4. ASSUME NEW a \in 1 .. MaxAfter, NEW c \in Blocks, LibeventAddPeriodic(b, c, u, a)
          PROVE  [Contract!Next]_(Contract!vars)
      BY <2>4, AddPeriodicIsStep DEF LibeventAddPeriodic
    <2> QED
      BY <2>1, <2>2, <2>3, <2>4 DEF LibeventAddRead, LibeventAddWrite, IoKinds
  <1>2. CASE LibeventDels
    BY <1>2, DelIsStep, DelPeriodicIsStep
       DEF LibeventDels, LibeventDelRead, LibeventDelWrite, LibeventDelTimer, LibeventDelPeriodic, IoKinds
  <1>3. CASE LibeventChanges
    <2>1. ASSUME NEW h \in Blocks, LibeventRepeatTimer(h) PROVE [Contract!Next]_(Contract!vars)
      BY <2>1, UnchangedSeen DEF LibeventRepeatTimer
    <2>2. ASSUME NEW h \in Blocks, LibeventStopEvent(h) PROVE [Contract!Next]_(Contract!vars)
      <3>1. CASE WrongType
        BY <3>1, WrongTypeSeen
      <3>2. CASE /\ Handle(h, IoKinds \cup {"timer"})
                 /\ LoopDrops(h) /\ UNCHANGED <<mem, got>>
        <4>1. h \in Handles /\ EventOf(h) = h
          BY <3>2, PlainHandle
        <4> QED
          BY <3>2, <4>1, StopSeen, HandleIsStep
      <3> QED
        BY <2>2, <3>1, <3>2 DEF LibeventStopEvent
    <2>3. ASSUME NEW h \in Blocks, LibeventStartEvent(h) PROVE [Contract!Next]_(Contract!vars)
      <3>1. CASE WrongType
        BY <3>1, WrongTypeSeen
      <3>2. CASE /\ Handle(h, IoKinds \cup {"timer"})
                 /\ LoopAdds(h, left[h]) /\ UNCHANGED <<mem, pending, got>>
        <4>1. h \in Handles /\ EventOf(h) = h
          BY <3>2, PlainHandle
        <4>2. mem[h].after = 0 \/ left[h] = left[h]
          OBVIOUS
        <4> QED
          BY <3>2, <4>1, <4>2, StartSeen, HandleIsStep
      <3> QED
        BY <2>3, <3>1, <3>2 DEF LibeventStartEvent, AddedAgain
    <2> QED
      BY <1>3, <2>1, <2>2, <2>3 DEF LibeventChanges
  <1>4. CASE LibeventCallsBack
    BY <1>4, CallIsStep
       DEF LibeventCallsBack, LibeventReadEvent, LibeventWriteEvent, LibeventTimerEvent, LibeventPeriodicEvent
  <1>5. CASE Loop
    BY <1>5, LoopIsStep
  <1> QED
    BY <1>1, <1>2, <1>3, <1>4, <1>5 DEF LibeventNext

(***************************************************************************)
(* Both bindings implement AsyncContract: whatever they call back was      *)
(* added with that kind and user data and is neither stopped nor deleted,  *)
(* and no timer fires before its time.                                     *)
(***************************************************************************)
THEOREM ContractImplemented == Spec => ImplementsContract
  <1>1. BindingsInit => LoopSound
    BY DEF BindingsInit, Init, LoopSound
  <1>2. BindingsInit => Contract!Init
    <2> SUFFICES ASSUME BindingsInit PROVE Contract!Init
      OBVIOUS
    <2>1. Handles = {}
      BY DEF BindingsInit, Init, Handles, Handle, IsEvent, Free
    <2>2. Evs = <<>>
      BY <2>1 DEF Evs
    <2> QED
      BY <2>2 DEF BindingsInit, Init, NoCall, Contract!Init, Contract!NoCall
  <1>3. IInv /\ LoopSound /\ [BindingsNext]_allVars => [Contract!Next]_(Contract!vars)
    BY LibevSeen, LibeventSeen, UnchangedSeen DEF BindingsNext, GenLibev, GenLibevent, allVars
  <1> QED
    BY <1>1, <1>2, <1>3, LoopSoundStep, Invariance, PTL
       DEF Spec, ImplementsContract, Contract!Spec
=============================================================================
