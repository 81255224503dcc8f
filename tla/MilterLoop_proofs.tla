-------------------------- MODULE MilterLoop_proofs --------------------------
(***************************************************************************)
(* What a milter and its event loop guarantee together, for any number of  *)
(* sessions, descriptors and events, and for every io_timeout.             *)
(***************************************************************************)
EXTENDS MilterLoop, Milter_proofs

-----------------------------------------------------------------------------
(* Events.                                                                 *)

(* An event is what it was made of, and is not free memory.                *)
LEMMA EventFields ==
  ASSUME NEW k, NEW u, NEW a
  PROVE  /\ L!Event(k, u, a).use = "event" /\ L!Event(k, u, a).cb = k
         /\ L!Event(k, u, a).ud = u /\ L!Event(k, u, a).after = a
         /\ L!Event(k, u, a) # L!Free /\ L!Free.use = "free"
  BY DEF L!Event, L!Free

(* Memory in the loop is an event of a live session, with the session's    *)
(* handle on it.                                                           *)
LEMMA OfLive ==
  ASSUME LoopHoldsSessions, NEW b \in active
  PROVE  \E s \in Live :
           \/ b = read_ev[s] /\ mem[b] = L!Event("read", s, 0)
           \/ b = timeout_ev[s] /\ mem[b] = L!Event("timer", s, IoTimeout)
  BY DEF LoopHoldsSessions

(* The two handles of the live sessions are all different.                 *)
LEMMA HandlesApart ==
  ASSUME LoopHoldsSessions, NEW s \in Live, NEW t \in Live
  PROVE  /\ read_ev[s] # timeout_ev[t]
         /\ read_ev[s] = read_ev[t] => s = t
         /\ timeout_ev[s] = timeout_ev[t] => s = t
         /\ read_ev[s] \in active /\ timeout_ev[s] \in active
         /\ read_ev[s] \in Blocks /\ timeout_ev[s] \in Blocks
  <1>1. /\ read_ev[s] \in Blocks /\ mem[read_ev[s]] = L!Event("read", s, 0)
        /\ timeout_ev[s] \in Blocks
        /\ mem[timeout_ev[s]] = L!Event("timer", s, IoTimeout)
        /\ mem[read_ev[t]] = L!Event("read", t, 0)
        /\ mem[timeout_ev[t]] = L!Event("timer", t, IoTimeout)
    BY DEF LoopHoldsSessions
  <1>2. mem[read_ev[s]].cb = "read" /\ mem[timeout_ev[t]].cb = "timer"
    BY <1>1, EventFields
  <1>3. /\ mem[read_ev[s]].ud = s /\ mem[read_ev[t]].ud = t
        /\ mem[timeout_ev[s]].ud = s /\ mem[timeout_ev[t]].ud = t
    BY <1>1, EventFields
  <1>4. mem[read_ev[s]] # L!Free /\ mem[timeout_ev[s]] # L!Free
    BY <1>1, EventFields
  <1>5. read_ev[s] \in active /\ timeout_ev[s] \in active
    BY <1>1, <1>4 DEF LoopHoldsSessions
  <1> QED
    BY <1>1, <1>2, <1>3, <1>5

(* Nothing the loop has is stale: it is an event, and its session is live. *)
LEMMA ActiveSound ==
  ASSUME LoopHoldsSessions, NEW b \in active
  PROVE  ~Stale(b) /\ L!IsEvent(b) /\ mem[b].ud \in Live
  <1>1. PICK s \in Live :
           \/ b = read_ev[s] /\ mem[b] = L!Event("read", s, 0)
           \/ b = timeout_ev[s] /\ mem[b] = L!Event("timer", s, IoTimeout)
    BY OfLive
  <1>2. mem[b].use = "event" /\ mem[b].ud = s
    BY <1>1, EventFields
  <1> QED
    BY <1>2 DEF Stale, L!IsEvent, Live

-----------------------------------------------------------------------------
(* Every step is one of Milter, or one that Milter does not see.           *)

(* A call-back of the loop is a step of the library.                       *)
LEMMA CallRefines ==
  ASSUME LoopTypeOK, LoopHoldsSessions, NEW b \in Blocks, CallsLibrary(b)
  PROVE  /\ Next
         /\ mem[b].ud \in Live
         /\ UNCHANGED <<st, fd, sock, mem, active, left, handleVars, age>>
         /\ pending' = pending \ {b}
  <1>1. b \in pending /\ pending' = pending \ {b} /\ UNCHANGED <<mem, active, left>>
    BY DEF CallsLibrary, L!TakesUp
  <1>2. b \in active
    BY <1>1 DEF LoopTypeOK
  <1>3. ~Stale(b) /\ mem[b].ud \in Live
    BY <1>2, ActiveSound
  <1>4. PICK s : s = mem[b].ud
    OBVIOUS
  <1>5. ProcessTimer(s) \/ ReadZero(s) \/ ReadFails(s)
    BY <1>3, <1>4 DEF CallsLibrary, Serves
  <1>6. s \in Sessions
    BY <1>3, <1>4 DEF Live
  <1>7. UNCHANGED <<st, fd, sock>>
    BY <1>5 DEF ProcessTimer, ReadZero, ReadFails, sessionVars, fdVars
  <1>8. Next
    BY <1>5, <1>6 DEF Next
  <1>9. UNCHANGED <<handleVars, age>>
    BY DEF CallsLibrary
  <1> QED
    BY <1>1, <1>3, <1>7, <1>8, <1>9

(* A turn of the loop begins without looking at memory that was freed.     *)
LEMMA TurnRefines ==
  ASSUME LoopHoldsSessions, TurnBegins
  PROVE  /\ UNCHANGED <<vars, mem, active, handleVars, age>>
         /\ \E S \in SUBSET Ready :
              /\ pending' = S /\ L!Due \subseteq S
              /\ left' = [b \in Blocks |-> IF b \in L!Due THEN L!Rearmed(b) ELSE left[b]]
  <1>1. PICK S \in SUBSET Ready : L!Collect(S)
    BY DEF TurnBegins
  <1>2. \A b \in active : L!IsEvent(b)
    BY ActiveSound
  <1>3. /\ pending' = S /\ L!Due \subseteq S
        /\ left' = [b \in Blocks |-> IF b \in L!Due THEN L!Rearmed(b) ELSE left[b]]
        /\ fault' = fault /\ UNCHANGED <<mem, active>>
    BY <1>1, <1>2 DEF L!Collect
  <1>4. UNCHANGED <<libraryVars, handleVars, age>>
    BY DEF TurnBegins
  <1>5. UNCHANGED vars
    BY <1>3, <1>4 DEF libraryVars, vars
  <1> QED
    BY <1>3, <1>4, <1>5

(* The clock is not Milter's.                                              *)
LEMMA TickRefines ==
  ASSUME TimePasses
  PROVE  UNCHANGED <<vars, mem, active, pending, handleVars>>
  <1>1. UNCHANGED <<fault, mem, active, pending>> /\ UNCHANGED <<libraryVars, handleVars>>
    BY DEF TimePasses, L!Tick
  <1> QED
    BY <1>1 DEF libraryVars, vars

(* A step of a milter in its loop is a step of a milter.                   *)
LEMMA LoopStepRefines ==
  ASSUME LoopTypeOK, LoopHoldsSessions, [LoopNext]_allVars
  PROVE  [Next]_vars
  <1>1. CASE Elsewhere
    BY <1>1 DEF Elsewhere, Next, Application
  <1>2. CASE LibraryReturns
    BY <1>2 DEF LibraryReturns, CloseDetaches, Next, Returns
  <1>3. ASSUME NEW s \in Sessions, NEW f \in FDs, NEW u \in UserData,
               NEW b \in Blocks, NEW c \in Blocks, ConsumeAttaches(s, f, u, b, c)
        PROVE  Next
    BY <1>3 DEF ConsumeAttaches, Next, Application
  <1>4. ASSUME NEW b \in Blocks, CallsLibrary(b) PROVE Next
    BY <1>4, CallRefines
  <1>5. CASE TurnBegins
    BY <1>5, TurnRefines
  <1>6. CASE TimePasses
    BY <1>6, TickRefines
  <1>7. CASE UNCHANGED allVars
    BY <1>7 DEF allVars
  <1> QED
    BY <1>1, <1>2, <1>3, <1>4, <1>5, <1>6, <1>7 DEF LoopNext

-----------------------------------------------------------------------------
(* The inductive invariant.                                                *)

(* The loop is empty to begin with.                                        *)
LEMMA LoopInitInductive == LoopInit => LoopIInv
  <1> SUFFICES ASSUME LoopInit PROVE LoopIInv
    OBVIOUS
  <1>1. /\ mem = [b \in Blocks |-> L!Free] /\ active = {} /\ pending = {}
        /\ left = [b \in Blocks |-> L!Never]
        /\ read_ev = [s \in Sessions |-> NoBlock]
        /\ timeout_ev = [s \in Sessions |-> NoBlock]
        /\ age = [s \in Sessions |-> 0]
    BY DEF LoopInit, L!Init
  <1>2. Live = {}
    BY DEF LoopInit, Init, Live
  <1>3. LoopTypeOK
    BY <1>1, IoTimeoutAssumption DEF LoopTypeOK, L!Never
  <1>4. LoopHoldsSessions /\ TimersRun /\ CollectedForSession
    BY <1>1, <1>2 DEF LoopHoldsSessions, TimersRun, CollectedForSession
  <1> QED
    BY <1>3, <1>4 DEF LoopIInv

(* What the loop has stays right when neither it nor the set of live       *)
(* sessions changes and no descriptor of theirs falls silent.              *)
LEMMA LoopKept ==
  ASSUME LoopIInv, UNCHANGED <<st, fd, loopVars, handleVars, age>>,
         \A s \in Live : sock[fd[s]] # "quiet" => sock'[fd[s]] # "quiet"
  PROVE  LoopIInv'
  <1>1. /\ st' = st /\ fd' = fd /\ mem' = mem /\ active' = active /\ left' = left
        /\ pending' = pending /\ read_ev' = read_ev /\ timeout_ev' = timeout_ev
        /\ age' = age
    BY DEF loopVars, handleVars
  <1>2. Live' = Live
    BY <1>1 DEF Live
  <1>3. LoopTypeOK'
    BY <1>1 DEF LoopIInv, LoopTypeOK
  <1>4. LoopHoldsSessions' /\ TimersRun'
    BY <1>1, <1>2 DEF LoopIInv, LoopHoldsSessions, TimersRun
  <1>5. CollectedForSession'
    BY <1>1, <1>2 DEF LoopIInv, CollectedForSession
  <1> QED
    BY <1>3, <1>4, <1>5 DEF LoopIInv

(* Connections, callbacks and rmilter_destroy leave the loop alone; a      *)
(* descriptor that is used again is not one of a live session.             *)
LEMMA WithoutLoopStep ==
  ASSUME IInv, LoopIInv,
         Elsewhere \/ (LibraryReturns /\ WithoutLoop /\ st' = st)
  PROVE  LoopIInv'
  <1>1. UNCHANGED <<loopVars, handleVars, age>>
    BY DEF Elsewhere, WithoutLoop
  <1>2. CASE Elsewhere
    <2>1. UNCHANGED <<st, fd>>
      BY <1>2 DEF Elsewhere, Create, Destroy, Accept, AppCloses, ConsumeRefused, Peer,
                  vars, sessionVars
    <2>2. ASSUME NEW s \in Live, sock[fd[s]] # "quiet" PROVE sock'[fd[s]] # "quiet"
      <3>1. fd[s] \in FDs /\ owner[fd[s]] = "milter"
        BY DEF IInv, DescriptorsOwned
      <3>2. CASE sock' = sock
        BY <2>2, <3>2
      <3>3. ASSUME NEW f \in FDs, Accept(f) PROVE sock'[fd[s]] # "quiet"
        <4>1. owner[f] = "closed" /\ sock' = [sock EXCEPT ![f] = "quiet"]
          BY <3>3 DEF Accept
        <4>2. f # fd[s]
          BY <3>1, <4>1
        <4> QED
          BY <2>2, <3>1, <4>1, <4>2 DEF IInv, TypeOK
      <3>4. ASSUME NEW f \in FDs, NEW x \in {"data", "eof", "error"}, Peer(f, x)
            PROVE  sock'[fd[s]] # "quiet"
        BY <2>2, <3>1, <3>4 DEF Peer, IInv, TypeOK
      <3> QED
        BY <1>2, <3>2, <3>3, <3>4
           DEF Elsewhere, Create, Destroy, AppCloses, ConsumeRefused, vars, fdVars
    <2> QED
      BY <1>1, <2>1, <2>2, LoopKept
  <1>3. CASE LibraryReturns /\ st' = st
    <2>1. UNCHANGED <<fd, sock>>
      BY <1>3 DEF LibraryReturns, CloseDetaches, CloseReturns, AbortReturns, LogReturns,
                  DestroyAdvances, sessionVars, fdVars
    <2> QED
      BY <1>1, <1>3, <2>1, LoopKept
  <1> QED
    BY <1>2, <1>3

(* A session is started: its two events go into memory that was free, so   *)
(* they are not those of another session and have not been collected.      *)
LEMMA AttachStep ==
  ASSUME IInv, LoopIInv, NEW s \in Sessions, NEW f \in FDs, NEW u \in UserData,
         NEW b \in Blocks, NEW c \in Blocks, ConsumeAttaches(s, f, u, b, c)
  PROVE  LoopIInv'
  <1> DEFINE R == L!Event("read", s, 0)
             T == L!Event("timer", s, IoTimeout)
  <1>1. /\ mem[b] = L!Free /\ mem[c] = L!Free /\ b # c
        /\ mem' = [x \in Blocks |-> IF x = b THEN R ELSE IF x = c THEN T ELSE mem[x]]
        /\ active' = active \cup {b, c}
        /\ left' = [left EXCEPT ![b] = L!Never, ![c] = IoTimeout]
        /\ read_ev' = [read_ev EXCEPT ![s] = b]
        /\ timeout_ev' = [timeout_ev EXCEPT ![s] = c]
        /\ age' = [age EXCEPT ![s] = 0] /\ pending' = pending
    BY DEF ConsumeAttaches, Attached, StartedOf, L!Interval
  <1>2. /\ st[s] = "new" /\ st' = [st EXCEPT ![s] = "live"]
        /\ fd' = [fd EXCEPT ![s] = f] /\ sock' = sock
    BY DEF ConsumeAttaches, Consume
  <1>3. Live' = Live \cup {s} /\ s \notin Live
    BY <1>2 DEF IInv, TypeOK, Live
  <1>4. b \notin active /\ c \notin active
    BY <1>1 DEF LoopIInv, LoopHoldsSessions
  <1>5. b \notin pending /\ c \notin pending
    BY <1>4 DEF LoopIInv, LoopTypeOK
  <1>6. ASSUME NEW t \in Live
        PROVE  /\ t # s /\ t \in Sessions /\ read_ev'[t] = read_ev[t]
               /\ timeout_ev'[t] = timeout_ev[t] /\ age'[t] = age[t]
               /\ fd'[t] = fd[t]
               /\ read_ev[t] \in Blocks \ {b, c} /\ timeout_ev[t] \in Blocks \ {b, c}
    <2>1. read_ev[t] \in active /\ timeout_ev[t] \in active
          /\ read_ev[t] \in Blocks /\ timeout_ev[t] \in Blocks
      BY HandlesApart DEF LoopIInv
    <2>2. t # s /\ t \in Sessions
      BY <1>3 DEF Live
    <2> QED
      BY <1>1, <1>2, <1>4, <2>1, <2>2 DEF LoopIInv, LoopTypeOK, IInv, TypeOK
  <1>7. read_ev'[s] = b /\ timeout_ev'[s] = c /\ age'[s] = 0
    BY <1>1 DEF LoopIInv, LoopTypeOK
  <1>8. mem'[b] = R /\ mem'[c] = T /\ R # L!Free /\ T # L!Free
    BY <1>1, EventFields
  <1>9. \A x \in Blocks \ {b, c} : mem'[x] = mem[x] /\ left'[x] = left[x]
    BY <1>1 DEF LoopIInv, LoopTypeOK
  <1>10. left'[c] = IoTimeout
    BY <1>1 DEF LoopIInv, LoopTypeOK
  <1>11. LoopTypeOK'
    <2>1. R \in L!IoEvents /\ T \in L!Timers
      BY IoTimeoutAssumption DEF L!Event, L!IoEvents, L!Timers, L!IoKinds
    <2>2. mem' \in [Blocks -> {L!Free} \cup L!IoEvents \cup L!Timers]
      BY <1>1, <2>1 DEF LoopIInv, LoopTypeOK
    <2>3. left' \in [Blocks -> L!Never .. IoTimeout]
      BY <1>1, IoTimeoutAssumption DEF LoopIInv, LoopTypeOK, L!Never
    <2> QED
      BY <1>1, <2>2, <2>3, IoTimeoutAssumption DEF LoopIInv, LoopTypeOK
  <1>12. LoopHoldsSessions'
    <2>1. ASSUME NEW t \in Live'
          PROVE  /\ read_ev'[t] \in Blocks /\ mem'[read_ev'[t]] = L!Event("read", t, 0)
                 /\ timeout_ev'[t] \in Blocks
                 /\ mem'[timeout_ev'[t]] = L!Event("timer", t, IoTimeout)
      <3>1. CASE t = s
        BY <3>1, <1>7, <1>8
      <3>2. CASE t \in Live
        BY <3>2, <1>6, <1>9 DEF LoopIInv, LoopHoldsSessions
      <3> QED
        BY <3>1, <3>2, <1>3
    <2>2. ASSUME NEW x \in Blocks PROVE mem'[x] = L!Free <=> x \notin active'
      BY <1>1, <1>8, <1>9 DEF LoopIInv, LoopHoldsSessions
    <2>3. ASSUME NEW x \in active'
          PROVE  \E t \in Live' : x \in {read_ev'[t], timeout_ev'[t]}
      <3>1. CASE x \in {b, c}
        BY <3>1, <1>3, <1>7
      <3>2. CASE x \in active
        BY <3>2, <1>3, <1>6 DEF LoopIInv, LoopHoldsSessions
      <3> QED
        BY <3>1, <3>2, <1>1
    <2> QED
      BY <2>1, <2>2, <2>3 DEF LoopHoldsSessions
  <1>13. TimersRun'
    <2> SUFFICES ASSUME NEW t \in Live'
                 PROVE  /\ left'[timeout_ev'[t]] \in 0 .. IoTimeout
                        /\ age'[t] + left'[timeout_ev'[t]] >= IoTimeout
      BY DEF TimersRun
    <2>1. CASE t = s
      BY <2>1, <1>7, <1>10, IoTimeoutAssumption
    <2>2. CASE t \in Live
      BY <2>2, <1>6, <1>9 DEF LoopIInv, TimersRun
    <2> QED
      BY <2>1, <2>2, <1>3
  <1>14. CollectedForSession'
    BY <1>1, <1>2, <1>3, <1>5, <1>6, <1>7 DEF LoopIInv, CollectedForSession
  <1> QED
    BY <1>11, <1>12, <1>13, <1>14 DEF LoopIInv

(* A session is closed: its events leave the loop and their memory, also   *)
(* if they were collected; those of the others stay.                       *)
LEMMA DetachStep ==
  ASSUME IInv, LoopIInv, CloseDetaches
  PROVE  LoopIInv'
  <1>1. CASE st' = st
    <2>1. UNCHANGED <<fd, sock>>
      BY DEF CloseDetaches, CloseReturns
    <2>2. UNCHANGED <<loopVars, handleVars, age>>
      BY <1>1 DEF CloseDetaches
    <2> QED
      BY <1>1, <2>1, <2>2, LoopKept
  <1>2. CASE st' # st
    <2>1. PICK s : s = Head(stack).s
      OBVIOUS
    <2>2. st[s] = "live" /\ SessionDtor(s)
      BY <1>2, <2>1 DEF CloseDetaches, CloseReturns
    <2>3. Detached(s) /\ age' = age /\ fd' = fd /\ sock' = sock
      BY <1>2, <2>1 DEF CloseDetaches, CloseReturns
    <2>4. s \in Sessions
      BY <2>1, StackTyped DEF CloseDetaches, CloseReturns, IInv, TypeOK
    <2>5. s \in Live /\ Live' = Live \ {s}
      BY <2>2, <2>4 DEF SessionDtor, Live, IInv, TypeOK
    <2> DEFINE gone == {read_ev[s], timeout_ev[s]}
    <2>6. /\ active' = active \ gone /\ pending' = pending \ gone
          /\ left' = [x \in Blocks |-> IF x \in gone THEN L!Never ELSE left[x]]
          /\ mem' = [x \in Blocks |-> IF x \in gone THEN L!Free ELSE mem[x]]
          /\ read_ev' = [read_ev EXCEPT ![s] = NoBlock]
          /\ timeout_ev' = [timeout_ev EXCEPT ![s] = NoBlock]
      BY <2>3 DEF Detached, EventsOf, StillPending
    <2>7. ASSUME NEW t \in Live'
          PROVE  /\ t \in Live /\ read_ev'[t] = read_ev[t]
                 /\ timeout_ev'[t] = timeout_ev[t]
                 /\ read_ev[t] \in Blocks \ gone /\ timeout_ev[t] \in Blocks \ gone
      <3>1. t \in Live /\ t # s /\ t \in Sessions
        BY <2>5 DEF Live
      <3>2. read_ev[t] \in Blocks \ gone /\ timeout_ev[t] \in Blocks \ gone
        BY <2>5, <3>1, HandlesApart DEF LoopIInv
      <3> QED
        BY <2>6, <3>1, <3>2 DEF LoopIInv, LoopTypeOK
    <2>8. \A x \in Blocks \ gone : mem'[x] = mem[x] /\ left'[x] = left[x]
      BY <2>6
    <2>9. LoopTypeOK'
      <3>1. mem' \in [Blocks -> {L!Free} \cup L!IoEvents \cup L!Timers]
        BY <2>6 DEF LoopIInv, LoopTypeOK
      <3>2. left' \in [Blocks -> L!Never .. IoTimeout]
        BY <2>6, IoTimeoutAssumption DEF LoopIInv, LoopTypeOK, L!Never
      <3> QED
        BY <2>3, <2>6, <3>1, <3>2 DEF LoopIInv, LoopTypeOK
    <2>10. LoopHoldsSessions'
      <3>1. ASSUME NEW t \in Live'
            PROVE  /\ read_ev'[t] \in Blocks
                   /\ mem'[read_ev'[t]] = L!Event("read", t, 0)
                   /\ timeout_ev'[t] \in Blocks
                   /\ mem'[timeout_ev'[t]] = L!Event("timer", t, IoTimeout)
        BY <2>7, <2>8 DEF LoopIInv, LoopHoldsSessions
      <3>2. ASSUME NEW x \in Blocks PROVE mem'[x] = L!Free <=> x \notin active'
        BY <2>6 DEF LoopIInv, LoopHoldsSessions
      <3>3. ASSUME NEW x \in active'
            PROVE  \E t \in Live' : x \in {read_ev'[t], timeout_ev'[t]}
        <4>1. x \in active /\ x \notin gone
          BY <2>6
        <4>2. PICK t \in Live : x \in {read_ev[t], timeout_ev[t]}
          BY <4>1 DEF LoopIInv, LoopHoldsSessions
        <4>3. t \in Live'
          BY <2>5, <4>1, <4>2
        <4> QED
          BY <2>7, <4>2, <4>3
      <3> QED
        BY <3>1, <3>2, <3>3 DEF LoopHoldsSessions
    <2>11. TimersRun'
      BY <2>3, <2>7, <2>8 DEF LoopIInv, TimersRun
    <2>12. CollectedForSession'
      BY <2>3, <2>6, <2>7 DEF LoopIInv, CollectedForSession
    <2> QED
      BY <2>9, <2>10, <2>11, <2>12 DEF LoopIInv
  <1> QED
    BY <1>1, <1>2

(* What was collected is called back and is then no longer collected.      *)
LEMMA CallStep ==
  ASSUME LoopIInv, NEW b \in Blocks, CallsLibrary(b)
  PROVE  LoopIInv'
  <1>1. /\ UNCHANGED <<st, fd, sock, mem, active, left, handleVars, age>>
        /\ pending' = pending \ {b}
    BY CallRefines DEF LoopIInv
  <1>2. read_ev' = read_ev /\ timeout_ev' = timeout_ev /\ Live' = Live
    BY <1>1 DEF handleVars, Live
  <1>3. LoopTypeOK' /\ LoopHoldsSessions'
    BY <1>1, <1>2 DEF LoopIInv, LoopTypeOK, LoopHoldsSessions
  <1>4. TimersRun' /\ CollectedForSession'
    BY <1>1, <1>2 DEF LoopIInv, TimersRun, CollectedForSession
  <1> QED
    BY <1>3, <1>4 DEF LoopIInv

(* A turn collects timers that are due, so their sessions have their age,  *)
(* and descriptors that are ready.                                         *)
LEMMA TurnStep ==
  ASSUME IInv, LoopIInv, TurnBegins
  PROVE  LoopIInv'
  <1>1. UNCHANGED <<vars, mem, active, handleVars, age>>
    BY TurnRefines DEF LoopIInv
  <1>2. PICK S \in SUBSET Ready :
          /\ pending' = S
          /\ left' = [b \in Blocks |-> IF b \in L!Due THEN L!Rearmed(b) ELSE left[b]]
          /\ S \subseteq L!Due \cup L!Io
    <2>1. PICK S \in SUBSET Ready : L!Collect(S)
      BY DEF TurnBegins
    <2>2. \A b \in active : L!IsEvent(b)
      BY ActiveSound DEF LoopIInv
    <2> QED
      BY <2>1, <2>2 DEF L!Collect
  <1>3. /\ st' = st /\ fd' = fd /\ sock' = sock /\ mem' = mem /\ active' = active
        /\ read_ev' = read_ev /\ timeout_ev' = timeout_ev /\ age' = age
        /\ Live' = Live
    BY <1>1 DEF vars, sessionVars, fdVars, handleVars, Live
  <1>4. ASSUME NEW s \in Live
        PROVE  /\ s \in Sessions /\ timeout_ev[s] \in Blocks /\ read_ev[s] \in Blocks
               /\ mem[timeout_ev[s]].use = "event" /\ mem[timeout_ev[s]].cb = "timer"
               /\ mem[timeout_ev[s]].after = IoTimeout
               /\ mem[read_ev[s]].use = "event" /\ mem[read_ev[s]].cb = "read"
               /\ mem[read_ev[s]].ud = s
    BY EventFields DEF LoopIInv, LoopHoldsSessions, Live
  <1>5. ASSUME NEW b \in L!Due
        PROVE  b \in active /\ left[b] = 0 /\ mem[b].after \in 1 .. IoTimeout
               /\ b \in Blocks
    <2>1. b \in active /\ left[b] = 0 /\ mem[b].cb \in {"timer", "periodic"}
          /\ b \in Blocks
      BY DEF L!Due, L!IsTimer, L!TimerKinds, LoopIInv, LoopTypeOK
    <2>2. PICK s \in Live :
             \/ b = read_ev[s] /\ mem[b] = L!Event("read", s, 0)
             \/ b = timeout_ev[s] /\ mem[b] = L!Event("timer", s, IoTimeout)
      BY <2>1, OfLive DEF LoopIInv
    <2>3. mem[b].after = IoTimeout
      BY <2>1, <2>2, EventFields
    <2> QED
      BY <2>1, <2>3, IoTimeoutAssumption
  <1>6. LoopTypeOK'
    <2>1. pending' \subseteq active'
      BY <1>2, <1>3 DEF Ready
    <2>2. left' \in [Blocks -> L!Never .. IoTimeout]
      BY <1>2, <1>5, IoTimeoutAssumption DEF L!Rearmed, L!Never, LoopIInv, LoopTypeOK
    <2> QED
      BY <1>3, <2>1, <2>2 DEF LoopIInv, LoopTypeOK
  <1>7. LoopHoldsSessions'
    BY <1>3 DEF LoopIInv, LoopHoldsSessions
  <1>8. TimersRun'
    <2> SUFFICES ASSUME NEW s \in Live
                 PROVE  /\ left'[timeout_ev[s]] \in 0 .. IoTimeout
                        /\ age[s] + left'[timeout_ev[s]] >= IoTimeout
      BY <1>3 DEF TimersRun
    <2>1. age[s] \in Nat
      BY <1>4 DEF LoopIInv, LoopTypeOK
    <2>2. CASE timeout_ev[s] \in L!Due
      <3>1. left'[timeout_ev[s]] = IoTimeout
        BY <1>2, <1>4, <2>2 DEF L!Rearmed
      <3> QED
        BY <2>1, <3>1, IoTimeoutAssumption
    <2>3. CASE timeout_ev[s] \notin L!Due
      BY <1>2, <1>4, <2>3 DEF LoopIInv, TimersRun
    <2> QED
      BY <2>2, <2>3
  <1>9. CollectedForSession'
    <2> SUFFICES ASSUME NEW s \in Live
                 PROVE  /\ timeout_ev[s] \in pending' => age[s] = IoTimeout
                        /\ read_ev[s] \in pending' => sock[fd[s]] # "quiet"
      BY <1>3 DEF CollectedForSession
    <2>1. ASSUME timeout_ev[s] \in pending' PROVE age[s] = IoTimeout
      <3>1. timeout_ev[s] \in L!Due
        BY <1>2, <1>4, <2>1 DEF L!Io, L!IsTimer, L!IsEvent, L!TimerKinds
      <3>2. left[timeout_ev[s]] = 0
        BY <1>5, <3>1
      <3>3. age[s] \in 0 .. IoTimeout
        BY <1>4 DEF LoopIInv, LoopTypeOK
      <3> QED
        BY <3>2, <3>3, IoTimeoutAssumption DEF LoopIInv, TimersRun
    <2>2. ASSUME read_ev[s] \in pending' PROVE sock[fd[s]] # "quiet"
      BY <1>2, <1>4, <2>2 DEF Ready, L!IsTimer, L!IsEvent, L!TimerKinds
    <2> QED
      BY <2>1, <2>2
  <1> QED
    BY <1>6, <1>7, <1>8, <1>9 DEF LoopIInv

(* A tick makes a session older by what its timer loses.                   *)
LEMMA TickStep ==
  ASSUME LoopIInv, TimePasses
  PROVE  LoopIInv'
  <1>1. /\ UNCHANGED <<vars, mem, active, pending, handleVars>>
    BY TickRefines
  <1>2. /\ pending = {}
        /\ left' = [b \in Blocks |-> IF left[b] > 0 THEN left[b] - 1 ELSE left[b]]
        /\ age' = [s \in Sessions |->
                      IF st[s] = "live" /\ age[s] < IoTimeout THEN age[s] + 1 ELSE age[s]]
    BY DEF TimePasses, L!Tick
  <1>3. /\ st' = st /\ fd' = fd /\ sock' = sock /\ mem' = mem /\ active' = active
        /\ pending' = pending
        /\ read_ev' = read_ev /\ timeout_ev' = timeout_ev /\ Live' = Live
    BY <1>1 DEF vars, sessionVars, fdVars, handleVars, Live
  <1>4. LoopTypeOK'
    <2>1. left' \in [Blocks -> L!Never .. IoTimeout]
      BY <1>2, IoTimeoutAssumption DEF LoopIInv, LoopTypeOK, L!Never
    <2>2. age' \in [Sessions -> 0 .. IoTimeout]
      BY <1>2, IoTimeoutAssumption DEF LoopIInv, LoopTypeOK
    <2> QED
      BY <1>3, <2>1, <2>2 DEF LoopIInv, LoopTypeOK
  <1>5. LoopHoldsSessions'
    BY <1>3 DEF LoopIInv, LoopHoldsSessions
  <1>6. TimersRun'
    <2> SUFFICES ASSUME NEW s \in Live
                 PROVE  /\ left'[timeout_ev[s]] \in 0 .. IoTimeout
                        /\ age'[s] + left'[timeout_ev[s]] >= IoTimeout
      BY <1>3 DEF TimersRun
    <2>1. s \in Sessions /\ st[s] = "live" /\ timeout_ev[s] \in Blocks
      BY DEF Live, LoopIInv, LoopHoldsSessions
    <2>2. /\ left[timeout_ev[s]] \in 0 .. IoTimeout /\ age[s] \in 0 .. IoTimeout
          /\ age[s] + left[timeout_ev[s]] >= IoTimeout
      BY <2>1 DEF LoopIInv, LoopTypeOK, TimersRun
    <2>3. left'[timeout_ev[s]] =
            IF left[timeout_ev[s]] > 0 THEN left[timeout_ev[s]] - 1 ELSE 0
      BY <1>2, <2>1, <2>2, IoTimeoutAssumption
    <2>4. age'[s] = IF age[s] < IoTimeout THEN age[s] + 1 ELSE age[s]
      BY <1>2, <2>1
    <2> QED
      BY <2>2, <2>3, <2>4, IoTimeoutAssumption
  <1>7. CollectedForSession'
    BY <1>2, <1>3 DEF CollectedForSession
  <1> QED
    BY <1>4, <1>5, <1>6, <1>7 DEF LoopIInv

(* Every step keeps the inductive invariant.                               *)
LEMMA LoopStepInductive ==
  ASSUME IInv, LoopIInv, [LoopNext]_allVars
  PROVE  IInv' /\ LoopIInv'
  <1>1. IInv'
    BY LoopStepRefines, StepInductive DEF LoopIInv
  <1> SUFFICES LoopIInv'
    BY <1>1
  <1>2. CASE Elsewhere
    BY <1>2, WithoutLoopStep
  <1>3. ASSUME NEW s \in Sessions, NEW f \in FDs, NEW u \in UserData,
               NEW b \in Blocks, NEW c \in Blocks, ConsumeAttaches(s, f, u, b, c)
        PROVE  LoopIInv'
    BY <1>3, AttachStep
  <1>4. CASE LibraryReturns
    <2>1. CASE CloseDetaches
      BY <2>1, DetachStep
    <2>2. CASE (AbortReturns \/ LogReturns \/ DestroyAdvances) /\ WithoutLoop
      <3>1. st' = st
        BY <2>2 DEF AbortReturns, LogReturns, DestroyAdvances, sessionVars
      <3> QED
        BY <1>4, <2>2, <3>1, WithoutLoopStep
    <2> QED
      BY <1>4, <2>1, <2>2 DEF LibraryReturns
  <1>5. ASSUME NEW b \in Blocks, CallsLibrary(b) PROVE LoopIInv'
    BY <1>5, CallStep
  <1>6. CASE TurnBegins
    BY <1>6, TurnStep
  <1>7. CASE TimePasses
    BY <1>7, TickStep
  <1>8. CASE UNCHANGED allVars
    <2>1. UNCHANGED <<st, fd, sock, loopVars, handleVars, age>>
      BY <1>8 DEF allVars, vars, sessionVars, fdVars
    <2> QED
      BY <2>1, LoopKept
  <1> QED
    BY <1>2, <1>3, <1>4, <1>5, <1>6, <1>7, <1>8 DEF LoopNext

(* The invariant of the milter and that of its loop hold together.         *)
LEMMA LoopInvariance == LoopSpec => [](IInv /\ LoopIInv)
  <1>1. LoopInit => IInv /\ LoopIInv
    BY LoopInitInductive, InitInductive DEF LoopInit
  <1>2. (IInv /\ LoopIInv) /\ [LoopNext]_allVars => (IInv /\ LoopIInv)'
    BY LoopStepInductive
  <1> QED
    BY <1>1, <1>2, PTL DEF LoopSpec

-----------------------------------------------------------------------------
(* The end of every session is scheduled.                                  *)

(* Ending of a session, for any stack.                                     *)
EndsIn(q, s) == \E i \in 1 .. Len(q) : q[i].s = s /\ q[i].fn # "destroy"

(* What a call adds to the sessions that are being closed.                 *)
LEMMA EndsPushed ==
  ASSUME NEW f \in {"abort", "log", "close", "destroy"}, NEW t \in Sessions,
         NEW rest \in Seq(Frames), NEW s
  PROVE  EndsIn(Cons(Frame(f, t), rest), s)
           <=> (t = s /\ f # "destroy") \/ EndsIn(rest, s)
  <1> DEFINE e == Frame(f, t)
             c == Cons(e, rest)
             n == Len(rest)
  <1>1. e \in Frames /\ e.fn = f /\ e.s = t /\ n \in Nat
    BY LenProperties DEF Frame, Frames
  <1> HIDE DEF e
  <1>2. Len(c) = n + 1 /\ c[1] = e /\ \A i \in 1 .. n : c[i + 1] = rest[i]
    BY <1>1, Pushed
  <1> HIDE DEF c, n
  <1>3. (t = s /\ f # "destroy") => \E i \in 1 .. n + 1 : c[i].s = s /\ c[i].fn # "destroy"
    BY <1>1, <1>2
  <1>4. ASSUME NEW i \in 1 .. n, rest[i].s = s, rest[i].fn # "destroy"
        PROVE  \E j \in 1 .. n + 1 : c[j].s = s /\ c[j].fn # "destroy"
    <2>1. i + 1 \in 1 .. n + 1 /\ c[i + 1] = rest[i]
      BY <1>1, <1>2
    <2> QED
      BY <1>4, <2>1
  <1>5. ASSUME NEW i \in 1 .. n + 1, c[i].s = s, c[i].fn # "destroy"
        PROVE  (t = s /\ f # "destroy")
                 \/ \E j \in 1 .. n : rest[j].s = s /\ rest[j].fn # "destroy"
    <2>1. CASE i = 1
      BY <1>1, <1>2, <1>5, <2>1
    <2>2. CASE i # 1
      <3>1. i - 1 \in 1 .. n /\ (i - 1) + 1 = i
        BY <1>1, <2>2
      <3>2. c[i] = rest[i - 1]
        BY <1>2, <3>1
      <3> QED
        BY <1>5, <3>1, <3>2
    <2> QED
      BY <2>1, <2>2
  <1> QED
    BY <1>2, <1>3, <1>4, <1>5 DEF EndsIn, n, c, e

(* What a return takes from them.                                          *)
LEMMA EndsPopped ==
  ASSUME NEW q \in Seq(Frames), q # <<>>, NEW s
  PROVE  EndsIn(q, s)
           <=> (Head(q).s = s /\ Head(q).fn # "destroy") \/ EndsIn(Tail(q), s)
  <1>1. Head(q) \in Frames /\ Tail(q) \in Seq(Frames) /\ q = Cons(Head(q), Tail(q))
    BY HeadTailProperties, Popped DEF Cons
  <1>2. PICK f \in {"abort", "log", "close", "destroy"}, t \in Sessions :
          Head(q) = Frame(f, t) /\ f = Head(q).fn /\ t = Head(q).s
    BY <1>1 DEF Frames, Frame
  <1>3. PICK r \in Seq(Frames) : r = Tail(q)
    BY <1>1
  <1>4. EndsIn(Cons(Frame(f, t), r), s) <=> (t = s /\ f # "destroy") \/ EndsIn(r, s)
    BY <1>3, EndsPushed
  <1> QED
    BY <1>1, <1>2, <1>3, <1>4

(* A session that is being closed is so until it is gone, whatever the     *)
(* callbacks do meanwhile.                                                 *)
LEMMA EndingStays ==
  ASSUME IInv, [Next]_vars, NEW s \in Live, s \in Live', Ending(s)
  PROVE  Ending(s)'
  <1>1. /\ stack \in Seq(Frames) /\ stack # <<>> /\ EndsIn(stack, s)
    BY DEF IInv, TypeOK, Ending, EndsIn
  <1> SUFFICES EndsIn(stack', s)
    BY DEF Ending, EndsIn
  <1>2. PICK top \in Frames, rest \in Seq(Frames) : top = Head(stack) /\ rest = Tail(stack)
    BY <1>1, Popped
  <1>3. (top.s = s /\ top.fn # "destroy") \/ EndsIn(rest, s)
    BY <1>1, <1>2, EndsPopped
  <1>4. top.s \in Sessions
    BY <1>2 DEF Frames
  <1>5. CASE stack' = stack
    BY <1>1, <1>5
  <1>6. CASE Destroy
    <2>1. CASE queue = <<>>
      BY <1>1, <1>6, <2>1 DEF Destroy
    <2>2. CASE queue # <<>>
      <3>1. PICK t \in Sessions : t = Last(queue)
        BY <2>2, LenProperties, EmptySeq, ElementOfSeq DEF Last, IInv, TypeOK
      <3>2. stack' = Cons(Frame("log", t), Cons(Frame("destroy", t), stack))
        BY <1>6, <2>2, <3>1 DEF Destroy, CallLog
      <3>3. Frame("destroy", t) \in Frames
        BY DEF Frame, Frames
      <3>4. PICK q \in Seq(Frames) : q = Cons(Frame("destroy", t), stack)
        BY <1>1, <3>3, Pushed
      <3>5. EndsIn(q, s)
        BY <1>1, <3>4, EndsPushed
      <3> QED
        BY <3>2, <3>4, <3>5, EndsPushed
    <2> QED
      BY <2>1, <2>2
  <1>7. CASE AbortReturns \/ LogReturns
    <2>1. top.fn \in {"abort", "log"}
      BY <1>2, <1>7 DEF AbortReturns, LogReturns
    <2>2. ASSUME NEW f \in {"log", "close"}, stack' = Cons(Frame(f, top.s), rest)
          PROVE  EndsIn(stack', s)
      BY <1>3, <1>4, <2>2, EndsPushed
    <2>3. \/ stack' = stack
          \/ stack' = Cons(Frame("log", top.s), rest)
          \/ stack' = Cons(Frame("close", top.s), rest)
      BY <1>2, <1>7 DEF AbortReturns, LogReturns, CallLog, CallClose
    <2> QED
      BY <1>5, <2>2, <2>3
  <1>8. CASE CloseReturns
    <2>1. CASE st[top.s] = "live" /\ SessionDtor(top.s) /\ stack' = rest
      <3>1. st' = [st EXCEPT ![top.s] = "freed"]
        BY <2>1 DEF SessionDtor
      <3>2. top.s # s
        BY <3>1, <1>4 DEF Live, IInv, TypeOK
      <3> QED
        BY <1>3, <2>1, <3>2
    <2> QED
      BY <1>2, <1>5, <1>8, <2>1 DEF CloseReturns
  <1>9. CASE DestroyAdvances
    <2>1. top.fn = "destroy" /\ (stack' = rest \/ stack' = stack)
      BY <1>2, <1>9 DEF DestroyAdvances
    <2> QED
      BY <1>3, <1>5, <2>1
  <1>10. ASSUME NEW t \in Sessions, ProcessTimer(t) \/ ReadZero(t) \/ ReadFails(t)
         PROVE  FALSE
    BY <1>1, <1>10 DEF ProcessTimer, ReadZero, ReadFails, Dispatches
  <1>11. CASE Next
    BY <1>5, <1>6, <1>7, <1>8, <1>9, <1>10, <1>11
       DEF Next, Application, Returns, Create, Accept, AppCloses, ConsumeRefused, Consume,
           Peer, vars
  <1>12. CASE UNCHANGED vars
    BY <1>5, <1>12 DEF vars
  <1> QED
    BY <1>11, <1>12

(* Processing the timer of a session begins to close it.                   *)
LEMMA EndingBegins ==
  ASSUME NEW s \in Sessions, ProcessTimer(s)
  PROVE  Ending(s)'
  <1>1. stack' = Cons(Frame("log", s), <<>>)
    BY DEF ProcessTimer, CallLog
  <1>2. <<>> \in Seq(Frames)
    BY EmptySeq
  <1>3. EndsIn(stack', s)
    BY <1>1, <1>2, EndsPushed
  <1> QED
    BY <1>3 DEF Ending, EndsIn

(* A new session has its whole time before it, and takes none from others. *)
LEMMA AttachSchedules ==
  ASSUME IInv, LoopIInv, NEW s \in Sessions, NEW f \in FDs, NEW u \in UserData,
         NEW b \in Blocks, NEW c \in Blocks, ConsumeAttaches(s, f, u, b, c),
         NEW t \in Live'
  PROVE  \/ age'[t] + left'[timeout_ev'[t]] = IoTimeout
         \/ /\ t \in Live /\ age'[t] = age[t] /\ timeout_ev'[t] = timeout_ev[t]
            /\ left'[timeout_ev'[t]] = left[timeout_ev[t]] /\ pending' = pending
  <1>1. /\ mem[b] = L!Free /\ mem[c] = L!Free /\ b # c /\ pending' = pending
        /\ left' = [left EXCEPT ![b] = L!Never, ![c] = IoTimeout]
        /\ timeout_ev' = [timeout_ev EXCEPT ![s] = c]
        /\ age' = [age EXCEPT ![s] = 0]
        /\ st' = [st EXCEPT ![s] = "live"]
    BY DEF ConsumeAttaches, Attached, L!Interval, Consume
  <1>2. CASE t = s
    <2>1. age'[s] = 0 /\ timeout_ev'[s] = c /\ left'[c] = IoTimeout
      BY <1>1 DEF LoopIInv, LoopTypeOK
    <2> QED
      BY <1>2, <2>1, IoTimeoutAssumption
  <1>3. CASE t # s
    <2>1. t \in Live /\ t \in Sessions
      BY <1>1, <1>3 DEF Live, IInv, TypeOK
    <2>2. timeout_ev[t] \in active /\ timeout_ev[t] \in Blocks
      BY <2>1, HandlesApart DEF LoopIInv
    <2>3. timeout_ev[t] # b /\ timeout_ev[t] # c
      BY <1>1, <2>2 DEF LoopIInv, LoopHoldsSessions
    <2> QED
      BY <1>1, <1>3, <2>1, <2>2, <2>3 DEF LoopIInv, LoopTypeOK
  <1> QED
    BY <1>2, <1>3

(* The end of one session takes nothing of the schedule of the others.     *)
LEMMA DetachSchedules ==
  ASSUME IInv, LoopIInv, CloseDetaches, NEW t \in Live'
  PROVE  /\ t \in Live /\ age'[t] = age[t] /\ timeout_ev'[t] = timeout_ev[t]
         /\ left'[timeout_ev'[t]] = left[timeout_ev[t]]
         /\ timeout_ev[t] \in pending => timeout_ev'[t] \in pending'
  <1>1. CASE st' = st
    <2>1. UNCHANGED <<loopVars, handleVars, age>> /\ Live' = Live
      BY <1>1 DEF CloseDetaches, Live
    <2> QED
      BY <2>1 DEF loopVars, handleVars
  <1>2. CASE st' # st
    <2>1. PICK s : s = Head(stack).s
      OBVIOUS
    <2>2. SessionDtor(s) /\ Detached(s) /\ age' = age
      BY <1>2, <2>1 DEF CloseDetaches, CloseReturns
    <2>3. s \in Sessions
      BY <2>1, StackTyped DEF CloseDetaches, CloseReturns, IInv, TypeOK
    <2>4. st[s] = "live"
      BY <1>2, <2>1 DEF CloseDetaches, CloseReturns
    <2>5. s \in Live /\ t \in Live /\ t # s /\ t \in Sessions
      BY <2>2, <2>3, <2>4 DEF SessionDtor, Live, IInv, TypeOK
    <2> DEFINE gone == {read_ev[s], timeout_ev[s]}
    <2>6. timeout_ev[t] \in Blocks \ gone
      BY <2>5, HandlesApart DEF LoopIInv
    <2>7. /\ pending' = pending \ gone
          /\ left' = [x \in Blocks |-> IF x \in gone THEN L!Never ELSE left[x]]
          /\ timeout_ev' = [timeout_ev EXCEPT ![s] = NoBlock]
      BY <2>2 DEF Detached, EventsOf, StillPending
    <2> QED
      BY <2>2, <2>5, <2>6, <2>7 DEF LoopIInv, LoopTypeOK
  <1> QED
    BY <1>1, <1>2

(* Every step keeps the schedule.                                          *)
LEMMA EndStep ==
  ASSUME IInv, LoopIInv, LoopIInv', EndIsScheduled, [LoopNext]_allVars
  PROVE  EndIsScheduled'
  <1> DEFINE Due(s) == age[s] + left[timeout_ev[s]] = IoTimeout
  <1> SUFFICES ASSUME NEW s \in Live'
               PROVE  Ending(s)' \/ timeout_ev'[s] \in pending' \/ Due(s)'
    <2>1. ASSUME NEW s \in Live' PROVE timeout_ev'[s] \in active'
      <3>1. timeout_ev'[s] \in Blocks /\ mem'[timeout_ev'[s]] = L!Event("timer", s, IoTimeout)
        BY DEF LoopIInv, LoopHoldsSessions
      <3>2. mem'[timeout_ev'[s]] # L!Free
        BY <3>1, EventFields
      <3> QED
        BY <3>1, <3>2 DEF LoopIInv, LoopHoldsSessions
    <2> QED
      BY <2>1 DEF EndIsScheduled
  <1>1. [Next]_vars
    BY LoopStepRefines DEF LoopIInv
  <1>2. s \in Sessions
    BY DEF Live
  <1>3. ASSUME s \in Live
        PROVE  Ending(s) \/ timeout_ev[s] \in pending \/ Due(s)
    BY <1>3 DEF EndIsScheduled
  <1>4. CASE UNCHANGED <<st, loopVars, handleVars, age>>
    <2>1. s \in Live /\ timeout_ev' = timeout_ev /\ pending' = pending /\ left' = left
          /\ age' = age
      BY <1>4 DEF Live, loopVars, handleVars
    <2> QED
      BY <1>1, <1>3, <2>1, EndingStays
  <1>5. CASE Elsewhere
    BY <1>4, <1>5
       DEF Elsewhere, WithoutLoop, Create, Destroy, Accept, AppCloses, ConsumeRefused, Peer,
           vars, sessionVars
  <1>6. ASSUME NEW t \in Sessions, NEW f \in FDs, NEW u \in UserData,
               NEW b \in Blocks, NEW c \in Blocks, ConsumeAttaches(t, f, u, b, c)
        PROVE  Ending(s)' \/ timeout_ev'[s] \in pending' \/ Due(s)'
    BY <1>1, <1>3, <1>6, AttachSchedules, EndingStays
  <1>7. CASE LibraryReturns
    <2>1. CASE CloseDetaches
      BY <1>1, <1>3, <2>1, DetachSchedules, EndingStays
    <2>2. CASE (AbortReturns \/ LogReturns \/ DestroyAdvances) /\ WithoutLoop
      BY <1>4, <2>2 DEF WithoutLoop, AbortReturns, LogReturns, DestroyAdvances, sessionVars
    <2> QED
      BY <1>7, <2>1, <2>2 DEF LibraryReturns
  <1>8. ASSUME NEW b \in Blocks, CallsLibrary(b)
        PROVE  Ending(s)' \/ timeout_ev'[s] \in pending' \/ Due(s)'
    <2>1. /\ UNCHANGED <<st, left, handleVars, age>> /\ pending' = pending \ {b}
      BY <1>8, CallRefines DEF LoopIInv
    <2>2. s \in Live /\ timeout_ev' = timeout_ev
      BY <2>1 DEF Live, handleVars
    <2>3. CASE timeout_ev[s] \in pending /\ timeout_ev[s] = b
      <3>1. mem[b] = L!Event("timer", s, IoTimeout) /\ b \in active
        BY <2>2, <2>3, HandlesApart DEF LoopIInv, LoopHoldsSessions
      <3>2. mem[b].cb = "timer" /\ mem[b].ud = s
        BY <3>1, EventFields
      <3>3. ~Stale(b)
        BY <3>1, ActiveSound DEF LoopIInv
      <3>4. Serves(b, s)
        BY <1>8, <3>2, <3>3 DEF CallsLibrary
      <3>5. ProcessTimer(s)
        BY <3>2, <3>4 DEF Serves, L!Handle
      <3> QED
        BY <1>2, <3>5, EndingBegins
    <2> QED
      BY <1>1, <1>3, <2>1, <2>2, <2>3, EndingStays
  <1>9. ASSUME stack = <<>>, pending = {}, s \in Live
        PROVE  /\ Due(s) /\ age[s] \in 0 .. IoTimeout /\ timeout_ev[s] \in Blocks
               /\ left[timeout_ev[s]] \in 0 .. IoTimeout
    <2>1. ~Ending(s)
      BY <1>9 DEF Ending
    <2> QED
      BY <1>2, <1>3, <1>9, <2>1 DEF LoopIInv, LoopTypeOK, LoopHoldsSessions, TimersRun
  <1>10. CASE TurnBegins
    <2>1. UNCHANGED <<vars, mem, active, handleVars, age>>
      BY <1>10, TurnRefines DEF LoopIInv
    <2>2. s \in Live /\ timeout_ev' = timeout_ev /\ age' = age
      BY <2>1 DEF vars, sessionVars, handleVars, Live
    <2>3. PICK S \in SUBSET Ready :
            /\ pending' = S /\ L!Due \subseteq S
            /\ left' = [b \in Blocks |-> IF b \in L!Due THEN L!Rearmed(b) ELSE left[b]]
      BY <1>10, TurnRefines DEF LoopIInv
    <2>4. stack = <<>> /\ pending = {}
      BY <1>10 DEF TurnBegins, L!Collect
    <2>5. Due(s) /\ timeout_ev[s] \in Blocks
      BY <1>9, <2>2, <2>4
    <2> QED
      BY <2>2, <2>3, <2>5
  <1>11. CASE TimePasses
    <2>1. UNCHANGED <<vars, handleVars>>
      BY <1>11, TickRefines
    <2>2. s \in Live /\ timeout_ev' = timeout_ev /\ st[s] = "live"
      BY <2>1 DEF vars, sessionVars, handleVars, Live
    <2>3. /\ stack = <<>> /\ pending = {}
          /\ left' = [b \in Blocks |-> IF left[b] > 0 THEN left[b] - 1 ELSE left[b]]
          /\ age' = [t \in Sessions |->
                        IF st[t] = "live" /\ age[t] < IoTimeout THEN age[t] + 1 ELSE age[t]]
      BY <1>11 DEF TimePasses, L!Tick
    <2>4. /\ Due(s) /\ age[s] \in 0 .. IoTimeout /\ timeout_ev[s] \in Blocks
          /\ left[timeout_ev[s]] \in 0 .. IoTimeout
      BY <1>9, <2>2, <2>3
    <2>5. left'[timeout_ev[s]] = IF left[timeout_ev[s]] > 0 THEN left[timeout_ev[s]] - 1
                                 ELSE left[timeout_ev[s]]
      BY <2>3, <2>4
    <2>6. age'[s] = IF age[s] < IoTimeout THEN age[s] + 1 ELSE age[s]
      BY <1>2, <2>2, <2>3
    <2> QED
      BY <2>2, <2>4, <2>5, <2>6, IoTimeoutAssumption
  <1>12. CASE UNCHANGED allVars
    BY <1>4, <1>12 DEF allVars, vars, sessionVars
  <1> QED
    BY <1>5, <1>6, <1>7, <1>8, <1>10, <1>11, <1>12 DEF LoopNext

-----------------------------------------------------------------------------
(* The results.                                                            *)

(* What the loop and the handles hold is always of the right type: no      *)
(* event but the sessions' is ever in the loop, and every age is within    *)
(* io_timeout.                                                             *)
THEOREM LoopTypeCorrect == LoopSpec => []LoopTypeOK
  <1>1. LoopIInv => LoopTypeOK
    BY DEF LoopIInv
  <1> QED
    BY <1>1, LoopInvariance, PTL

(* rmilter_session_start and rmilter_session_dtor balance: the loop has    *)
(* both events of every live session and nothing else, and no memory of an *)
(* event is lost.                                                          *)
THEOREM LoopSound == LoopSpec => []LoopHoldsSessions
  <1>1. LoopIInv => LoopHoldsSessions
    BY DEF LoopIInv
  <1> QED
    BY <1>1, LoopInvariance, PTL

(* What the loop has collected is about the session that is called back,   *)
(* although sessions end within a turn and others take their memory and    *)
(* their descriptors.                                                      *)
THEOREM CollectedSound == LoopSpec => []CollectedForSession
  <1>1. LoopIInv => CollectedForSession
    BY DEF LoopIInv
  <1> QED
    BY <1>1, LoopInvariance, PTL

(* No event is called back after it or its session was freed.              *)
THEOREM StaleFree == LoopSpec => []NothingStale
  <1>1. LoopIInv => NothingStale
    BY ActiveSound DEF LoopIInv, LoopTypeOK, NothingStale
  <1> QED
    BY <1>1, LoopInvariance, PTL

(* No live session is ever forgotten: it is being closed, or waits to be   *)
(* called back, or its timer is due when it is io_timeout old              *)
(* (session.c:154); with a loop that turns, this is why every session      *)
(* ends.                                                                   *)
THEOREM EndScheduled == LoopSpec => []EndIsScheduled
  <1>1. LoopInit => EndIsScheduled
    BY DEF LoopInit, Init, Live, EndIsScheduled
  <1>2. /\ (IInv /\ LoopIInv) /\ (IInv /\ LoopIInv)' /\ EndIsScheduled
        /\ [LoopNext]_allVars
        => EndIsScheduled'
    BY EndStep
  <1> QED
    BY <1>1, <1>2, LoopInvariance, PTL DEF LoopSpec

(* When the milter is freed, nothing of it or of its sessions is left in   *)
(* the loop, in memory or among the open descriptors.                      *)
THEOREM NothingLeftOver == LoopSpec => []NothingRemains
  <1>1. IInv /\ LoopIInv => NothingRemains
    <2> SUFFICES ASSUME IInv, LoopIInv, mst = "freed"
                 PROVE  /\ queue = <<>> /\ active = {} /\ pending = {}
                        /\ \A b \in Blocks : mem[b] = L!Free
                        /\ \A f \in FDs : owner[f] # "milter"
      BY DEF NothingRemains
    <2>1. Live = {}
      BY DEF IInv, RefCountExact
    <2>2. queue = <<>>
      <3>1. queue \in Seq(Sessions) /\ Range(queue) = {}
        BY <2>1 DEF IInv, QueueHoldsLive, TypeOK
      <3>2. Len(queue) \in Nat /\ DOMAIN queue = 1 .. Len(queue)
        BY <3>1, LenProperties
      <3>3. DOMAIN queue = {}
        BY <3>1 DEF Range
      <3>4. Len(queue) = 0
        BY <3>2, <3>3
      <3> QED
        BY <3>1, <3>4, EmptySeq
    <2>3. active = {} /\ pending = {} /\ \A b \in Blocks : mem[b] = L!Free
      BY <2>1 DEF LoopIInv, LoopTypeOK, LoopHoldsSessions
    <2>4. \A f \in FDs : owner[f] # "milter"
      BY <2>1 DEF IInv, DescriptorsOwned
    <2> QED
      BY <2>2, <2>3, <2>4
  <1> QED
    BY <1>1, LoopInvariance, PTL

(* A milter in a real loop is a milter as Milter says: every theorem about *)
(* Milter's Spec holds of it.                                              *)
THEOREM LoopImplements == LoopSpec => Spec
  <1>1. LoopInit => Init
    BY DEF LoopInit
  <1>2. LoopIInv /\ [LoopNext]_allVars => [Next]_vars
    BY LoopStepRefines DEF LoopIInv
  <1> QED
    BY <1>1, <1>2, LoopInvariance, PTL DEF LoopSpec, Spec

(* So a milter in a real loop, with callbacks that may do anything, counts *)
(* its references, tells of the end of each session once, commits no fault *)
(* but the ones explained, and lives as MilterLife says.                   *)
THEOREM PromisesInLoop ==
  LoopSpec => [](RefCountExact /\ ToldOnceInLoop /\ FaultsExplained) /\ ImplementsLife
  <1> QED
    BY LoopImplements, RefCounted, ToldOnceOutside, NoOtherFault, MilterLives, PTL
=============================================================================
