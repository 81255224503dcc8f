----------------------------- MODULE MilterLoop -----------------------------
(***************************************************************************)
(* A milter inside a real event loop: Milter and EventLoop together.       *)
(*                                                                         *)
(* In Milter an event that is registered may fire at any moment.  Here the *)
(* loop turns: it collects what is ready, and then calls rmilter_process_  *)
(* read and rmilter_process_timer for one event after the other, while     *)
(* what they do deletes events, also some that were collected, and         *)
(* descriptors and memory are used again.  Between two call-backs of a     *)
(* turn come those of the application's own events.                        *)
(*                                                                         *)
(* The binding does what the two bundled ones do when they are given an    *)
(* event of theirs; what it does when it is given something else is up to  *)
(* Binding, as in Milter.                                                  *)
(***************************************************************************)
EXTENDS Milter

CONSTANTS
  Blocks,       \* pieces of memory for events
  NoBlock,      \* the null handle
  IoTimeout     \* m->io_timeout, in ticks

ASSUME MemoryAssumption ==
  IsFiniteSet(Blocks) /\ Blocks \cap Sessions = {} /\ NoBlock \notin Blocks
ASSUME IoTimeoutAssumption == IoTimeout \in Nat \ {0}

VARIABLES
  mem,          \* what each piece of memory holds
  active,       \* the events the loop has
  left,         \* ticks until a timer in the loop is due
  pending,      \* collected in this turn and not called back yet
  read_ev,      \* s->read_ev
  timeout_ev,   \* s->timeout_ev
  age           \* history: ticks since the session was started

loopVars == <<mem, active, left, pending>>
handleVars == <<read_ev, timeout_ev>>
libraryVars == <<cb, milterVars, sessionVars, fdVars, stack>>
allVars == <<vars, loopVars, handleVars, age>>

(* The loop, whose events carry sessions.                                  *)
L == INSTANCE EventLoop
       WITH UserData <- Sessions, MaxAfter <- IoTimeout, got <- [kind |-> "none"]

LoopInit ==
  /\ Init
  /\ L!Init
  /\ read_ev = [s \in Sessions |-> NoBlock]
  /\ timeout_ev = [s \in Sessions |-> NoBlock]
  /\ age = [s \in Sessions |-> 0]

-----------------------------------------------------------------------------
(* Mutation of StartedOf: the timer event is made and not added.           *)
StartedRead(b, c) == {b}
StartedOf(b, c) == {b, c}

(* rmilter_session_start: the binding makes a read event of the memory b   *)
(* and a timer event of the memory c, and adds both to the loop.           *)
Attached(s, b, c) ==
  /\ mem' = [x \in Blocks |-> IF x = b THEN L!Event("read", s, 0)
                              ELSE IF x = c THEN L!Event("timer", s, IoTimeout)
                              ELSE mem[x]]
  /\ active' = active \cup StartedOf(b, c)
  /\ left' = [left EXCEPT ![b] = L!Never, ![c] = L!Interval(IoTimeout)]
  /\ read_ev' = [read_ev EXCEPT ![s] = b]
  /\ timeout_ev' = [timeout_ev EXCEPT ![s] = c]
  /\ UNCHANGED pending

ConsumeAttaches(s, f, u, b, c) ==
  /\ mem[b] = L!Free /\ mem[c] = L!Free /\ b # c
  /\ Consume(s, f, u)
  /\ Attached(s, b, c)
  /\ age' = [age EXCEPT ![s] = 0]

(* The events the destructor deletes; mutation: the timer is forgotten.    *)
ReadEventOf(s) == {read_ev[s]}
EventsOf(s) == {read_ev[s], timeout_ev[s]}

(* What remains to be called back in this turn; mutation: what was         *)
(* collected is called all the same.                                       *)
CalledAnyway(gone) == pending
StillPending(gone) == pending \ gone

(* rmilter_session_dtor: the binding stops both events, which takes them   *)
(* out of the loop, also if they were collected, and frees them; the       *)
(* handles go with the session's memory.                                   *)
Detached(s) ==
  LET gone == EventsOf(s) IN
    /\ active' = active \ gone
    /\ pending' = StillPending(gone)
    /\ left' = [x \in Blocks |-> IF x \in gone THEN L!Never ELSE left[x]]
    /\ mem' = [x \in Blocks |-> IF x \in gone THEN L!Free ELSE mem[x]]
    /\ read_ev' = [read_ev EXCEPT ![s] = NoBlock]
    /\ timeout_ev' = [timeout_ev EXCEPT ![s] = NoBlock]

CloseDetaches ==
  /\ CloseReturns
  /\ IF st' # st THEN Detached(Head(stack).s) ELSE UNCHANGED <<loopVars, handleVars>>
  /\ UNCHANGED age

-----------------------------------------------------------------------------
(* The binding's function for an event hands its session to rmilter_       *)
(* process_timer or rmilter_process_read.                                  *)
Serves(b, s) ==
  \/ L!Handle(b, {"timer"}) /\ ProcessTimer(s)
  \/ L!Handle(b, {"read"}) /\ (ReadZero(s) \/ ReadFails(s))

(* An event that is called back although it or its session is gone.        *)
Stale(b) == ~L!IsEvent(b) \/ st[mem[b].ud] # "live"

CallsLibrary(b) ==
  /\ stack = <<>>
  /\ L!TakesUp(b)
  /\ IF Stale(b)
     THEN fault' = "use_after_free" /\ UNCHANGED libraryVars
     ELSE Serves(b, mem[b].ud)
  /\ UNCHANGED <<handleVars, age>>

(* A turn begins when no call-back is running.  A read event is ready if   *)
(* its descriptor is.                                                      *)
Ready ==
  {b \in active : ~L!IsEvent(b) \/ L!IsTimer(b) \/ sock[fd[mem[b].ud]] # "quiet"}

TurnBegins ==
  /\ stack = <<>>
  /\ \E S \in SUBSET Ready : L!Collect(S)
  /\ UNCHANGED <<libraryVars, handleVars, age>>

TimePasses ==
  /\ stack = <<>>
  /\ L!Tick
  /\ age' = [s \in Sessions |->
               IF st[s] = "live" /\ age[s] < IoTimeout THEN age[s] + 1 ELSE age[s]]
  /\ UNCHANGED <<libraryVars, handleVars>>

(* What the application, the peers and the library do without the loop.    *)
WithoutLoop == UNCHANGED <<loopVars, handleVars, age>>

Elsewhere ==
  /\ \/ Create
     \/ Destroy
     \/ \E f \in FDs : Accept(f) \/ AppCloses(f) \/ ConsumeRefused(f)
     \/ \E f \in FDs, x \in {"data", "eof", "error"} : Peer(f, x)
  /\ WithoutLoop

LibraryReturns ==
  \/ CloseDetaches
  \/ (AbortReturns \/ LogReturns \/ DestroyAdvances) /\ WithoutLoop

LoopNext ==
  \/ Elsewhere
  \/ \E s \in Sessions, f \in FDs, u \in UserData, b, c \in Blocks :
       ConsumeAttaches(s, f, u, b, c)
  \/ LibraryReturns
  \/ \E b \in Blocks : CallsLibrary(b)
  \/ TurnBegins
  \/ TimePasses

LoopSpec == LoopInit /\ [][LoopNext]_allVars

(* Callbacks return, the loop turns and calls back what it has collected,  *)
(* and time passes whatever the loop does.                                 *)
LoopFairness ==
  /\ WF_allVars(LibraryReturns)
  /\ WF_allVars(TurnBegins)
  /\ WF_allVars(\E b \in Blocks : CallsLibrary(b))
  /\ SF_allVars(TimePasses)

LoopFairSpec == LoopSpec /\ LoopFairness

-----------------------------------------------------------------------------
LoopTypeOK ==
  /\ mem \in [Blocks -> {L!Free} \cup L!IoEvents \cup L!Timers]
  /\ active \subseteq Blocks
  /\ left \in [Blocks -> L!Never .. IoTimeout]
  /\ pending \subseteq active
  /\ read_ev \in [Sessions -> Blocks \cup {NoBlock}]
  /\ timeout_ev \in [Sessions -> Blocks \cup {NoBlock}]
  /\ age \in [Sessions -> 0 .. IoTimeout]

(* INVARIANT: the loop has the read and the timer event of every live      *)
(* session, each in memory of its own, and nothing else; and no memory is  *)
(* taken by anything else, so none leaks (rmilter_session_start against    *)
(* rmilter_session_dtor).                                                  *)
LoopHoldsSessions ==
  /\ \A s \in Live :
       /\ read_ev[s] \in Blocks /\ mem[read_ev[s]] = L!Event("read", s, 0)
       /\ timeout_ev[s] \in Blocks /\ mem[timeout_ev[s]] = L!Event("timer", s, IoTimeout)
  /\ \A b \in Blocks : mem[b] = L!Free <=> b \notin active
  /\ \A b \in active : \E s \in Live : b \in {read_ev[s], timeout_ev[s]}

(* INVARIANT: what the loop has collected is about the session that is     *)
(* called back: its timer was started io_timeout ago, its descriptor is    *)
(* ready, although sessions end in the middle of a turn and their memory   *)
(* and descriptors are used again.                                         *)
CollectedForSession ==
  \A s \in Live :
    /\ timeout_ev[s] \in pending => age[s] = IoTimeout
    /\ read_ev[s] \in pending => sock[fd[s]] # "quiet"

(* INVARIANT: no event is called back after it or its session was freed.   *)
NothingStale == \A b \in pending : ~Stale(b)

(* A function of the library is at work that closes session s.             *)
Ending(s) == \E i \in 1 .. Len(stack) : stack[i].s = s /\ stack[i].fn # "destroy"

(* INVARIANT: the end of every live session is under way: it is being      *)
(* closed, or its timer was collected and has yet to be called back, or    *)
(* that timer is in the loop and due io_timeout after the session began,   *)
(* not later, although the loop has armed it again, other sessions ended   *)
(* meanwhile, and callbacks opened new ones (session.c:154).               *)
EndIsScheduled ==
  \A s \in Live :
    /\ timeout_ev[s] \in active
    /\ \/ Ending(s)
       \/ timeout_ev[s] \in pending
       \/ age[s] + left[timeout_ev[s]] = IoTimeout

(* INVARIANT: a milter leaves nothing behind: when its memory is freed the *)
(* loop has no event of it any more, collected or not, every piece of      *)
(* memory is free and every descriptor it was given is closed, whichever   *)
(* way its sessions ended (librmilter.c:45-58, 80, 95-107).                *)
NothingRemains ==
  mst = "freed" =>
    /\ queue = <<>>
    /\ active = {} /\ pending = {}
    /\ \A b \in Blocks : mem[b] = L!Free
    /\ \A f \in FDs : owner[f] # "milter"

(* PROPERTY: a milter in this loop behaves as Milter says, its fairness    *)
(* included: that a timer which stays registered fires is not assumed here *)
(* but follows from a loop that turns and a clock that advances.           *)
ImplementsMilter == FairSpec

-----------------------------------------------------------------------------
(* The inductive invariant behind the invariants above.                    *)

(* The timer of a session is due when the session has its age, or it was   *)
(* collected and has begun again.                                          *)
TimersRun ==
  \A s \in Live :
    /\ left[timeout_ev[s]] \in 0 .. IoTimeout
    /\ age[s] + left[timeout_ev[s]] >= IoTimeout

LoopIInv == LoopTypeOK /\ LoopHoldsSessions /\ TimersRun /\ CollectedForSession
=============================================================================
