------------------------------- MODULE Milter -------------------------------
(***************************************************************************)
(* A milter, its sessions and the event loop that drives them:             *)
(* librmilter.c, session.c and the reference counts of ref.h.              *)
(*                                                                         *)
(* Everything runs in one thread, the one of the event loop, but a         *)
(* callback of the application runs in the middle of a library function    *)
(* and may call the library again.  `stack' holds the library functions    *)
(* that are in the middle of such a call, the innermost first; an action   *)
(* is what runs from one of these points to the next.  The application     *)
(* acts between two events (empty stack) or from inside a callback.        *)
(*                                                                         *)
(* The bytes of the protocol are in CommandParser; here a read returns     *)
(* nothing (rmilter_session_want_read passes the length of an empty        *)
(* buffer) or fails.  A read interrupted by a signal is repeated at once   *)
(* and changes nothing.                                                    *)
(***************************************************************************)
EXTENDS Integers, FiniteSets, SequencesExt

CONSTANTS
  Sessions,     \* the sessions there may ever be
  FDs,          \* file descriptors; the numbers are used again
  NoFd,         \* the descriptor of a session that has not been created
  UserData,     \* opaque pointers the application passes
  NoData,       \* the null pointer
  CallbackMay,  \* what callbacks of the application call in the library
  Binding       \* what the event binding does with an event it was never
                \* given: "ignores" it, or "frees" it as the bundled ones do

ASSUME SessionsAssumption == IsFiniteSet(Sessions)
ASSUME FdAssumption == NoFd \notin FDs
ASSUME DataAssumption == NoData \notin UserData
ASSUME CallbackAssumption == CallbackMay \subseteq {"consume", "destroy"}
ASSUME BindingAssumption == Binding \in {"ignores", "frees"}

VARIABLES
  cb,           \* m->cb, m->log: which optional callbacks, and whether a log
                \* function, the application has set
  mst,          \* the milter's memory
  ref,          \* m->ref.refcount
  wanna_die,    \* m->wanna_die
  held,         \* the application's reference has not been released
  queue,        \* m->sessions; the head, where sessions are pushed, is first
  st,           \* the memory of each session
  fd,           \* s->fd
  ud,           \* s->ud
  given,        \* history: the ud argument of rmilter_consume_socket
  owner,        \* who has to close a descriptor
  sock,         \* what a read of a descriptor would meet
  events,       \* the events registered in the loop: <<session, kind>>
  stack,        \* the library functions that wait for a callback
  closes,       \* history: how often each session's close callback was called
  fault         \* undefined behaviour or a failed assertion; then all stops

milterVars == <<mst, ref, wanna_die, held>>
sessionVars == <<queue, st, fd, ud, given, events, closes>>
fdVars == <<owner, sock>>
vars == <<cb, milterVars, sessionVars, fdVars, stack, fault>>

Kinds == {"read", "timer"}

Frame(f, s) == [fn |-> f, s |-> s]
Frames == [fn : {"abort", "log", "close", "destroy"}, s : Sessions]

Live == {s \in Sessions : st[s] = "live"}
Freed == {s \in Sessions : st[s] = "freed"}

(* A callback of the application is running; messages go to its log        *)
(* function, if it has set one, in the middle of the library's functions.  *)
InCallback ==
  /\ stack # <<>>
  /\ \/ Head(stack).fn = "abort"
     \/ Head(stack).fn = "log" /\ cb.log
     \/ Head(stack).fn = "close" /\ cb.close

(* The application may call the library function `op'.                     *)
Calls(op) ==
  /\ fault = "none"
  /\ stack = <<>> \/ (InCallback /\ op \in CallbackMay)

(* The event loop may dispatch the event of that kind of session s.        *)
Dispatches(s, kind) ==
  /\ fault = "none"
  /\ stack = <<>>
  /\ <<s, kind>> \in events

-----------------------------------------------------------------------------
Init ==
  /\ cb \in [abort : BOOLEAN, log : BOOLEAN, close : BOOLEAN]
  /\ mst = "absent" /\ ref = 0 /\ wanna_die = FALSE /\ held = FALSE
  /\ queue = <<>>
  /\ st = [s \in Sessions |-> "new"]
  /\ fd = [s \in Sessions |-> NoFd]
  /\ ud = [s \in Sessions |-> NoData]
  /\ given = [s \in Sessions |-> NoData]
  /\ closes = [s \in Sessions |-> 0]
  /\ events = {}
  /\ owner = [f \in FDs |-> "closed"]
  /\ sock = [f \in FDs |-> "quiet"]
  /\ stack = <<>>
  /\ fault = "none"

(* rmilter_create: the application gets the first reference.               *)
Create ==
  /\ Calls("create")
  /\ mst = "absent"
  /\ mst' = "live"
  /\ ref' = 1
  /\ held' = TRUE
  /\ UNCHANGED <<cb, wanna_die, sessionVars, fdVars, stack, fault>>

(* The application accepts a connection, or closes one that it did not     *)
(* hand over.                                                              *)
Accept(f) ==
  /\ fault = "none" /\ stack = <<>>
  /\ owner[f] = "closed"
  /\ owner' = [owner EXCEPT ![f] = "app"]
  /\ sock' = [sock EXCEPT ![f] = "quiet"]
  /\ UNCHANGED <<cb, milterVars, sessionVars, stack, fault>>

AppCloses(f) ==
  /\ fault = "none" /\ stack = <<>>
  /\ owner[f] = "app"
  /\ owner' = [owner EXCEPT ![f] = "closed"]
  /\ UNCHANGED <<cb, milterVars, sessionVars, sock, stack, fault>>

(* The mail server sends, shuts its side down or resets the connection.    *)
Peer(f, x) ==
  /\ fault = "none"
  /\ owner[f] # "closed"
  /\ \/ sock[f] = "quiet" /\ x \in {"data", "eof", "error"}
     \/ sock[f] = "data" /\ x = "error"
  /\ sock' = [sock EXCEPT ![f] = x]
  /\ UNCHANGED <<cb, milterVars, sessionVars, owner, stack, fault>>

(* REF_RETAIN of the milter, and its mutations.                            *)
RetainForgotten == ref
RetainedTwice == ref + 2
Retained == ref + 1

(* The milter takes new sessions; mutation: also while it is destroyed.    *)
AcceptsAlways == TRUE
Accepts == ~wanna_die

(* The events rmilter_session_start adds; mutation: no timer.              *)
AddedRead(s) == {<<s, "read">>}
Added(s) == {s} \X Kinds

(* rmilter_consume_socket, with rmilter_session_start: a milter that is    *)
(* being destroyed refuses, otherwise the session takes the descriptor, a  *)
(* reference on the milter and the head of the queue, and gets a read and  *)
(* a timer event.  The ud argument is stored nowhere.                      *)
Consume(s, f, u) ==
  /\ Calls("consume")
  /\ mst = "live" /\ held
  /\ owner[f] = "app"
  /\ st[s] = "new"
  /\ Accepts
  /\ st' = [st EXCEPT ![s] = "live"]
  /\ fd' = [fd EXCEPT ![s] = f]
  /\ given' = [given EXCEPT ![s] = u]
  /\ owner' = [owner EXCEPT ![f] = "milter"]
  /\ ref' = Retained
  /\ queue' = Cons(s, queue)
  /\ events' = events \cup Added(s)
  /\ UNCHANGED <<cb, mst, wanna_die, held, ud, closes, sock, stack, fault>>

ConsumeRefused(f) ==
  /\ Calls("consume")
  /\ mst = "live" /\ held
  /\ owner[f] = "app"
  /\ ~Accepts
  /\ UNCHANGED vars

-----------------------------------------------------------------------------
(* rmilter_session_close is called with `rest' below it; it begins with a  *)
(* message, which follows that of the caller, if there is one, at once.    *)
CallLog(s, rest) == stack' = Cons(Frame("log", s), rest)

(* Mutations of CallClose: a dying milter does not call back; the callback *)
(* is called again later on.                                               *)
CallCloseUnlessDying(s, rest) ==
  /\ stack' = Cons(Frame("close", s), rest)
  /\ closes' = [closes EXCEPT ![s] = @ + (IF cb.close /\ ~wanna_die THEN 1 ELSE 0)]
CallCloseTwice(s, rest) ==
  /\ stack' = Cons(Frame("close", s), rest)
  /\ closes' = [closes EXCEPT ![s] = @ + (IF cb.close THEN 2 ELSE 0)]

(* The close callback is called, if there is one.                          *)
CallClose(s, rest) ==
  /\ stack' = Cons(Frame("close", s), rest)
  /\ closes' = [closes EXCEPT ![s] = @ + (IF cb.close THEN 1 ELSE 0)]

(* rmilter_process_timer.                                                  *)
ProcessTimer(s) ==
  /\ Dispatches(s, "timer")
  /\ CallLog(s, <<>>)
  /\ UNCHANGED <<cb, milterVars, sessionVars, fdVars, fault>>

(* rmilter_process_read: the buffer's length is 0, so read() returns 0     *)
(* whatever there is to read.                                              *)
ReadZero(s) ==
  /\ Dispatches(s, "read")
  /\ sock[fd[s]] # "quiet"
  /\ CallLog(s, <<>>)
  /\ UNCHANGED <<cb, milterVars, sessionVars, fdVars, fault>>

(* read() may also report a pending error.  The abort callback is called   *)
(* without a check that there is one.                                      *)
ReadFails(s) ==
  /\ Dispatches(s, "read")
  /\ sock[fd[s]] = "error"
  /\ IF cb.abort
     THEN stack' = <<Frame("abort", s)>> /\ UNCHANGED fault
     ELSE fault' = "null_call" /\ UNCHANGED stack
  /\ UNCHANGED <<cb, milterVars, sessionVars, fdVars>>

(* The abort callback returns; the error is logged and the session closed. *)
AbortReturns ==
  /\ fault = "none" /\ stack # <<>> /\ Head(stack).fn = "abort"
  /\ LET s == Head(stack).s IN
       IF st[s] = "live"
       THEN CallLog(s, Tail(stack)) /\ UNCHANGED fault
       ELSE fault' = "use_after_free" /\ UNCHANGED stack
  /\ UNCHANGED <<cb, milterVars, sessionVars, fdVars>>

(* The log function returns; rmilter_session_close looks for s->m->cb.     *)
LogReturns ==
  /\ fault = "none" /\ stack # <<>> /\ Head(stack).fn = "log"
  /\ LET s == Head(stack).s IN
       IF st[s] = "live"
       THEN CallClose(s, Tail(stack)) /\ UNCHANGED fault
       ELSE fault' = "use_after_free" /\ UNCHANGED <<stack, closes>>
  /\ UNCHANGED <<cb, milterVars, queue, st, fd, ud, given, events, fdVars>>

(* Mutation of ReleaseMilter: two references are released.                 *)
ReleaseMilterTwice(q) ==
  /\ ref' = ref - 2
  /\ mst' = IF ref \in {1, 2} /\ q = <<>> THEN "freed" ELSE mst
  /\ fault' = IF ref \in {1, 2} /\ q # <<>> THEN "assert" ELSE fault

(* REF_RELEASE of the milter when its queue is q, with rmilter_milter_dtor *)
(* and its assertion.                                                      *)
ReleaseMilter(q) ==
  /\ ref' = ref - 1
  /\ mst' = IF ref = 1 /\ q = <<>> THEN "freed" ELSE mst
  /\ fault' = IF ref = 1 /\ q # <<>> THEN "assert" ELSE fault

(* s->parent_link, and the queue without that link.                        *)
LinkOf(s) == CHOOSE i \in DOMAIN queue : queue[i] = s

(* Mutations of Unlinked: the link stays, or the tail is taken.            *)
StaysLinked(s) == queue
TailUnlinked(s) == Front(queue)
Unlinked(s) == RemoveAt(queue, LinkOf(s))

(* The events the destructor deletes; mutation: the timer is forgotten.    *)
DeletedRead(s) == {<<s, "read">>}
Deleted(s) == {s} \X Kinds

(* close() of the session's descriptor; mutation: it stays open.           *)
LeftOpen(s) == owner
Closed(s) == [owner EXCEPT ![fd[s]] = "closed"]

(* The only reference on a session is released: rmilter_session_dtor.      *)
SessionDtor(s) ==
  /\ events' = events \ Deleted(s)
  /\ owner' = Closed(s)
  /\ queue' = Unlinked(s)
  /\ st' = [st EXCEPT ![s] = "freed"]
  /\ ReleaseMilter(queue')

(* rmilter_session_close from its callback on.  del_read and del_timer get *)
(* their arguments the wrong way round, the event loop in the place of the *)
(* event, so what follows is up to the binding.  The destructor deletes    *)
(* both events again, properly.                                            *)
CloseReturns ==
  /\ fault = "none" /\ stack # <<>> /\ Head(stack).fn = "close"
  /\ LET s == Head(stack).s IN
       \/ /\ st[s] = "live" /\ Binding = "ignores"
          /\ SessionDtor(s)
          /\ stack' = Tail(stack)
       \/ /\ st[s] = "live" /\ Binding = "frees"
          /\ fault' = "loop_freed"
          /\ UNCHANGED <<mst, ref, events, owner, queue, st, stack>>
       \/ /\ st[s] # "live"
          /\ fault' = "use_after_free"
          /\ UNCHANGED <<mst, ref, events, owner, queue, st, stack>>
  /\ UNCHANGED <<cb, wanna_die, held, fd, ud, given, closes, sock>>

-----------------------------------------------------------------------------
(* rmilter_destroy up to the close of the first session it meets, the one  *)
(* at the tail.  Without sessions it runs to its end.                      *)
Destroy ==
  /\ Calls("destroy")
  /\ mst = "live" /\ held /\ ~wanna_die
  /\ wanna_die' = TRUE
  /\ IF queue = <<>>
     THEN /\ held' = FALSE
          /\ ReleaseMilter(queue)
          /\ UNCHANGED stack
     ELSE /\ CallLog(Last(queue), Cons(Frame("destroy", Last(queue)), stack))
          /\ UNCHANGED <<held, mst, ref, fault>>
  /\ UNCHANGED <<cb, sessionVars, fdVars>>

(* rmilter_session_close returns to rmilter_destroy, which follows `next'  *)
(* of the link the destructor has freed: the null it held, which ends the  *)
(* loop, or whatever is in that memory by now.                             *)
DestroyAdvances ==
  /\ fault = "none" /\ stack # <<>> /\ Head(stack).fn = "destroy"
  /\ \/ /\ held' = FALSE
        /\ ReleaseMilter(queue)
        /\ stack' = Tail(stack)
     \/ /\ fault' = "wild_link"
        /\ UNCHANGED <<mst, ref, held, stack>>
  /\ UNCHANGED <<cb, wanna_die, sessionVars, fdVars>>

-----------------------------------------------------------------------------
Application ==
  \/ Create
  \/ Destroy
  \/ \E f \in FDs : Accept(f) \/ AppCloses(f) \/ ConsumeRefused(f)
  \/ \E s \in Sessions, f \in FDs, u \in UserData : Consume(s, f, u)

Returns == AbortReturns \/ LogReturns \/ CloseReturns \/ DestroyAdvances

Next ==
  \/ Application
  \/ \E f \in FDs, x \in {"data", "eof", "error"} : Peer(f, x)
  \/ \E s \in Sessions : ProcessTimer(s) \/ ReadZero(s) \/ ReadFails(s)
  \/ Returns

Spec == Init /\ [][Next]_vars

(* A timer that is registered fires, and callbacks return.  Nobody is      *)
(* obliged to send, to connect or to destroy the milter.                   *)
Fairness ==
  /\ WF_vars(Returns)
  /\ \A s \in Sessions : WF_vars(ProcessTimer(s))

FairSpec == Spec /\ Fairness

-----------------------------------------------------------------------------
TypeOK ==
  /\ cb \in [abort : BOOLEAN, log : BOOLEAN, close : BOOLEAN]
  /\ mst \in {"absent", "live", "freed"}
  /\ ref \in Nat
  /\ wanna_die \in BOOLEAN
  /\ held \in BOOLEAN
  /\ queue \in Seq(Sessions)
  /\ st \in [Sessions -> {"new", "live", "freed"}]
  /\ fd \in [Sessions -> FDs \cup {NoFd}]
  /\ ud \in [Sessions -> UserData \cup {NoData}]
  /\ given \in [Sessions -> UserData \cup {NoData}]
  /\ closes \in [Sessions -> Nat]
  /\ events \subseteq Sessions \X Kinds
  /\ owner \in [FDs -> {"closed", "app", "milter"}]
  /\ sock \in [FDs -> {"quiet", "data", "eof", "error"}]
  /\ stack \in Seq(Frames)
  /\ fault \in {"none", "null_call", "use_after_free", "assert", "wild_link",
                "loop_freed"}

(* INVARIANT: the milter's memory is there exactly as long as somebody     *)
(* needs it, and its count is the application plus one per live session    *)
(* (REF_RETAIN in rmilter_consume_socket against REF_RELEASE in the        *)
(* destructor and in rmilter_destroy).                                     *)
RefCountExact ==
  /\ mst = "live" <=> held \/ Live # {}
  /\ mst = "live" => ref = Cardinality(Live) + (IF held THEN 1 ELSE 0)

(* INVARIANT: the milter's queue holds each live session once and no dead  *)
(* one (push_head and parent_link against g_queue_delete_link).            *)
QueueHoldsLive == Range(queue) = Live /\ IsInjective(queue)

(* INVARIANT: the loop has both events of each live session and none of a  *)
(* dead one, which it would hand to rmilter_process_read or _timer.        *)
EventsHoldLive == events = Live \X Kinds

(* INVARIANT: a descriptor that was handed over belongs to exactly one     *)
(* live session, so it is closed once and never leaks, although the        *)
(* numbers are used again.                                                 *)
DescriptorsOwned ==
  /\ \A s \in Live : fd[s] \in FDs /\ owner[fd[s]] = "milter"
  /\ \A s, t \in Live : fd[s] = fd[t] => s = t
  /\ \A f \in FDs : owner[f] = "milter" => \E s \in Live : fd[s] = f

(* INVARIANT: a session tells the application of its end once, by the time *)
(* it is freed, whichever of the read, the timer and rmilter_destroy ends  *)
(* it.  Holds if callbacks do not destroy the milter.                      *)
ClosedOnce ==
  \A s \in Sessions :
    closes[s] = IF cb.close /\ (st[s] = "freed" \/ Frame("close", s) \in Range(stack))
                THEN 1 ELSE 0

(* INVARIANT: when the program is back in its loop, a session that ended   *)
(* has called its close callback once and a live one has not, whatever the *)
(* callbacks do.  One that destroys the milter may be called a second time *)
(* for its own session (rmilter_destroy closes it again), but does not get *)
(* back to the loop then.                                                  *)
ToldOnceInLoop ==
  fault = "none" /\ stack = <<>> =>
    \A s \in Sessions : closes[s] = IF cb.close /\ st[s] = "freed" THEN 1 ELSE 0

(* INVARIANT: the assertion of rmilter_milter_dtor never fails, no session *)
(* is used after it was freed unless the application destroys the milter   *)
(* from inside a callback, and what else goes wrong needs a missing abort  *)
(* callback, rmilter_destroy with sessions, or a binding that frees what   *)
(* it does not know.                                                       *)
FaultsExplained ==
  /\ fault # "assert"
  /\ fault = "use_after_free" => wanna_die /\ "destroy" \in CallbackMay
  /\ fault = "null_call" => ~cb.abort
  /\ fault = "wild_link" => wanna_die
  /\ fault = "loop_freed" => Binding = "frees"

Phase == CASE mst = "absent" -> "absent"
           [] mst = "freed" -> "gone"
           [] mst = "live" -> IF wanna_die THEN "closing" ELSE "serving"

(* PROPERTY: the milter and its sessions live as MilterLife says: nothing  *)
(* opens after rmilter_destroy was called, nothing comes back, and the     *)
(* milter outlives its sessions.                                           *)
Life == INSTANCE MilterLife
          WITH phase <- Phase, open <- Live, ended <- Freed
ImplementsLife == Life!Spec

(* PROPERTY: every session ends, also with a peer that never says a word   *)
(* (the timer of rmilter_session_start).                                   *)
SessionsEnd ==
  \A s \in Sessions : st[s] = "live" ~> (st[s] = "freed" \/ fault # "none")

(* PROPERTY: a milter that was destroyed is freed in the end, also if      *)
(* sessions survive the call (the references of librmilter.c:142, 193).    *)
MilterGoes == wanna_die ~> (mst = "freed" \/ fault # "none")

(* PROPERTY: a close callback that destroys the milter while it serves the *)
(* oldest session is called a second time, and does not get away with it.  *)
SecondCloseIsFatal ==
  \A s \in Sessions : closes[s] > 1 ~> fault # "none"

-----------------------------------------------------------------------------
(* The inductive invariant behind the invariants above.                    *)

(* The application gives its reference up only in rmilter_destroy.         *)
HeldUntilDestroyed ==
  /\ mst = "absent" => ~wanna_die
  /\ mst # "absent" => held \/ wanna_die

(* At most one rmilter_destroy is under way, with its reference in hand.   *)
OneDestroy ==
  /\ \A i \in 1 .. Len(stack) : stack[i].fn = "destroy" => held /\ wanna_die
  /\ \A i, j \in 1 .. Len(stack) :
       stack[i].fn = "destroy" /\ stack[j].fn = "destroy" => i = j

(* The application destroys the milter from inside a callback.             *)
Reentered == wanna_die /\ "destroy" \in CallbackMay

(* Otherwise the one callback that runs is the innermost function's, and   *)
(* its session is alive.                                                   *)
StackSound ==
  \A i \in 1 .. Len(stack) :
    stack[i].fn # "destroy" =>
      Reentered \/ (i = 1 /\ st[stack[i].s] = "live")

IInv ==
  /\ TypeOK
  /\ RefCountExact
  /\ QueueHoldsLive
  /\ EventsHoldLive
  /\ DescriptorsOwned
  /\ HeldUntilDestroyed
  /\ OneDestroy
  /\ StackSound
  /\ FaultsExplained

-----------------------------------------------------------------------------
(* Statements of the comments and the headers that the code does not keep. *)

(* INVARIANT: librmilter.h:201, rmilter_destroy "Destroys milter and all   *)
(* its sessions".                                                          *)
DestroyEndsSessions == wanna_die /\ ~held => Live = {}

(* PROPERTY: session.c:116, a read of 0 bytes "means that server has       *)
(* nothing to pass or end-of-session".                                     *)
ZeroMeansNothingToRead ==
  [][\A s \in Sessions : ReadZero(s) => sock[fd[s]] # "data"]_vars

(* INVARIANT: librmilter.h:138, del_read takes the loop first and the      *)
(* event second: deleting the events of a session does not harm the loop.  *)
LoopSurvives == fault # "loop_freed"

(* INVARIANT: librmilter.h:189, "User data for the new session is passed   *)
(* using opaque pointer": a close callback gets what the session was       *)
(* created with.                                                           *)
UserDataReachesCallback ==
  (InCallback /\ Head(stack).fn # "log" /\ st[Head(stack).s] = "live")
     => ud[Head(stack).s] = given[Head(stack).s]
=============================================================================
