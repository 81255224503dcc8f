# A verification project for librmilter

librmilter is a C library, "not even in alpha state" (`src/README.md`), that
lets a program speak the Sendmail milter protocol. The program accepts the
connections of a mail server and hands each descriptor to the library, which
reads the commands of the protocol from it inside an event loop of the
program's choice. This directory holds TLA+ modules for the parts of the
library that have behaviour, TLC configurations that check them, and proofs
that TLAPS checks. Line numbers refer to the files under `src/`.

## 1. Inventory

| part | files | state | operations |
|---|---|---|---|
| milter | `src/librmilter.c`, `src/librmilter_internal.h:74-83` | queue of sessions, `wanna_die`, reference count, callbacks, binding | `rmilter_create`, `rmilter_consume_socket`, `rmilter_destroy`, `rmilter_milter_dtor` |
| session | `src/session.c`, `src/librmilter.c:37-93`, `src/librmilter_internal.h:56-72` | descriptor, two events, link in the queue, user data, reference count (always 1) | `rmilter_session_start`, `_want_read`, `_close`, `_dtor`; entered by `rmilter_process_read`, `rmilter_process_timer` |
| command reader | `src/session.c:35-95` | `state`, `cmd.cmd`, `cmd.cmdlen`, `cmd.data` | `rmilter_session_state_machine`, once per read |
| reference counts | `src/ref.h` | `refcount`, `dtor` | `REF_INIT_RETAIN`, `REF_RETAIN`, `REF_RELEASE` |
| libev binding | `include/libmilter_ev.h` | one `ev_io` or `ev_timer` per event | add, delete, stop, start, repeat |
| libevent binding | `include/librmilter_event.h` | one `struct event` per event | the same |
| logging | `src/logger.c`, `src/logger.h` | none | formats, and calls the application's log function or prints to stderr |
| lists | `src/utlist.h` (macros of a third party, part of this source tree) | `next` and `prev` in the elements, the variable that holds the head | prepend, append, join, delete, replace, walk, sort, for three kinds of lists; the library itself has one loop over an always empty list |
| write path, dispatch, macros, replies | `src/session.c:125-129`, `include/librmilter.h:82-128`, `src/librmilter_internal.h:50-54` | declared, never filled | empty or absent |

How they interact. The application calls the three public functions. The
milter asks the binding for a read and a timer event per session
(`session.c:153-155`); the loop calls `rmilter_process_read` or
`rmilter_process_timer` with the session as argument; the session calls the
application's `abort` and `close` callbacks and, through `rmilter_logger_helper`,
its log function, asks the binding to delete the
events, and releases itself; its destructor unlinks it from the queue of the
milter, closes the descriptor and releases the milter. Everything runs in the
thread of the loop, so there is no preemption, but every callback is a point
where the application may call the library again in the middle of one of its
functions, and the events of several sessions come in any order.

What is hard here:

* the body of a command arrives in reads of any size, and the reader has no
  variable that says how much of the body is still missing;
* sessions end for three independent reasons (peer, timer, `rmilter_destroy`),
  each with a callback in the middle;
* `rmilter_destroy` returns with sessions alive, and the milter must live as
  long as they do;
* descriptors and memory are used again after they were closed and freed;
* the loop calls back for events it collected some time before, and the
  functions it calls delete events, also those it has collected;
* a message is an innocent line in the code, but its log function may destroy
  the session the message is about;
* a list macro changes up to four pointers, with a case of its own for the
  first, the last and the only element.

What makes the parts correct: the reader delivers the commands on the wire,
each once, unaltered, in order; a session gets exactly one `close` callback,
closes its descriptor once, and leaves neither an event nor a link behind; the
milter is freed when nobody refers to it, and not before; everything ends. A
binding calls back what was added, with its user data and not before its time,
and nothing that was deleted; timers that are left alone keep firing. A list is
at any time, forwards and backwards, the sequence the calls of its macros ask
for, and a walk meets each element once.

## 2. Modules

| module | models |
|---|---|
| `Framing` | abstract: what reading commands promises, whatever the sizes of the reads |
| `CommandParser` | `rmilter_session_state_machine`; implements `Framing` |
| `CommandParser_proofs` | its theorems |
| `MilterLife` | abstract: what an application may rely on about the life of a milter and its sessions |
| `Milter` | milter, sessions, events, descriptors, reference count, callbacks; implements `MilterLife` |
| `Milter_proofs` | its theorems |
| `MilterLoop` | `Milter` and `EventLoop` together: a milter in a loop with turns, memory and a clock; implements `Milter` |
| `MilterLoop_proofs` | its theorems |
| `AsyncContract` | abstract: what the library relies on when it calls `struct rmilter_async_context` |
| `EventLoop` | the loop of libev or libevent, and what both bindings do alike |
| `LibevBinding`, `LibeventBinding` | the functions of the two headers, by their names |
| `Bindings` | a program that chooses one of them; implements `AsyncContract` |
| `Bindings_proofs` | its theorems |
| `ListShape` | specification: what the pointers of a list look like that holds a given sequence |
| `Utlist` | the macros of `utlist.h` that change a list, and `_FOREACH_SAFE` |
| `UtlistSort` | its three sorts, for the program of `Utlist` |
| `UtlistMacros_proofs` | what each macro does to the pointers of a list: the lemmas of the next |
| `Utlist_proofs` | theorems about the lists of all three kinds and the walks |
| `UtlistSort_proofs` | theorems about the sorts |
| `MCCommandParser`, `MCMilter`, `MCMilterLoop`, `MCBindings`, `MCUtlist` | instances for TLC |

### CommandParser

`wire` is everything the peer sends on one connection; `end` bytes of it have
been read and `pos` have been consumed. `Deliver` is the call of the function
with the bytes of one read, possible only when the previous call has returned;
then each action is one iteration of the loop: one per case of the switch
(`ReadCmd`, `ReadLen1` to `ReadLen4`, `ReadData`). The model computes with
bytes and lengths, since the properties are about them; the bitwise `|=` is a
sum because the bits are still zero. `start`, `frames` and `split` are history:
where the current command begins, what was found complete (the code drops it),
and whether a read ended inside the current body.

The caller at `session.c:102` passes a length of 0 to `read()`, so at this
commit no byte reaches the reader. `CommandParser` is about the function,
for every sequence of buffers it can be given; `Milter` is about the caller.

### Milter

One variable per field that has behaviour: `ref`, `wanna_die`, `queue`, and per
session `st` (its memory), `fd`, `ud`. `held` says that the application has
not released its reference, `owner` who must close a descriptor, `sock` what
a read would meet, `events` which events the loop has. `given` and `closes`
are history.

`stack` holds the functions of the library that are in the middle of a call to
the application, innermost first. A function that calls back is therefore two
actions, up to the callback and from it on. Every way to `rmilter_session_close`
begins with a message: `ProcessTimer`, `ReadZero`, `AbortReturns` and `Destroy`
push a `log` frame; when the log function returns, `LogReturns` calls the
`close` callback; and `CloseReturns` runs the rest of `rmilter_session_close`
with the destructor. `ReadFails` pushes an `abort` frame; `DestroyAdvances` is
what `rmilter_destroy` does when the close of the first session returns. Where
two messages follow each other with nothing in between (that of the caller and
that of the close), one frame stands for both. `cb` says which of the callbacks
the application has set, its log function among them; one that is not
set calls nothing (`abort` is called all the same, which is a fault). The events of the loop come only with an
empty stack. `CallbackMay` says which functions callbacks call:
`rmilter_consume_socket`, `rmilter_destroy`, both or none.

Undefined behaviour and failed assertions set `fault`, after which nothing
happens any more. There are five: a call of an `abort` callback that is not
set; a use of a freed session; the assertion of `rmilter_milter_dtor`; the
null or wild pointer that `rmilter_destroy` finds in a freed link (both are
outcomes of `DestroyAdvances`); and a binding that frees the loop because
`rmilter_session_close` swaps the arguments of `del_read` (`Binding =
"frees"`, as the bundled ones; with "ignores" it is one that looks the event
up and does not know it).

Left out: the bytes (see above), a read interrupted by a signal (repeated at
once, changes nothing), time (a registered timer may fire at any moment; the
clock is in `MilterLoop`), the write event (never created), the text of the
messages, the session's own count (1 from `rmilter_consume_socket` to the
release in `rmilter_session_close`).

### MilterLoop

In `Milter` an event of the set `events` may fire at any moment. `MilterLoop`
keeps that set and adds what is below it: the memory of the events, the handles
`read_ev` and `timeout_ev` of the sessions, and the loop of `EventLoop`
(`INSTANCE` with sessions as user data). Each action is one of `Milter`
joined with what the binding and the loop do meanwhile: `ConsumeAttaches` takes
two free pieces of memory and adds both events, `CloseDetaches` stops and frees
them, also if they were collected (`Detached`), and `CallsLibrary` is the call-back
of one collected event, which enters `rmilter_process_timer` or
`rmilter_process_read` of the session it finds in that memory. `TurnBegins` and
`TimePasses` are the loop's own steps, which `Milter` does not see; between two
call-backs of a turn the application may do anything. A call-back for a freed
event or session sets the fault `use_after_free` (`Stale`), so that the
theorem which excludes it has something to say. `age` is history: how long
ago a session was started.

The loop is the part of the bindings that both do alike: a read event is made
and added, a timer event repeats every `IoTimeout` ticks, deleting stops and frees.
What the swapped arguments of `rmilter_session_close` do stays a matter of `Binding`.

### EventLoop, LibevBinding, LibeventBinding, Bindings

`mem` is the memory, in pieces: a piece is free, holds an event (`ev_io`,
`ev_timer`, `struct event` with its callback and data), or the data of a
periodic callback, which `rmilter_libev_add_periodic` allocates in addition and
returns as the handle. A freed piece may be the next one allocated, which is
what makes a stale reference dangerous. `active` are the events of the loop,
`left` the ticks until a timer is due, `pending` the events collected in this
turn and not yet called back.

The loop is external code and modelled by what the bindings use of it. `Collect`
begins a turn: the loop looks at every event it has, takes all timers that are
due and any descriptors, and arms the timers again, which both bindings ask for
(`ev_timer_init (.., after, after)`, `EV_PERSIST`). `CallsBack` takes them one
after the other, in any order. Between two of these steps the program may call
any function of the binding, as the functions of librmilter do from inside their
callbacks; stopping an event also removes it from `pending`. `Tick` is the
clock; it does not move within a turn, since both libraries work with one reading
of it. For libevent this is version 2, where a persistent event with a
timeout repeats. Intervals are whole ticks and not zero: that
`rmilter_event_double_to_tv` cuts what is less than a microsecond is left out, and
the library has one interval, of ten seconds.

The bindings differ in `repeat_timer`, `stop_event` and `start_event`. libev
casts every handle to one of its watcher types, whichever event it is; libevent
does nothing on `repeat_timer` and adds without a timeout on `start_event`,
so that a timer stopped before never fires again. Taking a timer or the data
of a periodic callback for something else is undefined; the model then stops with
the fault `wrong_type`. The caller's part of the bargain, that it deletes an
event with the function for its kind and not twice, is in the guards
(`Handle`).

`AsyncContract` knows events by handle, with kind, user data, the time left and
whether they are started. `Evs` in `Bindings` is the mapping: the time left of
an event that is collected is 0.

### ListShape, Utlist, UtlistSort

`head`, `next` and `prev` are the pointers; the macros have their own names and
change them in the cases the code distinguishes. `contents` is history: for each
list the sequence of elements its calls ask for, computed with operators on
sequences that know nothing of pointers. `Represents` of `ListShape` compares
the two. A program (`Next`) has lists of one kind and calls any macro with any
arguments that are legal. What is legal no macro tests, so it is in the guards
of the program: an element that is added is in no list, one that is deleted or
named as a neighbour is in this one. (`LL_DELETE` alone looks for its element,
`DeleteMissing`.) An element that was deleted keeps its stale pointers, as in the
code. After `LL_CONCAT` and `DL_CONCAT` the program sets the variable of the
second list to null, since both variables would own the elements; a macro gets
an element in its own variable, not the expression of the head, which the
macros assign before they have read all of the element.

A walk is `_FOREACH_SAFE`: `el`, `tmp` and, in a circular list, `tmp1` are its
variables (`tmp` is the second temporary, `tmp2`, of the circular one). Between two
iterations the program may do what the comment at `utlist.h:590` allows, delete
the element it has come to, and then anything with it, for instance put it at
the head of another list. `todo` is history: what the walk still ought to meet.

In `UtlistSort` an action is an iteration of one of the loops of the merge sort:
`PassBegins` and `PassEnds` of `while (_ls_looping)`, `RunBegins` and `RunEnds`
of `while (_ls_p)`, `Split` of the `for` that looks for the second run, `Merge`
of the loop that takes one element. The three macros differ in how a run is
followed (`After`), in the pointers an element gets (`Appended`) and in how the new
list is closed (`Closed`). `cmp` compares keys, any keys, chosen when the sort begins.
`work` counts iterations; the values that outlive a sort are reset, as they
are the macro's local variables.

The three abstract modules do not model code: they are what `FramesAreExact`,
`ImplementsLife` and `ImplementsContract` compare the code with.

## 3. Runs

| run | cfg | checks | shows |
|---|---|---|---|
| `parser` | `MCCommandParser.cfg` | `TypeOK`, `OverrunNeedsSplitBody`, `NothingLeftBehind`, `NeverSpins`, `FramesAreExact`, `OverrunIsFinal`, `CallReturns` | what is delivered is right, exactly when something is missed, and that every call returns soon |
| `milter` | `MCMilter.cfg` | `TypeOK`, `RefCountExact`, `QueueHoldsLive`, `EventsHoldLive`, `DescriptorsOwned`, `ClosedOnce`, `FaultsExplained`, `ImplementsLife`, `SessionsEnd`, `MilterGoes` | the books agree, and everything ends, with callbacks that open sessions |
| `milter_reentrant` | `MCMilterLoop.cfg` | `RefCountExact`, `ToldOnceInLoop`, `FaultsExplained`, `LoopTypeOK`, `LoopHoldsSessions`, `CollectedForSession`, `NothingStale`, `EndIsScheduled`, `NothingRemains`, `ImplementsLife`, `SecondCloseIsFatal`, `ImplementsMilter` | in a loop that turns, with callbacks that open sessions and destroy the milter, the books agree, a program back in its loop was told once of each end, no call-back is for a session that is gone or for another one, the end of each session is always under way, nothing is left of a freed milter, and what `Milter` assumes of its events is true |
| `lists` | `MCUtlist.cfg` | `SortTypeOK`, `ListsIntact`, `VisitsEach`, `RunsSorted`, `SortIsFast` | every macro leaves the lists it ought to, walks meet each element once, sorts are sorted, stable and fast |
| `bindings` | `MCBindings.cfg` | `TypeOK`, `NothingDangles`, `HandlesOwnEvents`, `ImplementsContract`, `NothingPostpones`, `TimersFire` | either binding calls back what was added and nothing that is gone, and timers are not put off but go on firing |

Seven more runs each check one statement of a comment, a header or the
project's README that the code does not keep; TLC finds it violated:

| run | statement | what happens |
|---|---|---|
| `parser_split` | `session.c:84` "Check if we have read the complete command" | `MIN (cmdlen, end - p)` forgets what is already there: the body is overrun and the stream lost |
| `parser_empty` | the same | a command without a body at the end of a buffer waits for the next byte |
| `parser_64k` | `README.md:21` "up to 64K by protocol definition" | no length is compared with a limit |
| `zero_read` | `session.c:116` "server has nothing to pass or end-of-session" | `read()` with length 0 returns 0 with data waiting |
| `destroy_all` | `librmilter.h:201` "Destroys milter and all its sessions" | only the oldest session is closed |
| `user_data` | `librmilter.h:189` "User data for the new session is passed using opaque pointer" | callbacks get a null pointer |
| `bundled_binding` | `librmilter.h:138` `del_read (priv_data, ev_data)` | the arguments are swapped, the binding frees the loop |

Bounds. `parser`: one to three commands with bodies of 0 to 3 bytes, one that is
followed by two bytes of another, and three that announce more than 255, 65536 and
2^30 bytes, cut in every way (`MaxChunk` is at least the longest header plus body).
The reader has one command in hand at a time, so what it can do wrong shows within
two commands: one that is left in a bad state and one that suffers from it; the
third shows whether it recovers. Each place of a wire has a command byte of its
own, so that a command that is skipped or repeated shows; bodies consist of a byte
that is a plausible length, so a reader out of step finds headers. `milter`: three
sessions, numbered in the order in which they begin (which loses nothing but names),
two descriptors, of which the system hands out the lowest that is free, and one user
data pointer. So two sessions live at the same time, a callback opens one while
others live, and a descriptor is used again. Three live sessions at once, a queue with
a middle, are left to the proofs. Data that waits to be read is not told from the
end of the connection, since a read of no bytes does not tell them apart either (the
run `zero_read` has both), and the application sets all its callbacks or none.
Nothing else needs a bound: the number of sessions bounds every behaviour.
`milter_reentrant`: the same with two sessions, so that one ends in the middle of the
other's turn, four pieces of memory, an allocator that hands out the first free piece
(the one freed last may be it), and an `io_timeout` of two ticks, so that a timer that
begins again within a turn is told from one that is due; the proofs are for every
number, numbering, allocator and choice of callbacks. `bindings`: three pieces of memory, since
a periodic callback takes two and is to meet another event and to leave its memory to
it; two user data, where what is added while the first is in use gets the second, to
tell one event from another; intervals of one tick (`MaxAfter`). A turn may be any
subset of the events, so longer intervals add no order of call-backs; the proofs are
for every interval and any user data. `lists`: five elements in two lists, up to symmetry. Every
case of a macro is reached with three elements in one list; five make a sort
take three passes, with runs of 1, 2 and 4, the last of which is not full; two
keys make equal and unequal pairs in every arrangement.

The runs with liveness properties are kept small on purpose: they are the ones that
take longest for TLC.

`CHECK_DEADLOCK FALSE` in all runs but `lists`: the peer may fall silent, the
application need do nothing, and after a fault the model stops. A program with
lists can always go on, so there a sort that got stuck would be a deadlock.

Fairness. In `CommandParser`, `WF(Step)`: the loop goes on. In `Milter`,
`WF(Returns)`: callbacks of the application return; and `WF(ProcessTimer(s))`:
a loop fires a timer that stays registered, which is what an event loop is for.
Peers, connections and `rmilter_destroy` are not obliged to anything. In
`Bindings`, weak fairness of `Collect` (the program runs the loop) and of the
call-backs (a turn calls back what it collected), and strong fairness of `Tick`:
time passes although the loop may always be in the middle of a turn when one
looks. No function of a binding is fair. `MilterLoop` has the same three, of
`TurnBegins`, `CallsLibrary` and `TimePasses`, and weak fairness of
`LibraryReturns` (callbacks return). It does not assume that a timer fires:
`ImplementsMilter` is `FairSpec` of `Milter`, so the run shows that
`WF(ProcessTimer(s))` follows from a loop that turns and a clock that advances, also
when other call-backs of the same turn come first.

For every property `PROJECT.json` names a plausible mistake in the code that
makes TLC find it violated. The mutated operators (`ToCopyRest`,
`RetainForgotten` and so on) stand before the operator they replace, each with
a word on the mistake; no action uses them.

## 4. Theorems

All are of the specification without fairness, for every value of the constants
that satisfies the named assumptions: `Wires` is a set of byte sequences and
`MaxChunk` a positive number; `Sessions` is finite, `NoFd` is no descriptor,
`NoData` no user data, `CallbackMay` and `Binding` are among the values listed;
`Blocks` is finite and apart from `UserData` (in `MilterLoop`: from `Sessions`),
`NoBlock` is none of them, `MaxAfter` and `IoTimeout` are positive numbers; `Nodes`
is finite, `Null` is neither an element nor a list, and `MaxKey` is a natural
number. `CommandParser`, `Milter`, `Bindings` and `Utlist` call their specification
`Spec`, `MilterLoop` and `UtlistSort` theirs `LoopSpec` and `SortSpec`.

| theorem | states |
|---|---|
| `CommandParser_proofs!TypeCorrect` | `Spec => []TypeOK` |
| `CommandParser_proofs!OverrunSafe` | `Spec => []OverrunNeedsSplitBody` |
| `CommandParser_proofs!NothingLeft` | `Spec => []NothingLeftBehind` |
| `CommandParser_proofs!OverrunFinal` | `Spec => OverrunIsFinal` |
| `CommandParser_proofs!ReaderFrames` | `Spec => FramesAreExact` |
| `CommandParser_proofs!CallsEnd` | `Spec => []NeverSpins /\ IterationsCount` |
| `Milter_proofs!TypeCorrect` | `Spec => []TypeOK` |
| `Milter_proofs!RefCounted` | `Spec => []RefCountExact` |
| `Milter_proofs!QueueSound` | `Spec => []QueueHoldsLive` |
| `Milter_proofs!EventsSound` | `Spec => []EventsHoldLive` |
| `Milter_proofs!DescriptorsSound` | `Spec => []DescriptorsOwned` |
| `Milter_proofs!ToldOnce` | `"destroy" \notin CallbackMay` implies `Spec => []ClosedOnce` |
| `Milter_proofs!ToldOnceOutside` | `Spec => []ToldOnceInLoop` |
| `Milter_proofs!NoOtherFault` | `Spec => []FaultsExplained` |
| `Milter_proofs!MilterLives` | `Spec => ImplementsLife` |
| `MilterLoop_proofs!LoopTypeCorrect` | `LoopSpec => []LoopTypeOK` |
| `MilterLoop_proofs!LoopSound` | `LoopSpec => []LoopHoldsSessions` |
| `MilterLoop_proofs!CollectedSound` | `LoopSpec => []CollectedForSession` |
| `MilterLoop_proofs!StaleFree` | `LoopSpec => []NothingStale` |
| `MilterLoop_proofs!EndScheduled` | `LoopSpec => []EndIsScheduled` |
| `MilterLoop_proofs!NothingLeftOver` | `LoopSpec => []NothingRemains` |
| `MilterLoop_proofs!LoopImplements` | `LoopSpec => Spec` |
| `MilterLoop_proofs!PromisesInLoop` | `LoopSpec => [](RefCountExact /\ ToldOnceInLoop /\ FaultsExplained) /\ ImplementsLife` |
| `Bindings_proofs!TypeCorrect` | `Spec => []TypeOK` |
| `Bindings_proofs!NoDangling` | `Spec => []NothingDangles` |
| `Bindings_proofs!NothingLost` | `Spec => []HandlesOwnEvents` |
| `Bindings_proofs!ContractImplemented` | `Spec => ImplementsContract` |
| `Bindings_proofs!NeverPutOff` | `Spec => NothingPostpones` |
| `Utlist_proofs!TypeCorrect` | `Spec => []TypeOK` |
| `Utlist_proofs!ElementsApart` | `Spec => []Apart` |
| `Utlist_proofs!PointersSound` | `Spec => []Linked` |
| `Utlist_proofs!WalksSound` | `Spec => []VisitsEach` |
| `UtlistSort_proofs!SortTypeCorrect` | `SortSpec => []SortTypeOK` |
| `UtlistSort_proofs!SortsSound` | `SortSpec => []ListsIntact` |
| `UtlistSort_proofs!SortWalksSound` | `SortSpec => []VisitsEach` |
| `UtlistSort_proofs!PassesSound` | `SortSpec => []RunsSorted` |
| `UtlistSort_proofs!SortsFast` | `SortSpec => []SortIsFast` |

The argument for the reader. `IInv` of `CommandParser` adds to the types where
in the current command each state is and what has been added up by then
(`Position`), that `data` is the stretch of the wire between the header and
`pos` (`Gathered`), and that a body no read has cut was filled from one buffer
(`Filling`). With them, the test `cmdlen == data->len` of line 85 is true just
when the command at `start` is complete and `data` its body, so each step is
one of `Framing` or invisible there. The lemma on the copied bytes is what the
case `ReadData` rests on. That a call returns comes down to counting: `Remaining` is
two for each byte not consumed and one for a body in hand, and every iteration
makes it less (`IterationsCount`). The one that could fail is the body that copies
nothing, which must be complete then: `Filling` says that a body which is empty by its header has
nothing in `data`, left over from the command before (`DataMoves`, `NeverSpins`).

The argument for the milter. None of the invariants is inductive by itself:
the exact count needs the queue (the destructor's assertion), the queue needs
the stack (a session is unlinked once), and that needs to know who may be on the
stack. `IInv` adds `HeldUntilDestroyed`, `OneDestroy` (one `rmilter_destroy`
at a time, with its reference in hand) and `StackSound` (unless a callback
destroys the milter, the one function that waits is the innermost one and its
session is alive). There is one lemma per action. The refinement of `MilterLife`
follows from `IInv` before and after the step. `ToldOnce` has an invariant of its own
on top (`Told`): where no callback destroys the milter, only the innermost
function waits for a callback, so the sessions that were told of their end are
the freed ones and the one whose close callback is running. If callbacks may
destroy the milter, a session can be on the stack twice; `Counted` says that each
call of its close callback is still waited for on the stack or is the one that
freed it, so none is left over when the stack is empty (`ToldOnceOutside`, the
safety part of `SecondCloseIsFatal`).

The argument for the milter in its loop. `IInv` of `Milter` and `LoopIInv` are
kept together. With both, every step of `MilterLoop` is one of `Milter` or
invisible there (`LoopStepRefines`), because the memory of a collected event is
still the event of a live session, so that what is called back is in `events`; this
keeps `IInv`, and gives `LoopImplements`. `LoopIInv` says that the loop has exactly the two events of
every live session, each in its own memory, and `TimersRun`: the ticks a
timer has left and the age of its session are together at least `IoTimeout`. So
a timer that is due belongs to a session whose time is up; and since a session
that ends takes what was collected for it along, memory that is handed out again
in the same turn is not in `pending`.

`EndIsScheduled` is what is behind `SessionsEnd` and `ImplementsMilter` without the
fairness. That the timer is not due too early is `TimersRun`; that it is not late is
an equation there, which the loop breaks when it collects the timer and arms it
again. From then on the session's timer is in `pending`, and leaves it by its own
call-back only, which pushes a function that ends the session on the stack
(`EndingBegins`); and such a function gives way only to the next one that does, and the
last of them to the session's destructor, whatever callbacks push on top of it
(`EndsPushed`, `EndsPopped`, `EndingStays`). `NothingRemains` follows from both invariants at the
end: no live sessions, so no links, events, memory or descriptors.

The argument for the bindings. `TypeOK`, `NothingDangles` and
`HandlesOwnEvents` are inductive together: deleting a periodic callback is safe
because the event behind the handle points back to it and nobody else points to
either, so freeing both leaves no reference behind (`FreeStep`); a call-back
finds what it reads because what was collected is in the loop and what is in
the loop is an event. The refinement also needs `LoopSound`: what is not in the
loop has no timeout, and a collected timer has its next interval already. Then
adding is `Add`, deleting is `Del`, a call-back is `Deliver` of the handle that
owns the event, `Collect` is invisible, and so is undefined behaviour, after
which nothing is called back any more. That every handle has its own event
(`EventsApart`) is what keeps a change of one out of the others. `NothingPostpones` is
a case for every step: what is added takes memory that is no event of the loop, what
is deleted is another event, `start_event` of libevent leaves the time an event has,
that of libev takes no timers, and a timer that is armed again has been collected
and is due until it is called back.

The argument for the lists. The macros compute with pointers, the history with
positions. `Shape` says for each position of a list what `next` and `prev` of
its element are; `Insertion`, `Removal` and `Replacement` say which two
pointers have to change if the list gains, loses or changes its `p`-th element,
in a doubly linked and in a circular list; and one lemma per macro shows that it
changes just these, with `p` at the start, at the end or in between, and
nothing outside the list (`Leaves`). That no element is in two lists (`Apart`)
makes every other list survive. For a walk, `WalkSound` says that what it
has not met yet is the end of the list, that `tmp` is the one after the
element it has come to and `tmp1` the last. `LInv` is inductive.

The macros for singly linked lists look for an element in a loop, which is a
recursive function in the model (`Walk`, `StopsAt`). What it returns at each
position is proved as the least counterexample: the natural numbers are well
founded (`Least`), and where the walk first left the list it would have had to leave
it one step before (`WalkMeets`). It follows where each loop stops: at the last
element, or at the predecessor of the one that is looked for (`StopsLast`,
`StopsBefore`). `Nodes` is finite, as memory is, which gives the walk its end.

The argument for the sorts. In the middle of a pass the elements are in two
lists, the new one and what is left of the old one, and the macro only knows `p`,
`q`, `tail` and two sizes. `Stands` says that there is an order `d` of all
elements, first the `k` of the new list, then the rest, such that the pointers
are those of the two lists (`NewList`, `OldList`), elements with equal keys are
in the order they had at the beginning (`InOrder`), and the runs are sorted:
those of `2 * insize` in the new list, those of `insize` in the old
(`AtPass`, `AtRun`, `AtSplit`, `AtMerge`, one for each loop). Within a merge
`Pair` adds that nothing given to the new list is greater than what the two
runs still have. Taking from the first run leaves `d` as it is (`FirstGiven`);
taking from the second moves one element of `d` over what is left of the first run
(`Moved`, `SecondGiven`), which all has greater keys, because `cmp` prefers the first
run when keys are equal: this is where the sort is stable. When one merge
was enough, all of `d` is one run; a stable sorted order is unique
(`SortedIs`), so `d` is what `contents` was promised. The time is counted with it:
each element costs at most three iterations in a pass, and a pass has three more at
most, whatever the last run lacks; another pass is made only if `insize`, which is a
power of two (`Affordable`), is less than the length. The powers are values of
`Doubled`, the code's own doubling, since the prover knows nothing of `^`. `SInv`,
with the invariant of the lists, is inductive, with one lemma for each iteration.

Only model-checked: `SessionsEnd`, `MilterGoes`, `SecondCloseIsFatal`,
`CallReturns`, `TimersFire` and the fairness part of `ImplementsMilter`: all of
them are liveness, which is out of the prover's reach. Every other property of a
passing run is stated by a theorem, and what these rest on besides fairness is
proved as well: `NeverSpins` for `CallReturns`, `EndIsScheduled` for `SessionsEnd`,
`RefCountExact` and `NothingRemains` for `MilterGoes`, `ToldOnceInLoop` for
`SecondCloseIsFatal`, `NothingPostpones` for `TimersFire`. That a sort returns is not
stated as liveness: `SortsFast` bounds its iterations, and the run `lists`, which
looks for deadlock, shows that it never gets stuck in one.

## 5. Not modelled

The write path, the dispatch of commands to callbacks, macros and replies do
not exist in the code yet, and the build has no state. Of logging, the text and
`rmilter_logger_internal`, which only prints, are left out: the one effect on
the rest, that the application's log function is called in the middle of the
library, is in `Milter`. Of `ref.h`, the variant with locked operations is
left out: no file of the build defines `HAVE_ATOMIC_BUILTINS`, and the library has
one thread. Of `utlist.h`, the macros that only read (`_FOREACH`, `_COUNT`,
`_SEARCH`) and the variants for compilers without `typeof` are left out: the former
leave all pointers alone, the latter do the same with another notation.

The hazards without a property are in `PROJECT.json` with the reason: the
recursion on interrupted reads, the queue object that is never freed, the
number of an error that a callback may overwrite before it is logged, the call of
an `abort` callback that is not set (a fault of `Milter`, but a property would only
repeat the guard), the borrowed names in a message, and two of the bindings: functions that take any
handle for one type, and `repeat_timer` without effect. The library itself calls
none of those functions. Of `start_event` without a timeout, `NothingPostpones` covers
the timers that the loop has; that one stopped before never fires again is what the
code does, and `TimersFire` excludes it.

## 6. Plan

1. done: `CommandParser` with `Framing`; `Milter` with `MilterLife`; the two
   bindings with `AsyncContract`; their theorems.
2. done: `MilterLoop`, the milter in a loop that collects events, with the theorem
   that a collected event of an ended session is not called back; `ClosedOnce` as
   a theorem; the log function as a callback.
3. done: the macros of `utlist.h`, with the theorems on lists of all kinds, the
   walks and the sorts.
4. done: the safety that the liveness properties rest on, as theorems.
5. A composition of session and reader, for the caller as its comments describe
   it, if a later commit makes the read return data.
6. Actions of `REF_RETAIN` and `REF_RELEASE` for more than one thread, if the
   atomic counters of `ref.h` are ever used from one.
