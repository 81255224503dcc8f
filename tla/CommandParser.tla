--------------------------- MODULE CommandParser ---------------------------
(***************************************************************************)
(* The command reader of a session: rmilter_session_state_machine() of     *)
(* src/session.c and the part of struct rmilter_session it works on.       *)
(*                                                                         *)
(* One call of the function consumes the bytes of one read.  Each action   *)
(* below is one iteration of its while loop, one per case of the switch;   *)
(* Deliver is the call itself: it hands over the bytes of the next read,   *)
(* and is possible only when the previous call has returned (p = end).     *)
(* `pos' and `end' are the pointers p and end, counted from the first      *)
(* byte of the connection instead of from cmd_buf->data.                   *)
(*                                                                         *)
(* The caller in session.c passes a zero-length buffer to read(), so at    *)
(* this commit no byte gets here (see Milter, which models that caller).   *)
(* This module is about the function for every sequence of buffers it can  *)
(* be given.                                                               *)
(***************************************************************************)
EXTENDS Integers, Sequences

CONSTANTS Wires,        \* the byte sequences a peer may send
          MaxChunk      \* the most bytes one read returns (the 8192 of
                        \* initial_buffer_size)

ASSUME WiresAssumption == Wires \subseteq Seq(0 .. 255)
ASSUME MaxChunkAssumption == MaxChunk \in Nat \ {0}

VARIABLES
  wire,      \* every byte the peer sends on this connection
  end,       \* bytes read so far; end of the current buffer
  pos,       \* bytes consumed so far; the next one is *p
  state,     \* s->state
  cmd,       \* s->cmd.cmd
  cmdlen,    \* s->cmd.cmdlen
  data,      \* s->cmd.data
  start,     \* history: offset of the command byte of the current command
  frames,    \* history: the commands found complete
  split      \* history: a read ended inside the body of the current command

vars == <<wire, end, pos, state, cmd, cmdlen, data, start, frames, split>>

States == {"st_read_cmd", "st_len_1", "st_len_2", "st_len_3", "st_len_4",
           "st_read_data"}

Minimum(a, b) == IF a < b THEN a ELSE b

(* The byte under p.                                                       *)
Cur == wire[pos + 1]

-----------------------------------------------------------------------------
Init ==
  /\ wire \in Wires
  /\ end = 0
  /\ pos = 0
  /\ state = "st_read_cmd"
  /\ cmd = 0
  /\ cmdlen = 0
  /\ data = <<>>
  /\ start = 0
  /\ frames = <<>>
  /\ split = FALSE

(* The function is called with the n bytes of a new read.                  *)
Deliver(n) ==
  /\ pos = end
  /\ end + n <= Len(wire)
  /\ end' = end + n
  /\ split' = (split \/ (state = "st_read_data" /\ Len(data) > 0))
  /\ UNCHANGED <<wire, pos, state, cmd, cmdlen, data, start, frames>>

ReadCmd ==
  /\ pos < end
  /\ state = "st_read_cmd"
  /\ cmd' = Cur
  /\ cmdlen' = 0
  /\ data' = <<>>
  /\ state' = "st_len_1"
  /\ pos' = pos + 1
  /\ start' = pos
  /\ split' = FALSE
  /\ UNCHANGED <<wire, end, frames>>

(* cmdlen |= *p << shift, the shift being 24, 16, 8 and 0 bits.  The bits  *)
(* a length byte sets are still zero, so the bitwise or is the sum, and    *)
(* the sum of the four stays below 2^32.                                   *)
Shift == <<16777216, 65536, 256, 1>>

ReadLen(from, i, to) ==
  /\ pos < end
  /\ state = from
  /\ cmdlen' = cmdlen + Cur * Shift[i]
  /\ state' = to
  /\ pos' = pos + 1
  /\ UNCHANGED <<wire, end, cmd, data, start, frames, split>>

ReadLen1 == ReadLen("st_len_1", 1, "st_len_2")
ReadLen2 == ReadLen("st_len_2", 2, "st_len_3")
ReadLen3 == ReadLen("st_len_3", 3, "st_len_4")
ReadLen4 == ReadLen("st_len_4", 4, "st_read_data")

(* Mutations of ToCopy: the limit of the buffer, or of the body, is lost.  *)
ToCopyUnchecked == cmdlen
ToCopyRest == end - pos

(* How much of the buffer is appended to the body: at most the length of   *)
(* the whole body, whatever part of it is there already.                   *)
ToCopy == Minimum(cmdlen, end - pos)

(* Mutations of BodyDone: the copied bytes are compared instead of the     *)
(* gathered ones; >= for ==; an overrun is forgiven by the next call; the  *)
(* test is made only after a copy.                                         *)
BodyDoneByCopy(body) == ToCopy = cmdlen
BodyDoneAtLeast(body) == Len(body) >= cmdlen
BodyDoneForgiving(body) == Len(body) = cmdlen \/ Len(data) > cmdlen
BodyDoneAfterCopy(body) == ToCopy > 0 /\ Len(body) = cmdlen

(* The test that ends a command.                                           *)
BodyDone(body) == Len(body) = cmdlen

ReadData ==
  LET body == data \o SubSeq(wire, pos + 1, pos + ToCopy)
      done == BodyDone(body)
  IN  /\ pos < end
      /\ state = "st_read_data"
      /\ pos' = pos + ToCopy
      /\ data' = IF done THEN <<>> ELSE body
      /\ state' = IF done THEN "st_read_cmd" ELSE state
      /\ frames' = IF done THEN Append(frames, [cmd |-> cmd, body |-> body])
                           ELSE frames
      /\ UNCHANGED <<wire, end, cmd, cmdlen, start, split>>

Step == ReadCmd \/ ReadLen1 \/ ReadLen2 \/ ReadLen3 \/ ReadLen4 \/ ReadData

Next == (\E n \in 1 .. MaxChunk : Deliver(n)) \/ Step

Spec == Init /\ [][Next]_vars

(* The loop body runs until the buffer is used up; nothing obliges the     *)
(* peer to send more.                                                      *)
FairSpec == Spec /\ WF_vars(Step)

-----------------------------------------------------------------------------
Byte == 0 .. 255

TypeOK ==
  /\ wire \in Seq(Byte)
  /\ end \in 0 .. Len(wire)
  /\ pos \in 0 .. end
  /\ state \in States
  /\ cmd \in Byte
  /\ cmdlen \in Nat
  /\ data \in Seq(Byte)
  /\ start \in 0 .. pos
  /\ frames \in Seq([cmd : Byte, body : Seq(Byte)])
  /\ split \in BOOLEAN

(* More bytes have been appended to the body than the command has: the     *)
(* test cmdlen == data->len can not come true any more.                    *)
Overrun == state = "st_read_data" /\ Len(data) > cmdlen

(* Offset of the first command not delivered yet.                          *)
NextStart == IF state = "st_read_cmd" THEN pos ELSE start

(* PROPERTY: whatever the sizes of the reads, the commands found complete  *)
(* are the first commands on the wire, in order, none skipped or repeated, *)
(* each with its own command byte and exactly its body, none before its    *)
(* last byte was read (session.c:84-89, the test that ends a command).     *)
Framed == INSTANCE Framing WITH start <- NextStart
FramesAreExact == Framed!Spec

(* INVARIANT: the body of a command can be overrun only if a read ended    *)
(* inside it (session.c:77 takes cmdlen, not what is left of it).          *)
OverrunNeedsSplitBody == Overrun => split

(* INVARIANT: between two calls every command that has been read entirely  *)
(* has been found complete, except one whose body was overrun and one      *)
(* without a body, which waits for the byte after it.                      *)
NothingLeftBehind ==
  (pos = end /\ ~Overrun /\ ~(state = "st_read_data" /\ cmdlen = 0))
     => ~Framed!IsComplete(wire, NextStart, end)

(* PROPERTY: an overrun is never repaired: no later command of this        *)
(* connection is found complete (the loop leaves st_read_data only on      *)
(* equality, session.c:85).                                                *)
OverrunIsFinal == [][Overrun => Overrun' /\ frames' = frames]_vars

(* PROPERTY: every call returns: the loop consumes the whole buffer, also  *)
(* with an empty body, which consumes nothing (session.c:43-94).           *)
CallReturns == (pos < end) ~> (pos = end)

(* INVARIANT: the loop never turns on the spot.  An iteration that copies  *)
(* nothing is one for an empty body, has nothing left over in its hands    *)
(* from the command before, and finds it complete, whatever a body was     *)
(* overrun by and whatever length a command announces (session.c:77-90).   *)
NeverSpins ==
  (pos < end /\ state = "st_read_data") =>
    ToCopy > 0 \/ (cmdlen = 0 /\ data = <<>> /\ BodyDone(data))

(* What a call has still to do, at most: two for each byte of the buffer,  *)
(* and one for a body that may turn out to be empty.                       *)
Remaining == 2 * (end - pos) + (IF state = "st_read_data" THEN 1 ELSE 0)

(* So each iteration leaves less to do, and a call with n bytes returns    *)
(* after at most 2n + 1 of them.                                           *)
IterationsCount == [][Step => Remaining' < Remaining]_vars

-----------------------------------------------------------------------------
(* The inductive invariant behind the invariants above.                    *)

(* How far into the current command each state of the machine is, and what *)
(* it has gathered by then.                                                *)
Position ==
  /\ state # "st_read_cmd" => start < pos /\ cmd = wire[start + 1]
  /\ state = "st_len_1" =>
       pos = start + 1 /\ cmdlen = 0
  /\ state = "st_len_2" =>
       pos = start + 2 /\ cmdlen = wire[start + 2] * Shift[1]
  /\ state = "st_len_3" =>
       /\ pos = start + 3
       /\ cmdlen = wire[start + 2] * Shift[1] + wire[start + 3] * Shift[2]
  /\ state = "st_len_4" =>
       /\ pos = start + 4
       /\ cmdlen = wire[start + 2] * Shift[1] + wire[start + 3] * Shift[2]
                     + wire[start + 4] * Shift[3]
  /\ state = "st_read_data" =>
       /\ start + Framed!HeaderLen <= pos
       /\ cmdlen = Framed!BodyLen(wire, start)

(* The body gathered so far is what stands on the wire after the header.   *)
Gathered ==
  IF state = "st_read_data"
  THEN data = SubSeq(wire, start + Framed!HeaderLen + 1, pos)
  ELSE data = <<>>

(* A body that no read has cut has been filled from one buffer, one that   *)
(* has reached its length has been delivered, and an empty one stays empty.*)
Filling ==
  state = "st_read_data" =>
    /\ Len(data) = cmdlen => cmdlen = 0
    /\ cmdlen = 0 => data = <<>>
    /\ ~split => data = <<>> \/ (pos = end /\ Len(data) <= cmdlen)

IInv == TypeOK /\ Position /\ Gathered /\ Filling

-----------------------------------------------------------------------------
(* Statements of the comments and the README that the code does not keep.  *)

(* INVARIANT: session.c:84, "Check if we have read the complete command":  *)
(* the call that reads the last byte of a body finds the command complete. *)
CompleteIsFound ==
  (pos = end /\ cmdlen > 0) => ~Framed!IsComplete(wire, NextStart, end)

(* INVARIANT: the same of a command without a body, whose last byte is the *)
(* last length byte.                                                       *)
EmptyIsFound ==
  (pos = end /\ cmdlen = 0) => ~Framed!IsComplete(wire, NextStart, end)

(* INVARIANT: README.md:21, "space for the next command (up to 64K by      *)
(* protocol definition)".                                                  *)
CommandWithin64K == state = "st_read_data" => cmdlen <= 65536
=============================================================================
