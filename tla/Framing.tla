------------------------------ MODULE Framing ------------------------------
(***************************************************************************)
(* What reading commands off a milter connection promises, whatever way    *)
(* the bytes are cut into reads.                                           *)
(*                                                                         *)
(* The connection carries a byte sequence `wire': command after command,   *)
(* each a command byte, four length bytes in big endian order and a body   *)
(* of that length.  `end' bytes of it have been read.  Commands are        *)
(* delivered in order, each one exactly once, with the command byte and    *)
(* the body that stand on the wire, and never before their last byte has   *)
(* been read.                                                              *)
(***************************************************************************)
EXTENDS Integers, Sequences

CONSTANT Wires          \* the byte sequences a peer may send

VARIABLES wire,         \* the bytes of this connection
          end,          \* how many of them have been read
          start,        \* how many belong to commands already delivered
          frames        \* the commands delivered

vars == <<wire, end, start, frames>>

HeaderLen == 5

(* What each length byte weighs, the first one most.                       *)
Weight == <<16777216, 65536, 256, 1>>

(* The body length the header at offset `at' of w announces.               *)
BodyLen(w, at) ==
  w[at + 2] * Weight[1] + w[at + 3] * Weight[2]
    + w[at + 4] * Weight[3] + w[at + 5] * Weight[4]

(* The command at offset `at' lies within the first e bytes of w.          *)
IsComplete(w, at, e) ==
  /\ at + HeaderLen <= e
  /\ at + HeaderLen + BodyLen(w, at) <= e

FrameAt(w, at) ==
  [cmd  |-> w[at + 1],
   body |-> SubSeq(w, at + HeaderLen + 1, at + HeaderLen + BodyLen(w, at))]

-----------------------------------------------------------------------------
Init ==
  /\ wire \in Wires
  /\ end = 0
  /\ start = 0
  /\ frames = <<>>

Arrive ==
  /\ end' \in (end + 1) .. Len(wire)
  /\ UNCHANGED <<wire, start, frames>>

Complete ==
  /\ IsComplete(wire, start, end)
  /\ frames' = Append(frames, FrameAt(wire, start))
  /\ start' = start + HeaderLen + BodyLen(wire, start)
  /\ UNCHANGED <<wire, end>>

Next == Arrive \/ Complete

Spec == Init /\ [][Next]_vars
=============================================================================
