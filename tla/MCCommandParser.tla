-------------------------- MODULE MCCommandParser --------------------------
(***************************************************************************)
(* Instances of CommandParser for TLC: what the peer sends.                *)
(***************************************************************************)
EXTENDS CommandParser

CONSTANT MaxBody        \* the longest body in the wires of commands

(* A command as it stands on the wire.                                     *)
Encode(c, body) == <<c, 0, 0, 0, Len(body)>> \o body

(* Each place of a wire has a command byte of its own, so that one that is *)
(* skipped, repeated or swapped shows.  Bodies are made of one byte, 1,    *)
(* which is also a plausible length byte: a reader that loses its place    *)
(* finds a header in them.                                                 *)
Commands(c) == {Encode(c, [i \in 1 .. n |-> 1]) : n \in 0 .. MaxBody}

(* Up to three commands, or one and the first bytes of one more.           *)
CommandWires ==
  Commands(2)
    \cup {a \o b : a \in Commands(2), b \in Commands(3)}
    \cup {a \o b \o c : a \in Commands(2), b \in Commands(3), c \in Commands(4)}
    \cup {a \o <<3, 0>> : a \in Commands(2)}

(* A command that announces a long body.                                   *)
LongWires == {<<2, 0, 0, 1, 4>> \o [i \in 1 .. 9 |-> 1],
              <<2, 0, 1, 0, 1>> \o [i \in 1 .. 9 |-> 1],
              <<2, 100, 0, 0, 0>> \o [i \in 1 .. 9 |-> 1]}

MCWires == CommandWires \cup LongWires
=============================================================================
