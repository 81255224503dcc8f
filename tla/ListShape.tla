------------------------------ MODULE ListShape ------------------------------
(***************************************************************************)
(* The three kinds of lists of utlist.h: what the pointers of a list look  *)
(* like that holds a given sequence of elements.                           *)
(***************************************************************************)
EXTENDS Integers, Sequences

CONSTANTS
  Nodes,    \* the elements
  Null      \* the null pointer

ASSUME NullAssumption == Null \notin Nodes

Cells == Nodes \cup {Null}

(* Singly linked, doubly linked, circular and doubly linked.               *)
ListKinds == {"LL", "DL", "CDL"}

(* next of the last element: null, or the head of a circular list.         *)
EndOf(k, h) == IF k = "CDL" THEN h ELSE Null

(* The head of list c, and the next pointers of its elements.              *)
LinkedForward(k, h, next, c) ==
  /\ h = IF c = <<>> THEN Null ELSE c[1]
  /\ \A i \in 1 .. Len(c) :
       next[c[i]] = IF i < Len(c) THEN c[i + 1] ELSE EndOf(k, h)

(* The prev pointers: that of the first element is the last one, also in a *)
(* list that is not circular.                                              *)
LinkedBackward(prev, c) ==
  \A i \in 1 .. Len(c) : prev[c[i]] = IF i > 1 THEN c[i - 1] ELSE c[Len(c)]

Represents(k, h, next, prev, c) ==
  /\ LinkedForward(k, h, next, c)
  /\ k # "LL" => LinkedBackward(prev, c)
=============================================================================
