-------------------------------- MODULE Utlist --------------------------------
(***************************************************************************)
(* The list macros of utlist.h on the pointers of a few elements and       *)
(* lists: LL_ (singly linked), DL_ (doubly linked) and CDL_ (circular).    *)
(* Sorting is in UtlistSort.                                               *)
(*                                                                         *)
(* A program has lists of one kind.  An element may be added if it is in   *)
(* no list and its pointers hold what they held before; this duty of the   *)
(* caller is in the guards, since no macro tests it.  The program may walk *)
(* one list with the _FOREACH_SAFE macro of its kind and meanwhile delete  *)
(* the element it has come to, add it to another list, and so on.          *)
(***************************************************************************)
EXTENDS ListShape, SequencesExt

CONSTANTS Lists

ASSUME ListsAssumption == Null \notin Lists
ASSUME NodesAssumption == IsFiniteSet(Nodes)

VARIABLES
  kind,         \* which lists the program uses
  head,         \* the variable that holds a list
  next, prev,   \* the pointers of each element
  contents,     \* history: the elements a list ought to have
  walked,       \* the list that is being walked, if there is one
  el, tmp,      \* the variables of _FOREACH_SAFE; tmp2 in a circular list
  tmp1,         \* where the walk of a circular list ends
  todo          \* history: what the walk ought to meet yet

pointers == <<head, next, prev>>
walkVars == <<walked, el, tmp, tmp1, todo>>
vars == <<kind, pointers, contents, walkVars>>

Init ==
  /\ kind \in ListKinds
  /\ head = [l \in Lists |-> Null]
  /\ next = [x \in Nodes |-> Null]
  /\ prev = [x \in Nodes |-> Null]
  /\ contents = [l \in Lists |-> <<>>]
  /\ walked = Null /\ el = Null /\ tmp = Null /\ tmp1 = Null /\ todo = <<>>

-----------------------------------------------------------------------------
(* Singly linked lists.                                                    *)

LL_PREPEND(l, add) ==
  /\ next' = [next EXCEPT ![add] = head[l]]
  /\ head' = [head EXCEPT ![l] = add]
  /\ UNCHANGED prev

(* Where _tmp goes from the head of list l, step by step.                  *)
Walk(l) ==
  LET w[i \in 1 .. Cardinality(Nodes)] ==
        IF i = 1 THEN head[l] ELSE IF w[i - 1] = Null THEN Null ELSE next[w[i - 1]]
  IN  w

(* The loops over _tmp stop before x, or at the end.                       *)
StopsAt(l, x) ==
  LET w == Walk(l)
  IN  w[Min({i \in DOMAIN w : w[i] # Null /\ next[w[i]] \in {Null, x}})]

LL_APPEND(l, add) ==
  /\ IF head[l] = Null
     THEN /\ next' = [next EXCEPT ![add] = Null]
          /\ head' = [head EXCEPT ![l] = add]
     ELSE /\ next' = [next EXCEPT ![add] = Null, ![StopsAt(l, Null)] = add]
          /\ UNCHANGED head
  /\ UNCHANGED prev

LL_CONCAT(l, k) ==
  /\ IF head[l] = Null
     THEN head' = [head EXCEPT ![l] = head[k], ![k] = Null] /\ UNCHANGED next
     ELSE /\ next' = [next EXCEPT ![StopsAt(l, Null)] = head[k]]
          /\ head' = [head EXCEPT ![k] = Null]
  /\ UNCHANGED prev

LL_DELETE(l, del) ==
  /\ IF head[l] = del
     THEN head' = [head EXCEPT ![l] = next[del]] /\ UNCHANGED next
     ELSE LET t == StopsAt(l, del) IN
            /\ next' = IF next[t] = Null THEN next ELSE [next EXCEPT ![t] = next[del]]
            /\ UNCHANGED head
  /\ UNCHANGED prev

(* LL_REPLACE_ELEM and LL_PREPEND_ELEM make add follow what precedes x;    *)
(* they differ in what follows add.                                        *)
LL_INSTEAD(l, x, add, following) ==
  /\ IF head[l] = x
     THEN /\ next' = [next EXCEPT ![add] = following]
          /\ head' = [head EXCEPT ![l] = add]
     ELSE /\ next' = [next EXCEPT ![add] = following, ![StopsAt(l, x)] = add]
          /\ UNCHANGED head
  /\ UNCHANGED prev

LL_REPLACE_ELEM(l, x, add) == LL_INSTEAD(l, x, add, next[x])
LL_PREPEND_ELEM(l, x, add) == LL_INSTEAD(l, x, add, x)

-----------------------------------------------------------------------------
(* Doubly linked lists.                                                    *)

DL_PREPEND(l, add) ==
  LET h == head[l] IN
    /\ next' = [next EXCEPT ![add] = h]
    /\ prev' = IF h = Null THEN [prev EXCEPT ![add] = add]
               ELSE [prev EXCEPT ![add] = prev[h], ![h] = add]
    /\ head' = [head EXCEPT ![l] = add]

DL_APPEND(l, add) ==
  LET h == head[l] IN
    IF h = Null
    THEN /\ head' = [head EXCEPT ![l] = add]
         /\ prev' = [prev EXCEPT ![add] = add]
         /\ next' = [next EXCEPT ![add] = Null]
    ELSE /\ prev' = [prev EXCEPT ![add] = prev[h], ![h] = add]
         /\ next' = [next EXCEPT ![prev[h]] = add, ![add] = Null]
         /\ UNCHANGED head

DL_CONCAT(l, k) ==
  LET h == head[l]
      g == head[k] IN
    IF g = Null THEN UNCHANGED pointers
    ELSE IF h = Null
    THEN /\ head' = [head EXCEPT ![l] = g, ![k] = Null]
         /\ UNCHANGED <<next, prev>>
    ELSE /\ prev' = [prev EXCEPT ![g] = prev[h], ![h] = prev[g]]
         /\ next' = [next EXCEPT ![prev[h]] = g]
         /\ head' = [head EXCEPT ![k] = Null]

(* Mutation of DL_DELETE: prev of the head still is the last element.      *)
DL_DELETE_TAIL(l, del) ==
  IF prev[del] = del
  THEN head' = [head EXCEPT ![l] = Null] /\ UNCHANGED <<next, prev>>
  ELSE IF del = head[l]
  THEN /\ prev' = [prev EXCEPT ![next[del]] = prev[del]]
       /\ head' = [head EXCEPT ![l] = next[del]]
       /\ UNCHANGED next
  ELSE /\ next' = [next EXCEPT ![prev[del]] = next[del]]
       /\ prev' = IF next[del] = Null THEN prev
                  ELSE [prev EXCEPT ![next[del]] = prev[del]]
       /\ UNCHANGED head

DL_DELETE(l, del) ==
  IF prev[del] = del
  THEN head' = [head EXCEPT ![l] = Null] /\ UNCHANGED <<next, prev>>
  ELSE IF del = head[l]
  THEN /\ prev' = [prev EXCEPT ![next[del]] = prev[del]]
       /\ head' = [head EXCEPT ![l] = next[del]]
       /\ UNCHANGED next
  ELSE /\ next' = [next EXCEPT ![prev[del]] = next[del]]
       /\ prev' = [prev EXCEPT ![IF next[del] # Null THEN next[del] ELSE head[l]] = prev[del]]
       /\ UNCHANGED head

DL_REPLACE_ELEM(l, x, add) ==
  /\ IF head[l] = x
     THEN /\ head' = [head EXCEPT ![l] = add]
          /\ next' = [next EXCEPT ![add] = next[x]]
          /\ prev' = IF next[x] = Null THEN [prev EXCEPT ![add] = add]
                     ELSE [prev EXCEPT ![add] = prev[x], ![next[x]] = add]
     ELSE /\ next' = [next EXCEPT ![add] = next[x], ![prev[x]] = add]
          /\ prev' = [prev EXCEPT ![add] = prev[x],
                        ![IF next[x] = Null THEN head[l] ELSE next[x]] = add]
          /\ UNCHANGED head

DL_PREPEND_ELEM(l, x, add) ==
  /\ prev' = [prev EXCEPT ![add] = prev[x], ![x] = add]
  /\ IF head[l] = x
     THEN /\ next' = [next EXCEPT ![add] = x]
          /\ head' = [head EXCEPT ![l] = add]
     ELSE /\ next' = [next EXCEPT ![add] = x, ![prev[x]] = add]
          /\ UNCHANGED head

-----------------------------------------------------------------------------
(* Circular lists.                                                         *)

CDL_PREPEND(l, add) ==
  LET h == head[l] IN
    /\ IF h = Null
       THEN /\ prev' = [prev EXCEPT ![add] = add]
            /\ next' = [next EXCEPT ![add] = add]
       ELSE /\ prev' = [prev EXCEPT ![add] = prev[h], ![h] = add]
            /\ next' = [next EXCEPT ![add] = h, ![prev[h]] = add]
    /\ head' = [head EXCEPT ![l] = add]

CDL_DELETE(l, del) ==
  IF head[l] = del /\ next[del] = del
  THEN head' = [head EXCEPT ![l] = Null] /\ UNCHANGED <<next, prev>>
  ELSE /\ prev' = [prev EXCEPT ![next[del]] = prev[del]]
       /\ next' = [next EXCEPT ![prev[del]] = next[del]]
       /\ head' = IF del = head[l] THEN [head EXCEPT ![l] = next[del]] ELSE head

CDL_REPLACE_ELEM(l, x, add) ==
  IF next[x] = x
  THEN /\ next' = [next EXCEPT ![add] = add]
       /\ prev' = [prev EXCEPT ![add] = add]
       /\ head' = [head EXCEPT ![l] = add]
  ELSE /\ next' = [next EXCEPT ![add] = next[x], ![prev[x]] = add]
       /\ prev' = [prev EXCEPT ![add] = prev[x], ![next[x]] = add]
       /\ head' = IF head[l] = x THEN [head EXCEPT ![l] = add] ELSE head

CDL_PREPEND_ELEM(l, x, add) ==
  /\ next' = [next EXCEPT ![add] = x, ![prev[x]] = add]
  /\ prev' = [prev EXCEPT ![add] = prev[x], ![x] = add]
  /\ head' = IF head[l] = x THEN [head EXCEPT ![l] = add] ELSE head

-----------------------------------------------------------------------------
(* What a program does with its lists.                                     *)

Members(l) == Range(contents[l])
IndexOf(l, x) == CHOOSE i \in 1 .. Len(contents[l]) : contents[l][i] = x

(* The list that is walked only loses elements, and those by a deletion of *)
(* the one the walk has come to.                                           *)
MayAdd(l, add) == walked # l /\ \A k \in Lists : add \notin Members(k)
MayDelete(l, del) == del \in Members(l) /\ (walked = l => del = el)

Prepend(l, add) ==
  /\ MayAdd(l, add)
  /\ \/ kind = "LL" /\ LL_PREPEND(l, add)
     \/ kind = "DL" /\ DL_PREPEND(l, add)
     \/ kind = "CDL" /\ CDL_PREPEND(l, add)
  /\ contents' = [contents EXCEPT ![l] = Cons(add, contents[l])]
  /\ UNCHANGED <<kind, walkVars>>

(* There is no macro that appends to a circular list or joins two.         *)
AppendTo(l, add) ==
  /\ MayAdd(l, add)
  /\ \/ kind = "LL" /\ LL_APPEND(l, add)
     \/ kind = "DL" /\ DL_APPEND(l, add)
  /\ contents' = [contents EXCEPT ![l] = Append(contents[l], add)]
  /\ UNCHANGED <<kind, walkVars>>

(* The program then sets the variable of the second list to null.          *)
Concat(l, k) ==
  /\ l # k /\ walked \notin {l, k}
  /\ \/ kind = "LL" /\ LL_CONCAT(l, k)
     \/ kind = "DL" /\ DL_CONCAT(l, k)
  /\ contents' = [contents EXCEPT ![l] = contents[l] \o contents[k], ![k] = <<>>]
  /\ UNCHANGED <<kind, walkVars>>

Delete(l, del) ==
  /\ MayDelete(l, del)
  /\ \/ kind = "LL" /\ LL_DELETE(l, del)
     \/ kind = "DL" /\ DL_DELETE(l, del)
     \/ kind = "CDL" /\ CDL_DELETE(l, del)
  /\ contents' = [contents EXCEPT ![l] = RemoveAt(contents[l], IndexOf(l, del))]
  /\ UNCHANGED <<kind, walkVars>>

(* LL_DELETE looks for the element and does nothing if it is not there.    *)
DeleteMissing(l, del) ==
  /\ kind = "LL" /\ head[l] # Null /\ del \notin Members(l)
  /\ LL_DELETE(l, del)
  /\ UNCHANGED <<kind, contents, walkVars>>

Replace(l, x, add) ==
  /\ MayAdd(l, add) /\ x \in Members(l)
  /\ \/ kind = "LL" /\ LL_REPLACE_ELEM(l, x, add)
     \/ kind = "DL" /\ DL_REPLACE_ELEM(l, x, add)
     \/ kind = "CDL" /\ CDL_REPLACE_ELEM(l, x, add)
  /\ contents' = [contents EXCEPT ![l] = ReplaceAt(contents[l], IndexOf(l, x), add)]
  /\ UNCHANGED <<kind, walkVars>>

PrependElem(l, x, add) ==
  /\ MayAdd(l, add) /\ x \in Members(l)
  /\ \/ kind = "LL" /\ LL_PREPEND_ELEM(l, x, add)
     \/ kind = "DL" /\ DL_PREPEND_ELEM(l, x, add)
     \/ kind = "CDL" /\ CDL_PREPEND_ELEM(l, x, add)
  /\ contents' = [contents EXCEPT ![l] = InsertAt(contents[l], IndexOf(l, x), add)]
  /\ UNCHANGED <<kind, walkVars>>

(* tmp is set as soon as the walk has come to an element; mutation of      *)
(* Following: next is read when the loop goes on, as in _FOREACH.          *)
NextAfterBody == next[el]
Following == tmp

ComesTo(x) ==
  /\ el' = x
  /\ tmp' = IF x = Null THEN tmp ELSE next[x]

WalkBegins(l) ==
  /\ walked = Null
  /\ walked' = l
  /\ ComesTo(head[l])
  /\ tmp1' = IF kind = "CDL" /\ head[l] # Null THEN prev[head[l]] ELSE Null
  /\ todo' = contents[l]
  /\ UNCHANGED <<kind, pointers, contents>>

WalkGoesOn ==
  /\ walked # Null /\ el # Null
  /\ ComesTo(IF kind = "CDL" /\ el = tmp1 THEN Null ELSE Following)
  /\ todo' = SubSeq(todo, 2, Len(todo))
  /\ UNCHANGED <<kind, pointers, contents, walked, tmp1>>

WalkEnds ==
  /\ walked # Null /\ el = Null
  /\ walked' = Null /\ tmp' = Null /\ tmp1' = Null
  /\ UNCHANGED <<kind, pointers, contents, el, todo>>

Next ==
  \/ \E l \in Lists, x \in Nodes :
       Prepend(l, x) \/ AppendTo(l, x) \/ Delete(l, x) \/ DeleteMissing(l, x)
  \/ \E l \in Lists, x, add \in Nodes : Replace(l, x, add) \/ PrependElem(l, x, add)
  \/ \E l, k \in Lists : Concat(l, k)
  \/ \E l \in Lists : WalkBegins(l)
  \/ WalkGoesOn
  \/ WalkEnds

Spec == Init /\ [][Next]_vars

-----------------------------------------------------------------------------
TypeOK ==
  /\ kind \in ListKinds
  /\ head \in [Lists -> Cells]
  /\ next \in [Nodes -> Cells]
  /\ prev \in [Nodes -> Cells]
  /\ contents \in [Lists -> Seq(Nodes)]
  /\ walked \in Lists \cup {Null}
  /\ el \in Cells /\ tmp \in Cells /\ tmp1 \in Cells
  /\ todo \in Seq(Nodes)

(* An element is in one list at most, and once.                            *)
Apart ==
  \A l, k \in Lists : \A i \in 1 .. Len(contents[l]), j \in 1 .. Len(contents[k]) :
    contents[l][i] = contents[k][j] => l = k /\ i = j

(* INVARIANT: after every macro the pointers of every list are those of    *)
(* the elements it ought to have, in their order, forwards and backwards,  *)
(* and the macro has not touched another list (the assignments of DL_,     *)
(* CDL_ and LL_, with the first, the last and the only element).           *)
Linked ==
  \A l \in Lists : Represents(kind, head[l], next, prev, contents[l])

(* INVARIANT: utlist.h:590, the walk "is safe for deleting the elements    *)
(* during iteration": it comes to each element that was in the list, once  *)
(* and in order, also if elements are deleted as it comes to them and are  *)
(* in another list by the time it goes on.                                 *)
VisitsEach ==
  walked # Null => el = IF todo = <<>> THEN Null ELSE Head(todo)
=============================================================================
