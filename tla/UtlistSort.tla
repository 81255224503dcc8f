------------------------------ MODULE UtlistSort ------------------------------
(***************************************************************************)
(* LL_SORT, DL_SORT and CDL_SORT of utlist.h, for a program that also uses *)
(* the macros in Utlist: a merge sort on the pointers of one of its lists. *)
(* Each pass merges pairs of neighbouring runs of _ls_insize elements; an  *)
(* action is an iteration of one of the loops.  Nothing else runs in the   *)
(* meantime.                                                               *)
(***************************************************************************)
EXTENDS Utlist

CONSTANTS MaxKey    \* bound: cmp compares keys of 1 .. MaxKey

ASSUME MaxKeyAssumption == MaxKey \in Nat

VARIABLES
  sorting,                  \* the list that is being sorted, if there is one
  key,                      \* what cmp looks at in each of its elements
  p, q, tail, oldhead,      \* _ls_p, _ls_q, _ls_tail, _ls_oldhead
  insize, nmerges, psize, qsize,
  pc,                       \* where the macro is
  work                      \* history: the iterations of all its loops

cursors == <<p, q, tail, oldhead>>
counters == <<insize, nmerges, psize, qsize>>
sortVars == <<sorting, key, cursors, counters, pc, work>>
allVars == <<vars, sortVars>>

NotSorting ==
  /\ sorting = Null /\ key = <<>>
  /\ p = Null /\ q = Null /\ tail = Null /\ oldhead = Null
  /\ insize = 0 /\ nmerges = 0 /\ psize = 0 /\ qsize = 0
  /\ pc = "no" /\ work = 0

SortInit == Init /\ NotSorting

-----------------------------------------------------------------------------
(* An empty list is left as it is.                                         *)
SortBegins(l) ==
  /\ sorting = Null /\ walked = Null
  /\ head[l] # Null
  /\ sorting' = l
  /\ key' \in [Members(l) -> 1 .. MaxKey]
  /\ insize' = 1
  /\ pc' = "pass"
  /\ UNCHANGED <<vars, cursors, nmerges, psize, qsize, work>>

At(label) == pc = label /\ work' = work + 1 /\ UNCHANGED <<kind, walkVars, key>>

(* One round of while (_ls_looping): the old list is taken to pieces from  *)
(* _ls_p on, the new one grows at _ls_tail.                                *)
PassBegins ==
  /\ At("pass")
  /\ p' = head[sorting] /\ oldhead' = head[sorting]
  /\ head' = [head EXCEPT ![sorting] = Null] /\ tail' = Null
  /\ nmerges' = 0
  /\ pc' = "run"
  /\ UNCHANGED <<next, prev, contents, sorting, q, insize, psize, qsize>>

(* while (_ls_p): another pair of runs; _ls_q looks for the second one.    *)
RunBegins ==
  /\ At("run") /\ p # Null
  /\ nmerges' = nmerges + 1
  /\ q' = p /\ psize' = 0
  /\ pc' = "split"
  /\ UNCHANGED <<pointers, contents, sorting, p, tail, oldhead, insize, qsize>>

(* The element after x in the list as this pass has found it.  A circular  *)
(* list ends where its head was.                                           *)
After(x) == IF kind = "CDL" /\ next[x] = oldhead THEN Null ELSE next[x]

(* Mutation of RunFull: the first run gets one element too many.           *)
RunOverfull(n) == n > insize
RunFull(n) == n = insize

Split ==
  /\ At("split")
  /\ psize' = psize + 1
  /\ q' = After(q)
  /\ IF RunFull(psize') \/ q' = Null
     THEN pc' = "merge" /\ qsize' = insize
     ELSE UNCHANGED <<pc, qsize>>
  /\ UNCHANGED <<pointers, contents, sorting, p, tail, oldhead, insize, nmerges>>

SecondLeft == qsize > 0 /\ q # Null

(* Which run the next element comes from; mutation: elements that are      *)
(* equal change places.                                                    *)
TakesFirstUnstably == psize > 0 /\ (~SecondLeft \/ key[p] < key[q])
TakesFirst == psize > 0 /\ (~SecondLeft \/ key[p] <= key[q])

(* Element e goes to the end of the new list.                              *)
Appended(e) ==
  /\ IF tail = Null
     THEN head' = [head EXCEPT ![sorting] = e] /\ UNCHANGED next
     ELSE next' = [next EXCEPT ![tail] = e] /\ UNCHANGED head
  /\ prev' = IF kind = "LL" THEN prev ELSE [prev EXCEPT ![e] = tail]
  /\ tail' = e

Merge ==
  /\ At("merge") /\ (psize > 0 \/ SecondLeft)
  /\ IF TakesFirst
     THEN Appended(p) /\ p' = After(p) /\ psize' = psize - 1 /\ UNCHANGED <<q, qsize>>
     ELSE Appended(q) /\ q' = After(q) /\ qsize' = qsize - 1 /\ UNCHANGED <<p, psize>>
  /\ UNCHANGED <<contents, sorting, oldhead, insize, nmerges, pc>>

RunEnds ==
  /\ At("merge") /\ psize = 0 /\ ~SecondLeft
  /\ p' = q
  /\ pc' = "run"
  /\ UNCHANGED <<pointers, contents, sorting, q, tail, oldhead, counters>>

(* The new list is closed: its ends get their pointers.                    *)
Closed ==
  /\ next' = [next EXCEPT ![tail] = EndOf(kind, head[sorting])]
  /\ prev' = IF kind = "LL" THEN prev ELSE [prev EXCEPT ![head[sorting]] = tail]
  /\ UNCHANGED head

(* Mutation of Doubled: the runs do not grow.                              *)
SameSize(n) == n
Doubled(n) == n * 2

PassEnds ==
  /\ At("run") /\ p = Null /\ nmerges > 1
  /\ Closed
  /\ insize' = Doubled(insize)
  /\ pc' = "pass"
  /\ UNCHANGED <<contents, sorting, cursors, nmerges, psize, qsize>>

(* The order a stable sort by key gives to the elements of a list.         *)
Before(l, x, y) ==
  key[x] < key[y] \/ (key[x] = key[y] /\ IndexOf(l, x) < IndexOf(l, y))

Sorted(l) ==
  LET n == Len(contents[l]) IN
    CHOOSE d \in [1 .. n -> Members(l)] :
      \A i, j \in 1 .. n : i < j => Before(l, d[i], d[j])

(* A pass that has merged once was the last, and the macro returns.        *)
SortEnds ==
  /\ pc = "run" /\ p = Null /\ nmerges <= 1
  /\ Closed
  /\ contents' = [contents EXCEPT ![sorting] = Sorted(sorting)]
  /\ sorting' = Null /\ key' = <<>> /\ tail' = Null /\ oldhead' = Null
  /\ insize' = 0 /\ nmerges' = 0 /\ qsize' = 0
  /\ pc' = "no" /\ work' = 0
  /\ UNCHANGED <<kind, walkVars, p, q, psize>>

Step == PassBegins \/ RunBegins \/ Split \/ Merge \/ RunEnds \/ PassEnds \/ SortEnds

SortNext ==
  \/ sorting = Null /\ Next /\ UNCHANGED sortVars
  \/ \E l \in Lists : SortBegins(l)
  \/ Step

SortSpec == SortInit /\ [][SortNext]_allVars

-----------------------------------------------------------------------------
SortTypeOK ==
  /\ TypeOK
  /\ sorting \in Lists \cup {Null}
  /\ p \in Cells /\ q \in Cells /\ tail \in Cells /\ oldhead \in Cells
  /\ insize \in Nat /\ nmerges \in Nat /\ work \in Nat
  /\ psize \in 0 .. insize /\ qsize \in 0 .. insize
  /\ pc \in {"no", "pass", "run", "split", "merge"}

(* INVARIANT: after every macro the pointers of every list are those of    *)
(* the elements it ought to have, in their order, forwards and backwards   *)
(* (Linked): after a sort, sorted and stable; and while one list is being  *)
(* sorted the others are untouched.                                        *)
ListsIntact ==
  \A l \in Lists : l # sorting => Represents(kind, head[l], next, prev, contents[l])

(* The list that is being sorted, as it stands.                            *)
Chain ==
  LET n == Len(contents[sorting])
      c[i \in 1 .. n] == IF i = 1 THEN head[sorting] ELSE next[c[i - 1]]
  IN  c

(* INVARIANT: each pass of the three macros leaves a whole list with all   *)
(* its elements, whose runs of _ls_insize are sorted, equal elements in    *)
(* the order they had.                                                     *)
RunsSorted ==
  pc = "pass" =>
    /\ Range(Chain) = Members(sorting)
    /\ Represents(kind, head[sorting], next, prev, Chain)
    /\ \A i, j \in DOMAIN Chain :
         i < j /\ (i - 1) \div insize = (j - 1) \div insize
           => Before(sorting, Chain[i], Chain[j])

(* The passes a list of n elements needs: the logarithm of n to base 2,    *)
(* rounded up, but one at least.                                           *)
Passes(n) ==
  LET power[k \in 0 .. n] == IF k = 0 THEN 1 ELSE Doubled(power[k - 1])
  IN  Max({1} \cup {k \in 1 .. n : power[k - 1] < n})

(* INVARIANT: utlist.h:59, "The sort macro is O(n log(n)) for all types of *)
(* single/double/circular lists"; so it returns.                           *)
SortIsFast ==
  sorting # Null =>
    LET n == Len(contents[sorting]) IN work <= (3 * n + 3) * Passes(n)
=============================================================================
