--------------------------- MODULE UtlistSort_proofs ---------------------------
(***************************************************************************)
(* What LL_SORT, DL_SORT and CDL_SORT guarantee for any number of elements *)
(* and lists: no element is lost, the list is sorted and stable, and it is *)
(* in time.                                                                *)
(***************************************************************************)
EXTENDS UtlistSort, Utlist_proofs

-----------------------------------------------------------------------------
(* The elements of the list that is being sorted, in an order d: those of  *)
(* the new list, then what is left of the old one.                         *)
Size == Len(contents[sorting])
Orders == [1 .. Size -> Members(sorting)]

(* Nothing is lost, and equal elements are in the order they had.          *)
InOrder(d) ==
  /\ \A x \in Members(sorting) : \E i \in 1 .. Size : d[i] = x
  /\ \A i, j \in 1 .. Size : i < j =>
       d[i] # d[j] /\ (key[d[i]] = key[d[j]] => IndexOf(sorting, d[i]) < IndexOf(sorting, d[j]))

(* The elements after the a-th, up to the b-th, are sorted.                *)
Ascends(d, a, b) ==
  \A i, j \in 1 .. Size : a < i /\ i < j /\ j <= b => key[d[i]] <= key[d[j]]

(* So are the runs of s elements that follow the a-th; and, of the new     *)
(* list, those of twice as many up to the b-th.                            *)
RunsAscend(d, a, s) == \A r \in Nat : Ascends(d, a + r * s, a + (r + 1) * s)

Merged(d, b) ==
  \A r \in Nat : \A i, j \in 1 .. Size :
    r * (2 * insize) < i /\ i < j /\ j <= (r + 1) * (2 * insize) /\ j <= b
      => key[d[i]] <= key[d[j]]

(* The pointers of the new list of k elements, of a run of the old one,    *)
(* and of the old one from the element after the a-th on.                  *)
NewList(d, k) ==
  /\ head[sorting] = IF k = 0 THEN Null ELSE d[1]
  /\ tail = IF k = 0 THEN Null ELSE d[k]
  /\ \A i \in 1 .. Size : i < k => next[d[i]] = d[i + 1]
  /\ kind # "LL" => \A i \in 1 .. Size : 1 < i /\ i <= k => prev[d[i]] = d[i - 1]

RunFollows(d, a, b) == \A i \in 1 .. Size : a < i /\ i < b => After(d[i]) = d[i + 1]

Nth(d, a) == IF a < Size THEN d[a + 1] ELSE Null

OldList(d, a) == \A i \in 1 .. Size : a < i => After(d[i]) = Nth(d, i)

(* Where the passes have come to; w is what the earlier ones took.         *)
AtPass(d, w) ==
  /\ psize = 0 /\ work <= w
  /\ Represents(kind, head[sorting], next, prev, d)
  /\ RunsAscend(d, 0, insize)

AtRun(d, k, w) ==
  /\ psize = 0 /\ p = Nth(d, k)
  /\ work <= (w + 1 + 3 * k) + IF k = Size THEN 1 ELSE 0
  /\ nmerges > 1 => (nmerges - 1) * (2 * insize) < Size
  /\ k <= nmerges * (2 * insize) /\ (k < Size => k = nmerges * (2 * insize))
  /\ NewList(d, k) /\ OldList(d, k)
  /\ Merged(d, k) /\ RunsAscend(d, k, insize)

AtSplit(d, k, w) ==
  /\ work <= w + 2 + 3 * k + psize
  /\ psize < insize /\ k + psize < Size
  /\ p = Nth(d, k) /\ q = Nth(d, k + psize)
  /\ nmerges >= 1 /\ k = (nmerges - 1) * (2 * insize)
  /\ NewList(d, k) /\ OldList(d, k)
  /\ Merged(d, k) /\ RunsAscend(d, k, insize)

(* The new list has k elements, b of them from earlier runs; from these    *)
(* two it has those that are not greater than any of what is left of them: *)
(* m elements of the first run, and those of the second up to the s-th.    *)
Pair(d, k, b, m, s) ==
  /\ RunFollows(d, k, k + m) /\ OldList(d, k + m)
  /\ Merged(d, b) /\ RunsAscend(d, b + 2 * insize, insize)
  /\ Ascends(d, b, k) /\ Ascends(d, k, k + m) /\ Ascends(d, k + m, s)
  /\ \A i, j \in 1 .. Size : b < i /\ i <= k /\ k < j /\ j <= s => key[d[i]] <= key[d[j]]

(* The first run had o elements.                                           *)
AtMerge(d, k, b, w) ==
  /\ \E o \in 1 .. insize : b + o <= Size /\ work <= w + 2 + 2 * b + o + k
  /\ nmerges >= 1 /\ b = (nmerges - 1) * (2 * insize) /\ b <= k /\ k + psize <= Size
  /\ (k + psize) + qsize <= b + 2 * insize
  /\ k + psize < Size => (k + psize) + qsize = b + 2 * insize
  /\ psize > 0 => p = Nth(d, k)
  /\ q = Nth(d, k + psize)
  /\ NewList(d, k) /\ Pair(d, k, b, psize, (k + psize) + qsize)

(* There have been j passes, and a list of n elements needs more.          *)
IsPower(f, n) == f = [i \in 0 .. n |-> IF i = 0 THEN 1 ELSE Doubled(f[i - 1])]

Affordable(w) ==
  \E j \in 0 .. Size - 1 :
    /\ j + 1 <= insize /\ (j > 0 => insize < Size)
    /\ \A f : IsPower(f, Size) => f[j] = insize
    /\ w <= (3 * Size + 3) * j

Stands ==
  \E d \in Orders, w \in Nat :
    /\ InOrder(d) /\ Affordable(w)
    /\ \/ pc = "pass" /\ AtPass(d, w)
       \/ pc = "run" /\ \E k \in 0 .. Size : AtRun(d, k, w)
       \/ pc = "split" /\ \E k \in 0 .. Size : AtSplit(d, k, w)
       \/ pc = "merge" /\ \E k, b \in 0 .. Size : AtMerge(d, k, b, w)

SInv ==
  /\ SortTypeOK /\ Apart /\ WalkSound /\ ListsIntact
  /\ (sorting = Null <=> pc = "no")
  /\ sorting = Null => psize = 0 /\ qsize = 0 /\ work = 0
  /\ sorting # Null =>
       /\ walked = Null /\ insize >= 1 /\ Size # 0
       /\ key \in [Members(sorting) -> 1 .. MaxKey]
       /\ Stands

-----------------------------------------------------------------------------
(* The elements of the list that is being sorted.                          *)
LEMMA Sorting ==
  ASSUME SInv, sorting # Null
  PROVE  /\ sorting \in Lists /\ contents[sorting] \in Seq(Nodes)
         /\ Size \in Nat /\ Size >= 1 /\ insize \in Nat /\ insize >= 1
         /\ Members(sorting) \subseteq Nodes /\ Null \notin Members(sorting)
         /\ \A x \in Members(sorting) : key[x] \in Nat
         /\ \A x \in Members(sorting) :
              /\ IndexOf(sorting, x) \in 1 .. Size
              /\ contents[sorting][IndexOf(sorting, x)] = x
  <1>1. TypeOK /\ sorting \in Lists /\ insize \in Nat /\ insize >= 1
    BY DEF SInv, SortTypeOK
  <1>2. contents[sorting] \in Seq(Nodes)
    BY <1>1 DEF TypeOK
  <1>3. Size \in Nat /\ Size # 0
    BY <1>2, LenProperties DEF Size, SInv
  <1>4. Size >= 1
    BY <1>3
  <1>5. Members(sorting) = {contents[sorting][i] : i \in 1 .. Size}
    BY <1>2, LenProperties DEF Members, Range, Size
  <1>6. Members(sorting) \subseteq Nodes
    BY <1>2, <1>5, Elements DEF Size
  <1>7. Null \notin Members(sorting)
    BY <1>6, NullAssumption
  <1>8. ASSUME NEW x \in Members(sorting) PROVE key[x] \in Nat
    <2>1. key \in [Members(sorting) -> 1 .. MaxKey]
      BY DEF SInv
    <2> QED
      BY <2>1, MaxKeyAssumption
  <1>9. ASSUME NEW x \in Members(sorting)
        PROVE  IndexOf(sorting, x) \in 1 .. Size /\ contents[sorting][IndexOf(sorting, x)] = x
    BY <1>1, Found DEF Size
  <1> QED
    BY <1>1, <1>2, <1>3, <1>4, <1>6, <1>7, <1>8, <1>9

LEMMA Ordered ==
  ASSUME SInv, sorting # Null, NEW d \in Orders, InOrder(d)
  PROVE  /\ \A i \in 1 .. Size : /\ d[i] \in Members(sorting) /\ d[i] \in Nodes
                                 /\ d[i] # Null /\ key[d[i]] \in Nat
                                 /\ IndexOf(sorting, d[i]) \in Nat
         /\ \A i, j \in 1 .. Size : d[i] = d[j] => i = j
         /\ d \in Seq(Nodes) /\ Len(d) = Size
  <1>1. ASSUME NEW i \in 1 .. Size
        PROVE  /\ d[i] \in Members(sorting) /\ d[i] \in Nodes
               /\ d[i] # Null /\ key[d[i]] \in Nat
               /\ IndexOf(sorting, d[i]) \in Nat
    <2>1. d[i] \in Members(sorting)
      BY DEF Orders
    <2> QED
      BY <2>1, Sorting
  <1>2. ASSUME NEW i \in 1 .. Size, NEW j \in 1 .. Size, d[i] = d[j] PROVE i = j
    <2>1. ~(i < j) /\ ~(j < i)
      BY <1>2 DEF InOrder
    <2> QED
      BY <2>1, Sorting
  <1>3. d \in [1 .. Size -> Nodes] /\ Size \in Nat
    BY Sorting DEF Orders
  <1>4. d \in Seq(Nodes) /\ Len(d) = Size
    <2>1. d \in Seq(Nodes)
      BY <1>3, SeqDef
    <2>2. DOMAIN d = 1 .. Size
      BY <1>3
    <2>3. Len(d) \in Nat /\ DOMAIN d = 1 .. Len(d)
      BY <2>1, LenProperties
    <2>4. Len(d) = Size
      <3> DEFINE n == Size
                 m == Len(d)
      <3>1. n \in Nat /\ m \in Nat /\ 1 .. n = 1 .. m
        BY <1>3, <2>2, <2>3
      <3> HIDE DEF n, m
      <3>2. m = n
        <4>1. CASE m < n
          <5>1. n \in 1 .. n /\ n \notin 1 .. m
            BY <3>1, <4>1
          <5> QED
            BY <3>1, <5>1
        <4>2. CASE n < m
          <5>1. m \in 1 .. m /\ m \notin 1 .. n
            BY <3>1, <4>2
          <5> QED
            BY <3>1, <5>1
        <4> QED
          BY <3>1, <4>1, <4>2
      <3> QED
        BY <3>2 DEF n, m
    <2> QED
      BY <2>1, <2>4
  <1> QED
    BY <1>1, <1>2, <1>4

(* An iteration of a loop changes pointers of the list that is being       *)
(* sorted, and none of another list.                                       *)
Iterates ==
  /\ UNCHANGED <<kind, contents, walkVars, sorting, key>>
  /\ head' \in [Lists -> Cells] /\ next' \in [Nodes -> Cells] /\ prev' \in [Nodes -> Cells]
  /\ \A l \in Lists : l # sorting => head'[l] = head[l]
  /\ \A x \in Nodes \ Members(sorting) : next'[x] = next[x] /\ prev'[x] = prev[x]

LEMMA OthersKept ==
  ASSUME SInv, sorting # Null, NEW l \in Lists, l # sorting, contents'[l] = contents[l],
         kind' = kind, head'[l] = head[l],
         \A x \in Nodes \ Members(sorting) : next'[x] = next[x] /\ prev'[x] = prev[x]
  PROVE  Represents(kind', head'[l], next', prev', contents'[l])
  <1>1. Represents(kind, head[l], next, prev, contents[l])
    BY DEF SInv, ListsIntact
  <1>2. ASSUME NEW i \in 1 .. Len(contents[l])
        PROVE  /\ next'[contents[l][i]] = next[contents[l][i]]
               /\ prev'[contents[l][i]] = prev[contents[l][i]]
    <2>1. contents[l] \in Seq(Nodes)
      BY DEF SInv, SortTypeOK, TypeOK
    <2>2. contents[l][i] \in Nodes
      BY <2>1, Elements
    <2>3. contents[l][i] \notin Members(sorting)
      <3> SUFFICES ASSUME contents[l][i] \in Members(sorting) PROVE FALSE
        OBVIOUS
      <3>1. PICK j \in 1 .. Len(contents[sorting]) : contents[sorting][j] = contents[l][i]
        BY Sorting DEF Size
      <3> QED
        BY <3>1, Sorting DEF SInv, Apart
    <2> QED
      BY <2>2, <2>3
  <1>3. Represents(kind, head[l], next', prev', contents[l])
    BY <1>1, <1>2, Untouched
  <1> QED
    BY <1>3

LEMMA IterationKeeps ==
  ASSUME SInv, sorting # Null, Iterates, Stands',
         p' \in Cells, q' \in Cells, tail' \in Cells, oldhead' \in Cells,
         insize' \in Nat, insize' >= 1, nmerges' \in Nat, work' \in Nat,
         psize' \in 0 .. insize', qsize' \in 0 .. insize',
         pc' \in {"pass", "run", "split", "merge"}
  PROVE  SInv'
  <1>1. TypeOK'
    BY DEF SInv, SortTypeOK, TypeOK, Iterates, walkVars
  <1>2. SortTypeOK'
    BY <1>1 DEF SInv, SortTypeOK, Iterates
  <1>3. Apart'
    BY DEF SInv, Apart, Iterates
  <1>4. WalkSound' /\ walked' = Null
    BY DEF SInv, WalkSound, Iterates, walkVars
  <1>5. ListsIntact'
    BY OthersKept DEF ListsIntact, Iterates
  <1>6. sorting' # Null /\ pc' # "no"
    BY DEF Iterates
  <1>7. Size' # 0
    BY DEF SInv, Size, Iterates
  <1>8. (key \in [Members(sorting) -> 1 .. MaxKey])'
    BY DEF SInv, Members, Iterates
  <1> QED
    BY <1>2, <1>3, <1>4, <1>5, <1>6, <1>7, <1>8 DEF SInv

(* What an iteration leaves alone with the elements and their keys.        *)
LEMMA OrderKept ==
  ASSUME UNCHANGED <<contents, sorting, key>>
  PROVE  /\ Size' = Size /\ Members(sorting)' = Members(sorting) /\ Orders' = Orders
         /\ \A d : InOrder(d)' = InOrder(d)
         /\ \A d, a, b : Ascends(d, a, b)' = Ascends(d, a, b)
         /\ \A d, a, b : RunsAscend(d, a, b)' = RunsAscend(d, a, b)
         /\ \A d, a : Nth(d, a)' = Nth(d, a)
  <1>1. Size' = Size /\ Members(sorting)' = Members(sorting)
    BY DEF Size, Members
  <1>2. Orders' = Orders
    BY <1>1 DEF Orders
  <1>3. ASSUME NEW d PROVE InOrder(d)' = InOrder(d)
    BY <1>1 DEF InOrder, IndexOf
  <1>4. ASSUME NEW d, NEW a, NEW b PROVE Ascends(d, a, b)' = Ascends(d, a, b)
    BY <1>1 DEF Ascends
  <1>5. ASSUME NEW d, NEW a, NEW b PROVE RunsAscend(d, a, b)' = RunsAscend(d, a, b)
    BY <1>4 DEF RunsAscend
  <1>6. ASSUME NEW d, NEW a PROVE Nth(d, a)' = Nth(d, a)
    BY <1>1 DEF Nth
  <1> QED
    BY <1>1, <1>2, <1>3, <1>4, <1>5, <1>6

LEMMA AffordableKept ==
  ASSUME UNCHANGED <<contents, sorting, insize>>, NEW w
  PROVE  Affordable(w)' = Affordable(w)
  BY DEF Affordable, Size

-----------------------------------------------------------------------------
(* The pointers.                                                           *)

(* Where the next element of the old list is.                              *)
LEMMA AfterTyped ==
  ASSUME SInv, NEW x \in Nodes
  PROVE  After(x) \in Cells
  BY DEF SInv, SortTypeOK, TypeOK, After, Cells

LEMMA NthTyped ==
  ASSUME SInv, sorting # Null, NEW d \in Orders, InOrder(d), NEW a \in Nat
  PROVE  /\ Nth(d, a) \in Cells /\ (Nth(d, a) = Null <=> a >= Size)
         /\ a < Size => Nth(d, a) = d[a + 1] /\ a + 1 \in 1 .. Size
  <1>1. Size \in Nat
    BY Sorting
  <1>2. CASE a < Size
    <2>1. a + 1 \in 1 .. Size
      BY <1>1, <1>2
    <2>2. d[a + 1] \in Nodes /\ d[a + 1] # Null
      BY <2>1, Ordered
    <2> QED
      BY <1>1, <1>2, <2>1, <2>2 DEF Nth, Cells
  <1>3. CASE ~(a < Size)
    BY <1>1, <1>3 DEF Nth, Cells
  <1> QED
    BY <1>2, <1>3

(* The new list of k elements, the first ones in the order e, gets one     *)
(* more.                                                                   *)
LEMMA AppendedIs ==
  ASSUME SInv, sorting # Null, UNCHANGED <<kind, contents, walkVars, sorting, key, oldhead>>,
         NEW d \in Orders, NEW e \in Orders, InOrder(d), InOrder(e),
         NEW k \in Nat, k < Size, NewList(d, k),
         \A i \in 1 .. Size : i <= k => e[i] = d[i],
         Appended(e[k + 1])
  PROVE  /\ NewList(e, k + 1)' /\ Iterates /\ tail' \in Cells
         /\ \A i \in 1 .. Size : i > k => After(e[i])' = After(e[i])
  <1> DEFINE n == Size
             x == e[k + 1]
  <1>1. /\ n \in Nat /\ sorting \in Lists
        /\ Members(sorting) \subseteq Nodes /\ Null \notin Members(sorting)
    BY Sorting
  <1>2. k + 1 \in 1 .. n
    BY <1>1
  <1>3. /\ head \in [Lists -> Cells] /\ next \in [Nodes -> Cells] /\ prev \in [Nodes -> Cells]
    BY DEF SInv, SortTypeOK, TypeOK
  <1>4. /\ \A i \in 1 .. n : e[i] \in Members(sorting) /\ e[i] \in Nodes /\ e[i] # Null
        /\ \A i, j \in 1 .. n : e[i] = e[j] => i = j
    BY Ordered
  <1>5. /\ x \in Members(sorting) /\ x \in Nodes /\ x # Null /\ x \in Cells
    BY <1>2, <1>4 DEF Cells
  <1>6. CASE k = 0
    <2>1. tail = Null /\ head[sorting] = Null
      BY <1>6 DEF NewList
    <2>2. /\ head' = [head EXCEPT ![sorting] = x] /\ next' = next /\ tail' = x
          /\ prev' = IF kind = "LL" THEN prev ELSE [prev EXCEPT ![x] = tail]
      BY <2>1 DEF Appended
    <2>3. tail \in Cells
      BY <2>1 DEF Cells
    <2>4. Iterates
      BY <1>1, <1>3, <1>5, <2>2, <2>3 DEF Iterates
    <2>5. head'[sorting] = x /\ x = e[1] /\ tail' = e[k + 1]
      BY <1>1, <1>3, <1>6, <2>2
    <2>6. NewList(e, k + 1)'
      BY <1>1, <1>6, <2>5 DEF NewList, Size
    <2>7. \A i \in 1 .. n : After(e[i])' = After(e[i])
      BY <2>2 DEF After
    <2> QED
      BY <1>5, <2>2, <2>4, <2>6, <2>7
  <1>7. CASE k # 0
    <2>1. k \in 1 .. n /\ k >= 1 /\ 1 \in 1 .. n
      BY <1>1, <1>7
    <2>2. tail = e[k] /\ head[sorting] = e[1]
      BY <1>7, <2>1 DEF NewList
    <2>3. tail \in Members(sorting) /\ tail \in Nodes /\ tail # Null /\ tail \in Cells
      BY <1>4, <2>1, <2>2 DEF Cells
    <2>4. /\ head' = head /\ next' = [next EXCEPT ![tail] = x] /\ tail' = x
          /\ prev' = IF kind = "LL" THEN prev ELSE [prev EXCEPT ![x] = tail]
      BY <2>3 DEF Appended
    <2>5. Iterates
      BY <1>1, <1>3, <1>5, <2>3, <2>4 DEF Iterates
    <2>6. ASSUME NEW i \in 1 .. n, i # k PROVE next'[e[i]] = next[e[i]]
      BY <1>3, <1>4, <2>1, <2>2, <2>4, <2>6
    <2>7. next'[e[k]] = e[k + 1]
      BY <1>3, <2>2, <2>3, <2>4
    <2>8. ASSUME NEW i \in 1 .. n, i < k PROVE next[e[i]] = e[i + 1]
      <3>1. i + 1 \in 1 .. n /\ i + 1 <= k /\ i <= k
        BY <1>1, <2>1, <2>8
      <3> QED
        BY <2>8, <3>1 DEF NewList
    <2>9. ASSUME NEW i \in 1 .. n, i < k + 1 PROVE next'[e[i]] = e[i + 1]
      <3>1. CASE i = k
        BY <2>7, <3>1
      <3>2. CASE i # k
        <4>1. i < k
          BY <1>1, <2>1, <2>9, <3>2
        <4> QED
          BY <2>6, <2>8, <3>2, <4>1
      <3> QED
        BY <3>1, <3>2
    <2>10. ASSUME kind # "LL", NEW i \in 1 .. n, 1 < i, i <= k + 1
           PROVE  prev'[e[i]] = e[i - 1]
      <3>1. CASE i = k + 1
        <4>1. i - 1 = k
          BY <3>1
        <4> QED
          BY <1>3, <1>5, <2>2, <2>4, <2>10, <3>1, <4>1
      <3>2. CASE i # k + 1
        <4>1. i <= k /\ i - 1 \in 1 .. n /\ i - 1 <= k
          BY <1>1, <2>1, <2>10, <3>2
        <4>2. prev[e[i]] = e[i - 1]
          BY <2>10, <4>1 DEF NewList
        <4>3. e[i] # x
          BY <1>2, <1>4, <3>2
        <4> QED
          BY <1>3, <1>4, <2>4, <2>10, <4>2, <4>3
      <3> QED
        BY <3>1, <3>2
    <2>11. (k + 1 = 0) = FALSE
      BY <2>1
    <2>12. NewList(e, k + 1)'
      BY <2>2, <2>4, <2>9, <2>10, <2>11 DEF NewList, Size
    <2>13. ASSUME NEW i \in 1 .. n, i > k PROVE After(e[i])' = After(e[i])
      <3>1. next'[e[i]] = next[e[i]]
        BY <2>1, <2>6, <2>13
      <3> QED
        BY <3>1 DEF After
    <2> QED
      BY <1>5, <2>4, <2>5, <2>12, <2>13
  <1> QED
    BY <1>6, <1>7

-----------------------------------------------------------------------------
(* The steps of a pass.                                                    *)

(* The list as a pass finds it.                                            *)
LEMMA WholeList ==
  ASSUME SInv, sorting # Null, NEW d \in Orders, InOrder(d),
         Represents(kind, head[sorting], next, prev, d)
  PROVE  /\ head[sorting] = d[1]
         /\ \A i \in 1 .. Size :
              next[d[i]] = IF i < Size THEN d[i + 1] ELSE EndOf(kind, d[1])
  <1>1. Size \in Nat /\ Size >= 1 /\ d \in Seq(Nodes) /\ Len(d) = Size
    BY Sorting, Ordered
  <1>2. d # <<>>
    BY <1>1, Elements
  <1> QED
    BY <1>1, <1>2 DEF Represents, LinkedForward

LEMMA PassBeginsStep ==
  ASSUME SInv, sorting # Null, PassBegins
  PROVE  SInv'
  <1>1. pc = "pass"
    BY DEF PassBegins, At
  <1>2. PICK d \in Orders, w \in Nat : InOrder(d) /\ Affordable(w) /\ AtPass(d, w)
    BY <1>1 DEF SInv, Stands
  <1>3. /\ Size \in Nat /\ Size >= 1 /\ sorting \in Lists /\ insize \in Nat /\ insize >= 1
        /\ \A i \in 1 .. Size : d[i] \in Nodes
        /\ \A i, j \in 1 .. Size : d[i] = d[j] => i = j
    BY <1>2, Sorting, Ordered
  <1>4. /\ head[sorting] = d[1]
        /\ \A i \in 1 .. Size :
             next[d[i]] = IF i < Size THEN d[i + 1] ELSE EndOf(kind, d[1])
    BY <1>2, WholeList DEF AtPass
  <1>5. 1 \in 1 .. Size /\ d[1] \in Nodes
    BY <1>3
  <1>6. /\ UNCHANGED <<kind, contents, walkVars, sorting, key, q, insize, psize, qsize>>
        /\ UNCHANGED <<next, prev>>
        /\ head' = [head EXCEPT ![sorting] = Null] /\ tail' = Null
        /\ p' = d[1] /\ oldhead' = d[1] /\ nmerges' = 0 /\ pc' = "run" /\ work' = work + 1
    BY <1>4 DEF PassBegins, At
  <1>7. /\ Size' = Size /\ Orders' = Orders /\ InOrder(d)' = InOrder(d)
        /\ RunsAscend(d, 0, insize)' = RunsAscend(d, 0, insize)
        /\ \A a : Nth(d, a)' = Nth(d, a)
        /\ Affordable(w)' = Affordable(w)
    <2>1. insize' = insize
      BY <1>6
    <2> QED
      BY <1>6, <2>1, OrderKept, AffordableKept DEF RunsAscend, Ascends
  <1>8. TypeOK
    BY DEF SInv, SortTypeOK
  <1>9. Iterates
    BY <1>3, <1>6, <1>8 DEF Iterates, TypeOK, Cells
  <1>10. work' <= (w + 1 + 3 * 0) + IF 0 = Size' THEN 1 ELSE 0
    <2>1. work \in Nat /\ work <= w
      BY <1>2 DEF SInv, SortTypeOK, AtPass
    <2> QED
      BY <1>3, <1>6, <1>7, <2>1
  <1>11. NewList(d, 0)'
    <2>1. head'[sorting'] = Null
      BY <1>3, <1>6, <1>8 DEF TypeOK
    <2> QED
      BY <1>3, <1>6, <1>7, <2>1 DEF NewList
  <1>12. OldList(d, 0)'
    <2>1. ASSUME NEW i \in 1 .. Size PROVE After(d[i])' = Nth(d, i)
      <3>1. CASE i < Size
        <4>1. i + 1 \in 1 .. Size /\ i + 1 # 1
          BY <1>3, <3>1
        <4>2. next[d[i]] = d[i + 1] /\ d[i + 1] # d[1]
          BY <1>3, <1>4, <1>5, <3>1, <4>1
        <4> QED
          BY <1>6, <3>1, <4>2 DEF After, Nth
      <3>2. CASE ~(i < Size)
        BY <1>4, <1>6, <3>2 DEF After, Nth, EndOf
      <3> QED
        BY <3>1, <3>2
    <2> QED
      BY <1>7, <2>1 DEF OldList
  <1>13. p' = Nth(d, 0)'
    BY <1>3, <1>6, <1>7 DEF Nth
  <1>14. Merged(d, 0)'
    BY <1>3, <1>7 DEF Merged
  <1>15. RunsAscend(d, 0, insize)'
    BY <1>2, <1>7 DEF AtPass
  <1>16. 0 <= nmerges' * (2 * insize') /\ 0 = nmerges' * (2 * insize')
    BY <1>3, <1>6
  <1>17. AtRun(d, 0, w)'
    <2>1. psize' = 0 /\ ~(nmerges' > 1)
      BY <1>2, <1>6 DEF AtPass
    <2> QED
      BY <1>10, <1>11, <1>12, <1>13, <1>14, <1>15, <1>16, <2>1 DEF AtRun
  <1>18. Stands'
    <2>1. 0 \in 0 .. Size'
      BY <1>3, <1>7
    <2>2. InOrder(d)' /\ Affordable(w)' /\ d \in Orders'
      BY <1>2, <1>7
    <2> QED
      BY <1>6, <1>17, <2>1, <2>2 DEF Stands
  <1> QED
    BY <1>3, <1>5, <1>6, <1>9, <1>18, IterationKeeps DEF SInv, SortTypeOK, Cells

LEMMA RunBeginsStep ==
  ASSUME SInv, sorting # Null, RunBegins
  PROVE  SInv'
  <1>1. pc = "run" /\ p # Null
    BY DEF RunBegins, At
  <1>2. PICK d \in Orders, w \in Nat, k \in 0 .. Size :
          InOrder(d) /\ Affordable(w) /\ AtRun(d, k, w)
    BY <1>1 DEF SInv, Stands
  <1>3. /\ Size \in Nat /\ Size >= 1 /\ insize \in Nat /\ insize >= 1 /\ k \in Nat
    BY <1>2, Sorting
  <1>4. /\ UNCHANGED <<kind, contents, walkVars, sorting, key, p, tail, oldhead, insize, qsize>>
        /\ UNCHANGED <<head, next, prev>>
        /\ q' = p /\ psize' = 0 /\ nmerges' = nmerges + 1 /\ pc' = "split" /\ work' = work + 1
    BY DEF RunBegins, At, pointers
  <1>5. /\ Size' = Size /\ Orders' = Orders /\ InOrder(d)' = InOrder(d)
        /\ Affordable(w)' = Affordable(w)
        /\ \A a : Nth(d, a)' = Nth(d, a)
    BY <1>4, OrderKept, AffordableKept
  <1>6. TypeOK /\ nmerges \in Nat /\ work \in Nat /\ p \in Cells
    BY DEF SInv, SortTypeOK
  <1>7. Iterates
    BY <1>4, <1>6 DEF Iterates, TypeOK
  <1>8. k < Size /\ k = nmerges * (2 * insize)
    <2>1. k < Size
      BY <1>1, <1>2, <1>3, NthTyped DEF AtRun
    <2> QED
      BY <1>2, <2>1 DEF AtRun
  <1>9. work' <= w + 2 + 3 * k + psize'
    <2>1. work <= (w + 1 + 3 * k) + 0
      BY <1>2, <1>3, <1>8 DEF AtRun
    <2> QED
      BY <1>3, <1>4, <1>6, <2>1
  <1>10. NewList(d, k)' /\ OldList(d, k)' /\ Merged(d, k)' /\ RunsAscend(d, k, insize)'
    <2>1. NewList(d, k)'
      BY <1>2, <1>4, <1>5 DEF AtRun, NewList
    <2>2. OldList(d, k)'
      BY <1>2, <1>4, <1>5 DEF AtRun, OldList, After
    <2>3. Merged(d, k)'
      BY <1>2, <1>4, <1>5 DEF AtRun, Merged
    <2>4. RunsAscend(d, k, insize)'
      BY <1>2, <1>4, <1>5 DEF AtRun, RunsAscend, Ascends
    <2> QED
      BY <2>1, <2>2, <2>3, <2>4
  <1>11. AtSplit(d, k, w)'
    <2>1. psize' < insize' /\ k + psize' < Size' /\ k + psize' = k
      BY <1>3, <1>4, <1>5, <1>8
    <2>2. (p = Nth(d, k))' /\ (q = Nth(d, k + psize))'
      BY <1>2, <1>4, <1>5, <2>1 DEF AtRun, Nth
    <2>3. nmerges' >= 1 /\ nmerges' - 1 = nmerges
      BY <1>4, <1>6
    <2>4. k = (nmerges' - 1) * (2 * insize')
      BY <1>4, <1>8, <2>3
    <2> QED
      BY <1>9, <1>10, <2>1, <2>2, <2>3, <2>4 DEF AtSplit
  <1>12. Stands'
    <2>1. k \in 0 .. Size' /\ InOrder(d)' /\ Affordable(w)' /\ d \in Orders'
      BY <1>2, <1>5
    <2> QED
      BY <1>4, <1>11, <2>1 DEF Stands
  <1>13. 0 \in 0 .. insize
    BY <1>3
  <1> QED
    BY <1>3, <1>4, <1>6, <1>7, <1>12, <1>13, IterationKeeps DEF SInv, SortTypeOK

LEMMA RunsApart ==
  ASSUME NEW d, NEW a \in Nat, NEW s \in Nat, RunsAscend(d, a, s)
  PROVE  /\ Ascends(d, a, a + s) /\ Ascends(d, a + s, a + 2 * s)
         /\ RunsAscend(d, a + 2 * s, s)
  <1>1. Ascends(d, a, a + s)
    <2>1. Ascends(d, a + 0 * s, a + (0 + 1) * s)
      BY DEF RunsAscend
    <2>2. a + 0 * s = a /\ a + (0 + 1) * s = a + s
      OBVIOUS
    <2> QED
      BY <2>1, <2>2
  <1>2. Ascends(d, a + s, a + 2 * s)
    <2>1. Ascends(d, a + 1 * s, a + (1 + 1) * s)
      BY DEF RunsAscend
    <2>2. a + 1 * s = a + s /\ a + (1 + 1) * s = a + 2 * s
      OBVIOUS
    <2> QED
      BY <2>1, <2>2
  <1>3. ASSUME NEW r \in Nat
        PROVE  Ascends(d, (a + 2 * s) + r * s, (a + 2 * s) + (r + 1) * s)
    <2>1. r + 2 \in Nat
      OBVIOUS
    <2>2. Ascends(d, a + (r + 2) * s, a + ((r + 2) + 1) * s)
      BY <2>1 DEF RunsAscend
    <2>3. a + (r + 2) * s = (a + 2 * s) + r * s
      OBVIOUS
    <2>4. a + ((r + 2) + 1) * s = (a + 2 * s) + (r + 1) * s
      OBVIOUS
    <2> QED
      BY <2>2, <2>3, <2>4
  <1> QED
    BY <1>1, <1>2, <1>3 DEF RunsAscend

LEMMA SplitStep ==
  ASSUME SInv, sorting # Null, Split
  PROVE  SInv'
  <1>1. pc = "split"
    BY DEF Split, At
  <1>2. PICK d \in Orders, w \in Nat, k \in 0 .. Size :
          InOrder(d) /\ Affordable(w) /\ AtSplit(d, k, w)
    BY <1>1 DEF SInv, Stands
  <1>3. /\ Size \in Nat /\ Size >= 1 /\ insize \in Nat /\ insize >= 1 /\ k \in Nat
    BY <1>2, Sorting
  <1>4. /\ TypeOK /\ nmerges \in Nat /\ work \in Nat /\ psize \in Nat
        /\ p \in Cells /\ tail \in Cells /\ oldhead \in Cells /\ qsize \in 0 .. insize
    BY <1>3 DEF SInv, SortTypeOK
  <1>5. /\ UNCHANGED <<kind, contents, walkVars, sorting, key, p, tail, oldhead, insize, nmerges>>
        /\ UNCHANGED <<head, next, prev>>
        /\ psize' = psize + 1 /\ q' = After(q) /\ work' = work + 1
        /\ \/ (psize' = insize \/ q' = Null) /\ pc' = "merge" /\ qsize' = insize
           \/ psize' # insize /\ q' # Null /\ pc' = "split" /\ qsize' = qsize
    BY <1>1 DEF Split, At, pointers, RunFull
  <1>6. /\ Size' = Size /\ Orders' = Orders /\ InOrder(d)' = InOrder(d)
        /\ Affordable(w)' = Affordable(w)
    BY <1>5, OrderKept, AffordableKept
  <1>7. Iterates
    BY <1>4, <1>5 DEF Iterates, TypeOK
  <1> DEFINE m == psize + 1
  <1>8. /\ psize < insize /\ k + psize < Size
        /\ p = Nth(d, k) /\ q = Nth(d, k + psize)
        /\ nmerges >= 1 /\ k = (nmerges - 1) * (2 * insize)
        /\ work <= w + 2 + 3 * k + psize
        /\ NewList(d, k) /\ OldList(d, k) /\ Merged(d, k) /\ RunsAscend(d, k, insize)
    BY <1>2 DEF AtSplit
  <1>9. /\ m \in Nat /\ m >= 1 /\ m <= insize /\ k + m <= Size /\ k + m \in 1 .. Size
        /\ k < k + m /\ k < Size
    BY <1>3, <1>4, <1>8
  <1>10. q = d[k + m] /\ q \in Nodes
    <2>1. (k + psize) + 1 = k + m
      BY <1>3, <1>4
    <2>2. q = d[k + m]
      BY <1>8, <2>1 DEF Nth
    <2> QED
      BY <1>2, <1>9, <2>2, Ordered
  <1>11. q' = Nth(d, k + m) /\ q' \in Cells
    BY <1>5, <1>8, <1>9, <1>10, AfterTyped DEF OldList
  <1>12. q' = Null <=> k + m >= Size
    <2>1. k + m \in Nat
      BY <1>3, <1>9
    <2> QED
      BY <1>2, <1>11, <2>1, NthTyped
  <1>13. /\ NewList(d, k)' /\ OldList(d, k)' /\ Merged(d, k)' /\ RunsAscend(d, k, insize)'
    <2>1. NewList(d, k)'
      BY <1>8, <1>5, <1>6 DEF NewList
    <2>2. OldList(d, k)'
      BY <1>8, <1>5, <1>6 DEF OldList, After, Nth
    <2>3. Merged(d, k)'
      BY <1>8, <1>5, <1>6 DEF Merged
    <2>4. RunsAscend(d, k, insize)'
      BY <1>8, <1>5, <1>6 DEF RunsAscend, Ascends
    <2> QED
      BY <2>1, <2>2, <2>3, <2>4
  <1>14. psize' = m
    BY <1>5
  <1>15. k \in 0 .. Size' /\ InOrder(d)' /\ Affordable(w)' /\ d \in Orders'
    BY <1>2, <1>6
  <1>16. work' \in Nat /\ work' <= w + 2 + 3 * k + m
    BY <1>3, <1>4, <1>5, <1>8
  <1> HIDE DEF m
  <1>17. CASE psize' # insize /\ q' # Null /\ pc' = "split" /\ qsize' = qsize
    <2>1. m < insize /\ k + m < Size
      BY <1>3, <1>9, <1>12, <1>14, <1>17
    <2>2. (p = Nth(d, k))' /\ (q = Nth(d, k + psize))'
      BY <1>5, <1>6, <1>8, <1>11, <1>14 DEF Nth
    <2>3. AtSplit(d, k, w)'
      BY <1>5, <1>6, <1>8, <1>13, <1>14, <1>16, <2>1, <2>2 DEF AtSplit
    <2>4. Stands'
      BY <1>15, <1>17, <2>3 DEF Stands
    <2>5. psize' \in 0 .. insize'
      BY <1>3, <1>5, <1>9, <1>14
    <2> QED
      BY <1>3, <1>4, <1>5, <1>7, <1>11, <1>16, <1>17, <2>4, <2>5, IterationKeeps
  <1>18. CASE (psize' = insize \/ q' = Null) /\ pc' = "merge" /\ qsize' = insize
    <2>1. m = insize \/ k + m >= Size
      BY <1>12, <1>14, <1>18
    <2>2. (p = Nth(d, k))' /\ (q = Nth(d, k + psize))'
      BY <1>5, <1>6, <1>8, <1>11, <1>14 DEF Nth
    <2>3. RunFollows(d, k, k + psize)' /\ OldList(d, k + psize)'
      <3>1. ASSUME NEW i \in 1 .. Size, k < i, i < k + m PROVE After(d[i]) = d[i + 1]
        <4>1. i < Size
          BY <1>3, <1>9, <3>1
        <4>2. After(d[i]) = Nth(d, i)
          BY <1>8, <3>1 DEF OldList
        <4> QED
          BY <4>1, <4>2 DEF Nth
      <3>2. ASSUME NEW i \in 1 .. Size, k + m < i PROVE After(d[i]) = Nth(d, i)
        <4>1. k < i
          BY <1>3, <1>9, <3>2
        <4> QED
          BY <1>8, <4>1 DEF OldList
      <3>3. RunFollows(d, k, k + psize)'
        BY <1>5, <1>6, <1>14, <3>1 DEF RunFollows, After
      <3>4. OldList(d, k + psize)'
        BY <1>5, <1>6, <1>14, <3>2 DEF OldList, After, Nth
      <3> QED
        BY <3>3, <3>4
    <2>4. /\ Ascends(d, k, k + insize) /\ Ascends(d, k + insize, k + 2 * insize)
          /\ RunsAscend(d, k + 2 * insize, insize)
      BY <1>3, <1>8, RunsApart
    <2>5. Ascends(d, k, k + m)
      BY <1>3, <1>9, <2>4 DEF Ascends
    <2>6. Ascends(d, k + m, (k + m) + insize)
      <3>1. CASE m = insize
        <4>1. k + m = k + insize /\ (k + m) + insize = k + 2 * insize
          BY <1>3, <3>1
        <4> QED
          BY <2>4, <4>1
      <3>2. CASE k + m >= Size
        BY <1>3, <1>9, <3>2 DEF Ascends
      <3> QED
        BY <2>1, <3>1, <3>2
    <2>7. Ascends(d, k, k)
      BY <1>3 DEF Ascends
    <2>8. (/\ RunsAscend(d, k + 2 * insize, insize) /\ Ascends(d, k, k)
           /\ Ascends(d, k, k + psize) /\ Ascends(d, k + psize, (k + psize) + qsize))'
      <3>1. RunsAscend(d, k + 2 * insize, insize)'
        BY <1>5, <1>6, <2>4 DEF RunsAscend, Ascends
      <3>2. Ascends(d, k, k)'
        BY <1>5, <1>6, <2>7 DEF Ascends
      <3>3. Ascends(d, k, k + psize)'
        BY <1>5, <1>6, <1>14, <2>5 DEF Ascends
      <3>4. Ascends(d, k + psize, (k + psize) + qsize)'
        BY <1>5, <1>6, <1>14, <1>18, <2>6 DEF Ascends
      <3> QED
        BY <3>1, <3>2, <3>3, <3>4
    <2>9. /\ (k + m) + insize <= k + 2 * insize
          /\ k + m < Size => (k + m) + insize = k + 2 * insize
      BY <1>3, <1>9, <2>1
    <2>10. \E o \in 1 .. insize : k + o <= Size /\ work' <= w + 2 + 2 * k + o + k
      <3>1. m \in 1 .. insize /\ k + m <= Size
        BY <1>3, <1>9
      <3>2. work' <= w + 2 + 2 * k + m + k
        BY <1>3, <1>9, <1>16
      <3> QED
        BY <3>1, <3>2
    <2>11. AtMerge(d, k, k, w)'
      <3>1. k <= k /\ (psize > 0 => p = Nth(d, k))'
        BY <1>3, <2>2
      <3>2. \A i, j \in 1 .. Size : ~(k < i /\ i <= k)
        BY <1>3
      <3>3. /\ (nmerges >= 1 /\ k = (nmerges - 1) * (2 * insize))'
            /\ (k + psize <= Size /\ (k + psize) + qsize <= k + 2 * insize)'
            /\ (k + psize < Size => (k + psize) + qsize = k + 2 * insize)'
        BY <1>5, <1>6, <1>8, <1>9, <1>14, <1>18, <2>9
      <3>4. (\E o \in 1 .. insize : k + o <= Size /\ work <= w + 2 + 2 * k + o + k)'
        BY <1>5, <1>6, <2>10
      <3>5. (\A i, j \in 1 .. Size : k < i /\ i <= k /\ k < j /\ j <= (k + psize) + qsize
               => key[d[i]] <= key[d[j]])'
        BY <1>6, <3>2
      <3> QED
        BY <1>13, <2>2, <2>3, <2>8, <3>1, <3>3, <3>4, <3>5 DEF AtMerge, Pair
    <2>12. Stands'
      BY <1>15, <1>18, <2>11 DEF Stands
    <2>13. psize' \in 0 .. insize' /\ qsize' \in 0 .. insize'
      BY <1>3, <1>5, <1>9, <1>14, <1>18
    <2> QED
      BY <1>3, <1>4, <1>5, <1>7, <1>11, <1>16, <1>18, <2>12, <2>13, IterationKeeps
  <1> QED
    BY <1>5, <1>17, <1>18

(* A pair of runs is merged: the new list has a longer run more.           *)
LEMMA MergedPair ==
  ASSUME NEW d, NEW b \in Nat, NEW k \in Nat, NEW a \in Nat,
         Size \in Nat, insize \in Nat, b = a * (2 * insize),
         Merged(d, b), Ascends(d, b, k)
  PROVE  Merged(d, k)
  <1> DEFINE t == 2 * insize
  <1>1. t \in Nat /\ b = a * t
    OBVIOUS
  <1>2. ASSUME NEW r \in Nat, NEW i \in 1 .. Size, NEW j \in 1 .. Size,
               r * t < i, i < j, j <= (r + 1) * t, j <= k
        PROVE  key[d[i]] <= key[d[j]]
    <2>1. CASE j <= b
      BY <1>2, <2>1 DEF Merged
    <2>2. CASE ~(j <= b)
      <3>1. b < (r + 1) * t /\ (r + 1) * t \in Nat
        BY <1>1, <1>2, <2>2
      <3>2. a <= r
        <4>1. SUFFICES ASSUME r + 1 <= a PROVE FALSE
          OBVIOUS
        <4>2. (r + 1) * t <= a * t
          BY <1>1, <4>1
        <4> QED
          BY <1>1, <3>1, <4>2
      <3>3. a * t <= r * t /\ r * t \in Nat
        BY <1>1, <3>2
      <3>4. b < i
        BY <1>1, <1>2, <3>3
      <3> QED
        BY <1>2, <3>4 DEF Ascends
    <2> QED
      BY <2>1, <2>2
  <1> QED
    BY <1>2 DEF Merged

LEMMA RunEndsStep ==
  ASSUME SInv, sorting # Null, RunEnds
  PROVE  SInv'
  <1>1. pc = "merge" /\ psize = 0 /\ ~(qsize > 0 /\ q # Null)
    BY DEF RunEnds, At, SecondLeft
  <1>2. PICK d \in Orders, w \in Nat, k \in 0 .. Size, b \in 0 .. Size :
          InOrder(d) /\ Affordable(w) /\ AtMerge(d, k, b, w)
    BY <1>1 DEF SInv, Stands
  <1>3. /\ Size \in Nat /\ Size >= 1 /\ insize \in Nat /\ insize >= 1
        /\ k \in Nat /\ b \in Nat /\ k <= Size
    BY <1>2, Sorting
  <1>4. /\ TypeOK /\ nmerges \in Nat /\ work \in Nat /\ q \in Cells /\ qsize \in Nat
        /\ p \in Cells /\ tail \in Cells /\ oldhead \in Cells
        /\ psize \in 0 .. insize /\ qsize \in 0 .. insize
    BY <1>3 DEF SInv, SortTypeOK
  <1>5. /\ UNCHANGED <<kind, contents, walkVars, sorting, key, q, tail, oldhead>>
        /\ UNCHANGED <<head, next, prev, insize, nmerges, psize, qsize>>
        /\ p' = q /\ pc' = "run" /\ work' = work + 1
    BY DEF RunEnds, At, pointers, counters
  <1>6. /\ Size' = Size /\ Orders' = Orders /\ InOrder(d)' = InOrder(d)
        /\ Affordable(w)' = Affordable(w)
    BY <1>5, OrderKept, AffordableKept
  <1>7. Iterates
    BY <1>4, <1>5 DEF Iterates, TypeOK
  <1>8. /\ nmerges >= 1 /\ b = (nmerges - 1) * (2 * insize) /\ b <= k
        /\ (k + psize) + qsize <= b + 2 * insize
        /\ k + psize < Size => (k + psize) + qsize = b + 2 * insize
        /\ q = Nth(d, k + psize)
        /\ NewList(d, k) /\ OldList(d, k + psize)
        /\ Merged(d, b) /\ RunsAscend(d, b + 2 * insize, insize) /\ Ascends(d, b, k)
    BY <1>2 DEF AtMerge, Pair
  <1>9. PICK o \in 1 .. insize : b + o <= Size /\ work <= w + 2 + 2 * b + o + k
    BY <1>2 DEF AtMerge
  <1>10. k + psize = k
    BY <1>1, <1>3
  <1>11. q = Nth(d, k) /\ (q = Null <=> k = Size)
    <2>1. q = Nth(d, k)
      BY <1>8, <1>10
    <2> QED
      BY <1>2, <1>3, <2>1, NthTyped
  <1>12. k < Size => k = b + 2 * insize
    BY <1>1, <1>3, <1>4, <1>8, <1>11
  <1>13. b + 2 * insize = nmerges * (2 * insize)
    <2>1. nmerges - 1 \in Nat /\ (nmerges - 1) + 1 = nmerges /\ 2 * insize \in Nat
      BY <1>3, <1>4, <1>8
    <2>2. ((nmerges - 1) + 1) * (2 * insize) = (nmerges - 1) * (2 * insize) + 2 * insize
      BY <2>1
    <2> QED
      BY <1>8, <2>1, <2>2
  <1>14. work' <= (w + 1 + 3 * k) + IF k = Size THEN 1 ELSE 0
    <2>1. CASE k = Size
      <3>1. o <= k - b /\ 1 <= o /\ work + 1 <= w + 3 + 2 * b + o + k
        BY <1>3, <1>4, <1>9, <2>1
      <3>2. work + 1 <= (w + 1 + 3 * k) + 1
        BY <1>3, <1>4, <3>1
      <3> QED
        BY <1>5, <2>1, <3>2
    <2>2. CASE k # Size
      <3>1. k = b + 2 * insize /\ o <= insize /\ work + 1 <= w + 3 + 2 * b + o + k
        BY <1>3, <1>4, <1>9, <1>12, <2>2
      <3>2. work + 1 <= w + 1 + 3 * k
        BY <1>3, <1>4, <3>1
      <3> QED
        BY <1>3, <1>4, <1>5, <2>2, <3>2
    <2> QED
      BY <2>1, <2>2
  <1>15. nmerges > 1 => (nmerges - 1) * (2 * insize) < Size
    BY <1>3, <1>8, <1>9
  <1>16. /\ k <= nmerges * (2 * insize)
         /\ k < Size => k = nmerges * (2 * insize)
    BY <1>3, <1>4, <1>8, <1>10, <1>12, <1>13
  <1>17. Merged(d, k)
    <2>1. nmerges - 1 \in Nat
      BY <1>4, <1>8
    <2> QED
      BY <1>3, <1>8, <2>1, MergedPair
  <1>18. RunsAscend(d, k, insize)
    <2>1. CASE k < Size
      BY <1>8, <1>12, <2>1
    <2>2. CASE ~(k < Size)
      <3>1. ASSUME NEW r \in Nat, NEW i \in 1 .. Size PROVE ~(k + r * insize < i)
        <4>1. r * insize \in Nat
          BY <1>3
        <4> QED
          BY <1>3, <2>2, <4>1
      <3> QED
        BY <3>1 DEF RunsAscend, Ascends
    <2> QED
      BY <2>1, <2>2
  <1>19. OldList(d, k)
    BY <1>8, <1>10
  <1>20. NewList(d, k)' /\ OldList(d, k)' /\ Merged(d, k)' /\ RunsAscend(d, k, insize)'
    <2>1. NewList(d, k)'
      BY <1>8, <1>5, <1>6 DEF NewList
    <2>2. OldList(d, k)'
      BY <1>19, <1>5, <1>6 DEF OldList, After, Nth
    <2>3. Merged(d, k)'
      BY <1>17, <1>5, <1>6 DEF Merged
    <2>4. RunsAscend(d, k, insize)'
      BY <1>18, <1>5, <1>6 DEF RunsAscend, Ascends
    <2> QED
      BY <2>1, <2>2, <2>3, <2>4
  <1>21. AtRun(d, k, w)'
    <2>1. psize' = 0 /\ (p = Nth(d, k))'
      BY <1>1, <1>5, <1>6, <1>11 DEF Nth
    <2>2. (work <= (w + 1 + 3 * k) + IF k = Size THEN 1 ELSE 0)'
      BY <1>6, <1>14
    <2>3. (/\ nmerges > 1 => (nmerges - 1) * (2 * insize) < Size
           /\ k <= nmerges * (2 * insize)
           /\ k < Size => k = nmerges * (2 * insize))'
      BY <1>5, <1>6, <1>15, <1>16
    <2> QED
      BY <1>20, <2>1, <2>2, <2>3 DEF AtRun
  <1>22. Stands'
    <2>1. k \in 0 .. Size' /\ InOrder(d)' /\ Affordable(w)' /\ d \in Orders'
      BY <1>2, <1>6
    <2> QED
      BY <1>5, <1>21, <2>1 DEF Stands
  <1> QED
    BY <1>3, <1>4, <1>5, <1>7, <1>22, IterationKeeps

-----------------------------------------------------------------------------
(* The end of a pass: all elements are in the new list.                    *)
LEMMA ClosedIs ==
  ASSUME SInv, sorting # Null, NEW d \in Orders, InOrder(d), NewList(d, Size), Closed
  PROVE  /\ Represents(kind, head'[sorting], next', prev', d)
         /\ head' = head /\ next' \in [Nodes -> Cells] /\ prev' \in [Nodes -> Cells]
         /\ \A x \in Nodes \ Members(sorting) : next'[x] = next[x] /\ prev'[x] = prev[x]
  <1> DEFINE n == Size
  <1>1. /\ n \in Nat /\ n >= 1 /\ sorting \in Lists
        /\ \A i \in 1 .. n : d[i] \in Members(sorting) /\ d[i] \in Nodes
        /\ \A i, j \in 1 .. n : d[i] = d[j] => i = j
        /\ d \in Seq(Nodes) /\ Len(d) = n
    BY Sorting, Ordered
  <1>2. 1 \in 1 .. n /\ n \in 1 .. n /\ n # 0
    BY <1>1
  <1>3. TypeOK
    BY DEF SInv, SortTypeOK
  <1>4. /\ head[sorting] = d[1] /\ tail = d[n]
        /\ \A i \in 1 .. n : i < n => next[d[i]] = d[i + 1]
        /\ kind # "LL" => \A i \in 1 .. n : 1 < i /\ i <= n => prev[d[i]] = d[i - 1]
    BY <1>2 DEF NewList
  <1>5. EndOf(kind, d[1]) \in Cells /\ d[n] \in Cells
    BY <1>1, <1>2 DEF EndOf, Cells
  <1>6. /\ next' = [next EXCEPT ![d[n]] = EndOf(kind, d[1])]
        /\ prev' = IF kind = "LL" THEN prev ELSE [prev EXCEPT ![d[1]] = d[n]]
        /\ head' = head
    BY <1>4 DEF Closed
  <1> HIDE DEF n
  <1>7. next' \in [Nodes -> Cells] /\ prev' \in [Nodes -> Cells]
    BY <1>3, <1>5, <1>6 DEF TypeOK
  <1>8. \A x \in Nodes \ Members(sorting) : next'[x] = next[x] /\ prev'[x] = prev[x]
    BY <1>1, <1>2, <1>3, <1>6 DEF TypeOK
  <1>9. ASSUME NEW i \in 1 .. n
        PROVE  next'[d[i]] = IF i < n THEN d[i + 1] ELSE EndOf(kind, d[1])
    <2>1. CASE i = n
      BY <1>1, <1>2, <1>3, <1>6, <2>1 DEF TypeOK
    <2>2. CASE i # n
      <3>1. i < n /\ d[i] # d[n]
        BY <1>1, <1>2, <2>2
      <3> QED
        BY <1>1, <1>3, <1>4, <1>6, <3>1 DEF TypeOK
    <2> QED
      BY <2>1, <2>2
  <1>10. ASSUME kind # "LL", NEW i \in 1 .. n
         PROVE  prev'[d[i]] = IF i > 1 THEN d[i - 1] ELSE d[n]
    <2>1. CASE i = 1
      BY <1>1, <1>2, <1>3, <1>6, <1>10, <2>1 DEF TypeOK
    <2>2. CASE i # 1
      <3>1. 1 < i /\ i <= n /\ d[i] # d[1]
        BY <1>1, <1>2, <2>2
      <3> QED
        BY <1>1, <1>3, <1>4, <1>6, <1>10, <3>1 DEF TypeOK
    <2> QED
      BY <2>1, <2>2
  <1>11. d # <<>>
    BY <1>1, <1>2, Elements
  <1>12. LinkedForward(kind, head'[sorting], next', d)
    BY <1>1, <1>4, <1>6, <1>9, <1>11 DEF LinkedForward
  <1>13. kind # "LL" => LinkedBackward(prev', d)
    BY <1>1, <1>10 DEF LinkedBackward
  <1> QED
    BY <1>6, <1>7, <1>8, <1>12, <1>13 DEF Represents

(* The old list has come to its end.                                       *)
LEMMA AllMerged ==
  ASSUME SInv, sorting # Null, pc = "run", p = Null
  PROVE  \E d \in Orders, w \in Nat : InOrder(d) /\ Affordable(w) /\ AtRun(d, Size, w)
  <1>1. PICK d \in Orders, w \in Nat, k \in 0 .. Size :
          InOrder(d) /\ Affordable(w) /\ AtRun(d, k, w)
    BY DEF SInv, Stands
  <1>2. k \in Nat /\ Size \in Nat /\ k <= Size
    BY Sorting
  <1>3. k >= Size
    BY <1>1, <1>2, NthTyped DEF AtRun
  <1>4. k = Size
    BY <1>2, <1>3
  <1> QED
    BY <1>1, <1>4

LEMMA AnotherPass ==
  ASSUME SInv, sorting # Null, NEW w \in Nat, NEW v \in Nat, Affordable(w),
         UNCHANGED <<contents, sorting>>, insize' = Doubled(insize),
         2 * insize < Size, v <= w + 3 * Size + 3
  PROVE  Affordable(v)'
  <1>1. Size \in Nat /\ Size >= 1 /\ insize \in Nat /\ Size' = Size
    BY Sorting DEF Size
  <1>2. PICK j \in 0 .. Size - 1 :
          /\ j + 1 <= insize
          /\ \A f : IsPower(f, Size) => f[j] = insize
          /\ w <= (3 * Size + 3) * j
    BY DEF Affordable
  <1>3. insize' = 2 * insize
    BY <1>1 DEF Doubled
  <1>4. j \in Nat /\ j + 1 \in 0 .. Size - 1 /\ (j + 1) + 1 <= insize'
    BY <1>1, <1>2, <1>3
  <1>5. ASSUME NEW f, IsPower(f, Size) PROVE f[j + 1] = insize'
    <2>1. f[j] = insize
      BY <1>2, <1>5
    <2>2. j + 1 \in 0 .. Size /\ j + 1 # 0 /\ (j + 1) - 1 = j
      BY <1>1, <1>4
    <2>3. f[j + 1] = Doubled(f[(j + 1) - 1])
      BY <1>5, <2>2 DEF IsPower
    <2> QED
      BY <2>1, <2>2, <2>3
  <1>6. v <= (3 * Size + 3) * (j + 1)
    <2>1. (3 * Size + 3) * (j + 1) = (3 * Size + 3) * j + (3 * Size + 3)
      BY <1>1, <1>4
    <2>2. (3 * Size + 3) * j \in Nat
      BY <1>1, <1>4
    <2> QED
      BY <1>1, <1>2, <2>1, <2>2
  <1>7. insize' < Size'
    BY <1>1, <1>3
  <1> QED
    BY <1>1, <1>4, <1>5, <1>6, <1>7 DEF Affordable

LEMMA PassEndsStep ==
  ASSUME SInv, sorting # Null, PassEnds
  PROVE  SInv'
  <1>1. pc = "run" /\ p = Null /\ nmerges > 1 /\ Closed
    BY DEF PassEnds, At
  <1>2. PICK d \in Orders, w \in Nat : InOrder(d) /\ Affordable(w) /\ AtRun(d, Size, w)
    BY <1>1, AllMerged
  <1>3. /\ Size \in Nat /\ Size >= 1 /\ sorting \in Lists /\ insize \in Nat /\ insize >= 1
    BY Sorting
  <1>4. /\ TypeOK /\ nmerges \in Nat /\ work \in Nat
        /\ q \in Cells /\ p \in Cells /\ tail \in Cells /\ oldhead \in Cells
        /\ psize \in 0 .. insize /\ qsize \in 0 .. insize
    BY <1>3 DEF SInv, SortTypeOK
  <1>5. /\ UNCHANGED <<kind, contents, walkVars, sorting, key>>
        /\ UNCHANGED <<p, q, tail, oldhead, nmerges, psize, qsize>>
        /\ insize' = 2 * insize /\ insize' = Doubled(insize)
        /\ pc' = "pass" /\ work' = work + 1
    BY <1>3 DEF PassEnds, At, cursors, Doubled
  <1>6. Size' = Size /\ Orders' = Orders /\ InOrder(d)' = InOrder(d)
    BY <1>5, OrderKept
  <1>7. /\ psize = 0 /\ Merged(d, Size) /\ NewList(d, Size)
        /\ (nmerges - 1) * (2 * insize) < Size
        /\ work <= (w + 1 + 3 * Size) + 1
    BY <1>1, <1>2 DEF AtRun
  <1>8. /\ Represents(kind, head'[sorting], next', prev', d)
        /\ head' = head /\ next' \in [Nodes -> Cells] /\ prev' \in [Nodes -> Cells]
        /\ \A x \in Nodes \ Members(sorting) : next'[x] = next[x] /\ prev'[x] = prev[x]
    BY <1>1, <1>2, <1>7, ClosedIs
  <1>9. Iterates
    BY <1>4, <1>5, <1>8 DEF Iterates, TypeOK
  <1>10. 2 * insize < Size
    <2>1. nmerges - 1 \in Nat /\ 1 <= nmerges - 1 /\ 2 * insize \in Nat
      BY <1>1, <1>3, <1>4
    <2>2. 1 * (2 * insize) <= (nmerges - 1) * (2 * insize)
      BY <2>1
    <2>3. (nmerges - 1) * (2 * insize) \in Nat
      BY <2>1
    <2> QED
      BY <1>3, <1>7, <2>1, <2>2, <2>3
  <1>11. PICK v \in Nat : v = work + 1
    BY <1>4
  <1>12. Affordable(v)'
    <2>1. v <= w + 3 * Size + 3
      BY <1>3, <1>4, <1>7, <1>11
    <2> QED
      BY <1>2, <1>5, <1>10, <2>1, AnotherPass
  <1>13. RunsAscend(d, 0, insize)'
    <2> DEFINE t == 2 * insize
    <2>1. t \in Nat /\ insize' = t
      BY <1>3, <1>5
    <2>2. ASSUME NEW r \in Nat, NEW i \in 1 .. Size, NEW j \in 1 .. Size,
                 0 + r * t < i, i < j, j <= 0 + (r + 1) * t
          PROVE  key[d[i]] <= key[d[j]]
      <3>1. r * t \in Nat /\ (r + 1) * t \in Nat
        BY <2>1
      <3>2. r * t < i /\ j <= (r + 1) * t /\ j <= Size
        BY <1>3, <2>2, <3>1
      <3> QED
        BY <1>7, <2>2, <3>2 DEF Merged
    <2> HIDE DEF t
    <2> QED
      BY <1>5, <1>6, <2>1, <2>2 DEF RunsAscend, Ascends
  <1>14. AtPass(d, v)'
    <2>1. work' <= v /\ psize' = 0
      BY <1>5, <1>7, <1>11
    <2> QED
      BY <1>5, <1>8, <1>13, <2>1 DEF AtPass
  <1>15. Stands'
    <2>1. InOrder(d)' /\ d \in Orders'
      BY <1>2, <1>6
    <2> QED
      BY <1>5, <1>12, <1>14, <2>1 DEF Stands
  <1>16. psize' \in 0 .. insize' /\ qsize' \in 0 .. insize' /\ insize' \in Nat /\ insize' >= 1
    BY <1>3, <1>4, <1>5
  <1>17. work' \in Nat
    BY <1>4, <1>5
  <1> QED
    BY <1>4, <1>5, <1>9, <1>15, <1>16, <1>17, IterationKeeps

-----------------------------------------------------------------------------
(* The merge of two runs.                                                  *)

(* The element after the m ones that follow the k-th comes before them.    *)
Earlier(k, m, i) ==
  IF i = k + 1 THEN (k + m) + 1 ELSE IF k + 1 < i /\ i <= (k + m) + 1 THEN i - 1 ELSE i

LEMMA Moved ==
  ASSUME SInv, sorting # Null, NEW d \in Orders, InOrder(d),
         NEW k \in Nat, NEW m \in Nat, k + m < Size,
         \A i \in 1 .. Size : k < i /\ i <= k + m => key[d[(k + m) + 1]] < key[d[i]]
  PROVE  \E e \in Orders :
           InOrder(e) /\ \A i \in 1 .. Size : /\ Earlier(k, m, i) \in 1 .. Size
                                              /\ e[i] = d[Earlier(k, m, i)]
  <1> DEFINE n == Size
             h(i) == Earlier(k, m, i)
             f == [i \in 1 .. n |-> d[h(i)]]
  <1>1. n \in Nat
    BY Sorting
  <1>2. \A i \in 1 .. n : h(i) \in 1 .. n
    BY <1>1 DEF Earlier
  <1>3. /\ \A i \in 1 .. n : /\ d[i] \in Members(sorting) /\ key[d[i]] \in Nat
                             /\ IndexOf(sorting, d[i]) \in Nat
        /\ \A i, j \in 1 .. n : d[i] = d[j] => i = j
    BY Ordered
  <1>4. f \in Orders /\ \A i \in 1 .. n : f[i] = d[h(i)]
    BY <1>2, <1>3 DEF Orders
  <1> HIDE DEF f
  <1>5. ASSUME NEW x \in Members(sorting) PROVE \E i \in 1 .. n : f[i] = x
    <2>1. PICK j \in 1 .. n : d[j] = x
      BY DEF InOrder
    <2>2. \E i \in 1 .. n : h(i) = j
      <3>1. CASE j = (k + m) + 1
        <4>1. k + 1 \in 1 .. n /\ h(k + 1) = j
          BY <1>1, <3>1 DEF Earlier
        <4> QED
          BY <4>1
      <3>2. CASE k < j /\ j <= k + m
        <4>1. j + 1 \in 1 .. n /\ h(j + 1) = j
          BY <1>1, <3>2 DEF Earlier
        <4> QED
          BY <4>1
      <3>3. CASE j <= k \/ j > (k + m) + 1
        <4>1. h(j) = j
          BY <1>1, <3>3 DEF Earlier
        <4> QED
          BY <4>1
      <3> QED
        BY <1>1, <3>1, <3>2, <3>3
    <2> QED
      BY <1>4, <2>1, <2>2
  <1>6. ASSUME NEW i \in 1 .. n, NEW j \in 1 .. n, i < j
        PROVE  /\ f[i] # f[j]
               /\ key[f[i]] = key[f[j]] => IndexOf(sorting, f[i]) < IndexOf(sorting, f[j])
    <2>1. /\ h(i) \in 1 .. n /\ h(j) \in 1 .. n
          /\ f[i] = d[h(i)] /\ f[j] = d[h(j)]
      BY <1>2, <1>4
    <2>2. h(i) < h(j) \/ (h(i) = (k + m) + 1 /\ k < h(j) /\ h(j) <= k + m)
      BY <1>1, <1>6 DEF Earlier
    <2> HIDE DEF h
    <2>3. CASE h(i) < h(j)
      BY <2>1, <2>3 DEF InOrder
    <2>4. CASE h(i) = (k + m) + 1 /\ k < h(j) /\ h(j) <= k + m
      <3>1. key[d[h(i)]] < key[d[h(j)]]
        BY <2>1, <2>4
      <3>2. key[d[h(i)]] \in Nat /\ key[d[h(j)]] \in Nat
        BY <1>3, <2>1
      <3>3. h(i) # h(j)
        BY <1>1, <2>1, <2>4
      <3> QED
        BY <1>3, <2>1, <3>1, <3>2, <3>3
    <2> QED
      BY <2>2, <2>3, <2>4
  <1>7. InOrder(f)
    BY <1>5, <1>6 DEF InOrder
  <1> QED
    BY <1>2, <1>4, <1>7

(* The first run gives an element.                                         *)
LEMMA FirstGiven ==
  ASSUME SInv, sorting # Null, NEW d \in Orders, InOrder(d),
         NEW k \in Nat, NEW b \in Nat, NEW m \in Nat, NEW s \in Nat,
         b <= k, m > 0, k + m <= Size, Ascends(d, b, k),
         Ascends(d, k, k + m), Ascends(d, k + m, s),
         \A i, j \in 1 .. Size : b < i /\ i <= k /\ k < j /\ j <= s => key[d[i]] <= key[d[j]],
         k + m < s /\ k + m < Size => key[d[k + 1]] <= key[d[(k + m) + 1]],
         k + m <= s
  PROVE  /\ Ascends(d, b, k + 1) /\ Ascends(d, k + 1, k + m)
         /\ \A i, j \in 1 .. Size : b < i /\ i <= k + 1 /\ k + 1 < j /\ j <= s
              => key[d[i]] <= key[d[j]]
  <1> DEFINE n == Size
  <1>1. n \in Nat /\ k + 1 \in 1 .. n /\ \A i \in 1 .. n : key[d[i]] \in Nat
    BY Sorting, Ordered
  <1> HIDE DEF n
  <1>2. ASSUME NEW i \in 1 .. n, NEW j \in 1 .. n, b < i, i < j, j <= k + 1
        PROVE  key[d[i]] <= key[d[j]]
    <2>1. CASE j <= k
      BY <1>2, <2>1 DEF Ascends, n
    <2>2. CASE ~(j <= k)
      <3>1. i <= k /\ k < j /\ j <= s
        BY <1>1, <1>2, <2>2
      <3> QED
        BY <1>2, <3>1 DEF n
    <2> QED
      BY <2>1, <2>2
  <1>3. ASSUME NEW i \in 1 .. n, NEW j \in 1 .. n, k + 1 < i, i < j, j <= k + m
        PROVE  key[d[i]] <= key[d[j]]
    <2>1. k < i
      BY <1>1, <1>3
    <2> QED
      BY <1>3, <2>1 DEF Ascends, n
  <1>4. ASSUME NEW j \in 1 .. n, k + 1 < j, j <= s
        PROVE  key[d[k + 1]] <= key[d[j]]
    <2>1. CASE j <= k + m
      <3>1. k < k + 1 /\ k + 1 < j
        BY <1>1, <1>4
      <3> QED
        BY <1>1, <1>4, <2>1, <3>1 DEF Ascends, n
    <2>2. CASE ~(j <= k + m)
      <3>1. k + m < s /\ k + m < n /\ (k + m) + 1 \in 1 .. n /\ k + m < (k + m) + 1
        BY <1>1, <1>4, <2>2
      <3>2. key[d[k + 1]] <= key[d[(k + m) + 1]]
        BY <3>1 DEF n
      <3>3. CASE j = (k + m) + 1
        BY <3>2, <3>3
      <3>4. CASE j # (k + m) + 1
        <4>1. (k + m) + 1 < j
          BY <1>1, <1>4, <2>2, <3>4
        <4>2. key[d[(k + m) + 1]] <= key[d[j]]
          BY <1>4, <3>1, <4>1 DEF Ascends, n
        <4> QED
          BY <1>1, <3>1, <3>2, <4>2
      <3> QED
        BY <3>3, <3>4
    <2> QED
      BY <2>1, <2>2
  <1>5. ASSUME NEW i \in 1 .. n, NEW j \in 1 .. n, b < i, i <= k + 1, k + 1 < j, j <= s
        PROVE  key[d[i]] <= key[d[j]]
    <2>1. CASE i = k + 1
      BY <1>4, <1>5, <2>1
    <2>2. CASE i # k + 1
      <3>1. i <= k /\ k < j
        BY <1>1, <1>5, <2>2
      <3> QED
        BY <1>5, <3>1 DEF n
    <2> QED
      BY <2>1, <2>2
  <1> QED
    BY <1>2, <1>3, <1>5 DEF Ascends, n

(* The second run gives an element.                                        *)
LEMMA SecondGiven ==
  ASSUME SInv, sorting # Null, NEW d \in Orders, InOrder(d), NEW e,
         NEW k \in Nat, NEW b \in Nat, NEW m \in Nat, NEW s \in Nat, NEW c \in Nat,
         b <= k, k + m < Size, k + m < s, s <= c,
         \A i \in 1 .. Size : Earlier(k, m, i) \in 1 .. Size /\ e[i] = d[Earlier(k, m, i)],
         \A i \in 1 .. Size : k < i /\ i <= k + m => key[d[(k + m) + 1]] < key[d[i]],
         Ascends(d, b, k), Ascends(d, k, k + m), Ascends(d, k + m, s),
         \A i, j \in 1 .. Size : b < i /\ i <= k /\ k < j /\ j <= s => key[d[i]] <= key[d[j]],
         Merged(d, b), RunsAscend(d, c, insize)
  PROVE  /\ Ascends(e, b, k + 1) /\ Ascends(e, k + 1, (k + 1) + m) /\ Ascends(e, (k + 1) + m, s)
         /\ \A i, j \in 1 .. Size : b < i /\ i <= k + 1 /\ k + 1 < j /\ j <= s
              => key[e[i]] <= key[e[j]]
         /\ Merged(e, b) /\ RunsAscend(e, c, insize)
  <1> DEFINE n == Size
             o == (k + m) + 1
  <1>1. /\ n \in Nat /\ k + 1 \in 1 .. n /\ o \in 1 .. n /\ insize \in Nat
        /\ \A i \in 1 .. n : key[d[i]] \in Nat
    <2>1. Size \in Nat /\ insize \in Nat
      BY Sorting
    <2>2. \A i \in 1 .. n : key[d[i]] \in Nat
      BY Ordered
    <2> QED
      BY <2>1, <2>2
  <1>2. \A i \in 1 .. n :
          /\ i <= k => e[i] = d[i]
          /\ i = k + 1 => e[i] = d[o]
          /\ k + 1 < i /\ i <= o => i - 1 \in 1 .. n /\ e[i] = d[i - 1]
          /\ o < i => e[i] = d[i]
    <2> SUFFICES ASSUME NEW i \in 1 .. n
                 PROVE  /\ i <= k => e[i] = d[i]
                        /\ i = k + 1 => e[i] = d[o]
                        /\ k + 1 < i /\ i <= o => i - 1 \in 1 .. n /\ e[i] = d[i - 1]
                        /\ o < i => e[i] = d[i]
      OBVIOUS
    <2>1. /\ i <= k => Earlier(k, m, i) = i
          /\ i = k + 1 => Earlier(k, m, i) = o
          /\ k + 1 < i /\ i <= o => i - 1 \in 1 .. n /\ Earlier(k, m, i) = i - 1
          /\ o < i => Earlier(k, m, i) = i
      BY <1>1 DEF Earlier
    <2> QED
      BY <2>1
  <1> HIDE DEF n
  <1>3. o \in Nat /\ o = (k + 1) + m /\ o > k + m /\ o > k
    OBVIOUS
  <1>4. ASSUME NEW i \in 1 .. n, k < i, i <= k + m PROVE key[d[o]] < key[d[i]]
    BY <1>4 DEF n, o
  <1> HIDE DEF o
  <1>5. ASSUME NEW i \in 1 .. n, NEW j \in 1 .. n, b < i, i < j, j <= k + 1
        PROVE  key[e[i]] <= key[e[j]]
    <2>1. i <= k /\ e[i] = d[i]
      BY <1>1, <1>2, <1>5
    <2>2. CASE j <= k
      BY <1>2, <1>5, <2>1, <2>2 DEF Ascends, n
    <2>3. CASE ~(j <= k)
      <3>1. j = k + 1 /\ e[j] = d[o] /\ k < o /\ o <= s
        BY <1>1, <1>2, <1>3, <1>5, <2>3
      <3> QED
        BY <1>1, <1>5, <2>1, <3>1 DEF n
    <2> QED
      BY <2>2, <2>3
  <1>6. ASSUME NEW i \in 1 .. n, NEW j \in 1 .. n, k + 1 < i, i < j, j <= (k + 1) + m
        PROVE  key[e[i]] <= key[e[j]]
    <2>1. i <= o /\ j <= o /\ k + 1 < j
      BY <1>1, <1>3, <1>6
    <2>2. i - 1 \in 1 .. n /\ j - 1 \in 1 .. n /\ e[i] = d[i - 1] /\ e[j] = d[j - 1]
      BY <1>2, <1>6, <2>1
    <2>3. k < i - 1 /\ i - 1 < j - 1 /\ j - 1 <= k + m
      BY <1>1, <1>6
    <2> QED
      BY <2>2, <2>3 DEF Ascends, n
  <1>7. ASSUME NEW i \in 1 .. n, NEW j \in 1 .. n, (k + 1) + m < i, i < j, j <= s
        PROVE  key[e[i]] <= key[e[j]]
    <2>1. o < i /\ o < j /\ k + m < i
      BY <1>1, <1>3, <1>7
    <2>2. e[i] = d[i] /\ e[j] = d[j]
      BY <1>2, <2>1
    <2> QED
      BY <1>7, <2>1, <2>2 DEF Ascends, n
  <1>8. ASSUME NEW i \in 1 .. n, NEW j \in 1 .. n, b < i, i <= k + 1, k + 1 < j, j <= s
        PROVE  key[e[i]] <= key[e[j]]
    <2>1. \E a \in 1 .. n : /\ e[j] = d[a] /\ k < a /\ a <= s
                            /\ (a <= k + m \/ o < a)
      <3>1. CASE j <= o
        <4>1. j - 1 \in 1 .. n /\ e[j] = d[j - 1]
          BY <1>2, <1>8, <3>1
        <4>2. k < j - 1 /\ j - 1 <= s /\ j - 1 <= k + m
          BY <1>1, <1>3, <1>8, <3>1
        <4> QED
          BY <4>1, <4>2
      <3>2. CASE ~(j <= o)
        <4>1. o < j /\ k < j
          BY <1>1, <1>3, <1>8, <3>2
        <4> QED
          BY <1>2, <1>8, <4>1
      <3> QED
        BY <3>1, <3>2
    <2>2. PICK a \in 1 .. n : /\ e[j] = d[a] /\ k < a /\ a <= s
                              /\ (a <= k + m \/ o < a)
      BY <2>1
    <2>3. CASE i <= k
      <3>1. e[i] = d[i]
        BY <1>2, <2>3
      <3> QED
        BY <1>8, <2>2, <2>3, <3>1 DEF n
    <2>4. CASE ~(i <= k)
      <3>1. i = k + 1 /\ e[i] = d[o]
        BY <1>1, <1>2, <1>8, <2>4
      <3>2. CASE a <= k + m
        <4>1. key[d[o]] < key[d[a]]
          BY <1>4, <2>2, <3>2
        <4> QED
          BY <1>1, <2>2, <3>1, <4>1
      <3>3. CASE o < a
        <4>1. k + m < o
          BY <1>3
        <4> QED
          BY <1>1, <2>2, <3>1, <3>3, <4>1 DEF Ascends, n
      <3> QED
        BY <2>2, <3>2, <3>3
    <2> QED
      BY <2>3, <2>4
  <1>9. Merged(e, b)
    <2> DEFINE t == 2 * insize
    <2>1. ASSUME NEW r \in Nat, NEW i \in 1 .. n, NEW j \in 1 .. n,
                 r * t < i, i < j, j <= (r + 1) * t, j <= b
          PROVE  key[e[i]] <= key[e[j]]
      <3>1. i <= k /\ j <= k
        BY <1>1, <2>1
      <3>2. e[i] = d[i] /\ e[j] = d[j]
        BY <1>2, <3>1
      <3> QED
        BY <2>1, <3>2 DEF Merged, n
    <2> QED
      BY <2>1 DEF Merged, n
  <1>10. RunsAscend(e, c, insize)
    <2>1. ASSUME NEW r \in Nat, NEW i \in 1 .. n, NEW j \in 1 .. n,
                 c + r * insize < i, i < j, j <= c + (r + 1) * insize
          PROVE  key[e[i]] <= key[e[j]]
      <3>1. r * insize \in Nat
        BY <1>1
      <3>2. o < i /\ o < j
        BY <1>1, <1>3, <2>1, <3>1 DEF o
      <3>3. e[i] = d[i] /\ e[j] = d[j]
        BY <1>2, <3>2
      <3> QED
        BY <2>1, <3>3 DEF RunsAscend, Ascends, n
    <2> QED
      BY <2>1 DEF RunsAscend, Ascends, n
  <1>11. Ascends(e, b, k + 1) /\ Ascends(e, k + 1, (k + 1) + m) /\ Ascends(e, (k + 1) + m, s)
    BY <1>5, <1>6, <1>7 DEF Ascends, n
  <1> QED
    BY <1>8, <1>9, <1>10, <1>11 DEF n

(* What is left to show of either: e is the order that results, with m and *)
(* g elements to come from the runs.                                       *)
LEMMA MergeLands ==
  ASSUME SInv, sorting # Null, pc = "merge", work' = work + 1,
         UNCHANGED <<kind, contents, walkVars, sorting, key, oldhead, insize, nmerges, pc>>,
         NEW d \in Orders, NEW e \in Orders, InOrder(d), InOrder(e),
         NEW w \in Nat, NEW k \in 0 .. Size, NEW b \in 0 .. Size,
         Affordable(w), AtMerge(d, k, b, w), k < Size,
         \A i \in 1 .. Size : i <= k => e[i] = d[i],
         Appended(e[k + 1]), p' \in Cells, q' \in Cells,
         NEW m \in Nat, NEW g \in Nat, psize' = m, qsize' = g, m <= insize, g <= insize,
         NEW s \in Nat, ((k + 1) + m) + g = s, (k + psize) + qsize = s,
         (k + 1) + m <= Size, (k + 1) + m < Size => k + psize < Size,
         m > 0 => p' = Nth(e, k + 1), q' = Nth(e, (k + 1) + m),
         Pair(e, k + 1, b, m, s)
  PROVE  SInv'
  <1>1. /\ Size \in Nat /\ Size >= 1 /\ insize \in Nat /\ insize >= 1
        /\ k \in Nat /\ b \in Nat /\ k <= Size
    BY Sorting
  <1>2. /\ TypeOK /\ nmerges \in Nat /\ work \in Nat /\ oldhead \in Cells
    BY DEF SInv, SortTypeOK
  <1>3. /\ NewList(e, k + 1)' /\ Iterates /\ tail' \in Cells
        /\ \A i \in 1 .. Size : i > k => After(e[i])' = After(e[i])
    <2>1. NewList(d, k)
      BY DEF AtMerge
    <2> QED
      BY <1>1, <2>1, AppendedIs
  <1>4. /\ Size' = Size /\ Orders' = Orders /\ InOrder(e)' = InOrder(e)
        /\ Affordable(w)' = Affordable(w)
    BY OrderKept, AffordableKept
  <1>5. /\ nmerges >= 1 /\ b = (nmerges - 1) * (2 * insize) /\ b <= k
        /\ s <= b + 2 * insize
        /\ (k + 1) + m < Size => s = b + 2 * insize
    BY DEF AtMerge
  <1>6. RunFollows(e, k + 1, (k + 1) + psize)'
    <2>1. ASSUME NEW i \in 1 .. Size, k + 1 < i, i < (k + 1) + m
          PROVE  After(e[i])' = e[i + 1]
      <3>1. k < i
        BY <1>1, <2>1
      <3>2. After(e[i]) = e[i + 1]
        BY <2>1 DEF RunFollows, Pair
      <3> QED
        BY <1>3, <3>1, <3>2
    <2> QED
      BY <1>4, <2>1 DEF RunFollows
  <1>7. OldList(e, (k + 1) + psize)'
    <2>1. ASSUME NEW i \in 1 .. Size, (k + 1) + m < i
          PROVE  After(e[i])' = Nth(e, i)
      <3>1. k < i
        BY <1>1, <2>1
      <3>2. After(e[i]) = Nth(e, i)
        BY <2>1 DEF OldList, Pair
      <3> QED
        BY <1>3, <3>1, <3>2
    <2> QED
      BY <1>4, <2>1 DEF OldList, Nth
  <1>8. /\ Merged(e, b)' /\ RunsAscend(e, b + 2 * insize, insize)'
        /\ Ascends(e, b, k + 1)' /\ Ascends(e, k + 1, (k + 1) + psize)'
        /\ Ascends(e, (k + 1) + psize, ((k + 1) + psize) + qsize)'
    <2>1. Merged(e, b)'
      BY <1>4 DEF Merged, Pair
    <2>2. RunsAscend(e, b + 2 * insize, insize)'
      BY <1>4 DEF RunsAscend, Ascends, Pair
    <2>3. Ascends(e, b, k + 1)'
      BY <1>4 DEF Ascends, Pair
    <2>4. Ascends(e, k + 1, (k + 1) + psize)'
      BY <1>4 DEF Ascends, Pair
    <2>5. Ascends(e, (k + 1) + psize, ((k + 1) + psize) + qsize)'
      BY <1>4 DEF Ascends, Pair
    <2> QED
      BY <2>1, <2>2, <2>3, <2>4, <2>5
  <1>9. (\E o \in 1 .. insize : b + o <= Size /\ work <= w + 2 + 2 * b + o + (k + 1))'
    <2>1. PICK o \in 1 .. insize : b + o <= Size /\ work <= w + 2 + 2 * b + o + k
      BY DEF AtMerge
    <2>2. work + 1 <= w + 2 + 2 * b + o + (k + 1)
      BY <1>1, <1>2, <2>1
    <2> QED
      BY <1>4, <2>1, <2>2
  <1>10. AtMerge(e, k + 1, b, w)'
    <2>1. (/\ nmerges >= 1 /\ b = (nmerges - 1) * (2 * insize) /\ b <= k + 1
           /\ (k + 1) + psize <= Size
           /\ ((k + 1) + psize) + qsize <= b + 2 * insize
           /\ (k + 1) + psize < Size => ((k + 1) + psize) + qsize = b + 2 * insize)'
      BY <1>1, <1>4, <1>5
    <2>2. (psize > 0 => p = Nth(e, k + 1))' /\ (q = Nth(e, (k + 1) + psize))'
      BY <1>4 DEF Nth
    <2>3. (\A i, j \in 1 .. Size :
             b < i /\ i <= k + 1 /\ k + 1 < j /\ j <= ((k + 1) + psize) + qsize
               => key[e[i]] <= key[e[j]])'
      BY <1>4 DEF Pair
    <2> QED
      BY <1>3, <1>6, <1>7, <1>8, <1>9, <2>1, <2>2, <2>3 DEF AtMerge, Pair
  <1>11. Stands'
    <2>1. k + 1 \in 0 .. Size' /\ b \in 0 .. Size' /\ InOrder(e)' /\ Affordable(w)' /\ e \in Orders'
      BY <1>1, <1>4
    <2>2. PICK a \in 0 .. Size' : AtMerge(e, a, b, w)'
      BY <1>10, <2>1
    <2> QED
      BY <2>1, <2>2 DEF Stands
  <1>12. psize' \in 0 .. insize' /\ qsize' \in 0 .. insize' /\ work' \in Nat
    BY <1>1, <1>2
  <1> QED
    BY <1>1, <1>2, <1>3, <1>11, <1>12, IterationKeeps

LEMMA MergeStep ==
  ASSUME SInv, sorting # Null, Merge
  PROVE  SInv'
  <1>1. pc = "merge" /\ work' = work + 1 /\ (psize > 0 \/ SecondLeft)
    BY DEF Merge, At
  <1>2. UNCHANGED <<kind, contents, walkVars, sorting, key, oldhead, insize, nmerges, pc>>
    BY DEF Merge, At
  <1>3. PICK d \in Orders, w \in Nat, k \in 0 .. Size, b \in 0 .. Size :
          InOrder(d) /\ Affordable(w) /\ AtMerge(d, k, b, w)
    BY <1>1 DEF SInv, Stands
  <1>4. /\ Size \in Nat /\ Size >= 1 /\ insize \in Nat /\ insize >= 1
        /\ k \in Nat /\ b \in Nat /\ k <= Size
    BY <1>3, Sorting
  <1>5. /\ psize \in Nat /\ qsize \in Nat /\ psize <= insize /\ qsize <= insize
        /\ p \in Cells /\ q \in Cells
    BY <1>4 DEF SInv, SortTypeOK
  <1>6. PICK s \in Nat : s = (k + psize) + qsize
    BY <1>4, <1>5
  <1>7. /\ \A i \in 1 .. Size : /\ d[i] \in Members(sorting) /\ d[i] \in Nodes
                                /\ d[i] # Null /\ key[d[i]] \in Nat
    BY <1>3, Ordered
  <1>8. /\ b <= k /\ k + psize <= Size /\ s <= b + 2 * insize
        /\ psize > 0 => p = Nth(d, k)
        /\ q = Nth(d, k + psize)
        /\ RunFollows(d, k, k + psize) /\ OldList(d, k + psize)
        /\ Merged(d, b) /\ RunsAscend(d, b + 2 * insize, insize)
        /\ Ascends(d, b, k) /\ Ascends(d, k, k + psize) /\ Ascends(d, k + psize, s)
        /\ \A i, j \in 1 .. Size : b < i /\ i <= k /\ k < j /\ j <= s
             => key[d[i]] <= key[d[j]]
    BY <1>3, <1>6 DEF AtMerge, Pair
  <1>9. /\ q = Null <=> k + psize >= Size
        /\ k + psize < Size => q = d[(k + psize) + 1]
    <2>1. k + psize \in Nat
      BY <1>4, <1>5
    <2> QED
      BY <1>3, <1>8, <2>1, NthTyped
  <1>10. psize > 0 => p = d[k + 1]
    <2>1. psize > 0 => k < Size
      BY <1>4, <1>5, <1>8
    <2> QED
      BY <1>8, <2>1 DEF Nth
  <1>11. CASE TakesFirst
    <2>1. /\ psize > 0
          /\ (~SecondLeft \/ key[p] <= key[q])
          /\ Appended(p) /\ p' = After(p) /\ psize' = psize - 1
          /\ q' = q /\ qsize' = qsize
      BY <1>11 DEF Merge, TakesFirst
    <2>2. PICK m \in Nat : m = psize - 1
      BY <1>5, <2>1
    <2>3. /\ k < Size /\ k + 1 \in 1 .. Size /\ (k + 1) + m = k + psize /\ m <= insize
          /\ psize' = m /\ (k + psize) + qsize = s
      BY <1>4, <1>5, <1>6, <1>8, <2>1, <2>2
    <2>4. p = d[k + 1] /\ p \in Nodes
      BY <1>7, <1>10, <2>1, <2>3
    <2>5. p' \in Cells
      BY <2>1, <2>4, AfterTyped
    <2>6. ASSUME k + psize < s, k + psize < Size
          PROVE  key[d[k + 1]] <= key[d[(k + psize) + 1]]
      <3>1. qsize > 0
        BY <1>4, <1>5, <1>6, <2>6
      <3>2. q # Null
        BY <1>4, <1>5, <1>9, <2>6
      <3> QED
        BY <1>9, <2>1, <2>4, <2>6, <3>1, <3>2 DEF SecondLeft
    <2>7. /\ Ascends(d, b, k + 1) /\ Ascends(d, k + 1, k + psize)
          /\ \A i, j \in 1 .. Size : b < i /\ i <= k + 1 /\ k + 1 < j /\ j <= s
               => key[d[i]] <= key[d[j]]
      <3>1. k + psize <= s
        BY <1>4, <1>5, <1>6
      <3> QED
        BY <1>3, <1>4, <1>5, <1>8, <2>1, <2>6, <3>1, FirstGiven
    <2>8. /\ Ascends(d, k + 1, (k + 1) + m) /\ Ascends(d, (k + 1) + m, s)
          /\ OldList(d, (k + 1) + m) /\ q' = Nth(d, (k + 1) + m)
      BY <1>8, <2>1, <2>3, <2>7
    <2>9. RunFollows(d, k + 1, (k + 1) + m)
      <3>1. ASSUME NEW i \in 1 .. Size, k + 1 < i, i < (k + 1) + m PROVE After(d[i]) = d[i + 1]
        <4>1. k < i /\ i < k + psize
          BY <1>4, <2>3, <3>1
        <4> QED
          BY <1>8, <4>1 DEF RunFollows
      <3> QED
        BY <3>1 DEF RunFollows
    <2>10. m > 0 => p' = Nth(d, k + 1)
      <3> SUFFICES ASSUME m > 0 PROVE p' = Nth(d, k + 1)
        OBVIOUS
      <3>1. k < k + 1 /\ k + 1 < k + psize /\ k + 1 < Size
        BY <1>4, <1>5, <1>8, <2>2
      <3>2. After(d[k + 1]) = d[(k + 1) + 1]
        BY <1>8, <2>3, <3>1 DEF RunFollows
      <3> QED
        BY <2>1, <2>4, <3>1, <3>2 DEF Nth
    <2>11. /\ ((k + 1) + m) + qsize = s /\ (k + 1) + m <= Size
           /\ (k + 1) + m < Size => k + psize < Size
      BY <1>6, <1>8, <2>3
    <2>12. \A i \in 1 .. Size : i <= k => d[i] = d[i]
      OBVIOUS
    <2>13. Appended(d[k + 1]) /\ q' \in Cells
      BY <1>5, <2>1, <2>4
    <2>14. PICK g \in Nat : g = qsize /\ g <= insize
      BY <1>5
    <2>15. /\ pc = "merge" /\ work' = work + 1
           /\ InOrder(d) /\ Affordable(w) /\ AtMerge(d, k, b, w)
           /\ k < Size /\ (k + psize) + qsize = s
      BY <1>1, <1>3, <2>3
    <2>16. /\ p' \in Cells /\ q' \in Cells /\ psize' = m /\ qsize' = g
           /\ m <= insize /\ g <= insize /\ ((k + 1) + m) + g = s
      BY <2>1, <2>3, <2>5, <2>11, <2>13, <2>14
    <2>17. Pair(d, k + 1, b, m, s)
      <3>1. Merged(d, b) /\ RunsAscend(d, b + 2 * insize, insize)
        BY <1>8
      <3> QED
        BY <2>7, <2>8, <2>9, <3>1 DEF Pair
    <2> QED
      BY <1>2, <2>8, <2>10, <2>11, <2>12, <2>13, <2>15, <2>16, <2>17, MergeLands
  <1>12. CASE ~TakesFirst
    <2>1. SecondLeft /\ (psize > 0 => ~(key[p] <= key[q]))
      BY <1>1, <1>12 DEF TakesFirst
    <2>2. /\ Appended(q) /\ q' = After(q) /\ qsize' = qsize - 1
          /\ p' = p /\ psize' = psize /\ qsize > 0 /\ q # Null
      BY <1>12, <2>1 DEF Merge, SecondLeft
    <2>3. PICK m \in Nat : m = psize
      BY <1>5
    <2>4. PICK g \in Nat : g = qsize - 1
      BY <1>5, <2>2
    <2>5. /\ k + m < Size /\ k + m < s /\ k < Size /\ (k + m) + 1 \in 1 .. Size
          /\ (k + 1) + m = (k + m) + 1 /\ ((k + 1) + m) + g = s /\ (k + 1) + m <= Size
          /\ (k + psize) + qsize = s /\ k + psize < Size /\ g <= insize
      BY <1>4, <1>5, <1>6, <1>8, <1>9, <2>2, <2>3, <2>4
    <2>6. q = d[(k + m) + 1] /\ q \in Nodes
      BY <1>7, <1>9, <2>3, <2>5
    <2>7. ASSUME NEW i \in 1 .. Size, k < i, i <= k + m
          PROVE  key[d[(k + m) + 1]] < key[d[i]]
      <3>1. psize > 0 /\ k + 1 \in 1 .. Size
        BY <1>4, <1>5, <2>3, <2>5, <2>7
      <3>2. key[d[(k + m) + 1]] < key[d[k + 1]]
        BY <1>7, <1>10, <2>1, <2>5, <2>6, <3>1
      <3>3. key[d[k + 1]] <= key[d[i]]
        <4>1. CASE i = k + 1
          BY <1>7, <3>1, <4>1
        <4>2. CASE i # k + 1
          <5>1. k < k + 1 /\ k + 1 < i /\ i <= k + psize
            BY <1>4, <2>3, <2>7, <4>2
          <5> QED
            BY <1>8, <3>1, <5>1 DEF Ascends
        <4> QED
          BY <4>1, <4>2
      <3> QED
        BY <1>7, <2>5, <3>1, <3>2, <3>3
    <2>8. PICK e \in Orders :
            InOrder(e) /\ \A i \in 1 .. Size : /\ Earlier(k, m, i) \in 1 .. Size
                                               /\ e[i] = d[Earlier(k, m, i)]
      <3>1. InOrder(d) /\ k \in Nat /\ k + m < Size
        BY <1>3, <1>4, <2>5
      <3> QED
        BY <2>7, <3>1, Moved
    <2>9. /\ Ascends(e, b, k + 1) /\ Ascends(e, k + 1, (k + 1) + m)
          /\ Ascends(e, (k + 1) + m, s)
          /\ \A i, j \in 1 .. Size : b < i /\ i <= k + 1 /\ k + 1 < j /\ j <= s
               => key[e[i]] <= key[e[j]]
          /\ Merged(e, b) /\ RunsAscend(e, b + 2 * insize, insize)
      <3> DEFINE c == b + 2 * insize
      <3>1. c \in Nat /\ s <= c /\ RunsAscend(d, c, insize)
        BY <1>4, <1>8
      <3>2. Ascends(d, k, k + m) /\ Ascends(d, k + m, s)
        BY <1>8, <2>3
      <3> HIDE DEF c
      <3>3. /\ Ascends(e, b, k + 1) /\ Ascends(e, k + 1, (k + 1) + m)
            /\ Ascends(e, (k + 1) + m, s)
            /\ \A i, j \in 1 .. Size : b < i /\ i <= k + 1 /\ k + 1 < j /\ j <= s
                 => key[e[i]] <= key[e[j]]
            /\ Merged(e, b) /\ RunsAscend(e, c, insize)
        BY <1>3, <1>4, <1>8, <2>5, <2>7, <2>8, <3>1, <3>2, SecondGiven
      <3> QED
        BY <3>3 DEF c
    <2>10. \A i \in 1 .. Size :
             /\ i <= k => e[i] = d[i]
             /\ i = k + 1 => e[i] = d[(k + m) + 1]
             /\ k + 1 < i /\ i <= (k + m) + 1 => i - 1 \in 1 .. Size /\ e[i] = d[i - 1]
             /\ (k + m) + 1 < i => e[i] = d[i]
      <3> SUFFICES ASSUME NEW i \in 1 .. Size
                   PROVE  /\ i <= k => e[i] = d[i]
                          /\ i = k + 1 => e[i] = d[(k + m) + 1]
                          /\ k + 1 < i /\ i <= (k + m) + 1
                               => i - 1 \in 1 .. Size /\ e[i] = d[i - 1]
                          /\ (k + m) + 1 < i => e[i] = d[i]
        OBVIOUS
      <3>1. /\ i <= k => Earlier(k, m, i) = i
            /\ i = k + 1 => Earlier(k, m, i) = (k + m) + 1
            /\ k + 1 < i /\ i <= (k + m) + 1
                 => i - 1 \in 1 .. Size /\ Earlier(k, m, i) = i - 1
            /\ (k + m) + 1 < i => Earlier(k, m, i) = i
        BY <1>4 DEF Earlier
      <3> QED
        BY <2>8, <3>1
    <2>11. k + 1 \in 1 .. Size /\ e[k + 1] = q
      BY <1>4, <2>5, <2>6, <2>10
    <2>12. RunFollows(e, k + 1, (k + 1) + m)
      <3>1. ASSUME NEW i \in 1 .. Size, k + 1 < i, i < (k + 1) + m PROVE After(e[i]) = e[i + 1]
        <4>1. i + 1 \in 1 .. Size /\ i + 1 <= (k + m) + 1 /\ i <= (k + m) + 1 /\ k + 1 < i + 1
              /\ (i + 1) - 1 = i
          BY <1>4, <2>5, <3>1
        <4>2. i - 1 \in 1 .. Size /\ e[i] = d[i - 1] /\ e[i + 1] = d[i]
          BY <2>10, <3>1, <4>1
        <4>3. k < i - 1 /\ i - 1 < k + psize /\ (i - 1) + 1 = i
          BY <1>4, <2>3, <3>1
        <4>4. After(d[i - 1]) = d[(i - 1) + 1]
          BY <1>8, <4>2, <4>3 DEF RunFollows
        <4> QED
          BY <4>2, <4>3, <4>4
      <3> QED
        BY <3>1 DEF RunFollows
    <2>13. \A a \in Nat : (k + 1) + m <= a => Nth(e, a) = Nth(d, a)
      <3>1. ASSUME NEW a \in Nat, (k + 1) + m <= a, a < Size PROVE e[a + 1] = d[a + 1]
        <4>1. a + 1 \in 1 .. Size /\ (k + m) + 1 < a + 1
          BY <1>4, <3>1
        <4> QED
          BY <2>10, <4>1
      <3> QED
        BY <3>1 DEF Nth
    <2>14. OldList(e, (k + 1) + m)
      <3>1. ASSUME NEW i \in 1 .. Size, (k + 1) + m < i PROVE After(e[i]) = Nth(e, i)
        <4>1. k + psize < i /\ (k + m) + 1 < i /\ i \in Nat /\ (k + 1) + m <= i
          BY <1>4, <1>5, <2>3, <3>1
        <4>2. After(d[i]) = Nth(d, i)
          BY <1>8, <4>1 DEF OldList
        <4> QED
          BY <2>10, <2>13, <4>1, <4>2
      <3> QED
        BY <3>1 DEF OldList
    <2>15. q' = Nth(e, (k + 1) + m)
      <3>1. k + psize < (k + m) + 1 /\ (k + 1) + m \in Nat
        BY <1>4, <1>5, <2>3
      <3>2. After(d[(k + m) + 1]) = Nth(d, (k + m) + 1)
        BY <1>8, <2>5, <3>1 DEF OldList
      <3>3. Nth(e, (k + 1) + m) = Nth(d, (k + 1) + m)
        BY <2>13, <3>1
      <3> QED
        BY <2>2, <2>5, <2>6, <3>2, <3>3
    <2>16. m > 0 => p' = Nth(e, k + 1)
      <3> SUFFICES ASSUME m > 0 PROVE p' = Nth(e, k + 1)
        OBVIOUS
      <3>1. (k + 1) + 1 \in 1 .. Size /\ k + 1 < Size /\ k + 1 < (k + 1) + 1
            /\ (k + 1) + 1 <= (k + m) + 1 /\ ((k + 1) + 1) - 1 = k + 1
        BY <1>4, <2>5
      <3>2. e[(k + 1) + 1] = d[k + 1]
        BY <2>10, <3>1
      <3> QED
        BY <1>10, <2>2, <2>3, <3>1, <3>2 DEF Nth
    <2>17. /\ p' \in Cells /\ q' \in Cells /\ psize' = m /\ qsize' = g /\ m <= insize
           /\ Appended(e[k + 1])
      <3>1. q' \in Cells
        BY <2>2, <2>6, AfterTyped
      <3> QED
        BY <1>5, <2>2, <2>3, <2>4, <2>11, <3>1
    <2>18. \A i \in 1 .. Size : i <= k => e[i] = d[i]
      BY <2>10
    <2>19. (k + 1) + m < Size => k + psize < Size
      BY <2>5
    <2>20. /\ pc = "merge" /\ work' = work + 1
           /\ InOrder(d) /\ InOrder(e) /\ Affordable(w) /\ AtMerge(d, k, b, w)
           /\ k < Size /\ g <= insize /\ ((k + 1) + m) + g = s /\ (k + psize) + qsize = s
           /\ (k + 1) + m <= Size
      BY <1>1, <1>3, <2>5, <2>8
    <2>21. Pair(e, k + 1, b, m, s)
      BY <2>9, <2>12, <2>14 DEF Pair
    <2> QED
      BY <1>2, <2>15, <2>16, <2>17, <2>18, <2>19, <2>20, <2>21, MergeLands
  <1> QED
    BY <1>11, <1>12

-----------------------------------------------------------------------------
(* The end of the sort.                                                    *)

(* A sorted order is the one that Sorted chooses: the i-th elements of two *)
(* orders are the same, since each is in the other at most and at least at *)
(* place i.                                                                *)
LEMMA SortedIs ==
  ASSUME SInv, sorting # Null, NEW d \in Orders, InOrder(d),
         \A i, j \in 1 .. Size : i < j => key[d[i]] <= key[d[j]]
  PROVE  Sorted(sorting) = d
  <1> DEFINE n == Size
             S == Members(sorting)
             e == Sorted(sorting)
  <1>1. /\ n \in Nat /\ \A x \in S : key[x] \in Nat /\ IndexOf(sorting, x) \in Nat
        /\ \A i \in 1 .. n : d[i] \in S
    BY Sorting, Ordered
  <1>2. ASSUME NEW i \in 1 .. n, NEW j \in 1 .. n, i < j PROVE Before(sorting, d[i], d[j])
    <2>1. key[d[i]] <= key[d[j]]
      BY <1>2
    <2>2. key[d[i]] = key[d[j]] => IndexOf(sorting, d[i]) < IndexOf(sorting, d[j])
      BY <1>2 DEF InOrder
    <2> QED
      BY <1>1, <2>1, <2>2 DEF Before
  <1>3. /\ e \in [1 .. n -> S]
        /\ \A i, j \in 1 .. n : i < j => Before(sorting, e[i], e[j])
    <2>1. \E f \in [1 .. n -> S] : \A i, j \in 1 .. n : i < j => Before(sorting, f[i], f[j])
      BY <1>2 DEF Orders
    <2>2. e = CHOOSE f \in [1 .. n -> S] :
                \A i, j \in 1 .. n : i < j => Before(sorting, f[i], f[j])
      BY DEF Sorted, Size
    <2> HIDE DEF e, n, S
    <2> QED
      BY <2>1, <2>2
  <1> HIDE DEF e
  <1>4. ASSUME NEW x \in S, NEW y \in S, Before(sorting, x, y)
        PROVE  x # y /\ ~Before(sorting, y, x)
    BY <1>1, <1>4 DEF Before
  <1>5. PICK r \in [1 .. n -> 1 .. n] : \A i \in 1 .. n : e[i] = d[r[i]]
    <2>1. \A i \in 1 .. n : \E j \in 1 .. n : e[i] = d[j]
      BY <1>3 DEF InOrder
    <2> DEFINE f == [i \in 1 .. n |-> CHOOSE j \in 1 .. n : e[i] = d[j]]
    <2>2. f \in [1 .. n -> 1 .. n] /\ \A i \in 1 .. n : e[i] = d[f[i]]
      BY <2>1
    <2> HIDE DEF f
    <2> QED
      BY <2>2
  <1>6. ASSUME NEW i \in 1 .. n, NEW j \in 1 .. n, i < j PROVE r[i] < r[j]
    <2>1. r[i] \in 1 .. n /\ r[j] \in 1 .. n /\ e[i] = d[r[i]] /\ e[j] = d[r[j]]
      BY <1>5
    <2>2. Before(sorting, d[r[i]], d[r[j]])
      BY <1>3, <1>6, <2>1
    <2>3. d[r[i]] # d[r[j]] /\ ~Before(sorting, d[r[j]], d[r[i]])
      BY <1>1, <1>4, <2>1, <2>2
    <2>4. ~(r[j] < r[i])
      BY <1>2, <2>1, <2>3
    <2> QED
      BY <1>1, <2>1, <2>3, <2>4
  <1>7. \A i \in 1 .. n : r[i] >= i
    <2> DEFINE T == {i \in 1 .. n : r[i] < i}
    <2>1. T = {}
      <3> SUFFICES ASSUME T # {} PROVE FALSE
        OBVIOUS
      <3>1. T \subseteq Nat
        BY <1>1
      <3>2. PICK i \in T : \A j \in T : i <= j
        BY <3>1, Least
      <3>3. i \in 1 .. n /\ r[i] < i /\ r[i] \in 1 .. n
        BY <1>5, <3>2
      <3>4. i - 1 \in 1 .. n /\ i - 1 < i
        BY <1>1, <3>3
      <3>5. i - 1 \notin T
        BY <3>2, <3>3, <3>4
      <3>6. ~(r[i - 1] < i - 1) /\ r[i - 1] < r[i] /\ r[i - 1] \in 1 .. n
        BY <1>5, <1>6, <3>3, <3>4, <3>5
      <3> QED
        BY <1>1, <3>3, <3>4, <3>6
    <2>2. ASSUME NEW i \in 1 .. n PROVE r[i] >= i
      <3>1. ~(r[i] < i) /\ r[i] \in 1 .. n
        BY <1>5, <2>1
      <3> QED
        BY <1>1, <3>1
    <2> QED
      BY <2>2
  <1>8. \A i \in 1 .. n : r[i] <= i
    <2> DEFINE T == {m \in 0 .. n - 1 : r[n - m] > n - m}
    <2> SUFFICES ASSUME T = {} PROVE \A i \in 1 .. n : r[i] <= i
      <3> SUFFICES ASSUME T # {} PROVE FALSE
        OBVIOUS
      <3>1. T \subseteq Nat
        BY <1>1
      <3>2. PICK m \in T : \A j \in T : m <= j
        BY <3>1, Least
      <3> DEFINE i == n - m
      <3>3. m \in 0 .. n - 1 /\ r[i] > i
        BY <3>2
      <3>4. i \in 1 .. n /\ r[i] \in 1 .. n
        <4>1. i \in 1 .. n
          BY <1>1, <3>3
        <4> QED
          BY <1>5, <4>1
      <3>5. i < n
        BY <1>1, <3>3, <3>4
      <3>6. i + 1 \in 1 .. n /\ m - 1 \in 0 .. n - 1 /\ n - (m - 1) = i + 1
        BY <1>1, <3>3, <3>4, <3>5
      <3>7. m - 1 \notin T
        BY <3>2, <3>3, <3>6
      <3>8. ~(r[i + 1] > i + 1)
        BY <3>6, <3>7
      <3>9. r[i] < r[i + 1] /\ r[i + 1] \in 1 .. n
        BY <1>5, <1>6, <3>4, <3>6
      <3> QED
        BY <1>1, <3>3, <3>4, <3>6, <3>8, <3>9
    <2>1. ASSUME NEW i \in 1 .. n PROVE r[i] <= i
      <3>1. n - i \in 0 .. n - 1 /\ n - (n - i) = i
        BY <1>1
      <3>2. n - i \notin T
        OBVIOUS
      <3>3. ~(r[i] > i)
        BY <3>1, <3>2
      <3> QED
        BY <1>1, <1>5, <3>3
    <2> QED
      BY <2>1
  <1>9. ASSUME NEW i \in 1 .. n PROVE e[i] = d[i]
    <2>1. r[i] = i
      BY <1>1, <1>5, <1>7, <1>8
    <2> QED
      BY <1>5, <2>1
  <1>10. e = d
    <2>1. d \in [1 .. n -> S] /\ e \in [1 .. n -> S]
      BY <1>3 DEF Orders
    <2>2. e = [i \in 1 .. n |-> e[i]] /\ d = [i \in 1 .. n |-> d[i]]
      BY <2>1
    <2>3. [i \in 1 .. n |-> e[i]] = [i \in 1 .. n |-> d[i]]
      BY <1>9
    <2> QED
      BY <2>2, <2>3, Zenon
  <1> QED
    BY <1>10 DEF e

LEMMA SortEndsStep ==
  ASSUME SInv, sorting # Null, SortEnds
  PROVE  SInv'
  <1>1. pc = "run" /\ p = Null /\ nmerges <= 1 /\ Closed
    BY DEF SortEnds
  <1>2. PICK d \in Orders, w \in Nat : InOrder(d) /\ Affordable(w) /\ AtRun(d, Size, w)
    BY <1>1, AllMerged
  <1>3. /\ Size \in Nat /\ Size >= 1 /\ sorting \in Lists /\ insize \in Nat /\ insize >= 1
    BY Sorting
  <1>4. /\ TypeOK /\ nmerges \in Nat /\ p \in Cells /\ q \in Cells
    BY DEF SInv, SortTypeOK
  <1>5. /\ psize = 0 /\ Merged(d, Size) /\ NewList(d, Size)
        /\ Size <= nmerges * (2 * insize)
    BY <1>2 DEF AtRun
  <1>6. /\ Represents(kind, head'[sorting], next', prev', d)
        /\ head' = head /\ next' \in [Nodes -> Cells] /\ prev' \in [Nodes -> Cells]
        /\ \A x \in Nodes \ Members(sorting) : next'[x] = next[x] /\ prev'[x] = prev[x]
    BY <1>1, <1>2, <1>5, ClosedIs
  <1>7. /\ \A i \in 1 .. Size : d[i] \in Members(sorting) /\ key[d[i]] \in Nat
        /\ \A i, j \in 1 .. Size : d[i] = d[j] => i = j
        /\ d \in Seq(Nodes) /\ Len(d) = Size
    BY <1>2, Ordered
  <1>8. ASSUME NEW i \in 1 .. Size, NEW j \in 1 .. Size, i < j PROVE key[d[i]] <= key[d[j]]
    <2> DEFINE t == 2 * insize
    <2>1. t \in Nat
      BY <1>3
    <2>2. Size <= (0 + 1) * t
      <3>1. CASE nmerges = 0
        BY <1>3, <1>5, <2>1, <3>1
      <3>2. CASE nmerges = 1
        BY <1>5, <2>1, <3>2
      <3> QED
        BY <1>1, <1>4, <3>1, <3>2
    <2>3. 0 * t < i /\ j <= (0 + 1) * t /\ j <= Size
      BY <1>3, <2>1, <2>2
    <2> QED
      BY <1>5, <1>8, <2>3 DEF Merged
  <1>9. Sorted(sorting) = d
    BY <1>2, <1>8, SortedIs
  <1>10. /\ contents' = [contents EXCEPT ![sorting] = d]
         /\ UNCHANGED <<kind, walkVars, p, q, psize>>
         /\ sorting' = Null /\ tail' = Null /\ oldhead' = Null
         /\ insize' = 0 /\ nmerges' = 0 /\ qsize' = 0 /\ pc' = "no" /\ work' = 0
    BY <1>9 DEF SortEnds
  <1>11. Becomes(sorting, {}, d)
    <2>1. ASSUME NEW i \in 1 .. Len(d)
          PROVE  \E j \in 1 .. Len(contents[sorting]) : d[i] = contents[sorting][j]
      <3>1. d[i] \in Members(sorting)
        BY <1>7
      <3> QED
        BY <3>1, Sorting DEF Size
    <2>2. Once(d)
      BY <1>7 DEF Once
    <2> QED
      BY <1>7, <1>10, <2>1, <2>2 DEF Becomes
  <1>12. Apart' /\ contents' \in [Lists -> Seq(Nodes)]
    BY <1>3, <1>4, <1>11, BecomesApart DEF SInv
  <1>13. SortTypeOK'
    <2>1. TypeOK'
      BY <1>4, <1>6, <1>10, <1>12 DEF TypeOK, walkVars
    <2> QED
      BY <1>4, <1>5, <1>10, <2>1 DEF SortTypeOK, Cells
  <1>14. WalkSound'
    BY <1>10 DEF SInv, WalkSound, walkVars
  <1>15. ListsIntact'
    <2>1. ASSUME NEW l \in Lists PROVE Represents(kind', head'[l], next', prev', contents'[l])
      <3>1. CASE l = sorting
        <4>1. contents'[l] = d
          BY <1>4, <1>10, <3>1 DEF TypeOK
        <4> QED
          BY <1>6, <1>10, <3>1, <4>1
      <3>2. CASE l # sorting
        <4>1. contents'[l] = contents[l] /\ kind' = kind /\ head'[l] = head[l]
          BY <1>4, <1>6, <1>10, <3>2 DEF TypeOK
        <4> QED
          BY <1>6, <3>2, <4>1, OthersKept
      <3> QED
        BY <3>1, <3>2
    <2> QED
      BY <2>1 DEF ListsIntact
  <1> QED
    BY <1>5, <1>10, <1>12, <1>13, <1>14, <1>15 DEF SInv

-----------------------------------------------------------------------------
(* The beginning of the sort.                                              *)
LEMMA SortBeginsStep ==
  ASSUME SInv, NEW l \in Lists, SortBegins(l)
  PROVE  SInv'
  <1> DEFINE c == contents[l]
             n == Len(c)
  <1>1. /\ sorting = Null /\ walked = Null /\ head[l] # Null
        /\ sorting' = l /\ key' \in [Members(l) -> 1 .. MaxKey]
        /\ insize' = 1 /\ pc' = "pass"
        /\ UNCHANGED <<kind, head, next, prev, contents, walkVars>>
        /\ UNCHANGED <<p, q, tail, oldhead, nmerges, psize, qsize, work>>
    BY DEF SortBegins, vars, pointers, cursors
  <1>2. /\ TypeOK /\ Apart /\ psize = 0 /\ qsize = 0 /\ work = 0 /\ nmerges \in Nat
        /\ p \in Cells /\ q \in Cells /\ tail \in Cells /\ oldhead \in Cells
    BY <1>1 DEF SInv, SortTypeOK
  <1>3. Represents(kind, head[l], next, prev, c)
    BY <1>1, ListsAssumption DEF SInv, ListsIntact
  <1>4. c \in Seq(Nodes) /\ n \in Nat /\ c \in [1 .. n -> Nodes] /\ DOMAIN c = 1 .. n
    BY <1>2, LenProperties DEF TypeOK
  <1>5. n # 0
    <2>1. c # <<>>
      BY <1>1, <1>3 DEF Represents, LinkedForward
    <2> QED
      BY <1>4, <2>1, Elements
  <1>6. Size' = n /\ Members(sorting)' = Members(l)
    BY <1>1 DEF Size, Members
  <1>7. Members(l) = {c[i] : i \in 1 .. n}
    BY <1>4 DEF Members, Range
  <1>8. \A i, j \in 1 .. n : c[i] = c[j] => i = j
    BY <1>2 DEF Apart
  <1>9. PICK e : e = c
    OBVIOUS
  <1>10. ASSUME NEW i \in 1 .. n PROVE IndexOf(sorting, e[i])' = i
    <2>1. IndexOf(sorting, e[i])' = CHOOSE j \in 1 .. n : c[j] = e[i]
      BY <1>1 DEF IndexOf
    <2> HIDE DEF n, c
    <2>2. \E j \in 1 .. n : c[j] = e[i]
      BY <1>9
    <2> QED
      BY <1>8, <1>9, <2>1, <2>2
  <1>12. e \in Orders'
    <2>1. e \in [1 .. n -> Members(l)]
      BY <1>4, <1>7, <1>9
    <2> QED
      BY <1>6, <2>1 DEF Orders
  <1>13. InOrder(e)'
    <2>1. \A x \in Members(l) : \E i \in 1 .. n : e[i] = x
      BY <1>7, <1>9
    <2>2. ASSUME NEW i \in 1 .. n, NEW j \in 1 .. n, i < j
          PROVE  e[i] # e[j] /\ IndexOf(sorting, e[i])' < IndexOf(sorting, e[j])'
      <3>1. i # j
        BY <1>4, <2>2
      <3>2. e[i] # e[j]
        BY <1>8, <1>9, <3>1
      <3>3. IndexOf(sorting, e[i])' = i /\ IndexOf(sorting, e[j])' = j
        BY <1>10
      <3> QED
        BY <2>2, <3>2, <3>3
    <2> QED
      BY <1>6, <2>1, <2>2 DEF InOrder
  <1>14. Affordable(0)'
    <2>1. 0 \in 0 .. n - 1
      BY <1>4, <1>5
    <2>2. ASSUME NEW f, IsPower(f, n) PROVE f[0] = 1
      <3>1. 0 \in 0 .. n
        BY <1>4
      <3> QED
        BY <2>2, <3>1 DEF IsPower
    <2>3. 0 <= (3 * n + 3) * 0
      BY <1>4
    <2> QED
      BY <1>1, <1>6, <2>1, <2>2, <2>3 DEF Affordable
  <1>15. AtPass(e, 0)'
    <2>1. RunsAscend(e, 0, insize)'
      <3>1. ASSUME NEW r \in Nat, NEW i \in 1 .. n, NEW j \in 1 .. n
            PROVE  ~(0 + r * 1 < i /\ i < j /\ j <= 0 + (r + 1) * 1)
        BY <1>4
      <3> QED
        BY <1>1, <1>6, <3>1 DEF RunsAscend, Ascends
    <2>2. (psize = 0 /\ work <= 0)'
      BY <1>1, <1>2
    <2>3. Represents(kind, head[sorting], next, prev, e)'
      BY <1>1, <1>3, <1>9
    <2> QED
      BY <2>1, <2>2, <2>3 DEF AtPass
  <1>16. Stands'
    BY <1>1, <1>12, <1>13, <1>14, <1>15 DEF Stands
  <1>17. sorting' # Null
    BY <1>1, ListsAssumption
  <1>18. SortTypeOK'
    <2>1. TypeOK'
      BY <1>1, <1>2 DEF TypeOK, walkVars
    <2> QED
      BY <1>1, <1>2, <2>1 DEF SortTypeOK
  <1>19. Apart' /\ WalkSound' /\ ListsIntact'
    <2>1. Apart'
      BY <1>1, <1>2 DEF Apart
    <2>2. WalkSound'
      BY <1>1 DEF WalkSound, walkVars
    <2>3. ListsIntact'
      BY <1>1, ListsAssumption DEF SInv, ListsIntact
    <2> QED
      BY <2>1, <2>2, <2>3
  <1>20. walked' = Null
    BY <1>1 DEF walkVars
  <1>21. insize' >= 1 /\ Size' # 0
    BY <1>1, <1>5, <1>6
  <1>22. (key \in [Members(sorting) -> 1 .. MaxKey])'
    BY <1>1, <1>6
  <1> QED
    BY <1>1, <1>16, <1>17, <1>18, <1>19, <1>20, <1>21, <1>22 DEF SInv

-----------------------------------------------------------------------------
(* The invariant.                                                          *)
LEMMA SortInitSound == SortInit => SInv
  <1> SUFFICES ASSUME SortInit PROVE SInv
    OBVIOUS
  <1>1. LInv
    BY InitSound DEF SortInit
  <1>2. /\ sorting = Null /\ p = Null /\ q = Null /\ tail = Null /\ oldhead = Null
        /\ insize = 0 /\ nmerges = 0 /\ psize = 0 /\ qsize = 0 /\ pc = "no" /\ work = 0
    BY DEF SortInit, NotSorting
  <1>3. SortTypeOK
    BY <1>1, <1>2 DEF LInv, SortTypeOK, Cells
  <1>4. ListsIntact
    BY <1>1 DEF LInv, Linked, ListsIntact
  <1> QED
    BY <1>1, <1>2, <1>3, <1>4 DEF LInv, SInv

(* Between two sorts the program uses the macros of Utlist.                *)
LEMMA ProgramStep ==
  ASSUME SInv, sorting = Null, [Next]_vars, UNCHANGED sortVars
  PROVE  SInv'
  <1>1. LInv
    <2>1. Linked
      BY ListsAssumption DEF SInv, ListsIntact, Linked
    <2> QED
      BY <2>1 DEF SInv, SortTypeOK, LInv
  <1>2. LInv'
    BY <1>1, Inductive
  <1>3. /\ UNCHANGED <<sorting, key, p, q, tail, oldhead, insize, nmerges, psize, qsize>>
        /\ UNCHANGED <<pc, work>>
    BY DEF sortVars, cursors, counters
  <1>4. SortTypeOK'
    BY <1>2, <1>3 DEF SInv, SortTypeOK, LInv
  <1>5. ListsIntact'
    BY <1>2 DEF LInv, Linked, ListsIntact
  <1> QED
    BY <1>2, <1>3, <1>4, <1>5 DEF LInv, SInv

LEMMA StutterKeeps ==
  ASSUME SInv, UNCHANGED allVars
  PROVE  SInv'
  <1>1. CASE sorting = Null
    <2>1. [Next]_vars /\ UNCHANGED sortVars
      BY DEF allVars
    <2> QED
      BY <1>1, <2>1, ProgramStep
  <1>2. CASE sorting # Null
    <2>1. /\ UNCHANGED <<kind, head, next, prev, contents, walkVars, sorting, key>>
          /\ UNCHANGED <<p, q, tail, oldhead, insize, nmerges, psize, qsize, pc, work>>
      BY DEF allVars, vars, pointers, sortVars, cursors, counters
    <2>2. TypeOK
      BY DEF SInv, SortTypeOK
    <2>3. Iterates
      BY <2>1, <2>2 DEF Iterates, TypeOK
    <2>4. Stands'
      <3>1. PICK d \in Orders, w \in Nat :
              /\ InOrder(d) /\ Affordable(w)
              /\ \/ pc = "pass" /\ AtPass(d, w)
                 \/ pc = "run" /\ \E k \in 0 .. Size : AtRun(d, k, w)
                 \/ pc = "split" /\ \E k \in 0 .. Size : AtSplit(d, k, w)
                 \/ pc = "merge" /\ \E k, b \in 0 .. Size : AtMerge(d, k, b, w)
        BY <1>2 DEF SInv, Stands
      <3>2. /\ Size' = Size /\ d \in Orders' /\ InOrder(d)' /\ Affordable(w)'
        BY <2>1, <3>1, OrderKept, AffordableKept
      <3>3. CASE pc = "pass" /\ AtPass(d, w)
        <4>1. AtPass(d, w)'
          BY <2>1, <3>2, <3>3 DEF AtPass, RunsAscend, Ascends
        <4> QED
          BY <2>1, <3>2, <3>3, <4>1 DEF Stands
      <3>4. CASE pc = "run" /\ \E k \in 0 .. Size : AtRun(d, k, w)
        <4>1. PICK k \in 0 .. Size : AtRun(d, k, w)
          BY <3>4
        <4>2. AtRun(d, k, w)'
          BY <2>1, <3>2, <4>1 DEF AtRun, NewList, OldList, Merged, RunsAscend, Ascends, Nth, After
        <4> QED
          BY <2>1, <3>2, <3>4, <4>2 DEF Stands
      <3>5. CASE pc = "split" /\ \E k \in 0 .. Size : AtSplit(d, k, w)
        <4>1. PICK k \in 0 .. Size : AtSplit(d, k, w)
          BY <3>5
        <4>2. AtSplit(d, k, w)'
          BY <2>1, <3>2, <4>1 DEF AtSplit, NewList, OldList, Merged, RunsAscend, Ascends, Nth, After
        <4> QED
          BY <2>1, <3>2, <3>5, <4>2 DEF Stands
      <3>6. CASE pc = "merge" /\ \E k, b \in 0 .. Size : AtMerge(d, k, b, w)
        <4>1. PICK k \in 0 .. Size, b \in 0 .. Size : AtMerge(d, k, b, w)
          BY <3>6
        <4>2. AtMerge(d, k, b, w)'
          BY <2>1, <3>2, <4>1
          DEF AtMerge, Pair, NewList, OldList, RunFollows, Merged, RunsAscend, Ascends, Nth, After
        <4> QED
          BY <2>1, <3>2, <3>6, <4>2 DEF Stands
      <3> QED
        BY <3>1, <3>3, <3>4, <3>5, <3>6
    <2>5. /\ p \in Cells /\ q \in Cells /\ tail \in Cells /\ oldhead \in Cells
          /\ insize \in Nat /\ nmerges \in Nat /\ work \in Nat
          /\ psize \in 0 .. insize /\ qsize \in 0 .. insize /\ insize >= 1
          /\ pc \in {"pass", "run", "split", "merge"}
      BY <1>2 DEF SInv, SortTypeOK
    <2> QED
      BY <1>2, <2>1, <2>3, <2>4, <2>5, IterationKeeps
  <1> QED
    BY <1>1, <1>2

LEMMA StepSorts ==
  ASSUME SInv, Step
  PROVE  SInv'
  <1>1. sorting # Null
    BY DEF SInv, Step, PassBegins, RunBegins, Split, Merge, RunEnds, PassEnds, SortEnds, At
  <1> QED
    BY <1>1, PassBeginsStep, RunBeginsStep, SplitStep, MergeStep, RunEndsStep, PassEndsStep,
       SortEndsStep DEF Step

LEMMA SortInductive == SInv /\ [SortNext]_allVars => SInv'
  <1> SUFFICES ASSUME SInv, [SortNext]_allVars PROVE SInv'
    OBVIOUS
  <1>1. CASE sorting = Null /\ Next /\ UNCHANGED sortVars
    BY <1>1, ProgramStep
  <1>2. ASSUME NEW l \in Lists, SortBegins(l) PROVE SInv'
    BY <1>2, SortBeginsStep
  <1>3. CASE Step
    BY <1>3, StepSorts
  <1>4. CASE UNCHANGED allVars
    BY <1>4, StutterKeeps
  <1> QED
    BY <1>1, <1>2, <1>3, <1>4 DEF SortNext

LEMMA SortInvariance == SortSpec => []SInv
  BY SortInitSound, SortInductive, PTL DEF SortSpec

(* The variables of the three sort macros, and of the lists they sort,     *)
(* keep their types: no macro follows a null pointer, and _ls_psize and    *)
(* _ls_qsize are never negative and never exceed _ls_insize.               *)
THEOREM SortTypeCorrect == SortSpec => []SortTypeOK
  <1>1. SInv => SortTypeOK
    BY DEF SInv
  <1> QED
    BY <1>1, SortInvariance, PTL

(* A sort loses no element and touches no other list, and what it leaves   *)
(* is sorted and stable (LL_SORT, DL_SORT, CDL_SORT).                      *)
THEOREM SortsSound == SortSpec => []ListsIntact
  <1>1. SInv => ListsIntact
    BY DEF SInv
  <1> QED
    BY <1>1, SortInvariance, PTL

(* The walk of a program that also sorts comes to each element once.       *)
THEOREM SortWalksSound == SortSpec => []VisitsEach
  <1>1. SInv => VisitsEach
    BY WalkVisits DEF SInv, SortTypeOK
  <1> QED
    BY <1>1, SortInvariance, PTL

-----------------------------------------------------------------------------
(* The list between two passes.                                            *)

(* Along the next pointers from the head: the elements in their order.     *)
LEMMA ChainIs ==
  ASSUME SInv, sorting # Null, NEW d \in Orders, InOrder(d),
         Represents(kind, head[sorting], next, prev, d)
  PROVE  Chain = d
  <1> DEFINE n == Size
             S == Members(sorting)
             c == Chain
             T == {i \in 1 .. n : c[i] # d[i]}
  <1>1. /\ n \in Nat /\ head[sorting] = d[1]
        /\ \A i \in 1 .. n : i < n => next[d[i]] = d[i + 1]
    BY Sorting, WholeList
  <1>2. d \in [1 .. n -> S]
    BY DEF Orders
  <1> HIDE DEF n, S
  <1>3. ASSUME NEW i \in 1 .. n
        PROVE  d[i] = IF i = 1 THEN head[sorting] ELSE next[d[i - 1]]
    <2>1. CASE i = 1
      BY <1>1, <2>1
    <2>2. CASE i # 1
      <3>1. i - 1 \in 1 .. n /\ i - 1 < n /\ (i - 1) + 1 = i
        BY <1>1, <2>2
      <3> QED
        BY <1>1, <2>2, <3>1
    <2> QED
      BY <2>1, <2>2
  <1>4. d = [i \in 1 .. n |-> IF i = 1 THEN head[sorting] ELSE next[d[i - 1]]]
    <2>1. d = [i \in 1 .. n |-> d[i]]
      BY <1>2
    <2>2. [i \in 1 .. n |-> d[i]]
            = [i \in 1 .. n |-> IF i = 1 THEN head[sorting] ELSE next[d[i - 1]]]
      BY <1>3
    <2> QED
      BY <2>1, <2>2, Zenon
  <1>5. c = [i \in 1 .. n |-> IF i = 1 THEN head[sorting] ELSE next[c[i - 1]]]
    BY <1>4 DEF Chain, n, Size
  <1> HIDE DEF c
  <1>6. T = {}
    <2> SUFFICES ASSUME T # {} PROVE FALSE
      OBVIOUS
    <2>1. T \subseteq Nat
      BY <1>1
    <2>2. PICK i \in T : \A j \in T : i <= j
      BY <2>1, Least
    <2>3. i \in 1 .. n /\ c[i] # d[i]
      BY <2>2
    <2>4. CASE i = 1
      BY <1>3, <1>5, <2>3, <2>4
    <2>5. CASE i # 1
      <3>1. i - 1 \in 1 .. n /\ i - 1 < i
        BY <1>1, <2>3, <2>5
      <3>2. i - 1 \notin T
        BY <2>2, <2>3, <3>1
      <3>3. c[i - 1] = d[i - 1]
        BY <3>1, <3>2
      <3>4. c[i] = next[c[i - 1]]
        BY <1>5, <2>3, <2>5
      <3> QED
        BY <1>3, <2>3, <2>5, <3>3, <3>4
    <2> QED
      BY <2>4, <2>5
  <1>7. ASSUME NEW i \in 1 .. n PROVE c[i] = d[i]
    BY <1>6
  <1>8. c = d
    <2>1. c = [i \in 1 .. n |-> c[i]] /\ d = [i \in 1 .. n |-> d[i]]
      BY <1>2, <1>5
    <2>2. [i \in 1 .. n |-> c[i]] = [i \in 1 .. n |-> d[i]]
      BY <1>7
    <2> QED
      BY <2>1, <2>2, Zenon
  <1> QED
    BY <1>8 DEF c

(* Which run of s elements the i-th is in.                                 *)
LEMMA RunOf ==
  ASSUME NEW i \in Nat, NEW s \in Nat, i >= 1, s >= 1
  PROVE  /\ (i - 1) \div s \in Nat
         /\ ((i - 1) \div s) * s < i /\ i <= ((i - 1) \div s + 1) * s
  <1> DEFINE r == (i - 1) \div s
  <1>1. r \in Nat
    OBVIOUS
  <1>2. r * s <= i - 1 /\ i - 1 < (r + 1) * s
    OBVIOUS
  <1>3. r * s \in Nat /\ (r + 1) * s \in Nat
    BY <1>1
  <1> HIDE DEF r
  <1>4. r * s < i /\ i <= (r + 1) * s
    BY <1>2, <1>3
  <1> QED
    BY <1>1, <1>4 DEF r

LEMMA PassLeavesRuns ==
  ASSUME SInv
  PROVE  RunsSorted
  <1> SUFFICES ASSUME pc = "pass"
               PROVE  /\ Range(Chain) = Members(sorting)
                      /\ Represents(kind, head[sorting], next, prev, Chain)
                      /\ \A i, j \in DOMAIN Chain :
                           i < j /\ (i - 1) \div insize = (j - 1) \div insize
                             => Before(sorting, Chain[i], Chain[j])
    BY DEF RunsSorted
  <1>1. sorting # Null
    BY DEF SInv
  <1>2. PICK d \in Orders, w \in Nat : InOrder(d) /\ AtPass(d, w)
    BY <1>1 DEF SInv, Stands
  <1>3. Represents(kind, head[sorting], next, prev, d) /\ RunsAscend(d, 0, insize)
    BY <1>2 DEF AtPass
  <1>4. Chain = d
    BY <1>1, <1>2, <1>3, ChainIs
  <1>5. /\ Size \in Nat /\ insize \in Nat /\ insize >= 1
        /\ \A i \in 1 .. Size : /\ d[i] \in Members(sorting) /\ key[d[i]] \in Nat
                                /\ IndexOf(sorting, d[i]) \in Nat
    BY <1>1, <1>2, Sorting, Ordered
  <1>6. DOMAIN d = 1 .. Size
    BY DEF Orders
  <1>7. Range(d) = Members(sorting)
    <2>1. \A x \in Members(sorting) : \E i \in 1 .. Size : d[i] = x
      BY <1>2 DEF InOrder
    <2> QED
      BY <1>5, <1>6, <2>1 DEF Range
  <1>8. ASSUME NEW i \in 1 .. Size, NEW j \in 1 .. Size, i < j,
               (i - 1) \div insize = (j - 1) \div insize
        PROVE  Before(sorting, d[i], d[j])
    <2>1. i \in Nat /\ j \in Nat /\ i >= 1 /\ j >= 1
      BY <1>5
    <2>2. PICK r \in Nat : /\ r * insize < i /\ j <= (r + 1) * insize
      BY <1>5, <1>8, <2>1, RunOf
    <2>3. r * insize \in Nat /\ (r + 1) * insize \in Nat
      BY <1>5
    <2>4. 0 + r * insize < i /\ j <= 0 + (r + 1) * insize
      BY <2>2, <2>3
    <2>5. key[d[i]] <= key[d[j]]
      BY <1>3, <1>8, <2>4 DEF RunsAscend, Ascends
    <2>6. key[d[i]] = key[d[j]] => IndexOf(sorting, d[i]) < IndexOf(sorting, d[j])
      BY <1>2, <1>8 DEF InOrder
    <2> QED
      BY <1>5, <2>5, <2>6 DEF Before
  <1> QED
    BY <1>3, <1>4, <1>6, <1>7, <1>8

(* Each pass leaves a whole list with runs of _ls_insize that are sorted   *)
(* and stable, and so has merged every pair of runs.                       *)
THEOREM PassesSound == SortSpec => []RunsSorted
  BY PassLeavesRuns, SortInvariance, PTL

-----------------------------------------------------------------------------
(* How long a sort takes.                                                  *)

(* The powers of two exist: if there is a first m up to which they do not, *)
(* those up to m - 1 give them.                                            *)
LEMMA PowersExist ==
  ASSUME NEW n \in Nat
  PROVE  \E f : IsPower(f, n)
  <1> DEFINE T == {m \in Nat : ~\E f : IsPower(f, m)}
  <1>1. T = {}
    <2> SUFFICES ASSUME T # {} PROVE FALSE
      OBVIOUS
    <2>1. PICK m \in T : \A j \in T : m <= j
      BY Least
    <2>2. m \in Nat /\ ~\E f : IsPower(f, m)
      BY <2>1
    <2>3. CASE m = 0
      <3> DEFINE g == [i \in 0 .. 0 |-> 1]
      <3>1. g = [i \in 0 .. 0 |-> IF i = 0 THEN 1 ELSE Doubled(g[i - 1])]
        OBVIOUS
      <3> HIDE DEF g
      <3>2. IsPower(g, m)
        BY <2>3, <3>1 DEF IsPower
      <3> QED
        BY <2>2, <3>2
    <2>4. CASE m # 0
      <3>1. m - 1 \in Nat /\ m - 1 \notin T
        BY <2>1, <2>2, <2>4
      <3>2. PICK f : IsPower(f, m - 1)
        BY <3>1
      <3> DEFINE g == [i \in 0 .. m |-> IF i = m THEN Doubled(f[m - 1]) ELSE f[i]]
      <3>3. ASSUME NEW i \in 0 .. m
            PROVE  g[i] = IF i = 0 THEN 1 ELSE Doubled(g[i - 1])
        <4>1. CASE i = 0
          <5>1. 0 \in 0 .. m - 1 /\ i # m
            BY <2>2, <2>4, <4>1
          <5>2. f[0] = 1
            BY <3>2, <5>1 DEF IsPower
          <5> QED
            BY <4>1, <5>1, <5>2
        <4>2. CASE i # 0
          <5>1. i - 1 \in 0 .. m - 1 /\ i - 1 \in 0 .. m /\ i - 1 # m
            BY <2>2, <4>2
          <5>2. g[i - 1] = f[i - 1]
            BY <5>1
          <5>3. CASE i = m
            BY <4>2, <5>2, <5>3
          <5>4. CASE i # m
            <6>1. i \in 0 .. m - 1
              BY <2>2, <5>4
            <6>2. f[i] = Doubled(f[i - 1])
              BY <3>2, <4>2, <6>1 DEF IsPower
            <6> QED
              BY <4>2, <5>2, <5>4, <6>2
          <5> QED
            BY <5>3, <5>4
        <4> QED
          BY <4>1, <4>2
      <3>4. g = [i \in 0 .. m |-> g[i]]
        OBVIOUS
      <3> HIDE DEF g
      <3>5. [i \in 0 .. m |-> g[i]]
              = [i \in 0 .. m |-> IF i = 0 THEN 1 ELSE Doubled(g[i - 1])]
        BY <3>3
      <3>6. IsPower(g, m)
        BY <3>4, <3>5, Zenon DEF IsPower
      <3> QED
        BY <2>2, <3>6
    <2> QED
      BY <2>3, <2>4
  <1> QED
    BY <1>1

LEMMA MaxBounds ==
  ASSUME NEW S, NEW n \in Nat, S \subseteq 0 .. n, NEW x \in S
  PROVE  Max(S) \in S /\ x <= Max(S)
  <1> DEFINE T == {n - y : y \in S}
  <1>1. T \subseteq Nat /\ T # {}
    OBVIOUS
  <1>2. PICK t \in T : \A u \in T : t <= u
    BY <1>1, Least
  <1>3. PICK m \in S : t = n - m
    BY <1>2
  <1>4. ASSUME NEW y \in S PROVE m >= y
    <2>1. n - m <= n - y
      BY <1>2, <1>3
    <2> QED
      BY <2>1
  <1>5. \E z \in S : \A y \in S : z >= y
    BY <1>4
  <1>6. Max(S) \in S /\ \A y \in S : Max(S) >= y
    BY <1>5, Zenon DEF Max
  <1>7. Max(S) >= x
    BY <1>6
  <1>8. ASSUME NEW y \in S PROVE y \in Nat
    <2>1. y \in 0 .. n
      OBVIOUS
    <2> QED
      BY <2>1
  <1>9. PICK z \in S : z = Max(S)
    BY <1>6
  <1>10. x <= z
    BY <1>7, <1>8, <1>9
  <1> QED
    BY <1>6, <1>9, <1>10

(* After j passes the list needs another one.                              *)
LEMMA PassNeeded ==
  ASSUME NEW n \in Nat, n >= 1, NEW j \in 0 .. n - 1, NEW s \in Nat, j > 0 => s < n,
         \A f : IsPower(f, n) => f[j] = s
  PROVE  Passes(n) \in Nat /\ j + 1 <= Passes(n)
  <1>1. PICK f : f = [k \in 0 .. n |-> IF k = 0 THEN 1 ELSE Doubled(f[k - 1])]
    BY PowersExist DEF IsPower
  <1> DEFINE g == CHOOSE h : h = [k \in 0 .. n |-> IF k = 0 THEN 1 ELSE Doubled(h[k - 1])]
             S == {1} \cup {k \in 1 .. n : g[k - 1] < n}
  <1>2. g = [k \in 0 .. n |-> IF k = 0 THEN 1 ELSE Doubled(g[k - 1])]
    BY <1>1
  <1>3. Passes(n) = Max(S)
    BY DEF Passes
  <1> HIDE DEF g
  <1>4. g[j] = s
    BY <1>2 DEF IsPower
  <1>5. S \subseteq 0 .. n /\ 1 \in S
    OBVIOUS
  <1>6. j + 1 \in S
    <2>1. CASE j = 0
      BY <2>1
    <2>2. CASE j # 0
      <3>1. j + 1 \in 1 .. n /\ (j + 1) - 1 = j /\ s < n
        BY <2>2
      <3> QED
        BY <1>4, <3>1
    <2> QED
      BY <2>1, <2>2
  <1> HIDE DEF S
  <1>7. Passes(n) \in S /\ j + 1 <= Passes(n)
    BY <1>3, <1>5, <1>6, MaxBounds
  <1>8. \A y \in S : y \in Nat
    BY <1>5
  <1>9. Passes(n) \in Nat
    BY <1>7, <1>8
  <1> QED
    BY <1>7, <1>9

(* A pass takes 3n + 3 iterations at most.                                 *)
LEMMA PassIsLinear ==
  ASSUME SInv, sorting # Null
  PROVE  \E w \in Nat : Affordable(w) /\ work <= w + (3 * Size + 3)
  <1>1. PICK d \in Orders, w \in Nat :
          /\ Affordable(w)
          /\ \/ pc = "pass" /\ AtPass(d, w)
             \/ pc = "run" /\ \E k \in 0 .. Size : AtRun(d, k, w)
             \/ pc = "split" /\ \E k \in 0 .. Size : AtSplit(d, k, w)
             \/ pc = "merge" /\ \E k, b \in 0 .. Size : AtMerge(d, k, b, w)
    BY DEF SInv, Stands
  <1>2. Size \in Nat /\ work \in Nat /\ psize \in Nat /\ insize \in Nat
    BY Sorting DEF SInv, SortTypeOK
  <1>3. CASE AtPass(d, w)
    BY <1>1, <1>2, <1>3 DEF AtPass
  <1>4. ASSUME NEW k \in 0 .. Size, AtRun(d, k, w) PROVE work <= w + (3 * Size + 3)
    <2>1. work <= (w + 1 + 3 * k) + 1
      BY <1>2, <1>4 DEF AtRun
    <2> QED
      BY <1>2, <2>1
  <1>5. ASSUME NEW k \in 0 .. Size, AtSplit(d, k, w) PROVE work <= w + (3 * Size + 3)
    <2>1. work <= w + 2 + 3 * k + psize /\ k + psize < Size
      BY <1>5 DEF AtSplit
    <2> QED
      BY <1>2, <2>1
  <1>6. ASSUME NEW k \in 0 .. Size, NEW b \in 0 .. Size, AtMerge(d, k, b, w)
        PROVE  work <= w + (3 * Size + 3)
    <2>1. PICK o \in 1 .. insize : b + o <= Size /\ work <= w + 2 + 2 * b + o + k
      BY <1>6 DEF AtMerge
    <2> QED
      BY <1>2, <2>1
  <1> QED
    BY <1>1, <1>3, <1>4, <1>5, <1>6

LEMMA SortInTime ==
  ASSUME SInv
  PROVE  SortIsFast
  <1> SUFFICES ASSUME sorting # Null PROVE work <= (3 * Size + 3) * Passes(Size)
    BY DEF SortIsFast, Size
  <1> DEFINE n == Size
             t == 3 * n + 3
  <1>1. n \in Nat /\ n >= 1 /\ t \in Nat /\ work \in Nat /\ insize \in Nat
    BY Sorting DEF SInv, SortTypeOK
  <1>2. PICK w \in Nat : Affordable(w) /\ work <= w + t
    BY PassIsLinear
  <1>3. PICK j \in 0 .. n - 1 : /\ j > 0 => insize < n
                                /\ \A f : IsPower(f, n) => f[j] = insize
                                /\ w <= t * j
    BY <1>2 DEF Affordable
  <1> HIDE DEF n, t
  <1>4. Passes(n) \in Nat /\ j + 1 <= Passes(n) /\ j \in Nat
    BY <1>1, <1>3, PassNeeded
  <1>5. t * (j + 1) <= t * Passes(n) /\ t * (j + 1) = t * j + t /\ t * j \in Nat
        /\ t * Passes(n) \in Nat
    BY <1>1, <1>4
  <1>6. work <= t * Passes(n)
    BY <1>1, <1>2, <1>3, <1>5
  <1> QED
    BY <1>6 DEF n, t

(* utlist.h:59: a sort is O(n log(n)), for lists of any length.            *)
THEOREM SortsFast == SortSpec => []SortIsFast
  BY SortInTime, SortInvariance, PTL
=============================================================================
