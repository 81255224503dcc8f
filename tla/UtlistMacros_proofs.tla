-------------------------- MODULE UtlistMacros_proofs ---------------------------
(***************************************************************************)
(* What each list macro of utlist.h does to the pointers of a list, for    *)
(* any number of elements and lists.                                       *)
(***************************************************************************)
EXTENDS Utlist, SequenceTheorems, FiniteSetTheorems, TLAPS

-----------------------------------------------------------------------------
(* Sequences.                                                              *)

Once(c) == \A i, j \in 1 .. Len(c) : c[i] = c[j] => i = j

(* d is c with x before its k-th element, without its k-th element, with x *)
(* in its place; and c followed by e.                                      *)
Inserts(d, c, k, x) ==
  /\ d \in Seq(Nodes) /\ Len(d) = Len(c) + 1
  /\ \A i \in 1 .. Len(d) : d[i] = IF i < k THEN c[i] ELSE IF i = k THEN x ELSE c[i - 1]

Removes(d, c, k) ==
  /\ d \in Seq(Nodes) /\ Len(d) = Len(c) - 1
  /\ \A i \in 1 .. Len(d) : d[i] = IF i < k THEN c[i] ELSE c[i + 1]

Replaces(d, c, k, x) ==
  /\ d \in Seq(Nodes) /\ Len(d) = Len(c)
  /\ \A i \in 1 .. Len(d) : d[i] = IF i = k THEN x ELSE c[i]

Joins(d, c, e) ==
  /\ d \in Seq(Nodes) /\ Len(d) = Len(c) + Len(e)
  /\ \A i \in 1 .. Len(d) : d[i] = IF i <= Len(c) THEN c[i] ELSE e[i - Len(c)]

LEMMA Elements ==
  ASSUME NEW c \in Seq(Nodes)
  PROVE  /\ Len(c) \in Nat
         /\ \A i \in 1 .. Len(c) : c[i] \in Nodes
         /\ c = <<>> <=> Len(c) = 0
  BY LenProperties, ElementOfSeq, EmptySeq

LEMMA PrependInserts ==
  ASSUME NEW c \in Seq(Nodes), NEW x \in Nodes
  PROVE  Inserts(Cons(x, c), c, 1, x)
  <1>1. <<x>> \in Seq(Nodes) /\ Len(<<x>>) = 1 /\ <<x>>[1] = x
    OBVIOUS
  <1>2. /\ Cons(x, c) \in Seq(Nodes)
        /\ Len(Cons(x, c)) = 1 + Len(c)
        /\ \A i \in 1 .. 1 + Len(c) :
             Cons(x, c)[i] = IF i <= 1 THEN <<x>>[i] ELSE c[i - 1]
    BY <1>1, ConcatProperties DEF Cons
  <1> QED
    BY <1>1, <1>2, Elements DEF Inserts

LEMMA AppendInserts ==
  ASSUME NEW c \in Seq(Nodes), NEW x \in Nodes
  PROVE  Inserts(Append(c, x), c, Len(c) + 1, x)
  <1>1. /\ Append(c, x) \in Seq(Nodes)
        /\ Len(Append(c, x)) = Len(c) + 1
        /\ \A i \in 1 .. Len(c) : Append(c, x)[i] = c[i]
        /\ Append(c, x)[Len(c) + 1] = x
    BY AppendProperties
  <1> QED
    BY <1>1, Elements DEF Inserts

(* The two parts of c before and from its k-th element on.                 *)
LEMMA Parts ==
  ASSUME NEW c \in Seq(Nodes), NEW k \in 1 .. Len(c) + 1
  PROVE  /\ SubSeq(c, 1, k - 1) \in Seq(Nodes) /\ Len(SubSeq(c, 1, k - 1)) = k - 1
         /\ \A i \in 1 .. k - 1 : SubSeq(c, 1, k - 1)[i] = c[i]
         /\ SubSeq(c, k, Len(c)) \in Seq(Nodes)
         /\ Len(SubSeq(c, k, Len(c))) = (Len(c) - k) + 1
         /\ \A i \in 1 .. (Len(c) - k) + 1 : SubSeq(c, k, Len(c))[i] = c[(k + i) - 1]
  <1>1. /\ Len(c) \in Nat /\ k \in Nat /\ 1 <= k /\ k <= Len(c) + 1
        /\ \A i \in 1 .. Len(c) : c[i] \in Nodes
    BY Elements
  <1>2. /\ SubSeq(c, 1, k - 1) \in Seq(Nodes)
        /\ Len(SubSeq(c, 1, k - 1)) = IF 1 <= k - 1 THEN ((k - 1) - 1) + 1 ELSE 0
        /\ \A i \in 1 .. ((k - 1) - 1) + 1 : SubSeq(c, 1, k - 1)[i] = c[(1 + i) - 1]
    <2>1. 1 \in Int /\ k - 1 \in Int /\ \A i \in 1 .. k - 1 : c[i] \in Nodes
      BY <1>1
    <2> QED
      BY <2>1, SubSeqProperties
  <1>3. /\ SubSeq(c, k, Len(c)) \in Seq(Nodes)
        /\ Len(SubSeq(c, k, Len(c))) = IF k <= Len(c) THEN (Len(c) - k) + 1 ELSE 0
        /\ \A i \in 1 .. (Len(c) - k) + 1 : SubSeq(c, k, Len(c))[i] = c[(k + i) - 1]
    <2>1. k \in Int /\ Len(c) \in Int /\ \A i \in k .. Len(c) : c[i] \in Nodes
      BY <1>1
    <2> QED
      BY <2>1, SubSeqProperties
  <1> QED
    BY <1>1, <1>2, <1>3

LEMMA JoinsParts ==
  ASSUME NEW c \in Seq(Nodes), NEW e \in Seq(Nodes)
  PROVE  Joins(c \o e, c, e)
  BY ConcatProperties, Elements DEF Joins

LEMMA InsertInserts ==
  ASSUME NEW c \in Seq(Nodes), NEW x \in Nodes, NEW k \in 1 .. Len(c) + 1
  PROVE  Inserts(InsertAt(c, k, x), c, k, x)
  <1> DEFINE a == SubSeq(c, 1, k - 1)
             b == SubSeq(c, k, Len(c))
             m == a \o <<x>>
             d == m \o b
  <1>1. Len(c) \in Nat /\ k \in Nat /\ 1 <= k /\ k <= Len(c) + 1
    BY Elements
  <1>2. /\ a \in Seq(Nodes) /\ Len(a) = k - 1 /\ \A i \in 1 .. k - 1 : a[i] = c[i]
        /\ b \in Seq(Nodes) /\ Len(b) = (Len(c) - k) + 1
        /\ \A i \in 1 .. (Len(c) - k) + 1 : b[i] = c[(k + i) - 1]
    BY Parts
  <1>3. <<x>> \in Seq(Nodes) /\ Len(<<x>>) = 1 /\ <<x>>[1] = x
    OBVIOUS
  <1>4. d = InsertAt(c, k, x)
    BY DEF InsertAt
  <1> HIDE DEF a, b
  <1>5. Joins(m, a, <<x>>)
    BY <1>2, <1>3, JoinsParts
  <1> HIDE DEF m
  <1>6. m \in Seq(Nodes) /\ Len(m) = k /\ \A i \in 1 .. k : m[i] = IF i < k THEN c[i] ELSE x
    BY <1>1, <1>2, <1>3, <1>5 DEF Joins
  <1>7. Joins(d, m, b)
    BY <1>2, <1>6, JoinsParts
  <1> HIDE DEF d
  <1>8. d \in Seq(Nodes) /\ Len(d) = Len(c) + 1
    BY <1>1, <1>2, <1>6, <1>7 DEF Joins
  <1>9. ASSUME NEW i \in 1 .. Len(c) + 1
        PROVE  d[i] = IF i < k THEN c[i] ELSE IF i = k THEN x ELSE c[i - 1]
    <2>1. d[i] = IF i <= k THEN m[i] ELSE b[i - k]
      BY <1>1, <1>6, <1>7, <1>8 DEF Joins
    <2>2. CASE i <= k
      BY <1>1, <1>6, <2>1, <2>2
    <2>3. CASE i > k
      <3>1. i - k \in 1 .. (Len(c) - k) + 1 /\ (k + (i - k)) - 1 = i - 1
        BY <1>1, <2>3
      <3> QED
        BY <1>1, <1>2, <2>1, <2>3, <3>1
    <2> QED
      BY <1>1, <2>2, <2>3
  <1> QED
    BY <1>4, <1>8, <1>9 DEF Inserts

LEMMA RemoveRemoves ==
  ASSUME NEW c \in Seq(Nodes), NEW k \in 1 .. Len(c)
  PROVE  Removes(RemoveAt(c, k), c, k)
  <1> DEFINE a == SubSeq(c, 1, k - 1)
             b == SubSeq(c, k + 1, Len(c))
             d == a \o b
  <1>1. Len(c) \in Nat /\ k \in Nat /\ 1 <= k /\ k <= Len(c) /\ k + 1 \in 1 .. Len(c) + 1
    BY Elements
  <1>2. a \in Seq(Nodes) /\ Len(a) = k - 1 /\ \A i \in 1 .. k - 1 : a[i] = c[i]
    BY <1>1, Parts
  <1>3. /\ b \in Seq(Nodes) /\ Len(b) = (Len(c) - (k + 1)) + 1
        /\ \A i \in 1 .. (Len(c) - (k + 1)) + 1 : b[i] = c[((k + 1) + i) - 1]
    BY <1>1, Parts
  <1>4. d = RemoveAt(c, k)
    BY DEF RemoveAt
  <1> HIDE DEF a, b
  <1>5. Joins(d, a, b)
    BY <1>2, <1>3, JoinsParts
  <1> HIDE DEF d
  <1>6. d \in Seq(Nodes) /\ Len(d) = Len(c) - 1
    BY <1>1, <1>2, <1>3, <1>5 DEF Joins
  <1>7. ASSUME NEW i \in 1 .. Len(c) - 1
        PROVE  d[i] = IF i < k THEN c[i] ELSE c[i + 1]
    <2>1. d[i] = IF i <= k - 1 THEN a[i] ELSE b[i - (k - 1)]
      BY <1>1, <1>2, <1>5, <1>6 DEF Joins
    <2>2. CASE i < k
      BY <1>1, <1>2, <2>1, <2>2
    <2>3. CASE i >= k
      <3>1. /\ i - (k - 1) \in 1 .. (Len(c) - (k + 1)) + 1
            /\ ((k + 1) + (i - (k - 1))) - 1 = i + 1
        BY <1>1, <2>3
      <3> QED
        BY <1>1, <1>3, <2>1, <2>3, <3>1
    <2> QED
      BY <1>1, <2>2, <2>3
  <1> QED
    BY <1>4, <1>6, <1>7 DEF Removes

LEMMA ReplaceReplaces ==
  ASSUME NEW c \in Seq(Nodes), NEW x \in Nodes, NEW k \in 1 .. Len(c)
  PROVE  Replaces(ReplaceAt(c, k, x), c, k, x)
  BY ExceptSeq DEF ReplaceAt, Replaces

-----------------------------------------------------------------------------
(* What each macro does with a list that holds c, for a program whose      *)
(* pointers are typed.                                                     *)

PointersTyped ==
  head \in [Lists -> Cells] /\ next \in [Nodes -> Cells] /\ prev \in [Nodes -> Cells]

Holds(k, l, c) ==
  l \in Lists /\ c \in Seq(Nodes) /\ Once(c) /\ Represents(k, head[l], next, prev, c)

Fresh(add, c) == add \in Nodes /\ \A i \in 1 .. Len(c) : c[i] # add

(* List l then holds d, and nothing has changed outside c and X.           *)
Leaves(k, l, c, X, d) ==
  /\ PointersTyped'
  /\ Represents(k, head'[l], next', prev', d)
  /\ \A m \in Lists \ {l} : head'[m] = head[m]
  /\ \A x \in Nodes \ X :
       (\A i \in 1 .. Len(c) : c[i] # x) => next'[x] = next[x] /\ prev'[x] = prev[x]

(* A doubly linked or circular list, element by element.                   *)
LEMMA Shape ==
  ASSUME NEW k \in {"DL", "CDL"}, NEW l \in Lists, NEW c, Holds(k, l, c), PointersTyped
  PROVE  /\ Len(c) \in Nat
         /\ \A i \in 1 .. Len(c) : c[i] \in Nodes
         /\ \A i, j \in 1 .. Len(c) : c[i] = c[j] => i = j
         /\ head[l] = IF Len(c) = 0 THEN Null ELSE c[1]
         /\ \A i \in 1 .. Len(c) :
              /\ next[c[i]] = IF i < Len(c) THEN c[i + 1]
                              ELSE IF k = "CDL" THEN c[1] ELSE Null
              /\ prev[c[i]] = IF i > 1 THEN c[i - 1] ELSE c[Len(c)]
  <1>1. /\ Len(c) \in Nat
        /\ \A i \in 1 .. Len(c) : c[i] \in Nodes
        /\ c = <<>> <=> Len(c) = 0
    BY Elements DEF Holds
  <1>2. \A i, j \in 1 .. Len(c) : c[i] = c[j] => i = j
    BY DEF Holds, Once
  <1>3. head[l] = IF Len(c) = 0 THEN Null ELSE c[1]
    BY <1>1 DEF Holds, Represents, LinkedForward
  <1>4. ASSUME NEW i \in 1 .. Len(c)
        PROVE  /\ next[c[i]] = IF i < Len(c) THEN c[i + 1]
                               ELSE IF k = "CDL" THEN c[1] ELSE Null
               /\ prev[c[i]] = IF i > 1 THEN c[i - 1] ELSE c[Len(c)]
    BY <1>1, <1>3 DEF Holds, Represents, LinkedForward, LinkedBackward, EndOf
  <1> QED
    BY <1>1, <1>2, <1>3, <1>4

LEMMA DLShape ==
  ASSUME NEW l \in Lists, NEW c, Holds("DL", l, c), PointersTyped
  PROVE  /\ Len(c) \in Nat
         /\ \A i \in 1 .. Len(c) : c[i] \in Nodes
         /\ \A i, j \in 1 .. Len(c) : c[i] = c[j] => i = j
         /\ head[l] = IF Len(c) = 0 THEN Null ELSE c[1]
         /\ \A i \in 1 .. Len(c) :
              /\ next[c[i]] = IF i < Len(c) THEN c[i + 1] ELSE Null
              /\ prev[c[i]] = IF i > 1 THEN c[i - 1] ELSE c[Len(c)]
  <1>1. "DL" \in {"DL", "CDL"}
    OBVIOUS
  <1>2. /\ Len(c) \in Nat
        /\ \A i \in 1 .. Len(c) : c[i] \in Nodes
        /\ \A i, j \in 1 .. Len(c) : c[i] = c[j] => i = j
        /\ head[l] = IF Len(c) = 0 THEN Null ELSE c[1]
        /\ \A i \in 1 .. Len(c) :
             /\ next[c[i]] = IF i < Len(c) THEN c[i + 1]
                             ELSE IF "DL" = "CDL" THEN c[1] ELSE Null
             /\ prev[c[i]] = IF i > 1 THEN c[i - 1] ELSE c[Len(c)]
    BY <1>1, Shape, Zenon
  <1> QED
    BY <1>2

LEMMA CDLShape ==
  ASSUME NEW l \in Lists, NEW c, Holds("CDL", l, c), PointersTyped
  PROVE  /\ Len(c) \in Nat
         /\ \A i \in 1 .. Len(c) : c[i] \in Nodes
         /\ \A i, j \in 1 .. Len(c) : c[i] = c[j] => i = j
         /\ head[l] = IF Len(c) = 0 THEN Null ELSE c[1]
         /\ \A i \in 1 .. Len(c) :
              /\ next[c[i]] = IF i < Len(c) THEN c[i + 1] ELSE c[1]
              /\ prev[c[i]] = IF i > 1 THEN c[i - 1] ELSE c[Len(c)]
  <1>1. "CDL" \in {"DL", "CDL"}
    OBVIOUS
  <1>2. /\ Len(c) \in Nat
        /\ \A i \in 1 .. Len(c) : c[i] \in Nodes
        /\ \A i, j \in 1 .. Len(c) : c[i] = c[j] => i = j
        /\ head[l] = IF Len(c) = 0 THEN Null ELSE c[1]
        /\ \A i \in 1 .. Len(c) :
             /\ next[c[i]] = IF i < Len(c) THEN c[i + 1]
                             ELSE IF "CDL" = "CDL" THEN c[1] ELSE Null
             /\ prev[c[i]] = IF i > 1 THEN c[i - 1] ELSE c[Len(c)]
    BY <1>1, Shape, Zenon
  <1> QED
    BY <1>2

(* And the other way round.                                                *)
LEMMA Reshape ==
  ASSUME NEW k \in {"DL", "CDL"}, NEW l \in Lists, NEW d \in Seq(Nodes),
         head'[l] = IF Len(d) = 0 THEN Null ELSE d[1],
         \A i \in 1 .. Len(d) :
           next'[d[i]] = IF i < Len(d) THEN d[i + 1]
                         ELSE IF k = "CDL" THEN d[1] ELSE Null,
         \A i \in 1 .. Len(d) : prev'[d[i]] = IF i > 1 THEN d[i - 1] ELSE d[Len(d)]
  PROVE  Represents(k, head'[l], next', prev', d)
  <1>1. Len(d) \in Nat /\ (d = <<>> <=> Len(d) = 0)
    BY Elements
  <1>2. LinkedForward(k, head'[l], next', d)
    BY <1>1 DEF LinkedForward, EndOf
  <1>3. LinkedBackward(prev', d)
    BY <1>1 DEF LinkedBackward
  <1> QED
    BY <1>2, <1>3 DEF Represents

(* The pointers that have to change when add comes before the p-th of n    *)
(* elements, or after the last one.                                        *)
LEMMA Insertion ==
  ASSUME NEW k \in {"DL", "CDL"}, NEW l \in Lists, NEW add, NEW c, NEW d,
         NEW p \in 1 .. Len(c) + 1,
         PointersTyped, Holds(k, l, c), Fresh(add, c), Inserts(d, c, p, add),
         head'[l] = IF p = 1 THEN add ELSE head[l],
         next'[add] = IF p <= Len(c) THEN c[p]
                      ELSE IF k = "DL" THEN Null ELSE IF p = 1 THEN add ELSE c[1],
         prev'[add] = IF p > 1 THEN c[p - 1] ELSE IF Len(c) = 0 THEN add ELSE c[Len(c)],
         \A i \in 1 .. Len(c) :
           /\ next'[c[i]] = IF i = p - 1 \/ (k = "CDL" /\ i = Len(c) /\ p = 1) THEN add
                            ELSE next[c[i]]
           /\ prev'[c[i]] = IF i = p \/ (i = 1 /\ p = Len(c) + 1) THEN add
                            ELSE prev[c[i]]
  PROVE  Represents(k, head'[l], next', prev', d)
  <1>1. /\ Len(c) \in Nat
        /\ head[l] = IF Len(c) = 0 THEN Null ELSE c[1]
        /\ \A i \in 1 .. Len(c) :
             /\ next[c[i]] = IF i < Len(c) THEN c[i + 1]
                             ELSE IF k = "CDL" THEN c[1] ELSE Null
             /\ prev[c[i]] = IF i > 1 THEN c[i - 1] ELSE c[Len(c)]
    BY Shape
  <1>2. /\ d \in Seq(Nodes) /\ Len(d) = Len(c) + 1
        /\ \A i \in 1 .. Len(d) : d[i] = IF i < p THEN c[i] ELSE IF i = p THEN add ELSE c[i - 1]
    BY DEF Inserts
  <1> DEFINE n == Len(c)
  <1>3. n \in Nat /\ p \in Nat /\ 1 <= p /\ p <= n + 1 /\ Len(d) = n + 1
    BY <1>1, <1>2
  <1>4. head'[l] = IF Len(d) = 0 THEN Null ELSE d[1]
    <2>1. d[1] = IF p = 1 THEN add ELSE c[1]
      BY <1>2, <1>3
    <2> QED
      BY <1>1, <1>3, <2>1
  <1>5. ASSUME NEW i \in 1 .. Len(d)
        PROVE  /\ next'[d[i]] = IF i < Len(d) THEN d[i + 1]
                                ELSE IF k = "CDL" THEN d[1] ELSE Null
               /\ prev'[d[i]] = IF i > 1 THEN d[i - 1] ELSE d[Len(d)]
    <2>1. d[1] = IF p = 1 THEN add ELSE c[1]
      BY <1>2, <1>3
    <2>2. d[n + 1] = IF p = n + 1 THEN add ELSE c[n]
      BY <1>2, <1>3
    <2>3. i < n + 1 => d[i + 1] = IF i + 1 < p THEN c[i + 1] ELSE IF i + 1 = p THEN add ELSE c[i]
      BY <1>2, <1>3
    <2>4. i > 1 => d[i - 1] = IF i - 1 < p THEN c[i - 1] ELSE IF i - 1 = p THEN add ELSE c[i - 2]
      BY <1>2, <1>3
    <2>5. CASE i = p
      <3>1. d[i] = add
        BY <1>2, <2>5
      <3> QED
        BY <1>3, <2>1, <2>2, <2>3, <2>4, <2>5, <3>1
    <2>6. CASE i < p
      <3>1. d[i] = c[i] /\ i \in 1 .. n
        BY <1>2, <1>3, <2>6
      <3>2. next'[c[i]] = IF i < Len(d) THEN d[i + 1]
                          ELSE IF k = "CDL" THEN d[1] ELSE Null
        BY <1>1, <1>3, <2>1, <2>3, <2>6, <3>1
      <3>3. prev'[c[i]] = IF i > 1 THEN d[i - 1] ELSE d[Len(d)]
        BY <1>1, <1>3, <2>2, <2>4, <2>6, <3>1
      <3> QED
        BY <3>1, <3>2, <3>3
    <2>7. CASE i > p
      <3>1. d[i] = c[i - 1] /\ i - 1 \in 1 .. n
        BY <1>2, <1>3, <2>7
      <3>2. next'[c[i - 1]] = IF i < Len(d) THEN d[i + 1]
                              ELSE IF k = "CDL" THEN d[1] ELSE Null
        BY <1>1, <1>3, <2>1, <2>3, <2>7, <3>1
      <3>3. prev'[c[i - 1]] = IF i > 1 THEN d[i - 1] ELSE d[Len(d)]
        BY <1>1, <1>3, <2>2, <2>4, <2>7, <3>1
      <3> QED
        BY <3>1, <3>2, <3>3
    <2> QED
      BY <1>3, <2>5, <2>6, <2>7
  <1> QED
    BY <1>2, <1>4, <1>5, Reshape

LEMMA DLPrepend ==
  ASSUME NEW l \in Lists, NEW add, NEW c, NEW d,
         PointersTyped, Holds("DL", l, c), Fresh(add, c), Inserts(d, c, 1, add),
         DL_PREPEND(l, add)
  PROVE  Leaves("DL", l, c, {add}, d)
  <1>1. /\ Len(c) \in Nat
        /\ \A i \in 1 .. Len(c) : c[i] \in Nodes
        /\ \A i, j \in 1 .. Len(c) : c[i] = c[j] => i = j
        /\ head[l] = IF Len(c) = 0 THEN Null ELSE c[1]
        /\ \A i \in 1 .. Len(c) :
             /\ next[c[i]] = IF i < Len(c) THEN c[i + 1] ELSE Null
             /\ prev[c[i]] = IF i > 1 THEN c[i - 1] ELSE c[Len(c)]
    BY DLShape
  <1>2. add \in Nodes /\ Null \notin Nodes /\ \A i \in 1 .. Len(c) : c[i] # add
    BY NullAssumption DEF Fresh
  <1>3. /\ head' = [head EXCEPT ![l] = add]
        /\ next' = [next EXCEPT ![add] = head[l]]
        /\ prev' = IF head[l] = Null THEN [prev EXCEPT ![add] = add]
                   ELSE [prev EXCEPT ![add] = prev[head[l]], ![head[l]] = add]
    BY DEF DL_PREPEND
  <1>4. PointersTyped'
    BY <1>1, <1>2, <1>3 DEF PointersTyped, Cells
  <1>5. /\ next'[add] = head[l]
        /\ prev'[add] = IF Len(c) = 0 THEN add ELSE c[Len(c)]
        /\ head'[l] = add
    BY <1>1, <1>2, <1>3 DEF PointersTyped
  <1>6. \A y \in Nodes \ {add} :
          /\ next'[y] = next[y]
          /\ prev'[y] = IF y = head[l] THEN add ELSE prev[y]
    BY <1>1, <1>2, <1>3 DEF PointersTyped
  <1>7. \A i \in 1 .. Len(c) :
          next'[c[i]] = next[c[i]] /\ prev'[c[i]] = IF i = 1 THEN add ELSE prev[c[i]]
    BY <1>1, <1>2, <1>6
  <1>8. Represents("DL", head'[l], next', prev', d)
    BY <1>1, <1>5, <1>7, Insertion
  <1>9. \A m \in Lists \ {l} : head'[m] = head[m]
    BY <1>3 DEF PointersTyped
  <1>10. \A y \in Nodes \ {add} :
           (\A i \in 1 .. Len(c) : c[i] # y) => next'[y] = next[y] /\ prev'[y] = prev[y]
    BY <1>1, <1>2, <1>6
  <1> QED
    BY <1>4, <1>8, <1>9, <1>10 DEF Leaves

LEMMA DLAppend ==
  ASSUME NEW l \in Lists, NEW add, NEW c, NEW d,
         PointersTyped, Holds("DL", l, c), Fresh(add, c), Inserts(d, c, Len(c) + 1, add),
         DL_APPEND(l, add)
  PROVE  Leaves("DL", l, c, {add}, d)
  <1>1. /\ Len(c) \in Nat
        /\ \A i \in 1 .. Len(c) : c[i] \in Nodes
        /\ \A i, j \in 1 .. Len(c) : c[i] = c[j] => i = j
        /\ head[l] = IF Len(c) = 0 THEN Null ELSE c[1]
        /\ \A i \in 1 .. Len(c) :
             /\ next[c[i]] = IF i < Len(c) THEN c[i + 1] ELSE Null
             /\ prev[c[i]] = IF i > 1 THEN c[i - 1] ELSE c[Len(c)]
    BY DLShape
  <1>2. add \in Nodes /\ Null \notin Nodes /\ \A i \in 1 .. Len(c) : c[i] # add
    BY NullAssumption DEF Fresh
  <1>3. IF head[l] = Null
        THEN /\ head' = [head EXCEPT ![l] = add]
             /\ prev' = [prev EXCEPT ![add] = add]
             /\ next' = [next EXCEPT ![add] = Null]
        ELSE /\ prev' = [prev EXCEPT ![add] = prev[head[l]], ![head[l]] = add]
             /\ next' = [next EXCEPT ![prev[head[l]]] = add, ![add] = Null]
             /\ UNCHANGED head
    BY DEF DL_APPEND
  <1>4. PointersTyped'
    BY <1>1, <1>2, <1>3 DEF PointersTyped, Cells
  <1>5. /\ next'[add] = Null
        /\ prev'[add] = IF Len(c) = 0 THEN add ELSE c[Len(c)]
        /\ head'[l] = IF Len(c) = 0 THEN add ELSE head[l]
    BY <1>1, <1>2, <1>3 DEF PointersTyped
  <1>6. \A y \in Nodes \ {add} :
          /\ next'[y] = IF Len(c) > 0 /\ y = c[Len(c)] THEN add ELSE next[y]
          /\ prev'[y] = IF y = head[l] THEN add ELSE prev[y]
    BY <1>1, <1>2, <1>3 DEF PointersTyped
  <1>7. \A i \in 1 .. Len(c) :
          /\ next'[c[i]] = IF i = Len(c) THEN add ELSE next[c[i]]
          /\ prev'[c[i]] = IF i = 1 THEN add ELSE prev[c[i]]
    BY <1>1, <1>2, <1>6
  <1>8. Represents("DL", head'[l], next', prev', d)
    BY <1>1, <1>5, <1>7, Insertion
  <1>9. \A m \in Lists \ {l} : head'[m] = head[m]
    BY <1>3 DEF PointersTyped
  <1>10. \A y \in Nodes \ {add} :
           (\A i \in 1 .. Len(c) : c[i] # y) => next'[y] = next[y] /\ prev'[y] = prev[y]
    BY <1>1, <1>2, <1>6
  <1> QED
    BY <1>4, <1>8, <1>9, <1>10 DEF Leaves

LEMMA DLPrependElem ==
  ASSUME NEW l \in Lists, NEW add, NEW c, NEW d, NEW p \in 1 .. Len(c),
         PointersTyped, Holds("DL", l, c), Fresh(add, c), Inserts(d, c, p, add),
         DL_PREPEND_ELEM(l, c[p], add)
  PROVE  Leaves("DL", l, c, {add}, d)
  <1>1. /\ Len(c) \in Nat
        /\ \A i \in 1 .. Len(c) : c[i] \in Nodes
        /\ \A i, j \in 1 .. Len(c) : c[i] = c[j] => i = j
        /\ head[l] = IF Len(c) = 0 THEN Null ELSE c[1]
        /\ \A i \in 1 .. Len(c) :
             /\ next[c[i]] = IF i < Len(c) THEN c[i + 1] ELSE Null
             /\ prev[c[i]] = IF i > 1 THEN c[i - 1] ELSE c[Len(c)]
    BY DLShape
  <1>2. add \in Nodes /\ Null \notin Nodes /\ \A i \in 1 .. Len(c) : c[i] # add
    BY NullAssumption DEF Fresh
  <1>3. /\ prev' = [prev EXCEPT ![add] = prev[c[p]], ![c[p]] = add]
        /\ IF head[l] = c[p]
           THEN /\ next' = [next EXCEPT ![add] = c[p]]
                /\ head' = [head EXCEPT ![l] = add]
           ELSE /\ next' = [next EXCEPT ![add] = c[p], ![prev[c[p]]] = add]
                /\ UNCHANGED head
    BY DEF DL_PREPEND_ELEM
  <1>4. PointersTyped'
    <2>1. c[p] \in Nodes /\ prev[c[p]] \in Cells
      BY <1>1, <1>2 DEF PointersTyped
    <2>2. prev' \in [Nodes -> Cells]
      BY <1>2, <1>3, <2>1 DEF PointersTyped, Cells
    <2>3. head' \in [Lists -> Cells] /\ next' \in [Nodes -> Cells]
      BY <1>2, <1>3, <2>1 DEF PointersTyped, Cells
    <2> QED
      BY <2>2, <2>3 DEF PointersTyped
  <1>5. /\ next'[add] = c[p]
        /\ prev'[add] = IF p > 1 THEN c[p - 1] ELSE c[Len(c)]
        /\ head'[l] = IF p = 1 THEN add ELSE head[l]
    BY <1>1, <1>2, <1>3 DEF PointersTyped
  <1>6. \A y \in Nodes \ {add} :
          /\ next'[y] = IF p > 1 /\ y = c[p - 1] THEN add ELSE next[y]
          /\ prev'[y] = IF y = c[p] THEN add ELSE prev[y]
    BY <1>1, <1>2, <1>3 DEF PointersTyped
  <1>7. \A i \in 1 .. Len(c) :
          /\ next'[c[i]] = IF i = p - 1 THEN add ELSE next[c[i]]
          /\ prev'[c[i]] = IF i = p THEN add ELSE prev[c[i]]
    <2>1. /\ \A i \in 1 .. Len(c) : c[i] = c[p] <=> i = p
          /\ p > 1 => \A i \in 1 .. Len(c) : c[i] = c[p - 1] <=> i = p - 1
      BY <1>1
    <2> QED
      BY <1>1, <1>2, <1>6, <2>1
  <1>8. Represents("DL", head'[l], next', prev', d)
    <2>1. /\ p \in Nat /\ 1 <= p /\ p <= Len(c) /\ p \in 1 .. Len(c) + 1
          /\ Len(c) # 0 /\ p # Len(c) + 1
      BY <1>1
    <2>2. /\ "DL" \in {"DL", "CDL"}
          /\ next'[add] = IF p <= Len(c) THEN c[p]
                          ELSE IF "DL" = "DL" THEN Null ELSE IF p = 1 THEN add ELSE c[1]
          /\ prev'[add] = IF p > 1 THEN c[p - 1] ELSE IF Len(c) = 0 THEN add ELSE c[Len(c)]
          /\ head'[l] = IF p = 1 THEN add ELSE head[l]
      BY <1>5, <2>1
    <2>3. \A i \in 1 .. Len(c) :
            /\ next'[c[i]] = IF i = p - 1 \/ ("DL" = "CDL" /\ i = Len(c) /\ p = 1) THEN add
                             ELSE next[c[i]]
            /\ prev'[c[i]] = IF i = p \/ (i = 1 /\ p = Len(c) + 1) THEN add
                             ELSE prev[c[i]]
      BY <1>7, <2>1
    <2> QED
      BY <2>1, <2>2, <2>3, Insertion, Zenon
  <1>9. \A m \in Lists \ {l} : head'[m] = head[m]
    BY <1>3 DEF PointersTyped
  <1>10. \A y \in Nodes \ {add} :
           (\A i \in 1 .. Len(c) : c[i] # y) => next'[y] = next[y] /\ prev'[y] = prev[y]
    BY <1>1, <1>2, <1>6
  <1> QED
    BY <1>4, <1>8, <1>9, <1>10 DEF Leaves

LEMMA CDLPrepend ==
  ASSUME NEW l \in Lists, NEW add, NEW c, NEW d,
         PointersTyped, Holds("CDL", l, c), Fresh(add, c), Inserts(d, c, 1, add),
         CDL_PREPEND(l, add)
  PROVE  Leaves("CDL", l, c, {add}, d)
  <1>1. /\ Len(c) \in Nat
        /\ \A i \in 1 .. Len(c) : c[i] \in Nodes
        /\ \A i, j \in 1 .. Len(c) : c[i] = c[j] => i = j
        /\ head[l] = IF Len(c) = 0 THEN Null ELSE c[1]
        /\ \A i \in 1 .. Len(c) :
             /\ next[c[i]] = IF i < Len(c) THEN c[i + 1] ELSE c[1]
             /\ prev[c[i]] = IF i > 1 THEN c[i - 1] ELSE c[Len(c)]
    BY CDLShape
  <1>2. add \in Nodes /\ Null \notin Nodes /\ \A i \in 1 .. Len(c) : c[i] # add
    BY NullAssumption DEF Fresh
  <1>3. /\ IF head[l] = Null
           THEN /\ prev' = [prev EXCEPT ![add] = add]
                /\ next' = [next EXCEPT ![add] = add]
           ELSE /\ prev' = [prev EXCEPT ![add] = prev[head[l]], ![head[l]] = add]
                /\ next' = [next EXCEPT ![add] = head[l], ![prev[head[l]]] = add]
        /\ head' = [head EXCEPT ![l] = add]
    BY DEF CDL_PREPEND
  <1>4. PointersTyped'
    BY <1>1, <1>2, <1>3 DEF PointersTyped, Cells
  <1>5. /\ next'[add] = IF Len(c) = 0 THEN add ELSE c[1]
        /\ prev'[add] = IF Len(c) = 0 THEN add ELSE c[Len(c)]
        /\ head'[l] = add
    BY <1>1, <1>2, <1>3 DEF PointersTyped
  <1>6. \A y \in Nodes \ {add} :
          /\ next'[y] = IF Len(c) > 0 /\ y = c[Len(c)] THEN add ELSE next[y]
          /\ prev'[y] = IF y = head[l] THEN add ELSE prev[y]
    BY <1>1, <1>2, <1>3 DEF PointersTyped
  <1>7. \A i \in 1 .. Len(c) :
          /\ next'[c[i]] = IF i = Len(c) THEN add ELSE next[c[i]]
          /\ prev'[c[i]] = IF i = 1 THEN add ELSE prev[c[i]]
    BY <1>1, <1>2, <1>6
  <1>8. Represents("CDL", head'[l], next', prev', d)
    BY <1>1, <1>5, <1>7, Insertion
  <1>9. \A m \in Lists \ {l} : head'[m] = head[m]
    BY <1>3 DEF PointersTyped
  <1>10. \A y \in Nodes \ {add} :
           (\A i \in 1 .. Len(c) : c[i] # y) => next'[y] = next[y] /\ prev'[y] = prev[y]
    BY <1>1, <1>2, <1>6
  <1> QED
    BY <1>4, <1>8, <1>9, <1>10 DEF Leaves

LEMMA CDLPrependElem ==
  ASSUME NEW l \in Lists, NEW add, NEW c, NEW d, NEW p \in 1 .. Len(c),
         PointersTyped, Holds("CDL", l, c), Fresh(add, c), Inserts(d, c, p, add),
         CDL_PREPEND_ELEM(l, c[p], add)
  PROVE  Leaves("CDL", l, c, {add}, d)
  <1>1. /\ Len(c) \in Nat
        /\ \A i \in 1 .. Len(c) : c[i] \in Nodes
        /\ \A i, j \in 1 .. Len(c) : c[i] = c[j] => i = j
        /\ head[l] = IF Len(c) = 0 THEN Null ELSE c[1]
        /\ \A i \in 1 .. Len(c) :
             /\ next[c[i]] = IF i < Len(c) THEN c[i + 1] ELSE c[1]
             /\ prev[c[i]] = IF i > 1 THEN c[i - 1] ELSE c[Len(c)]
    BY CDLShape
  <1>2. add \in Nodes /\ Null \notin Nodes /\ \A i \in 1 .. Len(c) : c[i] # add
    BY NullAssumption DEF Fresh
  <1>3. /\ next' = [next EXCEPT ![add] = c[p], ![prev[c[p]]] = add]
        /\ prev' = [prev EXCEPT ![add] = prev[c[p]], ![c[p]] = add]
        /\ head' = IF head[l] = c[p] THEN [head EXCEPT ![l] = add] ELSE head
    BY DEF CDL_PREPEND_ELEM
  <1>4. PointersTyped'
    BY <1>1, <1>2, <1>3 DEF PointersTyped, Cells
  <1>5. /\ next'[add] = c[p]
        /\ prev'[add] = IF p > 1 THEN c[p - 1] ELSE c[Len(c)]
        /\ head'[l] = IF p = 1 THEN add ELSE head[l]
    BY <1>1, <1>2, <1>3 DEF PointersTyped
  <1>6. \A y \in Nodes \ {add} :
          /\ next'[y] = IF y = c[IF p > 1 THEN p - 1 ELSE Len(c)] THEN add ELSE next[y]
          /\ prev'[y] = IF y = c[p] THEN add ELSE prev[y]
    BY <1>1, <1>2, <1>3 DEF PointersTyped
  <1>7. \A i \in 1 .. Len(c) :
          /\ next'[c[i]] = IF i = p - 1 \/ (i = Len(c) /\ p = 1) THEN add ELSE next[c[i]]
          /\ prev'[c[i]] = IF i = p THEN add ELSE prev[c[i]]
    BY <1>1, <1>2, <1>6
  <1>8. Represents("CDL", head'[l], next', prev', d)
    <2>1. /\ p \in Nat /\ 1 <= p /\ p <= Len(c) /\ p \in 1 .. Len(c) + 1
          /\ Len(c) # 0 /\ p # Len(c) + 1
      BY <1>1
    <2>2. /\ "CDL" \in {"DL", "CDL"}
          /\ next'[add] = IF p <= Len(c) THEN c[p]
                          ELSE IF "CDL" = "DL" THEN Null ELSE IF p = 1 THEN add ELSE c[1]
          /\ prev'[add] = IF p > 1 THEN c[p - 1] ELSE IF Len(c) = 0 THEN add ELSE c[Len(c)]
          /\ head'[l] = IF p = 1 THEN add ELSE head[l]
      BY <1>5, <2>1
    <2>3. \A i \in 1 .. Len(c) :
            /\ next'[c[i]] = IF i = p - 1 \/ ("CDL" = "CDL" /\ i = Len(c) /\ p = 1) THEN add
                             ELSE next[c[i]]
            /\ prev'[c[i]] = IF i = p \/ (i = 1 /\ p = Len(c) + 1) THEN add
                             ELSE prev[c[i]]
      BY <1>7, <2>1
    <2> QED
      BY <2>1, <2>2, <2>3, Insertion, Zenon
  <1>9. \A m \in Lists \ {l} : head'[m] = head[m]
    BY <1>3 DEF PointersTyped
  <1>10. \A y \in Nodes \ {add} :
           (\A i \in 1 .. Len(c) : c[i] # y) => next'[y] = next[y] /\ prev'[y] = prev[y]
    BY <1>1, <1>2, <1>6
  <1> QED
    BY <1>4, <1>8, <1>9, <1>10 DEF Leaves

(* The pointers that have to change when the p-th element goes.            *)
LEMMA Removal ==
  ASSUME NEW k \in {"DL", "CDL"}, NEW l \in Lists, NEW c, NEW d, NEW p \in 1 .. Len(c),
         PointersTyped, Holds(k, l, c), Removes(d, c, p),
         head'[l] = IF p > 1 THEN head[l] ELSE IF Len(c) = 1 THEN Null ELSE c[2],
         \A i \in 1 .. Len(c) : i # p =>
           /\ next'[c[i]] = IF i = p - 1 \/ (k = "CDL" /\ i = Len(c) /\ p = 1) THEN next[c[p]]
                            ELSE next[c[i]]
           /\ prev'[c[i]] = IF i = p + 1 \/ (i = 1 /\ p = Len(c)) THEN prev[c[p]]
                            ELSE prev[c[i]]
  PROVE  Represents(k, head'[l], next', prev', d)
  <1>1. /\ Len(c) \in Nat
        /\ head[l] = IF Len(c) = 0 THEN Null ELSE c[1]
        /\ \A i \in 1 .. Len(c) :
             /\ next[c[i]] = IF i < Len(c) THEN c[i + 1]
                             ELSE IF k = "CDL" THEN c[1] ELSE Null
             /\ prev[c[i]] = IF i > 1 THEN c[i - 1] ELSE c[Len(c)]
    BY Shape
  <1>2. /\ d \in Seq(Nodes) /\ Len(d) = Len(c) - 1
        /\ \A i \in 1 .. Len(d) : d[i] = IF i < p THEN c[i] ELSE c[i + 1]
    BY DEF Removes
  <1> DEFINE n == Len(c)
  <1>3. n \in Nat /\ p \in Nat /\ 1 <= p /\ p <= n /\ Len(d) = n - 1
    BY <1>1, <1>2
  <1>4. head'[l] = IF Len(d) = 0 THEN Null ELSE d[1]
    <2>1. n > 1 => d[1] = IF p = 1 THEN c[2] ELSE c[1]
      BY <1>2, <1>3
    <2> QED
      BY <1>1, <1>3, <2>1
  <1>5. ASSUME NEW i \in 1 .. Len(d)
        PROVE  /\ next'[d[i]] = IF i < Len(d) THEN d[i + 1]
                                ELSE IF k = "CDL" THEN d[1] ELSE Null
               /\ prev'[d[i]] = IF i > 1 THEN d[i - 1] ELSE d[Len(d)]
    <2>1. d[1] = IF p = 1 THEN c[2] ELSE c[1]
      BY <1>2, <1>3
    <2>2. d[n - 1] = IF p = n THEN c[n - 1] ELSE c[n]
      BY <1>2, <1>3
    <2>3. i < n - 1 => d[i + 1] = IF i + 1 < p THEN c[i + 1] ELSE c[i + 2]
      BY <1>2, <1>3
    <2>4. i > 1 => d[i - 1] = IF i - 1 < p THEN c[i - 1] ELSE c[i]
      BY <1>2, <1>3
    <2>6. CASE i < p
      <3>1. d[i] = c[i] /\ i \in 1 .. n /\ i # p
        BY <1>2, <1>3, <2>6
      <3>2. next'[c[i]] = IF i < Len(d) THEN d[i + 1]
                          ELSE IF k = "CDL" THEN d[1] ELSE Null
        BY <1>1, <1>3, <2>1, <2>3, <2>6, <3>1
      <3>3. prev'[c[i]] = IF i > 1 THEN d[i - 1] ELSE d[Len(d)]
        BY <1>1, <1>3, <2>2, <2>4, <2>6, <3>1
      <3> QED
        BY <3>1, <3>2, <3>3
    <2>7. CASE i >= p
      <3>1. d[i] = c[i + 1] /\ i + 1 \in 1 .. n /\ i + 1 # p
        BY <1>2, <1>3, <2>7
      <3>2. next'[c[i + 1]] = IF i < Len(d) THEN d[i + 1]
                              ELSE IF k = "CDL" THEN d[1] ELSE Null
        BY <1>1, <1>3, <2>1, <2>3, <2>7, <3>1
      <3>3. prev'[c[i + 1]] = IF i > 1 THEN d[i - 1] ELSE d[Len(d)]
        BY <1>1, <1>3, <2>2, <2>4, <2>7, <3>1
      <3> QED
        BY <3>1, <3>2, <3>3
    <2> QED
      BY <1>3, <2>6, <2>7
  <1> QED
    BY <1>2, <1>4, <1>5, Reshape

LEMMA DLDelete ==
  ASSUME NEW l \in Lists, NEW c, NEW d, NEW p \in 1 .. Len(c),
         PointersTyped, Holds("DL", l, c), Removes(d, c, p), DL_DELETE(l, c[p])
  PROVE  Leaves("DL", l, c, {}, d)
  <1>1. /\ Len(c) \in Nat
        /\ \A i \in 1 .. Len(c) : c[i] \in Nodes
        /\ \A i, j \in 1 .. Len(c) : c[i] = c[j] => i = j
        /\ head[l] = IF Len(c) = 0 THEN Null ELSE c[1]
        /\ \A i \in 1 .. Len(c) :
             /\ next[c[i]] = IF i < Len(c) THEN c[i + 1] ELSE Null
             /\ prev[c[i]] = IF i > 1 THEN c[i - 1] ELSE c[Len(c)]
    BY DLShape
  <1> DEFINE b == IF p > 1 THEN p - 1 ELSE Len(c)
             f == IF p < Len(c) THEN p + 1 ELSE 1
  <1>2. /\ p \in 1 .. Len(c) /\ b \in 1 .. Len(c) /\ f \in 1 .. Len(c)
        /\ p > 1 => b = p - 1
        /\ p < Len(c) => f = p + 1
        /\ p = 1 => b = Len(c)
        /\ p = Len(c) => f = 1
    <2>1. Len(c) \in Nat /\ p \in Nat /\ 1 <= p /\ p <= Len(c)
      BY <1>1
    <2>2. /\ p \in 1 .. Len(c) /\ b \in 1 .. Len(c) /\ f \in 1 .. Len(c)
          /\ p > 1 => b = p - 1
          /\ p < Len(c) => f = p + 1
      BY <2>1
    <2>3. p = 1 => b = Len(c)
      BY <2>1
    <2>4. p = Len(c) => f = 1
      BY <2>1
    <2> QED
      BY <2>2, <2>3, <2>4
  <1> HIDE DEF b, f
  <1>14. (b = p <=> Len(c) = 1) /\ (f = p <=> Len(c) = 1)
    <2>1. Len(c) \in Nat
      BY <1>1
    <2>2. CASE p = 1
      BY <1>2, <2>1, <2>2
    <2>3. CASE p > 1
      BY <1>2, <2>1, <2>3
    <2> QED
      BY <1>2, <2>1, <2>2, <2>3
  <1>3. /\ Null \notin Nodes /\ c[b] \in Nodes /\ c[f] \in Nodes /\ c[p] \in Nodes
        /\ \A i \in 1 .. Len(c) : c[i] = c[b] <=> i = b
        /\ \A i \in 1 .. Len(c) : c[i] = c[f] <=> i = f
    BY <1>1, <1>2, NullAssumption
  <1>4. /\ prev[c[p]] = c[b]
        /\ prev[c[p]] = c[p] <=> Len(c) = 1
        /\ head[l] = c[p] <=> p = 1
        /\ next[c[p]] = IF p < Len(c) THEN c[f] ELSE Null
        /\ next[c[p]] # Null <=> p < Len(c)
        /\ p = Len(c) => head[l] = c[f]
    <2>1. prev[c[p]] = c[b]
      BY <1>1, <1>2, <1>3, <1>14
    <2>2. prev[c[p]] = c[p] <=> Len(c) = 1
      BY <1>1, <1>2, <1>3, <1>14, <2>1
    <2>3. head[l] = c[p] <=> p = 1
      BY <1>1, <1>2, <1>3, <1>14, <2>1
    <2>4. next[c[p]] = IF p < Len(c) THEN c[f] ELSE Null
      BY <1>1, <1>2, <1>3, <1>14, <2>1
    <2>5. next[c[p]] # Null <=> p < Len(c)
      BY <1>1, <1>2, <1>3, <1>14, <2>1
    <2>6. p = Len(c) => head[l] = c[f]
      BY <1>1, <1>2, <1>3, <1>14, <2>1
    <2> QED
      BY <2>1, <2>2, <2>3, <2>4, <2>5, <2>6
  <1>5. IF prev[c[p]] = c[p]
        THEN head' = [head EXCEPT ![l] = Null] /\ UNCHANGED <<next, prev>>
        ELSE IF c[p] = head[l]
        THEN /\ prev' = [prev EXCEPT ![next[c[p]]] = prev[c[p]]]
             /\ head' = [head EXCEPT ![l] = next[c[p]]]
             /\ UNCHANGED next
        ELSE /\ next' = [next EXCEPT ![prev[c[p]]] = next[c[p]]]
             /\ prev' = [prev EXCEPT
                          ![IF next[c[p]] # Null THEN next[c[p]] ELSE head[l]] = prev[c[p]]]
             /\ UNCHANGED head
    BY DEF DL_DELETE
  <1>6. IF Len(c) = 1
        THEN head' = [head EXCEPT ![l] = Null] /\ UNCHANGED <<next, prev>>
        ELSE /\ prev' = [prev EXCEPT ![c[f]] = prev[c[p]]]
             /\ next' = IF p = 1 THEN next ELSE [next EXCEPT ![c[b]] = next[c[p]]]
             /\ head' = IF p = 1 THEN [head EXCEPT ![l] = c[f]] ELSE head
    BY <1>1, <1>4, <1>5
  <1>7. PointersTyped'
    <2>1. head' \in [Lists -> Cells]
      BY <1>3, <1>6 DEF PointersTyped, Cells
    <2>2. next' \in [Nodes -> Cells]
      BY <1>3, <1>6 DEF PointersTyped, Cells
    <2>3. prev' \in [Nodes -> Cells]
      BY <1>3, <1>6 DEF PointersTyped, Cells
    <2> QED
      BY <2>1, <2>2, <2>3 DEF PointersTyped
  <1>8. head'[l] = IF p > 1 THEN head[l] ELSE IF Len(c) = 1 THEN Null ELSE c[2]
    <2>1. Len(c) # 1 /\ p = 1 => f = 2
      BY <1>1, <1>2
    <2>2. Len(c) = 1 => p = 1
      BY <1>2
    <2>3. p > 1 <=> p # 1
      BY <1>2
    <2> QED
      BY <1>6, <2>1, <2>2, <2>3 DEF PointersTyped
  <1>9. \A y \in Nodes \ {c[p]} :
          /\ next'[y] = IF p > 1 /\ y = c[b] THEN next[c[p]] ELSE next[y]
          /\ prev'[y] = IF y = c[f] THEN prev[c[p]] ELSE prev[y]
    BY <1>1, <1>2, <1>3, <1>6 DEF PointersTyped
  <1>10. \A i \in 1 .. Len(c) : i # p =>
           /\ next'[c[i]] = IF i = p - 1 THEN next[c[p]] ELSE next[c[i]]
           /\ prev'[c[i]] = IF i = p + 1 \/ (i = 1 /\ p = Len(c)) THEN prev[c[p]]
                            ELSE prev[c[i]]
    <2>1. \A i \in 1 .. Len(c) : i # p => c[i] \in Nodes \ {c[p]}
      BY <1>1
    <2>2. Len(c) \in Nat
      BY <1>1
    <2> QED
      <3>1. \A i \in 1 .. Len(c) : i = b <=> i = p - 1 \/ (i = Len(c) /\ p = 1)
        BY <1>2, <2>2
      <3>2. \A i \in 1 .. Len(c) : i # p => (i = f <=> i = p + 1 \/ (i = 1 /\ p = Len(c)))
        BY <1>2, <2>2
      <3>3. \A i \in 1 .. Len(c) : p > 1 /\ i = b <=> i = p - 1
        BY <1>2, <2>2
      <3> QED
        BY <1>3, <1>9, <2>1, <3>1, <3>2, <3>3
  <1>11. Represents("DL", head'[l], next', prev', d)
    BY <1>8, <1>10, Removal
  <1>12. \A m \in Lists \ {l} : head'[m] = head[m]
    BY <1>6 DEF PointersTyped
  <1>13. \A y \in Nodes \ {} :
           (\A i \in 1 .. Len(c) : c[i] # y) => next'[y] = next[y] /\ prev'[y] = prev[y]
    BY <1>2, <1>9
  <1> QED
    BY <1>7, <1>11, <1>12, <1>13 DEF Leaves

LEMMA CDLDelete ==
  ASSUME NEW l \in Lists, NEW c, NEW d, NEW p \in 1 .. Len(c),
         PointersTyped, Holds("CDL", l, c), Removes(d, c, p), CDL_DELETE(l, c[p])
  PROVE  Leaves("CDL", l, c, {}, d)
  <1>1. /\ Len(c) \in Nat
        /\ \A i \in 1 .. Len(c) : c[i] \in Nodes
        /\ \A i, j \in 1 .. Len(c) : c[i] = c[j] => i = j
        /\ head[l] = IF Len(c) = 0 THEN Null ELSE c[1]
        /\ \A i \in 1 .. Len(c) :
             /\ next[c[i]] = IF i < Len(c) THEN c[i + 1] ELSE c[1]
             /\ prev[c[i]] = IF i > 1 THEN c[i - 1] ELSE c[Len(c)]
    BY CDLShape
  <1> DEFINE b == IF p > 1 THEN p - 1 ELSE Len(c)
             f == IF p < Len(c) THEN p + 1 ELSE 1
  <1>2. /\ p \in 1 .. Len(c) /\ b \in 1 .. Len(c) /\ f \in 1 .. Len(c)
        /\ p > 1 => b = p - 1
        /\ p < Len(c) => f = p + 1
        /\ p = 1 => b = Len(c)
        /\ p = Len(c) => f = 1
    <2>1. Len(c) \in Nat /\ p \in Nat /\ 1 <= p /\ p <= Len(c)
      BY <1>1
    <2>2. /\ p \in 1 .. Len(c) /\ b \in 1 .. Len(c) /\ f \in 1 .. Len(c)
          /\ p > 1 => b = p - 1
          /\ p < Len(c) => f = p + 1
      BY <2>1
    <2>3. p = 1 => b = Len(c)
      BY <2>1
    <2>4. p = Len(c) => f = 1
      BY <2>1
    <2> QED
      BY <2>2, <2>3, <2>4
  <1> HIDE DEF b, f
  <1>14. (b = p <=> Len(c) = 1) /\ (f = p <=> Len(c) = 1)
    <2>1. Len(c) \in Nat
      BY <1>1
    <2>2. CASE p = 1
      BY <1>2, <2>1, <2>2
    <2>3. CASE p > 1
      BY <1>2, <2>1, <2>3
    <2> QED
      BY <1>2, <2>1, <2>2, <2>3
  <1>3. /\ Null \notin Nodes /\ c[b] \in Nodes /\ c[f] \in Nodes /\ c[p] \in Nodes
        /\ \A i \in 1 .. Len(c) : c[i] = c[b] <=> i = b
        /\ \A i \in 1 .. Len(c) : c[i] = c[f] <=> i = f
    BY <1>1, <1>2, NullAssumption
  <1>4. /\ prev[c[p]] = c[b]
        /\ next[c[p]] = c[f]
        /\ next[c[p]] = c[p] <=> Len(c) = 1
        /\ head[l] = c[p] <=> p = 1
        /\ Len(c) = 1 => p = 1
    <2>1. prev[c[p]] = c[b]
      BY <1>1, <1>2, <1>3, <1>14
    <2>2. next[c[p]] = c[f]
      BY <1>1, <1>2, <1>3, <1>14, <2>1
    <2>3. next[c[p]] = c[p] <=> Len(c) = 1
      BY <1>1, <1>2, <1>3, <1>14, <2>1
    <2>4. head[l] = c[p] <=> p = 1
      BY <1>1, <1>2, <1>3, <1>14, <2>1
    <2>5. Len(c) = 1 => p = 1
      BY <1>1, <1>2, <1>3, <1>14, <2>1
    <2> QED
      BY <2>1, <2>2, <2>3, <2>4, <2>5
  <1>5. IF head[l] = c[p] /\ next[c[p]] = c[p]
        THEN head' = [head EXCEPT ![l] = Null] /\ UNCHANGED <<next, prev>>
        ELSE /\ prev' = [prev EXCEPT ![next[c[p]]] = prev[c[p]]]
             /\ next' = [next EXCEPT ![prev[c[p]]] = next[c[p]]]
             /\ head' = IF c[p] = head[l] THEN [head EXCEPT ![l] = next[c[p]]] ELSE head
    BY DEF CDL_DELETE
  <1>6. IF Len(c) = 1
        THEN head' = [head EXCEPT ![l] = Null] /\ UNCHANGED <<next, prev>>
        ELSE /\ prev' = [prev EXCEPT ![c[f]] = prev[c[p]]]
             /\ next' = [next EXCEPT ![c[b]] = next[c[p]]]
             /\ head' = IF p = 1 THEN [head EXCEPT ![l] = c[f]] ELSE head
    BY <1>1, <1>4, <1>5
  <1>7. PointersTyped'
    <2>1. head' \in [Lists -> Cells]
      BY <1>3, <1>6 DEF PointersTyped, Cells
    <2>2. next' \in [Nodes -> Cells]
      BY <1>3, <1>6 DEF PointersTyped, Cells
    <2>3. prev' \in [Nodes -> Cells]
      BY <1>3, <1>6 DEF PointersTyped, Cells
    <2> QED
      BY <2>1, <2>2, <2>3 DEF PointersTyped
  <1>8. head'[l] = IF p > 1 THEN head[l] ELSE IF Len(c) = 1 THEN Null ELSE c[2]
    <2>1. Len(c) # 1 /\ p = 1 => f = 2
      BY <1>1, <1>2
    <2>2. Len(c) = 1 => p = 1
      BY <1>2
    <2>3. p > 1 <=> p # 1
      BY <1>2
    <2> QED
      BY <1>6, <2>1, <2>2, <2>3 DEF PointersTyped
  <1>9. \A y \in Nodes \ {c[p]} :
          /\ next'[y] = IF y = c[b] THEN next[c[p]] ELSE next[y]
          /\ prev'[y] = IF y = c[f] THEN prev[c[p]] ELSE prev[y]
    BY <1>1, <1>2, <1>3, <1>6 DEF PointersTyped
  <1>10. \A i \in 1 .. Len(c) : i # p =>
           /\ next'[c[i]] = IF i = p - 1 \/ (i = Len(c) /\ p = 1) THEN next[c[p]]
                            ELSE next[c[i]]
           /\ prev'[c[i]] = IF i = p + 1 \/ (i = 1 /\ p = Len(c)) THEN prev[c[p]]
                            ELSE prev[c[i]]
    <2>1. \A i \in 1 .. Len(c) : i # p => c[i] \in Nodes \ {c[p]}
      BY <1>1
    <2>2. Len(c) \in Nat
      BY <1>1
    <2> QED
      <3>1. \A i \in 1 .. Len(c) : i = b <=> i = p - 1 \/ (i = Len(c) /\ p = 1)
        BY <1>2, <2>2
      <3>2. \A i \in 1 .. Len(c) : i # p => (i = f <=> i = p + 1 \/ (i = 1 /\ p = Len(c)))
        BY <1>2, <2>2
      <3>3. \A i \in 1 .. Len(c) : p > 1 /\ i = b <=> i = p - 1
        BY <1>2, <2>2
      <3> QED
        BY <1>3, <1>9, <2>1, <3>1, <3>2, <3>3
  <1>11. Represents("CDL", head'[l], next', prev', d)
    BY <1>8, <1>10, Removal
  <1>12. \A m \in Lists \ {l} : head'[m] = head[m]
    BY <1>6 DEF PointersTyped
  <1>13. \A y \in Nodes \ {} :
           (\A i \in 1 .. Len(c) : c[i] # y) => next'[y] = next[y] /\ prev'[y] = prev[y]
    BY <1>2, <1>9
  <1> QED
    BY <1>7, <1>11, <1>12, <1>13 DEF Leaves

(* The pointers that have to change when add takes the p-th place.         *)
LEMMA Replacement ==
  ASSUME NEW k \in {"DL", "CDL"}, NEW l \in Lists, NEW add, NEW c, NEW d,
         NEW p \in 1 .. Len(c),
         PointersTyped, Holds(k, l, c), Fresh(add, c), Replaces(d, c, p, add),
         head'[l] = IF p > 1 THEN head[l] ELSE add,
         next'[add] = IF Len(c) > 1 THEN next[c[p]] ELSE IF k = "CDL" THEN add ELSE Null,
         prev'[add] = IF Len(c) > 1 THEN prev[c[p]] ELSE add,
         \A i \in 1 .. Len(c) : i # p =>
           /\ next'[c[i]] = IF i = p - 1 \/ (k = "CDL" /\ i = Len(c) /\ p = 1) THEN add
                            ELSE next[c[i]]
           /\ prev'[c[i]] = IF i = p + 1 \/ (i = 1 /\ p = Len(c)) THEN add
                            ELSE prev[c[i]]
  PROVE  Represents(k, head'[l], next', prev', d)
  <1>1. /\ Len(c) \in Nat
        /\ head[l] = IF Len(c) = 0 THEN Null ELSE c[1]
        /\ \A i \in 1 .. Len(c) :
             /\ next[c[i]] = IF i < Len(c) THEN c[i + 1]
                             ELSE IF k = "CDL" THEN c[1] ELSE Null
             /\ prev[c[i]] = IF i > 1 THEN c[i - 1] ELSE c[Len(c)]
    BY Shape
  <1>2. /\ d \in Seq(Nodes) /\ Len(d) = Len(c)
        /\ \A i \in 1 .. Len(d) : d[i] = IF i = p THEN add ELSE c[i]
    BY DEF Replaces
  <1> DEFINE n == Len(c)
  <1>3. n \in Nat /\ p \in Nat /\ 1 <= p /\ p <= n /\ Len(d) = n
    BY <1>1, <1>2
  <1>4. head'[l] = IF Len(d) = 0 THEN Null ELSE d[1]
    BY <1>1, <1>2, <1>3
  <1>5. ASSUME NEW i \in 1 .. Len(d)
        PROVE  /\ next'[d[i]] = IF i < Len(d) THEN d[i + 1]
                                ELSE IF k = "CDL" THEN d[1] ELSE Null
               /\ prev'[d[i]] = IF i > 1 THEN d[i - 1] ELSE d[Len(d)]
    <2>1. d[1] = IF p = 1 THEN add ELSE c[1]
      BY <1>2, <1>3
    <2>2. d[n] = IF p = n THEN add ELSE c[n]
      BY <1>2, <1>3
    <2>3. i < n => d[i + 1] = IF i + 1 = p THEN add ELSE c[i + 1]
      BY <1>2, <1>3
    <2>4. i > 1 => d[i - 1] = IF i - 1 = p THEN add ELSE c[i - 1]
      BY <1>2, <1>3
    <2>5. CASE i = p
      <3>1. d[i] = add
        BY <1>2, <2>5
      <3>2. next'[add] = IF i < Len(d) THEN d[i + 1]
                         ELSE IF k = "CDL" THEN d[1] ELSE Null
        BY <1>1, <1>3, <2>1, <2>3, <2>5
      <3>3. prev'[add] = IF i > 1 THEN d[i - 1] ELSE d[Len(d)]
        BY <1>1, <1>3, <2>2, <2>4, <2>5
      <3> QED
        BY <3>1, <3>2, <3>3
    <2>6. CASE i # p
      <3>1. d[i] = c[i] /\ i \in 1 .. n
        BY <1>2, <1>3, <2>6
      <3>2. next'[c[i]] = IF i < Len(d) THEN d[i + 1]
                          ELSE IF k = "CDL" THEN d[1] ELSE Null
        BY <1>1, <1>3, <2>1, <2>3, <2>6, <3>1
      <3>3. prev'[c[i]] = IF i > 1 THEN d[i - 1] ELSE d[Len(d)]
        BY <1>1, <1>3, <2>2, <2>4, <2>6, <3>1
      <3> QED
        BY <3>1, <3>2, <3>3
    <2> QED
      BY <2>5, <2>6
  <1> QED
    BY <1>2, <1>4, <1>5, Reshape

LEMMA DLReplaceElem ==
  ASSUME NEW l \in Lists, NEW add, NEW c, NEW d, NEW p \in 1 .. Len(c),
         PointersTyped, Holds("DL", l, c), Fresh(add, c), Replaces(d, c, p, add),
         DL_REPLACE_ELEM(l, c[p], add)
  PROVE  Leaves("DL", l, c, {add}, d)
  <1>1. /\ Len(c) \in Nat
        /\ \A i \in 1 .. Len(c) : c[i] \in Nodes
        /\ \A i, j \in 1 .. Len(c) : c[i] = c[j] => i = j
        /\ head[l] = IF Len(c) = 0 THEN Null ELSE c[1]
        /\ \A i \in 1 .. Len(c) :
             /\ next[c[i]] = IF i < Len(c) THEN c[i + 1] ELSE Null
             /\ prev[c[i]] = IF i > 1 THEN c[i - 1] ELSE c[Len(c)]
    BY DLShape
  <1> DEFINE b == IF p > 1 THEN p - 1 ELSE Len(c)
             f == IF p < Len(c) THEN p + 1 ELSE 1
  <1>2. /\ p \in 1 .. Len(c) /\ b \in 1 .. Len(c) /\ f \in 1 .. Len(c)
        /\ p > 1 => b = p - 1
        /\ p < Len(c) => f = p + 1
        /\ p = 1 => b = Len(c)
        /\ p = Len(c) => f = 1
    <2>1. Len(c) \in Nat /\ p \in Nat /\ 1 <= p /\ p <= Len(c)
      BY <1>1
    <2>2. /\ p \in 1 .. Len(c) /\ b \in 1 .. Len(c) /\ f \in 1 .. Len(c)
          /\ p > 1 => b = p - 1
          /\ p < Len(c) => f = p + 1
      BY <2>1
    <2>3. p = 1 => b = Len(c)
      BY <2>1
    <2>4. p = Len(c) => f = 1
      BY <2>1
    <2> QED
      BY <2>2, <2>3, <2>4
  <1> HIDE DEF b, f
  <1>14. (b = p <=> Len(c) = 1) /\ (f = p <=> Len(c) = 1)
    <2>1. Len(c) \in Nat
      BY <1>1
    <2>2. CASE p = 1
      BY <1>2, <2>1, <2>2
    <2>3. CASE p > 1
      BY <1>2, <2>1, <2>3
    <2> QED
      BY <1>2, <2>1, <2>2, <2>3
  <1>3. /\ Null \notin Nodes /\ c[b] \in Nodes /\ c[f] \in Nodes /\ c[p] \in Nodes
        /\ \A i \in 1 .. Len(c) : c[i] = c[b] <=> i = b
        /\ \A i \in 1 .. Len(c) : c[i] = c[f] <=> i = f
        /\ add \in Nodes /\ \A i \in 1 .. Len(c) : c[i] # add
    BY <1>1, <1>2, NullAssumption DEF Fresh
  <1>4. /\ prev[c[p]] = c[b]
        /\ head[l] = c[p] <=> p = 1
        /\ next[c[p]] = IF p < Len(c) THEN c[f] ELSE Null
        /\ next[c[p]] = Null <=> p = Len(c)
        /\ Len(c) = 1 => p = 1
        /\ p = Len(c) => head[l] = c[f]
    <2>1. prev[c[p]] = c[b]
      BY <1>1, <1>2, <1>3, <1>14
    <2>2. head[l] = c[p] <=> p = 1
      BY <1>1, <1>2, <1>3, <1>14, <2>1
    <2>3. next[c[p]] = IF p < Len(c) THEN c[f] ELSE Null
      BY <1>1, <1>2, <1>3, <1>14, <2>1
    <2>4. next[c[p]] = Null <=> p = Len(c)
      BY <1>1, <1>2, <1>3, <1>14, <2>1
    <2>5. Len(c) = 1 => p = 1
      BY <1>1, <1>2, <1>3, <1>14, <2>1
    <2>6. p = Len(c) => head[l] = c[f]
      BY <1>1, <1>2, <1>3, <1>14, <2>1
    <2> QED
      BY <2>1, <2>2, <2>3, <2>4, <2>5, <2>6
  <1>5. IF head[l] = c[p]
        THEN /\ head' = [head EXCEPT ![l] = add]
             /\ next' = [next EXCEPT ![add] = next[c[p]]]
             /\ prev' = IF next[c[p]] = Null THEN [prev EXCEPT ![add] = add]
                        ELSE [prev EXCEPT ![add] = prev[c[p]], ![next[c[p]]] = add]
        ELSE /\ next' = [next EXCEPT ![add] = next[c[p]], ![prev[c[p]]] = add]
             /\ prev' = [prev EXCEPT ![add] = prev[c[p]],
                          ![IF next[c[p]] = Null THEN head[l] ELSE next[c[p]]] = add]
             /\ UNCHANGED head
    BY DEF DL_REPLACE_ELEM
  <1>6. IF Len(c) = 1
        THEN /\ head' = [head EXCEPT ![l] = add]
             /\ next' = [next EXCEPT ![add] = Null]
             /\ prev' = [prev EXCEPT ![add] = add]
        ELSE /\ prev' = [prev EXCEPT ![add] = prev[c[p]], ![c[f]] = add]
             /\ next' = IF p = 1 THEN [next EXCEPT ![add] = next[c[p]]]
                        ELSE [next EXCEPT ![add] = next[c[p]], ![c[b]] = add]
             /\ head' = IF p = 1 THEN [head EXCEPT ![l] = add] ELSE head
    BY <1>1, <1>4, <1>5
  <1>7. PointersTyped'
    <2>1. head' \in [Lists -> Cells]
      BY <1>3, <1>6 DEF PointersTyped, Cells
    <2>2. next' \in [Nodes -> Cells]
      BY <1>3, <1>6 DEF PointersTyped, Cells
    <2>3. prev' \in [Nodes -> Cells]
      BY <1>3, <1>6 DEF PointersTyped, Cells
    <2> QED
      BY <2>1, <2>2, <2>3 DEF PointersTyped
  <1>8. /\ head'[l] = IF p > 1 THEN head[l] ELSE add
        /\ next'[add] = IF Len(c) > 1 THEN next[c[p]] ELSE Null
        /\ prev'[add] = IF Len(c) > 1 THEN prev[c[p]] ELSE add
    BY <1>1, <1>2, <1>3, <1>4, <1>6, <1>14 DEF PointersTyped
  <1>9. \A y \in Nodes \ {add} :
          /\ next'[y] = IF p > 1 /\ y = c[b] THEN add ELSE next[y]
          /\ prev'[y] = IF Len(c) # 1 /\ y = c[f] THEN add ELSE prev[y]
    BY <1>1, <1>2, <1>3, <1>6 DEF PointersTyped
  <1>10. \A i \in 1 .. Len(c) : i # p =>
           /\ next'[c[i]] = IF i = p - 1 THEN add ELSE next[c[i]]
           /\ prev'[c[i]] = IF i = p + 1 \/ (i = 1 /\ p = Len(c)) THEN add
                            ELSE prev[c[i]]
    <2>1. \A i \in 1 .. Len(c) : c[i] \in Nodes \ {add}
      BY <1>1, <1>3
    <2>2. Len(c) \in Nat
      BY <1>1
    <2> QED
      <3>1. \A i \in 1 .. Len(c) : i = b <=> i = p - 1 \/ (i = Len(c) /\ p = 1)
        BY <1>2, <2>2
      <3>2. \A i \in 1 .. Len(c) : i # p => (i = f <=> i = p + 1 \/ (i = 1 /\ p = Len(c)))
        BY <1>2, <2>2
      <3>3. \A i \in 1 .. Len(c) : p > 1 /\ i = b <=> i = p - 1
        BY <1>2, <2>2
      <3> QED
        BY <1>3, <1>9, <2>1, <3>1, <3>2, <3>3
  <1>11. Represents("DL", head'[l], next', prev', d)
    BY <1>8, <1>10, Replacement
  <1>12. \A m \in Lists \ {l} : head'[m] = head[m]
    BY <1>6 DEF PointersTyped
  <1>13. \A y \in Nodes \ {add} :
           (\A i \in 1 .. Len(c) : c[i] # y) => next'[y] = next[y] /\ prev'[y] = prev[y]
    BY <1>2, <1>9
  <1> QED
    BY <1>7, <1>11, <1>12, <1>13 DEF Leaves

LEMMA CDLReplaceElem ==
  ASSUME NEW l \in Lists, NEW add, NEW c, NEW d, NEW p \in 1 .. Len(c),
         PointersTyped, Holds("CDL", l, c), Fresh(add, c), Replaces(d, c, p, add),
         CDL_REPLACE_ELEM(l, c[p], add)
  PROVE  Leaves("CDL", l, c, {add}, d)
  <1>1. /\ Len(c) \in Nat
        /\ \A i \in 1 .. Len(c) : c[i] \in Nodes
        /\ \A i, j \in 1 .. Len(c) : c[i] = c[j] => i = j
        /\ head[l] = IF Len(c) = 0 THEN Null ELSE c[1]
        /\ \A i \in 1 .. Len(c) :
             /\ next[c[i]] = IF i < Len(c) THEN c[i + 1] ELSE c[1]
             /\ prev[c[i]] = IF i > 1 THEN c[i - 1] ELSE c[Len(c)]
    BY CDLShape
  <1> DEFINE b == IF p > 1 THEN p - 1 ELSE Len(c)
             f == IF p < Len(c) THEN p + 1 ELSE 1
  <1>2. /\ p \in 1 .. Len(c) /\ b \in 1 .. Len(c) /\ f \in 1 .. Len(c)
        /\ p > 1 => b = p - 1
        /\ p < Len(c) => f = p + 1
        /\ p = 1 => b = Len(c)
        /\ p = Len(c) => f = 1
    <2>1. Len(c) \in Nat /\ p \in Nat /\ 1 <= p /\ p <= Len(c)
      BY <1>1
    <2>2. /\ p \in 1 .. Len(c) /\ b \in 1 .. Len(c) /\ f \in 1 .. Len(c)
          /\ p > 1 => b = p - 1
          /\ p < Len(c) => f = p + 1
      BY <2>1
    <2>3. p = 1 => b = Len(c)
      BY <2>1
    <2>4. p = Len(c) => f = 1
      BY <2>1
    <2> QED
      BY <2>2, <2>3, <2>4
  <1> HIDE DEF b, f
  <1>14. (b = p <=> Len(c) = 1) /\ (f = p <=> Len(c) = 1)
    <2>1. Len(c) \in Nat
      BY <1>1
    <2>2. CASE p = 1
      BY <1>2, <2>1, <2>2
    <2>3. CASE p > 1
      BY <1>2, <2>1, <2>3
    <2> QED
      BY <1>2, <2>1, <2>2, <2>3
  <1>3. /\ Null \notin Nodes /\ c[b] \in Nodes /\ c[f] \in Nodes /\ c[p] \in Nodes
        /\ \A i \in 1 .. Len(c) : c[i] = c[b] <=> i = b
        /\ \A i \in 1 .. Len(c) : c[i] = c[f] <=> i = f
        /\ add \in Nodes /\ \A i \in 1 .. Len(c) : c[i] # add
    BY <1>1, <1>2, NullAssumption DEF Fresh
  <1>4. /\ prev[c[p]] = c[b]
        /\ next[c[p]] = c[f]
        /\ next[c[p]] = c[p] <=> Len(c) = 1
        /\ head[l] = c[p] <=> p = 1
        /\ Len(c) = 1 => p = 1
    <2>1. prev[c[p]] = c[b]
      BY <1>1, <1>2, <1>3, <1>14
    <2>2. next[c[p]] = c[f]
      BY <1>1, <1>2, <1>3, <1>14, <2>1
    <2>3. next[c[p]] = c[p] <=> Len(c) = 1
      BY <1>1, <1>2, <1>3, <1>14, <2>1
    <2>4. head[l] = c[p] <=> p = 1
      BY <1>1, <1>2, <1>3, <1>14, <2>1
    <2>5. Len(c) = 1 => p = 1
      BY <1>1, <1>2, <1>3, <1>14, <2>1
    <2> QED
      BY <2>1, <2>2, <2>3, <2>4, <2>5
  <1>5. IF next[c[p]] = c[p]
        THEN /\ next' = [next EXCEPT ![add] = add]
             /\ prev' = [prev EXCEPT ![add] = add]
             /\ head' = [head EXCEPT ![l] = add]
        ELSE /\ next' = [next EXCEPT ![add] = next[c[p]], ![prev[c[p]]] = add]
             /\ prev' = [prev EXCEPT ![add] = prev[c[p]], ![next[c[p]]] = add]
             /\ head' = IF head[l] = c[p] THEN [head EXCEPT ![l] = add] ELSE head
    BY DEF CDL_REPLACE_ELEM
  <1>6. IF Len(c) = 1
        THEN /\ head' = [head EXCEPT ![l] = add]
             /\ next' = [next EXCEPT ![add] = add]
             /\ prev' = [prev EXCEPT ![add] = add]
        ELSE /\ prev' = [prev EXCEPT ![add] = prev[c[p]], ![c[f]] = add]
             /\ next' = [next EXCEPT ![add] = next[c[p]], ![c[b]] = add]
             /\ head' = IF p = 1 THEN [head EXCEPT ![l] = add] ELSE head
    BY <1>1, <1>4, <1>5
  <1>7. PointersTyped'
    <2>1. head' \in [Lists -> Cells]
      BY <1>3, <1>6 DEF PointersTyped, Cells
    <2>2. next' \in [Nodes -> Cells]
      BY <1>3, <1>6 DEF PointersTyped, Cells
    <2>3. prev' \in [Nodes -> Cells]
      BY <1>3, <1>6 DEF PointersTyped, Cells
    <2> QED
      BY <2>1, <2>2, <2>3 DEF PointersTyped
  <1>8. /\ head'[l] = IF p > 1 THEN head[l] ELSE add
        /\ next'[add] = IF Len(c) > 1 THEN next[c[p]] ELSE add
        /\ prev'[add] = IF Len(c) > 1 THEN prev[c[p]] ELSE add
    BY <1>1, <1>2, <1>3, <1>4, <1>6, <1>14 DEF PointersTyped
  <1>9. \A y \in Nodes \ {add} :
          /\ next'[y] = IF Len(c) # 1 /\ y = c[b] THEN add ELSE next[y]
          /\ prev'[y] = IF Len(c) # 1 /\ y = c[f] THEN add ELSE prev[y]
    BY <1>1, <1>2, <1>3, <1>6 DEF PointersTyped
  <1>10. \A i \in 1 .. Len(c) : i # p =>
           /\ next'[c[i]] = IF i = p - 1 \/ (i = Len(c) /\ p = 1) THEN add
                            ELSE next[c[i]]
           /\ prev'[c[i]] = IF i = p + 1 \/ (i = 1 /\ p = Len(c)) THEN add
                            ELSE prev[c[i]]
    <2>1. \A i \in 1 .. Len(c) : c[i] \in Nodes \ {add}
      BY <1>1, <1>3
    <2>2. Len(c) \in Nat
      BY <1>1
    <2> QED
      <3>1. \A i \in 1 .. Len(c) : i = b <=> i = p - 1 \/ (i = Len(c) /\ p = 1)
        BY <1>2, <2>2
      <3>2. \A i \in 1 .. Len(c) : i # p => (i = f <=> i = p + 1 \/ (i = 1 /\ p = Len(c)))
        BY <1>2, <2>2
      <3>3. \A i \in 1 .. Len(c) : p > 1 /\ i = b <=> i = p - 1
        BY <1>2, <2>2
      <3> QED
        BY <1>3, <1>9, <2>1, <3>1, <3>2, <3>3
  <1>11. Represents("CDL", head'[l], next', prev', d)
    BY <1>8, <1>10, Replacement
  <1>12. \A m \in Lists \ {l} : head'[m] = head[m]
    BY <1>6 DEF PointersTyped
  <1>13. \A y \in Nodes \ {add} :
           (\A i \in 1 .. Len(c) : c[i] # y) => next'[y] = next[y] /\ prev'[y] = prev[y]
    BY <1>2, <1>9
  <1> QED
    BY <1>7, <1>11, <1>12, <1>13 DEF Leaves

(* Two lists with no element in common become one.                         *)
LEMMA DLConcat ==
  ASSUME NEW l \in Lists, NEW m \in Lists, l # m, NEW c, NEW e, NEW d,
         PointersTyped, Holds("DL", l, c), Holds("DL", m, e),
         \A i \in 1 .. Len(c), j \in 1 .. Len(e) : c[i] # e[j],
         Joins(d, c, e), DL_CONCAT(l, m)
  PROVE  /\ PointersTyped'
         /\ Represents("DL", head'[l], next', prev', d)
         /\ head'[m] = Null
         /\ \A o \in Lists \ {l, m} : head'[o] = head[o]
         /\ \A x \in Nodes :
              (\A i \in 1 .. Len(c) : c[i] # x) /\ (\A i \in 1 .. Len(e) : e[i] # x)
                => next'[x] = next[x] /\ prev'[x] = prev[x]
  <1>1. /\ Len(c) \in Nat
        /\ \A i \in 1 .. Len(c) : c[i] \in Nodes
        /\ \A i, j \in 1 .. Len(c) : c[i] = c[j] => i = j
        /\ head[l] = IF Len(c) = 0 THEN Null ELSE c[1]
        /\ \A i \in 1 .. Len(c) :
             /\ next[c[i]] = IF i < Len(c) THEN c[i + 1] ELSE Null
             /\ prev[c[i]] = IF i > 1 THEN c[i - 1] ELSE c[Len(c)]
    BY DLShape
  <1>2. /\ Len(e) \in Nat
        /\ \A i \in 1 .. Len(e) : e[i] \in Nodes
        /\ \A i, j \in 1 .. Len(e) : e[i] = e[j] => i = j
        /\ head[m] = IF Len(e) = 0 THEN Null ELSE e[1]
        /\ \A i \in 1 .. Len(e) :
             /\ next[e[i]] = IF i < Len(e) THEN e[i + 1] ELSE Null
             /\ prev[e[i]] = IF i > 1 THEN e[i - 1] ELSE e[Len(e)]
    BY DLShape
  <1>3. /\ d \in Seq(Nodes) /\ Len(d) = Len(c) + Len(e)
        /\ \A i \in 1 .. Len(d) : d[i] = IF i <= Len(c) THEN c[i] ELSE e[i - Len(c)]
    BY DEF Joins
  <1>4. Null \notin Nodes
    BY NullAssumption
  <1> DEFINE n == Len(c)
             k == Len(e)
  <1>5. IF k = 0 THEN UNCHANGED pointers
        ELSE IF n = 0
        THEN head' = [head EXCEPT ![l] = e[1], ![m] = Null] /\ UNCHANGED <<next, prev>>
        ELSE /\ prev' = [prev EXCEPT ![e[1]] = c[n], ![c[1]] = e[k]]
             /\ next' = [next EXCEPT ![c[n]] = e[1]]
             /\ head' = [head EXCEPT ![m] = Null]
    <2>1. /\ head[m] = Null <=> k = 0
          /\ head[l] = Null <=> n = 0
      BY <1>1, <1>2, <1>4
    <2>2. k # 0 => head[m] = e[1] /\ prev[head[m]] = e[k]
      BY <1>2
    <2>3. n # 0 => head[l] = c[1] /\ prev[head[l]] = c[n]
      BY <1>1
    <2> QED
      BY <2>1, <2>2, <2>3 DEF DL_CONCAT
  <1>6. CASE k = 0
    <2>1. \A i \in 1 .. Len(d) : d[i] = c[i]
      BY <1>1, <1>3, <1>6
    <2>2. Len(d) = n /\ head' = head /\ next' = next /\ prev' = prev
      BY <1>1, <1>3, <1>5, <1>6 DEF pointers
    <2>3. Represents("DL", head'[l], next', prev', d)
      <3>1. head'[l] = IF Len(d) = 0 THEN Null ELSE d[1]
        BY <1>1, <2>1, <2>2
      <3>2. \A i \in 1 .. Len(d) : next'[d[i]] = IF i < Len(d) THEN d[i + 1] ELSE Null
        BY <1>1, <2>1, <2>2
      <3>3. \A i \in 1 .. Len(d) : prev'[d[i]] = IF i > 1 THEN d[i - 1] ELSE d[Len(d)]
        BY <1>1, <2>1, <2>2
      <3> QED
        BY <1>3, <3>1, <3>2, <3>3, Reshape
    <2> QED
      BY <1>2, <1>6, <2>2, <2>3 DEF PointersTyped
  <1>7. CASE k # 0 /\ n = 0
    <2>1. \A i \in 1 .. Len(d) : d[i] = e[i]
      BY <1>1, <1>2, <1>3, <1>7
    <2>2. /\ Len(d) = k /\ next' = next /\ prev' = prev
          /\ head' = [head EXCEPT ![l] = e[1], ![m] = Null]
      BY <1>1, <1>2, <1>3, <1>5, <1>7
    <2>3. head'[l] = e[1] /\ head'[m] = Null /\ \A o \in Lists \ {l, m} : head'[o] = head[o]
      BY <2>2 DEF PointersTyped
    <2>4. Represents("DL", head'[l], next', prev', d)
      <3>1. head'[l] = IF Len(d) = 0 THEN Null ELSE d[1]
        BY <1>2, <1>7, <2>1, <2>2, <2>3
      <3>2. \A i \in 1 .. Len(d) : next'[d[i]] = IF i < Len(d) THEN d[i + 1] ELSE Null
        BY <1>2, <2>1, <2>2
      <3>3. \A i \in 1 .. Len(d) : prev'[d[i]] = IF i > 1 THEN d[i - 1] ELSE d[Len(d)]
        BY <1>2, <2>1, <2>2
      <3> QED
        BY <1>3, <3>1, <3>2, <3>3, Reshape
    <2>5. PointersTyped'
      BY <1>2, <1>7, <2>2 DEF PointersTyped, Cells
    <2> QED
      BY <2>2, <2>3, <2>4, <2>5
  <1>8. CASE k # 0 /\ n # 0
    <2>1. /\ prev' = [prev EXCEPT ![e[1]] = c[n], ![c[1]] = e[k]]
          /\ next' = [next EXCEPT ![c[n]] = e[1]]
          /\ head' = [head EXCEPT ![m] = Null]
      BY <1>5, <1>8
    <2>2. 1 \in 1 .. n /\ n \in 1 .. n /\ 1 \in 1 .. k /\ k \in 1 .. k
      BY <1>1, <1>2, <1>8
    <2>3. PointersTyped'
      <3>1. head' \in [Lists -> Cells]
        BY <2>1 DEF PointersTyped, Cells
      <3>2. next' \in [Nodes -> Cells]
        BY <1>2, <2>1, <2>2 DEF PointersTyped, Cells
      <3>3. prev' \in [Nodes -> Cells]
        BY <1>1, <1>2, <2>1, <2>2 DEF PointersTyped, Cells
      <3> QED
        BY <3>1, <3>2, <3>3 DEF PointersTyped
    <2>4. /\ head'[l] = c[1] /\ head'[m] = Null
          /\ \A o \in Lists \ {l, m} : head'[o] = head[o]
      BY <1>1, <1>8, <2>1 DEF PointersTyped
    <2>5. \A x \in Nodes :
            /\ next'[x] = IF x = c[n] THEN e[1] ELSE next[x]
            /\ prev'[x] = IF x = c[1] THEN e[k] ELSE IF x = e[1] THEN c[n] ELSE prev[x]
      BY <1>1, <1>2, <2>1, <2>2 DEF PointersTyped
    <2>6. ASSUME NEW i \in 1 .. n
          PROVE  /\ next'[c[i]] = IF i = n THEN e[1] ELSE c[i + 1]
                 /\ prev'[c[i]] = IF i = 1 THEN e[k] ELSE c[i - 1]
      <3>1. c[i] \in Nodes /\ c[i] # e[1] /\ (c[i] = c[n] <=> i = n) /\ (c[i] = c[1] <=> i = 1)
        BY <1>1, <2>2
      <3> QED
        BY <1>1, <2>5, <3>1
    <2>7. ASSUME NEW i \in 1 .. k
          PROVE  /\ next'[e[i]] = IF i < k THEN e[i + 1] ELSE Null
                 /\ prev'[e[i]] = IF i = 1 THEN c[n] ELSE e[i - 1]
      <3>1. e[i] \in Nodes /\ e[i] # c[1] /\ e[i] # c[n] /\ (e[i] = e[1] <=> i = 1)
        BY <1>2, <2>2
      <3> QED
        BY <1>2, <2>5, <3>1
    <2>8. ASSUME NEW i \in 1 .. Len(d)
          PROVE  /\ next'[d[i]] = IF i < Len(d) THEN d[i + 1] ELSE Null
                 /\ prev'[d[i]] = IF i > 1 THEN d[i - 1] ELSE d[Len(d)]
      <3>1. n \in Nat /\ k \in Nat /\ Len(d) = n + k /\ d[Len(d)] = e[k]
        BY <1>1, <1>2, <1>3, <2>2
      <3>2. i < Len(d) => d[i + 1] = IF i + 1 <= n THEN c[i + 1] ELSE e[(i + 1) - n]
        BY <1>3, <3>1
      <3>3. i > 1 => d[i - 1] = IF i - 1 <= n THEN c[i - 1] ELSE e[(i - 1) - n]
        BY <1>3, <3>1
      <3>4. CASE i <= n
        <4>1. d[i] = c[i] /\ i \in 1 .. n
          BY <1>3, <3>1, <3>4
        <4>2. next'[c[i]] = IF i < Len(d) THEN d[i + 1] ELSE Null
          BY <1>8, <2>6, <3>1, <3>2, <4>1
        <4>3. prev'[c[i]] = IF i > 1 THEN d[i - 1] ELSE d[Len(d)]
          BY <2>6, <3>1, <3>3, <4>1
        <4> QED
          BY <4>1, <4>2, <4>3
      <3>5. CASE i > n
        <4>1. d[i] = e[i - n] /\ i - n \in 1 .. k
          BY <1>3, <3>1, <3>5
        <4>2. next'[e[i - n]] = IF i < Len(d) THEN d[i + 1] ELSE Null
          BY <2>7, <3>1, <3>2, <3>5, <4>1
        <4>3. prev'[e[i - n]] = IF i > 1 THEN d[i - 1] ELSE d[Len(d)]
          BY <1>8, <2>7, <3>1, <3>3, <3>5, <4>1
        <4> QED
          BY <4>1, <4>2, <4>3
      <3> QED
        BY <3>1, <3>4, <3>5
    <2>9. Represents("DL", head'[l], next', prev', d)
      <3>1. head'[l] = IF Len(d) = 0 THEN Null ELSE d[1]
        BY <1>1, <1>2, <1>3, <1>8, <2>4
      <3> QED
        BY <1>3, <2>8, <3>1, Reshape
    <2>10. \A x \in Nodes :
             (\A i \in 1 .. Len(c) : c[i] # x) /\ (\A i \in 1 .. Len(e) : e[i] # x)
               => next'[x] = next[x] /\ prev'[x] = prev[x]
      BY <2>2, <2>5
    <2> QED
      BY <2>3, <2>4, <2>9, <2>10
  <1> QED
    BY <1>6, <1>7, <1>8

-----------------------------------------------------------------------------
(* Singly linked lists, and where the loops over _tmp stop.                *)

(* Induction, as the least counterexample.                                 *)
LEMMA Least ==
  ASSUME NEW T, T \subseteq Nat, T # {}
  PROVE  \E x \in T : \A y \in T : x <= y
  <1> DEFINE R == OpToRel(<, Nat)
  <1>1. IsWellFoundedOn(R, Nat)
    BY NatLessThanWellFounded, Zenon
  <1>2. \A x, y \in Nat : y < x => <<y, x>> \in R
    BY DEF OpToRel
  <1> HIDE DEF R
  <1>3. PICK x \in T : \A y \in T : ~(<<y, x>> \in R)
    BY <1>1, WFMin
  <1>4. \A y \in T : ~(y < x)
    BY <1>2, <1>3
  <1>5. \A y \in T : x <= y
    BY <1>4
  <1> QED
    BY <1>5

LEMMA LLShape ==
  ASSUME NEW l \in Lists, NEW c, Holds("LL", l, c), PointersTyped
  PROVE  /\ Len(c) \in Nat
         /\ \A i \in 1 .. Len(c) : c[i] \in Nodes
         /\ \A i, j \in 1 .. Len(c) : c[i] = c[j] => i = j
         /\ head[l] = IF Len(c) = 0 THEN Null ELSE c[1]
         /\ \A i \in 1 .. Len(c) : next[c[i]] = IF i < Len(c) THEN c[i + 1] ELSE Null
  <1>1. /\ Len(c) \in Nat
        /\ \A i \in 1 .. Len(c) : c[i] \in Nodes
        /\ c = <<>> <=> Len(c) = 0
    BY Elements DEF Holds
  <1>2. \A i, j \in 1 .. Len(c) : c[i] = c[j] => i = j
    BY DEF Holds, Once
  <1>3. head[l] = IF Len(c) = 0 THEN Null ELSE c[1]
    BY <1>1 DEF Holds, Represents, LinkedForward
  <1>4. ASSUME NEW i \in 1 .. Len(c)
        PROVE  next[c[i]] = IF i < Len(c) THEN c[i + 1] ELSE Null
    BY <1>1, <1>3 DEF Holds, Represents, LinkedForward, EndOf
  <1> QED
    BY <1>1, <1>2, <1>3, <1>4

(* A list has no more elements than there are.                             *)
LEMMA Fits ==
  ASSUME NEW c \in Seq(Nodes), Once(c)
  PROVE  Cardinality(Nodes) \in Nat /\ Len(c) <= Cardinality(Nodes)
  <1> DEFINE n == Len(c)
             f == [i \in 1 .. n |-> c[i]]
  <1>1. n \in Nat /\ \A i \in 1 .. n : c[i] \in Nodes
    BY Elements
  <1>2. f \in [1 .. n -> Nodes]
    BY <1>1
  <1>3. \A i, j \in 1 .. n : f[i] = f[j] => i = j
    BY DEF Once
  <1>4. f \in Injection(1 .. n, Nodes)
    BY <1>2, <1>3 DEF Injection, IsInjective
  <1>5. Cardinality(1 .. n) <= Cardinality(Nodes)
    BY <1>4, NodesAssumption, FS_Injection
  <1>6. Cardinality(1 .. n) = n
    <2>1. 1 \in Int /\ n \in Int /\ n \in Nat
      BY <1>1
    <2> HIDE DEF n
    <2>2. Cardinality(1 .. n) = IF 1 > n THEN 0 ELSE n - 1 + 1
      BY <2>1, FS_Interval
    <2> QED
      BY <2>1, <2>2
  <1>7. Cardinality(Nodes) \in Nat
    BY NodesAssumption, FS_CardinalityType
  <1> QED
    BY <1>5, <1>6, <1>7

(* _tmp comes to each element in turn, and then to null.                   *)
LEMMA WalkMeets ==
  ASSUME NEW l \in Lists, NEW c, Holds("LL", l, c), PointersTyped
  PROVE  /\ DOMAIN Walk(l) = 1 .. Cardinality(Nodes)
         /\ \A i \in 1 .. Cardinality(Nodes) :
              Walk(l)[i] = IF i <= Len(c) THEN c[i] ELSE Null
  <1> DEFINE n == Len(c)
             N == Cardinality(Nodes)
             w == Walk(l)
             T == {i \in Nat : i \in 1 .. N /\ w[i] # IF i <= n THEN c[i] ELSE Null}
  <1>1. /\ n \in Nat
        /\ \A i \in 1 .. n : c[i] \in Nodes
        /\ head[l] = IF n = 0 THEN Null ELSE c[1]
        /\ \A i \in 1 .. n : next[c[i]] = IF i < n THEN c[i + 1] ELSE Null
    BY LLShape
  <1>2. N \in Nat /\ n <= N
    BY Fits DEF Holds
  <1> HIDE DEF n, N
  <1>3. PICK f : /\ f = [i \in 1 .. N |-> f[i]]
                 /\ \A i \in 1 .. N : f[i] = IF i <= n THEN c[i] ELSE Null
    <2> DEFINE g == [i \in 1 .. N |-> IF i <= n THEN c[i] ELSE Null]
    <2>1. g = [i \in 1 .. N |-> g[i]] /\ \A i \in 1 .. N : g[i] = IF i <= n THEN c[i] ELSE Null
      OBVIOUS
    <2> HIDE DEF g
    <2> QED
      BY <2>1
  <1>4. ASSUME NEW i \in 1 .. N
        PROVE  f[i] = IF i = 1 THEN head[l] ELSE IF f[i - 1] = Null THEN Null ELSE next[f[i - 1]]
    <2>1. CASE i = 1
      BY <1>1, <1>3, <2>1
    <2>2. CASE i # 1
      <3>1. i - 1 \in 1 .. N /\ (i - 1) + 1 = i
        BY <1>2, <2>2
      <3>2. f[i - 1] = IF i - 1 <= n THEN c[i - 1] ELSE Null
        BY <1>3, <3>1
      <3>3. CASE i - 1 <= n
        <4>1. i - 1 \in 1 .. n
          BY <1>1, <1>2, <2>2, <3>3
        <4>2. c[i - 1] # Null
          BY <1>1, <4>1, NullAssumption
        <4>3. next[c[i - 1]] = IF i - 1 < n THEN c[i] ELSE Null
          BY <1>1, <3>1, <4>1
        <4>4. i - 1 < n <=> i <= n
          BY <1>1, <1>2
        <4> QED
          BY <1>3, <2>2, <3>2, <3>3, <4>2, <4>3, <4>4
      <3>4. CASE ~(i - 1 <= n)
        BY <1>1, <1>2, <1>3, <2>2, <3>2, <3>4
      <3> QED
        BY <3>3, <3>4
    <2> QED
      BY <2>1, <2>2
  <1>5. f = [i \in 1 .. N |-> IF i = 1 THEN head[l]
                              ELSE IF f[i - 1] = Null THEN Null ELSE next[f[i - 1]]]
    BY <1>3, <1>4
  <1>6. w = [i \in 1 .. N |-> IF i = 1 THEN head[l]
                              ELSE IF w[i - 1] = Null THEN Null ELSE next[w[i - 1]]]
    BY <1>5 DEF Walk, N
  <1> HIDE DEF w
  <1>7. T = {}
    <2> SUFFICES ASSUME T # {} PROVE FALSE
      OBVIOUS
    <2>1. PICK i \in T : \A j \in T : i <= j
      BY Least
    <2>2. CASE i = 1
      BY <1>3, <1>4, <1>6, <2>1, <2>2
    <2>3. CASE i # 1
      <3>1. i - 1 \in 1 .. N /\ i - 1 \in Nat /\ i \in 1 .. N
        BY <1>2, <2>1, <2>3
      <3>2. w[i - 1] = IF i - 1 <= n THEN c[i - 1] ELSE Null
        BY <2>1, <3>1
      <3>3. w[i - 1] = f[i - 1]
        BY <1>3, <3>1, <3>2
      <3>4. w[i] = IF w[i - 1] = Null THEN Null ELSE next[w[i - 1]]
        BY <1>6, <2>3, <3>1
      <3>5. f[i] = IF f[i - 1] = Null THEN Null ELSE next[f[i - 1]]
        BY <1>4, <2>3, <3>1
      <3>6. w[i] = IF i <= n THEN c[i] ELSE Null
        BY <1>3, <3>1, <3>3, <3>4, <3>5
      <3> QED
        BY <3>1, <3>6
    <2> QED
      BY <2>2, <2>3
  <1>8. \A i \in 1 .. N : w[i] = IF i <= n THEN c[i] ELSE Null
    BY <1>2, <1>7
  <1>9. DOMAIN w = 1 .. N
    BY <1>6
  <1> QED
    BY <1>8, <1>9 DEF w, N, n

(* The loop stops at the first element that x, or nothing, follows.        *)
LEMMA StopsAtFirst ==
  ASSUME NEW l \in Lists, NEW c, Holds("LL", l, c), PointersTyped, NEW x,
         NEW p \in 1 .. Len(c), next[c[p]] \in {Null, x},
         \A i \in 1 .. Len(c) : i < p => next[c[i]] \notin {Null, x}
  PROVE  StopsAt(l, x) = c[p]
  <1> DEFINE n == Len(c)
             N == Cardinality(Nodes)
             w == Walk(l)
             S == {i \in DOMAIN w : w[i] # Null /\ next[w[i]] \in {Null, x}}
  <1>1. n \in Nat /\ \A i \in 1 .. n : c[i] \in Nodes
    BY LLShape
  <1>2. N \in Nat /\ n <= N
    BY Fits DEF Holds
  <1>3. DOMAIN w = 1 .. N /\ \A i \in 1 .. N : w[i] = IF i <= n THEN c[i] ELSE Null
    BY WalkMeets
  <1>4. StopsAt(l, x) = w[Min(S)]
    BY DEF StopsAt
  <1> HIDE DEF w, n, N
  <1>5. p \in S
    <2>1. p \in 1 .. n /\ p \in 1 .. N /\ p <= n
      BY <1>1, <1>2 DEF n
    <2>2. w[p] = c[p] /\ c[p] # Null
      BY <1>1, <1>3, <2>1, NullAssumption
    <2> QED
      BY <1>3, <2>1, <2>2
  <1>6. ASSUME NEW i \in S PROVE p <= i /\ i \in Nat
    <2>1. i \in 1 .. N /\ i <= n
      BY <1>3
    <2>2. i \in 1 .. n /\ w[i] = c[i]
      BY <1>1, <1>2, <1>3, <2>1
    <2>3. ~(i < p)
      BY <2>2 DEF n
    <2> QED
      BY <1>1, <2>2, <2>3 DEF n
  <1>7. p \in Nat
    BY <1>5, <1>6
  <1> HIDE DEF S
  <1>8. Min(S) \in S /\ \A i \in S : Min(S) <= i
    <2>1. \E j \in S : \A i \in S : j <= i
      BY <1>5, <1>6
    <2> QED
      BY <2>1, Zenon DEF Min
  <1>9. Min(S) = p
    <2> DEFINE m == Min(S)
    <2>1. m \in S /\ m <= p
      BY <1>5, <1>8
    <2> HIDE DEF m
    <2>2. p <= m /\ m \in Nat
      BY <1>6, <2>1
    <2>3. m = p
      BY <1>7, <2>1, <2>2
    <2> QED
      BY <2>3 DEF m
  <1>10. w[p] = c[p]
    <2>1. p \in 1 .. N /\ p <= n
      BY <1>1, <1>2 DEF n
    <2> QED
      BY <1>3, <2>1
  <1> QED
    BY <1>4, <1>9, <1>10

(* Before an element of the list that is not the first, at its last one.   *)
LEMMA StopsBefore ==
  ASSUME NEW l \in Lists, NEW c, Holds("LL", l, c), PointersTyped,
         NEW p \in 2 .. Len(c)
  PROVE  p - 1 \in 1 .. Len(c) /\ StopsAt(l, c[p]) = c[p - 1]
  <1>1. /\ Len(c) \in Nat
        /\ \A i \in 1 .. Len(c) : c[i] \in Nodes
        /\ \A i, j \in 1 .. Len(c) : c[i] = c[j] => i = j
        /\ \A i \in 1 .. Len(c) : next[c[i]] = IF i < Len(c) THEN c[i + 1] ELSE Null
    BY LLShape
  <1>2. p - 1 \in 1 .. Len(c) /\ p - 1 < Len(c) /\ (p - 1) + 1 = p /\ p \in 1 .. Len(c)
    BY <1>1
  <1>3. next[c[p - 1]] \in {Null, c[p]}
    BY <1>1, <1>2
  <1>4. ASSUME NEW i \in 1 .. Len(c), i < p - 1 PROVE next[c[i]] \notin {Null, c[p]}
    <2>1. i < Len(c) /\ i + 1 \in 1 .. Len(c) /\ i + 1 # p
      BY <1>1, <1>4
    <2> QED
      BY <1>1, <1>2, <2>1, NullAssumption
  <1> QED
    BY <1>2, <1>3, <1>4, StopsAtFirst

LEMMA StopsLast ==
  ASSUME NEW l \in Lists, NEW c, Holds("LL", l, c), PointersTyped, Len(c) # 0,
         NEW x, \A i \in 1 .. Len(c) : c[i] # x
  PROVE  Len(c) \in 1 .. Len(c) /\ next[c[Len(c)]] = Null /\ StopsAt(l, x) = c[Len(c)]
  <1>1. /\ Len(c) \in Nat
        /\ \A i \in 1 .. Len(c) : c[i] \in Nodes
        /\ \A i \in 1 .. Len(c) : next[c[i]] = IF i < Len(c) THEN c[i + 1] ELSE Null
    BY LLShape
  <1>2. Len(c) \in 1 .. Len(c)
    BY <1>1
  <1>3. next[c[Len(c)]] = Null
    BY <1>1, <1>2
  <1>4. ASSUME NEW i \in 1 .. Len(c), i < Len(c) PROVE next[c[i]] \notin {Null, x}
    <2>1. i + 1 \in 1 .. Len(c)
      BY <1>1, <1>4
    <2> QED
      BY <1>1, <1>4, <2>1, NullAssumption
  <1> QED
    BY <1>2, <1>3, <1>4, StopsAtFirst

LEMMA LLReshape ==
  ASSUME NEW l \in Lists, NEW d \in Seq(Nodes),
         head'[l] = IF Len(d) = 0 THEN Null ELSE d[1],
         \A i \in 1 .. Len(d) : next'[d[i]] = IF i < Len(d) THEN d[i + 1] ELSE Null
  PROVE  Represents("LL", head'[l], next', prev', d)
  <1>1. Len(d) \in Nat /\ (d = <<>> <=> Len(d) = 0)
    BY Elements
  <1>2. LinkedForward("LL", head'[l], next', d)
    BY <1>1 DEF LinkedForward, EndOf
  <1> QED
    BY <1>2 DEF Represents

LEMMA LLInsertion ==
  ASSUME NEW l \in Lists, NEW add, NEW c, NEW d, NEW p \in 1 .. Len(c) + 1,
         PointersTyped, Holds("LL", l, c), Inserts(d, c, p, add),
         head'[l] = IF p = 1 THEN add ELSE head[l],
         next'[add] = IF p <= Len(c) THEN c[p] ELSE Null,
         \A i \in 1 .. Len(c) : next'[c[i]] = IF i = p - 1 THEN add ELSE next[c[i]]
  PROVE  Represents("LL", head'[l], next', prev', d)
  <1> DEFINE n == Len(c)
  <1>1. /\ n \in Nat
        /\ head[l] = IF n = 0 THEN Null ELSE c[1]
        /\ \A i \in 1 .. n : next[c[i]] = IF i < n THEN c[i + 1] ELSE Null
    BY LLShape
  <1>2. /\ d \in Seq(Nodes) /\ Len(d) = n + 1
        /\ \A i \in 1 .. Len(d) : d[i] = IF i < p THEN c[i] ELSE IF i = p THEN add ELSE c[i - 1]
    BY DEF Inserts
  <1>3. n \in Nat /\ p \in Nat /\ 1 <= p /\ p <= n + 1 /\ Len(d) = n + 1
    BY <1>1, <1>2
  <1>4. head'[l] = IF Len(d) = 0 THEN Null ELSE d[1]
    <2>1. d[1] = IF p = 1 THEN add ELSE c[1]
      BY <1>2, <1>3
    <2> QED
      BY <1>1, <1>3, <2>1
  <1>5. ASSUME NEW i \in 1 .. Len(d)
        PROVE  next'[d[i]] = IF i < Len(d) THEN d[i + 1] ELSE Null
    <2>1. i < n + 1 => d[i + 1] = IF i + 1 < p THEN c[i + 1] ELSE IF i + 1 = p THEN add ELSE c[i]
      BY <1>2, <1>3
    <2>2. CASE i = p
      <3>1. d[i] = add
        BY <1>2, <2>2
      <3> QED
        BY <1>3, <2>1, <2>2, <3>1
    <2>3. CASE i < p
      <3>1. d[i] = c[i] /\ i \in 1 .. n
        BY <1>2, <1>3, <2>3
      <3> QED
        BY <1>1, <1>3, <2>1, <2>3, <3>1
    <2>4. CASE i > p
      <3>1. d[i] = c[i - 1] /\ i - 1 \in 1 .. n
        BY <1>2, <1>3, <2>4
      <3> QED
        BY <1>1, <1>3, <2>1, <2>4, <3>1
    <2> QED
      BY <1>3, <2>2, <2>3, <2>4
  <1> QED
    BY <1>2, <1>4, <1>5, LLReshape

LEMMA LLPrepend ==
  ASSUME NEW l \in Lists, NEW add, NEW c, NEW d,
         PointersTyped, Holds("LL", l, c), Fresh(add, c), Inserts(d, c, 1, add),
         LL_PREPEND(l, add)
  PROVE  Leaves("LL", l, c, {add}, d)
  <1>1. /\ Len(c) \in Nat
        /\ \A i \in 1 .. Len(c) : c[i] \in Nodes
        /\ head[l] = IF Len(c) = 0 THEN Null ELSE c[1]
    BY LLShape
  <1>2. add \in Nodes /\ \A i \in 1 .. Len(c) : c[i] # add
    BY DEF Fresh
  <1>3. next' = [next EXCEPT ![add] = head[l]] /\ head' = [head EXCEPT ![l] = add] /\ prev' = prev
    BY DEF LL_PREPEND
  <1>4. PointersTyped'
    BY <1>2, <1>3 DEF PointersTyped, Cells
  <1>5. head'[l] = add /\ next'[add] = IF 1 <= Len(c) THEN c[1] ELSE Null
    BY <1>1, <1>2, <1>3 DEF PointersTyped
  <1>6. \A y \in Nodes \ {add} : next'[y] = next[y]
    BY <1>2, <1>3 DEF PointersTyped
  <1>7. \A i \in 1 .. Len(c) : next'[c[i]] = next[c[i]]
    BY <1>1, <1>2, <1>6
  <1>8. Represents("LL", head'[l], next', prev', d)
    <2>1. 1 \in 1 .. Len(c) + 1 /\ \A i \in 1 .. Len(c) : i # 1 - 1
      BY <1>1
    <2>2. /\ head'[l] = IF 1 = 1 THEN add ELSE head[l]
          /\ \A i \in 1 .. Len(c) : next'[c[i]] = IF i = 1 - 1 THEN add ELSE next[c[i]]
      BY <1>5, <1>7, <2>1
    <2> QED
      BY <1>5, <2>1, <2>2, LLInsertion
  <1>9. \A m \in Lists \ {l} : head'[m] = head[m]
    BY <1>3 DEF PointersTyped
  <1> QED
    BY <1>3, <1>4, <1>6, <1>8, <1>9 DEF Leaves

LEMMA LLAppend ==
  ASSUME NEW l \in Lists, NEW add, NEW c, NEW d,
         PointersTyped, Holds("LL", l, c), Fresh(add, c), Inserts(d, c, Len(c) + 1, add),
         LL_APPEND(l, add)
  PROVE  Leaves("LL", l, c, {add}, d)
  <1> DEFINE n == Len(c)
  <1>1. /\ n \in Nat
        /\ \A i \in 1 .. n : c[i] \in Nodes
        /\ \A i, j \in 1 .. n : c[i] = c[j] => i = j
        /\ head[l] = IF n = 0 THEN Null ELSE c[1]
    BY LLShape
  <1>2. add \in Nodes /\ Null \notin Nodes /\ \A i \in 1 .. n : c[i] # add
    BY NullAssumption DEF Fresh
  <1>3. n # 0 => n \in 1 .. n /\ StopsAt(l, Null) = c[n]
    <2> SUFFICES ASSUME n # 0 PROVE n \in 1 .. n /\ StopsAt(l, Null) = c[n]
      OBVIOUS
    <2>1. \A i \in 1 .. Len(c) : c[i] # Null
      BY <1>1, <1>2
    <2> QED
      BY <2>1, StopsLast
  <1>4. /\ n = 0 => next' = [next EXCEPT ![add] = Null] /\ head' = [head EXCEPT ![l] = add]
        /\ n # 0 => next' = [next EXCEPT ![add] = Null, ![c[n]] = add] /\ head' = head
        /\ prev' = prev
    <2>1. head[l] = Null <=> n = 0
      BY <1>1, <1>2
    <2> QED
      BY <1>3, <2>1 DEF LL_APPEND
  <1>5. PointersTyped'
    BY <1>2, <1>4 DEF PointersTyped, Cells
  <1>6. head'[l] = (IF n + 1 = 1 THEN add ELSE head[l]) /\ next'[add] = Null
    BY <1>1, <1>2, <1>3, <1>4 DEF PointersTyped
  <1>7. \A y \in Nodes \ {add} : next'[y] = IF n # 0 /\ y = c[n] THEN add ELSE next[y]
    BY <1>1, <1>2, <1>3, <1>4 DEF PointersTyped
  <1>8. \A i \in 1 .. n : next'[c[i]] = IF i = (n + 1) - 1 THEN add ELSE next[c[i]]
    BY <1>1, <1>2, <1>3, <1>7
  <1>9. Represents("LL", head'[l], next', prev', d)
    <2>1. n + 1 \in 1 .. Len(c) + 1 /\ ~(n + 1 <= Len(c))
      BY <1>1
    <2>2. next'[add] = IF n + 1 <= Len(c) THEN c[n + 1] ELSE Null
      BY <1>6, <2>1
    <2> QED
      BY <1>6, <1>8, <2>1, <2>2, LLInsertion
  <1>10. \A m \in Lists \ {l} : head'[m] = head[m]
    BY <1>4 DEF PointersTyped
  <1>11. \A y \in Nodes \ {add} : (\A i \in 1 .. n : c[i] # y) => next'[y] = next[y]
    BY <1>3, <1>7
  <1> QED
    BY <1>4, <1>5, <1>9, <1>10, <1>11 DEF Leaves

(* What LL_REPLACE_ELEM and LL_PREPEND_ELEM share.                         *)
LEMMA LLInstead ==
  ASSUME NEW l \in Lists, NEW add, NEW c, NEW p \in 1 .. Len(c), NEW following \in Cells,
         PointersTyped, Holds("LL", l, c), Fresh(add, c),
         LL_INSTEAD(l, c[p], add, following)
  PROVE  /\ PointersTyped'
         /\ head'[l] = IF p = 1 THEN add ELSE head[l]
         /\ next'[add] = following
         /\ \A i \in 1 .. Len(c) : next'[c[i]] = IF i = p - 1 THEN add ELSE next[c[i]]
         /\ \A m \in Lists \ {l} : head'[m] = head[m]
         /\ \A y \in Nodes \ {add} :
              (\A i \in 1 .. Len(c) : c[i] # y) => next'[y] = next[y] /\ prev'[y] = prev[y]
  <1> DEFINE n == Len(c)
  <1>1. /\ n \in Nat
        /\ \A i \in 1 .. n : c[i] \in Nodes
        /\ \A i, j \in 1 .. n : c[i] = c[j] => i = j
        /\ head[l] = IF n = 0 THEN Null ELSE c[1]
    BY LLShape
  <1>2. add \in Nodes /\ \A i \in 1 .. n : c[i] # add
    BY DEF Fresh
  <1>3. p # 1 => p - 1 \in 1 .. n /\ StopsAt(l, c[p]) = c[p - 1]
    <2> SUFFICES ASSUME p # 1 PROVE p - 1 \in 1 .. n /\ StopsAt(l, c[p]) = c[p - 1]
      OBVIOUS
    <2>1. p \in 2 .. Len(c)
      BY <1>1
    <2> QED
      BY <2>1, StopsBefore
  <1>4. head[l] = c[p] <=> p = 1
    <2>1. n \in Nat /\ p \in 1 .. n /\ 1 \in 1 .. n /\ n # 0
      BY <1>1
    <2> QED
      BY <1>1, <2>1
  <1>5. /\ p = 1 => next' = [next EXCEPT ![add] = following] /\ head' = [head EXCEPT ![l] = add]
        /\ p # 1 => next' = [next EXCEPT ![add] = following, ![c[p - 1]] = add] /\ head' = head
        /\ prev' = prev
    BY <1>3, <1>4 DEF LL_INSTEAD
  <1>6. PointersTyped'
    BY <1>2, <1>5 DEF PointersTyped, Cells
  <1>7. head'[l] = IF p = 1 THEN add ELSE head[l]
    BY <1>5 DEF PointersTyped
  <1>8. next'[add] = following
    BY <1>2, <1>3, <1>5 DEF PointersTyped
  <1>9. \A y \in Nodes \ {add} : next'[y] = IF p # 1 /\ y = c[p - 1] THEN add ELSE next[y]
    BY <1>1, <1>2, <1>3, <1>5 DEF PointersTyped
  <1>10. \A i \in 1 .. n : next'[c[i]] = IF i = p - 1 THEN add ELSE next[c[i]]
    <2> SUFFICES ASSUME NEW i \in 1 .. n
                 PROVE  next'[c[i]] = IF i = p - 1 THEN add ELSE next[c[i]]
      OBVIOUS
    <2>1. c[i] \in Nodes \ {add}
      BY <1>1, <1>2
    <2>2. p # 1 => (c[i] = c[p - 1] <=> i = p - 1)
      BY <1>1, <1>3
    <2>3. p = 1 => i # p - 1
      BY <1>1
    <2> QED
      BY <1>9, <2>1, <2>2, <2>3
  <1>11. \A m \in Lists \ {l} : head'[m] = head[m]
    BY <1>5 DEF PointersTyped
  <1>12. \A y \in Nodes \ {add} :
          (\A i \in 1 .. n : c[i] # y) => next'[y] = next[y] /\ prev'[y] = prev[y]
    BY <1>3, <1>5, <1>9
  <1> QED
    BY <1>6, <1>7, <1>8, <1>10, <1>11, <1>12

LEMMA LLPrependElem ==
  ASSUME NEW l \in Lists, NEW add, NEW c, NEW d, NEW p \in 1 .. Len(c),
         PointersTyped, Holds("LL", l, c), Fresh(add, c), Inserts(d, c, p, add),
         LL_PREPEND_ELEM(l, c[p], add)
  PROVE  Leaves("LL", l, c, {add}, d)
  <1>1. Len(c) \in Nat /\ \A i \in 1 .. Len(c) : c[i] \in Nodes
    BY LLShape
  <1>2. c[p] \in Cells /\ LL_INSTEAD(l, c[p], add, c[p])
    BY <1>1 DEF Cells, LL_PREPEND_ELEM
  <1>3. /\ PointersTyped'
        /\ head'[l] = IF p = 1 THEN add ELSE head[l]
        /\ next'[add] = c[p]
        /\ \A i \in 1 .. Len(c) : next'[c[i]] = IF i = p - 1 THEN add ELSE next[c[i]]
        /\ \A m \in Lists \ {l} : head'[m] = head[m]
        /\ \A y \in Nodes \ {add} :
             (\A i \in 1 .. Len(c) : c[i] # y) => next'[y] = next[y] /\ prev'[y] = prev[y]
    BY <1>2, LLInstead
  <1>4. p \in 1 .. Len(c) + 1 /\ next'[add] = IF p <= Len(c) THEN c[p] ELSE Null
    BY <1>1, <1>3
  <1>5. Represents("LL", head'[l], next', prev', d)
    BY <1>3, <1>4, LLInsertion
  <1> QED
    BY <1>3, <1>5 DEF Leaves

LEMMA LLReplaceElem ==
  ASSUME NEW l \in Lists, NEW add, NEW c, NEW d, NEW p \in 1 .. Len(c),
         PointersTyped, Holds("LL", l, c), Fresh(add, c), Replaces(d, c, p, add),
         LL_REPLACE_ELEM(l, c[p], add)
  PROVE  Leaves("LL", l, c, {add}, d)
  <1> DEFINE n == Len(c)
  <1>1. /\ n \in Nat
        /\ \A i \in 1 .. n : c[i] \in Nodes
        /\ head[l] = IF n = 0 THEN Null ELSE c[1]
        /\ \A i \in 1 .. n : next[c[i]] = IF i < n THEN c[i + 1] ELSE Null
    BY LLShape
  <1>2. next[c[p]] \in Cells /\ LL_INSTEAD(l, c[p], add, next[c[p]])
    BY <1>1 DEF PointersTyped, LL_REPLACE_ELEM
  <1>3. /\ PointersTyped'
        /\ head'[l] = IF p = 1 THEN add ELSE head[l]
        /\ next'[add] = next[c[p]]
        /\ \A i \in 1 .. n : next'[c[i]] = IF i = p - 1 THEN add ELSE next[c[i]]
        /\ \A m \in Lists \ {l} : head'[m] = head[m]
        /\ \A y \in Nodes \ {add} :
             (\A i \in 1 .. n : c[i] # y) => next'[y] = next[y] /\ prev'[y] = prev[y]
    BY <1>2, LLInstead
  <1>4. /\ d \in Seq(Nodes) /\ Len(d) = n
        /\ \A i \in 1 .. Len(d) : d[i] = IF i = p THEN add ELSE c[i]
    BY DEF Replaces
  <1>5. p \in Nat /\ 1 <= p /\ p <= n /\ n # 0
    BY <1>1
  <1>6. head'[l] = IF Len(d) = 0 THEN Null ELSE d[1]
    BY <1>1, <1>3, <1>4, <1>5
  <1>7. ASSUME NEW i \in 1 .. Len(d)
        PROVE  next'[d[i]] = IF i < Len(d) THEN d[i + 1] ELSE Null
    <2>1. i < n => d[i + 1] = IF i + 1 = p THEN add ELSE c[i + 1]
      BY <1>1, <1>4
    <2>2. i \in 1 .. n /\ d[i] = IF i = p THEN add ELSE c[i]
      BY <1>4
    <2> QED
      BY <1>1, <1>3, <1>4, <1>5, <2>1, <2>2
  <1>8. Represents("LL", head'[l], next', prev', d)
    BY <1>4, <1>6, <1>7, LLReshape
  <1> QED
    BY <1>3, <1>8 DEF Leaves

LEMMA LLDelete ==
  ASSUME NEW l \in Lists, NEW c, NEW d, NEW p \in 1 .. Len(c),
         PointersTyped, Holds("LL", l, c), Removes(d, c, p), LL_DELETE(l, c[p])
  PROVE  Leaves("LL", l, c, {}, d)
  <1> DEFINE n == Len(c)
  <1>1. /\ n \in Nat
        /\ \A i \in 1 .. n : c[i] \in Nodes
        /\ \A i, j \in 1 .. n : c[i] = c[j] => i = j
        /\ head[l] = IF n = 0 THEN Null ELSE c[1]
        /\ \A i \in 1 .. n : next[c[i]] = IF i < n THEN c[i + 1] ELSE Null
    BY LLShape
  <1>2. p \in Nat /\ 1 <= p /\ p <= n /\ n # 0 /\ p \in 1 .. n
    BY <1>1
  <1>3. p # 1 => p - 1 \in 1 .. n /\ StopsAt(l, c[p]) = c[p - 1] /\ next[c[p - 1]] = c[p]
    <2> SUFFICES ASSUME p # 1
                 PROVE p - 1 \in 1 .. n /\ StopsAt(l, c[p]) = c[p - 1] /\ next[c[p - 1]] = c[p]
      OBVIOUS
    <2>1. p \in 2 .. Len(c)
      BY <1>2
    <2>2. p - 1 \in 1 .. n /\ StopsAt(l, c[p]) = c[p - 1]
      BY <2>1, StopsBefore
    <2>3. p - 1 < n /\ (p - 1) + 1 = p
      BY <1>2
    <2> QED
      BY <1>1, <2>2, <2>3
  <1>4. head[l] = c[p] <=> p = 1
    <2>1. 1 \in 1 .. n
      BY <1>1, <1>2
    <2> QED
      BY <1>1, <1>2, <2>1
  <1>5. c[p] # Null /\ next[c[p]] \in Cells
    BY <1>1, <1>2, NullAssumption DEF PointersTyped
  <1>6. /\ p = 1 => head' = [head EXCEPT ![l] = next[c[p]]] /\ next' = next
        /\ p # 1 => next' = [next EXCEPT ![c[p - 1]] = next[c[p]]] /\ head' = head
        /\ prev' = prev
    BY <1>3, <1>4, <1>5 DEF LL_DELETE
  <1>7. PointersTyped'
    BY <1>5, <1>6 DEF PointersTyped
  <1>8. head'[l] = IF p = 1 THEN next[c[p]] ELSE head[l]
    BY <1>6 DEF PointersTyped
  <1>9. \A y \in Nodes : next'[y] = IF p # 1 /\ y = c[p - 1] THEN next[c[p]] ELSE next[y]
    BY <1>1, <1>3, <1>6 DEF PointersTyped
  <1>10. \A i \in 1 .. n : next'[c[i]] = IF i = p - 1 THEN next[c[p]] ELSE next[c[i]]
    <2> SUFFICES ASSUME NEW i \in 1 .. n
                 PROVE  next'[c[i]] = IF i = p - 1 THEN next[c[p]] ELSE next[c[i]]
      OBVIOUS
    <2>1. p # 1 => (c[i] = c[p - 1] <=> i = p - 1)
      BY <1>1, <1>3
    <2>2. p = 1 => i # p - 1
      BY <1>1
    <2> QED
      BY <1>1, <1>9, <2>1, <2>2
  <1>11. /\ d \in Seq(Nodes) /\ Len(d) = n - 1
         /\ \A i \in 1 .. Len(d) : d[i] = IF i < p THEN c[i] ELSE c[i + 1]
    BY DEF Removes
  <1>12. head'[l] = IF Len(d) = 0 THEN Null ELSE d[1]
    <2>1. Len(d) # 0 => d[1] = IF 1 < p THEN c[1] ELSE c[1 + 1]
      BY <1>1, <1>11
    <2>2. next[c[p]] = IF p < n THEN c[p + 1] ELSE Null
      BY <1>1
    <2> QED
      BY <1>1, <1>2, <1>8, <1>11, <2>1, <2>2
  <1>13. ASSUME NEW i \in 1 .. Len(d)
         PROVE  next'[d[i]] = IF i < Len(d) THEN d[i + 1] ELSE Null
    <2>1. i < n - 1 => d[i + 1] = IF i + 1 < p THEN c[i + 1] ELSE c[(i + 1) + 1]
      BY <1>1, <1>11
    <2>2. i \in 1 .. n /\ i + 1 \in 1 .. n /\ d[i] = IF i < p THEN c[i] ELSE c[i + 1]
      BY <1>1, <1>11
    <2>3. next[c[p]] = IF p < n THEN c[p + 1] ELSE Null
      BY <1>1
    <2>4. CASE i < p
      <3>1. next'[c[i]] = IF i = p - 1 THEN next[c[p]] ELSE c[i + 1]
        BY <1>1, <1>2, <1>10, <2>2, <2>4
      <3> QED
        BY <1>2, <1>11, <2>1, <2>2, <2>3, <2>4, <3>1
    <2>5. CASE i >= p
      <3>1. next'[c[i + 1]] = IF i + 1 < n THEN c[(i + 1) + 1] ELSE Null
        BY <1>1, <1>2, <1>10, <2>2, <2>5
      <3> QED
        BY <1>2, <1>11, <2>1, <2>2, <2>5, <3>1
    <2> QED
      BY <1>2, <2>4, <2>5
  <1>14. Represents("LL", head'[l], next', prev', d)
    BY <1>11, <1>12, <1>13, LLReshape
  <1>15. \A m \in Lists \ {l} : head'[m] = head[m]
    BY <1>6 DEF PointersTyped
  <1>16. \A y \in Nodes : (\A i \in 1 .. n : c[i] # y) => next'[y] = next[y] /\ prev'[y] = prev[y]
    BY <1>3, <1>6, <1>9
  <1> QED
    BY <1>7, <1>14, <1>15, <1>16 DEF Leaves

(* LL_DELETE of an element that is not in the list.                        *)
LEMMA LLDeleteMissing ==
  ASSUME NEW l \in Lists, NEW c, NEW x, PointersTyped, Holds("LL", l, c),
         head[l] # Null, \A i \in 1 .. Len(c) : c[i] # x, LL_DELETE(l, x)
  PROVE  UNCHANGED pointers
  <1>1. Len(c) \in Nat /\ head[l] = IF Len(c) = 0 THEN Null ELSE c[1]
    BY LLShape
  <1>2. Len(c) # 0 /\ head[l] # x
    BY <1>1
  <1>3. next[c[Len(c)]] = Null /\ StopsAt(l, x) = c[Len(c)]
    BY <1>2, StopsLast
  <1> QED
    BY <1>2, <1>3 DEF LL_DELETE, pointers

LEMMA LLConcat ==
  ASSUME NEW l \in Lists, NEW m \in Lists, l # m, NEW c, NEW e, NEW d,
         PointersTyped, Holds("LL", l, c), Holds("LL", m, e),
         \A i \in 1 .. Len(c), j \in 1 .. Len(e) : c[i] # e[j],
         Joins(d, c, e), LL_CONCAT(l, m)
  PROVE  /\ PointersTyped'
         /\ Represents("LL", head'[l], next', prev', d)
         /\ head'[m] = Null
         /\ \A o \in Lists \ {l, m} : head'[o] = head[o]
         /\ \A x \in Nodes :
              (\A i \in 1 .. Len(c) : c[i] # x) /\ (\A i \in 1 .. Len(e) : e[i] # x)
                => next'[x] = next[x] /\ prev'[x] = prev[x]
  <1> DEFINE n == Len(c)
             r == Len(e)
  <1>1. /\ n \in Nat
        /\ \A i \in 1 .. n : c[i] \in Nodes
        /\ \A i, j \in 1 .. n : c[i] = c[j] => i = j
        /\ head[l] = IF n = 0 THEN Null ELSE c[1]
        /\ \A i \in 1 .. n : next[c[i]] = IF i < n THEN c[i + 1] ELSE Null
    BY LLShape
  <1>2. /\ r \in Nat
        /\ \A i \in 1 .. r : e[i] \in Nodes
        /\ head[m] = IF r = 0 THEN Null ELSE e[1]
        /\ \A i \in 1 .. r : next[e[i]] = IF i < r THEN e[i + 1] ELSE Null
    BY LLShape
  <1>3. /\ d \in Seq(Nodes) /\ Len(d) = n + r
        /\ \A i \in 1 .. Len(d) : d[i] = IF i <= n THEN c[i] ELSE e[i - n]
    BY DEF Joins
  <1>4. n # 0 => n \in 1 .. n /\ StopsAt(l, Null) = c[n]
    <2> SUFFICES ASSUME n # 0 PROVE n \in 1 .. n /\ StopsAt(l, Null) = c[n]
      OBVIOUS
    <2>1. \A i \in 1 .. Len(c) : c[i] # Null
      BY <1>1, NullAssumption
    <2> QED
      BY <2>1, StopsLast
  <1>5. /\ n = 0 => head' = [head EXCEPT ![l] = head[m], ![m] = Null] /\ next' = next
        /\ n # 0 => next' = [next EXCEPT ![c[n]] = head[m]] /\ head' = [head EXCEPT ![m] = Null]
        /\ prev' = prev
    <2>1. head[l] = Null <=> n = 0
      BY <1>1, NullAssumption
    <2> QED
      BY <1>4, <2>1 DEF LL_CONCAT
  <1>6. PointersTyped'
    BY <1>5 DEF PointersTyped, Cells
  <1>7. /\ head'[l] = IF n = 0 THEN head[m] ELSE head[l]
        /\ head'[m] = Null
        /\ \A o \in Lists \ {l, m} : head'[o] = head[o]
    BY <1>5 DEF PointersTyped, Cells
  <1>8. \A y \in Nodes : next'[y] = IF n # 0 /\ y = c[n] THEN head[m] ELSE next[y]
    BY <1>1, <1>4, <1>5 DEF PointersTyped
  <1>9. \A i \in 1 .. n : next'[c[i]] = IF i = n THEN head[m] ELSE next[c[i]]
    BY <1>1, <1>4, <1>8
  <1>10. \A i \in 1 .. r : next'[e[i]] = next[e[i]]
    BY <1>2, <1>4, <1>8
  <1>11. head'[l] = IF Len(d) = 0 THEN Null ELSE d[1]
    <2>1. Len(d) # 0 => d[1] = IF 1 <= n THEN c[1] ELSE e[1 - n]
      BY <1>1, <1>2, <1>3
    <2>2. n = 0 => 1 - n = 1
      OBVIOUS
    <2> QED
      BY <1>1, <1>2, <1>3, <1>7, <2>1, <2>2
  <1>12. ASSUME NEW i \in 1 .. Len(d)
         PROVE  next'[d[i]] = IF i < Len(d) THEN d[i + 1] ELSE Null
    <2>1. i < n + r => d[i + 1] = IF i + 1 <= n THEN c[i + 1] ELSE e[(i + 1) - n]
      BY <1>1, <1>2, <1>3
    <2>2. d[i] = IF i <= n THEN c[i] ELSE e[i - n]
      BY <1>3
    <2>3. CASE i < n
      <3>1. i \in 1 .. n /\ i < n + r /\ i + 1 <= n /\ i # n
        BY <1>1, <1>2, <2>3
      <3> QED
        BY <1>1, <1>3, <1>9, <2>1, <2>2, <3>1
    <2>4. CASE i = n
      <3>1. i \in 1 .. n /\ ~(i + 1 <= n) /\ (i + 1) - n = 1 /\ (i < n + r <=> r # 0)
        BY <1>1, <1>2, <2>4
      <3> QED
        BY <1>2, <1>3, <1>9, <2>1, <2>2, <2>4, <3>1
    <2>5. CASE i > n
      <3>1. /\ i - n \in 1 .. r /\ ~(i <= n) /\ ~(i + 1 <= n) /\ (i + 1) - n = (i - n) + 1
            /\ (i < n + r <=> i - n < r)
        BY <1>1, <1>2, <1>3, <2>5
      <3> QED
        BY <1>2, <1>3, <1>10, <2>1, <2>2, <3>1
    <2> QED
      BY <1>1, <2>3, <2>4, <2>5
  <1>13. Represents("LL", head'[l], next', prev', d)
    BY <1>3, <1>11, <1>12, LLReshape
  <1>14. \A x \in Nodes :
           (\A i \in 1 .. n : c[i] # x) /\ (\A i \in 1 .. r : e[i] # x)
             => next'[x] = next[x] /\ prev'[x] = prev[x]
    BY <1>4, <1>5, <1>8
  <1> QED
    BY <1>6, <1>7, <1>13, <1>14
=============================================================================
