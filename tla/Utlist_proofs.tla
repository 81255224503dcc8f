------------------------------ MODULE Utlist_proofs ------------------------------
(***************************************************************************)
(* What the lists of utlist.h guarantee to a program, for any number of    *)
(* elements and lists: the pointers of every list are right after every    *)
(* macro, and a walk comes to each element.                                *)
(***************************************************************************)
EXTENDS UtlistMacros_proofs

-----------------------------------------------------------------------------
(* The program.                                                            *)

(* The walk has come to the first element of todo; the others are the last *)
(* ones of the list, and tmp, or tmp1 at the last of a circular list, says *)
(* how to go on.                                                           *)
WalkSound ==
  walked # Null =>
    LET c == contents[walked]
        n == Len(c)
        m == Len(todo)
    IN  /\ el = IF m = 0 THEN Null ELSE todo[1]
        /\ \A i, j \in 1 .. m : todo[i] = todo[j] => i = j
        /\ m - 1 <= n
        /\ \A i \in 2 .. m : todo[i] = c[(n - m) + i]
        /\ m > 1 => tmp = todo[2]
        /\ m = 1 /\ kind # "CDL" => tmp = Null
        /\ m > 0 /\ kind = "CDL" => tmp1 = todo[m]

LInv == TypeOK /\ Apart /\ Linked /\ WalkSound

LEMMA InitSound == Init => LInv
  <1> SUFFICES ASSUME Init PROVE LInv
    OBVIOUS
  <1>1. <<>> \in Seq(Nodes) /\ Len(<<>>) = 0
    BY EmptySeq
  <1>2. TypeOK
    BY <1>1 DEF Init, TypeOK, ListKinds, Cells
  <1>3. Apart
    BY <1>1 DEF Init, Apart
  <1>4. Linked
    BY <1>1 DEF Init, Linked, Represents, LinkedForward, LinkedBackward
  <1>5. WalkSound
    BY DEF Init, WalkSound
  <1> QED
    BY <1>2, <1>3, <1>4, <1>5 DEF LInv

LEMMA ListHolds ==
  ASSUME TypeOK, Apart, Linked, NEW l \in Lists
  PROVE  /\ PointersTyped
         /\ contents[l] \in Seq(Nodes) /\ Once(contents[l])
         /\ Holds(kind, l, contents[l])
  <1>1. PointersTyped /\ contents[l] \in Seq(Nodes)
    BY DEF TypeOK, PointersTyped
  <1>2. Once(contents[l])
    BY DEF Apart, Once
  <1>3. Represents(kind, head[l], next, prev, contents[l])
    BY DEF Linked
  <1> QED
    BY <1>1, <1>2, <1>3 DEF Holds

(* An element that may be added is new to every list.                      *)
LEMMA NewIsFresh ==
  ASSUME TypeOK, NEW l \in Lists, NEW add \in Nodes, MayAdd(l, add)
  PROVE  walked # l /\ \A k \in Lists : Fresh(add, contents[k])
  <1>1. ASSUME NEW k \in Lists, NEW i \in 1 .. Len(contents[k]) PROVE contents[k][i] # add
    <2>1. contents[k] \in Seq(Nodes)
      BY DEF TypeOK
    <2>2. DOMAIN contents[k] = 1 .. Len(contents[k])
      BY <2>1, LenProperties
    <2>3. add \notin Members(k)
      BY DEF MayAdd
    <2> QED
      BY <2>2, <2>3 DEF Members, Range
  <1> QED
    BY <1>1 DEF MayAdd, Fresh

LEMMA Found ==
  ASSUME TypeOK, NEW l \in Lists, NEW x \in Members(l)
  PROVE  IndexOf(l, x) \in 1 .. Len(contents[l]) /\ contents[l][IndexOf(l, x)] = x
  <1>1. contents[l] \in Seq(Nodes)
    BY DEF TypeOK
  <1>2. \E i \in 1 .. Len(contents[l]) : contents[l][i] = x
    BY <1>1, LenProperties DEF Members, Range
  <1> QED
    BY <1>2 DEF IndexOf

(* List l becomes d, made of its elements and of those of X, which were in *)
(* no list.                                                                *)
Becomes(l, X, d) ==
  /\ d \in Seq(Nodes) /\ Once(d)
  /\ \A i \in 1 .. Len(d) : d[i] \in X \/ \E j \in 1 .. Len(contents[l]) : d[i] = contents[l][j]
  /\ \A k \in Lists : \A i \in 1 .. Len(contents[k]) : contents[k][i] \notin X
  /\ contents' = [contents EXCEPT ![l] = d]

LEMMA BecomesApart ==
  ASSUME TypeOK, Apart, NEW l \in Lists, NEW X, NEW d, Becomes(l, X, d)
  PROVE  Apart' /\ contents' \in [Lists -> Seq(Nodes)]
  <1>1. contents' \in [Lists -> Seq(Nodes)]
    BY DEF TypeOK, Becomes
  <1>2. contents'[l] = d /\ \A k \in Lists \ {l} : contents'[k] = contents[k]
    BY DEF TypeOK, Becomes
  <1>3. ASSUME NEW k \in Lists, NEW m \in Lists,
               NEW i \in 1 .. Len(contents'[k]), NEW j \in 1 .. Len(contents'[m]),
               contents'[k][i] = contents'[m][j]
        PROVE  k = m /\ i = j
    <2>1. CASE k = l /\ m = l
      BY <1>2, <1>3, <2>1 DEF Becomes, Once
    <2>2. CASE k = l /\ m # l
      <3>1. /\ contents'[k] = d /\ contents'[m] = contents[m]
            /\ i \in 1 .. Len(d) /\ j \in 1 .. Len(contents[m])
        BY <1>2, <1>3, <2>2
      <3>2. contents[m][j] \notin X
        BY <3>1 DEF Becomes
      <3>3. \E o \in 1 .. Len(contents[l]) : d[i] = contents[l][o]
        BY <1>3, <3>1, <3>2 DEF Becomes
      <3>4. FALSE
        BY <1>3, <2>2, <3>1, <3>3 DEF Apart
      <3> QED
        BY <3>4
    <2>3. CASE k # l /\ m = l
      <3>1. /\ contents'[k] = contents[k] /\ contents'[m] = d
            /\ i \in 1 .. Len(contents[k]) /\ j \in 1 .. Len(d)
        BY <1>2, <1>3, <2>3
      <3>2. contents[k][i] \notin X
        BY <3>1 DEF Becomes
      <3>3. \E o \in 1 .. Len(contents[l]) : d[j] = contents[l][o]
        BY <1>3, <3>1, <3>2 DEF Becomes
      <3>4. FALSE
        BY <1>3, <2>3, <3>1, <3>3 DEF Apart
      <3> QED
        BY <3>4
    <2>4. CASE k # l /\ m # l
      BY <1>2, <1>3, <2>4 DEF Apart
    <2> QED
      BY <2>1, <2>2, <2>3, <2>4
  <1> QED
    BY <1>1, <1>3 DEF Apart

(* The pointers of a list whose elements nobody has touched.               *)
LEMMA Untouched ==
  ASSUME NEW k, NEW h, NEW c,
         Represents(k, h, next, prev, c),
         \A i \in 1 .. Len(c) : next'[c[i]] = next[c[i]] /\ prev'[c[i]] = prev[c[i]]
  PROVE  Represents(k, h, next', prev', c)
  BY DEF Represents, LinkedForward, LinkedBackward

LEMMA BecomesLinked ==
  ASSUME TypeOK, Apart, Linked, NEW l \in Lists, NEW X, NEW d,
         Becomes(l, X, d), Leaves(kind, l, contents[l], X, d), kind' = kind
  PROVE  Linked'
  <1>1. contents'[l] = d /\ \A k \in Lists \ {l} : contents'[k] = contents[k]
    BY DEF TypeOK, Becomes
  <1>2. ASSUME NEW k \in Lists \ {l}
        PROVE  Represents(kind, head'[k], next', prev', contents'[k])
    <2>1. contents'[k] = contents[k] /\ head'[k] = head[k]
      BY <1>1 DEF Leaves
    <2>2. Represents(kind, head[k], next, prev, contents[k])
      BY DEF Linked
    <2>3. ASSUME NEW i \in 1 .. Len(contents[k])
          PROVE  /\ next'[contents[k][i]] = next[contents[k][i]]
                 /\ prev'[contents[k][i]] = prev[contents[k][i]]
      <3>1. contents[k][i] \in Nodes
        BY Elements DEF TypeOK
      <3>2. contents[k][i] \notin X
        BY DEF Becomes
      <3>3. \A j \in 1 .. Len(contents[l]) : contents[l][j] # contents[k][i]
        BY DEF Apart
      <3> QED
        BY <3>1, <3>2, <3>3 DEF Leaves
    <2> QED
      BY <2>1, <2>2, <2>3, Untouched
  <1>3. Represents(kind, head'[l], next', prev', contents'[l])
    BY <1>1 DEF Leaves
  <1> QED
    BY <1>2, <1>3 DEF Linked

LEMMA InsertsBecomes ==
  ASSUME TypeOK, Apart, NEW l \in Lists, NEW add \in Nodes, MayAdd(l, add), NEW d,
         NEW p \in 1 .. Len(contents[l]) + 1, Inserts(d, contents[l], p, add),
         contents' = [contents EXCEPT ![l] = d]
  PROVE  Becomes(l, {add}, d)
  <1> DEFINE c == contents[l]
             n == Len(c)
  <1>1. \A k \in Lists : \A i \in 1 .. Len(contents[k]) : contents[k][i] # add
    BY NewIsFresh DEF Fresh
  <1>2. n \in Nat /\ \A i, j \in 1 .. n : c[i] = c[j] => i = j
    BY Elements DEF TypeOK, Apart
  <1>3. /\ d \in Seq(Nodes) /\ Len(d) = n + 1
        /\ \A i \in 1 .. n + 1 : d[i] = IF i < p THEN c[i] ELSE IF i = p THEN add ELSE c[i - 1]
    BY DEF Inserts
  <1>4. ASSUME NEW i \in 1 .. n + 1
        PROVE  /\ i < p => i \in 1 .. n /\ d[i] = c[i]
               /\ i = p => d[i] = add
               /\ i > p => i - 1 \in 1 .. n /\ d[i] = c[i - 1]
    <2>1. n \in Nat /\ p \in 1 .. n + 1
      BY <1>2
    <2> QED
      BY <1>3, <2>1
  <1>5. \A i \in 1 .. n : c[i] # add
    BY <1>1
  <1> HIDE DEF c, n
  <1>6. \A i \in 1 .. n + 1 : d[i] = add \/ \E j \in 1 .. n : d[i] = c[j]
    <2>1. n \in Nat /\ p \in Nat
      BY <1>2 DEF n, c
    <2> QED
      BY <1>4, <2>1
  <1>7. ASSUME NEW i \in 1 .. n + 1, NEW j \in 1 .. n + 1, d[i] = d[j] PROVE i = j
    <2>1. n \in Nat /\ p \in Nat /\ i \in Nat /\ j \in Nat
      BY <1>2 DEF n, c
    <2>2. CASE i < p
      <3>1. d[i] = c[i] /\ i \in 1 .. n
        BY <1>4, <2>2
      <3>2. j # p
        BY <1>4, <1>5, <1>7, <3>1
      <3>3. CASE j < p
        BY <1>2, <1>4, <1>7, <3>1, <3>3
      <3>4. CASE j > p
        <4>1. d[j] = c[j - 1] /\ j - 1 \in 1 .. n
          BY <1>4, <3>4
        <4>2. i = j - 1
          BY <1>2, <1>7, <3>1, <4>1
        <4> QED
          BY <2>1, <2>2, <3>4, <4>2
      <3> QED
        BY <2>1, <3>2, <3>3, <3>4
    <2>3. CASE i = p
      <3>1. d[i] = add
        BY <1>4, <2>3
      <3>2. ~(j < p) /\ ~(j > p)
        BY <1>4, <1>5, <1>7, <3>1
      <3> QED
        BY <2>1, <2>3, <3>2
    <2>4. CASE i > p
      <3>1. d[i] = c[i - 1] /\ i - 1 \in 1 .. n
        BY <1>4, <2>4
      <3>2. j # p
        BY <1>4, <1>5, <1>7, <3>1
      <3>3. CASE j < p
        <4>1. d[j] = c[j] /\ j \in 1 .. n
          BY <1>4, <3>3
        <4>2. j = i - 1
          BY <1>2, <1>7, <3>1, <4>1
        <4> QED
          BY <2>1, <2>4, <3>3, <4>2
      <3>4. CASE j > p
        <4>1. d[j] = c[j - 1] /\ j - 1 \in 1 .. n
          BY <1>4, <3>4
        <4>2. i - 1 = j - 1
          BY <1>2, <1>7, <3>1, <4>1
        <4> QED
          BY <2>1, <4>2
      <3> QED
        BY <2>1, <3>2, <3>3, <3>4
    <2> QED
      BY <2>1, <2>2, <2>3, <2>4
  <1>8. Once(d)
    BY <1>3, <1>7 DEF Once
  <1> QED
    BY <1>1, <1>3, <1>6, <1>8 DEF Becomes, c, n

LEMMA ReplacesBecomes ==
  ASSUME TypeOK, Apart, NEW l \in Lists, NEW add \in Nodes, MayAdd(l, add), NEW d,
         NEW p \in 1 .. Len(contents[l]), Replaces(d, contents[l], p, add),
         contents' = [contents EXCEPT ![l] = d]
  PROVE  Becomes(l, {add}, d)
  <1>1. \A k \in Lists : \A i \in 1 .. Len(contents[k]) : contents[k][i] # add
    BY NewIsFresh DEF Fresh
  <1>2. \A i, j \in 1 .. Len(contents[l]) : contents[l][i] = contents[l][j] => i = j
    BY DEF Apart
  <1>3. /\ d \in Seq(Nodes) /\ Len(d) = Len(contents[l])
        /\ \A i \in 1 .. Len(d) : d[i] = IF i = p THEN add ELSE contents[l][i]
    BY DEF Replaces
  <1>4. Once(d)
    BY <1>1, <1>2, <1>3 DEF Once
  <1> QED
    BY <1>1, <1>3, <1>4 DEF Becomes

LEMMA RemovesBecomes ==
  ASSUME TypeOK, Apart, NEW l \in Lists, NEW d,
         NEW p \in 1 .. Len(contents[l]), Removes(d, contents[l], p),
         contents' = [contents EXCEPT ![l] = d]
  PROVE  Becomes(l, {}, d)
  <1>1. Len(contents[l]) \in Nat
    BY Elements DEF TypeOK
  <1>2. \A i, j \in 1 .. Len(contents[l]) : contents[l][i] = contents[l][j] => i = j
    BY DEF Apart
  <1>3. /\ d \in Seq(Nodes) /\ Len(d) = Len(contents[l]) - 1
        /\ \A i \in 1 .. Len(d) : d[i] = IF i < p THEN contents[l][i] ELSE contents[l][i + 1]
    BY DEF Removes
  <1>4. \A i \in 1 .. Len(d) : i \in 1 .. Len(contents[l]) /\ i + 1 \in 1 .. Len(contents[l])
    BY <1>1, <1>3
  <1>5. ASSUME NEW i \in 1 .. Len(d), NEW j \in 1 .. Len(d), d[i] = d[j] PROVE i = j
    BY <1>1, <1>2, <1>3, <1>4, <1>5
  <1>6. Once(d)
    BY <1>5 DEF Once
  <1>7. \A i \in 1 .. Len(d) : \E j \in 1 .. Len(contents[l]) : d[i] = contents[l][j]
    BY <1>3, <1>4
  <1> QED
    BY <1>3, <1>6, <1>7 DEF Becomes

(* An action that leaves the walk and its list alone.                      *)
LEMMA WalkKept ==
  ASSUME WalkSound, UNCHANGED <<kind, walkVars>>,
         walked # Null => contents'[walked] = contents[walked]
  PROVE  WalkSound'
  <1>1. CASE walked = Null
    BY <1>1 DEF WalkSound, walkVars
  <1>2. CASE walked # Null
    BY <1>2 DEF WalkSound, walkVars
  <1> QED
    BY <1>1, <1>2

(* What is left to show of an action on the elements of list l.            *)
LEMMA ListStep ==
  ASSUME LInv, NEW l \in Lists, NEW X, NEW d, Becomes(l, X, d),
         UNCHANGED <<kind, walkVars>>, Leaves(kind, l, contents[l], X, d), WalkSound'
  PROVE  LInv'
  <1>1. Apart' /\ contents' \in [Lists -> Seq(Nodes)]
    BY BecomesApart DEF LInv
  <1>2. PointersTyped'
    BY DEF Leaves
  <1>3. TypeOK'
    BY <1>1, <1>2 DEF LInv, TypeOK, PointersTyped, walkVars
  <1>4. Linked'
    BY BecomesLinked DEF LInv
  <1> QED
    BY <1>1, <1>3, <1>4 DEF LInv

LEMMA PrependStep ==
  ASSUME LInv, NEW l \in Lists, NEW add \in Nodes, Prepend(l, add)
  PROVE  LInv'
  <1> DEFINE c == contents[l]
             d == Cons(add, c)
  <1>1. TypeOK /\ Apart /\ MayAdd(l, add) /\ c \in Seq(Nodes)
    BY DEF LInv, Prepend, TypeOK
  <1>2. Inserts(d, c, 1, add)
    BY <1>1, PrependInserts
  <1>3. contents' = [contents EXCEPT ![l] = d] /\ UNCHANGED <<kind, walkVars>>
    BY DEF Prepend
  <1>4. walked # l /\ Fresh(add, c)
    BY <1>1, NewIsFresh
  <1> HIDE DEF d
  <1>5. Becomes(l, {add}, d)
    <2>1. 1 \in 1 .. Len(contents[l]) + 1
      BY <1>1, Elements
    <2> QED
      BY <1>1, <1>2, <1>3, <2>1, InsertsBecomes
  <1>6. WalkSound'
    <2>1. walked # Null => contents'[walked] = contents[walked]
      BY <1>1, <1>3, <1>4 DEF TypeOK
    <2> QED
      BY <1>3, <2>1, WalkKept DEF LInv
  <1>7. Leaves(kind, l, c, {add}, d)
    <2>1. PointersTyped /\ Holds(kind, l, c)
      BY <1>1, ListHolds DEF LInv
    <2>2. CASE kind = "LL"
      <3>1. LL_PREPEND(l, add)
        BY <2>2 DEF Prepend
      <3> QED
        BY <1>2, <1>4, <2>1, <2>2, <3>1, LLPrepend
    <2>3. CASE kind = "DL"
      <3>1. DL_PREPEND(l, add)
        BY <2>3 DEF Prepend
      <3> QED
        BY <1>2, <1>4, <2>1, <2>3, <3>1, DLPrepend
    <2>4. CASE kind = "CDL"
      <3>1. CDL_PREPEND(l, add)
        BY <2>4 DEF Prepend
      <3> QED
        BY <1>2, <1>4, <2>1, <2>4, <3>1, CDLPrepend
    <2> QED
      BY <1>1, <2>2, <2>3, <2>4 DEF TypeOK, ListKinds
  <1> QED
    BY <1>3, <1>5, <1>6, <1>7, ListStep

LEMMA AppendStep ==
  ASSUME LInv, NEW l \in Lists, NEW add \in Nodes, AppendTo(l, add)
  PROVE  LInv'
  <1> DEFINE c == contents[l]
             d == Append(c, add)
  <1>1. TypeOK /\ Apart /\ MayAdd(l, add) /\ c \in Seq(Nodes)
    BY DEF LInv, AppendTo, TypeOK
  <1>2. Inserts(d, c, Len(c) + 1, add)
    BY <1>1, AppendInserts
  <1>3. contents' = [contents EXCEPT ![l] = d] /\ UNCHANGED <<kind, walkVars>>
    BY DEF AppendTo
  <1>4. walked # l /\ Fresh(add, c)
    BY <1>1, NewIsFresh
  <1> HIDE DEF d
  <1>5. Becomes(l, {add}, d)
    <2>1. Len(contents[l]) + 1 \in 1 .. Len(contents[l]) + 1
      BY <1>1, Elements
    <2> QED
      BY <1>1, <1>2, <1>3, <2>1, InsertsBecomes
  <1>6. WalkSound'
    <2>1. walked # Null => contents'[walked] = contents[walked]
      BY <1>1, <1>3, <1>4 DEF TypeOK
    <2> QED
      BY <1>3, <2>1, WalkKept DEF LInv
  <1>7. Leaves(kind, l, c, {add}, d)
    <2>1. PointersTyped /\ Holds(kind, l, c)
      BY <1>1, ListHolds DEF LInv
    <2>2. CASE kind = "LL"
      <3>1. LL_APPEND(l, add)
        BY <2>2 DEF AppendTo
      <3> QED
        BY <1>2, <1>4, <2>1, <2>2, <3>1, LLAppend
    <2>3. CASE kind = "DL"
      <3>1. DL_APPEND(l, add)
        BY <2>3 DEF AppendTo
      <3> QED
        BY <1>2, <1>4, <2>1, <2>3, <3>1, DLAppend
    <2> QED
      BY <2>2, <2>3 DEF AppendTo
  <1> QED
    BY <1>3, <1>5, <1>6, <1>7, ListStep

LEMMA ReplaceStep ==
  ASSUME LInv, NEW l \in Lists, NEW x \in Nodes, NEW add \in Nodes, Replace(l, x, add)
  PROVE  LInv'
  <1> DEFINE c == contents[l]
             p == IndexOf(l, x)
             d == ReplaceAt(c, p, add)
  <1>1. TypeOK /\ Apart /\ MayAdd(l, add) /\ c \in Seq(Nodes) /\ x \in Members(l)
    BY DEF LInv, Replace, TypeOK
  <1>2. p \in 1 .. Len(c) /\ c[p] = x
    BY <1>1, Found
  <1>3. contents' = [contents EXCEPT ![l] = d] /\ UNCHANGED <<kind, walkVars>>
    BY DEF Replace
  <1>4. walked # l /\ Fresh(add, c)
    BY <1>1, NewIsFresh
  <1> HIDE DEF p
  <1>5. Replaces(d, c, p, add)
    BY <1>1, <1>2, ReplaceReplaces
  <1> HIDE DEF d
  <1>6. Becomes(l, {add}, d)
    BY <1>1, <1>2, <1>3, <1>5, ReplacesBecomes
  <1>7. WalkSound'
    <2>1. walked # Null => contents'[walked] = contents[walked]
      BY <1>1, <1>3, <1>4 DEF TypeOK
    <2> QED
      BY <1>3, <2>1, WalkKept DEF LInv
  <1>8. Leaves(kind, l, c, {add}, d)
    <2>1. PointersTyped /\ Holds(kind, l, c)
      BY <1>1, ListHolds DEF LInv
    <2>2. CASE kind = "LL"
      <3>1. LL_REPLACE_ELEM(l, c[p], add)
        BY <1>2, <2>2 DEF Replace
      <3> QED
        BY <1>2, <1>4, <1>5, <2>1, <2>2, <3>1, LLReplaceElem
    <2>3. CASE kind = "DL"
      <3>1. DL_REPLACE_ELEM(l, c[p], add)
        BY <1>2, <2>3 DEF Replace
      <3> QED
        BY <1>2, <1>4, <1>5, <2>1, <2>3, <3>1, DLReplaceElem
    <2>4. CASE kind = "CDL"
      <3>1. CDL_REPLACE_ELEM(l, c[p], add)
        BY <1>2, <2>4 DEF Replace
      <3> QED
        BY <1>2, <1>4, <1>5, <2>1, <2>4, <3>1, CDLReplaceElem
    <2> QED
      BY <1>1, <2>2, <2>3, <2>4 DEF TypeOK, ListKinds
  <1> QED
    BY <1>3, <1>6, <1>7, <1>8, ListStep

LEMMA PrependElemStep ==
  ASSUME LInv, NEW l \in Lists, NEW x \in Nodes, NEW add \in Nodes, PrependElem(l, x, add)
  PROVE  LInv'
  <1> DEFINE c == contents[l]
             p == IndexOf(l, x)
             d == InsertAt(c, p, add)
  <1>1. TypeOK /\ Apart /\ MayAdd(l, add) /\ c \in Seq(Nodes) /\ x \in Members(l)
    BY DEF LInv, PrependElem, TypeOK
  <1>2. p \in 1 .. Len(c) /\ c[p] = x
    BY <1>1, Found
  <1>3. contents' = [contents EXCEPT ![l] = d] /\ UNCHANGED <<kind, walkVars>>
    BY DEF PrependElem
  <1>4. walked # l /\ Fresh(add, c)
    BY <1>1, NewIsFresh
  <1> HIDE DEF p
  <1>5. p \in 1 .. Len(c) + 1
    BY <1>1, <1>2, Elements
  <1>6. Inserts(d, c, p, add)
    BY <1>1, <1>5, InsertInserts
  <1> HIDE DEF d
  <1>7. Becomes(l, {add}, d)
    BY <1>1, <1>3, <1>5, <1>6, InsertsBecomes
  <1>8. WalkSound'
    <2>1. walked # Null => contents'[walked] = contents[walked]
      BY <1>1, <1>3, <1>4 DEF TypeOK
    <2> QED
      BY <1>3, <2>1, WalkKept DEF LInv
  <1>9. Leaves(kind, l, c, {add}, d)
    <2>1. PointersTyped /\ Holds(kind, l, c)
      BY <1>1, ListHolds DEF LInv
    <2>2. CASE kind = "LL"
      <3>1. LL_PREPEND_ELEM(l, c[p], add)
        BY <1>2, <2>2 DEF PrependElem
      <3> QED
        BY <1>2, <1>4, <1>6, <2>1, <2>2, <3>1, LLPrependElem
    <2>3. CASE kind = "DL"
      <3>1. DL_PREPEND_ELEM(l, c[p], add)
        BY <1>2, <2>3 DEF PrependElem
      <3> QED
        BY <1>2, <1>4, <1>6, <2>1, <2>3, <3>1, DLPrependElem
    <2>4. CASE kind = "CDL"
      <3>1. CDL_PREPEND_ELEM(l, c[p], add)
        BY <1>2, <2>4 DEF PrependElem
      <3> QED
        BY <1>2, <1>4, <1>6, <2>1, <2>4, <3>1, CDLPrependElem
    <2> QED
      BY <1>1, <2>2, <2>3, <2>4 DEF TypeOK, ListKinds
  <1> QED
    BY <1>3, <1>7, <1>8, <1>9, ListStep

(* The walk's own list loses the element it has come to.                   *)
LEMMA WalkLoses ==
  ASSUME TypeOK, Apart, WalkSound, UNCHANGED <<kind, walkVars>>,
         NEW l \in Lists, walked = l, NEW p \in 1 .. Len(contents[l]),
         contents[l][p] = el, NEW d, Removes(d, contents[l], p),
         contents' = [contents EXCEPT ![l] = d]
  PROVE  WalkSound'
  <1> DEFINE c == contents[l]
             n == Len(c)
             m == Len(todo)
  <1>1. /\ walked # Null
        /\ el = IF m = 0 THEN Null ELSE todo[1]
        /\ \A i, j \in 1 .. m : todo[i] = todo[j] => i = j
        /\ m - 1 <= n
        /\ \A i \in 2 .. m : todo[i] = c[(n - m) + i]
        /\ m > 1 => tmp = todo[2]
        /\ m = 1 /\ kind # "CDL" => tmp = Null
        /\ m > 0 /\ kind = "CDL" => tmp1 = todo[m]
    BY ListsAssumption DEF WalkSound
  <1>2. n \in Nat /\ m \in Nat /\ p \in 1 .. n /\ el \in Nodes
    BY Elements DEF TypeOK
  <1>3. m # 0 /\ el = todo[1]
    BY <1>1, <1>2, NullAssumption
  <1>4. p <= (n - m) + 1
    <2> SUFFICES ASSUME p > (n - m) + 1 PROVE FALSE
      BY <1>2
    <2>1. n \in Nat /\ m \in Nat /\ p \in 1 .. n /\ m - 1 <= n /\ p > (n - m) + 1
      BY <1>1, <1>2
    <2> HIDE DEF n, m
    <2>9. /\ p - (n - m) \in 2 .. m /\ p - (n - m) \in 1 .. m
          /\ (n - m) + (p - (n - m)) = p /\ 1 \in 1 .. m
      BY <2>1
    <2>2. todo[p - (n - m)] = c[p]
      BY <1>1, <2>9
    <2>3. todo[p - (n - m)] = todo[1]
      BY <1>3, <2>2
    <2>4. p - (n - m) = 1
      BY <1>1, <2>9, <2>3
    <2> QED
      BY <2>9, <2>4
  <1>5. /\ contents'[l] = d /\ Len(d) = n - 1
        /\ \A i \in 1 .. n - 1 : d[i] = IF i < p THEN c[i] ELSE c[i + 1]
    BY <1>2 DEF TypeOK, Removes
  <1>6. (m - 1) <= (n - 1)
    BY <1>2, <1>4
  <1>7. ASSUME NEW i \in 2 .. m PROVE todo[i] = d[((n - 1) - m) + i]
    <2>1. /\ ((n - 1) - m) + i \in 1 .. n - 1
          /\ ~(((n - 1) - m) + i < p)
          /\ (((n - 1) - m) + i) + 1 = (n - m) + i
      BY <1>2, <1>4
    <2> QED
      BY <1>1, <1>5, <2>1
  <1>8. walked' = l /\ el' = el /\ tmp' = tmp /\ tmp1' = tmp1 /\ todo' = todo /\ kind' = kind
    BY DEF walkVars
  <1>9. walked # Null /\ Len(contents'[l]) = n - 1 /\ Len(contents'[l]) - m = (n - 1) - m
    BY <1>1, <1>5
  <1>10. \A i \in 2 .. m : todo[i] = contents'[l][(Len(contents'[l]) - m) + i]
    BY <1>5, <1>7, <1>9
  <1> HIDE DEF c, n
  <1>11. m - 1 <= Len(contents'[l])
    BY <1>6, <1>9
  <1> HIDE DEF m
  <1> QED
    BY <1>1, <1>8, <1>9, <1>10, <1>11 DEF WalkSound, m

LEMMA DeleteStep ==
  ASSUME LInv, NEW l \in Lists, NEW del \in Nodes, Delete(l, del)
  PROVE  LInv'
  <1> DEFINE c == contents[l]
             p == IndexOf(l, del)
             d == RemoveAt(c, p)
  <1>1. TypeOK /\ Apart /\ MayDelete(l, del) /\ c \in Seq(Nodes) /\ del \in Members(l)
    BY DEF LInv, Delete, TypeOK, MayDelete
  <1>2. p \in 1 .. Len(c) /\ c[p] = del
    BY <1>1, Found
  <1>3. contents' = [contents EXCEPT ![l] = d] /\ UNCHANGED <<kind, walkVars>>
    BY DEF Delete
  <1> HIDE DEF p
  <1>4. Removes(d, c, p)
    BY <1>1, <1>2, RemoveRemoves
  <1> HIDE DEF d
  <1>5. Becomes(l, {}, d)
    BY <1>1, <1>2, <1>3, <1>4, RemovesBecomes
  <1>6. WalkSound'
    <2>1. CASE walked = l
      <3>1. c[p] = el
        BY <1>1, <1>2, <2>1 DEF MayDelete
      <3> QED
        BY <1>1, <1>2, <1>3, <1>4, <2>1, <3>1, WalkLoses DEF LInv
    <2>2. CASE walked # l
      <3>1. walked # Null => contents'[walked] = contents[walked]
        BY <1>1, <1>3, <2>2 DEF TypeOK
      <3> QED
        BY <1>3, <3>1, WalkKept DEF LInv
    <2> QED
      BY <2>1, <2>2
  <1>7. Leaves(kind, l, c, {}, d)
    <2>1. PointersTyped /\ Holds(kind, l, c)
      BY <1>1, ListHolds DEF LInv
    <2>2. CASE kind = "LL"
      <3>1. LL_DELETE(l, c[p])
        BY <1>2, <2>2 DEF Delete
      <3> QED
        BY <1>2, <1>4, <2>1, <2>2, <3>1, LLDelete
    <2>3. CASE kind = "DL"
      <3>1. DL_DELETE(l, c[p])
        BY <1>2, <2>3 DEF Delete
      <3> QED
        BY <1>2, <1>4, <2>1, <2>3, <3>1, DLDelete
    <2>4. CASE kind = "CDL"
      <3>1. CDL_DELETE(l, c[p])
        BY <1>2, <2>4 DEF Delete
      <3> QED
        BY <1>2, <1>4, <2>1, <2>4, <3>1, CDLDelete
    <2> QED
      BY <1>1, <2>2, <2>3, <2>4 DEF TypeOK, ListKinds
  <1> QED
    BY <1>3, <1>5, <1>6, <1>7, ListStep

LEMMA NothingStep ==
  ASSUME LInv, UNCHANGED vars
  PROVE  LInv'
  <1>1. UNCHANGED <<kind, head, next, prev, contents, walked, el, tmp, tmp1, todo>>
    BY DEF vars, pointers, walkVars
  <1>2. TypeOK' /\ Apart'
    BY <1>1 DEF LInv, TypeOK, Apart
  <1>3. Linked'
    BY <1>1 DEF LInv, Linked
  <1>4. WalkSound'
    BY <1>1 DEF LInv, WalkSound
  <1> QED
    BY <1>2, <1>3, <1>4 DEF LInv

LEMMA DeleteMissingStep ==
  ASSUME LInv, NEW l \in Lists, NEW del \in Nodes, DeleteMissing(l, del)
  PROVE  LInv'
  <1>1. /\ kind = "LL" /\ LL_DELETE(l, del) /\ head[l] # Null /\ del \notin Members(l)
        /\ UNCHANGED <<kind, contents, walkVars>>
    BY DEF DeleteMissing
  <1>2. PointersTyped /\ contents[l] \in Seq(Nodes) /\ Holds("LL", l, contents[l])
    BY <1>1, ListHolds DEF LInv
  <1>3. \A i \in 1 .. Len(contents[l]) : contents[l][i] # del
    <2>1. DOMAIN contents[l] = 1 .. Len(contents[l])
      BY <1>2, LenProperties
    <2> QED
      BY <1>1, <2>1 DEF Members, Range
  <1>4. UNCHANGED pointers
    BY <1>1, <1>2, <1>3, LLDeleteMissing
  <1>5. UNCHANGED vars
    BY <1>1, <1>4 DEF vars
  <1> QED
    BY <1>5, NothingStep

LEMMA ConcatStep ==
  ASSUME LInv, NEW l \in Lists, NEW k \in Lists, Concat(l, k)
  PROVE  LInv'
  <1> DEFINE c == contents[l]
             e == contents[k]
             d == c \o e
  <1>1. /\ TypeOK /\ Apart /\ l # k /\ walked \notin {l, k}
        /\ c \in Seq(Nodes) /\ e \in Seq(Nodes)
        /\ Len(c) \in Nat /\ Len(e) \in Nat
    BY Elements DEF LInv, Concat, TypeOK
  <1>2. Joins(d, c, e)
    BY <1>1, JoinsParts
  <1>3. contents' = [contents EXCEPT ![l] = d, ![k] = <<>>] /\ UNCHANGED <<kind, walkVars>>
    BY DEF Concat
  <1> HIDE DEF d
  <1>4. /\ d \in Seq(Nodes) /\ Len(d) = Len(c) + Len(e)
        /\ \A i \in 1 .. Len(d) : d[i] = IF i <= Len(c) THEN c[i] ELSE e[i - Len(c)]
    BY <1>2 DEF Joins
  <1>5. <<>> \in Seq(Nodes) /\ Len(<<>>) = 0
    BY EmptySeq
  <1>6. /\ contents' \in [Lists -> Seq(Nodes)]
        /\ contents'[l] = d /\ contents'[k] = <<>>
        /\ \A o \in Lists \ {l, k} : contents'[o] = contents[o]
    BY <1>1, <1>3, <1>4, <1>5 DEF TypeOK
  <1>7. ASSUME NEW i \in 1 .. Len(d)
        PROVE  \/ i <= Len(c) /\ i \in 1 .. Len(c) /\ d[i] = c[i]
               \/ i > Len(c) /\ i - Len(c) \in 1 .. Len(e) /\ d[i] = e[i - Len(c)]
    <2>1. Len(c) \in Nat /\ Len(e) \in Nat /\ i \in 1 .. Len(c) + Len(e)
      BY <1>1, <1>4
    <2>2. \/ i <= Len(c) /\ i \in 1 .. Len(c)
          \/ i > Len(c) /\ ~(i <= Len(c)) /\ i - Len(c) \in 1 .. Len(e)
      <3> HIDE DEF c, e
      <3> QED
        BY <2>1
    <2> QED
      BY <1>4, <2>2
  <1>8. Apart'
    <2>1. ASSUME NEW i \in 1 .. Len(d), NEW j \in 1 .. Len(d), d[i] = d[j] PROVE i = j
      <3>1. \/ i \in 1 .. Len(c) /\ d[i] = c[i]
            \/ i > Len(c) /\ i - Len(c) \in 1 .. Len(e) /\ d[i] = e[i - Len(c)]
        BY <1>7
      <3>2. \/ j \in 1 .. Len(c) /\ d[j] = c[j]
            \/ j > Len(c) /\ j - Len(c) \in 1 .. Len(e) /\ d[j] = e[j - Len(c)]
        BY <1>7
      <3>3. \A a \in 1 .. Len(c), b \in 1 .. Len(e) : c[a] # e[b]
        BY <1>1 DEF Apart
      <3>4. \A a, b \in 1 .. Len(c) : c[a] = c[b] => a = b
        BY <1>1 DEF Apart
      <3>5. \A a, b \in 1 .. Len(e) : e[a] = e[b] => a = b
        BY <1>1 DEF Apart
      <3>6. CASE i \in 1 .. Len(c) /\ d[i] = c[i]
        BY <2>1, <3>2, <3>3, <3>4, <3>6
      <3>7. CASE i > Len(c) /\ i - Len(c) \in 1 .. Len(e) /\ d[i] = e[i - Len(c)]
        <4>1. j > Len(c) /\ j - Len(c) \in 1 .. Len(e) /\ d[j] = e[j - Len(c)]
          BY <2>1, <3>2, <3>3, <3>7
        <4>2. i - Len(c) = j - Len(c)
          BY <2>1, <3>5, <3>7, <4>1
        <4> QED
          BY <1>1, <4>2
      <3> QED
        BY <3>1, <3>6, <3>7
    <2>2. ASSUME NEW i \in 1 .. Len(d), NEW o \in Lists \ {l, k}, NEW j \in 1 .. Len(contents[o])
          PROVE  d[i] # contents[o][j]
      <3>1. \A a \in 1 .. Len(c) : c[a] # contents[o][j]
        BY <1>1, <2>2 DEF Apart
      <3>2. \A a \in 1 .. Len(e) : e[a] # contents[o][j]
        BY <1>1, <2>2 DEF Apart
      <3>3. \/ i \in 1 .. Len(c) /\ d[i] = c[i]
            \/ i - Len(c) \in 1 .. Len(e) /\ d[i] = e[i - Len(c)]
        BY <1>7
      <3> QED
        BY <3>1, <3>2, <3>3
    <2>3. ASSUME NEW o \in Lists, NEW m \in Lists,
                 NEW i \in 1 .. Len(contents'[o]), NEW j \in 1 .. Len(contents'[m]),
                 contents'[o][i] = contents'[m][j]
          PROVE  o = m /\ i = j
      <3>1. o # k /\ m # k
        BY <1>5, <1>6, <2>3
      <3>2. CASE o = l /\ m = l
        BY <1>6, <2>1, <2>3, <3>2
      <3>3. CASE o = l /\ m # l
        BY <1>6, <2>2, <2>3, <3>1, <3>3
      <3>4. CASE o # l /\ m = l
        BY <1>6, <2>2, <2>3, <3>1, <3>4
      <3>5. CASE o # l /\ m # l
        <4>1. /\ contents'[o] = contents[o] /\ contents'[m] = contents[m]
              /\ i \in 1 .. Len(contents[o]) /\ j \in 1 .. Len(contents[m])
          BY <1>6, <2>3, <3>1, <3>5
        <4>2. contents[o][i] = contents[m][j]
          BY <2>3, <4>1
        <4> QED
          BY <1>1, <4>1, <4>2 DEF Apart
      <3> QED
        BY <3>2, <3>3, <3>4, <3>5
    <2> QED
      BY <2>3 DEF Apart
  <1>9. kind \in {"LL", "DL"} /\ Linked /\ WalkSound
    BY DEF Concat, LInv
  <1>10. PointersTyped /\ Holds(kind, l, c) /\ Holds(kind, k, e)
    BY <1>1, <1>9, ListHolds
  <1>11. \A i \in 1 .. Len(c), j \in 1 .. Len(e) : c[i] # e[j]
    BY <1>1 DEF Apart
  <1>12. /\ PointersTyped'
         /\ Represents(kind, head'[l], next', prev', d)
         /\ head'[k] = Null
         /\ \A o \in Lists \ {l, k} : head'[o] = head[o]
         /\ \A x \in Nodes :
              (\A i \in 1 .. Len(c) : c[i] # x) /\ (\A i \in 1 .. Len(e) : e[i] # x)
                => next'[x] = next[x] /\ prev'[x] = prev[x]
    <2>1. CASE kind = "LL"
      <3>1. LL_CONCAT(l, k)
        BY <2>1 DEF Concat
      <3> HIDE DEF c, e
      <3> QED
        BY <1>1, <1>2, <1>10, <1>11, <2>1, <3>1, LLConcat
    <2>2. CASE kind = "DL"
      <3>1. DL_CONCAT(l, k)
        BY <2>2 DEF Concat
      <3> HIDE DEF c, e
      <3> QED
        BY <1>1, <1>2, <1>10, <1>11, <2>2, <3>1, DLConcat
    <2> QED
      BY <1>9, <2>1, <2>2
  <1>13. TypeOK'
    BY <1>3, <1>6, <1>12 DEF LInv, TypeOK, PointersTyped, walkVars
  <1>14. Represents(kind, head'[k], next', prev', contents'[k])
    BY <1>5, <1>6, <1>12 DEF Represents, LinkedForward, LinkedBackward
  <1>15. ASSUME NEW o \in Lists \ {l, k}
        PROVE  Represents(kind, head'[o], next', prev', contents'[o])
    <2>1. contents'[o] = contents[o] /\ head'[o] = head[o]
      BY <1>6, <1>12
    <2>2. Represents(kind, head[o], next, prev, contents[o])
      BY <1>9 DEF Linked
    <2>3. ASSUME NEW i \in 1 .. Len(contents[o])
          PROVE  /\ next'[contents[o][i]] = next[contents[o][i]]
                 /\ prev'[contents[o][i]] = prev[contents[o][i]]
      <3>1. contents[o][i] \in Nodes
        BY <1>1, Elements DEF TypeOK
      <3>2. /\ \A j \in 1 .. Len(c) : c[j] # contents[o][i]
            /\ \A j \in 1 .. Len(e) : e[j] # contents[o][i]
        BY <1>1 DEF Apart
      <3> QED
        BY <1>12, <3>1, <3>2
    <2> QED
      BY <2>1, <2>2, <2>3, Untouched
  <1>16. Linked'
    BY <1>3, <1>6, <1>9, <1>12, <1>14, <1>15 DEF Linked
  <1>17. WalkSound'
    <2>1. walked # Null => contents'[walked] = contents[walked]
      BY <1>1, <1>6 DEF TypeOK
    <2> QED
      BY <1>3, <1>9, <2>1, WalkKept
  <1> QED
    BY <1>8, <1>13, <1>16, <1>17 DEF LInv

(* The pointers that the walk reads.                                       *)
LEMMA ListReads ==
  ASSUME NEW l \in Lists, NEW c, c = contents[l], TypeOK, Apart, Linked
  PROVE  /\ Len(c) \in Nat
         /\ \A i \in 1 .. Len(c) : c[i] \in Nodes
         /\ \A i, j \in 1 .. Len(c) : c[i] = c[j] => i = j
         /\ head[l] = IF Len(c) = 0 THEN Null ELSE c[1]
         /\ \A i \in 1 .. Len(c) :
              next[c[i]] = IF i < Len(c) THEN c[i + 1]
                           ELSE IF kind = "CDL" THEN c[1] ELSE Null
         /\ kind = "CDL" =>
              \A i \in 1 .. Len(c) : prev[c[i]] = IF i > 1 THEN c[i - 1] ELSE c[Len(c)]
  <1>1. c \in Seq(Nodes) /\ Once(c) /\ Represents(kind, head[l], next, prev, c)
    BY ListHolds DEF Linked
  <1>2. /\ Len(c) \in Nat
        /\ \A i \in 1 .. Len(c) : c[i] \in Nodes
        /\ c = <<>> <=> Len(c) = 0
    BY <1>1, Elements
  <1>3. head[l] = IF Len(c) = 0 THEN Null ELSE c[1]
    BY <1>1, <1>2 DEF Represents, LinkedForward
  <1>4. ASSUME NEW i \in 1 .. Len(c)
        PROVE  next[c[i]] = IF i < Len(c) THEN c[i + 1]
                            ELSE IF kind = "CDL" THEN c[1] ELSE Null
    BY <1>1, <1>2, <1>3 DEF Represents, LinkedForward, EndOf
  <1>5. kind = "CDL" =>
          \A i \in 1 .. Len(c) : prev[c[i]] = IF i > 1 THEN c[i - 1] ELSE c[Len(c)]
    BY <1>1 DEF Represents, LinkedBackward
  <1> QED
    BY <1>1, <1>2, <1>3, <1>4, <1>5 DEF Once

LEMMA WalkBeginsStep ==
  ASSUME LInv, NEW l \in Lists, WalkBegins(l)
  PROVE  LInv'
  <1> DEFINE c == contents[l]
             n == Len(c)
  <1>1. /\ TypeOK /\ Apart /\ walked' = l /\ el' = head[l] /\ todo' = c
        /\ tmp' = IF head[l] = Null THEN tmp ELSE next[head[l]]
        /\ tmp1' = IF kind = "CDL" /\ head[l] # Null THEN prev[head[l]] ELSE Null
        /\ UNCHANGED <<kind, pointers, contents>>
    BY DEF LInv, WalkBegins, ComesTo
  <1>2. UNCHANGED <<kind, head, next, prev, contents>>
    BY <1>1 DEF pointers
  <1>3. TypeOK'
    BY <1>1, <1>2 DEF TypeOK, Cells
  <1>4. Apart'
    BY <1>1, <1>2 DEF Apart
  <1>5. Linked' /\ WalkSound'
    <2>1. Linked
      BY DEF LInv
    <2>2. Linked'
      BY <1>2, <2>1 DEF Linked
    <2>3. /\ n \in Nat
          /\ \A i \in 1 .. n : c[i] \in Nodes
          /\ \A i, j \in 1 .. n : c[i] = c[j] => i = j
          /\ head[l] = IF n = 0 THEN Null ELSE c[1]
          /\ \A i \in 1 .. n :
               next[c[i]] = IF i < n THEN c[i + 1] ELSE IF kind = "CDL" THEN c[1] ELSE Null
          /\ kind = "CDL" => \A i \in 1 .. n : prev[c[i]] = IF i > 1 THEN c[i - 1] ELSE c[n]
      BY <1>1, <2>1, ListReads
    <2>4. contents'[walked'] = c /\ kind' = kind /\ Len(todo') = n
      BY <1>1, <1>2
    <2> HIDE DEF c, n
    <2>5. el' = IF n = 0 THEN Null ELSE todo'[1]
      BY <1>1, <2>3
    <2>6. n > 1 => tmp' = todo'[2]
      BY <1>1, <2>3, NullAssumption
    <2>7. n = 1 /\ kind # "CDL" => tmp' = Null
      BY <1>1, <2>3, NullAssumption
    <2>8. n > 0 /\ kind = "CDL" => tmp1' = todo'[n]
      BY <1>1, <2>3, NullAssumption
    <2>9. \A i \in 2 .. n : todo'[i] = c[(n - n) + i]
      BY <1>1, <2>3
    <2>10. n - 1 <= n /\ \A i, j \in 1 .. n : todo'[i] = todo'[j] => i = j
      BY <1>1, <2>3
    <2>11. Len(c) = n
      BY DEF n
    <2> QED
      BY <2>2, <2>4, <2>5, <2>6, <2>7, <2>8, <2>9, <2>10, <2>11 DEF WalkSound
  <1> QED
    BY <1>2, <1>3, <1>4, <1>5 DEF LInv

LEMMA WalkGoesOnStep ==
  ASSUME LInv, WalkGoesOn
  PROVE  LInv'
  <1> DEFINE c == contents[walked]
             n == Len(c)
             m == Len(todo)
             x == IF kind = "CDL" /\ el = tmp1 THEN Null ELSE tmp
  <1>1. /\ TypeOK /\ Apart /\ walked # Null /\ el # Null
        /\ el' = x /\ tmp' = IF x = Null THEN tmp ELSE next[x]
        /\ todo' = SubSeq(todo, 2, m)
        /\ walked' = walked /\ tmp1' = tmp1 /\ UNCHANGED <<kind, pointers, contents>>
    BY DEF LInv, WalkGoesOn, ComesTo, Following
  <1>2. UNCHANGED <<kind, head, next, prev, contents>>
    BY <1>1 DEF pointers
  <1>3. x \in Cells
    BY <1>1 DEF TypeOK, Cells
  <1>4. /\ todo \in Seq(Nodes) /\ m \in Nat
        /\ \A i \in 1 .. m : todo[i] \in Nodes
    BY <1>1, Elements DEF TypeOK
  <1>5. /\ SubSeq(todo, 2, m) \in Seq(Nodes)
        /\ Len(SubSeq(todo, 2, m)) = IF 2 <= m THEN (m - 2) + 1 ELSE 0
        /\ \A i \in 1 .. (m - 2) + 1 : SubSeq(todo, 2, m)[i] = todo[(2 + i) - 1]
    <2>1. 2 \in Int /\ m \in Int /\ \A i \in 2 .. m : todo[i] \in Nodes
      BY <1>4
    <2> QED
      BY <1>4, <2>1, SubSeqProperties
  <1> HIDE DEF x
  <1>6. TypeOK'
    <2>1. tmp' \in Cells
      BY <1>1, <1>3 DEF TypeOK, Cells
    <2> QED
      BY <1>1, <1>2, <1>3, <1>5, <2>1 DEF TypeOK
  <1>7. Apart'
    BY <1>1, <1>2 DEF Apart
  <1>8. Linked' /\ WalkSound'
    <2>1. Linked /\ WalkSound /\ walked \in Lists
      BY <1>1 DEF LInv, TypeOK
    <2>2. Linked'
      BY <1>2, <2>1 DEF Linked
    <2>3. /\ el = IF m = 0 THEN Null ELSE todo[1]
          /\ \A i, j \in 1 .. m : todo[i] = todo[j] => i = j
          /\ m - 1 <= n
          /\ \A i \in 2 .. m : todo[i] = c[(n - m) + i]
          /\ m > 1 => tmp = todo[2]
          /\ m = 1 /\ kind # "CDL" => tmp = Null
          /\ m > 0 /\ kind = "CDL" => tmp1 = todo[m]
      BY <1>1, <2>1 DEF WalkSound
    <2>4. kind = "CDL" \/ kind # "CDL"
      OBVIOUS
    <2>5. /\ n \in Nat
          /\ \A i \in 1 .. n : c[i] \in Nodes
          /\ \A i \in 1 .. n :
               next[c[i]] = IF i < n THEN c[i + 1] ELSE IF kind = "CDL" THEN c[1] ELSE Null
      BY <1>1, <2>1, ListReads
    <2>6. m >= 1 /\ m \in Nat /\ 1 \in 1 .. m /\ m \in 1 .. m
      BY <1>1, <1>4, <2>3
    <2>7. contents'[walked'] = c /\ kind' = kind
      BY <1>1, <1>2
    <2>8. /\ Len(todo') = m - 1
          /\ \A i \in 1 .. m - 1 : todo'[i] = todo[i + 1]
      <3>1. \A i \in 1 .. m - 1 : (2 + i) - 1 = i + 1 /\ i \in 1 .. (m - 2) + 1
        BY <2>6
      <3>2. Len(todo') = m - 1
        BY <1>1, <1>5, <2>6
      <3> QED
        BY <1>1, <1>5, <3>1, <3>2
    <2> HIDE DEF m, n, c
    <2>9. x = IF m = 1 THEN Null ELSE todo[2]
      <3>1. CASE m = 1
        BY <2>3, <2>4, <3>1 DEF x
      <3>2. CASE m > 1
        <4>1. kind = "CDL" => el # tmp1
          BY <2>3, <2>6, <3>2
        <4> QED
          BY <2>3, <3>2, <4>1 DEF x
      <3> QED
        BY <2>6, <3>1, <3>2
    <2>10. el' = IF m - 1 = 0 THEN Null ELSE todo'[1]
      <3>1. m > 1 => 1 \in 1 .. m - 1 /\ 1 + 1 = 2
        BY <2>6
      <3> QED
        BY <1>1, <2>6, <2>8, <2>9, <3>1
    <2>11. \A i, j \in 1 .. m - 1 : todo'[i] = todo'[j] => i = j
      <3> SUFFICES ASSUME NEW i \in 1 .. m - 1, NEW j \in 1 .. m - 1, todo'[i] = todo'[j]
                   PROVE  i = j
        OBVIOUS
      <3>1. i + 1 \in 1 .. m /\ j + 1 \in 1 .. m
        BY <2>6
      <3>2. i + 1 = j + 1
        BY <2>3, <2>8, <3>1
      <3> QED
        BY <2>6, <3>2
    <2>12. (m - 1) - 1 <= n
      BY <2>3, <2>5, <2>6
    <2>13. ASSUME NEW i \in 2 .. m - 1 PROVE todo'[i] = c[(n - (m - 1)) + i]
      <3>1. i \in 1 .. m - 1 /\ i + 1 \in 2 .. m /\ (n - m) + (i + 1) = (n - (m - 1)) + i
        BY <2>5, <2>6
      <3> QED
        BY <2>3, <2>8, <3>1
    <2> DEFINE p == (n - m) + 2
    <2>14. m > 1 => p \in 1 .. n /\ x = c[p] /\ x # Null /\ tmp' = next[c[p]]
      <3> SUFFICES ASSUME m > 1
                   PROVE  p \in 1 .. n /\ x = c[p] /\ x # Null /\ tmp' = next[c[p]]
        OBVIOUS
      <3>1. 2 \in 2 .. m /\ (n - m) + 2 \in 1 .. n
        BY <2>3, <2>5, <2>6
      <3>2. x = c[(n - m) + 2] /\ x \in Nodes
        BY <2>3, <2>5, <2>6, <2>9, <3>1
      <3> QED
        BY <1>1, <3>1, <3>2, NullAssumption
    <2>15. m - 1 > 1 => tmp' = todo'[2]
      <3> SUFFICES ASSUME m > 2 PROVE tmp' = todo'[2]
        BY <2>6
      <3>1. /\ (n - m) + 2 < n /\ ((n - m) + 2) + 1 = (n - m) + 3
            /\ 3 \in 2 .. m /\ 2 \in 1 .. m - 1 /\ 2 + 1 = 3 /\ m > 1
        BY <2>5, <2>6
      <3>2. tmp' = c[(n - m) + 3]
        BY <2>5, <2>14, <3>1
      <3>3. todo'[2] = c[(n - m) + 3]
        BY <2>3, <2>8, <3>1
      <3> QED
        BY <3>2, <3>3
    <2>16. m - 1 = 1 /\ kind # "CDL" => tmp' = Null
      <3> SUFFICES ASSUME m = 2, kind # "CDL" PROVE tmp' = Null
        BY <2>6
      <3>1. (n - m) + 2 = n /\ m > 1
        BY <2>5
      <3> QED
        BY <2>5, <2>14, <3>1
    <2>17. m - 1 > 0 /\ kind = "CDL" => tmp1' = todo'[m - 1]
      <3> SUFFICES ASSUME m - 1 > 0, kind = "CDL" PROVE tmp1' = todo'[m - 1]
        OBVIOUS
      <3>1. m - 1 \in 1 .. m - 1 /\ (m - 1) + 1 = m
        BY <2>6
      <3> QED
        BY <1>1, <2>3, <2>6, <2>8, <3>1
    <2>18. Len(c) = n /\ walked' # Null
      BY <1>1 DEF n
    <2> QED
      BY <2>2, <2>7, <2>8, <2>10, <2>11, <2>12, <2>13, <2>15, <2>16, <2>17, <2>18
         DEF WalkSound
  <1> QED
    BY <1>2, <1>6, <1>7, <1>8 DEF LInv

LEMMA WalkEndsStep ==
  ASSUME LInv, WalkEnds
  PROVE  LInv'
  <1>1. /\ walked' = Null /\ tmp' = Null /\ tmp1' = Null
        /\ UNCHANGED <<kind, head, next, prev, contents, el, todo>>
    BY DEF WalkEnds, pointers
  <1>2. TypeOK' /\ Apart'
    BY <1>1 DEF LInv, TypeOK, Apart, Cells
  <1>3. Linked' /\ WalkSound'
    BY <1>1 DEF LInv, Linked, WalkSound
  <1> QED
    BY <1>1, <1>2, <1>3 DEF LInv

LEMMA Inductive == LInv /\ [Next]_vars => LInv'
  <1> SUFFICES ASSUME LInv, [Next]_vars PROVE LInv'
    OBVIOUS
  <1>1. ASSUME NEW l \in Lists, NEW x \in Nodes, Prepend(l, x) PROVE LInv'
    BY <1>1, PrependStep
  <1>2. ASSUME NEW l \in Lists, NEW x \in Nodes, AppendTo(l, x) PROVE LInv'
    BY <1>2, AppendStep
  <1>3. ASSUME NEW l \in Lists, NEW x \in Nodes, Delete(l, x) PROVE LInv'
    BY <1>3, DeleteStep
  <1>4. ASSUME NEW l \in Lists, NEW x \in Nodes, DeleteMissing(l, x) PROVE LInv'
    BY <1>4, DeleteMissingStep
  <1>5. ASSUME NEW l \in Lists, NEW x \in Nodes, NEW add \in Nodes, Replace(l, x, add)
        PROVE  LInv'
    BY <1>5, ReplaceStep
  <1>6. ASSUME NEW l \in Lists, NEW x \in Nodes, NEW add \in Nodes, PrependElem(l, x, add)
        PROVE  LInv'
    BY <1>6, PrependElemStep
  <1>7. ASSUME NEW l \in Lists, NEW k \in Lists, Concat(l, k) PROVE LInv'
    BY <1>7, ConcatStep
  <1>8. ASSUME NEW l \in Lists, WalkBegins(l) PROVE LInv'
    BY <1>8, WalkBeginsStep
  <1>9. CASE WalkGoesOn
    BY <1>9, WalkGoesOnStep
  <1>10. CASE WalkEnds
    BY <1>10, WalkEndsStep
  <1>11. CASE UNCHANGED vars
    BY <1>11, NothingStep
  <1> QED
    BY <1>1, <1>2, <1>3, <1>4, <1>5, <1>6, <1>7, <1>8, <1>9, <1>10, <1>11 DEF Next

LEMMA Invariance == Spec => []LInv
  BY InitSound, Inductive, PTL DEF Spec

(* Every variable keeps its type, in lists of every kind: no macro stores  *)
(* what is neither an element nor null (utlist.h).                         *)
THEOREM TypeCorrect == Spec => []TypeOK
  <1>1. LInv => TypeOK
    BY DEF LInv
  <1> QED
    BY <1>1, Invariance, PTL

(* No element is in two lists or twice in one, if the caller adds only     *)
(* elements that are in none.                                              *)
THEOREM ElementsApart == Spec => []Apart
  <1>1. LInv => Apart
    BY DEF LInv
  <1> QED
    BY <1>1, Invariance, PTL

(* After every macro each list is linked forwards as its contents say, and *)
(* backwards if its elements have a prev pointer: a macro never loses an   *)
(* element, never joins two lists and never touches a third one.           *)
THEOREM PointersSound == Spec => []Linked
  <1>1. LInv => Linked
    BY DEF LInv
  <1> QED
    BY <1>1, Invariance, PTL

(* The _FOREACH_SAFE macros come to each element once and in order, also   *)
(* if the body deletes the one it has come to.                             *)
LEMMA WalkVisits ==
  ASSUME TypeOK, WalkSound
  PROVE  VisitsEach
  <1> SUFFICES ASSUME walked # Null PROVE el = IF todo = <<>> THEN Null ELSE Head(todo)
    BY DEF VisitsEach
  <1>1. el = IF Len(todo) = 0 THEN Null ELSE todo[1]
    BY DEF WalkSound
  <1>2. todo \in Seq(Nodes)
    BY DEF TypeOK
  <1>3. todo = <<>> <=> Len(todo) = 0
    BY <1>2, Elements
  <1>4. todo # <<>> => Head(todo) = todo[1]
    BY <1>2
  <1> QED
    BY <1>1, <1>3, <1>4

(* A walk of a program has always come to the first element it still ought *)
(* to meet, or to the end, in lists of every kind, whatever the body did   *)
(* with the elements before (LL_, DL_ and CDL_FOREACH_SAFE).               *)
THEOREM WalksSound == Spec => []VisitsEach
  <1>1. LInv => VisitsEach
    BY WalkVisits DEF LInv
  <1> QED
    BY <1>1, Invariance, PTL
=============================================================================
