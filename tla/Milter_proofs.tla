---------------------------- MODULE Milter_proofs ----------------------------
(***************************************************************************)
(* What Milter guarantees for any number of sessions and descriptors,      *)
(* whatever the callbacks call and whatever the binding does.              *)
(***************************************************************************)
EXTENDS Milter, FiniteSetTheorems, SequenceTheorems, TLAPS

-----------------------------------------------------------------------------
(* Sequences.                                                              *)

(* What is on top of a stack, and below it, after a push.                  *)
LEMMA Pushed ==
  ASSUME NEW S, NEW q \in Seq(S), NEW e \in S
  PROVE  /\ Cons(e, q) \in Seq(S)
         /\ Len(Cons(e, q)) = Len(q) + 1
         /\ Cons(e, q)[1] = e
         /\ \A i \in 1 .. Len(q) : Cons(e, q)[i + 1] = q[i]
         /\ \A i \in 2 .. Len(q) + 1 : Cons(e, q)[i] = q[i - 1]
         /\ Cons(e, q) # <<>>
         /\ Head(Cons(e, q)) = e /\ Tail(Cons(e, q)) = q
  <1>1. <<e>> \in Seq(S) /\ Len(<<e>>) = 1 /\ <<e>>[1] = e
    OBVIOUS
  <1>2. Len(q) \in Nat
    BY LenProperties
  <1>3. /\ Cons(e, q) \in Seq(S)
        /\ Len(Cons(e, q)) = 1 + Len(q)
        /\ \A i \in 1 .. 1 + Len(q) :
             Cons(e, q)[i] = IF i <= 1 THEN <<e>>[i] ELSE q[i - 1]
    BY <1>1, ConcatProperties DEF Cons
  <1> DEFINE c == Cons(e, q)
  <1> HIDE DEF c
  <1>4. c \in Seq(S) /\ Len(c) = Len(q) + 1 /\ c[1] = e
        /\ \A i \in 2 .. Len(q) + 1 : c[i] = q[i - 1]
    BY <1>1, <1>2, <1>3 DEF c
  <1>5. \A i \in 1 .. Len(q) : c[i + 1] = q[i]
    BY <1>2, <1>4
  <1>6. c # <<>>
    BY <1>2, <1>4, EmptySeq
  <1>7. Head(c) = e
    BY <1>4, <1>6
  <1>8. Tail(c) = q
    <2>1. Tail(c) \in Seq(S) /\ Len(Tail(c)) = Len(q)
          /\ \A i \in 1 .. Len(q) : Tail(c)[i] = c[i + 1]
      BY <1>2, <1>4, <1>6, HeadTailProperties
    <2> QED
      BY <1>5, <2>1, SeqEqual
  <1> QED
    BY <1>4, <1>5, <1>6, <1>7, <1>8 DEF c

(* What a pop leaves.                                                      *)
LEMMA Popped ==
  ASSUME NEW S, NEW q \in Seq(S), q # <<>>
  PROVE  /\ Head(q) = q[1] /\ Head(q) \in S
         /\ Tail(q) \in Seq(S)
         /\ Len(q) \in Nat /\ Len(q) >= 1
         /\ Len(Tail(q)) = Len(q) - 1
         /\ \A i \in 1 .. Len(Tail(q)) : Tail(q)[i] = q[i + 1]
  BY HeadTailProperties, LenProperties, EmptySeq

(* A queue without the link of one of its elements.                        *)
LEMMA LinkRemoved ==
  ASSUME NEW S, NEW q \in Seq(S), IsInjective(q), NEW k \in 1 .. Len(q)
  PROVE  /\ RemoveAt(q, k) \in Seq(S)
         /\ Range(RemoveAt(q, k)) = Range(q) \ {q[k]}
         /\ IsInjective(RemoveAt(q, k))
  <1> DEFINE n == Len(q)
             a == SubSeq(q, 1, k - 1)
             b == SubSeq(q, k + 1, n)
             r == RemoveAt(q, k)
  <1>1. n \in Nat /\ k \in Nat /\ k >= 1 /\ k <= n /\ DOMAIN q = 1 .. n
    BY LenProperties
  <1>2. \A i \in 1 .. n : q[i] \in S
    BY ElementOfSeq
  <1> HIDE DEF n
  <1>3. /\ a \in Seq(S) /\ Len(a) = k - 1
        /\ \A i \in 1 .. k - 1 : a[i] = q[i]
    <2>1. \A i \in 1 .. k - 1 : q[i] \in S
      BY <1>1, <1>2
    <2>2. 1 \in Int /\ k - 1 \in Int
      BY <1>1
    <2>3. /\ a \in Seq(S)
          /\ Len(a) = IF 1 <= k - 1 THEN ((k - 1) - 1) + 1 ELSE 0
          /\ \A i \in 1 .. ((k - 1) - 1) + 1 : a[i] = q[(1 + i) - 1]
      BY <2>1, <2>2, SubSeqProperties
    <2> QED
      BY <1>1, <2>3
  <1>4. /\ b \in Seq(S) /\ Len(b) = n - k
        /\ \A i \in 1 .. n - k : b[i] = q[k + i]
    <2>1. \A i \in k + 1 .. n : q[i] \in S
      BY <1>1, <1>2
    <2>2. k + 1 \in Int /\ n \in Int
      BY <1>1
    <2>3. /\ b \in Seq(S)
          /\ Len(b) = IF k + 1 <= n THEN (n - (k + 1)) + 1 ELSE 0
          /\ \A i \in 1 .. (n - (k + 1)) + 1 : b[i] = q[((k + 1) + i) - 1]
      BY <2>1, <2>2, SubSeqProperties
    <2> QED
      BY <1>1, <2>3
  <1>5. r = a \o b
    BY DEF RemoveAt, n
  <1> HIDE DEF a, b, r
  <1>6. /\ r \in Seq(S) /\ Len(r) = n - 1
        /\ \A i \in 1 .. n - 1 : r[i] = IF i < k THEN q[i] ELSE q[i + 1]
    <2>1. /\ a \o b \in Seq(S) /\ Len(a \o b) = Len(a) + Len(b)
          /\ \A i \in 1 .. Len(a) + Len(b) :
               (a \o b)[i] = IF i <= Len(a) THEN a[i] ELSE b[i - Len(a)]
      BY <1>3, <1>4, ConcatProperties
    <2>2. Len(a) + Len(b) = n - 1
      BY <1>1, <1>3, <1>4
    <2>3. ASSUME NEW i \in 1 .. n - 1
          PROVE  r[i] = IF i < k THEN q[i] ELSE q[i + 1]
      <3>1. CASE i < k
        BY <1>1, <1>3, <1>5, <2>1, <2>2, <2>3, <3>1
      <3>2. CASE ~(i < k)
        <4>1. r[i] = b[i - (k - 1)]
          BY <1>1, <1>3, <1>5, <2>1, <2>2, <2>3, <3>2
        <4>2. i - (k - 1) \in 1 .. n - k /\ k + (i - (k - 1)) = i + 1
          BY <1>1, <2>3, <3>2
        <4> QED
          BY <1>4, <3>2, <4>1, <4>2
      <3> QED
        BY <3>1, <3>2
    <2> QED
      BY <1>5, <2>1, <2>2, <2>3
  <1>7. DOMAIN r = 1 .. n - 1
    BY <1>6, LenProperties
  <1>8. \A i, j \in 1 .. n : q[i] = q[j] => i = j
    BY <1>1 DEF IsInjective
  <1>9. Range(r) = Range(q) \ {q[k]}
    <2>1. ASSUME NEW i \in 1 .. n - 1 PROVE r[i] \in Range(q) \ {q[k]}
      <3>1. PICK j \in 1 .. n : j # k /\ r[i] = q[j]
        BY <1>1, <1>6, <2>1
      <3> QED
        BY <1>1, <1>8, <3>1 DEF Range
    <2>2. ASSUME NEW j \in 1 .. n, q[j] # q[k] PROVE q[j] \in Range(r)
      <3>1. CASE j < k
        BY <1>1, <1>6, <1>7, <2>2, <3>1 DEF Range
      <3>2. CASE j > k
        <4>1. j - 1 \in 1 .. n - 1 /\ ~(j - 1 < k) /\ (j - 1) + 1 = j
          BY <1>1, <2>2, <3>2
        <4>2. r[j - 1] = q[j]
          BY <1>6, <4>1
        <4> QED
          BY <1>7, <4>1, <4>2 DEF Range
      <3> QED
        BY <1>1, <2>2, <3>1, <3>2
    <2> QED
      BY <1>1, <1>7, <2>1, <2>2 DEF Range
  <1>10. IsInjective(r)
    <2> SUFFICES ASSUME NEW i \in 1 .. n - 1, NEW j \in 1 .. n - 1, r[i] = r[j]
                 PROVE  i = j
      BY <1>7 DEF IsInjective
    <2> QED
      BY <1>1, <1>6, <1>8
  <1> QED
    BY <1>6, <1>9, <1>10 DEF r

-----------------------------------------------------------------------------
(* The live sessions.                                                      *)

(* There are finitely many live sessions, and 0 if and only if none.        *)
LEMMA LiveFinite ==
  /\ IsFiniteSet(Live)
  /\ Cardinality(Live) \in Nat
  /\ Cardinality(Live) = 0 <=> Live = {}
  <1>1. Live \in SUBSET Sessions
    BY DEF Live
  <1>2. IsFiniteSet(Live)
    BY <1>1, SessionsAssumption, FS_Subset
  <1> QED
    BY <1>2, FS_CardinalityType, FS_EmptySet

(* A session that is created or freed changes their number by one.         *)
LEMMA LiveGrows ==
  ASSUME NEW s \in Sessions, st \in [Sessions -> {"new", "live", "freed"}],
         st[s] = "new", st' = [st EXCEPT ![s] = "live"]
  PROVE  /\ Live' = Live \cup {s}
         /\ s \notin Live
         /\ Cardinality(Live') = Cardinality(Live) + 1
  <1>1. Live' = Live \cup {s} /\ s \notin Live
    BY DEF Live
  <1> QED
    BY <1>1, LiveFinite, FS_AddElement

(* The destructor of a session leaves one live session less.               *)
LEMMA LiveShrinks ==
  ASSUME NEW s \in Sessions, st \in [Sessions -> {"new", "live", "freed"}],
         st[s] = "live", st' = [st EXCEPT ![s] = "freed"]
  PROVE  /\ Live' = Live \ {s}
         /\ s \in Live
         /\ Cardinality(Live') = Cardinality(Live) - 1
  <1>1. Live' = Live \ {s} /\ s \in Live
    BY DEF Live
  <1> QED
    BY <1>1, LiveFinite, FS_RemoveElement

-----------------------------------------------------------------------------
(* The inductive invariant.                                                *)

(* The invariant holds before rmilter_create.                              *)
LEMMA InitInductive == Init => IInv
  <1> SUFFICES ASSUME Init PROVE IInv
    OBVIOUS
  <1>1. Live = {}
    BY DEF Init, Live
  <1>2. queue \in Seq(Sessions) /\ stack \in Seq(Frames)
        /\ Len(stack) = 0 /\ Len(queue) = 0
    BY EmptySeq DEF Init
  <1>3. TypeOK
    <2>1. /\ cb \in [abort : BOOLEAN, log : BOOLEAN, close : BOOLEAN]
          /\ wanna_die \in BOOLEAN /\ held \in BOOLEAN
      BY DEF Init
    <2>2. /\ mst \in {"absent", "live", "freed"} /\ ref \in Nat
          /\ st \in [Sessions -> {"new", "live", "freed"}]
          /\ fd \in [Sessions -> FDs \cup {NoFd}]
          /\ ud \in [Sessions -> UserData \cup {NoData}]
          /\ given \in [Sessions -> UserData \cup {NoData}]
          /\ closes \in [Sessions -> Nat]
      BY DEF Init
    <2>3. /\ events \subseteq Sessions \X Kinds
          /\ owner \in [FDs -> {"closed", "app", "milter"}]
          /\ sock \in [FDs -> {"quiet", "data", "eof", "error"}]
          /\ fault \in {"none", "null_call", "use_after_free", "assert",
                        "wild_link", "loop_freed"}
      BY DEF Init
    <2> QED
      BY <1>2, <2>1, <2>2, <2>3 DEF TypeOK
  <1>4. RefCountExact
    BY <1>1 DEF Init, RefCountExact
  <1>5. QueueHoldsLive
    <2>1. DOMAIN queue = {}
      BY <1>2, LenProperties
    <2> QED
      BY <1>1, <2>1 DEF QueueHoldsLive, Range, IsInjective
  <1>6. EventsHoldLive
    BY <1>1 DEF Init, EventsHoldLive
  <1>7. DescriptorsOwned
    BY <1>1 DEF Init, DescriptorsOwned
  <1>8. HeldUntilDestroyed /\ FaultsExplained
    BY DEF Init, HeldUntilDestroyed, FaultsExplained
  <1>9. OneDestroy /\ StackSound
    BY <1>2 DEF OneDestroy, StackSound
  <1> QED
    BY <1>3, <1>4, <1>5, <1>6, <1>7, <1>8, <1>9 DEF IInv

(* The functions that wait for a callback are frames, also below the top.  *)
LEMMA StackTyped ==
  ASSUME TypeOK
  PROVE  /\ Len(stack) \in Nat
         /\ \A i \in 1 .. Len(stack) : stack[i] \in Frames /\ stack[i].s \in Sessions
  <1>1. stack \in Seq(Frames)
    BY DEF TypeOK
  <1>2. \A i \in 1 .. Len(stack) : stack[i] \in Frames
    BY <1>1, ElementOfSeq
  <1> QED
    BY <1>1, <1>2, LenProperties DEF Frames

(* What of the invariant a step keeps that changes neither the milter nor  *)
(* the sessions' memory.                                                   *)
LEMMA Kept ==
  ASSUME IInv, UNCHANGED <<milterVars, queue, st, fd, events>>
  PROVE  /\ RefCountExact' /\ QueueHoldsLive' /\ EventsHoldLive'
         /\ HeldUntilDestroyed' /\ Live' = Live
         /\ UNCHANGED owner => DescriptorsOwned'
         /\ UNCHANGED stack => OneDestroy' /\ StackSound'
         /\ UNCHANGED <<cb, fault>> => FaultsExplained'
  <1>1. /\ mst' = mst /\ ref' = ref /\ wanna_die' = wanna_die /\ held' = held
        /\ queue' = queue /\ st' = st /\ fd' = fd /\ events' = events
    BY DEF milterVars
  <1>2. Live' = Live
    BY <1>1 DEF Live
  <1>3. RefCountExact' /\ QueueHoldsLive' /\ EventsHoldLive' /\ HeldUntilDestroyed'
    BY <1>1, <1>2
       DEF IInv, RefCountExact, QueueHoldsLive, EventsHoldLive, HeldUntilDestroyed
  <1>4. UNCHANGED owner => DescriptorsOwned'
    BY <1>1, <1>2 DEF IInv, DescriptorsOwned
  <1>5. UNCHANGED stack => OneDestroy' /\ StackSound'
    BY <1>1 DEF IInv, OneDestroy, StackSound, Reentered
  <1>6. UNCHANGED <<cb, fault>> => FaultsExplained'
    BY <1>1 DEF IInv, FaultsExplained
  <1> QED
    BY <1>2, <1>3, <1>4, <1>5, <1>6

(* rmilter_create keeps the invariant.                                     *)
LEMMA CreateStep == IInv /\ Create => IInv'
  <1> SUFFICES ASSUME IInv, Create PROVE IInv'
    OBVIOUS
  <1>1. /\ mst = "absent" /\ mst' = "live" /\ ref' = 1 /\ held' = TRUE
        /\ wanna_die' = wanna_die /\ stack' = stack /\ fault' = fault
        /\ UNCHANGED <<cb, sessionVars, fdVars>>
    BY DEF Create
  <1>2. /\ queue' = queue /\ st' = st /\ fd' = fd /\ ud' = ud /\ given' = given
        /\ closes' = closes /\ events' = events /\ owner' = owner /\ sock' = sock
        /\ cb' = cb
    BY <1>1 DEF sessionVars, fdVars
  <1>3. Live' = Live /\ Live = {} /\ Cardinality(Live) = 0
    <2>1. Live' = Live
      BY <1>2 DEF Live
    <2>2. Live = {}
      BY <1>1 DEF IInv, RefCountExact
    <2> QED
      BY <2>1, <2>2, FS_EmptySet
  <1>4. TypeOK'
    BY <1>1, <1>2 DEF IInv, TypeOK
  <1>5. RefCountExact'
    BY <1>1, <1>3 DEF RefCountExact
  <1>6. QueueHoldsLive' /\ EventsHoldLive' /\ DescriptorsOwned'
    BY <1>2, <1>3 DEF IInv, QueueHoldsLive, EventsHoldLive, DescriptorsOwned
  <1>7. HeldUntilDestroyed'
    BY <1>1 DEF HeldUntilDestroyed
  <1>8. OneDestroy' /\ StackSound' /\ FaultsExplained'
    BY <1>1, <1>2 DEF IInv, OneDestroy, StackSound, Reentered, FaultsExplained
  <1> QED
    BY <1>4, <1>5, <1>6, <1>7, <1>8 DEF IInv

(* rmilter_consume_socket keeps the invariant.                             *)
LEMMA ConsumeStep ==
  ASSUME IInv, NEW s \in Sessions, NEW f \in FDs, NEW u \in UserData,
         Consume(s, f, u)
  PROVE  IInv'
  <1>1. /\ mst = "live" /\ held /\ owner[f] = "app" /\ st[s] = "new"
        /\ st' = [st EXCEPT ![s] = "live"]
        /\ fd' = [fd EXCEPT ![s] = f]
        /\ given' = [given EXCEPT ![s] = u]
        /\ owner' = [owner EXCEPT ![f] = "milter"]
        /\ ref' = ref + 1
        /\ queue' = Cons(s, queue)
        /\ events' = events \cup ({s} \X Kinds)
        /\ cb' = cb /\ mst' = mst /\ wanna_die' = wanna_die /\ held' = held
        /\ ud' = ud /\ closes' = closes /\ sock' = sock /\ stack' = stack
        /\ fault' = fault
    BY DEF Consume, Retained, Added
  <1>2. /\ Live' = Live \cup {s} /\ s \notin Live
        /\ Cardinality(Live') = Cardinality(Live) + 1
    BY <1>1, LiveGrows DEF IInv, TypeOK
  <1>3. /\ queue' \in Seq(Sessions) /\ Len(queue') = Len(queue) + 1
        /\ queue'[1] = s
        /\ \A i \in 2 .. Len(queue) + 1 : queue'[i] = queue[i - 1]
        /\ \A i \in 1 .. Len(queue) : queue'[i + 1] = queue[i]
        /\ Len(queue) \in Nat
        /\ DOMAIN queue = 1 .. Len(queue) /\ DOMAIN queue' = 1 .. Len(queue')
    <2>1. queue \in Seq(Sessions)
      BY DEF IInv, TypeOK
    <2>2. queue' \in Seq(Sessions)
      BY <1>1, <2>1, Pushed
    <2> QED
      <3>1. /\ Len(queue') = Len(queue) + 1 /\ queue'[1] = s
            /\ \A i \in 2 .. Len(queue) + 1 : queue'[i] = queue[i - 1]
            /\ \A i \in 1 .. Len(queue) : queue'[i + 1] = queue[i]
        <4>1. queue' = Cons(s, queue)
          BY <1>1
        <4>2. /\ Len(Cons(s, queue)) = Len(queue) + 1 /\ Cons(s, queue)[1] = s
              /\ \A i \in 2 .. Len(queue) + 1 : Cons(s, queue)[i] = queue[i - 1]
              /\ \A i \in 1 .. Len(queue) : Cons(s, queue)[i + 1] = queue[i]
          <5>1. Len(Cons(s, queue)) = Len(queue) + 1
            BY <2>1, Pushed
          <5>2. Cons(s, queue)[1] = s
            BY <2>1, Pushed
          <5>3. \A i \in 2 .. Len(queue) + 1 : Cons(s, queue)[i] = queue[i - 1]
            BY <2>1, Pushed
          <5>4. \A i \in 1 .. Len(queue) : Cons(s, queue)[i + 1] = queue[i]
            BY <2>1, Pushed
          <5> QED
            BY <5>1, <5>2, <5>3, <5>4
        <4> QED
          BY <4>1, <4>2, Zenon
      <3>2. Len(queue) \in Nat /\ DOMAIN queue = 1 .. Len(queue)
        BY <2>1, LenProperties
      <3>3. DOMAIN queue' = 1 .. Len(queue')
        BY <2>2, LenProperties
      <3> QED
        BY <2>2, <3>1, <3>2, <3>3
  <1>4. TypeOK'
    <2>1. ref' \in Nat /\ st' \in [Sessions -> {"new", "live", "freed"}]
          /\ fd' \in [Sessions -> FDs \cup {NoFd}]
          /\ given' \in [Sessions -> UserData \cup {NoData}]
      BY <1>1 DEF IInv, TypeOK
    <2>2. owner' \in [FDs -> {"closed", "app", "milter"}]
      BY <1>1 DEF IInv, TypeOK
    <2>3. events' \subseteq Sessions \X Kinds
      BY <1>1 DEF IInv, TypeOK
    <2> QED
      BY <1>1, <1>3, <2>1, <2>2, <2>3 DEF IInv, TypeOK
  <1>5. RefCountExact'
    <2>1. /\ ref = Cardinality(Live) + 1 /\ Cardinality(Live) \in Nat
      BY <1>1, LiveFinite DEF IInv, RefCountExact
    <2>2. ref' = Cardinality(Live') + 1
      BY <1>1, <1>2, <2>1
    <2> QED
      BY <1>1, <2>2 DEF RefCountExact
  <1>6. QueueHoldsLive'
    <2>1. Range(queue) = Live /\ IsInjective(queue)
      BY DEF IInv, QueueHoldsLive
    <2>2. Range(queue') = Range(queue) \cup {s}
      <3>1. ASSUME NEW i \in 1 .. Len(queue') PROVE queue'[i] \in Range(queue) \cup {s}
        <4>1. CASE i = 1
          BY <1>3, <4>1
        <4>2. CASE i # 1
          <5>1. i - 1 \in 1 .. Len(queue) /\ queue'[i] = queue[i - 1]
            BY <1>3, <3>1, <4>2
          <5> QED
            BY <1>3, <5>1 DEF Range
        <4> QED
          BY <4>1, <4>2
      <3>2. ASSUME NEW i \in 1 .. Len(queue) PROVE queue[i] \in Range(queue')
        <4>1. i + 1 \in 1 .. Len(queue') /\ queue'[i + 1] = queue[i]
          BY <1>3, <3>2
        <4> QED
          BY <1>3, <4>1 DEF Range
      <3>3. s \in Range(queue')
        <4>1. 1 \in 1 .. Len(queue')
          BY <1>3
        <4> QED
          BY <1>3, <4>1 DEF Range
      <3> QED
        BY <1>3, <3>1, <3>2, <3>3 DEF Range
    <2>3. \A i \in 1 .. Len(queue) : queue[i] # s
      BY <1>2, <1>3, <2>1 DEF Range
    <2>4. IsInjective(queue')
      <3> SUFFICES ASSUME NEW i \in 1 .. Len(queue) + 1, NEW j \in 1 .. Len(queue) + 1,
                          queue'[i] = queue'[j]
                   PROVE  i = j
        BY <1>3 DEF IsInjective
      <3>1. \A k \in 1 .. Len(queue) + 1 :
              k = 1 \/ (k - 1 \in 1 .. Len(queue) /\ queue'[k] = queue[k - 1])
        BY <1>3
      <3>2. \A k, l \in 1 .. Len(queue) : queue[k] = queue[l] => k = l
        BY <1>3, <2>1 DEF IsInjective
      <3> QED
        BY <1>3, <2>3, <3>1, <3>2
    <2> QED
      BY <1>2, <2>1, <2>2, <2>4 DEF QueueHoldsLive
  <1>7. EventsHoldLive'
    BY <1>1, <1>2 DEF IInv, EventsHoldLive
  <1>8. DescriptorsOwned'
    <2>1. \A t \in Live : t # s /\ fd[t] \in FDs /\ owner[fd[t]] = "milter" /\ fd[t] # f
      BY <1>1, <1>2 DEF IInv, DescriptorsOwned
    <2>2. \A t \in Live : fd'[t] = fd[t] /\ owner'[fd[t]] = "milter"
      BY <1>1, <2>1 DEF IInv, TypeOK, Live
    <2>3. fd'[s] = f /\ owner'[f] = "milter"
          /\ \A g \in FDs : g # f => owner'[g] = owner[g]
      BY <1>1 DEF IInv, TypeOK
    <2> QED
      BY <1>2, <2>1, <2>2, <2>3 DEF IInv, DescriptorsOwned
  <1>9. HeldUntilDestroyed' /\ OneDestroy' /\ FaultsExplained'
    BY <1>1 DEF IInv, HeldUntilDestroyed, OneDestroy, FaultsExplained
  <1>10. StackSound'
    <2>1. \A i \in 1 .. Len(stack) : stack[i].s \in Sessions
      BY StackTyped DEF IInv
    <2>2. \A t \in Sessions : st[t] = "live" => st'[t] = "live"
      BY <1>1 DEF IInv, TypeOK
    <2> QED
      BY <1>1, <2>1, <2>2 DEF IInv, StackSound, Reentered
  <1> QED
    BY <1>4, <1>5, <1>6, <1>7, <1>8, <1>9, <1>10 DEF IInv

(* q is the stack `rest' with a call of f that waits for a callback of s.  *)
IsPush(q, f, s, rest) ==
  /\ q \in Seq(Frames)
  /\ Len(q) = Len(rest) + 1 /\ Len(rest) \in Nat
  /\ q[1].fn = f /\ q[1].s = s
  /\ \A i \in 1 .. Len(q) :
       i = 1 \/ (i - 1 \in 1 .. Len(rest) /\ q[i] = rest[i - 1])

(* Calling a function puts its frame on top of what was on the stack.      *)
LEMMA FramePushed ==
  ASSUME NEW s \in Sessions, NEW f \in {"abort", "log", "close", "destroy"},
         NEW rest \in Seq(Frames)
  PROVE  IsPush(Cons(Frame(f, s), rest), f, s, rest)
  <1> DEFINE e == Frame(f, s)
  <1>1. e \in Frames /\ e.fn = f /\ e.s = s
    BY DEF Frame, Frames
  <1> HIDE DEF e
  <1>2. Cons(e, rest) \in Seq(Frames)
    BY <1>1, Pushed
  <1>3. Len(Cons(e, rest)) = Len(rest) + 1
    BY <1>1, Pushed
  <1>4. Cons(e, rest)[1] = e
    BY <1>1, Pushed
  <1>5. \A i \in 2 .. Len(rest) + 1 : Cons(e, rest)[i] = rest[i - 1]
    BY <1>1, Pushed
  <1>6. Len(rest) \in Nat
    BY LenProperties
  <1>7. \A i \in 1 .. Len(rest) + 1 :
          i = 1 \/ (i \in 2 .. Len(rest) + 1 /\ i - 1 \in 1 .. Len(rest))
    BY <1>6
  <1>8. IsPush(Cons(e, rest), f, s, rest)
    BY <1>1, <1>2, <1>3, <1>4, <1>5, <1>6, <1>7 DEF IsPush
  <1> QED
    BY <1>8 DEF e

(* The log function or the close callback is called for a live session, on *)
(* top of functions that satisfy the invariant without it.                 *)
LEMMA FrameCalled ==
  ASSUME IInv, NEW s \in Live, NEW rest \in Seq(Frames),
         NEW f \in {"log", "close"},
         stack' = Cons(Frame(f, s), rest),
         closes' \in [Sessions -> Nat],
         UNCHANGED <<cb, ref, mst, queue, st, fd, ud, given, events, fdVars>>,
         UNCHANGED <<held, fault>>,
         wanna_die' \in BOOLEAN, wanna_die => wanna_die',
         mst # "absent" \/ wanna_die' = wanna_die,
         \A i \in 1 .. Len(rest) :
            /\ rest[i].fn = "destroy" => held /\ wanna_die'
            /\ rest[i].fn # "destroy" => Reentered',
         \A i, j \in 1 .. Len(rest) :
            rest[i].fn = "destroy" /\ rest[j].fn = "destroy" => i = j
  PROVE  IInv'
  <1>1. /\ cb' = cb /\ ref' = ref /\ mst' = mst /\ queue' = queue /\ st' = st
        /\ fd' = fd /\ ud' = ud /\ given' = given /\ events' = events
        /\ owner' = owner /\ sock' = sock /\ held' = held /\ fault' = fault
    BY DEF fdVars
  <1>2. s \in Sessions /\ st[s] = "live"
    BY DEF Live
  <1>3. /\ stack' \in Seq(Frames) /\ Len(stack') = Len(rest) + 1
        /\ Len(rest) \in Nat
        /\ stack'[1].fn # "destroy" /\ stack'[1].s = s
        /\ \A i \in 1 .. Len(stack') :
             i = 1 \/ (i - 1 \in 1 .. Len(rest) /\ stack'[i] = rest[i - 1])
    <2>1. IsPush(stack', f, s, rest)
      BY <1>2, FramePushed
    <2> QED
      BY <2>1 DEF IsPush
  <1>5. TypeOK'
    BY <1>1, <1>3 DEF IInv, TypeOK
  <1>6. Live' = Live
    BY <1>1 DEF Live
  <1>7. RefCountExact' /\ QueueHoldsLive' /\ EventsHoldLive' /\ DescriptorsOwned'
    BY <1>1, <1>6
       DEF IInv, RefCountExact, QueueHoldsLive, EventsHoldLive, DescriptorsOwned
  <1>8. HeldUntilDestroyed'
    BY <1>1 DEF IInv, HeldUntilDestroyed
  <1>9. FaultsExplained'
    BY <1>1 DEF IInv, FaultsExplained
  <1>11. OneDestroy'
    <2>1. \A i \in 1 .. Len(stack') : stack'[i].fn = "destroy" => held' /\ wanna_die'
      BY <1>1, <1>3
    <2>2. ASSUME NEW i \in 1 .. Len(stack'), NEW j \in 1 .. Len(stack'),
                 stack'[i].fn = "destroy", stack'[j].fn = "destroy"
          PROVE  i = j
      <3>1. i # 1 /\ j # 1
        BY <1>3, <2>2
      <3>2. i - 1 = j - 1
        BY <1>3, <2>2, <3>1
      <3> QED
        BY <1>3, <3>2
    <2> QED
      BY <2>1, <2>2 DEF OneDestroy
  <1>12. StackSound'
    BY <1>1, <1>2, <1>3 DEF StackSound
  <1> QED
    BY <1>5, <1>7, <1>8, <1>9, <1>11, <1>12 DEF IInv

(* The timer and a read of 0 bytes keep the invariant.                     *)
LEMMA DispatchStep ==
  ASSUME IInv, NEW s \in Sessions, ProcessTimer(s) \/ ReadZero(s)
  PROVE  IInv'
  <1>1. /\ stack = <<>> /\ stack' = Cons(Frame("log", s), <<>>)
        /\ UNCHANGED <<cb, milterVars, sessionVars, fdVars, fault>>
        /\ \E k \in Kinds : <<s, k>> \in events
    BY DEF ProcessTimer, ReadZero, CallLog, Dispatches, Kinds
  <1>2. s \in Live
    BY <1>1 DEF IInv, EventsHoldLive
  <1>3. <<>> \in Seq(Frames) /\ Len(<<>>) = 0
    BY EmptySeq
  <1>4. wanna_die' = wanna_die /\ wanna_die' \in BOOLEAN
        /\ UNCHANGED <<cb, ref, mst, queue, st, fd, ud, given, events, fdVars>>
        /\ UNCHANGED <<held, fault>> /\ closes' \in [Sessions -> Nat]
    BY <1>1 DEF IInv, TypeOK, milterVars, sessionVars
  <1>5. 1 .. Len(<<>>) = {}
    BY <1>3
  <1> QED
    BY <1>1, <1>2, <1>3, <1>4, <1>5, FrameCalled

(* A read that fails keeps the invariant, with or without abort callback.  *)
LEMMA ReadFailsStep ==
  ASSUME IInv, NEW s \in Sessions, ReadFails(s)
  PROVE  IInv'
  <1>1. /\ stack = <<>> /\ s \in Live
        /\ UNCHANGED <<cb, milterVars, sessionVars, fdVars>>
    BY DEF ReadFails, Dispatches, IInv, EventsHoldLive
  <1>2. /\ RefCountExact' /\ QueueHoldsLive' /\ EventsHoldLive'
        /\ HeldUntilDestroyed' /\ DescriptorsOwned'
        /\ UNCHANGED stack => OneDestroy' /\ StackSound'
        /\ UNCHANGED <<cb, fault>> => FaultsExplained'
    BY <1>1, Kept DEF sessionVars, fdVars
  <1>3. CASE cb.abort
    <2>1. stack' = <<Frame("abort", s)>> /\ fault' = fault
      BY <1>3 DEF ReadFails
    <2>2. /\ stack' \in Seq(Frames) /\ Len(stack') = 1
          /\ stack'[1].fn = "abort" /\ stack'[1].s = s
      BY <2>1 DEF Frame, Frames
    <2>3. TypeOK'
      BY <1>1, <2>1, <2>2 DEF IInv, TypeOK, milterVars, sessionVars, fdVars
    <2>4. OneDestroy'
      BY <2>2 DEF OneDestroy
    <2>5. StackSound'
      BY <1>1, <2>2 DEF StackSound, sessionVars, Live
    <2> QED
      BY <1>1, <1>2, <2>1, <2>3, <2>4, <2>5 DEF IInv
  <1>4. CASE ~cb.abort
    <2>1. stack' = stack /\ fault' = "null_call"
      BY <1>4 DEF ReadFails
    <2>2. TypeOK'
      BY <1>1, <2>1 DEF IInv, TypeOK, milterVars, sessionVars, fdVars
    <2>3. FaultsExplained'
      BY <1>1, <1>4, <2>1 DEF FaultsExplained
    <2> QED
      BY <1>2, <2>1, <2>2, <2>3 DEF IInv
  <1> QED
    BY <1>3, <1>4

(* What the invariant says of the functions below the innermost one.       *)
LEMMA BelowTop ==
  ASSUME IInv, stack # <<>>
  PROVE  /\ Tail(stack) \in Seq(Frames) /\ Len(Tail(stack)) \in Nat
         /\ Head(stack) \in Frames /\ Head(stack).s \in Sessions
         /\ Head(stack).fn = "destroy" => held /\ wanna_die
         /\ Head(stack).fn # "destroy" =>
              Reentered \/ st[Head(stack).s] = "live"
         /\ \A i \in 1 .. Len(Tail(stack)) :
              /\ Tail(stack)[i].fn = "destroy" =>
                   held /\ wanna_die /\ Head(stack).fn # "destroy"
              /\ Tail(stack)[i].fn # "destroy" => Reentered
         /\ \A i, j \in 1 .. Len(Tail(stack)) :
              Tail(stack)[i].fn = "destroy" /\ Tail(stack)[j].fn = "destroy" => i = j
  <1> DEFINE h == Head(stack)
             r == Tail(stack)
  <1>1. stack \in Seq(Frames)
    BY DEF IInv, TypeOK
  <1>2. /\ h = stack[1] /\ h \in Frames /\ r \in Seq(Frames)
        /\ Len(stack) \in Nat /\ Len(stack) >= 1 /\ Len(r) = Len(stack) - 1
        /\ \A i \in 1 .. Len(r) : r[i] = stack[i + 1]
    BY <1>1, Popped
  <1> HIDE DEF h, r
  <1>3. 1 \in 1 .. Len(stack)
        /\ \A i \in 1 .. Len(r) :
             i + 1 \in 1 .. Len(stack) /\ i + 1 # 1 /\ r[i] = stack[i + 1]
    BY <1>2
  <1>4. h.s \in Sessions
    BY <1>2 DEF Frames
  <1>5. /\ \A i \in 1 .. Len(stack) : stack[i].fn = "destroy" => held /\ wanna_die
        /\ \A i, j \in 1 .. Len(stack) :
             stack[i].fn = "destroy" /\ stack[j].fn = "destroy" => i = j
    BY DEF IInv, OneDestroy
  <1>6. \A i \in 1 .. Len(stack) :
          stack[i].fn # "destroy" =>
            Reentered \/ (i = 1 /\ st[stack[i].s] = "live")
    BY DEF IInv, StackSound
  <1>7. /\ h.fn = "destroy" => held /\ wanna_die
        /\ h.fn # "destroy" => Reentered \/ st[h.s] = "live"
    BY <1>2, <1>3, <1>5, <1>6
  <1>8. ASSUME NEW i \in 1 .. Len(r)
        PROVE  /\ r[i].fn = "destroy" => held /\ wanna_die /\ h.fn # "destroy"
               /\ r[i].fn # "destroy" => Reentered
    BY <1>2, <1>3, <1>5, <1>6, <1>8
  <1>9. ASSUME NEW i \in 1 .. Len(r), NEW j \in 1 .. Len(r),
               r[i].fn = "destroy", r[j].fn = "destroy"
        PROVE  i = j
    <2>1. i + 1 = j + 1
      BY <1>3, <1>5, <1>9
    <2> QED
      BY <2>1
  <1>10. Len(r) \in Nat
    BY <1>2
  <1> QED
    BY <1>2, <1>4, <1>7, <1>8, <1>9, <1>10 DEF h, r

(* A callback returns to a function that goes on with a live session.      *)
LEMMA FrameReplaced ==
  ASSUME IInv, stack # <<>>, st[Head(stack).s] = "live",
         NEW f \in {"log", "close"},
         stack' = Cons(Frame(f, Head(stack).s), Tail(stack)),
         closes' \in [Sessions -> Nat],
         UNCHANGED <<cb, milterVars, queue, st, fd, ud, given, events, fdVars, fault>>
  PROVE  IInv'
  <1> DEFINE s == Head(stack).s
  <1>1. /\ wanna_die' = wanna_die /\ wanna_die' \in BOOLEAN
        /\ UNCHANGED <<cb, ref, mst, queue, st, fd, ud, given, events, fdVars>>
        /\ UNCHANGED <<held, fault>>
    BY DEF IInv, TypeOK, milterVars
  <1>2. s \in Live /\ Tail(stack) \in Seq(Frames)
    BY BelowTop DEF Live
  <1>3. \A i \in 1 .. Len(Tail(stack)) :
          /\ Tail(stack)[i].fn = "destroy" => held /\ wanna_die'
          /\ Tail(stack)[i].fn # "destroy" => Reentered'
    BY <1>1, BelowTop DEF Reentered
  <1>4. \A i, j \in 1 .. Len(Tail(stack)) :
          Tail(stack)[i].fn = "destroy" /\ Tail(stack)[j].fn = "destroy" => i = j
    BY BelowTop
  <1>5. stack' = Cons(Frame(f, s), Tail(stack))
    OBVIOUS
  <1> HIDE DEF s
  <1> QED
    BY <1>1, <1>2, <1>3, <1>4, <1>5, FrameCalled

(* A callback returns to a function that uses a session that is gone.      *)
LEMMA SessionGone ==
  ASSUME IInv, stack # <<>>, Head(stack).fn # "destroy",
         st[Head(stack).s] # "live", fault' = "use_after_free",
         UNCHANGED <<cb, milterVars, sessionVars, fdVars, stack>>
  PROVE  IInv'
  <1>1. Reentered
    BY BelowTop
  <1>2. FaultsExplained'
    BY <1>1 DEF FaultsExplained, Reentered, milterVars
  <1>3. TypeOK'
    BY DEF IInv, TypeOK, milterVars, sessionVars, fdVars
  <1>4. RefCountExact' /\ QueueHoldsLive' /\ EventsHoldLive' /\ HeldUntilDestroyed'
        /\ DescriptorsOwned' /\ OneDestroy' /\ StackSound'
    BY Kept DEF sessionVars, fdVars
  <1> QED
    BY <1>2, <1>3, <1>4 DEF IInv

(* The return of the abort callback keeps the invariant.                   *)
LEMMA AbortReturnsStep == IInv /\ AbortReturns => IInv'
  <1> SUFFICES ASSUME IInv, AbortReturns PROVE IInv'
    OBVIOUS
  <1>1. /\ stack # <<>> /\ Head(stack).fn = "abort"
        /\ UNCHANGED <<cb, milterVars, sessionVars, fdVars>>
    BY DEF AbortReturns
  <1>2. CASE st[Head(stack).s] = "live"
    <2>1. stack' = Cons(Frame("log", Head(stack).s), Tail(stack)) /\ fault' = fault
      BY <1>2 DEF AbortReturns, CallLog
    <2>2. closes' \in [Sessions -> Nat]
          /\ UNCHANGED <<cb, milterVars, queue, st, fd, ud, given, events, fdVars, fault>>
      BY <1>1, <2>1 DEF IInv, TypeOK, sessionVars
    <2> QED
      BY <1>1, <1>2, <2>1, <2>2, FrameReplaced
  <1>3. CASE st[Head(stack).s] # "live"
    <2>1. fault' = "use_after_free" /\ stack' = stack
      BY <1>3 DEF AbortReturns
    <2> QED
      BY <1>1, <1>3, <2>1, SessionGone
  <1> QED
    BY <1>2, <1>3

(* The return of the log function keeps the invariant.                     *)
LEMMA LogReturnsStep == IInv /\ LogReturns => IInv'
  <1> SUFFICES ASSUME IInv, LogReturns PROVE IInv'
    OBVIOUS
  <1>1. /\ stack # <<>> /\ Head(stack).fn = "log"
        /\ UNCHANGED <<cb, milterVars, queue, st, fd, ud, given, events, fdVars>>
    BY DEF LogReturns
  <1>2. CASE st[Head(stack).s] = "live"
    <2>1. CallClose(Head(stack).s, Tail(stack)) /\ fault' = fault
      BY <1>2 DEF LogReturns
    <2>2. closes' \in [Sessions -> Nat]
      <3>1. closes' = [closes EXCEPT ![Head(stack).s] = @ + (IF cb.close THEN 1 ELSE 0)]
        BY <2>1 DEF CallClose
      <3>2. closes \in [Sessions -> Nat]
        BY DEF IInv, TypeOK
      <3>3. Head(stack).s \in Sessions
        BY <1>1, BelowTop
      <3> QED
        BY <3>1, <3>2, <3>3
    <2>3. stack' = Cons(Frame("close", Head(stack).s), Tail(stack))
      BY <2>1 DEF CallClose
    <2> QED
      BY <1>1, <1>2, <2>1, <2>2, <2>3, FrameReplaced
  <1>3. CASE st[Head(stack).s] # "live"
    <2>1. fault' = "use_after_free" /\ stack' = stack /\ closes' = closes
      BY <1>3 DEF LogReturns
    <2> QED
      BY <1>1, <1>3, <2>1, SessionGone DEF sessionVars
  <1> QED
    BY <1>2, <1>3

(* One reference on the milter is released while its queue q holds what is *)
(* live after the step.                                                    *)
LEMMA Released ==
  ASSUME mst = "live", NEW q \in Seq(Sessions), Range(q) = Live',
         Cardinality(Live') \in Nat, Cardinality(Live') = 0 <=> Live' = {},
         held' \in BOOLEAN,
         ref = (Cardinality(Live') + (IF held' THEN 1 ELSE 0)) + 1,
         ReleaseMilter(q)
  PROVE  /\ RefCountExact'
         /\ mst' \in {"live", "freed"} /\ ref' \in Nat /\ fault' = fault
         /\ mst' = "freed" => Live' = {} /\ ~held'
  <1>1. /\ ref' = ref - 1
        /\ mst' = IF ref = 1 /\ q = <<>> THEN "freed" ELSE mst
        /\ fault' = IF ref = 1 /\ q # <<>> THEN "assert" ELSE fault
    BY DEF ReleaseMilter
  <1>2. Live' = {} => q = <<>>
    <2> SUFFICES ASSUME q # <<>> PROVE Live' # {}
      OBVIOUS
    <2>1. 1 \in DOMAIN q
      BY EmptySeq, LenProperties
    <2>2. q[1] \in Range(q)
      BY <2>1 DEF Range
    <2> QED
      BY <2>2
  <1>3. CASE held'
    <2>1. ref # 1 /\ ref' = Cardinality(Live') + 1 /\ ref' \in Nat
      BY <1>1, <1>3
    <2> QED
      BY <1>1, <1>3, <2>1 DEF RefCountExact
  <1>4. CASE ~held' /\ Live' # {}
    <2>1. ref # 1 /\ ref' = Cardinality(Live') + 0 /\ ref' \in Nat
      BY <1>1, <1>4
    <2> QED
      BY <1>1, <1>4, <2>1 DEF RefCountExact
  <1>5. CASE ~held' /\ Live' = {}
    <2>1. ref = 1 /\ ref' = 0 /\ q = <<>>
      BY <1>1, <1>2, <1>5
    <2> QED
      BY <1>1, <1>5, <2>1 DEF RefCountExact
  <1> QED
    BY <1>3, <1>4, <1>5

(* The return of the close callback and the destructor of the session      *)
(* keep the invariant.                                                     *)
LEMMA CloseReturnsStep == IInv /\ CloseReturns => IInv'
  <1> SUFFICES ASSUME IInv, CloseReturns PROVE IInv'
    OBVIOUS
  <1>1. /\ stack # <<>> /\ Head(stack).fn = "close"
        /\ UNCHANGED <<cb, wanna_die, held, fd, ud, given, closes, sock>>
    BY DEF CloseReturns
  <1>2. PICK s \in Sessions : s = Head(stack).s
    BY <1>1, BelowTop
  <1>3. CASE st[s] = "live" /\ Binding = "ignores"
    <2>1. SessionDtor(s) /\ stack' = Tail(stack)
      BY <1>2, <1>3 DEF CloseReturns
    <2>2. /\ events' = events \ ({s} \X Kinds)
          /\ owner' = [owner EXCEPT ![fd[s]] = "closed"]
          /\ queue' = Unlinked(s)
          /\ st' = [st EXCEPT ![s] = "freed"]
          /\ ReleaseMilter(queue')
      BY <2>1 DEF SessionDtor, Deleted, Closed
    <2>3. /\ Live' = Live \ {s} /\ s \in Live
          /\ Cardinality(Live') = Cardinality(Live) - 1
      BY <1>3, <2>2, LiveShrinks DEF IInv, TypeOK
    <2>4. queue' \in Seq(Sessions) /\ Range(queue') = Live' /\ IsInjective(queue')
      <3>1. queue \in Seq(Sessions) /\ Range(queue) = Live /\ IsInjective(queue)
        BY DEF IInv, TypeOK, QueueHoldsLive
      <3>2. DOMAIN queue = 1 .. Len(queue)
        BY <3>1, LenProperties
      <3>3. \E i \in DOMAIN queue : queue[i] = s
        BY <2>3, <3>1 DEF Range
      <3>4. LinkOf(s) \in 1 .. Len(queue) /\ queue[LinkOf(s)] = s
        BY <3>2, <3>3 DEF LinkOf
      <3>5. queue' = RemoveAt(queue, LinkOf(s))
        BY <2>2 DEF Unlinked
      <3>6. queue' \in Seq(Sessions) /\ IsInjective(queue')
        BY <3>1, <3>4, <3>5, LinkRemoved
      <3>7. Range(queue') = Range(queue) \ {queue[LinkOf(s)]}
        BY <3>1, <3>4, <3>5, LinkRemoved
      <3> QED
        BY <2>3, <3>1, <3>4, <3>6, <3>7
    <2>5. QueueHoldsLive'
      BY <2>4 DEF QueueHoldsLive
    <2>6. /\ RefCountExact' /\ mst' \in {"live", "freed"} /\ ref' \in Nat
          /\ fault' = fault
      <3>1. /\ mst = "live" /\ held' = held /\ held' \in BOOLEAN
            /\ ref = Cardinality(Live) + (IF held THEN 1 ELSE 0)
        BY <1>1, <2>3 DEF IInv, TypeOK, RefCountExact
      <3>2. Cardinality(Live) \in Nat /\ (Cardinality(Live') = 0 <=> Live' = {})
            /\ Cardinality(Live') \in Nat
        <4>1. IsFiniteSet(Live')
          BY <2>3, LiveFinite, FS_RemoveElement
        <4> QED
          BY <4>1, LiveFinite, FS_CardinalityType, FS_EmptySet
      <3>3. ref = (Cardinality(Live') + (IF held' THEN 1 ELSE 0)) + 1
        BY <2>3, <3>1, <3>2
      <3> QED
        BY <2>2, <2>4, <3>1, <3>2, <3>3, Released
    <2>7. EventsHoldLive'
      BY <2>2, <2>3 DEF IInv, EventsHoldLive
    <2>8. DescriptorsOwned'
      <3>1. fd[s] \in FDs /\ owner[fd[s]] = "milter"
        BY <2>3 DEF IInv, DescriptorsOwned
      <3>2. \A t \in Live' : t \in Live /\ fd[t] \in FDs /\ fd[t] # fd[s]
        BY <2>3 DEF IInv, DescriptorsOwned
      <3>3. \A g \in FDs : owner'[g] = IF g = fd[s] THEN "closed" ELSE owner[g]
        BY <2>2, <3>1 DEF IInv, TypeOK
      <3> QED
        BY <1>1, <2>3, <3>1, <3>2, <3>3 DEF IInv, DescriptorsOwned
    <2>9. TypeOK'
      <3>1. /\ st' \in [Sessions -> {"new", "live", "freed"}]
            /\ owner' \in [FDs -> {"closed", "app", "milter"}]
            /\ events' \subseteq Sessions \X Kinds
        BY <2>2 DEF IInv, TypeOK
      <3>2. stack' \in Seq(Frames)
        BY <1>1, <2>1, BelowTop
      <3> QED
        BY <1>1, <2>4, <2>6, <3>1, <3>2 DEF IInv, TypeOK
    <2>10. HeldUntilDestroyed' /\ FaultsExplained'
      BY <1>1, <2>3, <2>6 DEF IInv, RefCountExact, HeldUntilDestroyed, FaultsExplained
    <2>11. OneDestroy'
      BY <1>1, <2>1, BelowTop DEF OneDestroy
    <2>12. StackSound'
      BY <1>1, <2>1, BelowTop DEF StackSound, Reentered
    <2> QED
      BY <2>5, <2>6, <2>7, <2>8, <2>9, <2>10, <2>11, <2>12 DEF IInv
  <1>4. CASE ~(st[s] = "live" /\ Binding = "ignores")
    <2>1. /\ UNCHANGED <<mst, ref, events, owner, queue, st, stack>>
          /\ \/ st[s] = "live" /\ fault' = "loop_freed"
             \/ st[s] # "live" /\ fault' = "use_after_free"
      BY <1>2, <1>4 DEF CloseReturns
    <2>2. st[s] # "live" => Reentered
      BY <1>1, <1>2, BelowTop
    <2>3. FaultsExplained'
      BY <1>1, <1>4, <2>1, <2>2, BindingAssumption DEF FaultsExplained, Reentered
    <2>4. TypeOK'
      BY <1>1, <2>1 DEF IInv, TypeOK
    <2>5. RefCountExact' /\ QueueHoldsLive' /\ EventsHoldLive' /\ HeldUntilDestroyed'
          /\ DescriptorsOwned' /\ OneDestroy' /\ StackSound'
      BY <1>1, <2>1, Kept DEF milterVars
    <2> QED
      BY <2>3, <2>4, <2>5 DEF IInv
  <1> QED
    BY <1>3, <1>4

(* rmilter_destroy, up to its first callback, keeps the invariant.         *)
LEMMA DestroyStep == IInv /\ Destroy => IInv'
  <1> SUFFICES ASSUME IInv, Destroy PROVE IInv'
    OBVIOUS
  <1>1. /\ mst = "live" /\ held /\ ~wanna_die /\ wanna_die' = TRUE
        /\ stack = <<>> \/ "destroy" \in CallbackMay
        /\ UNCHANGED <<cb, queue, st, fd, ud, given, events, closes, fdVars>>
    BY DEF Destroy, Calls, sessionVars
  <1>2. /\ queue \in Seq(Sessions) /\ Range(queue) = Live
        /\ Len(queue) \in Nat /\ DOMAIN queue = 1 .. Len(queue)
        /\ stack \in Seq(Frames) /\ Len(stack) \in Nat
    BY LenProperties DEF IInv, TypeOK, QueueHoldsLive
  <1>3. Live' = Live
    BY <1>1 DEF Live
  <1>4. \A i \in 1 .. Len(stack) : stack[i].fn # "destroy"
    BY <1>1 DEF IInv, OneDestroy
  <1>5. Reentered' \/ stack = <<>>
    BY <1>1 DEF Reentered
  <1>6. CASE queue = <<>>
    <2>1. held' = FALSE /\ ReleaseMilter(queue) /\ stack' = stack
      BY <1>6 DEF Destroy
    <2>2. Live = {}
      BY <1>2, <1>6, EmptySeq DEF Range
    <2>3. /\ Live' = {} /\ Cardinality(Live') = 0 /\ held' \in BOOLEAN
          /\ ref = (Cardinality(Live') + (IF held' THEN 1 ELSE 0)) + 1
      <3>1. Live' = {} /\ Cardinality(Live') = 0 /\ Cardinality(Live) = 0
        BY <1>3, <2>2, FS_EmptySet
      <3>2. ref = 1
        BY <1>1, <3>1 DEF IInv, RefCountExact
      <3>3. ~held' /\ held' \in BOOLEAN
        BY <2>1
      <3>4. (IF held' THEN 1 ELSE 0) = 0
        BY <3>3
      <3>5. ref = (Cardinality(Live') + (IF held' THEN 1 ELSE 0)) + 1
        BY <3>1, <3>2, <3>4
      <3> QED
        BY <3>1, <3>3, <3>5
    <2>4. /\ RefCountExact' /\ mst' \in {"live", "freed"} /\ ref' \in Nat
          /\ fault' = fault
      BY <1>1, <1>2, <1>3, <2>1, <2>2, <2>3, Released
    <2>5. TypeOK'
      BY <1>1, <2>1, <2>4 DEF IInv, TypeOK, fdVars
    <2>6. QueueHoldsLive' /\ EventsHoldLive' /\ DescriptorsOwned'
      BY <1>1, <1>3
         DEF IInv, QueueHoldsLive, EventsHoldLive, DescriptorsOwned, fdVars
    <2>7. HeldUntilDestroyed' /\ FaultsExplained'
      BY <1>1, <2>4 DEF IInv, HeldUntilDestroyed, FaultsExplained
    <2>8. OneDestroy'
      BY <1>4, <2>1 DEF OneDestroy
    <2>9. StackSound'
      BY <1>1, <2>1 DEF IInv, StackSound, Reentered
    <2> QED
      BY <2>4, <2>5, <2>6, <2>7, <2>8, <2>9 DEF IInv
  <1>7. CASE queue # <<>>
    <2>1. PICK s : s = Last(queue)
      OBVIOUS
    <2>2. s \in Live
      <3>1. Len(queue) \in DOMAIN queue
        BY <1>2, <1>7, EmptySeq
      <3> QED
        BY <1>2, <2>1, <3>1 DEF Last, Range
    <2>3. s \in Sessions
      BY <2>2 DEF Live
    <2>4. PICK rest : rest = Cons(Frame("destroy", s), stack)
      OBVIOUS
    <2>5. stack' = Cons(Frame("log", s), rest) /\ UNCHANGED <<held, mst, ref, fault>>
      BY <1>7, <2>1, <2>4 DEF Destroy, CallLog
    <2>6. IsPush(rest, "destroy", s, stack)
      BY <1>2, <2>3, <2>4, FramePushed
    <2>7. /\ rest \in Seq(Frames)
          /\ \A i \in 1 .. Len(rest) :
               i = 1 \/ (i - 1 \in 1 .. Len(stack) /\ rest[i] = stack[i - 1])
          /\ rest[1].fn = "destroy"
      BY <2>6 DEF IsPush
    <2>8. ASSUME NEW i \in 1 .. Len(rest)
          PROVE  /\ rest[i].fn = "destroy" => i = 1
                 /\ rest[i].fn # "destroy" => Reentered'
      <3>1. CASE i = 1
        BY <2>7, <3>1
      <3>2. CASE i # 1
        <4>1. i - 1 \in 1 .. Len(stack) /\ rest[i] = stack[i - 1]
          BY <2>7, <3>2
        <4>2. Len(stack) # 0
          BY <4>1
        <4>3. stack # <<>>
          BY <4>2
        <4> QED
          BY <1>4, <1>5, <4>1, <4>3
      <3> QED
        BY <3>1, <3>2
    <2>9. \A i \in 1 .. Len(rest) :
            /\ rest[i].fn = "destroy" => held /\ wanna_die'
            /\ rest[i].fn # "destroy" => Reentered'
      BY <1>1, <2>8
    <2>10. \A i, j \in 1 .. Len(rest) :
             rest[i].fn = "destroy" /\ rest[j].fn = "destroy" => i = j
      BY <2>8
    <2>11. wanna_die' \in BOOLEAN /\ (wanna_die => wanna_die') /\ mst # "absent"
      BY <1>1
    <2>12. UNCHANGED <<cb, ref, mst, queue, st, fd, ud, given, events, fdVars>>
           /\ UNCHANGED <<held, fault>> /\ closes' \in [Sessions -> Nat]
      BY <1>1, <2>5 DEF IInv, TypeOK
    <2> QED
      BY <2>2, <2>5, <2>7, <2>9, <2>10, <2>11, <2>12, FrameCalled
  <1> QED
    BY <1>6, <1>7

(* The end of rmilter_destroy keeps the invariant.                         *)
LEMMA DestroyAdvancesStep == IInv /\ DestroyAdvances => IInv'
  <1> SUFFICES ASSUME IInv, DestroyAdvances PROVE IInv'
    OBVIOUS
  <1>1. /\ stack # <<>> /\ Head(stack).fn = "destroy"
        /\ UNCHANGED <<cb, wanna_die, sessionVars, fdVars>>
    BY DEF DestroyAdvances
  <1>2. held /\ wanna_die
    BY <1>1, BelowTop
  <1>3. Live' = Live
    BY <1>1 DEF Live, sessionVars
  <1>4. CASE held' = FALSE /\ ReleaseMilter(queue) /\ stack' = Tail(stack)
    <2>1. /\ mst = "live" /\ ref = Cardinality(Live) + 1
          /\ queue \in Seq(Sessions) /\ Range(queue) = Live
      BY <1>2 DEF IInv, TypeOK, RefCountExact, QueueHoldsLive
    <2>2. ref = (Cardinality(Live') + (IF held' THEN 1 ELSE 0)) + 1
      BY <1>3, <1>4, <2>1, LiveFinite
    <2>3. /\ RefCountExact' /\ mst' \in {"live", "freed"} /\ ref' \in Nat
          /\ fault' = fault
      BY <1>3, <1>4, <2>1, <2>2, LiveFinite, Released
    <2>4. TypeOK'
      <3>1. stack' \in Seq(Frames)
        BY <1>1, <1>4, BelowTop
      <3> QED
        BY <1>1, <1>4, <2>3, <3>1 DEF IInv, TypeOK, sessionVars, fdVars
    <2>5. QueueHoldsLive' /\ EventsHoldLive' /\ DescriptorsOwned'
      BY <1>1, <1>3
         DEF IInv, QueueHoldsLive, EventsHoldLive, DescriptorsOwned, sessionVars, fdVars
    <2>6. HeldUntilDestroyed' /\ FaultsExplained'
      BY <1>1, <1>2, <2>3 DEF IInv, HeldUntilDestroyed, FaultsExplained
    <2>7. OneDestroy'
      BY <1>1, <1>4, BelowTop DEF OneDestroy
    <2>8. StackSound'
      BY <1>1, <1>4, BelowTop DEF StackSound, Reentered
    <2> QED
      BY <2>3, <2>4, <2>5, <2>6, <2>7, <2>8 DEF IInv
  <1>5. CASE fault' = "wild_link" /\ UNCHANGED <<mst, ref, held, stack>>
    <2>1. TypeOK'
      BY <1>1, <1>5 DEF IInv, TypeOK, sessionVars, fdVars
    <2>2. RefCountExact' /\ QueueHoldsLive' /\ EventsHoldLive' /\ HeldUntilDestroyed'
          /\ DescriptorsOwned' /\ OneDestroy' /\ StackSound'
      BY <1>1, <1>5, Kept DEF milterVars, sessionVars, fdVars
    <2>3. FaultsExplained'
      BY <1>1, <1>2, <1>5 DEF FaultsExplained
    <2> QED
      BY <2>1, <2>2, <2>3 DEF IInv
  <1> QED
    BY <1>4, <1>5 DEF DestroyAdvances

(* Connections come and go; the milter is not involved.                    *)
LEMMA ConnectionStep ==
  ASSUME IInv, NEW f \in FDs,
         \/ Accept(f)
         \/ AppCloses(f)
         \/ \E x \in {"data", "eof", "error"} : Peer(f, x)
  PROVE  IInv'
  <1>1. /\ UNCHANGED <<cb, milterVars, sessionVars, stack, fault>>
        /\ \/ /\ owner[f] # "milter"
              /\ \E o \in {"closed", "app"} : owner' = [owner EXCEPT ![f] = o]
           \/ owner' = owner
        /\ \/ \E x \in {"quiet", "data", "eof", "error"} : sock' = [sock EXCEPT ![f] = x]
           \/ sock' = sock
    BY DEF Accept, AppCloses, Peer
  <1>2. TypeOK'
    <2>1. /\ owner \in [FDs -> {"closed", "app", "milter"}]
          /\ sock \in [FDs -> {"quiet", "data", "eof", "error"}]
      BY DEF IInv, TypeOK
    <2>2. owner' \in [FDs -> {"closed", "app", "milter"}]
      BY <1>1, <2>1
    <2>3. sock' \in [FDs -> {"quiet", "data", "eof", "error"}]
      BY <1>1, <2>1
    <2> QED
      BY <1>1, <2>2, <2>3 DEF IInv, TypeOK, milterVars, sessionVars
  <1>3. /\ RefCountExact' /\ QueueHoldsLive' /\ EventsHoldLive'
        /\ HeldUntilDestroyed' /\ OneDestroy' /\ StackSound' /\ FaultsExplained'
        /\ Live' = Live
    BY <1>1, Kept DEF sessionVars
  <1>4. DescriptorsOwned'
    <2>1. \A g \in FDs : owner'[g] = "milter" <=> owner[g] = "milter"
      BY <1>1 DEF IInv, TypeOK
    <2>2. fd' = fd
      BY <1>1 DEF sessionVars
    <2> QED
      BY <1>3, <2>1, <2>2 DEF IInv, DescriptorsOwned
  <1> QED
    BY <1>2, <1>3, <1>4 DEF IInv

(* The invariant survives every step of the application, the peers, the    *)
(* loop and the library.                                                   *)
LEMMA StepInductive == IInv /\ [Next]_vars => IInv'
  <1> SUFFICES ASSUME IInv, [Next]_vars PROVE IInv'
    OBVIOUS
  <1>1. ASSUME UNCHANGED vars PROVE IInv'
    <2>1. TypeOK'
      BY <1>1 DEF IInv, TypeOK, vars, milterVars, sessionVars, fdVars
    <2> QED
      BY <1>1, <2>1, Kept DEF IInv, vars, sessionVars, fdVars
  <1>2. CASE Application
    <2>1. ASSUME NEW f \in FDs, ConsumeRefused(f) PROVE IInv'
      BY <1>1, <2>1 DEF ConsumeRefused
    <2> QED
      BY <1>2, <2>1, CreateStep, DestroyStep, ConsumeStep, ConnectionStep
         DEF Application
  <1>3. CASE \E f \in FDs, x \in {"data", "eof", "error"} : Peer(f, x)
    BY <1>3, ConnectionStep
  <1>4. CASE \E s \in Sessions : ProcessTimer(s) \/ ReadZero(s) \/ ReadFails(s)
    BY <1>4, DispatchStep, ReadFailsStep
  <1>5. CASE Returns
    BY <1>5, AbortReturnsStep, LogReturnsStep, CloseReturnsStep, DestroyAdvancesStep
       DEF Returns
  <1> QED
    BY <1>1, <1>2, <1>3, <1>4, <1>5 DEF Next

(* The inductive invariant of Milter holds throughout.                     *)
LEMMA Invariance == Spec => []IInv
  BY InitInductive, StepInductive, PTL DEF Spec

(***************************************************************************)
(* Every variable keeps to its type; in particular the reference count     *)
(* never goes below zero.                                                  *)
(***************************************************************************)
THEOREM TypeCorrect == Spec => []TypeOK
  <1>1. IInv => TypeOK
    BY DEF IInv
  <1> QED
    BY <1>1, Invariance, PTL

(***************************************************************************)
(* The milter's memory lives as long as the application or a session needs *)
(* it and not longer, and its count is exact.                              *)
(***************************************************************************)
THEOREM RefCounted == Spec => []RefCountExact
  <1>1. IInv => RefCountExact
    BY DEF IInv
  <1> QED
    BY <1>1, Invariance, PTL

(***************************************************************************)
(* The queue of the milter holds the sessions that are alive, each once:   *)
(* no dead one can be reached from it, no live one is missing.             *)
(***************************************************************************)
THEOREM QueueSound == Spec => []QueueHoldsLive
  <1>1. IInv => QueueHoldsLive
    BY DEF IInv
  <1> QED
    BY <1>1, Invariance, PTL

(***************************************************************************)
(* The event loop has both events of every live session and none that      *)
(* would bring a dead one back.                                            *)
(***************************************************************************)
THEOREM EventsSound == Spec => []EventsHoldLive
  <1>1. IInv => EventsHoldLive
    BY DEF IInv
  <1> QED
    BY <1>1, Invariance, PTL

(***************************************************************************)
(* Every descriptor the library was given has one live session to close    *)
(* it, so none leaks and none is closed twice.                             *)
(***************************************************************************)
THEOREM DescriptorsSound == Spec => []DescriptorsOwned
  <1>1. IInv => DescriptorsOwned
    BY DEF IInv
  <1> QED
    BY <1>1, Invariance, PTL

(***************************************************************************)
(* The destructor's assertion holds, and only an application that destroys *)
(* the milter from a callback makes the library use a freed session.       *)
(***************************************************************************)
THEOREM NoOtherFault == Spec => []FaultsExplained
  <1>1. IInv => FaultsExplained
    BY DEF IInv
  <1> QED
    BY <1>1, Invariance, PTL

-----------------------------------------------------------------------------
(* The close callback, for applications that do not destroy the milter     *)
(* from inside a callback.                                                 *)

(* The close callback of session s is what the innermost function waits    *)
(* for.                                                                    *)
Closing(q, s) == q # <<>> /\ q[1] = Frame("close", s)

(* On a stack with nothing but rmilter_destroy below its top, only the top *)
(* can wait for a close callback.                                          *)
LEMMA ClosingOnTop ==
  ASSUME NEW q \in Seq(Frames), NEW s \in Sessions,
         \A i \in 1 .. Len(q) : i = 1 \/ q[i].fn = "destroy"
  PROVE  Frame("close", s) \in Range(q) <=> Closing(q, s)
  <1>1. DOMAIN q = 1 .. Len(q) /\ Len(q) \in Nat
    BY LenProperties
  <1>2. ASSUME Frame("close", s) \in Range(q) PROVE Closing(q, s)
    <2>1. PICK i \in 1 .. Len(q) : q[i] = Frame("close", s)
      BY <1>1, <1>2 DEF Range
    <2>2. q[i].fn = "close"
      BY <2>1 DEF Frame
    <2>3. i = 1
      BY <2>2
    <2>4. q # <<>>
      BY <1>1, <2>1, EmptySeq
    <2> QED
      BY <2>1, <2>3, <2>4 DEF Closing
  <1>3. ASSUME Closing(q, s) PROVE Frame("close", s) \in Range(q)
    <2>1. 1 \in DOMAIN q
      BY <1>1, <1>3, EmptySeq DEF Closing
    <2> QED
      BY <1>3, <2>1 DEF Closing, Range
  <1> QED
    BY <1>2, <1>3

(* ClosedOnce, said with the top of the stack.                             *)
Told ==
  \A s \in Sessions :
    closes[s] = IF cb.close /\ (st[s] = "freed" \/ Closing(stack, s)) THEN 1 ELSE 0

(* Without rmilter_destroy in callbacks only the top of the stack waits    *)
(* for a callback.                                                         *)
LEMMA TopOnly ==
  ASSUME IInv, "destroy" \notin CallbackMay
  PROVE  /\ \A i \in 1 .. Len(stack) : i = 1 \/ stack[i].fn = "destroy"
         /\ Told <=> ClosedOnce
  <1>1. \A i \in 1 .. Len(stack) : i = 1 \/ stack[i].fn = "destroy"
    BY DEF IInv, StackSound, Reentered
  <1>2. stack \in Seq(Frames)
    BY DEF IInv, TypeOK
  <1>3. \A s \in Sessions : Frame("close", s) \in Range(stack) <=> Closing(stack, s)
    BY <1>1, <1>2, ClosingOnTop
  <1> QED
    BY <1>1, <1>3 DEF Told, ClosedOnce

(* Nobody waits for a close callback before, and nobody afterwards.        *)
LEMMA NoneClosing ==
  ASSUME Told, UNCHANGED <<cb, closes>>,
         \A s \in Sessions : ~Closing(stack, s) /\ ~Closing(stack', s),
         \A s \in Sessions : st'[s] = "freed" <=> st[s] = "freed"
  PROVE  Told'
  BY DEF Told

(* What waits on a stack that has just been pushed on.                     *)
LEMMA ClosingPushed ==
  ASSUME NEW f \in {"abort", "log", "close", "destroy"}, NEW t \in Sessions,
         NEW rest \in Seq(Frames), NEW s \in Sessions
  PROVE  Closing(Cons(Frame(f, t), rest), s) <=> (f = "close" /\ t = s)
  <1>1. Frame(f, t) \in Frames
    BY DEF Frame, Frames
  <1>2. Cons(Frame(f, t), rest) # <<>> /\ Cons(Frame(f, t), rest)[1] = Frame(f, t)
    BY <1>1, Pushed
  <1>3. Frame(f, t) = Frame("close", s) <=> (f = "close" /\ t = s)
    BY DEF Frame
  <1> QED
    BY <1>2, <1>3 DEF Closing

(* A step of any kind keeps Told.                                          *)
LEMMA ToldStep ==
  ASSUME IInv, "destroy" \notin CallbackMay, Told, [Next]_vars
  PROVE  Told'
  <1>1. /\ stack \in Seq(Frames) /\ closes \in [Sessions -> Nat]
        /\ st \in [Sessions -> {"new", "live", "freed"}]
        /\ cb' = cb
    BY DEF IInv, TypeOK, Next, Application, Returns, Create, Accept, AppCloses,
           ConsumeRefused, Consume, Destroy, Peer, ProcessTimer, ReadZero, ReadFails,
           AbortReturns, LogReturns, CloseReturns, DestroyAdvances, vars
  <1>2. <<>> \in Seq(Frames) /\ \A s \in Sessions : ~Closing(<<>>, s)
    BY EmptySeq DEF Closing
  <1>3. ASSUME UNCHANGED <<closes, stack, st>> PROVE Told'
    BY <1>1, <1>3 DEF Told, Closing
  <1>4. ASSUME NEW s \in Sessions, ProcessTimer(s) \/ ReadZero(s) \/ ReadFails(s)
        PROVE  Told'
    <2>1. stack = <<>> /\ UNCHANGED <<closes, st>>
      BY <1>4 DEF ProcessTimer, ReadZero, ReadFails, Dispatches, sessionVars
    <2>2. CASE stack' = stack
      BY <1>3, <2>1, <2>2
    <2>3. CASE stack' = Cons(Frame("log", s), <<>>)
      BY <1>1, <1>2, <2>1, <2>3, ClosingPushed, NoneClosing
    <2>4. CASE stack' = <<Frame("abort", s)>>
      <3>1. \A t \in Sessions : ~Closing(stack', t)
        BY <2>4 DEF Closing, Frame
      <3> QED
        BY <1>1, <1>2, <2>1, <3>1, NoneClosing
    <2> QED
      BY <1>4, <2>2, <2>3, <2>4 DEF ProcessTimer, ReadZero, ReadFails, CallLog
  <1>5. ASSUME stack # <<>> PROVE \A s \in Sessions :
                 Closing(stack, s) => Head(stack).fn = "close" /\ Head(stack).s = s
    BY <1>1, <1>5, Popped DEF Closing, Frame
  <1>6. CASE AbortReturns
    <2>1. stack # <<>> /\ Head(stack).fn = "abort" /\ UNCHANGED <<closes, st>>
      BY <1>6 DEF AbortReturns, sessionVars
    <2>2. CASE stack' = stack
      BY <1>3, <2>1, <2>2
    <2>3. CASE stack' = Cons(Frame("log", Head(stack).s), Tail(stack))
      <3>1. Head(stack).s \in Sessions /\ Tail(stack) \in Seq(Frames)
        BY <2>1, BelowTop
      <3>2. \A t \in Sessions : ~Closing(stack', t)
        BY <2>3, <3>1, ClosingPushed
      <3> QED
        BY <1>1, <1>5, <2>1, <3>2, NoneClosing
    <2> QED
      BY <1>6, <2>2, <2>3 DEF AbortReturns, CallLog
  <1>7. CASE LogReturns
    <2>1. stack # <<>> /\ Head(stack).fn = "log" /\ st' = st
      BY <1>7 DEF LogReturns
    <2>2. CASE UNCHANGED <<stack, closes>>
      BY <1>3, <2>1, <2>2
    <2>3. CASE st[Head(stack).s] = "live" /\ CallClose(Head(stack).s, Tail(stack))
      <3>1. PICK t \in Sessions : t = Head(stack).s
        BY <2>1, BelowTop
      <3>2. closes' = [closes EXCEPT ![t] = @ + (IF cb.close THEN 1 ELSE 0)]
            /\ stack' = Cons(Frame("close", t), Tail(stack))
        BY <2>3, <3>1 DEF CallClose
      <3>3. Tail(stack) \in Seq(Frames)
        BY <2>1, BelowTop
      <3>4. \A s \in Sessions : Closing(stack', s) <=> s = t
        BY <3>2, <3>3, ClosingPushed
      <3>5. \A s \in Sessions : ~Closing(stack, s)
        BY <1>5, <2>1
      <3>6. closes[t] = 0
        BY <2>3, <3>1, <3>5 DEF Told
      <3>7. closes'[t] = IF cb.close THEN 1 ELSE 0
        BY <1>1, <3>2, <3>6
      <3>8. \A s \in Sessions : s # t => closes'[s] = closes[s]
        BY <1>1, <3>2
      <3> QED
        BY <1>1, <2>1, <2>3, <3>1, <3>4, <3>5, <3>7, <3>8 DEF Told
    <2> QED
      BY <1>7, <2>2, <2>3 DEF LogReturns
  <1>8. CASE CloseReturns
    <2>1. stack # <<>> /\ Head(stack).fn = "close" /\ closes' = closes
      BY <1>8 DEF CloseReturns
    <2>2. CASE UNCHANGED <<stack, st>>
      BY <1>3, <2>1, <2>2
    <2>3. CASE SessionDtor(Head(stack).s) /\ stack' = Tail(stack)
      <3>1. PICK t \in Sessions : t = Head(stack).s
        BY <2>1, BelowTop
      <3>2. st' = [st EXCEPT ![t] = "freed"]
        BY <2>3, <3>1 DEF SessionDtor
      <3>3. \A s \in Sessions : ~Closing(stack', s)
        <4>1. \A i \in 1 .. Len(stack') : stack'[i].fn = "destroy"
          BY <2>1, <2>3, BelowTop DEF Reentered
        <4>2. stack' \in Seq(Frames)
          BY <2>1, <2>3, BelowTop
        <4>3. stack' # <<>> => 1 \in 1 .. Len(stack')
          BY <4>2, EmptySeq, LenProperties
        <4> QED
          BY <4>1, <4>3 DEF Closing, Frame
      <3>4. Closing(stack, t) /\ \A s \in Sessions : s # t => ~Closing(stack, s)
        <4>1. Head(stack) = stack[1] /\ stack[1] \in Frames
          BY <1>1, <2>1, Popped
        <4>2. stack[1] = Frame("close", t)
          BY <2>1, <3>1, <4>1 DEF Frame, Frames
        <4> QED
          BY <1>5, <2>1, <3>1, <4>2 DEF Closing
      <3> QED
        BY <1>1, <2>1, <3>2, <3>3, <3>4 DEF Told
    <2> QED
      BY <1>8, <2>2, <2>3 DEF CloseReturns
  <1>9. CASE Destroy
    <2>1. stack = <<>> /\ UNCHANGED <<closes, st>>
      BY <1>9 DEF Destroy, Calls, sessionVars
    <2>2. CASE stack' = stack
      BY <1>3, <2>1, <2>2
    <2>3. CASE queue # <<>>
      <3>1. Last(queue) \in Sessions
        <4>1. queue \in Seq(Sessions) /\ Len(queue) \in 1 .. Len(queue)
          BY <2>3, EmptySeq, LenProperties DEF IInv, TypeOK
        <4> QED
          BY <4>1, ElementOfSeq DEF Last
      <3>2. PICK t \in Sessions : t = Last(queue)
        BY <3>1
      <3>3. PICK rest : rest = Cons(Frame("destroy", t), stack)
        OBVIOUS
      <3>4. stack' = Cons(Frame("log", t), rest)
        BY <1>9, <2>3, <3>2, <3>3 DEF Destroy, CallLog
      <3>5. rest \in Seq(Frames)
        BY <1>1, <3>3, FramePushed DEF IsPush
      <3>6. \A s \in Sessions : ~Closing(stack', s)
        BY <3>4, <3>5, ClosingPushed
      <3> QED
        BY <1>1, <1>2, <2>1, <3>6, NoneClosing
    <2> QED
      BY <1>9, <2>2, <2>3 DEF Destroy
  <1>10. CASE DestroyAdvances
    <2>1. stack # <<>> /\ Head(stack).fn = "destroy" /\ UNCHANGED <<closes, st>>
      BY <1>10 DEF DestroyAdvances, sessionVars
    <2>2. CASE stack' = stack
      BY <1>3, <2>1, <2>2
    <2>3. CASE stack' = Tail(stack)
      <3>1. \A i \in 1 .. Len(Tail(stack)) : FALSE
        BY <2>1, BelowTop DEF Reentered
      <3>2. Tail(stack) \in Seq(Frames) /\ Len(Tail(stack)) \in Nat
        BY <2>1, BelowTop
      <3>3. Tail(stack) = <<>>
        BY <3>1, <3>2, EmptySeq
      <3> QED
        BY <1>1, <1>2, <1>5, <2>1, <2>3, <3>3, NoneClosing
    <2> QED
      BY <1>10, <2>2, <2>3 DEF DestroyAdvances
  <1>11. ASSUME NEW s \in Sessions, NEW f \in FDs, NEW u \in UserData, Consume(s, f, u)
         PROVE  Told'
    <2>1. UNCHANGED <<closes, stack>> /\ st[s] = "new" /\ st' = [st EXCEPT ![s] = "live"]
      BY <1>11 DEF Consume
    <2>2. \A t \in Sessions : st'[t] = "freed" <=> st[t] = "freed"
      BY <1>1, <2>1
    <2> QED
      BY <1>1, <2>1, <2>2 DEF Told, Closing
  <1>12. CASE \/ Create
              \/ \E f \in FDs : Accept(f) \/ AppCloses(f) \/ ConsumeRefused(f)
              \/ \E f \in FDs, x \in {"data", "eof", "error"} : Peer(f, x)
              \/ UNCHANGED vars
    BY <1>3, <1>12
       DEF Create, Accept, AppCloses, ConsumeRefused, Peer, vars, sessionVars
  <1> QED
    BY <1>4, <1>6, <1>7, <1>8, <1>9, <1>10, <1>11, <1>12
       DEF Next, Application, Returns

(***************************************************************************)
(* The application hears of the end of each session exactly once, by the   *)
(* time the session is freed, if its callbacks do not destroy the milter:  *)
(* whatever ends the session and whatever else the callbacks do.           *)
(***************************************************************************)
THEOREM ToldOnce ==
  ASSUME "destroy" \notin CallbackMay
  PROVE  Spec => []ClosedOnce
  <1>1. Init => Told
    BY DEF Init, Told, Closing
  <1>2. IInv /\ Told /\ [Next]_vars => Told'
    BY ToldStep
  <1>3. IInv /\ Told => ClosedOnce
    BY TopOnly
  <1> QED
    BY <1>1, <1>2, <1>3, Invariance, PTL DEF Spec

-----------------------------------------------------------------------------
(* How often the close callback is called if a callback may destroy the    *)
(* milter.                                                                 *)

(* Where on a stack, counted from its bottom, somebody waits for the close *)
(* callback of session s.                                                  *)
Waits(q, s) == {n \in 1 .. Len(q) : q[(Len(q) + 1) - n] = Frame("close", s)}

(* Each call is still waited for, or has freed the session.                *)
Counted ==
  fault = "none" =>
    \A s \in Sessions :
      closes[s] = IF cb.close
                  THEN Cardinality(Waits(stack, s)) + (IF st[s] = "freed" THEN 1 ELSE 0)
                  ELSE 0

LEMMA WaitsFinite ==
  ASSUME NEW q \in Seq(Frames), NEW s \in Sessions
  PROVE  IsFiniteSet(Waits(q, s)) /\ Cardinality(Waits(q, s)) \in Nat
  <1>1. 1 \in Int /\ Len(q) \in Int
    BY LenProperties
  <1>2. IsFiniteSet(1 .. Len(q))
    BY <1>1, FS_Interval
  <1>3. IsFiniteSet(Waits(q, s))
    BY <1>2, FS_Subset DEF Waits
  <1> QED
    BY <1>3, FS_CardinalityType

(* A frame on top leaves the others where they are.                        *)
LEMMA WaitsPushed ==
  ASSUME NEW f \in {"abort", "log", "close", "destroy"}, NEW t \in Sessions,
         NEW rest \in Seq(Frames), NEW s \in Sessions
  PROVE  Cardinality(Waits(Cons(Frame(f, t), rest), s))
           = Cardinality(Waits(rest, s)) + (IF f = "close" /\ t = s THEN 1 ELSE 0)
  <1> DEFINE n == Len(rest)
             c == Cons(Frame(f, t), rest)
  <1>1. Frame(f, t) \in Frames /\ n \in Nat
    BY LenProperties DEF Frame, Frames
  <1>2. c \in Seq(Frames) /\ Len(c) = n + 1 /\ c[1] = Frame(f, t)
        /\ \A i \in 1 .. n : c[i + 1] = rest[i]
    BY <1>1, Pushed
  <1>3. Frame(f, t) = Frame("close", s) <=> (f = "close" /\ t = s)
    BY DEF Frame
  <1> HIDE DEF c, n
  <1>4. ASSUME NEW i \in 1 .. n PROVE c[((n + 1) + 1) - i] = rest[(n + 1) - i]
    <2>1. (n + 1) - i \in 1 .. n /\ ((n + 1) - i) + 1 = ((n + 1) + 1) - i
      BY <1>1
    <2> QED
      BY <1>2, <2>1
  <1>5. ((n + 1) + 1) - (n + 1) = 1
    BY <1>1
  <1>6. \A i : i \in 1 .. (n + 1) <=> (i \in 1 .. n \/ i = n + 1)
    BY <1>1
  <1>7. n + 1 \notin 1 .. n
    BY <1>1
  <1>8. Waits(rest, s) = {i \in 1 .. n : rest[(n + 1) - i] = Frame("close", s)}
    BY DEF Waits, n
  <1>9. Waits(c, s) = {i \in 1 .. (n + 1) : c[((n + 1) + 1) - i] = Frame("close", s)}
    BY <1>2 DEF Waits
  <1>10. CASE f = "close" /\ t = s
    <2>1. Waits(c, s) = Waits(rest, s) \cup {n + 1}
      BY <1>2, <1>3, <1>4, <1>5, <1>6, <1>8, <1>9, <1>10
    <2>2. n + 1 \notin Waits(rest, s)
      BY <1>7, <1>8
    <2> QED
      BY <1>10, <2>1, <2>2, WaitsFinite, FS_AddElement DEF c
  <1>11. CASE ~(f = "close" /\ t = s)
    <2>1. Waits(c, s) = Waits(rest, s)
      BY <1>2, <1>3, <1>4, <1>5, <1>6, <1>8, <1>9, <1>11
    <2> QED
      BY <1>11, <2>1, WaitsFinite DEF c
  <1> QED
    BY <1>10, <1>11

(* The function on top of the stack returns.                               *)
LEMMA WaitsPopped ==
  ASSUME NEW q \in Seq(Frames), q # <<>>, NEW s \in Sessions
  PROVE  Cardinality(Waits(q, s))
           = Cardinality(Waits(Tail(q), s))
             + (IF Head(q).fn = "close" /\ Head(q).s = s THEN 1 ELSE 0)
  <1>1. Head(q) \in Frames /\ Tail(q) \in Seq(Frames) /\ q = Cons(Head(q), Tail(q))
    BY HeadTailProperties, Popped DEF Cons
  <1>2. PICK f \in {"abort", "log", "close", "destroy"}, t \in Sessions :
          Head(q) = Frame(f, t) /\ f = Head(q).fn /\ t = Head(q).s
    BY <1>1 DEF Frames, Frame
  <1>3. PICK r \in Seq(Frames) : r = Tail(q)
    BY <1>1
  <1>4. Cardinality(Waits(Cons(Frame(f, t), r), s))
          = Cardinality(Waits(r, s)) + (IF f = "close" /\ t = s THEN 1 ELSE 0)
    BY WaitsPushed
  <1>5. q = Cons(Frame(f, t), r)
    BY <1>1, <1>2, <1>3
  <1> QED
    BY <1>2, <1>3, <1>4, <1>5

(* Nothing is called or freed.                                             *)
LEMMA NoneCounted ==
  ASSUME Counted, fault = "none", UNCHANGED <<cb, closes>>,
         \A s \in Sessions : Cardinality(Waits(stack', s)) = Cardinality(Waits(stack, s)),
         \A s \in Sessions : st'[s] = "freed" <=> st[s] = "freed"
  PROVE  Counted'
  BY DEF Counted

(* A step of any kind keeps Counted.                                       *)
LEMMA CountedStep ==
  ASSUME IInv, Counted, [Next]_vars
  PROVE  Counted'
  <1>1. /\ stack \in Seq(Frames) /\ closes \in [Sessions -> Nat]
        /\ st \in [Sessions -> {"new", "live", "freed"}]
        /\ cb' = cb
    BY DEF IInv, TypeOK, Next, Application, Returns, Create, Accept, AppCloses,
           ConsumeRefused, Consume, Destroy, Peer, ProcessTimer, ReadZero, ReadFails,
           AbortReturns, LogReturns, CloseReturns, DestroyAdvances, vars
  <1>2. CASE UNCHANGED vars
    BY <1>2 DEF Counted, vars, sessionVars
  <1> SUFFICES ASSUME Next, fault' = "none" PROVE Counted'
    BY <1>2 DEF Counted
  <1>3. fault = "none"
    BY DEF Next, Application, Returns, Create, Accept, AppCloses, ConsumeRefused,
           Consume, Destroy, Peer, ProcessTimer, ReadZero, ReadFails, AbortReturns,
           LogReturns, CloseReturns, DestroyAdvances, Calls, Dispatches, vars
  <1>4. ASSUME UNCHANGED <<closes, stack, st>> PROVE Counted'
    BY <1>1, <1>3, <1>4 DEF Counted
  <1>5. stack # <<>> => Tail(stack) \in Seq(Frames) /\ Head(stack).s \in Sessions
    BY BelowTop
  <1>6. ASSUME NEW s \in Sessions, ProcessTimer(s) \/ ReadZero(s) \/ ReadFails(s)
        PROVE  Counted'
    <2>1. stack = <<>> /\ UNCHANGED <<closes, st>>
      BY <1>6 DEF ProcessTimer, ReadZero, ReadFails, Dispatches, sessionVars
    <2>2. CASE stack' = Cons(Frame("log", s), stack)
      <3>1. \A t \in Sessions : Cardinality(Waits(stack', t)) = Cardinality(Waits(stack, t))
        BY <1>1, <2>2, WaitsPushed, WaitsFinite
      <3> QED
        BY <1>1, <1>3, <2>1, <3>1, NoneCounted
    <2>3. CASE stack' = <<Frame("abort", s)>>
      <3>1. stack' = Cons(Frame("abort", s), stack)
        BY <2>1, <2>3 DEF Cons
      <3>2. \A t \in Sessions : Cardinality(Waits(stack', t)) = Cardinality(Waits(stack, t))
        BY <1>1, <3>1, WaitsPushed, WaitsFinite
      <3> QED
        BY <1>1, <1>3, <2>1, <3>2, NoneCounted
    <2> QED
      BY <1>6, <2>1, <2>2, <2>3 DEF ProcessTimer, ReadZero, ReadFails, CallLog
  <1>7. CASE AbortReturns
    <2>1. PICK s \in Sessions : s = Head(stack).s
      BY <1>5, <1>7 DEF AbortReturns
    <2>2. stack # <<>> /\ Head(stack).fn = "abort" /\ UNCHANGED <<closes, st>>
          /\ stack' = Cons(Frame("log", s), Tail(stack))
      BY <1>7, <2>1 DEF AbortReturns, CallLog, sessionVars
    <2>3. ASSUME NEW t \in Sessions
          PROVE  Cardinality(Waits(stack', t)) = Cardinality(Waits(stack, t))
      <3>1. Cardinality(Waits(stack', t)) = Cardinality(Waits(Tail(stack), t)) + 0
        <4>1. PICK r \in Seq(Frames) : r = Tail(stack)
          BY <1>5, <2>2
        <4>2. stack' = Cons(Frame("log", s), r)
          BY <2>2, <4>1
        <4>3. Cardinality(Waits(Cons(Frame("log", s), r), t)) = Cardinality(Waits(r, t)) + 0
          BY WaitsPushed
        <4> QED
          BY <4>1, <4>2, <4>3
      <3>2. Cardinality(Waits(stack, t)) = Cardinality(Waits(Tail(stack), t)) + 0
        BY <1>1, <2>2, WaitsPopped
      <3> QED
        BY <3>1, <3>2
    <2> QED
      BY <1>1, <1>3, <2>2, <2>3, NoneCounted
  <1>8. CASE LogReturns
    <2>1. PICK s \in Sessions : s = Head(stack).s
      BY <1>5, <1>8 DEF LogReturns
    <2>2. /\ stack # <<>> /\ Head(stack).fn = "log" /\ st' = st
          /\ stack' = Cons(Frame("close", s), Tail(stack))
          /\ closes' = [closes EXCEPT ![s] = @ + (IF cb.close THEN 1 ELSE 0)]
      BY <1>8, <2>1 DEF LogReturns, CallClose
    <2>3. ASSUME NEW t \in Sessions
          PROVE  closes'[t] = IF cb'.close
                              THEN Cardinality(Waits(stack', t))
                                     + (IF st'[t] = "freed" THEN 1 ELSE 0)
                              ELSE 0
      <3>1. Cardinality(Waits(stack', t))
              = Cardinality(Waits(Tail(stack), t)) + (IF s = t THEN 1 ELSE 0)
        <4>1. PICK r \in Seq(Frames) : r = Tail(stack)
          BY <1>5, <2>2
        <4>2. stack' = Cons(Frame("close", s), r)
          BY <2>2, <4>1
        <4>3. Cardinality(Waits(Cons(Frame("close", s), r), t))
                = Cardinality(Waits(r, t)) + (IF s = t THEN 1 ELSE 0)
          BY WaitsPushed
        <4> QED
          BY <4>1, <4>2, <4>3
      <3>2. Cardinality(Waits(stack, t)) = Cardinality(Waits(Tail(stack), t)) + 0
        BY <1>1, <2>2, WaitsPopped
      <3>3. closes[t] = IF cb.close
                        THEN Cardinality(Waits(stack, t)) + (IF st[t] = "freed" THEN 1 ELSE 0)
                        ELSE 0
        BY <1>3 DEF Counted
      <3>4. closes'[t] = closes[t] + (IF cb.close /\ s = t THEN 1 ELSE 0)
        BY <1>1, <2>2
      <3>5. Cardinality(Waits(Tail(stack), t)) \in Nat
        BY <1>5, <2>2, WaitsFinite
      <3> QED
        BY <1>1, <2>2, <3>1, <3>2, <3>3, <3>4, <3>5
    <2> QED
      BY <2>3 DEF Counted
  <1>9. CASE CloseReturns
    <2>1. PICK s \in Sessions : s = Head(stack).s
      BY <1>5, <1>9 DEF CloseReturns
    <2>2. /\ stack # <<>> /\ Head(stack).fn = "close" /\ closes' = closes
          /\ st[s] = "live" /\ st' = [st EXCEPT ![s] = "freed"] /\ stack' = Tail(stack)
      BY <1>9, <2>1 DEF CloseReturns, SessionDtor
    <2>3. ASSUME NEW t \in Sessions
          PROVE  closes'[t] = IF cb'.close
                              THEN Cardinality(Waits(stack', t))
                                     + (IF st'[t] = "freed" THEN 1 ELSE 0)
                              ELSE 0
      <3>1. Cardinality(Waits(stack, t))
              = Cardinality(Waits(Tail(stack), t)) + (IF s = t THEN 1 ELSE 0)
        BY <1>1, <2>1, <2>2, WaitsPopped
      <3>2. closes[t] = IF cb.close
                        THEN Cardinality(Waits(stack, t)) + (IF st[t] = "freed" THEN 1 ELSE 0)
                        ELSE 0
        BY <1>3 DEF Counted
      <3>3. st'[t] = "freed" <=> (st[t] = "freed" \/ s = t)
        BY <1>1, <2>2
      <3>4. Cardinality(Waits(Tail(stack), t)) \in Nat
        BY <1>5, <2>2, WaitsFinite
      <3> QED
        BY <1>1, <2>2, <3>1, <3>2, <3>3, <3>4
    <2> QED
      BY <2>3 DEF Counted
  <1>10. CASE Destroy
    <2>1. UNCHANGED <<closes, st>>
      BY <1>10 DEF Destroy, sessionVars
    <2>2. CASE queue = <<>>
      BY <1>4, <1>10, <2>1, <2>2 DEF Destroy
    <2>3. CASE queue # <<>>
      <3>1. queue \in Seq(Sessions) /\ Len(queue) \in 1 .. Len(queue)
        BY <2>3, EmptySeq, LenProperties DEF IInv, TypeOK
      <3>2. PICK s \in Sessions : s = Last(queue)
        BY <3>1, ElementOfSeq DEF Last
      <3>3. PICK rest : rest = Cons(Frame("destroy", s), stack)
        OBVIOUS
      <3>4. stack' = Cons(Frame("log", s), rest)
        BY <1>10, <2>3, <3>2, <3>3 DEF Destroy, CallLog
      <3>5. rest \in Seq(Frames)
        BY <1>1, <3>3, FramePushed DEF IsPush
      <3>6. ASSUME NEW t \in Sessions
            PROVE  Cardinality(Waits(stack', t)) = Cardinality(Waits(stack, t))
        <4>1. Cardinality(Waits(stack', t)) = Cardinality(Waits(rest, t)) + 0
          BY <3>4, <3>5, WaitsPushed
        <4>2. Cardinality(Waits(rest, t)) = Cardinality(Waits(stack, t)) + 0
          BY <1>1, <3>3, WaitsPushed
        <4>3. Cardinality(Waits(stack, t)) \in Nat
          BY <1>1, WaitsFinite
        <4> QED
          BY <4>1, <4>2, <4>3
      <3> QED
        BY <1>1, <1>3, <2>1, <3>6, NoneCounted
    <2> QED
      BY <2>2, <2>3
  <1>11. CASE DestroyAdvances
    <2>1. stack # <<>> /\ Head(stack).fn = "destroy" /\ UNCHANGED <<closes, st>>
          /\ stack' = Tail(stack)
      BY <1>11 DEF DestroyAdvances, sessionVars
    <2>2. ASSUME NEW t \in Sessions
          PROVE  Cardinality(Waits(stack', t)) = Cardinality(Waits(stack, t))
      <3>1. Cardinality(Waits(stack, t)) = Cardinality(Waits(Tail(stack), t)) + 0
        BY <1>1, <2>1, WaitsPopped
      <3>2. Cardinality(Waits(Tail(stack), t)) \in Nat
        BY <1>5, <2>1, WaitsFinite
      <3> QED
        BY <2>1, <3>1, <3>2
    <2> QED
      BY <1>1, <1>3, <2>1, <2>2, NoneCounted
  <1>12. ASSUME NEW s \in Sessions, NEW f \in FDs, NEW u \in UserData, Consume(s, f, u)
         PROVE  Counted'
    <2>1. UNCHANGED <<closes, stack>> /\ st[s] = "new" /\ st' = [st EXCEPT ![s] = "live"]
      BY <1>12 DEF Consume
    <2>2. \A t \in Sessions : st'[t] = "freed" <=> st[t] = "freed"
      BY <1>1, <2>1
    <2> QED
      BY <1>1, <1>3, <2>1, <2>2, NoneCounted
  <1>13. CASE \/ Create
              \/ \E f \in FDs : Accept(f) \/ AppCloses(f) \/ ConsumeRefused(f)
              \/ \E f \in FDs, x \in {"data", "eof", "error"} : Peer(f, x)
    BY <1>4, <1>13
       DEF Create, Accept, AppCloses, ConsumeRefused, Peer, vars, sessionVars
  <1> QED
    BY <1>6, <1>7, <1>8, <1>9, <1>10, <1>11, <1>12, <1>13
       DEF Next, Application, Returns

(***************************************************************************)
(* Whatever the callbacks do, and whoever ends a session, a program that   *)
(* gets back to its loop without undefined behaviour has been told once of *)
(* each session that ended and of no other: the second close callback of a *)
(* session that is closed while its first one runs (rmilter_destroy in     *)
(* rmilter_session_close) never returns to the loop.                       *)
(***************************************************************************)
THEOREM ToldOnceOutside == Spec => []ToldOnceInLoop
  <1>1. stack = <<>> => \A s \in Sessions : Cardinality(Waits(stack, s)) = 0
    <2> SUFFICES ASSUME stack = <<>>, NEW s \in Sessions PROVE Cardinality(Waits(stack, s)) = 0
      OBVIOUS
    <2>1. Waits(stack, s) = {}
      BY DEF Waits
    <2> QED
      BY <2>1, FS_EmptySet
  <1>2. Init => Counted
    BY <1>1 DEF Init, Counted
  <1>3. IInv /\ Counted /\ [Next]_vars => Counted'
    BY CountedStep
  <1>4. Counted => ToldOnceInLoop
    BY <1>1 DEF Counted, ToldOnceInLoop
  <1> QED
    BY <1>2, <1>3, <1>4, Invariance, PTL DEF Spec

-----------------------------------------------------------------------------
(* The milter implements MilterLife.                                       *)

(* Before rmilter_create the milter is absent in MilterLife, too.          *)
LEMMA InitRefines == Init => Life!Init
  BY DEF Init, Life!Init, Phase, Live, Freed

(* Every step is one of MilterLife or changes nothing MilterLife sees.     *)
LEMMA StepRefines ==
  ASSUME IInv, IInv', [Next]_vars
  PROVE  Life!Next \/ UNCHANGED <<Phase, Live, Freed>>
  <1>1. ASSUME UNCHANGED <<mst, wanna_die, st>>
        PROVE  UNCHANGED <<Phase, Live, Freed>>
    BY <1>1 DEF Phase, Live, Freed
  <1>2. mst \in {"absent", "live", "freed"} /\ wanna_die \in BOOLEAN
        /\ st \in [Sessions -> {"new", "live", "freed"}]
    BY DEF IInv, TypeOK
  <1>3. /\ mst = "live" => Phase = IF wanna_die THEN "closing" ELSE "serving"
        /\ mst = "absent" => Phase = "absent"
        /\ mst = "freed" => Phase = "gone"
    BY DEF Phase
  <1>4. /\ mst' = "live" => Phase' = IF wanna_die' THEN "closing" ELSE "serving"
        /\ mst' = "freed" => Phase' = "gone"
    BY DEF Phase
  <1>5. CASE Create
    <2>1. mst = "absent" /\ mst' = "live" /\ wanna_die' = wanna_die /\ st' = st
      BY <1>5 DEF Create, sessionVars
    <2>2. ~wanna_die
      BY <2>1 DEF IInv, HeldUntilDestroyed
    <2>3. Phase = "absent" /\ Phase' = "serving"
      BY <1>3, <1>4, <2>1, <2>2
    <2>4. Live' = Live /\ Freed' = Freed
      BY <2>1 DEF Live, Freed
    <2> QED
      BY <2>3, <2>4 DEF Life!Next, Life!Create
  <1>6. ASSUME NEW s \in Sessions, NEW f \in FDs, NEW u \in UserData,
               Consume(s, f, u)
        PROVE  Life!Next
    <2>1. mst = "live" /\ mst' = mst /\ wanna_die' = wanna_die /\ ~wanna_die
          /\ st[s] = "new" /\ st' = [st EXCEPT ![s] = "live"]
      BY <1>6 DEF Consume, Accepts
    <2>2. Live' = Live \cup {s} /\ s \notin Live
      BY <1>2, <2>1, LiveGrows
    <2>3. Freed' = Freed /\ s \notin Freed
      BY <1>2, <2>1 DEF Freed
    <2>4. Phase = "serving" /\ Phase' = Phase
      BY <1>3, <1>4, <2>1
    <2> QED
      BY <2>2, <2>3, <2>4 DEF Life!Next, Life!Open
  <1>7. CASE Destroy
    <2>1. mst = "live" /\ ~wanna_die /\ wanna_die' = TRUE /\ st' = st
          /\ mst' \in {"live", "freed"}
      BY <1>7 DEF Destroy, ReleaseMilter, sessionVars
    <2>2. Live' = Live /\ Freed' = Freed
      BY <2>1 DEF Live, Freed
    <2>3. Phase = "serving"
      BY <1>3, <2>1
    <2>4. Phase' = "closing" \/ (Live = {} /\ Phase' = "gone")
      <3>1. CASE mst' = "live"
        BY <1>4, <2>1, <3>1
      <3>2. CASE mst' = "freed"
        <4>1. Live' = {}
          BY <3>2 DEF IInv, RefCountExact
        <4> QED
          BY <1>4, <2>2, <3>2, <4>1
      <3> QED
        BY <2>1, <3>1, <3>2
    <2> QED
      BY <2>2, <2>3, <2>4 DEF Life!Next, Life!Destroy
  <1>8. CASE AbortReturns
    BY <1>1, <1>8 DEF AbortReturns, milterVars, sessionVars
  <1>9. CASE CloseReturns
    <2>1. stack # <<>> /\ Head(stack).fn = "close" /\ wanna_die' = wanna_die
      BY <1>9 DEF CloseReturns
    <2>2. PICK s \in Sessions : s = Head(stack).s
      BY <2>1, BelowTop
    <2>3. CASE UNCHANGED <<mst, st>>
      BY <1>1, <2>1, <2>3
    <2>4. CASE st[s] = "live" /\ SessionDtor(s)
      <3>1. st' = [st EXCEPT ![s] = "freed"] /\ mst' \in {mst, "freed"}
        BY <2>4 DEF SessionDtor, ReleaseMilter
      <3>2. Live' = Live \ {s} /\ s \in Live
        BY <1>2, <2>4, <3>1, LiveShrinks
      <3>3. Freed' = Freed \cup {s}
        BY <1>2, <3>1 DEF Freed
      <3>4. mst = "live"
        BY <3>2 DEF IInv, RefCountExact
      <3>5. Phase' = Phase \/ (Phase = "closing" /\ Live' = {} /\ Phase' = "gone")
        <4>1. CASE mst' = "live"
          BY <1>3, <1>4, <2>1, <3>4, <4>1
        <4>2. CASE mst' = "freed"
          <5>1. Live' = {} /\ ~held'
            BY <4>2 DEF IInv, RefCountExact
          <5>2. wanna_die
            BY <2>1, <4>2, <5>1 DEF IInv, HeldUntilDestroyed
          <5> QED
            BY <1>3, <1>4, <3>4, <4>2, <5>1, <5>2
        <4> QED
          BY <3>1, <3>4, <4>1, <4>2
      <3> QED
        BY <3>2, <3>3, <3>5 DEF Life!Next, Life!End
    <2> QED
      BY <1>9, <2>2, <2>3, <2>4 DEF CloseReturns
  <1>10. CASE DestroyAdvances
    <2>1. /\ stack # <<>> /\ Head(stack).fn = "destroy" /\ wanna_die' = wanna_die
          /\ st' = st /\ mst' \in {mst, "freed"}
      BY <1>10 DEF DestroyAdvances, ReleaseMilter, sessionVars
    <2>2. held /\ wanna_die
      BY <2>1, BelowTop
    <2>3. CASE mst' = mst
      BY <1>1, <2>1, <2>3
    <2>4. CASE mst' = "freed"
      <3>1. Live' = {} /\ Live' = Live /\ Freed' = Freed
        BY <2>1, <2>4 DEF IInv, RefCountExact, Live, Freed
      <3>2. mst = "live"
        BY <2>2 DEF IInv, RefCountExact
      <3>3. Phase = "closing" /\ Phase' = "gone"
        BY <1>3, <1>4, <2>2, <2>4, <3>2
      <3> QED
        BY <3>1, <3>3 DEF Life!Next, Life!Gone
    <2> QED
      BY <2>1, <2>3, <2>4
  <1>11. ASSUME NEW f \in FDs,
                \/ Accept(f) \/ AppCloses(f) \/ ConsumeRefused(f)
                \/ \E x \in {"data", "eof", "error"} : Peer(f, x)
         PROVE  UNCHANGED <<Phase, Live, Freed>>
    BY <1>1, <1>11
       DEF Accept, AppCloses, ConsumeRefused, Peer, vars, milterVars, sessionVars
  <1>12. ASSUME NEW s \in Sessions, ProcessTimer(s) \/ ReadZero(s) \/ ReadFails(s)
         PROVE  UNCHANGED <<Phase, Live, Freed>>
    BY <1>1, <1>12 DEF ProcessTimer, ReadZero, ReadFails, milterVars, sessionVars
  <1>13. CASE LogReturns
    BY <1>1, <1>13 DEF LogReturns, milterVars
  <1>14. CASE UNCHANGED vars
    BY <1>1, <1>14 DEF vars, milterVars, sessionVars
  <1> QED
    BY <1>5, <1>6, <1>7, <1>8, <1>9, <1>10, <1>11, <1>12, <1>13, <1>14
       DEF Next, Application, Returns

(***************************************************************************)
(* Every behaviour of the milter, with any callbacks and any binding, is   *)
(* one that MilterLife allows.                                             *)
(***************************************************************************)
THEOREM MilterLives == Spec => ImplementsLife
  <1>1. IInv /\ IInv' /\ [Next]_vars => [Life!Next]_(Life!vars)
    BY StepRefines DEF Life!vars
  <1> QED
    BY <1>1, InitRefines, Invariance, PTL DEF Spec, ImplementsLife, Life!Spec
=============================================================================
