------------------------ MODULE CommandParser_proofs ------------------------
(***************************************************************************)
(* What CommandParser guarantees for every wire, every way of cutting it   *)
(* into reads and every buffer size.                                       *)
(***************************************************************************)
EXTENDS CommandParser, SequenceTheorems, TLAPS

(* The weights of the abstract header are the shifts of the code.          *)
LEMMA Shifts ==
  /\ Framed!Weight = Shift
  /\ \A i \in 1 .. 4 : Shift[i] \in Nat
  BY SMT DEF Framed!Weight, Shift

(* The invariant holds before the first read.                              *)
LEMMA InitInductive == Init => IInv
  <1> SUFFICES ASSUME Init PROVE IInv
    OBVIOUS
  <1>1. wire \in Seq(Byte)
    BY WiresAssumption DEF Init, Byte
  <1>2. <<>> \in Seq(Byte) /\ <<>> \in Seq([cmd : Byte, body : Seq(Byte)])
    BY EmptySeq
  <1>3. TypeOK
    <2>1. Len(wire) \in Nat
      BY <1>1, LenProperties
    <2>2. 0 \in Byte
      BY DEF Byte
    <2>3. data \in Seq(Byte) /\ frames \in Seq([cmd : Byte, body : Seq(Byte)])
      BY <1>2, Zenon DEF Init
    <2>4. split \in BOOLEAN /\ state \in States
      BY DEF Init, States
    <2>5. end \in 0 .. Len(wire) /\ pos \in 0 .. end /\ start \in 0 .. pos
          /\ cmd \in Byte /\ cmdlen \in Nat
      BY <2>1, <2>2 DEF Init
    <2> QED
      BY <1>1, <2>3, <2>4, <2>5 DEF TypeOK
  <1> QED
    BY <1>3 DEF Init, IInv, Position, Gathered, Filling

(***************************************************************************)
(* What one iteration appends: the body stays a contiguous piece of the    *)
(* wire that starts right after the header.                                *)
(***************************************************************************)
LEMMA BodyAppended ==
  ASSUME IInv, ReadData
  PROVE  /\ ToCopy \in Nat
         /\ ToCopy <= cmdlen
         /\ ToCopy <= end - pos
         /\ ToCopy = cmdlen \/ pos + ToCopy = end
         /\ data \o SubSeq(wire, pos + 1, pos + ToCopy)
              = SubSeq(wire, start + 6, pos + ToCopy)
         /\ data \o SubSeq(wire, pos + 1, pos + ToCopy) \in Seq(Byte)
         /\ Len(data) = pos - start - 5
         /\ Len(data \o SubSeq(wire, pos + 1, pos + ToCopy))
              = (pos + ToCopy) - start - 5
  <1> DEFINE k == ToCopy
  <1>1. /\ wire \in Seq(Byte) /\ end \in Nat /\ end <= Len(wire)
        /\ pos \in Nat /\ pos < end /\ cmdlen \in Nat /\ start \in Nat
        /\ start + 5 <= pos
        /\ data = SubSeq(wire, start + 6, pos)
        /\ data \in Seq(Byte)
        /\ Len(wire) \in Nat
    BY LenProperties
       DEF IInv, TypeOK, Position, Gathered, ReadData, Framed!HeaderLen
  <1>2. /\ k \in Nat /\ k <= cmdlen /\ k <= end - pos
        /\ k = cmdlen \/ pos + k = end
    BY <1>1 DEF ToCopy, Minimum
  <1>3. data \o SubSeq(wire, pos + 1, pos + k) = SubSeq(wire, start + 6, pos + k)
    <2>1. /\ start + 6 \in 1 .. Len(wire) + 1
          /\ pos \in (start + 6) - 1 .. Len(wire)
          /\ pos + k \in pos .. Len(wire)
      BY <1>1, <1>2
    <2> HIDE DEF k
    <2> QED
      BY <1>1, <2>1, ConcatAdjacentSubSeq
  <1>4. \A n \in Nat : start + 5 <= n /\ n <= Len(wire) =>
          /\ SubSeq(wire, start + 6, n) \in Seq(Byte)
          /\ Len(SubSeq(wire, start + 6, n)) = n - start - 5
    <2> SUFFICES ASSUME NEW n \in Nat, start + 5 <= n, n <= Len(wire)
                 PROVE  /\ SubSeq(wire, start + 6, n) \in Seq(Byte)
                        /\ Len(SubSeq(wire, start + 6, n)) = n - start - 5
      OBVIOUS
    <2>1. \A i \in start + 6 .. n : wire[i] \in Byte
      BY <1>1, ElementOfSeq
    <2> QED
      BY <1>1, <2>1, SubSeqProperties
  <1>5. Len(data) = pos - start - 5
    BY <1>1, <1>4
  <1>6. pos + k \in Nat /\ start + 5 <= pos + k /\ pos + k <= Len(wire)
    BY <1>1, <1>2
  <1>7. /\ SubSeq(wire, start + 6, pos + k) \in Seq(Byte)
        /\ Len(SubSeq(wire, start + 6, pos + k)) = (pos + k) - start - 5
    <2>1. PICK n \in Nat : n = pos + k
      BY <1>6
    <2>2. start + 5 <= n /\ n <= Len(wire)
      BY <1>6, <2>1
    <2>3. /\ SubSeq(wire, start + 6, n) \in Seq(Byte)
          /\ Len(SubSeq(wire, start + 6, n)) = n - start - 5
      BY <1>4, <2>2
    <2> HIDE DEF k
    <2> QED
      BY <2>1, <2>3
  <1> QED
    BY <1>2, <1>3, <1>5, <1>7

(* The invariant survives the arrival of bytes and each case of the switch.*)
LEMMA StepInductive == IInv /\ [Next]_vars => IInv'
  <1> SUFFICES ASSUME IInv, [Next]_vars PROVE IInv'
    OBVIOUS
  <1> USE DEF IInv
  <1>0. /\ wire \in Seq(Byte) /\ Len(wire) \in Nat /\ end \in Nat
        /\ end <= Len(wire) /\ pos \in Nat /\ pos <= end /\ start \in Nat
        /\ \A i \in 1 .. Len(wire) : wire[i] \in Nat /\ wire[i] \in Byte
    <2>1. wire \in Seq(Byte)
      BY DEF TypeOK
    <2>2. Len(wire) \in Nat /\ \A i \in 1 .. Len(wire) : wire[i] \in Byte
      BY <2>1, LenProperties, ElementOfSeq
    <2>3. \A b \in Byte : b \in Nat
      BY DEF Byte
    <2>4. end \in Nat /\ end <= Len(wire) /\ pos \in Nat /\ pos <= end
          /\ start \in Nat
      BY <2>2 DEF TypeOK
    <2> QED
      BY <2>1, <2>2, <2>3, <2>4
  <1>1. ASSUME NEW n \in 1 .. MaxChunk, Deliver(n)
        PROVE  IInv'
    <2>1. n \in Nat \ {0}
      BY MaxChunkAssumption
    <2>2. TypeOK'
      BY <1>0, <1>1, <2>1 DEF TypeOK, Deliver, States
    <2>3. Position'
      BY <1>1 DEF Deliver, Position, Framed!BodyLen, Framed!HeaderLen
    <2>4. Gathered'
      BY <1>1 DEF Deliver, Gathered, Framed!HeaderLen
    <2>5. Filling'
      <3> SUFFICES ASSUME state' = "st_read_data"
                   PROVE  /\ Len(data') = cmdlen' => cmdlen' = 0
                          /\ cmdlen' = 0 => data' = <<>>
                          /\ ~split' => data' = <<>>
        BY DEF Filling
      <3>1. Len(data) = 0 => data = <<>>
        BY EmptySeq DEF TypeOK
      <3>2. Len(data) \in Nat
        BY LenProperties DEF TypeOK
      <3>3. ~split' => ~split /\ ~(Len(data) > 0)
        BY <1>1, Zenon DEF Deliver
      <3>4. data' = data /\ cmdlen' = cmdlen /\ state = "st_read_data"
        BY <1>1 DEF Deliver
      <3>5. Len(data) = cmdlen => cmdlen = 0
        BY <3>4 DEF Filling
      <3>6. ~split' => data = <<>>
        BY <3>1, <3>2, <3>3
      <3>7. cmdlen = 0 => data = <<>>
        BY <3>4, Zenon DEF Filling
      <3> QED
        BY <3>4, <3>5, <3>6, <3>7
    <2> QED
      BY <2>2, <2>3, <2>4, <2>5
  <1>2. CASE ReadCmd
    <2>1. Cur \in Byte /\ Cur = wire[pos + 1]
      BY <1>0, <1>2 DEF ReadCmd, Cur
    <2>2. TypeOK'
      <3>1. <<>> \in Seq(Byte)
        BY EmptySeq
      <3> QED
        <4>1. data' \in Seq(Byte) /\ frames' \in Seq([cmd : Byte, body : Seq(Byte)])
          BY <1>2, <3>1, Zenon DEF ReadCmd, TypeOK
        <4>2. split' \in BOOLEAN /\ state' \in States
          BY <1>2 DEF ReadCmd, States
        <4>3. wire' = wire /\ end' = end /\ pos' = pos + 1 /\ pos < end
              /\ start' = pos /\ cmd' = Cur /\ cmdlen' = 0
          BY <1>2 DEF ReadCmd
        <4>4. end' \in 0 .. Len(wire') /\ pos' \in 0 .. end' /\ start' \in 0 .. pos'
              /\ cmd' \in Byte /\ cmdlen' \in Nat
          BY <1>0, <2>1, <4>3
        <4> QED
          BY <1>0, <4>1, <4>2, <4>3, <4>4 DEF TypeOK
    <2>3. Position'
      BY <1>0, <1>2, <2>1 DEF ReadCmd, Position
    <2>4. Gathered' /\ Filling'
      BY <1>2 DEF ReadCmd, Gathered, Filling
    <2> QED
      BY <2>2, <2>3, <2>4
  <1>3. ASSUME NEW from \in States, NEW i \in 1 .. 4, NEW to \in States,
               ReadLen(from, i, to), from # "st_read_data",
               from # "st_read_cmd", to # "st_read_cmd",
               \/ from = "st_len_1" /\ i = 1 /\ to = "st_len_2"
               \/ from = "st_len_2" /\ i = 2 /\ to = "st_len_3"
               \/ from = "st_len_3" /\ i = 3 /\ to = "st_len_4"
               \/ from = "st_len_4" /\ i = 4 /\ to = "st_read_data"
        PROVE  IInv'
    <2>1. Cur \in Byte /\ Cur \in Nat /\ Cur = wire[pos + 1]
      BY <1>0, <1>3 DEF ReadLen, Cur
    <2>2. Cur * Shift[i] \in Nat /\ cmdlen + Cur * Shift[i] \in Nat
      <3>1. Shift[i] \in Nat
        BY Shifts
      <3>2. cmdlen \in Nat
        BY DEF TypeOK
      <3>3. \A x, y \in Nat : x * y \in Nat
        OBVIOUS
      <3>4. Cur * Shift[i] \in Nat
        BY <2>1, <3>1, <3>3
      <3> QED
        BY <3>2, <3>4
    <2>3. TypeOK'
      BY <1>0, <1>3, <2>2 DEF TypeOK, ReadLen
    <2>4. start < pos /\ cmd = wire[start + 1]
      BY <1>3 DEF ReadLen, Position
    <2>5. Position'
      <3>1. CASE from = "st_len_1"
        BY <1>0, <1>3, <2>1, <2>2, <2>4, <3>1 DEF ReadLen, Position
      <3>2. CASE from = "st_len_2"
        BY <1>0, <1>3, <2>1, <2>4, <3>2 DEF ReadLen, Position
      <3>3. CASE from = "st_len_3"
        BY <1>0, <1>3, <2>1, <2>4, <3>3 DEF ReadLen, Position
      <3>4. CASE from = "st_len_4"
        BY <1>0, <1>3, <2>1, <2>4, <3>4, Shifts
           DEF ReadLen, Position, Framed!BodyLen, Framed!HeaderLen
      <3> QED
        BY <1>3, <3>1, <3>2, <3>3, <3>4
    <2>6. data = <<>> /\ data' = <<>>
      BY <1>3 DEF ReadLen, Gathered
    <2>7. Gathered'
      <3>1. CASE to = "st_read_data"
        <4>1. pos' = start + 5 /\ start' = start /\ wire' = wire
          BY <1>0, <1>3, <3>1 DEF ReadLen, Position
        <4>2. SubSeq(wire, start + 6, start + 5) = <<>>
          BY <1>0, SubSeqEmpty
        <4> QED
          BY <2>6, <4>1, <4>2, <1>0, <1>3 DEF Gathered, ReadLen, Framed!HeaderLen
      <3>2. CASE to # "st_read_data"
        BY <1>3, <2>6, <3>2 DEF Gathered, ReadLen
      <3> QED
        BY <3>1, <3>2
    <2>8. Filling'
      <3>1. Len(<<>>) = 0
        OBVIOUS
      <3> QED
        BY <2>3, <2>6, <3>1 DEF Filling, TypeOK
    <2> QED
      BY <2>3, <2>5, <2>7, <2>8
  <1>4. CASE ReadLen1
    BY <1>3, <1>4 DEF ReadLen1, States
  <1>5. CASE ReadLen2
    BY <1>3, <1>5 DEF ReadLen2, States
  <1>6. CASE ReadLen3
    BY <1>3, <1>6 DEF ReadLen3, States
  <1>7. CASE ReadLen4
    BY <1>3, <1>7 DEF ReadLen4, States
  <1>8. CASE ReadData
    <2> DEFINE body == data \o SubSeq(wire, pos + 1, pos + ToCopy)
    <2>1. /\ ToCopy \in Nat /\ ToCopy <= cmdlen /\ ToCopy <= end - pos
          /\ ToCopy = cmdlen \/ pos + ToCopy = end
          /\ body = SubSeq(wire, start + 6, pos + ToCopy)
          /\ body \in Seq(Byte)
          /\ Len(data) = pos - start - 5
          /\ Len(body) = (pos + ToCopy) - start - 5
      BY <1>8, BodyAppended
    <2>2. /\ pos' = pos + ToCopy /\ state = "st_read_data"
          /\ wire' = wire /\ end' = end /\ cmd' = cmd /\ cmdlen' = cmdlen
          /\ start' = start /\ split' = split /\ pos < end
      BY <1>8 DEF ReadData, BodyDone
    <2>3. CASE Len(body) = cmdlen
      <3>1. /\ state' = "st_read_cmd" /\ data' = <<>>
            /\ frames' = Append(frames, [cmd |-> cmd, body |-> body])
        BY <1>8, <2>3 DEF ReadData, BodyDone
      <3>2. frames' \in Seq([cmd : Byte, body : Seq(Byte)])
        BY <2>1, <3>1, AppendProperties DEF TypeOK
      <3>3. TypeOK'
        BY <1>0, <2>1, <2>2, <3>1, <3>2 DEF TypeOK, States
      <3> QED
        BY <3>1, <3>3 DEF Position, Gathered, Filling
    <2>4. CASE Len(body) # cmdlen
      <3>1. state' = "st_read_data" /\ data' = body /\ frames' = frames
        BY <1>8, <2>2, <2>4 DEF ReadData, BodyDone
      <3>2. TypeOK'
        BY <1>0, <2>1, <2>2, <3>1 DEF TypeOK, States
      <3>3. Position'
        BY <1>0, <2>1, <2>2, <3>1 DEF Position, Framed!BodyLen, Framed!HeaderLen
      <3>4. Gathered'
        BY <1>0, <2>1, <2>2, <3>1, SMTT(30) DEF Gathered, Framed!HeaderLen
      <3>5. Filling'
        <4>1. ASSUME ~split
              PROVE  pos + ToCopy = end /\ Len(body) <= cmdlen
          <5>1. data = <<>>
            BY <2>2, <4>1, <1>8 DEF Filling, ReadData, TypeOK
          <5>2. Len(data) = 0
            BY <5>1
          <5> QED
            BY <1>0, <2>1, <2>4, <5>2 DEF TypeOK
        <4>2. cmdlen # 0
          <5>1. ASSUME cmdlen = 0 PROVE Len(data) = 0
            <6>1. data = <<>>
              BY <2>2, <5>1, Zenon DEF Filling
            <6> QED
              BY <6>1
          <5> QED
            BY <1>0, <2>1, <2>4, <5>1 DEF TypeOK
        <4> QED
          BY <2>2, <2>4, <3>1, <4>1, <4>2 DEF Filling
      <3> QED
        BY <3>2, <3>3, <3>4, <3>5
    <2> QED
      BY <2>3, <2>4
  <1>9. CASE UNCHANGED vars
    BY <1>9 DEF vars, TypeOK, Position, Gathered, Filling,
                Framed!BodyLen, Framed!HeaderLen
  <1> QED
    BY <1>1, <1>2, <1>4, <1>5, <1>6, <1>7, <1>8, <1>9 DEF Next, Step

(* The inductive invariant of CommandParser holds throughout.              *)
LEMMA Invariance == Spec => []IInv
  BY InitInductive, StepInductive, PTL DEF Spec

(***************************************************************************)
(* The variables stay in their types; in particular p never leaves the     *)
(* buffer (pos <= end).                                                    *)
(***************************************************************************)
THEOREM TypeCorrect == Spec => []TypeOK
  <1>1. IInv => TypeOK
    BY DEF IInv
  <1> QED
    BY <1>1, Invariance, PTL

(***************************************************************************)
(* A body is overrun only if a read ended inside it (session.c:77).        *)
(***************************************************************************)
THEOREM OverrunSafe == Spec => []OverrunNeedsSplitBody
  <1>1. IInv => OverrunNeedsSplitBody
    <2> SUFFICES ASSUME IInv, Overrun, ~split PROVE FALSE
      BY DEF OverrunNeedsSplitBody
    <2>1. state = "st_read_data" /\ Len(data) > cmdlen /\ cmdlen \in Nat
      BY DEF Overrun, IInv, TypeOK
    <2>2. data = <<>> \/ Len(data) <= cmdlen
      BY <2>1, Zenon DEF IInv, Filling
    <2>3. Len(<<>>) = 0
      OBVIOUS
    <2>4. Len(data) \in Nat
      BY LenProperties DEF IInv, TypeOK
    <2> QED
      BY <2>1, <2>2, <2>3, <2>4
  <1> QED
    BY <1>1, Invariance, PTL

(***************************************************************************)
(* Between two calls every command that is entirely there has been found   *)
(* complete, but for overrun ones and those without a body.                *)
(***************************************************************************)
THEOREM NothingLeft == Spec => []NothingLeftBehind
  <1>1. IInv => NothingLeftBehind
    <2> SUFFICES ASSUME IInv, pos = end, ~Overrun,
                        ~(state = "st_read_data" /\ cmdlen = 0),
                        Framed!IsComplete(wire, NextStart, end)
                 PROVE  FALSE
      BY DEF NothingLeftBehind
    <2>1. pos \in Nat /\ start \in Nat /\ cmdlen \in Nat /\ wire \in Seq(Byte)
          /\ state \in States
      <3>1. Len(wire) \in Nat
        BY LenProperties DEF IInv, TypeOK
      <3> QED
        BY <3>1 DEF IInv, TypeOK
    <2>2. NextStart + 5 <= pos
      BY DEF Framed!IsComplete, Framed!HeaderLen
    <2>3. state # "st_read_cmd" /\ NextStart = start
      BY <2>1, <2>2 DEF NextStart
    <2>4. state = "st_read_data"
      BY <2>1, <2>2, <2>3 DEF IInv, Position, States
    <2>5. cmdlen = Framed!BodyLen(wire, start) /\ start + 5 <= pos
      BY <2>4 DEF IInv, Position, Framed!HeaderLen
    <2>6. start + 5 + cmdlen <= pos
      BY <2>3, <2>5 DEF Framed!IsComplete, Framed!HeaderLen
    <2>7. Len(data) = pos - start - 5
      <3>1. data = SubSeq(wire, start + 6, pos)
        BY <2>1, <2>4 DEF IInv, Gathered, Framed!HeaderLen
      <3>2. \A i \in start + 6 .. pos : wire[i] \in Byte
        BY <2>1, ElementOfSeq DEF IInv, TypeOK
      <3> QED
        BY <2>1, <2>5, <3>1, <3>2, SubSeqProperties
    <2>8. Len(data) = cmdlen
      BY <2>1, <2>4, <2>6, <2>7 DEF Overrun
    <2> QED
      BY <2>4, <2>8 DEF IInv, Filling
  <1> QED
    BY <1>1, Invariance, PTL

(***************************************************************************)
(* An overrun body stays overrun, and nothing is delivered from then on.   *)
(***************************************************************************)
THEOREM OverrunFinal == Spec => OverrunIsFinal
  <1>1. IInv /\ [Next]_vars => [Overrun => Overrun' /\ frames' = frames]_vars
    <2> SUFFICES ASSUME IInv, Next, Overrun
                 PROVE  Overrun' /\ frames' = frames
      BY DEF vars
    <2>1. state = "st_read_data"
      BY DEF Overrun
    <2>2. ASSUME NEW n \in 1 .. MaxChunk, Deliver(n)
          PROVE  Overrun' /\ frames' = frames
      BY <2>2 DEF Deliver, Overrun
    <2>3. CASE ReadData
      <3>1. /\ Len(data) = pos - start - 5 /\ ToCopy \in Nat
            /\ Len(data \o SubSeq(wire, pos + 1, pos + ToCopy))
                 = (pos + ToCopy) - start - 5
        BY <2>3, BodyAppended
      <3>2. Len(data) > cmdlen /\ cmdlen \in Nat /\ pos \in Int /\ start \in Int
        BY DEF Overrun, IInv, TypeOK
      <3>3. Len(data \o SubSeq(wire, pos + 1, pos + ToCopy)) > cmdlen
        BY <3>1, <3>2
      <3>4. Len(data \o SubSeq(wire, pos + 1, pos + ToCopy)) # cmdlen
        BY <3>1, <3>2
      <3>5. /\ data' = data \o SubSeq(wire, pos + 1, pos + ToCopy)
            /\ frames' = frames /\ state' = state /\ cmdlen' = cmdlen
        BY <2>3, <3>4 DEF ReadData, BodyDone
      <3> QED
        BY <2>1, <3>3, <3>5 DEF Overrun
    <2> QED
      BY <2>1, <2>2, <2>3
         DEF Next, Step, ReadCmd, ReadLen1, ReadLen2, ReadLen3, ReadLen4, ReadLen
  <1> QED
    BY <1>1, Invariance, PTL DEF Spec, OverrunIsFinal

(***************************************************************************)
(* Every call of the reader returns: its iterations come to an end (lines  *)
(* 77-90).                                                                 *)
(***************************************************************************)

(* An iteration on a body copies something, or the body has no length, is  *)
(* empty, and is complete.                                                 *)
LEMMA DataMoves ==
  ASSUME IInv, state = "st_read_data", pos < end
  PROVE  /\ ToCopy \in Nat
         /\ ToCopy = 0 => data = <<>> /\ cmdlen = 0 /\ BodyDone(data)
  <1>1. cmdlen \in Nat /\ pos \in Nat /\ end \in Nat
    BY LenProperties DEF IInv, TypeOK
  <1>2. ToCopy \in Nat /\ (ToCopy = 0 => cmdlen = 0)
    BY <1>1 DEF ToCopy, Minimum
  <1>3. cmdlen = 0 => data = <<>>
    BY Zenon DEF IInv, Filling
  <1>4. Len(<<>>) = 0
    OBVIOUS
  <1>5. ToCopy = 0 => data = <<>> /\ cmdlen = 0 /\ Len(data) = cmdlen
    BY <1>2, <1>3, <1>4
  <1> QED
    BY <1>2, <1>5 DEF BodyDone

(* Each iteration, be it one that changes nothing else, leaves less to do. *)
LEMMA StepCounts ==
  ASSUME IInv, Step
  PROVE  Remaining' < Remaining /\ Remaining \in Nat
  <1>1. pos \in Nat /\ end \in Nat /\ pos <= end
    BY LenProperties DEF IInv, TypeOK
  <1>2. Remaining \in Nat
    BY <1>1 DEF Remaining
  <1>3. CASE ReadCmd
    BY <1>1, <1>3 DEF ReadCmd, Remaining
  <1>4. ASSUME NEW from \in States, NEW i \in 1 .. 4, NEW to \in States,
               ReadLen(from, i, to), from # "st_read_data"
        PROVE  Remaining' < Remaining
    <2>1. pos' = pos + 1 /\ end' = end /\ state = from /\ pos < end
      BY <1>4 DEF ReadLen
    <2> QED
      BY <1>1, <1>4, <2>1 DEF Remaining
  <1>5. CASE ReadLen1 \/ ReadLen2 \/ ReadLen3 \/ ReadLen4
    BY <1>2, <1>4, <1>5 DEF ReadLen1, ReadLen2, ReadLen3, ReadLen4, States
  <1>6. CASE ReadData
    <2>1. pos' = pos + ToCopy /\ end' = end /\ state = "st_read_data" /\ pos < end
      BY <1>6 DEF ReadData
    <2>2. ToCopy \in Nat /\ (ToCopy = 0 => data = <<>> /\ cmdlen = 0 /\ BodyDone(data))
      BY <2>1, DataMoves
    <2>3. CASE ToCopy = 0
      <3>1. SubSeq(wire, pos + 1, pos + ToCopy) = <<>>
        BY <1>1, <2>3, SubSeqEmpty DEF IInv, TypeOK
      <3>2. data \o SubSeq(wire, pos + 1, pos + ToCopy) = data
        BY <3>1, ConcatEmptySeq DEF IInv, TypeOK
      <3>3. BodyDone(data \o SubSeq(wire, pos + 1, pos + ToCopy))
        BY <2>2, <2>3, <3>2 DEF BodyDone
      <3>4. state' = "st_read_cmd"
        BY <1>6, <3>3 DEF ReadData
      <3> QED
        BY <1>1, <2>1, <2>3, <3>4 DEF Remaining
    <2>4. CASE ToCopy # 0
      <3>1. pos' >= pos + 1
        BY <1>1, <2>1, <2>2, <2>4
      <3> QED
        BY <1>1, <2>1, <2>2, <2>4, <3>1 DEF Remaining
    <2> QED
      BY <2>3, <2>4
  <1> QED
    BY <1>2, <1>3, <1>5, <1>6 DEF Step

(***************************************************************************)
(* No iteration of the state machine is for nothing, so every call ends    *)
(* after at most two iterations for each byte and one more, whatever the   *)
(* peer announces and however its reads are cut.                           *)
(***************************************************************************)
THEOREM CallsEnd == Spec => []NeverSpins /\ IterationsCount
  <1>1. IInv => NeverSpins
    <2> SUFFICES ASSUME IInv, pos < end, state = "st_read_data"
                 PROVE  ToCopy > 0 \/ (cmdlen = 0 /\ data = <<>> /\ BodyDone(data))
      BY DEF NeverSpins
    <2>1. /\ ToCopy \in Nat
          /\ ToCopy = 0 => data = <<>> /\ cmdlen = 0 /\ BodyDone(data)
      BY DataMoves
    <2> QED
      BY <2>1
  <1>2. IInv /\ [Next]_vars => [Step => Remaining' < Remaining]_vars
    BY StepCounts
  <1> QED
    BY <1>1, <1>2, Invariance, PTL DEF Spec, IterationsCount

(***************************************************************************)
(* The reader implements Framing: commands are delivered in wire order,    *)
(* each once, byte for byte, and not before they are entirely there.       *)
(***************************************************************************)
LEMMA StepRefines == IInv /\ [Next]_vars => [Framed!Next]_(Framed!vars)
  <1> SUFFICES ASSUME IInv, [Next]_vars
               PROVE  Framed!Next \/ UNCHANGED <<wire, end, NextStart, frames>>
    BY DEF Framed!vars
  <1>1. ASSUME NEW n \in 1 .. MaxChunk, Deliver(n)
        PROVE  Framed!Arrive
    <2>1. n \in Nat /\ n >= 1
      BY MaxChunkAssumption
    <2>2. end \in Nat /\ Len(wire) \in Nat
      BY LenProperties DEF IInv, TypeOK
    <2>3. end' = end + n /\ end + n <= Len(wire)
          /\ wire' = wire /\ frames' = frames /\ NextStart' = NextStart
      BY <1>1 DEF Deliver, NextStart
    <2>4. end' \in (end + 1) .. Len(wire)
      BY <2>1, <2>2, <2>3
    <2> QED
      BY <2>3, <2>4 DEF Framed!Arrive
  <1>2. CASE ReadCmd
    BY <1>2 DEF ReadCmd, NextStart
  <1>3. CASE ReadLen1 \/ ReadLen2 \/ ReadLen3 \/ ReadLen4
    BY <1>3 DEF ReadLen1, ReadLen2, ReadLen3, ReadLen4, ReadLen, NextStart
  <1>4. CASE ReadData
    <2> DEFINE body == data \o SubSeq(wire, pos + 1, pos + ToCopy)
    <2>1. /\ ToCopy \in Nat /\ ToCopy <= end - pos
          /\ body = SubSeq(wire, start + 6, pos + ToCopy)
          /\ Len(body) = (pos + ToCopy) - start - 5
      BY <1>4, BodyAppended
    <2>2. /\ pos' = pos + ToCopy /\ state = "st_read_data"
          /\ wire' = wire /\ end' = end /\ start' = start
      BY <1>4 DEF ReadData, BodyDone
    <2>3. CASE Len(body) = cmdlen
      <3>1. /\ state' = "st_read_cmd"
            /\ frames' = Append(frames, [cmd |-> cmd, body |-> body])
        BY <1>4, <2>3 DEF ReadData, BodyDone
      <3>2. /\ cmd = wire[start + 1] /\ cmdlen = Framed!BodyLen(wire, start)
            /\ start + 5 <= pos /\ NextStart = start
        BY <2>2 DEF IInv, Position, Framed!HeaderLen, NextStart
      <3>3. pos \in Nat /\ start \in Nat /\ end \in Nat /\ cmdlen \in Nat
        <4>1. Len(wire) \in Nat
          BY LenProperties DEF IInv, TypeOK
        <4> QED
          BY <4>1 DEF IInv, TypeOK
      <3>4. pos + ToCopy = start + 5 + cmdlen /\ pos + ToCopy <= end
        BY <2>1, <2>3, <3>3
      <3>5. Framed!IsComplete(wire, NextStart, end)
        <4>1. start + 5 <= end /\ start + 5 + cmdlen <= end
          BY <3>3, <3>4
        <4> QED
          BY <3>2, <4>1 DEF Framed!IsComplete, Framed!HeaderLen
      <3>6. start + 5 + 1 = start + 6
        BY <3>3
      <3>7. Framed!FrameAt(wire, NextStart) = [cmd |-> cmd, body |-> body]
        BY <2>1, <3>2, <3>4, <3>6 DEF Framed!FrameAt, Framed!HeaderLen
      <3>8. NextStart' = NextStart + Framed!HeaderLen + Framed!BodyLen(wire, NextStart)
        BY <2>2, <3>1, <3>2, <3>4 DEF NextStart, Framed!HeaderLen
      <3> QED
        BY <2>2, <3>1, <3>5, <3>7, <3>8 DEF Framed!Next, Framed!Complete
    <2>4. CASE Len(body) # cmdlen
      BY <1>4, <2>2, <2>4 DEF ReadData, BodyDone, NextStart
    <2> QED
      BY <2>3, <2>4
  <1>5. CASE UNCHANGED vars
    BY <1>5 DEF vars, NextStart
  <1> QED
    BY <1>1, <1>2, <1>3, <1>4, <1>5 DEF Next, Step, Framed!Next

(* The reader implements Framing: the commands it finds complete are those *)
(* on the wire, in order, none twice or altered (session.c:84-89).         *)
THEOREM ReaderFrames == Spec => FramesAreExact
  <1>1. Init => Framed!Init
    BY DEF Init, Framed!Init, NextStart
  <1> QED
    BY <1>1, Invariance, StepRefines, PTL DEF Spec, FramesAreExact, Framed!Spec
=============================================================================
