-------------------------- MODULE RingBufferProofs --------------------------
(***************************************************************************)
(* Proofs about CkRingBuffer for every buffer size, byte set and request   *)
(* bound: its fields stay in range, its counters agree, and it implements  *)
(* the bounded queue ByteFifo.                                             *)
(***************************************************************************)
EXTENDS RingBuffer, TLAPS

(* A quantity that fits into an int is not changed by the conversion, so   *)
(* the int variables of the calls hold the minimum they are given.         *)
LEMMA ToIntExact ==
  ASSUME NEW a \in 0..TotalSize, NEW n \in Nat
  PROVE  /\ ToInt(MinOf(a, n)) \in 0..a
         /\ ToInt(MinOf(a, n)) <= n
         /\ ToInt(MinOf(a, n)) = MinOf(a, n)
BY RingBufferAssumption DEF ToInt, MinOf

(* A position advanced by at most the buffer's size is a position.         *)
LEMMA AdvancedInRange ==
  ASSUME NEW pos \in 0..(TotalSize - 1), NEW q \in 0..TotalSize
  PROVE  /\ Advanced(pos, q) \in 0..(TotalSize - 1)
         /\ \/ Advanced(pos, q) = pos + q
            \/ Advanced(pos, q) = pos + q - TotalSize
BY RingBufferAssumption DEF Advanced

(* The copy in two parts stores bytes of the source only.                  *)
LEMMA WrittenType ==
  ASSUME TypeOK, NEW n \in Nat, NEW src \in [1..n -> Byte],
         NEW q \in 0..TotalSize, q <= n
  PROVE  Written(src, q) \in [0..(TotalSize - 1) -> Byte]
<1> SUFFICES ASSUME NEW i \in 0..(TotalSize - 1)
             PROVE  (IF m_nWritePos <= i /\ i < m_nWritePos + q
                     THEN src[i - m_nWritePos + 1]
                     ELSE IF i < m_nWritePos + q - TotalSize
                          THEN src[TotalSize - m_nWritePos + i + 1]
                          ELSE m_pRingBuffer[i]) \in Byte
  BY DEF Written
<1>1. CASE m_nWritePos <= i /\ i < m_nWritePos + q
  <2>1. i - m_nWritePos + 1 \in 1..n
    BY <1>1, RingBufferAssumption DEF TypeOK
  <2> QED BY <1>1, <2>1
<1>2. CASE ~(m_nWritePos <= i /\ i < m_nWritePos + q)
           /\ i < m_nWritePos + q - TotalSize
  <2>1. TotalSize - m_nWritePos + i + 1 \in 1..n
    BY <1>2, RingBufferAssumption DEF TypeOK
  <2> QED BY <1>2, <2>1
<1>3. CASE ~(m_nWritePos <= i /\ i < m_nWritePos + q)
           /\ ~(i < m_nWritePos + q - TotalSize)
  BY <1>3 DEF TypeOK
<1> QED BY <1>1, <1>2, <1>3

(* A read of at most TotalSize bytes delivers that many bytes.             *)
LEMMA StoredType ==
  ASSUME TypeOK, NEW q \in 0..TotalSize
  PROVE  /\ Stored(q) \in [1..q -> Byte]
         /\ Stored(q) \in Seq(Byte)
         /\ Len(Stored(q)) = q
<1>1. ASSUME NEW k \in 1..q
      PROVE  (IF k <= TotalSize - m_nReadPos
              THEN m_pRingBuffer[m_nReadPos + k - 1]
              ELSE m_pRingBuffer[k - (TotalSize - m_nReadPos) - 1]) \in Byte
  <2>1. CASE k <= TotalSize - m_nReadPos
    <3>1. m_nReadPos + k - 1 \in 0..(TotalSize - 1)
      BY <2>1, RingBufferAssumption DEF TypeOK
    <3> QED BY <2>1, <3>1 DEF TypeOK
  <2>2. CASE ~(k <= TotalSize - m_nReadPos)
    <3>1. k - (TotalSize - m_nReadPos) - 1 \in 0..(TotalSize - 1)
      BY <2>2, RingBufferAssumption DEF TypeOK
    <3> QED BY <2>2, <3>1 DEF TypeOK
  <2> QED BY <2>1, <2>2
<1>2. Stored(q) \in [1..q -> Byte]
  BY <1>1 DEF Stored
<1>3. q \in Nat
  BY RingBufferAssumption
<1> QED BY <1>2, <1>3

-----------------------------------------------------------------------------
(* The inductive invariant: types and counters together. *)
IInv == TypeOK /\ PositionsAgree

LEMMA InitIInv == Init => IInv
BY RingBufferAssumption
   DEF Init, IInv, TypeOK, PositionsAgree, GetUsageSize

LEMMA PushIInv ==
  ASSUME IInv, NEW n \in 0..MaxRequest, NEW src \in [1..n -> Byte],
         PushBytes(src, n)
  PROVE  IInv'
<1> DEFINE q == ToInt(MinOf(m_nRemainSize, n))
<1>1. CASE ReturnZero
  BY <1>1, RingBufferAssumption
     DEF IInv, TypeOK, PositionsAgree, GetUsageSize, ReturnZero
<1>2. CASE ~ReturnZero
  <2>1. /\ m_nRemainSize # 0 /\ n # 0
        /\ m_pRingBuffer' = Written(src, q)
        /\ m_nWritePos' = Advanced(m_nWritePos, q)
        /\ m_nRemainSize' = m_nRemainSize - q
        /\ pDescBuff' = <<>>
        /\ nRet' = q
        /\ m_nReadPos' = m_nReadPos
    BY <1>2 DEF PushBytes
  <2>2. n \in Nat /\ q \in 0..m_nRemainSize /\ q \in 0..TotalSize /\ q <= n
    <3>1. m_nRemainSize \in 0..TotalSize /\ n \in Nat
      BY DEF IInv, TypeOK
    <3>2. q \in 0..m_nRemainSize /\ q <= n
      BY <3>1, ToIntExact
    <3> HIDE DEF q
    <3> QED BY <3>1, <3>2, RingBufferAssumption
  <2>3. TotalSize > 0 /\ m_nWritePos \in 0..(TotalSize - 1)
    BY <2>1, RingBufferAssumption DEF IInv, TypeOK
  <2>4. m_pRingBuffer' \in [0..(TotalSize - 1) -> Byte]
    BY <2>1, <2>2, WrittenType DEF IInv
  <2>5. /\ m_nWritePos' \in 0..(TotalSize - 1)
        /\ \/ m_nWritePos' = m_nWritePos + q
           \/ m_nWritePos' = m_nWritePos + q - TotalSize
    BY <2>1, <2>2, <2>3, AdvancedInRange
  <2> HIDE DEF q
  <2>6. TypeOK'
    BY <2>1, <2>2, <2>3, <2>4, <2>5, RingBufferAssumption DEF IInv, TypeOK
  <2>7. PositionsAgree'
    BY <2>1, <2>2, <2>3, <2>5, RingBufferAssumption
       DEF IInv, TypeOK, PositionsAgree, GetUsageSize
  <2> QED BY <2>6, <2>7 DEF IInv
<1> QED BY <1>1, <1>2

(* PopBytes and SkipBytes move the read position and free what they pass.  *)
LEMMA TakeIInv ==
  ASSUME IInv, NEW q \in 0..GetUsageSize, q # 0,
         m_nReadPos' = Advanced(m_nReadPos, q),
         m_nRemainSize' = m_nRemainSize + q,
         nRet' = q,
         pDescBuff' \in Seq(Byte),
         UNCHANGED <<m_pRingBuffer, m_nWritePos>>
  PROVE  IInv'
<1>1. TotalSize > 0 /\ m_nReadPos \in 0..(TotalSize - 1) /\ q \in 0..TotalSize
  BY RingBufferAssumption DEF IInv, TypeOK, GetUsageSize
<1>2. /\ m_nReadPos' \in 0..(TotalSize - 1)
      /\ \/ m_nReadPos' = m_nReadPos + q
         \/ m_nReadPos' = m_nReadPos + q - TotalSize
  BY <1>1, AdvancedInRange
<1>3. TypeOK'
  BY <1>1, <1>2, RingBufferAssumption DEF IInv, TypeOK, GetUsageSize
<1>4. PositionsAgree'
  <2>1. GetUsageSize' = GetUsageSize - q /\ m_nWritePos' = m_nWritePos
    BY RingBufferAssumption DEF IInv, TypeOK, GetUsageSize
  <2>2. CASE m_nWritePos = m_nReadPos + GetUsageSize
    BY <2>1, <2>2, <1>1, <1>2, RingBufferAssumption
       DEF IInv, TypeOK, PositionsAgree, GetUsageSize
  <2>3. CASE m_nWritePos = m_nReadPos + GetUsageSize - TotalSize
    BY <2>1, <2>3, <1>1, <1>2, RingBufferAssumption
       DEF IInv, TypeOK, PositionsAgree, GetUsageSize
  <2> QED BY <2>2, <2>3 DEF IInv, PositionsAgree
<1> QED BY <1>3, <1>4 DEF IInv

LEMMA ReadIInv ==
  ASSUME IInv, NEW n \in 0..MaxRequest,
         PopBytes(n) \/ CopyBytes(n) \/ SkipBytes(n)
  PROVE  IInv'
<1> DEFINE q == ToInt(MinOf(GetUsageSize, n))
<1>1. CASE ReturnZero
  BY <1>1, RingBufferAssumption
     DEF IInv, TypeOK, PositionsAgree, GetUsageSize, ReturnZero
<1>2. /\ GetUsageSize \in 0..TotalSize
      /\ q \in 0..GetUsageSize /\ q \in 0..TotalSize
      /\ GetUsageSize # 0 /\ n # 0 => q # 0
  <2>1. GetUsageSize \in 0..TotalSize /\ n \in Nat
    BY RingBufferAssumption DEF IInv, TypeOK, GetUsageSize
  <2>2. q \in 0..GetUsageSize /\ q = MinOf(GetUsageSize, n)
    BY <2>1, ToIntExact
  <2>3. GetUsageSize # 0 /\ n # 0 => MinOf(GetUsageSize, n) # 0
    BY <2>1 DEF MinOf
  <2> QED BY <2>1, <2>2, <2>3, RingBufferAssumption
<1>3. Stored(q) \in Seq(Byte) /\ <<>> \in Seq(Byte)
  BY <1>2, StoredType DEF IInv
<1>4. CASE PopBytes(n) /\ ~ReturnZero
  BY <1>2, <1>3, <1>4, TakeIInv DEF PopBytes
<1>5. CASE SkipBytes(n) /\ ~ReturnZero
  BY <1>2, <1>3, <1>5, TakeIInv DEF SkipBytes
<1>6. CASE CopyBytes(n) /\ ~ReturnZero
  <2>1. /\ pDescBuff' = Stored(q) /\ nRet' = q
        /\ UNCHANGED <<m_pRingBuffer, m_nWritePos, m_nReadPos, m_nRemainSize>>
    BY <1>6 DEF CopyBytes
  <2> HIDE DEF q
  <2> QED
    BY <2>1, <1>2, <1>3 DEF IInv, TypeOK, PositionsAgree, GetUsageSize
<1> QED BY <1>1, <1>4, <1>5, <1>6

LEMMA ClearIInv == ASSUME ClearBuffer PROVE IInv'
BY RingBufferAssumption
   DEF ClearBuffer, IInv, TypeOK, PositionsAgree, GetUsageSize

LEMMA NextIInv == IInv /\ [Next]_vars => IInv'
<1> SUFFICES ASSUME IInv, [Next]_vars PROVE IInv'
  OBVIOUS
<1>1. ASSUME NEW n \in 0..MaxRequest, NEW src \in [1..n -> Byte],
             PushBytes(src, n)
      PROVE  IInv'
  BY <1>1, PushIInv
<1>2. ASSUME NEW n \in 0..MaxRequest,
             PopBytes(n) \/ CopyBytes(n) \/ SkipBytes(n)
      PROVE  IInv'
  BY <1>2, ReadIInv
<1>3. CASE ClearBuffer
  BY <1>3, ClearIInv
<1>4. CASE UNCHANGED vars
  BY <1>4 DEF vars, IInv, TypeOK, PositionsAgree, GetUsageSize
<1> QED BY <1>1, <1>2, <1>3, <1>4 DEF Next

(* No sequence of calls drives a position out of the array or the          *)
(* remaining size out of 0..TotalSize, whatever the size and the requests. *)
THEOREM TypeCorrect == Spec => []TypeOK
<1>1. IInv => TypeOK
  BY DEF IInv
<1> QED BY InitIInv, NextIInv, <1>1, PTL DEF Spec

(* The write position is always the read position advanced by the bytes in *)
(* use, although no call compares them.                                    *)
THEOREM CountersAgree == Spec => []PositionsAgree
<1>1. IInv => PositionsAgree
  BY DEF IInv
<1> QED BY InitIInv, NextIInv, <1>1, PTL DEF Spec

-----------------------------------------------------------------------------
(* Refinement: the used part of the array is the queue of ByteFifo.        *)

(* Contents is a sequence of GetUsageSize bytes.                           *)
LEMMA ContentsType ==
  ASSUME IInv
  PROVE  /\ GetUsageSize \in 0..TotalSize
         /\ Contents \in [1..GetUsageSize -> Byte]
         /\ Len(Contents) = GetUsageSize
         /\ m_nRemainSize = TotalSize - Len(Contents)
<1>1. GetUsageSize \in 0..TotalSize /\ TypeOK
  BY RingBufferAssumption DEF IInv, TypeOK, GetUsageSize
<1>2. /\ Contents \in [1..GetUsageSize -> Byte]
      /\ Len(Contents) = GetUsageSize
  BY <1>1, StoredType DEF Contents
<1> QED BY <1>1, <1>2, RingBufferAssumption DEF GetUsageSize, IInv, TypeOK

(* A read delivers the front of the queue.                                 *)
LEMMA StoredIsFront ==
  ASSUME IInv, NEW q \in 0..GetUsageSize
  PROVE  Stored(q) = Fifo!Front(q)
<1>1. ASSUME NEW i \in 1..q
      PROVE  /\ i \in 1..GetUsageSize
             /\ Stored(q)[i] = Contents[i]
  <2>1. i \in 1..GetUsageSize
    BY RingBufferAssumption DEF IInv, TypeOK, GetUsageSize
  <2> QED BY <2>1 DEF Stored, Contents
<1> QED BY <1>1 DEF Stored, Fifo!Front

(* After the read position has moved by q, the queue has lost its first q. *)
LEMMA TakeContents ==
  ASSUME IInv, NEW q \in 0..GetUsageSize, q # 0,
         m_nReadPos' = Advanced(m_nReadPos, q),
         m_nRemainSize' = m_nRemainSize + q,
         m_pRingBuffer' = m_pRingBuffer
  PROVE  Contents' = Fifo!After(q)
<1> DEFINE u == GetUsageSize
<1>1. /\ u \in 0..TotalSize /\ u \in Nat /\ q \in 1..u
      /\ TotalSize > 0 /\ TotalSize \in Nat
      /\ m_nReadPos \in 0..(TotalSize - 1)
      /\ Len(Contents) = u
      /\ GetUsageSize' = u - q
  BY ContentsType, RingBufferAssumption DEF IInv, TypeOK, GetUsageSize
<1>2. \/ m_nReadPos' = m_nReadPos + q /\ m_nReadPos + q < TotalSize
      \/ m_nReadPos' = m_nReadPos + q - TotalSize /\ m_nReadPos + q >= TotalSize
  BY <1>1 DEF Advanced
<1>3. Contents' = [k \in 1..(u - q) |->
                     IF k <= TotalSize - m_nReadPos'
                     THEN m_pRingBuffer[m_nReadPos' + k - 1]
                     ELSE m_pRingBuffer[k - (TotalSize - m_nReadPos') - 1]]
  BY <1>1 DEF Contents, Stored
<1>4. Contents = [k \in 1..u |->
                     IF k <= TotalSize - m_nReadPos
                     THEN m_pRingBuffer[m_nReadPos + k - 1]
                     ELSE m_pRingBuffer[k - (TotalSize - m_nReadPos) - 1]]
  BY DEF Contents, Stored
<1>5. Fifo!After(q) = [k \in 1..(u - q) |-> Contents[k + q]]
  BY <1>1 DEF Fifo!After
<1> HIDE DEF u
<1>6. ASSUME NEW k \in 1..(u - q)
      PROVE  Contents'[k] = Contents[k + q]
  <2>1. k + q \in 1..u
    BY <1>1
  <2>2. Contents[k + q] =
          IF k + q <= TotalSize - m_nReadPos
          THEN m_pRingBuffer[m_nReadPos + (k + q) - 1]
          ELSE m_pRingBuffer[(k + q) - (TotalSize - m_nReadPos) - 1]
    BY <2>1, <1>4
  <2>3. Contents'[k] =
          IF k <= TotalSize - m_nReadPos'
          THEN m_pRingBuffer[m_nReadPos' + k - 1]
          ELSE m_pRingBuffer[k - (TotalSize - m_nReadPos') - 1]
    BY <1>3
  <2>4. CASE m_nReadPos' = m_nReadPos + q
    <3>1. /\ m_nReadPos' + k - 1 = m_nReadPos + (k + q) - 1
          /\ k - (TotalSize - m_nReadPos') - 1
               = (k + q) - (TotalSize - m_nReadPos) - 1
          /\ (k <= TotalSize - m_nReadPos') <=> (k + q <= TotalSize - m_nReadPos)
      BY <2>4, <1>1
    <3> QED BY <3>1, <2>2, <2>3
  <2>5. CASE /\ m_nReadPos' = m_nReadPos + q - TotalSize
             /\ m_nReadPos + q >= TotalSize
    <3>1. /\ m_nReadPos' + k - 1 = (k + q) - (TotalSize - m_nReadPos) - 1
          /\ k <= TotalSize - m_nReadPos'
          /\ ~(k + q <= TotalSize - m_nReadPos)
      BY <2>5, <1>1
    <3> QED BY <3>1, <2>2, <2>3
  <2> QED BY <1>2, <2>4, <2>5
<1> QED BY <1>3, <1>5, <1>6

(* After a push of q bytes, the queue is the old one and then those bytes. *)
LEMMA PushContents ==
  ASSUME IInv, NEW n \in Nat, NEW src \in [1..n -> Byte],
         NEW q \in 1..m_nRemainSize, q <= n,
         m_pRingBuffer' = Written(src, q),
         m_nRemainSize' = m_nRemainSize - q,
         m_nReadPos' = m_nReadPos
  PROVE  Contents' = [i \in 1..(GetUsageSize + q) |->
                        IF i <= GetUsageSize THEN Contents[i]
                        ELSE src[i - GetUsageSize]]
<1> DEFINE u == GetUsageSize
           r == TotalSize - m_nReadPos
<1>1. /\ u \in Nat /\ u + q <= TotalSize /\ q \in Nat /\ q > 0
      /\ TotalSize \in Nat /\ TotalSize > 0
      /\ m_nReadPos \in 0..(TotalSize - 1) /\ m_nWritePos \in 0..(TotalSize - 1)
      /\ GetUsageSize' = u + q
      /\ m_nWritePos = m_nReadPos + u \/ m_nWritePos = m_nReadPos + u - TotalSize
  BY RingBufferAssumption DEF IInv, TypeOK, PositionsAgree, GetUsageSize
<1>2. Contents' = [k \in 1..(u + q) |->
                     IF k <= r THEN m_pRingBuffer'[m_nReadPos + k - 1]
                               ELSE m_pRingBuffer'[k - r - 1]]
  BY <1>1 DEF Contents, Stored
<1>3. Contents = [k \in 1..u |->
                     IF k <= r THEN m_pRingBuffer[m_nReadPos + k - 1]
                               ELSE m_pRingBuffer[k - r - 1]]
  BY DEF Contents, Stored
<1>4. \A i \in 0..(TotalSize - 1) :
        m_pRingBuffer'[i] =
          IF m_nWritePos <= i /\ i < m_nWritePos + q
          THEN src[i - m_nWritePos + 1]
          ELSE IF i < m_nWritePos + q - TotalSize
               THEN src[TotalSize - m_nWritePos + i + 1]
               ELSE m_pRingBuffer[i]
  BY DEF Written
<1>5. r \in 1..TotalSize /\ m_nReadPos = TotalSize - r
  BY <1>1
<1> HIDE DEF u, r
<1>6. ASSUME NEW k \in 1..(u + q)
      PROVE  Contents'[k] = IF k <= u THEN Contents[k] ELSE src[k - u]
  <2> DEFINE p == IF k <= r THEN m_nReadPos + k - 1 ELSE k - r - 1
  <2>1. p \in 0..(TotalSize - 1)
    BY <1>1, <1>5
  <2>2. Contents'[k] = m_pRingBuffer'[p]
    BY <1>2
  <2>3. \/ p = m_nReadPos + k - 1
        \/ p = m_nReadPos + k - 1 - TotalSize
    BY <1>1, <1>5
  <2>4. k \in Int
    OBVIOUS
  <2>5. CASE k <= u
    <3>1. Contents[k] = m_pRingBuffer[p]
      BY <2>5, <1>3, <1>1
    <3> HIDE DEF p
    <3>2. /\ ~(m_nWritePos <= p /\ p < m_nWritePos + q)
          /\ ~(p < m_nWritePos + q - TotalSize)
      BY <2>1, <2>3, <2>4, <2>5, <1>1
    <3>3. m_pRingBuffer'[p] = m_pRingBuffer[p]
      BY <3>2, <2>1, <1>4
    <3> QED BY <3>1, <3>3, <2>2, <2>5
  <2>6. CASE ~(k <= u)
    <3> HIDE DEF p
    <3>1. CASE m_nWritePos <= p /\ p < m_nWritePos + q
      <4>1. p - m_nWritePos + 1 = k - u
        BY <3>1, <2>1, <2>3, <2>4, <2>6, <1>1
      <4> QED BY <4>1, <3>1, <2>1, <2>2, <2>6, <1>4
    <3>2. CASE ~(m_nWritePos <= p /\ p < m_nWritePos + q)
      <4>1. /\ p < m_nWritePos + q - TotalSize
            /\ TotalSize - m_nWritePos + p + 1 = k - u
        BY <3>2, <2>1, <2>3, <2>4, <2>6, <1>1
      <4> QED BY <4>1, <3>2, <2>1, <2>2, <2>6, <1>4
    <3> QED BY <3>1, <3>2
  <2> QED BY <2>5, <2>6
<1> QED BY <1>2, <1>6 DEF u

(* A call that returns early leaves the queue alone.                       *)
LEMMA QueueIsItself ==
  ASSUME IInv, NEW src
  PROVE  /\ Contents = [i \in 1..(Len(Contents) + 0) |->
                          IF i <= Len(Contents) THEN Contents[i]
                          ELSE src[i - Len(Contents)]]
         /\ Contents = Fifo!After(0)
         /\ Fifo!Front(0) = <<>>
BY ContentsType DEF Fifo!After, Fifo!Front

LEMMA ReturnZeroContents == ASSUME ReturnZero PROVE Contents' = Contents
BY DEF ReturnZero, Contents, Stored, GetUsageSize

(* Each call is the queue's operation of the same name. *)
LEMMA PushSimulates ==
  ASSUME IInv, NEW n \in 0..MaxRequest, NEW src \in [1..n -> Byte],
         PushBytes(src, n)
  PROVE  Fifo!Push(src, n)
<1> DEFINE q == ToInt(MinOf(m_nRemainSize, n))
<1>0. call' = <<"Push", n, src>>
  BY DEF PushBytes
<1>1. /\ n \in Nat /\ m_nRemainSize \in 0..TotalSize
      /\ q \in 0..m_nRemainSize /\ q <= n /\ q = MinOf(m_nRemainSize, n)
  <2>1. n \in Nat /\ m_nRemainSize \in 0..TotalSize
    BY DEF IInv, TypeOK
  <2> QED BY <2>1, ToIntExact
<1>2. /\ TotalSize - Len(Contents) = m_nRemainSize
      /\ Len(Contents) = GetUsageSize
  BY ContentsType, RingBufferAssumption DEF IInv, TypeOK
<1>3. Fifo!AtMost(TotalSize - Len(Contents), n) = q
  BY <1>1, <1>2 DEF Fifo!AtMost, MinOf
<1>4. CASE /\ 0 = m_nRemainSize \/ 0 = n
           /\ ReturnZero
  <2>1. q = 0
    BY <1>4, <1>1 DEF MinOf
  <2>2. Contents' = Contents /\ pDescBuff' = <<>> /\ nRet' = 0
    BY <1>4, ReturnZeroContents DEF ReturnZero
  <2> HIDE DEF q
  <2> QED BY <1>0, <2>1, <2>2, <1>3, QueueIsItself DEF Fifo!Push
<1>5. CASE /\ 0 # m_nRemainSize /\ 0 # n
           /\ m_pRingBuffer' = Written(src, q)
           /\ m_nRemainSize' = m_nRemainSize - q
           /\ pDescBuff' = <<>>
           /\ nRet' = q
           /\ UNCHANGED m_nReadPos
  <2>1. q \in 1..m_nRemainSize
    <3>1. q # 0
      BY <1>5, <1>1 DEF MinOf
    <3> HIDE DEF q
    <3> QED BY <3>1, <1>1
  <2> HIDE DEF q
  <2>2. Contents' = [i \in 1..(GetUsageSize + q) |->
                       IF i <= GetUsageSize THEN Contents[i]
                       ELSE src[i - GetUsageSize]]
    BY <2>1, <1>1, <1>5, PushContents
  <2> QED BY <1>0, <2>2, <1>2, <1>3, <1>5 DEF Fifo!Push
<1> QED BY <1>4, <1>5 DEF PushBytes

LEMMA ReadSimulates ==
  ASSUME IInv, NEW n \in 0..MaxRequest
  PROVE  /\ PopBytes(n) => Fifo!Pop(n)
         /\ CopyBytes(n) => Fifo!Copy(n)
         /\ SkipBytes(n) => Fifo!Skip(n)
<1> DEFINE q == ToInt(MinOf(GetUsageSize, n))
<1>1. /\ n \in Nat /\ GetUsageSize \in 0..TotalSize
      /\ Len(Contents) = GetUsageSize
      /\ q \in 0..GetUsageSize /\ q = MinOf(GetUsageSize, n)
  <2>1. n \in Nat /\ GetUsageSize \in 0..TotalSize
    BY ContentsType
  <2> QED BY <2>1, ToIntExact, ContentsType
<1>2. Fifo!AtMost(Len(Contents), n) = q
  BY <1>1 DEF Fifo!AtMost, MinOf
<1>3. ASSUME 0 = GetUsageSize \/ 0 = n, ReturnZero
      PROVE  /\ call' = <<"Pop", n, <<>>>> => Fifo!Pop(n)
             /\ call' = <<"Copy", n, <<>>>> => Fifo!Copy(n)
             /\ call' = <<"Skip", n, <<>>>> => Fifo!Skip(n)
  <2>1. q = 0
    BY <1>3, <1>1 DEF MinOf
  <2>2. Contents' = Contents /\ pDescBuff' = <<>> /\ nRet' = 0
    BY <1>3, ReturnZeroContents DEF ReturnZero
  <2> HIDE DEF q
  <2> QED BY <2>1, <2>2, <1>2, QueueIsItself DEF Fifo!Pop, Fifo!Copy, Fifo!Skip
<1>4. ASSUME 0 # GetUsageSize, 0 # n
      PROVE  q # 0
  BY <1>4, <1>1 DEF MinOf
<1>5. Stored(q) = Fifo!Front(q)
  BY <1>1, StoredIsFront
<1>6. ASSUME 0 # GetUsageSize, 0 # n,
             m_nReadPos' = Advanced(m_nReadPos, q),
             m_nRemainSize' = m_nRemainSize + q,
             m_pRingBuffer' = m_pRingBuffer
      PROVE  Contents' = Fifo!After(q)
  BY <1>6, <1>4, <1>1, TakeContents
<1>7. PopBytes(n) => Fifo!Pop(n)
  <2>1. CASE /\ call' = <<"Pop", n, <<>>>>
             /\ 0 # GetUsageSize /\ 0 # n
             /\ pDescBuff' = Stored(q)
             /\ m_nReadPos' = Advanced(m_nReadPos, q)
             /\ m_nRemainSize' = m_nRemainSize + q
             /\ nRet' = q
             /\ UNCHANGED <<m_pRingBuffer, m_nWritePos>>
    <3>1. Contents' = Fifo!After(q)
      BY <2>1, <1>6
    <3> HIDE DEF q
    <3> QED BY <2>1, <3>1, <1>2, <1>5 DEF Fifo!Pop
  <2> QED BY <2>1, <1>3 DEF PopBytes
<1>8. SkipBytes(n) => Fifo!Skip(n)
  <2>1. CASE /\ call' = <<"Skip", n, <<>>>>
             /\ 0 # GetUsageSize /\ 0 # n
             /\ m_nReadPos' = Advanced(m_nReadPos, q)
             /\ m_nRemainSize' = m_nRemainSize + q
             /\ pDescBuff' = <<>>
             /\ nRet' = q
             /\ UNCHANGED <<m_pRingBuffer, m_nWritePos>>
    <3>1. Contents' = Fifo!After(q)
      BY <2>1, <1>6
    <3> HIDE DEF q
    <3> QED BY <2>1, <3>1, <1>2 DEF Fifo!Skip
  <2> QED BY <2>1, <1>3 DEF SkipBytes
<1>9. CopyBytes(n) => Fifo!Copy(n)
  <2>1. CASE /\ call' = <<"Copy", n, <<>>>>
             /\ 0 # GetUsageSize /\ 0 # n
             /\ pDescBuff' = Stored(q)
             /\ nRet' = q
             /\ UNCHANGED <<m_pRingBuffer, m_nWritePos, m_nReadPos, m_nRemainSize>>
    <3>1. Contents' = Contents
      BY <2>1 DEF Contents, Stored, GetUsageSize
    <3> HIDE DEF q
    <3> QED BY <2>1, <3>1, <1>2, <1>5 DEF Fifo!Copy
  <2> QED BY <2>1, <1>3 DEF CopyBytes
<1> QED BY <1>7, <1>8, <1>9

LEMMA ClearSimulates == ASSUME ClearBuffer PROVE Fifo!Clear
<1>1. GetUsageSize' = 0
  BY RingBufferAssumption DEF ClearBuffer, GetUsageSize
<1>2. Contents' = <<>>
  BY <1>1 DEF Contents, Stored
<1> QED BY <1>2 DEF ClearBuffer, Fifo!Clear

LEMMA InitSimulates == Init => Fifo!Init
<1> SUFFICES ASSUME Init PROVE Fifo!Init
  OBVIOUS
<1>1. GetUsageSize = 0
  BY RingBufferAssumption DEF Init, GetUsageSize
<1>2. Contents = <<>>
  BY <1>1 DEF Contents, Stored
<1> QED BY <1>2 DEF Init, Fifo!Init

LEMMA NextSimulates == IInv /\ [Next]_vars => [Fifo!Next]_(Fifo!vars)
<1> SUFFICES ASSUME IInv, [Next]_vars
             PROVE  Fifo!Next \/ UNCHANGED Fifo!vars
  OBVIOUS
<1>1. ASSUME NEW n \in 0..MaxRequest, NEW src \in [1..n -> Byte],
             PushBytes(src, n)
      PROVE  Fifo!Next
  <2>1. Fifo!Push(src, n)
    BY <1>1, PushSimulates
  <2> QED BY <2>1 DEF Fifo!Next
<1>2. ASSUME NEW n \in 0..MaxRequest,
             PopBytes(n) \/ CopyBytes(n) \/ SkipBytes(n)
      PROVE  Fifo!Next
  <2>1. Fifo!Pop(n) \/ Fifo!Copy(n) \/ Fifo!Skip(n)
    BY <1>2, ReadSimulates
  <2> QED BY <2>1 DEF Fifo!Next
<1>3. CASE ClearBuffer
  BY <1>3, ClearSimulates DEF Fifo!Next
<1>4. CASE UNCHANGED vars
  BY <1>4 DEF vars, Fifo!vars, Contents, Stored, GetUsageSize
<1> QED BY <1>1, <1>2, <1>3, <1>4 DEF Next

(* CkRingBuffer is a bounded FIFO queue for every buffer size: no byte is  *)
(* lost, repeated, reordered or overwritten by the copies in two parts,    *)
(* and every call returns the number of bytes it handled.                  *)
THEOREM ImplementsFifo == Spec => FifoSpec
BY InitIInv, NextIInv, InitSimulates, NextSimulates, PTL
   DEF Spec, FifoSpec, Fifo!Spec
=============================================================================
