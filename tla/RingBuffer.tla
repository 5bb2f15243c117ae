----------------------------- MODULE RingBuffer -----------------------------
(***************************************************************************)
(* CkRingBuffer (Hpp/CkRingBuffer.hpp): a byte queue in a circular array.  *)
(* The fields keep their names.  One action is one call of a member        *)
(* function; the class has no lock, so calls do not overlap.               *)
(*                                                                         *)
(* size_t and int are 32 bits wide in the Win32 build.  The quantities     *)
(* min(...) are size_t values stored in an int (lines 100, 128, 156, 176): *)
(* ToInt is that conversion, IntMax the largest int.                       *)
(***************************************************************************)
EXTENDS Integers, Sequences

CONSTANTS Byte,        \* the values of a char
          Zero,        \* the char 0x00 that memset writes
          TotalSize,   \* nBuffSize, the argument of the constructor
          IntMax,      \* the largest value of an int
          MaxRequest   \* bound: the largest nNumOfBytes of a call

(* A Win32 process cannot allocate more than IntMax bytes; a buffer of no  *)
(* bytes is legal (new char[0]).                                           *)
ASSUME RingBufferAssumption ==
  /\ Zero \in Byte
  /\ IntMax \in Nat
  /\ TotalSize \in 0..IntMax
  /\ MaxRequest \in Nat

VARIABLES m_pRingBuffer,  \* the array, indexed 0..TotalSize-1
          m_nWritePos,
          m_nReadPos,
          m_nRemainSize,
          pDescBuff,      \* the bytes the last call stored for its caller
          nRet,           \* what the last call returned
          call            \* history: the last call and its arguments

vars == <<m_pRingBuffer, m_nWritePos, m_nReadPos, m_nRemainSize,
          pDescBuff, nRet, call>>

-----------------------------------------------------------------------------
MinOf(a, b) == IF a < b THEN a ELSE b

(* The value an int holds after a size_t n is stored in it. *)
ToInt(n) == IF n <= IntMax THEN n ELSE n - 2 * (IntMax + 1)

GetUsageSize == TotalSize - m_nRemainSize

(* Mistakes this arithmetic invites, which the runs must notice: the second*)
(* part copied from the start of the source again; a position that wraps   *)
(* only after the end; a clear that leaves the read position behind.       *)
WrittenFromStart(src, q) ==
  [i \in 0..(TotalSize - 1) |->
     IF m_nWritePos <= i /\ i < m_nWritePos + q
     THEN src[i - m_nWritePos + 1]
     ELSE IF i < m_nWritePos + q - TotalSize THEN src[i + 1]
          ELSE m_pRingBuffer[i]]

AdvancedPastEnd(pos, q) ==
  IF pos + q <= TotalSize THEN pos + q ELSE pos + q - TotalSize

ClearButReadPos ==
  /\ m_pRingBuffer' = [i \in 0..(TotalSize - 1) |-> Zero]
  /\ m_nWritePos' = 0
  /\ m_nRemainSize' = TotalSize
  /\ pDescBuff' = <<>>
  /\ nRet' = 0
  /\ call' = <<"Clear", 0, <<>>>>
  /\ UNCHANGED m_nReadPos

(* memcpy of the first part of q bytes up to the end of the array and of   *)
(* the second part to its start.                                           *)
Written(src, q) ==
  LET nCopyBytesR == TotalSize - m_nWritePos
  IN  [i \in 0..(TotalSize - 1) |->
         IF m_nWritePos <= i /\ i < m_nWritePos + q
         THEN src[i - m_nWritePos + 1]
         ELSE IF i < m_nWritePos + q - TotalSize
              THEN src[nCopyBytesR + i + 1]
              ELSE m_pRingBuffer[i]]

(* The q bytes from m_nReadPos to the end of the array and on at its start.*)
Stored(q) ==
  LET nCopyBytesR == TotalSize - m_nReadPos
  IN  [k \in 1..q |-> IF k <= nCopyBytesR
                      THEN m_pRingBuffer[m_nReadPos + k - 1]
                      ELSE m_pRingBuffer[k - nCopyBytesR - 1]]

(* Where a position stands after q more bytes. *)
Advanced(pos, q) ==
  IF pos + q < TotalSize THEN pos + q ELSE pos + q - TotalSize

-----------------------------------------------------------------------------
Init ==
  /\ m_pRingBuffer = [i \in 0..(TotalSize - 1) |-> Zero]
  /\ m_nWritePos = 0
  /\ m_nReadPos = 0
  /\ m_nRemainSize = TotalSize
  /\ pDescBuff = <<>>
  /\ nRet = 0
  /\ call = <<"Init", 0, <<>>>>

(* The early return of every call: nothing to do. *)
ReturnZero ==
  /\ pDescBuff' = <<>>
  /\ nRet' = 0
  /\ UNCHANGED <<m_pRingBuffer, m_nWritePos, m_nReadPos, m_nRemainSize>>

PushBytes(pSrcBuff, nNumOfBytes) ==
  /\ call' = <<"Push", nNumOfBytes, pSrcBuff>>
  /\ \/ /\ 0 = m_nRemainSize \/ 0 = nNumOfBytes
        /\ ReturnZero
     \/ LET q == ToInt(MinOf(m_nRemainSize, nNumOfBytes))
        IN  /\ 0 # m_nRemainSize /\ 0 # nNumOfBytes
            /\ m_pRingBuffer' = Written(pSrcBuff, q)
            /\ m_nWritePos' = Advanced(m_nWritePos, q)
            /\ m_nRemainSize' = m_nRemainSize - q
            /\ pDescBuff' = <<>>
            /\ nRet' = q
            /\ UNCHANGED m_nReadPos

PopBytes(nNumOfBytes) ==
  /\ call' = <<"Pop", nNumOfBytes, <<>>>>
  /\ \/ /\ 0 = GetUsageSize \/ 0 = nNumOfBytes
        /\ ReturnZero
     \/ LET q == ToInt(MinOf(GetUsageSize, nNumOfBytes))
        IN  /\ 0 # GetUsageSize /\ 0 # nNumOfBytes
            /\ pDescBuff' = Stored(q)
            /\ m_nReadPos' = Advanced(m_nReadPos, q)
            /\ m_nRemainSize' = m_nRemainSize + q
            /\ nRet' = q
            /\ UNCHANGED <<m_pRingBuffer, m_nWritePos>>

CopyBytes(nNumOfBytes) ==
  /\ call' = <<"Copy", nNumOfBytes, <<>>>>
  /\ \/ /\ 0 = GetUsageSize \/ 0 = nNumOfBytes
        /\ ReturnZero
     \/ LET q == ToInt(MinOf(GetUsageSize, nNumOfBytes))
        IN  /\ 0 # GetUsageSize /\ 0 # nNumOfBytes
            /\ pDescBuff' = Stored(q)
            /\ nRet' = q
            /\ UNCHANGED <<m_pRingBuffer, m_nWritePos, m_nReadPos, m_nRemainSize>>

SkipBytes(nNumOfBytes) ==
  /\ call' = <<"Skip", nNumOfBytes, <<>>>>
  /\ \/ /\ 0 = GetUsageSize \/ 0 = nNumOfBytes
        /\ ReturnZero
     \/ LET q == ToInt(MinOf(GetUsageSize, nNumOfBytes))
        IN  /\ 0 # GetUsageSize /\ 0 # nNumOfBytes
            /\ m_nReadPos' = Advanced(m_nReadPos, q)
            /\ m_nRemainSize' = m_nRemainSize + q
            /\ pDescBuff' = <<>>
            /\ nRet' = q
            /\ UNCHANGED <<m_pRingBuffer, m_nWritePos>>

(* The array is zeroed, the positions go back to its start. *)
ClearBuffer ==
  /\ m_pRingBuffer' = [i \in 0..(TotalSize - 1) |-> Zero]
  /\ m_nWritePos' = 0
  /\ m_nReadPos' = 0
  /\ m_nRemainSize' = TotalSize
  /\ pDescBuff' = <<>>
  /\ nRet' = 0
  /\ call' = <<"Clear", 0, <<>>>>

Next ==
  \/ \E n \in 0..MaxRequest : \E src \in [1..n -> Byte] : PushBytes(src, n)
  \/ \E n \in 0..MaxRequest : PopBytes(n) \/ CopyBytes(n) \/ SkipBytes(n)
  \/ ClearBuffer

Spec == Init /\ [][Next]_vars

-----------------------------------------------------------------------------
(* The fields stay in range: the positions are indices of the array (0     *)
(* when the array is empty) and the remaining size never leaves            *)
(* 0..TotalSize, although the code adds to it and takes from it without a  *)
(* check (lines 118, 146, 185).                                            *)
TypeOK ==
  /\ m_pRingBuffer \in [0..(TotalSize - 1) -> Byte]
  /\ m_nWritePos \in 0..TotalSize
  /\ m_nReadPos \in 0..TotalSize
  /\ TotalSize > 0 => m_nWritePos < TotalSize /\ m_nReadPos < TotalSize
  /\ m_nRemainSize \in 0..TotalSize
  /\ pDescBuff \in Seq(Byte)
  /\ nRet \in 0..TotalSize

(* The three counters agree: the write position is the read position       *)
(* advanced by the bytes in use, modulo the size.  Nothing in the code     *)
(* compares the positions; an empty and a full buffer, in which they are   *)
(* equal, are told apart by m_nRemainSize alone.                           *)
PositionsAgree ==
  \/ m_nWritePos = m_nReadPos + GetUsageSize
  \/ m_nWritePos = m_nReadPos + GetUsageSize - TotalSize

(* The class is a bounded FIFO queue: its used bytes, read from m_nReadPos *)
(* on around the end of the array, behave as the sequence of ByteFifo, and *)
(* so do the bytes and the numbers the calls return.                       *)
Contents == Stored(GetUsageSize)

Fifo == INSTANCE ByteFifo WITH Capacity <- TotalSize, fifo <- Contents,
                               delivered <- pDescBuff, ret <- nRet

FifoSpec == Fifo!Spec
=============================================================================
