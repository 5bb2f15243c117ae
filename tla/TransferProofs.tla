--------------------------- MODULE TransferProofs ----------------------------
(***************************************************************************)
(* Proofs about whole messages over partial send and recv calls, for       *)
(* messages and connections of any size: what was sent of a message is its *)
(* start, what was received is the next bytes, and a call that returns     *)
(* true has moved all of them.  The two directions are independent: each   *)
(* has an inductive invariant of its own.                                  *)
(***************************************************************************)
EXTENDS SocketTransfer, TLAPS

-----------------------------------------------------------------------------
(* The sending call. *)

SendTypes ==
  /\ snd \in [busy : BOOLEAN, nLength : Length, nRemainingChars : Length,
              ok : BOOLEAN]
  /\ asked \in Byte /\ accepted \in Byte /\ peerRead \in Byte
  /\ stream \in [1..MaxBytes -> Byte]
  /\ sndTimeo \in BOOLEAN

(* The connection has taken at most what the application handed over; what *)
(* it took of the current message is at the end of the stream.             *)
SendInv ==
  /\ SendTypes
  /\ snd.nRemainingChars <= snd.nLength
  /\ peerRead <= accepted
  /\ ~snd.busy => accepted <= asked
  /\ snd.busy => /\ asked + snd.nLength <= MaxBytes
                 /\ accepted <= asked + Offset
                 /\ Offset <= accepted
                 /\ \A i \in 1..Offset : stream[accepted - Offset + i] = asked + i

LEMMA InitSend == ASSUME Init PROVE SendInv
<1>1. MaxBytes \in Nat /\ MaxLength \in Nat
  BY TransferAssumption
<1>2. ~snd.busy /\ snd.nRemainingChars = 0 /\ snd.nLength = 0
  BY DEF Init
<1>3. SendTypes
  <2>1. 0 \in Byte /\ 0 \in Length
    BY <1>1 DEF Byte, Length
  <2>2. snd \in [busy : BOOLEAN, nLength : Length, nRemainingChars : Length,
                 ok : BOOLEAN]
    BY <2>1 DEF Init
  <2> QED BY <2>1, <2>2 DEF Init, SendTypes
<1>4. accepted = 0 /\ asked = 0 /\ peerRead = 0
  BY DEF Init
<1> QED BY <1>2, <1>3, <1>4 DEF SendInv

LEMMA SendBeginInv ==
  ASSUME SendInv, NEW nLength \in Length, NEW nTimeOut \in TimeOut,
         SendBegin(nLength, nTimeOut)
  PROVE  SendInv'
<1>1. /\ snd' = [busy |-> TRUE, nLength |-> nLength,
                 nRemainingChars |-> nLength, ok |-> FALSE]
      /\ sndTimeo' \in BOOLEAN
      /\ asked + nLength <= MaxBytes /\ ~snd.busy
      /\ UNCHANGED <<asked, stream, accepted, peerRead>>
  BY DEF SendBegin, remote, SendInv, SendTypes
<1>2. Offset' = 0 /\ snd'.busy /\ snd'.nRemainingChars = snd'.nLength
  BY <1>1 DEF Offset, Length
<1>3. SendTypes'
  BY <1>1 DEF SendInv, SendTypes
<1>4. accepted' \in Nat /\ asked' \in Nat /\ accepted' <= asked' + Offset'
  BY <1>1, <1>2, TransferAssumption DEF SendInv, SendTypes, Byte
<1>5. snd'.nRemainingChars <= snd'.nLength /\ snd'.nLength = nLength
  BY <1>1 DEF Length
<1> QED BY <1>1, <1>2, <1>3, <1>4, <1>5 DEF SendInv

LEMMA SendSomeInv ==
  ASSUME SendInv, NEW n \in 1..MaxLength, SendSome(n)
  PROVE  SendInv'
<1>1. /\ n \in 1..snd.nRemainingChars
      /\ snd.busy
      /\ accepted' = accepted + n
      /\ snd' = [snd EXCEPT !.nRemainingChars = @ - n]
      /\ UNCHANGED <<asked, peerRead, sndTimeo>>
  BY TransferAssumption
     DEF SendSome, remote, options, Smaller, SendInv, SendTypes, Room, Byte, Length
<1>2. /\ accepted \in Nat /\ asked \in Nat /\ Offset \in Nat
      /\ snd.nLength \in Nat /\ snd.nRemainingChars \in Nat
  BY TransferAssumption DEF SendInv, SendTypes, Byte, Length, Offset
<1>3. Offset + n <= snd.nLength /\ n \in Nat \ {0}
  BY <1>1, <1>2 DEF Offset
<1>4. /\ snd'.busy = snd.busy /\ snd'.nLength = snd.nLength /\ snd'.ok = snd.ok
      /\ snd'.nRemainingChars = snd.nRemainingChars - n
      /\ snd'.nRemainingChars \in 0..snd.nRemainingChars
      /\ Offset' = Offset + n
  <2>1. /\ snd'.busy = snd.busy /\ snd'.nLength = snd.nLength /\ snd'.ok = snd.ok
        /\ snd'.nRemainingChars = snd.nRemainingChars - n
    BY <1>1 DEF SendInv, SendTypes
  <2>2. n \in 1..snd.nRemainingChars
    BY <1>1
  <2> QED BY <1>2, <2>1, <2>2 DEF Offset
<1>5. /\ accepted' \in Byte /\ accepted' <= asked + snd.nLength
      /\ accepted' <= asked' + Offset' /\ Offset' <= accepted'
      /\ peerRead' <= accepted'
  BY <1>1, <1>2, <1>3, <1>4, TransferAssumption
     DEF SendInv, SendTypes, Byte
<1>6. \A i \in 1..MaxBytes :
        stream'[i] = IF i \in accepted + 1..accepted + n
                     THEN asked + Offset + (i - accepted) ELSE stream[i]
  BY DEF SendSome
<1>7. stream' \in [1..MaxBytes -> Byte]
  <2>1. ASSUME NEW i \in accepted + 1..accepted + n
        PROVE  asked + Offset + (i - accepted) \in Byte
    BY <1>1, <1>2, <1>3, TransferAssumption DEF SendInv, Byte
  <2> QED BY <1>2, <2>1 DEF SendSome, SendInv, SendTypes
<1>8. ASSUME NEW i \in 1..Offset'
      PROVE  stream'[accepted' - Offset' + i] = asked' + i
  <2> DEFINE k == accepted - Offset + i
  <2>1. accepted' - Offset' + i = k /\ k \in 1..MaxBytes
    BY <1>1, <1>2, <1>3, <1>4, <1>5, TransferAssumption DEF SendInv, Byte
  <2>2. stream'[k] = IF k \in accepted + 1..accepted + n
                     THEN asked + Offset + (k - accepted) ELSE stream[k]
    BY <1>6, <2>1
  <2>3. CASE i <= Offset
    <3>1. k \notin accepted + 1..accepted + n /\ i \in 1..Offset
      BY <1>2, <1>3, <1>4, <2>3
    <3> QED BY <1>1, <2>1, <2>2, <3>1 DEF SendInv
  <2>4. CASE i > Offset
    <3>1. k \in accepted + 1..accepted + n
      BY <1>2, <1>3, <1>4, <2>4
    <3> QED BY <1>1, <1>2, <1>4, <2>1, <2>2, <3>1
  <2> QED BY <1>2, <1>4, <2>3, <2>4
<1>9. SendTypes'
  <2>1. snd.nRemainingChars - n \in Length
    BY <1>1, <1>2, TransferAssumption DEF SendInv, SendTypes, Length
  <2>2. snd' \in [busy : BOOLEAN, nLength : Length, nRemainingChars : Length,
                  ok : BOOLEAN]
    BY <1>1, <2>1 DEF SendInv, SendTypes
  <2> QED BY <1>1, <1>5, <1>7, <2>2 DEF SendInv, SendTypes
<1> QED BY <1>1, <1>2, <1>4, <1>5, <1>8, <1>9 DEF SendInv

LEMMA SendReturnsInv ==
  ASSUME SendInv, NEW ok \in BOOLEAN, snd.busy, SendReturns(ok)
  PROVE  SendInv'
<1>1. /\ snd' = [snd EXCEPT !.busy = FALSE, !.ok = ok]
      /\ asked' = asked + snd.nLength
      /\ UNCHANGED <<stream, accepted, peerRead, sndTimeo>>
  BY DEF SendReturns, remote, options
<1>2. snd'.nLength = snd.nLength /\ snd'.nRemainingChars = snd.nRemainingChars
      /\ ~snd'.busy
  BY <1>1 DEF SendInv, SendTypes
<1>3. asked' \in Byte /\ accepted' <= asked'
  BY <1>1, TransferAssumption DEF SendInv, SendTypes, Byte, Length, Offset
<1>4. SendTypes'
  BY <1>1, <1>3 DEF SendInv, SendTypes
<1> QED BY <1>1, <1>2, <1>3, <1>4 DEF SendInv

(* What the steps of the receiver, of the options and of the peer leave of *)
(* the sender.                                                             *)
LEMMA SendUnaffected ==
  ASSUME SendInv, UNCHANGED sending, sndTimeo' \in BOOLEAN,
         peerRead' \in Byte, peerRead' <= accepted
  PROVE  SendInv'
BY DEF SendInv, SendTypes, sending, Offset

LEMMA NextSend == ASSUME SendInv, [Next]_vars PROVE SendInv'
<1>1. ASSUME NEW nLength \in Length, NEW nTimeOut \in TimeOut,
             SendBegin(nLength, nTimeOut)
      PROVE  SendInv'
  BY <1>1, SendBeginInv
<1>2. CASE SendStep
  <2>1. SendDone \/ SendError => SendInv'
    BY SendReturnsInv DEF SendDone, SendError
  <2> QED BY <1>2, <2>1, SendSomeInv DEF SendStep
<1>3. ASSUME UNCHANGED sending, peerRead' = peerRead, sndTimeo' \in BOOLEAN
      PROVE  SendInv'
  BY <1>3, SendUnaffected DEF SendInv, SendTypes
<1>4. ASSUME NEW nLength \in Length, NEW nTimeOut \in TimeOut,
             RecvBegin(nLength, nTimeOut)
      PROVE  SendInv'
  BY <1>3, <1>4 DEF RecvBegin, remote, SendInv, SendTypes
<1>5. CASE RecvStep
  BY <1>3, <1>5 DEF RecvStep, RecvDone, RecvError, RecvZero, RecvSome,
                    RecvReturns, remote, options, SendInv, SendTypes
<1>6. ASSUME NEW nMilliseconds \in TimeOut, SetSocketTimeOut(nMilliseconds)
      PROVE  SendInv'
  BY <1>3, <1>6 DEF SetSocketTimeOut, remote, SendInv, SendTypes
<1>7. CASE PeerReads
  <2>1. /\ UNCHANGED sending /\ sndTimeo' = sndTimeo
        /\ peerRead' = peerRead + 1 /\ peerRead < accepted
    BY <1>7 DEF PeerReads, options
  <2> QED BY <2>1, SendUnaffected, TransferAssumption
          DEF SendInv, SendTypes, Byte
<1>8. CASE PeerSends \/ PeerCloses \/ Reset \/ UNCHANGED vars
  BY <1>3, <1>8 DEF PeerSends, PeerCloses, Reset, vars, options, remote,
                    SendInv, SendTypes
<1> QED BY <1>1, <1>2, <1>4, <1>5, <1>6, <1>7, <1>8 DEF Next

(* A call that returns true does so in SendDone. *)
LEMMA SendEnds ==
  ASSUME SendInv, [Next]_vars, snd.busy, ~snd'.busy, snd'.ok
  PROVE  SendDone
<1>1. ASSUME SendError PROVE FALSE
  BY <1>1 DEF SendError, SendReturns, SendInv, SendTypes
<1>2. ASSUME NEW n \in 1..MaxLength, SendSome(n) PROVE FALSE
  BY <1>2 DEF SendSome, SendInv, SendTypes
<1>3. ~UNCHANGED snd
  OBVIOUS
<1> QED BY <1>1, <1>2, <1>3
        DEF Next, SendBegin, RecvBegin, SetSocketTimeOut, SendStep, RecvStep,
            RecvDone, RecvError, RecvZero, RecvSome, RecvReturns, PeerReads,
            PeerSends, PeerCloses, Reset, vars, sending

LEMMA SendInvariant == Spec => []SendInv
<1>1. Init => SendInv
  BY InitSend
<1>2. SendInv /\ [Next]_vars => SendInv'
  BY NextSend
<1> QED BY <1>1, <1>2, PTL DEF Spec

(* What the connection took of a message is the message's start, each byte *)
(* once and in order, whatever pieces send takes (SingleSocket.cpp:204-    *)
(* 218).                                                                   *)
THEOREM SentPrefix == Spec => []SentIsPrefix
<1>1. SendInv => SentIsPrefix
  BY DEF SendInv, SentIsPrefix, Offset
<1> QED BY <1>1, SendInvariant, PTL

(* A call that returns true has handed the whole message over              *)
(* (SingleSocket.cpp:220, 343-354).                                        *)
THEOREM SendTrue == Spec => SendTrueMeansAll
<1>1. ASSUME SendInv, [Next]_vars, snd.busy, ~snd'.busy, snd'.ok
      PROVE  /\ accepted' >= snd.nLength
             /\ \A i \in 1..snd.nLength :
                  stream'[accepted' - snd.nLength + i] = asked + i
  <2>1. SendDone
    BY <1>1, SendEnds
  <2>2. snd.nRemainingChars = 0 /\ UNCHANGED <<stream, accepted>>
    BY <2>1 DEF SendDone, SendReturns
  <2>3. Offset = snd.nLength /\ accepted \in Nat /\ snd.nLength \in Nat
    BY <1>1, <2>2, TransferAssumption
       DEF Offset, SendInv, SendTypes, Byte, Length
  <2> QED BY <1>1, <2>2, <2>3 DEF SendInv
<1>2. SendInv /\ [Next]_vars =>
        [snd.busy /\ ~snd'.busy /\ snd'.ok =>
           /\ accepted' >= snd.nLength
           /\ \A i \in 1..snd.nLength :
                stream'[accepted' - snd.nLength + i] = asked + i]_vars
  BY <1>1
<1> QED BY <1>2, SendInvariant, PTL DEF Spec, SendTrueMeansAll

-----------------------------------------------------------------------------
(* The receiving call. *)

RecvTypes ==
  /\ rcv \in [busy : BOOLEAN, nLength : Length, nRecvedLen : Length,
              nRecv : Length \cup {-1}, ok : BOOLEAN]
  /\ expected \in Byte /\ taken \in Byte /\ peerSent \in Byte
  /\ pBuffer \in [1..MaxLength -> Byte]
  /\ rcvTimeo \in BOOLEAN

(* What was taken off the connection and not yet given to the application  *)
(* is the start of the buffer.                                             *)
RecvInv ==
  /\ RecvTypes
  /\ rcv.nRecvedLen <= rcv.nLength
  /\ taken <= peerSent
  /\ ~rcv.busy => taken = expected
  /\ rcv.busy => /\ expected + rcv.nLength <= MaxBytes
                 /\ taken = expected + rcv.nRecvedLen
                 /\ \A i \in 1..rcv.nRecvedLen : pBuffer[i] = expected + i

LEMMA InitRecv == ASSUME Init PROVE RecvInv
<1>1. 0 \in Byte /\ 0 \in Length
  BY TransferAssumption DEF Byte, Length
<1>2. /\ ~rcv.busy /\ rcv.nRecvedLen = 0 /\ rcv.nLength = 0
      /\ rcv \in [busy : BOOLEAN, nLength : Length, nRecvedLen : Length,
                  nRecv : Length \cup {-1}, ok : BOOLEAN]
  BY <1>1 DEF Init
<1>3. RecvTypes
  BY <1>1, <1>2 DEF Init, RecvTypes
<1>4. taken = 0 /\ expected = 0 /\ peerSent = 0
  BY DEF Init
<1> QED BY <1>2, <1>3, <1>4 DEF RecvInv

LEMMA RecvBeginInv ==
  ASSUME RecvInv, NEW nLength \in Length, NEW nTimeOut \in TimeOut,
         RecvBegin(nLength, nTimeOut)
  PROVE  RecvInv'
<1>1. /\ rcv' = [busy |-> TRUE, nLength |-> nLength, nRecvedLen |-> 0,
                 nRecv |-> -1, ok |-> FALSE]
      /\ rcvTimeo' \in BOOLEAN
      /\ pBuffer' = [i \in 1..MaxLength |-> 0]
      /\ expected + nLength <= MaxBytes /\ ~rcv.busy
      /\ UNCHANGED <<expected, taken, peerSent>>
  BY DEF RecvBegin, remote, RecvInv, RecvTypes
<1>2. 0 \in Byte /\ 0 \in Length
  BY TransferAssumption DEF Byte, Length
<1>3. /\ rcv'.busy /\ rcv'.nRecvedLen = 0 /\ rcv'.nLength = nLength
      /\ rcv' \in [busy : BOOLEAN, nLength : Length, nRecvedLen : Length,
                   nRecv : Length \cup {-1}, ok : BOOLEAN]
  BY <1>1, <1>2
<1>4. RecvTypes'
  BY <1>1, <1>2, <1>3 DEF RecvInv, RecvTypes
<1>5. expected' \in Nat /\ taken' = expected' /\ taken' <= peerSent'
      /\ expected' + nLength <= MaxBytes /\ nLength >= 0
      /\ taken' = expected' + 0 /\ 1..0 = {}
  BY <1>1, TransferAssumption DEF RecvInv, RecvTypes, Byte, Length
<1> QED BY <1>3, <1>4, <1>5 DEF RecvInv

LEMMA RecvSomeInv ==
  ASSUME RecvInv, NEW n \in 1..MaxLength, RecvSome(n)
  PROVE  RecvInv'
<1>1. /\ rcv.busy
      /\ taken' = taken + n
      /\ rcv' = [rcv EXCEPT !.nRecvedLen = @ + n, !.nRecv = n]
      /\ UNCHANGED <<expected, peerSent, rcvTimeo>>
      /\ n \in 1..Smaller(rcv.nLength - rcv.nRecvedLen, Arrived)
  BY DEF RecvSome, Waiting, remote, options
<1>2. /\ taken \in Nat /\ expected \in Nat /\ peerSent \in Nat /\ n \in Nat
      /\ rcv.nLength \in 0..MaxLength /\ rcv.nRecvedLen \in Nat
      /\ MaxBytes \in Nat /\ MaxLength \in Nat /\ peerSent <= MaxBytes
  BY TransferAssumption DEF RecvInv, RecvTypes, Byte, Length
<1>3. n >= 1 /\ n <= rcv.nLength - rcv.nRecvedLen /\ taken + n <= peerSent
  BY <1>1, <1>2 DEF Smaller, Arrived
<1>4. /\ rcv'.busy /\ rcv'.nLength = rcv.nLength
      /\ rcv'.nRecvedLen = rcv.nRecvedLen + n
      /\ rcv'.nRecv = n /\ rcv'.ok = rcv.ok
  BY <1>1 DEF RecvInv, RecvTypes
<1>5. /\ expected + rcv.nLength <= MaxBytes
      /\ taken = expected + rcv.nRecvedLen
  BY <1>1 DEF RecvInv
<1>6. \A i \in 1..MaxLength :
        pBuffer'[i] = IF i \in rcv.nRecvedLen + 1..rcv.nRecvedLen + n
                      THEN taken + (i - rcv.nRecvedLen) ELSE pBuffer[i]
  BY DEF RecvSome
<1>7. ASSUME NEW i \in 1..rcv.nRecvedLen + n
      PROVE  pBuffer'[i] = expected + i
  <2>1. i \in 1..MaxLength
    BY <1>2, <1>3
  <2>2. CASE i <= rcv.nRecvedLen
    <3>1. i \in 1..rcv.nRecvedLen /\ i \notin rcv.nRecvedLen + 1..rcv.nRecvedLen + n
      BY <1>2, <2>2
    <3> QED BY <1>1, <1>6, <2>1, <3>1 DEF RecvInv
  <2>3. CASE i > rcv.nRecvedLen
    <3>1. i \in rcv.nRecvedLen + 1..rcv.nRecvedLen + n
      BY <1>2, <2>3
    <3>2. pBuffer'[i] = taken + (i - rcv.nRecvedLen)
      BY <1>6, <2>1, <3>1
    <3> QED BY <1>2, <1>5, <3>2
  <2> QED BY <1>2, <2>2, <2>3
<1>8. pBuffer' \in [1..MaxLength -> Byte]
  <2>1. ASSUME NEW i \in rcv.nRecvedLen + 1..rcv.nRecvedLen + n
        PROVE  taken + (i - rcv.nRecvedLen) \in Byte
    BY <1>2, <1>3 DEF Byte
  <2> QED BY <2>1 DEF RecvSome, RecvInv, RecvTypes
<1>9. RecvTypes'
  <2>1. rcv.nRecvedLen + n \in Length /\ n \in Length /\ taken' \in Byte
    BY <1>1, <1>2, <1>3 DEF Length, Byte
  <2>2. rcv' \in [busy : BOOLEAN, nLength : Length, nRecvedLen : Length,
                  nRecv : Length \cup {-1}, ok : BOOLEAN]
    BY <1>1, <2>1 DEF RecvInv, RecvTypes
  <2> QED BY <1>1, <1>8, <2>1, <2>2 DEF RecvInv, RecvTypes
<1>10. /\ rcv'.nRecvedLen <= rcv'.nLength /\ taken' <= peerSent'
       /\ expected' + rcv'.nLength <= MaxBytes
       /\ taken' = expected' + rcv'.nRecvedLen
  <2>1. taken' = taken + n /\ expected' = expected /\ peerSent' = peerSent
    BY <1>1
  <2> QED BY <1>2, <1>3, <1>4, <1>5, <2>1
<1> QED BY <1>1, <1>4, <1>7, <1>9, <1>10 DEF RecvInv

LEMMA RecvReturnsInv ==
  ASSUME RecvInv, rcv.busy,
         \/ RecvReturns(TRUE) /\ rcv.nRecvedLen >= rcv.nLength
         \/ RecvReturns(FALSE)
  PROVE  RecvInv'
<1>1. /\ rcv.nRecvedLen \in Nat /\ rcv.nLength \in Nat /\ expected \in Nat
      /\ taken = expected + rcv.nRecvedLen /\ rcv.nRecvedLen <= rcv.nLength
  BY TransferAssumption DEF RecvInv, RecvTypes, Byte, Length
<1>2. PICK ok \in BOOLEAN : rcv' = [rcv EXCEPT !.busy = FALSE, !.ok = ok]
  BY DEF RecvReturns
<1>3. ~rcv'.busy /\ rcv'.nRecvedLen = rcv.nRecvedLen /\ rcv'.nLength = rcv.nLength
  BY <1>2 DEF RecvInv, RecvTypes
<1>4. expected' = taken
  BY <1>1 DEF RecvReturns
<1>5. UNCHANGED <<pBuffer, taken, peerSent, rcvTimeo>>
  BY DEF RecvReturns, options, remote
<1>6. RecvTypes'
  BY <1>2, <1>4, <1>5 DEF RecvInv, RecvTypes
<1> QED BY <1>3, <1>4, <1>5, <1>6 DEF RecvInv

LEMMA RecvUnaffected ==
  ASSUME RecvInv, UNCHANGED receiving, rcvTimeo' = rcvTimeo,
         peerSent' \in Byte, taken <= peerSent'
  PROVE  RecvInv'
BY DEF RecvInv, RecvTypes, receiving

LEMMA RecvZeroInv == ASSUME RecvInv, RecvZero PROVE RecvInv'
<1>1. /\ rcv' = [rcv EXCEPT !.nRecv = 0]
      /\ UNCHANGED <<pBuffer, expected, taken, peerSent, rcvTimeo>>
  BY DEF RecvZero, options, remote
<1>2. 0 \in Length
  BY TransferAssumption DEF Length
<1>3. /\ rcv'.busy = rcv.busy /\ rcv'.nRecvedLen = rcv.nRecvedLen
      /\ rcv'.nLength = rcv.nLength
  BY <1>1 DEF RecvInv, RecvTypes
<1>4. RecvTypes'
  BY <1>1, <1>2 DEF RecvInv, RecvTypes
<1> QED BY <1>1, <1>3, <1>4 DEF RecvInv

LEMMA NextRecv == ASSUME RecvInv, [Next]_vars PROVE RecvInv'
<1>1. ASSUME NEW nLength \in Length, NEW nTimeOut \in TimeOut,
             RecvBegin(nLength, nTimeOut)
      PROVE  RecvInv'
  BY <1>1, RecvBeginInv
<1>2. CASE RecvStep
  BY <1>2, RecvReturnsInv, RecvSomeInv, RecvZeroInv
     DEF RecvStep, RecvDone, RecvError, Waiting
<1>3. ASSUME UNCHANGED receiving, rcvTimeo' = rcvTimeo, peerSent' = peerSent
      PROVE  RecvInv'
  BY <1>3, RecvUnaffected DEF RecvInv, RecvTypes
<1>4. ASSUME NEW nLength \in Length, NEW nTimeOut \in TimeOut,
             SendBegin(nLength, nTimeOut)
      PROVE  RecvInv'
  BY <1>3, <1>4 DEF SendBegin, remote
<1>5. CASE SendStep
  BY <1>3, <1>5 DEF SendStep, SendDone, SendError, SendSome, SendReturns,
                    remote, options
<1>6. ASSUME NEW nMilliseconds \in TimeOut, SetSocketTimeOut(nMilliseconds)
      PROVE  RecvInv'
  BY <1>3, <1>6 DEF SetSocketTimeOut, remote
<1>7. CASE PeerSends
  <2>1. /\ UNCHANGED receiving /\ rcvTimeo' = rcvTimeo
        /\ peerSent' = peerSent + 1 /\ peerSent < MaxBytes
    BY <1>7 DEF PeerSends, options
  <2> QED BY <2>1, RecvUnaffected, TransferAssumption
          DEF RecvInv, RecvTypes, Byte
<1>8. CASE PeerReads \/ PeerCloses \/ Reset \/ UNCHANGED vars
  BY <1>3, <1>8 DEF PeerReads, PeerCloses, Reset, vars, options, remote
<1> QED BY <1>1, <1>2, <1>4, <1>5, <1>6, <1>7, <1>8 DEF Next

(* A call that returns true does so in RecvDone. *)
LEMMA RecvEnds ==
  ASSUME RecvInv, [Next]_vars, rcv.busy, ~rcv'.busy, rcv'.ok
  PROVE  RecvDone
<1>1. ASSUME RecvError PROVE FALSE
  BY <1>1 DEF RecvError, RecvReturns, RecvInv, RecvTypes
<1>2. ASSUME RecvZero \/ \E n \in 1..MaxLength : RecvSome(n) PROVE FALSE
  BY <1>2 DEF RecvZero, RecvSome, RecvInv, RecvTypes
<1>3. ~UNCHANGED rcv
  OBVIOUS
<1> QED BY <1>1, <1>2, <1>3
        DEF Next, SendBegin, RecvBegin, SetSocketTimeOut, SendStep, RecvStep,
            SendDone, SendError, SendSome, SendReturns, PeerReads,
            PeerSends, PeerCloses, Reset, vars, receiving

LEMMA RecvInvariant == Spec => []RecvInv
<1>1. Init => RecvInv
  BY InitRecv
<1>2. RecvInv /\ [Next]_vars => RecvInv'
  BY NextRecv
<1> QED BY <1>1, <1>2, PTL DEF Spec

(* A receiving call takes no bytes of the message after its own, however   *)
(* recv cuts the stream (SingleSocket.cpp:236-253).                        *)
THEOREM NeverBeyond == Spec => []NeverBeyondMessage
<1>1. RecvInv => NeverBeyondMessage
  BY TransferAssumption
     DEF RecvInv, RecvTypes, NeverBeyondMessage, Byte, Length
<1> QED BY <1>1, RecvInvariant, PTL

(* A call that returns true has the next nLength bytes of the peer in its  *)
(* buffer, also after calls that failed in mid-message                     *)
(* (SingleSocket.cpp:255, 363-376).                                        *)
THEOREM RecvTrue == Spec => RecvTrueMeansNext
<1>1. ASSUME RecvInv, [Next]_vars, rcv.busy, ~rcv'.busy, rcv'.ok
      PROVE  /\ \A i \in 1..rcv.nLength : pBuffer[i] = expected + i
             /\ expected' = taken'
  <2>1. RecvDone
    BY <1>1, RecvEnds
  <2>2. /\ rcv.nRecvedLen >= rcv.nLength
        /\ expected' = expected + rcv.nLength /\ taken' = taken
    BY <2>1 DEF RecvDone, RecvReturns
  <2>3. rcv.nRecvedLen = rcv.nLength
    BY <1>1, <2>2, TransferAssumption DEF RecvInv, RecvTypes, Length
  <2> QED BY <1>1, <2>2, <2>3 DEF RecvInv
<1>2. RecvInv /\ [Next]_vars =>
        [rcv.busy /\ ~rcv'.busy /\ rcv'.ok =>
           /\ \A i \in 1..rcv.nLength : pBuffer[i] = expected + i
           /\ expected' = taken']_vars
  BY <1>1
<1> QED BY <1>2, RecvInvariant, PTL DEF Spec, RecvTrueMeansNext

-----------------------------------------------------------------------------
PeerTypes == peer \in {"open", "closed", "reset"}

(* Lengths, counts and bytes keep their ranges for messages of any size.   *)
THEOREM TypeCorrect == Spec => []TypeOK
<1>1. Init => PeerTypes
  BY DEF Init, PeerTypes
<1>2. PeerTypes /\ [Next]_vars => PeerTypes'
  BY DEF PeerTypes, Next, SendBegin, RecvBegin, SetSocketTimeOut, SendStep, SendDone,
         SendError, SendSome, SendReturns, RecvStep, RecvDone, RecvError,
         RecvZero, RecvSome, RecvReturns, PeerReads, PeerSends, PeerCloses,
         Reset, vars, remote
<1>3. SendInv /\ RecvInv /\ PeerTypes => TypeOK
  BY DEF PeerTypes, SendInv, SendTypes, RecvInv, RecvTypes, TypeOK
<1> QED BY <1>1, <1>2, <1>3, SendInvariant, RecvInvariant, PTL DEF Spec
=============================================================================
