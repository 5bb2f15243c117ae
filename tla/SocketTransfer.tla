--------------------------- MODULE SocketTransfer ---------------------------
(***************************************************************************)
(* Whole messages over one TCP connection: SendToServer, RecvFromServer    *)
(* and SetSocketTimeOut of a client SingleSocket, and the static           *)
(* SendToSocket and RecvFromSocket of SingleSocket and SocketUtils, which  *)
(* have the same loops.  One thread sends while another receives.          *)
(*                                                                         *)
(* A byte is its number: the application's messages are consecutive pieces *)
(* of 1, 2, ..., and so is what the peer sends.  One action is one call of *)
(* send or recv, or a return; the connection and the peer are external.    *)
(***************************************************************************)
EXTENDS Integers

CONSTANTS MaxBytes,   \* bound: the bytes either side sends in all
          MaxLength,  \* bound: the bytes of one message
          Window      \* bytes the connection takes before the peer reads

ASSUME TransferAssumption ==
  /\ MaxBytes \in Nat /\ MaxLength \in Nat
  /\ Window \in Nat \ {0}

VARIABLES snd,       \* the call that sends: its locals
          asked,     \* bytes of the messages before the one being sent
          stream,    \* the bytes the connection took, by their position
          accepted,  \* how many it took
          peerRead,  \* how many of them the peer read
          rcv,       \* the call that receives: its locals
          pBuffer,   \* its buffer
          expected,  \* bytes of the peer before the message being received
          taken,     \* bytes taken off the connection
          peerSent,  \* bytes the peer sent
          sndTimeo, rcvTimeo,  \* whether SO_SNDTIMEO, SO_RCVTIMEO are set
          peer

sending == <<snd, asked, stream, accepted>>
receiving == <<rcv, pBuffer, expected, taken>>
options == <<sndTimeo, rcvTimeo>>
remote == <<peerRead, peerSent, peer>>
vars == <<sending, receiving, options, remote>>

-----------------------------------------------------------------------------
Byte == 0..MaxBytes                 \* 0: what memory held before
Length == 0..MaxLength
TimeOut == {-1, 0, 1}               \* INFINITE, none, some milliseconds

Smaller(a, b) == IF a < b THEN a ELSE b

Init ==
  /\ snd = [busy |-> FALSE, nLength |-> 0, nRemainingChars |-> 0, ok |-> FALSE]
  /\ rcv = [busy |-> FALSE, nLength |-> 0, nRecvedLen |-> 0, nRecv |-> -1,
            ok |-> FALSE]
  /\ asked = 0 /\ accepted = 0 /\ peerRead = 0
  /\ stream = [i \in 1..MaxBytes |-> 0]
  /\ pBuffer = [i \in 1..MaxLength |-> 0]
  /\ expected = 0 /\ taken = 0 /\ peerSent = 0
  /\ sndTimeo = FALSE /\ rcvTimeo = FALSE
  /\ peer = "open"

-----------------------------------------------------------------------------
(* Sending *)

(* SendToServer leaves the socket's timeout alone, as SendToSocket does    *)
(* when nTimeOut is not positive.                                          *)
SendBegin(nLength, nTimeOut) ==
  /\ ~snd.busy /\ asked + nLength <= MaxBytes
  /\ snd' = [busy |-> TRUE, nLength |-> nLength, nRemainingChars |-> nLength,
             ok |-> FALSE]
  /\ sndTimeo' = (sndTimeo \/ nTimeOut > 0)
  /\ UNCHANGED <<asked, stream, accepted, receiving, rcvTimeo, remote>>

(* Mutant: every piece from the start of the buffer. *)
OffsetAtStart == 0

(* pBuffer + nLength - nRemainingChars *)
Offset == snd.nLength - snd.nRemainingChars

Room == Window - (accepted - peerRead)

(* send takes n bytes, at least one and as many as there is room for. *)
SendSome(n) ==
  /\ snd.busy /\ peer # "reset"
  /\ n \in 1..Smaller(snd.nRemainingChars, Room)
  /\ stream' = [i \in 1..MaxBytes |->
                  IF i \in accepted + 1..accepted + n
                  THEN asked + Offset + (i - accepted) ELSE stream[i]]
  /\ accepted' = accepted + n
  /\ snd' = [snd EXCEPT !.nRemainingChars = @ - n]
  /\ UNCHANGED <<asked, receiving, options, remote>>

SendReturns(ok) ==
  /\ snd' = [snd EXCEPT !.busy = FALSE, !.ok = ok]
  /\ asked' = asked + snd.nLength
  /\ UNCHANGED <<stream, accepted, receiving, options, remote>>

(* Mutant: a send that took something ends the loop. *)
SendDoneAtOnce == snd.busy /\ Offset > 0 /\ SendReturns(TRUE)

SendDone == snd.busy /\ snd.nRemainingChars = 0 /\ SendReturns(TRUE)

(* Mutant: only a reset ends the call. *)
SendErrorNoTimeout ==
  /\ snd.busy /\ snd.nRemainingChars > 0
  /\ peer = "reset"
  /\ SendReturns(FALSE)

(* SOCKET_ERROR: the connection was reset, or the timeout passed with no   *)
(* room.                                                                   *)
SendError ==
  /\ snd.busy /\ snd.nRemainingChars > 0
  /\ peer = "reset" \/ (sndTimeo /\ Room = 0)
  /\ SendReturns(FALSE)

-----------------------------------------------------------------------------
(* Receiving *)

RecvBegin(nLength, nTimeOut) ==
  /\ ~rcv.busy /\ expected + nLength <= MaxBytes
  /\ rcv' = [busy |-> TRUE, nLength |-> nLength, nRecvedLen |-> 0,
             nRecv |-> -1, ok |-> FALSE]
  /\ pBuffer' = [i \in 1..MaxLength |-> 0]
  /\ rcvTimeo' = (rcvTimeo \/ nTimeOut > 0)
  /\ UNCHANGED <<expected, taken, sending, sndTimeo, remote>>

Waiting == rcv.busy /\ rcv.nRecvedLen < rcv.nLength
Arrived == peerSent - taken

(* Mutant: every piece to the start of the buffer. *)
RecvSomeAtStart(n) ==
  /\ Waiting /\ peer # "reset"
  /\ n \in 1..Smaller(rcv.nLength - rcv.nRecvedLen, Arrived)
  /\ pBuffer' = [i \in 1..MaxLength |-> IF i \in 1..n THEN taken + i
                                                     ELSE pBuffer[i]]
  /\ taken' = taken + n
  /\ rcv' = [rcv EXCEPT !.nRecvedLen = @ + n, !.nRecv = n]
  /\ UNCHANGED <<expected, sending, options, remote>>

(* Mutant: every recv asks for the whole length. *)
RecvSomeOverrun(n) ==
  /\ Waiting /\ peer # "reset"
  /\ n \in 1..Smaller(rcv.nLength, Arrived)
  /\ pBuffer' = [i \in 1..MaxLength |->
                   IF i \in rcv.nRecvedLen + 1..rcv.nRecvedLen + n
                   THEN taken + (i - rcv.nRecvedLen) ELSE pBuffer[i]]
  /\ taken' = taken + n
  /\ rcv' = [rcv EXCEPT !.nRecvedLen = @ + n, !.nRecv = n]
  /\ UNCHANGED <<expected, sending, options, remote>>

(* recv brings n of the bytes that arrived, never more than it is asked. *)
RecvSome(n) ==
  /\ Waiting /\ peer # "reset"
  /\ n \in 1..Smaller(rcv.nLength - rcv.nRecvedLen, Arrived)
  /\ pBuffer' = [i \in 1..MaxLength |->
                   IF i \in rcv.nRecvedLen + 1..rcv.nRecvedLen + n
                   THEN taken + (i - rcv.nRecvedLen) ELSE pBuffer[i]]
  /\ taken' = taken + n
  /\ rcv' = [rcv EXCEPT !.nRecvedLen = @ + n, !.nRecv = n]
  /\ UNCHANGED <<expected, sending, options, remote>>

(* The peer has closed and nothing is left: recv gives 0, and continue. *)
RecvZero ==
  /\ Waiting /\ peer = "closed" /\ Arrived = 0
  /\ rcv' = [rcv EXCEPT !.nRecv = 0]
  /\ UNCHANGED <<pBuffer, expected, taken, sending, options, remote>>

(* What a call that fails took off the connection is not given back. *)
RecvReturns(ok) ==
  /\ rcv' = [rcv EXCEPT !.busy = FALSE, !.ok = ok]
  /\ expected' = IF ok THEN expected + rcv.nLength ELSE taken
  /\ UNCHANGED <<pBuffer, taken, sending, options, remote>>

RecvDone == rcv.busy /\ rcv.nRecvedLen >= rcv.nLength /\ RecvReturns(TRUE)

(* Mutant: only a reset ends the call. *)
RecvErrorNoTimeout ==
  /\ Waiting
  /\ peer = "reset"
  /\ RecvReturns(FALSE)

RecvError ==
  /\ Waiting
  /\ peer = "reset" \/ (rcvTimeo /\ peer = "open" /\ Arrived = 0)
  /\ RecvReturns(FALSE)

-----------------------------------------------------------------------------
(* Of a client socket only the sending timeout is set, and no call takes   *)
(* it off again: INFINITE is not positive.                                 *)
SetSocketTimeOut(nMilliseconds) ==
  /\ ~snd.busy
  /\ sndTimeo' = (sndTimeo \/ nMilliseconds > 0)
  /\ UNCHANGED <<sending, receiving, rcvTimeo, remote>>

(* The peer and the network *)

PeerReads ==
  /\ peer = "open" /\ peerRead < accepted
  /\ peerRead' = peerRead + 1
  /\ UNCHANGED <<sending, receiving, options, peerSent, peer>>

PeerSends ==
  /\ peer = "open" /\ peerSent < MaxBytes
  /\ peerSent' = peerSent + 1
  /\ UNCHANGED <<sending, receiving, options, peerRead, peer>>

PeerCloses ==
  /\ peer = "open"
  /\ peer' = "closed"
  /\ UNCHANGED <<sending, receiving, options, peerRead, peerSent>>

Reset ==
  /\ peer # "reset"
  /\ peer' = "reset"
  /\ UNCHANGED <<sending, receiving, options, peerRead, peerSent>>

-----------------------------------------------------------------------------
SendStep == SendDone \/ SendError \/ \E n \in 1..MaxLength : SendSome(n)
RecvStep == \/ RecvDone \/ RecvError \/ RecvZero
            \/ \E n \in 1..MaxLength : RecvSome(n)

Next ==
  \/ \E nLength \in Length, nTimeOut \in TimeOut :
       SendBegin(nLength, nTimeOut) \/ RecvBegin(nLength, nTimeOut)
  \/ \E nMilliseconds \in TimeOut : SetSocketTimeOut(nMilliseconds)
  \/ SendStep \/ RecvStep
  \/ PeerReads \/ PeerSends \/ PeerCloses \/ Reset

(* Both threads run, and a wait with a timeout ends; the peer owes nothing. *)
Spec == Init /\ [][Next]_vars /\ WF_vars(SendStep) /\ WF_vars(RecvStep)

-----------------------------------------------------------------------------
TypeOK ==
  /\ snd \in [busy : BOOLEAN, nLength : Length, nRemainingChars : Length,
              ok : BOOLEAN]
  /\ rcv \in [busy : BOOLEAN, nLength : Length, nRecvedLen : Length,
              nRecv : Length \cup {-1}, ok : BOOLEAN]
  /\ asked \in Byte /\ accepted \in Byte /\ peerRead \in Byte
  /\ expected \in Byte /\ taken \in Byte /\ peerSent \in Byte
  /\ stream \in [1..MaxBytes -> Byte] /\ pBuffer \in [1..MaxLength -> Byte]
  /\ sndTimeo \in BOOLEAN /\ rcvTimeo \in BOOLEAN
  /\ peer \in {"open", "closed", "reset"}

(* What the connection took of the message being sent is the message's     *)
(* start, each byte once and in order, whatever pieces send took: the      *)
(* offset nLength - nRemainingChars follows what was taken.                *)
SentIsPrefix ==
  snd.busy =>
    LET sent == snd.nLength - snd.nRemainingChars
    IN  /\ accepted >= sent
        /\ \A i \in 1..sent : stream[accepted - sent + i] = asked + i

(* SendToServer and SendToSocket return true only with the whole message   *)
(* handed to the connection.                                               *)
SendTrueMeansAll ==
  [][snd.busy /\ ~snd'.busy /\ snd'.ok =>
       /\ accepted' >= snd.nLength
       /\ \A i \in 1..snd.nLength :
            stream'[accepted' - snd.nLength + i] = asked + i]_vars

(* RecvFromServer and RecvFromSocket return true only with the next        *)
(* nLength bytes of the peer in the buffer, in order and without a gap:    *)
(* nothing recv brought was overwritten, skipped or left over.             *)
RecvTrueMeansNext ==
  [][rcv.busy /\ ~rcv'.busy /\ rcv'.ok =>
       /\ \A i \in 1..rcv.nLength : pBuffer[i] = expected + i
       /\ expected' = taken']_vars

(* A receiving call never takes bytes of the following message.            *)
NeverBeyondMessage == rcv.busy => taken <= expected + rcv.nLength

(* A sending call on a socket with a timeout returns.                      *)
TimedSendReturns == (snd.busy /\ sndTimeo) ~> ~snd.busy

(* A receiving call on a socket with a timeout returns, unless the peer    *)
(* closes the connection before the message is whole.                      *)
TimedRecvReturns == (rcv.busy /\ rcvTimeo) ~> (~rcv.busy \/ peer = "closed")

(* A receiving call with a timeout returns, whatever the peer does.        *)
TimeOutEndsRecv == (rcv.busy /\ rcvTimeo) ~> ~rcv.busy
=============================================================================
