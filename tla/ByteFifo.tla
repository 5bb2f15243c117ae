------------------------------ MODULE ByteFifo ------------------------------
(***************************************************************************)
(* What CkRingBuffer promises its caller (the comments of the interface,   *)
(* Hpp/CkRingBuffer.hpp lines 22-63): a first-in first-out queue of at     *)
(* most Capacity bytes.  Bytes are written at the tail as far as they fit, *)
(* read, copied or skipped at the head as far as there are any, and every  *)
(* call returns the number of bytes it handled.                            *)
(***************************************************************************)
EXTENDS Integers, Sequences

CONSTANTS Byte,        \* the values of a byte
          Capacity,    \* how many bytes the queue holds at most
          MaxRequest   \* bound: the largest number of bytes one call asks for

VARIABLES fifo,        \* the bytes written and not yet read, oldest first
          delivered,   \* the bytes the last call stored in the caller's buffer
          ret,         \* what the last call returned
          call         \* the last call and its arguments

vars == <<fifo, delivered, ret, call>>

AtMost(n, m) == IF n <= m THEN n ELSE m

(* The first n bytes that wait, and the rest. *)
Front(n) == [i \in 1..n |-> fifo[i]]
After(n) == [i \in 1..(Len(fifo) - n) |-> fifo[i + n]]

Init ==
  /\ fifo = <<>>
  /\ delivered = <<>>
  /\ ret = 0
  /\ call = <<"Init", 0, <<>>>>

(* The bytes of src that fit are appended, in order. *)
Push(src, n) ==
  LET q == AtMost(Capacity - Len(fifo), n)
  IN  /\ fifo' = [i \in 1..(Len(fifo) + q) |->
                    IF i <= Len(fifo) THEN fifo[i] ELSE src[i - Len(fifo)]]
      /\ delivered' = <<>>
      /\ ret' = q
      /\ call' = <<"Push", n, src>>

(* The oldest bytes are handed over and leave the queue. *)
Pop(n) ==
  LET q == AtMost(Len(fifo), n)
  IN  /\ delivered' = Front(q)
      /\ fifo' = After(q)
      /\ ret' = q
      /\ call' = <<"Pop", n, <<>>>>

(* The oldest bytes are handed over and stay. *)
Copy(n) ==
  LET q == AtMost(Len(fifo), n)
  IN  /\ delivered' = Front(q)
      /\ fifo' = fifo
      /\ ret' = q
      /\ call' = <<"Copy", n, <<>>>>

(* The oldest bytes leave unseen. *)
Skip(n) ==
  LET q == AtMost(Len(fifo), n)
  IN  /\ delivered' = <<>>
      /\ fifo' = After(q)
      /\ ret' = q
      /\ call' = <<"Skip", n, <<>>>>

Clear ==
  /\ fifo' = <<>>
  /\ delivered' = <<>>
  /\ ret' = 0
  /\ call' = <<"Clear", 0, <<>>>>

Next ==
  \/ \E n \in 0..MaxRequest : \E src \in [1..n -> Byte] : Push(src, n)
  \/ \E n \in 0..MaxRequest : Pop(n) \/ Copy(n) \/ Skip(n)
  \/ Clear

Spec == Init /\ [][Next]_vars
=============================================================================
