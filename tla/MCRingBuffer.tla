---------------------------- MODULE MCRingBuffer ----------------------------
(***************************************************************************)
(* A ring of three bytes over two byte values, with requests of up to four *)
(* bytes: writes and reads that fill it, wrap around its end, exceed it    *)
(* and exceed the largest int.                                             *)
(***************************************************************************)
EXTENDS RingBuffer

MCByte == {0, 1}
=============================================================================
