----------------------------- MODULE MCTransfer -----------------------------
(***************************************************************************)
(* Messages of up to two bytes, four bytes each way, and a connection   *)
(* that takes two bytes before the peer reads.                             *)
(***************************************************************************)
EXTENDS SocketTransfer
=============================================================================
