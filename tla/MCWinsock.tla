----------------------------- MODULE MCWinsock ------------------------------
(***************************************************************************)
(* Two SingleSocket objects, SocketUtils and GetLocalIP over two socket    *)
(* values and port ranges of up to three ports.                            *)
(***************************************************************************)
EXTENDS Winsock
=============================================================================
