----------------------------- MODULE MCPicture ------------------------------
(***************************************************************************)
(* The animated picture with GIFs of up to three frames.  Threads and      *)
(* handles are the model values of the .cfg files; their symmetry is used  *)
(* only in runs without liveness.                                          *)
(***************************************************************************)
EXTENDS PictureAnimation
=============================================================================
