---------------------------- MODULE MCProcesses -----------------------------
(***************************************************************************)
(* Two processes create a tree of two levels, one of them locking by hand, *)
(* while a third ends them and one of them is started again.  The paths:   *)
(* one level (or two, of which MAX_PATH cuts the second off), two with a   *)
(* separator at the end, none, and two that cannot be made.                *)
(***************************************************************************)
EXTENDS Processes
MCPaths == {<<>>, <<1>>, <<1, 2, 2>>, <<0, 1>>, <<1, 0>>}
=============================================================================
