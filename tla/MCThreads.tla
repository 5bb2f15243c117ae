----------------------------- MODULE MCThreads ------------------------------
(***************************************************************************)
(* One object of each class, two threads started beside Main, two handle   *)
(* values, and one lock, by hand or by guard: the first thread asks for it *)
(* twice, so that it nests, the second thread and Main once each.          *)
(***************************************************************************)
EXTENDS Threads
MCEntries == [t \in Thread |-> IF t = 1 THEN 2 ELSE 1]
=============================================================================
