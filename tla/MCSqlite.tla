------------------------------ MODULE MCSqlite ------------------------------
(***************************************************************************)
(* One careful process, which stores two rows and queries, and one         *)
(* careless process, which stores one.  Two connections at once: the       *)
(* careless one can lose a connection while the careful one has its own,   *)
(* or lose one and open another.                                           *)
(***************************************************************************)
EXTENDS Sqlite

MCMaxRows == [p \in Process |-> IF p \in Careless THEN 1 ELSE 2]

=============================================================================
