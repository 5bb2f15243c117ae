-------------------------- MODULE MutualExclusion ---------------------------
(***************************************************************************)
(* What a lock promises, whatever it is made of: of each lock at most one  *)
(* thread at a time is inside.  inside[l] is the set of threads that are   *)
(* inside the code guarded by l; a thread already inside may nest deeper   *)
(* without that being seen here.                                           *)
(***************************************************************************)
CONSTANTS Thread, Lock
VARIABLE inside

Init == inside = [l \in Lock |-> {}]

Enter(t, l) == /\ inside[l] = {}
               /\ inside' = [inside EXCEPT ![l] = {t}]

Exit(t, l) == /\ inside[l] = {t}
              /\ inside' = [inside EXCEPT ![l] = {}]

Next == \E t \in Thread, l \in Lock : Enter(t, l) \/ Exit(t, l)

Spec == Init /\ [][Next]_inside
=============================================================================
