------------------------------ MODULE SyncLock ------------------------------
(***************************************************************************)
(* SyncLock and SyncLockGuard (Hpp/SyncLock.hpp): a recursive critical     *)
(* section, locked by hand or by guard objects whose scopes nest.  A call  *)
(* that finds the section in another thread's hands blocks (want) until it *)
(* is free.                                                                *)
(*                                                                         *)
(* The program unlocks by hand only what it has locked by hand, and copies *)
(* no guard: the header shows no other use, and what a thread that does    *)
(* not own a CRITICAL_SECTION does by leaving it is undefined.             *)
(***************************************************************************)
EXTENDS Integers, Sequences, FiniteSets

CONSTANTS Thread,
          Lock,       \* the SyncLock objects
          NULL,       \* a null SyncLock*, and no thread
          MaxEntries  \* bound: locks and guards each thread asks for

ASSUME SyncLockAssumption ==
  /\ NULL \notin Thread \union Lock
  /\ MaxEntries \in [Thread -> Nat]

VARIABLES owner,    \* CRITICAL_SECTION: the thread that owns it
          depth,    \* CRITICAL_SECTION: how often it has entered
          guards,   \* m_pLock of the guards in each thread's scopes, the
                    \*   innermost last
          manual,   \* Lock() calls each thread has still to undo
          want,     \* the Lock() or guard each thread is blocked in
          entries   \* how many of these each thread has begun

lockVars == <<owner, depth, guards, manual, want, entries>>

-----------------------------------------------------------------------------
NotBlocked == [lock |-> NULL, guard |-> FALSE]

(* EnterCriticalSection and LeaveCriticalSection. *)
Enter(t, l) ==
  /\ owner[l] \in {t, NULL}
  /\ owner' = [owner EXCEPT ![l] = t]
  /\ depth' = [depth EXCEPT ![l] = @ + 1]

Leave(l) ==
  /\ depth' = [depth EXCEPT ![l] = @ - 1]
  /\ owner' = [owner EXCEPT ![l] = IF depth[l] = 1 THEN NULL ELSE @]

(* What a guard does with its lock in ManualUnlock and in its destructor.  *)
Disarm(l) == IF l = NULL THEN UNCHANGED <<owner, depth>> ELSE Leave(l)

LockInit ==
  /\ owner = [l \in Lock |-> NULL]
  /\ depth = [l \in Lock |-> 0]
  /\ guards = [t \in Thread |-> <<>>]
  /\ manual = [t \in Thread |-> [l \in Lock |-> 0]]
  /\ want = [t \in Thread |-> NotBlocked]
  /\ entries = [t \in Thread |-> 0]

(* Mutant: a guard is made as a copy of another would be, without a lock. *)
TakenByCopy(t, l, guard) ==
  IF guard
  THEN /\ guards' = [guards EXCEPT ![t] = Append(@, l)]
       /\ UNCHANGED <<manual, owner, depth>>
  ELSE /\ Enter(t, l)
       /\ manual' = [manual EXCEPT ![t][l] = @ + 1]
       /\ UNCHANGED guards

(* Lock() or the constructor of a guard on l returns. *)
Taken(t, l, guard) ==
  /\ IF l = NULL THEN UNCHANGED <<owner, depth>> ELSE Enter(t, l)
  /\ IF guard
     THEN guards' = [guards EXCEPT ![t] = Append(@, l)] /\ UNCHANGED manual
     ELSE manual' = [manual EXCEPT ![t][l] = @ + 1] /\ UNCHANGED guards

(* Lock(), or a guard declared: through at once unless another thread owns *)
(* the section.                                                            *)
Take(t, l, guard) ==
  /\ want[t] = NotBlocked
  /\ entries[t] < MaxEntries[t]
  /\ entries' = [entries EXCEPT ![t] = @ + 1]
  /\ IF l # NULL /\ owner[l] \notin {t, NULL}
     THEN /\ want' = [want EXCEPT ![t] = [lock |-> l, guard |-> guard]]
          /\ UNCHANGED <<owner, depth, guards, manual>>
     ELSE Taken(t, l, guard) /\ UNCHANGED want

(* A thread that was blocked goes on. *)
Resume(t) ==
  /\ want[t] # NotBlocked
  /\ owner[want[t].lock] = NULL
  /\ Taken(t, want[t].lock, want[t].guard)
  /\ want' = [want EXCEPT ![t] = NotBlocked]
  /\ UNCHANGED entries

Unlock(t, l) ==
  /\ want[t] = NotBlocked
  /\ manual[t][l] > 0
  /\ Leave(l)
  /\ manual' = [manual EXCEPT ![t][l] = @ - 1]
  /\ UNCHANGED <<guards, want, entries>>

(* Mutant: a guard is unlocked early and stays armed. *)
ManualUnlockArmed(t, i) ==
  /\ want[t] = NotBlocked
  /\ Disarm(guards[t][i])
  /\ UNCHANGED <<guards, manual, want, entries>>

(* Any guard in scope may be unlocked early. *)
ManualUnlock(t, i) ==
  /\ want[t] = NotBlocked
  /\ Disarm(guards[t][i])
  /\ guards' = [guards EXCEPT ![t][i] = NULL]
  /\ UNCHANGED <<manual, want, entries>>

(* Mutant: the destructor does not unlock. *)
DestroyGuardSilently(t) ==
  /\ want[t] = NotBlocked
  /\ guards[t] # <<>>
  /\ guards' = [guards EXCEPT ![t] = SubSeq(@, 1, Len(@) - 1)]
  /\ UNCHANGED <<owner, depth, manual, want, entries>>

(* The innermost scope ends. *)
DestroyGuard(t) ==
  /\ want[t] = NotBlocked
  /\ guards[t] # <<>>
  /\ Disarm(guards[t][Len(guards[t])])
  /\ guards' = [guards EXCEPT ![t] = SubSeq(@, 1, Len(@) - 1)]
  /\ UNCHANGED <<manual, want, entries>>

Takes(t) == \/ \E l \in Lock : Take(t, l, FALSE)
            \/ \E l \in Lock \union {NULL} : Take(t, l, TRUE)

Releases(t) == \/ \E l \in Lock : Unlock(t, l)
               \/ \E i \in DOMAIN guards[t] : ManualUnlock(t, i)
               \/ DestroyGuard(t)

(* Whether t holds, or waits for, nothing. *)
Unlocked(t) == /\ want[t] = NotBlocked
               /\ guards[t] = <<>>
               /\ \A l \in Lock : manual[t][l] = 0

-----------------------------------------------------------------------------
Armed(t, l) == {i \in DOMAIN guards[t] : guards[t][i] = l}

LockTypeOK ==
  /\ owner \in [Lock -> Thread \union {NULL}]
  /\ depth \in [Lock -> Nat]
  /\ guards \in [Thread -> Seq(Lock \union {NULL})]
  /\ manual \in [Thread -> [Lock -> Nat]]
  /\ want \in [Thread -> [lock : Lock \union {NULL}, guard : BOOLEAN]]
  /\ entries \in [Thread -> Nat]

(* A critical section has been entered exactly as often as its owner's     *)
(* guards and Lock() calls have still to undo, and nobody else has         *)
(* anything to undo: a guard that unlocked twice (SyncLock.hpp:79-80), or  *)
(* a copy of one, would free the section under an enclosing guard.         *)
GuardsAccounted ==
  \A t \in Thread, l \in Lock :
    manual[t][l] + Cardinality(Armed(t, l)) =
      IF owner[l] = t THEN depth[l] ELSE 0

(* The threads that rely on l: in the scope of an armed guard or between   *)
(* Lock() and Unlock() (SyncLock.hpp:25-26, 78-80).                        *)
Inside == [l \in Lock |-> {t \in Thread : manual[t][l] > 0 \/ Armed(t, l) # {}}]

M == INSTANCE MutualExclusion WITH inside <- Inside

(* Whatever nests, is unlocked early or recursive: of the threads that     *)
(* rely on a lock there is at most one.                                    *)
MutexSpec == M!Spec
=============================================================================
