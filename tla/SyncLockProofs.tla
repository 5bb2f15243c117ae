--------------------------- MODULE SyncLockProofs ---------------------------
(***************************************************************************)
(* What every step of a thread keeps of the locks of SyncLock, for any     *)
(* number of threads, locks and guards: a section is entered as often as   *)
(* its owner's guards and Lock() calls have still to undo, so that at most *)
(* one thread relies on it.  The component that composes the locks with a  *)
(* program makes theorems of its specification from the lemmas             *)
(* LocksInitially and LocksKept.                                           *)
(***************************************************************************)
EXTENDS SyncLock, FiniteSetTheorems, SequenceTheorems, TLAPS

Slot == Lock \union {NULL}

(* Where the guards of a thread hold x. *)
At(s, x) == {i \in DOMAIN s : s[i] = x}

(* What thread t has still to undo on lock l. *)
Count(t, l) == manual[t][l] + Cardinality(Armed(t, l))

-----------------------------------------------------------------------------
(* Guards in scope *)

LEMMA AtFinite ==
  ASSUME NEW s \in Seq(Slot), NEW x
  PROVE  IsFiniteSet(At(s, x)) /\ Cardinality(At(s, x)) \in Nat
<1>1. Len(s) \in Nat /\ DOMAIN s = 1..Len(s)
  OBVIOUS
<1>2. IsFiniteSet(1..Len(s))
  BY <1>1, FS_Interval
<1>3. At(s, x) \in SUBSET (1..Len(s))
  BY <1>1 DEF At
<1>4. IsFiniteSet(At(s, x))
  BY <1>2, <1>3, FS_Subset
<1> QED BY <1>4, FS_CardinalityType

(* A scope begins. *)
LEMMA AtAppend ==
  ASSUME NEW s \in Seq(Slot), NEW y \in Slot, NEW x
  PROVE  /\ Append(s, y) \in Seq(Slot)
         /\ Cardinality(At(Append(s, y), x)) =
              Cardinality(At(s, x)) + (IF x = y THEN 1 ELSE 0)
<1> DEFINE n == Len(s)
           a == Append(s, y)
<1>1. /\ n \in Nat /\ DOMAIN s = 1..n
      /\ a \in Seq(Slot) /\ Len(a) = n + 1 /\ a[n + 1] = y
      /\ \A i \in 1..n : a[i] = s[i]
  BY AppendProperties
<1>2. DOMAIN a = 1..(n + 1)
  BY <1>1
<1>3. IsFiniteSet(At(s, x)) /\ Cardinality(At(s, x)) \in Nat /\ n + 1 \notin At(s, x)
  <2>1. n + 1 \notin 1..n
    BY <1>1
  <2> QED BY <1>1, <2>1, AtFinite DEF At
<1> HIDE DEF n, a
<1>4. CASE x = y
  <2>1. At(a, x) = At(s, x) \cup {n + 1}
    BY <1>1, <1>2, <1>4 DEF At
  <2>2. Cardinality(At(a, x)) = Cardinality(At(s, x)) + 1
    BY <1>3, <2>1, FS_AddElement
  <2> QED BY <1>1, <1>4, <2>2 DEF a
<1>5. CASE x # y
  <2>1. At(a, x) = At(s, x)
    BY <1>1, <1>2, <1>5 DEF At
  <2> QED BY <1>1, <1>3, <1>5, <2>1 DEF a
<1> QED BY <1>4, <1>5

(* What is left of x when the guard at i holds it no more. *)
LEMMA AtWithout ==
  ASSUME NEW s \in Seq(Slot), NEW x, NEW r, NEW i \in 1..Len(s),
         At(r, x) = At(s, x) \ {i}
  PROVE  /\ Cardinality(At(r, x)) = Cardinality(At(s, x)) - (IF s[i] = x THEN 1 ELSE 0)
         /\ s[i] = x => Cardinality(At(s, x)) > 0
<1>1. IsFiniteSet(At(s, x)) /\ Cardinality(At(s, x)) \in Nat
  BY AtFinite
<1>2. i \in At(s, x) <=> s[i] = x
  BY DEF At
<1>3. Cardinality(At(r, x)) = IF i \in At(s, x) THEN Cardinality(At(s, x)) - 1
                              ELSE Cardinality(At(s, x))
  BY <1>1, FS_RemoveElement
<1>4. i \in At(s, x) => Cardinality(At(s, x)) # 0
  BY <1>1, FS_EmptySet
<1> QED BY <1>1, <1>2, <1>3, <1>4

(* A guard is unlocked early. *)
LEMMA AtDisarm ==
  ASSUME NEW s \in Seq(Slot), NEW i \in 1..Len(s), NEW x \in Lock
  PROVE  /\ [s EXCEPT ![i] = NULL] \in Seq(Slot)
         /\ At([s EXCEPT ![i] = NULL], x) = At(s, x) \ {i}
<1> DEFINE r == [s EXCEPT ![i] = NULL]
<1>1. /\ r \in Seq(Slot) /\ Len(r) = Len(s)
      /\ \A j \in 1..Len(s) : r[j] = IF j = i THEN NULL ELSE s[j]
  BY ExceptSeq DEF Slot
<1>2. DOMAIN s = 1..Len(s) /\ DOMAIN r = 1..Len(s) /\ x # NULL
  BY <1>1, SyncLockAssumption
<1> HIDE DEF r
<1>3. At(r, x) = At(s, x) \ {i}
  BY <1>1, <1>2 DEF At
<1> QED BY <1>1, <1>3 DEF r

(* The innermost scope ends. *)
LEMMA AtShorten ==
  ASSUME NEW s \in Seq(Slot), s # <<>>, NEW x
  PROVE  /\ SubSeq(s, 1, Len(s) - 1) \in Seq(Slot)
         /\ At(SubSeq(s, 1, Len(s) - 1), x) = At(s, x) \ {Len(s)}
         /\ Len(s) \in 1..Len(s)
<1> DEFINE n == Len(s)
           r == SubSeq(s, 1, n - 1)
<1>1. n \in Nat \ {0} /\ DOMAIN s = 1..n
  BY EmptySeq
<1>2. \A i \in 1..(n - 1) : s[i] \in Slot
  BY <1>1, ElementOfSeq
<1>3. /\ r \in Seq(Slot) /\ Len(r) = (IF 1 <= n - 1 THEN (n - 1) - 1 + 1 ELSE 0)
      /\ \A i \in 1..(n - 1) - 1 + 1 : r[i] = s[1 + i - 1]
  BY <1>1, <1>2, SubSeqProperties
<1> HIDE DEF n, r
<1>4. /\ Len(r) = n - 1 /\ DOMAIN r = 1..(n - 1)
      /\ \A i \in 1..(n - 1) : r[i] = s[i]
  BY <1>1, <1>3
<1>5. At(r, x) = At(s, x) \ {n}
  BY <1>1, <1>4 DEF At
<1> QED BY <1>1, <1>3, <1>5 DEF n, r

-----------------------------------------------------------------------------
(* The locks *)

(* A blocked thread waits for a lock, and a free section is not entered.   *)
WantsLock == \A t \in Thread : want[t] # NotBlocked => want[t].lock \in Lock
FreeUnentered == \A l \in Lock : owner[l] = NULL => depth[l] = 0

LockInv == LockTypeOK /\ GuardsAccounted /\ WantsLock /\ FreeUnentered

(* Of a step's two sides, what the step of t changes is its count on l.    *)
OnlyCount(t, l) == \A k \in Thread, m \in Lock :
                     k # t \/ m # l => Count(k, m)' = Count(k, m)

SameCounts == \A k \in Thread, m \in Lock : Count(k, m)' = Count(k, m)

LEMMA CountType ==
  ASSUME LockTypeOK, NEW t \in Thread, NEW l \in Lock
  PROVE  /\ Count(t, l) \in Nat /\ manual[t][l] \in Nat
         /\ Armed(t, l) = At(guards[t], l) /\ guards[t] \in Seq(Slot)
         /\ Cardinality(Armed(t, l)) \in Nat /\ IsFiniteSet(Armed(t, l))
<1>1. manual[t][l] \in Nat /\ guards[t] \in Seq(Slot)
  BY DEF LockTypeOK, Slot
<1>2. Armed(t, l) = At(guards[t], l)
  BY DEF Armed, At
<1> QED BY <1>1, <1>2, AtFinite DEF Count

(* A count above zero is the owner's. *)
LEMMA OwnerCounts ==
  ASSUME LockInv, NEW t \in Thread, NEW l \in Lock
  PROVE  /\ Count(t, l) = IF owner[l] = t THEN depth[l] ELSE 0
         /\ Count(t, l) > 0 => owner[l] = t
BY CountType DEF LockInv, GuardsAccounted, Count

LEMMA EnterAccounted ==
  ASSUME LockInv, NEW t \in Thread, NEW l \in Lock, Enter(t, l),
         OnlyCount(t, l), Count(t, l)' = Count(t, l) + 1
  PROVE  /\ GuardsAccounted' /\ FreeUnentered'
         /\ owner[l] \in {t, NULL}
         /\ owner' \in [Lock -> Thread \union {NULL}] /\ depth' \in [Lock -> Nat]
<1>1. owner \in [Lock -> Thread \union {NULL}] /\ depth \in [Lock -> Nat]
  BY DEF LockInv, LockTypeOK
<1>2. /\ owner[l] \in {t, NULL} /\ t # NULL
      /\ owner' = [owner EXCEPT ![l] = t] /\ depth' = [depth EXCEPT ![l] = @ + 1]
  BY SyncLockAssumption DEF Enter
<1>3. owner'[l] = t /\ depth'[l] = depth[l] + 1
  BY <1>1, <1>2
<1>4. Count(t, l) = depth[l]
  BY <1>2, OwnerCounts DEF LockInv, FreeUnentered
<1>5. ASSUME NEW k \in Thread, NEW m \in Lock
      PROVE  Count(k, m)' = IF owner'[m] = k THEN depth'[m] ELSE 0
  <2>1. CASE k = t /\ m = l
    BY <1>3, <1>4, <2>1
  <2>2. CASE m = l /\ k # t
    <3>1. owner[l] # k /\ Count(k, m)' = Count(k, m)
      BY <1>2, <2>2, SyncLockAssumption DEF OnlyCount
    <3>2. Count(k, l) = 0
      BY <3>1, OwnerCounts
    <3> QED BY <1>3, <2>2, <3>1, <3>2
  <2>3. CASE m # l
    <3>1. owner'[m] = owner[m] /\ depth'[m] = depth[m] /\ Count(k, m)' = Count(k, m)
      BY <1>1, <1>2, <2>3 DEF OnlyCount
    <3> QED BY <3>1, OwnerCounts
  <2> QED BY <2>1, <2>2, <2>3
<1>6. GuardsAccounted'
  BY <1>5 DEF GuardsAccounted, Count
<1>7. FreeUnentered'
  <2> SUFFICES ASSUME NEW m \in Lock, owner'[m] = NULL PROVE depth'[m] = 0
    BY DEF FreeUnentered
  <2>1. m # l
    BY <1>2, <1>3
  <2>2. owner'[m] = owner[m] /\ depth'[m] = depth[m]
    BY <1>1, <1>2, <2>1
  <2> QED BY <2>2 DEF LockInv, FreeUnentered
<1>8. owner' \in [Lock -> Thread \union {NULL}] /\ depth' \in [Lock -> Nat]
  BY <1>1, <1>2
<1> QED BY <1>2, <1>6, <1>7, <1>8

LEMMA LeaveAccounted ==
  ASSUME LockInv, NEW t \in Thread, NEW l \in Lock, Leave(l),
         Count(t, l) > 0, OnlyCount(t, l), Count(t, l)' = Count(t, l) - 1
  PROVE  /\ GuardsAccounted' /\ FreeUnentered'
         /\ owner[l] = t
         /\ owner' \in [Lock -> Thread \union {NULL}] /\ depth' \in [Lock -> Nat]
<1>1. owner \in [Lock -> Thread \union {NULL}] /\ depth \in [Lock -> Nat]
  BY DEF LockInv, LockTypeOK
<1>2. /\ depth' = [depth EXCEPT ![l] = @ - 1]
      /\ owner' = [owner EXCEPT ![l] = IF depth[l] = 1 THEN NULL ELSE @]
      /\ t # NULL
  BY SyncLockAssumption DEF Leave
<1>3. owner[l] = t /\ Count(t, l) = depth[l]
  BY OwnerCounts
<1>4. /\ depth'[l] = depth[l] - 1 /\ depth[l] \in Nat /\ depth[l] > 0
      /\ owner'[l] = IF depth[l] = 1 THEN NULL ELSE t
  BY <1>1, <1>2, <1>3
<1>5. ASSUME NEW k \in Thread, NEW m \in Lock
      PROVE  Count(k, m)' = IF owner'[m] = k THEN depth'[m] ELSE 0
  <2>1. CASE k = t /\ m = l
    BY <1>2, <1>3, <1>4, <2>1
  <2>2. CASE m = l /\ k # t
    <3>1. owner[l] # k /\ owner'[l] # k /\ Count(k, m)' = Count(k, m)
      BY <1>3, <1>4, <2>2, SyncLockAssumption DEF OnlyCount
    <3>2. Count(k, l) = 0
      BY <3>1, OwnerCounts
    <3> QED BY <2>2, <3>1, <3>2
  <2>3. CASE m # l
    <3>1. owner'[m] = owner[m] /\ depth'[m] = depth[m] /\ Count(k, m)' = Count(k, m)
      BY <1>1, <1>2, <2>3 DEF OnlyCount
    <3> QED BY <3>1, OwnerCounts
  <2> QED BY <2>1, <2>2, <2>3
<1>6. GuardsAccounted'
  BY <1>5 DEF GuardsAccounted, Count
<1>7. FreeUnentered'
  <2> SUFFICES ASSUME NEW m \in Lock, owner'[m] = NULL PROVE depth'[m] = 0
    BY DEF FreeUnentered
  <2>1. CASE m = l
    BY <1>2, <1>4, <2>1
  <2>2. CASE m # l
    <3>1. owner'[m] = owner[m] /\ depth'[m] = depth[m]
      BY <1>1, <1>2, <2>2
    <3> QED BY <3>1 DEF LockInv, FreeUnentered
  <2> QED BY <2>1, <2>2
<1>8. owner' \in [Lock -> Thread \union {NULL}] /\ depth' \in [Lock -> Nat]
  <2>1. depth' \in [Lock -> Nat]
    <3>1. depth[l] - 1 \in Nat
      BY <1>4
    <3> QED BY <1>1, <1>2, <3>1
  <2> QED BY <1>1, <1>2, <2>1
<1> QED BY <1>3, <1>6, <1>7, <1>8

LEMMA SameAccounted ==
  ASSUME LockInv, UNCHANGED <<owner, depth>>, SameCounts
  PROVE  /\ GuardsAccounted' /\ FreeUnentered'
         /\ owner' \in [Lock -> Thread \union {NULL}] /\ depth' \in [Lock -> Nat]
<1>1. ASSUME NEW k \in Thread, NEW m \in Lock
      PROVE  Count(k, m)' = IF owner'[m] = k THEN depth'[m] ELSE 0
  BY OwnerCounts DEF SameCounts
<1>2. GuardsAccounted'
  BY <1>1 DEF GuardsAccounted, Count
<1>3. FreeUnentered'
  BY DEF LockInv, FreeUnentered
<1> QED BY <1>2, <1>3 DEF LockInv, LockTypeOK

-----------------------------------------------------------------------------
(* Mutual exclusion *)

InsideIsCounts == Inside = [l \in Lock |-> {t \in Thread : Count(t, l) > 0}]

(* Inside is made of the counts. *)
LEMMA InsideCounts ==
  ASSUME LockTypeOK
  PROVE  InsideIsCounts
<1>1. ASSUME NEW t \in Thread, NEW l \in Lock
      PROVE  (manual[t][l] > 0 \/ Armed(t, l) # {}) <=> Count(t, l) > 0
  <2>1. /\ manual[t][l] \in Nat /\ Cardinality(Armed(t, l)) \in Nat
        /\ Cardinality(Armed(t, l)) = 0 <=> Armed(t, l) = {}
    BY CountType, FS_EmptySet
  <2> QED BY <2>1 DEF Count
<1> QED BY <1>1 DEF Inside, InsideIsCounts

(* A step that changes one count, on a lock that nobody else relies on, is *)
(* one of MutualExclusion or is not seen there.                            *)
LEMMA OneCountExcludes ==
  ASSUME LockInv, LockTypeOK', NEW t \in Thread, NEW l \in Lock,
         OnlyCount(t, l), owner[l] \in {t, NULL}
  PROVE  [M!Next]_Inside
<1>1. /\ Inside = [m \in Lock |-> {k \in Thread : Count(k, m) > 0}]
      /\ Inside' = [m \in Lock |-> {k \in Thread : Count(k, m)' > 0}]
  <2>1. InsideIsCounts
    BY InsideCounts DEF LockInv
  <2>2. LockTypeOK' => InsideIsCounts'
    BY InsideCounts, PTL
  <2> QED BY <2>1, <2>2 DEF InsideIsCounts
<1>2. \A m \in Lock \ {l} : Inside'[m] = Inside[m]
  <2> TAKE m \in Lock \ {l}
  <2>1. \A k \in Thread : Count(k, m)' = Count(k, m)
    BY DEF OnlyCount
  <2> QED BY <1>1, <2>1
<1>3. \A k \in Thread : k # t => ~(Count(k, l) > 0) /\ ~(Count(k, l)' > 0)
  <2> TAKE k \in Thread
  <2> HAVE k # t
  <2>1. owner[l] # k
    BY SyncLockAssumption
  <2>2. ~(Count(k, l) > 0)
    BY <2>1, OwnerCounts
  <2>3. Count(k, l)' = Count(k, l)
    BY DEF OnlyCount
  <2> QED BY <2>2, <2>3
<1>4. Inside[l] \in {{}, {t}} /\ Inside'[l] \in {{}, {t}}
  <2>1. Inside[l] = {k \in Thread : Count(k, l) > 0}
    BY <1>1
  <2>2. Inside'[l] = {k \in Thread : Count(k, l)' > 0}
    BY <1>1
  <2>3. Inside[l] = IF Count(t, l) > 0 THEN {t} ELSE {}
    BY <1>3, <2>1
  <2>4. Inside'[l] = IF Count(t, l)' > 0 THEN {t} ELSE {}
    BY <1>3, <2>2
  <2> QED BY <2>3, <2>4
<1>5. Inside' = [Inside EXCEPT ![l] = Inside'[l]]
  <2> DEFINE E == [Inside EXCEPT ![l] = Inside'[l]]
             J == Inside'
  <2>1. /\ E = [m \in Lock |-> IF m = l THEN J[l] ELSE Inside[m]]
        /\ J = [m \in Lock |-> J[m]]
    BY <1>1
  <2>2. \A m \in Lock : J[m] = IF m = l THEN J[l] ELSE Inside[m]
    BY <1>2
  <2> HIDE DEF J
  <2>3. J = E
    BY <2>1, <2>2
  <2> QED BY <2>3 DEF J
<1>6. CASE Inside'[l] = Inside[l]
  <2>1. Inside' = Inside
    BY <1>1, <1>5, <1>6
  <2> QED BY <2>1
<1>7. CASE Inside[l] = {} /\ Inside'[l] = {t}
  BY <1>5, <1>7 DEF M!Next, M!Enter
<1>8. CASE Inside[l] = {t} /\ Inside'[l] = {}
  BY <1>5, <1>8 DEF M!Next, M!Exit
<1> QED BY <1>4, <1>6, <1>7, <1>8

LEMMA SameCountsExcludes ==
  ASSUME LockTypeOK, LockTypeOK', SameCounts
  PROVE  [M!Next]_Inside
<1>1. InsideIsCounts
  BY InsideCounts
<1>2. LockTypeOK' => InsideIsCounts'
  BY InsideCounts, PTL
<1>3. \A m \in Lock : {k \in Thread : Count(k, m)' > 0} = {k \in Thread : Count(k, m) > 0}
  BY DEF SameCounts
<1>4. Inside' = Inside
  BY <1>1, <1>2, <1>3 DEF InsideIsCounts
<1> QED BY <1>4

-----------------------------------------------------------------------------
(* The steps of a thread *)

(* How a step of t on the guards or the calls by hand changes the counts.  *)
LEMMA GuardsChange ==
  ASSUME LockTypeOK, NEW t \in Thread, NEW r \in Seq(Slot),
         guards' = [guards EXCEPT ![t] = r], manual' = manual
  PROVE  /\ guards' \in [Thread -> Seq(Slot)] /\ manual' \in [Thread -> [Lock -> Nat]]
         /\ \A m \in Lock : Count(t, m)' = manual[t][m] + Cardinality(At(r, m))
         /\ \A k \in Thread \ {t}, m \in Lock : Count(k, m)' = Count(k, m)
<1>1. /\ guards \in [Thread -> Seq(Slot)] /\ manual \in [Thread -> [Lock -> Nat]]
  BY DEF LockTypeOK, Slot
<1>2. /\ guards' \in [Thread -> Seq(Slot)] /\ guards'[t] = r
      /\ \A k \in Thread \ {t} : guards'[k] = guards[k]
  BY <1>1
<1>3. \A k \in Thread, m \in Lock : Armed(k, m)' = At(guards'[k], m)
  BY DEF Armed, At
<1>4. ASSUME NEW m \in Lock PROVE Count(t, m)' = manual[t][m] + Cardinality(At(r, m))
  BY <1>2, <1>3 DEF Count
<1>5. ASSUME NEW k \in Thread \ {t}, NEW m \in Lock PROVE Count(k, m)' = Count(k, m)
  <2>1. Armed(k, m)' = Armed(k, m)
    BY <1>2 DEF Armed
  <2> QED BY <2>1 DEF Count
<1> QED BY <1>1, <1>2, <1>4, <1>5

LEMMA ManualChange ==
  ASSUME LockTypeOK, NEW t \in Thread, NEW l \in Lock, NEW n \in Nat,
         manual' = [manual EXCEPT ![t][l] = n], guards' = guards
  PROVE  /\ manual' \in [Thread -> [Lock -> Nat]] /\ guards' \in [Thread -> Seq(Slot)]
         /\ Count(t, l)' = n + Cardinality(Armed(t, l))
         /\ OnlyCount(t, l)
<1>1. guards \in [Thread -> Seq(Slot)] /\ manual \in [Thread -> [Lock -> Nat]]
  BY DEF LockTypeOK, Slot
<1>2. /\ manual' \in [Thread -> [Lock -> Nat]] /\ manual'[t][l] = n
      /\ \A k \in Thread, m \in Lock : k # t \/ m # l => manual'[k][m] = manual[k][m]
  BY <1>1
<1>3. \A k \in Thread, m \in Lock : Armed(k, m)' = Armed(k, m)
  BY DEF Armed
<1>4. Count(t, l)' = n + Cardinality(Armed(t, l))
  BY <1>2, <1>3 DEF Count
<1>5. OnlyCount(t, l)
  BY <1>2, <1>3 DEF OnlyCount, Count
<1> QED BY <1>1, <1>2, <1>4, <1>5

(* A guard on x is declared. *)
LEMMA PushChange ==
  ASSUME LockTypeOK, NEW t \in Thread, NEW x \in Slot,
         guards' = [guards EXCEPT ![t] = Append(@, x)], manual' = manual
  PROVE  /\ guards' \in [Thread -> Seq(Slot)] /\ manual' \in [Thread -> [Lock -> Nat]]
         /\ \A m \in Lock : Count(t, m)' = Count(t, m) + (IF m = x THEN 1 ELSE 0)
         /\ \A k \in Thread \ {t}, m \in Lock : Count(k, m)' = Count(k, m)
<1> DEFINE s == guards[t]
           r == Append(s, x)
<1>1. s \in Seq(Slot) /\ guards' = [guards EXCEPT ![t] = r]
  BY DEF LockTypeOK, Slot
<1>2. /\ r \in Seq(Slot)
      /\ \A m : Cardinality(At(r, m)) = Cardinality(At(s, m)) + (IF m = x THEN 1 ELSE 0)
  BY <1>1, AtAppend
<1> HIDE DEF r
<1>3. ASSUME NEW m \in Lock
      PROVE  Count(t, m)' = Count(t, m) + (IF m = x THEN 1 ELSE 0)
  <2>1. Count(t, m)' = manual[t][m] + Cardinality(At(r, m))
    BY <1>1, <1>2, GuardsChange
  <2>2. /\ Count(t, m) = manual[t][m] + Cardinality(At(s, m))
        /\ manual[t][m] \in Nat /\ Cardinality(At(s, m)) \in Nat
    BY CountType DEF Count
  <2>3. Cardinality(At(r, m)) = Cardinality(At(s, m)) + (IF m = x THEN 1 ELSE 0)
    BY <1>2
  <2> HIDE DEF s
  <2> QED BY <2>1, <2>2, <2>3
<1> QED BY <1>1, <1>2, <1>3, GuardsChange

(* The guard in place i of t holds its lock no more. *)
LEMMA DropChange ==
  ASSUME LockTypeOK, NEW t \in Thread, NEW r \in Seq(Slot), NEW i \in 1..Len(guards[t]),
         guards' = [guards EXCEPT ![t] = r], manual' = manual,
         \A m \in Lock : At(r, m) = At(guards[t], m) \ {i}
  PROVE  /\ guards' \in [Thread -> Seq(Slot)] /\ manual' \in [Thread -> [Lock -> Nat]]
         /\ \A m \in Lock :
              /\ guards[t][i] = m => Count(t, m) > 0 /\ Count(t, m)' = Count(t, m) - 1
              /\ guards[t][i] # m => Count(t, m)' = Count(t, m)
         /\ \A k \in Thread \ {t}, m \in Lock : Count(k, m)' = Count(k, m)
<1> DEFINE s == guards[t]
<1>1. s \in Seq(Slot)
  BY DEF LockTypeOK, Slot
<1>3. ASSUME NEW m \in Lock
      PROVE  /\ s[i] = m => Count(t, m) > 0 /\ Count(t, m)' = Count(t, m) - 1
             /\ s[i] # m => Count(t, m)' = Count(t, m)
  <2>1. Count(t, m)' = manual[t][m] + Cardinality(At(r, m))
    BY GuardsChange
  <2>2. /\ Count(t, m) = manual[t][m] + Cardinality(At(s, m))
        /\ manual[t][m] \in Nat /\ Cardinality(At(s, m)) \in Nat
    BY CountType DEF Count
  <2>3. /\ Cardinality(At(r, m)) = Cardinality(At(s, m)) - (IF s[i] = m THEN 1 ELSE 0)
        /\ s[i] = m => Cardinality(At(s, m)) > 0
    BY <1>1, AtWithout
  <2> HIDE DEF s
  <2> QED BY <2>1, <2>2, <2>3
<1> QED BY <1>3, GuardsChange

(* What a step changes of the other two variables. *)
Waits == /\ want' \in [Thread -> [lock : Slot, guard : BOOLEAN]]
         /\ entries' \in [Thread -> Nat]
         /\ WantsLock'

LEMMA TypeKept ==
  ASSUME Waits, owner' \in [Lock -> Thread \union {NULL}], depth' \in [Lock -> Nat],
         guards' \in [Thread -> Seq(Slot)], manual' \in [Thread -> [Lock -> Nat]]
  PROVE  LockTypeOK'
BY DEF LockTypeOK, Waits, Slot

(* Lock() or the constructor of a guard returns. *)
LEMMA TakenKept ==
  ASSUME LockInv, NEW t \in Thread, NEW l \in Slot, NEW guard \in BOOLEAN,
         guard \/ l \in Lock, Taken(t, l, guard), Waits
  PROVE  LockInv' /\ [M!Next]_Inside
<1>1. LockTypeOK /\ NULL \notin Lock
  BY SyncLockAssumption DEF LockInv
<1>2. CASE l = NULL
  <2>1. /\ UNCHANGED <<owner, depth, manual>>
        /\ guards' = [guards EXCEPT ![t] = Append(@, l)]
    BY <1>1, <1>2 DEF Taken
  <2>2. /\ guards' \in [Thread -> Seq(Slot)] /\ manual' \in [Thread -> [Lock -> Nat]]
        /\ \A m \in Lock : Count(t, m)' = Count(t, m) + (IF m = l THEN 1 ELSE 0)
        /\ \A k \in Thread \ {t}, m \in Lock : Count(k, m)' = Count(k, m)
    BY <1>1, <2>1, PushChange
  <2>3. \A m \in Lock : Count(t, m)' = Count(t, m)
    <3> TAKE m \in Lock
    <3>1. Count(t, m)' = Count(t, m) + 0 /\ Count(t, m) \in Nat
      BY <1>1, <1>2, <2>2, CountType
    <3> QED BY <3>1
  <2>4. SameCounts
    BY <2>2, <2>3 DEF SameCounts
  <2>5. /\ GuardsAccounted' /\ FreeUnentered'
        /\ owner' \in [Lock -> Thread \union {NULL}] /\ depth' \in [Lock -> Nat]
    BY <2>1, <2>4, SameAccounted
  <2>6. LockTypeOK'
    BY <2>2, <2>5, TypeKept
  <2> QED BY <1>1, <2>4, <2>5, <2>6, SameCountsExcludes DEF LockInv, Waits
<1>3. CASE l \in Lock
  <2>1. Enter(t, l)
    BY <1>1, <1>3 DEF Taken
  <2>2. /\ guards' \in [Thread -> Seq(Slot)] /\ manual' \in [Thread -> [Lock -> Nat]]
        /\ Count(t, l)' = Count(t, l) + 1 /\ OnlyCount(t, l)
    <3>1. CASE guard
      <4>1. guards' = [guards EXCEPT ![t] = Append(@, l)] /\ manual' = manual
        BY <3>1 DEF Taken
      <4>2. /\ guards' \in [Thread -> Seq(Slot)] /\ manual' \in [Thread -> [Lock -> Nat]]
            /\ \A m \in Lock : Count(t, m)' = Count(t, m) + (IF m = l THEN 1 ELSE 0)
            /\ \A k \in Thread \ {t}, m \in Lock : Count(k, m)' = Count(k, m)
        BY <1>1, <4>1, PushChange
      <4>3. \A m \in Lock \ {l} : Count(t, m)' = Count(t, m)
        <5> TAKE m \in Lock \ {l}
        <5>1. Count(t, m)' = Count(t, m) + 0 /\ Count(t, m) \in Nat
          BY <1>1, <4>2, CountType
        <5> QED BY <5>1
      <4> QED BY <1>3, <4>2, <4>3 DEF OnlyCount
    <3>2. CASE ~guard
      <4>1. manual' = [manual EXCEPT ![t][l] = manual[t][l] + 1] /\ guards' = guards
        BY <1>1, <1>3, <3>2 DEF Taken, LockTypeOK
      <4>2. /\ manual[t][l] \in Nat /\ manual[t][l] + 1 \in Nat
            /\ Cardinality(Armed(t, l)) \in Nat
        BY <1>1, <1>3, CountType
      <4>3. /\ manual' \in [Thread -> [Lock -> Nat]] /\ guards' \in [Thread -> Seq(Slot)]
            /\ Count(t, l)' = (manual[t][l] + 1) + Cardinality(Armed(t, l))
            /\ OnlyCount(t, l)
        BY <1>1, <1>3, <4>1, <4>2, ManualChange
      <4>4. Count(t, l)' = Count(t, l) + 1
        BY <4>2, <4>3 DEF Count
      <4> QED BY <4>3, <4>4
    <3> QED BY <3>1, <3>2
  <2>3. /\ GuardsAccounted' /\ FreeUnentered' /\ owner[l] \in {t, NULL}
        /\ owner' \in [Lock -> Thread \union {NULL}] /\ depth' \in [Lock -> Nat]
    BY <1>3, <2>1, <2>2, EnterAccounted
  <2>4. LockTypeOK'
    BY <2>2, <2>3, TypeKept
  <2> QED BY <1>3, <2>2, <2>3, <2>4, OneCountExcludes DEF LockInv, Waits
<1> QED BY <1>2, <1>3 DEF Slot

(* A guard in place i lets go of its lock, if it has one. *)
LEMMA DisarmKept ==
  ASSUME LockInv, NEW t \in Thread, NEW r \in Seq(Slot), NEW i \in 1..Len(guards[t]),
         guards' = [guards EXCEPT ![t] = r], manual' = manual,
         \A m \in Lock : At(r, m) = At(guards[t], m) \ {i},
         NEW l \in Slot, l = guards[t][i], Disarm(l), Waits
  PROVE  LockInv' /\ [M!Next]_Inside
<1>1. LockTypeOK /\ NULL \notin Lock
  BY SyncLockAssumption DEF LockInv
<1>2. /\ guards' \in [Thread -> Seq(Slot)] /\ manual' \in [Thread -> [Lock -> Nat]]
      /\ \A m \in Lock :
           /\ l = m => Count(t, m) > 0 /\ Count(t, m)' = Count(t, m) - 1
           /\ l # m => Count(t, m)' = Count(t, m)
      /\ \A k \in Thread \ {t}, m \in Lock : Count(k, m)' = Count(k, m)
  <2>1. /\ guards' \in [Thread -> Seq(Slot)] /\ manual' \in [Thread -> [Lock -> Nat]]
        /\ \A m \in Lock :
             /\ guards[t][i] = m => Count(t, m) > 0 /\ Count(t, m)' = Count(t, m) - 1
             /\ guards[t][i] # m => Count(t, m)' = Count(t, m)
        /\ \A k \in Thread \ {t}, m \in Lock : Count(k, m)' = Count(k, m)
    BY <1>1, DropChange
  <2>2. l = guards[t][i]
    OBVIOUS
  <2> QED BY <2>1, <2>2
<1>3. CASE l = NULL
  <2>1. UNCHANGED <<owner, depth>>
    BY <1>3 DEF Disarm
  <2>2. SameCounts
    BY <1>1, <1>2, <1>3 DEF SameCounts
  <2>3. /\ GuardsAccounted' /\ FreeUnentered'
        /\ owner' \in [Lock -> Thread \union {NULL}] /\ depth' \in [Lock -> Nat]
    BY <2>1, <2>2, SameAccounted
  <2>4. LockTypeOK'
    BY <1>2, <2>3, TypeKept
  <2> QED BY <1>1, <2>2, <2>3, <2>4, SameCountsExcludes DEF LockInv, Waits
<1>4. CASE l \in Lock
  <2>1. Leave(l)
    BY <1>1, <1>4 DEF Disarm
  <2>2. Count(t, l)' = Count(t, l) - 1 /\ Count(t, l) > 0
    BY <1>2, <1>4
  <2>3. OnlyCount(t, l)
    BY <1>2, <1>4 DEF OnlyCount
  <2>4. /\ GuardsAccounted' /\ FreeUnentered' /\ owner[l] = t
        /\ owner' \in [Lock -> Thread \union {NULL}] /\ depth' \in [Lock -> Nat]
    BY <1>4, <2>1, <2>2, <2>3, LeaveAccounted
  <2>5. LockTypeOK'
    BY <1>2, <2>4, TypeKept
  <2> QED BY <1>4, <2>3, <2>4, <2>5, OneCountExcludes DEF LockInv, Waits
<1> QED BY <1>1, <1>3, <1>4 DEF Slot

LEMMA UnlockKept ==
  ASSUME LockInv, NEW t \in Thread, NEW l \in Lock, Unlock(t, l), Waits
  PROVE  LockInv' /\ [M!Next]_Inside
<1>1. LockTypeOK
  BY DEF LockInv
<1>2. /\ manual[t][l] > 0 /\ Leave(l) /\ guards' = guards
      /\ manual' = [manual EXCEPT ![t][l] = manual[t][l] - 1]
  BY <1>1 DEF Unlock, LockTypeOK
<1>3. /\ manual[t][l] \in Nat /\ manual[t][l] - 1 \in Nat
      /\ Cardinality(Armed(t, l)) \in Nat
  BY <1>1, <1>2, CountType
<1>4. /\ manual' \in [Thread -> [Lock -> Nat]] /\ guards' \in [Thread -> Seq(Slot)]
      /\ Count(t, l)' = (manual[t][l] - 1) + Cardinality(Armed(t, l))
      /\ OnlyCount(t, l)
  BY <1>1, <1>2, <1>3, ManualChange
<1>5. Count(t, l)' = Count(t, l) - 1 /\ Count(t, l) > 0
  BY <1>2, <1>3, <1>4 DEF Count
<1>6. /\ GuardsAccounted' /\ FreeUnentered' /\ owner[l] = t
      /\ owner' \in [Lock -> Thread \union {NULL}] /\ depth' \in [Lock -> Nat]
  BY <1>2, <1>4, <1>5, LeaveAccounted
<1>7. LockTypeOK'
  BY <1>4, <1>6, TypeKept
<1> QED BY <1>4, <1>6, <1>7, OneCountExcludes DEF LockInv, Waits

LEMMA TakesKept ==
  ASSUME LockInv, NEW t \in Thread, Takes(t)
  PROVE  LockInv' /\ [M!Next]_Inside
<1>1. PICK l \in Slot, guard \in BOOLEAN : Take(t, l, guard) /\ (guard \/ l \in Lock)
  BY DEF Takes, Slot
<1>2. /\ LockTypeOK /\ WantsLock /\ NULL \notin Lock
      /\ want \in [Thread -> [lock : Slot, guard : BOOLEAN]]
      /\ entries \in [Thread -> Nat]
  BY SyncLockAssumption DEF LockInv, LockTypeOK, Slot
<1>3. entries' \in [Thread -> Nat]
  BY <1>1, <1>2 DEF Take
<1>4. CASE l # NULL /\ owner[l] \notin {t, NULL}
  <2>1. /\ want' = [want EXCEPT ![t] = [lock |-> l, guard |-> guard]]
        /\ UNCHANGED <<owner, depth, guards, manual>>
    BY <1>1, <1>4 DEF Take
  <2>2. [lock |-> l, guard |-> guard] \in [lock : Slot, guard : BOOLEAN]
    OBVIOUS
  <2>3. /\ want' \in [Thread -> [lock : Slot, guard : BOOLEAN]]
        /\ want'[t] = [lock |-> l, guard |-> guard]
        /\ \A k \in Thread \ {t} : want'[k] = want[k]
    BY <1>2, <2>1, <2>2
  <2>4. l \in Lock
    BY <1>4 DEF Slot
  <2>5. WantsLock'
    <3> SUFFICES ASSUME NEW k \in Thread, want'[k] # NotBlocked
                 PROVE  want'[k].lock \in Lock
      BY DEF WantsLock
    <3>1. CASE k = t
      BY <2>3, <2>4, <3>1
    <3>2. CASE k # t
      BY <1>2, <2>3, <3>2 DEF WantsLock
    <3> QED BY <3>1, <3>2
  <2>6. SameCounts
    <3>1. \A k \in Thread, m \in Lock : Armed(k, m)' = Armed(k, m)
      BY <2>1 DEF Armed
    <3> QED BY <2>1, <3>1 DEF SameCounts, Count
  <2>7. /\ GuardsAccounted' /\ FreeUnentered'
        /\ owner' \in [Lock -> Thread \union {NULL}] /\ depth' \in [Lock -> Nat]
    BY <2>1, <2>6, SameAccounted
  <2>8. LockTypeOK'
    BY <1>2, <1>3, <2>1, <2>3, <2>5, <2>7, TypeKept DEF Waits, LockTypeOK, Slot
  <2> QED BY <1>2, <2>5, <2>6, <2>7, <2>8, SameCountsExcludes DEF LockInv
<1>5. CASE l = NULL \/ owner[l] \in {t, NULL}
  <2>1. Taken(t, l, guard) /\ want' = want
    BY <1>1, <1>5 DEF Take
  <2>2. Waits
    BY <1>2, <1>3, <2>1 DEF Waits, WantsLock
  <2> QED BY <1>1, <2>1, <2>2, TakenKept
<1> QED BY <1>4, <1>5

LEMMA ResumeKept ==
  ASSUME LockInv, NEW t \in Thread, Resume(t)
  PROVE  LockInv' /\ [M!Next]_Inside
<1>1. /\ WantsLock /\ NULL \notin Lock
      /\ want \in [Thread -> [lock : Slot, guard : BOOLEAN]]
      /\ entries \in [Thread -> Nat]
  BY SyncLockAssumption DEF LockInv, LockTypeOK, Slot
<1>2. want[t].lock \in Lock /\ want[t].guard \in BOOLEAN
  BY <1>1 DEF Resume, WantsLock
<1>3. want' = [want EXCEPT ![t] = NotBlocked] /\ entries' = entries
  BY DEF Resume
<1>4. NotBlocked \in [lock : Slot, guard : BOOLEAN]
  BY DEF NotBlocked, Slot
<1>5. /\ want' \in [Thread -> [lock : Slot, guard : BOOLEAN]]
      /\ want'[t] = NotBlocked
      /\ \A k \in Thread \ {t} : want'[k] = want[k]
  BY <1>1, <1>3, <1>4
<1>6. WantsLock'
  BY <1>1, <1>5 DEF WantsLock
<1>7. Waits
  BY <1>1, <1>3, <1>5, <1>6 DEF Waits
<1>8. PICK l \in Lock, guard \in BOOLEAN : l = want[t].lock /\ guard = want[t].guard
  BY <1>2
<1>9. Taken(t, l, guard)
  BY <1>8 DEF Resume
<1> QED BY <1>7, <1>9, TakenKept DEF Slot

LEMMA ReleasesKept ==
  ASSUME LockInv, NEW t \in Thread, Releases(t)
  PROVE  LockInv' /\ [M!Next]_Inside
<1>1. UNCHANGED <<want, entries>>
  BY DEF Releases, Unlock, ManualUnlock, DestroyGuard
<1>2. Waits
  BY <1>1 DEF Waits, LockInv, LockTypeOK, WantsLock, Slot
<1> DEFINE s == guards[t]
<1>3. s \in Seq(Slot)
  BY DEF LockInv, LockTypeOK, Slot
<1>4. ASSUME NEW l \in Lock, Unlock(t, l) PROVE LockInv' /\ [M!Next]_Inside
  BY <1>2, <1>4, UnlockKept
<1>5. ASSUME NEW i \in DOMAIN s, ManualUnlock(t, i) PROVE LockInv' /\ [M!Next]_Inside
  <2>1. i \in 1..Len(s)
    BY <1>3
  <2>2. /\ guards' = [guards EXCEPT ![t] = [s EXCEPT ![i] = NULL]]
        /\ manual' = manual /\ Disarm(s[i])
    BY <1>5 DEF ManualUnlock
  <2>3. PICK r \in Seq(Slot) : r = [s EXCEPT ![i] = NULL] /\ Disarm(s[i])
    BY <1>3, <2>1, <2>2, ExceptSeq DEF Slot
  <2>4. \A m \in Lock : At(r, m) = At(s, m) \ {i}
    BY <1>3, <2>1, <2>3, AtDisarm
  <2>5. PICK l \in Slot : l = s[i] /\ Disarm(l)
    BY <1>3, <2>1, <2>2, ElementOfSeq
  <2> QED BY <1>2, <2>1, <2>2, <2>3, <2>4, <2>5, DisarmKept
<1>6. CASE DestroyGuard(t)
  <2>1. /\ s # <<>> /\ manual' = manual /\ Disarm(s[Len(s)])
        /\ guards' = [guards EXCEPT ![t] = SubSeq(s, 1, Len(s) - 1)]
    BY <1>6 DEF DestroyGuard, LockInv, LockTypeOK
  <2>2. PICK r \in Seq(Slot), i \in 1..Len(s) : r = SubSeq(s, 1, Len(s) - 1) /\ i = Len(s)
    BY <1>3, <2>1, AtShorten
  <2>3. \A m \in Lock : At(r, m) = At(s, m) \ {i}
    BY <1>3, <2>1, <2>2, AtShorten
  <2>4. PICK l \in Slot : l = s[i] /\ Disarm(l)
    BY <1>3, <2>1, <2>2, ElementOfSeq
  <2> QED BY <1>2, <2>1, <2>2, <2>3, <2>4, DisarmKept
<1> QED BY <1>4, <1>5, <1>6 DEF Releases

-----------------------------------------------------------------------------
(* No lock is held at first. *)
LEMMA LocksInitially ==
  ASSUME LockInit
  PROVE  LockInv /\ M!Init
<1>1. /\ \A t \in Thread : guards[t] = <<>> /\ want[t] = NotBlocked
      /\ \A t \in Thread, l \in Lock : manual[t][l] = 0
      /\ \A l \in Lock : owner[l] = NULL /\ depth[l] = 0
  BY DEF LockInit
<1>2. \A t \in Thread, l \in Lock : Armed(t, l) = {}
  BY <1>1 DEF Armed
<1>3. GuardsAccounted
  <2> SUFFICES ASSUME NEW t \in Thread, NEW l \in Lock
               PROVE  manual[t][l] + Cardinality(Armed(t, l)) =
                        IF owner[l] = t THEN depth[l] ELSE 0
    BY DEF GuardsAccounted
  <2>1. Cardinality(Armed(t, l)) = 0 /\ manual[t][l] = 0 /\ owner[l] # t
    BY <1>1, <1>2, FS_EmptySet, SyncLockAssumption
  <2> QED BY <2>1
<1>4. LockTypeOK
  <2>1. NotBlocked \in [lock : Lock \union {NULL}, guard : BOOLEAN]
    BY DEF NotBlocked
  <2>2. want = [t \in Thread |-> NotBlocked]
    BY DEF LockInit
  <2>3. want \in [Thread -> [lock : Lock \union {NULL}, guard : BOOLEAN]]
    BY <2>1, <2>2
  <2>4. /\ owner \in [Lock -> Thread \union {NULL}] /\ depth \in [Lock -> Nat]
        /\ manual \in [Thread -> [Lock -> Nat]] /\ entries \in [Thread -> Nat]
    BY DEF LockInit
  <2>5. guards \in [Thread -> Seq(Lock \union {NULL})]
    BY DEF LockInit
  <2> QED BY <2>3, <2>4, <2>5 DEF LockTypeOK
<1>5. M!Init
  BY <1>1, <1>2 DEF M!Init, Inside
<1> QED BY <1>1, <1>3, <1>4, <1>5 DEF LockInv, WantsLock, FreeUnentered

(* Every step of a thread keeps what holds of the locks, and is a step of  *)
(* MutualExclusion or is not seen there.                                   *)
LEMMA LocksKept ==
  ASSUME LockInv, NEW t \in Thread, Takes(t) \/ Resume(t) \/ Releases(t)
  PROVE  LockInv' /\ [M!Next]_Inside
BY TakesKept, ResumeKept, ReleasesKept

LEMMA LocksUnseen ==
  ASSUME LockInv, UNCHANGED lockVars
  PROVE  LockInv' /\ UNCHANGED Inside
<1>1. UNCHANGED <<owner, depth, guards, manual, want, entries>>
  BY DEF lockVars
<1>2. \A k \in Thread, m \in Lock : Armed(k, m)' = Armed(k, m)
  BY <1>1 DEF Armed
<1> QED BY <1>1, <1>2 DEF LockInv, LockTypeOK, GuardsAccounted, WantsLock,
                          FreeUnentered, Inside
=============================================================================
