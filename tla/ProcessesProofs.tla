--------------------------- MODULE ProcessesProofs ---------------------------
(***************************************************************************)
(* Proofs about processes that create a directory tree together, for any   *)
(* number of processes, levels and paths, and with processes killed at any *)
(* step: CreateMultiDirectory that returns true has left every level it    *)
(* came to there, and under a valid mutex it fails only over the path      *)
(* itself.                                                                 *)
(***************************************************************************)
EXTENDS Processes, SequenceTheorems, TLAPS

(* Where CreateMultiDirectory runs between Lock and Unlock. *)
Inside == {"access", "mkdir", "created"}

GuardsValid == \A p \in Creator \ ByHand : mutexValid[p]

-----------------------------------------------------------------------------
(* The tree has no gaps: above a level there are only directories. *)
Shape == \A k \in 1..Depth : entry[k] # "none" =>
           \A j \in 1..(k - 1) : entry[j] = "dir"

(* A call that has come past a prefix has left it there. *)
CallInv(p) ==
  /\ pc[p] \in {"access", "mkdir"} => path[p] # <<>>
  /\ pc[p] \in {"access", "mkdir"} /\ i[p] > 1 => Exists(path[p][i[p] - 1])
  /\ ret[p] = "true" /\ path[p] # <<>> => Exists(Last(p))

LevelInv == TypeOK /\ Shape /\ \A p \in Creator : CallInv(p)

(* Nothing that is in the tree is removed or becomes anything else. *)
Grows == \A k \in 0..Depth : Exists(k) => k # 0 /\ entry'[k] = entry[k]

LEMMA PathElement ==
  ASSUME NEW s \in Paths, s # <<>>
  PROVE  /\ Len(s) \in Nat \ {0}
         /\ \A n \in 1..Len(s) : s[n] \in 0..Depth
         /\ s[Len(s)] # 0 => \A n \in 1..Len(s) : s[n] <= s[Len(s)]
<1>1. s \in Seq(0..Depth)
  BY ProcessesAssumption
<1>2. Len(s) \in Nat \ {0}
  BY <1>1, EmptySeq
<1>3. \A n \in 1..Len(s) : s[n] \in 0..Depth
  BY <1>1, ElementOfSeq
<1>4. ASSUME NEW n \in 1..Len(s), s[Len(s)] # 0 PROVE s[n] <= s[Len(s)]
  <2>1. Len(s) \in 1..Len(s)
    BY <1>2
  <2>2. CASE n = Len(s)
    BY <1>3, <2>1, <2>2
  <2>3. CASE n # Len(s)
    BY <1>2, <1>4, <2>1, <2>3, ProcessesAssumption
  <2> QED BY <2>2, <2>3
<1> QED BY <1>2, <1>3, <1>4

LEMMA InitLevel == ASSUME Init PROVE LevelInv
<1>1. PICK n \in 1..Depth, f \in Kinds :
        entry = [k \in 1..Depth |-> IF k < n THEN "dir"
                                    ELSE IF k = n THEN f ELSE "none"]
  BY DEF Init
<1>2. entry \in [1..Depth -> Kinds]
  BY <1>1 DEF Kinds
<1>3. Shape
  <2> SUFFICES ASSUME NEW k \in 1..Depth, entry[k] # "none",
                      NEW j \in 1..(k - 1)
               PROVE  entry[j] = "dir"
    BY DEF Shape
  <2>1. k <= n
    BY <1>1, ProcessesAssumption
  <2>2. j \in 1..Depth /\ j < n
    BY <2>1, ProcessesAssumption
  <2> QED BY <1>1, <2>2
<1>4. TypeOK
  <2>1. \A p \in Creator : path[p] = <<>> /\ i[p] = 0 /\ pc[p] = "idle"
    BY DEF Init
  <2> Len(<<>>) = 0
    OBVIOUS
  <2>2. \A p \in Creator : /\ i[p] <= Len(path[p])
                           /\ pc[p] \in {"access", "mkdir"} => i[p] > 0
    <3> TAKE p \in Creator
    <3>1. path[p] = <<>> /\ i[p] = 0 /\ pc[p] = "idle"
      BY <2>1
    <3>2. Len(path[p]) = 0
      BY <3>1
    <3> QED BY <3>1, <3>2
  <2>3. /\ owner = NULL /\ mutexValid \in [Creator -> BOOLEAN]
        /\ state \in [Process -> {"running", "ending", "gone"}]
        /\ restarts \in 0..MaxRestarts
    BY ProcessesAssumption DEF Init
  <2>4. /\ pc \in [Creator -> {"idle", "lock", "access", "mkdir", "created", "done"}]
        /\ ret \in [Creator -> {"none", "not locked", "true", "false"}]
        /\ path \in [Creator -> Paths \union {<<>>}]
        /\ i \in [Creator -> Nat]
    BY DEF Init
  <2>5. /\ kill \in [Killer -> {"idle", "opened", "terminated"}]
        /\ victim \in [Killer -> Process \union {NULL}]
    BY DEF Init
  <2> QED BY <1>2, <2>2, <2>3, <2>4, <2>5 DEF TypeOK
<1>5. \A p \in Creator : CallInv(p)
  BY DEF Init, CallInv
<1> QED BY <1>3, <1>4, <1>5 DEF LevelInv

-----------------------------------------------------------------------------
(* What the steps do to the variables of the call of p. *)
LEMMA SetTypes ==
  ASSUME TypeOK, NEW p \in Creator, NEW at, NEW returns, Set(p, at, returns),
         at \in {"idle", "lock", "access", "mkdir", "created", "done"},
         returns \in {"none", "not locked", "true", "false"}
  PROVE  /\ pc' \in [Creator -> {"idle", "lock", "access", "mkdir", "created", "done"}]
         /\ ret' \in [Creator -> {"none", "not locked", "true", "false"}]
         /\ pc'[p] = at /\ ret'[p] = returns
         /\ \A q \in Creator \ {p} : pc'[q] = pc[q] /\ ret'[q] = ret[q]
BY DEF TypeOK, Set

LEMMA BegunTypes ==
  ASSUME TypeOK, NEW p \in Creator, UNCHANGED path, Begun(p)
  PROVE  /\ pc' \in [Creator -> {"idle", "lock", "access", "mkdir", "created", "done"}]
         /\ ret' \in [Creator -> {"none", "not locked", "true", "false"}]
         /\ \/ /\ path[p] = <<>> /\ pc'[p] = "created" /\ ret'[p] = "true"
            \/ /\ path[p] # <<>> /\ pc'[p] = "access" /\ ret'[p] = "none"
               /\ i'[p] = 1
         /\ i' \in [Creator -> Nat] /\ i'[p] <= Len(path[p])
         /\ \A q \in Creator \ {p} :
              pc'[q] = pc[q] /\ ret'[q] = ret[q] /\ i'[q] = i[q]
<1>1. i \in [Creator -> Nat] /\ i[p] <= Len(path[p]) /\ path[p] \in Paths \union {<<>>}
  BY DEF TypeOK
<1>2. CASE path[p] = <<>>
  <2>1. Set(p, "created", "true") /\ i' = i
    BY <1>2 DEF Begun
  <2>2. /\ pc' \in [Creator -> {"idle", "lock", "access", "mkdir", "created", "done"}]
        /\ ret' \in [Creator -> {"none", "not locked", "true", "false"}]
        /\ pc'[p] = "created" /\ ret'[p] = "true"
        /\ \A q \in Creator \ {p} : pc'[q] = pc[q] /\ ret'[q] = ret[q]
    BY <2>1, SetTypes
  <2> QED BY <1>1, <1>2, <2>1, <2>2
<1>3. CASE path[p] # <<>>
  <2>1. i' = [i EXCEPT ![p] = 1] /\ Set(p, "access", "none")
    BY <1>3 DEF Begun
  <2>2. Len(path[p]) \in Nat \ {0}
    BY <1>1, <1>3, PathElement
  <2>3. i' \in [Creator -> Nat] /\ i'[p] = 1 /\ \A q \in Creator \ {p} : i'[q] = i[q]
    BY <1>1, <2>1
  <2>4. /\ pc' \in [Creator -> {"idle", "lock", "access", "mkdir", "created", "done"}]
        /\ ret' \in [Creator -> {"none", "not locked", "true", "false"}]
        /\ pc'[p] = "access" /\ ret'[p] = "none"
        /\ \A q \in Creator \ {p} : pc'[q] = pc[q] /\ ret'[q] = ret[q]
    BY <2>1, SetTypes
  <2>5. i'[p] <= Len(path[p])
    BY <2>2, <2>3
  <2> QED BY <1>3, <2>3, <2>4, <2>5
<1> QED BY <1>2, <1>3

LEMMA ContinueTypes ==
  ASSUME TypeOK, NEW p \in Creator, path[p] # <<>>, i[p] > 0, UNCHANGED path,
         Continue(p)
  PROVE  /\ pc' \in [Creator -> {"idle", "lock", "access", "mkdir", "created", "done"}]
         /\ ret' \in [Creator -> {"none", "not locked", "true", "false"}]
         /\ i' \in [Creator -> Nat] /\ i'[p] <= Len(path[p])
         /\ \/ /\ pc'[p] = "created" /\ ret'[p] = "true"
               /\ i[p] = Len(path[p]) /\ i'[p] = i[p]
            \/ /\ pc'[p] = "access" /\ ret'[p] = "none"
               /\ i[p] # Len(path[p]) /\ i'[p] = i[p] + 1
         /\ \A q \in Creator \ {p} :
              pc'[q] = pc[q] /\ ret'[q] = ret[q] /\ i'[q] = i[q]
<1>1. path[p] \in Paths /\ i[p] \in Nat /\ i[p] <= Len(path[p])
  BY DEF TypeOK
<1>2. Len(path[p]) \in Nat \ {0}
  BY <1>1, PathElement
<1>i. i \in [Creator -> Nat]
  BY DEF TypeOK
<1>3. CASE i[p] = Len(path[p])
  <2>1. Set(p, "created", "true") /\ i' = i
    BY <1>3 DEF Continue
  <2>2. /\ pc' \in [Creator -> {"idle", "lock", "access", "mkdir", "created", "done"}]
        /\ ret' \in [Creator -> {"none", "not locked", "true", "false"}]
        /\ pc'[p] = "created" /\ ret'[p] = "true"
        /\ \A q \in Creator \ {p} : pc'[q] = pc[q] /\ ret'[q] = ret[q]
    BY <2>1, SetTypes
  <2> QED BY <1>1, <1>i, <1>3, <2>1, <2>2
<1>4. CASE i[p] # Len(path[p])
  <2>1. Set(p, "access", "none") /\ i' = [i EXCEPT ![p] = @ + 1]
    BY <1>4 DEF Continue
  <2>2. /\ i' \in [Creator -> Nat] /\ i'[p] = i[p] + 1
        /\ \A q \in Creator \ {p} : i'[q] = i[q]
    BY <1>i, <2>1
  <2>3. i[p] + 1 <= Len(path[p])
    BY <1>1, <1>2, <1>4
  <2>4. /\ pc' \in [Creator -> {"idle", "lock", "access", "mkdir", "created", "done"}]
        /\ ret' \in [Creator -> {"none", "not locked", "true", "false"}]
        /\ pc'[p] = "access" /\ ret'[p] = "none"
        /\ \A q \in Creator \ {p} : pc'[q] = pc[q] /\ ret'[q] = ret[q]
    BY <2>1, SetTypes
  <2> QED BY <1>4, <2>2, <2>3, <2>4
<1> QED BY <1>3, <1>4

-----------------------------------------------------------------------------
LEMMA Unmoved ==
  ASSUME LevelInv, entry' = entry
  PROVE  Grows /\ Shape'
BY DEF LevelInv, Grows, Shape, Exists

(* A step of p leaves what the others have found as it is. *)
LEMMA OthersKept ==
  ASSUME LevelInv, NEW p \in Creator, TypeOK', Shape', Grows, CallInv(p)',
         \A q \in Creator \ {p} : /\ pc'[q] = pc[q] /\ path'[q] = path[q]
                                 /\ i'[q] = i[q] /\ ret'[q] = ret[q]
  PROVE  LevelInv'
<1>1. ASSUME NEW q \in Creator PROVE CallInv(q)'
  <2>1. CASE q = p
    BY <2>1
  <2>2. CASE q # p
    <3>0. /\ pc'[q] = pc[q] /\ path'[q] = path[q]
          /\ i'[q] = i[q] /\ ret'[q] = ret[q]
      BY <2>2
    <3>1. CallInv(q) /\ path[q] \in Paths \union {<<>>} /\ i[q] \in Nat /\ i[q] <= Len(path[q])
      BY DEF LevelInv, TypeOK
    <3>2. pc'[q] \in {"access", "mkdir"} => path'[q] # <<>>
      BY <3>0, <3>1 DEF CallInv
    <3>3. ASSUME pc'[q] \in {"access", "mkdir"}, i'[q] > 1
          PROVE  Exists(path[q][i[q] - 1])'
      <4>1. path[q] \in Paths /\ path[q] # <<>> /\ Exists(path[q][i[q] - 1])
        BY <3>0, <3>1, <3>3 DEF CallInv
      <4>2. Len(path[q]) \in Nat /\ i[q] - 1 \in 1..Len(path[q])
        BY <3>0, <3>1, <3>3, <4>1, PathElement
      <4>3. path[q][i[q] - 1] \in 0..Depth
        BY <4>1, <4>2, PathElement
      <4>4. path[q][i[q] - 1] # 0 /\ entry'[path[q][i[q] - 1]] = entry[path[q][i[q] - 1]]
        BY <4>1, <4>3 DEF Grows
      <4> QED BY <3>0, <4>1, <4>4 DEF Exists
    <3>4. ASSUME ret'[q] = "true", path'[q] # <<>>
          PROVE  Exists(Last(q))'
      <4>1. path[q] \in Paths /\ path[q] # <<>> /\ Exists(Last(q))
        BY <3>0, <3>1, <3>4 DEF CallInv
      <4>2. Len(path[q]) \in 1..Len(path[q])
        BY <4>1, PathElement
      <4>3. Last(q) \in 0..Depth
        BY <4>1, <4>2, PathElement DEF Last
      <4>4. Last(q) # 0 /\ entry'[Last(q)] = entry[Last(q)]
        BY <4>1, <4>3 DEF Grows
      <4>5. Last(q)' = Last(q)
        BY <3>0 DEF Last
      <4> QED BY <3>0, <3>1, <3>4, <4>1, <4>4, <4>5 DEF Exists, CallInv
    <3> QED BY <3>0, <3>2, <3>3, <3>4 DEF CallInv
  <2> QED BY <2>1, <2>2
<1> QED BY <1>1 DEF LevelInv

LEMMA CallLevel ==
  ASSUME LevelInv, NEW p \in Creator, NEW s \in Paths, Call(p, s)
  PROVE  LevelInv'
<1>0. UNCHANGED <<entry, owner, mutexValid, state, restarts, i, kill, victim>>
  BY DEF Call, system, killVars
<1>1. Set(p, "lock", "none") /\ path' = [path EXCEPT ![p] = s]
  BY DEF Call, Set
<1>2. TypeOK
  BY DEF LevelInv
<1>3. /\ path \in [Creator -> Paths \union {<<>>}] /\ i \in [Creator -> Nat]
      /\ \A q \in Creator : /\ i[q] <= Len(path[q])
                            /\ pc[q] \in {"access", "mkdir"} => i[q] > 0
  BY <1>2 DEF TypeOK
<1>4. /\ path' \in [Creator -> Paths \union {<<>>}] /\ path'[p] = s
      /\ \A q \in Creator \ {p} : path'[q] = path[q]
  BY <1>1, <1>3
<1>5. /\ pc' \in [Creator -> {"idle", "lock", "access", "mkdir", "created", "done"}]
      /\ ret' \in [Creator -> {"none", "not locked", "true", "false"}]
      /\ pc'[p] = "lock" /\ ret'[p] = "none"
      /\ \A q \in Creator \ {p} : pc'[q] = pc[q] /\ ret'[q] = ret[q]
  BY <1>1, <1>2, SetTypes
<1>6. i[p] <= Len(s)
  <2>1. CASE path[p] = <<>>
    <3>1. i[p] <= 0 /\ i[p] \in Nat
      BY <1>3, <2>1
    <3>2. Len(s) \in Nat
      BY ProcessesAssumption, LenProperties
    <3> QED BY <3>1, <3>2
  <2>2. CASE path[p] = s
    BY <1>3, <2>2
  <2> QED BY <2>1, <2>2 DEF Call
<1>7. \A q \in Creator : /\ i[q] <= Len(path'[q])
                         /\ pc'[q] \in {"access", "mkdir"} => i[q] > 0
  <2> TAKE q \in Creator
  <2>1. CASE q = p
    BY <1>4, <1>5, <1>6, <2>1
  <2>2. CASE q # p
    BY <1>3, <1>4, <1>5, <2>2
  <2> QED BY <2>1, <2>2
<1>8. TypeOK'
  BY <1>0, <1>2, <1>4, <1>5, <1>7 DEF TypeOK
<1>9. CallInv(p)'
  BY <1>4, <1>5, PathElement DEF CallInv
<1> QED BY <1>0, <1>4, <1>5, <1>8, <1>9, Unmoved, OthersKept

(* The type of a state in which p alone has moved on in its call. *)
LEMMA MovedTypes ==
  ASSUME TypeOK, NEW p \in Creator, UNCHANGED <<path, mutexValid, state, restarts,
                                               kill, victim>>,
         entry' \in [1..Depth -> Kinds], owner' \in Creator \union {NULL},
         pc' \in [Creator -> {"idle", "lock", "access", "mkdir", "created", "done"}],
         ret' \in [Creator -> {"none", "not locked", "true", "false"}],
         i' \in [Creator -> Nat], i'[p] <= Len(path[p]),
         pc'[p] \in {"access", "mkdir"} => i'[p] > 0,
         \A q \in Creator \ {p} : pc'[q] = pc[q] /\ i'[q] = i[q]
  PROVE  TypeOK'
<1>1. \A q \in Creator : /\ i[q] <= Len(path[q])
                         /\ pc[q] \in {"access", "mkdir"} => i[q] > 0
  BY DEF TypeOK
<1>2. \A q \in Creator : /\ i'[q] <= Len(path'[q])
                         /\ pc'[q] \in {"access", "mkdir"} => i'[q] > 0
  <2> TAKE q \in Creator
  <2>1. CASE q = p
    BY <2>1
  <2>2. CASE q # p
    BY <1>1, <2>2
  <2> QED BY <2>1, <2>2
<1> QED BY <1>2 DEF TypeOK

LEMMA BegunLevel ==
  ASSUME LevelInv, NEW p \in Creator, pc[p] = "lock", Begun(p),
         UNCHANGED <<entry, system, path, killVars>>,
         owner' \in Creator \union {NULL}
  PROVE  LevelInv'
<1>0. UNCHANGED <<entry, path, mutexValid, state, restarts, kill, victim>>
  BY DEF system, killVars
<1>1. TypeOK /\ CallInv(p)
  BY DEF LevelInv
<1>3. /\ pc' \in [Creator -> {"idle", "lock", "access", "mkdir", "created", "done"}]
      /\ ret' \in [Creator -> {"none", "not locked", "true", "false"}]
      /\ \/ /\ path[p] = <<>> /\ pc'[p] = "created" /\ ret'[p] = "true"
         \/ /\ path[p] # <<>> /\ pc'[p] = "access" /\ ret'[p] = "none"
            /\ i'[p] = 1
      /\ i' \in [Creator -> Nat] /\ i'[p] <= Len(path[p])
      /\ \A q \in Creator \ {p} :
           pc'[q] = pc[q] /\ ret'[q] = ret[q] /\ i'[q] = i[q]
  BY <1>0, <1>1, BegunTypes
<1>4. entry' \in [1..Depth -> Kinds]
  BY <1>0, <1>1 DEF TypeOK
<1>i. pc'[p] \in {"access", "mkdir"} => i'[p] > 0 /\ ~(i'[p] > 1) /\ path'[p] # <<>>
  <2> SUFFICES ASSUME pc'[p] \in {"access", "mkdir"}
               PROVE  i'[p] > 0 /\ ~(i'[p] > 1) /\ path'[p] # <<>>
    OBVIOUS
  <2>1. i'[p] = 1 /\ path[p] # <<>>
    BY <1>3
  <2> QED BY <1>0, <2>1
<1>5. TypeOK'
  BY <1>0, <1>1, <1>3, <1>4, <1>i, MovedTypes
<1>6. CallInv(p)'
  <2>1. ret'[p] = "true" => path'[p] = <<>>
    BY <1>0, <1>3
  <2> QED BY <1>i, <2>1 DEF CallInv
<1> QED BY <1>0, <1>3, <1>5, <1>6, Unmoved, OthersKept

(* A step that only takes the call of p to another place. *)
LEMMA SetLevel ==
  ASSUME LevelInv, NEW p \in Creator, NEW at, NEW returns, Set(p, at, returns),
         at \in {"idle", "lock", "mkdir", "created", "done"},
         at = "mkdir" => pc[p] = "access",
         returns = ret[p] \/ returns \in {"none", "not locked", "false"},
         UNCHANGED <<entry, system, path, i, killVars>>,
         owner' \in Creator \union {NULL}
  PROVE  LevelInv'
<1>0. UNCHANGED <<entry, path, i, mutexValid, state, restarts, kill, victim>>
  BY DEF system, killVars
<1>1. TypeOK /\ CallInv(p)
  BY DEF LevelInv
<1>2. /\ i \in [Creator -> Nat] /\ i[p] <= Len(path[p])
      /\ pc[p] \in {"access", "mkdir"} => i[p] > 0
      /\ entry \in [1..Depth -> Kinds]
      /\ ret[p] \in {"none", "not locked", "true", "false"}
  BY <1>1 DEF TypeOK
<1>3. /\ pc' \in [Creator -> {"idle", "lock", "access", "mkdir", "created", "done"}]
      /\ ret' \in [Creator -> {"none", "not locked", "true", "false"}]
      /\ pc'[p] = at /\ ret'[p] = returns
      /\ \A q \in Creator \ {p} : pc'[q] = pc[q] /\ ret'[q] = ret[q]
  BY <1>1, <1>2, SetTypes
<1>4. TypeOK'
  BY <1>0, <1>1, <1>2, <1>3, MovedTypes
<1>5. Last(p)' = Last(p)
  BY <1>0 DEF Last
<1>6. CallInv(p)'
  BY <1>0, <1>1, <1>3, <1>5 DEF CallInv, Exists
<1> QED BY <1>0, <1>3, <1>4, <1>6, Unmoved, OthersKept

(* A prefix has been found or made: it is passed. *)
LEMMA ContinueLevel ==
  ASSUME LevelInv, NEW p \in Creator, pc[p] \in {"access", "mkdir"}, Continue(p),
         UNCHANGED <<owner, system, path, killVars>>,
         entry' \in [1..Depth -> Kinds], Shape', Grows,
         path[p][i[p]] # 0, entry'[path[p][i[p]]] # "none"
  PROVE  LevelInv'
<1>0. UNCHANGED <<owner, path, mutexValid, state, restarts, kill, victim>>
  BY DEF system, killVars
<1>1. TypeOK /\ CallInv(p)
  BY DEF LevelInv
<1>2. path[p] # <<>> /\ i[p] > 0 /\ path[p] \in Paths
  BY <1>1 DEF CallInv, TypeOK
<1>3. /\ pc' \in [Creator -> {"idle", "lock", "access", "mkdir", "created", "done"}]
      /\ ret' \in [Creator -> {"none", "not locked", "true", "false"}]
      /\ i' \in [Creator -> Nat] /\ i'[p] <= Len(path[p])
      /\ \/ /\ pc'[p] = "created" /\ ret'[p] = "true"
            /\ i[p] = Len(path[p]) /\ i'[p] = i[p]
         \/ /\ pc'[p] = "access" /\ ret'[p] = "none"
            /\ i[p] # Len(path[p]) /\ i'[p] = i[p] + 1
      /\ \A q \in Creator \ {p} :
           pc'[q] = pc[q] /\ ret'[q] = ret[q] /\ i'[q] = i[q]
  BY <1>0, <1>1, <1>2, ContinueTypes
<1>4. i[p] \in Nat /\ owner \in Creator \union {NULL}
  BY <1>1 DEF TypeOK
<1>5. TypeOK'
  <2>1. i'[p] = i[p] \/ i'[p] = i[p] + 1
    BY <1>3
  <2>2. i'[p] > 0
    BY <1>2, <1>4, <2>1
  <2> QED BY <1>0, <1>1, <1>3, <1>4, <2>2, MovedTypes
<1>6. CallInv(p)'
  <2>1. CASE pc'[p] = "created"
    <3>1. i'[p] = Len(path'[p]) /\ i'[p] = i[p]
      BY <1>0, <1>3, <2>1
    <3>2. Exists(Last(p))'
      BY <1>0, <3>1 DEF Last, Exists
    <3> QED BY <1>0, <1>2, <2>1, <3>2 DEF CallInv
  <2>2. CASE pc'[p] = "access"
    <3>0. i'[p] = i[p] + 1 /\ ret'[p] = "none"
      BY <1>3, <2>2
    <3>1. i'[p] - 1 = i[p]
      BY <1>4, <3>0
    <3>2. Exists(path[p][i[p] - 1])'
      BY <1>0, <3>1 DEF Exists
    <3> QED BY <1>0, <1>2, <2>2, <3>0, <3>2 DEF CallInv
  <2> QED BY <1>3, <2>1, <2>2
<1> QED BY <1>0, <1>3, <1>5, <1>6, OthersKept

LEMMA AccessLevel ==
  ASSUME LevelInv, NEW p \in Creator, Access(p)
  PROVE  LevelInv'
<1>0. /\ UNCHANGED <<entry, owner, system, path, killVars>>
      /\ pc[p] = "access" /\ entry' = entry
  BY DEF Access
<1>1. entry \in [1..Depth -> Kinds] /\ owner \in Creator \union {NULL}
  BY DEF LevelInv, TypeOK
<1>2. CASE Exists(path[p][i[p]])
  <2>1. Continue(p)
    BY <1>2 DEF Access
  <2>2. path[p][i[p]] # 0 /\ entry'[path[p][i[p]]] # "none"
    BY <1>0, <1>2 DEF Exists
  <2> QED BY <1>0, <1>1, <2>1, <2>2, Unmoved, ContinueLevel
<1>3. CASE ~Exists(path[p][i[p]])
  <2>1. Set(p, "mkdir", "none") /\ UNCHANGED i
    BY <1>3 DEF Access
  <2> QED BY <1>0, <1>1, <2>1, SetLevel
<1> QED BY <1>2, <1>3

(* The prefix that a running call looks at. *)
LEMMA PrefixLevel ==
  ASSUME LevelInv, NEW p \in Creator, pc[p] \in {"access", "mkdir"}
  PROVE  /\ path[p] \in Paths \ {<<>>} /\ i[p] \in 1..Len(path[p])
         /\ path[p][i[p]] \in 0..Depth
<1>1. CallInv(p) /\ TypeOK
  BY DEF LevelInv
<1>2. /\ path[p] \in Paths /\ path[p] # <<>>
      /\ i[p] \in Nat /\ i[p] <= Len(path[p]) /\ i[p] > 0
  BY <1>1 DEF CallInv, TypeOK
<1>3. i[p] \in 1..Len(path[p])
  BY <1>2, PathElement
<1> QED BY <1>2, <1>3, PathElement

(* A directory is made where there is one above it. *)
LEMMA MadeLevel ==
  ASSUME LevelInv, NEW k \in 0..Depth, CanMake(k),
         entry' = [entry EXCEPT ![k] = "dir"]
  PROVE  /\ entry' \in [1..Depth -> Kinds] /\ Shape' /\ Grows
         /\ k # 0 /\ entry'[k] = "dir"
<1>1. k \in 1..Depth /\ entry[k] = "none"
  BY ProcessesAssumption DEF CanMake
<1>2. entry \in [1..Depth -> Kinds]
  BY DEF LevelInv, TypeOK
<1>3. /\ entry' \in [1..Depth -> Kinds] /\ entry'[k] = "dir"
      /\ \A j \in 1..Depth : j # k => entry'[j] = entry[j]
  BY <1>1, <1>2 DEF Kinds
<1>4. Shape'
  <2> SUFFICES ASSUME NEW n \in 1..Depth, entry'[n] # "none",
                      NEW j \in 1..(n - 1)
               PROVE  entry'[j] = "dir"
    BY DEF Shape
  <2>1. j \in 1..Depth /\ j < n
    BY ProcessesAssumption
  <2>2. CASE j = k
    BY <1>3, <2>2
  <2>3. CASE n # k /\ j # k
    <3>1. entry[n] # "none"
      BY <1>3, <2>3
    <3>2. entry[j] = "dir"
      BY <3>1 DEF LevelInv, Shape
    <3> QED BY <1>3, <2>1, <2>3, <3>2
  <2>4. CASE n = k /\ j # k
    <3>1. entry[k - 1] = "dir" /\ k - 1 \in 1..Depth
      BY <1>1, <2>1, <2>4, ProcessesAssumption DEF CanMake
    <3>2. entry[j] = "dir"
      <4>1. CASE j = k - 1
        BY <3>1, <4>1
      <4>2. CASE j # k - 1
        <5>1. j \in 1..((k - 1) - 1)
          BY <1>1, <2>1, <2>4, <4>2
        <5> QED BY <3>1, <5>1 DEF LevelInv, Shape
      <4> QED BY <4>1, <4>2
    <3> QED BY <1>3, <2>1, <2>4, <3>2
  <2> QED BY <2>2, <2>3, <2>4
<1>5. Grows
  <2> SUFFICES ASSUME NEW n \in 0..Depth, Exists(n)
               PROVE  n # 0 /\ entry'[n] = entry[n]
    BY DEF Grows
  <2>1. n \in 1..Depth /\ n # k
    BY <1>1, ProcessesAssumption DEF Exists
  <2> QED BY <1>3, <2>1
<1> QED BY <1>1, <1>3, <1>4, <1>5

LEMMA MkdirLevel ==
  ASSUME LevelInv, NEW p \in Creator, Mkdir(p)
  PROVE  LevelInv'
<1> DEFINE k == path[p][i[p]]
<1>0. UNCHANGED <<owner, system, path, killVars>> /\ pc[p] = "mkdir"
  BY DEF Mkdir
<1>1. owner \in Creator \union {NULL} /\ k \in 0..Depth
  BY <1>0, PrefixLevel DEF LevelInv, TypeOK
<1>2. CASE CanMake(k)
  <2>1. Continue(p) /\ entry' = [entry EXCEPT ![k] = "dir"]
    BY <1>2 DEF Mkdir
  <2>2. /\ entry' \in [1..Depth -> Kinds] /\ Shape' /\ Grows
        /\ k # 0 /\ entry'[k] = "dir"
    BY <1>1, <1>2, <2>1, MadeLevel
  <2> QED BY <1>0, <2>1, <2>2, ContinueLevel
<1>3. CASE ~CanMake(k)
  <2>1. Set(p, "created", "false") /\ UNCHANGED <<i, entry>>
    BY <1>3 DEF Mkdir
  <2> QED BY <1>0, <1>1, <2>1, SetLevel
<1> QED BY <1>2, <1>3

LEMMA LockStepsLevel ==
  ASSUME LevelInv, NEW p \in Creator,
         Lock(p) \/ LockInvalid(p) \/ LockTimesOut(p) \/ Unlock(p)
  PROVE  LevelInv'
<1>0. owner \in Creator \union {NULL}
  BY DEF LevelInv, TypeOK
<1>1. CASE Lock(p)
  BY <1>1, BegunLevel DEF Lock
<1>2. CASE LockInvalid(p)
  <2>0. UNCHANGED <<entry, owner, system, path, killVars>> /\ pc[p] = "lock"
    BY <1>2 DEF LockInvalid
  <2>1. CASE p \in ByHand
    <3>1. Set(p, "idle", "not locked") /\ UNCHANGED i
      BY <1>2, <2>1 DEF LockInvalid
    <3> QED BY <1>0, <2>0, <3>1, SetLevel
  <2>2. CASE p \notin ByHand
    <3>1. Begun(p)
      BY <1>2, <2>2 DEF LockInvalid
    <3> QED BY <1>0, <2>0, <3>1, BegunLevel
  <2> QED BY <2>1, <2>2
<1>3. CASE LockTimesOut(p)
  BY <1>0, <1>3, SetLevel DEF LockTimesOut
<1>4. CASE Unlock(p)
  <2>1. /\ pc' = [pc EXCEPT ![p] = IF ret[p] = "true" THEN "done" ELSE "idle"]
        /\ UNCHANGED <<entry, system, path, i, ret, killVars>>
        /\ owner' \in Creator \union {NULL} /\ pc[p] = "created"
    BY <1>0, <1>4 DEF Unlock
  <2>2. ret' = [ret EXCEPT ![p] = ret[p]]
    BY <2>1 DEF LevelInv, TypeOK
  <2>3. Set(p, IF ret[p] = "true" THEN "done" ELSE "idle", ret[p])
    BY <2>1, <2>2 DEF Set
  <2> QED BY <2>1, <2>3, SetLevel
<1> QED BY <1>1, <1>2, <1>3, <1>4

LEMMA GoneLevel ==
  ASSUME LevelInv, NEW p \in Creator, Gone(p)
  PROVE  LevelInv'
<1>0. TypeOK /\ UNCHANGED <<entry, mutexValid, restarts, kill, victim>>
  BY DEF Gone, LevelInv, killVars
<1>1. /\ path \in [Creator -> Paths \union {<<>>}] /\ i \in [Creator -> Nat]
      /\ \A q \in Creator : /\ i[q] <= Len(path[q])
                            /\ pc[q] \in {"access", "mkdir"} => i[q] > 0
  BY <1>0 DEF TypeOK
<1>2. Set(p, "idle", "none")
  BY DEF Gone, Set
<1>3. /\ pc' \in [Creator -> {"idle", "lock", "access", "mkdir", "created", "done"}]
      /\ ret' \in [Creator -> {"none", "not locked", "true", "false"}]
      /\ pc'[p] = "idle" /\ ret'[p] = "none"
      /\ \A q \in Creator \ {p} : pc'[q] = pc[q] /\ ret'[q] = ret[q]
  BY <1>0, <1>2, SetTypes
<1>4. /\ path' \in [Creator -> Paths \union {<<>>}] /\ path'[p] = <<>>
      /\ i' \in [Creator -> Nat] /\ i'[p] = 0
      /\ \A q \in Creator \ {p} : path'[q] = path[q] /\ i'[q] = i[q]
  BY <1>1 DEF Gone
<1>5. Len(path'[p]) = 0
  BY <1>4
<1>6. \A q \in Creator : /\ i'[q] <= Len(path'[q])
                         /\ pc'[q] \in {"access", "mkdir"} => i'[q] > 0
  <2> TAKE q \in Creator
  <2>1. CASE q = p
    <3>1. i'[p] <= Len(path'[p])
      BY <1>4, <1>5
    <3>2. pc'[p] \notin {"access", "mkdir"}
      BY <1>3
    <3> QED BY <2>1, <3>1, <3>2
  <2>2. CASE q # p
    BY <1>1, <1>3, <1>4, <2>2
  <2> QED BY <2>1, <2>2
<1>7. /\ state' \in [Process -> {"running", "ending", "gone"}]
      /\ owner' \in Creator \union {NULL}
  BY <1>0 DEF Gone, TypeOK
<1>8. TypeOK'
  BY <1>0, <1>3, <1>4, <1>6, <1>7 DEF TypeOK
<1>9. CallInv(p)'
  BY <1>3 DEF CallInv
<1> QED BY <1>0, <1>3, <1>4, <1>8, <1>9, Unmoved, OthersKept

(* The creators' calls do not see the other steps. *)
LEMMA UnseenLevel ==
  ASSUME LevelInv, TypeOK', UNCHANGED <<entry, createVars>>
  PROVE  LevelInv'
<1>1. UNCHANGED <<entry, pc, path, i, ret>>
  BY DEF createVars
<1>2. ASSUME NEW p \in Creator PROVE CallInv(p)'
  BY <1>1 DEF LevelInv, CallInv, Exists, Last
<1> QED BY <1>1, <1>2, Unmoved DEF LevelInv

LEMMA RestartLevel ==
  ASSUME LevelInv, NEW p \in Creator, Restart(p)
  PROVE  LevelInv'
<1>1. /\ UNCHANGED <<entry, owner, mutexValid, createVars, killVars>> /\ TypeOK
      /\ UNCHANGED <<entry, owner, mutexValid, pc, path, i, ret, kill, victim>>
  BY DEF Restart, LevelInv, createVars, killVars
<1>2. state' \in [Process -> {"running", "ending", "gone"}]
  BY <1>1 DEF TypeOK, Restart
<1>3. restarts' \in 0..MaxRestarts
  <2>1. restarts \in 0..MaxRestarts
    BY <1>1 DEF TypeOK
  <2>2. restarts < MaxRestarts /\ restarts' = restarts + 1
    BY DEF Restart
  <2> QED BY <2>1, <2>2, ProcessesAssumption
<1>4. TypeOK'
  BY <1>1, <1>2, <1>3 DEF TypeOK
<1> QED BY <1>1, <1>4, UnseenLevel

LEMMA KillLevel ==
  ASSUME LevelInv, NEW p \in Killer, KillStep(p)
  PROVE  LevelInv'
<1>0. /\ UNCHANGED <<entry, owner, mutexValid, restarts, createVars>> /\ TypeOK
      /\ UNCHANGED <<entry, owner, mutexValid, restarts, pc, path, i, ret>>
  BY DEF KillStep, Open, Terminate, TerminateAgain, LevelInv, createVars, system
<1>1. /\ kill \in [Killer -> {"idle", "opened", "terminated"}]
      /\ victim \in [Killer -> Process \union {NULL}]
      /\ state \in [Process -> {"running", "ending", "gone"}]
  BY <1>0 DEF TypeOK
<1>2. kill' \in [Killer -> {"idle", "opened", "terminated"}]
  BY <1>1 DEF KillStep, Open, Terminate, TerminateAgain
<1>3. victim' \in [Killer -> Process \union {NULL}]
  BY <1>1 DEF KillStep, Open, Terminate, TerminateAgain
<1>4. state' \in [Process -> {"running", "ending", "gone"}]
  BY <1>1 DEF KillStep, Open, Terminate, TerminateAgain, system
<1>5. TypeOK'
  BY <1>0, <1>2, <1>3, <1>4 DEF TypeOK
<1> QED BY <1>0, <1>5, UnseenLevel

LEMMA NextLevel ==
  ASSUME LevelInv, [Next]_vars
  PROVE  LevelInv'
<1>1. ASSUME NEW p \in Creator, CreateStep(p) PROVE LevelInv'
  BY <1>1, CallLevel, LockStepsLevel, AccessLevel, MkdirLevel DEF CreateStep
<1>2. CASE UNCHANGED vars
  BY <1>2, UnseenLevel DEF vars, system, createVars, killVars, LevelInv, TypeOK
<1> QED BY <1>1, <1>2, GoneLevel, RestartLevel, KillLevel DEF Next

(* Every variable keeps its type (PathUtils.cpp:302-332, SyncLock.hpp:       *)
(* 46-90, ProcessUtils.cpp): a call stays within its path whatever happens. *)
THEOREM TypeCorrect == Spec => []TypeOK
<1>1. Init => LevelInv
  BY InitLevel
<1>2. LevelInv /\ [Next]_vars => LevelInv'
  BY NextLevel
<1>3. LevelInv => TypeOK
  BY DEF LevelInv
<1> QED BY <1>1, <1>2, <1>3, PTL DEF Spec

(* CreateMultiDirectory that has returned true (PathUtils.cpp:309-330) has *)
(* left something at the level of the last prefix it came to and a         *)
(* directory at every level above, with any number of processes at work    *)
(* and killed at any step.  That prefix is the whole path unless the path  *)
(* is longer than MAX_PATH (312-315).                                      *)
THEOREM TrueMeans == Spec => []TrueMeansLevels
<1>1. Init => LevelInv
  BY InitLevel
<1>2. LevelInv /\ [Next]_vars => LevelInv'
  BY NextLevel
<1>3. LevelInv => TrueMeansLevels
  <2> SUFFICES ASSUME LevelInv, NEW p \in Creator, ret[p] = "true",
                      path[p] # <<>>
               PROVE  /\ Exists(Last(p))
                      /\ \A k \in 1..(Last(p) - 1) : entry[k] = "dir"
    BY DEF TrueMeansLevels
  <2>1. path[p] \in Paths /\ Exists(Last(p))
    BY DEF LevelInv, CallInv, TypeOK
  <2>2. Len(path[p]) \in 1..Len(path[p])
    BY <2>1, PathElement
  <2>3. Last(p) \in 1..Depth
    BY <2>1, <2>2, PathElement, ProcessesAssumption DEF Last, Exists
  <2> QED BY <2>1, <2>3 DEF LevelInv, Shape, Exists
<1> QED BY <1>1, <1>2, <1>3, PTL DEF Spec

-----------------------------------------------------------------------------
(* Under valid guards: the call that runs owns the mutex, so nobody else   *)
(* has made the prefix that it has not found.                              *)
CallGuarded(p) ==
  /\ pc[p] \in Inside => owner = p /\ mutexValid[p]
  /\ pc[p] = "mkdir" => ~Exists(path[p][i[p]])
  /\ ret[p] = "false" => ~Creatable(p) \/ FileInTheWay(p)

GuardInv == LevelInv /\ (GuardsValid => \A p \in Creator : CallGuarded(p))

(* What p leaves alone for the others while it does a step. *)
OnlyOf(p) ==
  /\ \A q \in Creator \ {p} : /\ pc'[q] = pc[q] /\ path'[q] = path[q]
                              /\ i'[q] = i[q] /\ ret'[q] = ret[q]
  /\ owner' # owner => owner \in {p, NULL}
  /\ entry' # entry => pc[p] = "mkdir"
  /\ Grows

(* Every step of a call, and the end of its process, is of one creator.    *)
LEMMA StepOnlyOf ==
  ASSUME LevelInv, NEW p \in Creator, CreateStep(p) \/ Gone(p)
  PROVE  OnlyOf(p) /\ mutexValid' = mutexValid
<1>0. /\ path \in [Creator -> Paths \union {<<>>}] /\ i \in [Creator -> Nat]
      /\ pc \in [Creator -> {"idle", "lock", "access", "mkdir", "created", "done"}]
      /\ ret \in [Creator -> {"none", "not locked", "true", "false"}]
  BY DEF LevelInv, TypeOK
<1>1. mutexValid' = mutexValid
  BY DEF CreateStep, Call, Lock, LockInvalid, LockTimesOut, Access, Mkdir, Unlock,
         Gone, system
<1>2. ASSUME NEW q \in Creator \ {p} PROVE pc'[q] = pc[q] /\ ret'[q] = ret[q]
  BY <1>0 DEF CreateStep, Call, Lock, LockInvalid, LockTimesOut, Access, Mkdir,
              Unlock, Gone, Continue, Begun, Set
<1>3. ASSUME NEW q \in Creator \ {p} PROVE path'[q] = path[q] /\ i'[q] = i[q]
  BY <1>0 DEF CreateStep, Call, Lock, LockInvalid, LockTimesOut, Access, Mkdir,
              Unlock, Gone, Continue, Begun
<1>4. owner' # owner => owner \in {p, NULL}
  BY DEF CreateStep, Call, Lock, LockInvalid, LockTimesOut, Access, Mkdir, Unlock,
         Gone
<1>5. CASE ~Mkdir(p)
  <2>1. entry' = entry
    BY <1>5 DEF CreateStep, Call, Lock, LockInvalid, LockTimesOut, Access, Unlock,
                Gone
  <2> QED BY <1>1, <1>2, <1>3, <1>4, <2>1, Unmoved DEF OnlyOf
<1>6. CASE Mkdir(p)
  <2> DEFINE k == path[p][i[p]]
  <2>1. pc[p] = "mkdir" /\ k \in 0..Depth
    BY <1>6, PrefixLevel DEF Mkdir
  <2>2. Grows
    <3>1. CASE CanMake(k)
      <4>1. entry' = [entry EXCEPT ![k] = "dir"]
        BY <1>6, <3>1 DEF Mkdir
      <4> QED BY <2>1, <3>1, <4>1, MadeLevel
    <3>2. CASE ~CanMake(k)
      <4>1. entry' = entry
        BY <1>6, <3>2 DEF Mkdir
      <4> QED BY <4>1, Unmoved
    <3> QED BY <3>1, <3>2
  <2> QED BY <1>1, <1>2, <1>3, <1>4, <2>1, <2>2 DEF OnlyOf
<1> QED BY <1>5, <1>6

(* A file in the way of a call stays there. *)
LEMMA FileStays ==
  ASSUME LevelInv, NEW p \in Creator, Grows, path'[p] = path[p], path[p] # <<>>,
         FileInTheWay(p)
  PROVE  FileInTheWay(p)'
<1>1. path[p] \in Paths
  BY DEF LevelInv, TypeOK
<1>2. Len(path[p]) \in 1..Len(path[p])
  BY <1>1, PathElement
<1>3. Last(p) \in 0..Depth /\ Last(p)' = Last(p)
  BY <1>1, <1>2, PathElement DEF Last
<1>4. PICK k \in 1..(Last(p) - 1) : entry[k] = "file"
  BY DEF FileInTheWay
<1>5. k \in 0..Depth /\ k # 0
  BY <1>3, ProcessesAssumption
<1>6. entry'[k] = "file"
  BY <1>4, <1>5 DEF Grows, Exists
<1> QED BY <1>3, <1>6 DEF FileInTheWay

(* A step of p keeps what holds of the calls of the others. *)
LEMMA OthersGuarded ==
  ASSUME GuardInv, GuardsValid, NEW p \in Creator, OnlyOf(p),
         mutexValid' = mutexValid, NEW q \in Creator \ {p}
  PROVE  CallGuarded(q)'
<1>1. LevelInv /\ CallGuarded(p) /\ CallGuarded(q)
  BY DEF GuardInv
<1>2. pc'[q] = pc[q] /\ path'[q] = path[q] /\ i'[q] = i[q] /\ ret'[q] = ret[q]
  BY DEF OnlyOf
<1>3. q # NULL
  BY ProcessesAssumption DEF Process
<1>4. pc[q] \in Inside => owner' = q /\ mutexValid'[q] /\ owner = q
  BY <1>1, <1>3 DEF CallGuarded, OnlyOf
<1>5. pc[q] = "mkdir" => entry' = entry
  BY <1>1, <1>4 DEF OnlyOf, CallGuarded, Inside
<1>6. ret[q] = "false" => ~Creatable(q)' \/ FileInTheWay(q)'
  <2>1. Creatable(q)' <=> Creatable(q)
    BY <1>2 DEF Creatable
  <2>2. Creatable(q) => path[q] # <<>>
    BY DEF Creatable
  <2>3. Grows
    BY DEF OnlyOf
  <2> QED BY <1>1, <1>2, <2>1, <2>2, <2>3, FileStays DEF CallGuarded
<1> QED BY <1>1, <1>2, <1>4, <1>5, <1>6 DEF CallGuarded, Exists

(* When _mkdir fails although nobody else has made the prefix, the path    *)
(* has a prefix that cannot be made or a file is in the way.               *)
LEMMA MkdirFails ==
  ASSUME LevelInv, NEW p \in Creator, pc[p] = "mkdir",
         ~Exists(path[p][i[p]]), ~CanMake(path[p][i[p]])
  PROVE  ~Creatable(p) \/ FileInTheWay(p)
<1> DEFINE s == path[p]
           n == i[p]
           k == s[n]
<1> SUFFICES ASSUME Creatable(p) PROVE FileInTheWay(p)
  OBVIOUS
<1>1. s \in Paths \ {<<>>} /\ n \in 1..Len(s) /\ k \in 0..Depth /\ CallInv(p)
  BY PrefixLevel DEF LevelInv
<1>c. k # 0 /\ s[Len(s)] # 0
  <2>1. Len(s) \in 1..Len(s)
    BY <1>1, PathElement
  <2> QED BY <1>1, <2>1 DEF Creatable
<1>2. /\ Len(s) \in Nat /\ k <= s[Len(s)] /\ s[1] <= 1
      /\ \A m \in 1..Len(s) : s[m] \in 0..Depth
  BY <1>1, <1>c, PathElement, ProcessesAssumption
<1>3. CASE n = 1
  <2>1. k = 1
    BY <1>1, <1>2, <1>3, <1>c, ProcessesAssumption
  <2>2. k = 0
    BY <2>1, <1>c DEF Exists, CanMake
  <2> QED BY <1>c, <2>2
<1>4. CASE n # 1
  <2>1. n \in 2..Len(s) /\ n - 1 \in 1..Len(s) /\ n - 1 < n
    BY <1>1, <1>2, <1>4
  <2>2. k \in 1..(s[n - 1] + 1) /\ s[n - 1] <= k
    BY <1>1, <1>c, <2>1, ProcessesAssumption
  <2>3. Exists(s[n - 1])
    <3>1. n > 1
      BY <2>1
    <3> QED BY <1>1, <3>1 DEF CallInv
  <2>4. s[n - 1] # k
    BY <2>3
  <2>5. s[n - 1] = k - 1 /\ k - 1 \in 1..Depth /\ k # 0 /\ k # 1
    <3>1. s[n - 1] \in 0..Depth /\ s[n - 1] # 0
      BY <1>2, <2>1, <2>3 DEF Exists
    <3>2. Depth \in Nat
      BY ProcessesAssumption
    <3>3. ASSUME NEW a \in 0..Depth, NEW b \in 0..Depth, a # 0, b <= Depth,
                 b \in 1..(a + 1), a <= b, a # b
          PROVE  a = b - 1 /\ b - 1 \in 1..Depth /\ b # 0 /\ b # 1
      BY <3>2, <3>3
    <3> HIDE DEF k
    <3>4. k \in 0..Depth /\ k <= Depth
      BY <1>1, <3>2
    <3> QED BY <2>2, <2>4, <3>1, <3>3, <3>4
  <2>6. entry[k - 1] # "none" /\ entry[k - 1] # "dir"
    BY <2>3, <2>5 DEF Exists, CanMake
  <2>7. entry[k - 1] = "file"
    BY <2>5, <2>6 DEF LevelInv, TypeOK, Kinds
  <2>8. k - 1 \in 1..(Last(p) - 1)
    <3>1. Last(p) = s[Len(s)] /\ Len(s) \in 1..Len(s)
      BY <1>1, <1>2 DEF Last
    <3>2. Last(p) \in 0..Depth
      BY <1>2, <3>1
    <3> QED BY <1>1, <1>2, <2>5, <3>1, <3>2, ProcessesAssumption
  <2> QED BY <2>7, <2>8 DEF FileInTheWay
<1> QED BY <1>3, <1>4

(* What a step of p leaves of its own call. *)
LEMMA OwnGuarded ==
  ASSUME GuardInv, GuardsValid, NEW p \in Creator, CreateStep(p) \/ Gone(p)
  PROVE  CallGuarded(p)'
<1>0. /\ LevelInv /\ TypeOK /\ CallGuarded(p) /\ CallInv(p)
      /\ pc \in [Creator -> {"idle", "lock", "access", "mkdir", "created", "done"}]
      /\ ret \in [Creator -> {"none", "not locked", "true", "false"}]
      /\ p \in Creator
  BY DEF GuardInv, LevelInv, TypeOK
<1>1. CASE \E s \in Paths : Call(p, s)
  <2>1. pc'[p] = "lock" /\ ret'[p] = "none"
    BY <1>0, <1>1 DEF Call
  <2> QED BY <2>1 DEF CallGuarded, Inside
<1>2. CASE Lock(p)
  <2>1. owner' = p /\ mutexValid'[p] /\ path' = path /\ Begun(p)
    BY <1>0, <1>2 DEF Lock, system
  <2>2. pc'[p] \in {"access", "created"} /\ ret'[p] # "false"
    BY <1>0, <2>1, BegunTypes
  <2> QED BY <2>1, <2>2 DEF CallGuarded, Inside
<1>3. CASE LockInvalid(p)
  <2>1. p \in ByHand
    BY <1>3 DEF GuardsValid, LockInvalid
  <2>2. pc'[p] = "idle" /\ ret'[p] = "not locked"
    BY <1>0, <1>3, <2>1 DEF LockInvalid, Set
  <2> QED BY <2>2 DEF CallGuarded, Inside
<1>4. CASE LockTimesOut(p)
  <2>1. pc'[p] = "idle" /\ ret'[p] = "not locked"
    BY <1>0, <1>4 DEF LockTimesOut, Set
  <2> QED BY <2>1 DEF CallGuarded, Inside
<1>5. CASE Access(p)
  <2>1. owner' = p /\ mutexValid'[p] /\ path' = path /\ entry' = entry
    BY <1>0, <1>5 DEF Access, CallGuarded, Inside, system
  <2>2. CASE Exists(path[p][i[p]])
    <3>1. ret'[p] # "false" /\ pc'[p] # "mkdir"
      BY <1>0, <1>5, <2>2 DEF Access, Continue, Set
    <3> QED BY <2>1, <3>1 DEF CallGuarded
  <2>3. CASE ~Exists(path[p][i[p]])
    <3>1. ret'[p] = "none" /\ i' = i
      BY <1>0, <1>5, <2>3 DEF Access, Set
    <3> QED BY <2>1, <2>3, <3>1 DEF CallGuarded, Exists
  <2> QED BY <2>2, <2>3
<1>6. CASE Mkdir(p)
  <2>1. owner' = p /\ mutexValid'[p] /\ path' = path /\ pc[p] = "mkdir"
    BY <1>0, <1>6 DEF Mkdir, CallGuarded, Inside, system
  <2>2. CASE CanMake(path[p][i[p]])
    <3>1. ret'[p] # "false" /\ pc'[p] # "mkdir"
      BY <1>0, <1>6, <2>2 DEF Mkdir, Continue, Set
    <3> QED BY <2>1, <3>1 DEF CallGuarded
  <2>3. CASE ~CanMake(path[p][i[p]])
    <3>1. pc'[p] = "created" /\ entry' = entry
      BY <1>0, <1>6, <2>3 DEF Mkdir, Set
    <3>2. ~Creatable(p) \/ FileInTheWay(p)
      BY <1>0, <2>1, <2>3, MkdirFails DEF CallGuarded
    <3>3. ~Creatable(p)' \/ FileInTheWay(p)'
      BY <2>1, <3>1, <3>2 DEF Creatable, FileInTheWay, Last
    <3> QED BY <2>1, <3>1, <3>3 DEF CallGuarded
  <2> QED BY <2>2, <2>3
<1>7. CASE Unlock(p)
  <2>1. /\ pc'[p] \in {"done", "idle"} /\ ret' = ret /\ path' = path
        /\ entry' = entry
    BY <1>0, <1>7 DEF Unlock
  <2>2. /\ Creatable(p)' <=> Creatable(p)
        /\ FileInTheWay(p)' <=> FileInTheWay(p)
    BY <2>1 DEF Creatable, FileInTheWay, Last
  <2> QED BY <1>0, <2>1, <2>2 DEF CallGuarded, Inside
<1>8. CASE Gone(p)
  <2>1. pc'[p] = "idle" /\ ret'[p] = "none"
    BY <1>0, <1>8 DEF Gone
  <2> QED BY <2>1 DEF CallGuarded, Inside
<1> QED BY <1>1, <1>2, <1>3, <1>4, <1>5, <1>6, <1>7, <1>8 DEF CreateStep

LEMMA UnseenGuarded ==
  ASSUME GuardInv, LevelInv', UNCHANGED <<entry, owner, mutexValid, createVars>>
  PROVE  GuardInv'
<1>1. UNCHANGED <<entry, owner, mutexValid, pc, path, i, ret>>
  BY DEF createVars
<1>2. ASSUME NEW p \in Creator, CallGuarded(p) PROVE CallGuarded(p)'
  BY <1>1, <1>2 DEF CallGuarded, Exists, Creatable, FileInTheWay, Last
<1> QED BY <1>1, <1>2 DEF GuardInv, GuardsValid

LEMMA NextGuard ==
  ASSUME GuardInv, [Next]_vars
  PROVE  GuardInv'
<1>0. LevelInv /\ LevelInv'
  BY NextLevel DEF GuardInv
<1>1. ASSUME NEW p \in Creator, CreateStep(p) \/ Gone(p) PROVE GuardInv'
  <2>1. OnlyOf(p) /\ mutexValid' = mutexValid
    BY <1>0, <1>1, StepOnlyOf
  <2>2. ASSUME GuardsValid', NEW q \in Creator PROVE CallGuarded(q)'
    <3>1. GuardsValid
      BY <2>1, <2>2 DEF GuardsValid
    <3>2. CASE q = p
      BY <1>1, <3>1, <3>2, OwnGuarded
    <3>3. CASE q # p
      BY <2>1, <3>1, <3>3, OthersGuarded
    <3> QED BY <3>2, <3>3
  <2> QED BY <1>0, <2>2 DEF GuardInv
<1>2. ASSUME NEW p \in Creator, Restart(p) PROVE GuardInv'
  BY <1>0, <1>2, UnseenGuarded DEF Restart
<1>3. ASSUME NEW p \in Killer, KillStep(p) PROVE GuardInv'
  BY <1>0, <1>3, UnseenGuarded DEF KillStep, Open, Terminate, TerminateAgain, system
<1>4. CASE UNCHANGED vars
  BY <1>0, <1>4, UnseenGuarded DEF vars, system
<1> QED BY <1>1, <1>2, <1>3, <1>4 DEF Next

(* Under a valid mutex a call of CreateMultiDirectory (PathUtils.cpp:      *)
(* 302-332) never fails because of another one, also after a process was   *)
(* killed in the middle and its mutex abandoned (SyncLock.hpp:57-60, 115). *)
THEOREM Guarded == Spec => []GuardedSucceeds
<1>1. Init => GuardInv
  <2> SUFFICES ASSUME Init PROVE GuardInv
    OBVIOUS
  <2>1. \A p \in Creator : pc[p] = "idle" /\ ret[p] = "none"
    BY DEF Init
  <2> QED BY <2>1, InitLevel DEF GuardInv, CallGuarded, Inside
<1>2. GuardInv /\ [Next]_vars => GuardInv'
  BY NextGuard
<1>3. GuardInv => GuardedSucceeds
  BY DEF GuardInv, GuardedSucceeds, GuardsValid, CallGuarded
<1> QED BY <1>1, <1>2, <1>3, PTL DEF Spec
=============================================================================
