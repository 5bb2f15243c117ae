---------------------------- MODULE WinsockProofs ----------------------------
(***************************************************************************)
(* Proofs about the users of Winsock in one process, for any number of     *)
(* objects, socket values and ports, and for every application: Release    *)
(* may come at any time.                                                   *)
(***************************************************************************)
EXTENDS Winsock, FiniteSetTheorems, TLAPS

ScanType == [socket : Socket \cup {INVALID_SOCKET}, i : 0..MaxPort,
             min : 0..ScanMax, max : 0..ScanMax, end : {"none", "bound"}]

-----------------------------------------------------------------------------
(* Types *)

(* What WSACleanup leaves: one start less for each cleanup, and with the   *)
(* last one no socket.                                                     *)
LEMMA CleanupLeaves ==
  ASSUME TypeOK, NEW n \in Nat, WSACleanup(n)
  PROVE  /\ startups' \in Nat /\ open' \subseteq open /\ listening' \subseteq open'
         /\ startups' = (IF startups > n THEN startups - n ELSE 0)
         /\ startups' = 0 \/ open' = open
<1>1. startups \in Nat /\ listening \subseteq open
  BY DEF TypeOK
<1> DEFINE left == IF startups > n THEN startups - n ELSE 0
<1>2. /\ startups' = left
      /\ open' = IF left = 0 THEN {} ELSE open
      /\ listening' = IF left = 0 THEN {} ELSE listening
  BY DEF WSACleanup
<1>3. left \in Nat
  BY <1>1
<1> HIDE DEF left
<1>4. /\ startups' \in Nat /\ open' \subseteq open /\ listening' \subseteq open'
      /\ startups' = 0 \/ open' = open
  BY <1>1, <1>2, <1>3
<1> QED BY <1>2, <1>4 DEF left

(* The index of the scan stays a port, and at most one more than it was. *)
LEMMA NextPortRange ==
  ASSUME NEW i \in 0..MaxPort
  PROVE  NextPort(i) \in 0..MaxPort /\ NextPort(i) <= i + 1
<1>1. MaxPort \in Nat
  BY WinsockAssumption
<1>2. CASE i = MaxPort
  BY <1>1, <1>2 DEF NextPort
<1>3. CASE i < MaxPort
  BY <1>1, <1>3 DEF NextPort
<1> QED BY <1>1, <1>2, <1>3

LEMMA InitTypes == ASSUME Init PROVE TypeOK
<1>1. NoScan \in ScanType
  BY WinsockAssumption DEF NoScan, ScanType
<1> QED BY <1>1 DEF Init, TypeOK, ScanType, SocketType

LEMMA ObjectTypes ==
  ASSUME TypeOK, NEW o \in Obj,
         \/ Construct(o) \/ Destroy(o) \/ InitSocket(o) \/ StartListening(o)
         \/ Reset(o) \/ \E emType \in SocketType : CreateSocket(o, emType)
  PROVE  TypeOK'
<1>1. CASE Construct(o)
  BY <1>1 DEF TypeOK, Construct, winsock, SocketType
<1>2. CASE Destroy(o)
  <2>1. startups' \in Nat /\ open' \subseteq Socket /\ listening' \subseteq open'
    BY <1>2, CleanupLeaves DEF TypeOK, Destroy, winsock
  <2> QED BY <1>2, <2>1 DEF TypeOK, Destroy
<1>3. CASE InitSocket(o)
  BY <1>3 DEF TypeOK, InitSocket, WSAStartup
<1>4. CASE StartListening(o)
  BY <1>4 DEF TypeOK, StartListening, objects
<1>5. CASE Reset(o)
  BY <1>5 DEF TypeOK, Reset, CloseSocket
<1>6. ASSUME NEW emType \in SocketType, CreateSocket(o, emType) PROVE TypeOK'
  BY <1>6 DEF TypeOK, CreateSocket, Free
<1> QED BY <1>1, <1>2, <1>3, <1>4, <1>5, <1>6

LEMMA UtilsTypes ==
  ASSUME TypeOK,
         \/ \E ok \in BOOLEAN : InitSocketUtils(ok)
         \/ ReleaseSocketUtils \/ CreateRaw \/ ListenAt \/ CloseRaw
         \/ GetLocalIPBegin \/ GetLocalIPEnd
  PROVE  TypeOK'
<1>1. ASSUME NEW ok \in BOOLEAN, InitSocketUtils(ok) PROVE TypeOK'
  BY <1>1 DEF TypeOK, InitSocketUtils, WSAStartup, objects
<1>2. CASE ReleaseSocketUtils
  <2>1. startups' \in Nat /\ open' \subseteq Socket /\ listening' \subseteq open'
    BY <1>2, CleanupLeaves DEF TypeOK, ReleaseSocketUtils
  <2> QED BY <1>2, <2>1 DEF TypeOK, ReleaseSocketUtils, objects
<1>3. CASE CreateRaw
  BY <1>3 DEF TypeOK, CreateRaw, Free, objects
<1>4. CASE ListenAt
  BY <1>4 DEF TypeOK, ListenAt, objects
<1>5. CASE CloseRaw
  BY <1>5 DEF TypeOK, CloseRaw, CloseSocket, objects
<1>6. CASE GetLocalIPBegin
  BY <1>6 DEF TypeOK, GetLocalIPBegin, WSAStartup, objects
<1>7. CASE GetLocalIPEnd
  <2>1. startups' \in Nat /\ open' \subseteq Socket /\ listening' \subseteq open'
    BY <1>7, CleanupLeaves DEF TypeOK, GetLocalIPEnd
  <2> QED BY <1>7, <2>1 DEF TypeOK, GetLocalIPEnd, objects
<1> QED BY <1>1, <1>2, <1>3, <1>4, <1>5, <1>6, <1>7

LEMMA ScanTypes ==
  ASSUME TypeOK,
         \/ \E usPortMin, usPortMax \in 0..ScanMax : ScanBegin(usPortMin, usPortMax)
         \/ ScanStep
  PROVE  TypeOK'
<1>1. ASSUME NEW usPortMin \in 0..ScanMax, NEW usPortMax \in 0..ScanMax,
             ScanBegin(usPortMin, usPortMax)
      PROVE  TypeOK'
  <2>1. PICK k \in Free : /\ open' = open \cup {k}
                          /\ scan' = [socket |-> k, i |-> usPortMin, min |-> usPortMin,
                                      max |-> usPortMax, end |-> "none"]
    BY <1>1 DEF ScanBegin
  <2>2. k \in Socket /\ usPortMin \in 0..MaxPort
    BY WinsockAssumption DEF Free
  <2>3. scan' \in ScanType
    BY <2>1, <2>2 DEF ScanType
  <2> QED BY <1>1, <2>1, <2>2, <2>3 DEF TypeOK, ScanType, ScanBegin, objects
<1>2. ASSUME NEW bound \in BOOLEAN, ScanTry(bound) PROVE TypeOK'
  <2>1. scan \in ScanType
    BY DEF TypeOK, ScanType
  <2>2. NextPort(scan.i) \in 0..MaxPort
    BY <2>1, NextPortRange DEF ScanType
  <2>3. scan' \in ScanType
    BY <1>2, <2>1, <2>2 DEF ScanTry, ScanType
  <2> QED BY <1>2, <2>3 DEF TypeOK, ScanType, ScanTry, winsock, objects
<1>3. CASE ScanEnd
  <2>1. scan' \in ScanType
    BY <1>3, WinsockAssumption DEF ScanEnd, NoScan, ScanType
  <2>2. scan.socket \in Socket
    BY <1>3 DEF ScanEnd, Idle, TypeOK
  <2> QED BY <1>3, <2>1, <2>2 DEF TypeOK, ScanType, ScanEnd, CloseSocket, objects
<1> QED BY <1>1, <1>2, <1>3 DEF ScanStep

LEMMA NextTypes == ASSUME TypeOK, [Next]_vars PROVE TypeOK'
<1>1. CASE UNCHANGED vars
  BY <1>1 DEF TypeOK, vars, winsock, objects
<1> QED BY <1>1, ObjectTypes, UtilsTypes, ScanTypes DEF Next

(* Every variable keeps its type, in any application (SingleSocket.cpp,    *)
(* SocketUtils.cpp, SystemUtils.cpp): the count of starts never goes below *)
(* zero, and what listens is open.                                         *)
THEOREM TypeCorrect == Spec => []TypeOK
<1>1. Init => TypeOK
  BY InitTypes
<1>2. TypeOK /\ [Next]_vars => TypeOK'
  BY NextTypes
<1> QED BY <1>1, <1>2, PTL DEF Spec

-----------------------------------------------------------------------------
(* The count of starts *)

(* A socket of SocketUtils is held only while it is initialised. *)
UtilsHeld == raw # {} \/ ~Idle => utilsInited

CountInv == TypeOK /\ StartupsAccounted /\ UtilsHeld

LEMMA InitedFinite ==
  ASSUME TypeOK
  PROVE  IsFiniteSet(Inited) /\ Cardinality(Inited) \in Nat
<1>1. Inited \subseteq Obj
  BY DEF TypeOK, Inited
<1>2. IsFiniteSet(Inited)
  BY <1>1, FS_Subset, WinsockAssumption
<1> QED BY <1>2, FS_CardinalityType

LEMMA UsersType ==
  ASSUME TypeOK
  PROVE  startups \in Nat /\ Users \in Nat /\ Missing \in Int
<1> DEFINE n == Cardinality(Inited)
<1>1. n \in Nat /\ startups \in Nat
  BY InitedFinite DEF TypeOK
<1>2. Users = n + (IF utilsInited THEN 1 ELSE 0) + (IF inGetLocalIP THEN 1 ELSE 0)
  BY DEF Users
<1> HIDE DEF n
<1>3. Users \in Nat
  BY <1>1, <1>2
<1> QED BY <1>1, <1>3 DEF Missing

(* What a call does to the start-ups that are missing: only Release makes  *)
(* them more, and a call makes them fewer only where none is left.         *)
MissingKept == \/ Missing' = Missing
               \/ startups' = 0 /\ Missing' < Missing

MissingTaken == /\ Missing' >= Missing
                /\ utilsInited /\ startups = 1 => Missing' = Missing

(* The calls of one object. *)
LEMMA ObjectCount ==
  ASSUME TypeOK, NEW o \in Obj,
         \/ Construct(o) \/ Destroy(o) \/ InitSocket(o) \/ StartListening(o)
         \/ Reset(o) \/ \E emType \in SocketType : CreateSocket(o, emType)
  PROVE  MissingKept
<1> DEFINE n == Cardinality(Inited)
<1> DEFINE others == (IF utilsInited THEN 1 ELSE 0) + (IF inGetLocalIP THEN 1 ELSE 0)
<1>0. startups \in Nat /\ n \in Nat /\ IsFiniteSet(Inited) /\ others \in Nat
  BY InitedFinite DEF TypeOK
<1>1. m_bIsInited \in [Obj -> BOOLEAN] /\ alive \subseteq Obj
  BY DEF TypeOK
<1>2. /\ Missing = (n + others) - startups
      /\ Missing' = (Cardinality(Inited') + others) - startups'
  <2>1. UNCHANGED <<utilsInited, inGetLocalIP>>
    BY DEF Construct, Destroy, InitSocket, StartListening, Reset, CreateSocket
  <2>3. Cardinality(Inited') \in Nat
    <3>1. Inited' \in SUBSET (Inited \cup {o})
      BY <1>1 DEF Inited, Construct, Destroy, InitSocket, StartListening, Reset, CreateSocket, objects
    <3>2. IsFiniteSet(Inited \cup {o})
      BY <1>0, FS_AddElement
    <3>3. IsFiniteSet(Inited')
      BY <3>1, <3>2, FS_Subset
    <3> QED BY <3>3, FS_CardinalityType
  <2> DEFINE m == Cardinality(Inited')
  <2>4. /\ Users = n + (IF utilsInited THEN 1 ELSE 0) + (IF inGetLocalIP THEN 1 ELSE 0)
        /\ Users' = m + (IF utilsInited THEN 1 ELSE 0) + (IF inGetLocalIP THEN 1 ELSE 0)
    BY <2>1 DEF Users
  <2>5. m \in Nat
    BY <2>3
  <2> HIDE DEF n, m
  <2>6. Users = n + others /\ Users' = m + others
    BY <1>0, <2>4, <2>5
  <2>7. Missing = (n + others) - startups /\ Missing' = (m + others) - startups'
    <3>1. Missing = Users - startups
      BY DEF Missing
    <3>2. Missing' = Users' - startups'
      BY DEF Missing
    <3>3. /\ Users - startups = (n + others) - startups
          /\ Users' - startups' = (m + others) - startups'
      BY <2>6
    <3> QED BY <3>1, <3>2, <3>3
  <2> QED BY <2>7 DEF m
<1> HIDE DEF others
<1>3. CASE Inited' = Inited /\ startups' = startups
  BY <1>2, <1>3 DEF MissingKept
<1>4. CASE Construct(o)
  <2>1. Inited' = Inited /\ startups' = startups
    BY <1>1, <1>4 DEF Construct, Inited, winsock
  <2> QED BY <1>3, <2>1
<1>5. CASE Destroy(o) /\ m_bIsInited[o]
  <2>1. Inited' = Inited \ {o} /\ o \in Inited
    BY <1>5 DEF Destroy, Inited
  <2>2. Cardinality(Inited') = n - 1
    BY <1>0, <2>1, FS_RemoveElement
  <2>3. startups' = (IF startups > 1 THEN startups - 1 ELSE 0)
    BY <1>5, CleanupLeaves DEF Destroy
  <2> HIDE DEF n
  <2>4. Missing' = (n - 1 + others) - startups' /\ Missing = (n + others) - startups
    BY <1>2, <2>2
  <2>5. CASE startups = 0
    BY <1>0, <2>3, <2>4, <2>5 DEF MissingKept
  <2>6. CASE startups > 0
    <3>1. startups' = startups - 1
      BY <1>0, <2>3, <2>6
    <3> QED BY <1>0, <2>4, <3>1 DEF MissingKept
  <2> QED BY <1>0, <2>5, <2>6
<1>6. CASE Destroy(o) /\ ~m_bIsInited[o]
  <2>1. Inited' = Inited /\ startups' = startups
    BY <1>6 DEF Destroy, Inited, winsock
  <2> QED BY <1>3, <2>1
<1>7. CASE InitSocket(o)
  <2>1. Inited' = Inited \cup {o} /\ o \notin Inited
    BY <1>1, <1>7 DEF InitSocket, Inited
  <2>2. Cardinality(Inited') = n + 1
    BY <1>0, <2>1, FS_AddElement
  <2>3. startups' = startups + 1
    BY <1>7 DEF InitSocket, WSAStartup
  <2> HIDE DEF n
  <2> QED BY <1>0, <1>2, <2>2, <2>3 DEF MissingKept
<1>8. CASE StartListening(o) \/ Reset(o) \/ \E emType \in SocketType : CreateSocket(o, emType)
  <2>1. UNCHANGED <<startups, alive, m_bIsInited>>
    BY <1>8 DEF StartListening, Reset, CreateSocket, objects
  <2>2. Inited' = Inited
    BY <2>1 DEF Inited
  <2> QED BY <1>3, <2>1, <2>2
<1> QED BY <1>4, <1>5, <1>6, <1>7, <1>8

(* The other users'. *)
LEMMA OtherCount ==
  ASSUME TypeOK,
         \/ \E ok \in BOOLEAN : InitSocketUtils(ok)
         \/ ReleaseSocketUtils \/ CreateRaw \/ ListenAt \/ CloseRaw
         \/ GetLocalIPBegin \/ GetLocalIPEnd
         \/ \E usPortMin, usPortMax \in 0..ScanMax : ScanBegin(usPortMin, usPortMax)
         \/ ScanStep \/ UNCHANGED vars
  PROVE  MissingKept \/ (ReleaseSocketUtils /\ MissingTaken)
<1> DEFINE n == Cardinality(Inited)
<1>0. /\ startups \in Nat /\ n \in Nat
      /\ utilsInited \in BOOLEAN /\ inGetLocalIP \in BOOLEAN
  BY InitedFinite DEF TypeOK
<1>1. Cardinality(Inited') = n
  <2>1. UNCHANGED <<alive, m_bIsInited>>
    BY DEF InitSocketUtils, ReleaseSocketUtils, CreateRaw, ListenAt, CloseRaw,
           GetLocalIPBegin, GetLocalIPEnd, ScanBegin, ScanStep, ScanTry, ScanEnd,
           vars, objects
  <2>2. Inited' = Inited
    BY <2>1 DEF Inited
  <2> QED BY <2>2
<1>2. /\ Missing = (n + (IF utilsInited THEN 1 ELSE 0) + (IF inGetLocalIP THEN 1 ELSE 0))
                     - startups
      /\ Missing' = (n + (IF utilsInited' THEN 1 ELSE 0) + (IF inGetLocalIP' THEN 1 ELSE 0))
                     - startups'
  <2>1. /\ Users = n + (IF utilsInited THEN 1 ELSE 0) + (IF inGetLocalIP THEN 1 ELSE 0)
        /\ Users' = n + (IF utilsInited' THEN 1 ELSE 0) + (IF inGetLocalIP' THEN 1 ELSE 0)
    BY <1>1 DEF Users
  <2> HIDE DEF n
  <2>2. Missing = Users - startups /\ Missing' = Users' - startups'
    BY DEF Missing
  <2> QED BY <2>1, <2>2
<1> HIDE DEF n
<1>3. ASSUME NEW ok \in BOOLEAN, InitSocketUtils(ok) PROVE MissingKept
  <2>1. /\ startups' = startups + (IF ok THEN 1 ELSE 0) /\ ~utilsInited
        /\ utilsInited' = ok /\ inGetLocalIP' = inGetLocalIP
    BY <1>3 DEF InitSocketUtils, WSAStartup
  <2> QED BY <1>0, <1>2, <2>1 DEF MissingKept
<1>4. CASE ReleaseSocketUtils
  <2>1. /\ startups' = (IF startups > 2 THEN startups - 2 ELSE 0)
        /\ inGetLocalIP' = inGetLocalIP
    BY <1>4, CleanupLeaves DEF ReleaseSocketUtils
  <2>2. CASE startups = 0
    <3>1. (startups = 0) = TRUE
      BY <2>2
    <3>2. utilsInited' = TRUE /\ startups' = 0
      <4>1. utilsInited' = TRUE
        BY <1>4, <3>1 DEF ReleaseSocketUtils
      <4> QED BY <2>1, <2>2, <4>1
    <3> QED BY <1>0, <1>2, <1>4, <2>1, <2>2, <3>2 DEF MissingTaken
  <2>3. CASE startups = 1
    <3>1. (startups = 0) = FALSE
      BY <2>3
    <3>2. utilsInited' = FALSE /\ startups' = 0
      <4>1. utilsInited' = FALSE
        BY <1>4, <3>1 DEF ReleaseSocketUtils
      <4> QED BY <2>1, <2>3, <4>1
    <3> QED BY <1>0, <1>2, <1>4, <2>1, <2>3, <3>2 DEF MissingTaken
  <2>4. CASE startups >= 2
    <3>1. (startups = 0) = FALSE
      BY <1>0, <2>4
    <3>2. utilsInited' = FALSE /\ startups' = startups - 2
      <4>1. utilsInited' = FALSE
        BY <1>4, <3>1 DEF ReleaseSocketUtils
      <4> QED BY <1>0, <2>1, <2>4, <4>1
    <3> QED BY <1>0, <1>2, <1>4, <2>1, <2>4, <3>2 DEF MissingTaken
  <2> QED BY <1>0, <2>2, <2>3, <2>4
<1>5. CASE GetLocalIPBegin
  <2>1. /\ startups' = startups + 1 /\ ~inGetLocalIP /\ inGetLocalIP' = TRUE
        /\ utilsInited' = utilsInited
    BY <1>5 DEF GetLocalIPBegin, WSAStartup
  <2> QED BY <1>0, <1>2, <2>1 DEF MissingKept
<1>6. CASE GetLocalIPEnd
  <2>1. inGetLocalIP /\ inGetLocalIP' = FALSE /\ utilsInited' = utilsInited
    BY <1>6 DEF GetLocalIPEnd
  <2>2. startups' = (IF startups > 1 THEN startups - 1 ELSE 0)
    BY <1>6, CleanupLeaves DEF GetLocalIPEnd
  <2>3. CASE startups = 0
    BY <1>0, <1>2, <2>1, <2>2, <2>3 DEF MissingKept
  <2>4. CASE startups > 0
    <3>1. startups' = startups - 1
      BY <1>0, <2>2, <2>4
    <3> QED BY <1>0, <1>2, <2>1, <3>1 DEF MissingKept
  <2> QED BY <1>0, <2>3, <2>4
<1>7. CASE \/ CreateRaw \/ ListenAt \/ CloseRaw \/ ScanStep \/ UNCHANGED vars
           \/ \E usPortMin, usPortMax \in 0..ScanMax : ScanBegin(usPortMin, usPortMax)
  <2>1. UNCHANGED <<startups, utilsInited, inGetLocalIP>>
    BY <1>7 DEF CreateRaw, ListenAt, CloseRaw, ScanBegin, ScanStep, ScanTry, ScanEnd,
                vars, winsock
  <2> QED BY <1>2, <2>1 DEF MissingKept
<1> QED BY <1>3, <1>4, <1>5, <1>6, <1>7

LEMMA NextMissing ==
  ASSUME TypeOK, [Next]_vars
  PROVE  /\ MissingKept \/ (ReleaseSocketUtils /\ MissingTaken)
         /\ Missing \in Int /\ Missing' \in Int
         /\ Users' \in Nat /\ startups' \in Nat
<1>1. TypeOK'
  BY NextTypes
<1>2. Missing' \in Int /\ Users' \in Nat /\ startups' \in Nat
  <2>1. TypeOK' => (startups \in Nat /\ Users \in Nat /\ Missing \in Int)'
    BY UsersType, PTL
  <2> QED BY <1>1, <2>1
<1> QED BY <1>2, ObjectCount, OtherCount, UsersType DEF Next

(* Without a start that is missing or held there is no user. *)
LEMMA NobodyLeft ==
  ASSUME TypeOK, Missing = 0, startups = 0
  PROVE  Inited = {} /\ ~utilsInited
<1> DEFINE n == Cardinality(Inited)
<1>1. n \in Nat /\ utilsInited \in BOOLEAN /\ inGetLocalIP \in BOOLEAN
  BY InitedFinite DEF TypeOK
<1>2. n + (IF utilsInited THEN 1 ELSE 0) + (IF inGetLocalIP THEN 1 ELSE 0) - 0 = 0
  BY DEF Missing, Users
<1> HIDE DEF n
<1>3. n = 0 /\ ~utilsInited
  BY <1>1, <1>2
<1> QED BY <1>3, InitedFinite, FS_EmptySet DEF n

LEMMA NextCount ==
  ASSUME CountInv, [Next]_vars
  PROVE  CountInv'
<1>1. TypeOK /\ TypeOK' /\ startups <= Users
  BY NextTypes DEF CountInv, StartupsAccounted
<1>2. StartupsAccounted'
  <2>1. startups' <= Users'
    <3>1. /\ Missing = Users - startups /\ Missing' = Users' - startups'
          /\ Users \in Nat /\ startups \in Nat
      BY <1>1, UsersType DEF Missing
    <3>2. Missing' >= Missing \/ startups' = 0
      BY <1>1, NextMissing DEF MissingKept, MissingTaken
    <3> QED BY <1>1, <3>1, <3>2, NextMissing
  <2> QED BY <2>1 DEF StartupsAccounted
<1>3. UtilsHeld'
  <2>0. UtilsHeld
    BY DEF CountInv
  <2>1. CASE UNCHANGED <<raw, scan, utilsInited>>
    BY <2>0, <2>1 DEF UtilsHeld, Idle
  <2>2. ASSUME NEW ok \in BOOLEAN, InitSocketUtils(ok) PROVE UtilsHeld'
    BY <2>0, <2>2 DEF UtilsHeld, Idle, InitSocketUtils
  <2>3. CASE ReleaseSocketUtils
    BY <2>3 DEF UtilsHeld, Idle, ReleaseSocketUtils
  <2>4. CASE CreateRaw \/ CloseRaw \/ \E usPortMin, usPortMax \in 0..ScanMax :
                                       ScanBegin(usPortMin, usPortMax)
    BY <2>4 DEF UtilsHeld, CreateRaw, CloseRaw, ScanBegin, MayUseUtils
  <2>5. CASE ScanStep
    BY <2>0, <2>5 DEF UtilsHeld, ScanStep, ScanTry, ScanEnd
  <2>6. ASSUME NEW o \in Obj,
               \/ Construct(o) \/ Destroy(o) \/ InitSocket(o) \/ StartListening(o)
               \/ Reset(o) \/ \E emType \in SocketType : CreateSocket(o, emType)
        PROVE  UNCHANGED <<raw, scan, utilsInited>>
    BY <2>6 DEF Construct, Destroy, InitSocket, StartListening, Reset, CreateSocket
  <2>7. CASE ListenAt \/ GetLocalIPBegin \/ GetLocalIPEnd \/ UNCHANGED vars
    BY <2>1, <2>7 DEF ListenAt, GetLocalIPBegin, GetLocalIPEnd, vars
  <2> QED BY <2>1, <2>2, <2>3, <2>4, <2>5, <2>6, <2>7 DEF Next
<1> QED BY <1>1, <1>2, <1>3 DEF CountInv

LEMMA InitCount == ASSUME Init PROVE CountInv
<1>1. Inited = {} /\ startups = 0 /\ ~utilsInited /\ ~inGetLocalIP /\ raw = {} /\ Idle
  BY DEF Init, Inited, Idle, NoScan
<1>2. Cardinality(Inited) = 0
  BY <1>1, FS_EmptySet
<1>3. StartupsAccounted
  BY <1>1, <1>2 DEF StartupsAccounted, Users
<1> QED BY <1>1, <1>3, InitTypes DEF CountInv, UtilsHeld

(* No start-up is left over when its user is gone (SingleSocket.cpp:87-108,*)
(* SocketUtils.cpp:13-31, SystemUtils.cpp:8-37), in any order of calls and *)
(* also after start-ups have been lost.                                    *)
THEOREM Accounted == Spec => []StartupsAccounted
<1>1. Init => CountInv
  BY InitCount
<1>2. CountInv /\ [Next]_vars => CountInv'
  BY NextCount
<1>3. CountInv => StartupsAccounted
  BY DEF CountInv
<1> QED BY <1>1, <1>2, <1>3, PTL DEF Spec

(* Nothing but the second WSACleanup of ReleaseSocketUtils                 *)
(* (SocketUtils.cpp:27-31) takes a start-up from a user that is still      *)
(* there, whatever has been lost before.                                   *)
THEOREM OnlyReleaseTakesOne == Spec => OnlyReleaseTakes
<1>1. Init => TypeOK
  BY InitTypes
<1>2. TypeOK /\ [Next]_vars => TypeOK'
  BY NextTypes
<1>3. TypeOK /\ [Next]_vars =>
        [Missing' > Missing => /\ ReleaseSocketUtils
                               /\ utilsInited => startups # 1]_vars
  <2> SUFFICES ASSUME TypeOK, [Next]_vars, Missing' > Missing
               PROVE  ReleaseSocketUtils /\ (utilsInited => startups # 1)
    OBVIOUS
  <2>1. ~MissingKept
    BY NextMissing DEF MissingKept
  <2>2. ReleaseSocketUtils /\ MissingTaken
    BY <2>1, NextMissing
  <2>3. ~(utilsInited /\ startups = 1)
    BY <2>2, NextMissing DEF MissingTaken
  <2> QED BY <2>2, <2>3
<1> QED BY <1>1, <1>2, <1>3, PTL DEF Spec, OnlyReleaseTakes

-----------------------------------------------------------------------------
(* The sockets that are held *)

Holds(o) == o \in Inited /\ m_sSingleSocket[o] # INVALID_SOCKET

(* An object has a socket only once it is initialised. *)
FreshHoldsNone ==
  \A o \in alive : ~m_bIsInited[o] => m_sSingleSocket[o] = INVALID_SOCKET

(* HeldSocketsOpen, in the terms the proofs use. *)
HeldApart ==
  /\ \A o \in Obj : Holds(o) =>
       /\ m_sSingleSocket[o] \in open
       /\ m_sSingleSocket[o] \notin raw
       /\ m_sSingleSocket[o] # scan.socket
  /\ \A o, p \in Obj :
       Holds(o) /\ Holds(p) /\ m_sSingleSocket[o] = m_sSingleSocket[p] => o = p
  /\ raw \subseteq open
  /\ scan.socket \notin raw
  /\ ~Idle => scan.socket \in open

LEMMA HeldMeans ==
  ASSUME TypeOK
  PROVE  HeldSocketsOpen <=> (Missing = 0 => HeldApart)
<1>1. \A o : o \in Inited => o \in Obj
  BY DEF TypeOK, Inited
<1> QED BY <1>1 DEF HeldSocketsOpen, HeldApart, Holds

(* Where nobody has lost a start-up the last cleanup closes every socket,  *)
(* and then none is held.                                                  *)
LEMMA LastCleanup ==
  ASSUME CountInv, Missing = 0, startups = 0
  PROVE  HeldApart
<1>1. Inited = {} /\ ~utilsInited
  BY NobodyLeft DEF CountInv
<1>2. raw = {} /\ Idle
  BY <1>1 DEF CountInv, UtilsHeld
<1> QED BY <1>1, <1>2 DEF HeldApart, Holds

(* A step that gives nobody a socket and closes none. *)
LEMMA HeldKept ==
  ASSUME HeldApart,
         \A o \in Obj : Holds(o)' => Holds(o) /\ m_sSingleSocket'[o] = m_sSingleSocket[o],
         raw' \subseteq raw, scan'.socket = scan.socket, open' = open
  PROVE  HeldApart'
BY DEF HeldApart, Idle

HeldInv == CountInv /\ (Missing = 0 => HeldApart) /\ FreshHoldsNone

LEMMA FreeSocket ==
  ASSUME TypeOK, NEW k \in Free
  PROVE  k \in Socket /\ k \notin open /\ k # INVALID_SOCKET
BY WinsockAssumption DEF Free

(* The calls of one object. *)
LEMMA ObjectHeld ==
  ASSUME TypeOK, HeldApart, FreshHoldsNone, startups' # 0, NEW o \in Obj,
         \/ Construct(o) \/ Destroy(o) \/ InitSocket(o) \/ StartListening(o)
         \/ Reset(o) \/ \E emType \in SocketType : CreateSocket(o, emType)
  PROVE  HeldApart'
<1>0. /\ TypeOK /\ HeldApart /\ FreshHoldsNone /\ UNCHANGED <<raw, scan>>
      /\ m_bIsInited \in [Obj -> BOOLEAN] /\ alive \subseteq Obj
      /\ m_sSingleSocket \in [Obj -> Socket \cup {INVALID_SOCKET}]
  BY DEF TypeOK, Construct, Destroy, InitSocket, StartListening,
         Reset, CreateSocket
<1>1. CASE Construct(o)
  <2>1. open' = open
    BY <1>1 DEF Construct, winsock
  <2>2. \A p \in Obj : Holds(p)' => Holds(p) /\ m_sSingleSocket'[p] = m_sSingleSocket[p]
    BY <1>0, <1>1 DEF Construct, Holds, Inited
  <2> QED BY <1>0, <2>1, <2>2, HeldKept
<1>2. CASE Destroy(o)
  <2>1. open' = open
    BY <1>0, <1>2, CleanupLeaves DEF Destroy, winsock
  <2>2. \A p \in Obj : Holds(p)' => Holds(p) /\ m_sSingleSocket'[p] = m_sSingleSocket[p]
    BY <1>2 DEF Destroy, Holds, Inited
  <2> QED BY <1>0, <2>1, <2>2, HeldKept
<1>3. CASE InitSocket(o)
  <2>1. open' = open
    BY <1>3 DEF InitSocket
  <2>2. m_sSingleSocket' = m_sSingleSocket /\ m_sSingleSocket[o] = INVALID_SOCKET
    BY <1>0, <1>3 DEF InitSocket, FreshHoldsNone
  <2>3. \A p \in Obj : Holds(p)' => Holds(p) /\ m_sSingleSocket'[p] = m_sSingleSocket[p]
    BY <1>0, <1>3, <2>2 DEF InitSocket, Holds, Inited
  <2> QED BY <1>0, <2>1, <2>3, HeldKept
<1>4. CASE StartListening(o)
  <2>1. UNCHANGED <<open, alive, m_bIsInited, m_sSingleSocket>>
    BY <1>4 DEF StartListening, objects
  <2>2. \A p \in Obj : Holds(p)' => Holds(p) /\ m_sSingleSocket'[p] = m_sSingleSocket[p]
    BY <2>1 DEF Holds, Inited
  <2> QED BY <1>0, <2>1, <2>2, HeldKept
<1>5. CASE Reset(o)
  <2>1. /\ open' = open \ {m_sSingleSocket[o]} /\ Holds(o)
        /\ UNCHANGED <<alive, m_bIsInited>>
        /\ m_sSingleSocket' = [m_sSingleSocket EXCEPT ![o] = INVALID_SOCKET]
    BY <1>5 DEF Reset, CloseSocket, Holds, Inited
  <2>2. \A p \in Obj : Holds(p)' => /\ Holds(p) /\ p # o
                                   /\ m_sSingleSocket'[p] = m_sSingleSocket[p]
    BY <1>0, <2>1 DEF Holds, Inited
  <2>3. HeldApart'
    <3>1. \A p \in Obj : Holds(p)' =>
            /\ m_sSingleSocket'[p] \in open'
            /\ m_sSingleSocket'[p] \notin raw'
            /\ m_sSingleSocket'[p] # scan'.socket
      BY <1>0, <2>1, <2>2 DEF HeldApart
    <3>2. \A p, q \in Obj : Holds(p)' /\ Holds(q)' /\ m_sSingleSocket'[p] = m_sSingleSocket'[q]
                             => p = q
      BY <1>0, <2>2 DEF HeldApart
    <3>3. /\ raw' \subseteq open' /\ scan'.socket \notin raw'
          /\ ~Idle' => scan'.socket \in open'
      BY <1>0, <2>1 DEF HeldApart, Idle
    <3> QED BY <3>1, <3>2, <3>3 DEF HeldApart
  <2> QED BY <2>3
<1>6. ASSUME NEW emType \in SocketType, CreateSocket(o, emType)
      PROVE  HeldApart'
  <2>1. PICK k \in Free : /\ open' = open \cup {k}
                          /\ m_sSingleSocket' = [m_sSingleSocket EXCEPT ![o] = k]
    BY <1>6 DEF CreateSocket
  <2>2. /\ UNCHANGED <<alive, m_bIsInited>> /\ o \in alive /\ m_bIsInited[o]
        /\ k \notin open /\ k # INVALID_SOCKET
    BY <1>0, <1>6, FreeSocket DEF CreateSocket
  <2>3. \A p \in Obj : Holds(p)' => \/ p = o /\ m_sSingleSocket'[p] = k
                                   \/ /\ p # o /\ Holds(p)
                                      /\ m_sSingleSocket'[p] = m_sSingleSocket[p]
    BY <1>0, <2>1, <2>2 DEF Holds, Inited
  <2>4. k \notin raw /\ k # scan.socket
    BY <1>0, <2>2 DEF HeldApart, Idle
  <2>5. HeldApart'
    <3>1. \A p \in Obj : Holds(p)' =>
            /\ m_sSingleSocket'[p] \in open'
            /\ m_sSingleSocket'[p] \notin raw'
            /\ m_sSingleSocket'[p] # scan'.socket
      BY <1>0, <2>1, <2>3, <2>4 DEF HeldApart
    <3>2. \A p, q \in Obj : Holds(p)' /\ Holds(q)' /\ m_sSingleSocket'[p] = m_sSingleSocket'[q]
                             => p = q
      BY <1>0, <2>2, <2>3 DEF HeldApart
    <3>3. /\ raw' \subseteq open' /\ scan'.socket \notin raw'
          /\ ~Idle' => scan'.socket \in open'
      BY <1>0, <2>1 DEF HeldApart, Idle
    <3> QED BY <3>1, <3>2, <3>3 DEF HeldApart
  <2> QED BY <2>5
<1> QED BY <1>1, <1>2, <1>3, <1>4, <1>5, <1>6

(* The other calls leave the objects alone. *)
LEMMA OtherHeld ==
  ASSUME TypeOK, HeldApart, startups' # 0,
         \/ \E ok \in BOOLEAN : InitSocketUtils(ok)
         \/ ReleaseSocketUtils \/ CreateRaw \/ ListenAt \/ CloseRaw
         \/ GetLocalIPBegin \/ GetLocalIPEnd
         \/ \E usPortMin, usPortMax \in 0..ScanMax : ScanBegin(usPortMin, usPortMax)
         \/ ScanStep \/ UNCHANGED vars
  PROVE  HeldApart'
<1>0. TypeOK /\ HeldApart /\ startups' # 0
  OBVIOUS
<1>1. UNCHANGED <<alive, m_bIsInited, m_sSingleSocket>>
  BY DEF InitSocketUtils, ReleaseSocketUtils, CreateRaw, ListenAt, CloseRaw,
         GetLocalIPBegin, GetLocalIPEnd, ScanBegin, ScanStep, ScanTry, ScanEnd,
         vars, objects
<1>3. \A o \in Obj : /\ Holds(o)' <=> Holds(o)
                     /\ m_sSingleSocket'[o] = m_sSingleSocket[o]
  BY <1>1 DEF Holds, Inited
<1>4. CASE \/ \E ok \in BOOLEAN : InitSocketUtils(ok)
           \/ ReleaseSocketUtils \/ ListenAt \/ GetLocalIPBegin \/ GetLocalIPEnd
           \/ (\E bound \in BOOLEAN : ScanTry(bound)) \/ UNCHANGED vars
  <2>1. open' = open
    BY <1>0, <1>4, CleanupLeaves DEF InitSocketUtils, ReleaseSocketUtils, ListenAt,
       GetLocalIPBegin, GetLocalIPEnd, ScanTry, winsock, vars
  <2>2. raw' \subseteq raw
    BY <1>4 DEF InitSocketUtils, ReleaseSocketUtils, ListenAt, GetLocalIPBegin,
       GetLocalIPEnd, ScanTry, vars
  <2>3. scan'.socket = scan.socket
    <3>1. CASE UNCHANGED scan
      BY <3>1
    <3>2. CASE \E bound \in BOOLEAN : ScanTry(bound)
      BY <1>0, <3>2 DEF ScanTry, TypeOK
    <3> QED BY <1>4, <3>1, <3>2 DEF InitSocketUtils, ReleaseSocketUtils, ListenAt,
              GetLocalIPBegin, GetLocalIPEnd, vars
  <2> QED BY <1>0, <1>3, <2>1, <2>2, <2>3, HeldKept
<1>5. CASE CreateRaw
  <2>1. PICK k \in Free : open' = open \cup {k} /\ raw' = raw \cup {k}
    BY <1>5 DEF CreateRaw
  <2>2. k \notin open /\ scan.socket = INVALID_SOCKET /\ scan' = scan /\ k # INVALID_SOCKET
    BY <1>0, <1>5, FreeSocket DEF CreateRaw, MayUseUtils, Idle
  <2>3. HeldApart'
    BY <1>0, <1>3, <2>1, <2>2 DEF HeldApart, Idle
  <2> QED BY <2>3
<1>6. CASE CloseRaw
  <2>1. PICK k \in raw : open' = open \ {k} /\ raw' = raw \ {k}
    BY <1>6 DEF CloseRaw, CloseSocket
  <2>2. scan' = scan
    BY <1>6 DEF CloseRaw
  <2>3. HeldApart'
    BY <1>0, <1>3, <2>1, <2>2 DEF HeldApart, Idle
  <2> QED BY <2>3
<1>7. ASSUME NEW usPortMin \in 0..ScanMax, NEW usPortMax \in 0..ScanMax,
             ScanBegin(usPortMin, usPortMax)
      PROVE  HeldApart'
  <2>1. PICK k \in Free : open' = open \cup {k} /\ scan'.socket = k
    BY <1>7 DEF ScanBegin
  <2>2. k \notin open /\ raw' = raw
    BY <1>0, <1>7, FreeSocket DEF ScanBegin
  <2>3. HeldApart'
    BY <1>0, <1>3, <2>1, <2>2 DEF HeldApart, Idle
  <2> QED BY <2>3
<1>8. CASE ScanEnd
  <2>1. /\ scan'.socket = INVALID_SOCKET /\ ~Idle
        /\ \/ open' = open \ {scan.socket} /\ raw' = raw
           \/ open' = open /\ raw' = raw \cup {scan.socket}
    BY <1>8 DEF ScanEnd, CloseSocket, NoScan
  <2>2. scan.socket \in open /\ INVALID_SOCKET \notin open /\ raw \subseteq open
    BY <1>0, <2>1, WinsockAssumption DEF HeldApart, TypeOK
  <2>3. \A o \in Obj : Holds(o)' => m_sSingleSocket'[o] # INVALID_SOCKET
    BY DEF Holds
  <2>4. HeldApart'
    BY <1>0, <1>3, <2>1, <2>2, <2>3 DEF HeldApart, Idle
  <2> QED BY <2>4
<1> QED BY <1>4, <1>5, <1>6, <1>7, <1>8 DEF ScanStep

LEMMA FreshKept ==
  ASSUME TypeOK, FreshHoldsNone, [Next]_vars
  PROVE  FreshHoldsNone'
<1>0. m_bIsInited \in [Obj -> BOOLEAN] /\ m_sSingleSocket \in [Obj -> Socket \cup {INVALID_SOCKET}]
      /\ alive \subseteq Obj
  BY DEF TypeOK
<1>1. CASE UNCHANGED <<alive, m_bIsInited, m_sSingleSocket>>
  BY <1>1 DEF FreshHoldsNone
<1>2. ASSUME NEW o \in Obj, Construct(o) PROVE FreshHoldsNone'
  BY <1>0, <1>2 DEF Construct, FreshHoldsNone
<1>3. ASSUME NEW o \in Obj, Destroy(o) PROVE FreshHoldsNone'
  BY <1>3 DEF Destroy, FreshHoldsNone
<1>4. ASSUME NEW o \in Obj, InitSocket(o) PROVE FreshHoldsNone'
  BY <1>0, <1>4 DEF InitSocket, FreshHoldsNone
<1>5. ASSUME NEW o \in Obj, Reset(o) PROVE FreshHoldsNone'
  BY <1>0, <1>5 DEF Reset, FreshHoldsNone
<1>6. ASSUME NEW o \in Obj, NEW emType \in SocketType, CreateSocket(o, emType)
      PROVE  FreshHoldsNone'
  BY <1>0, <1>6 DEF CreateSocket, FreshHoldsNone
<1>7. ASSUME NEW o \in Obj, StartListening(o) PROVE FreshHoldsNone'
  BY <1>1, <1>7 DEF StartListening, objects
<1>8. CASE \/ \E ok \in BOOLEAN : InitSocketUtils(ok)
           \/ ReleaseSocketUtils \/ CreateRaw \/ ListenAt \/ CloseRaw
           \/ GetLocalIPBegin \/ GetLocalIPEnd
           \/ \E usPortMin, usPortMax \in 0..ScanMax : ScanBegin(usPortMin, usPortMax)
           \/ ScanStep \/ UNCHANGED vars
  BY <1>1, <1>8 DEF InitSocketUtils, ReleaseSocketUtils, CreateRaw, ListenAt, CloseRaw,
     GetLocalIPBegin, GetLocalIPEnd, ScanBegin, ScanStep, ScanTry, ScanEnd, vars, objects
<1> QED BY <1>2, <1>3, <1>4, <1>5, <1>6, <1>7, <1>8 DEF Next

(* Where nobody has lost a start-up after a step, nobody had before it,    *)
(* unless the step was the last cleanup.                                   *)
LEMMA NextHeld ==
  ASSUME HeldInv, [Next]_vars
  PROVE  HeldInv'
<1>1. TypeOK /\ FreshHoldsNone /\ CountInv' /\ startups <= Users
  BY NextCount DEF HeldInv, CountInv, StartupsAccounted
<1>2. FreshHoldsNone'
  BY <1>1, FreshKept
<1>3. ASSUME Missing' = 0 PROVE HeldApart'
  <2>1. CASE startups' = 0
    <3>1. (Missing = 0)' /\ (startups = 0)'
      BY <1>3, <2>1
    <3>2. CountInv' /\ (Missing = 0)' /\ (startups = 0)' => HeldApart'
      BY LastCleanup, PTL
    <3> QED BY <1>1, <3>1, <3>2
  <2>2. CASE startups' # 0
    <3>1. Missing' >= Missing /\ Missing \in Int
      BY <1>1, <2>2, NextMissing DEF MissingKept, MissingTaken
    <3>2. Missing >= 0
      BY <1>1, UsersType DEF Missing
    <3>3. Missing = 0
      BY <1>3, <3>1, <3>2
    <3>4. HeldApart
      BY <3>3 DEF HeldInv
    <3> QED BY <1>1, <2>2, <3>4, ObjectHeld, OtherHeld DEF Next
  <2> QED BY <2>1, <2>2
<1> QED BY <1>1, <1>2, <1>3 DEF HeldInv

LEMMA InitHeld == ASSUME Init PROVE HeldInv
<1>1. CountInv
  BY InitCount
<1>2. Inited = {} /\ raw = {} /\ Idle /\ alive = {}
  BY DEF Init, Inited, Idle, NoScan
<1> QED BY <1>1, <1>2 DEF HeldInv, HeldApart, FreshHoldsNone, Holds

(* While nobody has lost a start-up a socket in use is open and has one    *)
(* owner (SingleSocket.cpp:87-91, 110-163, 265-276; SocketUtils.cpp:33-112):*)
(* no cleanup closes it under its owner, so its value is not another       *)
(* connection's.                                                           *)
THEOREM HeldOpen == Spec => []HeldSocketsOpen
<1>1. Init => HeldInv
  BY InitHeld
<1>2. HeldInv /\ [Next]_vars => HeldInv'
  BY NextHeld
<1>3. HeldInv => HeldSocketsOpen
  BY HeldMeans DEF HeldInv, CountInv
<1> QED BY <1>1, <1>2, <1>3, PTL DEF Spec

-----------------------------------------------------------------------------
(* The port scan *)

(* The index is within the range when a port was bound, and at most one    *)
(* past it otherwise.                                                      *)
ScanInRange ==
  ~Idle => /\ scan.end = "bound" => scan.i <= scan.max
           /\ scan.end = "none" /\ scan.min <= scan.max => scan.i <= scan.max + 1

ScanInv == HeldInv /\ ScanInRange

LEMMA NextScan ==
  ASSUME ScanInv, [Next]_vars
  PROVE  ScanInv'
<1>0. HeldInv' /\ TypeOK /\ ScanInRange
  BY NextHeld DEF ScanInv, HeldInv, CountInv
<1>1. CASE UNCHANGED scan
  BY <1>0, <1>1 DEF ScanInv, ScanInRange, Idle
<1>2. ASSUME NEW usPortMin \in 0..ScanMax, NEW usPortMax \in 0..ScanMax,
             ScanBegin(usPortMin, usPortMax)
      PROVE  ScanInv'
  <2>1. /\ scan'.i = usPortMin /\ scan'.min = usPortMin /\ scan'.max = usPortMax
        /\ scan'.end = "none"
    BY <1>2 DEF ScanBegin
  <2>2. usPortMin <= usPortMax => usPortMin <= usPortMax + 1
    BY WinsockAssumption
  <2> QED BY <1>0, <2>1, <2>2 DEF ScanInv, ScanInRange
<1>3. ASSUME NEW bound \in BOOLEAN, ScanTry(bound) PROVE ScanInv'
  <2>0. scan \in ScanType /\ scan.i <= scan.max
    BY <1>0, <1>3 DEF TypeOK, ScanType, ScanTry
  <2>1. CASE bound
    <3>1. scan'.end = "bound" /\ scan'.i = scan.i /\ scan'.max = scan.max
      BY <1>3, <2>0, <2>1 DEF ScanTry, ScanType
    <3> QED BY <1>0, <2>0, <3>1 DEF ScanInv, ScanInRange
  <2>2. CASE ~bound
    <3>1. /\ scan'.end = "none" /\ scan'.i = NextPort(scan.i) /\ scan'.max = scan.max
      BY <1>3, <2>0, <2>2 DEF ScanTry, ScanType
    <3>2. scan.i \in 0..MaxPort /\ scan.max \in 0..ScanMax
      BY <2>0 DEF ScanType
    <3>3. NextPort(scan.i) <= scan.max + 1
      <4>1. NextPort(scan.i) <= scan.i + 1 /\ NextPort(scan.i) \in 0..MaxPort
        BY <3>2, NextPortRange
      <4> QED BY <2>0, <3>2, <4>1
    <3> QED BY <1>0, <3>1, <3>3 DEF ScanInv, ScanInRange
  <2> QED BY <2>1, <2>2
<1>4. CASE ScanEnd
  BY <1>0, <1>4 DEF ScanEnd, NoScan, ScanInv, ScanInRange, Idle
<1>5. ASSUME NEW o \in Obj,
             \/ Construct(o) \/ Destroy(o) \/ InitSocket(o) \/ StartListening(o)
             \/ Reset(o) \/ \E emType \in SocketType : CreateSocket(o, emType)
      PROVE  UNCHANGED scan
  BY <1>5 DEF Construct, Destroy, InitSocket, StartListening, Reset, CreateSocket
<1>6. CASE \/ \E ok \in BOOLEAN : InitSocketUtils(ok)
           \/ ReleaseSocketUtils \/ CreateRaw \/ ListenAt \/ CloseRaw
           \/ GetLocalIPBegin \/ GetLocalIPEnd \/ UNCHANGED vars
  BY <1>1, <1>6 DEF InitSocketUtils, ReleaseSocketUtils, CreateRaw, ListenAt, CloseRaw,
     GetLocalIPBegin, GetLocalIPEnd, vars
<1> QED BY <1>1, <1>2, <1>3, <1>4, <1>5, <1>6 DEF Next, ScanStep

LEMMA EndHonest ==
  ASSUME ScanInv, [Next]_vars, ~Idle, scan' = NoScan, scan.min <= scan.max,
         Missing = 0
  PROVE  scan.end = "bound" <=> scan.socket \in raw' \cap open'
<1>0. /\ TypeOK /\ scan \in ScanType /\ ScanInRange /\ scan.socket \in open
      /\ scan.socket \notin raw
  BY DEF ScanInv, HeldInv, CountInv, HeldApart, TypeOK, ScanType
<1>1. ScanEnd
  <2>1. scan' # scan
    BY DEF Idle, NoScan
  <2>2. ASSUME NEW bound \in BOOLEAN, ScanTry(bound) PROVE FALSE
    <3>1. scan'.socket = scan.socket
      BY <1>0, <2>2 DEF ScanTry, ScanType
    <3> QED BY <3>1 DEF Idle, NoScan
  <2>3. ASSUME NEW o \in Obj,
               \/ Construct(o) \/ Destroy(o) \/ InitSocket(o) \/ StartListening(o)
               \/ Reset(o) \/ \E emType \in SocketType : CreateSocket(o, emType)
        PROVE  FALSE
    BY <2>1, <2>3 DEF Construct, Destroy, InitSocket, StartListening, Reset, CreateSocket
  <2>4. ~(\/ \E ok \in BOOLEAN : InitSocketUtils(ok)
          \/ ReleaseSocketUtils \/ CreateRaw \/ ListenAt \/ CloseRaw
          \/ GetLocalIPBegin \/ GetLocalIPEnd \/ UNCHANGED vars)
    BY <2>1 DEF InitSocketUtils, ReleaseSocketUtils, CreateRaw, ListenAt, CloseRaw,
       GetLocalIPBegin, GetLocalIPEnd, vars
  <2>5. ASSUME NEW usPortMin \in 0..ScanMax, NEW usPortMax \in 0..ScanMax,
               ScanBegin(usPortMin, usPortMax)
        PROVE  FALSE
    BY <2>5 DEF ScanBegin, MayUseUtils
  <2> QED BY <2>2, <2>3, <2>4, <2>5 DEF Next, ScanStep
<1>2. scan.i \in 0..MaxPort /\ scan.max \in 0..ScanMax /\ scan.end \in {"none", "bound"}
  BY <1>0 DEF ScanType
<1>3. scan.end = "bound" <=> scan.i # scan.max + 1
  <2>1. CASE scan.end = "bound"
    <3>1. scan.i <= scan.max
      BY <1>0, <2>1 DEF ScanInRange
    <3> QED BY <1>2, <2>1, <3>1
  <2>2. CASE scan.end = "none"
    <3>1. scan.i <= scan.max + 1
      BY <1>0, <2>2 DEF ScanInRange
    <3>2. scan.i > scan.max
      BY <1>1, <2>2 DEF ScanEnd
    <3> QED BY <1>2, <2>2, <3>1, <3>2
  <2> QED BY <1>2, <2>1, <2>2
<1>4. CASE scan.i = scan.max + 1
  <2>1. open' = open \ {scan.socket}
    BY <1>1, <1>4 DEF ScanEnd, CloseSocket
  <2> QED BY <1>3, <1>4, <2>1
<1>5. CASE scan.i # scan.max + 1
  <2>1. raw' = raw \cup {scan.socket} /\ open' = open
    BY <1>1, <1>5 DEF ScanEnd
  <2> QED BY <1>0, <1>3, <1>5, <2>1
<1> QED BY <1>4, <1>5

(* CreateServerSocket_TCP_Ex over a range that is not empty                *)
(* (SocketUtils.cpp:81-112) returns the socket exactly when a port of the  *)
(* range was bound to it, for every width of the index and every range,    *)
(* while nobody has lost a start-up.                                       *)
THEOREM ScanTellsApart == Spec => ScanHonest
<1>1. Init => ScanInv
  <2> SUFFICES ASSUME Init PROVE ScanInv
    OBVIOUS
  <2> QED BY InitHeld DEF Init, NoScan, ScanInv, ScanInRange, Idle
<1>2. ScanInv /\ [Next]_vars => ScanInv'
  BY NextScan
<1>3. ScanInv /\ [Next]_vars =>
        [~Idle /\ scan' = NoScan /\ scan.min <= scan.max /\ Missing = 0 =>
          (scan.end = "bound" <=> scan.socket \in raw' \cap open')]_vars
  BY EndHonest
<1> QED BY <1>1, <1>2, <1>3, PTL DEF Spec, ScanHonest
=============================================================================
