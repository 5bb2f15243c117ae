------------------------------ MODULE Winsock -------------------------------
(***************************************************************************)
(* The users of Winsock in one process: SingleSocket objects, the static   *)
(* class SocketUtils and SystemUtils::GetLocalIP (SingleSocket.cpp,        *)
(* SocketUtils.cpp, SystemUtils.cpp).  Each starts Winsock for itself and  *)
(* cleans up after itself; Winsock counts the starts of the process and    *)
(* closes every socket when the count comes back to zero.                  *)
(*                                                                         *)
(* One action is one call, except that CreateServerSocket_TCP_Ex tries one *)
(* port per action and GetLocalIP, on a thread of its own, starts and      *)
(* cleans up in two.  The sockets SocketUtils returns are used between its *)
(* Init and its Release (SocketUtils.h:86, 95).  Release may be called at  *)
(* any time; a Careful application calls it only after an Init.            *)
(***************************************************************************)
EXTENDS Integers, FiniteSets

CONSTANTS Obj,             \* the SingleSocket objects
          Socket,          \* the values of an open SOCKET
          INVALID_SOCKET,
          MaxPort,         \* the largest u_short
          ScanMax,         \* bound: the largest usPortMax of a port scan
          Careful

ASSUME WinsockAssumption ==
  /\ INVALID_SOCKET \notin Socket
  /\ IsFiniteSet(Obj)
  /\ MaxPort \in Nat
  /\ ScanMax \in 0..MaxPort
  /\ Careful \in BOOLEAN

VARIABLES startups,         \* Winsock: WSAStartup calls not cleaned up yet
          open,             \* Winsock: the open sockets of the process
          listening,        \* Winsock: those that listen
          alive,            \* the constructed objects
          m_bIsInited, m_sSingleSocket, m_emSocketType,  \* of each object
          utilsInited,      \* SocketUtils::m_bIsInited
          raw,              \* the sockets SocketUtils gave to the application
          inGetLocalIP,     \* whether a GetLocalIP call is under way
          scan              \* the port scan under way

winsock == <<startups, open, listening>>
objects == <<alive, m_bIsInited, m_sSingleSocket, m_emSocketType>>
vars == <<winsock, objects, utilsInited, raw, inGetLocalIP, scan>>

-----------------------------------------------------------------------------
SocketType == {"SS_NotSet", "SS_Server", "SS_Client"}

NoScan == [socket |-> INVALID_SOCKET, i |-> 0, min |-> 0, max |-> 0,
           end |-> "none"]

(* Calls of the application's thread do not overlap. *)
Idle == scan.socket = INVALID_SOCKET

(* WSAStartup: it may fail. *)
WSAStartup(ok) == startups' = startups + (IF ok THEN 1 ELSE 0)

(* WSACleanup, n times: the last cleanup closes the sockets; one too many  *)
(* returns SOCKET_ERROR and does nothing.                                  *)
WSACleanup(n) ==
  LET left == IF startups > n THEN startups - n ELSE 0
  IN  /\ startups' = left
      /\ open' = IF left = 0 THEN {} ELSE open
      /\ listening' = IF left = 0 THEN {} ELSE listening

(* socket(): a new socket, only while Winsock is started. *)
Free == IF startups > 0 THEN Socket \ open ELSE {}

CloseSocket(k) ==
  /\ open' = open \ {k}
  /\ listening' = listening \ {k}

Init ==
  /\ startups = 0 /\ open = {} /\ listening = {}
  /\ alive = {}
  /\ m_bIsInited = [o \in Obj |-> FALSE]
  /\ m_sSingleSocket = [o \in Obj |-> INVALID_SOCKET]
  /\ m_emSocketType = [o \in Obj |-> "SS_NotSet"]
  /\ utilsInited = FALSE /\ raw = {}
  /\ inGetLocalIP = FALSE
  /\ scan = NoScan

-----------------------------------------------------------------------------
(* SingleSocket *)

Construct(o) ==
  /\ Idle /\ o \notin alive
  /\ alive' = alive \cup {o}
  /\ m_bIsInited' = [m_bIsInited EXCEPT ![o] = FALSE]
  /\ m_sSingleSocket' = [m_sSingleSocket EXCEPT ![o] = INVALID_SOCKET]
  /\ m_emSocketType' = [m_emSocketType EXCEPT ![o] = "SS_NotSet"]
  /\ UNCHANGED <<winsock, utilsInited, raw, inGetLocalIP, scan>>

(* Mutant: no cleanup. *)
DestroyWithoutCleanup(o) ==
  /\ Idle /\ o \in alive
  /\ alive' = alive \ {o}
  /\ UNCHANGED <<winsock, m_bIsInited, m_sSingleSocket, m_emSocketType,
                 utilsInited, raw, inGetLocalIP, scan>>

(* The destructor cleans Winsock up but does not close the socket. *)
Destroy(o) ==
  /\ Idle /\ o \in alive
  /\ alive' = alive \ {o}
  /\ IF m_bIsInited[o] THEN WSACleanup(1) ELSE UNCHANGED winsock
  /\ UNCHANGED <<m_bIsInited, m_sSingleSocket, m_emSocketType, utilsInited,
                 raw, inGetLocalIP, scan>>

InitSocket(o) ==
  /\ Idle /\ o \in alive /\ ~m_bIsInited[o]
  /\ WSAStartup(TRUE)
  /\ m_bIsInited' = [m_bIsInited EXCEPT ![o] = TRUE]
  /\ UNCHANGED <<open, listening, alive, m_sSingleSocket, m_emSocketType,
                 utilsInited, raw, inGetLocalIP, scan>>

(* Only a call that succeeds changes the object: a socket that could not   *)
(* be connected or bound is closed again.  The object's earlier socket is  *)
(* not closed.                                                             *)
CreateSocket(o, emType) ==
  /\ Idle /\ o \in alive /\ m_bIsInited[o] /\ emType # "SS_NotSet"
  /\ \E k \in Free :
       /\ open' = open \cup {k}
       /\ m_sSingleSocket' = [m_sSingleSocket EXCEPT ![o] = k]
  /\ m_emSocketType' = [m_emSocketType EXCEPT ![o] = emType]
  /\ UNCHANGED <<startups, listening, alive, m_bIsInited, utilsInited, raw,
                 inGetLocalIP, scan>>

StartListening(o) ==
  /\ Idle /\ o \in alive /\ m_bIsInited[o] /\ m_emSocketType[o] = "SS_Server"
  /\ m_sSingleSocket[o] \in open
  /\ listening' = listening \cup {m_sSingleSocket[o]}
  /\ UNCHANGED <<startups, open, objects, utilsInited, raw, inGetLocalIP, scan>>

(* Mutant: the closed socket is kept. *)
ResetKeepsSocket(o) ==
  /\ Idle /\ o \in alive /\ m_bIsInited[o]
  /\ m_sSingleSocket[o] # INVALID_SOCKET
  /\ CloseSocket(m_sSingleSocket[o])
  /\ UNCHANGED <<startups, objects, utilsInited, raw, inGetLocalIP, scan>>

(* The socket is closed; its type stays. *)
Reset(o) ==
  /\ Idle /\ o \in alive /\ m_bIsInited[o]
  /\ m_sSingleSocket[o] # INVALID_SOCKET
  /\ CloseSocket(m_sSingleSocket[o])
  /\ m_sSingleSocket' = [m_sSingleSocket EXCEPT ![o] = INVALID_SOCKET]
  /\ UNCHANGED <<startups, alive, m_bIsInited, m_emSocketType, utilsInited,
                 raw, inGetLocalIP, scan>>

-----------------------------------------------------------------------------
(* SocketUtils *)

InitSocketUtils(ok) ==
  /\ Idle /\ ~utilsInited
  /\ WSAStartup(ok)
  /\ utilsInited' = ok
  /\ UNCHANGED <<open, listening, objects, raw, inGetLocalIP, scan>>

(* !(0 == WSACleanup()) || (WSANOTINITIALISED == WSACleanup()): when the   *)
(* first cleanup succeeds there is a second one, whose result, 0 or        *)
(* SOCKET_ERROR, never equals WSANOTINITIALISED.  Whose starts the two     *)
(* take is not looked at.  The application uses its sockets no more.       *)
ReleaseSocketUtils ==
  /\ Idle
  /\ Careful => utilsInited
  /\ WSACleanup(2)
  /\ utilsInited' = (startups = 0)
  /\ raw' = {}
  /\ UNCHANGED <<objects, inGetLocalIP, scan>>

(* To go on using sockets after a Release, the application calls Init.     *)
MayUseUtils == Idle /\ utilsInited

(* CreateClientSocket_TCP and CreateServerSocket_TCP, when they succeed;   *)
(* when connect or bind fails the socket is closed again.                  *)
CreateRaw ==
  /\ MayUseUtils
  /\ \E k \in Free : open' = open \cup {k} /\ raw' = raw \cup {k}
  /\ UNCHANGED <<startups, listening, objects, utilsInited, inGetLocalIP, scan>>

ListenAt ==
  /\ MayUseUtils
  /\ \E k \in raw \cap open : listening' = listening \cup {k}
  /\ UNCHANGED <<startups, open, objects, utilsInited, raw, inGetLocalIP, scan>>

(* closesocket by the application. *)
CloseRaw ==
  /\ MayUseUtils
  /\ \E k \in raw : CloseSocket(k) /\ raw' = raw \ {k}
  /\ UNCHANGED <<startups, objects, utilsInited, inGetLocalIP, scan>>

(* Mutant: the port before the range is tried first. *)
ScanBeginBefore(usPortMin, usPortMax) ==
  /\ MayUseUtils
  /\ \E k \in Free :
       /\ open' = open \cup {k}
       /\ scan' = [socket |-> k, i |-> usPortMin - 1, min |-> usPortMin,
                   max |-> usPortMax, end |-> "none"]
  /\ UNCHANGED <<startups, listening, objects, utilsInited, raw, inGetLocalIP>>

(* CreateServerSocket_TCP_Ex: one socket is offered each port in turn. *)
ScanBegin(usPortMin, usPortMax) ==
  /\ MayUseUtils
  /\ \E k \in Free :
       /\ open' = open \cup {k}
       /\ scan' = [socket |-> k, i |-> usPortMin, min |-> usPortMin,
                   max |-> usPortMax, end |-> "none"]
  /\ UNCHANGED <<startups, listening, objects, utilsInited, raw, inGetLocalIP>>

(* Mutant: a narrower index. *)
NextPortNarrow(i) == (i + 1) % (ScanMax + 1)

(* ++i in a u_short *)
NextPort(i) == (i + 1) % (MaxPort + 1)

(* bind: it may fail, and does on a socket that is not open. *)
ScanTry(bound) ==
  /\ bound => scan.socket \in open
  /\ ~Idle /\ scan.end = "none" /\ scan.i <= scan.max
  /\ scan' = IF bound THEN [scan EXCEPT !.end = "bound"]
                      ELSE [scan EXCEPT !.i = NextPort(@)]
  /\ UNCHANGED <<winsock, objects, utilsInited, raw, inGetLocalIP>>

(* Mutant: the loop's end is taken to be usPortMax itself. *)
ScanEndEarly ==
  /\ ~Idle /\ (scan.end = "bound" \/ scan.i > scan.max)
  /\ scan' = NoScan
  /\ IF scan.i = scan.max
     THEN CloseSocket(scan.socket) /\ UNCHANGED raw
     ELSE raw' = raw \cup {scan.socket} /\ UNCHANGED <<open, listening>>
  /\ UNCHANGED <<startups, objects, utilsInited, inGetLocalIP>>

(* i == usPortMax + 1 is compared as int; any other end is a success. *)
ScanEnd ==
  /\ ~Idle /\ (scan.end = "bound" \/ scan.i > scan.max)
  /\ scan' = NoScan
  /\ IF scan.i = scan.max + 1
     THEN CloseSocket(scan.socket) /\ UNCHANGED raw
     ELSE raw' = raw \cup {scan.socket} /\ UNCHANGED <<open, listening>>
  /\ UNCHANGED <<startups, objects, utilsInited, inGetLocalIP>>

-----------------------------------------------------------------------------
(* SystemUtils::GetLocalIP: every path after the start cleans up. *)

GetLocalIPBegin ==
  /\ ~inGetLocalIP
  /\ WSAStartup(TRUE)
  /\ inGetLocalIP' = TRUE
  /\ UNCHANGED <<open, listening, objects, utilsInited, raw, scan>>

(* Mutant: a path that cleans up and then runs into the cleanup at the end. *)
GetLocalIPEndTwice ==
  /\ inGetLocalIP
  /\ WSACleanup(2)
  /\ inGetLocalIP' = FALSE
  /\ UNCHANGED <<objects, utilsInited, raw, scan>>

GetLocalIPEnd ==
  /\ inGetLocalIP
  /\ WSACleanup(1)
  /\ inGetLocalIP' = FALSE
  /\ UNCHANGED <<objects, utilsInited, raw, scan>>

-----------------------------------------------------------------------------
ScanStep == ScanEnd \/ \E bound \in BOOLEAN : ScanTry(bound)

Next ==
  \/ \E o \in Obj : \/ Construct(o) \/ Destroy(o) \/ InitSocket(o)
                    \/ StartListening(o) \/ Reset(o)
                    \/ \E emType \in SocketType : CreateSocket(o, emType)
  \/ \E ok \in BOOLEAN : InitSocketUtils(ok)
  \/ ReleaseSocketUtils \/ CreateRaw \/ ListenAt \/ CloseRaw
  \/ \E usPortMin, usPortMax \in 0..ScanMax :
       ScanBegin(usPortMin, usPortMax)
  \/ ScanStep
  \/ GetLocalIPBegin \/ GetLocalIPEnd

(* A call that scans ports goes on; nothing else is owed. *)
Spec == Init /\ [][Next]_vars /\ WF_vars(ScanStep)

-----------------------------------------------------------------------------
Inited == {o \in alive : m_bIsInited[o]}

TypeOK ==
  /\ startups \in Nat
  /\ open \subseteq Socket /\ listening \subseteq open
  /\ alive \subseteq Obj
  /\ m_bIsInited \in [Obj -> BOOLEAN]
  /\ m_sSingleSocket \in [Obj -> Socket \cup {INVALID_SOCKET}]
  /\ m_emSocketType \in [Obj -> SocketType]
  /\ utilsInited \in BOOLEAN
  /\ raw \subseteq Socket
  /\ inGetLocalIP \in BOOLEAN
  /\ scan \in [socket : Socket \cup {INVALID_SOCKET}, i : 0..MaxPort,
               min : 0..ScanMax, max : 0..ScanMax, end : {"none", "bound"}]

(* Those whose last Init, or start, has succeeded and has not been undone: *)
(* they take Winsock to be started.                                        *)
Users == Cardinality(Inited) + (IF utilsInited THEN 1 ELSE 0)
                             + (IF inGetLocalIP THEN 1 ELSE 0)

(* The start-ups that users have lost. *)
Missing == Users - startups

(* No start-up is left over, in any order of constructions, Init, Release, *)
(* destructions and GetLocalIP on another thread: once the last user is    *)
(* gone Winsock is shut down and its sockets are closed.  (~SingleSocket   *)
(* and GetLocalIP's exits clean up once each, and ReleaseSocketUtils, that *)
(* may also have lost its own start, once or twice.)                       *)
StartupsAccounted == startups <= Users

(* A user loses its start-up to nobody but ReleaseSocketUtils, with its    *)
(* second WSACleanup (SocketUtils.cpp:29): not to the destruction of an    *)
(* object or to GetLocalIP on another thread, whoever else has lost his    *)
(* before.  Nor to a ReleaseSocketUtils that takes the only start there is *)
(* after an Init of its own.                                               *)
OnlyReleaseTakes ==
  [][Missing' > Missing => /\ ReleaseSocketUtils
                           /\ utilsInited => startups # 1]_vars

(* While nobody has lost a start-up, a socket held by an initialised       *)
(* object, by the application or by a port scan is open and has no second  *)
(* owner: no cleanup or Reset of another closed it, so its value cannot    *)
(* have been given to another connection.                                  *)
HeldSocketsOpen ==
  LET held == {o \in Inited : m_sSingleSocket[o] # INVALID_SOCKET}
  IN  Missing = 0 =>
      /\ \A o \in held : m_sSingleSocket[o] \in open \ (raw \cup {scan.socket})
      /\ \A o, p \in held : m_sSingleSocket[o] = m_sSingleSocket[p] => o = p
      /\ raw \subseteq open \ {scan.socket}
      /\ ~Idle => scan.socket \in open

(* CreateServerSocket_TCP_Ex over a range that is not empty returns the    *)
(* socket exactly when a port of the range was bound to it, and otherwise  *)
(* closes it: the index's value after the loop tells the two apart.  (When *)
(* start-ups are lost meanwhile the socket may be closed under the scan.)  *)
ScanHonest ==
  [][~Idle /\ scan' = NoScan /\ scan.min <= scan.max /\ Missing = 0 =>
       (scan.end = "bound" <=> scan.socket \in raw' \cap open')]_vars

(* The port scan returns, whatever ports are taken: the u_short index      *)
(* passes the last port of the range.  (With usPortMax = 65535 it does     *)
(* not; the runs keep ScanMax below MaxPort.)                              *)
ScanReturns == ~Idle ~> Idle

(* Whoever was told that Winsock is initialised (SingleSocket.h:27-31,     *)
(* SocketUtils.h:85-90) and has not released it since finds it started.    *)
InitedMeansStarted == utilsInited \/ Inited # {} => startups > 0
=============================================================================
