---------------------------- MODULE ThreadsProofs ----------------------------
(***************************************************************************)
(* Proofs about the objects that start threads and the locks the threads   *)
(* share, for any number of threads, objects, handle values and locks, and *)
(* whatever Main does with its objects.                                    *)
(***************************************************************************)
EXTENDS Threads, SyncLockProofs

-----------------------------------------------------------------------------
(* A step of the locks is one of a thread, and leaves the objects alone.   *)
LEMMA LockStepKept ==
  ASSUME LockInv, NEW t \in Thread, LockStep(t)
  PROVE  LockInv' /\ [M!Next]_Inside /\ UNCHANGED <<threadVars, objVars>>
BY LocksKept DEF LockStep

(* All other steps leave the locks alone. *)
OtherStep == ObjectStep \/ WaitForCleaning
             \/ \E w \in Worker : Begin(w) \/ \E c \in Code : Return(w, c)

LEMMA StepKinds ==
  ASSUME [Next]_vars
  PROVE  \/ \E t \in Thread : LockStep(t)
         \/ OtherStep /\ UNCHANGED lockVars
         \/ UNCHANGED vars
<1>1. Main \in Thread /\ Worker \subseteq Thread
  BY ThreadsAssumption
<1>2. ASSUME ObjectStep PROVE UNCHANGED lockVars
  BY <1>2 DEF ObjectStep, Start, StartFails, CallWaitForCleaning,
              Destroy, Construct
<1>3. ASSUME WaitForCleaning PROVE UNCHANGED lockVars
  BY <1>3 DEF WaitForCleaning
<1>4. ASSUME NEW w \in Worker, Begin(w) \/ \E c \in Code : Return(w, c)
      PROVE  UNCHANGED lockVars
  BY <1>4 DEF Begin, Return
<1> QED BY <1>1, <1>2, <1>3, <1>4 DEF Next, WorkerStep, OtherStep

LEMMA NextLocks ==
  ASSUME LockInv, [Next]_vars
  PROVE  LockInv' /\ [M!Next]_Inside
BY StepKinds, LockStepKept, LocksUnseen DEF vars

LEMMA InitLocks ==
  ASSUME Init
  PROVE  LockInv /\ M!Init
BY LocksInitially DEF Init

(* Through all the threads' nesting, a critical section has been entered   *)
(* exactly as often as its owner's guards and Lock() calls have to undo    *)
(* (SyncLock.hpp:18-34, 66-84).                                            *)
THEOREM LocksAccounted == Spec => []GuardsAccounted
<1>1. Init => LockInv
  BY InitLocks
<1>2. LockInv /\ [Next]_vars => LockInv'
  BY NextLocks
<1>3. LockInv => GuardsAccounted
  BY DEF LockInv
<1> QED BY <1>1, <1>2, <1>3, PTL DEF Spec

(* SyncLock, with its guards (SyncLock.hpp:18-34, 66-84), is a mutual      *)
(* exclusion: every step of every thread is an entry, an exit or nothing   *)
(* in MutualExclusion.                                                     *)
THEOREM ImplementsMutex == Spec => MutexSpec
<1>1. Init => LockInv /\ M!Init
  BY InitLocks
<1>2. LockInv /\ [Next]_vars => LockInv' /\ [M!Next]_Inside
  BY NextLocks
<1> QED BY <1>1, <1>2, PTL DEF Spec, MutexSpec, M!Spec

-----------------------------------------------------------------------------
(* The objects, without the locks *)

ObjTypes ==
  /\ table \in [Handle -> Worker \union {NULL}]
  /\ state \in [Worker -> {"none", "starting", "running", "ended"}]
  /\ code \in [Worker -> Code \union {0}]
  /\ alive \subseteq Obj
  /\ m_hThreadHandle \in [Obj -> Handle \union {NULL}]
  /\ m_uThreadID \in [Obj -> Worker \union {NULL}]
  /\ cleaning \in Utils \union {NULL}
  /\ last \in [Obj -> Worker \union {NULL}]

(* The handle an object has is open, is nobody else's and names the thread *)
(* that the object started last.                                           *)
HandlesNameLast ==
  /\ \A o \in Obj : last[o] # NULL => /\ m_hThreadHandle[o] # NULL
                                      /\ m_uThreadID[o] # NULL
                                      /\ table[m_hThreadHandle[o]] = last[o]
  /\ \A o \in Obj : last[o] = NULL => m_hThreadHandle[o] = NULL
  /\ \A o, p \in Obj :
       m_hThreadHandle[o] # NULL /\ m_hThreadHandle[o] = m_hThreadHandle[p] => o = p

ObjInv == ObjTypes /\ HandlesNameLast

LEMMA CloseHandleTypes ==
  ASSUME ObjTypes, NEW h, CloseHandle(h)
  PROVE  /\ table' \in [Handle -> Worker \union {NULL}]
         /\ \A x \in Handle : x # h => table'[x] = table[x]
BY DEF ObjTypes, CloseHandle

LEMMA ObjTypesUnchanged ==
  ASSUME ObjTypes, UNCHANGED <<threadVars, objVars>>
  PROVE  ObjTypes'
BY DEF ObjTypes, threadVars, objVars

LEMMA OtherTypes ==
  ASSUME ObjTypes, OtherStep
  PROVE  ObjTypes'
<1>2. ASSUME NEW o \in Obj, NEW w \in Worker, NEW h \in Handle, Start(o, w, h)
      PROVE  ObjTypes'
  <2>1. /\ table' \in [Handle -> Worker \union {NULL}]
        /\ state' \in [Worker -> {"none", "starting", "running", "ended"}]
    BY <1>2 DEF ObjTypes, Start
  <2>2. /\ m_hThreadHandle' \in [Obj -> Handle \union {NULL}]
        /\ m_uThreadID' \in [Obj -> Worker \union {NULL}]
        /\ last' \in [Obj -> Worker \union {NULL}]
    BY <1>2 DEF ObjTypes, Start
  <2> QED BY <1>2, <2>1, <2>2 DEF ObjTypes, Start
<1>3. ASSUME NEW o \in Obj, StartFails(o) PROVE ObjTypes'
  BY <1>3 DEF ObjTypes, StartFails, threadVars
<1>4. ASSUME NEW o \in Obj, CallWaitForCleaning(o) PROVE ObjTypes'
  BY <1>4 DEF ObjTypes, CallWaitForCleaning, threadVars
<1>5. ASSUME NEW o \in Obj, Destroy(o) PROVE ObjTypes'
  <2>1. table' \in [Handle -> Worker \union {NULL}]
    BY <1>5, CloseHandleTypes DEF Destroy, ObjTypes
  <2> QED BY <1>5, <2>1 DEF ObjTypes, Destroy
<1>6. ASSUME NEW o \in Obj, Construct(o) PROVE ObjTypes'
  BY <1>6 DEF ObjTypes, Construct, threadVars
<1>7. CASE WaitForCleaning
  <2>1. table' \in [Handle -> Worker \union {NULL}]
    BY <1>7, CloseHandleTypes DEF WaitForCleaning
  <2>2. cleaning \in Obj
    BY <1>7 DEF WaitForCleaning, ObjTypes, Obj
  <2> QED BY <1>7, <2>1, <2>2 DEF ObjTypes, WaitForCleaning
<1>8. ASSUME NEW w \in Worker, Begin(w) PROVE ObjTypes'
  BY <1>8 DEF ObjTypes, Begin, objVars
<1>9. ASSUME NEW w \in Worker, NEW c \in Code, Return(w, c) PROVE ObjTypes'
  BY <1>9 DEF ObjTypes, Return, objVars
<1> QED BY <1>2, <1>3, <1>4, <1>5, <1>6, <1>7, <1>8, <1>9
        DEF OtherStep, ObjectStep

LEMMA NextTypes ==
  ASSUME LockInv, ObjTypes, [Next]_vars
  PROVE  ObjTypes'
<1>1. ASSUME NEW t \in Thread, LockStep(t) PROVE ObjTypes'
  BY <1>1, LockStepKept, ObjTypesUnchanged
<1>2. CASE UNCHANGED vars
  BY <1>2, ObjTypesUnchanged DEF vars
<1> QED BY <1>1, <1>2, StepKinds, OtherTypes

LEMMA InitTypes == ASSUME Init PROVE ObjTypes
BY DEF Init, ObjTypes

(* Every variable keeps its type (CkRunnable.hpp, ThreadUtils.hpp,         *)
(* SyncLock.hpp), whatever Main and the threads do.                        *)
THEOREM TypeCorrect == Spec => []TypeOK
<1>1. Init => LockInv /\ ObjTypes
  BY InitLocks, InitTypes
<1>2. LockInv /\ ObjTypes /\ [Next]_vars => LockInv' /\ ObjTypes'
  BY NextLocks, NextTypes
<1>3. LockInv /\ ObjTypes => TypeOK
  BY DEF LockInv, ObjTypes, TypeOK
<1> QED BY <1>1, <1>2, <1>3, PTL DEF Spec

-----------------------------------------------------------------------------
(* Handles *)

(* The object o, and it alone, gives up its handle and its thread; if the  *)
(* handle is closed, that hits no one else.                                *)
LEMMA HandleDropped ==
  ASSUME ObjInv, NEW o \in Obj, ObjTypes',
         m_hThreadHandle' = [m_hThreadHandle EXCEPT ![o] = NULL],
         last' = [last EXCEPT ![o] = NULL],
         \A p \in Obj \ {o} : m_uThreadID'[p] = m_uThreadID[p],
         CloseHandle(m_hThreadHandle[o]) \/ UNCHANGED table
  PROVE  HandlesNameLast'
<1>1. ObjTypes /\ HandlesNameLast /\ NULL \notin Handle \union Worker
  BY ThreadsAssumption DEF ObjInv
<1>2. /\ m_hThreadHandle \in [Obj -> Handle \union {NULL}]
      /\ last \in [Obj -> Worker \union {NULL}]
  BY <1>1 DEF ObjTypes
<1>3. /\ m_hThreadHandle'[o] = NULL /\ last'[o] = NULL
      /\ \A p \in Obj \ {o} : /\ m_hThreadHandle'[p] = m_hThreadHandle[p]
                              /\ last'[p] = last[p]
  BY <1>2
<1>4. ASSUME NEW p \in Obj \ {o}, last[p] # NULL
      PROVE  table'[m_hThreadHandle[p]] = table[m_hThreadHandle[p]]
  <2>1. /\ m_hThreadHandle[p] \in Handle /\ m_hThreadHandle[p] # m_hThreadHandle[o]
    BY <1>1, <1>2, <1>4 DEF HandlesNameLast
  <2> QED BY <1>1, <2>1, CloseHandleTypes
<1>5. \A p \in Obj : last'[p] # NULL => /\ m_hThreadHandle'[p] # NULL
                                        /\ m_uThreadID'[p] # NULL
                                        /\ table'[m_hThreadHandle'[p]] = last'[p]
  <2> TAKE p \in Obj
  <2>1. CASE p = o
    BY <1>3, <2>1
  <2>2. CASE p # o
    BY <1>1, <1>3, <1>4, <2>2 DEF HandlesNameLast
  <2> QED BY <2>1, <2>2
<1>6. \A p \in Obj : last'[p] = NULL => m_hThreadHandle'[p] = NULL
  BY <1>1, <1>3 DEF HandlesNameLast
<1>7. \A p, q \in Obj :
         m_hThreadHandle'[p] # NULL /\ m_hThreadHandle'[p] = m_hThreadHandle'[q]
           => p = q
  BY <1>1, <1>3 DEF HandlesNameLast
<1> QED BY <1>5, <1>6, <1>7 DEF HandlesNameLast

(* The handle that a thread is started with was nobody's. *)
LEMMA HandleGiven ==
  ASSUME ObjInv, NEW o \in Obj, NEW w \in Worker, NEW h \in Handle, Start(o, w, h)
  PROVE  HandlesNameLast'
<1>1. ObjTypes /\ HandlesNameLast /\ NULL \notin Handle \union Worker
  BY ThreadsAssumption DEF ObjInv
<1>2. /\ m_hThreadHandle \in [Obj -> Handle \union {NULL}]
      /\ last \in [Obj -> Worker \union {NULL}]
      /\ m_uThreadID \in [Obj -> Worker \union {NULL}]
      /\ table \in [Handle -> Worker \union {NULL}]
  BY <1>1 DEF ObjTypes
<1>3. /\ table[h] = NULL /\ table' = [table EXCEPT ![h] = w]
      /\ m_hThreadHandle' = [m_hThreadHandle EXCEPT ![o] = h]
      /\ m_uThreadID' = [m_uThreadID EXCEPT ![o] = w]
      /\ last' = [last EXCEPT ![o] = w]
  BY DEF Start
<1>4. \A p \in Obj : m_hThreadHandle[p] # h
  <2> TAKE p \in Obj
  <2>1. CASE last[p] = NULL
    BY <1>1, <2>1 DEF HandlesNameLast
  <2>2. CASE last[p] # NULL
    BY <1>1, <1>3, <2>2 DEF HandlesNameLast
  <2> QED BY <2>1, <2>2
<1>5. /\ m_hThreadHandle'[o] = h /\ m_uThreadID'[o] = w /\ last'[o] = w
      /\ table'[h] = w
      /\ \A p \in Obj \ {o} : /\ m_hThreadHandle'[p] = m_hThreadHandle[p]
                              /\ m_uThreadID'[p] = m_uThreadID[p]
                              /\ last'[p] = last[p]
      /\ \A x \in Handle \ {h} : table'[x] = table[x]
  BY <1>2, <1>3
<1>6. \A p \in Obj : last'[p] # NULL => /\ m_hThreadHandle'[p] # NULL
                                        /\ m_uThreadID'[p] # NULL
                                        /\ table'[m_hThreadHandle'[p]] = last'[p]
  <2> TAKE p \in Obj
  <2>1. CASE p = o
    BY <1>1, <1>5, <2>1
  <2>2. CASE p # o
    <3> HAVE last'[p] # NULL
    <3>1. /\ m_hThreadHandle[p] \in Handle \ {h} /\ m_uThreadID[p] # NULL
          /\ table[m_hThreadHandle[p]] = last[p]
      BY <1>1, <1>2, <1>4, <1>5, <2>2 DEF HandlesNameLast
    <3> QED BY <1>1, <1>5, <2>2, <3>1
  <2> QED BY <2>1, <2>2
<1>7. \A p \in Obj : last'[p] = NULL => m_hThreadHandle'[p] = NULL
  BY <1>1, <1>5 DEF HandlesNameLast
<1>8. \A p, q \in Obj :
         m_hThreadHandle'[p] # NULL /\ m_hThreadHandle'[p] = m_hThreadHandle'[q]
           => p = q
  BY <1>1, <1>4, <1>5 DEF HandlesNameLast
<1> QED BY <1>6, <1>7, <1>8 DEF HandlesNameLast

LEMMA HandlesUnseen ==
  ASSUME HandlesNameLast, UNCHANGED <<table, m_hThreadHandle, m_uThreadID, last>>
  PROVE  HandlesNameLast'
BY DEF HandlesNameLast

LEMMA NextHandles ==
  ASSUME LockInv, ObjInv, [Next]_vars
  PROVE  ObjInv'
<1>0. ObjTypes' /\ ObjTypes /\ HandlesNameLast
  BY NextTypes DEF ObjInv
<1>1. CASE UNCHANGED <<table, m_hThreadHandle, m_uThreadID, last>>
  BY <1>0, <1>1, HandlesUnseen DEF ObjInv
<1>2. ASSUME NEW o \in Obj, NEW w \in Worker, NEW h \in Handle, Start(o, w, h)
      PROVE  ObjInv'
  BY <1>0, <1>2, HandleGiven DEF ObjInv
<1>3. ASSUME NEW o \in Obj, StartFails(o) PROVE ObjInv'
  BY <1>0, <1>3, HandleDropped DEF ObjInv, StartFails, threadVars
<1>4. ASSUME NEW o \in Obj, Destroy(o) PROVE ObjInv'
  <2>1. \A p \in Obj \ {o} : m_uThreadID'[p] = m_uThreadID[p]
    BY <1>0, <1>4 DEF Destroy, ObjTypes
  <2> QED BY <1>0, <1>4, <2>1, HandleDropped DEF ObjInv, Destroy
<1>5. CASE WaitForCleaning
  <2>1. PICK o \in Obj : o = cleaning
    BY <1>0, <1>5 DEF WaitForCleaning, ObjTypes, Obj
  <2>2. \A p \in Obj \ {o} : m_uThreadID'[p] = m_uThreadID[p]
    BY <1>0, <1>5, <2>1 DEF WaitForCleaning, ObjTypes
  <2>3. /\ m_hThreadHandle' = [m_hThreadHandle EXCEPT ![o] = NULL]
        /\ last' = [last EXCEPT ![o] = NULL]
        /\ CloseHandle(m_hThreadHandle[o])
    BY <1>5, <2>1 DEF WaitForCleaning
  <2> QED BY <1>0, <2>2, <2>3, HandleDropped DEF ObjInv
<1>6. ASSUME NEW t \in Thread, LockStep(t) PROVE ObjInv'
  BY <1>1, <1>6, LockStepKept DEF threadVars, objVars
<1>7. ASSUME NEW o \in Obj,
             CallWaitForCleaning(o) \/ Construct(o)
      PROVE  ObjInv'
  BY <1>1, <1>7 DEF CallWaitForCleaning, Construct, threadVars
<1>8. ASSUME NEW w \in Worker, Begin(w) \/ \E c \in Code : Return(w, c)
      PROVE  ObjInv'
  BY <1>1, <1>8 DEF Begin, Return, objVars
<1>9. CASE UNCHANGED vars
  BY <1>1, <1>9 DEF vars, threadVars, objVars
<1> QED BY StepKinds, <1>2, <1>3, <1>4, <1>5, <1>6, <1>7, <1>8, <1>9
        DEF OtherStep, ObjectStep

LEMMA InitHandles == ASSUME Init PROVE ObjInv
<1>1. \A o \in Obj : m_hThreadHandle[o] = NULL /\ last[o] = NULL
  BY DEF Init
<1> QED BY <1>1, InitTypes DEF ObjInv, HandlesNameLast

(* GetThreadExitCode and GetExitCode (CkRunnable.hpp:56-62,                *)
(* ThreadUtils.hpp:37-42) tell of the thread the object started last,      *)
(* although handle values are closed and given out again.                  *)
THEOREM CodesHonest == Spec => []ExitCodeHonest
<1>1. Init => LockInv /\ ObjInv
  BY InitLocks, InitHandles
<1>2. LockInv /\ ObjInv /\ [Next]_vars => LockInv' /\ ObjInv'
  BY NextLocks, NextHandles
<1>3. ObjInv => ExitCodeHonest
  <2> SUFFICES ASSUME ObjInv, NEW o \in alive
               PROVE  ExitCode(o) = IF last[o] = NULL THEN FAILED
                                    ELSE IF state[last[o]] = "ended" THEN code[last[o]]
                                    ELSE STILL_ACTIVE
    BY DEF ExitCodeHonest
  <2>1. o \in Obj
    BY DEF ObjInv, ObjTypes
  <2>2. CASE last[o] = NULL
    BY <2>1, <2>2 DEF ObjInv, HandlesNameLast, ExitCode
  <2>3. CASE last[o] # NULL
    BY <2>1, <2>3 DEF ObjInv, HandlesNameLast, ExitCode
  <2> QED BY <2>2, <2>3
<1> QED BY <1>1, <1>2, <1>3, PTL DEF Spec

-----------------------------------------------------------------------------
(* Cleaning up *)

(* Only WaitForCleaning ends the call, and it changes no thread's state.   *)
LEMMA CleaningEnds ==
  ASSUME LockInv, ObjTypes, [Next]_vars, cleaning # NULL, cleaning' = NULL
  PROVE  WaitForCleaning
<1>1. cleaning' # cleaning
  OBVIOUS
<1>2. ASSUME NEW t \in Thread, LockStep(t) PROVE FALSE
  BY <1>1, <1>2, LockStepKept DEF objVars
<1>3. ASSUME NEW o \in Obj, NEW w \in Worker, NEW h \in Handle, Start(o, w, h) PROVE FALSE
  BY <1>1, <1>3 DEF Start
<1>4. ASSUME NEW o \in Obj, StartFails(o) \/ CallWaitForCleaning(o) \/ Construct(o) \/ Destroy(o)
      PROVE  FALSE
  BY <1>4 DEF StartFails, CallWaitForCleaning, Construct, Destroy, MainFree
<1>5. ASSUME NEW w \in Worker, Begin(w) \/ \E c \in Code : Return(w, c) PROVE FALSE
  BY <1>1, <1>5 DEF Begin, Return, objVars
<1>6. ~UNCHANGED vars
  BY <1>1 DEF vars, objVars
<1> QED BY StepKinds, <1>2, <1>3, <1>4, <1>5, <1>6 DEF OtherStep, ObjectStep

(* WaitForCleaning (ThreadUtils.hpp:99-108) returns only when the thread   *)
(* that the object started last has ended: the handle it waits on is open  *)
(* and that thread's, whatever was closed and given out again meanwhile.   *)
THEOREM CleanedEnded == Spec => CleanedMeansEnded
<1>1. Init => LockInv /\ ObjInv
  BY InitLocks, InitHandles
<1>2. LockInv /\ ObjInv /\ [Next]_vars => LockInv' /\ ObjInv'
  BY NextLocks, NextHandles
<1>3. LockInv /\ ObjInv /\ [Next]_vars =>
        [cleaning # NULL /\ cleaning' = NULL /\ last[cleaning] # NULL =>
           state'[last[cleaning]] = "ended"]_vars
  <2> SUFFICES ASSUME LockInv, ObjInv, [Next]_vars,
                      cleaning # NULL, cleaning' = NULL, last[cleaning] # NULL
               PROVE  state'[last[cleaning]] = "ended"
    OBVIOUS
  <2>1. WaitForCleaning
    BY CleaningEnds DEF ObjInv
  <2>2. cleaning \in Obj
    BY DEF ObjInv, ObjTypes, Obj
  <2>3. /\ m_hThreadHandle[cleaning] # NULL
        /\ table[m_hThreadHandle[cleaning]] = last[cleaning]
    BY <2>2 DEF ObjInv, HandlesNameLast
  <2>4. state[last[cleaning]] = "ended" /\ state' = state
    BY <2>1, <2>3 DEF WaitForCleaning, Waited
  <2> QED BY <2>4
<1> QED BY <1>1, <1>2, <1>3, PTL DEF Spec, CleanedMeansEnded
=============================================================================
