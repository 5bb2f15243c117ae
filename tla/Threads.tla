------------------------------ MODULE Threads -------------------------------
(***************************************************************************)
(* CkRunnable and ThreadUtils (Hpp/CkRunnable.hpp, Hpp/ThreadUtils.hpp):   *)
(* the objects a program starts threads with, over a table of handle       *)
(* values that are used again once closed.  The thread Main owns the       *)
(* objects; the threads they start run bodies that use the locks of        *)
(* SyncLock, as Main does.  Main calls the objects in any order, waits for *)
(* threads with a lock in hand and destroys objects whose threads run.     *)
(*                                                                         *)
(* The argument of a thread (SetThreadArgs, SetThreadParams) is left out:  *)
(* it goes through the objects as an opaque pointer.                       *)
(***************************************************************************)
EXTENDS SyncLock

CONSTANTS Main,
          Worker,     \* the threads started, in the order of their start
          Runnable,   \* the CkRunnable objects
          Utils,      \* the ThreadUtils objects
          Handle,     \* the values of an open HANDLE
          Code        \* what thread functions return

STILL_ACTIVE == 259
FAILED == -1        \* 0xFFFFFFFF

Obj == Runnable \union Utils

ASSUME ThreadsAssumption ==
  /\ Worker \subseteq Nat \ {0}
  /\ Thread = {Main} \union Worker
  /\ Main \notin Worker
  /\ Runnable \intersect Utils = {}
  /\ NULL \notin Handle \union Worker \union Obj
  /\ Code \subseteq Nat

VARIABLES table,            \* the kernel: the thread of each open handle
          state,            \* of each thread
          code,             \* the exit code of each thread
          alive,            \* the constructed objects
          m_hThreadHandle, m_uThreadID,   \* of each object
          cleaning,         \* the object Main is in WaitForCleaning of
          last              \* the thread an object has started and not
                            \*   cleaned up after

threadVars == <<table, state, code>>
objVars == <<alive, m_hThreadHandle, m_uThreadID, cleaning, last>>
vars == <<lockVars, threadVars, objVars>>

-----------------------------------------------------------------------------
(* CloseHandle fails, and changes nothing, on a value that is not open.    *)
CloseHandle(h) == table' = [x \in Handle |-> IF x = h THEN NULL ELSE table[x]]

MainFree == cleaning = NULL /\ want[Main] = NotBlocked

Init ==
  /\ LockInit
  /\ table = [h \in Handle |-> NULL]
  /\ state = [w \in Worker |-> "none"]
  /\ code = [w \in Worker |-> 0]
  /\ alive = Obj
  /\ m_hThreadHandle = [o \in Obj |-> NULL]
  /\ m_uThreadID = [o \in Obj |-> NULL]
  /\ cleaning = NULL
  /\ last = [o \in Obj |-> NULL]

(* Start, Run: _beginthreadex makes the thread w and a handle on it, in    *)
(* place of the one the object had.                                        *)
Start(o, w, h) ==
  /\ MainFree /\ o \in alive
  /\ state[w] = "none" /\ \A v \in Worker : v < w => state[v] # "none"
  /\ table[h] = NULL
  /\ table' = [table EXCEPT ![h] = w]
  /\ state' = [state EXCEPT ![w] = "starting"]
  /\ m_hThreadHandle' = [m_hThreadHandle EXCEPT ![o] = h]
  /\ m_uThreadID' = [m_uThreadID EXCEPT ![o] = w]
  /\ last' = [last EXCEPT ![o] = w]
  /\ UNCHANGED <<lockVars, code, alive, cleaning>>

(* _beginthreadex fails: no handle, and the id stays as it was. *)
StartFails(o) ==
  /\ MainFree /\ o \in alive
  /\ m_hThreadHandle' = [m_hThreadHandle EXCEPT ![o] = NULL]
  /\ last' = [last EXCEPT ![o] = NULL]
  /\ UNCHANGED <<lockVars, threadVars, alive, m_uThreadID, cleaning>>

(* With CkRunnable the thread first reads the object, that may be gone by  *)
(* then: what it does after that is undefined, and that it runs all the    *)
(* same is one outcome (the others end the process).                       *)
Begin(w) ==
  /\ state[w] = "starting"
  /\ state' = [state EXCEPT ![w] = "running"]
  /\ UNCHANGED <<lockVars, table, code, objVars>>

(* The thread function returns: the scopes of its guards have ended.       *)
Return(w, c) ==
  /\ state[w] = "running" /\ Unlocked(w)
  /\ state' = [state EXCEPT ![w] = "ended"]
  /\ code' = [code EXCEPT ![w] = c]
  /\ UNCHANGED <<lockVars, table, objVars>>

(* GetThreadExitCode, GetExitCode. *)
ExitCode(o) ==
  LET h == m_hThreadHandle[o] IN
  IF h = NULL \/ m_uThreadID[o] = NULL \/ table[h] = NULL THEN FAILED
  ELSE IF state[table[h]] = "ended" THEN code[table[h]] ELSE STILL_ACTIVE

CallWaitForCleaning(o) ==
  /\ MainFree /\ o \in alive \intersect Utils
  /\ cleaning' = o
  /\ UNCHANGED <<lockVars, threadVars, alive, m_hThreadHandle, m_uThreadID,
                 last>>

(* Mutant: the wait has a timeout, and its result is not looked at. *)
WaitedOrNot(o) == TRUE

(* WaitForSingleObject is through: the thread has ended, or there was no   *)
(* handle to wait for.                                                     *)
Waited(o) == LET h == m_hThreadHandle[o] IN
  h # NULL /\ table[h] # NULL => state[table[h]] = "ended"

(* Mutant: the handle is closed and kept. *)
CleanKeepsHandle ==
  /\ cleaning # NULL /\ Waited(cleaning)
  /\ CloseHandle(m_hThreadHandle[cleaning])
  /\ m_uThreadID' = [m_uThreadID EXCEPT ![cleaning] = NULL]
  /\ last' = [last EXCEPT ![cleaning] = NULL]
  /\ cleaning' = NULL
  /\ UNCHANGED <<lockVars, state, code, alive, m_hThreadHandle>>

WaitForCleaning ==
  /\ cleaning # NULL /\ Waited(cleaning)
  /\ CloseHandle(m_hThreadHandle[cleaning])
  /\ m_hThreadHandle' = [m_hThreadHandle EXCEPT ![cleaning] = NULL]
  /\ m_uThreadID' = [m_uThreadID EXCEPT ![cleaning] = NULL]
  /\ last' = [last EXCEPT ![cleaning] = NULL]
  /\ cleaning' = NULL
  /\ UNCHANGED <<lockVars, state, code, alive>>

(* ~CkRunnable closes its handle, ~ThreadUtils does not; nobody waits.     *)
(* Another object may then be made in the same place.                      *)
Destroy(o) ==
  /\ MainFree /\ o \in alive
  /\ IF o \in Runnable THEN CloseHandle(m_hThreadHandle[o]) ELSE UNCHANGED table
  /\ alive' = alive \ {o}
  /\ m_hThreadHandle' = [m_hThreadHandle EXCEPT ![o] = NULL]
  /\ m_uThreadID' = [m_uThreadID EXCEPT ![o] = NULL]
  /\ last' = [last EXCEPT ![o] = NULL]
  /\ UNCHANGED <<lockVars, state, code, cleaning>>

Construct(o) ==
  /\ MainFree /\ o \notin alive
  /\ alive' = alive \union {o}
  /\ UNCHANGED <<lockVars, threadVars, m_hThreadHandle, m_uThreadID, cleaning,
                 last>>

-----------------------------------------------------------------------------
Runs(t) == IF t = Main THEN cleaning = NULL ELSE state[t] = "running"

LockStep(t) ==
  /\ Runs(t)
  /\ Takes(t) \/ Resume(t) \/ Releases(t)
  /\ UNCHANGED <<threadVars, objVars>>

ObjectStep ==
  \E o \in Obj :
    \/ \E w \in Worker, h \in Handle : Start(o, w, h)
    \/ StartFails(o)
    \/ CallWaitForCleaning(o)
    \/ Destroy(o)
    \/ Construct(o)

WorkerStep(w) == Begin(w) \/ LockStep(w) \/ \E c \in Code : Return(w, c)

Next == \/ ObjectStep
        \/ WaitForCleaning
        \/ LockStep(Main)
        \/ \E w \in Worker : WorkerStep(w)

(* The scheduler runs every thread; the thread function comes to its end,  *)
(* and Main to the end of the scopes it opens.                             *)
Fairness ==
  /\ \A w \in Worker : WF_vars(WorkerStep(w))
  /\ WF_vars(WaitForCleaning)
  /\ WF_vars(Runs(Main) /\ (Resume(Main) \/ Releases(Main))
             /\ UNCHANGED <<threadVars, objVars>>)

Spec == Init /\ [][Next]_vars /\ Fairness

-----------------------------------------------------------------------------
TypeOK ==
  /\ LockTypeOK
  /\ table \in [Handle -> Worker \union {NULL}]
  /\ state \in [Worker -> {"none", "starting", "running", "ended"}]
  /\ code \in [Worker -> Code \union {0}]
  /\ alive \subseteq Obj
  /\ m_hThreadHandle \in [Obj -> Handle \union {NULL}]
  /\ m_uThreadID \in [Obj -> Worker \union {NULL}]
  /\ cleaning \in Utils \union {NULL}
  /\ last \in [Obj -> Worker \union {NULL}]

(* An exit code is always that of the thread the object itself started     *)
(* last (CkRunnable.hpp:56-62, ThreadUtils.hpp:37-42), although handle     *)
(* values are closed, given out again and overwritten by other objects.    *)
ExitCodeHonest ==
  \A o \in alive :
    ExitCode(o) = IF last[o] = NULL THEN FAILED
                  ELSE IF state[last[o]] = "ended" THEN code[last[o]]
                  ELSE STILL_ACTIVE

(* When WaitForCleaning returns, the thread the object started last has    *)
(* ended (ThreadUtils.hpp:51, 99-108), whoever was given handle values     *)
(* meanwhile and whichever objects are destroyed or started again: what is *)
(* cleaned up is no running thread's.                                      *)
CleanedMeansEnded ==
  [][cleaning # NULL /\ cleaning' = NULL /\ last[cleaning] # NULL =>
       state'[last[cleaning]] = "ended"]_vars

(* Whether Main waits for a thread that waits for a lock of Main's. *)
WaitsForItself ==
  LET h == m_hThreadHandle[cleaning]
      w == table[h]
  IN  /\ h # NULL /\ table[h] # NULL
      /\ want[w] # NotBlocked /\ owner[want[w].lock] = Main

(* WaitForCleaning (ThreadUtils.hpp:99-108) returns, also when the thread  *)
(* it waits for has to wait for other threads to leave the lock, unless    *)
(* Main itself holds what the thread waits for.  (With one lock; threads   *)
(* that take two in different orders may wait for each other.)             *)
CleaningReturns == cleaning # NULL ~> (cleaning = NULL \/ WaitsForItself)
=============================================================================
