----------------------------- MODULE Processes ------------------------------
(***************************************************************************)
(* Several processes create one directory tree with                        *)
(* PathUtils::CreateMultiDirectory (PathUtils.cpp), each call under a      *)
(* SyncMutex they share by its name (Hpp/SyncLock.hpp), while others end   *)
(* them with ProcessUtils::KillProcess (ProcessUtils.cpp) at any step.     *)
(*                                                                         *)
(* A process locks by hand (ByHand), minding what Lock() returns, or with  *)
(* a SyncMutexGuard, which does not.  It calls CreateMultiDirectory until  *)
(* it has returned true.                                                   *)
(*                                                                         *)
(* A path is the sequence of the prefixes the loop comes to, those ending  *)
(* at a separator or at its end within the first MAX_PATH characters:      *)
(* <<1, 2>> for "a\b", <<1, 2, 2>> for "a\b\", <<1>> for "a" and also for  *)
(* "a\" with a name that goes on beyond MAX_PATH, <<>> for the empty path  *)
(* and for one longer name.  A prefix names the level of the one before it *)
(* or the next, or nothing (0): the empty one of "\a", <<0, 1>>, and one   *)
(* too long for the system, <<1, 0>>.                                      *)
(***************************************************************************)
EXTENDS Integers, Sequences

CONSTANTS Creator,   \* ids of the processes that create directories
          Killer,    \* ids of those that end them
          ByHand,    \* the creators that call Lock() and Unlock()
          Paths,     \* the paths given to CreateMultiDirectory
          Depth,     \* levels of the tree
          MaxRestarts, \* bound: processes started in the place of killed ones
          NULL

Process == Creator \union Killer

ASSUME ProcessesAssumption ==
  /\ Creator \intersect Killer = {}
  /\ ByHand \subseteq Creator
  /\ Depth \in Nat \ {0}
  /\ MaxRestarts \in Nat
  /\ Paths \subseteq Seq(0..Depth)
  /\ \A s \in Paths :
       /\ s # <<>> => s[1] <= 1
       /\ \A m, n \in 1..Len(s) : m < n /\ s[n] # 0 => s[m] <= s[n]
       /\ \A n \in 2..Len(s) : s[n] = 0 \/ s[n] \in 1..(s[n - 1] + 1)
  /\ NULL \notin Process

VARIABLES entry,      \* the file system: what there is at each level
          owner,      \* the named mutex: the process that owns it
          mutexValid, \* whether CreateMutexA succeeds in the process
          state,      \* of the process with each id
          restarts,   \* how many have been started anew
          pc, path, i, ret,   \* a creator's call
          kill, victim        \* a killer's call, and the handle it opened

createVars == <<pc, path, i, ret>>
killVars == <<kill, victim>>
system == <<mutexValid, state, restarts>>
vars == <<entry, owner, system, createVars, killVars>>

-----------------------------------------------------------------------------
Live(p) == state[p] \in {"running", "ending"}

Kinds == {"none", "dir", "file"}

(* Whether every prefix can be there. *)
Creatable(p) == path[p] # <<>> /\ \A n \in 1..Len(path[p]) : path[p][n] # 0

(* _access finds files and directories alike, and nothing at level 0.      *)
Exists(k) == k # 0 /\ entry[k] # "none"

(* _mkdir fails at level 0, on what exists and without a parent directory. *)
CanMake(k) == /\ k # 0 /\ entry[k] = "none"
              /\ k = 1 \/ entry[k - 1] = "dir"

Set(p, at, returns) == /\ pc' = [pc EXCEPT ![p] = at]
                       /\ ret' = [ret EXCEPT ![p] = returns]

(* CreateMultiDirectory comes to its first prefix; without one it returns  *)
(* true.                                                                   *)
Begun(p) ==
  IF path[p] = <<>>
  THEN Set(p, "created", "true") /\ UNCHANGED i
  ELSE Set(p, "access", "none") /\ i' = [i EXCEPT ![p] = 1]

(* Mutant: the loop runs one step further. *)
ContinueTooFar(p) ==
  IF i[p] > Len(path[p])
  THEN Set(p, "created", "true") /\ UNCHANGED i
  ELSE Set(p, "access", "none") /\ i' = [i EXCEPT ![p] = @ + 1]

(* On to the next prefix, or out of the loop. *)
Continue(p) ==
  IF i[p] = Len(path[p])
  THEN Set(p, "created", "true") /\ UNCHANGED i
  ELSE Set(p, "access", "none") /\ i' = [i EXCEPT ![p] = @ + 1]

Init ==
  /\ entry \in {[k \in 1..Depth |-> IF k < n THEN "dir"
                                    ELSE IF k = n THEN f ELSE "none"] :
                n \in 1..Depth, f \in Kinds}
  /\ owner = NULL
  /\ mutexValid \in [Creator -> BOOLEAN]
  /\ state = [p \in Process |-> "running"]
  /\ restarts = 0
  /\ pc = [p \in Creator |-> "idle"]
  /\ path = [p \in Creator |-> <<>>]
  /\ i = [p \in Creator |-> 0]
  /\ ret = [p \in Creator |-> "none"]
  /\ kill = [p \in Killer |-> "idle"]
  /\ victim = [p \in Killer |-> NULL]

(* A creator wants a directory, and if its path can be made it calls until *)
(* it has it.  It declares its guard or calls Lock().                      *)
Call(p, s) ==
  /\ Live(p) /\ pc[p] = "idle"
  /\ path[p] = <<>> \/ (path[p] = s /\ Creatable(p))
  /\ pc' = [pc EXCEPT ![p] = "lock"]
  /\ path' = [path EXCEPT ![p] = s]
  /\ ret' = [ret EXCEPT ![p] = "none"]
  /\ UNCHANGED <<entry, owner, system, i, killVars>>

(* Mutant: the wait succeeds although another process owns the mutex.      *)
LockWithoutWait(p) ==
  /\ Live(p) /\ pc[p] = "lock" /\ mutexValid[p]
  /\ owner' = p
  /\ Begun(p)
  /\ UNCHANGED <<entry, system, path, killVars>>

(* SyncMutex::Lock of a valid mutex: free, or abandoned by a process that  *)
(* was killed.                                                             *)
Lock(p) ==
  /\ Live(p) /\ pc[p] = "lock" /\ mutexValid[p]
  /\ owner = NULL
  /\ owner' = p
  /\ Begun(p)
  /\ UNCHANGED <<entry, system, path, killVars>>

(* Lock returns false at once; the guard goes on, the caller by hand does  *)
(* not.                                                                    *)
LockInvalid(p) ==
  /\ Live(p) /\ pc[p] = "lock" /\ ~mutexValid[p]
  /\ IF p \in ByHand
     THEN Set(p, "idle", "not locked") /\ UNCHANGED i
     ELSE Begun(p)
  /\ UNCHANGED <<entry, owner, system, path, killVars>>

(* Lock with a timeout that expires; it is called again. *)
LockTimesOut(p) ==
  /\ Live(p) /\ pc[p] = "lock" /\ p \in ByHand /\ mutexValid[p]
  /\ owner # NULL
  /\ Set(p, "idle", "not locked")
  /\ UNCHANGED <<entry, owner, system, path, i, killVars>>

(* CreateMultiDirectory: _access on the next prefix. *)
Access(p) ==
  /\ Live(p) /\ pc[p] = "access"
  /\ IF Exists(path[p][i[p]]) THEN Continue(p)
     ELSE Set(p, "mkdir", "none") /\ UNCHANGED i
  /\ UNCHANGED <<entry, owner, system, path, killVars>>

(* Mutant: _mkdir's result is not looked at. *)
MkdirUnchecked(p) ==
  LET k == path[p][i[p]] IN
  /\ Live(p) /\ pc[p] = "mkdir"
  /\ entry' = IF CanMake(k) THEN [entry EXCEPT ![k] = "dir"] ELSE entry
  /\ Continue(p)
  /\ UNCHANGED <<owner, system, path, killVars>>

(* _mkdir on it. *)
Mkdir(p) ==
  LET k == path[p][i[p]] IN
  /\ Live(p) /\ pc[p] = "mkdir"
  /\ IF CanMake(k)
     THEN Continue(p) /\ entry' = [entry EXCEPT ![k] = "dir"]
     ELSE Set(p, "created", "false") /\ UNCHANGED <<i, entry>>
  /\ UNCHANGED <<owner, system, path, killVars>>

(* Mutant: the mutex is kept. *)
KeepLocked(p) ==
  /\ Live(p) /\ pc[p] = "created"
  /\ pc' = [pc EXCEPT ![p] = IF ret[p] = "true" THEN "done" ELSE "idle"]
  /\ UNCHANGED <<entry, owner, system, path, i, ret, killVars>>

(* The guard's scope ends, or Unlock(): ReleaseMutex if there is one.      *)
Unlock(p) ==
  /\ Live(p) /\ pc[p] = "created"
  /\ owner' = IF mutexValid[p] /\ owner = p THEN NULL ELSE owner
  /\ pc' = [pc EXCEPT ![p] = IF ret[p] = "true" THEN "done" ELSE "idle"]
  /\ UNCHANGED <<entry, system, path, i, ret, killVars>>

-----------------------------------------------------------------------------
(* KillProcess: OpenProcess, on whichever process has the id now; without  *)
(* one the call returns false.                                             *)
Open(p, q) ==
  /\ kill[p] = "idle" /\ p # q /\ Live(q)
  /\ kill' = [kill EXCEPT ![p] = "opened"]
  /\ victim' = [victim EXCEPT ![p] = q]
  /\ UNCHANGED <<entry, owner, system, createVars>>

(* The first TerminateProcess, whose result goes unused. *)
Terminate(p) ==
  /\ kill[p] = "opened"
  /\ kill' = [kill EXCEPT ![p] = "terminated"]
  /\ state' = [state EXCEPT ![victim[p]] = IF @ = "gone" THEN @ ELSE "ending"]
  /\ UNCHANGED <<entry, owner, mutexValid, restarts, createVars, victim>>

(* The second, on a process that is ending or gone, changes nothing and    *)
(* gives the call its result; the handle is closed.                        *)
TerminateAgain(p) ==
  /\ kill[p] = "terminated"
  /\ kill' = [kill EXCEPT ![p] = "idle"]
  /\ victim' = [victim EXCEPT ![p] = NULL]
  /\ UNCHANGED <<entry, owner, system, createVars>>

(* A terminated process is gone with what it was doing: the system         *)
(* releases the mutex it owned.                                            *)
Gone(p) ==
  /\ state[p] = "ending"
  /\ state' = [state EXCEPT ![p] = "gone"]
  /\ owner' = IF owner = p THEN NULL ELSE owner
  /\ pc' = [pc EXCEPT ![p] = "idle"]
  /\ path' = [path EXCEPT ![p] = <<>>]
  /\ i' = [i EXCEPT ![p] = 0]
  /\ ret' = [ret EXCEPT ![p] = "none"]
  /\ UNCHANGED <<entry, mutexValid, restarts, killVars>>

(* A new process gets the id, once nobody has a handle on the old one.     *)
Restart(p) ==
  /\ state[p] = "gone" /\ restarts < MaxRestarts
  /\ \A q \in Killer : victim[q] # p
  /\ state' = [state EXCEPT ![p] = "running"]
  /\ restarts' = restarts + 1
  /\ UNCHANGED <<entry, owner, mutexValid, createVars, killVars>>

CreateStep(p) == \/ \E s \in Paths : Call(p, s)
                 \/ Lock(p)
                 \/ LockInvalid(p)
                 \/ LockTimesOut(p)
                 \/ Access(p)
                 \/ Mkdir(p)
                 \/ Unlock(p)

KillStep(p) == \/ \E q \in Process : Open(p, q)
               \/ Terminate(p)
               \/ TerminateAgain(p)

Next == \/ \E p \in Creator : CreateStep(p) \/ Gone(p) \/ Restart(p)
        \/ \E p \in Killer : KillStep(p)

(* The scheduler runs every process that is not killed; a mutex serves its *)
(* waiters in turn.                                                        *)
Fairness == \A p \in Creator : WF_vars(CreateStep(p)) /\ SF_vars(Lock(p))

Spec == Init /\ [][Next]_vars /\ Fairness

-----------------------------------------------------------------------------
Last(p) == path[p][Len(path[p])]

FileInTheWay(p) == \E k \in 1..(Last(p) - 1) : entry[k] = "file"

TypeOK ==
  /\ entry \in [1..Depth -> Kinds]
  /\ owner \in Creator \union {NULL}
  /\ mutexValid \in [Creator -> BOOLEAN]
  /\ state \in [Process -> {"running", "ending", "gone"}]
  /\ restarts \in 0..MaxRestarts
  /\ pc \in [Creator -> {"idle", "lock", "access", "mkdir", "created", "done"}]
  /\ path \in [Creator -> Paths \union {<<>>}]
  /\ i \in [Creator -> Nat]
  /\ \A p \in Creator : /\ i[p] <= Len(path[p])
                        /\ pc[p] \in {"access", "mkdir"} => i[p] > 0
  /\ ret \in [Creator -> {"none", "not locked", "true", "false"}]
  /\ kill \in [Killer -> {"idle", "opened", "terminated"}]
  /\ victim \in [Killer -> Process \union {NULL}]

(* When CreateMultiDirectory returns true (PathUtils.cpp:309-330) there is *)
(* something at the level of the last prefix it came to and a directory at *)
(* every level above, whoever made them and whatever was killed in         *)
(* between.  That prefix is the whole path if it has at most MAX_PATH      *)
(* characters; of a longer one true promises no more, and of the empty one *)
(* nothing (312-315).                                                      *)
TrueMeansLevels ==
  \A p \in Creator : ret[p] = "true" /\ path[p] # <<>> =>
    /\ Exists(Last(p))
    /\ \A k \in 1..(Last(p) - 1) : entry[k] = "dir"

(* Under the mutex a call does not fail because of another one: when the   *)
(* guards' mutex is valid (SyncLock.hpp:57-60, 115), only a path that      *)
(* begins with a separator, is too long or leads through a file does, also *)
(* after a process that owned the mutex was killed with its tree half      *)
(* made.                                                                   *)
GuardedSucceeds ==
  (\A p \in Creator \ ByHand : mutexValid[p]) =>
    \A p \in Creator : ret[p] = "false" => ~Creatable(p) \/ FileInTheWay(p)

(* With or without a mutex, a process that calls again succeeds in the end *)
(* unless it is killed: a call that fails has found that another process   *)
(* made a level (PathUtils.cpp:323-326).  (Lock() with a timeout may also  *)
(* give up again and again because another process, with a file in the way *)
(* of its path, calls for ever.)                                           *)
RetrySucceeds ==
  \A p \in Creator :
    Creatable(p) /\ ~FileInTheWay(p) /\ (mutexValid[p] \/ p \notin ByHand)
      ~> \/ pc[p] = "done" \/ state[p] # "running"
         \/ p \in ByHand /\ \E q \in Creator \ {p} :
                               path[q] # <<>> /\ FileInTheWay(q)
=============================================================================
