# A TLA+ verification of CUCKOO0615_Utils

CUCKOO0615_Utils is a library of Win32 utility classes in C++ (sources under
`src/CUCKOO0615_Utils/`): sockets, threads, locks, pipes, a ring buffer, an
animated-picture control, wrappers of SQLite and ADO, paths, strings, GIF. The
classes are used by one process, several of them by several threads at once.
This directory models their behaviour in TLA+, checks it with TLC on small
instances and proves every safety property of those runs with TLAPS for all
parameters.

## 1. Inventory

| Component | State | Operations | What is hard |
|---|---|---|---|
| `CkRingBuffer` (Hpp/CkRingBuffer.hpp) | array, write and read position, remaining size | Push/Pop/Copy/SkipBytes, ClearBuffer | wrap-around, full against empty |
| `CPictureEx` (PictureEx.cpp) | frames, current frame, thread handle, exit flag and event, saved background | Load, UnLoad, Draw, Stop, destructor; animation thread | two threads share every field without a lock; handles are closed by both; waits that expire |
| `SingleSocket`, `SocketUtils` set-up, `SystemUtils::GetLocalIP` | Winsock start-up count, `m_bIsInited`s, sockets | Init, CreateSocket, StartListening, Reset, Release, port scan | one process-wide count for three kinds of users; the last cleanup closes every socket; one release cleans up twice |
| `SingleSocket`, `SocketUtils` transfer | socket options, message buffers | SendToServer, RecvFromServer, SendToSocket, RecvFromSocket, SetSocketTimeOut | partial sends and receives, timeouts, peers that close or reset |
| `SyncLock`, `SyncMutex`, guards (Hpp/SyncLock.hpp) | critical section, mutex handle | Lock, Unlock, guards | recursion, failed and abandoned waits, copied guards |
| `CkRunnable`, `ThreadUtils` (Hpp) | thread id and handle, arguments | Start/Run, GetExitCode, WaitForCleaning | arguments read by the new thread later; overwritten and stale handles |
| `CkPipeMsgUtils` | pipe handle | Create, WaitForClient, read/write | a client that connects before it is waited for |
| `MutexUtils` and others (WinAPI_Utils) | named mutexes, mapping files | Create, Exist, Release | probing a mutex keeps it alive |
| `ProcessUtils` | none | list, kill, path by id | processes end between snapshot and use |
| `Sqlite3Ex`, `CkAdoSQL` | connection, transaction level, cursor, rows | Open, Close, Exec, transactions, record sets | failed opens, nested transactions, rows that accumulate |
| `PathUtils` | the file system | list, create, normalise | other processes create and delete in between; paths longer than MAX_PATH |
| `StringUtils`, `DigitUtils`, `GifUtils` | none | pure algorithms; GIF block walk, LZW | bounds, empty and self-containing arguments, code widths |
| `FileUtils`, `TimeUtils`, `ProfileUtils`, `GuidUtils`, `PtrUtils`, `TinyXmlEx` | none | single queries | nothing a model would add to |
| LuaJIT, zlib, Sqlite3, TinyXml, zip.cpp, md5.cpp | | | vendored; not modelled |

Interactions: the socket classes meet in Winsock's start-up count; the picture
control's two threads meet in the object's fields and in Windows' handle table;
locks and thread wrappers are offered to the application, whose threads meet in
the locks and its objects in the handle table; processes meet in named mutexes,
directory trees and database files. The rest is called by the application and
calls the system.

`PROJECT.json` lists the hazards with their lines and the properties that
cover them.

## 2. Modules

| Module | Models | Source |
|---|---|---|
| `ByteFifo` | what the ring promises: a bounded FIFO of bytes | abstract |
| `RingBuffer` | the ring as written | Hpp/CkRingBuffer.hpp |
| `RingBufferProofs` | theorems on `RingBuffer` | |
| `PictureAnimation` | the control's window thread and animation thread | PictureEx.cpp |
| `PictureProofs` | theorems on `PictureAnimation` | |
| `Winsock` | the users of Winsock in one process | SingleSocket.cpp, SocketUtils.cpp, SystemUtils.cpp |
| `WinsockProofs` | theorems on `Winsock` | |
| `SocketTransfer` | whole messages over one connection | SingleSocket.cpp, SocketUtils.cpp |
| `TransferProofs` | theorems on `SocketTransfer` | |
| `MutualExclusion` | what a lock promises | abstract |
| `SyncLock` | critical sections locked by hand and by guards | Hpp/SyncLock.hpp |
| `SyncLockProofs` | lemmas on what each step keeps of the locks | |
| `Threads` | the thread wrappers, started by threads that use `SyncLock` | Hpp/CkRunnable.hpp, Hpp/ThreadUtils.hpp |
| `ThreadsProofs` | theorems on `Threads` with its locks | |
| `Processes` | processes that create directories under a named mutex and are killed | PathUtils.cpp, Hpp/SyncLock.hpp, ProcessUtils.cpp |
| `ProcessesProofs` | theorems on `Processes` | |
| `Sqlite` | processes that share a database file | Sqlite3Ex.cpp, Sqlite3Ex.h |
| `SqliteProofs` | theorems on `Sqlite` | |
| `GifLzw` | the LZW decoder on what an encoder sends | GifUtils.cpp |
| `MC...` | the instances TLC checks | |

### RingBuffer
Variables have the fields' names; `call`, `pDescBuff` and `nRet` are the last call with its arguments and what it
gave its caller, so that the refinement compares them too. One action per call. A caller's buffer is at least as long as
the call is told, as the interface requires. `size_t` to `int` conversions are
kept (`ToInt`): with a capacity above `IntMax` a request can come back negative,
which is why `RingBufferAssumption` bounds the capacity. `Fifo == INSTANCE
ByteFifo WITH fifo <- Contents` is the refinement: `Contents` reads the array
from `m_nReadPos` for `GetUsageSize` bytes.

### PictureAnimation
One action is one access to a shared field or one system call. `pc` says where
an animation thread stands (`ThreadAnimation`, lines 795-952), `gui` where the
window's thread stands in `Stop` (954-970), `UnLoad` (416-461), `Load` and
`Draw`. `handle` is Windows' handle table; a closed value may be given out again.
A frame is its disposal method, 3 (background saved and restored) or 0. The
wait on the exit event may end at any time, as its delay may be any length.
`UnLoad` after its `Stop` and `Load` after its `UnLoad` are one action each:
they run when no thread animates, or the model has already met the violation it looks for.
The constants `DrawTwice`, `DrawAtOnce` and `WaitExpires` widen what the
application and the scheduler do.

### Winsock
The system's part is `startups`, `open`, `listening`: WSAStartup counts,
WSACleanup at zero closes every socket and a socket value may return.
One action per call, since the library's calls of one thread do not overlap;
GetLocalIP runs on a thread of its own in two actions, and
CreateServerSocket_TCP_Ex tries one port per action. A call that fails and
changes nothing is a stutter and is left out. The application uses the sockets
of `SocketUtils` between its Init and its Release, as the header asks (lines 86
and 95), and may call Release at any time, while others have Winsock started
too. ReleaseSocketUtils calls WSACleanup twice (line 29) when the first
succeeds; the second one is charged to another user, if there is one. `Missing`
counts the start-ups lost in this way: `OnlyReleaseTakes` says that nothing else
takes one, and `HeldSocketsOpen` and `ScanHonest` speak of the states in which
none is lost. `Careful` (only in `MCWinsockRelease.cfg`) keeps Release to a
SocketUtils that is initialised, so that the violation found there is the
one of an application that pairs its calls.

### SocketTransfer
A byte is its number, so that order, loss and repetition are visible. The two
loops are `SendSome/SendDone/SendError` and
`RecvSome/RecvZero/RecvDone/RecvError`; the methods of SingleSocket and the
static functions of both classes share them and differ in the option they set
(`nTimeOut`). A thread sends while another receives. The peer reads, sends,
closes or resets at any time. `asked` and `expected` are what the application
has handed over and been given so far.

### SyncLock and Threads
`owner` and `depth` are the critical section; `guards[t]` are the guard objects
in the nested scopes of a thread (their `m_pLock`), `manual[t]` the calls of
`Lock` not yet undone, `want[t]` the call a thread is blocked in. A guard may be
declared on a null lock, any guard in scope may be unlocked early
(`ManualUnlock`), and the innermost scope ends first (`DestroyGuard`).
`SyncLock` refines `MutualExclusion`, in which recursion is not visible.

`Threads` EXTENDS it: the thread Main owns `CkRunnable` and `ThreadUtils`
objects (`m_hThreadHandle` and `m_uThreadID` are their fields) and
starts threads through them; `table` is the handle table, in which a closed
value may be given out again, so that a stale handle would name another
thread. `Begin` is the thread's entry. `WaitForCleaning` is two actions, the
call and what follows the wait. `Construct` after `Destroy` is another object in
the same place. `last` is history the properties compare with: the thread an
object started and has not cleaned up after. Main calls the objects in any
order, with or without a lock in hand, and destroys them whether or not their
threads have begun. Main may so wait for a thread that waits for a
lock of Main's (`WaitsForItself`), which `CleaningReturns` excepts. The argument of a
thread is left out: see section 5.

### Processes
A path is the sequence of prefixes `CreateMultiDirectory` stops at within the
first MAX_PATH characters, each naming a level of the tree or nothing (0: the
empty prefix before a leading separator, or a name too long for the system). A
path that is longer than MAX_PATH loses its last name (lines 314 and 315): the call then
returns true without having made it, which is why `TrueMeansLevels` speaks of the last
prefix the loop came to. The empty path, and a single longer name, have no prefix and
give true at once. One action per system call: `_access` (`Access`), `_mkdir`
(`Mkdir`), the wait on the mutex (`Lock`, `LockInvalid`, `LockTimesOut`) and its
release. The processes in `ByHand` look at what `Lock` returns, the others use a
guard, which does not (line 115) and goes on without a mutex if `CreateMutexA`
has failed in their process. `KillProcess` is `Open`, `Terminate` and
`TerminateAgain` (the code calls TerminateProcess twice, lines 53 and 54). A process
that has been terminated may still take steps until it is `Gone`; Windows then gives
its mutex to the next waiter, as abandoned, and its id may go to a new process.

### Sqlite
Each process has one `Sqlite3Ex` (`handle` is its `m_pSqlite`) and one reader
(`result`, `index`). `db` and `table` are SQLite's connections, with their
locks, and the file. A statement is one step, except a query with a reader,
whose callback runs once per row (`ExecuteReader`, `CallBack`, then `QueryDone` or
`QueryFails`). Statements that answer false and change nothing are stutters and
left out; the one that answers false and does change something is the commit
that leaves its transaction open with a pending lock (`CommitAnswersFalse`).
Processes in `Careless` open again without `Close` and drop objects, whose
destructor closes nothing. `caller` is what each process was told, against
which the properties compare the file.

### GifLzw
The state has the decoder's variables; one step is one round of its main loop.
The stack of a round is computed by the recursive function `Expand`; only its
first entry (`bottom`) outlives the round. The input is what an encoder that
follows the format makes of a picture, which the model also defines.

Operators whose comment starts with "Mutant" are plausible mistakes in the
code; they are not used by the specifications and serve to confirm that the
properties notice them.

## 3. Runs

| Run | Shows | Bounds |
|---|---|---|
| `MCRingBuffer.cfg` | the counters agree and the ring refines the FIFO | capacity 3, two byte values, `IntMax` 3, requests of up to 4 bytes: every position wraps in every way |
| `MCPicture.cfg` | no frame is read after release, a null handle means quiet, IsPlaying is accurate, the background is never lost, the exit request is held, frames in order; Stop returns, every frame is shown | one thread at a time, two handle values (so that they recur), GIFs of 0 to 3 frames with every mix of disposals |
| `MCPictureRedraw.cfg` | violation of `FrameAccessValid`: Draw between the old thread's CloseHandle and its clearing of `m_hThread` | two threads, two frames |
| `MCPictureTwice.cfg` | violation of `OneAnimation`: Draw starts a second thread | two threads, two frames |
| `MCWinsock.cfg` | no start-up is left over, only Release's second cleanup takes one from a user, held sockets stay open and unshared until it does, the port scan ends and reports honestly | two objects, two socket values, ports 0..3 with ranges up to 2, Release at any time (`Careful = FALSE`) |
| `MCWinsockRelease.cfg` | violation of `InitedMeansStarted`: after an Init and a Release of SocketUtils Winsock is shut down under an initialised object | as above, Release only after an Init (`Careful = TRUE`) |
| `MCTransfer.cfg` | what is sent and received is the message, whole and in order, whenever a call returns true; calls with a timeout return | four bytes each way, messages of 0 to 2 bytes, room for two |
| `MCTransferClosed.cfg` | violation of `TimeOutEndsRecv`: recv's 0 after a close is retried for ever | two bytes each way |
| `MCThreads.cfg` | a lock excludes however guards nest; exit codes belong to the thread the object started; WaitForCleaning returns, and only after that thread has ended | Main and two threads it starts, one object of each class, two handle values, one lock; one thread enters it twice, the other and Main once |
| `MCProcesses.cfg` | true from CreateMultiDirectory means the levels are there; under a valid mutex no call fails because of another process, also after a kill; who calls again succeeds | two creators (one locks by hand, one by guard), one killer, one restart, two levels with a file or nothing in the way; paths: one name, two with a trailing separator, one with a leading separator, one whose second prefix is too long, none |
| `MCSqlite.cfg` | what a process was told is what is stored, transactions are whole, a reader gets its query's rows, locks go | a careful process of two rows and a careless one of one row, two connections |
| `MCGifLzw.cfg` | violation of `DecodesPicture`: the last pixel of a code that is not in the table yet is wrong | pictures of 8 pixels of two colours, plain and interlaced |

The bounds are enough because the code's loops look at one element at a time:
two positions wrap independently at capacity 3; three frames give a first, a
middle and a last; two pieces of a message give a partial call with a
continuation, and two messages a boundary. What needs a larger number (two
threads on one object) has it in the run about it.

In `MCThreads` two threads and two handle values let a value return to another
object while a third party still runs, a thread that enters the lock
twice nests a guard in a guard, and the other two let the thread Main waits for wait
in turn for the other thread, or for Main; more threads or a second lock add no new pair
(two locks add lock-order deadlocks, which are the application's). In
`MCProcesses` two levels are one that another process may make and one whose
parent it may lack; the path of one name is also what is left of a longer one
that was cut. In `MCSqlite` two rows in one transaction can be torn apart
and two rows in a query can be separated by a commit; two connections are enough for
every pair of locks to meet. Eight pixels are the least in which an LZW
string of three characters is repeated and a code grows by a bit, and a column
of eight rows the least that goes through all four interlaced passes.

`ScanMax < MaxPort` in the Winsock runs: with `usPortMax = 65535` and every port
taken the `u_short` index never passes the end (SocketUtils.cpp line 93) and
`ScanReturns` fails.

Deadlock checking is off in the picture runs (the object's life ends at
"destroyed"), in `MCThreads`, where Main may wait for a thread that waits for
Main's lock, in `MCTransferClosed`, where only the liveness is of interest, in
`MCProcesses`, where in the end everything is created or killed, and in
`MCGifLzw`, where decoding ends.

### Fairness
`PictureAnimation`: weak fairness of each thread's next step and of the window's
thread inside a call; none for calling anything. Every such step is a field
access or a bounded wait, and Windows schedules both threads. `Winsock`: a port
scan goes on. `SocketTransfer`: a call's next step is taken when it can be,
and a wait with a timeout ends; nothing is asked of the peer. `Threads`: started
threads run and their functions return, Main comes to the end of the scopes
it opens, a wait that is through goes on; that a blocked thread gets the
critical section is not assumed beyond weak fairness. `Processes`: every process that is not
killed runs, and a mutex serves its waiters in turn (strong fairness of `Lock`);
nothing is asked of the killer. `Sqlite`: sqlite3_exec goes through its rows, and
a process ends the transactions it began, trying again when the answer is false.

## 4. Proofs

`RingBufferProofs` proves, for every capacity, byte set and width of `int` that
satisfy `RingBufferAssumption`:

* `TypeCorrect`: `Spec => []TypeOK`.
* `CountersAgree`: `Spec => []PositionsAgree`. The inductive invariant is the
  two together: the range of a position after a call follows only from the
  number of bytes moved being at most the remaining or the used size, and that
  the next call's copy starts at the right place follows from the agreement.
* `ImplementsFifo`: `Spec => FifoSpec`. Lemmas say what taking and pushing
  bytes do to `Contents` in terms of positions; then one lemma per operation
  shows that it simulates the FIFO's.

`PictureProofs` proves every safety property of the picture run for any number
of threads, handle values and frames, under `Cautious`: Draw is called only when
the last thread has returned, and Stop's wait suffices. Each part is
needed: with any one of `DrawTwice`, `DrawAtOnce` and `WaitExpires` true, TLC
finds `FrameAccessValid` violated (`MCPictureRedraw.cfg` is one such case). Three
inductive invariants, each proved relative to the first:

* `HandleInv`: at most one thread lives; while it needs its handle, `m_hThread`
  holds it; and it needs none wherever Stop, UnLoad and Load count on its
  absence (`Quiet`). The properties alone are not inductive: that Stop waited
  for the right thread follows from whose handle it read. From it:
  `NullHandleQuiet`, `ExitHeld`.
* `FrameInv`: where the current frame stands relative to the one last shown at
  each place of the loop, and whose background the DC holds. From it:
  `FramesValid`, `NoLeak`, `InOrder`.
* `PlayInv`: m_bIsPlaying against the place of the thread. From it:
  `PlayingAccurate`; all together give `TypeCorrect`.

`TransferProofs` proves all safety properties of `SocketTransfer` for messages
and connections of any size, with no assumption. The two directions share no
variable, and each has an invariant of its own:

* `SendInv`: what the connection has taken of the current message is the end of
  the stream, byte for byte from the message's start, and the connection has
  taken at most what was asked before plus `Offset`. The bound is needed because
  a new call may follow one that failed half-way: the stream then has a gap, but
  only between messages. From it: `SentPrefix`, `SendTrue`.
* `RecvInv`: what was taken off the connection and not yet given to the
  application is the start of the buffer. From it: `NeverBeyond`, `RecvTrue`.

`ProcessesProofs` proves, for any number of creators, killers, levels and for
all paths of prefixes that name the level of the one before, the next one or nothing
(`ProcessesAssumption`, what the loop over the separators makes of a string):

* `LevelInv` (types, a tree without gaps, a call leaves every prefix it has
  come past): from it `TypeCorrect` and `TrueMeans`. Of the levels
  above the last one a call knows nothing but that the tree has no gaps.
* `GuardInv`: if every guard's mutex is valid, the call between its Lock and its
  Unlock owns the mutex, so that nobody else makes the prefix it has not found.
  What a step leaves alone for the others (`OnlyOf`) is proved once; a process
  that is killed gives its mutex away only when it takes no more steps. From
  it: `Guarded`.

`WinsockProofs` proves, for any application, any finite set of objects and any
sockets and ports below `MaxPort` (no theorem assumes `Careful`):

* `CountInv`: there are never more start-ups than initialised objects, GetLocalIP and
  SocketUtils account for. From it: `Accounted`, and step by step, with what each
  cleanup takes away, `OnlyReleaseTakesOne`.
* `HeldInv`: while none is missing, the objects' sockets are open, apart from one
  another's and from those of SocketUtils and the scan. That a cleanup
  closes nobody's socket follows from the count: at the last one there is no user
  left. From it: `HeldOpen`.
* `ScanInv`: the scan's index is at most one past the range. From it:
  `ScanTellsApart`.

`SyncLockProofs` has the lemmas on the locks: every step of every thread keeps
`LockInv` and is, in `MutualExclusion`, an entry, an exit or nothing. The core of
`LockInv` is `GuardsAccounted`: a section has been entered as often as its owner has
guards and Lock calls to undo. It is a sum of a number and a cardinality, so most
lemmas count the guards of a scope that begins, ends or is unlocked early.
`ThreadsProofs` composes them with the objects, for any number of threads, objects
and handle values:

* `LocksAccounted` and `ImplementsMutex`, from `LockInv`.
* `ObjInv`: a handle in an object is open, nobody else's, and names the thread the
  object started last. That it is nobody else's is what makes a handle
  value that returns harmless. From it `TypeCorrect`, `CodesHonest` and
  `CleanedEnded`: the handle waited for is that thread's.

`SqliteProofs` proves, for any number of processes, careless ones among them,
connections and rows:

* `TypeCorrect`, which includes that an m_pSqlite that is not null is a
  connection of the process's own, and that one connection writes.
* `ReadInv`: the rows stored by the callback followed by those yet to come are the
  answer, and a reader that has not read to the end is at the start. From it:
  `ReadsWhatWasAnswered`.
* `StoredInv`: in the file a careful process's rows are those it was told of;
  its connection has the pending rows and a transaction exactly when the process
  believes so; the uncommitted rows of any connection are its opener's, so that the
  commits of others add nothing to them; and rows are numbered upwards. From it:
  `WhatIsToldIsStored` and `TransactionsAreWhole`.

So every invariant and every action property of the passing runs is a theorem, and so
are the two refinements. What stays with TLC, and why:

* Liveness (`StopReturns`, `EveryFrameShown`, `ScanReturns`, `TimedSendReturns`,
  `TimedRecvReturns`, `CleaningReturns`, `RetrySucceeds`, `LocksReleased`): it needs
  fairness and ENABLED, which this version of the prover does not support.
* `GifLzw`: what `Expand` computes is an induction over the table of strings.
* The runs that expect a violation: a counterexample is their whole content.

The proofs hold for the models: fairness plays no part in them, and where
`PictureProofs` assumes `Cautious`, so does the run.

## 5. What is not modelled

* Painting (the contents of DCs, and a PrepareDC that fails half-way), GIF parsing
  inside Load (the result is any vector of frames) and in `LoadGifFile`, error texts, address lookups.
* `SocketUtils` called by several threads at once: `m_bIsInited` is tested and set
  without a lock, and the model takes the application to initialise from one thread.
* Destruction of a `SyncLock` or a `SyncMutex`, and copies of guards.
* The argument of a thread: `CkRunnable` hands the new thread a pointer to itself and
  `SetThreadArgs` or a destruction before the thread has read it races with that
  read (CkRunnable.hpp line 86); nothing in the repository says what should come of it.
* What `_access` reads when a prefix has exactly MAX_PATH characters: `szTmp` then has no
  NUL of its own (PathUtils.cpp line 322).
* `CkPipeMsgUtils`, `WinAPI_Utils`, `CkAdoSQL`: every method wraps one call, and
  the state is Windows' or ADO's; a model would be a model of those.
* `GetFullPathsInDir`, the process snapshots and the other queries: they change
  nothing, and what they return is what the system says.
* `StringUtils`, `DigitUtils`, `TinyXmlEx`, the functions of `PathUtils` on the text of a
  path: sequential functions without state, which unit tests reach.
* In `Sqlite`: a NULL column, which the callback (Sqlite3Ex.cpp line 127) gives to
  `std::string` and which ends the program; statements other than an insertion and a query.

Of the tree's 105,000 lines about 91,000 are vendored (LuaJIT, sqlite3.h, zip,
TinyXml, MD5, zlib) and about 3,300 are the one-call methods of `CkAdoSQL`.
The modules cover the part that has state and concurrency of its own, which
is a small share of the tree.

## 6. Plan

What remains for the proofs:

1. An abstract specification of a connection that carries whole messages, with
   `SocketTransfer` shown to implement it; `SendInv` and `RecvInv` are the
   invariants it needs.
2. Which part of `Cautious` each theorem of `PictureProofs` needs: `NoLeak` and
   `InOrder` may hold with a Draw that follows at once.
3. Type correctness of `GifLzw`, without its recursive function.
