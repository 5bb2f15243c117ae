------------------------------- MODULE Sqlite -------------------------------
(***************************************************************************)
(* Sqlite3Ex and Sqlite3Ex_Reader (Sqlite3Ex.cpp, Sqlite3Ex.h): several    *)
(* processes, each with one wrapper object and one reader, that use one    *)
(* database file.  The file and its locks are SQLite's: a shared lock to   *)
(* read, a reserved one to write, a pending one once a commit waits for    *)
(* the readers to leave.  A statement that meets a lock fails at once,     *)
(* since the wrapper installs no busy handler.                             *)
(*                                                                         *)
(* The wrapper keeps nothing but the pointer m_pSqlite (`handle'): Open    *)
(* overwrites it and the destructor does not close it, so that a           *)
(* connection may live on, locks and all, with nobody to close it.         *)
(* Processes in Careless do that; the others close what they opened.  All  *)
(* reset the reader before a query and read until Read answers false.      *)
(***************************************************************************)
EXTENDS Naturals, Sequences

CONSTANTS Process,    \* the processes, one Sqlite3Ex each
          Careless,   \* those that reopen and drop objects without Close
          Handle,     \* numbers of the connections at once (bounds the leaks)
          Readers,    \* those that query with ExecuteReader and a reader
          MaxRows,    \* MaxRows[p]: how many rows p stores
          NULL

ASSUME SqliteAssumption ==
  /\ Careless \subseteq Process
  /\ Readers \subseteq Process
  /\ MaxRows \in [Process -> Nat]
  /\ Handle \subseteq Nat
  /\ NULL \notin Process \cup Handle

VARIABLES table,    \* the rows committed to the file
          db,       \* SQLite's connections
          handle,   \* m_pSqlite of each wrapper
          result,   \* m_vecResult of each reader
          index,    \* m_nCurIndex + 1: the rows Read has gone past
          todo,     \* rows a running query has yet to hand out, NULL: none runs
          caller    \* what each process was told

vars == <<table, db, handle, result, index, todo, caller>>

Held == {"shared", "reserved", "pending"}
Row == Process \X Nat      \* <<p, n>>: the n-th row p stores

Closed == [opener |-> NULL, usable |-> FALSE, tx |-> FALSE,
           lock |-> "none", work |-> <<>>]

(* A process remembers across its restarts only the rows it knows stored.  *)
Reborn(p) == [caller[p] EXCEPT !.inTx = FALSE, !.pending = <<>>, !.answer = <<>>,
                               !.got = <<>>, !.answered = FALSE, !.end = FALSE]

-----------------------------------------------------------------------------
(* SQLite's locks. *)

Others(h, locks) == \E g \in Handle \ {h} : db[g].lock \in locks
CanRead(h) == db[h].lock \in Held \/ ~Others(h, {"pending"})
CanWrite(h) == CanRead(h) /\ ~Others(h, {"reserved", "pending"})
CanCommit(h) == db[h].lock \in {"reserved", "pending"} => ~Others(h, Held)
View(h) == table \o db[h].work

Usable(p) == handle[p] # NULL /\ db[handle[p]].usable
Idle(p) == todo[p] = NULL
Fresh(p) == result[p] = <<>> /\ ~caller[p].end

-----------------------------------------------------------------------------
Init ==
  /\ table = <<>>
  /\ db = [h \in Handle |-> Closed]
  /\ handle = [p \in Process |-> NULL]
  /\ result = [p \in Process |-> <<>>]
  /\ index = [p \in Process |-> 0]
  /\ todo = [p \in Process |-> NULL]
  /\ caller = [p \in Process |->
                 [inTx |-> FALSE, pending |-> <<>>, kept |-> <<>>,
                  answer |-> <<>>, got |-> <<>>, answered |-> FALSE, end |-> FALSE]]

(* Open overwrites m_pSqlite; when sqlite3_open16 fails the pointer is a   *)
(* connection that executes nothing but still has to be closed.            *)
Open(p) ==
  /\ Idle(p)
  /\ p \in Careless \/ handle[p] = NULL
  /\ \E h \in Handle, ok \in BOOLEAN :
       /\ db[h] = Closed
       /\ \A g \in Handle : g < h => db[g] # Closed    \* they are alike: the first
       /\ db' = [db EXCEPT ![h].opener = p, ![h].usable = ok]
       /\ handle' = [handle EXCEPT ![p] = h]
  /\ UNCHANGED <<table, result, index, todo, caller>>

(* Mutant: Close forgets the connection instead of closing it. *)
CloseForgets(p) ==
  /\ Idle(p)
  /\ handle[p] # NULL
  /\ handle' = [handle EXCEPT ![p] = NULL]
  /\ caller' = [caller EXCEPT ![p].inTx = FALSE, ![p].pending = <<>>]
  /\ UNCHANGED <<table, db, result, index, todo>>

(* Mutant: Close leaves m_pSqlite as it was. *)
CloseKeepsPointer(p) ==
  /\ Idle(p)
  /\ handle[p] # NULL
  /\ db' = [db EXCEPT ![handle[p]] = Closed]
  /\ caller' = [caller EXCEPT ![p].inTx = FALSE, ![p].pending = <<>>]
  /\ UNCHANGED <<table, handle, result, index, todo>>

(* sqlite3_close rolls an open transaction back and drops its locks; no    *)
(* statement is left unfinished between calls, so it succeeds.             *)
Close(p) ==
  /\ Idle(p)
  /\ handle[p] # NULL
  /\ db' = [db EXCEPT ![handle[p]] = Closed]
  /\ handle' = [handle EXCEPT ![p] = NULL]
  /\ caller' = [caller EXCEPT ![p].inTx = FALSE, ![p].pending = <<>>]
  /\ UNCHANGED <<table, result, index, todo>>

(* The destructor of Sqlite3Ex, which closes nothing, and the constructor  *)
(* of the next object; the reader's destructor and constructor with them.  *)
Renew(p) ==
  /\ Idle(p)
  /\ p \in Careless \/ handle[p] = NULL
  /\ handle' = [handle EXCEPT ![p] = NULL]
  /\ result' = [result EXCEPT ![p] = <<>>]
  /\ index' = [index EXCEPT ![p] = 0]
  /\ caller' = [caller EXCEPT ![p] = Reborn(p)]
  /\ UNCHANGED <<table, db, todo>>

(* Mutant: BegTransAction answers true and begins nothing. *)
BegNothing(p) ==
  /\ Idle(p)
  /\ Usable(p) /\ ~db[handle[p]].tx
  /\ caller' = [caller EXCEPT ![p].inTx = TRUE]
  /\ UNCHANGED <<table, db, handle, result, index, todo>>

BegTransAction(p) ==
  /\ Idle(p)
  /\ Usable(p) /\ ~db[handle[p]].tx
  /\ db' = [db EXCEPT ![handle[p]].tx = TRUE]
  /\ caller' = [caller EXCEPT ![p].inTx = TRUE]
  /\ UNCHANGED <<table, handle, result, index, todo>>

(* EndTransAction answers false while readers are in the way of the commit, *)
(* and leaves the transaction open with the pending lock; true otherwise.   *)
CommitAnswersTrue(p, h) ==
  /\ table' = View(h)
  /\ db' = [db EXCEPT ![h].tx = FALSE, ![h].lock = "none", ![h].work = <<>>]
  /\ caller' = [caller EXCEPT ![p].kept = @ \o caller[p].pending,
                              ![p].inTx = FALSE, ![p].pending = <<>>]

CommitAnswersFalse(h) ==
  /\ db' = [db EXCEPT ![h].lock = "pending"]
  /\ UNCHANGED <<table, caller>>

(* Mutant: EndTransAction ignores the answer of sqlite3_exec. *)
EndTransActionUnchecked(p) ==
  /\ Idle(p)
  /\ Usable(p) /\ db[handle[p]].tx
  /\ LET h == handle[p]
     IN IF CanCommit(h)
        THEN CommitAnswersTrue(p, h)
        ELSE /\ db' = [db EXCEPT ![h].lock = "pending"]
             /\ caller' = [caller EXCEPT ![p].kept = @ \o caller[p].pending,
                                         ![p].inTx = FALSE, ![p].pending = <<>>]
             /\ UNCHANGED table
  /\ UNCHANGED <<handle, result, index, todo>>

EndTransAction(p) ==
  /\ Idle(p)
  /\ Usable(p) /\ db[handle[p]].tx
  /\ LET h == handle[p]
     IN IF CanCommit(h) THEN CommitAnswersTrue(p, h) ELSE CommitAnswersFalse(h)
  /\ UNCHANGED <<handle, result, index, todo>>

(* ExecuteNonQuery with an INSERT that answers true.  In a transaction it  *)
(* takes the reserved lock; outside one it is committed at once, for which *)
(* no other connection may hold a lock.  Otherwise it answers false and    *)
(* nothing has changed.                                                    *)
ExecuteNonQuery(p) ==
  LET h == handle[p]
      n == Len(caller[p].kept) + Len(caller[p].pending) + 1
      row == <<p, n>>
  IN /\ Idle(p)
     /\ Usable(p) /\ n <= MaxRows[p]
     /\ \/ /\ db[h].tx /\ CanWrite(h)
           /\ db' = [db EXCEPT ![h].work = Append(@, row),
                               ![h].lock = IF @ = "pending" THEN @ ELSE "reserved"]
           /\ caller' = [caller EXCEPT ![p].pending = Append(@, row)]
           /\ UNCHANGED table
        \/ /\ ~db[h].tx /\ ~Others(h, Held)
           /\ table' = Append(table, row)
           /\ caller' = [caller EXCEPT ![p].kept = Append(@, row)]
           /\ UNCHANGED db
     /\ UNCHANGED <<handle, result, index, todo>>

-----------------------------------------------------------------------------
(* Exec of a query in a transaction: the shared lock stays.  Outside one it *)
(* leaves nothing behind.                                                   *)
Exec(p) ==
  /\ Idle(p)
  /\ Usable(p) /\ db[handle[p]].tx /\ CanRead(handle[p])
  /\ db' = [db EXCEPT ![handle[p]].lock = IF @ = "none" THEN "shared" ELSE @]
  /\ UNCHANGED <<table, handle, result, index, todo, caller>>

(* ExecuteReader: sqlite3_exec runs the callback once for each row while    *)
(* the other processes go on.                                               *)
ExecuteReader(p) ==
  LET h == handle[p]
  IN /\ Idle(p) /\ p \in Readers
     /\ Usable(p) /\ CanRead(h)
     /\ Fresh(p)
     /\ todo' = [todo EXCEPT ![p] = View(h)]
     /\ db' = [db EXCEPT ![h].lock = IF @ = "none" THEN "shared" ELSE @]
     /\ caller' = [caller EXCEPT ![p].answer = View(h), ![p].answered = FALSE]
     /\ UNCHANGED <<table, handle, result, index>>

CallBack(p) ==
  /\ ~Idle(p) /\ todo[p] # <<>>
  /\ result' = [result EXCEPT ![p] = Append(@, Head(todo[p]))]
  /\ todo' = [todo EXCEPT ![p] = Tail(@)]
  /\ UNCHANGED <<table, db, handle, index, caller>>

(* The statement is over: outside a transaction its lock goes with it. *)
QueryReturns(p, ok) ==
  /\ ~Idle(p)
  /\ todo' = [todo EXCEPT ![p] = NULL]
  /\ db' = [db EXCEPT ![handle[p]].lock = IF db[handle[p]].tx THEN @ ELSE "none"]
  /\ caller' = [caller EXCEPT ![p].answered = ok]
  /\ UNCHANGED <<table, handle, result, index>>

QueryDone(p) == todo[p] = <<>> /\ QueryReturns(p, TRUE)
QueryFails(p) == QueryReturns(p, FALSE)   \* the rows handed out stay in m_vecResult

(* Mutant: Reset empties m_vecResult and leaves m_nCurIndex. *)
ResetRowsOnly(p) ==
  /\ Idle(p)
  /\ result' = [result EXCEPT ![p] = <<>>]
  /\ caller' = [caller EXCEPT ![p].got = <<>>, ![p].answer = <<>>,
                              ![p].answered = FALSE, ![p].end = FALSE]
  /\ UNCHANGED <<table, db, handle, index, todo>>

Reset(p) ==
  /\ Idle(p)
  /\ result' = [result EXCEPT ![p] = <<>>]
  /\ index' = [index EXCEPT ![p] = 0]
  /\ caller' = [caller EXCEPT ![p].got = <<>>, ![p].answer = <<>>,
                              ![p].answered = FALSE, ![p].end = FALSE]
  /\ UNCHANGED <<table, db, handle, todo>>

(* The loop `while (reader.Read())', which nothing outside the process can *)
(* see: Read answers false for the first index past the end, and stays     *)
(* there, so that rows a later query appends without Reset are passed over. *)
Read(p) ==
  LET size == Len(result[p])
  IN /\ Idle(p)
     /\ ~caller[p].end
     /\ caller' = [caller EXCEPT ![p].got = SubSeq(result[p], index[p] + 1, size),
                                 ![p].end = TRUE]
     /\ index' = [index EXCEPT ![p] = IF @ < size THEN size + 1 ELSE @ + 1]
     /\ UNCHANGED <<table, db, handle, result, todo>>

(* The process ends or is killed, a query perhaps running: the system      *)
(* closes every connection it ever opened.                                 *)
Dies(p) ==
  /\ db' = [h \in Handle |-> IF db[h].opener = p THEN Closed ELSE db[h]]
  /\ handle' = [handle EXCEPT ![p] = NULL]
  /\ result' = [result EXCEPT ![p] = <<>>]
  /\ index' = [index EXCEPT ![p] = 0]
  /\ todo' = [todo EXCEPT ![p] = NULL]
  /\ caller' = [caller EXCEPT ![p] = Reborn(p)]
  /\ UNCHANGED table

-----------------------------------------------------------------------------
Next == \E p \in Process :
  \/ Open(p) \/ Close(p) \/ Renew(p) \/ Dies(p)
  \/ BegTransAction(p) \/ EndTransAction(p) \/ ExecuteNonQuery(p)
  \/ Exec(p) \/ ExecuteReader(p) \/ CallBack(p) \/ QueryDone(p) \/ QueryFails(p)
  \/ Reset(p) \/ Read(p)

(* A process ends each transaction it began, again when the answer is      *)
(* false; sqlite3_exec goes through its rows.                              *)
Fairness == \A p \in Process : /\ SF_vars(EndTransAction(p))
                               /\ WF_vars(CallBack(p))
                               /\ WF_vars(QueryDone(p))

Spec == Init /\ [][Next]_vars /\ Fairness

-----------------------------------------------------------------------------
Writing(h) == db[h].lock \in {"reserved", "pending"}

(* The variables have their types; m_pSqlite is never a connection that    *)
(* has been closed, and at most one connection may write the file.         *)
TypeOK ==
  /\ table \in Seq(Row)
  /\ db \in [Handle -> [opener : Process \cup {NULL}, usable : BOOLEAN, tx : BOOLEAN,
                        lock : Held \cup {"none"}, work : Seq(Row)]]
  /\ handle \in [Process -> Handle \cup {NULL}]
  /\ result \in [Process -> Seq(Row)]
  /\ index \in [Process -> Nat]
  /\ DOMAIN todo = Process
  /\ \A p \in Process : todo[p] = NULL \/ todo[p] \in Seq(Row)
  /\ caller \in [Process -> [inTx : BOOLEAN, pending : Seq(Row), kept : Seq(Row),
                             answer : Seq(Row), got : Seq(Row),
                             answered : BOOLEAN, end : BOOLEAN]]
  /\ \A p \in Process : handle[p] # NULL => db[handle[p]].opener = p
  /\ \A g, h \in Handle : Writing(g) /\ Writing(h) => g = h

Rows(s) == {s[k] : k \in 1..Len(s)}
RowsOf(p) == {row \in Rows(table) : row[1] = p}
InOrder(s, p) == \A a, b \in 1..Len(s) :
  a < b /\ s[a][1] = p /\ s[b][1] = p => s[a][2] < s[b][2]

(* What EndTransAction and ExecuteNonQuery told a process is what the file *)
(* holds: the rows of a careful process in the file are exactly those it   *)
(* was told are stored, each once and in the order it stored them, through *)
(* failed commits, other writers, Close in the middle of a transaction and *)
(* the end of the process.                                                 *)
ToldIsStored == \A p \in Process \ Careless :
  RowsOf(p) = Rows(caller[p].kept) /\ InOrder(table, p)

(* Between a BegTransAction and an EndTransAction that answered true the    *)
(* file gains none of a careful process's rows, and then all of them in    *)
(* one step; outside, one row at a time.                                   *)
TransactionsWhole ==
  [][\A p \in Process \ Careless :
       RowsOf(p)' # RowsOf(p) =>
         IF caller[p].inTx
         THEN RowsOf(p)' = RowsOf(p) \cup Rows(caller[p].pending) /\ ~caller'[p].inTx
         ELSE \E row \in RowsOf(p)' : RowsOf(p)' = RowsOf(p) \cup {row}]_vars

(* A careful process that reads until Read answers false has got the rows  *)
(* the query was answered with, each once and in order: nothing is left    *)
(* over from a query that failed half-way, and no other process's commit   *)
(* slips in while the callback runs.                                       *)
ReadsTheAnswer == \A p \in Process \ Careless :
  caller[p].answered /\ caller[p].end => caller[p].got = caller[p].answer

(* Nobody blocks the file for ever: a connection's lock goes, unless a     *)
(* connection that a careless process lost sight of still holds one.       *)
Lost(h) == /\ db[h].opener \in Careless
           /\ handle[db[h].opener] # h
           /\ db[h].lock \in Held
LocksReleased == \A h \in Handle :
  db[h].lock \in Held ~> db[h].lock = "none" \/ \E g \in Handle : Lost(g)
=============================================================================
