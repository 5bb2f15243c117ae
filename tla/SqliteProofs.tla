---------------------------- MODULE SqliteProofs -----------------------------
(***************************************************************************)
(* Proofs about the processes that share a database file, for any number   *)
(* of processes, connections and rows: what a careful process was told is  *)
(* what is stored, its transactions are whole, and a reader gets the rows  *)
(* of its query.                                                           *)
(***************************************************************************)
EXTENDS Sqlite, TLAPS

Connection == [opener : Process \cup {NULL}, usable : BOOLEAN, tx : BOOLEAN,
               lock : Held \cup {"none"}, work : Seq(Row)]
Memory == [inTx : BOOLEAN, pending : Seq(Row), kept : Seq(Row),
           answer : Seq(Row), got : Seq(Row), answered : BOOLEAN, end : BOOLEAN]

(* A step of the process p. *)
StepOf(p) ==
  \/ Open(p) \/ Close(p) \/ Renew(p) \/ Dies(p)
  \/ BegTransAction(p) \/ EndTransAction(p) \/ ExecuteNonQuery(p)
  \/ Exec(p) \/ ExecuteReader(p) \/ CallBack(p) \/ QueryDone(p) \/ QueryFails(p)
  \/ Reset(p) \/ Read(p)

LEMMA NextIsStep == [Next]_vars <=> (\E p \in Process : StepOf(p)) \/ UNCHANGED vars
BY DEF Next, StepOf

-----------------------------------------------------------------------------
(* Types *)

DataTypes ==
  /\ table \in Seq(Row)
  /\ result \in [Process -> Seq(Row)]
  /\ index \in [Process -> Nat]
  /\ DOMAIN todo = Process
  /\ \A p \in Process : todo[p] = NULL \/ todo[p] \in Seq(Row)
  /\ caller \in [Process -> Memory]

ConnTypes ==
  /\ db \in [Handle -> Connection]
  /\ handle \in [Process -> Handle \cup {NULL}]

(* The connection of a process is its own, and one connection writes. *)
OwnOne ==
  /\ \A p \in Process : handle[p] # NULL => db[handle[p]].opener = p
  /\ \A g, h \in Handle : Writing(g) /\ Writing(h) => g = h

LEMMA TypeParts == TypeOK <=> DataTypes /\ ConnTypes /\ OwnOne
BY DEF TypeOK, DataTypes, ConnTypes, OwnOne, Connection, Memory

LEMMA ClosedType == Closed \in Connection
BY DEF Closed, Connection

LEMMA RebornType ==
  ASSUME NEW p \in Process, caller \in [Process -> Memory]
  PROVE  /\ Reborn(p) \in Memory
         /\ Reborn(p).kept = caller[p].kept
         /\ Reborn(p).pending = <<>> /\ Reborn(p).answer = <<>>
         /\ Reborn(p).got = <<>>
         /\ ~Reborn(p).inTx /\ ~Reborn(p).answered /\ ~Reborn(p).end
<1>1. caller[p] \in Memory /\ <<>> \in Seq(Row)
  OBVIOUS
<1> QED BY <1>1 DEF Reborn, Memory

LEMMA LockType ==
  ASSUME db \in [Handle -> Connection], NEW h, NEW l \in Held \cup {"none"},
         db' = [db EXCEPT ![h].lock = l]
  PROVE  db' \in [Handle -> Connection]
BY DEF Connection

LEMMA LockIsOne ==
  ASSUME db \in [Handle -> Connection], NEW h \in Handle
  PROVE  db[h].lock \in Held \cup {"none"}
BY DEF Connection

(* The number of the next row that p stores. *)
NewNumber(p) == Len(caller[p].kept) + Len(caller[p].pending) + 1

LEMMA NewNumberType ==
  ASSUME DataTypes, NEW p \in Process
  PROVE  NewNumber(p) \in Nat /\ <<p, NewNumber(p)>> \in Row
<1>1. caller[p].kept \in Seq(Row) /\ caller[p].pending \in Seq(Row)
  BY DEF DataTypes, Memory
<1>2. Len(caller[p].kept) \in Nat /\ Len(caller[p].pending) \in Nat
  BY <1>1
<1>3. PICK a \in Nat, b \in Nat :
        a = Len(caller[p].kept) /\ b = Len(caller[p].pending)
  BY <1>2
<1>4. NewNumber(p) = a + b + 1
  BY <1>3 DEF NewNumber
<1> QED BY <1>4 DEF Row

(* What each step does to the connections: it touches only those that the  *)
(* process p has, one that was closed, or, at its end, those it opened.    *)
LEMMA ConnStep ==
  ASSUME ConnTypes, OwnOne, DataTypes, NEW p \in Process, StepOf(p)
  PROVE  /\ ConnTypes'
         /\ \A q \in Process \ {p} : handle'[q] = handle[q]
         /\ \A h \in Handle : db'[h] # db[h] => db[h].opener \in {p, NULL}
<1>0. /\ db \in [Handle -> Connection] /\ Closed \in Connection
      /\ handle \in [Process -> Handle \cup {NULL}]
      /\ Closed.opener = NULL /\ NULL \notin Handle \cup Process
  BY ClosedType, SqliteAssumption DEF ConnTypes, Closed
<1>o. handle[p] # NULL => handle[p] \in Handle /\ db[handle[p]].opener = p
  BY <1>0 DEF OwnOne
<1>1. CASE Open(p)
  <2>1. PICK h \in Handle, ok \in BOOLEAN :
          /\ db[h] = Closed
          /\ db' = [db EXCEPT ![h].opener = p, ![h].usable = ok]
          /\ handle' = [handle EXCEPT ![p] = h]
    BY <1>1 DEF Open
  <2>2. db' \in [Handle -> Connection]
    BY <1>0, <2>1 DEF Connection
  <2> QED BY <1>0, <2>1, <2>2 DEF ConnTypes
<1>2. CASE Close(p)
  BY <1>0, <1>o, <1>2 DEF Close, ConnTypes
<1>3. CASE Renew(p)
  BY <1>0, <1>3 DEF Renew, ConnTypes
<1>4. CASE Dies(p)
  BY <1>0, <1>4 DEF Dies, ConnTypes
<1>5. CASE BegTransAction(p)
  <2>1. db' \in [Handle -> Connection]
    BY <1>0, <1>5 DEF BegTransAction, Connection
  <2> QED BY <1>0, <1>o, <1>5, <2>1 DEF BegTransAction, ConnTypes, Usable
<1>6. CASE EndTransAction(p)
  <2>1. db' \in [Handle -> Connection]
    <3>1. CASE CommitAnswersFalse(handle[p])
      BY <1>0, <3>1, LockType DEF CommitAnswersFalse, Held
    <3>2. CASE CommitAnswersTrue(p, handle[p])
      <4>1. PICK c : c = [db[handle[p]] EXCEPT !.tx = FALSE, !.lock = "none",
                                               !.work = <<>>]
        OBVIOUS
      <4>2. db[handle[p]] \in Connection /\ <<>> \in Seq(Row)
        BY <1>0, <1>o, <1>6 DEF EndTransAction, Usable
      <4>3. c \in Connection
        BY <4>1, <4>2 DEF Connection
      <4>4. db' = [db EXCEPT ![handle[p]] = c]
        BY <3>2, <4>1 DEF CommitAnswersTrue
      <4> QED BY <1>0, <4>3, <4>4
    <3> QED BY <1>6, <3>1, <3>2 DEF EndTransAction
  <2>2. \A h \in Handle \ {handle[p]} : db'[h] = db[h]
    BY <1>0, <1>6 DEF EndTransAction, CommitAnswersTrue, CommitAnswersFalse
  <2> QED BY <1>0, <1>o, <1>6, <2>1, <2>2 DEF EndTransAction, ConnTypes, Usable
<1>7. CASE ExecuteNonQuery(p)
  <2>0. handle[p] \in Handle /\ handle' = handle
    BY <1>o, <1>7 DEF ExecuteNonQuery, Usable
  <2>1. CASE UNCHANGED db
    BY <1>0, <2>0, <2>1 DEF ConnTypes
  <2>2. CASE db' # db
    <3>1. PICK row \in Row :
            db' = [db EXCEPT ![handle[p]].work = Append(@, row),
                             ![handle[p]].lock = IF @ = "pending" THEN @ ELSE "reserved"]
      <4>1. <<p, NewNumber(p)>> \in Row
        BY NewNumberType
      <4> QED BY <1>7, <2>2, <4>1 DEF ExecuteNonQuery, NewNumber
    <3>2. PICK l : l = IF db[handle[p]].lock = "pending" THEN db[handle[p]].lock
                       ELSE "reserved"
      OBVIOUS
    <3>3. PICK work : work = Append(db[handle[p]].work, row)
      OBVIOUS
    <3>4. l \in Held \cup {"none"} /\ work \in Seq(Row)
      BY <1>0, <2>0, <3>2, <3>3, LockIsOne DEF Held, Connection
    <3>5. db' = [db EXCEPT ![handle[p]].work = work, ![handle[p]].lock = l]
      BY <1>0, <2>0, <3>1, <3>2, <3>3 DEF Connection
    <3>6. db' \in [Handle -> Connection]
      BY <1>0, <3>4, <3>5 DEF Connection
    <3> QED BY <1>0, <1>o, <2>0, <3>5, <3>6 DEF ConnTypes
  <2> QED BY <2>1, <2>2
<1>8. CASE Exec(p) \/ ExecuteReader(p)
  <2>0. db' = [db EXCEPT ![handle[p]].lock = IF @ = "none" THEN "shared" ELSE @]
    BY <1>8 DEF Exec, ExecuteReader
  <2>a. PICK l : l = IF db[handle[p]].lock = "none" THEN "shared"
                     ELSE db[handle[p]].lock
    OBVIOUS
  <2>b. l \in Held \cup {"none"}
    BY <1>0, <1>o, <1>8, <2>a, LockIsOne DEF Exec, ExecuteReader, Usable, Held
  <2>1. db' \in [Handle -> Connection]
    BY <1>0, <2>0, <2>a, <2>b, LockType
  <2> QED BY <1>0, <1>o, <1>8, <2>0, <2>1 DEF Exec, ExecuteReader, ConnTypes, Usable
<1>9. CASE QueryDone(p) \/ QueryFails(p)
  <2>0. /\ db' = [db EXCEPT ![handle[p]].lock =
                     IF db[handle[p]].tx THEN @ ELSE "none"]
        /\ handle' = handle
    BY <1>9 DEF QueryDone, QueryFails, QueryReturns
  <2>1. db' \in [Handle -> Connection]
    <3>1. CASE handle[p] = NULL
      BY <1>0, <2>0, <3>1
    <3>2. CASE handle[p] # NULL
      <4>1. PICK l : l = IF db[handle[p]].tx THEN db[handle[p]].lock ELSE "none"
        OBVIOUS
      <4>2. l \in Held \cup {"none"}
        BY <1>0, <1>o, <3>2, <4>1, LockIsOne
      <4> QED BY <1>0, <2>0, <4>1, <4>2, LockType
    <3> QED BY <3>1, <3>2
  <2> QED BY <1>0, <1>o, <2>0, <2>1 DEF ConnTypes
<1>10. CASE CallBack(p) \/ Reset(p) \/ Read(p)
  BY <1>0, <1>10 DEF CallBack, Reset, Read, ConnTypes
<1> QED BY <1>1, <1>2, <1>3, <1>4, <1>5, <1>6, <1>7, <1>8, <1>9, <1>10 DEF StepOf

(* What each step does to the data. *)
LEMMA DataStep ==
  ASSUME ConnTypes, DataTypes, NEW p \in Process, StepOf(p)
  PROVE  /\ DataTypes'
         /\ \A q \in Process \ {p} :
              /\ caller'[q] = caller[q] /\ result'[q] = result[q]
              /\ index'[q] = index[q] /\ todo'[q] = todo[q]
<1>0. /\ table \in Seq(Row) /\ result \in [Process -> Seq(Row)]
      /\ index \in [Process -> Nat] /\ caller \in [Process -> Memory]
      /\ DOMAIN todo = Process
      /\ \A q \in Process : todo[q] = NULL \/ todo[q] \in Seq(Row)
      /\ <<>> \in Seq(Row)
  BY DEF DataTypes
<1>v. handle[p] # NULL => View(handle[p]) \in Seq(Row)
  <2> HAVE handle[p] # NULL
  <2>1. db[handle[p]] \in Connection
    BY DEF ConnTypes
  <2> QED BY <1>0, <2>1 DEF View, Connection
<1>1. CASE Open(p)
  BY <1>0, <1>1 DEF Open, DataTypes
<1>2. CASE Close(p)
  <2>1. caller' \in [Process -> Memory]
    BY <1>0, <1>2 DEF Close, Memory
  <2> QED BY <1>0, <1>2, <2>1 DEF Close, DataTypes
<1>3. CASE Renew(p)
  <2>1. caller' \in [Process -> Memory]
    BY <1>0, <1>3, RebornType DEF Renew
  <2> QED BY <1>0, <1>3, <2>1 DEF Renew, DataTypes
<1>4. CASE Dies(p)
  <2>1. caller' \in [Process -> Memory]
    BY <1>0, <1>4, RebornType DEF Dies
  <2> QED BY <1>0, <1>4, <2>1 DEF Dies, DataTypes
<1>5. CASE BegTransAction(p)
  <2>1. caller' \in [Process -> Memory]
    BY <1>0, <1>5 DEF BegTransAction, Memory
  <2> QED BY <1>0, <1>5, <2>1 DEF BegTransAction, DataTypes
<1>6. CASE EndTransAction(p)
  <2>1. caller' \in [Process -> Memory]
    <3>1. CASE CommitAnswersTrue(p, handle[p])
      <4>1. PICK kept : kept = caller[p].kept \o caller[p].pending
        OBVIOUS
      <4>2. kept \in Seq(Row)
        BY <1>0, <4>1 DEF Memory
      <4>3. caller' = [caller EXCEPT ![p].kept = kept, ![p].inTx = FALSE,
                                     ![p].pending = <<>>]
        BY <1>0, <3>1, <4>1 DEF CommitAnswersTrue, Memory
      <4>4. PICK m : m = [caller[p] EXCEPT !.kept = kept, !.inTx = FALSE,
                                           !.pending = <<>>]
        OBVIOUS
      <4>5. caller[p] \in Memory
        BY <1>0
      <4>6. m \in Memory
        BY <1>0, <4>2, <4>4, <4>5 DEF Memory
      <4>7. caller' = [caller EXCEPT ![p] = m]
        BY <4>3, <4>4
      <4> QED BY <1>0, <4>6, <4>7
    <3>2. CASE CommitAnswersFalse(handle[p])
      BY <1>0, <3>2 DEF CommitAnswersFalse
    <3> QED BY <1>6, <3>1, <3>2 DEF EndTransAction
  <2>2. table' \in Seq(Row)
    BY <1>0, <1>v, <1>6 DEF EndTransAction, CommitAnswersTrue, CommitAnswersFalse, Usable
  <2>3. UNCHANGED <<result, index, todo>>
        /\ \A q \in Process \ {p} : caller'[q] = caller[q]
    BY <1>0, <1>6 DEF EndTransAction, CommitAnswersTrue, CommitAnswersFalse
  <2> QED BY <1>0, <2>1, <2>2, <2>3 DEF DataTypes
<1>7. CASE ExecuteNonQuery(p)
  <2>0. PICK row : row = <<p, NewNumber(p)>>
    OBVIOUS
  <2>1. row \in Row /\ UNCHANGED <<result, index, todo>>
    BY <1>7, <2>0, NewNumberType DEF ExecuteNonQuery
  <2>2. CASE /\ caller' = [caller EXCEPT ![p].pending = Append(@, row)]
             /\ UNCHANGED table
    <3>1. PICK pending : pending = Append(caller[p].pending, row)
      OBVIOUS
    <3>2. pending \in Seq(Row)
      BY <1>0, <2>1, <3>1 DEF Memory
    <3>3. caller' = [caller EXCEPT ![p].pending = pending]
      BY <1>0, <2>2, <3>1 DEF Memory
    <3>4. caller' \in [Process -> Memory]
      BY <1>0, <3>2, <3>3 DEF Memory
    <3> QED BY <1>0, <2>1, <2>2, <3>4 DEF DataTypes
  <2>3. CASE /\ table' = Append(table, row)
             /\ caller' = [caller EXCEPT ![p].kept = Append(@, row)]
    <3>1. PICK kept : kept = Append(caller[p].kept, row)
      OBVIOUS
    <3>2. kept \in Seq(Row) /\ table' \in Seq(Row)
      BY <1>0, <2>1, <2>3, <3>1 DEF Memory
    <3>3. caller' = [caller EXCEPT ![p].kept = kept]
      BY <1>0, <2>3, <3>1 DEF Memory
    <3>4. caller' \in [Process -> Memory]
      BY <1>0, <3>2, <3>3 DEF Memory
    <3> QED BY <1>0, <2>1, <2>3, <3>2, <3>4 DEF DataTypes
  <2> QED BY <1>7, <2>0, <2>2, <2>3 DEF ExecuteNonQuery, NewNumber
<1>8. CASE Exec(p)
  BY <1>0, <1>8 DEF Exec, DataTypes
<1>9. CASE ExecuteReader(p)
  <2>1. caller' \in [Process -> Memory]
    BY <1>0, <1>v, <1>9 DEF ExecuteReader, Usable, Memory
  <2> QED BY <1>0, <1>v, <1>9, <2>1 DEF ExecuteReader, Usable, DataTypes
<1>10. CASE CallBack(p)
  <2>1. todo[p] \in Seq(Row) /\ todo[p] # <<>>
    BY <1>0, <1>10 DEF CallBack, Idle
  <2>2. Head(todo[p]) \in Row /\ Tail(todo[p]) \in Seq(Row)
    BY <2>1
  <2>3. result' \in [Process -> Seq(Row)]
    BY <1>0, <1>10, <2>2 DEF CallBack
  <2> QED BY <1>0, <1>10, <2>2, <2>3 DEF CallBack, DataTypes
<1>11. CASE QueryDone(p) \/ QueryFails(p)
  <2>0. PICK ok \in BOOLEAN : QueryReturns(p, ok)
    BY <1>11 DEF QueryDone, QueryFails
  <2>1. caller' \in [Process -> Memory]
    BY <1>0, <2>0 DEF QueryReturns, Memory
  <2> QED BY <1>0, <2>0, <2>1 DEF QueryReturns, DataTypes
<1>12. CASE Reset(p)
  <2>1. caller' \in [Process -> Memory]
    <3>1. PICK m : m = [caller[p] EXCEPT !.got = <<>>, !.answer = <<>>,
                                         !.answered = FALSE, !.end = FALSE]
      OBVIOUS
    <3>2. caller[p] \in Memory
      BY <1>0
    <3>3. m \in Memory
      BY <1>0, <3>1, <3>2 DEF Memory
    <3>4. caller' = [caller EXCEPT ![p] = m]
      BY <1>12, <3>1 DEF Reset
    <3> QED BY <1>0, <3>3, <3>4
  <2> QED BY <1>0, <1>12, <2>1 DEF Reset, DataTypes
<1>13. CASE Read(p)
  <2>1. SubSeq(result[p], index[p] + 1, Len(result[p])) \in Seq(Row)
    BY <1>0
  <2>2. caller' \in [Process -> Memory]
    BY <1>0, <1>13, <2>1 DEF Read, Memory
  <2>3. index' \in [Process -> Nat]
    BY <1>0, <1>13 DEF Read
  <2> QED BY <1>0, <1>13, <2>2, <2>3 DEF Read, DataTypes
<1> QED BY <1>1, <1>2, <1>3, <1>4, <1>5, <1>6, <1>7, <1>8, <1>9, <1>10, <1>11,
           <1>12, <1>13 DEF StepOf

(* What each step does to the connection that p has. *)

LEMMA ConnFields ==
  ASSUME NEW c \in Connection, NEW b, NEW l, NEW w
  PROVE  /\ LET d == [c EXCEPT !.lock = l]
            IN /\ d.opener = c.opener /\ d.tx = c.tx
               /\ d.lock = l /\ d.work = c.work
         /\ LET d == [c EXCEPT !.tx = b]
            IN /\ d.opener = c.opener /\ d.tx = b
               /\ d.lock = c.lock /\ d.work = c.work
         /\ LET d == [c EXCEPT !.tx = b, !.lock = l, !.work = w]
            IN d.opener = c.opener /\ d.tx = b /\ d.lock = l /\ d.work = w
         /\ LET d == [c EXCEPT !.work = w, !.lock = l]
            IN d.opener = c.opener /\ d.tx = c.tx /\ d.lock = l /\ d.work = w
BY DEF Connection

LEMMA LockEffect ==
  ASSUME db \in [Handle -> Connection], NEW g, NEW l,
         db' = [db EXCEPT ![g].lock = l]
  PROVE  \A h \in Handle : /\ db'[h].opener = db[h].opener /\ db'[h].tx = db[h].tx
                           /\ db'[h].work = db[h].work
                           /\ db'[h].lock = IF h = g THEN l ELSE db[h].lock
<1> TAKE h \in Handle
<1>1. CASE h # g
  BY <1>1
<1>2. CASE h = g
  <2>1. db'[h] = [db[h] EXCEPT !.lock = l] /\ db[h] \in Connection
    BY <1>2
  <2> QED BY <1>2, <2>1, ConnFields
<1> QED BY <1>1, <1>2

LEMMA QueryEffect ==
  ASSUME db \in [Handle -> Connection], NEW p \in Process,
         QueryDone(p) \/ QueryFails(p)
  PROVE  \A h \in Handle : /\ db'[h].opener = db[h].opener /\ db'[h].tx = db[h].tx
                           /\ db'[h].work = db[h].work
                           /\ db'[h].lock \in {db[h].lock, "none"}
<1>1. PICK l : /\ l = IF db[handle[p]].tx THEN db[handle[p]].lock ELSE "none"
               /\ db' = [db EXCEPT ![handle[p]].lock = l]
  BY DEF QueryDone, QueryFails, QueryReturns
<1> QED BY <1>1, LockEffect

LEMMA BegEffect ==
  ASSUME db \in [Handle -> Connection], NEW p \in Process, BegTransAction(p)
  PROVE  \A h \in Handle : /\ db'[h].opener = db[h].opener
                           /\ db'[h].work = db[h].work
                           /\ db'[h].lock = db[h].lock
                           /\ h = handle[p] => db'[h].tx = TRUE
<1> TAKE h \in Handle
<1>1. CASE h # handle[p]
  BY <1>1 DEF BegTransAction
<1>2. CASE h = handle[p]
  <2>1. db'[h] = [db[h] EXCEPT !.tx = TRUE] /\ db[h] \in Connection
    BY <1>2 DEF BegTransAction
  <2> QED BY <1>2, <2>1, ConnFields
<1> QED BY <1>1, <1>2

LEMMA CommitEffect ==
  ASSUME db \in [Handle -> Connection], NEW p \in Process, NEW g \in Handle,
         CommitAnswersTrue(p, g)
  PROVE  /\ \A h \in Handle \ {g} : db'[h] = db[h]
         /\ db'[g].opener = db[g].opener
         /\ db'[g].tx = FALSE /\ db'[g].lock = "none" /\ db'[g].work = <<>>
<1>1. db'[g] = [db[g] EXCEPT !.tx = FALSE, !.lock = "none", !.work = <<>>]
      /\ db[g] \in Connection
  BY DEF CommitAnswersTrue
<1>2. \A h \in Handle \ {g} : db'[h] = db[h]
  BY DEF CommitAnswersTrue
<1> QED BY <1>1, <1>2, ConnFields

LEMMA InsertEffect ==
  ASSUME db \in [Handle -> Connection], NEW g \in Handle, NEW row,
         db' = [db EXCEPT ![g].work = Append(@, row),
                          ![g].lock = IF @ = "pending" THEN @ ELSE "reserved"]
  PROVE  /\ \A h \in Handle \ {g} : db'[h] = db[h]
         /\ db'[g].opener = db[g].opener /\ db'[g].tx = db[g].tx
         /\ db'[g].work = Append(db[g].work, row)
<1>1. PICK l : l = IF db[g].lock = "pending" THEN db[g].lock ELSE "reserved"
  OBVIOUS
<1>2. db'[g] = [db[g] EXCEPT !.work = Append(db[g].work, row), !.lock = l]
      /\ db[g] \in Connection
  BY <1>1 DEF Connection
<1>3. \A h \in Handle \ {g} : db'[h] = db[h]
  OBVIOUS
<1> QED BY <1>2, <1>3, ConnFields

(* The steps that open and close nothing leave each connection's opener. *)
LEMMA OpenerStays ==
  ASSUME ConnTypes, NEW p \in Process, StepOf(p),
         ~(Open(p) \/ Close(p) \/ Dies(p))
  PROVE  \A h \in Handle : db'[h].opener = db[h].opener
<1>0. db \in [Handle -> Connection] /\ handle \in [Process -> Handle \cup {NULL}]
  BY DEF ConnTypes
<1>1. CASE BegTransAction(p)
  BY <1>0, <1>1, BegEffect
<1>2. CASE EndTransAction(p)
  <2>1. handle[p] \in Handle
    BY <1>0, <1>2 DEF EndTransAction, Usable
  <2>2. CASE CommitAnswersTrue(p, handle[p])
    BY <1>0, <2>1, <2>2, CommitEffect
  <2>3. CASE CommitAnswersFalse(handle[p])
    BY <1>0, <2>3, LockEffect DEF CommitAnswersFalse
  <2> QED BY <1>2, <2>1, <2>2, <2>3 DEF EndTransAction
<1>3. CASE ExecuteNonQuery(p)
  <2>1. handle[p] \in Handle
    BY <1>0, <1>3 DEF ExecuteNonQuery, Usable
  <2>2. CASE db' # db
    <3>1. PICK row :
            db' = [db EXCEPT ![handle[p]].work = Append(@, row),
                             ![handle[p]].lock = IF @ = "pending" THEN @ ELSE "reserved"]
      BY <1>3, <2>2 DEF ExecuteNonQuery
    <3> QED BY <1>0, <2>1, <3>1, InsertEffect
  <2> QED BY <2>2
<1>4. CASE Exec(p) \/ ExecuteReader(p)
  <2>1. PICK l : db' = [db EXCEPT ![handle[p]].lock = l]
    BY <1>4 DEF Exec, ExecuteReader
  <2> QED BY <1>0, <2>1, LockEffect
<1>5. CASE QueryDone(p) \/ QueryFails(p)
  BY <1>0, <1>5, QueryEffect
<1>6. CASE CallBack(p) \/ Reset(p) \/ Read(p) \/ Renew(p)
  BY <1>6 DEF CallBack, Reset, Read, Renew
<1> QED BY <1>1, <1>2, <1>3, <1>4, <1>5, <1>6 DEF StepOf

LEMMA OwnKept ==
  ASSUME ConnTypes, OwnOne, DataTypes, NEW p \in Process, StepOf(p)
  PROVE  \A q \in Process : handle'[q] # NULL => db'[handle'[q]].opener = q
<1>1. NULL \notin Handle \cup Process /\ Closed.opener = NULL
  BY SqliteAssumption DEF Closed
<1>2. /\ db \in [Handle -> Connection]
      /\ handle \in [Process -> Handle \cup {NULL}]
      /\ \A q \in Process : handle[q] # NULL => db[handle[q]].opener = q
  BY DEF ConnTypes, OwnOne
<1>3. ASSUME NEW q \in Process \ {p}, handle'[q] # NULL
      PROVE  db'[handle'[q]].opener = q
  <2>1. handle[q] # NULL /\ handle'[q] = handle[q] /\ handle[q] \in Handle
    BY <1>2, <1>3, ConnStep
  <2>2. db[handle[q]].opener = q
    BY <1>2, <2>1
  <2> QED BY <1>1, <2>1, <2>2, ConnStep
<1>4. ASSUME handle'[p] # NULL PROVE db'[handle'[p]].opener = p
  <2>1. CASE Open(p)
    BY <1>2, <2>1 DEF Open, Connection
  <2>2. CASE Close(p) \/ Renew(p) \/ Dies(p)
    BY <1>2, <1>4, <2>2 DEF Close, Renew, Dies
  <2>3. CASE UNCHANGED handle /\ \A h \in Handle : db'[h].opener = db[h].opener
    BY <1>2, <1>4, <2>3
  <2>4. CASE ~(Open(p) \/ Close(p) \/ Renew(p) \/ Dies(p))
    <3>1. UNCHANGED handle
      BY <2>4 DEF StepOf, BegTransAction, EndTransAction, ExecuteNonQuery, Exec,
         ExecuteReader, CallBack, QueryDone, QueryFails, QueryReturns, Reset, Read
    <3> QED BY <1>2, <2>3, <2>4, <3>1, OpenerStays
  <2> QED BY <2>1, <2>2, <2>4
<1> QED BY <1>3, <1>4

(* Only a process that meets no writer begins to write. *)
LEMMA OneKept ==
  ASSUME ConnTypes, OwnOne, DataTypes, NEW p \in Process, StepOf(p)
  PROVE  \A g, h \in Handle : Writing(g)' /\ Writing(h)' => g = h
<1>1. /\ db \in [Handle -> Connection]
      /\ \A g, h \in Handle : Writing(g) /\ Writing(h) => g = h
  BY DEF ConnTypes, OwnOne
<1>2. CASE \A h \in Handle : Writing(h)' => Writing(h)
  BY <1>1, <1>2
<1>3. CASE /\ \A h \in Handle \ {handle[p]} : Writing(h)' <=> Writing(h)
           /\ \A h \in Handle \ {handle[p]} : ~Writing(h)
  BY <1>3
<1>4. CASE Open(p) \/ Close(p) \/ Renew(p) \/ Dies(p)
  <2>1. ~(Closed.lock \in {"reserved", "pending"})
    BY DEF Closed
  <2>2. CASE Close(p) \/ Renew(p) \/ Dies(p)
    BY <1>1, <1>2, <2>1, <2>2 DEF Close, Renew, Dies, Writing
  <2>3. CASE Open(p)
    <3>1. PICK h \in Handle, ok \in BOOLEAN :
            db' = [db EXCEPT ![h].opener = p, ![h].usable = ok]
      BY <2>3 DEF Open
    <3>2. db'[h].lock = db[h].lock
      BY <1>1, <3>1 DEF Connection
    <3>3. \A g \in Handle \ {h} : db'[g] = db[g]
      BY <1>1, <3>1
    <3> QED BY <1>2, <3>2, <3>3 DEF Writing
  <2> QED BY <1>4, <2>2, <2>3
<1>5. CASE BegTransAction(p) \/ Exec(p) \/ ExecuteReader(p)
  <2>1. CASE BegTransAction(p)
    BY <1>1, <1>2, <2>1, BegEffect DEF Writing
  <2>2. CASE Exec(p) \/ ExecuteReader(p)
    BY <1>1, <1>2, <2>2, LockEffect DEF Exec, ExecuteReader, Writing
  <2> QED BY <1>5, <2>1, <2>2
<1>6. CASE EndTransAction(p)
  <2>1. handle[p] \in Handle
    BY <1>6 DEF EndTransAction, Usable, ConnTypes
  <2>2. CASE CommitAnswersTrue(p, handle[p])
    BY <1>1, <1>2, <2>1, <2>2, CommitEffect DEF Writing
  <2>3. CASE ~CanCommit(handle[p]) /\ CommitAnswersFalse(handle[p])
    BY <1>1, <1>2, <2>1, <2>3, LockEffect DEF CommitAnswersFalse, CanCommit, Writing
  <2> QED BY <1>6, <2>2, <2>3 DEF EndTransAction
<1>7. CASE ExecuteNonQuery(p)
  <2>1. CASE UNCHANGED db
    BY <1>2, <2>1 DEF Writing
  <2>2. CASE ~UNCHANGED db
    <3>1. CanWrite(handle[p])
      BY <1>7, <2>2 DEF ExecuteNonQuery
    <3>2. \A h \in Handle \ {handle[p]} : db'[h] = db[h]
      BY <1>1, <1>7 DEF ExecuteNonQuery
    <3> QED BY <1>3, <3>1, <3>2 DEF CanWrite, Others, Writing
  <2> QED BY <2>1, <2>2
<1>8. CASE QueryDone(p) \/ QueryFails(p)
  BY <1>1, <1>2, <1>8, QueryEffect DEF Writing
<1>9. CASE CallBack(p) \/ Reset(p) \/ Read(p)
  BY <1>2, <1>9 DEF CallBack, Reset, Read, Writing
<1> QED BY <1>4, <1>5, <1>6, <1>7, <1>8, <1>9 DEF StepOf

LEMMA InitTypes == ASSUME Init PROVE TypeOK
<1>1. DataTypes
  <2>1. <<>> \in Seq(Row)
    OBVIOUS
  <2> QED BY <2>1 DEF Init, DataTypes, Memory
<1>2. ConnTypes
  BY ClosedType DEF Init, ConnTypes
<1>3. OwnOne
  BY DEF Init, OwnOne, Writing, Closed
<1> QED BY <1>1, <1>2, <1>3, TypeParts

LEMMA NextTypes == ASSUME TypeOK, NEW p \in Process, StepOf(p) PROVE TypeOK'
<1>1. DataTypes /\ ConnTypes /\ OwnOne
  BY TypeParts
<1>2. DataTypes' /\ ConnTypes' /\ OwnOne'
  BY <1>1, DataStep, ConnStep, OwnKept, OneKept DEF OwnOne
<1> QED BY <1>2, TypeParts, PTL

LEMMA TypeUnseen == ASSUME TypeOK, UNCHANGED vars PROVE TypeOK'
BY DEF TypeOK, vars, Writing

(* Every variable keeps its type, an open m_pSqlite is the process's own   *)
(* connection and at most one connection writes (Sqlite3Ex.cpp), whatever  *)
(* the careless processes do.                                              *)
THEOREM TypeCorrect == Spec => []TypeOK
<1>1. Init => TypeOK
  BY InitTypes
<1>2. TypeOK /\ [Next]_vars => TypeOK'
  BY NextIsStep, NextTypes, TypeUnseen
<1> QED BY <1>1, <1>2, PTL DEF Spec

-----------------------------------------------------------------------------
(* Queries *)

(* The rows that the callback has stored and those it has yet to store are *)
(* the answer; a reader that has not read to the end is at the start.      *)
Shown(p) ==
  /\ ~caller[p].end => index[p] = 0
  /\ todo[p] # NULL => /\ result[p] \o todo[p] = caller[p].answer
                       /\ ~caller[p].end /\ ~caller[p].answered
  /\ caller[p].answered => result[p] = caller[p].answer
  /\ caller[p].answered /\ caller[p].end => caller[p].got = caller[p].answer

ReadInv == TypeOK /\ \A p \in Process : Shown(p)

(* What Shown(p) is about. *)
Asked(p) == <<caller[p].end, caller[p].answered, caller[p].answer, caller[p].got,
              index[p], todo[p], result[p]>>

LEMMA ShownUnseen ==
  ASSUME NEW p, Shown(p), UNCHANGED Asked(p)
  PROVE  Shown(p)'
BY DEF Shown, Asked

(* What a call that stores rows changes in the memory of a process. *)
LEMMA StoredFields ==
  ASSUME NEW m \in Memory, NEW s, NEW b
  PROVE  /\ LET n == [m EXCEPT !.pending = s]
            IN /\ n.inTx = m.inTx /\ n.pending = s /\ n.kept = m.kept
               /\ n.answer = m.answer /\ n.got = m.got
               /\ n.answered = m.answered /\ n.end = m.end
         /\ LET n == [m EXCEPT !.kept = s]
            IN /\ n.inTx = m.inTx /\ n.pending = m.pending /\ n.kept = s
               /\ n.answer = m.answer /\ n.got = m.got
               /\ n.answered = m.answered /\ n.end = m.end
         /\ LET n == [m EXCEPT !.kept = s, !.inTx = FALSE, !.pending = <<>>]
            IN /\ n.inTx = FALSE /\ n.pending = <<>> /\ n.kept = s
               /\ n.answer = m.answer /\ n.got = m.got
               /\ n.answered = m.answered /\ n.end = m.end
         /\ LET n == [m EXCEPT !.inTx = b]
            IN n.inTx = b /\ n.pending = m.pending /\ n.kept = m.kept
         /\ LET n == [m EXCEPT !.inTx = FALSE, !.pending = <<>>]
            IN n.inTx = FALSE /\ n.pending = <<>> /\ n.kept = m.kept
BY DEF Memory

(* The calls that say nothing of a query. *)
LEMMA NotAsked ==
  ASSUME TypeOK, NEW p \in Process,
         \/ Open(p) \/ Close(p) \/ BegTransAction(p) \/ EndTransAction(p)
         \/ ExecuteNonQuery(p) \/ Exec(p)
  PROVE  UNCHANGED Asked(p)
<1>0. DataTypes /\ caller \in [Process -> Memory]
  BY TypeParts DEF DataTypes
<1>1. UNCHANGED <<index, todo, result>>
  BY DEF Open, Close, BegTransAction, EndTransAction, ExecuteNonQuery, Exec
<1>2. CASE Open(p) \/ Exec(p)
  BY <1>1, <1>2 DEF Open, Exec, Asked
<1>3. CASE Close(p)
  BY <1>0, <1>1, <1>3 DEF Close, Asked, Memory
<1>4. CASE BegTransAction(p)
  BY <1>0, <1>1, <1>4 DEF BegTransAction, Asked, Memory
<1>5. CASE EndTransAction(p)
  <2>1. CASE CommitAnswersTrue(p, handle[p])
    <3>1. PICK kept : kept = caller[p].kept \o caller[p].pending
      OBVIOUS
    <3>2. caller'[p] = [caller[p] EXCEPT !.kept = kept, !.inTx = FALSE,
                                         !.pending = <<>>]
      BY <1>0, <2>1, <3>1 DEF CommitAnswersTrue, Memory
    <3> QED BY <1>0, <1>1, <3>2, StoredFields DEF Asked
  <2>2. CASE CommitAnswersFalse(handle[p])
    BY <1>1, <2>2 DEF CommitAnswersFalse, Asked
  <2> QED BY <1>5, <2>1, <2>2 DEF EndTransAction
<1>6. CASE ExecuteNonQuery(p)
  <2>1. PICK row : row = <<p, NewNumber(p)>>
    OBVIOUS
  <2>2. CASE caller' = [caller EXCEPT ![p].pending = Append(@, row)]
    <3>1. PICK s : s = Append(caller[p].pending, row)
      OBVIOUS
    <3>2. caller'[p] = [caller[p] EXCEPT !.pending = s]
      BY <1>0, <2>2, <3>1 DEF Memory
    <3> QED BY <1>0, <1>1, <3>2, StoredFields DEF Asked
  <2>3. CASE caller' = [caller EXCEPT ![p].kept = Append(@, row)]
    <3>1. PICK s : s = Append(caller[p].kept, row)
      OBVIOUS
    <3>2. caller'[p] = [caller[p] EXCEPT !.kept = s]
      BY <1>0, <2>3, <3>1 DEF Memory
    <3> QED BY <1>0, <1>1, <3>2, StoredFields DEF Asked
  <2> QED BY <1>6, <2>1, <2>2, <2>3 DEF ExecuteNonQuery, NewNumber
<1> QED BY <1>2, <1>3, <1>4, <1>5, <1>6

LEMMA ConcatEmpty ==
  ASSUME NEW s \in Seq(Row)
  PROVE  <<>> \o s = s /\ s \o <<>> = s
OBVIOUS

LEMMA ConcatMoves ==
  ASSUME NEW s \in Seq(Row), NEW t \in Seq(Row), t # <<>>
  PROVE  Append(s, Head(t)) \o Tail(t) = s \o t
<1>1. /\ Head(t) = t[1] /\ Tail(t) \in Seq(Row) /\ Len(Tail(t)) = Len(t) - 1
      /\ Head(t) \in Row /\ Len(t) \in Nat \ {0} /\ Len(s) \in Nat
      /\ \A k \in 1..Len(t) - 1 : Tail(t)[k] = t[k + 1]
  OBVIOUS
<1>2. /\ Append(s, Head(t)) \in Seq(Row)
      /\ Len(Append(s, Head(t))) = Len(s) + 1
      /\ Append(s, Head(t))[Len(s) + 1] = t[1]
      /\ \A k \in 1..Len(s) : Append(s, Head(t))[k] = s[k]
  BY <1>1
<1>3. PICK a \in Seq(Row), b \in Seq(Row) : a = Append(s, Head(t)) /\ b = Tail(t)
  BY <1>1, <1>2
<1>4. PICK m \in Nat, n \in Nat \ {0} : m = Len(s) /\ n = Len(t)
  BY <1>1
<1>5. /\ a \o b \in Seq(Row) /\ s \o t \in Seq(Row)
      /\ Len(a \o b) = m + n /\ Len(s \o t) = m + n
  BY <1>1, <1>2, <1>3, <1>4
<1>6. ASSUME NEW k \in 1..(m + n) PROVE (a \o b)[k] = (s \o t)[k]
  <2>1. CASE k <= m
    BY <1>2, <1>3, <1>4, <1>6, <2>1
  <2>2. CASE k = m + 1
    BY <1>2, <1>3, <1>4, <1>6, <2>2
  <2>3. CASE k > m + 1
    <3>1. k - (m + 1) \in 1..(n - 1) /\ (k - (m + 1)) + 1 = k - m
      BY <1>6, <2>3
    <3>2. (a \o b)[k] = b[k - (m + 1)]
      BY <1>2, <1>3, <1>4, <1>1, <1>6, <2>3
    <3>3. (s \o t)[k] = t[k - m]
      BY <1>4, <1>6, <2>3
    <3> QED BY <1>1, <1>3, <1>4, <3>1, <3>2, <3>3
  <2>4. m \in Nat /\ n \in Nat
    BY <1>4
  <2>5. k <= m \/ k = m + 1 \/ k > m + 1
    BY <2>4
  <2> QED BY <2>1, <2>2, <2>3, <2>5
<1> QED BY <1>3, <1>5, <1>6

LEMMA ReadStep ==
  ASSUME TypeOK, NEW p \in Process, Shown(p), StepOf(p)
  PROVE  Shown(p)'
<1>0. /\ caller \in [Process -> Memory] /\ caller[p] \in Memory
      /\ result \in [Process -> Seq(Row)] /\ index \in [Process -> Nat]
      /\ DOMAIN todo = Process /\ (todo[p] = NULL \/ todo[p] \in Seq(Row))
      /\ DOMAIN handle = Process /\ \A h \in Handle : db[h].work \in Seq(Row)
      /\ table \in Seq(Row)
  BY TypeParts DEF DataTypes, ConnTypes, Connection
<1>1. CASE \/ Open(p) \/ Close(p) \/ BegTransAction(p) \/ EndTransAction(p)
           \/ ExecuteNonQuery(p) \/ Exec(p)
  BY <1>1, NotAsked, ShownUnseen
<1>2. CASE Renew(p) \/ Dies(p)
  <2>1. caller'[p] = Reborn(p) /\ index'[p] = 0 /\ todo'[p] = NULL
    BY <1>0, <1>2 DEF Renew, Dies, Idle
  <2> QED BY <1>0, <2>1, RebornType DEF Shown
<1>3. CASE ExecuteReader(p)
  <2>1. PICK s : s = View(handle[p])
    OBVIOUS
  <2>2. s \in Seq(Row)
    BY <1>0, <1>3, <2>1, TypeParts DEF ExecuteReader, Usable, View, ConnTypes
  <2>3. /\ todo'[p] = s /\ result'[p] = <<>> /\ index'[p] = index[p]
        /\ result[p] = <<>> /\ ~caller[p].end
    BY <1>0, <1>3, <2>1 DEF ExecuteReader, Fresh
  <2>4. caller'[p] = [caller[p] EXCEPT !.answer = s, !.answered = FALSE]
    BY <1>0, <1>3, <2>1 DEF ExecuteReader
  <2>5. caller'[p].answer = s /\ ~caller'[p].answered /\ caller'[p].end = caller[p].end
    BY <1>0, <2>4 DEF Memory
  <2>6. result'[p] \o todo'[p] = s
    BY <2>2, <2>3, ConcatEmpty
  <2> QED BY <2>3, <2>5, <2>6 DEF Shown
<1>4. CASE CallBack(p)
  <2>1. /\ todo[p] \in Seq(Row) /\ todo[p] # <<>> /\ todo[p] # NULL
        /\ result[p] \in Seq(Row)
    BY <1>0, <1>4 DEF CallBack, Idle
  <2>2. /\ result'[p] = Append(result[p], Head(todo[p])) /\ todo'[p] = Tail(todo[p])
        /\ caller' = caller /\ index' = index
    BY <1>0, <1>4 DEF CallBack
  <2>3. result'[p] \o todo'[p] = result[p] \o todo[p]
    BY <2>1, <2>2, ConcatMoves
  <2> QED BY <2>1, <2>2, <2>3 DEF Shown
<1>5. CASE QueryDone(p) \/ QueryFails(p)
  <2>1. PICK ok \in BOOLEAN : QueryReturns(p, ok) /\ (ok => todo[p] = <<>>)
    BY <1>5 DEF QueryDone, QueryFails
  <2>2. /\ todo[p] # NULL /\ todo'[p] = NULL
        /\ result' = result /\ index' = index
        /\ caller'[p] = [caller[p] EXCEPT !.answered = ok]
    BY <1>0, <2>1 DEF QueryReturns, Idle
  <2>3. /\ caller'[p].answered = ok /\ caller'[p].end = caller[p].end
        /\ caller'[p].answer = caller[p].answer /\ caller'[p].got = caller[p].got
    BY <1>0, <2>2 DEF Memory
  <2>4. ok => result[p] = caller[p].answer
    <3> HAVE ok
    <3>1. result[p] \o todo[p] = caller[p].answer /\ todo[p] = <<>>
      BY <2>1, <2>2 DEF Shown
    <3>2. result[p] \in Seq(Row)
      BY <1>0
    <3> QED BY <3>1, <3>2, ConcatEmpty
  <2>5. ~caller[p].end
    BY <2>2 DEF Shown
  <2> QED BY <2>2, <2>3, <2>4, <2>5 DEF Shown
<1>6. CASE Reset(p)
  <2>1. /\ todo'[p] = NULL /\ index'[p] = 0
        /\ caller'[p] = [caller[p] EXCEPT !.got = <<>>, !.answer = <<>>,
                                          !.answered = FALSE, !.end = FALSE]
    BY <1>0, <1>6 DEF Reset, Idle
  <2>2. ~caller'[p].answered /\ ~caller'[p].end
    BY <1>0, <2>1 DEF Memory
  <2> QED BY <2>1, <2>2 DEF Shown
<1>7. CASE Read(p)
  <2>1. PICK s : s = SubSeq(result[p], index[p] + 1, Len(result[p]))
    OBVIOUS
  <2>2. /\ todo'[p] = NULL /\ result' = result /\ ~caller[p].end
        /\ caller'[p] = [caller[p] EXCEPT !.got = s, !.end = TRUE]
    BY <1>0, <1>7, <2>1 DEF Read, Idle
  <2>3. /\ caller'[p].answered = caller[p].answered /\ caller'[p].end
        /\ caller'[p].answer = caller[p].answer /\ caller'[p].got = s
    BY <1>0, <2>2 DEF Memory
  <2>4. s = result[p]
    <3>1. index[p] = 0 /\ result[p] \in Seq(Row)
      BY <1>0, <2>2 DEF Shown
    <3>2. s = SubSeq(result[p], 1, Len(result[p]))
      BY <2>1, <3>1
    <3> QED BY <3>1, <3>2
  <2> QED BY <2>2, <2>3, <2>4 DEF Shown
<1> QED BY <1>1, <1>2, <1>3, <1>4, <1>5, <1>6, <1>7 DEF StepOf

LEMMA NextReads == ASSUME ReadInv, [Next]_vars PROVE ReadInv'
<1>0. TypeOK /\ \A p \in Process : Shown(p)
  BY DEF ReadInv
<1>1. CASE UNCHANGED vars
  <2>1. \A p \in Process : UNCHANGED Asked(p)
    BY <1>1 DEF vars, Asked
  <2>2. \A p \in Process : Shown(p)'
    BY <1>0, <2>1, ShownUnseen
  <2> QED BY <1>0, <1>1, <2>2, TypeUnseen DEF ReadInv
<1>2. ASSUME NEW p \in Process, StepOf(p) PROVE ReadInv'
  <2>1. ASSUME NEW q \in Process \ {p} PROVE Shown(q)'
    <3>1. UNCHANGED Asked(q)
      BY <1>0, <1>2, DataStep, TypeParts DEF Asked
    <3> QED BY <1>0, <3>1, ShownUnseen
  <2> QED BY <1>0, <1>2, <2>1, ReadStep, NextTypes DEF ReadInv
<1> QED BY <1>1, <1>2, NextIsStep

(* A careful process (indeed any) that reads until Read answers false has  *)
(* got the rows of the query that ExecuteReader answered, each once and in *)
(* order (Sqlite3Ex.cpp: ExecuteReader, CallBack, Read, Reset).            *)
THEOREM ReadsWhatWasAnswered == Spec => []ReadsTheAnswer
<1>1. Init => ReadInv
  <2>1. ASSUME Init, NEW p \in Process PROVE Shown(p)
    BY <2>1 DEF Init, Shown
  <2> QED BY <2>1, InitTypes DEF ReadInv
<1>2. ReadInv /\ [Next]_vars => ReadInv'
  BY NextReads
<1>3. ReadInv => ReadsTheAnswer
  BY DEF ReadInv, Shown, ReadsTheAnswer
<1> QED BY <1>1, <1>2, <1>3, PTL DEF Spec

-----------------------------------------------------------------------------
(* Rows *)

LEMMA RowsOfConcat ==
  ASSUME NEW s \in Seq(Row), NEW t \in Seq(Row)
  PROVE  Rows(s \o t) = Rows(s) \cup Rows(t)
<1>1. PICK m \in Nat, n \in Nat : m = Len(s) /\ n = Len(t)
  OBVIOUS
<1>2. /\ Len(s \o t) = m + n
      /\ \A k \in 1..m : (s \o t)[k] = s[k]
      /\ \A k \in 1..n : (s \o t)[m + k] = t[k]
  <2>1. \A k \in 1..n : (s \o t)[m + k] = t[k]
    <3> TAKE k \in 1..n
    <3>1. m + k \in 1..(m + n) /\ m + k > m /\ (m + k) - m = k
      BY <1>1
    <3> QED BY <1>1, <3>1
  <2> QED BY <1>1, <2>1
<1>3. ASSUME NEW r \in Rows(s \o t) PROVE r \in Rows(s) \cup Rows(t)
  <2>1. PICK k \in 1..(m + n) : r = (s \o t)[k]
    BY <1>2 DEF Rows
  <2>2. CASE k <= m
    BY <1>1, <1>2, <2>1, <2>2 DEF Rows
  <2>3. CASE k > m
    <3>1. PICK j \in 1..n : k = m + j
      <4>1. k - m \in 1..n /\ k = m + (k - m)
        BY <2>3
      <4> QED BY <4>1
    <3> QED BY <1>1, <1>2, <2>1, <3>1 DEF Rows
  <2> QED BY <2>2, <2>3
<1>4. ASSUME NEW r \in Rows(s) PROVE r \in Rows(s \o t)
  <2>1. PICK k \in 1..m : r = s[k]
    BY <1>1, <1>4 DEF Rows
  <2>2. k \in 1..(m + n)
    OBVIOUS
  <2> QED BY <1>2, <2>1, <2>2 DEF Rows
<1>5. ASSUME NEW r \in Rows(t) PROVE r \in Rows(s \o t)
  <2>1. PICK k \in 1..n : r = t[k]
    BY <1>1, <1>5 DEF Rows
  <2>2. m + k \in 1..(m + n)
    OBVIOUS
  <2> QED BY <1>2, <2>1, <2>2 DEF Rows
<1> QED BY <1>3, <1>4, <1>5

LEMMA InOrderConcat ==
  ASSUME NEW s \in Seq(Row), NEW t \in Seq(Row), NEW p,
         InOrder(s, p), InOrder(t, p),
         \A q, r \in Row :
           q \in Rows(s) /\ r \in Rows(t) /\ q[1] = p /\ r[1] = p => q[2] < r[2]
  PROVE  InOrder(s \o t, p)
<1>1. PICK m \in Nat, n \in Nat : m = Len(s) /\ n = Len(t)
  OBVIOUS
<1>2. /\ Len(s \o t) = m + n
      /\ \A k \in 1..m : (s \o t)[k] = s[k]
      /\ \A k \in 1..n : (s \o t)[m + k] = t[k]
  <2>1. \A k \in 1..n : (s \o t)[m + k] = t[k]
    <3> TAKE k \in 1..n
    <3>1. m + k \in 1..(m + n) /\ m + k > m /\ (m + k) - m = k
      BY <1>1
    <3> QED BY <1>1, <3>1
  <2> QED BY <1>1, <2>1
<1>3. ASSUME NEW a \in 1..(m + n), NEW b \in 1..(m + n), a < b,
             (s \o t)[a][1] = p, (s \o t)[b][1] = p
      PROVE  (s \o t)[a][2] < (s \o t)[b][2]
  <2>1. CASE b <= m
    <3>1. a \in 1..m /\ b \in 1..m
      BY <1>3, <2>1
    <3> QED BY <1>1, <1>2, <1>3, <3>1 DEF InOrder
  <2>2. CASE a > m
    <3>1. PICK i \in 1..n, j \in 1..n : a = m + i /\ b = m + j /\ i < j
      <4>1. /\ a - m \in 1..n /\ b - m \in 1..n
            /\ a = m + (a - m) /\ b = m + (b - m) /\ a - m < b - m
        BY <1>3, <2>2
      <4> QED BY <4>1
    <3> QED BY <1>1, <1>2, <1>3, <3>1 DEF InOrder
  <2>3. CASE a <= m /\ b > m
    <3>1. PICK j \in 1..n : b = m + j
      <4>1. b - m \in 1..n /\ b = m + (b - m)
        BY <2>3
      <4> QED BY <4>1
    <3>2. a \in 1..m
      BY <2>3
    <3>3. /\ (s \o t)[a] = s[a] /\ s[a] \in Rows(s) /\ s[a] \in Row
          /\ (s \o t)[b] = t[j] /\ t[j] \in Rows(t) /\ t[j] \in Row
      BY <1>1, <1>2, <3>1, <3>2 DEF Rows
    <3> QED BY <1>3, <3>3
  <2>4. b <= m \/ a > m \/ (a <= m /\ b > m)
    OBVIOUS
  <2> QED BY <2>1, <2>2, <2>3, <2>4
<1> QED BY <1>2, <1>3 DEF InOrder

LEMMA OneRow ==
  ASSUME NEW p, NEW row \in Row
  PROVE  /\ <<row>> \in Seq(Row) /\ Len(<<row>>) = 1
         /\ Rows(<<row>>) = {row} /\ InOrder(<<row>>, p)
<1>1. <<row>> \in Seq(Row) /\ Len(<<row>>) = 1 /\ <<row>>[1] = row
  OBVIOUS
<1>2. Rows(<<row>>) = {row}
  BY <1>1 DEF Rows
<1>3. InOrder(<<row>>, p)
  BY <1>1 DEF InOrder
<1> QED BY <1>1, <1>2, <1>3

LEMMA AppendIsConcat ==
  ASSUME NEW s \in Seq(Row), NEW row \in Row
  PROVE  Append(s, row) = s \o <<row>>
OBVIOUS

LEMMA NoRows == Rows(<<>>) = {} /\ (\A p : InOrder(<<>>, p)) /\ Len(<<>>) = 0
BY DEF Rows, InOrder

-----------------------------------------------------------------------------
(* Rows stored *)

(* A connection's uncommitted rows are its opener's. *)
WorkOwn == \A h \in Handle : \A row \in Rows(db[h].work) : row[1] = db[h].opener

(* The rows told stored, then the pending ones, in increasing number. *)
Numbered(p) ==
  /\ \A row \in Rows(caller[p].kept) : row[2] <= Len(caller[p].kept)
  /\ \A row \in Rows(caller[p].pending) :
       /\ row[1] = p
       /\ Len(caller[p].kept) < row[2]
       /\ row[2] <= Len(caller[p].kept) + Len(caller[p].pending)
  /\ InOrder(caller[p].pending, p)

(* A process has pending rows only in a transaction, and its connection    *)
(* has begun that transaction and holds those rows.                        *)
Agrees(p) ==
  /\ ~caller[p].inTx => caller[p].pending = <<>>
  /\ handle[p] = NULL => ~caller[p].inTx
  /\ handle[p] # NULL => /\ db[handle[p]].work = caller[p].pending
                         /\ db[handle[p]].tx <=> caller[p].inTx

Told(p) == RowsOf(p) = Rows(caller[p].kept) /\ InOrder(table, p)

StoredInv ==
  /\ TypeOK /\ WorkOwn
  /\ \A p \in Process \ Careless : Told(p) /\ Numbered(p) /\ Agrees(p)

(* A step in which the file gains the rows t, and the process is told so. *)
Stores(p, t) ==
  /\ table' = table \o t
  /\ caller'[p].kept = caller[p].kept \o t
  /\ caller'[p].pending = <<>>

LEMMA Gains ==
  ASSUME table \in Seq(Row), NEW p, NEW t \in Seq(Row), table' = table \o t
  PROVE  RowsOf(p)' = RowsOf(p) \cup {row \in Rows(t) : row[1] = p}
BY RowsOfConcat DEF RowsOf

(* The rows of another process leave those of p as they were. *)
LEMMA OthersGain ==
  ASSUME table \in Seq(Row), NEW p, NEW t \in Seq(Row), table' = table \o t,
         \A row \in Rows(t) : row[1] # p
  PROVE  /\ RowsOf(p)' = RowsOf(p)
         /\ InOrder(table, p) => InOrder(table, p)'
<1>1. RowsOf(p)' = RowsOf(p)
  BY Gains
<1>2. InOrder(t, p)
  BY DEF InOrder, Rows
<1>3. InOrder(table, p) => InOrder(table \o t, p)
  BY <1>2, InOrderConcat
<1>4. InOrder(table \o t, p) => InOrder(table, p)'
  BY DEF InOrder
<1> QED BY <1>1, <1>3, <1>4

LEMMA StoresTold ==
  ASSUME TypeOK, NEW p \in Process, Told(p), Numbered(p), NEW t \in Seq(Row),
         Stores(p, t), InOrder(t, p),
         \A row \in Rows(t) : /\ row[1] = p
                              /\ Len(caller[p].kept) < row[2]
                              /\ row[2] <= Len(caller[p].kept) + Len(t)
  PROVE  /\ Told(p)' /\ Numbered(p)'
         /\ RowsOf(p)' = RowsOf(p) \cup Rows(t)
<1>0. PICK kept \in Seq(Row) : kept = caller[p].kept
  BY TypeParts DEF DataTypes, Memory
<1>1. table \in Seq(Row)
  BY TypeParts DEF DataTypes
<1>2. RowsOf(p)' = RowsOf(p) \cup Rows(t)
  BY <1>1, Gains DEF Stores
<1>3. Rows(kept \o t) = Rows(kept) \cup Rows(t)
  BY <1>0, RowsOfConcat
<1>4. PICK m \in Nat, n \in Nat : m = Len(kept) /\ n = Len(t) /\ Len(kept \o t) = m + n
  BY <1>0
<1>5. \A row \in Row : row[2] \in Nat
  BY DEF Row
<1>6. /\ \A row \in Rows(kept) : row \in Row /\ row[2] <= m
      /\ \A row \in Rows(t) : row \in Row /\ row[1] = p /\ m < row[2] /\ row[2] <= m + n
  BY <1>0, <1>4 DEF Numbered, Rows
<1>7. InOrder(table \o t, p)
  <2>1. ASSUME NEW q \in Row, NEW r \in Row, q \in Rows(table), r \in Rows(t), q[1] = p
        PROVE  q[2] < r[2]
    <3>1. q \in Rows(kept)
      BY <1>0, <2>1 DEF Told, RowsOf
    <3>2. q[2] <= m /\ m < r[2] /\ q[2] \in Nat /\ r[2] \in Nat
      BY <1>5, <1>6, <2>1, <3>1
    <3> QED BY <3>2
  <2> QED BY <1>1, <2>1, InOrderConcat DEF Told
<1>8. Told(p)'
  <2>1. RowsOf(p)' = Rows(caller'[p].kept)
    BY <1>0, <1>2, <1>3 DEF Told, Stores
  <2>2. InOrder(table, p)'
    BY <1>7 DEF InOrder, Stores
  <2>3. Rows(caller'[p].kept) = Rows(caller[p].kept)'
    BY DEF Rows
  <2> QED BY <2>1, <2>2, <2>3 DEF Told
<1>9. Numbered(p)'
  <2>1. /\ caller'[p].kept = kept \o t /\ Len(caller'[p].kept) = m + n
        /\ caller'[p].pending = <<>>
    BY <1>0, <1>4 DEF Stores
  <2>2. \A row \in Rows(kept \o t) : row[2] <= m + n
    <3> TAKE row \in Rows(kept \o t)
    <3>1. row[2] \in Nat /\ (row[2] <= m \/ row[2] <= m + n)
      BY <1>3, <1>5, <1>6
    <3> QED BY <3>1
  <2>3. \A row \in Rows(caller'[p].kept) : row[2] <= Len(caller'[p].kept)
    BY <2>1, <2>2
  <2> QED BY <2>1, <2>3, NoRows DEF Numbered
<1> QED BY <1>2, <1>8, <1>9

LEMMA ToldSame ==
  ASSUME NEW p, Told(p), UNCHANGED table, caller'[p].kept = caller[p].kept
  PROVE  Told(p)'
<1>1. RowsOf(p)' = RowsOf(p) /\ InOrder(table, p)'
  BY DEF Told, RowsOf, Rows, InOrder
<1>2. Rows(caller[p].kept)' = Rows(caller[p].kept)
  BY DEF Rows
<1> QED BY <1>1, <1>2 DEF Told

(* Nothing that tells of p has changed, or its pending rows are given up.  *)
LEMMA ToldUnseen ==
  ASSUME NEW p, Told(p), Numbered(p), UNCHANGED table,
         caller'[p].kept = caller[p].kept,
         caller'[p].pending \in {caller[p].pending, <<>>}
  PROVE  Told(p)' /\ Numbered(p)' /\ RowsOf(p)' = RowsOf(p)
<1>1. ASSUME caller'[p].pending = caller[p].pending PROVE Numbered(p)'
  <2>1. \A row \in Rows(caller'[p].kept) : row[2] <= Len(caller'[p].kept)
    BY DEF Numbered
  <2>2. \A row \in Rows(caller'[p].pending) :
           /\ row[1] = p
           /\ Len(caller'[p].kept) < row[2]
           /\ row[2] <= Len(caller'[p].kept) + Len(caller'[p].pending)
    BY <1>1 DEF Numbered
  <2>3. InOrder(caller'[p].pending, p)
    BY <1>1 DEF Numbered
  <2> QED BY <2>1, <2>2, <2>3 DEF Numbered
<1>2. ASSUME caller'[p].pending = <<>> PROVE Numbered(p)'
  <2>1. \A row \in Rows(caller'[p].kept) : row[2] <= Len(caller'[p].kept)
    BY DEF Numbered
  <2>2. \A row \in Rows(caller'[p].pending) : FALSE
    BY <1>2, NoRows
  <2>3. InOrder(caller'[p].pending, p)
    BY <1>2, NoRows
  <2> QED BY <2>1, <2>2, <2>3 DEF Numbered
<1>3. RowsOf(p)' = RowsOf(p)
  BY DEF RowsOf, Rows
<1> QED BY <1>1, <1>2, <1>3, ToldSame

-----------------------------------------------------------------------------
(* The steps that store nothing. *)

LEMMA QuietFields ==
  ASSUME NEW m \in Memory, NEW s, NEW b, NEW e
  PROVE  /\ LET n == [m EXCEPT !.answer = s, !.answered = b]
            IN n.inTx = m.inTx /\ n.pending = m.pending /\ n.kept = m.kept
         /\ LET n == [m EXCEPT !.answered = b]
            IN n.inTx = m.inTx /\ n.pending = m.pending /\ n.kept = m.kept
         /\ LET n == [m EXCEPT !.got = s, !.end = e]
            IN n.inTx = m.inTx /\ n.pending = m.pending /\ n.kept = m.kept
         /\ LET n == [m EXCEPT !.got = <<>>, !.answer = <<>>,
                               !.answered = FALSE, !.end = FALSE]
            IN n.inTx = m.inTx /\ n.pending = m.pending /\ n.kept = m.kept
BY DEF Memory

LEMMA QuietStep ==
  ASSUME TypeOK, NEW p \in Process,
         \/ Exec(p) \/ ExecuteReader(p) \/ CallBack(p)
         \/ QueryDone(p) \/ QueryFails(p) \/ Reset(p) \/ Read(p)
  PROVE  /\ UNCHANGED <<table, handle>>
         /\ caller'[p].inTx = caller[p].inTx
         /\ caller'[p].pending = caller[p].pending
         /\ caller'[p].kept = caller[p].kept
         /\ \A h \in Handle : /\ db'[h].work = db[h].work
                              /\ db'[h].tx = db[h].tx
                              /\ db'[h].opener = db[h].opener
<1>0. /\ caller \in [Process -> Memory] /\ caller[p] \in Memory
      /\ db \in [Handle -> Connection]
  BY TypeParts DEF DataTypes, ConnTypes
<1>1. CASE Exec(p)
  <2>1. PICK l : db' = [db EXCEPT ![handle[p]].lock = l]
    BY <1>1 DEF Exec
  <2> QED BY <1>0, <1>1, <2>1, LockEffect DEF Exec
<1>2. CASE ExecuteReader(p)
  <2>1. PICK l : db' = [db EXCEPT ![handle[p]].lock = l]
    BY <1>2 DEF ExecuteReader
  <2>2. caller'[p] = [caller[p] EXCEPT !.answer = View(handle[p]), !.answered = FALSE]
    BY <1>0, <1>2 DEF ExecuteReader
  <2>3. UNCHANGED <<table, handle>>
    BY <1>2 DEF ExecuteReader
  <2> QED BY <1>0, <2>1, <2>2, <2>3, LockEffect, QuietFields
<1>3. CASE QueryDone(p) \/ QueryFails(p)
  <2>1. PICK ok : /\ caller'[p] = [caller[p] EXCEPT !.answered = ok]
                  /\ UNCHANGED <<table, handle>>
    BY <1>0, <1>3 DEF QueryDone, QueryFails, QueryReturns
  <2> QED BY <1>0, <1>3, <2>1, QueryEffect, QuietFields
<1>4. CASE CallBack(p)
  BY <1>4 DEF CallBack
<1>5. CASE Reset(p)
  <2>1. caller'[p] = [caller[p] EXCEPT !.got = <<>>, !.answer = <<>>,
                                       !.answered = FALSE, !.end = FALSE]
    BY <1>0, <1>5 DEF Reset
  <2> QED BY <1>0, <1>5, <2>1, QuietFields DEF Reset
<1>6. CASE Read(p)
  <2>1. caller'[p] = [caller[p] EXCEPT
          !.got = SubSeq(result[p], index[p] + 1, Len(result[p])), !.end = TRUE]
    BY <1>0, <1>6 DEF Read
  <2> QED BY <1>0, <1>6, <2>1, QuietFields DEF Read
<1> QED BY <1>1, <1>2, <1>3, <1>4, <1>5, <1>6

(* What Close, Renew and Dies make of the memory of a process. *)
LEMMA GivesUp ==
  ASSUME TypeOK, NEW p \in Process,
         \/ Close(p) \/ Dies(p) \/ Renew(p)
  PROVE  /\ UNCHANGED table /\ handle'[p] = NULL
         /\ ~caller'[p].inTx /\ caller'[p].pending = <<>>
         /\ caller'[p].kept = caller[p].kept
<1>0. /\ caller \in [Process -> Memory] /\ caller[p] \in Memory
      /\ handle \in [Process -> Handle \cup {NULL}]
  BY TypeParts DEF DataTypes, ConnTypes
<1>1. CASE Close(p)
  <2>1. caller'[p] = [caller[p] EXCEPT !.inTx = FALSE, !.pending = <<>>]
    BY <1>0, <1>1 DEF Close
  <2> QED BY <1>0, <1>1, <2>1, StoredFields DEF Close
<1>2. CASE Dies(p)
  <2>1. caller'[p] = Reborn(p)
    BY <1>0, <1>2 DEF Dies
  <2> QED BY <1>0, <1>2, <2>1, RebornType DEF Dies
<1>3. CASE Renew(p)
  <2>1. caller'[p] = Reborn(p)
    BY <1>0, <1>3 DEF Renew
  <2> QED BY <1>0, <1>3, <2>1, RebornType DEF Renew
<1> QED BY <1>1, <1>2, <1>3

(* The two ways of an ExecuteNonQuery, and a commit. *)

Inserts(p, row) ==
  /\ row = <<p, NewNumber(p)>> /\ row \in Row
  /\ handle[p] \in Handle /\ UNCHANGED handle
  /\ \A h \in Handle \ {handle[p]} : db'[h] = db[h]
  /\ db'[handle[p]].opener = db[handle[p]].opener
  /\ db'[handle[p]].tx = db[handle[p]].tx
  /\ caller'[p].inTx = caller[p].inTx

InsertsLater(p, row) ==
  /\ Inserts(p, row)
  /\ db[handle[p]].tx /\ UNCHANGED table
  /\ db'[handle[p]].work = Append(db[handle[p]].work, row)
  /\ caller'[p].pending = Append(caller[p].pending, row)
  /\ caller'[p].kept = caller[p].kept

InsertsNow(p, row) ==
  /\ Inserts(p, row)
  /\ ~db[handle[p]].tx /\ table' = Append(table, row)
  /\ UNCHANGED db
  /\ caller'[p].kept = Append(caller[p].kept, row)
  /\ caller'[p].pending = caller[p].pending

LEMMA NonQueryEffect ==
  ASSUME TypeOK, NEW p \in Process, ExecuteNonQuery(p)
  PROVE  \E row : InsertsLater(p, row) \/ InsertsNow(p, row)
<1>0. /\ caller \in [Process -> Memory] /\ caller[p] \in Memory
      /\ db \in [Handle -> Connection] /\ DataTypes
      /\ handle \in [Process -> Handle \cup {NULL}]
  BY TypeParts DEF DataTypes, ConnTypes
<1>1. PICK row : row = <<p, NewNumber(p)>>
  OBVIOUS
<1>2. row \in Row /\ handle[p] \in Handle /\ UNCHANGED handle
  BY <1>0, <1>1, NewNumberType DEF ExecuteNonQuery, Usable
<1>3. CASE /\ db[handle[p]].tx
           /\ db' = [db EXCEPT ![handle[p]].work = Append(@, row),
                      ![handle[p]].lock = IF @ = "pending" THEN @ ELSE "reserved"]
           /\ caller' = [caller EXCEPT ![p].pending = Append(@, row)]
           /\ UNCHANGED table
  <2>1. PICK s : s = Append(caller[p].pending, row)
    OBVIOUS
  <2>2. caller'[p] = [caller[p] EXCEPT !.pending = s]
    BY <1>0, <1>3, <2>1 DEF Memory
  <2>3. /\ caller'[p].inTx = caller[p].inTx /\ caller'[p].pending = s
        /\ caller'[p].kept = caller[p].kept
    BY <1>0, <2>2, StoredFields
  <2>4. /\ \A h \in Handle \ {handle[p]} : db'[h] = db[h]
        /\ db'[handle[p]].opener = db[handle[p]].opener
        /\ db'[handle[p]].tx = db[handle[p]].tx
        /\ db'[handle[p]].work = Append(db[handle[p]].work, row)
    BY <1>0, <1>2, <1>3, InsertEffect
  <2>5. InsertsLater(p, row)
    BY <1>1, <1>2, <1>3, <2>1, <2>3, <2>4 DEF InsertsLater, Inserts
  <2> QED BY <2>5
<1>4. CASE /\ ~db[handle[p]].tx
           /\ table' = Append(table, row)
           /\ caller' = [caller EXCEPT ![p].kept = Append(@, row)]
           /\ UNCHANGED db
  <2>1. PICK s : s = Append(caller[p].kept, row)
    OBVIOUS
  <2>2. caller'[p] = [caller[p] EXCEPT !.kept = s]
    BY <1>0, <1>4, <2>1 DEF Memory
  <2>3. /\ caller'[p].inTx = caller[p].inTx /\ caller'[p].kept = s
        /\ caller'[p].pending = caller[p].pending
    BY <1>0, <2>2, StoredFields
  <2>5. InsertsNow(p, row)
    BY <1>1, <1>2, <1>4, <2>1, <2>3 DEF InsertsNow, Inserts
  <2> QED BY <2>5
<1> QED BY <1>1, <1>3, <1>4 DEF ExecuteNonQuery, NewNumber

LEMMA CommitTells ==
  ASSUME TypeOK, NEW p \in Process, handle[p] \in Handle,
         CommitAnswersTrue(p, handle[p])
  PROVE  /\ table' = table \o db[handle[p]].work
         /\ caller'[p].kept = caller[p].kept \o caller[p].pending
         /\ caller'[p].pending = <<>> /\ ~caller'[p].inTx
<1>0. caller \in [Process -> Memory] /\ caller[p] \in Memory
  BY TypeParts DEF DataTypes
<1>1. PICK s : s = caller[p].kept \o caller[p].pending
  OBVIOUS
<1>2. caller'[p] = [caller[p] EXCEPT !.kept = s, !.inTx = FALSE, !.pending = <<>>]
  BY <1>0, <1>1 DEF CommitAnswersTrue, Memory
<1>3. table' = table \o db[handle[p]].work
  BY DEF CommitAnswersTrue, View
<1>4. caller'[p].kept = s /\ caller'[p].pending = <<>> /\ caller'[p].inTx = FALSE
  BY <1>0, <1>2, StoredFields
<1> QED BY <1>1, <1>3, <1>4

-----------------------------------------------------------------------------
(* Every step *)

(* The file gains rows of p as TransactionsWhole says. *)
WholeStep(p) ==
  RowsOf(p)' # RowsOf(p) =>
    IF caller[p].inTx
    THEN RowsOf(p)' = RowsOf(p) \cup Rows(caller[p].pending) /\ ~caller'[p].inTx
    ELSE \E row \in RowsOf(p)' : RowsOf(p)' = RowsOf(p) \cup {row}

LEMMA WorkOwnKept ==
  ASSUME TypeOK, WorkOwn, NEW p \in Process, StepOf(p)
  PROVE  WorkOwn'
<1>0. /\ db \in [Handle -> Connection] /\ ConnTypes /\ DataTypes
      /\ handle \in [Process -> Handle \cup {NULL}]
      /\ \A q \in Process : handle[q] # NULL => db[handle[q]].opener = q
  BY TypeParts DEF DataTypes, ConnTypes, OwnOne
<1>1. CASE \A h \in Handle : \/ db'[h].work = <<>>
                             \/ /\ db'[h].work = db[h].work
                                /\ db'[h].opener = db[h].opener
  BY <1>1, NoRows DEF WorkOwn
<1>2. CASE Open(p)
  <2>1. PICK h \in Handle, ok \in BOOLEAN :
          /\ db[h] = Closed
          /\ db' = [db EXCEPT ![h].opener = p, ![h].usable = ok]
    BY <1>2 DEF Open
  <2>2. db'[h].work = <<>>
    BY <1>0, <2>1 DEF Closed, Connection
  <2> QED BY <1>0, <1>1, <2>1, <2>2
<1>3. CASE Close(p) \/ Renew(p) \/ Dies(p)
  BY <1>0, <1>1, <1>3 DEF Close, Renew, Dies, Closed
<1>4. CASE BegTransAction(p)
  BY <1>0, <1>1, <1>4, BegEffect
<1>5. CASE EndTransAction(p)
  <2>1. handle[p] \in Handle
    BY <1>0, <1>5 DEF EndTransAction, Usable
  <2>2. CASE CommitAnswersTrue(p, handle[p])
    BY <1>0, <1>1, <2>1, <2>2, CommitEffect
  <2>3. CASE CommitAnswersFalse(handle[p])
    BY <1>0, <1>1, <2>3, LockEffect DEF CommitAnswersFalse
  <2> QED BY <1>5, <2>2, <2>3 DEF EndTransAction
<1>6. CASE ExecuteNonQuery(p)
  <2>1. PICK row : InsertsLater(p, row) \/ InsertsNow(p, row)
    BY <1>6, NonQueryEffect
  <2>2. CASE InsertsNow(p, row)
    BY <1>1, <2>2 DEF InsertsNow
  <2>3. CASE InsertsLater(p, row)
    <3>1. /\ handle[p] \in Handle /\ row \in Row /\ row[1] = p
          /\ db'[handle[p]].opener = p /\ db[handle[p]].opener = p
      BY <1>0, <2>3, SqliteAssumption DEF InsertsLater, Inserts
    <3>2. db[handle[p]].work \in Seq(Row)
      BY <1>0, <3>1 DEF Connection
    <3>3. Rows(db'[handle[p]].work) = Rows(db[handle[p]].work) \cup {row}
      <4>1. PICK w \in Seq(Row) : w = db[handle[p]].work
        BY <3>2
      <4>2. db'[handle[p]].work = w \o <<row>>
        BY <2>3, <3>1, <4>1, AppendIsConcat DEF InsertsLater
      <4>3. Rows(w \o <<row>>) = Rows(w) \cup Rows(<<row>>)
        BY <3>1, <4>1, RowsOfConcat, OneRow
      <4> QED BY <3>1, <4>1, <4>2, <4>3, OneRow
    <3>4. \A r \in Rows(db'[handle[p]].work) : r[1] = db'[handle[p]].opener
      BY <3>1, <3>3 DEF WorkOwn
    <3>5. \A h \in Handle \ {handle[p]} : db'[h] = db[h]
      BY <2>3 DEF InsertsLater, Inserts
    <3> QED BY <3>4, <3>5 DEF WorkOwn
  <2> QED BY <2>1, <2>2, <2>3
<1>7. CASE \/ Exec(p) \/ ExecuteReader(p) \/ CallBack(p)
           \/ QueryDone(p) \/ QueryFails(p) \/ Reset(p) \/ Read(p)
  BY <1>1, <1>7, QuietStep
<1> QED BY <1>2, <1>3, <1>4, <1>5, <1>6, <1>7 DEF StepOf

LEMMA AgreesUnseen ==
  ASSUME NEW p, Agrees(p), handle'[p] = handle[p],
         caller'[p].inTx = caller[p].inTx, caller'[p].pending = caller[p].pending,
         handle[p] # NULL => /\ db'[handle[p]].work = db[handle[p]].work
                             /\ db'[handle[p]].tx = db[handle[p]].tx
  PROVE  Agrees(p)'
BY DEF Agrees

(* A step of the careful process p itself. *)
LEMMA OwnStep ==
  ASSUME TypeOK, NEW p \in Process \ Careless, StepOf(p),
         Told(p), Numbered(p), Agrees(p)
  PROVE  Told(p)' /\ Numbered(p)' /\ Agrees(p)' /\ WholeStep(p)
<1>0. /\ db \in [Handle -> Connection] /\ ConnTypes /\ DataTypes
      /\ handle \in [Process -> Handle \cup {NULL}] /\ table \in Seq(Row)
      /\ caller \in [Process -> Memory] /\ caller[p] \in Memory
      /\ NULL \notin Handle
  BY TypeParts, SqliteAssumption DEF DataTypes, ConnTypes
<1>s. caller[p].kept \in Seq(Row) /\ caller[p].pending \in Seq(Row)
  BY <1>0 DEF Memory
<1>t. CASE /\ UNCHANGED table /\ caller'[p].kept = caller[p].kept
           /\ caller'[p].pending \in {caller[p].pending, <<>>} /\ Agrees(p)'
  BY <1>t, ToldUnseen DEF WholeStep
<1>1. CASE Open(p)
  <2>1. PICK h \in Handle, ok \in BOOLEAN :
          /\ handle[p] = NULL /\ db[h] = Closed
          /\ db' = [db EXCEPT ![h].opener = p, ![h].usable = ok]
          /\ handle' = [handle EXCEPT ![p] = h] /\ UNCHANGED <<table, caller>>
    BY <1>1 DEF Open
  <2>2. db'[h].work = <<>> /\ db'[h].tx = FALSE
    BY <1>0, <2>1 DEF Closed, Connection
  <2>3. handle'[p] = h /\ ~caller[p].inTx /\ caller[p].pending = <<>>
    BY <1>0, <2>1 DEF Agrees
  <2>4. Agrees(p)'
    BY <1>0, <2>1, <2>2, <2>3 DEF Agrees
  <2> QED BY <1>t, <2>1, <2>4
<1>2. CASE Close(p) \/ Renew(p) \/ Dies(p)
  <2>1. Agrees(p)'
    BY <1>2, GivesUp DEF Agrees
  <2> QED BY <1>2, <1>t, <2>1, GivesUp
<1>3. CASE BegTransAction(p)
  <2>1. handle[p] \in Handle /\ UNCHANGED <<table, handle>>
    BY <1>0, <1>3 DEF BegTransAction, Usable
  <2>2. caller'[p] = [caller[p] EXCEPT !.inTx = TRUE]
    BY <1>0, <1>3 DEF BegTransAction
  <2>3. /\ caller'[p].inTx = TRUE /\ caller'[p].pending = caller[p].pending
        /\ caller'[p].kept = caller[p].kept
    BY <1>0, <2>2, StoredFields
  <2>4. db'[handle[p]].work = db[handle[p]].work /\ db'[handle[p]].tx = TRUE
    BY <1>0, <1>3, <2>1, BegEffect
  <2>5. Agrees(p)'
    BY <1>0, <2>1, <2>3, <2>4 DEF Agrees
  <2> QED BY <1>t, <2>1, <2>3, <2>5
<1>4. CASE EndTransAction(p)
  <2>1. handle[p] \in Handle /\ UNCHANGED handle /\ db[handle[p]].tx
    BY <1>0, <1>4 DEF EndTransAction, Usable
  <2>2. CASE CommitAnswersFalse(handle[p])
    <3>1. UNCHANGED <<table, caller>>
      BY <2>2 DEF CommitAnswersFalse
    <3>2. Agrees(p)'
      BY <1>0, <2>1, <2>2, <3>1, LockEffect, AgreesUnseen DEF CommitAnswersFalse
    <3> QED BY <1>t, <3>1, <3>2
  <2>3. CASE CommitAnswersTrue(p, handle[p])
    <3>1. /\ db[handle[p]].work = caller[p].pending /\ caller[p].inTx
          /\ ~caller'[p].inTx /\ caller'[p].pending = <<>>
      BY <1>0, <2>1, <2>3, CommitTells DEF Agrees
    <3>2. Stores(p, caller[p].pending)
      BY <2>1, <2>3, <3>1, CommitTells DEF Stores
    <3>3. Told(p)' /\ Numbered(p)' /\ RowsOf(p)' = RowsOf(p) \cup Rows(caller[p].pending)
      <4>1. PICK t \in Seq(Row) : t = caller[p].pending
        BY <1>s
      <4>2. /\ InOrder(t, p)
            /\ \A row \in Rows(t) : /\ row[1] = p
                                    /\ Len(caller[p].kept) < row[2]
                                    /\ row[2] <= Len(caller[p].kept) + Len(t)
        BY <4>1 DEF Numbered
      <4> QED BY <3>2, <4>1, <4>2, StoresTold
    <3>4. Agrees(p)'
      <4>1. db'[handle[p]].tx = FALSE /\ db'[handle[p]].work = <<>>
        BY <1>0, <2>1, <2>3, CommitEffect
      <4> QED BY <1>0, <2>1, <3>1, <4>1 DEF Agrees
    <3> QED BY <3>1, <3>3, <3>4 DEF WholeStep
  <2> QED BY <1>4, <2>2, <2>3 DEF EndTransAction
<1>5. CASE ExecuteNonQuery(p)
  <2>1. PICK row : InsertsLater(p, row) \/ InsertsNow(p, row)
    BY <1>5, NonQueryEffect
  <2>2. /\ row = <<p, NewNumber(p)>> /\ row \in Row
        /\ handle[p] \in Handle /\ UNCHANGED handle
        /\ db'[handle[p]].tx = db[handle[p]].tx
        /\ caller'[p].inTx = caller[p].inTx
    BY <2>1 DEF InsertsLater, InsertsNow, Inserts
  <2>3. PICK m \in Nat, n \in Nat :
          m = Len(caller[p].kept) /\ n = Len(caller[p].pending)
    BY <1>s
  <2>4. row[1] = p /\ row[2] = m + n + 1
    BY <2>2, <2>3 DEF NewNumber
  <2>5. CASE InsertsNow(p, row)
    <3>1. ~caller[p].inTx /\ caller[p].pending = <<>> /\ n = 0
      BY <1>0, <2>2, <2>3, <2>5 DEF InsertsNow, Agrees
    <3>2. PICK t \in Seq(Row) : t = <<row>>
      BY <2>2, OneRow
    <3>3. Stores(p, t)
      BY <1>0, <1>s, <2>2, <2>5, <3>1, <3>2, AppendIsConcat DEF Stores, InsertsNow
    <3>4. Len(t) = 1 /\ Rows(t) = {row} /\ InOrder(t, p)
      BY <2>2, <3>2, OneRow
    <3>5. m < row[2] /\ row[2] <= m + 1
      BY <2>4, <3>1
    <3>6. Told(p)' /\ Numbered(p)' /\ RowsOf(p)' = RowsOf(p) \cup {row}
      <4>1. \A r \in Rows(t) : /\ r[1] = p
                               /\ Len(caller[p].kept) < r[2]
                               /\ r[2] <= Len(caller[p].kept) + Len(t)
        BY <2>3, <2>4, <3>4, <3>5
      <4> QED BY <3>3, <3>4, <4>1, StoresTold
    <3>7. Agrees(p)'
      BY <2>2, <2>5, AgreesUnseen DEF InsertsNow
    <3> QED BY <3>1, <3>6, <3>7 DEF WholeStep
  <2>6. CASE InsertsLater(p, row)
    <3>1. UNCHANGED table /\ caller'[p].kept = caller[p].kept
      BY <2>6 DEF InsertsLater
    <3>2. PICK s \in Seq(Row) : s = caller[p].pending
      BY <1>s
    <3>3. /\ caller'[p].pending = s \o <<row>> /\ Len(s \o <<row>>) = n + 1
          /\ Rows(s \o <<row>>) = Rows(s) \cup {row}
      <4>1. caller'[p].pending = Append(s, row) /\ Append(s, row) = s \o <<row>>
        BY <2>2, <2>6, <3>2, AppendIsConcat DEF InsertsLater
      <4>2. Len(Append(s, row)) = n + 1
        BY <2>3, <3>2
      <4>3. <<row>> \in Seq(Row) /\ Rows(<<row>>) = {row}
        BY <2>2, OneRow
      <4>4. Rows(s \o <<row>>) = Rows(s) \cup {row}
        <5>1. PICK t \in Seq(Row) : t = <<row>>
          BY <4>3
        <5>2. Rows(s \o t) = Rows(s) \cup Rows(t)
          BY RowsOfConcat
        <5> QED BY <4>3, <5>1, <5>2
      <4> QED BY <4>1, <4>2, <4>4
    <3>4. \A r \in Rows(s) : /\ r \in Row /\ r[1] = p /\ r[2] \in Nat
                             /\ m < r[2] /\ r[2] <= m + n
      <4>1. \A r \in Rows(s) : r \in Row
        BY <3>2 DEF Rows
      <4>2. \A r \in Row : r[2] \in Nat
        BY DEF Row
      <4>3. \A r \in Rows(s) : r[1] = p /\ m < r[2] /\ r[2] <= m + n
        BY <2>3, <3>2 DEF Numbered
      <4> QED BY <4>1, <4>2, <4>3
    <3>5. InOrder(s \o <<row>>, p)
      <4>1. \A q, r \in Row :
              q \in Rows(s) /\ r \in Rows(<<row>>) /\ q[1] = p /\ r[1] = p => q[2] < r[2]
        <5>1. \A q \in Rows(s) : q[2] < m + n + 1
          BY <3>4
        <5> QED BY <2>2, <2>4, <5>1, OneRow
      <4>2. InOrder(s, p) /\ InOrder(<<row>>, p) /\ <<row>> \in Seq(Row)
        BY <2>2, <3>2, OneRow DEF Numbered
      <4> QED BY <4>1, <4>2, InOrderConcat
    <3>6. \A r \in Rows(s) \cup {row} : r[1] = p /\ m < r[2] /\ r[2] <= m + (n + 1)
      <4>1. \A r \in Rows(s) : r[1] = p /\ m < r[2] /\ r[2] <= m + (n + 1)
        BY <3>4
      <4>2. m < m + n + 1 /\ m + n + 1 <= m + (n + 1)
        OBVIOUS
      <4> QED BY <2>4, <4>1, <4>2
    <3>7. Numbered(p)'
      <4>1. caller'[p].kept = caller[p].kept /\ Len(caller'[p].kept) = m
            /\ Len(caller'[p].pending) = n + 1
        BY <2>3, <3>1, <3>3
      <4>2. \A r \in Rows(caller'[p].kept) : r[2] <= Len(caller'[p].kept)
        BY <3>1 DEF Numbered
      <4>3. \A r \in Rows(caller'[p].pending) : r[1] = p /\ m < r[2] /\ r[2] <= m + (n + 1)
        BY <3>3, <3>6
      <4>4. InOrder(caller'[p].pending, p)
        BY <3>3, <3>5
      <4> QED BY <4>1, <4>2, <4>3, <4>4 DEF Numbered
    <3>8. Agrees(p)'
      BY <1>0, <2>2, <2>6 DEF InsertsLater, Agrees
    <3>9. Told(p)' /\ RowsOf(p)' = RowsOf(p)
      BY <3>1, ToldSame DEF RowsOf, Rows
    <3> QED BY <3>7, <3>8, <3>9 DEF WholeStep
  <2> QED BY <2>1, <2>5, <2>6
<1>6. CASE \/ Exec(p) \/ ExecuteReader(p) \/ CallBack(p)
           \/ QueryDone(p) \/ QueryFails(p) \/ Reset(p) \/ Read(p)
  <2>1. Agrees(p)'
    BY <1>0, <1>6, QuietStep, AgreesUnseen
  <2> QED BY <1>6, <1>t, <2>1, QuietStep
<1> QED BY <1>1, <1>2, <1>3, <1>4, <1>5, <1>6 DEF StepOf

(* What a step adds to the file is the acting process's. *)
LEMMA TableStep ==
  ASSUME TypeOK, WorkOwn, NEW q \in Process, StepOf(q)
  PROVE  \E t \in Seq(Row) : /\ table' = table \o t
                             /\ \A row \in Rows(t) : row[1] = q
<1>0. /\ ConnTypes /\ table \in Seq(Row) /\ db \in [Handle -> Connection]
      /\ handle \in [Process -> Handle \cup {NULL}]
      /\ handle[q] # NULL => db[handle[q]].opener = q
  BY TypeParts DEF DataTypes, ConnTypes, OwnOne
<1>1. CASE UNCHANGED table
  <2>1. table' = table \o <<>> /\ <<>> \in Seq(Row)
    BY <1>0, <1>1, ConcatEmpty
  <2> QED BY <2>1, NoRows
<1>2. CASE EndTransAction(q)
  <2>1. handle[q] \in Handle
    BY <1>0, <1>2 DEF EndTransAction, Usable
  <2>2. CASE CommitAnswersTrue(q, handle[q])
    <3>1. PICK t \in Seq(Row) : t = db[handle[q]].work
      BY <1>0, <2>1 DEF Connection
    <3>2. table' = table \o t
      BY <2>1, <2>2, <3>1, CommitTells
    <3>3. \A row \in Rows(t) : row[1] = q
      BY <1>0, <2>1, <3>1, SqliteAssumption DEF WorkOwn
    <3> QED BY <3>2, <3>3
  <2>3. CASE CommitAnswersFalse(handle[q])
    BY <1>1, <2>3 DEF CommitAnswersFalse
  <2> QED BY <1>2, <2>2, <2>3 DEF EndTransAction
<1>3. CASE ExecuteNonQuery(q)
  <2>1. PICK row : InsertsLater(q, row) \/ InsertsNow(q, row)
    BY <1>3, NonQueryEffect
  <2>2. CASE InsertsLater(q, row)
    BY <1>1, <2>2 DEF InsertsLater
  <2>3. CASE InsertsNow(q, row)
    <3>1. row \in Row /\ row[1] = q /\ table' = Append(table, row)
      BY <2>3 DEF InsertsNow, Inserts
    <3>2. PICK t \in Seq(Row) : t = <<row>> /\ Rows(t) = {row}
      BY <3>1, OneRow
    <3>3. table' = table \o t
      BY <1>0, <3>1, <3>2, AppendIsConcat
    <3> QED BY <3>1, <3>2, <3>3
  <2> QED BY <2>1, <2>2, <2>3
<1>4. CASE Open(q) \/ BegTransAction(q)
  BY <1>1, <1>4 DEF Open, BegTransAction
<1>5. CASE Close(q) \/ Dies(q) \/ Renew(q)
  BY <1>1, <1>5, GivesUp
<1>6. CASE \/ Exec(q) \/ ExecuteReader(q) \/ CallBack(q)
           \/ QueryDone(q) \/ QueryFails(q) \/ Reset(q) \/ Read(q)
  BY <1>1, <1>6, QuietStep
<1> QED BY <1>2, <1>3, <1>4, <1>5, <1>6 DEF StepOf

(* A step of another process. *)
LEMMA OthersStep ==
  ASSUME TypeOK, WorkOwn, NEW p \in Process, NEW q \in Process \ {p}, StepOf(q),
         Told(p), Numbered(p), Agrees(p)
  PROVE  Told(p)' /\ Numbered(p)' /\ Agrees(p)' /\ WholeStep(p)
<1>0. /\ ConnTypes /\ OwnOne /\ DataTypes /\ table \in Seq(Row)
      /\ handle \in [Process -> Handle \cup {NULL}]
      /\ handle[p] # NULL => db[handle[p]].opener = p
      /\ NULL \notin Process
  BY TypeParts, SqliteAssumption DEF DataTypes, ConnTypes, OwnOne
<1>1. caller'[p] = caller[p] /\ handle'[p] = handle[p]
  BY <1>0, ConnStep, DataStep
<1>2. handle[p] # NULL => db'[handle[p]] = db[handle[p]]
  BY <1>0, ConnStep
<1>3. PICK t \in Seq(Row) : /\ table' = table \o t
                            /\ \A row \in Rows(t) : row[1] # p
  BY TableStep
<1>4. RowsOf(p)' = RowsOf(p) /\ InOrder(table, p)'
  BY <1>0, <1>3, OthersGain DEF Told
<1>5. Told(p)'
  <2>1. Rows(caller[p].kept)' = Rows(caller[p].kept)
    BY <1>1 DEF Rows
  <2> QED BY <1>4, <2>1 DEF Told
<1>6. Numbered(p)'
  BY <1>1 DEF Numbered
<1>7. Agrees(p)'
  BY <1>1, <1>2, AgreesUnseen
<1> QED BY <1>4, <1>5, <1>6, <1>7 DEF WholeStep

LEMMA NextStored ==
  ASSUME StoredInv, [Next]_vars
  PROVE  StoredInv' /\ \A p \in Process \ Careless : WholeStep(p)
<1>0. /\ TypeOK /\ WorkOwn
      /\ \A p \in Process \ Careless : Told(p) /\ Numbered(p) /\ Agrees(p)
  BY DEF StoredInv
<1>1. CASE UNCHANGED vars
  <2>1. UNCHANGED <<table, db, handle, caller>>
    BY <1>1 DEF vars
  <2>2. WorkOwn'
    BY <1>0, <2>1 DEF WorkOwn
  <2>3. ASSUME NEW p \in Process \ Careless
        PROVE  Told(p)' /\ Numbered(p)' /\ Agrees(p)' /\ WholeStep(p)
    <3>1. Told(p)' /\ Numbered(p)' /\ RowsOf(p)' = RowsOf(p)
      BY <1>0, <2>1, ToldUnseen
    <3>2. Agrees(p)'
      BY <1>0, <2>1, AgreesUnseen
    <3> QED BY <3>1, <3>2 DEF WholeStep
  <2> QED BY <1>0, <1>1, <2>2, <2>3, TypeUnseen DEF StoredInv
<1>2. ASSUME NEW q \in Process, StepOf(q)
      PROVE  StoredInv' /\ \A p \in Process \ Careless : WholeStep(p)
  <2>1. TypeOK' /\ WorkOwn'
    BY <1>0, <1>2, NextTypes, WorkOwnKept
  <2>2. ASSUME NEW p \in Process \ Careless
        PROVE  Told(p)' /\ Numbered(p)' /\ Agrees(p)' /\ WholeStep(p)
    <3>1. CASE p = q
      BY <1>0, <1>2, <3>1, OwnStep
    <3>2. CASE p # q
      BY <1>0, <1>2, <3>2, OthersStep
    <3> QED BY <3>1, <3>2
  <2> QED BY <2>1, <2>2 DEF StoredInv
<1> QED BY <1>1, <1>2, NextIsStep

LEMMA InitStored == ASSUME Init PROVE StoredInv
<1>1. /\ table = <<>> /\ \A h \in Handle : db[h].work = <<>>
      /\ \A p \in Process : handle[p] = NULL
  BY DEF Init, Closed
<1>2. WorkOwn
  BY <1>1, NoRows DEF WorkOwn
<1>3. ASSUME NEW p \in Process PROVE Told(p) /\ Numbered(p) /\ Agrees(p)
  <2>1. caller[p].kept = <<>> /\ caller[p].pending = <<>> /\ ~caller[p].inTx
    BY DEF Init
  <2>2. Told(p)
    BY <1>1, <2>1, NoRows DEF Told, RowsOf
  <2>3. Numbered(p)
    BY <2>1, NoRows DEF Numbered
  <2>4. Agrees(p)
    BY <1>1, <2>1 DEF Agrees
  <2> QED BY <2>2, <2>3, <2>4
<1> QED BY <1>2, <1>3, InitTypes DEF StoredInv

(* The rows of a careful process in the file are exactly those that        *)
(* EndTransAction and ExecuteNonQuery told it are stored, each once and in *)
(* order (Sqlite3Ex.cpp), whatever the other processes do.                 *)
THEOREM WhatIsToldIsStored == Spec => []ToldIsStored
<1>1. Init => StoredInv
  BY InitStored
<1>2. StoredInv /\ [Next]_vars => StoredInv'
  BY NextStored
<1>3. StoredInv => ToldIsStored
  BY DEF StoredInv, Told, ToldIsStored
<1> QED BY <1>1, <1>2, <1>3, PTL DEF Spec

(* From BegTransAction to the EndTransAction that answers true the file    *)
(* gains none of a careful process's rows, and then all of them in one     *)
(* step (Sqlite3Ex.cpp).                                                   *)
THEOREM TransactionsAreWhole == Spec => TransactionsWhole
<1>1. Init => StoredInv
  BY InitStored
<1>2. StoredInv /\ [Next]_vars => StoredInv'
  BY NextStored
<1>3. StoredInv /\ [Next]_vars =>
        [\A p \in Process \ Careless :
           RowsOf(p)' # RowsOf(p) =>
             IF caller[p].inTx
             THEN RowsOf(p)' = RowsOf(p) \cup Rows(caller[p].pending) /\ ~caller'[p].inTx
             ELSE \E row \in RowsOf(p)' : RowsOf(p)' = RowsOf(p) \cup {row}]_vars
  BY NextStored DEF WholeStep
<1> QED BY <1>1, <1>2, <1>3, PTL DEF Spec, TransactionsWhole

=============================================================================
