----------------------------- MODULE MysqlClient -----------------------------
(***************************************************************************)
(* The database classes of the scripts: mysqldbc of python/tools/db/db.py, *)
(* which counts nested transactions, and mysqlConn of php/tools/db/        *)
(* mysql.php.  Both connect again and repeat a statement when the server   *)
(* has gone.                                                               *)
(*                                                                         *)
(* A call of the program is one action; python's repetition of a statement *)
(* is an action per attempt.  The client, with what the server keeps of    *)
(* its session, is a record; an operation gives the set of its outcomes.   *)
(* The program begins, runs statements, and commits, or rolls back once a  *)
(* statement has failed.                                                   *)
(***************************************************************************)
EXTENDS Naturals, FiniteSets

CONSTANTS MaxStmts,   \* bound on the statements
          MaxBegins   \* bound on nested transactions

Ids == 1 .. MaxStmts
MaxStored == 2   \* bound on how often a statement is counted as stored

VARIABLES
  lang,                \* "python", "php"
  default_autocommit,
  client,  \* conn ("none", "open", "lost": the server has gone, which the client does not
           \* know), autocommit and open transaction of the session, current_autocommit,
           \* transactions, and how often each statement is stored
  stmt,    \* the statement that is being tried, or 0
  tried,   \* statements so far
  txn,     \* the program's transaction: its depth, its statements, whether all is well,
           \* whether one was repeated on another connection, whether an answer was lost
  last     \* the one before, with its end: "commit", "rollback" or none yet

vars == <<lang, default_autocommit, client, stmt, tried, txn, last>>

NoTxn == [depth |-> 0, ids |-> {}, good |-> TRUE, redone |-> FALSE, unsure |-> FALSE]

NewClient(conn) ==
  [conn |-> conn, autocommit |-> default_autocommit, pend |-> {},
   current |-> default_autocommit, transactions |-> 0, stored |-> [i \in Ids |-> 0]]

\* mysqldbc.__init__; the constructor of mysqlConn connects.
PyInit == default_autocommit \in BOOLEAN /\ client = NewClient("none")
PhpInit == default_autocommit = TRUE /\ client = NewClient("open")
Init ==
  /\ \/ lang = "python" /\ PyInit
     \/ lang = "php" /\ PhpInit
  /\ stmt = 0 /\ tried = 0
  /\ txn = NoTxn /\ last = [txn |-> NoTxn, end |-> "none"]

-----------------------------------------------------------------------------
(* The server: what a client is after a request, and its answer. *)

Out(c, res) == [c |-> c, res |-> res]
Gone(c) == [c EXCEPT !.conn = "lost", !.pend = {}]
Stored(c, I) ==
  [c EXCEPT !.stored = [i \in Ids |-> IF i \in I /\ @[i] < MaxStored THEN @[i] + 1 ELSE @[i]]]
Committed(c) == [Stored(c, c.pend) EXCEPT !.pend = {}]

\* A request that makes d of c: the server may have gone before or go after it.
Request(c, d) ==
  IF c.conn = "lost" THEN {Out(c, "lost")}
  ELSE {Out(d, "ok"), Out(Gone(d), "lost"), Out(Gone(c), "lost")}

NewSession(c) ==
  {Out([c EXCEPT !.conn = "open", !.autocommit = default_autocommit, !.pend = {}], "ok"),
   Out([c EXCEPT !.conn = "none"], "failed")}
ServerExecute(c, i) ==
  Request(c, IF c.autocommit THEN Stored(c, {i}) ELSE [c EXCEPT !.pend = @ \cup {i}])
    \cup IF c.conn = "open" THEN {Out(c, "failed")} ELSE {}
ServerCommit(c) == Request(c, Committed(c))
ServerRollback(c) == Request(c, [c EXCEPT !.pend = {}])
ServerAutocommit(c, v) ==
  Request(c, [(IF v THEN Committed(c) ELSE c) EXCEPT !.autocommit = v])

-----------------------------------------------------------------------------
(* db.py *)

\* __setautocommit; what it says of an error names a variable that it does not have.
SetAutocommit(c, v) ==
  LET d == [c EXCEPT !.current = v]
  IN IF c.current = v THEN {Out(c, "ok")}
     ELSE IF c.conn = "none" THEN {Out(d, "ok")} ELSE ServerAutocommit(d, v)

\* engine: a connection with the parameters of mysqldbc
Engine(c) == NewSession(c)

\* mysql_connect: a new connection gets the autocommit of the one before.
MysqlConnect(c) ==
  IF c.conn # "none" THEN {Out(c, "ok")}
  ELSE UNION {IF r.res = "ok"
              THEN SetAutocommit([r.c EXCEPT !.current = default_autocommit], c.current)
              ELSE {r} : r \in Engine(c)}

\* mysql_close
MysqlClose(c) == [c EXCEPT !.conn = "none", !.pend = {}]

Add(c) == [c EXCEPT !.transactions = @ + 1]
Del(c) == [c EXCEPT !.transactions = IF @ > 0 THEN @ - 1 ELSE 0]

\* The end of commit and rollback: the outermost one asks the server.
Ended(c, ServerEnd(_)) ==
  IF c.current \/ c.transactions > 0 THEN {Out(c, "ok")}
  ELSE UNION {IF r.res = "ok" THEN SetAutocommit(r.c, default_autocommit) ELSE {r} :
                r \in IF c.conn = "none" THEN {Out(c, "ok")} ELSE ServerEnd(c)}
Commit(c) == Ended(Del(c), ServerCommit)
Rollback(c) == Ended(Del(c), ServerRollback)

\* begin
PyBegin(c) ==
  UNION {IF r.res # "ok" THEN {r}
         ELSE {IF s.res = "ok" THEN Out(Add(s.c), "ok") ELSE s : s \in SetAutocommit(r.c, FALSE)} :
           r \in MysqlConnect(c)}

\* A statement outside of transactions can be tried again.
in_transactions(c) == c.transactions > 0

\* select when the statement is done ...
PyDone(c) == {Out(k.c, IF k.res = "ok" THEN "ok" ELSE "unsure") : k \in Commit(c)}

\* ... and when it is not
PyFails(c, lost) ==
  {IF ~lost THEN Out(k.c, "failed")
   ELSE Out(MysqlClose(k.c), IF in_transactions(k.c) THEN "failed" ELSE "again") :
     k \in Rollback(c)}

\* cursor: a connection is needed.
Cursor(c) == MysqlConnect(c)

\* An attempt of select; insert and update do the same.
Select(c, i) ==
  UNION {IF r.res # "ok" THEN PyFails(r.c, FALSE)
         ELSE UNION {IF x.res = "ok" THEN PyDone(x.c) ELSE PyFails(x.c, x.res = "lost") :
                       x \in ServerExecute(r.c, i)} :
           r \in Cursor(Add(c))}
Insert(c, i) == Select(c, i)
Update(c, i) == Select(c, i)

-----------------------------------------------------------------------------
(* mysql.php; nothing can be called once the connection is null. *)

\* begin; what the server answers is not looked at.
PhpBegin(c) == {Out(r.c, "ok") : r \in ServerAutocommit(c, FALSE)}

\* commit and rollback, of which the server's outcomes are ended
PhpEnd(ended) ==
  UNION {{Out(s.c, "unsure") : s \in ServerAutocommit(r.c, TRUE)} : r \in ended}

\* mysql_init, close
MysqlInit(c) == NewSession(c)
Close(c) == [c EXCEPT !.conn = "none", !.pend = {}]

\* query: once more on a new connection; the others do the same.
Query(c, i) ==
  UNION {IF x.res # "lost" THEN {x}
         ELSE UNION {IF r.res # "ok" THEN {r}
                     ELSE {Out(y.c, IF y.res = "ok" THEN "redone" ELSE "undone") :
                             y \in ServerExecute(r.c, i)} : r \in MysqlInit(Close(x.c))} :
           x \in ServerExecute(c, i)}

QueryArray(c, i) == Query(c, i)
QueryArrayOne(c, i) == Query(c, i)
Execute(c, i) == Query(c, i)

-----------------------------------------------------------------------------
(* The program. *)

Ready == stmt = 0 /\ (lang = "php" => client.conn # "none")

\* The server closes an idle connection, or restarts.
Lose ==
  /\ client.conn = "open"
  /\ client' = Gone(client)
  /\ UNCHANGED <<lang, default_autocommit, stmt, tried, txn, last>>

Begin ==
  /\ Ready /\ txn.good /\ txn.depth < IF lang = "php" THEN 1 ELSE MaxBegins
  /\ \E r \in IF lang = "php" THEN PhpBegin(client) ELSE PyBegin(client) :
       /\ client' = r.c
       /\ txn' = IF r.res = "ok" THEN [txn EXCEPT !.depth = @ + 1]
                 ELSE IF txn.depth = 0 THEN txn ELSE [txn EXCEPT !.good = FALSE]
  /\ UNCHANGED <<lang, default_autocommit, stmt, tried, last>>

\* What is left of the transaction after commit or rollback
Finish(end, unsure) ==
  LET t == [txn EXCEPT !.unsure = @ \/ unsure]
  IN IF txn.depth > 1
     THEN txn' = [t EXCEPT !.depth = @ - 1, !.good = @ /\ end = "commit"] /\ UNCHANGED last
     ELSE txn' = NoTxn /\ last' = [txn |-> t, end |-> end]

End(end) ==
  /\ Ready /\ txn.depth > 0
  /\ end = "commit" => txn.good
  /\ \E r \in CASE lang = "php" /\ end = "commit"  -> PhpEnd(ServerCommit(client))
              [] lang = "php" /\ end = "rollback"  -> PhpEnd(ServerRollback(client))
              [] lang = "python" /\ end = "commit" -> Commit(client)
              [] OTHER                             -> Rollback(client) :
       client' = r.c /\ Finish(end, r.res # "ok")
  /\ UNCHANGED <<lang, default_autocommit, stmt, tried>>

Statement ==
  /\ Ready /\ txn.good /\ tried < MaxStmts
  /\ tried' = tried + 1 /\ stmt' = tried + 1
  /\ txn' = [txn EXCEPT !.ids = @ \cup {tried + 1}]
  /\ UNCHANGED <<lang, default_autocommit, client, last>>

\* The result of a statement; outside of a transaction it is one of its own.
Ends(res) ==
  LET t == [txn EXCEPT !.redone = @ \/ res \in {"redone", "undone"},
                          !.unsure = @ \/ res = "unsure"]
        good == res \notin {"failed", "undone"}
  IN IF txn.depth > 0
     THEN txn' = [t EXCEPT !.good = good] /\ UNCHANGED last
     ELSE txn' = NoTxn /\ last' = [txn |-> t, end |-> IF good THEN "commit" ELSE "rollback"]

Try ==
  /\ stmt # 0
  /\ \E r \in IF lang = "php"
            THEN UNION {Query(client, stmt), QueryArray(client, stmt),
                        QueryArrayOne(client, stmt), Execute(client, stmt)}
            ELSE UNION {Select(client, stmt), Insert(client, stmt), Update(client, stmt)} :
       /\ client' = r.c
       /\ IF r.res = "again"
          THEN /\ txn' = [txn EXCEPT !.redone = @ \/ default_autocommit]
               /\ UNCHANGED <<stmt, last>>
          ELSE Ends(r.res) /\ stmt' = 0
  /\ UNCHANGED <<lang, default_autocommit, tried>>

Next == Lose \/ Begin \/ (\E end \in {"commit", "rollback"} : End(end)) \/ Statement \/ Try

-----------------------------------------------------------------------------
\* Of a transaction that has ended, all statements are stored, once, or none is: all, if it
\* was committed and every answer came; none, if it was rolled back.  php's statements and
\* python's with autocommit can be repeated on another connection, where they are stored
\* at once, and those that failed may be stored when the answer was lost.
TransactionsWhole ==
  LET n(i) == client.stored[i]
      t == last.txn
  IN t.redone \/
       /\ (\A i \in t.ids : n(i) = 1) \/ (\A i \in t.ids : n(i) = 0)
       /\ last.end = "commit" /\ ~t.unsure => \A i \in t.ids : n(i) = 1
       /\ last.end = "rollback" /\ (t.depth > 0 \/ ~default_autocommit) => \A i \in t.ids : n(i) = 0
=============================================================================
