------------------------------- MODULE AsyncTask -------------------------------
(***************************************************************************)
(* async_task/demo/common/async_task.c and db_tool.c: records with a       *)
(* header go through the buffers of AsyncProc, are taken apart again and   *)
(* their SQL statements executed.  The helpers of db_tool reopen the       *)
(* database and try a statement once more when the connection is gone or   *)
(* lost; another thread uses them on handles of its own.  Where a database *)
(* is to be found is read from a configuration file every time; a default  *)
(* that has to be used is appended to it, if that is possible.             *)
(*                                                                         *)
(* A statement inserts a row with a unique key, or reads one.  A batch is  *)
(* what AsyncProc hands over: whole records, since a record is appended    *)
(* under its lock.  A statement whose connection is lost (a read timeout)  *)
(* may still be executed by the server, now, later or never.               *)
(***************************************************************************)
EXTENDS Integers, SequencesExt

CONSTANTS Keys,
          Users,       \* handles of the other thread, of "plain" and "typed"
          Files,       \* configuration files to begin with
          Lengths,     \* of the parameters of task_async
          MaxRecords   \* bound: records of a batch

Dbs == {"account", "sync"}

\* Handles: those of the task, one opened by db_open and one by db_type_open
Handles == {"task_account", "task_sync"} \cup Users
Typed(h) == h # "plain"
TypeOf(h) == IF h \in {"task_sync", "typed"} THEN "sync" ELSE "account"

\* Records: a statement of task_sql_async (db_type may be unknown), or one of task_async
\* with or without parameters.  Sizes are in units of the header.
Records == [cmd : {"sql"}, db_type : Dbs \cup {"unknown"}, key : Keys, len : {1}]
           \cup [cmd : {"other"}, len : Lengths]
header_len == 1

VARIABLES
  conf,      \* the configuration file: of a database, and of "ssl": "own", "def" or "absent"
  conn,      \* of a handle: the database it is connected to, or Closed
  rows,      \* of a database: the keys of its rows
  late,      \* statements the server may still execute: <<database, key>>
  call,      \* of a handle: the statement on its way, how far it is and what it returned
  batch,     \* records of the batch, handled or not
  task,      \* "idle", in _async_proc: "loop", "sql", "over"
  cur, remain,
  handled    \* records given to do_async_proc

dbVars   == <<conf, conn, rows, late>>
taskVars == <<batch, task, cur, remain, handled>>
vars     == <<dbVars, call, taskVars>>

NULL == {"NULL"}   \* in place of the rows
None == [step |-> "none"]
Closed == [db |-> <<>>, ssl |-> FALSE]

\* What is read for a key, or the default in its place
ini_read_string(key) == IF conf[key] = "own" THEN "own" ELSE "def"

\* The database of a type: the address, name, user and password
get_db_conn_config(type) == <<type, ini_read_string(type)>>

\* A connection is encrypted when the file asks for it and names keys and certificates.
db_ssl_set == ini_read_string("ssl") = "own"

\* The file, and the file with the defaults of keys it does not have: if it cannot be
\* opened to append, nothing is.
ini_append_string(keys) ==
  {conf, [k \in DOMAIN conf |-> IF k \in keys /\ conf[k] = "absent" THEN "def" ELSE conf[k]]}

Connection(type) == [db |-> get_db_conn_config(type), ssl |-> db_ssl_set]

Init ==
  /\ conf \in Files
  /\ conn = [h \in Handles |-> Connection(TypeOf(h))]
  /\ rows = [d \in Dbs \X {"own", "def"} |-> {}] /\ late = {}
  /\ call = [h \in Handles |-> None]
  /\ batch = <<>> /\ task = "idle" /\ cur = 0 /\ remain = 0 /\ handled = <<>>

-----------------------------------------------------------------------------
\* The helpers of db_tool

Begun(op, key) == [step |-> "query", op |-> op, key |-> key]

\* Another thread calls a helper on one of its handles.
Use(h, op, key) ==
  /\ h \in Users /\ \A g \in Users : call[g] = None
  /\ call' = [call EXCEPT ![h] = Begun(op, key)]
  /\ UNCHANGED <<dbVars, taskVars>>

UseReturns(h) ==
  /\ h \in Users /\ call[h].step = "done"
  /\ call' = [call EXCEPT ![h] = None]
  /\ UNCHANGED <<dbVars, taskVars>>

\* What the helpers return for the outcome of their last statement, and the same for a
\* statement with its length
execute_sql(outcome)         == IF outcome = "ok" THEN 0 ELSE -1
execute_bin_sql(outcome)     == execute_sql(outcome)
db_type_execute_sql(outcome) == CASE outcome = "ok" -> 0 [] outcome = "dup" -> 1 [] OTHER -> -1
db_type_bin_execute_sql(outcome) == db_type_execute_sql(outcome)

\* The rows, or NULL
db_query(outcome, h)          == IF outcome = "ok" THEN rows[conn[h].db] ELSE NULL
db_type_query(outcome, h)     == db_query(outcome, h)
db_bin_query(outcome, h)      == db_query(outcome, h)
db_type_bin_query(outcome, h) == db_query(outcome, h)

\* The value of the first row, which may be any
FirstOf(m_res) == IF m_res \in {NULL, {}} THEN {NULL} ELSE {{k} : k \in m_res}
db_query_value(outcome, h)          == FirstOf(db_query(outcome, h))
db_type_query_value(outcome, h)     == FirstOf(db_type_query(outcome, h))
db_bin_query_value(outcome, h)      == FirstOf(db_bin_query(outcome, h))
db_type_bin_query_value(outcome, h) == FirstOf(db_type_bin_query(outcome, h))

Rets(h, outcome) ==
  CASE call[h].op = "select" /\ Typed(h) ->
         {db_type_query(outcome, h), db_type_bin_query(outcome, h)}
         \cup db_type_query_value(outcome, h) \cup db_type_bin_query_value(outcome, h)
    [] call[h].op = "select" ->
         {db_query(outcome, h), db_bin_query(outcome, h)}
         \cup db_query_value(outcome, h) \cup db_bin_query_value(outcome, h)
    [] Typed(h) -> {db_type_execute_sql(outcome), db_type_bin_execute_sql(outcome)}
    [] OTHER -> {execute_sql(outcome), execute_bin_sql(outcome)}

\* The helper returns.
Returns(h, outcome) ==
  \E ret \in Rets(h, outcome) :
    call' = [call EXCEPT ![h] =
               [step |-> "done", op |-> @.op, key |-> @.key, ret |-> ret]]

\* mysql_query on an open connection
Served(h) ==
  LET k   == call[h].key
      d   == conn[h].db
      dup == call[h].op = "insert" /\ k \in rows[d]
  IN /\ conn[h] # Closed
     /\ rows' = [rows EXCEPT ![d] = IF call[h].op = "insert" THEN @ \cup {k} ELSE @]
     /\ Returns(h, IF dup THEN "dup" ELSE "ok")
     /\ UNCHANGED <<conf, conn, late>>

\* It fails, not for the connection
Refused(h) ==
  /\ conn[h] # Closed
  /\ Returns(h, "failed")
  /\ UNCHANGED dbVars

\* CR_SERVER_GONE_ERROR, and CR_SERVER_LOST after the statement was sent
Broken(h) ==
  /\ \/ UNCHANGED late
     \/ /\ conn[h] # Closed /\ call[h].op = "insert"
        /\ late' = late \cup {<<conn[h].db, call[h].key>>}
  /\ IF call[h].step = "query" THEN call' = [call EXCEPT ![h].step = "reopen"]
     ELSE Returns(h, "failed")
  /\ UNCHANGED <<conf, conn, rows>>

Query(h) ==
  /\ call[h].step \in {"query", "again"}
  /\ Served(h) \/ Refused(h) \/ Broken(h)
  /\ UNCHANGED taskVars

\* Mutant: db_open for every handle.
Target_Plain(h) == "account"

\* The database that is opened again: db_type_open, db_open
Target(h) == IF Typed(h) THEN TypeOf(h) ELSE "account"

\* db_close, then open: it fails without a connection, or after it (mysql_set_character_set)
Reopen(h) ==
  LET opened == Connection(Target(h))
  IN
  /\ call[h].step = "reopen"
  /\ conf' \in ini_append_string({Target(h), "ssl"})
  /\ \/ /\ conn' = [conn EXCEPT ![h] = opened]
        /\ call' = [call EXCEPT ![h].step = "again"]
     \/ /\ \E c \in {Closed, opened} : conn' = [conn EXCEPT ![h] = c]
        /\ Returns(h, "failed")
  /\ UNCHANGED <<rows, late, taskVars>>

\* The server ends a statement of a connection that was lost.
Late(s) ==
  /\ late' = late \ {s}
  /\ rows' = [rows EXCEPT ![s[1]] = @ \cup {s[2]}]
  /\ UNCHANGED <<conf, conn, call, taskVars>>

-----------------------------------------------------------------------------
\* The task

\* The bytes of a batch: the header of a record, then its payload
Cells == FlattenSeq([i \in DOMAIN batch |-> <<batch[i]>> \o [j \in 1 .. batch[i].len |-> "data"]])

\* task_async, task_sql_async
TaskAsync(r) ==
  /\ task = "idle" /\ Len(batch) < MaxRecords
  /\ batch' = Append(batch, r)
  /\ UNCHANGED <<dbVars, call, task, cur, remain, handled>>

\* _async_proc is called with the batch.
AsyncProc ==
  /\ task = "idle" /\ batch # <<>>
  /\ task' = "loop" /\ cur' = 0 /\ remain' = Len(Cells)
  /\ UNCHANGED <<dbVars, call, batch, handled>>

More == remain >= header_len

\* One turn of the loop, with do_async_proc and db_set_async_sql
Record ==
  /\ task = "loop"
  /\ LET hdr == Cells[cur + 1]
         h   == IF hdr.db_type = "sync" THEN "task_sync" ELSE "task_account"
     IN IF ~More \/ hdr.len > remain - header_len
        THEN task' = "over" /\ UNCHANGED <<call, cur, remain, handled>>
        ELSE /\ remain' = remain - header_len - hdr.len
             /\ cur' = cur + header_len + hdr.len
             /\ handled' = Append(handled, hdr)
             /\ IF hdr.cmd = "sql" /\ hdr.db_type \in Dbs
                THEN task' = "sql" /\ call' = [call EXCEPT ![h] = Begun("insert", hdr.key)]
                ELSE UNCHANGED <<task, call>>
  /\ UNCHANGED <<dbVars, batch>>

\* The statement of a record is over, with or without success.
SqlReturns ==
  /\ task = "sql"
  /\ \E h \in {"task_account", "task_sync"} :
       call[h].step = "done" /\ call' = [call EXCEPT ![h] = None]
  /\ task' = "loop"
  /\ UNCHANGED <<dbVars, batch, cur, remain, handled>>

Over ==
  /\ task = "over"
  /\ task' = "idle" /\ batch' = <<>> /\ handled' = <<>> /\ cur' = 0 /\ remain' = 0
  /\ UNCHANGED <<dbVars, call>>

Next ==
  \/ \E h \in Handles, op \in {"insert", "select"}, k \in Keys : Use(h, op, k)
  \/ \E h \in Handles : Query(h) \/ Reopen(h) \/ UseReturns(h)
  \/ \E s \in late : Late(s)
  \/ \E r \in Records : TaskAsync(r)
  \/ AsyncProc \/ Record \/ SqlReturns \/ Over

-----------------------------------------------------------------------------
\* A helper that returns 0 or 1 leaves the row in the database its caller named, and
\* the rows it returns come from there, although it may have opened the database again
\* on the way and its first statement may have been executed too; a handle never moves
\* to another database, be it that a default has been appended to the configuration file.
DbStores(h) ==
  /\ conn[h] \in {Closed, Connection(TypeOf(h))}
  /\ call[h].step = "done" =>
       LET here == rows[get_db_conn_config(TypeOf(h))] IN
       CASE call[h].op = "insert" -> call[h].ret \in {0, 1} => call[h].key \in here
         [] call[h].op = "select" -> call[h].ret # NULL => call[h].ret \subseteq here

\* Every record that was appended is handled, once and in order, whatever its length and
\* its place in the batch and whatever became of its statement; and DbStores.
TasksStored ==
  /\ \A h \in Handles : DbStores(h)
  /\ IsPrefix(handled, batch)
  /\ task = "over" => handled = batch
=============================================================================
