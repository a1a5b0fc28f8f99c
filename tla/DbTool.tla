-------------------------------- MODULE DbTool --------------------------------
(***************************************************************************)
(* libco_pool/db_tool.c and ini_file.c: the database helpers of the        *)
(* coroutine pool.  A connection is described by the lines of a            *)
(* configuration file that every thread shares; what is missing there is   *)
(* replaced by a default, which is appended to the file.  A helper whose   *)
(* connection is gone opens the database again and tries once more; to     *)
(* open is to execute a statement ("set names") with such a helper, which  *)
(* may find the new connection gone as well.                               *)
(*                                                                         *)
(* One handle for each type of database, one helper at a time; other       *)
(* threads take part by what they append to the file. A statement inserts  *)
(* a row with a unique key, or reads the rows. Of what get_db_conn_config  *)
(* reads, "ip" stands for the address and the port, "name" for the name,   *)
(* the user and the password; "ssl" stands for four keys of the global     *)
(* database. A line is a key and its value, which may be too long for the  *)
(* field.                                                                  *)
(***************************************************************************)
EXTENDS Integers, SequencesExt

CONSTANTS Keys,
          Types,      \* of "local", "rds", "account", "global"
          Files,      \* configuration files to begin with
          MaxLines,   \* bound: lines of the configuration file
          MaxDepth    \* bound: statements within openings

VARIABLES
  conf,     \* the configuration file
  config,   \* of a handle: the values read so far
  conn,     \* of a handle: where it is connected to, or Closed
  rows,     \* of a database: the keys of its rows
  call      \* of a handle: the helper it is in, how deep and how far, and what it returned

vars == <<conf, config, conn, rows, call>>

NULL == {"NULL"}   \* in place of the rows
None == [step |-> "none"]
Closed == [place |-> <<>>, ssl |-> FALSE]
Unread == [ip |-> "", name |-> "", ssl |-> FALSE]

-----------------------------------------------------------------------------
\* ini_file.c

\* The value of the first line with the key, unless there is none or it is too long
ini_read_string(key) ==
  LET i == SelectInSeq(conf, LAMBDA line : line.key = key)
  IN IF i = 0 THEN "none" ELSE IF conf[i].value = "too long" THEN "none" ELSE conf[i].value

\* Appending may fail.
ini_append_string(key, value) ==
  conf' \in {conf} \cup (IF Len(conf) < MaxLines
                         THEN {Append(conf, [key |-> key, value |-> value])} ELSE {})

-----------------------------------------------------------------------------
\* get_db_conn_config

\* The key and the default of a field: only the global database has a name of its own.
Key(h, field) == IF field = "name" /\ h # "global" THEN <<"db", field>> ELSE <<h, field>>
Default(key)  == IF key = <<"global", "name">> THEN "def global" ELSE "def"

Value(key) == IF ini_read_string(key) = "none" THEN Default(key) ELSE ini_read_string(key)

\* Where the configuration says the database of a handle is
Place(h)    == <<Value(Key(h, "ip")), Value(Key(h, "name"))>>
Places      == {<<i, n>> : i \in {"def", "own"}, n \in {"def", "own", "def global"}}
db_ssl(h)   == h = "global" /\ ini_read_string(<<h, "ssl">>) # "none"

Init ==
  /\ conf \in Files
  /\ config = [h \in Types |-> Unread]
  /\ conn = [h \in Types |-> Closed]
  /\ rows = [p \in Places |-> {}]
  /\ call = [h \in Types |-> None]

Go(h, step) == call' = [call EXCEPT ![h].step = step]

\* A field is read, or gets its default, which is then appended.  The file may change
\* between the two.
get_db_conn_config(h) ==
  /\ \E f \in {"ip", "name"} :
       LET after == IF f = "ip" THEN "name" ELSE "ssl"
           key   == Key(h, f)
       IN \/ /\ call[h].step = f
             /\ config' = [config EXCEPT ![h][f] = Value(key)]
             /\ Go(h, IF ini_read_string(key) = "none" THEN "append " \o f ELSE after)
             /\ UNCHANGED conf
          \/ /\ call[h].step = "append " \o f
             /\ ini_append_string(key, Default(key))
             /\ Go(h, after)
             /\ UNCHANGED config
  /\ UNCHANGED <<conn, rows>>

\* Another thread has found no value for a field, now or before, and appends the default.
OtherAppends(h, field) ==
  /\ Value(Key(h, field)) = Default(Key(h, field))
  /\ ini_append_string(Key(h, field), Default(Key(h, field)))
  /\ UNCHANGED <<config, conn, rows, call>>

\* Nothing is appended here.
db_ssl_set(h) ==
  /\ call[h].step = "ssl"
  /\ config' = [config EXCEPT ![h].ssl = db_ssl(h)]
  /\ Go(h, "connect")
  /\ UNCHANGED <<conf, conn, rows>>
-----------------------------------------------------------------------------
\* The helpers

\* What they return for the outcome of their last statement
execute_sql(outcome)         == IF outcome = "ok" THEN 0 ELSE -1
db_type_execute_sql(outcome) == CASE outcome = "ok" -> 0 [] outcome = "dup" -> 1 [] OTHER -> -1
db_query(outcome, h)         == IF outcome = "ok" THEN rows[conn[h].place] ELSE NULL
db_type_query(outcome, h)    == db_query(outcome, h)

\* The value of the first row: one of them, or NULL
FirstOf(m_res) == IF m_res \in {NULL, {}} THEN {NULL} ELSE {{k} : k \in m_res}
db_query_value(outcome, h)      == FirstOf(db_query(outcome, h))
db_type_query_value(outcome, h) == FirstOf(db_type_query(outcome, h))

Rets(h, outcome) ==
  LET c == call[h]
  IN CASE c.op = "open" -> {IF outcome = "ok" THEN 0 ELSE -1}
       [] c.op = "insert" /\ c.typed  -> {db_type_execute_sql(outcome)}
       [] c.op = "insert" /\ ~c.typed -> {execute_sql(outcome)}
       [] c.op = "select" /\ c.typed  -> {db_type_query(outcome, h)} \cup db_type_query_value(outcome, h)
       [] c.op = "select" /\ ~c.typed -> {db_query(outcome, h)} \cup db_query_value(outcome, h)

\* The helper at the top returns.  Below it an opening ignores what "set names" returned
\* and returns 0; what it was for is tried again.
Returns(h, outcome) ==
  LET c == call[h]
  IN IF c.depth > 0
     THEN IF c.depth = 1 /\ c.op = "open"
          THEN call' = [call EXCEPT ![h] = [op |-> "open", step |-> "done", ret |-> 0]]
          ELSE call' = [call EXCEPT ![h].depth = c.depth - 1, ![h].step = "again"]
     ELSE \E ret \in Rets(h, outcome) :
            call' = [call EXCEPT ![h] =
                       [op |-> c.op, key |-> c.key, step |-> "done", ret |-> ret]]

\* db_open, db_type_open: mysql_init, then the configuration
OpenBegins(h) ==
  /\ call[h].step = "init"
  /\ \/ Go(h, "ip")
     \/ Returns(h, "failed")
  /\ UNCHANGED <<conf, config, conn, rows>>

\* mysql_real_connect; "set names" is executed by db_type_execute_sql.
Connects(h, ssl) ==
  /\ config' = [config EXCEPT ![h] = Unread]
  /\ \/ /\ conn' = [conn EXCEPT ![h] = [place |-> <<config[h].ip, config[h].name>>,
                                        ssl   |-> ssl]]
        /\ call' = [call EXCEPT ![h].depth = @ + 1, ![h].step = "query"]
     \/ /\ Returns(h, "failed")
        /\ UNCHANGED conn
  /\ UNCHANGED <<conf, rows>>

ByPlain(h) == ~call[h].typed /\ call[h].depth = 0

db_open(h)      == call[h].step = "connect" /\ ByPlain(h) /\ Connects(h, FALSE)
db_type_open(h) == call[h].step = "connect" /\ ~ByPlain(h) /\ Connects(h, config[h].ssl)

db_close(h) == conn' = [conn EXCEPT ![h] = Closed]

\* mysql_query on an open connection
Served(h) ==
  LET c   == call[h]
      p   == conn[h].place
      add == c.depth = 0 /\ c.op = "insert"
  IN /\ conn[h] # Closed
     /\ rows' = [rows EXCEPT ![p] = IF add THEN @ \cup {c.key} ELSE @]
     /\ Returns(h, IF add /\ c.key \in rows[p] THEN "dup" ELSE "ok")
     /\ UNCHANGED conn

\* It fails, and the connection is not known to be gone; when it was lost on the way
\* (CR_SERVER_LOST) the server may have executed the statement.
Fails(h) ==
  /\ conn[h] # Closed
  /\ \/ UNCHANGED rows
     \/ /\ call[h].depth = 0 /\ call[h].op = "insert"
        /\ rows' = [rows EXCEPT ![conn[h].place] = @ \cup {call[h].key}]
  /\ Returns(h, "failed")
  /\ UNCHANGED conn

\* CR_SERVER_GONE_ERROR
Gone(h) ==
  /\ IF call[h].step = "again" THEN Returns(h, "failed") /\ UNCHANGED conn
     ELSE call[h].depth < MaxDepth /\ Go(h, "init") /\ db_close(h)
  /\ UNCHANGED rows

Query(h) ==
  /\ call[h].step \in {"query", "again"}
  /\ Served(h) \/ Fails(h) \/ Gone(h)
  /\ UNCHANGED <<conf, config>>

\* A caller opens a handle, closes it or has a statement executed.  db_open and the helpers
\* without a type are for the local database.
Use(h, op, typed, key) ==
  /\ call[h] = None /\ (op = "open") = (conn[h] = Closed)
  /\ h # "local" => typed
  /\ \A g \in Types : call[g] = None
  /\ call' = [call EXCEPT ![h] = [op |-> op, typed |-> typed, key |-> key, depth |-> 0,
                                  step |-> IF op = "open" THEN "init" ELSE "query"]]
  /\ UNCHANGED <<conf, config, conn, rows>>

Close(h) ==
  /\ call[h] = None /\ conn[h] # Closed
  /\ db_close(h)
  /\ UNCHANGED <<conf, config, rows, call>>

UseReturns(h) ==
  /\ call[h].step = "done"
  /\ call' = [call EXCEPT ![h] = None]
  /\ UNCHANGED <<conf, config, conn, rows>>

Next ==
  \E h \in Types :
    \/ \E op \in {"open", "insert", "select"}, typed \in BOOLEAN, k \in Keys :
         Use(h, op, typed, k)
    \/ \E field \in {"ip", "name"} : OtherAppends(h, field)
    \/ OpenBegins(h) \/ get_db_conn_config(h) \/ db_ssl_set(h)
    \/ db_open(h) \/ db_type_open(h)
    \/ Query(h) \/ Close(h) \/ UseReturns(h)

-----------------------------------------------------------------------------
\* However often a handle is opened again, by whichever helper, and whatever other threads
\* append to the configuration file meanwhile, it is connected to the database the file
\* names for its type, or to none: a helper that returns 0 or 1 leaves the row there, and
\* the rows and values it returns come from there.  An opening that returns -1 leaves the
\* handle without a connection.
DbToolTrue ==
  \A h \in Types :
  /\ conn[h] \in {Closed, [place |-> Place(h), ssl |-> db_ssl(h)]}
  /\ call[h].step = "done" =>
       LET c == call[h] IN
       CASE c.op = "open"   -> c.ret = -1 => conn[h] = Closed
         [] c.op = "insert" -> c.ret \in {0, 1} => c.key \in rows[Place(h)]
         [] OTHER           -> c.ret # NULL => c.ret \subseteq rows[Place(h)]
=============================================================================
