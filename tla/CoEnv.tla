-------------------------------- MODULE CoEnv --------------------------------
(***************************************************************************)
(* co_hook_sys_call.cpp, co_routine_specific.h: what a coroutine has of    *)
(* its own though all coroutines of a thread share the process: the listed *)
(* variables of the environment, and the answer of gethostbyname.          *)
(*                                                                         *)
(* The copies of the list share its names, which free_co_sysenv_arr frees  *)
(* with the first copy: from then on a search may find anything, and the   *)
(* second copy that is freed ends the program.  A name that needs n        *)
(* blocks of memory for its answer is the number n.                        *)
(***************************************************************************)
EXTENDS Integers, Sequences, SequencesExt

CONSTANTS Coroutines, Main,
          Names,    \* of variables: numbers
          Given,    \* arguments of co_set_env_list
          Values,   \* of variables
          Hosts     \* the blocks that the answer for a host needs

Null == 0
Process == "process"
Owners == Coroutines \cup {Main}

VARIABLES
  uses,      \* what the program uses: "env" or "hosts"
  st,        \* of a coroutine: "free", "run", "end"
  hooked,    \* the coroutines with cEnableSysHook
  sysenv,    \* g_co_sysenv: set (data is not NULL), names
  copied,    \* the coroutines that have a pvEnv
  val,       \* of a coroutine and of the process: its variables
  dangling,  \* the names are freed
  aborted,   \* they were freed again
  host,      \* of a slot of specific data: the host whose answer the buffer holds, its
             \* size in blocks, 0 without a buffer
  asks,      \* of a caller: the host it waits for in gethostbyname_r, or Null
  wanted,    \* history: the list the program gave, ...
  want,      \* ... what each caller and the process should have ...
  answer     \* ... and the host whose answer a caller has

envVars  == <<sysenv, copied, val, dangling, aborted, wanted, want>>
hostVars == <<host, asks, answer>>
vars == <<uses, st, hooked, envVars, hostVars>>

Nothing == [n \in Names |-> Null]
NoBuffer == [of |-> Null, size |-> 0]

Init ==
  /\ uses \in {"env", "hosts"}
  /\ st = [c \in Owners |-> IF c = Main THEN "run" ELSE "free"] /\ hooked = {}
  /\ sysenv = [set |-> FALSE, names |-> <<>>] /\ copied = {}
  /\ val = [w \in Owners \cup {Process} |-> Nothing] /\ want = val
  /\ dangling = FALSE /\ aborted = FALSE /\ wanted = {}
  /\ host = [c \in Owners |-> NoBuffer]
  /\ asks = [c \in Owners |-> Null] /\ answer = asks

Runs(c) == ~aborted /\ st[c] = "run" /\ asks[c] = Null

-----------------------------------------------------------------------------
(* Coroutines. *)

\* co_create_env sets all of the coroutine to 0, its specific data too.
Create(c) ==
  /\ ~aborted /\ st[c] = "free"
  /\ st' = [st EXCEPT ![c] = "run"] /\ hooked' = hooked \ {c}
  /\ copied' = copied \ {c}
  /\ val' = [val EXCEPT ![c] = Nothing] /\ want' = [want EXCEPT ![c] = Nothing]
  /\ host' = [host EXCEPT ![c] = NoBuffer] /\ answer' = [answer EXCEPT ![c] = Null]
  /\ UNCHANGED <<uses, sysenv, dangling, aborted, wanted, asks>>

End(c) ==
  /\ Runs(c) /\ c # Main
  /\ st' = [st EXCEPT ![c] = "end"]
  /\ UNCHANGED <<uses, hooked, envVars, hostVars>>

\* free_co_sysenv_arr, of a coroutine with a copy of the list
FreeEnv ==
  /\ dangling' = (dangling \/ sysenv.names # <<>>)
  /\ aborted' = dangling

\* co_release, from stCoRoutine_recovery
Release(c) ==
  /\ ~aborted /\ st[c] = "end"
  /\ st' = [st EXCEPT ![c] = "free"]
  /\ IF c \in copied THEN FreeEnv ELSE UNCHANGED <<dangling, aborted>>
  /\ copied' = copied \ {c}
  /\ UNCHANGED <<uses, hooked, sysenv, val, wanted, want, hostVars>>

\* co_enable_hook_sys
EnableHook(c) ==
  /\ Runs(c) /\ hooked' = hooked \cup {c}
  /\ UNCHANGED <<uses, st, envVars, hostVars>>
\* co_disable_hook_sys
DisableHook(c) ==
  /\ Runs(c) /\ hooked' = hooked \ {c}
  /\ UNCHANGED <<uses, st, envVars, hostVars>>

-----------------------------------------------------------------------------
(* The environment. *)

\* The loop of co_set_env_list over the sorted array: lp is the last name kept.
Distinct(s) ==
  LET keep[i \in 1 .. Len(s)] ==
        IF i = 1 THEN <<s[1]>>
        ELSE IF s[i] # Last(keep[i - 1]) THEN Append(keep[i - 1], s[i]) ELSE keep[i - 1]
  IN keep[Len(s)]

\* co_set_env_list
SetEnvList(given) ==
  /\ uses = "env" /\ Runs(Main) /\ ~sysenv.set
  /\ LET s == SortSeq(given, <)
     IN sysenv' = [set |-> TRUE, names |-> IF Len(s) > 1 THEN Distinct(s) ELSE s]
  /\ wanted' = ToSet(given)
  /\ UNCHANGED <<uses, st, hooked, copied, val, dangling, aborted, want, hostVars>>

UsesCopy(c) == c \in hooked /\ sysenv.set

\* bsearch in the copy: compares the names
Search(c, n) ==
  IF ~UsesCopy(c) THEN {FALSE}
  ELSE IF dangling THEN BOOLEAN ELSE {n \in ToSet(sysenv.names)}

\* A caller copies the list the first time (dup_co_sysenv_arr).
Copies(c) == copied' = IF UsesCopy(c) THEN copied \cup {c} ELSE copied

\* The change F of a variable: in the copy, or in the process
Change(c, n, F(_)) ==
  /\ uses = "env" /\ Runs(c)
  /\ Copies(c)
  /\ \E found \in Search(c, n) :
       val' = [val EXCEPT ![IF found THEN c ELSE Process][n] = F(@)]
  /\ want' = [want EXCEPT ![IF UsesCopy(c) /\ n \in wanted THEN c ELSE Process][n] = F(@)]
  /\ UNCHANGED <<uses, st, hooked, sysenv, dangling, aborted, wanted, hostVars>>

Setenv(c, n, v, overwrite) ==
  LET Set(old) == IF overwrite \/ old = Null THEN v ELSE old IN Change(c, n, Set)
Unsetenv(c, n) ==
  LET Unset(old) == Null IN Change(c, n, Unset)
Getenv(c, n) ==
  LET Same(old) == old IN Change(c, n, Same)

-----------------------------------------------------------------------------
(* gethostbyname, of callers with the hook *)

\* co_getspecific, co_setspecific: the main coroutine has the data of the thread.
Slot(c) == c

\* gethostbyname: without the hook the system's, which keeps one answer for all
OwnAnswer(c) == c \in hooked

\* co_gethostbyname up to gethostbyname_r: at first a buffer of one block
GetHost(c, h) ==
  /\ uses = "hosts" /\ Runs(c) /\ OwnAnswer(c)
  /\ host' = [host EXCEPT ![Slot(c)] = [of |-> Null, size |-> 1]]
  /\ asks' = [asks EXCEPT ![c] = h] /\ answer' = [answer EXCEPT ![c] = Null]
  /\ UNCHANGED <<uses, st, hooked, envVars>>

\* Of gethostbyname_r, in whose poll other coroutines run: ERANGE doubles the buffer, ...
HostGrow(c) ==
  /\ asks[c] # Null /\ host[Slot(c)].size < asks[c]
  /\ host' = [host EXCEPT ![Slot(c)].size = 2 * @]
  /\ UNCHANGED <<uses, st, hooked, envVars, asks, answer>>

\* ... an answer fits into it, or there is none.
HostAnswer(c) ==
  /\ asks[c] # Null
  /\ \/ /\ host[Slot(c)].size >= asks[c]
        /\ host' = [host EXCEPT ![Slot(c)].of = asks[c]]
        /\ answer' = [answer EXCEPT ![c] = asks[c]]
     \/ UNCHANGED <<host, answer>>
  /\ asks' = [asks EXCEPT ![c] = Null]
  /\ UNCHANGED <<uses, st, hooked, envVars>>

Next ==
  \/ \E given \in Given : SetEnvList(given)
  \/ \E c \in Coroutines : Create(c) \/ End(c) \/ Release(c)
  \/ \E c \in Owners : EnableHook(c) \/ DisableHook(c)
  \/ \E c \in Owners, n \in Names :
       \/ \E v \in Values, overwrite \in BOOLEAN : Setenv(c, n, v, overwrite)
       \/ Unsetenv(c, n) \/ Getenv(c, n)
  \/ \E c \in Owners : (\E h \in Hosts : GetHost(c, h)) \/ HostGrow(c) \/ HostAnswer(c)

-----------------------------------------------------------------------------
\* As long as no copy of the list was freed, each coroutine has the values of the listed
\* variables that it set itself, the process has all others, and a name given twice is one
\* variable; the answer a caller got stays in its buffer whatever the others ask for.
CoroutinesOwn ==
  /\ ~dangling => val = want
  /\ \A c \in Owners : answer[c] # Null => host[Slot(c)].of = answer[c]
=============================================================================
