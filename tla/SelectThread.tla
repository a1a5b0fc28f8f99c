----------------------------- MODULE SelectThread -----------------------------
(***************************************************************************)
(* zebra/cl_thread.c: the event loop over select, one thread.  Structures  *)
(* (cl_thread_t) are on a list per kind; timers are on one list per        *)
(* interval, of which only the first is looked at; descriptors are in the  *)
(* sets given to select.  The clock getmsec wraps.                         *)
(*                                                                         *)
(* What the callbacks do between two fetches is any sequence of additions  *)
(* and cancellations.  cl_thread_fetch_lock differs by the lock around the *)
(* timers; CL_THREAD_TIMER_ON_LOCK from other threads is not modelled.     *)
(***************************************************************************)
EXTENDS Integers, SequencesExt, FiniteSetsExt

CONSTANTS Structs,     \* bound: cl_thread_t structures, 1 .. n
          Socks,
          Intervals,   \* of timers, below half of Width
          Width,       \* 2^32
          MaxClock     \* bound: on the clock

Kinds == {"read", "write", "event", "ready", "unuse"}

VARIABLES
  list,        \* of a kind: its list
  timer,       \* time_node_t's: interval, th_head
  fdset,       \* readfd, writefd
  u,           \* of a structure: fd, timeout or val; here 0 when it is unused
  clock,       \* milliseconds, not wrapped
  expiry,      \* of a timer: when it expires, not wrapped; of others 0
  allocated    \* structures calloc'ed so far

vars == <<list, timer, fdset, u, clock, expiry, allocated>>

\* cl_thread_init, at a time shortly before the clock wraps
Init ==
  /\ list = [k \in Kinds |-> <<>>] /\ timer = <<>>
  /\ fdset = [k \in {"read", "write"} |-> {}]
  /\ u = [t \in Structs |-> 0] /\ expiry = [t \in Structs |-> 0]
  /\ clock = Width - 2 /\ allocated = 0

getmsec == clock % Width

u32_is_bigger(a, b) == a # b /\ (a - b) % Width < Width \div 2 - 1

\* cl_thread_get: what it returns, and what it leaves unused
Got == IF list["unuse"] # <<>> THEN Head(list["unuse"]) ELSE allocated + 1
GetThread ==
  /\ Got \in Structs
  /\ allocated' = IF list["unuse"] # <<>> THEN allocated ELSE allocated + 1
Unused == IF list["unuse"] # <<>> THEN Tail(list["unuse"]) ELSE <<>>

\* cl_thread_add_read, cl_thread_add_write
AddFd(k, s) ==
  /\ s \notin fdset[k] /\ GetThread
  /\ fdset' = [fdset EXCEPT ![k] = @ \cup {s}]
  /\ u' = [u EXCEPT ![Got] = s]
  /\ list' = [list EXCEPT ![k] = <<Got>> \o @, !["unuse"] = Unused]
  /\ UNCHANGED <<timer, clock, expiry>>

\* The timer lists with a new timer
Timed(t, i) ==
  IF \E n \in DOMAIN timer : timer[n].interval = i
  THEN [n \in DOMAIN timer |->
          IF timer[n].interval = i THEN [timer[n] EXCEPT !.th_head = Append(@, t)] ELSE timer[n]]
  ELSE Append(timer, [interval |-> i, th_head |-> <<t>>])

\* cl_thread_add_timer
AddTimer(i) ==
  /\ GetThread
  /\ u' = [u EXCEPT ![Got] = (getmsec + i) % Width]
  /\ expiry' = [expiry EXCEPT ![Got] = clock + i]
  /\ timer' = Timed(Got, i)
  /\ list' = [list EXCEPT !["unuse"] = Unused]
  /\ UNCHANGED <<fdset, clock>>

\* cl_thread_add_event
AddEvent ==
  /\ GetThread
  /\ list' = [list EXCEPT !["event"] = Append(@, Got), !["unuse"] = Unused]
  /\ u' = [u EXCEPT ![Got] = 0]
  /\ UNCHANGED <<timer, fdset, clock, expiry>>

Timers == UNION {Range(timer[n].th_head) : n \in DOMAIN timer}
NoTimer(t) == [n \in DOMAIN timer |-> [timer[n] EXCEPT !.th_head = SelectSeq(@, LAMBDA x : x # t)]]
Unlinked(t) == [k \in Kinds |-> SelectSeq(list[k], LAMBDA x : x # t)]

\* cl_thread_run, and the end of cl_thread_cancel: t is unused, the other lists become l
Unuse(l, t) ==
  /\ list' = [l EXCEPT !["unuse"] = <<t>> \o @]
  /\ u' = [u EXCEPT ![t] = 0] /\ expiry' = [expiry EXCEPT ![t] = 0]

\* cl_thread_cancel of a structure that is waiting
Cancel(t) ==
  /\ t =< allocated /\ ~Contains(list["unuse"], t)
  /\ fdset' = [k \in {"read", "write"} |->
                 IF Contains(list[k], t) THEN fdset[k] \ {u[t]} ELSE fdset[k]]
  /\ timer' = NoTimer(t)
  /\ Unuse(Unlinked(t), t)
  /\ UNCHANGED <<clock, allocated>>

\* cl_thread_fetch: an event, ...
FetchEvent ==
  /\ list["event"] # <<>>
  /\ LET t == Head(list["event"]) IN Unuse(Unlinked(t), t)
  /\ UNCHANGED <<timer, fdset, clock, allocated>>

DueHeads == {n \in DOMAIN timer :
               timer[n].th_head # <<>> /\ u32_is_bigger(getmsec, u[Head(timer[n].th_head)])}

\* ... or the head of the first timer list with one that is due, ...
FetchTimer ==
  /\ list["event"] = <<>> /\ DueHeads # {}
  /\ LET t == Head(timer[Min(DueHeads)].th_head)
     IN timer' = NoTimer(t) /\ Unuse(list, t)
  /\ UNCHANGED <<fdset, clock, allocated>>

\* ... or a ready one, ...
FetchReady ==
  /\ list["event"] = <<>> /\ DueHeads = {} /\ list["ready"] # <<>>
  /\ LET t == Head(list["ready"]) IN Unuse(Unlinked(t), t)
  /\ UNCHANGED <<timer, fdset, clock, allocated>>

\* The set select is given next, without the descriptors s that are ready
Cleared(k, s) == fdset[k] \ s

Ready(k, s) == SelectSeq(list[k], LAMBDA t : u[t] \in s)

\* ... or what select and cl_thread_process_fd give: each one found is put first
Select(r, w) ==
  /\ list["event"] = <<>> /\ DueHeads = {} /\ list["ready"] = <<>>
  /\ r \subseteq fdset["read"] /\ w \subseteq fdset["write"] /\ r \cup w # {}
  /\ fdset' = [read |-> Cleared("read", r), write |-> Cleared("write", w)]
  /\ LET found == Reverse(Ready("write", w)) \o Reverse(Ready("read", r))
     IN Unuse([list EXCEPT !["read"] = SelectSeq(@, LAMBDA t : u[t] \notin r),
                         !["write"] = SelectSeq(@, LAMBDA t : u[t] \notin w),
                         !["ready"] = Tail(found)], Head(found))
  /\ UNCHANGED <<timer, clock, allocated>>

Fetch == FetchEvent \/ FetchTimer \/ FetchReady \/ (\E r, w \in SUBSET Socks : Select(r, w))

\* cl_thread_fetch_lock: in one thread the lock around the timers changes nothing.
FetchLock == Fetch

FreeAllThread(l) == Range(l)
FreeAllTimer == UNION {FreeAllThread(timer[n].th_head) : n \in DOMAIN timer}
Freed == UNION {FreeAllThread(list[k]) : k \in Kinds} \cup FreeAllTimer

\* cl_thread_stop, and cl_thread_init for the next loop
Stop ==
  /\ allocated > 0
  /\ allocated' = allocated - Cardinality(Freed)
  /\ list' = [k \in Kinds |-> <<>>] /\ timer' = <<>> /\ fdset' = [k \in {"read", "write"} |-> {}]
  /\ u' = [t \in Structs |-> 0] /\ expiry' = [t \in Structs |-> 0]
  /\ UNCHANGED clock

\* The loop comes back to the timers within half of Width
Elapse ==
  /\ clock < MaxClock /\ \A t \in Timers : clock + 1 - expiry[t] < Width \div 2 - 1
  /\ clock' = clock + 1
  /\ UNCHANGED <<list, timer, fdset, u, expiry, allocated>>

Next ==
  \/ \E s \in Socks, k \in {"read", "write"} : AddFd(k, s)
  \/ \E i \in Intervals : AddTimer(i)
  \/ AddEvent
  \/ \E t \in Structs : Cancel(t)
  \/ Fetch \/ FetchLock \/ Stop \/ Elapse

-----------------------------------------------------------------------------
\* What the loop relies on, over any history of additions and cancellations and across
\* the wrap of getmsec: a timer that looks due has expired, and when no head looks due
\* (the loop goes on to select) none behind a head has expired; select watches exactly
\* the descriptors that have a structure waiting, so that none is ready twice or
\* forgotten; and no structure is on two lists or lost, so that stop frees each once.
SelectServes ==
  /\ \A n \in DueHeads : clock > expiry[Head(timer[n].th_head)]
  /\ DueHeads = {} => \A t \in Timers : clock =< expiry[t]
  /\ \A k \in {"read", "write"} :
       fdset[k] = {u[t] : t \in Range(list[k])} /\ Cardinality(fdset[k]) = Len(list[k])
  /\ \A t \in 1 .. allocated :
       Cardinality({k \in Kinds : Contains(list[k], t)}) + (IF t \in Timers THEN 1 ELSE 0) = 1
=============================================================================
