------------------------------- MODULE DeadLock -------------------------------
(***************************************************************************)
(* dead_lock_stub.h and dead_lock_stub.c: pthread_mutex_lock and           *)
(* pthread_mutex_unlock record which thread waits for and which holds a    *)
(* lock, before and after the real call, and a thread searches the graph   *)
(* of waiting threads for a cycle.  dead_lock_stub_C++v1.h and _C++v2.h are *)
(* the first versions, with maps of the requests and of the holders: what  *)
(* is not valid, or held 0 times, is not in a map of v1.                   *)
(*                                                                         *)
(* Each record is made under deadlock_mutex and is one action; the real    *)
(* calls are actions of their own in between.                              *)
(***************************************************************************)
EXTENDS Naturals, FiniteSets

CONSTANTS Threads,
          Locks,
          Recursive,   \* the locks of type PTHREAD_MUTEX_RECURSIVE
          MaxDepth,    \* bound on how often a thread holds a lock
          QueueMax     \* MAX_DEAD_MUTEXLOCK_CHECK (100)

NoOne == "nobody"
Versions == {"C++v1", "C++v2", "stub"}

VARIABLES
  version,
  at,     \* place of a thread: <<"run">>, <<"lock", l>> (request recorded), <<"got", l>>
          \* (locked, not recorded), <<"freed", l>> (unlocked, not recorded)
  owner,  \* of a lock
  depth,  \* how often it is locked
  valid, lock_addr,          \* m_thread_apply_lock, of a thread
  thread_id, hold_count,     \* m_lock_belong_thread, of a lock
  handed     \* C++v1: locks recorded for a thread while the last one's record was still there

record == <<valid, lock_addr, thread_id, hold_count, handed>>
vars == <<version, at, owner, depth, record>>

Init ==
  /\ version \in Versions
  /\ at = [t \in Threads |-> <<"run">>]
  /\ owner = [l \in Locks |-> NoOne] /\ depth = [l \in Locks |-> 0]
  /\ valid = [t \in Threads |-> FALSE]
  /\ lock_addr = [t \in Threads |-> CHOOSE l \in Locks : TRUE]
  /\ thread_id = [l \in Locks |-> NoOne] /\ hold_count = [l \in Locks |-> 0]
  /\ handed = {}

-----------------------------------------------------------------------------
(* The records of the three versions.  The points of a lock, where it was locked and the  *)
(* stack then, are as many as its count: only how many they are is kept.                  *)

\* thread_req_lock_init of an entry that thread_req_lock_lookup_or_alloc finds or makes
Request(t, l) ==
  /\ valid' = [valid EXCEPT ![t] = TRUE]
  /\ lock_addr' = [lock_addr EXCEPT ![t] = l]

\* hold_lock_point_init: a point in front of the others
PushPoint(n) == n + 1

\* hold_lock_point_free of the first point, where there is one
PopPoint(n) == IF n > 0 THEN n - 1 ELSE 0

\* thread_hold_lock_pushstack
PushStack(l) == hold_count' = [hold_count EXCEPT ![l] = PushPoint(@)]

\* (A) of deadlockcheck_after
Hold(t, l) == thread_id' = [thread_id EXCEPT ![l] = t] /\ PushStack(l)

\* Mutant: the lock is recorded as free, whoever holds it by now.
PopStack_All(l) == hold_count' = [hold_count EXCEPT ![l] = 0]

\* thread_hold_lock_popstack
PopStack(l) == hold_count' = [hold_count EXCEPT ![l] = PopPoint(@)]

\* Thread_req_lock of C++v1: a request is in the map.
NewReqV1(t, l) ==
  /\ valid' = [valid EXCEPT ![t] = TRUE]
  /\ lock_addr' = [lock_addr EXCEPT ![t] = l]

\* lock_before of C++v1: a request that is there stays.
RequestV1(t, l) == IF valid[t] THEN UNCHANGED <<valid, lock_addr>> ELSE NewReqV1(t, l)

\* Thread_hold_lock of C++v1, which has count 0 and no points
NewHoldV1(t, l) == thread_id' = [thread_id EXCEPT ![l] = t]

\* Thread_hold_lock::putStack
PutStackV1(l) == hold_count' = [hold_count EXCEPT ![l] = @ + 1]

\* lock_after of C++v1: only a new entry gets the thread.
HoldV1(t, l) ==
  /\ IF hold_count[l] > 0 THEN UNCHANGED thread_id ELSE NewHoldV1(t, l)
  /\ PutStackV1(l)

\* popStack, which leaves a list without points alone
PopStackV1(l) == hold_count' = [hold_count EXCEPT ![l] = IF @ > 0 THEN @ - 1 ELSE 0]

\* unlock_after of C++v1: an entry with count 0 is erased.
UnlockedV1(l) == PopStackV1(l)

\* Thread_req_lock::set_req_lock and set_valid of C++v2: a request is kept when it is done.
SetReqLock(t, l) == lock_addr' = [lock_addr EXCEPT ![t] = l]
SetValid(t, v) == valid' = [valid EXCEPT ![t] = v]

\* lock_before of C++v2
RequestV2(t, l) == SetReqLock(t, l) /\ SetValid(t, TRUE)

\* set_hold_lock, or a new Thread_hold_lock, of C++v2
SetHoldLock(t, l) == thread_id' = [thread_id EXCEPT ![l] = t]

\* putStack and popStack of C++v2, with its hold_lock_point_t
PushPointV2(n) == n + 1
PopPointV2(n) == IF n > 0 THEN n - 1 ELSE 0
PutStackV2(l) == hold_count' = [hold_count EXCEPT ![l] = PushPointV2(@)]
PopStackV2(l) == hold_count' = [hold_count EXCEPT ![l] = PopPointV2(@)]

\* lock_after of C++v2
HoldV2(t, l) == SetHoldLock(t, l) /\ PutStackV2(l)

\* unlock_after of C++v2: an entry with count 0 stays.
UnlockedV2(l) == PopStackV2(l)

-----------------------------------------------------------------------------
(* pthread_mutex_lock and pthread_mutex_unlock. *)

\* deadlockcheck_before
Before(t, l) ==
  /\ at[t] = <<"run">>
  /\ owner[l] = t => depth[l] < MaxDepth
  /\ at' = [at EXCEPT ![t] = <<"lock", l>>]
  /\ \/ version = "stub" /\ Request(t, l)
     \/ version = "C++v1" /\ RequestV1(t, l)
     \/ version = "C++v2" /\ RequestV2(t, l)
  /\ UNCHANGED <<version, owner, depth, thread_id, hold_count, handed>>

\* pthread_mutex_lock returns
Available(t, l) == owner[l] = NoOne \/ (owner[l] = t /\ l \in Recursive)
Lock(t, l) ==
  /\ at[t] = <<"lock", l>> /\ Available(t, l)
  /\ owner' = [owner EXCEPT ![l] = t] /\ depth' = [depth EXCEPT ![l] = @ + 1]
  /\ at' = [at EXCEPT ![t] = <<"got", l>>]
  /\ UNCHANGED <<version, record>>

\* (B) of deadlockcheck_after
Requested(t) == valid' = [valid EXCEPT ![t] = FALSE]

\* deadlockcheck_after
After(t, l) ==
  /\ at[t] = <<"got", l>>
  /\ Requested(t)
  /\ \/ version = "stub" /\ Hold(t, l)
     \/ version = "C++v1" /\ HoldV1(t, l)
     \/ version = "C++v2" /\ HoldV2(t, l)
  /\ handed' = IF version = "C++v1" /\ hold_count[l] > 0 /\ thread_id[l] # t
               THEN handed \cup {l} ELSE handed
  /\ at' = [at EXCEPT ![t] = <<"run">>]
  /\ UNCHANGED <<version, owner, depth, lock_addr>>

\* pthread_mutex_unlock: the lock is free before its record is.
Unlock(t, l) ==
  /\ at[t] = <<"run">> /\ owner[l] = t
  /\ depth' = [depth EXCEPT ![l] = @ - 1]
  /\ owner' = IF depth[l] = 1 THEN [owner EXCEPT ![l] = NoOne] ELSE owner
  /\ at' = [at EXCEPT ![t] = <<"freed", l>>]
  /\ UNCHANGED <<version, record>>

\* deadlockcheck_unlock_after
UnlockAfter(t, l) ==
  /\ at[t] = <<"freed", l>>
  /\ \/ version = "stub" /\ PopStack(l)
     \/ version = "C++v1" /\ UnlockedV1(l)
     \/ version = "C++v2" /\ UnlockedV2(l)
  /\ handed' = IF hold_count[l] =< 1 THEN handed \ {l} ELSE handed
  /\ at' = [at EXCEPT ![t] = <<"run">>]
  /\ UNCHANGED <<version, owner, depth, valid, lock_addr, thread_id>>

Next ==
  \E t \in Threads, l \in Locks :
    Before(t, l) \/ Lock(t, l) \/ After(t, l) \/ Unlock(t, l) \/ UnlockAfter(t, l)

-----------------------------------------------------------------------------
(* The check, made under the mutex each five seconds or on demand: at any time. *)

\* _check_dead_lock_stub: requests of locks that are held
Waits(t) == valid[t] /\ hold_count[lock_addr[t]] > 0

\* The same of C++v1, where the entry of a lock that nobody holds is not found
WaitsV1(t) == valid[t] /\ hold_count[lock_addr[t]] # 0

\* The same of C++v2, where the entries stay: is_valid, and a count that is not 0
WaitsV2(t) == valid[t] /\ thread_id[lock_addr[t]] # NoOne /\ hold_count[lock_addr[t]] # 0

Waiting(t) ==
  \/ version = "stub" /\ Waits(t)
  \/ version = "C++v1" /\ WaitsV1(t)
  \/ version = "C++v2" /\ WaitsV2(t)

\* The graph of who waits for whom; a thread has at most one request, so at most one edge
\* leaves it.
Edges == {<<t, thread_id[lock_addr[t]]>> : t \in {u \in Threads : Waiting(u)}}
Vertices == {e[1] : e \in Edges} \cup {e[2] : e \in Edges}
Indegress(v) == Cardinality({e \in Edges : e[2] = v})

\* graphics_queue_push_back: what finds the queue full is dropped; the deques of the C++
\* versions take all.
DequeV1(q, V) == q \cup V
Deque(q, V) == q \cup V
Pushed(q, V) ==
  CHOOSE r \in SUBSET (q \cup V) :
    q \subseteq r /\ (r = q \cup V \/ (Cardinality(r) = QueueMax /\ Cardinality(q \cup V) > QueueMax))
Push(q, V) ==
  CASE version = "stub" -> Pushed(q, V)
    [] version = "C++v1" -> DequeV1(q, V)
    [] version = "C++v2" -> Deque(q, V)

\* The sort after n vertices: the queue, the indegress and the counter
Zero(d, V) == {v \in V : d[v] = 0}
Sort ==
  LET edges == Edges
      vertices == Vertices
      d0 == [v \in vertices |-> Indegress(v)]
      s[n \in 0 .. Cardinality(Threads)] ==
        IF n = 0 THEN [q |-> Push({}, Zero(d0, vertices)), d |-> d0,
                       counter |-> Cardinality(Zero(d0, vertices))]
        ELSE LET p == s[n - 1]
             IN IF p.q = {} THEN p
                ELSE LET v == CHOOSE v \in p.q : TRUE
                         succ == {e[2] : e \in {f \in edges : f[1] = v}}
                         d == [w \in vertices |-> IF w \in succ THEN p.d[w] - 1 ELSE p.d[w]]
                     IN [q |-> Push(p.q \ {v}, Zero(d, succ)), d |-> d,
                         counter |-> p.counter + Cardinality(Zero(d, succ))]
  IN s[Cardinality(Threads)]

\* "Found Dead Lock", of the three versions
Found == Sort.counter # Cardinality(Vertices)

\* thread_hold_lock_show of the locks recorded for a thread: not those with count 0
HoldShown(t) == {l \in Locks : thread_id[l] = t /\ hold_count[l] # 0}

\* The same of C++v1, whose map has no others
HoldShownV1(t) == {l \in Locks : hold_count[l] > 0 /\ thread_id[l] = t}

\* The same of C++v2: also the locks that it had last and that are free
HoldShownV2(t) == {l \in Locks : thread_id[l] = t}

\* show_dead_lock_infomation: the threads that the sort leaves, the lock that each waits
\* for and those that it holds.  A thread without a request is "wrong"; a request that is
\* done is found in the lists and maps that keep it.
Left == LET d == Sort.d IN {v \in Vertices : d[v] # 0}
Info(v) == [thread |-> v, wait |-> {lock_addr[v]}, hold |-> HoldShown(v)]
InfoV1(v) == [thread |-> v, wait |-> IF valid[v] THEN {lock_addr[v]} ELSE {},
              hold |-> IF valid[v] THEN HoldShownV1(v) ELSE {}]
InfoV2(v) == [thread |-> v, wait |-> {lock_addr[v]}, hold |-> HoldShownV2(v)]
Reports ==
  IF ~Found THEN {}
  ELSE {CASE version = "stub" -> Info(v)
          [] version = "C++v1" -> InfoV1(v)
          [] version = "C++v2" -> InfoV2(v) : v \in Left}
Shown(reports) == {r.thread : r \in reports}

\* check_wait_lock_time, when nothing was found: the threads whose request is older than
\* WAIT_MUTEXLOCK_TIMEOUT, as any may be, and who is said to have the lock
WaitedOut(t) == [thread |-> t, lock |-> lock_addr[t],
                 by |-> IF hold_count[lock_addr[t]] # 0 THEN {thread_id[lock_addr[t]]} ELSE {}]

\* The same of C++v1
WaitedOutV1(t) == [thread |-> t, lock |-> lock_addr[t],
                   by |-> IF hold_count[lock_addr[t]] > 0 THEN {thread_id[lock_addr[t]]} ELSE {}]

\* The same of C++v2: who had a lock last, if anyone had it
WaitedOutV2(t) == [thread |-> t, lock |-> lock_addr[t],
                   by |-> {thread_id[lock_addr[t]]} \ {NoOne}]
Waited ==
  IF Found THEN {}
  ELSE {CASE version = "stub" -> WaitedOut(t)
          [] version = "C++v1" -> WaitedOutV1(t)
          [] version = "C++v2" -> WaitedOutV2(t) : t \in {u \in Threads : valid[u]}}

\* _show_thread_locks_info: all requests, and all locks that are held
LocksInfo == [waited |-> {<<t, lock_addr[t]>> : t \in {u \in Threads : valid[u]}},
              held |-> {<<thread_id[l], l>> : l \in {k \in Locks : hold_count[k] # 0}}]

-----------------------------------------------------------------------------
\* The real graph: threads in pthread_mutex_lock of a lock that they do not get
Blocked(t) == at[t][1] = "lock" /\ ~Available(t, at[t][2])
DeadLocked ==
  UNION {T \in SUBSET Threads : /\ \A t \in T : Blocked(t)
                                /\ {owner[at[t][2]] : t \in T} = T}
Owned(t) == {l \in Locks : owner[l] = t}

\* No record is due: each thread runs or waits for a lock that another one has.
Settled == \A t \in Threads : at[t] = <<"run">> \/ Blocked(t)

\* The threads of a deadlock are shown by any check that comes after it, whatever the
\* records of other threads lag behind.  Unless the record of a lock or unlock was due, who
\* is shown is in a deadlock, with the lock that it waits for and those that it holds; who
\* is said to wait too long is kept waiting by who is said to hold the lock; and the list
\* of the locks is right.  C++v1 does so unless a lock was recorded for a thread before the
\* last one's unlock was: it keeps the thread that it knows.  C++v2 shows more: as held
\* also the free locks that a thread had last.
FindsDeadLocks ==
  LET dead == DeadLocked
      reports == Reports
  IN
  handed = {} =>
    /\ dead \subseteq Shown(reports)
    /\ Settled =>
         /\ \A r \in reports :
              /\ r.thread \in dead /\ r.wait = {at[r.thread][2]}
              /\ Owned(r.thread) \subseteq r.hold
              /\ \A l \in r.hold : owner[l] = r.thread \/ (version = "C++v2" /\ owner[l] = NoOne)
         /\ \A w \in Waited :
              Blocked(w.thread) /\ w.lock = at[w.thread][2] /\ w.by = {owner[w.lock]}
         /\ LocksInfo = [waited |-> {<<t, at[t][2]>> : t \in {u \in Threads : Blocked(u)}},
                         held |-> {<<owner[l], l>> : l \in {k \in Locks : owner[k] # NoOne}}]
=============================================================================
