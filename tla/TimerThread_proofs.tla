-------------------------- MODULE TimerThread_proofs --------------------------
(***************************************************************************)
(* For any user threads, events, queues, periods, counts and bursts: a     *)
(* thread has one queue with the tasks of its own timers, and unless a     *)
(* timer is unset in the middle of its own itimer_evt_cb, the timer thread *)
(* works on no destroyed event and no call is lost or made twice.          *)
(***************************************************************************)
EXTENDS TimerThread, FiniteSetTheorems, SequenceTheorems, TLAPS

------------------------------------------------------------------------------
(* Quotients and remainders by numbers whose value is not known. *)

\* The quotient and the remainder of a number.
LEMMA DivMod ==
  ASSUME NEW d \in Nat, d > 0, NEW x \in Int
  PROVE  x % d \in 0 .. d - 1 /\ x \div d \in Int /\ x = d * (x \div d) + (x % d)
OBVIOUS

\* There is one remainder.
LEMMA Remainder ==
  ASSUME NEW d \in Nat, d > 0, NEW q \in Int, NEW r \in 0 .. d - 1, NEW x \in Int, x = d * q + r
  PROVE  x % d = r
OBVIOUS

\* A number below w, and one step further.
LEMMA NextIs ==
  ASSUME NEW w \in Nat, w > 0, NEW x \in 0 .. w - 1
  PROVE  /\ x % w = x
         /\ (x + 1) % w = IF x + 1 = w THEN 0 ELSE x + 1
<1>1. x = w * 0 + x  OBVIOUS
<1>2. x % w = x  BY <1>1, Remainder
<1>3. CASE x + 1 = w
  <2>1. x + 1 = w * 1 + 0 /\ 0 \in 0 .. w - 1  BY <1>3
  <2> QED  BY <1>2, <1>3, <2>1, Remainder
<1>4. CASE x + 1 # w
  <2>1. x + 1 \in 0 .. w - 1 /\ x + 1 = w * 0 + (x + 1)  BY <1>4
  <2> QED  BY <1>2, <1>4, <2>1, Remainder
<1> QED  BY <1>3, <1>4

EventSet == [handle : 0 .. LastHandle, pooled : BOOLEAN, node : {"off", "wheel", "queued"},
             left : Nat, ok : BOOLEAN, mgr : BOOLEAN, period : Nat, repeat : Nat,
             running : BOOLEAN, end : BOOLEAN, task : Slots \cup {NoTask}]
TimerSet == [pc : {"idle", "cb", "arm", "stop", "push"}, e : Evts, count : Nat]
QueueSet == [tid : Users \cup {Nobody}, lock : Users \cup {Nobody}, tasks : Seq(Handles)]
UserSet == [pc : {"run", "set", "enter", "update", "task"}, back : {"run", "task"}, e : Evts,
            key : Slots \cup {NoTask}, probe : Slots, got : BOOLEAN]
AskedSet == [tid : Users \cup {Nobody}, key : Slots \cup {NoTask}, repeat : Nat]

Types ==
  /\ evt \in [Evts -> EventSet] /\ ghandle \in 1 .. LastHandle + 1
  /\ timer \in TimerSet /\ crash \in {"no", "null", "assert"}
  /\ queue \in [Slots -> QueueSet] /\ user \in [Users -> UserSet]
  /\ asked \in [Handles -> AskedSet] /\ done \in [Handles -> Nat]

\* Another thread's queue
Others(u, k) == queue[k].tid \notin {Nobody, u}

\* In GetTask, the search not over
Searches(u) == user[u].pc \in {"set", "enter"} /\ ~Found(u) /\ ~user[u].got

First(u) == u % MAX_THREAD_TASK

\* The queue a thread remembers or has just found is its own, and it has no other.
Keys ==
  \A u \in Users :
    /\ user[u].key > 0 => queue[user[u].key].tid = u /\ queue[0].tid # u
    /\ user[u].got /\ user[u].key = 0 => queue[0].tid = u
    /\ \A k \in Slots : queue[k].tid = u => k \in {0, user[u].key}
    /\ user[u].key = NoTask => \A k \in Slots : queue[k].tid # u

\* Queue 0 is found again by every search: what comes before it is not free.
Path ==
  \A u \in Users :
    /\ queue[0].tid = u /\ First(u) # 0 => \A k \in First(u) .. MAX_THREAD_TASK - 1 : Others(u, k)
    /\ Searches(u) =>
         /\ user[u].probe >= First(u) => \A k \in First(u) .. user[u].probe - 1 : Others(u, k)
         /\ user[u].probe < First(u) => \A k \in First(u) .. MAX_THREAD_TASK - 1 : Others(u, k)
         /\ user[u].probe < First(u) => \A k \in 0 .. user[u].probe - 1 : Others(u, k)

\* Inside itimer_update_timer, with the lock
Holds(u) == user[u].pc \in {"update", "task"} \/ (user[u].pc = "set" /\ user[u].back = "task")

Locks ==
  /\ \A u \in Users : Holds(u) => /\ user[u].key # NoTask
                                  /\ queue[user[u].key].lock = u /\ queue[user[u].key].tid = u
  /\ \A k \in Slots, u \in Users : queue[k].lock = u => Holds(u) /\ user[u].key = k

\* In the callback of its first task
InTask(u) == user[u].pc = "task" \/ (user[u].pc = "set" /\ user[u].back = "task")

Tasks ==
  /\ \A k \in Slots : \A i \in DOMAIN queue[k].tasks :
       /\ asked[queue[k].tasks[i]].tid = queue[k].tid
       /\ asked[queue[k].tasks[i]].tid # Nobody
  /\ \A u \in Users : InTask(u) => user[u].key # NoTask /\ queue[user[u].key].tasks # <<>>
  /\ \A h \in Handles : asked[h].key # NoTask =>
       asked[h].tid # Nobody /\ queue[asked[h].key].tid = asked[h].tid

\* Handles name events and timers.
Named ==
  /\ \A e \in Evts : evt[e].handle < ghandle
  /\ \A e \in Evts : ~evt[e].pooled => evt[e].handle > 0
  /\ \A d, e \in Evts : ~evt[d].pooled /\ ~evt[e].pooled /\ evt[d].handle = evt[e].handle => d = e
  /\ \A h \in Handles : h >= ghandle => asked[h].tid = Nobody
  /\ \A h \in Handles : asked[h].tid = Nobody => asked[h].key = NoTask /\ done[h] = 0

\* An event that is set and not started yet is this thread's.
Reserved ==
  /\ \A u \in Users : user[u].pc = "set" =>
       /\ ~evt[user[u].e].pooled /\ ~evt[user[u].e].ok
  /\ \A u, v \in Users : user[u].pc = "set" /\ user[v].pc = "set" /\ user[u].e = user[v].e => u = v

\* An event in use knows its timer, and has the task of the thread that set it.
Live ==
  \A e \in Evts :
    /\ evt[e].ok => /\ ~evt[e].pooled
                    /\ asked[evt[e].handle].tid # Nobody
                    /\ evt[e].task = asked[evt[e].handle].key
    /\ ~evt[e].ok /\ ~evt[e].pooled => asked[evt[e].handle].tid = Nobody

\* What its node and its counters can be
Sound ==
  \A e \in Evts :
    /\ evt[e].ok => /\ (evt[e].repeat = 0) = (asked[evt[e].handle].repeat = 0)
                    /\ evt[e].end \/ evt[e].mgr
    /\ ~evt[e].ok => evt[e].node = "off" /\ ~evt[e].end
    /\ evt[e].end => timer.pc = "push" /\ timer.e = e /\ evt[e].node = "off"

\* Where the timer thread is with its event
TimerInv ==
  /\ timer.pc # "idle" => evt[timer.e].ok
  /\ timer.pc = "push" => evt[timer.e].running

Uses == Named /\ Reserved /\ Live

IInv == Types /\ Keys /\ Path /\ Locks /\ Tasks /\ Uses

\* While no timer is unset in the middle of its own itimer_evt_cb
Safe == crash = "no" /\ Sound /\ TimerInv

-------------------------------------------------------------------------------
LEMMA Slot ==
  /\ 0 \in Slots /\ MAX_THREAD_TASK \in Nat \ {0} /\ NoTask \notin Slots
  /\ \A u \in Users : u \in Nat /\ u # Nobody /\ First(u) \in Slots
  /\ \A k \in Slots : /\ k \in Nat /\ k < MAX_THREAD_TASK
                      /\ NextSlot(k) \in Slots
                      /\ NextSlot(k) = IF k + 1 = MAX_THREAD_TASK THEN 0 ELSE k + 1
<1>1. MAX_THREAD_TASK \in Nat /\ MAX_THREAD_TASK > 0 /\ Slots = 0 .. MAX_THREAD_TASK - 1
  BY ThreadAssumption DEF Slots
<1>2. 0 \in Slots /\ NoTask \notin Slots /\ MAX_THREAD_TASK \in Nat \ {0}  BY <1>1 DEF NoTask
<1>3. ASSUME NEW u \in Users  PROVE u \in Nat /\ u # Nobody /\ First(u) \in Slots
  <2>1. u \in Nat /\ u # Nobody  BY ThreadAssumption DEF Nobody
  <2> QED  BY <1>1, <2>1, DivMod DEF First
<1>4. ASSUME NEW k \in Slots
      PROVE  /\ k \in Nat /\ k < MAX_THREAD_TASK /\ NextSlot(k) \in Slots
             /\ NextSlot(k) = IF k + 1 = MAX_THREAD_TASK THEN 0 ELSE k + 1
  <2>1. NextSlot(k) = IF k + 1 = MAX_THREAD_TASK THEN 0 ELSE k + 1
    BY <1>1, NextIs DEF NextSlot
  <2>2. k \in Nat /\ k < MAX_THREAD_TASK  BY <1>1
  <2>3. NextSlot(k) \in 0 .. MAX_THREAD_TASK - 1  BY <1>1, <2>1, <2>2
  <2> QED  BY <1>1, <2>1, <2>2, <2>3
<1> QED  BY <1>2, <1>3, <1>4

\* The fields of the records
LEMMA Fields ==
  ASSUME Types
  PROVE  /\ \A e \in Evts : /\ evt[e].handle \in 0 .. LastHandle /\ evt[e].pooled \in BOOLEAN
                            /\ evt[e].node \in {"off", "wheel", "queued"} /\ evt[e].left \in Nat
                            /\ evt[e].ok \in BOOLEAN /\ evt[e].mgr \in BOOLEAN
                            /\ evt[e].period \in Nat /\ evt[e].repeat \in Nat
                            /\ evt[e].running \in BOOLEAN /\ evt[e].end \in BOOLEAN
                            /\ evt[e].task \in Slots \cup {NoTask}
         /\ timer.pc \in {"idle", "cb", "arm", "stop", "push"} /\ timer.e \in Evts
         /\ timer.count \in Nat
         /\ \A k \in Slots : /\ queue[k].tid \in Users \cup {Nobody}
                             /\ queue[k].lock \in Users \cup {Nobody}
                             /\ queue[k].tasks \in Seq(Handles)
         /\ \A u \in Users : /\ user[u].pc \in {"run", "set", "enter", "update", "task"}
                             /\ user[u].back \in {"run", "task"} /\ user[u].e \in Evts
                             /\ user[u].key \in Slots \cup {NoTask} /\ user[u].probe \in Slots
                             /\ user[u].got \in BOOLEAN
         /\ \A h \in Handles : /\ asked[h].tid \in Users \cup {Nobody}
                               /\ asked[h].key \in Slots \cup {NoTask}
                               /\ asked[h].repeat \in Nat /\ done[h] \in Nat
BY DEF Types, EventSet, TimerSet, QueueSet, UserSet, AskedSet

\* A function that is changed at one place
LEMMA Changed ==
  \A S, T, f, x, y : f \in [S -> T] /\ x \in S /\ y \in T =>
    /\ [f EXCEPT ![x] = y] \in [S -> T] /\ [f EXCEPT ![x] = y][x] = y
    /\ \A z \in S : z # x => [f EXCEPT ![x] = y][z] = f[z]
OBVIOUS

LEMMA TailType ==
  ASSUME NEW S, NEW s \in Seq(S), s # <<>>
  PROVE  Tail(s) \in Seq(S)
OBVIOUS

LEMMA Tailed ==
  ASSUME NEW S, NEW s \in Seq(S), s # <<>>, NEW i \in DOMAIN Tail(s)
  PROVE  i \in Nat /\ i + 1 \in DOMAIN s /\ Tail(s)[i] = s[i + 1]
OBVIOUS

LEMMA Appended ==
  ASSUME NEW S, NEW s \in Seq(S), NEW x \in S
  PROVE  /\ Append(s, x) # <<>>
         /\ \A i \in DOMAIN Append(s, x) :
              (i \in DOMAIN s /\ Append(s, x)[i] = s[i]) \/ Append(s, x)[i] = x
OBVIOUS

LEMMA UserGoes ==
  ASSUME NEW r \in UserSet, NEW p \in {"run", "set", "enter", "update", "task"}, NEW g \in BOOLEAN
  PROVE  [r EXCEPT !.pc = p] \in UserSet /\ [r EXCEPT !.pc = p, !.got = g] \in UserSet
BY DEF UserSet

LEMMA UserFinds ==
  ASSUME NEW r \in UserSet, NEW k \in Slots \cup {NoTask}
  PROVE  [r EXCEPT !.key = k, !.got = TRUE] \in UserSet
BY DEF UserSet

LEMMA UserProbes ==
  ASSUME NEW r \in UserSet, NEW n \in Slots
  PROVE  [r EXCEPT !.probe = n] \in UserSet /\ [r EXCEPT !.pc = "enter", !.probe = n] \in UserSet
BY DEF UserSet

LEMMA UserSets ==
  ASSUME NEW r \in UserSet, NEW b \in {"run", "task"}, NEW e \in Evts, NEW n \in Slots
  PROVE  [r EXCEPT !.pc = "set", !.back = b, !.e = e, !.probe = n] \in UserSet
BY DEF UserSet

LEMMA QueueOwned ==
  ASSUME NEW q \in QueueSet, NEW u \in Users \cup {Nobody}
  PROVE  [q EXCEPT !.tid = u] \in QueueSet /\ [q EXCEPT !.lock = u] \in QueueSet
BY DEF QueueSet

LEMMA QueueFilled ==
  ASSUME NEW q \in QueueSet, NEW t \in Seq(Handles)
  PROVE  [q EXCEPT !.tasks = t] \in QueueSet
BY DEF QueueSet

-------------------------------------------------------------------------------
(* What each action changes *)

\* All but u are as they were.
OnlyUser(u) == \A v \in Users \ {u} : user'[v] = user[v]
OnlyQueue(k) == \A j \in Slots \ {k} : queue'[j] = queue[j]
OnlyEvent(e) == \A d \in Evts \ {e} : evt'[d] = evt[d]

TimerNow(p, e, c) == timer'.pc = p /\ timer'.e = e /\ timer'.count = c
UserNow(u, p, b, e, k, n, g) ==
  /\ user'[u].pc = p /\ user'[u].back = b /\ user'[u].e = e
  /\ user'[u].key = k /\ user'[u].probe = n /\ user'[u].got = g
QueueNow(k, u, l, t) == queue'[k].tid = u /\ queue'[k].lock = l /\ queue'[k].tasks = t
EventNow(e, h, p, n, k, m, r, g, d, t) ==
  /\ evt'[e].handle = h /\ evt'[e].pooled = p /\ evt'[e].node = n /\ evt'[e].ok = k
  /\ evt'[e].mgr = m /\ evt'[e].repeat = r /\ evt'[e].running = g /\ evt'[e].end = d
  /\ evt'[e].task = t

LEMMA EnterIs ==
  ASSUME Types, NEW u \in Users, Enter(u)
  PROVE  /\ Types' /\ user[u].pc = "run" /\ OnlyUser(u)
         /\ UserNow(u, "enter", user[u].back, user[u].e, user[u].key, First(u), user[u].got)
         /\ UNCHANGED <<evt, ghandle, timer, queue, crash, asked, done>>
<1> DEFINE r == [user[u] EXCEPT !.pc = "enter", !.probe = First(u)]
<1>1. r \in UserSet  BY Slot, UserProbes DEF Types
<1>2. user' = [user EXCEPT ![u] = r] /\ UNCHANGED <<evt, ghandle, timer, queue, crash, asked, done>>
  BY DEF Enter, First, history
<1>3. user' \in [Users -> UserSet] /\ user'[u] = r /\ OnlyUser(u)
  BY <1>1, <1>2, Changed DEF Types, OnlyUser
<1>4. Types'  BY <1>2, <1>3 DEF Types
<1>5. UserNow(u, "enter", user[u].back, user[u].e, user[u].key, First(u), user[u].got)
  BY <1>3 DEF Types, UserSet, UserNow
<1> QED  BY <1>2, <1>3, <1>4, <1>5 DEF Enter, UserAt

LEMMA ProbeIs ==
  ASSUME Types, NEW u \in Users, Probe(u)
  PROVE  LET k == user[u].probe IN
         /\ Types' /\ Searches(u) /\ OnlyUser(u) /\ queue[k].lock = Nobody
         /\ \/ /\ queue[k].tid \in {Nobody, u}
               /\ OnlyQueue(k) /\ QueueNow(k, u, Nobody, queue[k].tasks)
               /\ UserNow(u, user[u].pc, user[u].back, user[u].e, k, k, TRUE)
            \/ /\ Others(u, k) /\ queue' = queue /\ NextSlot(k) = First(u)
               /\ UserNow(u, user[u].pc, user[u].back, user[u].e, NoTask, k, TRUE)
            \/ /\ Others(u, k) /\ queue' = queue /\ NextSlot(k) # First(u)
               /\ UserNow(u, user[u].pc, user[u].back, user[u].e, user[u].key, NextSlot(k), FALSE)
         /\ UNCHANGED <<evt, ghandle, timer, crash, asked, done>>
<1> DEFINE k == user[u].probe
<1>1. k \in Slots /\ user[u] \in UserSet /\ queue[k] \in QueueSet  BY Fields DEF Types
<1>2. UNCHANGED <<evt, ghandle, timer, crash, asked, done>>  BY DEF Probe, history
<1>3. Searches(u) /\ queue[k].lock = Nobody /\ user[u].got = FALSE
  BY <1>1 DEF Probe, UserAt, Searches, UserSet
<1>4. CASE queue[k].tid \in {Nobody, u}
  <2> DEFINE q == [queue[k] EXCEPT !.tid = u]
             r == [user[u] EXCEPT !.key = k, !.got = TRUE]
  <2>1. queue' = [queue EXCEPT ![k] = q] /\ user' = [user EXCEPT ![u] = r]  BY <1>4 DEF Probe
  <2>2. q \in QueueSet /\ r \in UserSet  BY <1>1, QueueOwned, UserFinds
  <2>3. /\ queue' \in [Slots -> QueueSet] /\ queue'[k] = q /\ OnlyQueue(k)
        /\ user' \in [Users -> UserSet] /\ user'[u] = r /\ OnlyUser(u)
    BY <2>1, <2>2, <1>1, Changed DEF Types, OnlyQueue, OnlyUser
  <2>4. Types'  BY <2>3, <1>2 DEF Types
  <2>5. QueueNow(k, u, Nobody, queue[k].tasks)  BY <2>3, <1>1, <1>3 DEF QueueSet, QueueNow
  <2>6. UserNow(u, user[u].pc, user[u].back, user[u].e, k, k, TRUE)
    BY <2>3, <1>1 DEF UserSet, UserNow
  <2> QED  BY <2>3, <2>4, <2>5, <2>6, <1>2, <1>3, <1>4
<1>5. CASE queue[k].tid \notin {Nobody, u} /\ NextSlot(k) = First(u)
  <2> DEFINE r == [user[u] EXCEPT !.key = NoTask, !.got = TRUE]
  <2>1. queue' = queue /\ user' = [user EXCEPT ![u] = r]  BY <1>5 DEF Probe, First
  <2>2. r \in UserSet  BY <1>1, UserFinds
  <2>3. user' \in [Users -> UserSet] /\ user'[u] = r /\ OnlyUser(u)
    BY <2>1, <2>2, Changed DEF Types, OnlyUser
  <2>4. Types'  BY <2>1, <2>3, <1>2 DEF Types
  <2>5. UserNow(u, user[u].pc, user[u].back, user[u].e, NoTask, k, TRUE)
    BY <2>3, <1>1 DEF UserSet, UserNow
  <2> QED  BY <2>1, <2>3, <2>4, <2>5, <1>2, <1>3, <1>5 DEF Others
<1>6. CASE queue[k].tid \notin {Nobody, u} /\ NextSlot(k) # First(u)
  <2> DEFINE r == [user[u] EXCEPT !.probe = NextSlot(k)]
  <2>1. queue' = queue /\ user' = [user EXCEPT ![u] = r]  BY <1>6 DEF Probe, First
  <2>2. r \in UserSet  BY <1>1, UserProbes, Slot
  <2>3. user' \in [Users -> UserSet] /\ user'[u] = r /\ OnlyUser(u)
    BY <2>1, <2>2, Changed DEF Types, OnlyUser
  <2>4. Types'  BY <2>1, <2>3, <1>2 DEF Types
  <2>5. UserNow(u, user[u].pc, user[u].back, user[u].e, user[u].key, NextSlot(k), FALSE)
    BY <2>3, <1>1, <1>3 DEF UserSet, UserNow
  <2> QED  BY <2>1, <2>3, <2>4, <2>5, <1>2, <1>3, <1>6 DEF Others
<1> QED  BY <1>4, <1>5, <1>6

LEMMA LockIs ==
  ASSUME Types, NEW u \in Users, Lock(u)
  PROVE  LET k == user[u].key IN
         /\ Types' /\ user[u].pc = "enter" /\ OnlyUser(u) /\ (Found(u) \/ user[u].got)
         /\ \/ /\ k = NoTask /\ queue' = queue
               /\ UserNow(u, "run", user[u].back, user[u].e, k, user[u].probe, FALSE)
            \/ /\ k \in Slots /\ queue[k].lock = Nobody
               /\ OnlyQueue(k) /\ QueueNow(k, queue[k].tid, u, queue[k].tasks)
               /\ UserNow(u, "update", user[u].back, user[u].e, k, user[u].probe, FALSE)
         /\ UNCHANGED <<evt, ghandle, timer, crash, asked, done>>
<1> DEFINE k == user[u].key
<1>1. k \in Slots \cup {NoTask} /\ user[u] \in UserSet  BY Fields DEF Types
<1>2. UNCHANGED <<evt, ghandle, timer, crash, asked, done>>  BY DEF Lock, history
<1>3. user[u].pc = "enter" /\ (Found(u) \/ user[u].got)  BY DEF Lock, UserAt
<1>4. CASE k = NoTask
  <2> DEFINE r == [user[u] EXCEPT !.pc = "run", !.got = FALSE]
  <2>1. queue' = queue /\ user' = [user EXCEPT ![u] = r]  BY <1>4 DEF Lock
  <2>2. r \in UserSet  BY <1>1, UserGoes
  <2>3. user' \in [Users -> UserSet] /\ user'[u] = r /\ OnlyUser(u)
    BY <2>1, <2>2, Changed DEF Types, OnlyUser
  <2>4. Types'  BY <2>1, <2>3, <1>2 DEF Types
  <2>5. UserNow(u, "run", user[u].back, user[u].e, k, user[u].probe, FALSE)
    BY <2>3, <1>1 DEF UserSet, UserNow
  <2> QED  BY <2>1, <2>3, <2>4, <2>5, <1>2, <1>3, <1>4
<1>5. CASE k # NoTask
  <2> DEFINE q == [queue[k] EXCEPT !.lock = u]
             r == [user[u] EXCEPT !.pc = "update", !.got = FALSE]
  <2>1. k \in Slots /\ queue[k] \in QueueSet  BY <1>1, <1>5 DEF Types
  <2>2. /\ queue' = [queue EXCEPT ![k] = q] /\ queue[k].lock = Nobody
        /\ user' = [user EXCEPT ![u] = r]
    BY <1>5 DEF Lock
  <2>3. q \in QueueSet /\ r \in UserSet  BY <1>1, <2>1, UserGoes, QueueOwned
  <2>4. /\ queue' \in [Slots -> QueueSet] /\ queue'[k] = q /\ OnlyQueue(k)
        /\ user' \in [Users -> UserSet] /\ user'[u] = r /\ OnlyUser(u)
    BY <2>1, <2>2, <2>3, Changed DEF Types, OnlyQueue, OnlyUser
  <2>5. Types'  BY <2>4, <1>2 DEF Types
  <2>6. QueueNow(k, queue[k].tid, u, queue[k].tasks)  BY <2>4, <2>1 DEF QueueSet, QueueNow
  <2>7. UserNow(u, "update", user[u].back, user[u].e, k, user[u].probe, FALSE)
    BY <2>4, <1>1 DEF UserSet, UserNow
  <2> QED  BY <2>1, <2>2, <2>4, <2>5, <2>6, <2>7, <1>2, <1>3
<1> QED  BY <1>4, <1>5

\* Inside itimer_update_timer a thread has a queue.
LEMMA HasQueue ==
  ASSUME Types, Locks, NEW u \in Users, Holds(u)
  PROVE  /\ user[u].key \in Slots /\ queue[user[u].key] \in QueueSet
         /\ queue[user[u].key].lock = u /\ queue[user[u].key].tid = u
         /\ queue[user[u].key].tasks \in Seq(Handles)
BY Fields DEF Locks, Types

LEMMA CallIs ==
  ASSUME Types, Locks, NEW u \in Users, Call(u)
  PROVE  LET k == user[u].key
             h == Head(queue[k].tasks)
         IN /\ Types' /\ Holds(u) /\ user[u].pc = "update" /\ OnlyUser(u)
            /\ UserNow(u, "task", user[u].back, user[u].e, k, user[u].probe, user[u].got)
            /\ queue[k].tasks # <<>> /\ h \in Handles
            /\ done' = [done EXCEPT ![h] = done[h] + 1]
            /\ UNCHANGED <<evt, ghandle, timer, queue, crash, asked>>
<1> DEFINE t == queue[user[u].key].tasks
           r == [user[u] EXCEPT !.pc = "task"]
<1>1. user[u].pc = "update" /\ Holds(u)  BY DEF Call, UserAt, Holds
<1>2. t \in Seq(Handles) /\ t # <<>>  BY <1>1, HasQueue DEF Call
<1>3. Head(t) \in Handles  BY <1>2
<1>4. done' = [done EXCEPT ![Head(t)] = done[Head(t)] + 1]  BY DEF Call
<1>5. user' = [user EXCEPT ![u] = r] /\ UNCHANGED <<evt, ghandle, timer, queue, crash, asked>>
  BY DEF Call
<1>6. r \in UserSet  BY UserGoes DEF Types
<1>7. done' \in [Handles -> Nat]
  <2>1. done[Head(t)] + 1 \in Nat  BY <1>3, Fields
  <2> QED  BY <2>1, <1>3, <1>4, Changed DEF Types
<1>8. user' \in [Users -> UserSet] /\ user'[u] = r /\ OnlyUser(u)
  BY <1>5, <1>6, Changed DEF Types, OnlyUser
<1>9. Types'  BY <1>5, <1>7, <1>8 DEF Types
<1>10. UserNow(u, "task", user[u].back, user[u].e, user[u].key, user[u].probe, user[u].got)
  BY <1>8 DEF Types, UserSet, UserNow
<1> QED  BY <1>1, <1>2, <1>3, <1>4, <1>5, <1>8, <1>9, <1>10

LEMMA ReturnIs ==
  ASSUME Types, Locks, Tasks, NEW u \in Users, Return(u)
  PROVE  LET k == user[u].key
         IN /\ Types' /\ Holds(u) /\ user[u].pc = "task" /\ OnlyUser(u)
            /\ UserNow(u, "update", user[u].back, user[u].e, k, user[u].probe, user[u].got)
            /\ OnlyQueue(k) /\ queue[k].tasks # <<>>
            /\ QueueNow(k, queue[k].tid, queue[k].lock, Tail(queue[k].tasks))
            /\ UNCHANGED <<evt, ghandle, timer, crash, asked, done>>
<1> DEFINE k == user[u].key
           q == [queue[k] EXCEPT !.tasks = Tail(queue[k].tasks)]
           r == [user[u] EXCEPT !.pc = "update"]
<1>1. user[u].pc = "task" /\ Holds(u)  BY DEF Return, UserAt, Holds
<1>2. k \in Slots /\ queue[k] \in QueueSet /\ queue[k].tasks \in Seq(Handles)  BY <1>1, HasQueue
<1>3. queue[k].tasks # <<>>  BY <1>1 DEF Tasks, InTask
<1>4. Tail(queue[k].tasks) \in Seq(Handles)  BY <1>2, <1>3, TailType
<1>5. q \in QueueSet /\ r \in UserSet  BY <1>2, <1>4, QueueFilled, UserGoes DEF Types
<1>6. /\ user' = [user EXCEPT ![u] = r] /\ queue' = [queue EXCEPT ![k] = q]
      /\ UNCHANGED <<evt, ghandle, timer, crash, asked, done>>
  BY DEF Return, history
<1>7. /\ user' \in [Users -> UserSet] /\ user'[u] = r /\ OnlyUser(u)
      /\ queue' \in [Slots -> QueueSet] /\ queue'[k] = q /\ OnlyQueue(k)
  BY <1>2, <1>5, <1>6, Changed DEF Types, OnlyUser, OnlyQueue
<1>8. Types'  BY <1>6, <1>7 DEF Types
<1>9. UserNow(u, "update", user[u].back, user[u].e, k, user[u].probe, user[u].got)
  BY <1>7 DEF Types, UserSet, UserNow
<1>10. QueueNow(k, queue[k].tid, queue[k].lock, Tail(queue[k].tasks))
  BY <1>7, <1>2 DEF QueueSet, QueueNow
<1> QED  BY <1>1, <1>3, <1>6, <1>7, <1>8, <1>9, <1>10

LEMMA LeaveIs ==
  ASSUME Types, Locks, NEW u \in Users, Leave(u)
  PROVE  LET k == user[u].key
         IN /\ Types' /\ Holds(u) /\ user[u].pc = "update" /\ OnlyUser(u)
            /\ UserNow(u, "run", user[u].back, user[u].e, k, user[u].probe, user[u].got)
            /\ OnlyQueue(k) /\ queue[k].tasks = <<>>
            /\ QueueNow(k, queue[k].tid, Nobody, queue[k].tasks)
            /\ UNCHANGED <<evt, ghandle, timer, crash, asked, done>>
<1> DEFINE k == user[u].key
           q == [queue[k] EXCEPT !.lock = Nobody]
           r == [user[u] EXCEPT !.pc = "run"]
<1>1. user[u].pc = "update" /\ Holds(u) /\ queue[k].tasks = <<>>  BY DEF Leave, UserAt, Holds
<1>2. k \in Slots /\ queue[k] \in QueueSet  BY <1>1, HasQueue
<1>3. q \in QueueSet /\ r \in UserSet  BY <1>2, QueueOwned, UserGoes DEF Types
<1>4. /\ user' = [user EXCEPT ![u] = r] /\ queue' = [queue EXCEPT ![k] = q]
      /\ UNCHANGED <<evt, ghandle, timer, crash, asked, done>>
  BY DEF Leave, history
<1>5. /\ user' \in [Users -> UserSet] /\ user'[u] = r /\ OnlyUser(u)
      /\ queue' \in [Slots -> QueueSet] /\ queue'[k] = q /\ OnlyQueue(k)
  BY <1>2, <1>3, <1>4, Changed DEF Types, OnlyUser, OnlyQueue
<1>6. Types'  BY <1>4, <1>5 DEF Types
<1>7. UserNow(u, "run", user[u].back, user[u].e, k, user[u].probe, user[u].got)
  BY <1>5 DEF Types, UserSet, UserNow
<1>8. QueueNow(k, queue[k].tid, Nobody, queue[k].tasks)  BY <1>5, <1>2 DEF QueueSet, QueueNow
<1> QED  BY <1>1, <1>4, <1>5, <1>6, <1>7, <1>8

\* An event of a record r becomes one of the record x.
LEMMA EventChanged ==
  ASSUME Types, NEW e \in Evts, NEW x \in EventSet, evt' = [evt EXCEPT ![e] = x]
  PROVE  /\ evt' \in [Evts -> EventSet] /\ OnlyEvent(e)
         /\ EventNow(e, x.handle, x.pooled, x.node, x.ok, x.mgr, x.repeat, x.running, x.end, x.task)
BY Changed DEF Types, OnlyEvent, EventNow

LEMMA SetIs ==
  ASSUME Types, NEW u \in Users, Set(u)
  PROVE  /\ Types' /\ user[u].pc \in {"run", "task"} /\ OnlyUser(u)
         /\ ghandle <= LastHandle /\ ghandle' = ghandle + 1
         /\ \E e \in Evts :
              /\ evt[e].pooled /\ OnlyEvent(e)
              /\ EventNow(e, ghandle, FALSE, evt[e].node, evt[e].ok, evt[e].mgr, evt[e].repeat,
                          evt[e].running, evt[e].end, evt[e].task)
              /\ UserNow(u, "set", user[u].pc, e, user[u].key, First(u), user[u].got)
         /\ UNCHANGED <<timer, queue, crash, asked, done>>
<1>1. PICK e \in Evts :
        /\ evt[e].pooled
        /\ evt' = [evt EXCEPT ![e].pooled = FALSE, ![e].handle = ghandle]
        /\ user' = [user EXCEPT ![u].pc = "set", ![u].back = user[u].pc, ![u].e = e,
                                ![u].probe = First(u)]
  BY Zenon DEF Set, First
<1> DEFINE x == [evt[e] EXCEPT !.pooled = FALSE, !.handle = ghandle]
           r == [user[u] EXCEPT !.pc = "set", !.back = user[u].pc, !.e = e, !.probe = First(u)]
<1>2. /\ user[u].pc \in {"run", "task"} /\ ghandle <= LastHandle /\ ghandle' = ghandle + 1
      /\ UNCHANGED <<timer, queue, crash, asked, done>>
  BY DEF Set, UserAt, history
<1>3. ghandle \in 0 .. LastHandle /\ ghandle + 1 \in 1 .. LastHandle + 1
  BY <1>2, ThreadAssumption DEF Types
<1>4. r \in UserSet  BY <1>2, UserSets, Slot DEF Types
<1>5. x \in EventSet  BY <1>3 DEF Types, EventSet
<1>6. user' \in [Users -> UserSet] /\ user'[u] = r /\ OnlyUser(u)
  <2>1. user' = [user EXCEPT ![u] = r]  BY <1>1 DEF Types
  <2> QED  BY <2>1, <1>4, Changed DEF Types, OnlyUser
<1>7. /\ evt' \in [Evts -> EventSet] /\ OnlyEvent(e)
      /\ EventNow(e, x.handle, x.pooled, x.node, x.ok, x.mgr, x.repeat, x.running, x.end, x.task)
  <2>1. evt' = [evt EXCEPT ![e] = x]  BY <1>1 DEF Types
  <2> QED  BY <2>1, <1>5, EventChanged
<1>8. Types'  BY <1>2, <1>3, <1>6, <1>7 DEF Types
<1>9. UserNow(u, "set", user[u].pc, e, user[u].key, First(u), user[u].got)
  BY <1>6 DEF Types, UserSet, UserNow
<1>10. EventNow(e, ghandle, FALSE, evt[e].node, evt[e].ok, evt[e].mgr, evt[e].repeat,
                evt[e].running, evt[e].end, evt[e].task)
  BY <1>7 DEF Types, EventSet, EventNow
<1> QED  BY <1>1, <1>2, <1>6, <1>7, <1>8, <1>9, <1>10

LEMMA HandleIs ==
  ASSUME Types, Named, NEW e \in Evts, ~evt[e].pooled
  PROVE  evt[e].handle \in Handles
<1>1. evt[e].handle \in 0 .. LastHandle /\ evt[e].handle > 0  BY Fields DEF Named
<1> QED  BY <1>1, ThreadAssumption DEF Handles

LEMMA StartIs ==
  ASSUME Types, Named, Reserved, NEW u \in Users, NEW w \in Waits, NEW r \in Repeats, Start(u, w, r)
  PROVE  LET e == user[u].e
             h == evt[e].handle
         IN /\ Types' /\ user[u].pc = "set" /\ (Found(u) \/ user[u].got) /\ OnlyUser(u)
            /\ UserNow(u, user[u].back, user[u].back, e, user[u].key, user[u].probe, FALSE)
            /\ OnlyEvent(e) /\ r \in Nat
            /\ EventNow(e, h, FALSE, "wheel", TRUE, TRUE, r, FALSE, evt[e].end, user[u].key)
            /\ h \in Handles /\ \A g \in Handles \ {h} : asked'[g] = asked[g]
            /\ asked'[h].tid = u /\ asked'[h].key = user[u].key /\ asked'[h].repeat = r
            /\ UNCHANGED <<ghandle, timer, queue, crash, done>>
<1> DEFINE e == user[u].e
           h == evt[e].handle
           x == [Started(e, w, r) EXCEPT !.task = user[u].key]
           a == [tid |-> u, key |-> user[u].key, repeat |-> r]
           n == [user[u] EXCEPT !.pc = user[u].back, !.got = FALSE]
<1>1. /\ user[u].pc = "set" /\ (Found(u) \/ user[u].got)
      /\ evt' = [evt EXCEPT ![e] = x] /\ asked' = [asked EXCEPT ![h] = a]
      /\ user' = [user EXCEPT ![u] = n] /\ UNCHANGED <<ghandle, timer, queue, crash, done>>
  BY DEF Start, UserAt
<1>2. e \in Evts /\ user[u].key \in Slots \cup {NoTask} /\ user[u].back \in {"run", "task"}
      /\ user[u] \in UserSet /\ evt[e] \in EventSet
  BY Fields DEF Types
<1>3. ~evt[e].pooled  BY <1>1 DEF Reserved
<1>4. h \in Handles  BY <1>2, <1>3, HandleIs
<1>5. r \in Nat /\ w \in Nat  BY ThreadAssumption
<1>6. a \in AskedSet  BY <1>2, <1>5 DEF AskedSet
<1>7. n \in UserSet  BY <1>2, UserGoes
<1>8. x \in EventSet /\ EventNow(e, h, FALSE, "wheel", TRUE, TRUE, r, FALSE, evt[e].end, user[u].key)
      /\ evt' \in [Evts -> EventSet] /\ OnlyEvent(e)
  <2>1. x \in EventSet  BY <1>2, <1>5 DEF Started, Added, EventSet
  <2>2. /\ evt' \in [Evts -> EventSet] /\ OnlyEvent(e)
        /\ EventNow(e, x.handle, x.pooled, x.node, x.ok, x.mgr, x.repeat, x.running, x.end, x.task)
    BY <2>1, <1>1, <1>2, EventChanged
  <2>3. /\ x.handle = h /\ x.pooled = FALSE /\ x.node = "wheel" /\ x.ok = TRUE /\ x.mgr = TRUE
        /\ x.repeat = r /\ x.running = FALSE /\ x.end = evt[e].end /\ x.task = user[u].key
    BY <1>2, <1>3 DEF Started, Added, EventSet
  <2> HIDE DEF x
  <2> QED  BY <2>1, <2>2, <2>3
<1>9. /\ asked' \in [Handles -> AskedSet] /\ asked'[h] = a
      /\ \A g \in Handles \ {h} : asked'[g] = asked[g]
  BY <1>1, <1>4, <1>6, Changed DEF Types
<1>10. user' \in [Users -> UserSet] /\ user'[u] = n /\ OnlyUser(u)
  BY <1>1, <1>7, Changed DEF Types, OnlyUser
<1>11. Types'  BY <1>1, <1>8, <1>9, <1>10 DEF Types
<1>12. UserNow(u, user[u].back, user[u].back, e, user[u].key, user[u].probe, FALSE)
  BY <1>2, <1>10 DEF UserSet, UserNow
<1> QED  BY <1>1, <1>4, <1>5, <1>8, <1>9, <1>10, <1>11, <1>12

LEMMA DestroyedIs ==
  ASSUME Types, NEW e \in Evts
  PROVE  /\ Destroyed(e) \in EventSet /\ Destroyed(e).handle = evt[e].handle
         /\ Destroyed(e).pooled = TRUE /\ Destroyed(e).node = "off" /\ Destroyed(e).ok = FALSE
         /\ Destroyed(e).mgr = FALSE /\ Destroyed(e).repeat = 0 /\ Destroyed(e).running = FALSE
         /\ Destroyed(e).end = FALSE /\ Destroyed(e).task = NoTask
<1>1. evt[e].handle \in 0 .. LastHandle  BY Fields
<1> QED  BY <1>1 DEF Destroyed, Unused, EventSet

LEMMA UnsetIs ==
  ASSUME Types, NEW u \in Users, NEW h \in Handles, Unset(u, h)
  PROVE  /\ Types' /\ user[u].pc \in {"run", "task"} /\ asked[h].tid # Nobody
         /\ \E e \in Evts :
              /\ ~evt[e].pooled /\ evt[e].handle = h /\ OnlyEvent(e)
              /\ Unsets # "any" => timer.pc = "idle" \/ timer.e # e
              /\ EventNow(e, h, TRUE, "off", FALSE, FALSE, 0, FALSE, FALSE, NoTask)
         /\ \A g \in Handles \ {h} : asked'[g] = asked[g]
         /\ asked'[h].tid = asked[h].tid /\ asked'[h].key = NoTask
         /\ asked'[h].repeat = asked[h].repeat
         /\ UNCHANGED <<ghandle, timer, queue, user, crash, done>>
<1>1. PICK e \in Lookup(h) : /\ Unsets = "any" \/ timer.pc = "idle" \/ timer.e # e
                             /\ evt' = [evt EXCEPT ![e] = Destroyed(e)]
  BY DEF Unset
<1>2. e \in Evts /\ ~evt[e].pooled /\ evt[e].handle = h  BY DEF Lookup
<1> DEFINE a == [asked[h] EXCEPT !.key = NoTask]
<1>3. /\ user[u].pc \in {"run", "task"} /\ asked[h].tid # Nobody
      /\ asked' = [asked EXCEPT ![h] = a] /\ UNCHANGED <<ghandle, timer, queue, user, crash, done>>
  BY DEF Unset, UserAt
<1>4. /\ a \in AskedSet /\ a.tid = asked[h].tid /\ a.key = NoTask /\ a.repeat = asked[h].repeat
  BY DEF Types, AskedSet
<1>5. /\ asked' \in [Handles -> AskedSet] /\ asked'[h] = a
      /\ \A g \in Handles \ {h} : asked'[g] = asked[g]
  BY <1>3, <1>4, Changed DEF Types
<1>6. /\ evt' \in [Evts -> EventSet] /\ OnlyEvent(e)
      /\ EventNow(e, h, TRUE, "off", FALSE, FALSE, 0, FALSE, FALSE, NoTask)
  BY <1>1, <1>2, DestroyedIs, EventChanged
<1>7. Types'  BY <1>3, <1>5, <1>6 DEF Types
<1> QED  BY <1>1, <1>2, <1>3, <1>4, <1>5, <1>6, <1>7

LEMMA TimerChanged ==
  ASSUME Types, NEW p \in {"idle", "cb", "arm", "stop", "push"}, NEW e \in Evts, NEW c \in Nat,
         timer' = [timer EXCEPT !.pc = p, !.e = e, !.count = c]
  PROVE  timer' \in TimerSet /\ TimerNow(p, e, c)
BY DEF Types, TimerSet, TimerNow

LEMMA TimerIs ==
  ASSUME Types
  PROVE  \A p, c : /\ [timer EXCEPT !.pc = p] = [timer EXCEPT !.pc = p, !.e = timer.e, !.count = timer.count]
                   /\ [timer EXCEPT !.pc = p, !.count = c] = [timer EXCEPT !.pc = p, !.e = timer.e, !.count = c]
                   /\ [timer EXCEPT !.count = c] = [timer EXCEPT !.pc = timer.pc, !.e = timer.e, !.count = c]
BY DEF Types, TimerSet

LEMMA TickIs ==
  ASSUME Types, Tick
  PROVE  /\ Types' /\ timer.pc = "idle"
         /\ \A e \in Evts :
              /\ EventNow(e, evt[e].handle, evt[e].pooled, evt'[e].node, evt[e].ok, evt[e].mgr,
                          evt[e].repeat, evt[e].running, evt[e].end, evt[e].task)
              /\ (evt'[e].node = "off") = (evt[e].node = "off")
         /\ UNCHANGED <<ghandle, timer, queue, user, crash, asked, done>>
<1>1. timer.pc = "idle" /\ UNCHANGED <<ghandle, timer, queue, user, crash, asked, done>>
  BY DEF Tick, TimerAt, history
<1>2. evt' = [e \in Evts |-> Ticked(e)]  BY DEF Tick
<1>3. ASSUME NEW e \in Evts
      PROVE  /\ Ticked(e) \in EventSet
             /\ EventNow(e, evt[e].handle, evt[e].pooled, evt'[e].node, evt[e].ok, evt[e].mgr,
                         evt[e].repeat, evt[e].running, evt[e].end, evt[e].task)
             /\ (evt'[e].node = "off") = (evt[e].node = "off")
  <2>1. evt'[e] = Ticked(e) /\ evt[e] \in EventSet  BY <1>2 DEF Types
  <2>2. CASE evt[e].node # "wheel"  BY <2>1, <2>2 DEF Ticked, EventNow
  <2>3. CASE evt[e].node = "wheel" /\ evt[e].left > 1
    <3>1. evt[e].left - 1 \in Nat  BY <2>3, Fields
    <3> QED  BY <2>1, <2>3, <3>1 DEF Ticked, EventNow, EventSet
  <2>4. CASE evt[e].node = "wheel" /\ ~(evt[e].left > 1)
    BY <2>1, <2>4 DEF Ticked, EventNow, EventSet
  <2> QED  BY <2>2, <2>3, <2>4
<1>4. Types'  BY <1>1, <1>2, <1>3 DEF Types
<1> QED  BY <1>1, <1>3, <1>4

LEMMA PopIs ==
  ASSUME Types, NEW e \in Evts, Pop(e)
  PROVE  /\ Types' /\ timer.pc = "idle" /\ evt[e].node = "queued" /\ OnlyEvent(e)
         /\ EventNow(e, evt[e].handle, evt[e].pooled, "off", evt[e].ok, evt[e].mgr,
                     evt[e].repeat, evt[e].running, evt[e].end, evt[e].task)
         /\ TimerNow("cb", e, timer.count)
         /\ UNCHANGED <<ghandle, queue, user, crash, asked, done>>
<1> DEFINE x == [evt[e] EXCEPT !.node = "off"]
<1>1. /\ timer.pc = "idle" /\ evt[e].node = "queued" /\ evt' = [evt EXCEPT ![e] = x]
      /\ UNCHANGED <<ghandle, queue, user, crash, asked, done>>
  BY DEF Pop, TimerAt, history
<1>2. timer' = [timer EXCEPT !.pc = "cb", !.e = e, !.count = timer.count]
  BY DEF Pop, Types, TimerSet
<1>3. timer' \in TimerSet /\ TimerNow("cb", e, timer.count)  BY <1>2, TimerChanged, Fields
<1>4. x \in EventSet  BY DEF Types, EventSet
<1>5. /\ evt' \in [Evts -> EventSet] /\ OnlyEvent(e)
      /\ EventNow(e, x.handle, x.pooled, x.node, x.ok, x.mgr, x.repeat, x.running, x.end, x.task)
  BY <1>1, <1>4, EventChanged
<1>6. EventNow(e, evt[e].handle, evt[e].pooled, "off", evt[e].ok, evt[e].mgr,
               evt[e].repeat, evt[e].running, evt[e].end, evt[e].task)
  BY <1>5 DEF Types, EventSet, EventNow
<1> QED  BY <1>1, <1>3, <1>5, <1>6 DEF Types

\* What itimer_evt_cb leaves of the count
Less(r, k) == IF r > k THEN r - k ELSE IF r > 1 THEN 1 ELSE r

LEMMA CountIs ==
  ASSUME Types, CbCount
  PROVE  LET e == timer.e IN
         /\ Types' /\ timer.pc = "cb"
         /\ \/ ~evt[e].mgr /\ crash' = "null" /\ UNCHANGED <<evt, timer>>
            \/ /\ evt[e].mgr /\ OnlyEvent(e) /\ UNCHANGED crash
               /\ \E k \in Nat \ {0}, p \in {"stop", "arm"} :
                    /\ TimerNow(p, e, k)
                    /\ p = "stop" => k = evt[e].repeat
                    /\ p = "arm" => k < evt[e].repeat \/ evt[e].repeat = 0
                    /\ EventNow(e, evt[e].handle, evt[e].pooled, evt[e].node, evt[e].ok, evt[e].mgr,
                                Less(evt[e].repeat, k), evt[e].running, evt[e].end, evt[e].task)
         /\ UNCHANGED <<ghandle, queue, user, asked, done>>
<1> DEFINE e == timer.e
           r == evt[e].repeat
<1>1. timer.pc = "cb" /\ UNCHANGED <<ghandle, queue, user, asked, done>>
  BY DEF CbCount, TimerAt, history
<1>2. e \in Evts /\ r \in Nat /\ evt[e].mgr \in BOOLEAN  BY Fields
<1>3. CASE ~evt[e].mgr
  <2>1. crash' = "null" /\ UNCHANGED <<evt, timer>>  BY <1>3 DEF CbCount
  <2> QED  BY <2>1, <1>1, <1>3 DEF Types
<1>4. CASE evt[e].mgr
  <2>1. PICK b \in Bursts :
          LET k == IF r > 0 /\ b > r THEN r ELSE b IN
          /\ timer' = [timer EXCEPT !.pc = IF k = r THEN "stop" ELSE "arm", !.count = k]
          /\ evt' = [evt EXCEPT ![e].repeat = Less(r, k)]
          /\ UNCHANGED crash
    BY <1>4 DEF CbCount, Less
  <2> DEFINE k == IF r > 0 /\ b > r THEN r ELSE b
             p == IF k = r THEN "stop" ELSE "arm"
             x == [evt[e] EXCEPT !.repeat = Less(r, k)]
  <2>2. b \in Nat \ {0}  BY ThreadAssumption
  <2>3. /\ k \in Nat \ {0} /\ p \in {"stop", "arm"} /\ (p = "stop" => k = r)
        /\ (p = "arm" => k < r \/ r = 0) /\ Less(r, k) \in Nat
    BY <1>2, <2>2 DEF Less
  <2>4. /\ timer' = [timer EXCEPT !.pc = p, !.e = e, !.count = k]
        /\ evt' = [evt EXCEPT ![e] = x] /\ UNCHANGED crash
    BY <2>1, TimerIs DEF Types
  <2> HIDE DEF k, p
  <2>5. timer' \in TimerSet /\ TimerNow(p, e, k)  BY <1>2, <2>3, <2>4, TimerChanged
  <2>6. x \in EventSet  BY <1>2, <2>3 DEF Types, EventSet
  <2>7. /\ evt' \in [Evts -> EventSet] /\ OnlyEvent(e)
        /\ EventNow(e, x.handle, x.pooled, x.node, x.ok, x.mgr, x.repeat, x.running, x.end, x.task)
    BY <1>2, <2>4, <2>6, EventChanged
  <2>8. EventNow(e, evt[e].handle, evt[e].pooled, evt[e].node, evt[e].ok, evt[e].mgr,
                 Less(r, k), evt[e].running, evt[e].end, evt[e].task)
    BY <1>2, <2>7 DEF Types, EventSet, EventNow
  <2>9. Types'  BY <1>1, <2>4, <2>5, <2>7 DEF Types
  <2> QED  BY <1>1, <1>4, <2>3, <2>4, <2>5, <2>7, <2>8, <2>9
<1> QED  BY <1>2, <1>3, <1>4

LEMMA ArmIs ==
  ASSUME Types, CbArm
  PROVE  LET e == timer.e IN
         /\ Types' /\ timer.pc = "arm"
         /\ \/ ~evt[e].ok /\ crash' = "assert" /\ UNCHANGED <<evt, timer>>
            \/ /\ evt[e].ok /\ OnlyEvent(e) /\ UNCHANGED crash
               /\ TimerNow("push", e, timer.count)
               /\ EventNow(e, evt[e].handle, evt[e].pooled, "wheel", evt[e].ok, evt[e].mgr,
                           evt[e].repeat, TRUE, evt[e].end, evt[e].task)
         /\ UNCHANGED <<ghandle, queue, user, asked, done>>
<1> DEFINE e == timer.e
           x == [Added(e, evt[e].period) EXCEPT !.running = TRUE]
<1>1. timer.pc = "arm" /\ UNCHANGED <<ghandle, queue, user, asked, done>>
  BY DEF CbArm, TimerAt, history
<1>2. e \in Evts /\ evt[e] \in EventSet /\ evt[e].ok \in BOOLEAN  BY Fields DEF Types
<1>3. CASE ~evt[e].ok
  <2>1. crash' = "assert" /\ UNCHANGED <<evt, timer>>  BY <1>3 DEF CbArm
  <2> QED  BY <2>1, <1>1, <1>3 DEF Types
<1>4. CASE evt[e].ok
  <2>1. /\ timer' = [timer EXCEPT !.pc = "push", !.e = e, !.count = timer.count]
        /\ evt' = [evt EXCEPT ![e] = x] /\ UNCHANGED crash
    BY <1>4, TimerIs DEF CbArm
  <2>2. timer' \in TimerSet /\ TimerNow("push", e, timer.count)  BY <1>2, <2>1, TimerChanged, Fields
  <2>3. x \in EventSet  BY <1>2 DEF Added, EventSet
  <2>4. /\ evt' \in [Evts -> EventSet] /\ OnlyEvent(e)
        /\ EventNow(e, x.handle, x.pooled, x.node, x.ok, x.mgr, x.repeat, x.running, x.end, x.task)
    BY <1>2, <2>1, <2>3, EventChanged
  <2>5. EventNow(e, evt[e].handle, evt[e].pooled, "wheel", evt[e].ok, evt[e].mgr,
                 evt[e].repeat, TRUE, evt[e].end, evt[e].task)
    BY <1>2, <2>4 DEF Added, EventSet, EventNow
  <2>6. Types'  BY <1>1, <2>1, <2>2, <2>4 DEF Types
  <2> QED  BY <1>1, <1>4, <2>1, <2>2, <2>4, <2>5, <2>6
<1> QED  BY <1>2, <1>3, <1>4

LEMMA StopIs ==
  ASSUME Types, CbStop
  PROVE  LET e == timer.e IN
         /\ Types' /\ timer.pc = "stop"
         /\ \/ evt[e].mgr /\ ~evt[e].ok /\ crash' = "assert" /\ UNCHANGED <<evt, timer>>
            \/ /\ evt[e].mgr => evt[e].ok
               /\ OnlyEvent(e) /\ UNCHANGED crash
               /\ TimerNow("push", e, timer.count)
               /\ EventNow(e, evt[e].handle, evt[e].pooled,
                           IF evt[e].mgr THEN "off" ELSE evt[e].node, evt[e].ok, FALSE,
                           evt[e].repeat, TRUE, TRUE, evt[e].task)
         /\ UNCHANGED <<ghandle, queue, user, asked, done>>
<1> DEFINE e == timer.e
           x == [Stopped(e) EXCEPT !.running = TRUE, !.end = TRUE]
<1>1. timer.pc = "stop" /\ UNCHANGED <<ghandle, queue, user, asked, done>>
  BY DEF CbStop, TimerAt, history
<1>2. e \in Evts /\ evt[e] \in EventSet /\ evt[e].ok \in BOOLEAN /\ evt[e].mgr \in BOOLEAN
  BY Fields DEF Types
<1>3. CASE evt[e].mgr /\ ~evt[e].ok
  <2>1. crash' = "assert" /\ UNCHANGED <<evt, timer>>  BY <1>3 DEF CbStop
  <2> QED  BY <2>1, <1>1, <1>3 DEF Types
<1>4. CASE ~(evt[e].mgr /\ ~evt[e].ok)
  <2>1. /\ timer' = [timer EXCEPT !.pc = "push", !.e = e, !.count = timer.count]
        /\ evt' = [evt EXCEPT ![e] = x] /\ UNCHANGED crash
    BY <1>4, TimerIs DEF CbStop
  <2>2. timer' \in TimerSet /\ TimerNow("push", e, timer.count)  BY <1>2, <2>1, TimerChanged, Fields
  <2>3. x \in EventSet  BY <1>2 DEF Stopped, EventSet
  <2>4. /\ evt' \in [Evts -> EventSet] /\ OnlyEvent(e)
        /\ EventNow(e, x.handle, x.pooled, x.node, x.ok, x.mgr, x.repeat, x.running, x.end, x.task)
    BY <1>2, <2>1, <2>3, EventChanged
  <2>5. EventNow(e, evt[e].handle, evt[e].pooled, IF evt[e].mgr THEN "off" ELSE evt[e].node,
                 evt[e].ok, FALSE, evt[e].repeat, TRUE, TRUE, evt[e].task)
    BY <1>2, <2>4 DEF Stopped, EventSet, EventNow
  <2>6. Types'  BY <1>1, <2>1, <2>2, <2>4 DEF Types
  <2> QED  BY <1>1, <1>2, <1>4, <2>1, <2>2, <2>4, <2>5, <2>6
<1> QED  BY <1>2, <1>3, <1>4

LEMMA PushIs ==
  ASSUME Types, Named, Live, CbPush
  PROVE  LET e == timer.e
             k == evt[e].task
         IN /\ Types' /\ timer.pc = "push" /\ timer.count > 0
            /\ \/ ~(evt[e].ok /\ evt[e].running) /\ queue' = queue /\ TimerNow("push", e, 0)
               \/ /\ evt[e].ok /\ evt[e].running /\ TimerNow("push", e, timer.count - 1)
                  /\ \/ k = NoTask /\ queue' = queue
                     \/ /\ k \in Slots /\ queue[k].lock = Nobody
                        /\ \/ queue[k].tid = Nobody /\ queue' = queue
                           \/ /\ queue[k].tid # Nobody /\ OnlyQueue(k)
                              /\ QueueNow(k, queue[k].tid, Nobody,
                                          Append(queue[k].tasks, evt[e].handle))
            /\ UNCHANGED <<evt, ghandle, user, crash, asked, done>>
<1> DEFINE e == timer.e
           k == evt[e].task
<1>1. /\ timer.pc = "push" /\ timer.count > 0
      /\ UNCHANGED <<evt, ghandle, user, crash, asked, done>>
  BY DEF CbPush, TimerAt, history
<1>2. e \in Evts /\ k \in Slots \cup {NoTask} /\ timer.count - 1 \in Nat /\ 0 \in Nat
  BY <1>1, Fields
<1>3. CASE ~(evt[e].ok /\ evt[e].running)
  <2>1. timer' = [timer EXCEPT !.pc = "push", !.e = e, !.count = 0] /\ queue' = queue
    BY <1>1, <1>3, TimerIs DEF CbPush
  <2>2. timer' \in TimerSet /\ TimerNow("push", e, 0)  BY <1>2, <2>1, TimerChanged
  <2>3. Types'  BY <1>1, <2>1, <2>2 DEF Types
  <2> QED  BY <1>1, <1>3, <2>1, <2>2, <2>3
<1>4. CASE evt[e].ok /\ evt[e].running
  <2> DEFINE t == Append(queue[k].tasks, evt[e].handle)
             q == [queue[k] EXCEPT !.tasks = t]
  <2>1. timer' = [timer EXCEPT !.pc = "push", !.e = e, !.count = timer.count - 1]
    BY <1>1, <1>4, TimerIs DEF CbPush
  <2>2. timer' \in TimerSet /\ TimerNow("push", e, timer.count - 1)  BY <1>2, <2>1, TimerChanged
  <2>3. \/ k = NoTask /\ queue' = queue
        \/ /\ k # NoTask /\ queue[k].lock = Nobody
           /\ \/ queue[k].tid = Nobody /\ queue' = queue
              \/ queue[k].tid # Nobody /\ queue' = [queue EXCEPT ![k] = q]
    BY <1>4 DEF CbPush
  <2>4. CASE /\ queue' = queue
             /\ k = NoTask \/ (k # NoTask /\ queue[k].lock = Nobody /\ queue[k].tid = Nobody)
    <3>1. Types'  BY <1>1, <2>2, <2>4 DEF Types
    <3>2. k = NoTask \/ (k \in Slots /\ queue[k].lock = Nobody /\ queue[k].tid = Nobody)
      BY <1>2, <2>4
    <3> QED  BY <1>1, <1>4, <2>2, <2>4, <3>1, <3>2
  <2>5. CASE k # NoTask /\ queue[k].lock = Nobody /\ queue[k].tid # Nobody
             /\ queue' = [queue EXCEPT ![k] = q]
    <3>1. k \in Slots /\ queue[k] \in QueueSet  BY <1>2, <2>5 DEF Types
    <3>2. evt[e].handle \in Handles  BY <1>2, <1>4, HandleIs DEF Live
    <3>3. t \in Seq(Handles)  BY <3>1, <3>2, Fields
    <3>4. q \in QueueSet  BY <3>1, <3>3, QueueFilled
    <3>5. queue' \in [Slots -> QueueSet] /\ queue'[k] = q /\ OnlyQueue(k)
      BY <2>5, <3>1, <3>4, Changed DEF Types, OnlyQueue
    <3>6. QueueNow(k, queue[k].tid, Nobody, t)  BY <2>5, <3>1, <3>5 DEF QueueSet, QueueNow
    <3>7. Types'  BY <1>1, <2>2, <3>5 DEF Types
    <3> QED  BY <1>1, <1>4, <2>2, <2>5, <3>1, <3>5, <3>6, <3>7
  <2> QED  BY <1>1, <1>2, <1>4, <2>2, <2>3, <2>4, <2>5
<1> QED  BY <1>3, <1>4

LEMMA EndIs ==
  ASSUME Types, Named, Live, CbEnd
  PROVE  LET e == timer.e IN
         /\ Types' /\ timer.pc = "push" /\ timer.count = 0 /\ OnlyEvent(e)
         /\ TimerNow("idle", e, 0)
         /\ \/ /\ evt[e].end /\ evt[e].ok
               /\ EventNow(e, evt[e].handle, TRUE, "off", FALSE, FALSE, 0, FALSE, FALSE, NoTask)
            \/ /\ ~(evt[e].end /\ evt[e].ok)
               /\ EventNow(e, evt[e].handle, evt[e].pooled, evt[e].node, evt[e].ok, evt[e].mgr,
                           evt[e].repeat, FALSE, evt[e].end, evt[e].task)
         /\ UNCHANGED <<ghandle, queue, user, crash, asked, done>>
<1> DEFINE e == timer.e
           x == [evt[e] EXCEPT !.running = FALSE]
           y == IF evt[e].end /\ evt[e].ok THEN Destroyed(e) ELSE x
<1>1. /\ timer.pc = "push" /\ timer.count = 0
      /\ UNCHANGED <<ghandle, queue, user, crash, asked, done>>
  BY DEF CbEnd, TimerAt, history
<1>2. e \in Evts /\ evt[e] \in EventSet  BY Fields DEF Types
<1>3. timer' = [timer EXCEPT !.pc = "idle", !.e = e, !.count = 0]
  BY <1>1, TimerIs DEF CbEnd
<1>4. timer' \in TimerSet /\ TimerNow("idle", e, 0)  BY <1>2, <1>3, TimerChanged
<1>5. x \in EventSet  BY <1>2 DEF EventSet
<1>6. y \in EventSet  BY <1>2, <1>5, DestroyedIs
<1>7. ASSUME evt[e].end, evt[e].ok, NEW d \in Evts
      PROVE  d \in Lookup(evt[e].handle) <=> d = e
  <2>1. ~evt[e].pooled  BY <1>2, <1>7 DEF Live
  <2> QED  BY <1>2, <2>1 DEF Lookup, Named
<1>8. evt' = [d \in Evts |-> IF evt[e].end /\ evt[e].ok /\ d \in Lookup(evt[e].handle) THEN Destroyed(d)
                             ELSE IF d = e THEN x ELSE evt[d]]
  BY DEF CbEnd
<1>9. evt'[e] = y /\ OnlyEvent(e)  BY <1>2, <1>7, <1>8 DEF OnlyEvent
<1>10. evt' \in [Evts -> EventSet]  BY <1>2, <1>6, <1>8, <1>9 DEF Types, OnlyEvent
<1>11. Types'  BY <1>1, <1>4, <1>10 DEF Types
<1>12. CASE evt[e].end /\ evt[e].ok
  <2>1. EventNow(e, evt[e].handle, TRUE, "off", FALSE, FALSE, 0, FALSE, FALSE, NoTask)
    BY <1>2, <1>9, <1>12, DestroyedIs DEF EventNow
  <2> QED  BY <1>1, <1>4, <1>9, <1>11, <1>12, <2>1
<1>13. CASE ~(evt[e].end /\ evt[e].ok)
  <2>1. EventNow(e, evt[e].handle, evt[e].pooled, evt[e].node, evt[e].ok, evt[e].mgr,
                 evt[e].repeat, FALSE, evt[e].end, evt[e].task)
    BY <1>2, <1>9, <1>13 DEF EventNow, Types, EventSet
  <2> QED  BY <1>1, <1>4, <1>9, <1>11, <1>13, <2>1
<1> QED  BY <1>12, <1>13

-------------------------------------------------------------------------------
(* A thread and its queue *)

Steady ==
  /\ \A k \in Slots : queue'[k].tid = queue[k].tid
  /\ \A u \in Users : /\ user'[u].key = user[u].key /\ (user'[u].got => user[u].got)
                      /\ Searches(u)' => \/ Searches(u) /\ user'[u].probe = user[u].probe
                                         \/ user'[u].probe = First(u)

\* Only GetTask gives a queue to a thread.
LEMMA OnlyProbe ==
  ASSUME Types, Locks, Tasks, Named, Reserved, Live, Next, \A u \in Users : ~Probe(u)
  PROVE  Steady
<1>1. CASE user' = user /\ queue' = queue  BY <1>1 DEF Steady, Searches, Found
<1>2. CASE TimerNext
  <2>1. CASE Tick  BY <2>1, TickIs, <1>1
  <2>2. ASSUME NEW e \in Evts, Pop(e)  PROVE Steady  BY <2>2, PopIs, <1>1
  <2>3. CASE CbCount  BY <2>3, CountIs, <1>1
  <2>4. CASE CbArm  BY <2>4, ArmIs, <1>1
  <2>5. CASE CbStop  BY <2>5, StopIs, <1>1
  <2>6. CASE CbPush
    <3>1. user' = user /\ \A k \in Slots : queue'[k].tid = queue[k].tid
      BY <2>6, PushIs DEF OnlyQueue, QueueNow
    <3> QED  BY <3>1 DEF Steady, Searches, Found
  <2>7. CASE CbEnd  BY <2>7, EndIs, <1>1
  <2> QED  BY <1>2, <2>1, <2>2, <2>3, <2>4, <2>5, <2>6, <2>7 DEF TimerNext
<1>3. ASSUME NEW u \in Users, UserNext(u)  PROVE Steady
  <2>1. CASE Set(u)
    <3>1. /\ queue' = queue /\ OnlyUser(u) /\ user'[u].key = user[u].key
          /\ user'[u].got = user[u].got /\ user'[u].probe = First(u)
      BY <2>1, SetIs DEF UserNow
    <3> QED  BY <3>1 DEF OnlyUser, Steady, Searches, Found
  <2>2. CASE Enter(u)
    BY <2>2, EnterIs DEF OnlyUser, UserNow, Steady, Searches, Found
  <2>3. CASE Lock(u)
    <3>1. /\ \A k \in Slots : queue'[k].tid = queue[k].tid
          /\ OnlyUser(u) /\ user'[u].key = user[u].key /\ user'[u].got = FALSE
          /\ user'[u].pc \in {"run", "update"}
      BY <2>3, LockIs DEF UserNow, OnlyQueue, QueueNow
    <3> QED  BY <3>1 DEF OnlyUser, Steady, Searches, Found
  <2>4. CASE Call(u)
    BY <2>4, CallIs DEF OnlyUser, UserNow, Steady, Searches, Found
  <2>5. CASE Return(u)
    <3>1. \A k \in Slots : queue'[k].tid = queue[k].tid
      BY <2>5, ReturnIs DEF OnlyQueue, QueueNow
    <3> QED  BY <2>5, <3>1, ReturnIs DEF OnlyUser, UserNow, Steady, Searches, Found
  <2>6. CASE Leave(u)
    <3>1. \A k \in Slots : queue'[k].tid = queue[k].tid
      BY <2>6, LeaveIs DEF OnlyQueue, QueueNow
    <3> QED  BY <2>6, <3>1, LeaveIs DEF OnlyUser, UserNow, Steady, Searches, Found
  <2>7. ASSUME NEW w \in Waits, NEW r \in Repeats, Start(u, w, r)  PROVE Steady
    <3>1. /\ queue' = queue /\ OnlyUser(u) /\ user'[u].key = user[u].key
          /\ user'[u].got = FALSE /\ user'[u].pc = user[u].back
      BY <2>7, StartIs DEF UserNow
    <3>2. user[u].back \in {"run", "task"}  BY Fields
    <3> QED  BY <3>1, <3>2 DEF OnlyUser, Steady, Searches, Found
  <2>8. ASSUME NEW h \in Handles, Unset(u, h)  PROVE Steady  BY <2>8, UnsetIs, <1>1
  <2> QED  BY <1>3, <2>1, <2>2, <2>3, <2>4, <2>5, <2>6, <2>7, <2>8 DEF UserNext, Inside
<1> QED  BY <1>2, <1>3 DEF Next

\* A thread that searches meets queue 0, if it has it, before a free one.
LEMMA Searched ==
  ASSUME Types, Keys, Path, NEW u \in Users, Searches(u), NEW k \in Slots, k = user[u].probe
  PROVE  /\ queue[k].tid \in {Nobody, u} /\ queue[0].tid = u => k = 0
         /\ Others(u, k) /\ NextSlot(k) = First(u) => \A j \in Slots : Others(u, j)
<1> DEFINE f == First(u)
<1>1. f \in Slots /\ f \in Nat /\ k \in Nat /\ f < MAX_THREAD_TASK /\ k < MAX_THREAD_TASK
      /\ MAX_THREAD_TASK \in Nat \ {0}
  BY Slot
<1>2. /\ queue[0].tid = u /\ f # 0 => \A j \in f .. MAX_THREAD_TASK - 1 : Others(u, j)
      /\ k >= f => \A j \in f .. k - 1 : Others(u, j)
      /\ k < f => \A j \in f .. MAX_THREAD_TASK - 1 : Others(u, j)
      /\ k < f => \A j \in 0 .. k - 1 : Others(u, j)
  BY DEF Path
<1> HIDE DEF f
<1>3. ASSUME queue[k].tid \in {Nobody, u}, queue[0].tid = u, k # 0  PROVE FALSE
  <2>1. ~Others(u, k) /\ ~Others(u, 0)  BY <1>3 DEF Others
  <2>2. CASE k >= f /\ f # 0  BY <1>1, <1>2, <1>3, <2>1, <2>2
  <2>3. CASE k >= f /\ f = 0  BY <1>1, <1>2, <1>3, <2>1, <2>3
  <2>4. CASE k < f  BY <1>1, <1>2, <1>3, <2>1, <2>4
  <2> QED  BY <1>1, <2>2, <2>3, <2>4
<1>4. ASSUME Others(u, k), NextSlot(k) = First(u), NEW j \in Slots  PROVE Others(u, j)
  <2>1. f = IF k + 1 = MAX_THREAD_TASK THEN 0 ELSE k + 1  BY <1>4, Slot DEF f
  <2>2. j \in Nat /\ j < MAX_THREAD_TASK  BY Slot
  <2>3. CASE f = 0
    <3>1. k = MAX_THREAD_TASK - 1  BY <1>1, <2>1, <2>3
    <3> QED  BY <1>1, <1>2, <1>4, <2>2, <2>3, <3>1
  <2>4. CASE f # 0
    <3>1. k < f /\ k = f - 1  BY <1>1, <2>1, <2>4
    <3> QED  BY <1>1, <1>2, <1>4, <2>2, <3>1
  <2> QED  BY <2>3, <2>4
<1> QED  BY <1>3, <1>4

LEMMA KeysStep ==
  ASSUME Types, Keys, Path, Locks, Tasks, Named, Reserved, Live, Next
  PROVE  Keys'
<1>1. CASE Steady
  <2>1. \A u \in Users : user[u].key > 0 => user[u].key \in Slots  BY Fields DEF NoTask
  <2> QED  BY <1>1, <2>1, Slot DEF Steady, Keys
<1>2. ASSUME NEW u \in Users, Probe(u)  PROVE Keys'
  <2> DEFINE k == user[u].probe
  <2>1. k \in Slots /\ Searches(u) /\ OnlyUser(u) /\ user[u].key = 0
    BY <1>2, ProbeIs, Fields DEF Searches, Found
  <2>2. CASE /\ queue[k].tid \in {Nobody, u} /\ OnlyQueue(k) /\ queue'[k].tid = u
             /\ user'[u].key = k /\ user'[u].got
    <3>1. k # 0 => queue'[0].tid # u  BY <2>1, <2>2, Searched, Slot DEF OnlyQueue
    <3>2. \A j \in Slots : queue'[j].tid = u => j \in {0, k}
      BY <2>1, <2>2 DEF OnlyQueue, Keys
    <3>3. ASSUME NEW v \in Users \ {u}
          PROVE  /\ user'[v] = user[v] /\ queue[k].tid # v
                 /\ \A j \in Slots : (queue'[j].tid = v) = (queue[j].tid = v)
      BY <2>1, <2>2, Slot DEF OnlyQueue, OnlyUser
    <3>4. k \in Nat /\ k # NoTask  BY <2>1, Slot
    <3>5. ASSUME NEW v \in Users \ {u}
          PROVE  /\ user'[v].key > 0 => queue'[user'[v].key].tid = v /\ queue'[0].tid # v
                 /\ user'[v].got /\ user'[v].key = 0 => queue'[0].tid = v
                 /\ \A j \in Slots : queue'[j].tid = v => j \in {0, user'[v].key}
                 /\ user'[v].key = NoTask => \A j \in Slots : queue'[j].tid # v
      <4>1. user[v].key > 0 => user[v].key \in Slots  BY Fields DEF NoTask
      <4> QED  BY <3>3, <4>1, Slot DEF Keys
    <3> QED  BY <2>1, <2>2, <3>1, <3>2, <3>4, <3>5 DEF Keys
  <2>3. CASE Others(u, k) /\ queue' = queue /\ NextSlot(k) = First(u) /\ user'[u].key = NoTask
    <3>1. \A j \in Slots : queue[j].tid # u  BY <2>1, <2>3, Searched DEF Others
    <3>2. ~(NoTask > 0) /\ NoTask # 0  BY DEF NoTask
    <3> QED  BY <2>1, <2>3, <3>1, <3>2 DEF Keys, OnlyUser
  <2>4. CASE queue' = queue /\ user'[u].key = user[u].key /\ user'[u].got = FALSE
    BY <2>1, <2>4 DEF Keys, OnlyUser
  <2> QED  BY <1>2, <2>2, <2>3, <2>4, ProbeIs DEF UserNow, QueueNow
<1> QED  BY <1>1, <1>2, OnlyProbe

LEMMA TypesStep ==
  ASSUME Types, Locks, Tasks, Named, Reserved, Live, Next
  PROVE  Types'
<1>1. CASE TimerNext
  <2>1. ASSUME NEW e \in Evts, Pop(e)  PROVE Types'  BY <2>1, PopIs
  <2> QED  BY <1>1, <2>1, TickIs, CountIs, ArmIs, StopIs, PushIs, EndIs DEF TimerNext
<1>2. ASSUME NEW u \in Users, UserNext(u)  PROVE Types'
  <2>1. ASSUME NEW w \in Waits, NEW r \in Repeats, Start(u, w, r)  PROVE Types'  BY <2>1, StartIs
  <2>2. ASSUME NEW h \in Handles, Unset(u, h)  PROVE Types'  BY <2>2, UnsetIs
  <2> QED  BY <1>2, <2>1, <2>2, SetIs, EnterIs, ProbeIs, LockIs, CallIs, ReturnIs, LeaveIs
           DEF UserNext, Inside
<1> QED  BY <1>1, <1>2 DEF Next

LEMMA PathStep ==
  ASSUME Types, Keys, Path, Locks, Tasks, Named, Reserved, Live, Next
  PROVE  Path'
<1>1. CASE Steady
  <2>1. ASSUME NEW u \in Users, queue'[0].tid = u, First(u) # 0,
               NEW k \in First(u) .. MAX_THREAD_TASK - 1
        PROVE  Others(u, k)'
    <3>1. k \in Slots  BY Slot DEF Slots
    <3> QED  BY <1>1, <2>1, <3>1, Slot DEF Steady, Path, Others
  <2>2. ASSUME NEW u \in Users, Searches(u)', NEW p \in Slots, p = user'[u].probe
        PROVE  /\ p >= First(u) => \A k \in First(u) .. p - 1 : Others(u, k)'
               /\ p < First(u) => \A k \in First(u) .. MAX_THREAD_TASK - 1 : Others(u, k)'
               /\ p < First(u) => \A k \in 0 .. p - 1 : Others(u, k)'
    <3>1. \A j \in Slots : Others(u, j) => Others(u, j)'  BY <1>1 DEF Steady, Others
    <3>2. First(u) \in Slots  BY Slot
    <3>3. /\ \A j \in First(u) .. p - 1 : j \in Slots
          /\ \A j \in First(u) .. MAX_THREAD_TASK - 1 : j \in Slots
          /\ \A j \in 0 .. p - 1 : j \in Slots
      BY <3>2, Slot DEF Slots
    <3>4. CASE p = First(u)  BY <3>2, <3>4, Slot
    <3>5. CASE Searches(u) /\ user[u].probe = p  BY <3>1, <3>3, <3>5 DEF Path
    <3> QED  BY <1>1, <2>2, <3>4, <3>5 DEF Steady
  <2>3. Types'  BY TypesStep
  <2>4. \A u \in Users : user'[u].probe \in Slots  BY <2>3 DEF Types, UserSet
  <2> QED  BY <2>1, <2>2, <2>4 DEF Path
<1>2. ASSUME NEW u \in Users, Probe(u)  PROVE Path'
  <2> DEFINE k == user[u].probe
             f == First(u)
  <2>1. k \in Slots /\ Searches(u) /\ OnlyUser(u) /\ f \in Slots
    BY <1>2, ProbeIs, Fields, Slot
  <2>2. CASE /\ queue[k].tid \in {Nobody, u} /\ OnlyQueue(k) /\ queue'[k].tid = u /\ user'[u].got
    <3>1. ASSUME NEW v \in Users \ {u}
          PROVE  /\ (queue'[0].tid = v) = (queue[0].tid = v)
                 /\ \A j \in Slots : Others(v, j) => Others(v, j)'
                 /\ Searches(v)' = Searches(v) /\ user'[v].probe = user[v].probe
      BY <2>1, <2>2, Slot DEF OnlyQueue, OnlyUser, Others, Searches, Found
    <3>2. ASSUME NEW v \in Users
          PROVE  /\ \A j \in First(v) .. user[v].probe - 1 : j \in Slots
                 /\ \A j \in First(v) .. MAX_THREAD_TASK - 1 : j \in Slots
                 /\ \A j \in 0 .. user[v].probe - 1 : j \in Slots
      <4>1. First(v) \in Slots /\ user[v].probe \in Slots  BY Slot, Fields
      <4> QED  BY <4>1, Slot DEF Slots
    <3>3. ASSUME queue'[0].tid = u, f # 0, NEW j \in f .. MAX_THREAD_TASK - 1
          PROVE  Others(u, j)'
      <4>1. j \in Slots /\ j # 0  BY <2>1, <3>2, <3>3, Slot
      <4>2. k = 0  BY <2>1, <2>2, <3>3, Searched, Slot DEF OnlyQueue
      <4>3. Others(u, j)  BY <2>1, <3>3, <4>2, Slot DEF Path
      <4> QED  BY <2>2, <4>1, <4>2, <4>3 DEF OnlyQueue, Others
    <3>4. ~Searches(u)'  BY <2>2 DEF Searches
    <3> QED  BY <3>1, <3>2, <3>3, <3>4 DEF Path
  <2>3. CASE queue' = queue /\ user'[u].got
    <3>1. ~Searches(u)'  BY <2>3 DEF Searches
    <3>2. \A v \in Users \ {u} : Searches(v)' = Searches(v) /\ user'[v].probe = user[v].probe
      BY <2>1 DEF OnlyUser, Searches, Found
    <3>3. \A v \in Users, j \in Nat : Others(v, j)' = Others(v, j)  BY <2>3 DEF Others
    <3> QED  BY <2>3, <3>1, <3>2 DEF Path, Others
  <2>4. CASE /\ Others(u, k) /\ queue' = queue /\ NextSlot(k) # f /\ user'[u].probe = NextSlot(k)
    <3> DEFINE n == NextSlot(k)
    <3>1. /\ n \in Slots /\ n \in Nat /\ f \in Nat /\ k \in Nat /\ k < MAX_THREAD_TASK /\ f < MAX_THREAD_TASK
          /\ n = IF k + 1 = MAX_THREAD_TASK THEN 0 ELSE k + 1
      BY <2>1, Slot
    <3>2. /\ k >= f => \A j \in f .. k - 1 : Others(u, j)
          /\ k < f => \A j \in f .. MAX_THREAD_TASK - 1 : Others(u, j)
          /\ k < f => \A j \in 0 .. k - 1 : Others(u, j)
      BY <2>1 DEF Path
    <3> HIDE DEF n, f, k
    <3>3. n # f /\ Others(u, k) /\ MAX_THREAD_TASK \in Nat \ {0}  BY <2>4, Slot DEF n, f, k
    <3>4. /\ n >= f => \A j \in f .. n - 1 : Others(u, j)
          /\ n < f => \A j \in f .. MAX_THREAD_TASK - 1 : Others(u, j)
          /\ n < f => \A j \in 0 .. n - 1 : Others(u, j)
      <4>1. CASE n = 0 /\ k = MAX_THREAD_TASK - 1  BY <3>1, <3>2, <3>3, <4>1
      <4>2. CASE n = k + 1 /\ k >= f  BY <3>1, <3>2, <3>3, <4>2
      <4>3. CASE n = k + 1 /\ k < f  BY <3>1, <3>2, <3>3, <4>3
      <4> QED  BY <3>1, <4>1, <4>2, <4>3
    <3>5. user'[u].probe = n  BY <2>4 DEF n, k
    <3>6. \A v \in Users \ {u} : Searches(v)' = Searches(v) /\ user'[v].probe = user[v].probe
      BY <2>1 DEF OnlyUser, Searches, Found
    <3>7. queue' = queue  BY <2>4
    <3> QED  BY <3>4, <3>5, <3>6, <3>7 DEF Path, Others, f
  <2> QED  BY <1>2, <2>2, <2>3, <2>4, ProbeIs DEF UserNow, QueueNow
<1> QED  BY <1>1, <1>2, OnlyProbe

\* Who is inside itimer_update_timer, and its queue, stay.
SameHolds ==
  /\ \A u \in Users : Holds(u)' = Holds(u) /\ (Holds(u) => user'[u].key = user[u].key)
  /\ \A k \in Slots : /\ queue'[k].lock = queue[k].lock
                      /\ queue[k].lock # Nobody => queue'[k].tid = queue[k].tid

LEMMA SameLocks ==
  ASSUME Types, Locks, SameHolds
  PROVE  Locks'
<1>1. ASSUME NEW u \in Users, Holds(u)'
      PROVE  /\ user'[u].key # NoTask
             /\ queue'[user'[u].key].lock = u /\ queue'[user'[u].key].tid = u
  <2>1. Holds(u) /\ user'[u].key = user[u].key  BY <1>1 DEF SameHolds
  <2> QED  BY <2>1, HasQueue, Slot DEF SameHolds, Locks
<1>2. ASSUME NEW k \in Slots, NEW u \in Users, queue'[k].lock = u
      PROVE  Holds(u)' /\ user'[u].key = k
  BY <1>2 DEF SameHolds, Locks
<1> QED  BY <1>1, <1>2 DEF Locks

LEMMA LocksStep ==
  ASSUME Types, Keys, Path, Locks, Tasks, Named, Reserved, Live, Next
  PROVE  Locks'
<1> SUFFICES ASSUME ~SameHolds  PROVE Locks'  BY SameLocks
<1>1. user' # user \/ queue' # queue  BY DEF SameHolds, Holds
<1>2. CASE TimerNext
  <2>1. CbPush
    <3>1. ASSUME NEW e \in Evts, Pop(e)  PROVE FALSE  BY <1>1, <3>1, PopIs
    <3> QED  BY <1>1, <1>2, <3>1, TickIs, CountIs, ArmIs, StopIs, EndIs DEF TimerNext
  <2>2. /\ user' = user
        /\ \A k \in Slots : queue'[k].tid = queue[k].tid /\ queue'[k].lock = queue[k].lock
    BY <2>1, PushIs DEF OnlyQueue, QueueNow
  <2> QED  BY <2>2 DEF SameHolds, Holds
<1>3. ASSUME NEW u \in Users, UserNext(u)  PROVE Locks'
  <2>1. CASE Set(u)
    BY <2>1, SetIs DEF OnlyUser, UserNow, SameHolds, Holds
  <2>2. CASE Enter(u)
    BY <2>2, EnterIs DEF OnlyUser, UserNow, SameHolds, Holds
  <2>3. ASSUME NEW w \in Waits, NEW r \in Repeats, Start(u, w, r)  PROVE Locks'
    <3>1. user[u].back \in {"run", "task"}  BY Fields
    <3>2. /\ user[u].pc = "set" /\ OnlyUser(u) /\ queue' = queue
          /\ user'[u].pc = user[u].back /\ user'[u].back = user[u].back /\ user'[u].key = user[u].key
      BY <2>3, StartIs DEF UserNow
    <3> QED  BY <3>1, <3>2 DEF OnlyUser, SameHolds, Holds
  <2>4. ASSUME NEW h \in Handles, Unset(u, h)  PROVE Locks'  BY <1>1, <2>4, UnsetIs
  <2>5. CASE Call(u)
    BY <2>5, CallIs DEF OnlyUser, UserNow, SameHolds, Holds
  <2>6. CASE Return(u)
    <3>1. \A k \in Slots : queue'[k].tid = queue[k].tid /\ queue'[k].lock = queue[k].lock
      BY <2>6, ReturnIs DEF OnlyQueue, QueueNow
    <3> QED  BY <2>6, <3>1, ReturnIs DEF OnlyUser, UserNow, SameHolds, Holds
  <2>7. CASE Probe(u)
    <3> DEFINE k == user[u].probe
    <3>1. k \in Slots /\ Searches(u) /\ OnlyUser(u) /\ queue[k].lock = Nobody /\ user[u].key = 0
      BY <2>7, ProbeIs, Fields DEF Searches, Found
    <3>2. Holds(u) => queue[0].tid = u /\ queue[0].lock = u  BY <3>1 DEF Locks
    <3>3. \A v \in Users \ {u} : Holds(v)' = Holds(v) /\ user'[v].key = user[v].key
      BY <3>1 DEF OnlyUser, Holds
    <3>4. u # Nobody /\ 0 \in Slots  BY Slot
    <3>5. user'[u].pc = user[u].pc /\ user'[u].back = user[u].back  BY <2>7, ProbeIs DEF UserNow
    <3>6. Holds(u)' = Holds(u)  BY <3>5 DEF Holds
    <3>7. CASE /\ queue[k].tid \in {Nobody, u} /\ OnlyQueue(k) /\ QueueNow(k, u, Nobody, queue[k].tasks)
               /\ user'[u].key = k
      <4>1. ~Holds(u)  BY <3>1, <3>2, <3>4, <3>7, Searched
      <4>2. \A j \in Slots : /\ queue'[j].lock = queue[j].lock
                             /\ queue[j].lock # Nobody => queue'[j].tid = queue[j].tid
        BY <3>1, <3>7 DEF OnlyQueue, QueueNow
      <4> QED  BY <3>3, <3>6, <4>1, <4>2 DEF SameHolds
    <3>8. CASE Others(u, k) /\ queue' = queue /\ NextSlot(k) = First(u)
      <4>1. ~Holds(u)  BY <3>1, <3>2, <3>4, <3>8, Searched DEF Others
      <4> QED  BY <3>3, <3>6, <3>8, <4>1 DEF SameHolds
    <3>9. CASE queue' = queue /\ user'[u].key = user[u].key
      BY <3>3, <3>6, <3>9 DEF SameHolds
    <3> QED  BY <2>7, <3>7, <3>8, <3>9, ProbeIs DEF UserNow
  <2>8. CASE Lock(u)
    <3> DEFINE k == user[u].key
    <3>1. /\ user[u].pc = "enter" /\ OnlyUser(u) /\ ~Holds(u) /\ user'[u].key = k
          /\ \A v \in Users \ {u} : Holds(v)' = Holds(v) /\ user'[v].key = user[v].key
      BY <2>8, LockIs DEF OnlyUser, UserNow, Holds
    <3>2. CASE queue' = queue /\ user'[u].pc = "run"
      BY <3>1, <3>2 DEF SameHolds, Holds
    <3>3. CASE /\ k \in Slots /\ queue[k].lock = Nobody /\ OnlyQueue(k) /\ user'[u].pc = "update"
               /\ QueueNow(k, queue[k].tid, u, queue[k].tasks)
      <4>1. queue[k].tid = u /\ k # NoTask
        <5>1. k = 0 \/ k > 0
          <6>1. k \in Nat  BY <3>3, Slot
          <6> QED  BY <6>1
        <5> QED  BY <2>8, <3>3, <5>1, LockIs, Slot DEF Keys, Found
      <4>2. Holds(u)' /\ queue'[k].lock = u /\ queue'[k].tid = u
        BY <3>3, <4>1 DEF Holds, QueueNow
      <4>3. ASSUME NEW v \in Users \ {u}, Holds(v)'
            PROVE  /\ user'[v].key # NoTask
                   /\ queue'[user'[v].key].lock = v /\ queue'[user'[v].key].tid = v
        <5>1. Holds(v) /\ user'[v].key = user[v].key  BY <3>1, <4>3
        <5>2. /\ user[v].key \in Slots \ {k} /\ user[v].key # NoTask
              /\ queue[user[v].key].lock = v /\ queue[user[v].key].tid = v
          BY <3>3, <5>1, HasQueue, Slot
        <5> QED  BY <3>3, <5>1, <5>2 DEF OnlyQueue
      <4>4. ASSUME NEW j \in Slots \ {k}, NEW v \in Users, queue'[j].lock = v
            PROVE  Holds(v)' /\ user'[v].key = j
        <5>1. queue[j].lock = v  BY <3>3, <4>4 DEF OnlyQueue
        <5>2. Holds(v) /\ user[v].key = j  BY <5>1 DEF Locks
        <5> QED  BY <3>1, <5>2
      <4> QED  BY <3>1, <4>1, <4>2, <4>3, <4>4 DEF Locks
    <3> QED  BY <2>8, <3>2, <3>3, LockIs DEF UserNow
  <2>9. CASE Leave(u)
    <3> DEFINE k == user[u].key
    <3>1. /\ Holds(u) /\ OnlyUser(u) /\ OnlyQueue(k) /\ queue'[k].lock = Nobody
          /\ user'[u].pc = "run"
      BY <2>9, LeaveIs DEF UserNow, QueueNow
    <3>2. ~Holds(u)'  BY <3>1 DEF Holds
    <3>3. \A v \in Users \ {u} : Holds(v)' = Holds(v) /\ user'[v].key = user[v].key
      BY <3>1 DEF OnlyUser, Holds
    <3>4. ASSUME NEW v \in Users, Holds(v)'
          PROVE  /\ user'[v].key # NoTask
                 /\ queue'[user'[v].key].lock = v /\ queue'[user'[v].key].tid = v
      <4>1. v # u /\ Holds(v) /\ user'[v].key = user[v].key  BY <3>2, <3>3, <3>4
      <4>2. /\ user[v].key \in Slots \ {k} /\ user[v].key # NoTask
            /\ queue[user[v].key].lock = v /\ queue[user[v].key].tid = v
        BY <3>1, <4>1, HasQueue, Slot
      <4> QED  BY <3>1, <4>1, <4>2 DEF OnlyQueue
    <3>5. ASSUME NEW j \in Slots, NEW v \in Users, queue'[j].lock = v
          PROVE  Holds(v)' /\ user'[v].key = j
      <4>1. j # k /\ queue[j].lock = v  BY <3>1, <3>5, Slot DEF OnlyQueue
      <4>2. Holds(v) /\ user[v].key = j  BY <4>1 DEF Locks
      <4> QED  BY <3>1, <3>3, <4>1, <4>2
    <3> QED  BY <3>4, <3>5 DEF Locks
  <2> QED  BY <1>3, <2>1, <2>2, <2>3, <2>4, <2>5, <2>6, <2>7, <2>8, <2>9 DEF UserNext, Inside
<1> QED  BY <1>2, <1>3 DEF Next

\* Queues, timers and callbacks stay.
SameTasks ==
  /\ \A k \in Slots : queue'[k].tid = queue[k].tid /\ queue'[k].tasks = queue[k].tasks
  /\ \A u \in Users : (InTask(u)' => InTask(u)) /\ user'[u].key = user[u].key
  /\ asked' = asked

LEMMA StillTasks ==
  ASSUME Types, Locks, Tasks, SameTasks
  PROVE  Tasks'
<1>1. ASSUME NEW u \in Users, InTask(u)'
      PROVE  user'[u].key # NoTask /\ queue'[user'[u].key].tasks # <<>>
  <2>1. InTask(u) /\ user'[u].key = user[u].key  BY <1>1 DEF SameTasks
  <2>2. user[u].key \in Slots  BY <2>1, HasQueue DEF InTask, Holds
  <2> QED  BY <2>1, <2>2 DEF SameTasks, Tasks
<1>2. \A h \in Handles : asked[h].key # NoTask => asked[h].key \in Slots  BY Fields
<1> QED  BY <1>1, <1>2 DEF SameTasks, Tasks

\* Inside itimer_update_timer each thread has another queue.
LEMMA OwnQueue ==
  ASSUME Types, Locks, NEW u \in Users, NEW v \in Users, u # v, Holds(u), Holds(v)
  PROVE  user[u].key # user[v].key
BY HasQueue

LEMMA TasksStep ==
  ASSUME Types, Keys, Path, Locks, Tasks, Named, Reserved, Live, Next
  PROVE  Tasks'
<1> SUFFICES ASSUME ~SameTasks  PROVE Tasks'  BY StillTasks
<1>1. user' # user \/ queue' # queue \/ asked' # asked  BY DEF SameTasks, InTask
<1>2. CASE TimerNext
  <2> DEFINE e == timer.e
             k == evt[e].task
             h == evt[e].handle
  <2>1. CbPush
    <3>1. ASSUME NEW d \in Evts, Pop(d)  PROVE FALSE  BY <1>1, <3>1, PopIs
    <3> QED  BY <1>1, <1>2, <3>1, TickIs, CountIs, ArmIs, StopIs, EndIs DEF TimerNext
  <2>2. user' = user /\ asked' = asked  BY <2>1, PushIs
  <2>3. /\ evt[e].ok /\ k \in Slots /\ OnlyQueue(k)
        /\ QueueNow(k, queue[k].tid, Nobody, Append(queue[k].tasks, h))
    BY <1>1, <2>1, <2>2, PushIs
  <2>4. h \in Handles /\ asked[h].tid # Nobody /\ asked[h].tid = queue[k].tid
    <3>1. e \in Evts /\ ~evt[e].pooled /\ asked[h].key = k  BY <2>3, Fields DEF Live
    <3>2. h \in Handles  BY <3>1, HandleIs
    <3>3. k # NoTask  BY <2>3, Slot
    <3> QED  BY <2>3, <3>1, <3>2, <3>3 DEF Live, Tasks
  <2>5. ASSUME NEW j \in Slots
        PROVE  /\ queue'[j].tid = queue[j].tid /\ (queue[j].tasks # <<>> => queue'[j].tasks # <<>>)
               /\ \A i \in DOMAIN queue'[j].tasks :
                    /\ asked[queue'[j].tasks[i]].tid = queue[j].tid
                    /\ asked[queue'[j].tasks[i]].tid # Nobody
    <3>1. CASE j # k
      <4>1. queue'[j] = queue[j]  BY <2>3, <3>1 DEF OnlyQueue
      <4> QED  BY <4>1 DEF Tasks
    <3>2. CASE j = k
      <4> DEFINE s == queue[k].tasks
      <4>1. s \in Seq(Handles) /\ queue'[k].tasks = Append(s, h) /\ queue'[k].tid = queue[k].tid
        BY <2>3, Fields DEF QueueNow
      <4>2. \A i \in DOMAIN s : asked[s[i]].tid = queue[k].tid /\ asked[s[i]].tid # Nobody
        BY <2>3 DEF Tasks
      <4>3. Append(s, h) # <<>> /\ \A i \in DOMAIN Append(s, h) :
              (i \in DOMAIN s /\ Append(s, h)[i] = s[i]) \/ Append(s, h)[i] = h
        BY <4>1, <2>4, Appended
      <4> HIDE DEF s, k, h
      <4>4. \A i \in DOMAIN Append(s, h) : /\ asked[Append(s, h)[i]].tid = queue[k].tid
                                          /\ asked[Append(s, h)[i]].tid # Nobody
        BY <2>4, <4>2, <4>3
      <4> QED  BY <3>2, <4>1, <4>3, <4>4
    <3> QED  BY <3>1, <3>2
  <2>6. ASSUME NEW u \in Users, InTask(u)'
        PROVE  user'[u].key # NoTask /\ queue'[user'[u].key].tasks # <<>>
    <3>1. InTask(u)  BY <2>2, <2>6 DEF InTask
    <3>2. user[u].key \in Slots  BY <3>1, HasQueue DEF InTask, Holds
    <3> QED  BY <2>2, <2>5, <3>1, <3>2 DEF Tasks
  <2>7. \A g \in Handles : asked[g].key # NoTask => asked[g].key \in Slots  BY Fields
  <2> QED  BY <2>2, <2>5, <2>6, <2>7 DEF Tasks
<1>3. ASSUME NEW u \in Users, UserNext(u)  PROVE Tasks'
  <2>1. CASE Set(u)  BY <2>1, SetIs DEF OnlyUser, UserNow, SameTasks, InTask
  <2>2. CASE Enter(u)  BY <2>2, EnterIs DEF OnlyUser, UserNow, SameTasks, InTask
  <2>3. CASE Lock(u)
    <3>1. \A k \in Slots : queue'[k].tid = queue[k].tid /\ queue'[k].tasks = queue[k].tasks
      BY <2>3, LockIs DEF OnlyQueue, QueueNow
    <3> QED  BY <2>3, <3>1, LockIs DEF OnlyUser, UserNow, SameTasks, InTask
  <2>4. CASE Leave(u)
    <3>1. \A k \in Slots : queue'[k].tid = queue[k].tid /\ queue'[k].tasks = queue[k].tasks
      BY <2>4, LeaveIs DEF OnlyQueue, QueueNow
    <3> QED  BY <2>4, <3>1, LeaveIs DEF OnlyUser, UserNow, SameTasks, InTask
  <2>5. CASE Call(u)
    <3>1. /\ queue' = queue /\ asked' = asked /\ user'[u].key = user[u].key /\ OnlyUser(u)
          /\ Holds(u) /\ queue[user[u].key].tasks # <<>>
      BY <2>5, CallIs DEF UserNow
    <3>2. user[u].key # NoTask  BY <3>1 DEF Locks
    <3>3. ASSUME NEW v \in Users \ {u}, InTask(v)'
          PROVE  user'[v].key # NoTask /\ queue[user'[v].key].tasks # <<>>
      <4>1. user'[v] = user[v]  BY <3>1 DEF OnlyUser
      <4> QED  BY <3>3, <4>1 DEF Tasks, InTask
    <3> QED  BY <3>1, <3>2, <3>3 DEF Tasks
  <2>6. CASE Return(u)
    <3> DEFINE k == user[u].key
               s == queue[k].tasks
    <3>1. /\ asked' = asked /\ OnlyUser(u) /\ Holds(u) /\ user'[u].pc = "update" /\ OnlyQueue(k)
          /\ queue'[k].tid = queue[k].tid /\ queue'[k].tasks = Tail(s) /\ s # <<>>
      BY <2>6, ReturnIs DEF UserNow, QueueNow
    <3>2. k \in Slots /\ s \in Seq(Handles)  BY <3>1, HasQueue
    <3>3. ASSUME NEW j \in Slots, NEW i \in DOMAIN queue'[j].tasks
          PROVE  /\ asked[queue'[j].tasks[i]].tid = queue'[j].tid
                 /\ asked[queue'[j].tasks[i]].tid # Nobody
      <4>1. CASE j # k  BY <3>1, <3>3, <4>1 DEF OnlyQueue, Tasks
      <4>2. CASE j = k
        <5>1. i \in DOMAIN Tail(s)  BY <3>1, <3>3, <4>2
        <5>2. i + 1 \in DOMAIN s /\ Tail(s)[i] = s[i + 1]  BY <3>1, <3>2, <5>1, Tailed
        <5>3. \A m \in DOMAIN s : asked[s[m]].tid = queue[k].tid /\ asked[s[m]].tid # Nobody
          BY <3>2 DEF Tasks
        <5> HIDE DEF s, k
        <5>4. asked[Tail(s)[i]].tid = queue[k].tid /\ asked[Tail(s)[i]].tid # Nobody
          BY <5>2, <5>3
        <5> QED  BY <3>1, <4>2, <5>4
      <4> QED  BY <4>1, <4>2
    <3>4. ASSUME NEW v \in Users, InTask(v)'
          PROVE  user'[v].key # NoTask /\ queue'[user'[v].key].tasks # <<>>
      <4>1. v # u /\ user'[v] = user[v]  BY <3>1, <3>4 DEF OnlyUser, InTask
      <4>2. InTask(v) /\ Holds(v)  BY <3>4, <4>1 DEF InTask, Holds
      <4>3. user[v].key \in Slots \ {k}  BY <3>1, <4>1, <4>2, OwnQueue, HasQueue
      <4> QED  BY <3>1, <4>1, <4>2, <4>3 DEF OnlyQueue, Tasks
    <3>5. \A j \in Slots : queue'[j].tid = queue[j].tid  BY <3>1 DEF OnlyQueue
    <3>6. \A g \in Handles : asked[g].key # NoTask => asked[g].key \in Slots  BY Fields
    <3> QED  BY <3>1, <3>3, <3>4, <3>5, <3>6 DEF Tasks
  <2>7. CASE Probe(u)
    <3> DEFINE k == user[u].probe
    <3>1. /\ k \in Slots /\ OnlyUser(u) /\ asked' = asked /\ Searches(u) /\ user[u].key = 0
          /\ InTask(u)' = InTask(u) /\ queue[k].lock = Nobody
      BY <2>7, ProbeIs, Fields DEF UserNow, Searches, Found, InTask
    <3>2. ASSUME NEW v \in Users \ {u}  PROVE InTask(v)' = InTask(v) /\ user'[v] = user[v]
      BY <3>1 DEF OnlyUser, InTask
    <3>3. InTask(u) => Holds(u)  BY DEF InTask, Holds
    <3>4. InTask(u) => queue[0].tid = u /\ queue[0].lock = u /\ k # 0
      BY <3>1, <3>3, Slot DEF Locks
    <3>5. CASE queue[k].tid \in {Nobody, u} /\ OnlyQueue(k) /\ QueueNow(k, u, Nobody, queue[k].tasks)
      <4>1. ~InTask(u)  BY <3>1, <3>4, <3>5, Searched
      <4>2. \A j \in Slots : /\ queue'[j].tasks = queue[j].tasks
                             /\ queue[j].tid # Nobody => queue'[j].tid = queue[j].tid
        BY <3>1, <3>5 DEF OnlyQueue, QueueNow
      <4>3. \A v \in Users : InTask(v) => user[v].key \in Slots
        BY HasQueue DEF InTask, Holds
      <4>4. \A g \in Handles : asked[g].key # NoTask => asked[g].key \in Slots  BY Fields
      <4>5. \A v \in Users : InTask(v)' => user'[v].key # NoTask /\ queue'[user'[v].key].tasks # <<>>
        BY <3>1, <3>2, <4>1, <4>2, <4>3 DEF Tasks
      <4>6. \A j \in Slots : \A i \in DOMAIN queue'[j].tasks :
              /\ asked[queue'[j].tasks[i]].tid = queue'[j].tid
              /\ asked[queue'[j].tasks[i]].tid # Nobody
        BY <4>2 DEF Tasks
      <4>7. \A g \in Handles : asked[g].key # NoTask =>
              asked[g].tid # Nobody /\ queue'[asked[g].key].tid = asked[g].tid
        BY <4>2, <4>4 DEF Tasks
      <4> QED  BY <3>1, <4>5, <4>6, <4>7 DEF Tasks
    <3>6. CASE Others(u, k) /\ queue' = queue /\ NextSlot(k) = First(u)
      <4>1. ~InTask(u)  BY <3>1, <3>4, <3>6, Slot, Searched DEF Others
      <4> QED  BY <3>1, <3>2, <3>6, <4>1 DEF Tasks
    <3>7. CASE queue' = queue /\ user'[u].key = user[u].key
      BY <3>1, <3>2, <3>7 DEF SameTasks
    <3> QED  BY <2>7, <3>5, <3>6, <3>7, ProbeIs DEF UserNow
  <2>8. ASSUME NEW w \in Waits, NEW r \in Repeats, Start(u, w, r)  PROVE Tasks'
    <3> DEFINE e == user[u].e
               h == evt[e].handle
    <3>1. /\ queue' = queue /\ OnlyUser(u) /\ user'[u].key = user[u].key
          /\ user[u].pc = "set" /\ (Found(u) \/ user[u].got)
          /\ user'[u].pc = user[u].back /\ h \in Handles
          /\ \A g \in Handles \ {h} : asked'[g] = asked[g]
          /\ asked'[h].tid = u /\ asked'[h].key = user[u].key
      BY <2>8, StartIs DEF UserNow
    <3>2. asked[h].tid = Nobody  BY <3>1, Fields DEF Reserved, Live
    <3>3. \A k \in Slots : \A i \in DOMAIN queue[k].tasks : queue[k].tasks[i] \in Handles \ {h}
      <4>1. ASSUME NEW k \in Slots, NEW i \in DOMAIN queue[k].tasks  PROVE queue[k].tasks[i] \in Handles
        <5>1. queue[k].tasks \in Seq(Handles)  BY Fields
        <5> QED  BY <4>1, <5>1
      <4> QED  BY <3>2, <4>1 DEF Tasks
    <3>4. \A v \in Users : InTask(v)' => InTask(v) /\ user'[v].key = user[v].key
      <4>1. user[u].back \in {"run", "task"}  BY Fields
      <4> QED  BY <3>1, <4>1 DEF OnlyUser, InTask
    <3>5. user[u].key # NoTask => queue[user[u].key].tid = u
      <4>1. user[u].key \in Slots \cup {NoTask}  BY Fields
      <4>2. user[u].key # NoTask => user[u].key \in Nat  BY <4>1, Slot
      <4>3. user[u].key # NoTask => user[u].key = 0 \/ user[u].key > 0  BY <4>2
      <4> QED  BY <3>1, <4>3 DEF Keys, Found
    <3>6. u # Nobody  BY Slot
    <3>7. \A g \in Handles : asked'[g].key # NoTask =>
            asked'[g].tid # Nobody /\ queue[asked'[g].key].tid = asked'[g].tid
      BY <3>1, <3>5, <3>6 DEF Tasks
    <3>8. \A k \in Slots : \A i \in DOMAIN queue[k].tasks :
            /\ asked'[queue[k].tasks[i]].tid = queue[k].tid
            /\ asked'[queue[k].tasks[i]].tid # Nobody
      BY <3>1, <3>3 DEF Tasks
    <3> QED  BY <3>1, <3>4, <3>7, <3>8 DEF Tasks
  <2>9. ASSUME NEW h \in Handles, Unset(u, h)  PROVE Tasks'
    <3>1. /\ queue' = queue /\ user' = user
          /\ \A g \in Handles : /\ asked'[g].tid = asked[g].tid
                                /\ asked'[g].key # NoTask => asked'[g].key = asked[g].key
      BY <2>9, UnsetIs
    <3>2. \A k \in Slots : \A i \in DOMAIN queue[k].tasks : queue[k].tasks[i] \in Handles
      <4>1. ASSUME NEW k \in Slots, NEW i \in DOMAIN queue[k].tasks  PROVE queue[k].tasks[i] \in Handles
        <5>1. queue[k].tasks \in Seq(Handles)  BY Fields
        <5> QED  BY <4>1, <5>1
      <4> QED  BY <4>1
    <3>3. \A v \in Users : InTask(v)' = InTask(v)  BY <3>1 DEF InTask
    <3> QED  BY <3>1, <3>2, <3>3 DEF Tasks
  <2> QED  BY <1>3, <2>1, <2>2, <2>3, <2>4, <2>5, <2>6, <2>7, <2>8, <2>9 DEF UserNext, Inside
<1> QED  BY <1>2, <1>3 DEF Next

-------------------------------------------------------------------------------
(* Events and the timers they are *)

\* Who uses which event for which timer stays.
SameUse ==
  /\ \A e \in Evts : /\ evt'[e].handle = evt[e].handle /\ evt'[e].pooled = evt[e].pooled
                     /\ evt'[e].ok = evt[e].ok /\ evt'[e].task = evt[e].task
  /\ \A u \in Users : user'[u].pc = "set" => user[u].pc = "set" /\ user'[u].e = user[u].e
  /\ \A h \in Handles : asked[h].tid = Nobody => done'[h] = done[h]
  /\ ghandle' = ghandle /\ asked' = asked

LEMMA StillUses ==
  ASSUME Types, Uses, SameUse
  PROVE  Uses'
<1>1. Named'  BY DEF Uses, Named, SameUse
<1>2. Reserved'
  <2>1. \A u \in Users : user[u].e \in Evts  BY Fields
  <2> QED  BY <2>1 DEF Uses, Reserved, SameUse
<1>3. Live'  BY DEF Uses, Live, SameUse
<1> QED  BY <1>1, <1>2, <1>3 DEF Uses

LEMMA TimerUses ==
  ASSUME Types, Uses, TimerNext, ~CbEnd
  PROVE  SameUse
<1> SUFFICES /\ UNCHANGED <<ghandle, user, asked, done>>
             /\ \A d \in Evts : /\ evt'[d].handle = evt[d].handle /\ evt'[d].pooled = evt[d].pooled
                                /\ evt'[d].ok = evt[d].ok /\ evt'[d].task = evt[d].task
  BY DEF SameUse
<1> USE DEF EventNow, OnlyEvent
<1>1. CASE Tick  BY <1>1, TickIs
<1>2. ASSUME NEW e \in Evts, Pop(e)
      PROVE  /\ UNCHANGED <<ghandle, user, asked, done>>
             /\ \A d \in Evts : /\ evt'[d].handle = evt[d].handle /\ evt'[d].pooled = evt[d].pooled
                                /\ evt'[d].ok = evt[d].ok /\ evt'[d].task = evt[d].task
  BY <1>2, PopIs
<1>3. CASE CbCount  BY <1>3, CountIs
<1>4. CASE CbArm  BY <1>4, ArmIs
<1>5. CASE CbStop  BY <1>5, StopIs
<1>6. CASE CbPush  BY <1>6, PushIs DEF Uses
<1> QED  BY <1>1, <1>2, <1>3, <1>4, <1>5, <1>6 DEF TimerNext

\* A timer is set: its event and its handle were nobody's.
LEMMA SetUses ==
  ASSUME Types, Uses, NEW u \in Users, Set(u)
  PROVE  Uses'
<1>1. PICK e \in Evts :
        /\ evt[e].pooled /\ OnlyEvent(e)
        /\ evt'[e].handle = ghandle /\ evt'[e].pooled = FALSE /\ evt'[e].ok = evt[e].ok
        /\ user'[u].pc = "set" /\ user'[u].e = e
  BY SetIs DEF EventNow, UserNow
<1>2. /\ ghandle <= LastHandle /\ ghandle' = ghandle + 1 /\ OnlyUser(u)
      /\ asked' = asked /\ done' = done
  BY SetIs
<1>3. ghandle \in Nat /\ ghandle > 0 /\ ghandle \in Handles
  BY <1>2, ThreadAssumption DEF Types, Handles
<1>4. evt[e].ok = FALSE /\ evt'[e].ok = FALSE  BY <1>1, Fields DEF Uses, Live
<1>5. \A d \in Evts : evt[d].handle \in Nat /\ evt[d].handle < ghandle
  BY Fields DEF Uses, Named
<1>6. Named'
  <2>1. \A d \in Evts : evt'[d].handle < ghandle'  BY <1>1, <1>2, <1>3, <1>5 DEF OnlyEvent
  <2>2. \A d \in Evts : ~evt'[d].pooled => evt'[d].handle > 0
    BY <1>1, <1>3 DEF OnlyEvent, Uses, Named
  <2>3. ASSUME NEW c \in Evts, NEW d \in Evts, ~evt'[c].pooled, ~evt'[d].pooled,
               evt'[c].handle = evt'[d].handle
        PROVE  c = d
    <3>1. ghandle # evt[c].handle /\ ghandle # evt[d].handle  BY <1>3, <1>5
    <3> QED  BY <1>1, <2>3, <3>1 DEF OnlyEvent, Uses, Named
  <2>4. \A h \in Handles : h >= ghandle' => h >= ghandle
    <3>1. \A h \in Handles : h \in Int  BY DEF Handles
    <3> QED  BY <1>2, <1>3, <3>1
  <2> QED  BY <1>2, <2>1, <2>2, <2>3, <2>4 DEF Uses, Named
<1>7. Reserved'
  <2>1. ASSUME NEW v \in Users \ {u}, user'[v].pc = "set"
        PROVE  /\ user'[v] = user[v] /\ user[v].e \in Evts \ {e} /\ ~evt'[user[v].e].pooled
               /\ ~evt'[user[v].e].ok
    <3>1. user'[v] = user[v] /\ user[v].e \in Evts  BY <1>2, <2>1, Fields DEF OnlyUser
    <3>2. ~evt[user[v].e].pooled /\ ~evt[user[v].e].ok  BY <2>1, <3>1 DEF Uses, Reserved
    <3> QED  BY <1>1, <3>1, <3>2 DEF OnlyEvent
  <2> QED  BY <1>1, <1>4, <2>1 DEF Uses, Reserved
<1>8. Live'
  <2>1. asked[ghandle].tid = Nobody  BY <1>3 DEF Uses, Named
  <2> QED  BY <1>1, <1>2, <1>4, <2>1 DEF OnlyEvent, Uses, Live
<1> QED  BY <1>6, <1>7, <1>8 DEF Uses

\* It is started, with the task of the thread that has set it.
LEMMA StartUses ==
  ASSUME Types, Uses, NEW u \in Users, NEW w \in Waits, NEW r \in Repeats, Start(u, w, r)
  PROVE  Uses'
<1> DEFINE e == user[u].e
           h == evt[e].handle
<1>1. /\ user[u].pc = "set" /\ OnlyUser(u) /\ user'[u].pc = user[u].back /\ OnlyEvent(e)
      /\ evt'[e].handle = h /\ evt'[e].pooled = FALSE /\ evt'[e].ok = TRUE
      /\ evt'[e].task = user[u].key
      /\ h \in Handles /\ \A g \in Handles \ {h} : asked'[g] = asked[g]
      /\ asked'[h].tid = u /\ asked'[h].key = user[u].key
      /\ ghandle' = ghandle /\ done' = done
  BY StartIs DEF Uses, UserNow, EventNow
<1>2. user[u].back # "set" /\ e \in Evts /\ u # Nobody  BY Fields, Slot
<1>3. evt[e].pooled = FALSE /\ evt[e].ok = FALSE
  BY <1>1, <1>2, Fields DEF Uses, Reserved
<1>4. Named'
  <2>1. h < ghandle /\ ghandle \in Int  BY <1>2 DEF Uses, Named, Types
  <2>2. \A g \in Handles : g >= ghandle => g # h
    <3>1. \A g \in Handles : g \in Int  BY DEF Handles
    <3> QED  BY <1>1, <2>1, <3>1
  <2>3. /\ \A d \in Evts : evt'[d].handle = evt[d].handle /\ evt'[d].pooled = evt[d].pooled
        /\ \A g \in Handles : g >= ghandle => asked'[g].tid = Nobody
    BY <1>1, <1>3, <2>2 DEF OnlyEvent, Uses, Named
  <2>4. \A g \in Handles : asked'[g].tid = Nobody => asked'[g].key = NoTask /\ done'[g] = 0
    BY <1>1, <1>2 DEF Uses, Named
  <2> QED  BY <1>1, <2>3, <2>4 DEF Uses, Named
<1>5. Reserved'
  <2>1. ASSUME NEW v \in Users, user'[v].pc = "set"
        PROVE  user'[v] = user[v] /\ user[v].e \in Evts \ {e} /\ evt'[user[v].e] = evt[user[v].e]
    <3>1. v # u /\ user'[v] = user[v]  BY <1>1, <1>2, <2>1 DEF OnlyUser
    <3>2. user[v].e # e  BY <1>1, <2>1, <3>1 DEF Uses, Reserved
    <3> QED  BY <1>1, <3>1, <3>2, Fields DEF OnlyEvent
  <2> QED  BY <2>1 DEF Uses, Reserved
<1>6. Live'
  <2>1. ASSUME NEW d \in Evts \ {e}
        PROVE  evt'[d] = evt[d] /\ (~evt[d].pooled => asked'[evt[d].handle] = asked[evt[d].handle])
    <3>1. ~evt[d].pooled => evt[d].handle \in Handles \ {h}
      BY <1>2, <1>3, HandleIs DEF Uses, Named
    <3> QED  BY <1>1, <3>1 DEF OnlyEvent
  <2>2. ASSUME NEW d \in Evts \ {e}
        PROVE  /\ evt'[d].ok => /\ ~evt'[d].pooled
                                /\ asked'[evt'[d].handle].tid # Nobody
                                /\ evt'[d].task = asked'[evt'[d].handle].key
               /\ ~evt'[d].ok /\ ~evt'[d].pooled => asked'[evt'[d].handle].tid = Nobody
    BY <2>1 DEF Uses, Live
  <2> QED  BY <1>1, <1>2, <2>2 DEF Live
<1> QED  BY <1>4, <1>5, <1>6 DEF Uses

\* An event goes back to the pool.
LEMMA FreeUses ==
  ASSUME Types, Uses, NEW e \in Evts, ~evt[e].pooled, asked[evt[e].handle].tid # Nobody,
         OnlyEvent(e), evt'[e].handle = evt[e].handle, evt'[e].pooled = TRUE, evt'[e].ok = FALSE,
         \A g \in Handles : /\ asked'[g].tid = asked[g].tid
                            /\ asked'[g].key \in {asked[g].key, NoTask}
                            /\ g # evt[e].handle => asked'[g] = asked[g],
         UNCHANGED <<ghandle, user, done>>
  PROVE  Uses'
<1>1. Named'  BY DEF OnlyEvent, Uses, Named
<1>2. Reserved'
  <2>1. ASSUME NEW v \in Users, user[v].pc = "set"
        PROVE  evt'[user[v].e] = evt[user[v].e]
    <3>1. user[v].e \in Evts /\ ~evt[user[v].e].pooled /\ ~evt[user[v].e].ok
      BY <2>1, Fields DEF Uses, Reserved
    <3>2. user[v].e # e  BY <3>1 DEF Uses, Live
    <3> QED  BY <3>1, <3>2 DEF OnlyEvent
  <2> QED  BY <2>1 DEF Uses, Reserved
<1>3. Live'
  <2>1. ASSUME NEW d \in Evts \ {e}
        PROVE  evt'[d] = evt[d] /\ (~evt[d].pooled => asked'[evt[d].handle] = asked[evt[d].handle])
    <3>1. ~evt[d].pooled => evt[d].handle \in Handles /\ evt[d].handle # evt[e].handle
      BY HandleIs DEF Uses, Named
    <3> QED  BY <3>1 DEF OnlyEvent
  <2>2. ASSUME NEW d \in Evts \ {e}
        PROVE  /\ evt'[d].ok => /\ ~evt'[d].pooled
                                /\ asked'[evt'[d].handle].tid # Nobody
                                /\ evt'[d].task = asked'[evt'[d].handle].key
               /\ ~evt'[d].ok /\ ~evt'[d].pooled => asked'[evt'[d].handle].tid = Nobody
    BY <2>1 DEF Uses, Live
  <2> QED  BY <2>2 DEF Live
<1> QED  BY <1>1, <1>2, <1>3 DEF Uses

LEMMA UsesStep ==
  ASSUME Types, Keys, Path, Locks, Tasks, Uses, Next
  PROVE  Uses'
<1>1. CASE TimerNext /\ ~CbEnd  BY <1>1, TimerUses, StillUses
<1>2. CASE CbEnd
  <2> DEFINE e == timer.e
  <2>1. /\ OnlyEvent(e) /\ e \in Evts /\ evt'[e].handle = evt[e].handle
        /\ UNCHANGED <<ghandle, user, asked, done>>
    BY <1>2, EndIs, Fields DEF EventNow, Uses
  <2>2. CASE evt[e].ok /\ evt'[e].pooled = TRUE /\ evt'[e].ok = FALSE
    <3>1. ~evt[e].pooled /\ asked[evt[e].handle].tid # Nobody  BY <2>1, <2>2 DEF Uses, Live
    <3> QED  BY <2>1, <2>2, <3>1, FreeUses
  <2>3. CASE evt'[e].pooled = evt[e].pooled /\ evt'[e].ok = evt[e].ok /\ evt'[e].task = evt[e].task
    <3>1. SameUse  BY <2>1, <2>3 DEF OnlyEvent, SameUse
    <3> QED  BY <3>1, StillUses
  <2> QED  BY <1>2, <2>2, <2>3, EndIs DEF EventNow, Uses
<1>3. ASSUME NEW u \in Users, UserNext(u)  PROVE Uses'
  <2>1. CASE Set(u)  BY <2>1, SetUses
  <2>2. ASSUME NEW w \in Waits, NEW r \in Repeats, Start(u, w, r)  PROVE Uses'
    BY <2>2, StartUses
  <2>3. ASSUME NEW h \in Handles, Unset(u, h)  PROVE Uses'
    <3>1. PICK e \in Evts : /\ ~evt[e].pooled /\ evt[e].handle = h /\ OnlyEvent(e)
                            /\ evt'[e].handle = h /\ evt'[e].pooled = TRUE /\ evt'[e].ok = FALSE
      BY <2>3, UnsetIs DEF EventNow
    <3>2. /\ UNCHANGED <<ghandle, user, done>> /\ asked[h].tid # Nobody
          /\ \A g \in Handles \ {h} : asked'[g] = asked[g]
          /\ asked'[h].tid = asked[h].tid /\ asked'[h].key = NoTask
      BY <2>3, UnsetIs
    <3>3. \A g \in Handles : /\ asked'[g].tid = asked[g].tid
                            /\ asked'[g].key \in {asked[g].key, NoTask}
                            /\ g # h => asked'[g] = asked[g]
      BY <3>2
    <3> QED  BY <3>1, <3>2, <3>3, FreeUses
  <2>4. CASE Call(u)
    <3> DEFINE k == user[u].key
               g == Head(queue[k].tasks)
    <3>1. /\ done' = [done EXCEPT ![g] = done[g] + 1] /\ queue[k].tasks # <<>>
          /\ UNCHANGED <<evt, ghandle, asked>> /\ OnlyUser(u) /\ Holds(u) /\ user'[u].pc = "task"
      BY <2>4, CallIs DEF UserNow
    <3>2. asked[g].tid # Nobody
      <4>1. k \in Slots /\ queue[k].tasks \in Seq(Handles)  BY <3>1, HasQueue
      <4>2. 1 \in DOMAIN queue[k].tasks /\ g = queue[k].tasks[1]  BY <3>1, <4>1
      <4> QED  BY <4>1, <4>2 DEF Tasks
    <3>3. \A h \in Handles : h # g => done'[h] = done[h]  BY <3>1 DEF Types
    <3>4. SameUse  BY <3>1, <3>2, <3>3 DEF SameUse, OnlyUser
    <3> QED  BY <3>4, StillUses
  <2>5. ASSUME UNCHANGED <<evt, ghandle, asked, done>>, OnlyUser(u),
               user'[u].pc = "set" => user[u].pc = "set" /\ user'[u].e = user[u].e
        PROVE  Uses'
    <3>1. SameUse  BY <2>5 DEF SameUse, OnlyUser
    <3> QED  BY <3>1, StillUses
  <2>6. CASE Enter(u)  BY <2>5, <2>6, EnterIs DEF UserNow
  <2>7. CASE Probe(u)  BY <2>5, <2>7, ProbeIs DEF UserNow
  <2>8. CASE Lock(u)  BY <2>5, <2>8, LockIs DEF UserNow
  <2>9. CASE Return(u)  BY <2>5, <2>9, ReturnIs DEF UserNow
  <2>10. CASE Leave(u)  BY <2>5, <2>10, LeaveIs DEF UserNow
  <2> QED  BY <1>3, <2>1, <2>2, <2>3, <2>4, <2>6, <2>7, <2>8, <2>9, <2>10 DEF UserNext, Inside
<1> QED  BY <1>1, <1>2, <1>3 DEF Next

-------------------------------------------------------------------------------
(* The timer thread and its event *)

\* Each event is as it was for the timer thread, but for the node's list.
SameEvents ==
  \A e \in Evts : /\ evt'[e].ok = evt[e].ok /\ evt'[e].end = evt[e].end
                  /\ evt'[e].mgr = evt[e].mgr /\ evt'[e].repeat = evt[e].repeat
                  /\ evt'[e].running = evt[e].running /\ evt'[e].handle = evt[e].handle
                  /\ evt[e].node = "off" => evt'[e].node = "off"

LEMMA StillSafe ==
  ASSUME Types, Uses, Safe, SameEvents, timer'.pc = timer.pc, timer'.e = timer.e,
         crash' = crash, asked' = asked
  PROVE  Safe'
<1>1. Sound'  BY DEF Safe, Sound, SameEvents
<1>2. TimerInv'  BY Fields DEF Safe, TimerInv, SameEvents
<1> QED  BY <1>1, <1>2 DEF Safe

\* The timer thread changes its own event.
LEMMA SoundBut ==
  ASSUME Sound, NEW e \in Evts, OnlyEvent(e), asked' = asked, \A d \in Evts : d # e => ~evt[d].end,
         evt'[e].ok, evt'[e].end \/ evt'[e].mgr,
         (evt'[e].repeat = 0) = (asked[evt'[e].handle].repeat = 0),
         evt'[e].end => timer'.pc = "push" /\ timer'.e = e /\ evt'[e].node = "off"
  PROVE  Sound'
BY DEF Sound, OnlyEvent

LEMMA TimerSafe ==
  ASSUME Types, Uses, Safe, TimerNext
  PROVE  Safe'
<1> DEFINE e == timer.e
<1> USE DEF EventNow, TimerNow
<1>1. e \in Evts  BY Fields
<1>2. timer.pc # "idle" => evt[e].ok  BY DEF Safe, TimerInv
<1>3. evt[e].end => timer.pc = "push" /\ evt[e].node = "off"  BY <1>1 DEF Safe, Sound
<1>4. \A d \in Evts : d # e => ~evt[d].end  BY DEF Safe, Sound
<1>5. CASE Tick  BY <1>5, TickIs, StillSafe DEF SameEvents
<1>6. ASSUME NEW d \in Evts, Pop(d)  PROVE Safe'
  <2>1. timer.pc = "idle" /\ evt[d].node = "queued"  BY <1>6, PopIs
  <2>2. evt[d].ok  BY <2>1 DEF Safe, Sound
  <2>3. TimerInv'  BY <1>6, <2>2, PopIs DEF TimerInv
  <2>4. Sound'  BY <1>6, <2>1, PopIs DEF Safe, Sound, OnlyEvent
  <2> QED  BY <1>6, <2>3, <2>4, PopIs DEF Safe
<1>7. CASE CbCount
  <2>1. timer.pc = "cb"  BY <1>7, CountIs
  <2>2. evt[e].ok /\ ~evt[e].end /\ evt[e].mgr  BY <1>1, <1>2, <1>3, <2>1 DEF Safe, Sound
  <2>3. PICK k \in Nat \ {0}, p \in {"stop", "arm"} :
          /\ OnlyEvent(e) /\ UNCHANGED crash /\ asked' = asked
          /\ timer'.pc = p /\ timer'.e = e
          /\ evt'[e].handle = evt[e].handle /\ evt'[e].node = evt[e].node
          /\ evt'[e].ok = evt[e].ok /\ evt'[e].mgr = evt[e].mgr
          /\ evt'[e].repeat = Less(evt[e].repeat, k) /\ evt'[e].end = evt[e].end
    BY <1>7, <2>2, CountIs
  <2>4. (Less(evt[e].repeat, k) = 0) = (evt[e].repeat = 0)
    <3>1. evt[e].repeat \in Nat  BY <1>1, Fields
    <3> QED  BY <3>1 DEF Less
  <2>5. TimerInv'  BY <2>2, <2>3 DEF TimerInv
  <2>6. (evt[e].repeat = 0) = (asked[evt[e].handle].repeat = 0)
    BY <1>1, <2>2 DEF Safe, Sound
  <2>7. Sound'  BY <1>1, <1>4, <2>2, <2>3, <2>4, <2>6, SoundBut DEF Safe
  <2> QED  BY <2>3, <2>5, <2>7 DEF Safe
<1>8. CASE CbArm
  <2>1. timer.pc = "arm"  BY <1>8, ArmIs
  <2>2. evt[e].ok /\ ~evt[e].end  BY <1>2, <1>3, <2>1
  <2>3. TimerInv'  BY <1>8, <2>2, ArmIs DEF TimerInv
  <2>4. Sound'
    <3>1. (evt[e].repeat = 0) = (asked[evt[e].handle].repeat = 0) /\ evt[e].mgr
      BY <1>1, <2>2 DEF Safe, Sound
    <3>2. /\ OnlyEvent(e) /\ asked' = asked /\ evt'[e].ok /\ ~evt'[e].end /\ evt'[e].mgr
          /\ evt'[e].repeat = evt[e].repeat /\ evt'[e].handle = evt[e].handle
      BY <1>8, <2>2, <3>1, ArmIs
    <3> QED  BY <1>1, <1>4, <3>1, <3>2, SoundBut DEF Safe
  <2> QED  BY <1>8, <2>2, <2>3, <2>4, ArmIs DEF Safe
<1>9. CASE CbStop
  <2>1. timer.pc = "stop"  BY <1>9, StopIs
  <2>2. evt[e].ok /\ ~evt[e].end /\ evt[e].mgr  BY <1>1, <1>2, <1>3, <2>1 DEF Safe, Sound
  <2>3. TimerInv'  BY <1>9, <2>2, StopIs DEF TimerInv
  <2>4. Sound'
    <3>1. (evt[e].repeat = 0) = (asked[evt[e].handle].repeat = 0)
      BY <1>1, <2>2 DEF Safe, Sound
    <3>2. /\ OnlyEvent(e) /\ asked' = asked /\ evt'[e].ok /\ evt'[e].end /\ evt'[e].node = "off"
          /\ evt'[e].repeat = evt[e].repeat /\ evt'[e].handle = evt[e].handle
          /\ timer'.pc = "push" /\ timer'.e = e
      BY <1>9, <2>2, StopIs
    <3> QED  BY <1>1, <1>4, <3>1, <3>2, SoundBut DEF Safe
  <2> QED  BY <1>9, <2>2, <2>3, <2>4, StopIs DEF Safe
<1>10. CASE CbPush
  <2>1. evt' = evt /\ timer'.pc = timer.pc /\ timer'.e = timer.e /\ asked' = asked /\ crash' = crash
    BY <1>10, PushIs DEF Uses
  <2> QED  BY <2>1, StillSafe DEF SameEvents
<1>11. CASE CbEnd
  <2>1. /\ timer.pc = "push" /\ OnlyEvent(e) /\ timer'.pc = "idle" /\ asked' = asked /\ crash' = crash
    BY <1>11, EndIs DEF Uses
  <2>2. evt[e].ok  BY <1>2, <2>1
  <2>3. TimerInv'  BY <2>1 DEF TimerInv
  <2>4. CASE evt'[e].ok = FALSE /\ evt'[e].node = "off" /\ evt'[e].end = FALSE
    BY <1>1, <1>4, <2>1, <2>3, <2>4 DEF Safe, Sound, OnlyEvent
  <2>5. CASE /\ ~evt[e].end /\ evt'[e].ok = evt[e].ok /\ evt'[e].end = evt[e].end
             /\ evt'[e].mgr = evt[e].mgr /\ evt'[e].repeat = evt[e].repeat
             /\ evt'[e].handle = evt[e].handle /\ evt'[e].node = evt[e].node
    BY <1>1, <1>4, <2>1, <2>3, <2>5 DEF Safe, Sound, OnlyEvent
  <2> QED  BY <1>11, <2>2, <2>4, <2>5, EndIs DEF Uses
<1> QED  BY <1>5, <1>6, <1>7, <1>8, <1>9, <1>10, <1>11 DEF TimerNext

LEMMA UserSafe ==
  ASSUME Types, Locks, Tasks, Uses, Safe, Unsets # "any", NEW u \in Users, UserNext(u)
  PROVE  Safe'
<1> USE DEF EventNow, UserNow
<1>1. ASSUME evt' = evt, timer' = timer, crash' = crash, asked' = asked  PROVE Safe'
  BY <1>1, StillSafe DEF SameEvents
<1>2. CASE Set(u)
  <2>1. PICK e \in Evts :
          /\ evt[e].pooled /\ OnlyEvent(e)
          /\ evt'[e].ok = evt[e].ok /\ evt'[e].end = evt[e].end /\ evt'[e].node = evt[e].node
    BY <1>2, SetIs
  <2>2. timer' = timer /\ crash' = crash /\ asked' = asked  BY <1>2, SetIs
  <2>3. ~evt[e].ok  BY <2>1, Fields DEF Uses, Live
  <2>4. timer.pc # "idle" => timer.e \in Evts \ {e}  BY <2>3, Fields DEF Safe, TimerInv
  <2>5. TimerInv'  BY <2>1, <2>2, <2>4 DEF Safe, TimerInv, OnlyEvent
  <2>6. Sound'  BY <2>1, <2>2, <2>3 DEF Safe, Sound, OnlyEvent
  <2> QED  BY <2>2, <2>5, <2>6 DEF Safe
<1>3. ASSUME NEW w \in Waits, NEW r \in Repeats, Start(u, w, r)  PROVE Safe'
  <2> DEFINE e == user[u].e
             h == evt[e].handle
  <2>1. /\ user[u].pc = "set" /\ OnlyEvent(e) /\ timer' = timer /\ crash' = crash
        /\ EventNow(e, h, FALSE, "wheel", TRUE, TRUE, r, FALSE, evt[e].end, user[u].key)
        /\ h \in Handles /\ (\A g \in Handles \ {h} : asked'[g] = asked[g]) /\ asked'[h].repeat = r
    <3>1. Named /\ Reserved  BY DEF Uses
    <3> HIDE DEF EventNow, UserNow
    <3> QED  BY <1>3, <3>1, StartIs, ZenonT(60)
  <2>2. e \in Evts /\ ~evt[e].ok /\ ~evt[e].pooled  BY <2>1, Fields DEF Uses, Reserved
  <2>3. ~evt[e].end  BY <2>2 DEF Safe, Sound
  <2>4. timer.pc # "idle" => timer.e \in Evts \ {e}  BY <2>2, Fields DEF Safe, TimerInv
  <2>5. TimerInv'  BY <2>1, <2>4 DEF Safe, TimerInv, OnlyEvent
  <2>6. ASSUME NEW d \in Evts \ {e}
        PROVE  evt'[d] = evt[d] /\ (evt[d].ok => asked'[evt[d].handle] = asked[evt[d].handle])
    <3>1. evt[d].ok => evt[d].handle \in Handles \ {h}
      BY <2>2, HandleIs DEF Uses, Named, Live
    <3> QED  BY <2>1, <3>1 DEF OnlyEvent
  <2>7. Sound'  BY <2>1, <2>2, <2>3, <2>6 DEF Safe, Sound
  <2> QED  BY <2>1, <2>5, <2>7 DEF Safe
<1>4. ASSUME NEW h \in Handles, Unset(u, h)  PROVE Safe'
  <2>1. PICK e \in Evts :
          /\ OnlyEvent(e) /\ (timer.pc = "idle" \/ timer.e # e)
          /\ evt'[e].ok = FALSE /\ evt'[e].node = "off" /\ evt'[e].end = FALSE
    BY <1>4, UnsetIs
  <2>2. /\ timer' = timer /\ crash' = crash
        /\ \A g \in Handles : asked'[g].repeat = asked[g].repeat
    BY <1>4, UnsetIs
  <2>3. TimerInv'  BY <2>1, <2>2, Fields DEF Safe, TimerInv, OnlyEvent
  <2>4. \A d \in Evts : evt[d].ok => evt[d].handle \in Handles
    BY HandleIs DEF Uses, Live
  <2>5. Sound'  BY <2>1, <2>2, <2>4 DEF Safe, Sound, OnlyEvent
  <2> QED  BY <2>2, <2>3, <2>5 DEF Safe
<1>5. CASE Enter(u)  BY <1>1, <1>5, EnterIs
<1>6. CASE Probe(u)  BY <1>1, <1>6, ProbeIs
<1>7. CASE Lock(u)  BY <1>1, <1>7, LockIs
<1>8. CASE Call(u)  BY <1>1, <1>8, CallIs
<1>9. CASE Return(u)  BY <1>1, <1>9, ReturnIs
<1>10. CASE Leave(u)  BY <1>1, <1>10, LeaveIs
<1> QED  BY <1>2, <1>3, <1>4, <1>5, <1>6, <1>7, <1>8, <1>9, <1>10 DEF UserNext, Inside

-------------------------------------------------------------------------------
(* From the initial state on *)

LEMMA Start0 ==
  ASSUME Init
  PROVE  IInv /\ Safe
<1>1. (CHOOSE e \in Evts : TRUE) \in Evts  BY ThreadAssumption
<1>2. Types
  <2>1. Unused \in EventSet  BY ThreadAssumption DEF Unused, EventSet
  <2>2. timer \in TimerSet  BY <1>1 DEF Init, TimerSet
  <2>3. queue \in [Slots -> QueueSet]  BY DEF Init, QueueSet
  <2>4. user \in [Users -> UserSet]  BY <1>1, Slot DEF Init, UserSet
  <2>5. asked \in [Handles -> AskedSet] /\ done \in [Handles -> Nat]  BY DEF Init, AskedSet
  <2>6. ghandle \in 1 .. LastHandle + 1  BY ThreadAssumption DEF Init
  <2> QED  BY <2>1, <2>2, <2>3, <2>4, <2>5, <2>6 DEF Init, Types
<1>3. /\ \A u \in Users : /\ user[u].pc = "run" /\ user[u].back = "run" /\ user[u].key = 0
                          /\ user[u].got = FALSE /\ u # Nobody
      /\ \A k \in Slots : queue[k].tid = Nobody /\ queue[k].lock = Nobody /\ queue[k].tasks = <<>>
      /\ 0 \in Slots /\ NoTask # 0
  BY Slot DEF Init, NoTask
<1>4. /\ \A e \in Evts : evt[e] = Unused
      /\ \A h \in Handles : asked[h].tid = Nobody /\ asked[h].key = NoTask /\ done[h] = 0
      /\ ghandle = 1 /\ timer.pc = "idle" /\ crash = "no"
  BY DEF Init
<1>5. Keys /\ Path /\ Locks  BY <1>3, Slot DEF Keys, Path, Locks, Holds, Searches
<1>6. Tasks  BY <1>3, <1>4 DEF Tasks, InTask
<1>7. Uses  BY <1>3, <1>4 DEF Uses, Named, Reserved, Live, Unused
<1>8. Safe  BY <1>4 DEF Safe, Sound, TimerInv, Unused
<1> QED  BY <1>2, <1>5, <1>6, <1>7, <1>8 DEF IInv

LEMMA IInvStep ==
  ASSUME IInv, [Next]_vars
  PROVE  IInv'
<1>1. CASE UNCHANGED vars
  BY <1>1 DEF vars, IInv, Types, Keys, Path, Locks, Tasks, Uses, Named, Reserved, Live, Others,
       Searches, Found, Holds, InTask
<1>2. CASE Next
  BY <1>2, TypesStep, KeysStep, PathStep, LocksStep, TasksStep, UsesStep DEF IInv, Uses
<1> QED  BY <1>1, <1>2

LEMMA SafeStep ==
  ASSUME IInv, Safe, Unsets # "any", [Next]_vars
  PROVE  Safe'
<1>1. CASE UNCHANGED vars  BY <1>1 DEF vars, Safe, Sound, TimerInv
<1>2. CASE Next  BY <1>2, TimerSafe, UserSafe DEF Next, IInv
<1> QED  BY <1>1, <1>2

LEMMA OwnerOf ==
  ASSUME IInv
  PROVE  TasksOfOwner
<1>1. ASSUME NEW u \in Users  PROVE Cardinality({k \in Slots : queue[k].tid = u}) <= 1
  <2> DEFINE S == {k \in Slots : queue[k].tid = u}
  <2>1. \E x : S \subseteq {x}
    <3>1. user[u].key \in Slots \cup {NoTask}  BY Fields DEF IInv
    <3>2. CASE user[u].key = NoTask  BY <3>2 DEF IInv, Keys
    <3>3. CASE user[u].key = 0  BY <3>3 DEF IInv, Keys
    <3>4. CASE user[u].key > 0  BY <3>4 DEF IInv, Keys
    <3>5. user[u].key \in Nat \cup {NoTask}  BY <3>1, Slot
    <3> QED  BY <3>2, <3>3, <3>4, <3>5
  <2>2. S = {} \/ \E x : S = {x}  BY <2>1
  <2>3. Cardinality(S) = 0 \/ Cardinality(S) = 1  BY <2>2, FS_EmptySet, FS_Singleton
  <2> QED  BY <2>3
<1> QED  BY <1>1 DEF IInv, Keys, Tasks, TasksOfOwner

\* The invariant of queues, locks, tasks and events, whatever is unset.
THEOREM Queues == Spec => []IInv
<1>1. Init => IInv  BY Start0
<1>2. IInv /\ [Next]_vars => IInv'  BY IInvStep
<1> QED  BY <1>1, <1>2, PTL DEF Spec

\* Every variable has its type, also queue numbers, probes and handles in tasks.
THEOREM TypeCorrect == Spec => []TypeOK
<1>1. Types => TypeOK
  <2> HAVE Types
  <2>1. \A k \in Slots : queue[k] \in QueueSet  BY DEF Types
  <2> QED  BY <2>1 DEF Types, TypeOK, EventSet, TimerSet, QueueSet, UserSet
<1>2. IInv => TypeOK  BY <1>1 DEF IInv
<1> QED  BY <1>2, Queues, PTL

\* GetTask gives every thread at most one queue, whatever order the threads
\* search in, and a queue holds only tasks of timers that its thread set.
THEOREM OwnTasks == Spec => []TasksOfOwner
<1>1. IInv => TasksOfOwner  BY OwnerOf
<1> QED  BY <1>1, Queues, PTL

\* itimer_evt_cb meets no destroyed event and itimer_node_add and
\* itimer_node_del assert nothing false, as long as no timer is unset in the
\* middle of its own itimer_evt_cb.
THEOREM Uncrashed ==
  ASSUME Unsets # "any"
  PROVE  Spec => []NoCrash
<1>1. Init => IInv /\ Safe  BY Start0
<1>2. IInv /\ Safe /\ [Next]_vars => IInv' /\ Safe'  BY IInvStep, SafeStep
<1>3. IInv /\ Safe => NoCrash  BY DEF Safe, NoCrash
<1> QED  BY <1>1, <1>2, <1>3, PTL DEF Spec

-------------------------------------------------------------------------------
(* Tasks that wait *)

Places(s, c, h) == {i \in DOMAIN s : s[i] = h /\ (i > 1 \/ ~c)}
Count(s, c, h) == Cardinality(Places(s, c, h))

LEMMA PlacesFinite ==
  ASSUME NEW S, NEW s \in Seq(S), NEW c \in BOOLEAN, NEW h
  PROVE  IsFiniteSet(Places(s, c, h)) /\ Count(s, c, h) \in Nat
<1>1. Len(s) \in Nat /\ DOMAIN s = 1 .. Len(s)  OBVIOUS
<1>2. IsFiniteSet(1 .. Len(s))  BY <1>1, FS_Interval
<1>3. Places(s, c, h) \subseteq 1 .. Len(s)  BY <1>1 DEF Places
<1> QED  BY <1>2, <1>3, FS_Subset, FS_CardinalityType DEF Count

\* A task that is pushed waits.
LEMMA CountAppend ==
  ASSUME NEW S, NEW s \in Seq(S), NEW x \in S
  PROVE  /\ Count(Append(s, x), FALSE, x) = Count(s, FALSE, x) + 1
         /\ \A h : h # x => Count(Append(s, x), FALSE, h) = Count(s, FALSE, h)
<1> DEFINE n == Len(s) + 1
<1>1. n \in Nat /\ n \notin DOMAIN s /\ DOMAIN Append(s, x) = DOMAIN s \cup {n}
      /\ Append(s, x)[n] = x /\ \A i \in DOMAIN s : Append(s, x)[i] = s[i]
  OBVIOUS
<1> HIDE DEF n
<1>2. IsFiniteSet(Places(s, FALSE, x))  BY PlacesFinite
<1>3. Places(Append(s, x), FALSE, x) = Places(s, FALSE, x) \cup {n}  BY <1>1 DEF Places
<1>4. n \notin Places(s, FALSE, x)  BY <1>1 DEF Places
<1>5. Count(Append(s, x), FALSE, x) = Count(s, FALSE, x) + 1
  BY <1>2, <1>3, <1>4, FS_AddElement DEF Count
<1>6. ASSUME NEW h, h # x  PROVE Count(Append(s, x), FALSE, h) = Count(s, FALSE, h)
  <2>1. Places(Append(s, x), FALSE, h) = Places(s, FALSE, h)  BY <1>1, <1>6 DEF Places
  <2> QED  BY <2>1 DEF Count
<1> QED  BY <1>5, <1>6

\* The first one does not wait while its callback runs.
LEMMA CountHead ==
  ASSUME NEW S, NEW s \in Seq(S), s # <<>>
  PROVE  /\ Count(s, FALSE, Head(s)) = Count(s, TRUE, Head(s)) + 1
         /\ \A h : h # Head(s) => Count(s, FALSE, h) = Count(s, TRUE, h)
<1> DEFINE x == Head(s)
<1>1. 1 \in DOMAIN s /\ x = s[1] /\ \A i \in DOMAIN s : i \in Nat /\ (i = 1 \/ i > 1)
  OBVIOUS
<1> HIDE DEF x
<1>2. IsFiniteSet(Places(s, TRUE, x))  BY PlacesFinite
<1>3. Places(s, FALSE, x) = Places(s, TRUE, x) \cup {1}  BY <1>1 DEF Places
<1>4. 1 \notin Places(s, TRUE, x)  BY DEF Places
<1>5. Count(s, FALSE, x) = Count(s, TRUE, x) + 1
  BY <1>2, <1>3, <1>4, FS_AddElement DEF Count
<1>6. ASSUME NEW h, h # x  PROVE Count(s, FALSE, h) = Count(s, TRUE, h)
  <2>1. Places(s, FALSE, h) = Places(s, TRUE, h)  BY <1>1, <1>6 DEF Places
  <2> QED  BY <2>1 DEF Count
<1> QED  BY <1>5, <1>6 DEF x

\* When it leaves the queue the others wait on.
LEMMA CountTail ==
  ASSUME NEW S, NEW s \in Seq(S), s # <<>>, NEW h
  PROVE  Count(Tail(s), FALSE, h) = Count(s, TRUE, h)
<1> DEFINE A == Places(Tail(s), FALSE, h)
           B == Places(s, TRUE, h)
           f == [i \in A |-> i + 1]
<1>1. \A i \in DOMAIN Tail(s) : i \in Nat /\ i > 0 /\ i + 1 \in DOMAIN s /\ Tail(s)[i] = s[i + 1]
  OBVIOUS
<1>2. \A j \in DOMAIN s : j \in Nat /\ (j > 1 => j - 1 \in DOMAIN Tail(s))
  OBVIOUS
<1>3. \A i \in A : i \in Nat /\ i + 1 \in B  BY <1>1 DEF Places
<1>4. \A j \in B : j \in Nat /\ j - 1 \in A
  <2>1. ASSUME NEW j \in B  PROVE j \in Nat /\ j - 1 \in DOMAIN Tail(s) /\ s[j] = h
    BY <1>2 DEF Places
  <2>2. ASSUME NEW j \in B  PROVE Tail(s)[j - 1] = s[j]
    <3>1. j \in Nat /\ j - 1 \in DOMAIN Tail(s)  BY <2>1
    <3>2. (j - 1) + 1 = j  BY <3>1
    <3> QED  BY <1>1, <3>1, <3>2
  <2> QED  BY <2>1, <2>2 DEF Places
<1> HIDE DEF A, B
<1>5. f \in Bijection(A, B)
  <2>1. f \in [A -> B] /\ \A x, y \in A : f[x] = f[y] => x = y  BY <1>3
  <2>2. \A j \in B : f[j - 1] = j  BY <1>4
  <2> QED  BY <1>4, <2>1, <2>2 DEF Bijection, Injection, Surjection, IsInjective
<1>6. ExistsBijection(A, B)  BY <1>5 DEF ExistsBijection
<1>7. IsFiniteSet(A)  BY PlacesFinite, TailType DEF A
<1> QED  BY <1>6, <1>7, FS_Bijection DEF Count, A, B

LEMMA CountNone ==
  ASSUME NEW s, NEW h, \A i \in DOMAIN s : s[i] # h
  PROVE  Count(s, FALSE, h) = 0 /\ Count(s, TRUE, h) = 0
<1>1. Places(s, FALSE, h) = {} /\ Places(s, TRUE, h) = {}  BY DEF Places
<1> QED  BY <1>1, FS_EmptySet DEF Count

-------------------------------------------------------------------------------
(* The account of each timer *)

IsEvent(e, h) == ~evt[e].pooled /\ evt[e].handle = h

\* Accounted, without a choice of the event
Balance(h) ==
  \A k \in Slots : asked[h].key = k /\ asked[h].repeat > 0 =>
    /\ \A e \in Evts : IsEvent(e, h) => done[h] + Waiting(k, h) + Owed(e) = asked[h].repeat
    /\ (\A e \in Evts : ~IsEvent(e, h)) => done[h] + Waiting(k, h) = asked[h].repeat

Balanced == \A h \in Handles : Balance(h)

LEMMA WaitingIs ==
  ASSUME NEW k, NEW h
  PROVE  /\ InCall(k) => Waiting(k, h) = Count(queue[k].tasks, TRUE, h)
         /\ ~InCall(k) => Waiting(k, h) = Count(queue[k].tasks, FALSE, h)
         /\ InCall(k)' => Waiting(k, h)' = Count(queue'[k].tasks, TRUE, h)
         /\ ~InCall(k)' => Waiting(k, h)' = Count(queue'[k].tasks, FALSE, h)
BY DEF Waiting, Count, Places

LEMMA WaitingNat ==
  ASSUME Types, NEW k \in Slots, NEW h
  PROVE  Waiting(k, h) \in Nat
<1>1. queue[k].tasks \in Seq(Handles)  BY Fields
<1>2. Count(queue[k].tasks, TRUE, h) \in Nat /\ Count(queue[k].tasks, FALSE, h) \in Nat
  BY <1>1, PlacesFinite
<1> QED  BY <1>2, WaitingIs

LEMMA AccountOf ==
  ASSUME Types, Named, Balanced
  PROVE  Accounted
<1> SUFFICES ASSUME NEW h \in Handles, asked[h].key # NoTask, asked[h].repeat > 0
             PROVE  LET owed == IF Lookup(h) = {} THEN 0 ELSE Owed(CHOOSE e \in Lookup(h) : TRUE)
                    IN  done[h] + Waiting(asked[h].key, h) + owed = asked[h].repeat
  BY DEF Accounted
<1>1. PICK k \in Slots : k = asked[h].key  BY Fields
<1>2. done[h] \in Nat /\ Waiting(k, h) \in Nat  BY WaitingNat, Fields
<1>3. CASE Lookup(h) = {}
  <2>1. \A e \in Evts : ~IsEvent(e, h)  BY <1>3 DEF Lookup, IsEvent
  <2>2. done[h] + Waiting(k, h) = asked[h].repeat  BY <1>1, <2>1 DEF Balanced, Balance
  <2> QED  BY <1>1, <1>2, <1>3, <2>2
<1>4. CASE Lookup(h) # {}
  <2> DEFINE e == CHOOSE e \in Lookup(h) : TRUE
  <2>1. e \in Evts /\ IsEvent(e, h)  BY <1>4 DEF Lookup, IsEvent
  <2>2. done[h] + Waiting(k, h) + Owed(e) = asked[h].repeat
    BY <1>1, <2>1 DEF Balanced, Balance
  <2> QED  BY <1>1, <1>4, <2>2
<1> QED  BY <1>3, <1>4

LEMMA SameWaiting ==
  ASSUME NEW k \in Slots, queue'[k].tasks = queue[k].tasks, queue'[k].lock = queue[k].lock,
         \A u \in Users : queue[k].lock = u => (user'[u].pc = "update" <=> user[u].pc = "update"),
         NEW h
  PROVE  Waiting(k, h)' = Waiting(k, h)
<1>1. InCall(k)' <=> InCall(k)  BY DEF InCall
<1> QED  BY <1>1 DEF Waiting

LEMMA StillBalance ==
  ASSUME NEW h \in Handles, Balance(h), asked'[h] = asked[h], done'[h] = done[h],
         \A k \in Slots : asked[h].key = k => Waiting(k, h)' = Waiting(k, h),
         \A e \in Evts : (IsEvent(e, h)' <=> IsEvent(e, h)) /\ (IsEvent(e, h) => Owed(e)' = Owed(e))
  PROVE  Balance(h)'
BY DEF Balance

\* The timer thread makes an event due, or counts its calls.
LEMMA TimerBalance ==
  ASSUME Types, Uses, Safe, Balanced, TimerNext, ~CbPush, ~CbEnd, NEW h \in Handles
  PROVE  Balance(h)'
<1> DEFINE e == timer.e
<1> USE DEF EventNow, TimerNow
<1>1. UNCHANGED <<queue, user, asked, done>>
  <2>1. ASSUME NEW d \in Evts, Pop(d)  PROVE UNCHANGED <<queue, user, asked, done>>
    BY <2>1, PopIs
  <2> QED  BY <2>1, TickIs, CountIs, ArmIs, StopIs DEF TimerNext
<1>2. \A k \in Slots : Waiting(k, h)' = Waiting(k, h)  BY <1>1 DEF Waiting, InCall
<1>3. SameUse  BY TimerUses
<1>4. \A d \in Evts : IsEvent(d, h)' <=> IsEvent(d, h)  BY <1>3 DEF SameUse, IsEvent
<1>5. e \in Evts /\ (timer.pc # "idle" => evt[e].ok)  BY Fields DEF Safe, TimerInv
<1>6. evt[e].end => timer.pc = "push"  BY <1>5 DEF Safe, Sound
<1>7. ASSUME asked[h].repeat > 0, NEW d \in Evts, IsEvent(d, h)  PROVE Owed(d)' = Owed(d)
  <2>1. CASE Tick  BY <2>1, TickIs DEF Owed
  <2>2. ASSUME NEW c \in Evts, Pop(c)  PROVE Owed(d)' = Owed(d)
    BY <2>2, PopIs DEF Owed, OnlyEvent
  <2>3. CASE CbCount
    <3>1. timer.pc = "cb"  BY <2>3, CountIs
    <3>2. evt[e].ok /\ ~evt[e].end /\ evt[e].mgr  BY <1>5, <1>6, <3>1 DEF Safe, Sound
    <3>3. PICK k \in Nat \ {0}, p \in {"stop", "arm"} :
            /\ OnlyEvent(e) /\ timer'.pc = p /\ timer'.e = e /\ timer'.count = k
            /\ p = "stop" => k = evt[e].repeat
            /\ p = "arm" => k < evt[e].repeat \/ evt[e].repeat = 0
            /\ evt'[e].repeat = Less(evt[e].repeat, k) /\ evt'[e].end = evt[e].end
      BY <2>3, <3>2, CountIs
    <3>4. CASE d # e  BY <1>5, <3>1, <3>3, <3>4 DEF Owed, OnlyEvent
    <3>5. CASE d = e
      <4>1. evt[e].repeat \in Nat /\ evt[e].repeat # 0
        BY <1>5, <1>7, <3>2, <3>5, Fields DEF Safe, Sound, IsEvent
      <4>2. Owed(d) = evt[e].repeat  BY <3>1, <3>5 DEF Owed
      <4>3. Owed(d)' = k + (IF p = "stop" THEN 0 ELSE Less(evt[e].repeat, k))
        BY <3>2, <3>3, <3>5 DEF Owed
      <4>4. CASE p = "stop"  BY <3>3, <4>1, <4>2, <4>3, <4>4
      <4>5. CASE p = "arm"
        <5>1. Less(evt[e].repeat, k) = evt[e].repeat - k  BY <3>3, <4>1, <4>5 DEF Less
        <5> QED  BY <3>3, <4>1, <4>2, <4>3, <4>5, <5>1
      <4> QED  BY <4>4, <4>5
    <3> QED  BY <3>4, <3>5
  <2>4. CASE CbArm
    <3>1. timer.pc = "arm" /\ evt[e].ok  BY <1>5, <2>4, ArmIs
    <3> QED  BY <2>4, <1>5, <3>1, ArmIs DEF Owed, OnlyEvent
  <2>5. CASE CbStop
    <3>1. timer.pc = "stop" /\ evt[e].ok  BY <1>5, <2>5, StopIs
    <3>2. /\ OnlyEvent(e) /\ timer'.pc = "push" /\ timer'.e = e /\ timer'.count = timer.count
          /\ evt'[e].end = TRUE
      BY <2>5, <3>1, StopIs
    <3> QED  BY <1>5, <3>1, <3>2 DEF Owed, OnlyEvent
  <2> QED  BY <2>1, <2>2, <2>3, <2>4, <2>5 DEF TimerNext
<1>8. CASE asked[h].repeat > 0
  BY <1>1, <1>2, <1>4, <1>7, <1>8, StillBalance DEF Balanced
<1>9. CASE ~(asked[h].repeat > 0)  BY <1>1, <1>9 DEF Balance
<1> QED  BY <1>8, <1>9

\* A call that is pushed is owed no more and waits.
LEMMA PushBalance ==
  ASSUME Types, Tasks, Uses, Safe, Balanced, CbPush, NEW h \in Handles
  PROVE  Balance(h)'
<1> DEFINE e == timer.e
           q == evt[e].task
           g == evt[e].handle
<1>1. /\ timer.pc = "push" /\ timer.count > 0 /\ UNCHANGED <<evt, user, asked, done>>
      /\ e \in Evts /\ timer.count \in Nat
  BY PushIs, Fields DEF Uses
<1>2. evt[e].ok /\ evt[e].running  BY <1>1 DEF Safe, TimerInv
<1>3. timer'.pc = "push" /\ timer'.e = e /\ timer'.count = timer.count - 1
  BY <1>2, PushIs DEF Uses, TimerNow
<1>4. /\ ~evt[e].pooled /\ g \in Handles /\ q = asked[g].key /\ asked[g].tid # Nobody
      /\ q # NoTask => queue[q].tid # Nobody
  BY <1>1, <1>2, HandleIs DEF Uses, Live, Tasks
<1>5. \/ q = NoTask /\ queue' = queue
      \/ /\ q \in Slots /\ queue[q].lock = Nobody /\ OnlyQueue(q)
         /\ queue'[q].lock = Nobody /\ queue'[q].tasks = Append(queue[q].tasks, g)
  BY <1>2, <1>4, PushIs, Slot DEF Uses, QueueNow
<1>6. ASSUME NEW d \in Evts, d # e  PROVE Owed(d)' = Owed(d)
  BY <1>1, <1>3, <1>6 DEF Owed
<1>7. \A d \in Evts : IsEvent(d, h)' <=> IsEvent(d, h)  BY <1>1 DEF IsEvent
<1>8. ASSUME NEW k \in Slots, k # q  PROVE Waiting(k, h)' = Waiting(k, h)
  <2>1. queue'[k] = queue[k]  BY <1>5, <1>8 DEF OnlyQueue
  <2> QED  BY <1>1, <2>1, SameWaiting
<1>9. CASE h # g
  <2>1. ASSUME NEW k \in Slots, k = q  PROVE Waiting(k, h)' = Waiting(k, h)
    <3>1. queue[k].tasks \in Seq(Handles) /\ q \in Slots  BY <2>1, Fields
    <3>2. ~InCall(k) /\ ~InCall(k)'  BY <1>5, <2>1, <3>1, Slot DEF InCall
    <3>3. CASE queue'[k].tasks = queue[k].tasks  BY <3>2, <3>3 DEF Waiting
    <3>4. CASE queue'[k].tasks = Append(queue[k].tasks, g)
      <4>1. Count(Append(queue[k].tasks, g), FALSE, h) = Count(queue[k].tasks, FALSE, h)
        <5>1. \A i : i # g => Count(Append(queue[k].tasks, g), FALSE, i) = Count(queue[k].tasks, FALSE, i)
          BY <1>4, <3>1, CountAppend
        <5> QED  BY <1>9, <5>1
      <4> QED  BY <3>2, <3>4, <4>1, WaitingIs
    <3> QED  BY <1>5, <2>1, <3>3, <3>4
  <2>2. \A d \in Evts : IsEvent(d, h) => d # e  BY <1>9 DEF IsEvent
  <2> QED  BY <1>1, <1>6, <1>7, <1>8, <1>9, <2>1, <2>2, StillBalance DEF Balanced
<1>10. CASE h = g
  <2>1. \A d \in Evts : IsEvent(d, h) <=> d = e  BY <1>1, <1>4, <1>10 DEF IsEvent, Uses, Named
  <2>2. ASSUME NEW k \in Slots, asked[h].key = k, asked[h].repeat > 0, NEW d \in Evts, d = e
        PROVE  done[h] + Waiting(k, h)' + Owed(d)' = asked[h].repeat
    <3>1. done[h] + Waiting(k, h) + Owed(e) = asked[h].repeat
      BY <1>1, <1>4, <1>10, <2>1, <2>2 DEF Balanced, Balance
    <3>2. k = q /\ k # NoTask /\ queue[k].tasks \in Seq(Handles)
      BY <1>4, <1>10, <2>2, Slot, Fields
    <3>3. ~InCall(k) /\ ~InCall(k)' /\ queue'[k].tasks = Append(queue[k].tasks, h)
      BY <1>5, <1>10, <3>2, Slot DEF InCall
    <3>4. Waiting(k, h)' = Waiting(k, h) + 1
      <4>1. Count(Append(queue[k].tasks, h), FALSE, h) = Count(queue[k].tasks, FALSE, h) + 1
        BY <3>2, CountAppend
      <4> QED  BY <3>3, <4>1, WaitingIs
    <3>5. done[h] \in Nat /\ Waiting(k, h) \in Nat /\ Owed(e) \in Nat
      BY <1>1, WaitingNat, Fields DEF Owed
    <3>6. Owed(d)' = Owed(e) - 1
      <4>1. evt[e].repeat \in Nat  BY <1>1, Fields
      <4> QED  BY <1>1, <1>3, <2>2, <4>1 DEF Owed
    <3> QED  BY <3>1, <3>4, <3>5, <3>6
  <2> QED  BY <1>1, <1>7, <2>1, <2>2 DEF Balance
<1> QED  BY <1>9, <1>10

\* When itimer_evt_cb returns all calls are made or in a queue.
LEMMA EndBalance ==
  ASSUME Types, Uses, Safe, Balanced, CbEnd, NEW h \in Handles
  PROVE  Balance(h)'
<1> DEFINE e == timer.e
<1> USE DEF EventNow, TimerNow
<1>1. /\ timer.pc = "push" /\ timer.count = 0 /\ UNCHANGED <<queue, user, asked, done>>
      /\ e \in Evts /\ OnlyEvent(e) /\ timer'.pc = "idle" /\ timer'.e = e
      /\ evt'[e].handle = evt[e].handle
  BY EndIs, Fields DEF Uses
<1>2. evt[e].ok /\ ~evt[e].pooled  BY <1>1 DEF Safe, TimerInv, Uses, Live
<1>3. \A k \in Slots : Waiting(k, h)' = Waiting(k, h)  BY <1>1 DEF Waiting, InCall
<1>4. ASSUME NEW d \in Evts, d # e
      PROVE  (IsEvent(d, h)' <=> IsEvent(d, h)) /\ Owed(d)' = Owed(d)
  BY <1>1, <1>4 DEF OnlyEvent, IsEvent, Owed
<1>5. CASE evt[e].handle # h
  <2>1. ~IsEvent(e, h) /\ ~IsEvent(e, h)'  BY <1>1, <1>5 DEF IsEvent
  <2> QED  BY <1>1, <1>3, <1>4, <2>1, StillBalance DEF Balanced
<1>6. CASE evt[e].handle = h /\ ~evt[e].end
  <2>1. evt'[e].pooled = evt[e].pooled /\ evt'[e].repeat = evt[e].repeat
    BY <1>6, EndIs DEF Uses
  <2>2. IsEvent(e, h)' <=> IsEvent(e, h)  BY <1>1, <2>1 DEF IsEvent
  <2>3. Owed(e)' = Owed(e)
    <3>1. evt[e].repeat \in Nat  BY <1>1, Fields
    <3> QED  BY <1>1, <1>6, <2>1, <3>1 DEF Owed
  <2> QED  BY <1>1, <1>3, <1>4, <2>2, <2>3, StillBalance DEF Balanced
<1>7. CASE evt[e].handle = h /\ evt[e].end
  <2>1. evt'[e].pooled  BY <1>2, <1>7, EndIs DEF Uses
  <2>2. \A d \in Evts : ~IsEvent(d, h)'
    BY <1>1, <1>2, <1>4, <1>7, <2>1 DEF IsEvent, Uses, Named
  <2>3. IsEvent(e, h) /\ Owed(e) = 0  BY <1>1, <1>2, <1>7 DEF IsEvent, Owed
  <2>4. ASSUME NEW k \in Slots, asked[h].key = k, asked[h].repeat > 0
        PROVE  done[h] + Waiting(k, h)' = asked[h].repeat
    <3>1. done[h] + Waiting(k, h) + 0 = asked[h].repeat
      BY <1>1, <2>3, <2>4 DEF Balanced, Balance
    <3>2. done[h] \in Nat /\ Waiting(k, h) \in Nat  BY WaitingNat, Fields
    <3> QED  BY <1>3, <3>1, <3>2
  <2> QED  BY <1>1, <2>2, <2>4 DEF Balance
<1> QED  BY <1>5, <1>6, <1>7

\* A new timer is owed its repeat count; the other timers keep their events.
LEMMA SetBalance ==
  ASSUME Types, Uses, Safe, Balanced, NEW u \in Users, Set(u),
         NEW h \in Handles
  PROVE  Balance(h)'
<1>1. PICK e \in Evts :
        /\ evt[e].pooled /\ OnlyEvent(e) /\ evt'[e].handle = ghandle /\ evt'[e].pooled = FALSE
  BY SetIs DEF EventNow
<1>2. /\ user[u].pc \in {"run", "task"} /\ OnlyUser(u) /\ user'[u].pc = "set"
      /\ UNCHANGED <<timer, queue, crash, asked, done>>
  BY SetIs DEF UserNow
<1>3. \A k \in Slots : Waiting(k, h)' = Waiting(k, h)
  <2>1. \A v \in Users : user'[v].pc = "update" <=> user[v].pc = "update"
    BY <1>2 DEF OnlyUser
  <2> QED  BY <1>2, <2>1, SameWaiting
<1>4. CASE h = ghandle
  <2>1. ghandle \in Int  BY DEF Types
  <2>2. asked[h].tid = Nobody  BY <1>4, <2>1 DEF Uses, Named
  <2>3. asked[h].key = NoTask  BY <2>2 DEF Uses, Named
  <2> QED  BY <1>2, <2>3, Slot DEF Balance
<1>5. CASE h # ghandle
  <2>1. \A d \in Evts : IsEvent(d, h)' <=> IsEvent(d, h)  BY <1>1, <1>5 DEF IsEvent, OnlyEvent
  <2>2. ASSUME NEW d \in Evts, IsEvent(d, h)  PROVE Owed(d)' = Owed(d)
    <3>1. d # e /\ evt'[d] = evt[d]  BY <1>1, <2>2 DEF IsEvent, OnlyEvent
    <3> QED  BY <1>2, <3>1 DEF Owed
  <2> QED  BY <1>2, <1>3, <2>1, <2>2, StillBalance DEF Balanced
<1> QED  BY <1>4, <1>5

LEMMA StartBalance ==
  ASSUME Types, Tasks, Uses, Safe, Balanced, NEW u \in Users,
         NEW w \in Waits, NEW r \in Repeats, Start(u, w, r), NEW h \in Handles
  PROVE  Balance(h)'
<1> DEFINE e == user[u].e
           g == evt[e].handle
<1>1. /\ user[u].pc = "set" /\ OnlyUser(u) /\ OnlyEvent(e) /\ r \in Nat
      /\ UserNow(u, user[u].back, user[u].back, e, user[u].key, user[u].probe, FALSE)
      /\ EventNow(e, g, FALSE, "wheel", TRUE, TRUE, r, FALSE, evt[e].end, user[u].key)
      /\ g \in Handles /\ (\A j \in Handles \ {g} : asked'[j] = asked[j])
      /\ asked'[g].key = user[u].key /\ asked'[g].repeat = r
      /\ UNCHANGED <<ghandle, timer, queue, crash, done>>
  <2>1. Named /\ Reserved  BY DEF Uses
  <2> QED  BY <2>1, StartIs, ZenonT(60)
<1>2. /\ user'[u].pc = user[u].back
      /\ evt'[e].handle = g /\ evt'[e].pooled = FALSE /\ evt'[e].repeat = r
  BY <1>1 DEF UserNow, EventNow
<1>3. e \in Evts /\ ~evt[e].pooled /\ ~evt[e].ok  BY <1>1, Fields DEF Uses, Reserved
<1>4. asked[g].tid = Nobody  BY <1>3 DEF Uses, Live
<1>5. \A d \in Evts : IsEvent(d, h)' <=> IsEvent(d, h)  BY <1>1, <1>2, <1>3 DEF IsEvent, OnlyEvent
<1>6. \A k \in Slots : Waiting(k, h)' = Waiting(k, h)
  <2>1. user[u].back \in {"run", "task"}  BY Fields
  <2>2. \A v \in Users : user'[v].pc = "update" <=> user[v].pc = "update"
    BY <1>1, <1>2, <2>1 DEF OnlyUser
  <2> QED  BY <1>1, <2>2, SameWaiting
<1>7. CASE h # g
  <2>1. ASSUME NEW d \in Evts, IsEvent(d, h)  PROVE Owed(d)' = Owed(d)
    <3>1. d # e /\ evt'[d] = evt[d]  BY <1>1, <1>7, <2>1 DEF IsEvent, OnlyEvent
    <3> QED  BY <1>1, <3>1 DEF Owed
  <2> QED  BY <1>1, <1>5, <1>6, <1>7, <2>1, StillBalance DEF Balanced
<1>8. CASE h = g
  <2>1. \A d \in Evts : IsEvent(d, h) <=> d = e  BY <1>3, <1>8 DEF IsEvent, Uses, Named
  <2>2. done[h] = 0  BY <1>1, <1>4, <1>8 DEF Uses, Named
  <2>3. ASSUME NEW k \in Slots  PROVE Waiting(k, h)' = 0
    <3>1. \A i \in DOMAIN queue[k].tasks : queue[k].tasks[i] # h
      BY <1>4, <1>8 DEF Tasks
    <3>2. Count(queue[k].tasks, FALSE, h) = 0 /\ Count(queue[k].tasks, TRUE, h) = 0
      BY <3>1, CountNone
    <3> QED  BY <1>6, <3>2, WaitingIs
  <2>4. ASSUME NEW d \in Evts, d = e  PROVE Owed(d)' = r
    <3>1. timer.pc # "idle" => timer.e # e  BY <1>3 DEF Safe, TimerInv
    <3> QED  BY <1>1, <1>2, <2>4, <3>1 DEF Owed
  <2>5. ASSUME NEW k \in Slots
        PROVE  /\ \A d \in Evts : IsEvent(d, h)' => done'[h] + Waiting(k, h)' + Owed(d)' = r
               /\ ~(\A d \in Evts : ~IsEvent(d, h)')
    BY <1>1, <1>3, <1>5, <2>1, <2>2, <2>3, <2>4
  <2>6. asked'[h].repeat = r  BY <1>1, <1>8
  <2> QED  BY <2>5, <2>6 DEF Balance
<1> QED  BY <1>7, <1>8

\* Of a timer that is unset nothing is promised.
LEMMA UnsetBalance ==
  ASSUME Types, Uses, Balanced, NEW u \in Users, NEW g \in Handles, Unset(u, g), NEW h \in Handles
  PROVE  Balance(h)'
<1>1. PICK e \in Evts : /\ ~evt[e].pooled /\ evt[e].handle = g /\ OnlyEvent(e)
                        /\ evt'[e].handle = g
  BY UnsetIs DEF EventNow
<1>2. /\ UNCHANGED <<timer, queue, user, done>> /\ asked'[g].key = NoTask
      /\ \A j \in Handles \ {g} : asked'[j] = asked[j]
  BY UnsetIs
<1>3. CASE h = g  BY <1>2, <1>3, Slot DEF Balance
<1>4. CASE h # g
  <2>1. \A k \in Slots : Waiting(k, h)' = Waiting(k, h)  BY <1>2 DEF Waiting, InCall
  <2>2. \A d \in Evts : IsEvent(d, h)' <=> IsEvent(d, h)  BY <1>1, <1>4 DEF IsEvent, OnlyEvent
  <2>3. ASSUME NEW d \in Evts, IsEvent(d, h)  PROVE Owed(d)' = Owed(d)
    <3>1. d # e /\ evt'[d] = evt[d]  BY <1>1, <1>4, <2>3 DEF IsEvent, OnlyEvent
    <3> QED  BY <1>2, <3>1 DEF Owed
  <2> QED  BY <1>2, <1>4, <2>1, <2>2, <2>3, StillBalance DEF Balanced
<1> QED  BY <1>3, <1>4

\* A thread that holds the lock of a queue has no other.
LEMMA TheQueue ==
  ASSUME Types, Keys, Locks, Tasks, NEW u \in Users, Holds(u), NEW h \in Handles, NEW k \in Slots,
         asked[h].key = k, asked[h].tid = u
  PROVE  k = user[u].key
<1>1. queue[k].tid = u /\ user[u].key \in Slots /\ queue[user[u].key].tid = u
  BY HasQueue, Slot DEF Tasks
<1>2. k \in {0, user[u].key}  BY <1>1 DEF Keys
<1>3. user[u].key \in Nat  BY <1>1, Slot
<1> QED  BY <1>1, <1>2, <1>3 DEF Keys

\* Where nobody calls, calls or returns, and no event changes
LEMMA QuietBalance ==
  ASSUME Types, Locks, Balanced, UNCHANGED <<evt, timer, asked, done>>,
         \A k \in Slots : queue'[k].tasks = queue[k].tasks /\ (InCall(k)' <=> InCall(k)),
         NEW h \in Handles
  PROVE  Balance(h)'
<1>1. \A k \in Slots : Waiting(k, h)' = Waiting(k, h)  BY DEF Waiting
<1>2. \A e \in Evts : (IsEvent(e, h)' <=> IsEvent(e, h)) /\ Owed(e)' = Owed(e)
  BY DEF IsEvent, Owed
<1> QED  BY <1>1, <1>2, StillBalance DEF Balanced

\* A call is made of the first task, that waits no more.
LEMMA CallBalance ==
  ASSUME Types, Keys, Locks, Tasks, Uses, Balanced, NEW u \in Users, Call(u), NEW h \in Handles
  PROVE  Balance(h)'
<1> DEFINE q == user[u].key
           s == queue[q].tasks
           g == Head(s)
<1>1. /\ Holds(u) /\ user[u].pc = "update" /\ OnlyUser(u) /\ user'[u].pc = "task" /\ s # <<>>
      /\ g \in Handles /\ done' = [done EXCEPT ![g] = done[g] + 1]
      /\ UNCHANGED <<evt, timer, queue, asked>>
  BY CallIs DEF UserNow
<1>2. q \in Slots /\ s \in Seq(Handles) /\ queue[q].lock = u /\ queue[q].tid = u
  BY <1>1, HasQueue
<1>3. asked[g].tid = u
  <2>1. 1 \in DOMAIN s /\ g = s[1]  BY <1>1, <1>2
  <2> QED  BY <1>2, <2>1 DEF Tasks
<1>4. ASSUME NEW k \in Slots, k = q  PROVE ~InCall(k) /\ InCall(k)'
  <2>1. queue[k].lock = u /\ queue'[k].lock = u  BY <1>1, <1>2, <1>4
  <2>2. ~InCall(k)  BY <1>1, <2>1 DEF InCall
  <2>3. InCall(k)'
    <3>1. queue'[k].lock = u /\ user'[u].pc # "update"  BY <1>1, <2>1
    <3> QED  BY <3>1 DEF InCall
  <2> QED  BY <2>2, <2>3
<1>5. ASSUME NEW k \in Slots, k # q  PROVE Waiting(k, h)' = Waiting(k, h)
  <2>1. queue[k].lock # u  BY <1>5 DEF Locks
  <2>2. InCall(k)' <=> InCall(k)  BY <1>1, <2>1 DEF InCall, OnlyUser
  <2> QED  BY <1>1, <2>2 DEF Waiting
<1>6. \A e \in Evts : (IsEvent(e, h)' <=> IsEvent(e, h)) /\ Owed(e)' = Owed(e)
  BY <1>1 DEF IsEvent, Owed
<1>7. CASE h # g
  <2>1. Count(s, FALSE, h) = Count(s, TRUE, h)
    <3>1. \A i : i # g => Count(s, FALSE, i) = Count(s, TRUE, i)  BY <1>1, <1>2, CountHead
    <3> QED  BY <1>7, <3>1
  <2>2. ASSUME NEW k \in Slots, k = q  PROVE Waiting(k, h)' = Waiting(k, h)
    BY <1>1, <1>4, <2>1, <2>2, WaitingIs
  <2>3. done'[h] = done[h]  BY <1>1, <1>7 DEF Types
  <2> QED  BY <1>1, <1>5, <1>6, <2>2, <2>3, StillBalance DEF Balanced
<1>8. CASE h = g
  <2>1. ASSUME NEW k \in Slots, asked[h].key = k  PROVE Waiting(k, h) = Waiting(k, h)' + 1
    <3>1. k = q  BY <1>1, <1>3, <1>8, <2>1, TheQueue
    <3>2. Count(s, FALSE, h) = Count(s, TRUE, h) + 1
      <4>1. Count(s, FALSE, g) = Count(s, TRUE, g) + 1  BY <1>1, <1>2, CountHead
      <4> QED  BY <1>8, <4>1
    <3> QED  BY <1>1, <1>4, <3>1, <3>2, WaitingIs
  <2>2. done[h] \in Nat /\ done'[h] = done[h] + 1  BY <1>1, <1>8, Fields DEF Types
  <2>3. ASSUME NEW k \in Slots, asked[h].key = k, asked[h].repeat > 0
        PROVE  done'[h] + Waiting(k, h)' = done[h] + Waiting(k, h)
    <3>1. Waiting(k, h)' \in Nat
      <4>1. queue'[k].tasks \in Seq(Handles)  BY <1>1, Fields
      <4>2. Count(queue'[k].tasks, TRUE, h) \in Nat /\ Count(queue'[k].tasks, FALSE, h) \in Nat
        BY <4>1, PlacesFinite
      <4> QED  BY <4>2, WaitingIs
    <3> QED  BY <2>1, <2>2, <2>3, <3>1
  <2>4. ASSUME NEW k \in Slots, asked[h].key = k, asked[h].repeat > 0
        PROVE  /\ \A e \in Evts : IsEvent(e, h)' =>
                    done'[h] + Waiting(k, h)' + Owed(e)' = asked[h].repeat
               /\ (\A e \in Evts : ~IsEvent(e, h)') => done'[h] + Waiting(k, h)' = asked[h].repeat
    BY <1>6, <2>3, <2>4 DEF Balanced, Balance
  <2> QED  BY <1>1, <2>4 DEF Balance
<1> QED  BY <1>7, <1>8

LEMMA ReturnBalance ==
  ASSUME Types, Locks, Tasks, Balanced, NEW u \in Users, Return(u), NEW h \in Handles
  PROVE  Balance(h)'
<1> DEFINE q == user[u].key
           s == queue[q].tasks
<1>1. /\ Holds(u) /\ user[u].pc = "task" /\ OnlyUser(u) /\ user'[u].pc = "update" /\ OnlyQueue(q)
      /\ s # <<>> /\ queue'[q].tasks = Tail(s) /\ queue'[q].lock = queue[q].lock
      /\ UNCHANGED <<evt, timer, asked, done>>
  BY ReturnIs DEF UserNow, QueueNow
<1>2. q \in Slots /\ s \in Seq(Handles) /\ queue[q].lock = u  BY <1>1, HasQueue
<1>3. ASSUME NEW k \in Slots, k = q  PROVE InCall(k) /\ ~InCall(k)'
  <2>1. queue[k].lock = u /\ queue'[k].lock = u  BY <1>1, <1>2, <1>3
  <2>2. InCall(k)
    <3>1. queue[k].lock = u /\ user[u].pc # "update"  BY <1>1, <2>1
    <3> QED  BY <3>1 DEF InCall
  <2>3. ~InCall(k)'  BY <1>1, <2>1 DEF InCall
  <2> QED  BY <2>2, <2>3
<1>4. ASSUME NEW k \in Slots, k # q  PROVE Waiting(k, h)' = Waiting(k, h)
  <2>1. queue[k].lock # u /\ queue'[k] = queue[k]  BY <1>1, <1>4 DEF Locks, OnlyQueue
  <2>2. InCall(k)' <=> InCall(k)  BY <1>1, <2>1 DEF InCall, OnlyUser
  <2> QED  BY <2>1, <2>2 DEF Waiting
<1>5. ASSUME NEW k \in Slots, k = q  PROVE Waiting(k, h)' = Waiting(k, h)
  <2>1. Count(Tail(s), FALSE, h) = Count(s, TRUE, h)  BY <1>1, <1>2, CountTail
  <2>2. Waiting(k, h) = Count(s, TRUE, h)
    <3>1. InCall(k) /\ queue[k].tasks = s  BY <1>3, <1>5
    <3> QED  BY <3>1, WaitingIs
  <2>3. Waiting(k, h)' = Count(Tail(s), FALSE, h)
    <3>1. ~InCall(k)' /\ queue'[k].tasks = Tail(s)  BY <1>1, <1>3, <1>5
    <3>2. Waiting(k, h)' = Count(queue'[k].tasks, FALSE, h)  BY <3>1, WaitingIs
    <3> QED  BY <3>1, <3>2
  <2> QED  BY <2>1, <2>2, <2>3
<1>6. \A e \in Evts : (IsEvent(e, h)' <=> IsEvent(e, h)) /\ Owed(e)' = Owed(e)
  BY <1>1 DEF IsEvent, Owed
<1> QED  BY <1>1, <1>4, <1>5, <1>6, StillBalance DEF Balanced

\* A thread enters or leaves itimer_update_timer, or searches its queue.
LEMMA StillCalls ==
  ASSUME Types, Keys, Locks, Tasks, NEW u \in Users,
         Enter(u) \/ Probe(u) \/ Lock(u) \/ Leave(u)
  PROVE  /\ UNCHANGED <<evt, timer, asked, done>>
         /\ \A k \in Slots : queue'[k].tasks = queue[k].tasks /\ (InCall(k)' <=> InCall(k))
<1>1. /\ UNCHANGED <<evt, timer, asked, done>> /\ OnlyUser(u)
      /\ \A k \in Slots : queue'[k].tasks = queue[k].tasks
  BY EnterIs, ProbeIs, LockIs, LeaveIs DEF OnlyQueue, QueueNow
<1>2. CASE Enter(u) \/ Probe(u)
  <2>1. user[u].pc # "update" /\ user'[u].pc # "update"
    BY <1>2, EnterIs, ProbeIs DEF UserNow, Searches
  <2>2. \A k \in Slots : queue'[k].lock = queue[k].lock
    BY <1>2, EnterIs, ProbeIs DEF OnlyQueue, QueueNow
  <2>3. \A v \in Users : user'[v].pc # "update" <=> user[v].pc # "update"
    BY <1>1, <2>1 DEF OnlyUser
  <2> QED  BY <1>1, <2>2, <2>3 DEF InCall
<1>3. CASE Lock(u)
  <2>1. /\ user[u].pc = "enter"
        /\ \A k \in Slots : queue[k].lock # u
    BY <1>3, LockIs DEF Locks, Holds
  <2>2. \A k \in Slots : \/ queue'[k].lock = queue[k].lock
                         \/ /\ queue[k].lock = Nobody /\ queue'[k].lock = u
                            /\ user'[u].pc = "update"
    <3> DEFINE q == user[u].key
    <3>1. \/ queue' = queue
          \/ /\ q \in Slots /\ queue[q].lock = Nobody /\ OnlyQueue(q)
             /\ queue'[q].lock = u /\ user'[u].pc = "update"
      BY <1>3, LockIs DEF UserNow, QueueNow
    <3> QED  BY <3>1 DEF OnlyQueue
  <2>3. ASSUME NEW k \in Slots, queue'[k].lock = queue[k].lock  PROVE InCall(k)' <=> InCall(k)
    BY <1>1, <2>1, <2>3 DEF InCall, OnlyUser
  <2>4. ASSUME NEW k \in Slots, queue[k].lock = Nobody, queue'[k].lock = u,
               user'[u].pc = "update"
        PROVE  ~InCall(k) /\ ~InCall(k)'
    BY <2>4, Slot DEF InCall
  <2> QED  BY <1>1, <2>2, <2>3, <2>4
<1>4. CASE Leave(u)
  <2> DEFINE q == user[u].key
  <2>1. /\ Holds(u) /\ user[u].pc = "update" /\ OnlyQueue(q) /\ queue'[q].lock = Nobody
    BY <1>4, LeaveIs DEF QueueNow
  <2>2. q \in Slots /\ queue[q].lock = u  BY <2>1, HasQueue
  <2>3. ASSUME NEW k \in Slots, k = q  PROVE ~InCall(k) /\ ~InCall(k)'
    <3>1. queue[k].lock = u /\ queue'[k].lock = Nobody  BY <2>1, <2>2, <2>3
    <3>2. ~InCall(k)  BY <2>1, <3>1 DEF InCall
    <3>3. ~InCall(k)'  BY <3>1, Slot DEF InCall
    <3> QED  BY <3>2, <3>3
  <2>4. ASSUME NEW k \in Slots, k # q  PROVE InCall(k)' <=> InCall(k)
    <3>1. queue'[k].lock = queue[k].lock /\ queue[k].lock # u
      BY <2>1, <2>4 DEF OnlyQueue, Locks
    <3> QED  BY <1>1, <3>1 DEF InCall, OnlyUser
  <2> QED  BY <1>1, <2>3, <2>4
<1> QED  BY <1>2, <1>3, <1>4

LEMMA BalancedStep ==
  ASSUME IInv, Safe, Balanced, [Next]_vars
  PROVE  Balanced'
<1> USE DEF IInv
<1>1. CASE UNCHANGED vars
  BY <1>1 DEF vars, Balanced, Balance, IsEvent, Owed, Waiting, InCall
<1> SUFFICES ASSUME Next, NEW h \in Handles  PROVE Balance(h)'
  BY <1>1 DEF Balanced
<1>2. CASE TimerNext  BY <1>2, TimerBalance, PushBalance, EndBalance
<1>3. ASSUME NEW u \in Users, UserNext(u)  PROVE Balance(h)'
  <2>1. CASE Set(u)  BY <2>1, SetBalance
  <2>2. CASE Enter(u) \/ Probe(u) \/ Lock(u) \/ Leave(u)
    <3>1. /\ UNCHANGED <<evt, timer, asked, done>>
          /\ \A k \in Slots : queue'[k].tasks = queue[k].tasks /\ (InCall(k)' <=> InCall(k))
      BY <2>2, StillCalls
    <3> QED  BY <3>1, QuietBalance
  <2>3. CASE Call(u)  BY <2>3, CallBalance
  <2>4. CASE Return(u)  BY <2>4, ReturnBalance
  <2>5. ASSUME NEW w \in Waits, NEW r \in Repeats, Start(u, w, r)  PROVE Balance(h)'
    BY <2>5, StartBalance
  <2>6. ASSUME NEW g \in Handles, Unset(u, g)  PROVE Balance(h)'
    BY <2>6, UnsetBalance
  <2> QED  BY <1>3, <2>1, <2>2, <2>3, <2>4, <2>5, <2>6 DEF UserNext, Inside
<1> QED  BY <1>2, <1>3 DEF Next

\* Of every timer that is not unset the calls made, the tasks waiting and the
\* calls owed add up to its repeat count, in the wheel, in itimer_evt_cb, in the
\* queue and in the callback, also when its event is another timer's by now.
THEOREM AllAccounted ==
  ASSUME Unsets # "any"
  PROVE  Spec => []Accounted
<1>1. Init => IInv /\ Safe  BY Start0
<1>2. Init => Balanced
  <2> SUFFICES ASSUME Init, NEW h \in Handles  PROVE Balance(h)
    BY DEF Balanced
  <2>1. asked[h].key = NoTask  BY DEF Init
  <2> QED  BY <2>1, Slot DEF Balance
<1>3. IInv /\ Safe /\ Balanced /\ [Next]_vars => IInv' /\ Safe' /\ Balanced'
  BY IInvStep, SafeStep, BalancedStep
<1>4. IInv /\ Balanced => Accounted  BY AccountOf DEF IInv, Uses
<1> QED  BY <1>1, <1>2, <1>3, <1>4, PTL DEF Spec

===============================================================================
