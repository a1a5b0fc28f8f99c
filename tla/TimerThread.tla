----------------------------- MODULE TimerThread -----------------------------
(***************************************************************************)
(* timer/timewheel/itimer_pool_thread: one timer thread runs the core and, *)
(* instead of calling back, pushes tasks to a queue per user thread; user  *)
(* threads set and unset timers and run their tasks in itimer_update_timer.*)
(*                                                                         *)
(* A section under the lock of the pool or of the core is one action, as   *)
(* nothing is waited for inside; what itimer_evt_cb does between them,     *)
(* without a lock, is an action of its own.  The lock of a queue is held   *)
(* while callbacks run and is a variable.  The wheel is abstracted to the  *)
(* ticks a timer has left; a user thread is named by its tid.              *)
(***************************************************************************)
EXTENDS Integers, Sequences, FiniteSets

CONSTANTS Users,            \* the tids of the user threads
          Evts,             \* struct itimer_evt objects of the pool
          MAX_THREAD_TASK,  \* queues (48)
          Waits,            \* periods, in ticks
          Repeats,          \* repeat counts, 0 for infinite
          Bursts,           \* periods that one expiry may make up for
          LastHandle,       \* bound on the timers set
          Unsets            \* "never", "outside" of the timer's own
                            \* itimer_evt_cb, or at "any" time

ASSUME ThreadAssumption ==
  /\ Users \subseteq Nat \ {0} /\ Evts # {}
  /\ MAX_THREAD_TASK \in Nat \ {0}
  /\ Waits \subseteq Nat \ {0} /\ Repeats \subseteq Nat
  /\ Bursts \subseteq Nat \ {0}
  /\ LastHandle \in Nat /\ Unsets \in {"never", "outside", "any"}

Slots == 0 .. MAX_THREAD_TASK - 1
Handles == 1 .. LastHandle
NoTask == -1
Nobody == 0

VARIABLES evt,      \* the timer events
          ghandle,  \* evt_pool->ghandle
          timer,    \* the timer thread: where it is, its event and count
          queue,    \* thread_mgr->task[i]: tid, lock and handles of its tasks
          user,     \* the user threads
          crash,    \* how the process ended, or "no"
          asked,    \* history: what each handle was set with
          done      \* history: callbacks run for each handle

vars == <<evt, ghandle, timer, queue, user, crash, asked, done>>
history == <<asked, done>>

\* An event of the pool: itimer_evt_destroy leaves these values behind.
Unused == [handle |-> 0, pooled |-> TRUE, node |-> "off", left |-> 0,
           ok |-> FALSE, mgr |-> FALSE, period |-> 0, repeat |-> 0,
           running |-> FALSE, end |-> FALSE, task |-> NoTask]

\* itimer_evt_destroy and itimer_evt_pool_free, under the lock of the pool.
Destroyed(e) == [Unused EXCEPT !.handle = evt[e].handle]

Lookup(h) == {e \in Evts : ~evt[e].pooled /\ evt[e].handle = h}

------------------------------------------------------------------------------
(* The timer thread. *)

TimerAt(pc) == crash = "no" /\ timer.pc = pc

\* itimer_internal_update, with the cascades: a tick less is left of a timer
\* in the wheel, and one that is due moves to the local list.
Ticked(e) ==
  IF evt[e].node # "wheel" THEN evt[e]
  ELSE IF evt[e].left > 1 THEN [evt[e] EXCEPT !.left = @ - 1]
  ELSE [evt[e] EXCEPT !.node = "queued", !.left = 0]

\* A round of itimer_mgr_run: a tick, once the local list is empty.
Tick ==
  /\ TimerAt("idle")
  /\ \A e \in Evts : evt[e].node # "queued"
  /\ evt' = [e \in Evts |-> Ticked(e)]
  /\ UNCHANGED <<ghandle, timer, queue, user, crash, history>>

\* A node is taken from the local list without a lock.  The list and node->core are
\* cleared in two writes, here in one: an itimer_node_destroy in between, which has
\* read node->core to lock the core and reads it again to unlock, is left out (it
\* would keep the core locked).
Pop(e) ==
  /\ TimerAt("idle")
  /\ evt[e].node = "queued"
  /\ evt' = [evt EXCEPT ![e].node = "off"]
  /\ timer' = [timer EXCEPT !.pc = "cb", !.e = e]
  /\ UNCHANGED <<ghandle, queue, user, crash, history>>

\* itimer_evt_cb reads evt->mgr and counts the periods that have passed.
CbCount ==
  /\ TimerAt("cb")
  /\ LET e == timer.e
         r == evt[e].repeat
     IN  IF ~evt[e].mgr
         THEN /\ crash' = "null"
              /\ UNCHANGED <<evt, timer>>
         ELSE \E b \in Bursts :
                LET k == IF r > 0 /\ b > r THEN r ELSE b
                IN  /\ timer' = [timer EXCEPT !.pc = IF k = r THEN "stop" ELSE "arm",
                                              !.count = k]
                    /\ evt' = [evt EXCEPT ![e].repeat =
                                 IF r > k THEN r - k ELSE IF r > 1 THEN 1 ELSE r]
                    /\ UNCHANGED crash
  /\ UNCHANGED <<ghandle, queue, user, history>>

\* itimer_node_add, where the assertion holds
Added(e, left) == [evt[e] EXCEPT !.node = "wheel", !.left = left]

\* itimer_node_add under the lock of the core, with its assertion.
CbArm ==
  /\ TimerAt("arm")
  /\ LET e == timer.e
     IN  IF ~evt[e].ok
         THEN /\ crash' = "assert"
              /\ UNCHANGED <<evt, timer>>
         ELSE /\ evt' = [evt EXCEPT ![e] = [Added(e, evt[e].period) EXCEPT !.running = TRUE]]
              /\ timer' = [timer EXCEPT !.pc = "push"]
              /\ UNCHANGED crash
  /\ UNCHANGED <<ghandle, queue, user, history>>

\* itimer_evt_stop and itimer_node_del, where the assertion holds
Stopped(e) ==
  [evt[e] EXCEPT !.mgr = FALSE, !.running = FALSE, !.node = IF evt[e].mgr THEN "off" ELSE @]

\* itimer_evt_stop under the lock of the core, with itimer_node_del's
\* assertion, when this was the last call.
CbStop ==
  /\ TimerAt("stop")
  /\ LET e == timer.e
     IN  IF evt[e].mgr /\ ~evt[e].ok
         THEN /\ crash' = "assert"
              /\ UNCHANGED <<evt, timer>>
         ELSE /\ evt' = [evt EXCEPT ![e] = [Stopped(e) EXCEPT !.running = TRUE, !.end = TRUE]]
              /\ timer' = [timer EXCEPT !.pc = "push"]
              /\ UNCHANGED crash
  /\ UNCHANGED <<ghandle, queue, user, history>>

\* evt->push_task: a task for the thread that set the timer, if it has a
\* queue.  The loop ends early when the event was destroyed meanwhile.
CbPush ==
  /\ TimerAt("push")
  /\ timer.count > 0
  /\ LET e == timer.e
         k == evt[e].task
     IN  IF ~(evt[e].ok /\ evt[e].running)
         THEN /\ timer' = [timer EXCEPT !.count = 0]
              /\ UNCHANGED queue
         ELSE /\ timer' = [timer EXCEPT !.count = @ - 1]
              /\ IF k = NoTask THEN UNCHANGED queue
                 ELSE /\ queue[k].lock = Nobody
                      /\ queue' = IF queue[k].tid = Nobody THEN queue
                                  ELSE [queue EXCEPT
                                          ![k].tasks = Append(@, evt[e].handle)]
  /\ UNCHANGED <<evt, ghandle, user, crash, history>>

\* Mutant: the ended event stays in its bucket.
CbEnd_NoFree ==
  /\ TimerAt("push")
  /\ timer.count = 0
  /\ evt' = [evt EXCEPT ![timer.e].running = FALSE]
  /\ timer' = [timer EXCEPT !.pc = "idle"]
  /\ UNCHANGED <<ghandle, queue, user, crash, history>>

\* itimer_evt_cb returns; an event that has ended frees itself through
\* itimer_unset of the handle it has now.
CbEnd ==
  /\ TimerAt("push")
  /\ timer.count = 0
  /\ LET e == timer.e
     IN  evt' = [x \in Evts |->
                   IF evt[e].end /\ evt[e].ok /\ x \in Lookup(evt[e].handle)
                   THEN Destroyed(x)
                   ELSE IF x = e THEN [evt[e] EXCEPT !.running = FALSE]
                   ELSE evt[x]]
  /\ timer' = [timer EXCEPT !.pc = "idle"]
  /\ UNCHANGED <<ghandle, queue, user, crash, history>>

------------------------------------------------------------------------------
(* The user threads: "run" outside, "update" in the loop of                *)
(* itimer_update_timer, "task" in a callback of it; "set" and "enter" while*)
(* GetTask is called, for itimer_set and for itimer_update_timer.          *)

UserAt(u, pc) == crash = "no" /\ user[u].pc = pc

\* itimer_set: an event of the pool, or a new one, gets the next handle.
\* itimer_evt_init leaves evt->end as it finds it.
Set(u) ==
  /\ UserAt(u, "run") \/ UserAt(u, "task")
  /\ ghandle <= LastHandle
  /\ \E e \in Evts :
       /\ evt[e].pooled
       /\ evt' = [evt EXCEPT ![e].pooled = FALSE, ![e].handle = ghandle]
       /\ user' = [user EXCEPT ![u].pc = "set", ![u].back = user[u].pc, ![u].e = e,
                               ![u].probe = u % MAX_THREAD_TASK]
  /\ ghandle' = ghandle + 1
  /\ UNCHANGED <<timer, queue, crash, history>>

\* The queue a thread has found is remembered, unless its number is 0.
Found(u) == user[u].key # 0

\* Mutant: a queue is taken whoever has it.
Probe_AnySlot(u) ==
  /\ UserAt(u, "set") \/ UserAt(u, "enter")
  /\ ~Found(u) /\ ~user[u].got
  /\ LET k == user[u].probe
     IN  /\ queue[k].lock = Nobody
         /\ queue' = [queue EXCEPT ![k].tid = u]
         /\ user' = [user EXCEPT ![u].key = k, ![u].got = TRUE]
  /\ UNCHANGED <<evt, ghandle, timer, crash, history>>

NextSlot(k) == (k + 1) % MAX_THREAD_TASK

\* One round of GetTask: a free queue, or the thread's own, is taken; after
\* a full turn there is none.
Probe(u) ==
  /\ UserAt(u, "set") \/ UserAt(u, "enter")
  /\ ~Found(u) /\ ~user[u].got
  /\ LET k    == user[u].probe
         next == NextSlot(k)
     IN  /\ queue[k].lock = Nobody
         /\ \/ /\ queue[k].tid \in {Nobody, u}
               /\ queue' = [queue EXCEPT ![k].tid = u]
               /\ user' = [user EXCEPT ![u].key = k, ![u].got = TRUE]
            \/ /\ queue[k].tid \notin {Nobody, u}
               /\ user' = IF next = u % MAX_THREAD_TASK
                          THEN [user EXCEPT ![u].key = NoTask, ![u].got = TRUE]
                          ELSE [user EXCEPT ![u].probe = next]
               /\ UNCHANGED queue
  /\ UNCHANGED <<evt, ghandle, timer, crash, history>>

\* Mutant: itimer_evt_init clears the task that was set before.
Start_ClearsTask(u, w, r) ==
  /\ UserAt(u, "set")
  /\ Found(u) \/ user[u].got
  /\ LET e == user[u].e
     IN  /\ evt' = [evt EXCEPT ![e].task = NoTask, ![e].ok = TRUE,
                               ![e].mgr = TRUE, ![e].period = w, ![e].repeat = r,
                               ![e].node = "wheel", ![e].left = w,
                               ![e].running = FALSE]
         /\ asked' = [asked EXCEPT ![evt[e].handle] =
                        [tid |-> u, key |-> user[u].key, repeat |-> r]]
  /\ user' = [user EXCEPT ![u].pc = user[u].back, ![u].got = FALSE]
  /\ UNCHANGED <<ghandle, timer, queue, crash, done>>

\* itimer_evt_init and itimer_evt_start
Started(e, w, r) ==
  [Added(e, w) EXCEPT !.ok = TRUE, !.mgr = TRUE, !.period = w, !.repeat = r, !.running = FALSE]

\* The rest of itimer_set: the event gets its task and is started.  The code reads the
\* manager's clock for slap just before it locks the core; as a timer is the ticks it
\* has left, which are counted under the lock, both are one step here.
Start(u, w, r) ==
  /\ UserAt(u, "set")
  /\ Found(u) \/ user[u].got
  /\ LET e == user[u].e
     IN  /\ evt' = [evt EXCEPT ![e] = [Started(e, w, r) EXCEPT !.task = user[u].key]]
         /\ asked' = [asked EXCEPT ![evt[e].handle] =
                        [tid |-> u, key |-> user[u].key, repeat |-> r]]
  /\ user' = [user EXCEPT ![u].pc = user[u].back, ![u].got = FALSE]
  /\ UNCHANGED <<ghandle, timer, queue, crash, done>>

\* itimer_unset, from any thread, of any handle ever returned.  The history
\* forgets the timer: no call of it is promised any more.
Unset(u, h) ==
  /\ Unsets # "never"
  /\ UserAt(u, "run") \/ UserAt(u, "task")
  /\ asked[h].tid # Nobody
  /\ \E e \in Lookup(h) :
       /\ Unsets = "any" \/ timer.pc = "idle" \/ timer.e # e
       /\ evt' = [evt EXCEPT ![e] = Destroyed(e)]
  /\ asked' = [asked EXCEPT ![h].key = NoTask]
  /\ UNCHANGED <<ghandle, timer, queue, user, crash, done>>

Enter(u) ==
  /\ UserAt(u, "run")
  /\ user' = [user EXCEPT ![u].pc = "enter", ![u].probe = u % MAX_THREAD_TASK]
  /\ UNCHANGED <<evt, ghandle, timer, queue, crash, history>>

\* The thread has its queue and locks it; without one it returns.
Lock(u) ==
  /\ UserAt(u, "enter")
  /\ Found(u) \/ user[u].got
  /\ LET k == user[u].key
     IN  IF k = NoTask
         THEN /\ user' = [user EXCEPT ![u].pc = "run", ![u].got = FALSE]
              /\ UNCHANGED queue
         ELSE /\ queue[k].lock = Nobody
              /\ queue' = [queue EXCEPT ![k].lock = u]
              /\ user' = [user EXCEPT ![u].pc = "update", ![u].got = FALSE]
  /\ UNCHANGED <<evt, ghandle, timer, crash, history>>

Call(u) ==
  /\ UserAt(u, "update")
  /\ LET tasks == queue[user[u].key].tasks
     IN  /\ tasks # <<>>
         /\ done' = [done EXCEPT ![Head(tasks)] = @ + 1]
  /\ user' = [user EXCEPT ![u].pc = "task"]
  /\ UNCHANGED <<evt, ghandle, timer, queue, crash, asked>>

\* The callback returns and its task leaves the queue.
Return(u) ==
  /\ UserAt(u, "task")
  /\ queue' = [queue EXCEPT ![user[u].key].tasks = Tail(@)]
  /\ user' = [user EXCEPT ![u].pc = "update"]
  /\ UNCHANGED <<evt, ghandle, timer, crash, history>>

Leave(u) ==
  /\ UserAt(u, "update")
  /\ queue[user[u].key].tasks = <<>>
  /\ queue' = [queue EXCEPT ![user[u].key].lock = Nobody]
  /\ user' = [user EXCEPT ![u].pc = "run"]
  /\ UNCHANGED <<evt, ghandle, timer, crash, history>>

------------------------------------------------------------------------------
Init ==
  /\ evt = [e \in Evts |-> Unused]
  /\ ghandle = 1
  /\ timer = [pc |-> "idle", e |-> CHOOSE e \in Evts : TRUE, count |-> 0]
  /\ queue = [k \in Slots |-> [tid |-> Nobody, lock |-> Nobody, tasks |-> <<>>]]
  /\ user = [u \in Users |->
               [pc |-> "run", back |-> "run", e |-> CHOOSE e \in Evts : TRUE,
                key |-> 0, probe |-> 0, got |-> FALSE]]
  /\ crash = "no"
  /\ asked = [h \in Handles |-> [tid |-> Nobody, key |-> NoTask, repeat |-> 0]]
  /\ done = [h \in Handles |-> 0]

TimerNext == Tick \/ (\E e \in Evts : Pop(e)) \/ CbCount \/ CbArm \/ CbStop
               \/ CbPush \/ CbEnd

\* What a thread does by itself once it has called a function of the timer.
Inside(u) == \/ Probe(u) \/ Lock(u) \/ Call(u) \/ Return(u) \/ Leave(u)
             \/ \E w \in Waits, r \in Repeats : Start(u, w, r)

UserNext(u) == \/ Set(u) \/ Enter(u) \/ Inside(u)
               \/ \E h \in Handles : Unset(u, h)

Next == TimerNext \/ \E u \in Users : UserNext(u)

Spec == Init /\ [][Next]_vars

\* The threads keep running, callbacks return, and every user thread calls
\* itimer_update_timer again and again, as the examples do.  Between two
\* calls it sleeps without the lock of its queue, so the timer thread gets it.
FairSpec == /\ Spec
            /\ WF_vars(TimerNext) /\ SF_vars(CbPush)
            /\ \A u \in Users : WF_vars(Inside(u)) /\ WF_vars(Enter(u))

------------------------------------------------------------------------------
TypeOK ==
  /\ evt \in [Evts -> [handle : 0 .. LastHandle, pooled : BOOLEAN,
                       node : {"off", "wheel", "queued"}, left : Nat,
                       ok : BOOLEAN, mgr : BOOLEAN, period : Nat, repeat : Nat,
                       running : BOOLEAN, end : BOOLEAN,
                       task : Slots \cup {NoTask}]]
  /\ ghandle \in 1 .. LastHandle + 1
  /\ timer \in [pc : {"idle", "cb", "arm", "stop", "push"}, e : Evts, count : Nat]
  /\ \A k \in Slots : /\ queue[k].tid \in Users \cup {Nobody}
                      /\ queue[k].lock \in Users \cup {Nobody}
                      /\ queue[k].tasks \in Seq(Handles)
  /\ user \in [Users -> [pc : {"run", "set", "enter", "update", "task"},
                         back : {"run", "task"}, e : Evts,
                         key : Slots \cup {NoTask}, probe : Slots,
                         got : BOOLEAN]]
  /\ crash \in {"no", "null", "assert"}

\* However the searches of GetTask interleave, and although queue 0 is
\* searched for again on every call, a thread has one queue of its own and
\* finds there only the tasks of timers it set.
TasksOfOwner ==
  /\ \A u \in Users : /\ Cardinality({k \in Slots : queue[k].tid = u}) <= 1
                      /\ user[u].key > 0 => queue[user[u].key].tid = u
  /\ \A k \in Slots : \A i \in DOMAIN queue[k].tasks :
       asked[queue[k].tasks[i]].tid = queue[k].tid

\* Calls itimer_evt_cb has still to push or to arm for e.
Owed(e) ==
  IF timer.e = e /\ timer.pc \in {"arm", "stop", "push"}
  THEN timer.count + (IF timer.pc = "stop" \/ evt[e].end THEN 0 ELSE evt[e].repeat)
  ELSE evt[e].repeat

\* The thread that holds queue k is in the callback of its first task.
InCall(k) == \E u \in Users : /\ queue[k].lock = u
                              /\ user[u].pc # "update"

\* Tasks of h on queue k whose callback was not called yet.
Waiting(k, h) ==
  Cardinality({i \in DOMAIN queue[k].tasks : /\ queue[k].tasks[i] = h
                                             /\ i > 1 \/ ~InCall(k)})

\* As long as a timer is not unset, no expiry of it is lost or made twice
\* between the timer thread and the thread that set it: calls made, tasks
\* waiting and what is still owed add up to the repeat count, also after the
\* event of an ended timer was reused.
Accounted ==
  \A h \in Handles :
    asked[h].key # NoTask /\ asked[h].repeat > 0 =>
      LET owed == IF Lookup(h) = {} THEN 0 ELSE Owed(CHOOSE e \in Lookup(h) : TRUE)
      IN  done[h] + Waiting(asked[h].key, h) + owed = asked[h].repeat

\* A timer set by a thread that has a queue makes all its calls in the end,
\* unless it is unset.
Delivered ==
  \A h \in Handles : (asked[h].key # NoTask) ~>
    (asked[h].key = NoTask \/ done[h] = asked[h].repeat)

\* The timer thread never works on a destroyed event as long as a timer is not
\* unset in the middle of its own itimer_evt_cb: a node on the wheel or on the
\* local list is unlinked with the event, and a reused event is a new timer.
NoCrash == crash = "no"

\* assert(node->state == ITIMER_NODE_STATE_OK) of itimer_node_add and
\* itimer_node_del never fails.
AssertHolds == crash # "assert"
==============================================================================
