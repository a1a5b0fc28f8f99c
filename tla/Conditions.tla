------------------------------ MODULE Conditions ------------------------------
(***************************************************************************)
(* Condition variables and what is built on them: Mutex.h, Condition.h and *)
(* CountDownLatch.h of demo/C++/mutex with the queue of thread_test.cpp,   *)
(* and condition.c with its ring of demo/C/condition and the latch that    *)
(* the asynchronous logs start with.  kind says which program this is:     *)
(*   "queue"  thread_test.cpp: a producer, a consumer, and main;           *)
(*   "plain"  test.cpp: main alone with a queue that nobody waits for;     *)
(*   "ring"   demo/C/condition/main.c: a producer and a consumer;          *)
(*   "latch"  threads that count a CountDownLatch down, others that wait;  *)
(*   "start"  asynclog_start and linkageasynclog_start, whose caller waits *)
(*            for the new thread.                                          *)
(* Each has one mutex and one condition.  What a thread does from a lock   *)
(* to the unlock or to the wait is one action, as all that is read there   *)
(* is written under the same mutex.                                        *)
(***************************************************************************)
EXTENDS Naturals, Sequences, FiniteSets

CONSTANTS LastItem, \* the last item of test.cpp and thread_test.cpp, 9 there
          BUF_MAX,  \* items of the ring, 30 in the code
          Counters, \* threads that count the latch down
          Waiters,  \* threads that wait for the latch
          Nobody    \* holds a free mutex

VARIABLES kind,     \* the program
          mutex,    \* who holds it
          waiting,  \* threads the condition has not woken
          at,       \* where each thread is
          q, cout,  \* Queue of thread_test.cpp
          buf, head, tail, \* the ring
          count,    \* count_ of the latch
          running,  \* running_
          ready,    \* the new thread has its buffers
          made,     \* history: items produced
          got       \* history: items consumed

sync == <<mutex, waiting, at>>
data == <<q, cout, buf, head, tail, count, running, ready, made, got>>
vars == <<kind, sync, data>>

Ends(k) == CASE k = "queue" -> {"producer", "consumer", "main"}
             [] k = "plain" -> {"main"}
             [] k = "ring"  -> {"producer", "consumer"}
             [] k = "latch" -> Counters \union Waiters
             [] k = "start" -> {"starter", "thread"}

\* When main returns, the process ends with all its threads.
Lives(t) == t \in Ends(kind) /\ (kind = "queue" => at["main"] # "over")
At(t, l) == Lives(t) /\ at[t] = l
Goes(t, l) == at' = [at EXCEPT ![t] = l]

------------------------------------------------------------------------------
(* Mutex.h, Condition.h, condition.c *)

\* MutexLockGuard, pthread_mutex_lock
lock(t) ==
  /\ At(t, "lock") /\ mutex = Nobody
  /\ mutex' = t
  /\ Goes(t, "locked")
  /\ UNCHANGED <<kind, waiting, data>>

unlock == mutex' = Nobody

\* wait and waitForSeconds: the mutex is free until they return.
wait(t) ==
  /\ unlock
  /\ waiting' = waiting \union {t}
  /\ Goes(t, "wait")

\* They return with the mutex: notified, timed out or for no reason.
Wake(t) ==
  /\ At(t, "wait") /\ mutex = Nobody
  /\ mutex' = t
  /\ waiting' = waiting \ {t}
  /\ Goes(t, "locked")
  /\ UNCHANGED <<kind, data>>

notify == IF waiting = {} THEN UNCHANGED waiting
          ELSE \E t \in waiting : waiting' = waiting \ {t}

notifyAll == waiting' = {}

\* The same in C, for the ring
condition_waitForSeconds(t) == wait(t)
condition_notify == notify

------------------------------------------------------------------------------
(* thread_test.cpp *)

push(d) ==
  /\ q' = Append(q, d)
  /\ cout' = cout + 1
  /\ notify
  /\ unlock

\* do_producer: items 0 .. 9.
do_producer ==
  /\ kind = "queue" /\ At("producer", "locked")
  /\ push(made)
  /\ made' = made + 1
  /\ Goes("producer", IF made = LastItem THEN "over" ELSE "lock")
  /\ UNCHANGED <<kind, buf, head, tail, count, running, ready, got>>

\* An empty queue is waited for a second at a time.
pop ==
  /\ kind = "queue" /\ At("consumer", "locked")
  /\ IF q = <<>> THEN wait("consumer") /\ UNCHANGED data
     ELSE /\ got' = Append(got, Head(q))
          /\ q' = Tail(q) /\ cout' = cout - 1
          /\ unlock
          /\ Goes("consumer", IF Head(q) = LastItem THEN "tell" ELSE "lock")
          /\ UNCHANGED <<waiting, buf, head, tail, count, running, ready, made>>
  /\ UNCHANGED kind

\* tm.notify and tm.wait have a condition of their own, and no lock: main may
\* also go on before, or be told too early to hear it.
do_consumer ==
  /\ kind = "queue" /\ At("consumer", "tell")
  /\ at' = [at EXCEPT !["consumer"] = "over",
                      !["main"] = IF @ = "asleep" THEN "woken" ELSE @]
  /\ UNCHANGED <<kind, mutex, waiting, data>>

mutex_test ==
  /\ kind = "queue"
  /\ \/ At("main", "begin") /\ Goes("main", "asleep")
     \/ (At("main", "asleep") \/ At("main", "woken")) /\ Goes("main", "over")
  /\ UNCHANGED <<kind, mutex, waiting, data>>

------------------------------------------------------------------------------
(* test.cpp: all items are pushed, and one pop more finds the queue empty. *)

plainPush ==
  /\ kind = "plain" /\ At("main", "locked") /\ made <= LastItem
  /\ q' = Append(q, made) /\ cout' = cout + 1
  /\ made' = made + 1
  /\ unlock
  /\ Goes("main", "lock")
  /\ UNCHANGED <<kind, waiting, buf, head, tail, count, running, ready, got>>

plainPop ==
  /\ kind = "plain" /\ At("main", "locked") /\ made > LastItem
  /\ IF q = <<>> THEN Goes("main", "over") /\ UNCHANGED data
     ELSE /\ got' = Append(got, Head(q))
          /\ q' = Tail(q) /\ cout' = cout - 1
          /\ Goes("main", "lock")
          /\ UNCHANGED <<buf, head, tail, count, running, ready, made>>
  /\ unlock
  /\ UNCHANGED <<kind, waiting>>

------------------------------------------------------------------------------
(* demo/C/condition/main.c *)

producer ==
  /\ kind = "ring" /\ At("producer", "locked")
  /\ buf' = [buf EXCEPT ![tail] = tail]
  /\ tail' = tail + 1 /\ made' = made + 1
  /\ condition_notify
  /\ unlock
  /\ Goes("producer", IF tail' = BUF_MAX THEN "over" ELSE "lock")
  /\ UNCHANGED <<kind, q, cout, head, count, running, ready, got>>

\* It never ends, nor does main, which joins it.
consumer ==
  /\ kind = "ring" /\ At("consumer", "locked")
  /\ IF head = tail THEN condition_waitForSeconds("consumer") /\ UNCHANGED data
     ELSE /\ got' = Append(got, buf[head])
          /\ head' = head + 1
          /\ unlock
          /\ Goes("consumer", "lock")
          /\ UNCHANGED <<waiting, q, cout, buf, tail, count, running, ready, made>>
  /\ UNCHANGED kind

------------------------------------------------------------------------------
(* CountDownLatch, countdownlatch_t *)

Down(t) ==
  /\ At(t, "locked")
  /\ count' = count - 1
  /\ IF count' = 0 THEN notifyAll ELSE UNCHANGED waiting
  /\ unlock
  /\ Goes(t, "over")
  /\ UNCHANGED <<kind, q, cout, buf, head, tail, running, ready, made, got>>

Await(t) ==
  /\ At(t, "locked")
  /\ IF count > 0 THEN wait(t)
     ELSE unlock /\ Goes(t, "over") /\ UNCHANGED waiting
  /\ UNCHANGED <<kind, data>>

countDown(t) == kind = "latch" /\ t \in Counters /\ Down(t)
awaitLatch(t) == kind = "latch" /\ t \in Waiters /\ Await(t)
countdownlatch_countdown(t) == kind = "start" /\ t = "thread" /\ Down(t)
countdownlatch_wait(t) == kind = "start" /\ t = "starter" /\ Await(t)

\* asynclog_start: running_ is set before there is a second thread.
asynclog_start ==
  /\ kind = "start" /\ At("starter", "begin")
  /\ running' = TRUE
  /\ at' = [at EXCEPT !["starter"] = "lock", !["thread"] = "begin"]
  /\ UNCHANGED <<kind, mutex, waiting, q, cout, buf, head, tail, count, ready, made, got>>

\* The head of linkageasynclog_threadFunc, up to countdownlatch_countdown.
threadHead ==
  /\ kind = "start" /\ At("thread", "begin")
  /\ ready' = TRUE
  /\ Goes("thread", "lock")
  /\ UNCHANGED <<kind, mutex, waiting, q, cout, buf, head, tail, count, running, made, got>>

------------------------------------------------------------------------------
Begins(t) == CASE kind = "plain" -> "lock"
               [] t \in {"main", "starter"} -> "begin"
               [] t = "thread" -> "none"
               [] OTHER -> "lock"

condition_init == mutex = Nobody /\ waiting = {}
countdownlatch_init == count = IF kind = "latch" THEN Cardinality(Counters) ELSE 1
asynclog_def_init == running = FALSE /\ ready = FALSE
InitQueue == q = <<>> /\ cout = 0
InitRing == buf = [k \in 0 .. BUF_MAX - 1 |-> 0] /\ head = 0 /\ tail = 0

Init ==
  /\ kind \in {"queue", "plain", "ring", "latch", "start"}
  /\ condition_init /\ countdownlatch_init /\ asynclog_def_init
  /\ InitQueue /\ InitRing
  /\ at = [t \in Ends(kind) |-> Begins(t)]
  /\ made = 0 /\ got = <<>>

Next ==
  \/ \E t \in Ends(kind) : \/ lock(t) \/ Wake(t)
                            \/ countDown(t) \/ countdownlatch_countdown(t)
                            \/ awaitLatch(t) \/ countdownlatch_wait(t)
  \/ plainPush \/ plainPop
  \/ do_producer \/ pop \/ do_consumer \/ mutex_test
  \/ producer \/ consumer
  \/ asynclog_start \/ threadHead

Spec == Init /\ [][Next]_vars

------------------------------------------------------------------------------
(* Properties *)

\* What a waiting thread waits for.
Comes(t) == CASE kind \in {"queue", "plain"} -> q # <<>>
              [] kind = "ring"  -> head # tail
              [] OTHER          -> count <= 0

\* Nobody is left waiting for what is already there: every change that ends a
\* wait is followed by a notification before the mutex is free, and notify,
\* which wakes one thread, is used where only one waits.
NobodyForgotten == mutex = Nobody => \A t \in waiting : ~Comes(t)

\* The consumer gets the items once and in order, cout agrees with the queue,
\* and the ring is not read where nothing was written.
InTurn ==
  /\ kind \in {"queue", "plain"} => got \o q = [k \in 1 .. made |-> k - 1] /\ cout = Len(q)
  /\ kind = "ring" => head <= tail /\ tail <= BUF_MAX
                      /\ got = [k \in 1 .. head |-> k - 1]

\* A thread passes the latch only when all have counted it down; the caller of
\* asynclog_start finds the component running, with its buffers.
PassesLast ==
  /\ kind = "latch" =>
       \A t \in Waiters, o \in Counters : at[t] = "over" => at[o] = "over"
  /\ kind = "start" /\ at["starter"] = "over" => at["thread"] = "over" /\ running /\ ready

ConditionsHold == NobodyForgotten /\ InTurn /\ PassesLast

==============================================================================
