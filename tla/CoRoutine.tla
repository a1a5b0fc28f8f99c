------------------------------ MODULE CoRoutine ------------------------------
(***************************************************************************)
(* libco_pool: co_routine.cpp (coroutines of one thread that resume each   *)
(* other, copy their shared stack and wait in co_eventloop for descriptors,*)
(* signals and the timeout wheel) and co_routine_pool.cpp (the pool that a *)
(* coroutine of its own cleans up).                                        *)
(*                                                                         *)
(* Time is counted from ullStart and slots from llStartIdx, so both stay 0;*)
(* GetTickMS, the time of the day, is any number that far from ullStart.   *)
(* A coroutine waits for one thing at a time: its stPoll_t or              *)
(* stCoCondItem_t is named by the coroutine.  User code is any sequence of *)
(* calls of the library.                                                   *)
(***************************************************************************)
EXTENDS Integers, Sequences, FiniteSets

CONSTANTS Cos,       \* stCoRoutine_t structures for user code
          Gc,        \* the coroutine of stCoRoutine_pool_start_gc
          Shared,    \* structures created with the share_stack attribute
          Fds,       \* descriptors
          Size,      \* iItemSize (60 * 1000)
          Timeouts,  \* of poll and co_cond_timedwait
          FreeMax,   \* DEF_ROUTINE_POOL_RECOVERY_ALLOC_LIMIT
          MaxClock   \* how far ullStart can be behind

ASSUME CoAssumption ==
  /\ IsFiniteSet(Cos) /\ Gc \notin Cos /\ Shared \subseteq Cos
  /\ Size \in Nat \ {0, 1}
  /\ Timeouts \subseteq Nat /\ MaxClock \in Nat /\ FreeMax \in Nat
  /\ "none" \notin Cos \cup {Gc}

None == "none"
All == Cos \cup {Gc}
Slots == 0 .. Size - 1
GetTickMS == -1 .. MaxClock   \* -1: the clock was set to before ullStart

VARIABLES
  callStack,   \* pCallStack above co_main
  st,          \* "none" (not allocated), "free", "new", "run" (on callStack), "yield",
               \* "poll", "cond", "end" (in coroutine_end)
  wheel,       \* pTimeout->pItems, by distance from llStartIdx
  active,      \* pstActiveList
  left,        \* ullExpireTime of a coroutine's item
  bTimeout,    \* of a coroutine's item
  waits,       \* a stCoCond_t
  fds,         \* descriptors a coroutine polls
  reg,         \* who has a descriptor in the epoll set
  loopNow,     \* now of co_eventloop
  pc,          \* of co_eventloop: "wait", "active", "pfn"
  occupy,      \* occupy_co of the shared stack
  content,     \* whose frames are on the shared stack
  saved        \* save_buffer of a coroutine: whose frames are in it

items == <<wheel, active, left, bTimeout>>
kernel == <<fds, reg>>
stack == <<occupy, content, saved>>
vars == <<callStack, st, items, waits, kernel, loopNow, pc, stack>>

\* Lists.  An item that is put at the end of one is in no other, as LinkedOnce shows.
AddTail(s, c) == Append(s, c)
PopHeads(s, n) == SubSeq(s, n + 1, Len(s))

\* Join: the lists w[0] .. w[n - 1], one after the other
Join(w, n) ==
  LET j[i \in 0 .. n] == IF i = 0 THEN <<>> ELSE j[i - 1] \o w[i - 1] IN j[n]

\* RemoveFromLink, for each in C
Without(s, C) ==
  Join([i \in 0 .. Len(s) - 1 |-> IF s[i + 1] \in C THEN <<>> ELSE <<s[i + 1]>>], Len(s))
Unlink(w, C) == [i \in Slots |-> Without(w[i], C)]

\* AllocEpoll
AllocEpoll ==
  /\ active = <<>> /\ bTimeout = [c \in All |-> FALSE]
  /\ fds = [c \in All |-> {}] /\ reg = [f \in Fds |-> None]

\* stCoRoutine_pool_start_gc: the pool is filled, and the recovery coroutine waits in
\* its first poll.
StartGc ==
  /\ st = [c \in All |-> IF c = Gc THEN "poll" ELSE "free"]
  /\ wheel = [i \in Slots |-> IF i = 1 THEN <<Gc>> ELSE <<>>]
  /\ left = [c \in All |-> IF c = Gc THEN 1 ELSE 0]

\* co_init_curr_thread_env
Init ==
  /\ callStack = <<>>
  /\ AllocEpoll /\ StartGc
  /\ waits = <<>>
  /\ loopNow = 0 /\ pc = "pfn"
  /\ occupy = None /\ content = None /\ saved = [c \in All |-> None]

-----------------------------------------------------------------------------
\* User code runs in a coroutine, or in pfn of co_eventloop.
Runs(c) == callStack # <<>> /\ callStack[Len(callStack)] = c
UserRuns == IF callStack = <<>> THEN pc = "pfn" ELSE ~Runs(Gc)

\* Mutant: nothing is restored if nobody occupied the stack.
Restores_Occupied(c) == occupy \notin {None, c} /\ saved[c] # None

\* co_swap: the frames that are restored after the switch
Restores(c) == occupy # c /\ saved[c] # None

\* co_swap to a coroutine; on the shared stack the one before is saved first.
SwapTo(c) ==
  IF c \notin Shared THEN UNCHANGED stack
  ELSE /\ occupy' = c
       /\ saved' = IF occupy \in {None, c} THEN saved ELSE [saved EXCEPT ![occupy] = content]
       /\ content' = IF st[c] = "new" THEN c
                     ELSE IF Restores(c) THEN saved[c] ELSE content

\* co_resume
Resume(c) == callStack' = Append(callStack, c) /\ SwapTo(c)

\* co_yield_env: back to the one that resumed this one
Yield ==
  LET n == Len(callStack)
  IN /\ callStack' = SubSeq(callStack, 1, n - 1)
     /\ IF n = 1 THEN UNCHANGED stack ELSE SwapTo(callStack[n - 1])

\* stCoRoutine_alloc: from the pool, which grows when empty
Alloc(c) == st[c] = IF \E d \in Cos : st[d] = "free" THEN "free" ELSE "none"

\* co_create, co_create_env
Create(c) ==
  /\ UserRuns
  /\ Alloc(c)
  /\ st' = [st EXCEPT ![c] = "new"]
  /\ saved' = [saved EXCEPT ![c] = None]
  /\ UNCHANGED <<callStack, items, waits, kernel, loopNow, pc, occupy, content>>

UserResume(c) ==
  /\ UserRuns /\ st[c] \in {"new", "yield"}
  /\ Resume(c)
  /\ st' = [st EXCEPT ![c] = "run"]
  /\ UNCHANGED <<items, waits, kernel, loopNow, pc>>

\* co_yield_ct
UserYield(c) ==
  /\ Runs(c) /\ c # Gc
  /\ st' = [st EXCEPT ![c] = "yield"]
  /\ Yield
  /\ UNCHANGED <<items, waits, kernel, loopNow, pc>>

\* stCoRoutine_release: the structure waits in coroutine_end, although it still runs.
PoolRelease(c) == st' = [st EXCEPT ![c] = "end"]

\* The end of CoRoutineFunc
CoRoutineFunc(c) ==
  /\ Runs(c) /\ c # Gc
  /\ PoolRelease(c)
  /\ Yield
  /\ UNCHANGED <<items, waits, kernel, loopNow, pc>>

-----------------------------------------------------------------------------
\* AddTimeout, with the time that is too far for the wheel cut to its last slot
Slot(w, d) == IF d >= Size THEN Size - 1 ELSE d
AddTimeout(w, c, d) == [w EXCEPT ![Slot(w, d)] = AddTail(@, c)]

\* co_poll_inner until it switches.  A descriptor that another one polls stays
\* with it.
Poll(c, F, t, now) ==
  /\ now >= 0
  /\ left' = [left EXCEPT ![c] = now + t]
  /\ bTimeout' = [bTimeout EXCEPT ![c] = FALSE]
  /\ wheel' = AddTimeout(wheel, c, now + t)
  /\ fds' = [fds EXCEPT ![c] = F]
  /\ reg' = [f \in Fds |-> IF f \in F /\ reg[f] = None THEN c ELSE reg[f]]
  /\ Yield
UserPoll(c, F, t) ==
  /\ Runs(c) /\ c # Gc
  /\ \E now \in GetTickMS : Poll(c, F, t, now)
  /\ st' = [st EXCEPT ![c] = "poll"]
  /\ UNCHANGED <<active, waits, loopNow, pc>>

\* co_poll_inner when AddTimeout fails: the clock is before ullStart.  The
\* descriptors leave the epoll set.
PollFails(c, F) ==
  /\ Runs(c) /\ c # Gc
  /\ reg' = [f \in Fds |-> IF f \in F THEN None ELSE reg[f]]
  /\ UNCHANGED <<callStack, st, items, waits, fds, loopNow, pc, stack>>

\* co_cond_timedwait until it switches; 0: no timeout
CondWait(c, t) ==
  /\ Runs(c) /\ c # Gc
  /\ \E now \in GetTickMS :
       /\ now >= 0
       /\ left' = [left EXCEPT ![c] = IF t > 0 THEN now + t ELSE 0]
       /\ wheel' = IF t > 0 THEN AddTimeout(wheel, c, now + t) ELSE wheel
  /\ bTimeout' = [bTimeout EXCEPT ![c] = FALSE]
  /\ waits' = AddTail(waits, c)
  /\ st' = [st EXCEPT ![c] = "cond"]
  /\ Yield
  /\ UNCHANGED <<active, kernel, loopNow, pc>>

\* Mutant: the timer is not taken from its list.
Woken_StaysLinked(C) == wheel' = wheel /\ active' = active \o C

\* What both do for the items they take from the condition: the timer leaves its
\* list, which may be the active one, and the item goes to the end of that.
Woken(C) ==
  LET W == {C[i] : i \in DOMAIN C}
  IN /\ wheel' = Unlink(wheel, W)
     /\ active' = Without(active, W) \o C

\* co_cond_pop, n times
CondPop(n) == SubSeq(waits, 1, n)

\* co_cond_signal, co_cond_broadcast
Signal ==
  /\ UserRuns /\ waits # <<>>
  /\ \E n \in {1, Len(waits)} :
       /\ waits' = PopHeads(waits, n)
       /\ Woken(CondPop(n))
  /\ UNCHANGED <<callStack, st, left, bTimeout, kernel, loopNow, pc, stack>>

-----------------------------------------------------------------------------
\* Mutant: the slot of the current time is left for the next turn.
TakeCount_NotNow(now) == IF now < 0 THEN 0 ELSE IF now > Size THEN Size ELSE now

\* TakeAllTimeout: how many slots are taken ...
TakeCount(now) == IF now < 0 THEN 0 ELSE IF now + 1 > Size THEN Size ELSE now + 1

\* ... and what stays, seen from the new llStartIdx (in the slot at ullStart).
Stays(w, n) ==
  [i \in Slots |-> IF n = 0 THEN w[i] ELSE IF i = 0 \/ i + n - 1 >= Size THEN <<>>
                   ELSE w[i + n - 1]]

\* OnPollPreparePfn takes each poll once, with its first event, in the order of these.
Orders(C) == {s \in [1 .. Cardinality(C) -> C] : \A c \in C : \E i \in DOMAIN s : s[i] = c}

\* co_eventloop, from co_epoll_wait (any of the descriptors have an event) to the
\* list of what is to run: OnPollPreparePfn takes the timer of each coroutine with
\* an event, then the timeouts are joined.
EpollWait(now) ==
  /\ pc = "wait" /\ callStack = <<>>
  /\ \E C \in SUBSET ({reg[f] : f \in Fds} \ {None}) :
     LET w == Unlink(wheel, C)
         T == Join(w, TakeCount(now))
     IN /\ \E e \in Orders(C) : active' = active \o e \o T
        /\ wheel' = Stays(w, TakeCount(now))
        /\ bTimeout' = [c \in All |-> bTimeout[c] \/ \E i \in DOMAIN T : T[i] = c]
  /\ left' = [c \in All |-> IF now < 0 THEN left[c]
                            ELSE IF left[c] > now THEN left[c] - now ELSE 0]
  /\ loopNow' = IF now < 0 THEN now ELSE 0
  /\ pc' = "active"
  /\ UNCHANGED <<callStack, st, waits, kernel, stack>>

\* A coroutine that runs again finishes co_poll_inner or co_cond_timedwait: its
\* descriptors leave the epoll set, its item the condition.
Wakes(c) ==
  /\ Resume(c)
  /\ st' = [st EXCEPT ![c] = "run"]
  /\ reg' = [f \in Fds |-> IF f \in fds[c] THEN None ELSE reg[f]]
  /\ fds' = [fds EXCEPT ![c] = {}]
  /\ waits' = Without(waits, {c})
  /\ left' = [left EXCEPT ![c] = 0] /\ bTimeout' = [bTimeout EXCEPT ![c] = FALSE]

\* co_eventloop, the active list: a timeout that was cut to the size of the wheel
\* goes back to it.
LoopStep ==
  /\ pc = "active" /\ callStack = <<>> /\ active # <<>>
  /\ LET c == Head(active)
     IN IF bTimeout[c] /\ loopNow < left[c] /\ loopNow >= 0
        THEN /\ wheel' = AddTimeout(wheel, c, left[c])
             /\ bTimeout' = [bTimeout EXCEPT ![c] = FALSE]
             /\ UNCHANGED <<callStack, st, left, waits, fds, reg, stack>>
        ELSE Wakes(c) /\ UNCHANGED wheel
  /\ active' = PopHeads(active, 1)
  /\ UNCHANGED <<loopNow, pc>>

LoopEnds ==
  /\ pc = "active" /\ callStack = <<>> /\ active = <<>>
  /\ pc' = "pfn" /\ loopNow' = 0
  /\ UNCHANGED <<callStack, st, items, waits, kernel, stack>>

PfnEnds ==
  /\ pc = "pfn" /\ callStack = <<>>
  /\ pc' = "wait"
  /\ UNCHANGED <<callStack, st, items, waits, kernel, loopNow, stack>>

-----------------------------------------------------------------------------

\* co_release
Release(E) == occupy' = IF occupy \in E THEN None ELSE occupy

\* stCoRoutine_recovery: what has ended is released, to the pool or, if that has
\* enough, for good; then the coroutine polls again (and spins if that fails).
Recovery ==
  /\ Runs(Gc)
  /\ \E now \in GetTickMS :
     LET E == {c \in Cos : st[c] = "end"}
         n == Cardinality({c \in Cos : st[c] = "free"})
         room == IF n < FreeMax THEN FreeMax - n ELSE 0
     IN /\ \E K \in SUBSET E :
             /\ Cardinality(K) = IF Cardinality(E) < room THEN Cardinality(E) ELSE room
             /\ st' = [c \in All |-> IF c \in K THEN "free"
                                     ELSE IF c \in E THEN "none"
                                     ELSE IF c = Gc /\ now >= 0 THEN "poll" ELSE st[c]]
        /\ Release(E)
        /\ saved' = [c \in All |-> IF c \in E THEN None ELSE saved[c]]
        /\ IF now < 0 THEN UNCHANGED <<callStack, wheel, left>>
           ELSE /\ callStack' = SubSeq(callStack, 1, Len(callStack) - 1)
                /\ wheel' = AddTimeout(wheel, Gc, now + 1)
                /\ left' = [left EXCEPT ![Gc] = now + 1]
  /\ UNCHANGED <<active, bTimeout, waits, kernel, loopNow, pc, content>>

-----------------------------------------------------------------------------
Leave(c) ==
  \/ UserYield(c) \/ CoRoutineFunc(c)
  \/ \E F \in SUBSET Fds, t \in Timeouts : UserPoll(c, F, t)
  \/ \E t \in Timeouts \cup {0} : CondWait(c, t)

Next ==
  \/ \E c \in Cos : Create(c) \/ UserResume(c) \/ Leave(c)
  \/ \E c \in Cos : PollFails(c, Fds)
  \/ Signal
  \/ \E now \in GetTickMS : EpollWait(now)
  \/ LoopStep \/ LoopEnds \/ PfnEnds \/ Recovery

\* Time passes, the loop goes on, and user code gives up the thread in the end.
TimePasses == \E now \in 1 .. MaxClock : EpollWait(now)
Fairness ==
  /\ SF_vars(TimePasses) /\ WF_vars(LoopStep) /\ WF_vars(LoopEnds)
  /\ SF_vars(PfnEnds) /\ SF_vars(Runs(Gc) /\ Recovery /\ st'[Gc] = "poll")
  /\ \A c \in Cos : SF_vars(Leave(c))

Spec == Init /\ [][Next]_vars /\ Fairness

-----------------------------------------------------------------------------
\* A coroutine on the shared stack runs with its own frames, whoever used the
\* stack meanwhile, ended and was recovered; and the stack does not name a
\* structure that was given back.
StackIsMine ==
  /\ \A c \in Shared : Runs(c) => content = c
  /\ occupy # None => st[occupy] \notin {"free", "none"}

InWheel(c) == \E i \in Slots : \E k \in DOMAIN wheel[i] : wheel[i][k] = c
Count(s, c) == Cardinality({i \in DOMAIN s : s[i] = c})

\* What the lists of the loop point to exists, once: only coroutines that wait are
\* in them, a waiting one is in the wheel, the active list or the condition, never
\* in the first two at once, and so is resumed once for a wait.
LinkedOnce ==
  /\ \A c \in All :
       /\ Count(active, c) + (IF InWheel(c) THEN 1 ELSE 0) =< 1
       /\ Count(active, c) = 1 \/ InWheel(c) => st[c] \in {"poll", "cond"}
       /\ Count(waits, c) = 1 => st[c] = "cond"
       /\ st[c] = "poll" => Count(active, c) = 1 \/ InWheel(c)
       /\ st[c] = "cond" => Count(active, c) = 1 \/ InWheel(c) \/ Count(waits, c) = 1
  /\ \A f \in Fds : reg[f] # None => st[reg[f]] = "poll" /\ f \in fds[reg[f]]

\* poll returns, with its timeout at the latest, provided that the loop comes back to
\* epoll_wait again and again.  It does not while coroutines signal each other
\* without end, which keeps it in the active list.
PollReturns ==
  []<>(pc = "wait") => \A c \in All : []<>(st[c] # "poll")
=============================================================================
