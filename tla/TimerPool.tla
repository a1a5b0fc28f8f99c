------------------------------- MODULE TimerPool ------------------------------
(***************************************************************************)
(* timewheel/itimer_pool: every thread has a timer manager of its own, and *)
(* all threads take their events from one pool, to which an event returns  *)
(* when it is unset, in its own callback too.  A manager's wheel is what   *)
(* TimerSpec says of it: an event is called in the tick it is armed for.   *)
(***************************************************************************)
EXTENDS Integers, Sequences, SequencesExt, FiniteSets, FiniteSetsExt

CONSTANTS
  Threads,
  Evts,            \* events calloc can give
  AddSize,         \* DEF_ITIMER_POOL_ADD_SIZE
  interval,        \* of every manager
  Periods, Repeats,
  LastTick         \* bound on the ticks of a manager

VARIABLES
  free,            \* evt_pool->_free
  alloc, unuse,    \* of the pool
  evt,             \* the fields of an event
  current,         \* mgr->current; jiffies are current \div interval
  batch,           \* events of the tick that is run
  call,            \* the event whose callback runs, and how often it is still to be called
  set,             \* of an event in use: who set it, when, and how often it was called
  stray,           \* an event was called by a thread that has not set it
  rushed           \* an event to be called several times in a tick was unset in its own
                   \* callback, or taken from the pool before that callback returned

vars == <<free, alloc, unuse, evt, current, batch, call, set, stray, rushed>>

None == "none"
Never == -1
Zeroed == [mgr |-> None, due |-> Never, period |-> 0, slap |-> 0, repeat |-> 0,
           callback |-> FALSE, running |-> FALSE]
Unset == [thread |-> None, at |-> 0, period |-> 0, repeat |-> 0, calls |-> 0]
Idle == {None}   \* no tick is run
NoCall == [evt |-> None, count |-> 0]

\* itimer_evt_pool_init, and itimer_mgr_thread_init of every thread.
Init ==
  /\ free = <<>> /\ alloc = 0 /\ unuse = 0
  /\ evt = [e \in Evts |-> Zeroed]
  /\ current = [t \in Threads |-> 0]
  /\ batch = [t \in Threads |-> Idle]
  /\ call = [t \in Threads |-> NoCall]
  /\ set = [e \in Evts |-> Unset]
  /\ stray = FALSE /\ rushed = FALSE

Jiffies(t) == current[t] \div interval

\* A thread runs the program: between ticks, or in a callback.
Runs(t) == batch[t] = Idle \/ call[t] # NoCall

-----------------------------------------------------------------------------
\* itimer_evt_pool_add: events that were never allocated.
NewEvts == {e \in Evts : set[e] = Unset /\ ~Contains(free, e)}
Filled ==
  IF free = <<>> THEN SubSeq(SetToSeq(NewEvts), 1, Min({AddSize, Cardinality(NewEvts)}))
  ELSE free
Added == IF free = <<>> THEN Len(Filled) ELSE 0

\* The ticks until slap.
Expires(slap, now) == (slap - now + interval - 1) \div interval

\* itimer_set: itimer_evt_pool_alloc, itimer_evt_init and itimer_evt_start.
ItimerSet(t, period, repeat) ==
  /\ Runs(t) /\ Len(Filled) > 0
  /\ LET e == Head(Filled)
     IN  /\ free' = Tail(Filled)
         /\ alloc' = alloc + Added
         /\ unuse' = unuse + Added - 1
         /\ evt' = [evt EXCEPT ![e] =
                      [mgr |-> t, due |-> Jiffies(t) + Expires(current[t] + period, current[t]),
                       period |-> period, slap |-> current[t] + period, repeat |-> repeat,
                       callback |-> TRUE, running |-> FALSE]]
         /\ set' = [set EXCEPT ![e] = [thread |-> t, at |-> current[t], period |-> period,
                                       repeat |-> repeat, calls |-> 0]]
         /\ rushed' = (rushed \/ (period < interval /\ \E o \in Threads : call[o].evt = e))
  /\ UNCHANGED <<current, batch, call, stray>>

\* Mutant: the node stays linked.
Destroyed_Linked(e) == [Zeroed EXCEPT !.mgr = evt[e].mgr, !.due = evt[e].due]

\* itimer_evt_destroy.
Destroyed(e) == Zeroed

\* itimer_unset, by the thread that set the event: itimer_evt_destroy and
\* itimer_evt_pool_free.
ItimerUnset(t, e) ==
  /\ Runs(t) /\ set[e].thread = t
  /\ evt' = [evt EXCEPT ![e] = Destroyed(e)]
  /\ batch' = [batch EXCEPT ![t] = IF @ = Idle THEN @ ELSE @ \ {e}]
  /\ free' = Append(free, e)
  /\ unuse' = unuse + 1
  /\ set' = [set EXCEPT ![e] = Unset]
  /\ rushed' = (rushed \/ (call[t].evt = e /\ call[t].count > 1))
  /\ UNCHANGED <<alloc, current, call, stray>>

-----------------------------------------------------------------------------
\* itimer_run, one tick of itimer_mgr_run after the other.
BeginTick(t) ==
  /\ batch[t] = Idle /\ Jiffies(t) < LastTick
  /\ batch' = [batch EXCEPT ![t] = {e \in Evts : evt[e].mgr = t /\ evt[e].due = Jiffies(t)}]
  /\ UNCHANGED <<free, alloc, unuse, evt, current, call, set, stray, rushed>>

\* The rounds of the loop in itimer_evt_cb: until slap is ahead, or the last call is due.
Rounds(e, now) ==
  LET ends(k) == evt[e].slap + k * evt[e].period > now \/ k = evt[e].repeat
  IN  IF now < evt[e].slap THEN 0 ELSE Min({k \in 1 .. now + 1 : ends(k)})

Stops(e, k) == k > 0 /\ k = evt[e].repeat

\* itimer_evt_cb up to the first call: the event is armed again, or stopped.
EvtCb(t, e) ==
  /\ batch[t] # Idle /\ call[t] = NoCall /\ e \in batch[t]
  /\ LET k    == Rounds(e, current[t])
         slap == evt[e].slap + k * evt[e].period
     IN  /\ evt' = [evt EXCEPT ![e] =
                      [@ EXCEPT !.slap = slap,
                                !.repeat = IF @ > k THEN @ - k ELSE IF @ > 1 THEN 1 ELSE @,
                                !.mgr = IF Stops(e, k) THEN None ELSE @,
                                !.due = IF Stops(e, k) THEN Never
                                        ELSE Jiffies(t) + Expires(slap, current[t]),
                                !.running = k > 0]]
         /\ call' = [call EXCEPT ![t] = IF k > 0 THEN [evt |-> e, count |-> k] ELSE NoCall]
         /\ set' = [set EXCEPT ![e].calls = @ + IF k > 0 THEN 1 ELSE 0]
  /\ batch' = [batch EXCEPT ![t] = @ \ {e}]
  /\ UNCHANGED <<free, alloc, unuse, current, stray, rushed>>

\* The callback returns: the fields of the event are read, whoever has it by now.
CallbackReturns(t) ==
  /\ call[t] # NoCall
  /\ LET e == call[t].evt
     IN  IF call[t].count > 1 /\ evt[e].callback /\ evt[e].running
         THEN /\ call' = [call EXCEPT ![t].count = @ - 1]
              /\ set' = [set EXCEPT ![e].calls = @ + 1]
              /\ stray' = (stray \/ set[e].thread # t)
              /\ UNCHANGED evt
         ELSE /\ call' = [call EXCEPT ![t] = NoCall]
              /\ evt' = [evt EXCEPT ![e].running = FALSE]
              /\ UNCHANGED <<set, stray>>
  /\ UNCHANGED <<free, alloc, unuse, current, batch, rushed>>

EndTick(t) ==
  /\ batch[t] = {} /\ call[t] = NoCall
  /\ batch' = [batch EXCEPT ![t] = Idle]
  /\ current' = [current EXCEPT ![t] = @ + interval]
  /\ UNCHANGED <<free, alloc, unuse, evt, call, set, stray, rushed>>

Next ==
  \E t \in Threads :
    \/ \E p \in Periods, r \in Repeats : ItimerSet(t, p, r)
    \/ \E e \in Evts : ItimerUnset(t, e) \/ EvtCb(t, e)
    \/ BeginTick(t) \/ CallbackReturns(t) \/ EndTick(t)

Spec == Init /\ [][Next]_vars

-----------------------------------------------------------------------------
\* The calls of an event that are due in a tick before now.
Called(s, now) ==
  Cardinality({k \in 1 .. now : s.at + k * s.period <= now - interval
                                /\ (s.repeat > 0 => k <= s.repeat)})

\* The pool has every event once, and none that is in use; an event in use is armed in the
\* manager of the thread that set it and nowhere else; and between two ticks it was called
\* by that thread as often as its periods have passed, up to its repeats, whoever had the
\* event before and although that one may be in its callback still.  This fails
\* for an event with a period below interval, which is called several times in a tick, if
\* events are unset in their own callbacks: itimer_evt_cb reads and clears running of
\* whoever took the event meanwhile.
PoolKeeps ==
  /\ unuse = Len(free) /\ IsInjective(free)
  /\ alloc = Len(free) + Cardinality({e \in Evts : set[e] # Unset})
  /\ stray => rushed
  /\ \A e \in Evts :
       /\ Contains(free, e) => set[e] = Unset
       /\ evt[e].mgr # None => evt[e].mgr = set[e].thread
       /\ \A t \in Threads :
            batch[t] = Idle /\ set[e].thread = t /\ ~rushed =>
              set[e].calls = Called(set[e], current[t])
=============================================================================
