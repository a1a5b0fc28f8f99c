------------------------------ MODULE TimerMgr -------------------------------
(***************************************************************************)
(* The timer manager of timer/timewheel/itimer/itimer.c: periodic events   *)
(* (itimer_evt) on top of the timer core.  The core is the abstract timer  *)
(* of TimerSpec, which the wheel implements; the manager drives it one     *)
(* tick per interval and itimer_evt_cb arms it again.                      *)
(*                                                                         *)
(* One thread.  The program calls the operations when no run is in         *)
(* progress or from an event's callback (incb # None).                     *)
(***************************************************************************)
EXTENDS Integers

CONSTANTS Evts,      \* struct itimer_evt objects
          None,      \* no event
          W,         \* the number of values of an IUINT32
          CAP,       \* 0x70000000, the longest distance asked of the core
          LIMIT,     \* ITIMER_MGR_LIMIT + 64 intervals
          interval,  \* mgr->interval
          Starts,    \* time stamps the manager is initialised with
          Periods,   \* periods of the events
          Repeats,   \* repeat counts, 0 for infinite
          Stamps,    \* time stamps itimer_mgr_run is called with
          LastTick   \* bound on the ticks a manager processes

NotDue == -1
Never == -1
NoRun == -1

ASSUME MgrAssumption ==
  /\ W \in Nat /\ W > 1 /\ CAP \in 1 .. W - 1 /\ LIMIT \in Nat
  /\ interval \in 1 .. W - 1
  /\ Starts \subseteq 0 .. W - 1 /\ Stamps \subseteq 0 .. W - 1
  /\ Periods \subseteq 1 .. W - 1
  /\ Repeats \subseteq Nat
  /\ LastTick \in 1 .. W - 1
  /\ None \notin Evts

VARIABLES now, asked, due, batch,      \* the core: the variables of TimerSpec
          current, millisec, jiffies,  \* the fields of the manager
          live,                        \* the manager is initialised
          goal,                        \* the argument of the run, or NoRun
          ticking,                     \* itimer_core_run is in progress
          ok,                          \* the event is initialised
          mgr,                         \* evt->mgr # NULL
          period, slap, repeat, running,
          incb,                        \* the event whose callback is running
          count,                       \* callbacks itimer_evt_cb has to make
          began, wanted, calls         \* history: see below

core == <<now, asked, due, batch>>
manager == <<current, millisec, jiffies, live, goal, ticking>>
event == <<ok, mgr, period, slap, repeat, running>>
history == <<began, wanted, calls>>
vars == <<core, manager, event, incb, count, history>>

Core == INSTANCE TimerSpec WITH Nodes <- Evts, Wrap <- W

U32(x) == x % W
Signed(x) == IF 2 * U32(x) >= W THEN U32(x) - W ELSE U32(x)

Armed(e) == due[e] # NotDue \/ e \in batch

\* The program has the processor.
Calling == goal = NoRun \/ incb # None

------------------------------------------------------------------------------
\* Distance, in ticks, to the next time an event is to be called.
Distance(s, c) ==
  LET expires == U32(s - c + interval - 1) \div interval
  IN  IF expires >= CAP THEN CAP ELSE expires

MgrInit(ms) ==
  /\ ~live
  /\ live' = TRUE
  /\ current' = ms
  /\ millisec' = 0
  /\ jiffies' = 0
  /\ Core!Restart /\ now' = 0
  /\ UNCHANGED <<goal, ticking, event, incb, count, history>>

MgrDestroy ==
  /\ live /\ goal = NoRun
  /\ live' = FALSE
  /\ Core!DisarmAll
  /\ began' = [e \in Evts |-> Never]
  /\ UNCHANGED <<current, millisec, jiffies, goal, ticking, event, incb,
                 count, wanted, calls>>

\* The fields itimer_evt_init clears are clear in an object not initialised.
EvtInit(e) ==
  /\ Calling
  /\ ~ok[e]
  /\ ok' = [ok EXCEPT ![e] = TRUE]
  /\ UNCHANGED <<core, manager, mgr, period, slap, repeat, running, incb,
                 count, history>>

EvtDestroy(e) ==
  /\ Calling
  /\ ok[e]
  /\ Core!Disarm(e) /\ asked'[e] = 0
  /\ ok' = [ok EXCEPT ![e] = FALSE]
  /\ mgr' = [mgr EXCEPT ![e] = FALSE]
  /\ period' = [period EXCEPT ![e] = 0]
  /\ slap' = [slap EXCEPT ![e] = 0]
  /\ repeat' = [repeat EXCEPT ![e] = 0]
  /\ running' = [running EXCEPT ![e] = FALSE]
  /\ began' = [began EXCEPT ![e] = Never]
  /\ UNCHANGED <<manager, incb, count, wanted, calls>>

\* An event that is started again is stopped first.
EvtStart(e, p, r) ==
  /\ Calling /\ live
  /\ ok[e]
  /\ period' = [period EXCEPT ![e] = p]
  /\ repeat' = [repeat EXCEPT ![e] = r]
  /\ slap' = [slap EXCEPT ![e] = U32(current + p)]
  /\ mgr' = [mgr EXCEPT ![e] = TRUE]
  /\ Core!Arm(e, U32(jiffies + Distance(U32(current + p), current)))
  /\ running' = [running EXCEPT ![e] = FALSE]
  /\ began' = [began EXCEPT ![e] = jiffies]
  /\ wanted' = [wanted EXCEPT ![e] = r]
  /\ calls' = [calls EXCEPT ![e] = 0]
  /\ UNCHANGED <<manager, ok, incb, count>>

\* Mutant: the node stays linked.
EvtStop_KeepsNode(e) ==
  /\ Calling
  /\ ok[e]
  /\ mgr' = [mgr EXCEPT ![e] = FALSE]
  /\ running' = [running EXCEPT ![e] = FALSE]
  /\ began' = [began EXCEPT ![e] = Never]
  /\ UNCHANGED <<core, manager, ok, period, slap, repeat, incb, count, wanted,
                 calls>>

EvtStop(e) ==
  /\ Calling
  /\ ok[e]
  /\ IF mgr[e] THEN Core!Disarm(e) /\ asked' = asked ELSE UNCHANGED core
  /\ mgr' = [mgr EXCEPT ![e] = FALSE]
  /\ running' = [running EXCEPT ![e] = FALSE]
  /\ began' = [began EXCEPT ![e] = Never]
  /\ UNCHANGED <<manager, ok, period, slap, repeat, incb, count, wanted, calls>>

------------------------------------------------------------------------------
\* itimer_mgr_run is entered: a jump of the clock beyond LIMIT in either
\* direction is not made up for.
MgrRun(ms) ==
  /\ live /\ goal = NoRun
  /\ goal' = ms
  /\ LET diff == Signed(ms - millisec)
     IN  millisec' = IF diff > LIMIT \/ diff < -LIMIT THEN ms ELSE millisec
  /\ Signed(ms - millisec') \div interval + jiffies < LastTick
  /\ UNCHANGED <<core, current, jiffies, live, ticking, event, incb, count,
                 history>>

Ready == goal # NoRun /\ incb = None

\* The loop of itimer_mgr_run enters itimer_core_run for the tick jiffies.
CoreRun ==
  /\ Ready /\ ~ticking
  /\ Signed(goal - millisec) >= 0
  /\ Core!Advance
  /\ ticking' = TRUE
  /\ UNCHANGED <<current, millisec, jiffies, live, goal, event, incb, count,
                 history>>

\* itimer_core_run has returned: every callback of the tick was made.
CoreRan ==
  /\ Ready /\ ticking
  /\ batch = {}
  /\ ticking' = FALSE
  /\ jiffies' = U32(jiffies + 1)
  /\ current' = U32(current + interval)
  /\ millisec' = U32(millisec + interval)
  /\ UNCHANGED <<core, live, goal, event, incb, count, history>>

MgrRan ==
  /\ Ready /\ ~ticking
  /\ Signed(goal - millisec) < 0
  /\ goal' = NoRun
  /\ UNCHANGED <<core, current, millisec, jiffies, live, ticking, event, incb,
                 count, history>>

\* The loop of itimer_evt_cb: slap advances by a period per round until it is
\* ahead of current, or for a bounded event until the last call it is due.
LoopEnds(e, k) == \/ U32(slap[e] + k * period[e]) > current
                  \/ k = repeat[e]

\* Mutant: one period at a time, however many have passed.
Rounds_One(e) == {IF current < slap[e] THEN 0 ELSE 1}

\* The number of rounds, as a set: empty when the loop never ends.
Rounds(e) ==
  IF current < slap[e] THEN {0}
  ELSE {k \in 1 .. W : LoopEnds(e, k) /\ \A i \in 1 .. k - 1 : ~LoopEnds(e, i)}

Last(e, k) == k > 0 /\ k = repeat[e]

\* evt->repeat after k rounds: 1 is the last call, 0 is infinite.
RepeatLeft(r, k) == IF r > k THEN r - k ELSE IF r > 1 THEN 1 ELSE r

\* itimer_evt_cb up to its callbacks: the next call is armed first.
EvtCb(e) ==
  /\ Ready /\ ticking
  /\ e \in batch
  /\ \E k \in Rounds(e) :
     LET stop == Last(e, k)
         next == U32(slap[e] + k * period[e])
     IN  /\ slap' = [slap EXCEPT ![e] = next]
         /\ repeat' = [repeat EXCEPT ![e] = RepeatLeft(@, k)]
         /\ IF stop THEN Core!Disarm(e) /\ asked' = asked
            ELSE Core!Arm(e, U32(jiffies + Distance(next, current)))
         /\ mgr' = [mgr EXCEPT ![e] = ~stop]
         /\ running' = [running EXCEPT ![e] = k > 0]
         /\ count' = k
         /\ incb' = IF k > 0 THEN e ELSE None
         /\ calls' = [calls EXCEPT ![e] = @ + IF k > 0 THEN 1 ELSE 0]
         /\ began' = [began EXCEPT ![e] = IF stop THEN Never ELSE @]
  /\ UNCHANGED <<manager, ok, period, wanted>>

\* Mutant: the calls are not counted down.
EvtReturn_NoCount ==
  /\ incb # None
  /\ IF count > 1 /\ running[incb]
     THEN UNCHANGED <<incb, count, calls, running>>
     ELSE /\ count' = 0
          /\ incb' = None
          /\ running' = [running EXCEPT ![incb] = FALSE]
          /\ UNCHANGED calls
  /\ UNCHANGED <<core, manager, ok, mgr, period, slap, repeat, began, wanted>>

\* A callback returns; the next is made unless the event was stopped,
\* started or destroyed meanwhile.
EvtReturn ==
  /\ incb # None
  /\ IF count > 1 /\ running[incb]
     THEN /\ count' = count - 1
          /\ calls' = [calls EXCEPT ![incb] = @ + 1]
          /\ UNCHANGED <<incb, running>>
     ELSE /\ count' = 0
          /\ incb' = None
          /\ running' = [running EXCEPT ![incb] = FALSE]
          /\ UNCHANGED calls
  /\ UNCHANGED <<core, manager, ok, mgr, period, slap, repeat, began, wanted>>

------------------------------------------------------------------------------
Init ==
  /\ Core!Init /\ now = 0
  /\ current = 0 /\ millisec = 0 /\ jiffies = 0
  /\ live = FALSE
  /\ goal = NoRun /\ ticking = FALSE
  /\ ok = [e \in Evts |-> FALSE]
  /\ mgr = [e \in Evts |-> FALSE]
  /\ period = [e \in Evts |-> 0]
  /\ slap = [e \in Evts |-> 0]
  /\ repeat = [e \in Evts |-> 0]
  /\ running = [e \in Evts |-> FALSE]
  /\ incb = None /\ count = 0
  /\ began = [e \in Evts |-> Never]
  /\ wanted = [e \in Evts |-> 0]
  /\ calls = [e \in Evts |-> 0]

Running == CoreRun \/ CoreRan \/ MgrRan \/ EvtReturn
             \/ \E e \in Evts : EvtCb(e)

Next ==
  \/ \E ms \in Starts : MgrInit(ms)
  \/ MgrDestroy
  \/ \E e \in Evts : EvtInit(e) \/ EvtDestroy(e) \/ EvtStop(e)
  \/ \E e \in Evts, p \in Periods, r \in Repeats : EvtStart(e, p, r)
  \/ \E ms \in Stamps : MgrRun(ms)
  \/ Running

Spec == Init /\ [][Next]_vars

\* The thread in itimer_mgr_run keeps running, and every callback returns.
FairSpec == Spec /\ WF_vars(Running)

------------------------------------------------------------------------------
Ticks == 0 .. W - 1

TypeOK ==
  /\ due \in [Evts -> Ticks \cup {NotDue}] /\ batch \subseteq Evts
  /\ now \in Ticks /\ asked \in [Evts -> Ticks]
  /\ current \in Ticks /\ millisec \in Ticks /\ jiffies \in Ticks
  /\ goal \in Ticks \cup {NoRun}
  /\ live \in BOOLEAN /\ ticking \in BOOLEAN
  /\ ok \in [Evts -> BOOLEAN] /\ mgr \in [Evts -> BOOLEAN]
  /\ period \in [Evts -> Ticks] /\ slap \in [Evts -> Ticks]
  /\ repeat \in [Evts -> Nat] /\ running \in [Evts -> BOOLEAN]
  /\ incb \in Evts \cup {None} /\ count \in Nat
  /\ began \in [Evts -> Ticks \cup {Never}]
  /\ wanted \in [Evts -> Nat] /\ calls \in [Evts -> Nat]

\* itimer_evt_cb dereferences evt->mgr: an event whose node is linked is
\* initialised and has its manager, and a started event is never dropped by
\* anything but itimer_evt_stop, its last call or the end of the manager.
MgrWhileArmed ==
  \A e \in Evts : /\ Armed(e) => ok[e] /\ mgr[e] /\ live
                  /\ began[e] # Never => Armed(e)

\* Periods e has completed when the tick t is processed.
Elapsed(e, t) == ((t - began[e]) * interval) \div period[e]

\* An event with a repeat count is called exactly that often: what was
\* called, what itimer_evt_cb still has to call and what it has armed add up.
RepeatsExact ==
  \A e \in Evts : wanted[e] > 0 =>
    LET pending == IF incb = e /\ running[e] THEN count - 1 ELSE 0
    IN  /\ calls[e] + pending <= wanted[e]
        /\ began[e] # Never => calls[e] + pending + repeat[e] = wanted[e]
        /\ incb = e /\ running[e] /\ ~mgr[e] => calls[e] + pending = wanted[e]

\* No drift and no lost period: after every tick an event has been called
\* once for each period completed since it was started, although the tick is
\* coarser than a period or does not divide it, and never before; and no more
\* often than its repeat count says.
OnTime ==
  /\ RepeatsExact
  /\ \A e \in Evts : began[e] # Never =>
       IF ticking THEN calls[e] <= Elapsed(e, jiffies)
       ELSE calls[e] = IF began[e] = jiffies THEN 0 ELSE Elapsed(e, jiffies - 1)

\* itimer_mgr_run returns, whatever its callbacks start and stop.
RunEnds == (goal # NoRun) ~> (goal = NoRun)
==============================================================================
