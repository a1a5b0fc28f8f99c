--------------------------- MODULE TimerMgr_proofs ---------------------------
(***************************************************************************)
(* For any events, intervals, periods and repeat counts: an event whose    *)
(* node is linked has its manager, an event with a repeat count is called  *)
(* exactly that often, and, while no counter wraps, an event is called     *)
(* once for every period that passed.                                      *)
(***************************************************************************)
EXTENDS TimerMgr, TLAPS

------------------------------------------------------------------------------
(* Quotients and remainders by numbers whose value is not known. *)

\* The quotient and the remainder of a number.
LEMMA DivMod ==
  ASSUME NEW d \in Nat, d > 0, NEW x \in Int
  PROVE  x % d \in 0 .. d - 1 /\ x \div d \in Int /\ x = d * (x \div d) + (x % d)
OBVIOUS

\* There is one remainder.
LEMMA Remainder ==
  ASSUME NEW d \in Nat, d > 0, NEW q \in Int, NEW r \in 0 .. d - 1, NEW x \in Int, x = d * q + r
  PROVE  x % d = r
OBVIOUS

\* A number below w, and one step further.
LEMMA NextIs ==
  ASSUME NEW w \in Nat, w > 0, NEW x \in 0 .. w - 1
  PROVE  /\ x % w = x
         /\ (x + 1) % w = IF x + 1 = w THEN 0 ELSE x + 1
<1>1. x = w * 0 + x  OBVIOUS
<1>2. x % w = x  BY <1>1, Remainder
<1>3. CASE x + 1 = w
  <2>1. x + 1 = w * 1 + 0 /\ 0 \in 0 .. w - 1  BY <1>3
  <2> QED  BY <1>2, <1>3, <2>1, Remainder
<1>4. CASE x + 1 # w
  <2>1. x + 1 \in 0 .. w - 1 /\ x + 1 = w * 0 + (x + 1)  BY <1>4
  <2> QED  BY <1>2, <1>4, <2>1, Remainder
<1> QED  BY <1>3, <1>4

\* A difference modulo d, what is subtracted reduced first.
LEMMA WrapSub ==
  ASSUME NEW d \in Nat, d > 0, NEW x \in Int, NEW k \in Int
  PROVE  (k - (x % d)) % d = (k - x) % d
<1>1. PICK q \in Int, r \in 0 .. d - 1 : x = d * q + r /\ r = x % d  BY DivMod
<1>2. PICK y \in Int : y = k - r  OBVIOUS
<1>3. PICK p \in Int, s \in 0 .. d - 1 : y = d * p + s /\ s = y % d  BY DivMod
<1>4. PICK dp \in Int, dq \in Int : dp = d * p /\ dq = d * q  OBVIOUS
<1>5. PICK z \in Int : z = k - x  OBVIOUS
<1>6. z = dp - dq + s
  <2>1. x = dq + r  BY <1>1, <1>4
  <2>2. y = dp + s  BY <1>3, <1>4
  <2> QED  BY <1>2, <1>5, <2>1, <2>2
<1>7. PICK c \in Int : c = p - q  OBVIOUS
<1>8. d * c = d * p - d * q  BY <1>7
<1>9. z = d * c + s  BY <1>4, <1>6, <1>8
<1>10. z % d = s  BY <1>9, Remainder
<1> QED  BY <1>1, <1>2, <1>3, <1>5, <1>10

\* Neither property is inductive alone.  The nodes of a tick are left only when
\* all were called, so none is when the manager is destroyed; an event is armed
\* exactly from its start to its stop, last call or destruction; and while it is,
\* a bounded event has a call left.
Phases ==
  /\ batch # {} => ticking
  /\ ticking => goal # NoRun
  /\ incb # None => ticking /\ count >= 1

Started ==
  \A e \in Evts : /\ Armed(e) <=> began[e] # Never
                  /\ Armed(e) => ok[e] /\ mgr[e] /\ live
                  /\ Armed(e) /\ wanted[e] > 0 => repeat[e] > 0

\* Calls itimer_evt_cb still has to make.
Pending(e) == IF incb = e /\ running[e] THEN count - 1 ELSE 0

\* The three parts of RepeatsExact for one event, from its own fields.
Exact(w, c, p, r, armed, last) ==
  w > 0 => /\ c + p <= w
           /\ armed => c + p + r = w
           /\ last => c + p = w

Counted ==
  \A e \in Evts : Exact(wanted[e], calls[e], Pending(e), repeat[e], began[e] # Never,
                        incb = e /\ running[e] /\ ~mgr[e])

IInv == TypeOK /\ Phases /\ Started /\ Counted

\* The clock of a live manager has not wrapped around: it has not been run for
\* more than LastTick ticks, and every time stamp and slap of them is below W.
NoWrap ==
  \A ms \in Starts, p \in Periods \cup {0} : ms + (LastTick + 1) * interval + p <= W

\* The core and the manager keep step, and a run ends by LastTick.
Clock ==
  /\ goal # NoRun => live
  /\ jiffies <= LastTick
  /\ goal # NoRun /\ Signed(goal - millisec) >= 0 =>
       Signed(goal - millisec) \div interval + jiffies < LastTick
  /\ ticking => Signed(goal - millisec) >= 0
  /\ live => /\ now = IF ticking THEN jiffies + 1 ELSE jiffies
             /\ jiffies <= current
             /\ \A p \in Periods \cup {0} :
                  current + (LastTick - jiffies + 1) * interval + p <= W

\* s is the time stamp of the n-th call of an event of period p that was started
\* t ticks before the manager's clock was at c.
OnSchedule(s, c, t, n, p) == s = c - t * interval + n * p

\* The last time stamp at which a tick looked for e.
Seen(e) == IF ticking \/ began[e] = jiffies THEN current ELSE current - interval

\* A started event is armed for a tick that is not past and at which slap has not
\* come a whole tick before; slap is the first call that was not made.
Planned(e) ==
  /\ period[e] \in Periods
  /\ began[e] <= jiffies
  /\ OnSchedule(slap[e], current, jiffies - began[e], calls[e] + Pending(e) + 1, period[e])
  /\ slap[e] <= Seen(e) + period[e]
  /\ due[e] # NotDue => /\ due[e] >= now
                        /\ slap[e] > current + (due[e] - 1 - jiffies) * interval

Scheduled == \A e \in Evts : began[e] # Never => Planned(e)

\* Arithmetic on ticks stays in the 32 bits of an IUINT32.
LEMMA U32Type ==
  ASSUME NEW x \in Int
  PROVE  U32(x) \in Ticks
<1>1. x % W \in 0 .. W - 1  BY MgrAssumption, DivMod
<1> QED  BY <1>1 DEF U32, Ticks

\* The marks are not ticks.
LEMMA Marks ==
  /\ Never \notin Ticks /\ NotDue \notin Ticks /\ NoRun \notin Ticks /\ 0 \in Ticks
  /\ Ticks \subseteq Int /\ Ticks \subseteq Nat
BY MgrAssumption DEF Never, NotDue, NoRun, Ticks

\* What the operations of the core do to an event.
LEMMA CoreIs ==
  ASSUME TypeOK
  PROVE  /\ \A e \in Evts, t \in Ticks : Core!Arm(e, t) =>
              /\ asked' \in [Evts -> Ticks] /\ now' \in Ticks /\ due' \in [Evts -> Ticks \cup {NotDue}]
              /\ batch' = batch \ {e}
              /\ Armed(e)' /\ \A f \in Evts : f # e => (Armed(f)' <=> Armed(f))
         /\ \A e \in Evts : Core!Disarm(e) =>
              /\ asked' \in [Evts -> Ticks] /\ now' \in Ticks /\ due' \in [Evts -> Ticks \cup {NotDue}]
              /\ batch' = batch \ {e}
              /\ ~Armed(e)' /\ \A f \in Evts : f # e => (Armed(f)' <=> Armed(f))
         /\ Core!Advance =>
              /\ asked' \in [Evts -> Ticks] /\ now' \in Ticks /\ due' \in [Evts -> Ticks \cup {NotDue}]
              /\ batch' \subseteq Evts
              /\ \A f \in Evts : Armed(f)' <=> Armed(f)
<1> USE Marks DEF TypeOK
<1>1. ASSUME NEW e \in Evts, NEW t \in Ticks, Core!Arm(e, t)
      PROVE  /\ asked' \in [Evts -> Ticks] /\ now' \in Ticks /\ due' \in [Evts -> Ticks \cup {NotDue}]
             /\ batch' = batch \ {e}
             /\ Armed(e)' /\ \A f \in Evts : f # e => (Armed(f)' <=> Armed(f))
  <2>1. PICK d \in Ticks : due' = [due EXCEPT ![e] = d]  BY <1>1 DEF Core!Arm
  <2> QED  BY <1>1, <2>1 DEF Core!Arm, Armed
<1>2. ASSUME NEW e \in Evts, Core!Disarm(e)
      PROVE  /\ asked' \in [Evts -> Ticks] /\ now' \in Ticks /\ due' \in [Evts -> Ticks \cup {NotDue}]
             /\ batch' = batch \ {e}
             /\ ~Armed(e)' /\ \A f \in Evts : f # e => (Armed(f)' <=> Armed(f))
  BY <1>2 DEF Core!Disarm, Armed
<1>3. ASSUME Core!Advance
      PROVE  /\ asked' \in [Evts -> Ticks] /\ now' \in Ticks /\ due' \in [Evts -> Ticks \cup {NotDue}]
             /\ batch' \subseteq Evts
             /\ \A f \in Evts : Armed(f)' <=> Armed(f)
  <2>1. now' \in Ticks
    <3>1. now + 1 \in Int  OBVIOUS
    <3> QED  BY <1>3, <3>1, U32Type DEF Core!Advance, U32
  <2>2. batch = {} /\ batch' = {f \in Evts : due[f] = now}
        /\ due' = [f \in Evts |-> IF due[f] = now THEN NotDue ELSE due[f]] /\ asked' = asked
    BY <1>3 DEF Core!Advance
  <2> QED  BY <2>1, <2>2 DEF Armed
<1> QED  BY <1>1, <1>2, <1>3

\* The loop of itimer_evt_cb makes at least no and at most repeat[e] rounds.
LEMMA RoundsAre ==
  ASSUME TypeOK, NEW e \in Evts, NEW k \in Rounds(e)
  PROVE  k \in Nat /\ (repeat[e] > 0 => k <= repeat[e])
<1>1. repeat[e] \in Nat /\ W \in Nat  BY MgrAssumption DEF TypeOK
<1>2. k = 0 \/ (k \in 1 .. W /\ \A i \in 1 .. k - 1 : i # repeat[e])
  BY DEF Rounds, LoopEnds
<1> QED  BY <1>1, <1>2

\* The distance to the next call is a number.
LEMMA DistanceType ==
  ASSUME NEW s \in Ticks, NEW c \in Ticks
  PROVE  Distance(s, c) \in Int
<1>1. interval \in Nat /\ interval > 0 /\ CAP \in Int  BY MgrAssumption
<1>2. PICK x \in Int : x = U32(s - c + interval - 1)
  <2>1. s - c + interval - 1 \in Int  BY <1>1, Marks
  <2> QED  BY <2>1, U32Type, Marks
<1>3. x \div interval \in Int  BY <1>1, DivMod
<1> QED  BY <1>1, <1>2, <1>3 DEF Distance

\* What the runs check follows.
LEMMA Implied == IInv => MgrWhileArmed /\ RepeatsExact
<1> SUFFICES ASSUME IInv PROVE MgrWhileArmed /\ RepeatsExact  OBVIOUS
<1>1. MgrWhileArmed  BY DEF IInv, Started, MgrWhileArmed
<1>2. RepeatsExact
  BY DEF IInv, Counted, Exact, Pending, RepeatsExact
<1> QED  BY <1>1, <1>2

\* Init establishes the invariant.
LEMMA InitIInv == Init => IInv
<1> SUFFICES ASSUME Init PROVE IInv  OBVIOUS
<1> USE Marks
<1>1. /\ now = 0 /\ asked = [e \in Evts |-> 0] /\ due = [e \in Evts |-> NotDue] /\ batch = {}
  BY DEF Init, Core!Init
<1>2. TypeOK  BY <1>1 DEF Init, TypeOK
<1>3. \A e \in Evts : ~Armed(e)  BY <1>1 DEF Armed
<1>4. Phases /\ Started  BY <1>1, <1>3 DEF Init, Phases, Started
<1>5. Counted  BY DEF Init, Counted, Exact
<1> QED  BY <1>2, <1>4, <1>5 DEF IInv

\* A step that leaves what is counted alone.
LEMMA CountedSame ==
  ASSUME Counted, UNCHANGED <<began, wanted, calls, repeat, running, incb, count, mgr>>
  PROVE  Counted'
BY DEF Counted, Exact, Pending

\* An event is initialised.
LEMMA EvtInitInv ==
  ASSUME IInv, NEW e \in Evts, EvtInit(e)
  PROVE  IInv'
<1>1. TypeOK'  BY DEF IInv, TypeOK, EvtInit, core, manager, history
<1>2. Phases'  BY DEF IInv, Phases, EvtInit, core, manager
<1>3. Started'  BY DEF IInv, TypeOK, Started, Armed, EvtInit, core, manager, history
<1>4. Counted'  BY CountedSame DEF IInv, EvtInit, history
<1> QED  BY <1>1, <1>2, <1>3, <1>4 DEF IInv

\* An event is no longer called: what it is still counted for is unchanged.
LEMMA StoppedCounted ==
  ASSUME IInv, NEW e \in Evts,
         running' = [running EXCEPT ![e] = FALSE], began' = [began EXCEPT ![e] = Never],
         \A f \in Evts : f # e => repeat'[f] = repeat[f] /\ mgr'[f] = mgr[f],
         UNCHANGED <<incb, count, wanted, calls>>
  PROVE  Counted'
<1>1. TypeOK /\ Phases /\ Counted  BY DEF IInv
<1>2. ASSUME NEW f \in Evts
      PROVE  Exact(wanted'[f], calls'[f], Pending(f)', repeat'[f], began'[f] # Never,
                   incb' = f /\ running'[f] /\ ~mgr'[f])
  <2>1. Exact(wanted[f], calls[f], Pending(f), repeat[f], began[f] # Never,
              incb = f /\ running[f] /\ ~mgr[f])
    BY <1>1 DEF Counted
  <2>2. CASE f = e
    <3>1. began'[f] = Never /\ ~running'[f] /\ Pending(f)' = 0
      BY <1>1, <2>2 DEF TypeOK, Pending
    <3>2. Pending(f) >= 0 /\ Pending(f) \in Int
      <4>1. count \in Nat /\ (incb = f => count >= 1)
        BY <1>1, MgrAssumption DEF Phases, TypeOK
      <4> QED  BY <4>1 DEF Pending
    <3>3. calls[f] \in Nat /\ wanted[f] \in Nat  BY <1>1 DEF TypeOK
    <3>4. wanted[f] > 0 => calls[f] + 0 <= wanted[f]  BY <2>1, <3>2, <3>3 DEF Exact
    <3> QED  BY <3>1, <3>4 DEF Exact
  <2>3. CASE f # e
    <3>1. began'[f] = began[f] /\ running'[f] = running[f] /\ Pending(f)' = Pending(f)
      BY <1>1, <2>3 DEF TypeOK, Pending
    <3> QED  BY <2>1, <2>3, <3>1
  <2> QED  BY <2>2, <2>3
<1> QED  BY <1>2 DEF Counted

\* An event is destroyed: its node is unlinked.
LEMMA EvtDestroyInv ==
  ASSUME IInv, NEW e \in Evts, EvtDestroy(e)
  PROVE  IInv'
<1>1. TypeOK /\ Phases /\ Started /\ Counted  BY DEF IInv
<1>2. /\ ~Armed(e)' /\ \A f \in Evts : f # e => (Armed(f)' <=> Armed(f))
      /\ asked' \in [Evts -> Ticks] /\ now' \in Ticks /\ due' \in [Evts -> Ticks \cup {NotDue}]
      /\ batch' = batch \ {e}
  BY <1>1, CoreIs DEF EvtDestroy
<1>3. TypeOK'  BY <1>1, <1>2, Marks DEF TypeOK, EvtDestroy, manager
<1>4. Phases'  BY <1>1, <1>2 DEF Phases, EvtDestroy, manager
<1>5. Started'  BY <1>1, <1>2 DEF Started, TypeOK, EvtDestroy, manager
<1>6. Counted'  BY <1>1, StoppedCounted DEF EvtDestroy, TypeOK
<1> QED  BY <1>3, <1>4, <1>5, <1>6 DEF IInv

\* An event is stopped: without a manager its node was not linked.
LEMMA EvtStopInv ==
  ASSUME IInv, NEW e \in Evts, EvtStop(e)
  PROVE  IInv'
<1>1. TypeOK /\ Phases /\ Started /\ Counted  BY DEF IInv
<1>2. /\ ~Armed(e)' /\ \A f \in Evts : f # e => (Armed(f)' <=> Armed(f))
      /\ asked' \in [Evts -> Ticks] /\ now' \in Ticks /\ due' \in [Evts -> Ticks \cup {NotDue}]
      /\ batch' \subseteq batch
  <2>1. CASE mgr[e]  BY <1>1, <2>1, CoreIs DEF EvtStop
  <2>2. CASE ~mgr[e]
    <3>1. ~Armed(e) /\ UNCHANGED core  BY <1>1, <2>2 DEF Started, EvtStop
    <3> QED  BY <1>1, <3>1 DEF TypeOK, Armed, core
  <2> QED  BY <2>1, <2>2
<1>3. TypeOK'  BY <1>1, <1>2 DEF TypeOK, EvtStop, manager
<1>4. Phases'  BY <1>1, <1>2 DEF Phases, EvtStop, manager
<1>5. Started'  BY <1>1, <1>2 DEF Started, TypeOK, EvtStop, manager
<1>6. Counted'  BY <1>1, StoppedCounted DEF EvtStop, TypeOK
<1> QED  BY <1>3, <1>4, <1>5, <1>6 DEF IInv

\* An event is started, or started again: all its calls are to be made.
LEMMA EvtStartInv ==
  ASSUME IInv, NEW e \in Evts, NEW p \in Periods, NEW r \in Repeats, EvtStart(e, p, r)
  PROVE  IInv'
<1>1. TypeOK /\ Phases /\ Started /\ Counted  BY DEF IInv
<1>2. /\ current \in Ticks /\ jiffies \in Ticks /\ p \in Ticks /\ r \in Nat
      /\ current \in Int /\ jiffies \in Int /\ p \in Int
  BY <1>1, MgrAssumption, Marks DEF TypeOK, Ticks
<1>3. U32(current + p) \in Ticks
  <2>1. current + p \in Int  BY <1>2
  <2> QED  BY <2>1, U32Type
<1>4. U32(jiffies + Distance(U32(current + p), current)) \in Ticks
  <2>1. Distance(U32(current + p), current) \in Int  BY <1>2, <1>3, DistanceType
  <2>2. jiffies + Distance(U32(current + p), current) \in Int  BY <1>2, <2>1
  <2> QED  BY <2>2, U32Type
<1>5. /\ Armed(e)' /\ \A f \in Evts : f # e => (Armed(f)' <=> Armed(f))
      /\ asked' \in [Evts -> Ticks] /\ now' \in Ticks /\ due' \in [Evts -> Ticks \cup {NotDue}]
      /\ batch' = batch \ {e}
  BY <1>1, <1>4, CoreIs DEF EvtStart
<1>6. TypeOK'  BY <1>1, <1>2, <1>3, <1>5, Marks DEF TypeOK, EvtStart, manager
<1>7. Phases'  BY <1>1, <1>5 DEF Phases, EvtStart, manager
<1>8. Started'
  <2>1. jiffies # Never  BY <1>2, Marks
  <2> QED  BY <1>1, <1>2, <1>5, <2>1 DEF Started, TypeOK, EvtStart, manager
<1>9. Counted'
  <2>1. ASSUME NEW f \in Evts
        PROVE  Exact(wanted'[f], calls'[f], Pending(f)', repeat'[f], began'[f] # Never,
                     incb' = f /\ running'[f] /\ ~mgr'[f])
    <3>1. CASE f = e
      <4>1. wanted'[f] = r /\ repeat'[f] = r /\ calls'[f] = 0 /\ ~running'[f]
        BY <1>1, <3>1 DEF TypeOK, EvtStart
      <4>2. Pending(f)' = 0  BY <4>1 DEF Pending
      <4>3. 0 + 0 <= r /\ 0 + 0 + r = r  BY <1>2
      <4> QED  BY <4>1, <4>2, <4>3 DEF Exact
    <3>2. CASE f # e
      <4>1. Pending(f)' = Pending(f)  BY <1>1, <3>2 DEF TypeOK, EvtStart, Pending
      <4> QED  BY <1>1, <3>2, <4>1 DEF Counted, TypeOK, EvtStart
    <3> QED  BY <3>1, <3>2
  <2> QED  BY <2>1 DEF Counted
<1> QED  BY <1>6, <1>7, <1>8, <1>9 DEF IInv

\* itimer_evt_cb: the rounds made are calls still to make, the rest is left.
LEMMA EvtCbInv ==
  ASSUME IInv, NEW e \in Evts, EvtCb(e)
  PROVE  IInv'
<1>1. TypeOK /\ Phases /\ Started /\ Counted  BY DEF IInv
<1> DEFINE next(k) == U32(slap[e] + k * period[e])
<1>2. PICK k \in Rounds(e) :
        /\ slap' = [slap EXCEPT ![e] = next(k)]
        /\ repeat' = [repeat EXCEPT ![e] = RepeatLeft(@, k)]
        /\ IF Last(e, k) THEN Core!Disarm(e) /\ asked' = asked
           ELSE Core!Arm(e, U32(jiffies + Distance(next(k), current)))
        /\ mgr' = [mgr EXCEPT ![e] = ~Last(e, k)]
        /\ running' = [running EXCEPT ![e] = k > 0]
        /\ count' = k
        /\ incb' = IF k > 0 THEN e ELSE None
        /\ calls' = [calls EXCEPT ![e] = @ + IF k > 0 THEN 1 ELSE 0]
        /\ began' = [began EXCEPT ![e] = IF Last(e, k) THEN Never ELSE @]
  BY DEF EvtCb
<1>3. k \in Nat /\ (repeat[e] > 0 => k <= repeat[e])  BY <1>1, RoundsAre
<1>4. next(k) \in Ticks
  <2>1. slap[e] \in Nat /\ period[e] \in Nat  BY <1>1, Marks DEF TypeOK
  <2>2. slap[e] + k * period[e] \in Int  BY <1>3, <2>1
  <2> QED  BY <2>2, U32Type
<1> HIDE DEF next
<1>5. U32(jiffies + Distance(next(k), current)) \in Ticks
  <2>1. current \in Ticks /\ jiffies \in Int  BY <1>1, Marks DEF TypeOK
  <2>2. Distance(next(k), current) \in Int  BY <1>4, <2>1, DistanceType
  <2>3. jiffies + Distance(next(k), current) \in Int  BY <2>1, <2>2
  <2> QED  BY <2>3, U32Type
<1>6. /\ Armed(e)' <=> ~Last(e, k)
      /\ \A f \in Evts : f # e => (Armed(f)' <=> Armed(f))
      /\ asked' \in [Evts -> Ticks] /\ now' \in Ticks /\ due' \in [Evts -> Ticks \cup {NotDue}]
      /\ batch' = batch \ {e}
  <2>1. CASE Last(e, k)  BY <1>1, <1>2, <2>1, CoreIs
  <2>2. CASE ~Last(e, k)  BY <1>1, <1>2, <1>5, <2>2, CoreIs
  <2> QED  BY <2>1, <2>2
<1>7. /\ Ready /\ ticking /\ UNCHANGED <<manager, ok, period, wanted>> /\ incb = None
      /\ e \in batch /\ Armed(e)
  BY DEF EvtCb, Ready, Armed
<1>8. /\ repeat[e] \in Nat /\ calls[e] \in Nat /\ wanted[e] \in Nat
      /\ RepeatLeft(repeat[e], k) \in Nat
  BY <1>1, <1>3 DEF TypeOK, RepeatLeft
<1>9. TypeOK'
  <2>1. calls[e] + (IF k > 0 THEN 1 ELSE 0) \in Nat  BY <1>8
  <2>2. slap' \in [Evts -> Ticks] /\ mgr' \in [Evts -> BOOLEAN]
    BY <1>1, <1>2, <1>4 DEF TypeOK
  <2>3. repeat' \in [Evts -> Nat]  BY <1>1, <1>2, <1>8 DEF TypeOK
  <2>4. calls' \in [Evts -> Nat]  BY <1>1, <1>2, <2>1 DEF TypeOK
  <2>5. running' \in [Evts -> BOOLEAN] /\ began' \in [Evts -> Ticks \cup {Never}]
    BY <1>1, <1>2 DEF TypeOK
  <2>6. count' \in Nat /\ incb' \in Evts \cup {None}  BY <1>2, <1>3
  <2>7. batch' \subseteq Evts  BY <1>1, <1>6 DEF TypeOK
  <2> QED  BY <1>1, <1>6, <1>7, <2>2, <2>3, <2>4, <2>5, <2>6, <2>7 DEF TypeOK, manager
<1>10. Phases'  BY <1>1, <1>2, <1>3, <1>6, <1>7 DEF Phases, manager, Ready
<1>11. Last(e, k) <=> k > 0 /\ k = repeat[e]  BY DEF Last
<1>12. ~Last(e, k) /\ wanted[e] > 0 => RepeatLeft(repeat[e], k) > 0
  <2>1. wanted[e] > 0 => repeat[e] > 0  BY <1>1, <1>7 DEF Started
  <2> QED  BY <1>3, <1>8, <1>11, <2>1 DEF RepeatLeft
<1>13. Started'
  <2>1. ok[e] /\ live /\ began[e] # Never  BY <1>1, <1>7 DEF Started
  <2>2. /\ mgr'[e] <=> ~Last(e, k)
        /\ began'[e] = IF Last(e, k) THEN Never ELSE began[e]
        /\ repeat'[e] = RepeatLeft(repeat[e], k)
    BY <1>1, <1>2 DEF TypeOK
  <2>3. ok' = ok /\ live' = live /\ wanted' = wanted  BY <1>7 DEF manager
  <2>4. ASSUME NEW f \in Evts, f # e
        PROVE  mgr'[f] = mgr[f] /\ began'[f] = began[f] /\ repeat'[f] = repeat[f]
    BY <1>1, <1>2, <2>4 DEF TypeOK
  <2> QED  BY <1>1, <1>6, <1>12, <2>1, <2>2, <2>3, <2>4 DEF Started
<1>14. Counted'
  <2>1. ASSUME NEW f \in Evts
        PROVE  Exact(wanted'[f], calls'[f], Pending(f)', repeat'[f], began'[f] # Never,
                     incb' = f /\ running'[f] /\ ~mgr'[f])
    <3>0. incb # f  BY <1>1, <1>7, MgrAssumption
    <3>1. Exact(wanted[f], calls[f], 0, repeat[f], began[f] # Never, FALSE)
      BY <1>1, <3>0 DEF Counted, Pending
    <3>2. CASE f = e
      <4>1. wanted[e] > 0 => /\ calls[e] + 0 + repeat[e] = wanted[e]
                             /\ calls[e] + 0 <= wanted[e] /\ repeat[e] > 0
        BY <1>1, <1>7, <3>1, <3>2 DEF Exact, Started
      <4>2. /\ wanted'[e] = wanted[e] /\ calls'[e] = calls[e] + (IF k > 0 THEN 1 ELSE 0)
            /\ repeat'[e] = RepeatLeft(repeat[e], k) /\ (running'[e] <=> k > 0)
            /\ (mgr'[e] <=> ~Last(e, k))
            /\ began'[e] = IF Last(e, k) THEN Never ELSE began[e]
        BY <1>1, <1>2, <1>7 DEF TypeOK
      <4>3. Pending(e)' = IF k > 0 THEN k - 1 ELSE 0
        BY <1>2, <4>2 DEF Pending
      <4>4. CASE k = 0
        <5>1. /\ ~running'[e] /\ calls'[e] = calls[e] /\ Pending(e)' = 0
              /\ began'[e] = began[e] /\ (repeat'[e] = repeat[e] \/ ~(wanted[e] > 0))
          BY <1>3, <1>8, <1>11, <4>1, <4>2, <4>3, <4>4 DEF RepeatLeft
        <5> QED  BY <1>8, <3>1, <3>2, <4>1, <4>2, <4>4, <4>3, <5>1 DEF Exact
      <4>5. CASE k > 0 /\ wanted[e] > 0
        <5>1. k <= repeat[e]  BY <1>3, <4>1, <4>5
        <5>2. calls'[e] + Pending(e)' = calls[e] + k
          BY <1>3, <1>8, <4>2, <4>3, <4>5
        <5>3. calls'[e] + Pending(e)' <= wanted[e]
          BY <1>3, <1>8, <4>1, <4>5, <5>1, <5>2
        <5>4. Last(e, k) => calls'[e] + Pending(e)' = wanted[e]
          BY <1>3, <1>8, <1>11, <4>1, <4>5, <5>2
        <5>5. ~Last(e, k) => calls'[e] + Pending(e)' + repeat'[e] = wanted[e]
          BY <1>3, <1>8, <1>11, <4>1, <4>2, <4>5, <5>1, <5>2 DEF RepeatLeft
        <5> QED  BY <3>2, <4>2, <5>3, <5>4, <5>5 DEF Exact
      <4>6. CASE ~(wanted[e] > 0)  BY <3>2, <4>2, <4>6 DEF Exact
      <4> QED  BY <1>3, <4>4, <4>5, <4>6
    <3>3. CASE f # e
      <4>1. /\ wanted'[f] = wanted[f] /\ calls'[f] = calls[f] /\ repeat'[f] = repeat[f]
            /\ began'[f] = began[f]
        BY <1>1, <1>2, <1>7, <3>3 DEF TypeOK
      <4>2. incb' # f  BY <1>2, <3>3, MgrAssumption
      <4>3. Pending(f)' = 0  BY <4>2 DEF Pending
      <4> QED  BY <3>1, <4>1, <4>2, <4>3
    <3> QED  BY <3>2, <3>3
  <2> QED  BY <2>1 DEF Counted
<1> QED  BY <1>9, <1>10, <1>13, <1>14 DEF IInv

\* A callback returns: a call still to make has become a call made, or the
\* event was stopped, started or destroyed meanwhile.
LEMMA EvtReturnInv ==
  ASSUME IInv, EvtReturn
  PROVE  IInv'
<1>1. TypeOK /\ Phases /\ Started /\ Counted  BY DEF IInv
<1>2. /\ UNCHANGED <<core, manager, ok, mgr, period, slap, repeat, began, wanted>>
      /\ incb \in Evts /\ count \in Nat /\ count >= 1 /\ calls[incb] \in Nat
  BY <1>1 DEF EvtReturn, TypeOK, Phases
<1>3. \A f \in Evts : Armed(f)' <=> Armed(f)  BY <1>2 DEF Armed, core
<1>4. CASE count > 1 /\ running[incb]
  <2>1. /\ count' = count - 1 /\ calls' = [calls EXCEPT ![incb] = @ + 1]
        /\ UNCHANGED <<incb, running>>
    BY <1>4 DEF EvtReturn
  <2>2. count' \in Nat /\ count' >= 1  BY <1>2, <1>4, <2>1
  <2>3. calls' \in [Evts -> Nat]  BY <1>1, <1>2, <2>1 DEF TypeOK
  <2>4. TypeOK'  BY <1>1, <1>2, <2>1, <2>2, <2>3 DEF TypeOK, core, manager
  <2>5. Phases' /\ Started'
    BY <1>1, <1>2, <1>3, <2>1, <2>2 DEF Phases, Started, core, manager
  <2>6. Counted'
    <3>1. ASSUME NEW f \in Evts
          PROVE  Exact(wanted'[f], calls'[f], Pending(f)', repeat'[f], began'[f] # Never,
                       incb' = f /\ running'[f] /\ ~mgr'[f])
      <4>1. calls'[f] + Pending(f)' = calls[f] + Pending(f) /\ calls[f] \in Nat
        BY <1>1, <1>2, <1>4, <2>1 DEF Pending, TypeOK
      <4> QED  BY <1>1, <1>2, <2>1, <4>1 DEF Counted, Exact
    <3> QED  BY <3>1 DEF Counted
  <2> QED  BY <2>4, <2>5, <2>6 DEF IInv
<1>5. CASE ~(count > 1 /\ running[incb])
  <2>1. /\ count' = 0 /\ incb' = None /\ calls' = calls
        /\ running' = [running EXCEPT ![incb] = FALSE]
    BY <1>5 DEF EvtReturn
  <2>2. TypeOK'  BY <1>1, <1>2, <2>1 DEF TypeOK, core, manager
  <2>3. Phases' /\ Started'
    BY <1>1, <1>2, <1>3, <2>1 DEF Phases, Started, core, manager
  <2>4. Counted'
    <3>1. ASSUME NEW f \in Evts
          PROVE  Exact(wanted'[f], calls'[f], Pending(f)', repeat'[f], began'[f] # Never,
                       incb' = f /\ running'[f] /\ ~mgr'[f])
      <4>1. Pending(f) = 0  BY <1>2, <1>5 DEF Pending
      <4>2. incb' # f  BY <2>1, MgrAssumption
      <4>3. Pending(f)' = 0  BY <4>2 DEF Pending
      <4> QED  BY <1>1, <1>2, <2>1, <4>1, <4>2, <4>3 DEF Counted, Exact
    <3> QED  BY <3>1 DEF Counted
  <2> QED  BY <2>2, <2>3, <2>4 DEF IInv
<1> QED  BY <1>4, <1>5

\* The manager is initialised, when no node is linked, and destroyed, when all
\* callbacks were made.
LEMMA MgrInv ==
  ASSUME IInv, (\E ms \in Starts : MgrInit(ms)) \/ MgrDestroy
  PROVE  IInv'
<1>1. TypeOK /\ Phases /\ Started /\ Counted  BY DEF IInv
<1>2. ASSUME NEW ms \in Starts, MgrInit(ms)
      PROVE  IInv'
  <2>1. /\ due' = due /\ asked' = asked /\ batch' = batch /\ now' = 0 /\ ~live /\ live' = TRUE
        /\ current' = ms /\ millisec' = 0 /\ jiffies' = 0
        /\ UNCHANGED <<goal, ticking, event, incb, count, history>>
    BY <1>2 DEF MgrInit, Core!Restart
  <2>2. TypeOK'
    <3>1. /\ now' \in Ticks /\ current' \in Ticks /\ millisec' \in Ticks /\ jiffies' \in Ticks
          /\ live' \in BOOLEAN
      BY <2>1, Marks, MgrAssumption DEF Ticks
    <3>2. UNCHANGED <<due, asked, batch, goal, ticking, incb, count>>  BY <2>1
    <3>3. UNCHANGED <<ok, mgr, period, slap, repeat, running, began, wanted, calls>>
      BY <2>1 DEF event, history
    <3> QED  BY <1>1, <3>1, <3>2, <3>3 DEF TypeOK
  <2>3. Phases' /\ Started'
    BY <1>1, <2>1 DEF Phases, Started, Armed, event, history
  <2>4. Counted'  BY <1>1, <2>1, CountedSame DEF event, history
  <2> QED  BY <2>2, <2>3, <2>4 DEF IInv
<1>3. ASSUME MgrDestroy
      PROVE  IInv'
  <2>1. /\ due' = [e \in Evts |-> NotDue] /\ UNCHANGED <<asked, batch, now>>
        /\ live' = FALSE
        /\ goal = NoRun /\ began' = [e \in Evts |-> Never]
        /\ UNCHANGED <<current, millisec, jiffies, goal, ticking, event, incb, count, wanted, calls>>
    BY <1>3 DEF MgrDestroy, Core!DisarmAll
  <2>2. TypeOK'  BY <1>1, <2>1 DEF TypeOK, event
  <2>3. batch = {} /\ incb = None  BY <1>1, <2>1 DEF Phases
  <2>4. \A f \in Evts : ~Armed(f)'  BY <2>1, <2>3 DEF Armed
  <2>5. Phases' /\ Started'
    BY <1>1, <2>1, <2>3, <2>4 DEF Phases, Started
  <2>6. Counted'
    <3>1. ASSUME NEW f \in Evts
          PROVE  Exact(wanted'[f], calls'[f], Pending(f)', repeat'[f], began'[f] # Never,
                       incb' = f /\ running'[f] /\ ~mgr'[f])
      <4>1. Pending(f)' = Pending(f) /\ incb # f  BY <2>1, <2>3, MgrAssumption DEF Pending, event
      <4> QED  BY <1>1, <2>1, <4>1 DEF Counted, Exact, event
    <3> QED  BY <3>1 DEF Counted
  <2> QED  BY <2>2, <2>5, <2>6 DEF IInv
<1> QED  BY <1>2, <1>3

\* The loop of itimer_mgr_run.
LEMMA RunInv ==
  ASSUME IInv, (\E ms \in Stamps : MgrRun(ms)) \/ CoreRun \/ CoreRan \/ MgrRan
  PROVE  IInv'
<1>1. TypeOK /\ Phases /\ Started /\ Counted  BY DEF IInv
<1>2. ASSUME NEW ms \in Stamps, MgrRun(ms)
      PROVE  IInv'
  <2>1. /\ live /\ goal = NoRun /\ goal' = ms
        /\ UNCHANGED <<core, current, jiffies, live, ticking, event, incb, count, history>>
        /\ millisec' \in {ms, millisec} /\ ms \in Ticks
    BY <1>2, MgrAssumption DEF MgrRun, Ticks
  <2>2. TypeOK'  BY <1>1, <2>1 DEF TypeOK, core, event, history
  <2>3. Phases' /\ Started'
    BY <1>1, <2>1, Marks DEF Phases, Started, Armed, core, event, history
  <2>4. Counted'  BY <1>1, <2>1, CountedSame DEF event, history
  <2> QED  BY <2>2, <2>3, <2>4 DEF IInv
<1>3. ASSUME CoreRun
      PROVE  IInv'
  <2>1. /\ Ready /\ ticking'
        /\ UNCHANGED <<current, millisec, jiffies, live, goal, event, incb, count, history>>
        /\ asked' \in [Evts -> Ticks] /\ now' \in Ticks /\ due' \in [Evts -> Ticks \cup {NotDue}]
        /\ batch' \subseteq Evts
        /\ \A f \in Evts : Armed(f)' <=> Armed(f)
    BY <1>1, <1>3, CoreIs DEF CoreRun
  <2>2. TypeOK'  BY <1>1, <2>1 DEF TypeOK, event, history
  <2>3. Phases' /\ Started'
    BY <1>1, <2>1 DEF Phases, Started, event, history, Ready
  <2>4. Counted'  BY <1>1, <2>1, CountedSame DEF event, history
  <2> QED  BY <2>2, <2>3, <2>4 DEF IInv
<1>4. ASSUME CoreRan
      PROVE  IInv'
  <2>1. /\ Ready /\ batch = {} /\ ticking' = FALSE
        /\ jiffies' = U32(jiffies + 1) /\ current' = U32(current + interval)
        /\ millisec' = U32(millisec + interval)
        /\ UNCHANGED <<core, live, goal, event, incb, count, history>>
    BY <1>4 DEF CoreRan
  <2>2. jiffies' \in Ticks /\ current' \in Ticks /\ millisec' \in Ticks
    <3>1. jiffies + 1 \in Int /\ current + interval \in Int /\ millisec + interval \in Int
      BY <1>1, Marks, MgrAssumption DEF TypeOK
    <3> QED  BY <2>1, <3>1, U32Type
  <2>3. TypeOK'
    <3>1. UNCHANGED <<core, live, goal, event, incb, count, history>> /\ ticking' \in BOOLEAN
      BY <2>1
    <3> QED  BY <1>1, <2>2, <3>1 DEF TypeOK, core, event, history
  <2>4. Phases' /\ Started'
    <3>1. incb' = None /\ batch' = {}  BY <2>1 DEF Ready, core
    <3>2. Phases'  BY <2>1, <3>1 DEF Phases
    <3> QED  BY <1>1, <2>1, <3>2 DEF Started, Armed, core, event, history
  <2>5. Counted'  BY <1>1, <2>1, CountedSame DEF event, history
  <2> QED  BY <2>3, <2>4, <2>5 DEF IInv
<1>5. ASSUME MgrRan
      PROVE  IInv'
  <2>1. /\ Ready /\ ~ticking /\ goal' = NoRun
        /\ UNCHANGED <<core, current, millisec, jiffies, live, ticking, event, incb, count, history>>
    BY <1>5 DEF MgrRan
  <2>2. TypeOK'  BY <1>1, <2>1 DEF TypeOK, core, event, history
  <2>3. Phases' /\ Started'
    BY <1>1, <2>1 DEF Phases, Started, Armed, core, event, history, Ready
  <2>4. Counted'  BY <1>1, <2>1, CountedSame DEF event, history
  <2> QED  BY <2>2, <2>3, <2>4 DEF IInv
<1> QED  BY <1>2, <1>3, <1>4, <1>5

\* Every step preserves the invariant.
LEMMA NextIInv == IInv /\ [Next]_vars => IInv'
<1> SUFFICES ASSUME IInv, [Next]_vars PROVE IInv'  OBVIOUS
<1>1. ASSUME UNCHANGED vars PROVE IInv'
  <2>1. TypeOK'  BY <1>1 DEF IInv, TypeOK, vars, core, manager, event, history
  <2>2. Phases' /\ Started'
    BY <1>1 DEF IInv, Phases, Started, Armed, vars, core, manager, event, history
  <2>3. Counted'  BY <1>1, CountedSame DEF IInv, vars, event, history
  <2> QED  BY <2>1, <2>2, <2>3 DEF IInv
<1>2. ASSUME NEW e \in Evts, EvtInit(e) \/ EvtDestroy(e) \/ EvtStop(e) \/ EvtCb(e)
      PROVE  IInv'
  BY <1>2, EvtInitInv, EvtDestroyInv, EvtStopInv, EvtCbInv
<1>3. ASSUME NEW e \in Evts, NEW p \in Periods, NEW r \in Repeats, EvtStart(e, p, r)
      PROVE  IInv'
  BY <1>3, EvtStartInv
<1> QED
  BY <1>1, <1>2, <1>3, EvtReturnInv, MgrInv, RunInv DEF Next, Running

\* An event whose node is linked is initialised and has its manager, so
\* itimer_evt_cb never follows a NULL evt->mgr, and a started event stays armed
\* until it is stopped, destroyed, called for the last time or its manager goes.
THEOREM ManagerWhileArmed == Spec => []MgrWhileArmed
<1>1. IInv => MgrWhileArmed  BY Implied
<1> QED  BY InitIInv, NextIInv, <1>1, PTL DEF Spec

\* An event with a repeat count is called exactly that often, however late the
\* manager runs and whatever the callbacks start and stop: what was called, what
\* itimer_evt_cb has still to call and what it has armed add up.
THEOREM EventsRepeatExactly == Spec => []RepeatsExact
<1>1. IInv => RepeatsExact  BY Implied
<1> QED  BY InitIInv, NextIInv, <1>1, PTL DEF Spec

------------------------------------------------------------------------------
\* Periodic events on time.

\* A product grows with its first factor.
LEMMA MulMono ==
  ASSUME NEW a \in Int, NEW b \in Int, NEW d \in Nat, a <= b
  PROVE  a * d <= b * d
<1>1. PICK c \in Nat : b = a + c  BY b - a \in Nat
<1>2. c * d >= 0 /\ (a + c) * d = a * d + c * d  OBVIOUS
<1> QED  BY <1>1, <1>2

\* A quotient from the multiples around it.
LEMMA QuotientIs ==
  ASSUME NEW x \in Int, NEW d \in Nat, d > 0, NEW q \in Int
  PROVE  /\ q * d <= x => q <= x \div d
         /\ x < (q + 1) * d => x \div d <= q
<1>1. PICK m \in Int, r \in 0 .. d - 1 : m = x \div d /\ r = x % d  BY DivMod
<1>2. x = m * d + r  BY <1>1, DivMod
<1>3. ASSUME q * d <= x, q > m PROVE FALSE
  <2>1. (m + 1) * d <= q * d  BY <1>3, MulMono
  <2>2. (m + 1) * d = m * d + d  OBVIOUS
  <2> QED  BY <1>1, <1>2, <1>3, <2>1, <2>2
<1>4. ASSUME x < (q + 1) * d, m > q PROVE FALSE
  <2>1. (q + 1) * d <= m * d  BY <1>4, MulMono
  <2> QED  BY <1>1, <1>2, <1>4, <2>1
<1> QED  BY <1>1, <1>3, <1>4

\* A number of 32 bits is its own remainder.
LEMMA U32Same ==
  ASSUME NEW x \in Ticks
  PROVE  U32(x) = x
BY MgrAssumption, NextIs DEF U32, Ticks

\* The distance to a time stamp that is ahead: a tick at least, and all but the
\* last tick end before it.
LEMMA DistanceIs ==
  ASSUME NEW s \in Ticks, NEW c \in Ticks, c < s, s - c + interval - 1 < W
  PROVE  /\ Distance(s, c) \in 1 .. s - c
         /\ (Distance(s, c) - 1) * interval < s - c
<1>1. /\ s \in Int /\ c \in Int /\ interval \in Nat /\ interval > 0 /\ CAP \in Nat /\ CAP > 0
      /\ W \in Nat
  BY Marks, MgrAssumption
<1>2. PICK x \in Int : x = s - c + interval - 1  BY <1>1
<1>3. U32(s - c + interval - 1) = x
  <2>1. x \in Ticks  BY <1>1, <1>2 DEF Ticks
  <2> QED  BY <1>2, <2>1, U32Same
<1>4. PICK E \in Int, r \in 0 .. interval - 1 : x = interval * E + r /\ E = x \div interval
  BY <1>1, DivMod
<1>5. (E - 1) * interval < s - c
  <2>1. (E - 1) * interval = interval * E - interval  BY <1>1
  <2> QED  BY <1>1, <1>2, <1>4, <2>1
<1>6. E >= 1
  <2>1. 1 * interval <= x  BY <1>1, <1>2
  <2> QED  BY <1>1, <1>4, <2>1, QuotientIs
<1>7. E <= s - c
  <2>1. (E - 1) * 1 <= (E - 1) * interval
    <3>1. 1 * (E - 1) <= interval * (E - 1)  BY <1>1, <1>6, MulMono, E - 1 \in Nat
    <3> QED  BY <1>1, <3>1
  <2> QED  BY <1>1, <1>5, <2>1
<1>8. Distance(s, c) = IF E >= CAP THEN CAP ELSE E  BY <1>2, <1>3, <1>4 DEF Distance
<1>9. CASE E >= CAP
  <2>1. (CAP - 1) * interval <= (E - 1) * interval  BY <1>1, <1>9, MulMono
  <2>2. (CAP - 1) * interval \in Int /\ (E - 1) * interval \in Int  BY <1>1
  <2>3. (CAP - 1) * interval < s - c  BY <1>1, <1>5, <2>1, <2>2
  <2> QED  BY <1>1, <1>7, <1>8, <1>9, <2>3
<1>10. CASE ~(E >= CAP)  BY <1>1, <1>5, <1>6, <1>7, <1>8, <1>10
<1> QED  BY <1>9, <1>10

\* The rounds of itimer_evt_cb bring slap to the first call after current, or to
\* the last one: none of the sums wraps around.
LEMMA RoundsReach ==
  ASSUME TypeOK, NEW e \in Evts, NEW k \in Rounds(e), k # 0,
         period[e] > 0, current + period[e] < W
  PROVE  /\ k \in Nat
         /\ U32(slap[e] + k * period[e]) = slap[e] + k * period[e]
         /\ slap[e] + k * period[e] <= current + period[e]
         /\ k = repeat[e] \/ slap[e] + k * period[e] > current
<1>1. PICK s \in Nat, p \in Nat, c \in Nat : s = slap[e] /\ p = period[e] /\ c = current
  BY Marks DEF TypeOK
<1>2. /\ p > 0 /\ W \in Nat /\ W > 1 /\ s <= c /\ c + p < W
      /\ k \in 1 .. W /\ LoopEnds(e, k) /\ \A i \in 1 .. k - 1 : ~LoopEnds(e, i)
  BY <1>1, MgrAssumption DEF Rounds
<1>3. PICK q \in Int, r \in 0 .. p - 1 : c - s = q * p + r
  <2>1. PICK x \in Int : x = c - s  BY <1>1
  <2>2. /\ x % p \in 0 .. p - 1 /\ x \div p \in Int
        /\ x = p * (x \div p) + (x % p)
    BY <1>1, <1>2, DivMod
  <2>3. x = (x \div p) * p + (x % p)  BY <2>2
  <2> QED  BY <2>1, <2>2, <2>3
<1>4. q >= 0
  <2>1. ASSUME q < 0 PROVE FALSE
    <3>1. q * p <= (-1) * p  BY <2>1, <1>1, MulMono
    <3> QED  BY <1>1, <1>2, <1>3, <3>1
  <2> QED  BY <2>1
<1>5. PICK z \in Int : z = (q + 1) * p /\ z = q * p + p  OBVIOUS
<1>6. s + z > c /\ s + z <= c + p  BY <1>1, <1>2, <1>3, <1>5
<1>7. U32(s + z) = s + z
  <2>1. s + z \in Ticks  BY <1>1, <1>2, <1>6 DEF Ticks
  <2> QED  BY <2>1, U32Same
<1>8. LoopEnds(e, q + 1)
  <2>1. s + (q + 1) * p = s + z  BY <1>5
  <2> QED  BY <1>1, <1>6, <1>7, <2>1 DEF LoopEnds
<1>9. k <= q + 1
  <2>1. q + 1 \in Int /\ q + 1 >= 1  BY <1>4
  <2> QED  BY <1>2, <1>8, <2>1
<1>10. PICK y \in Int : y = k * p  BY <1>1, <1>2
<1>11. y <= z /\ y >= 0
  <2>1. k * p <= (q + 1) * p  BY <1>1, <1>2, <1>9, MulMono
  <2>2. 0 * p <= k * p  BY <1>1, <1>2, MulMono
  <2> QED  BY <1>1, <1>5, <1>10, <2>1, <2>2
<1>12. U32(s + y) = s + y
  <2>1. s + y \in Ticks  BY <1>1, <1>2, <1>6, <1>11 DEF Ticks
  <2> QED  BY <2>1, U32Same
<1>13. s + y <= c + p  BY <1>1, <1>6, <1>11
<1>14. k = repeat[e] \/ s + y > c  BY <1>1, <1>2, <1>10, <1>12 DEF LoopEnds
<1> QED  BY <1>1, <1>2, <1>10, <1>12, <1>13, <1>14

\* A time stamp ahead of current is armed for a tick that is not past and before
\* which it has not come.
LEMMA ArmedAhead ==
  ASSUME TypeOK, Clock, live, NEW e \in Evts, NEW s \in Ticks,
         current < s, s - current + interval - 1 < W, jiffies + (s - current) < W,
         Core!Arm(e, U32(jiffies + Distance(s, current)))
  PROVE  /\ due'[e] \in Ticks /\ due'[e] >= now
         /\ s > current + (due'[e] - 1 - jiffies) * interval
         /\ \A f \in Evts : f # e => due'[f] = due[f]
         /\ now' = now
<1>1. /\ s \in Int /\ current \in Int /\ current \in Ticks /\ jiffies \in Nat /\ now \in Nat
      /\ interval \in Nat /\ interval > 0 /\ W \in Nat /\ now \in Ticks
      /\ now \in {jiffies, jiffies + 1}
  BY Marks, MgrAssumption DEF TypeOK, Clock
<1>2. PICK d \in 1 .. s - current : d = Distance(s, current) /\ (d - 1) * interval < s - current
  BY <1>1, DistanceIs
<1>3. U32(jiffies + d) = jiffies + d /\ jiffies + d \in Ticks
  <2>1. jiffies + d \in Ticks  BY <1>1, <1>2 DEF Ticks
  <2> QED  BY <2>1, U32Same
<1>4. /\ now' = now /\ due' = [due EXCEPT ![e] = IF Core!Past(jiffies + d) THEN now ELSE jiffies + d]
      /\ due \in [Evts -> Ticks \cup {NotDue}]
  BY <1>2, <1>3 DEF Core!Arm, TypeOK
<1>5. CASE due'[e] = jiffies + d
  <2>1. s > current + (d - 1) * interval
    <3>1. (d - 1) * interval \in Int  BY <1>1, <1>2
    <3> QED  BY <1>1, <1>2, <3>1
  <2>2. due'[e] - 1 - jiffies = d - 1  BY <1>1, <1>2, <1>5
  <2>3. due'[e] \in Ticks /\ due'[e] >= now  BY <1>1, <1>2, <1>3, <1>5
  <2>4. s > current + (due'[e] - 1 - jiffies) * interval  BY <2>1, <2>2
  <2>5. \A f \in Evts : f # e => due'[f] = due[f]  BY <1>4
  <2> QED  BY <1>4, <2>3, <2>4, <2>5
<1>6. CASE due'[e] = now
  <2>1. (now - 1 - jiffies) * interval <= 0 * interval  BY <1>1, MulMono
  <2>2. (now - 1 - jiffies) * interval \in Int /\ 0 * interval = 0  BY <1>1
  <2>3. s > current + (now - 1 - jiffies) * interval  BY <1>1, <2>1, <2>2
  <2> QED  BY <1>1, <1>4, <1>6, <2>3
<1> QED  BY <1>4, <1>5, <1>6

\* A signed difference that is not negative, after a step of the clock.
LEMMA SignedLess ==
  ASSUME NEW g \in Ticks, NEW m \in Ticks, Signed(g - m) >= 0, 2 * interval <= W
  PROVE  /\ Signed(g - U32(m + interval)) = Signed(g - m) - interval
         /\ Signed(g - m) \in Nat
<1>1. /\ g \in Int /\ m \in Int /\ interval \in Nat /\ interval > 0 /\ W \in Nat /\ W > 1
  BY Marks, MgrAssumption
<1>2. PICK q \in Int, r \in 0 .. W - 1 : g - m = W * q + r /\ r = U32(g - m)
  <2>1. PICK x \in Int : x = g - m  BY <1>1
  <2>2. x % W \in 0 .. W - 1 /\ x \div W \in Int /\ x = W * (x \div W) + (x % W)
    BY <1>1, DivMod
  <2> QED  BY <2>1, <2>2 DEF U32
<1>3. Signed(g - m) = r /\ 2 * r < W  BY <1>1, <1>2 DEF Signed
<1>4. U32(g - U32(m + interval)) = U32(g - (m + interval))
  <2>1. PICK x \in Int : x = m + interval  BY <1>1
  <2>2. W > 0 /\ W \in Nat /\ g \in Int  BY <1>1
  <2>3. (g - (x % W)) % W = (g - x) % W  BY <2>2, WrapSub, Zenon
  <2> QED  BY <2>1, <2>3 DEF U32
<1>5. PICK x \in Int : x = g - (m + interval)  BY <1>1
<1>6. PICK y \in Int : y = W * q  BY <1>1
<1>7. x = y + (r - interval)  BY <1>1, <1>2, <1>5, <1>6
<1>8. CASE r >= interval
  <2>1. r - interval \in 0 .. W - 1  BY <1>1, <1>8
  <2>2. x = W * q + (r - interval)  BY <1>6, <1>7
  <2>3. U32(x) = r - interval  BY <1>1, <2>1, <2>2, Remainder DEF U32
  <2> QED  BY <1>1, <1>3, <1>4, <1>5, <1>8, <2>3 DEF Signed
<1>9. CASE ~(r >= interval)
  <2>1. W + r - interval \in 0 .. W - 1  BY <1>1, <1>9
  <2>2. W * (q - 1) = y - W  BY <1>1, <1>6
  <2>3. x = W * (q - 1) + (W + r - interval)  BY <1>1, <1>6, <1>7, <2>2
  <2>4. U32(x) = W + r - interval
    <3>1. PICK n \in Int, t \in 0 .. W - 1 : n = q - 1 /\ t = W + r - interval  BY <2>1
    <3>2. x = W * n + t  BY <2>3, <3>1
    <3>3. x % W = t  BY <1>1, <3>2, Remainder
    <3> QED  BY <3>1, <3>3 DEF U32
  <2>5. 2 * (W + r - interval) >= W  BY <1>1
  <2> QED  BY <1>1, <1>3, <1>4, <1>5, <2>4, <2>5 DEF Signed
<1> QED  BY <1>8, <1>9

\* An event that a step of the program leaves alone.
LEMMA PlannedSame ==
  ASSUME NEW f \in Evts, Planned(f), began'[f] = began[f], period'[f] = period[f],
         slap'[f] = slap[f], due'[f] \in {due[f], NotDue},
         calls'[f] + Pending(f)' = calls[f] + Pending(f),
         now' = now, UNCHANGED <<current, jiffies, ticking>>
  PROVE  Planned(f)'
BY DEF Planned, Seen, OnSchedule

\* A step that leaves the manager alone.
LEMMA ClockSame ==
  ASSUME Clock, UNCHANGED manager, now' = now
  PROVE  Clock'
BY DEF Clock, manager

\* What a step does to the ticks of the other events.
LEMMA OthersDue ==
  ASSUME TypeOK, NEW e \in Evts
  PROVE  /\ \A t \in Ticks : Core!Arm(e, t) =>
              now' = now /\ \A f \in Evts : f # e => due'[f] = due[f]
         /\ Core!Disarm(e) => now' = now /\ \A f \in Evts : f # e => due'[f] = due[f]
BY DEF TypeOK, Core!Arm, Core!Disarm

\* An event is initialised, stopped or destroyed.
LEMMA EndedOnTime ==
  ASSUME IInv, Clock, Scheduled, NEW e \in Evts, EvtInit(e) \/ EvtDestroy(e) \/ EvtStop(e)
  PROVE  Clock' /\ Scheduled'
<1>1. TypeOK  BY DEF IInv
<1>2. CASE EvtInit(e)
  <2>1. UNCHANGED <<core, manager, period, slap, running, incb, count, history>>
    BY <1>2 DEF EvtInit
  <2>2. now' = now /\ Clock'  BY <2>1, ClockSame DEF core
  <2>3. ASSUME NEW f \in Evts, began'[f] # Never PROVE Planned(f)'
    <3>1. Planned(f)  BY <2>1, <2>3 DEF Scheduled, history
    <3>2. Pending(f)' = Pending(f)  BY <2>1 DEF Pending
    <3> QED  BY <2>1, <3>1, <3>2, PlannedSame DEF core, manager, history
  <2> QED  BY <2>2, <2>3 DEF Scheduled
<1>3. CASE EvtDestroy(e) \/ EvtStop(e)
  <2>1. /\ UNCHANGED <<manager, incb, count, wanted, calls>>
        /\ began' = [began EXCEPT ![e] = Never] /\ running' = [running EXCEPT ![e] = FALSE]
        /\ \A f \in Evts : f # e => period'[f] = period[f] /\ slap'[f] = slap[f]
    BY <1>1, <1>3 DEF EvtDestroy, EvtStop, TypeOK
  <2>2. now' = now /\ \A f \in Evts : f # e => due'[f] = due[f]
    BY <1>1, <1>3, OthersDue DEF EvtDestroy, EvtStop, core
  <2>3. Clock'  BY <2>1, <2>2, ClockSame
  <2>4. ASSUME NEW f \in Evts, began'[f] # Never PROVE Planned(f)'
    <3>1. f # e /\ began'[f] = began[f]  BY <1>1, <2>1, <2>4 DEF TypeOK
    <3>2. Planned(f)  BY <2>4, <3>1 DEF Scheduled
    <3>3. Pending(f)' = Pending(f)  BY <1>1, <2>1, <3>1 DEF Pending, TypeOK
    <3> QED  BY <2>1, <2>2, <3>1, <3>2, <3>3, PlannedSame DEF manager
  <2> QED  BY <2>3, <2>4 DEF Scheduled
<1> QED  BY <1>2, <1>3

\* The room a live manager has before its clock wraps around.
LEMMA RoomIs ==
  ASSUME TypeOK, Clock, live, NEW p \in Periods \cup {0}
  PROVE  /\ current + p + interval <= W
         /\ jiffies <= current /\ jiffies \in Nat /\ current \in Nat /\ p \in Nat
         /\ interval \in Nat /\ interval > 0 /\ W \in Nat
<1>1. /\ jiffies \in Nat /\ current \in Nat /\ p \in Nat /\ LastTick \in Nat
      /\ interval \in Nat /\ interval > 0 /\ W \in Nat
  BY Marks, MgrAssumption DEF TypeOK
<1>2. jiffies <= LastTick /\ current + (LastTick - jiffies + 1) * interval + p <= W
  BY DEF Clock
<1>3. 1 * interval <= (LastTick - jiffies + 1) * interval
  BY <1>1, <1>2, MulMono, LastTick - jiffies + 1 \in Int
<1>4. (LastTick - jiffies + 1) * interval \in Int  BY <1>1
<1>5. current + p + interval <= W  BY <1>1, <1>2, <1>3, <1>4
<1> QED  BY <1>1, <1>5 DEF Clock

\* An event is started: its first call is a period ahead.
LEMMA StartOnTime ==
  ASSUME IInv, IInv', Clock, Scheduled,
         NEW e \in Evts, NEW p \in Periods, NEW r \in Repeats, EvtStart(e, p, r)
  PROVE  Clock' /\ Scheduled'
<1>1. TypeOK /\ TypeOK'  BY DEF IInv
<1>2. /\ live /\ UNCHANGED <<manager, ok, incb, count>>
      /\ period' = [period EXCEPT ![e] = p] /\ slap' = [slap EXCEPT ![e] = U32(current + p)]
      /\ running' = [running EXCEPT ![e] = FALSE] /\ began' = [began EXCEPT ![e] = jiffies]
      /\ calls' = [calls EXCEPT ![e] = 0]
      /\ Core!Arm(e, U32(jiffies + Distance(U32(current + p), current)))
  BY DEF EvtStart
<1>3. /\ current + p + interval <= W /\ jiffies <= current /\ jiffies \in Nat
      /\ current \in Nat /\ p \in Nat /\ interval \in Nat /\ interval > 0 /\ W \in Nat
  BY <1>1, <1>2, RoomIs
<1>4. p > 0  BY <1>3, MgrAssumption
<1>5. PICK s \in Ticks : s = current + p
  <2>1. current + p \in Ticks  BY <1>3 DEF Ticks
  <2> QED  BY <2>1
<1>6. U32(current + p) = s  BY <1>5, U32Same
<1>7. /\ due'[e] >= now /\ s > current + (due'[e] - 1 - jiffies) * interval
      /\ \A f \in Evts : f # e => due'[f] = due[f]
      /\ now' = now
  <2>1. /\ current < s /\ s - current + interval - 1 < W /\ jiffies + (s - current) < W
    BY <1>3, <1>4, <1>5
  <2>2. Core!Arm(e, U32(jiffies + Distance(s, current)))  BY <1>2, <1>6
  <2> QED  BY <1>1, <1>2, <2>1, <2>2, ArmedAhead
<1>8. Clock'  BY <1>2, <1>7, ClockSame
<1>9. ASSUME NEW f \in Evts, began'[f] # Never PROVE Planned(f)'
  <2>1. CASE f = e
    <3>1. /\ period'[f] = p /\ slap'[f] = s /\ began'[f] = jiffies /\ calls'[f] = 0
          /\ ~running'[f] /\ current' = current /\ jiffies' = jiffies /\ ticking' = ticking
      BY <1>1, <1>2, <1>6, <2>1 DEF TypeOK, manager
    <3>2. Pending(f)' = 0  BY <3>1 DEF Pending
    <3>3. Seen(f)' = current  BY <3>1 DEF Seen
    <3>4. OnSchedule(s, current, jiffies - jiffies, 0 + 0 + 1, p)
      BY <1>3, <1>5 DEF OnSchedule
    <3> QED  BY <1>3, <1>5, <1>7, <2>1, <3>1, <3>2, <3>3, <3>4 DEF Planned
  <2>2. CASE f # e
    <3>1. /\ began'[f] = began[f] /\ period'[f] = period[f] /\ slap'[f] = slap[f]
          /\ calls'[f] = calls[f] /\ running'[f] = running[f] /\ incb' = incb /\ count' = count
      BY <1>1, <1>2, <2>2 DEF TypeOK
    <3>2. Planned(f)  BY <1>9, <3>1 DEF Scheduled
    <3>3. Pending(f)' = Pending(f)  BY <3>1 DEF Pending
    <3> QED  BY <1>2, <1>7, <2>2, <3>1, <3>2, <3>3, PlannedSame DEF manager
  <2> QED  BY <2>1, <2>2
<1> QED  BY <1>8, <1>9 DEF Scheduled

\* itimer_evt_cb: every round is a call that is counted, and the next is ahead.
LEMMA CalledOnTime ==
  ASSUME IInv, IInv', Clock, Scheduled, NEW e \in Evts, EvtCb(e)
  PROVE  Clock' /\ Scheduled'
<1>1. TypeOK /\ TypeOK' /\ Phases /\ Started  BY DEF IInv
<1> DEFINE next(k) == U32(slap[e] + k * period[e])
<1>2. PICK k \in Rounds(e) :
        /\ slap' = [slap EXCEPT ![e] = next(k)]
        /\ IF Last(e, k) THEN Core!Disarm(e) /\ asked' = asked
           ELSE Core!Arm(e, U32(jiffies + Distance(next(k), current)))
        /\ running' = [running EXCEPT ![e] = k > 0]
        /\ count' = k
        /\ incb' = IF k > 0 THEN e ELSE None
        /\ calls' = [calls EXCEPT ![e] = @ + IF k > 0 THEN 1 ELSE 0]
        /\ began' = [began EXCEPT ![e] = IF Last(e, k) THEN Never ELSE @]
  BY DEF EvtCb
<1>3. /\ ticking /\ incb = None /\ e \in batch /\ UNCHANGED <<manager, period>>
  BY DEF EvtCb, Ready
<1>4. began[e] # Never /\ live  BY <1>1, <1>3 DEF Started, Armed
<1>5. Planned(e)  BY <1>4 DEF Scheduled
<1>6. PICK p \in Periods : p = period[e]  BY <1>5 DEF Planned
<1>7. /\ current + p + interval <= W /\ jiffies <= current /\ jiffies \in Nat
      /\ current \in Nat /\ p \in Nat /\ interval \in Nat /\ interval > 0 /\ W \in Nat
  BY <1>1, <1>4, RoomIs
<1>8. PICK c \in Nat, s \in Nat : c = calls[e] /\ s = slap[e]  BY <1>1, Marks DEF TypeOK
<1>9. p > 0  BY <1>6, MgrAssumption
<1>10. PICK t \in Nat : t = jiffies - began[e]
  <2>1. began[e] \in Nat /\ began[e] <= jiffies  BY <1>1, <1>4, <1>5, Marks DEF TypeOK, Planned
  <2> QED  BY <1>7, <2>1
<1>11. Pending(e) = 0  BY <1>3, MgrAssumption DEF Pending
<1>12. OnSchedule(s, current, t, c + 1, p) /\ s <= current + p
  <2>1. c + 0 + 1 = c + 1  BY <1>8
  <2> QED  BY <1>3, <1>5, <1>6, <1>8, <1>10, <1>11, <2>1 DEF Planned, Seen
<1>13. PICK n \in Nat : /\ n = next(k) /\ n = s + k * p /\ n <= current + p /\ k \in Nat
                        /\ (k > 0 /\ k = repeat[e]) \/ n > current
  <2>1. CASE k = 0
    <3>1. current < slap[e]
      <4>1. 0 \notin 1 .. W  OBVIOUS
      <4> QED  BY <2>1, <4>1 DEF Rounds
    <3>2. s + k * p = s  BY <1>7, <2>1
    <3>3. U32(s) = s  BY <1>1, <1>8, U32Same DEF TypeOK
    <3> QED  BY <1>6, <1>8, <1>12, <2>1, <3>1, <3>2, <3>3
  <2>2. CASE k # 0
    <3>1. /\ k \in Nat /\ next(k) = s + k * p /\ s + k * p <= current + p
          /\ k = repeat[e] \/ s + k * p > current
      BY <1>1, <1>6, <1>7, <1>8, <1>9, <2>2, RoundsReach
    <3>2. k * p \in Nat  BY <1>7, <3>1
    <3> QED  BY <1>8, <2>2, <3>1, <3>2
  <2> QED  BY <2>1, <2>2
<1> HIDE DEF next
<1>14. CASE Last(e, k)
  <2>1. now' = now /\ \A f \in Evts : f # e => due'[f] = due[f]
    BY <1>1, <1>2, <1>14, OthersDue
  <2>2. Clock'  BY <1>3, <2>1, ClockSame
  <2>3. ASSUME NEW f \in Evts, began'[f] # Never PROVE Planned(f)'
    <3>1. f # e /\ began'[f] = began[f]  BY <1>1, <1>2, <1>14, <2>3 DEF TypeOK
    <3>2. Planned(f)  BY <2>3, <3>1 DEF Scheduled
    <3>3. /\ slap'[f] = slap[f] /\ calls'[f] = calls[f] /\ period' = period
          /\ Pending(f)' = Pending(f)
      <4>1. incb # f /\ incb' # f  BY <1>2, <1>3, <3>1, MgrAssumption
      <4> QED  BY <1>1, <1>2, <1>3, <3>1, <4>1 DEF TypeOK, Pending
    <3> QED  BY <1>3, <2>1, <3>1, <3>2, <3>3, PlannedSame DEF manager
  <2> QED  BY <2>2, <2>3 DEF Scheduled
<1>15. CASE ~Last(e, k)
  <2>1. n > current  BY <1>13, <1>15 DEF Last
  <2>2. n \in Ticks  BY <1>7, <1>13 DEF Ticks
  <2>3. /\ due'[e] >= now /\ n > current + (due'[e] - 1 - jiffies) * interval
        /\ \A f \in Evts : f # e => due'[f] = due[f]
        /\ now' = now
    <3>1. n - current + interval - 1 < W /\ jiffies + (n - current) < W
      BY <1>7, <1>13, <2>1
    <3>2. Core!Arm(e, U32(jiffies + Distance(n, current)))  BY <1>2, <1>13, <1>15
    <3> QED  BY <1>1, <1>4, <2>1, <2>2, <3>1, <3>2, ArmedAhead
  <2>4. Clock'  BY <1>3, <2>3, ClockSame
  <2>5. ASSUME NEW f \in Evts, began'[f] # Never PROVE Planned(f)'
    <3>1. CASE f = e
      <4>1. /\ period'[f] = p /\ slap'[f] = n /\ began'[f] = began[f]
            /\ current' = current /\ jiffies' = jiffies /\ ticking'
        BY <1>1, <1>2, <1>3, <1>6, <1>13, <1>15, <3>1 DEF TypeOK, manager
      <4>2. calls'[f] + Pending(f)' + 1 = c + k + 1
        <5>1. calls'[e] = c + (IF k > 0 THEN 1 ELSE 0) /\ running'[e] = (k > 0)
          BY <1>1, <1>2, <1>8 DEF TypeOK
        <5>2. CASE k > 0
          <6>1. Pending(e)' = k - 1  BY <1>2, <5>1, <5>2 DEF Pending
          <6> QED  BY <1>8, <1>13, <3>1, <5>1, <5>2, <6>1
        <5>3. CASE ~(k > 0)
          <6>1. Pending(e)' = 0  BY <5>1, <5>3 DEF Pending
          <6> QED  BY <1>8, <1>13, <3>1, <5>1, <5>3, <6>1
        <5> QED  BY <5>2, <5>3
      <4>3. OnSchedule(n, current, t, c + k + 1, p)
        <5>1. (c + k + 1) * p = (c + 1) * p + k * p  BY <1>7, <1>8, <1>13
        <5>2. PICK y \in Int, x \in Int, z \in Int : y = k * p /\ x = (c + 1) * p /\ z = t * interval
          BY <1>7, <1>8, <1>10, <1>13
        <5>3. s = current - z + x /\ n = s + y  BY <1>12, <1>13, <5>2 DEF OnSchedule
        <5>4. n = current - z + (x + y)  BY <1>7, <1>8, <5>2, <5>3
        <5> QED  BY <5>1, <5>2, <5>4 DEF OnSchedule
      <4>4. Seen(f)' = current  BY <4>1 DEF Seen
      <4>5. jiffies - began[f] = t /\ began[f] <= jiffies  BY <1>5, <1>10, <3>1 DEF Planned
      <4> QED  BY <1>13, <2>3, <3>1, <4>1, <4>2, <4>3, <4>4, <4>5 DEF Planned
    <3>2. CASE f # e
      <4>1. began'[f] = began[f] /\ slap'[f] = slap[f] /\ calls'[f] = calls[f] /\ period' = period
        BY <1>1, <1>2, <1>3, <3>2 DEF TypeOK
      <4>2. Planned(f)  BY <2>5, <4>1 DEF Scheduled
      <4>3. Pending(f)' = Pending(f)
        <5>1. incb # f /\ incb' # f  BY <1>2, <1>3, <3>2, MgrAssumption
        <5> QED  BY <5>1 DEF Pending
      <4> QED  BY <1>3, <2>3, <3>2, <4>1, <4>2, <4>3, PlannedSame DEF manager
    <3> QED  BY <3>1, <3>2
  <2> QED  BY <2>4, <2>5 DEF Scheduled
<1> QED  BY <1>14, <1>15

\* A callback returns, and the next is made.
LEMMA ReturnedOnTime ==
  ASSUME IInv, Clock, Scheduled, EvtReturn
  PROVE  Clock' /\ Scheduled'
<1>1. TypeOK /\ Phases  BY DEF IInv
<1>2. /\ UNCHANGED <<core, manager, period, slap, began>>
      /\ incb \in Evts /\ count \in Nat /\ count >= 1 /\ calls[incb] \in Nat
  BY <1>1 DEF EvtReturn, TypeOK, Phases
<1>3. Clock'  BY <1>2, ClockSame DEF core
<1>4. ASSUME NEW f \in Evts, began'[f] # Never PROVE Planned(f)'
  <2>1. Planned(f)  BY <1>2, <1>4 DEF Scheduled
  <2>2. calls'[f] + Pending(f)' = calls[f] + Pending(f)
    <3>1. CASE count > 1 /\ running[incb]
      <4>1. /\ count' = count - 1 /\ calls' = [calls EXCEPT ![incb] = @ + 1]
            /\ UNCHANGED <<incb, running>>
        BY <3>1 DEF EvtReturn
      <4> QED  BY <1>1, <1>2, <3>1, <4>1 DEF Pending, TypeOK
    <3>2. CASE ~(count > 1 /\ running[incb])
      <4>1. /\ count' = 0 /\ incb' = None /\ calls' = calls
        BY <3>2 DEF EvtReturn
      <4>2. Pending(f) = 0  BY <1>2, <3>2 DEF Pending
      <4>3. incb' # f  BY <4>1, MgrAssumption
      <4>4. Pending(f)' = 0  BY <4>3 DEF Pending
      <4> QED  BY <4>1, <4>2, <4>4
    <3> QED  BY <3>1, <3>2
  <2> QED  BY <1>2, <2>1, <2>2, PlannedSame DEF core, manager
<1> QED  BY <1>3, <1>4 DEF Scheduled

\* A run that goes on has a tick left.
LEMMA TickLeft ==
  ASSUME TypeOK, Clock, goal # NoRun, Signed(goal - millisec) >= 0
  PROVE  /\ jiffies < LastTick /\ jiffies \in Nat /\ LastTick \in 1 .. W - 1
         /\ Signed(goal - millisec) \in Nat
<1>1. PICK x \in Int : x = goal - millisec
  <2>1. goal \in Int /\ millisec \in Int  BY Marks DEF TypeOK
  <2> QED  BY <2>1
<1>2. U32(x) \in Int /\ W \in Nat /\ interval \in Nat /\ interval > 0 /\ jiffies \in Nat
      /\ LastTick \in 1 .. W - 1
  <2>1. U32(x) \in Ticks  BY <1>1, U32Type
  <2>2. U32(x) \in Int  BY <2>1, Marks
  <2>3. jiffies \in Nat  BY Marks DEF TypeOK
  <2> QED  BY <2>2, <2>3, MgrAssumption
<1>3. PICK y \in Int : y = Signed(goal - millisec)
  <2>1. Signed(x) \in Int  BY <1>1, <1>2 DEF Signed
  <2> QED  BY <1>1, <2>1
<1>4. 0 <= y \div interval /\ y \div interval \in Int
  <2>1. 0 * interval <= y  BY <1>2, <1>3
  <2> QED  BY <1>2, <1>3, <2>1, QuotientIs, DivMod
<1>5. y \div interval + jiffies < LastTick  BY <1>3 DEF Clock
<1> QED  BY <1>2, <1>3, <1>4, <1>5

\* The manager is initialised and destroyed: no event is started in either state.
LEMMA ManagedOnTime ==
  ASSUME NoWrap, IInv, Clock, Scheduled, (\E ms \in Starts : MgrInit(ms)) \/ MgrDestroy
  PROVE  Clock' /\ Scheduled'
<1>1. TypeOK /\ Phases /\ Started  BY DEF IInv
<1>2. ASSUME NEW ms \in Starts, MgrInit(ms)
      PROVE  Clock' /\ Scheduled'
  <2>1. /\ ~live /\ live' /\ current' = ms /\ jiffies' = 0 /\ now' = 0
        /\ UNCHANGED <<goal, ticking, event, incb, count, history>>
    BY <1>2 DEF MgrInit, Core!Restart
  <2>2. goal' = NoRun /\ ~ticking'  BY <1>1, <2>1 DEF Clock, Phases
  <2>3. \A p \in Periods \cup {0} : ms + (LastTick - 0 + 1) * interval + p <= W
    <3>1. LastTick - 0 + 1 = LastTick + 1  BY MgrAssumption
    <3> QED  BY <3>1 DEF NoWrap
  <2>4. 0 <= LastTick /\ 0 <= ms  BY MgrAssumption
  <2>5. Clock'  BY <2>1, <2>2, <2>3, <2>4 DEF Clock
  <2>6. \A f \in Evts : began'[f] = Never  BY <1>1, <2>1 DEF Started, history
  <2> QED  BY <2>5, <2>6 DEF Scheduled
<1>3. ASSUME MgrDestroy
      PROVE  Clock' /\ Scheduled'
  <2>1. /\ ~live' /\ goal = NoRun /\ began' = [e \in Evts |-> Never]
        /\ UNCHANGED <<current, millisec, jiffies, goal, ticking>>
    BY <1>3 DEF MgrDestroy
  <2>2. ~ticking  BY <1>1, <2>1 DEF Phases
  <2> QED  BY <2>1, <2>2 DEF Clock, Scheduled
<1> QED  BY <1>2, <1>3

\* A run is entered and left.
LEMMA RunOnTime ==
  ASSUME IInv, Clock, Scheduled, (\E ms \in Stamps : MgrRun(ms)) \/ MgrRan
  PROVE  Clock' /\ Scheduled'
<1>1. /\ UNCHANGED <<core, current, jiffies, live, ticking, event, incb, count, history>>
      /\ ~ticking
      /\ goal' # NoRun =>
           live /\ Signed(goal' - millisec') \div interval + jiffies < LastTick
  <2>1. ASSUME NEW ms \in Stamps, MgrRun(ms)
        PROVE  /\ UNCHANGED <<core, current, jiffies, live, ticking, event, incb, count, history>>
               /\ ~ticking
               /\ live /\ Signed(goal' - millisec') \div interval + jiffies < LastTick
    BY <2>1 DEF IInv, Phases, MgrRun
  <2>2. ASSUME MgrRan
        PROVE  /\ UNCHANGED <<core, current, jiffies, live, ticking, event, incb, count, history>>
               /\ ~ticking /\ goal' = NoRun
    BY <2>2 DEF MgrRan
  <2> QED  BY <2>1, <2>2
<1>2. Clock'  BY <1>1 DEF Clock, core
<1>3. ASSUME NEW f \in Evts, began'[f] # Never PROVE Planned(f)'
  <2>1. Planned(f)  BY <1>1, <1>3 DEF Scheduled, history
  <2>2. Pending(f)' = Pending(f)  BY <1>1 DEF Pending, event
  <2> QED  BY <1>1, <2>1, <2>2, PlannedSame DEF core, event, history
<1> QED  BY <1>2, <1>3 DEF Scheduled

\* A tick begins: the events due at it are in the batch, the others are ahead.
LEMMA TickOnTime ==
  ASSUME IInv, Clock, Scheduled, CoreRun
  PROVE  Clock' /\ Scheduled'
<1>1. TypeOK /\ Phases /\ Started  BY DEF IInv
<1>2. /\ goal # NoRun /\ ~ticking /\ ticking' /\ Signed(goal - millisec) >= 0 /\ incb = None
      /\ now' = U32(now + 1) /\ batch = {} /\ batch' = {f \in Evts : due[f] = now}
      /\ due' = [f \in Evts |-> IF due[f] = now THEN NotDue ELSE due[f]]
      /\ UNCHANGED <<current, millisec, jiffies, live, goal, event, incb, count, history>>
  BY DEF CoreRun, Ready, Core!Advance, U32
<1>3. live /\ now = jiffies /\ jiffies \in Nat /\ LastTick \in 1 .. W - 1 /\ interval \in Nat /\ interval > 0
  BY <1>1, <1>2, Marks, MgrAssumption DEF Clock, TypeOK
<1>4. jiffies < LastTick  BY <1>1, <1>2, TickLeft
<1>5. now' = jiffies + 1
  <2>1. jiffies + 1 \in Ticks  BY <1>3, <1>4, MgrAssumption DEF Ticks
  <2> QED  BY <1>2, <1>3, <2>1, U32Same
<1>6. Clock'  BY <1>2, <1>3, <1>5 DEF Clock
<1>7. ASSUME NEW f \in Evts, began'[f] # Never PROVE Planned(f)'
  <2>1. Planned(f)  BY <1>2, <1>7 DEF Scheduled, history
  <2>2. Pending(f)' = Pending(f) /\ UNCHANGED <<period, slap, began, calls>>
    BY <1>2 DEF Pending, event, history
  <2>3. Seen(f)' = current /\ Seen(f) \in {current, current - interval}  BY <1>2 DEF Seen
  <2>4. slap[f] <= current + period[f]
    <3>1. current \in Nat /\ period[f] \in Nat /\ slap[f] \in Nat  BY <1>1, Marks DEF TypeOK
    <3>2. slap[f] <= Seen(f) + period[f]  BY <2>1 DEF Planned
    <3> QED  BY <1>3, <2>3, <3>1, <3>2
  <2>5. due'[f] # NotDue => due'[f] = due[f] /\ due[f] # jiffies  BY <1>2, <1>3, <1>7
  <2>6. due'[f] # NotDue => due'[f] >= now'
    <3>1. due[f] # NotDue => due[f] \in Nat /\ due[f] >= jiffies
      BY <1>1, <1>3, <2>1, Marks DEF TypeOK, Planned
    <3> QED  BY <1>3, <1>5, <2>5, <3>1
  <2> QED  BY <1>2, <2>1, <2>2, <2>3, <2>4, <2>5, <2>6 DEF Planned
<1> QED  BY <1>6, <1>7 DEF Scheduled

\* A tick ends, when every event due at it was called: the clock steps on, and no
\* call is behind by more than the events started at this tick.
LEMMA TickedOnTime ==
  ASSUME IInv, Clock, Scheduled, CoreRan
  PROVE  Clock' /\ Scheduled'
<1>1. TypeOK /\ Phases /\ Started  BY DEF IInv
<1>2. /\ goal # NoRun /\ ticking /\ ~ticking' /\ batch = {} /\ incb = None
      /\ jiffies' = U32(jiffies + 1) /\ current' = U32(current + interval)
      /\ millisec' = U32(millisec + interval)
      /\ UNCHANGED <<core, live, goal, event, incb, count, history>>
  BY DEF CoreRan, Ready
<1>3. PICK j \in Nat, c \in Nat, i \in Nat, l \in Nat :
        /\ j = jiffies /\ c = current /\ i = interval /\ l = LastTick
        /\ i > 0 /\ j < l /\ l < W /\ live
  BY <1>1, <1>2, TickLeft, Marks, MgrAssumption DEF Clock, TypeOK
<1>4. PICK room \in Nat : room = (l - j) * i /\ (l - j + 1) * i = room + i /\ room >= i
  <2>1. 1 * i <= (l - j) * i  BY <1>3, MulMono, l - j \in Int
  <2> QED  BY <1>3, <2>1
<1>5. W \in Nat /\ \A p \in Periods \cup {0} : p \in Nat /\ c + room + i + p <= W
  <2>1. ASSUME NEW p \in Periods \cup {0} PROVE p \in Nat /\ c + room + i + p <= W
    <3>1. c + (l - j + 1) * i + p <= W  BY <1>3 DEF Clock
    <3>2. p \in Nat  BY MgrAssumption
    <3> QED  BY <1>3, <1>4, <3>1, <3>2
  <2> QED  BY <2>1, MgrAssumption
<1>6. c + room + i + 0 <= W  BY <1>5
<1>7. current' = c + i /\ jiffies' = j + 1
  <2>1. c + i \in Ticks /\ j + 1 \in Ticks  BY <1>3, <1>4, <1>5, <1>6 DEF Ticks
  <2> QED  BY <1>2, <1>3, <2>1, U32Same
<1>8. PICK d \in Nat : d = Signed(goal - millisec) /\ Signed(goal' - millisec') = d - i
                       /\ d \div i + j < l
  <2>1. 2 * interval <= W  BY <1>3, <1>4, <1>5, <1>6
  <2>2. goal \in Ticks /\ millisec \in Ticks  BY <1>1, <1>2 DEF TypeOK
  <2>3. Signed(goal - millisec) >= 0  BY <1>2 DEF Clock
  <2>4. Signed(goal - millisec) \in Nat /\ Signed(goal - millisec') = Signed(goal - millisec) - i
    BY <1>2, <1>3, <2>1, <2>2, <2>3, SignedLess
  <2>5. Signed(goal - millisec) \div i + j < l  BY <1>2, <1>3, <2>3 DEF Clock
  <2> QED  BY <1>2, <2>4, <2>5
<1>9. (d - i) \div i + (j + 1) < l
  <2>1. PICK q \in Int, r \in 0 .. i - 1 : q = d \div i /\ d = i * q + r
    BY <1>3, DivMod
  <2>2. q = (q - 1) + 1 /\ i * q = q * i  BY <1>3
  <2>3. d - i < ((q - 1) + 1) * i  BY <1>3, <2>1, <2>2
  <2>4. (d - i) \div i <= q - 1 /\ (d - i) \div i \in Int
    BY <1>3, <2>3, QuotientIs, DivMod, d - i \in Int, q - 1 \in Int
  <2> QED  BY <1>3, <1>8, <2>1, <2>4
<1>10. now' = j + 1  BY <1>2, <1>3 DEF Clock, core
<1>11. Clock'
  <2>1. \A p \in Periods \cup {0} : (c + i) + (l - (j + 1) + 1) * i + p <= W
    <3>1. l - (j + 1) + 1 = l - j  BY <1>3
    <3> QED  BY <1>3, <1>4, <1>5, <3>1
  <2>2. j <= c  BY <1>3 DEF Clock
  <2>3. /\ j + 1 <= l /\ j + 1 <= c + i
        /\ LastTick = l /\ interval = i /\ jiffies' = j + 1 /\ current' = c + i
        /\ now' = j + 1 /\ ~ticking' /\ live'
    BY <1>2, <1>3, <1>7, <1>10, <2>2
  <2>4. Signed(goal' - millisec') \div interval + jiffies' < LastTick
    BY <1>8, <1>9, <2>3
  <2>5. \A p \in Periods \cup {0} : current' + (LastTick - jiffies' + 1) * interval + p <= W
    BY <2>1, <2>3
  <2> QED  BY <2>3, <2>4, <2>5 DEF Clock
<1>12. ASSUME NEW f \in Evts, began'[f] # Never PROVE Planned(f)'
  <2>1. Planned(f) /\ began[f] # Never  BY <1>2, <1>12 DEF Scheduled, history
  <2>2. Pending(f)' = Pending(f) /\ UNCHANGED <<period, slap, began, calls, due>>
    BY <1>2 DEF Pending, event, history, core
  <2>3. PICK b \in Nat, s \in Nat, p \in Nat : b = began[f] /\ b <= j /\ s = slap[f] /\ p = period[f]
    BY <1>1, <1>3, <2>1, Marks DEF TypeOK, Planned
  <2>4. PICK n \in Int : n = calls[f] + Pending(f) + 1
    <3>1. calls[f] \in Nat /\ Pending(f) \in Int  BY <1>1 DEF TypeOK, Pending
    <3> QED  BY <3>1
  <2>5. OnSchedule(s, c + i, (j + 1) - b, n, p)
    <3>1. OnSchedule(s, c, j - b, n, p)  BY <1>3, <2>1, <2>3, <2>4 DEF Planned
    <3>2. ((j + 1) - b) * i = (j - b) * i + i  BY <1>3, <2>3
    <3>3. PICK x \in Int, y \in Int : x = (j - b) * i /\ y = n * p  BY <1>3, <2>3
    <3> QED  BY <1>3, <3>1, <3>2, <3>3 DEF OnSchedule
  <2>6. s <= c + p  BY <1>2, <1>3, <2>1, <2>3 DEF Planned, Seen
  <2>7. Seen(f)' = (c + i) - i  BY <1>2, <1>3, <1>7, <2>2, <2>3 DEF Seen
  <2>8. due[f] # NotDue => due[f] >= j + 1 /\ s > (c + i) + (due[f] - 1 - (j + 1)) * i
    <3>1. ASSUME due[f] # NotDue PROVE due[f] >= j + 1 /\ s > (c + i) + (due[f] - 1 - (j + 1)) * i
      <4>1. PICK u \in Nat : u = due[f]  BY <1>1, <3>1, Marks DEF TypeOK
      <4>2. u >= j + 1 /\ s > c + (u - 1 - j) * i
        BY <1>2, <1>3, <1>10, <2>1, <2>3, <3>1, <4>1 DEF Planned, core
      <4>3. (u - 1 - j) * i = (u - 1 - (j + 1)) * i + i  BY <1>3, <4>1
      <4>4. PICK x \in Int : x = (u - 1 - (j + 1)) * i  BY <1>3, <4>1
      <4> QED  BY <1>3, <4>1, <4>2, <4>3, <4>4
    <3> QED  BY <3>1
  <2>9. s <= (c + i) - i + p /\ b <= j + 1  BY <1>3, <2>3, <2>6
  <2>10. period[f] \in Periods  BY <2>1 DEF Planned
  <2> QED
    BY <1>7, <1>10, <1>3, <2>2, <2>3, <2>4, <2>5, <2>7, <2>8, <2>9, <2>10 DEF Planned
<1> QED  BY <1>11, <1>12 DEF Scheduled

\* Init establishes the schedule.
LEMMA InitOnTime == Init => Clock /\ Scheduled
BY MgrAssumption DEF Init, Clock, Scheduled

\* Every step of a manager whose clock does not wrap around keeps it.
LEMMA NextOnTime ==
  ASSUME NoWrap, IInv, IInv', Clock, Scheduled, [Next]_vars
  PROVE  Clock' /\ Scheduled'
<1>1. ASSUME UNCHANGED vars PROVE Clock' /\ Scheduled'
  <2>1. Clock'  BY <1>1, ClockSame DEF vars, core
  <2>2. ASSUME NEW f \in Evts, began'[f] # Never PROVE Planned(f)'
    <3>1. Planned(f)  BY <1>1, <2>2 DEF Scheduled, vars, history
    <3>2. Pending(f)' = Pending(f)  BY <1>1 DEF Pending, vars, event
    <3> QED  BY <1>1, <3>1, <3>2, PlannedSame DEF vars, core, manager, event, history
  <2> QED  BY <2>1, <2>2 DEF Scheduled
<1>2. ASSUME NEW e \in Evts, EvtInit(e) \/ EvtDestroy(e) \/ EvtStop(e) \/ EvtCb(e)
      PROVE  Clock' /\ Scheduled'
  BY <1>2, EndedOnTime, CalledOnTime
<1>3. ASSUME NEW e \in Evts, NEW p \in Periods, NEW r \in Repeats, EvtStart(e, p, r)
      PROVE  Clock' /\ Scheduled'
  BY <1>3, StartOnTime
<1> QED
  BY <1>1, <1>2, <1>3, ReturnedOnTime, ManagedOnTime, RunOnTime, TickOnTime, TickedOnTime
  DEF Next, Running

\* What was called of an event on schedule.
LEMMA ImpliedOnTime ==
  ASSUME IInv, Clock, Scheduled
  PROVE  OnTime
<1>1. TypeOK /\ Phases /\ Started /\ RepeatsExact  BY Implied DEF IInv
<1>2. ASSUME NEW e \in Evts, began[e] # Never
      PROVE  IF ticking THEN calls[e] <= Elapsed(e, jiffies)
             ELSE calls[e] = IF began[e] = jiffies THEN 0 ELSE Elapsed(e, jiffies - 1)
  <2>1. Planned(e) /\ Armed(e) /\ live  BY <1>1, <1>2 DEF Scheduled, Started
  <2>2. PICK j \in Nat, b \in Nat, s \in Nat, p \in Nat, c \in Nat, n \in Nat, i \in Nat :
          /\ j = jiffies /\ b = began[e] /\ s = slap[e] /\ p = period[e] /\ c = current
          /\ n = calls[e] /\ i = interval /\ b <= j /\ p > 0 /\ i > 0
    <3>1. /\ jiffies \in Nat /\ began[e] \in Nat /\ slap[e] \in Nat /\ current \in Nat
          /\ calls[e] \in Nat
      BY <1>1, <1>2, Marks DEF TypeOK
    <3>2. began[e] <= jiffies /\ period[e] \in Nat /\ period[e] > 0
      <4>1. began[e] <= jiffies /\ period[e] \in Periods  BY <2>1 DEF Planned
      <4>2. \A q \in Periods : q \in Nat /\ q > 0  BY MgrAssumption
      <4> QED  BY <4>1, <4>2
    <3>3. interval \in Nat /\ interval > 0  BY MgrAssumption
    <3> QED  BY <3>1, <3>2, <3>3
  <2>3. PICK m \in Nat : m = Pending(e) /\ (~ticking => m = 0)
    <3>1. count \in Nat /\ (incb = e => count >= 1)
      BY <1>1, MgrAssumption DEF Phases, TypeOK
    <3>2. ~ticking => incb # e \/ Pending(e) = 0
      BY <1>1, <2>1, MgrAssumption DEF Phases, Pending
    <3> QED  BY <3>1, <3>2 DEF Pending
  <2>4. PICK x \in Int, y \in Int : /\ x = (j - b) * i /\ y = (n + m + 1) * p
                                   /\ s = c - x + y
    BY <2>1, <2>2, <2>3 DEF Planned, OnSchedule
  <2>5. CASE ticking
    <3>1. s <= c + p  BY <2>1, <2>2, <2>5 DEF Planned, Seen
    <3>2. y <= x + p  BY <2>2, <2>4, <3>1
    <3>3. y = (n + m) * p + p
      <4>1. (n + m + 1) * p = (n + m) * p + p  OBVIOUS
      <4> QED  BY <2>4, <4>1
    <3>4. n * p <= (n + m) * p  BY n + m \in Int, n <= n + m, MulMono
    <3>5. n * p <= x
      <4>1. n * p \in Int /\ (n + m) * p \in Int  BY <2>2, <2>3
      <4> QED  BY <2>2, <2>4, <3>2, <3>3, <3>4, <4>1
    <3>6. n <= x \div p
      <4>1. p > 0  BY <2>2
      <4> QED  BY <3>5, <4>1, QuotientIs
    <3> QED  BY <2>2, <2>4, <2>5, <3>6 DEF Elapsed
  <2>6. CASE ~ticking /\ b = j
    <3>1. s <= c + p  BY <2>1, <2>2, <2>6 DEF Planned, Seen
    <3>2. x = 0 /\ y = n * p + p  BY <2>2, <2>3, <2>4, <2>6
    <3>3. n * p <= 0
      <4>1. n * p \in Int  BY <2>2
      <4> QED  BY <2>2, <2>4, <3>1, <3>2, <4>1
    <3>4. n = 0
      <4>1. ASSUME n >= 1 PROVE FALSE
        <5>1. 1 * p <= n * p  BY <2>2, <4>1, MulMono
        <5>2. n * p \in Int  BY <2>2
        <5> QED  BY <2>2, <3>3, <5>1, <5>2
      <4> QED  BY <2>2, <4>1
    <3> QED  BY <2>2, <2>6, <3>4
  <2>7. CASE ~ticking /\ b # j
    <3>1. s <= (c - i) + p  BY <2>1, <2>2, <2>7 DEF Planned, Seen
    <3>2. s > c - i
      <4>1. due[e] # NotDue  BY <1>1, <2>1, <2>7 DEF Armed, Phases
      <4>2. PICK d \in Nat : d = due[e] /\ d >= j /\ s > c + (d - 1 - j) * i
        BY <1>1, <2>1, <2>2, <2>7, <4>1, Marks DEF TypeOK, Clock, Planned
      <4>3. (-1) * i <= (d - 1 - j) * i  BY <2>2, <4>2, MulMono
      <4>4. (d - 1 - j) * i \in Int /\ (-1) * i = -i  BY <2>2, <4>2
      <4> QED  BY <2>2, <4>2, <4>3, <4>4
    <3>3. PICK z \in Int : z = ((j - 1) - b) * i /\ z = x - i
      <4>1. ((j - 1) - b) * i = (j - b) * i - i  BY <2>2
      <4> QED  BY <2>2, <2>4, <4>1
    <3>4. y = (n + 1) * p /\ y = n * p + p  BY <2>2, <2>3, <2>4, <2>7
    <3>5. n * p <= z /\ z < (n + 1) * p
      <4>1. n * p \in Int  BY <2>2
      <4> QED  BY <2>2, <2>4, <3>1, <3>2, <3>3, <3>4, <4>1
    <3>6. n <= z \div p /\ z \div p <= n /\ z \div p \in Int
      BY <2>2, <3>3, <3>5, QuotientIs, DivMod
    <3>7. n = z \div p  BY <2>2, <3>6
    <3> QED  BY <2>2, <2>7, <3>3, <3>7 DEF Elapsed
  <2> QED  BY <2>5, <2>6, <2>7
<1> QED  BY <1>1, <1>2 DEF OnTime

\* However coarse the tick and whatever the callbacks start, stop and start
\* again: after every tick an event has been called once for each period
\* completed since it was started and never before, no period is lost and none
\* drifts, as long as the 32 bits of the manager's clock do not wrap around.
THEOREM EventsOnTime ==
  ASSUME NoWrap
  PROVE  Spec => []OnTime
<1>1. Init => IInv /\ Clock /\ Scheduled  BY InitIInv, InitOnTime
<1>2. IInv /\ Clock /\ Scheduled /\ [Next]_vars => (IInv /\ Clock /\ Scheduled)'
  BY NextIInv, NextOnTime
<1>3. IInv /\ Clock /\ Scheduled => OnTime  BY ImpliedOnTime
<1> QED  BY <1>1, <1>2, <1>3, PTL DEF Spec
==============================================================================
