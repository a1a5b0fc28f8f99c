----------------------------- MODULE TimerWheel ------------------------------
(***************************************************************************)
(* The hierarchical timing wheel of timer/timewheel/itimer/itimer.c (the   *)
(* same code is itimer_internal.c of itimer_pool).  Five vectors of lists: *)
(* tv1 holds one list per tick, each list of tv2..tv5 a block of ticks,    *)
(* cascaded into the lower vectors when the clock enters the block.        *)
(*                                                                         *)
(* The core runs in one thread.  The program calls it when no run is in    *)
(* progress, or from a timer callback in the middle of one; a callback is  *)
(* the state with incb = TRUE, between Fire and Return.                    *)
(*                                                                         *)
(* A node's list is at[n]: <<k, i>> for core->tv<k>.vec[i], Queued for the *)
(* local list of itimer_internal_update, Nowhere for a self-linked head.   *)
(* The order within a list, which decides only which callback of a tick is *)
(* made first, is left open.  Shifts and masks are quotients and           *)
(* remainders by the vector sizes; an IUINT32 is a number below Wrap, which *)
(* is what the five vectors span (8 + 4 * 6 = 32 bits).                    *)
(***************************************************************************)
EXTENDS Integers

CONSTANTS Nodes,      \* struct itimer_node objects of the program
          ITVR_SIZE,  \* lists in tv1 (256)
          ITVN_SIZE,  \* lists in each of tv2 .. tv5 (64)
          Starts,     \* ticks a core is initialised with
          Deltas,     \* distances from timer_jiffies the program asks for
          RunAheads   \* distances of the argument of itimer_core_run

\* Ticks covered by one list of tv2 .. tv5, and by the whole wheel.
Gran2 == ITVR_SIZE
Gran3 == Gran2 * ITVN_SIZE
Gran4 == Gran3 * ITVN_SIZE
Gran5 == Gran4 * ITVN_SIZE
Wrap  == Gran5 * ITVN_SIZE

Ticks == 0 .. Wrap - 1

ASSUME SizeAssumption ==
  /\ ITVR_SIZE \in Nat /\ ITVR_SIZE > 1
  /\ ITVN_SIZE \in Nat /\ ITVN_SIZE > 1
  /\ Starts \subseteq Ticks
  /\ Deltas \subseteq Ticks
  /\ RunAheads \subseteq Ticks

VARIABLES timer_jiffies,  \* core->timer_jiffies: the next tick to process
          at,             \* the list each node is linked on
          expires,        \* node->expires
          ok,             \* node->state = ITIMER_NODE_STATE_OK
          core,           \* node->core # NULL
          target,         \* the argument of the run in progress, or NoRun
          incb,           \* the run is inside a callback
          live            \* the core is initialised

vars == <<timer_jiffies, at, expires, ok, core, target, incb, live>>

NoRun == -1
Nowhere == <<0, 0>>
Queued == <<0, 1>>
Wheel == ({1} \X (0 .. ITVR_SIZE - 1)) \cup ((2 .. 5) \X (0 .. ITVN_SIZE - 1))

U32(x) == x % Wrap

\* Mutant: the difference compared as an unsigned number.
Negative_Unsigned(x) == FALSE
Negative(x) == 2 * U32(x) >= Wrap    \* (IINT32)x < 0

------------------------------------------------------------------------------
\* Mutant: the bound of tv2 off by one.
ListOf_OffByOne(e) ==
  LET idx == U32(e - timer_jiffies)
  IN  IF idx < Gran2 THEN <<1, e % ITVR_SIZE>>
      ELSE IF idx <= Gran3 THEN <<2, (e \div Gran2) % ITVN_SIZE>>
      ELSE IF idx < Gran4 THEN <<3, (e \div Gran3) % ITVN_SIZE>>
      ELSE IF idx < Gran5 THEN <<4, (e \div Gran4) % ITVN_SIZE>>
      ELSE IF Negative(idx) THEN <<1, timer_jiffies % ITVR_SIZE>>
      ELSE <<5, (e \div Gran5) % ITVN_SIZE>>

\* The list itimer_internal_add chooses for a node that expires at e.
ListOf(e) ==
  LET idx == U32(e - timer_jiffies)
  IN  IF idx < Gran2 THEN <<1, e % ITVR_SIZE>>
      ELSE IF idx < Gran3 THEN <<2, (e \div Gran2) % ITVN_SIZE>>
      ELSE IF idx < Gran4 THEN <<3, (e \div Gran3) % ITVN_SIZE>>
      ELSE IF idx < Gran5 THEN <<4, (e \div Gran4) % ITVN_SIZE>>
      ELSE IF Negative(idx) THEN <<1, timer_jiffies % ITVR_SIZE>>
      ELSE <<5, (e \div Gran5) % ITVN_SIZE>>

\* itimer_internal_cascade: the nodes of one upper list are added again.
Cascade(place, list) ==
  [n \in Nodes |-> IF place[n] = list THEN ListOf(expires[n]) ELSE place[n]]

\* The nested ifs of itimer_internal_update, innermost last: a vector is
\* cascaded when the indices into all lower vectors are 0, that is when the
\* tick is a multiple of what one list of the vector covers.
CascadeAt(place, k, gran) ==
  IF timer_jiffies % gran = 0
  THEN Cascade(place, <<k, (timer_jiffies \div gran) % ITVN_SIZE>>)
  ELSE place

\* Mutant: the innermost cascade forgotten.
CascadeAll_NoTv5 ==
  CascadeAt(CascadeAt(CascadeAt(at, 2, Gran2), 3, Gran3), 4, Gran4)

CascadeAll ==
  CascadeAt(CascadeAt(CascadeAt(CascadeAt(at, 2, Gran2),
                                3, Gran3), 4, Gran4), 5, Gran5)

------------------------------------------------------------------------------
\* The program has the processor: no run is in progress, or a callback is.
Calling == target = NoRun \/ incb

NodeInit(n) ==
  /\ Calling
  /\ ~ok[n]
  /\ ok' = [ok EXCEPT ![n] = TRUE]
  /\ at' = [at EXCEPT ![n] = Nowhere]
  /\ core' = [core EXCEPT ![n] = FALSE]
  /\ expires' = [expires EXCEPT ![n] = 0]
  /\ UNCHANGED <<timer_jiffies, target, incb, live>>

NodeDestroy(n) ==
  /\ Calling
  /\ ok[n]
  /\ at' = [at EXCEPT ![n] = Nowhere]
  /\ ok' = [ok EXCEPT ![n] = FALSE]
  /\ core' = [core EXCEPT ![n] = FALSE]
  /\ expires' = [expires EXCEPT ![n] = 0]
  /\ UNCHANGED <<timer_jiffies, target, incb, live>>

\* itimer_node_add unlinks a linked node first, so itimer_node_mod, a
\* deletion followed by an addition, takes the same step.
NodeAdd(n, e) ==
  /\ Calling
  /\ live
  /\ ok[n]
  /\ expires' = [expires EXCEPT ![n] = e]
  /\ at' = [at EXCEPT ![n] = ListOf(e)]
  /\ core' = [core EXCEPT ![n] = TRUE]
  /\ UNCHANGED <<timer_jiffies, ok, target, incb, live>>

NodeDel(n) ==
  /\ Calling
  /\ ok[n]
  /\ at[n] # Nowhere
  /\ at' = [at EXCEPT ![n] = Nowhere]
  /\ core' = [core EXCEPT ![n] = FALSE]
  /\ UNCHANGED <<timer_jiffies, expires, ok, target, incb, live>>

CoreDestroy ==
  /\ target = NoRun
  /\ live
  /\ at' = [n \in Nodes |-> IF at[n] \in Wheel THEN Nowhere ELSE at[n]]
  /\ core' = [n \in Nodes |-> IF at[n] \in Wheel THEN FALSE ELSE core[n]]
  /\ live' = FALSE
  /\ UNCHANGED <<timer_jiffies, expires, ok, target, incb>>

CoreInit(j) ==
  /\ target = NoRun
  /\ ~live
  /\ timer_jiffies' = j
  /\ live' = TRUE
  /\ UNCHANGED <<at, expires, ok, core, target, incb>>

\* itimer_core_run is entered; the loop of itimer_internal_update follows.
CoreRun(j) ==
  /\ target = NoRun
  /\ live
  /\ target' = j
  /\ UNCHANGED <<timer_jiffies, at, expires, ok, core, incb, live>>

\* Mutant: the next tick begins before the callbacks of the last are made.
BetweenTicks_Early == target # NoRun /\ ~incb

\* The loop is between two rounds: every callback of the last tick was made.
BetweenTicks == target # NoRun /\ ~incb /\ \A n \in Nodes : at[n] # Queued

\* One round of the loop up to the callbacks of the tick.
Tick ==
  /\ BetweenTicks
  /\ ~Negative(target - timer_jiffies)
  /\ LET index == timer_jiffies % ITVR_SIZE
         place == CascadeAll
     IN  at' = [n \in Nodes |->
                  IF place[n] = <<1, index>> THEN Queued ELSE place[n]]
  /\ timer_jiffies' = U32(timer_jiffies + 1)
  /\ UNCHANGED <<expires, ok, core, target, incb, live>>

\* Mutant: node->core survives the unlinking.
Fire_KeepsCore(n) ==
  /\ target # NoRun /\ ~incb
  /\ at[n] = Queued
  /\ at' = [at EXCEPT ![n] = Nowhere]
  /\ incb' = TRUE
  /\ UNCHANGED <<timer_jiffies, expires, ok, core, target, live>>

\* A node of the tick is unlinked and its callback entered.
Fire(n) ==
  /\ target # NoRun /\ ~incb
  /\ at[n] = Queued
  /\ at' = [at EXCEPT ![n] = Nowhere]
  /\ core' = [core EXCEPT ![n] = FALSE]
  /\ incb' = TRUE
  /\ UNCHANGED <<timer_jiffies, expires, ok, target, live>>

Return ==
  /\ incb
  /\ incb' = FALSE
  /\ UNCHANGED <<timer_jiffies, at, expires, ok, core, target, live>>

RunDone ==
  /\ BetweenTicks
  /\ Negative(target - timer_jiffies)
  /\ target' = NoRun
  /\ UNCHANGED <<timer_jiffies, at, expires, ok, core, incb, live>>

------------------------------------------------------------------------------
Init ==
  /\ timer_jiffies \in Starts
  /\ at = [n \in Nodes |-> Nowhere]
  /\ expires = [n \in Nodes |-> 0]
  /\ ok = [n \in Nodes |-> FALSE]
  /\ core = [n \in Nodes |-> FALSE]
  /\ target = NoRun
  /\ incb = FALSE
  /\ live = TRUE

Running == Tick \/ (\E n \in Nodes : Fire(n)) \/ Return \/ RunDone

Next ==
  \/ \E n \in Nodes : NodeInit(n) \/ NodeDestroy(n) \/ NodeDel(n)
  \/ \E n \in Nodes, d \in Deltas : NodeAdd(n, U32(timer_jiffies + d))
  \/ CoreDestroy
  \/ \E j \in Starts : CoreInit(j)
  \/ \E d \in RunAheads : CoreRun(U32(timer_jiffies + d))
  \/ Running

Spec == Init /\ [][Next]_vars

\* The thread that runs the core keeps running, and every callback returns.
FairSpec == Spec /\ WF_vars(Running)

------------------------------------------------------------------------------
TypeOK ==
  /\ timer_jiffies \in Ticks
  /\ at \in [Nodes -> Wheel \cup {Nowhere, Queued}]
  /\ expires \in [Nodes -> Ticks]
  /\ ok \in [Nodes -> BOOLEAN]
  /\ core \in [Nodes -> BOOLEAN]
  /\ target \in Ticks \cup {NoRun}
  /\ incb \in BOOLEAN
  /\ live \in BOOLEAN

\* node->core is set exactly while the node is linked: assert(node->core !=
\* NULL) of itimer_node_del and the node->core that itimer_internal_cascade
\* dereferences rely on it.  Only an initialised node of a live core is
\* linked, so no list holds a destroyed node.
CoreWhileLinked ==
  \A n \in Nodes : /\ core[n] <=> at[n] # Nowhere
                   /\ core[n] => ok[n] /\ live

Gran(k) == CASE k = 1 -> 1 [] k = 2 -> Gran2 [] k = 3 -> Gran3
             [] k = 4 -> Gran4 [] k = 5 -> Gran5

\* A list of tv2 .. tv5 is cascaded before any of its nodes is due and less
\* than a turn of its vector before: the block of ticks the list covers
\* begins at or after the next tick processed and holds the tick the node
\* expires at.
BlockAhead ==
  \A n \in Nodes : at[n][1] \in 2 .. 5 =>
    LET gran == Gran(at[n][1])
        left == U32(expires[n] - timer_jiffies)
    IN  /\ at[n][2] = (expires[n] \div gran) % ITVN_SIZE
        /\ expires[n] % gran <= left
        /\ left < gran * ITVN_SIZE

\* The tick at which the wheel, as it stands, will fire n: the first tick
\* that reads its list of tv1, or the one its upper list leads to.
DueOf(n) ==
  CASE at[n][1] = 1 -> U32(timer_jiffies + ((at[n][2] - timer_jiffies) % ITVR_SIZE))
    [] at[n][1] \in 2 .. 5 -> expires[n]
    [] OTHER -> NoRun

Timer == INSTANCE TimerSpec WITH
           NotDue <- NoRun,
           now <- timer_jiffies,
           asked <- expires,
           due <- [n \in Nodes |-> DueOf(n)],
           batch <- {n \in Nodes : at[n] = Queued}

\* The wheel implements the timer it stands for: through any sequence of
\* additions, deletions and cascades every node fires at its own tick, an
\* overdue one at the next, and none is lost, around the wrap of the counter.
ImplementsTimer == Timer!Spec

\* A run ends although its callbacks arm timers again, overdue ones too.
RunEnds == (target # NoRun) ~> (target = NoRun)

==============================================================================
