------------------------------ MODULE TimerSpec ------------------------------
(***************************************************************************)
(* What a timer core promises, whatever structure keeps the timers: a      *)
(* clock of Wrap ticks that wraps around, for every armed node the tick it *)
(* was asked for and the tick it is due at, and a batch of nodes whose     *)
(* tick has come and whose callbacks are still to be made.  Advancing the  *)
(* clock moves into the batch exactly the nodes due at the tick that       *)
(* passes: none is early, none is late, none is lost.                      *)
(***************************************************************************)
EXTENDS Integers

CONSTANTS Nodes,   \* the timer nodes the program owns
          Wrap,    \* the number of values of the tick counter
          NotDue   \* marks a node that is not armed

VARIABLES now,     \* the next tick the core will process
          asked,   \* the tick last asked for, 0 for a node (re)initialised
          due,     \* due[n]: the tick at which n fires, or NotDue
          batch    \* nodes of the tick being processed, callbacks not made yet

vars == <<now, asked, due, batch>>

Ticks == 0 .. Wrap - 1

\* A difference of two ticks is read as a signed number, as (IINT32) does.
Past(t) == 2 * ((t - now) % Wrap) >= Wrap

Init ==
  /\ now \in Ticks
  /\ asked = [n \in Nodes |-> 0]
  /\ due = [n \in Nodes |-> NotDue]
  /\ batch = {}

\* Arm n for tick t; a tick that has passed means the next one processed.
Arm(n, t) ==
  /\ asked' = [asked EXCEPT ![n] = t]
  /\ UNCHANGED now
  /\ batch' = batch \ {n}
  /\ due' = [due EXCEPT ![n] = IF Past(t) THEN now ELSE t]

Disarm(n) ==
  /\ asked' \in {asked, [asked EXCEPT ![n] = 0]}
  /\ UNCHANGED now
  /\ batch' = batch \ {n}
  /\ due' = [due EXCEPT ![n] = NotDue]

\* Every armed node is dropped; the nodes of the batch keep their callbacks.
DisarmAll ==
  /\ due' = [n \in Nodes |-> NotDue]
  /\ UNCHANGED <<now, asked, batch>>

Advance ==
  /\ now' = (now + 1) % Wrap
  /\ batch = {}
  /\ batch' = {n \in Nodes : due[n] = now}
  /\ due' = [n \in Nodes |-> IF due[n] = now THEN NotDue ELSE due[n]]
  /\ UNCHANGED asked

Fire(n) ==
  /\ n \in batch
  /\ batch' = batch \ {n}
  /\ UNCHANGED <<now, asked, due>>

\* A core may be initialised again, at any tick, once nothing is armed.
Restart ==
  /\ due = [n \in Nodes |-> NotDue]
  /\ now' \in Ticks
  /\ UNCHANGED <<asked, due, batch>>

Next ==
  \/ Advance
  \/ Restart
  \/ \E n \in Nodes : Fire(n) \/ Disarm(n)
  \/ DisarmAll
  \/ \E n \in Nodes, t \in Ticks : Arm(n, t)

Spec == Init /\ [][Next]_vars

==============================================================================
