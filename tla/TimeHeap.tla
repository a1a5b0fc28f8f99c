------------------------------- MODULE TimeHeap -------------------------------
(***************************************************************************)
(* zebra_epoll/min_heap.c: timers in a binary heap by their expiry.  A     *)
(* deleted timer stays in the heap without its callback (lazy delete), a   *)
(* callback of time_heap_tick may add and delete timers, the array is      *)
(* doubled when it is full.                                                *)
(*                                                                         *)
(* The clock stays below 2^32 ms here: an expiry that wraps is the hazard  *)
(* at min_heap.c:196 of the README.                                        *)
(***************************************************************************)
EXTENDS Naturals, FiniteSetsExt

CONSTANTS MaxNodes,   \* bound: timers allocated at a time
          Capacity,   \* TIME_HEAP_NODE_ISIZE
          Timeouts,
          MaxClock    \* bound: of the clock

Nodes == 1 .. MaxNodes
Null  == 0

VARIABLES
  nodes, cursize,    \* the array; what it holds from cursize on is not read, here Null
  node,              \* of an allocated node: expire, cb
  clock,
  at,                \* "idle", or in time_heap_tick: "loop", "cb"; in cl_time_heap_tick: "cl"
  cur,               \* the tick's time, 0 outside
  ran                \* allocated nodes whose callback ran, or whose args were returned

vars == <<nodes, cursize, node, clock, at, cur, ran>>

Free == [expire |-> 0, cb |-> FALSE]
Allocated == {n \in Nodes : node[n] # Free}
Expire(h, i) == node[h[i]].expire

\* time_heap_init
Init ==
  /\ nodes = [i \in 0 .. Capacity - 1 |-> Null] /\ cursize = 0
  /\ node = [n \in Nodes |-> Free]
  /\ clock = 1 /\ at = "idle" /\ cur = 0 /\ ran = {}

\* time_heap_resize
Resize ==
  IF cursize < Cardinality(DOMAIN nodes) THEN nodes
  ELSE [i \in 0 .. 2 * Cardinality(DOMAIN nodes) - 1 |-> IF i < cursize THEN nodes[i] ELSE Null]

\* insert_time_heap: n, which expires at e, from the hole at index last up
Insert(h, n, e, last) ==
  LET up[i \in 0 .. last] ==
        LET parent == (i - 1) \div 2 IN
        IF i = 0 \/ Expire(h, parent) =< e THEN [h EXCEPT ![i] = n]
        ELSE [up[parent] EXCEPT ![i] = h[parent]]
  IN up[last]

\* Mutant: the right child is not looked at.
Child_Left(h, size, i) == 2 * i + 1

\* The child that expires first
Child(h, size, i) ==
  LET left == 2 * i + 1 IN
  IF left < size - 1 /\ Expire(h, left + 1) < Expire(h, left) THEN left + 1 ELSE left

\* percolate_down from the root
PercolateDown(h, size) ==
  LET down[i \in DOMAIN h] ==
        LET child == Child(h, size, i) IN
        IF 2 * i + 1 =< size - 1 /\ Expire(h, child) < Expire(h, 0)
        THEN [down[child] EXCEPT ![i] = h[child]]
        ELSE [h EXCEPT ![i] = h[0]]
  IN down[0]

\* pop_timer
Pop ==
  LET size == cursize - 1
      h    == [nodes EXCEPT ![0] = IF size = 0 THEN Null ELSE nodes[size]]
  IN /\ nodes' = [PercolateDown(h, size) EXCEPT ![size] = Null] /\ cursize' = size
     /\ node' = [node EXCEPT ![nodes[0]] = Free]
     /\ ran' = ran \ {nodes[0]}

\* time_heap_add_timer
AddTimer(timeout) ==
  /\ at \in {"idle", "cb"}
  /\ \E n \in Nodes \ Allocated :
       /\ \A m \in Nodes \ Allocated : n =< m
       /\ node' = [node EXCEPT ![n] = [expire |-> clock + timeout, cb |-> TRUE]]
       /\ nodes' = Insert(Resize, n, clock + timeout, cursize)
  /\ cursize' = cursize + 1
  /\ UNCHANGED <<clock, at, cur, ran>>

\* time_heap_del_timer
DelTimer(n) ==
  /\ at \in {"idle", "cb"} /\ n \in Allocated /\ node[n].cb
  /\ node' = [node EXCEPT ![n].cb = FALSE]
  /\ UNCHANGED <<nodes, cursize, clock, at, cur, ran>>

\* time_heap_tick, cl_time_heap_tick
Tick(how) ==
  /\ at = "idle"
  /\ at' = how /\ cur' = clock
  /\ UNCHANGED <<nodes, cursize, node, clock, ran>>

Due == cursize > 0 /\ nodes[0] # Null /\ Expire(nodes, 0) =< cur

\* The callback of the first node begins, ...
Callback ==
  /\ at = "loop" /\ Due /\ node[nodes[0]].cb
  /\ at' = "cb" /\ ran' = ran \cup {nodes[0]}
  /\ UNCHANGED <<nodes, cursize, node, clock, cur>>

\* ... and returns
CallbackReturns ==
  /\ at = "cb"
  /\ Pop /\ at' = "loop"
  /\ UNCHANGED <<clock, cur>>

\* A deleted node, and a node that cl_time_heap_tick returns
PopDue ==
  /\ at \in {"loop", "cl"} /\ Due
  /\ at = "loop" => ~node[nodes[0]].cb
  /\ Pop
  /\ IF node[nodes[0]].cb THEN at' = "idle" /\ cur' = 0 ELSE UNCHANGED <<at, cur>>
  /\ UNCHANGED clock

TickEnds ==
  /\ at \in {"loop", "cl"} /\ ~Due
  /\ at' = "idle" /\ cur' = 0
  /\ UNCHANGED <<nodes, cursize, node, clock, ran>>

\* time_heap_top, time_heap_top_expire
TopExpire == Expire(nodes, 0)

\* time_heap_time_wait: how long the program may sleep
TimeWait == IF TopExpire > clock THEN TopExpire - clock ELSE 1

\* time_head_free, and time_heap_init for the next heap
HeadFree ==
  /\ at = "idle" /\ cursize > 0
  /\ node' = [n \in Nodes |-> IF \E i \in 0 .. cursize - 1 : nodes[i] = n THEN Free ELSE node[n]]
  /\ nodes' = [i \in 0 .. Capacity - 1 |-> Null] /\ cursize' = 0
  /\ UNCHANGED <<clock, at, cur, ran>>

Elapse ==
  /\ clock < MaxClock
  /\ clock' = clock + 1
  /\ UNCHANGED <<nodes, cursize, node, at, cur, ran>>

Next ==
  \/ \E timeout \in Timeouts : AddTimer(timeout)
  \/ \E n \in Nodes : DelTimer(n)
  \/ Tick("loop") \/ Tick("cl")
  \/ Callback \/ CallbackReturns \/ PopDue \/ TickEnds \/ HeadFree \/ Elapse

-----------------------------------------------------------------------------
\* What time_heap_tick relies on: the array holds each allocated node once, the node
\* whose callback runs is still the first one when it is popped, whatever the callback
\* added or deleted, and no node runs twice.  When the loop stops nothing in the heap
\* is due, not only the first node, and no timer expires while the program sleeps.
HeapFires ==
  /\ {nodes[i] : i \in 0 .. cursize - 1} = Allocated /\ Cardinality(Allocated) = cursize
  /\ ran = IF at = "cb" THEN {nodes[0]} ELSE {}
  /\ at \in {"loop", "cl"} /\ ~Due => \A n \in Allocated : node[n].expire > cur
  /\ \A n \in Allocated : node[n].expire > clock => clock + TimeWait =< node[n].expire
=============================================================================
