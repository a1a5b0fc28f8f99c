------------------------------- MODULE CoEpoll -------------------------------
(***************************************************************************)
(* co_epoll.cpp where there is no epoll: the calls of epoll are made with  *)
(* kqueue, which has two filters of a descriptor, for reading and for      *)
(* writing.  A kevent_pair_t per descriptor, found by a map and by the     *)
(* udata of the filters, puts the events of both filters into one.         *)
(*                                                                         *)
(* One thread, with its map and its queue.  ERR and HUP register nothing   *)
(* and are left out of the events; how long a wait waits is left open (the *)
(* code hands the milliseconds of epoll_wait to kqueue as seconds).        *)
(***************************************************************************)
EXTENDS Naturals, Sequences, FiniteSets

CONSTANTS Fds,
          Users64,    \* what programs keep in epoll_event.data
          MaxEvents   \* size of co_epoll_res, and maxevents of the waits

Filters == {"IN", "OUT"}  \* EVFILT_READ, EVFILT_WRITE, and EPOLLIN, EPOLLOUT

VARIABLES
  map,        \* clsFdMap: the pair of a descriptor (events, u64), or Null
  kq,         \* udata of a filter: "pair" (the pair in the map), "freed", or "none"
  events,     \* events->events: what the program reads after a wait; Old is all that
              \* the wait itself did not write
  fired,      \* the eventlist of the wait, in order, and what told was then; read before
              \* the next call
  ret,        \* what the wait returned
  told,       \* history: the data of the last epoll_ctl that succeeded
  closed,     \* history: descriptors that were closed since
  half,       \* history: descriptors of which one filter could be registered, not both
  stray       \* a wait went to a pair that is freed

history == <<told, closed, half>>
vars == <<map, kq, events, fired, ret, history, stray>>

Null == [events |-> {"none"}, u64 |-> 0]
NoFilter == [d \in Filters |-> "none"]
Old == [events |-> {"old"}, u64 |-> 0]

\* clsFdMap(), co_epoll_create and co_epoll_res_alloc
Init ==
  /\ map = [f \in Fds |-> Null] /\ kq = [f \in Fds |-> NoFilter]
  /\ events = [i \in 1 .. MaxEvents |-> Old]
  /\ fired = <<>> /\ ret = 0
  /\ told = [f \in Fds |-> 0] /\ closed = {} /\ half = {} /\ stray = FALSE

\* clsFdMap: get, set and clear
get(f)    == map[f]
set(f, p) == map' = [map EXCEPT ![f] = p]
clear(f)  == set(f, Null)

\* The program has read what the last wait wrote.
Read ==
  /\ events' = [i \in 1 .. MaxEvents |-> Old]
  /\ fired' = <<>> /\ ret' = 0

\* Where the filters of a pair point when it is freed
Orphans(filters) == [d \in Filters |-> IF filters[d] = "pair" THEN "freed" ELSE filters[d]]

-----------------------------------------------------------------------------
\* co_epoll_del: the filters that the pair says are registered, and the pair
Deleted(f) == [d \in Filters |-> IF d \in get(f).events THEN "none" ELSE kq[f][d]]
Del(f) ==
  /\ ~stray
  /\ IF get(f) = Null THEN UNCHANGED <<map, kq>>
     ELSE clear(f) /\ kq' = [kq EXCEPT ![f] = Orphans(Deleted(f))]
  /\ closed' = closed \ {f}
  /\ Read /\ UNCHANGED <<told, half, stray>>

\* "delete if exists": what is registered before the new filters are
Rest(f, op) == IF op = "MOD" THEN Deleted(f) ELSE kq[f]

\* What kevent says of the deletion of the write filter, which is all that counts
RestFails(f, op) ==
  op = "MOD" /\ "OUT" \in get(f).events /\ kq[f]["OUT"] = "none"

\* The new filters, in order: read, then write, unless kevent refuses one.
Added(want, refused) ==
  {d \in want : d # refused /\ ~(d = "OUT" /\ refused = "IN")}

\* co_epoll_ctl with EPOLL_CTL_ADD and EPOLL_CTL_MOD: want is what is asked for,
\* refused the filter that kevent does not take, if there is one.
Ctl(f, op, want, data, refused) ==
  /\ ~stray
  /\ op = "ADD" <=> get(f) = Null   \* EEXIST and ENOENT else
  /\ refused \in want \cup {"none"}
  /\ LET added   == Added(want, refused)
         filters == [d \in Filters |-> IF d \in added THEN "pair" ELSE Rest(f, op)[d]]
         fails   == IF want = {} THEN RestFails(f, op) ELSE refused # "none"
     IN IF fails
        THEN /\ clear(f) /\ kq' = [kq EXCEPT ![f] = Orphans(filters)]
             /\ half' = IF added = {} THEN half ELSE half \cup {f}
             /\ UNCHANGED told
        ELSE /\ set(f, [events |-> want, u64 |-> data])
             /\ kq' = [kq EXCEPT ![f] = filters]
             /\ told' = [told EXCEPT ![f] = data]
             /\ UNCHANGED half
  /\ closed' = closed \ {f}
  /\ Read /\ UNCHANGED stray

\* The program closes the descriptor, and the kernel drops its filters.
Close(f) ==
  /\ ~stray /\ kq[f] # NoFilter
  /\ kq' = [kq EXCEPT ![f] = NoFilter]
  /\ closed' = closed \cup {f}
  /\ Read /\ UNCHANGED <<map, told, half, stray>>

-----------------------------------------------------------------------------
Registered == {<<f, d>> \in Fds \X Filters : kq[f][d] # "none"}

\* The lists that kevent may give: some of the registered filters, each once
Lists ==
  {l \in UNION {[1 .. n -> Registered] : n \in 0 .. MaxEvents} :
     \A i, j \in DOMAIN l : l[i] = l[j] => i = j}

\* fire_idx: the place of a descriptor's first filter in the list
FireIdx(l, f) == CHOOSE i \in DOMAIN l : l[i][1] = f /\ \A j \in 1 .. i - 1 : l[j][1] # f

\* The filters of the descriptor at place i that are in the list
Fired(l, i) == {l[j][2] : j \in {k \in DOMAIN l : l[k][1] = l[i][1]}}

\* co_epoll_wait: events go where the descriptor fired first, and the places of its
\* second filters keep what was there.
Wait(l) ==
  /\ ~stray
  /\ fired' = [i \in DOMAIN l |-> [fd |-> l[i][1], told |-> told[l[i][1]], by |-> Fired(l, i)]]
  /\ IF \E i \in DOMAIN l : kq[l[i][1]][l[i][2]] = "freed"
     THEN stray' = TRUE /\ UNCHANGED <<events, ret>>
     ELSE /\ events' = [i \in 1 .. MaxEvents |->
               IF i \in DOMAIN l /\ FireIdx(l, l[i][1]) = i
               THEN [events |-> Fired(l, i), u64 |-> get(l[i][1]).u64] ELSE Old]
          /\ ret' = Cardinality({l[i][1] : i \in DOMAIN l})
          /\ UNCHANGED stray
  /\ UNCHANGED <<map, kq, history>>

Next ==
  \/ \E f \in Fds :
       \/ Del(f) \/ Close(f)
       \/ \E op \in {"ADD", "MOD"}, want \in SUBSET Filters, data \in Users64,
            refused \in Filters \cup {"none"} : Ctl(f, op, want, data, refused)
  \/ \E l \in Lists : Wait(l)

-----------------------------------------------------------------------------
\* What is registered is what the last call asked for, unless the descriptor was closed
\* meanwhile, and no filter keeps a pair that is freed, unless one filter of the
\* descriptor was refused after the other one was taken.
FiltersAgree ==
  \A f \in Fds :
    LET mine == {d \in Filters : kq[f][d] = "pair"}
    IN /\ IF get(f) = Null THEN mine = {}
          ELSE mine = (IF f \in closed THEN {} ELSE get(f).events) /\ get(f).u64 = told[f]
       /\ (\E d \in Filters : kq[f][d] = "freed") => f \in half

\* No descriptor fired again before another one fired for the first time.
NoHole == \A i, j \in 1 .. ret : fired[i].fd = fired[j].fd => i = j

\* After a wait the program reads as many events as descriptors fired, and unless one
\* fired twice before another one did, they are these descriptors, each once with all
\* that fired of it and with the data it was registered with last.
WaitTells ==
  /\ ret = Cardinality({fired[i].fd : i \in DOMAIN fired})
  /\ NoHole => \A i \in 1 .. ret : events[i] = [events |-> fired[i].by, u64 |-> fired[i].told]

\* epoll is kept up as long as kqueue takes both filters of a descriptor or none.
KqueueServes == FiltersAgree /\ (IF stray THEN half # {} ELSE WaitTells)
===============================================================================
