------------------------------- MODULE ClThread -------------------------------
(***************************************************************************)
(* framework/zebra_epoll: the event loop of cl_thread.c.  A program adds   *)
(* read, write, timer and event threads to a master; cl_thread_fetch takes *)
(* the next one that is due, and its callback adds and cancels others.     *)
(*                                                                         *)
(* Everything runs in one OS thread, so a call of the interface and one    *)
(* round of a loop in cl_thread_fetch are actions.  The other actor is the *)
(* kernel: the interest set of each descriptor (ep), and what epoll_wait   *)
(* chooses to report.  Time is abstract: any armed timer may be due.  The  *)
(* heap is the set of threads that are the args of one of its nodes; a     *)
(* node that was deleted lazily has none and does nothing.                 *)
(***************************************************************************)
EXTENDS Naturals, Sequences, FiniteSets

CONSTANTS Fds,         \* descriptors of the program
          MaxThreads,  \* bound on the cl_thread_t objects ever allocated
          Kinds        \* the types of threads the program adds

Dirs == {"READ", "WRITE"}
Lists == Dirs \union {"TIMER", "EVENT", "READY", "UNUSED"}
Threads == 1 .. MaxThreads
NULL == 0

ASSUME ClAssumption ==
  /\ MaxThreads \in Nat
  /\ Kinds \subseteq Dirs \union {"TIMER", "EVENT"}
  /\ Fds # {}

VARIABLES th,     \* cl_thread_t: type ("NEW" before it is allocated) and u.fd
          lists,  \* the lists of the master, by the type of their threads
          armed,  \* threads that are the args of a node of m->heap
          sock,   \* cl_thread_socket_t of each descriptor
          ep,     \* kernel: what is listened for; {} when not registered
          pc,     \* "call": in the program; "fetch", "events": in the loop
          evs,    \* m->evs: the directions epoll_wait reported of each
                  \* descriptor that is not handled yet
          crash   \* how the process ended, or "no"

vars == <<th, lists, armed, sock, ep, pc, evs, crash>>

------------------------------------------------------------------------------
(* stlc_list.h, on all lists of the master at once. *)

\* A list without an element, which is in it once if at all.
Unlink(s, t) ==
  IF \E k \in DOMAIN s : s[k] = t
  THEN LET k == CHOOSE k \in DOMAIN s : s[k] = t
       IN  SubSeq(s, 1, k - 1) \o SubSeq(s, k + 1, Len(s))
  ELSE s

Del(L, t) == [l \in Lists |-> Unlink(L[l], t)]
AddHead(L, l, t) == [L EXCEPT ![l] = <<t>> \o @]

\* Mutant: an event is added where it is taken from.
AddTail_AtHead(L, l, t) == AddHead(L, l, t)

AddTail(L, l, t) == [L EXCEPT ![l] = Append(@, t)]

\* cl_thread_get: the head of the unused threads, or a new one.
Get(t) ==
  IF lists["UNUSED"] # <<>> THEN t = Head(lists["UNUSED"])
  ELSE th[t].type = "NEW" /\ \A u \in 1 .. t - 1 : th[u].type # "NEW"

\* The kernel's side of epoll_ctl with EPOLL_CTL_ADD or _MOD, as s->op says:
\* an ADD of a registered descriptor and a MOD of another one fail, and
\* nothing looks at the result.
Ctl(fd, events) ==
  [ep EXCEPT ![fd] = IF (sock[fd].op = "ADD") = (@ = {}) THEN events ELSE @]

\* EPOLL_CTL_DEL.
CtlDel(fd) == [ep EXCEPT ![fd] = {}]

InProgram == pc = "call" /\ crash = "no"
InFetch == pc = "fetch" /\ crash = "no"
InEvents == pc = "events" /\ crash = "no"

------------------------------------------------------------------------------
(* What a program may call, before the loop or in a callback. *)

\* Mutant: the other direction is left out of the new interest set.
AddIO_Alone(d, fd, persist) ==
  /\ InProgram /\ d \in Kinds
  /\ d \notin sock[fd].type
  /\ \E t \in Threads :
       /\ Get(t)
       /\ th' = [th EXCEPT ![t] = [type |-> d, fd |-> fd]]
       /\ sock' = [sock EXCEPT ![fd] =
            [type |-> @.type \union {d},
             persist |-> IF persist THEN @.persist \union {d} ELSE @.persist \ {d},
             op |-> "ADDED", t |-> [@.t EXCEPT ![d] = t]]]
       /\ ep' = Ctl(fd, {d})
       /\ lists' = AddTail(Del(lists, t), d, t)
       /\ UNCHANGED crash
  /\ UNCHANGED <<armed, pc, evs>>

\* cl_thread_add_read and cl_thread_add_write, which differ in the direction
\* only.  There is one thread of a direction per descriptor: a second is
\* refused.
AddIO(d, fd, persist) ==
  /\ InProgram /\ d \in Kinds
  /\ d \notin sock[fd].type
  /\ \E t \in Threads :
       /\ Get(t)
       /\ IF sock[fd].t[d] # NULL
          THEN crash' = "assert" /\ UNCHANGED <<th, sock, ep, lists>>
          ELSE /\ th' = [th EXCEPT ![t] = [type |-> d, fd |-> fd]]
               /\ sock' = [sock EXCEPT ![fd] =
                    [type |-> @.type \union {d},
                     persist |-> IF persist THEN @.persist \union {d}
                                            ELSE @.persist \ {d},
                     op |-> "ADDED", t |-> [@.t EXCEPT ![d] = t]]]
               /\ ep' = Ctl(fd, sock[fd].type \union {d})
               /\ lists' = AddTail(Del(lists, t), d, t)
               /\ UNCHANGED crash
  /\ UNCHANGED <<armed, pc, evs>>

AddRead(fd, persist) == AddIO("READ", fd, persist)
AddWrite(fd, persist) == AddIO("WRITE", fd, persist)

AddTimer ==
  /\ InProgram /\ "TIMER" \in Kinds
  /\ \E t \in Threads :
       /\ Get(t)
       /\ th' = [th EXCEPT ![t].type = "TIMER"]
       /\ lists' = AddTail(Del(lists, t), "TIMER", t)
       /\ armed' = armed \union {t}
  /\ UNCHANGED <<sock, ep, pc, evs, crash>>

AddEvent ==
  /\ InProgram /\ "EVENT" \in Kinds
  /\ \E t \in Threads :
       /\ Get(t)
       /\ th' = [th EXCEPT ![t].type = "EVENT"]
       /\ lists' = AddTail(Del(lists, t), "EVENT", t)
  /\ UNCHANGED <<armed, sock, ep, pc, evs, crash>>

\* The end of cl_thread_cancel and cl_thread_add_unuse: a thread that is in
\* no list becomes the first of the unused ones.
Unuse(t) ==
  /\ th' = [th EXCEPT ![t].type = "UNUSED"]
  /\ lists' = AddHead(Del(lists, t), "UNUSED", t)

\* cl_thread_cancel_read and cl_thread_cancel_write: the socket of a thread is
\* never missing, as only cl_thread_stop removes sockets.
CancelIO(d, t) ==
  LET fd == th[t].fd
      others == sock[fd].type \ {d}
  IN  IF sock[fd].t[d] # t
      THEN crash' = "assert" /\ UNCHANGED <<th, lists, armed, sock, ep>>
      ELSE /\ sock' = [sock EXCEPT ![fd] =
                [type |-> others, persist |-> @.persist \ {d},
                 op |-> IF others = {} THEN "ADD" ELSE "ADDED",
                 t |-> [@.t EXCEPT ![d] = NULL]]]
           /\ ep' = IF others = {} THEN CtlDel(fd) ELSE Ctl(fd, others)
           /\ Unuse(t)
           /\ UNCHANGED <<armed, crash>>

\* Mutant: the node of a cancelled timer keeps its args.
CancelTimer_KeepsNode(t) == Unuse(t) /\ UNCHANGED <<armed, sock, ep, crash>>

CancelTimer(t) ==
  /\ armed' = armed \ {t}
  /\ Unuse(t)
  /\ UNCHANGED <<sock, ep, crash>>

\* cl_thread_cancel of a thread that has not run yet or is persistent.  The
\* case CL_THREAD_READY has no break: after cl_thread_cancel_ready comes the
\* store through a null pointer of the default case.
Cancel(t) ==
  /\ InProgram
  /\ \/ /\ th[t].type \in Dirs
        /\ CancelIO(th[t].type, t)
     \/ /\ th[t].type = "TIMER"
        /\ CancelTimer(t)
     \/ /\ th[t].type = "EVENT"
        /\ Unuse(t)
        /\ UNCHANGED <<armed, sock, ep, crash>>
     \/ /\ th[t].type = "READY"
        /\ crash' = "null"
        /\ UNCHANGED <<th, lists, armed, sock, ep>>
  /\ UNCHANGED <<pc, evs>>

\* The callback returns, and the program calls cl_thread_fetch again.
Return ==
  /\ InProgram
  /\ pc' = "fetch"
  /\ UNCHANGED <<th, lists, armed, sock, ep, evs, crash>>

\* The elements of a list that are not in T, in their order: the i-th of the
\* places that remain has i - 1 of them before it.
Without(s, T) ==
  LET kept == {k \in DOMAIN s : s[k] \notin T}
      place(i) == CHOOSE k \in kept : Cardinality({j \in kept : j < k}) = i - 1
  IN  [i \in 1 .. Cardinality(kept) |-> s[place(i)]]

ThreadsIn(ls) == {t \in Threads : \E l \in ls : \E i \in 1 .. Len(lists[l]) : lists[l][i] = t}

\* What cl_thread_rb_free frees: both threads of every socket.
SocketThreads == {sock[fd].t[d] : fd \in Fds, d \in Dirs} \ {NULL}

\* cl_thread_stop frees the threads of four lists, then those of the sockets:
\* a ready thread is among both.
Stop ==
  /\ InProgram
  /\ LET listed == ThreadsIn({"EVENT", "TIMER", "READY", "UNUSED"})
         freed == listed \union SocketThreads
     IN  /\ lists' = [l \in Lists |-> Without(lists[l], freed)]
         /\ th' = [t \in Threads |-> IF t \in freed THEN [th[t] EXCEPT !.type = "NEW"]
                                                     ELSE th[t]]
         /\ crash' = IF listed \intersect SocketThreads # {} THEN "free" ELSE "no"
  /\ armed' = {}
  /\ sock' = [fd \in Fds |-> [type |-> {}, persist |-> {}, op |-> "ADD",
                              t |-> [d \in Dirs |-> NULL]]]
  /\ ep' = [fd \in Fds |-> {}]
  /\ pc' = "stopped"
  /\ UNCHANGED evs

------------------------------------------------------------------------------
(* cl_thread_fetch *)

\* cl_thread_socket_set: a ready thread leaves its socket, or listens again if
\* it is persistent.
SocketSet(t) ==
  LET fd == th[t].fd
      d == IF sock[fd].t["READ"] = t THEN "READ" ELSE "WRITE"
  IN  IF sock[fd].t[d] # t
      THEN lists' = Del(lists, t) /\ UNCHANGED <<th, sock>>
      ELSE IF d \in sock[fd].persist
      THEN /\ th' = [th EXCEPT ![t].type = d]
           /\ lists' = AddHead(Del(lists, t), d, t)
           /\ UNCHANGED sock
      ELSE /\ sock' = [sock EXCEPT ![fd].type = @ \ {d}, ![fd].t[d] = NULL]
           /\ Unuse(t)

\* cl_thread_run, for a thread that is in no list any more, and the call of
\* cl_thread_call that follows: the thread is given back before its callback
\* runs.
Run(t) ==
  /\ IF th[t].type = "READY" THEN SocketSet(t) ELSE Unuse(t) /\ UNCHANGED sock
  /\ pc' = "call"

RunEvent ==
  /\ InFetch
  /\ lists["EVENT"] # <<>>
  /\ Run(Head(lists["EVENT"]))
  /\ UNCHANGED <<armed, ep, evs, crash>>

RunTimer(t) ==
  /\ InFetch
  /\ lists["EVENT"] = <<>>
  /\ t \in armed
  /\ armed' = armed \ {t}
  /\ Run(t)
  /\ UNCHANGED <<ep, evs, crash>>

\* The ready list is looked at before and after epoll_wait.
RunReady ==
  /\ \/ InFetch /\ lists["EVENT"] = <<>>
     \/ InEvents /\ \A fd \in Fds : evs[fd] = {}
  /\ lists["READY"] # <<>>
  /\ Run(Head(lists["READY"]))
  /\ UNCHANGED <<armed, ep, evs, crash>>

\* epoll_wait reports, of some registered descriptors, what is listened for,
\* or an error or hang-up, which nobody asks for and cl_thread_do_event takes
\* for both directions.
Wait ==
  /\ InFetch
  /\ lists["EVENT"] = <<>> /\ lists["READY"] = <<>>
  /\ \E e \in [Fds -> SUBSET Dirs] :
       /\ \A fd \in Fds : ep[fd] = {} => e[fd] = {}
       /\ \A fd \in Fds : e[fd] \subseteq ep[fd] \/ e[fd] = Dirs
       /\ \E fd \in Fds : e[fd] # {}
       /\ evs' = e
  /\ pc' = "events"
  /\ UNCHANGED <<th, lists, armed, sock, ep, crash>>

\* epoll_wait times out: the loop starts again.
Timeout ==
  /\ InFetch
  /\ lists["EVENT"] = <<>> /\ lists["READY"] = <<>>
  /\ UNCHANGED vars

\* The directions that were reported and have a thread.
Woken(fd) == evs[fd] \intersect sock[fd].type

\* A woken thread that is not ready yet goes to the head of the ready list.
Ready(L, fd, d) ==
  LET t == sock[fd].t[d]
  IN  IF d \in Woken(fd) /\ th[t].type # "READY" THEN AddHead(Del(L, t), "READY", t)
      ELSE L

\* What is listened for afterwards: all but the reported directions that are
\* not persistent.
Rest(fd) == sock[fd].type \ (Woken(fd) \ sock[fd].persist)

\* cl_thread_do_event for one descriptor, the read thread first.
DoEvent(fd) ==
  LET threads == {sock[fd].t[d] : d \in Woken(fd)}
  IN  /\ InEvents
      /\ evs[fd] # {}
      /\ evs' = [evs EXCEPT ![fd] = {}]
      /\ IF NULL \in threads
         THEN crash' = "assert" /\ UNCHANGED <<th, lists, sock, ep>>
         ELSE /\ th' = [t \in Threads |->
                   IF t \in threads THEN [th[t] EXCEPT !.type = "READY"] ELSE th[t]]
              /\ lists' = Ready(Ready(lists, fd, "READ"), fd, "WRITE")
              /\ IF Woken(fd) \subseteq sock[fd].persist
                 THEN UNCHANGED <<sock, ep>>
                 ELSE /\ sock' = [sock EXCEPT ![fd].op = IF Rest(fd) = {} THEN "ADD" ELSE "ADDED"]
                      /\ ep' = IF Rest(fd) = {} THEN CtlDel(fd) ELSE Ctl(fd, Rest(fd))
              /\ UNCHANGED crash
      /\ UNCHANGED <<armed, pc>>

\* Nothing became ready: the loop starts again.
NoneReady ==
  /\ InEvents /\ \A fd \in Fds : evs[fd] = {}
  /\ lists["READY"] = <<>>
  /\ pc' = "fetch"
  /\ UNCHANGED <<th, lists, armed, sock, ep, evs, crash>>

------------------------------------------------------------------------------
\* cl_thread_init
Init ==
  /\ th = [t \in Threads |-> [type |-> "NEW", fd |-> CHOOSE fd \in Fds : TRUE]]
  /\ lists = [l \in Lists |-> <<>>]
  /\ armed = {}
  /\ sock = [fd \in Fds |-> [type |-> {}, persist |-> {}, op |-> "ADD",
                             t |-> [d \in Dirs |-> NULL]]]
  /\ ep = [fd \in Fds |-> {}]
  /\ pc = "call"
  /\ evs = [fd \in Fds |-> {}]
  /\ crash = "no"

Program ==
  \/ \E fd \in Fds, p \in BOOLEAN : AddRead(fd, p) \/ AddWrite(fd, p)
  \/ AddTimer \/ AddEvent
  \/ \E t \in Threads : Cancel(t)
  \/ Stop

\* cl_thread_fetch outside of epoll_wait.
Fetch ==
  \/ RunEvent \/ RunReady \/ NoneReady
  \/ \E t \in Threads : RunTimer(t)
  \/ \E fd \in Fds : DoEvent(fd)

\* cl_thread_fetch_lock: in one thread the lock around the timers changes nothing.
FetchLock == Fetch

Next == Program \/ Return \/ Fetch \/ FetchLock \/ Wait \/ Timeout

\* A callback returns in the end, and the loop goes on where it does not wait.
Spec == Init /\ [][Next]_vars /\ WF_vars(Return) /\ WF_vars(Fetch)

------------------------------------------------------------------------------
(* Properties *)

TypeOK ==
  /\ th \in [Threads -> [type : Lists \union {"NEW"}, fd : Fds]]
  /\ DOMAIN lists = Lists /\ \A l \in Lists : lists[l] \in Seq(Threads)
  /\ armed \subseteq Threads
  /\ sock \in [Fds -> [type : SUBSET Dirs, persist : SUBSET Dirs, op : {"ADD", "ADDED"},
                       t : [Dirs -> Threads \union {NULL}]]]
  /\ ep \in [Fds -> SUBSET Dirs]
  /\ pc \in {"call", "fetch", "events", "stopped"}
  /\ evs \in [Fds -> SUBSET Dirs]
  /\ crash \in {"no", "assert", "null", "free"}

Running == crash = "no" /\ pc # "stopped"

\* t is in the list l, at one place of it, and in no other list.
OnlyIn(t, l) ==
  \E i \in DOMAIN lists[l] :
    /\ lists[l][i] = t
    /\ \A k \in Lists : \A j \in DOMAIN lists[k] : lists[k][j] = t => k = l /\ j = i

InNone(t) == \A k \in Lists : \A j \in DOMAIN lists[k] : lists[k][j] # t

\* A socket points to a thread for exactly the directions in its type, that
\* thread is of this descriptor and waits for the direction or is ready, and no
\* other thread is: what cl_thread_add_read, cl_thread_cancel and
\* cl_thread_do_event rely on.
SocketsAgree ==
  /\ \A fd \in Fds, d \in Dirs :
       LET t == sock[fd].t[d]
       IN  /\ (t = NULL) = (d \notin sock[fd].type)
           /\ t # NULL => th[t].fd = fd /\ th[t].type \in {d, "READY"}
  /\ \A t \in Threads : th[t].type \in Dirs \union {"READY"} =>
       \E d \in Dirs : sock[th[t].fd].t[d] = t

\* Every thread is in exactly one list of the master, the one of its type, and
\* the timers are exactly the threads that the heap may return: neither
\* cancelling and reusing threads nor running a persistent one links a thread
\* twice, and a cancelled timer does not come back as another thread.  The
\* sockets agree with them.
\* cl_thread_stop leaves no thread in a list, also not in the read and write
\* lists, which it never walks.  None of the cl_asserts of cl_thread.c fails.
Placed ==
  /\ crash # "assert"
  /\ TypeOK
  /\ Running =>
       /\ \A t \in Threads :
            IF th[t].type = "NEW" THEN InNone(t) ELSE OnlyIn(t, th[t].type)
       /\ armed = {t \in Threads : th[t].type = "TIMER"}
       /\ SocketsAgree
  /\ pc = "stopped" => \A l \in Lists : lists[l] = <<>>

\* The two threads of a descriptor are not the same one, and what the program
\* remembers of epoll is so: it is registered iff its next epoll_ctl is a MOD, and
\* listens for what a thread waits for, or will wait for again.
KernelAgrees ==
  \A fd \in Fds :
    /\ sock[fd].t["READ"] = sock[fd].t["WRITE"] => sock[fd].t["READ"] = NULL
    /\ (sock[fd].op = "ADD") = (ep[fd] = {})
    /\ \A d \in Dirs :
         LET t == sock[fd].t[d]
         IN  t # NULL /\ (th[t].type = d \/ d \in sock[fd].persist) => d \in ep[fd]
IInv == Placed /\ (Running => KernelAgrees)

\* A thread that waits for a direction of its descriptor is registered for it
\* in the kernel: what s->op remembers makes no epoll_ctl fail, and no thread
\* waits for ever because the other direction was added, cancelled or reported.
NoLostEvent ==
  \A t \in Threads : Running /\ th[t].type \in Dirs => th[t].type \in ep[th[t].fd]

\* An event thread runs or is cancelled in the end, whatever else the callbacks
\* add.  A ready thread does too, unless callbacks add events or timers for
\* ever, which go first: reports of other descriptors do not overtake it again
\* and again, although the newest ready thread runs first.
QueuedRuns ==
  /\ \A t \in Threads : th[t].type = "EVENT" ~> (th[t].type # "EVENT" \/ ~Running)
  /\ (<>[](lists["EVENT"] = <<>> /\ armed = {})) =>
       \A t \in Threads : th[t].type = "READY" ~> (th[t].type # "READY" \/ ~Running)

\* cl_thread_cancel of a ready thread takes it out of the scheduler.
CancelReturns == crash # "null"

==============================================================================
