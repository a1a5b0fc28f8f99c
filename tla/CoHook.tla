-------------------------------- MODULE CoHook --------------------------------
(***************************************************************************)
(* co_hook_sys_call.cpp: socket calls of coroutines.  A descriptor is made *)
(* non-blocking behind the user's back; a call on one that the user left   *)
(* blocking tries, switches to other coroutines in poll and tries again.   *)
(*                                                                         *)
(* All coroutines have the hook enabled.  poll comes back at any time (an  *)
(* event, its timeout, a failure), so it is the place "poll" and no more.  *)
(* Data is counted in bytes.  A program does not close a descriptor while  *)
(* another coroutine is in a call on it.                                   *)
(***************************************************************************)
EXTENDS Naturals

CONSTANTS Callers,    \* coroutines
          Sockets,    \* descriptors
          MaxBytes    \* of a buffer of the kernel, and of a call

Bytes == 0 .. MaxBytes

VARIABLES
  open,     \* of a descriptor: "no", "socket" (from socket), "accepted"
  hook,     \* g_rpchook_socket_fd: "none", "block" or "nonblock" (user_flag)
  flags,    \* O_NONBLOCK of the kernel: "block" or "nonblock"
  link,     \* "new", "progress" (EINPROGRESS), "ok", "down" (refused, reset)
  rx, tx,   \* bytes to read, room to write
  call,     \* of a coroutine: its call, which waits in poll, or the last one
  stuck     \* the coroutine whose system call blocks the thread, or Nobody

Nobody == "nobody"
kernel == <<open, flags, link, rx, tx>>
vars == <<kernel, hook, call, stuck>>

\* TCP_NORMAL_ERR
Normal == {"EAGAIN", "EINTR"}

\* The calls: whether the first try comes after a poll, after which errnos of the first
\* and of later tries there is another poll and try, and whether all of the bytes have to
\* be moved.
Reading(later) ==
  [moves |-> "in", polls |-> TRUE, first |-> {}, later |-> later, whole |-> FALSE]
Writing(first, later, whole) ==
  [moves |-> "out", polls |-> FALSE, first |-> first, later |-> later, whole |-> whole]

Read     == Reading(Normal)
Recv     == Reading(Normal)
RecvFrom == Reading(Normal)
Write    == Writing(Normal \cup {"failed"}, Normal, TRUE)
Send     == Writing(Normal \cup {"failed"}, Normal, TRUE)
SendTo   == Writing({"EAGAIN"}, {"EAGAIN"}, FALSE)

\* Their variants, which no system call is replaced by and which try once after a poll
Read1     == Reading({})
Recv1     == Reading({})
RecvFrom1 == Reading({})
Write1    == Writing(Normal \cup {"failed"}, {}, TRUE)
Send1     == Writing(Normal \cup {"failed"}, {}, TRUE)
SendTo1   == Writing({"EAGAIN"}, {}, FALSE)

Calls    == {Read, Recv, RecvFrom, Write, Send, SendTo}
Variants == {Read1, Recv1, RecvFrom1, Write1, Send1, SendTo1}

\* connect, which has a loop of its own, and no call
Connecting == [Writing({}, {}, FALSE) EXCEPT !.moves = "connect"]
NoHow      == [Connecting EXCEPT !.moves = "none"]

\* how: the call; did: bytes so far; want: bytes asked for; user: user_flag at the call;
\* tries: of connect, for the others 1 after the first; ret: "poll" while it waits, then
\* "ok" or the errno of its last system call (write and send return did instead, unless
\* it is 0); met: what has become of the connection each time a connect looked at it
NoCall == [how |-> NoHow, fd |-> Nobody, did |-> 0, want |-> 0, user |-> "block",
           tries |-> 0, ret |-> "ok", met |-> {}]

Init ==
  /\ open = [f \in Sockets |-> "no"] /\ hook = [f \in Sockets |-> "none"]
  /\ flags = [f \in Sockets |-> "block"] /\ link = [f \in Sockets |-> "new"]
  /\ rx = [f \in Sockets |-> 0] /\ tx = [f \in Sockets |-> 0]
  /\ call = [c \in Callers |-> NoCall] /\ stuck = Nobody

\* The calls that are not over: what others returned is kept up to the next step of a call.
Pending == [c \in Callers |-> IF call[c].ret = "poll" THEN call[c] ELSE NoCall]

\* A coroutine runs: it is not in poll, and no call blocks the thread.
CanCall(c) == stuck = Nobody /\ call[c].ret # "poll"
Busy(f) == \E c \in Callers : call[c].ret = "poll" /\ call[c].fd = f

Opened(f, how, lk) ==
  /\ open' = [open EXCEPT ![f] = how] /\ link' = [link EXCEPT ![f] = lk]
  /\ rx' = [rx EXCEPT ![f] = 0] /\ tx' = [tx EXCEPT ![f] = MaxBytes]
  /\ UNCHANGED <<call, stuck>>

\* socket: alloc_by_fd, then F_SETFL with the flags of the kernel.  A datagram
\* socket needs no connection.
Socket(c, f) ==
  /\ CanCall(c) /\ open[f] = "no"
  /\ \E lk \in {"new", "ok"} : Opened(f, "socket", lk)
  /\ hook' = [hook EXCEPT ![f] = "block"] /\ flags' = [flags EXCEPT ![f] = "nonblock"]

\* co_accept: alloc_by_fd only
CoAccept(c, f) ==
  /\ CanCall(c) /\ open[f] = "no"
  /\ Opened(f, "accepted", "ok")
  /\ hook' = [hook EXCEPT ![f] = "block"] /\ flags' = [flags EXCEPT ![f] = "block"]

\* fcntl, F_SETFL: what the kernel gets
KernelFlag(f, param) == IF hook[f] # "none" THEN "nonblock" ELSE param

\* fcntl, F_SETFL
SetFlags(c, f) ==
  /\ CanCall(c) /\ open[f] # "no"
  /\ \E param \in {"block", "nonblock"} :
       /\ flags' = [flags EXCEPT ![f] = KernelFlag(f, param)]
       /\ hook' = [hook EXCEPT ![f] = IF @ = "none" THEN @ ELSE param]
  /\ UNCHANGED <<open, link, rx, tx, call, stuck>>

\* close: free_by_fd
Close(c, f) ==
  /\ CanCall(c) /\ open[f] # "no" /\ ~Busy(f)
  /\ open' = [open EXCEPT ![f] = "no"] /\ hook' = [hook EXCEPT ![f] = "none"]
  /\ UNCHANGED <<flags, link, rx, tx, call, stuck>>

-----------------------------------------------------------------------------
\* The system call of a coroutine that wants n more bytes: bytes moved or an errno
Fails(f) == link[f] \in {"new", "down"}
Room(how, f) == IF how.moves = "in" THEN rx[f] ELSE tx[f]
Ready(how, f) == Fails(f) \/ (link[f] = "ok" /\ Room(how, f) > 0)
SysCall(how, f, n) ==
  IF Fails(f) THEN {[n |-> 0, e |-> "failed"]}
  ELSE IF Ready(how, f)
  THEN {[n |-> k, e |-> "ok"] : k \in {j \in 1 .. n : j =< Room(how, f)}}
  ELSE {[n |-> 0, e |-> "EAGAIN"]}
Results(how, f, n) == SysCall(how, f, n) \cup {[n |-> 0, e |-> "EINTR"]}

Move(how, f, r) ==
  IF how.moves = "in"
  THEN rx' = [rx EXCEPT ![f] = @ - r.n] /\ UNCHANGED tx
  ELSE tx' = [tx EXCEPT ![f] = @ - r.n] /\ UNCHANGED rx

\* Mutant: no call polls again after its second try.
NormalErr_None(k, e) == k.tries = 0 /\ e \in k.how.first

\* After which results a call goes back to poll
NormalErr(k, e) == e \in (IF k.tries = 0 THEN k.how.first ELSE k.how.later)

\* The loop over the bytes
More(k, r) == k.how.whole /\ r.e = "ok" /\ k.did + r.n < k.want

\* What is kept of a call that returns: its result, if the user expects it to block
Done(k, e) ==
  IF k.user = "block" THEN [k EXCEPT !.fd = Nobody, !.tries = 0, !.ret = e] ELSE NoCall

\* One try of a call k: a system call that would block blocks the thread.
Try(c, k) ==
  IF flags[k.fd] = "block" /\ ~Ready(k.how, k.fd)
  THEN /\ stuck' = c
       /\ call' = [Pending EXCEPT ![c] = [k EXCEPT !.ret = "poll"]]
       /\ UNCHANGED <<rx, tx>>
  ELSE /\ \E r \in Results(k.how, k.fd, k.want - k.did) :
            /\ Move(k.how, k.fd, r)
            /\ call' = [Pending EXCEPT ![c] =
                 IF k.user = "block" /\ (NormalErr(k, r.e) \/ More(k, r))
                 THEN [k EXCEPT !.did = @ + r.n, !.tries = 1, !.ret = "poll"]
                 ELSE Done([k EXCEPT !.did = @ + r.n], r.e)]
       /\ stuck' = Nobody

\* The program calls.  A descriptor without a hook, or that the user made non-blocking:
\* one try.
Start(c, f, how) ==
  /\ CanCall(c) /\ open[f] # "no"
  /\ LET k == [NoCall EXCEPT !.how = how, !.fd = f, !.want = MaxBytes,
                 !.user = IF hook[f] = "none" THEN "nonblock" ELSE hook[f]]
     IN IF how.polls /\ k.user = "block"
        THEN /\ call' = [Pending EXCEPT ![c] = [k EXCEPT !.ret = "poll", !.tries = 1]]
             /\ UNCHANGED <<rx, tx, stuck>>
        ELSE Try(c, k)
  /\ UNCHANGED <<open, hook, flags, link>>

\* poll returns
Again(c) ==
  /\ stuck = Nobody /\ call[c].ret = "poll" /\ call[c].how # Connecting
  /\ Try(c, call[c])
  /\ UNCHANGED <<open, hook, flags, link>>

\* The call that blocks the thread goes on.
Unblock ==
  /\ stuck # Nobody /\ Ready(call[stuck].how, call[stuck].fd)
  /\ Try(stuck, call[stuck])
  /\ UNCHANGED <<open, hook, flags, link>>

-----------------------------------------------------------------------------
\* connect: the system call, ...
Connect(c, f) ==
  /\ CanCall(c) /\ open[f] = "socket" /\ link[f] = "new"
  /\ \E lk \in {"ok", "progress", "down"} :
       /\ link' = [link EXCEPT ![f] = lk]
       /\ call' = [Pending EXCEPT ![c] =
            LET k == [NoCall EXCEPT !.how = Connecting, !.fd = f, !.user = hook[f], !.met = {lk}]
            IN IF lk = "progress" /\ hook[f] = "block" THEN [k EXCEPT !.ret = "poll"]
               ELSE Done(k, IF lk = "ok" THEN "ok" ELSE IF lk = "down" THEN "failed"
                            ELSE "EINPROGRESS")]
  /\ UNCHANGED <<open, hook, flags, rx, tx, stuck>>

\* ... and three times poll.  An event ends the wait: a finished connection has POLLOUT, and
\* a refused one has it too, so that connect returns 0 for both.  When the third poll has no
\* event, SO_ERROR may know by then that the connection is refused.
PollConnect(c) ==
  /\ stuck = Nobody /\ call[c].ret = "poll" /\ call[c].how = Connecting
  /\ LET k  == call[c]
         lk == link[k.fd]
         met == [k EXCEPT !.met = @ \cup {lk}]
     IN \/ lk \in {"ok", "down"} /\ call' = [Pending EXCEPT ![c] = Done(met, "ok")]
        \/ k.tries < 2 /\ call' = [Pending EXCEPT ![c] = [k EXCEPT !.tries = @ + 1]]
        \/ /\ k.tries = 2
           /\ call' = [Pending EXCEPT ![c] =
                         Done(met, IF lk = "down" THEN "failed" ELSE "ETIMEDOUT")]
  /\ UNCHANGED <<kernel, hook, stuck>>

\* The other side and the network
Network(f) ==
  /\ open[f] # "no"
  /\ \/ /\ link[f] = "progress" /\ \E lk \in {"ok", "down"} : link' = [link EXCEPT ![f] = lk]
        /\ UNCHANGED <<rx, tx>>
     \/ link[f] = "ok" /\ link' = [link EXCEPT ![f] = "down"] /\ UNCHANGED <<rx, tx>>
     \/ /\ link[f] = "ok" /\ rx[f] < MaxBytes /\ rx' = [rx EXCEPT ![f] = @ + 1]
        /\ UNCHANGED <<link, tx>>
     \/ /\ link[f] = "ok" /\ tx[f] < MaxBytes /\ tx' = [tx EXCEPT ![f] = @ + 1]
        /\ UNCHANGED <<link, rx>>
  /\ UNCHANGED <<open, hook, flags, call, stuck>>

Next ==
  \/ \E c \in Callers, f \in Sockets :
       \/ Socket(c, f) \/ CoAccept(c, f) \/ SetFlags(c, f) \/ Close(c, f) \/ Connect(c, f)
       \/ \E how \in Calls \cup Variants : Start(c, f, how)
  \/ \E c \in Callers : Again(c) \/ PollConnect(c)
  \/ Unblock
  \/ \E f \in Sockets : Network(f)

-----------------------------------------------------------------------------
\* What the source's connect does not tell from an established connection: one that is
\* refused while connect waits for it.  A blocking connect would return ECONNREFUSED.
RefusedLate(k) == k.met = {"progress", "down"}

\* connect returns 0 for a connection that has been established and for one RefusedLate, an
\* error of the connection only for a refused one, and ETIMEDOUT only when none was refused.
ConnectTrue(k) ==
  /\ k.ret = "ok" => "ok" \in k.met \/ RefusedLate(k)
  /\ k.ret = "failed" => "down" \in k.met
  /\ k.ret = "ETIMEDOUT" => "progress" \in k.met /\ "down" \notin k.met

\* Calls on descriptors that the user left blocking do not come back half done because the
\* kernel's are not blocking: no EAGAIN or EINPROGRESS comes back, EINTR only from sendto,
\* write and send return all of the bytes unless the connection is down, and connect comes
\* back with what has become of the connection, as far as ConnectTrue says.  And they block
\* no thread, except on an accepted descriptor whose flags the program never set.  The
\* variants that try once after their poll give back what that try says; write1 and send1
\* return without an error only when all of the bytes are written.
BlockingCalls ==
  /\ \A c \in Callers :
       LET k == call[c]
       IN k.user = "block" /\ k.ret # "poll" =>
            /\ k.how.whole /\ k.ret = "ok" => k.did = k.want
            /\ k.how \notin Variants =>
                 /\ k.ret \notin {"EAGAIN", "EINPROGRESS"}
                 /\ k.ret = "EINTR" => k.how = SendTo
            /\ k.how = Connecting => ConnectTrue(k)
  /\ stuck # Nobody => open[call[stuck].fd] = "accepted"
=============================================================================
