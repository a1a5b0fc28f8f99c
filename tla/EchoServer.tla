------------------------------ MODULE EchoServer ------------------------------
(***************************************************************************)
(* example_echosvr.cpp and example_echocli.cpp: a server in which one      *)
(* coroutine accepts connections and hands each to an idle one that sends  *)
(* back what it reads, and clients that write and wait for the echo.  A    *)
(* client's calls are hooked and come back when they are done or after     *)
(* their timeout, that is, at any time, and the client connects again.     *)
(*                                                                         *)
(* One process of the server, whose coroutines run one at a time: a        *)
(* coroutine goes on when its poll returns, for an event or its timeout,   *)
(* so at any time, and runs to its next poll.  A connection has an end in  *)
(* the server and one in the client; a message is never split, and calls   *)
(* fail only as the other end lets them.  The user's flag of accepted      *)
(* descriptors is O_NONBLOCK, so read and write of the server return at    *)
(* once, and errno is what the last failed call left.                      *)
(***************************************************************************)
EXTENDS Naturals, Sequences, FiniteSets

CONSTANTS Tasks,    \* TASK_COUNT coroutines
          Conns,    \* connections there can be at a time
          Peers,    \* coroutines of the clients
          Requests  \* what they write, told apart by these

VARIABLES
  g_readwrite,  \* the stack of idle tasks
  fd,           \* the connection of a task, or NoFd
  accepting,    \* accept_routine: "runs", or polls "listen" or nothing ("sleeps")
  errno,        \* of the server: "EAGAIN" or "other"
  server,       \* end of a connection: "none", "backlog", "open"
  client,       \* the other one: "none", "open"; "gone", "reset" (RST for the server)
  up, down,     \* messages on the way
  peer          \* of a client: its connection and the request it waits for the echo of

vars == <<g_readwrite, fd, accepting, errno, server, client, up, down, peer>>

NoFd == 0
NoRequest == 0
Idle(f) == server[f] = "none" /\ client[f] = "none"

\* main: each task runs until it is idle, and accept_routine has begun
Init ==
  /\ \E order \in [1 .. Cardinality(Tasks) -> Tasks] :
       Tasks = {order[i] : i \in DOMAIN order} /\ g_readwrite = order
  /\ fd = [t \in Tasks |-> NoFd]
  /\ accepting = "runs" /\ errno = "other"
  /\ server = [f \in Conns |-> "none"] /\ client = [f \in Conns |-> "none"]
  /\ up = [f \in Conns |-> <<>>] /\ down = [f \in Conns |-> <<>>]
  /\ peer = [c \in Peers |-> [fd |-> NoFd, req |-> NoRequest]]

-----------------------------------------------------------------------------
\* accept_routine without an idle task
AcceptSleeps ==
  /\ accepting = "runs" /\ g_readwrite = <<>>
  /\ accepting' = "sleeps"
  /\ UNCHANGED <<g_readwrite, fd, errno, server, client, up, down, peer>>

\* co_accept gives a connection, and the task on top has it and runs to its first poll;
\* nobody took the task meanwhile, as co_accept does not poll.
Accept(f) ==
  /\ accepting = "runs" /\ g_readwrite # <<>> /\ server[f] = "backlog"
  /\ server' = [server EXCEPT ![f] = "open"]
  /\ fd' = [fd EXCEPT ![g_readwrite[Len(g_readwrite)]] = f]
  /\ g_readwrite' = SubSeq(g_readwrite, 1, Len(g_readwrite) - 1)
  /\ UNCHANGED <<accepting, errno, client, up, down, peer>>

\* co_accept finds nothing
AcceptPolls ==
  /\ accepting = "runs" /\ g_readwrite # <<>> /\ \A f \in Conns : server[f] # "backlog"
  /\ accepting' = "listen" /\ errno' = "EAGAIN"
  /\ UNCHANGED <<g_readwrite, fd, server, client, up, down, peer>>

\* Its poll returns.
AcceptGoesOn ==
  /\ accepting # "runs"
  /\ accepting' = "runs"
  /\ UNCHANGED <<g_readwrite, fd, errno, server, client, up, down, peer>>

\* What is on the way to a closed end is lost.
ServerCloses(f) ==
  /\ server' = [server EXCEPT ![f] = "none"]
  /\ client' = [client EXCEPT ![f] = IF @ = "open" THEN @ ELSE "none"]
  /\ up' = [up EXCEPT ![f] = <<>>]

\* close: the task is idle again.
Release(t, f) ==
  /\ ServerCloses(f)
  /\ fd' = [fd EXCEPT ![t] = NoFd] /\ g_readwrite' = Append(g_readwrite, t)

\* readwrite_routine of the server, from one poll to the next: a message, ...
Echo(t) ==
  /\ accepting # "runs" /\ fd[t] # NoFd /\ up[fd[t]] # <<>>
  /\ LET f == fd[t]
     IN /\ up' = [up EXCEPT ![f] = Tail(@)]
        /\ IF client[f] = "open"
           THEN down' = [down EXCEPT ![f] = Append(@, Head(up[f]))] /\ UNCHANGED client
           ELSE client' = [client EXCEPT ![f] = "reset"] /\ UNCHANGED down
  /\ UNCHANGED <<g_readwrite, fd, accepting, errno, server, peer>>

\* ... nothing yet, ...
Nothing(t) ==
  /\ accepting # "runs" /\ fd[t] # NoFd /\ up[fd[t]] = <<>> /\ client[fd[t]] = "open"
  /\ errno' = "EAGAIN"
  /\ UNCHANGED <<g_readwrite, fd, accepting, server, client, up, down, peer>>

\* ... an error, ...
Reset(t) ==
  /\ accepting # "runs" /\ fd[t] # NoFd /\ up[fd[t]] = <<>> /\ client[fd[t]] = "reset"
  /\ errno' = "other"
  /\ Release(t, fd[t])
  /\ UNCHANGED <<accepting, down, peer>>

\* ... or the end.  read returns 0 and leaves errno alone: with the EAGAIN of another
\* call the task goes back to its poll.
End(t) ==
  /\ accepting # "runs" /\ fd[t] # NoFd /\ up[fd[t]] = <<>> /\ client[fd[t]] = "gone"
  /\ IF errno = "EAGAIN" THEN UNCHANGED <<g_readwrite, fd, server, client, up>>
     ELSE Release(t, fd[t])
  /\ UNCHANGED <<accepting, errno, down, peer>>

-----------------------------------------------------------------------------
\* readwrite_routine of the client: socket and connect, ...
Connect(c, f) ==
  /\ peer[c].fd = NoFd /\ Idle(f)
  /\ server' = [server EXCEPT ![f] = "backlog"] /\ client' = [client EXCEPT ![f] = "open"]
  /\ peer' = [peer EXCEPT ![c].fd = f]
  /\ UNCHANGED <<g_readwrite, fd, accepting, errno, up, down>>

\* ... write ...
Write(c, r) ==
  /\ peer[c].fd # NoFd /\ peer[c].req = NoRequest
  /\ up' = [up EXCEPT ![peer[c].fd] = Append(@, r)]
  /\ peer' = [peer EXCEPT ![c].req = r]
  /\ UNCHANGED <<g_readwrite, fd, accepting, errno, server, client, down>>

\* ... and read
Read(c) ==
  /\ peer[c].req # NoRequest /\ down[peer[c].fd] # <<>>
  /\ down' = [down EXCEPT ![peer[c].fd] = Tail(@)]
  /\ peer' = [peer EXCEPT ![c].req = NoRequest]
  /\ UNCHANGED <<g_readwrite, fd, accepting, errno, server, client, up>>

\* A call fails or comes back after its timeout, and the client closes.  An echo
\* that is there but not read resets the connection.
Close(c) ==
  /\ peer[c].fd # NoFd
  /\ LET f == peer[c].fd
     IN /\ client' = [client EXCEPT ![f] = IF down[f] = <<>> THEN "gone" ELSE "reset"]
        /\ down' = [down EXCEPT ![f] = <<>>]
  /\ peer' = [peer EXCEPT ![c] = [fd |-> NoFd, req |-> NoRequest]]
  /\ UNCHANGED <<g_readwrite, fd, accepting, errno, server, up>>

Next ==
  \/ AcceptSleeps \/ AcceptPolls \/ AcceptGoesOn
  \/ \E f \in Conns : Accept(f)
  \/ \E t \in Tasks : Echo(t) \/ Nothing(t) \/ Reset(t) \/ End(t)
  \/ \E c \in Peers :
       \/ Read(c) \/ Close(c)
       \/ \E f \in Conns : Connect(c, f)
       \/ \E r \in Requests : Write(c, r)

-----------------------------------------------------------------------------
\* A task is idle exactly when it is in the stack, once; an accepted connection has one
\* task, and none is accepted without one or closed under its client.
TasksAgree ==
  /\ \A i, j \in DOMAIN g_readwrite : g_readwrite[i] = g_readwrite[j] => i = j
  /\ {t \in Tasks : fd[t] = NoFd} = {g_readwrite[i] : i \in DOMAIN g_readwrite}
  /\ \A f \in Conns : Cardinality({t \in Tasks : fd[t] = f}) = IF server[f] = "open" THEN 1 ELSE 0
  /\ \A c \in Peers : peer[c].fd # NoFd => server[peer[c].fd] # "none"

\* A client that reads gets the echo of its own last request, also on a connection
\* that was used by another one before, and it is the only message of the connection.
EchoesAgree ==
  \A c \in Peers : peer[c].fd # NoFd =>
    up[peer[c].fd] \o down[peer[c].fd] =
      IF peer[c].req = NoRequest THEN <<>> ELSE <<peer[c].req>>

\* Whatever clients come and go, tasks and connections belong together, no client gets
\* what is not for it, and accept_routine waits for connections only while a task is
\* idle, so that the one it accepts, without looking again, has a task.
EchoServes ==
  /\ TasksAgree /\ EchoesAgree
  /\ accepting = "listen" => g_readwrite # <<>>
===============================================================================
