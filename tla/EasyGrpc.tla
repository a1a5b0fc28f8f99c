------------------------------ MODULE EasyGrpc ------------------------------
(***************************************************************************)
(* grpc_server.h and grpc_client.h.  A FuncImpl asks the runtime for one   *)
(* call, is the tag of the event that brings it and of the event that the  *)
(* answer has left, and is then recycled for the next call.  status_ says  *)
(* which of the two events comes next, and is set only after the runtime   *)
(* was asked for the event.  A client has a task for each call, and a      *)
(* thread that makes the callback of the task and deletes it; a call of a  *)
(* SyncService returns with the answer or the failure.                     *)
(*                                                                         *)
(* The runtime of gRPC delivers a call to any FuncImpl that asked for one, *)
(* and its queues may give their events in any order.                      *)
(***************************************************************************)
EXTENDS Naturals, FiniteSets

CONSTANTS Impls, RpcThreads, Requests,
          SyncRequests   \* of Requests: those of a SyncService

Actors == RpcThreads \cup {"main"}
Idle == [do |-> "idle"]

VARIABLES
  server,    \* "built", "up" when running is set, "stopped", "shutdown", "joined"
  started,   \* threads of thread_ that run rpcProc
  at,        \* of an actor: what it does with an impl
  status_,   \* of an impl
  ctx,       \* of an impl: "new", "asked", or the request it has
  open,      \* impls whose call is not finished
  cq,        \* of the server: events, tag and ok
  lost,      \* impls whose event was not ok
  task,      \* of a request: where it is; of a synchronous one "returned" at last
  running,   \* of the client
  calls,     \* of a request: how often its function was called
  callbacks, \* of a request: how often the callback of its task was called
  crash,
  raced      \* an event was handled before status_ was set for it

vars == <<server, started, at, status_, ctx, open, cq, lost, task, running, calls, callbacks,
          crash, raced>>
clientVars == <<task, running, callbacks>>

\* status_ of a new FuncImpl is not initialized.
Init ==
  /\ server = "built" /\ started = {} /\ at = [a \in Actors |-> Idle]
  /\ status_ \in [Impls -> {"PROCESS", "FINISH"}]
  /\ ctx = [i \in Impls |-> "new"] /\ open = {} /\ cq = {} /\ lost = {}
  /\ task = [r \in Requests |-> "none"] /\ running = TRUE
  /\ calls = [r \in Requests |-> 0] /\ callbacks = [r \in Requests |-> 0]
  /\ crash = FALSE /\ raced = FALSE

-----------------------------------------------------------------------------
\* startThread: a thread that reads running, which nobody has initialized, before start
\* sets it may end at once, as one that is never started does here
StartThread(t) ==
  /\ server = "built" /\ t \notin started
  /\ started' = started \cup {t}
  /\ UNCHANGED <<server, at, status_, ctx, open, cq, lost, calls, crash, raced, clientVars>>

Start ==
  /\ server = "built" /\ server' = "up"
  /\ UNCHANGED <<started, at, status_, ctx, open, cq, lost, calls, crash, raced, clientVars>>

\* The runtime is asked for a call with the tag i, unless the queue is shut down: gRPC
\* asserts that it is not.
Request(a, i) ==
  /\ ctx' = [ctx EXCEPT ![i] = "asked"]
  /\ at' = [at EXCEPT ![a] = [do |-> "set", impl |-> i, to |-> "PROCESS"]]
  /\ crash' = (crash \/ server = "shutdown")

\* RegisterFunc, after start
RegisterFunc(i) ==
  /\ server = "up" /\ at["main"] = Idle /\ ctx[i] = "new"
  /\ Request("main", i)
  /\ UNCHANGED <<server, started, status_, open, cq, lost, calls, raced, clientVars>>

\* the last statement of callRequestFunc, or of callRpcFunc
SetStatus(a) ==
  /\ at[a].do = "set"
  /\ status_' = [status_ EXCEPT ![at[a].impl] = at[a].to]
  /\ at' = [at EXCEPT ![a] = Idle]
  /\ UNCHANGED <<server, started, ctx, open, cq, lost, calls, crash, raced, clientVars>>

\* AsyncNext: only an event that is ok is handled
Ignored(t, e) ==
  /\ ~e.ok /\ lost' = lost \cup {e.tag}
  /\ UNCHANGED <<at, status_, ctx, open, calls, crash, raced>>

\* recycling: the context and the responder of the last call are deleted
Recycling(i) == open' = open \ {i}

\* callRpcFunc: the function is called, or the impl recycled and callRequestFunc called
CallRpcFunc(t, i) ==
  IF status_[i] = "PROCESS"
  THEN /\ calls' = [calls EXCEPT ![ctx[i]] = @ + 1]
       /\ at' = [at EXCEPT ![t] = [do |-> "call", impl |-> i]]
       /\ UNCHANGED <<ctx, open, crash>>
  ELSE /\ Request(t, i)
       /\ Recycling(i)
       /\ UNCHANGED calls

\* rpcProc
RpcProc(t) ==
  /\ t \in started /\ at[t] = Idle /\ server \in {"up", "shutdown"}
  /\ \E e \in cq :
       /\ cq' = cq \ {e}
       /\ \/ Ignored(t, e)
          \/ /\ e.ok /\ CallRpcFunc(t, e.tag)
             /\ raced' = (raced \/ \E a \in Actors : at[a].do = "set" /\ at[a].impl = e.tag)
             /\ UNCHANGED <<status_, lost>>
  /\ UNCHANGED <<server, started, clientVars>>

\* Finish of the responder: the answer is sent; a second one of a call is an error of gRPC.
\* The event is not ok if the client has gone.
Finish(t, ok) ==
  /\ at[t].do = "call"
  /\ LET i == at[t].impl
         r == ctx[i]
     IN /\ at' = [at EXCEPT ![t] = [do |-> "set", impl |-> i, to |-> "FINISH"]]
        /\ crash' = (crash \/ i \notin open)
        /\ open' = open \ {i}
        /\ cq' = cq \cup {[tag |-> i, ok |-> ok]}
        /\ task' = [task EXCEPT ![r] = IF @ = "taken" THEN "answered" ELSE @]
  /\ UNCHANGED <<server, started, status_, ctx, lost, running, calls, callbacks, raced>>

\* stop, and ~AsyncServer if it is running: Shutdown waits for the calls to be finished,
\* and ends those that an impl asked for
Stop ==
  /\ server = "up" /\ at["main"] = Idle /\ server' = "stopped"
  /\ UNCHANGED <<started, at, status_, ctx, open, cq, lost, calls, crash, raced, clientVars>>

Shutdown ==
  /\ server = "up" /\ at["main"] = Idle /\ open = {} /\ server' = "shutdown"
  /\ cq' = cq \cup {[tag |-> i, ok |-> FALSE] : i \in {j \in Impls : ctx[j] = "asked"}}
  /\ UNCHANGED <<started, at, status_, ctx, open, lost, calls, crash, raced, clientVars>>

\* A thread leaves rpcProc when running is cleared or the queue is empty and shut down.
ThreadEnds(t) ==
  /\ t \in started /\ at[t] = Idle
  /\ server = "stopped" \/ (server = "shutdown" /\ cq = {})
  /\ started' = started \ {t}
  /\ UNCHANGED <<server, at, status_, ctx, open, cq, lost, calls, crash, raced, clientVars>>

-----------------------------------------------------------------------------
Send(r) ==
  /\ task[r] = "none" /\ task' = [task EXCEPT ![r] = "sent"]
  /\ UNCHANGED <<server, started, at, status_, ctx, open, cq, lost, running, calls, callbacks,
                 crash, raced>>

\* doRpc of an AsyncClient; of a SyncService, whose caller waits in it
DoRpc(r) == r \notin SyncRequests /\ Send(r)
SyncDoRpc(r) == r \in SyncRequests /\ Send(r)

\* The runtime brings a call to an impl that asked for one.
Deliver(r, i) ==
  /\ server \in {"up", "stopped"} /\ task[r] = "sent" /\ ctx[i] = "asked"
  /\ task' = [task EXCEPT ![r] = "taken"]
  /\ ctx' = [ctx EXCEPT ![i] = r] /\ open' = open \cup {i}
  /\ cq' = cq \cup {[tag |-> i, ok |-> TRUE]}
  /\ UNCHANGED <<server, started, at, status_, lost, running, calls, callbacks, crash, raced>>

\* The connection is lost: the status of the task is not ok.
Broken(r) ==
  /\ task[r] \in {"sent", "taken"} /\ task' = [task EXCEPT ![r] = "failed"]
  /\ UNCHANGED <<server, started, at, status_, ctx, open, cq, lost, running, calls, callbacks,
                 crash, raced>>

CallCb(r) == callbacks' = [callbacks EXCEPT ![r] = @ + 1]

\* AsyncCompleteRpc: callCb and delete, or only a message if the event is not ok
AsyncCompleteRpc(r, ok) ==
  /\ r \notin SyncRequests /\ running /\ task[r] \in {"answered", "failed"}
  /\ task' = [task EXCEPT ![r] = IF ok THEN "deleted" ELSE "leaked"]
  /\ IF ok THEN CallCb(r) ELSE UNCHANGED callbacks
  /\ UNCHANGED <<server, started, at, status_, ctx, open, cq, lost, running, calls, crash, raced>>

\* The rest of doRpc of a SyncService: the caller gets the reply with its status.
SyncReturns(r) ==
  /\ r \in SyncRequests /\ task[r] \in {"answered", "failed"}
  /\ task' = [task EXCEPT ![r] = "returned"]
  /\ UNCHANGED <<server, started, at, status_, ctx, open, cq, lost, running, calls, callbacks,
                 crash, raced>>

\* AsyncClient::stop
ClientStop ==
  /\ running /\ running' = FALSE
  /\ UNCHANGED <<server, started, at, status_, ctx, open, cq, lost, task, calls, callbacks,
                 crash, raced>>

Next ==
  /\ ~crash
  /\ \/ \E t \in RpcThreads : \/ StartThread(t) \/ RpcProc(t) \/ ThreadEnds(t)
                              \/ \E ok \in BOOLEAN : Finish(t, ok)
     \/ \E a \in Actors : SetStatus(a)
     \/ \E i \in Impls : RegisterFunc(i)
     \/ Start \/ Stop \/ Shutdown \/ ClientStop
     \/ \E r \in Requests : \/ DoRpc(r) \/ SyncDoRpc(r) \/ SyncReturns(r) \/ Broken(r)
                            \/ \E i \in Impls : Deliver(r, i)
                            \/ \E ok \in BOOLEAN : AsyncCompleteRpc(r, ok)

-----------------------------------------------------------------------------
\* Where an impl is that has been registered.
InHand(i) == {a \in Actors : at[a].do # "idle" /\ at[a].impl = i}
Events(i) == {e \in cq : e.tag = i}

\* Unless an event overtakes the assignment of status_: a call is handled once, by the impl
\* that has it, and its responder finished once; every impl is registered for a call, has
\* one event in the queue or is worked on, so that none is lost but those of an event that
\* is not ok; and a call that the server has taken is in one of them until it is answered.
RequestsServed ==
  ~raced =>
    /\ \A r \in Requests : calls[r] =< 1 /\ callbacks[r] =< (IF r \in SyncRequests THEN 0 ELSE 1)
                           /\ (task[r] = "answered" => calls[r] = 1)
    /\ \A t \in RpcThreads : at[t].do = "call" => at[t].impl \in open
    /\ server \in {"up", "stopped"} => \A i \in Impls :
         \/ i \in lost
         \/ ctx[i] = "new" /\ InHand(i) = {} /\ Events(i) = {}
         \/ ctx[i] = "asked" /\ Events(i) = {}
         \/ ctx[i] \in Requests /\ Cardinality(Events(i)) = 1 /\ Cardinality(InHand(i)) =< 1
         \/ ctx[i] \in Requests /\ Events(i) = {} /\ Cardinality(InHand(i)) = 1
    /\ \A r \in Requests : task[r] = "taken" =>
         \E i \in open : ctx[i] = r /\ (InHand(i) # {} \/ Events(i) # {})
=============================================================================
