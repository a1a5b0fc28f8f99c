------------------------------- MODULE Skeleton -------------------------------
(***************************************************************************)
(* The modules of a leaf server: chanrpc.go (calls between goroutines),    *)
(* go.go (functions run in goroutines of their own), timer.go, skeleton.go *)
(* (the loop of a module over all of these) and module.go (the shutdown).  *)
(*                                                                         *)
(* A module runs one goroutine; an agent is a goroutine of a connection,   *)
(* which calls modules but is not called.  A Go channel is a sequence with *)
(* a capacity.  Functions and callbacks are the user's: while one runs, it *)
(* starts any of the operations.  An operation is a record of ops and has  *)
(* its position as its name.                                               *)
(***************************************************************************)
EXTENDS Naturals, Sequences

CONSTANTS N,         \* modules 1 .. N, in the order of module.Register
          Agents,    \* goroutines that only call
          CallLen,   \* capacity of a server's ChanCall
          AsynLen,   \* AsynCallLen
          GoLen,     \* GoLen
          TimerLen,  \* TimerDispatcherLen
          SyncTo,    \* pairs <<p, m>>: p may call m and wait
          MaxOps,    \* bound on the operations started
          MaxFires   \* bound on the calls of one cron callback

Modules == 1 .. N
Procs == Modules \cup Agents
Ids == 1 .. MaxOps

\* Calls in one direction, as the framework asks of its users: the agents call the
\* first module, and each module calls those after it.
Upwards == {e \in Modules \X Modules : e[1] < e[2]} \cup (Agents \X {1})

ASSUME SkeletonAssumption ==
  /\ N \in Nat \ {0} /\ MaxOps \in Nat /\ MaxFires \in Nat \ {0}
  /\ CallLen \in Nat \ {0} /\ AsynLen \in Nat \ {0}
  /\ GoLen \in Nat \ {0} /\ TimerLen \in Nat \ {0}
  /\ Agents \cap Nat = {} /\ SyncTo \subseteq Procs \X Modules

VARIABLES
  ops,          \* the operations started: kind, by whom, to which module
  loop,         \* of a module: where Skeleton.Run is
  st,           \* of a goroutine: "idle", "busy", "send" or "wait"
  cur,          \* what a busy module executes: <<kind, operation>>
  sync,         \* the call a goroutine sends or waits for
  chanCall, closed,                \* of a server
  chanSyncRet,                     \* of the client of a blocking call
  chanAsynRet, pendingAsynCall,    \* of the client of a module
  running,                         \* goroutines of Go.Go
  linearGo, execution,             \* list and mutexExecution of a LinearContext
  chanCb, pendingGo,               \* of a module's Go
  timers, cb,                      \* state of a time.Timer; Timer.cb is set
  chanTimer,                       \* of a module's dispatcher
  main,         \* the module that module.Destroy is at; N + 1 before it
  closeSig,     \* of a module
  ran,          \* history: how often the function of an operation ran
  got,          \* history: results that reached the caller of an operation
  stopped       \* history: timers stopped

rpc == <<chanCall, closed, chanSyncRet, chanAsynRet, pendingAsynCall, got>>
gos == <<running, linearGo, execution, chanCb, pendingGo>>
tms == <<timers, cb, chanTimer, stopped>>
proc == <<loop, st, cur, sync>>
destroy == <<main, closeSig>>
vars == <<ops, proc, rpc, gos, tms, destroy, ran>>

None == <<"none", 0>>

Init ==
  /\ ops = <<>>
  /\ loop = [m \in Modules |-> "run"]
  /\ st = [p \in Procs |-> IF p \in Agents THEN "busy" ELSE "idle"]
  /\ cur = [m \in Modules |-> None]
  /\ sync = [p \in Procs |-> 0]
  /\ chanCall = [m \in Modules |-> <<>>] /\ closed = [m \in Modules |-> FALSE]
  /\ chanSyncRet = [p \in Procs |-> <<>>]
  /\ chanAsynRet = [m \in Modules |-> <<>>]
  /\ pendingAsynCall = [m \in Modules |-> 0]
  /\ running = [m \in Modules |-> {}] /\ linearGo = [m \in Modules |-> <<>>]
  /\ execution = [m \in Modules |-> 0]
  /\ chanCb = [m \in Modules |-> <<>>] /\ pendingGo = [m \in Modules |-> 0]
  /\ timers = [i \in Ids |-> "none"] /\ cb = [i \in Ids |-> FALSE]
  /\ chanTimer = [m \in Modules |-> <<>>]
  /\ main = N + 1 /\ closeSig = [m \in Modules |-> FALSE]
  /\ ran = [i \in Ids |-> 0] /\ got = [i \in Ids |-> <<>>] /\ stopped = {}

-----------------------------------------------------------------------------
\* A goroutine p that runs user code starts the operation New.
New == Len(ops) + 1
Start(kind, p, m) ==
  /\ st[p] = "busy" /\ New \in Ids
  /\ ops' = Append(ops, [kind |-> kind, by |-> p, to |-> m])

Got(i, r) == got' = [got EXCEPT ![i] = Append(@, r)]
Ran(i) == ran' = [ran EXCEPT ![i] = @ + 1]

\* Server.Go and Client.Call0, Call1, CallN: a blocking send of a CallInfo.  A
\* function that is not registered, or has another type, ends a call at once
\* (and a Go, which then changes nothing).
Call(kind, p, m) ==
  /\ kind = "Call" => <<p, m>> \in SyncTo
  /\ Start(kind, p, m)
  /\ \/ /\ st' = [st EXCEPT ![p] = "send"]
        /\ sync' = [sync EXCEPT ![p] = New]
        /\ UNCHANGED got
     \/ /\ kind = "Call"
        /\ Got(New, "no function")
        /\ UNCHANGED <<st, sync>>
  /\ UNCHANGED <<loop, cur, chanCall, closed, chanSyncRet, chanAsynRet,
                 pendingAsynCall, gos, tms, destroy, ran>>

\* The send of p ends: a closed ChanCall panics and the recover turns it into an
\* error; a Go ends with the send, a call waits for its answer.
Send(p) ==
  LET i == sync[p]
      m == ops[i].to
  IN /\ st[p] = "send"
     /\ \/ /\ closed[m]
           /\ st' = [st EXCEPT ![p] = "busy"] /\ sync' = [sync EXCEPT ![p] = 0]
           /\ Got(i, IF ops[i].kind = "Go" THEN "none" ELSE "closed")
           /\ UNCHANGED chanCall
        \/ /\ ~closed[m] /\ Len(chanCall[m]) < CallLen
           /\ chanCall' = [chanCall EXCEPT ![m] = Append(@, i)]
           /\ IF ops[i].kind = "Go"
              THEN st' = [st EXCEPT ![p] = "busy"] /\ sync' = [sync EXCEPT ![p] = 0]
              ELSE st' = [st EXCEPT ![p] = "wait"] /\ UNCHANGED sync
           /\ UNCHANGED got
     /\ UNCHANGED <<ops, loop, cur, closed, chanSyncRet, chanAsynRet,
                    pendingAsynCall, gos, tms, destroy, ran>>

\* ri := <-c.chanSyncRet
Receive(p) ==
  /\ st[p] = "wait" /\ chanSyncRet[p] # <<>>
  /\ st' = [st EXCEPT ![p] = "busy"] /\ sync' = [sync EXCEPT ![p] = 0]
  /\ Got(sync[p], Head(chanSyncRet[p])[2])
  /\ chanSyncRet' = [chanSyncRet EXCEPT ![p] = Tail(@)]
  /\ UNCHANGED <<ops, loop, cur, chanCall, closed, chanAsynRet,
                 pendingAsynCall, gos, tms, destroy, ran>>

\* Mutant: one call more than ChanAsynRet holds.
TooMany_OneMore(p) == pendingAsynCall[p] > AsynLen

TooMany(p) == pendingAsynCall[p] >= AsynLen

AsynFails(p, r) ==
  chanAsynRet' = [chanAsynRet EXCEPT ![p] = Append(@, <<New, r>>)]

\* Skeleton.AsynCall.  With too many calls pending, the callback runs at once;
\* a call that cannot be sent is answered by the client itself.
AsynCall(p, m) ==
  /\ Start("AsynCall", p, m)
  /\ \/ /\ TooMany(p)
        /\ Got(New, "many")
        /\ UNCHANGED <<chanCall, chanAsynRet, pendingAsynCall>>
     \/ /\ ~TooMany(p)
        /\ \/ AsynFails(p, "no function") /\ UNCHANGED chanCall
           \/ closed[m] /\ AsynFails(p, "closed") /\ UNCHANGED chanCall
           \/ /\ ~closed[m] /\ Len(chanCall[m]) = CallLen
              /\ AsynFails(p, "full") /\ UNCHANGED chanCall
           \/ /\ ~closed[m] /\ Len(chanCall[m]) < CallLen
              /\ chanCall' = [chanCall EXCEPT ![m] = Append(@, New)]
              /\ UNCHANGED chanAsynRet
        /\ pendingAsynCall' = [pendingAsynCall EXCEPT ![p] = @ + 1]
        /\ UNCHANGED got
  /\ UNCHANGED <<proc, closed, chanSyncRet, gos, tms, destroy, ran>>

-----------------------------------------------------------------------------
\* Go.Go: a goroutine runs f, then sends the callback to ChanCb.
Go(m) ==
  /\ Start("go", m, m)
  /\ pendingGo' = [pendingGo EXCEPT ![m] = @ + 1]
  /\ running' = [running EXCEPT ![m] = @ \cup {New}]
  /\ UNCHANGED <<proc, rpc, linearGo, execution, chanCb, tms, destroy, ran>>

GoEnds(m, i) ==
  /\ i \in running[m] /\ Len(chanCb[m]) < GoLen
  /\ running' = [running EXCEPT ![m] = @ \ {i}]
  /\ chanCb' = [chanCb EXCEPT ![m] = Append(@, i)]
  /\ Ran(i)
  /\ UNCHANGED <<ops, proc, rpc, linearGo, execution, pendingGo, tms, destroy>>

\* LinearContext.Go: f and its callback go to a list, a goroutine is started.
LinearContextGo(m) ==
  /\ Start("linear", m, m)
  /\ pendingGo' = [pendingGo EXCEPT ![m] = @ + 1]
  /\ linearGo' = [linearGo EXCEPT ![m] = Append(@, New)]
  /\ UNCHANGED <<proc, rpc, running, execution, chanCb, tms, destroy, ran>>

\* Mutant: a goroutine takes an element without mutexExecution.
LinearTake_NoMutex(m) ==
  /\ linearGo[m] # <<>>
  /\ running' = [running EXCEPT ![m] = @ \cup {Head(linearGo[m])}]
  /\ linearGo' = [linearGo EXCEPT ![m] = Tail(@)]
  /\ UNCHANGED <<ops, proc, rpc, execution, chanCb, pendingGo, tms, destroy, ran>>

\* One of the goroutines waiting (as many as elements) gets mutexExecution and
\* the front of the list ...
LinearTake(m) ==
  /\ execution[m] = 0 /\ linearGo[m] # <<>>
  /\ execution' = [execution EXCEPT ![m] = Head(linearGo[m])]
  /\ linearGo' = [linearGo EXCEPT ![m] = Tail(@)]
  /\ UNCHANGED <<ops, proc, rpc, running, chanCb, pendingGo, tms, destroy, ran>>

\* ... runs f, sends the callback and unlocks.
LinearEnds(m) ==
  /\ execution[m] # 0 /\ Len(chanCb[m]) < GoLen
  /\ chanCb' = [chanCb EXCEPT ![m] = Append(@, execution[m])]
  /\ Ran(execution[m])
  /\ execution' = [execution EXCEPT ![m] = 0]
  /\ UNCHANGED <<ops, proc, rpc, running, linearGo, pendingGo, tms, destroy>>

-----------------------------------------------------------------------------
\* Dispatcher.AfterFunc
AfterFunc(kind, m) ==
  /\ Start(kind, m, m)
  /\ timers' = [timers EXCEPT ![New] = "armed"] /\ cb' = [cb EXCEPT ![New] = TRUE]
  /\ UNCHANGED <<proc, rpc, gos, chanTimer, stopped, destroy, ran>>

\* Dispatcher.CronFunc, when Next finds a time: the first timer of the cron.
CronFunc(m) == AfterFunc("cron", m)

\* The duration has passed: the runtime starts the function of time.AfterFunc.
Fire(i) ==
  /\ timers[i] = "armed"
  /\ timers' = [timers EXCEPT ![i] = "fired"]
  /\ UNCHANGED <<ops, proc, rpc, gos, cb, chanTimer, stopped, destroy, ran>>

\* disp.ChanTimer <- t
FireSend(i) ==
  LET m == ops[i].by
  IN /\ timers[i] = "fired" /\ Len(chanTimer[m]) < TimerLen
     /\ timers' = [timers EXCEPT ![i] = "queued"]
     /\ chanTimer' = [chanTimer EXCEPT ![m] = Append(@, i)]
     /\ UNCHANGED <<ops, proc, rpc, gos, cb, stopped, destroy, ran>>

\* Mutant: Stop only stops the time.Timer.
Stop_KeepsCb(m, i) ==
  /\ st[m] = "busy" /\ i \in 1 .. Len(ops) /\ ops[i].by = m /\ timers[i] # "none"
  /\ i \notin stopped
  /\ timers' = [timers EXCEPT ![i] = IF @ = "armed" THEN "stopped" ELSE @]
  /\ stopped' = stopped \cup {i}
  /\ UNCHANGED <<ops, proc, rpc, gos, cb, chanTimer, destroy, ran>>

\* Timer.Stop, Cron.Stop: a timer that has fired is on its way, without callback.
Stop(m, i) ==
  /\ st[m] = "busy" /\ i \in 1 .. Len(ops) /\ ops[i].by = m /\ timers[i] # "none"
  /\ i \notin stopped
  /\ timers' = [timers EXCEPT ![i] = IF @ = "armed" THEN "stopped" ELSE @]
  /\ cb' = [cb EXCEPT ![i] = FALSE]
  /\ stopped' = stopped \cup {i}
  /\ UNCHANGED <<ops, proc, rpc, gos, chanTimer, destroy, ran>>

-----------------------------------------------------------------------------
\* The select of Skeleton.Run: any case that is ready.
Idle(m, where) == st[m] = "idle" /\ loop[m] = where
Execute(m, kind, i) ==
  /\ st' = [st EXCEPT ![m] = "busy"] /\ cur' = [cur EXCEPT ![m] = <<kind, i>>]

\* Client.Cb, also from Client.Close
ClientCb(m) ==
  LET ri == Head(chanAsynRet[m])
  IN /\ Idle(m, "run") \/ (Idle(m, "client.Close") /\ pendingAsynCall[m] > 0)
     /\ chanAsynRet[m] # <<>>
     /\ chanAsynRet' = [chanAsynRet EXCEPT ![m] = Tail(@)]
     /\ pendingAsynCall' = [pendingAsynCall EXCEPT ![m] = @ - 1]
     /\ Got(ri[1], ri[2])
     /\ Execute(m, "cb", ri[1])
     /\ UNCHANGED <<ops, loop, sync, chanCall, closed, chanSyncRet, gos, tms, destroy, ran>>

\* Server.Exec, up to the end of the function
ServerExec(m) ==
  LET i == Head(chanCall[m])
  IN /\ Idle(m, "run") /\ chanCall[m] # <<>>
     /\ chanCall' = [chanCall EXCEPT ![m] = Tail(@)]
     /\ Ran(i)
     /\ Execute(m, "call", i)
     /\ UNCHANGED <<ops, loop, sync, closed, chanSyncRet, chanAsynRet,
                    pendingAsynCall, got, gos, tms, destroy>>

\* Go.Cb, also from Go.Close, up to the end of the callback
GoCb(m) ==
  LET i == Head(chanCb[m])
  IN /\ Idle(m, "run") \/ (Idle(m, "g.Close") /\ pendingGo[m] > 0)
     /\ chanCb[m] # <<>>
     /\ chanCb' = [chanCb EXCEPT ![m] = Tail(@)]
     /\ Got(i, "ran")
     /\ Execute(m, "go", i)
     /\ UNCHANGED <<ops, loop, sync, chanCall, closed, chanSyncRet, chanAsynRet,
                    pendingAsynCall, running, linearGo, execution, pendingGo,
                    tms, destroy, ran>>

\* The callback of a cron starts the next timer, unless there is no next time,
\* then runs the user's callback.
CronNext(i) ==
  /\ ops[i].kind = "cron" /\ ran[i] + 1 < MaxFires
  /\ timers' = [timers EXCEPT ![i] = "armed"]
  /\ UNCHANGED cb

\* Timer.Cb
TimerCb(m) ==
  LET i == Head(chanTimer[m])
  IN /\ Idle(m, "run") /\ chanTimer[m] # <<>>
     /\ chanTimer' = [chanTimer EXCEPT ![m] = Tail(@)]
     /\ \/ ~cb[i] /\ timers' = [timers EXCEPT ![i] = "over"]
           /\ UNCHANGED <<st, cur, cb, ran>>
        \/ /\ cb[i] /\ Ran(i) /\ Execute(m, "timer", i)
           /\ \/ timers' = [timers EXCEPT ![i] = "over"] /\ cb' = [cb EXCEPT ![i] = FALSE]
              \/ CronNext(i)
     /\ UNCHANGED <<ops, loop, sync, rpc, gos, stopped, destroy>>

\* Server.ret: the answer goes to the channel of the caller; a Go has none.
\* It is sent only when there is room: otherwise the server blocks.
ChanRet(i) ==
  LET p == ops[i].by
  IN IF ops[i].kind = "AsynCall" THEN chanAsynRet[p] ELSE chanSyncRet[p]
RetRoom(i) ==
  \/ ops[i].kind = "Go"
  \/ ops[i].kind = "Call" /\ Len(ChanRet(i)) < 1
  \/ ops[i].kind = "AsynCall" /\ Len(ChanRet(i)) < AsynLen
Ret(i, r) ==
  LET p == ops[i].by
  IN /\ RetRoom(i)
     /\ chanSyncRet' = IF ops[i].kind # "Call" THEN chanSyncRet
                       ELSE [chanSyncRet EXCEPT ![p] = Append(@, <<i, r>>)]
     /\ chanAsynRet' = IF ops[i].kind # "AsynCall" THEN chanAsynRet
                       ELSE [chanAsynRet EXCEPT ![p] = Append(@, <<i, r>>)]

\* Server.exec: the function returned or panicked, both are answered.
Answer(i) == Ret(i, "ran")

\* The function or callback that m runs ends.
Finish(m) ==
  /\ m \in Modules /\ st[m] = "busy"
  /\ st' = [st EXCEPT ![m] = "idle"] /\ cur' = [cur EXCEPT ![m] = None]
  /\ \/ /\ cur[m][1] = "call" /\ Answer(cur[m][2])
        /\ UNCHANGED pendingGo
     \/ /\ cur[m][1] = "go"
        /\ pendingGo' = [pendingGo EXCEPT ![m] = @ - 1]
        /\ UNCHANGED <<chanSyncRet, chanAsynRet>>
     \/ /\ cur[m][1] \in {"cb", "timer"}
        /\ UNCHANGED <<chanSyncRet, chanAsynRet, pendingGo>>
  /\ UNCHANGED <<ops, loop, sync, chanCall, closed, pendingAsynCall, got,
                 running, linearGo, execution, chanCb, tms, destroy, ran>>

-----------------------------------------------------------------------------
\* module.Destroy closes the modules, the last one first, and waits for each.
Destroy ==
  /\ main > 0
  /\ main <= N => loop[main] = "done"
  /\ main' = main - 1
  /\ closeSig' = IF main = 1 THEN closeSig ELSE [closeSig EXCEPT ![main - 1] = TRUE]
  /\ UNCHANGED <<ops, proc, rpc, gos, tms, ran>>

\* case <-closeSig: close(s.ChanCall) ...
ServerClose(m) ==
  /\ Idle(m, "run") /\ closeSig[m]
  /\ closeSig' = [closeSig EXCEPT ![m] = FALSE]
  /\ closed' = [closed EXCEPT ![m] = TRUE]
  /\ loop' = [loop EXCEPT ![m] = "server.Close"]
  /\ UNCHANGED <<ops, st, cur, sync, chanCall, chanSyncRet, chanAsynRet,
                 pendingAsynCall, got, gos, tms, main, ran>>

\* Mutant: what is in ChanCall is dropped.
Drain_Drops(m) ==
  /\ Idle(m, "server.Close")
  /\ chanCall' = [chanCall EXCEPT ![m] = <<>>]
  /\ loop' = [loop EXCEPT ![m] = "g.Close"]
  /\ UNCHANGED <<ops, st, cur, sync, closed, chanSyncRet, chanAsynRet,
                 pendingAsynCall, got, gos, tms, destroy, ran>>

\* ... and what is left in it is answered with an error.
Drain(m) ==
  /\ Idle(m, "server.Close")
  /\ \/ /\ chanCall[m] # <<>>
        /\ Ret(Head(chanCall[m]), "closed")
        /\ chanCall' = [chanCall EXCEPT ![m] = Tail(@)]
        /\ UNCHANGED loop
     \/ /\ chanCall[m] = <<>>
        /\ loop' = [loop EXCEPT ![m] = "g.Close"]
        /\ UNCHANGED <<chanSyncRet, chanAsynRet, chanCall>>
  /\ UNCHANGED <<ops, st, cur, sync, closed, pendingAsynCall, got, gos, tms,
                 destroy, ran>>

\* Mutant: each Close once.
CloseStep_Once(m) ==
  CASE loop[m] = "g.Close" /\ pendingGo[m] = 0 -> "client.Close"
    [] loop[m] = "client.Close" /\ pendingAsynCall[m] = 0 -> "done"
    [] OTHER -> loop[m]

\* for !s.g.Idle() || !s.client.Idle(): g.Close, then client.Close
CloseStep(m) ==
  CASE loop[m] = "g.Close" /\ pendingGo[m] = 0 -> "client.Close"
    [] loop[m] = "client.Close" /\ pendingAsynCall[m] = 0 ->
         IF pendingGo[m] = 0 THEN "done" ELSE "g.Close"
    [] OTHER -> loop[m]
Closing(m) ==
  /\ st[m] = "idle" /\ CloseStep(m) # loop[m]
  /\ loop' = [loop EXCEPT ![m] = CloseStep(m)]
  /\ UNCHANGED <<ops, st, cur, sync, rpc, gos, tms, destroy, ran>>

-----------------------------------------------------------------------------
Client(p) ==
  \/ \E m \in Modules \ {p} : Call("Go", p, m) \/ Call("Call", p, m)
  \/ Send(p)
  \/ Receive(p)

User(m) ==
  \/ \E to \in Modules : AsynCall(m, to)
  \/ Go(m) \/ LinearContextGo(m)
  \/ AfterFunc("after", m) \/ CronFunc(m)
  \/ \E i \in Ids : Stop(m, i)

Goroutines(m) == LinearTake(m) \/ LinearEnds(m) \/ \E i \in Ids : GoEnds(m, i)

Run(m) ==
  \/ ClientCb(m) \/ ServerExec(m) \/ GoCb(m) \/ TimerCb(m) \/ Finish(m)
  \/ ServerClose(m) \/ Drain(m) \/ Closing(m)

\* Everything is over.
Terminated == main = 0 /\ (\A p \in Procs : st[p] \notin {"send", "wait"}) /\ UNCHANGED vars

Next ==
  \/ \E p \in Procs : Client(p)
  \/ \E m \in Modules : User(m) \/ Goroutines(m) \/ Run(m)
  \/ \E i \in Ids : Fire(i) \/ FireSend(i)
  \/ Destroy
  \/ Terminated

\* Goroutines run, functions end, and main goes on once Destroy has begun.
Fairness ==
  /\ \A p \in Procs : WF_vars(Send(p)) /\ WF_vars(Receive(p))
  /\ \A m \in Modules : WF_vars(Goroutines(m)) /\ WF_vars(Run(m))
  /\ WF_vars(main <= N /\ Destroy)

Spec == Init /\ [][Next]_vars /\ Fairness

-----------------------------------------------------------------------------
\* A server never blocks on an answer (Server.ret has no default): whenever it has
\* one to send, from Exec or from Close, the channel of the caller has room.
AnswerHasRoom ==
  \A m \in Modules :
    /\ st[m] = "busy" /\ cur[m][1] = "call" => RetRoom(cur[m][2])
    /\ loop[m] = "server.Close" /\ chanCall[m] # <<>> => RetRoom(Head(chanCall[m]))

\* An operation ends once, and what its caller is told is true: an error
\* of the client or of a closed server means that the function did not run.
\* When a module has returned from Run, every Go and every AsynCall it started
\* has had its callback.
ResultIsTrue ==
  \A i \in 1 .. Len(ops) :
    /\ Len(got[i]) <= 1
    /\ ops[i].kind \notin {"cron"} => ran[i] <= 1
    /\ \A k \in 1 .. Len(got[i]) :
         (got[i][k] = "ran") = (ran[i] = 1)
    /\ /\ ops[i].by \in Modules /\ loop[ops[i].by] = "done"
       /\ ops[i].kind \in {"go", "linear", "AsynCall"}
       => got[i] # <<>>

\* The callbacks of a LinearContext run in the order of its Go calls.
LinearOrder ==
  \A i, j \in 1 .. Len(ops) :
    /\ i < j /\ ops[i].kind = "linear" /\ ops[j].kind = "linear"
    /\ ops[i].by = ops[j].by /\ got[j] # <<>>
    => got[i] # <<>>

\* The callback of a stopped timer does not run, wherever the timer was then.
StoppedSilent == [][\A i \in stopped : ran'[i] = ran[i]]_vars

\* A blocking call returns, also when its module is closed meanwhile, and
\* module.Destroy returns, with no goroutine left that it waits for.
CallsReturn ==
  /\ \A p \in Procs : (st[p] \in {"send", "wait"}) ~> (st[p] = "busy")
  /\ (main <= N) ~> (main = 0)
=============================================================================
