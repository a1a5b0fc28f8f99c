-------------------------------- MODULE MCNet --------------------------------
(***************************************************************************)
(* The network layer of leaf: the requests of a UDP session, the sessions  *)
(* of a UDP server, and TCP connections.  They share no state, so one of   *)
(* them runs in a behaviour and the others stay as they begin.             *)
(***************************************************************************)
EXTENDS Naturals, Sequences

CONSTANTS Wrap, Lag, RecvLen, MaxAdd, MaxReq, Users, Addrs, MaxCid,
          Conns, MaxConnNum, WriteLen, MaxMsg

\* Nothing in the network is as late as it takes Request_id to come round: Lag is
\* less than its 2^8 values.  The others bound what is looked at.
ASSUME NetAssumption ==
  /\ Wrap \in Nat /\ Lag \in 1 .. Wrap - 1
  /\ RecvLen \in Nat /\ MaxAdd \in Nat /\ MaxReq \in Nat /\ MaxCid \in Nat

VARIABLES
  part,                                                        \* what runs
  myRequestId, sendQueue, cond, sCloseFlag, reader, recvChan,  \* UdpSession
  peerRequestId, todo, net, added, acked, handled, sResend, sAgent,
  cid, count, sessions, sessionHash, auth, user, addr, hashKey,  \* UdpManager
  mCloseFlag, mAgent, resend, route, server, queued, at, blocked, sendFull,
  walked, role, sock, writeChan, chanClosed, tCloseFlag, writer, tAgent,  \* TcpNet
  conns, owner, written, sent, cut

S == INSTANCE UdpSession WITH closeFlag <- sCloseFlag, agent <- sAgent, resend <- sResend
M == INSTANCE UdpManager WITH closeFlag <- mCloseFlag, agent <- mAgent
T == INSTANCE TcpNet WITH closeFlag <- tCloseFlag, agent <- tAgent

sessionVars == <<myRequestId, sendQueue, cond, sCloseFlag, reader, recvChan,
                 peerRequestId, todo, net, added, acked, handled, sResend, sAgent>>
managerVars == <<cid, count, sessions, sessionHash, auth, user, addr, hashKey,
                 mCloseFlag, mAgent, resend, route, server, queued, at, blocked,
                 sendFull, walked>>
tcpVars == <<role, sock, writeChan, chanClosed, tCloseFlag, writer, tAgent,
             conns, owner, written, sent, cut>>
vars == <<part, sessionVars, managerVars, tcpVars>>

Init ==
  /\ part \in {"session", "manager", "tcp"}
  /\ S!Init /\ M!Init /\ T!Init
  /\ part # "tcp" => role = "server"

Next ==
  \/ part = "session" /\ S!Next /\ UNCHANGED <<part, managerVars, tcpVars>>
  \/ part = "manager" /\ M!Next /\ UNCHANGED <<part, sessionVars, tcpVars>>
  \/ part = "tcp" /\ T!Next /\ UNCHANGED <<part, sessionVars, managerVars>>

\* A session: goroutines run, a mutex that is free again and again is got
\* (sync.Mutex does not starve a waiter), the delay passes, tDie is not reset any more
\* when the agent is over, and a packet sent again and again arrives.
SessionFairness ==
  /\ SF_sessionVars(part = "session" /\ S!Resender)
  /\ WF_sessionVars(part = "session" /\ S!Reader)
  /\ WF_sessionVars(part = "session" /\ sAgent = "over" /\ S!Destory)
  /\ WF_sessionVars(part = "session" /\ \E n \in S!Nums : S!Reply(n))
  /\ SF_sessionVars(part = "session" /\ S!RequestArrives)
  /\ SF_sessionVars(part = "session" /\ S!ReplyArrives)

\* A UDP server: goroutines run.  This is less than fairness of each one: a closed
\* socket brings no more packets, so that each comes to its end when not all rest.
ManagerFairness == WF_managerVars(part = "manager" /\ M!Alive /\ M!Due)

\* TCP connections: goroutines run; a read of a closed socket fails, others may go on.
TcpFairness ==
  /\ \A c \in Conns :
       /\ WF_tcpVars(part = "tcp" /\ (T!WriterStep(c) \/ T!WriterEnds(c)))
       /\ WF_tcpVars(/\ part = "tcp"
                     /\ \/ T!Connect(c) \/ T!Cleanup(c)
                        \/ sock[c] = "closed" /\ T!AgentRunEnds(c))
  /\ WF_tcpVars(part = "tcp" /\ T!CloseEnds)

Spec == Init /\ [][Next]_vars /\ SessionFairness /\ ManagerFairness /\ TcpFairness

-----------------------------------------------------------------------------
\* UdpSession: the peer's agent gets the requests in the order of RequestAdd,
\* without a gap, although Request_id wraps and packets are lost and late, and
\* a request leaves SendQueue only when the agent got it.
RequestsInOrder == S!RequestsInOrder

\* UdpSession: every request is answered in the end, unless the session is closed,
\* or reader and router wait for each other for good at the connection's mutex.
RequestAcked == S!RequestAcked

\* UdpManager: one open session of a user, and the maps agree with the sessions.
OnePerUser == M!OnePerUser

\* TcpNet: Close sends what Write accepted before it ends the connection.
CloseFlushes == T!CloseFlushes

\* UdpManager and TcpNet: Close of a UDP server, a TCP server and a TCP client
\* returns, with no goroutine left to wait for and no socket left open; the UDP
\* server's unless a packet waits for an agent that waits for the mutex or is over,
\* a writer for a full SendList that nobody empties, or the runtime ends the program.
CloseReturns == M!StopReturns /\ T!CloseReturns
=============================================================================
