------------------------------ MODULE UdpManager ------------------------------
(***************************************************************************)
(* The sessions of a UDP server: udp_manager.go, udp_user.go, udp_conn.go  *)
(* and udp_server.go of leaf/network/udp.  The goroutine of the server     *)
(* routes each packet to a session, by the session's id or, for the first  *)
(* packet of a client, by user and address; a session has a goroutine of   *)
(* its agent, one that sends again, and one that waits for tDie.  What is  *)
(* sent goes through SendList to one more goroutine.                       *)
(*                                                                         *)
(* A section under mutexConns is one action, so the goroutine of the       *)
(* server is at a place between the lookup and what follows from it.  The  *)
(* mutex of a session is held across a step only by that goroutine, which  *)
(* waits inside TransMsg while RecvChan is full.  A session is the number  *)
(* that NewUDPSessionManager counts from (cid).                            *)
(***************************************************************************)
EXTENDS Integers, FiniteSets

CONSTANTS Users,   \* names in ClientAuthRequest
          Addrs,   \* addresses of clients
          MaxCid,  \* bound on the sessions created
          RecvLen  \* capacity of RecvChan (PendingWriteNum)

Cids == 1 .. MaxCid
Keys == Addrs \X Users
NoCid == 0

VARIABLES
  cid,          \* the next id
  count,        \* SessionCount
  sessions,     \* sessions: the ids in the map
  sessionHash,  \* sessionHash: key -> session
  auth,         \* auth_session of a user
  user, addr, hashKey,   \* of a session
  closeFlag,             \* of a session
  agent,        \* goroutine of the agent: "none", "run", "over"
  resend,       \* goroutine that sends again: runs
  route,        \* place of the goroutine of the server
  queued,       \* packets in RecvChan; one more than RecvLen waits in TransMsg
  at,           \* place of the agent's goroutine while it runs
  blocked,      \* the other goroutine waits for room in SendList
  sendFull,     \* SendList is full, and its goroutine is over
  server,       \* "run", Close: "close" (waits for wgLn), "stop" (walks the map),
                \* "wait" (for wgConns), "closed"; "crash"
  walked        \* sessions that Stop has come to

maps == <<cid, count, sessions, sessionHash, auth>>
session == <<user, addr, hashKey, closeFlag>>
queues == <<queued, at, blocked, sendFull>>
vars == <<maps, session, agent, resend, route, queues, server, walked>>

Idle == <<"idle">>

Init ==
  /\ cid = 1 /\ count = 0 /\ sessions = {}
  /\ sessionHash = [k \in Keys |-> NoCid] /\ auth = [u \in Users |-> NoCid]
  /\ user = [c \in Cids |-> CHOOSE u \in Users : TRUE]
  /\ addr = [c \in Cids |-> CHOOSE a \in Addrs : TRUE]
  /\ hashKey = [c \in Cids |-> CHOOSE k \in Keys : TRUE]
  /\ closeFlag = [c \in Cids |-> FALSE]
  /\ agent = [c \in Cids |-> "none"] /\ resend = [c \in Cids |-> FALSE]
  /\ route = Idle /\ server = "run" /\ walked = {}
  /\ queued = [c \in Cids |-> 0] /\ sendFull = FALSE
  /\ at = [c \in Cids |-> "read"] /\ blocked = [c \in Cids |-> FALSE]

\* The goroutine of the server is in TransMsg of session c and holds its mutex.
InTransMsg(c) == queued[c] > RecvLen
\* It is between two packets.
BetweenPackets == route = Idle /\ \A c \in Cids : ~InTransMsg(c)

\* ClientSessionGet without an id: only an authentication request gets further,
\* by address and user (while the bound on sessions leaves one to create).
ClientAuth(u, a) ==
  /\ server = "run" /\ BetweenPackets
  /\ IF sessionHash[<<a, u>>] # NoCid
     THEN route' = <<"msg", sessionHash[<<a, u>>]>>
     ELSE cid \in Cids /\ route' = <<"auth", u, a>>
  /\ UNCHANGED <<maps, session, agent, resend, queues, server, walked>>

\* Mutant: the old session is left open.
CloseOld_Keeps(u) == UNCHANGED closeFlag

\* user.auth_session.Close(): the user comes from another address.  Nobody else
\* holds the mutex for longer than a moment, so this does not wait.
CloseOld(u) ==
  closeFlag' = IF auth[u] = NoCid THEN closeFlag
               ELSE [closeFlag EXCEPT ![auth[u]] = TRUE]

\* CreateSession: the session is in both maps before its goroutines run.
CreateSession(u, a) ==
  /\ cid \in Cids
  /\ cid' = cid + 1 /\ count' = count + 1
  /\ sessions' = sessions \cup {cid}
  /\ sessionHash' = [sessionHash EXCEPT ![<<a, u>>] = cid]
  /\ auth' = [auth EXCEPT ![u] = cid]
  /\ user' = [user EXCEPT ![cid] = u] /\ addr' = [addr EXCEPT ![cid] = a]
  /\ hashKey' = [hashKey EXCEPT ![cid] = <<a, u>>]
  /\ agent' = [agent EXCEPT ![cid] = "run"]
  /\ resend' = [resend EXCEPT ![cid] = TRUE]

\* ... the user's session, if it has this address, or a new one.  estab_session
\* is never set.
AuthUser ==
  /\ route[1] = "auth"
  /\ LET u == route[2]
         a == route[3]
         c == auth[u]
     IN IF c # NoCid /\ addr[c] = a
        THEN route' = <<"msg", c>> /\ UNCHANGED <<maps, session, agent, resend>>
        ELSE CloseOld(u) /\ CreateSession(u, a) /\ route' = <<"msg", cid>>
  /\ UNCHANGED <<queues, server, walked>>

\* ClientSessionGet with an id: the session is looked up ...
ClientLookUp(c, a) ==
  /\ server = "run" /\ BetweenPackets
  /\ c \in sessions
  /\ route' = <<"cid", c, a>>
  /\ UNCHANGED <<maps, session, agent, resend, queues, server, walked>>

\* ... and follows its client to a new address: clientTryUpdateIp.
TryUpdateIp(c, a) ==
  IF addr[c] = a THEN UNCHANGED <<sessionHash, addr, hashKey>>
  ELSE /\ sessionHash' = [sessionHash EXCEPT ![hashKey[c]] = NoCid, ![<<a, user[c]>>] = c]
       /\ hashKey' = [hashKey EXCEPT ![c] = <<a, user[c]>>]
       /\ addr' = [addr EXCEPT ![c] = a]
ClientUpdateIp ==
  /\ route[1] = "cid"
  /\ TryUpdateIp(route[2], route[3])
  /\ route' = <<"msg", route[2]>>
  /\ UNCHANGED <<cid, count, sessions, auth, user, closeFlag, agent, resend, queues,
                 server, walked>>

\* routeMsgToSession, TransMsg: a closed session drops the packet; else it goes to
\* RecvChan, and if that is full the goroutine waits there, mutex in hand.
RouteToSession ==
  /\ route[1] = "msg"
  /\ route' = Idle
  /\ queued' = IF closeFlag[route[2]] THEN queued ELSE [queued EXCEPT ![route[2]] = @ + 1]
  /\ UNCHANGED <<maps, session, agent, resend, at, blocked, sendFull, server, walked>>

\* ClientSession.Close under the session's mutex: tDie after 10 s, CloseSession, the
\* agent's Close.
Close(c) ==
  /\ c < cid /\ ~closeFlag[c] /\ ~InTransMsg(c)
  /\ closeFlag' = [closeFlag EXCEPT ![c] = TRUE]
  /\ UNCHANGED <<maps, user, addr, hashKey, agent, resend, route, queues, server, walked>>

\* The goroutine of the agent reads a packet: one that needs no more, also because
\* SendList takes the answer of its handler; a reply, for which RequestDel takes the
\* mutex; or a request whose answer waits for room in SendList.
AgentRead(c) ==
  /\ agent[c] = "run" /\ at[c] = "read" /\ queued[c] > 0
  /\ queued' = [queued EXCEPT ![c] = @ - 1]
  /\ \E place \in {"read", "lock"} \cup (IF sendFull THEN {"write"} ELSE {}) :
       at' = [at EXCEPT ![c] = place]
  /\ UNCHANGED <<maps, session, agent, resend, route, blocked, sendFull, server, walked>>

RequestDel(c) ==
  /\ agent[c] = "run" /\ at[c] = "lock" /\ ~InTransMsg(c)
  /\ at' = [at EXCEPT ![c] = "read"]
  /\ UNCHANGED <<maps, session, agent, resend, route, queued, blocked, sendFull, server, walked>>

\* Run ends with a closed session, or because a message cannot be routed; the
\* session leaves the maps.  Stop walks the map without mutexConns: a delete may
\* end the program (concurrent map iteration and map write).
AgentOver(c) ==
  /\ agent[c] = "run" /\ at[c] = "read"
  /\ agent' = [agent EXCEPT ![c] = "over"]
  /\ count' = count - 1
  /\ sessions' = sessions \ {c}
  /\ sessionHash' = [sessionHash EXCEPT ![hashKey[c]] = NoCid]
  /\ server' = server \/ (server = "stop" /\ server' = "crash")
  /\ UNCHANGED <<cid, auth, session, resend, route, queues, walked>>

\* The other goroutine sends the front of SendQueue, which shows here when SendList
\* has no room.  (Where it counts the retry it waits for TransMsg to leave the mutex,
\* and at CloseFlag the mutex is free.)
Resend(c) ==
  /\ resend[c] /\ ~blocked[c] /\ ~closeFlag[c] /\ sendFull
  /\ blocked' = [blocked EXCEPT ![c] = TRUE]
  /\ UNCHANGED <<maps, session, agent, resend, route, queued, at, sendFull, server, walked>>

ResendOver(c) ==
  /\ resend[c] /\ ~blocked[c] /\ closeFlag[c]
  /\ resend' = [resend EXCEPT ![c] = FALSE]
  /\ UNCHANGED <<maps, session, agent, route, queues, server, walked>>

\* The goroutine of SendList ends with the first write that fails, on an error of the
\* network or because Close has closed the socket; until SendListCount messages are
\* in SendList nobody notices.
SendOver ==
  /\ ~sendFull
  /\ sendFull' = TRUE
  /\ UNCHANGED <<maps, session, agent, resend, route, queued, at, blocked, server, walked>>

\* UDPServer.Close: the socket is closed, ...
ServerClose ==
  /\ server = "run"
  /\ server' = "close"
  /\ UNCHANGED <<maps, session, agent, resend, route, queues, walked>>

\* ... the goroutine of the server ends after its packet, ...
ListenEnds ==
  /\ server = "close" /\ BetweenPackets
  /\ server' = "stop"
  /\ UNCHANGED <<maps, session, agent, resend, route, queues, walked>>

\* ... Stop closes the sessions it finds in the map, one after the other, ...
StopSession(c) ==
  /\ server = "stop" /\ c \in sessions \ walked
  /\ closeFlag' = [closeFlag EXCEPT ![c] = TRUE]
  /\ walked' = walked \cup {c}
  /\ UNCHANGED <<maps, user, addr, hashKey, agent, resend, route, queues, server>>

\* ... empties the maps and waits for the goroutines.  (cid starts again at 1, but
\* the socket is closed and no session is created.)
Stop ==
  /\ server = "stop" /\ sessions \subseteq walked
  /\ count' = 0 /\ cid' = cid /\ sessions' = {}
  /\ sessionHash' = [k \in Keys |-> NoCid] /\ auth' = [u \in Users |-> NoCid]
  /\ server' = "wait" /\ walked' = {}
  /\ UNCHANGED <<session, agent, resend, route, queues>>

StopEnds ==
  /\ server = "wait" /\ \A c \in Cids : agent[c] # "run" /\ ~resend[c]
  /\ server' = "closed"
  /\ UNCHANGED <<maps, session, agent, resend, route, queues, walked>>

Router == AuthUser \/ ClientUpdateIp \/ RouteToSession
Agent(c) == AgentRead(c) \/ RequestDel(c)
Closer == ListenEnds \/ (\E c \in Cids : StopSession(c)) \/ Stop \/ StopEnds
Alive == server # "crash"

Next ==
  /\ Alive
  /\ \/ \E u \in Users, a \in Addrs : ClientAuth(u, a)
     \/ \E c \in Cids, a \in Addrs : ClientLookUp(c, a)
     \/ \E c \in Cids : Close(c) \/ Agent(c) \/ AgentOver(c) \/ Resend(c) \/ ResendOver(c)
     \/ Router \/ SendOver \/ ServerClose \/ Closer

\* What a goroutine does once it can: an agent ends when its closed RecvChan is empty,
\* and tDie expires when the agent does not reset it any more.
Due ==
  \/ Router \/ Closer
  \/ \E c \in Cids :
       \/ Agent(c) \/ ResendOver(c)
       \/ closeFlag[c] /\ queued[c] = 0 /\ AgentOver(c)
       \/ agent[c] = "over" /\ Close(c)

-----------------------------------------------------------------------------
\* A user has one open session at most, wherever the client moves and whatever
\* is closed meanwhile; the map has the sessions whose agent runs; a session is
\* in the hash under its own key only.
OnePerUser ==
  /\ \A c, d \in Cids :
       c < cid /\ d < cid /\ c # d /\ user[c] = user[d] => closeFlag[c] \/ closeFlag[d]
  /\ server \in {"run", "close", "stop"} =>
       sessions = {c \in Cids : agent[c] = "run"} /\ count = Cardinality(sessions)
  /\ \A k \in Keys : sessionHash[k] # NoCid => hashKey[sessionHash[k]] = k

\* What stops Close for good: the goroutine of the server is in TransMsg and the
\* agent that should read waits for the same mutex or is over (udp_conn.go:58); or
\* SendList is full, its goroutine gone, and somebody writes (udp_server.go:75).
Stuck ==
  \/ \E c \in Cids : InTransMsg(c) /\ (agent[c] = "over" \/ at[c] = "lock")
  \/ \E c \in Cids : blocked[c] \/ at[c] = "write"

\* UDPServer.Close returns unless it is stopped for good, or the runtime ends the
\* program: no goroutine that Stop waits for is forgotten.
StopReturns == []<>(server \in {"run", "closed", "crash"}) \/ <>[]Stuck
=============================================================================
