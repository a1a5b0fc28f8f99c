------------------------------ MODULE UdpSession ------------------------------
(***************************************************************************)
(* Reliable requests over UDP: udp_session.go with udp_conn.go, queue.go   *)
(* and cond.go of leaf/network, and the resend goroutine that              *)
(* CreateSession starts.  A session sends requests, its peer accepts and   *)
(* answers them; both run the code of ClientSession, of which the sending  *)
(* half is shown here at one end and the receiving half at the other.      *)
(*                                                                         *)
(* Requests are numbered in the order of RequestAdd; a packet carries the  *)
(* number reduced to the width of Request_id, and the number itself as a   *)
(* ghost.  Packets are lost, duplicated (a request by the network, a reply *)
(* by its request) and reordered, but nothing of a request is left when    *)
(* the session is Lag requests further.                                    *)
(*                                                                         *)
(* The mutex of UDPConn is held across a step by one goroutine only: the   *)
(* one of the server, which waits inside TransMsg while RecvChan is full.  *)
(* The others take it for a moment, and wait for it here as there.         *)
(***************************************************************************)
EXTENDS Naturals, Sequences

CONSTANTS Wrap,     \* values of Request_id (2^8)
          Lag,      \* how many requests a packet can be late
          RecvLen,  \* capacity of RecvChan (PendingWriteNum)
          MaxAdd,   \* arguments of one WriteMsg
          MaxReq    \* bound on the requests

Nums == 1 .. MaxReq

VARIABLES
  myRequestId, sendQueue, cond,  \* of the session: uint8, numbers queued, signal
  resend,                        \* place of the goroutine that sends again
  closeFlag,                     \* the session is closed
  agent,                         \* place of the goroutine of the agent
  reader,                        \* request whose reply the session's ReadMsg checks; 0
  recvChan,                      \* replies routed to the session, not read yet; one
                                 \* more than RecvLen: the last waits to get in
  peerRequestId,                 \* of the peer
  todo,                          \* requests the peer accepted and has to answer
  net,                           \* packets on their way
  added,                         \* history: requests added
  acked,                         \* history: requests removed by a reply
  handled                        \* history: requests the peer's agent got, in order,
                                 \* a request repeated at once counted once

sending == <<myRequestId, sendQueue, cond, added>>
places == <<resend, closeFlag, agent>>
vars == <<sending, places, reader, recvChan, peerRequestId, todo, net, acked, handled>>

Packet(kind, n, id) == [kind |-> kind, n |-> n, id |-> id]
Id(n) == (n - 1) % Wrap

Init ==
  /\ myRequestId = 0 /\ sendQueue = <<>> /\ cond = FALSE
  /\ resend = "wait" /\ closeFlag = FALSE /\ agent = "run"
  /\ reader = 0 /\ recvChan = <<>>
  /\ peerRequestId = 0 /\ todo = {} /\ net = {}
  /\ added = 0 /\ acked = 0 /\ handled = <<>>

\* The goroutine of the server is in TransMsg: it waits for room in RecvChan and
\* holds the mutex of the connection.
Locked == Len(recvChan) > RecvLen

\* ClientSession.RequestAdd: one request for each argument, then one signal.
\* The packet is the header with myRequestId, which wraps.
RequestAdd(k) ==
  /\ added + k <= MaxReq
  /\ sendQueue' = sendQueue \o
       [j \in 1 .. k |-> Packet("request", added + j, (myRequestId + j - 1) % Wrap)]
  /\ myRequestId' = (myRequestId + k) % Wrap
  /\ added' = added + k
  /\ cond' = TRUE
  /\ UNCHANGED <<places, reader, recvChan, peerRequestId, todo, net, acked, handled>>

\* Mutant: the goroutine waits for the signal only.
Wake_Signal == cond

\* select: after the delay, or with the signal.
Wake == TRUE

\* The resend goroutine: the front of SendQueue is sent again, whatever was sent
\* of it before ...
Resend ==
  /\ resend = "wait" /\ ~closeFlag /\ Wake
  /\ cond' = FALSE
  /\ net' = IF sendQueue = <<>> THEN net ELSE net \cup {sendQueue[1]}
  /\ resend' = IF sendQueue = <<>> THEN "wait" ELSE "lock"
  /\ UNCHANGED <<myRequestId, sendQueue, added, closeFlag, agent, reader,
                 recvChan, peerRequestId, todo, acked, handled>>

\* ... and the retry is counted under the mutex.  sendRetry and delay only choose
\* how long it waits.
ResendLock ==
  /\ resend = "lock" /\ ~Locked
  /\ resend' = "wait"
  /\ UNCHANGED <<sending, closeFlag, agent, reader, recvChan,
                 peerRequestId, todo, net, acked, handled>>

\* Mutant: any request that is not too far ahead.
CheckRequestId_Window(id) == (id - peerRequestId) % Wrap <= 2

\* ClientSession.CheckRequestId: the last request again, or the next one.
CheckRequestId(id) == id = peerRequestId \/ id = (peerRequestId + 1) % Wrap

\* The peer reads a request.  An accepted one goes to the agent, each time.
ReadRequest(p) ==
  /\ p \in net /\ p.kind = "request"
  /\ IF CheckRequestId(p.id)
     THEN /\ peerRequestId' = p.id
          /\ todo' = todo \cup {p.n}
          /\ handled' = IF handled # <<>> /\ handled[Len(handled)] = p.n THEN handled
                        ELSE Append(handled, p.n)
     ELSE UNCHANGED <<peerRequestId, todo, handled>>
  /\ net' \in {net, net \ {p}}
  /\ UNCHANGED <<sending, places, reader, recvChan, acked>>

\* The agent's handler answers with the Request_id of the request (WriteMsg of a
\* message that is no request: sent at once, never again).
Reply(n) ==
  /\ n \in todo
  /\ todo' = todo \ {n}
  /\ net' = net \cup {Packet("reply", n, Id(n))}
  /\ UNCHANGED <<sending, places, reader, recvChan, peerRequestId, acked, handled>>

\* RouteToSession, TransMsg: a packet goes to RecvChan, unless the session is
\* closed.  With RecvChan full the goroutine of the server stays, mutex in hand,
\* until the agent has read one, and takes no other packet.
TransMsg(p) ==
  /\ p \in net /\ p.kind = "reply"
  /\ ~Locked
  /\ recvChan' = IF closeFlag THEN recvChan ELSE Append(recvChan, p)
  /\ net' = net \ {p}
  /\ UNCHANGED <<sending, places, reader, peerRequestId, todo, acked, handled>>

\* ClientSession.CheckReplyId: the front of SendQueue has the id of the reply.
CheckReplyId(p) == sendQueue # <<>> /\ sendQueue[1].id = p.id

\* The assumption on delays: when request n is the next one, nothing of requests
\* Lag or more before it is still on its way, in the network or in a goroutine; a
\* reply in RecvChan that has become this late is one that was lost.
Late(n, k) == k + Lag <= n
OnlyYoung(n) ==
  /\ net' = {p \in net : ~Late(n, p.n)}
  /\ todo' = {k \in todo : ~Late(n, k)}

\* ClientSession.ReadMsg: what is left in a closed RecvChan is still read.
ReadReply ==
  /\ agent = "run" /\ reader = 0 /\ recvChan # <<>>
  /\ recvChan' = Tail(recvChan)
  /\ LET p == recvChan[1]
     IN reader' = IF CheckReplyId(p) /\ ~Late(acked + 1, p.n) THEN p.n ELSE 0
  /\ UNCHANGED <<sending, places, peerRequestId, todo, net, acked, handled>>

\* ClientSession.RequestDel, after the check and not in one step with it: the
\* request leaves SendQueue ...
RequestDel ==
  /\ reader # 0
  /\ sendQueue' = Tail(sendQueue)
  /\ acked' = acked + 1
  /\ OnlyYoung(acked + 2)
  /\ reader' = 0 /\ agent' = "lock"
  /\ UNCHANGED <<myRequestId, cond, added, resend, closeFlag, recvChan,
                 peerRequestId, handled>>

\* ... then sendRetry is reset under the mutex, which TransMsg may hold.
RequestDelLock ==
  /\ agent = "lock" /\ ~Locked
  /\ agent' = "run"
  /\ UNCHANGED <<sending, resend, closeFlag, reader, recvChan,
                 peerRequestId, todo, net, acked, handled>>

\* The agent's Run ends: RecvChan is closed, or a message cannot be routed.
AgentOver ==
  /\ agent = "run" /\ reader = 0
  /\ agent' = "over"
  /\ UNCHANGED <<sending, resend, closeFlag, reader, recvChan,
                 peerRequestId, todo, net, acked, handled>>

\* The network loses a packet.
Lose(p) ==
  /\ p \in net
  /\ net' = net \ {p}
  /\ UNCHANGED <<sending, places, reader, recvChan, peerRequestId, todo, acked, handled>>

\* Destory, by tDie, by the manager or by the agent: UDPConn.Destroy waits for the
\* mutex, then sets CloseFlag and closes RecvChan.  The signal for the resend
\* goroutine is earlier; before CloseFlag it is no more than a delay that passes.
Destory ==
  /\ ~closeFlag /\ ~Locked
  /\ closeFlag' = TRUE /\ cond' = TRUE
  /\ UNCHANGED <<myRequestId, sendQueue, added, resend, agent, reader, recvChan,
                 peerRequestId, todo, net, acked, handled>>

\* The steps of the goroutine that sends again, and of the agent's.
Resender == Resend \/ ResendLock
Reader == ReadReply \/ RequestDel \/ RequestDelLock

Next ==
  \/ \E k \in 1 .. MaxAdd : RequestAdd(k)
  \/ Resender \/ Reader
  \/ \E p \in net : ReadRequest(p) \/ TransMsg(p) \/ Lose(p)
  \/ \E n \in Nums : Reply(n)
  \/ AgentOver \/ Destory

\* What the current request needs: it reaches the peer, its reply the session.
RequestArrives == \E p \in net : p.n = acked + 1 /\ ReadRequest(p)
ReplyArrives == \E p \in net : p.n = acked + 1 /\ TransMsg(p)

-----------------------------------------------------------------------------
\* The peer's agent gets the requests in the order of RequestAdd, without a gap:
\* Request_id tells them apart although it wraps and packets are late.  A request is
\* removed from SendQueue only when the agent got it.
RequestsInOrder ==
  /\ \A k \in 1 .. Len(handled) : handled[k] = k
  /\ acked <= Len(handled)
  /\ acked + Len(sendQueue) = added

\* What the comment at TransMsg fears (udp_conn.go:58): the server's goroutine holds
\* the mutex until the agent reads, and the agent waits for the mutex or has ended.
Blocked == Locked /\ agent # "run"

\* Every request is answered in the end, unless the session is closed or blocked for
\* good: SendQueue is empty again and again.  A full RecvChan alone, or a reader
\* that meets the resend goroutine or Close at the mutex, holds nothing up.
RequestAcked == []<>(closeFlag \/ sendQueue = <<>>) \/ <>[]Blocked
=============================================================================
