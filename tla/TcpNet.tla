-------------------------------- MODULE TcpNet --------------------------------
(***************************************************************************)
(* TCP connections of leaf: tcp_conn.go (a connection with a goroutine     *)
(* that writes), tcp_server.go (accepts connections, at most MaxConnNum),  *)
(* tcp_client.go (keeps connections and dials again) and the agent of      *)
(* gate.go that reads from a connection until that fails.                  *)
(*                                                                         *)
(* A section under the lock of a connection, of the server or of the       *)
(* client is one action.  Messages are numbered in the order in which      *)
(* Write accepts them; 0 is the nil that Close sends.                      *)
(***************************************************************************)
EXTENDS Naturals, Sequences, FiniteSets

CONSTANTS Conns,       \* connections: model values
          MaxConnNum,  \* of the server
          WriteLen,    \* capacity of writeChan (PendingWriteNum)
          MaxMsg       \* bound on the messages of a connection

VARIABLES
  role,       \* "server" or "client"
  sock,       \* of a connection: "none", "open", "closed" (the socket)
  writeChan, chanClosed, closeFlag,   \* of a TCPConn
  writer,     \* its goroutine: "none", "run", "close", "nil", "over"
  agent,      \* goroutine of the agent: "none", "dialed", "run", "end", "over"
  conns,      \* ConnSet of the server or client
  owner,      \* "run", "wait" (Close waits), "closed"
  written,    \* history: messages accepted by Write
  sent,       \* history: messages written to the socket
  cut         \* history: connections cut off: destroyed, overflown, broken, or
              \* closed by their server or client

tcpConn == <<writeChan, chanClosed, closeFlag>>
vars == <<role, sock, tcpConn, writer, agent, conns, owner, written, sent, cut>>

Init ==
  /\ role \in {"server", "client"}
  /\ sock = [c \in Conns |-> "none"]
  /\ writeChan = [c \in Conns |-> <<>>] /\ chanClosed = [c \in Conns |-> FALSE]
  /\ closeFlag = [c \in Conns |-> FALSE]
  /\ writer = [c \in Conns |-> "none"] /\ agent = [c \in Conns |-> "none"]
  /\ conns = {} /\ owner = "run"
  /\ written = [c \in Conns |-> 0] /\ sent = [c \in Conns |-> <<>>] /\ cut = {}

\* newTCPConn, and the agent's goroutine
NewConn(c) ==
  /\ writer' = [writer EXCEPT ![c] = "run"] /\ agent' = [agent EXCEPT ![c] = "run"]
  /\ conns' = conns \cup {c}

\* TCPServer.run: an accepted connection too many is closed at once.
Accept(c) ==
  /\ role = "server" /\ owner = "run" /\ sock[c] = "none"
  /\ IF Cardinality(conns) >= MaxConnNum
     THEN sock' = [sock EXCEPT ![c] = "closed"] /\ UNCHANGED <<writer, agent, conns>>
     ELSE sock' = [sock EXCEPT ![c] = "open"] /\ NewConn(c)
  /\ UNCHANGED <<role, tcpConn, owner, written, sent, cut>>

\* TCPClient.dial: also when Close has begun, if the connection succeeds.
Dial(c) ==
  /\ role = "client" /\ sock[c] = "none" /\ owner # "closed"
  /\ sock' = [sock EXCEPT ![c] = "open"] /\ agent' = [agent EXCEPT ![c] = "dialed"]
  /\ UNCHANGED <<role, tcpConn, writer, conns, owner, written, sent, cut>>

\* client.closeFlag
ClosedMeanwhile == owner # "run"

\* TCPClient.connect: the client was closed while this goroutine dialed, or not.
Connect(c) ==
  /\ agent[c] = "dialed"
  /\ IF ClosedMeanwhile
     THEN /\ sock' = [sock EXCEPT ![c] = "closed"]
          /\ agent' = [agent EXCEPT ![c] = "over"]
          /\ UNCHANGED <<writer, conns>>
     ELSE NewConn(c) /\ UNCHANGED sock
  /\ UNCHANGED <<role, tcpConn, owner, written, sent, cut>>

-----------------------------------------------------------------------------
\* TCPConn.doDestroy, under the lock
DoDestroy(c) ==
  /\ sock' = [sock EXCEPT ![c] = "closed"]
  /\ chanClosed' = [chanClosed EXCEPT ![c] = @ \/ ~closeFlag[c]]
  /\ closeFlag' = [closeFlag EXCEPT ![c] = TRUE]
  /\ cut' = cut \cup {c}
  /\ UNCHANGED writeChan

\* TCPConn.doWrite: a full channel destroys the connection instead of blocking.
Full(c) == Len(writeChan[c]) = WriteLen

\* TCPConn.Write
Write(c) ==
  /\ writer[c] # "none" /\ ~closeFlag[c] /\ written[c] < MaxMsg
  /\ IF Full(c)
     THEN DoDestroy(c) /\ UNCHANGED written
     ELSE /\ written' = [written EXCEPT ![c] = @ + 1]
          /\ writeChan' = [writeChan EXCEPT ![c] = Append(@, written[c] + 1)]
          /\ UNCHANGED <<sock, chanClosed, closeFlag, cut>>
  /\ UNCHANGED <<role, writer, agent, conns, owner, sent>>

\* Mutant: the flag is left to the writing goroutine.
CloseConn_NoFlag(c) ==
  IF closeFlag[c] THEN UNCHANGED <<sock, tcpConn, cut>>
  ELSE IF Full(c) THEN DoDestroy(c)
  ELSE /\ writeChan' = [writeChan EXCEPT ![c] = Append(@, 0)]
       /\ UNCHANGED <<sock, chanClosed, closeFlag, cut>>

\* TCPConn.Close: nil ends the writing goroutine after what is in the channel.
CloseConn(c) ==
  IF closeFlag[c] THEN UNCHANGED <<sock, tcpConn, cut>>
  ELSE IF Full(c) THEN DoDestroy(c)
  ELSE /\ writeChan' = [writeChan EXCEPT ![c] = Append(@, 0)]
       /\ closeFlag' = [closeFlag EXCEPT ![c] = TRUE]
       /\ UNCHANGED <<sock, chanClosed, cut>>

\* Close and Destroy by the user of the connection
UserClose(c) ==
  /\ writer[c] # "none"
  /\ CloseConn(c) \/ DoDestroy(c)
  /\ UNCHANGED <<role, writer, agent, conns, owner, written, sent>>

\* The writing goroutine: a message is written; nil, the end of a closed channel
\* or an error end it, ...
WriterStep(c) ==
  /\ writer[c] = "run"
  /\ \/ /\ writeChan[c] # <<>>
        /\ writeChan' = [writeChan EXCEPT ![c] = Tail(@)]
        /\ LET b == Head(writeChan[c])
           IN \/ b = 0 /\ writer' = [writer EXCEPT ![c] = "nil"] /\ UNCHANGED <<sent, cut>>
              \/ /\ b # 0 /\ sock[c] = "open"
                 /\ sent' = [sent EXCEPT ![c] = Append(@, b)] /\ UNCHANGED <<writer, cut>>
              \/ /\ b # 0
                 /\ writer' = [writer EXCEPT ![c] = "close"]
                 /\ cut' = cut \cup {c} /\ UNCHANGED sent
     \/ /\ writeChan[c] = <<>> /\ chanClosed[c]
        /\ writer' = [writer EXCEPT ![c] = "close"]
        /\ UNCHANGED <<writeChan, sent, cut>>
  /\ UNCHANGED <<role, sock, chanClosed, closeFlag, agent, conns, owner, written>>

\* ... and it closes the socket and sets the flag.
WriterEnds(c) ==
  /\ writer[c] \in {"nil", "close"}
  /\ writer' = [writer EXCEPT ![c] = "over"]
  /\ sock' = [sock EXCEPT ![c] = "closed"]
  /\ closeFlag' = [closeFlag EXCEPT ![c] = TRUE]
  /\ UNCHANGED <<role, writeChan, chanClosed, agent, conns, owner, written, sent, cut>>

-----------------------------------------------------------------------------
\* agent.Run ends: the socket is closed here or there, or a message is not
\* understood; then TCPConn.Close.
AgentRunEnds(c) ==
  /\ agent[c] = "run"
  /\ agent' = [agent EXCEPT ![c] = "end"]
  /\ CloseConn(c)
  /\ UNCHANGED <<role, writer, conns, owner, written, sent>>

\* The connection leaves the set, then OnClose and wg.Done; a client with
\* AutoReconnect dials again, as another connection.
Cleanup(c) ==
  /\ agent[c] = "end"
  /\ conns' = conns \ {c}
  /\ agent' = [agent EXCEPT ![c] = "over"]
  /\ UNCHANGED <<role, sock, tcpConn, writer, owner, written, sent, cut>>

\* Mutant: Close does not close the connections.
CloseAll_Keeps == UNCHANGED <<sock, cut>>

\* for conn := range conns: conn.Close() closes the socket, not the TCPConn.
CloseAll ==
  /\ sock' = [c \in Conns |-> IF c \in conns THEN "closed" ELSE sock[c]]
  /\ cut' = cut \cup conns

\* TCPServer.Close (after the accepting goroutine has ended), TCPClient.Close
Close ==
  /\ owner = "run"
  /\ owner' = "wait"
  /\ CloseAll
  /\ conns' = {}
  /\ UNCHANGED <<role, tcpConn, writer, agent, written, sent>>

CloseEnds ==
  /\ owner = "wait" /\ \A c \in Conns : agent[c] \in {"none", "over"}
  /\ owner' = "closed"
  /\ UNCHANGED <<role, sock, tcpConn, writer, agent, conns, written, sent, cut>>

Next ==
  \/ \E c \in Conns :
       \/ Accept(c) \/ Dial(c) \/ Connect(c)
       \/ Write(c) \/ UserClose(c) \/ WriterStep(c) \/ WriterEnds(c)
       \/ AgentRunEnds(c) \/ Cleanup(c)
  \/ Close \/ CloseEnds

-----------------------------------------------------------------------------
\* What is written goes out in order and without gaps, and Close loses nothing:
\* when the writing goroutine ends because of it, and the connection was not cut
\* off, everything that Write accepted has been sent.
CloseFlushes ==
  \A c \in Conns :
    /\ \A k \in 1 .. Len(sent[c]) : sent[c][k] = k
    /\ writer[c] = "nil" /\ c \notin cut => Len(sent[c]) = written[c]

\* Close of a server or client, once begun, returns, and then no socket stays open
\* that nobody closes: neither lasts for ever.
CloseReturns ==
  []<>(owner # "wait" /\ (owner = "closed" => \A c \in Conns : sock[c] # "open"))
=============================================================================
