--------------------------------- MODULE Gate ---------------------------------
(***************************************************************************)
(* What lies between a connection of leaf and the module that serves it:   *)
(* the receiver that frames messages (ExampleTcpReceiver), the processors  *)
(* that encode and route them (json, protobuf, binary with the Ucph        *)
(* header), and the agent of gate, whose goroutine reads, decodes and      *)
(* routes until the connection ends.                                       *)
(***************************************************************************)
EXTENDS Naturals, Sequences, SequencesExt, FiniteSets

CONSTANTS
  Types,           \* Go types of messages, or commands of the binary processor
  Lens,            \* lengths of encoded messages
  Base,            \* values of a byte, small
  DefaultMax,      \* maxMsgLen of NewExampleTcpReceiver
  Settings,        \* arguments of SetMsgLen: lenMsgLen, minMsgLen, maxMsgLen
  MaxMsgs,         \* bound on the messages written
  MaxSets,         \* bound on the routers and handlers set
  ChanLen          \* capacity of the module's ChanCall

VARIABLES
  encoding,        \* the processor: "json", "protobuf" or "binary"
  msgInfo,         \* registered types, in order, with router, handler and raw handler
  recv,            \* ExampleTcpReceiver
  phase,           \* "setup", "run", or "fatal" after log.Fatal
  wire,            \* bytes, or packets, that were written and not read
  cut,             \* the connection has ended
  agent,           \* the agent's goroutine: what it does and with what
  chan,            \* ChanCall of the module
  written,         \* messages WriteMsg has sent
  handled,         \* messages given to handlers
  served           \* calls the module has handled

vars == <<encoding, msgInfo, recv, phase, wire, cut, agent, chan, written, handled, served>>

setup == <<encoding, msgInfo, recv, phase>>

\* The calls of gate that are no messages.
NewAgent == [type |-> "NewAgent"]
CloseAgent == [type |-> "CloseAgent"]

NewReceiver == [lenMsgLen |-> 2, minMsgLen |-> 1, maxMsgLen |-> DefaultMax, little |-> FALSE]
Reading == [at |-> "head", len |-> 0, msg |-> <<>>]

Init ==
  /\ encoding \in {"json", "protobuf", "binary"}
  /\ msgInfo = <<>>
  /\ recv = NewReceiver
  /\ phase = "setup"
  /\ wire = <<>> /\ cut = FALSE
  /\ agent = Reading
  /\ chan = <<>>
  /\ written = <<>> /\ handled = <<>> /\ served = <<>>

-----------------------------------------------------------------------------
\* Processor.msgInfo and msgID.
Registered(t) == \E i \in DOMAIN msgInfo : msgInfo[i].type = t
Id(t) == CHOOSE i \in DOMAIN msgInfo : msgInfo[i].type = t

Setup == phase = "setup" /\ UNCHANGED <<encoding, wire, cut, agent, chan, written, handled, served>>

\* Register of the three processors; the binary one is given the router at once.
Register(t) ==
  /\ Setup
  /\ IF Registered(t) THEN phase' = "fatal" /\ UNCHANGED msgInfo
     ELSE /\ msgInfo' = Append(msgInfo, [type |-> t, router |-> encoding = "binary",
                                         handler |-> FALSE, raw |-> FALSE])
          /\ UNCHANGED phase
  /\ UNCHANGED recv

SetAlready ==
  {x \in (DOMAIN msgInfo) \X {"router", "handler", "raw"} : msgInfo[x[1]][x[2]]}

\* SetRouter, SetHandler and SetRawHandler, which only registered types have.
Set(t, what) ==
  /\ Setup /\ encoding # "binary" /\ Cardinality(SetAlready) < MaxSets
  /\ IF ~Registered(t) THEN phase' = "fatal" /\ UNCHANGED msgInfo
     ELSE /\ msgInfo' = [msgInfo EXCEPT ![Id(t)][what] = TRUE]
          /\ UNCHANGED phase
  /\ UNCHANGED recv

MinOf(a, b) == IF a < b THEN a ELSE b

\* Mutant: the limits may be larger than the length field can hold.
SetMsgLen_NoLimit(s) ==
  /\ Setup /\ encoding # "binary"
  /\ recv' = [recv EXCEPT !.lenMsgLen = IF s.len \in {1, 2, 4} THEN s.len ELSE @,
                          !.minMsgLen = IF s.min # 0 THEN s.min ELSE @,
                          !.maxMsgLen = IF s.max # 0 THEN s.max ELSE @]
  /\ UNCHANGED <<msgInfo, phase>>

SetMsgLen(s) ==
  /\ Setup /\ encoding # "binary"
  /\ LET l   == IF s.len \in {1, 2, 4} THEN s.len ELSE recv.lenMsgLen
         max == Base ^ l - 1
     IN  recv' = [recv EXCEPT !.lenMsgLen = l,
                              !.minMsgLen = MinOf(max, IF s.min # 0 THEN s.min ELSE @),
                              !.maxMsgLen = MinOf(max, IF s.max # 0 THEN s.max ELSE @)]
  /\ UNCHANGED <<msgInfo, phase>>

SetByteOrder ==
  /\ Setup /\ encoding # "binary"
  /\ recv' = [recv EXCEPT !.little = ~@]
  /\ UNCHANGED <<msgInfo, phase>>

\* Gate.Run has started the server and a connection comes: NewConn makes the agent and tells
\* the module.
NewConn ==
  /\ phase = "setup"
  /\ phase' = "run"
  /\ chan' = <<NewAgent>>
  /\ UNCHANGED <<encoding, msgInfo, recv, wire, cut, agent, written, handled, served>>

-----------------------------------------------------------------------------
\* A number in l bytes, in either order, and back.
BigEndian(v, l) == [i \in 1 .. l |-> (v \div Base ^ (l - i)) % Base]
Digits(v, l, little) == IF little THEN Reverse(BigEndian(v, l)) ELSE BigEndian(v, l)
Number(s, little) ==
  FoldLeft(LAMBDA v, d : v * Base + d, 0, IF little THEN Reverse(s) ELSE s)

\* A message, by its number, and the bytes of its encoding.
Body(m) == [i \in 1 .. m.len |-> <<m, i>>]

\* Ucph.BuildFirst and getFirstFromByte: four fields in a byte.
BuildFirst(h) == (h.ver * 32 + h.hlen * 4 + h.request * 2 + h.encrypt) % 256
GetFirst(b) == [ver |-> b \div 32, hlen |-> (b \div 4) % 8, request |-> (b \div 2) % 2, encrypt |-> b % 2]
Header(m) == [ver |-> 1, hlen |-> 3, request |-> m.k % 2, encrypt |-> 0]

\* Processor.Marshal: the parts WriteMsg is given, one after the other.
Marshal(m) ==
  CASE encoding = "json"     -> Body(m)
    [] encoding = "protobuf" -> Digits(Id(m.type) - 1, 2, FALSE) \o Body(m)
    [] encoding = "binary"   -> <<BuildFirst(Header(m)), m>>

\* ExampleTcpReceiver.Write in front of it; UDP sends the packet as it is.
Frame(s) == Digits(Len(s), recv.lenMsgLen, recv.little) \o s
Fits(n) == n <= recv.maxMsgLen /\ n >= recv.minMsgLen

\* The peer's agent, with the same processor and receiver, writes a message.
WriteMsg(t, n) ==
  /\ phase = "run" /\ ~cut
  /\ Len(written) < MaxMsgs
  /\ encoding = "binary" \/ Registered(t)
  /\ LET m == [type |-> t, len |-> n, k |-> Len(written)]
     IN  /\ encoding = "binary" \/ Fits(Len(Marshal(m)))
         /\ wire' = IF encoding = "binary" THEN Append(wire, Marshal(m)) ELSE wire \o Frame(Marshal(m))
         /\ written' = Append(written, m)
  /\ UNCHANGED <<setup, cut, agent, chan, handled, served>>

\* The connection ends, and what was on its way arrives up to some byte.
Cut(n) ==
  /\ phase = "run" /\ ~cut
  /\ cut' = TRUE
  /\ wire' = SubSeq(wire, 1, n)
  /\ UNCHANGED <<setup, agent, chan, written, handled, served>>

-----------------------------------------------------------------------------
\* io.ReadFull has n bytes; it fails when the connection ends before.
ReadFull(n) == Len(wire) >= n
ReadFails(n) == cut /\ Len(wire) < n
OnRun == phase = "run" /\ UNCHANGED <<setup, cut, written, served>>

ReadHead ==
  /\ OnRun /\ agent.at = "head" /\ encoding # "binary"
  /\ ReadFull(recv.lenMsgLen)
  /\ LET len == Number(SubSeq(wire, 1, recv.lenMsgLen), recv.little)
     IN  agent' = IF Fits(len) THEN [agent EXCEPT !.at = "body", !.len = len]
                  ELSE [agent EXCEPT !.at = "refused"]
  /\ wire' = SubSeq(wire, recv.lenMsgLen + 1, Len(wire))
  /\ UNCHANGED <<chan, handled>>

\* Processor.Unmarshal: the type by name, id or command.
Unmarshal(data) ==
  CASE encoding = "json"     -> data
    [] encoding = "protobuf" -> SubSeq(data, 3, Len(data))
    [] encoding = "binary"   -> <<<<data[2], GetFirst(data[1])>>>>

Decodes(data) ==
  encoding = "protobuf" => Len(data) >= 2 /\ Number(SubSeq(data, 1, 2), FALSE) < Len(msgInfo)

ReadBody ==
  /\ OnRun /\ agent.at = "body"
  /\ ReadFull(agent.len)
  /\ LET data == SubSeq(wire, 1, agent.len)
     IN  agent' = IF Decodes(data) THEN [agent EXCEPT !.at = "route", !.msg = Unmarshal(data)]
                  ELSE [agent EXCEPT !.at = "refused"]
  /\ wire' = SubSeq(wire, agent.len + 1, Len(wire))
  /\ UNCHANGED <<chan, handled>>

\* A packet of a UDP session.
ReadPacket ==
  /\ OnRun /\ agent.at = "head" /\ encoding = "binary"
  /\ wire # <<>>
  /\ agent' = [agent EXCEPT !.at = "route", !.msg = Unmarshal(Head(wire))]
  /\ wire' = Tail(wire)
  /\ UNCHANGED <<chan, handled>>

ReadError ==
  /\ OnRun
  /\ \/ agent.at = "head" /\ ReadFails(IF encoding = "binary" THEN 1 ELSE recv.lenMsgLen)
     \/ agent.at = "body" /\ ReadFails(agent.len)
  /\ agent' = [agent EXCEPT !.at = "close"]
  /\ UNCHANGED <<wire, chan, handled>>

Refused ==
  /\ OnRun /\ agent.at = "refused"
  /\ agent' = [agent EXCEPT !.at = "close"]
  /\ UNCHANGED <<wire, chan, handled>>

\* The message in the agent's hands.
Received == agent.msg[1][1]

\* Route: a message with a raw handler goes there only, any other to the handler and the
\* router of its type.  A command nobody registered ends the program.
Unknown == encoding = "binary" /\ ~Registered(Received.type)

RouteUnknown ==
  /\ phase = "run" /\ agent.at = "route" /\ Unknown
  /\ phase' = "fatal"
  /\ UNCHANGED <<encoding, msgInfo, recv, wire, cut, agent, chan, written, handled, served>>

Route ==
  /\ OnRun /\ agent.at = "route" /\ ~Unknown
  /\ LET info == msgInfo[Id(Received.type)]
         call == info.raw \/ info.handler
         go   == ~info.raw /\ info.router
     IN  /\ go => Len(chan) < ChanLen
         /\ handled' = IF call THEN Append(handled, Received) ELSE handled
         /\ chan' = IF go THEN Append(chan, Received) ELSE chan
  /\ agent' = Reading
  /\ UNCHANGED wire

\* Run has returned: OnClose calls CloseAgent of the module and waits for its answer.
OnClose ==
  /\ OnRun /\ agent.at = "close"
  /\ Len(chan) < ChanLen
  /\ chan' = Append(chan, CloseAgent)
  /\ agent' = [agent EXCEPT !.at = "wait"]
  /\ UNCHANGED <<wire, handled>>

\* The module handles a call.
Serve ==
  /\ phase = "run" /\ chan # <<>>
  /\ served' = Append(served, Head(chan))
  /\ chan' = Tail(chan)
  /\ agent' = IF Head(chan) = CloseAgent THEN [agent EXCEPT !.at = "gone"] ELSE agent
  /\ UNCHANGED <<setup, wire, cut, written, handled>>

-----------------------------------------------------------------------------
Next ==
  \/ \E t \in Types : Register(t)
  \/ \E t \in Types, what \in {"router", "handler", "raw"} : Set(t, what)
  \/ \E s \in Settings : SetMsgLen(s)
  \/ SetByteOrder
  \/ NewConn
  \/ \E t \in Types, n \in Lens : WriteMsg(t, n)
  \/ \E n \in 0 .. Len(wire) : Cut(n)
  \/ ReadHead \/ ReadBody \/ ReadPacket \/ ReadError \/ Refused
  \/ RouteUnknown \/ Route \/ OnClose \/ Serve

Spec == Init /\ [][Next]_vars

-----------------------------------------------------------------------------
To(what) == SelectSeq(written, LAMBDA m : Registered(m.type) /\
              LET info == msgInfo[Id(m.type)]
              IN  IF what = "handler" THEN info.raw \/ info.handler ELSE ~info.raw /\ info.router)
Calls == served \o chan
Messages == SelectSeq(Calls, LAMBDA c : c \notin {NewAgent, CloseAgent})

\* The other side gets the messages as they were written: a message the sender's receiver
\* accepts is refused by none, a message is decoded from its own bytes and from all of them,
\* with the header it was sent with, and the handlers and the module get those of their types
\* in order, without a gap.  The module hears of the agent before its first message and of
\* its end after the last.
GateDelivers ==
  /\ agent.at # "refused"
  /\ agent.at = "route" =>
       IF encoding = "binary" THEN agent.msg[1][2] = Header(Received)
       ELSE agent.msg = Body(Received)
  /\ phase # "setup" /\ phase # "fatal" =>
       /\ IsPrefix(handled, To("handler"))
       /\ IsPrefix(Messages, To("router"))
       /\ Calls[1] = NewAgent
       /\ \A i \in DOMAIN Calls : Calls[i] = CloseAgent => i = Len(Calls) /\ cut
=============================================================================
