------------------------------ MODULE AsyncProc ------------------------------
(***************************************************************************)
(* Double buffering: async_proc.c of demo/C/async_task, and asynclog.c and *)
(* linkageasynclog.c, which are the same but for when an append changes    *)
(* buffers.  Any thread appends messages to the current buffer; a thread   *)
(* of the component takes all buffers from time to time and processes      *)
(* them, and gives two of them back as the next ones to fill.              *)
(*                                                                         *)
(* A section under mutex_ is one action.  A buffer is its messages and the *)
(* bytes used; whether nextBuffer_, newBuffer1 and newBuffer2 have memory  *)
(* (flex_buffer_usable) is a Boolean, as they are empty.  Messages are     *)
(* numbered in the order of their appends.                                 *)
(***************************************************************************)
EXTENDS Naturals, Sequences

CONSTANTS Modes,      \* of "proc" (async_proc.c), "log" (asynclog.c) and
                      \* "linkage" (linkageasynclog.c)
          BUFMAX,     \* ASYNCPROC_BUFMAX, ASYNCLOG_BUFMAX, LINKAGEASYNCLOG_BUFMAX
          MAXBUFFER,  \* ASYNCPROC_MAXBUFFER, MAXBUFFER, LINKAGEASYNCLOG_MAXBUFFER
          Sizes,      \* lengths of messages
          LastMsg     \* bound on the messages appended

ASSUME AsyncAssumption ==
  /\ Modes \subseteq {"proc", "log", "linkage"}
  /\ BUFMAX \in Nat \ {0} /\ MAXBUFFER \in Nat \ {0, 1}
  /\ Sizes \subseteq Nat /\ LastMsg \in Nat

VARIABLES mode,     \* which of the programs this is
          current,  \* currentBuffer_
          next,     \* nextBuffer_ is usable
          buffers,  \* buffers_
          running,  \* running_
          signal,   \* the waiting thread was notified
          pc,       \* the thread of async_proc_threadFunc
          new1,     \* newBuffer1 is usable
          new2,     \* newBuffer2 is usable
          toWrite,  \* buffersToWrite
          i,        \* buffers of toWrite processed
          stop,     \* the thread in async_proc_stop
          crash,    \* a buffer was taken from an empty buffersToWrite
          n,        \* history: messages appended
          written,  \* history: messages given to be processed
          lost      \* history: messages freed or overwritten unprocessed

shared == <<current, next, buffers, running, signal>>
local == <<new1, new2, toWrite, i>>
vars == <<mode, shared, pc, local, stop, crash, n, written, lost>>

Empty == [msgs |-> <<>>, used |-> 0]
With(b, m, len) == [msgs |-> Append(b.msgs, m), used |-> b.used + len]
Ids(b) == {b.msgs[k] : k \in 1 .. Len(b.msgs)}

\* alignflexbuffer_add_tail: a full list takes nothing, and says nothing.
Full == Len(buffers) >= MAXBUFFER + 1
AddTail(b) == IF Full THEN buffers ELSE Append(buffers, b)

\* The current buffer b goes to the list and c is the new one: nextBuffer_ if it
\* is there, or a new allocation.  When the list is full, b is overwritten.
Change(b, c) ==
  /\ buffers' = AddTail(b)
  /\ lost' = IF Full THEN lost \union Ids(b) ELSE lost
  /\ current' = c
  /\ next' = FALSE
  /\ signal' = (pc = "wait")

\* async_proc_append and async_proc_append_stream: the buffer grows as needed
\* and is changed when it is full.
AppendProc(len) ==
  /\ mode = "proc" /\ n < LastMsg /\ stop # "joined" /\ ~crash
  /\ n' = n + 1
  /\ LET c == With(current, n + 1, len)
     IN  IF c.used >= BUFMAX THEN Change(c, Empty)
         ELSE current' = c /\ UNCHANGED <<next, buffers, signal, lost>>
  /\ UNCHANGED <<mode, running, pc, local, stop, crash, written>>

\* _log_append, and what linkagelog_append does under the lock: the buffer is
\* changed when the line does not fit.  A line that does not fit in an empty buffer
\* either is copied beyond its end (arbuffer_append checks nothing), which is left out:
\* no run has such a line.
AppendLog(len) ==
  /\ mode \in {"log", "linkage"} /\ n < LastMsg /\ stop # "joined" /\ ~crash
  /\ n' = n + 1
  /\ IF BUFMAX - current.used > len
     THEN /\ current' = With(current, n + 1, len)
          /\ UNCHANGED <<next, buffers, signal, lost>>
     ELSE Change(current, With(Empty, n + 1, len))
  /\ UNCHANGED <<mode, running, pc, local, stop, crash, written>>

log_append(len) == mode = "log" /\ AppendLog(len)
linkagelog_append(len) == mode = "linkage" /\ AppendLog(len)

------------------------------------------------------------------------------
(* The thread: async_proc_threadFunc and its two likes. *)

At(l) == pc = l /\ ~crash

\* running_ is read without the lock.
Top ==
  /\ At("top")
  /\ pc' = IF running THEN "enter" ELSE "done"
  /\ UNCHANGED <<mode, shared, local, stop, crash, n, written, lost>>

\* Mutant: only full buffers are taken.
Swap_NoCurrent ==
  /\ toWrite' = buffers
  /\ buffers' = <<>>
  /\ new1' = FALSE /\ new2' = (new2 /\ next) /\ next' = TRUE
  /\ i' = 0 /\ pc' = "drop"
  /\ UNCHANGED <<current, lost>>

\* Mutant: the current buffer is put first.
Swap_First ==
  /\ toWrite' = IF Full THEN buffers ELSE <<current>> \o buffers
  /\ lost' = IF Full THEN lost \union Ids(current) ELSE lost
  /\ buffers' = <<>> /\ current' = Empty
  /\ new1' = FALSE /\ new2' = (new2 /\ next) /\ next' = TRUE
  /\ i' = 0 /\ pc' = "drop"

\* All buffers are taken, and newBuffer1 and, if needed, newBuffer2 take their
\* places.
Swap ==
  /\ toWrite' = AddTail(current)
  /\ lost' = IF Full THEN lost \union Ids(current) ELSE lost
  /\ buffers' = <<>> /\ current' = Empty
  /\ new1' = FALSE /\ new2' = (new2 /\ next) /\ next' = TRUE
  /\ i' = 0 /\ pc' = "drop"

\* With full buffers waiting the thread takes them at once, or else it waits.
Enter ==
  /\ At("enter")
  /\ IF buffers = <<>>
     THEN /\ pc' = "wait" /\ signal' = FALSE
          /\ UNCHANGED <<current, next, buffers, local, lost>>
     ELSE Swap /\ UNCHANGED signal
  /\ UNCHANGED <<mode, running, stop, crash, n, written>>

\* Mutant: the wait has no end of its own.
Wake_Signalled ==
  /\ At("wait") /\ signal
  /\ Swap
  /\ UNCHANGED <<mode, running, signal, stop, crash, n, written>>

\* condition_waitForSeconds returns: notified, timed out or for no reason.
Wake ==
  /\ At("wait")
  /\ Swap
  /\ UNCHANGED <<mode, running, signal, stop, crash, n, written>>

\* More than MAXBUFFER buffers are too many: all but the first two are freed.
Drop ==
  /\ At("drop")
  /\ IF Len(toWrite) > MAXBUFFER
     THEN /\ toWrite' = SubSeq(toWrite, 1, 2)
          /\ lost' = lost \union UNION {Ids(toWrite[k]) : k \in 3 .. Len(toWrite)}
     ELSE UNCHANGED <<toWrite, lost>>
  /\ pc' = "write"
  /\ UNCHANGED <<mode, shared, new1, new2, i, stop, crash, n, written>>

\* One buffer is given to p->proc, logfile_append or do_linkageasynclog.
Write ==
  /\ At("write")
  /\ i < Len(toWrite)
  /\ written' = written \o toWrite[i + 1].msgs
  /\ i' = i + 1
  /\ UNCHANGED <<mode, shared, pc, new1, new2, toWrite, stop, crash, n, lost>>

\* The memory of at most two buffers becomes newBuffer1 and newBuffer2, from
\* the last one down; the others are freed.
Recycle ==
  /\ At("write")
  /\ i = Len(toWrite)
  /\ LET kept == IF Len(toWrite) > 2 THEN 2 ELSE Len(toWrite)
         needed == (IF new1 THEN 0 ELSE 1) + (IF new2 THEN 0 ELSE 1)
     IN  crash' = (kept < needed)
  /\ new1' = TRUE /\ new2' = TRUE
  /\ toWrite' = <<>> /\ i' = 0
  /\ pc' = "top"
  /\ UNCHANGED <<mode, shared, stop, n, written, lost>>

Round == Top \/ Enter \/ Wake \/ Drop \/ Write \/ Recycle

async_proc_threadFunc == mode = "proc" /\ Round
asynclog_threadFunc == mode = "log" /\ Round
linkageasynclog_threadFunc == mode = "linkage" /\ Round

------------------------------------------------------------------------------
(* async_proc_stop, asynclog_stop, linkageasynclog_stop, without the lock. *)

StopAt(l) == stop = l /\ ~crash

StopClear ==
  /\ StopAt("no")
  /\ running' = FALSE
  /\ stop' = "notify"
  /\ UNCHANGED <<mode, current, next, buffers, signal, pc, local, crash, n, written, lost>>

StopNotify ==
  /\ StopAt("notify")
  /\ signal' = (signal \/ pc = "wait")
  /\ stop' = "join"
  /\ UNCHANGED <<mode, current, next, buffers, running, pc, local, crash, n, written, lost>>

StopJoin ==
  /\ StopAt("join") /\ pc = "done"
  /\ stop' = "joined"
  /\ UNCHANGED <<mode, shared, pc, local, crash, n, written, lost>>

------------------------------------------------------------------------------
\* After async_proc_init and async_proc_start.
Init ==
  /\ mode \in Modes
  /\ current = Empty /\ next = TRUE /\ buffers = <<>>
  /\ running = TRUE /\ signal = FALSE
  /\ pc = "top"
  /\ new1 = TRUE /\ new2 = TRUE /\ toWrite = <<>> /\ i = 0
  /\ stop = "no" /\ crash = FALSE
  /\ n = 0 /\ written = <<>> /\ lost = {}

Thread == async_proc_threadFunc \/ asynclog_threadFunc \/ linkageasynclog_threadFunc
Appends == \E len \in Sizes : AppendProc(len) \/ log_append(len) \/ linkagelog_append(len)
Stops == StopClear \/ StopNotify \/ StopJoin

Next == Thread \/ Appends \/ Stops

\* The thread runs on, and its wait ends in time; a stop that has begun goes on.
Spec == /\ Init /\ [][Next]_vars
        /\ WF_vars(Thread)
        /\ WF_vars(StopNotify \/ StopJoin)

------------------------------------------------------------------------------
(* Properties *)

Buffer == [msgs : Seq(Nat), used : Nat]

TypeOK ==
  /\ mode \in Modes
  /\ current \in Buffer /\ next \in BOOLEAN /\ buffers \in Seq(Buffer)
  /\ running \in BOOLEAN /\ signal \in BOOLEAN
  /\ pc \in {"top", "enter", "wait", "drop", "write", "done"}
  /\ new1 \in BOOLEAN /\ new2 \in BOOLEAN
  /\ toWrite \in Seq(Buffer) /\ i \in 0 .. Len(toWrite)
  /\ stop \in {"no", "notify", "join", "joined"} /\ crash \in BOOLEAN
  /\ n \in Nat /\ written \in Seq(Nat) /\ lost \subseteq Nat

\* There are always buffers left in buffersToWrite for those that newBuffer1
\* and newBuffer2 gave away, what the assertions of AsyncLog.cpp say and those
\* commented out in the C code: nextBuffer_ is missing only when an append
\* has put a full buffer beside the current one.
NeverShort == ~crash

\* The lists stay within the MAXBUFFER + 1 entries they were allocated with.
WithinList == Len(buffers) <= MAXBUFFER + 1 /\ Len(toWrite) <= MAXBUFFER + 1

\* Every message is processed in the end, or dropped by the rule for too many
\* buffers, unless the component is stopped.
Delivered ==
  \A m \in 1 .. LastMsg :
    n >= m ~> \/ m \in lost \/ stop # "no"
              \/ \E k \in 1 .. Len(written) : written[k] = m

\* The messages on their way, in the order in which they will be processed.
Line ==
  <<[msgs |-> written, used |-> 0]>> \o SubSeq(toWrite, i + 1, Len(toWrite))
     \o buffers \o <<current>>

Increasing(s) == \A j, k \in 1 .. Len(s) : j < k => s[j] < s[k]

\* Messages are processed exactly once and in the order of their appends: what
\* was processed, is being processed, waits in the list and is in the current
\* buffer are, in this order, the messages appended so far, but for those that
\* were dropped because too many buffers were waiting.
InOrder ==
  /\ \A k \in 1 .. Len(Line) : Increasing(Line[k].msgs)
  /\ \A j, k \in 1 .. Len(Line) :
       j < k => \A a \in Ids(Line[j]), b \in Ids(Line[k]) : a < b
  /\ UNION {Ids(Line[k]) : k \in 1 .. Len(Line)} = (1 .. n) \ lost

\* async_proc_stop returns, although running_ is cleared and the condition
\* notified without the lock, so that the thread may be about to wait.
StopReturns == stop = "notify" ~> stop = "joined"

\* Messages are processed in the end, also those below a full buffer, and stop
\* returns, although a notification may come before the wait it is for.
ThreadProgresses == Delivered /\ StopReturns

==============================================================================
