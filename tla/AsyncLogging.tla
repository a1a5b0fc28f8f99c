----------------------------- MODULE AsyncLogging -----------------------------
(***************************************************************************)
(* demo/C++/AsyncLog: AsyncLogging (threads append lines to a buffer, a    *)
(* thread of its own swaps the full buffers out and writes them) and the   *)
(* LogFile it writes to, which starts a new file when one is large or its  *)
(* period is over.  demo/C/asynclog/logfile.c is the same file without the *)
(* thread: kind says which of the two runs.                                *)
(*                                                                         *)
(* A critical section is one action.  The time of the day is any number; a *)
(* disk may be full and a file may fail to open.                           *)
(***************************************************************************)
EXTENDS Naturals, Sequences, FiniteSets

CONSTANTS Size,       \* kLargeBuffer
          Lens,       \* lengths of lines
          MaxLines,   \* bound on the lines that are appended
          MaxKept,    \* buffersToWrite.size() above which lines are dropped (25)
          rollSize_,
          checkEveryN_,
          kRollPerSeconds_,
          Times       \* what time() returns

VARIABLES
  kind,          \* "thread" (C++), "file" (logfile.c alone) or "safe" (with its threadSafe)
  files,         \* the files so far: their name, which is a time, and the lines
  unflushed,     \* lines in the stdio buffer of the last file
  writtenBytes_, count_, startOfPeriod_, lastRoll_,
  crash,         \* "assert", "open": the process ended; "locked": it hangs
  current, next, \* currentBuffer_, and if there is a nextBuffer_
  buffers_, running_,
  pc,            \* of threadFunc: "loop", "swap", "wait", "write", "reuse", "end"
  toWrite,       \* buffersToWrite
  new1, new2,    \* if newBuffer1 and newBuffer2 are there
  n,             \* lines that were appended
  lost           \* lines that were dropped, on purpose or by the disk

fileVars == <<files, unflushed, writtenBytes_, count_, startOfPeriod_, lastRoll_, crash>>
bufferVars == <<current, next, buffers_>>
threadVars == <<running_, pc, toWrite, new1, new2>>
vars == <<kind, fileVars, bufferVars, threadVars, n, lost>>

Start(now) == now - (now % kRollPerSeconds_)

\* getLogFileName: the name has the second in it
NewFile(now) == [name |-> now, lines |-> <<>>, bytes |-> 0]

\* AsyncLogging(), LogFile() and logfile_init
Init ==
  /\ kind \in {"thread", "file", "safe"}
  /\ \E now \in Times :
       /\ files = <<NewFile(now)>>
       /\ lastRoll_ = now /\ startOfPeriod_ = Start(now)
  /\ unflushed = 0 /\ writtenBytes_ = 0 /\ count_ = 0 /\ crash = "no"
  /\ current = <<>> /\ next = TRUE /\ buffers_ = <<>>
  /\ running_ = TRUE /\ pc = "loop" /\ toWrite = <<>> /\ new1 = TRUE /\ new2 = TRUE
  /\ n = 0 /\ lost = {}

Bytes(b) == LET s[i \in 0 .. Len(b)] == IF i = 0 THEN 0 ELSE s[i - 1] + b[i].len IN s[Len(b)]
Ids(b) == {b[i].id : i \in 1 .. Len(b)}
AllIds(bs) == UNION {Ids(bs[i]) : i \in 1 .. Len(bs)}

-----------------------------------------------------------------------------
(* LogFile *)

MayRoll(now) == now > lastRoll_

\* rollFile and logfile_roll, if the time has come and a file can be opened: closing the
\* old one flushes it.  logfile.c goes on counting the bytes of all its files.
Roll(now, fs, bytes, pending) ==
  IF ~MayRoll(now)
  THEN /\ files' = fs /\ unflushed' = pending /\ writtenBytes_' = bytes
       /\ UNCHANGED <<lastRoll_, startOfPeriod_, crash>>
  ELSE /\ crash' \in {"no", "open"}
       /\ files' = Append(fs, NewFile(now))
       /\ unflushed' = 0
       /\ writtenBytes_' = IF kind = "thread" THEN 0 ELSE bytes
       /\ lastRoll_' = now /\ startOfPeriod_' = Start(now)

\* AppendFile::append: what a full disk refuses is counted like the rest
Appended(b, ok) ==
  [files EXCEPT ![Len(files)].lines = IF ok THEN @ \o b ELSE @,
                ![Len(files)].bytes = @ + Bytes(b)]

\* flushInterval_ is over.  In logfile.c this is logfile_flush, which waits for the lock
\* that logfile_append has if the file is thread safe.
FlushInside(pending) ==
  IF kind = "safe"
  THEN crash' = "locked" /\ unflushed' = pending
  ELSE unflushed' = 0 /\ UNCHANGED crash

\* append_unlocked, logfile_append_unlocked and the locks around them.  They and rollFile
\* each ask for the time.
WriteOut(b, ok) ==
  LET fs == Appended(b, ok)
      bytes == writtenBytes_ + Bytes(b)
      pending == IF ok THEN unflushed + Len(b) ELSE unflushed
      stays == files' = fs /\ writtenBytes_' = bytes
               /\ UNCHANGED <<lastRoll_, startOfPeriod_>>
  IN  \/ /\ bytes > rollSize_
         /\ \E now \in Times : Roll(now, fs, bytes, pending)
         /\ UNCHANGED count_
      \/ /\ bytes <= rollSize_ /\ count_ + 1 < checkEveryN_
         /\ count_' = count_ + 1
         /\ unflushed' = pending /\ stays /\ UNCHANGED crash
      \/ /\ bytes <= rollSize_ /\ count_ + 1 >= checkEveryN_
         /\ count_' = 0
         /\ \/ \E now \in Times : /\ Start(now) # startOfPeriod_
                                  /\ \E later \in {now, now + 1} :
                                       Roll(later, fs, bytes, pending)
            \/ /\ FlushInside(pending) \/ (unflushed' = pending /\ UNCHANGED crash)
               /\ stays

\* LogFile::flush
Flush == unflushed' = 0

\* logfile_append in a thread of the program
FileAppend(len) ==
  /\ kind # "thread" /\ crash = "no" /\ n < MaxLines
  /\ n' = n + 1
  /\ \E ok \in BOOLEAN :
       /\ WriteOut(<<[id |-> n + 1, len |-> len]>>, ok)
       /\ lost' = IF ok THEN lost ELSE lost \union {n + 1}
  /\ UNCHANGED <<kind, bufferVars, threadVars>>

\* logfile_flush
FileFlush ==
  /\ kind # "thread" /\ crash = "no"
  /\ Flush
  /\ UNCHANGED <<kind, files, writtenBytes_, count_, startOfPeriod_, lastRoll_, crash,
                 bufferVars, threadVars, n, lost>>

-----------------------------------------------------------------------------
(* AsyncLogging *)

\* append: a line that does not even fit into an empty buffer is dropped by
\* FixedBuffer::append.
AppendLine(len) ==
  LET line == [id |-> n + 1, len |-> len]
  IN  /\ kind = "thread" /\ crash = "no" /\ n < MaxLines
      /\ n' = n + 1
      /\ IF Size - Bytes(current) > len
         THEN current' = Append(current, line) /\ UNCHANGED <<next, buffers_, lost>>
         ELSE /\ buffers_' = Append(buffers_, current)
              /\ next' = FALSE
              /\ current' = IF Size > len THEN <<line>> ELSE <<>>
              /\ lost' = IF Size > len THEN lost ELSE lost \union {n + 1}
      /\ UNCHANGED <<kind, fileVars, threadVars>>

\* stop, up to the join; the notification is only a shorter wait.
Stop ==
  /\ kind = "thread" /\ running_
  /\ running_' = FALSE
  /\ UNCHANGED <<kind, fileVars, bufferVars, pc, toWrite, new1, new2, n, lost>>

Loop ==
  /\ kind = "thread" /\ crash = "no" /\ pc = "loop"
  /\ pc' = IF running_ THEN "swap" ELSE "end"
  /\ UNCHANGED <<kind, fileVars, bufferVars, running_, toWrite, new1, new2, n, lost>>

Wait ==
  /\ pc = "swap" /\ crash = "no" /\ buffers_ = <<>>
  /\ pc' = "wait"
  /\ UNCHANGED <<kind, fileVars, bufferVars, running_, toWrite, new1, new2, n, lost>>

\* The critical section of threadFunc, after the wait if there was one, and the lines
\* that are dropped if there are too many, for which a line (0) is written.
Swap ==
  LET all == Append(buffers_, current)
      kept == IF Len(all) > MaxKept THEN SubSeq(all, 1, 2) ELSE all
  IN  /\ crash = "no"
      /\ pc = "wait" \/ (pc = "swap" /\ buffers_ # <<>>)
      /\ toWrite' = kept
      /\ buffers_' = <<>> /\ current' = <<>> /\ new1' = FALSE
      /\ next' = TRUE /\ new2' = (new2 /\ next)
      /\ lost' = lost \union (AllIds(all) \ AllIds(kept))
      /\ IF kept = all THEN UNCHANGED fileVars
         ELSE \E ok \in BOOLEAN : WriteOut(<<[id |-> 0, len |-> 1]>>, ok)
      /\ pc' = "write"
      /\ UNCHANGED <<kind, running_, n>>

\* A buffer is written; "reuse" when it was the last.  Only its lines matter from here on.
Write ==
  LET i == CHOOSE k \in 1 .. Len(toWrite) : toWrite[k] # <<>> /\ \A j \in 1 .. k - 1 : toWrite[j] = <<>>
  IN  /\ pc = "write" /\ crash = "no"
      /\ IF \A k \in 1 .. Len(toWrite) : toWrite[k] = <<>>
         THEN pc' = "reuse" /\ UNCHANGED <<fileVars, toWrite, lost>>
         ELSE /\ \E ok \in BOOLEAN :
                   /\ WriteOut(toWrite[i], ok)
                   /\ lost' = IF ok THEN lost ELSE lost \union Ids(toWrite[i])
              /\ toWrite' = [toWrite EXCEPT ![i] = <<>>]
              /\ UNCHANGED pc
      /\ UNCHANGED <<kind, bufferVars, running_, new1, new2, n>>

\* Mutant: the second buffer is taken whether there is one or not.
Kept_One(b) == 1

\* resize(2)
Kept(b) == IF b > 2 THEN 2 ELSE b

\* The end of a round: what was written becomes newBuffer1 and newBuffer2.
Reuse ==
  LET wanted == (IF new1 THEN 0 ELSE 1) + (IF new2 THEN 0 ELSE 1)
  IN  /\ pc = "reuse" /\ crash = "no"
      /\ IF wanted > Kept(Len(toWrite)) THEN crash' = "assert" /\ UNCHANGED unflushed
         ELSE Flush /\ UNCHANGED crash
      /\ new1' = TRUE /\ new2' = TRUE /\ toWrite' = <<>>
      /\ pc' = "loop"
      /\ UNCHANGED <<kind, files, writtenBytes_, count_, startOfPeriod_, lastRoll_,
                     bufferVars, running_, n, lost>>

Next ==
  \/ \E len \in Lens : AppendLine(len) \/ FileAppend(len)
  \/ FileFlush \/ Stop
  \/ Loop \/ Wait \/ Swap \/ Write \/ Reuse

Spec == Init /\ [][Next]_vars

-----------------------------------------------------------------------------
Concat(bs) ==
  LET c[i \in 0 .. Len(bs)] == IF i = 0 THEN <<>> ELSE c[i - 1] \o bs[i] IN c[Len(bs)]

\* Lines are in the files exactly once and in the order of append, whatever is swapped,
\* dropped and rolled meanwhile: those in the files, those that wait to be written and
\* those in the buffers are all but the lost ones.  A file is not opened twice.  A C++ file
\* ends because it is large or its period is over, and at the end of a round all that was
\* written is flushed.  threadFunc always has two buffers to give: no assert fails, and
\* only a logfile.c that locks can wait for itself.
LogKept ==
  /\ crash # "assert" /\ (crash = "locked" => kind = "safe")
  /\ LET inFiles == Concat([k \in 1 .. Len(files) |-> files[k].lines])
         all == inFiles \o Concat(toWrite) \o Concat(buffers_) \o current
     IN  SelectSeq([i \in 1 .. Len(all) |-> all[i].id], LAMBDA i : i # 0)
           = SelectSeq([i \in 1 .. n |-> i], LAMBDA i : i \notin lost)
  /\ \A k \in 1 .. Len(files) - 1 :
       /\ files[k].name < files[k + 1].name
       /\ kind = "thread" => files[k].bytes > rollSize_
                             \/ Start(files[k].name) # Start(files[k + 1].name)
  /\ kind = "thread" /\ pc \in {"loop", "swap", "wait", "end"} =>
       unflushed = 0 /\ toWrite = <<>> /\ new1 /\ new2
=============================================================================
