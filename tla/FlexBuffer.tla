------------------------------ MODULE FlexBuffer ------------------------------
(***************************************************************************)
(* The buffers of flex_buffer.h, which grow and are read from the front,   *)
(* the fixed ones of arbuffer.h, and the arrays buffers are handed over    *)
(* in.  Memory comes from the heap in blocks that the header's user must   *)
(* neither lose nor free twice.                                            *)
(***************************************************************************)
EXTENDS Naturals, Sequences, SequencesExt, FiniteSetsExt

CONSTANTS
  Buffers,          \* flex_buffer_t or arraybuffers_t of the program
  InitSize,         \* size given to flex_buffer_init and flex_buffer_recalloc
  Puts, Gets,       \* lengths of what is appended, and of what is read
  MaxSize,          \* bound on the size of a buffer
  SlotMax           \* alignflexbuffer_t.max

VARIABLES
  type,             \* "flex" or "array"
  buf,              \* a buffer: has it a block, the block's bytes, readerIndex_, writerIndex_,
                    \* and the bytes it should give back
  arr,              \* the two arrays: sequences of buffers
  heap              \* the number of blocks allocated and not freed

vars == <<type, buf, arr, heap>>

Arrays == {"buffers_", "buffersToWrite"}
Clean == [block |-> FALSE, mem |-> <<>>, r |-> 0, w |-> 0, text |-> <<>>]

\* flex_buffer_init, arbuffer_init: calloc.
Zeroed(n) == [i \in 1 .. n |-> 0]
Allocated == [Clean EXCEPT !.block = TRUE, !.mem = Zeroed(InitSize)]

Init ==
  /\ type \in {"flex", "array"}
  /\ buf = [b \in Buffers |-> Clean]
  /\ arr = [a \in Arrays |-> <<>>]
  /\ heap = 0

ReadableBytes(b) == b.w - b.r
WritableBytes(b) == Len(b.mem) - b.w
Usable(b) == b.block
Peek(b) == SubSeq(b.mem, b.r + 1, b.w)

\* memcpy and memset into a block.
Write(mem, at, s) == [i \in DOMAIN mem |-> IF i > at /\ i <= at + Len(s) THEN s[i - at] ELSE mem[i]]

-----------------------------------------------------------------------------
RetrieveAll(b) == [b EXCEPT !.r = 0, !.w = 0, !.mem = Zeroed(Len(@)), !.text = <<>>]
ResetCur(b) == [b EXCEPT !.w = 0, !.text = <<>>]

Retrieve(b, len) ==
  IF len < ReadableBytes(b)
  THEN [b EXCEPT !.mem = Write(@, b.r, Zeroed(len)), !.r = @ + len,
                !.text = SubSeq(@, len + 1, Len(@))]
  ELSE RetrieveAll(b)

\* Mutant: readerIndex_ stays where it was.
Compact_KeepsReader(b) ==
  IF b.r = 0 THEN b ELSE [b EXCEPT !.mem = Write(@, 0, Peek(b)), !.w = ReadableBytes(b)]

\* flex_makeSpace: the unread bytes are moved to the front, and the block grows by what is
\* still missing.
Compact(b) ==
  IF b.r = 0 THEN b
  ELSE [b EXCEPT !.mem = Write(@, 0, Peek(b)), !.r = 0, !.w = ReadableBytes(b)]

MakeSpace(b, len) ==
  LET c == Compact(b)
  IN  IF WritableBytes(c) < len THEN [c EXCEPT !.mem = @ \o Zeroed(c.w + len - Len(@))] ELSE c

EnsureWritable(b, len) == IF WritableBytes(b) < len THEN MakeSpace(b, len) ELSE b

\* len bytes of the program, which follow those the buffer holds.
Data(b, len) ==
  LET last == IF b.text = <<>> THEN 0 ELSE Last(b.text)
  IN  [i \in 1 .. len |-> 1 + ((last + i - 1) % 3)]

Appended(b, s) == [b EXCEPT !.mem = Write(@, b.w, s), !.w = @ + Len(s), !.text = @ \o s]

\* flex_append; realloc of a buffer without a block allocates one.
FlexAppend(x, len) ==
  /\ type = "flex"
  /\ LET b == EnsureWritable(buf[x], len)
     IN  /\ Len(b.mem) <= MaxSize
         /\ buf' = [buf EXCEPT ![x] = [Appended(b, Data(b, len)) EXCEPT !.block = TRUE]]
  /\ heap' = heap + IF Usable(buf[x]) THEN 0 ELSE 1
  /\ UNCHANGED <<type, arr>>

\* arbuffer_append, when arbuffer_avail has room for more than the line.
ArAppend(x, len) ==
  /\ type = "array"
  /\ Usable(buf[x]) /\ WritableBytes(buf[x]) > len
  /\ buf' = [buf EXCEPT ![x] = Appended(@, Data(@, len))]
  /\ UNCHANGED <<type, arr, heap>>

\* flex_retrieve, retrieveUntil and retrieveReadData, which take no more than there is.
FlexRetrieve(x, n) ==
  /\ type = "flex" /\ Usable(buf[x])
  /\ buf' = [buf EXCEPT ![x] = Retrieve(@, Min({n, ReadableBytes(@)}))]
  /\ UNCHANGED <<type, arr, heap>>

\* flex_retrieveAll, arbuffer_reset.
Emptied(b) == IF type = "flex" THEN RetrieveAll(b) ELSE ResetCur(b)

Reset(x) ==
  /\ Usable(buf[x])
  /\ buf' = [buf EXCEPT ![x] = Emptied(@)]
  /\ UNCHANGED <<type, arr, heap>>

BlocksOf(bs) == Len(SelectSeq(bs, Usable))

\* flex_buffer_init, and flex_buffer_recalloc, which frees the block the buffer has;
\* arbuffer_init of a buffer that was moved away.
Recalloc(x) ==
  /\ type = "array" => ~Usable(buf[x])
  /\ buf' = [buf EXCEPT ![x] = Allocated]
  /\ heap' = heap - BlocksOf(<<buf[x]>>) + 1
  /\ UNCHANGED <<type, arr>>

-----------------------------------------------------------------------------
\* flex_buffer_clean and arbuffer_clear with the block freed.
FlexClean(x) ==
  /\ buf' = [buf EXCEPT ![x] = Clean]
  /\ heap' = heap - BlocksOf(<<buf[x]>>)
  /\ UNCHANGED <<type, arr>>

\* flex_buffer_move; without clean only onto a buffer without a block.
FlexMove(x, y, clean) ==
  /\ x # y /\ type = "flex"
  /\ clean \/ ~Usable(buf[x])
  /\ buf' = [buf EXCEPT ![x] = buf[y], ![y] = Clean]
  /\ heap' = heap - BlocksOf(<<buf[x]>>)
  /\ UNCHANGED <<type, arr>>

\* arbuffer_move begins the buffer anew: what it held is dropped.
ArMove(x, y) ==
  /\ x # y /\ type = "array"
  /\ ~Usable(buf[x]) /\ Usable(buf[y])
  /\ buf' = [buf EXCEPT ![x] = ResetCur(buf[y]), ![y] = Clean]
  /\ UNCHANGED <<type, arr, heap>>

\* alignflexbuffer_add_tail: a full array takes nothing, and the buffer is as it was.
AlignAddTail(a, x) ==
  /\ Usable(buf[x])
  /\ IF Len(arr[a]) >= SlotMax THEN UNCHANGED <<buf, arr>>
     ELSE /\ arr' = [arr EXCEPT ![a] = Append(@, buf[x])]
          /\ buf' = [buf EXCEPT ![x] = Clean]
  /\ UNCHANGED <<type, heap>>

\* The last slot back into a buffer that is empty: the loop of the thread that drained it.
AlignTakeLast(x, a) ==
  /\ ~Usable(buf[x]) /\ arr[a] # <<>>
  /\ buf' = [buf EXCEPT ![x] = Emptied(Last(arr[a]))]
  /\ arr' = [arr EXCEPT ![a] = Front(@)]
  /\ UNCHANGED <<type, heap>>

\* alignflexbuffer_erase from a slot on, alignflexbuffer_clear and alignflexbuffer_free.
AlignErase(a, from) ==
  /\ from <= Len(arr[a])
  /\ arr' = [arr EXCEPT ![a] = SubSeq(@, 1, from)]
  /\ heap' = heap - BlocksOf(SubSeq(arr[a], from + 1, Len(arr[a])))
  /\ UNCHANGED <<type, buf>>

\* alignflexbuffer_move: what the target held is freed.
AlignMove ==
  /\ arr' = [a \in Arrays |-> IF a = "buffersToWrite" THEN arr["buffers_"] ELSE <<>>]
  /\ heap' = heap - BlocksOf(arr["buffersToWrite"])
  /\ UNCHANGED <<type, buf>>

\* The arrays of both headers do the same.
alignflexbuffer_add_tail(a, x)   == type = "flex" /\ AlignAddTail(a, x)
arraybufferalign_add_tail(a, x)  == type = "array" /\ AlignAddTail(a, x)
alignflexbuffer_erase(a, from)   == type = "flex" /\ AlignErase(a, from)
arraybufferalign_erase(a, from)  == type = "array" /\ AlignErase(a, from)
alignflexbuffer_move             == type = "flex" /\ AlignMove
arraybufferalign_move            == type = "array" /\ AlignMove

-----------------------------------------------------------------------------
Next ==
  \/ \E x \in Buffers, n \in Puts : FlexAppend(x, n) \/ ArAppend(x, n)
  \/ \E x \in Buffers, n \in Gets : FlexRetrieve(x, n)
  \/ \E x \in Buffers : Reset(x) \/ Recalloc(x) \/ FlexClean(x)
  \/ \E x, y \in Buffers, clean \in BOOLEAN : FlexMove(x, y, clean)
  \/ \E x, y \in Buffers : ArMove(x, y)
  \/ \E x \in Buffers, a \in Arrays :
       \/ alignflexbuffer_add_tail(a, x) \/ arraybufferalign_add_tail(a, x)
       \/ AlignTakeLast(x, a)
  \/ \E a \in Arrays, from \in {0, 1} :
       alignflexbuffer_erase(a, from) \/ arraybufferalign_erase(a, from)
  \/ alignflexbuffer_move \/ arraybufferalign_move

Spec == Init /\ [][Next]_vars

-----------------------------------------------------------------------------
Held == SetToSeq(Buffers)
All == [i \in DOMAIN Held |-> buf[Held[i]]] \o arr["buffers_"] \o arr["buffersToWrite"]

\* A buffer gives the bytes appended to it back in order, none lost and none twice, however
\* often it was read, moved, compacted or enlarged between; its indexes stay in its block;
\* and every block of the heap is held by one buffer or slot.
BuffersKeep ==
  LET all == All IN
  /\ \A b \in ToSet(all) :
       /\ b.r <= b.w /\ b.w <= Len(b.mem)
       /\ Peek(b) = b.text
  /\ heap = BlocksOf(all)
=============================================================================
