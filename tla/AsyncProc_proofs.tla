-------------------------- MODULE AsyncProc_proofs --------------------------
(***************************************************************************)
(* For every BUFMAX, every MAXBUFFER of two or more and any messages: the  *)
(* thread of async_proc_threadFunc never takes a buffer from an empty      *)
(* list, the lists stay within their allocation, and messages are          *)
(* processed once and in the order of their appends.                       *)
(***************************************************************************)
EXTENDS AsyncProc, SequenceTheorems, TLAPS

\* Where the spare buffers are.  The thread has both of its own outside of a
\* batch; in a batch it has given newBuffer1 away and took a buffer for it, and
\* it has given newBuffer2 away only if an append had put a second one there.
Spares ==
  /\ next \/ buffers # <<>>
  /\ pc \in {"top", "enter", "wait", "done"} => new1 /\ new2 /\ toWrite = <<>>
  /\ pc \in {"drop", "write"} =>
       /\ ~new1
       /\ Len(toWrite) >= (IF new2 THEN 1 ELSE 2)
  /\ pc = "drop" => i = 0

IInv == TypeOK /\ WithinList /\ Spares /\ NeverShort

\* A buffer added to the list of full ones is in it, or the list was full, with
\* more than two entries.
LEMMA AddTailIn ==
  ASSUME TypeOK, WithinList, NEW b \in Buffer
  PROVE  /\ AddTail(b) \in Seq(Buffer)
         /\ AddTail(b) # <<>>
         /\ Len(AddTail(b)) <= MAXBUFFER + 1
         /\ Len(AddTail(b)) >= (IF buffers = <<>> THEN 1 ELSE 2)
<1> USE AsyncAssumption
<1>1. buffers \in Seq(Buffer) /\ Len(buffers) \in Nat /\ Len(buffers) <= MAXBUFFER + 1
  BY DEF TypeOK, WithinList
<1>2. CASE Full
  <2>1. AddTail(b) = buffers /\ Len(buffers) >= 3
    BY <1>1, <1>2 DEF AddTail, Full
  <2> QED  BY <1>1, <2>1
<1>3. CASE ~Full
  <2>1. AddTail(b) = Append(buffers, b) /\ Len(buffers) < MAXBUFFER + 1
    BY <1>1, <1>3 DEF AddTail, Full
  <2>2. buffers # <<>> => Len(buffers) >= 1
    BY <1>1
  <2>3. Append(buffers, b) \in Seq(Buffer) /\ Len(Append(buffers, b)) = Len(buffers) + 1
    BY <1>1
  <2> QED  BY <1>1, <2>1, <2>2, <2>3
<1> QED  BY <1>2, <1>3

\* A message appended to a buffer gives a buffer again.
LEMMA WithType ==
  ASSUME NEW b \in Buffer, NEW m \in Nat, NEW len \in Nat
  PROVE  With(b, m, len) \in Buffer
<1>1. Append(b.msgs, m) \in Seq(Nat)  BY DEF Buffer
<1> QED  BY <1>1 DEF With, Buffer

\* A new buffer is empty.
LEMMA EmptyType == Empty \in Buffer
BY DEF Empty, Buffer

\* The messages of a buffer are numbers.
LEMMA IdsType ==
  ASSUME NEW b \in Buffer
  PROVE  Ids(b) \subseteq Nat
BY DEF Ids, Buffer

\* Init establishes the invariant.
LEMMA InitIInv == Init => IInv
<1> SUFFICES ASSUME Init PROVE IInv  OBVIOUS
<1> USE AsyncAssumption
<1>0. <<>> \in Seq(Buffer) /\ <<>> \in Seq(Nat) /\ Len(<<>>) = 0  OBVIOUS
<1>a. i \in 0 .. Len(toWrite)  BY <1>0 DEF Init
<1>1. TypeOK  BY <1>0, <1>a, EmptyType DEF Init, TypeOK
<1>2. WithinList  BY DEF Init, WithinList
<1>3. Spares /\ NeverShort  BY DEF Init, Spares, NeverShort
<1> QED  BY <1>1, <1>2, <1>3 DEF IInv

\* An append that changes buffers keeps a spare one or leaves a full one.
LEMMA ChangeKeeps ==
  ASSUME IInv, NEW b \in Buffer, NEW c \in Buffer, Change(b, c)
  PROVE  /\ current' \in Buffer /\ next' \in BOOLEAN /\ buffers' \in Seq(Buffer)
         /\ signal' \in BOOLEAN /\ lost' \subseteq Nat
         /\ Len(buffers') <= MAXBUFFER + 1
         /\ buffers' # <<>>
<1>1. TypeOK /\ WithinList  BY DEF IInv
<1>2. Ids(b) \subseteq Nat  BY IdsType
<1> QED  BY <1>1, <1>2, AddTailIn DEF Change, TypeOK

\* An append of either kind.
LEMMA AppendIInv ==
  ASSUME IInv, NEW len \in Sizes, AppendProc(len) \/ AppendLog(len),
         UNCHANGED mode
  PROVE  IInv'
<1> USE AsyncAssumption
<1>1. TypeOK /\ WithinList /\ Spares /\ NeverShort  BY DEF IInv
<1>2. current \in Buffer /\ n \in Nat /\ len \in Nat /\ n + 1 \in Nat  BY <1>1 DEF TypeOK
<1>3. With(current, n + 1, len) \in Buffer /\ With(Empty, n + 1, len) \in Buffer
  BY <1>2, WithType, EmptyType
<1>4. /\ n' = n + 1
      /\ UNCHANGED <<running, pc, local, stop, crash, written>>
      /\ \/ current' \in Buffer /\ UNCHANGED <<next, buffers, signal, lost>>
         \/ Change(With(current, n + 1, len), Empty)
         \/ Change(current, With(Empty, n + 1, len))
  BY <1>3 DEF AppendProc, AppendLog
<1>5. /\ current' \in Buffer /\ next' \in BOOLEAN /\ buffers' \in Seq(Buffer)
      /\ signal' \in BOOLEAN /\ lost' \subseteq Nat
      /\ Len(buffers') <= MAXBUFFER + 1
      /\ next' \/ buffers' # <<>>
  <2>1. CASE current' \in Buffer /\ UNCHANGED <<next, buffers, signal, lost>>
    BY <1>1, <2>1 DEF TypeOK, WithinList, Spares
  <2>2. CASE Change(With(current, n + 1, len), Empty)
    BY <1>3, <2>2, EmptyType, ChangeKeeps
  <2>3. CASE Change(current, With(Empty, n + 1, len))
    BY <1>2, <1>3, <2>3, ChangeKeeps
  <2> QED  BY <1>4, <2>1, <2>2, <2>3
<1>6. TypeOK'  BY <1>1, <1>4, <1>5 DEF TypeOK, local
<1>7. WithinList'  BY <1>1, <1>4, <1>5 DEF WithinList, local
<1>8. Spares'  BY <1>1, <1>4, <1>5 DEF Spares, local
<1> QED  BY <1>1, <1>4, <1>6, <1>7, <1>8 DEF IInv, NeverShort

\* The batch: the thread takes what is there and gives its buffers.
LEMMA SwapIInv ==
  ASSUME IInv, Swap, new1, new2, signal' \in BOOLEAN,
         UNCHANGED <<running, stop, crash, n, written>>, UNCHANGED mode
  PROVE  IInv'
<1> USE AsyncAssumption
<1>1. TypeOK /\ WithinList /\ Spares /\ NeverShort  BY DEF IInv
<1>2. current \in Buffer /\ Ids(current) \subseteq Nat
  BY <1>1, IdsType DEF TypeOK
<1>3. /\ toWrite' \in Seq(Buffer)
      /\ Len(toWrite') <= MAXBUFFER + 1
      /\ Len(toWrite') >= (IF buffers = <<>> THEN 1 ELSE 2)
  BY <1>1, <1>2, AddTailIn DEF Swap
<1>4. /\ buffers' = <<>> /\ current' \in Buffer /\ lost' \subseteq Nat
      /\ new1' = FALSE /\ new2' = next /\ next' = TRUE
      /\ i' = 0 /\ pc' = "drop"
  BY <1>1, <1>2, EmptyType DEF Swap, TypeOK
<1>a. <<>> \in Seq(Buffer) /\ Len(<<>>) = 0  OBVIOUS
<1>b. i' \in 0 .. Len(toWrite')  BY <1>3, <1>4
<1>5. TypeOK'  BY <1>1, <1>3, <1>4, <1>a, <1>b DEF TypeOK
<1>6. WithinList'  BY <1>3, <1>4 DEF WithinList
<1>7. Spares'  BY <1>1, <1>3, <1>4 DEF Spares, TypeOK
<1> QED  BY <1>1, <1>5, <1>6, <1>7 DEF IInv, NeverShort

\* The threads of the three programs take the same steps, and so do their
\* callers but for when the buffer is changed.
LEMMA ThreadRounds == Thread => Round
  BY DEF Thread, async_proc_threadFunc, asynclog_threadFunc, linkageasynclog_threadFunc

LEMMA AppendKinds == Appends => \E len \in Sizes : AppendProc(len) \/ AppendLog(len)
  BY DEF Appends, log_append, linkagelog_append

\* No step changes which program it is.
LEMMA ModeKept == [Next]_vars => UNCHANGED mode
<1>1. Round => UNCHANGED mode  BY DEF Round, Top, Enter, Wake, Drop, Write, Recycle
<1>2. ASSUME NEW len \in Sizes, AppendProc(len) \/ AppendLog(len) PROVE UNCHANGED mode
  BY <1>2 DEF AppendProc, AppendLog
<1>3. Stops => UNCHANGED mode  BY DEF Stops, StopClear, StopNotify, StopJoin
<1> QED  BY <1>1, <1>2, <1>3, ThreadRounds, AppendKinds DEF Next, vars

\* A step preserves the invariant.
LEMMA NextIInv == IInv /\ [Next]_vars => IInv'
<1> SUFFICES ASSUME IInv, [Next]_vars PROVE IInv'  OBVIOUS
<1> USE AsyncAssumption
<1>0. /\ TypeOK /\ WithinList /\ Spares /\ NeverShort
      /\ UNCHANGED mode
  BY ModeKept DEF IInv
<1>1. CASE Top
  <2>1. TypeOK'  BY <1>0, <1>1 DEF Top, At, TypeOK, shared, local
  <2>2. WithinList' /\ Spares' /\ NeverShort'
    BY <1>0, <1>1 DEF Top, At, WithinList, Spares, NeverShort, TypeOK, shared, local
  <2> QED  BY <2>1, <2>2 DEF IInv
<1>2. CASE Enter
  <2>1. CASE buffers = <<>>
    <3>1. TypeOK'  BY <1>0, <1>2, <2>1 DEF Enter, At, TypeOK, local
    <3>2. WithinList' /\ Spares' /\ NeverShort'
      BY <1>0, <1>2, <2>1 DEF Enter, At, WithinList, Spares, NeverShort, local
    <3> QED  BY <3>1, <3>2 DEF IInv
  <2>2. CASE buffers # <<>>
    <3>1. new1 /\ new2  BY <1>0, <1>2 DEF Enter, At, Spares
    <3>2. Swap /\ signal' \in BOOLEAN /\ UNCHANGED <<running, stop, crash, n, written>>
      BY <1>0, <1>2, <2>2 DEF Enter, At, TypeOK
    <3> QED  BY <1>0, <3>1, <3>2, SwapIInv
  <2> QED  BY <2>1, <2>2
<1>3. CASE Wake
  <2>1. new1 /\ new2  BY <1>0, <1>3 DEF Wake, At, Spares
  <2>2. Swap /\ signal' \in BOOLEAN /\ UNCHANGED <<running, stop, crash, n, written>>
    BY <1>0, <1>3 DEF Wake, At, TypeOK
  <2> QED  BY <1>0, <2>1, <2>2, SwapIInv
<1>4. CASE Drop
  <2>0. i = 0  BY <1>0, <1>4 DEF Drop, At, Spares
  <2>1. toWrite \in Seq(Buffer) /\ Len(toWrite) \in Nat  BY <1>0 DEF TypeOK
  <2>2. /\ toWrite' \in Seq(Buffer) /\ Len(toWrite') <= MAXBUFFER + 1
        /\ Len(toWrite') >= (IF new2 THEN 1 ELSE 2)
        /\ i' \in 0 .. Len(toWrite')
        /\ lost' \subseteq Nat
    <3>1. CASE Len(toWrite) > MAXBUFFER
      <4>1. /\ toWrite' = SubSeq(toWrite, 1, 2) /\ i' = i
            /\ lost' = lost \union UNION {Ids(toWrite[k]) : k \in 3 .. Len(toWrite)}
        BY <1>4, <3>1 DEF Drop, At
      <4>2. SubSeq(toWrite, 1, 2) \in Seq(Buffer) /\ Len(SubSeq(toWrite, 1, 2)) = 2
        BY <2>1, <3>1
      <4>3. \A k \in 3 .. Len(toWrite) : Ids(toWrite[k]) \subseteq Nat
        BY <2>1, IdsType
      <4>4. lost' \subseteq Nat  BY <1>0, <4>1, <4>3 DEF TypeOK
      <4>5. /\ 2 <= MAXBUFFER + 1
            /\ i' \in 0 .. 2
        BY <2>0, <4>1
      <4> QED  BY <4>1, <4>2, <4>4, <4>5
    <3>2. CASE ~(Len(toWrite) > MAXBUFFER)
      BY <1>0, <1>4, <3>2 DEF Drop, At, TypeOK, WithinList, Spares
    <3> QED  BY <3>1, <3>2
  <2>3. TypeOK'  BY <1>0, <1>4, <2>2 DEF Drop, At, TypeOK, shared
  <2>4. WithinList' /\ Spares' /\ NeverShort'
    BY <1>0, <1>4, <2>2 DEF Drop, At, WithinList, Spares, NeverShort, shared
  <2> QED  BY <2>3, <2>4 DEF IInv
<1>5. CASE Write
  <2>1. toWrite \in Seq(Buffer) /\ i \in Nat /\ i + 1 \in 1 .. Len(toWrite)
    BY <1>0, <1>5 DEF Write, At, TypeOK
  <2>2. toWrite[i + 1] \in Buffer  BY <2>1
  <2>3. written' \in Seq(Nat)  BY <1>0, <1>5, <2>2 DEF Write, At, TypeOK, Buffer
  <2>4. TypeOK'  BY <1>0, <1>5, <2>1, <2>3 DEF Write, At, TypeOK, shared
  <2>5. WithinList' /\ Spares' /\ NeverShort'
    BY <1>0, <1>5 DEF Write, At, WithinList, Spares, NeverShort, shared
  <2> QED  BY <2>4, <2>5 DEF IInv
<1>6. CASE Recycle
  <2>1. ~new1 /\ Len(toWrite) >= (IF new2 THEN 1 ELSE 2) /\ Len(toWrite) \in Nat
    BY <1>0, <1>6 DEF Recycle, At, Spares, TypeOK
  <2>2. crash' = FALSE
    <3>1. CASE new2
      <4>1. crash' = ((IF Len(toWrite) > 2 THEN 2 ELSE Len(toWrite)) < 1 + 0)
        BY <1>6, <2>1, <3>1 DEF Recycle, At
      <4>2. ((IF Len(toWrite) > 2 THEN 2 ELSE Len(toWrite)) < 1 + 0) = FALSE
        BY <2>1, <3>1
      <4> QED  BY <4>1, <4>2, Zenon
    <3>2. CASE ~new2
      <4>1. crash' = ((IF Len(toWrite) > 2 THEN 2 ELSE Len(toWrite)) < 1 + 1)
        BY <1>6, <2>1, <3>2 DEF Recycle, At
      <4>2. ((IF Len(toWrite) > 2 THEN 2 ELSE Len(toWrite)) < 1 + 1) = FALSE
        BY <2>1, <3>2
      <4> QED  BY <4>1, <4>2, Zenon
    <3> QED  BY <3>1, <3>2
  <2>3. TypeOK'  BY <1>0, <1>6, <2>2 DEF Recycle, At, TypeOK, shared
  <2>4. WithinList' /\ Spares' /\ NeverShort'
    BY <1>0, <1>6, <2>2 DEF Recycle, At, WithinList, Spares, NeverShort, shared
  <2> QED  BY <2>3, <2>4 DEF IInv
<1>7. CASE Appends
  BY <1>0, <1>7, AppendIInv, AppendKinds
<1>8. CASE Stops
  <2>1. TypeOK'  BY <1>0, <1>8 DEF Stops, StopAt, StopClear, StopNotify, StopJoin, TypeOK, shared, local
  <2>2. WithinList' /\ Spares' /\ NeverShort'
    BY <1>0, <1>8 DEF Stops, StopAt, StopClear, StopNotify, StopJoin, WithinList, Spares,
                      NeverShort, shared, local
  <2> QED  BY <2>1, <2>2 DEF IInv
<1>9. CASE UNCHANGED vars
  <2>1. TypeOK'  BY <1>0, <1>9 DEF TypeOK, vars, shared, local
  <2>2. WithinList' /\ Spares' /\ NeverShort'
    BY <1>0, <1>9 DEF WithinList, Spares, NeverShort, vars, shared, local
  <2> QED  BY <2>1, <2>2 DEF IInv
<1> QED
  BY <1>1, <1>2, <1>3, <1>4, <1>5, <1>6, <1>7, <1>8, <1>9, ThreadRounds
     DEF Next, Round

\* buffersToWrite always holds the buffers that newBuffer1 and newBuffer2 are
\* taken from (async_proc_threadFunc, lines 117 to 129), whatever the sizes of
\* the messages and the limits.
THEOREM EnoughBuffers == Spec => []NeverShort
<1>1. IInv => NeverShort  BY DEF IInv
<1> QED  BY InitIInv, NextIInv, <1>1, PTL DEF Spec

\* The variables keep their types.
THEOREM TypeCorrect == Spec => []TypeOK
<1>1. IInv => TypeOK  BY DEF IInv
<1> QED  BY InitIInv, NextIInv, <1>1, PTL DEF Spec

\* No list grows beyond the MAXBUFFER + 1 entries allocated for it.
THEOREM ListsBounded == Spec => []WithinList
<1>1. IInv => WithinList  BY DEF IInv
<1> QED  BY InitIInv, NextIInv, <1>1, PTL DEF Spec

------------------------------------------------------------------------------
(* The order of messages.  Line is four sequences of buffers in a row; what *)
(* it promises of the whole follows from what holds of each of them and     *)
(* between them, and most steps touch two of the four.                      *)

Before(A, B) == \A a \in A, b \in B : a < b

\* The messages in a sequence of buffers, and that these are in order
Held(L) == UNION {Ids(L[k]) : k \in 1 .. Len(L)}
Good(L) ==
  /\ \A k \in 1 .. Len(L) : Increasing(L[k].msgs)
  /\ \A j, k \in 1 .. Len(L) : j < k => Before(Ids(L[j]), Ids(L[k]))

\* The places of a concatenation are those of its halves.
Joined(u, s, t) ==
  /\ \A k \in 1 .. Len(s) : k \in 1 .. Len(u) /\ u[k] = s[k]
  /\ \A k \in 1 .. Len(t) : Len(s) + k \in 1 .. Len(u) /\ u[Len(s) + k] = t[k]
  /\ \A k \in 1 .. Len(u) : k \in 1 .. Len(s) \/ \E j \in 1 .. Len(t) : k = Len(s) + j

LEMMA Places ==
  ASSUME NEW S, NEW s \in Seq(S), NEW t \in Seq(S)
  PROVE  s \o t \in Seq(S) /\ Joined(s \o t, s, t)
<1>1. s \o t \in Seq(S) /\ Len(s \o t) = Len(s) + Len(t) /\ Len(s) \in Nat /\ Len(t) \in Nat
  OBVIOUS
<1>2. \A k \in 1 .. Len(s) : (s \o t)[k] = s[k]
  OBVIOUS
<1>3. \A k \in 1 .. Len(t) : (s \o t)[Len(s) + k] = t[k]
  OBVIOUS
<1>4. ASSUME NEW k \in 1 .. Len(s \o t), k \notin 1 .. Len(s)
      PROVE  \E j \in 1 .. Len(t) : k = Len(s) + j
  <2>1. k - Len(s) \in 1 .. Len(t) /\ k = Len(s) + (k - Len(s))
    BY <1>1, <1>4
  <2> QED  BY <2>1
<1> QED  BY <1>1, <1>2, <1>3, <1>4 DEF Joined

\* The messages of a concatenation are those of its halves.
LEMMA HeldBoth ==
  ASSUME NEW s \in Seq(Buffer), NEW t \in Seq(Buffer)
  PROVE  Held(s \o t) = Held(s) \union Held(t)
<1> DEFINE u == s \o t
<1>j. Joined(u, s, t)  BY Places
<1> HIDE DEF u
<1>0. /\ \A k \in 1 .. Len(s) : k \in 1 .. Len(u) /\ u[k] = s[k]
      /\ \A k \in 1 .. Len(t) : Len(s) + k \in 1 .. Len(u) /\ u[Len(s) + k] = t[k]
      /\ \A k \in 1 .. Len(u) : k \in 1 .. Len(s) \/ \E j \in 1 .. Len(t) : k = Len(s) + j
  BY <1>j DEF Joined
<1>1. ASSUME NEW m \in Held(u) PROVE m \in Held(s) \union Held(t)
  <2>1. PICK k \in 1 .. Len(u) : m \in Ids(u[k])  BY <1>1 DEF Held
  <2>2. CASE k \in 1 .. Len(s)  BY <1>0, <2>1, <2>2 DEF Held
  <2>3. CASE \E j \in 1 .. Len(t) : k = Len(s) + j
    <3>1. PICK j \in 1 .. Len(t) : k = Len(s) + j  BY <2>3
    <3>2. m \in Ids(t[j])  BY <1>0, <2>1, <3>1
    <3> QED  BY <3>2 DEF Held
  <2> QED  BY <1>0, <2>2, <2>3
<1>2. ASSUME NEW m \in Held(s) PROVE m \in Held(u)
  <2>1. PICK k \in 1 .. Len(s) : m \in Ids(s[k])  BY <1>2 DEF Held
  <2>2. k \in 1 .. Len(u) /\ m \in Ids(u[k])  BY <1>0, <2>1
  <2> QED  BY <2>2 DEF Held
<1>3. ASSUME NEW m \in Held(t) PROVE m \in Held(u)
  <2>1. PICK k \in 1 .. Len(t) : m \in Ids(t[k])  BY <1>3 DEF Held
  <2>2. Len(s) + k \in 1 .. Len(u) /\ m \in Ids(u[Len(s) + k])  BY <1>0, <2>1
  <2> QED  BY <2>2 DEF Held
<1> QED  BY <1>1, <1>2, <1>3 DEF u

\* A concatenation is in order if both halves are and the first is before the
\* second.
LEMMA GoodBoth ==
  ASSUME NEW s \in Seq(Buffer), NEW t \in Seq(Buffer)
  PROVE  Good(s \o t) <=> Good(s) /\ Good(t) /\ Before(Held(s), Held(t))
<1> DEFINE u == s \o t
<1>j. Joined(u, s, t)  BY Places
<1>n. Len(s) \in Nat /\ Len(t) \in Nat  OBVIOUS
<1> HIDE DEF u
<1>0. /\ \A k \in 1 .. Len(s) : k \in 1 .. Len(u) /\ u[k] = s[k]
      /\ \A k \in 1 .. Len(t) : Len(s) + k \in 1 .. Len(u) /\ u[Len(s) + k] = t[k]
      /\ \A k \in 1 .. Len(u) : k \in 1 .. Len(s) \/ \E j \in 1 .. Len(t) : k = Len(s) + j
  BY <1>j DEF Joined
<1>1. ASSUME Good(u) PROVE Good(s)
  <2>1. \A k \in 1 .. Len(s) : Increasing(s[k].msgs)  BY <1>0, <1>1 DEF Good
  <2>2. \A j, k \in 1 .. Len(s) : j < k => Before(Ids(s[j]), Ids(s[k]))
    BY <1>0, <1>1 DEF Good
  <2> QED  BY <2>1, <2>2 DEF Good
<1>2. ASSUME Good(u) PROVE Good(t)
  <2>1. \A k \in 1 .. Len(t) : Increasing(t[k].msgs)  BY <1>0, <1>2 DEF Good
  <2>2. ASSUME NEW j \in 1 .. Len(t), NEW k \in 1 .. Len(t), j < k
        PROVE  Before(Ids(t[j]), Ids(t[k]))
    <3>1. Len(s) + j < Len(s) + k  BY <1>n, <2>2
    <3>2. /\ Len(s) + j \in 1 .. Len(u) /\ u[Len(s) + j] = t[j]
          /\ Len(s) + k \in 1 .. Len(u) /\ u[Len(s) + k] = t[k]
      BY <1>0
    <3>3. Before(Ids(u[Len(s) + j]), Ids(u[Len(s) + k]))  BY <1>2, <3>1, <3>2 DEF Good
    <3> QED  BY <3>2, <3>3
  <2> QED  BY <2>1, <2>2 DEF Good
<1>3. ASSUME Good(u), NEW a \in Held(s), NEW b \in Held(t) PROVE a < b
  <2>1. PICK j \in 1 .. Len(s) : a \in Ids(s[j])  BY <1>3 DEF Held
  <2>2. PICK k \in 1 .. Len(t) : b \in Ids(t[k])  BY <1>3 DEF Held
  <2>3. /\ j \in 1 .. Len(u) /\ u[j] = s[j]
        /\ Len(s) + k \in 1 .. Len(u) /\ u[Len(s) + k] = t[k]
    BY <1>0
  <2>4. j < Len(s) + k  BY <1>n
  <2>5. Before(Ids(u[j]), Ids(u[Len(s) + k]))  BY <1>3, <2>3, <2>4 DEF Good
  <2> QED  BY <2>1, <2>2, <2>3, <2>5 DEF Before
<1>4. ASSUME Good(s), Good(t), Before(Held(s), Held(t)) PROVE Good(u)
  <2>1. ASSUME NEW k \in 1 .. Len(u) PROVE Increasing(u[k].msgs)
    <3>1. CASE k \in 1 .. Len(s)  BY <1>0, <1>4, <3>1 DEF Good
    <3>2. CASE \E j \in 1 .. Len(t) : k = Len(s) + j  BY <1>0, <1>4, <3>2 DEF Good
    <3> QED  BY <1>0, <3>1, <3>2
  <2>2. ASSUME NEW j \in 1 .. Len(u), NEW k \in 1 .. Len(u), j < k
        PROVE  Before(Ids(u[j]), Ids(u[k]))
    <3>1. CASE k \in 1 .. Len(s)
      <4>1. j \in 1 .. Len(s)  BY <1>n, <2>2, <3>1
      <4> QED  BY <1>0, <1>4, <2>2, <3>1, <4>1 DEF Good
    <3>2. CASE \E l \in 1 .. Len(t) : k = Len(s) + l
      <4>1. PICK l \in 1 .. Len(t) : k = Len(s) + l  BY <3>2
      <4>2. u[k] = t[l]  BY <1>0, <4>1
      <4>3. CASE j \in 1 .. Len(s)
        <5>1. Ids(u[j]) \subseteq Held(s)  BY <1>0, <4>3 DEF Held
        <5>2. Ids(u[k]) \subseteq Held(t)  BY <4>2 DEF Held
        <5> QED  BY <1>4, <5>1, <5>2 DEF Before
      <4>4. CASE \E h \in 1 .. Len(t) : j = Len(s) + h
        <5>1. PICK h \in 1 .. Len(t) : j = Len(s) + h  BY <4>4
        <5>2. u[j] = t[h] /\ h < l  BY <1>0, <1>n, <2>2, <4>1, <5>1
        <5> QED  BY <1>4, <4>2, <5>2 DEF Good
      <4> QED  BY <1>0, <4>3, <4>4
    <3> QED  BY <1>0, <3>1, <3>2
  <2> QED  BY <2>1, <2>2 DEF Good
<1>5. Good(u) => Before(Held(s), Held(t))  BY <1>3 DEF Before
<1> QED  BY <1>1, <1>2, <1>4, <1>5 DEF u

LEMMA GoodOne ==
  ASSUME NEW b \in Buffer
  PROVE  <<b>> \in Seq(Buffer) /\ Held(<<b>>) = Ids(b) /\ (Good(<<b>>) <=> Increasing(b.msgs))
<1>1. <<b>> \in Seq(Buffer) /\ Len(<<b>>) = 1 /\ <<b>>[1] = b  OBVIOUS
<1>2. 1 .. 1 = {1}  OBVIOUS
<1>3. \A j, k \in 1 .. 1 : ~(j < k)  OBVIOUS
<1> QED  BY <1>1, <1>2, <1>3 DEF Held, Good

LEMMA GoodNone ==
  /\ <<>> \in Seq(Buffer) /\ Held(<<>>) = {} /\ Good(<<>>)
  /\ Ids(Empty) = {} /\ Increasing(Empty.msgs)
BY DEF Held, Good, Ids, Empty, Increasing

\* The same for messages: a concatenation of increasing sequences.
Elems(s) == {s[k] : k \in 1 .. Len(s)}

LEMMA IncreasingBoth ==
  ASSUME NEW s \in Seq(Nat), NEW t \in Seq(Nat),
         Increasing(s), Increasing(t), Before(Elems(s), Elems(t))
  PROVE  /\ Increasing(s \o t)
         /\ Elems(s \o t) = Elems(s) \union Elems(t)
<1> DEFINE u == s \o t
<1>j. Joined(u, s, t)  BY Places
<1>n. Len(s) \in Nat /\ Len(t) \in Nat  OBVIOUS
<1> HIDE DEF u
<1>0. /\ \A k \in 1 .. Len(s) : k \in 1 .. Len(u) /\ u[k] = s[k]
      /\ \A k \in 1 .. Len(t) : Len(s) + k \in 1 .. Len(u) /\ u[Len(s) + k] = t[k]
      /\ \A k \in 1 .. Len(u) : k \in 1 .. Len(s) \/ \E j \in 1 .. Len(t) : k = Len(s) + j
  BY <1>j DEF Joined
<1>1. ASSUME NEW j \in 1 .. Len(u), NEW k \in 1 .. Len(u), j < k PROVE u[j] < u[k]
  <2>1. CASE k \in 1 .. Len(s)
    <3>1. j \in 1 .. Len(s)  BY <1>n, <1>1, <2>1
    <3> QED  BY <1>0, <1>1, <2>1, <3>1 DEF Increasing
  <2>2. CASE \E l \in 1 .. Len(t) : k = Len(s) + l
    <3>1. PICK l \in 1 .. Len(t) : k = Len(s) + l  BY <2>2
    <3>2. u[k] = t[l]  BY <1>0, <3>1
    <3>3. CASE j \in 1 .. Len(s)
      <4>1. u[j] = s[j]  BY <1>0, <3>3
      <4> QED  BY <3>2, <3>3, <4>1 DEF Before, Elems
    <3>4. CASE \E h \in 1 .. Len(t) : j = Len(s) + h
      <4>1. PICK h \in 1 .. Len(t) : j = Len(s) + h  BY <3>4
      <4>2. u[j] = t[h] /\ h < l  BY <1>0, <1>n, <1>1, <3>1, <4>1
      <4> QED  BY <3>2, <4>2 DEF Increasing
    <3> QED  BY <1>0, <3>3, <3>4
  <2> QED  BY <1>0, <2>1, <2>2
<1>2. ASSUME NEW m \in Elems(u) PROVE m \in Elems(s) \union Elems(t)
  <2>1. PICK k \in 1 .. Len(u) : m = u[k]  BY <1>2 DEF Elems
  <2>2. CASE k \in 1 .. Len(s)  BY <1>0, <2>1, <2>2 DEF Elems
  <2>3. CASE \E j \in 1 .. Len(t) : k = Len(s) + j
    <3>1. PICK j \in 1 .. Len(t) : k = Len(s) + j  BY <2>3
    <3>2. m = t[j]  BY <1>0, <2>1, <3>1
    <3> QED  BY <3>2 DEF Elems
  <2> QED  BY <1>0, <2>2, <2>3
<1>3. ASSUME NEW m \in Elems(s) PROVE m \in Elems(u)
  <2>1. PICK k \in 1 .. Len(s) : m = s[k]  BY <1>3 DEF Elems
  <2>2. k \in 1 .. Len(u) /\ m = u[k]  BY <1>0, <2>1
  <2> QED  BY <2>2 DEF Elems
<1>4. ASSUME NEW m \in Elems(t) PROVE m \in Elems(u)
  <2>1. PICK k \in 1 .. Len(t) : m = t[k]  BY <1>4 DEF Elems
  <2>2. Len(s) + k \in 1 .. Len(u) /\ m = u[Len(s) + k]  BY <1>0, <2>1
  <2> QED  BY <2>2 DEF Elems
<1>5. Elems(u) = Elems(s) \union Elems(t)  BY <1>2, <1>3, <1>4
<1>6. Increasing(u)  BY <1>1 DEF Increasing
<1> QED  BY <1>5, <1>6 DEF u

LEMMA ElemsIds ==
  ASSUME NEW b \in Buffer
  PROVE  Ids(b) = Elems(b.msgs) /\ b.msgs \in Seq(Nat)
BY DEF Ids, Elems, Buffer

------------------------------------------------------------------------------
(* Line by its parts: what was processed, what is being processed, the full *)
(* buffers and the current one.                                             *)

LineOf(w, B, C, c) == <<[msgs |-> w, used |-> 0]>> \o B \o C \o <<c>>

Parts(w, B, C, c) ==
  /\ Increasing(w) /\ Good(B) /\ Good(C) /\ Increasing(c.msgs)
  /\ Before(Elems(w), Held(B)) /\ Before(Elems(w), Held(C)) /\ Before(Elems(w), Ids(c))
  /\ Before(Held(B), Held(C)) /\ Before(Held(B), Ids(c))
  /\ Before(Held(C), Ids(c))

AllOf(w, B, C, c) == Elems(w) \union Held(B) \union Held(C) \union Ids(c)

LEMMA LineParts ==
  ASSUME NEW w \in Seq(Nat), NEW B \in Seq(Buffer), NEW C \in Seq(Buffer), NEW c \in Buffer
  PROVE  /\ Good(LineOf(w, B, C, c)) <=> Parts(w, B, C, c)
         /\ Held(LineOf(w, B, C, c)) = AllOf(w, B, C, c)
<1> DEFINE b == [msgs |-> w, used |-> 0]
<1>1. b \in Buffer /\ Ids(b) = Elems(w) /\ (Increasing(b.msgs) <=> Increasing(w))
  BY DEF Buffer, Ids, Elems
<1> HIDE DEF b
<1>2. PICK f \in Seq(Buffer) :
        f = <<b>> /\ Held(f) = Elems(w) /\ (Good(f) <=> Increasing(w))
  BY <1>1, GoodOne
<1>2a. PICK e \in Seq(Buffer) :
        e = <<c>> /\ Held(e) = Ids(c) /\ (Good(e) <=> Increasing(c.msgs))
  BY GoodOne
<1>3. PICK x \in Seq(Buffer) : x = f \o B  BY Places
<1>4. /\ Held(x) = Elems(w) \union Held(B)
      /\ Good(x) <=> Increasing(w) /\ Good(B) /\ Before(Elems(w), Held(B))
  <2>1. Held(f \o B) = Held(f) \union Held(B)  BY HeldBoth
  <2>2. Good(f \o B) <=> Good(f) /\ Good(B) /\ Before(Held(f), Held(B))  BY GoodBoth
  <2> QED  BY <1>2, <1>3, <2>1, <2>2
<1>5. PICK y \in Seq(Buffer) : y = x \o C  BY Places
<1>6. /\ Held(y) = Held(x) \union Held(C)
      /\ Good(y) <=> Good(x) /\ Good(C) /\ Before(Held(x), Held(C))
  BY <1>5, HeldBoth, GoodBoth
<1>7. LineOf(w, B, C, c) = y \o e  BY <1>2, <1>2a, <1>3, <1>5 DEF LineOf, b
<1>8. /\ Held(y \o e) = Held(y) \union Ids(c)
      /\ Good(y \o e) <=> Good(y) /\ Increasing(c.msgs) /\ Before(Held(y), Ids(c))
  <2>1. Held(y \o e) = Held(y) \union Held(e)  BY HeldBoth
  <2>2. Good(y \o e) <=> Good(y) /\ Good(e) /\ Before(Held(y), Held(e))  BY GoodBoth
  <2> QED  BY <1>2a, <2>1, <2>2
<1>9. Held(LineOf(w, B, C, c)) = AllOf(w, B, C, c)  BY <1>4, <1>6, <1>7, <1>8 DEF AllOf
<1>10. Before(Held(x), Held(C)) <=> Before(Elems(w), Held(C)) /\ Before(Held(B), Held(C))
  BY <1>4 DEF Before
<1>11. Before(Held(y), Ids(c)) <=>
         Before(Elems(w), Ids(c)) /\ Before(Held(B), Ids(c)) /\ Before(Held(C), Ids(c))
  BY <1>4, <1>6 DEF Before
<1>12. Good(LineOf(w, B, C, c)) <=> Parts(w, B, C, c)
  BY <1>4, <1>6, <1>7, <1>8, <1>10, <1>11 DEF Parts
<1> QED  BY <1>9, <1>12

------------------------------------------------------------------------------
(* What the steps do to the parts. *)

\* A message that is later than all others is put into the current buffer.
LEMMA PutKeeps ==
  ASSUME NEW w \in Seq(Nat), NEW B \in Seq(Buffer), NEW C \in Seq(Buffer), NEW c \in Buffer,
         Parts(w, B, C, c), NEW m \in Nat, NEW len \in Nat,
         \A x \in AllOf(w, B, C, c) : x < m
  PROVE  /\ Parts(w, B, C, With(c, m, len))
         /\ AllOf(w, B, C, With(c, m, len)) = AllOf(w, B, C, c) \union {m}
<1> DEFINE d == With(c, m, len)
<1>1. Ids(c) = Elems(c.msgs) /\ c.msgs \in Seq(Nat)  BY ElemsIds
<1>2. d \in Buffer  BY WithType
<1>3. Ids(d) = Elems(d.msgs)  BY <1>2, ElemsIds
<1>4. d.msgs = c.msgs \o <<m>>
  <2>1. Append(c.msgs, m) = c.msgs \o <<m>>  BY <1>1, AppendIsConcat
  <2> QED  BY <2>1 DEF With
<1>5. <<m>> \in Seq(Nat) /\ Increasing(<<m>>) /\ Elems(<<m>>) = {m}
  <2>1. <<m>> \in Seq(Nat) /\ Len(<<m>>) = 1 /\ <<m>>[1] = m /\ 1 .. 1 = {1}  OBVIOUS
  <2>2. \A j, k \in 1 .. 1 : ~(j < k)  OBVIOUS
  <2> QED  BY <2>1, <2>2 DEF Increasing, Elems
<1>6. Before(Elems(c.msgs), {m})  BY <1>1 DEF Before, AllOf
<1>7. Increasing(d.msgs) /\ Elems(d.msgs) = Ids(c) \union {m}
  <2>1. PICK t \in Seq(Nat) : t = <<m>>  BY <1>5
  <2>2. Increasing(c.msgs)  BY DEF Parts
  <2> QED  BY <1>1, <1>4, <1>5, <1>6, <2>1, <2>2, IncreasingBoth
<1>8. Ids(d) = Ids(c) \union {m}  BY <1>3, <1>7
<1> HIDE DEF d
<1>9. Before(Elems(w), Ids(d)) /\ Before(Held(B), Ids(d)) /\ Before(Held(C), Ids(d))
  BY <1>8 DEF Parts, Before, AllOf
<1>10. Parts(w, B, C, d)  BY <1>7, <1>9 DEF Parts
<1>11. AllOf(w, B, C, d) = AllOf(w, B, C, c) \union {m}  BY <1>8 DEF AllOf
<1> QED  BY <1>10, <1>11 DEF d

\* The current buffer goes to the list.
LEMMA ListKeeps ==
  ASSUME NEW w \in Seq(Nat), NEW B \in Seq(Buffer), NEW C \in Seq(Buffer), NEW c \in Buffer,
         Parts(w, B, C, c)
  PROVE  /\ Append(C, c) \in Seq(Buffer)
         /\ Parts(w, B, Append(C, c), Empty)
         /\ AllOf(w, B, Append(C, c), Empty) = AllOf(w, B, C, c)
<1>1. PICK e \in Seq(Buffer) :
        e = <<c>> /\ Held(e) = Ids(c) /\ (Good(e) <=> Increasing(c.msgs))
  BY GoodOne
<1>2. PICK D \in Seq(Buffer) : D = C \o e  BY Places
<1>3. Held(D) = Held(C) \union Ids(c)
  <2>1. Held(C \o e) = Held(C) \union Held(e)  BY HeldBoth
  <2> QED  BY <1>1, <1>2, <2>1
<1>4. Good(D)
  <2>1. Good(C \o e) <=> Good(C) /\ Good(e) /\ Before(Held(C), Held(e))  BY GoodBoth
  <2> QED  BY <1>1, <1>2, <2>1 DEF Parts
<1>5. Append(C, c) = D  BY <1>1, <1>2, AppendIsConcat
<1>6. Before(Elems(w), Held(D)) /\ Before(Held(B), Held(D))  BY <1>3 DEF Parts, Before
<1>7. Parts(w, B, D, Empty)  BY <1>4, <1>6, GoodNone DEF Parts, Before
<1>8. AllOf(w, B, D, Empty) = AllOf(w, B, C, c)  BY <1>3, GoodNone DEF AllOf
<1> QED  BY <1>5, <1>7, <1>8

\* What is before something else has nothing in common with it.
LEMMA ApartWhenBefore ==
  ASSUME NEW A, NEW B, B \subseteq Nat, Before(A, B) \/ Before(B, A)
  PROVE  A \intersect B = {}
<1> SUFFICES ASSUME NEW x \in A, x \in B PROVE FALSE  OBVIOUS
<1>1. x \in Nat /\ x < x  BY DEF Before
<1> QED  BY <1>1

\* The current buffer is overwritten.
LEMMA LoseKeeps ==
  ASSUME NEW w \in Seq(Nat), NEW B \in Seq(Buffer), NEW C \in Seq(Buffer), NEW c \in Buffer,
         Parts(w, B, C, c)
  PROVE  /\ Parts(w, B, C, Empty)
         /\ AllOf(w, B, C, Empty) = AllOf(w, B, C, c) \ Ids(c)
<1>1. Parts(w, B, C, Empty)  BY GoodNone DEF Parts, Before
<1>2. Ids(c) \subseteq Nat  BY IdsType
<1>3. /\ Elems(w) \intersect Ids(c) = {}
      /\ Held(B) \intersect Ids(c) = {}
      /\ Held(C) \intersect Ids(c) = {}
  BY <1>2, ApartWhenBefore DEF Parts
<1> QED  BY <1>1, <1>3, GoodNone DEF AllOf

\* The list becomes the batch.
LEMMA TakeKeeps ==
  ASSUME NEW w \in Seq(Nat), NEW C \in Seq(Buffer), Parts(w, <<>>, C, Empty)
  PROVE  /\ Parts(w, C, <<>>, Empty)
         /\ AllOf(w, C, <<>>, Empty) = AllOf(w, <<>>, C, Empty)
BY GoodNone DEF Parts, Before, AllOf

\* The end of the batch is freed.
LEMMA CutKeeps ==
  ASSUME NEW w \in Seq(Nat), NEW B \in Seq(Buffer), NEW C \in Seq(Buffer), NEW c \in Buffer,
         NEW D \in Seq(Buffer), Parts(w, B \o D, C, c), AllOf(w, B \o D, C, c) \subseteq Nat
  PROVE  /\ Parts(w, B, C, c)
         /\ AllOf(w, B, C, c) = AllOf(w, B \o D, C, c) \ Held(D)
<1>1. Held(B \o D) = Held(B) \union Held(D)  BY HeldBoth
<1>2. Good(B) /\ Before(Held(B), Held(D))  BY GoodBoth DEF Parts
<1>3. Parts(w, B, C, c)  BY <1>1, <1>2 DEF Parts, Before
<1>4. \A x \in AllOf(w, B, C, c) : x \notin Held(D)
  <2>1. Held(D) \subseteq Nat  BY <1>1 DEF AllOf
  <2>2. Elems(w) \intersect Held(D) = {} /\ Held(B) \intersect Held(D) = {}
    BY <1>1, <1>2, <2>1, ApartWhenBefore DEF Parts, Before
  <2>3. Held(C) \intersect Held(D) = {} /\ Ids(c) \intersect Held(D) = {}
    BY <1>1, <2>1, ApartWhenBefore DEF Parts, Before
  <2> QED  BY <2>2, <2>3 DEF AllOf
<1> QED  BY <1>1, <1>3, <1>4 DEF AllOf

\* The first buffer of the batch is processed.
LEMMA ProcessKeeps ==
  ASSUME NEW w \in Seq(Nat), NEW B \in Seq(Buffer), NEW C \in Seq(Buffer), NEW c \in Buffer,
         NEW b \in Buffer, Parts(w, <<b>> \o B, C, c)
  PROVE  /\ w \o b.msgs \in Seq(Nat)
         /\ Parts(w \o b.msgs, B, C, c)
         /\ AllOf(w \o b.msgs, B, C, c) = AllOf(w, <<b>> \o B, C, c)
<1>1. PICK f \in Seq(Buffer) :
        f = <<b>> /\ Held(f) = Ids(b) /\ (Good(f) <=> Increasing(b.msgs))
  BY GoodOne
<1>2. PICK D \in Seq(Buffer) : D = f \o B  BY Places
<1>3. Parts(w, D, C, c)  BY <1>1, <1>2
<1>4. Held(D) = Ids(b) \union Held(B)
  <2>1. Held(f \o B) = Held(f) \union Held(B)  BY HeldBoth
  <2> QED  BY <1>1, <1>2, <2>1
<1>5. Good(B) /\ Increasing(b.msgs) /\ Before(Ids(b), Held(B))
  <2>1. Good(f \o B) <=> Good(f) /\ Good(B) /\ Before(Held(f), Held(B))  BY GoodBoth
  <2> QED  BY <1>1, <1>2, <1>3, <2>1 DEF Parts
<1>6. Ids(b) = Elems(b.msgs) /\ b.msgs \in Seq(Nat)  BY ElemsIds
<1>7. Before(Elems(w), Elems(b.msgs))  BY <1>3, <1>4, <1>6 DEF Parts, Before
<1>8. PICK v \in Seq(Nat) : v = w \o b.msgs
  <2>1. w \o b.msgs \in Seq(Nat)  BY <1>6, Places
  <2> QED  BY <2>1
<1>9. Increasing(v) /\ Elems(v) = Elems(w) \union Ids(b)
  BY <1>3, <1>5, <1>6, <1>7, <1>8, IncreasingBoth DEF Parts
<1>10. /\ Before(Elems(v), Held(B)) /\ Before(Elems(v), Held(C)) /\ Before(Elems(v), Ids(c))
       /\ Before(Held(B), Held(C)) /\ Before(Held(B), Ids(c))
  BY <1>3, <1>4, <1>5, <1>9 DEF Parts, Before
<1>11. Parts(v, B, C, c)  BY <1>3, <1>5, <1>9, <1>10 DEF Parts
<1>12. AllOf(v, B, C, c) = AllOf(w, D, C, c)  BY <1>4, <1>9 DEF AllOf
<1> QED  BY <1>1, <1>2, <1>8, <1>11, <1>12

------------------------------------------------------------------------------
(* The invariant of the order, over the four parts. *)

\* The buffers of the batch that are not processed yet
Batch == SubSeq(toWrite, i + 1, Len(toWrite))

Ordered ==
  /\ Parts(written, Batch, buffers, current)
  /\ AllOf(written, Batch, buffers, current) = (1 .. n) \ lost
  /\ lost \subseteq 1 .. n

OInv == IInv /\ Ordered

\* What is left of a batch after j buffers.
LEMMA BatchType ==
  ASSUME NEW tw \in Seq(Buffer), NEW j \in 0 .. Len(tw)
  PROVE  /\ SubSeq(tw, j + 1, Len(tw)) \in Seq(Buffer)
         /\ j = 0 => SubSeq(tw, j + 1, Len(tw)) = tw
         /\ j = Len(tw) => SubSeq(tw, j + 1, Len(tw)) = <<>>
         /\ j < Len(tw) =>
              /\ SubSeq(tw, j + 2, Len(tw)) \in Seq(Buffer)
              /\ tw[j + 1] \in Buffer
              /\ SubSeq(tw, j + 1, Len(tw)) = <<tw[j + 1]>> \o SubSeq(tw, j + 2, Len(tw))
<1>0. Len(tw) \in Nat /\ j \in Nat  OBVIOUS
<1>1. \A k \in j + 1 .. Len(tw) : tw[k] \in Buffer  BY <1>0
<1>2. SubSeq(tw, j + 1, Len(tw)) \in Seq(Buffer)  BY <1>0, <1>1, SubSeqProperties
<1>3. ASSUME j = 0 PROVE SubSeq(tw, j + 1, Len(tw)) = tw
  <2>1. j + 1 = 1  BY <1>3
  <2>2. SubSeq(tw, 1, Len(tw)) = tw  BY SubSeqFull
  <2> QED  BY <2>1, <2>2
<1>4. j = Len(tw) => SubSeq(tw, j + 1, Len(tw)) = <<>>  BY <1>0, SubSeqEmpty
<1>5. ASSUME j < Len(tw)
      PROVE  /\ SubSeq(tw, j + 2, Len(tw)) \in Seq(Buffer)
             /\ tw[j + 1] \in Buffer
             /\ SubSeq(tw, j + 1, Len(tw)) = <<tw[j + 1]>> \o SubSeq(tw, j + 2, Len(tw))
  <2>1. tw[j + 1] \in Buffer /\ \A k \in j + 2 .. Len(tw) : tw[k] \in Buffer  BY <1>0, <1>5
  <2>2. SubSeq(tw, j + 2, Len(tw)) \in Seq(Buffer)  BY <1>0, <2>1, SubSeqProperties
  <2>3. j + 1 \in 1 .. Len(tw) /\ Len(tw) \in j + 1 .. Len(tw) /\ (j + 1) + 1 = j + 2
    BY <1>0, <1>5
  <2>4. SubSeq(tw, j + 1, Len(tw)) = <<tw[j + 1]>> \o SubSeq(tw, (j + 1) + 1, Len(tw))
    BY <2>3, SubSeqRecursiveFirst
  <2> QED  BY <2>1, <2>2, <2>3, <2>4
<1> QED  BY <1>2, <1>3, <1>4, <1>5

\* The invariant is about Line.
LEMMA OrderedInOrder == TypeOK /\ Ordered => InOrder
<1> SUFFICES ASSUME TypeOK, Ordered PROVE InOrder  OBVIOUS
<1>1. PICK B \in Seq(Buffer) : B = Batch  BY BatchType DEF Batch, TypeOK
<1>2. Line = LineOf(written, B, buffers, current)  BY <1>1 DEF Line, LineOf, Batch
<1>3. /\ written \in Seq(Nat) /\ buffers \in Seq(Buffer) /\ current \in Buffer
  BY DEF TypeOK
<1>4. Good(Line)  BY <1>1, <1>2, <1>3, LineParts DEF Ordered
<1>5. Held(Line) = (1 .. n) \ lost  BY <1>1, <1>2, <1>3, LineParts DEF Ordered
<1> QED  BY <1>4, <1>5 DEF InOrder, Good, Held, Before

\* A buffer is added to the list, or lost when the list is full.
LostWith(b) == IF Full THEN lost \union Ids(b) ELSE lost

LEMMA AddTailOrder ==
  ASSUME TypeOK, WithinList, NEW b \in Buffer, NEW N \in SUBSET Nat, NEW B \in Seq(Buffer),
         Parts(written, B, buffers, b),
         AllOf(written, B, buffers, b) = N \ lost, lost \subseteq N
  PROVE  /\ AddTail(b) \in Seq(Buffer)
         /\ Parts(written, B, AddTail(b), Empty)
         /\ AllOf(written, B, AddTail(b), Empty) = N \ LostWith(b)
         /\ LostWith(b) \subseteq N
<1>1. AddTail(b) \in Seq(Buffer)  BY AddTailIn
<1>2. written \in Seq(Nat) /\ buffers \in Seq(Buffer)  BY DEF TypeOK
<1>4. CASE Full
  <2>1. AddTail(b) = buffers /\ LostWith(b) = lost \union Ids(b)  BY <1>4 DEF AddTail, LostWith
  <2>2. /\ Parts(written, B, buffers, Empty)
        /\ AllOf(written, B, buffers, Empty) = AllOf(written, B, buffers, b) \ Ids(b)
    BY <1>2, LoseKeeps
  <2>4. Ids(b) \subseteq N  BY DEF AllOf
  <2>5. (N \ lost) \ Ids(b) = N \ LostWith(b)  BY <2>1
  <2> QED  BY <1>1, <2>1, <2>2, <2>4, <2>5
<1>5. CASE ~Full
  <2>1. AddTail(b) = Append(buffers, b) /\ LostWith(b) = lost  BY <1>5 DEF AddTail, LostWith
  <2>2. /\ Parts(written, B, Append(buffers, b), Empty)
        /\ AllOf(written, B, Append(buffers, b), Empty) = AllOf(written, B, buffers, b)
    BY <1>2, ListKeeps
  <2> QED  BY <1>1, <2>1, <2>2
<1> QED  BY <1>4, <1>5

\* An append puts the next message behind all others, whatever becomes of the
\* buffers.
LEMMA AppendOrder ==
  ASSUME OInv, NEW len \in Sizes, AppendProc(len) \/ AppendLog(len)
  PROVE  Ordered'
<1> USE AsyncAssumption
<1>0. TypeOK /\ WithinList  BY DEF OInv, IInv
<1>1. /\ written \in Seq(Nat) /\ buffers \in Seq(Buffer) /\ current \in Buffer
      /\ n \in Nat /\ len \in Nat /\ n + 1 \in Nat /\ Empty \in Buffer
  BY <1>0, EmptyType DEF TypeOK
<1>2. PICK B \in Seq(Buffer) : B = Batch  BY <1>0, BatchType DEF Batch, TypeOK
<1>3. /\ Parts(written, B, buffers, current)
      /\ AllOf(written, B, buffers, current) = (1 .. n) \ lost
      /\ lost \subseteq 1 .. n
  BY <1>2 DEF OInv, Ordered
<1>4. n' = n + 1 /\ written' = written /\ Batch' = B
  BY <1>2 DEF AppendProc, AppendLog, Batch, local
<1>5. PICK m \in Nat : m = n + 1  BY <1>1
<1>6. /\ \A x \in (1 .. n) : x < m
      /\ \A L \in SUBSET (1 .. n) : ((1 .. n) \ L) \union {m} = (1 .. m) \ L /\ L \subseteq 1 .. m
      /\ 1 .. n \in SUBSET Nat /\ 1 .. m \in SUBSET Nat
  BY <1>1, <1>5
<1>7. PICK c \in Buffer : c = With(current, m, len)  BY <1>1, WithType
<1>8. PICK e \in Buffer : e = With(Empty, m, len)  BY <1>1, WithType
<1>9. /\ Parts(written, B, buffers, c)
      /\ AllOf(written, B, buffers, c) = (1 .. m) \ lost
      /\ lost \subseteq 1 .. m
  <2>1. \A x \in AllOf(written, B, buffers, current) : x < m  BY <1>3, <1>6
  <2>2. /\ Parts(written, B, buffers, c)
        /\ AllOf(written, B, buffers, c) = AllOf(written, B, buffers, current) \union {m}
    BY <1>1, <1>3, <1>7, <2>1, PutKeeps
  <2> QED  BY <1>3, <1>6, <2>2
<1>10. \/ current' = c /\ buffers' = buffers /\ lost' = lost
       \/ Change(c, Empty)
       \/ Change(current, e)
  BY <1>5, <1>7, <1>8 DEF AppendProc, AppendLog
<1>11. /\ Parts(written, B, buffers', current')
       /\ AllOf(written, B, buffers', current') = (1 .. m) \ lost'
       /\ lost' \subseteq 1 .. m
  <2>1. CASE current' = c /\ buffers' = buffers /\ lost' = lost
    BY <1>9, <2>1
  <2>2. CASE Change(c, Empty)
    <3>1. buffers' = AddTail(c) /\ current' = Empty /\ lost' = LostWith(c)
      BY <2>2 DEF Change, LostWith
    <3>2. /\ Parts(written, B, AddTail(c), Empty)
          /\ AllOf(written, B, AddTail(c), Empty) = (1 .. m) \ LostWith(c)
          /\ LostWith(c) \subseteq 1 .. m
      BY <1>0, <1>6, <1>9, AddTailOrder
    <3> QED  BY <3>1, <3>2
  <2>3. CASE Change(current, e)
    <3>1. buffers' = AddTail(current) /\ current' = e /\ lost' = LostWith(current)
      BY <2>3 DEF Change, LostWith
    <3>2. PICK C \in Seq(Buffer) : C = AddTail(current)  BY <1>0, <1>1, AddTailIn
    <3>3. /\ Parts(written, B, C, Empty)
          /\ AllOf(written, B, C, Empty) = (1 .. n) \ lost'
          /\ lost' \subseteq 1 .. n
      <4>1. /\ Parts(written, B, AddTail(current), Empty)
            /\ AllOf(written, B, AddTail(current), Empty) = (1 .. n) \ LostWith(current)
            /\ LostWith(current) \subseteq 1 .. n
        BY <1>0, <1>1, <1>3, <1>6, AddTailOrder
      <4> QED  BY <3>1, <3>2, <4>1
    <3>4. \A x \in AllOf(written, B, C, Empty) : x < m  BY <1>6, <3>3
    <3>5. /\ Parts(written, B, C, e)
          /\ AllOf(written, B, C, e) = AllOf(written, B, C, Empty) \union {m}
      BY <1>1, <1>8, <3>3, <3>4, PutKeeps
    <3> QED  BY <1>6, <3>1, <3>2, <3>3, <3>5
  <2> QED  BY <1>10, <2>1, <2>2, <2>3
<1> QED  BY <1>4, <1>5, <1>11 DEF Ordered

\* The batch takes all buffers, in their order.
LEMMA SwapOrder ==
  ASSUME OInv, Swap, toWrite = <<>>, UNCHANGED <<n, written>>
  PROVE  Ordered'
<1> USE AsyncAssumption
<1>0. TypeOK /\ WithinList  BY DEF OInv, IInv
<1>1. /\ written \in Seq(Nat) /\ buffers \in Seq(Buffer) /\ current \in Buffer /\ n \in Nat
      /\ <<>> \in Seq(Buffer) /\ 1 .. n \in SUBSET Nat
  BY <1>0 DEF TypeOK
<1>2. Batch = <<>>
  <2>1. i = Len(toWrite) /\ i \in 0 .. Len(toWrite) /\ toWrite \in Seq(Buffer)
    BY <1>0 DEF TypeOK
  <2> QED  BY <2>1, BatchType DEF Batch
<1>3. /\ Parts(written, <<>>, buffers, current)
      /\ AllOf(written, <<>>, buffers, current) = (1 .. n) \ lost
      /\ lost \subseteq 1 .. n
  BY <1>2 DEF OInv, Ordered
<1>4. PICK C \in Seq(Buffer) : C = AddTail(current)  BY <1>0, <1>1, AddTailIn
<1>5. /\ toWrite' = C /\ lost' = LostWith(current)
      /\ buffers' = <<>> /\ current' = Empty /\ i' = 0
      /\ n' = n /\ written' = written
  BY <1>4 DEF Swap, LostWith
<1>6. PICK B \in Seq(Buffer) : B = <<>>  BY <1>1
<1>7. /\ Parts(written, B, C, Empty)
      /\ AllOf(written, B, C, Empty) = (1 .. n) \ lost'
      /\ lost' \subseteq 1 .. n
  <2>1. /\ Parts(written, B, AddTail(current), Empty)
        /\ AllOf(written, B, AddTail(current), Empty) = (1 .. n) \ LostWith(current)
        /\ LostWith(current) \subseteq 1 .. n
    BY <1>0, <1>1, <1>3, <1>6, AddTailOrder
  <2> QED  BY <1>4, <1>5, <2>1
<1>8. /\ Parts(written, C, <<>>, Empty)
      /\ AllOf(written, C, <<>>, Empty) = (1 .. n) \ lost'
  BY <1>1, <1>6, <1>7, TakeKeeps
<1>9. Batch' = C
  <2>1. SubSeq(C, 1, Len(C)) = C  BY SubSeqFull
  <2>2. Batch' = SubSeq(toWrite', i' + 1, Len(toWrite'))  BY DEF Batch
  <2>3. i' + 1 = 1  BY <1>5
  <2> QED  BY <1>5, <2>1, <2>2, <2>3
<1> QED  BY <1>5, <1>7, <1>8, <1>9 DEF Ordered

\* The buffers freed are the last ones of the batch.
LEMMA DropOrder == ASSUME OInv, Drop PROVE Ordered'
<1> USE AsyncAssumption
<1>0. TypeOK /\ Spares  BY DEF OInv, IInv
<1>1. /\ written \in Seq(Nat) /\ buffers \in Seq(Buffer) /\ current \in Buffer /\ n \in Nat
      /\ toWrite \in Seq(Buffer) /\ Len(toWrite) \in Nat
  BY <1>0 DEF TypeOK
<1>2. i = 0 /\ i' = 0 /\ UNCHANGED <<n, written, buffers, current>>
  BY <1>0 DEF Drop, At, Spares, shared
<1>3. Batch = toWrite
  <2>1. i \in 0 .. Len(toWrite)  BY <1>0 DEF TypeOK
  <2> QED  BY <1>1, <1>2, <2>1, BatchType DEF Batch
<1>4. CASE Len(toWrite) > MAXBUFFER
  <2>1. /\ toWrite' = SubSeq(toWrite, 1, 2)
        /\ lost' = lost \union UNION {Ids(toWrite[k]) : k \in 3 .. Len(toWrite)}
    BY <1>4 DEF Drop
  <2>2. Len(toWrite) >= 3 /\ 2 \in 0 .. Len(toWrite)  BY <1>1, <1>4
  <2>3. PICK D : D = SubSeq(toWrite, 3, Len(toWrite))  OBVIOUS
  <2>4. /\ D \in Seq(Buffer) /\ Len(D) = Len(toWrite) - 2
        /\ \A k \in 1 .. Len(toWrite) - 2 : D[k] = toWrite[k + 2]
    BY <1>1, <2>2, <2>3
  <2>5. PICK B : B = SubSeq(toWrite, 1, 2)  OBVIOUS
  <2>6. B \in Seq(Buffer) /\ Len(B) = 2  BY <1>1, <2>2, <2>5
  <2>7. toWrite = B \o D
    <3>1. /\ 1 \in 1 .. Len(toWrite) + 1 /\ 2 \in (1 - 1) .. Len(toWrite)
          /\ Len(toWrite) \in 2 .. Len(toWrite)
      BY <1>1, <2>2
    <3>2. SubSeq(toWrite, 1, 2) \o SubSeq(toWrite, 2 + 1, Len(toWrite))
            = SubSeq(toWrite, 1, Len(toWrite))
      <4>1. \A a, b, c : /\ a \in 1 .. Len(toWrite) + 1 /\ b \in (a - 1) .. Len(toWrite)
                         /\ c \in b .. Len(toWrite)
              => SubSeq(toWrite, a, b) \o SubSeq(toWrite, b + 1, c) = SubSeq(toWrite, a, c)
        BY <1>1, ConcatAdjacentSubSeq
      <4> QED  BY <3>1, <4>1
    <3>3. 2 + 1 = 3  OBVIOUS
    <3> QED  BY <1>1, <2>3, <2>5, <3>2, <3>3, SubSeqFull
  <2>8. Held(D) = UNION {Ids(toWrite[k]) : k \in 3 .. Len(toWrite)}
    <3>1. ASSUME NEW m \in Held(D)
          PROVE  m \in UNION {Ids(toWrite[k]) : k \in 3 .. Len(toWrite)}
      <4>1. PICK k \in 1 .. Len(D) : m \in Ids(D[k])  BY <3>1 DEF Held
      <4>2. k + 2 \in 3 .. Len(toWrite) /\ m \in Ids(toWrite[k + 2])
        BY <1>1, <2>4, <4>1
      <4> QED  BY <4>2
    <3>2. ASSUME NEW k \in 3 .. Len(toWrite), NEW m \in Ids(toWrite[k]) PROVE m \in Held(D)
      <4>1. k - 2 \in 1 .. Len(D) /\ k - 2 \in 1 .. Len(toWrite) - 2 /\ (k - 2) + 2 = k
        BY <1>1, <2>4, <3>2
      <4>2. m \in Ids(D[k - 2])  BY <2>4, <3>2, <4>1
      <4> QED  BY <4>1, <4>2 DEF Held
    <3> QED  BY <3>1, <3>2
  <2>9. /\ Parts(written, B \o D, buffers, current)
        /\ AllOf(written, B \o D, buffers, current) = (1 .. n) \ lost
        /\ lost \subseteq 1 .. n
    BY <1>3, <2>7 DEF OInv, Ordered
  <2>10. AllOf(written, B \o D, buffers, current) \subseteq Nat  BY <1>1, <2>9
  <2>11. /\ Parts(written, B, buffers, current)
         /\ AllOf(written, B, buffers, current)
              = AllOf(written, B \o D, buffers, current) \ Held(D)
    BY <1>1, <2>4, <2>6, <2>9, <2>10, CutKeeps
  <2>12. Held(D) \subseteq (1 .. n)
    <3>1. Held(B \o D) = Held(B) \union Held(D)  BY <2>4, <2>6, HeldBoth
    <3> QED  BY <2>9, <3>1 DEF AllOf
  <2>13. Batch' = B
    <3>1. SubSeq(B, 1, Len(B)) = B  BY <2>6, SubSeqFull
    <3>2. Batch' = SubSeq(toWrite', i' + 1, Len(toWrite'))  BY DEF Batch
    <3>3. i' + 1 = 1  BY <1>2
    <3> QED  BY <2>1, <2>5, <3>1, <3>2, <3>3
  <2>14. lost' = lost \union Held(D)  BY <2>1, <2>8
  <2>15. ((1 .. n) \ lost) \ Held(D) = (1 .. n) \ lost'  BY <2>14
  <2>16. lost' \subseteq 1 .. n  BY <2>9, <2>12, <2>14
  <2> QED  BY <1>2, <2>9, <2>11, <2>13, <2>15, <2>16 DEF Ordered
<1>5. CASE ~(Len(toWrite) > MAXBUFFER)
  <2>1. toWrite' = toWrite /\ lost' = lost  BY <1>5 DEF Drop
  <2>2. Batch' = Batch  BY <1>2, <2>1 DEF Batch
  <2> QED  BY <1>2, <2>1, <2>2 DEF OInv, Ordered
<1> QED  BY <1>4, <1>5

\* The first of the batch is the next to be processed.
LEMMA WriteOrder == ASSUME OInv, Write PROVE Ordered'
<1>0. TypeOK  BY DEF OInv, IInv
<1>1. /\ written \in Seq(Nat) /\ buffers \in Seq(Buffer) /\ current \in Buffer
      /\ toWrite \in Seq(Buffer) /\ i \in 0 .. Len(toWrite) /\ Len(toWrite) \in Nat
  BY <1>0 DEF TypeOK
<1>2. /\ i < Len(toWrite) /\ written' = written \o toWrite[i + 1].msgs /\ i' = i + 1
      /\ UNCHANGED <<n, lost, toWrite, buffers, current>>
  BY DEF Write, shared
<1>3. PICK b \in Buffer : b = toWrite[i + 1]  BY <1>1, <1>2
<1>4. PICK B \in Seq(Buffer) : B = SubSeq(toWrite, i + 2, Len(toWrite))
  BY <1>1, <1>2, BatchType
<1>5. Batch = <<b>> \o B  BY <1>1, <1>2, <1>3, <1>4, BatchType DEF Batch
<1>6. Batch' = B
  <2>1. Batch' = SubSeq(toWrite', i' + 1, Len(toWrite'))  BY DEF Batch
  <2>2. i' + 1 = i + 2  BY <1>1, <1>2
  <2> QED  BY <1>2, <1>4, <2>1, <2>2
<1>7. /\ Parts(written, <<b>> \o B, buffers, current)
      /\ AllOf(written, <<b>> \o B, buffers, current) = (1 .. n) \ lost
      /\ lost \subseteq 1 .. n
  BY <1>5 DEF OInv, Ordered
<1>8. /\ Parts(written \o b.msgs, B, buffers, current)
      /\ AllOf(written \o b.msgs, B, buffers, current)
           = AllOf(written, <<b>> \o B, buffers, current)
  BY <1>1, <1>7, ProcessKeeps
<1>9. written' = written \o b.msgs  BY <1>2, <1>3
<1> QED  BY <1>2, <1>6, <1>7, <1>8, <1>9 DEF Ordered

\* A step preserves the order.
LEMMA NextOrder == ASSUME OInv, [Next]_vars PROVE Ordered'
<1> USE AsyncAssumption
<1>0. TypeOK /\ Spares /\ Ordered  BY DEF OInv, IInv
<1>a. ASSUME UNCHANGED <<n, written, lost, buffers, current, i, toWrite>> PROVE Ordered'
  <2>1. Batch' = Batch  BY <1>a DEF Batch
  <2> QED  BY <1>0, <1>a, <2>1 DEF Ordered
<1>1. CASE Top
  BY <1>1, <1>a DEF Top, shared, local
<1>2. CASE Enter
  <2>1. CASE buffers = <<>>
    BY <1>2, <2>1, <1>a DEF Enter, local
  <2>2. CASE buffers # <<>>
    <3>1. Swap /\ toWrite = <<>> /\ UNCHANGED <<n, written>>
      BY <1>0, <1>2, <2>2 DEF Enter, At, Spares
    <3> QED  BY <3>1, SwapOrder
  <2> QED  BY <2>1, <2>2
<1>3. CASE Wake
  <2>1. Swap /\ toWrite = <<>> /\ UNCHANGED <<n, written>>
    BY <1>0, <1>3 DEF Wake, At, Spares
  <2> QED  BY <2>1, SwapOrder
<1>4. CASE Drop  BY <1>4, DropOrder
<1>5. CASE Write  BY <1>5, WriteOrder
<1>6. CASE Recycle
  <2>1. /\ i = Len(toWrite) /\ toWrite' = <<>> /\ i' = 0
        /\ UNCHANGED <<n, written, lost, buffers, current>>
    BY <1>6 DEF Recycle, shared
  <2>2. toWrite \in Seq(Buffer) /\ i \in 0 .. Len(toWrite)  BY <1>0 DEF TypeOK
  <2>3. Batch = <<>>  BY <2>1, <2>2, BatchType DEF Batch
  <2>4. Batch' = <<>>
    <3>1. Batch' = SubSeq(<<>>, 0 + 1, Len(<<>>))  BY <2>1 DEF Batch
    <3>2. <<>> \in Seq(Buffer) /\ 0 \in 0 .. Len(<<>>)  OBVIOUS
    <3> QED  BY <3>1, <3>2, BatchType
  <2> QED  BY <1>0, <2>1, <2>3, <2>4 DEF Ordered
<1>7. CASE Appends
  BY <1>7, AppendOrder, AppendKinds
<1>8. CASE Stops
  BY <1>8, <1>a DEF Stops, StopClear, StopNotify, StopJoin, shared, local
<1>9. CASE UNCHANGED vars
  BY <1>9, <1>a DEF vars, shared, local
<1> QED
  BY <1>1, <1>2, <1>3, <1>4, <1>5, <1>6, <1>7, <1>8, <1>9, ThreadRounds
     DEF Next, Round

\* Nothing is on its way in the beginning.
LEMMA InitOrder == Init => Ordered
<1> SUFFICES ASSUME Init PROVE Ordered  OBVIOUS
<1>1. /\ written = <<>> /\ toWrite = <<>> /\ i = 0 /\ buffers = <<>> /\ current = Empty
      /\ n = 0 /\ lost = {}
  BY DEF Init
<1>2. Batch = <<>>
  <2>1. Batch = SubSeq(<<>>, 0 + 1, Len(<<>>))  BY <1>1 DEF Batch
  <2>2. <<>> \in Seq(Buffer) /\ 0 \in 0 .. Len(<<>>)  OBVIOUS
  <2> QED  BY <2>1, <2>2, BatchType
<1>3. Elems(<<>>) = {} /\ Increasing(<<>>)  BY DEF Elems, Increasing
<1>4. Parts(<<>>, <<>>, <<>>, Empty)  BY <1>3, GoodNone DEF Parts, Before
<1>5. AllOf(<<>>, <<>>, <<>>, Empty) = {}  BY <1>3, GoodNone DEF AllOf
<1>6. 1 .. 0 = {}  OBVIOUS
<1> QED  BY <1>1, <1>2, <1>4, <1>5, <1>6 DEF Ordered

\* Messages are processed once and in the order of their appends, whatever their
\* lengths and however appends, batches and a stop interleave; only the rules
\* for full lists (alignflexbuffer_add_tail, lines 220 to 226, and
\* async_proc_threadFunc, lines 100 to 103) lose any.
THEOREM MessagesInOrder == Spec => []InOrder
<1>1. Init => OInv  BY InitIInv, InitOrder DEF OInv
<1>2. OInv /\ [Next]_vars => OInv'  BY NextIInv, NextOrder DEF OInv
<1>3. OInv => InOrder  BY OrderedInOrder DEF OInv, IInv
<1> QED  BY <1>1, <1>2, <1>3, PTL DEF Spec
=============================================================================
