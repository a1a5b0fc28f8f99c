----------------------------- MODULE SessionHeap ------------------------------
(***************************************************************************)
(* db/mongodb of leaf: goroutines share a fixed number of sessions, of     *)
(* which Ref gives out one that the fewest use.  The sessions are a heap   *)
(* by their reference counts, and a session knows its place in it.         *)
(***************************************************************************)
EXTENDS Integers, FiniteSetsExt

CONSTANTS Goroutines, SessionNum, MaxHeld

VARIABLES
  heap,            \* DialContext.sessions, from index 0
  ref, index,      \* of each session
  held,            \* of each goroutine, how often it holds each session
  counter,         \* the document EnsureCounter inserts: its seq, or -1
  seqs,            \* the numbers NextSeq has returned
  fault            \* what must not happen: a session refreshed in use, a busy one given

vars == <<heap, ref, index, held, counter, seqs, fault>>

Sessions == 0 .. SessionNum - 1
Missing == -1

\* DialWithTimeout; heap.Init moves nothing when all counts are 0.
Init ==
  /\ heap = [i \in Sessions |-> i]
  /\ ref = [s \in Sessions |-> 0]
  /\ index = [s \in Sessions |-> s]
  /\ held = [g \in Goroutines |-> [s \in Sessions |-> 0]]
  /\ counter = Missing /\ seqs = {} /\ fault = FALSE

\* SessionHeap.Less and Swap, of a heap p.h with the indexes p.n and the counts r.
Less(p, r, i, j) == r[p.h[i]] < r[p.h[j]]

Swap(p, i, j) ==
  [h |-> [p.h EXCEPT ![i] = p.h[j], ![j] = p.h[i]],
   n |-> [p.n EXCEPT ![p.h[i]] = j, ![p.h[j]] = i]]

\* container/heap: down and up from a place, and Fix, which tries both.
Child(p, r, i) ==
  IF 2 * i + 2 < SessionNum /\ Less(p, r, 2 * i + 2, 2 * i + 1) THEN 2 * i + 2 ELSE 2 * i + 1

RECURSIVE Down(_, _, _), Up(_, _, _)
Down(p, r, i) ==
  IF 2 * i + 1 >= SessionNum \/ ~Less(p, r, Child(p, r, i), i) THEN p
  ELSE Down(Swap(p, i, Child(p, r, i)), r, Child(p, r, i))

Up(p, r, j) ==
  IF j = 0 \/ ~Less(p, r, j, (j - 1) \div 2) THEN p
  ELSE Up(Swap(p, j, (j - 1) \div 2), r, (j - 1) \div 2)

Fix(r, i) ==
  LET p == [h |-> heap, n |-> index]
      d == Down(p, r, i)
  IN  IF d # p THEN d ELSE Up(p, r, i)

Fixed(r, i) == ref' = r /\ heap' = Fix(r, i).h /\ index' = Fix(r, i).n

Held(s) == MapThenSumSet(LAMBDA g : held[g][s], Goroutines)

-----------------------------------------------------------------------------
\* Ref: the session in front, refreshed when it is in nobody's hands.
Ref(g) ==
  /\ MapThenSumSet(LAMBDA s : held[g][s], Sessions) < MaxHeld
  /\ LET s == heap[0]
     IN  /\ Fixed([ref EXCEPT ![s] = @ + 1], 0)
         /\ held' = [held EXCEPT ![g][s] = @ + 1]
         /\ fault' = (fault \/ (ref[s] = 0 /\ Held(s) > 0) \/ \E x \in Sessions : Held(x) < Held(s))
  /\ UNCHANGED <<counter, seqs>>

Return(g, s) ==
  /\ held[g][s] > 0
  /\ Fixed([ref EXCEPT ![s] = @ - 1], index[s])
  /\ held' = [held EXCEPT ![g][s] = @ - 1]
  /\ UNCHANGED fault

UnRef(g, s) == Return(g, s) /\ UNCHANGED <<counter, seqs>>

\* EnsureCounter and NextSeq on the session that was given, which is returned whatever the
\* server answers.
EnsureCounter(g, s) ==
  /\ Return(g, s)
  /\ counter' = IF counter = Missing THEN 0 ELSE counter
  /\ UNCHANGED seqs

NextSeq(g, s) ==
  /\ Return(g, s)
  /\ counter < MaxHeld
  /\ IF counter = Missing THEN UNCHANGED <<counter, seqs>>
     ELSE counter' = counter + 1 /\ seqs' = seqs \cup {counter + 1}

Next ==
  \E g \in Goroutines :
    \/ Ref(g)
    \/ \E s \in Sessions : UnRef(g, s) \/ EnsureCounter(g, s) \/ NextSeq(g, s)

Spec == Init /\ [][Next]_vars

-----------------------------------------------------------------------------
\* A session's count is the number of its users and its index is its place, however the
\* heap was changed between; so Ref gives a session that the fewest use, and refreshes none
\* that is in use.
SessionsShared ==
  /\ \A s \in Sessions : ref[s] = Held(s) /\ heap[index[s]] = s
  /\ ~fault
=============================================================================
