------------------------------- MODULE Signals -------------------------------
(***************************************************************************)
(* SignalSlot.h, mydelegate.h and its version with addonce: threads notify *)
(* observers from a list that other threads, and the observers themselves, *)
(* change meanwhile.  Whoever notifies takes a shared pointer to the list  *)
(* and walks it without the lock; whoever changes it makes a copy first if *)
(* the pointer is shared.                                                  *)
(*                                                                         *)
(* A section under the lock is one action.  An observer that is called may *)
(* do what any thread may, but notify.  Observers of SignalSlot live as    *)
(* long as somebody has their Slot or calls them, and the list has weak    *)
(* pointers to them.                                                       *)
(***************************************************************************)
EXTENDS Naturals, Sequences, SequencesExt, FiniteSets

CONSTANTS Notifiers,   \* threads
          Observers    \* from 1, in the order in which they are added

\* slots_, observers and once_observers: a list of its own each
Kinds == {"signal", "delegate", "once"}
Lists == 1 .. Cardinality(Notifiers) + 1   \* objects the shared pointers point to

VARIABLES
  kind,
  lists,   \* of a list: its observers in order
  cur,     \* slots_, observers or once_observers
  obs,     \* of a thread in a notification: its list, or 0
  pos,     \* where it is in it: the place, or 0 before the first
  calling, \* the observer it calls, or None
  added,   \* observers that were connected or added so far
  live,    \* observers connected (somebody has the Slot), or not removed
  untied,  \* of SignalSlot: the object their slot was tied to is destroyed
  dying,   \* of SignalSlot: destroyed, but clean has not run yet
  calls,   \* of a thread: the observers called in this notification, in order
  was,     \* of a thread: the observers that were live when it took the list
  gone,    \* of a thread: those that it must not call any more
  total,   \* of an observer of addonce: how often it was called
  overlap  \* two notifications that do not clear the list ran at the same time

vars == <<kind, lists, cur, obs, pos, calling, added, live, untied, dying, calls, was,
          gone, total, overlap>>
walk == <<obs, pos, calling, calls, was, gone, total, overlap>>

None == 0

Init ==
  /\ kind \in Kinds
  /\ lists = [l \in Lists |-> <<>>] /\ cur = 1
  /\ obs = [t \in Notifiers |-> 0] /\ pos = [t \in Notifiers |-> 0]
  /\ calling = [t \in Notifiers |-> None]
  /\ added = {} /\ live = {} /\ untied = {} /\ dying = {}
  /\ calls = [t \in Notifiers |-> <<>>] /\ was = [t \in Notifiers |-> {}]
  /\ gone = [t \in Notifiers |-> {}]
  /\ total = [o \in Observers |-> 0] /\ overlap = FALSE

\* A thread is outside of a notification or in an observer's function.
Free(t) == obs[t] = 0 \/ calling[t] # None

Unique == \A t \in Notifiers : obs[t] # cur
Other == CHOOSE l \in Lists : l # cur /\ \A t \in Notifiers : obs[t] # l

\* Mutant: the list is changed in place.
CopyOnWrite_InPlace(f) == lists' = [lists EXCEPT ![cur] = f] /\ UNCHANGED cur

\* copyOnWrite, and use_count() != 1 in add and remove: the new list is f
CopyOnWrite(f) ==
  IF Unique
  THEN lists' = [lists EXCEPT ![cur] = f] /\ UNCHANGED cur
  ELSE lists' = [lists EXCEPT ![Other] = f] /\ cur' = Other

\* The next observer of the program
New(o) ==
  /\ o \notin added /\ \A x \in Observers \ added : o =< x
  /\ added' = added \cup {o} /\ live' = live \cup {o}

\* Signal::add
PushBack(o) == CopyOnWrite(Append(lists[cur], o))

\* Signal::connect: whether the slot is tied to an object is seen when that is destroyed
Connect(t, o) ==
  /\ kind = "signal" /\ Free(t) /\ New(o) /\ PushBack(o)
  /\ UNCHANGED <<kind, untied, dying, walk>>

\* mydelegate::add
Add(t, o) ==
  /\ kind = "delegate" /\ Free(t) /\ New(o)
  /\ CopyOnWrite(Append(lists[cur], o))
  /\ UNCHANGED <<kind, untied, dying, walk>>

\* addonce: a list that a notification walks is left to it, with a new one begun
AddOnce(t, o) ==
  /\ kind = "once" /\ Free(t) /\ New(o)
  /\ CopyOnWrite(IF Unique THEN Append(lists[cur], o) ELSE <<o>>)
  /\ UNCHANGED <<kind, untied, dying, walk>>

\* mydelegate::remove
RemoveId(t, o) ==
  /\ kind = "delegate" /\ Free(t) /\ o \in live
  /\ live' = live \ {o}
  /\ CopyOnWrite(Remove(lists[cur], o))
  /\ UNCHANGED <<kind, added, untied, dying, walk>>

\* remove, with the even number of an observer of addonce
RemoveOnce(t, o) ==
  /\ kind = "once" /\ Free(t) /\ o \in live
  /\ live' = live \ {o}
  /\ CopyOnWrite(IF Unique THEN Remove(lists[cur], o) ELSE <<>>)
  /\ UNCHANGED <<kind, added, untied, dying, walk>>

Called(o) == \E t \in Notifiers : calling[t] = o

\* The last Slot of an observer is given up; if nobody calls it, it is destroyed.
Drop(t, o) ==
  /\ kind = "signal" /\ Free(t) /\ o \in live
  /\ live' = live \ {o}
  /\ dying' = IF Called(o) THEN dying ELSE dying \cup {o}
  /\ UNCHANGED <<kind, lists, cur, added, untied, walk>>

\* The object that connect tied a slot to is destroyed, outside of the slot's function.
Untie(t, o) ==
  /\ kind = "signal" /\ Free(t) /\ o \in live \ untied /\ ~Called(o)
  /\ untied' = untied \cup {o}
  /\ UNCHANGED <<kind, lists, cur, added, live, dying, walk>>

\* ~SlotImpl: clean
Expired(o) == o \notin live /\ ~Called(o)
Clean(o) ==
  /\ o \in dying
  /\ CopyOnWrite(SelectSeq(lists[cur], LAMBDA x : ~Expired(x)))
  /\ dying' = dying \ {o}
  /\ UNCHANGED <<kind, added, live, untied, walk>>

-----------------------------------------------------------------------------
\* Under the lock slots_ or observers is copied to a pointer of the caller's.
Take(t) == obs' = [obs EXCEPT ![t] = cur] /\ pos' = [pos EXCEPT ![t] = 0]

\* Signal::call and notifyAll: the pointer is taken, and with it, in notifyAll of one
\* argument, the once_observers
Begin(t, takes) ==
  /\ obs[t] = 0 /\ (takes => kind = "once")
  /\ Take(t)
  /\ calls' = [calls EXCEPT ![t] = <<>>] /\ was' = [was EXCEPT ![t] = live]
  /\ gone' = [gone EXCEPT ![t] =
               untied \cup {o \in added \ live : kind = "signal" => ~Called(o)}]
  /\ IF takes
     THEN lists' = [lists EXCEPT ![Other] = <<>>] /\ cur' = Other
     ELSE UNCHANGED <<lists, cur>>
  /\ overlap' = (overlap \/ (kind = "once" /\ ~Unique))
  /\ UNCHANGED <<kind, calling, added, live, untied, dying, total>>

\* The next observer of the list: lock() of its weak pointer, or of the one to the object
\* it is tied to, may find none
Walk(t) ==
  /\ obs[t] # 0 /\ calling[t] = None /\ pos[t] < Len(lists[obs[t]])
  /\ LET o == lists[obs[t]][pos[t] + 1]
     IN IF kind = "signal" /\ (Expired(o) \/ o \in untied)
        THEN UNCHANGED <<calling, calls, total>>
        ELSE /\ calling' = [calling EXCEPT ![t] = o]
             /\ calls' = [calls EXCEPT ![t] = Append(@, o)]
             /\ total' = [total EXCEPT ![o] = IF kind = "once" THEN @ + 1 ELSE @]
  /\ pos' = [pos EXCEPT ![t] = @ + 1]
  /\ UNCHANGED <<kind, lists, cur, obs, added, live, untied, dying, was, gone, overlap>>

\* ~SlotImpl is called when the caller has the last pointer to the slot.
Dies(t, o) == kind = "signal" /\ o \notin live /\ \A u \in Notifiers \ {t} : calling[u] # o

\* The observer's function returns.  once_observers are erased, and an observer that
\* only this thread kept alive is destroyed.
Return(t) ==
  /\ calling[t] # None
  /\ LET o == calling[t]
     IN /\ calling' = [calling EXCEPT ![t] = None]
        /\ dying' = dying \cup {x \in {o} : Dies(t, x)}
        /\ IF kind = "once"
           THEN /\ lists' = [lists EXCEPT ![obs[t]] = Remove(@, o)]
                /\ pos' = [pos EXCEPT ![t] = 0]
           ELSE UNCHANGED <<lists, pos>>
  /\ UNCHANGED <<kind, cur, obs, added, live, untied, calls, was, gone, total, overlap>>

AtEnd(t) == obs[t] # 0 /\ calling[t] = None /\ pos[t] = Len(lists[obs[t]])

End(t) ==
  /\ AtEnd(t)
  /\ obs' = [obs EXCEPT ![t] = 0] /\ pos' = [pos EXCEPT ![t] = 0]
  /\ lists' = IF obs[t] # cur /\ \A u \in Notifiers \ {t} : obs[u] # obs[t]
              THEN [lists EXCEPT ![obs[t]] = <<>>] ELSE lists
  /\ calls' = [calls EXCEPT ![t] = <<>>] /\ was' = [was EXCEPT ![t] = {}]
  /\ gone' = [gone EXCEPT ![t] = {}]
  /\ UNCHANGED <<kind, cur, calling, added, live, untied, dying, total, overlap>>

Next ==
  \/ \E t \in Notifiers :
       \/ \E o \in Observers : \/ Connect(t, o) \/ Drop(t, o) \/ Untie(t, o)
                              \/ Add(t, o) \/ RemoveId(t, o)
                              \/ AddOnce(t, o) \/ RemoveOnce(t, o)
       \/ \E takes \in BOOLEAN : Begin(t, takes)
       \/ Walk(t) \/ Return(t) \/ End(t)
  \/ \E o \in Observers : Clean(o)

-----------------------------------------------------------------------------
\* A notification calls nobody twice, nobody who was removed, or given up and not called
\* just then, before it began, and, before it ends, everybody who was connected all the
\* time, although others come and go and the list is copied under it.  An observer of
\* addonce waits for a notification until it was called or removed, and is called once,
\* unless two calls of notifyAll without or with two arguments, which leave the list in its
\* place, run at the same time.
NotifiedOnce ==
  /\ kind # "once" =>
       \A t \in Notifiers :
         /\ IsInjective(calls[t]) /\ ToSet(calls[t]) \cap gone[t] = {}
         /\ AtEnd(t) => (was[t] \cap live) \ untied \subseteq ToSet(calls[t])
  /\ kind = "once" =>
       /\ \A o \in live : total[o] = 0 =>
            \E l \in ({cur} \cup {obs[t] : t \in Notifiers}) \ {0} : o \in ToSet(lists[l])
       /\ overlap \/ \A o \in Observers : total[o] =< 1
=============================================================================
