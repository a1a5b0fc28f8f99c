------------------------------- MODULE ListHead -------------------------------
(***************************************************************************)
(* The lists of stlc_list.h, pointer by pointer: the rings of              *)
(* stlc_list_head and the hash chains of stlc_hlist_head, with the loops   *)
(* that walk them while their bodies change the list.                      *)
(***************************************************************************)
EXTENDS Naturals, Sequences, SequencesExt, Functions, TLC

CONSTANTS Nodes, Heads, NULL, POISON

VARIABLES
  type,            \* "ring" or "chain", the lists a behaviour uses
  next, prev,      \* of a ring; in a chain next only, and a head's is its first
  pprev,           \* of a chain: the node or head whose next points here
  order,           \* what each head should list, as a sequence
  walk             \* the loop that runs

vars == <<type, next, prev, pprev, order, walk>>

All == Nodes \cup Heads
NoWalk == [kind |-> "none"]

\* STLC_INIT_LIST_HEAD of the heads; nodes come zeroed from calloc.
Init ==
  /\ type \in {"ring", "chain"}
  /\ next = [x \in All |-> IF x \in Heads /\ type = "ring" THEN x ELSE NULL]
  /\ prev = next
  /\ pprev = [x \in Nodes |-> NULL]
  /\ order = [h \in Heads |-> <<>>]
  /\ walk = NoWalk

-----------------------------------------------------------------------------
\* What the program knows: where an entry is.
HomeOf(x) == IF x \in DOMAIN order THEN x ELSE CHOOSE h \in DOMAIN order : Contains(order[h], x)
Entry(x) == \E h \in DOMAIN order : Contains(order[h], x)
Listed(x) == x \in DOMAIN order \/ Entry(x)
After(s, x, e) == LET i == IF Contains(s, x) THEN CHOOSE k \in DOMAIN s : s[k] = x ELSE 0
                  IN  SubSeq(s, 1, i) \o <<e>> \o SubSeq(s, i + 1, Len(s))
Before(s, x, e) == Reverse(After(Reverse(s), x, e))
Without(e) == [h \in DOMAIN order |-> Remove(order[h], e)]

\* A loop forbids its body to unlink the entry it goes to next: the current one of a plain
\* loop, the one saved in n of a _safe loop.
MayUnlink(e) ==
  CASE walk.kind = "plain" -> e # walk.pos
    [] walk.kind = "safe"  -> e # walk.n
    [] OTHER -> TRUE

\* A loop over the list expects an entry no longer once it was unlinked.
Forget(e) ==
  walk' = IF walk.kind = "none" THEN walk
          ELSE [walk EXCEPT !.stay = @ \ {e}, !.seen = @ \ {e}, !.twice = @ \ {e}]

-----------------------------------------------------------------------------
\* Rings.  An operation is a function from pointers to pointers.
Add(p, e, before, after) ==
  [n |-> [p.n EXCEPT ![e] = after, ![before] = e], p |-> [p.p EXCEPT ![after] = e, ![e] = before]]

\* __stlc_list_del: two writes, which meet in one entry when the list has no other.
Del(p, before, after) == [n |-> [p.n EXCEPT ![before] = after], p |-> [p.p EXCEPT ![after] = before]]

\* STLC_INIT_LIST_HEAD.
Empty(p, x) == [n |-> [p.n EXCEPT ![x] = x], p |-> [p.p EXCEPT ![x] = x]]

Here == [n |-> next, p |-> prev]
Link(p) == next' = p.n /\ prev' = p.p

\* stlc_list_add after x, which may be a head or any entry.
ListAdd(e, x) ==
  /\ type = "ring" /\ ~Listed(e) /\ Listed(x)
  /\ Link(Add(Here, e, x, next[x]))
  /\ order' = [order EXCEPT ![HomeOf(x)] = After(@, x, e)]
  /\ UNCHANGED <<type, pprev, walk>>

\* stlc_list_add_tail and stlc_list_add_prev.
ListAddTail(e, x) ==
  /\ type = "ring" /\ ~Listed(e) /\ Listed(x)
  /\ Link(Add(Here, e, prev[x], x))
  /\ order' = [order EXCEPT ![HomeOf(x)] = Before(@, x, e)]
  /\ UNCHANGED <<type, pprev, walk>>

\* stlc_list_del, stlc_list_del_only and stlc_list_del_init differ in what the entry keeps.
ListDel(e, how) ==
  /\ type = "ring" /\ Entry(e)
  /\ MayUnlink(e)
  /\ LET p == Del(Here, prev[e], next[e])
     IN  Link(CASE how = "del"  -> [n |-> [p.n EXCEPT ![e] = NULL], p |-> [p.p EXCEPT ![e] = NULL]]
                [] how = "only" -> p
                [] how = "init" -> Empty(p, e))
  /\ order' = Without(e)
  /\ Forget(e)
  /\ UNCHANGED <<type, pprev>>

\* stlc_list_replace and stlc_list_replace_init, of an entry.
ListReplace(old, e, init) ==
  /\ type = "ring" /\ Entry(old)
  /\ ~Listed(e) /\ MayUnlink(old)
  /\ LET n1 == [next EXCEPT ![e] = next[old]]
         p1 == [prev EXCEPT ![n1[e]] = e, ![e] = prev[old]]
         p  == [n |-> [n1 EXCEPT ![p1[e]] = e], p |-> p1]
     IN  Link(IF init THEN Empty(p, old) ELSE p)
  /\ order' = [order EXCEPT ![HomeOf(old)] = [i \in DOMAIN @ |-> IF @[i] = old THEN e ELSE @[i]]]
  /\ Forget(old)
  /\ UNCHANGED <<type, pprev>>

\* stlc_list_move and stlc_list_move_tail, to another list or within one.
ListMove(e, x, tail) ==
  /\ type = "ring" /\ Entry(e)
  /\ x \in DOMAIN order /\ MayUnlink(e)
  /\ LET p == Del(Here, prev[e], next[e])
     IN  Link(IF tail THEN Add(p, e, p.p[x], x) ELSE Add(p, e, x, p.n[x]))
  /\ order' = [Without(e) EXCEPT ![x] = IF tail THEN Append(@, e) ELSE <<e>> \o @]
  /\ Forget(e)
  /\ UNCHANGED <<type, pprev>>

\* stlc_list_break: the entries from e on become a ring of which e is the head.
ListBreak(h, e) ==
  /\ type = "ring" /\ walk.kind = "none"
  /\ h \in DOMAIN order /\ Contains(order[h], e)
  /\ LET n1 == [next EXCEPT ![prev[e]] = h]
     IN  /\ next' = [n1 EXCEPT ![prev[h]] = e]
         /\ prev' = [prev EXCEPT ![e] = prev[h], ![h] = prev[e]]
  /\ LET i == CHOOSE k \in DOMAIN order[h] : order[h][k] = e
     IN  order' = (e :> SubSeq(order[h], i + 1, Len(order[h])))
                    @@ [order EXCEPT ![h] = SubSeq(@, 1, i - 1)]
  /\ UNCHANGED <<type, pprev, walk>>

\* stlc_list_splice and stlc_list_splice_init at the front of h.  A ring that was broken
\* off is spliced without the entry it began with.
Splice(l, h) ==
  [n |-> [next EXCEPT ![h] = next[l], ![prev[l]] = next[h]],
   p |-> [prev EXCEPT ![next[l]] = h, ![next[h]] = prev[l]]]

ListSplice(l, h, init) ==
  /\ type = "ring" /\ walk.kind = "none"
  /\ l # h /\ {l, h} \subseteq DOMAIN order
  /\ next[l] # l
  /\ Link(IF init THEN Empty(Splice(l, h), l) ELSE Splice(l, h))
  /\ order' = LET spliced == [order EXCEPT ![h] = order[l] \o @, ![l] = <<>>]
              IN  IF init THEN spliced ELSE [x \in DOMAIN order \ {l} |-> spliced[x]]
  /\ UNCHANGED <<type, pprev, walk>>

\* A list that was spliced without init is no list before STLC_INIT_LIST_HEAD.
InitHead(h) ==
  /\ h \notin DOMAIN order
  /\ Link(Empty(Here, h))
  /\ order' = (h :> <<>>) @@ order
  /\ UNCHANGED <<type, pprev, walk>>

\* A head of a broken ring that is alone is an ordinary entry again.
Rejoin(e) ==
  /\ e \in Nodes \cap DOMAIN order /\ order[e] = <<>>
  /\ order' = [h \in DOMAIN order \ {e} |-> order[h]]
  /\ UNCHANGED <<type, next, prev, pprev, walk>>

-----------------------------------------------------------------------------
\* Chains.  pprev is the address of the pointer to the node: that of a head's first or of
\* a node's next.
Point(at, x, from) == IF x = NULL THEN at ELSE [at EXCEPT ![x] = from]

HAddHead(e, h) ==
  /\ type = "chain" /\ ~Listed(e)
  /\ next' = [next EXCEPT ![e] = next[h], ![h] = e]
  /\ pprev' = [Point(pprev, next[h], e) EXCEPT ![e] = h]
  /\ order' = [order EXCEPT ![h] = <<e>> \o @]
  /\ UNCHANGED <<type, prev, walk>>

HAddBefore(e, x) ==
  /\ type = "chain" /\ ~Listed(e) /\ Listed(x) /\ x \in Nodes
  /\ pprev' = [pprev EXCEPT ![e] = pprev[x], ![x] = e]
  /\ next' = [next EXCEPT ![e] = x, ![pprev[x]] = e]
  /\ order' = [order EXCEPT ![HomeOf(x)] = Before(@, x, e)]
  /\ UNCHANGED <<type, prev, walk>>

HAddAfter(x, e) ==
  /\ type = "chain" /\ ~Listed(e) /\ Listed(x) /\ x \in Nodes
  /\ next' = [next EXCEPT ![e] = next[x], ![x] = e]
  /\ pprev' = Point([pprev EXCEPT ![e] = x], next[x], e)
  /\ order' = [order EXCEPT ![HomeOf(x)] = After(@, x, e)]
  /\ UNCHANGED <<type, prev, walk>>

Unhashed(e) == pprev[e] = NULL
Hashed(e) == pprev[e] # NULL /\ ~(next[e] = POISON /\ pprev[e] = POISON)

\* stlc_hlist_del and stlc_hlist_del_init; the latter may be called of a node in no list,
\* but not of one stlc_hlist_del has poisoned.
HDel(e, init) ==
  /\ type = "chain" /\ MayUnlink(e)
  /\ Hashed(e) \/ (init /\ Unhashed(e))
  /\ IF Unhashed(e) THEN UNCHANGED <<next, pprev>>
     ELSE LET mark == IF init THEN NULL ELSE POISON
          IN  /\ next' = [next EXCEPT ![pprev[e]] = next[e], ![e] = mark]
              /\ pprev' = [Point(pprev, next[e], pprev[e]) EXCEPT ![e] = mark]
  /\ order' = Without(e)
  /\ Forget(e)
  /\ UNCHANGED <<type, prev>>

-----------------------------------------------------------------------------
\* The loops: plain or _safe, from the first entry, from an entry on (_from_pos, _from) or
\* after it (_continue), forwards or, in a ring, backwards (_prev).
Step(back, x) == IF back THEN prev[x] ELSE next[x]
End(h) == IF type = "ring" THEN h ELSE NULL

At(w, x) ==
  IF x = End(w.head) THEN [w EXCEPT !.pos = x]
  ELSE [w EXCEPT !.pos = x, !.n = Step(w.back, x), !.seen = @ \cup {x},
                !.twice = IF x \in w.seen THEN @ \cup {x} ELSE @]

Rest(s, x) == IF x \in Heads THEN Range(s) ELSE {s[i] : i \in {k \in DOMAIN s : \E j \in 1..k : s[j] = x}}

ForEach(kind, h, x, back) ==
  /\ walk.kind = "none" /\ h \in Heads \cap DOMAIN order /\ Listed(x) /\ HomeOf(x) = h
  /\ back => type = "ring" /\ x = h
  /\ walk' = LET w == [kind |-> kind, head |-> h, back |-> back, pos |-> x, n |-> x,
                       seen |-> {}, twice |-> {}, stay |-> Rest(order[h], x)]
             IN  IF x = h THEN At(w, Step(back, x)) ELSE At(w, x)
  /\ UNCHANGED <<type, next, prev, pprev, order>>

ForEachContinue(h, x) ==
  /\ walk.kind = "none" /\ h \in DOMAIN order /\ Contains(order[h], x)
  /\ walk' = At([kind |-> "plain", head |-> h, back |-> FALSE, pos |-> x, n |-> x, seen |-> {}, twice |-> {},
                 stay |-> Rest(order[h], x) \ {x}], next[x])
  /\ UNCHANGED <<type, next, prev, pprev, order>>

Following == IF walk.kind = "safe" THEN walk.n ELSE Step(walk.back, walk.pos)

WalkOn ==
  /\ walk.kind # "none" /\ walk.pos # End(walk.head)
  /\ walk' = At(walk, Following)
  /\ UNCHANGED <<type, next, prev, pprev, order>>

WalkEnds ==
  /\ walk.kind # "none" /\ walk.pos = End(walk.head)
  /\ walk' = NoWalk
  /\ UNCHANGED <<type, next, prev, pprev, order>>

-----------------------------------------------------------------------------
Next ==
  \/ \E e \in Nodes, x \in All : ListAdd(e, x) \/ ListAddTail(e, x)
  \/ \E e \in Nodes, how \in {"del", "only", "init"} : ListDel(e, how)
  \/ \E e, old \in Nodes, init \in BOOLEAN : ListReplace(old, e, init)
  \/ \E e \in Nodes, x \in All, tail \in BOOLEAN : ListMove(e, x, tail)
  \/ \E h \in Heads, e \in Nodes : ListBreak(h, e)
  \/ \E l, h \in All, init \in BOOLEAN : ListSplice(l, h, init)
  \/ \E h \in Heads : InitHead(h)
  \/ \E e \in Nodes : Rejoin(e)
  \/ \E e \in Nodes, h \in Heads : HAddHead(e, h)
  \/ \E e, x \in Nodes : HAddBefore(e, x) \/ HAddAfter(x, e)
  \/ \E e \in Nodes, init \in BOOLEAN : HDel(e, init)
  \/ \E kind \in {"plain", "safe"}, h \in Heads, x \in All, back \in BOOLEAN : ForEach(kind, h, x, back)
  \/ \E h \in Heads, x \in Nodes : ForEachContinue(h, x)
  \/ WalkOn
  \/ WalkEnds

Spec == Init /\ [][Next]_vars

-----------------------------------------------------------------------------
\* The pointers from x on are the entries of s, and end in last.
Traces(ptr, x, s, last) ==
  \A i \in 0 .. Len(s) :
    ptr[IF i = 0 THEN x ELSE s[i]] = IF i = Len(s) THEN last ELSE s[i + 1]

\* Every list holds the entries that were put in it, in order and in both directions,
\* whatever was added, moved, replaced, broken off or spliced; a node is hashed when it is
\* in a chain; and a loop meets every entry that stays in its list, none of them twice,
\* although its body unlinks entries and adds others.
ListsAgree ==
  /\ \A h \in DOMAIN order :
       IF type = "ring"
       THEN Traces(next, h, order[h], h) /\ Traces(prev, h, Reverse(order[h]), h)
       ELSE /\ Traces(next, h, order[h], NULL)
            /\ \A i \in DOMAIN order[h] :
                 pprev[order[h][i]] = IF i = 1 THEN h ELSE order[h][i - 1]
  /\ type = "chain" => \A e \in Nodes : Hashed(e) <=> Listed(e)
  /\ walk.kind # "none" =>
       /\ walk.pos # NULL \/ type = "chain"
       /\ walk.pos = End(walk.head) => walk.stay \subseteq walk.seen
       /\ walk.stay \cap walk.twice = {}
=============================================================================
