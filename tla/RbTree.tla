-------------------------------- MODULE RbTree --------------------------------
(***************************************************************************)
(* rbtree.c and rbtree.h: the red-black tree in which cl_thread keeps its  *)
(* sockets, with the macros that search and insert.  The two halves of the *)
(* code that differ in left and right are one definition with a side as    *)
(* parameter.  An operation is one step, but for the loops that colour the *)
(* tree, of which a round is one.                                          *)
(***************************************************************************)
EXTENDS Naturals, FiniteSets, Sequences

CONSTANTS Keys,   \* a set of numbers other than 0
          Twice   \* the keys of which there are two structures, for rb_replace_node

NULL == <<0, 1>>
Nodes == (Keys \X {1}) \union (Twice \X {2})
Key(n) == n[1]
Sides == {"left", "right"}
Other(s) == IF s = "left" THEN "right" ELSE "left"

VARIABLES tree,    \* root->rb_node, and rb_left, rb_right, rb_parent and rb_color
          fix,     \* the loop that colours: which one, its node and parent
          linked   \* the structures that were inserted and not erased

vars == <<tree, fix, linked>>

\* A structure that is not linked is never read: what was left in it is forgotten.
Forget(t, n) == [t EXCEPT !.kid[n] = [s \in Sides |-> NULL], !.up[n] = NULL, !.red[n] = TRUE]

Idle == [loop |-> "none", node |-> NULL, parent |-> NULL]

\* RB_ROOT
Init ==
  /\ tree = [root |-> NULL, kid |-> [n \in Nodes |-> [s \in Sides |-> NULL]],
             up |-> [n \in Nodes |-> NULL], red |-> [n \in Nodes |-> TRUE]]
  /\ fix = Idle
  /\ linked = {}

-----------------------------------------------------------------------------
\* rb_set_parent of a child that may be missing
SetParent(t, n, p) == IF n = NULL THEN t ELSE [t EXCEPT !.up[n] = p]
SetRed(t, n, red) == [t EXCEPT !.red[n] = red]
IsRed(t, n) == n # NULL /\ t.red[n]

\* On which side of its parent a node is.
SideOf(t, n) == IF t.kid[t.up[n]]["left"] = n THEN "left" ELSE "right"

\* What points to old, its parent or the root, points to new.
Relink(t, p, old, new) ==
  IF p = NULL THEN [t EXCEPT !.root = new]
  ELSE [t EXCEPT !.kid[p][IF t.kid[p]["left"] = old THEN "left" ELSE "right"] = new]

\* __rb_rotate_left and __rb_rotate_right
Rotate(t, n, s) ==
  LET r == t.kid[n][Other(s)]
      c == t.kid[r][s]
      lowered == SetParent([t EXCEPT !.kid[n][Other(s)] = c, !.kid[r][s] = n], c, n)
      raised == Relink([lowered EXCEPT !.up[r] = t.up[n]], t.up[n], n, r)
  IN  [raised EXCEPT !.up[n] = r]

\* The descent of rb_insert and rb_search: the node with the key, or the one below
\* which it belongs.
Descent(t, k) ==
  LET d[i \in 0 .. Cardinality(Keys)] ==
        IF i = 0 THEN t.root
        ELSE LET n == d[i - 1]
                 s == IF k < Key(n) THEN "left" ELSE "right"
             IN  IF n = NULL \/ Key(n) = k \/ t.kid[n][s] = NULL THEN n ELSE t.kid[n][s]
  IN  d[Cardinality(Keys)]

\* rb_search: the structure with this key
Search(t, k) == LET n == Descent(t, k) IN IF n # NULL /\ Key(n) = k THEN n ELSE NULL

\* rb_link_node
LinkNode(t, n, p) ==
  LET s == IF p = NULL \/ Key(n) < Key(p) THEN "left" ELSE "right"
      linkedIn == IF p = NULL THEN [t EXCEPT !.root = n] ELSE [t EXCEPT !.kid[p][s] = n]
  IN  [linkedIn EXCEPT !.up[n] = p, !.red[n] = TRUE, !.kid[n] = [x \in Sides |-> NULL]]

\* rb_insert and rb_search_or_insert, up to rb_insert_color: a key that is there is
\* found and not inserted.
Insert(n) ==
  /\ fix = Idle
  /\ Search(tree, Key(n)) = NULL
  /\ tree' = LinkNode(tree, n, Descent(tree, Key(n)))
  /\ fix' = [Idle EXCEPT !.loop = "insert", !.node = n]
  /\ linked' = linked \union {n}

\* rb_insert_color: a node between its parent and its grandparent is rotated out.
Straight(t, n, p, s) == IF t.kid[p][Other(s)] = n THEN Rotate(t, p, s) ELSE t

\* One round of rb_insert_color.
InsertColor ==
  LET n == fix.node
      p == tree.up[n]
      g == tree.up[p]
      s == SideOf(tree, p)
      uncle == tree.kid[g][Other(s)]
      turned == Straight(tree, n, p, s)
      top == turned.kid[g][s]
  IN  /\ fix.loop = "insert"
      /\ UNCHANGED linked
      /\ \/ /\ p = NULL \/ ~IsRed(tree, p)
            /\ tree' = SetRed(tree, tree.root, FALSE)
            /\ fix' = Idle
         \/ /\ p # NULL /\ IsRed(tree, p) /\ IsRed(tree, uncle)
            /\ tree' = SetRed(SetRed(SetRed(tree, uncle, FALSE), p, FALSE), g, TRUE)
            /\ fix' = [fix EXCEPT !.node = g]
         \/ /\ p # NULL /\ IsRed(tree, p) /\ ~IsRed(tree, uncle)
            /\ tree' = Rotate(SetRed(SetRed(turned, top, FALSE), g, TRUE), g, Other(s))
            /\ fix' = [fix EXCEPT !.node = IF top = n THEN p ELSE n]

-----------------------------------------------------------------------------
\* rb_first and rb_last of the nodes below n, by the side they go down
Outermost(t, n, s) ==
  LET d[i \in 0 .. Cardinality(Keys)] ==
        IF i = 0 THEN n
        ELSE LET m == d[i - 1] IN IF t.kid[m][s] = NULL THEN m ELSE t.kid[m][s]
  IN  IF n = NULL THEN NULL ELSE d[Cardinality(Keys)]

\* rb_next (side "right") and rb_prev (side "left")
Step(t, n, s) ==
  LET up[i \in 0 .. Cardinality(Keys)] ==
        IF i = 0 THEN n
        ELSE LET m == up[i - 1]
             IN  IF t.up[m] # NULL /\ t.kid[t.up[m]][s] = m THEN t.up[m] ELSE m
  IN  IF t.kid[n][s] # NULL THEN Outermost(t, t.kid[n][s], Other(s))
      ELSE t.up[up[Cardinality(Keys)]]

\* rb_erase of a node with at most one child, ...
Unlink(t, n) ==
  LET c == IF t.kid[n]["left"] = NULL THEN t.kid[n]["right"] ELSE t.kid[n]["left"]
  IN  [tree |-> Relink(SetParent(t, c, t.up[n]), t.up[n], n, c), child |-> c,
       parent |-> t.up[n], black |-> ~t.red[n]]

\* ... and of one with two, whose successor leaves its place and takes the one of the
\* node with its colour.
Substitute(t, old) ==
  LET n == Step(t, old, "right")
      out == Unlink(t, n)
      u == out.tree
      placed == [u EXCEPT !.kid[n] = u.kid[old], !.up[n] = u.up[old], !.red[n] = u.red[old]]
      held == Relink(placed, u.up[old], old, n)
  IN  [tree |-> SetParent(SetParent(held, u.kid[old]["left"], n), u.kid[old]["right"], n),
       child |-> out.child, black |-> out.black,
       parent |-> IF out.parent = old THEN n ELSE out.parent]

\* rb_delete and rb_delete_node: rb_erase up to __rb_erase_color
Erase(n) ==
  LET out == IF NULL \in {tree.kid[n][s] : s \in Sides} THEN Unlink(tree, n)
             ELSE Substitute(tree, n)
  IN  /\ fix = Idle
      /\ n \in linked /\ Search(tree, Key(n)) = n
      /\ tree' = Forget(out.tree, n)
      /\ fix' = IF out.black
                THEN [loop |-> "erase", node |-> out.child, parent |-> out.parent]
                ELSE Idle
      /\ linked' = linked \ {n}

\* A red sibling becomes the grandparent.
BlackSibling(t, p, s) ==
  LET o == t.kid[p][Other(s)]
  IN  IF IsRed(t, o) THEN Rotate(SetRed(SetRed(t, o, FALSE), p, TRUE), p, s) ELSE t

\* The far child of the sibling is red, or is made so.
RedFar(t, p, s) ==
  LET o == t.kid[p][Other(s)]
      near == t.kid[o][s]
  IN  IF IsRed(t, t.kid[o][Other(s)]) THEN t
      ELSE Rotate(SetRed(SetRed(t, near, FALSE), o, TRUE), o, Other(s))

\* One round of __rb_erase_color.
EraseColor ==
  LET n == fix.node
      p == fix.parent
      s == IF tree.kid[p]["left"] = n THEN "left" ELSE "right"
      t == BlackSibling(tree, p, s)
      o == t.kid[p][Other(s)]
      u == RedFar(t, p, s)
      q == u.kid[p][Other(s)]
      last == Rotate(SetRed(SetRed(SetRed(u, q, u.red[p]), p, FALSE),
                            u.kid[q][Other(s)], FALSE), p, s)
      more == n # tree.root /\ ~IsRed(tree, n)
  IN  /\ fix.loop = "erase"
      /\ UNCHANGED linked
      /\ \/ /\ ~more
            /\ tree' = IF n = NULL THEN tree ELSE SetRed(tree, n, FALSE)
            /\ fix' = Idle
         \/ /\ more /\ \A x \in Sides : ~IsRed(t, t.kid[o][x])
            /\ tree' = SetRed(t, o, TRUE)
            /\ fix' = [fix EXCEPT !.node = p, !.parent = t.up[p]]
         \/ /\ more /\ \E x \in Sides : IsRed(t, t.kid[o][x])
            /\ tree' = SetRed(last, last.root, FALSE)
            /\ fix' = Idle

\* rb_replace_node: the copy takes the pointers and the colour of the victim.
Replace(n, new) ==
  /\ fix = Idle
  /\ n \in linked /\ new \notin linked /\ Key(new) = Key(n)
  /\ LET held == Relink(tree, tree.up[n], n, new)
         t == SetParent(SetParent(held, tree.kid[n]["left"], new), tree.kid[n]["right"], new)
     IN  tree' = Forget([t EXCEPT !.kid[new] = tree.kid[n], !.up[new] = tree.up[n],
                                  !.red[new] = tree.red[n]], n)
  /\ linked' = (linked \ {n}) \union {new}
  /\ UNCHANGED fix

Next ==
  \/ \E n \in Nodes : Insert(n) \/ Erase(n)
  \/ \E n, m \in Nodes : Replace(n, m)
  \/ InsertColor \/ EraseColor

Spec == Init /\ [][Next]_vars

-----------------------------------------------------------------------------
\* The nodes from the first to the last with rb_next, or the other way round with rb_prev.
Walk(s) ==
  LET w[i \in 0 .. Cardinality(linked)] ==
        IF i = 0 THEN <<>>
        ELSE IF i = 1 THEN <<Outermost(tree, tree.root, Other(s))>>
        ELSE LET v == w[i - 1]
             IN  Append(v, IF v[i - 1] = NULL THEN NULL ELSE Step(tree, v[i - 1], s))
  IN  w[Cardinality(linked)]

\* The black nodes on the way from a node to the root.
BlackAbove(n) ==
  LET b[i \in 0 .. Cardinality(Keys), m \in Nodes] ==
        (IF tree.red[m] THEN 0 ELSE 1)
          + (IF i = 0 \/ tree.up[m] = NULL THEN 0 ELSE b[i - 1, tree.up[m]])
  IN  b[Cardinality(Keys), n]

\* Between two operations the tree holds exactly the structures that were inserted:
\* rb_first and rb_next find them in the order of their keys, rb_last and rb_prev in the
\* opposite one, and rb_search finds each; no red node has a red parent, and every way
\* to the root from a place where a node could be added has as many black nodes: no way
\* is more than twice as long as another.
RbTreeOk ==
  fix = Idle =>
    /\ linked = {} => tree.root = NULL
    /\ linked # {} =>
         LET fwd == Walk("right")
             bwd == Walk("left")
             m == Len(fwd)
             ends == {n \in linked : \E s \in Sides : tree.kid[n][s] = NULL}
         IN  /\ {fwd[i] : i \in 1 .. m} = linked
             /\ \A i \in 1 .. m - 1 : Key(fwd[i]) < Key(fwd[i + 1])
             /\ \A i \in 1 .. m : bwd[i] = fwd[m + 1 - i]
             /\ \A n \in linked : Search(tree, Key(n)) = n
             /\ ~tree.red[tree.root] /\ tree.up[tree.root] = NULL
             /\ \A n \in linked : tree.red[n] => ~tree.red[tree.up[n]]
             /\ \A n, k \in ends : BlackAbove(n) = BlackAbove(k)
=============================================================================
