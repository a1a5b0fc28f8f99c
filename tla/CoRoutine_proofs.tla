--------------------------- MODULE CoRoutine_proofs ---------------------------
(***************************************************************************)
(* For any coroutines, descriptors and size of the wheel: a coroutine runs *)
(* with its own frames on the shared stack, and one that waits is linked   *)
(* where the loop finds it, once.                                          *)
(***************************************************************************)
EXTENDS CoRoutine, FiniteSetTheorems, SequenceTheorems, WellFoundedInduction, TLAPS

\* The elements of a list, and of several lists
In(c, s) == \E i \in DOMAIN s : s[i] = c
InSome(c, w) == \E i \in DOMAIN w : In(c, w[i])

Distinct(s) == \A i, j \in DOMAIN s : s[i] = s[j] => i = j
AllDistinct(w) ==
  \A i, j \in DOMAIN w : \A k \in DOMAIN w[i], l \in DOMAIN w[j] :
    w[i][k] = w[j][l] => i = j /\ k = l

TypeOK ==
  /\ callStack \in Seq(All)
  /\ st \in [All -> {"none", "free", "new", "run", "yield", "poll", "cond", "end"}]
  /\ wheel \in [Slots -> Seq(All)] /\ active \in Seq(All) /\ waits \in Seq(All)
  /\ left \in [All -> Nat] /\ bTimeout \in [All -> BOOLEAN]
  /\ fds \in [All -> SUBSET Fds] /\ reg \in [Fds -> All \cup {None}]
  /\ loopNow \in GetTickMS /\ pc \in {"wait", "active", "pfn"}
  /\ occupy \in Shared \cup {None} /\ content \in All \cup {None}
  /\ saved \in [All -> All \cup {None}]

\* No list holds a coroutine twice.
Lists ==
  /\ Distinct(callStack) /\ Distinct(active) /\ Distinct(waits) /\ AllDistinct(wheel)

\* Where a coroutine is linked follows from its state.  A coroutine that polls
\* gets into the active list by co_epoll_wait alone, which starts when that has only
\* signalled ones: so no event can link one that is in the list.
Place(c) ==
  /\ In(c, callStack) <=> st[c] = "run"
  /\ ~(In(c, active) /\ InSome(c, wheel))
  /\ In(c, active) \/ InSome(c, wheel) => st[c] \in {"poll", "cond"}
  /\ In(c, waits) => st[c] = "cond"
  /\ st[c] = "poll" => In(c, active) \/ InSome(c, wheel)
  /\ st[c] = "cond" => In(c, active) \/ InSome(c, wheel) \/ In(c, waits)
  /\ pc # "active" /\ In(c, active) => st[c] = "cond"
Places == \A c \in All : Place(c)

\* The recovery coroutine runs and waits, and resumes nobody.
GcAlone ==
  /\ In(Gc, callStack) => callStack = <<Gc>>
  /\ st[Gc] \in {"poll", "run"}

Registered == \A f \in Fds : reg[f] # None => st[reg[f]] = "poll" /\ f \in fds[reg[f]]

\* The frames of a coroutine that has begun are on the stack while it occupies that,
\* and in its buffer while it does not; the one that runs occupies it.
Live == {"run", "yield", "poll", "cond"}
Framed(c) == IF occupy = c THEN content = c ELSE saved[c] = c
Frames ==
  /\ \A c \in Shared : st[c] \in Live => Framed(c)
  /\ occupy # None => st[occupy] \notin {"free", "none", "new"}
  /\ \A c \in Shared : Runs(c) => occupy = c

IInv == TypeOK /\ Lists /\ Places /\ GcAlone /\ Registered /\ Frames

-----------------------------------------------------------------------------
\* A set of numbers has a least one.
LEMMA Least ==
  ASSUME NEW T \in SUBSET Nat, T # {}
  PROVE  \E x \in T : \A y \in T : x =< y
<1> DEFINE R == {ss \in Nat \X Nat : ss[1] < ss[2]}
<1>0. OpToRel(<, Nat) = R  BY DEF OpToRel
<1>1. IsWellFoundedOn(R, Nat)  BY NatLessThanWellFounded, <1>0
<1>2. PICK x \in T : \A y \in T : <<y, x>> \notin R
  <2> HIDE DEF R
  <2> QED BY <1>1, WFMin
<1>3. ASSUME NEW y \in T  PROVE x =< y
  <2>1. <<y, x>> \notin R  BY <1>2
  <2>2. y \in Nat /\ x \in Nat  OBVIOUS
  <2>3. ~(y < x)  BY <2>1, <2>2
  <2> QED  BY <2>2, <2>3
<1> QED  BY <1>3

\* The function that Join defines exists.
LEMMA JoinExists ==
  ASSUME NEW w, NEW n \in Nat
  PROVE  \E j : j = [i \in 0 .. n |-> IF i = 0 THEN <<>> ELSE j[i - 1] \o w[i - 1]]
<1> DEFINE Is(j, m) == j = [i \in 0 .. m |-> IF i = 0 THEN <<>> ELSE j[i - 1] \o w[i - 1]]
           Lacks == {m \in Nat : ~ \E j : Is(j, m)}
<1>1. 0 \notin Lacks
  <2> DEFINE j == [i \in 0 .. 0 |-> <<>>]
  <2>1. Is(j, 0)  OBVIOUS
  <2> QED  BY <2>1
<1>2. ASSUME NEW m \in Nat, m # 0, m - 1 \in Nat, m - 1 \notin Lacks  PROVE m \notin Lacks
  <2>1. PICK g : Is(g, m - 1)  BY <1>2
  <2> DEFINE j == [i \in 0 .. m |-> IF i = m THEN g[m - 1] \o w[m - 1] ELSE g[i]]
  <2>2. \A i \in 0 .. m - 1 : g[i] = IF i = 0 THEN <<>> ELSE g[i - 1] \o w[i - 1]
    BY <2>1
  <2>3. \A i \in 0 .. m - 1 : j[i] = g[i]  BY <1>2
  <2>4. j[m] = j[m - 1] \o w[m - 1]
    <3>1. m \in 0 .. m /\ m - 1 \in 0 .. m - 1  BY <1>2
    <3>2. j[m] = g[m - 1] \o w[m - 1]  BY <3>1
    <3> QED  BY <2>3, <3>1, <3>2
  <2>5. \A i \in 0 .. m : j[i] = IF i = 0 THEN <<>> ELSE j[i - 1] \o w[i - 1]
    <3> SUFFICES ASSUME NEW i \in 0 .. m
                 PROVE  j[i] = IF i = 0 THEN <<>> ELSE j[i - 1] \o w[i - 1]
      OBVIOUS
    <3> HIDE DEF j
    <3>1. CASE i = m  BY <3>1, <2>4, <1>2
    <3>2. CASE i # m
      <4>1. i \in 0 .. m - 1 /\ (i # 0 => i - 1 \in 0 .. m - 1)  BY <3>2, <1>2
      <4> QED  BY <4>1, <2>2, <2>3
    <3> QED  BY <3>1, <3>2
  <2>6. Is(j, m)  BY <2>5
  <2> QED  BY <2>6
<1>3. Lacks = {}
  <2> SUFFICES ASSUME Lacks # {}  PROVE FALSE  OBVIOUS
  <2> HIDE DEF Lacks
  <2>0. Lacks \subseteq Nat  BY DEF Lacks
  <2>1. PICK m \in Lacks : \A k \in Lacks : m =< k
    BY <2>0, Least
  <2>2. m # 0 /\ m \in Nat  BY <1>1, <2>0
  <2>3. m - 1 \in Nat /\ m - 1 \notin Lacks  BY <2>1, <2>2
  <2> QED  BY <1>2, <2>2, <2>3
<1> QED  BY <1>3

LEMMA JoinStep ==
  ASSUME NEW w, NEW n \in Nat
  PROVE  /\ Join(w, 0) = <<>>
         /\ \E j : /\ Join(w, n) = j[n] /\ j[0] = <<>>
                   /\ \A i \in 1 .. n : j[i] = j[i - 1] \o w[i - 1]
<1> DEFINE Is(j, m) == j = [i \in 0 .. m |-> IF i = 0 THEN <<>> ELSE j[i - 1] \o w[i - 1]]
<1>1. ASSUME NEW m \in Nat
      PROVE  \E j : Join(w, m) = j[m] /\ Is(j, m)
  <2> DEFINE c == CHOOSE j : Is(j, m)
  <2>1. \E j : Is(j, m)  BY JoinExists
  <2>2. Is(c, m)  BY <2>1
  <2>3. Join(w, m) = c[m]  BY DEF Join
  <2> QED  BY <2>2, <2>3
<1>2. ASSUME NEW m \in Nat, NEW j, Is(j, m)
      PROVE  j[0] = <<>> /\ \A i \in 1 .. m : j[i] = j[i - 1] \o w[i - 1]
  <2>1. \A i \in 0 .. m : j[i] = IF i = 0 THEN <<>> ELSE j[i - 1] \o w[i - 1]  BY <1>2
  <2>2. j[0] = <<>>  BY <2>1
  <2>3. ASSUME NEW i \in 1 .. m  PROVE j[i] = j[i - 1] \o w[i - 1]
    <3>1. i \in 0 .. m /\ i # 0  OBVIOUS
    <3> QED  BY <2>1, <3>1
  <2> QED  BY <2>2, <2>3
<1>3. Join(w, 0) = <<>>
  <2> HIDE DEF Is
  <2>1. PICK j : Join(w, 0) = j[0] /\ Is(j, 0)  BY <1>1
  <2> QED  BY <2>1, <1>2
<1>4. PICK j : Join(w, n) = j[n] /\ Is(j, n)  BY <1>1
<1>5. j[0] = <<>> /\ \A i \in 1 .. n : j[i] = j[i - 1] \o w[i - 1]  BY <1>2, <1>4
<1> HIDE DEF Is
<1> QED  BY <1>3, <1>4, <1>5

-----------------------------------------------------------------------------
\* What the operations on lists return.
LEMMA ConcatIs ==
  ASSUME NEW S, NEW s \in Seq(S), NEW t \in Seq(S)
  PROVE  /\ s \o t \in Seq(S)
         /\ \A x : In(x, s \o t) <=> (In(x, s) \/ In(x, t))
         /\ Distinct(s) /\ Distinct(t) /\ (\A x : ~(In(x, s) /\ In(x, t))) => Distinct(s \o t)
<1> DEFINE r == s \o t
<1>1. /\ r \in Seq(S) /\ Len(r) = Len(s) + Len(t) /\ Len(s) \in Nat /\ Len(t) \in Nat
      /\ \A i \in 1 .. Len(r) : r[i] = IF i =< Len(s) THEN s[i] ELSE t[i - Len(s)]
  OBVIOUS
<1>2. DOMAIN r = 1 .. Len(r) /\ DOMAIN s = 1 .. Len(s) /\ DOMAIN t = 1 .. Len(t)  BY <1>1
<1> HIDE DEF r
<1>3. ASSUME NEW i \in DOMAIN r
      PROVE  \/ i \in DOMAIN s /\ r[i] = s[i]
             \/ i - Len(s) \in DOMAIN t /\ r[i] = t[i - Len(s)]
  BY <1>1, <1>2
<1>4. \A i \in DOMAIN s : i \in DOMAIN r /\ r[i] = s[i]  BY <1>1, <1>2
<1>5. \A i \in DOMAIN t : i + Len(s) \in DOMAIN r /\ r[i + Len(s)] = t[i]
  <2> SUFFICES ASSUME NEW i \in DOMAIN t  PROVE i + Len(s) \in DOMAIN r /\ r[i + Len(s)] = t[i]
    OBVIOUS
  <2>1. i \in 1 .. Len(t)  BY <1>2
  <2>2. i + Len(s) \in 1 .. Len(r) /\ ~(i + Len(s) =< Len(s)) /\ (i + Len(s)) - Len(s) = i
    BY <2>1, <1>1
  <2> QED  BY <2>2, <1>1, <1>2
<1>6. \A x : In(x, r) <=> (In(x, s) \/ In(x, t))  BY <1>3, <1>4, <1>5 DEF In
<1>7. ASSUME Distinct(s), Distinct(t), \A x : ~(In(x, s) /\ In(x, t))
      PROVE  Distinct(r)
  <2> SUFFICES ASSUME NEW i \in DOMAIN r, NEW k \in DOMAIN r, r[i] = r[k]  PROVE i = k
    BY DEF Distinct
  <2>1. CASE i \in DOMAIN s /\ r[i] = s[i] /\ k \in DOMAIN s /\ r[k] = s[k]
    BY <2>1, <1>7 DEF Distinct
  <2>2. CASE /\ i - Len(s) \in DOMAIN t /\ r[i] = t[i - Len(s)]
             /\ k - Len(s) \in DOMAIN t /\ r[k] = t[k - Len(s)]
    <3>1. i - Len(s) = k - Len(s)  BY <2>2, <1>7 DEF Distinct
    <3>2. i \in Int /\ k \in Int  BY <1>1, <1>2
    <3> QED  BY <3>1, <3>2, <1>1
  <2>3. CASE /\ i \in DOMAIN s /\ r[i] = s[i]
             /\ k - Len(s) \in DOMAIN t /\ r[k] = t[k - Len(s)]
    BY <2>3, <1>7 DEF In
  <2>4. CASE /\ k \in DOMAIN s /\ r[k] = s[k]
             /\ i - Len(s) \in DOMAIN t /\ r[i] = t[i - Len(s)]
    BY <2>4, <1>7 DEF In
  <2> QED  BY <2>1, <2>2, <2>3, <2>4, <1>3
<1> QED  BY <1>1, <1>6, <1>7 DEF r

LEMMA JoinIs ==
  ASSUME NEW S, NEW N \in Nat, NEW w \in [0 .. N - 1 -> Seq(S)], NEW n \in 0 .. N
  PROVE  /\ Join(w, n) \in Seq(S)
         /\ \A x : In(x, Join(w, n)) <=> \E i \in 0 .. n - 1 : In(x, w[i])
         /\ AllDistinct(w) => Distinct(Join(w, n))
<1>0. n \in Nat /\ n =< N  OBVIOUS
<1>1. PICK j : /\ Join(w, n) = j[n] /\ j[0] = <<>>
               /\ \A i \in 1 .. n : j[i] = j[i - 1] \o w[i - 1]
  BY JoinStep, <1>0
<1> DEFINE Good(m) == /\ j[m] \in Seq(S)
                      /\ \A x : In(x, j[m]) <=> \E i \in 0 .. m - 1 : In(x, w[i])
                      /\ AllDistinct(w) => Distinct(j[m])
           Bad == {m \in 0 .. n : ~Good(m)}
<1>2. Good(0)
  <2>1. j[0] = <<>> /\ DOMAIN <<>> = {} /\ 0 .. 0 - 1 = {}  BY <1>1
  <2> QED  BY <2>1 DEF In, Distinct
<1>3. ASSUME NEW m \in 1 .. n, Good(m - 1)  PROVE Good(m)
  <2>1. /\ m - 1 \in 0 .. N - 1 /\ w[m - 1] \in Seq(S)
        /\ DOMAIN w = 0 .. N - 1
    BY <1>0
  <2>2. j[m] = j[m - 1] \o w[m - 1]  BY <1>1
  <2>3. j[m - 1] \in Seq(S)  BY <1>3
  <2>4. /\ j[m] \in Seq(S)
        /\ \A x : In(x, j[m]) <=> (In(x, j[m - 1]) \/ In(x, w[m - 1]))
        /\ Distinct(j[m - 1]) /\ Distinct(w[m - 1])
           /\ (\A x : ~(In(x, j[m - 1]) /\ In(x, w[m - 1]))) => Distinct(j[m])
    BY <2>1, <2>2, <2>3, ConcatIs
  <2>5. \A x : In(x, j[m - 1]) <=> \E i \in 0 .. (m - 1) - 1 : In(x, w[i])  BY <1>3
  <2>6. /\ \A i \in 0 .. (m - 1) - 1 : i \in 0 .. m - 1 /\ i \in 0 .. N - 1 /\ i # m - 1
        /\ \A i \in 0 .. m - 1 : i # m - 1 => i \in 0 .. (m - 1) - 1
        /\ m - 1 \in 0 .. m - 1
    BY <1>0
  <2>7. \A x : In(x, j[m]) <=> \E i \in 0 .. m - 1 : In(x, w[i])
    <3> SUFFICES ASSUME NEW x PROVE In(x, j[m]) <=> \E i \in 0 .. m - 1 : In(x, w[i])  OBVIOUS
    <3>1. In(x, j[m]) <=> (In(x, j[m - 1]) \/ In(x, w[m - 1]))  BY <2>4
    <3>2. In(x, j[m - 1]) <=> \E i \in 0 .. (m - 1) - 1 : In(x, w[i])  BY <2>5
    <3> QED  BY <3>1, <3>2, <2>6
  <2>8. ASSUME AllDistinct(w)  PROVE Distinct(j[m])
    <3>1. Distinct(j[m - 1])  BY <1>3, <2>8
    <3>2. Distinct(w[m - 1])  BY <2>1, <2>8 DEF AllDistinct, Distinct
    <3>3. ASSUME NEW x, In(x, j[m - 1]), In(x, w[m - 1])  PROVE FALSE
      <4>1. PICK i \in 0 .. (m - 1) - 1 : In(x, w[i])  BY <3>3, <2>5
      <4>2. i \in DOMAIN w /\ m - 1 \in DOMAIN w /\ i # m - 1  BY <2>1, <2>6
      <4>3. PICK k \in DOMAIN w[i] : w[i][k] = x  BY <4>1 DEF In
      <4>4. PICK l \in DOMAIN w[m - 1] : w[m - 1][l] = x  BY <3>3 DEF In
      <4>5. i = m - 1  BY <4>2, <4>3, <4>4, <2>8, ZenonT(60) DEF AllDistinct
      <4> QED  BY <4>2, <4>5
    <3> QED  BY <3>1, <3>2, <3>3, <2>4
  <2> QED  BY <2>4, <2>7, <2>8
<1>4. Bad = {}
  <2> SUFFICES ASSUME Bad # {}  PROVE FALSE  OBVIOUS
  <2>1. Bad \in SUBSET Nat /\ Bad \subseteq 0 .. n  OBVIOUS
  <2>2. 0 \notin Bad  BY <1>2
  <2>3. ASSUME NEW m \in 1 .. n, m - 1 \notin Bad  PROVE m \notin Bad
    <3>1. m - 1 \in 0 .. n  OBVIOUS
    <3> QED  BY <1>3, <2>3, <3>1
  <2> HIDE DEF Bad
  <2>4. PICK m \in Bad : \A k \in Bad : m =< k  BY <2>1, Least
  <2>5. m \in 0 .. n /\ m # 0  BY <2>1, <2>2
  <2>6. m \in 1 .. n /\ m - 1 \notin Bad
    <3>1. m - 1 \in Int /\ ~(m =< m - 1)  BY <2>5
    <3> QED  BY <3>1, <2>4, <2>5
  <2> QED  BY <2>3, <2>4, <2>6
<1>5. Good(n)
  <2>1. n \in 0 .. n  BY <1>0
  <2>2. ASSUME ~Good(n)  PROVE FALSE
    <3>1. n \in Bad  BY <2>1, <2>2
    <3> QED  BY <3>1, <1>4
  <2> QED  BY <2>2
<1> QED  BY <1>1, <1>5

LEMMA WithoutIs ==
  ASSUME NEW S, NEW s \in Seq(S), NEW C
  PROVE  /\ Without(s, C) \in Seq(S)
         /\ \A x : In(x, Without(s, C)) <=> (In(x, s) /\ x \notin C)
         /\ Distinct(s) => Distinct(Without(s, C))
<1> DEFINE N == Len(s)
           w == [i \in 0 .. N - 1 |-> IF s[i + 1] \in C THEN <<>> ELSE <<s[i + 1]>>]
<1>1. N \in Nat /\ DOMAIN s = 1 .. N /\ \A i \in 1 .. N : s[i] \in S  OBVIOUS
<1>2. Without(s, C) = Join(w, N)  BY DEF Without
<1>3. ASSUME NEW i \in 0 .. N - 1
      PROVE  /\ w[i] \in Seq(S)
             /\ \A x : In(x, w[i]) <=> (x = s[i + 1] /\ x \notin C)
             /\ \A k \in DOMAIN w[i] : k = 1 /\ w[i][k] = s[i + 1]
  <2>1. i + 1 \in 1 .. N  BY <1>1
  <2>2. s[i + 1] \in S  BY <1>1, <2>1
  <2>3. CASE s[i + 1] \in C
    <3>1. w[i] = <<>> /\ DOMAIN <<>> = {}  BY <2>3
    <3> QED  BY <3>1, <2>3 DEF In
  <2>4. CASE s[i + 1] \notin C
    <3>1. w[i] = <<s[i + 1]>>  BY <2>4
    <3> HIDE DEF w
    <3>2. DOMAIN w[i] = {1} /\ w[i][1] = s[i + 1] /\ w[i] \in Seq(S)  BY <3>1, <2>2
    <3> QED  BY <3>2, <2>4 DEF In
  <2> QED  BY <2>3, <2>4
<1>4. w \in [0 .. N - 1 -> Seq(S)] /\ DOMAIN w = 0 .. N - 1  BY <1>3
<1> HIDE DEF w
<1>5. /\ Join(w, N) \in Seq(S)
      /\ \A x : In(x, Join(w, N)) <=> \E i \in 0 .. N - 1 : In(x, w[i])
      /\ AllDistinct(w) => Distinct(Join(w, N))
  <2>1. N \in 0 .. N  BY <1>1
  <2> HIDE DEF N
  <2> QED  BY <1>1, <1>4, <2>1, JoinIs
<1>6. \A x : In(x, Join(w, N)) <=> (In(x, s) /\ x \notin C)
  <2> SUFFICES ASSUME NEW x  PROVE In(x, Join(w, N)) <=> (In(x, s) /\ x \notin C)  OBVIOUS
  <2>1. ASSUME In(x, Join(w, N))  PROVE In(x, s) /\ x \notin C
    <3>1. PICK i \in 0 .. N - 1 : In(x, w[i])  BY <1>5, <2>1
    <3>2. x = s[i + 1] /\ x \notin C  BY <3>1, <1>3
    <3>3. i + 1 \in DOMAIN s  BY <1>1
    <3> QED  BY <3>2, <3>3 DEF In
  <2>2. ASSUME In(x, s), x \notin C  PROVE In(x, Join(w, N))
    <3>1. PICK i \in DOMAIN s : s[i] = x  BY <2>2 DEF In
    <3>2. i - 1 \in 0 .. N - 1 /\ (i - 1) + 1 = i  BY <1>1
    <3>3. In(x, w[i - 1])  BY <1>3, <3>1, <3>2, <2>2
    <3> QED  BY <1>5, <3>2, <3>3
  <2> QED  BY <2>1, <2>2
<1>7. ASSUME Distinct(s)  PROVE AllDistinct(w)
  <2> SUFFICES ASSUME NEW i \in DOMAIN w, NEW m \in DOMAIN w,
                      NEW k \in DOMAIN w[i], NEW l \in DOMAIN w[m], w[i][k] = w[m][l]
               PROVE  i = m /\ k = l
    BY DEF AllDistinct
  <2>1. i \in 0 .. N - 1 /\ m \in 0 .. N - 1  BY <1>4
  <2>2. k = 1 /\ l = 1 /\ s[i + 1] = s[m + 1]  BY <1>3, <2>1
  <2>3. i + 1 \in DOMAIN s /\ m + 1 \in DOMAIN s  BY <1>1, <2>1
  <2>4. i + 1 = m + 1  BY <2>2, <2>3, <1>7 DEF Distinct
  <2>5. i \in Int /\ m \in Int  BY <2>1, <1>1
  <2>6. i = m  BY <2>4, <2>5
  <2> QED  BY <2>2, <2>6
<1> QED  BY <1>2, <1>5, <1>6, <1>7

LEMMA UnlinkIs ==
  ASSUME NEW S, NEW w \in [Slots -> Seq(S)], NEW C
  PROVE  /\ Unlink(w, C) \in [Slots -> Seq(S)]
         /\ \A x : InSome(x, Unlink(w, C)) <=> (InSome(x, w) /\ x \notin C)
         /\ AllDistinct(w) => AllDistinct(Unlink(w, C))
<1> DEFINE u == Unlink(w, C)
<1>1. DOMAIN u = Slots /\ DOMAIN w = Slots /\ \A i \in Slots : u[i] = Without(w[i], C)
  BY DEF Unlink
<1>2. \A i \in Slots : /\ u[i] \in Seq(S)
                       /\ \A x : In(x, u[i]) <=> (In(x, w[i]) /\ x \notin C)
                       /\ Distinct(w[i]) => Distinct(u[i])
  <2> SUFFICES ASSUME NEW i \in Slots
               PROVE  /\ u[i] \in Seq(S)
                      /\ \A x : In(x, u[i]) <=> (In(x, w[i]) /\ x \notin C)
                      /\ Distinct(w[i]) => Distinct(u[i])
    OBVIOUS
  <2>1. w[i] \in Seq(S)  OBVIOUS
  <2> QED  BY <1>1, <2>1, WithoutIs
<1>3. u \in [Slots -> Seq(S)]  BY <1>1, <1>2 DEF Unlink
<1> HIDE DEF u
<1>4. \A x : InSome(x, u) <=> (InSome(x, w) /\ x \notin C)  BY <1>1, <1>2 DEF InSome
<1>5. AllDistinct(w) => AllDistinct(u)
  <2> SUFFICES ASSUME AllDistinct(w), NEW i \in Slots, NEW j \in Slots,
                      NEW k \in DOMAIN u[i], NEW l \in DOMAIN u[j], u[i][k] = u[j][l]
               PROVE  i = j /\ k = l
    BY <1>1 DEF AllDistinct
  <2>1. In(u[i][k], u[i]) /\ In(u[j][l], u[j])  BY DEF In
  <2>2. In(u[i][k], w[i]) /\ In(u[i][k], w[j])  BY <1>2, <2>1
  <2>3. PICK m \in DOMAIN w[i] : w[i][m] = u[i][k]  BY <2>2 DEF In
  <2>4. PICK n \in DOMAIN w[j] : w[j][n] = u[i][k]  BY <2>2 DEF In
  <2>9. w[i][m] = w[j][n] /\ i \in DOMAIN w /\ j \in DOMAIN w  BY <2>3, <2>4, <1>1
  <2>5. i = j  BY <2>9, Zenon DEF AllDistinct
  <2>6. Distinct(w[i])  BY <1>1 DEF AllDistinct, Distinct
  <2>7. Distinct(u[i])  BY <2>6, <1>2
  <2>8. k = l  BY <2>5, <2>7 DEF Distinct
  <2> QED  BY <2>5, <2>8
<1> QED  BY <1>3, <1>4, <1>5 DEF u

LEMMA AddTailIs ==
  ASSUME NEW S, NEW s \in Seq(S), NEW c \in S
  PROVE  /\ AddTail(s, c) \in Seq(S)
         /\ \A x : In(x, AddTail(s, c)) <=> (In(x, s) \/ x = c)
         /\ Distinct(s) /\ ~In(c, s) => Distinct(AddTail(s, c))
<1> DEFINE t == <<c>>
<1>1. t \in Seq(S) /\ DOMAIN t = {1} /\ t[1] = c  OBVIOUS
<1>2. AddTail(s, c) = s \o t  BY DEF AddTail
<1> HIDE DEF t
<1>3. Distinct(t) /\ \A x : In(x, t) <=> x = c  BY <1>1 DEF Distinct, In
<1> QED  BY <1>1, <1>2, <1>3, ConcatIs

\* The head of a list, and the rest
LEMMA PopIs ==
  ASSUME NEW S, NEW s \in Seq(S), NEW n \in 0 .. Len(s)
  PROVE  /\ SubSeq(s, 1, n) \in Seq(S) /\ PopHeads(s, n) \in Seq(S)
         /\ \A x : In(x, s) <=> (In(x, SubSeq(s, 1, n)) \/ In(x, PopHeads(s, n)))
         /\ Distinct(s) => /\ Distinct(SubSeq(s, 1, n)) /\ Distinct(PopHeads(s, n))
                           /\ \A x : ~(In(x, SubSeq(s, 1, n)) /\ In(x, PopHeads(s, n)))
<1> DEFINE N == Len(s)
           h == SubSeq(s, 1, n)
           t == PopHeads(s, n)
<1>1. N \in Nat /\ DOMAIN s = 1 .. N /\ n \in Nat /\ n =< N  OBVIOUS
<1>2. h \in Seq(S) /\ DOMAIN h = 1 .. n /\ \A i \in 1 .. n : h[i] = s[i]
  <2>1. \A i \in 1 .. n : s[i] \in S  BY <1>1
  <2> QED  BY <1>1, <2>1
<1>3. t \in Seq(S) /\ DOMAIN t = 1 .. N - n /\ \A i \in 1 .. N - n : t[i] = s[n + i]
  <2>0. PICK M : M = N  OBVIOUS
  <2>1. \A i \in n + 1 .. M : s[i] \in S  BY <1>1, <2>0
  <2>2. n + 1 \in Int /\ M \in Int /\ n + 1 >= 1 /\ M - n >= 0  BY <1>1, <2>0
  <2>3. SubSeq(s, n + 1, M) = [i \in 1 .. (1 + M) - (n + 1) |-> s[(i + (n + 1)) - 1]]
    BY <2>2
  <2>4. (1 + M) - (n + 1) = M - n /\ \A i \in 1 .. M - n : (i + (n + 1)) - 1 = n + i
    BY <2>2
  <2>5. SubSeq(s, n + 1, M) = [i \in 1 .. M - n |-> s[n + i]]  BY <2>3, <2>4
  <2>6. t = [i \in 1 .. M - n |-> s[n + i]]  BY <2>5, <2>0 DEF PopHeads
  <2>7. \A i \in 1 .. M - n : n + i \in n + 1 .. M  BY <2>2
  <2>8. t \in [1 .. M - n -> S]  BY <2>6, <2>7, <2>1
  <2>9. M - n \in Nat  BY <2>2
  <2>10. t \in Seq(S)  BY <2>8, <2>9
  <2> HIDE DEF t
  <2> QED  BY <2>0, <2>6, <2>10
<1> HIDE DEF h, t
<1>4. ASSUME NEW x  PROVE In(x, s) <=> (In(x, h) \/ In(x, t))
  <2>1. ASSUME In(x, s)  PROVE In(x, h) \/ In(x, t)
    <3>1. PICK i \in DOMAIN s : s[i] = x  BY <2>1 DEF In
    <3>2. CASE i =< n
      <4>1. i \in 1 .. n  BY <3>2, <1>1
      <4> QED  BY <4>1, <3>1, <1>2 DEF In
    <3>3. CASE ~(i =< n)
      <4>1. i - n \in 1 .. N - n /\ n + (i - n) = i  BY <3>3, <1>1
      <4>2. t[i - n] = x  BY <4>1, <3>1, <1>3
      <4> QED  BY <4>1, <4>2, <1>3 DEF In
    <3> QED  BY <3>2, <3>3
  <2>2. ASSUME In(x, h)  PROVE In(x, s)
    <3>1. PICK i \in DOMAIN h : h[i] = x  BY <2>2 DEF In
    <3>2. i \in 1 .. n /\ i \in DOMAIN s  BY <1>1, <1>2
    <3> QED  BY <3>1, <3>2, <1>2 DEF In
  <2>3. ASSUME In(x, t)  PROVE In(x, s)
    <3>1. PICK i \in DOMAIN t : t[i] = x  BY <2>3 DEF In
    <3>2. i \in 1 .. N - n /\ n + i \in DOMAIN s  BY <1>1, <1>3
    <3> QED  BY <3>1, <3>2, <1>3 DEF In
  <2> QED  BY <2>1, <2>2, <2>3
<1>5. ASSUME Distinct(s)
      PROVE  Distinct(h) /\ Distinct(t) /\ \A x : ~(In(x, h) /\ In(x, t))
  <2>1. Distinct(h)
    <3> SUFFICES ASSUME NEW i \in DOMAIN h, NEW k \in DOMAIN h, h[i] = h[k]  PROVE i = k
      BY DEF Distinct
    <3>1. i \in DOMAIN s /\ k \in DOMAIN s /\ s[i] = s[k]  BY <1>1, <1>2
    <3> QED  BY <3>1, <1>5 DEF Distinct
  <2>2. Distinct(t)
    <3> SUFFICES ASSUME NEW i \in DOMAIN t, NEW k \in DOMAIN t, t[i] = t[k]  PROVE i = k
      BY DEF Distinct
    <3>1. i \in 1 .. N - n /\ k \in 1 .. N - n  BY <1>3
    <3>2. n + i \in DOMAIN s /\ n + k \in DOMAIN s /\ i \in Int /\ k \in Int  BY <1>1, <3>1
    <3>3. s[n + i] = s[n + k]  BY <1>3, <3>1
    <3>4. n + i = n + k  BY <3>2, <3>3, <1>5 DEF Distinct
    <3> QED  BY <3>2, <3>4, <1>1
  <2>3. ASSUME NEW x, In(x, h), In(x, t)  PROVE FALSE
    <3>1. PICK i \in DOMAIN h : h[i] = x  BY <2>3 DEF In
    <3>2. PICK k \in DOMAIN t : t[k] = x  BY <2>3 DEF In
    <3>3. /\ i \in 1 .. n /\ i \in DOMAIN s /\ s[i] = x
          /\ k \in 1 .. N - n
      BY <3>1, <3>2, <1>1, <1>2, <1>3
    <3>4. n + k \in DOMAIN s /\ n + k # i  BY <3>3, <1>1
    <3>5. s[n + k] = x  BY <3>2, <3>3, <1>3
    <3> QED  BY <3>3, <3>4, <3>5, <1>5 DEF Distinct
  <2> QED  BY <2>1, <2>2, <2>3
<1> QED  BY <1>2, <1>3, <1>4, <1>5 DEF h, t

\* Without its last element, and without its first
LEMMA PopOne ==
  ASSUME NEW S, NEW s \in Seq(S), s # <<>>, Distinct(s)
  PROVE  /\ LET n == Len(s)
            IN /\ SubSeq(s, 1, n - 1) \in Seq(S) /\ Distinct(SubSeq(s, 1, n - 1))
               /\ \A x : In(x, SubSeq(s, 1, n - 1)) <=> (In(x, s) /\ x # s[n])
               /\ In(s[n], s) /\ s[n] \in S
         /\ PopHeads(s, 1) \in Seq(S) /\ Distinct(PopHeads(s, 1))
         /\ \A x : In(x, PopHeads(s, 1)) <=> (In(x, s) /\ x # Head(s))
         /\ In(Head(s), s) /\ Head(s) \in S
<1>1. Len(s) \in Nat \ {0} /\ DOMAIN s = 1 .. Len(s)  OBVIOUS
<1>2. PICK n \in Nat \ {0} : n = Len(s)  BY <1>1
<1>3. n - 1 \in 0 .. Len(s) /\ 1 \in 0 .. Len(s) /\ n \in DOMAIN s /\ 1 \in DOMAIN s
  BY <1>1, <1>2
<1> DEFINE h == SubSeq(s, 1, n - 1)
           t == PopHeads(s, n - 1)
           g == SubSeq(s, 1, 1)
           r == PopHeads(s, 1)
<1>4. /\ h \in Seq(S) /\ Distinct(h)
      /\ \A x : In(x, s) <=> (In(x, h) \/ In(x, t))
      /\ \A x : ~(In(x, h) /\ In(x, t))
  BY <1>3, PopIs
<1>5. /\ r \in Seq(S) /\ Distinct(r)
      /\ \A x : In(x, s) <=> (In(x, g) \/ In(x, r))
      /\ \A x : ~(In(x, g) /\ In(x, r))
  BY <1>3, PopIs
<1>6. DOMAIN t = {1} /\ t[1] = s[n]
  <2>1. t = SubSeq(s, n, n)
    <3>1. (n - 1) + 1 = n  BY <1>2
    <3> QED  BY <3>1, <1>2 DEF PopHeads
  <2>2. s[n] \in S  BY <1>3
  <2>3. SubSeq(s, n, n) = <<s[n]>>
    <3> USE <1>1, <1>2
    <3>1. Len(SubSeq(s, n, n)) = 1 /\ SubSeq(s, n, n)[1] = s[n] /\ SubSeq(s, n, n) \in Seq(S)
      OBVIOUS
    <3>2. <<s[n]>> \in Seq(S) /\ Len(<<s[n]>>) = 1 /\ <<s[n]>>[1] = s[n]  BY <2>2
    <3>3. \A i \in 1 .. 1 : SubSeq(s, n, n)[i] = <<s[n]>>[i]
      <4>1. \A i \in 1 .. 1 : i = 1  OBVIOUS
      <4> QED  BY <3>1, <3>2, <4>1
    <3>4. PICK a, b : a = SubSeq(s, n, n) /\ b = <<s[n]>>  OBVIOUS
    <3>5. /\ a \in Seq(S) /\ b \in Seq(S) /\ Len(a) = 1 /\ Len(b) = 1
          /\ \A i \in 1 .. 1 : a[i] = b[i]
      BY <3>1, <3>2, <3>3, <3>4
    <3>6. a = b  BY <3>5, SeqEqual
    <3> QED  BY <3>4, <3>6
  <2> HIDE DEF t
  <2> QED  BY <2>1, <2>3
<1>7. DOMAIN g = {1} /\ g[1] = s[1] /\ s[1] = Head(s)
  <2>1. s[1] \in S  BY <1>3
  <2>2. Len(SubSeq(s, 1, 1)) = 1 /\ SubSeq(s, 1, 1)[1] = s[1] /\ SubSeq(s, 1, 1) \in Seq(S)
    BY <1>1, <1>2, <2>1
  <2> QED  BY <2>2
<1> HIDE DEF h, t, g, r
<1>8. \A x : (In(x, t) <=> x = s[n]) /\ (In(x, g) <=> x = Head(s))  BY <1>6, <1>7 DEF In
<1>9. In(s[n], s) /\ In(s[1], s) /\ s[n] \in S /\ s[1] \in S  BY <1>3 DEF In
<1>10. \A x : In(x, h) <=> (In(x, s) /\ x # s[n])  BY <1>4, <1>8
<1>11. \A x : In(x, r) <=> (In(x, s) /\ x # Head(s))  BY <1>5, <1>8
<1> QED  BY <1>2, <1>4, <1>5, <1>7, <1>9, <1>10, <1>11 DEF h, r

\* An item gets into the slot of its time.
LEMMA AddTimeoutIs ==
  ASSUME NEW S, NEW w \in [Slots -> Seq(S)], NEW c \in S, NEW d \in Nat
  PROVE  /\ AddTimeout(w, c, d) \in [Slots -> Seq(S)]
         /\ \A x : InSome(x, AddTimeout(w, c, d)) <=> (InSome(x, w) \/ x = c)
         /\ AllDistinct(w) /\ ~InSome(c, w) => AllDistinct(AddTimeout(w, c, d))
<1> DEFINE u == AddTimeout(w, c, d)
<1>1. PICK n \in Slots : n = Slot(w, d)  BY CoAssumption DEF Slot, Slots
<1>2. /\ DOMAIN u = Slots /\ DOMAIN w = Slots /\ u[n] = AddTail(w[n], c)
      /\ \A i \in Slots : i # n => u[i] = w[i]
  BY <1>1 DEF AddTimeout
<1>3. w[n] \in Seq(S)  OBVIOUS
<1>4. /\ u[n] \in Seq(S)
      /\ \A x : In(x, u[n]) <=> (In(x, w[n]) \/ x = c)
      /\ Distinct(w[n]) /\ ~In(c, w[n]) => Distinct(u[n])
  BY <1>2, <1>3, AddTailIs
<1>5. u \in [Slots -> Seq(S)]  BY <1>1, <1>4 DEF AddTimeout
<1> HIDE DEF u
<1>6. \A x : InSome(x, u) <=> (InSome(x, w) \/ x = c)
  <2> SUFFICES ASSUME NEW x  PROVE InSome(x, u) <=> (InSome(x, w) \/ x = c)  OBVIOUS
  <2>1. ASSUME NEW i \in Slots  PROVE In(x, u[i]) => In(x, w[i]) \/ x = c  BY <1>2, <1>4
  <2>2. ASSUME NEW i \in Slots  PROVE In(x, w[i]) => In(x, u[i])  BY <1>2, <1>4
  <2>3. x = c => In(x, u[n])  BY <1>4
  <2> QED  BY <2>1, <2>2, <2>3, <1>2 DEF InSome
<1>7. ASSUME AllDistinct(w), ~InSome(c, w)  PROVE AllDistinct(u)
  <2>1. ASSUME NEW i \in Slots, NEW j \in Slots, NEW x, In(x, u[i]), In(x, u[j])
        PROVE  i = j
    <3>1. CASE x = c
      <4>1. ASSUME NEW k \in Slots, In(c, u[k])  PROVE k = n
        <5>1. k # n => In(c, w[k])  BY <4>1, <1>2
        <5> QED  BY <5>1, <1>2, <1>7 DEF InSome
      <4> QED  BY <4>1, <3>1, <2>1
    <3>2. CASE x # c
      <4>1. In(x, w[i]) /\ In(x, w[j])  BY <3>2, <2>1, <1>2, <1>4
      <4>2. PICK k \in DOMAIN w[i] : w[i][k] = x  BY <4>1 DEF In
      <4>3. PICK l \in DOMAIN w[j] : w[j][l] = x  BY <4>1 DEF In
      <4>4. w[i][k] = w[j][l] /\ i \in DOMAIN w /\ j \in DOMAIN w  BY <4>2, <4>3, <1>2
      <4> QED  BY <4>4, <1>7, Zenon DEF AllDistinct
    <3> QED  BY <3>1, <3>2
  <2>2. ASSUME NEW i \in Slots  PROVE Distinct(u[i])
    <3>1. Distinct(w[i])  BY <1>2, <1>7 DEF AllDistinct, Distinct
    <3>2. ~In(c, w[i])  BY <1>2, <1>7 DEF InSome
    <3> QED  BY <3>1, <3>2, <1>2, <1>4
  <2> SUFFICES ASSUME NEW i \in Slots, NEW j \in Slots,
                      NEW k \in DOMAIN u[i], NEW l \in DOMAIN u[j], u[i][k] = u[j][l]
               PROVE  i = j /\ k = l
    BY <1>2 DEF AllDistinct
  <2>3. In(u[i][k], u[i]) /\ In(u[i][k], u[j])  BY DEF In
  <2>4. i = j  BY <2>1, <2>3
  <2>5. k = l  BY <2>2, <2>4 DEF Distinct
  <2> QED  BY <2>4, <2>5
<1> QED  BY <1>5, <1>6, <1>7 DEF u

\* TakeAllTimeout parts the wheel: what it takes, and what stays.
LEMMA TakenIs ==
  ASSUME NEW S, NEW w \in [Slots -> Seq(S)], NEW n \in 0 .. Size
  PROVE  /\ Join(w, n) \in Seq(S) /\ Stays(w, n) \in [Slots -> Seq(S)]
         /\ \A x : InSome(x, w) <=> (In(x, Join(w, n)) \/ InSome(x, Stays(w, n)))
         /\ AllDistinct(w) => /\ Distinct(Join(w, n)) /\ AllDistinct(Stays(w, n))
                              /\ \A x : ~(In(x, Join(w, n)) /\ InSome(x, Stays(w, n)))
<1> DEFINE u == Stays(w, n)
<1>0. Size \in Nat /\ n \in Nat /\ n =< Size /\ DOMAIN w = Slots /\ Slots = 0 .. Size - 1
  BY CoAssumption DEF Slots
<1>1. /\ Join(w, n) \in Seq(S)
      /\ \A x : In(x, Join(w, n)) <=> \E i \in 0 .. n - 1 : In(x, w[i])
      /\ AllDistinct(w) => Distinct(Join(w, n))
  BY <1>0, JoinIs
<1>2. <<>> \in Seq(S) /\ DOMAIN <<>> = {} /\ \A x : ~In(x, <<>>)
  <2>1. <<>> \in Seq(S) /\ DOMAIN <<>> = {}  OBVIOUS
  <2> QED  BY <2>1 DEF In
\* Each slot of what stays is empty or one of those that were not taken, ...
<1>3. ASSUME NEW i \in Slots
      PROVE  \/ u[i] = <<>>
             \/ \E k \in n .. Size - 1 : u[i] = w[k] /\ k = IF n = 0 THEN i ELSE i + (n - 1)
  <2>1. u[i] = IF n = 0 THEN w[i] ELSE IF i = 0 \/ i + (n - 1) >= Size THEN <<>>
               ELSE w[i + (n - 1)]
    BY DEF Stays
  <2>2. CASE n = 0
    <3>1. i \in n .. Size - 1 /\ u[i] = w[i]  BY <2>1, <2>2, <1>0
    <3> QED  BY <2>2, <3>1
  <2>3. CASE n # 0 /\ ~(i = 0 \/ i + (n - 1) >= Size)
    <3>1. i + (n - 1) \in n .. Size - 1  BY <2>3, <1>0
    <3> QED  BY <3>1, <2>1, <2>3
  <2> QED  BY <2>1, <2>2, <2>3
\* ... and each of those is in one.
<1>4. ASSUME NEW k \in n .. Size - 1  PROVE \E i \in Slots : u[i] = w[k]
  <2>1. \A i \in Slots : u[i] = IF n = 0 THEN w[i] ELSE IF i = 0 \/ i + (n - 1) >= Size THEN <<>>
                                ELSE w[i + (n - 1)]
    BY DEF Stays
  <2>2. CASE n = 0
    <3>1. k \in Slots  BY <2>2, <1>0
    <3> QED  BY <3>1, <2>1, <2>2
  <2>3. CASE n # 0
    <3>1. (k - n) + 1 \in Slots /\ (k - n) + 1 # 0 /\ ((k - n) + 1) + (n - 1) = k /\ ~(k >= Size)
      BY <2>3, <1>0
    <3> QED  BY <3>1, <2>1, <2>3
  <2> QED  BY <2>2, <2>3
<1>5. DOMAIN u = Slots /\ u \in [Slots -> Seq(S)]
  <2>1. ASSUME NEW i \in Slots  PROVE u[i] \in Seq(S)
    <3>1. \A k \in n .. Size - 1 : k \in Slots  BY <1>0
    <3> QED  BY <3>1, <1>2, <1>3
  <2>2. DOMAIN u = Slots /\ u = [i \in Slots |-> u[i]]  BY DEF Stays
  <2> HIDE DEF u
  <2> QED  BY <2>1, <2>2
<1> HIDE DEF u
<1>6. \A x : InSome(x, u) <=> \E k \in n .. Size - 1 : In(x, w[k])
  <2> SUFFICES ASSUME NEW x  PROVE InSome(x, u) <=> \E k \in n .. Size - 1 : In(x, w[k])  OBVIOUS
  <2>1. ASSUME InSome(x, u)  PROVE \E k \in n .. Size - 1 : In(x, w[k])
    <3>1. PICK i \in Slots : In(x, u[i])  BY <2>1, <1>5 DEF InSome
    <3>2. u[i] # <<>>  BY <3>1, <1>2
    <3>3. PICK k \in n .. Size - 1 : u[i] = w[k]  BY <1>3, <3>2
    <3> QED  BY <3>1, <3>3
  <2>2. ASSUME NEW k \in n .. Size - 1, In(x, w[k])  PROVE InSome(x, u)
    <3>1. PICK i \in Slots : u[i] = w[k]  BY <1>4
    <3> QED  BY <2>2, <3>1, <1>5 DEF InSome
  <2> QED  BY <2>1, <2>2
<1>7. \A x : InSome(x, w) <=> (In(x, Join(w, n)) \/ InSome(x, u))
  <2>1. \A i \in Slots : i \in 0 .. n - 1 \/ i \in n .. Size - 1  BY <1>0
  <2>2. \A i : i \in 0 .. n - 1 \/ i \in n .. Size - 1 => i \in Slots  BY <1>0
  <2> QED  BY <2>1, <2>2, <1>0, <1>1, <1>6 DEF InSome
<1>8. ASSUME AllDistinct(w)
      PROVE  AllDistinct(u) /\ \A x : ~(In(x, Join(w, n)) /\ InSome(x, u))
  <2>0. ASSUME NEW i \in Slots, NEW j \in Slots, NEW x, In(x, w[i]), In(x, w[j])  PROVE i = j
    <3>1. PICK k \in DOMAIN w[i] : w[i][k] = x  BY <2>0 DEF In
    <3>2. PICK l \in DOMAIN w[j] : w[j][l] = x  BY <2>0 DEF In
    <3>3. w[i][k] = w[j][l] /\ i \in DOMAIN w /\ j \in DOMAIN w  BY <3>1, <3>2, <1>0
    <3> QED  BY <3>3, <1>8, Zenon DEF AllDistinct
  <2>1. ASSUME NEW x, In(x, Join(w, n)), InSome(x, u)  PROVE FALSE
    <3>1. PICK i \in 0 .. n - 1 : In(x, w[i])  BY <2>1, <1>1
    <3>2. PICK k \in n .. Size - 1 : In(x, w[k])  BY <2>1, <1>6
    <3>3. i \in Slots /\ k \in Slots /\ i # k  BY <1>0
    <3> QED  BY <3>1, <3>2, <3>3, <2>0
  <2>2. AllDistinct(u)
    <3> SUFFICES ASSUME NEW i \in Slots, NEW j \in Slots,
                        NEW a \in DOMAIN u[i], NEW b \in DOMAIN u[j], u[i][a] = u[j][b]
                 PROVE  i = j /\ a = b
      BY <1>5 DEF AllDistinct
    <3>1. In(u[i][a], u[i]) /\ In(u[i][a], u[j])  BY DEF In
    <3>2. u[i] # <<>> /\ u[j] # <<>>  BY <3>1, <1>2
    <3>3. PICK k \in n .. Size - 1 : u[i] = w[k] /\ k = IF n = 0 THEN i ELSE i + (n - 1)
      BY <3>2, <1>3
    <3>4. PICK l \in n .. Size - 1 : u[j] = w[l] /\ l = IF n = 0 THEN j ELSE j + (n - 1)
      BY <3>2, <1>3
    <3>5. k \in Slots /\ l \in Slots  BY <1>0
    <3>6. k = l  BY <3>1, <3>3, <3>4, <3>5, <2>0
    <3>7. i = j
      <4>1. i \in Int /\ j \in Int  BY <1>0
      <4> QED  BY <3>3, <3>4, <3>6, <4>1, <1>0
    <3>8. a = b
      <4>1. w[k][a] = w[k][b] /\ a \in DOMAIN w[k] /\ b \in DOMAIN w[k] /\ k \in DOMAIN w
        BY <3>3, <3>5, <3>7, <1>0
      <4> QED  BY <4>1, <1>8, Zenon DEF AllDistinct
    <3> QED  BY <3>7, <3>8
  <2> QED  BY <2>1, <2>2
<1> QED  BY <1>1, <1>5, <1>7, <1>8 DEF u

-----------------------------------------------------------------------------
LEMMA NoneIs == None \notin All
BY CoAssumption DEF None, All

\* co_swap puts the frames of the one before into its buffer, and those of the
\* next one on the stack.
LEMMA SwapKeeps ==
  ASSUME TypeOK, Frames, NEW c \in All, st[c] \in Live \cup {"new"}, SwapTo(c)
  PROVE  /\ occupy' \in Shared \cup {None} /\ content' \in All \cup {None}
         /\ saved' \in [All -> All \cup {None}]
         /\ \A d \in Shared : st[d] \in Live \/ d = c => Framed(d)'
         /\ occupy' = occupy \/ occupy' = c
         /\ c \in Shared => occupy' = c
<1>0. Shared \subseteq All /\ None \notin All  BY CoAssumption, NoneIs DEF All
<1>1. CASE c \notin Shared
  <2>1. occupy' = occupy /\ content' = content /\ saved' = saved  BY <1>1 DEF SwapTo, stack
  <2> QED  BY <1>1, <2>1 DEF TypeOK, Frames, Framed, Live
<1>2. CASE c \in Shared
  <2>1. /\ occupy' = c
        /\ saved' = IF occupy \in {None, c} THEN saved ELSE [saved EXCEPT ![occupy] = content]
        /\ content' = IF st[c] = "new" THEN c
                      ELSE IF Restores(c) THEN saved[c] ELSE content
    BY <1>2 DEF SwapTo
  <2>2. saved' \in [All -> All \cup {None}]  BY <2>1, <1>0 DEF TypeOK
  <2>3. content' \in All \cup {None}  BY <2>1, <1>0 DEF TypeOK
  <2>4. content' = c
    <3>1. CASE st[c] = "new"  BY <3>1, <2>1
    <3>2. CASE st[c] # "new"
      <4>1. IF occupy = c THEN content = c ELSE saved[c] = c  BY <3>2, <1>2 DEF Frames, Framed, Live
      <4> QED  BY <4>1, <3>2, <2>1, <1>0 DEF Restores
    <3> QED  BY <3>1, <3>2
  <2>5. ASSUME NEW d \in Shared, st[d] \in Live, d # c  PROVE saved'[d] = d
    <3>1. IF occupy = d THEN content = d ELSE saved[d] = d  BY <2>5 DEF Frames, Framed, Live
    <3>2. CASE occupy = d
      <4>1. saved' = [saved EXCEPT ![d] = content]  BY <3>2, <2>5, <2>1, <1>0
      <4> QED  BY <3>1, <3>2, <4>1, <1>0 DEF TypeOK
    <3>3. CASE occupy # d  BY <3>1, <3>3, <2>1, <1>0 DEF TypeOK
    <3> QED  BY <3>2, <3>3
  <2> QED  BY <1>2, <2>1, <2>2, <2>3, <2>4, <2>5 DEF Framed
<1> QED  BY <1>1, <1>2

\* The one that runs is the last that was resumed.
LEMMA RunsIs ==
  ASSUME TypeOK, Places, NEW c, Runs(c)
  PROVE  /\ c \in All /\ In(c, callStack) /\ st[c] = "run" /\ callStack # <<>>
         /\ Len(callStack) \in Nat \ {0} /\ callStack[Len(callStack)] = c
<1>1. callStack # <<>> /\ callStack[Len(callStack)] = c /\ callStack \in Seq(All)
  BY DEF Runs, TypeOK
<1>2. Len(callStack) \in Nat \ {0} /\ DOMAIN callStack = 1 .. Len(callStack)  BY <1>1
<1>3. Len(callStack) \in DOMAIN callStack  BY <1>2
<1>4. c \in All  BY <1>1, <1>2, <1>3
<1>5. In(c, callStack)  BY <1>1, <1>3 DEF In
<1> QED  BY <1>1, <1>2, <1>4, <1>5 DEF Places, Place

LEMMA YieldKeeps ==
  ASSUME IInv, NEW c, Runs(c), Yield
  PROVE  /\ callStack' \in Seq(All) /\ Distinct(callStack)'
         /\ \A x : In(x, callStack') <=> (In(x, callStack) /\ x # c)
         /\ occupy' \in Shared \cup {None} /\ content' \in All \cup {None}
         /\ saved' \in [All -> All \cup {None}]
         /\ \A d \in Shared : st[d] \in Live => Framed(d)'
         /\ occupy' = occupy \/ (occupy' \in All /\ st[occupy'] = "run")
         /\ \A d \in Shared : Runs(d)' => occupy' = d
<1>0. Shared \subseteq All  BY CoAssumption DEF All
<1>1. PICK n \in Nat \ {0} : /\ n = Len(callStack) /\ callStack[n] = c /\ callStack # <<>>
                             /\ callStack \in Seq(All) /\ Distinct(callStack)
  BY RunsIs DEF IInv, Lists, TypeOK
<1>2. callStack' = SubSeq(callStack, 1, n - 1)  BY <1>1 DEF Yield
<1>3. /\ callStack' \in Seq(All) /\ Distinct(callStack')
      /\ \A x : In(x, callStack') <=> (In(x, callStack) /\ x # c)
  BY <1>1, <1>2, PopOne
<1>4. CASE n = 1
  <2>1. occupy' = occupy /\ content' = content /\ saved' = saved
    BY <1>1, <1>4 DEF Yield, stack
  <2>2. callStack' = <<>>  BY <1>2, <1>4, <1>1
  <2>3. \A d : ~Runs(d)'  BY <2>2 DEF Runs
  <2> QED  BY <1>3, <2>1, <2>3 DEF IInv, TypeOK, Frames, Framed, Live
<1>5. CASE n # 1
  <2>1. n - 1 \in Nat \ {0} /\ n - 1 \in DOMAIN callStack /\ n - 1 < n
    BY <1>1, <1>5
  <2> DEFINE d == callStack[n - 1]
  <2>2. d \in All /\ In(d, callStack)  BY <1>1, <2>1 DEF In
  <2>3. st[d] = "run"  BY <2>2 DEF IInv, Places, Place
  <2>4. SwapTo(d)  BY <1>1, <1>5 DEF Yield
  <2>5. callStack'[Len(callStack')] = d
    <3>1. Len(callStack') = n - 1 /\ callStack'[n - 1] = callStack[n - 1]
      BY <1>1, <1>2, <2>1
    <3> QED  BY <3>1
  <2> HIDE DEF d
  <2>6. /\ occupy' \in Shared \cup {None} /\ content' \in All \cup {None}
        /\ saved' \in [All -> All \cup {None}]
        /\ \A e \in Shared : st[e] \in Live => Framed(e)'
        /\ occupy' = occupy \/ occupy' = d
        /\ d \in Shared => occupy' = d
    BY <2>2, <2>3, <2>4, SwapKeeps DEF IInv, Live
  <2>7. \A e \in Shared : Runs(e)' => occupy' = e  BY <2>5, <2>6 DEF Runs
  <2> QED  BY <1>3, <2>2, <2>3, <2>6, <2>7
<1> QED  BY <1>3, <1>4, <1>5

LEMMA ResumeKeeps ==
  ASSUME IInv, NEW c \in All, st[c] \in {"new", "yield", "poll", "cond"}, Resume(c)
  PROVE  /\ callStack' \in Seq(All) /\ Distinct(callStack)'
         /\ \A x : In(x, callStack') <=> (In(x, callStack) \/ x = c)
         /\ occupy' \in Shared \cup {None} /\ content' \in All \cup {None}
         /\ saved' \in [All -> All \cup {None}]
         /\ \A d \in Shared : st[d] \in Live \/ d = c => Framed(d)'
         /\ occupy' = occupy \/ occupy' = c
         /\ \A d \in Shared : Runs(d)' => occupy' = d
<1>1. callStack' = AddTail(callStack, c) /\ SwapTo(c)  BY DEF Resume, AddTail
<1>2. ~In(c, callStack)  BY DEF IInv, Places, Place
<1>3. /\ callStack' \in Seq(All) /\ Distinct(callStack)'
      /\ \A x : In(x, callStack') <=> (In(x, callStack) \/ x = c)
  BY <1>1, <1>2, AddTailIs DEF IInv, TypeOK, Lists
<1>4. callStack'[Len(callStack')] = c
  <2>1. callStack \in Seq(All) /\ callStack' = Append(callStack, c)
    BY <1>1 DEF IInv, TypeOK, AddTail
  <2> QED  BY <2>1
<1>5. /\ occupy' \in Shared \cup {None} /\ content' \in All \cup {None}
      /\ saved' \in [All -> All \cup {None}]
      /\ \A d \in Shared : st[d] \in Live \/ d = c => Framed(d)'
      /\ occupy' = occupy \/ occupy' = c
      /\ c \in Shared => occupy' = c
  BY <1>1, SwapKeeps DEF IInv, Live
<1>6. \A d \in Shared : Runs(d)' => occupy' = d  BY <1>4, <1>5 DEF Runs
<1> QED  BY <1>3, <1>5, <1>6

-----------------------------------------------------------------------------
LEMMA InitIs == Init => IInv
<1> SUFFICES ASSUME Init  PROVE IInv  OBVIOUS
<1> USE DEF Init, AllocEpoll, StartGc
<1>0. /\ Gc \in All /\ Gc \notin Shared /\ Shared \subseteq All /\ None \notin All
      /\ 1 \in Slots /\ 0 \in Nat /\ 0 \in GetTickMS
  BY CoAssumption, NoneIs DEF All, Slots, GetTickMS
<1>1. /\ <<>> \in Seq(All) /\ <<Gc>> \in Seq(All) /\ \A x : ~In(x, <<>>)
      /\ DOMAIN <<Gc>> = {1} /\ <<Gc>>[1] = Gc /\ DOMAIN <<>> = {}
  <2>1. <<>> \in Seq(All) /\ <<Gc>> \in Seq(All) /\ DOMAIN <<>> = {}
    BY <1>0
  <2> QED  BY <2>1 DEF In
<1>2. TypeOK
  <2>1. wheel \in [Slots -> Seq(All)]  BY <1>1
  <2> QED  BY <1>0, <1>1, <2>1 DEF TypeOK
<1>3. Lists
  <2>1. AllDistinct(wheel)
    <3>1. \A i \in Slots : DOMAIN wheel[i] = IF i = 1 THEN {1} ELSE {}  BY <1>1
    <3>2. DOMAIN wheel = Slots  OBVIOUS
    <3> QED  BY <3>1, <3>2 DEF AllDistinct
  <2> QED  BY <1>1, <2>1 DEF Lists, Distinct
<1>4. \A x : InSome(x, wheel) <=> x = Gc
  <2>1. wheel[1] = <<Gc>> /\ DOMAIN wheel = Slots /\ \A i \in Slots : i # 1 => wheel[i] = <<>>
    BY <1>0
  <2>2. \A x : In(x, <<Gc>>) <=> x = Gc  BY <1>1 DEF In
  <2> QED  BY <2>1, <2>2, <1>0, <1>1 DEF InSome
<1>5. Places
  BY <1>0, <1>1, <1>4 DEF Places, Place
<1>6. GcAlone /\ Registered
  BY <1>0, <1>1 DEF GcAlone, Registered
<1>7. Frames
  <2>1. \A c \in Shared : st[c] = "free"  BY <1>0
  <2>2. \A c : ~Runs(c)  BY DEF Runs
  <2> QED  BY <2>1, <2>2 DEF Frames, Live
<1> QED  BY <1>2, <1>3, <1>5, <1>6, <1>7 DEF IInv

\* Every action preserves the invariant.
LEMMA CreateKeeps ==
  ASSUME IInv, NEW c \in Cos, Create(c)
  PROVE  IInv'
<1>0. c \in All /\ c # Gc /\ Shared \subseteq All /\ None \notin All
  BY CoAssumption, NoneIs DEF All
<1> USE DEF Create, items, kernel
<1>1. st[c] \in {"free", "none"}  BY DEF Alloc
<1>2. /\ st' = [st EXCEPT ![c] = "new"] /\ saved' = [saved EXCEPT ![c] = None]
      /\ UNCHANGED <<callStack, wheel, active, left, bTimeout, waits, fds, reg, loopNow, pc, occupy, content>>
  OBVIOUS
<1>3. TypeOK'  BY <1>0, <1>2 DEF IInv, TypeOK
<1>4. Lists'  BY <1>2 DEF IInv, Lists
<1>5. Places'  BY <1>0, <1>1, <1>2 DEF IInv, Places, Place, TypeOK
<1>6. GcAlone'  BY <1>0, <1>2 DEF IInv, GcAlone, TypeOK
<1>7. Registered'  BY <1>0, <1>1, <1>2 DEF IInv, Registered, TypeOK
<1>8. Frames'
  <2>1. occupy # c  BY <1>0, <1>1 DEF IInv, Frames
  <2>2. \A d \in Shared : st'[d] \in Live => Framed(d)'
    BY <1>0, <1>1, <1>2, <2>1 DEF IInv, Frames, Framed, Live, TypeOK
  <2>3. occupy' # None => st'[occupy'] \notin {"free", "none", "new"}
    BY <1>0, <1>2, <2>1 DEF IInv, Frames, TypeOK
  <2>4. \A d \in Shared : Runs(d)' => occupy' = d  BY <1>2 DEF IInv, Frames, Runs
  <2> QED  BY <2>2, <2>3, <2>4 DEF Frames
<1> QED  BY <1>3, <1>4, <1>5, <1>6, <1>7, <1>8 DEF IInv

LEMMA UserResumeKeeps ==
  ASSUME IInv, NEW c \in Cos, UserResume(c)
  PROVE  IInv'
<1>0. c \in All /\ c # Gc /\ Gc \in All /\ Shared \subseteq All /\ None \notin All
  BY CoAssumption, NoneIs DEF All
<1>1. /\ UserRuns /\ st[c] \in {"new", "yield"} /\ Resume(c) /\ st' = [st EXCEPT ![c] = "run"]
      /\ UNCHANGED <<wheel, active, left, bTimeout, waits, fds, reg, loopNow, pc>>
  BY DEF UserResume, items, kernel
<1>2. /\ callStack' \in Seq(All) /\ Distinct(callStack)'
      /\ \A x : In(x, callStack') <=> (In(x, callStack) \/ x = c)
      /\ occupy' \in Shared \cup {None} /\ content' \in All \cup {None}
      /\ saved' \in [All -> All \cup {None}]
      /\ \A d \in Shared : st[d] \in Live \/ d = c => Framed(d)'
      /\ occupy' = occupy \/ occupy' = c
      /\ \A d \in Shared : Runs(d)' => occupy' = d
  BY <1>0, <1>1, ResumeKeeps
<1>3. TypeOK'  BY <1>0, <1>1, <1>2 DEF IInv, TypeOK
<1>4. Lists'  BY <1>1, <1>2 DEF IInv, Lists
<1>5. Places'  BY <1>0, <1>1, <1>2 DEF IInv, Places, Place, TypeOK
<1>6. GcAlone'
  <2>1. ~In(Gc, callStack)
    <3>1. ASSUME In(Gc, callStack)  PROVE FALSE
      <4>1. callStack = <<Gc>>  BY <3>1 DEF IInv, GcAlone
      <4>2. Runs(Gc) /\ callStack # <<>>  BY <4>1 DEF Runs
      <4> QED  BY <4>2, <1>1 DEF UserRuns
    <3> QED  BY <3>1
  <2> QED  BY <2>1, <1>0, <1>1, <1>2 DEF IInv, GcAlone, TypeOK
<1>7. Registered'  BY <1>0, <1>1 DEF IInv, Registered, TypeOK
<1>8. Frames'
  BY <1>0, <1>1, <1>2 DEF IInv, Frames, TypeOK, Live
<1> QED  BY <1>3, <1>4, <1>5, <1>6, <1>7, <1>8 DEF IInv

\* What yielding keeps, whatever the coroutine waits for then
LEMMA YieldGives ==
  ASSUME IInv, NEW c \in Cos, Runs(c), Yield,
         NEW s \in {"yield", "end", "poll", "cond"}, st' = [st EXCEPT ![c] = s]
  PROVE  /\ callStack' \in Seq(All) /\ Distinct(callStack)' /\ st' \in [All -> {"none", "free", "new", "run", "yield", "poll", "cond", "end"}]
         /\ \A x \in All : In(x, callStack') <=> st'[x] = "run"
         /\ occupy' \in Shared \cup {None} /\ content' \in All \cup {None}
         /\ saved' \in [All -> All \cup {None}]
         /\ GcAlone' /\ Frames'
<1>0. c \in All /\ c # Gc /\ Gc \in All /\ Shared \subseteq All /\ None \notin All
  BY CoAssumption, NoneIs DEF All
<1>1. /\ In(c, callStack) /\ st[c] = "run" /\ callStack # <<>>
      /\ callStack[Len(callStack)] = c
  BY RunsIs DEF IInv
<1>2. /\ callStack' \in Seq(All) /\ Distinct(callStack)'
      /\ \A x : In(x, callStack') <=> (In(x, callStack) /\ x # c)
      /\ occupy' \in Shared \cup {None} /\ content' \in All \cup {None}
      /\ saved' \in [All -> All \cup {None}]
      /\ \A d \in Shared : st[d] \in Live => Framed(d)'
      /\ occupy' = occupy \/ (occupy' \in All /\ st[occupy'] = "run")
      /\ \A d \in Shared : Runs(d)' => occupy' = d
  BY YieldKeeps
<1>3. st' \in [All -> {"none", "free", "new", "run", "yield", "poll", "cond", "end"}]
  BY DEF IInv, TypeOK
<1>4. \A x \in All : In(x, callStack') <=> st'[x] = "run"
  BY <1>0, <1>1, <1>2 DEF IInv, Places, Place, TypeOK
<1>5. GcAlone'
  <2>1. ~In(Gc, callStack)
    <3>1. ASSUME In(Gc, callStack)  PROVE FALSE
      <4>1. callStack = <<Gc>>  BY <3>1 DEF IInv, GcAlone
      <4> QED  BY <4>1, <1>0, <1>1
    <3> QED  BY <3>1
  <2> QED  BY <2>1, <1>0, <1>2 DEF IInv, GcAlone, TypeOK
<1>6. Frames'
  <2>1. \A d \in Shared : st'[d] \in Live => Framed(d)'
    BY <1>0, <1>1, <1>2 DEF IInv, TypeOK, Live
  <2>2. occupy' # None => st'[occupy'] \notin {"free", "none", "new"}
    BY <1>0, <1>1, <1>2 DEF IInv, TypeOK, Frames
  <2> QED  BY <2>1, <2>2, <1>2 DEF Frames
<1> QED  BY <1>2, <1>3, <1>4, <1>5, <1>6

LEMMA LeaveKeeps ==
  ASSUME IInv, NEW c \in Cos, UserYield(c) \/ CoRoutineFunc(c)
  PROVE  IInv'
<1>0. c \in All  BY DEF All
<1>1. PICK s \in {"yield", "end"} : st' = [st EXCEPT ![c] = s]
  BY DEF UserYield, CoRoutineFunc, PoolRelease
<1>2. /\ Runs(c) /\ Yield
      /\ UNCHANGED <<wheel, active, left, bTimeout, waits, fds, reg, loopNow, pc>>
  BY DEF UserYield, CoRoutineFunc, items, kernel
<1>3. /\ callStack' \in Seq(All) /\ Distinct(callStack)'
      /\ st' \in [All -> {"none", "free", "new", "run", "yield", "poll", "cond", "end"}]
      /\ \A x \in All : In(x, callStack') <=> st'[x] = "run"
      /\ occupy' \in Shared \cup {None} /\ content' \in All \cup {None}
      /\ saved' \in [All -> All \cup {None}]
      /\ GcAlone' /\ Frames'
  BY <1>1, <1>2, YieldGives
<1>4. st[c] = "run"  BY <1>2, RunsIs DEF IInv
<1>5. TypeOK'  BY <1>2, <1>3 DEF IInv, TypeOK
<1>6. Lists'  BY <1>2, <1>3 DEF IInv, Lists
<1>7. Places'  BY <1>0, <1>1, <1>2, <1>3, <1>4 DEF IInv, Places, Place, TypeOK
<1>8. Registered'  BY <1>0, <1>1, <1>2, <1>4, NoneIs DEF IInv, Registered, TypeOK
<1> QED  BY <1>3, <1>5, <1>6, <1>7, <1>8 DEF IInv

LEMMA UserPollKeeps ==
  ASSUME IInv, NEW c \in Cos, NEW F \in SUBSET Fds, NEW t \in Timeouts, UserPoll(c, F, t)
  PROVE  IInv'
<1>0. c \in All /\ None \notin All /\ t \in Nat  BY CoAssumption, NoneIs DEF All
<1>1. PICK now \in GetTickMS : Poll(c, F, t, now)  BY DEF UserPoll
<1>2. /\ Runs(c) /\ Yield /\ now >= 0 /\ st' = [st EXCEPT ![c] = "poll"]
      /\ left' = [left EXCEPT ![c] = now + t] /\ bTimeout' = [bTimeout EXCEPT ![c] = FALSE]
      /\ wheel' = AddTimeout(wheel, c, now + t)
      /\ fds' = [fds EXCEPT ![c] = F]
      /\ reg' = [f \in Fds |-> IF f \in F /\ reg[f] = None THEN c ELSE reg[f]]
      /\ UNCHANGED <<active, waits, loopNow, pc>>
  BY <1>1 DEF UserPoll, Poll
<1>3. /\ callStack' \in Seq(All) /\ Distinct(callStack)'
      /\ st' \in [All -> {"none", "free", "new", "run", "yield", "poll", "cond", "end"}]
      /\ \A x \in All : In(x, callStack') <=> st'[x] = "run"
      /\ occupy' \in Shared \cup {None} /\ content' \in All \cup {None}
      /\ saved' \in [All -> All \cup {None}]
      /\ GcAlone' /\ Frames'
  BY <1>2, YieldGives
<1>4. st[c] = "run" /\ now + t \in Nat
  BY <1>0, <1>2, RunsIs, CoAssumption DEF IInv, GetTickMS
<1>5. ~In(c, active) /\ ~InSome(c, wheel) /\ ~In(c, waits)
  BY <1>0, <1>4 DEF IInv, Places, Place
<1>6. /\ wheel' \in [Slots -> Seq(All)] /\ AllDistinct(wheel)'
      /\ \A x : InSome(x, wheel') <=> (InSome(x, wheel) \/ x = c)
  <2>1. wheel \in [Slots -> Seq(All)] /\ AllDistinct(wheel)  BY DEF IInv, TypeOK, Lists
  <2> DEFINE w == AddTimeout(wheel, c, now + t)
  <2>2. /\ w \in [Slots -> Seq(All)] /\ AllDistinct(w)
        /\ \A x : InSome(x, w) <=> (InSome(x, wheel) \/ x = c)
    BY <2>1, <1>0, <1>4, <1>5, AddTimeoutIs
  <2>3. wheel' = w  BY <1>2
  <2> HIDE DEF w
  <2> QED  BY <2>2, <2>3
<1>7. TypeOK'
  <2>1. reg' \in [Fds -> All \cup {None}]  BY <1>0, <1>2 DEF IInv, TypeOK
  <2>2. fds' \in [All -> SUBSET Fds]  BY <1>2 DEF IInv, TypeOK
  <2>3. left' \in [All -> Nat]  BY <1>2, <1>4 DEF IInv, TypeOK
  <2>4. bTimeout' \in [All -> BOOLEAN]  BY <1>2 DEF IInv, TypeOK
  <2> QED  BY <1>2, <1>3, <1>6, <2>1, <2>2, <2>3, <2>4 DEF IInv, TypeOK
<1>8. Lists'  BY <1>2, <1>3, <1>6 DEF IInv, Lists
<1>9. Places'
  <2> SUFFICES ASSUME NEW x \in All  PROVE Place(x)'  BY DEF Places
  <2>1. Place(x)  BY DEF IInv, Places
  <2>2. In(x, callStack') <=> st'[x] = "run"  BY <1>3
  <2>3. InSome(x, wheel') <=> (InSome(x, wheel) \/ x = c)  BY <1>6
  <2>4. st'[x] = IF x = c THEN "poll" ELSE st[x]  BY <1>2 DEF IInv, TypeOK
  <2> QED  BY <2>1, <2>2, <2>3, <2>4, <1>2, <1>5 DEF Place
<1>10. Registered'
  <2> SUFFICES ASSUME NEW f \in Fds, reg'[f] # None
               PROVE  st'[reg'[f]] = "poll" /\ f \in fds'[reg'[f]]
    BY DEF Registered
  <2>1. CASE f \in F /\ reg[f] = None
    <3>1. reg'[f] = c  BY <2>1, <1>2
    <3> QED  BY <3>1, <2>1, <1>0, <1>2 DEF IInv, TypeOK
  <2>2. CASE ~(f \in F /\ reg[f] = None)
    <3>1. reg'[f] = reg[f] /\ reg[f] \in All  BY <2>2, <1>2 DEF IInv, TypeOK
    <3>2. st[reg[f]] = "poll" /\ f \in fds[reg[f]]  BY <3>1 DEF IInv, Registered
    <3> QED  BY <3>1, <3>2, <1>2, <1>4 DEF IInv, TypeOK
  <2> QED  BY <2>1, <2>2
<1> QED  BY <1>3, <1>7, <1>8, <1>9, <1>10 DEF IInv

LEMMA PollFailsKeeps ==
  ASSUME IInv, NEW c \in Cos, PollFails(c, Fds)
  PROVE  IInv'
<1>1. /\ reg' = [f \in Fds |-> IF f \in Fds THEN None ELSE reg[f]]
      /\ UNCHANGED <<callStack, st, wheel, active, left, bTimeout, waits, fds, loopNow, pc,
                     occupy, content, saved>>
  BY DEF PollFails, items, stack
<1>2. TypeOK'  BY <1>1 DEF IInv, TypeOK
<1>3. Lists' /\ GcAlone'  BY <1>1 DEF IInv, Lists, GcAlone
<1>4. Places'  BY <1>1 DEF IInv, Places, Place
<1>5. Registered'  BY <1>1 DEF IInv, Registered
<1>6. Frames'  BY <1>1 DEF IInv, Frames, Framed, Runs
<1> QED  BY <1>2, <1>3, <1>4, <1>5, <1>6 DEF IInv

LEMMA CondWaitKeeps ==
  ASSUME IInv, NEW c \in Cos, NEW t \in Timeouts \cup {0}, CondWait(c, t)
  PROVE  IInv'
<1>0. c \in All /\ None \notin All /\ t \in Nat  BY CoAssumption, NoneIs DEF All
<1>1. PICK now \in GetTickMS :
        /\ now >= 0
        /\ left' = [left EXCEPT ![c] = IF t > 0 THEN now + t ELSE 0]
        /\ wheel' = IF t > 0 THEN AddTimeout(wheel, c, now + t) ELSE wheel
  BY DEF CondWait
<1>2. /\ Runs(c) /\ Yield /\ st' = [st EXCEPT ![c] = "cond"]
      /\ bTimeout' = [bTimeout EXCEPT ![c] = FALSE]
      /\ waits' = AddTail(waits, c)
      /\ UNCHANGED <<active, fds, reg, loopNow, pc>>
  BY DEF CondWait, kernel
<1>3. /\ callStack' \in Seq(All) /\ Distinct(callStack)'
      /\ st' \in [All -> {"none", "free", "new", "run", "yield", "poll", "cond", "end"}]
      /\ \A x \in All : In(x, callStack') <=> st'[x] = "run"
      /\ occupy' \in Shared \cup {None} /\ content' \in All \cup {None}
      /\ saved' \in [All -> All \cup {None}]
      /\ GcAlone' /\ Frames'
  BY <1>2, YieldGives
<1>4. st[c] = "run" /\ now + t \in Nat
  BY <1>0, <1>1, <1>2, RunsIs, CoAssumption DEF IInv, GetTickMS
<1>5. ~In(c, active) /\ ~InSome(c, wheel) /\ ~In(c, waits)
  BY <1>0, <1>4 DEF IInv, Places, Place
<1>6. /\ wheel' \in [Slots -> Seq(All)] /\ AllDistinct(wheel)'
      /\ \A x : InSome(x, wheel') <=> (InSome(x, wheel) \/ (t > 0 /\ x = c))
  <2>0. wheel \in [Slots -> Seq(All)] /\ AllDistinct(wheel)  BY DEF IInv, TypeOK, Lists
  <2>1. CASE t > 0
    <3> DEFINE w == AddTimeout(wheel, c, now + t)
    <3>1. /\ w \in [Slots -> Seq(All)] /\ AllDistinct(w)
          /\ \A x : InSome(x, w) <=> (InSome(x, wheel) \/ x = c)
      BY <2>0, <1>0, <1>4, <1>5, AddTimeoutIs
    <3>2. wheel' = w  BY <1>1, <2>1
    <3> HIDE DEF w
    <3> QED  BY <3>1, <3>2, <2>1
  <2>2. CASE ~(t > 0)
    <3>1. wheel' = wheel  BY <2>2, <1>1
    <3> QED  BY <2>0, <2>2, <3>1
  <2> QED  BY <2>1, <2>2
<1>7. /\ waits' \in Seq(All) /\ Distinct(waits)'
      /\ \A x : In(x, waits') <=> (In(x, waits) \/ x = c)
  BY <1>0, <1>2, <1>5, AddTailIs DEF IInv, TypeOK, Lists
<1>8. TypeOK'
  <2>1. left' \in [All -> Nat]  BY <1>1, <1>4 DEF IInv, TypeOK
  <2>2. bTimeout' \in [All -> BOOLEAN]  BY <1>2 DEF IInv, TypeOK
  <2> QED  BY <1>2, <1>3, <1>6, <1>7, <2>1, <2>2 DEF IInv, TypeOK
<1>9. Lists'  BY <1>2, <1>3, <1>6, <1>7 DEF IInv, Lists
<1>10. Places'
  <2> SUFFICES ASSUME NEW x \in All  PROVE Place(x)'  BY DEF Places
  <2>1. Place(x)  BY DEF IInv, Places
  <2>2. In(x, callStack') <=> st'[x] = "run"  BY <1>3
  <2>3. InSome(x, wheel') <=> (InSome(x, wheel) \/ (t > 0 /\ x = c))  BY <1>6
  <2>4. In(x, waits') <=> (In(x, waits) \/ x = c)  BY <1>7
  <2>5. st'[x] = IF x = c THEN "cond" ELSE st[x]  BY <1>2 DEF IInv, TypeOK
  <2> QED  BY <2>1, <2>2, <2>3, <2>4, <2>5, <1>2, <1>5 DEF Place
<1>11. Registered'
  <2> SUFFICES ASSUME NEW f \in Fds, reg[f] # None
               PROVE  st'[reg[f]] = "poll" /\ f \in fds[reg[f]]
    BY <1>2 DEF Registered
  <2>1. reg[f] \in All /\ st[reg[f]] = "poll" /\ f \in fds[reg[f]]
    BY DEF IInv, TypeOK, Registered
  <2> QED  BY <2>1, <1>2, <1>4 DEF IInv, TypeOK
<1> QED  BY <1>3, <1>8, <1>9, <1>10, <1>11 DEF IInv

LEMMA SignalKeeps ==
  ASSUME IInv, Signal
  PROVE  IInv'
<1>1. PICK n \in {1, Len(waits)} : waits' = PopHeads(waits, n) /\ Woken(CondPop(n))
  BY DEF Signal
<1>2. /\ waits # <<>>
      /\ UNCHANGED <<callStack, st, left, bTimeout, fds, reg, loopNow, pc, occupy, content, saved>>
  BY DEF Signal, kernel, stack
<1> DEFINE C == CondPop(n)
           W == {C[i] : i \in DOMAIN C}
<1>3. n \in 0 .. Len(waits)
  <2>1. waits \in Seq(All) /\ waits # <<>>  BY <1>2 DEF IInv, TypeOK
  <2> QED  BY <2>1
<1>4. /\ C \in Seq(All) /\ waits' \in Seq(All) /\ Distinct(C) /\ Distinct(waits')
      /\ \A x : In(x, waits) <=> (In(x, C) \/ In(x, waits'))
      /\ \A x : ~(In(x, C) /\ In(x, waits'))
  BY <1>1, <1>3, PopIs DEF CondPop, IInv, TypeOK, Lists
<1>5. wheel' = Unlink(wheel, W) /\ active' = Without(active, W) \o C
  BY <1>1 DEF Woken
<1> HIDE DEF C
<1>6. \A x : x \in W <=> In(x, C)  BY DEF In
<1> HIDE DEF W
<1>7. /\ wheel' \in [Slots -> Seq(All)] /\ AllDistinct(wheel')
      /\ \A x : InSome(x, wheel') <=> (InSome(x, wheel) /\ ~In(x, C))
  <2>1. wheel \in [Slots -> Seq(All)] /\ AllDistinct(wheel)  BY DEF IInv, TypeOK, Lists
  <2> DEFINE w == Unlink(wheel, W)
  <2>2. /\ w \in [Slots -> Seq(All)] /\ AllDistinct(w)
        /\ \A x : InSome(x, w) <=> (InSome(x, wheel) /\ x \notin W)
    BY <2>1, UnlinkIs
  <2>3. wheel' = w  BY <1>5
  <2> HIDE DEF w
  <2> QED  BY <2>2, <2>3, <1>6
<1> DEFINE A == Without(active, W)
<1>8. /\ A \in Seq(All) /\ Distinct(A)
      /\ \A x : In(x, A) <=> (In(x, active) /\ ~In(x, C))
  BY <1>6, WithoutIs DEF IInv, TypeOK, Lists
<1>9. /\ active' \in Seq(All) /\ Distinct(active')
      /\ \A x : In(x, active') <=> (In(x, active) \/ In(x, C))
  <2>1. active' = A \o C  BY <1>5
  <2> HIDE DEF A
  <2> QED  BY <2>1, <1>4, <1>8, ConcatIs
<1>10. TypeOK'  BY <1>2, <1>4, <1>7, <1>9 DEF IInv, TypeOK
<1>11. Lists'  BY <1>2, <1>4, <1>7, <1>9 DEF IInv, Lists
<1>12. Places'
  <2> SUFFICES ASSUME NEW x \in All  PROVE Place(x)'  BY DEF Places
  <2>1. Place(x)  BY DEF IInv, Places
  <2>2. InSome(x, wheel') <=> (InSome(x, wheel) /\ ~In(x, C))  BY <1>7
  <2>3. In(x, active') <=> (In(x, active) \/ In(x, C))  BY <1>9
  <2>4. (In(x, waits) <=> (In(x, C) \/ In(x, waits')))  BY <1>4
  <2> QED  BY <2>1, <2>2, <2>3, <2>4, <1>2 DEF Place
<1>13. GcAlone' /\ Registered'  BY <1>2 DEF IInv, GcAlone, Registered
<1>14. Frames'  BY <1>2 DEF IInv, Frames, Framed, Runs
<1> QED  BY <1>10, <1>11, <1>12, <1>13, <1>14 DEF IInv

\* OnPollPreparePfn takes each poll once, as often as there are some.
LEMMA OrdersAre ==
  ASSUME NEW C \in SUBSET All, NEW e \in Orders(C)
  PROVE  e \in Seq(All) /\ Distinct(e) /\ \A x : In(x, e) <=> x \in C
<1>1. IsFiniteSet(All)
  <2>1. IsFiniteSet(Cos \cup {Gc})  BY CoAssumption, FS_AddElement
  <2> QED  BY <2>1 DEF All
<1>2. IsFiniteSet(C)  BY <1>1, FS_Subset
<1>3. PICK n \in Nat : n = Cardinality(C)  BY <1>2, FS_CardinalityType
<1>4. e \in [1 .. n -> C] /\ \A c \in C : \E i \in DOMAIN e : e[i] = c  BY <1>3 DEF Orders
<1>5. IsFiniteSet(1 .. n) /\ Cardinality(1 .. n) = n
  <2>1. IsFiniteSet(1 .. n) /\ Cardinality(1 .. n) = IF 1 > n THEN 0 ELSE (n - 1) + 1
    BY FS_Interval
  <2> QED  BY <2>1
<1>6. e \in Surjection(1 .. n, C)  BY <1>4 DEF Surjection
<1>7. e \in Injection(1 .. n, C)  BY <1>3, <1>5, <1>6, FS_SurjSameCardinalityImpliesInj
<1>8. Distinct(e)  BY <1>4, <1>7 DEF Injection, IsInjective, Distinct
<1>9. e \in Seq(All)
  <2>1. e \in [1 .. n -> All]  BY <1>4
  <2> QED  BY <2>1
<1>10. \A x : In(x, e) <=> x \in C  BY <1>4 DEF In
<1> QED  BY <1>8, <1>9, <1>10

LEMMA EpollWaitKeeps ==
  ASSUME IInv, NEW now \in GetTickMS, EpollWait(now)
  PROVE  IInv'
<1>0. /\ Size \in Nat \ {0, 1} /\ MaxClock \in Nat /\ now \in Int /\ 0 \in GetTickMS
      /\ None \notin All
  BY CoAssumption, NoneIs DEF GetTickMS
<1>1. PICK C \in SUBSET ({reg[f] : f \in Fds} \ {None}) :
     LET w == Unlink(wheel, C)
         T == Join(w, TakeCount(now))
     IN /\ \E e \in Orders(C) : active' = active \o e \o T
        /\ wheel' = Stays(w, TakeCount(now))
        /\ bTimeout' = [c \in All |-> bTimeout[c] \/ \E i \in DOMAIN T : T[i] = c]
  BY DEF EpollWait
<1>2. /\ pc = "wait"
      /\ left' = [c \in All |-> IF now < 0 THEN left[c]
                                ELSE IF left[c] > now THEN left[c] - now ELSE 0]
      /\ loopNow' = IF now < 0 THEN now ELSE 0
      /\ pc' = "active"
      /\ UNCHANGED <<callStack, st, waits, fds, reg, occupy, content, saved>>
  BY DEF EpollWait, kernel, stack
<1>3. PICK n \in 0 .. Size : n = TakeCount(now)  BY <1>0 DEF TakeCount
<1> DEFINE w == Unlink(wheel, C)
           T == Join(w, n)
<1>4. PICK e \in Orders(C) : active' = active \o e \o T  BY <1>1, <1>3
<1>5. wheel' = Stays(w, n) /\ bTimeout' = [c \in All |-> bTimeout[c] \/ \E i \in DOMAIN T : T[i] = c]
  BY <1>1, <1>3
<1>6. C \subseteq All /\ \A c \in C : st[c] = "poll"
  <2> SUFFICES ASSUME NEW c \in C  PROVE c \in All /\ st[c] = "poll"  OBVIOUS
  <2>1. PICK f \in Fds : c = reg[f] /\ c # None  OBVIOUS
  <2> QED  BY <2>1 DEF IInv, TypeOK, Registered
<1>7. e \in Seq(All) /\ Distinct(e) /\ \A x : In(x, e) <=> x \in C  BY <1>6, OrdersAre
<1>8. /\ w \in [Slots -> Seq(All)] /\ AllDistinct(w)
      /\ \A x : InSome(x, w) <=> (InSome(x, wheel) /\ x \notin C)
  BY UnlinkIs DEF IInv, TypeOK, Lists
<1> HIDE DEF w
<1>9. /\ T \in Seq(All) /\ Stays(w, n) \in [Slots -> Seq(All)]
      /\ \A x : InSome(x, w) <=> (In(x, T) \/ InSome(x, Stays(w, n)))
      /\ Distinct(T) /\ AllDistinct(Stays(w, n))
      /\ \A x : ~(In(x, T) /\ InSome(x, Stays(w, n)))
  BY <1>8, TakenIs
<1> HIDE DEF T
<1>10. /\ wheel' \in [Slots -> Seq(All)] /\ AllDistinct(wheel')
       /\ \A x : InSome(x, w) <=> (In(x, T) \/ InSome(x, wheel'))
       /\ \A x : ~(In(x, T) /\ InSome(x, wheel'))
  BY <1>5, <1>9
<1>11. active \in Seq(All) /\ Distinct(active) /\ \A x \in C : ~In(x, active)
  BY <1>2, <1>6 DEF IInv, TypeOK, Lists, Places, Place
<1>12. \A x : x \in All /\ InSome(x, wheel) => ~In(x, active)
  BY DEF IInv, Places, Place
<1>13. \A x : In(x, T) => x \in All
  <2>1. \A i \in DOMAIN T : T[i] \in All  BY <1>9
  <2> QED  BY <2>1 DEF In
<1> DEFINE A == active \o e
<1>14. A \in Seq(All) /\ Distinct(A) /\ \A x : In(x, A) <=> (In(x, active) \/ x \in C)
  <2>1. \A x : ~(In(x, active) /\ In(x, e))  BY <1>7, <1>11
  <2>2. \A x : In(x, A) <=> (In(x, active) \/ In(x, e))  BY <1>7, <1>11, ConcatIs
  <2>3. A \in Seq(All) /\ Distinct(A)  BY <1>7, <1>11, <2>1, ConcatIs
  <2> QED  BY <2>2, <2>3, <1>7
<1>15. \A x : ~(In(x, A) /\ In(x, T))
  <2> SUFFICES ASSUME NEW x, In(x, A), In(x, T)  PROVE FALSE  OBVIOUS
  <2>1. InSome(x, wheel) /\ x \notin C /\ x \in All  BY <1>8, <1>10, <1>13
  <2> HIDE DEF A
  <2> QED  BY <2>1, <1>12, <1>14
<1>16. /\ active' \in Seq(All) /\ Distinct(active')
       /\ \A x : In(x, active') <=> (In(x, active) \/ x \in C \/ In(x, T))
  <2>1. active' = A \o T  BY <1>4
  <2> HIDE DEF A
  <2>2. /\ active' \in Seq(All) /\ Distinct(active')
        /\ \A x : In(x, active') <=> (In(x, A) \/ In(x, T))
    BY <2>1, <1>9, <1>14, <1>15, ConcatIs
  <2> QED  BY <2>2, <1>14
<1>17. TypeOK'
  <2>1. left' \in [All -> Nat]
    <3>1. \A c \in All : left[c] \in Nat  BY DEF IInv, TypeOK
    <3>2. \A c \in All : (IF now < 0 THEN left[c]
                          ELSE IF left[c] > now THEN left[c] - now ELSE 0) \in Nat
      BY <3>1, <1>0
    <3> QED  BY <3>2, <1>2
  <2>2. bTimeout' \in [All -> BOOLEAN]
    <3>1. \A c \in All : (bTimeout[c] \/ \E i \in DOMAIN T : T[i] = c) \in BOOLEAN
      BY DEF IInv, TypeOK
    <3> QED  BY <3>1, <1>5
  <2>3. loopNow' \in GetTickMS  BY <1>0, <1>2
  <2> QED  BY <1>2, <1>10, <1>16, <2>1, <2>2, <2>3 DEF IInv, TypeOK
<1>18. Lists'  BY <1>2, <1>10, <1>16 DEF IInv, Lists
<1>19. Places'
  <2> SUFFICES ASSUME NEW x \in All  PROVE Place(x)'  BY DEF Places
  <2>1. Place(x)  BY DEF IInv, Places
  <2>2. InSome(x, w) <=> (InSome(x, wheel) /\ x \notin C)  BY <1>8
  <2>3. /\ InSome(x, w) <=> (In(x, T) \/ InSome(x, wheel'))
        /\ ~(In(x, T) /\ InSome(x, wheel'))
    BY <1>10
  <2>4. In(x, active') <=> (In(x, active) \/ x \in C \/ In(x, T))  BY <1>16
  <2>5. x \in C => st[x] = "poll" /\ ~In(x, active)  BY <1>6, <1>11
  <2> QED  BY <2>1, <2>2, <2>3, <2>4, <2>5, <1>2 DEF Place
<1>20. GcAlone' /\ Registered'  BY <1>2 DEF IInv, GcAlone, Registered
<1>21. Frames'  BY <1>2 DEF IInv, Frames, Framed, Runs
<1> QED  BY <1>17, <1>18, <1>19, <1>20, <1>21 DEF IInv

LEMMA LoopStepKeeps ==
  ASSUME IInv, LoopStep
  PROVE  IInv'
<1>0. None \notin All /\ Gc \in All /\ Shared \subseteq All
  BY CoAssumption, NoneIs DEF All
<1> DEFINE c == Head(active)
<1>1. /\ pc = "active" /\ callStack = <<>> /\ active # <<>>
      /\ active' = PopHeads(active, 1) /\ loopNow' = loopNow /\ pc' = pc
  BY DEF LoopStep
<1>2. /\ active' \in Seq(All) /\ Distinct(active')
      /\ \A x : In(x, active') <=> (In(x, active) /\ x # c)
      /\ In(c, active) /\ c \in All
  BY <1>1, PopOne DEF IInv, TypeOK, Lists
<1>3. \/ /\ wheel' = AddTimeout(wheel, c, left[c])
         /\ bTimeout' = [bTimeout EXCEPT ![c] = FALSE]
         /\ UNCHANGED <<callStack, st, left, waits, fds, reg, stack>>
      \/ Wakes(c) /\ wheel' = wheel
  BY DEF LoopStep
<1> HIDE DEF c
<1>4. ~InSome(c, wheel) /\ st[c] \in {"poll", "cond"} /\ ~In(c, callStack)
  BY <1>2 DEF IInv, Places, Place
<1>5. CASE /\ wheel' = AddTimeout(wheel, c, left[c])
           /\ bTimeout' = [bTimeout EXCEPT ![c] = FALSE]
           /\ UNCHANGED <<callStack, st, left, waits, fds, reg, stack>>
  <2>1. UNCHANGED <<callStack, st, left, waits, fds, reg, occupy, content, saved>>
    BY <1>5 DEF stack
  <2>2. /\ wheel' \in [Slots -> Seq(All)] /\ AllDistinct(wheel')
        /\ \A x : InSome(x, wheel') <=> (InSome(x, wheel) \/ x = c)
    <3>1. wheel \in [Slots -> Seq(All)] /\ AllDistinct(wheel) /\ left[c] \in Nat
      BY <1>2 DEF IInv, TypeOK, Lists
    <3> DEFINE w == AddTimeout(wheel, c, left[c])
    <3>2. /\ w \in [Slots -> Seq(All)] /\ AllDistinct(w)
          /\ \A x : InSome(x, w) <=> (InSome(x, wheel) \/ x = c)
      BY <3>1, <1>2, <1>4, AddTimeoutIs
    <3>3. wheel' = w  BY <1>5
    <3> HIDE DEF w
    <3> QED  BY <3>2, <3>3
  <2>3. bTimeout' \in [All -> BOOLEAN]  BY <1>5 DEF IInv, TypeOK
  <2>4. TypeOK'  BY <1>1, <1>2, <2>1, <2>2, <2>3 DEF IInv, TypeOK
  <2>5. Lists'  BY <1>2, <2>1, <2>2 DEF IInv, Lists
  <2>6. Places'
    <3> SUFFICES ASSUME NEW x \in All  PROVE Place(x)'  BY DEF Places
    <3>1. Place(x)  BY DEF IInv, Places
    <3>2. InSome(x, wheel') <=> (InSome(x, wheel) \/ x = c)  BY <2>2
    <3>3. In(x, active') <=> (In(x, active) /\ x # c)  BY <1>2
    <3> QED  BY <3>1, <3>2, <3>3, <1>1, <1>2, <1>4, <2>1 DEF Place
  <2>7. GcAlone' /\ Registered'  BY <2>1 DEF IInv, GcAlone, Registered
  <2>8. Frames'  BY <2>1 DEF IInv, Frames, Framed, Runs
  <2> QED  BY <2>4, <2>5, <2>6, <2>7, <2>8 DEF IInv
<1>6. CASE Wakes(c) /\ wheel' = wheel
  <2>1. /\ Resume(c) /\ st' = [st EXCEPT ![c] = "run"] /\ wheel' = wheel
        /\ reg' = [f \in Fds |-> IF f \in fds[c] THEN None ELSE reg[f]]
        /\ fds' = [fds EXCEPT ![c] = {}]
        /\ waits' = Without(waits, {c})
        /\ left' = [left EXCEPT ![c] = 0] /\ bTimeout' = [bTimeout EXCEPT ![c] = FALSE]
    BY <1>6 DEF Wakes
  <2>2. /\ callStack' \in Seq(All) /\ Distinct(callStack)'
        /\ \A x : In(x, callStack') <=> (In(x, callStack) \/ x = c)
        /\ occupy' \in Shared \cup {None} /\ content' \in All \cup {None}
        /\ saved' \in [All -> All \cup {None}]
        /\ \A d \in Shared : st[d] \in Live \/ d = c => Framed(d)'
        /\ occupy' = occupy \/ occupy' = c
        /\ \A d \in Shared : Runs(d)' => occupy' = d
    BY <1>2, <1>4, <2>1, ResumeKeeps
  <2>3. /\ waits' \in Seq(All) /\ Distinct(waits')
        /\ \A x : In(x, waits') <=> (In(x, waits) /\ x # c)
    <3>1. \A x : x \in {c} <=> x = c  OBVIOUS
    <3> QED  BY <2>1, <3>1, WithoutIs DEF IInv, TypeOK, Lists
  <2>4. TypeOK'
    <3>1. reg' \in [Fds -> All \cup {None}]  BY <2>1 DEF IInv, TypeOK
    <3>2. fds' \in [All -> SUBSET Fds]  BY <2>1 DEF IInv, TypeOK
    <3>3. left' \in [All -> Nat] /\ bTimeout' \in [All -> BOOLEAN]  BY <2>1 DEF IInv, TypeOK
    <3>4. st' \in [All -> {"none", "free", "new", "run", "yield", "poll", "cond", "end"}]
      BY <2>1 DEF IInv, TypeOK
    <3> QED  BY <1>1, <1>2, <2>1, <2>2, <2>3, <3>1, <3>2, <3>3, <3>4 DEF IInv, TypeOK
  <2>5. Lists'  BY <1>2, <2>1, <2>2, <2>3 DEF IInv, Lists
  <2>6. Places'
    <3> SUFFICES ASSUME NEW x \in All  PROVE Place(x)'  BY DEF Places
    <3>1. Place(x)  BY DEF IInv, Places
    <3>2. In(x, callStack') <=> (In(x, callStack) \/ x = c)  BY <2>2
    <3>3. In(x, active') <=> (In(x, active) /\ x # c)  BY <1>2
    <3>4. In(x, waits') <=> (In(x, waits) /\ x # c)  BY <2>3
    <3>5. st'[x] = IF x = c THEN "run" ELSE st[x]  BY <2>1 DEF IInv, TypeOK
    <3> QED  BY <3>1, <3>2, <3>3, <3>4, <3>5, <1>1, <1>4, <2>1 DEF Place
  <2>7. GcAlone'
    <3>1. callStack' = <<c>>  BY <1>1, <2>1 DEF Resume
    <3>2. ~In(Gc, callStack)  BY <1>1 DEF In
    <3> QED  BY <1>0, <2>1, <2>2, <3>1, <3>2 DEF IInv, GcAlone, TypeOK
  <2>8. Registered'
    <3> SUFFICES ASSUME NEW f \in Fds, reg'[f] # None
                 PROVE  st'[reg'[f]] = "poll" /\ f \in fds'[reg'[f]]
      BY DEF Registered
    <3>1. f \notin fds[c] /\ reg'[f] = reg[f] /\ reg[f] \in All  BY <2>1 DEF IInv, TypeOK
    <3>2. st[reg[f]] = "poll" /\ f \in fds[reg[f]]  BY <3>1 DEF IInv, Registered
    <3> QED  BY <3>1, <3>2, <2>1 DEF IInv, TypeOK
  <2>9. Frames'
    BY <1>0, <1>2, <2>1, <2>2 DEF IInv, Frames, TypeOK, Live
  <2> QED  BY <2>4, <2>5, <2>6, <2>7, <2>8, <2>9 DEF IInv
<1> QED  BY <1>3, <1>5, <1>6

LEMMA LoopEndsKeeps ==
  ASSUME IInv, LoopEnds \/ PfnEnds
  PROVE  IInv'
<1>1. /\ UNCHANGED <<callStack, st, wheel, active, left, bTimeout, waits, fds, reg,
                     occupy, content, saved>>
      /\ pc' \in {"wait", "pfn"} /\ (pc # "active" \/ active = <<>>)
      /\ loopNow' \in {loopNow, 0}
  BY DEF LoopEnds, PfnEnds, items, kernel, stack
<1>2. 0 \in GetTickMS  BY CoAssumption DEF GetTickMS
<1>3. TypeOK'  BY <1>1, <1>2 DEF IInv, TypeOK
<1>4. Lists' /\ GcAlone' /\ Registered'  BY <1>1 DEF IInv, Lists, GcAlone, Registered
<1>5. Places'
  <2>1. \A x : ~In(x, <<>>)
    <3>1. DOMAIN <<>> = {}  OBVIOUS
    <3> QED  BY <3>1 DEF In
  <2> QED  BY <1>1, <2>1 DEF IInv, Places, Place
<1>6. Frames'  BY <1>1 DEF IInv, Frames, Framed, Runs
<1> QED  BY <1>3, <1>4, <1>5, <1>6 DEF IInv

LEMMA RecoveryKeeps ==
  ASSUME IInv, Recovery
  PROVE  IInv'
<1>0. /\ None \notin All /\ Gc \in All /\ Gc \notin Cos /\ Cos \subseteq All
      /\ Shared \subseteq Cos /\ All = Cos \cup {Gc}
  BY CoAssumption, NoneIs DEF All
<1> DEFINE E == {c \in Cos : st[c] = "end"}
<1>1. PICK now \in GetTickMS, K \in SUBSET E :
     /\ st' = [c \in All |-> IF c \in K THEN "free"
                             ELSE IF c \in E THEN "none"
                             ELSE IF c = Gc /\ now >= 0 THEN "poll" ELSE st[c]]
     /\ Release(E)
     /\ saved' = [c \in All |-> IF c \in E THEN None ELSE saved[c]]
     /\ IF now < 0 THEN UNCHANGED <<callStack, wheel, left>>
        ELSE /\ callStack' = SubSeq(callStack, 1, Len(callStack) - 1)
             /\ wheel' = AddTimeout(wheel, Gc, now + 1)
             /\ left' = [left EXCEPT ![Gc] = now + 1]
  BY DEF Recovery
<1>2. /\ Runs(Gc)
      /\ UNCHANGED <<active, bTimeout, waits, fds, reg, loopNow, pc, content>>
  BY DEF Recovery, kernel
<1>3. \A c : c \in E <=> c \in Cos /\ st[c] = "end"  OBVIOUS
<1>4. occupy' = IF occupy \in E THEN None ELSE occupy  BY <1>1 DEF Release
<1> HIDE DEF E
<1>5. now \in Int  BY CoAssumption DEF GetTickMS
<1>6. /\ In(Gc, callStack) /\ st[Gc] = "run" /\ callStack = <<Gc>>
  <2>1. In(Gc, callStack) /\ st[Gc] = "run"  BY <1>2, RunsIs DEF IInv
  <2> QED  BY <2>1 DEF IInv, GcAlone
<1>7. ~In(Gc, active) /\ ~InSome(Gc, wheel) /\ ~In(Gc, waits)
  BY <1>0, <1>6 DEF IInv, Places, Place
<1>8. \A x \in All : /\ x \notin E /\ x # Gc => st'[x] = st[x]
                     /\ x \in E => st'[x] \in {"free", "none"}
                     /\ st'[Gc] = IF now < 0 THEN "run" ELSE "poll"
  BY <1>0, <1>1, <1>3, <1>5, <1>6 DEF IInv, TypeOK
<1>9. /\ callStack' \in Seq(All) /\ Distinct(callStack')
      /\ \A x : In(x, callStack') <=> (x = Gc /\ now < 0)
      /\ callStack' = <<>> \/ callStack' = <<Gc>>
  <2>1. CASE now < 0
    <3>1. callStack' = <<Gc>>  BY <2>1, <1>1, <1>6
    <3>2. <<Gc>> \in Seq(All) /\ DOMAIN <<Gc>> = {1} /\ <<Gc>>[1] = Gc  BY <1>0
    <3> QED  BY <2>1, <3>1, <3>2 DEF In, Distinct
  <2>2. CASE ~(now < 0)
    <3>1. callStack' = SubSeq(<<Gc>>, 1, 0)
      <4>1. Len(<<Gc>>) - 1 = 0  OBVIOUS
      <4> QED  BY <2>2, <1>1, <1>6, <4>1
    <3>2. SubSeq(<<Gc>>, 1, 0) = <<>> /\ <<>> \in Seq(All) /\ DOMAIN <<>> = {}  OBVIOUS
    <3> QED  BY <2>2, <3>1, <3>2 DEF In, Distinct
  <2> QED  BY <2>1, <2>2
<1>10. /\ wheel' \in [Slots -> Seq(All)] /\ AllDistinct(wheel')
       /\ \A x : InSome(x, wheel') <=> (InSome(x, wheel) \/ (x = Gc /\ ~(now < 0)))
  <2>1. wheel \in [Slots -> Seq(All)] /\ AllDistinct(wheel)  BY DEF IInv, TypeOK, Lists
  <2>2. CASE now < 0
    <3>1. wheel' = wheel  BY <2>2, <1>1
    <3> QED  BY <2>1, <2>2, <3>1
  <2>3. CASE ~(now < 0)
    <3>0. now + 1 \in Nat  BY <2>3, <1>5
    <3> DEFINE w == AddTimeout(wheel, Gc, now + 1)
    <3>1. /\ w \in [Slots -> Seq(All)] /\ AllDistinct(w)
          /\ \A x : InSome(x, w) <=> (InSome(x, wheel) \/ x = Gc)
      BY <2>1, <1>0, <1>7, <3>0, AddTimeoutIs
    <3>2. wheel' = w  BY <1>1, <2>3
    <3> HIDE DEF w
    <3> QED  BY <3>1, <3>2, <2>3
  <2> QED  BY <2>2, <2>3
<1>11. TypeOK'
  <2>1. st' \in [All -> {"none", "free", "new", "run", "yield", "poll", "cond", "end"}]
    BY <1>1 DEF IInv, TypeOK
  <2>2. saved' \in [All -> All \cup {None}]  BY <1>1 DEF IInv, TypeOK
  <2>3. occupy' \in Shared \cup {None}  BY <1>4 DEF IInv, TypeOK
  <2>4. left' \in [All -> Nat]
    <3>1. CASE now < 0  BY <3>1, <1>1 DEF IInv, TypeOK
    <3>2. CASE ~(now < 0)
      <4>1. now + 1 \in Nat  BY <3>2, <1>5
      <4> QED  BY <3>2, <4>1, <1>1 DEF IInv, TypeOK
    <3> QED  BY <3>1, <3>2
  <2> QED  BY <1>2, <1>9, <1>10, <2>1, <2>2, <2>3, <2>4 DEF IInv, TypeOK
<1>12. Lists'  BY <1>2, <1>9, <1>10 DEF IInv, Lists
<1>13. Places'
  <2> SUFFICES ASSUME NEW x \in All  PROVE Place(x)'  BY DEF Places
  <2>1. Place(x)  BY DEF IInv, Places
  <2>2. In(x, callStack') <=> (x = Gc /\ now < 0)  BY <1>9
  <2>3. InSome(x, wheel') <=> (InSome(x, wheel) \/ (x = Gc /\ ~(now < 0)))  BY <1>10
  <2>4. In(x, callStack) => x = Gc
    <3>1. DOMAIN <<Gc>> = {1} /\ <<Gc>>[1] = Gc  OBVIOUS
    <3> QED  BY <3>1, <1>6 DEF In
  <2>5. CASE x = Gc  BY <2>1, <2>2, <2>3, <2>5, <1>2, <1>7, <1>8 DEF Place
  <2>6. CASE x \in E
    <3>1. x # Gc /\ st[x] = "end" /\ st'[x] \in {"free", "none"}  BY <2>6, <1>0, <1>3, <1>8
    <3> QED  BY <2>1, <2>2, <2>3, <3>1, <1>2 DEF Place
  <2>7. CASE x # Gc /\ x \notin E
    <3>1. st'[x] = st[x]  BY <2>7, <1>8
    <3> QED  BY <2>1, <2>2, <2>3, <2>4, <2>7, <3>1, <1>2 DEF Place
  <2> QED  BY <2>5, <2>6, <2>7
<1>14. GcAlone'  BY <1>0, <1>8, <1>9 DEF GcAlone, In
<1>15. Registered'
  <2> SUFFICES ASSUME NEW f \in Fds, reg[f] # None
               PROVE  st'[reg[f]] = "poll" /\ f \in fds[reg[f]]
    BY <1>2 DEF Registered
  <2>1. reg[f] \in All /\ st[reg[f]] = "poll" /\ f \in fds[reg[f]]
    BY DEF IInv, TypeOK, Registered
  <2>2. reg[f] \notin E /\ reg[f] # Gc  BY <2>1, <1>3, <1>6
  <2> QED  BY <2>1, <2>2, <1>8
<1>16. Frames'
  <2>1. ASSUME NEW d \in Shared, st'[d] \in Live  PROVE Framed(d)'
    <3>1. d \in All /\ d # Gc /\ d \in Cos  BY <1>0
    <3>2. d \notin E /\ st'[d] = st[d]  BY <2>1, <3>1, <1>8 DEF Live
    <3>3. Framed(d)  BY <2>1, <3>2 DEF IInv, Frames
    <3>4. saved'[d] = saved[d]  BY <3>1, <3>2, <1>1
    <3> QED  BY <3>1, <3>2, <3>3, <3>4, <1>0, <1>2, <1>4 DEF Framed
  <2>2. occupy' # None => st'[occupy'] \notin {"free", "none", "new"}
    <3> SUFFICES ASSUME occupy' # None  PROVE st'[occupy'] \notin {"free", "none", "new"}
      OBVIOUS
    <3>1. occupy' = occupy /\ occupy \notin E /\ occupy \in Shared  BY <1>4 DEF IInv, TypeOK
    <3>2. st'[occupy] = st[occupy]  BY <3>1, <1>0, <1>8
    <3> QED  BY <3>1, <3>2 DEF IInv, Frames
  <2>3. ASSUME NEW d \in Shared, Runs(d)'  PROVE FALSE
    <3>1. callStack' = <<Gc>>  BY <2>3, <1>9 DEF Runs
    <3> QED  BY <2>3, <3>1, <1>0 DEF Runs
  <2> QED  BY <2>1, <2>2, <2>3 DEF Frames
<1> QED  BY <1>11, <1>12, <1>13, <1>14, <1>15, <1>16 DEF IInv

LEMMA NextKeeps == IInv /\ [Next]_vars => IInv'
<1> SUFFICES ASSUME IInv, [Next]_vars  PROVE IInv'  OBVIOUS
<1>1. ASSUME UNCHANGED vars  PROVE IInv'
  <2>1. UNCHANGED <<callStack, st, wheel, active, left, bTimeout, waits, fds, reg, loopNow, pc,
                    occupy, content, saved>>
    BY <1>1 DEF vars, items, kernel, stack
  <2>2. TypeOK'  BY <2>1 DEF IInv, TypeOK
  <2>3. Lists' /\ GcAlone' /\ Registered'  BY <2>1 DEF IInv, Lists, GcAlone, Registered
  <2>4. Places'  BY <2>1 DEF IInv, Places, Place
  <2>5. Frames'  BY <2>1 DEF IInv, Frames, Framed, Runs
  <2> QED  BY <2>2, <2>3, <2>4, <2>5 DEF IInv
<1>2. ASSUME NEW c \in Cos, Create(c) \/ UserResume(c) \/ PollFails(c, Fds)
      PROVE  IInv'
  BY <1>2, CreateKeeps, UserResumeKeeps, PollFailsKeeps
<1>3. ASSUME NEW c \in Cos, Leave(c)
      PROVE  IInv'
  <2>1. CASE UserYield(c) \/ CoRoutineFunc(c)  BY <2>1, LeaveKeeps
  <2>2. CASE \E F \in SUBSET Fds, t \in Timeouts : UserPoll(c, F, t)
    BY <2>2, UserPollKeeps
  <2>3. CASE \E t \in Timeouts \cup {0} : CondWait(c, t)  BY <2>3, CondWaitKeeps
  <2> QED  BY <1>3, <2>1, <2>2, <2>3 DEF Leave
<1>4. ASSUME NEW now \in GetTickMS, EpollWait(now)
      PROVE  IInv'
  BY <1>4, EpollWaitKeeps
<1> QED
  BY <1>1, <1>2, <1>3, <1>4, SignalKeeps, LoopStepKeeps, LoopEndsKeeps, RecoveryKeeps DEF Next

-----------------------------------------------------------------------------
\* How often a list that holds nothing twice holds an element
LEMMA CountIs ==
  ASSUME NEW S, NEW s \in Seq(S), Distinct(s), NEW c
  PROVE  Count(s, c) = IF In(c, s) THEN 1 ELSE 0
<1> DEFINE P == {i \in DOMAIN s : s[i] = c}
<1>1. CASE In(c, s)
  <2>1. PICK i \in DOMAIN s : s[i] = c  BY <1>1 DEF In
  <2>2. P = {i}  BY <2>1 DEF Distinct
  <2> HIDE DEF P
  <2>3. Cardinality(P) = 1  BY <2>2, FS_Singleton
  <2> QED  BY <1>1, <2>3 DEF Count, P
<1>2. CASE ~In(c, s)
  <2>1. P = {}  BY <1>2 DEF In
  <2> HIDE DEF P
  <2>2. Cardinality(P) = 0  BY <2>1, FS_EmptySet
  <2> QED  BY <1>2, <2>2 DEF Count, P
<1> QED  BY <1>1, <1>2

LEMMA InvImplies == IInv => StackIsMine /\ LinkedOnce
<1> SUFFICES ASSUME IInv  PROVE StackIsMine /\ LinkedOnce  OBVIOUS
<1>1. StackIsMine
  <2>1. \A c \in Shared : Runs(c) => content = c
    <3> SUFFICES ASSUME NEW c \in Shared, Runs(c)  PROVE content = c  OBVIOUS
    <3>1. st[c] = "run" /\ occupy = c  BY RunsIs DEF IInv, Frames
    <3> QED  BY <3>1 DEF IInv, Frames, Framed, Live
  <2> QED  BY <2>1 DEF IInv, Frames, StackIsMine
<1>2. LinkedOnce
  <2>1. ASSUME NEW c \in All
        PROVE  /\ Count(active, c) + (IF InWheel(c) THEN 1 ELSE 0) =< 1
               /\ Count(active, c) = 1 \/ InWheel(c) => st[c] \in {"poll", "cond"}
               /\ Count(waits, c) = 1 => st[c] = "cond"
               /\ st[c] = "poll" => Count(active, c) = 1 \/ InWheel(c)
               /\ st[c] = "cond" => Count(active, c) = 1 \/ InWheel(c) \/ Count(waits, c) = 1
    <3>1. Count(active, c) = IF In(c, active) THEN 1 ELSE 0
      BY CountIs DEF IInv, TypeOK, Lists
    <3>2. Count(waits, c) = IF In(c, waits) THEN 1 ELSE 0
      BY CountIs DEF IInv, TypeOK, Lists
    <3>3. InWheel(c) <=> InSome(c, wheel)
      <4>1. DOMAIN wheel = Slots  BY DEF IInv, TypeOK
      <4> QED  BY <4>1 DEF InWheel, InSome, In
    <3>4. Place(c)  BY DEF IInv, Places
    <3> QED  BY <3>1, <3>2, <3>3, <3>4 DEF Place
  <2> QED  BY <2>1 DEF IInv, Registered, LinkedOnce
<1> QED  BY <1>1, <1>2

\* co_swap: a coroutine on the shared stack runs with its own frames, whoever used the
\* stack, ended and was recovered meanwhile, and the stack never names a structure
\* that stCoRoutine_recovery gave back.
THEOREM FramesAreMine == Spec => []StackIsMine
<1>1. IInv => StackIsMine  BY InvImplies
<1> QED  BY InitIs, NextKeeps, <1>1, PTL DEF Spec

\* The lists of co_eventloop: only a coroutine that waits is linked, in the wheel or
\* the active list but not in both and in neither twice, one that waits is linked
\* somewhere, and the epoll set names only one that polls that descriptor.
THEOREM WaitersLinkedOnce == Spec => []LinkedOnce
<1>1. IInv => LinkedOnce  BY InvImplies
<1> QED  BY InitIs, NextKeeps, <1>1, PTL DEF Spec

=============================================================================
