--------------------------- MODULE ClThread_proofs ---------------------------
(***************************************************************************)
(* For any descriptors and any number of threads: every thread of the      *)
(* event loop is in the list of its type, once, and what a thread waits    *)
(* for is what the kernel listens for.                                     *)
(***************************************************************************)
EXTENDS ClThread, FiniteSetTheorems, SequenceTheorems, TLAPS

------------------------------------------------------------------------------
(* Lists.  Linked is the part of Placed about them, of lists and types that *)
(* need not be those of a state: a thread is moved in two steps.            *)

In(x, s) == \E i \in DOMAIN s : s[i] = x
Distinct(s) == \A i, j \in DOMAIN s : s[i] = s[j] => i = j

Typings == [Threads -> Lists \union {"NEW"}]
Types == [t \in Threads |-> th[t].type]

Linked(L, ty) ==
  /\ DOMAIN L = Lists
  /\ \A l \in Lists :
       L[l] \in Seq(Threads) /\ Distinct(L[l]) /\ \A t \in Threads : In(t, L[l]) <=> ty[t] = l

LEMMA NewIsNoList == "NEW" \notin Lists /\ Dirs \subseteq Lists
BY DEF Lists, Dirs

LEMMA UnlinkIs ==
  ASSUME NEW S, NEW s \in Seq(S), Distinct(s), NEW t
  PROVE  /\ Unlink(s, t) \in Seq(S) /\ Distinct(Unlink(s, t))
         /\ \A x : In(x, Unlink(s, t)) <=> In(x, s) /\ x # t
<1> DEFINE k == CHOOSE k \in DOMAIN s : s[k] = t
           r == SubSeq(s, 1, k - 1) \o SubSeq(s, k + 1, Len(s))
<1>1. CASE ~ \E i \in DOMAIN s : s[i] = t
  <2>1. Unlink(s, t) = s  BY <1>1 DEF Unlink
  <2> QED  BY <1>1, <2>1 DEF In
<1>2. CASE \E i \in DOMAIN s : s[i] = t
  <2>1. Unlink(s, t) = r  BY <1>2 DEF Unlink
  <2>2. k \in DOMAIN s /\ s[k] = t  BY <1>2
  <2> HIDE DEF k
  <2>3. DOMAIN s = 1 .. Len(s) /\ Len(s) \in Nat  OBVIOUS
  <2>4. /\ r \in Seq(S) /\ DOMAIN r = 1 .. Len(s) - 1
        /\ \A i \in 1 .. Len(s) - 1 : r[i] = IF i < k THEN s[i] ELSE s[i + 1]
    <3>0. k \in 1 .. Len(s) /\ k - 1 \in Int /\ k + 1 \in Int  BY <2>2, <2>3
    <3>a. \A i \in 1 .. k - 1 : s[i] \in S  BY <2>3, <3>0
    <3>b. \A i \in k + 1 .. Len(s) : s[i] \in S  BY <2>3, <3>0
    <3>1. PICK a : a = SubSeq(s, 1, k - 1)  OBVIOUS
    <3>2. PICK b : b = SubSeq(s, k + 1, Len(s))  OBVIOUS
    <3>3. a \in Seq(S) /\ Len(a) = k - 1 /\ \A i \in 1 .. k - 1 : a[i] = s[i]
      <4>1. PICK n \in Int : n = k - 1  BY <3>0
      <4>2. /\ SubSeq(s, 1, n) \in Seq(S)
            /\ Len(SubSeq(s, 1, n)) = IF 1 <= n THEN n - 1 + 1 ELSE 0
            /\ \A i \in 1 .. n - 1 + 1 : SubSeq(s, 1, n)[i] = s[1 + i - 1]
        BY <3>a, <4>1, SubSeqProperties
      <4>3. n >= 0 /\ n - 1 + 1 = n /\ \A i \in 1 .. n : 1 + i - 1 = i  BY <3>0, <4>1
      <4>4. Len(SubSeq(s, 1, n)) = n  BY <4>2, <4>3
      <4> QED  BY <3>1, <4>1, <4>2, <4>3, <4>4
    <3>4. /\ b \in Seq(S) /\ Len(b) = Len(s) - k
          /\ \A i \in 1 .. Len(s) - k : b[i] = s[i + k]
      <4>0. PICK m \in Int : m = k + 1  BY <3>0
      <4>1. PICK n \in Nat : n = Len(s)  BY <2>3
      <4>2. /\ SubSeq(s, m, n) \in Seq(S)
            /\ Len(SubSeq(s, m, n)) = IF m <= n THEN n - m + 1 ELSE 0
            /\ \A i \in 1 .. n - m + 1 : SubSeq(s, m, n)[i] = s[m + i - 1]
        BY <3>b, <4>0, <4>1, SubSeqProperties
      <4>3. n - m + 1 = Len(s) - k /\ \A i \in 1 .. Len(s) - k : m + i - 1 = i + k
        BY <2>3, <3>0, <4>0, <4>1
      <4>4. m <= n => Len(SubSeq(s, m, n)) = n - m + 1  BY <4>2
      <4>5. ~(m <= n) => Len(SubSeq(s, m, n)) = 0  BY <4>2
      <4>7. ~(m <= n) => n - k = 0  BY <3>0, <4>0, <4>1
      <4>6. Len(SubSeq(s, m, n)) = Len(s) - k  BY <4>1, <4>3, <4>4, <4>5, <4>7
      <4> QED  BY <3>2, <4>0, <4>1, <4>2, <4>3, <4>6
    <3>5. r = a \o b  BY <3>1, <3>2
    <3> HIDE DEF r
    <3>6. k \in 1 .. Len(s)  BY <3>0
    <3>7. r \in Seq(S) /\ Len(r) = Len(s) - 1 /\ DOMAIN r = 1 .. Len(r)
      <4>1. r \in Seq(S) /\ Len(r) = Len(a) + Len(b)  BY <3>3, <3>4, <3>5
      <4> QED  BY <2>3, <3>3, <3>4, <3>6, <4>1
    <3>8. ASSUME NEW i \in 1 .. Len(s) - 1 PROVE r[i] = IF i < k THEN s[i] ELSE s[i + 1]
      <4>1. CASE i < k  BY <2>3, <3>3, <3>4, <3>5, <3>6, <4>1
      <4>2. CASE ~(i < k)
        <5>1. r[i] = b[i - (k - 1)]  BY <2>3, <3>3, <3>4, <3>5, <3>6, <4>2
        <5>2. i - (k - 1) \in 1 .. Len(s) - k /\ (i - (k - 1)) + k = i + 1
          BY <2>3, <3>6, <4>2
        <5> QED  BY <3>4, <4>2, <5>1, <5>2
      <4> QED  BY <4>1, <4>2
    <3> QED  BY <3>7, <3>8
  <2> HIDE DEF r
  <2>5. \A i \in DOMAIN r :
          /\ i < k => i \in DOMAIN s /\ r[i] = s[i]
          /\ ~(i < k) => i + 1 \in DOMAIN s /\ r[i] = s[i + 1] /\ i + 1 # k
    BY <2>2, <2>3, <2>4
  <2>6. ASSUME NEW i \in DOMAIN r, NEW j \in DOMAIN r, r[i] = r[j] PROVE i = j
    <3>1. i \in Int /\ j \in Int /\ k \in Int  BY <2>2, <2>3, <2>4
    <3>2. CASE i < k /\ j < k  BY <2>5, <2>6, <3>2 DEF Distinct
    <3>3. CASE i < k /\ ~(j < k)
      <4>1. i = j + 1  BY <2>5, <2>6, <3>3 DEF Distinct
      <4> QED  BY <3>1, <3>3, <4>1
    <3>4. CASE ~(i < k) /\ j < k
      <4>1. j = i + 1  BY <2>5, <2>6, <3>4 DEF Distinct
      <4> QED  BY <3>1, <3>4, <4>1
    <3>5. CASE ~(i < k) /\ ~(j < k)
      <4>1. i + 1 = j + 1  BY <2>5, <2>6, <3>5 DEF Distinct
      <4> QED  BY <3>1, <4>1
    <3> QED  BY <3>2, <3>3, <3>4, <3>5
  <2>7. ASSUME NEW x, In(x, r) PROVE In(x, s) /\ x # t
    <3>1. PICK i \in DOMAIN r : r[i] = x  BY <2>7 DEF In
    <3>2. CASE i < k
      <4>1. i # k  BY <2>2, <2>3, <2>4, <3>2
      <4> QED  BY <2>2, <2>5, <3>1, <3>2, <4>1 DEF In, Distinct
    <3>3. CASE ~(i < k)  BY <2>2, <2>5, <3>1, <3>3 DEF In, Distinct
    <3> QED  BY <3>2, <3>3
  <2>8. ASSUME NEW x, In(x, s), x # t PROVE In(x, r)
    <3>1. PICK i \in DOMAIN s : s[i] = x  BY <2>8 DEF In
    <3>2. i # k  BY <2>2, <2>8, <3>1
    <3>3. CASE i < k
      <4>1. i \in DOMAIN r  BY <2>2, <2>3, <2>4, <3>3
      <4> QED  BY <2>5, <3>1, <3>3, <4>1 DEF In
    <3>4. CASE ~(i < k)
      <4>1. i - 1 \in DOMAIN r /\ ~(i - 1 < k) /\ (i - 1) + 1 = i
        BY <2>2, <2>3, <2>4, <3>2, <3>4
      <4> QED  BY <2>5, <3>1, <4>1 DEF In
    <3> QED  BY <3>3, <3>4
  <2>9. Distinct(r)  BY <2>6 DEF Distinct
  <2> QED  BY <2>1, <2>4, <2>7, <2>8, <2>9
<1> QED  BY <1>1, <1>2

\* An element that is new in a list, at either end of it.
LEMMA PutIs ==
  ASSUME NEW s \in Seq(Threads), Distinct(s), NEW t \in Threads, ~In(t, s),
         NEW r, r = <<t>> \o s \/ r = Append(s, t)
  PROVE  r \in Seq(Threads) /\ Distinct(r) /\ \A x : In(x, r) <=> In(x, s) \/ x = t
<1>0. DOMAIN s = 1 .. Len(s) /\ Len(s) \in Nat  OBVIOUS
<1>1. CASE r = <<t>> \o s
  <2>1. /\ r \in Seq(Threads) /\ DOMAIN r = 1 .. Len(s) + 1
        /\ r[1] = t /\ \A i \in 1 .. Len(s) : r[i + 1] = s[i]
    BY <1>1
  <2>2. \A i \in DOMAIN r : i = 1 \/ (i - 1 \in DOMAIN s /\ r[i] = s[i - 1])
    <3> SUFFICES ASSUME NEW i \in DOMAIN r, i # 1 PROVE i - 1 \in DOMAIN s /\ r[i] = s[i - 1]
      OBVIOUS
    <3>1. i - 1 \in 1 .. Len(s) /\ (i - 1) + 1 = i  BY <1>0, <2>1
    <3> QED  BY <1>0, <2>1, <3>1
  <2>3. ASSUME NEW i \in DOMAIN r, NEW j \in DOMAIN r, r[i] = r[j] PROVE i = j
    <3>1. i \in Int /\ j \in Int  BY <1>0, <2>1
    <3>2. CASE i = 1 \/ j = 1  BY <2>1, <2>2, <2>3, <3>2 DEF In
    <3>3. CASE i # 1 /\ j # 1
      <4>1. i - 1 = j - 1  BY <2>2, <2>3, <3>3 DEF Distinct
      <4> QED  BY <3>1, <4>1
    <3> QED  BY <3>2, <3>3
  <2>4. ASSUME NEW x, In(x, r) PROVE In(x, s) \/ x = t  BY <2>1, <2>2, <2>4 DEF In
  <2>5. In(t, r)
    <3>1. 1 \in DOMAIN r  BY <1>0, <2>1
    <3> QED  BY <2>1, <3>1 DEF In
  <2>6. ASSUME NEW x, In(x, s) PROVE In(x, r)
    <3>1. PICK i \in 1 .. Len(s) : s[i] = x  BY <1>0, <2>6 DEF In
    <3>2. i + 1 \in DOMAIN r /\ r[i + 1] = x  BY <1>0, <2>1, <3>1
    <3> QED  BY <3>2 DEF In
  <2>7. Distinct(r)  BY <2>3 DEF Distinct
  <2> QED  BY <2>1, <2>4, <2>5, <2>6, <2>7
<1>2. CASE r = Append(s, t)
  <2>1. /\ r \in Seq(Threads) /\ DOMAIN r = 1 .. Len(s) + 1
        /\ r[Len(s) + 1] = t /\ \A i \in 1 .. Len(s) : r[i] = s[i]
    BY <1>2
  <2>2. \A i \in DOMAIN r : i = Len(s) + 1 \/ (i \in DOMAIN s /\ r[i] = s[i])
    BY <1>0, <2>1
  <2>3. ASSUME NEW i \in DOMAIN r, NEW j \in DOMAIN r, r[i] = r[j] PROVE i = j
    <3>1. CASE i = Len(s) + 1 \/ j = Len(s) + 1  BY <2>1, <2>2, <2>3, <3>1 DEF In
    <3>2. CASE i # Len(s) + 1 /\ j # Len(s) + 1  BY <2>2, <2>3, <3>2 DEF Distinct
    <3> QED  BY <3>1, <3>2
  <2>4. ASSUME NEW x, In(x, r) PROVE In(x, s) \/ x = t  BY <2>1, <2>2, <2>4 DEF In
  <2>5. In(t, r)
    <3>1. Len(s) + 1 \in DOMAIN r  BY <1>0, <2>1
    <3> QED  BY <2>1, <3>1 DEF In
  <2>6. ASSUME NEW x, In(x, s) PROVE In(x, r)
    <3>1. PICK i \in 1 .. Len(s) : s[i] = x  BY <1>0, <2>6 DEF In
    <3>2. i \in DOMAIN r /\ r[i] = x  BY <1>0, <2>1, <3>1
    <3> QED  BY <3>2 DEF In
  <2>7. Distinct(r)  BY <2>3 DEF Distinct
  <2> QED  BY <2>1, <2>4, <2>5, <2>6, <2>7
<1> QED  BY <1>1, <1>2

\* A thread is taken out of the lists.
LEMMA DelLinked ==
  ASSUME NEW L, NEW ty \in Typings, Linked(L, ty), NEW t \in Threads
  PROVE  Linked(Del(L, t), [ty EXCEPT ![t] = "NEW"])
<1> DEFINE M == Del(L, t)
           tz == [ty EXCEPT ![t] = "NEW"]
<1>1. DOMAIN M = Lists /\ \A l \in Lists : M[l] = Unlink(L[l], t)  BY DEF Del
<1>2. \A u \in Threads : tz[u] = IF u = t THEN "NEW" ELSE ty[u]  BY DEF Typings
<1> HIDE DEF M, tz
<1>3. ASSUME NEW l \in Lists
      PROVE  /\ M[l] \in Seq(Threads) /\ Distinct(M[l])
             /\ \A u \in Threads : In(u, M[l]) <=> tz[u] = l
  <2>1. L[l] \in Seq(Threads) /\ Distinct(L[l]) /\ \A u \in Threads : In(u, L[l]) <=> ty[u] = l
    BY DEF Linked
  <2>2. /\ Unlink(L[l], t) \in Seq(Threads) /\ Distinct(Unlink(L[l], t))
        /\ \A x : In(x, Unlink(L[l], t)) <=> In(x, L[l]) /\ x # t
    BY <2>1, UnlinkIs
  <2>3. ASSUME NEW u \in Threads PROVE In(u, M[l]) <=> tz[u] = l
    <3>1. In(u, M[l]) <=> In(u, L[l]) /\ u # t  BY <1>1, <2>2
    <3>2. CASE u = t  BY <1>2, <3>1, <3>2, NewIsNoList
    <3>3. CASE u # t  BY <1>2, <2>1, <3>1, <3>3
    <3> QED  BY <3>2, <3>3
  <2> QED  BY <1>1, <2>2, <2>3
<1>4. Linked(M, tz)  BY <1>1, <1>3 DEF Linked
<1> QED  BY <1>4 DEF M, tz

\* A thread that is in no list is put into one.
LEMMA PutLinked ==
  ASSUME NEW L, NEW ty \in Typings, Linked(L, ty), NEW t \in Threads, ty[t] = "NEW",
         NEW l \in Lists, NEW M, M = AddHead(L, l, t) \/ M = AddTail(L, l, t)
  PROVE  Linked(M, [ty EXCEPT ![t] = l])
<1> DEFINE tz == [ty EXCEPT ![t] = l]
<1>0. L[l] \in Seq(Threads) /\ Distinct(L[l]) /\ ~In(t, L[l]) /\ DOMAIN L = Lists
  BY NewIsNoList DEF Linked
<1>1. /\ M[l] = <<t>> \o L[l] \/ M[l] = Append(L[l], t)
      /\ \A k \in Lists : k # l => M[k] = L[k]
  BY <1>0 DEF AddHead, AddTail
<1>2. \A u \in Threads : tz[u] = IF u = t THEN l ELSE ty[u]  BY DEF Typings
<1> HIDE DEF tz
<1>3. M[l] \in Seq(Threads) /\ Distinct(M[l]) /\ \A x : In(x, M[l]) <=> In(x, L[l]) \/ x = t
  <2>1. PICK s \in Seq(Threads) : s = L[l] /\ Distinct(s) /\ ~In(t, s)  BY <1>0
  <2>2. PICK r : r = M[l] /\ (r = <<t>> \o s \/ r = Append(s, t))  BY <1>1, <2>1
  <2>3. r \in Seq(Threads) /\ Distinct(r) /\ \A x : In(x, r) <=> In(x, s) \/ x = t
    BY <2>1, <2>2, PutIs
  <2> QED  BY <2>1, <2>2, <2>3
<1>4. ASSUME NEW k \in Lists
      PROVE  /\ M[k] \in Seq(Threads) /\ Distinct(M[k])
             /\ \A u \in Threads : In(u, M[k]) <=> tz[u] = k
  <2>1. L[k] \in Seq(Threads) /\ Distinct(L[k]) /\ \A u \in Threads : In(u, L[k]) <=> ty[u] = k
    BY DEF Linked
  <2>2. CASE k = l
    <3>1. ASSUME NEW u \in Threads PROVE In(u, M[k]) <=> tz[u] = k
      <4>1. In(u, M[k]) <=> In(u, L[k]) \/ u = t  BY <1>3, <2>2
      <4>2. CASE u = t  BY <1>2, <2>2, <4>1, <4>2
      <4>3. CASE u # t  BY <1>2, <2>1, <4>1, <4>3
      <4> QED  BY <4>2, <4>3
    <3> QED  BY <1>3, <2>2, <3>1
  <2>3. CASE k # l
    <3>1. M[k] = L[k]  BY <1>1, <2>3
    <3>2. ASSUME NEW u \in Threads PROVE In(u, M[k]) <=> tz[u] = k
      <4>1. CASE u = t
        <5>1. ty[u] # k  BY <4>1, NewIsNoList
        <5> QED  BY <1>2, <2>1, <2>3, <3>1, <4>1, <5>1
      <4>2. CASE u # t  BY <1>2, <2>1, <3>1, <4>2
      <4> QED  BY <4>1, <4>2
    <3> QED  BY <2>1, <3>1, <3>2
  <2> QED  BY <2>2, <2>3
<1>6. DOMAIN M = Lists  BY <1>0 DEF AddHead, AddTail
<1>5. Linked(M, tz)  BY <1>4, <1>6 DEF Linked
<1> QED  BY <1>5 DEF tz

\* A thread is moved to a list.
LEMMA MoveLinked ==
  ASSUME NEW L, NEW ty \in Typings, Linked(L, ty), NEW t \in Threads, NEW l \in Lists,
         NEW M, M = AddHead(Del(L, t), l, t) \/ M = AddTail(Del(L, t), l, t)
  PROVE  Linked(M, [ty EXCEPT ![t] = l])
<1>1. PICK D : D = Del(L, t)  OBVIOUS
<1>a. [ty EXCEPT ![t] = "NEW"] \in Typings /\ [ty EXCEPT ![t] = "NEW"][t] = "NEW"
  BY DEF Typings
<1>2. PICK tz \in Typings : tz = [ty EXCEPT ![t] = "NEW"] /\ tz[t] = "NEW"  BY <1>a
<1>b. M = AddHead(D, l, t) \/ M = AddTail(D, l, t)  BY <1>1
<1>3. Linked(D, tz)  BY <1>1, <1>2, DelLinked
<1>4. Linked(M, [tz EXCEPT ![t] = l])  BY <1>b, <1>2, <1>3, PutLinked
<1>5. [tz EXCEPT ![t] = l] = [ty EXCEPT ![t] = l]  BY <1>2 DEF Typings
<1> QED  BY <1>4, <1>5

------------------------------------------------------------------------------
(* The invariant by its parts. *)

Core ==
  /\ Linked(lists, Types)
  /\ armed = {t \in Threads : th[t].type = "TIMER"}
  /\ SocketsAgree
  /\ KernelAgrees

Inv ==
  /\ TypeOK /\ crash # "assert"
  /\ Running => Core
  /\ pc = "stopped" => \A l \in Lists : lists[l] = <<>>

LEMMA TypesType == TypeOK => Types \in Typings
BY DEF TypeOK, Types, Typings

LEMMA ThreadsAre == Threads \subseteq Nat /\ NULL \notin Threads /\ NULL = 0
BY ClAssumption DEF Threads, NULL

LEMMA DirsAre ==
  /\ Dirs = {"READ", "WRITE"} /\ "READ" # "WRITE"
  /\ {"READ", "WRITE", "TIMER", "EVENT", "READY", "UNUSED"} \subseteq Lists
  /\ {"TIMER", "EVENT", "UNUSED", "NEW"} \intersect (Dirs \union {"READY"}) = {}
  /\ "TIMER" \notin Dirs \union {"EVENT", "READY", "UNUSED", "NEW"}
BY DEF Dirs, Lists

\* What Placed says of the lists is that they are linked.
LEMMA LinkedIs ==
  ASSUME TypeOK
  PROVE  Linked(lists, Types) <=>
         \A t \in Threads :
           IF th[t].type = "NEW" THEN InNone(t) ELSE OnlyIn(t, th[t].type)
<1>0. /\ DOMAIN lists = Lists /\ \A l \in Lists : lists[l] \in Seq(Threads)
      /\ \A t \in Threads : th[t].type \in Lists \union {"NEW"}
      /\ \A t \in Threads : Types[t] = th[t].type
  BY DEF TypeOK, Types
<1>1. ASSUME Linked(lists, Types), NEW t \in Threads
      PROVE  IF th[t].type = "NEW" THEN InNone(t) ELSE OnlyIn(t, th[t].type)
  <2>0. \A l \in Lists : Distinct(lists[l]) /\ (In(t, lists[l]) <=> th[t].type = l)
    BY <1>0, <1>1 DEF Linked
  <2>1. CASE th[t].type = "NEW"
    <3>1. \A l \in Lists : ~In(t, lists[l])  BY <2>0, <2>1, NewIsNoList
    <3> QED  BY <2>1, <3>1 DEF InNone, In
  <2>2. CASE th[t].type # "NEW"
    <3>0. th[t].type \in Lists  BY <1>0, <2>2
    <3>1. In(t, lists[th[t].type])  BY <2>0, <3>0
    <3>2. PICK i \in DOMAIN lists[th[t].type] : lists[th[t].type][i] = t  BY <3>1 DEF In
    <3>3. ASSUME NEW k \in Lists, NEW j \in DOMAIN lists[k], lists[k][j] = t
          PROVE  k = th[t].type /\ j = i
      <4>1. In(t, lists[k])  BY <3>3 DEF In
      <4>2. k = th[t].type  BY <2>0, <4>1
      <4>3. Distinct(lists[k])  BY <2>0
      <4> QED  BY <3>2, <3>3, <4>2, <4>3 DEF Distinct
    <3>4. OnlyIn(t, th[t].type)  BY <3>2, <3>3 DEF OnlyIn
    <3> QED  BY <2>2, <3>4
  <2> QED  BY <2>1, <2>2
<1>2. ASSUME \A t \in Threads : IF th[t].type = "NEW" THEN InNone(t) ELSE OnlyIn(t, th[t].type)
      PROVE  Linked(lists, Types)
  <2>0. ASSUME NEW t \in Threads, NEW k \in Lists, NEW j \in DOMAIN lists[k], lists[k][j] = t
        PROVE  /\ th[t].type = k
               /\ \A i \in DOMAIN lists[k] : lists[k][i] = t => i = j
    <3>1. th[t].type # "NEW"
      <4>1. ~InNone(t)  BY <2>0 DEF InNone
      <4> QED  BY <1>2, <4>1
    <3>2. OnlyIn(t, th[t].type)  BY <1>2, <3>1
    <3>3. PICK n \in DOMAIN lists[th[t].type] :
            \A m \in Lists : \A i \in DOMAIN lists[m] :
              lists[m][i] = t => m = th[t].type /\ i = n
      BY <3>2 DEF OnlyIn
    <3> QED  BY <2>0, <3>3
  <2>1. ASSUME NEW l \in Lists
        PROVE  Distinct(lists[l]) /\ \A t \in Threads : In(t, lists[l]) <=> th[t].type = l
    <3>1. \A i \in DOMAIN lists[l] : lists[l][i] \in Threads  BY <1>0
    <3>2. Distinct(lists[l])  BY <2>0, <3>1 DEF Distinct
    <3>3. \A t \in Threads : In(t, lists[l]) => th[t].type = l  BY <2>0 DEF In
    <3>4. ASSUME NEW t \in Threads, th[t].type = l PROVE In(t, lists[l])
      <4>1. th[t].type # "NEW"  BY <3>4, NewIsNoList
      <4>2. OnlyIn(t, l)  BY <1>2, <3>4, <4>1
      <4> QED  BY <4>2 DEF OnlyIn, In
    <3> QED  BY <3>2, <3>3, <3>4
  <2>2. ASSUME NEW l \in Lists
        PROVE  /\ lists[l] \in Seq(Threads) /\ Distinct(lists[l])
               /\ \A t \in Threads : In(t, lists[l]) <=> Types[t] = l
    <3>1. \A t \in Threads : In(t, lists[l]) <=> th[t].type = l  BY <2>1
    <3>2. ASSUME NEW t \in Threads PROVE In(t, lists[l]) <=> Types[t] = l
      <4>1. In(t, lists[l]) <=> th[t].type = l  BY <3>1
      <4> QED  BY <1>0, <4>1
    <3> QED  BY <1>0, <2>1, <3>2
  <2> QED  BY <1>0, <2>2 DEF Linked
<1> QED  BY <1>1, <1>2

LEMMA InvIs == IInv <=> Inv
<1>1. ASSUME Inv PROVE IInv
  <2>1. TypeOK  BY <1>1 DEF Inv
  <2>2. Running => \A t \in Threads :
           IF th[t].type = "NEW" THEN InNone(t) ELSE OnlyIn(t, th[t].type)
    BY <1>1, <2>1, LinkedIs DEF Inv, Core
  <2> QED  BY <1>1, <2>2 DEF Inv, Core, IInv, Placed
<1>2. ASSUME IInv PROVE Inv
  <2>1. TypeOK  BY <1>2 DEF IInv, Placed
  <2>2. Running => Linked(lists, Types)  BY <1>2, <2>1, LinkedIs DEF IInv, Placed
  <2> QED  BY <1>2, <2>2 DEF Inv, Core, IInv, Placed
<1> QED  BY <1>1, <1>2

\* What the pointers of a socket point to, and who points to a thread.
LEMMA SocketIs ==
  ASSUME SocketsAgree
  PROVE  /\ \A fd \in Fds, d \in Dirs :
              (sock[fd].t[d] = NULL) <=> (d \notin sock[fd].type)
         /\ \A fd \in Fds, d \in Dirs : sock[fd].t[d] # NULL =>
              th[sock[fd].t[d]].fd = fd /\ th[sock[fd].t[d]].type \in {d, "READY"}
         /\ \A t \in Threads : th[t].type \in Dirs \union {"READY"} =>
              \E d \in Dirs : sock[th[t].fd].t[d] = t
BY DEF SocketsAgree

\* A thread that is in no socket: timers, events and threads to be used.
LEMMA NoSocket ==
  ASSUME SocketsAgree, NEW t \in Threads, th[t].type \notin Dirs \union {"READY"}
  PROVE  \A fd \in Fds, d \in Dirs : sock[fd].t[d] # t
BY ThreadsAre DEF SocketsAgree

\* The sockets do not see such a thread change.
LEMMA OtherKeeps ==
  ASSUME TypeOK, SocketsAgree, KernelAgrees, NEW t \in Threads,
         th[t].type \notin Dirs \union {"READY"}, th'[t].type \notin Dirs \union {"READY"},
         \A u \in Threads : u # t => th'[u] = th[u], UNCHANGED <<sock, ep>>
  PROVE  SocketsAgree' /\ KernelAgrees'
<1>0. \A fd \in Fds, d \in Dirs :
        LET u == sock[fd].t[d] IN u \in Threads \union {NULL} /\ u # t
  BY NoSocket DEF TypeOK
<1>1. ASSUME NEW fd \in Fds, NEW d \in Dirs
      PROVE  LET u == sock'[fd].t[d]
             IN  /\ (u = NULL) = (d \notin sock'[fd].type)
                 /\ u # NULL => th'[u].fd = fd /\ th'[u].type \in {d, "READY"}
  <2>1. PICK u : u = sock[fd].t[d] /\ u \in Threads \union {NULL} /\ u # t  BY <1>0
  <2>2. u # NULL => th'[u] = th[u]  BY <2>1
  <2> QED  BY <2>1, <2>2 DEF SocketsAgree
<1>2. ASSUME NEW u \in Threads, th'[u].type \in Dirs \union {"READY"}
      PROVE  \E d \in Dirs : sock'[th'[u].fd].t[d] = u
  <2>1. u # t  BY <1>2
  <2>2. th'[u] = th[u]  BY <2>1
  <2> QED  BY <1>2, <2>2 DEF SocketsAgree
<1>3. ASSUME NEW fd \in Fds, NEW d \in Dirs
      PROVE  LET u == sock'[fd].t[d]
             IN  u # NULL /\ (th'[u].type = d \/ d \in sock'[fd].persist) => d \in ep'[fd]
  <2>1. PICK u : u = sock[fd].t[d] /\ u \in Threads \union {NULL} /\ u # t  BY <1>0
  <2>2. u # NULL => th'[u] = th[u]  BY <2>1
  <2> QED  BY <2>1, <2>2 DEF KernelAgrees
<1>4. SocketsAgree'  BY <1>1, <1>2 DEF SocketsAgree
<1>5. KernelAgrees'  BY <1>3 DEF KernelAgrees
<1> QED  BY <1>4, <1>5

\* A thread that is given back leaves its socket.
LEMMA GoneKeeps ==
  ASSUME TypeOK, SocketsAgree, KernelAgrees,
         NEW t \in Threads, NEW fd \in Fds, NEW d \in Dirs, sock[fd].t[d] = t,
         th'[t].type = "UNUSED", \A u \in Threads : u # t => th'[u] = th[u],
         \A g \in Fds : g # fd => sock'[g] = sock[g],
         sock'[fd].type = sock[fd].type \ {d},
         sock'[fd].t = [sock[fd].t EXCEPT ![d] = NULL]
  PROVE  /\ SocketsAgree'
         /\ \A g \in Fds, e \in Dirs :
              sock'[g].t[e] # NULL =>
                /\ sock[g].t[e] = sock'[g].t[e] /\ ~(g = fd /\ e = d)
                /\ th'[sock[g].t[e]] = th[sock[g].t[e]]
<1>0. /\ \A g \in Fds, e \in Dirs : sock[g].t[e] \in Threads \union {NULL}
      /\ sock[fd].t \in [Dirs -> Threads \union {NULL}]
  BY DEF TypeOK
<1>1. sock'[fd].t[d] = NULL /\ \A e \in Dirs : e # d => sock'[fd].t[e] = sock[fd].t[e]
  BY <1>0
<1>2. th[t].fd = fd  BY ThreadsAre DEF SocketsAgree
<1>3. ASSUME NEW g \in Fds, NEW e \in Dirs, ~(g = fd /\ e = d)
      PROVE  sock'[g].t[e] = sock[g].t[e] /\ sock[g].t[e] # t
  <2>1. sock'[g].t[e] = sock[g].t[e]  BY <1>1, <1>3
  <2>2. ASSUME sock[g].t[e] = t PROVE FALSE
    <3>1. g = fd  BY <1>2, <2>2, ThreadsAre DEF SocketsAgree
    <3>2. e # d  BY <1>3, <3>1
    <3>3. sock[fd].t["READ"] = sock[fd].t["WRITE"]  BY <2>2, <3>1, <3>2, DirsAre
    <3>4. sock[fd].t["READ"] = NULL  BY <3>3 DEF KernelAgrees
    <3> QED  BY <3>3, <3>4, DirsAre, ThreadsAre
  <2> QED  BY <2>1, <2>2
<1>4. ASSUME NEW g \in Fds, NEW e \in Dirs, sock'[g].t[e] # NULL
      PROVE  /\ sock[g].t[e] = sock'[g].t[e] /\ ~(g = fd /\ e = d)
             /\ th'[sock[g].t[e]] = th[sock[g].t[e]]
  <2>1. ~(g = fd /\ e = d)  BY <1>1, <1>4
  <2>2. sock'[g].t[e] = sock[g].t[e] /\ sock[g].t[e] # t  BY <1>3, <2>1
  <2> QED  BY <1>0, <1>4, <2>1, <2>2
<1>5. ASSUME NEW g \in Fds, NEW e \in Dirs
      PROVE  LET u == sock'[g].t[e]
             IN  /\ (u = NULL) = (e \notin sock'[g].type)
                 /\ u # NULL => th'[u].fd = g /\ th'[u].type \in {e, "READY"}
  <2>1. CASE g = fd /\ e = d  BY <1>1, <2>1
  <2>2. CASE ~(g = fd /\ e = d)
    <3>1. PICK u : u = sock[g].t[e] /\ u = sock'[g].t[e] /\ u # t /\ u \in Threads \union {NULL}
      BY <1>0, <1>3, <2>2
    <3>2. e \in sock'[g].type <=> e \in sock[g].type  BY <2>2
    <3>3. u # NULL => th'[u] = th[u]  BY <3>1
    <3>4. (u = NULL) <=> (e \notin sock[g].type)
      <4>1. (sock[g].t[e] = NULL) <=> (e \notin sock[g].type)  BY SocketIs
      <4> QED  BY <3>1, <4>1
    <3>5. u # NULL => th[u].fd = g /\ th[u].type \in {e, "READY"}
      <4>1. sock[g].t[e] # NULL =>
              th[sock[g].t[e]].fd = g /\ th[sock[g].t[e]].type \in {e, "READY"}
        BY SocketIs
      <4> QED  BY <3>1, <4>1
    <3>6. u # NULL => th'[u].fd = g /\ th'[u].type \in {e, "READY"}  BY <3>3, <3>5
    <3>7. (u = NULL) <=> (e \notin sock'[g].type)  BY <3>2, <3>4
    <3> QED  BY <3>1, <3>6, <3>7
  <2> QED  BY <2>1, <2>2
<1>6. ASSUME NEW u \in Threads, th'[u].type \in Dirs \union {"READY"}
      PROVE  \E e \in Dirs : sock'[th'[u].fd].t[e] = u
  <2>1. u # t  BY <1>6, DirsAre
  <2>2. th'[u] = th[u]  BY <2>1
  <2>3. PICK e \in Dirs : sock[th[u].fd].t[e] = u  BY <1>6, <2>2 DEF SocketsAgree
  <2>4. th[u].fd \in Fds  BY DEF TypeOK
  <2>5. ~(th[u].fd = fd /\ e = d)  BY <2>1, <2>3
  <2>6. sock'[th[u].fd].t[e] = u  BY <1>3, <2>3, <2>4, <2>5
  <2> QED  BY <2>2, <2>6
<1>7. SocketsAgree'  BY <1>5, <1>6 DEF SocketsAgree
<1> QED  BY <1>4, <1>7

\* The lists are linked after a step that moves one thread.
LEMMA Moved ==
  ASSUME TypeOK, Linked(lists, Types), NEW t \in Threads, NEW l \in Lists,
         th'[t].type = l, \A u \in Threads : u # t => th'[u].type = th[u].type,
         lists' = AddHead(Del(lists, t), l, t) \/ lists' = AddTail(Del(lists, t), l, t)
  PROVE  /\ Linked(lists, Types)'
         /\ DOMAIN lists' = Lists /\ \A k \in Lists : lists'[k] \in Seq(Threads)
<1>1. Types \in Typings  BY TypesType
<1>2. Linked(lists', [Types EXCEPT ![t] = l])  BY <1>1, MoveLinked
<1>3. Types' = [Types EXCEPT ![t] = l]  BY DEF Types
<1>4. Linked(lists', Types')  BY <1>2, <1>3
<1> QED  BY <1>4 DEF Linked

\* A thread is given another type.
LEMMA Retyped ==
  ASSUME TypeOK, NEW t \in Threads, NEW l \in Lists, th' = [th EXCEPT ![t].type = l]
  PROVE  /\ th'[t].type = l /\ th'[t].fd = th[t].fd
         /\ \A u \in Threads : u # t => th'[u] = th[u]
         /\ th' \in [Threads -> [type : Lists \union {"NEW"}, fd : Fds]]
<1>1. th \in [Threads -> [type : Lists \union {"NEW"}, fd : Fds]]  BY DEF TypeOK
<1>2. PICK r \in [type : Lists \union {"NEW"}, fd : Fds] : r = [th[t] EXCEPT !.type = l]
  BY <1>1
<1>3. r.type = l /\ r.fd = th[t].fd  BY <1>1, <1>2
<1>4. th' = [th EXCEPT ![t] = r]  BY <1>2
<1> QED  BY <1>1, <1>3, <1>4

\* The threads that cl_thread_get returns are in no socket.
LEMMA GetIs ==
  ASSUME TypeOK, Linked(lists, Types), NEW t \in Threads, Get(t)
  PROVE  th[t].type \in {"UNUSED", "NEW"}
<1>1. CASE lists["UNUSED"] # <<>>
  <2>1. lists["UNUSED"] \in Seq(Threads)  BY DirsAre DEF TypeOK
  <2>2. t = Head(lists["UNUSED"])  BY <1>1 DEF Get
  <2>3. 1 \in DOMAIN lists["UNUSED"] /\ lists["UNUSED"][1] = t  BY <1>1, <2>1, <2>2
  <2>4. In(t, lists["UNUSED"])  BY <2>3 DEF In
  <2>5. Types[t] = "UNUSED"  BY <2>4, DirsAre DEF Linked
  <2> QED  BY <2>5 DEF Types
<1>2. CASE lists["UNUSED"] = <<>>  BY <1>2 DEF Get
<1> QED  BY <1>1, <1>2

LEMMA HeadIs ==
  ASSUME TypeOK, Linked(lists, Types), NEW l \in Lists, lists[l] # <<>>
  PROVE  Head(lists[l]) \in Threads /\ th[Head(lists[l])].type = l
<1>1. lists[l] \in Seq(Threads)  BY DEF TypeOK
<1>2. PICK t \in Threads : t = Head(lists[l]) /\ 1 \in DOMAIN lists[l] /\ lists[l][1] = t  BY <1>1
<1>3. In(t, lists[l])  BY <1>2 DEF In
<1>4. Types[t] = l  BY <1>3 DEF Linked
<1> QED  BY <1>2, <1>4 DEF Types

LEMMA CtlIs ==
  ASSUME TypeOK, KernelAgrees, NEW fd \in Fds, NEW events
  PROVE  Ctl(fd, events) = [ep EXCEPT ![fd] = events]
<1>1. (sock[fd].op = "ADD") = (ep[fd] = {})  BY DEF KernelAgrees
<1> QED  BY <1>1 DEF Ctl

\* cl_thread_add_read and cl_thread_add_write
LEMMA AddIOKeeps ==
  ASSUME Inv, NEW d \in Dirs, NEW fd \in Fds, NEW persist \in BOOLEAN, AddIO(d, fd, persist)
  PROVE  Inv'
<1>0. TypeOK /\ Core /\ crash = "no" /\ pc = "call"
  BY DEF Inv, AddIO, InProgram, Running
<1>1. PICK t \in Threads :
        /\ Get(t)
        /\ IF sock[fd].t[d] # NULL
           THEN crash' = "assert" /\ UNCHANGED <<th, sock, ep, lists>>
           ELSE /\ th' = [th EXCEPT ![t] = [type |-> d, fd |-> fd]]
                /\ sock' = [sock EXCEPT ![fd] =
                     [type |-> @.type \union {d},
                      persist |-> IF persist THEN @.persist \union {d}
                                             ELSE @.persist \ {d},
                      op |-> "ADDED", t |-> [@.t EXCEPT ![d] = t]]]
                /\ ep' = Ctl(fd, sock[fd].type \union {d})
                /\ lists' = AddTail(Del(lists, t), d, t)
                /\ UNCHANGED crash
  BY DEF AddIO
<1>2. d \notin sock[fd].type /\ UNCHANGED <<armed, pc, evs>>  BY DEF AddIO
<1>3. sock[fd].t[d] = NULL  BY <1>0, <1>2, SocketIs DEF Core
<1>4. /\ th' = [th EXCEPT ![t] = [type |-> d, fd |-> fd]]
      /\ sock' = [sock EXCEPT ![fd] =
           [type |-> @.type \union {d},
            persist |-> IF persist THEN @.persist \union {d} ELSE @.persist \ {d},
            op |-> "ADDED", t |-> [@.t EXCEPT ![d] = t]]]
      /\ lists' = AddTail(Del(lists, t), d, t)
      /\ UNCHANGED crash
  BY <1>1, <1>3
<1>5. ep' = [ep EXCEPT ![fd] = sock[fd].type \union {d}]
  <2>1. ep' = Ctl(fd, sock[fd].type \union {d})  BY <1>1, <1>3
  <2> QED  BY <1>0, <2>1, CtlIs DEF Core
<1>6. th[t].type \in {"UNUSED", "NEW"}  BY <1>0, <1>1, GetIs DEF Core
<1>7. /\ th'[t].type = d /\ th'[t].fd = fd
      /\ \A u \in Threads : u # t => th'[u] = th[u]
      /\ th' \in [Threads -> [type : Lists \union {"NEW"}, fd : Fds]]
  <2>1. d \in Lists  BY NewIsNoList
  <2> QED  BY <1>0, <1>4, <2>1 DEF TypeOK
<1>8. /\ \A g \in Fds : g # fd => sock'[g] = sock[g] /\ ep'[g] = ep[g]
      /\ sock'[fd].type = sock[fd].type \union {d}
      /\ sock'[fd].persist \subseteq sock[fd].persist \union {d}
      /\ sock'[fd].op = "ADDED"
      /\ sock'[fd].t = [sock[fd].t EXCEPT ![d] = t]
      /\ ep'[fd] = sock[fd].type \union {d}
  BY <1>0, <1>4, <1>5 DEF TypeOK
<1>9. /\ sock[fd].t \in [Dirs -> Threads \union {NULL}]
      /\ \A g \in Fds, e \in Dirs : sock[g].t[e] \in Threads \union {NULL} /\ sock[g].t[e] # t
  <2>1. th[t].type \notin Dirs \union {"READY"}  BY <1>6, DirsAre
  <2>2. \A g \in Fds, e \in Dirs : sock[g].t[e] # t  BY <1>0, <2>1, NoSocket DEF Core
  <2>3. \A g \in Fds : sock[g].t \in [Dirs -> Threads \union {NULL}]  BY <1>0 DEF TypeOK
  <2> QED  BY <2>2, <2>3
<1>10. sock'[fd].t[d] = t /\ \A e \in Dirs : e # d => sock'[fd].t[e] = sock[fd].t[e]
  BY <1>8, <1>9
<1>11. ASSUME NEW g \in Fds, NEW e \in Dirs, ~(g = fd /\ e = d)
       PROVE  /\ sock'[g].t[e] = sock[g].t[e]
              /\ e \in sock'[g].type <=> e \in sock[g].type
              /\ sock[g].t[e] # NULL => th'[sock[g].t[e]] = th[sock[g].t[e]]
  <2>1. sock'[g].t[e] = sock[g].t[e]  BY <1>8, <1>10, <1>11
  <2>2. e \in sock'[g].type <=> e \in sock[g].type  BY <1>8, <1>11
  <2>3. sock[g].t[e] # NULL => th'[sock[g].t[e]] = th[sock[g].t[e]]  BY <1>7, <1>9
  <2> QED  BY <2>1, <2>2, <2>3
<1>12. SocketsAgree'
  <2>1. ASSUME NEW g \in Fds, NEW e \in Dirs
        PROVE  LET u == sock'[g].t[e]
               IN  /\ (u = NULL) = (e \notin sock'[g].type)
                   /\ u # NULL => th'[u].fd = g /\ th'[u].type \in {e, "READY"}
    <3>1. CASE g = fd /\ e = d  BY <1>7, <1>8, <1>10, <3>1, ThreadsAre
    <3>2. CASE ~(g = fd /\ e = d)
      <4>1. (sock[g].t[e] = NULL) <=> (e \notin sock[g].type)  BY <1>0, SocketIs DEF Core
      <4>2. sock[g].t[e] # NULL =>
              th[sock[g].t[e]].fd = g /\ th[sock[g].t[e]].type \in {e, "READY"}
        BY <1>0, SocketIs DEF Core
      <4> QED  BY <1>11, <3>2, <4>1, <4>2
    <3> QED  BY <3>1, <3>2
  <2>2. ASSUME NEW u \in Threads, th'[u].type \in Dirs \union {"READY"}
        PROVE  \E e \in Dirs : sock'[th'[u].fd].t[e] = u
    <3>1. CASE u = t  BY <1>7, <1>10, <3>1
    <3>2. CASE u # t
      <4>1. th'[u] = th[u] /\ th[u].fd \in Fds  BY <1>0, <1>7, <3>2 DEF TypeOK
      <4>2. PICK e \in Dirs : sock[th[u].fd].t[e] = u  BY <1>0, <2>2, <4>1, SocketIs DEF Core
      <4>3. ~(th[u].fd = fd /\ e = d)  BY <1>3, <4>2, ThreadsAre
      <4>4. sock'[th[u].fd].t[e] = u  BY <1>11, <4>1, <4>2, <4>3
      <4> QED  BY <4>1, <4>4
    <3> QED  BY <3>1, <3>2
  <2> QED  BY <2>1, <2>2 DEF SocketsAgree
<1>13. KernelAgrees'
  <2>0. KernelAgrees /\ SocketsAgree  BY <1>0 DEF Core
  <2>1. ASSUME NEW g \in Fds PROVE sock'[g].t["READ"] = sock'[g].t["WRITE"] => sock'[g].t["READ"] = NULL
    <3>1. CASE g = fd
      <4>1. sock'[g].t["READ"] # sock'[g].t["WRITE"]  BY <1>9, <1>10, <3>1, DirsAre
      <4> QED  BY <4>1
    <3>2. CASE g # fd  BY <1>8, <2>0, <3>2 DEF KernelAgrees
    <3> QED  BY <3>1, <3>2
  <2>2. ASSUME NEW g \in Fds PROVE (sock'[g].op = "ADD") = (ep'[g] = {})
    <3>1. CASE g = fd  BY <1>8, <3>1
    <3>2. CASE g # fd  BY <1>8, <2>0, <3>2 DEF KernelAgrees
    <3> QED  BY <3>1, <3>2
  <2>3. ASSUME NEW g \in Fds, NEW e \in Dirs, sock'[g].t[e] # NULL,
               th'[sock'[g].t[e]].type = e \/ e \in sock'[g].persist
        PROVE  e \in ep'[g]
    <3>1. CASE g = fd
      <4>1. CASE e = d  BY <1>8, <3>1, <4>1
      <4>2. CASE e # d
        <5>1. sock[fd].t[e] # NULL  BY <1>10, <2>3, <3>1, <4>2
        <5>2. e \in sock[fd].type  BY <2>0, <5>1, SocketIs
        <5> QED  BY <1>8, <3>1, <5>2
      <4> QED  BY <4>1, <4>2
    <3>2. CASE g # fd
      <4>1. sock'[g] = sock[g] /\ ep'[g] = ep[g] /\ th'[sock[g].t[e]] = th[sock[g].t[e]]
        BY <1>8, <1>11, <2>3, <3>2
      <4> QED  BY <2>0, <2>3, <4>1 DEF KernelAgrees
    <3> QED  BY <3>1, <3>2
  <2> QED  BY <2>1, <2>2, <2>3 DEF KernelAgrees
<1>14. Linked(lists, Types)' /\ DOMAIN lists' = Lists /\ \A k \in Lists : lists'[k] \in Seq(Threads)
  <2>1. d \in Lists  BY NewIsNoList
  <2> QED  BY <1>0, <1>4, <1>7, <2>1, Moved DEF Core
<1>15. armed' = {u \in Threads : th'[u].type = "TIMER"}
  <2>1. \A u \in Threads : th'[u].type = "TIMER" <=> th[u].type = "TIMER"
    BY <1>6, <1>7, DirsAre
  <2> QED  BY <1>0, <1>2, <2>1 DEF Core
<1>16. TypeOK'
  <2>1. sock' \in [Fds -> [type : SUBSET Dirs, persist : SUBSET Dirs, op : {"ADD", "ADDED"},
                           t : [Dirs -> Threads \union {NULL}]]]
    BY <1>0, <1>4 DEF TypeOK
  <2>2. ep' \in [Fds -> SUBSET Dirs]  BY <1>0, <1>5 DEF TypeOK
  <2> QED  BY <1>0, <1>2, <1>4, <1>7, <1>14, <2>1, <2>2 DEF TypeOK
<1> QED  BY <1>0, <1>2, <1>4, <1>12, <1>13, <1>14, <1>15, <1>16 DEF Inv, Core, Running

\* cl_thread_add_timer and cl_thread_add_event
LEMMA AddTimerKeeps ==
  ASSUME Inv, AddTimer
  PROVE  Inv'
<1>0. TypeOK /\ Core /\ crash = "no" /\ pc = "call"
  BY DEF Inv, AddTimer, InProgram, Running
<1>1. PICK t \in Threads :
        /\ Get(t) /\ th' = [th EXCEPT ![t].type = "TIMER"]
        /\ lists' = AddTail(Del(lists, t), "TIMER", t) /\ armed' = armed \union {t}
  BY DEF AddTimer
<1>2. UNCHANGED <<sock, ep, pc, evs, crash>>  BY DEF AddTimer
<1>3. th[t].type \in {"UNUSED", "NEW"}  BY <1>0, <1>1, GetIs DEF Core
<1>4. /\ th'[t].type = "TIMER" /\ \A u \in Threads : u # t => th'[u] = th[u]
      /\ th' \in [Threads -> [type : Lists \union {"NEW"}, fd : Fds]]
  BY <1>0, <1>1, Retyped, DirsAre
<1>5. SocketsAgree' /\ KernelAgrees'
  BY <1>0, <1>2, <1>3, <1>4, OtherKeeps, DirsAre DEF Core
<1>6. Linked(lists, Types)' /\ DOMAIN lists' = Lists /\ \A k \in Lists : lists'[k] \in Seq(Threads)
  BY <1>0, <1>1, <1>4, Moved, DirsAre DEF Core
<1>7. armed' = {u \in Threads : th'[u].type = "TIMER"}  BY <1>0, <1>1, <1>4 DEF Core
<1>8. TypeOK'  BY <1>0, <1>2, <1>4, <1>6, <1>7 DEF TypeOK
<1> QED  BY <1>0, <1>2, <1>5, <1>6, <1>7, <1>8 DEF Inv, Core, Running

LEMMA AddEventKeeps ==
  ASSUME Inv, AddEvent
  PROVE  Inv'
<1>0. TypeOK /\ Core /\ crash = "no" /\ pc = "call"
  BY DEF Inv, AddEvent, InProgram, Running
<1>1. PICK t \in Threads :
        /\ Get(t) /\ th' = [th EXCEPT ![t].type = "EVENT"]
        /\ lists' = AddTail(Del(lists, t), "EVENT", t)
  BY DEF AddEvent
<1>2. UNCHANGED <<armed, sock, ep, pc, evs, crash>>  BY DEF AddEvent
<1>3. th[t].type \in {"UNUSED", "NEW"}  BY <1>0, <1>1, GetIs DEF Core
<1>4. /\ th'[t].type = "EVENT" /\ \A u \in Threads : u # t => th'[u] = th[u]
      /\ th' \in [Threads -> [type : Lists \union {"NEW"}, fd : Fds]]
  BY <1>0, <1>1, Retyped, DirsAre
<1>5. SocketsAgree' /\ KernelAgrees'
  BY <1>0, <1>2, <1>3, <1>4, OtherKeeps, DirsAre DEF Core
<1>6. Linked(lists, Types)' /\ DOMAIN lists' = Lists /\ \A k \in Lists : lists'[k] \in Seq(Threads)
  BY <1>0, <1>1, <1>4, Moved, DirsAre DEF Core
<1>7. armed' = {u \in Threads : th'[u].type = "TIMER"}
  <2>1. \A u \in Threads : th'[u].type = "TIMER" <=> th[u].type = "TIMER"
    BY <1>3, <1>4, DirsAre
  <2> QED  BY <1>0, <1>2, <2>1 DEF Core
<1>8. TypeOK'  BY <1>0, <1>2, <1>4, <1>6 DEF TypeOK
<1> QED  BY <1>0, <1>2, <1>5, <1>6, <1>7, <1>8 DEF Inv, Core, Running

------------------------------------------------------------------------------
(* Threads that are given back. *)

LEMMA UnuseIs ==
  ASSUME TypeOK, Linked(lists, Types), NEW t \in Threads, Unuse(t)
  PROVE  /\ th'[t].type = "UNUSED" /\ \A u \in Threads : u # t => th'[u] = th[u]
         /\ th' \in [Threads -> [type : Lists \union {"NEW"}, fd : Fds]]
         /\ Linked(lists, Types)'
         /\ DOMAIN lists' = Lists /\ \A k \in Lists : lists'[k] \in Seq(Threads)
<1>1. th' = [th EXCEPT ![t].type = "UNUSED"] /\ lists' = AddHead(Del(lists, t), "UNUSED", t)
  BY DEF Unuse
<1>2. "UNUSED" \in Lists  BY DirsAre
<1>3. /\ th'[t].type = "UNUSED" /\ \A u \in Threads : u # t => th'[u] = th[u]
      /\ th' \in [Threads -> [type : Lists \union {"NEW"}, fd : Fds]]
  BY <1>1, <1>2, Retyped
<1>4. \A u \in Threads : u # t => th'[u].type = th[u].type  BY <1>3
<1>5. Linked(lists, Types)' /\ DOMAIN lists' = Lists /\ \A k \in Lists : lists'[k] \in Seq(Threads)
  BY <1>1, <1>2, <1>3, <1>4, Moved
<1> QED  BY <1>3, <1>5

\* A timer or an event is given back.
LEMMA UnuseKeeps ==
  ASSUME TypeOK, Core, NEW t \in Threads, Unuse(t),
         th[t].type \notin Dirs \union {"READY"},
         armed' = armed \ {t}, UNCHANGED <<sock, ep>>
  PROVE  Core' /\ th' \in [Threads -> [type : Lists \union {"NEW"}, fd : Fds]]
<1>1. /\ th'[t].type = "UNUSED" /\ \A u \in Threads : u # t => th'[u] = th[u]
      /\ th' \in [Threads -> [type : Lists \union {"NEW"}, fd : Fds]]
      /\ Linked(lists, Types)'
  BY UnuseIs DEF Core
<1>2. SocketsAgree' /\ KernelAgrees'
  <2>1. th'[t].type \notin Dirs \union {"READY"}  BY <1>1, DirsAre
  <2> QED  BY <1>1, <2>1, OtherKeeps DEF Core
<1>3. armed' = {u \in Threads : th'[u].type = "TIMER"}
  <2>1. \A u \in Threads : th'[u].type = "TIMER" <=> th[u].type = "TIMER" /\ u # t
    BY <1>1, DirsAre
  <2> QED  BY <2>1 DEF Core
<1> QED  BY <1>1, <1>2, <1>3 DEF Core

LEMMA ListsTyped ==
  ASSUME Linked(lists, Types)
  PROVE  DOMAIN lists = Lists /\ \A k \in Lists : lists[k] \in Seq(Threads)
BY DEF Linked

\* The socket of a thread that waits or is ready.
LEMMA OwnerIs ==
  ASSUME TypeOK, SocketsAgree, NEW t \in Threads, th[t].type \in Dirs \union {"READY"}
  PROVE  /\ th[t].fd \in Fds
         /\ \E d \in Dirs : sock[th[t].fd].t[d] = t /\ th[t].type \in {d, "READY"}
<1>1. th[t].fd \in Fds  BY DEF TypeOK
<1>2. PICK d \in Dirs : sock[th[t].fd].t[d] = t  BY SocketIs
<1>3. th[t].type \in {d, "READY"}  BY <1>1, <1>2, SocketIs, ThreadsAre
<1> QED  BY <1>1, <1>2, <1>3

\* cl_thread_cancel_read and cl_thread_cancel_write
LEMMA CancelIOKeeps ==
  ASSUME TypeOK, Core, NEW t \in Threads, NEW d \in Dirs, th[t].type = d, CancelIO(d, t)
  PROVE  /\ Core' /\ UNCHANGED <<armed, crash>>
         /\ th' \in [Threads -> [type : Lists \union {"NEW"}, fd : Fds]]
         /\ sock' \in [Fds -> [type : SUBSET Dirs, persist : SUBSET Dirs, op : {"ADD", "ADDED"},
                               t : [Dirs -> Threads \union {NULL}]]]
         /\ ep' \in [Fds -> SUBSET Dirs]
<1>0. SocketsAgree /\ KernelAgrees  BY DEF Core
<1>1. PICK fd \in Fds : fd = th[t].fd /\ sock[fd].t[d] = t
  <2>1. PICK e \in Dirs : th[t].fd \in Fds /\ sock[th[t].fd].t[e] = t /\ th[t].type \in {e, "READY"}
    BY <1>0, OwnerIs
  <2>2. e = d  BY <2>1, DirsAre DEF Dirs
  <2> QED  BY <2>1, <2>2
<1>2. PICK others \in SUBSET Dirs : others = sock[fd].type \ {d}  BY DEF TypeOK
<1>3. /\ sock' = [sock EXCEPT ![fd] =
           [type |-> others, persist |-> @.persist \ {d},
            op |-> IF others = {} THEN "ADD" ELSE "ADDED",
            t |-> [@.t EXCEPT ![d] = NULL]]]
      /\ ep' = IF others = {} THEN CtlDel(fd) ELSE Ctl(fd, others)
      /\ Unuse(t)
      /\ UNCHANGED <<armed, crash>>
  BY <1>1, <1>2 DEF CancelIO
<1>4. ep' = [ep EXCEPT ![fd] = others]
  <2>1. CASE others = {}  BY <1>3, <2>1 DEF CtlDel
  <2>2. CASE others # {}
    <3>1. ep' = Ctl(fd, others)  BY <1>3, <2>2
    <3> QED  BY <1>0, <3>1, CtlIs
  <2> QED  BY <2>1, <2>2
<1>5. /\ th'[t].type = "UNUSED" /\ \A u \in Threads : u # t => th'[u] = th[u]
      /\ th' \in [Threads -> [type : Lists \union {"NEW"}, fd : Fds]]
      /\ Linked(lists, Types)'
  BY <1>3, UnuseIs DEF Core
<1>6. /\ \A g \in Fds : g # fd => sock'[g] = sock[g] /\ ep'[g] = ep[g]
      /\ sock'[fd].type = sock[fd].type \ {d}
      /\ sock'[fd].t = [sock[fd].t EXCEPT ![d] = NULL]
      /\ sock'[fd].op = (IF others = {} THEN "ADD" ELSE "ADDED")
      /\ ep'[fd] = others
  BY <1>2, <1>3, <1>4 DEF TypeOK
<1>7. /\ SocketsAgree'
      /\ \A g \in Fds, e \in Dirs :
           sock'[g].t[e] # NULL =>
             /\ sock[g].t[e] = sock'[g].t[e] /\ ~(g = fd /\ e = d)
             /\ th'[sock[g].t[e]] = th[sock[g].t[e]]
  BY <1>0, <1>1, <1>5, <1>6, GoneKeeps
<1>8. KernelAgrees'
  <2>1. ASSUME NEW g \in Fds PROVE sock'[g].t["READ"] = sock'[g].t["WRITE"] => sock'[g].t["READ"] = NULL
    <3>1. CASE sock'[g].t["READ"] # NULL /\ sock'[g].t["WRITE"] # NULL
      BY <1>0, <1>7, <3>1, DirsAre DEF KernelAgrees
    <3> QED  BY <3>1
  <2>2. ASSUME NEW g \in Fds PROVE (sock'[g].op = "ADD") = (ep'[g] = {})
    <3>1. CASE g = fd  BY <1>6, <3>1
    <3>2. CASE g # fd  BY <1>0, <1>6, <3>2 DEF KernelAgrees
    <3> QED  BY <3>1, <3>2
  <2>3. ASSUME NEW g \in Fds, NEW e \in Dirs, sock'[g].t[e] # NULL,
               th'[sock'[g].t[e]].type = e \/ e \in sock'[g].persist
        PROVE  e \in ep'[g]
    <3>0. /\ sock[g].t[e] = sock'[g].t[e] /\ ~(g = fd /\ e = d)
          /\ th'[sock[g].t[e]] = th[sock[g].t[e]]
      BY <1>7, <2>3
    <3>1. CASE g = fd
      <4>1. e \in sock[fd].type  BY <1>0, <2>3, <3>0, <3>1, SocketIs
      <4> QED  BY <1>2, <1>6, <3>0, <3>1, <4>1
    <3>2. CASE g # fd
      <4>1. sock'[g] = sock[g] /\ ep'[g] = ep[g]  BY <1>6, <3>2
      <4> QED  BY <1>0, <2>3, <3>0, <4>1 DEF KernelAgrees
    <3> QED  BY <3>1, <3>2
  <2> QED  BY <2>1, <2>2, <2>3 DEF KernelAgrees
<1>9. armed' = {u \in Threads : th'[u].type = "TIMER"}
  <2>1. th[t].type # "TIMER" /\ th'[t].type # "TIMER"  BY <1>5, DirsAre
  <2>2. \A u \in Threads : th'[u].type = "TIMER" <=> th[u].type = "TIMER"  BY <1>5, <2>1
  <2> QED  BY <1>3, <2>2 DEF Core
<1>10. sock' \in [Fds -> [type : SUBSET Dirs, persist : SUBSET Dirs, op : {"ADD", "ADDED"},
                          t : [Dirs -> Threads \union {NULL}]]]
  BY <1>3 DEF TypeOK
<1>11. ep' \in [Fds -> SUBSET Dirs]  BY <1>4 DEF TypeOK
<1> QED  BY <1>3, <1>5, <1>7, <1>8, <1>9, <1>10, <1>11 DEF Core

\* cl_thread_cancel
LEMMA CancelKeeps ==
  ASSUME Inv, NEW t \in Threads, Cancel(t)
  PROVE  Inv'
<1>0. TypeOK /\ Core /\ crash = "no" /\ pc = "call" /\ UNCHANGED <<pc, evs>>
  BY DEF Inv, Cancel, InProgram, Running
<1>1. CASE th[t].type \in Dirs /\ CancelIO(th[t].type, t)
  <2>1. /\ Core' /\ UNCHANGED <<armed, crash>>
        /\ th' \in [Threads -> [type : Lists \union {"NEW"}, fd : Fds]]
        /\ sock' \in [Fds -> [type : SUBSET Dirs, persist : SUBSET Dirs, op : {"ADD", "ADDED"},
                              t : [Dirs -> Threads \union {NULL}]]]
        /\ ep' \in [Fds -> SUBSET Dirs]
    BY <1>0, <1>1, CancelIOKeeps
  <2>2. DOMAIN lists' = Lists /\ \A k \in Lists : lists'[k] \in Seq(Threads)
    BY <2>1 DEF Core, Linked
  <2>3. TypeOK'  BY <1>0, <2>1, <2>2 DEF TypeOK
  <2> QED  BY <1>0, <2>1, <2>3 DEF Inv, Running
<1>2. CASE \/ th[t].type = "TIMER" /\ CancelTimer(t)
           \/ th[t].type = "EVENT" /\ Unuse(t) /\ UNCHANGED <<armed, sock, ep, crash>>
  <2>1. th[t].type \notin Dirs \union {"READY"}  BY <1>2, DirsAre
  <2>2. Unuse(t) /\ armed' = armed \ {t} /\ UNCHANGED <<sock, ep, crash>>
    <3>1. CASE th[t].type = "TIMER" /\ CancelTimer(t)  BY <3>1 DEF CancelTimer
    <3>2. CASE th[t].type = "EVENT" /\ Unuse(t) /\ UNCHANGED <<armed, sock, ep, crash>>
      <4>1. t \notin armed  BY <1>0, <3>2 DEF Core
      <4> QED  BY <3>2, <4>1
    <3> QED  BY <1>2, <3>1, <3>2
  <2>3. Core' /\ th' \in [Threads -> [type : Lists \union {"NEW"}, fd : Fds]]
    BY <1>0, <2>1, <2>2, UnuseKeeps
  <2>4. DOMAIN lists' = Lists /\ \A k \in Lists : lists'[k] \in Seq(Threads)
    BY <2>3 DEF Core, Linked
  <2>5. TypeOK'  BY <1>0, <2>2, <2>3, <2>4 DEF TypeOK
  <2> QED  BY <1>0, <2>2, <2>3, <2>5 DEF Inv, Running
<1>3. CASE th[t].type = "READY" /\ crash' = "null" /\ UNCHANGED <<th, lists, armed, sock, ep>>
  <2>1. TypeOK'  BY <1>0, <1>3 DEF TypeOK
  <2> QED  BY <1>0, <1>3, <2>1 DEF Inv, Running
<1> QED  BY <1>1, <1>2, <1>3 DEF Cancel

------------------------------------------------------------------------------
(* cl_thread_fetch *)

\* cl_thread_socket_set, of a ready thread.
LEMMA SocketSetKeeps ==
  ASSUME TypeOK, Core, NEW t \in Threads, th[t].type = "READY", SocketSet(t),
         UNCHANGED <<armed, ep>>
  PROVE  /\ Core'
         /\ th' \in [Threads -> [type : Lists \union {"NEW"}, fd : Fds]]
         /\ sock' \in [Fds -> [type : SUBSET Dirs, persist : SUBSET Dirs, op : {"ADD", "ADDED"},
                               t : [Dirs -> Threads \union {NULL}]]]
<1>0. SocketsAgree /\ KernelAgrees /\ Linked(lists, Types)  BY DEF Core
<1>1. PICK fd \in Fds : fd = th[t].fd /\ \E e \in Dirs : sock[fd].t[e] = t  BY <1>0, OwnerIs
<1>2. PICK d \in Dirs : d = (IF sock[fd].t["READ"] = t THEN "READ" ELSE "WRITE") /\ sock[fd].t[d] = t
  BY <1>1, DirsAre
<1>3. \/ /\ d \in sock[fd].persist /\ th' = [th EXCEPT ![t].type = d]
         /\ lists' = AddHead(Del(lists, t), d, t) /\ UNCHANGED sock
      \/ /\ d \notin sock[fd].persist
         /\ sock' = [sock EXCEPT ![fd].type = @ \ {d}, ![fd].t[d] = NULL]
         /\ Unuse(t)
  BY <1>1, <1>2 DEF SocketSet
<1>4. CASE /\ d \in sock[fd].persist /\ th' = [th EXCEPT ![t].type = d]
           /\ lists' = AddHead(Del(lists, t), d, t) /\ UNCHANGED sock
  <2>0. d \in Lists  BY NewIsNoList
  <2>1. /\ th'[t].type = d /\ th'[t].fd = fd /\ \A u \in Threads : u # t => th'[u] = th[u]
        /\ th' \in [Threads -> [type : Lists \union {"NEW"}, fd : Fds]]
    BY <1>1, <1>4, <2>0, Retyped
  <2>2. Linked(lists, Types)'
    <3>1. \A u \in Threads : u # t => th'[u].type = th[u].type  BY <2>1
    <3> QED  BY <1>0, <1>4, <2>0, <2>1, <3>1, Moved
  <2>3. ASSUME NEW g \in Fds, NEW e \in Dirs, sock[g].t[e] # NULL
        PROVE  /\ th'[sock[g].t[e]].fd = g /\ th'[sock[g].t[e]].type \in {e, "READY"}
               /\ th'[sock[g].t[e]].type = e /\ sock[g].t[e] # t => th[sock[g].t[e]].type = e
    <3>0. sock[g].t[e] \in Threads  BY <2>3 DEF TypeOK
    <3>1. th[sock[g].t[e]].fd = g /\ th[sock[g].t[e]].type \in {e, "READY"}  BY <1>0, <2>3, SocketIs
    <3>2. CASE sock[g].t[e] = t
      <4>1. g = fd  BY <1>1, <3>1, <3>2
      <4>2. e = d
        <5>1. ASSUME e # d PROVE FALSE
          <6>1. sock[fd].t["READ"] = sock[fd].t["WRITE"]  BY <1>2, <3>2, <4>1, <5>1, DirsAre
          <6>2. sock[fd].t["READ"] = NULL  BY <1>0, <6>1 DEF KernelAgrees
          <6> QED  BY <1>2, <6>1, <6>2, DirsAre, ThreadsAre
        <5> QED  BY <5>1
      <4> QED  BY <2>1, <3>2, <4>1, <4>2
    <3>3. CASE sock[g].t[e] # t
      <4>1. th'[sock[g].t[e]] = th[sock[g].t[e]]  BY <2>1, <3>0, <3>3
      <4> QED  BY <3>1, <4>1
    <3> QED  BY <3>2, <3>3
  <2>4. SocketsAgree'
    <3>1. ASSUME NEW u \in Threads, th'[u].type \in Dirs \union {"READY"}
          PROVE  \E e \in Dirs : sock'[th'[u].fd].t[e] = u
      <4>1. CASE u = t  BY <1>2, <1>4, <2>1, <4>1
      <4>2. CASE u # t
        <5>1. th'[u] = th[u]  BY <2>1, <4>2
        <5> QED  BY <1>0, <1>4, <3>1, <5>1, SocketIs
      <4> QED  BY <4>1, <4>2
    <3>2. ASSUME NEW g \in Fds, NEW e \in Dirs
          PROVE  LET u == sock'[g].t[e]
                 IN  /\ (u = NULL) = (e \notin sock'[g].type)
                     /\ u # NULL => th'[u].fd = g /\ th'[u].type \in {e, "READY"}
      <4>1. (sock[g].t[e] = NULL) <=> (e \notin sock[g].type)  BY <1>0, SocketIs
      <4>2. sock[g].t[e] # NULL =>
              th'[sock[g].t[e]].fd = g /\ th'[sock[g].t[e]].type \in {e, "READY"}
        BY <2>3
      <4> QED  BY <1>4, <4>1, <4>2
    <3> QED  BY <3>1, <3>2 DEF SocketsAgree
  <2>5. KernelAgrees'
    <3>1. ASSUME NEW g \in Fds, NEW e \in Dirs, sock[g].t[e] # NULL,
                 th'[sock[g].t[e]].type = e \/ e \in sock[g].persist
          PROVE  e \in ep[g]
      <4>1. CASE sock[g].t[e] = t
        <5>1. th[t].fd = g  BY <1>0, <3>1, <4>1, SocketIs
        <5>2. g = fd /\ (e = d \/ e # d)  BY <1>1, <5>1
        <5>3. e = d
          <6>1. ASSUME e # d PROVE FALSE
            <7>1. sock[fd].t["READ"] = sock[fd].t["WRITE"]  BY <1>2, <4>1, <5>2, <6>1, DirsAre
            <7>2. sock[fd].t["READ"] = NULL  BY <1>0, <7>1 DEF KernelAgrees
            <7> QED  BY <1>2, <7>1, <7>2, DirsAre, ThreadsAre
          <6> QED  BY <6>1
        <5> QED  BY <1>0, <1>4, <3>1, <5>2, <5>3 DEF KernelAgrees
      <4>2. CASE sock[g].t[e] # t
        <5>1. th[sock[g].t[e]].type = e \/ e \in sock[g].persist  BY <2>3, <3>1, <4>2
        <5> QED  BY <1>0, <3>1, <5>1 DEF KernelAgrees
      <4> QED  BY <4>1, <4>2
    <3> QED  BY <1>0, <1>4, <3>1 DEF KernelAgrees
  <2>6. armed' = {u \in Threads : th'[u].type = "TIMER"}
    <3>1. th[t].type # "TIMER" /\ th'[t].type # "TIMER"  BY <2>1, DirsAre
    <3>2. \A u \in Threads : th'[u].type = "TIMER" <=> th[u].type = "TIMER"  BY <2>1, <3>1
    <3> QED  BY <3>2 DEF Core
  <2> QED  BY <1>4, <2>1, <2>2, <2>4, <2>5, <2>6 DEF Core, TypeOK
<1>5. CASE /\ d \notin sock[fd].persist
           /\ sock' = [sock EXCEPT ![fd].type = @ \ {d}, ![fd].t[d] = NULL]
           /\ Unuse(t)
  <2>1. /\ th'[t].type = "UNUSED" /\ \A u \in Threads : u # t => th'[u] = th[u]
        /\ th' \in [Threads -> [type : Lists \union {"NEW"}, fd : Fds]]
        /\ Linked(lists, Types)'
    BY <1>0, <1>5, UnuseIs
  <2>2. /\ sock' \in [Fds -> [type : SUBSET Dirs, persist : SUBSET Dirs, op : {"ADD", "ADDED"},
                              t : [Dirs -> Threads \union {NULL}]]]
        /\ \A g \in Fds : g # fd => sock'[g] = sock[g]
        /\ sock'[fd].type = sock[fd].type \ {d}
        /\ sock'[fd].t = [sock[fd].t EXCEPT ![d] = NULL]
        /\ sock'[fd].op = sock[fd].op /\ sock'[fd].persist = sock[fd].persist
    <3>1. sock \in [Fds -> [type : SUBSET Dirs, persist : SUBSET Dirs, op : {"ADD", "ADDED"},
                            t : [Dirs -> Threads \union {NULL}]]]
      BY DEF TypeOK
    <3>2. PICK r : r = [sock[fd] EXCEPT !.type = sock[fd].type \ {d},
                                       !.t = [sock[fd].t EXCEPT ![d] = NULL]]
      OBVIOUS
    <3>3. /\ r \in [type : SUBSET Dirs, persist : SUBSET Dirs, op : {"ADD", "ADDED"},
                    t : [Dirs -> Threads \union {NULL}]]
          /\ r.type = sock[fd].type \ {d} /\ r.t = [sock[fd].t EXCEPT ![d] = NULL]
          /\ r.op = sock[fd].op /\ r.persist = sock[fd].persist
      BY <3>1, <3>2
    <3>4. sock' = [sock EXCEPT ![fd] = r]  BY <1>5, <3>1, <3>2
    <3> QED  BY <3>1, <3>3, <3>4
  <2>3. /\ SocketsAgree'
        /\ \A g \in Fds, e \in Dirs :
             sock'[g].t[e] # NULL =>
               /\ sock[g].t[e] = sock'[g].t[e] /\ ~(g = fd /\ e = d)
               /\ th'[sock[g].t[e]] = th[sock[g].t[e]]
    <3>1. th'[t].type = "UNUSED" /\ \A u \in Threads : u # t => th'[u] = th[u]  BY <2>1
    <3>2. /\ \A g \in Fds : g # fd => sock'[g] = sock[g]
          /\ sock'[fd].type = sock[fd].type \ {d}
          /\ sock'[fd].t = [sock[fd].t EXCEPT ![d] = NULL]
      BY <2>2
    <3>3. sock[fd].t[d] = t  BY <1>2
    <3> QED  BY <1>0, <3>1, <3>2, <3>3, GoneKeeps
  <2>4. \A g \in Fds : sock'[g].op = sock[g].op /\ sock'[g].persist = sock[g].persist
    BY <2>2
  <2>5. KernelAgrees'
    <3>1. ASSUME NEW g \in Fds PROVE sock'[g].t["READ"] = sock'[g].t["WRITE"] => sock'[g].t["READ"] = NULL
      <4>1. CASE sock'[g].t["READ"] # NULL /\ sock'[g].t["WRITE"] # NULL
        BY <1>0, <2>3, <4>1, DirsAre DEF KernelAgrees
      <4> QED  BY <4>1
    <3>2. ASSUME NEW g \in Fds, NEW e \in Dirs, sock'[g].t[e] # NULL,
                 th'[sock'[g].t[e]].type = e \/ e \in sock'[g].persist
          PROVE  e \in ep[g]
      <4>1. sock[g].t[e] = sock'[g].t[e] /\ th'[sock[g].t[e]] = th[sock[g].t[e]]  BY <2>3, <3>2
      <4> QED  BY <1>0, <2>4, <3>2, <4>1 DEF KernelAgrees
    <3>3. \A g \in Fds : (sock'[g].op = "ADD") = (ep[g] = {})  BY <1>0, <2>4 DEF KernelAgrees
    <3> QED  BY <3>1, <3>2, <3>3 DEF KernelAgrees
  <2>6. armed' = {u \in Threads : th'[u].type = "TIMER"}
    <3>1. th[t].type # "TIMER" /\ th'[t].type # "TIMER"  BY <2>1, DirsAre
    <3>2. \A u \in Threads : th'[u].type = "TIMER" <=> th[u].type = "TIMER"  BY <2>1, <3>1
    <3> QED  BY <3>2 DEF Core
  <2> QED  BY <2>1, <2>2, <2>3, <2>5, <2>6 DEF Core
<1> QED  BY <1>3, <1>4, <1>5

\* cl_thread_run, and the callback begins.
LEMMA RunKeeps ==
  ASSUME Inv, crash = "no", pc \in {"fetch", "events"}, NEW t \in Threads,
         th[t].type \notin Dirs,
         Run(t), armed' = armed \ {t}, UNCHANGED <<ep, evs, crash>>
  PROVE  Inv'
<1>0. TypeOK /\ Core  BY DEF Inv, Running
<1>1. /\ Core'
      /\ th' \in [Threads -> [type : Lists \union {"NEW"}, fd : Fds]]
      /\ sock' \in [Fds -> [type : SUBSET Dirs, persist : SUBSET Dirs, op : {"ADD", "ADDED"},
                            t : [Dirs -> Threads \union {NULL}]]]
  <2>1. CASE th[t].type = "READY"
    <3>1. t \notin armed  BY <1>0, <2>1 DEF Core
    <3>2. UNCHANGED <<armed, ep>>  BY <3>1
    <3>3. SocketSet(t)  BY <2>1 DEF Run
    <3> QED  BY <1>0, <2>1, <3>2, <3>3, SocketSetKeeps
  <2>2. CASE th[t].type # "READY"
    <3>1. Unuse(t) /\ UNCHANGED <<sock, ep>>  BY <2>2 DEF Run
    <3>2. Core' /\ th' \in [Threads -> [type : Lists \union {"NEW"}, fd : Fds]]
      BY <1>0, <2>2, <3>1, UnuseKeeps
    <3> QED  BY <1>0, <3>1, <3>2 DEF TypeOK
  <2> QED  BY <2>1, <2>2
<1>2. DOMAIN lists' = Lists /\ \A k \in Lists : lists'[k] \in Seq(Threads)
  BY <1>1 DEF Core, Linked
<1>3. pc' = "call"  BY DEF Run
<1>4. TypeOK'  BY <1>0, <1>1, <1>2, <1>3 DEF TypeOK
<1> QED  BY <1>1, <1>3, <1>4 DEF Inv, Running

LEMMA RunEventKeeps ==
  ASSUME Inv, RunEvent
  PROVE  Inv'
<1>0. TypeOK /\ Core /\ crash = "no" /\ pc = "fetch"
  BY DEF Inv, RunEvent, InFetch, Running
<1>1. PICK t \in Threads : t = Head(lists["EVENT"]) /\ th[t].type = "EVENT"
  BY <1>0, HeadIs, DirsAre DEF RunEvent, Core
<1>2. t \notin armed  BY <1>0, <1>1 DEF Core
<1>3. Run(t) /\ armed' = armed \ {t} /\ UNCHANGED <<ep, evs, crash>>
  BY <1>1, <1>2 DEF RunEvent
<1> QED  BY <1>0, <1>1, <1>3, RunKeeps, DirsAre

LEMMA RunTimerKeeps ==
  ASSUME Inv, NEW t \in Threads, RunTimer(t)
  PROVE  Inv'
<1>0. TypeOK /\ Core /\ crash = "no" /\ pc = "fetch"
  BY DEF Inv, RunTimer, InFetch, Running
<1>1. th[t].type = "TIMER"  BY <1>0 DEF RunTimer, Core
<1>2. Run(t) /\ armed' = armed \ {t} /\ UNCHANGED <<ep, evs, crash>>  BY DEF RunTimer
<1> QED  BY <1>0, <1>1, <1>2, RunKeeps, DirsAre

LEMMA RunReadyKeeps ==
  ASSUME Inv, RunReady
  PROVE  Inv'
<1>0. crash = "no" /\ pc \in {"fetch", "events"}
  BY DEF RunReady, InFetch, InEvents
<1>1. TypeOK /\ Core  BY <1>0 DEF Inv, Running
<1>2. PICK t \in Threads : t = Head(lists["READY"]) /\ th[t].type = "READY"
  BY <1>1, HeadIs, DirsAre DEF RunReady, Core
<1>3. t \notin armed  BY <1>1, <1>2 DEF Core
<1>4. Run(t) /\ armed' = armed \ {t} /\ UNCHANGED <<ep, evs, crash>>
  BY <1>2, <1>3 DEF RunReady
<1> QED  BY <1>0, <1>2, <1>4, RunKeeps, DirsAre

\* One direction of cl_thread_do_event: its thread goes to the ready list.
LEMMA ReadyLinked ==
  ASSUME NEW L, NEW ty \in Typings, Linked(L, ty), NEW fd \in Fds, NEW d \in Dirs,
         d \in Woken(fd) => /\ sock[fd].t[d] \in Threads
                            /\ th[sock[fd].t[d]].type = "READY" => ty[sock[fd].t[d]] = "READY",
         NEW tz \in Typings,
         \A u \in Threads :
           tz[u] = IF d \in Woken(fd) /\ u = sock[fd].t[d] THEN "READY" ELSE ty[u]
  PROVE  Linked(Ready(L, fd, d), tz)
<1>1. CASE d \notin Woken(fd)
  <2>1. tz = ty  BY <1>1 DEF Typings
  <2>2. Ready(L, fd, d) = L  BY <1>1 DEF Ready
  <2> QED  BY <2>1, <2>2
<1>2. CASE d \in Woken(fd)
  <2>1. PICK t \in Threads : t = sock[fd].t[d] /\ (th[t].type = "READY" => ty[t] = "READY")
    BY <1>2
  <2>2. tz = [ty EXCEPT ![t] = "READY"]  BY <1>2, <2>1 DEF Typings
  <2>3. CASE th[t].type = "READY"
    <3>1. Ready(L, fd, d) = L  BY <2>1, <2>3 DEF Ready
    <3>2. tz = ty  BY <2>1, <2>2, <2>3 DEF Typings
    <3> QED  BY <3>1, <3>2
  <2>4. CASE th[t].type # "READY"
    <3>1. PICK M : M = AddHead(Del(L, t), "READY", t)  OBVIOUS
    <3>2. "READY" \in Lists  BY DirsAre
    <3>3. Linked(M, [ty EXCEPT ![t] = "READY"])  BY <3>1, <3>2, MoveLinked
    <3>4. Ready(L, fd, d) = M  BY <1>2, <2>1, <2>4, <3>1 DEF Ready
    <3> QED  BY <2>2, <3>3, <3>4
  <2> QED  BY <2>3, <2>4
<1> QED  BY <1>1, <1>2

\* cl_thread_do_event
LEMMA DoEventKeeps ==
  ASSUME Inv, NEW fd \in Fds, DoEvent(fd)
  PROVE  Inv'
<1>0. TypeOK /\ Core /\ crash = "no" /\ pc = "events" /\ UNCHANGED <<armed, pc>>
  BY DEF Inv, DoEvent, InEvents, Running
<1>1. SocketsAgree /\ KernelAgrees /\ Linked(lists, Types)  BY <1>0 DEF Core
<1>2. PICK threads : threads = {sock[fd].t[d] : d \in Woken(fd)}  OBVIOUS
<1>3. /\ Woken(fd) \subseteq sock[fd].type /\ Woken(fd) \subseteq Dirs
      /\ evs' = [evs EXCEPT ![fd] = {}]
  BY <1>0 DEF Woken, TypeOK, DoEvent
<1>4. \A d \in Woken(fd) :
        /\ sock[fd].t[d] \in Threads
        /\ th[sock[fd].t[d]].fd = fd /\ th[sock[fd].t[d]].type \in {d, "READY"}
  <2> SUFFICES ASSUME NEW d \in Woken(fd)
               PROVE  /\ sock[fd].t[d] \in Threads
                      /\ th[sock[fd].t[d]].fd = fd /\ th[sock[fd].t[d]].type \in {d, "READY"}
    OBVIOUS
  <2>1. d \in Dirs /\ d \in sock[fd].type  BY <1>3
  <2>2. sock[fd].t[d] # NULL  BY <1>1, <2>1, SocketIs
  <2>3. sock[fd].t[d] \in Threads  BY <1>0, <2>1, <2>2 DEF TypeOK
  <2> QED  BY <1>1, <2>1, <2>2, <2>3, SocketIs
<1>5. NULL \notin threads /\ threads \subseteq Threads  BY <1>2, <1>4, ThreadsAre
<1>6. /\ th' = [u \in Threads |->
           IF u \in threads THEN [th[u] EXCEPT !.type = "READY"] ELSE th[u]]
      /\ lists' = Ready(Ready(lists, fd, "READ"), fd, "WRITE")
      /\ IF Woken(fd) \subseteq sock[fd].persist
         THEN UNCHANGED <<sock, ep>>
         ELSE /\ sock' = [sock EXCEPT ![fd].op = IF Rest(fd) = {} THEN "ADD" ELSE "ADDED"]
              /\ ep' = IF Rest(fd) = {} THEN CtlDel(fd) ELSE Ctl(fd, Rest(fd))
      /\ UNCHANGED crash
  BY <1>2, <1>5 DEF DoEvent
<1>7. /\ th' \in [Threads -> [type : Lists \union {"NEW"}, fd : Fds]]
      /\ \A u \in Threads : /\ th'[u].fd = th[u].fd
                            /\ u \in threads => th'[u].type = "READY"
                            /\ u \notin threads => th'[u].type = th[u].type
  <2>1. th \in [Threads -> [type : Lists \union {"NEW"}, fd : Fds]]  BY <1>0 DEF TypeOK
  <2>2. "READY" \in Lists  BY DirsAre
  <2>3. ASSUME NEW u \in Threads
        PROVE  /\ th'[u] \in [type : Lists \union {"NEW"}, fd : Fds]
               /\ th'[u].fd = th[u].fd
               /\ u \in threads => th'[u].type = "READY"
               /\ u \notin threads => th'[u].type = th[u].type
    <3>1. CASE u \in threads
      <4>1. th'[u] = [th[u] EXCEPT !.type = "READY"]  BY <1>6, <3>1
      <4> QED  BY <2>1, <2>2, <3>1, <4>1
    <3>2. CASE u \notin threads
      <4>1. th'[u] = th[u]  BY <1>6, <3>2
      <4> QED  BY <2>1, <3>2, <4>1
    <3> QED  BY <3>1, <3>2
  <2>4. DOMAIN th' = Threads /\ th' = [u \in Threads |-> th'[u]]  BY <1>6
  <2> QED  BY <2>3, <2>4
<1>8. Linked(lists, Types)'
  <2>1. Types \in Typings /\ Types' \in Typings  BY <1>0, <1>7, TypesType DEF Types, Typings
  <2>2. PICK ty \in Typings :
          \A u \in Threads :
            ty[u] = IF "READ" \in Woken(fd) /\ u = sock[fd].t["READ"] THEN "READY" ELSE Types[u]
    <3> DEFINE ty == [u \in Threads |-> IF "READ" \in Woken(fd) /\ u = sock[fd].t["READ"]
                                        THEN "READY" ELSE Types[u]]
    <3>1. ty \in Typings  BY <2>1, DirsAre DEF Typings
    <3> QED  BY <3>1
  <2>3. PICK L : L = Ready(lists, fd, "READ")  OBVIOUS
  <2>4. Linked(L, ty)
    <3>1. "READ" \in Dirs  BY DirsAre
    <3>2. "READ" \in Woken(fd) =>
            /\ sock[fd].t["READ"] \in Threads
            /\ th[sock[fd].t["READ"]].type = "READY" => Types[sock[fd].t["READ"]] = "READY"
      BY <1>4 DEF Types
    <3> QED  BY <1>1, <2>1, <2>2, <2>3, <3>1, <3>2, ReadyLinked
  <2>5. \A u \in Threads :
          Types'[u] = IF "WRITE" \in Woken(fd) /\ u = sock[fd].t["WRITE"] THEN "READY" ELSE ty[u]
    <3> SUFFICES ASSUME NEW u \in Threads
                 PROVE  Types'[u] = IF "WRITE" \in Woken(fd) /\ u = sock[fd].t["WRITE"]
                                    THEN "READY" ELSE ty[u]
      OBVIOUS
    <3>1. Types'[u] = th'[u].type /\ Types[u] = th[u].type  BY DEF Types
    <3>2. u \in threads <=> \/ "READ" \in Woken(fd) /\ u = sock[fd].t["READ"]
                            \/ "WRITE" \in Woken(fd) /\ u = sock[fd].t["WRITE"]
      BY <1>2, <1>3, DirsAre
    <3>3. CASE u \in threads  BY <1>7, <2>2, <3>1, <3>2, <3>3
    <3>4. CASE u \notin threads  BY <1>7, <2>2, <3>1, <3>2, <3>4
    <3> QED  BY <3>3, <3>4
  <2>6. "WRITE" \in Woken(fd) =>
          /\ sock[fd].t["WRITE"] \in Threads
          /\ th[sock[fd].t["WRITE"]].type = "READY" => ty[sock[fd].t["WRITE"]] = "READY"
    BY <1>4, <2>2 DEF Types
  <2>7. "WRITE" \in Dirs  BY DirsAre
  <2>8. PICK tz \in Typings : tz = Types'  BY <2>1
  <2>9. \A u \in Threads :
          tz[u] = IF "WRITE" \in Woken(fd) /\ u = sock[fd].t["WRITE"] THEN "READY" ELSE ty[u]
    BY <2>5, <2>8
  <2>10. Linked(Ready(L, fd, "WRITE"), tz)  BY <2>4, <2>6, <2>7, <2>9, ReadyLinked
  <2> QED  BY <1>6, <2>3, <2>8, <2>10
<1>9. DOMAIN lists' = Lists /\ \A k \in Lists : lists'[k] \in Seq(Threads)
  BY <1>8 DEF Linked
<1>10. /\ \A g \in Fds : /\ sock'[g].type = sock[g].type /\ sock'[g].t = sock[g].t
                         /\ sock'[g].persist = sock[g].persist
                         /\ g # fd => sock'[g].op = sock[g].op
       /\ sock' \in [Fds -> [type : SUBSET Dirs, persist : SUBSET Dirs, op : {"ADD", "ADDED"},
                             t : [Dirs -> Threads \union {NULL}]]]
  <2>1. CASE UNCHANGED sock  BY <1>0, <2>1 DEF TypeOK
  <2>2. CASE sock' = [sock EXCEPT ![fd].op = IF Rest(fd) = {} THEN "ADD" ELSE "ADDED"]
    BY <1>0, <2>2 DEF TypeOK
  <2> QED  BY <1>6, <2>1, <2>2
<1>11. SocketsAgree'
  <2>1. ASSUME NEW g \in Fds, NEW d \in Dirs
        PROVE  LET u == sock'[g].t[d]
               IN  /\ (u = NULL) = (d \notin sock'[g].type)
                   /\ u # NULL => th'[u].fd = g /\ th'[u].type \in {d, "READY"}
    <3>1. PICK u \in Threads \union {NULL} : u = sock[g].t[d] /\ u = sock'[g].t[d]
      BY <1>0, <1>10 DEF TypeOK
    <3>2. (u = NULL) <=> (d \notin sock[g].type)
      <4>1. (sock[g].t[d] = NULL) <=> (d \notin sock[g].type)  BY <1>1, SocketIs
      <4> QED  BY <3>1, <4>1
    <3>3. u # NULL => th[u].fd = g /\ th[u].type \in {d, "READY"}
      <4>1. sock[g].t[d] # NULL =>
              th[sock[g].t[d]].fd = g /\ th[sock[g].t[d]].type \in {d, "READY"}
        BY <1>1, SocketIs
      <4> QED  BY <3>1, <4>1
    <3>4. u # NULL => th'[u].fd = g /\ th'[u].type \in {d, "READY"}  BY <1>7, <3>3
    <3>5. sock'[g].type = sock[g].type  BY <1>10
    <3> QED  BY <3>1, <3>2, <3>4, <3>5
  <2>2. ASSUME NEW u \in Threads, th'[u].type \in Dirs \union {"READY"}
        PROVE  \E d \in Dirs : sock'[th'[u].fd].t[d] = u
    <3>1. th[u].type \in Dirs \union {"READY"}
      <4>1. CASE u \in threads
        <5>1. PICK d \in Woken(fd) : u = sock[fd].t[d]  BY <1>2, <4>1
        <5> QED  BY <1>3, <1>4, <5>1
      <4>2. CASE u \notin threads  BY <1>7, <2>2, <4>2
      <4> QED  BY <4>1, <4>2
    <3>2. PICK d \in Dirs : th[u].fd \in Fds /\ sock[th[u].fd].t[d] = u
      BY <1>0, <1>1, <3>1, OwnerIs
    <3> QED  BY <1>7, <1>10, <3>2
  <2> QED  BY <2>1, <2>2 DEF SocketsAgree
<1>12. /\ ep' \in [Fds -> SUBSET Dirs]
       /\ \A g \in Fds : /\ (sock'[g].op = "ADD") = (ep'[g] = {})
                         /\ g # fd \/ Woken(fd) \subseteq sock[fd].persist => ep'[g] = ep[g]
       /\ Woken(fd) \subseteq sock[fd].persist \/ ep'[fd] = Rest(fd)
  <2>1. CASE Woken(fd) \subseteq sock[fd].persist
    BY <1>0, <1>1, <1>6, <2>1 DEF TypeOK, KernelAgrees
  <2>2. CASE ~(Woken(fd) \subseteq sock[fd].persist)
    <3>1. ep' = [ep EXCEPT ![fd] = Rest(fd)]
      <4>1. CASE Rest(fd) = {}  BY <1>6, <2>2, <4>1 DEF CtlDel
      <4>2. CASE Rest(fd) # {}
        <5>1. ep' = Ctl(fd, Rest(fd))  BY <1>6, <2>2, <4>2
        <5> QED  BY <1>0, <1>1, <5>1, CtlIs
      <4> QED  BY <4>1, <4>2
    <3>2. Rest(fd) \subseteq Dirs  BY <1>0 DEF Rest, TypeOK
    <3>3. ep' \in [Fds -> SUBSET Dirs] /\ ep'[fd] = Rest(fd) /\ \A g \in Fds : g # fd => ep'[g] = ep[g]
      BY <1>0, <3>1, <3>2 DEF TypeOK
    <3>4. sock' = [sock EXCEPT ![fd].op = IF Rest(fd) = {} THEN "ADD" ELSE "ADDED"]
      BY <1>6, <2>2
    <3>5. (sock'[fd].op = "ADD") = (Rest(fd) = {})  BY <1>0, <3>4 DEF TypeOK
    <3>6. \A g \in Fds : g # fd => (sock'[g].op = "ADD") = (ep'[g] = {})
      BY <1>1, <1>10, <3>3 DEF KernelAgrees
    <3> QED  BY <2>2, <3>3, <3>5, <3>6
  <2> QED  BY <2>1, <2>2
<1>13. KernelAgrees'
  <2>1. ASSUME NEW g \in Fds, NEW d \in Dirs, sock'[g].t[d] # NULL,
               th'[sock'[g].t[d]].type = d \/ d \in sock'[g].persist
        PROVE  d \in ep'[g]
    <3>1. PICK u \in Threads : u = sock[g].t[d] /\ u = sock'[g].t[d] /\ u # NULL
      BY <1>0, <1>10, <2>1 DEF TypeOK
    <3>2. th[u].type = d \/ d \in sock[g].persist
      <4>1. CASE th'[u].type = d
        <5>1. d # "READY"  BY DEF Dirs
        <5> QED  BY <1>7, <4>1, <5>1
      <4>2. CASE d \in sock'[g].persist  BY <1>10, <4>2
      <4> QED  BY <2>1, <3>1, <4>1, <4>2
    <3>3. d \in ep[g]  BY <1>1, <3>1, <3>2 DEF KernelAgrees
    <3>4. CASE g # fd \/ Woken(fd) \subseteq sock[fd].persist  BY <1>12, <3>3, <3>4
    <3>5. CASE g = fd /\ ~(Woken(fd) \subseteq sock[fd].persist)
      <4>1. d \in sock[fd].type  BY <1>1, <3>1, <3>5, SocketIs
      <4>2. d \in Woken(fd) => d \in sock[fd].persist
        <5>1. SUFFICES ASSUME d \in Woken(fd), d \notin sock[fd].persist PROVE FALSE  OBVIOUS
        <5>2. u \in threads  BY <1>2, <3>1, <3>5, <5>1
        <5>3. th'[u].type = "READY" /\ d # "READY"  BY <1>7, <5>2 DEF Dirs
        <5>4. d \notin sock'[g].persist  BY <1>10, <3>5, <5>1
        <5> QED  BY <2>1, <3>1, <5>3, <5>4
      <4>3. d \in Rest(fd)  BY <4>1, <4>2 DEF Rest
      <4> QED  BY <1>12, <3>5, <4>3
    <3> QED  BY <3>4, <3>5
  <2>2. \A g \in Fds : sock'[g].t["READ"] = sock'[g].t["WRITE"] => sock'[g].t["READ"] = NULL
    BY <1>1, <1>10 DEF KernelAgrees
  <2> QED  BY <1>12, <2>1, <2>2 DEF KernelAgrees
<1>14. armed' = {u \in Threads : th'[u].type = "TIMER"}
  <2>1. ASSUME NEW u \in Threads PROVE th'[u].type = "TIMER" <=> th[u].type = "TIMER"
    <3>1. CASE u \in threads
      <4>1. PICK d \in Woken(fd) : u = sock[fd].t[d]  BY <1>2, <3>1
      <4>2. th[u].type # "TIMER"  BY <1>3, <1>4, <4>1, DirsAre
      <4> QED  BY <1>7, <3>1, <4>2
    <3>2. CASE u \notin threads  BY <1>7, <3>2
    <3> QED  BY <3>1, <3>2
  <2> QED  BY <1>0, <2>1 DEF Core
<1>15. TypeOK'
  <2>1. evs' \in [Fds -> SUBSET Dirs]  BY <1>0, <1>3 DEF TypeOK
  <2> QED  BY <1>0, <1>6, <1>7, <1>9, <1>10, <1>12, <2>1 DEF TypeOK
<1> QED  BY <1>0, <1>6, <1>8, <1>11, <1>13, <1>14, <1>15 DEF Inv, Core, Running

------------------------------------------------------------------------------
(* The other steps, and the theorems. *)

LEMMA WithoutAll ==
  ASSUME NEW s, NEW T, \A k \in DOMAIN s : s[k] \in T
  PROVE  Without(s, T) = <<>>
<1> DEFINE kept == {k \in DOMAIN s : s[k] \notin T}
           place(i) == CHOOSE k \in kept : Cardinality({j \in kept : j < k}) = i - 1
           r == [i \in 1 .. Cardinality(kept) |-> s[place(i)]]
<1>1. Cardinality(kept) = 0
  <2>1. kept = {}  OBVIOUS
  <2> QED  BY <2>1, FS_EmptySet
<1>2. Without(s, T) = r  BY DEF Without
<1>3. r = [i \in 1 .. 0 |-> s[place(i)]]  BY <1>1
<1> HIDE DEF kept, place, r
<1>4. 1 .. 0 = {}  OBVIOUS
<1>5. [i \in 1 .. 0 |-> s[place(i)]] = <<>>  BY <1>4
<1> QED  BY <1>2, <1>3, <1>5

\* cl_thread_stop
LEMMA StopKeeps ==
  ASSUME Inv, Stop
  PROVE  Inv'
<1>0. TypeOK /\ Core /\ crash = "no" /\ pc = "call"
  BY DEF Inv, Stop, InProgram, Running
<1>1. SocketsAgree /\ Linked(lists, Types)  BY <1>0 DEF Core
<1>2. PICK listed, freed :
        /\ listed = ThreadsIn({"EVENT", "TIMER", "READY", "UNUSED"})
        /\ freed = listed \union SocketThreads
        /\ lists' = [l \in Lists |-> Without(lists[l], freed)]
        /\ th' = [t \in Threads |-> IF t \in freed THEN [th[t] EXCEPT !.type = "NEW"] ELSE th[t]]
        /\ crash' = IF listed \intersect SocketThreads # {} THEN "free" ELSE "no"
  BY DEF Stop
<1>3. /\ armed' = {}
      /\ sock' = [fd \in Fds |-> [type |-> {}, persist |-> {}, op |-> "ADD",
                                  t |-> [d \in Dirs |-> NULL]]]
      /\ ep' = [fd \in Fds |-> {}] /\ pc' = "stopped" /\ UNCHANGED evs
  BY DEF Stop
<1>4. ASSUME NEW l \in Lists PROVE lists'[l] = <<>>
  <2>1. ASSUME NEW k \in DOMAIN lists[l] PROVE lists[l][k] \in freed
    <3>1. PICK t \in Threads : t = lists[l][k]  BY <1>0, <2>1 DEF TypeOK
    <3>2. In(t, lists[l])  BY <3>1 DEF In
    <3>3. th[t].type = l  BY <1>1, <3>2 DEF Linked, Types
    <3>4. CASE l \in Dirs
      <4>1. PICK d \in Dirs : th[t].fd \in Fds /\ sock[th[t].fd].t[d] = t
        BY <1>0, <1>1, <3>3, <3>4, OwnerIs
      <4>2. t \in SocketThreads  BY <4>1, ThreadsAre DEF SocketThreads
      <4> QED  BY <1>2, <3>1, <4>2
    <3>5. CASE l \in {"EVENT", "TIMER", "READY", "UNUSED"}
      <4>1. k \in 1 .. Len(lists[l])  BY <1>0, <2>1 DEF TypeOK
      <4>2. t \in listed  BY <1>2, <3>1, <3>5, <4>1 DEF ThreadsIn
      <4> QED  BY <1>2, <3>1, <4>2
    <3> QED  BY <3>4, <3>5 DEF Lists
  <2>2. Without(lists[l], freed) = <<>>  BY <2>1, WithoutAll
  <2> QED  BY <1>2, <2>2
<1>5. TypeOK'
  <2>1. th \in [Threads -> [type : Lists \union {"NEW"}, fd : Fds]]  BY <1>0 DEF TypeOK
  <2>2. ASSUME NEW t \in Threads PROVE th'[t] \in [type : Lists \union {"NEW"}, fd : Fds]
    <3>1. CASE t \in freed
      <4>1. th'[t] = [th[t] EXCEPT !.type = "NEW"]  BY <1>2, <3>1
      <4> QED  BY <2>1, <4>1
    <3>2. CASE t \notin freed
      <4>1. th'[t] = th[t]  BY <1>2, <3>2
      <4> QED  BY <2>1, <4>1
    <3> QED  BY <3>1, <3>2
  <2>3. th' \in [Threads -> [type : Lists \union {"NEW"}, fd : Fds]]
    <3>1. DOMAIN th' = Threads /\ th' = [t \in Threads |-> th'[t]]  BY <1>2
    <3> QED  BY <2>2, <3>1
  <2>4. DOMAIN lists' = Lists /\ \A l \in Lists : lists'[l] \in Seq(Threads)
    <3>1. DOMAIN lists' = Lists  BY <1>2
    <3>2. <<>> \in Seq(Threads)  OBVIOUS
    <3> QED  BY <1>4, <3>1, <3>2
  <2>5. crash' \in {"no", "assert", "null", "free"}  BY <1>2
  <2>6. sock' \in [Fds -> [type : SUBSET Dirs, persist : SUBSET Dirs, op : {"ADD", "ADDED"},
                           t : [Dirs -> Threads \union {NULL}]]]
    BY <1>3
  <2> QED  BY <1>0, <1>3, <2>3, <2>4, <2>5, <2>6 DEF TypeOK
<1>6. crash' # "assert"  BY <1>2
<1> QED  BY <1>3, <1>4, <1>5, <1>6 DEF Inv, Running

\* Steps that change neither a thread nor a descriptor.
LEMMA LoopKeeps ==
  ASSUME Inv, Return \/ Wait \/ Timeout \/ NoneReady \/ UNCHANGED vars
  PROVE  Inv'
<1>1. UNCHANGED <<th, lists, armed, sock, ep, crash>>
  BY DEF Return, Wait, Timeout, NoneReady, vars
<1>2. Core' <=> Core
  <2>1. Types' = Types  BY <1>1 DEF Types
  <2>2. Linked(lists, Types)' <=> Linked(lists, Types)  BY <1>1, <2>1
  <2>3. SocketsAgree' <=> SocketsAgree  BY <1>1 DEF SocketsAgree
  <2>4. KernelAgrees' <=> KernelAgrees  BY <1>1 DEF KernelAgrees
  <2>5. (armed' = {t \in Threads : th'[t].type = "TIMER"})
          <=> (armed = {t \in Threads : th[t].type = "TIMER"})
    BY <1>1
  <2> QED  BY <2>2, <2>3, <2>4, <2>5 DEF Core
<1>3. CASE Return
  <2>1. pc = "call" /\ crash = "no" /\ pc' = "fetch" /\ UNCHANGED evs
    BY <1>3 DEF Return, InProgram
  <2>2. TypeOK'  BY <1>1, <2>1 DEF Inv, TypeOK
  <2> QED  BY <1>1, <1>2, <2>1, <2>2 DEF Inv, Running
<1>4. CASE Wait
  <2>1. pc = "fetch" /\ crash = "no" /\ pc' = "events" /\ evs' \in [Fds -> SUBSET Dirs]
    BY <1>4 DEF Wait, InFetch
  <2>2. TypeOK'  BY <1>1, <2>1 DEF Inv, TypeOK
  <2> QED  BY <1>1, <1>2, <2>1, <2>2 DEF Inv, Running
<1>5. CASE NoneReady
  <2>1. pc = "events" /\ crash = "no" /\ pc' = "fetch" /\ UNCHANGED evs
    BY <1>5 DEF NoneReady, InEvents
  <2>2. TypeOK'  BY <1>1, <2>1 DEF Inv, TypeOK
  <2> QED  BY <1>1, <1>2, <2>1, <2>2 DEF Inv, Running
<1>6. CASE Timeout \/ UNCHANGED vars
  <2>1. UNCHANGED <<pc, evs>>  BY <1>6 DEF Timeout, vars
  <2>2. TypeOK'  BY <1>1, <2>1 DEF Inv, TypeOK
  <2> QED  BY <1>1, <1>2, <2>1, <2>2 DEF Inv, Running
<1> QED  BY <1>3, <1>4, <1>5, <1>6

LEMMA InitKeeps == Init => Inv
<1> SUFFICES ASSUME Init PROVE Inv  OBVIOUS
<1>1. /\ th = [t \in Threads |-> [type |-> "NEW", fd |-> CHOOSE fd \in Fds : TRUE]]
      /\ lists = [l \in Lists |-> <<>>] /\ armed = {}
      /\ sock = [fd \in Fds |-> [type |-> {}, persist |-> {}, op |-> "ADD",
                                 t |-> [d \in Dirs |-> NULL]]]
      /\ ep = [fd \in Fds |-> {}] /\ pc = "call" /\ evs = [fd \in Fds |-> {}] /\ crash = "no"
  BY DEF Init
<1>2. (CHOOSE fd \in Fds : TRUE) \in Fds  BY ClAssumption
<1>3. TypeOK
  <2>1. th \in [Threads -> [type : Lists \union {"NEW"}, fd : Fds]]  BY <1>1, <1>2
  <2>2. sock \in [Fds -> [type : SUBSET Dirs, persist : SUBSET Dirs, op : {"ADD", "ADDED"},
                          t : [Dirs -> Threads \union {NULL}]]]
    BY <1>1
  <2>3. DOMAIN lists = Lists /\ \A l \in Lists : lists[l] \in Seq(Threads)  BY <1>1
  <2> QED  BY <1>1, <2>1, <2>2, <2>3 DEF TypeOK
<1>4. Linked(lists, Types)
  <2>1. ASSUME NEW l \in Lists, NEW t \in Threads PROVE In(t, lists[l]) <=> Types[t] = l
    <3>1. lists[l] = <<>> /\ DOMAIN <<>> = {}  BY <1>1
    <3>2. Types[t] # l  BY <1>1, NewIsNoList DEF Types
    <3> QED  BY <3>1, <3>2 DEF In
  <2>2. \A l \in Lists : lists[l] \in Seq(Threads) /\ Distinct(lists[l])  BY <1>1 DEF Distinct
  <2> QED  BY <1>1, <2>1, <2>2 DEF Linked
<1>5. SocketsAgree
  <2>1. \A fd \in Fds, d \in Dirs : sock[fd].t[d] = NULL /\ sock[fd].type = {}  BY <1>1
  <2>2. \A t \in Threads : th[t].type = "NEW"  BY <1>1
  <2> QED  BY <2>1, <2>2, DirsAre DEF SocketsAgree
<1>6. KernelAgrees  BY <1>1, DirsAre DEF KernelAgrees
<1>7. armed = {t \in Threads : th[t].type = "TIMER"}  BY <1>1
<1> QED  BY <1>1, <1>3, <1>4, <1>5, <1>6, <1>7 DEF Inv, Core, Running

LEMMA NextKeeps == Inv /\ [Next]_vars => Inv'
<1> SUFFICES ASSUME Inv, [Next]_vars PROVE Inv'  OBVIOUS
<1>1. ASSUME NEW fd \in Fds, NEW p \in BOOLEAN, AddRead(fd, p) \/ AddWrite(fd, p) PROVE Inv'
  <2>1. PICK d \in Dirs : AddIO(d, fd, p)  BY <1>1, DirsAre DEF AddRead, AddWrite
  <2> QED  BY <2>1, AddIOKeeps
<1>2. CASE AddTimer  BY <1>2, AddTimerKeeps
<1>3. CASE AddEvent  BY <1>3, AddEventKeeps
<1>4. ASSUME NEW t \in Threads, Cancel(t) PROVE Inv'  BY <1>4, CancelKeeps
<1>5. CASE Stop  BY <1>5, StopKeeps
<1>6. CASE Return \/ Wait \/ Timeout \/ NoneReady \/ UNCHANGED vars  BY <1>6, LoopKeeps
<1>7. CASE RunEvent  BY <1>7, RunEventKeeps
<1>8. CASE RunReady  BY <1>8, RunReadyKeeps
<1>9. ASSUME NEW t \in Threads, RunTimer(t) PROVE Inv'  BY <1>9, RunTimerKeeps
<1>10. ASSUME NEW fd \in Fds, DoEvent(fd) PROVE Inv'  BY <1>10, DoEventKeeps
<1>11. CASE Fetch  BY <1>6, <1>7, <1>8, <1>9, <1>10, <1>11 DEF Fetch
<1>12. CASE Program  BY <1>1, <1>2, <1>3, <1>4, <1>5, <1>12 DEF Program
<1> QED  BY <1>6, <1>11, <1>12 DEF Next, FetchLock

\* Every thread is in exactly one list, the one of its type; the timers are those
\* that the heap may return, the sockets point to their threads, and no cl_assert of
\* cl_thread.c fails, whatever the program adds, cancels and stops.
THEOREM EveryThreadPlaced == Spec => []Placed
<1>1. Inv => Placed  BY InvIs DEF IInv
<1> QED  BY InitKeeps, NextKeeps, <1>1, PTL DEF Spec

\* epoll listens for what a thread waits for: cl_thread_add_read, cl_thread_add_write,
\* cl_thread_cancel and cl_thread_do_event keep the interest of the other direction.
THEOREM NoEventLost == Spec => []NoLostEvent
<1>1. Inv => NoLostEvent
  <2> SUFFICES ASSUME Inv, NEW t \in Threads, Running, th[t].type \in Dirs
               PROVE  th[t].type \in ep[th[t].fd]
    BY DEF NoLostEvent
  <2>0. TypeOK /\ SocketsAgree /\ KernelAgrees  BY DEF Inv, Core
  <2>1. PICK d \in Dirs : /\ th[t].fd \in Fds /\ sock[th[t].fd].t[d] = t
                          /\ th[t].type \in {d, "READY"}
    BY <2>0, OwnerIs
  <2>2. th[t].type = d  BY <2>1 DEF Dirs
  <2>3. t # NULL  BY ThreadsAre
  <2> QED  BY <2>0, <2>1, <2>2, <2>3 DEF KernelAgrees
<1> QED  BY InitKeeps, NextKeeps, <1>1, PTL DEF Spec
==============================================================================
