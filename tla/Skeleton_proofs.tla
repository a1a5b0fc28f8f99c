--------------------------- MODULE Skeleton_proofs ----------------------------
(***************************************************************************)
(* For any modules, agents, channel lengths and numbers of operations: a   *)
(* server has room for its answer, an operation ends once and its caller is*)
(* told what happened, and a LinearContext keeps its order.                *)
(***************************************************************************)
EXTENDS Skeleton, Integers, FiniteSetTheorems, SequenceTheorems, TLAPS

Elems(s) == {s[k] : k \in DOMAIN s}
Distinct(s) == \A k, l \in DOMAIN s : s[k] = s[l] => k = l
Before(s, x, y) == \E k, l \in DOMAIN s : k < l /\ s[k] = x /\ s[l] = y

Kinds == {"Go", "Call", "AsynCall", "go", "linear", "after", "cron"}
Results == {"none", "no function", "closed", "many", "full", "ran"}
Places == {"run", "server.Close", "g.Close", "client.Close", "done"}

\* An operation of one of these kinds, also of a goroutine p
Is(i, K) == i \in 1 .. Len(ops) /\ ops[i].kind \in K
By(i, K, p) == Is(i, K) /\ ops[i].by = p

TypeOK ==
  /\ ops \in Seq([kind : Kinds, by : Procs, to : Modules]) /\ Len(ops) <= MaxOps
  /\ loop \in [Modules -> Places]
  /\ st \in [Procs -> {"idle", "busy", "send", "wait"}]
  /\ cur \in [Modules -> {"none", "call", "go", "cb", "timer"} \X Nat]
  /\ sync \in [Procs -> Nat]
  /\ chanCall \in [Modules -> Seq(Ids)] /\ closed \in [Modules -> BOOLEAN]
  /\ chanSyncRet \in [Procs -> Seq(Ids \X Results)]
  /\ chanAsynRet \in [Modules -> Seq(Ids \X Results)]
  /\ pendingAsynCall \in [Modules -> Nat]
  /\ running \in [Modules -> SUBSET Ids] /\ linearGo \in [Modules -> Seq(Ids)]
  /\ execution \in [Modules -> Ids \cup {0}]
  /\ chanCb \in [Modules -> Seq(Ids)] /\ pendingGo \in [Modules -> Nat]
  /\ timers \in [Ids -> {"none", "armed", "stopped", "fired", "queued", "over"}]
  /\ cb \in [Ids -> BOOLEAN]
  /\ chanTimer \in [Modules -> Seq(Ids)]
  /\ main \in 0 .. N + 1 /\ closeSig \in [Modules -> BOOLEAN]
  /\ ran \in [Ids -> Nat]
  /\ got \in [Ids -> {<<>>} \cup {<<r>> : r \in Results}]

\* Only modules do more than call; what has not started has left no trace; what
\* ended was told the truth.
OpsInv ==
  /\ \A i \in 1 .. Len(ops) : ops[i].kind \in Kinds \ {"Go", "Call"} => ops[i].by \in Modules
  /\ \A i \in Ids : i > Len(ops) => ran[i] = 0 /\ got[i] = <<>> /\ ~cb[i] /\ timers[i] = "none"
  /\ \A i \in 1 .. Len(ops) :
       /\ ops[i].kind # "cron" => ran[i] <= 1
       /\ got[i] # <<>> => (got[i] = <<"ran">> <=> ran[i] = 1)
  /\ \A m \in Modules : st[m] = "idle" => cur[m] = None

\* An answer, and what it says of the function
Told(x) == IF x[2] = "ran" THEN ran[x[1]] = 1 ELSE ran[x[1]] = 0
Answered(i) == \E x \in Elems(ChanRet(i)) : x[1] = i

\* A call that the server m has and that is not answered yet
Open(i, m) ==
  /\ Is(i, {"Go", "Call", "AsynCall"}) /\ ops[i].to = m
  /\ got[i] = <<>> /\ ~Answered(i)
  /\ ops[i].kind = "Call" => st[ops[i].by] = "wait" /\ sync[ops[i].by] = i

\* A call is sent, queued, executed or answered, one after the other.
Sent(p) ==
  /\ st[p] = "send" => /\ By(sync[p], {"Go", "Call"}, p)
                       /\ got[sync[p]] = <<>> /\ ran[sync[p]] = 0
                       /\ sync[p] \notin Elems(chanCall[ops[sync[p]].to])
  /\ st[p] = "wait" => By(sync[p], {"Call"}, p)
Served(m) ==
  /\ Distinct(chanCall[m])
  /\ \A i \in Elems(chanCall[m]) : Open(i, m) /\ ran[i] = 0
  /\ cur[m][1] = "call" => Open(cur[m][2], m) /\ ran[cur[m][2]] = 1
Returned(p) ==
  /\ Len(chanSyncRet[p]) <= 1
  /\ \A x \in Elems(chanSyncRet[p]) :
       /\ By(x[1], {"Call"}, p) /\ got[x[1]] = <<>> /\ Told(x)
       /\ st[p] = "wait" /\ sync[p] = x[1]
CalledBack(m) ==
  /\ \A k, l \in DOMAIN chanAsynRet[m] : chanAsynRet[m][k][1] = chanAsynRet[m][l][1] => k = l
  /\ \A x \in Elems(chanAsynRet[m]) :
       By(x[1], {"AsynCall"}, m) /\ got[x[1]] = <<>> /\ Told(x)
RpcInv ==
  /\ \A p \in Procs : Sent(p) /\ Returned(p)
  /\ \A m \in Modules : Served(m) /\ CalledBack(m)

\* pendingAsynCall counts the calls without a callback: so the answers on their way
\* and those in the channel fit in it.
Outstanding(m) == {i \in 1 .. Len(ops) : By(i, {"AsynCall"}, m) /\ got[i] = <<>>}
\* pendingGo counts the functions whose callback has not ended.
Unfinished(m) ==
  {i \in 1 .. Len(ops) : By(i, {"go", "linear"}, m) /\ (got[i] = <<>> \/ cur[m] = <<"go", i>>)}
Counts ==
  \A m \in Modules :
    /\ pendingAsynCall[m] = Cardinality(Outstanding(m)) /\ pendingAsynCall[m] <= AsynLen
    /\ pendingGo[m] = Cardinality(Unfinished(m))
    /\ loop[m] = "done" => st[m] = "idle" /\ pendingGo[m] = 0 /\ pendingAsynCall[m] = 0

\* Where a function of a Go is that has not had its callback
Unrun(i, K, m) == By(i, K, m) /\ got[i] = <<>> /\ ran[i] = 0
GoPlaced(m) ==
  /\ \A i \in running[m] : Unrun(i, {"go"}, m)
  /\ \A i \in Elems(linearGo[m]) : Unrun(i, {"linear"}, m) /\ i # execution[m]
  /\ execution[m] # 0 => Unrun(execution[m], {"linear"}, m)
  /\ \A i \in Elems(chanCb[m]) : By(i, {"go", "linear"}, m) /\ got[i] = <<>> /\ ran[i] = 1
  /\ Distinct(linearGo[m]) /\ Distinct(chanCb[m])
  /\ cur[m][1] = "go" => By(cur[m][2], {"go", "linear"}, m) /\ got[cur[m][2]] # <<>>

\* Of two functions of a LinearContext the second is never ahead of the first.
Behind(m, i, j) ==
  /\ i \in Elems(linearGo[m]) => Before(linearGo[m], i, j)
  /\ i = execution[m] => j \in Elems(linearGo[m])
  /\ i \in Elems(chanCb[m]) => \/ j \in Elems(linearGo[m]) \/ j = execution[m]
                               \/ Before(chanCb[m], i, j)
Somewhere(m, i) ==
  got[i] = <<>> => i \in Elems(linearGo[m]) \cup {execution[m]} \cup Elems(chanCb[m])
Linear(m) ==
  /\ \A i \in 1 .. Len(ops) : By(i, {"linear"}, m) => Somewhere(m, i)
  /\ \A i, j \in 1 .. Len(ops) :
       By(i, {"linear"}, m) /\ By(j, {"linear"}, m) /\ i < j => Behind(m, i, j)
GoInv == \A m \in Modules : GoPlaced(m) /\ Linear(m)

\* A timer that can still run its callback has not.
TimerInv ==
  /\ \A i \in 1 .. Len(ops) : cb[i] \/ timers[i] # "none" => ops[i].kind \in {"after", "cron"}
  /\ \A i \in 1 .. Len(ops) : ops[i].kind \in {"after", "cron"} => got[i] = <<>>
  /\ \A i \in 1 .. Len(ops) : ops[i].kind = "after" /\ cb[i] => ran[i] = 0
  /\ \A m \in Modules : \A i \in Elems(chanTimer[m]) : By(i, {"after", "cron"}, m)

IInv == TypeOK /\ OpsInv /\ RpcInv /\ Counts /\ GoInv /\ TimerInv

-----------------------------------------------------------------------------
\* What the operations on channels return.
LEMMA AppendIs ==
  ASSUME NEW S, NEW s \in Seq(S), NEW x \in S
  PROVE  /\ Append(s, x) \in Seq(S) /\ Len(Append(s, x)) = Len(s) + 1
         /\ Elems(Append(s, x)) = Elems(s) \cup {x}
         /\ Distinct(s) /\ x \notin Elems(s) => Distinct(Append(s, x))
         /\ \A y, z : Before(s, y, z) => Before(Append(s, x), y, z)
         /\ \A y \in Elems(s) : Before(Append(s, x), y, x)
<1> DEFINE t == Append(s, x)
           n == Len(s)
<1>1. /\ t \in Seq(S) /\ Len(t) = n + 1 /\ n \in Nat
      /\ DOMAIN s = 1 .. n /\ DOMAIN t = 1 .. n + 1
      /\ t[n + 1] = x /\ \A i \in 1 .. n : t[i] = s[i]
  OBVIOUS
<1> HIDE DEF t, n
<1>2. n + 1 \in DOMAIN t /\ n + 1 \notin DOMAIN s /\ DOMAIN t = DOMAIN s \cup {n + 1}
  BY <1>1
<1>3. \A i \in DOMAIN s : i \in DOMAIN t /\ t[i] = s[i]  BY <1>1, <1>2
<1>4. Elems(t) = Elems(s) \cup {x}
  <2>1. \A i \in DOMAIN t : t[i] \in Elems(s) \cup {x}  BY <1>1, <1>2, <1>3 DEF Elems
  <2>2. x \in Elems(t)  BY <1>1, <1>2 DEF Elems
  <2>3. \A i \in DOMAIN s : s[i] \in Elems(t)
    <3> SUFFICES ASSUME NEW i \in DOMAIN s  PROVE s[i] \in Elems(t)  OBVIOUS
    <3>1. i \in DOMAIN t /\ t[i] = s[i]  BY <1>3
    <3> QED  BY <3>1 DEF Elems
  <2> QED  BY <2>1, <2>2, <2>3 DEF Elems
<1>5. Distinct(s) /\ x \notin Elems(s) => Distinct(t)
  <2> SUFFICES ASSUME Distinct(s), x \notin Elems(s),
                      NEW k \in DOMAIN t, NEW l \in DOMAIN t, t[k] = t[l]
               PROVE  k = l
    BY DEF Distinct
  <2>1. \A i \in DOMAIN s : s[i] # x  BY DEF Elems
  <2>2. CASE k \in DOMAIN s /\ l \in DOMAIN s  BY <2>2, <1>3 DEF Distinct
  <2>3. CASE k = n + 1 /\ l \in DOMAIN s  BY <2>3, <2>1, <1>1, <1>3
  <2>4. CASE l = n + 1 /\ k \in DOMAIN s  BY <2>4, <2>1, <1>1, <1>3
  <2> QED  BY <2>2, <2>3, <2>4, <1>2
<1>6. \A y, z : Before(s, y, z) => Before(t, y, z)  BY <1>3 DEF Before
<1>7. \A y \in Elems(s) : Before(t, y, x)
  <2> SUFFICES ASSUME NEW y \in Elems(s)  PROVE Before(t, y, x)  OBVIOUS
  <2>1. PICK i \in DOMAIN s : s[i] = y  BY DEF Elems
  <2>2. i \in DOMAIN t /\ t[i] = y /\ i < n + 1  BY <2>1, <1>1, <1>3
  <2> QED  BY <2>2, <1>1, <1>2 DEF Before
<1> QED  BY <1>1, <1>4, <1>5, <1>6, <1>7 DEF t, n

LEMMA ElemsOfAppend ==
  \A S : \A s \in Seq(S) : \A x \in S :
    Append(s, x) \in Seq(S) /\ Elems(Append(s, x)) = Elems(s) \cup {x}
<1> SUFFICES ASSUME NEW S, NEW s \in Seq(S), NEW x \in S
             PROVE  Append(s, x) \in Seq(S) /\ Elems(Append(s, x)) = Elems(s) \cup {x}
  OBVIOUS
<1> QED  BY AppendIs

LEMMA TailIs ==
  ASSUME NEW S, NEW s \in Seq(S), s # <<>>
  PROVE  /\ Tail(s) \in Seq(S) /\ Head(s) \in S /\ Head(s) \in Elems(s)
         /\ Len(s) \in Nat \ {0} /\ Len(Tail(s)) = Len(s) - 1
         /\ Elems(s) = Elems(Tail(s)) \cup {Head(s)}
         /\ \A k \in DOMAIN Tail(s) : /\ k + 1 \in DOMAIN s /\ Tail(s)[k] = s[k + 1]
                                      /\ k + 1 # 1 /\ k \in Nat
         /\ 1 \in DOMAIN s /\ Head(s) = s[1]
         /\ Distinct(s) => /\ Distinct(Tail(s)) /\ Head(s) \notin Elems(Tail(s))
                           /\ \A x : ~Before(s, x, Head(s))
         /\ \A x, y : Before(s, x, y) /\ x # Head(s) => Before(Tail(s), x, y)
         /\ \A y : Before(s, Head(s), y) /\ Distinct(s) => y \in Elems(Tail(s))
<1> DEFINE t == Tail(s)
           h == Head(s)
<1>1. PICK n \in Nat \ {0} : n = Len(s)  OBVIOUS
<1>2. /\ t \in Seq(S) /\ h \in S /\ Len(t) = n - 1
      /\ DOMAIN s = 1 .. n /\ DOMAIN t = 1 .. n - 1 /\ h = s[1]
      /\ \A k \in 1 .. n - 1 : t[k] = s[k + 1]
  BY <1>1
<1> HIDE DEF t, h
<1>3. \A k \in DOMAIN t : k + 1 \in DOMAIN s /\ t[k] = s[k + 1] /\ k + 1 # 1 /\ k \in Nat
  BY <1>2
<1>4. \A k \in DOMAIN s : k \in Nat /\ (k # 1 => k - 1 \in DOMAIN t /\ s[k] = t[k - 1])
  <2> SUFFICES ASSUME NEW k \in DOMAIN s
               PROVE  k \in Nat /\ (k # 1 => k - 1 \in DOMAIN t /\ s[k] = t[k - 1])
    OBVIOUS
  <2>1. k \in 1 .. n  BY <1>2
  <2>2. k # 1 => k - 1 \in 1 .. n - 1 /\ (k - 1) + 1 = k  BY <2>1
  <2> QED  BY <2>1, <2>2, <1>2
<1>5. 1 \in DOMAIN s  BY <1>2
<1>6. Elems(s) = Elems(t) \cup {h} /\ h \in Elems(s)
  <2>1. \A k \in DOMAIN s : s[k] \in Elems(t) \cup {h}
    <3> SUFFICES ASSUME NEW k \in DOMAIN s  PROVE s[k] \in Elems(t) \cup {h}  OBVIOUS
    <3>1. CASE k = 1  BY <3>1, <1>2
    <3>2. CASE k # 1
      <4>1. k - 1 \in DOMAIN t /\ s[k] = t[k - 1]  BY <3>2, <1>4
      <4> QED  BY <4>1 DEF Elems
    <3> QED  BY <3>1, <3>2
  <2>2. \A k \in DOMAIN t : t[k] \in Elems(s)
    <3> SUFFICES ASSUME NEW k \in DOMAIN t  PROVE t[k] \in Elems(s)  OBVIOUS
    <3>1. k + 1 \in DOMAIN s /\ t[k] = s[k + 1]  BY <1>3
    <3> QED  BY <3>1 DEF Elems
  <2>3. h \in Elems(s)  BY <1>2, <1>5 DEF Elems
  <2> QED  BY <2>1, <2>2, <2>3 DEF Elems
<1>7. ASSUME Distinct(s)
      PROVE  Distinct(t) /\ h \notin Elems(t) /\ \A x : ~Before(s, x, h)
  <2>1. Distinct(t)
    <3> SUFFICES ASSUME NEW k \in DOMAIN t, NEW l \in DOMAIN t, t[k] = t[l]  PROVE k = l
      BY DEF Distinct
    <3>1. k + 1 = l + 1  BY <1>3, <1>7 DEF Distinct
    <3>2. k \in Nat /\ l \in Nat  BY <1>3
    <3> QED  BY <3>1, <3>2
  <2>2. ASSUME NEW k \in DOMAIN t, t[k] = h  PROVE FALSE
    <3>1. k + 1 = 1  BY <2>2, <1>2, <1>3, <1>5, <1>7 DEF Distinct
    <3> QED  BY <3>1, <1>3
  <2>3. ASSUME NEW x, Before(s, x, h)  PROVE FALSE
    <3>1. PICK k \in DOMAIN s, l \in DOMAIN s : k < l /\ s[l] = h  BY <2>3 DEF Before
    <3>2. l = 1  BY <3>1, <1>2, <1>5, <1>7 DEF Distinct
    <3>3. k \in 1 .. n  BY <1>2
    <3> QED  BY <3>1, <3>2, <3>3
  <2> QED  BY <2>1, <2>2, <2>3 DEF Elems
<1>8. ASSUME NEW x, NEW y, Before(s, x, y), x # h  PROVE Before(t, x, y)
  <2>1. PICK k \in DOMAIN s, l \in DOMAIN s : k < l /\ s[k] = x /\ s[l] = y
    BY <1>8 DEF Before
  <2>2. k # 1  BY <2>1, <1>2, <1>8
  <2>3. l # 1
    <3>1. k \in 1 .. n  BY <1>2
    <3> QED  BY <3>1, <2>1, <2>2
  <2>4. /\ k - 1 \in DOMAIN t /\ s[k] = t[k - 1] /\ l - 1 \in DOMAIN t /\ s[l] = t[l - 1]
        /\ k \in Nat /\ l \in Nat
    BY <2>2, <2>3, <1>4
  <2>5. k - 1 < l - 1  BY <2>1, <2>4
  <2> QED  BY <2>1, <2>4, <2>5 DEF Before
<1>9. ASSUME NEW y, Before(s, h, y), Distinct(s)  PROVE y \in Elems(t)
  <2>1. PICK k \in DOMAIN s, l \in DOMAIN s : k < l /\ s[k] = h /\ s[l] = y
    BY <1>9 DEF Before
  <2>2. l # 1
    <3>1. k \in 1 .. n  BY <1>2
    <3> QED  BY <3>1, <2>1
  <2>3. l - 1 \in DOMAIN t /\ t[l - 1] = y  BY <2>1, <2>2, <1>4
  <2> QED  BY <2>3 DEF Elems
<1> QED  BY <1>1, <1>2, <1>3, <1>5, <1>6, <1>7, <1>8, <1>9 DEF t, h

LEMMA BeforeIs ==
  ASSUME NEW s, NEW x, NEW y, Before(s, x, y)
  PROVE  x \in Elems(s) /\ y \in Elems(s)
BY DEF Before, Elems

LEMMA NoElems == Elems(<<>>) = {} /\ Distinct(<<>>) /\ Len(<<>>) = 0
<1>1. DOMAIN <<>> = {} /\ Len(<<>>) = 0  OBVIOUS
<1> QED  BY <1>1 DEF Elems, Distinct

-----------------------------------------------------------------------------
\* The operation that is started, and the ones before it
Grows ==
  /\ Len(ops') \in Nat /\ Len(ops') >= Len(ops) /\ Len(ops) \in Nat
  /\ \A i \in 1 .. Len(ops) : i \in 1 .. Len(ops') /\ ops'[i] = ops[i]

LEMMA StartIs ==
  ASSUME TypeOK, NEW kind \in Kinds, NEW p \in Procs, NEW m \in Modules, Start(kind, p, m)
  PROVE  /\ New \in Ids /\ New = Len(ops) + 1 /\ New \notin 1 .. Len(ops)
         /\ ops' \in Seq([kind : Kinds, by : Procs, to : Modules])
         /\ Len(ops') = New /\ New <= MaxOps /\ Grows /\ st[p] = "busy"
         /\ New \in 1 .. Len(ops') /\ ops'[New] = [kind |-> kind, by |-> p, to |-> m]
         /\ \A i \in 1 .. Len(ops') : i \in 1 .. Len(ops) \/ i = New
<1>1. PICK n \in Nat : n = Len(ops)  BY DEF TypeOK
<1>2. /\ New \in Ids /\ st[p] = "busy" /\ New = n + 1
      /\ ops' = Append(ops, [kind |-> kind, by |-> p, to |-> m])
  BY <1>1 DEF Start, New
<1> DEFINE R == [kind : Kinds, by : Procs, to : Modules]
           x == [kind |-> kind, by |-> p, to |-> m]
<1>3. ops \in Seq(R) /\ x \in R  BY DEF TypeOK
<1> HIDE DEF R, x
<1>4. /\ ops' \in Seq(R) /\ Len(ops') = n + 1 /\ ops'[n + 1] = x
      /\ \A i \in 1 .. n : ops'[i] = ops[i]
  BY <1>1, <1>2, <1>3 DEF x
<1>5. New <= MaxOps  BY <1>2, SkeletonAssumption DEF Ids
<1>6. \A i \in 1 .. n : i \in 1 .. n + 1  OBVIOUS
<1>7. Grows  BY <1>1, <1>4, <1>6 DEF Grows
<1>8. /\ n + 1 \notin 1 .. n /\ n + 1 \in 1 .. n + 1
      /\ \A i \in 1 .. n + 1 : i \in 1 .. n \/ i = n + 1
  OBVIOUS
<1> QED  BY <1>1, <1>2, <1>4, <1>5, <1>7, <1>8 DEF R, x

\* What there is to say of an operation.
LEMMA OpsIs ==
  ASSUME TypeOK
  PROVE  /\ Len(ops) \in Nat /\ MaxOps \in Nat /\ Len(ops) <= MaxOps
         /\ \A i \in 1 .. Len(ops) : /\ i \in Ids /\ ops[i].kind \in Kinds /\ i # 0
                                     /\ ops[i].by \in Procs /\ ops[i].to \in Modules
         /\ Modules \subseteq Procs /\ 0 \notin Ids /\ Ids \subseteq Nat
<1>1. Len(ops) \in Nat /\ MaxOps \in Nat /\ Len(ops) <= MaxOps
  BY SkeletonAssumption DEF TypeOK
<1>2. \A i \in 1 .. Len(ops) : ops[i] \in [kind : Kinds, by : Procs, to : Modules]
  <2> DEFINE R == [kind : Kinds, by : Procs, to : Modules]
  <2>1. ops \in Seq(R)  BY DEF TypeOK
  <2> HIDE DEF R
  <2>2. \A i \in 1 .. Len(ops) : ops[i] \in R  BY <2>1
  <2> QED  BY <2>2 DEF R
<1>3. \A i \in 1 .. Len(ops) : i \in Ids /\ i # 0  BY <1>1 DEF Ids
<1>4. 0 \notin Ids /\ Ids \subseteq Nat  BY DEF Ids
<1> QED  BY <1>1, <1>2, <1>3, <1>4 DEF Procs

LEMMA NoneIs == None \in {"none", "call", "go", "cb", "timer"} \X Nat /\ None[1] = "none"
BY DEF None

\* An action that calls nothing leaves the calls as they are.
LEMMA RpcFrame ==
  ASSUME TypeOK, RpcInv, Grows,
         \A i : Is(i, {"Go", "Call", "AsynCall"}) => got'[i] = got[i] /\ ran'[i] = ran[i],
         \A p \in Procs : (st'[p] = "send" <=> st[p] = "send") /\ (st'[p] = "wait" <=> st[p] = "wait"),
         UNCHANGED <<sync, chanCall, chanSyncRet, chanAsynRet>>,
         \A m \in Modules : cur'[m][1] = "call" => cur'[m] = cur[m]
  PROVE  RpcInv'
<1>1. \A i, K : Is(i, K) => /\ Is(i, K)' /\ ops'[i] = ops[i]
  BY DEF Is, Grows
<1>2. \A i, K, p : By(i, K, p) => By(i, K, p)' /\ Is(i, K)  BY <1>1 DEF By
<1>3. \A i, K : Is(i, K) => Is(i, Kinds)  BY OpsIs DEF Is
<1>4. \A i : Is(i, Kinds) => ChanRet(i)' = ChanRet(i)  BY <1>1 DEF ChanRet
<1>5. \A i : Is(i, Kinds) => (Answered(i)' <=> Answered(i))  BY <1>4 DEF Answered
<1>6. \A i, m : Open(i, m) => Is(i, {"Go", "Call", "AsynCall"})  BY DEF Open
<1>7. ASSUME NEW i, NEW m, Open(i, m)  PROVE Open(i, m)'
  <2>1. Is(i, {"Go", "Call", "AsynCall"}) /\ Is(i, Kinds)  BY <1>3, <1>7 DEF Open
  <2>2. ops[i].by \in Procs  BY <2>1, OpsIs DEF Is
  <2> QED  BY <1>1, <1>5, <1>7, <2>1, <2>2 DEF Open
<1>8. \A i, K : Is(i, K) /\ K \subseteq {"Go", "Call", "AsynCall"} => Is(i, {"Go", "Call", "AsynCall"})
  BY DEF Is
<1>9. ASSUME NEW p \in Procs  PROVE Sent(p)' /\ Returned(p)'
  <2>1. Sent(p) /\ Returned(p)  BY DEF RpcInv
  <2>2. Sent(p)'
    <3>1. CASE st[p] = "send"
      <4>1. By(sync[p], {"Go", "Call"}, p) /\ st'[p] = "send"  BY <2>1, <3>1 DEF Sent
      <4>2. Is(sync[p], {"Go", "Call", "AsynCall"})  BY <4>1, <1>2, <1>8
      <4> QED  BY <2>1, <3>1, <4>1, <4>2, <1>1, <1>2 DEF Sent
    <3>2. CASE st[p] = "wait"  BY <3>2, <2>1, <1>2 DEF Sent
    <3> QED  BY <3>1, <3>2 DEF Sent
  <2>3. Returned(p)'
    <3>1. ASSUME NEW x \in Elems(chanSyncRet[p])
          PROVE  /\ By(x[1], {"Call"}, p)' /\ got'[x[1]] = <<>> /\ Told(x)'
                 /\ st'[p] = "wait" /\ sync'[p] = x[1]
      <4>1. By(x[1], {"Call"}, p)  BY <2>1 DEF Returned
      <4>2. Is(x[1], {"Go", "Call", "AsynCall"})  BY <4>1, <1>2, <1>8
      <4> QED  BY <2>1, <4>1, <4>2, <1>2 DEF Returned, Told
    <3> QED  BY <2>1, <3>1 DEF Returned
  <2> QED  BY <2>2, <2>3
<1>10. ASSUME NEW m \in Modules  PROVE Served(m)' /\ CalledBack(m)'
  <2>1. Served(m) /\ CalledBack(m)  BY DEF RpcInv
  <2>2. Served(m)'  BY <2>1, <1>6, <1>7 DEF Served
  <2>3. ASSUME NEW x \in Elems(chanAsynRet[m])
        PROVE  By(x[1], {"AsynCall"}, m)' /\ got'[x[1]] = <<>> /\ Told(x)'
    <3>1. By(x[1], {"AsynCall"}, m)  BY <2>1 DEF CalledBack
    <3>2. Is(x[1], {"Go", "Call", "AsynCall"})  BY <3>1, <1>2, <1>8
    <3> QED  BY <2>1, <3>1, <3>2, <1>2 DEF CalledBack, Told
  <2> QED  BY <2>1, <2>2, <2>3 DEF CalledBack
<1> QED  BY <1>9, <1>10 DEF RpcInv

\* The same for the functions of Go, the timers and the counters.
LEMMA GoFrame ==
  ASSUME TypeOK, GoInv, Grows,
         \A i : Is(i, {"go", "linear"}) => got'[i] = got[i] /\ ran'[i] = ran[i],
         \A i \in 1 .. Len(ops') : ops'[i].kind = "linear" => i \in 1 .. Len(ops),
         UNCHANGED <<running, linearGo, execution, chanCb>>,
         \A m \in Modules : cur'[m][1] = "go" => cur'[m] = cur[m]
  PROVE  GoInv'
<1>1. \A i, K : Is(i, K) => Is(i, K)' /\ ops'[i] = ops[i]  BY DEF Is, Grows
<1>2. \A i, K, p : By(i, K, p) => By(i, K, p)' /\ Is(i, K)  BY <1>1 DEF By
<1>3. \A i, K : Is(i, K) /\ K \subseteq {"go", "linear"} => Is(i, {"go", "linear"})  BY DEF Is
<1>4. \A i, K, m : By(i, K, m) /\ K \subseteq {"go", "linear"} =>
        By(i, K, m)' /\ got'[i] = got[i] /\ ran'[i] = ran[i]
  BY <1>2, <1>3
<1>5. ASSUME NEW m \in Modules  PROVE GoPlaced(m)' /\ Linear(m)'
  <2>1. GoPlaced(m) /\ Linear(m)  BY DEF GoInv
  <2>2. \A i, K : Unrun(i, K, m) /\ K \subseteq {"go", "linear"} => Unrun(i, K, m)'
    BY <1>4 DEF Unrun
  <2>3. /\ \A i \in running[m] : Unrun(i, {"go"}, m)'
        /\ \A i \in Elems(linearGo[m]) : Unrun(i, {"linear"}, m)' /\ i # execution[m]
        /\ execution[m] # 0 => Unrun(execution[m], {"linear"}, m)'
    BY <2>1, <2>2 DEF GoPlaced
  <2>4. \A i \in Elems(chanCb[m]) : By(i, {"go", "linear"}, m)' /\ got'[i] = <<>> /\ ran'[i] = 1
    BY <2>1, <1>4 DEF GoPlaced
  <2>5. (cur[m][1] = "go" => By(cur[m][2], {"go", "linear"}, m) /\ got[cur[m][2]] # <<>>)'
    <3> SUFFICES ASSUME cur'[m][1] = "go"
                 PROVE  (By(cur[m][2], {"go", "linear"}, m) /\ got[cur[m][2]] # <<>>)'
      OBVIOUS
    <3>1. cur'[m] = cur[m] /\ cur[m][1] = "go"  OBVIOUS
    <3>2. PICK c : c = cur[m][2]  OBVIOUS
    <3>3. By(c, {"go", "linear"}, m) /\ got[c] # <<>>  BY <2>1, <3>1, <3>2 DEF GoPlaced
    <3>4. By(c, {"go", "linear"}, m)' /\ got'[c] = got[c]  BY <3>3, <1>4
    <3> QED  BY <3>1, <3>2, <3>3, <3>4 DEF By, Is
  <2>6. GoPlaced(m)'  BY <2>1, <2>3, <2>4, <2>5 DEF GoPlaced
  <2>7. \A i : By(i, {"linear"}, m)' => By(i, {"linear"}, m) /\ got'[i] = got[i]
    <3> SUFFICES ASSUME NEW i, By(i, {"linear"}, m)'
                 PROVE  By(i, {"linear"}, m) /\ got'[i] = got[i]
      OBVIOUS
    <3>1. i \in 1 .. Len(ops)  BY DEF By, Is
    <3>2. By(i, {"linear"}, m)  BY <3>1 DEF By, Is, Grows
    <3> QED  BY <3>2, <1>4
  <2>8. ASSUME NEW i, NEW j, By(i, {"linear"}, m)', By(j, {"linear"}, m)', i < j
        PROVE  Behind(m, i, j)'
    <3>1. By(i, {"linear"}, m) /\ By(j, {"linear"}, m) /\ got'[i] = got[i]  BY <2>7, <2>8
    <3>2. i \in 1 .. Len(ops) /\ j \in 1 .. Len(ops)  BY <3>1 DEF By, Is
    <3>3. Behind(m, i, j)  BY <2>1, <2>8, <3>1, <3>2 DEF Linear
    <3> QED  BY <3>1, <3>3 DEF Behind
  <2>9. ASSUME NEW i, By(i, {"linear"}, m)'  PROVE Somewhere(m, i)'
    <3>1. By(i, {"linear"}, m) /\ got'[i] = got[i]  BY <2>7, <2>9
    <3>2. Somewhere(m, i)  BY <2>1, <3>1 DEF Linear, By, Is
    <3> QED  BY <3>1, <3>2 DEF Somewhere
  <2> QED  BY <2>6, <2>8, <2>9 DEF Linear
<1> QED  BY <1>5 DEF GoInv

LEMMA TimerFrame ==
  ASSUME TypeOK, TimerInv, Grows,
         \A i : Is(i, {"after", "cron"}) => got'[i] = got[i] /\ ran'[i] = ran[i],
         \A i \in 1 .. Len(ops') : i \notin 1 .. Len(ops) =>
           ops'[i].kind \notin {"after", "cron"} /\ ~cb[i] /\ timers[i] = "none",
         UNCHANGED <<chanTimer, timers, cb>>
  PROVE  TimerInv'
<1>1. \A i \in 1 .. Len(ops) : i \in 1 .. Len(ops') /\ ops'[i] = ops[i]  BY DEF Grows
<1>2. \A i \in 1 .. Len(ops') : cb[i] \/ timers[i] # "none" => ops'[i].kind \in {"after", "cron"}
  BY <1>1 DEF TimerInv
<1>3. \A i \in 1 .. Len(ops') : ops'[i].kind \in {"after", "cron"} => Is(i, {"after", "cron"})
  BY <1>1 DEF Is
<1>4. \A i \in 1 .. Len(ops') : ops'[i].kind \in {"after", "cron"} => got'[i] = <<>>
  BY <1>1, <1>3 DEF TimerInv, Is
<1>5. \A i \in 1 .. Len(ops') : ops'[i].kind = "after" /\ cb[i] => ran'[i] = 0
  BY <1>1, <1>3 DEF TimerInv, Is
<1>6. \A m \in Modules : \A i \in Elems(chanTimer[m]) : By(i, {"after", "cron"}, m)'
  BY <1>1 DEF TimerInv, By, Is
<1> QED  BY <1>2, <1>4, <1>5, <1>6 DEF TimerInv

LEMMA CountsFrame ==
  ASSUME TypeOK, Counts, Grows,
         \A i : Is(i, {"AsynCall", "go", "linear"}) => got'[i] = got[i],
         \A i \in 1 .. Len(ops') : ops'[i].kind \in {"AsynCall", "go", "linear"} => i \in 1 .. Len(ops),
         UNCHANGED <<pendingAsynCall, pendingGo>>,
         \A m \in Modules : loop'[m] = "done" => loop[m] = "done" /\ (st[m] = "idle" => st'[m] = "idle"),
         \A m \in Modules : /\ cur'[m][1] = "go" => cur'[m] = cur[m]
                            /\ cur[m][1] = "go" => cur'[m] = cur[m]
  PROVE  Counts'
<1>1. \A i, K : Is(i, K) => Is(i, K)' /\ ops'[i] = ops[i]  BY DEF Is, Grows
<1>2. ASSUME NEW i \in 1 .. Len(ops'), NEW K, NEW m, By(i, K, m)', K \subseteq {"AsynCall", "go", "linear"}
      PROVE  i \in 1 .. Len(ops) /\ By(i, K, m) /\ got'[i] = got[i]
  <2>1. i \in 1 .. Len(ops)  BY <1>2 DEF By, Is
  <2>2. By(i, K, m)  BY <1>2, <2>1 DEF By, Is, Grows
  <2>3. Is(i, {"AsynCall", "go", "linear"})  BY <2>2, <1>2 DEF By, Is
  <2> QED  BY <2>1, <2>2, <2>3
<1>3. ASSUME NEW i \in 1 .. Len(ops), NEW K, NEW m, By(i, K, m), K \subseteq {"AsynCall", "go", "linear"}
      PROVE  i \in 1 .. Len(ops') /\ By(i, K, m)' /\ got'[i] = got[i]
  <2>1. Is(i, K)' /\ ops'[i] = ops[i] /\ i \in 1 .. Len(ops')  BY <1>1, <1>3 DEF By, Grows
  <2>2. Is(i, {"AsynCall", "go", "linear"})  BY <1>3 DEF By, Is
  <2> QED  BY <1>3, <2>1, <2>2 DEF By
<1>4. ASSUME NEW m \in Modules
      PROVE  Outstanding(m)' = Outstanding(m) /\ Unfinished(m)' = Unfinished(m)
  <2>1. Outstanding(m)' = Outstanding(m)
    <3>1. {"AsynCall"} \subseteq {"AsynCall", "go", "linear"}  OBVIOUS
    <3> QED  BY <3>1, <1>2, <1>3 DEF Outstanding
  <2>2. \A i : (cur'[m] = <<"go", i>>) <=> (cur[m] = <<"go", i>>)
    <3>1. \A i : <<"go", i>>[1] = "go"  OBVIOUS
    <3> QED  BY <3>1
  <2>3. Unfinished(m)' = Unfinished(m)
    <3>1. {"go", "linear"} \subseteq {"AsynCall", "go", "linear"}  OBVIOUS
    <3> QED  BY <3>1, <2>2, <1>2, <1>3 DEF Unfinished
  <2> QED  BY <2>1, <2>3
<1> QED  BY <1>4 DEF Counts

LEMMA OpsFrame ==
  ASSUME TypeOK, OpsInv, UNCHANGED <<ops, ran, got>>,
         \A i \in Ids : i > Len(ops) => cb'[i] = cb[i] /\ timers'[i] = timers[i],
         \A m \in Modules : st'[m] = "idle" => cur'[m] = None
  PROVE  OpsInv'
BY DEF OpsInv

LEMMA InitIs == Init => IInv
<1> SUFFICES ASSUME Init  PROVE IInv  OBVIOUS
<1> USE DEF Init
<1>0. /\ MaxOps \in Nat /\ N \in Nat \ {0} /\ AsynLen \in Nat \ {0}
      /\ Modules \subseteq Procs /\ Modules \cap Agents = {}
  BY SkeletonAssumption DEF Procs, Modules
<1>1. Len(ops) = 0 /\ 1 .. Len(ops) = {}
  <2>1. Len(<<>>) = 0 /\ 1 .. 0 = {}  OBVIOUS
  <2> QED  BY <2>1
<1>2. \A S : <<>> \in Seq(S)  OBVIOUS
<1>3. TypeOK
  <2>1. ops \in Seq([kind : Kinds, by : Procs, to : Modules]) /\ Len(ops) <= MaxOps
    BY <1>0, <1>1, <1>2
  <2>2. /\ chanCall \in [Modules -> Seq(Ids)] /\ linearGo \in [Modules -> Seq(Ids)]
        /\ chanCb \in [Modules -> Seq(Ids)] /\ chanTimer \in [Modules -> Seq(Ids)]
        /\ chanSyncRet \in [Procs -> Seq(Ids \X Results)]
        /\ chanAsynRet \in [Modules -> Seq(Ids \X Results)]
    BY <1>2
  <2>3. main \in 0 .. N + 1  BY <1>0
  <2>4. cur \in [Modules -> {"none", "call", "go", "cb", "timer"} \X Nat]  BY NoneIs
  <2> QED  BY <2>1, <2>2, <2>3, <2>4 DEF TypeOK, Places
<1>4. OpsInv  BY <1>1 DEF OpsInv
<1>5. \A m \in Modules : cur[m][1] = "none" /\ st[m] = "idle"  BY <1>0, NoneIs
<1>6. RpcInv
  <2>1. \A p \in Procs : st[p] # "send" /\ st[p] # "wait"  OBVIOUS
  <2>2. \A p \in Procs : Sent(p) /\ Returned(p)  BY <2>1, NoElems DEF Sent, Returned
  <2>3. \A m \in Modules : Served(m)  BY <1>5, NoElems DEF Served
  <2>4. \A m \in Modules : CalledBack(m)
    <3>1. DOMAIN <<>> = {}  OBVIOUS
    <3> QED  BY <3>1, NoElems DEF CalledBack
  <2> QED  BY <2>2, <2>3, <2>4 DEF RpcInv
<1>7. Counts
  <2>1. \A m \in Modules : Outstanding(m) = {} /\ Unfinished(m) = {}
    BY <1>1 DEF Outstanding, Unfinished
  <2>2. \A m \in Modules : Cardinality(Outstanding(m)) = 0 /\ Cardinality(Unfinished(m)) = 0
    BY <2>1, FS_EmptySet
  <2> QED  BY <1>0, <2>2 DEF Counts
<1>8. GoInv
  <2>1. \A m \in Modules : GoPlaced(m)  BY <1>5, NoElems DEF GoPlaced
  <2>2. \A m \in Modules : Linear(m)  BY <1>1 DEF Linear
  <2> QED  BY <2>1, <2>2 DEF GoInv
<1>9. TimerInv  BY <1>1, NoElems DEF TimerInv
<1> QED  BY <1>3, <1>4, <1>6, <1>7, <1>8, <1>9 DEF IInv

\* The type of the result of an operation, and how often its function ran
LEMMA GotIs ==
  ASSUME TypeOK, NEW i \in Ids, NEW r \in Results, got[i] = <<>>, Got(i, r)
  PROVE  /\ got' \in [Ids -> {<<>>} \cup {<<x>> : x \in Results}]
         /\ got'[i] = <<r>> /\ \A j \in Ids : j # i => got'[j] = got[j]
<1>1. Append(<<>>, r) = <<r>>  OBVIOUS
<1>2. got' = [got EXCEPT ![i] = <<r>>]  BY <1>1 DEF Got, TypeOK
<1>3. \A j \in Ids : got'[j] = IF j = i THEN <<r>> ELSE got[j]  BY <1>2 DEF TypeOK
<1>4. DOMAIN got' = Ids /\ got' = [j \in Ids |-> got'[j]]  BY <1>2 DEF TypeOK
<1>5. \A j \in Ids : got'[j] \in {<<>>} \cup {<<x>> : x \in Results}
  <2> DEFINE T == {<<>>} \cup {<<x>> : x \in Results}
  <2>1. got \in [Ids -> T]  BY DEF TypeOK
  <2>2. <<r>> \in T  OBVIOUS
  <2> HIDE DEF T
  <2>3. \A j \in Ids : got'[j] \in T  BY <1>3, <2>1, <2>2
  <2> QED  BY <2>3 DEF T
<1> QED  BY <1>3, <1>4, <1>5

LEMMA RanIs ==
  ASSUME TypeOK, NEW i \in Ids, Ran(i)
  PROVE  /\ ran' \in [Ids -> Nat] /\ ran'[i] = ran[i] + 1 /\ ran[i] \in Nat
         /\ \A j \in Ids : j # i => ran'[j] = ran[j]
BY DEF Ran, TypeOK

LEMMA OneIs ==
  /\ \A r \in Results : <<r>> # <<>> /\ (<<r>> = <<"ran">> <=> r = "ran")
  /\ "ran" \in Results /\ "closed" \in Results /\ "none" \in Results
  /\ "no function" \in Results /\ "many" \in Results /\ "full" \in Results
<1>1. \A r : <<r>>[1] = r /\ Len(<<r>>) = 1  OBVIOUS
<1>2. Len(<<>>) = 0  OBVIOUS
<1> QED  BY <1>1, <1>2 DEF Results

\* A module that executes something
LEMMA ExecuteIs ==
  ASSUME cur \in [Modules -> {"none", "call", "go", "cb", "timer"} \X Nat],
         NEW m \in Modules, NEW kind \in {"call", "go", "cb", "timer"}, NEW i \in Nat,
         Execute(m, kind, i)
  PROVE  /\ cur' \in [Modules -> {"none", "call", "go", "cb", "timer"} \X Nat]
         /\ cur'[m] = <<kind, i>> /\ cur'[m][1] = kind /\ cur'[m][2] = i
         /\ \A n \in Modules : n # m => cur'[n] = cur[n]
<1> DEFINE T == {"none", "call", "go", "cb", "timer"} \X Nat
           x == <<kind, i>>
<1>1. x \in T /\ x[1] = kind /\ x[2] = i  OBVIOUS
<1>2. cur' = [cur EXCEPT ![m] = x] /\ cur \in [Modules -> T]  BY DEF Execute
<1> HIDE DEF T, x
<1>3. cur' \in [Modules -> T] /\ cur'[m] = x /\ \A n \in Modules : n # m => cur'[n] = cur[n]
  BY <1>1, <1>2
<1> QED  BY <1>1, <1>3 DEF T, x

-----------------------------------------------------------------------------
\* A start preserves what holds of all operations.
LEMMA OpsStart ==
  ASSUME TypeOK, OpsInv, NEW kind \in Kinds, NEW p \in Procs, NEW m \in Modules,
         Start(kind, p, m), kind \in {"Go", "Call"} \/ p \in Modules,
         UNCHANGED ran, \A j \in Ids : j # New => got'[j] = got[j],
         got'[New] # <<"ran">>,
         \A i \in Ids : i # New => cb'[i] = cb[i] /\ timers'[i] = timers[i],
         \A n \in Modules : st'[n] = "idle" => cur'[n] = None
  PROVE  OpsInv'
<1>1. PICK n \in Nat : n = Len(ops)  BY DEF TypeOK
<1>2. PICK k : k = New  OBVIOUS
<1>3. /\ k \in Ids /\ k = n + 1 /\ Len(ops') = k
      /\ \A i \in 1 .. Len(ops) : ops'[i] = ops[i]
      /\ ops'[k] = [kind |-> kind, by |-> p, to |-> m]
      /\ \A i \in 1 .. Len(ops') : i \in 1 .. Len(ops) \/ i = k
  BY <1>1, <1>2, StartIs DEF Grows
<1>4. \A i \in 1 .. Len(ops) : i \in Ids /\ i # k  BY <1>1, <1>3, OpsIs
<1>5. \A i \in 1 .. Len(ops') : ops'[i].kind \in Kinds \ {"Go", "Call"} => ops'[i].by \in Modules
  BY <1>3 DEF OpsInv
<1>6. \A i \in Ids : i > Len(ops') => ran'[i] = 0 /\ got'[i] = <<>> /\ ~cb'[i] /\ timers'[i] = "none"
  <2>1. \A i \in Ids : i > Len(ops') => i > Len(ops) /\ i # k  BY <1>1, <1>3 DEF Ids
  <2> QED  BY <2>1, <1>2 DEF OpsInv
<1>7. ran[k] = 0
  <2>1. k > Len(ops)  BY <1>1, <1>3
  <2> QED  BY <2>1, <1>3 DEF OpsInv
<1>8. \A i \in 1 .. Len(ops') : /\ ops'[i].kind # "cron" => ran'[i] <= 1
                                /\ got'[i] # <<>> => (got'[i] = <<"ran">> <=> ran'[i] = 1)
  BY <1>2, <1>3, <1>4, <1>7 DEF OpsInv
<1> QED  BY <1>5, <1>6, <1>8 DEF OpsInv

LEMMA NewIs ==
  ASSUME TypeOK, OpsInv, New \in Ids
  PROVE  ran[New] = 0 /\ got[New] = <<>> /\ ~cb[New] /\ timers[New] = "none"
<1>1. New > Len(ops)  BY OpsIs DEF New
<1> QED  BY <1>1 DEF OpsInv

LEMMA CallKeeps ==
  ASSUME IInv, NEW kind \in {"Go", "Call"}, NEW p \in Procs, NEW m \in Modules, Call(kind, p, m)
  PROVE  IInv'
<1> USE DEF IInv
<1>0. /\ Start(kind, p, m) /\ kind \in Kinds
      /\ UNCHANGED <<loop, cur, chanCall, closed, chanSyncRet, chanAsynRet, pendingAsynCall,
                     running, linearGo, execution, chanCb, pendingGo, timers, cb, chanTimer,
                     stopped, main, closeSig, ran>>
  BY DEF Call, gos, tms, destroy, Kinds
<1>1. PICK k : k = New  OBVIOUS
<1>2. /\ k \in Ids /\ k = Len(ops) + 1 /\ k \notin 1 .. Len(ops)
      /\ ops' \in Seq([kind : Kinds, by : Procs, to : Modules])
      /\ Len(ops') = k /\ k <= MaxOps /\ Grows /\ st[p] = "busy"
      /\ k \in 1 .. Len(ops') /\ ops'[k] = [kind |-> kind, by |-> p, to |-> m]
      /\ \A i \in 1 .. Len(ops') : i \in 1 .. Len(ops) \/ i = k
  BY <1>0, <1>1, StartIs
<1>7. /\ \A i \in 1 .. Len(ops') : i \notin 1 .. Len(ops) => ops'[i].kind \in {"Go", "Call"} /\ i = k
      /\ \A i \in 1 .. Len(ops') : ops'[i].kind = "linear" => i \in 1 .. Len(ops)
      /\ \A i \in 1 .. Len(ops') : ops'[i].kind \in {"AsynCall", "go", "linear"} => i \in 1 .. Len(ops)
  BY <1>2
<1>3. ran[k] = 0 /\ got[k] = <<>> /\ ~cb[k] /\ timers[k] = "none"  BY <1>1, <1>2, NewIs
<1>4. \/ /\ st' = [st EXCEPT ![p] = "send"] /\ sync' = [sync EXCEPT ![p] = k] /\ got' = got
      \/ /\ kind = "Call" /\ Got(k, "no function") /\ st' = st /\ sync' = sync
  BY <1>1 DEF Call
<1>5. CASE st' = [st EXCEPT ![p] = "send"] /\ sync' = [sync EXCEPT ![p] = k] /\ got' = got
  <2>1. \A q \in Procs : /\ st'[q] = (IF q = p THEN "send" ELSE st[q])
                         /\ sync'[q] = (IF q = p THEN k ELSE sync[q])
    BY <1>5 DEF TypeOK
  <2>2. TypeOK'
    <3>1. st' \in [Procs -> {"idle", "busy", "send", "wait"}]  BY <1>5 DEF TypeOK
    <3>2. sync' \in [Procs -> Nat]  BY <1>2, <1>5, OpsIs DEF TypeOK
    <3> QED  BY <1>0, <1>2, <1>5, <3>1, <3>2 DEF TypeOK
  <2>3. OpsInv'
    <3>1. \A n \in Modules : st'[n] = "idle" => cur'[n] = None  BY <1>0, <2>1, OpsIs DEF OpsInv
    <3>2. got'[New] # <<"ran">>
      <4>1. <<>> # <<"ran">>  BY OneIs
      <4> QED  BY <4>1, <1>1, <1>3, <1>5
    <3> QED  BY <1>0, <1>5, <3>1, <3>2, OpsStart
  <2>4. \A i, K : Is(i, K) => Is(i, K)' /\ ops'[i] = ops[i]  BY <1>2 DEF Is, Grows
  <2>5. \A i, K, q : By(i, K, q) => By(i, K, q)' /\ Is(i, K) /\ ops'[i] = ops[i]
    BY <2>4 DEF By
  <2>6. \A i, K : Is(i, K) => (Answered(i)' <=> Answered(i))
    BY <1>0, <2>4 DEF Answered, ChanRet
  <2>7. \A i, n : Open(i, n) => Open(i, n)'
    <3> SUFFICES ASSUME NEW i, NEW n, Open(i, n)  PROVE Open(i, n)'  OBVIOUS
    <3>1. Is(i, {"Go", "Call", "AsynCall"})  BY DEF Open
    <3>2. ops[i].by \in Procs  BY <3>1, OpsIs DEF Is
    <3>3. ops[i].kind = "Call" => ops[i].by # p  BY <1>2 DEF Open
    <3> QED  BY <3>1, <3>2, <3>3, <1>5, <2>1, <2>4, <2>6 DEF Open
  <2>8. k \notin Elems(chanCall[m])
    <3>1. \A i \in Elems(chanCall[m]) : i \in 1 .. Len(ops)  BY DEF RpcInv, Served, Open, Is
    <3> QED  BY <1>2, <3>1
  <2>9. RpcInv'
    <3>1. ASSUME NEW q \in Procs  PROVE Sent(q)'
      <4>1. CASE q = p
        <5>1. By(k, {"Go", "Call"}, p)'  BY <1>2 DEF By, Is
        <5> QED  BY <4>1, <5>1, <1>0, <1>2, <1>3, <1>5, <2>1, <2>8 DEF Sent
      <4>2. CASE q # p
        <5>1. Sent(q) /\ st'[q] = st[q] /\ sync'[q] = sync[q]  BY <4>2, <2>1 DEF RpcInv
        <5> QED  BY <5>1, <2>5, <1>0, <1>5 DEF Sent
      <4> QED  BY <4>1, <4>2
    <3>2. ASSUME NEW q \in Procs  PROVE Returned(q)'
      <4>1. Returned(q) /\ (q = p => st[q] # "wait")  BY <1>2 DEF RpcInv
      <4> QED  BY <4>1, <2>1, <2>5, <1>0, <1>5 DEF Returned, Told
    <3>3. ASSUME NEW n \in Modules  PROVE Served(n)'
      <4>1. Served(n)  BY DEF RpcInv
      <4> QED  BY <4>1, <2>7, <1>0 DEF Served
    <3>4. ASSUME NEW n \in Modules  PROVE CalledBack(n)'
      <4>1. CalledBack(n)  BY DEF RpcInv
      <4> QED  BY <4>1, <2>5, <1>0, <1>5 DEF CalledBack, Told
    <3> QED  BY <3>1, <3>2, <3>3, <3>4 DEF RpcInv
  <2>10. Counts'
    <3>1. \A n \in Modules : loop'[n] = "done" => loop[n] = "done" /\ (st[n] = "idle" => st'[n] = "idle")
      BY <1>0, <1>2, <2>1, OpsIs
    <3> QED  BY <1>0, <1>2, <1>5, <1>7, <3>1, CountsFrame
  <2>11. GoInv'
    <3> QED  BY <1>0, <1>2, <1>5, <1>7, GoFrame
  <2>12. TimerInv'
    <3>1. \A i \in 1 .. Len(ops') : i \notin 1 .. Len(ops) =>
            ops'[i].kind \notin {"after", "cron"} /\ ~cb[i] /\ timers[i] = "none"
      BY <1>3, <1>7
    <3> QED  BY <1>0, <1>2, <1>5, <3>1, TimerFrame
  <2> QED  BY <2>2, <2>3, <2>9, <2>10, <2>11, <2>12
<1>6. CASE kind = "Call" /\ Got(k, "no function") /\ st' = st /\ sync' = sync
  <2>1. /\ got' \in [Ids -> {<<>>} \cup {<<x>> : x \in Results}]
        /\ got'[k] = <<"no function">> /\ \A j \in Ids : j # k => got'[j] = got[j]
    BY <1>2, <1>3, <1>6, GotIs, OneIs
  <2>2. TypeOK'  BY <1>0, <1>2, <1>6, <2>1 DEF TypeOK
  <2>3. OpsInv'
    <3>1. \A n \in Modules : st'[n] = "idle" => cur'[n] = None  BY <1>0, <1>6 DEF OpsInv
    <3>2. got'[New] # <<"ran">>  BY <1>1, <2>1, OneIs
    <3> QED  BY <1>0, <1>1, <2>1, <3>1, <3>2, OpsStart
  <2>4. \A i, K : Is(i, K) => got'[i] = got[i] /\ ran'[i] = ran[i]
    <3>1. \A i, K : Is(i, K) => i \in Ids /\ i # k  BY <1>2, OpsIs DEF Is
    <3> QED  BY <3>1, <2>1, <1>0
  <2>5. RpcInv'  BY <1>0, <1>2, <1>6, <2>4, RpcFrame
  <2>6. Counts'
    <3>1. \A n \in Modules : loop'[n] = "done" => loop[n] = "done" /\ (st[n] = "idle" => st'[n] = "idle")
      BY <1>0, <1>6
    <3> QED  BY <1>0, <1>2, <1>7, <2>4, <3>1, CountsFrame
  <2>7. GoInv'
    <3> QED  BY <1>0, <1>2, <1>7, <2>4, GoFrame
  <2>8. TimerInv'
    <3>1. \A i \in 1 .. Len(ops') : i \notin 1 .. Len(ops) =>
            ops'[i].kind \notin {"after", "cron"} /\ ~cb[i] /\ timers[i] = "none"
      BY <1>3, <1>7
    <3> QED  BY <1>0, <1>2, <2>4, <3>1, TimerFrame
  <2> QED  BY <2>2, <2>3, <2>5, <2>6, <2>7, <2>8
<1> QED  BY <1>4, <1>5, <1>6

LEMMA SendKeeps ==
  ASSUME IInv, NEW p \in Procs, Send(p)
  PROVE  IInv'
<1> USE DEF IInv
<1>0. /\ st[p] = "send"
      /\ UNCHANGED <<ops, loop, cur, closed, chanSyncRet, chanAsynRet, pendingAsynCall,
                     running, linearGo, execution, chanCb, pendingGo, timers, cb, chanTimer,
                     stopped, main, closeSig, ran>>
  BY DEF Send, gos, tms, destroy
<1>1. PICK i, m : i = sync[p] /\ m = ops[i].to  OBVIOUS
<1>2. /\ By(i, {"Go", "Call"}, p) /\ got[i] = <<>> /\ ran[i] = 0 /\ i \notin Elems(chanCall[m])
  BY <1>0, <1>1 DEF RpcInv, Sent
<1>3. /\ i \in 1 .. Len(ops) /\ i \in Ids /\ m \in Modules /\ ops[i].kind \in {"Go", "Call"}
      /\ ops[i].by = p
  BY <1>1, <1>2, OpsIs DEF By, Is
<1>4. \/ /\ st' = [st EXCEPT ![p] = "busy"] /\ sync' = [sync EXCEPT ![p] = 0]
         /\ Got(i, IF ops[i].kind = "Go" THEN "none" ELSE "closed")
         /\ chanCall' = chanCall
      \/ /\ Len(chanCall[m]) < CallLen
         /\ chanCall' = [chanCall EXCEPT ![m] = Append(@, i)]
         /\ IF ops[i].kind = "Go"
            THEN st' = [st EXCEPT ![p] = "busy"] /\ sync' = [sync EXCEPT ![p] = 0]
            ELSE st' = [st EXCEPT ![p] = "wait"] /\ UNCHANGED sync
         /\ got' = got
  BY <1>1 DEF Send
<1>5. Grows /\ \A j \in 1 .. Len(ops') : j \in 1 .. Len(ops)  BY <1>0, OpsIs DEF Grows
\* Nothing but p knows i, and nothing waits for another answer for p.
<1>6. \A n \in Modules : \A j \in Elems(chanCall[n]) : j # i
  BY <1>1, <1>2 DEF RpcInv, Served, Open
<1>7. \A j, n : Open(j, n) /\ ops[j].kind = "Call" => ops[j].by # p  BY <1>0 DEF Open
<1>8. \A n \in Modules : cur[n][1] = "call" => cur[n][2] # i
  BY <1>2 DEF RpcInv, Served
<1>9. \A q \in Procs : q # p => (st[q] = "send" => sync[q] # i) /\ \A x \in Elems(chanSyncRet[q]) : x[1] # i
  BY <1>2 DEF RpcInv, Sent, Returned, By
<1>10. Elems(chanSyncRet[p]) = {}  BY <1>0 DEF RpcInv, Returned
<1>11. \A n \in Modules : \A x \in Elems(chanAsynRet[n]) : x[1] # i
  BY <1>3 DEF RpcInv, CalledBack, By, Is
<1>12. \A j, K : (Is(j, K)' <=> Is(j, K)) /\ \A q : By(j, K, q)' <=> By(j, K, q)
  BY <1>0 DEF Is, By
<1>13. \A j : Answered(j)' <=> Answered(j)  BY <1>0 DEF Answered, ChanRet
<1>14. \A q \in Procs : q # p => st'[q] = st[q] /\ sync'[q] = sync[q]
  BY <1>4 DEF TypeOK
<1>15. st'[p] \in {"busy", "wait"} /\ (st'[p] = "wait" => ops[i].kind = "Call" /\ sync'[p] = i)
  <2>1. st'[p] = "busy" \/ (st'[p] = "wait" /\ ops[i].kind = "Call" /\ sync' = sync)
    BY <1>3, <1>4 DEF TypeOK
  <2> QED  BY <2>1, <1>1
<1>16. st' \in [Procs -> {"idle", "busy", "send", "wait"}] /\ sync' \in [Procs -> Nat]
  <2>1. \/ st' = [st EXCEPT ![p] = "busy"]
        \/ st' = [st EXCEPT ![p] = "wait"]
    BY <1>4
  <2>2. sync' = sync \/ sync' = [sync EXCEPT ![p] = 0]  BY <1>4
  <2>3. st' \in [Procs -> {"idle", "busy", "send", "wait"}]  BY <2>1 DEF TypeOK
  <2>4. sync' \in [Procs -> Nat]
    <3>1. sync \in [Procs -> Nat]  BY DEF TypeOK
    <3> QED  BY <2>2, <3>1
  <2> QED  BY <2>3, <2>4
<1>17. \A j \in Ids : j # i => got'[j] = got[j]  BY <1>2, <1>3, <1>4, GotIs, OneIs
<1>18. ASSUME NEW j, NEW n, Open(j, n), j # i  PROVE Open(j, n)'
  <2>1. Is(j, {"Go", "Call", "AsynCall"})  BY <1>18 DEF Open
  <2>2. j \in Ids /\ ops[j].by \in Procs  BY <2>1, OpsIs DEF Is
  <2>3. got'[j] = got[j]  BY <2>2, <1>17, <1>18
  <2>4. ops[j].kind = "Call" => st'[ops[j].by] = "wait" /\ sync'[ops[j].by] = j
    BY <2>2, <1>7, <1>14, <1>18 DEF Open
  <2> QED  BY <2>3, <2>4, <1>0, <1>12, <1>13, <1>18 DEF Open
<1>19. \A n \in Modules : cur[n][1] = "call" => Open(cur[n][2], n)' /\ ran[cur[n][2]] = 1
  <2> SUFFICES ASSUME NEW n \in Modules, cur[n][1] = "call"
               PROVE  Open(cur[n][2], n)' /\ ran[cur[n][2]] = 1
    OBVIOUS
  <2>1. PICK c : c = cur[n][2]  OBVIOUS
  <2>2. Open(c, n) /\ ran[c] = 1 /\ c # i  BY <2>1, <1>8 DEF RpcInv, Served
  <2>3. Open(c, n)'  BY <2>2, <1>18
  <2> QED  BY <2>1, <2>2, <2>3, <1>0 DEF Open, Answered, ChanRet, Is
<1>20. \A q \in Procs : Returned(q)'
  <2> SUFFICES ASSUME NEW q \in Procs  PROVE Returned(q)'  OBVIOUS
  <2>1. Returned(q)  BY DEF RpcInv
  <2>2. CASE q = p  BY <2>1, <2>2, <1>0, <1>10 DEF Returned
  <2>3. CASE q # p
    <3>1. ASSUME NEW x \in Elems(chanSyncRet[q])
          PROVE  By(x[1], {"Call"}, q)' /\ got'[x[1]] = <<>> /\ Told(x)' /\ st'[q] = "wait" /\ sync'[q] = x[1]
      <4>1. By(x[1], {"Call"}, q) /\ got[x[1]] = <<>> /\ Told(x) /\ st[q] = "wait" /\ sync[q] = x[1] /\ x[1] # i
        BY <2>1, <2>3, <1>9 DEF Returned
      <4>2. x[1] \in Ids  BY <4>1, OpsIs DEF By, Is
      <4> QED  BY <4>1, <4>2, <2>3, <1>0, <1>12, <1>14, <1>17 DEF Told
    <3> QED  BY <2>1, <3>1, <1>0 DEF Returned
  <2> QED  BY <2>2, <2>3
<1>21. \A n \in Modules : CalledBack(n)'
  <2> SUFFICES ASSUME NEW n \in Modules  PROVE CalledBack(n)'  OBVIOUS
  <2>1. CalledBack(n)  BY DEF RpcInv
  <2>2. ASSUME NEW x \in Elems(chanAsynRet[n])
        PROVE  By(x[1], {"AsynCall"}, n)' /\ got'[x[1]] = <<>> /\ Told(x)'
    <3>1. By(x[1], {"AsynCall"}, n) /\ got[x[1]] = <<>> /\ Told(x) /\ x[1] # i
      BY <2>1, <1>11 DEF CalledBack
    <3>2. x[1] \in Ids  BY <3>1, OpsIs DEF By, Is
    <3> QED  BY <3>1, <3>2, <1>0, <1>12, <1>17 DEF Told
  <2> QED  BY <2>1, <2>2, <1>0 DEF CalledBack
<1>22. \A n \in Modules : st'[n] = "idle" => cur'[n] = None
  <2>1. \A n \in Modules : st'[n] = "idle" => st[n] = "idle"  BY <1>14, <1>15, OpsIs
  <2> QED  BY <2>1, <1>0 DEF OpsInv
<1>23. Counts' /\ GoInv' /\ TimerInv'
  <2>1. \A K, j : Is(j, K) /\ "Go" \notin K /\ "Call" \notin K => got'[j] = got[j] /\ ran'[j] = ran[j]
    <3> SUFFICES ASSUME NEW K, NEW j, Is(j, K), "Go" \notin K, "Call" \notin K
                 PROVE  got'[j] = got[j] /\ ran'[j] = ran[j]
      OBVIOUS
    <3>1. j \in Ids /\ j # i  BY <1>3, OpsIs DEF Is
    <3> QED  BY <3>1, <1>0, <1>17
  <2>2. \A n \in Modules : st[n] = "idle" => st'[n] = "idle"  BY <1>0, <1>14, OpsIs
  <2>3. Counts'  BY <2>1, <2>2, <1>0, <1>5, CountsFrame
  <2>4. GoInv'  BY <2>1, <1>0, <1>5, GoFrame
  <2>5. TimerInv'  BY <2>1, <1>0, <1>5, TimerFrame
  <2> QED  BY <2>3, <2>4, <2>5
<1>24. CASE /\ st' = [st EXCEPT ![p] = "busy"] /\ sync' = [sync EXCEPT ![p] = 0]
            /\ Got(i, IF ops[i].kind = "Go" THEN "none" ELSE "closed")
            /\ chanCall' = chanCall
  <2>1. PICK r \in Results : Got(i, r) /\ r # "ran"  BY <1>24, OneIs
  <2>2. /\ got' \in [Ids -> {<<>>} \cup {<<x>> : x \in Results}] /\ got'[i] = <<r>>
    BY <2>1, <1>2, <1>3, GotIs
  <2>3. TypeOK'  BY <2>2, <1>0, <1>16, <1>24 DEF TypeOK
  <2>4. OpsInv'
    <3>1. got'[i] # <<"ran">>  BY <2>1, <2>2, OneIs
    <3>2. \A j \in 1 .. Len(ops) : ops[j].kind # "cron" => ran[j] <= 1  BY DEF OpsInv
    <3>3. \A j \in 1 .. Len(ops) : got'[j] # <<>> => (got'[j] = <<"ran">> <=> ran[j] = 1)
      BY <3>1, <1>2, <1>17, OpsIs DEF OpsInv
    <3>4. \A j \in Ids : j > Len(ops) => j # i  BY <1>3, OpsIs
    <3>5. \A j \in Ids : j > Len(ops) => got'[j] = <<>>  BY <3>4, <1>17 DEF OpsInv
    <3> QED  BY <3>2, <3>3, <3>5, <1>0, <1>22 DEF OpsInv
  <2>5. ASSUME NEW q \in Procs  PROVE Sent(q)'
    <3>1. Sent(q)  BY DEF RpcInv
    <3>2. CASE q = p
      <4>1. st'[q] = "busy"  BY <3>2, <1>24 DEF TypeOK
      <4> QED  BY <4>1 DEF Sent
    <3>3. CASE q # p
      <4>1. st[q] = "send" => sync[q] \in Ids /\ sync[q] # i
        BY <3>1, <3>3, <1>9, OpsIs DEF Sent, By, Is
      <4> QED  BY <3>1, <3>3, <4>1, <1>0, <1>12, <1>14, <1>17, <1>24 DEF Sent
    <3> QED  BY <3>2, <3>3
  <2>6. ASSUME NEW n \in Modules  PROVE Served(n)'
    <3>1. Served(n)  BY DEF RpcInv
    <3>2. \A j \in Elems(chanCall[n]) : Open(j, n)' /\ ran[j] = 0  BY <3>1, <1>6, <1>18 DEF Served
    <3> QED  BY <3>1, <3>2, <1>0, <1>19, <1>24 DEF Served
  <2> QED  BY <2>3, <2>4, <2>5, <2>6, <1>20, <1>21, <1>23 DEF RpcInv
<1>25. CASE /\ Len(chanCall[m]) < CallLen
            /\ chanCall' = [chanCall EXCEPT ![m] = Append(@, i)]
            /\ IF ops[i].kind = "Go"
               THEN st' = [st EXCEPT ![p] = "busy"] /\ sync' = [sync EXCEPT ![p] = 0]
               ELSE st' = [st EXCEPT ![p] = "wait"] /\ UNCHANGED sync
            /\ got' = got
  <2>1. chanCall[m] \in Seq(Ids)  BY <1>3 DEF TypeOK
  <2> DEFINE s == Append(chanCall[m], i)
  <2>2. s \in Seq(Ids) /\ Elems(s) = Elems(chanCall[m]) \cup {i} /\ (Distinct(chanCall[m]) => Distinct(s))
    BY <2>1, <1>2, <1>3, AppendIs
  <2>3. chanCall' = [chanCall EXCEPT ![m] = s]  BY <1>25
  <2> HIDE DEF s
  <2>4. \A n \in Modules : chanCall'[n] = IF n = m THEN s ELSE chanCall[n]
    BY <2>3 DEF TypeOK
  <2>5. TypeOK'
    <3>1. chanCall' \in [Modules -> Seq(Ids)]  BY <2>2, <2>3 DEF TypeOK
    <3> QED  BY <3>1, <1>0, <1>16, <1>25 DEF TypeOK
  <2>6. OpsInv'  BY <1>0, <1>22, <1>25, OpsFrame
  <2>7. ASSUME NEW q \in Procs  PROVE Sent(q)'
    <3>1. Sent(q)  BY DEF RpcInv
    <3>2. CASE q = p
      <4>1. st'[q] = "wait" => By(i, {"Call"}, p) /\ sync'[p] = i
        BY <3>2, <1>2, <1>15 DEF By, Is
      <4> QED  BY <3>2, <4>1, <1>12, <1>15 DEF Sent
    <3>3. CASE q # p
      <4>1. st[q] = "send" => sync[q] # i /\ sync[q] \in 1 .. Len(ops) /\ ops[sync[q]].to \in Modules
        BY <3>1, <3>3, <1>9, OpsIs DEF Sent, By, Is
      <4>2. st[q] = "send" => sync[q] \notin Elems(chanCall'[ops[sync[q]].to])
        BY <3>1, <4>1, <2>2, <2>4 DEF Sent
      <4> QED  BY <3>1, <3>3, <4>2, <1>0, <1>12, <1>14, <1>25 DEF Sent
    <3> QED  BY <3>2, <3>3
  <2>8. Open(i, m)'
    <3>1. ~Answered(i)  BY <1>3, <1>10 DEF Answered, ChanRet
    <3>2. ops[i].kind = "Call" => st'[p] = "wait" /\ sync'[p] = i
      BY <1>1, <1>3, <1>25 DEF TypeOK
    <3>3. Is(i, {"Go", "Call", "AsynCall"})  BY <1>3 DEF Is
    <3> QED  BY <3>1, <3>2, <3>3, <1>0, <1>1, <1>2, <1>3, <1>12, <1>13, <1>25 DEF Open
  <2>9. ASSUME NEW n \in Modules  PROVE Served(n)'
    <3>1. Served(n)  BY DEF RpcInv
    <3>2. \A j \in Elems(chanCall[n]) : Open(j, n)' /\ ran[j] = 0  BY <3>1, <1>6, <1>18 DEF Served
    <3>3. Distinct(chanCall'[n]) /\ \A j \in Elems(chanCall'[n]) : Open(j, n)' /\ ran[j] = 0
      BY <3>1, <3>2, <2>2, <2>4, <2>8, <1>2 DEF Served
    <3> QED  BY <3>1, <3>3, <1>0, <1>19 DEF Served
  <2> QED  BY <2>5, <2>6, <2>7, <2>9, <1>20, <1>21, <1>23 DEF RpcInv
<1> QED  BY <1>4, <1>24, <1>25

-----------------------------------------------------------------------------
\* The end of a run: what Destroy, Server.Close and the loop over the Closes do.
LEMMA StillGrows == ASSUME TypeOK, UNCHANGED ops
                    PROVE  Grows /\ \A j \in 1 .. Len(ops') : j \in 1 .. Len(ops)
BY OpsIs DEF Grows

LEMMA DestroyKeeps == ASSUME IInv, Destroy  PROVE IInv'
<1> USE DEF IInv
<1>1. UNCHANGED <<ops, loop, st, cur, sync, chanCall, closed, chanSyncRet, chanAsynRet,
                  pendingAsynCall, got, running, linearGo, execution, chanCb, pendingGo,
                  timers, cb, chanTimer, ran>>
  BY DEF Destroy, proc, rpc, gos, tms
<1>2. main' \in 0 .. N + 1 /\ closeSig' \in [Modules -> BOOLEAN]
  <2>1. /\ N \in Nat /\ main \in 0 .. N + 1 /\ main > 0 /\ main' = main - 1
        /\ closeSig \in [Modules -> BOOLEAN]
        /\ closeSig' = closeSig \/ closeSig' = [closeSig EXCEPT ![main - 1] = TRUE]
    BY SkeletonAssumption DEF Destroy, TypeOK
  <2>2. main' \in 0 .. N + 1  BY <2>1
  <2> QED  BY <2>1, <2>2
<1>3. TypeOK'  BY <1>1, <1>2 DEF TypeOK
<1>4. OpsInv'  BY <1>1 DEF OpsInv
<1>5. RpcInv'  BY <1>1, StillGrows, RpcFrame
<1>6. Counts'  BY <1>1, StillGrows, CountsFrame
<1>7. GoInv'  BY <1>1, StillGrows, GoFrame
<1>8. TimerInv'  BY <1>1, StillGrows, TimerFrame
<1> QED  BY <1>3, <1>4, <1>5, <1>6, <1>7, <1>8

LEMMA ServerCloseKeeps == ASSUME IInv, NEW m \in Modules, ServerClose(m)  PROVE IInv'
<1> USE DEF IInv
<1>1. /\ UNCHANGED <<ops, st, cur, sync, chanCall, chanSyncRet, chanAsynRet,
                     pendingAsynCall, got, running, linearGo, execution, chanCb, pendingGo,
                     timers, cb, chanTimer, main, ran>>
      /\ loop' = [loop EXCEPT ![m] = "server.Close"]
      /\ closed' = [closed EXCEPT ![m] = TRUE] /\ closeSig' = [closeSig EXCEPT ![m] = FALSE]
  BY DEF ServerClose, gos, tms
<1>2. \A n \in Modules : loop'[n] = "done" => loop[n] = "done"  BY <1>1 DEF TypeOK
<1>3. TypeOK'
  <2>1. loop' \in [Modules -> Places]  BY <1>1 DEF TypeOK, Places
  <2>2. closed' \in [Modules -> BOOLEAN] /\ closeSig' \in [Modules -> BOOLEAN]
    BY <1>1 DEF TypeOK
  <2> QED  BY <1>1, <2>1, <2>2 DEF TypeOK
<1>4. OpsInv'  BY <1>1 DEF OpsInv
<1>5. RpcInv'  BY <1>1, StillGrows, RpcFrame
<1>6. Counts'  BY <1>1, <1>2, StillGrows, CountsFrame
<1>7. GoInv'  BY <1>1, StillGrows, GoFrame
<1>8. TimerInv'  BY <1>1, StillGrows, TimerFrame
<1> QED  BY <1>3, <1>4, <1>5, <1>6, <1>7, <1>8

LEMMA ClosingKeeps == ASSUME IInv, NEW m \in Modules, Closing(m)  PROVE IInv'
<1> USE DEF IInv
<1>1. /\ UNCHANGED <<ops, st, cur, sync, chanCall, closed, chanSyncRet, chanAsynRet,
                     pendingAsynCall, got, running, linearGo, execution, chanCb, pendingGo,
                     timers, cb, chanTimer, main, closeSig, ran>>
      /\ loop' = [loop EXCEPT ![m] = CloseStep(m)] /\ st[m] = "idle" /\ CloseStep(m) # loop[m]
  BY DEF Closing, rpc, gos, tms, destroy
<1>2. /\ CloseStep(m) \in Places
      /\ CloseStep(m) = "done" => pendingGo[m] = 0 /\ pendingAsynCall[m] = 0
  BY <1>1 DEF CloseStep, Places
<1>3. TypeOK'
  <2>1. loop' \in [Modules -> Places]  BY <1>1, <1>2 DEF TypeOK
  <2> QED  BY <1>1, <2>1 DEF TypeOK
<1>4. OpsInv'  BY <1>1 DEF OpsInv
<1>5. RpcInv'  BY <1>1, StillGrows, RpcFrame
<1>6. Counts'
  <2>1. \A n \in Modules : loop'[n] = IF n = m THEN CloseStep(m) ELSE loop[n]
    BY <1>1 DEF TypeOK
  <2>2. \A n \in Modules : Outstanding(n)' = Outstanding(n) /\ Unfinished(n)' = Unfinished(n)
    BY <1>1 DEF Outstanding, Unfinished, By, Is
  <2> QED  BY <2>1, <2>2, <1>1, <1>2 DEF Counts
<1>7. GoInv'  BY <1>1, StillGrows, GoFrame
<1>8. TimerInv'  BY <1>1, StillGrows, TimerFrame
<1> QED  BY <1>3, <1>4, <1>5, <1>6, <1>7, <1>8

-----------------------------------------------------------------------------
\* Timers change nothing of calls and functions.
LEMMA FireKeeps ==
  ASSUME IInv, NEW i \in Ids, Fire(i)
  PROVE  IInv'
<1> USE DEF IInv
<1>1. /\ UNCHANGED <<ops, loop, st, cur, sync, chanCall, closed, chanSyncRet, chanAsynRet,
                     pendingAsynCall, got, running, linearGo, execution, chanCb, pendingGo,
                     cb, chanTimer, main, closeSig, ran>>
      /\ timers' = [timers EXCEPT ![i] = "fired"] /\ timers[i] = "armed"
  BY DEF Fire, proc, rpc, gos, destroy
<1>2. \A j \in Ids : timers'[j] # "none" => timers[j] # "none"  BY <1>1 DEF TypeOK
<1>3. TypeOK'
  <2>1. timers' \in [Ids -> {"none", "armed", "stopped", "fired", "queued", "over"}]
    BY <1>1 DEF TypeOK
  <2> QED  BY <1>1, <2>1 DEF TypeOK
<1>4. OpsInv'
  <2>1. \A j \in Ids : j > Len(ops) => timers'[j] = timers[j]
    BY <1>1 DEF OpsInv, TypeOK
  <2> QED  BY <2>1, <1>1, OpsFrame DEF OpsInv
<1>5. RpcInv'  BY <1>1, StillGrows, RpcFrame
<1>6. Counts'  BY <1>1, StillGrows, CountsFrame
<1>7. GoInv'  BY <1>1, StillGrows, GoFrame
<1>8. TimerInv'
  <2>1. \A j \in 1 .. Len(ops) : j \in Ids  BY OpsIs
  <2> QED  BY <2>1, <1>1, <1>2 DEF TimerInv, By, Is
<1> QED  BY <1>3, <1>4, <1>5, <1>6, <1>7, <1>8

LEMMA FireSendKeeps ==
  ASSUME IInv, NEW i \in Ids, FireSend(i)
  PROVE  IInv'
<1> USE DEF IInv
<1>0. PICK m : m = ops[i].by  OBVIOUS
<1>1. /\ UNCHANGED <<ops, loop, st, cur, sync, chanCall, closed, chanSyncRet, chanAsynRet,
                     pendingAsynCall, got, running, linearGo, execution, chanCb, pendingGo,
                     cb, main, closeSig, ran>>
      /\ timers' = [timers EXCEPT ![i] = "queued"] /\ timers[i] = "fired"
      /\ chanTimer' = [chanTimer EXCEPT ![m] = Append(@, i)]
  BY <1>0 DEF FireSend, proc, rpc, gos, destroy
<1>2. \A j \in Ids : timers'[j] # "none" => timers[j] # "none"  BY <1>1 DEF TypeOK
<1>9. By(i, {"after", "cron"}, m) /\ m \in Modules
  <2>1. i \in 1 .. Len(ops)
    <3>1. ~(i > Len(ops))  BY <1>1 DEF OpsInv
    <3> QED  BY <3>1, OpsIs DEF Ids
  <2>2. ops[i].kind \in {"after", "cron"}  BY <2>1, <1>1 DEF TimerInv
  <2> QED  BY <1>0, <2>1, <2>2 DEF OpsInv, By, Is, Kinds
<1> DEFINE s == Append(chanTimer[m], i)
<1>10. s \in Seq(Ids) /\ Elems(s) = Elems(chanTimer[m]) \cup {i}
  <2>1. chanTimer[m] \in Seq(Ids)  BY <1>9 DEF TypeOK
  <2> QED  BY <2>1, AppendIs
<1>11. chanTimer' = [chanTimer EXCEPT ![m] = s]  BY <1>1
<1> HIDE DEF s
<1>3. TypeOK'
  <2>1. timers' \in [Ids -> {"none", "armed", "stopped", "fired", "queued", "over"}]
    BY <1>1 DEF TypeOK
  <2>2. chanTimer' \in [Modules -> Seq(Ids)]  BY <1>10, <1>11 DEF TypeOK
  <2> QED  BY <1>1, <2>1, <2>2 DEF TypeOK
<1>4. OpsInv'
  <2>1. \A j \in Ids : j > Len(ops) => timers'[j] = timers[j]
    BY <1>1 DEF OpsInv, TypeOK
  <2> QED  BY <2>1, <1>1, OpsFrame DEF OpsInv
<1>5. RpcInv'  BY <1>1, StillGrows, RpcFrame
<1>6. Counts'  BY <1>1, StillGrows, CountsFrame
<1>7. GoInv'  BY <1>1, StillGrows, GoFrame
<1>8. TimerInv'
  <2>1. \A j \in 1 .. Len(ops) : j \in Ids  BY OpsIs
  <2>2. \A n \in Modules : chanTimer'[n] = IF n = m THEN s ELSE chanTimer[n]
    BY <1>11 DEF TypeOK
  <2>3. \A n \in Modules : \A j \in Elems(chanTimer'[n]) : By(j, {"after", "cron"}, n)
    BY <2>2, <1>9, <1>10 DEF TimerInv
  <2> QED  BY <2>1, <2>3, <1>1, <1>2 DEF TimerInv, By, Is
<1> QED  BY <1>3, <1>4, <1>5, <1>6, <1>7, <1>8

LEMMA StopKeeps ==
  ASSUME IInv, NEW m \in Modules, NEW i \in Ids, Stop(m, i)
  PROVE  IInv'
<1> USE DEF IInv
<1>1. /\ UNCHANGED <<ops, loop, st, cur, sync, chanCall, closed, chanSyncRet, chanAsynRet,
                     pendingAsynCall, got, running, linearGo, execution, chanCb, pendingGo,
                     chanTimer, main, closeSig, ran>>
      /\ timers' = [timers EXCEPT ![i] = IF @ = "armed" THEN "stopped" ELSE @]
      /\ cb' = [cb EXCEPT ![i] = FALSE] /\ i \in 1 .. Len(ops)
  BY DEF Stop, proc, rpc, gos, destroy
<1>2. \A j \in Ids : (timers'[j] # "none" => timers[j] # "none") /\ (cb'[j] => cb[j])
  BY <1>1 DEF TypeOK
<1>3. TypeOK'
  <2>1. timers' \in [Ids -> {"none", "armed", "stopped", "fired", "queued", "over"}]
    BY <1>1 DEF TypeOK
  <2>2. cb' \in [Ids -> BOOLEAN]  BY <1>1 DEF TypeOK
  <2> QED  BY <1>1, <2>1, <2>2 DEF TypeOK
<1>4. OpsInv'
  <2>1. \A j \in Ids : j > Len(ops) => j # i  BY <1>1, OpsIs
  <2>2. \A j \in Ids : j > Len(ops) => timers'[j] = timers[j] /\ cb'[j] = cb[j]
    BY <1>1, <2>1 DEF TypeOK
  <2> QED  BY <2>2, <1>1, OpsFrame DEF OpsInv
<1>5. RpcInv'  BY <1>1, StillGrows, RpcFrame
<1>6. Counts'  BY <1>1, StillGrows, CountsFrame
<1>7. GoInv'  BY <1>1, StillGrows, GoFrame
<1>8. TimerInv'
  <2>1. \A j \in 1 .. Len(ops) : j \in Ids  BY OpsIs
  <2> QED  BY <2>1, <1>1, <1>2 DEF TimerInv, By, Is
<1> QED  BY <1>3, <1>4, <1>5, <1>6, <1>7, <1>8

LEMMA TimerCbKeeps ==
  ASSUME IInv, NEW m \in Modules, TimerCb(m)
  PROVE  IInv'
<1> USE DEF IInv
<1>0. PICK i : i = Head(chanTimer[m])  OBVIOUS
<1>1. /\ UNCHANGED <<ops, loop, sync, chanCall, closed, chanSyncRet, chanAsynRet,
                     pendingAsynCall, got, running, linearGo, execution, chanCb, pendingGo,
                     main, closeSig>>
      /\ chanTimer' = [chanTimer EXCEPT ![m] = Tail(@)] /\ chanTimer[m] # <<>>
      /\ st[m] = "idle" /\ loop[m] = "run"
  BY DEF TimerCb, rpc, gos, destroy, Idle
<1>2. \/ /\ timers' = [timers EXCEPT ![i] = "over"] /\ UNCHANGED <<st, cur, cb, ran>>
      \/ /\ cb[i] /\ Ran(i) /\ Execute(m, "timer", i)
         /\ \/ timers' = [timers EXCEPT ![i] = "over"] /\ cb' = [cb EXCEPT ![i] = FALSE]
            \/ /\ ops[i].kind = "cron" /\ timers' = [timers EXCEPT ![i] = "armed"]
               /\ cb' = cb
  BY <1>0 DEF TimerCb, CronNext
<1> DEFINE s == Tail(chanTimer[m])
<1>3. s \in Seq(Ids) /\ i \in Elems(chanTimer[m]) /\ Elems(s) \subseteq Elems(chanTimer[m])
  <2>1. chanTimer[m] \in Seq(Ids)  BY DEF TypeOK
  <2> QED  BY <1>0, <1>1, <2>1, TailIs
<1>4. chanTimer' = [chanTimer EXCEPT ![m] = s]  BY <1>1
<1> HIDE DEF s
<1>5. By(i, {"after", "cron"}, m)  BY <1>3 DEF TimerInv
<1>6. i \in 1 .. Len(ops) /\ i \in Ids /\ i \in Nat /\ ops[i].kind \in {"after", "cron"} /\ got[i] = <<>>
  BY <1>5, OpsIs DEF By, Is, TimerInv
<1>7. \A j \in Ids : j # i => timers'[j] = timers[j] /\ cb'[j] = cb[j] /\ ran'[j] = ran[j]
  <2>1. \A j \in Ids : j # i => timers'[j] = timers[j] /\ cb'[j] = cb[j]  BY <1>2 DEF TypeOK
  <2>2. \A j \in Ids : j # i => ran'[j] = ran[j]
    <3>1. CASE ran' = ran  BY <3>1
    <3>2. CASE Ran(i)  BY <1>6, <3>2, RanIs
    <3> QED  BY <1>2, <3>1, <3>2
  <2> QED  BY <2>1, <2>2
<1>8. /\ \A n \in Modules : n # m => st'[n] = st[n] /\ cur'[n] = cur[n]
      /\ \A p \in Procs : p # m => st'[p] = st[p]
      /\ \/ st'[m] = st[m] /\ cur'[m] = cur[m]
         \/ st'[m] = "busy" /\ cur'[m] = <<"timer", i>>
      /\ m \in Procs
  <2>0. m \in Procs  BY OpsIs
  <2>1. CASE st' = st /\ cur' = cur  BY <2>0, <2>1
  <2>2. CASE Execute(m, "timer", i)
    <3>1. st \in [Procs -> {"idle", "busy", "send", "wait"}] /\ DOMAIN cur = Modules  BY DEF TypeOK
    <3> QED  BY <2>0, <2>2, <3>1 DEF Execute
  <2> QED  BY <1>2, <2>1, <2>2
<1>9. /\ cur'[m] = cur[m] \/ cur'[m][1] = "timer"
      /\ cur[m] = None /\ cur[m][1] = "none"
  BY <1>1, <1>8, NoneIs DEF OpsInv
<1>10. TypeOK'
  <2>1. timers' \in [Ids -> {"none", "armed", "stopped", "fired", "queued", "over"}]
    BY <1>2 DEF TypeOK
  <2>2. cb' \in [Ids -> BOOLEAN]  BY <1>2 DEF TypeOK
  <2>3. ran' \in [Ids -> Nat]
    <3>1. ran \in [Ids -> Nat]  BY DEF TypeOK
    <3> QED  BY <3>1, <1>2, <1>6, RanIs
  <2>4. st' \in [Procs -> {"idle", "busy", "send", "wait"}]  BY <1>2 DEF TypeOK, Execute
  <2>5. cur' \in [Modules -> {"none", "call", "go", "cb", "timer"} \X Nat]
    <3>1. cur \in [Modules -> {"none", "call", "go", "cb", "timer"} \X Nat]  BY DEF TypeOK
    <3>2. CASE cur' = cur  BY <3>1, <3>2
    <3>3. CASE cur' # cur
      <4>1. Execute(m, "timer", i)  BY <1>2, <3>3
      <4> QED  BY <3>1, <4>1, <1>6, ExecuteIs
    <3> QED  BY <3>2, <3>3
  <2>6. chanTimer' \in [Modules -> Seq(Ids)]  BY <1>3, <1>4 DEF TypeOK
  <2> QED  BY <1>1, <2>1, <2>2, <2>3, <2>4, <2>5, <2>6 DEF TypeOK
<1>11. OpsInv'
  <2>1. \A j \in Ids : j > Len(ops) => j # i  BY <1>6, OpsIs
  <2>2. \A j \in Ids : j > Len(ops) => ran'[j] = 0 /\ got'[j] = <<>> /\ ~cb'[j] /\ timers'[j] = "none"
    BY <1>1, <1>7, <2>1 DEF OpsInv
  <2>3. ops[i].kind # "cron" => ran'[i] <= 1
    <3>1. ops[i].kind # "cron" /\ cb[i] => ran[i] = 0  BY <1>6 DEF TimerInv
    <3>2. ran'[i] = ran[i] \/ (cb[i] /\ ran'[i] = ran[i] + 1)  BY <1>2, <1>6, RanIs
    <3>3. ops[i].kind # "cron" => ran[i] <= 1  BY <1>6 DEF OpsInv
    <3> QED  BY <3>1, <3>2, <3>3
  <2>4. \A j \in 1 .. Len(ops) :
          /\ ops[j].kind # "cron" => ran'[j] <= 1
          /\ got[j] # <<>> => (got[j] = <<"ran">> <=> ran'[j] = 1)
    BY <1>6, <1>7, <2>3, OpsIs DEF OpsInv
  <2>5. \A n \in Modules : st'[n] = "idle" => cur'[n] = None  BY <1>1, <1>8 DEF OpsInv
  <2> QED  BY <1>1, <2>2, <2>4, <2>5 DEF OpsInv
<1>12. \A j, K : Is(j, K) /\ "after" \notin K /\ "cron" \notin K => got'[j] = got[j] /\ ran'[j] = ran[j]
  <2> SUFFICES ASSUME NEW j, NEW K, Is(j, K), "after" \notin K, "cron" \notin K
               PROVE  got'[j] = got[j] /\ ran'[j] = ran[j]
    OBVIOUS
  <2>1. j \in Ids /\ j # i  BY <1>6, OpsIs DEF Is
  <2> QED  BY <2>1, <1>1, <1>7
<1>13. RpcInv'
  <2>1. \A p \in Procs : (st'[p] = "send" <=> st[p] = "send") /\ (st'[p] = "wait" <=> st[p] = "wait")
    BY <1>1, <1>8
  <2> QED  BY <2>1, <1>1, <1>8, <1>9, <1>12, StillGrows, RpcFrame
<1>14. Counts'
  <2>1. \A n \in Modules : loop'[n] = "done" => loop[n] = "done" /\ (st[n] = "idle" => st'[n] = "idle")
    BY <1>1, <1>8
  <2> QED  BY <2>1, <1>1, <1>8, <1>9, <1>12, StillGrows, CountsFrame
<1>15. GoInv'  BY <1>1, <1>8, <1>9, <1>12, StillGrows, GoFrame
<1>16. TimerInv'
  <2>1. \A j \in 1 .. Len(ops) : j \in Ids  BY OpsIs
  <2>2. ops[i].kind = "after" => ~cb'[i] \/ (ran'[i] = ran[i] /\ cb[i])
    BY <1>2, <1>6 DEF TypeOK
  <2>3. \A j \in 1 .. Len(ops) : ops[j].kind = "after" /\ cb'[j] => ran'[j] = 0
    BY <1>7, <2>1, <2>2 DEF TimerInv
  <2>4. \A n \in Modules : Elems(chanTimer'[n]) \subseteq Elems(chanTimer[n])
    BY <1>3, <1>4 DEF TypeOK
  <2>5. \A j \in 1 .. Len(ops) : cb'[j] \/ timers'[j] # "none" => ops[j].kind \in {"after", "cron"}
    BY <1>6, <1>7, <2>1 DEF TimerInv
  <2>6. \A n \in Modules : \A j \in Elems(chanTimer'[n]) : By(j, {"after", "cron"}, n)
    BY <2>4 DEF TimerInv
  <2> QED  BY <2>3, <2>5, <2>6, <1>1 DEF TimerInv, By, Is
<1> QED  BY <1>10, <1>11, <1>13, <1>14, <1>15, <1>16

LEMMA AfterFuncKeeps ==
  ASSUME IInv, NEW kind \in {"after", "cron"}, NEW m \in Modules, AfterFunc(kind, m)
  PROVE  IInv'
<1> USE DEF IInv
<1>1. PICK k : k = New  OBVIOUS
<1>0. /\ Start(kind, m, m) /\ kind \in Kinds /\ m \in Procs
      /\ UNCHANGED <<loop, st, cur, sync, chanCall, closed, chanSyncRet, chanAsynRet,
                     pendingAsynCall, got, running, linearGo, execution, chanCb, pendingGo,
                     chanTimer, main, closeSig, ran>>
      /\ timers' = [timers EXCEPT ![k] = "armed"] /\ cb' = [cb EXCEPT ![k] = TRUE]
  BY <1>1, OpsIs DEF AfterFunc, proc, rpc, gos, destroy, Kinds
<1>2. /\ k \in Ids /\ k = Len(ops) + 1 /\ k \notin 1 .. Len(ops)
      /\ ops' \in Seq([kind : Kinds, by : Procs, to : Modules])
      /\ Len(ops') = k /\ k <= MaxOps /\ Grows /\ st[m] = "busy"
      /\ k \in 1 .. Len(ops') /\ ops'[k] = [kind |-> kind, by |-> m, to |-> m]
      /\ \A i \in 1 .. Len(ops') : i \in 1 .. Len(ops) \/ i = k
  BY <1>0, <1>1, StartIs
<1>3. ran[k] = 0 /\ got[k] = <<>> /\ ~cb[k] /\ timers[k] = "none"  BY <1>1, <1>2, NewIs
<1>4. /\ \A i \in 1 .. Len(ops') : ops'[i].kind = "linear" => i \in 1 .. Len(ops)
      /\ \A i \in 1 .. Len(ops') : ops'[i].kind \in {"AsynCall", "go", "linear"} => i \in 1 .. Len(ops)
  BY <1>2
<1>5. \A j \in Ids : j # k => timers'[j] = timers[j] /\ cb'[j] = cb[j]
  BY <1>0, <1>2 DEF TypeOK
<1>6. TypeOK'
  <2>1. timers' \in [Ids -> {"none", "armed", "stopped", "fired", "queued", "over"}]
    BY <1>0 DEF TypeOK
  <2>2. cb' \in [Ids -> BOOLEAN]  BY <1>0 DEF TypeOK
  <2> QED  BY <1>0, <1>2, <2>1, <2>2 DEF TypeOK
<1>7. OpsInv'
  <2>1. got'[New] # <<"ran">>
    <3>1. <<>> # <<"ran">>  BY OneIs
    <3> QED  BY <3>1, <1>0, <1>1, <1>3
  <2>2. \A n \in Modules : st'[n] = "idle" => cur'[n] = None  BY <1>0 DEF OpsInv
  <2> QED  BY <1>0, <1>1, <1>5, <2>1, <2>2, OpsStart
<1>8. RpcInv'  BY <1>0, <1>2, RpcFrame
<1>9. Counts'  BY <1>0, <1>2, <1>4, CountsFrame
<1>10. GoInv'  BY <1>0, <1>2, <1>4, GoFrame
<1>11. TimerInv'
  <2>1. \A j \in 1 .. Len(ops) : j \in Ids /\ j # k /\ j \in 1 .. Len(ops') /\ ops'[j] = ops[j]
    BY <1>2, OpsIs DEF Grows
  <2>2. \A j \in 1 .. Len(ops') :
          /\ cb'[j] \/ timers'[j] # "none" => ops'[j].kind \in {"after", "cron"}
          /\ ops'[j].kind \in {"after", "cron"} => got[j] = <<>>
          /\ ops'[j].kind = "after" /\ cb'[j] => ran[j] = 0
    BY <1>2, <1>3, <1>5, <2>1 DEF TimerInv
  <2>3. \A n \in Modules : \A j \in Elems(chanTimer[n]) : By(j, {"after", "cron"}, n)'
    BY <2>1 DEF TimerInv, By, Is
  <2> QED  BY <2>2, <2>3, <1>0 DEF TimerInv
<1> QED  BY <1>6, <1>7, <1>8, <1>9, <1>10, <1>11

-----------------------------------------------------------------------------
\* One element more, one element less
LEMMA OneMore == ASSUME NEW S, IsFiniteSet(S), NEW x, x \notin S
                 PROVE  Cardinality(S \cup {x}) = Cardinality(S) + 1
BY FS_AddElement

LEMMA OneLess == ASSUME NEW S, IsFiniteSet(S), NEW x, x \in S
                 PROVE  /\ Cardinality(S \ {x}) = Cardinality(S) - 1
                        /\ Cardinality(S) \in Nat \ {0}
<1>1. S # {} /\ Cardinality(S) \in Nat  BY FS_CardinalityType
<1>2. Cardinality(S) # 0  BY <1>1, FS_EmptySet
<1> QED  BY <1>1, <1>2, FS_RemoveElement

LEMMA CountsAre ==
  ASSUME TypeOK, NEW m
  PROVE  /\ IsFiniteSet(Outstanding(m)) /\ Cardinality(Outstanding(m)) \in Nat
         /\ IsFiniteSet(Unfinished(m)) /\ Cardinality(Unfinished(m)) \in Nat
<1>1. IsFiniteSet(1 .. Len(ops))
  <2>1. 1 \in Int /\ Len(ops) \in Int  BY OpsIs
  <2> QED  BY <2>1, FS_Interval
<1>2. Outstanding(m) \subseteq 1 .. Len(ops) /\ Unfinished(m) \subseteq 1 .. Len(ops)
  BY DEF Outstanding, Unfinished
<1>3. IsFiniteSet(Outstanding(m)) /\ IsFiniteSet(Unfinished(m))  BY <1>1, <1>2, FS_Subset
<1> QED  BY <1>3, FS_CardinalityType

\* A function of Go is one more that has not had its callback.
LEMMA PendingMore ==
  ASSUME TypeOK, OpsInv, Counts, NEW m \in Modules, NEW kind \in {"go", "linear"},
         Start(kind, m, m), pendingGo' = [pendingGo EXCEPT ![m] = @ + 1],
         UNCHANGED <<loop, st, cur, got, pendingAsynCall>>
  PROVE  Counts'
<1>1. PICK k : k = New  OBVIOUS
<1>2. /\ k \in Ids /\ k \notin 1 .. Len(ops) /\ Grows /\ st[m] = "busy" /\ k \in 1 .. Len(ops')
      /\ ops'[k] = [kind |-> kind, by |-> m, to |-> m]
      /\ \A i \in 1 .. Len(ops') : i \in 1 .. Len(ops) \/ i = k
  BY <1>1, StartIs, OpsIs DEF Kinds
<1>3. got[k] = <<>>  BY <1>1, <1>2, NewIs
<1>4. \A i \in 1 .. Len(ops) : i # k /\ i \in 1 .. Len(ops') /\ ops'[i] = ops[i]
  BY <1>2 DEF Grows
<1>5. \A i \in 1 .. Len(ops) : \A K, n : By(i, K, n)' <=> By(i, K, n)
  BY <1>4 DEF By, Is
<1>6. \A K, n : By(k, K, n)' <=> kind \in K /\ n = m  BY <1>2 DEF By, Is
<1>7. ASSUME NEW n \in Modules  PROVE Outstanding(n)' = Outstanding(n)
  <2>1. \A i \in 1 .. Len(ops') : i \in Outstanding(n)' <=> i \in Outstanding(n)
    BY <1>2, <1>4, <1>5, <1>6 DEF Outstanding
  <2> QED  BY <2>1, <1>4 DEF Outstanding
<1>8. ASSUME NEW n \in Modules
      PROVE  Unfinished(n)' = IF n = m THEN Unfinished(n) \cup {k} ELSE Unfinished(n)
  <2>1. \A i \in 1 .. Len(ops) : i \in Unfinished(n)' <=> i \in Unfinished(n)
    BY <1>4, <1>5 DEF Unfinished
  <2>2. k \in Unfinished(n)' <=> n = m  BY <1>2, <1>3, <1>6 DEF Unfinished
  <2>3. Unfinished(n)' \subseteq 1 .. Len(ops') /\ Unfinished(n) \subseteq 1 .. Len(ops)
    BY DEF Unfinished
  <2> QED  BY <2>1, <2>2, <2>3, <1>2
<1>9. k \notin Unfinished(m)  BY <1>2 DEF Unfinished
<1>10. Cardinality(Unfinished(m) \cup {k}) = Cardinality(Unfinished(m)) + 1
  BY <1>9, CountsAre, OneMore
<1>11. \A n \in Modules : pendingGo'[n] = IF n = m THEN pendingGo[n] + 1 ELSE pendingGo[n]
  BY DEF TypeOK
<1>12. \A n \in Modules : pendingGo'[n] = Cardinality(Unfinished(n)')
  BY <1>8, <1>10, <1>11 DEF Counts
<1>13. loop[m] # "done"  BY <1>2 DEF Counts
<1>14. \A n \in Modules : loop[n] = "done" => st[n] = "idle" /\ pendingGo'[n] = 0 /\ pendingAsynCall[n] = 0
  BY <1>11, <1>13 DEF Counts
<1> QED  BY <1>7, <1>12, <1>14 DEF Counts

LEMMA GoKeeps ==
  ASSUME IInv, NEW m \in Modules, Go(m)
  PROVE  IInv'
<1> USE DEF IInv
<1>1. PICK k : k = New  OBVIOUS
<1>0. /\ Start("go", m, m) /\ "go" \in Kinds /\ m \in Procs
      /\ UNCHANGED <<loop, st, cur, sync, chanCall, closed, chanSyncRet, chanAsynRet,
                     pendingAsynCall, got, linearGo, execution, chanCb, timers, cb,
                     chanTimer, main, closeSig, ran>>
      /\ pendingGo' = [pendingGo EXCEPT ![m] = @ + 1]
      /\ running' = [running EXCEPT ![m] = @ \cup {k}]
  BY <1>1, OpsIs DEF Go, proc, rpc, tms, destroy, Kinds
<1>2. /\ k \in Ids /\ k = Len(ops) + 1 /\ k \notin 1 .. Len(ops)
      /\ ops' \in Seq([kind : Kinds, by : Procs, to : Modules])
      /\ Len(ops') = k /\ k <= MaxOps /\ Grows /\ st[m] = "busy"
      /\ k \in 1 .. Len(ops') /\ ops'[k] = [kind |-> "go", by |-> m, to |-> m]
      /\ \A i \in 1 .. Len(ops') : i \in 1 .. Len(ops) \/ i = k
  BY <1>0, <1>1, StartIs
<1>3. ran[k] = 0 /\ got[k] = <<>> /\ ~cb[k] /\ timers[k] = "none"  BY <1>1, <1>2, NewIs
<1>4. TypeOK'
  <2>1. running' \in [Modules -> SUBSET Ids]  BY <1>0, <1>2 DEF TypeOK
  <2>2. pendingGo' \in [Modules -> Nat]  BY <1>0, SMTT(40) DEF TypeOK
  <2> QED  BY <1>0, <1>2, <2>1, <2>2 DEF TypeOK
<1>5. OpsInv'
  <2>1. got'[New] # <<"ran">>
    <3>1. <<>> # <<"ran">>  BY OneIs
    <3> QED  BY <3>1, <1>0, <1>1, <1>3
  <2>2. \A n \in Modules : st'[n] = "idle" => cur'[n] = None  BY <1>0 DEF OpsInv
  <2> QED  BY <1>0, <2>1, <2>2, OpsStart
<1>6. RpcInv'  BY <1>0, <1>2, RpcFrame
<1>7. Counts'  BY <1>0, PendingMore
<1>8. GoInv'
  <2>1. \A i \in 1 .. Len(ops) : i # k /\ i \in 1 .. Len(ops') /\ ops'[i] = ops[i]
    BY <1>2 DEF Grows
  <2>2. \A i, K, n : By(i, K, n) => By(i, K, n)'  BY <2>1 DEF By, Is
  <2>3. \A i, n : By(i, {"linear"}, n)' => By(i, {"linear"}, n)
    <3> SUFFICES ASSUME NEW i, NEW n, By(i, {"linear"}, n)'  PROVE By(i, {"linear"}, n)
      OBVIOUS
    <3>1. i # k /\ i \in 1 .. Len(ops)  BY <1>2 DEF By, Is
    <3> QED  BY <3>1, <2>1 DEF By, Is
  <2>4. \A n \in Modules : \A i \in running'[n] : i \in running[n] \/ (n = m /\ i = k)
    BY <1>0 DEF TypeOK
  <2>5. Unrun(k, {"go"}, m)'  BY <1>0, <1>2, <1>3 DEF Unrun, By, Is
  <2>6. \A i, K, n : Unrun(i, K, n) => Unrun(i, K, n)'  BY <2>2, <1>0 DEF Unrun
  <2>7. ASSUME NEW n \in Modules  PROVE GoPlaced(n)'
    <3>1. GoPlaced(n)  BY DEF GoInv
    <3>2. \A i \in running'[n] : Unrun(i, {"go"}, n)'  BY <3>1, <2>4, <2>5, <2>6 DEF GoPlaced
    <3>3. (cur[n][1] = "go" => By(cur[n][2], {"go", "linear"}, n) /\ got[cur[n][2]] # <<>>)'
      <4>1. PICK c : c = cur[n][2]  OBVIOUS
      <4>2. cur[n][1] = "go" => By(c, {"go", "linear"}, n)' /\ got[c] # <<>>
        BY <3>1, <4>1, <2>2 DEF GoPlaced
      <4> QED  BY <4>1, <4>2, <1>0 DEF By, Is
    <3> QED  BY <3>1, <3>2, <3>3, <2>2, <2>6, <1>0 DEF GoPlaced
  <2>8. ASSUME NEW n \in Modules, NEW i, NEW j, By(i, {"linear"}, n)', By(j, {"linear"}, n)', i < j
        PROVE  Behind(n, i, j)'
    <3>1. By(i, {"linear"}, n) /\ By(j, {"linear"}, n)  BY <2>3, <2>8
    <3>2. Behind(n, i, j)  BY <3>1, <2>8 DEF GoInv, Linear, By, Is
    <3> QED  BY <3>2, <1>0 DEF Behind
  <2>9. ASSUME NEW n \in Modules, NEW i, By(i, {"linear"}, n)'  PROVE Somewhere(n, i)'
    <3>1. Somewhere(n, i)  BY <2>3, <2>9 DEF GoInv, Linear, By, Is
    <3> QED  BY <3>1, <1>0 DEF Somewhere
  <2> QED  BY <2>7, <2>8, <2>9 DEF GoInv, Linear
<1>9. TimerInv'
  <2>1. \A i \in 1 .. Len(ops') : i \notin 1 .. Len(ops) =>
          ops'[i].kind \notin {"after", "cron"} /\ ~cb[i] /\ timers[i] = "none"
    BY <1>2, <1>3
  <2> QED  BY <1>0, <1>2, <2>1, TimerFrame
<1> QED  BY <1>4, <1>5, <1>6, <1>7, <1>8, <1>9

LEMMA LinearContextGoKeeps ==
  ASSUME IInv, NEW m \in Modules, LinearContextGo(m)
  PROVE  IInv'
<1> USE DEF IInv
<1>1. PICK k : k = New  OBVIOUS
<1>0. /\ Start("linear", m, m) /\ "linear" \in Kinds /\ m \in Procs
      /\ UNCHANGED <<loop, st, cur, sync, chanCall, closed, chanSyncRet, chanAsynRet,
                     pendingAsynCall, got, running, execution, chanCb, timers, cb,
                     chanTimer, main, closeSig, ran>>
      /\ pendingGo' = [pendingGo EXCEPT ![m] = @ + 1]
      /\ linearGo' = [linearGo EXCEPT ![m] = Append(@, k)]
  BY <1>1, OpsIs DEF LinearContextGo, proc, rpc, tms, destroy, Kinds
<1>2. /\ k \in Ids /\ k = Len(ops) + 1 /\ k \notin 1 .. Len(ops) /\ Len(ops) \in Nat
      /\ ops' \in Seq([kind : Kinds, by : Procs, to : Modules])
      /\ Len(ops') = k /\ k <= MaxOps /\ Grows /\ st[m] = "busy"
      /\ k \in 1 .. Len(ops') /\ ops'[k] = [kind |-> "linear", by |-> m, to |-> m]
      /\ \A i \in 1 .. Len(ops') : i \in 1 .. Len(ops) \/ i = k
  BY <1>0, <1>1, StartIs, OpsIs
<1>3. ran[k] = 0 /\ got[k] = <<>> /\ ~cb[k] /\ timers[k] = "none"  BY <1>1, <1>2, NewIs
<1> DEFINE s == Append(linearGo[m], k)
<1>10. /\ s \in Seq(Ids) /\ Elems(s) = Elems(linearGo[m]) \cup {k}
       /\ Distinct(linearGo[m]) /\ k \notin Elems(linearGo[m]) => Distinct(s)
       /\ \A y, z : Before(linearGo[m], y, z) => Before(s, y, z)
       /\ \A y \in Elems(linearGo[m]) : Before(s, y, k)
  <2>1. linearGo[m] \in Seq(Ids)  BY DEF TypeOK
  <2> QED  BY <2>1, <1>2, AppendIs
<1>11. linearGo' = [linearGo EXCEPT ![m] = s]  BY <1>0
<1> HIDE DEF s
<1>12. \A n \in Modules : linearGo'[n] = IF n = m THEN s ELSE linearGo[n]  BY <1>11 DEF TypeOK
<1>4. TypeOK'
  <2>1. linearGo' \in [Modules -> Seq(Ids)]  BY <1>10, <1>11 DEF TypeOK
  <2>2. pendingGo' \in [Modules -> Nat]  BY <1>0, SMTT(40) DEF TypeOK
  <2> QED  BY <1>0, <1>2, <2>1, <2>2 DEF TypeOK
<1>5. OpsInv'
  <2>1. got'[New] # <<"ran">>
    <3>1. <<>> # <<"ran">>  BY OneIs
    <3> QED  BY <3>1, <1>0, <1>1, <1>3
  <2>2. \A n \in Modules : st'[n] = "idle" => cur'[n] = None  BY <1>0 DEF OpsInv
  <2> QED  BY <1>0, <2>1, <2>2, OpsStart
<1>6. RpcInv'  BY <1>0, <1>2, RpcFrame
<1>7. Counts'  BY <1>0, PendingMore
<1>8. GoInv'
  <2>1. \A i \in 1 .. Len(ops) : i # k /\ i \in 1 .. Len(ops') /\ ops'[i] = ops[i]
    BY <1>2 DEF Grows
  <2>2. \A i, K, n : By(i, K, n) => By(i, K, n)' /\ i # k /\ i \in 1 .. Len(ops)
    BY <2>1 DEF By, Is
  <2>3. \A i, n : By(i, {"linear"}, n)' => By(i, {"linear"}, n) \/ (i = k /\ n = m)
    <3> SUFFICES ASSUME NEW i, NEW n, By(i, {"linear"}, n)'
                 PROVE  By(i, {"linear"}, n) \/ (i = k /\ n = m)
      OBVIOUS
    <3>1. CASE i = k  BY <3>1, <1>2 DEF By, Is
    <3>2. CASE i # k
      <4>1. i \in 1 .. Len(ops)  BY <1>2, <3>2 DEF By, Is
      <4> QED  BY <4>1, <2>1 DEF By, Is
    <3> QED  BY <3>1, <3>2
  <2>4. Unrun(k, {"linear"}, m)'  BY <1>0, <1>2, <1>3 DEF Unrun, By, Is
  <2>5. \A i, K, n : Unrun(i, K, n) => Unrun(i, K, n)' /\ i # k
    BY <2>2, <1>0 DEF Unrun
  <2>6. execution[m] # k  BY <2>5, OpsIs, <1>2 DEF GoInv, GoPlaced
  <2>7. ASSUME NEW n \in Modules  PROVE GoPlaced(n)'
    <3>1. GoPlaced(n)  BY DEF GoInv
    <3>2. \A i \in Elems(linearGo'[n]) : Unrun(i, {"linear"}, n)' /\ i # execution[n]
      <4>1. CASE n = m
        <5>1. \A i \in Elems(linearGo[m]) : Unrun(i, {"linear"}, m)' /\ i # execution[m]
          BY <3>1, <4>1, <2>5 DEF GoPlaced
        <5> QED  BY <5>1, <4>1, <1>10, <1>12, <2>4, <2>6
      <4>2. CASE n # m  BY <4>2, <3>1, <1>12, <2>5 DEF GoPlaced
      <4> QED  BY <4>1, <4>2
    <3>3. Distinct(linearGo'[n])
      <4>1. k \notin Elems(linearGo[n])  BY <3>1, <2>5 DEF GoPlaced
      <4> QED  BY <4>1, <3>1, <1>10, <1>12 DEF GoPlaced
    <3>4. (cur[n][1] = "go" => By(cur[n][2], {"go", "linear"}, n) /\ got[cur[n][2]] # <<>>)'
      <4>1. PICK c : c = cur[n][2]  OBVIOUS
      <4>2. cur[n][1] = "go" => By(c, {"go", "linear"}, n)' /\ got[c] # <<>>
        BY <3>1, <4>1, <2>2 DEF GoPlaced
      <4> QED  BY <4>1, <4>2, <1>0 DEF By, Is
    <3>5. (execution[n] # 0 => Unrun(execution[n], {"linear"}, n))'
      <4>1. PICK c : c = execution[n]  OBVIOUS
      <4>2. c # 0 => Unrun(c, {"linear"}, n)'  BY <3>1, <4>1, <2>5 DEF GoPlaced
      <4> QED  BY <4>1, <4>2, <1>0 DEF Unrun, By, Is
    <3>6. \A i \in running[n] : Unrun(i, {"go"}, n)'  BY <3>1, <2>5 DEF GoPlaced
    <3>7. \A i \in Elems(chanCb[n]) : By(i, {"go", "linear"}, n)'  BY <3>1, <2>2 DEF GoPlaced
    <3> QED  BY <3>1, <3>2, <3>3, <3>4, <3>5, <3>6, <3>7, <1>0 DEF GoPlaced
  <2>8. ASSUME NEW n \in Modules, NEW i, NEW j, By(i, {"linear"}, n)', By(j, {"linear"}, n)', i < j
        PROVE  Behind(n, i, j)'
    <3>1. By(i, {"linear"}, n)
      <4>1. i \in 1 .. Len(ops') /\ j \in 1 .. Len(ops')  BY <2>8 DEF By, Is
      <4>2. i # k  BY <4>1, <2>8, <1>2
      <4> QED  BY <4>2, <2>3, <2>8
    <3>2. i # k  BY <3>1, <2>2
    <3>3. CASE By(j, {"linear"}, n)
      <4>1. Behind(n, i, j)  BY <3>1, <3>3, <2>8 DEF GoInv, Linear, By, Is
      <4>2. Elems(linearGo[n]) \subseteq Elems(linearGo'[n])
        BY <1>10, <1>12
      <4>3. i \in Elems(linearGo'[n]) => i \in Elems(linearGo[n])  BY <3>2, <1>10, <1>12
      <4>4. Before(linearGo[n], i, j) => Before(linearGo'[n], i, j)  BY <1>10, <1>12
      <4> QED  BY <4>1, <4>2, <4>3, <4>4, <1>0 DEF Behind
    <3>4. CASE j = k /\ n = m
      <4>3. k \in Elems(linearGo'[m]) /\ (i \in Elems(linearGo'[m]) => i \in Elems(linearGo[m]))
        BY <3>2, <1>10, <1>12
      <4>4. i \in Elems(linearGo[m]) => Before(linearGo'[m], i, k)  BY <1>10, <1>12
      <4> QED  BY <3>4, <4>3, <4>4, <1>0 DEF Behind
    <3> QED  BY <3>3, <3>4, <2>3, <2>8
  <2>9. ASSUME NEW n \in Modules, NEW i, By(i, {"linear"}, n)'  PROVE Somewhere(n, i)'
    <3>1. Elems(linearGo[n]) \subseteq Elems(linearGo'[n])  BY <1>10, <1>12
    <3>2. CASE By(i, {"linear"}, n)
      <4>1. Somewhere(n, i)  BY <3>2 DEF GoInv, Linear, By, Is
      <4> QED  BY <3>1, <4>1, <1>0 DEF Somewhere
    <3>3. CASE i = k /\ n = m  BY <3>3, <1>10, <1>12 DEF Somewhere
    <3> QED  BY <3>2, <3>3, <2>3, <2>9
  <2> QED  BY <2>7, <2>8, <2>9 DEF GoInv, Linear
<1>9. TimerInv'
  <2>1. \A i \in 1 .. Len(ops') : i \notin 1 .. Len(ops) =>
          ops'[i].kind \notin {"after", "cron"} /\ ~cb[i] /\ timers[i] = "none"
    BY <1>2, <1>3
  <2> QED  BY <1>0, <1>2, <2>1, TimerFrame
<1> QED  BY <1>4, <1>5, <1>6, <1>7, <1>8, <1>9

LEMMA GoEndsKeeps ==
  ASSUME IInv, NEW m \in Modules, NEW i \in Ids, GoEnds(m, i)
  PROVE  IInv'
<1> USE DEF IInv
<1>0. /\ UNCHANGED <<ops, loop, st, cur, sync, chanCall, closed, chanSyncRet, chanAsynRet,
                     pendingAsynCall, got, linearGo, execution, pendingGo, timers, cb,
                     chanTimer, main, closeSig>>
      /\ running' = [running EXCEPT ![m] = @ \ {i}] /\ i \in running[m]
      /\ chanCb' = [chanCb EXCEPT ![m] = Append(@, i)] /\ Ran(i)
  BY DEF GoEnds, proc, rpc, tms, destroy
<1>1. /\ By(i, {"go"}, m) /\ got[i] = <<>> /\ ran[i] = 0 /\ i \in 1 .. Len(ops)
      /\ ops[i].kind = "go"
  BY <1>0 DEF GoInv, GoPlaced, Unrun, By, Is
<1>2. ran' \in [Ids -> Nat] /\ ran'[i] = 1 /\ \A j \in Ids : j # i => ran'[j] = ran[j]
  <2>1. ran' \in [Ids -> Nat] /\ ran'[i] = ran[i] + 1 /\ \A j \in Ids : j # i => ran'[j] = ran[j]
    BY <1>0, RanIs
  <2> QED  BY <2>1, <1>1
<1> DEFINE s == Append(chanCb[m], i)
<1>3. /\ s \in Seq(Ids) /\ Elems(s) = Elems(chanCb[m]) \cup {i}
      /\ Distinct(chanCb[m]) /\ i \notin Elems(chanCb[m]) => Distinct(s)
      /\ \A y, z : Before(chanCb[m], y, z) => Before(s, y, z)
  <2>1. chanCb[m] \in Seq(Ids)  BY DEF TypeOK
  <2> QED  BY <2>1, AppendIs
<1>4. chanCb' = [chanCb EXCEPT ![m] = s]  BY <1>0
<1> HIDE DEF s
<1>5. \A n \in Modules : chanCb'[n] = IF n = m THEN s ELSE chanCb[n]  BY <1>4 DEF TypeOK
<1>6. \A j \in 1 .. Len(ops) : j \in Ids  BY OpsIs
<1>7. \A j, K : Is(j, K) /\ "go" \notin K => ran'[j] = ran[j]
  <2> SUFFICES ASSUME NEW j, NEW K, Is(j, K), "go" \notin K  PROVE ran'[j] = ran[j]
    OBVIOUS
  <2>1. j \in Ids /\ j # i  BY <1>1, <1>6 DEF Is
  <2> QED  BY <2>1, <1>2
<1>8. TypeOK'
  <2>1. running' \in [Modules -> SUBSET Ids]  BY <1>0 DEF TypeOK
  <2>2. chanCb' \in [Modules -> Seq(Ids)]  BY <1>3, <1>4 DEF TypeOK
  <2> QED  BY <1>0, <1>2, <2>1, <2>2 DEF TypeOK
<1>9. OpsInv'
  <2>1. \A j \in Ids : j > Len(ops) => j # i  BY <1>1, OpsIs
  <2>2. \A j \in Ids : j > Len(ops) => ran'[j] = 0  BY <2>1, <1>2 DEF OpsInv
  <2>3. \A j \in 1 .. Len(ops) : /\ ops[j].kind # "cron" => ran'[j] <= 1
                                 /\ got[j] # <<>> => (got[j] = <<"ran">> <=> ran'[j] = 1)
    BY <1>1, <1>2, <1>6 DEF OpsInv
  <2> QED  BY <2>2, <2>3, <1>0 DEF OpsInv
<1>10. RpcInv'  BY <1>0, <1>7, StillGrows, RpcFrame
<1>11. Counts'  BY <1>0, StillGrows, CountsFrame
<1>12. TimerInv'  BY <1>0, <1>7, StillGrows, TimerFrame
<1>13. \A j, K, n : By(j, K, n)' <=> By(j, K, n)  BY <1>0 DEF By, Is
<1>14. \A j, n : Unrun(j, {"linear"}, n) => Unrun(j, {"linear"}, n)'
  BY <1>0, <1>7, <1>13 DEF Unrun, By
<1>15. ASSUME NEW n \in Modules  PROVE GoPlaced(n)'
  <2>1. GoPlaced(n)  BY DEF GoInv
  <2>2. \A j \in running'[n] : j \in running[n] /\ j # i
    <3>1. n # m => i \notin running[n]  BY <2>1, <1>1 DEF GoPlaced, Unrun, By
    <3> QED  BY <3>1, <1>0 DEF TypeOK
  <2>3. \A j \in running'[n] : Unrun(j, {"go"}, n)'
    <3> SUFFICES ASSUME NEW j \in running'[n]  PROVE Unrun(j, {"go"}, n)'  OBVIOUS
    <3>1. Unrun(j, {"go"}, n) /\ j # i  BY <2>1, <2>2 DEF GoPlaced
    <3>2. j \in Ids  BY <3>1, <1>6 DEF Unrun, By, Is
    <3> QED  BY <3>1, <3>2, <1>0, <1>2, <1>13 DEF Unrun
  <2>4. i \notin Elems(chanCb[n])  BY <2>1, <1>1 DEF GoPlaced
  <2>5. \A j \in Elems(chanCb[n]) : By(j, {"go", "linear"}, n) /\ got[j] = <<>> /\ ran'[j] = 1
    <3> SUFFICES ASSUME NEW j \in Elems(chanCb[n])
                 PROVE  By(j, {"go", "linear"}, n) /\ got[j] = <<>> /\ ran'[j] = 1
      OBVIOUS
    <3>1. By(j, {"go", "linear"}, n) /\ got[j] = <<>> /\ ran[j] = 1 /\ j # i
      BY <2>1, <2>4 DEF GoPlaced
    <3>2. j \in Ids  BY <3>1, <1>6 DEF By, Is
    <3> QED  BY <3>1, <3>2, <1>2
  <2>6. By(i, {"go", "linear"}, m)  BY <1>1 DEF By, Is
  <2>7. \A j \in Elems(chanCb'[n]) : By(j, {"go", "linear"}, n) /\ got[j] = <<>> /\ ran'[j] = 1
    BY <2>5, <2>6, <1>1, <1>2, <1>3, <1>5
  <2>8. Distinct(chanCb'[n])  BY <2>1, <2>4, <1>3, <1>5 DEF GoPlaced
  <2>9. (cur[n][1] = "go" => By(cur[n][2], {"go", "linear"}, n) /\ got[cur[n][2]] # <<>>)'
    BY <2>1, <1>0 DEF GoPlaced, By, Is
  <2>10. (execution[n] # 0 => Unrun(execution[n], {"linear"}, n))'
    <3>1. PICK c : c = execution[n]  OBVIOUS
    <3>2. c # 0 => Unrun(c, {"linear"}, n)'  BY <2>1, <3>1, <1>14 DEF GoPlaced
    <3> QED  BY <3>1, <3>2, <1>0 DEF Unrun, By, Is
  <2> QED  BY <2>1, <2>3, <2>7, <2>8, <2>9, <2>10, <1>0, <1>13, <1>14 DEF GoPlaced
<1>16. ASSUME NEW n \in Modules  PROVE Linear(n)'
  <2>1. Linear(n)  BY DEF GoInv
  <2>2. \A j : By(j, {"linear"}, n) => j # i  BY <1>1 DEF By, Is
  <2>3. \A j : By(j, {"linear"}, n) => (j \in Elems(chanCb'[n]) <=> j \in Elems(chanCb[n]))
    BY <2>2, <1>3, <1>5
  <2>4. \A j, l : Before(chanCb[n], j, l) => Before(chanCb'[n], j, l)  BY <1>3, <1>5
  <2>5. ASSUME NEW j \in 1 .. Len(ops), By(j, {"linear"}, n)  PROVE Somewhere(n, j)'
    BY <2>1, <2>3, <2>5, <1>0 DEF Linear, Somewhere
  <2>6. ASSUME NEW j \in 1 .. Len(ops), NEW l \in 1 .. Len(ops),
               By(j, {"linear"}, n), By(l, {"linear"}, n), j < l
        PROVE  Behind(n, j, l)'
    <3>1. Behind(n, j, l)  BY <2>1, <2>6 DEF Linear
    <3> QED  BY <3>1, <2>3, <2>4, <2>6, <1>0 DEF Behind
  <2> QED  BY <2>5, <2>6, <1>0, <1>13 DEF Linear
<1> QED  BY <1>8, <1>9, <1>10, <1>11, <1>12, <1>15, <1>16 DEF GoInv

LEMMA LinearTakeKeeps ==
  ASSUME IInv, NEW m \in Modules, LinearTake(m)
  PROVE  IInv'
<1> USE DEF IInv
<1>0. /\ UNCHANGED <<ops, loop, st, cur, sync, chanCall, closed, chanSyncRet, chanAsynRet,
                     pendingAsynCall, got, running, chanCb, pendingGo, timers, cb,
                     chanTimer, main, closeSig, ran>>
      /\ execution' = [execution EXCEPT ![m] = Head(linearGo[m])]
      /\ linearGo' = [linearGo EXCEPT ![m] = Tail(@)]
      /\ execution[m] = 0 /\ linearGo[m] # <<>>
  BY DEF LinearTake, proc, rpc, tms, destroy
<1>1. PICK h, s : h = Head(linearGo[m]) /\ s = Tail(linearGo[m])  OBVIOUS
<1>2. /\ s \in Seq(Ids) /\ h \in Ids /\ h \in Elems(linearGo[m])
      /\ Elems(linearGo[m]) = Elems(s) \cup {h}
      /\ Distinct(s) /\ h \notin Elems(s) /\ \A x : ~Before(linearGo[m], x, h)
      /\ \A x, y : Before(linearGo[m], x, y) /\ x # h => Before(s, x, y)
      /\ \A y : Before(linearGo[m], h, y) => y \in Elems(s)
  <2>1. linearGo[m] \in Seq(Ids) /\ Distinct(linearGo[m])  BY DEF TypeOK, GoInv, GoPlaced
  <2> QED  BY <2>1, <1>0, <1>1, TailIs
<1>3. execution' = [execution EXCEPT ![m] = h] /\ linearGo' = [linearGo EXCEPT ![m] = s]
  BY <1>0, <1>1
<1>4. \A n \in Modules : /\ execution'[n] = IF n = m THEN h ELSE execution[n]
                         /\ linearGo'[n] = IF n = m THEN s ELSE linearGo[n]
  BY <1>3 DEF TypeOK
<1>5. TypeOK'
  <2>1. execution' \in [Modules -> Ids \cup {0}]  BY <1>2, <1>3 DEF TypeOK
  <2>2. linearGo' \in [Modules -> Seq(Ids)]  BY <1>2, <1>3 DEF TypeOK
  <2> QED  BY <1>0, <2>1, <2>2 DEF TypeOK
<1>6. OpsInv'  BY <1>0 DEF OpsInv
<1>7. RpcInv'  BY <1>0, StillGrows, RpcFrame
<1>8. Counts'  BY <1>0, StillGrows, CountsFrame
<1>9. TimerInv'  BY <1>0, StillGrows, TimerFrame
<1>10. \A j, K, n : By(j, K, n)' <=> By(j, K, n)  BY <1>0 DEF By, Is
<1>11. \A j, K, n : Unrun(j, K, n)' <=> Unrun(j, K, n)  BY <1>0, <1>10 DEF Unrun
<1>12. ASSUME NEW n \in Modules  PROVE GoPlaced(n)'
  <2>1. GoPlaced(n)  BY DEF GoInv
  <2>2. \A j \in Elems(linearGo'[n]) : Unrun(j, {"linear"}, n) /\ j # execution'[n]
    BY <2>1, <1>2, <1>4 DEF GoPlaced
  <2>3. PICK c : c = execution'[n]  OBVIOUS
  <2>4. c # 0 => Unrun(c, {"linear"}, n)  BY <2>1, <2>3, <1>2, <1>4 DEF GoPlaced
  <2>5. (execution[n] # 0 => Unrun(execution[n], {"linear"}, n))'
    BY <2>3, <2>4, <1>0 DEF Unrun, By, Is
  <2>6. Distinct(linearGo'[n])  BY <2>1, <1>2, <1>4 DEF GoPlaced
  <2>7. (cur[n][1] = "go" => By(cur[n][2], {"go", "linear"}, n) /\ got[cur[n][2]] # <<>>)'
    BY <2>1, <1>0 DEF GoPlaced, By, Is
  <2> QED  BY <2>1, <2>2, <2>5, <2>6, <2>7, <1>0, <1>10, <1>11 DEF GoPlaced
<1>13. ASSUME NEW n \in Modules  PROVE Linear(n)'
  <2>1. Linear(n)  BY DEF GoInv
  <2>2. \A j : By(j, {"linear"}, n) => j # 0 /\ j \in 1 .. Len(ops)  BY OpsIs DEF By, Is
  <2>3. ASSUME NEW j \in 1 .. Len(ops), By(j, {"linear"}, n)  PROVE Somewhere(n, j)'
    BY <2>1, <2>2, <2>3, <1>0, <1>2, <1>4 DEF Linear, Somewhere
  <2>4. ASSUME NEW j \in 1 .. Len(ops), NEW l \in 1 .. Len(ops),
               By(j, {"linear"}, n), By(l, {"linear"}, n), j < l
        PROVE  Behind(n, j, l)'
    <3>1. Behind(n, j, l)  BY <2>1, <2>4 DEF Linear
    <3>2. CASE n # m  BY <3>1, <3>2, <1>0, <1>4 DEF Behind
    <3>3. CASE n = m
      <4>1. linearGo'[m] = s /\ execution'[m] = h  BY <1>4
      <4>2. j \in Elems(s) => Before(s, j, l)  BY <3>1, <3>3, <1>2 DEF Behind
      <4>3. j = h => l \in Elems(s)  BY <3>1, <3>3, <1>2 DEF Behind
      <4>4. j \in Elems(chanCb[m]) => l \in Elems(s) \/ l = h \/ Before(chanCb[m], j, l)
        BY <3>1, <3>3, <2>2, <2>4, <1>0, <1>2 DEF Behind
      <4> QED  BY <3>3, <4>1, <4>2, <4>3, <4>4, <1>0 DEF Behind
    <3> QED  BY <3>2, <3>3
  <2> QED  BY <2>3, <2>4, <1>0, <1>10 DEF Linear
<1> QED  BY <1>5, <1>6, <1>7, <1>8, <1>9, <1>12, <1>13 DEF GoInv

LEMMA LinearEndsKeeps ==
  ASSUME IInv, NEW m \in Modules, LinearEnds(m)
  PROVE  IInv'
<1> USE DEF IInv
<1>a. PICK i : i = execution[m]  OBVIOUS
<1>0. /\ UNCHANGED <<ops, loop, st, cur, sync, chanCall, closed, chanSyncRet, chanAsynRet,
                     pendingAsynCall, got, running, linearGo, pendingGo, timers, cb,
                     chanTimer, main, closeSig>>
      /\ execution' = [execution EXCEPT ![m] = 0] /\ i # 0
      /\ chanCb' = [chanCb EXCEPT ![m] = Append(@, i)] /\ Ran(i)
  BY <1>a DEF LinearEnds, proc, rpc, tms, destroy
<1>1. /\ By(i, {"linear"}, m) /\ got[i] = <<>> /\ ran[i] = 0 /\ i \in 1 .. Len(ops)
      /\ ops[i].kind = "linear" /\ i \in Ids
  BY <1>a, <1>0, OpsIs DEF GoInv, GoPlaced, Unrun, By, Is
<1>2. ran' \in [Ids -> Nat] /\ ran'[i] = 1 /\ \A j \in Ids : j # i => ran'[j] = ran[j]
  <2>1. ran' \in [Ids -> Nat] /\ ran'[i] = ran[i] + 1 /\ \A j \in Ids : j # i => ran'[j] = ran[j]
    BY <1>0, <1>1, RanIs
  <2> QED  BY <2>1, <1>1
<1> DEFINE s == Append(chanCb[m], i)
<1>3. /\ s \in Seq(Ids) /\ Elems(s) = Elems(chanCb[m]) \cup {i}
      /\ Distinct(chanCb[m]) /\ i \notin Elems(chanCb[m]) => Distinct(s)
      /\ \A y, z : Before(chanCb[m], y, z) => Before(s, y, z)
      /\ \A y \in Elems(chanCb[m]) : Before(s, y, i)
  <2>1. chanCb[m] \in Seq(Ids)  BY DEF TypeOK
  <2> QED  BY <2>1, <1>1, AppendIs
<1>4. chanCb' = [chanCb EXCEPT ![m] = s]  BY <1>0
<1> HIDE DEF s
<1>5. \A n \in Modules : /\ chanCb'[n] = IF n = m THEN s ELSE chanCb[n]
                         /\ execution'[n] = IF n = m THEN 0 ELSE execution[n]
  BY <1>0, <1>4 DEF TypeOK
<1>6. \A j \in 1 .. Len(ops) : j \in Ids  BY OpsIs
<1>7. \A j, K : Is(j, K) /\ "linear" \notin K => ran'[j] = ran[j]
  <2> SUFFICES ASSUME NEW j, NEW K, Is(j, K), "linear" \notin K  PROVE ran'[j] = ran[j]
    OBVIOUS
  <2>1. j \in Ids /\ j # i  BY <1>1, <1>6 DEF Is
  <2> QED  BY <2>1, <1>2
<1>8. TypeOK'
  <2>1. execution' \in [Modules -> Ids \cup {0}]  BY <1>0 DEF TypeOK
  <2>2. chanCb' \in [Modules -> Seq(Ids)]  BY <1>3, <1>4 DEF TypeOK
  <2> QED  BY <1>0, <1>2, <2>1, <2>2 DEF TypeOK
<1>9. OpsInv'
  <2>1. \A j \in Ids : j > Len(ops) => j # i  BY <1>1, OpsIs
  <2>2. \A j \in Ids : j > Len(ops) => ran'[j] = 0  BY <2>1, <1>2 DEF OpsInv
  <2>3. \A j \in 1 .. Len(ops) : /\ ops[j].kind # "cron" => ran'[j] <= 1
                                 /\ got[j] # <<>> => (got[j] = <<"ran">> <=> ran'[j] = 1)
    BY <1>1, <1>2, <1>6 DEF OpsInv
  <2> QED  BY <2>2, <2>3, <1>0 DEF OpsInv
<1>10. RpcInv'  BY <1>0, <1>7, StillGrows, RpcFrame
<1>11. Counts'  BY <1>0, StillGrows, CountsFrame
<1>12. TimerInv'  BY <1>0, <1>7, StillGrows, TimerFrame
<1>13. \A j, K, n : By(j, K, n)' <=> By(j, K, n)  BY <1>0 DEF By, Is
<1>14. \A j, n : Unrun(j, {"go"}, n) => Unrun(j, {"go"}, n)'
  BY <1>0, <1>7, <1>13 DEF Unrun, By
<1>15. \A j, n : Unrun(j, {"linear"}, n) /\ j # i => Unrun(j, {"linear"}, n)'
  <2>1. \A j, n : Unrun(j, {"linear"}, n) => j \in Ids  BY <1>6 DEF Unrun, By, Is
  <2> QED  BY <2>1, <1>0, <1>2, <1>13 DEF Unrun
<1>16. ASSUME NEW n \in Modules  PROVE GoPlaced(n)'
  <2>1. GoPlaced(n)  BY DEF GoInv
  <2>2. \A j \in Elems(linearGo[n]) : Unrun(j, {"linear"}, n)' /\ j # execution'[n]
    <3> SUFFICES ASSUME NEW j \in Elems(linearGo[n])
                 PROVE  Unrun(j, {"linear"}, n)' /\ j # execution'[n]
      OBVIOUS
    <3>1. Unrun(j, {"linear"}, n) /\ j # execution[n]  BY <2>1 DEF GoPlaced
    <3>2. j # i  BY <3>1, <1>a, <1>1 DEF Unrun, By
    <3>3. j # 0  BY <3>1, OpsIs DEF Unrun, By, Is
    <3> QED  BY <3>1, <3>2, <3>3, <1>5, <1>15
  <2>3. i \notin Elems(chanCb[n])  BY <2>1, <1>1 DEF GoPlaced
  <2>4. \A j \in Elems(chanCb[n]) : By(j, {"go", "linear"}, n) /\ got[j] = <<>> /\ ran'[j] = 1
    <3> SUFFICES ASSUME NEW j \in Elems(chanCb[n])
                 PROVE  By(j, {"go", "linear"}, n) /\ got[j] = <<>> /\ ran'[j] = 1
      OBVIOUS
    <3>1. By(j, {"go", "linear"}, n) /\ got[j] = <<>> /\ ran[j] = 1 /\ j # i
      BY <2>1, <2>3 DEF GoPlaced
    <3>2. j \in Ids  BY <3>1, <1>6 DEF By, Is
    <3> QED  BY <3>1, <3>2, <1>2
  <2>5. By(i, {"go", "linear"}, m)  BY <1>1 DEF By, Is
  <2>6. \A j \in Elems(chanCb'[n]) : By(j, {"go", "linear"}, n) /\ got[j] = <<>> /\ ran'[j] = 1
    BY <2>4, <2>5, <1>1, <1>2, <1>3, <1>5
  <2>7. Distinct(chanCb'[n])  BY <2>1, <2>3, <1>3, <1>5 DEF GoPlaced
  <2>8. (cur[n][1] = "go" => By(cur[n][2], {"go", "linear"}, n) /\ got[cur[n][2]] # <<>>)'
    BY <2>1, <1>0 DEF GoPlaced, By, Is
  <2>9. (execution[n] # 0 => Unrun(execution[n], {"linear"}, n))'
    <3>1. CASE n = m  BY <3>1, <1>5
    <3>2. CASE n # m
      <4>1. PICK c : c = execution[n]  OBVIOUS
      <4>2. c # 0 => Unrun(c, {"linear"}, n) /\ c # i
        BY <2>1, <3>2, <4>1, <1>1 DEF GoPlaced, Unrun, By
      <4>3. c # 0 => Unrun(c, {"linear"}, n)'  BY <4>2, <1>15
      <4>4. execution'[n] = c  BY <3>2, <4>1, <1>5
      <4> QED  BY <4>3, <4>4 DEF Unrun, By, Is
    <3> QED  BY <3>1, <3>2
  <2>10. \A j \in running[n] : Unrun(j, {"go"}, n)'  BY <2>1, <1>14 DEF GoPlaced
  <2> QED  BY <2>1, <2>2, <2>6, <2>7, <2>8, <2>9, <2>10, <1>0, <1>13 DEF GoPlaced
<1>17. ASSUME NEW n \in Modules  PROVE Linear(n)'
  <2>1. Linear(n)  BY DEF GoInv
  <2>2. \A j : By(j, {"linear"}, n) => j # 0  BY OpsIs DEF By, Is
  <2>3. \A j, l : Before(chanCb[n], j, l) => Before(chanCb'[n], j, l)  BY <1>3, <1>5
  <2>4. ASSUME NEW j \in 1 .. Len(ops), By(j, {"linear"}, n)  PROVE Somewhere(n, j)'
    BY <2>1, <2>4, <1>a, <1>0, <1>3, <1>5 DEF Linear, Somewhere
  <2>5. ASSUME NEW j \in 1 .. Len(ops), NEW l \in 1 .. Len(ops),
               By(j, {"linear"}, n), By(l, {"linear"}, n), j < l
        PROVE  Behind(n, j, l)'
    <3>1. Behind(n, j, l)  BY <2>1, <2>5 DEF Linear
    <3>2. CASE n # m  BY <3>1, <3>2, <1>0, <1>5 DEF Behind
    <3>3. CASE n = m
      <4>1. chanCb'[m] = s /\ execution'[m] = 0  BY <1>5
      <4>2. j # 0  BY <2>2, <2>5
      <4>3. j \in Elems(s) => l \in Elems(linearGo[m]) \/ Before(s, j, l)
        BY <3>1, <3>3, <1>a, <1>3 DEF Behind
      <4> QED  BY <3>1, <3>3, <4>1, <4>2, <4>3, <1>0 DEF Behind
    <3> QED  BY <3>2, <3>3
  <2> QED  BY <2>4, <2>5, <1>0, <1>13 DEF Linear
<1> QED  BY <1>8, <1>9, <1>10, <1>11, <1>12, <1>16, <1>17 DEF GoInv

LEMMA GoCbKeeps ==
  ASSUME IInv, NEW m \in Modules, GoCb(m)
  PROVE  IInv'
<1> USE DEF IInv
<1>a. PICK i, s : i = Head(chanCb[m]) /\ s = Tail(chanCb[m])  OBVIOUS
<1>0. /\ UNCHANGED <<ops, loop, sync, chanCall, closed, chanSyncRet, chanAsynRet,
                     pendingAsynCall, running, linearGo, execution, pendingGo, timers, cb,
                     chanTimer, main, closeSig, ran>>
      /\ chanCb' = [chanCb EXCEPT ![m] = s] /\ chanCb[m] # <<>>
      /\ st[m] = "idle" /\ loop[m] # "done" /\ Got(i, "ran") /\ Execute(m, "go", i)
  BY <1>a DEF GoCb, Idle, tms, destroy
<1>1. /\ s \in Seq(Ids) /\ i \in Ids /\ i \in Elems(chanCb[m])
      /\ Elems(chanCb[m]) = Elems(s) \cup {i} /\ Distinct(s) /\ i \notin Elems(s)
      /\ \A x : ~Before(chanCb[m], x, i)
      /\ \A x, y : Before(chanCb[m], x, y) /\ x # i => Before(s, x, y)
  <2>1. chanCb[m] \in Seq(Ids) /\ Distinct(chanCb[m])  BY DEF TypeOK, GoInv, GoPlaced
  <2> QED  BY <2>1, <1>0, <1>a, TailIs
<1>2. By(i, {"go", "linear"}, m) /\ got[i] = <<>> /\ ran[i] = 1
  BY <1>1 DEF GoInv, GoPlaced
<1>3. i \in 1 .. Len(ops) /\ ops[i].kind \in {"go", "linear"} /\ ops[i].by = m /\ i \in Nat
  BY <1>2, OpsIs DEF By, Is
<1>4. /\ got' \in [Ids -> {<<>>} \cup {<<x>> : x \in Results}]
      /\ got'[i] = <<"ran">> /\ \A j \in Ids : j # i => got'[j] = got[j]
  BY <1>0, <1>1, <1>2, GotIs, OneIs
<1>5. /\ cur' \in [Modules -> {"none", "call", "go", "cb", "timer"} \X Nat]
      /\ cur'[m] = <<"go", i>> /\ cur'[m][1] = "go" /\ cur'[m][2] = i
      /\ \A n \in Modules : n # m => cur'[n] = cur[n]
  <2>1. cur \in [Modules -> {"none", "call", "go", "cb", "timer"} \X Nat]  BY DEF TypeOK
  <2> QED  BY <2>1, <1>0, <1>3, ExecuteIs
<1>6. /\ st' \in [Procs -> {"idle", "busy", "send", "wait"}] /\ m \in Procs
      /\ \A p \in Procs : st'[p] = IF p = m THEN "busy" ELSE st[p]
  BY <1>0, OpsIs DEF Execute, TypeOK
<1>7. cur[m] = None /\ cur[m][1] = "none"  BY <1>0, NoneIs DEF OpsInv
<1>8. \A n \in Modules : chanCb'[n] = IF n = m THEN s ELSE chanCb[n]  BY <1>0 DEF TypeOK
<1>9. \A j \in 1 .. Len(ops) : j \in Ids  BY OpsIs
<1>10. \A j, K : Is(j, K) /\ "go" \notin K /\ "linear" \notin K => got'[j] = got[j]
  <2> SUFFICES ASSUME NEW j, NEW K, Is(j, K), "go" \notin K, "linear" \notin K
               PROVE  got'[j] = got[j]
    OBVIOUS
  <2>1. j \in Ids /\ j # i  BY <1>3, <1>9 DEF Is
  <2> QED  BY <2>1, <1>4
<1>11. TypeOK'
  <2>1. chanCb' \in [Modules -> Seq(Ids)]  BY <1>0, <1>1 DEF TypeOK
  <2> QED  BY <1>0, <1>4, <1>5, <1>6, <2>1 DEF TypeOK
<1>12. OpsInv'
  <2>1. \A j \in Ids : j > Len(ops) => j # i  BY <1>3, OpsIs
  <2>2. \A j \in Ids : j > Len(ops) => got'[j] = <<>>  BY <2>1, <1>4 DEF OpsInv
  <2>3. \A j \in 1 .. Len(ops) : got'[j] # <<>> => (got'[j] = <<"ran">> <=> ran[j] = 1)
    BY <1>2, <1>4, <1>9 DEF OpsInv
  <2>4. \A n \in Modules : st'[n] = "idle" => cur'[n] = None
    BY <1>5, <1>6, OpsIs DEF OpsInv
  <2> QED  BY <2>2, <2>3, <2>4, <1>0 DEF OpsInv
<1>13. RpcInv'
  <2>1. \A p \in Procs : (st'[p] = "send" <=> st[p] = "send") /\ (st'[p] = "wait" <=> st[p] = "wait")
    BY <1>0, <1>6
  <2>2. \A n \in Modules : cur'[n][1] = "call" => cur'[n] = cur[n]  BY <1>5
  <2> QED  BY <2>1, <2>2, <1>0, <1>10, StillGrows, RpcFrame
<1>14. TimerInv'  BY <1>0, <1>10, StillGrows, TimerFrame
<1>15. \A j, K, n : By(j, K, n)' <=> By(j, K, n)  BY <1>0 DEF By, Is
<1>16. Counts'
  <2>1. ASSUME NEW n \in Modules  PROVE Outstanding(n)' = Outstanding(n)
    <3>1. \A j : By(j, {"AsynCall"}, n) => got'[j] = got[j]  BY <1>10 DEF By
    <3> QED  BY <3>1, <1>0, <1>15 DEF Outstanding
  <2>2. ASSUME NEW n \in Modules, NEW j \in 1 .. Len(ops), By(j, {"go", "linear"}, n)
        PROVE  (got'[j] = <<>> \/ cur'[n] = <<"go", j>>) <=> (got[j] = <<>> \/ cur[n] = <<"go", j>>)
    <3>1. CASE j = i
      <4>1. n = m  BY <2>2, <3>1, <1>3 DEF By
      <4> QED  BY <3>1, <4>1, <1>2, <1>5
    <3>2. CASE j # i
      <4>1. got'[j] = got[j]  BY <3>2, <1>4, <1>9
      <4>2. n = m => cur'[n] # <<"go", j>> /\ cur[n] # <<"go", j>>
        <5>1. <<"go", j>>[1] = "go" /\ <<"go", j>>[2] = j  OBVIOUS
        <5> QED  BY <5>1, <3>2, <1>5, <1>7
      <4>3. n # m => cur'[n] = cur[n]  BY <1>5
      <4> QED  BY <4>1, <4>2, <4>3
    <3> QED  BY <3>1, <3>2
  <2>3. \A n \in Modules : Unfinished(n)' = Unfinished(n)  BY <2>2, <1>0, <1>15 DEF Unfinished
  <2>4. \A n \in Modules : loop[n] = "done" => st'[n] = "idle"  BY <1>0, <1>6, OpsIs DEF Counts
  <2> QED  BY <2>1, <2>3, <2>4, <1>0 DEF Counts
<1>17. \A j, K, n : Unrun(j, K, n) => Unrun(j, K, n)'
  <2>1. \A j, K, n : Unrun(j, K, n) => j \in Ids /\ j # i  BY <1>2, <1>9 DEF Unrun, By, Is
  <2> QED  BY <2>1, <1>0, <1>4, <1>15 DEF Unrun
<1>18. ASSUME NEW n \in Modules  PROVE GoPlaced(n)'
  <2>1. GoPlaced(n)  BY DEF GoInv
  <2>2. \A j \in Elems(chanCb'[n]) : j \in Elems(chanCb[n]) /\ j # i
    <3>1. n # m => i \notin Elems(chanCb[n])  BY <2>1, <1>3 DEF GoPlaced, By
    <3> QED  BY <3>1, <1>1, <1>8
  <2>3. \A j \in Elems(chanCb'[n]) : By(j, {"go", "linear"}, n) /\ got'[j] = <<>> /\ ran[j] = 1
    <3> SUFFICES ASSUME NEW j \in Elems(chanCb'[n])
                 PROVE  By(j, {"go", "linear"}, n) /\ got'[j] = <<>> /\ ran[j] = 1
      OBVIOUS
    <3>1. By(j, {"go", "linear"}, n) /\ got[j] = <<>> /\ ran[j] = 1 /\ j # i
      BY <2>1, <2>2 DEF GoPlaced
    <3>2. j \in Ids  BY <3>1, <1>9 DEF By, Is
    <3> QED  BY <3>1, <3>2, <1>4
  <2>4. Distinct(chanCb'[n])  BY <2>1, <1>1, <1>8 DEF GoPlaced
  <2>5. (cur[n][1] = "go" => By(cur[n][2], {"go", "linear"}, n) /\ got[cur[n][2]] # <<>>)'
    <3>1. <<>> # <<"ran">>  BY OneIs
    <3>2. CASE n = m
      <4>1. By(i, {"go", "linear"}, n)' /\ got'[i] # <<>>  BY <3>1, <3>2, <1>2, <1>4, <1>15
      <4> QED  BY <3>2, <4>1, <1>5 DEF By, Is
    <3>3. CASE n # m
      <4>1. PICK c : c = cur[n][2]  OBVIOUS
      <4>2. cur[n][1] = "go" => By(c, {"go", "linear"}, n) /\ got[c] # <<>>
        BY <2>1, <4>1 DEF GoPlaced
      <4>3. cur[n][1] = "go" => c \in Ids  BY <4>2, <1>9 DEF By, Is
      <4>4. cur[n][1] = "go" => By(c, {"go", "linear"}, n)' /\ got'[c] # <<>>
        BY <3>1, <4>2, <4>3, <1>4, <1>15
      <4> QED  BY <3>3, <4>1, <4>4, <1>5 DEF By, Is
    <3> QED  BY <3>2, <3>3
  <2>6. (execution[n] # 0 => Unrun(execution[n], {"linear"}, n))'
    <3>1. PICK c : c = execution[n]  OBVIOUS
    <3>2. c # 0 => Unrun(c, {"linear"}, n)'  BY <2>1, <3>1, <1>17 DEF GoPlaced
    <3> QED  BY <3>1, <3>2, <1>0 DEF Unrun, By, Is
  <2> QED  BY <2>1, <2>3, <2>4, <2>5, <2>6, <1>0, <1>15, <1>17 DEF GoPlaced
<1>19. ASSUME NEW n \in Modules  PROVE Linear(n)'
  <2>1. Linear(n)  BY DEF GoInv
  <2>2. ASSUME NEW j \in 1 .. Len(ops), By(j, {"linear"}, n)  PROVE Somewhere(n, j)'
    <3>1. Somewhere(n, j)  BY <2>1, <2>2 DEF Linear
    <3>2. CASE j = i
      <4>1. <<>> # <<"ran">>  BY OneIs
      <4> QED  BY <3>2, <4>1, <1>4 DEF Somewhere
    <3>3. CASE j # i
      <4>1. got'[j] = got[j]  BY <3>3, <1>4, <1>9
      <4>2. j \in Elems(chanCb[n]) => j \in Elems(chanCb'[n])  BY <3>3, <1>1, <1>8
      <4> QED  BY <3>1, <4>1, <4>2, <1>0 DEF Somewhere
    <3> QED  BY <3>2, <3>3
  <2>3. ASSUME NEW j \in 1 .. Len(ops), NEW l \in 1 .. Len(ops),
               By(j, {"linear"}, n), By(l, {"linear"}, n), j < l
        PROVE  Behind(n, j, l)'
    <3>1. Behind(n, j, l)  BY <2>1, <2>3 DEF Linear
    <3>2. j \in Elems(chanCb'[n]) => j \in Elems(chanCb[n]) /\ (n = m => j # i)
      BY <1>1, <1>8
    <3>3. Before(chanCb[n], j, l) /\ (n = m => j # i) => Before(chanCb'[n], j, l)
      BY <1>1, <1>8
    <3> QED  BY <3>1, <3>2, <3>3, <1>0 DEF Behind
  <2> QED  BY <2>2, <2>3, <1>0, <1>15 DEF Linear
<1> QED  BY <1>11, <1>12, <1>13, <1>14, <1>16, <1>18, <1>19 DEF GoInv

-----------------------------------------------------------------------------
\* The answer to the call i of the server m: it reaches the caller's channel,
\* and is the only one there for i.
LEMMA RetIs ==
  ASSUME TypeOK, OpsInv, RpcInv, NEW i, NEW m \in Modules, Open(i, m), NEW r \in Results,
         IF r = "ran" THEN ran[i] = 1 ELSE ran[i] = 0,
         Ret(i, r), UNCHANGED <<ops, got, ran, sync>>,
         \A p \in Procs : st[p] = "wait" => st'[p] = "wait"
  PROVE  /\ chanSyncRet' \in [Procs -> Seq(Ids \X Results)]
         /\ chanAsynRet' \in [Modules -> Seq(Ids \X Results)]
         /\ \A p \in Procs : Returned(p)'
         /\ \A n \in Modules : CalledBack(n)'
         /\ \A j, n : Open(j, n) /\ j # i => Open(j, n)'
<1>1. PICK p : p = ops[i].by  OBVIOUS
<1>2. /\ i \in 1 .. Len(ops) /\ i \in Ids /\ p \in Procs /\ got[i] = <<>> /\ ~Answered(i)
      /\ ops[i].kind \in {"Go", "Call", "AsynCall"}
      /\ ops[i].kind = "AsynCall" => p \in Modules
      /\ ops[i].kind = "Call" => st'[p] = "wait" /\ sync[p] = i
  BY <1>1, OpsIs DEF Open, Is, OpsInv, Kinds
<1> DEFINE x == <<i, r>>
           T == Ids \X Results
<1>3. x \in T /\ x[1] = i /\ x[2] = r  BY <1>2
<1>4. chanSyncRet \in [Procs -> Seq(T)] /\ chanAsynRet \in [Modules -> Seq(T)]  BY DEF TypeOK
<1> HIDE DEF x, T
<1>5. \/ ops[i].kind = "Go" /\ chanSyncRet' = chanSyncRet /\ chanAsynRet' = chanAsynRet
      \/ /\ ops[i].kind = "Call" /\ Len(chanSyncRet[p]) < 1 /\ chanAsynRet' = chanAsynRet
         /\ chanSyncRet' = [chanSyncRet EXCEPT ![p] = Append(@, x)]
      \/ /\ ops[i].kind = "AsynCall" /\ chanSyncRet' = chanSyncRet
         /\ chanAsynRet' = [chanAsynRet EXCEPT ![p] = Append(@, x)]
  BY <1>1, <1>2 DEF Ret, RetRoom, ChanRet, x
<1>6. \A j, K : Is(j, K)' <=> Is(j, K)  BY DEF Is
<1>7. \A j, K, q : By(j, K, q)' <=> By(j, K, q)  BY DEF By, Is
<1>8. \A y : Told(y)' <=> Told(y)  BY DEF Told
<1>9. Told(x)  BY <1>3 DEF Told
<1>10. \A q \in Procs : \A y \in Elems(chanSyncRet[q]) :
         /\ By(y[1], {"Call"}, q)' /\ got'[y[1]] = <<>> /\ Told(y)'
         /\ st'[q] = "wait" /\ sync'[q] = y[1]
  BY <1>7, <1>8 DEF RpcInv, Returned
<1>11. \A n \in Modules : \A y \in Elems(chanAsynRet[n]) :
         By(y[1], {"AsynCall"}, n)' /\ got'[y[1]] = <<>> /\ Told(y)'
  BY <1>7, <1>8 DEF RpcInv, CalledBack
<1>12. ASSUME NEW j, NEW n, Open(j, n), j # i,
              \A y \in Elems(ChanRet(j)') : y \in Elems(ChanRet(j)) \/ y = x
       PROVE  Open(j, n)'
  <2>1. ~Answered(j)'  BY <1>3, <1>12 DEF Open, Answered
  <2>2. ops[j].by \in Procs  BY <1>12, OpsIs DEF Open, Is
  <2> QED  BY <2>1, <2>2, <1>6, <1>12 DEF Open
<1>13. CASE ops[i].kind = "Go"
  <2>1. chanSyncRet' = chanSyncRet /\ chanAsynRet' = chanAsynRet  BY <1>5, <1>13
  <2>2. \A q \in Procs : Returned(q)'  BY <2>1, <1>10 DEF RpcInv, Returned
  <2>3. \A n \in Modules : CalledBack(n)'  BY <2>1, <1>11 DEF RpcInv, CalledBack
  <2>4. \A j : Elems(ChanRet(j)') = Elems(ChanRet(j))  BY <2>1 DEF ChanRet
  <2> QED  BY <2>1, <2>2, <2>3, <2>4, <1>4, <1>12 DEF T
<1>14. CASE ops[i].kind = "Call"
  <2> DEFINE s == Append(chanSyncRet[p], x)
  <2>1. /\ s \in Seq(T) /\ Len(s) = Len(chanSyncRet[p]) + 1
        /\ Elems(s) = Elems(chanSyncRet[p]) \cup {x} /\ Len(chanSyncRet[p]) \in Nat
    <3>1. chanSyncRet[p] \in Seq(T)  BY <1>2, <1>4
    <3> QED  BY <3>1, <1>3, AppendIs
  <2>2. /\ chanAsynRet' = chanAsynRet /\ Len(chanSyncRet[p]) < 1
        /\ chanSyncRet' = [chanSyncRet EXCEPT ![p] = s]
    BY <1>5, <1>14
  <2> HIDE DEF s
  <2>3. Len(s) <= 1  BY <2>1, <2>2
  <2>4. \A q \in Procs : chanSyncRet'[q] = IF q = p THEN s ELSE chanSyncRet[q]  BY <2>2, <1>4
  <2>5. By(x[1], {"Call"}, p)' /\ got'[x[1]] = <<>> /\ Told(x)' /\ st'[p] = "wait" /\ sync'[p] = x[1]
    <3>1. By(i, {"Call"}, p)  BY <1>1, <1>2, <1>14 DEF By, Is
    <3> QED  BY <3>1, <1>2, <1>3, <1>7, <1>8, <1>9, <1>14
  <2>6. ASSUME NEW q \in Procs  PROVE Returned(q)'
    <3>1. Len(chanSyncRet'[q]) <= 1  BY <2>3, <2>4 DEF RpcInv, Returned
    <3>2. \A y \in Elems(chanSyncRet'[q]) :
            /\ By(y[1], {"Call"}, q)' /\ got'[y[1]] = <<>> /\ Told(y)'
            /\ st'[q] = "wait" /\ sync'[q] = y[1]
      BY <2>1, <2>4, <2>5, <1>10
    <3> QED  BY <3>1, <3>2 DEF Returned
  <2>7. \A n \in Modules : CalledBack(n)'  BY <2>2, <1>11 DEF RpcInv, CalledBack
  <2>8. \A j, n : Open(j, n) => \A y \in Elems(ChanRet(j)') : y \in Elems(ChanRet(j)) \/ y = x
    <3>1. \A j, n : Open(j, n) => ops[j].by \in Procs  BY OpsIs DEF Open, Is
    <3> QED  BY <3>1, <2>1, <2>2, <2>4 DEF ChanRet
  <2>9. chanSyncRet' \in [Procs -> Seq(T)]  BY <2>1, <2>2, <1>4
  <2> QED  BY <2>2, <2>6, <2>7, <2>8, <2>9, <1>4, <1>12 DEF T
<1>15. CASE ops[i].kind = "AsynCall"
  <2>0. PICK n0, a : n0 \in Nat /\ n0 = Len(a) /\ a = chanAsynRet[p] /\ a \in Seq(T)
    <3>1. chanAsynRet[p] \in Seq(T)  BY <1>2, <1>4, <1>15, Zenon
    <3>2. \A a \in Seq(T) : Len(a) \in Nat  OBVIOUS
    <3> QED  BY <3>1, <3>2, Zenon
  <2> DEFINE s == Append(a, x)
  <2>1. /\ s \in Seq(T) /\ Elems(s) = Elems(a) \cup {x}
        /\ DOMAIN s = 1 .. n0 + 1 /\ s[n0 + 1] = x /\ DOMAIN a = 1 .. n0
        /\ \A l \in 1 .. n0 : s[l] = a[l]
    BY <2>0, <1>3, AppendIs
  <2>2. /\ chanSyncRet' = chanSyncRet /\ chanAsynRet' = [chanAsynRet EXCEPT ![p] = s]
    BY <2>0, <1>5, <1>15
  <2> HIDE DEF s
  <2>4. \A q \in Modules : chanAsynRet'[q] = IF q = p THEN s ELSE chanAsynRet[q]  BY <2>2, <1>4
  <2>5. By(x[1], {"AsynCall"}, p)' /\ got'[x[1]] = <<>> /\ Told(x)'
    <3>1. By(i, {"AsynCall"}, p)  BY <1>1, <1>2, <1>15 DEF By, Is
    <3> QED  BY <3>1, <1>2, <1>3, <1>7, <1>8, <1>9
  <2>6. \A l \in 1 .. n0 : a[l][1] # i
    <3>1. \A y \in Elems(a) : y[1] # i  BY <2>0, <1>1, <1>2, <1>15 DEF Answered, ChanRet
    <3> QED  BY <3>1, <2>1 DEF Elems
  <2>7. \A k, l \in DOMAIN s : s[k][1] = s[l][1] => k = l
    <3>1. \A k, l \in DOMAIN a : a[k][1] = a[l][1] => k = l
      BY <2>0, <1>2, <1>15 DEF RpcInv, CalledBack
    <3>2. \A k \in DOMAIN s : k \in DOMAIN a \/ k = n0 + 1  BY <2>0, <2>1
    <3>3. s[n0 + 1][1] = i /\ \A k \in DOMAIN a : s[k][1] # i /\ s[k] = a[k]
      BY <2>1, <2>6, <1>3
    <3> SUFFICES ASSUME NEW k \in DOMAIN s, NEW l \in DOMAIN s, s[k][1] = s[l][1]
                 PROVE  k = l
      OBVIOUS
    <3>4. CASE k \in DOMAIN a /\ l \in DOMAIN a  BY <3>1, <3>3, <3>4
    <3>5. CASE ~(k \in DOMAIN a /\ l \in DOMAIN a)  BY <3>2, <3>3, <3>5
    <3> QED  BY <3>4, <3>5
  <2>8. ASSUME NEW n \in Modules  PROVE CalledBack(n)'
    <3>1. CASE n = p
      <4>1. \A y \in Elems(s) : By(y[1], {"AsynCall"}, n)' /\ got'[y[1]] = <<>> /\ Told(y)'
        BY <2>0, <2>1, <2>5, <3>1, <1>11
      <4> QED  BY <4>1, <2>4, <2>7, <3>1 DEF CalledBack
    <3>2. CASE n # p
      <4>1. chanAsynRet'[n] = chanAsynRet[n]  BY <2>4, <3>2
      <4> QED  BY <4>1, <1>11 DEF RpcInv, CalledBack
    <3> QED  BY <3>1, <3>2
  <2>9. \A q \in Procs : Returned(q)'  BY <2>2, <1>10 DEF RpcInv, Returned
  <2>10. \A j, n : Open(j, n) => \A y \in Elems(ChanRet(j)') : y \in Elems(ChanRet(j)) \/ y = x
    <3>1. \A j, n : Open(j, n) => (ops[j].kind = "AsynCall" => ops[j].by \in Modules)
      BY DEF Open, Is, OpsInv, Kinds
    <3> QED  BY <3>1, <2>0, <2>1, <2>2, <2>4 DEF ChanRet
  <2>11. chanAsynRet' \in [Modules -> Seq(T)]  BY <2>1, <2>2, <1>4
  <2> QED  BY <2>2, <2>8, <2>9, <2>10, <2>11, <1>4, <1>12 DEF T
<1> QED  BY <1>2, <1>13, <1>14, <1>15

LEMMA DrainKeeps ==
  ASSUME IInv, NEW m \in Modules, Drain(m)
  PROVE  IInv'
<1> USE DEF IInv
<1>0. /\ UNCHANGED <<ops, st, cur, sync, closed, pendingAsynCall, got, running, linearGo,
                     execution, chanCb, pendingGo, timers, cb, chanTimer, main, closeSig, ran>>
      /\ loop[m] = "server.Close"
      /\ loop' = loop \/ loop' = [loop EXCEPT ![m] = "g.Close"]
  BY DEF Drain, Idle, gos, tms, destroy
<1>1. loop' \in [Modules -> Places] /\ \A n \in Modules : loop'[n] = "done" => loop[n] = "done"
  BY <1>0 DEF TypeOK, Places
<1>2. OpsInv'  BY <1>0 DEF OpsInv
<1>3. Counts'  BY <1>0, <1>1, StillGrows, CountsFrame
<1>4. GoInv'  BY <1>0, StillGrows, GoFrame
<1>5. TimerInv'  BY <1>0, StillGrows, TimerFrame
<1>6. CASE UNCHANGED <<chanSyncRet, chanAsynRet, chanCall>>
  <2>1. TypeOK'  BY <1>0, <1>1, <1>6 DEF TypeOK
  <2>2. RpcInv'  BY <1>0, <1>6, StillGrows, RpcFrame
  <2> QED  BY <2>1, <2>2, <1>2, <1>3, <1>4, <1>5
<1>7. CASE /\ chanCall[m] # <<>> /\ Ret(Head(chanCall[m]), "closed")
           /\ chanCall' = [chanCall EXCEPT ![m] = Tail(@)]
  <2>0. PICK i, s : i = Head(chanCall[m]) /\ s = Tail(chanCall[m])  OBVIOUS
  <2>1. /\ s \in Seq(Ids) /\ i \in Elems(chanCall[m]) /\ Elems(s) \subseteq Elems(chanCall[m])
        /\ Distinct(s) /\ i \notin Elems(s)
    <3>1. chanCall[m] \in Seq(Ids) /\ Distinct(chanCall[m])  BY DEF TypeOK, RpcInv, Served
    <3> QED  BY <3>1, <2>0, <1>7, TailIs
  <2>2. chanCall' = [chanCall EXCEPT ![m] = s] /\ Ret(i, "closed")  BY <2>0, <1>7
  <2>3. Open(i, m) /\ ran[i] = 0  BY <2>1 DEF RpcInv, Served
  <2>4. /\ chanSyncRet' \in [Procs -> Seq(Ids \X Results)]
        /\ chanAsynRet' \in [Modules -> Seq(Ids \X Results)]
        /\ \A p \in Procs : Returned(p)'
        /\ \A n \in Modules : CalledBack(n)'
        /\ \A j, n : Open(j, n) /\ j # i => Open(j, n)'
    BY <2>2, <2>3, <1>0, OneIs, RetIs
  <2>5. \A n \in Modules : chanCall'[n] = IF n = m THEN s ELSE chanCall[n]
    BY <2>2 DEF TypeOK
  <2>6. TypeOK'
    <3>1. chanCall' \in [Modules -> Seq(Ids)]  BY <2>1, <2>2 DEF TypeOK
    <3> QED  BY <3>1, <2>4, <1>0, <1>1 DEF TypeOK
  <2>7. ASSUME NEW p \in Procs  PROVE Sent(p)'
    <3>1. Sent(p)  BY DEF RpcInv
    <3>2. st[p] = "send" => sync[p] \notin Elems(chanCall'[ops[sync[p]].to])
      <4>1. st[p] = "send" => ops[sync[p]].to \in Modules  BY <3>1, OpsIs DEF Sent, By, Is
      <4> QED  BY <3>1, <4>1, <2>1, <2>5 DEF Sent
    <3> QED  BY <3>1, <3>2, <1>0 DEF Sent, By, Is
  <2>8. ASSUME NEW n \in Modules  PROVE Served(n)'
    <3>1. Served(n)  BY DEF RpcInv
    <3>2. \A j \in Elems(chanCall'[n]) : Open(j, n) /\ ran[j] = 0 /\ j # i
      <4>1. n # m => i \notin Elems(chanCall[n])  BY <3>1, <2>3 DEF Served, Open
      <4> QED  BY <3>1, <4>1, <2>1, <2>5 DEF Served
    <3>3. cur[n][1] = "call" => Open(cur[n][2], n)' /\ ran[cur[n][2]] = 1
      <4> SUFFICES ASSUME cur[n][1] = "call"
                   PROVE  Open(cur[n][2], n)' /\ ran[cur[n][2]] = 1
        OBVIOUS
      <4>1. PICK c : c = cur[n][2]  OBVIOUS
      <4>2. Open(c, n) /\ ran[c] = 1 /\ c # i  BY <3>1, <4>1, <2>3 DEF Served
      <4>3. Open(c, n)'  BY <4>2, <2>4
      <4>4. cur'[n][2] = c  BY <4>1, <1>0
      <4> QED  BY <4>1, <4>2, <4>3, <4>4, <1>0, ZenonT(60) DEF Open, Answered, ChanRet, Is
    <3>4. Distinct(chanCall'[n])  BY <3>1, <2>1, <2>5 DEF Served
    <3>5. \A j \in Elems(chanCall'[n]) : Open(j, n)'  BY <3>2, <2>4
    <3> QED  BY <3>2, <3>3, <3>4, <3>5, <1>0 DEF Served
  <2> QED  BY <2>4, <2>6, <2>7, <2>8, <1>2, <1>3, <1>4, <1>5 DEF RpcInv
<1> QED  BY <1>6, <1>7 DEF Drain

LEMMA FinishKeeps ==
  ASSUME IInv, NEW m \in Modules, Finish(m)
  PROVE  IInv'
<1> USE DEF IInv
<1>0. /\ UNCHANGED <<ops, loop, sync, chanCall, closed, pendingAsynCall, got, running,
                     linearGo, execution, chanCb, timers, cb, chanTimer, main, closeSig, ran>>
      /\ st' = [st EXCEPT ![m] = "idle"] /\ cur' = [cur EXCEPT ![m] = None] /\ st[m] = "busy"
  BY DEF Finish, tms, destroy
<1>1. /\ st' \in [Procs -> {"idle", "busy", "send", "wait"}] /\ m \in Procs
      /\ \A p \in Procs : st'[p] = IF p = m THEN "idle" ELSE st[p]
  BY <1>0, OpsIs DEF TypeOK
<1>2. /\ cur' \in [Modules -> {"none", "call", "go", "cb", "timer"} \X Nat]
      /\ cur'[m] = None /\ cur'[m][1] = "none" /\ \A n \in Modules : n # m => cur'[n] = cur[n]
  <2> DEFINE T == {"none", "call", "go", "cb", "timer"} \X Nat
  <2>1. cur \in [Modules -> T] /\ None \in T  BY NoneIs DEF TypeOK
  <2> HIDE DEF T
  <2>2. cur' \in [Modules -> T] /\ cur'[m] = None /\ \A n \in Modules : n # m => cur'[n] = cur[n]
    BY <2>1, <1>0
  <2> QED  BY <2>2, NoneIs DEF T
<1>3. OpsInv'
  <2>1. \A n \in Modules : st'[n] = "idle" => cur'[n] = None  BY <1>1, <1>2, OpsIs DEF OpsInv
  <2> QED  BY <2>1, <1>0, OpsFrame
<1>4. GoInv'
  <2>1. \A n \in Modules : cur'[n][1] = "go" => cur'[n] = cur[n]  BY <1>2
  <2> QED  BY <2>1, <1>0, StillGrows, GoFrame
<1>5. TimerInv'  BY <1>0, StillGrows, TimerFrame
<1>6. \A p \in Procs : (st'[p] = "send" <=> st[p] = "send") /\ (st'[p] = "wait" <=> st[p] = "wait")
  BY <1>0, <1>1
<1>7. \A n \in Modules : loop'[n] = "done" => loop[n] = "done" /\ (st[n] = "idle" => st'[n] = "idle")
  BY <1>0, <1>1, OpsIs
<1>8. \A n \in Modules : cur'[n][1] = "go" => cur'[n] = cur[n]  BY <1>2
<1>9. CASE cur[m][1] = "call" /\ Answer(cur[m][2]) /\ UNCHANGED pendingGo
  <2>0. PICK i : i = cur[m][2]  OBVIOUS
  <2>1. Open(i, m) /\ ran[i] = 1 /\ Ret(i, "ran")  BY <2>0, <1>9 DEF Answer, RpcInv, Served
  <2>2. /\ chanSyncRet' \in [Procs -> Seq(Ids \X Results)]
        /\ chanAsynRet' \in [Modules -> Seq(Ids \X Results)]
        /\ \A p \in Procs : Returned(p)'
        /\ \A n \in Modules : CalledBack(n)'
        /\ \A j, n : Open(j, n) /\ j # i => Open(j, n)'
    BY <2>1, <1>0, <1>6, OneIs, RetIs
  <2>3. TypeOK'  BY <2>2, <1>0, <1>1, <1>2, <1>9 DEF TypeOK
  <2>4. \A n \in Modules : cur[n][1] = "go" => cur'[n] = cur[n]  BY <1>2, <1>9
  <2>5. Counts'  BY <2>4, <1>0, <1>7, <1>8, <1>9, StillGrows, CountsFrame
  <2>6. \A p \in Procs : Sent(p)'
    <3> SUFFICES ASSUME NEW p \in Procs  PROVE Sent(p)'  OBVIOUS
    <3>1. Sent(p)  BY DEF RpcInv
    <3> QED  BY <3>1, <1>0, <1>6 DEF Sent, By, Is
  <2>7. ASSUME NEW n \in Modules  PROVE Served(n)'
    <3>1. Served(n)  BY DEF RpcInv
    <3>2. \A j \in Elems(chanCall[n]) : Open(j, n)' /\ ran[j] = 0
      BY <3>1, <2>1, <2>2 DEF Served
    <3>3. (cur[n][1] = "call" => Open(cur[n][2], n) /\ ran[cur[n][2]] = 1)'
      <4> SUFFICES ASSUME cur'[n][1] = "call"
                   PROVE  (Open(cur[n][2], n) /\ ran[cur[n][2]] = 1)'
        OBVIOUS
      <4>1. n # m /\ cur'[n] = cur[n]  BY <1>2
      <4>2. PICK c : c = cur[n][2]  OBVIOUS
      <4>3. Open(c, n) /\ ran[c] = 1  BY <3>1, <4>1, <4>2 DEF Served
      <4>4. c # i  BY <4>1, <4>3, <2>1 DEF Open
      <4>5. Open(c, n)' /\ cur'[n][2] = c  BY <4>1, <4>2, <4>3, <4>4, <2>2
      <4> QED  BY <4>3, <4>5, <1>0 DEF Open, Answered, ChanRet, Is
    <3> QED  BY <3>1, <3>2, <3>3, <1>0 DEF Served
  <2> QED  BY <2>2, <2>3, <2>5, <2>6, <2>7, <1>3, <1>4, <1>5 DEF RpcInv
<1>10. CASE /\ cur[m][1] # "call" /\ UNCHANGED <<chanSyncRet, chanAsynRet>>
  <2>1. RpcInv'
    <3>1. \A n \in Modules : cur'[n][1] = "call" => cur'[n] = cur[n]  BY <1>2
    <3> QED  BY <3>1, <1>0, <1>6, <1>10, StillGrows, RpcFrame
  <2>2. CASE cur[m][1] = "go" /\ pendingGo' = [pendingGo EXCEPT ![m] = @ - 1]
    <3>0. PICK i : i = cur[m][2]  OBVIOUS
    <3>1. By(i, {"go", "linear"}, m) /\ got[i] # <<>>  BY <2>2, <3>0 DEF GoInv, GoPlaced
    <3>2. cur[m] = <<"go", i>>
      <4>1. cur[m] \in {"none", "call", "go", "cb", "timer"} \X Nat  BY DEF TypeOK
      <4> QED  BY <4>1, <2>2, <3>0
    <3>3. \A j : (cur[m] = <<"go", j>>) <=> j = i  BY <3>2
    <3>4. \A j : cur'[m] # <<"go", j>>
      <4>1. \A j : <<"go", j>>[1] = "go"  OBVIOUS
      <4> QED  BY <4>1, <1>2
    <3>5. Unfinished(m)' = Unfinished(m) \ {i}
      BY <3>1, <3>3, <3>4, <1>0 DEF Unfinished, By, Is
    <3>6. i \in Unfinished(m)  BY <3>1, <3>2 DEF Unfinished, By, Is
    <3>7. \A n \in Modules : n # m => Unfinished(n)' = Unfinished(n)
      BY <1>0, <1>2 DEF Unfinished, By, Is
    <3>8. \A n \in Modules : Outstanding(n)' = Outstanding(n)  BY <1>0 DEF Outstanding, By, Is
    <3>9. /\ Cardinality(Unfinished(m) \ {i}) = Cardinality(Unfinished(m)) - 1
          /\ Cardinality(Unfinished(m)) \in Nat \ {0}
      BY <3>6, CountsAre, OneLess
    <3>10. \A n \in Modules : pendingGo'[n] = IF n = m THEN pendingGo[n] - 1 ELSE pendingGo[n]
      BY <2>2 DEF TypeOK
    <3>11. TypeOK'
      <4>1. pendingGo[m] - 1 \in Nat  BY <3>9 DEF Counts
      <4>2. pendingGo' \in [Modules -> Nat]  BY <4>1, <2>2 DEF TypeOK
      <4> QED  BY <4>2, <1>0, <1>1, <1>2, <1>10 DEF TypeOK
    <3>12. \A n \in Modules : pendingGo'[n] = Cardinality(Unfinished(n)')
      BY <3>5, <3>7, <3>9, <3>10 DEF Counts
    <3>13. \A n \in Modules : loop[n] = "done" => n # m  BY <1>0 DEF Counts
    <3>14. Counts'  BY <3>8, <3>10, <3>12, <3>13, <1>0, <1>1, OpsIs DEF Counts
    <3> QED  BY <2>1, <3>11, <3>14, <1>3, <1>4, <1>5
  <2>3. CASE cur[m][1] # "go" /\ pendingGo' = pendingGo
    <3>1. TypeOK'  BY <2>3, <1>0, <1>1, <1>2, <1>10 DEF TypeOK
    <3>2. \A n \in Modules : cur[n][1] = "go" => cur'[n] = cur[n]  BY <2>3, <1>2
    <3>3. Counts'  BY <2>3, <3>2, <1>0, <1>7, <1>8, StillGrows, CountsFrame
    <3> QED  BY <2>1, <3>1, <3>3, <1>3, <1>4, <1>5
  <2> QED  BY <2>2, <2>3, <1>10 DEF Finish
<1> QED  BY <1>9, <1>10 DEF Finish

LEMMA ServerExecKeeps ==
  ASSUME IInv, NEW m \in Modules, ServerExec(m)
  PROVE  IInv'
<1> USE DEF IInv
<1>a. PICK i, s : i = Head(chanCall[m]) /\ s = Tail(chanCall[m])  OBVIOUS
<1>0. /\ UNCHANGED <<ops, loop, sync, closed, chanSyncRet, chanAsynRet, pendingAsynCall, got,
                     running, linearGo, execution, chanCb, pendingGo, timers, cb, chanTimer,
                     main, closeSig>>
      /\ chanCall' = [chanCall EXCEPT ![m] = s] /\ chanCall[m] # <<>>
      /\ st[m] = "idle" /\ loop[m] = "run" /\ Ran(i) /\ Execute(m, "call", i)
  BY <1>a DEF ServerExec, Idle, gos, tms, destroy
<1>1. /\ s \in Seq(Ids) /\ i \in Ids /\ i \in Elems(chanCall[m])
      /\ Elems(chanCall[m]) = Elems(s) \cup {i} /\ Distinct(s) /\ i \notin Elems(s)
  <2>1. chanCall[m] \in Seq(Ids) /\ Distinct(chanCall[m])  BY DEF TypeOK, RpcInv, Served
  <2> QED  BY <2>1, <1>0, <1>a, TailIs
<1>2. Open(i, m) /\ ran[i] = 0  BY <1>1 DEF RpcInv, Served
<1>3. /\ i \in 1 .. Len(ops) /\ ops[i].kind \in {"Go", "Call", "AsynCall"} /\ ops[i].to = m
      /\ got[i] = <<>> /\ ~Answered(i) /\ i \in Nat
  BY <1>2, OpsIs DEF Open, Is
<1>4. ran' \in [Ids -> Nat] /\ ran'[i] = 1 /\ \A j \in Ids : j # i => ran'[j] = ran[j]
  <2>1. ran' \in [Ids -> Nat] /\ ran'[i] = ran[i] + 1 /\ \A j \in Ids : j # i => ran'[j] = ran[j]
    BY <1>0, <1>1, RanIs
  <2> QED  BY <2>1, <1>2
<1>5. /\ cur' \in [Modules -> {"none", "call", "go", "cb", "timer"} \X Nat]
      /\ cur'[m] = <<"call", i>> /\ cur'[m][1] = "call" /\ cur'[m][2] = i
      /\ \A n \in Modules : n # m => cur'[n] = cur[n]
  <2>1. cur \in [Modules -> {"none", "call", "go", "cb", "timer"} \X Nat]  BY DEF TypeOK
  <2> QED  BY <2>1, <1>0, <1>3, ExecuteIs
<1>6. /\ st' \in [Procs -> {"idle", "busy", "send", "wait"}] /\ m \in Procs
      /\ \A p \in Procs : st'[p] = IF p = m THEN "busy" ELSE st[p]
  BY <1>0, OpsIs DEF Execute, TypeOK
<1>7. cur[m] = None /\ cur[m][1] = "none"  BY <1>0, NoneIs DEF OpsInv
<1>8. \A n \in Modules : chanCall'[n] = IF n = m THEN s ELSE chanCall[n]  BY <1>0 DEF TypeOK
<1>9. \A j \in 1 .. Len(ops) : j \in Ids  BY OpsIs
<1>10. \A j, K : /\ Is(j, K) /\ "Go" \notin K /\ "Call" \notin K /\ "AsynCall" \notin K
                 => ran'[j] = ran[j]
  <2> SUFFICES ASSUME NEW j, NEW K, Is(j, K), "Go" \notin K, "Call" \notin K, "AsynCall" \notin K
               PROVE  ran'[j] = ran[j]
    OBVIOUS
  <2>1. j \in Ids /\ j # i  BY <1>3, <1>9 DEF Is
  <2> QED  BY <2>1, <1>4
<1>11. TypeOK'
  <2>1. chanCall' \in [Modules -> Seq(Ids)]  BY <1>0, <1>1 DEF TypeOK
  <2> QED  BY <1>0, <1>4, <1>5, <1>6, <2>1 DEF TypeOK
<1>12. OpsInv'
  <2>1. \A j \in Ids : j > Len(ops) => j # i  BY <1>3, OpsIs
  <2>2. \A j \in Ids : j > Len(ops) => ran'[j] = 0  BY <2>1, <1>4 DEF OpsInv
  <2>3. \A j \in 1 .. Len(ops) : /\ ops[j].kind # "cron" => ran'[j] <= 1
                                 /\ got[j] # <<>> => (got[j] = <<"ran">> <=> ran'[j] = 1)
    BY <1>3, <1>4, <1>9 DEF OpsInv
  <2>4. \A n \in Modules : st'[n] = "idle" => cur'[n] = None
    BY <1>5, <1>6, OpsIs DEF OpsInv
  <2> QED  BY <2>2, <2>3, <2>4, <1>0 DEF OpsInv
<1>13. Counts'
  <2>1. \A n \in Modules : loop'[n] = "done" => loop[n] = "done" /\ (st[n] = "idle" => st'[n] = "idle")
    BY <1>0, <1>6, OpsIs
  <2>2. \A n \in Modules : /\ cur'[n][1] = "go" => cur'[n] = cur[n]
                           /\ cur[n][1] = "go" => cur'[n] = cur[n]
    BY <1>5, <1>7
  <2> QED  BY <2>1, <2>2, <1>0, StillGrows, CountsFrame
<1>14. GoInv'
  <2>1. \A n \in Modules : cur'[n][1] = "go" => cur'[n] = cur[n]  BY <1>5
  <2> QED  BY <2>1, <1>0, <1>10, StillGrows, GoFrame
<1>15. TimerInv'  BY <1>0, <1>10, StillGrows, TimerFrame
<1>16. \A j, K, p : By(j, K, p)' <=> By(j, K, p)  BY <1>0 DEF By, Is
<1>17. \A j, n : Open(j, n) => Open(j, n)'
  <2>1. \A j, n : Open(j, n) => ops[j].by \in Procs  BY OpsIs DEF Open, Is
  <2>2. \A p \in Procs : st[p] = "wait" => st'[p] = "wait"  BY <1>0, <1>6
  <2> QED  BY <2>1, <2>2, <1>0 DEF Open, Answered, ChanRet, Is
<1>18. ASSUME NEW p \in Procs  PROVE Sent(p)' /\ Returned(p)'
  <2>1. Sent(p) /\ Returned(p)  BY DEF RpcInv
  <2>2. st'[p] = "send" => st[p] = "send"  BY <1>6
  <2>3. st'[p] = "wait" => st[p] = "wait"  BY <1>6
  <2>4. st[p] = "wait" => st'[p] = "wait"  BY <1>0, <1>6
  <2>5. Sent(p)'
    <3>1. ASSUME st[p] = "send"
          PROVE  ran'[sync[p]] = 0 /\ sync[p] \notin Elems(chanCall'[ops[sync[p]].to])
      <4>1. PICK c : c = sync[p]  OBVIOUS
      <4>2. c \in 1 .. Len(ops) /\ ran[c] = 0 /\ c \notin Elems(chanCall[ops[c].to])
        BY <2>1, <3>1, <4>1 DEF Sent, By, Is
      <4>3. c # i  BY <4>2, <1>1, <1>3
      <4>4. ops[c].to \in Modules /\ c \in Ids  BY <4>2, OpsIs
      <4>5. ran'[c] = 0  BY <4>2, <4>3, <4>4, <1>4
      <4>6. c \notin Elems(chanCall'[ops[c].to])  BY <4>2, <4>4, <1>1, <1>8
      <4> QED  BY <4>1, <4>5, <4>6
    <3> QED  BY <2>1, <2>2, <2>3, <3>1, <1>0, <1>16 DEF Sent
  <2>6. Returned(p)'
    <3>1. ASSUME NEW x \in Elems(chanSyncRet[p])  PROVE Told(x)'
      <4>1. By(x[1], {"Call"}, p) /\ Told(x)  BY <2>1 DEF Returned
      <4>2. x[1] \in Ids  BY <4>1, <1>9 DEF By, Is
      <4>3. x[1] # i  BY <4>1, <1>3 DEF By, Is, Answered, ChanRet
      <4> QED  BY <4>1, <4>2, <4>3, <1>4 DEF Told
    <3> QED  BY <2>1, <2>4, <3>1, <1>0, <1>16 DEF Returned
  <2> QED  BY <2>5, <2>6
<1>19. ASSUME NEW n \in Modules  PROVE Served(n)' /\ CalledBack(n)'
  <2>1. Served(n) /\ CalledBack(n)  BY DEF RpcInv
  <2>2. \A j \in Elems(chanCall'[n]) : Open(j, n)' /\ ran'[j] = 0
    <3> SUFFICES ASSUME NEW j \in Elems(chanCall'[n])  PROVE Open(j, n)' /\ ran'[j] = 0
      OBVIOUS
    <3>1. j \in Elems(chanCall[n])  BY <1>1, <1>8
    <3>2. Open(j, n) /\ ran[j] = 0  BY <2>1, <3>1 DEF Served
    <3>3. j \in Ids  BY <3>2, <1>9 DEF Open, Is
    <3>4. j # i
      <4>1. n # m => j # i  BY <3>2, <1>3 DEF Open
      <4> QED  BY <4>1, <1>1, <1>8
    <3> QED  BY <3>2, <3>3, <3>4, <1>4, <1>17
  <2>3. Distinct(chanCall'[n])  BY <2>1, <1>1, <1>8 DEF Served
  <2>4. ASSUME cur'[n][1] = "call"  PROVE (Open(cur[n][2], n) /\ ran[cur[n][2]] = 1)'
    <3>1. CASE n = m
      <4>1. Open(i, m)' /\ ran'[i] = 1 /\ cur'[n][2] = i  BY <3>1, <1>2, <1>4, <1>5, <1>17
      <4> QED  BY <3>1, <4>1 DEF Open, Answered, ChanRet, Is
    <3>2. CASE n # m
      <4>1. PICK c : c = cur[n][2]  OBVIOUS
      <4>2. cur'[n] = cur[n]  BY <3>2, <1>5
      <4>3. Open(c, n) /\ ran[c] = 1  BY <2>1, <2>4, <4>1, <4>2 DEF Served
      <4>4. c \in Ids /\ c # i  BY <4>3, <1>2, <1>9 DEF Open, Is
      <4>5. Open(c, n)' /\ ran'[c] = 1 /\ cur'[n][2] = c  BY <4>1, <4>2, <4>3, <4>4, <1>4, <1>17
      <4> QED  BY <4>5 DEF Open, Answered, ChanRet, Is
    <3> QED  BY <3>1, <3>2
  <2>5. ASSUME NEW x \in Elems(chanAsynRet[n])  PROVE Told(x)'
    <3>1. By(x[1], {"AsynCall"}, n) /\ Told(x)  BY <2>1 DEF CalledBack
    <3>2. x[1] \in Ids  BY <3>1, <1>9 DEF By, Is
    <3>3. x[1] # i  BY <3>1, <1>3 DEF By, Is, Answered, ChanRet
    <3> QED  BY <3>1, <3>2, <3>3, <1>4 DEF Told
  <2>6. CalledBack(n)'  BY <2>1, <2>5, <1>0, <1>16 DEF CalledBack
  <2> QED  BY <2>2, <2>3, <2>4, <2>6 DEF Served
<1> QED  BY <1>11, <1>12, <1>13, <1>14, <1>15, <1>18, <1>19 DEF RpcInv

LEMMA ReceiveKeeps ==
  ASSUME IInv, NEW p \in Procs, Receive(p)
  PROVE  IInv'
<1> USE DEF IInv
<1>a. PICK i, s, x : i = sync[p] /\ s = Tail(chanSyncRet[p]) /\ x = Head(chanSyncRet[p])
  OBVIOUS
<1>b. PICK r : r = x[2]  OBVIOUS
<1>0. /\ UNCHANGED <<ops, loop, cur, chanCall, closed, chanAsynRet, pendingAsynCall,
                     running, linearGo, execution, chanCb, pendingGo, timers, cb, chanTimer,
                     main, closeSig, ran>>
      /\ st' = [st EXCEPT ![p] = "busy"] /\ sync' = [sync EXCEPT ![p] = 0]
      /\ chanSyncRet' = [chanSyncRet EXCEPT ![p] = s] /\ chanSyncRet[p] # <<>>
      /\ st[p] = "wait" /\ Got(i, r)
  BY <1>a, <1>b DEF Receive, gos, tms, destroy
<1> DEFINE T == Ids \X Results
<1>c. chanSyncRet \in [Procs -> Seq(T)]  BY DEF TypeOK
<1>d. \A y \in T : y[1] \in Ids /\ y[2] \in Results  OBVIOUS
<1> HIDE DEF T
<1>1. /\ s \in Seq(T) /\ x \in T /\ x \in Elems(chanSyncRet[p]) /\ Elems(s) = {} /\ Len(s) = 0
  <2>1. chanSyncRet[p] \in Seq(T) /\ Len(chanSyncRet[p]) <= 1  BY <1>c DEF RpcInv, Returned
  <2>2. /\ s \in Seq(T) /\ x \in T /\ x \in Elems(chanSyncRet[p])
        /\ Len(chanSyncRet[p]) \in Nat \ {0} /\ Len(s) = Len(chanSyncRet[p]) - 1
    BY <2>1, <1>0, <1>a, <1>c, TailIs
  <2>3. Len(s) = 0
    <3>1. \A l \in Nat \ {0} : l <= 1 => l - 1 = 0  OBVIOUS
    <3>2. PICK l \in Nat \ {0} : l = Len(chanSyncRet[p])  BY <2>2
    <3> QED  BY <3>1, <3>2, <2>1, <2>2
  <2>4. DOMAIN s = {}
    <3>1. DOMAIN s = 1 .. Len(s)  BY <2>2
    <3> QED  BY <2>3, <3>1
  <2> QED  BY <2>2, <2>3, <2>4 DEF Elems
<1>2. /\ By(i, {"Call"}, p) /\ got[i] = <<>> /\ x[1] = i /\ Told(x) /\ r \in Results
  <2>1. By(x[1], {"Call"}, p) /\ got[x[1]] = <<>> /\ Told(x) /\ sync[p] = x[1]
    BY <1>1 DEF RpcInv, Returned
  <2> QED  BY <2>1, <1>a, <1>b, <1>1, <1>d
<1>3. /\ i \in 1 .. Len(ops) /\ i \in Ids /\ ops[i].kind = "Call" /\ ops[i].by = p
      /\ IF r = "ran" THEN ran[i] = 1 ELSE ran[i] = 0
  BY <1>2, <1>b, OpsIs DEF By, Is, Told
<1>4. /\ got' \in [Ids -> {<<>>} \cup {<<y>> : y \in Results}]
      /\ got'[i] = <<r>> /\ \A j \in Ids : j # i => got'[j] = got[j]
  BY <1>0, <1>2, <1>3, GotIs
<1>5. /\ st' \in [Procs -> {"idle", "busy", "send", "wait"}]
      /\ \A q \in Procs : /\ st'[q] = IF q = p THEN "busy" ELSE st[q]
                          /\ q # p => sync'[q] = sync[q]
                          /\ chanSyncRet'[q] = IF q = p THEN s ELSE chanSyncRet[q]
  BY <1>0, <1>c DEF TypeOK
<1>9. \A j \in 1 .. Len(ops) : j \in Ids  BY OpsIs
<1>10. \A j, K : Is(j, K) /\ "Call" \notin K => got'[j] = got[j]
  <2> SUFFICES ASSUME NEW j, NEW K, Is(j, K), "Call" \notin K  PROVE got'[j] = got[j]
    OBVIOUS
  <2>1. j \in Ids /\ j # i  BY <1>3, <1>9 DEF Is
  <2> QED  BY <2>1, <1>4
<1>11. TypeOK'
  <2>1. chanSyncRet' \in [Procs -> Seq(T)]  BY <1>0, <1>1, <1>c
  <2>2. sync' \in [Procs -> Nat]
    <3>1. sync \in [Procs -> Nat]  BY DEF TypeOK
    <3> QED  BY <3>1, <1>0
  <2> QED  BY <1>0, <1>4, <1>5, <2>1, <2>2 DEF TypeOK, T
<1>12. OpsInv'
  <2>1. \A j \in Ids : j > Len(ops) => j # i  BY <1>3, OpsIs
  <2>2. \A j \in Ids : j > Len(ops) => got'[j] = <<>>  BY <2>1, <1>4 DEF OpsInv
  <2>3. got'[i] = <<"ran">> <=> ran[i] = 1
    <3>1. <<r>> = <<"ran">> <=> r = "ran"  BY <1>2, OneIs
    <3>2. r = "ran" <=> ran[i] = 1  BY <1>3
    <3> QED  BY <3>1, <3>2, <1>4
  <2>4. \A j \in 1 .. Len(ops) : got'[j] # <<>> => (got'[j] = <<"ran">> <=> ran[j] = 1)
    BY <2>3, <1>4, <1>9 DEF OpsInv
  <2>5. \A n \in Modules : st'[n] = "idle" => cur'[n] = None  BY <1>0, <1>5, OpsIs DEF OpsInv
  <2> QED  BY <2>2, <2>4, <2>5, <1>0 DEF OpsInv
<1>13. Counts'
  <2>1. \A n \in Modules : st[n] = "idle" => st'[n] = "idle"  BY <1>0, <1>5, OpsIs
  <2> QED  BY <2>1, <1>0, <1>10, StillGrows, CountsFrame
<1>14. GoInv'  BY <1>0, <1>10, StillGrows, GoFrame
<1>15. TimerInv'  BY <1>0, <1>10, StillGrows, TimerFrame
<1>16. \A j, K, q : By(j, K, q)' <=> By(j, K, q)  BY <1>0 DEF By, Is
\* i is answered, so no server has it.
<1>17. \A j, n : Open(j, n) => j # i
  <2>1. Answered(i)  BY <1>1, <1>2, <1>3 DEF Answered, ChanRet
  <2> QED  BY <2>1 DEF Open
<1>18. ASSUME NEW j, NEW n, Open(j, n)  PROVE Open(j, n)'
  <2>1. j \in Ids /\ j # i /\ ops[j].by \in Procs  BY <1>17, <1>18, OpsIs DEF Open, Is
  <2>2. got'[j] = <<>>  BY <2>1, <1>4, <1>18 DEF Open
  <2>3. \A y \in Elems(ChanRet(j)') : y \in Elems(ChanRet(j))
    BY <2>1, <1>0, <1>1, <1>5 DEF ChanRet
  <2>4. ~Answered(j)'  BY <2>3, <1>18 DEF Open, Answered
  <2>5. ops[j].kind = "Call" => ops[j].by # p  BY <2>1, <1>a, <1>18 DEF Open
  <2> QED  BY <2>1, <2>2, <2>4, <2>5, <1>0, <1>5, <1>18 DEF Open, Is
<1>19. ASSUME NEW q \in Procs  PROVE Sent(q)' /\ Returned(q)'
  <2>1. Sent(q) /\ Returned(q)  BY DEF RpcInv
  <2>2. CASE q = p
    <3>1. st'[q] = "busy" /\ chanSyncRet'[q] = s  BY <2>2, <1>5
    <3> QED  BY <3>1, <1>1 DEF Sent, Returned
  <2>3. CASE q # p
    <3>1. st'[q] = st[q] /\ sync'[q] = sync[q] /\ chanSyncRet'[q] = chanSyncRet[q]
      BY <2>3, <1>5
    <3>2. \A j, K : By(j, K, q) => got'[j] = got[j]
      <4>1. \A j, K : By(j, K, q) => j \in Ids /\ j # i  BY <2>3, <1>3, <1>9 DEF By, Is
      <4> QED  BY <4>1, <1>4
    <3>3. Sent(q)'  BY <2>1, <3>1, <3>2, <1>0, <1>16 DEF Sent
    <3>4. Returned(q)'  BY <2>1, <3>1, <3>2, <1>0, <1>16 DEF Returned, Told
    <3> QED  BY <3>3, <3>4
  <2> QED  BY <2>2, <2>3
<1>20. ASSUME NEW n \in Modules  PROVE Served(n)' /\ CalledBack(n)'
  <2>1. Served(n) /\ CalledBack(n)  BY DEF RpcInv
  <2>2. Served(n)'
    <3>1. \A j \in Elems(chanCall[n]) : Open(j, n)'  BY <2>1, <1>18 DEF Served
    <3>2. cur[n][1] = "call" => Open(cur[n][2], n)' /\ ran[cur[n][2]] = 1
      <4> SUFFICES ASSUME cur[n][1] = "call"
                   PROVE  Open(cur[n][2], n)' /\ ran[cur[n][2]] = 1
        OBVIOUS
      <4>1. PICK c : c = cur[n][2]  OBVIOUS
      <4>2. Open(c, n) /\ ran[c] = 1  BY <2>1, <4>1 DEF Served
      <4>3. Open(c, n)'  BY <4>2, <1>18
      <4> QED  BY <4>1, <4>2, <4>3, <1>0 DEF Open, Answered, ChanRet, Is
    <3> QED  BY <2>1, <3>1, <3>2, <1>0 DEF Served
  <2>3. \A j : By(j, {"AsynCall"}, n) => got'[j] = got[j]  BY <1>10 DEF By
  <2>4. CalledBack(n)'  BY <2>1, <2>3, <1>0, <1>16 DEF CalledBack, Told
  <2> QED  BY <2>2, <2>4
<1> QED  BY <1>11, <1>12, <1>13, <1>14, <1>15, <1>19, <1>20 DEF RpcInv

LEMMA ClientCbKeeps ==
  ASSUME IInv, NEW m \in Modules, ClientCb(m)
  PROVE  IInv'
<1> USE DEF IInv
<1>a. PICK s, x : s = Tail(chanAsynRet[m]) /\ x = Head(chanAsynRet[m])  OBVIOUS
<1>b. PICK i, r : i = x[1] /\ r = x[2]  OBVIOUS
<1>0. /\ UNCHANGED <<ops, loop, sync, chanCall, closed, chanSyncRet, running, linearGo,
                     execution, chanCb, pendingGo, timers, cb, chanTimer, main, closeSig, ran>>
      /\ chanAsynRet' = [chanAsynRet EXCEPT ![m] = s] /\ chanAsynRet[m] # <<>>
      /\ pendingAsynCall' = [pendingAsynCall EXCEPT ![m] = @ - 1]
      /\ st[m] = "idle" /\ loop[m] # "done" /\ Got(i, r) /\ Execute(m, "cb", i)
  BY <1>a, <1>b DEF ClientCb, Idle, gos, tms, destroy
<1> DEFINE T == Ids \X Results
<1>c. chanAsynRet \in [Modules -> Seq(T)]  BY DEF TypeOK
<1>d. \A y \in T : y[1] \in Ids /\ y[2] \in Results  OBVIOUS
<1> HIDE DEF T
<1>1. /\ s \in Seq(T) /\ x \in T /\ x \in Elems(chanAsynRet[m])
      /\ Elems(chanAsynRet[m]) = Elems(s) \cup {x}
      /\ 1 \in DOMAIN chanAsynRet[m] /\ x = chanAsynRet[m][1]
      /\ \A k \in DOMAIN s : /\ k + 1 \in DOMAIN chanAsynRet[m] /\ s[k] = chanAsynRet[m][k + 1]
                             /\ k + 1 # 1 /\ k \in Nat
  <2>1. chanAsynRet[m] \in Seq(T)  BY <1>c
  <2> QED  BY <2>1, <1>0, <1>a, TailIs
<1>e. \A k, l \in DOMAIN chanAsynRet[m] : chanAsynRet[m][k][1] = chanAsynRet[m][l][1] => k = l
  BY DEF RpcInv, CalledBack
<1>2. /\ \A k, l \in DOMAIN s : s[k][1] = s[l][1] => k = l
      /\ \A y \in Elems(s) : y[1] # i
  <2>1. ASSUME NEW k \in DOMAIN s, NEW l \in DOMAIN s, s[k][1] = s[l][1]  PROVE k = l
    <3>1. k + 1 = l + 1  BY <2>1, <1>1, <1>e
    <3>2. k \in Nat /\ l \in Nat  BY <1>1
    <3> QED  BY <3>1, <3>2
  <2>2. ASSUME NEW k \in DOMAIN s, s[k][1] = i  PROVE FALSE
    <3>1. k + 1 = 1  BY <2>2, <1>b, <1>1, <1>e
    <3> QED  BY <3>1, <1>1
  <2> QED  BY <2>1, <2>2 DEF Elems
<1>3. /\ By(i, {"AsynCall"}, m) /\ got[i] = <<>> /\ Told(x) /\ r \in Results
      /\ i \in 1 .. Len(ops) /\ i \in Ids /\ ops[i].kind = "AsynCall" /\ ops[i].by = m
      /\ i \in Nat /\ IF r = "ran" THEN ran[i] = 1 ELSE ran[i] = 0
  <2>1. By(i, {"AsynCall"}, m) /\ got[i] = <<>> /\ Told(x)
    BY <1>b, <1>1 DEF RpcInv, CalledBack
  <2> QED  BY <2>1, <1>b, <1>1, <1>d, OpsIs DEF By, Is, Told
<1>4. /\ got' \in [Ids -> {<<>>} \cup {<<y>> : y \in Results}]
      /\ got'[i] = <<r>> /\ \A j \in Ids : j # i => got'[j] = got[j]
  BY <1>0, <1>3, GotIs
<1>5. /\ cur' \in [Modules -> {"none", "call", "go", "cb", "timer"} \X Nat]
      /\ cur'[m] = <<"cb", i>> /\ cur'[m][1] = "cb" /\ cur'[m][2] = i
      /\ \A n \in Modules : n # m => cur'[n] = cur[n]
  <2>1. cur \in [Modules -> {"none", "call", "go", "cb", "timer"} \X Nat]  BY DEF TypeOK
  <2> QED  BY <2>1, <1>0, <1>3, ExecuteIs
<1>6. /\ st' \in [Procs -> {"idle", "busy", "send", "wait"}] /\ m \in Procs
      /\ \A p \in Procs : st'[p] = IF p = m THEN "busy" ELSE st[p]
  BY <1>0, OpsIs DEF Execute, TypeOK
<1>7. cur[m] = None /\ cur[m][1] = "none"  BY <1>0, NoneIs DEF OpsInv
<1>8. \A n \in Modules : /\ chanAsynRet'[n] = IF n = m THEN s ELSE chanAsynRet[n]
                         /\ pendingAsynCall'[n] = IF n = m THEN pendingAsynCall[n] - 1
                                                  ELSE pendingAsynCall[n]
  BY <1>0, <1>c DEF TypeOK
<1>9. \A j \in 1 .. Len(ops) : j \in Ids  BY OpsIs
<1>10. \A j, K : Is(j, K) /\ "AsynCall" \notin K => got'[j] = got[j]
  <2> SUFFICES ASSUME NEW j, NEW K, Is(j, K), "AsynCall" \notin K  PROVE got'[j] = got[j]
    OBVIOUS
  <2>1. j \in Ids /\ j # i  BY <1>3, <1>9 DEF Is
  <2> QED  BY <2>1, <1>4
<1>11. got'[i] # <<>>  BY <1>3, <1>4, OneIs
<1>16. \A j, K, p : By(j, K, p)' <=> By(j, K, p)  BY <1>0 DEF By, Is
<1>12. OpsInv'
  <2>1. \A j \in Ids : j > Len(ops) => j # i  BY <1>3, OpsIs
  <2>2. \A j \in Ids : j > Len(ops) => got'[j] = <<>>  BY <2>1, <1>4 DEF OpsInv
  <2>3. got'[i] = <<"ran">> <=> ran[i] = 1
    <3>1. <<r>> = <<"ran">> <=> r = "ran"  BY <1>3, OneIs
    <3>2. r = "ran" <=> ran[i] = 1  BY <1>3
    <3> QED  BY <3>1, <3>2, <1>4
  <2>4. \A j \in 1 .. Len(ops) : got'[j] # <<>> => (got'[j] = <<"ran">> <=> ran[j] = 1)
    BY <2>3, <1>4, <1>9 DEF OpsInv
  <2>5. \A n \in Modules : st'[n] = "idle" => cur'[n] = None
    BY <1>5, <1>6, OpsIs DEF OpsInv
  <2> QED  BY <2>2, <2>4, <2>5, <1>0 DEF OpsInv
<1>13. Counts' /\ pendingAsynCall' \in [Modules -> Nat]
  <2>1. Outstanding(m)' = Outstanding(m) \ {i}
    <3>1. \A j \in 1 .. Len(ops) : j # i => got'[j] = got[j]  BY <1>4, <1>9
    <3> QED  BY <3>1, <1>0, <1>11, <1>16 DEF Outstanding
  <2>2. i \in Outstanding(m)  BY <1>3 DEF Outstanding
  <2>3. \A n \in Modules : n # m => Outstanding(n)' = Outstanding(n)
    <3>1. \A n \in Modules : \A j \in 1 .. Len(ops) : n # m /\ By(j, {"AsynCall"}, n) => got'[j] = got[j]
      BY <1>3, <1>4, <1>9 DEF By
    <3> QED  BY <3>1, <1>0, <1>16 DEF Outstanding
  <2>4. \A n \in Modules : Unfinished(n)' = Unfinished(n)
    <3> SUFFICES ASSUME NEW n \in Modules  PROVE Unfinished(n)' = Unfinished(n)  OBVIOUS
    <3>1. \A j : By(j, {"go", "linear"}, n) => got'[j] = got[j]  BY <1>10 DEF By
    <3>2. \A j : (cur'[n] = <<"go", j>>) <=> (cur[n] = <<"go", j>>)
      <4>1. \A j : <<"go", j>>[1] = "go"  OBVIOUS
      <4> QED  BY <4>1, <1>5, <1>7
    <3> QED  BY <3>1, <3>2, <1>0, <1>16 DEF Unfinished
  <2>5. /\ Cardinality(Outstanding(m) \ {i}) = Cardinality(Outstanding(m)) - 1
        /\ Cardinality(Outstanding(m)) \in Nat \ {0}
    BY <2>2, CountsAre, OneLess
  <2>6. PICK c \in Nat \ {0} : c = pendingAsynCall[m]  BY <2>5 DEF Counts
  <2>7. pendingAsynCall' \in [Modules -> Nat]
    <3>1. c - 1 \in Nat  OBVIOUS
    <3> QED  BY <2>6, <3>1, <1>0 DEF TypeOK
  <2>8. pendingAsynCall'[m] <= AsynLen
    <3>1. c <= AsynLen /\ AsynLen \in Nat  BY <2>6, SkeletonAssumption DEF Counts
    <3>2. c - 1 <= AsynLen  BY <3>1
    <3> QED  BY <2>6, <3>2, <1>8
  <2>9. \A n \in Modules : /\ pendingAsynCall'[n] = Cardinality(Outstanding(n)')
                           /\ pendingAsynCall'[n] <= AsynLen
    BY <2>1, <2>3, <2>5, <2>8, <1>8 DEF Counts
  <2>10. \A n \in Modules : loop[n] = "done" => n # m  BY <1>0
  <2>11. Counts'  BY <2>4, <2>9, <2>10, <1>0, <1>6, <1>8, OpsIs DEF Counts
  <2> QED  BY <2>7, <2>11
<1>14. GoInv'
  <2>1. \A n \in Modules : cur'[n][1] = "go" => cur'[n] = cur[n]  BY <1>5
  <2> QED  BY <2>1, <1>0, <1>10, StillGrows, GoFrame
<1>15. TimerInv'  BY <1>0, <1>10, StillGrows, TimerFrame
<1>17. TypeOK'
  <2>1. chanAsynRet' \in [Modules -> Seq(T)]  BY <1>0, <1>1, <1>c
  <2> QED  BY <1>0, <1>4, <1>5, <1>6, <1>13, <2>1 DEF TypeOK, T
<1>18. \A j, n : Open(j, n) => j # i
  <2>1. Answered(i)  BY <1>b, <1>1, <1>3 DEF Answered, ChanRet
  <2> QED  BY <2>1 DEF Open
<1>19. ASSUME NEW j, NEW n, Open(j, n)  PROVE Open(j, n)'
  <2>1. /\ j \in Ids /\ j # i /\ ops[j].by \in Procs
        /\ ops[j].kind = "AsynCall" => ops[j].by \in Modules
    BY <1>18, <1>19, OpsIs DEF Open, Is, OpsInv, Kinds
  <2>2. got'[j] = <<>>  BY <2>1, <1>4, <1>19 DEF Open
  <2>3. \A y \in Elems(ChanRet(j)') : y \in Elems(ChanRet(j))
    BY <2>1, <1>0, <1>1, <1>8 DEF ChanRet
  <2>4. ~Answered(j)'  BY <2>3, <1>19 DEF Open, Answered
  <2>5. ops[j].kind = "Call" => ops[j].by # m  BY <1>0, <1>19 DEF Open
  <2> QED  BY <2>1, <2>2, <2>4, <2>5, <1>0, <1>6, <1>19 DEF Open, Is
<1>20. ASSUME NEW q \in Procs  PROVE Sent(q)' /\ Returned(q)'
  <2>1. Sent(q) /\ Returned(q)  BY DEF RpcInv
  <2>2. \A j, K : By(j, K, q) /\ "AsynCall" \notin K => got'[j] = got[j]  BY <1>10 DEF By
  <2>3. (st'[q] = "send" <=> st[q] = "send") /\ (st'[q] = "wait" <=> st[q] = "wait")
    BY <1>0, <1>6
  <2>4. Sent(q)'  BY <2>1, <2>2, <2>3, <1>0, <1>16 DEF Sent
  <2>5. Returned(q)'  BY <2>1, <2>2, <2>3, <1>0, <1>16 DEF Returned, Told
  <2> QED  BY <2>4, <2>5
<1>21. ASSUME NEW n \in Modules  PROVE Served(n)' /\ CalledBack(n)'
  <2>1. Served(n) /\ CalledBack(n)  BY DEF RpcInv
  <2>2. Served(n)'
    <3>1. \A j \in Elems(chanCall[n]) : Open(j, n)'  BY <2>1, <1>19 DEF Served
    <3>2. (cur[n][1] = "call" => Open(cur[n][2], n) /\ ran[cur[n][2]] = 1)'
      <4> SUFFICES ASSUME cur'[n][1] = "call"
                   PROVE  (Open(cur[n][2], n) /\ ran[cur[n][2]] = 1)'
        OBVIOUS
      <4>1. PICK c : c = cur[n][2]  OBVIOUS
      <4>2. cur'[n] = cur[n]  BY <1>5
      <4>3. Open(c, n) /\ ran[c] = 1  BY <2>1, <4>1, <4>2 DEF Served
      <4>4. Open(c, n)' /\ cur'[n][2] = c  BY <4>1, <4>2, <4>3, <1>19
      <4> QED  BY <4>3, <4>4, <1>0 DEF Open, Answered, ChanRet, Is
    <3> QED  BY <2>1, <3>1, <3>2, <1>0 DEF Served
  <2>3. ASSUME NEW y \in Elems(chanAsynRet'[n])
        PROVE  By(y[1], {"AsynCall"}, n) /\ got'[y[1]] = <<>> /\ Told(y)
    <3>1. y \in Elems(chanAsynRet[n])  BY <2>3, <1>1, <1>8
    <3>2. By(y[1], {"AsynCall"}, n) /\ got[y[1]] = <<>> /\ Told(y)
      BY <2>1, <3>1 DEF CalledBack
    <3>3. y[1] # i
      <4>1. n # m => y[1] # i  BY <3>2, <1>3 DEF By
      <4> QED  BY <2>3, <4>1, <1>2, <1>8
    <3>4. y[1] \in Ids  BY <3>2, <1>9 DEF By, Is
    <3> QED  BY <3>2, <3>3, <3>4, <1>4
  <2>4. \A k, l \in DOMAIN chanAsynRet'[n] : chanAsynRet'[n][k][1] = chanAsynRet'[n][l][1] => k = l
    BY <2>1, <1>2, <1>8 DEF CalledBack
  <2>5. CalledBack(n)'  BY <2>3, <2>4, <1>0, <1>16 DEF CalledBack, Told
  <2> QED  BY <2>2, <2>5
<1> QED  BY <1>12, <1>13, <1>14, <1>15, <1>17, <1>20, <1>21 DEF RpcInv

\* A channel with one message more, when no other has its first component
LEMMA KeyIs ==
  ASSUME NEW S, NEW s \in Seq(S), NEW x \in S,
         \A k, l \in DOMAIN s : s[k][1] = s[l][1] => k = l,
         \A y \in Elems(s) : y[1] # x[1]
  PROVE  \A k, l \in DOMAIN Append(s, x) : Append(s, x)[k][1] = Append(s, x)[l][1] => k = l
<1> DEFINE t == Append(s, x)
<1>1. PICK n \in Nat : n = Len(s)  OBVIOUS
<1>2. /\ DOMAIN t = 1 .. n + 1 /\ t[n + 1] = x /\ DOMAIN s = 1 .. n
      /\ \A l \in 1 .. n : t[l] = s[l]
  BY <1>1
<1> HIDE DEF t
<1>3. \A h \in DOMAIN s : t[h] = s[h] /\ s[h][1] # x[1]  BY <1>2 DEF Elems
<1>4. \A h \in DOMAIN t : h \in DOMAIN s \/ h = n + 1  BY <1>2
<1>5. ASSUME NEW h \in DOMAIN t, NEW l \in DOMAIN t, t[h][1] = t[l][1]  PROVE h = l
  <2>1. CASE h \in DOMAIN s /\ l \in DOMAIN s  BY <2>1, <1>3, <1>5
  <2>2. CASE ~(h \in DOMAIN s /\ l \in DOMAIN s)  BY <2>2, <1>2, <1>3, <1>4, <1>5
  <2> QED  BY <2>1, <2>2
<1> QED  BY <1>5 DEF t

\* A counter of an array of counters is increased.
LEMMA PlusIs ==
  ASSUME NEW D, NEW f \in [D -> Nat], NEW d \in D
  PROVE  [f EXCEPT ![d] = @ + 1] \in [D -> Nat]
OBVIOUS

\* The four outcomes of an AsynCall: its callback has run, an error is in the
\* channel of its module (three of them), or it is queued.
LEMMA AsynCallIs ==
  ASSUME NEW p \in Modules, NEW m \in Modules, AsynCall(p, m)
  PROVE  /\ Start("AsynCall", p, m)
         /\ UNCHANGED <<loop, st, cur, sync, closed, chanSyncRet, running, linearGo,
                        execution, chanCb, pendingGo, timers, cb, chanTimer, main, closeSig, ran>>
         /\ \/ /\ Got(New, "many") /\ UNCHANGED <<chanCall, chanAsynRet, pendingAsynCall>>
            \/ /\ ~TooMany(p) /\ pendingAsynCall' = [pendingAsynCall EXCEPT ![p] = @ + 1]
               /\ got' = got
               /\ \/ /\ \E r \in {"no function", "closed", "full"} : AsynFails(p, r)
                     /\ chanCall' = chanCall
                  \/ /\ chanCall' = [chanCall EXCEPT ![m] = Append(@, New)]
                     /\ chanAsynRet' = chanAsynRet
<1>1. /\ Start("AsynCall", p, m)
      /\ UNCHANGED <<loop, st, cur, sync, closed, chanSyncRet, running, linearGo,
                     execution, chanCb, pendingGo, timers, cb, chanTimer, main, closeSig, ran>>
  BY DEF AsynCall, proc, gos, tms, destroy
<1>2. CASE /\ TooMany(p) /\ Got(New, "many")
           /\ UNCHANGED <<chanCall, chanAsynRet, pendingAsynCall>>
  BY <1>1, <1>2
<1>3. CASE /\ ~TooMany(p)
           /\ \/ AsynFails(p, "no function") /\ UNCHANGED chanCall
              \/ closed[m] /\ AsynFails(p, "closed") /\ UNCHANGED chanCall
              \/ /\ ~closed[m] /\ Len(chanCall[m]) = CallLen
                 /\ AsynFails(p, "full") /\ UNCHANGED chanCall
              \/ /\ ~closed[m] /\ Len(chanCall[m]) < CallLen
                 /\ chanCall' = [chanCall EXCEPT ![m] = Append(@, New)]
                 /\ UNCHANGED chanAsynRet
           /\ pendingAsynCall' = [pendingAsynCall EXCEPT ![p] = @ + 1]
           /\ UNCHANGED got
  BY <1>1, <1>3
<1> QED  BY <1>2, <1>3 DEF AsynCall

LEMMA AsynCallKeeps ==
  ASSUME IInv, NEW p \in Modules, NEW m \in Modules, AsynCall(p, m)
  PROVE  IInv'
<1> USE DEF IInv
<1>a. PICK k : k = New  OBVIOUS
<1>0. /\ Start("AsynCall", p, m) /\ "AsynCall" \in Kinds /\ p \in Procs
      /\ UNCHANGED <<loop, st, cur, sync, closed, chanSyncRet, running, linearGo,
                     execution, chanCb, pendingGo, timers, cb, chanTimer, main, closeSig, ran>>
  BY AsynCallIs, OpsIs DEF Kinds
<1>1. \/ /\ Got(k, "many") /\ UNCHANGED <<chanCall, chanAsynRet, pendingAsynCall>>
      \/ /\ ~TooMany(p) /\ pendingAsynCall' = [pendingAsynCall EXCEPT ![p] = @ + 1]
         /\ got' = got
         /\ \/ /\ \E r \in {"no function", "closed", "full"} :
                    chanAsynRet' = [chanAsynRet EXCEPT ![p] = Append(@, <<k, r>>)]
               /\ chanCall' = chanCall
            \/ /\ chanCall' = [chanCall EXCEPT ![m] = Append(@, k)]
               /\ chanAsynRet' = chanAsynRet
  BY <1>a, AsynCallIs DEF AsynFails
<1>2. /\ k \in Ids /\ k = Len(ops) + 1 /\ k \notin 1 .. Len(ops)
      /\ ops' \in Seq([kind : Kinds, by : Procs, to : Modules])
      /\ Len(ops') = k /\ k <= MaxOps /\ Grows /\ st[p] = "busy"
      /\ k \in 1 .. Len(ops') /\ ops'[k] = [kind |-> "AsynCall", by |-> p, to |-> m]
      /\ \A i \in 1 .. Len(ops') : i \in 1 .. Len(ops) \/ i = k
  BY <1>0, <1>a, StartIs
<1>3. ran[k] = 0 /\ got[k] = <<>> /\ ~cb[k] /\ timers[k] = "none"  BY <1>a, <1>2, NewIs
<1>4. \A j \in 1 .. Len(ops) : j \in Ids /\ j # k /\ j \in 1 .. Len(ops') /\ ops'[j] = ops[j]
  BY <1>2, OpsIs DEF Grows
<1>5. /\ got' \in [Ids -> {<<>>} \cup {<<y>> : y \in Results}]
      /\ \A j \in Ids : j # k => got'[j] = got[j]
      /\ \/ got'[k] = <<"many">>
         \/ got' = got
  <2>1. CASE Got(k, "many")  BY <2>1, <1>2, <1>3, GotIs, OneIs
  <2>2. CASE got' = got  BY <2>2 DEF TypeOK
  <2> QED  BY <2>1, <2>2, <1>1
<1>6. \A j \in 1 .. Len(ops) : got'[j] = got[j]  BY <1>4, <1>5
<1>7. OpsInv'
  <2>1. got'[New] # <<"ran">>  BY <1>a, <1>3, <1>5, OneIs
  <2>2. \A n \in Modules : st'[n] = "idle" => cur'[n] = None  BY <1>0 DEF OpsInv
  <2> QED  BY <1>0, <1>a, <1>5, <2>1, <2>2, OpsStart
<1>8. GoInv'
  <2>1. \A i \in 1 .. Len(ops') : ops'[i].kind = "linear" => i \in 1 .. Len(ops)  BY <1>2
  <2>2. \A i : Is(i, {"go", "linear"}) => got'[i] = got[i]  BY <1>6 DEF Is
  <2> QED  BY <2>1, <2>2, <1>0, <1>2, GoFrame
<1>9. TimerInv'
  <2>1. \A i \in 1 .. Len(ops') : i \notin 1 .. Len(ops) =>
          ops'[i].kind \notin {"after", "cron"} /\ ~cb[i] /\ timers[i] = "none"
    BY <1>2, <1>3
  <2>2. \A i : Is(i, {"after", "cron"}) => got'[i] = got[i]  BY <1>6 DEF Is
  <2> QED  BY <2>1, <2>2, <1>0, <1>2, TimerFrame
<1>10. \A j \in 1 .. Len(ops) : \A K, n : By(j, K, n)' <=> By(j, K, n)
  BY <1>4 DEF By, Is
<1>11. \A j, K, n : By(j, K, n) => By(j, K, n)' /\ got'[j] = got[j] /\ j \in Ids /\ j # k
  BY <1>4, <1>6, <1>10 DEF By, Is
<1>12. \A n : By(k, {"AsynCall"}, n)' <=> n = p  BY <1>2 DEF By, Is
<1>13. \A n : Unfinished(n)' = Unfinished(n)
  <2> SUFFICES ASSUME NEW n  PROVE Unfinished(n)' = Unfinished(n)  OBVIOUS
  <2>1. \A j \in 1 .. Len(ops') : By(j, {"go", "linear"}, n)' => j \in 1 .. Len(ops)
    BY <1>2 DEF By, Is
  <2> QED  BY <2>1, <1>0, <1>4, <1>6, <1>10 DEF Unfinished
\* What is in a channel or with a server is of an earlier operation.
<1>14. ASSUME NEW j, NEW n, Open(j, n),
              \A y \in Elems(ChanRet(j)') : y \in Elems(ChanRet(j)) \/ y[1] = k
       PROVE  Open(j, n)'
  <2>1. j \in 1 .. Len(ops) /\ j # k /\ got'[j] = got[j] /\ ops'[j] = ops[j] /\ j \in 1 .. Len(ops')
    BY <1>4, <1>6, <1>14 DEF Open, Is
  <2>2. ~Answered(j)'  BY <2>1, <1>14 DEF Open, Answered
  <2> QED  BY <2>1, <2>2, <1>0, <1>14 DEF Open, Is
<1>15. ASSUME NEW q \in Procs  PROVE Returned(q)'
  <2>1. Returned(q)  BY DEF RpcInv
  <2> QED  BY <2>1, <1>0, <1>11 DEF Returned, Told
<1>16. ASSUME NEW n \in Modules, \A j : Open(j, n) => Open(j, n)'
       PROVE  cur[n][1] = "call" => Open(cur[n][2], n)' /\ ran[cur[n][2]] = 1
  <2> SUFFICES ASSUME cur[n][1] = "call"
               PROVE  Open(cur[n][2], n)' /\ ran[cur[n][2]] = 1
    OBVIOUS
  <2>1. PICK c : c = cur[n][2]  OBVIOUS
  <2>2. Open(c, n) /\ ran[c] = 1  BY <2>1 DEF RpcInv, Served
  <2>3. Open(c, n)' /\ cur'[n][2] = c  BY <2>1, <2>2, <1>0, <1>16
  <2> QED  BY <2>1, <2>2, <2>3, <1>0 DEF Open, Answered, ChanRet, Is
<1>17. ASSUME NEW q \in Procs, \A n \in Modules : \A j \in Elems(chanCall'[n]) : j \in Elems(chanCall[n]) \/ j = k
       PROVE  Sent(q)'
  <2>1. Sent(q)  BY DEF RpcInv
  <2>2. st[q] = "send" => /\ sync[q] # k /\ ops'[sync[q]] = ops[sync[q]]
                          /\ ops[sync[q]].to \in Modules
    BY <2>1, <1>4, OpsIs DEF Sent, By, Is
  <2>3. st[q] = "send" => sync[q] \notin Elems(chanCall'[ops[sync[q]].to])
    BY <2>1, <2>2, <1>17 DEF Sent
  <2> QED  BY <2>1, <2>2, <2>3, <1>0, <1>11 DEF Sent
<1>18. CASE Got(k, "many") /\ UNCHANGED <<chanCall, chanAsynRet, pendingAsynCall>>
  <2>1. TypeOK'  BY <1>0, <1>2, <1>5, <1>18 DEF TypeOK
  <2>2. RpcInv'
    <3>1. \A j : Is(j, {"Go", "Call", "AsynCall"}) => got'[j] = got[j]  BY <1>6 DEF Is
    <3> QED  BY <3>1, <1>0, <1>2, <1>18, RpcFrame
  <2>3. \A n \in Modules : Outstanding(n)' = Outstanding(n)
    <3>1. got'[k] # <<>>  BY <1>2, <1>3, <1>18, GotIs, OneIs
    <3> QED  BY <3>1, <1>2, <1>4, <1>6, <1>10 DEF Outstanding
  <2>4. Counts'  BY <2>3, <1>0, <1>13, <1>18 DEF Counts
  <2> QED  BY <2>1, <2>2, <2>4, <1>7, <1>8, <1>9
<1>19. CASE ~TooMany(p) /\ pendingAsynCall' = [pendingAsynCall EXCEPT ![p] = @ + 1] /\ got' = got
  <2>1. \A n \in Modules : Outstanding(n)' = IF n = p THEN Outstanding(n) \cup {k} ELSE Outstanding(n)
    <3> SUFFICES ASSUME NEW n \in Modules
                 PROVE  Outstanding(n)' = IF n = p THEN Outstanding(n) \cup {k} ELSE Outstanding(n)
      OBVIOUS
    <3>1. \A i \in 1 .. Len(ops) : i \in Outstanding(n)' <=> i \in Outstanding(n)
      BY <1>4, <1>6, <1>10 DEF Outstanding
    <3>2. k \in Outstanding(n)' <=> n = p  BY <1>2, <1>3, <1>12, <1>19 DEF Outstanding
    <3>3. Outstanding(n)' \subseteq 1 .. Len(ops') /\ Outstanding(n) \subseteq 1 .. Len(ops)
      BY DEF Outstanding
    <3>4. \A i \in Outstanding(n)' : i \in Outstanding(n) \/ i = k  BY <3>1, <3>3, <1>2
    <3>5. \A i \in Outstanding(n) : i \in Outstanding(n)'  BY <3>1, <3>3
    <3>6. CASE n = p  BY <3>2, <3>4, <3>5, <3>6
    <3>7. CASE n # p  BY <3>2, <3>4, <3>5, <3>7
    <3> QED  BY <3>6, <3>7
  <2>2. Cardinality(Outstanding(p) \cup {k}) = Cardinality(Outstanding(p)) + 1
    <3>1. k \notin Outstanding(p)  BY <1>2 DEF Outstanding
    <3> QED  BY <3>1, CountsAre, OneMore
  <2>3. \A n \in Modules : pendingAsynCall'[n] = IF n = p THEN pendingAsynCall[n] + 1
                                                 ELSE pendingAsynCall[n]
    BY <1>19 DEF TypeOK
  <2>4. pendingAsynCall'[p] <= AsynLen
    <3>1. pendingAsynCall[p] \in Nat /\ AsynLen \in Nat /\ ~(pendingAsynCall[p] >= AsynLen)
      BY <1>19, SkeletonAssumption DEF TooMany, TypeOK
    <3>2. \A a, b \in Nat : ~(a >= b) => a + 1 <= b  OBVIOUS
    <3> QED  BY <2>3, <3>1, <3>2
  <2>5. \A n \in Modules : /\ pendingAsynCall'[n] = Cardinality(Outstanding(n)')
                           /\ pendingAsynCall'[n] <= AsynLen
    BY <2>1, <2>2, <2>3, <2>4 DEF Counts
  <2>6. loop[p] # "done"  BY <1>2 DEF Counts
  <2>7. Counts'  BY <2>3, <2>5, <2>6, <1>0, <1>13 DEF Counts
  <2>8. pendingAsynCall' \in [Modules -> Nat]
    <3>1. pendingAsynCall \in [Modules -> Nat]  BY DEF TypeOK
    <3> QED  BY <3>1, <1>19, PlusIs
  <2>9. ASSUME NEW r \in {"no function", "closed", "full"}, chanCall' = chanCall,
               chanAsynRet' = [chanAsynRet EXCEPT ![p] = Append(@, <<k, r>>)]
        PROVE  TypeOK' /\ RpcInv'
    <3> DEFINE x == <<k, r>>
               T == Ids \X Results
    <3>1. x \in T /\ x[1] = k /\ x[2] = r /\ r # "ran"  BY <1>2, OneIs
    <3>2. chanAsynRet \in [Modules -> Seq(T)]  BY DEF TypeOK
    <3> HIDE DEF x, T
    <3>3. /\ chanAsynRet' \in [Modules -> Seq(T)] /\ chanAsynRet'[p] = Append(chanAsynRet[p], x)
          /\ \A n \in Modules : n # p => chanAsynRet'[n] = chanAsynRet[n]
          /\ Elems(chanAsynRet'[p]) = Elems(chanAsynRet[p]) \cup {x}
          /\ chanAsynRet[p] \in Seq(T)
      <4>1. PICK c : c = chanAsynRet[p]  OBVIOUS
      <4>2. c \in Seq(T)  BY <4>1, <3>2
      <4> DEFINE t == Append(c, x)
      <4>3. t \in Seq(T) /\ Elems(t) = Elems(c) \cup {x}
        <5>1. x \in T  BY <3>1
        <5> QED  BY <4>2, <5>1, ElemsOfAppend, ZenonT(100)
      <4>4. chanAsynRet' = [chanAsynRet EXCEPT ![p] = t]  BY <4>1, <2>9 DEF x
      <4>5. t = Append(chanAsynRet[p], x)  BY <4>1
      <4> HIDE DEF t
      <4>6. /\ chanAsynRet' \in [Modules -> Seq(T)] /\ chanAsynRet'[p] = t
            /\ \A n \in Modules : n # p => chanAsynRet'[n] = chanAsynRet[n]
        BY <4>3, <4>4, <3>2
      <4> QED  BY <4>1, <4>2, <4>3, <4>5, <4>6
    <3>8. TypeOK'  BY <3>3, <2>8, <2>9, <1>0, <1>2, <1>5 DEF TypeOK, T
    <3>9. ASSUME NEW j, NEW n, Open(j, n)  PROVE Open(j, n)'
      <4>1. /\ ops'[j] = ops[j] /\ ops[j].by \in Procs
            /\ ops[j].kind = "AsynCall" => ops[j].by \in Modules
        BY <3>9, <1>4, OpsIs DEF Open, Is, OpsInv, Kinds
      <4>2. \A y \in Elems(ChanRet(j)') : y \in Elems(ChanRet(j)) \/ y[1] = k
        <5>1. CASE ops[j].kind = "AsynCall" /\ ops[j].by = p
          <6>1. ChanRet(j)' = chanAsynRet'[p] /\ ChanRet(j) = chanAsynRet[p]
            BY <5>1, <4>1 DEF ChanRet
          <6> QED  BY <6>1, <3>1, <3>3
        <5>2. CASE ~(ops[j].kind = "AsynCall" /\ ops[j].by = p)
          <6>1. ChanRet(j)' = ChanRet(j)  BY <5>2, <4>1, <3>3, <1>0 DEF ChanRet
          <6> QED  BY <6>1
        <5> QED  BY <5>1, <5>2
      <4> QED  BY <4>2, <3>9, <1>14
    <3>10. ASSUME NEW n \in Modules  PROVE Served(n)'
      <4>1. Served(n)  BY DEF RpcInv
      <4>2. cur[n][1] = "call" => Open(cur[n][2], n)' /\ ran[cur[n][2]] = 1  BY <3>9, <1>16
      <4> QED  BY <4>1, <4>2, <3>9, <2>9, <1>0 DEF Served
    <3>11. ASSUME NEW n \in Modules  PROVE CalledBack(n)'
      <4>1. CalledBack(n)  BY DEF RpcInv
      <4>2. \A y \in Elems(chanAsynRet[n]) :
              By(y[1], {"AsynCall"}, n)' /\ got'[y[1]] = <<>> /\ Told(y)' /\ y[1] # k
        BY <4>1, <1>0, <1>11 DEF CalledBack, Told
      <4>3. CASE n # p  BY <4>1, <4>2, <4>3, <3>3 DEF CalledBack
      <4>4. CASE n = p
        <5>1. By(x[1], {"AsynCall"}, p)' /\ got'[x[1]] = <<>> /\ Told(x)'
          BY <3>1, <1>0, <1>3, <1>12, <1>19 DEF Told
        <5>2. \A y \in Elems(chanAsynRet'[p]) :
                By(y[1], {"AsynCall"}, p)' /\ got'[y[1]] = <<>> /\ Told(y)'
          BY <5>1, <4>2, <4>4, <3>3
        <5>3. \A y \in Elems(chanAsynRet[p]) : y[1] # x[1]  BY <4>2, <4>4, <3>1
        <5>4. \A h, l \in DOMAIN chanAsynRet[p] :
                chanAsynRet[p][h][1] = chanAsynRet[p][l][1] => h = l
          BY <4>1, <4>4 DEF CalledBack
        <5>5. \A h, l \in DOMAIN Append(chanAsynRet[p], x) :
                Append(chanAsynRet[p], x)[h][1] = Append(chanAsynRet[p], x)[l][1] => h = l
          <6>1. PICK c : c = chanAsynRet[p]  OBVIOUS
          <6>2. /\ c \in Seq(T) /\ x \in T /\ \A y \in Elems(c) : y[1] # x[1]
                /\ \A h, l \in DOMAIN c : c[h][1] = c[l][1] => h = l
            BY <6>1, <5>3, <5>4, <3>1, <3>3
          <6>3. \A h, l \in DOMAIN Append(c, x) : Append(c, x)[h][1] = Append(c, x)[l][1] => h = l
            BY <6>2, KeyIs, Zenon
          <6> QED  BY <6>1, <6>3
        <5>6. \A h, l \in DOMAIN chanAsynRet'[p] :
                chanAsynRet'[p][h][1] = chanAsynRet'[p][l][1] => h = l
          BY <5>5, <3>3
        <5> QED  BY <4>4, <5>2, <5>6 DEF CalledBack
      <4> QED  BY <4>3, <4>4
    <3>12. \A q \in Procs : Sent(q)'  BY <2>9, <1>17
    <3> QED  BY <3>8, <3>10, <3>11, <3>12, <1>15 DEF RpcInv
  <2>10. ASSUME chanCall' = [chanCall EXCEPT ![m] = Append(@, k)], chanAsynRet' = chanAsynRet
         PROVE  TypeOK' /\ RpcInv'
    <3> DEFINE s == Append(chanCall[m], k)
    <3>1. /\ s \in Seq(Ids) /\ Elems(s) = Elems(chanCall[m]) \cup {k}
          /\ Distinct(chanCall[m]) /\ k \notin Elems(chanCall[m]) => Distinct(s)
      <4>1. chanCall[m] \in Seq(Ids)  BY DEF TypeOK
      <4> QED  BY <4>1, <1>2, AppendIs
    <3>2. chanCall' = [chanCall EXCEPT ![m] = s]  BY <2>10
    <3> HIDE DEF s
    <3>3. \A n \in Modules : chanCall'[n] = IF n = m THEN s ELSE chanCall[n]  BY <3>2 DEF TypeOK
    <3>4. chanCall' \in [Modules -> Seq(Ids)]  BY <3>1, <3>2 DEF TypeOK
    <3>5. TypeOK'  BY <3>4, <2>8, <2>10, <1>0, <1>2, <1>5 DEF TypeOK
    <3>6. ASSUME NEW j, NEW n, Open(j, n)  PROVE Open(j, n)'
      <4>1. ops'[j] = ops[j]  BY <3>6, <1>4 DEF Open, Is
      <4>2. ChanRet(j)' = ChanRet(j)  BY <4>1, <2>10, <1>0 DEF ChanRet
      <4> QED  BY <4>2, <3>6, <1>14
    <3>7. Open(k, m)'
      <4>1. \A y \in Elems(chanAsynRet[p]) : y[1] # k
        BY <1>11 DEF RpcInv, CalledBack
      <4>2. ~Answered(k)'  BY <4>1, <2>10, <1>2 DEF Answered, ChanRet
      <4> QED  BY <4>2, <1>2, <1>3, <1>19 DEF Open, Is
    <3>8. \A n \in Modules : k \notin Elems(chanCall[n])
      BY <1>2 DEF RpcInv, Served, Open, Is
    <3>9. ASSUME NEW n \in Modules  PROVE Served(n)'
      <4>1. Served(n)  BY DEF RpcInv
      <4>2. cur[n][1] = "call" => Open(cur[n][2], n)' /\ ran[cur[n][2]] = 1  BY <3>6, <1>16
      <4>3. Distinct(chanCall'[n])  BY <4>1, <3>1, <3>3, <3>8 DEF Served
      <4>4. \A j \in Elems(chanCall'[n]) : Open(j, n)' /\ ran[j] = 0
        BY <4>1, <3>1, <3>3, <3>6, <3>7, <1>3 DEF Served
      <4> QED  BY <4>2, <4>3, <4>4, <1>0 DEF Served
    <3>10. ASSUME NEW n \in Modules  PROVE CalledBack(n)'
      <4>1. CalledBack(n)  BY DEF RpcInv
      <4> QED  BY <4>1, <2>10, <1>0, <1>11 DEF CalledBack, Told
    <3>11. \A q \in Procs : Sent(q)'  BY <3>1, <3>3, <1>17
    <3> QED  BY <3>5, <3>9, <3>10, <3>11, <1>15 DEF RpcInv
  <2> QED  BY <2>7, <2>9, <2>10, <1>1, <1>7, <1>8, <1>9, <1>18
<1> QED  BY <1>1, <1>18, <1>19

-----------------------------------------------------------------------------
LEMMA NextKeeps == IInv /\ [Next]_vars => IInv'
<1> SUFFICES ASSUME IInv, [Next]_vars  PROVE IInv'  OBVIOUS
<1>1. ASSUME NEW p \in Procs, Client(p)  PROVE IInv'
  <2>1. \A m \in Modules : m \in Modules \ {p} => m \in Modules  OBVIOUS
  <2> QED  BY <1>1, CallKeeps, SendKeeps, ReceiveKeeps DEF Client
<1>2. ASSUME NEW m \in Modules, User(m)  PROVE IInv'
  BY <1>2, AsynCallKeeps, GoKeeps, LinearContextGoKeeps, AfterFuncKeeps, StopKeeps
     DEF User, CronFunc
<1>3. ASSUME NEW m \in Modules, Goroutines(m)  PROVE IInv'
  BY <1>3, LinearTakeKeeps, LinearEndsKeeps, GoEndsKeeps DEF Goroutines
<1>4. ASSUME NEW m \in Modules, Run(m)  PROVE IInv'
  BY <1>4, ClientCbKeeps, ServerExecKeeps, GoCbKeeps, TimerCbKeeps, FinishKeeps,
     ServerCloseKeeps, DrainKeeps, ClosingKeeps DEF Run
<1>5. ASSUME NEW i \in Ids, Fire(i) \/ FireSend(i)  PROVE IInv'
  BY <1>5, FireKeeps, FireSendKeeps
<1>6. CASE UNCHANGED vars
  <2>1. UNCHANGED <<ops, loop, st, cur, sync, chanCall, closed, chanSyncRet, chanAsynRet,
                    pendingAsynCall, got, running, linearGo, execution, chanCb, pendingGo,
                    timers, cb, chanTimer, main, closeSig, ran>>
    BY <1>6 DEF vars, proc, rpc, gos, tms, destroy
  <2>2. TypeOK'  BY <2>1 DEF IInv, TypeOK
  <2>3. OpsInv'  BY <2>1 DEF IInv, OpsInv
  <2>4. RpcInv'  BY <2>1, StillGrows, RpcFrame DEF IInv
  <2>5. Counts'  BY <2>1, StillGrows, CountsFrame DEF IInv
  <2>6. GoInv'  BY <2>1, StillGrows, GoFrame DEF IInv
  <2>7. TimerInv'  BY <2>1, StillGrows, TimerFrame DEF IInv
  <2> QED  BY <2>2, <2>3, <2>4, <2>5, <2>6, <2>7 DEF IInv
<1> QED  BY <1>1, <1>2, <1>3, <1>4, <1>5, <1>6, DestroyKeeps DEF Next, Terminated

LEMMA Invariant == Spec => []IInv
BY InitIs, NextKeeps, PTL DEF Spec

-----------------------------------------------------------------------------
\* Of two functions of a LinearContext the first has its callback before the second.
LEMMA OrderKept == IInv => LinearOrder
<1> SUFFICES ASSUME IInv, NEW i \in 1 .. Len(ops), NEW j \in 1 .. Len(ops), i < j,
                    ops[i].kind = "linear", ops[j].kind = "linear", ops[i].by = ops[j].by,
                    got[j] # <<>>, got[i] = <<>>
             PROVE  FALSE
  BY DEF LinearOrder
<1>1. PICK m : m = ops[i].by  OBVIOUS
<1>2. m \in Modules /\ By(i, {"linear"}, m) /\ By(j, {"linear"}, m) /\ j # 0
  BY <1>1, OpsIs DEF IInv, OpsInv, Kinds, By, Is
<1>3. Somewhere(m, i) /\ Behind(m, i, j) /\ GoPlaced(m)  BY <1>2 DEF IInv, GoInv, Linear
<1>4. j \notin Elems(linearGo[m]) /\ j # execution[m] /\ j \notin Elems(chanCb[m])
  BY <1>2, <1>3 DEF GoPlaced, Unrun
<1> QED  BY <1>3, <1>4, BeforeIs DEF Somewhere, Behind

\* For any modules: the callbacks of a LinearContext (go.go) run in the order of
\* its Go calls, whichever of its goroutines gets mutexExecution first.
THEOREM LinearInOrder == Spec => []LinearOrder
BY Invariant, OrderKept, PTL

LEMMA OneToOne ==
  ASSUME NEW D, IsFiniteSet(D), NEW O, IsFiniteSet(O), NEW f \in [D -> O],
         \A k, l \in D : f[k] = f[l] => k = l
  PROVE  Cardinality(D) <= Cardinality(O)
<1>1. f \in Injection(D, O)  BY DEF Injection, IsInjective
<1> QED  BY <1>1, FS_Injection

\* The answers in the channel of a module are of as many of its calls, all pending.
LEMMA KeysAre ==
  ASSUME NEW S, NEW K, NEW s \in Seq(S \X K),
         \A k, l \in DOMAIN s : s[k][1] = s[l][1] => k = l,
         NEW O, IsFiniteSet(O), \A y \in Elems(s) : y[1] \in O
  PROVE  Len(s) <= Cardinality(O)
<1> DEFINE f == [k \in 1 .. Len(s) |-> s[k][1]]
<1>1. Len(s) \in Nat /\ DOMAIN s = 1 .. Len(s)  OBVIOUS
<1>2. \A k \in 1 .. Len(s) : s[k][1] \in O  BY <1>1 DEF Elems
<1>3. f \in [1 .. Len(s) -> O] /\ \A k, l \in 1 .. Len(s) : f[k] = f[l] => k = l
  BY <1>1, <1>2
<1>4. IsFiniteSet(1 .. Len(s)) /\ Cardinality(1 .. Len(s)) = Len(s)
  <2>1. PICK n \in Nat : n = Len(s)  BY <1>1
  <2>2. 1 \in Int /\ n \in Int  BY <2>1
  <2>3. IsFiniteSet(1 .. n) /\ Cardinality(1 .. n) = IF 1 > n THEN 0 ELSE n - 1 + 1
    BY <2>2, FS_Interval
  <2>4. (IF 1 > n THEN 0 ELSE n - 1 + 1) = n  BY <2>1
  <2> QED  BY <2>1, <2>3, <2>4
<1> DEFINE D == 1 .. Len(s)
<1> HIDE DEF f, D
<1>5. IsFiniteSet(D) /\ f \in [D -> O] /\ \A k, l \in D : f[k] = f[l] => k = l
  BY <1>3, <1>4 DEF D
<1>6. Cardinality(D) <= Cardinality(O)  BY <1>5, OneToOne
<1> QED  BY <1>4, <1>6 DEF D

LEMMA RoomIs ==
  ASSUME IInv, NEW i, NEW m \in Modules, Open(i, m)
  PROVE  RetRoom(i)
<1> USE DEF IInv
<1>0. PICK p : p = ops[i].by  OBVIOUS
<1>1. /\ i \in 1 .. Len(ops) /\ ops[i].kind \in {"Go", "Call", "AsynCall"} /\ p \in Procs
      /\ got[i] = <<>> /\ \A x \in Elems(ChanRet(i)) : x[1] # i
      /\ ops[i].kind = "Call" => sync[p] = i
      /\ ops[i].kind = "AsynCall" => p \in Modules
  BY <1>0, OpsIs DEF Open, Is, Answered, OpsInv, Kinds
<1>2. CASE ops[i].kind = "Go"  BY <1>2 DEF RetRoom
<1>3. CASE ops[i].kind = "Call"
  <2>1. ChanRet(i) = chanSyncRet[p]  BY <1>0, <1>3 DEF ChanRet
  <2>2. Returned(p) /\ chanSyncRet[p] \in Seq(Ids \X Results)  BY <1>1 DEF RpcInv, TypeOK
  <2>3. chanSyncRet[p] = <<>>
    <3> SUFFICES ASSUME chanSyncRet[p] # <<>>  PROVE FALSE  OBVIOUS
    <3>1. Head(chanSyncRet[p]) \in Elems(chanSyncRet[p])  BY <2>2, TailIs
    <3> QED  BY <3>1, <2>1, <2>2, <1>1, <1>3 DEF Returned
  <2> QED  BY <2>1, <2>3, <1>3, NoElems DEF RetRoom
<1>4. CASE ops[i].kind = "AsynCall"
  <2>1. p \in Modules /\ ChanRet(i) = chanAsynRet[p]  BY <1>0, <1>1, <1>4 DEF ChanRet
  <2>2. PICK s, O : s = chanAsynRet[p] /\ O = Outstanding(p)  OBVIOUS
  <2>3. s \in Seq(Ids \X Results) /\ CalledBack(p)  BY <2>1, <2>2 DEF RpcInv, TypeOK
  <2>4. IsFiniteSet(O) /\ i \in O
    <3>1. By(i, {"AsynCall"}, p)  BY <1>0, <1>1, <1>4 DEF By, Is
    <3> QED  BY <3>1, <1>1, <2>2, CountsAre DEF Outstanding
  <2>5. Cardinality(O) <= AsynLen  BY <2>1, <2>2 DEF Counts
  <2>6. \A y \in Elems(s) : y[1] \in O \ {i}
    <3> SUFFICES ASSUME NEW y \in Elems(s)  PROVE y[1] \in O \ {i}  OBVIOUS
    <3>1. By(y[1], {"AsynCall"}, p) /\ got[y[1]] = <<>>  BY <2>2, <2>3 DEF CalledBack
    <3>2. y[1] \in 1 .. Len(ops)  BY <3>1 DEF By, Is
    <3> QED  BY <3>1, <3>2, <2>1, <2>2, <1>1 DEF Outstanding
  <2>7. \A k, l \in DOMAIN s : s[k][1] = s[l][1] => k = l  BY <2>2, <2>3 DEF CalledBack
  <2>8. IsFiniteSet(O \ {i}) /\ Cardinality(O \ {i}) = Cardinality(O) - 1
        /\ Cardinality(O) \in Nat
    BY <2>4, OneLess, FS_RemoveElement, FS_CardinalityType
  <2>9. PICK W : W = O \ {i}  OBVIOUS
  <2>10. Len(s) <= Cardinality(W)
    <3>1. IsFiniteSet(W) /\ \A y \in Elems(s) : y[1] \in W  BY <2>6, <2>8, <2>9
    <3> QED  BY <3>1, <2>3, <2>7, KeysAre, Zenon
  <2>11. Len(s) \in Nat /\ AsynLen \in Nat  BY <2>3, SkeletonAssumption
  <2>12. Len(s) < AsynLen  BY <2>5, <2>8, <2>9, <2>10, <2>11
  <2> QED  BY <2>1, <2>2, <2>12, <1>4 DEF RetRoom
<1> QED  BY <1>1, <1>2, <1>3, <1>4

LEMMA RoomKept == IInv => AnswerHasRoom
<1> SUFFICES ASSUME IInv, NEW m \in Modules
             PROVE  /\ st[m] = "busy" /\ cur[m][1] = "call" => RetRoom(cur[m][2])
                    /\ loop[m] = "server.Close" /\ chanCall[m] # <<>> => RetRoom(Head(chanCall[m]))
  BY DEF AnswerHasRoom
<1>1. Served(m) /\ chanCall[m] \in Seq(Ids)  BY DEF IInv, RpcInv, TypeOK
<1>2. cur[m][1] = "call" => RetRoom(cur[m][2])  BY <1>1, RoomIs DEF Served
<1>3. chanCall[m] # <<>> => RetRoom(Head(chanCall[m]))
  <2>1. chanCall[m] # <<>> => Head(chanCall[m]) \in Elems(chanCall[m])  BY <1>1, TailIs
  <2> QED  BY <1>1, <2>1, RoomIs DEF Served
<1> QED  BY <1>2, <1>3

\* For any modules, agents and channel lengths: Server.ret (chanrpc.go) never finds the
\* channel of its caller full, neither after a call nor from Close: pendingAsynCall
\* counts every answer that is in ChanAsynRet or can still get there.
THEOREM ServerNeverBlocks == Spec => []AnswerHasRoom
BY Invariant, RoomKept, PTL

-----------------------------------------------------------------------------
\* Run returns when both counters are 0: then nothing is left without its callback.
LEMMA DoneIs ==
  ASSUME IInv, NEW i \in 1 .. Len(ops), NEW m \in Modules, ops[i].by = m, loop[m] = "done",
         ops[i].kind \in {"go", "linear", "AsynCall"}
  PROVE  got[i] # <<>>
<1> USE DEF IInv
<1> SUFFICES ASSUME got[i] = <<>>  PROVE FALSE  OBVIOUS
<1>1. /\ Cardinality(Outstanding(m)) = 0 /\ Cardinality(Unfinished(m)) = 0
      /\ IsFiniteSet(Outstanding(m)) /\ IsFiniteSet(Unfinished(m))
  BY CountsAre DEF Counts
<1>2. Outstanding(m) = {} /\ Unfinished(m) = {}  BY <1>1, FS_EmptySet
<1>3. CASE ops[i].kind = "AsynCall"
  <2>1. i \in Outstanding(m)  BY <1>3 DEF Outstanding, By, Is
  <2> QED  BY <2>1, <1>2
<1>4. CASE ops[i].kind \in {"go", "linear"}
  <2>1. i \in Unfinished(m)  BY <1>4 DEF Unfinished, By, Is
  <2> QED  BY <2>1, <1>2
<1> QED  BY <1>3, <1>4

LEMMA TruthKept == IInv => ResultIsTrue
<1> SUFFICES ASSUME IInv, NEW i \in 1 .. Len(ops)
             PROVE  /\ Len(got[i]) <= 1
                    /\ ops[i].kind \notin {"cron"} => ran[i] <= 1
                    /\ \A k \in 1 .. Len(got[i]) : (got[i][k] = "ran") = (ran[i] = 1)
                    /\ /\ ops[i].by \in Modules /\ loop[ops[i].by] = "done"
                       /\ ops[i].kind \in {"go", "linear", "AsynCall"}
                       => got[i] # <<>>
  BY DEF ResultIsTrue
<1> USE DEF IInv
<1>1. i \in Ids /\ got[i] \in {<<>>} \cup {<<r>> : r \in Results}  BY OpsIs DEF TypeOK
<1>2. ops[i].kind # "cron" => ran[i] <= 1  BY DEF OpsInv
<1>3. Len(got[i]) <= 1 /\ \A k \in 1 .. Len(got[i]) : (got[i][k] = "ran") = (ran[i] = 1)
  <2>1. CASE got[i] = <<>>  BY <2>1
  <2>2. CASE got[i] # <<>>
    <3>1. PICK r \in Results : got[i] = <<r>>  BY <2>2, <1>1
    <3>2. got[i] = <<"ran">> <=> ran[i] = 1  BY <2>2 DEF OpsInv
    <3>3. r = "ran" <=> ran[i] = 1  BY <3>1, <3>2
    <3>4. Len(got[i]) = 1 /\ got[i][1] = r  BY <3>1
    <3>5. \A k \in 1 .. 1 : k = 1  OBVIOUS
    <3> QED  BY <3>3, <3>4, <3>5
  <2> QED  BY <2>1, <2>2
<1>4. /\ ops[i].by \in Modules /\ loop[ops[i].by] = "done"
      /\ ops[i].kind \in {"go", "linear", "AsynCall"}
      => got[i] # <<>>
  BY DoneIs
<1> QED  BY <1>2, <1>3, <1>4

\* For any modules, agents and channel lengths: an operation ends once, an error
\* means that its function did not run, and a module that has returned from
\* Skeleton.Run has run the callback of every Go and AsynCall it started.
THEOREM EveryResultTrue == Spec => []ResultIsTrue
BY Invariant, TruthKept, PTL

-----------------------------------------------------------------------------
\* A timer that was stopped has no callback any more.
Silent == \A i \in stopped : i \in 1 .. Len(ops) /\ ops[i].kind \in {"after", "cron"} /\ ~cb[i]
Quiet == \A i \in stopped : ran'[i] = ran[i]

\* Most actions start no function and give no timer a callback.
LEMMA SilentFrame ==
  ASSUME Silent, Grows, UNCHANGED <<cb, stopped, ran>>
  PROVE  Silent' /\ Quiet
BY DEF Silent, Quiet, Grows

\* A function that runs is not of a timer.
LEMMA SilentRan ==
  ASSUME IInv, Silent, ops' = ops, UNCHANGED <<cb, stopped>>, NEW i, Ran(i),
         Is(i, {"Go", "Call", "AsynCall", "go", "linear"})
  PROVE  Silent' /\ Quiet
<1>1. i \notin stopped  BY DEF Silent, Is
<1>2. ran \in [Ids -> Nat] /\ stopped \subseteq Ids  BY OpsIs DEF IInv, TypeOK, Silent
<1>3. Quiet  BY <1>1, <1>2 DEF Quiet, Ran
<1> QED  BY <1>3 DEF Silent

LEMMA SilentAfter ==
  ASSUME IInv, Silent, NEW kind \in {"after", "cron"}, NEW m \in Modules, AfterFunc(kind, m)
  PROVE  Silent' /\ Quiet
<1>1. Start(kind, m, m) /\ m \in Procs /\ kind \in Kinds  BY OpsIs DEF AfterFunc, IInv, Kinds
<1>2. Grows /\ New \notin 1 .. Len(ops)  BY <1>1, StartIs DEF IInv
<1>3. cb' = [cb EXCEPT ![New] = TRUE] /\ ran' = ran /\ stopped' = stopped
  BY DEF AfterFunc
<1>4. \A i \in stopped : i \in 1 .. Len(ops) /\ ~cb'[i]
  <2>1. cb \in [Ids -> BOOLEAN]  BY DEF IInv, TypeOK
  <2> QED  BY <2>1, <1>2, <1>3, OpsIs DEF Silent, IInv
<1> QED  BY <1>2, <1>3, <1>4 DEF Silent, Quiet, Grows

LEMMA SilentStop ==
  ASSUME IInv, Silent, NEW m \in Modules, NEW i \in Ids, Stop(m, i)
  PROVE  Silent' /\ Quiet
<1>1. /\ i \in 1 .. Len(ops) /\ timers[i] # "none" /\ stopped' = stopped \cup {i}
      /\ cb' = [cb EXCEPT ![i] = FALSE] /\ ops' = ops /\ ran' = ran
  BY DEF Stop
<1>2. ops[i].kind \in {"after", "cron"}  BY <1>1 DEF IInv, TimerInv
<1>3. cb \in [Ids -> BOOLEAN]  BY DEF IInv, TypeOK
<1>4. \A j \in stopped' : j \in 1 .. Len(ops) /\ ops[j].kind \in {"after", "cron"} /\ ~cb'[j]
  <2> SUFFICES ASSUME NEW j \in stopped'
               PROVE  j \in 1 .. Len(ops) /\ ops[j].kind \in {"after", "cron"} /\ ~cb'[j]
    OBVIOUS
  <2>1. CASE j = i  BY <2>1, <1>1, <1>2, <1>3
  <2>2. CASE j # i
    <3>1. j \in 1 .. Len(ops) /\ ops[j].kind \in {"after", "cron"} /\ ~cb[j]
      BY <2>2, <1>1 DEF Silent
    <3>2. j \in Ids  BY <3>1, OpsIs DEF IInv
    <3> QED  BY <3>1, <3>2, <2>2, <1>1, <1>3
  <2> QED  BY <2>1, <2>2
<1> QED  BY <1>1, <1>4 DEF Silent, Quiet

\* Timer.Cb calls the callback it finds, which a stopped timer has not.
LEMMA SilentTimerCb ==
  ASSUME IInv, Silent, NEW m \in Modules, TimerCb(m)
  PROVE  Silent' /\ Quiet
<1>0. PICK i : i = Head(chanTimer[m])  OBVIOUS
<1>1. /\ ops' = ops /\ stopped' = stopped
      /\ \/ UNCHANGED <<cb, ran>>
         \/ cb[i] /\ Ran(i) /\ (cb' = cb \/ cb' = [cb EXCEPT ![i] = FALSE])
  BY <1>0 DEF TimerCb, CronNext
<1>2. /\ cb \in [Ids -> BOOLEAN] /\ ran \in [Ids -> Nat] /\ stopped \subseteq Ids
  BY OpsIs DEF IInv, TypeOK, Silent
<1>3. Quiet  BY <1>1, <1>2 DEF Quiet, Silent, Ran
<1>4. \A j \in stopped : ~cb'[j]  BY <1>1, <1>2 DEF Silent
<1> QED  BY <1>1, <1>3, <1>4 DEF Silent

LEMMA SilentKept == IInv /\ Silent /\ [Next]_vars => Silent' /\ Quiet
<1> SUFFICES ASSUME IInv, Silent, [Next]_vars  PROVE Silent' /\ Quiet  OBVIOUS
<1> USE DEF proc, rpc, gos, tms, destroy
<1>0. TypeOK /\ Modules \subseteq Procs  BY OpsIs DEF IInv
<1>1. ASSUME NEW p \in Procs, Client(p)  PROVE Silent' /\ Quiet
  <2>1. ASSUME NEW m \in Modules, NEW kind \in {"Go", "Call"}, Call(kind, p, m)
        PROVE  Silent' /\ Quiet
    <3>1. Start(kind, p, m) /\ kind \in Kinds  BY <2>1 DEF Call, Kinds
    <3>2. UNCHANGED <<cb, stopped, ran>>  BY <2>1 DEF Call
    <3> QED  BY <3>1, <3>2, <1>0, StartIs, SilentFrame
  <2>2. CASE Send(p) \/ Receive(p)
    <3>1. ops' = ops /\ UNCHANGED <<cb, stopped, ran>>  BY <2>2 DEF Send, Receive
    <3> QED  BY <3>1, <1>0, StillGrows, SilentFrame
  <2> QED  BY <1>1, <2>1, <2>2 DEF Client
<1>2. ASSUME NEW m \in Modules, User(m)  PROVE Silent' /\ Quiet
  <2>1. ASSUME NEW to \in Modules, AsynCall(m, to)  PROVE Silent' /\ Quiet
    <3>1. Start("AsynCall", m, to) /\ "AsynCall" \in Kinds  BY <2>1 DEF AsynCall, Kinds
    <3>2. UNCHANGED <<cb, stopped, ran>>  BY <2>1 DEF AsynCall
    <3> QED  BY <3>1, <3>2, <1>0, StartIs, SilentFrame
  <2>2. CASE Go(m)
    <3>1. Start("go", m, m) /\ "go" \in Kinds  BY <2>2 DEF Go, Kinds
    <3>2. UNCHANGED <<cb, stopped, ran>>  BY <2>2 DEF Go
    <3> QED  BY <3>1, <3>2, <1>0, StartIs, SilentFrame
  <2>3. CASE LinearContextGo(m)
    <3>1. Start("linear", m, m) /\ "linear" \in Kinds  BY <2>3 DEF LinearContextGo, Kinds
    <3>2. UNCHANGED <<cb, stopped, ran>>  BY <2>3 DEF LinearContextGo
    <3> QED  BY <3>1, <3>2, <1>0, StartIs, SilentFrame
  <2> QED  BY <1>2, <2>1, <2>2, <2>3, SilentAfter, SilentStop DEF User, CronFunc
<1>3. ASSUME NEW m \in Modules, Goroutines(m)  PROVE Silent' /\ Quiet
  <2>0. GoPlaced(m)  BY DEF IInv, GoInv
  <2>1. CASE LinearTake(m)
    <3>1. ops' = ops /\ UNCHANGED <<cb, stopped, ran>>  BY <2>1 DEF LinearTake
    <3> QED  BY <3>1, <1>0, StillGrows, SilentFrame
  <2>2. CASE LinearEnds(m)
    <3>1. /\ ops' = ops /\ UNCHANGED <<cb, stopped>> /\ Ran(execution[m])
          /\ execution[m] # 0
      BY <2>2 DEF LinearEnds
    <3>2. Is(execution[m], {"Go", "Call", "AsynCall", "go", "linear"})
      BY <3>1, <2>0 DEF GoPlaced, Unrun, By, Is
    <3> QED  BY <3>1, <3>2, SilentRan
  <2>3. ASSUME NEW i \in Ids, GoEnds(m, i)  PROVE Silent' /\ Quiet
    <3>1. ops' = ops /\ UNCHANGED <<cb, stopped>> /\ Ran(i) /\ i \in running[m]
      BY <2>3 DEF GoEnds
    <3>2. Is(i, {"Go", "Call", "AsynCall", "go", "linear"})
      BY <3>1, <2>0 DEF GoPlaced, Unrun, By, Is
    <3> QED  BY <3>1, <3>2, SilentRan
  <2> QED  BY <1>3, <2>1, <2>2, <2>3 DEF Goroutines
<1>4. ASSUME NEW m \in Modules, Run(m)  PROVE Silent' /\ Quiet
  <2>1. CASE ServerExec(m)
    <3>0. PICK i : i = Head(chanCall[m])  OBVIOUS
    <3>1. ops' = ops /\ UNCHANGED <<cb, stopped>> /\ Ran(i) /\ chanCall[m] # <<>>
      BY <2>1, <3>0 DEF ServerExec
    <3>2. i \in Elems(chanCall[m])
      <4>1. chanCall[m] \in Seq(Ids)  BY <1>0 DEF TypeOK
      <4> QED  BY <3>0, <3>1, <4>1, TailIs
    <3>3. Open(i, m)  BY <3>2 DEF IInv, RpcInv, Served
    <3>4. Is(i, {"Go", "Call", "AsynCall", "go", "linear"})  BY <3>3 DEF Open, Is
    <3> QED  BY <3>1, <3>4, SilentRan
  <2>2. CASE ClientCb(m) \/ GoCb(m) \/ Finish(m)
    <3>1. ops' = ops /\ UNCHANGED <<cb, stopped, ran>>
      BY <2>2 DEF ClientCb, GoCb, Finish
    <3> QED  BY <3>1, <1>0, StillGrows, SilentFrame
  <2>3. CASE ServerClose(m) \/ Drain(m) \/ Closing(m)
    <3>1. ops' = ops /\ UNCHANGED <<cb, stopped, ran>>
      BY <2>3 DEF ServerClose, Drain, Closing
    <3> QED  BY <3>1, <1>0, StillGrows, SilentFrame
  <2> QED  BY <1>4, <2>1, <2>2, <2>3, SilentTimerCb DEF Run
<1>5. ASSUME NEW i \in Ids, Fire(i) \/ FireSend(i)  PROVE Silent' /\ Quiet
  <2>1. ops' = ops /\ UNCHANGED <<cb, stopped, ran>>  BY <1>5 DEF Fire, FireSend
  <2> QED  BY <2>1, <1>0, StillGrows, SilentFrame
<1>6. CASE Destroy \/ UNCHANGED vars
  <2>1. ops' = ops /\ UNCHANGED <<cb, stopped, ran>>  BY <1>6 DEF Destroy, vars
  <2> QED  BY <2>1, <1>0, StillGrows, SilentFrame
<1> QED  BY <1>1, <1>2, <1>3, <1>4, <1>5, <1>6 DEF Next, Terminated

\* The callback of a stopped timer does not run, wherever the timer was when Timer.Stop
\* or Cron.Stop was called: not fired, waiting for room in ChanTimer, or in it.
THEOREM StoppedForGood == Spec => StoppedSilent
<1>1. Init => Silent  BY DEF Init, Silent
<1>2. IInv /\ Silent /\ [Next]_vars => Silent'  BY SilentKept
<1>3. IInv /\ Silent /\ [Next]_vars => [\A i \in stopped : ran'[i] = ran[i]]_vars
  BY SilentKept DEF Quiet
<1> QED  BY Invariant, <1>1, <1>2, <1>3, PTL DEF Spec, StoppedSilent

=============================================================================
