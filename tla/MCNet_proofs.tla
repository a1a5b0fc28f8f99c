----------------------------- MODULE MCNet_proofs -----------------------------
(***************************************************************************)
(* Proofs about the network layer of leaf, for every number of users,      *)
(* addresses, sessions and connections.                                    *)
(***************************************************************************)
EXTENDS MCNet, Integers, FiniteSetTheorems, SequenceTheorems, TLAPS

------------------------------------------------------------------------------
(* Quotients and remainders by numbers whose value is not known. *)

\* The quotient and the remainder of a number.
LEMMA DivMod ==
  ASSUME NEW d \in Nat, d > 0, NEW x \in Int
  PROVE  x % d \in 0 .. d - 1 /\ x \div d \in Int /\ x = d * (x \div d) + (x % d)
OBVIOUS

\* Only zero is a multiple of a number and smaller than it.
LEMMA SmallMultiple ==
  ASSUME NEW d \in Nat, d > 0, NEW k \in Int, d * k < d, d * k > -d
  PROVE  k = 0
OBVIOUS

\* There is one remainder.
LEMMA Remainder ==
  ASSUME NEW d \in Nat, d > 0, NEW q \in Int, NEW r \in 0 .. d - 1, NEW x \in Int, x = d * q + r
  PROVE  x % d = r
OBVIOUS

\* Numbers less than d apart with the same remainder by d are the same.
LEMMA NearSame ==
  ASSUME NEW d \in Nat, d > 0, NEW x \in Int, NEW y \in Int,
         x % d = y % d, x - y < d, y - x < d
  PROVE  x = y
<1>1. /\ x = d * (x \div d) + (x % d) /\ y = d * (y \div d) + (y % d)
      /\ x \div d \in Int /\ y \div d \in Int
  BY DivMod
<1>2. x - y = d * (x \div d - y \div d)  BY <1>1
<1>3. x \div d - y \div d = 0  BY <1>1, <1>2, SmallMultiple
<1> QED  BY <1>2, <1>3

\* A sum modulo d, one of its terms reduced first.
LEMMA WrapAdd ==
  ASSUME NEW d \in Nat, d > 0, NEW x \in Int, NEW k \in Int
  PROVE  ((x % d) + k) % d = (x + k) % d
<1>1. x = d * (x \div d) + (x % d) /\ x \div d \in Int /\ x % d \in Int  BY DivMod
<1>2. PICK y \in Int : y = (x % d) + k  BY <1>1
<1>3. y = d * (y \div d) + (y % d) /\ y \div d \in Int /\ y % d \in 0 .. d - 1  BY DivMod
<1>4. d * (y \div d + x \div d) = d * (y \div d) + d * (x \div d)  BY <1>1, <1>3
<1>5. x + k = d * (y \div d + x \div d) + (y % d)  BY <1>1, <1>2, <1>3, <1>4
<1>6. PICK q \in Int : q = y \div d + x \div d  BY <1>1, <1>3
<1>7. PICK z \in Int : z = x + k  OBVIOUS
<1>8. z = d * q + (y % d)  BY <1>5, <1>6, <1>7
<1>9. z % d = y % d  BY <1>3, <1>8, Remainder
<1> QED  BY <1>2, <1>7, <1>9

Cids == 1 .. MaxCid
Keys == Addrs \X Users
Created == {c \in Cids : c < cid}

\* UdpManager: where the goroutine of the server can be
Routes ==
  {<<"idle">>} \cup {<<"msg", c>> : c \in Created}
    \cup {<<"auth", u, a>> : u \in Users, a \in Addrs}
    \cup {<<"cid", c, a>> : c \in Created, a \in Addrs}

ManagerType ==
  /\ cid \in 1 .. MaxCid + 1 /\ count \in Int /\ sessions \subseteq Created
  /\ sessionHash \in [Keys -> Created \cup {0}]
  /\ auth \in [Users -> Created \cup {0}]
  /\ DOMAIN user = Cids /\ DOMAIN addr = Cids /\ DOMAIN hashKey = Cids
  /\ \A c \in Created : user[c] \in Users /\ addr[c] \in Addrs /\ hashKey[c] \in Keys
  /\ mCloseFlag \in [Cids -> BOOLEAN]
  /\ mAgent \in [Cids -> {"none", "run", "over"}]
  /\ resend \in [Cids -> BOOLEAN]
  /\ route \in Routes
  /\ server \in {"run", "close", "stop", "wait", "closed", "crash"}

\* Before Stop the open session of a user is the one that the user authenticated
\* last; and Stop finds the goroutine of the server between two packets.
LastAuthIsOpen ==
  /\ route # <<"idle">> => server \in {"run", "close"}
  /\ server \in {"run", "close", "stop"} =>
       /\ \A c \in Created : ~mCloseFlag[c] => auth[user[c]] = c
       /\ \A u \in Users : auth[u] # 0 => user[auth[u]] = u

\* A goroutine of an agent belongs to a session that was created.
AgentsCreated == \A c \in Cids : mAgent[c] = "run" => c \in Created

ManagerInv == ManagerType /\ LastAuthIsOpen /\ AgentsCreated /\ OnePerUser

\* A session that was created is no new one, and the new one is not in a map.
LEMMA FreshCid ==
  ASSUME ManagerType, cid \in Cids
  PROVE  /\ cid \notin Created /\ cid \notin sessions /\ cid # 0
         /\ (cid + 1) \in 1 .. MaxCid + 1
         /\ {c \in Cids : c < cid + 1} = Created \cup {cid}
<1> USE NetAssumption
<1> QED  BY DEF ManagerType, Created, Cids

\* The sessions are finite sets.
LEMMA CidsFinite ==
  ASSUME NEW A \in SUBSET Cids
  PROVE  IsFiniteSet(A) /\ Cardinality(A) \in Nat
<1> USE NetAssumption
<1>1. IsFiniteSet(Cids)  BY FS_Interval DEF Cids
<1> QED  BY <1>1, FS_Subset, FS_CardinalityType

\* The cardinality that UdpManager uses is the one of the theorems.
LEMMA SessionCount ==
  ASSUME NEW A
  PROVE  M!Cardinality(A) = Cardinality(A)
BY Zenon DEF M!Cardinality, Cardinality

\* The server starts without a session.
LEMMA ManagerInit == M!Init => ManagerInv
<1> SUFFICES ASSUME M!Init PROVE ManagerInv  OBVIOUS
<1> USE NetAssumption DEF M!Init, M!Cids, M!Keys, M!NoCid, M!Idle
<1>1. Created = {}  BY DEF Created, Cids
<1>2. ManagerType  BY <1>1 DEF ManagerType, Routes, Cids, Keys
<1>3. LastAuthIsOpen /\ AgentsCreated  BY <1>1 DEF LastAuthIsOpen, AgentsCreated, Cids
<1>4. OnePerUser
  <2>1. {c \in Cids : mAgent[c] = "run"} = {}  BY DEF Cids
  <2>2. Cardinality({}) = 0  BY FS_EmptySet
  <2> QED  BY <2>1, <2>2, SessionCount DEF OnePerUser, M!OnePerUser, Cids
<1> QED  BY <1>2, <1>3, <1>4 DEF ManagerInv

\* A step of the goroutine of the server that changes no session.
LEMMA RouteInv ==
  ASSUME ManagerInv, UNCHANGED <<M!maps, M!session, mAgent, resend, server>>,
         route' \in Routes, route' # <<"idle">> => server \in {"run", "close"}
  PROVE  ManagerInv'
<1> USE DEF ManagerInv, M!maps, M!session
<1>1. Created' = Created  BY DEF Created
<1>2. Routes' = Routes  BY <1>1 DEF Routes
<1>3. ManagerType'  BY <1>1, <1>2 DEF ManagerType
<1>4. LastAuthIsOpen' /\ AgentsCreated'  BY <1>1 DEF LastAuthIsOpen, AgentsCreated
<1>5. OnePerUser'  BY DEF OnePerUser, M!OnePerUser, M!Cids, M!Keys
<1> QED  BY <1>3, <1>4, <1>5

\* A packet without an id: a session of the hash, or an authentication.
LEMMA ClientAuthInv ==
  ASSUME ManagerInv, NEW u \in Users, NEW a \in Addrs, M!ClientAuth(u, a)
  PROVE  ManagerInv'
<1>1. <<a, u>> \in Keys  BY DEF Keys
<1>2. route' \in Routes
  BY <1>1 DEF M!ClientAuth, ManagerInv, ManagerType, Routes, M!NoCid
<1>3. server = "run"  BY DEF M!ClientAuth
<1> QED  BY <1>2, <1>3, RouteInv DEF M!ClientAuth

\* AuthUser makes a session: the one before is closed, and the new one is its
\* user's, in the map and in the hash under its own key only.
LEMMA NewSessionInv ==
  ASSUME ManagerInv, NEW u \in Users, NEW a \in Addrs, route = <<"auth", u, a>>,
         M!CloseOld(u), M!CreateSession(u, a), route' = <<"msg", cid>>,
         UNCHANGED server
  PROVE  ManagerInv'
<1> USE DEF M!NoCid
<1>1. ManagerType /\ LastAuthIsOpen /\ AgentsCreated /\ OnePerUser  BY DEF ManagerInv
<1>2. cid \in Cids /\ Cids = M!Cids /\ Keys = M!Keys
  BY DEF M!CreateSession, M!Cids, Cids, M!Keys, Keys
<1>3. /\ cid \notin Created /\ cid \notin sessions /\ cid # 0
      /\ cid' \in 1 .. MaxCid + 1 /\ Created' = Created \cup {cid}
  BY <1>1, <1>2, FreshCid DEF M!CreateSession, Created
<1>4. server \in {"run", "close"} /\ <<a, u>> \in Keys /\ route # <<"idle">>
  BY <1>1 DEF LastAuthIsOpen, Keys
<1>5. /\ user' = [user EXCEPT ![cid] = u] /\ addr' = [addr EXCEPT ![cid] = a]
      /\ hashKey' = [hashKey EXCEPT ![cid] = <<a, u>>]
      /\ mAgent' = [mAgent EXCEPT ![cid] = "run"]
      /\ resend' = [resend EXCEPT ![cid] = TRUE]
      /\ sessionHash' = [sessionHash EXCEPT ![<<a, u>>] = cid]
      /\ auth' = [auth EXCEPT ![u] = cid]
      /\ sessions' = sessions \cup {cid} /\ count' = count + 1
  BY DEF M!CreateSession
<1>6. /\ mCloseFlag' \in [Cids -> BOOLEAN]
      /\ \A c \in Cids : mCloseFlag'[c] = IF c = auth[u] THEN TRUE ELSE mCloseFlag[c]
  <2>1. CASE auth[u] = 0
    <3>1. mCloseFlag' = mCloseFlag  BY <2>1 DEF M!CloseOld
    <3>2. 0 \notin Cids  BY NetAssumption DEF Cids
    <3> QED  BY <1>1, <2>1, <3>1, <3>2 DEF ManagerType
  <2>2. CASE auth[u] # 0
    BY <1>1, <2>2 DEF M!CloseOld, ManagerType, Created
  <2> QED  BY <2>1, <2>2
<1>7. ManagerType'
  <2>1. route' \in Routes'  BY <1>3 DEF Routes
  <2>2. /\ sessions' \subseteq Created' /\ count' \in Int /\ auth' \in [Users -> Created' \cup {0}]
        /\ sessionHash' \in [Keys -> Created' \cup {0}]
    BY <1>1, <1>3, <1>4, <1>5 DEF ManagerType
  <2>3. /\ DOMAIN user' = Cids /\ DOMAIN addr' = Cids /\ DOMAIN hashKey' = Cids
        /\ mAgent' \in [Cids -> {"none", "run", "over"}] /\ resend' \in [Cids -> BOOLEAN]
    BY <1>1, <1>5 DEF ManagerType
  <2>4. \A c \in Created' : user'[c] \in Users /\ addr'[c] \in Addrs /\ hashKey'[c] \in Keys
    BY <1>1, <1>2, <1>3, <1>4, <1>5 DEF ManagerType, Created
  <2> QED  BY <1>3, <1>4, <1>6, <2>1, <2>2, <2>3, <2>4 DEF ManagerType
<1>8. LastAuthIsOpen'
  <2>1. ASSUME NEW c \in Created', ~mCloseFlag'[c]
        PROVE  auth'[user'[c]] = c
    <3>1. CASE c = cid
      BY <1>1, <1>2, <1>5, <3>1 DEF ManagerType
    <3>2. CASE c # cid
      <4>1. c \in Created /\ c \in Cids  BY <1>3, <3>2 DEF Created
      <4>2. ~mCloseFlag[c] /\ c # auth[u]  BY <1>6, <2>1, <4>1
      <4>3. auth[user[c]] = c /\ user[c] \in Users /\ c # 0
        BY <1>1, <1>4, <4>1, <4>2 DEF LastAuthIsOpen, ManagerType, Cids
      <4>4. user[c] # u  BY <4>2, <4>3
      <4> QED  BY <1>1, <1>5, <3>2, <4>1, <4>3, <4>4 DEF ManagerType
    <3> QED  BY <3>1, <3>2
  <2>2. ASSUME NEW v \in Users, auth'[v] # 0
        PROVE  user'[auth'[v]] = v
    <3>1. CASE v = u
      BY <1>1, <1>2, <1>5, <3>1 DEF ManagerType
    <3>2. CASE v # u
      BY <1>1, <1>2, <1>3, <1>4, <1>5, <2>2, <3>2 DEF ManagerType, LastAuthIsOpen, Created
    <3> QED  BY <3>1, <3>2
  <2> QED  BY <1>4, <2>1, <2>2 DEF LastAuthIsOpen
<1>9. AgentsCreated'
  BY <1>1, <1>3, <1>5 DEF AgentsCreated, ManagerType
<1>10. OnePerUser'
  <2>1. ASSUME NEW c \in Cids, NEW d \in Cids, c < cid', d < cid', c # d, user'[c] = user'[d]
        PROVE  mCloseFlag'[c] \/ mCloseFlag'[d]
    <3>1. c \in Created' /\ d \in Created' /\ Created' = {e \in Cids : e < cid'}
      BY <2>1 DEF Created
    <3>2. server' \in {"run", "close"}  BY <1>4
    <3>3. ~mCloseFlag'[c] => auth'[user'[c]] = c  BY <1>8, <3>1, <3>2 DEF LastAuthIsOpen
    <3>4. ~mCloseFlag'[d] => auth'[user'[d]] = d  BY <1>8, <3>1, <3>2 DEF LastAuthIsOpen
    <3> QED  BY <2>1, <3>3, <3>4
  <2>2. sessions = {c \in Cids : mAgent[c] = "run"} /\ count = Cardinality(sessions)
    BY <1>1, <1>2, <1>4, SessionCount DEF OnePerUser, M!OnePerUser
  <2>3. sessions' = {c \in Cids : mAgent'[c] = "run"}
    BY <1>1, <1>2, <1>5, <2>2 DEF ManagerType
  <2>4. count' = Cardinality(sessions')
    <3>1. sessions \subseteq Cids  BY <1>1 DEF ManagerType, Created
    <3>2. IsFiniteSet(sessions)  BY <3>1, CidsFinite
    <3>3. Cardinality(sessions \cup {cid}) = Cardinality(sessions) + 1
      BY <1>3, <3>2, FS_AddElement
    <3> QED  BY <1>5, <2>2, <3>3
  <2>5. ASSUME NEW k \in Keys, sessionHash'[k] # 0
        PROVE  hashKey'[sessionHash'[k]] = k
    <3>1. CASE k = <<a, u>>
      BY <1>1, <1>2, <1>4, <1>5, <3>1 DEF ManagerType
    <3>2. CASE k # <<a, u>>
      <4>1. sessionHash'[k] = sessionHash[k] /\ sessionHash[k] \in Created
        BY <1>1, <1>5, <2>5, <3>2 DEF ManagerType
      <4>2. hashKey[sessionHash[k]] = k  BY <1>1, <1>2, <2>5, <4>1 DEF OnePerUser, M!OnePerUser
      <4> QED  BY <1>1, <1>3, <1>5, <4>1, <4>2 DEF ManagerType, Created
    <3> QED  BY <3>1, <3>2
  <2> QED  BY <1>2, <2>1, <2>3, <2>4, <2>5, SessionCount DEF OnePerUser, M!OnePerUser
<1> QED  BY <1>7, <1>8, <1>9, <1>10 DEF ManagerInv

\* AuthUser: the session that the user has at the address, or a new one.
LEMMA AuthUserInv ==
  ASSUME ManagerInv, M!AuthUser
  PROVE  ManagerInv'
<1>1. ManagerType /\ LastAuthIsOpen /\ AgentsCreated /\ OnePerUser  BY DEF ManagerInv
<1>2. PICK u \in Users, a \in Addrs : route = <<"auth", u, a>>
  BY <1>1 DEF M!AuthUser, ManagerType, Routes
<1>3. CASE auth[u] # 0 /\ addr[auth[u]] = a
  <2>1. /\ route' = <<"msg", auth[u]>>
        /\ UNCHANGED <<M!maps, M!session, mAgent, resend, server>>
    BY <1>2, <1>3 DEF M!AuthUser, M!NoCid
  <2>2. auth[u] \in Created  BY <1>1, <1>3 DEF ManagerType
  <2>3. route' \in Routes  BY <2>1, <2>2 DEF Routes
  <2>4. server \in {"run", "close"}  BY <1>1, <1>2 DEF LastAuthIsOpen
  <2> QED  BY <2>1, <2>3, <2>4, RouteInv
<1>4. CASE ~(auth[u] # 0 /\ addr[auth[u]] = a)
  <2>1. M!CloseOld(u) /\ M!CreateSession(u, a) /\ route' = <<"msg", cid>> /\ UNCHANGED server
    BY <1>2, <1>4 DEF M!AuthUser, M!NoCid
  <2> QED  BY <1>2, <2>1, NewSessionInv
<1> QED  BY <1>3, <1>4

\* A packet with the id of a session of the map.
LEMMA ClientLookUpInv ==
  ASSUME ManagerInv, NEW c \in M!Cids, NEW a \in Addrs, M!ClientLookUp(c, a)
  PROVE  ManagerInv'
<1>1. c \in Created  BY DEF M!ClientLookUp, ManagerInv, ManagerType
<1>2. route' \in Routes /\ server = "run"  BY <1>1 DEF M!ClientLookUp, Routes
<1> QED  BY <1>2, RouteInv DEF M!ClientLookUp

\* The packet is handed over.
LEMMA RouteToSessionInv ==
  ASSUME ManagerInv, M!RouteToSession
  PROVE  ManagerInv'
<1>1. route' = <<"idle">> /\ UNCHANGED <<M!maps, M!session, mAgent, resend, server>>
  BY DEF M!RouteToSession, M!Idle
<1>2. route' \in Routes  BY <1>1 DEF Routes
<1> QED  BY <1>1, <1>2, RouteInv

\* A session follows its client: in the hash it moves from its key to another.
LEMMA ClientUpdateIpInv ==
  ASSUME ManagerInv, M!ClientUpdateIp
  PROVE  ManagerInv'
<1> USE DEF M!NoCid
<1>1. ManagerType /\ LastAuthIsOpen /\ AgentsCreated /\ OnePerUser  BY DEF ManagerInv
<1>2. PICK c \in Created, a \in Addrs : route = <<"cid", c, a>>
  BY <1>1 DEF M!ClientUpdateIp, ManagerType, Routes
<1>3. /\ M!TryUpdateIp(c, a) /\ route' = <<"msg", c>>
      /\ UNCHANGED <<cid, count, sessions, auth, user, mCloseFlag, mAgent, resend, server>>
  BY <1>2 DEF M!ClientUpdateIp
<1>4. Created' = Created /\ route' \in Routes  BY <1>3 DEF Created, Routes
<1>5. Routes' = Routes  BY <1>4 DEF Routes
<1>6. server \in {"run", "close"}  BY <1>1, <1>2 DEF LastAuthIsOpen
<1>7. CASE addr[c] = a
  <2>1. UNCHANGED <<M!maps, M!session, mAgent, resend, server>>
    BY <1>3, <1>7 DEF M!TryUpdateIp, M!maps, M!session
  <2> QED  BY <1>4, <1>6, <2>1, RouteInv
<1>8. CASE addr[c] # a
  <2> DEFINE old == hashKey[c]
             new == <<a, user[c]>>
  <2>1. /\ sessionHash' = [sessionHash EXCEPT ![old] = 0, ![new] = c]
        /\ hashKey' = [hashKey EXCEPT ![c] = new] /\ addr' = [addr EXCEPT ![c] = a]
    BY <1>3, <1>8 DEF M!TryUpdateIp
  <2>2. c \in Cids /\ user[c] \in Users /\ old \in Keys /\ new \in Keys
    BY <1>1 DEF ManagerType, Created, Keys
  <2>3. ManagerType'
    <3>1. sessionHash' \in [Keys -> Created \cup {0}]  BY <1>1, <2>1 DEF ManagerType
    <3>2. /\ DOMAIN addr' = Cids /\ DOMAIN hashKey' = Cids
          /\ \A d \in Created : addr'[d] \in Addrs /\ hashKey'[d] \in Keys
      BY <1>1, <2>1, <2>2 DEF ManagerType, Created
    <3> QED  BY <1>1, <1>3, <1>4, <1>5, <3>1, <3>2 DEF ManagerType
  <2>4. LastAuthIsOpen' /\ AgentsCreated'
    BY <1>1, <1>3, <1>4, <1>6 DEF LastAuthIsOpen, AgentsCreated
  <2>5. OnePerUser'
    <3>1. ASSUME NEW k \in Keys, sessionHash'[k] # 0
          PROVE  hashKey'[sessionHash'[k]] = k
      <4>1. CASE k = new
        BY <1>1, <2>1, <2>2, <4>1 DEF ManagerType
      <4>2. CASE k # new
        <5>1. k # old /\ sessionHash'[k] = sessionHash[k] /\ sessionHash[k] \in Created
          BY <1>1, <2>1, <3>1, <4>2 DEF ManagerType
        <5>2. hashKey[sessionHash[k]] = k
          BY <1>1, <3>1, <5>1 DEF OnePerUser, M!OnePerUser, M!Keys, Keys
        <5>3. sessionHash[k] # c  BY <5>1, <5>2
        <5> QED  BY <1>1, <2>1, <5>1, <5>2, <5>3 DEF ManagerType, Created
      <4> QED  BY <4>1, <4>2
    <3> QED  BY <1>1, <1>3, <3>1 DEF OnePerUser, M!OnePerUser, M!Cids, M!Keys, Keys
  <2> QED  BY <2>3, <2>4, <2>5 DEF ManagerInv
<1> QED  BY <1>7, <1>8

\* A session is closed.
LEMMA FlagInv ==
  ASSUME ManagerInv, NEW c \in M!Cids, mCloseFlag' = [mCloseFlag EXCEPT ![c] = TRUE],
         UNCHANGED <<M!maps, user, addr, hashKey, mAgent, resend, route, server>>
  PROVE  ManagerInv'
<1>1. ManagerType /\ LastAuthIsOpen /\ AgentsCreated /\ OnePerUser  BY DEF ManagerInv
<1> USE DEF M!maps
<1>2. Created' = Created  BY DEF Created
<1>3. Routes' = Routes  BY <1>2 DEF Routes
<1>4. /\ mCloseFlag' \in [Cids -> BOOLEAN]
      /\ \A d \in Cids : mCloseFlag[d] => mCloseFlag'[d]
  BY <1>1 DEF ManagerType
<1>5. ManagerType'  BY <1>1, <1>2, <1>3, <1>4 DEF ManagerType
<1>6. LastAuthIsOpen' /\ AgentsCreated'
  BY <1>1, <1>2, <1>4 DEF LastAuthIsOpen, AgentsCreated, Created
<1>7. OnePerUser'
  BY <1>1, <1>4 DEF OnePerUser, M!OnePerUser, M!Cids, Cids
<1> QED  BY <1>5, <1>6, <1>7 DEF ManagerInv

\* A session is closed by tDie or its agent, or by Stop on its walk.
LEMMA CloseInv ==
  ASSUME ManagerInv, NEW c \in M!Cids, M!Close(c) \/ M!StopSession(c)
  PROVE  ManagerInv'
BY FlagInv DEF M!Close, M!StopSession

\* The goroutine of an agent ends: its session leaves both maps, and only its own
\* key in the hash, because no other session is under it.
LEMMA AgentOverInv ==
  ASSUME ManagerInv, NEW c \in M!Cids, M!AgentOver(c)
  PROVE  ManagerInv'
<1> USE DEF M!NoCid
<1>1. ManagerType /\ LastAuthIsOpen /\ AgentsCreated /\ OnePerUser  BY DEF ManagerInv
<1>2. /\ mAgent[c] = "run" /\ mAgent' = [mAgent EXCEPT ![c] = "over"]
      /\ count' = count - 1 /\ sessions' = sessions \ {c}
      /\ sessionHash' = [sessionHash EXCEPT ![hashKey[c]] = 0]
      /\ server' = server \/ (server = "stop" /\ server' = "crash")
      /\ UNCHANGED <<cid, auth, user, addr, hashKey, mCloseFlag, resend, route>>
  BY DEF M!AgentOver, M!session
<1>3. c \in Cids /\ c \in Created /\ hashKey[c] \in Keys
  BY <1>1, <1>2 DEF M!Cids, Cids, AgentsCreated, ManagerType
<1>4. Created' = Created  BY <1>2 DEF Created
<1>5. Routes' = Routes  BY <1>4 DEF Routes
<1>6. ManagerType'
  BY <1>1, <1>2, <1>3, <1>4, <1>5 DEF ManagerType
<1>7. LastAuthIsOpen' /\ AgentsCreated'
  BY <1>1, <1>2, <1>3, <1>4 DEF LastAuthIsOpen, AgentsCreated, ManagerType
<1>8. OnePerUser'
  <2>1. ASSUME server \in {"run", "close", "stop"}
        PROVE  sessions' = {d \in Cids : mAgent'[d] = "run"} /\ count' = Cardinality(sessions')
    <3>1. sessions = {d \in Cids : mAgent[d] = "run"} /\ count = Cardinality(sessions)
      BY <1>1, <2>1, SessionCount DEF OnePerUser, M!OnePerUser, M!Cids, Cids
    <3>2. c \in sessions /\ IsFiniteSet(sessions)
      BY <1>2, <1>3, <3>1, CidsFinite
    <3>3. Cardinality(sessions \ {c}) = Cardinality(sessions) - 1
      BY <3>2, FS_RemoveElement
    <3> QED  BY <1>1, <1>2, <1>3, <3>1, <3>3 DEF ManagerType
  <2>2. ASSUME NEW k \in Keys, sessionHash'[k] # 0
        PROVE  hashKey'[sessionHash'[k]] = k
    <3>1. sessionHash'[k] = sessionHash[k]  BY <1>1, <1>2, <2>2 DEF ManagerType
    <3> QED  BY <1>1, <1>2, <2>2, <3>1 DEF OnePerUser, M!OnePerUser, M!Keys, Keys
  <2> QED  BY <1>1, <1>2, <2>1, <2>2, SessionCount
           DEF OnePerUser, M!OnePerUser, M!Cids, Cids, M!Keys, Keys
<1> QED  BY <1>6, <1>7, <1>8 DEF ManagerInv

\* The goroutine that sends again ends.
LEMMA ResendOverInv ==
  ASSUME ManagerInv, NEW c \in M!Cids, M!ResendOver(c)
  PROVE  ManagerInv'
<1>1. ManagerType /\ LastAuthIsOpen /\ AgentsCreated /\ OnePerUser  BY DEF ManagerInv
<1> USE DEF M!ResendOver, M!maps, M!session
<1>2. Created' = Created  BY DEF Created
<1>3. Routes' = Routes  BY <1>2 DEF Routes
<1>4. ManagerType'  BY <1>1, <1>2, <1>3 DEF ManagerType
<1>5. LastAuthIsOpen' /\ AgentsCreated'
  BY <1>1, <1>2 DEF LastAuthIsOpen, AgentsCreated
<1>6. OnePerUser'
  BY <1>1 DEF OnePerUser, M!OnePerUser, M!Cids, M!Keys
<1> QED  BY <1>4, <1>5, <1>6 DEF ManagerInv

\* The server is closed, and its goroutine ends between two packets, ...
LEMMA ServerCloseInv ==
  ASSUME ManagerInv, M!ServerClose \/ M!ListenEnds
  PROVE  ManagerInv'
<1>1. ManagerType /\ LastAuthIsOpen /\ AgentsCreated /\ OnePerUser  BY DEF ManagerInv
<1>2. /\ UNCHANGED <<M!maps, M!session, mAgent, resend, route>>
      /\ \/ server = "run" /\ server' = "close"
         \/ server = "close" /\ server' = "stop" /\ route = <<"idle">>
  BY DEF M!ServerClose, M!ListenEnds, M!BetweenPackets, M!Idle
<1> USE DEF M!maps, M!session
<1>3. Created' = Created  BY <1>2 DEF Created
<1>4. Routes' = Routes  BY <1>3 DEF Routes
<1>5. ManagerType'  BY <1>1, <1>2, <1>3, <1>4 DEF ManagerType
<1>6. LastAuthIsOpen' /\ AgentsCreated'
  BY <1>1, <1>2, <1>3 DEF LastAuthIsOpen, AgentsCreated
<1>7. OnePerUser'
  BY <1>1, <1>2 DEF OnePerUser, M!OnePerUser, M!Cids, M!Keys
<1> QED  BY <1>5, <1>6, <1>7 DEF ManagerInv

\* ... after the walk the maps are emptied, ...
LEMMA StopInv ==
  ASSUME ManagerInv, M!Stop
  PROVE  ManagerInv'
<1> USE DEF M!NoCid
<1>1. ManagerType /\ LastAuthIsOpen /\ AgentsCreated /\ OnePerUser  BY DEF ManagerInv
<1>2. /\ server = "stop" /\ server' = "wait" /\ count' = 0 /\ sessions' = {}
      /\ sessionHash' = [k \in Keys |-> 0] /\ auth' = [u \in Users |-> 0]
      /\ UNCHANGED <<cid, user, addr, hashKey, mCloseFlag, mAgent, resend, route>>
  BY DEF M!Stop, M!session, M!Keys, Keys
<1>3. Created' = Created  BY <1>2 DEF Created
<1>4. Routes' = Routes  BY <1>3 DEF Routes
<1>5. ManagerType'  BY <1>1, <1>2, <1>3, <1>4 DEF ManagerType
<1>6. LastAuthIsOpen' /\ AgentsCreated'
  BY <1>1, <1>2, <1>3 DEF LastAuthIsOpen, AgentsCreated
<1>7. OnePerUser'
  BY <1>1, <1>2 DEF OnePerUser, M!OnePerUser, M!Cids, Cids, M!Keys, Keys, ManagerType
<1> QED  BY <1>5, <1>6, <1>7 DEF ManagerInv

\* ... and Stop returns.
LEMMA StopEndsInv ==
  ASSUME ManagerInv, M!StopEnds
  PROVE  ManagerInv'
<1>1. ManagerType /\ LastAuthIsOpen /\ AgentsCreated /\ OnePerUser  BY DEF ManagerInv
<1> USE DEF M!StopEnds, M!maps, M!session
<1>2. Created' = Created  BY DEF Created
<1>3. Routes' = Routes  BY <1>2 DEF Routes
<1>4. ManagerType'  BY <1>1, <1>2, <1>3 DEF ManagerType
<1>5. LastAuthIsOpen' /\ AgentsCreated'
  BY <1>1, <1>2 DEF LastAuthIsOpen, AgentsCreated
<1>6. OnePerUser'
  BY <1>1 DEF OnePerUser, M!OnePerUser, M!Cids, M!Keys
<1> QED  BY <1>4, <1>5, <1>6 DEF ManagerInv

\* What happens in the channels changes nothing of the maps, nor do the other parts.
LEMMA ManagerStutter ==
  ASSUME ManagerInv, UNCHANGED <<M!maps, M!session, mAgent, resend, route, server>>
  PROVE  ManagerInv'
<1>1. route' \in Routes /\ (route' # <<"idle">> => server \in {"run", "close"})
  BY DEF ManagerInv, ManagerType, LastAuthIsOpen
<1> QED  BY <1>1, RouteInv

\* Every step keeps the invariant.
LEMMA ManagerNext ==
  ASSUME ManagerInv, [Next]_vars
  PROVE  ManagerInv'
<1>1. CASE M!Next
  <2>1. ASSUME NEW u \in Users, NEW a \in Addrs, M!ClientAuth(u, a)
        PROVE  ManagerInv'
    BY <2>1, ClientAuthInv
  <2>2. ASSUME NEW c \in M!Cids, NEW a \in Addrs, M!ClientLookUp(c, a)
        PROVE  ManagerInv'
    BY <2>2, ClientLookUpInv
  <2>3. CASE M!Router
    BY <2>3, AuthUserInv, ClientUpdateIpInv, RouteToSessionInv DEF M!Router
  <2>4. ASSUME NEW c \in M!Cids, M!Close(c) \/ M!StopSession(c)  PROVE  ManagerInv'
    BY <2>4, CloseInv
  <2>5. ASSUME NEW c \in M!Cids, M!Agent(c) \/ M!Resend(c)  PROVE  ManagerInv'
    BY <2>5, ManagerStutter DEF M!Agent, M!AgentRead, M!RequestDel, M!Resend
  <2>6. ASSUME NEW c \in M!Cids, M!AgentOver(c)  PROVE  ManagerInv'
    BY <2>6, AgentOverInv
  <2>7. ASSUME NEW c \in M!Cids, M!ResendOver(c)  PROVE  ManagerInv'
    BY <2>7, ResendOverInv
  <2>8. CASE M!SendOver
    BY <2>8, ManagerStutter DEF M!SendOver
  <2>9. CASE M!ServerClose \/ M!ListenEnds  BY <2>9, ServerCloseInv
  <2>10. CASE M!Stop  BY <2>10, StopInv
  <2>11. CASE M!StopEnds  BY <2>11, StopEndsInv
  <2> QED
    BY <1>1, <2>1, <2>2, <2>3, <2>4, <2>5, <2>6, <2>7, <2>8, <2>9, <2>10, <2>11
    DEF M!Next, M!Closer
<1>2. CASE UNCHANGED managerVars
  BY <1>2, ManagerStutter DEF managerVars, M!maps, M!session
<1> QED  BY <1>1, <1>2 DEF Next, vars

\* A user never has two open sessions, wherever the client moves and whatever is
\* closed meanwhile; the map of ClientSessionManager has the sessions whose agent
\* runs, SessionCount counts them, and a session is in the hash under its own key
\* only: for any users, addresses and number of sessions.
THEOREM UserHasOneSession == Spec => []OnePerUser
<1>1. Init => ManagerInv  BY ManagerInit DEF Init
<1>2. ManagerInv /\ [Next]_vars => ManagerInv'  BY ManagerNext
<1>3. ManagerInv => OnePerUser  BY DEF ManagerInv
<1> QED  BY <1>1, <1>2, <1>3, PTL DEF Spec

-----------------------------------------------------------------------------
TcpType ==
  /\ role \in {"server", "client"}
  /\ sock \in [Conns -> {"none", "open", "closed"}]
  /\ writeChan \in [Conns -> Seq(Nat)] /\ sent \in [Conns -> Seq(Nat)]
  /\ chanClosed \in [Conns -> BOOLEAN] /\ tCloseFlag \in [Conns -> BOOLEAN]
  /\ writer \in [Conns -> {"none", "run", "close", "nil", "over"}]
  /\ tAgent \in [Conns -> {"none", "dialed", "run", "end", "over"}]
  /\ conns \subseteq Conns /\ owner \in {"run", "wait", "closed"}
  /\ written \in [Conns -> Nat] /\ cut \subseteq Conns

\* A connection exists before its goroutines, and nothing is written before.
Started(c) ==
  /\ sock[c] = "none" => tAgent[c] = "none" /\ writer[c] = "none"
  /\ tAgent[c] \in {"none", "dialed"} => writer[c] = "none"
  /\ tAgent[c] \in {"run", "end"} => writer[c] # "none"
  /\ writer[c] = "none" =>
       writeChan[c] = <<>> /\ sent[c] = <<>> /\ written[c] = 0 /\ ~tCloseFlag[c]

\* While the writing goroutine runs, what it has sent and what is in writeChan are
\* the messages accepted so far; a nil is the last in writeChan, behind closeFlag.
HasNil(c) == writeChan[c] # <<>> /\ writeChan[c][Len(writeChan[c])] = 0
Pending(c) ==
  writer[c] = "run" =>
    /\ \A k \in 1 .. Len(writeChan[c]) :
         IF writeChan[c][k] = 0 THEN k = Len(writeChan[c]) /\ tCloseFlag[c]
         ELSE writeChan[c][k] = Len(sent[c]) + k
    /\ HasNil(c) => written[c] + 1 = Len(sent[c]) + Len(writeChan[c])
    /\ ~HasNil(c) => written[c] = Len(sent[c]) + Len(writeChan[c])

\* What is sent, and what is left when the nil is read
Flushed(c) ==
  /\ \A k \in 1 .. Len(sent[c]) : sent[c][k] = k
  /\ writer[c] = "nil" => tCloseFlag[c] /\ Len(sent[c]) = written[c]

ConnInv(c) == Started(c) /\ Pending(c) /\ Flushed(c)
TcpInv == TcpType /\ \A c \in Conns : ConnInv(c)

\* The sum of the two counts, after a message more.
LEMMA OneMore ==
  ASSUME NEW w \in Nat, NEW m \in Nat, NEW l \in Nat, w = m + l
  PROVE  w + 1 = m + (l + 1)
OBVIOUS

\* A message goes from writeChan to the socket.
LEMMA OneOver ==
  ASSUME NEW m \in Nat, NEW l \in Nat
  PROVE  m + (l + 1) = (m + 1) + l
OBVIOUS

\* An element goes behind the others.
LEMMA AppendIs ==
  ASSUME NEW q \in Seq(Nat), NEW e \in Nat
  PROVE  /\ Append(q, e) \in Seq(Nat) /\ Append(q, e) # <<>>
         /\ Len(q) \in Nat /\ Len(Append(q, e)) = Len(q) + 1
         /\ \A k \in 1 .. Len(q) : Append(q, e)[k] = q[k]
         /\ Append(q, e)[Len(q) + 1] = e
<1>1. Append(q, e) \in Seq(Nat) /\ Len(Append(q, e)) = Len(q) + 1 /\ Len(q) \in Nat
  OBVIOUS
<1>2. \A k \in 1 .. Len(q) : Append(q, e)[k] = q[k]  OBVIOUS
<1>3. Append(q, e)[Len(q) + 1] = e  OBVIOUS
<1>4. Append(q, e) # <<>>  BY <1>1
<1> QED  BY <1>1, <1>2, <1>3, <1>4

\* What the actions do to the connections they are not about, or to the agent and
\* the socket only.
LEMMA SameConn ==
  ASSUME NEW d \in Conns, ConnInv(d),
         writeChan'[d] = writeChan[d], sent'[d] = sent[d], written'[d] = written[d],
         tCloseFlag'[d] = tCloseFlag[d], writer'[d] = writer[d],
         \/ sock'[d] = sock[d] /\ tAgent'[d] = tAgent[d]
         \/ sock'[d] = "closed" /\ tAgent'[d] = tAgent[d]
         \/ /\ sock'[d] # "none"
            /\ tAgent'[d] \in {"none", "dialed"} => writer[d] = "none"
            /\ tAgent'[d] \in {"run", "end"} => writer[d] # "none"
  PROVE  ConnInv(d)'
<1>1. Started(d)'  BY DEF ConnInv, Started
<1>2. Pending(d)'  BY DEF ConnInv, Pending, HasNil
<1>3. Flushed(d)'  BY DEF ConnInv, Flushed
<1> QED  BY <1>1, <1>2, <1>3 DEF ConnInv

\* A connection starts with nothing written: newTCPConn.
LEMMA NewConnInv ==
  ASSUME NEW c \in Conns, ConnInv(c), writer[c] = "none", writer'[c] = "run",
         tAgent'[c] = "run", sock'[c] # "none",
         writeChan'[c] = writeChan[c], sent'[c] = sent[c], written'[c] = written[c],
         tCloseFlag'[c] = tCloseFlag[c]
  PROVE  ConnInv(c)'
<1>1. writeChan'[c] = <<>> /\ sent'[c] = <<>> /\ written'[c] = 0
  BY DEF ConnInv, Started
<1>2. Started(c)' /\ Flushed(c)'  BY <1>1 DEF Started, Flushed
<1>3. Pending(c)'  BY <1>1 DEF Pending, HasNil
<1> QED  BY <1>2, <1>3 DEF ConnInv

\* No connection exists at first.
LEMMA TcpInit == T!Init => TcpInv
<1> SUFFICES ASSUME T!Init PROVE TcpInv  OBVIOUS
<1>1. <<>> \in Seq(Nat)  OBVIOUS
<1>2. TcpType  BY <1>1 DEF T!Init, TcpType
<1>3. ASSUME NEW c \in Conns PROVE ConnInv(c)
  BY DEF T!Init, ConnInv, Started, Pending, Flushed
<1> QED  BY <1>2, <1>3 DEF TcpInv

\* A connection is accepted, by a server that has room for it or not.
LEMMA AcceptInv ==
  ASSUME TcpInv, NEW c \in Conns, T!Accept(c)
  PROVE  TcpInv'
<1> USE DEF T!Accept, T!NewConn, T!tcpConn
<1>1. TcpType /\ \A d \in Conns : ConnInv(d)  BY DEF TcpInv
<1>2. TcpType'  BY <1>1 DEF TcpType
<1>3. ASSUME NEW d \in Conns PROVE ConnInv(d)'
  <2>1. CASE d = c /\ writer'[c] = "run"
    <3>1. writer[c] = "none"  BY <1>1 DEF ConnInv, Started
    <3>2. tAgent'[c] = "run" /\ sock'[c] # "none"
      BY <1>1, <2>1, <3>1 DEF TcpType
    <3> QED  BY <1>1, <2>1, <3>1, <3>2, NewConnInv
  <2>2. CASE ~(d = c /\ writer'[c] = "run")
    <3>1. writer'[d] = writer[d] /\ tAgent'[d] = tAgent[d]  BY <1>1, <2>2 DEF TcpType
    <3>2. sock'[d] = sock[d] \/ sock'[d] = "closed"  BY <1>1, <2>2 DEF TcpType
    <3> QED  BY <1>1, <3>1, <3>2, SameConn
  <2> QED  BY <2>1, <2>2
<1> QED  BY <1>2, <1>3 DEF TcpInv

\* A client dials.
LEMMA DialInv ==
  ASSUME TcpInv, NEW c \in Conns, T!Dial(c)
  PROVE  TcpInv'
<1> USE DEF T!Dial, T!tcpConn
<1>1. TcpType /\ \A d \in Conns : ConnInv(d)  BY DEF TcpInv
<1>2. TcpType'  BY <1>1 DEF TcpType
<1>3. ASSUME NEW d \in Conns PROVE ConnInv(d)'
  <2>1. d = c => writer[c] = "none" /\ sock'[c] = "open" /\ tAgent'[c] = "dialed"
    BY <1>1 DEF ConnInv, Started, TcpType
  <2>2. d # c => sock'[d] = sock[d] /\ tAgent'[d] = tAgent[d]  BY <1>1 DEF TcpType
  <2> QED  BY <1>1, <2>1, <2>2, SameConn
<1> QED  BY <1>2, <1>3 DEF TcpInv

\* The connection is there, or the client was closed meanwhile.
LEMMA ConnectInv ==
  ASSUME TcpInv, NEW c \in Conns, T!Connect(c)
  PROVE  TcpInv'
<1> USE DEF T!Connect, T!NewConn, T!tcpConn
<1>1. TcpType /\ \A d \in Conns : ConnInv(d)  BY DEF TcpInv
<1>2. TcpType'
  <2>1. \/ /\ sock' = [sock EXCEPT ![c] = "closed"] /\ tAgent' = [tAgent EXCEPT ![c] = "over"]
           /\ writer' = writer /\ conns' = conns
        \/ /\ sock' = sock /\ tAgent' = [tAgent EXCEPT ![c] = "run"]
           /\ writer' = [writer EXCEPT ![c] = "run"] /\ conns' = conns \cup {c}
    BY Zenon
  <2>2. /\ sock' \in [Conns -> {"none", "open", "closed"}]
        /\ writer' \in [Conns -> {"none", "run", "close", "nil", "over"}]
        /\ tAgent' \in [Conns -> {"none", "dialed", "run", "end", "over"}]
        /\ conns' \subseteq Conns
    <3> HIDE DEF T!Connect, T!NewConn
    <3> QED  BY <1>1, <2>1 DEF TcpType
  <2>3. UNCHANGED <<role, writeChan, chanClosed, tCloseFlag, owner, written, sent, cut>>
    OBVIOUS
  <2> HIDE DEF T!Connect, T!NewConn
  <2> QED  BY <1>1, <2>2, <2>3 DEF TcpType
<1>3. writer[c] = "none" /\ sock[c] # "none"
  BY <1>1 DEF ConnInv, Started
<1>4. ASSUME NEW d \in Conns PROVE ConnInv(d)'
  <2>1. CASE d = c /\ writer'[c] = "run"
    <3>1. tAgent'[c] = "run" /\ sock'[c] # "none"  BY <1>1, <1>3, <2>1 DEF TcpType
    <3> QED  BY <1>1, <1>3, <2>1, <3>1, NewConnInv
  <2>2. CASE d = c /\ writer'[c] # "run"
    <3>1. writer'[c] = writer[c] /\ sock'[c] = "closed" /\ tAgent'[c] = "over"
      BY <1>1, <2>2 DEF TcpType
    <3> QED  BY <1>1, <1>3, <2>2, <3>1, SameConn
  <2>3. CASE d # c
    <3>1. sock'[d] = sock[d] /\ tAgent'[d] = tAgent[d] /\ writer'[d] = writer[d]
      BY <1>1, <2>3 DEF TcpType
    <3> QED  BY <1>1, <3>1, SameConn
  <2> QED  BY <2>1, <2>2, <2>3
<1> QED  BY <1>2, <1>4 DEF TcpInv

\* TCPConn.Close and Destroy of a connection that is not closed yet: the nil goes
\* behind what was written, or the socket is closed and the messages stay.
LEMMA ClosedConn ==
  ASSUME TcpType, NEW c \in Conns, ConnInv(c), writer[c] # "none",
         T!CloseConn(c) \/ T!DoDestroy(c),
         sent' = sent, written' = written, writer' = writer,
         tAgent'[c] = tAgent[c] \/ tAgent'[c] = "end"
  PROVE  ConnInv(c)'
<1>1. CASE T!CloseConn(c) /\ tCloseFlag[c]
  BY <1>1, SameConn DEF T!CloseConn, T!tcpConn, ConnInv, Started
<1>2. CASE T!DoDestroy(c)
  <2>1. /\ writeChan' = writeChan /\ tCloseFlag'[c] = TRUE /\ sock'[c] = "closed"
    BY <1>2 DEF T!DoDestroy, TcpType
  <2>2. Started(c)' /\ Flushed(c)'  BY <2>1 DEF ConnInv, Started, Flushed
  <2>3. Pending(c)'  BY <2>1 DEF ConnInv, Pending, HasNil
  <2> QED  BY <2>2, <2>3 DEF ConnInv
<1>3. CASE T!CloseConn(c) /\ ~tCloseFlag[c] /\ ~T!DoDestroy(c)
  <2>1. /\ writeChan'[c] = Append(writeChan[c], 0) /\ tCloseFlag'[c] = TRUE
        /\ sock' = sock
    BY <1>3 DEF T!CloseConn, TcpType
  <2>2. /\ writeChan[c] \in Seq(Nat) /\ sent[c] \in Seq(Nat) /\ written[c] \in Nat
        /\ Len(writeChan[c]) \in Nat /\ Len(sent[c]) \in Nat
    BY DEF TcpType
  <2>3. /\ Len(writeChan'[c]) = Len(writeChan[c]) + 1
        /\ \A k \in 1 .. Len(writeChan[c]) : writeChan'[c][k] = writeChan[c][k]
        /\ writeChan'[c][Len(writeChan[c]) + 1] = 0 /\ writeChan'[c] # <<>>
    <3>1. PICK q \in Seq(Nat) : q = writeChan[c]  BY <2>2
    <3>2. PICK t : t = Append(q, 0)  OBVIOUS
    <3>3. /\ Len(t) = Len(q) + 1 /\ t[Len(q) + 1] = 0 /\ t # <<>>
          /\ \A k \in 1 .. Len(q) : t[k] = q[k]
      BY <3>2, AppendIs
    <3>4. writeChan'[c] = t  BY <2>1, <3>1, <3>2
    <3> QED  BY <3>1, <3>3, <3>4, Zenon
  <2>4. Started(c)' /\ Flushed(c)'  BY <2>1 DEF ConnInv, Started, Flushed
  <2>5. ASSUME writer[c] = "run"
        PROVE  Pending(c)'
    <3>0. /\ \A k \in 1 .. Len(writeChan[c]) : writeChan[c][k] # 0 /\ writeChan[c][k] = Len(sent[c]) + k
          /\ ~HasNil(c) => written[c] = Len(sent[c]) + Len(writeChan[c])
      BY <1>3, <2>5 DEF ConnInv, Pending
    <3>1. ~HasNil(c) /\ \A k \in 1 .. Len(writeChan[c]) : writeChan[c][k] = Len(sent[c]) + k
      <4>1. ASSUME writeChan[c] # <<>>  PROVE writeChan[c][Len(writeChan[c])] # 0
        <5>1. Len(writeChan[c]) \in 1 .. Len(writeChan[c])  BY <2>2, <4>1
        <5> QED  BY <3>0, <5>1
      <4> QED  BY <3>0, <4>1 DEF HasNil
    <3>2. written[c] = Len(sent[c]) + Len(writeChan[c])
      BY <3>0, <3>1
    <3>3. HasNil(c)'  BY <2>3 DEF HasNil
    <3>4. ASSUME NEW k \in 1 .. Len(writeChan'[c])
          PROVE  IF writeChan'[c][k] = 0 THEN k = Len(writeChan'[c]) /\ tCloseFlag'[c]
                 ELSE writeChan'[c][k] = Len(sent'[c]) + k
      <4>1. CASE k = Len(writeChan[c]) + 1  BY <2>1, <2>3, <4>1
      <4>2. CASE k # Len(writeChan[c]) + 1
        <5>1. k \in 1 .. Len(writeChan[c])  BY <2>2, <2>3, <4>2
        <5>2. writeChan'[c][k] = Len(sent[c]) + k  BY <2>3, <3>1, <5>1
        <5> QED  BY <2>2, <5>1, <5>2
      <4> QED  BY <4>1, <4>2
    <3>5. written'[c] + 1 = Len(sent'[c]) + Len(writeChan'[c])
      <4>1. written'[c] = written[c]  OBVIOUS
      <4>2. Len(sent'[c]) = Len(sent[c])  OBVIOUS
      <4>3. Len(writeChan'[c]) = Len(writeChan[c]) + 1  BY <2>3
      <4>4. written[c] + 1 = Len(sent[c]) + (Len(writeChan[c]) + 1)
        BY <2>2, <3>2, OneMore
      <4> QED  BY <4>1, <4>2, <4>3, <4>4
    <3> QED  BY <3>3, <3>4, <3>5 DEF Pending
  <2>6. ASSUME writer[c] # "run" PROVE Pending(c)'
    BY <2>6 DEF Pending
  <2> QED  BY <2>4, <2>5, <2>6 DEF ConnInv
<1> QED  BY <1>1, <1>2, <1>3

\* A connection that is closed or destroyed keeps its type, and the others are as
\* they were.
LEMMA ClosedType ==
  ASSUME TcpType, NEW c \in Conns, T!CloseConn(c) \/ T!DoDestroy(c)
  PROVE  /\ writeChan' \in [Conns -> Seq(Nat)]
         /\ sock' \in [Conns -> {"none", "open", "closed"}] /\ cut' \subseteq Conns
         /\ chanClosed' \in [Conns -> BOOLEAN] /\ tCloseFlag' \in [Conns -> BOOLEAN]
         /\ \A d \in Conns \ {c} :
              writeChan'[d] = writeChan[d] /\ tCloseFlag'[d] = tCloseFlag[d] /\ sock'[d] = sock[d]
<1>1. CASE T!DoDestroy(c)  BY <1>1 DEF T!DoDestroy, TcpType
<1>2. CASE T!CloseConn(c) /\ ~T!DoDestroy(c)
  <2>1. Append(writeChan[c], 0) \in Seq(Nat)  BY DEF TcpType
  <2> QED  BY <1>2, <2>1 DEF T!CloseConn, T!tcpConn, TcpType
<1> QED  BY <1>1, <1>2

\* Write: a message goes behind the others, or a full channel destroys the
\* connection, without the message.
LEMMA WriteInv ==
  ASSUME TcpInv, NEW c \in Conns, T!Write(c)
  PROVE  TcpInv'
<1>1. TcpType /\ \A d \in Conns : ConnInv(d)  BY DEF TcpInv
<1>2. /\ writer[c] # "none" /\ ~tCloseFlag[c]
      /\ UNCHANGED <<role, writer, tAgent, conns, owner, sent>>
  BY DEF T!Write
<1>3. CASE T!DoDestroy(c) /\ written' = written
  <2>1. TcpType'  BY <1>1, <1>2, <1>3, ClosedType DEF TcpType
  <2>2. ASSUME NEW d \in Conns PROVE ConnInv(d)'
    <3>1. CASE d = c  BY <1>1, <1>2, <1>3, <3>1, ClosedConn
    <3>2. CASE d # c  BY <1>1, <1>2, <1>3, <3>2, ClosedType, SameConn
    <3> QED  BY <3>1, <3>2
  <2> QED  BY <2>1, <2>2 DEF TcpInv
<1>4. CASE ~(T!DoDestroy(c) /\ written' = written)
  <2>1. /\ written' = [written EXCEPT ![c] = @ + 1]
        /\ writeChan' = [writeChan EXCEPT ![c] = Append(@, written[c] + 1)]
        /\ UNCHANGED <<sock, chanClosed, tCloseFlag, cut>>
    BY <1>4 DEF T!Write
  <2>2. /\ writeChan[c] \in Seq(Nat) /\ sent[c] \in Seq(Nat) /\ written[c] \in Nat
        /\ Len(writeChan[c]) \in Nat /\ Len(sent[c]) \in Nat
    BY <1>1 DEF TcpType
  <2>3. /\ writeChan'[c] = Append(writeChan[c], written[c] + 1) /\ written'[c] = written[c] + 1
        /\ Append(writeChan[c], written[c] + 1) \in Seq(Nat)
    BY <1>1, <2>1, <2>2 DEF TcpType
  <2>4. TcpType'  BY <1>1, <1>2, <2>1, <2>3 DEF TcpType
  <2>5. ASSUME NEW d \in Conns PROVE ConnInv(d)'
    <3>1. CASE d = c
      <4>1. /\ Len(writeChan'[c]) = Len(writeChan[c]) + 1
            /\ \A k \in 1 .. Len(writeChan[c]) : writeChan'[c][k] = writeChan[c][k]
            /\ writeChan'[c][Len(writeChan[c]) + 1] = written[c] + 1 /\ writeChan'[c] # <<>>
        <5> written[c] + 1 \in Nat  BY <2>2
        <5>1. \A e \in Nat : /\ Len(Append(writeChan[c], e)) = Len(writeChan[c]) + 1
                              /\ Append(writeChan[c], e) # <<>>
                              /\ Append(writeChan[c], e)[Len(writeChan[c]) + 1] = e
                              /\ \A k \in 1 .. Len(writeChan[c]) :
                                   Append(writeChan[c], e)[k] = writeChan[c][k]
          BY <2>2, AppendIs
        <5> QED  BY <2>3, <5>1
      <4>2. Started(c)'  BY <1>1, <1>2, <2>1 DEF ConnInv, Started
      <4>3. Flushed(c)'  BY <1>1, <1>2, <2>1 DEF ConnInv, Flushed
      <4>4. ASSUME writer[c] = "run"
            PROVE  Pending(c)'
        <5>0. Pending(c)  BY <1>1 DEF ConnInv
        <5>a. \A k \in 1 .. Len(writeChan[c]) :
                writeChan[c][k] # 0 /\ writeChan[c][k] = Len(sent[c]) + k
          BY <1>2, <4>4, <5>0 DEF Pending
        <5>b. writeChan[c] # <<>> => Len(writeChan[c]) \in 1 .. Len(writeChan[c])
          BY <2>2
        <5>1. ~HasNil(c)  BY <5>a, <5>b DEF HasNil
        <5>2. written[c] = Len(sent[c]) + Len(writeChan[c])
          BY <4>4, <5>0, <5>1 DEF Pending
        <5>c. written[c] + 1 = Len(sent[c]) + (Len(writeChan[c]) + 1)
          BY <2>2, <5>2, OneMore
        <5>e. written[c] + 1 # 0  BY <2>2
        <5>d. Len(sent'[c]) = Len(sent[c])  BY <1>2
        <5>3. ~HasNil(c)'  BY <2>2, <4>1 DEF HasNil
        <5>4. ASSUME NEW k \in 1 .. Len(writeChan'[c])
              PROVE  writeChan'[c][k] # 0 /\ writeChan'[c][k] = Len(sent'[c]) + k
          <6>1. CASE k = Len(writeChan[c]) + 1  BY <4>1, <5>c, <5>d, <5>e, <6>1
          <6>2. CASE k # Len(writeChan[c]) + 1
            <7>1. k \in 1 .. Len(writeChan[c])  BY <2>2, <4>1, <6>2
            <7> QED  BY <1>2, <4>1, <5>a, <7>1
          <6> QED  BY <6>1, <6>2
        <5>5. written'[c] = Len(sent'[c]) + Len(writeChan'[c])
          BY <2>3, <4>1, <5>c, <5>d
        <5> QED  BY <5>3, <5>4, <5>5 DEF Pending
      <4>5. ASSUME writer[c] # "run" PROVE Pending(c)'
        BY <1>2, <4>5 DEF Pending
      <4> QED  BY <3>1, <4>2, <4>3, <4>4, <4>5 DEF ConnInv
    <3>2. CASE d # c
      <4>1. writeChan'[d] = writeChan[d] /\ written'[d] = written[d]
        BY <1>1, <2>1, <3>2 DEF TcpType
      <4> QED  BY <1>1, <1>2, <2>1, <4>1, SameConn
    <3> QED  BY <3>1, <3>2
  <2> QED  BY <2>4, <2>5 DEF TcpInv
<1> QED  BY <1>3, <1>4

\* The user of a connection closes or destroys it.
LEMMA UserCloseInv ==
  ASSUME TcpInv, NEW c \in Conns, T!UserClose(c)
  PROVE  TcpInv'
<1>1. TcpType /\ \A d \in Conns : ConnInv(d)  BY DEF TcpInv
<1>2. /\ writer[c] # "none" /\ (T!CloseConn(c) \/ T!DoDestroy(c))
      /\ UNCHANGED <<role, writer, tAgent, conns, owner, written, sent>>
  BY DEF T!UserClose
<1>3. TcpType'  BY <1>1, <1>2, ClosedType DEF TcpType
<1>4. ASSUME NEW d \in Conns PROVE ConnInv(d)'
  <2>1. CASE d = c  BY <1>1, <1>2, <2>1, ClosedConn
  <2>2. CASE d # c  BY <1>1, <1>2, <2>2, ClosedType, SameConn
  <2> QED  BY <2>1, <2>2
<1> QED  BY <1>3, <1>4 DEF TcpInv

\* The agent ends, and with it the connection.
LEMMA AgentRunEndsInv ==
  ASSUME TcpInv, NEW c \in Conns, T!AgentRunEnds(c)
  PROVE  TcpInv'
<1>1. TcpType /\ \A d \in Conns : ConnInv(d)  BY DEF TcpInv
<1>2. /\ tAgent[c] = "run" /\ tAgent' = [tAgent EXCEPT ![c] = "end"] /\ T!CloseConn(c)
      /\ UNCHANGED <<role, writer, conns, owner, written, sent>>
  BY DEF T!AgentRunEnds
<1>3. TcpType'  BY <1>1, <1>2, ClosedType DEF TcpType
<1>4. ASSUME NEW d \in Conns PROVE ConnInv(d)'
  <2>1. CASE d = c /\ writer[c] # "none"
    <3>1. tAgent'[c] = "end"  BY <1>1, <1>2 DEF TcpType
    <3> QED  BY <1>1, <1>2, <2>1, <3>1, ClosedConn
  <2>2. CASE d # c
    <3>1. tAgent'[d] = tAgent[d]  BY <1>1, <1>2, <2>2 DEF TcpType
    <3> QED  BY <1>1, <1>2, <2>2, <3>1, ClosedType, SameConn
  <2>3. writer[c] # "none"  BY <1>1, <1>2 DEF ConnInv, Started
  <2> QED  BY <2>1, <2>2, <2>3
<1> QED  BY <1>3, <1>4 DEF TcpInv

\* The first of the others is taken.
LEMMA TailIs ==
  ASSUME NEW q \in Seq(Nat), q # <<>>
  PROVE  /\ Tail(q) \in Seq(Nat) /\ Len(q) \in Nat /\ Len(q) >= 1
         /\ Len(Tail(q)) \in Nat /\ Len(q) = Len(Tail(q)) + 1
         /\ \A k \in 1 .. Len(Tail(q)) : Tail(q)[k] = q[k + 1]
         /\ Head(q) = q[1] /\ Head(q) \in Nat
         /\ Len(q) = 1 => Tail(q) = <<>>
         /\ Len(q) # 1 => Tail(q) # <<>> /\ Len(Tail(q)) \in 1 .. Len(Tail(q))
<1>1. Len(q) \in Nat /\ Len(q) >= 1  OBVIOUS
<1>2. Tail(q) \in Seq(Nat) /\ Len(Tail(q)) = Len(q) - 1  OBVIOUS
<1>3. \A k \in 1 .. Len(Tail(q)) : Tail(q)[k] = q[k + 1]  OBVIOUS
<1>4. Head(q) = q[1] /\ q[1] \in Nat  BY <1>1
<1>a. Tail(q) = <<>> <=> Len(Tail(q)) = 0  BY <1>2, EmptySeq
<1>5. Len(q) = 1 => Tail(q) = <<>>
  <2>1. Len(q) = 1 => Len(q) - 1 = 0  BY <1>1
  <2> QED  BY <1>2, <1>a, <2>1
<1>6. Len(q) # 1 => Tail(q) # <<>> /\ Len(Tail(q)) \in 1 .. Len(Tail(q))
  <2>1. ASSUME NEW l \in Nat, l >= 1, l # 1  PROVE l - 1 # 0 /\ l - 1 \in 1 .. l - 1
    BY <2>1
  <2> QED  BY <1>1, <1>2, <1>a, <2>1
<1> QED  BY <1>1, <1>2, <1>3, <1>4, <1>5, <1>6

\* The writing goroutine takes the next message, which is the one after what it
\* sent, or the nil, when everything accepted is sent.
LEMMA WriterTakes ==
  ASSUME TcpType, NEW c \in Conns, ConnInv(c), writer[c] = "run", writeChan[c] # <<>>,
         writeChan'[c] = Tail(writeChan[c]), written'[c] = written[c],
         tCloseFlag'[c] = tCloseFlag[c], sock'[c] = sock[c], tAgent'[c] = tAgent[c],
         \/ Head(writeChan[c]) = 0 /\ writer'[c] = "nil" /\ sent'[c] = sent[c]
         \/ /\ Head(writeChan[c]) # 0 /\ writer'[c] = "run"
            /\ sent'[c] = Append(sent[c], Head(writeChan[c]))
         \/ writer'[c] = "close" /\ sent'[c] = sent[c]
  PROVE  ConnInv(c)'
<1>1. writeChan[c] \in Seq(Nat) /\ sent[c] \in Seq(Nat) /\ written[c] \in Nat
  BY DEF TcpType
<1>2. /\ Len(writeChan[c]) \in Nat /\ Len(writeChan'[c]) \in Nat /\ Len(sent[c]) \in Nat
      /\ Len(writeChan[c]) = Len(writeChan'[c]) + 1
      /\ \A k \in 1 .. Len(writeChan'[c]) : writeChan'[c][k] = writeChan[c][k + 1]
      /\ Head(writeChan[c]) = writeChan[c][1] /\ Head(writeChan[c]) \in Nat
  BY <1>1, TailIs
<1>3. /\ Started(c) /\ Flushed(c)
      /\ \A k \in 1 .. Len(writeChan[c]) :
           IF writeChan[c][k] = 0 THEN k = Len(writeChan[c]) /\ tCloseFlag[c]
           ELSE writeChan[c][k] = Len(sent[c]) + k
      /\ HasNil(c) => written[c] + 1 = Len(sent[c]) + Len(writeChan[c])
      /\ ~HasNil(c) => written[c] = Len(sent[c]) + Len(writeChan[c])
  BY DEF ConnInv, Pending
<1>4. 1 \in 1 .. Len(writeChan[c])  BY <1>2
<1>5. CASE Head(writeChan[c]) = 0 /\ writer'[c] = "nil" /\ sent'[c] = sent[c]
  <2>1. Len(writeChan[c]) = 1 /\ tCloseFlag[c]  BY <1>2, <1>3, <1>4, <1>5
  <2>2. HasNil(c)  BY <1>2, <1>5, <2>1 DEF HasNil
  <2>3. written[c] + 1 = Len(sent[c]) + 1  BY <1>3, <2>1, <2>2
  <2>4. written[c] = Len(sent[c])  BY <1>1, <1>2, <2>3
  <2>5. Started(c)'  BY <1>3, <1>5 DEF Started
  <2>6. Flushed(c)'  BY <1>3, <1>5, <2>1, <2>4 DEF Flushed
  <2>7. Pending(c)'  BY <1>5 DEF Pending
  <2> QED  BY <2>5, <2>6, <2>7 DEF ConnInv
<1>6. CASE /\ Head(writeChan[c]) # 0 /\ writer'[c] = "run"
           /\ sent'[c] = Append(sent[c], Head(writeChan[c]))
  <2>1. writeChan[c][1] = Len(sent[c]) + 1  BY <1>2, <1>3, <1>4, <1>6
  <2>2. /\ Len(sent'[c]) = Len(sent[c]) + 1 /\ sent'[c][Len(sent[c]) + 1] = Len(sent[c]) + 1
        /\ \A k \in 1 .. Len(sent[c]) : sent'[c][k] = sent[c][k]
    BY <1>1, <1>2, <1>6, <2>1, AppendIs
  <2>3. Started(c)'  BY <1>3, <1>6 DEF Started
  <2>4. Flushed(c)'
    <3>1. ASSUME NEW k \in 1 .. Len(sent'[c])
          PROVE  sent'[c][k] = k
      <4>1. CASE k = Len(sent[c]) + 1  BY <2>2, <4>1
      <4>2. CASE k # Len(sent[c]) + 1
        <5>1. k \in 1 .. Len(sent[c])  BY <1>2, <2>2, <4>2
        <5> QED  BY <1>3, <2>2, <5>1 DEF Flushed
      <4> QED  BY <4>1, <4>2
    <3> QED  BY <1>6, <3>1 DEF Flushed
  <2>5. ASSUME NEW k \in 1 .. Len(writeChan'[c])
        PROVE  /\ k + 1 \in 1 .. Len(writeChan[c]) /\ writeChan'[c][k] = writeChan[c][k + 1]
               /\ IF writeChan'[c][k] = 0 THEN k = Len(writeChan'[c]) /\ tCloseFlag'[c]
                  ELSE writeChan'[c][k] = Len(sent'[c]) + k
    <3>1. k + 1 \in 1 .. Len(writeChan[c]) /\ writeChan'[c][k] = writeChan[c][k + 1]
      BY <1>2
    <3>2. IF writeChan'[c][k] = 0 THEN k + 1 = Len(writeChan[c]) /\ tCloseFlag[c]
          ELSE writeChan'[c][k] = Len(sent[c]) + (k + 1)
      BY <1>3, <3>1
    <3>3. Len(sent[c]) + (k + 1) = Len(sent'[c]) + k
      <4>1. k \in Nat /\ Len(sent[c]) \in Nat  BY <1>2
      <4>2. Len(sent'[c]) = Len(sent[c]) + 1  BY <2>2
      <4>3. Len(sent[c]) + (k + 1) = (Len(sent[c]) + 1) + k  BY <4>1, OneOver, Zenon
      <4> QED  BY <4>2, <4>3, Zenon
    <3>4. k + 1 = Len(writeChan[c]) => k = Len(writeChan'[c])  BY <1>2
    <3> QED  BY <3>1, <3>2, <3>3, <3>4
  <2>6. HasNil(c) <=> HasNil(c)'
    <3>1. CASE Len(writeChan[c]) = 1
      <4>1. writeChan'[c] = <<>>  BY <1>1, <3>1, TailIs
      <4>2. ~HasNil(c)  BY <1>2, <1>6, <3>1 DEF HasNil
      <4> QED  BY <4>1, <4>2 DEF HasNil
    <3>2. CASE Len(writeChan[c]) # 1
      <4>1. Len(writeChan'[c]) \in 1 .. Len(writeChan'[c]) /\ writeChan'[c] # <<>>
        BY <1>1, <3>2, TailIs
      <4>2. writeChan'[c][Len(writeChan'[c])] = writeChan[c][Len(writeChan[c])]
        BY <1>2, <4>1
      <4> QED  BY <4>1, <4>2 DEF HasNil
    <3> QED  BY <3>1, <3>2
  <2>7. Len(sent'[c]) + Len(writeChan'[c]) = Len(sent[c]) + Len(writeChan[c])
    BY <1>2, <2>2, OneOver
  <2>8. Pending(c)'
    <3>1. HasNil(c)' => written'[c] + 1 = Len(sent'[c]) + Len(writeChan'[c])
      BY <1>3, <2>6, <2>7
    <3>2. ~HasNil(c)' => written'[c] = Len(sent'[c]) + Len(writeChan'[c])
      BY <1>3, <2>6, <2>7
    <3> QED  BY <2>5, <3>1, <3>2 DEF Pending
  <2> QED  BY <2>3, <2>4, <2>8 DEF ConnInv
<1>7. CASE writer'[c] = "close" /\ sent'[c] = sent[c]
  <2>1. Started(c)' /\ Flushed(c)'  BY <1>3, <1>7 DEF Started, Flushed
  <2>2. Pending(c)'  BY <1>7 DEF Pending
  <2> QED  BY <2>1, <2>2 DEF ConnInv
<1> QED  BY <1>5, <1>6, <1>7

\* The writing goroutine writes, or leaves its loop.
LEMMA WriterStepInv ==
  ASSUME TcpInv, NEW c \in Conns, T!WriterStep(c)
  PROVE  TcpInv'
<1>1. TcpType /\ \A d \in Conns : ConnInv(d)  BY DEF TcpInv
<1>2. /\ writer[c] = "run"
      /\ UNCHANGED <<role, sock, chanClosed, tCloseFlag, tAgent, conns, owner, written>>
  BY DEF T!WriterStep
<1>3. writeChan[c] \in Seq(Nat) /\ sent[c] \in Seq(Nat)  BY <1>1 DEF TcpType
<1>4. CASE writeChan[c] # <<>> /\ writeChan' = [writeChan EXCEPT ![c] = Tail(@)]
  <2>1. Tail(writeChan[c]) \in Seq(Nat) /\ Head(writeChan[c]) \in Nat
    BY <1>3, <1>4, TailIs
  <2>2. Append(sent[c], Head(writeChan[c])) \in Seq(Nat)  BY <1>3, <2>1, AppendIs
  <2>3. \/ Head(writeChan[c]) = 0 /\ writer' = [writer EXCEPT ![c] = "nil"] /\ UNCHANGED <<sent, cut>>
        \/ /\ Head(writeChan[c]) # 0 /\ UNCHANGED <<writer, cut>>
           /\ sent' = [sent EXCEPT ![c] = Append(@, Head(writeChan[c]))]
        \/ writer' = [writer EXCEPT ![c] = "close"] /\ cut' = cut \cup {c} /\ UNCHANGED sent
    BY <1>4 DEF T!WriterStep
  <2>4. TcpType'
    <3>1. writeChan' \in [Conns -> Seq(Nat)]  BY <1>1, <1>4, <2>1 DEF TcpType
    <3>2. writer' \in [Conns -> {"none", "run", "close", "nil", "over"}]
      BY <1>1, <2>3 DEF TcpType
    <3>3. cut' \subseteq Conns  BY <1>1, <2>3 DEF TcpType
    <3>4. sent' \in [Conns -> Seq(Nat)]  BY <1>1, <2>2, <2>3 DEF TcpType
    <3> QED  BY <1>1, <1>2, <3>1, <3>2, <3>3, <3>4 DEF TcpType
  <2>5. ConnInv(c)'
    <3>1. writeChan'[c] = Tail(writeChan[c])  BY <1>1, <1>4 DEF TcpType
    <3>2. \/ Head(writeChan[c]) = 0 /\ writer'[c] = "nil" /\ sent'[c] = sent[c]
          \/ /\ Head(writeChan[c]) # 0 /\ writer'[c] = "run"
             /\ sent'[c] = Append(sent[c], Head(writeChan[c]))
          \/ writer'[c] = "close" /\ sent'[c] = sent[c]
      BY <1>1, <1>2, <2>3 DEF TcpType
    <3> QED  BY <1>1, <1>2, <1>4, <3>1, <3>2, WriterTakes
  <2>6. ASSUME NEW d \in Conns \ {c} PROVE ConnInv(d)'
    <3>1. writeChan'[d] = writeChan[d] /\ writer'[d] = writer[d] /\ sent'[d] = sent[d]
      BY <1>1, <1>4, <2>3 DEF TcpType
    <3> QED  BY <1>1, <1>2, <3>1, SameConn
  <2> QED  BY <2>4, <2>5, <2>6 DEF TcpInv
<1>5. CASE writer' = [writer EXCEPT ![c] = "close"] /\ UNCHANGED <<writeChan, sent, cut>>
  <2>1. TcpType'  BY <1>1, <1>2, <1>5 DEF TcpType
  <2>2. ConnInv(c)'
    <3>1. writer'[c] = "close"  BY <1>1, <1>5 DEF TcpType
    <3>2. Started(c)'  BY <1>1, <1>2, <1>5, <3>1 DEF ConnInv, Started
    <3>3. Flushed(c)'  BY <1>1, <1>2, <1>5, <3>1 DEF ConnInv, Flushed
    <3>4. Pending(c)'  BY <3>1 DEF Pending
    <3> QED  BY <3>2, <3>3, <3>4 DEF ConnInv
  <2>3. ASSUME NEW d \in Conns \ {c} PROVE ConnInv(d)'
    <3>1. writer'[d] = writer[d]  BY <1>1, <1>5 DEF TcpType
    <3> QED  BY <1>1, <1>2, <1>5, <3>1, SameConn
  <2> QED  BY <2>1, <2>2, <2>3 DEF TcpInv
<1> QED  BY <1>4, <1>5 DEF T!WriterStep

\* The writing goroutine closes the socket and sets the flag.
LEMMA WriterEndsInv ==
  ASSUME TcpInv, NEW c \in Conns, T!WriterEnds(c)
  PROVE  TcpInv'
<1>1. TcpType /\ \A d \in Conns : ConnInv(d)  BY DEF TcpInv
<1>2. /\ writer[c] \in {"nil", "close"} /\ writer' = [writer EXCEPT ![c] = "over"]
      /\ sock' = [sock EXCEPT ![c] = "closed"] /\ tCloseFlag' = [tCloseFlag EXCEPT ![c] = TRUE]
      /\ UNCHANGED <<role, writeChan, chanClosed, tAgent, conns, owner, written, sent, cut>>
  BY DEF T!WriterEnds
<1>3. TcpType'  BY <1>1, <1>2 DEF TcpType
<1>4. ConnInv(c)'
  <2>1. writer'[c] = "over" /\ sock'[c] = "closed"  BY <1>1, <1>2 DEF TcpType
  <2>2. Started(c)'  BY <1>1, <1>2, <2>1 DEF ConnInv, Started
  <2>3. Flushed(c)'  BY <1>1, <1>2, <2>1 DEF ConnInv, Flushed
  <2>4. Pending(c)'  BY <2>1 DEF Pending
  <2> QED  BY <2>2, <2>3, <2>4 DEF ConnInv
<1>5. ASSUME NEW d \in Conns \ {c} PROVE ConnInv(d)'
  <2>1. writer'[d] = writer[d] /\ sock'[d] = sock[d] /\ tCloseFlag'[d] = tCloseFlag[d]
    BY <1>1, <1>2 DEF TcpType
  <2> QED  BY <1>1, <1>2, <2>1, SameConn
<1> QED  BY <1>3, <1>4, <1>5 DEF TcpInv

\* A connection leaves the set.
LEMMA CleanupInv ==
  ASSUME TcpInv, NEW c \in Conns, T!Cleanup(c)
  PROVE  TcpInv'
<1>1. TcpType /\ \A d \in Conns : ConnInv(d)  BY DEF TcpInv
<1>2. /\ tAgent[c] = "end" /\ tAgent' = [tAgent EXCEPT ![c] = "over"] /\ conns' = conns \ {c}
      /\ UNCHANGED <<role, sock, writeChan, chanClosed, tCloseFlag, writer, owner, written,
                     sent, cut>>
  BY DEF T!Cleanup, T!tcpConn
<1>3. TcpType'  BY <1>1, <1>2 DEF TcpType
<1>4. ASSUME NEW d \in Conns PROVE ConnInv(d)'
  <2>1. CASE d = c
    <3>1. tAgent'[c] = "over" /\ sock'[c] # "none"
      BY <1>1, <1>2 DEF TcpType, ConnInv, Started
    <3> QED  BY <1>1, <1>2, <2>1, <3>1, SameConn
  <2>2. CASE d # c
    <3>1. tAgent'[d] = tAgent[d]  BY <1>1, <1>2, <2>2 DEF TcpType
    <3> QED  BY <1>1, <1>2, <3>1, SameConn
  <2> QED  BY <2>1, <2>2
<1> QED  BY <1>3, <1>4 DEF TcpInv

\* A server or client closes the sockets of its connections, ...
LEMMA TcpCloseInv ==
  ASSUME TcpInv, T!Close
  PROVE  TcpInv'
<1>1. TcpType /\ \A d \in Conns : ConnInv(d)  BY DEF TcpInv
<1>2. /\ owner' = "wait" /\ conns' = {} /\ cut' = cut \cup conns
      /\ sock' = [c \in Conns |-> IF c \in conns THEN "closed" ELSE sock[c]]
      /\ UNCHANGED <<role, writeChan, chanClosed, tCloseFlag, writer, tAgent, written, sent>>
  BY DEF T!Close, T!CloseAll, T!tcpConn
<1>3. TcpType'  BY <1>1, <1>2 DEF TcpType
<1>4. ASSUME NEW d \in Conns PROVE ConnInv(d)'
  <2>1. sock'[d] = sock[d] \/ sock'[d] = "closed"  BY <1>2
  <2> QED  BY <1>1, <1>2, <2>1, SameConn
<1> QED  BY <1>3, <1>4 DEF TcpInv

\* ... and a step that changes no connection, of this part or another.
LEMMA TcpStutter ==
  ASSUME TcpInv, owner' \in {"run", "wait", "closed"},
         UNCHANGED <<role, sock, T!tcpConn, writer, tAgent, conns, written, sent, cut>>
  PROVE  TcpInv'
<1>1. TcpType /\ \A d \in Conns : ConnInv(d)  BY DEF TcpInv
<1>2. TcpType'  BY <1>1 DEF TcpType, T!tcpConn
<1>3. ASSUME NEW d \in Conns PROVE ConnInv(d)'
  BY <1>1, SameConn DEF T!tcpConn
<1> QED  BY <1>2, <1>3 DEF TcpInv

\* Every step keeps the invariant.
LEMMA TcpNext ==
  ASSUME TcpInv, [Next]_vars
  PROVE  TcpInv'
<1>1. CASE T!Next
  <2>1. ASSUME NEW c \in Conns, T!Accept(c)  PROVE TcpInv'  BY <2>1, AcceptInv
  <2>2. ASSUME NEW c \in Conns, T!Dial(c)  PROVE TcpInv'  BY <2>2, DialInv
  <2>3. ASSUME NEW c \in Conns, T!Connect(c)  PROVE TcpInv'  BY <2>3, ConnectInv
  <2>4. ASSUME NEW c \in Conns, T!Write(c)  PROVE TcpInv'  BY <2>4, WriteInv
  <2>5. ASSUME NEW c \in Conns, T!UserClose(c)  PROVE TcpInv'  BY <2>5, UserCloseInv
  <2>6. ASSUME NEW c \in Conns, T!WriterStep(c)  PROVE TcpInv'  BY <2>6, WriterStepInv
  <2>7. ASSUME NEW c \in Conns, T!WriterEnds(c)  PROVE TcpInv'  BY <2>7, WriterEndsInv
  <2>8. ASSUME NEW c \in Conns, T!AgentRunEnds(c)  PROVE TcpInv'  BY <2>8, AgentRunEndsInv
  <2>9. ASSUME NEW c \in Conns, T!Cleanup(c)  PROVE TcpInv'  BY <2>9, CleanupInv
  <2>10. CASE T!Close  BY <2>10, TcpCloseInv
  <2>11. CASE T!CloseEnds  BY <2>11, TcpStutter DEF T!CloseEnds
  <2> QED
    BY <1>1, <2>1, <2>2, <2>3, <2>4, <2>5, <2>6, <2>7, <2>8, <2>9, <2>10, <2>11
    DEF T!Next
<1>2. CASE UNCHANGED tcpVars
  <2>1. owner' \in {"run", "wait", "closed"}  BY <1>2 DEF tcpVars, TcpInv, TcpType
  <2>2. UNCHANGED <<role, sock, T!tcpConn, writer, tAgent, conns, written, sent, cut>>
    BY <1>2 DEF tcpVars, T!tcpConn
  <2> QED  BY <2>1, <2>2, TcpStutter
<1> QED  BY <1>1, <1>2 DEF Next, vars

\* The goroutine of newTCPConn writes the messages in the order in which Write
\* accepted them, without a gap, and when Close's nil ends it nothing is left, with
\* a channel of any capacity and any number of connections, of a server or a client
\* that closes, and destroys, and dials again.
THEOREM CloseLosesNothing == Spec => []CloseFlushes
<1>1. Init => TcpInv  BY TcpInit DEF Init
<1>2. TcpInv /\ [Next]_vars => TcpInv'  BY TcpNext
<1>3. TcpInv => CloseFlushes
  BY DEF TcpInv, ConnInv, Flushed, CloseFlushes, T!CloseFlushes
<1> QED  BY <1>1, <1>2, <1>3, PTL DEF Spec

-----------------------------------------------------------------------------
Packets == [kind : {"request", "reply"}, n : Nat, id : Nat]

SessionType ==
  /\ added \in Nat /\ acked \in Nat /\ reader \in Nat
  /\ sendQueue \in Seq(Packets) /\ recvChan \in Seq(Packets)
  /\ net \subseteq Packets /\ todo \subseteq Nat /\ handled \in Seq(Nat)

\* SendQueue has the requests that are not answered, in order, with the numbers
\* that myRequestId gave them.
QueueInv ==
  /\ myRequestId = added % Wrap
  /\ acked + Len(sendQueue) = added
  /\ \A k \in 1 .. Len(sendQueue) :
       sendQueue[k] = S!Packet("request", acked + k, S!Id(acked + k))

\* The peer is at the request that is the next to be answered, or has just handled it.
PeerInv ==
  /\ \A k \in 1 .. Len(handled) : handled[k] = k
  /\ acked <= Len(handled) /\ Len(handled) <= acked + 1 /\ Len(handled) <= added
  /\ peerRequestId = IF handled = <<>> THEN 0 ELSE S!Id(Len(handled))

\* What is on its way: requests up to the front of SendQueue, replies to what was
\* handled, and in the network nothing that is too late.
Sound(p) ==
  /\ p.n >= 1 /\ p.id = S!Id(p.n)
  /\ p.kind = "request" => p.n <= acked + 1 /\ p.n <= added
  /\ p.kind = "reply" => p.n <= Len(handled)
WayInv ==
  /\ \A p \in net : Sound(p) /\ ~S!Late(acked + 1, p.n)
  /\ \A n \in todo : n >= 1 /\ n <= Len(handled) /\ ~S!Late(acked + 1, n)
  /\ \A k \in 1 .. Len(recvChan) : recvChan[k].kind = "reply" /\ Sound(recvChan[k])

\* The reply that ReadMsg checked is the one to the front of SendQueue.
ReaderInv == reader # 0 => reader = acked + 1 /\ Len(handled) = acked + 1

SessionInv == SessionType /\ QueueInv /\ PeerInv /\ WayInv /\ ReaderInv

\* Request_id of requests: of the first, of the next, and told apart if near.
LEMMA IdType == ASSUME NEW n \in Nat PROVE S!Id(n) \in Nat
<1>1. n - 1 \in Int /\ Wrap \in Nat /\ Wrap > 0  BY NetAssumption
<1> QED  BY <1>1, DivMod DEF S!Id

LEMMA IdFirst == S!Id(1) = 0
<1>1. 0 = Wrap * 0 + 0 /\ 0 \in 0 .. Wrap - 1 /\ Wrap > 0 /\ Wrap \in Nat  BY NetAssumption
<1>2. 0 % Wrap = 0  BY <1>1, Remainder
<1> QED  BY <1>2 DEF S!Id

LEMMA IdNext ==
  ASSUME NEW n \in Nat
  PROVE  (S!Id(n) + 1) % Wrap = S!Id(n + 1)
<1>1. Wrap \in Nat /\ Wrap > 0  BY NetAssumption
<1>2. PICK x \in Int, one \in Int : x = n - 1 /\ one = 1  OBVIOUS
<1>3. ((x % Wrap) + one) % Wrap = (x + one) % Wrap  BY <1>1, WrapAdd
<1>4. x + one = (n + 1) - 1  BY <1>2
<1> QED  BY <1>2, <1>3, <1>4 DEF S!Id

LEMMA IdNear ==
  ASSUME NEW m \in Nat, NEW n \in Nat, S!Id(m) = S!Id(n), m - n < Wrap, n - m < Wrap
  PROVE  m = n
<1>1. Wrap \in Nat /\ Wrap > 0  BY NetAssumption
<1>2. PICK x \in Int, y \in Int : x = m - 1 /\ y = n - 1  OBVIOUS
<1>3. x % Wrap = y % Wrap  BY <1>2 DEF S!Id
<1>4. x - y < Wrap /\ y - x < Wrap  BY <1>1, <1>2
<1>5. x = y  BY <1>1, <1>3, <1>4, NearSame
<1> QED  BY <1>2, <1>5

\* The session begins with no request.
LEMMA SessionInit == S!Init => SessionInv
<1> SUFFICES ASSUME S!Init PROVE SessionInv  OBVIOUS
<1> USE DEF S!Init
<1>1. <<>> \in Seq(Packets) /\ <<>> \in Seq(Nat) /\ Len(<<>>) = 0  OBVIOUS
<1>2. SessionType  BY <1>1 DEF SessionType
<1>3. QueueInv
  <2>1. S!Id(1) = 0 % Wrap  BY DEF S!Id
  <2>2. 0 % Wrap = 0  BY <2>1, IdFirst
  <2> QED  BY <1>1, <2>2 DEF QueueInv
<1>4. PeerInv  BY <1>1 DEF PeerInv
<1>5. WayInv /\ ReaderInv  BY <1>1 DEF WayInv, ReaderInv
<1> QED  BY <1>2, <1>3, <1>4, <1>5 DEF SessionInv

\* A packet of a request or a reply.
LEMMA PacketType ==
  ASSUME NEW kind \in {"request", "reply"}, NEW n \in Nat, NEW id \in Nat
  PROVE  /\ S!Packet(kind, n, id) \in Packets /\ S!Packet(kind, n, id).n = n
         /\ S!Packet(kind, n, id).id = id /\ S!Packet(kind, n, id).kind = kind
BY DEF S!Packet, Packets

\* RequestAdd gives the requests that it queues their own numbers.
LEMMA RequestIds ==
  ASSUME SessionType, QueueInv, NEW j \in Nat
  PROVE  (myRequestId + j - 1) % Wrap = S!Id(added + j)
<1>1. Wrap \in Nat /\ Wrap > 0  BY NetAssumption
<1>2. added \in Int /\ myRequestId = added % Wrap /\ myRequestId \in Int
  BY <1>1, DivMod DEF SessionType, QueueInv
<1>3. PICK i \in Int : i = j - 1  OBVIOUS
<1>4. ((added % Wrap) + i) % Wrap = (added + i) % Wrap  BY <1>1, <1>2, WrapAdd
<1>5. myRequestId + j - 1 = myRequestId + i /\ added + j - 1 = added + i  BY <1>2, <1>3
<1> QED  BY <1>2, <1>4, <1>5 DEF S!Id

\* Requests are added at the end of SendQueue.
LEMMA RequestAddInv ==
  ASSUME SessionInv, NEW k \in 1 .. MaxAdd, S!RequestAdd(k)
  PROVE  SessionInv'
<1>1. SessionType /\ QueueInv /\ PeerInv /\ WayInv /\ ReaderInv  BY DEF SessionInv
<1>2. k \in Nat /\ k >= 1 /\ Wrap \in Nat /\ Wrap > 0  BY NetAssumption
<1> DEFINE new == [j \in 1 .. k |-> S!Packet("request", added + j, (myRequestId + j - 1) % Wrap)]
<1>3. /\ sendQueue' = sendQueue \o new /\ myRequestId' = (myRequestId + k) % Wrap
      /\ added' = added + k
      /\ UNCHANGED <<sCloseFlag, reader, recvChan, peerRequestId, todo, net, acked, handled>>
  BY DEF S!RequestAdd, S!places
<1>4. ASSUME NEW j \in 1 .. k
      PROVE  new[j] = S!Packet("request", added + j, S!Id(added + j)) /\ new[j] \in Packets
  <2>1. j \in Nat /\ added + j \in Nat  BY <1>1, <1>2 DEF SessionType
  <2>2. (myRequestId + j - 1) % Wrap = S!Id(added + j)  BY <1>1, <2>1, RequestIds
  <2>3. S!Id(added + j) \in Nat  BY <2>1, IdType
  <2> QED  BY <2>1, <2>2, <2>3, PacketType
<1>5. new \in Seq(Packets) /\ Len(new) = k  BY <1>2, <1>4
<1> HIDE DEF new
<1>6. /\ sendQueue' \in Seq(Packets) /\ Len(sendQueue') = Len(sendQueue) + k
      /\ \A i \in 1 .. Len(sendQueue) + k :
           sendQueue'[i] = IF i <= Len(sendQueue) THEN sendQueue[i] ELSE new[i - Len(sendQueue)]
  BY <1>1, <1>3, <1>5, ConcatProperties DEF SessionType
<1>7. Len(sendQueue) \in Nat /\ added \in Nat /\ acked \in Nat /\ added = acked + Len(sendQueue)
  BY <1>1 DEF SessionType, QueueInv
<1>8. SessionType'
  <2>1. added' \in Nat /\ sendQueue' \in Seq(Packets)  BY <1>2, <1>3, <1>6, <1>7
  <2> QED  BY <1>1, <1>3, <2>1 DEF SessionType
<1>9. QueueInv'
  <2>1. myRequestId' = added' % Wrap
    <3>1. added \in Int /\ k \in Int  BY <1>2, <1>7
    <3>2. ((added % Wrap) + k) % Wrap = (added + k) % Wrap  BY <1>2, <3>1, WrapAdd
    <3> QED  BY <1>1, <1>3, <3>2 DEF QueueInv
  <2>2. acked' + Len(sendQueue') = added'  BY <1>2, <1>3, <1>6, <1>7
  <2>3. ASSUME NEW i \in 1 .. Len(sendQueue')
        PROVE  sendQueue'[i] = S!Packet("request", acked + i, S!Id(acked + i))
    <3>1. CASE i <= Len(sendQueue)
      <4>1. i \in 1 .. Len(sendQueue) + k /\ i \in 1 .. Len(sendQueue)
        BY <1>2, <1>6, <1>7, <3>1
      <4> QED  BY <1>1, <1>6, <3>1, <4>1 DEF QueueInv
    <3>2. CASE ~(i <= Len(sendQueue))
      <4>1. i - Len(sendQueue) \in 1 .. k /\ i \in 1 .. Len(sendQueue) + k
        BY <1>2, <1>6, <1>7, <3>2
      <4>2. sendQueue'[i] = new[i - Len(sendQueue)]  BY <1>6, <3>2, <4>1
      <4>3. added + (i - Len(sendQueue)) = acked + i  BY <1>7, <4>1
      <4> QED  BY <1>4, <4>1, <4>2, <4>3
    <3> QED  BY <3>1, <3>2
  <2> QED  BY <1>3, <2>1, <2>2, <2>3 DEF QueueInv
<1>10. PeerInv'
  <2>1. Len(handled) \in Nat  BY <1>1 DEF SessionType
  <2> QED  BY <1>1, <1>2, <1>3, <1>7, <2>1 DEF PeerInv
<1>11. WayInv'
  <2>1. ASSUME NEW p \in Packets, Sound(p) PROVE Sound(p)'
    BY <1>2, <1>3, <1>7, <2>1 DEF Sound, Packets
  <2>2. \A i \in 1 .. Len(recvChan) : recvChan[i] \in Packets
    BY <1>1, ElementOfSeq DEF SessionType
  <2> QED  BY <1>1, <1>3, <2>1, <2>2 DEF WayInv, SessionType
<1>12. ReaderInv'  BY <1>1, <1>3 DEF ReaderInv
<1> QED  BY <1>8, <1>9, <1>10, <1>11, <1>12 DEF SessionInv

\* A step that only takes from what is on its way, or adds what is sound.
LEMMA WayStep ==
  ASSUME SessionInv, UNCHANGED <<myRequestId, sendQueue, added, reader, peerRequestId, acked, handled>>,
         net' \subseteq Packets, \A p \in net' : Sound(p) /\ ~S!Late(acked + 1, p.n),
         todo' \subseteq Nat,
         \A n \in todo' : n >= 1 /\ n <= Len(handled) /\ ~S!Late(acked + 1, n),
         recvChan' \in Seq(Packets),
         \A k \in 1 .. Len(recvChan') : recvChan'[k].kind = "reply" /\ Sound(recvChan'[k])
  PROVE  SessionInv'
<1>1. SessionType'  BY DEF SessionInv, SessionType
<1>2. QueueInv' /\ PeerInv' /\ ReaderInv'
  BY DEF SessionInv, QueueInv, PeerInv, ReaderInv
<1>3. WayInv'  BY DEF SessionInv, WayInv, Sound
<1> QED  BY <1>1, <1>2, <1>3 DEF SessionInv

\* The front of SendQueue is sent again.
LEMMA ResendInv ==
  ASSUME SessionInv, S!Resend
  PROVE  SessionInv'
<1>1. SessionType /\ QueueInv /\ PeerInv /\ WayInv /\ ReaderInv  BY DEF SessionInv
<1>2. UNCHANGED <<myRequestId, sendQueue, added, reader, recvChan, peerRequestId, todo, acked, handled>>
  BY DEF S!Resend
<1>3. CASE net' = net
  BY <1>1, <1>2, <1>3, WayStep DEF SessionType, WayInv
<1>4. CASE sendQueue # <<>> /\ net' = net \cup {sendQueue[1]}
  <2>1. /\ acked \in Nat /\ acked + 1 \in Nat /\ 1 \in 1 .. Len(sendQueue)
        /\ acked + 1 <= added
    BY <1>1, <1>4 DEF SessionType, QueueInv
  <2>2. /\ sendQueue[1] = S!Packet("request", acked + 1, S!Id(acked + 1))
        /\ S!Id(acked + 1) \in Nat
    BY <1>1, <2>1, IdType DEF QueueInv
  <2>3. /\ sendQueue[1] \in Packets /\ sendQueue[1].n = acked + 1
        /\ sendQueue[1].id = S!Id(acked + 1) /\ sendQueue[1].kind = "request"
    BY <2>1, <2>2, PacketType
  <2>4. ~S!Late(acked + 1, acked + 1)  BY <2>1, NetAssumption DEF S!Late
  <2>5. Sound(sendQueue[1])  BY <2>1, <2>3 DEF Sound
  <2> QED  BY <1>1, <1>2, <1>4, <2>3, <2>4, <2>5, WayStep DEF SessionType, WayInv
<1> QED  BY <1>3, <1>4 DEF S!Resend

\* The network loses a packet.
LEMMA LoseInv ==
  ASSUME SessionInv, NEW p \in net, S!Lose(p)
  PROVE  SessionInv'
BY WayStep DEF S!Lose, S!sending, SessionInv, SessionType, WayInv

\* The peer answers a request that it handled.
LEMMA ReplyInv ==
  ASSUME SessionInv, NEW n \in S!Nums, S!Reply(n)
  PROVE  SessionInv'
<1>1. SessionType /\ QueueInv /\ PeerInv /\ WayInv /\ ReaderInv  BY DEF SessionInv
<1> DEFINE p == S!Packet("reply", n, S!Id(n))
<1>2. /\ n \in todo /\ todo' = todo \ {n} /\ net' = net \cup {p}
      /\ UNCHANGED <<myRequestId, sendQueue, added, reader, recvChan, peerRequestId, acked, handled>>
  BY DEF S!Reply, S!sending
<1>3. n \in Nat /\ n >= 1 /\ n <= Len(handled) /\ ~S!Late(acked + 1, n)
  BY <1>1, <1>2 DEF SessionType, WayInv
<1>4. p \in Packets /\ p.n = n /\ p.id = S!Id(n) /\ p.kind = "reply"
  <2>1. S!Id(n) \in Nat  BY <1>3, IdType
  <2> QED  BY <1>3, <2>1, PacketType
<1> HIDE DEF p
<1>5. Sound(p) /\ ~S!Late(acked + 1, p.n)  BY <1>3, <1>4 DEF Sound
<1> QED  BY <1>1, <1>2, <1>4, <1>5, WayStep DEF SessionType, WayInv

\* A reply is routed to the session.
LEMMA TransMsgInv ==
  ASSUME SessionInv, NEW p \in net, S!TransMsg(p)
  PROVE  SessionInv'
<1>1. SessionType /\ QueueInv /\ PeerInv /\ WayInv /\ ReaderInv  BY DEF SessionInv
<1>2. /\ p.kind = "reply" /\ net' = net \ {p} /\ p \in Packets /\ Sound(p)
      /\ recvChan' = recvChan \/ recvChan' = Append(recvChan, p)
      /\ UNCHANGED <<myRequestId, sendQueue, added, reader, peerRequestId, todo, acked, handled>>
  BY <1>1 DEF S!TransMsg, S!sending, SessionType, WayInv
<1>3. /\ recvChan' \in Seq(Packets)
      /\ \A k \in 1 .. Len(recvChan') : recvChan'[k].kind = "reply" /\ Sound(recvChan'[k])
  <2>1. CASE recvChan' = recvChan  BY <1>1, <2>1 DEF SessionType, WayInv
  <2>2. CASE recvChan' = Append(recvChan, p)
    <3>1. /\ recvChan' \in Seq(Packets) /\ Len(recvChan) \in Nat
          /\ Len(recvChan') = Len(recvChan) + 1
          /\ \A k \in 1 .. Len(recvChan) : recvChan'[k] = recvChan[k]
          /\ recvChan'[Len(recvChan) + 1] = p
      BY <1>1, <1>2, <2>2, AppendProperties DEF SessionType
    <3>2. ASSUME NEW k \in 1 .. Len(recvChan')
          PROVE  \/ recvChan'[k] = p
                 \/ k \in 1 .. Len(recvChan) /\ recvChan'[k] = recvChan[k]
      BY <3>1
    <3> QED  BY <1>1, <1>2, <3>1, <3>2 DEF WayInv
  <2> QED  BY <1>2, <2>1, <2>2
<1> QED  BY <1>1, <1>2, <1>3, WayStep DEF SessionType, WayInv

\* What else changes nothing of the requests: steps that wait for the mutex, the end of
\* the agent, Destory, and the other parts.
LEMMA SessionStutter ==
  ASSUME SessionInv, UNCHANGED <<myRequestId, sendQueue, added, reader, recvChan,
                                 peerRequestId, todo, net, acked, handled>>
  PROVE  SessionInv'
BY WayStep DEF SessionInv, SessionType, WayInv

\* CheckRequestId: of the requests that can be on their way only the last one
\* handled and the next one are accepted, because Lag is less than Wrap.
LEMMA AcceptedIs ==
  ASSUME SessionInv, NEW p \in net, p.kind = "request", S!CheckRequestId(p.id)
  PROVE  \/ handled # <<>> /\ p.n = Len(handled)
         \/ p.n = Len(handled) + 1
<1>1. SessionType /\ QueueInv /\ PeerInv /\ WayInv /\ ReaderInv  BY DEF SessionInv
<1>2. /\ p.n \in Nat /\ p.n >= 1 /\ p.id = S!Id(p.n) /\ p.n <= acked + 1 /\ ~S!Late(acked + 1, p.n)
      /\ acked \in Nat /\ Len(handled) \in Nat /\ acked <= Len(handled) /\ Len(handled) <= acked + 1
  BY <1>1 DEF SessionType, WayInv, PeerInv, Sound, Packets
<1>3. Wrap \in Nat /\ Lag \in Nat /\ Lag < Wrap /\ acked + 1 < p.n + Lag
  BY <1>2, NetAssumption DEF S!Late
<1>4. CASE handled = <<>>
  <2>1. Len(handled) = 0  BY <1>4
  <2> QED  BY <1>2, <2>1
<1>5. CASE handled # <<>>
  <2>1. peerRequestId = S!Id(Len(handled))  BY <1>1, <1>5 DEF PeerInv
  <2>2. CASE p.id = peerRequestId
    <3>1. p.n - Len(handled) < Wrap /\ Len(handled) - p.n < Wrap  BY <1>2, <1>3
    <3>2. p.n = Len(handled)  BY <1>2, <2>1, <2>2, <3>1, IdNear
    <3> QED  BY <1>5, <3>2
  <2>3. CASE p.id = (peerRequestId + 1) % Wrap
    <3>1. PICK m \in Nat : m = Len(handled) + 1  BY <1>2
    <3>2. S!Id(p.n) = S!Id(m)  BY <1>2, <2>1, <2>3, <3>1, IdNext
    <3>3. p.n - m < Wrap /\ m - p.n < Wrap  BY <1>2, <1>3, <3>1
    <3>4. p.n = m  BY <1>2, <3>2, <3>3, IdNear
    <3> QED  BY <3>1, <3>4
  <2> QED  BY <2>2, <2>3 DEF S!CheckRequestId
<1> QED  BY <1>4, <1>5

\* The peer reads a request.
LEMMA ReadRequestInv ==
  ASSUME SessionInv, NEW p \in net, S!ReadRequest(p)
  PROVE  SessionInv'
<1>1. SessionType /\ QueueInv /\ PeerInv /\ WayInv /\ ReaderInv  BY DEF SessionInv
<1>2. /\ p.kind = "request" /\ net' \subseteq net
      /\ UNCHANGED <<myRequestId, sendQueue, added, reader, recvChan, acked>>
  BY DEF S!ReadRequest, S!sending
<1>3. /\ p.n \in Nat /\ p.n >= 1 /\ p.id = S!Id(p.n) /\ p.n <= acked + 1 /\ p.n <= added
      /\ ~S!Late(acked + 1, p.n)
      /\ acked \in Nat /\ Len(handled) \in Nat /\ acked <= Len(handled) /\ Len(handled) <= acked + 1
  BY <1>1, <1>2 DEF SessionType, WayInv, PeerInv, Sound, Packets
<1>4. CASE ~S!CheckRequestId(p.id)
  <2>1. UNCHANGED <<peerRequestId, todo, handled>>  BY <1>4 DEF S!ReadRequest
  <2> QED  BY <1>1, <1>2, <2>1, WayStep DEF SessionType, WayInv
<1>5. CASE S!CheckRequestId(p.id)
  <2>1. /\ peerRequestId' = p.id /\ todo' = todo \cup {p.n}
        /\ handled' = IF handled # <<>> /\ handled[Len(handled)] = p.n THEN handled
                      ELSE Append(handled, p.n)
    BY <1>5 DEF S!ReadRequest
  <2>2. CASE handled # <<>> /\ p.n = Len(handled)
    <3>1. handled[Len(handled)] = p.n  BY <1>1, <1>3, <2>2 DEF PeerInv
    <3>2. handled' = handled /\ peerRequestId' = peerRequestId
      BY <1>1, <1>3, <2>1, <2>2, <3>1 DEF PeerInv
    <3>3. todo' \subseteq Nat  BY <1>1, <1>3, <2>1 DEF SessionType
    <3>4. ASSUME NEW n \in todo'
          PROVE  n >= 1 /\ n <= Len(handled) /\ ~S!Late(acked + 1, n)
      <4>1. CASE n \in todo  BY <1>1, <4>1 DEF WayInv
      <4>2. CASE n = p.n  BY <1>3, <2>2, <4>2
      <4> QED  BY <2>1, <4>1, <4>2
    <3>5. net' \subseteq Packets /\ \A q \in net' : Sound(q) /\ ~S!Late(acked + 1, q.n)
      BY <1>1, <1>2 DEF SessionType, WayInv
    <3>6. /\ recvChan' \in Seq(Packets)
          /\ \A k \in 1 .. Len(recvChan') : recvChan'[k].kind = "reply" /\ Sound(recvChan'[k])
      BY <1>1, <1>2 DEF SessionType, WayInv
    <3> QED  BY <1>2, <3>2, <3>3, <3>4, <3>5, <3>6, WayStep
  <2>3. CASE p.n = Len(handled) + 1
    <3>1. handled # <<>> => handled[Len(handled)] # p.n
      BY <1>1, <1>3, <2>3 DEF PeerInv
    <3>2. handled' = Append(handled, p.n) /\ handled \in Seq(Nat)
      BY <1>1, <2>1, <3>1 DEF SessionType
    <3>3. /\ handled' \in Seq(Nat) /\ handled' # <<>> /\ Len(handled') = Len(handled) + 1
          /\ \A k \in 1 .. Len(handled) : handled'[k] = handled[k]
          /\ handled'[Len(handled) + 1] = p.n
      BY <1>3, <3>2, AppendIs
    <3>4. Len(handled) = acked  BY <1>3, <2>3
    <3>5. SessionType'  BY <1>1, <1>2, <1>3, <2>1, <3>3 DEF SessionType
    <3>6. QueueInv'  BY <1>1, <1>2 DEF QueueInv
    <3>7. PeerInv'
      <4>1. ASSUME NEW k \in 1 .. Len(handled')
            PROVE  handled'[k] = k
        <5>1. CASE k = Len(handled) + 1  BY <2>3, <3>3, <5>1
        <5>2. CASE k # Len(handled) + 1
          <6>1. k \in 1 .. Len(handled)  BY <1>3, <3>3, <5>2
          <6> QED  BY <1>1, <3>3, <6>1 DEF PeerInv
        <5> QED  BY <5>1, <5>2
      <4>2. peerRequestId' = S!Id(Len(handled'))  BY <1>3, <2>1, <2>3, <3>3
      <4>3. acked <= Len(handled') /\ Len(handled') <= acked + 1 /\ Len(handled') <= added
        BY <1>3, <2>3, <3>3, <3>4
      <4> QED  BY <1>2, <3>3, <4>1, <4>2, <4>3 DEF PeerInv
    <3>8. WayInv'
      <4>1. ASSUME NEW q \in Packets, Sound(q) PROVE Sound(q)'
        BY <1>2, <1>3, <3>3, <4>1 DEF Sound, Packets
      <4>2. \A k \in 1 .. Len(recvChan) : recvChan[k] \in Packets
        BY <1>1, ElementOfSeq DEF SessionType
      <4>3. \A n \in todo' : n >= 1 /\ n <= Len(handled') /\ ~S!Late(acked + 1, n)
        <5>1. ASSUME NEW n \in todo PROVE n >= 1 /\ n <= Len(handled') /\ ~S!Late(acked + 1, n)
          <6>1. n \in Nat /\ n >= 1 /\ n <= Len(handled) /\ ~S!Late(acked + 1, n)
            BY <1>1 DEF SessionType, WayInv
          <6> QED  BY <1>3, <3>3, <6>1
        <5>2. p.n <= Len(handled')  BY <1>3, <2>3, <3>3
        <5> QED  BY <1>3, <2>1, <5>1, <5>2
      <4> QED  BY <1>1, <1>2, <4>1, <4>2, <4>3 DEF WayInv, SessionType, S!Late
    <3>9. ReaderInv'
      <4>1. reader = 0  BY <1>1, <1>3, <3>4 DEF ReaderInv
      <4> QED  BY <1>2, <4>1 DEF ReaderInv
    <3> QED  BY <3>5, <3>6, <3>7, <3>8, <3>9 DEF SessionInv
  <2> QED  BY <1>2, <1>5, <2>2, <2>3, AcceptedIs
<1> QED  BY <1>4, <1>5

\* ReadMsg checks a reply: only one to the front of SendQueue passes.
LEMMA ReadReplyInv ==
  ASSUME SessionInv, S!ReadReply
  PROVE  SessionInv'
<1>1. SessionType /\ QueueInv /\ PeerInv /\ WayInv /\ ReaderInv  BY DEF SessionInv
<1> DEFINE p == recvChan[1]
<1>2. /\ reader = 0 /\ recvChan # <<>> /\ recvChan' = Tail(recvChan)
      /\ reader' = IF S!CheckReplyId(p) /\ ~S!Late(acked + 1, p.n) THEN p.n ELSE 0
      /\ UNCHANGED <<myRequestId, sendQueue, added, peerRequestId, todo, net, acked, handled>>
  BY DEF S!ReadReply, S!sending
<1>3. /\ recvChan' \in Seq(Packets) /\ Len(recvChan') = Len(recvChan) - 1
      /\ \A k \in 1 .. Len(recvChan') : recvChan'[k] = recvChan[k + 1]
      /\ Len(recvChan) \in Nat /\ Len(recvChan) >= 1
  BY <1>1, <1>2, HeadTailProperties DEF SessionType
<1>4. p \in Packets /\ p.kind = "reply" /\ Sound(p)
  <2>1. 1 \in 1 .. Len(recvChan)  BY <1>3
  <2> QED  BY <1>1, <2>1, ElementOfSeq DEF SessionType, WayInv
<1> HIDE DEF p
<1>5. p.n \in Nat /\ p.n >= 1 /\ p.n <= Len(handled) /\ p.id = S!Id(p.n)
  BY <1>4 DEF Sound, Packets
<1>6. /\ acked \in Nat /\ Len(handled) \in Nat /\ acked <= Len(handled) /\ Len(handled) <= acked + 1
      /\ acked + Len(sendQueue) = added
  BY <1>1 DEF SessionType, PeerInv, QueueInv
<1>7. reader' # 0 => reader' = acked + 1 /\ Len(handled) = acked + 1
  <2>1. SUFFICES ASSUME S!CheckReplyId(p), ~S!Late(acked + 1, p.n)
                 PROVE  p.n = acked + 1 /\ Len(handled) = acked + 1
    BY <1>2
  <2>2. 1 \in 1 .. Len(sendQueue)
    <3>1. sendQueue # <<>> /\ sendQueue \in Seq(Packets)
      BY <1>1, <2>1 DEF S!CheckReplyId, SessionType
    <3> QED  BY <3>1
  <2>3. PICK m \in Nat : m = acked + 1  BY <1>6
  <2>4. sendQueue[1] = S!Packet("request", m, S!Id(m)) /\ S!Id(m) \in Nat
    BY <1>1, <2>2, <2>3, IdType DEF QueueInv
  <2>5. sendQueue[1].id = S!Id(m)  BY <2>4 DEF S!Packet
  <2>6. S!Id(m) = S!Id(p.n)  BY <1>5, <2>1, <2>5 DEF S!CheckReplyId
  <2>7. m - p.n < Wrap /\ p.n - m < Wrap
    BY <1>5, <1>6, <2>1, <2>3, NetAssumption DEF S!Late
  <2>8. m = p.n  BY <1>5, <2>6, <2>7, IdNear
  <2> QED  BY <1>5, <1>6, <2>3, <2>8
<1>8. SessionType'  BY <1>1, <1>2, <1>3, <1>5 DEF SessionType
<1>9. QueueInv' /\ PeerInv'  BY <1>1, <1>2 DEF QueueInv, PeerInv
<1>10. WayInv'
  <2>1. ASSUME NEW k \in 1 .. Len(recvChan')
        PROVE  recvChan'[k].kind = "reply" /\ Sound(recvChan'[k])
    <3>1. k + 1 \in 1 .. Len(recvChan) /\ recvChan'[k] = recvChan[k + 1]  BY <1>3
    <3> QED  BY <1>1, <3>1 DEF WayInv
  <2> QED  BY <1>1, <1>2, <2>1 DEF WayInv, Sound
<1>11. ReaderInv'  BY <1>2, <1>7 DEF ReaderInv
<1> QED  BY <1>8, <1>9, <1>10, <1>11 DEF SessionInv

\* The request leaves SendQueue, and what is too late by then is not on its way.
LEMMA RequestDelInv ==
  ASSUME SessionInv, S!RequestDel
  PROVE  SessionInv'
<1>1. SessionType /\ QueueInv /\ PeerInv /\ WayInv /\ ReaderInv  BY DEF SessionInv
<1>2. /\ reader # 0 /\ sendQueue' = Tail(sendQueue) /\ acked' = acked + 1 /\ reader' = 0
      /\ net' = {p \in net : ~S!Late(acked + 2, p.n)}
      /\ todo' = {n \in todo : ~S!Late(acked + 2, n)}
      /\ UNCHANGED <<myRequestId, added, recvChan, peerRequestId, handled>>
  BY DEF S!RequestDel, S!OnlyYoung
<1>3. /\ acked \in Nat /\ added \in Nat /\ Len(handled) = acked + 1 /\ Len(handled) <= added
      /\ acked + Len(sendQueue) = added /\ sendQueue \in Seq(Packets)
  BY <1>1, <1>2 DEF SessionType, QueueInv, PeerInv, ReaderInv
<1>4. sendQueue # <<>> /\ Len(sendQueue) \in Nat  BY <1>3
<1>5. /\ sendQueue' \in Seq(Packets) /\ Len(sendQueue') = Len(sendQueue) - 1
      /\ \A k \in 1 .. Len(sendQueue') : sendQueue'[k] = sendQueue[k + 1]
  BY <1>2, <1>3, <1>4, HeadTailProperties
<1>6. SessionType'
  <2>1. acked' \in Nat /\ reader' \in Nat  BY <1>2, <1>3
  <2>2. net' \subseteq Packets /\ todo' \subseteq Nat  BY <1>1, <1>2 DEF SessionType
  <2> QED  BY <1>1, <1>2, <1>5, <2>1, <2>2 DEF SessionType
<1>7. QueueInv'
  <2>1. acked' + Len(sendQueue') = added'  BY <1>2, <1>3, <1>4, <1>5
  <2>2. ASSUME NEW k \in 1 .. Len(sendQueue')
        PROVE  sendQueue'[k] = S!Packet("request", acked' + k, S!Id(acked' + k))
    <3>1. k + 1 \in 1 .. Len(sendQueue) /\ acked + (k + 1) = acked' + k
      BY <1>2, <1>3, <1>4, <1>5
    <3> QED  BY <1>1, <1>5, <3>1 DEF QueueInv
  <2> QED  BY <1>1, <1>2, <2>1, <2>2 DEF QueueInv
<1>8. PeerInv'  BY <1>1, <1>2, <1>3 DEF PeerInv
<1>9. WayInv'
  <2>1. ASSUME NEW p \in Packets, Sound(p) PROVE Sound(p)'
    BY <1>2, <1>3, <2>1 DEF Sound, Packets
  <2>2. \A k \in 1 .. Len(recvChan) : recvChan[k] \in Packets
    BY <1>1, ElementOfSeq DEF SessionType
  <2>3. acked' + 1 = acked + 2  BY <1>2, <1>3
  <2> QED  BY <1>1, <1>2, <2>1, <2>2, <2>3 DEF WayInv, SessionType, S!Late
<1>10. ReaderInv'  BY <1>2 DEF ReaderInv
<1> QED  BY <1>6, <1>7, <1>8, <1>9, <1>10 DEF SessionInv

\* Every step keeps the invariant.
LEMMA SessionNext ==
  ASSUME SessionInv, [Next]_vars
  PROVE  SessionInv'
<1>1. CASE S!Next
  <2>1. ASSUME NEW k \in 1 .. MaxAdd, S!RequestAdd(k)  PROVE SessionInv'
    BY <2>1, RequestAddInv
  <2>2. CASE S!Resender
    <3>1. CASE S!Resend  BY <3>1, ResendInv
    <3>2. CASE S!ResendLock
      BY <3>2, SessionStutter DEF S!ResendLock, S!sending
    <3> QED  BY <2>2, <3>1, <3>2 DEF S!Resender
  <2>3. ASSUME NEW p \in net, S!ReadRequest(p)  PROVE SessionInv'  BY <2>3, ReadRequestInv
  <2>4. ASSUME NEW p \in net, S!TransMsg(p)  PROVE SessionInv'  BY <2>4, TransMsgInv
  <2>5. ASSUME NEW p \in net, S!Lose(p)  PROVE SessionInv'  BY <2>5, LoseInv
  <2>6. ASSUME NEW n \in S!Nums, S!Reply(n)  PROVE SessionInv'  BY <2>6, ReplyInv
  <2>7. CASE S!Reader
    <3>1. CASE S!ReadReply  BY <3>1, ReadReplyInv
    <3>2. CASE S!RequestDel  BY <3>2, RequestDelInv
    <3>3. CASE S!RequestDelLock
      BY <3>3, SessionStutter DEF S!RequestDelLock, S!sending
    <3> QED  BY <2>7, <3>1, <3>2, <3>3 DEF S!Reader
  <2>8. CASE S!AgentOver
    BY <2>8, SessionStutter DEF S!AgentOver, S!sending
  <2>9. CASE S!Destory  BY <2>9, SessionStutter DEF S!Destory
  <2> QED
    BY <1>1, <2>1, <2>2, <2>3, <2>4, <2>5, <2>6, <2>7, <2>8, <2>9 DEF S!Next
<1>2. CASE UNCHANGED sessionVars
  BY <1>2, SessionStutter DEF sessionVars
<1> QED  BY <1>1, <1>2 DEF Next, vars

\* The peer's agent gets the requests in the order of RequestAdd, without a gap and
\* without a stale one, and a request leaves SendQueue only when the agent got it:
\* for every number of requests and every width of Request_id, if nothing is as
\* late as it takes the numbers to come round.
THEOREM RequestsArriveInOrder == Spec => []RequestsInOrder
<1>1. Init => SessionInv  BY SessionInit DEF Init
<1>2. SessionInv /\ [Next]_vars => SessionInv'  BY SessionNext
<1>3. SessionInv => RequestsInOrder
  BY DEF SessionInv, PeerInv, QueueInv, RequestsInOrder, S!RequestsInOrder
<1> QED  BY <1>1, <1>2, <1>3, PTL DEF Spec

===============================================================================
