-------------------------- MODULE TimerWheel_proofs --------------------------
(***************************************************************************)
(* The wheel keeps its types and the agreement of node->core with the      *)
(* lists, for any number of nodes and any sizes of the vectors.            *)
(***************************************************************************)
EXTENDS TimerWheel, TLAPS

------------------------------------------------------------------------------
(* Quotients and remainders by numbers whose value is not known. *)

\* The quotient and the remainder of a number.
LEMMA DivMod ==
  ASSUME NEW d \in Nat, d > 0, NEW x \in Int
  PROVE  x % d \in 0 .. d - 1 /\ x \div d \in Int /\ x = d * (x \div d) + (x % d)
OBVIOUS

\* Only zero is a multiple of a number and smaller than it.
LEMMA SmallMultiple ==
  ASSUME NEW d \in Nat, d > 0, NEW k \in Int, d * k < d, d * k > -d
  PROVE  k = 0
OBVIOUS

\* There is one remainder.
LEMMA Remainder ==
  ASSUME NEW d \in Nat, d > 0, NEW q \in Int, NEW r \in 0 .. d - 1, NEW x \in Int, x = d * q + r
  PROVE  x % d = r
OBVIOUS

\* Numbers less than d apart with the same remainder by d are the same.
LEMMA NearSame ==
  ASSUME NEW d \in Nat, d > 0, NEW x \in Int, NEW y \in Int,
         x % d = y % d, x - y < d, y - x < d
  PROVE  x = y
<1>1. /\ x = d * (x \div d) + (x % d) /\ y = d * (y \div d) + (y % d)
      /\ x \div d \in Int /\ y \div d \in Int
  BY DivMod
<1>2. x - y = d * (x \div d - y \div d)  BY <1>1
<1>3. x \div d - y \div d = 0  BY <1>1, <1>2, SmallMultiple
<1> QED  BY <1>2, <1>3

\* A sum modulo d, one of its terms reduced first.
LEMMA WrapAdd ==
  ASSUME NEW d \in Nat, d > 0, NEW x \in Int, NEW k \in Int
  PROVE  ((x % d) + k) % d = (x + k) % d
<1>1. x = d * (x \div d) + (x % d) /\ x \div d \in Int /\ x % d \in Int  BY DivMod
<1>2. PICK y \in Int : y = (x % d) + k  BY <1>1
<1>3. y = d * (y \div d) + (y % d) /\ y \div d \in Int /\ y % d \in 0 .. d - 1  BY DivMod
<1>4. d * (y \div d + x \div d) = d * (y \div d) + d * (x \div d)  BY <1>1, <1>3
<1>5. x + k = d * (y \div d + x \div d) + (y % d)  BY <1>1, <1>2, <1>3, <1>4
<1>6. PICK q \in Int : q = y \div d + x \div d  BY <1>1, <1>3
<1>7. PICK z \in Int : z = x + k  OBVIOUS
<1>8. z = d * q + (y % d)  BY <1>5, <1>6, <1>7
<1>9. z % d = y % d  BY <1>3, <1>8, Remainder
<1> QED  BY <1>2, <1>7, <1>9

\* The remainder by a multiple of r has the same remainder by r.
LEMMA ModMultiple ==
  ASSUME NEW r \in Nat, r > 0, NEW q \in Nat, q > 0, NEW x \in Int
  PROVE  (x % (r * q)) % r = x % r
<1>1. PICK d \in Nat : d = r * q  OBVIOUS
<1>2. d > 0  BY <1>1
<1>3. PICK m \in Int : m = x % d  BY <1>2, DivMod
<1>4. PICK k \in Int : x = d * k + m  BY <1>2, <1>3, DivMod
<1>5. PICK j \in Int, s \in 0 .. r - 1 : m = r * j + s /\ s = m % r
  <2>1. m % r \in 0 .. r - 1 /\ m \div r \in Int /\ m = r * (m \div r) + (m % r)  BY DivMod
  <2> QED  BY <2>1
<1>6. d * k = r * (q * k)  BY <1>1
<1>7. PICK i \in Int : i = q * k  OBVIOUS
<1>8. r * (i + j) = r * i + r * j  OBVIOUS
<1>9. x = r * (i + j) + s  BY <1>4, <1>5, <1>6, <1>7, <1>8
<1>10. i + j \in Int  OBVIOUS
<1>11. x % r = s  BY <1>9, <1>10, Remainder
<1> QED  BY <1>1, <1>3, <1>5, <1>11

\* The distance from x to y, going up and around at w.
LEMMA AroundIs ==
  ASSUME NEW w \in Nat, w > 0, NEW x \in 0 .. w - 1, NEW y \in 0 .. w - 1
  PROVE  (y - x) % w = IF y >= x THEN y - x ELSE y - x + w
<1>1. CASE y >= x
  <2>1. y - x \in 0 .. w - 1  BY <1>1
  <2>2. y - x = w * 0 + (y - x)  OBVIOUS
  <2> QED  BY <1>1, <2>1, <2>2, Remainder
<1>2. CASE ~(y >= x)
  <2>1. y - x + w \in 0 .. w - 1  BY <1>2
  <2>2. y - x = w * (-1) + (y - x + w)  OBVIOUS
  <2> QED  BY <1>2, <2>1, <2>2, Remainder
<1> QED  BY <1>1, <1>2

\* A number below w, and one step further.
LEMMA NextIs ==
  ASSUME NEW w \in Nat, w > 0, NEW x \in 0 .. w - 1
  PROVE  /\ x % w = x
         /\ (x + 1) % w = IF x + 1 = w THEN 0 ELSE x + 1
<1>1. x = w * 0 + x  OBVIOUS
<1>2. x % w = x  BY <1>1, Remainder
<1>3. CASE x + 1 = w
  <2>1. x + 1 = w * 1 + 0 /\ 0 \in 0 .. w - 1  BY <1>3
  <2> QED  BY <1>2, <1>3, <2>1, Remainder
<1>4. CASE x + 1 # w
  <2>1. x + 1 \in 0 .. w - 1 /\ x + 1 = w * 0 + (x + 1)  BY <1>4
  <2> QED  BY <1>2, <1>4, <2>1, Remainder
<1> QED  BY <1>3, <1>4

\* Going the distance to y reaches y.
LEMMA AroundReaches ==
  ASSUME NEW w \in Nat, w > 0, NEW x \in 0 .. w - 1, NEW y \in 0 .. w - 1
  PROVE  (x + ((y - x) % w)) % w = y
<1>1. CASE y >= x  BY <1>1, AroundIs, NextIs
<1>2. CASE ~(y >= x)
  <2>1. x + ((y - x) % w) = w * 1 + y  BY <1>2, AroundIs
  <2> QED  BY <2>1, Remainder
<1> QED  BY <1>1, <1>2

\* Of the distances below w only zero leads back to x.
LEMMA AroundBack ==
  ASSUME NEW w \in Nat, w > 0, NEW x \in 0 .. w - 1, NEW k \in 0 .. w - 1, (x + k) % w = x
  PROVE  k = 0
<1>1. PICK z \in Int : z = x + k  OBVIOUS
<1>2. z % w = x % w  BY <1>1, NextIs
<1>3. z - x < w /\ x - z < w  BY <1>1
<1>4. z = x  BY <1>2, <1>3, NearSame
<1> QED  BY <1>1, <1>4

\* One step forward shortens a distance that is not zero by one.
LEMMA OneNearer ==
  ASSUME NEW w \in Nat, w > 0, NEW x \in Int, NEW y \in Int, (y - x) % w # 0
  PROVE  (y - (x + 1)) % w = ((y - x) % w) - 1
<1>1. PICK z \in Int : z = y - x  OBVIOUS
<1>2. PICK r \in 0 .. w - 1 : r = z % w  BY DivMod
<1>3. PICK q \in Int : z = w * q + r  BY <1>2, DivMod
<1>4. r - 1 \in 0 .. w - 1  BY <1>1, <1>2
<1>5. z - 1 = w * q + (r - 1)  BY <1>3
<1>6. (z - 1) % w = r - 1  BY <1>4, <1>5, Remainder
<1>7. y - (x + 1) = z - 1  BY <1>1
<1> QED  BY <1>1, <1>2, <1>6, <1>7

\* A difference modulo d, what is subtracted reduced first.
LEMMA WrapSub ==
  ASSUME NEW d \in Nat, d > 0, NEW x \in Int, NEW k \in Int
  PROVE  (k - (x % d)) % d = (k - x) % d
<1>1. PICK q \in Int, r \in 0 .. d - 1 : x = d * q + r /\ r = x % d  BY DivMod
<1>2. PICK y \in Int : y = k - r  OBVIOUS
<1>3. PICK p \in Int, s \in 0 .. d - 1 : y = d * p + s /\ s = y % d  BY DivMod
<1>4. PICK dp \in Int, dq \in Int : dp = d * p /\ dq = d * q  OBVIOUS
<1>5. PICK z \in Int : z = k - x  OBVIOUS
<1>6. z = dp - dq + s
  <2>1. x = dq + r  BY <1>1, <1>4
  <2>2. y = dp + s  BY <1>3, <1>4
  <2> QED  BY <1>2, <1>5, <2>1, <2>2
<1>7. PICK c \in Int : c = p - q  OBVIOUS
<1>8. d * c = d * p - d * q  BY <1>7
<1>9. z = d * c + s  BY <1>4, <1>6, <1>8
<1>10. z % d = s  BY <1>9, Remainder
<1> QED  BY <1>1, <1>2, <1>3, <1>5, <1>10

\* A difference modulo d, its first term reduced first.
LEMMA WrapFrom ==
  ASSUME NEW d \in Nat, d > 0, NEW x \in Int, NEW k \in Int
  PROVE  ((x % d) - k) % d = (x - k) % d
<1>1. PICK m \in Int : m = -k  OBVIOUS
<1>2. ((x % d) + m) % d = (x + m) % d  BY WrapAdd
<1>3. (x % d) + m = (x % d) - k /\ x + m = x - k  BY <1>1, DivMod
<1> QED  BY <1>2, <1>3

\* The same for a multiple of r, taken modulo r.
LEMMA WrapSubMultiple ==
  ASSUME NEW r \in Nat, r > 0, NEW q \in Nat, q > 0, NEW d \in Nat, d = r * q,
         NEW x \in Int, NEW k \in Int
  PROVE  (k - (x % d)) % r = (k - x) % r
<1>1. d > 0  OBVIOUS
<1>2. PICK z \in Int : z = x % d  BY <1>1, DivMod
<1>3. (k - (z % r)) % r = (k - z) % r  BY WrapSub
<1>4. (k - (x % r)) % r = (k - x) % r  BY WrapSub
<1>5. z % r = x % r  BY <1>1, <1>2, ModMultiple
<1> QED  BY <1>1, <1>2, <1>3, <1>4, <1>5

\* The same, to be cited where the numbers are not constants.
LEMMA WrapSubMultiples ==
  \A r, q, d \in Nat : r > 0 /\ q > 0 /\ d = r * q =>
    \A x, k \in Int : (k - (x % d)) % r = (k - x) % r
BY WrapSubMultiple

\* Where a block of g numbers, one of which is e, begins.
LEMMA BlockBegins ==
  ASSUME NEW w \in Nat, w > 0, NEW g \in Nat, g > 0,
         NEW j \in 0 .. w - 1, NEW e \in 0 .. w - 1, (e - j) % w = e % g
  PROVE  j % g = 0 /\ j \div g = e \div g
<1>1. PICK b \in Int, s \in 0 .. g - 1 : e = g * b + s /\ s = e % g /\ b = e \div g  BY DivMod
<1>2. b >= 0
  <2>1. SUFFICES ASSUME b <= -1 PROVE FALSE  OBVIOUS
  <2>2. g * b <= -g  BY <2>1
  <2> QED  BY <1>1, <2>2
<1>3. g * b >= 0  BY <1>2
<1>4. e >= j  BY <1>1, <1>3, AroundIs
<1>5. j = g * b + 0  BY <1>1, <1>4, AroundIs
<1>6. j % g = 0  BY <1>5, Remainder
<1>7. PICK a \in Int : a = j \div g /\ j = g * a + (j % g)  BY DivMod
<1>8. PICK c \in Int : c = a - b  OBVIOUS
<1>9. g * c = g * a - g * b  BY <1>8
<1>10. g * c = 0  BY <1>5, <1>6, <1>7, <1>9
<1>11. c = 0  BY <1>10, SmallMultiple
<1> QED  BY <1>1, <1>6, <1>7, <1>8, <1>11

\* j begins a block of g numbers whose number agrees, modulo n, with that of the
\* block of e, less than n blocks ahead; n blocks make up the numbers below w, or
\* one of q equal parts of them.
AtBlock(g, n, q, w, j, e) ==
  /\ w = (g * n) * q
  /\ j % g = 0 /\ (j \div g) % n = (e \div g) % n
  /\ e % g <= (e - j) % w /\ (e - j) % w < g * n

\* Then e is within the block that begins at j.
LEMMA WithinBlock ==
  ASSUME NEW g \in Nat, g > 0, NEW n \in Nat, n > 0, NEW q \in Nat, q > 0,
         NEW w \in Nat, w > 0,
         NEW j \in 0 .. w - 1, NEW e \in 0 .. w - 1, AtBlock(g, n, q, w, j, e)
  PROVE  (e - j) % w = e % g
<1>0. /\ w = (g * n) * q
      /\ j % g = 0 /\ (j \div g) % n = (e \div g) % n
      /\ e % g <= (e - j) % w /\ (e - j) % w < g * n
  BY DEF AtBlock
<1>1. PICK b \in Int, s \in 0 .. g - 1 : e = g * b + s /\ s = e % g /\ b = e \div g  BY DivMod
<1>2. PICK a \in Int : j = g * a /\ a = j \div g  BY <1>0, DivMod
<1>3. PICK left \in 0 .. w - 1 : left = (e - j) % w  BY DivMod
<1>4. PICK t \in {0, 1} : left = e - j + t * w  BY <1>3, AroundIs
<1>5. PICK m \in Int : m = n * (t * q)  OBVIOUS
<1>6. t * w = g * m  BY <1>0, <1>4, <1>5
<1>7. PICK c \in Int : c = b - a + m  OBVIOUS
<1>8. g * c = g * b - g * a + g * m  BY <1>7
<1>9. left - s = g * c
  <2>1. PICK ga \in Int, gb \in Int, gm \in Int : ga = g * a /\ gb = g * b /\ gm = g * m
    OBVIOUS
  <2>2. e = gb + s /\ j = ga /\ left = e - j + gm  BY <1>1, <1>2, <1>4, <1>6, <2>1
  <2>3. g * c = gb - ga + gm  BY <1>8, <2>1
  <2> QED  BY <2>2, <2>3
<1>10. c % n = 0
  <2>1. PICK u \in Int, r \in 0 .. n - 1 : b = n * u + r /\ r = b % n  BY DivMod
  <2>2. PICK v \in Int : v = a \div n /\ a = n * v + (a % n)  BY DivMod
  <2>6. a % n = r  BY <1>0, <1>1, <1>2, <2>1
  <2>3. PICK x \in Int : x = u - v + t * q  OBVIOUS
  <2>4. n * x = n * u - n * v + n * (t * q)  BY <2>3
  <2>5. c = n * x + 0  BY <1>5, <1>7, <2>1, <2>2, <2>4, <2>6
  <2> QED  BY <2>5, Remainder
<1>11. g * c >= 0 /\ g * c < g * n
  <2>0. s >= 0  OBVIOUS
  <2>1. s <= left
    <3>1. s = e % g /\ left = (e - j) % w  BY <1>1, <1>3
    <3>2. e % g <= (e - j) % w  BY <1>0
    <3> QED  BY <3>1, <3>2, Zenon
  <2>4. left < g * n  BY <1>0, <1>3
  <2>2. PICK gc \in Int, gn \in Int : gc = g * c /\ gn = g * n  OBVIOUS
  <2>3. left - s = gc /\ left < gn  BY <1>9, <2>2, <2>4
  <2> QED  BY <2>0, <2>1, <2>2, <2>3
<1>12. c >= 0
  <2>1. SUFFICES ASSUME c <= -1 PROVE FALSE  OBVIOUS
  <2>2. g * c <= -g  BY <2>1
  <2> QED  BY <1>11, <2>2
<1>13. c < n
  <2>1. SUFFICES ASSUME c >= n PROVE FALSE  OBVIOUS
  <2>2. g * c >= g * n  BY <2>1
  <2> QED  BY <1>11, <2>2
<1>14. c = 0  BY <1>10, <1>12, <1>13, NextIs
<1>15. left - s = 0  BY <1>9, <1>14
<1>16. left = s  BY <1>15
<1> QED  BY <1>1, <1>3, <1>16, Zenon

\* A remainder lies below its divisor.
LEMMA ModRange ==
  ASSUME NEW a \in Int, NEW b \in Nat \ {0}
  PROVE  a % b \in 0 .. b - 1
  OBVIOUS

\* A quotient is an integer.
LEMMA DivInt ==
  ASSUME NEW a \in Int, NEW b \in Nat \ {0}
  PROVE  a \div b \in Int
  OBVIOUS

\* A product of positive numbers is positive.
LEMMA ProductPositive ==
  ASSUME NEW a \in Nat \ {0}, NEW b \in Nat \ {0}
  PROVE  a * b \in Nat \ {0}
  OBVIOUS

\* The vectors have lists.
LEMMA SizesPositive == ITVR_SIZE \in Nat \ {0} /\ ITVN_SIZE \in Nat \ {0}
  BY SizeAssumption

\* The vectors cover a positive number of ticks.
LEMMA GranPositive ==
  /\ Gran2 \in Nat \ {0}
  /\ Gran3 \in Nat \ {0}
  /\ Gran4 \in Nat \ {0}
  /\ Gran5 \in Nat \ {0}
  /\ Wrap \in Nat \ {0}
<1>1. ITVR_SIZE \in Nat \ {0} /\ ITVN_SIZE \in Nat \ {0}  BY SizesPositive
<1>2. Gran2 \in Nat \ {0}  BY <1>1 DEF Gran2
<1>3. Gran3 \in Nat \ {0}  BY <1>1, <1>2, ProductPositive DEF Gran3
<1>4. Gran4 \in Nat \ {0}  BY <1>1, <1>3, ProductPositive DEF Gran4
<1>5. Gran5 \in Nat \ {0}  BY <1>1, <1>4, ProductPositive DEF Gran5
<1>6. Wrap \in Nat \ {0}   BY <1>1, <1>5, ProductPositive DEF Wrap
<1> QED  BY <1>2, <1>3, <1>4, <1>5, <1>6

\* Arithmetic on ticks stays in the 32 bits of an IUINT32.
LEMMA U32Type ==
  ASSUME NEW x \in Int
  PROVE  U32(x) \in Ticks
  BY GranPositive, ModRange DEF U32, Ticks

\* Ticks are integers.
LEMMA TicksInt == Ticks \subseteq Int
  BY GranPositive DEF Ticks

------------------------------------------------------------------------------
Places == Wheel \cup {Nowhere, Queued}

\* The three kinds of places are distinct.
LEMMA PlacesDistinct ==
  /\ Nowhere \notin Wheel
  /\ Queued \notin Wheel
  /\ Nowhere # Queued
  BY DEF Nowhere, Queued, Wheel

\* The lists a tick selects in tv1 and in the upper vectors.
LEMMA LowerList ==
  ASSUME NEW x \in Int
  PROVE  <<1, x % ITVR_SIZE>> \in Wheel
<1>1. x % ITVR_SIZE \in 0 .. ITVR_SIZE - 1  BY SizesPositive, ModRange
<1> QED  BY <1>1 DEF Wheel

\* A list of tv2 .. tv5 that a tick selects.
LEMMA UpperList ==
  ASSUME NEW x \in Int, NEW gran \in Nat \ {0}, NEW k \in 2 .. 5
  PROVE  <<k, (x \div gran) % ITVN_SIZE>> \in Wheel
<1>1. x \div gran \in Int  BY DivInt
<1>2. (x \div gran) % ITVN_SIZE \in 0 .. ITVN_SIZE - 1
  BY <1>1, SizesPositive, ModRange
<1> QED  BY <1>2 DEF Wheel

\* itimer_internal_add links every node to a list of some vector.
LEMMA ListOfType ==
  ASSUME timer_jiffies \in Ticks, NEW e \in Ticks
  PROVE  ListOf(e) \in Wheel
<1>1. e \in Int /\ timer_jiffies \in Int  BY TicksInt
<1>2. <<1, e % ITVR_SIZE>> \in Wheel  BY <1>1, LowerList
<1>3. <<1, timer_jiffies % ITVR_SIZE>> \in Wheel  BY <1>1, LowerList
<1>4. 2 \in 2 .. 5 /\ 3 \in 2 .. 5 /\ 4 \in 2 .. 5 /\ 5 \in 2 .. 5  OBVIOUS
<1>5. <<2, (e \div Gran2) % ITVN_SIZE>> \in Wheel
  BY <1>1, <1>4, GranPositive, UpperList, Zenon
<1>6. <<3, (e \div Gran3) % ITVN_SIZE>> \in Wheel
  BY <1>1, <1>4, GranPositive, UpperList, Zenon
<1>7. <<4, (e \div Gran4) % ITVN_SIZE>> \in Wheel
  BY <1>1, <1>4, GranPositive, UpperList, Zenon
<1>8. <<5, (e \div Gran5) % ITVN_SIZE>> \in Wheel
  BY <1>1, <1>4, GranPositive, UpperList, Zenon
<1> QED  BY <1>2, <1>3, <1>5, <1>6, <1>7, <1>8, Zenon DEF ListOf

\* A cascade moves nodes between lists: it links and unlinks none.
SameLinks(p, q) ==
  /\ q \in [Nodes -> Places]
  /\ \A n \in Nodes : q[n] = Nowhere <=> p[n] = Nowhere
  /\ \A n \in Nodes : q[n] = Queued <=> p[n] = Queued

\* One cascade moves nodes between lists of the wheel only.
LEMMA CascadeAtLinks ==
  ASSUME TypeOK, NEW place \in [Nodes -> Places],
         NEW k \in 2 .. 5, NEW gran \in Nat \ {0}
  PROVE  SameLinks(place, CascadeAt(place, k, gran))
<1> DEFINE list == <<k, (timer_jiffies \div gran) % ITVN_SIZE>>
<1>1. list \in Wheel
  BY UpperList, TicksInt, Zenon DEF TypeOK
<1>2. \A n \in Nodes : ListOf(expires[n]) \in Wheel
  BY ListOfType DEF TypeOK
<1> HIDE DEF list
<1>3. SameLinks(place, Cascade(place, list))
  BY <1>1, <1>2, PlacesDistinct DEF SameLinks, Cascade, Places
<1>4. SameLinks(place, place)  BY DEF SameLinks
<1> QED  BY <1>3, <1>4 DEF CascadeAt, list

\* So do all cascades of a tick: none unlinks, fires or drops a node.
LEMMA CascadeAllLinks ==
  ASSUME TypeOK
  PROVE  SameLinks(at, CascadeAll)
<1> DEFINE p2 == CascadeAt(at, 2, Gran2)
           p3 == CascadeAt(p2, 3, Gran3)
           p4 == CascadeAt(p3, 4, Gran4)
           p5 == CascadeAt(p4, 5, Gran5)
<1>0. at \in [Nodes -> Places]  BY DEF TypeOK, Places
<1>1. SameLinks(at, p2)  BY <1>0, CascadeAtLinks, GranPositive
<1> HIDE DEF p2
<1>2. SameLinks(p2, p3)  BY <1>1, CascadeAtLinks, GranPositive DEF SameLinks
<1> HIDE DEF p3
<1>3. SameLinks(p3, p4)  BY <1>2, CascadeAtLinks, GranPositive DEF SameLinks
<1> HIDE DEF p4
<1>4. SameLinks(p4, p5)  BY <1>3, CascadeAtLinks, GranPositive DEF SameLinks
<1>5. CascadeAll = p5  BY DEF CascadeAll, p2, p3, p4
<1> HIDE DEF p5
<1> QED  BY <1>1, <1>2, <1>3, <1>4, <1>5 DEF SameLinks

------------------------------------------------------------------------------
\* Neither property is inductive alone.  itimer_core_destroy clears the lists
\* of the wheel only, so no node may be on the local list when no run is in
\* progress, and a core that is not live must not be running.
IInv ==
  /\ TypeOK
  /\ CoreWhileLinked
  /\ target = NoRun => \A n \in Nodes : at[n] # Queued
  /\ ~live => target = NoRun

\* Init establishes the invariant.
LEMMA InitIInv == Init => IInv
<1> SUFFICES ASSUME Init  PROVE IInv
  OBVIOUS
<1>1. 0 \in Ticks  BY GranPositive DEF Ticks
<1>2. TypeOK  BY <1>1, SizeAssumption DEF Init, TypeOK
<1>3. CoreWhileLinked  BY DEF Init, CoreWhileLinked
<1> QED  BY <1>2, <1>3, PlacesDistinct DEF Init, IInv

\* Every step preserves the invariant.
LEMMA NextIInv == IInv /\ [Next]_vars => IInv'
<1> SUFFICES ASSUME IInv, [Next]_vars  PROVE IInv'
  OBVIOUS
<1> USE PlacesDistinct
<1>z. 0 \in Ticks  BY GranPositive DEF Ticks
<1>1. ASSUME NEW n \in Nodes, NodeInit(n)  PROVE IInv'
  BY <1>1, <1>z DEF IInv, TypeOK, CoreWhileLinked, NodeInit
<1>2. ASSUME NEW n \in Nodes, NodeDestroy(n)  PROVE IInv'
  BY <1>2, <1>z DEF IInv, TypeOK, CoreWhileLinked, NodeDestroy
<1>3. ASSUME NEW n \in Nodes, NodeDel(n)  PROVE IInv'
  BY <1>3 DEF IInv, TypeOK, CoreWhileLinked, NodeDel
<1>4. ASSUME NEW n \in Nodes, NEW d \in Deltas,
             NodeAdd(n, U32(timer_jiffies + d))
      PROVE  IInv'
  <2> DEFINE e == U32(timer_jiffies + d)
  <2>1. timer_jiffies + d \in Int  BY SizeAssumption, TicksInt DEF IInv, TypeOK
  <2>2. e \in Ticks  BY <2>1, U32Type
  <2> HIDE DEF e
  <2>3. ListOf(e) \in Wheel  BY <2>2, ListOfType DEF IInv, TypeOK
  <2>4. NodeAdd(n, e)  BY <1>4 DEF e
  <2> QED  BY <2>2, <2>3, <2>4 DEF IInv, TypeOK, CoreWhileLinked, NodeAdd
<1>5. CASE CoreDestroy
  BY <1>5 DEF IInv, TypeOK, CoreWhileLinked, CoreDestroy
<1>6. ASSUME NEW j \in Starts, CoreInit(j)  PROVE IInv'
  BY <1>6, SizeAssumption DEF IInv, TypeOK, CoreWhileLinked, CoreInit
<1>7. ASSUME NEW d \in RunAheads, CoreRun(U32(timer_jiffies + d))  PROVE IInv'
  <2>1. timer_jiffies + d \in Int  BY SizeAssumption, TicksInt DEF IInv, TypeOK
  <2>2. U32(timer_jiffies + d) \in Ticks  BY <2>1, U32Type
  <2>3. NoRun \notin Ticks  BY GranPositive DEF NoRun, Ticks
  <2> QED  BY <1>7, <2>2, <2>3 DEF IInv, TypeOK, CoreWhileLinked, CoreRun
<1>8. CASE Tick
  <2> DEFINE place == CascadeAll
             list == <<1, timer_jiffies % ITVR_SIZE>>
  <2>1. SameLinks(at, place)  BY CascadeAllLinks DEF IInv
  <2>2. list \in Wheel  BY LowerList, TicksInt DEF IInv, TypeOK
  <2>3. at' = [n \in Nodes |-> IF place[n] = list THEN Queued ELSE place[n]]
    BY <1>8 DEF Tick
  <2>4. U32(timer_jiffies + 1) \in Ticks
    <3>1. timer_jiffies + 1 \in Int  BY TicksInt DEF IInv, TypeOK
    <3> QED  BY <3>1, U32Type
  <2> HIDE DEF place, list
  <2>5. /\ at' \in [Nodes -> Places]
        /\ \A n \in Nodes : at'[n] = Nowhere <=> at[n] = Nowhere
    BY <2>1, <2>2, <2>3 DEF SameLinks, Places
  <2>6. target # NoRun  BY <1>8 DEF Tick, BetweenTicks
  <2> QED
    BY <1>8, <2>4, <2>5, <2>6
    DEF IInv, TypeOK, CoreWhileLinked, Tick, Places
<1>9. ASSUME NEW n \in Nodes, Fire(n)  PROVE IInv'
  BY <1>9 DEF IInv, TypeOK, CoreWhileLinked, Fire
<1>10. CASE Return
  BY <1>10 DEF IInv, TypeOK, CoreWhileLinked, Return
<1>11. CASE RunDone
  BY <1>11 DEF IInv, TypeOK, CoreWhileLinked, RunDone, BetweenTicks
<1>12. CASE UNCHANGED vars
  BY <1>12 DEF IInv, TypeOK, CoreWhileLinked, vars
<1> QED
  BY <1>1, <1>2, <1>3, <1>4, <1>5, <1>6, <1>7, <1>8, <1>9, <1>10, <1>11,
     <1>12
  DEF Next, Running

\* Every value stays in its type: the ticks in 32 bits, a node on a list of
\* a vector, on the local list or on none.
THEOREM TypeCorrect == Spec => []TypeOK
<1>1. IInv => TypeOK  BY DEF IInv
<1> QED  BY InitIInv, NextIInv, <1>1, PTL DEF Spec

\* node->core agrees with the lists in every reachable state, so the
\* assertions of itimer_node_del and itimer_internal_cascade never fail.
THEOREM CoreAgrees == Spec => []CoreWhileLinked
<1>1. IInv => CoreWhileLinked  BY DEF IInv
<1> QED  BY InitIInv, NextIInv, <1>1, PTL DEF Spec
------------------------------------------------------------------------------
(***************************************************************************)
(* The wheel implements the timer: every node fires at its own tick, for   *)
(* any number of nodes and any sizes of the vectors.                       *)
(***************************************************************************)

\* Products regrouped.
LEMMA Regroup ==
  ASSUME NEW a \in Nat, NEW b \in Nat
  PROVE  ((a * b) * b) * b = (a * b) * (b * b)
<1>1. PICK c \in Nat : c = a * b  OBVIOUS
<1>2. (c * b) * b = c * (b * b)  OBVIOUS
<1> QED  BY <1>1, <1>2

\* A product is at least its factors.
LEMMA Larger ==
  ASSUME NEW g \in Nat \ {0}, NEW n \in Nat, n >= 2, NEW q \in Nat \ {0}, NEW w \in Nat,
         w = (g * n) * q
  PROVE  g * n <= w /\ 2 * g <= w
<1>1. PICK a \in Nat : a = g * n  OBVIOUS
<1>2. a * q >= a  OBVIOUS
<1>3. g * n >= g * 2  OBVIOUS
<1> QED  BY <1>1, <1>2, <1>3

\* A list of vector k covers Gran(k) ticks, the vector ITVN_SIZE times as many;
\* the lists divide the span of the vector and the span divides the counter's.
LEMMA Spans ==
  /\ Gran(2) = Gran2 /\ Gran(3) = Gran3 /\ Gran(4) = Gran4 /\ Gran(5) = Gran5
  /\ \A k \in 2 .. 5 : /\ Gran(k) \in Nat \ {0}
                       /\ Gran(k) * ITVN_SIZE <= Wrap
                       /\ 2 * Gran(k) <= Wrap
                       /\ \E q \in Nat \ {0} : Wrap = (Gran(k) * ITVN_SIZE) * q
  /\ \E q \in Nat \ {0} : Wrap = ITVR_SIZE * q
<1> DEFINE N == ITVN_SIZE
<1>1. /\ Gran(2) = Gran2 /\ Gran(3) = Gran3 /\ Gran(4) = Gran4 /\ Gran(5) = Gran5
  BY DEF Gran
<1>2. N \in Nat \ {0} /\ N >= 2 /\ ITVR_SIZE \in Nat \ {0}  BY SizeAssumption, SizesPositive
<1>3. /\ Gran3 = Gran2 * N /\ Gran4 = Gran3 * N /\ Gran5 = Gran4 * N /\ Wrap = Gran5 * N
      /\ Gran2 = ITVR_SIZE
  BY DEF Gran2, Gran3, Gran4, Gran5, Wrap
<1> HIDE DEF N
<1>4. PICK n2 \in Nat \ {0}, n3 \in Nat \ {0}, n4 \in Nat \ {0} :
           n2 = N * N /\ n3 = n2 * N /\ n4 = n3 * N
  <2>1. N * N \in Nat \ {0}  BY <1>2, ProductPositive
  <2>2. (N * N) * N \in Nat \ {0}  BY <1>2, <2>1, ProductPositive
  <2>3. ((N * N) * N) * N \in Nat \ {0}  BY <1>2, <2>2, ProductPositive
  <2> QED  BY <2>1, <2>2, <2>3
<1>5. Wrap = (Gran5 * N) * 1  BY <1>2, <1>3, GranPositive
<1>6. Wrap = (Gran4 * N) * N  BY <1>3
<1>7. Wrap = (Gran3 * N) * n2
  <2>1. ((Gran3 * N) * N) * N = (Gran3 * N) * (N * N)  BY <1>2, GranPositive, Regroup
  <2> QED  BY <1>3, <1>4, <2>1
<1>8. Wrap = (Gran2 * N) * n3
  <2>1. PICK a \in Nat : a = Gran2 * N  BY <1>2, GranPositive
  <2>2. (a * N) * (N * N) = a * (N * (N * N))  BY <1>2, <2>1
  <2>3. N * (N * N) = (N * N) * N  BY <1>2
  <2> QED  BY <1>3, <1>4, <1>7, <2>1, <2>2, <2>3
<1>9. Wrap = ITVR_SIZE * n4
  <2>1. (Gran2 * N) * n3 = Gran2 * (N * n3)  BY <1>2, GranPositive
  <2>2. N * n3 = n3 * N  BY <1>2
  <2> QED  BY <1>3, <1>4, <1>8, <2>1, <2>2
<1>10. ASSUME NEW g \in Nat \ {0}, NEW q \in Nat \ {0}, Wrap = (g * N) * q
       PROVE  g * N <= Wrap /\ 2 * g <= Wrap
  BY <1>2, <1>10, Larger, GranPositive
<1>11. ASSUME NEW k \in 2 .. 5
       PROVE  /\ Gran(k) \in Nat \ {0} /\ Gran(k) * N <= Wrap /\ 2 * Gran(k) <= Wrap
              /\ \E q \in Nat \ {0} : Wrap = (Gran(k) * N) * q
  <2>1. \E q \in Nat \ {0} : Wrap = (Gran(k) * N) * q
    <3>1. k = 2 \/ k = 3 \/ k = 4 \/ k = 5  OBVIOUS
    <3> QED  BY <1>1, <1>2, <1>4, <1>5, <1>6, <1>7, <1>8, <3>1
  <2>2. Gran(k) \in Nat \ {0}
    <3>1. k = 2 \/ k = 3 \/ k = 4 \/ k = 5  OBVIOUS
    <3> QED  BY <1>1, <3>1, GranPositive
  <2> QED  BY <1>10, <2>1, <2>2
<1> QED  BY <1>1, <1>4, <1>9, <1>11 DEF N

\* BlockAhead of a node that expires at e and is linked on p when the next tick
\* is j, and the tick at which it fires.
LeftAt(e, j) == U32(e - j)
AheadAt(p, e, j) ==
  p[1] \in 2 .. 5 =>
    /\ p[2] = (e \div Gran(p[1])) % ITVN_SIZE
    /\ e % Gran(p[1]) <= LeftAt(e, j)
    /\ LeftAt(e, j) < Gran(p[1]) * ITVN_SIZE
DueAt(p, e, j) ==
  IF p[1] = 1 THEN U32(j + ((p[2] - j) % ITVR_SIZE))
  ELSE IF p[1] \in 2 .. 5 THEN e ELSE NoRun

\* The block of a list of vector k is still to be entered.
StrictAt(p, e, j) == e % Gran(p[1]) < LeftAt(e, j)

\* BlockAhead and DueOf, node by node.
LEMMA NodeByNode ==
  /\ BlockAhead <=> \A n \in Nodes : AheadAt(at[n], expires[n], timer_jiffies)
  /\ \A n \in Nodes : DueOf(n) = DueAt(at[n], expires[n], timer_jiffies)
<1>1. BlockAhead <=> \A n \in Nodes : AheadAt(at[n], expires[n], timer_jiffies)
  BY DEF BlockAhead, AheadAt, LeftAt
<1>2. ASSUME NEW n \in Nodes PROVE DueOf(n) = DueAt(at[n], expires[n], timer_jiffies)
  BY DEF DueOf, DueAt
<1> QED  BY <1>1, <1>2

\* The places, told apart by the vector.
LEMMA PlaceKinds ==
  /\ \A p \in Wheel : p[1] = 1 \/ p[1] \in 2 .. 5
  /\ \A p \in Wheel : p[1] = 1 => p = <<1, p[2]>> /\ p[2] \in 0 .. ITVR_SIZE - 1
  /\ \A p \in Wheel : p[1] \in 2 .. 5 => p = <<p[1], p[2]>>
  /\ Nowhere[1] = 0 /\ Queued[1] = 0
BY DEF Wheel, Nowhere, Queued

\* A node linked for a tick is due at that tick, or at the next one processed
\* when the tick has passed; its block lies ahead.
LEMMA ListOfDue ==
  ASSUME timer_jiffies \in Ticks, NEW e \in Ticks
  PROVE  /\ AheadAt(ListOf(e), e, timer_jiffies)
         /\ ListOf(e)[1] \in 2 .. 5 => StrictAt(ListOf(e), e, timer_jiffies)
         /\ DueAt(ListOf(e), e, timer_jiffies) =
              IF Negative(e - timer_jiffies) THEN timer_jiffies ELSE e
<1> DEFINE j == timer_jiffies
           left == LeftAt(e, j)
<1>1. /\ j \in 0 .. Wrap - 1 /\ e \in 0 .. Wrap - 1 /\ Wrap \in Nat /\ Wrap > 0
      /\ ITVR_SIZE \in Nat /\ ITVR_SIZE > 0 /\ ITVN_SIZE \in Nat
  BY GranPositive, SizesPositive DEF Ticks
<1>0. /\ j \in Int /\ e \in Int /\ ITVR_SIZE \in Nat /\ ITVR_SIZE > 0
  BY <1>1
<1>2. left \in 0 .. Wrap - 1 /\ left = (e - j) % Wrap
  BY <1>1, DivMod DEF LeftAt, U32
<1>3. U32(e - j) = left /\ U32(left) = left  BY <1>1, <1>2, NextIs DEF U32
<1>4. /\ Gran(2) = Gran2 /\ Gran(3) = Gran3 /\ Gran(4) = Gran4 /\ Gran(5) = Gran5
      /\ Gran3 = Gran2 * ITVN_SIZE /\ Gran4 = Gran3 * ITVN_SIZE
      /\ Gran5 = Gran4 * ITVN_SIZE /\ Wrap = Gran5 * ITVN_SIZE /\ Gran2 = ITVR_SIZE
  BY Spans DEF Gran2, Gran3, Gran4, Gran5, Wrap
<1>5. \A k \in 2 .. 5 : /\ Gran(k) \in Nat /\ Gran(k) > 0 /\ 2 * Gran(k) <= Wrap
                        /\ e % Gran(k) < Gran(k) /\ e % Gran(k) \in Nat
  <2>1. ASSUME NEW k \in 2 .. 5
        PROVE  /\ Gran(k) \in Nat /\ Gran(k) > 0 /\ 2 * Gran(k) <= Wrap
               /\ e % Gran(k) < Gran(k) /\ e % Gran(k) \in Nat
    <3>1. PICK g \in Nat : g = Gran(k) /\ g > 0 /\ 2 * g <= Wrap  BY Spans
    <3>2. e % g \in 0 .. g - 1  BY <1>1, <3>1, DivMod
    <3> QED  BY <3>1, <3>2
  <2> QED  BY <2>1
<1>6. /\ Negative(e - j) <=> 2 * left >= Wrap
      /\ Negative(left) <=> 2 * left >= Wrap
  BY <1>3 DEF Negative
<1>7. CASE left < Gran2
  <2>1. ListOf(e) = <<1, e % ITVR_SIZE>>  BY <1>3, <1>7 DEF ListOf
  <2>2. ~Negative(e - j)  BY <1>2, <1>4, <1>5, <1>6, <1>7
  <2>3. ((e % ITVR_SIZE) - j) % ITVR_SIZE = left
    <3>1. PICK q \in Nat : q > 0 /\ Wrap = ITVR_SIZE * q  BY Spans
    <3>2. PICK x \in Int : x = e - j  BY <1>1
    <3>3. left % ITVR_SIZE = (e - j) % ITVR_SIZE
      <4>1. (x % (ITVR_SIZE * q)) % ITVR_SIZE = x % ITVR_SIZE
        BY <1>1, <3>1, ModMultiple
      <4>2. left = x % (ITVR_SIZE * q)  BY <1>2, <3>1, <3>2
      <4> QED  BY <3>2, <4>1, <4>2
    <3>4. ((e % ITVR_SIZE) - j) % ITVR_SIZE = (e - j) % ITVR_SIZE
      BY <1>0, WrapFrom, Zenon
    <3>6. left \in 0 .. ITVR_SIZE - 1  BY <1>1, <1>2, <1>4, <1>7
    <3>7. left % ITVR_SIZE = left  BY <1>1, <3>6, NextIs
    <3> QED  BY <3>3, <3>4, <3>7
  <2>4. U32(j + left) = e  BY <1>1, <1>2, AroundReaches DEF U32
  <2> QED  BY <2>1, <2>2, <2>3, <2>4 DEF AheadAt, DueAt
<1>8. ASSUME NEW k \in 2 .. 5, left >= Gran(k), left < Gran(k) * ITVN_SIZE,
             ListOf(e) = <<k, (e \div Gran(k)) % ITVN_SIZE>>, ~(2 * left >= Wrap)
      PROVE  /\ AheadAt(ListOf(e), e, j) /\ StrictAt(ListOf(e), e, j)
             /\ DueAt(ListOf(e), e, j) = IF Negative(e - j) THEN j ELSE e
  <2>1. ListOf(e)[1] = k /\ ListOf(e)[2] = (e \div Gran(k)) % ITVN_SIZE /\ k # 1  BY <1>8
  <2>2. e % Gran(k) < left
    <3>1. PICK g \in Nat, r \in Nat : g = Gran(k) /\ r = e % Gran(k) /\ r < g  BY <1>5
    <3> QED  BY <1>2, <1>8, <3>1
  <2>3. e % Gran(k) <= left  BY <1>2, <1>5, <2>2
  <2> DEFINE p == ListOf(e)
  <2> HIDE DEF left, j, p
  <2>4. AheadAt(p, e, j)  BY <1>8, <2>1, <2>3 DEF AheadAt, left, j, p
  <2>5. StrictAt(p, e, j)  BY <2>1, <2>2 DEF StrictAt, left, j, p
  <2>6. DueAt(p, e, j) = e  BY <2>1 DEF DueAt, p
  <2>7. ~Negative(e - j)  BY <1>6, <1>8
  <2> QED  BY <2>4, <2>5, <2>6, <2>7 DEF p, j
<1>9. CASE ~(left < Gran2) /\ left < Gran3
  <2>1. ListOf(e) = <<2, (e \div Gran(2)) % ITVN_SIZE>>
    BY <1>3, <1>4, <1>9 DEF ListOf
  <2> QED  BY <1>1, <1>2, <1>4, <1>5, <1>8, <1>9, <2>1
<1>10. CASE ~(left < Gran2) /\ ~(left < Gran3) /\ left < Gran4
  <2>1. ListOf(e) = <<3, (e \div Gran(3)) % ITVN_SIZE>>
    BY <1>3, <1>4, <1>10 DEF ListOf
  <2> QED  BY <1>1, <1>2, <1>4, <1>5, <1>8, <1>10, <2>1
<1>11. CASE ~(left < Gran2) /\ ~(left < Gran3) /\ ~(left < Gran4) /\ left < Gran5
  <2>1. ListOf(e) = <<4, (e \div Gran(4)) % ITVN_SIZE>>
    BY <1>3, <1>4, <1>11 DEF ListOf
  <2> QED  BY <1>1, <1>2, <1>4, <1>5, <1>8, <1>11, <2>1
<1>12. CASE ~(left < Gran2) /\ ~(left < Gran3) /\ ~(left < Gran4) /\ ~(left < Gran5)
  <2>1. CASE Negative(left)
    <3>1. ListOf(e) = <<1, j % ITVR_SIZE>>  BY <1>3, <1>12, <2>1 DEF ListOf
    <3>2. ((j % ITVR_SIZE) - j) % ITVR_SIZE = 0
      <4>1. ((j % ITVR_SIZE) - j) % ITVR_SIZE = (j - j) % ITVR_SIZE
        BY <1>0, WrapFrom, Zenon
      <4>2. j - j = 0  BY <1>1
      <4>3. 0 % ITVR_SIZE = 0  BY <1>1, NextIs
      <4> QED  BY <4>1, <4>2, <4>3
    <3>3. U32(j + 0) = j  BY <1>1, NextIs DEF U32
    <3> QED  BY <1>6, <2>1, <3>1, <3>2, <3>3 DEF AheadAt, DueAt
  <2>2. CASE ~Negative(left)
    <3>1. ListOf(e) = <<5, (e \div Gran(5)) % ITVN_SIZE>>
      BY <1>3, <1>4, <1>12, <2>2 DEF ListOf
    <3>2. left >= Gran(5) /\ left < Gran(5) * ITVN_SIZE /\ 5 \in 2 .. 5
      BY <1>1, <1>2, <1>4, <1>5, <1>12
    <3>3. ~(2 * left >= Wrap)  BY <1>6, <2>2
    <3> QED  BY <1>8, <3>1, <3>2, <3>3
  <2> QED  BY <2>1, <2>2
<1> QED  BY <1>7, <1>8, <1>9, <1>10, <1>11, <1>12

\* A node whose block begins now is on the list that is cascaded now.
LEMMA BlockEntered ==
  ASSUME timer_jiffies \in Ticks, NEW e \in Ticks, NEW p \in Wheel, p[1] \in 2 .. 5,
         AheadAt(p, e, timer_jiffies), ~StrictAt(p, e, timer_jiffies)
  PROVE  /\ timer_jiffies % Gran(p[1]) = 0
         /\ p = <<p[1], (timer_jiffies \div Gran(p[1])) % ITVN_SIZE>>
<1>1. PICK g \in Nat : g = Gran(p[1]) /\ g > 0  BY Spans
<1>2. /\ timer_jiffies \in 0 .. Wrap - 1 /\ e \in 0 .. Wrap - 1 /\ Wrap \in Nat /\ Wrap > 0
      /\ timer_jiffies \in Int
  BY GranPositive DEF Ticks
<1>3. e % g \in Int /\ LeftAt(e, timer_jiffies) \in Int
  BY <1>1, <1>2, DivMod DEF LeftAt, U32
<1>4. (e - timer_jiffies) % Wrap = e % g
  BY <1>1, <1>3 DEF AheadAt, StrictAt, LeftAt, U32
<1>5. timer_jiffies % g = 0 /\ timer_jiffies \div g = e \div g
  BY <1>1, <1>2, <1>4, BlockBegins
<1> QED  BY <1>1, <1>5, PlaceKinds DEF AheadAt

\* A node on the list that is cascaded now is due within the block that begins.
LEMMA CascadedDue ==
  ASSUME timer_jiffies \in Ticks, NEW e \in Ticks, NEW k \in 2 .. 5,
         NEW p, p = <<k, (timer_jiffies \div Gran(k)) % ITVN_SIZE>>,
         AheadAt(p, e, timer_jiffies), timer_jiffies % Gran(k) = 0
  PROVE  DueAt(p, e, timer_jiffies) = e /\ ~Negative(e - timer_jiffies)
<1>1. PICK g \in Nat, q \in Nat : /\ g = Gran(k) /\ g > 0 /\ 2 * g <= Wrap
                                  /\ q > 0 /\ Wrap = (g * ITVN_SIZE) * q
  BY Spans
<1>2. /\ timer_jiffies \in 0 .. Wrap - 1 /\ e \in 0 .. Wrap - 1 /\ Wrap \in Nat /\ Wrap > 0
      /\ ITVN_SIZE \in Nat /\ ITVN_SIZE > 0 /\ timer_jiffies \in Int /\ e \in Int
  BY GranPositive, SizesPositive DEF Ticks
<1>3. p[1] = k /\ p[2] = (timer_jiffies \div g) % ITVN_SIZE /\ k # 1  BY <1>1
<1>4. /\ (timer_jiffies \div g) % ITVN_SIZE = (e \div g) % ITVN_SIZE
      /\ e % g <= (e - timer_jiffies) % Wrap
      /\ (e - timer_jiffies) % Wrap < g * ITVN_SIZE
  BY <1>1, <1>3 DEF AheadAt, LeftAt, U32
<1>5. (e - timer_jiffies) % Wrap = e % g
  <2>1. timer_jiffies % g = 0  BY <1>1
  <2>2. g \in Nat /\ g > 0 /\ q \in Nat /\ q > 0 /\ Wrap = (g * ITVN_SIZE) * q  BY <1>1
  <2>3. AtBlock(g, ITVN_SIZE, q, Wrap, timer_jiffies, e)
    BY <1>4, <2>1, <2>2, Zenon DEF AtBlock
  <2> HIDE DEF Wrap
  <2>4. PICK n \in Nat, w \in Nat : n = ITVN_SIZE /\ w = Wrap  BY <1>2
  <2>5. PICK j \in 0 .. w - 1 : j = timer_jiffies  BY <1>2, <2>4
  <2>6. e \in 0 .. w - 1 /\ n > 0 /\ w > 0  BY <1>2, <2>4
  <2>7. AtBlock(g, n, q, w, j, e)  BY <2>3, <2>4, <2>5
  <2>8. (e - j) % w = e % g  BY <2>2, <2>6, <2>7, WithinBlock, SMTT(30)
  <2> QED  BY <2>4, <2>5, <2>8
<1>6. e % g \in 0 .. g - 1  BY <1>1, <1>2, DivMod
<1>7. 2 * U32(e - timer_jiffies) < Wrap /\ U32(e - timer_jiffies) \in Int
  BY <1>1, <1>2, <1>5, <1>6 DEF U32
<1>8. ~Negative(e - timer_jiffies)  BY <1>2, <1>7 DEF Negative
<1> QED  BY <1>3, <1>8 DEF DueAt

\* A placement in the middle of the cascades of a tick: vectors below level are
\* done, every node is due as before.
Cascading(place, level) ==
  /\ SameLinks(at, place)
  /\ \A n \in Nodes :
       /\ AheadAt(place[n], expires[n], timer_jiffies)
       /\ DueAt(place[n], expires[n], timer_jiffies) = DueAt(at[n], expires[n], timer_jiffies)
       /\ place[n][1] \in 2 .. level - 1 => StrictAt(place[n], expires[n], timer_jiffies)

\* The cascade of one vector: its nodes keep their ticks and move below.
LEMMA CascadeStep ==
  ASSUME TypeOK, NEW place, NEW k \in 2 .. 5, Cascading(place, k)
  PROVE  Cascading(CascadeAt(place, k, Gran(k)), k + 1)
<1> DEFINE j == timer_jiffies
           list == <<k, (j \div Gran(k)) % ITVN_SIZE>>
           moved == CascadeAt(place, k, Gran(k))
<1>1. j \in Ticks /\ \A n \in Nodes : expires[n] \in Ticks  BY DEF TypeOK
<1>2. place \in [Nodes -> Places] /\ SameLinks(at, place)  BY DEF Cascading, SameLinks
<1>3. SameLinks(at, moved)
  <2>1. SameLinks(place, moved)  BY <1>2, CascadeAtLinks, Spans
  <2> HIDE DEF moved
  <2> QED  BY <1>2, <2>1 DEF SameLinks
<1>4. ASSUME NEW n \in Nodes
      PROVE  /\ AheadAt(moved[n], expires[n], j)
             /\ DueAt(moved[n], expires[n], j) = DueAt(at[n], expires[n], j)
             /\ moved[n][1] \in 2 .. (k + 1) - 1 => StrictAt(moved[n], expires[n], j)
  <2> DEFINE e == expires[n]
             p == place[n]
  <2>1. e \in Ticks /\ p \in Places  BY <1>1, <1>2
  <2>2. /\ AheadAt(p, e, j) /\ DueAt(p, e, j) = DueAt(at[n], e, j)
        /\ p[1] \in 2 .. k - 1 => StrictAt(p, e, j)
    BY DEF Cascading
  <2>3. CASE j % Gran(k) = 0 /\ p = list
    <3>1. moved[n] = ListOf(e)  BY <2>3 DEF CascadeAt, Cascade
    <3>2. DueAt(p, e, j) = e /\ ~Negative(e - j)
      BY <1>1, <2>1, <2>2, <2>3, CascadedDue
    <3>3. /\ AheadAt(ListOf(e), e, j)
          /\ ListOf(e)[1] \in 2 .. 5 => StrictAt(ListOf(e), e, j)
          /\ DueAt(ListOf(e), e, j) = IF Negative(e - j) THEN j ELSE e
      BY <1>1, <2>1, ListOfDue
    <3>4. 2 .. (k + 1) - 1 \subseteq 2 .. 5  OBVIOUS
    <3> HIDE DEF moved, e, p, j
    <3> QED  BY <2>2, <3>1, <3>2, <3>3, <3>4 DEF e
  <2>4. CASE ~(j % Gran(k) = 0 /\ p = list)
    <3>1. moved[n] = p  BY <2>4 DEF CascadeAt, Cascade
    <3>2. ASSUME p[1] = k PROVE StrictAt(p, e, j)
      <4>1. p \in Wheel  BY <2>1, <3>2, PlaceKinds DEF Places
      <4> QED  BY <1>1, <2>1, <2>2, <2>4, <3>2, <4>1, BlockEntered
    <3>3. ASSUME NEW x \in 2 .. (k + 1) - 1 PROVE x = k \/ x \in 2 .. k - 1
      OBVIOUS
    <3> HIDE DEF moved, e, p, j
    <3> QED  BY <2>2, <3>1, <3>2, <3>3 DEF e
  <2> QED  BY <2>3, <2>4
<1> HIDE DEF moved
<1> QED  BY <1>3, <1>4 DEF Cascading, moved

\* All cascades of a tick.
LEMMA CascadeAllDue ==
  ASSUME TypeOK, BlockAhead
  PROVE  Cascading(CascadeAll, 6)
<1> DEFINE p2 == CascadeAt(at, 2, Gran2)
           p3 == CascadeAt(p2, 3, Gran3)
           p4 == CascadeAt(p3, 4, Gran4)
           p5 == CascadeAt(p4, 5, Gran5)
<1>1. Cascading(at, 2)
  <2>1. SameLinks(at, at)  BY DEF SameLinks, TypeOK, Places
  <2>2. 2 .. 2 - 1 = {}  OBVIOUS
  <2> QED  BY <2>1, <2>2, NodeByNode DEF Cascading
<1>2. Cascading(p2, 3)
  <2>1. Cascading(CascadeAt(at, 2, Gran(2)), 2 + 1)  BY <1>1, CascadeStep
  <2> QED  BY <2>1, Spans
<1> HIDE DEF p2
<1>3. Cascading(p3, 4)
  <2>1. Cascading(CascadeAt(p2, 3, Gran(3)), 3 + 1)  BY <1>2, CascadeStep
  <2> QED  BY <2>1, Spans
<1> HIDE DEF p3
<1>4. Cascading(p4, 5)
  <2>1. Cascading(CascadeAt(p3, 4, Gran(4)), 4 + 1)  BY <1>3, CascadeStep
  <2> QED  BY <2>1, Spans
<1> HIDE DEF p4
<1>5. Cascading(p5, 6)
  <2>1. Cascading(CascadeAt(p4, 5, Gran(5)), 5 + 1)  BY <1>4, CascadeStep
  <2> QED  BY <2>1, Spans
<1>6. CascadeAll = p5  BY DEF CascadeAll, p2, p3, p4
<1> QED  BY <1>5, <1>6

\* One tick, for one node: p is its place after the cascades.  A node on the list
\* of tv1 that is read now is due now; another one is still due as it was, ahead
\* of the next tick.
LEMMA TickDue ==
  ASSUME timer_jiffies \in Ticks, NEW e \in Ticks, NEW p \in Places,
         AheadAt(p, e, timer_jiffies),
         p[1] \in 2 .. 5 => StrictAt(p, e, timer_jiffies)
  PROVE  /\ p = <<1, timer_jiffies % ITVR_SIZE>> => DueAt(p, e, timer_jiffies) = timer_jiffies
         /\ p # <<1, timer_jiffies % ITVR_SIZE>> =>
              /\ DueAt(p, e, timer_jiffies) # timer_jiffies
              /\ DueAt(p, e, U32(timer_jiffies + 1)) = DueAt(p, e, timer_jiffies)
              /\ AheadAt(p, e, U32(timer_jiffies + 1))
<1> DEFINE R == ITVR_SIZE
<1>1. PICK j \in 0 .. Wrap - 1 : j = timer_jiffies  BY DEF Ticks
<1>2. /\ Wrap \in Nat /\ Wrap > 0 /\ R \in Nat /\ R > 0 /\ j \in Int
      /\ e \in 0 .. Wrap - 1 /\ e \in Int
  BY GranPositive, SizesPositive DEF Ticks
<1>3. PICK next \in 0 .. Wrap - 1 : next = (j + 1) % Wrap
  BY <1>2, DivMod
<1>4. next = U32(timer_jiffies + 1)  BY <1>1, <1>3 DEF U32
<1>5. PICK q \in Nat : q > 0 /\ Wrap = R * q  BY Spans
<1>6. R <= Wrap  BY <1>2, <1>5
<1> HIDE DEF R
<1>7. CASE p[1] = 1
  <2>1. p \in Wheel  BY <1>7, PlaceKinds DEF Places
  <2>2. PICK i \in 0 .. R - 1 : p = <<1, i>>  BY <1>7, <2>1, PlaceKinds DEF R
  <2>3. PICK x \in 0 .. R - 1 : x = (i - j) % R  BY <1>2, DivMod
  <2>4. i = j % R <=> x = 0
    <3>1. ASSUME i = j % R PROVE x = 0
      <4>1. ((j % R) - j) % R = (j - j) % R  BY <1>2, WrapFrom, Zenon
      <4>2. (j - j) % R = 0
        <5>1. j - j = 0  BY <1>2
        <5> QED  BY <1>2, <5>1, NextIs
      <4> QED  BY <2>3, <3>1, <4>1, <4>2
    <3>2. ASSUME x = 0 PROVE i = j % R
      <4>1. PICK y \in Int : y = i - j  BY <1>2
      <4>2. y = R * (y \div R) + 0 /\ y \div R \in Int  BY <1>2, <2>3, <3>2, <4>1, DivMod
      <4>3. PICK z \in Int : z = -(y \div R)  BY <4>2
      <4>4. R * z = -(R * (y \div R))  BY <1>2, <4>2, <4>3
      <4>5. j = R * z + i  BY <1>2, <4>1, <4>2, <4>4
      <4> QED  BY <1>2, <4>5, Remainder
    <3> QED  BY <3>1, <3>2
  <2>5. DueAt(p, e, timer_jiffies) = (j + x) % Wrap
    BY <1>1, <2>2, <2>3 DEF DueAt, U32, R
  <2>6. DueAt(p, e, U32(timer_jiffies + 1)) = (next + ((i - next) % R)) % Wrap
    BY <1>4, <2>2 DEF DueAt, U32, R
  <2>7. CASE x = 0
    <3>1. p = <<1, timer_jiffies % ITVR_SIZE>>  BY <1>1, <2>2, <2>4, <2>7 DEF R
    <3>2. j + x = j  BY <1>2, <2>7
    <3>3. (j + x) % Wrap = j  BY <1>2, <3>2, NextIs
    <3> QED  BY <1>1, <2>5, <3>1, <3>3
  <2>8. CASE x # 0
    <3>1. p # <<1, timer_jiffies % ITVR_SIZE>>  BY <1>1, <2>2, <2>4, <2>8 DEF R
    <3>2. (j + x) % Wrap # j
      <4>1. x \in 0 .. Wrap - 1  BY <1>2, <1>6
      <4> QED  BY <1>2, <2>8, <4>1, AroundBack
    <3>3. (i - next) % R = x - 1
      <4>0. i \in Int  BY <1>2
      <4>1. PICK k \in Int : k = j + 1  BY <1>2
      <4>2. (i - (k % Wrap)) % R = (i - k) % R
        <5>1. PICK w \in Nat : w = Wrap  BY <1>2
        <5>2. w = R * q /\ q > 0 /\ R \in Nat /\ R > 0  BY <1>2, <1>5, <5>1
        <5>3. \A y, z \in Int : (z - (y % w)) % R = (z - y) % R  BY <5>2, WrapSubMultiples, Zenon
        <5>4. (i - (k % w)) % R = (i - k) % R  BY <4>0, <4>1, <5>3, Zenon
        <5> QED  BY <5>1, <5>4
      <4>3. (i - (j + 1)) % R = ((i - j) % R) - 1
        <5>1. (i - j) % R # 0  BY <2>3, <2>8
        <5> QED  BY <1>2, <4>0, <5>1, OneNearer, Zenon
      <4> QED  BY <1>3, <1>5, <2>3, <4>1, <4>2, <4>3
    <3>4. (next + (x - 1)) % Wrap = (j + x) % Wrap
      <4>1. PICK k \in Int, d \in Int : k = j + 1 /\ d = x - 1  BY <1>2
      <4>2. ((k % Wrap) + d) % Wrap = (k + d) % Wrap  BY <1>2, WrapAdd
      <4>3. k + d = j + x  BY <1>2, <4>1
      <4> QED  BY <1>3, <4>1, <4>2, <4>3
    <3>5. AheadAt(p, e, U32(timer_jiffies + 1))  BY <1>7 DEF AheadAt
    <3> QED  BY <1>1, <2>5, <2>6, <3>1, <3>2, <3>3, <3>4, <3>5
  <2> QED  BY <2>7, <2>8
<1>8. CASE p[1] \in 2 .. 5
  <2>1. p # <<1, timer_jiffies % ITVR_SIZE>> /\ p[1] # 1  BY <1>8
  <2>2. DueAt(p, e, timer_jiffies) = e /\ DueAt(p, e, U32(timer_jiffies + 1)) = e
    BY <1>8, <2>1 DEF DueAt
  <2>3. PICK g \in Nat : g = Gran(p[1]) /\ g > 0  BY <1>8, Spans
  <2>4. PICK r \in 0 .. g - 1 : r = e % g  BY <1>2, <2>3, DivMod
  <2>5. PICK left \in 0 .. Wrap - 1 : left = (e - j) % Wrap  BY <1>2, DivMod
  <2>6. r < left /\ p[2] = (e \div g) % ITVN_SIZE /\ left < g * ITVN_SIZE
    BY <1>1, <1>8, <2>3, <2>4, <2>5 DEF AheadAt, StrictAt, LeftAt, U32
  <2>7. (e - next) % Wrap = left - 1
    <3>1. PICK k \in Int : k = j + 1  BY <1>2
    <3>2. (e - (k % Wrap)) % Wrap = (e - k) % Wrap  BY <1>2, WrapSub
    <3>3. left # 0  BY <2>6
    <3>4. (e - (j + 1)) % Wrap = ((e - j) % Wrap) - 1  BY <1>2, <2>5, <3>3, OneNearer
    <3> QED  BY <1>3, <2>5, <3>1, <3>2, <3>4
  <2>8. e # j
    <3>1. SUFFICES ASSUME e = j PROVE FALSE  OBVIOUS
    <3>2. e - j = 0  BY <1>2, <3>1
    <3>3. left = 0  BY <1>2, <2>5, <3>2, NextIs
    <3> QED  BY <2>6, <3>3
  <2>9. AheadAt(p, e, U32(timer_jiffies + 1))
    <3>1. LeftAt(e, U32(timer_jiffies + 1)) = left - 1  BY <1>4, <2>7 DEF LeftAt, U32
    <3>2. PICK s \in Int : s = g * ITVN_SIZE  BY <2>3, SizesPositive
    <3>3. r <= left - 1 /\ left - 1 < g * ITVN_SIZE  BY <2>6, <3>2
    <3> QED  BY <2>3, <2>4, <2>6, <3>1, <3>3 DEF AheadAt
  <2> QED  BY <1>1, <2>1, <2>2, <2>8, <2>9
<1>9. CASE ~(p[1] = 1) /\ ~(p[1] \in 2 .. 5)
  <2>1. p # <<1, timer_jiffies % ITVR_SIZE>>  BY <1>9
  <2>2. DueAt(p, e, timer_jiffies) = NoRun /\ DueAt(p, e, U32(timer_jiffies + 1)) = NoRun
    BY <1>9 DEF DueAt
  <2>3. NoRun # timer_jiffies  BY <1>1 DEF NoRun
  <2> QED  BY <1>9, <2>1, <2>2, <2>3 DEF AheadAt
<1> QED  BY <1>7, <1>8, <1>9

\* A tick, for all nodes.
LEMMA TickIs ==
  ASSUME IInv, BlockAhead, Tick
  PROVE  /\ timer_jiffies' = U32(timer_jiffies + 1)
         /\ \A n \in Nodes : at[n] # Queued
         /\ \A n \in Nodes :
              /\ at'[n] = Queued <=> DueOf(n) = timer_jiffies
              /\ at'[n] = Queued => DueAt(at'[n], expires'[n], timer_jiffies') = NoRun
              /\ at'[n] # Queued => DueAt(at'[n], expires'[n], timer_jiffies') = DueOf(n)
              /\ AheadAt(at'[n], expires'[n], timer_jiffies')
<1> DEFINE place == CascadeAll
           list == <<1, timer_jiffies % ITVR_SIZE>>
<1>1. TypeOK /\ timer_jiffies \in Ticks /\ \A n \in Nodes : expires[n] \in Ticks
  BY DEF IInv, TypeOK
<1>2. Cascading(place, 6)  BY <1>1, CascadeAllDue
<1>3. /\ at' = [n \in Nodes |-> IF place[n] = list THEN Queued ELSE place[n]]
      /\ timer_jiffies' = U32(timer_jiffies + 1) /\ expires' = expires
      /\ \A n \in Nodes : at[n] # Queued
  BY DEF Tick, BetweenTicks
<1> HIDE DEF place, list
<1>4. ASSUME NEW n \in Nodes
      PROVE  /\ at'[n] = Queued <=> DueOf(n) = timer_jiffies
             /\ at'[n] = Queued => DueAt(at'[n], expires'[n], timer_jiffies') = NoRun
             /\ at'[n] # Queued => DueAt(at'[n], expires'[n], timer_jiffies') = DueOf(n)
             /\ AheadAt(at'[n], expires'[n], timer_jiffies')
  <2>1. /\ place[n] \in Places /\ place[n] # Queued /\ expires[n] \in Ticks
        /\ AheadAt(place[n], expires[n], timer_jiffies)
        /\ DueAt(place[n], expires[n], timer_jiffies) = DueOf(n)
    BY <1>1, <1>2, <1>3, NodeByNode DEF Cascading, SameLinks
  <2>2. place[n][1] \in 2 .. 5 => StrictAt(place[n], expires[n], timer_jiffies)
    <3>1. 2 .. 6 - 1 = 2 .. 5  OBVIOUS
    <3> QED  BY <1>2, <3>1 DEF Cascading
  <2>3. CASE place[n] = list
    <3>1. at'[n] = Queued  BY <1>3, <2>3
    <3>2. DueOf(n) = timer_jiffies  BY <1>1, <2>1, <2>2, <2>3, TickDue DEF list
    <3>3. Queued[1] = 0  BY DEF Queued
    <3>4. /\ DueAt(Queued, expires'[n], timer_jiffies') = NoRun
          /\ AheadAt(Queued, expires'[n], timer_jiffies')
      BY <3>3 DEF DueAt, AheadAt
    <3> QED  BY <3>1, <3>2, <3>4
  <2>4. CASE place[n] # list
    <3>1. at'[n] = place[n]  BY <1>3, <2>4
    <3>2. /\ DueAt(place[n], expires[n], timer_jiffies) # timer_jiffies
          /\ DueAt(place[n], expires[n], U32(timer_jiffies + 1)) = DueOf(n)
          /\ AheadAt(place[n], expires[n], U32(timer_jiffies + 1))
      BY <1>1, <2>1, <2>2, <2>4, TickDue DEF list
    <3> QED  BY <1>3, <2>1, <3>1, <3>2
  <2> QED  BY <2>3, <2>4
<1> QED  BY <1>3, <1>4

\* A list holds no node of a core that is not initialised.
LEMMA NotLinked ==
  ASSUME IInv, ~live
  PROVE  \A n \in Nodes : at[n] = Nowhere
BY DEF IInv, CoreWhileLinked

\* Where no node is linked there is nothing to be ahead and nothing due.
LEMMA UnlinkedIs ==
  ASSUME NEW e, NEW j
  PROVE  /\ AheadAt(Nowhere, e, j) /\ DueAt(Nowhere, e, j) = NoRun
         /\ AheadAt(Queued, e, j) /\ DueAt(Queued, e, j) = NoRun
<1>1. Nowhere[1] = 0 /\ Queued[1] = 0  BY DEF Nowhere, Queued
<1> QED  BY <1>1 DEF AheadAt, DueAt

\* What BlockAhead and DueOf say of the next state.
LEMMA NextNodes ==
  /\ BlockAhead' <=> \A n \in Nodes : AheadAt(at'[n], expires'[n], timer_jiffies')
  /\ \A n \in Nodes : DueOf(n)' = DueAt(at'[n], expires'[n], timer_jiffies')
<1>1. BlockAhead' <=> \A n \in Nodes : AheadAt(at'[n], expires'[n], timer_jiffies')
  BY DEF BlockAhead, AheadAt, LeftAt
<1>2. ASSUME NEW n \in Nodes PROVE DueOf(n)' = DueAt(at'[n], expires'[n], timer_jiffies')
  BY DEF DueOf, DueAt
<1> QED  BY <1>1, <1>2

\* Every step keeps the blocks of the linked nodes ahead.
LEMMA NextAhead ==
  ASSUME IInv, BlockAhead, [Next]_vars
  PROVE  BlockAhead'
<1>1. TypeOK /\ timer_jiffies \in Ticks /\ at \in [Nodes -> Places]
      /\ expires \in [Nodes -> Ticks]
  BY DEF IInv, TypeOK, Places
<1>2. \A n \in Nodes : AheadAt(at[n], expires[n], timer_jiffies)  BY NodeByNode
<1>3. ASSUME NEW n \in Nodes, at' = [at EXCEPT ![n] = Nowhere], timer_jiffies' = timer_jiffies,
             \A m \in Nodes : m # n => expires'[m] = expires[m]
      PROVE  BlockAhead'
  <2>1. ASSUME NEW m \in Nodes PROVE AheadAt(at'[m], expires'[m], timer_jiffies')
    BY <1>1, <1>2, <1>3, UnlinkedIs
  <2> QED  BY <2>1, NextNodes
<1>4. ASSUME UNCHANGED <<at, expires, timer_jiffies>>
      PROVE  BlockAhead'
  BY <1>2, <1>4, NextNodes
<1>5. ASSUME NEW n \in Nodes, NodeInit(n) \/ NodeDestroy(n)  PROVE BlockAhead'
  BY <1>1, <1>3, <1>5 DEF NodeInit, NodeDestroy
<1>6. ASSUME NEW n \in Nodes, NodeDel(n) \/ Fire(n)  PROVE BlockAhead'
  BY <1>1, <1>3, <1>6 DEF NodeDel, Fire
<1>7. ASSUME NEW n \in Nodes, NEW d \in Deltas,
             NodeAdd(n, U32(timer_jiffies + d))
      PROVE  BlockAhead'
  <2>1. PICK e \in Ticks : e = U32(timer_jiffies + d)
    <3>1. timer_jiffies + d \in Int  BY <1>1, SizeAssumption, TicksInt
    <3> QED  BY <3>1, U32Type
  <2>2. ASSUME NEW m \in Nodes PROVE AheadAt(at'[m], expires'[m], timer_jiffies')
    BY <1>1, <1>2, <1>7, <2>1, ListOfDue DEF NodeAdd
  <2> QED  BY <2>2, NextNodes
<1>8. CASE CoreDestroy
  <2>1. ASSUME NEW m \in Nodes PROVE AheadAt(at'[m], expires'[m], timer_jiffies')
    BY <1>1, <1>2, <1>8, UnlinkedIs DEF CoreDestroy
  <2> QED  BY <2>1, NextNodes
<1>9. ASSUME NEW j \in Starts, CoreInit(j)  PROVE BlockAhead'
  <2>1. ASSUME NEW m \in Nodes PROVE AheadAt(at'[m], expires'[m], timer_jiffies')
    BY <1>9, NotLinked, UnlinkedIs DEF CoreInit
  <2> QED  BY <2>1, NextNodes
<1>10. CASE Tick  BY <1>10, TickIs, NextNodes
<1>11. ASSUME NEW d \in RunAheads, CoreRun(U32(timer_jiffies + d))  PROVE BlockAhead'
  BY <1>4, <1>11 DEF CoreRun
<1>12. CASE Return \/ RunDone \/ UNCHANGED vars
  BY <1>4, <1>12 DEF Return, RunDone, vars
<1> QED
  BY <1>5, <1>6, <1>7, <1>8, <1>9, <1>10, <1>11, <1>12 DEF Next, Running

\* Init establishes it.
LEMMA InitAhead == Init => BlockAhead
  BY UnlinkedIs, NodeByNode DEF Init

\* A list of an upper vector is cascaded before any of its nodes is due and less
\* than a turn of its vector before, whatever the sizes of the vectors.
THEOREM BlocksAhead == Spec => []BlockAhead
<1>1. Init => IInv /\ BlockAhead  BY InitIInv, InitAhead
<1>2. IInv /\ BlockAhead /\ [Next]_vars => IInv' /\ BlockAhead'  BY NextIInv, NextAhead
<1> QED  BY <1>1, <1>2, PTL DEF Spec

\* The state of the timer the wheel stands for.
Due == [n \in Nodes |-> DueOf(n)]
Batch == {n \in Nodes : at[n] = Queued}

\* The wheel begins as the timer does.
LEMMA InitTimer == Init => Timer!Init
<1> SUFFICES ASSUME Init PROVE Timer!Init  OBVIOUS
<1>1. timer_jiffies \in Timer!Ticks
  BY SizeAssumption DEF Init, Ticks, Timer!Ticks
<1>2. \A n \in Nodes : DueOf(n) = NoRun  BY UnlinkedIs, NodeByNode DEF Init
<1>3. \A n \in Nodes : at[n] # Queued  BY PlacesDistinct DEF Init
<1> QED  BY <1>1, <1>2, <1>3 DEF Init, Timer!Init

\* A node that is unlinked is disarmed, the others keep their ticks.
LEMMA UnlinkStep ==
  ASSUME IInv, NEW n \in Nodes, at' = [at EXCEPT ![n] = Nowhere],
         timer_jiffies' = timer_jiffies,
         \A m \in Nodes : m # n => expires'[m] = expires[m]
  PROVE  /\ Due' = [Due EXCEPT ![n] = NoRun]
         /\ Batch' = Batch \ {n}
<1>1. at \in [Nodes -> Places]  BY DEF IInv, TypeOK, Places
<1>2. ASSUME NEW m \in Nodes
      PROVE  DueOf(m)' = IF m = n THEN NoRun ELSE DueOf(m)
  BY <1>1, NodeByNode, NextNodes, UnlinkedIs
<1>3. Due' = [m \in Nodes |-> DueOf(m)']  BY DEF Due
<1>4. Due' = [Due EXCEPT ![n] = NoRun]  BY <1>2, <1>3 DEF Due
<1>5. Batch' = Batch \ {n}  BY <1>1, PlacesDistinct DEF Batch
<1> QED  BY <1>4, <1>5

\* Nothing is due and nothing in the batch changes when no list changes.
LEMMA SameStep ==
  ASSUME UNCHANGED <<at, expires, timer_jiffies>>
  PROVE  Due' = Due /\ Batch' = Batch
<1>1. ASSUME NEW m \in Nodes PROVE DueOf(m)' = DueOf(m)
  BY NodeByNode, NextNodes
<1> QED  BY <1>1 DEF Due, Batch

\* The abstract operations, in the state the wheel stands for.
LEMMA TimerActions ==
  /\ Timer!Advance <=>
       /\ timer_jiffies' = (timer_jiffies + 1) % Wrap /\ Batch = {}
       /\ Batch' = {n \in Nodes : Due[n] = timer_jiffies}
       /\ Due' = [n \in Nodes |-> IF Due[n] = timer_jiffies THEN NoRun ELSE Due[n]]
       /\ UNCHANGED expires
  /\ Timer!Restart <=>
       /\ Due = [n \in Nodes |-> NoRun] /\ timer_jiffies' \in Ticks
       /\ UNCHANGED <<expires, Due, Batch>>
  /\ Timer!DisarmAll <=>
       /\ Due' = [n \in Nodes |-> NoRun] /\ UNCHANGED <<timer_jiffies, expires, Batch>>
  /\ \A n : Timer!Fire(n) <=>
       /\ n \in Batch /\ Batch' = Batch \ {n} /\ UNCHANGED <<timer_jiffies, expires, Due>>
  /\ \A n : Timer!Disarm(n) <=>
       /\ expires' \in {expires, [expires EXCEPT ![n] = 0]}
       /\ UNCHANGED timer_jiffies
       /\ Batch' = Batch \ {n} /\ Due' = [Due EXCEPT ![n] = NoRun]
  /\ \A n, t : Timer!Arm(n, t) <=>
       /\ expires' = [expires EXCEPT ![n] = t] /\ UNCHANGED timer_jiffies
       /\ Batch' = Batch \ {n}
       /\ Due' = [Due EXCEPT ![n] = IF Timer!Past(t) THEN timer_jiffies ELSE t]
  /\ UNCHANGED Timer!vars <=> UNCHANGED <<timer_jiffies, expires, Due, Batch>>
BY DEF Timer!Advance, Timer!Restart, Timer!DisarmAll, Timer!Fire, Timer!Disarm, Timer!Arm,
       Timer!vars, Timer!Ticks, Ticks, Due, Batch

\* The timer steps with the wheel or stutters.
LEMMA NextTimer ==
  ASSUME IInv, BlockAhead, [Next]_vars
  PROVE  [Timer!Next]_(Timer!vars)
<1>1. TypeOK /\ timer_jiffies \in Ticks /\ at \in [Nodes -> Places]
      /\ expires \in [Nodes -> Ticks]
  BY DEF IInv, TypeOK, Places
<1>2. ASSUME UNCHANGED <<at, expires, timer_jiffies>>
      PROVE  UNCHANGED Timer!vars
  BY <1>2, SameStep, TimerActions
<1>3. ASSUME NEW n \in Nodes, NodeInit(n)  PROVE Timer!Disarm(n)
  <2>2. Due' = [Due EXCEPT ![n] = NoRun] /\ Batch' = Batch \ {n}
    BY <1>1, <1>3, UnlinkStep DEF NodeInit
  <2> QED  BY <1>1, <1>3, <2>2, TimerActions DEF NodeInit
<1>4. ASSUME NEW n \in Nodes, NodeDestroy(n)  PROVE Timer!Disarm(n)
  <2>1. Due' = [Due EXCEPT ![n] = NoRun] /\ Batch' = Batch \ {n}
    BY <1>1, <1>4, UnlinkStep DEF NodeDestroy
  <2> QED  BY <1>1, <1>4, <2>1, TimerActions DEF NodeDestroy
<1>5. ASSUME NEW n \in Nodes, NodeDel(n)  PROVE Timer!Disarm(n)
  <2>1. Due' = [Due EXCEPT ![n] = NoRun] /\ Batch' = Batch \ {n}
    BY <1>1, <1>5, UnlinkStep DEF NodeDel
  <2> QED  BY <1>1, <1>5, <2>1, TimerActions DEF NodeDel
<1>6. ASSUME NEW n \in Nodes, Fire(n)  PROVE Timer!Fire(n)
  <2>1. Due' = [Due EXCEPT ![n] = NoRun] /\ Batch' = Batch \ {n}
    BY <1>1, <1>6, UnlinkStep DEF Fire
  <2>2. Due[n] = NoRun  BY <1>6, UnlinkedIs, NodeByNode DEF Fire, Due
  <2>3. Due' = Due  BY <2>1, <2>2 DEF Due
  <2>4. n \in Batch  BY <1>6 DEF Fire, Batch
  <2> QED  BY <1>6, <2>1, <2>3, <2>4, TimerActions DEF Fire
<1>7. ASSUME NEW n \in Nodes, NEW d \in Deltas,
             NodeAdd(n, U32(timer_jiffies + d))
      PROVE  \E t \in Timer!Ticks : Timer!Arm(n, t)
  <2>1. PICK e \in Ticks : e = U32(timer_jiffies + d)
    <3>1. timer_jiffies + d \in Int  BY <1>1, SizeAssumption, TicksInt
    <3> QED  BY <3>1, U32Type
  <2>2. /\ expires' = [expires EXCEPT ![n] = e] /\ at' = [at EXCEPT ![n] = ListOf(e)]
        /\ timer_jiffies' = timer_jiffies
    BY <1>7, <2>1 DEF NodeAdd
  <2>3. Timer!Past(e) <=> Negative(e - timer_jiffies)
    BY DEF Timer!Past, Negative, U32
  <2>4. ASSUME NEW m \in Nodes
        PROVE  DueOf(m)' = IF m # n THEN DueOf(m)
                           ELSE IF Timer!Past(e) THEN timer_jiffies ELSE e
    BY <1>1, <2>1, <2>2, <2>3, ListOfDue, NodeByNode, NextNodes
  <2>5. Due' = [m \in Nodes |-> DueOf(m)']  BY DEF Due
  <2>6. Due' = [Due EXCEPT ![n] = IF Timer!Past(e) THEN timer_jiffies ELSE e]
    BY <2>4, <2>5 DEF Due
  <2>7. ListOf(e) # Queued  BY <1>1, <2>1, ListOfType, PlacesDistinct
  <2>8. Batch' = Batch \ {n}  BY <1>1, <2>2, <2>7 DEF Batch
  <2>9. Timer!Arm(n, e)  BY <2>2, <2>6, <2>8, TimerActions
  <2> QED  BY <2>1, <2>9 DEF Timer!Ticks, Ticks
<1>8. ASSUME CoreDestroy  PROVE Timer!DisarmAll
  <2>1. \A m \in Nodes : at[m] # Queued  BY <1>8 DEF CoreDestroy, IInv
  <2>2. \A m \in Nodes : at'[m] = Nowhere  BY <1>1, <1>8, <2>1 DEF CoreDestroy, Places
  <2>3. \A m \in Nodes : DueOf(m)' = NoRun  BY <2>2, UnlinkedIs, NextNodes
  <2>4. Due' = [m \in Nodes |-> NoRun]  BY <2>3 DEF Due
  <2>5. Batch' = Batch  BY <2>1, <2>2, PlacesDistinct DEF Batch
  <2> QED  BY <1>8, <2>4, <2>5, TimerActions DEF CoreDestroy
<1>9. ASSUME NEW j \in Starts, CoreInit(j)  PROVE Timer!Restart
  <2>1. \A m \in Nodes : at[m] = Nowhere  BY <1>9, NotLinked DEF CoreInit
  <2>2. \A m \in Nodes : DueOf(m) = NoRun  BY <2>1, UnlinkedIs, NodeByNode
  <2>3. \A m \in Nodes : DueOf(m)' = NoRun  BY <1>9, <2>1, UnlinkedIs, NextNodes DEF CoreInit
  <2>4. Due = [m \in Nodes |-> NoRun] /\ Due' = Due  BY <2>2, <2>3 DEF Due
  <2>5. Batch' = Batch  BY <1>9 DEF Batch, CoreInit
  <2>6. timer_jiffies' \in Ticks  BY <1>9, SizeAssumption DEF CoreInit
  <2> QED  BY <1>9, <2>4, <2>5, <2>6, TimerActions DEF CoreInit
<1>10. ASSUME Tick  PROVE Timer!Advance
  <2>1. /\ timer_jiffies' = U32(timer_jiffies + 1)
        /\ \A n \in Nodes : at[n] # Queued
        /\ \A n \in Nodes :
             /\ at'[n] = Queued <=> DueOf(n) = timer_jiffies
             /\ at'[n] = Queued => DueAt(at'[n], expires'[n], timer_jiffies') = NoRun
             /\ at'[n] # Queued => DueAt(at'[n], expires'[n], timer_jiffies') = DueOf(n)
    BY <1>10, TickIs
  <2>2. Batch = {}  BY <2>1 DEF Batch
  <2>3. Batch' = {n \in Nodes : Due[n] = timer_jiffies}  BY <2>1 DEF Batch, Due
  <2>4. \A n \in Nodes : DueOf(n)' = IF DueOf(n) = timer_jiffies THEN NoRun ELSE DueOf(n)
    BY <2>1, NextNodes
  <2>5. Due' = [n \in Nodes |-> IF Due[n] = timer_jiffies THEN NoRun ELSE Due[n]]
    BY <2>4 DEF Due
  <2> QED  BY <1>10, <2>1, <2>2, <2>3, <2>5, TimerActions DEF Tick, U32
<1>11. ASSUME NEW d \in RunAheads, CoreRun(U32(timer_jiffies + d))
       PROVE  UNCHANGED Timer!vars
  BY <1>2, <1>11 DEF CoreRun
<1>12. ASSUME Return \/ RunDone \/ UNCHANGED vars
       PROVE  UNCHANGED Timer!vars
  BY <1>2, <1>12 DEF Return, RunDone, vars
<1>13. Timer!Next \/ UNCHANGED Timer!vars
  BY <1>3, <1>4, <1>5, <1>6, <1>7, <1>8, <1>9, <1>10, <1>11, <1>12
  DEF Next, Running, Timer!Next
<1> QED  BY <1>13

\* Through any sequence of additions, deletions and cascades every node fires at
\* its own tick, an overdue one at the next, and none is lost, around the wrap of
\* the counter: the wheel implements the timer, for any number of nodes and any
\* sizes of the vectors.
THEOREM WheelImplementsTimer == Spec => ImplementsTimer
<1>1. Init => IInv /\ BlockAhead  BY InitIInv, InitAhead
<1>2. IInv /\ BlockAhead /\ [Next]_vars => IInv' /\ BlockAhead'  BY NextIInv, NextAhead
<1>3. IInv /\ BlockAhead /\ [Next]_vars => [Timer!Next]_(Timer!vars)  BY NextTimer
<1> QED  BY InitTimer, <1>1, <1>2, <1>3, PTL DEF Spec, ImplementsTimer, Timer!Spec
==============================================================================
