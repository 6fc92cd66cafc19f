---------------------------- MODULE SwarmProofs ----------------------------
(***************************************************************************)
(* Facts about the values of Swarm and Load that the proofs about the      *)
(* request handler cite: machine arithmetic, the maps of a torrent, what   *)
(* the clearing timer and the clock do to them.                            *)
(***************************************************************************)
EXTENDS Load, FiniteSetTheorems, TLAPS

-----------------------------------------------------------------------------
(* Machine integers *)

\* Euclid's division, as the solver knows it.
LEMMA Division ==
  ASSUME NEW a \in Int, NEW m \in Nat \ {0}
  PROVE  /\ a % m \in 0 .. m - 1
         /\ a \div m \in Int
         /\ a = m * (a \div m) + (a % m)
  OBVIOUS

\* The remainder of a division is the only one.
LEMMA Remainder ==
  ASSUME NEW m \in Nat \ {0}, NEW q \in Int, NEW r \in 0 .. m - 1
  PROVE  (m * q + r) % m = r
  OBVIOUS

\* Whole turns of a counter do not show.
LEMMA WholeTurns ==
  ASSUME NEW a \in Int, NEW q \in Int, NEW m \in Nat \ {0}
  PROVE  (m * q + a) % m = a % m
<1> DEFINE p == a \div m
           r == a % m
<1>1. p \in Int /\ r \in 0 .. m - 1 /\ a = m * p + r
  BY Division
<1>2. m * q + a = m * (q + p) + r
  <2> HIDE DEF p, r
  <2> QED BY <1>1
<1>3. (m * (q + p) + r) % m = r
  <2> HIDE DEF p, r
  <2> QED BY <1>1, Remainder
<1> QED BY <1>2, <1>3

\* A sum may be reduced before the last addition: counters that wrap add up.
LEMMA ReducedSum ==
  ASSUME NEW a \in Int, NEW b \in Int, NEW m \in Nat \ {0}
  PROVE  ((a % m) + b) % m = (a + b) % m
<1> DEFINE q == a \div m
           r == a % m
<1>1. q \in Int /\ r \in Int /\ a = m * q + r
  BY Division
<1>2. a + b = m * q + (r + b) /\ r + b \in Int
  <2> HIDE DEF q, r
  <2> QED BY <1>1
<1>3. (m * q + (r + b)) % m = (r + b) % m
  <2> HIDE DEF q, r
  <2> QED BY <1>1, <1>2, WholeTurns
<1> QED BY <1>2, <1>3

\* unsigned long and unsigned int keep their width.
LEMMA Widths ==
  ASSUME NEW n \in Int
  PROVE  /\ Long(n) \in 0 .. LongMod - 1
         /\ UInt(n) \in 0 .. IntMod - 1
  BY SwarmAssumption, Division DEF Long, UInt

\* So does a difference of two of them.
LEMMA DifferenceWidth ==
  ASSUME NEW a \in Int, NEW b \in Int
  PROVE  LongMinus(a, b) \in 0 .. LongMod - 1
<1>1. a + LongMod - b \in Int
  BY SwarmAssumption
<1> QED BY <1>1, SwarmAssumption, Division DEF LongMinus

\* A counter that counts one more wraps as the number it counts does.
LEMMA OneMore ==
  ASSUME NEW n \in Int
  PROVE  Long(Long(n) + 1) = Long(n + 1)
<1> DEFINE one == 1
<1>1. one \in Int
  OBVIOUS
<1>2. ((n % LongMod) + one) % LongMod = (n + one) % LongMod
  <2> HIDE DEF one
  <2> QED BY <1>1, SwarmAssumption, ReducedSum
<1> QED BY <1>2 DEF Long

\* Taking away a count: the counter wraps as the number it counts does.
LEMMA CountLess ==
  ASSUME NEW n \in Int, NEW k \in Int
  PROVE  LongMinus(Long(n), Long(k)) = Long(n - k)
<1> DEFINE q == k \div LongMod
           r == k % LongMod
<1>1. q \in Int /\ r \in Int /\ k = LongMod * q + r
  BY SwarmAssumption, Division
<1>2. (Long(n) + (LongMod - r)) % LongMod = (n + (LongMod - r)) % LongMod
  <2>1. LongMod - r \in Int
    <3> HIDE DEF q, r
    <3> QED BY <1>1, SwarmAssumption
  <2> HIDE DEF q, r
  <2> QED BY <2>1, SwarmAssumption, ReducedSum DEF Long
<1>3. Long(n) + LongMod - r = Long(n) + (LongMod - r)
  <2> HIDE DEF q, r
  <2> QED BY <1>1, SwarmAssumption, Widths
<1>4. /\ q + 1 \in Int /\ n - k \in Int
      /\ n + (LongMod - r) = LongMod * (q + 1) + (n - k)
  <2> HIDE DEF q, r
  <2> QED BY <1>1, SwarmAssumption
<1>5. (LongMod * (q + 1) + (n - k)) % LongMod = (n - k) % LongMod
  <2> HIDE DEF q, r
  <2> QED BY <1>4, SwarmAssumption, WholeTurns
<1> QED BY <1>2, <1>3, <1>4, <1>5 DEF Long, LongMinus

\* A number cut to an unsigned long and then to an unsigned int, whose width
\* divides the other's, is the number cut to an unsigned int.
LEMMA Narrowed ==
  ASSUME NEW a \in Int
  PROVE  UInt(Long(a)) = UInt(a)
<1> DEFINE k == LongMod \div IntMod
           q == a \div LongMod
           r == a % LongMod
<1>1. k \in Int /\ LongMod = IntMod * k
  BY SwarmAssumption, Division
<1>2. q \in Int /\ r \in Int /\ a = LongMod * q + r
  BY SwarmAssumption, Division
<1>3. k * q \in Int /\ a = IntMod * (k * q) + r
  <2> HIDE DEF k, q, r
  <2> QED BY <1>1, <1>2, SwarmAssumption
<1>4. (IntMod * (k * q) + r) % IntMod = r % IntMod
  <2> DEFINE kq == k * q
  <2> HIDE DEF r, kq
  <2> QED BY <1>2, <1>3, SwarmAssumption, WholeTurns DEF kq
<1> QED BY <1>3, <1>4 DEF UInt, Long

-----------------------------------------------------------------------------
(* Maps and torrents *)

\* A torrent has its four fields and its four maps.
Shaped(tor) ==
  /\ DOMAIN tor = {"peers", "free", "snatches", "balance"}
  /\ DOMAIN tor.peers = Sides

\* What a typed torrent is, in parts.
LEMMA TorrentShaped ==
  ASSUME NEW P, NEW U, NEW tor, IsTorrent(tor, P, U)
  PROVE  /\ Shaped(tor)
         /\ \A s \in Sides : /\ DOMAIN tor.peers[s] \subseteq P
                             /\ \A id \in DOMAIN tor.peers[s] : tor.peers[s][id] \in PeerType(U)
         /\ tor.free \in {0, 50, 100}
         /\ tor.snatches \in 0 .. IntMod - 1
         /\ tor.balance \in 0 .. LongMod - 1
  BY DEF IsTorrent, Shaped

\* addPeer and an update of a peer change one entry of one map.
LEMMA SetPeerChanges ==
  ASSUME NEW tor, Shaped(tor), NEW side \in Sides, NEW id, NEW p
  PROVE  LET t == SetPeer(tor, side, id, p) IN
         /\ Shaped(t)
         /\ t.free = tor.free /\ t.snatches = tor.snatches /\ t.balance = tor.balance
         /\ \A s \in Sides \ {side} : t.peers[s] = tor.peers[s]
         /\ DOMAIN t.peers[side] = DOMAIN tor.peers[side] \cup {id}
         /\ t.peers[side][id] = p
         /\ \A i \in DOMAIN tor.peers[side] : i # id => t.peers[side][i] = tor.peers[side][i]
  BY DEF Shaped, SetPeer, Put

\* removePeer takes one entry out of one map.
LEMMA RemovePeerChanges ==
  ASSUME NEW tor, Shaped(tor), NEW side \in Sides, NEW id
  PROVE  LET t == RemovePeer(tor, side, id) IN
         /\ Shaped(t)
         /\ t.free = tor.free /\ t.snatches = tor.snatches /\ t.balance = tor.balance
         /\ \A s \in Sides \ {side} : t.peers[s] = tor.peers[s]
         /\ DOMAIN t.peers[side] = DOMAIN tor.peers[side] \ {id}
         /\ \A i \in DOMAIN tor.peers[side] : i # id => t.peers[side][i] = tor.peers[side][i]
  BY DEF Shaped, RemovePeer, Drop

\* The clearing timer takes out those that timed out.
LEMMA SweptChanges ==
  ASSUME NEW tor, Shaped(tor)
  PROVE  LET t == Swept(tor) IN
         /\ Shaped(t)
         /\ t.free = tor.free /\ t.snatches = tor.snatches /\ t.balance = tor.balance
         /\ \A s \in Sides :
              /\ DOMAIN t.peers[s] = DOMAIN tor.peers[s] \ Expired(tor, s)
              /\ \A id \in DOMAIN t.peers[s] : t.peers[s][id] = tor.peers[s][id]
  BY DEF Shaped, Swept, Drop

\* The clock moves the ages and nothing else.
LEMMA AgedChanges ==
  ASSUME NEW tor, Shaped(tor)
  PROVE  LET t == Aged(tor) IN
         /\ Shaped(t)
         /\ t.free = tor.free /\ t.snatches = tor.snatches /\ t.balance = tor.balance
         /\ \A s \in Sides :
              /\ DOMAIN t.peers[s] = DOMAIN tor.peers[s]
              /\ \A id \in DOMAIN t.peers[s] : t.peers[s][id] = PeerAged(tor.peers[s][id])
  BY DEF Shaped, Aged

\* A row tells the sizes of the maps and two counters.
LEMMA SameRow ==
  ASSUME NEW t, NEW tor, t.snatches = tor.snatches, t.balance = tor.balance,
         \A s \in Sides : DOMAIN t.peers[s] = DOMAIN tor.peers[s]
  PROVE  Row(t) = Row(tor)
<1>1. \A s \in Sides : Size(t, s) = Size(tor, s)
  BY DEF Size
<1> QED BY <1>1 DEF Row, Sides

\* A map of a torrent is finite if there are finitely many peer ids.
LEMMA EntriesFinite ==
  ASSUME NEW P, IsFiniteSet(P), NEW U, NEW tor, IsTorrent(tor, P, U)
  PROVE  Cardinality(Entries(tor)) \in Nat
<1>1. IsFiniteSet(Sides)
  <2>1. ASSUME NEW x, NEW y PROVE IsFiniteSet({x, y})
    <3>1. IsFiniteSet({x} \cup {y})
      BY FS_Singleton, FS_AddElement
    <3>2. {x, y} = {x} \cup {y}
      OBVIOUS
    <3> QED BY <3>1, <3>2
  <2>2. Sides = {"seeders", "seeders6"} \cup {"leechers", "leechers6"}
    BY DEF Sides
  <2> QED BY <2>1, <2>2, FS_Union
<1>2. IsFiniteSet(Sides \X P)
  BY <1>1, FS_Product
<1>3. Entries(tor) \in SUBSET (Sides \X P)
  BY TorrentShaped DEF Entries
<1> QED BY <1>2, <1>3, FS_Subset, FS_CardinalityType
=============================================================================
