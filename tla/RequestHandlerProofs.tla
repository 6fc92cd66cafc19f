------------------------ MODULE RequestHandlerProofs ------------------------
(***************************************************************************)
(* Proofs about RequestHandler: types, and the agreement between the maps  *)
(* in memory, the rows handed to the database and what clients announced.  *)
(***************************************************************************)
EXTENDS RequestHandler, SwarmProofs

-----------------------------------------------------------------------------
(* An announce, stage by stage *)

\* A peer is one of the constructor's if its owner is a user.
LEMMA NewPeerTyped ==
  ASSUME NEW r \in AnnounceRequest, NEW U, NEW user \in U, NEW p \in NewPeers(r, user)
  PROVE  p \in PeerType(U) /\ p.idle = 0
<1>1. r.downloaded \in Nat /\ r.uploaded \in Nat /\ r.left \in {0, 1} /\ r.ipv6 \in BOOLEAN
  BY DEF AnnounceRequest
<1>2. Long(r.downloaded) \in 0 .. LongMod - 1 /\ Long(r.uploaded) \in 0 .. LongMod - 1
  BY <1>1, Widths
<1>3. 0 \in Age
  BY SwarmAssumption DEF Age
<1>4. PICK c \in 0 .. IntMod - 1 :
        p = [user |-> user, totalDownloaded |-> Long(r.downloaded),
             totalUploaded |-> Long(r.uploaded), left |-> r.left, completed |-> r.left = 0,
             active |-> TRUE, idle |-> 0, corrupt |-> c, ipv6 |-> r.ipv6]
  BY DEF NewPeers
<1> QED BY <1>1, <1>2, <1>3, <1>4 DEF PeerType

\* The torrent t is tor but for the entries of the client that announces, who
\* loses none and gains them in the maps of its family only.
Evolved(t, tor, r) ==
  \A s \in Sides :
     /\ Has(tor, s, r.peer) => Has(t, s, r.peer)
     /\ Has(t, s, r.peer) => Has(tor, s, r.peer) \/ s \in {Seeders(r.ipv6), Leechers(r.ipv6)}
     /\ DOMAIN t.peers[s] \ {r.peer} = DOMAIN tor.peers[s] \ {r.peer}
     /\ \A id \in DOMAIN tor.peers[s] \ {r.peer} : t.peers[s][id] = tor.peers[s][id]

\* Stages can be put one after another.
LEMMA EvolvedTwice ==
  ASSUME NEW r, NEW t1, NEW t2, NEW t3, Evolved(t2, t1, r), Evolved(t3, t2, r)
  PROVE  Evolved(t3, t1, r)
  BY DEF Evolved

\* Putting in the entry of the client.
LEMMA EntryPut ==
  ASSUME NEW r \in AnnounceRequest, NEW tor, NEW U, IsTorrent(tor, PeerID, U),
         NEW side \in Sides, NEW p \in PeerType(U),
         Has(tor, side, r.peer) \/ side \in {Seeders(r.ipv6), Leechers(r.ipv6)}
  PROVE  LET t == SetPeer(tor, side, r.peer, p) IN
         /\ IsTorrent(t, PeerID, U) /\ Evolved(t, tor, r)
         /\ Has(t, side, r.peer) /\ t.peers[side][r.peer] = p
<1> DEFINE t == SetPeer(tor, side, r.peer, p)
<1>1. Shaped(tor) /\ r.peer \in PeerID
  BY TorrentShaped DEF AnnounceRequest
<1>2. /\ Shaped(t)
      /\ t.free = tor.free /\ t.snatches = tor.snatches /\ t.balance = tor.balance
      /\ \A s \in Sides \ {side} : t.peers[s] = tor.peers[s]
      /\ DOMAIN t.peers[side] = DOMAIN tor.peers[side] \cup {r.peer}
      /\ t.peers[side][r.peer] = p
      /\ \A i \in DOMAIN tor.peers[side] : i # r.peer => t.peers[side][i] = tor.peers[side][i]
  BY <1>1, SetPeerChanges
<1> HIDE DEF t
<1>3. IsTorrent(t, PeerID, U)
  BY <1>1, <1>2 DEF IsTorrent, Shaped
<1>4. Evolved(t, tor, r)
  BY <1>2 DEF Evolved, Has
<1> QED BY <1>2, <1>3, <1>4 DEF Has, t

\* Every side is one of the four.
LEMMA SidesOf ==
  ASSUME NEW ipv6 \in BOOLEAN
  PROVE  Seeders(ipv6) \in Sides /\ Leechers(ipv6) \in Sides /\ "leechers" \in Sides
  BY DEF Seeders, Leechers, Sides

\* The leecher's half leaves a client that downloads among the leechers.
LEMMA AfterLeecher ==
  ASSUME NEW r \in AnnounceRequest, NEW tor, IsTorrent(tor, PeerID, Owners), Owner(r) \in Owners,
         NEW t \in AsLeecher(tor, r)
  PROVE  /\ IsTorrent(t, PeerID, Owners) /\ Evolved(t, tor, r)
         /\ Downloading(r) => Has(t, Leechers(r.ipv6), r.peer)
<1> DEFINE side  == Leechers(r.ipv6)
           found == IF Has(tor, side, r.peer) THEN {tor} ELSE Joined(tor, side, r)
<1>1. side \in Sides /\ r.peer \in PeerID
  BY SidesOf DEF AnnounceRequest
<1>2. ASSUME NEW f \in found
      PROVE  IsTorrent(f, PeerID, Owners) /\ Evolved(f, tor, r) /\ Has(f, side, r.peer)
  <2>1. CASE Has(tor, side, r.peer)
    BY <2>1 DEF Evolved
  <2>2. CASE ~Has(tor, side, r.peer)
    <3>1. PICK p \in NewPeers(r, Owner(r)) : f = SetPeer(tor, side, r.peer, p)
      BY <2>2 DEF Joined
    <3>2. p \in PeerType(Owners)
      BY <3>1, NewPeerTyped
    <3> QED BY <3>1, <3>2, <1>1, EntryPut
  <2> QED BY <2>1, <2>2
<1>3. CASE ~Downloading(r)
  BY <1>3 DEF AsLeecher, Evolved
<1>4. CASE Downloading(r) /\ r.event # "completed"
  BY <1>4, <1>2 DEF AsLeecher
<1>5. CASE Downloading(r) /\ r.event = "completed"
  <2>1. PICK f \in found :
          t = [f EXCEPT !.peers[side][r.peer].completed = TRUE, !.snatches = UInt(@ + 1)]
    BY <1>5 DEF AsLeecher
  <2>2. IsTorrent(f, PeerID, Owners) /\ Evolved(f, tor, r) /\ Has(f, side, r.peer)
    BY <1>2
  <2>3. Shaped(f)
    BY <2>2, TorrentShaped
  <2>4. /\ Shaped(t)
        /\ t.free = f.free /\ t.snatches = UInt(f.snatches + 1) /\ t.balance = f.balance
        /\ \A s \in Sides \ {side} : t.peers[s] = f.peers[s]
        /\ t.peers[side] = [f.peers[side] EXCEPT ![r.peer].completed = TRUE]
    BY <2>1, <2>3, <1>1 DEF Shaped
  <2>5. f.peers[side][r.peer] \in PeerType(Owners)
    BY <2>2, <1>1, TorrentShaped DEF Has
  <2>6. [f.peers[side][r.peer] EXCEPT !.completed = TRUE] \in PeerType(Owners)
    BY <2>5 DEF PeerType
  <2>7. UInt(f.snatches + 1) \in 0 .. IntMod - 1
    <3>1. f.snatches \in 0 .. IntMod - 1
      BY <2>2, TorrentShaped
    <3> QED BY <3>1, SwarmAssumption, Widths
  <2>8. /\ DOMAIN t.peers[side] = DOMAIN f.peers[side]
        /\ t.peers[side][r.peer] = [f.peers[side][r.peer] EXCEPT !.completed = TRUE]
        /\ \A id \in DOMAIN f.peers[side] \ {r.peer} : t.peers[side][id] = f.peers[side][id]
    BY <2>2, <2>4 DEF Has
  <2> HIDE DEF side
  <2>9. IsTorrent(t, PeerID, Owners)
    BY <2>2, <2>4, <2>6, <2>7, <2>8, <1>1 DEF IsTorrent, Shaped
  <2>10. Evolved(t, f, r) /\ Has(t, side, r.peer)
    BY <2>2, <2>4, <2>8, <1>1 DEF Evolved, Has
  <2> QED BY <2>2, <2>9, <2>10, EvolvedTwice DEF side
<1> QED BY <1>3, <1>4, <1>5

\* The seeder's half leaves the client where the rest of the handler works.
LEMMA AfterSeeder ==
  ASSUME NEW r \in AnnounceRequest, NEW tor, IsTorrent(tor, PeerID, Owners), Owner(r) \in Owners,
         Downloading(r) => Has(tor, Leechers(r.ipv6), r.peer),
         NEW t \in IF r.left = 0 THEN AsSeeder(tor, r) ELSE {tor}
  PROVE  /\ SideUsed(tor, r) \in Sides
         /\ SideUsed(tor, r) \in {Leechers(r.ipv6), Seeders(r.ipv6), "leechers"}
         /\ IsTorrent(t, PeerID, Owners) /\ Evolved(t, tor, r)
         /\ Has(t, SideUsed(tor, r), r.peer)
<1> DEFINE side == SideUsed(tor, r)
<1>1. /\ side \in {Leechers(r.ipv6), Seeders(r.ipv6), "leechers"}
      /\ r.left = 0 /\ ~Has(tor, side, r.peer) => side = Seeders(r.ipv6)
      /\ r.left # 0 => side = Leechers(r.ipv6)
  BY DEF SideUsed
<1>2. side \in Sides /\ r.peer \in PeerID
  BY <1>1, SidesOf DEF AnnounceRequest
<1> HIDE DEF side
<1>3. CASE r.left # 0
  BY <1>1, <1>2, <1>3 DEF Downloading, Evolved, side
<1>4. CASE r.left = 0 /\ Has(tor, side, r.peer)
  <2>1. t = tor
    BY <1>4 DEF AsSeeder, side
  <2> QED BY <1>1, <1>2, <1>4, <2>1 DEF Evolved, side
<1>5. CASE r.left = 0 /\ ~Has(tor, side, r.peer)
  <2>1. t \in Joined(tor, side, r)
    BY <1>5 DEF AsSeeder, side
  <2>2. PICK p \in NewPeers(r, Owner(r)) : t = SetPeer(tor, side, r.peer, p)
    BY <2>1 DEF Joined
  <2>3. p \in PeerType(Owners)
    BY <2>2, NewPeerTyped
  <2>4. IsTorrent(t, PeerID, Owners) /\ Evolved(t, tor, r) /\ Has(t, side, r.peer)
    BY <2>2, <2>3, <1>1, <1>2, <1>5, EntryPut
  <2> QED BY <2>4, <1>1, <1>2 DEF side
<1> QED BY <1>3, <1>4, <1>5

\* A client that leaves is marked, and stays where it is for the moment.
LEMMA AfterParting ==
  ASSUME NEW r \in AnnounceRequest, NEW tor, IsTorrent(tor, PeerID, Owners),
         NEW side \in Sides, Has(tor, side, r.peer)
  PROVE  LET t == Parting(tor, side, r) IN
         /\ IsTorrent(t, PeerID, Owners) /\ Evolved(t, tor, r) /\ Has(t, side, r.peer)
         /\ r.event = "stopped" => ~t.peers[side][r.peer].active
<1> DEFINE t == Parting(tor, side, r)
<1>1. CASE r.event # "stopped"
  BY <1>1 DEF Parting, Evolved
<1>2. CASE r.event = "stopped"
  <2>1. t = [tor EXCEPT !.peers[side][r.peer].active = FALSE]
    BY <1>2 DEF Parting
  <2> HIDE DEF t
  <2>2. Shaped(tor)
    BY TorrentShaped
  <2>3. /\ Shaped(t)
        /\ t.free = tor.free /\ t.snatches = tor.snatches /\ t.balance = tor.balance
        /\ \A s \in Sides \ {side} : t.peers[s] = tor.peers[s]
        /\ t.peers[side] = [tor.peers[side] EXCEPT ![r.peer].active = FALSE]
    BY <2>1, <2>2 DEF Shaped
  <2>4. tor.peers[side][r.peer] \in PeerType(Owners)
    BY TorrentShaped DEF Has
  <2>5. /\ [tor.peers[side][r.peer] EXCEPT !.active = FALSE] \in PeerType(Owners)
        /\ ~[tor.peers[side][r.peer] EXCEPT !.active = FALSE].active
    BY <2>4 DEF PeerType
  <2>6. /\ DOMAIN t.peers[side] = DOMAIN tor.peers[side]
        /\ t.peers[side][r.peer] = [tor.peers[side][r.peer] EXCEPT !.active = FALSE]
        /\ \A id \in DOMAIN tor.peers[side] \ {r.peer} : t.peers[side][id] = tor.peers[side][id]
    BY <2>3 DEF Has
  <2>7. IsTorrent(t, PeerID, Owners)
    BY <2>2, <2>3, <2>5, <2>6 DEF IsTorrent, Shaped
  <2>8. Evolved(t, tor, r) /\ Has(t, side, r.peer)
    BY <2>3, <2>6 DEF Evolved, Has
  <2> QED BY <2>5, <2>6, <2>7, <2>8 DEF t
<1> QED BY <1>1, <1>2

\* updateStats refreshes the peer, and what it adds to the sums keeps its width.
LEMMA AfterStats ==
  ASSUME NEW r \in AnnounceRequest, NEW tor, IsTorrent(tor, PeerID, Owners),
         NEW side \in Sides, Has(tor, side, r.peer), NEW charged \in {0, 1}
  PROVE  LET done == Accounted(tor, side, r, charged)
             p    == done.tor.peers[side][r.peer]
         IN /\ IsTorrent(done.tor, PeerID, Owners) /\ Evolved(done.tor, tor, r)
            /\ Has(done.tor, side, r.peer) /\ p \in PeerType(Owners)
            /\ p.active = tor.peers[side][r.peer].active
            /\ Private => p.idle = 0
            /\ done.down \in Int /\ done.up \in Int
<1> DEFINE p    == tor.peers[side][r.peer]
           d    == Long(r.downloaded) * charged
           u    == Long(r.uploaded)
           d0   == p.totalDownloaded
           u0   == p.totalUploaded
           dd   == LongMinus(d, d0)
           du   == LongMinus(u, u0)
           q    == UpdatedStats(p, d, r)
           put  == SetPeer(tor, side, r.peer, q)
           sum  == Long(put.balance + LongMinus(Long(r.corrupt), Long(p.corrupt))
                                    + LongMinus(du, dd))
           t    == [put EXCEPT !.balance = sum]
<1>1. p \in PeerType(Owners)
  BY TorrentShaped DEF Has
<1>2. CASE ~Private
  BY <1>1, <1>2 DEF Accounted, Evolved
<1>3. CASE Private
  <2>1. Accounted(tor, side, r, charged) = [tor |-> t, down |-> UInt(dd), up |-> UInt(du)]
    BY <1>3 DEF Accounted
  <2>2. /\ r.downloaded \in Nat /\ r.uploaded \in Nat /\ r.corrupt \in Nat /\ r.left \in {0, 1}
        /\ p.totalDownloaded \in 0 .. LongMod - 1 /\ p.totalUploaded \in 0 .. LongMod - 1
        /\ p.corrupt \in 0 .. IntMod - 1
    BY <1>1 DEF AnnounceRequest, PeerType
  <2>3. /\ Long(r.downloaded) \in 0 .. LongMod - 1 /\ Long(r.uploaded) \in 0 .. LongMod - 1
        /\ UInt(r.corrupt) \in 0 .. IntMod - 1
        /\ Long(r.corrupt) \in 0 .. LongMod - 1 /\ Long(p.corrupt) \in 0 .. LongMod - 1
    BY <2>2, Widths
  <2>4. d \in 0 .. LongMod - 1
    BY <2>3, SwarmAssumption
  <2> HIDE DEF d
  <2>5. /\ q = [p EXCEPT !.totalDownloaded = d, !.totalUploaded = Long(r.uploaded),
                         !.left = r.left, !.corrupt = UInt(r.corrupt), !.idle = 0]
        /\ 0 \in Age
    BY SwarmAssumption DEF UpdatedStats, Age
  <2>6. q \in PeerType(Owners) /\ q.idle = 0 /\ q.active = p.active
    <3> HIDE DEF p, q
    <3> QED BY <1>1, <2>2, <2>3, <2>4, <2>5 DEF PeerType
  <2>7. dd \in 0 .. LongMod - 1 /\ du \in 0 .. LongMod - 1
    <3>1. d \in Int /\ d0 \in Int /\ u \in Int /\ u0 \in Int
      BY <2>2, <2>3, <2>4, SwarmAssumption
    <3> HIDE DEF u, d0, u0
    <3> QED BY <3>1, DifferenceWidth
  <2>8. /\ LongMinus(Long(r.corrupt), Long(p.corrupt)) \in 0 .. LongMod - 1
        /\ LongMinus(du, dd) \in 0 .. LongMod - 1
    <3> HIDE DEF dd, du
    <3> QED BY <2>3, <2>7, DifferenceWidth
  <2> HIDE DEF p, dd, du, q
  <2>9. /\ IsTorrent(put, PeerID, Owners) /\ Evolved(put, tor, r)
        /\ Has(put, side, r.peer) /\ put.peers[side][r.peer] = q
    BY <2>6, EntryPut
  <2> HIDE DEF put
  <2>10. Shaped(put) /\ put.balance \in 0 .. LongMod - 1
    BY <2>9, TorrentShaped
  <2>11. sum \in 0 .. LongMod - 1
    BY <2>8, <2>10, SwarmAssumption, Widths
  <2> HIDE DEF sum
  <2>12. /\ DOMAIN t = DOMAIN put /\ t.peers = put.peers /\ t.free = put.free
         /\ t.snatches = put.snatches /\ t.balance \in 0 .. LongMod - 1
    BY <2>10, <2>11 DEF Shaped
  <2> HIDE DEF t
  <2>13. IsTorrent(t, PeerID, Owners)
    BY <2>9, <2>12 DEF IsTorrent
  <2>14. Evolved(t, tor, r) /\ Has(t, side, r.peer) /\ t.peers[side][r.peer] = q
    BY <2>9, <2>12 DEF Evolved, Has
  <2>15. UInt(dd) \in Int /\ UInt(du) \in Int
    BY <2>7, SwarmAssumption, Widths
  <2> QED BY <2>1, <2>6, <2>13, <2>14, <2>15 DEF p
<1> QED BY <1>2, <1>3

\* A torrent without peers is one.
LEMMA NewTorrentTyped ==
  ASSUME NEW free \in {0, 50, 100}, NEW P, NEW U
  PROVE  /\ IsTorrent(NewTorrent(free), P, U)
         /\ \A s \in Sides : \A id : ~Has(NewTorrent(free), s, id)
<1>1. DOMAIN EmptyMap = {}
  BY DEF EmptyMap
<1>2. 0 \in 0 .. IntMod - 1 /\ 0 \in 0 .. LongMod - 1
  BY SwarmAssumption
<1> QED BY <1>1, <1>2 DEF NewTorrent, IsTorrent, Has

\* The map from which a client that stops is taken.
Deserted(r) == IF r.left # 0 THEN Leechers(r.ipv6) ELSE Seeders(r.ipv6)

\* Who is left when the handler is done.
LEMMA AfterDeparture ==
  ASSUME NEW r \in AnnounceRequest, NEW U, NEW tor, IsTorrent(tor, PeerID, U)
  PROVE  LET t == Departed(tor, r) IN
         /\ IsTorrent(t, PeerID, U)
         /\ \A s \in Sides :
              /\ DOMAIN t.peers[s] \ {r.peer} = DOMAIN tor.peers[s] \ {r.peer}
              /\ \A id \in DOMAIN t.peers[s] : t.peers[s][id] = tor.peers[s][id]
              /\ Has(t, s, r.peer) <=> /\ Has(tor, s, r.peer)
                                       /\ ~(r.event = "stopped" /\ s = Deserted(r))
                                       /\ ~(r.event = "completed" /\ s = Leechers(~r.ipv6))
<1> DEFINE t == Departed(tor, r)
           t1 == RemovePeer(tor, Deserted(r), r.peer)
           t2 == RemovePeer(tor, Leechers(~r.ipv6), r.peer)
<1>1. Shaped(tor)
  BY TorrentShaped
<1>2. Deserted(r) \in Sides /\ Leechers(~r.ipv6) \in Sides
  BY SidesOf DEF Deserted, AnnounceRequest
<1>3. CASE r.event \notin {"stopped", "completed"}
  BY <1>3 DEF Departed
<1>4. CASE r.event = "stopped"
  <2>1. t = t1
    BY <1>4 DEF Departed, Deserted
  <2>2. /\ Shaped(t1)
        /\ t1.free = tor.free /\ t1.snatches = tor.snatches /\ t1.balance = tor.balance
        /\ \A s \in Sides \ {Deserted(r)} : t1.peers[s] = tor.peers[s]
        /\ DOMAIN t1.peers[Deserted(r)] = DOMAIN tor.peers[Deserted(r)] \ {r.peer}
        /\ \A i \in DOMAIN tor.peers[Deserted(r)] :
             i # r.peer => t1.peers[Deserted(r)][i] = tor.peers[Deserted(r)][i]
    BY <1>1, <1>2, RemovePeerChanges
  <2> HIDE DEF t, t1
  <2>3. IsTorrent(t1, PeerID, U)
    BY <1>2, <2>2 DEF IsTorrent, Shaped
  <2> QED BY <1>2, <1>4, <2>1, <2>2, <2>3 DEF Has, t
<1>5. CASE r.event = "completed"
  <2>1. t = t2
    BY <1>5 DEF Departed
  <2>2. /\ Shaped(t2)
        /\ t2.free = tor.free /\ t2.snatches = tor.snatches /\ t2.balance = tor.balance
        /\ \A s \in Sides \ {Leechers(~r.ipv6)} : t2.peers[s] = tor.peers[s]
        /\ DOMAIN t2.peers[Leechers(~r.ipv6)] = DOMAIN tor.peers[Leechers(~r.ipv6)] \ {r.peer}
        /\ \A i \in DOMAIN tor.peers[Leechers(~r.ipv6)] :
             i # r.peer => t2.peers[Leechers(~r.ipv6)][i] = tor.peers[Leechers(~r.ipv6)][i]
    BY <1>1, <1>2, RemovePeerChanges
  <2> HIDE DEF t, t2
  <2>3. IsTorrent(t2, PeerID, U)
    BY <1>2, <2>2 DEF IsTorrent, Shaped
  <2> QED BY <1>2, <1>5, <2>1, <2>2, <2>3 DEF Has, t
<1> QED BY <1>3, <1>4, <1>5

\* The whole announce, as the invariants need it: `tor' is the torrent once the
\* peer is accounted for, `side' the map that holds the peer.
Outcome(r, tor, side) ==
  /\ IsTorrent(tor, PeerID, Owners) /\ Evolved(tor, TorrentAnnounced(r), r)
  /\ side \in Sides /\ side \in {Leechers(r.ipv6), Seeders(r.ipv6), "leechers"}
  /\ Has(tor, side, r.peer)
  /\ Downloading(r) => Has(tor, Leechers(r.ipv6), r.peer)
  /\ r.event = "stopped" => ~tor.peers[side][r.peer].active
  /\ Private => tor.peers[side][r.peer].idle = 0
  /\ torMap' = Put(torMap, r.hash, Departed(tor, r))
  /\ stats' = [peers    |-> PeersCounted(TorrentAnnounced(r), tor, r),
               torrents |-> TorrentsCounted(r.hash)]
  /\ peerRow' = IF Public THEN peerRow
                ELSE [peerRow EXCEPT ![<<r.hash, r.peer>>] =
                        IF tor.peers[side][r.peer].active THEN "active" ELSE "inactive"]
  /\ torrentRow' = IF Public THEN torrentRow ELSE Put(torrentRow, r.hash, Row(Departed(tor, r)))
  /\ tokenRow' \in [expired : BOOLEAN, due : BOOLEAN]
  /\ userRow' \in [UserRef -> Sums]

\* Who announces is a user, and the torrent announced is one.
LEMMA AnnounceTyped ==
  ASSUME TypeOK, NEW r \in Announces, Admitted(r)
  PROVE  /\ r \in AnnounceRequest /\ Owner(r) \in Owners
         /\ IsTorrent(TorrentAnnounced(r), PeerID, Owners)
<1>1. r \in AnnounceRequest
  BY RequestHandlerAssumption
<1>2. Owner(r) \in Owners
  BY DEF Owner, Owners, Admitted, TypeOK, UsersOK
<1>3. IsTorrent(TorrentAnnounced(r), PeerID, Owners)
  BY NewTorrentTyped DEF TorrentAnnounced, TypeOK, TorrentsOK
<1> QED BY <1>1, <1>2, <1>3

\* Every announce has an outcome.
LEMMA AnnounceOutcome ==
  ASSUME TypeOK, NEW r \in Announces, Announce(r)
  PROVE  \E tor : \E side \in Sides : Outcome(r, tor, side)
<1> DEFINE T == TorrentAnnounced(r)
<1>1. Admitted(r)
  BY DEF Announce
<1>2. r \in AnnounceRequest /\ Owner(r) \in Owners /\ IsTorrent(T, PeerID, Owners)
  BY <1>1, AnnounceTyped
<1>a. PICK leeching \in AsLeecher(T, r) :
        \E joined \in IF r.left = 0 THEN AsSeeder(leeching, r) ELSE {leeching} :
          Handled(r, leeching, joined)
  BY DEF Announce
<1>3. PICK joined \in IF r.left = 0 THEN AsSeeder(leeching, r) ELSE {leeching} :
        Handled(r, leeching, joined)
  BY <1>a
<1> DEFINE side   == SideUsed(leeching, r)
           first  == leeching.peers[Leechers(r.ipv6)][r.peer].user
           token  == Downloading(r) /\ Private /\ HasToken(first, r.hash)
           parted == Parting(joined, side, r)
           charged == Charged(joined, r, token)
           done   == Accounted(parted, side, r, charged)
           p      == done.tor.peers[side][r.peer]
<1>4. /\ IsTorrent(leeching, PeerID, Owners) /\ Evolved(leeching, T, r)
      /\ Downloading(r) => Has(leeching, Leechers(r.ipv6), r.peer)
  BY <1>2, AfterLeecher
<1>5. /\ side \in Sides /\ side \in {Leechers(r.ipv6), Seeders(r.ipv6), "leechers"}
      /\ IsTorrent(joined, PeerID, Owners) /\ Evolved(joined, leeching, r)
      /\ Has(joined, side, r.peer)
  BY <1>2, <1>3, <1>4, AfterSeeder
<1> HIDE DEF side
<1>6. /\ IsTorrent(parted, PeerID, Owners) /\ Evolved(parted, joined, r)
      /\ Has(parted, side, r.peer)
      /\ r.event = "stopped" => ~parted.peers[side][r.peer].active
  BY <1>2, <1>5, AfterParting
<1>7. charged \in {0, 1}
  BY DEF Charged
<1> HIDE DEF parted, charged
<1>8. /\ IsTorrent(done.tor, PeerID, Owners) /\ Evolved(done.tor, parted, r)
      /\ Has(done.tor, side, r.peer) /\ p \in PeerType(Owners)
      /\ p.active = parted.peers[side][r.peer].active
      /\ Private => p.idle = 0
      /\ done.down \in Int /\ done.up \in Int
  BY <1>2, <1>5, <1>6, <1>7, AfterStats
<1> HIDE DEF done
<1>9. Evolved(done.tor, T, r)
  BY <1>4, <1>5, <1>6, <1>8, EvolvedTwice
<1>10. Downloading(r) => Has(done.tor, Leechers(r.ipv6), r.peer)
  <2>1. Leechers(r.ipv6) \in Sides
    BY <1>2, SidesOf DEF AnnounceRequest
  <2> QED BY <2>1, <1>4, <1>5, <1>6, <1>8 DEF Evolved
<1>11. /\ torMap' = Put(torMap, r.hash, Departed(done.tor, r))
       /\ stats' = [peers    |-> PeersCounted(TorrentAnnounced(r), done.tor, r),
                    torrents |-> TorrentsCounted(r.hash)]
       /\ tokenRow' = IF ~token THEN tokenRow
                      ELSE [expired |-> users[first].tokens[r.hash] < TokenLife,
                            due |-> users[first].tokens[r.hash] >= TokenLife]
       /\ peerRow' = IF Public THEN peerRow
                     ELSE [peerRow EXCEPT ![<<r.hash, r.peer>>] =
                             IF p.active THEN "active" ELSE "inactive"]
       /\ userRow' = IF ~Private THEN userRow
                     ELSE [userRow EXCEPT ![p.user] =
                             [down |-> Long(userRow[p.user].down + done.down),
                              up |-> Long(userRow[p.user].up + done.up)]]
       /\ torrentRow' = IF Public THEN torrentRow
                        ELSE Put(torrentRow, r.hash, Row(Departed(done.tor, r)))
  BY <1>3 DEF Handled, side, done, parted, charged
<1>12. tokenRow' \in [expired : BOOLEAN, due : BOOLEAN]
  <2>1. CASE ~token
    BY <1>11, <2>1 DEF TypeOK, RowsOK
  <2>2. CASE token
    <3>1. leeching.peers[Leechers(r.ipv6)][r.peer] \in PeerType(Owners)
      <4>1. Leechers(r.ipv6) \in Sides
        BY <1>2, SidesOf DEF AnnounceRequest
      <4> QED BY <4>1, <2>2, <1>4, TorrentShaped DEF Has
    <3>2. first \in Owners
      BY <3>1 DEF PeerType
    <3>3. users[first].tokens[r.hash] \in 0 .. TokenLife
      BY <2>2, <3>2 DEF Owners, HasToken, TypeOK, UsersOK, IsUser
    <3> HIDE DEF first
    <3> QED BY <1>11, <2>2, <3>3, LoadAssumption
  <2> QED BY <2>1, <2>2
<1>13. userRow' \in [UserRef -> Sums]
  <2>1. CASE ~Private
    BY <1>11, <2>1 DEF TypeOK, RowsOK
  <2>2. CASE Private
    <3>1. p.user \in UserRef
      BY <1>8, <2>2 DEF PeerType, Owners, TypeOK, UsersOK
    <3>2. userRow \in [UserRef -> Sums]
      BY DEF TypeOK, RowsOK
    <3>3. userRow[p.user].down \in Int /\ userRow[p.user].up \in Int
      BY <3>1, <3>2, SwarmAssumption DEF Sums
    <3> HIDE DEF p
    <3>4. /\ Long(userRow[p.user].down + done.down) \in 0 .. LongMod - 1
          /\ Long(userRow[p.user].up + done.up) \in 0 .. LongMod - 1
      BY <3>3, <1>8, Widths
    <3> QED BY <1>11, <2>2, <3>1, <3>2, <3>4 DEF Sums
  <2> QED BY <2>1, <2>2
<1>14. Outcome(r, done.tor, side)
  <2> HIDE DEF T
  <2> QED BY <1>5, <1>6, <1>8, <1>9, <1>10, <1>11, <1>12, <1>13 DEF Outcome, T
<1> QED BY <1>5, <1>14
-----------------------------------------------------------------------------
(* Types *)

\* A range of addresses that wraps is made of addresses.
LEMMA RangeTyped ==
  ASSUME NEW from \in IP, NEW to \in IP
  PROVE  IPRange(from, to) \subseteq IP
<1> SUFFICES ASSUME NEW k \in 0 .. (to - from) % IPMod
             PROVE  (from + k) % IPMod \in IP
  BY DEF IPRange
<1>1. from + k \in Int /\ IPMod \in Nat \ {0}
  BY LoadAssumption DEF IP
<1> QED BY <1>1, Division DEF IP

\* The free flag of a torrent is a percentage.
LEMMA FreeTyped ==
  ASSUME NEW flag, NEW otherwise \in {0, 50, 100}
  PROVE  FreeOf(flag, otherwise) \in {0, 50, 100}
  BY DEF FreeOf

\* The torrents the tracker starts with are torrents without peers.
LEMMA LoadedTorrents ==
  ASSUME NEW site \in Databases, NEW answered, NEW U
  PROVE  LET tors == LoadTorrents(site, answered) IN
         /\ DOMAIN tors \subseteq InfoHash
         /\ Public => DOMAIN tors = {}
         /\ \A h \in DOMAIN tors : /\ IsTorrent(tors[h], PeerID, U)
                                   /\ \A s \in Sides : \A id : ~Has(tors[h], s, id)
<1> DEFINE tors == LoadTorrents(site, answered)
<1>1. CASE Public \/ "torrents" \notin answered
  BY <1>1 DEF LoadTorrents, EmptyMap
<1>2. CASE ~Public /\ "torrents" \in answered
  <2>1. tors = [h \in DOMAIN site.torrents |->
                  [NewTorrent(FreeOf(site.torrents[h].free, 0))
                     EXCEPT !.snatches = UInt(site.torrents[h].snatches),
                            !.balance = Long(site.torrents[h].balance)]]
    BY <1>2 DEF LoadTorrents
  <2>2. /\ DOMAIN site.torrents \subseteq InfoHash
        /\ \A h \in DOMAIN site.torrents :
             site.torrents[h] \in [free : {"0", "1", "2"}, snatches : Nat, balance : Nat]
    BY RequestHandlerAssumption DEF IsDatabase
  <2>3. ASSUME NEW h \in DOMAIN site.torrents
        PROVE  IsTorrent(tors[h], PeerID, U) /\ \A s \in Sides : \A id : ~Has(tors[h], s, id)
    <3> DEFINE new == NewTorrent(FreeOf(site.torrents[h].free, 0))
               n   == UInt(site.torrents[h].snatches)
               b   == Long(site.torrents[h].balance)
    <3>1. IsTorrent(new, PeerID, U) /\ \A s \in Sides : \A id : ~Has(new, s, id)
      BY FreeTyped, NewTorrentTyped
    <3>2. n \in 0 .. IntMod - 1 /\ b \in 0 .. LongMod - 1
      <4>1. site.torrents[h].snatches \in Nat /\ site.torrents[h].balance \in Nat
        BY <2>2
      <4> QED BY <4>1, Widths
    <3>3. tors[h] = [new EXCEPT !.snatches = n, !.balance = b]
      BY <2>1
    <3> HIDE DEF new, n, b, tors
    <3>4. Shaped(new)
      BY <3>1, TorrentShaped
    <3>5. /\ DOMAIN tors[h] = DOMAIN new /\ tors[h].peers = new.peers
          /\ tors[h].free = new.free /\ tors[h].snatches = n /\ tors[h].balance = b
      BY <3>3, <3>4 DEF Shaped
    <3> QED BY <3>1, <3>2, <3>5 DEF IsTorrent, Has
  <2>4. DOMAIN tors = DOMAIN site.torrents
    BY <2>1
  <2> HIDE DEF tors
  <2> QED BY <1>2, <2>2, <2>3, <2>4 DEF tors
<1> QED BY <1>1, <1>2

\* Passkeys lead to users that were loaded, each to another one.
LEMMA LoadedUsers ==
  ASSUME NEW site \in Databases, NEW answered
  PROVE  LET keys == LoadPasskeys(site, answered)
             objects == LoadUsers(site, answered)
         IN /\ DOMAIN keys \subseteq Passkey /\ DOMAIN objects \subseteq UserRef
            /\ \A k \in DOMAIN keys : keys[k] \in DOMAIN objects
            /\ \A k, l \in DOMAIN keys : keys[k] = keys[l] => k = l
            /\ \A u \in DOMAIN objects : IsUser(objects[u], InfoHash)
<1> DEFINE accounts == Accounts(site, answered)
           keys == LoadPasskeys(site, answered)
           objects == LoadUsers(site, answered)
           Loaded(a) == [authorized   |-> a.authorized,
                         tokens       |-> IF "tokens" \in answered THEN a.tokens ELSE EmptyMap,
                         restrictions |-> IF {"tokens", "restrictions"} \subseteq answered
                                          THEN a.restrictions ELSE {}]
           Account(u) == CHOOSE a \in {accounts[k] : k \in DOMAIN accounts} : a.user = u
<1>1. DOMAIN EmptyMap = {}
  BY DEF EmptyMap
<1>2. /\ DOMAIN accounts \subseteq Passkey
      /\ \A k \in DOMAIN accounts :
           /\ accounts[k].user \in UserRef /\ accounts[k].authorized \in BOOLEAN
           /\ accounts[k].restrictions \subseteq IP
           /\ DOMAIN accounts[k].tokens \subseteq InfoHash
           /\ \A h \in DOMAIN accounts[k].tokens : accounts[k].tokens[h] \in 0 .. TokenLife
           /\ \A l \in DOMAIN accounts : accounts[k].user = accounts[l].user => k = l
  BY <1>1, RequestHandlerAssumption DEF IsDatabase, Accounts
<1>3. /\ keys = [k \in DOMAIN accounts |-> accounts[k].user]
      /\ objects = [u \in {accounts[k].user : k \in DOMAIN accounts} |-> Loaded(Account(u))]
  BY DEF LoadPasskeys, LoadUsers
<1> HIDE DEF accounts, keys, objects
<1>4. ASSUME NEW u \in DOMAIN objects
      PROVE  IsUser(objects[u], InfoHash)
  <2>1. \E a \in {accounts[k] : k \in DOMAIN accounts} : a.user = u
    BY <1>3
  <2>2. Account(u) \in {accounts[k] : k \in DOMAIN accounts}
    BY <2>1
  <2>3. objects[u] = Loaded(Account(u))
    BY <1>3
  <2>4. PICK k \in DOMAIN accounts : Account(u) = accounts[k]
    BY <2>2
  <2>5. objects[u] = Loaded(accounts[k])
    BY <2>3, <2>4
  <2> QED BY <1>1, <1>2, <2>5 DEF IsUser
<1>5. /\ DOMAIN keys = DOMAIN accounts /\ \A k \in DOMAIN keys : keys[k] = accounts[k].user
      /\ DOMAIN objects = {accounts[k].user : k \in DOMAIN accounts}
  BY <1>3
<1> QED BY <1>2, <1>4, <1>5 DEF keys, objects

\* Who is kept out, as the tracker loads it.
LEMMA LoadedAccess ==
  ASSUME NEW site \in Databases, NEW answered
  PROVE  /\ LoadLeechStatus(site, answered) \in {"NORMAL", "FREELEECH"}
         /\ LoadBannedIPs(site, answered) \subseteq IP
         /\ LoadClientWhitelist(site, answered) \subseteq Prefix
         /\ LoadEnds(site, answered) \in BOOLEAN /\ CountsReset(answered) \in BOOLEAN
<1>1. /\ site.bans \subseteq IP \X IP /\ site.whitelist \subseteq Prefix
      /\ site.orphan \in BOOLEAN
  BY RequestHandlerAssumption DEF IsDatabase
<1>2. \A range \in site.bans : IPRange(range[1], range[2]) \subseteq IP
  BY <1>1, RangeTyped
<1> QED BY <1>1, <1>2
       DEF LoadLeechStatus, LoadBannedIPs, LoadClientWhitelist, LoadEnds, CountsReset

\* A set of torrents has a size.
LEMMA TorrentsFinite ==
  ASSUME NEW S, S \subseteq InfoHash
  PROVE  IsFiniteSet(S) /\ Cardinality(S) \in Nat
  BY RequestHandlerAssumption, FS_Subset, FS_CardinalityType

\* No traffic is traffic.
LEMMA NoTrafficTyped == NoTraffic \in Sums /\ Silent \in Said
  BY SwarmAssumption DEF NoTraffic, Sums, Silent, Said

\* The tracker starts with well formed maps.
LEMMA TypeInit == Init => TypeOK
<1> SUFFICES ASSUME Init PROVE TypeOK
  OBVIOUS
<1>1. PICK site \in Databases, answered \in Answered :
        /\ torMap = LoadTorrents(site, answered)
        /\ usrMap = LoadPasskeys(site, answered)
        /\ users = LoadUsers(site, answered)
        /\ leechStatus = LoadLeechStatus(site, answered)
        /\ bannedIPs = LoadBannedIPs(site, answered)
        /\ clientWhitelist = LoadClientWhitelist(site, answered)
        /\ up = ~LoadEnds(site, answered)
        /\ cleared = CountsReset(answered)
  BY DEF Init
<1>2. /\ DOMAIN torMap \subseteq InfoHash
      /\ \A h \in DOMAIN torMap : IsTorrent(torMap[h], PeerID, Owners)
  BY <1>1, LoadedTorrents
<1>3. stats \in [peers : 0 .. LongMod - 1, torrents : 0 .. LongMod - 1]
  <2>1. Cardinality(DOMAIN torMap) \in Int
    BY <1>2, TorrentsFinite
  <2>2. Long(Cardinality(DOMAIN torMap)) \in 0 .. LongMod - 1
    BY <2>1, Widths
  <2> QED BY <2>2, SwarmAssumption DEF Init
<1>4. UsersOK
  BY <1>1, LoadedUsers DEF UsersOK
<1>5. AccessOK
  BY <1>1, LoadedAccess DEF AccessOK
<1>6. RowsOK
  BY <1>2, NoTrafficTyped DEF Init, RowsOK, NoToken
<1>7. HistoryOK
  BY NoTrafficTyped, SwarmAssumption DEF Init, HistoryOK, Age
<1> QED BY <1>2, <1>3, <1>4, <1>5, <1>6, <1>7 DEF TypeOK, TorrentsOK

\* So does a tracker that is started again.
LEMMA TypeRestart ==
  ASSUME TypeOK, NEW site \in Databases, NEW answered \in Answered, Restart(site, answered)
  PROVE  TypeOK'
<1>2. /\ DOMAIN torMap' \subseteq InfoHash
      /\ \A h \in DOMAIN torMap' : IsTorrent(torMap'[h], PeerID, Owners')
  BY LoadedTorrents DEF Restart
<1>3. stats' \in [peers : 0 .. LongMod - 1, torrents : 0 .. LongMod - 1]
  <2>1. Cardinality(DOMAIN torMap') \in Int
    BY <1>2, TorrentsFinite
  <2>2. Long(Cardinality(DOMAIN torMap')) \in 0 .. LongMod - 1
    BY <2>1, Widths
  <2>3. stats' = [peers |-> 0, torrents |-> Long(Cardinality(DOMAIN torMap'))]
    BY DEF Restart
  <2> QED BY <2>2, <2>3, SwarmAssumption
<1>4. UsersOK'
  BY LoadedUsers DEF Restart, UsersOK
<1>5. AccessOK'
  BY LoadedAccess DEF Restart, AccessOK
<1>6. RowsOK'
  <2>1. DOMAIN torrentRow' = DOMAIN torMap'
    BY DEF Restart
  <2>2. peerRow' \in [Clients -> {"none", "active", "inactive"}]
    BY DEF Restart, PeersReset, TypeOK, RowsOK
  <2> QED BY <1>2, <2>1, <2>2 DEF Restart, TypeOK, RowsOK
<1>7. HistoryOK'
  <2>1. /\ seen' = [c \in Clients |-> Timeout + 1] /\ stopped' = {}
        /\ last' = [c \in Clients |-> Silent]
    BY DEF Restart
  <2>2. Timeout + 1 \in Age
    BY SwarmAssumption DEF Age
  <2> QED BY <2>1, <2>2, NoTrafficTyped DEF TypeOK, HistoryOK
<1> QED BY <1>2, <1>3, <1>4, <1>5, <1>6, <1>7 DEF TypeOK, TorrentsOK

\* An announce keeps the history typed.
LEMMA HistoryRemembered ==
  ASSUME TypeOK, NEW r \in Announces, Admitted(r), Remember(r)
  PROVE  HistoryOK'
<1> DEFINE c == <<r.hash, r.peer>>
           l == [user |-> Owner(r), ipv6 |-> r.ipv6, left |-> r.left,
                 down |-> r.downloaded, up |-> r.uploaded, free |-> Free(r)]
<1>1. /\ r \in AnnounceRequest /\ c \in Clients
      /\ Private => Owner(r) \in UserRef
  BY AnnounceTyped DEF AnnounceRequest, Clients, Owners, TypeOK, UsersOK
<1>2. seen' \in [Clients -> Age]
  BY <1>1, SwarmAssumption DEF Remember, TypeOK, HistoryOK, Age
<1>3. stopped' \subseteq Clients
  BY <1>1 DEF Remember, TypeOK, HistoryOK
<1>4. Free(r) \in BOOLEAN
  BY DEF Free
<1>5. Private => l \in Said
  BY <1>1, <1>4 DEF Said, AnnounceRequest
<1>6. last' = IF ~Private THEN last
              ELSE [last EXCEPT ![c] =
                      IF r.event = "stopped" \/ (Known(r) /\ ~Steady(r)) THEN Silent ELSE l]
  BY DEF Remember
<1> HIDE DEF l, c
<1>7. last' \in [Clients -> Said]
  BY <1>1, <1>5, <1>6, NoTrafficTyped DEF TypeOK, HistoryOK
<1> QED BY <1>2, <1>3, <1>7 DEF HistoryOK

\* An announce keeps every map well formed.
LEMMA TypeAnnounce ==
  ASSUME TypeOK, NEW r \in Announces, Announce(r)
  PROVE  TypeOK'
<1>1. /\ Admitted(r) /\ Remember(r)
      /\ UNCHANGED <<usrMap, users, access, up, cleared>>
  BY DEF Announce
<1>a. PICK tor : \E side \in Sides : Outcome(r, tor, side)
  BY AnnounceOutcome
<1>2. PICK side \in Sides : Outcome(r, tor, side)
  BY <1>a
<1>3. /\ r.hash \in InfoHash /\ r.peer \in PeerID
      /\ IsTorrent(TorrentAnnounced(r), PeerID, Owners)
      /\ IsTorrent(Departed(tor, r), PeerID, Owners)
  BY <1>1, <1>2, AnnounceTyped, AfterDeparture DEF Outcome, AnnounceRequest
<1>4. Owners' = Owners
  BY <1>1 DEF Owners
<1>5. TorrentsOK'
  <2>1. /\ DOMAIN torMap' = DOMAIN torMap \cup {r.hash}
        /\ \A h \in DOMAIN torMap' : torMap'[h] = IF h = r.hash THEN Departed(tor, r) ELSE torMap[h]
    BY <1>2 DEF Outcome, Put
  <2>2. \A h \in DOMAIN torMap' : IsTorrent(torMap'[h], PeerID, Owners')
    BY <2>1, <1>3, <1>4 DEF TypeOK, TorrentsOK
  <2>3. PeersCounted(TorrentAnnounced(r), tor, r) \in 0 .. LongMod - 1
    <3> DEFINE a == Cardinality(Entries(tor))
               b == Cardinality(Entries(TorrentAnnounced(r)))
               e == IF r.event \in {"stopped", "completed"} THEN 1 ELSE 0
    <3>1. a \in Nat /\ b \in Nat
      BY <1>2, <1>3, EntriesFinite, RequestHandlerAssumption DEF Outcome
    <3>2. stats.peers \in Int
      BY SwarmAssumption DEF TypeOK, TorrentsOK
    <3>3. e \in Int
      OBVIOUS
    <3>4. PeersCounted(TorrentAnnounced(r), tor, r) = Long(stats.peers + a - b + LongMod - e)
      BY DEF PeersCounted
    <3> HIDE DEF a, b, e
    <3>5. stats.peers + a - b + LongMod - e \in Int
      BY <3>1, <3>2, <3>3, SwarmAssumption
    <3> QED BY <3>4, <3>5, Widths
  <2>4. TorrentsCounted(r.hash) \in 0 .. LongMod - 1
    <3>1. stats.torrents \in 0 .. LongMod - 1
      BY DEF TypeOK, TorrentsOK
    <3>2. Long(stats.torrents + 1) \in 0 .. LongMod - 1
      BY <3>1, SwarmAssumption, Widths
    <3> QED BY <3>1, <3>2 DEF TorrentsCounted
  <2>5. stats' \in [peers : 0 .. LongMod - 1, torrents : 0 .. LongMod - 1]
    BY <1>2, <2>3, <2>4 DEF Outcome
  <2> QED BY <1>3, <2>1, <2>2, <2>5 DEF TypeOK, TorrentsOK
<1>6. UsersOK' /\ AccessOK'
  BY <1>1 DEF TypeOK, UsersOK, AccessOK, access
<1>7. RowsOK'
  <2>1. DOMAIN torrentRow' \subseteq InfoHash
    BY <1>2, <1>3 DEF Outcome, Put, TypeOK, RowsOK
  <2>2. peerRow' \in [Clients -> {"none", "active", "inactive"}]
    BY <1>2 DEF Outcome, TypeOK, RowsOK
  <2> QED BY <1>2, <2>1, <2>2 DEF Outcome, RowsOK
<1>8. HistoryOK'
  BY <1>1, HistoryRemembered
<1> QED BY <1>5, <1>6, <1>7, <1>8 DEF TypeOK

\* A change of users that exist keeps every map well formed.
LEMMA TypeUserOnly ==
  ASSUME TypeOK, UserOnly, DOMAIN users' = DOMAIN users, up' \in BOOLEAN,
         \A u \in DOMAIN users : IsUser(users'[u], InfoHash)
  PROVE  TypeOK'
<1>1. /\ Owners' = Owners /\ UNCHANGED <<torMap, usrMap, stats, cleared>>
      /\ UNCHANGED <<leechStatus, bannedIPs, clientWhitelist>>
      /\ UNCHANGED <<torrentRow, peerRow, userRow, tokenRow>>
      /\ UNCHANGED <<seen, stopped, last>>
  BY DEF UserOnly, Owners, access, rows, history
<1>2. TorrentsOK'
  BY <1>1 DEF TypeOK, TorrentsOK
<1>3. UsersOK'
  BY <1>1 DEF TypeOK, UsersOK
<1>4. AccessOK' /\ RowsOK' /\ HistoryOK'
  BY <1>1 DEF TypeOK, AccessOK, RowsOK, HistoryOK
<1> QED BY <1>2, <1>3, <1>4 DEF TypeOK

\* The restrictions and tokens of a user stay what they are.
LEMMA TypeUserFields ==
  ASSUME TypeOK, NEW k \in Passkey,
         \/ \E ip \in IP : AddIPRestriction(k, ip) \/ RemoveIPRestriction(k, ip)
         \/ \E h \in InfoHash : AddToken(k, h) \/ RemoveToken(k, h)
  PROVE  TypeOK'
<1>1. UserOnly /\ up \in BOOLEAN
  BY DEF AddIPRestriction, RemoveIPRestriction, AddToken, RemoveToken, TypeOK, AccessOK
<1>2. CASE users' = users /\ up' = FALSE
  BY <1>1, <1>2, TypeUserOnly DEF TypeOK, UsersOK
<1>3. CASE k \in DOMAIN usrMap /\ up' = up
  <2> DEFINE u    == usrMap[k]
             user == users[u]
  <2>1. u \in DOMAIN users /\ IsUser(user, InfoHash)
    BY <1>3 DEF TypeOK, UsersOK
  <2>2. ASSUME NEW user2, IsUser(user2, InfoHash), users' = [users EXCEPT ![u] = user2]
        PROVE  TypeOK'
    <3> HIDE DEF u
    <3>1. DOMAIN users' = DOMAIN users /\ \A v \in DOMAIN users : IsUser(users'[v], InfoHash)
      BY <2>1, <2>2 DEF TypeOK, UsersOK
    <3> QED BY <1>1, <1>3, <3>1, TypeUserOnly
  <2>3. ASSUME NEW ip \in IP, AddIPRestriction(k, ip)
        PROVE  TypeOK'
    <3> DEFINE user2 == [user EXCEPT !.restrictions = @ \cup {ip}]
    <3>1. IsUser(user2, InfoHash)
      BY <2>1 DEF IsUser
    <3>2. users' = [users EXCEPT ![u] = user2]
      BY <2>3, <1>3 DEF AddIPRestriction, ChangeUser, TypeOK, AccessOK, Update
    <3> HIDE DEF user2, u
    <3> QED BY <3>1, <3>2, <2>2
  <2>4. ASSUME NEW ip \in IP, RemoveIPRestriction(k, ip)
        PROVE  TypeOK'
    <3> DEFINE user2 == [user EXCEPT !.restrictions = @ \ {ip}]
    <3>1. IsUser(user2, InfoHash)
      BY <2>1 DEF IsUser
    <3>2. users' = [users EXCEPT ![u] = user2]
      BY <2>4, <1>3 DEF RemoveIPRestriction, ChangeUser, TypeOK, AccessOK, Update
    <3> HIDE DEF user2, u
    <3> QED BY <3>1, <3>2, <2>2
  <2>5. ASSUME NEW h \in InfoHash, AddToken(k, h)
        PROVE  TypeOK'
    <3> DEFINE user2 == [user EXCEPT !.tokens = Put(@, h, 0)]
    <3>1. IsUser(user2, InfoHash)
      <4>1. 0 \in 0 .. TokenLife
        BY LoadAssumption
      <4> QED BY <2>1, <4>1 DEF IsUser, Put
    <3>2. users' = [users EXCEPT ![u] = user2]
      BY <2>5, <1>3 DEF AddToken, ChangeUser, TypeOK, AccessOK, Update
    <3> HIDE DEF user2, u
    <3> QED BY <3>1, <3>2, <2>2
  <2>6. ASSUME NEW h \in InfoHash, RemoveToken(k, h)
        PROVE  TypeOK'
    <3> DEFINE user2 == [user EXCEPT !.tokens = Drop(@, {h})]
    <3>1. IsUser(user2, InfoHash)
      BY <2>1 DEF IsUser, Drop
    <3>2. users' = [users EXCEPT ![u] = user2]
      BY <2>6, <1>3 DEF RemoveToken, ChangeUser, TypeOK, AccessOK, Update
    <3> HIDE DEF user2, u
    <3> QED BY <3>1, <3>2, <2>2
  <2> QED BY <2>3, <2>4, <2>5, <2>6
<1>4. \/ users' = users /\ up' = FALSE
      \/ k \in DOMAIN usrMap /\ up' = up
  BY DEF AddIPRestriction, RemoveIPRestriction, AddToken, RemoveToken, ChangeUser
<1> QED BY <1>2, <1>3, <1>4

\* Accounts come and go; no two passkeys ever lead to the same user.
LEMMA TypeAccounts ==
  ASSUME TypeOK,
         \/ \E old, new \in Passkey : ChangePasskey(old, new)
         \/ \E k \in Passkey, u \in UserRef : AddUser(k, u)
         \/ \E k \in Passkey, canLeech \in BOOLEAN : UpdateUser(k, canLeech)
         \/ \E ks \in SUBSET Passkey : RemoveUsers(ks)
  PROVE  TypeOK'
<1>1. /\ UNCHANGED <<torMap, stats, up, cleared>>
      /\ UNCHANGED <<leechStatus, bannedIPs, clientWhitelist>>
      /\ UNCHANGED <<torrentRow, peerRow, userRow, tokenRow>>
      /\ UNCHANGED <<seen, stopped, last>>
  BY DEF ChangePasskey, AddUser, UpdateUser, RemoveUsers, access, rows, history
<1>2. UsersOK
  BY DEF TypeOK
<1>3. UsersOK' /\ DOMAIN users \subseteq DOMAIN users'
  <2>1. ASSUME NEW old \in Passkey, NEW new \in Passkey, ChangePasskey(old, new)
        PROVE  UsersOK' /\ users' = users
    <3> DEFINE rest == Drop(usrMap, {old})
    <3>1. /\ users' = users /\ old \in DOMAIN usrMap
          /\ usrMap' = IF new \in DOMAIN rest THEN rest ELSE Put(rest, new, usrMap[old])
      BY <2>1 DEF ChangePasskey
    <3>2. /\ DOMAIN rest = DOMAIN usrMap \ {old}
          /\ \A k \in DOMAIN rest : rest[k] = usrMap[k]
      BY DEF Drop
    <3> HIDE DEF rest
    <3>3. CASE new \in DOMAIN rest
      BY <1>2, <3>1, <3>2, <3>3 DEF UsersOK
    <3>4. CASE new \notin DOMAIN rest
      <4>1. /\ DOMAIN usrMap' = DOMAIN rest \cup {new}
            /\ \A k \in DOMAIN usrMap' : usrMap'[k] = IF k = new THEN usrMap[old] ELSE rest[k]
        BY <3>1, <3>4 DEF Put
      <4> QED BY <1>2, <3>1, <3>2, <3>4, <4>1 DEF UsersOK
    <3> QED BY <3>3, <3>4
  <2>2. ASSUME NEW k \in Passkey, NEW u \in UserRef, AddUser(k, u)
        PROVE  UsersOK' /\ DOMAIN users \subseteq DOMAIN users'
    <3>1. /\ k \notin DOMAIN usrMap /\ u \notin DOMAIN users
          /\ DOMAIN usrMap' = DOMAIN usrMap \cup {k}
          /\ \A l \in DOMAIN usrMap' : usrMap'[l] = IF l = k THEN u ELSE usrMap[l]
          /\ DOMAIN users' = DOMAIN users \cup {u}
          /\ \A v \in DOMAIN users' : users'[v] = IF v = u THEN NewUser(TRUE) ELSE users[v]
      BY <2>2 DEF AddUser, Put
    <3>2. IsUser(NewUser(TRUE), InfoHash)
      BY DEF NewUser, IsUser, EmptyMap
    <3>3. \A l \in DOMAIN usrMap : usrMap'[l] = usrMap[l] /\ usrMap[l] \in DOMAIN users
      BY <1>2, <3>1 DEF UsersOK
    <3>4. \A l, m \in DOMAIN usrMap' : usrMap'[l] = usrMap'[m] => l = m
      BY <1>2, <3>1, <3>3 DEF UsersOK
    <3>5. \A v \in DOMAIN users' : IsUser(users'[v], InfoHash)
      BY <1>2, <3>1, <3>2 DEF UsersOK
    <3> QED BY <1>2, <3>1, <3>3, <3>4, <3>5 DEF UsersOK
  <2>3. ASSUME NEW k \in Passkey, NEW canLeech \in BOOLEAN, UpdateUser(k, canLeech)
        PROVE  UsersOK' /\ DOMAIN users' = DOMAIN users
    <3>1. /\ k \in DOMAIN usrMap /\ usrMap' = usrMap
          /\ users' = [users EXCEPT ![usrMap[k]].authorized = canLeech]
      BY <2>3 DEF UpdateUser
    <3>2. usrMap[k] \in DOMAIN users /\ IsUser(users[usrMap[k]], InfoHash)
      BY <1>2, <3>1 DEF UsersOK
    <3>3. IsUser([users[usrMap[k]] EXCEPT !.authorized = canLeech], InfoHash)
      BY <3>2 DEF IsUser
    <3>4. /\ DOMAIN users' = DOMAIN users
          /\ \A u \in DOMAIN users : users'[u] = IF u = usrMap[k]
               THEN [users[usrMap[k]] EXCEPT !.authorized = canLeech] ELSE users[u]
      BY <3>1, <3>2
    <3> QED BY <1>2, <3>1, <3>3, <3>4 DEF UsersOK
  <2>4. ASSUME NEW ks \in SUBSET Passkey, RemoveUsers(ks)
        PROVE  UsersOK' /\ users' = users
    BY <1>2, <2>4 DEF RemoveUsers, UsersOK, Drop
  <2> QED BY <2>1, <2>2, <2>3, <2>4
<1>4. TorrentsOK'
  <2>1. \A tor : IsTorrent(tor, PeerID, Owners) => IsTorrent(tor, PeerID, Owners')
    BY <1>3 DEF IsTorrent, PeerType, Owners
  <2> QED BY <1>1, <2>1 DEF TypeOK, TorrentsOK
<1>5. AccessOK' /\ RowsOK' /\ HistoryOK'
  BY <1>1 DEF TypeOK, AccessOK, RowsOK, HistoryOK
<1> QED BY <1>3, <1>4, <1>5 DEF TypeOK

\* What the site does to torrents keeps them well formed.
LEMMA TypeTorrents ==
  ASSUME TypeOK,
         \/ \E h \in InfoHash, free \in {"0", "1", "2"} : AddTorrent(h, free) \/ UpdateTorrent(h, free)
         \/ \E h \in InfoHash : DeleteTorrent(h)
  PROVE  TypeOK'
<1>1. /\ UNCHANGED <<usrMap, users, stats, up, cleared>>
      /\ UNCHANGED <<leechStatus, bannedIPs, clientWhitelist>>
      /\ UNCHANGED <<userRow, tokenRow, stopped>>
  BY DEF AddTorrent, UpdateTorrent, DeleteTorrent, access, rows, history
<1>2. /\ DOMAIN torMap \subseteq InfoHash
      /\ \A h \in DOMAIN torMap : IsTorrent(torMap[h], PeerID, Owners)
  BY DEF TypeOK, TorrentsOK
<1>3. /\ DOMAIN torrentRow \subseteq InfoHash
      /\ peerRow \in [Clients -> {"none", "active", "inactive"}]
      /\ seen \in [Clients -> Age] /\ last \in [Clients -> Said]
  BY DEF TypeOK, RowsOK, HistoryOK
<1>4. ASSUME NEW tor, IsTorrent(tor, PeerID, Owners), NEW free \in {0, 50, 100}
      PROVE  IsTorrent([tor EXCEPT !.free = free], PeerID, Owners)
  BY <1>4 DEF IsTorrent
<1>5. /\ DOMAIN torMap' \subseteq InfoHash
      /\ \A h \in DOMAIN torMap' : IsTorrent(torMap'[h], PeerID, Owners)
      /\ DOMAIN torrentRow' \subseteq InfoHash
      /\ peerRow' \in [Clients -> {"none", "active", "inactive"}]
      /\ seen' \in [Clients -> Age] /\ last' \in [Clients -> Said]
  <2>1. ASSUME NEW h \in InfoHash, NEW flag \in {"0", "1", "2"}, AddTorrent(h, flag)
        PROVE  <1>5!:
    <3> DEFINE tor  == TorrentAnnounced([hash |-> h])
               free == FreeOf(flag, tor.free)
    <3>1. IsTorrent(tor, PeerID, Owners)
      BY <1>2, NewTorrentTyped DEF TorrentAnnounced
    <3>2. free \in {0, 50, 100}
      BY <3>1, FreeTyped, TorrentShaped
    <3>3. /\ torMap' = Put(torMap, h, [tor EXCEPT !.free = free])
          /\ torrentRow' = IF h \in DOMAIN torMap THEN torrentRow
                           ELSE Put(torrentRow, h, Row(NewTorrent(0)))
          /\ UNCHANGED <<peerRow, seen, last>>
      BY <2>1 DEF AddTorrent, history
    <3> HIDE DEF tor, free
    <3>4. IsTorrent([tor EXCEPT !.free = free], PeerID, Owners)
      BY <3>1, <3>2, <1>4
    <3> QED BY <1>2, <1>3, <3>3, <3>4 DEF Put
  <2>2. ASSUME NEW h \in InfoHash, NEW flag \in {"0", "1", "2"}, UpdateTorrent(h, flag)
        PROVE  <1>5!:
    <3> DEFINE free == FreeOf(flag, 0)
    <3>1. free \in {0, 50, 100}
      BY FreeTyped
    <3>2. /\ h \in DOMAIN torMap /\ torMap' = [torMap EXCEPT ![h].free = free]
          /\ UNCHANGED <<torrentRow, peerRow, seen, last>>
      BY <2>2 DEF UpdateTorrent, rows, history
    <3> HIDE DEF free
    <3>3. IsTorrent([torMap[h] EXCEPT !.free = free], PeerID, Owners)
      BY <3>1, <3>2, <1>2, <1>4
    <3> QED BY <1>2, <1>3, <3>2, <3>3
  <2>3. ASSUME NEW h \in InfoHash, DeleteTorrent(h)
        PROVE  <1>5!:
    <3>1. /\ torMap' = Drop(torMap, {h}) /\ torrentRow' = Drop(torrentRow, {h})
          /\ peerRow' = peerRow
          /\ last' = [c \in Clients |-> IF c[1] = h THEN Silent ELSE last[c]]
          /\ seen' = [c \in Clients |-> IF c[1] = h THEN Timeout + 1 ELSE seen[c]]
      BY <2>3 DEF DeleteTorrent
    <3>2. Timeout + 1 \in Age
      BY SwarmAssumption DEF Age
    <3> QED BY <1>2, <1>3, <3>1, <3>2, NoTrafficTyped DEF Drop
  <2> QED BY <2>1, <2>2, <2>3
<1>6. TorrentsOK' /\ UsersOK'
  BY <1>1, <1>5 DEF TypeOK, TorrentsOK, UsersOK, Owners
<1>7. AccessOK' /\ RowsOK' /\ HistoryOK'
  BY <1>1, <1>5 DEF TypeOK, AccessOK, RowsOK, HistoryOK
<1> QED BY <1>6, <1>7 DEF TypeOK

\* What the site does to the lists of who is kept out keeps them well formed.
LEMMA TypeAccess ==
  ASSUME TypeOK,
         \/ \E from, to \in IP : \/ Ban("add_ban", IPRange(from, to))
                                 \/ Ban("remove_ban", IPRange(from, to))
         \/ \E p, q \in Prefix : \/ Whitelist("add_whitelist", {}, {p})
                                 \/ Whitelist("edit_whitelist", {p}, {q})
                                 \/ Whitelist("remove_whitelist", {p}, {})
         \/ \E status \in {"NORMAL", "FREELEECH"} : SetLeechStatus(status)
  PROVE  TypeOK'
<1>1. /\ UNCHANGED <<torMap, usrMap, users, stats, up, cleared>>
      /\ UNCHANGED <<torrentRow, peerRow, userRow, tokenRow>>
      /\ UNCHANGED <<seen, stopped, last>>
  BY DEF Ban, Whitelist, SetLeechStatus, memory, rows, history
<1>2. /\ leechStatus \in {"NORMAL", "FREELEECH"}
      /\ bannedIPs \subseteq IP /\ clientWhitelist \subseteq Prefix
  BY DEF TypeOK, AccessOK
<1>3. /\ leechStatus' \in {"NORMAL", "FREELEECH"}
      /\ bannedIPs' \subseteq IP /\ clientWhitelist' \subseteq Prefix
  <2>1. ASSUME NEW from \in IP, NEW to \in IP, NEW type, Ban(type, IPRange(from, to))
        PROVE  <1>3!:
    BY <1>2, <2>1, RangeTyped DEF Ban
  <2>2. ASSUME NEW old \in SUBSET Prefix, NEW new \in SUBSET Prefix, NEW type,
               Whitelist(type, old, new)
        PROVE  <1>3!:
    BY <1>2, <2>2 DEF Whitelist
  <2>3. ASSUME NEW status \in {"NORMAL", "FREELEECH"}, SetLeechStatus(status)
        PROVE  <1>3!:
    BY <1>2, <2>3 DEF SetLeechStatus
  <2>4. \A p \in Prefix : {p} \in SUBSET Prefix /\ {} \in SUBSET Prefix
    OBVIOUS
  <2> QED BY <2>1, <2>2, <2>3, <2>4
<1> QED BY <1>1, <1>3 DEF TypeOK, TorrentsOK, UsersOK, AccessOK, RowsOK, HistoryOK, Owners

\* The clearing timer takes peers and torrents away, and damages none.
LEMMA TypeClear ==
  ASSUME TypeOK, ClearTorrentPeers
  PROVE  TypeOK'
<1> DEFINE swept == [h \in DOMAIN torMap |-> Swept(torMap[h])]
           empty == {h \in DOMAIN swept : Emptied(swept[h])}
<1>1. /\ UNCHANGED <<usrMap, users, up, cleared, userRow, tokenRow>>
      /\ UNCHANGED <<leechStatus, bannedIPs, clientWhitelist>>
      /\ UNCHANGED <<seen, stopped, last>>
  BY DEF ClearTorrentPeers, access, history
<1>2. ASSUME NEW h \in DOMAIN torMap
      PROVE  IsTorrent(swept[h], PeerID, Owners)
  <2> DEFINE tor == torMap[h]
             t   == Swept(tor)
  <2>1. IsTorrent(tor, PeerID, Owners)
    BY DEF TypeOK, TorrentsOK
  <2>2. /\ Shaped(t)
        /\ t.free = tor.free /\ t.snatches = tor.snatches /\ t.balance = tor.balance
        /\ \A s \in Sides :
             /\ DOMAIN t.peers[s] = DOMAIN tor.peers[s] \ Expired(tor, s)
             /\ \A id \in DOMAIN t.peers[s] : t.peers[s][id] = tor.peers[s][id]
    BY <2>1, TorrentShaped, SweptChanges
  <2>3. swept[h] = t
    OBVIOUS
  <2> HIDE DEF t, tor, swept
  <2> QED BY <2>1, <2>2, <2>3 DEF IsTorrent, Shaped
<1>3. TorrentsOK'
  <2>1. torMap' = Drop(swept, empty)
    BY DEF ClearTorrentPeers
  <2>2. /\ DOMAIN torMap' \subseteq DOMAIN torMap
        /\ \A h \in DOMAIN torMap' : torMap'[h] = swept[h]
    BY <2>1 DEF Drop
  <2>3. stats' \in [peers : 0 .. LongMod - 1, torrents : 0 .. LongMod - 1]
    <3> DEFINE k == Long(Cardinality(empty))
               n == stats.torrents
    <3>1. k \in 0 .. LongMod - 1
      <4>1. empty \subseteq InfoHash
        BY DEF TypeOK, TorrentsOK
      <4> HIDE DEF empty
      <4>2. Cardinality(empty) \in Int
        BY <4>1, TorrentsFinite
      <4> QED BY <4>2, Widths
    <3>2. stats \in [peers : 0 .. LongMod - 1, torrents : 0 .. LongMod - 1]
      BY DEF TypeOK, TorrentsOK
    <3>3. stats' = [stats EXCEPT !.torrents = LongMinus(n, k)]
      BY DEF ClearTorrentPeers
    <3>4. n \in Int /\ k \in Int
      BY <3>1, <3>2, SwarmAssumption
    <3> HIDE DEF n, k
    <3>5. LongMinus(n, k) \in 0 .. LongMod - 1
      BY <3>4, DifferenceWidth
    <3> QED BY <3>2, <3>3, <3>5
  <2> HIDE DEF swept
  <2> QED BY <1>1, <1>2, <2>2, <2>3 DEF TypeOK, TorrentsOK, Owners
<1>4. RowsOK'
  <2>1. peerRow' \in [Clients -> {"none", "active", "inactive"}]
    BY DEF ClearTorrentPeers, TypeOK, RowsOK
  <2>2. DOMAIN torrentRow' = DOMAIN torrentRow
    BY DEF ClearTorrentPeers
  <2> QED BY <1>1, <2>1, <2>2 DEF TypeOK, RowsOK
<1> QED BY <1>1, <1>3, <1>4 DEF TypeOK, UsersOK, AccessOK, HistoryOK

\* The clock moves ages within their bounds.
LEMMA TypeTick ==
  ASSUME TypeOK, Tick
  PROVE  TypeOK'
<1>1. /\ UNCHANGED <<usrMap, stats, up, cleared, stopped, last>>
      /\ UNCHANGED <<leechStatus, bannedIPs, clientWhitelist>>
      /\ UNCHANGED <<torrentRow, peerRow, userRow, tokenRow>>
  BY DEF Tick, access, rows
<1>2. \A age \in Age : Older(age) \in Age
  BY SwarmAssumption DEF Age, Older
<1>3. ASSUME NEW h \in DOMAIN torMap
      PROVE  IsTorrent(Aged(torMap[h]), PeerID, Owners)
  <2> DEFINE tor == torMap[h]
             t   == Aged(tor)
  <2>1. IsTorrent(tor, PeerID, Owners)
    BY DEF TypeOK, TorrentsOK
  <2>2. /\ Shaped(t)
        /\ t.free = tor.free /\ t.snatches = tor.snatches /\ t.balance = tor.balance
        /\ \A s \in Sides :
             /\ DOMAIN t.peers[s] = DOMAIN tor.peers[s]
             /\ \A id \in DOMAIN t.peers[s] : t.peers[s][id] = PeerAged(tor.peers[s][id])
    BY <2>1, TorrentShaped, AgedChanges
  <2>3. \A p \in PeerType(Owners) : PeerAged(p) \in PeerType(Owners)
    BY <1>2 DEF PeerAged, PeerType
  <2> HIDE DEF t, tor
  <2>4. IsTorrent(t, PeerID, Owners)
    BY <2>1, <2>2, <2>3 DEF IsTorrent, Shaped
  <2> QED BY <2>4 DEF t, tor
<1>4. /\ DOMAIN torMap' = DOMAIN torMap
      /\ \A h \in DOMAIN torMap' : torMap'[h] = Aged(torMap[h])
  BY DEF Tick
<1>5. /\ DOMAIN users' = DOMAIN users
      /\ \A u \in DOMAIN users : IsUser(users'[u], InfoHash)
  <2>1. /\ DOMAIN users' = DOMAIN users
        /\ \A u \in DOMAIN users : users'[u] =
             [users[u] EXCEPT !.tokens = [h \in DOMAIN users[u].tokens |->
                                            OlderToken(users[u].tokens[h])]]
    BY DEF Tick
  <2>2. \A age \in 0 .. TokenLife : OlderToken(age) \in 0 .. TokenLife
    BY LoadAssumption DEF OlderToken
  <2> QED BY <2>1, <2>2 DEF TypeOK, UsersOK, IsUser
<1>6. TorrentsOK' /\ UsersOK'
  BY <1>1, <1>3, <1>4, <1>5 DEF TypeOK, TorrentsOK, UsersOK, Owners
<1>7. HistoryOK'
  <2>1. seen' \in [Clients -> Age]
    BY <1>2 DEF Tick, TypeOK, HistoryOK
  <2> QED BY <1>1, <2>1 DEF TypeOK, HistoryOK
<1>8. AccessOK' /\ RowsOK'
  BY <1>1 DEF TypeOK, AccessOK, RowsOK
<1> QED BY <1>6, <1>7, <1>8 DEF TypeOK

\* The updates of the site, one by one.
LEMMA TypeUpdate ==
  ASSUME TypeOK, UpdateStep
  PROVE  TypeOK'
<1>1. CASE \E k \in Passkey, ip \in IP : AddIPRestriction(k, ip) \/ RemoveIPRestriction(k, ip)
  BY <1>1, TypeUserFields
<1>2. CASE \E k \in Passkey, h \in InfoHash : AddToken(k, h) \/ RemoveToken(k, h)
  BY <1>2, TypeUserFields
<1>3. CASE \/ \E old, new \in Passkey : ChangePasskey(old, new)
           \/ \E k \in Passkey, u \in UserRef : AddUser(k, u)
           \/ \E k \in Passkey, canLeech \in BOOLEAN : UpdateUser(k, canLeech)
           \/ \E ks \in SUBSET Passkey : RemoveUsers(ks)
  BY <1>3, TypeAccounts
<1>4. CASE \/ \E h \in InfoHash, free \in {"0", "1", "2"} :
                AddTorrent(h, free) \/ UpdateTorrent(h, free)
           \/ \E h \in InfoHash : DeleteTorrent(h)
  BY <1>4, TypeTorrents
<1>5. CASE \/ \E from, to \in IP : \/ Ban("add_ban", IPRange(from, to))
                                   \/ Ban("remove_ban", IPRange(from, to))
           \/ \E p, q \in Prefix : \/ Whitelist("add_whitelist", {}, {p})
                                   \/ Whitelist("edit_whitelist", {p}, {q})
                                   \/ Whitelist("remove_whitelist", {p}, {})
           \/ \E status \in {"NORMAL", "FREELEECH"} : SetLeechStatus(status)
  BY <1>5, TypeAccess
<1> QED BY <1>1, <1>2, <1>3, <1>4, <1>5 DEF UpdateStep

\* A step that changes nothing.
LEMMA TypeStutter == TypeOK /\ UNCHANGED vars => TypeOK'
  BY DEF TypeOK, TorrentsOK, UsersOK, AccessOK, RowsOK, HistoryOK, Owners, vars

\* Whatever is announced, updated, cleared or restarted, every map holds well
\* formed entries, every counter keeps its width, passkeys and peers point to
\* users that exist, and no two passkeys lead to the same user.
THEOREM TypeCorrect == Spec => []TypeOK
<1>1. Init => TypeOK
  BY TypeInit
<1>2. TypeOK /\ [Next]_vars => TypeOK'
  <2> SUFFICES ASSUME TypeOK, [Next]_vars PROVE TypeOK'
    OBVIOUS
  <2>1. CASE AnnounceStep
    BY <2>1, TypeAnnounce DEF AnnounceStep
  <2>2. CASE UpdateStep
    BY <2>2, TypeUpdate
  <2>3. CASE ClearTorrentPeers
    BY <2>3, TypeClear
  <2>4. CASE Tick
    BY <2>4, TypeTick
  <2>5. CASE RestartStep
    BY <2>5, TypeRestart DEF RestartStep
  <2>6. CASE UNCHANGED vars
    BY <2>6, TypeStutter
  <2> QED BY <2>1, <2>2, <2>3, <2>4, <2>5, <2>6 DEF Next
<1> QED BY <1>1, <1>2, PTL DEF Spec
=============================================================================
