---------------------------- MODULE ChargeProofs ----------------------------
(***************************************************************************)
(* Proofs about RequestHandler: what the database charges the users is     *)
(* what their clients announced.                                           *)
(***************************************************************************)
EXTENDS RecordProofs

\* The map from which an announce that goes on from l would take the peer.
Main(tor, id, l) == SideUsed(tor, [peer |-> id, ipv6 |-> l.ipv6, left |-> l.left])

\* The entries of the client whose last announce is l: they are its account's, in
\* the maps of its family, and a leecher's among the leechers only.
OwnEntries(tor, id, l) ==
  \A s \in Sides : Has(tor, s, id) =>
    /\ tor.peers[s][id].user = l.user
    /\ s \in {Seeders(l.ipv6), Leechers(l.ipv6)}
    /\ l.left = 1 => s = Leechers(l.ipv6)

\* The peer is in its map with the totals l told it, what is free left out, and
\* no other entry of the client outlives it.
MainEntry(tor, id, l) ==
  LET m == Main(tor, id, l) IN
  /\ Has(tor, m, id)
  /\ tor.peers[m][id].totalDownloaded = (IF l.free THEN 0 ELSE Long(l.down))
  /\ tor.peers[m][id].totalUploaded = Long(l.up)
  /\ \A s \in Sides : Has(tor, s, id) => tor.peers[m][id].idle <= tor.peers[s][id].idle

Traced(tor, id, l) == OwnEntries(tor, id, l) /\ (In(tor, id) => MainEntry(tor, id, l))

\* The inductive invariant: every client with a last announce to go on from is
\* traced in the maps.
Traces ==
  Private => \A h \in DOMAIN torMap : \A id \in PeerID :
    last[<<h, id>>].user # "nobody" => Traced(torMap[h], id, last[<<h, id>>])

-----------------------------------------------------------------------------
(* Maps that lose entries and let them age *)

\* Two peers are the same to an account.
Kin(p, q) ==
  /\ p.user = q.user
  /\ p.totalDownloaded = q.totalDownloaded /\ p.totalUploaded = q.totalUploaded

\* A map is one of the four.
LEMMA MainSide ==
  ASSUME NEW l \in Said, NEW tor, NEW id
  PROVE  Main(tor, id, l) \in Sides
  BY DEF Said, Main, SideUsed, Leechers, Seeders, Sides

\* A client whose entries go, the peer last, and age alike stays traced.
LEMMA TracedKept ==
  ASSUME NEW tor, NEW t, NEW id, NEW l \in Said, Traced(tor, id, l),
         \A s \in Sides : Has(t, s, id) =>
           Has(tor, s, id) /\ Kin(t.peers[s][id], tor.peers[s][id]),
         In(t, id) => Has(t, Main(tor, id, l), id),
         \A r, s \in Sides :
           Has(t, r, id) /\ Has(t, s, id) /\ tor.peers[r][id].idle <= tor.peers[s][id].idle
             => t.peers[r][id].idle <= t.peers[s][id].idle
  PROVE  Traced(t, id, l)
<1>1. OwnEntries(t, id, l)
  BY DEF Traced, OwnEntries, Kin
<1>2. ASSUME In(t, id)
      PROVE  MainEntry(t, id, l)
  <2> DEFINE m == Main(tor, id, l)
  <2>1. m \in Sides /\ Has(t, m, id) /\ Has(tor, m, id)
    BY <1>2, MainSide
  <2>2. Main(t, id, l) = m
    <3>1. /\ Seeders(l.ipv6) \in Sides /\ "leechers" \in Sides
          /\ \A s \in Sides : Has(t, s, id) => Has(tor, s, id)
      BY DEF Seeders, Sides
    <3> QED BY <2>1, <3>1 DEF Main, SideUsed
  <2>3. MainEntry(tor, id, l)
    BY <2>1 DEF Traced, In
  <2> HIDE DEF m
  <2>4. /\ tor.peers[m][id].totalDownloaded = (IF l.free THEN 0 ELSE Long(l.down))
        /\ tor.peers[m][id].totalUploaded = Long(l.up)
        /\ \A s \in Sides : Has(tor, s, id) => tor.peers[m][id].idle <= tor.peers[s][id].idle
    BY <2>3 DEF MainEntry, m
  <2>5. /\ Kin(t.peers[m][id], tor.peers[m][id])
        /\ \A s \in Sides : Has(t, s, id) => t.peers[m][id].idle <= t.peers[s][id].idle
    BY <2>1, <2>4
  <2> QED BY <2>1, <2>2, <2>4, <2>5 DEF MainEntry, Kin
<1> QED BY <1>1, <1>2 DEF Traced

\* A client without entries is traced, whatever it announced.
LEMMA TracedAbsent ==
  ASSUME NEW tor, NEW id, NEW l, \A s \in Sides : ~Has(tor, s, id)
  PROVE  Traced(tor, id, l)
  BY DEF Traced, OwnEntries, In

\* Being traced is a matter of the maps alone.
LEMMA TracedSame ==
  ASSUME NEW tor, NEW t, NEW id, NEW l \in Said, Traced(tor, id, l),
         \A s \in Sides : /\ Has(t, s, id) <=> Has(tor, s, id)
                          /\ Has(t, s, id) => t.peers[s][id] = tor.peers[s][id]
  PROVE  Traced(t, id, l)
<1>1. In(t, id) => Has(t, Main(tor, id, l), id)
  BY MainSide DEF In, Traced, MainEntry
<1>2. /\ \A s \in Sides : Has(t, s, id) =>
           Has(tor, s, id) /\ Kin(t.peers[s][id], tor.peers[s][id])
      /\ \A r, s \in Sides :
           Has(t, r, id) /\ Has(t, s, id) /\ tor.peers[r][id].idle <= tor.peers[s][id].idle
             => t.peers[r][id].idle <= t.peers[s][id].idle
  BY DEF Kin
<1> QED BY <1>1, <1>2, TracedKept

\* Entries time out together or the peer last.
LEMMA TracedSwept ==
  ASSUME NEW tor, IsTorrent(tor, PeerID, Owners), NEW id, NEW l \in Said, Traced(tor, id, l)
  PROVE  Traced(Swept(tor), id, l)
<1> DEFINE t == Swept(tor)
           m == Main(tor, id, l)
<1>1. \A s \in Sides : /\ DOMAIN t.peers[s] = DOMAIN tor.peers[s] \ Expired(tor, s)
                       /\ \A i \in DOMAIN t.peers[s] : t.peers[s][i] = tor.peers[s][i]
  BY TorrentShaped, SweptChanges
<1> HIDE DEF t
<1>2. \A s \in Sides : Has(t, s, id) =>
        /\ Has(tor, s, id) /\ ~TimedOut(tor.peers[s][id])
        /\ t.peers[s][id] = tor.peers[s][id]
  BY <1>1 DEF Has, Expired
<1>3. ASSUME In(t, id)
      PROVE  Has(t, m, id)
  <2>1. PICK s \in Sides : Has(t, s, id)
    BY <1>3 DEF In
  <2>2. Has(tor, s, id) /\ ~TimedOut(tor.peers[s][id]) /\ m \in Sides
    BY <1>2, <2>1, MainSide
  <2>3. MainEntry(tor, id, l)
    BY <2>2 DEF Traced, In
  <2>4. Has(tor, m, id) /\ tor.peers[m][id].idle <= tor.peers[s][id].idle
    BY <2>2, <2>3 DEF MainEntry
  <2>5. tor.peers[m][id] \in PeerType(Owners) /\ tor.peers[s][id] \in PeerType(Owners)
    BY <2>2, <2>4, TorrentShaped DEF Has
  <2>6. tor.peers[m][id].idle \in Age /\ tor.peers[s][id].idle \in Age
    BY <2>5 DEF PeerType
  <2> HIDE DEF m
  <2>7. ~TimedOut(tor.peers[m][id])
    BY <2>2, <2>4, <2>6, SwarmAssumption DEF TimedOut, Age
  <2> QED BY <1>1, <2>2, <2>4, <2>7 DEF Has, Expired
<1>4. \A s \in Sides : Has(t, s, id) => Has(tor, s, id) /\ Kin(t.peers[s][id], tor.peers[s][id])
  BY <1>2 DEF Kin
<1>5. \A r, s \in Sides :
        Has(t, r, id) /\ Has(t, s, id) /\ tor.peers[r][id].idle <= tor.peers[s][id].idle
          => t.peers[r][id].idle <= t.peers[s][id].idle
  BY <1>2
<1> QED BY <1>3, <1>4, <1>5, TracedKept DEF t, m

\* The clock ages the entries of a client alike.
LEMMA TracedAged ==
  ASSUME NEW tor, IsTorrent(tor, PeerID, Owners), NEW t, NEW id, NEW l \in Said,
         Traced(tor, id, l),
         \A s \in Sides :
           /\ DOMAIN t.peers[s] = DOMAIN tor.peers[s]
           /\ \A i \in DOMAIN tor.peers[s] : t.peers[s][i] = PeerAged(tor.peers[s][i])
  PROVE  Traced(t, id, l)
<1>1. \A p \in PeerType(Owners) :
        Kin(PeerAged(p), p) /\ PeerAged(p).idle = Older(p.idle) /\ p.idle \in Age
  BY DEF PeerAged, PeerType, Kin
<1>2. \A s \in Sides :
        /\ Has(t, s, id) <=> Has(tor, s, id)
        /\ Has(t, s, id) => /\ Kin(t.peers[s][id], tor.peers[s][id])
                            /\ t.peers[s][id].idle = Older(tor.peers[s][id].idle)
                            /\ tor.peers[s][id].idle \in Age
  <2> TAKE s \in Sides
  <2>1. ASSUME Has(tor, s, id) PROVE tor.peers[s][id] \in PeerType(Owners)
    BY <2>1, TorrentShaped DEF Has
  <2> QED BY <1>1, <2>1 DEF Has
<1>3. In(t, id) => Has(t, Main(tor, id, l), id)
  BY <1>2, MainSide DEF In, Traced, MainEntry
<1>4. \A a, b \in Age : a <= b => Older(a) <= Older(b)
  BY SwarmAssumption DEF Age, Older
<1>5. \A r, s \in Sides :
        Has(t, r, id) /\ Has(t, s, id) /\ tor.peers[r][id].idle <= tor.peers[s][id].idle
          => t.peers[r][id].idle <= t.peers[s][id].idle
  BY <1>2, <1>4
<1> QED BY <1>2, <1>3, <1>5, TracedKept
-----------------------------------------------------------------------------
(* An announce: where the peer is found or put *)

SameEntry(p, q) == Kin(p, q) /\ p.idle = q.idle

\* What an announce says of itself in a new peer.
Entered(p, r) ==
  /\ p.user = Owner(r)
  /\ p.totalDownloaded = Long(r.downloaded) /\ p.totalUploaded = Long(r.uploaded)
  /\ p.idle = 0

\* The torrent t is tor with the client in the maps S too.
Grown(t, tor, r, S) ==
  /\ t.free = tor.free
  /\ \A s \in Sides :
       /\ Has(t, s, r.peer) <=> Has(tor, s, r.peer) \/ s \in S
       /\ Has(tor, s, r.peer) => SameEntry(t.peers[s][r.peer], tor.peers[s][r.peer])
       /\ s \in S /\ ~Has(tor, s, r.peer) => Entered(t.peers[s][r.peer], r)

\* Stages can be put one after another.
LEMMA GrownTwice ==
  ASSUME NEW r, NEW t1, NEW t2, NEW t3, NEW S, NEW T, Grown(t2, t1, r, S), Grown(t3, t2, r, T)
  PROVE  Grown(t3, t1, r, S \cup T)
  BY DEF Grown, SameEntry, Kin, Entered

\* Finding the peer or adding it.
LEMMA PeerGrows ==
  ASSUME NEW r \in AnnounceRequest, NEW tor, IsTorrent(tor, PeerID, Owners), NEW side \in Sides,
         NEW t, t \in IF Has(tor, side, r.peer) THEN {tor} ELSE Joined(tor, side, r)
  PROVE  Grown(t, tor, r, {side})
<1>1. CASE Has(tor, side, r.peer)
  BY <1>1 DEF Grown, SameEntry, Kin
<1>2. CASE ~Has(tor, side, r.peer)
  <2>1. PICK p \in NewPeers(r, Owner(r)) : t = SetPeer(tor, side, r.peer, p)
    BY <1>2 DEF Joined
  <2>2. Entered(p, r)
    BY <2>1 DEF NewPeers, Entered
  <2>3. /\ t.free = tor.free
        /\ \A s \in Sides \ {side} : t.peers[s] = tor.peers[s]
        /\ DOMAIN t.peers[side] = DOMAIN tor.peers[side] \cup {r.peer}
        /\ t.peers[side][r.peer] = p
    BY <2>1, TorrentShaped, SetPeerChanges
  <2> QED BY <1>2, <2>2, <2>3 DEF Grown, SameEntry, Kin, Has
<1> QED BY <1>1, <1>2

\* The leecher's half: a client that downloads is among the leechers then.
LEMMA LeecherGrows ==
  ASSUME NEW r \in AnnounceRequest, NEW tor, IsTorrent(tor, PeerID, Owners), Owner(r) \in Owners,
         NEW t \in AsLeecher(tor, r)
  PROVE  Grown(t, tor, r, IF Downloading(r) THEN {Leechers(r.ipv6)} ELSE {})
<1> DEFINE side  == Leechers(r.ipv6)
           found == IF Has(tor, side, r.peer) THEN {tor} ELSE Joined(tor, side, r)
<1>1. side \in Sides
  BY SidesOf DEF AnnounceRequest
<1>2. CASE ~Downloading(r)
  BY <1>2 DEF AsLeecher, Grown, SameEntry, Kin
<1>3. CASE Downloading(r) /\ r.event # "completed"
  BY <1>1, <1>3, PeerGrows DEF AsLeecher
<1>4. CASE Downloading(r) /\ r.event = "completed"
  <2>1. PICK f \in found :
          t = [f EXCEPT !.peers[side][r.peer].completed = TRUE, !.snatches = UInt(@ + 1)]
    BY <1>4 DEF AsLeecher
  <2>2. Grown(f, tor, r, {side})
    BY <1>1, <2>1, PeerGrows
  <2>3. IsTorrent(f, PeerID, Owners)
    <3>1. CASE Has(tor, side, r.peer)
      BY <2>1, <3>1
    <3>2. CASE ~Has(tor, side, r.peer)
      <4>1. PICK p \in NewPeers(r, Owner(r)) : f = SetPeer(tor, side, r.peer, p)
        BY <2>1, <3>2 DEF Joined
      <4>2. p \in PeerType(Owners)
        BY <4>1, NewPeerTyped
      <4> QED BY <1>1, <4>1, <4>2, EntryPut
    <3> QED BY <3>1, <3>2
  <2>4. Shaped(f) /\ Has(f, side, r.peer)
    BY <1>1, <2>2, <2>3, TorrentShaped DEF Grown
  <2>5. f.peers[side][r.peer] \in PeerType(Owners)
    BY <1>1, <2>3, <2>4, TorrentShaped DEF Has
  <2>6. /\ t.free = f.free
        /\ \A s \in Sides \ {side} : t.peers[s] = f.peers[s]
        /\ t.peers[side] = [f.peers[side] EXCEPT ![r.peer].completed = TRUE]
    BY <1>1, <2>1, <2>4 DEF Shaped
  <2>7. SameEntry([f.peers[side][r.peer] EXCEPT !.completed = TRUE], f.peers[side][r.peer])
    BY <2>5 DEF PeerType, SameEntry, Kin
  <2>8. Grown(t, f, r, {})
    BY <1>1, <2>4, <2>6, <2>7 DEF Grown, Has, SameEntry, Kin
  <2>9. Grown(t, tor, r, {side} \cup {})
    BY <2>2, <2>8, GrownTwice
  <2>10. {side} \cup {} = {side}
    OBVIOUS
  <2> HIDE DEF side
  <2> QED BY <1>4, <2>9, <2>10 DEF side
<1> QED BY <1>2, <1>3, <1>4

\* Both halves: `side' is the map from which the rest of the handler takes the peer.
LEMMA AnnounceGrows ==
  ASSUME NEW r \in AnnounceRequest, NEW tor, IsTorrent(tor, PeerID, Owners), Owner(r) \in Owners,
         NEW leeching \in AsLeecher(tor, r),
         NEW joined \in IF r.left = 0 THEN AsSeeder(leeching, r) ELSE {leeching}
  PROVE  LET side == SideUsed(leeching, r) IN
         /\ side \in Sides
         /\ Grown(leeching, tor, r, IF Downloading(r) THEN {Leechers(r.ipv6)} ELSE {})
         /\ Grown(joined, leeching, r, {side})
         /\ Grown(joined, tor, r, (IF Downloading(r) THEN {Leechers(r.ipv6)} ELSE {}) \cup {side})
<1> DEFINE side == SideUsed(leeching, r)
           S    == IF Downloading(r) THEN {Leechers(r.ipv6)} ELSE {}
<1>1. /\ IsTorrent(leeching, PeerID, Owners)
      /\ Downloading(r) => Has(leeching, Leechers(r.ipv6), r.peer)
  BY AfterLeecher
<1>2. side \in Sides /\ Has(joined, side, r.peer)
  BY <1>1, AfterSeeder
<1>3. Grown(leeching, tor, r, S)
  BY LeecherGrows
<1>4. Grown(joined, leeching, r, {side})
  <2>1. CASE r.left # 0
    <3>1. joined = leeching
      BY <2>1
    <3> QED BY <1>2, <3>1 DEF Grown, SameEntry, Kin
  <2>2. CASE r.left = 0
    <3>1. joined \in IF Has(leeching, side, r.peer) THEN {leeching} ELSE Joined(leeching, side, r)
      BY <2>2 DEF AsSeeder
    <3> HIDE DEF side
    <3> QED BY <1>1, <1>2, <3>1, PeerGrows
  <2> QED BY <2>1, <2>2
<1> HIDE DEF side, S
<1>5. Grown(joined, tor, r, S \cup {side})
  BY <1>3, <1>4, GrownTwice
<1> QED BY <1>2, <1>3, <1>4, <1>5 DEF side, S
\* A client that announces has no entries, or those its last announce left.
LEMMA Followed ==
  ASSUME TypeOK, Private, Traces, NEW r \in Announces, Admitted(r), Known(r) => Steady(r)
  PROVE  LET old == TorrentAnnounced(r)
             l   == last[<<r.hash, r.peer>>]
         IN /\ l \in Said
            /\ ~Known(r) => \A s \in Sides : ~Has(old, s, r.peer)
            /\ Known(r) => /\ Traced(old, r.peer, l) /\ In(old, r.peer)
                           /\ l.user = Owner(r) /\ l.ipv6 = r.ipv6 /\ r.left <= l.left
<1> DEFINE old == TorrentAnnounced(r)
           c   == <<r.hash, r.peer>>
           l   == last[c]
<1>1. r \in AnnounceRequest /\ Owner(r) \in Owners
  BY AnnounceTyped
<1>2. c \in Clients /\ r.peer \in PeerID
  BY <1>1 DEF AnnounceRequest, Clients
<1>3. l \in Said
  BY <1>2 DEF TypeOK, HistoryOK
<1>4. ASSUME ~Known(r) PROVE \A s \in Sides : ~Has(old, s, r.peer)
  BY <1>4, NewTorrentTyped DEF Known, In, TorrentAnnounced
<1>5. ASSUME Known(r)
      PROVE  /\ Traced(old, r.peer, l) /\ In(old, r.peer)
             /\ l.user = Owner(r) /\ l.ipv6 = r.ipv6 /\ r.left <= l.left
  <2>1. l.user = Owner(r) /\ l.ipv6 = r.ipv6 /\ r.left <= l.left
    BY <1>5 DEF Steady
  <2>2. Owner(r) # "nobody"
    BY <1>1, RequestHandlerAssumption DEF Owners, TypeOK, UsersOK
  <2>3. r.hash \in DOMAIN torMap /\ old = torMap[r.hash] /\ In(old, r.peer)
    BY <1>5 DEF Known, TorrentAnnounced
  <2> HIDE DEF old
  <2>4. Traced(old, r.peer, l)
    BY <1>2, <2>1, <2>2, <2>3 DEF Traces
  <2> QED BY <2>1, <2>3, <2>4
<1> QED BY <1>3, <1>4, <1>5

\* The map that an announce takes the peer from is the one that the last announce
\* left it in, unless the peer is put in anew.
LEMMA SideFound ==
  ASSUME TypeOK, Private, Traces, NEW r \in Announces, Admitted(r), Known(r) => Steady(r),
         NEW leeching \in AsLeecher(TorrentAnnounced(r), r),
         NEW joined \in IF r.left = 0 THEN AsSeeder(leeching, r) ELSE {leeching}
  PROVE  LET old  == TorrentAnnounced(r)
             side == SideUsed(leeching, r)
         IN /\ Resumed(r) => Has(old, side, r.peer) /\ side = Main(old, r.peer, last[<<r.hash, r.peer>>])
            /\ ~Resumed(r) => ~Has(old, side, r.peer)
            /\ side \in {Seeders(r.ipv6), Leechers(r.ipv6)}
            /\ r.left = 1 => side = Leechers(r.ipv6)
<1> DEFINE old  == TorrentAnnounced(r)
           l    == last[<<r.hash, r.peer>>]
           side == SideUsed(leeching, r)
           S    == IF Downloading(r) THEN {Leechers(r.ipv6)} ELSE {}
<1>1. r \in AnnounceRequest /\ Owner(r) \in Owners /\ IsTorrent(old, PeerID, Owners)
  BY AnnounceTyped
<1>2. r.ipv6 \in BOOLEAN /\ r.left \in {0, 1}
  BY <1>1 DEF AnnounceRequest
<1>3. /\ side \in Sides
      /\ \A s \in Sides : Has(leeching, s, r.peer) <=> Has(old, s, r.peer) \/ s \in S
  <2>1. Grown(leeching, old, r, S) /\ side \in Sides
    BY <1>1, AnnounceGrows
  <2> QED BY <2>1 DEF Grown
<1>4. /\ l \in Said
      /\ ~Known(r) => \A s \in Sides : ~Has(old, s, r.peer)
      /\ Known(r) => /\ Traced(old, r.peer, l) /\ In(old, r.peer)
                     /\ l.user = Owner(r) /\ l.ipv6 = r.ipv6 /\ r.left <= l.left
  BY Followed
<1>5. /\ l.left \in {0, 1}
      /\ Resumed(r) <=> Known(r) /\ ~(r.ipv6 /\ r.left < l.left)
  BY <1>4 DEF Said, Resumed
<1>6. side = IF r.left # 0 THEN Leechers(r.ipv6)
             ELSE IF ~Has(leeching, Seeders(r.ipv6), r.peer) /\ Has(leeching, "leechers", r.peer)
                  THEN "leechers" ELSE Seeders(r.ipv6)
  BY DEF SideUsed
<1> DEFINE m == Main(old, r.peer, l)
<1>7. m = IF l.left # 0 THEN Leechers(l.ipv6)
          ELSE IF ~Has(old, Seeders(l.ipv6), r.peer) /\ Has(old, "leechers", r.peer)
               THEN "leechers" ELSE Seeders(l.ipv6)
  BY DEF Main, SideUsed
<1> HIDE DEF old, l, side, m
<1>8. Known(r) => /\ Has(old, m, r.peer) /\ m \in Sides
                  /\ \A s \in Sides : Has(old, s, r.peer) =>
                       /\ s \in {Seeders(r.ipv6), Leechers(r.ipv6)}
                       /\ l.left = 1 => s = Leechers(r.ipv6)
  <2>1. m \in Sides
    BY <1>4, MainSide DEF m
  <2> QED BY <1>4, <2>1 DEF Traced, MainEntry, OwnEntries, m
<1>9. /\ r.ipv6 => Seeders(r.ipv6) = "seeders6" /\ Leechers(r.ipv6) = "leechers6"
      /\ ~r.ipv6 => Seeders(r.ipv6) = "seeders" /\ Leechers(r.ipv6) = "leechers"
      /\ Sides = {"seeders", "seeders6", "leechers", "leechers6"}
  BY DEF Seeders, Leechers, Sides
<1> HIDE DEF S
<1>10. S \subseteq {Leechers(r.ipv6)}
  BY DEF S
<1>11. CASE ~Known(r)
  BY <1>2, <1>3, <1>4, <1>5, <1>6, <1>9, <1>10, <1>11 DEF old, side
<1>12. CASE Known(r) /\ r.left = 1
  <2>1. l.left = 1 /\ l.ipv6 = r.ipv6 /\ Resumed(r)
    BY <1>4, <1>5, <1>12
  <2>2. m = side /\ side = Leechers(r.ipv6)
    BY <1>6, <1>7, <1>12, <2>1
  <2> QED BY <1>8, <1>12, <2>1, <2>2 DEF old, side, m, l
<1>13. CASE Known(r) /\ r.left = 0 /\ l.left = 0
  <2>1. Resumed(r) /\ l.ipv6 = r.ipv6
    BY <1>4, <1>5, <1>13
  <2>2. side = m /\ side \in {Seeders(r.ipv6), Leechers(r.ipv6)}
    <3>1. CASE Has(old, Seeders(r.ipv6), r.peer)
      BY <1>2, <1>3, <1>6, <1>7, <1>9, <1>13, <2>1, <3>1
    <3>2. CASE ~Has(old, Seeders(r.ipv6), r.peer)
      <4>1. m = "leechers" /\ Has(old, "leechers", r.peer) /\ ~r.ipv6
        BY <1>2, <1>7, <1>8, <1>9, <1>13, <2>1, <3>2
      <4>2. /\ Has(leeching, "leechers", r.peer)
            /\ ~Has(leeching, Seeders(r.ipv6), r.peer)
        BY <1>3, <1>9, <1>10, <3>2, <4>1
      <4> QED BY <1>6, <1>9, <1>13, <4>1, <4>2
    <3> QED BY <3>1, <3>2
  <2> QED BY <1>8, <1>13, <2>1, <2>2 DEF old, side, m, l
<1>14. CASE Known(r) /\ r.left = 0 /\ l.left = 1
  <2>1. /\ l.ipv6 = r.ipv6 /\ m = Leechers(r.ipv6) /\ Has(old, m, r.peer)
        /\ \A s \in Sides : Has(old, s, r.peer) => s = Leechers(r.ipv6)
    BY <1>4, <1>7, <1>8, <1>14
  <2>2. CASE r.ipv6
    <3>1. ~Resumed(r)
      BY <1>5, <1>14, <2>2
    <3>2. ~Has(leeching, "leechers", r.peer) /\ ~Has(old, "seeders6", r.peer)
      BY <1>3, <1>9, <1>10, <2>1, <2>2
    <3>3. side = "seeders6"
      BY <1>6, <1>9, <1>14, <2>2, <3>2
    <3>4. ~Has(old, side, r.peer) /\ r.left # 1
      BY <1>14, <3>2, <3>3
    <3>5. side \in {Seeders(r.ipv6), Leechers(r.ipv6)}
      BY <1>9, <2>2, <3>3
    <3> QED BY <3>1, <3>4, <3>5 DEF old, side
  <2>3. CASE ~r.ipv6
    <3>1. Resumed(r)
      BY <1>5, <1>14, <2>3
    <3>2. Has(leeching, "leechers", r.peer) /\ ~Has(leeching, "seeders", r.peer)
      BY <1>3, <1>9, <1>10, <2>1, <2>3
    <3>3. side = "leechers" /\ m = "leechers"
      BY <1>6, <1>9, <1>14, <2>1, <2>3, <3>2
    <3> QED BY <1>9, <1>14, <2>1, <2>3, <3>1, <3>3 DEF old, side, m, l
  <2> QED BY <2>2, <2>3
<1> QED BY <1>2, <1>5, <1>11, <1>12, <1>13, <1>14

\* The peer that the rest of the handler works on: its owner and its totals.
LEMMA PeerFound ==
  ASSUME TypeOK, Private, Traces, NEW r \in Announces, Admitted(r), Known(r) => Steady(r),
         NEW leeching \in AsLeecher(TorrentAnnounced(r), r),
         NEW joined \in IF r.left = 0 THEN AsSeeder(leeching, r) ELSE {leeching}
  PROVE  LET side == SideUsed(leeching, r)
             l    == last[<<r.hash, r.peer>>]
         IN /\ \A s \in Sides : Has(joined, s, r.peer) =>
                 /\ joined.peers[s][r.peer].user = Owner(r)
                 /\ s \in {Seeders(r.ipv6), Leechers(r.ipv6)}
                 /\ r.left = 1 => s = Leechers(r.ipv6)
            /\ Has(joined, side, r.peer)
            /\ joined.peers[side][r.peer].totalDownloaded =
                 IF ~Resumed(r) THEN Long(r.downloaded) ELSE IF l.free THEN 0 ELSE Long(l.down)
            /\ joined.peers[side][r.peer].totalUploaded =
                 IF ~Resumed(r) THEN Long(r.uploaded) ELSE Long(l.up)
<1> DEFINE old  == TorrentAnnounced(r)
           l    == last[<<r.hash, r.peer>>]
           side == SideUsed(leeching, r)
           S    == IF Downloading(r) THEN {Leechers(r.ipv6)} ELSE {}
           m    == Main(old, r.peer, l)
<1>1. /\ r \in AnnounceRequest /\ Owner(r) \in Owners /\ IsTorrent(old, PeerID, Owners)
      /\ r.ipv6 \in BOOLEAN /\ r.left \in {0, 1}
  BY AnnounceTyped DEF AnnounceRequest
<1>2. Grown(joined, old, r, S \cup {side}) /\ side \in Sides
  BY <1>1, AnnounceGrows
<1>3. /\ l \in Said
      /\ ~Known(r) => \A s \in Sides : ~Has(old, s, r.peer)
      /\ Known(r) => /\ Traced(old, r.peer, l) /\ In(old, r.peer)
                     /\ l.user = Owner(r) /\ l.ipv6 = r.ipv6 /\ r.left <= l.left
  BY Followed
<1>4. /\ Resumed(r) => Has(old, side, r.peer) /\ side = m
      /\ ~Resumed(r) => ~Has(old, side, r.peer)
      /\ side \in {Seeders(r.ipv6), Leechers(r.ipv6)}
      /\ r.left = 1 => side = Leechers(r.ipv6)
  BY SideFound
<1>5. Resumed(r) => Known(r)
  BY DEF Resumed
<1> HIDE DEF old, l, side, m
<1>6. ASSUME NEW s \in Sides, Has(joined, s, r.peer)
      PROVE  /\ joined.peers[s][r.peer].user = Owner(r)
             /\ s \in {Seeders(r.ipv6), Leechers(r.ipv6)}
             /\ r.left = 1 => s = Leechers(r.ipv6)
  <2>1. CASE Has(old, s, r.peer)
    <3>1. Known(r) /\ OwnEntries(old, r.peer, l)
      BY <1>3, <2>1 DEF Traced
    <3>2. joined.peers[s][r.peer].user = old.peers[s][r.peer].user
      BY <1>2, <2>1 DEF Grown, SameEntry, Kin
    <3>a. l.left \in {0, 1}
      BY <1>3 DEF Said
    <3>3. r.left = 1 => l.left = 1
      BY <1>1, <1>3, <3>1, <3>a
    <3> QED BY <1>3, <2>1, <3>1, <3>2, <3>3 DEF OwnEntries
  <2>2. CASE ~Has(old, s, r.peer)
    <3>1. s \in S \cup {side} /\ Entered(joined.peers[s][r.peer], r)
      BY <1>2, <1>6, <2>2 DEF Grown
    <3> QED BY <1>4, <3>1 DEF Entered
  <2> QED BY <2>1, <2>2
<1>7. Has(joined, side, r.peer)
  BY <1>2 DEF Grown
<1>8. CASE Resumed(r)
  <2>1. MainEntry(old, r.peer, l)
    BY <1>3, <1>5, <1>8 DEF Traced
  <2>2. Kin(joined.peers[side][r.peer], old.peers[side][r.peer])
    BY <1>2, <1>4, <1>8 DEF Grown, SameEntry
  <2> QED BY <1>4, <1>6, <1>7, <1>8, <2>1, <2>2 DEF MainEntry, Kin, m, side, l
<1>9. CASE ~Resumed(r)
  <2>1. Entered(joined.peers[side][r.peer], r)
    BY <1>2, <1>4, <1>9 DEF Grown
  <2> QED BY <1>6, <1>7, <1>9, <2>1 DEF Entered, side, l
<1> QED BY <1>8, <1>9
-----------------------------------------------------------------------------
(* An announce: what is charged *)

\* The torrent t is tor but for one entry.
EntryOnly(t, tor, side, id) ==
  /\ t.free = tor.free
  /\ \A s \in Sides \ {side} : t.peers[s] = tor.peers[s]
  /\ DOMAIN t.peers[side] = DOMAIN tor.peers[side] \cup {id}
  /\ \A i \in DOMAIN tor.peers[side] : i # id => t.peers[side][i] = tor.peers[side][i]

\* Leaving and updateStats keep the owner of a peer, and updateStats charges the
\* differences to the totals of the last announce.
LEMMA StatsCharge ==
  ASSUME Private, NEW r \in AnnounceRequest, NEW joined, IsTorrent(joined, PeerID, Owners),
         NEW side \in Sides, Has(joined, side, r.peer), NEW charged \in {0, 1}
  PROVE  LET e    == joined.peers[side][r.peer]
             done == Accounted(Parting(joined, side, r), side, r, charged)
             p    == done.tor.peers[side][r.peer]
         IN /\ IsTorrent(done.tor, PeerID, Owners) /\ Has(done.tor, side, r.peer)
            /\ EntryOnly(done.tor, joined, side, r.peer)
            /\ p.user = e.user /\ p.idle = 0
            /\ p.totalDownloaded = Long(r.downloaded) * charged
            /\ p.totalUploaded = Long(r.uploaded)
            /\ done.down = UInt(LongMinus(Long(r.downloaded) * charged, e.totalDownloaded))
            /\ done.up = UInt(LongMinus(Long(r.uploaded), e.totalUploaded))
<1> DEFINE parted == Parting(joined, side, r)
           e  == joined.peers[side][r.peer]
           e1 == parted.peers[side][r.peer]
<1>1. /\ IsTorrent(parted, PeerID, Owners) /\ Has(parted, side, r.peer)
  BY AfterParting
<1>2. /\ Shaped(joined) /\ Shaped(parted)
      /\ e \in PeerType(Owners) /\ e1 \in PeerType(Owners)
  BY <1>1, TorrentShaped DEF Has
<1>3. /\ EntryOnly(parted, joined, side, r.peer)
      /\ e1.user = e.user /\ e1.totalDownloaded = e.totalDownloaded
      /\ e1.totalUploaded = e.totalUploaded
  <2>1. CASE r.event # "stopped"
    BY <2>1 DEF Parting, EntryOnly, Has
  <2>2. CASE r.event = "stopped"
    <3>1. parted = [joined EXCEPT !.peers[side][r.peer].active = FALSE]
      BY <2>2 DEF Parting
    <3> HIDE DEF parted
    <3>2. /\ parted.free = joined.free
          /\ \A s \in Sides \ {side} : parted.peers[s] = joined.peers[s]
          /\ parted.peers[side] = [joined.peers[side] EXCEPT ![r.peer].active = FALSE]
      BY <1>2, <3>1 DEF Shaped
    <3>3. e1 = [e EXCEPT !.active = FALSE]
      BY <3>2 DEF Has
    <3>4. EntryOnly(parted, joined, side, r.peer)
      BY <3>2 DEF EntryOnly, Has
    <3> HIDE DEF e, e1
    <3> QED BY <1>2, <3>3, <3>4 DEF PeerType
  <2> QED BY <2>1, <2>2
<1> DEFINE d    == Long(r.downloaded) * charged
           q    == UpdatedStats(e1, d, r)
           dd   == LongMinus(d, e1.totalDownloaded)
           du   == LongMinus(Long(r.uploaded), e1.totalUploaded)
           put  == SetPeer(parted, side, r.peer, q)
           sum  == Long(put.balance + LongMinus(Long(r.corrupt), Long(e1.corrupt))
                                    + LongMinus(du, dd))
           t    == [put EXCEPT !.balance = sum]
<1>4. Accounted(parted, side, r, charged) = [tor |-> t, down |-> UInt(dd), up |-> UInt(du)]
  BY DEF Accounted
<1>5. /\ UInt(dd) = UInt(LongMinus(d, e.totalDownloaded))
      /\ UInt(du) = UInt(LongMinus(Long(r.uploaded), e.totalUploaded))
  BY <1>3
<1>6. /\ q.user = e1.user /\ q.totalDownloaded = d /\ q.idle = 0
      /\ q.totalUploaded = Long(r.uploaded)
  <2> HIDE DEF e1, d
  <2> QED BY <1>2 DEF UpdatedStats, PeerType
<1>7. IsTorrent(t, PeerID, Owners) /\ Has(t, side, r.peer)
  <2>1. /\ IsTorrent(Accounted(parted, side, r, charged).tor, PeerID, Owners)
        /\ Has(Accounted(parted, side, r, charged).tor, side, r.peer)
    <3> HIDE DEF parted
    <3> QED BY <1>1, AfterStats
  <2> HIDE DEF t, dd, du
  <2> QED BY <1>4, <2>1
<1> HIDE DEF parted, q, dd, du, sum, e, e1, d
<1>8. /\ Shaped(put) /\ EntryOnly(put, parted, side, r.peer)
      /\ put.peers[side][r.peer] = q
  BY <1>2, SetPeerChanges DEF EntryOnly
<1>9. t.free = put.free /\ t.peers = put.peers
  <2> HIDE DEF put
  <2> QED BY <1>8 DEF Shaped
<1> HIDE DEF put, t
<1>10. EntryOnly(t, joined, side, r.peer) /\ t.peers[side][r.peer] = q
  BY <1>3, <1>8, <1>9 DEF EntryOnly
<1> QED BY <1>3, <1>4, <1>5, <1>6, <1>7, <1>10 DEF parted, e, d

\* What the handler multiplies the download by is what the announce finds.
LEMMA PriceFound ==
  ASSUME TypeOK, Private, NEW r \in Announces,
         NEW leeching, NEW joined, joined.free = TorrentAnnounced(r).free,
         Downloading(r) => leeching.peers[Leechers(r.ipv6)][r.peer].user = Owner(r)
  PROVE  LET first == leeching.peers[Leechers(r.ipv6)][r.peer].user
             token == Downloading(r) /\ Private /\ HasToken(first, r.hash)
         IN Charged(joined, r, token) = IF Free(r) THEN 0 ELSE 1
<1> DEFINE first == leeching.peers[Leechers(r.ipv6)][r.peer].user
           token == Downloading(r) /\ Private /\ HasToken(first, r.hash)
<1>1. Downloading(r) => (token <=> HasToken(Owner(r), r.hash))
  OBVIOUS
<1> HIDE DEF token
<1>2. Free(r) <=> Downloading(r) /\ (joined.free = 100 \/ leechStatus = "FREELEECH" \/ token)
  BY <1>1 DEF Free
<1> QED BY <1>2 DEF Charged, token

\* The difference of two totals, cut to a long and then to an unsigned int.
LEMMA Difference ==
  ASSUME NEW a \in Nat, NEW b \in Nat
  PROVE  UInt(LongMinus(Long(a), Long(b))) = UInt(a - b)
<1>1. a - b \in Int /\ LongMinus(Long(a), Long(b)) = Long(a - b)
  BY CountLess
<1> QED BY <1>1, Narrowed

\* What updateStats hands on is what is due.
LEMMA DueCharged ==
  ASSUME NEW r \in AnnounceRequest, NEW l \in Said, l = last[<<r.hash, r.peer>>],
         NEW charged, charged = (IF Free(r) THEN 0 ELSE 1), NEW e,
         e.totalDownloaded =
           (IF ~Resumed(r) THEN Long(r.downloaded) ELSE IF l.free THEN 0 ELSE Long(l.down)),
         e.totalUploaded = (IF ~Resumed(r) THEN Long(r.uploaded) ELSE Long(l.up))
  PROVE  /\ UInt(LongMinus(Long(r.uploaded), e.totalUploaded)) = UInt(Due(r).up)
         /\ SamePrice(r) =>
              UInt(LongMinus(Long(r.downloaded) * charged, e.totalDownloaded)) = UInt(Due(r).down)
<1>1. /\ r.downloaded \in Nat /\ r.uploaded \in Nat /\ l.down \in Nat /\ l.up \in Nat
      /\ 0 \in Nat
  BY DEF AnnounceRequest, Said
<1>2. Long(0) = 0 /\ Long(r.downloaded) \in Int
  BY <1>1, SwarmAssumption, Widths DEF Long
<1>3. Long(r.downloaded) * 0 = 0 /\ Long(r.downloaded) * 1 = Long(r.downloaded)
  BY <1>2
<1>4. r.downloaded - r.downloaded = 0 /\ r.uploaded - r.uploaded = 0 /\ 0 - 0 = 0
  BY <1>1
<1>5. UInt(LongMinus(Long(r.uploaded), e.totalUploaded)) = UInt(Due(r).up)
  <2>1. CASE Resumed(r)
    <3>1. Due(r).up = r.uploaded - l.up
      BY <2>1 DEF Due
    <3> QED BY <1>1, <2>1, <3>1, Difference
  <2>2. CASE ~Resumed(r)
    <3>1. Due(r).up = 0
      BY <2>2 DEF Due, NoTraffic
    <3> QED BY <1>1, <1>4, <2>2, <3>1, Difference
  <2> QED BY <2>1, <2>2
<1>6. ASSUME SamePrice(r)
      PROVE  UInt(LongMinus(Long(r.downloaded) * charged, e.totalDownloaded)) = UInt(Due(r).down)
  <2>1. Free(r) <=> (Resumed(r) /\ l.free)
    BY <1>6 DEF SamePrice
  <2>2. CASE Free(r)
    <3>1. Due(r).down = 0 /\ e.totalDownloaded = Long(0) /\ charged = 0
      BY <1>2, <2>1, <2>2 DEF Due, NoTraffic
    <3>2. UInt(LongMinus(Long(0), Long(0))) = UInt(0)
      BY <1>1, <1>4, Difference
    <3> QED BY <1>2, <1>3, <3>1, <3>2
  <2>3. CASE ~Free(r) /\ Resumed(r)
    <3>1. Due(r).down = r.downloaded - l.down /\ e.totalDownloaded = Long(l.down) /\ charged = 1
      BY <2>1, <2>3 DEF Due
    <3> QED BY <1>1, <1>3, <3>1, Difference
  <2>4. CASE ~Free(r) /\ ~Resumed(r)
    <3>1. Due(r).down = 0 /\ e.totalDownloaded = Long(r.downloaded) /\ charged = 1
      BY <2>4 DEF Due, NoTraffic
    <3> QED BY <1>1, <1>3, <1>4, <3>1, Difference
  <2> QED BY <2>2, <2>3, <2>4
<1> QED BY <1>5, <1>6
\* The announce of a client that goes on from its last one, or from nothing:
\* its account is charged what is due, and the client stays traced.
LEMMA AnnounceCharges ==
  ASSUME TypeOK, Private, Traces, NEW r \in Announces, Announce(r), Known(r) => Steady(r)
  PROVE  /\ \A v \in UserRef \ {Owner(r)} : userRow'[v] = userRow[v]
         /\ userRow'[Owner(r)].up = Long(userRow[Owner(r)].up + UInt(Due(r).up))
         /\ SamePrice(r) => userRow'[Owner(r)].down
                              = Long(userRow[Owner(r)].down + UInt(Due(r).down))
         /\ r.event # "stopped" =>
              Traced(torMap'[r.hash], r.peer, last'[<<r.hash, r.peer>>])
<1> DEFINE old  == TorrentAnnounced(r)
           c    == <<r.hash, r.peer>>
           u    == Owner(r)
           l    == last[c]
<1>1. Admitted(r) /\ Remember(r)
  BY DEF Announce
<1>2. /\ r \in AnnounceRequest /\ IsTorrent(old, PeerID, Owners) /\ u \in Owners
      /\ r.left \in {0, 1} /\ r.ipv6 \in BOOLEAN /\ r.peer \in PeerID /\ c \in Clients
  BY <1>1, AnnounceTyped DEF AnnounceRequest, Clients
<1>a. PICK leeching \in AsLeecher(old, r) :
        \E joined \in IF r.left = 0 THEN AsSeeder(leeching, r) ELSE {leeching} :
          Handled(r, leeching, joined)
  BY DEF Announce
<1>3. PICK joined \in IF r.left = 0 THEN AsSeeder(leeching, r) ELSE {leeching} :
        Handled(r, leeching, joined)
  BY <1>a
<1> DEFINE side    == SideUsed(leeching, r)
           first   == leeching.peers[Leechers(r.ipv6)][r.peer].user
           token   == Downloading(r) /\ Private /\ HasToken(first, r.hash)
           charged == Charged(joined, r, token)
           e       == joined.peers[side][r.peer]
           done    == Accounted(Parting(joined, side, r), side, r, charged)
           p       == done.tor.peers[side][r.peer]
           after   == Departed(done.tor, r)
<1>4. /\ side \in Sides
      /\ Grown(leeching, old, r, IF Downloading(r) THEN {Leechers(r.ipv6)} ELSE {})
      /\ Grown(joined, leeching, r, {side})
  BY <1>2, AnnounceGrows
<1>5. /\ \A s \in Sides : Has(joined, s, r.peer) =>
           /\ joined.peers[s][r.peer].user = u
           /\ s \in {Seeders(r.ipv6), Leechers(r.ipv6)}
           /\ r.left = 1 => s = Leechers(r.ipv6)
      /\ Has(joined, side, r.peer)
      /\ e.totalDownloaded =
           (IF ~Resumed(r) THEN Long(r.downloaded) ELSE IF l.free THEN 0 ELSE Long(l.down))
      /\ e.totalUploaded = (IF ~Resumed(r) THEN Long(r.uploaded) ELSE Long(l.up))
  BY <1>1, PeerFound
<1>6. l \in Said
  BY <1>2 DEF TypeOK, HistoryOK
<1>7. /\ IsTorrent(leeching, PeerID, Owners)
      /\ Downloading(r) => Has(leeching, Leechers(r.ipv6), r.peer)
  BY <1>2, AfterLeecher
<1>8. IsTorrent(joined, PeerID, Owners)
  BY <1>2, <1>7, AfterSeeder
<1>9. charged = IF Free(r) THEN 0 ELSE 1
  <2>1. joined.free = old.free
    BY <1>4 DEF Grown
  <2>2. ASSUME Downloading(r) PROVE first = u
    <3>1. Leechers(r.ipv6) \in Sides /\ Has(leeching, Leechers(r.ipv6), r.peer)
      BY <1>2, <1>7, <2>2, SidesOf
    <3> QED BY <1>4, <1>5, <3>1 DEF Grown, SameEntry, Kin
  <2> QED BY <2>1, <2>2, PriceFound
<1>10. /\ torMap' = Put(torMap, r.hash, after)
       /\ userRow' = [userRow EXCEPT ![p.user] =
                        [down |-> Long(@.down + done.down), up |-> Long(@.up + done.up)]]
  BY <1>3 DEF Handled
<1> HIDE DEF side, charged, old, u, l, c
<1>11. /\ IsTorrent(done.tor, PeerID, Owners)
       /\ EntryOnly(done.tor, joined, side, r.peer)
       /\ p.user = u /\ p.idle = 0
       /\ p.totalDownloaded = Long(r.downloaded) * charged
       /\ p.totalUploaded = Long(r.uploaded)
       /\ done.down = UInt(LongMinus(Long(r.downloaded) * charged, e.totalDownloaded))
       /\ done.up = UInt(LongMinus(Long(r.uploaded), e.totalUploaded))
  <2>1. charged \in {0, 1}
    BY <1>9
  <2>2. e.user = u
    BY <1>4, <1>5
  <2> HIDE DEF e, done
  <2>3. /\ IsTorrent(done.tor, PeerID, Owners)
        /\ EntryOnly(done.tor, joined, side, r.peer)
        /\ p.user = joined.peers[side][r.peer].user /\ p.idle = 0
        /\ p.totalDownloaded = Long(r.downloaded) * charged
        /\ p.totalUploaded = Long(r.uploaded)
        /\ done.down = UInt(LongMinus(Long(r.downloaded) * charged,
                                      joined.peers[side][r.peer].totalDownloaded))
        /\ done.up = UInt(LongMinus(Long(r.uploaded), joined.peers[side][r.peer].totalUploaded))
    BY <1>2, <1>4, <1>5, <1>8, <2>1, StatsCharge DEF done
  <2> QED BY <2>2, <2>3 DEF e
<1> HIDE DEF e, done, p
<1>12. /\ done.up = UInt(Due(r).up)
       /\ SamePrice(r) => done.down = UInt(Due(r).down)
  BY <1>2, <1>5, <1>6, <1>9, <1>11, DueCharged DEF l, c
<1>13. /\ \A v \in UserRef \ {u} : userRow'[v] = userRow[v]
       /\ userRow'[u].up = Long(userRow[u].up + UInt(Due(r).up))
       /\ SamePrice(r) => userRow'[u].down = Long(userRow[u].down + UInt(Due(r).down))
  <2>1. u \in UserRef /\ userRow \in [UserRef -> Sums]
    BY <1>2 DEF Owners, TypeOK, UsersOK, RowsOK
  <2>2. userRow' = [userRow EXCEPT ![u] = [down |-> Long(userRow[u].down + done.down),
                                           up   |-> Long(userRow[u].up + done.up)]]
    BY <1>10, <1>11
  <2> QED BY <1>12, <2>1, <2>2
<1>14. ASSUME r.event # "stopped"
       PROVE  Traced(torMap'[r.hash], r.peer, last'[c])
  <2> DEFINE n == [user |-> u, ipv6 |-> r.ipv6, left |-> r.left, down |-> r.downloaded,
                   up |-> r.uploaded, free |-> Free(r)]
  <2>1. last'[c] = n
    <3>1. last' = [last EXCEPT ![c] = n]
      BY <1>1, <1>14 DEF Remember, c, u
    <3> QED BY <1>2, <3>1 DEF TypeOK, HistoryOK
  <2>2. torMap'[r.hash] = after
    BY <1>10 DEF Put
  <2>a. \A s \in Sides :
          /\ \A id \in DOMAIN after.peers[s] : after.peers[s][id] = done.tor.peers[s][id]
          /\ Has(after, s, r.peer) <=> /\ Has(done.tor, s, r.peer)
                                       /\ ~(r.event = "stopped" /\ s = Deserted(r))
                                       /\ ~(r.event = "completed" /\ s = Leechers(~r.ipv6))
    <3>1. r \in AnnounceRequest /\ IsTorrent(done.tor, PeerID, Owners)
      BY <1>2, <1>11
    <3>2. IsTorrent(Departed(done.tor, r), PeerID, Owners)
      BY <3>1, AfterDeparture
    <3> QED BY <3>1, <3>2, AfterDeparture
  <2> HIDE DEF after
  <2>3. \A s \in Sides :
          /\ Has(after, s, r.peer) <=> Has(joined, s, r.peer)
          /\ Has(after, s, r.peer) => after.peers[s][r.peer] = done.tor.peers[s][r.peer]
    <3> TAKE s \in Sides
    <3>1. Has(done.tor, s, r.peer) <=> Has(joined, s, r.peer)
      BY <1>4, <1>5, <1>11 DEF EntryOnly, Has
    <3>2. Has(joined, s, r.peer) => s # Leechers(~r.ipv6)
      <4>1. Leechers(~r.ipv6) \notin {Seeders(r.ipv6), Leechers(r.ipv6)}
        BY <1>2 DEF Seeders, Leechers
      <4> QED BY <1>5, <4>1
    <3> QED BY <1>14, <2>a, <3>1, <3>2 DEF Has
  <2>4. \A s \in Sides : Has(after, s, r.peer) =>
          /\ Has(joined, s, r.peer)
          /\ s = side => after.peers[s][r.peer] = p
          /\ s # side => after.peers[s][r.peer] = joined.peers[s][r.peer]
    BY <1>11, <2>3 DEF EntryOnly, p
  <2>5. OwnEntries(after, r.peer, n)
    BY <1>5, <1>11, <2>4 DEF OwnEntries
  <2>6. Main(after, r.peer, n) = side
    <3>1. \A s \in Sides : Has(after, s, r.peer) <=> Has(leeching, s, r.peer) \/ s = side
      BY <1>4, <2>3 DEF Grown
    <3>2. Seeders(r.ipv6) \in Sides /\ "leechers" \in Sides /\ Seeders(r.ipv6) # "leechers"
      BY <1>2, SidesOf DEF Seeders
    <3>3. side = IF r.left # 0 THEN Leechers(r.ipv6)
                 ELSE IF ~Has(leeching, Seeders(r.ipv6), r.peer) /\ Has(leeching, "leechers", r.peer)
                      THEN "leechers" ELSE Seeders(r.ipv6)
      BY DEF side, SideUsed
    <3>4. Main(after, r.peer, n)
            = IF r.left # 0 THEN Leechers(r.ipv6)
              ELSE IF ~Has(after, Seeders(r.ipv6), r.peer) /\ Has(after, "leechers", r.peer)
                   THEN "leechers" ELSE Seeders(r.ipv6)
      BY DEF Main, SideUsed
    <3> QED BY <3>1, <3>2, <3>3, <3>4
  <2>7. /\ Has(after, side, r.peer) /\ after.peers[side][r.peer] = p
    BY <1>4, <1>5, <2>3, <2>4
  <2>8. p.totalDownloaded = IF Free(r) THEN 0 ELSE Long(r.downloaded)
    <3>1. Long(r.downloaded) \in Int
      BY <1>2, SwarmAssumption, Widths DEF AnnounceRequest
    <3>2. Long(r.downloaded) * 0 = 0 /\ Long(r.downloaded) * 1 = Long(r.downloaded)
      BY <3>1
    <3> QED BY <1>9, <1>11, <3>2
  <2>9. \A s \in Sides : Has(after, s, r.peer) => p.idle <= after.peers[s][r.peer].idle
    <3> SUFFICES ASSUME NEW s \in Sides, Has(after, s, r.peer)
                 PROVE  p.idle <= after.peers[s][r.peer].idle
      OBVIOUS
    <3>1. CASE s = side
      BY <1>11, <2>7, <3>1
    <3>2. CASE s # side
      <4>1. joined.peers[s][r.peer] \in PeerType(Owners)
        BY <1>8, <2>4, TorrentShaped DEF Has
      <4>2. joined.peers[s][r.peer].idle \in Nat
        BY <4>1, SwarmAssumption DEF PeerType, Age
      <4> QED BY <1>11, <2>4, <3>2, <4>2
    <3> QED BY <3>1, <3>2
  <2>10. MainEntry(after, r.peer, n)
    BY <1>11, <2>6, <2>7, <2>8, <2>9 DEF MainEntry
  <2> QED BY <2>1, <2>2, <2>5, <2>10 DEF Traced
<1> QED BY <1>13, <1>14 DEF u, c
\* An announce leaves the other clients of its torrent as they were.
LEMMA OthersSame ==
  ASSUME TypeOK, NEW r \in Announces, Announce(r), NEW h \in DOMAIN torMap',
         NEW id \in PeerID, <<h, id>> # <<r.hash, r.peer>>
  PROVE  LET tor == IF h \in DOMAIN torMap THEN torMap[h] ELSE NewTorrent(0) IN
         \A s \in Sides : /\ Has(torMap'[h], s, id) <=> Has(tor, s, id)
                          /\ Has(torMap'[h], s, id) => torMap'[h].peers[s][id] = tor.peers[s][id]
<1>1. PICK t : \E side \in Sides : Outcome(r, t, side)
  BY AnnounceOutcome
<1>2. /\ r \in AnnounceRequest /\ IsTorrent(t, PeerID, Owners)
      /\ Evolved(t, TorrentAnnounced(r), r)
      /\ torMap' = Put(torMap, r.hash, Departed(t, r))
  BY <1>1, AnnounceTyped DEF Announce, Outcome
<1>3. CASE h # r.hash
  BY <1>2, <1>3 DEF Put
<1>4. CASE h = r.hash
  <2>1. /\ id # r.peer /\ torMap'[h] = Departed(t, r)
        /\ TorrentAnnounced(r) = IF h \in DOMAIN torMap THEN torMap[h] ELSE NewTorrent(0)
    BY <1>2, <1>4 DEF Put, TorrentAnnounced
  <2>2. IsTorrent(Departed(t, r), PeerID, Owners)
    BY <1>2, AfterDeparture
  <2>3. \A s \in Sides :
          /\ DOMAIN Departed(t, r).peers[s] \ {r.peer} = DOMAIN t.peers[s] \ {r.peer}
          /\ \A i \in DOMAIN Departed(t, r).peers[s] : Departed(t, r).peers[s][i] = t.peers[s][i]
    BY <1>2, <2>2, AfterDeparture
  <2>4. \A s \in Sides :
          /\ DOMAIN t.peers[s] \ {r.peer} = DOMAIN TorrentAnnounced(r).peers[s] \ {r.peer}
          /\ \A i \in DOMAIN TorrentAnnounced(r).peers[s] \ {r.peer} :
               t.peers[s][i] = TorrentAnnounced(r).peers[s][i]
    BY <1>2 DEF Evolved
  <2> QED BY <2>1, <2>3, <2>4 DEF Has
<1> QED BY <1>3, <1>4

-----------------------------------------------------------------------------
(* The invariant and the property *)

\* A map without the client of a new torrent.
LEMMA TracedNew ==
  ASSUME NEW id, NEW l
  PROVE  Traced(NewTorrent(0), id, l)
  BY TracedAbsent, NewTorrentTyped

\* Every step keeps the clients traced.
LEMMA TracesStep ==
  ASSUME TypeOK, Traces, [Next]_vars
  PROVE  Traces'
<1> SUFFICES ASSUME Private, NEW h \in DOMAIN torMap', NEW id \in PeerID,
                    last'[<<h, id>>].user # "nobody"
             PROVE  Traced(torMap'[h], id, last'[<<h, id>>])
  BY DEF Traces
<1> DEFINE c   == <<h, id>>
           l   == last[c]
           tor == IF h \in DOMAIN torMap THEN torMap[h] ELSE NewTorrent(0)
<1>1. c \in Clients => l \in Said
  BY DEF TypeOK, HistoryOK
<1>2. l.user # "nobody" => Traced(tor, id, l)
  BY TracedNew DEF Traces
<1>3. h \in DOMAIN torMap => IsTorrent(tor, PeerID, Owners)
  BY DEF TypeOK, TorrentsOK
<1> HIDE DEF tor
<1>4. ASSUME last'[c] = l, c \in Clients,
             \A s \in Sides : /\ Has(torMap'[h], s, id) <=> Has(tor, s, id)
                              /\ Has(torMap'[h], s, id) =>
                                   torMap'[h].peers[s][id] = tor.peers[s][id]
      PROVE  Traced(torMap'[h], id, last'[c])
  BY <1>1, <1>2, <1>4, TracedSame
<1>5. CASE AnnounceStep
  <2>1. PICK r \in Announces : Announce(r)
    BY <1>5 DEF AnnounceStep
  <2>2. /\ r \in AnnounceRequest /\ r.hash \in InfoHash
        /\ DOMAIN torMap' = DOMAIN torMap \cup {r.hash}
    <3>1. PICK t : \E side \in Sides : Outcome(r, t, side)
      BY <2>1, AnnounceOutcome
    <3> QED BY <2>1, <3>1, AnnounceTyped DEF Announce, Outcome, Put, AnnounceRequest
  <2>3. c \in Clients
    BY <2>2 DEF TypeOK, TorrentsOK, Clients
  <2> DEFINE n == IF r.event = "stopped" \/ (Known(r) /\ ~Steady(r)) THEN Silent
                  ELSE [user |-> Owner(r), ipv6 |-> r.ipv6, left |-> r.left,
                        down |-> r.downloaded, up |-> r.uploaded, free |-> Free(r)]
  <2>4. last' = [last EXCEPT ![<<r.hash, r.peer>>] = n] /\ last \in [Clients -> Said]
    BY <2>1 DEF Announce, Remember, TypeOK, HistoryOK
  <2>5. CASE c = <<r.hash, r.peer>>
    <3>1. last'[c] = n
      BY <2>3, <2>4, <2>5
    <3>2. r.event # "stopped" /\ (Known(r) => Steady(r))
      BY <3>1 DEF Silent
    <3>3. Traced(torMap'[r.hash], r.peer, last'[<<r.hash, r.peer>>])
      BY <2>1, <3>2, AnnounceCharges
    <3> QED BY <2>5, <3>3
  <2>6. CASE c # <<r.hash, r.peer>>
    <3>1. last'[c] = l
      BY <2>3, <2>4, <2>6
    <3>2. \A s \in Sides : /\ Has(torMap'[h], s, id) <=> Has(tor, s, id)
                           /\ Has(torMap'[h], s, id) =>
                                torMap'[h].peers[s][id] = tor.peers[s][id]
      BY <2>1, <2>6, OthersSame DEF tor
    <3> QED BY <1>4, <2>3, <3>1, <3>2
  <2> QED BY <2>5, <2>6
<1>6. ASSUME NEW g \in InfoHash, NEW flag \in {"0", "1", "2"}, AddTorrent(g, flag)
      PROVE  Traced(torMap'[h], id, last'[c])
  <2>1. /\ DOMAIN torMap' = DOMAIN torMap \cup {g}
        /\ \A k \in DOMAIN torMap : k # g => torMap'[k] = torMap[k]
        /\ torMap'[g].peers = (IF g \in DOMAIN torMap THEN torMap[g] ELSE NewTorrent(0)).peers
        /\ last' = last
    BY <1>6, AddedTorrent DEF AddTorrent, history
  <2>2. torMap'[h].peers = tor.peers /\ c \in Clients
    BY <2>1 DEF tor, TypeOK, TorrentsOK, Clients
  <2> QED BY <1>4, <2>1, <2>2 DEF Has
<1>7. ASSUME NEW g \in InfoHash, NEW flag \in {"0", "1", "2"}, UpdateTorrent(g, flag)
      PROVE  Traced(torMap'[h], id, last'[c])
  <2>1. /\ DOMAIN torMap' = DOMAIN torMap /\ torMap'[h].peers = torMap[h].peers
        /\ last' = last
    BY <1>7, UpdatedTorrent DEF UpdateTorrent, history
  <2>2. torMap'[h].peers = tor.peers /\ c \in Clients
    BY <2>1 DEF tor, TypeOK, TorrentsOK, Clients
  <2> QED BY <1>4, <2>1, <2>2 DEF Has
<1>8. ASSUME NEW g \in InfoHash, DeleteTorrent(g)
      PROVE  Traced(torMap'[h], id, last'[c])
  <2>1. /\ torMap' = Drop(torMap, {g})
        /\ last' = [d \in Clients |-> IF d[1] = g THEN Silent ELSE last[d]]
    BY <1>8 DEF DeleteTorrent
  <2>2. h # g /\ h \in DOMAIN torMap /\ torMap'[h] = tor /\ c \in Clients
    BY <2>1 DEF tor, TypeOK, TorrentsOK, Clients, Drop
  <2>3. last'[c] = l
    BY <2>1, <2>2
  <2> QED BY <1>4, <2>2, <2>3
<1>9. CASE UNCHANGED <<torMap, stats, cleared, rows, history>>
  <2>1. torMap' = torMap /\ last' = last
    BY <1>9 DEF history
  <2>2. torMap'[h] = tor /\ c \in Clients
    BY <2>1 DEF tor, TypeOK, TorrentsOK, Clients
  <2> QED BY <1>4, <2>1, <2>2
<1>10. CASE UpdateStep
  BY <1>6, <1>7, <1>8, <1>9, <1>10, UpdateOfTorrents
<1>11. CASE ClearTorrentPeers
  <2>1. /\ h \in DOMAIN torMap /\ torMap'[h] = Swept(torMap[h]) /\ last' = last
    BY <1>11, ClearedTorrents DEF ClearTorrentPeers, history
  <2>2. tor = torMap[h] /\ c \in Clients
    BY <2>1 DEF tor, TypeOK, TorrentsOK, Clients
  <2>3. Traced(tor, id, l) /\ l \in Said
    BY <1>1, <1>2, <2>1, <2>2
  <2> QED BY <1>3, <2>1, <2>2, <2>3, TracedSwept
<1>12. CASE Tick
  <2>1. /\ h \in DOMAIN torMap
        /\ \A s \in Sides :
             /\ DOMAIN torMap'[h].peers[s] = DOMAIN torMap[h].peers[s]
             /\ \A i \in DOMAIN torMap[h].peers[s] :
                  torMap'[h].peers[s][i] = PeerAged(torMap[h].peers[s][i])
        /\ last' = last
    BY <1>12, TickedTorrents DEF Tick
  <2>2. tor = torMap[h] /\ c \in Clients
    BY <2>1 DEF tor, TypeOK, TorrentsOK, Clients
  <2>3. Traced(tor, id, l) /\ l \in Said
    BY <1>1, <1>2, <2>1, <2>2
  <2> QED BY <1>3, <2>1, <2>2, <2>3, TracedAged
<1>13. CASE RestartStep
  <2>1. PICK site \in Databases, answered \in Answered : torMap' = LoadTorrents(site, answered)
    BY <1>13 DEF RestartStep, Restart
  <2>2. \A s \in Sides : ~Has(torMap'[h], s, id)
    BY <2>1, LoadedTorrents
  <2> QED BY <2>2, TracedAbsent
<1>14. CASE UNCHANGED vars
  BY <1>9, <1>14 DEF vars, rows, history
<1> QED BY <1>5, <1>10, <1>11, <1>12, <1>13, <1>14 DEF Next

\* On a private tracker, an announce charges the client's account, and no other,
\* what the client reports since its last announce, modulo the widths of the
\* counters: whichever of the four maps holds the peer, however often it completes,
\* stops, times out and comes back, across the site's updates and restarts.  Not
\* covered are the announces that change the account, the family or from a seeder
\* to a leecher, and the download of one that changes from free to charged or back
\* (requestHandler.cpp:117-169, peer.cpp:55-59, user.cpp:28-31).
THEOREM ChargesCorrect == Spec => ChargedAsAnnounced
<1>1. Init => Traces
  <2> SUFFICES ASSUME Init PROVE Traces
    OBVIOUS
  <2>1. \A c \in Clients : last[c].user = "nobody"
    BY DEF Init, Silent
  <2>2. PICK site \in Databases, answered \in Answered : torMap = LoadTorrents(site, answered)
    BY DEF Init
  <2>3. \A h \in DOMAIN torMap : \A s \in Sides : \A id : ~Has(torMap[h], s, id)
    BY <2>2, LoadedTorrents
  <2> QED BY <2>3, TracedAbsent DEF Traces
<1>2. TypeOK /\ Traces /\ [Next]_vars => Traces'
  BY TracesStep
<1>3. TypeOK /\ Traces /\ [Next]_vars
        => [\A r \in Announces :
              Private /\ (Known(r) => Steady(r)) /\ Announce(r) =>
                LET u == Owner(r) IN
                /\ \A v \in UserRef \ {u} : userRow'[v] = userRow[v]
                /\ userRow'[u].up = Long(userRow[u].up + UInt(Due(r).up))
                /\ SamePrice(r) =>
                     userRow'[u].down = Long(userRow[u].down + UInt(Due(r).down))]_vars
  BY AnnounceCharges
<1> QED BY <1>1, <1>2, <1>3, TypeCorrect, PTL DEF Spec, ChargedAsAnnounced
=============================================================================
