---------------------------- MODULE RecordProofs ----------------------------
(***************************************************************************)
(* Proofs about RequestHandler: what the tracker counts and records agrees *)
(* with its maps, and its maps with what the clients announced.            *)
(***************************************************************************)
EXTENDS RequestHandlerProofs

-----------------------------------------------------------------------------
(* Steps, as the invariants see them *)

\* A tracker is of one type.
LEMMA OneType == Private => ~Public
  BY DEF Private, Public

\* An update of a public tracker does nothing at all.
LEMMA UpdatesArePrivate == UpdateStep => Private
  BY DEF UpdateStep, Update, AddIPRestriction, RemoveIPRestriction, AddToken, RemoveToken,
         ChangePasskey, AddUser, UpdateUser, RemoveUsers, AddTorrent, UpdateTorrent,
         DeleteTorrent, Ban, Whitelist, SetLeechStatus

\* An update changes torrents only by adding one, changing the flag of one, or
\* deleting one.
LEMMA UpdateOfTorrents ==
  ASSUME UpdateStep
  PROVE  \/ \E h \in InfoHash, flag \in {"0", "1", "2"} : AddTorrent(h, flag) \/ UpdateTorrent(h, flag)
         \/ \E h \in InfoHash : DeleteTorrent(h)
         \/ UNCHANGED <<torMap, stats, cleared, rows, history>>
  BY DEF UpdateStep, AddIPRestriction, RemoveIPRestriction, AddToken, RemoveToken, UserOnly,
         ChangePasskey, AddUser, UpdateUser, RemoveUsers, Ban, Whitelist, SetLeechStatus,
         memory

\* The torrent the site adds: a new one, or the one that is there.
LEMMA AddedTorrent ==
  ASSUME TypeOK, NEW h \in InfoHash, NEW flag, AddTorrent(h, flag)
  PROVE  LET tor == IF h \in DOMAIN torMap THEN torMap[h] ELSE NewTorrent(0) IN
         /\ DOMAIN torMap' = DOMAIN torMap \cup {h}
         /\ \A g \in DOMAIN torMap : g # h => torMap'[g] = torMap[g]
         /\ torMap'[h].peers = tor.peers
         /\ Row(torMap'[h]) = Row(tor)
         /\ torrentRow' = IF h \in DOMAIN torMap THEN torrentRow
                          ELSE Put(torrentRow, h, Row(NewTorrent(0)))
         /\ UNCHANGED <<cleared, peerRow, seen, stopped>>
<1> DEFINE tor  == TorrentAnnounced([hash |-> h])
           free == FreeOf(flag, tor.free)
           t    == [tor EXCEPT !.free = free]
<1>1. IsTorrent(tor, PeerID, Owners)
  BY NewTorrentTyped DEF TorrentAnnounced, TypeOK, TorrentsOK
<1>2. /\ torMap' = Put(torMap, h, t)
      /\ torrentRow' = IF h \in DOMAIN torMap THEN torrentRow
                       ELSE Put(torrentRow, h, Row(NewTorrent(0)))
      /\ UNCHANGED <<cleared, peerRow, seen, stopped>>
  BY DEF AddTorrent, history
<1>3. tor = IF h \in DOMAIN torMap THEN torMap[h] ELSE NewTorrent(0)
  BY DEF TorrentAnnounced
<1> HIDE DEF tor, free
<1>4. t.peers = tor.peers /\ t.snatches = tor.snatches /\ t.balance = tor.balance
  BY <1>1 DEF IsTorrent
<1> HIDE DEF t
<1>5. Row(t) = Row(tor)
  BY <1>4, SameRow
<1>6. /\ DOMAIN torMap' = DOMAIN torMap \cup {h} /\ torMap'[h] = t
      /\ \A g \in DOMAIN torMap : g # h => torMap'[g] = torMap[g]
  BY <1>2 DEF Put
<1> QED BY <1>2, <1>3, <1>4, <1>5, <1>6

\* The torrent whose free flag the site changes.
LEMMA UpdatedTorrent ==
  ASSUME TypeOK, NEW h \in InfoHash, NEW flag, UpdateTorrent(h, flag)
  PROVE  /\ h \in DOMAIN torMap /\ DOMAIN torMap' = DOMAIN torMap
         /\ \A g \in DOMAIN torMap : /\ torMap'[g].peers = torMap[g].peers
                                     /\ Row(torMap'[g]) = Row(torMap[g])
         /\ UNCHANGED <<stats, cleared, torrentRow, peerRow, seen, stopped>>
<1> DEFINE free == FreeOf(flag, 0)
           t    == [torMap[h] EXCEPT !.free = free]
<1>1. /\ h \in DOMAIN torMap
      /\ torMap' = [torMap EXCEPT ![h].free = free]
      /\ UNCHANGED <<stats, cleared, torrentRow, peerRow, seen, stopped>>
  BY DEF UpdateTorrent, rows, history
<1> HIDE DEF free
<1>2. IsTorrent(torMap[h], PeerID, Owners)
  BY <1>1 DEF TypeOK, TorrentsOK
<1>3. /\ t.peers = torMap[h].peers /\ t.snatches = torMap[h].snatches
      /\ t.balance = torMap[h].balance
  BY <1>2 DEF IsTorrent
<1>4. /\ DOMAIN torMap' = DOMAIN torMap /\ torMap'[h] = t
      /\ \A g \in DOMAIN torMap : g # h => torMap'[g] = torMap[g]
  BY <1>1
<1> HIDE DEF t
<1>5. Row(t) = Row(torMap[h])
  BY <1>3, SameRow
<1> QED BY <1>1, <1>3, <1>4, <1>5

\* What the clearing timer leaves of the torrents.
LEMMA ClearedTorrents ==
  ASSUME TypeOK, ClearTorrentPeers
  PROVE  LET empty == {h \in DOMAIN torMap : Emptied(Swept(torMap[h]))} IN
         /\ DOMAIN torMap' = DOMAIN torMap \ empty
         /\ \A h \in DOMAIN torMap' : torMap'[h] = Swept(torMap[h])
         /\ ~Public => empty = {}
         /\ stats'.torrents = LongMinus(stats.torrents, Long(Cardinality(empty)))
<1> DEFINE swept == [h \in DOMAIN torMap |-> Swept(torMap[h])]
           empty == {h \in DOMAIN swept : Emptied(swept[h])}
<1>1. /\ torMap' = Drop(swept, empty)
      /\ stats' = [stats EXCEPT !.torrents = LongMinus(stats.torrents, Long(Cardinality(empty)))]
  BY DEF ClearTorrentPeers
<1>2. empty = {h \in DOMAIN torMap : Emptied(Swept(torMap[h]))}
  OBVIOUS
<1>3. ~Public => empty = {}
  BY DEF Emptied
<1> HIDE DEF empty
<1>4. stats \in [peers : 0 .. LongMod - 1, torrents : 0 .. LongMod - 1]
  BY DEF TypeOK, TorrentsOK
<1>5. stats'.torrents = LongMinus(stats.torrents, Long(Cardinality(empty)))
  BY <1>1, <1>4
<1> QED BY <1>1, <1>2, <1>3, <1>5 DEF Drop

\* The clock ages the peers of every torrent and leaves its row.
LEMMA TickedTorrents ==
  ASSUME TypeOK, Tick
  PROVE  /\ DOMAIN torMap' = DOMAIN torMap
         /\ \A h \in DOMAIN torMap :
              /\ Row(torMap'[h]) = Row(torMap[h])
              /\ \A s \in Sides :
                   /\ DOMAIN torMap'[h].peers[s] = DOMAIN torMap[h].peers[s]
                   /\ \A id \in DOMAIN torMap[h].peers[s] :
                        torMap'[h].peers[s][id] = PeerAged(torMap[h].peers[s][id])
         /\ UNCHANGED <<stats, cleared, torrentRow, peerRow, stopped>>
         /\ seen' = [c \in Clients |-> Older(seen[c])]
<1>1. /\ DOMAIN torMap' = DOMAIN torMap
      /\ \A h \in DOMAIN torMap : torMap'[h] = Aged(torMap[h])
      /\ UNCHANGED <<stats, cleared, torrentRow, peerRow, stopped>>
      /\ seen' = [c \in Clients |-> Older(seen[c])]
  BY DEF Tick, rows
<1>2. ASSUME NEW h \in DOMAIN torMap
      PROVE  LET tor == torMap[h]
                 t   == Aged(tor)
             IN /\ t.snatches = tor.snatches /\ t.balance = tor.balance
                /\ \A s \in Sides :
                     /\ DOMAIN t.peers[s] = DOMAIN tor.peers[s]
                     /\ \A id \in DOMAIN t.peers[s] : t.peers[s][id] = PeerAged(tor.peers[s][id])
  <2>1. IsTorrent(torMap[h], PeerID, Owners)
    BY DEF TypeOK, TorrentsOK
  <2> QED BY <2>1, TorrentShaped, AgedChanges
<1>3. \A h \in DOMAIN torMap : Row(Aged(torMap[h])) = Row(torMap[h])
  BY <1>2, SameRow
<1> QED BY <1>1, <1>2, <1>3

-----------------------------------------------------------------------------
(* The statistics of a public tracker *)

\* Adding one torrent, taking many away: the counter follows.
LEMMA StatsStep ==
  ASSUME TypeOK, StatsTorrents, [Next]_vars
  PROVE  StatsTorrents'
<1> SUFFICES ASSUME Public
             PROVE  stats'.torrents = Long(Cardinality(DOMAIN torMap'))
  BY DEF StatsTorrents
<1>1. /\ IsFiniteSet(DOMAIN torMap) /\ Cardinality(DOMAIN torMap) \in Int
      /\ stats.torrents = Long(Cardinality(DOMAIN torMap))
  BY TorrentsFinite DEF TypeOK, TorrentsOK, StatsTorrents
<1>2. CASE AnnounceStep
  <2>1. PICK r \in Announces : Announce(r)
    BY <1>2 DEF AnnounceStep
  <2>2. PICK tor : \E side \in Sides : Outcome(r, tor, side)
    BY <2>1, AnnounceOutcome
  <2>3. DOMAIN torMap' = DOMAIN torMap \cup {r.hash} /\ stats'.torrents = TorrentsCounted(r.hash)
    BY <2>2 DEF Outcome, Put
  <2>4. CASE r.hash \in DOMAIN torMap
    <3>1. DOMAIN torMap' = DOMAIN torMap
      BY <2>3, <2>4
    <3> QED BY <1>1, <2>3, <2>4, <3>1 DEF TorrentsCounted
  <2>5. CASE r.hash \notin DOMAIN torMap
    <3>1. Cardinality(DOMAIN torMap') = Cardinality(DOMAIN torMap) + 1
      BY <1>1, <2>3, <2>5, FS_AddElement
    <3>2. stats'.torrents = Long(Long(Cardinality(DOMAIN torMap)) + 1)
      BY <1>1, <2>3, <2>5 DEF TorrentsCounted
    <3> QED BY <1>1, <3>1, <3>2, OneMore
  <2> QED BY <2>4, <2>5
<1>3. CASE UpdateStep
  BY <1>3, OneType, UpdatesArePrivate
<1>4. CASE ClearTorrentPeers
  <2> DEFINE all   == DOMAIN torMap
             empty == {h \in all : Emptied(Swept(torMap[h]))}
  <2>1. /\ DOMAIN torMap' = all \ empty /\ empty \subseteq all
        /\ stats'.torrents = LongMinus(stats.torrents, Long(Cardinality(empty)))
    BY <1>4, ClearedTorrents
  <2> HIDE DEF empty, all
  <2>2. Cardinality(empty) \in Int /\ all \cap empty = empty
    BY <1>1, <2>1, FS_Subset, FS_CardinalityType DEF all
  <2>3. Cardinality(all \ empty) = Cardinality(all) - Cardinality(empty)
    BY <1>1, <2>2, FS_Difference DEF all
  <2>4. LongMinus(Long(Cardinality(all)), Long(Cardinality(empty)))
          = Long(Cardinality(all) - Cardinality(empty))
    BY <1>1, <2>2, CountLess DEF all
  <2> QED BY <1>1, <2>1, <2>3, <2>4 DEF all
<1>5. CASE Tick
  <2>1. DOMAIN torMap' = DOMAIN torMap /\ stats' = stats
    BY <1>5, TickedTorrents
  <2> QED BY <1>1, <2>1
<1>6. CASE RestartStep
  <2>1. stats' = [peers |-> 0, torrents |-> Long(Cardinality(DOMAIN torMap'))]
    BY <1>6 DEF RestartStep, Restart
  <2> QED BY <2>1
<1>7. CASE UNCHANGED vars
  BY <1>1, <1>7 DEF vars
<1> QED BY <1>2, <1>3, <1>4, <1>5, <1>6, <1>7 DEF Next

\* A public tracker counts its torrents, modulo the width of the counter: what
\* announces add and the clearing timer erases balances.
THEOREM StatsCorrect == Spec => []StatsTorrents
<1>1. Init => StatsTorrents
  BY DEF Init, StatsTorrents
<1>2. TypeOK /\ StatsTorrents /\ [Next]_vars => StatsTorrents'
  BY StatsStep
<1> QED BY <1>1, <1>2, TypeCorrect, PTL DEF Spec

-----------------------------------------------------------------------------
(* The rows of the torrents *)

\* The torrents with a row are those in memory.
RowPerTorrent == ~Public => DOMAIN torrentRow = DOMAIN torMap

\* A torrent and its row change together, or the row does not show the change.
LEMMA RowStep ==
  ASSUME TypeOK, RowPerTorrent, TorrentRowCurrent, [Next]_vars
  PROVE  RowPerTorrent' /\ TorrentRowCurrent'
<1>1. CASE Public
  BY <1>1 DEF RowPerTorrent, TorrentRowCurrent
<1>2. ASSUME ~Public
      PROVE  /\ DOMAIN torrentRow' = DOMAIN torMap'
             /\ cleared' => \A h \in DOMAIN torMap' : torrentRow'[h] = Row(torMap'[h])
  <2>1. /\ DOMAIN torrentRow = DOMAIN torMap
        /\ cleared => \A h \in DOMAIN torMap : torrentRow[h] = Row(torMap[h])
    BY <1>2 DEF RowPerTorrent, TorrentRowCurrent
  <2>2. CASE AnnounceStep
    <3>1. PICK r \in Announces : Announce(r)
      BY <2>2 DEF AnnounceStep
    <3>2. PICK tor : \E side \in Sides : Outcome(r, tor, side)
      BY <3>1, AnnounceOutcome
    <3>3. /\ torMap' = Put(torMap, r.hash, Departed(tor, r))
          /\ torrentRow' = Put(torrentRow, r.hash, Row(Departed(tor, r)))
          /\ cleared' = cleared
      BY <1>2, <3>1, <3>2 DEF Outcome, Announce
    <3> QED BY <2>1, <3>3 DEF Put
  <2>3. ASSUME NEW h \in InfoHash, NEW flag \in {"0", "1", "2"}, AddTorrent(h, flag)
        PROVE  <1>2!2
    <3> DEFINE tor == IF h \in DOMAIN torMap THEN torMap[h] ELSE NewTorrent(0)
    <3>1. /\ DOMAIN torMap' = DOMAIN torMap \cup {h}
          /\ \A g \in DOMAIN torMap : g # h => torMap'[g] = torMap[g]
          /\ Row(torMap'[h]) = Row(tor)
          /\ torrentRow' = IF h \in DOMAIN torMap THEN torrentRow
                           ELSE Put(torrentRow, h, Row(NewTorrent(0)))
          /\ cleared' = cleared
      BY <2>3, AddedTorrent
    <3> QED BY <2>1, <3>1 DEF Put
  <2>4. ASSUME NEW h \in InfoHash, NEW flag \in {"0", "1", "2"}, UpdateTorrent(h, flag)
        PROVE  <1>2!2
    BY <2>1, <2>4, UpdatedTorrent
  <2>5. ASSUME NEW h \in InfoHash, DeleteTorrent(h)
        PROVE  <1>2!2
    <3>1. /\ torMap' = Drop(torMap, {h}) /\ torrentRow' = Drop(torrentRow, {h})
          /\ cleared' = cleared
      BY <2>5 DEF DeleteTorrent
    <3> QED BY <2>1, <3>1 DEF Drop
  <2>6. CASE UNCHANGED <<torMap, stats, cleared, rows, history>>
    BY <2>1, <2>6 DEF rows
  <2>7. CASE UpdateStep
    BY <2>3, <2>4, <2>5, <2>6, <2>7, UpdateOfTorrents
  <2>8. CASE ClearTorrentPeers
    <3> DEFINE swept == [h \in DOMAIN torMap |-> Swept(torMap[h])]
    <3>1. /\ DOMAIN torMap' = DOMAIN torMap
          /\ \A h \in DOMAIN torMap : torMap'[h] = Swept(torMap[h])
      BY <1>2, <2>8, ClearedTorrents
    <3>2. /\ torrentRow' = [h \in DOMAIN torrentRow |->
                              IF Changed(torMap[h]) THEN Row(swept[h]) ELSE torrentRow[h]]
          /\ cleared' = cleared
      BY <1>2, <2>8 DEF ClearTorrentPeers
    <3>3. \A h \in DOMAIN torMap : ~Changed(torMap[h]) => Swept(torMap[h]) = torMap[h]
      BY DEF Changed
    <3> QED BY <2>1, <3>1, <3>2, <3>3
  <2>9. CASE Tick
    BY <2>1, <2>9, TickedTorrents
  <2>10. CASE RestartStep
    <3>1. /\ DOMAIN torrentRow' = DOMAIN torMap'
          /\ \A h \in DOMAIN torMap' : cleared' => torrentRow'[h] = Row(torMap'[h])
      BY <2>10 DEF RestartStep, Restart
    <3> QED BY <3>1
  <2>11. CASE UNCHANGED vars
    BY <2>1, <2>11 DEF vars
  <2> QED BY <2>2, <2>7, <2>8, <2>9, <2>10, <2>11 DEF Next
<1> QED BY <1>1, <1>2 DEF RowPerTorrent, TorrentRowCurrent

\* The newest row handed to the database for a torrent is the torrent in memory,
\* whatever changed it: announces, the site, the clearing timer or a restart.
THEOREM RowsCorrect == Spec => []TorrentRowCurrent
<1>1. Init => RowPerTorrent /\ TorrentRowCurrent
  BY DEF Init, RowPerTorrent, TorrentRowCurrent
<1>2. TypeOK /\ RowPerTorrent /\ TorrentRowCurrent /\ [Next]_vars
        => RowPerTorrent' /\ TorrentRowCurrent'
  BY RowStep
<1> QED BY <1>1, <1>2, TypeCorrect, PTL DEF Spec

-----------------------------------------------------------------------------
(* The rows of the peers *)

\* A public tracker records nobody.
NobodyRecorded == Public => \A c \in Clients : peerRow[c] = "none"

\* An announce leaves the other clients of its torrent where they are.
LEMMA OthersKept ==
  ASSUME TypeOK, NEW r \in Announces, NEW tor, NEW side \in Sides, Announce(r),
         Outcome(r, tor, side), NEW c \in Clients, c # <<r.hash, r.peer>>,
         NEW s \in Sides, c[1] \in DOMAIN torMap, Has(torMap[c[1]], s, c[2])
  PROVE  /\ c[1] \in DOMAIN torMap' /\ Has(torMap'[c[1]], s, c[2])
         /\ torMap'[c[1]].peers[s][c[2]] = torMap[c[1]].peers[s][c[2]]
<1>1. /\ r \in AnnounceRequest /\ torMap' = Put(torMap, r.hash, Departed(tor, r))
  BY AnnounceTyped DEF Announce, Outcome
<1>2. CASE c[1] # r.hash
  BY <1>1, <1>2 DEF Put
<1>3. CASE c[1] = r.hash
  <2> DEFINE old == torMap[r.hash]
             t   == Departed(tor, r)
  <2>1. c[2] # r.peer
    BY <1>3 DEF Clients
  <2>2. torMap'[c[1]] = t /\ c[1] \in DOMAIN torMap'
    BY <1>1, <1>3 DEF Put
  <2>3. TorrentAnnounced(r) = old
    BY <1>3 DEF TorrentAnnounced
  <2>4. /\ DOMAIN tor.peers[s] \ {r.peer} = DOMAIN old.peers[s] \ {r.peer}
        /\ \A id \in DOMAIN old.peers[s] \ {r.peer} : tor.peers[s][id] = old.peers[s][id]
    BY <2>3 DEF Outcome, Evolved
  <2>5. /\ DOMAIN t.peers[s] \ {r.peer} = DOMAIN tor.peers[s] \ {r.peer}
        /\ \A id \in DOMAIN t.peers[s] : t.peers[s][id] = tor.peers[s][id]
    BY <1>1, AfterDeparture DEF Outcome
  <2> HIDE DEF t
  <2> QED BY <1>3, <2>1, <2>2, <2>4, <2>5 DEF Has
<1> QED BY <1>2, <1>3

\* A client recorded as active is still there when the handler is done.
LEMMA ActiveKept ==
  ASSUME TypeOK, NEW r \in Announces, NEW tor, NEW side \in Sides, Announce(r),
         Outcome(r, tor, side), tor.peers[side][r.peer].active
  PROVE  \E s \in Sides : Has(Departed(tor, r), s, r.peer)
<1> DEFINE t == Departed(tor, r)
<1>1. /\ r \in AnnounceRequest /\ r.event # "stopped"
      /\ Has(tor, side, r.peer)
      /\ Downloading(r) => Has(tor, Leechers(r.ipv6), r.peer)
  BY AnnounceTyped DEF Announce, Outcome
<1>2. \A s \in Sides : Has(t, s, r.peer) <=> /\ Has(tor, s, r.peer)
                                             /\ ~(r.event = "completed" /\ s = Leechers(~r.ipv6))
  BY <1>1, AfterDeparture DEF Outcome
<1> HIDE DEF t
<1>3. CASE r.event = "completed"
  <2>1. Leechers(r.ipv6) \in Sides /\ Leechers(r.ipv6) # Leechers(~r.ipv6)
    BY <1>1 DEF AnnounceRequest, Leechers, Sides
  <2> QED BY <1>1, <1>2, <1>3, <2>1 DEF t, Downloading
<1>4. CASE r.event # "completed"
  BY <1>1, <1>2, <1>4 DEF t
<1> QED BY <1>3, <1>4

\* No step strands an active row but the deletion of the torrent and a start
\* whose reset() fails.
LEMMA StrandedStep ==
  ASSUME TypeOK, NobodyRecorded, [Next]_vars
  PROVE  /\ NobodyRecorded'
         /\ \A c \in Clients :
              Stranded(c)' => Stranded(c) \/ DeleteTorrent(c[1]) \/ (RestartStep /\ ~cleared')
<1>0. Clients' = Clients /\ peerRow \in [Clients -> {"none", "active", "inactive"}]
  BY DEF Clients, TypeOK, RowsOK
<1>1. ASSUME Public
      PROVE  \A c \in Clients : peerRow'[c] = "none"
  <2>1. \A c \in Clients : peerRow[c] = "none"
    BY <1>1 DEF NobodyRecorded
  <2>2. CASE AnnounceStep
    <3>1. PICK r \in Announces : Announce(r)
      BY <2>2 DEF AnnounceStep
    <3>2. PICK tor : \E side \in Sides : Outcome(r, tor, side)
      BY <3>1, AnnounceOutcome
    <3> QED BY <1>1, <2>1, <3>2 DEF Outcome
  <2>3. CASE UpdateStep
    BY <1>1, <2>3, OneType, UpdatesArePrivate
  <2>4. CASE ClearTorrentPeers
    BY <1>1, <2>1, <2>4 DEF ClearTorrentPeers
  <2>5. CASE Tick
    BY <2>1, <2>5, TickedTorrents
  <2>6. CASE RestartStep
    BY <1>1, <2>1, <2>6 DEF RestartStep, Restart
  <2>7. CASE UNCHANGED vars
    BY <2>1, <2>7 DEF vars
  <2> QED BY <2>2, <2>3, <2>4, <2>5, <2>6, <2>7 DEF Next
<1>2. ASSUME ~Public, NEW c \in Clients, peerRow'[c] = "active", ~Stranded(c),
             ~DeleteTorrent(c[1]), ~(RestartStep /\ ~cleared')
      PROVE  c[1] \in DOMAIN torMap' /\ \E s \in Sides : Has(torMap'[c[1]], s, c[2])
  <2>1. ASSUME peerRow[c] = "active"
        PROVE  c[1] \in DOMAIN torMap /\ \E s \in Sides : Has(torMap[c[1]], s, c[2])
    BY <1>2, <2>1 DEF Stranded, Swarming, In
  <2>2. CASE AnnounceStep
    <3>1. PICK r \in Announces : Announce(r)
      BY <2>2 DEF AnnounceStep
    <3>a. PICK tor : \E side \in Sides : Outcome(r, tor, side)
      BY <3>1, AnnounceOutcome
    <3>2. PICK side \in Sides : Outcome(r, tor, side)
      BY <3>a
    <3>3. /\ torMap' = Put(torMap, r.hash, Departed(tor, r))
          /\ peerRow' = [peerRow EXCEPT ![<<r.hash, r.peer>>] =
                           IF tor.peers[side][r.peer].active THEN "active" ELSE "inactive"]
      BY <1>2, <3>1, <3>2 DEF Outcome, Announce
    <3>4. CASE c = <<r.hash, r.peer>>
      <4>1. tor.peers[side][r.peer].active
        BY <1>0, <1>2, <3>3, <3>4
      <4>2. \E s \in Sides : Has(Departed(tor, r), s, r.peer)
        BY <3>1, <3>2, <4>1, ActiveKept
      <4>3. torMap'[c[1]] = Departed(tor, r) /\ c[1] \in DOMAIN torMap' /\ c[2] = r.peer
        BY <3>3, <3>4 DEF Put
      <4> QED BY <4>2, <4>3
    <3>5. CASE c # <<r.hash, r.peer>>
      <4>1. peerRow[c] = "active"
        BY <1>0, <1>2, <3>3, <3>5
      <4>2. c[1] \in DOMAIN torMap
        BY <2>1, <4>1
      <4>3. PICK s \in Sides : Has(torMap[c[1]], s, c[2])
        BY <2>1, <4>1
      <4>4. c[1] \in DOMAIN torMap' /\ Has(torMap'[c[1]], s, c[2])
        BY <3>1, <3>2, <3>5, <4>2, <4>3, OthersKept
      <4> QED BY <4>4
    <3> QED BY <3>4, <3>5
  <2>3. ASSUME NEW h \in InfoHash, NEW flag \in {"0", "1", "2"}, AddTorrent(h, flag)
        PROVE  <1>2!7
    <3>1. /\ DOMAIN torMap' = DOMAIN torMap \cup {h}
          /\ \A g \in DOMAIN torMap : torMap'[g].peers = torMap[g].peers
          /\ peerRow' = peerRow
      BY <2>3, AddedTorrent
    <3> QED BY <1>2, <2>1, <3>1 DEF Has
  <2>4. ASSUME NEW h \in InfoHash, NEW flag \in {"0", "1", "2"}, UpdateTorrent(h, flag)
        PROVE  <1>2!7
    <3>1. /\ DOMAIN torMap' = DOMAIN torMap
          /\ \A g \in DOMAIN torMap : torMap'[g].peers = torMap[g].peers
          /\ peerRow' = peerRow
      BY <2>4, UpdatedTorrent
    <3> QED BY <1>2, <2>1, <3>1 DEF Has
  <2>5. ASSUME NEW h \in InfoHash, DeleteTorrent(h)
        PROVE  <1>2!7
    <3>1. torMap' = Drop(torMap, {h}) /\ peerRow' = peerRow
      BY <2>5 DEF DeleteTorrent
    <3>2. c[1] # h /\ peerRow[c] = "active"
      BY <1>2, <2>5, <3>1
    <3>3. c[1] \in DOMAIN torMap' /\ torMap'[c[1]] = torMap[c[1]]
      BY <1>2, <2>1, <3>1, <3>2 DEF Drop
    <3> QED BY <1>2, <2>1, <3>1, <3>2, <3>3
  <2>6. CASE UNCHANGED <<torMap, stats, cleared, rows, history>>
    BY <1>2, <2>1, <2>6 DEF rows
  <2>7. CASE UpdateStep
    BY <2>3, <2>4, <2>5, <2>6, <2>7, UpdateOfTorrents
  <2>8. CASE ClearTorrentPeers
    <3>1. /\ DOMAIN torMap' = DOMAIN torMap
          /\ \A h \in DOMAIN torMap : torMap'[h] = Swept(torMap[h])
      BY <1>2, <2>8, ClearedTorrents
    <3>2. peerRow' = [d \in Clients |->
                        IF \E side \in Sides : /\ d[1] \in DOMAIN torMap
                                               /\ d[2] \in Expired(torMap[d[1]], side)
                        THEN "inactive" ELSE peerRow[d]]
      BY <1>2, <2>8 DEF ClearTorrentPeers
    <3>3. /\ peerRow[c] = "active"
          /\ ~\E side \in Sides : c[1] \in DOMAIN torMap /\ c[2] \in Expired(torMap[c[1]], side)
      BY <1>2, <3>2
    <3>4. c[1] \in DOMAIN torMap
      BY <1>2, <2>1, <3>2, <3>3
    <3>5. PICK s \in Sides : Has(torMap[c[1]], s, c[2])
      BY <1>2, <2>1, <3>2, <3>3
    <3>6. Shaped(torMap[c[1]])
      BY <3>4, TorrentShaped DEF TypeOK, TorrentsOK
    <3>7. DOMAIN Swept(torMap[c[1]]).peers[s] = DOMAIN torMap[c[1]].peers[s] \ Expired(torMap[c[1]], s)
      BY <3>6, SweptChanges
    <3> QED BY <3>1, <3>3, <3>4, <3>5, <3>7 DEF Has
  <2>9. CASE Tick
    <3>1. /\ DOMAIN torMap' = DOMAIN torMap
          /\ \A h \in DOMAIN torMap : \A s \in Sides :
               DOMAIN torMap'[h].peers[s] = DOMAIN torMap[h].peers[s]
          /\ peerRow' = peerRow
      BY <2>9, TickedTorrents
    <3> QED BY <1>2, <2>1, <3>1 DEF Has
  <2>10. CASE RestartStep
    BY <1>2, <2>10 DEF RestartStep, Restart, CountsReset, PeersReset
  <2>11. CASE UNCHANGED vars
    BY <1>2, <2>1, <2>11 DEF vars
  <2> QED BY <2>2, <2>7, <2>8, <2>9, <2>10, <2>11 DEF Next
<1>3. NobodyRecorded'
  BY <1>0, <1>1 DEF NobodyRecorded
<1>4. ASSUME NEW c \in Clients, Stranded(c)'
      PROVE  Stranded(c) \/ DeleteTorrent(c[1]) \/ (RestartStep /\ ~cleared')
  <2>1. peerRow'[c] = "active" /\ ~Swarming(c)'
    BY <1>4 DEF Stranded
  <2>2. ~Public
    BY <1>1, <2>1
  <2> QED BY <1>2, <2>1, <2>2 DEF Swarming, In
<1> QED BY <1>3, <1>4

\* Whatever takes a peer out of the last map that holds it has recorded it as
\* inactive, but for the site's deletion of the torrent: announces and the
\* clearing timer strand no active row, nor does a start whose reset() succeeds.
THEOREM StrandedCorrect == Spec => NobodyStranded
<1>1. Init => NobodyRecorded
  BY DEF Init, NobodyRecorded
<1>2. TypeOK /\ NobodyRecorded /\ [Next]_vars => NobodyRecorded'
  BY StrandedStep
<1>3. TypeOK /\ NobodyRecorded /\ [Next]_vars
        => [\A c \in Clients :
              Stranded(c)' => \/ Stranded(c) \/ DeleteTorrent(c[1])
                              \/ RestartStep /\ ~cleared']_vars
  BY StrandedStep
<1> QED BY <1>1, <1>2, <1>3, TypeCorrect, PTL DEF Spec, NobodyStranded

-----------------------------------------------------------------------------
(* Clients that keep announcing *)

\* Each client announces a torrent over one address family.
OneFamily ==
  \A r, s \in Announces : r.hash = s.hash /\ r.peer = s.peer => r.ipv6 = s.ipv6

\* Peers are in the maps of the family they announce over.
InOwnFamily ==
  \A h \in DOMAIN torMap : \A s \in Sides : \A p \in DOMAIN torMap[h].peers[s] :
     \E r \in Announces : /\ r.hash = h /\ r.peer = p
                          /\ s \in {Seeders(r.ipv6), Leechers(r.ipv6)}

\* Some map holds an entry of the client as young as its last announce.
FreshIn(c, s) ==
  /\ c[1] \in DOMAIN torMap /\ Has(torMap[c[1]], s, c[2])
  /\ torMap[c[1]].peers[s][c[2]].idle <= seen[c]

\* A client that has not stopped nor fallen silent has a fresh entry.
FreshEntries ==
  Private => \A c \in Clients :
               seen[c] <= Timeout /\ c \notin stopped => \E s \in Sides : FreshIn(c, s)

\* An announce puts the client in a map of its family and of no other.
LEMMA FamilyAnnounced ==
  ASSUME TypeOK, InOwnFamily, OneFamily, NEW r \in Announces, Announce(r)
  PROVE  InOwnFamily'
<1>1. PICK tor : \E side \in Sides : Outcome(r, tor, side)
  BY AnnounceOutcome
<1>2. PICK side \in Sides : Outcome(r, tor, side)
  BY <1>1
<1> DEFINE t   == Departed(tor, r)
           old == TorrentAnnounced(r)
<1>3. r \in AnnounceRequest /\ torMap' = Put(torMap, r.hash, t)
  BY <1>2, AnnounceTyped DEF Announce, Outcome
<1>4. \A s \in Sides : DOMAIN t.peers[s] \subseteq DOMAIN tor.peers[s]
  <2>1. /\ \A s \in Sides : DOMAIN t.peers[s] \ {r.peer} = DOMAIN tor.peers[s] \ {r.peer}
        /\ \A s \in Sides : Has(t, s, r.peer) => Has(tor, s, r.peer)
    BY <1>2, <1>3, AfterDeparture DEF Outcome
  <2> HIDE DEF t
  <2> QED BY <2>1 DEF Has
<1> HIDE DEF t
<1>5. ASSUME NEW s \in Sides, NEW p \in DOMAIN tor.peers[s]
      PROVE  \/ r.hash \in DOMAIN torMap /\ p \in DOMAIN torMap[r.hash].peers[s]
             \/ p = r.peer /\ s \in {Seeders(r.ipv6), Leechers(r.ipv6)}
  <2>1. Evolved(tor, old, r)
    BY <1>2 DEF Outcome
  <2>2. p \in DOMAIN old.peers[s] \/ (p = r.peer /\ s \in {Seeders(r.ipv6), Leechers(r.ipv6)})
    BY <1>5, <2>1 DEF Evolved, Has
  <2>3. ASSUME p \in DOMAIN old.peers[s]
        PROVE  r.hash \in DOMAIN torMap /\ old = torMap[r.hash]
    BY <2>3, NewTorrentTyped DEF TorrentAnnounced, Has
  <2> QED BY <2>2, <2>3
<1>6. ASSUME NEW h \in DOMAIN torMap', NEW s \in Sides, NEW p \in DOMAIN torMap'[h].peers[s]
      PROVE  \E q \in Announces : /\ q.hash = h /\ q.peer = p
                                  /\ s \in {Seeders(q.ipv6), Leechers(q.ipv6)}
  <2>1. CASE h = r.hash
    <3>1. p \in DOMAIN tor.peers[s]
      BY <1>3, <1>4, <1>6, <2>1 DEF Put
    <3> QED BY <1>5, <2>1, <3>1 DEF InOwnFamily
  <2>2. CASE h # r.hash
    <3>1. h \in DOMAIN torMap /\ p \in DOMAIN torMap[h].peers[s]
      BY <1>3, <1>6, <2>2 DEF Put
    <3> QED BY <3>1 DEF InOwnFamily
  <2> QED BY <2>1, <2>2
<1> QED BY <1>6 DEF InOwnFamily

\* Nothing else puts a peer anywhere.
LEMMA FamilyStep ==
  ASSUME TypeOK, InOwnFamily, OneFamily, [Next]_vars
  PROVE  InOwnFamily'
<1>1. CASE AnnounceStep
  BY <1>1, FamilyAnnounced DEF AnnounceStep
<1>2. ASSUME \A h \in DOMAIN torMap', s \in Sides : \A p \in DOMAIN torMap'[h].peers[s] :
                h \in DOMAIN torMap /\ p \in DOMAIN torMap[h].peers[s]
      PROVE  InOwnFamily'
  BY <1>2 DEF InOwnFamily
<1>3. ASSUME NEW h \in InfoHash, NEW flag \in {"0", "1", "2"}, AddTorrent(h, flag)
      PROVE  InOwnFamily'
  <2> DEFINE tor == IF h \in DOMAIN torMap THEN torMap[h] ELSE NewTorrent(0)
  <2>1. /\ DOMAIN torMap' = DOMAIN torMap \cup {h}
        /\ \A g \in DOMAIN torMap : g # h => torMap'[g] = torMap[g]
        /\ torMap'[h].peers = tor.peers
    BY <1>3, AddedTorrent
  <2>2. ASSUME h \notin DOMAIN torMap
        PROVE  \A s \in Sides : DOMAIN tor.peers[s] = {}
    BY <2>2, NewTorrentTyped DEF Has
  <2> HIDE DEF tor
  <2>3. ASSUME NEW g \in DOMAIN torMap', NEW s \in Sides, NEW p \in DOMAIN torMap'[g].peers[s]
        PROVE  g \in DOMAIN torMap /\ p \in DOMAIN torMap[g].peers[s]
    BY <2>1, <2>2, <2>3 DEF tor
  <2> QED BY <1>2, <2>3
<1>4. ASSUME NEW h \in InfoHash, NEW flag \in {"0", "1", "2"}, UpdateTorrent(h, flag)
      PROVE  InOwnFamily'
  BY <1>2, <1>4, UpdatedTorrent
<1>5. ASSUME NEW h \in InfoHash, DeleteTorrent(h)
      PROVE  InOwnFamily'
  BY <1>2, <1>5 DEF DeleteTorrent, Drop
<1>6. CASE UNCHANGED <<torMap, stats, cleared, rows, history>>
  BY <1>2, <1>6
<1>7. CASE UpdateStep
  BY <1>3, <1>4, <1>5, <1>6, <1>7, UpdateOfTorrents
<1>8. CASE ClearTorrentPeers
  <2>1. /\ DOMAIN torMap' \subseteq DOMAIN torMap
        /\ \A h \in DOMAIN torMap' : torMap'[h] = Swept(torMap[h])
    BY <1>8, ClearedTorrents
  <2>2. ASSUME NEW h \in DOMAIN torMap, NEW s \in Sides
        PROVE  DOMAIN Swept(torMap[h]).peers[s] \subseteq DOMAIN torMap[h].peers[s]
    <3>1. Shaped(torMap[h])
      BY TorrentShaped DEF TypeOK, TorrentsOK
    <3> QED BY <3>1, SweptChanges
  <2> QED BY <1>2, <2>1, <2>2
<1>9. CASE Tick
  BY <1>2, <1>9, TickedTorrents
<1>10. CASE RestartStep
  <2>1. PICK site \in Databases, answered \in Answered : torMap' = LoadTorrents(site, answered)
    BY <1>10 DEF RestartStep, Restart
  <2>2. \A h \in DOMAIN torMap' : \A s \in Sides : \A id : ~Has(torMap'[h], s, id)
    BY <2>1, LoadedTorrents
  <2> QED BY <1>2, <2>2 DEF Has
<1>11. CASE UNCHANGED vars
  BY <1>2, <1>11 DEF vars
<1> QED BY <1>1, <1>7, <1>8, <1>9, <1>10, <1>11 DEF Next

\* An announce leaves the client with a fresh entry, and those of the others.
LEMMA FreshAnnounced ==
  ASSUME TypeOK, InOwnFamily, OneFamily, FreshEntries, Private,
         NEW r \in Announces, Announce(r),
         NEW c \in Clients, seen'[c] <= Timeout, c \notin stopped'
  PROVE  \E s \in Sides : FreshIn(c, s)'
<1>1. PICK tor : \E side \in Sides : Outcome(r, tor, side)
  BY AnnounceOutcome
<1>2. PICK side \in Sides : Outcome(r, tor, side)
  BY <1>1
<1> DEFINE t   == Departed(tor, r)
           old == TorrentAnnounced(r)
           me  == <<r.hash, r.peer>>
<1>3. /\ r \in AnnounceRequest /\ torMap' = Put(torMap, r.hash, t)
      /\ seen' = [seen EXCEPT ![me] = 0] /\ me \in Clients /\ seen \in [Clients -> Age]
      /\ stopped' = IF r.event = "stopped" THEN stopped \cup {me} ELSE stopped \ {me}
  BY <1>2, AnnounceTyped
     DEF Announce, Outcome, Remember, AnnounceRequest, Clients, TypeOK, HistoryOK
<1>4. CASE c # me
  <2>1. seen'[c] = seen[c] /\ seen[c] <= Timeout /\ c \notin stopped
    BY <1>3, <1>4
  <2>2. PICK s \in Sides : FreshIn(c, s)
    BY <2>1 DEF FreshEntries
  <2>3. /\ c[1] \in DOMAIN torMap' /\ Has(torMap'[c[1]], s, c[2])
        /\ torMap'[c[1]].peers[s][c[2]] = torMap[c[1]].peers[s][c[2]]
    BY <1>2, <1>4, <2>2, OthersKept DEF FreshIn
  <2> QED BY <2>1, <2>2, <2>3 DEF FreshIn
<1>5. CASE c = me
  <2>1. seen'[c] = 0 /\ r.event # "stopped"
    BY <1>3, <1>5
  <2>2. /\ Has(tor, side, r.peer) /\ tor.peers[side][r.peer].idle = 0
        /\ side \in {Leechers(r.ipv6), Seeders(r.ipv6), "leechers"}
        /\ Evolved(tor, old, r)
    BY <1>2 DEF Outcome
  <2>3. side \in {Leechers(r.ipv6), Seeders(r.ipv6)}
    <3>1. CASE Has(old, side, r.peer)
      <4>1. r.hash \in DOMAIN torMap /\ old = torMap[r.hash]
        BY <3>1, NewTorrentTyped DEF TorrentAnnounced
      <4>2. PICK q \in Announces : /\ q.hash = r.hash /\ q.peer = r.peer
                                   /\ side \in {Seeders(q.ipv6), Leechers(q.ipv6)}
        BY <3>1, <4>1 DEF Has, InOwnFamily
      <4> QED BY <4>2 DEF OneFamily
    <3>2. CASE ~Has(old, side, r.peer)
      BY <2>2, <3>2 DEF Evolved
    <3> QED BY <3>1, <3>2
  <2>4. side # Leechers(~r.ipv6)
    BY <1>3, <2>3 DEF AnnounceRequest, Leechers, Seeders
  <2>5. Has(t, side, r.peer) /\ t.peers[side][r.peer] = tor.peers[side][r.peer]
    <3>1. /\ Has(t, side, r.peer) <=> /\ Has(tor, side, r.peer)
                                      /\ ~(r.event = "stopped" /\ side = Deserted(r))
                                      /\ ~(r.event = "completed" /\ side = Leechers(~r.ipv6))
          /\ \A id \in DOMAIN t.peers[side] : t.peers[side][id] = tor.peers[side][id]
      BY <1>2, <1>3, AfterDeparture DEF Outcome
    <3> HIDE DEF t
    <3> QED BY <2>1, <2>2, <2>4, <3>1 DEF Has
  <2>6. c[1] \in DOMAIN torMap' /\ torMap'[c[1]] = t /\ c[2] = r.peer
    BY <1>3, <1>5 DEF Put
  <2> HIDE DEF t
  <2>7. Has(torMap'[c[1]], side, c[2]) /\ torMap'[c[1]].peers[side][c[2]].idle = 0
    BY <2>2, <2>5, <2>6
  <2>8. FreshIn(c, side)'
    BY <2>1, <2>6, <2>7 DEF FreshIn
  <2> QED BY <2>8
<1> QED BY <1>4, <1>5

\* The other steps age a client's entry no faster than its last announce, and
\* take no entry of a client that is heard of.
LEMMA FreshStep ==
  ASSUME TypeOK, InOwnFamily, OneFamily, FreshEntries, Private, [Next]_vars,
         NEW c \in Clients, seen'[c] <= Timeout, c \notin stopped'
  PROVE  \E s \in Sides : FreshIn(c, s)'
<1>1. seen \in [Clients -> Age] /\ ~Public
  BY OneType DEF TypeOK, HistoryOK
<1>2. ASSUME seen[c] <= Timeout, c \notin stopped
      PROVE  \E s \in Sides : FreshIn(c, s)
  BY <1>2 DEF FreshEntries
<1>3. CASE AnnounceStep
  BY <1>3, FreshAnnounced DEF AnnounceStep
<1>4. ASSUME \A h \in DOMAIN torMap : /\ h \in DOMAIN torMap'
                                      /\ torMap'[h].peers = torMap[h].peers,
             UNCHANGED <<seen, stopped>>
      PROVE  \E s \in Sides : FreshIn(c, s)'
  <2>1. PICK s \in Sides : FreshIn(c, s)
    BY <1>2, <1>4
  <2>2. FreshIn(c, s)'
    BY <1>4, <2>1 DEF FreshIn, Has
  <2> QED BY <2>2
<1>5. ASSUME NEW h \in InfoHash, NEW flag \in {"0", "1", "2"}, AddTorrent(h, flag)
      PROVE  \E s \in Sides : FreshIn(c, s)'
  <2>1. /\ DOMAIN torMap' = DOMAIN torMap \cup {h}
        /\ \A g \in DOMAIN torMap : torMap'[g].peers = torMap[g].peers
        /\ UNCHANGED <<seen, stopped>>
    BY <1>5, AddedTorrent
  <2> QED BY <1>4, <2>1
<1>6. ASSUME NEW h \in InfoHash, NEW flag \in {"0", "1", "2"}, UpdateTorrent(h, flag)
      PROVE  \E s \in Sides : FreshIn(c, s)'
  BY <1>4, <1>6, UpdatedTorrent
<1>7. ASSUME NEW h \in InfoHash, DeleteTorrent(h)
      PROVE  \E s \in Sides : FreshIn(c, s)'
  <2>1. /\ torMap' = Drop(torMap, {h}) /\ stopped' = stopped
        /\ seen' = [d \in Clients |-> IF d[1] = h THEN Timeout + 1 ELSE seen[d]]
    BY <1>7 DEF DeleteTorrent
  <2>2. c[1] # h /\ seen'[c] = seen[c]
    BY <2>1, SwarmAssumption
  <2>3. PICK s \in Sides : FreshIn(c, s)
    BY <1>2, <2>1, <2>2
  <2>4. c[1] \in DOMAIN torMap' /\ torMap'[c[1]] = torMap[c[1]]
    BY <2>1, <2>2, <2>3 DEF FreshIn, Drop
  <2>5. FreshIn(c, s)'
    BY <2>2, <2>3, <2>4 DEF FreshIn, Has
  <2> QED BY <2>5
<1>8. CASE UNCHANGED <<torMap, stats, cleared, rows, history>>
  BY <1>4, <1>8 DEF history
<1>9. CASE UpdateStep
  BY <1>5, <1>6, <1>7, <1>8, <1>9, UpdateOfTorrents
<1>10. CASE ClearTorrentPeers
  <2>1. /\ DOMAIN torMap' = DOMAIN torMap
        /\ \A h \in DOMAIN torMap : torMap'[h] = Swept(torMap[h])
        /\ UNCHANGED <<seen, stopped>>
    BY <1>1, <1>10, ClearedTorrents DEF ClearTorrentPeers, history
  <2>2. PICK s \in Sides : FreshIn(c, s)
    BY <1>2, <2>1
  <2> DEFINE tor == torMap[c[1]]
             p   == tor.peers[s][c[2]]
  <2>3. /\ Shaped(tor) /\ p \in PeerType(Owners) /\ Has(tor, s, c[2]) /\ p.idle <= seen[c]
        /\ c[1] \in DOMAIN torMap
    BY <2>2, TorrentShaped DEF TypeOK, TorrentsOK, FreshIn, Has
  <2>4. ~TimedOut(p)
    BY <1>1, <2>1, <2>3, SwarmAssumption DEF TimedOut, PeerType, Age
  <2>5. c[2] \notin Expired(tor, s)
    BY <2>4 DEF Expired
  <2>6. /\ DOMAIN Swept(tor).peers[s] = DOMAIN tor.peers[s] \ Expired(tor, s)
        /\ \A id \in DOMAIN Swept(tor).peers[s] : Swept(tor).peers[s][id] = tor.peers[s][id]
    BY <2>3, SweptChanges
  <2>7. FreshIn(c, s)'
    BY <2>1, <2>3, <2>5, <2>6 DEF FreshIn, Has
  <2> QED BY <2>7
<1>11. CASE Tick
  <2>1. /\ DOMAIN torMap' = DOMAIN torMap
        /\ \A h \in DOMAIN torMap : \A s \in Sides :
             /\ DOMAIN torMap'[h].peers[s] = DOMAIN torMap[h].peers[s]
             /\ \A id \in DOMAIN torMap[h].peers[s] :
                  torMap'[h].peers[s][id] = PeerAged(torMap[h].peers[s][id])
        /\ stopped' = stopped /\ seen' = [d \in Clients |-> Older(seen[d])]
    BY <1>11, TickedTorrents
  <2>2. seen[c] \in Age /\ seen'[c] = Older(seen[c]) /\ seen[c] <= Timeout
    BY <1>1, <2>1, SwarmAssumption DEF Older, Age
  <2>3. PICK s \in Sides : FreshIn(c, s)
    BY <1>2, <2>1, <2>2
  <2> DEFINE p == torMap[c[1]].peers[s][c[2]]
  <2>4. /\ p \in PeerType(Owners) /\ p.idle <= seen[c]
        /\ c[1] \in DOMAIN torMap /\ c[2] \in DOMAIN torMap[c[1]].peers[s]
    BY <2>3, TorrentShaped DEF TypeOK, TorrentsOK, FreshIn, Has
  <2>5. torMap'[c[1]].peers[s][c[2]] = PeerAged(p)
    BY <2>1, <2>4
  <2> HIDE DEF p
  <2>6. PeerAged(p).idle = Older(p.idle) /\ p.idle \in Age
    BY <2>4 DEF PeerAged, PeerType
  <2>7. Older(p.idle) <= Older(seen[c])
    BY <2>2, <2>4, <2>6, SwarmAssumption DEF Older, Age
  <2>8. FreshIn(c, s)'
    BY <2>1, <2>2, <2>4, <2>5, <2>6, <2>7 DEF FreshIn, Has
  <2> QED BY <2>8
<1>12. CASE RestartStep
  <2>1. seen' = [d \in Clients |-> Timeout + 1]
    BY <1>12 DEF RestartStep, Restart
  <2> QED BY <2>1, SwarmAssumption
<1>13. CASE UNCHANGED vars
  BY <1>4, <1>13 DEF vars
<1> QED BY <1>3, <1>9, <1>10, <1>11, <1>12, <1>13 DEF Next

\* On a private tracker where each client announces a torrent over one address
\* family, a client that announces often enough and has not stopped stays in
\* the swarm: through completion, the moves between maps and the clearing timer.
THEOREM AnnouncingCorrect ==
  ASSUME OneFamily
  PROVE  Spec => []KeepsAnnouncing
<1>1. Init => InOwnFamily /\ FreshEntries
  <2> SUFFICES ASSUME Init PROVE InOwnFamily /\ FreshEntries
    OBVIOUS
  <2>1. PICK site \in Databases, answered \in Answered : torMap = LoadTorrents(site, answered)
    BY DEF Init
  <2>2. \A h \in DOMAIN torMap : \A s \in Sides : \A id : ~Has(torMap[h], s, id)
    BY <2>1, LoadedTorrents
  <2>3. \A c \in Clients : ~(seen[c] <= Timeout)
    BY SwarmAssumption DEF Init
  <2> QED BY <2>2, <2>3 DEF InOwnFamily, FreshEntries, Has
<1>2. TypeOK /\ InOwnFamily /\ FreshEntries /\ [Next]_vars => InOwnFamily' /\ FreshEntries'
  <2> SUFFICES ASSUME TypeOK, InOwnFamily, FreshEntries, [Next]_vars
               PROVE  InOwnFamily' /\ FreshEntries'
    OBVIOUS
  <2>1. InOwnFamily'
    BY FamilyStep
  <2>2. ASSUME Private, NEW c \in Clients, seen'[c] <= Timeout, c \notin stopped'
        PROVE  \E s \in Sides : FreshIn(c, s)'
    BY <2>2, FreshStep
  <2> QED BY <2>1, <2>2 DEF FreshEntries
<1>3. FreshEntries => KeepsAnnouncing
  BY DEF FreshEntries, FreshIn, KeepsAnnouncing, Swarming, In
<1> QED BY <1>1, <1>2, <1>3, TypeCorrect, PTL DEF Spec
=============================================================================
