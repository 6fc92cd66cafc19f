--------------------------- MODULE RequestHandler ---------------------------
(***************************************************************************)
(* The request handler (src/handler/requestHandler.cpp, user.cpp): what an *)
(* announce, an update from the site and the peer-clearing timer do to the *)
(* torrents, the users and the rows handed to the database layer.          *)
(*                                                                         *)
(* The server runs one event loop, so every handler is one step.  A torrent*)
(* is known by its info hash and a user by the User object the handler     *)
(* allocates: nothing ever deletes one.  Requests refused without a change *)
(* of state (unknown passkey, banned address, ...) take no step.           *)
(***************************************************************************)
EXTENDS Load

CONSTANTS
  InfoHash,     \* the torrents of the model
  PeerID,       \* peer ids
  Passkey,      \* passkeys
  UserRef,      \* bound: the users, and the User objects that can be allocated
  Client,       \* [PeerID -> the prefix a whitelist entry would match]
  Announces,    \* the announce requests clients send
  Updates,      \* the update types the site sends
  Databases,    \* what the database may hold when the tracker starts
  Answered      \* the sets of queries that may succeed at a start

Prefix == {Client[p] : p \in PeerID}

AnnounceRequest ==
  [passkey : Passkey, hash : InfoHash, peer : PeerID, ip : IP, ipv6 : BOOLEAN,
   left : {0, 1}, event : {"updating", "started", "completed", "stopped"},
   downloaded : Nat, uploaded : Nat, corrupt : Nat]

ASSUME RequestHandlerAssumption ==
  /\ IsFiniteSet(InfoHash) /\ IsFiniteSet(PeerID)
  /\ Announces \subseteq AnnounceRequest
  /\ \A site \in Databases : IsDatabase(site, InfoHash, Passkey, UserRef, Prefix)
  /\ Answered \subseteq SUBSET Queries
  /\ "nobody" \notin UserRef

VARIABLES
  torMap,          \* [info hash -> Torrent]
  usrMap,          \* [passkey -> User object]
  users,           \* [allocated User object -> authorized, tokens, restrictions]
  leechStatus,     \* "NORMAL" or "FREELEECH"
  bannedIPs,
  clientWhitelist,
  stats,           \* Stats::peers and Stats::torrents, unsigned long
  up,              \* no exception has left a handler
  cleared,         \* history: reset() succeeded when the tracker started
  torrentRow,      \* [info hash -> the last row recorded for the Torrent object]
  peerRow,         \* [info hash, peer id -> "none", or the last row's active flag]
  userRow,         \* [User object -> the sums recorded, as the database adds them]
  tokenRow,        \* the last token row recorded: was it expired, was it due?
  seen,            \* history: [info hash, peer id -> age of the last announce]
  stopped,         \* history: <<info hash, peer id>> whose last announce was "stopped"
  last             \* history: [info hash, peer id -> the last announce to go on from]

memory  == <<torMap, usrMap, users>>
access  == <<leechStatus, bannedIPs, clientWhitelist>>
rows    == <<torrentRow, peerRow, userRow, tokenRow>>
history == <<seen, stopped, last>>
vars == <<torMap, usrMap, users, leechStatus, bannedIPs, clientWhitelist, stats, up,
          cleared, torrentRow, peerRow, userRow, tokenRow, seen, stopped, last>>

Clients == InfoHash \X PeerID
NoTraffic == [down |-> 0, up |-> 0]
NoToken == [expired |-> FALSE, due |-> FALSE]
Silent == [user |-> "nobody", ipv6 |-> FALSE, left |-> 1, down |-> 0, up |-> 0, free |-> FALSE]

\* init() on a database that no tracker has written to; main() does not call it
\* for a public tracker, which starts empty.
Init ==
  /\ \E site \in Databases, answered \in Answered :
       /\ torMap = LoadTorrents(site, answered)
       /\ usrMap = LoadPasskeys(site, answered)
       /\ users = LoadUsers(site, answered)
       /\ leechStatus = LoadLeechStatus(site, answered)
       /\ bannedIPs = LoadBannedIPs(site, answered)
       /\ clientWhitelist = LoadClientWhitelist(site, answered)
       /\ up = ~LoadEnds(site, answered)
       /\ cleared = CountsReset(answered)
  /\ stats = [peers |-> 0, torrents |-> Long(Cardinality(DOMAIN torMap))]
  /\ torrentRow = [h \in DOMAIN torMap |-> Row(torMap[h])]
  /\ peerRow = [c \in Clients |-> "none"]
  /\ userRow = [u \in UserRef |-> NoTraffic]
  /\ tokenRow = NoToken
  /\ seen = [c \in Clients |-> Timeout + 1]
  /\ stopped = {}
  /\ last = [c \in Clients |-> Silent]

\* Mutant of PeersReset: nothing empties the table.
PeersKept(answered) == peerRow

PeersReset(answered) ==
  IF "peers" \in answered THEN [c \in Clients |-> "none"] ELSE peerRow

\* The process has ended, at any time and for any reason, and is started again;
\* the site may have changed its tables meanwhile.  Peers are not kept.  The
\* rows are those of the last life, except for what reset() clears.
Restart(site, answered) ==
  /\ torMap' = LoadTorrents(site, answered)
  /\ usrMap' = LoadPasskeys(site, answered)
  /\ users' = LoadUsers(site, answered)
  /\ leechStatus' = LoadLeechStatus(site, answered)
  /\ bannedIPs' = LoadBannedIPs(site, answered)
  /\ clientWhitelist' = LoadClientWhitelist(site, answered)
  /\ up' = ~LoadEnds(site, answered)
  /\ cleared' = CountsReset(answered)
  /\ stats' = [peers |-> 0, torrents |-> Long(Cardinality(DOMAIN torMap'))]
  /\ peerRow' = IF Public THEN peerRow ELSE PeersReset(answered)
  /\ torrentRow' = [h \in DOMAIN torMap' |->
                      IF cleared' \/ h \notin DOMAIN torrentRow THEN Row(torMap'[h])
                      ELSE [torrentRow[h] EXCEPT !.snatches = torMap'[h].snatches,
                                                 !.balance = torMap'[h].balance]]
  /\ seen' = [c \in Clients |-> Timeout + 1]
  /\ stopped' = {} /\ last' = [c \in Clients |-> Silent]
  /\ UNCHANGED <<userRow, tokenRow>>

-----------------------------------------------------------------------------
(* announce *)

Banned(ip) == ip \in bannedIPs
Whitelisted(p) == clientWhitelist = {} \/ Client[p] \in clientWhitelist
Restricted(u, ip) == users[u].restrictions # {} /\ ip \notin users[u].restrictions

\* The checks of handle() and of the first lines of announce().
Admitted(r) ==
  /\ ~Banned(r.ip) /\ Whitelisted(r.peer)
  /\ Private => /\ r.passkey \in DOMAIN usrMap
                /\ ~Restricted(usrMap[r.passkey], r.ip)
                /\ users[usrMap[r.passkey]].authorized
  /\ Public \/ r.hash \in DOMAIN torMap

Downloading(r) == r.left # 0 \/ r.event = "completed"
Owner(r) == IF Private THEN usrMap[r.passkey] ELSE "nobody"

\* The torrent with a new peer in it.
Joined(tor, side, r) == {SetPeer(tor, side, r.peer, p) : p \in NewPeers(r, Owner(r))}

\* The leecher's half: find or add the peer among the leechers of its family,
\* count the snatch.
AsLeecher(tor, r) ==
  LET side  == Leechers(r.ipv6)
      found == IF Has(tor, side, r.peer) THEN {tor} ELSE Joined(tor, side, r)
  IN IF ~Downloading(r) THEN {tor}
     ELSE IF r.event # "completed" THEN found
     ELSE {[t EXCEPT !.peers[side][r.peer].completed = TRUE,
                     !.snatches = UInt(@ + 1)] : t \in found}

\* Mutant of SideUsed: a client that completes is put in anew.
SideUsedAnew(tor, r) == IF r.left # 0 THEN Leechers(r.ipv6) ELSE Seeders(r.ipv6)

\* The seeder's half looks among the seeders of the family, then, whatever the
\* family, among the IPv4 leechers, and adds a seeder last.
SideUsed(tor, r) ==
  IF r.left # 0 THEN Leechers(r.ipv6)
  ELSE IF ~Has(tor, Seeders(r.ipv6), r.peer) /\ Has(tor, "leechers", r.peer) THEN "leechers"
  ELSE Seeders(r.ipv6)

AsSeeder(tor, r) ==
  IF Has(tor, SideUsed(tor, r), r.peer) THEN {tor} ELSE Joined(tor, SideUsed(tor, r), r)

\* Mutant of Parting: inactive() is not called.
PartingActive(tor, side, r) == tor

\* inactive() when the client leaves; nothing sets the flag again.
Parting(tor, side, r) ==
  IF r.event = "stopped" THEN [tor EXCEPT !.peers[side][r.peer].active = FALSE] ELSE tor

\* 1 - free/100, an integer division: free = 50 charges in full.  `free' stays 0
\* outside the leecher's half.
Charged(tor, r, token) ==
  IF Downloading(r) /\ (tor.free = 100 \/ leechStatus = "FREELEECH" \/ token) THEN 0 ELSE 1

\* What is left of the peer in the maps once the handler is done.
Departed(tor, r) ==
  LET t == IF r.event # "stopped" THEN tor
           ELSE RemovePeer(tor, IF r.left # 0 THEN Leechers(r.ipv6) ELSE Seeders(r.ipv6), r.peer)
  IN IF r.event # "completed" THEN t
     ELSE RemovePeer(t, Leechers(~r.ipv6), r.peer)

\* addPeer counts one more, removePeer one less whether it found the peer or not.
PeersCounted(before, after, r) ==
  Long(stats.peers + Cardinality(Entries(after)) - Cardinality(Entries(before))
       + LongMod - (IF r.event \in {"stopped", "completed"} THEN 1 ELSE 0))

\* Mutant of TorrentsCounted: a torrent already there is counted again.
TorrentsCountedAgain(h) == Long(stats.torrents + 1)

TorrentsCounted(h) ==
  IF h \in DOMAIN torMap THEN stats.torrents ELSE Long(stats.torrents + 1)

TorrentAnnounced(r) == IF r.hash \in DOMAIN torMap THEN torMap[r.hash] ELSE NewTorrent(0)

HasToken(u, h) == Private /\ h \in DOMAIN users[u].tokens

Free(r) ==
  /\ Downloading(r)
  /\ \/ TorrentAnnounced(r).free = 100 \/ leechStatus = "FREELEECH"
     \/ HasToken(Owner(r), r.hash)

\* The tracker has not forgotten the client.
Known(r) == r.hash \in DOMAIN torMap /\ In(torMap[r.hash], r.peer)

\* The client goes on from its last announce: with the same account, over the same
\* family, and not from a seeder to a leecher.
Steady(r) ==
  LET l == last[<<r.hash, r.peer>>] IN
  Owner(r) = l.user /\ r.ipv6 = l.ipv6 /\ r.left <= l.left

\* The history.  A client that stops, or does not go on from its last announce,
\* has none to go on from until the tracker has forgotten it.
Remember(r) ==
  LET c == <<r.hash, r.peer>> IN
  /\ seen' = [seen EXCEPT ![c] = 0]
  /\ stopped' = IF r.event = "stopped" THEN stopped \cup {c} ELSE stopped \ {c}
  /\ last' = IF ~Private THEN last
             ELSE [last EXCEPT ![c] =
                     IF r.event = "stopped" \/ (Known(r) /\ ~Steady(r)) THEN Silent
                     ELSE [user |-> Owner(r), ipv6 |-> r.ipv6, left |-> r.left,
                           down |-> r.downloaded, up |-> r.uploaded, free |-> Free(r)]]

\* updateStats on the peer and, through it, on the torrent and the user.  It
\* runs on a private tracker only: elsewhere lastUpdate stays where it was.
Accounted(tor, side, r, charged) ==
  LET p  == tor.peers[side][r.peer]
      d  == Long(r.downloaded) * charged
      dd == LongMinus(d, p.totalDownloaded)
      du == LongMinus(Long(r.uploaded), p.totalUploaded)
  IN IF ~Private THEN [tor |-> tor, down |-> 0, up |-> 0]
     ELSE [tor |-> [SetPeer(tor, side, r.peer, UpdatedStats(p, d, r))
                      EXCEPT !.balance = Long(@ + LongMinus(Long(r.corrupt), Long(p.corrupt))
                                                + LongMinus(du, dd))],
           down |-> UInt(dd), up |-> UInt(du)]

\* The rest of the handler, from the peer it has found or added to the rows it
\* records last.
Handled(r, leeching, joined) ==
  LET side  == SideUsed(leeching, r)
      first == leeching.peers[Leechers(r.ipv6)][r.peer].user
      token == Downloading(r) /\ Private /\ HasToken(first, r.hash)
      done  == Accounted(Parting(joined, side, r), side, r, Charged(joined, r, token))
      p     == done.tor.peers[side][r.peer]
      after == Departed(done.tor, r)
  IN /\ torMap' = Put(torMap, r.hash, after)
     /\ stats' = [peers    |-> PeersCounted(TorrentAnnounced(r), done.tor, r),
                  torrents |-> TorrentsCounted(r.hash)]
     /\ tokenRow' = IF ~token THEN tokenRow
                    ELSE LET age == users[first].tokens[r.hash]
                         IN [expired |-> age < TokenLife, due |-> age >= TokenLife]
     /\ peerRow' = IF Public THEN peerRow
                   ELSE [peerRow EXCEPT ![<<r.hash, r.peer>>] =
                           IF p.active THEN "active" ELSE "inactive"]
     /\ userRow' = IF ~Private THEN userRow
                   ELSE [userRow EXCEPT ![p.user] =
                           [down |-> Long(@.down + done.down), up |-> Long(@.up + done.up)]]
     /\ torrentRow' = IF Public THEN torrentRow ELSE Put(torrentRow, r.hash, Row(after))

Announce(r) ==
  /\ up /\ Admitted(r)
  /\ \E leeching \in AsLeecher(TorrentAnnounced(r), r) :
     \E joined \in IF r.left = 0 THEN AsSeeder(leeching, r) ELSE {leeching} :
        Handled(r, leeching, joined)
  /\ Remember(r)
  /\ UNCHANGED <<usrMap, users, access, up, cleared>>
-----------------------------------------------------------------------------
(* update: what the site changes, on a private tracker only *)

Update(type) == up /\ Private /\ type \in Updates

\* usrMap.at and torMap.at throw when the key is missing; nothing catches it
\* before main(), whose event loop ends.
ChangeUser(found, k, user) ==
  IF found /\ k \in DOMAIN usrMap
  THEN users' = [users EXCEPT ![usrMap[k]] = user] /\ up' = up
  ELSE up' = FALSE /\ users' = users

UserOnly == UNCHANGED <<torMap, usrMap, access, stats, cleared, rows, history>>

AddIPRestriction(k, ip) ==
  /\ Update("add_ip_restriction")
  /\ ChangeUser(TRUE, k, [users[usrMap[k]] EXCEPT !.restrictions = @ \cup {ip}])
  /\ UserOnly

RemoveIPRestriction(k, ip) ==
  /\ Update("remove_ip_restriction")
  /\ ChangeUser(TRUE, k, [users[usrMap[k]] EXCEPT !.restrictions = @ \ {ip}])
  /\ UserOnly

AddToken(k, h) ==
  /\ Update("add_token")
  /\ ChangeUser(h \in DOMAIN torMap, k, [users[usrMap[k]] EXCEPT !.tokens = Put(@, h, 0)])
  /\ UserOnly

RemoveToken(k, h) ==
  /\ Update("remove_token")
  /\ ChangeUser(h \in DOMAIN torMap, k, [users[usrMap[k]] EXCEPT !.tokens = Drop(@, {h})])
  /\ UserOnly

\* emplace leaves an entry that is there alone: the user moved onto a passkey
\* in use is lost.
ChangePasskey(old, new) ==
  /\ Update("change_passkey") /\ old \in DOMAIN usrMap
  /\ LET rest == Drop(usrMap, {old})
     IN usrMap' = IF new \in DOMAIN rest THEN rest ELSE Put(rest, new, usrMap[old])
  /\ UNCHANGED <<torMap, users, access, stats, up, cleared, rows, history>>

\* The user object of a passkey already known is allocated and lost.
AddUser(k, u) ==
  /\ Update("add_user") /\ k \notin DOMAIN usrMap /\ u \notin DOMAIN users
  /\ usrMap' = Put(usrMap, k, u)
  /\ users' = Put(users, u, NewUser(TRUE))
  /\ UNCHANGED <<torMap, access, stats, up, cleared, rows, history>>

UpdateUser(k, canLeech) ==
  /\ Update("update_user") /\ k \in DOMAIN usrMap
  /\ users' = [users EXCEPT ![usrMap[k]].authorized = canLeech]
  /\ UNCHANGED <<torMap, usrMap, access, stats, up, cleared, rows, history>>

\* remove_user is remove_users of one passkey.
RemoveUsers(ks) ==
  /\ Update("remove_users")
  /\ usrMap' = Drop(usrMap, ks)
  /\ UNCHANGED <<torMap, users, access, stats, up, cleared, rows, history>>

\* The site has inserted the torrent's row before it tells the tracker.
AddTorrent(h, freetorrent) ==
  /\ Update("add_torrent")
  /\ LET tor == TorrentAnnounced([hash |-> h])
     IN torMap' = Put(torMap, h, [tor EXCEPT !.free = FreeOf(freetorrent, @)])
  /\ torrentRow' = IF h \in DOMAIN torMap THEN torrentRow
                   ELSE Put(torrentRow, h, Row(NewTorrent(0)))
  /\ UNCHANGED <<usrMap, users, access, stats, up, cleared, peerRow, userRow, tokenRow, history>>

UpdateTorrent(h, freetorrent) ==
  /\ Update("update_torrent") /\ h \in DOMAIN torMap
  /\ torMap' = [torMap EXCEPT ![h].free = FreeOf(freetorrent, 0)]
  /\ UNCHANGED <<usrMap, users, access, stats, up, cleared, rows, history>>

\* Only the map entry goes, and with it the Torrent object: nothing is recorded,
\* of the torrent or of its peers.  The log line reads a number of the node that
\* was erased.  The history forgets its clients.
DeleteTorrent(h) ==
  /\ Update("delete_torrent") /\ h \in DOMAIN torMap
  /\ torMap' = Drop(torMap, {h})
  /\ torrentRow' = Drop(torrentRow, {h})
  /\ seen' = [c \in Clients |-> IF c[1] = h THEN Timeout + 1 ELSE seen[c]]
  /\ last' = [c \in Clients |-> IF c[1] = h THEN Silent ELSE last[c]]
  /\ UNCHANGED <<usrMap, users, access, stats, up, cleared, peerRow, userRow, tokenRow, stopped>>

Ban(type, ips) ==
  /\ Update(type)
  /\ bannedIPs' = IF type = "add_ban" THEN bannedIPs \cup ips ELSE bannedIPs \ ips
  /\ UNCHANGED <<memory, leechStatus, clientWhitelist, stats, up, cleared, rows, history>>

\* The list may hold an entry twice, and remove takes every copy: a set.
Whitelist(type, old, new) ==
  /\ Update(type)
  /\ clientWhitelist' = (clientWhitelist \ old) \cup new
  /\ UNCHANGED <<memory, leechStatus, bannedIPs, stats, up, cleared, rows, history>>

SetLeechStatus(status) ==
  /\ Update("set_leech_status")
  /\ leechStatus' = status
  /\ UNCHANGED <<memory, bannedIPs, clientWhitelist, stats, up, cleared, rows, history>>

UpdateStep ==
  \/ \E k \in Passkey, ip \in IP : AddIPRestriction(k, ip) \/ RemoveIPRestriction(k, ip)
  \/ \E k \in Passkey, h \in InfoHash : AddToken(k, h) \/ RemoveToken(k, h)
  \/ \E old, new \in Passkey : ChangePasskey(old, new)
  \/ \E k \in Passkey, u \in UserRef : AddUser(k, u)
  \/ \E k \in Passkey, canLeech \in BOOLEAN : UpdateUser(k, canLeech)
  \/ \E ks \in SUBSET Passkey : RemoveUsers(ks)
  \/ \E h \in InfoHash, free \in {"0", "1", "2"} : AddTorrent(h, free) \/ UpdateTorrent(h, free)
  \/ \E h \in InfoHash : DeleteTorrent(h)
  \/ \E from, to \in IP : Ban("add_ban", IPRange(from, to)) \/ Ban("remove_ban", IPRange(from, to))
  \/ \E p, q \in Prefix : \/ Whitelist("add_whitelist", {}, {p})
                          \/ Whitelist("edit_whitelist", {p}, {q})
                          \/ Whitelist("remove_whitelist", {p}, {})
  \/ \E status \in {"NORMAL", "FREELEECH"} : SetLeechStatus(status)

-----------------------------------------------------------------------------
(* The timer that clears peers, and time itself *)

\* Mutant of Emptied: the test of the type is inverted.
EmptiedElsewhere(tor) == ~Public /\ Entries(tor) = {}

Emptied(tor) == Public /\ Entries(tor) = {}

\* Every torrent is swept and, on a tracker with a database, the peers that
\* timed out and the torrents that lost one are recorded.  An empty torrent of
\* a public tracker is erased.  Stats::peers is left as it is.
ClearTorrentPeers ==
  /\ up
  /\ LET swept == [h \in DOMAIN torMap |-> Swept(torMap[h])]
         empty == {h \in DOMAIN swept : Emptied(swept[h])}
     IN /\ torMap' = Drop(swept, empty)
        /\ stats' = [stats EXCEPT !.torrents = LongMinus(@, Long(Cardinality(empty)))]
        /\ peerRow' = IF Public THEN peerRow
                      ELSE [c \in Clients |->
                              IF \E side \in Sides : /\ c[1] \in DOMAIN torMap
                                                     /\ c[2] \in Expired(torMap[c[1]], side)
                              THEN "inactive" ELSE peerRow[c]]
        /\ torrentRow' = IF Public THEN torrentRow
                         ELSE [h \in DOMAIN torrentRow |->
                                 IF Changed(torMap[h]) THEN Row(swept[h]) ELSE torrentRow[h]]
  /\ UNCHANGED <<usrMap, users, access, up, cleared, userRow, tokenRow, history>>

OlderToken(age) == IF age >= TokenLife THEN age ELSE age + 1

Tick ==
  /\ up
  /\ torMap' = [h \in DOMAIN torMap |-> Aged(torMap[h])]
  /\ users' = [u \in DOMAIN users |->
                 [users[u] EXCEPT !.tokens = [h \in DOMAIN @ |-> OlderToken(@[h])]]]
  /\ seen' = [c \in Clients |-> Older(seen[c])]
  /\ UNCHANGED <<usrMap, access, stats, up, cleared, rows, stopped, last>>

AnnounceStep == \E r \in Announces : Announce(r)

RestartStep == \E site \in Databases, answered \in Answered : Restart(site, answered)

Next == AnnounceStep \/ UpdateStep \/ ClearTorrentPeers \/ Tick \/ RestartStep

Spec == Init /\ [][Next]_vars

\* libev's repeating timer clears the peers again and again, and time passes.
FairSpec == Spec /\ WF_vars(Tick) /\ WF_vars(ClearTorrentPeers)

-----------------------------------------------------------------------------
(* Properties *)

Swarming(c) == c[1] \in DOMAIN torMap /\ In(torMap[c[1]], c[2])

Sums == [down : 0 .. LongMod - 1, up : 0 .. LongMod - 1]

\* What `last' holds of a client.
Said ==
  [user : UserRef \cup {"nobody"}, ipv6 : BOOLEAN, left : {0, 1}, down : Nat, up : Nat,
   free : BOOLEAN]

\* The User objects a peer may point to.
Owners == IF Private THEN DOMAIN users ELSE {"nobody"}

TorrentsOK ==
  /\ DOMAIN torMap \subseteq InfoHash
  /\ \A h \in DOMAIN torMap : IsTorrent(torMap[h], PeerID, Owners)
  /\ stats \in [peers : 0 .. LongMod - 1, torrents : 0 .. LongMod - 1]

UsersOK ==
  /\ DOMAIN usrMap \subseteq Passkey /\ DOMAIN users \subseteq UserRef
  /\ \A k \in DOMAIN usrMap : usrMap[k] \in DOMAIN users
  /\ \A k, l \in DOMAIN usrMap : usrMap[k] = usrMap[l] => k = l
  /\ \A u \in DOMAIN users : IsUser(users[u], InfoHash)

AccessOK ==
  /\ leechStatus \in {"NORMAL", "FREELEECH"}
  /\ bannedIPs \subseteq IP /\ clientWhitelist \subseteq Prefix
  /\ up \in BOOLEAN /\ cleared \in BOOLEAN

RowsOK ==
  /\ DOMAIN torrentRow \subseteq InfoHash
  /\ peerRow \in [Clients -> {"none", "active", "inactive"}]
  /\ userRow \in [UserRef -> Sums]
  /\ tokenRow \in [expired : BOOLEAN, due : BOOLEAN]

HistoryOK ==
  /\ seen \in [Clients -> Age] /\ stopped \subseteq Clients /\ last \in [Clients -> Said]

\* Every map holds well formed entries, every counter keeps its width, the
\* users that passkeys and peers point to are objects that exist, and no two
\* passkeys lead to the same one (requestHandler.cpp:365-377,416-424).
TypeOK == TorrentsOK /\ UsersOK /\ AccessOK /\ RowsOK /\ HistoryOK

\* Whatever changes a torrent's swarm, its snatches or its balance records it
\* last of all: the newest row handed to the database is the torrent in memory
\* (requestHandler.cpp:189-190, after both removals, and 555-556).
TorrentRowCurrent ==
  ~Public /\ cleared => \A h \in DOMAIN torMap : torrentRow[h] = Row(torMap[h])

\* The database shows as active a client that no map holds.
Stranded(c) == peerRow[c] = "active" /\ ~Swarming(c)

\* A peer leaves the last map that holds it only after a row that marks it
\* inactive (requestHandler.cpp:155-188, peers.cpp:58-63): no step strands an
\* active row but the site's deletion of the torrent, which records nothing
\* (requestHandler.cpp:393-400), and a start whose reset() fails.
NobodyStranded ==
  [][\A c \in Clients :
       Stranded(c)' => \/ Stranded(c) \/ DeleteTorrent(c[1])
                       \/ RestartStep /\ ~cleared']_vars

\* A client of a private tracker that announces often enough and has not
\* stopped is in the swarm, across completion, the moves from one map to
\* another and the clearing timer (peer.cpp:73,121; requestHandler.cpp:134-188).
KeepsAnnouncing ==
  Private => \A c \in Clients : seen[c] <= Timeout /\ c \notin stopped => Swarming(c)

\* Over IPv6 a client that completes is put in anew, among the seeders.
Resumed(r) == Known(r) /\ ~(r.ipv6 /\ r.left < last[<<r.hash, r.peer>>].left)

\* The traffic since the last announce the tracker remembers; what is downloaded
\* for free does not count.
Due(r) ==
  LET l == last[<<r.hash, r.peer>>] IN
  IF ~Resumed(r) THEN NoTraffic
  ELSE [down |-> IF Free(r) THEN 0 ELSE r.downloaded - l.down, up |-> r.uploaded - l.up]

SamePrice(r) == Free(r) <=> (Resumed(r) /\ last[<<r.hash, r.peer>>].free)

\* An announce charges the account of the client, and no other, the traffic since
\* the client's last announce, modulo the width of User::updateStats: in whichever
\* map the peer is, through its completion, stops, timeouts and restarts.  What it
\* downloaded is not said of an announce that changes from free to charged or back
\* (requestHandler.cpp:117-169, peer.cpp:55-59).
ChargedAsAnnounced ==
  [][\A r \in Announces :
       Private /\ (Known(r) => Steady(r)) /\ Announce(r) =>
         LET u == Owner(r) IN
         /\ \A v \in UserRef \ {u} : userRow'[v] = userRow[v]
         /\ userRow'[u].up = Long(userRow[u].up + UInt(Due(r).up))
         /\ SamePrice(r) => userRow'[u].down = Long(userRow[u].down + UInt(Due(r).down))]_vars

\* A public tracker counts its torrents: what announces add and the clearing
\* timer erases balances (requestHandler.cpp:78-81,547-551).
StatsTorrents == Public => stats.torrents = Long(Cardinality(DOMAIN torMap))

\* A client that falls silent is forgotten, in every map that holds it
\* (requestHandler.cpp:543-546).
GoneWhenSilent ==
  \A c \in Clients :
     (up /\ Swarming(c) /\ seen[c] > 0) ~> (~Swarming(c) \/ seen[c] = 0 \/ ~up)

\* A public tracker forgets a torrent nobody asks for any more: its peers time
\* out of all four maps, then the torrent goes (requestHandler.cpp:542-553).
SilentTorrentsGo ==
  \A h \in InfoHash :
     (h \in DOMAIN torMap /\ \A p \in PeerID : seen[<<h, p>>] > 0)
       ~> (h \notin DOMAIN torMap \/ \E p \in PeerID : seen[<<h, p>>] = 0)

Barred(c) == \A r \in Announces : <<r.hash, r.peer>> = c => ~Admitted(r)

\* A client the site keeps out, by a ban, the whitelist, its account or an
\* address restriction, ends up in no swarm of a tracker that runs: the updates
\* leave the peers where they are and the clearing timer has to remove them.
BarredClientsLeave == \A c \in Clients : <>[](up /\ Barred(c)) => <>[]~Swarming(c)

-----------------------------------------------------------------------------
(* What the code or its comments say, and the code does not do *)

\* user.cpp:55, "tokens expire after 24h or upon completion": a token in use
\* that is past its life is recorded as expired.
TokensExpire == tokenRow.due => tokenRow.expired
=============================================================================
