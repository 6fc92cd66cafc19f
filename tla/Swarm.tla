------------------------------- MODULE Swarm -------------------------------
(***************************************************************************)
(* Peer, Peers and Torrent (src/handler/peer.cpp, peers.cpp, torrent.cpp)  *)
(* as values.  A torrent holds four maps from peer ids to peers: seeders   *)
(* and leechers, each over IPv4 and over IPv6.                             *)
(*                                                                         *)
(* Machine integers keep a width: unsigned long (and long, as its residue) *)
(* is taken modulo LongMod, unsigned int modulo IntMod.  With LongMod = 1  *)
(* every counter is 0, which leaves the membership of the maps alone.      *)
(* Clocks are ages: a peer's `idle' is now - lastUpdate, counted no        *)
(* further than the first value past Timeout.                              *)
(***************************************************************************)
EXTENDS Naturals, FiniteSets

CONSTANTS
  LongMod,   \* 2^64
  IntMod,    \* 2^32
  Timeout    \* Config "timeout", in ticks

ASSUME SwarmAssumption ==
  /\ LongMod \in Nat \ {0}
  /\ IntMod \in Nat \ {0}
  /\ LongMod % IntMod = 0
  /\ Timeout \in Nat

Long(n) == n % LongMod
\* Mutant of UInt: the counter never wraps.
NoUInt(n) == n
UInt(n) == n % IntMod
LongMinus(a, b) == (a + LongMod - b) % LongMod

Age == 0 .. Timeout + 1
Older(age) == IF age > Timeout THEN age ELSE age + 1

Sides == {"seeders", "seeders6", "leechers", "leechers6"}
Seeders(ipv6)  == IF ipv6 THEN "seeders6" ELSE "seeders"
Leechers(ipv6) == IF ipv6 THEN "leechers6" ELSE "leechers"

\* std::map and std::unordered_map.
Put(f, k, v) == [x \in DOMAIN f \cup {k} |-> IF x = k THEN v ELSE f[x]]
Drop(f, ks)  == [x \in DOMAIN f \ ks |-> f[x]]
EmptyMap == [x \in {} |-> x]

-----------------------------------------------------------------------------
(* Peer *)

PeerType(User) ==
  [user : User, totalDownloaded : 0 .. LongMod - 1, totalUploaded : 0 .. LongMod - 1,
   left : {0, 1}, completed : BOOLEAN, active : BOOLEAN, idle : Age,
   corrupt : 0 .. IntMod - 1, ipv6 : BOOLEAN]

\* The constructor leaves `corrupt' uninitialized: it is whatever was there.
NewPeers(r, user) ==
  {[user |-> user, totalDownloaded |-> Long(r.downloaded), totalUploaded |-> Long(r.uploaded),
    left |-> r.left, completed |-> r.left = 0, active |-> TRUE, idle |-> 0,
    corrupt |-> c, ipv6 |-> r.ipv6] : c \in 0 .. IntMod - 1}

\* Mutants of UpdatedStats: lastUpdate is not refreshed; the totals are not.
UpdatedWithoutClock(p, downloaded, r) ==
  [p EXCEPT !.totalDownloaded = downloaded, !.totalUploaded = Long(r.uploaded),
            !.left = r.left, !.corrupt = UInt(r.corrupt)]
UpdatedWithoutTotals(p, downloaded, r) ==
  [p EXCEPT !.left = r.left, !.corrupt = UInt(r.corrupt), !.idle = 0]

\* updateStats; the two differences it computes are the caller's.
UpdatedStats(p, downloaded, r) ==
  [p EXCEPT !.totalDownloaded = downloaded, !.totalUploaded = Long(r.uploaded),
            !.left = r.left, !.corrupt = UInt(r.corrupt), !.idle = 0]

TimedOut(p) == p.idle > Timeout

-----------------------------------------------------------------------------
(* Torrent *)

IsTorrent(tor, PeerID, User) ==
  /\ DOMAIN tor = {"peers", "free", "snatches", "balance"}
  /\ DOMAIN tor.peers = Sides
  /\ \A s \in Sides : /\ DOMAIN tor.peers[s] \subseteq PeerID
                      /\ \A id \in DOMAIN tor.peers[s] : tor.peers[s][id] \in PeerType(User)
  /\ tor.free \in {0, 50, 100}
  /\ tor.snatches \in 0 .. IntMod - 1 /\ tor.balance \in 0 .. LongMod - 1

NewTorrent(free) ==
  [peers |-> [s \in Sides |-> EmptyMap], free |-> free, snatches |-> 0, balance |-> 0]

Has(tor, side, id) == id \in DOMAIN tor.peers[side]
In(tor, id) == \E side \in Sides : Has(tor, side, id)
Size(tor, side) == Cardinality(DOMAIN tor.peers[side])

\* The peers of a torrent, as <<side, peer id>>.
Entries(tor) == UNION {{side} \X DOMAIN tor.peers[side] : side \in Sides}

SetPeer(tor, side, id, p) == [tor EXCEPT !.peers[side] = Put(@, id, p)]

\* removePeer, without its effect on the statistics.
RemovePeer(tor, side, id) == [tor EXCEPT !.peers[side] = Drop(@, {id})]

\* Mutant of Expired: the call on the IPv4 leechers is missing.
ExpiredButLeechers(tor, side) ==
  {id \in DOMAIN tor.peers[side] : side # "leechers" /\ TimedOut(tor.peers[side][id])}

\* Peers::timedOut on each of the four maps.
Expired(tor, side) == {id \in DOMAIN tor.peers[side] : TimedOut(tor.peers[side][id])}
Swept(tor) == [tor EXCEPT !.peers = [s \in Sides |-> Drop(@[s], Expired(tor, s))]]

\* Mutant of Changed: only the last of the four counts is kept (= for +=).
ChangedLast(tor) == Expired(tor, "leechers6") # {}

\* The sum of the four counts is not 0.
Changed(tor) == Swept(tor) # tor

\* What recordTorrent writes of a torrent.
Row(tor) ==
  [seeders  |-> Size(tor, "seeders") + Size(tor, "seeders6"),
   leechers |-> Size(tor, "leechers") + Size(tor, "leechers6"),
   snatches |-> tor.snatches, balance |-> tor.balance]

PeerAged(p) == [p EXCEPT !.idle = Older(@)]

Aged(tor) ==
  [tor EXCEPT !.peers = [s \in Sides |-> [id \in DOMAIN @[s] |-> PeerAged(@[s][id])]]]
=============================================================================
