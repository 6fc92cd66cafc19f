------------------------------ MODULE PeerRing ------------------------------
(***************************************************************************)
(* The peers an announce answers with (src/handler/peers.cpp, getPeers and *)
(* the split of numwant in src/handler/requestHandler.cpp).                *)
(*                                                                         *)
(* A Peers object is an unordered_map with a cursor `it': nextPeer returns *)
(* the peer under the cursor and moves on, starting again after the last   *)
(* one, so that successive answers go round the swarm.  The module is one  *)
(* side of a torrent, its IPv4 and its IPv6 map; those who ask are on the  *)
(* other side.                                                             *)
(*                                                                         *)
(* The map is its list of nodes, as libstdc++ keeps it: a cursor is the    *)
(* address of a node or, for end(), none; it survives insertions and       *)
(* rehashes, whereas the erasure of its node leaves it "freed".  What that *)
(* does is undefined and modelled as the build does it: the first use      *)
(* returns the bytes of the departed peer and a "wild" pointer, the next   *)
(* one crashes; or the memory has become the node of a newer peer, of      *)
(* either map, by then.                                                    *)
(***************************************************************************)
EXTENDS Integers, Sequences, FiniteSets

CONSTANTS
  Peer4, Peer6,    \* the peers that may be in each map
  MaxNumwant,      \* Config "max_numwant"
  DefaultNumwant,  \* Config "default_numwant"
  Numwants         \* the values of numwant clients send

Family == {"ipv4", "ipv6"}
PeersOf(f) == IF f = "ipv4" THEN Peer4 ELSE Peer6
Peer == Peer4 \cup Peer6
FamilyOf(p) == IF p \in Peer4 THEN "ipv4" ELSE "ipv6"

ASSUME PeerRingAssumption ==
  /\ IsFiniteSet(Peer4) /\ IsFiniteSet(Peer6)
  /\ Peer4 \cap Peer6 = {}
  /\ Peer \cap {"end", "freed", "wild", "crash", "departed"} = {}
  /\ MaxNumwant \in Int /\ DefaultNumwant \in Int
  /\ Numwants \subseteq Int

VARIABLES
  order,    \* [Family -> the peers of the map, in the order of its nodes]
  it,       \* [Family -> the cursor]
  up,       \* the process has not crashed
  answer,   \* the last answer: [Family -> declared length, peers handed out]
  waiting,  \* history: [Peer -> peers there since it was last handed out,
            \*           and not handed out since]
  skipped   \* history: <<p, q>>: p was handed out twice, q in between not

vars == <<order, it, up, answer, waiting, skipped>>

Elements(s) == {s[k] : k \in DOMAIN s}
Members(f) == Elements(order[f])
NoAnswer == [f \in Family |-> [declared |-> 0, peers |-> <<>>]]
Least(a, b) == IF a < b THEN a ELSE b

\* Peers::Peers; copying an empty Peers copies a cursor that is end().
Init ==
  /\ order = [f \in Family |-> <<>>]
  /\ it = [f \in Family |-> "end"]
  /\ up = TRUE
  /\ answer = NoAnswer
  /\ waiting = [p \in Peer |-> {}]
  /\ skipped = {}

-----------------------------------------------------------------------------
(* nextPeer and getPeers *)

\* std::next on a node of either map.
After(p) ==
  LET nodes == order[FamilyOf(p)]
      k == CHOOSE i \in DOMAIN nodes : nodes[i] = p
  IN IF k = Len(nodes) THEN "end" ELSE nodes[k + 1]

\* One call of nextPeer: the peer it returns and where the cursor goes.
NextPeer(f, cursor) ==
  CASE cursor = "end"   -> [peer |-> order[f][1], it |-> After(order[f][1])]
    [] cursor \in Peer  -> [peer |-> cursor, it |-> After(cursor)]
    [] cursor = "freed" -> [peer |-> "departed", it |-> "wild"]
    [] OTHER            -> [peer |-> "departed", it |-> "crash"]

\* What the history makes of handing out p: who was waiting has been skipped.
HandOut(w, f, p) ==
  IF p \notin Members(f) THEN w
  ELSE [w EXCEPT !.skipped = @ \cup ({p} \X w.waiting[p]),
                 !.waiting = [q \in Peer |-> IF q = p THEN Members(f) \ {p} ELSE @[q] \ {p}]]

\* One turn of the loop of getPeers.
Call(f, w) ==
  LET next == NextPeer(f, w.it)
  IN HandOut([w EXCEPT !.it = next.it, !.peers = Append(@, next.peer)], f, next.peer)

\* getPeers: numwant calls of nextPeer; nullptr, from an empty map, adds nothing.
GetPeers(f, numwant, w) ==
  LET Start == [it |-> it[f], peers |-> <<>>, waiting |-> w.waiting, skipped |-> w.skipped]
      Walk[k \in 0 .. numwant] == IF k = 0 THEN Start ELSE Call(f, Walk[k - 1])
  IN IF numwant <= 0 \/ order[f] = <<>> THEN Start ELSE Walk[numwant]

\* Mutant of Wanted: the size of the map does not bound the IPv4 share.
WantedUnbounded(numwant, f) == IF f = "ipv4" THEN Least(numwant, MaxNumwant)
                               ELSE Least(Least(numwant, MaxNumwant), Len(order[f]))

Wanted(numwant, f) == Least(Least(numwant, MaxNumwant), Len(order[f]))

\* The end of announce(): i is bounded by the IPv4 map, then j peers of it
\* come from the IPv6 map if the client has an IPv6 address.
Ask(ipv6, numwant) ==
  LET i  == Wanted(numwant, "ipv4")
      j  == IF ipv6 THEN Wanted(i, "ipv6") ELSE 0
      w6 == GetPeers("ipv6", j, [waiting |-> waiting, skipped |-> skipped])
      w4 == GetPeers("ipv4", i - j, w6)
  IN /\ up
     /\ up' = ("crash" \notin {w4.it, w6.it})
     /\ it' = IF up' THEN [f \in Family |-> IF f = "ipv4" THEN w4.it ELSE w6.it] ELSE it
     /\ answer' = IF up' THEN [f \in Family |->
                    IF f = "ipv4" THEN [declared |-> i - j, peers |-> w4.peers]
                    ELSE [declared |-> IF j > 0 THEN j ELSE 0, peers |-> w6.peers]]
                  ELSE answer
     /\ waiting' = w4.waiting /\ skipped' = w4.skipped
     /\ UNCHANGED order

-----------------------------------------------------------------------------
(* addPeer, removePeer, timedOut *)

Inserted(s, k, p) == SubSeq(s, 1, k) \o <<p>> \o SubSeq(s, k + 1, Len(s))

\* The orders a set of nodes can be in.
Orders(ps) == {s \in [1 .. Cardinality(ps) -> ps] : Elements(s) = ps}

\* Mutant of Kept: addPeer starts the round anew, as the constructor does.
KeptAtBegin(p) == [f \in Family |-> "end"]

\* The cursors after an insertion: a freed one may find the new node in place
\* of the old.
Kept(p) == it

\* addPeer of a peer that is not there.  A new node comes somewhere between
\* the others, or the table grows and all of them are arranged anew.
AddPeer(p) ==
  LET f == FamilyOf(p) IN
  /\ up /\ p \notin Members(f)
  /\ \/ /\ \E k \in 0 .. Len(order[f]) : order' = [order EXCEPT ![f] = Inserted(@, k, p)]
        /\ UNCHANGED waiting
     \/ /\ order' \in {[order EXCEPT ![f] = s] : s \in Orders(Members(f) \cup {p})}
        /\ waiting' = [q \in Peer |-> IF q \in PeersOf(f) THEN {} ELSE waiting[q]]
  /\ \/ it' = Kept(p)
     \/ it' \in {[g \in Family |-> IF g \in reused THEN p ELSE it[g]] :
                   reused \in SUBSET {g \in Family : it[g] = "freed"} \ {{}}}
  /\ UNCHANGED <<up, answer, skipped>>

\* Mutant of Cursors: as if an iterator followed its erased element.
CursorsStale(ps) == it

\* The cursors once the nodes of ps are erased.
Cursors(ps) == [f \in Family |-> IF it[f] \in ps THEN "freed" ELSE it[f]]

Remaining(s, ps) ==
  LET Left[k \in 0 .. Len(s)] ==
        IF k = 0 THEN <<>> ELSE IF s[k] \in ps THEN Left[k - 1] ELSE Append(Left[k - 1], s[k])
  IN Left[Len(s)]

\* pMap.erase, by removePeer for one peer and by timedOut for those that are
\* silent.  Neither touches `it': timedOut walks with an iterator of its own.
Erase(f, ps) ==
  /\ up
  /\ order' = [order EXCEPT ![f] = Remaining(@, ps)]
  /\ it' = Cursors(ps)
  /\ waiting' = [q \in Peer |-> IF q \in ps \/ it'[FamilyOf(q)] = "freed" THEN {}
                                 ELSE waiting[q] \ ps]
  /\ UNCHANGED <<up, answer, skipped>>

RemovePeer(p) == p \in Members(FamilyOf(p)) /\ Erase(FamilyOf(p), {p})

TimedOut(f) == \E ps \in SUBSET Members(f) : ps # {} /\ Erase(f, ps)

Next ==
  \/ \E ipv6 \in BOOLEAN, numwant \in Numwants \cup {DefaultNumwant} : Ask(ipv6, numwant)
  \/ \E p \in Peer : AddPeer(p) \/ RemovePeer(p)
  \/ \E f \in Family : TimedOut(f)

Spec == Init /\ [][Next]_vars

-----------------------------------------------------------------------------
(* Properties *)

Cursor(f) == it[f] = "end" \/ it[f] \in Members(f)

\* Each map holds a peer once; a cursor is end(), on a node that exists, of
\* either map, or lost.
TypeOK ==
  /\ \A f \in Family : /\ order[f] \in Seq(PeersOf(f))
                       /\ \A k, l \in DOMAIN order[f] : order[f][k] = order[f][l] => k = l
                       /\ it[f] \in {"end", "freed", "wild"} \cup Members("ipv4") \cup Members("ipv6")
  /\ up \in BOOLEAN
  /\ \A f \in Family : /\ answer[f].declared \in Int
                       /\ answer[f].peers \in Seq(Peer \cup {"departed"})
  /\ \A p \in Peer : waiting[p] \subseteq Members(FamilyOf(p)) \ {p}
  /\ skipped \subseteq Peer \X Peer

\* While no cursor has lost its peer, and unless numwant or its bound is
\* negative, an answer holds as many peers as the length it declares, each of
\* them in the map when it is sent and none of them twice
\* (requestHandler.cpp:200-207, 240-258; a bencoded length that is off makes the
\* whole answer unreadable).
AnswerFromSwarm ==
  [][\A ipv6 \in BOOLEAN, numwant \in Numwants \cup {DefaultNumwant} :
       numwant >= 0 /\ MaxNumwant >= 0 /\ Cursor("ipv4") /\ Cursor("ipv6") /\ Ask(ipv6, numwant)
         => \A f \in Family :
              LET given == answer'[f].peers IN
              /\ Len(given) = answer'[f].declared
              /\ Elements(given) \subseteq Members(f)
              /\ Cardinality(Elements(given)) = Len(given)]_vars

\* The ring is fair: a peer is not handed out a second time before every peer
\* of its map that was there all along, whatever joins and leaves in between
\* (peers.cpp:36-47).  Only a rehash, which arranges the map anew, and the loss
\* of the cursor start a new round.
EveryoneInTurn == skipped = {}

\* README.md:5, "It can track IPv4 and IPv6 peers": a client that asks over
\* IPv6 for one peer or more is given one if the torrent has one for it.
SomeoneForEveryone ==
  [][\A numwant \in Numwants \cup {DefaultNumwant} :
       numwant >= 1 /\ MaxNumwant >= 1 /\ Cursor("ipv4") /\ Cursor("ipv6") /\ Ask(TRUE, numwant)
         => (order["ipv6"] # <<>> => \E f \in Family : answer'[f].peers # <<>>)]_vars
=============================================================================
