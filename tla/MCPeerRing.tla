----------------------------- MODULE MCPeerRing -----------------------------
(* Values of the constants of PeerRing for TLC. *)
EXTENDS PeerRing, TLC

CONSTANTS a, b, c, d

\* A negative numwant, none, some, and more than the configuration allows.
Asked == {-1, 0, 2, 9}

RingSymmetry == Permutations(Peer4) \cup Permutations(Peer6)
=============================================================================
