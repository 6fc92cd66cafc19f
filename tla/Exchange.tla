------------------------------ MODULE Exchange ------------------------------
(***************************************************************************)
(* What the network layer promises its clients, and nothing of how: an     *)
(* exchange gets at most one reply, the client sees a growing prefix of    *)
(* that reply and of nothing else, the exchange is over as soon as the     *)
(* reply is complete, and every exchange is over some day.                 *)
(***************************************************************************)
EXTENDS Naturals, Sequences

CONSTANTS
  Client,
  Replies,   \* what can be replied
  Size       \* the length of a reply, in units

VARIABLES
  phase,     \* [Client -> "idle", "open" or "replying"]
  reply,     \* [Client -> the reply of the exchange, or "none"]
  got,       \* [Client -> the units it has received]
  up         \* the server runs

vars == <<phase, reply, got, up>>

Init ==
  /\ phase = [c \in Client |-> "idle"]
  /\ reply = [c \in Client |-> "none"]
  /\ got = [c \in Client |-> <<>>]
  /\ up = TRUE

Open(c) ==
  /\ up /\ phase[c] = "idle"
  /\ phase' = [phase EXCEPT ![c] = "open"]
  /\ got' = [got EXCEPT ![c] = <<>>]
  /\ UNCHANGED <<reply, up>>

Decide(c) ==
  /\ up /\ phase[c] = "open"
  /\ phase' = [phase EXCEPT ![c] = "replying"]
  /\ \E r \in Replies : reply' = [reply EXCEPT ![c] = r]
  /\ UNCHANGED <<got, up>>

\* The first n units of a reply to c.
Units(c, r, n) == [i \in 1 .. n |-> <<c, r, i>>]

Over(c) ==
  /\ phase' = [phase EXCEPT ![c] = "idle"]
  /\ reply' = [reply EXCEPT ![c] = "none"]

Deliver(c) ==
  /\ up /\ phase[c] = "replying"
  /\ \E n \in Len(got[c]) + 1 .. Size :
       /\ got' = [got EXCEPT ![c] = Units(c, reply[c], n)]
       /\ IF n = Size THEN Over(c) ELSE UNCHANGED <<phase, reply>>
  /\ UNCHANGED up

Close(c) ==
  /\ up /\ phase[c] # "idle"
  /\ Over(c)
  /\ UNCHANGED <<got, up>>

Stop == up /\ up' = FALSE /\ UNCHANGED <<phase, reply, got>>

Next == Stop \/ \E c \in Client : Open(c) \/ Decide(c) \/ Deliver(c) \/ Close(c)

Safety == Init /\ [][Next]_vars

Spec == Safety /\ \A c \in Client : WF_vars(Close(c))
=============================================================================
