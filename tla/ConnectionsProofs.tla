-------------------------- MODULE ConnectionsProofs --------------------------
(***************************************************************************)
(* Proofs about Connections.tla, for any set of clients and messages, any  *)
(* number of descriptors and any sizes.                                    *)
(***************************************************************************)
EXTENDS Connections, SequenceTheorems, TLAPS

\* A client is in one place: away, in the backlog once, or behind a handler.
QueueInv ==
  /\ \A c \in Client : far[c] = "away" => c \notin alive /\ ~Waits(c)
  /\ \A k, l \in DOMAIN backlog : backlog[k] = backlog[l] => k = l
  /\ \A c \in alive : ~Waits(c)

\* The buffers of a handler say which watcher is started and what the client
\* has received; those of a handler to come are empty.
BufferInv ==
  /\ \A c \in Client \ alive : request[c] = 0 /\ response[c] = "none" /\ sent[c] = 0
  /\ reading = {c \in alive : response[c] = "none"}
  /\ writing = {c \in alive : response[c] # "none"}
  /\ \A c \in alive : /\ sent[c] < ResponseSize
                      /\ response[c] = "none" => sent[c] = 0
                      /\ got[c] = X!Units(c, response[c], sent[c])

\* TypeOK needs the buffers (what is sent is a reply), the pairing of handlers
\* and descriptors needs the queue (who is accepted has no handler yet).
IInv == TypeOK /\ HandlersOwnDescriptors /\ QueueInv /\ BufferInv

Unit == Client \X (Replies \cup {"none"}) \X (1 .. ResponseSize)

-----------------------------------------------------------------------------
(* Sequences *)

\* Two prefixes of a reply, one after the other, are a longer prefix.
LEMMA Prefixes ==
  ASSUME NEW c, NEW r, NEW a \in Nat, NEW n \in Nat
  PROVE  X!Units(c, r, a) \o [i \in 1 .. n |-> <<c, r, a + i>>] = X!Units(c, r, a + n)
<1> DEFINE S == {c} \X {r} \X Nat
           s == [i \in 1 .. a |-> <<c, r, i>>]
           t == [i \in 1 .. n |-> <<c, r, a + i>>]
           u == [i \in 1 .. a + n |-> <<c, r, i>>]
<1>1. s \in Seq(S) /\ t \in Seq(S) /\ u \in Seq(S)
  <2>1. s \in [1 .. a -> S] /\ t \in [1 .. n -> S] /\ u \in [1 .. a + n -> S] /\ a + n \in Nat
    OBVIOUS
  <2> QED
    BY <2>1, SeqDef
<1>2. Len(s) = a /\ Len(t) = n /\ Len(u) = a + n
  OBVIOUS
<1>3. /\ s \o t \in Seq(S) /\ Len(s \o t) = a + n
      /\ \A i \in 1 .. a + n : (s \o t)[i] = IF i <= a THEN s[i] ELSE t[i - a]
  <2> HIDE DEF s, t, S
  <2> QED
    BY <1>1, <1>2, ConcatProperties
<1>4. ASSUME NEW i \in 1 .. a + n PROVE (s \o t)[i] = u[i]
  <2>1. CASE i <= a
    BY <1>3, <2>1
  <2>2. CASE ~(i <= a)
    <3>1. i - a \in 1 .. n /\ a + (i - a) = i
      BY <2>2
    <3>2. t[i - a] = <<c, r, a + (i - a)>>
      BY <3>1
    <3> QED
      BY <1>3, <2>2, <3>1, <3>2
  <2> QED
    BY <2>1, <2>2
<1> HIDE DEF s, t, u, S
<1>5. s \o t = u
  BY <1>1, <1>2, <1>3, <1>4, SeqEqual
<1> QED
  BY <1>5 DEF s, t, u, X!Units

\* Nothing of a reply is nothing of any reply.
LEMMA NoUnits == ASSUME NEW c, NEW r PROVE X!Units(c, r, 0) = <<>>
BY DEF X!Units

\* What stands in the backlog when a client is put at its end.
LEMMA Queued ==
  ASSUME NEW s \in Seq(Client), NEW c \in Client
  PROVE  /\ Append(s, c) \in Seq(Client)
         /\ Elements(Append(s, c)) = Elements(s) \cup {c}
         /\ (\A k, l \in DOMAIN s : s[k] = s[l] => k = l) /\ c \notin Elements(s)
              => \A k, l \in DOMAIN Append(s, c) : Append(s, c)[k] = Append(s, c)[l] => k = l
<1>1. /\ Append(s, c) \in Seq(Client) /\ Len(Append(s, c)) = Len(s) + 1
      /\ \A i \in 1 .. Len(s) : Append(s, c)[i] = s[i]
      /\ Append(s, c)[Len(s) + 1] = c
  BY AppendProperties
<1>2. DOMAIN s = 1 .. Len(s) /\ Len(s) \in Nat /\ DOMAIN Append(s, c) = 1 .. Len(s) + 1
  BY <1>1, LenProperties
<1>3. DOMAIN Append(s, c) = DOMAIN s \cup {Len(s) + 1}
  BY <1>2
<1>4. Elements(Append(s, c)) = Elements(s) \cup {c}
  BY <1>1, <1>2, <1>3, Zenon DEF Elements
<1>5. ASSUME \A k, l \in DOMAIN s : s[k] = s[l] => k = l, c \notin Elements(s),
             NEW k \in DOMAIN Append(s, c), NEW l \in DOMAIN Append(s, c),
             Append(s, c)[k] = Append(s, c)[l]
      PROVE  k = l
  BY <1>1, <1>2, <1>3, <1>5 DEF Elements
<1> QED
  BY <1>1, <1>4, <1>5

\* What stands in the backlog when its head is taken.
LEMMA Dequeued ==
  ASSUME NEW s \in Seq(Client), s # <<>>
  PROVE  /\ Head(s) \in Elements(s) /\ Head(s) \in Client
         /\ Tail(s) \in Seq(Client)
         /\ Elements(Tail(s)) \subseteq Elements(s)
         /\ (\A k, l \in DOMAIN s : s[k] = s[l] => k = l)
              => /\ Head(s) \notin Elements(Tail(s))
                 /\ \A k, l \in DOMAIN Tail(s) : Tail(s)[k] = Tail(s)[l] => k = l
<1>1. /\ Head(s) \in Client /\ Tail(s) \in Seq(Client) /\ Len(Tail(s)) = Len(s) - 1
      /\ \A i \in 1 .. Len(Tail(s)) : Tail(s)[i] = s[i + 1]
  BY HeadTailProperties
<1>2. DOMAIN s = 1 .. Len(s) /\ Len(s) \in Nat \ {0} /\ DOMAIN Tail(s) = 1 .. Len(s) - 1
  BY <1>1, LenProperties, EmptySeq
<1>3. Head(s) = s[1] /\ 1 \in DOMAIN s
  BY <1>2
<1>4. \A i \in DOMAIN Tail(s) : i + 1 \in DOMAIN s /\ i + 1 # 1 /\ Tail(s)[i] = s[i + 1]
  BY <1>1, <1>2
<1>5. \A k, l \in DOMAIN Tail(s) : k + 1 = l + 1 => k = l
  BY <1>2
<1>6. Head(s) \in Elements(s) /\ Elements(Tail(s)) \subseteq Elements(s)
  BY <1>3, <1>4 DEF Elements
<1>7. ASSUME \A k, l \in DOMAIN s : s[k] = s[l] => k = l PROVE Head(s) \notin Elements(Tail(s))
  BY <1>3, <1>4, <1>7 DEF Elements
<1>8. ASSUME \A k, l \in DOMAIN s : s[k] = s[l] => k = l,
             NEW k \in DOMAIN Tail(s), NEW l \in DOMAIN Tail(s), Tail(s)[k] = Tail(s)[l]
      PROVE  k = l
  BY <1>4, <1>5, <1>8
<1> QED
  BY <1>1, <1>6, <1>7, <1>8

-----------------------------------------------------------------------------
(* Messages and replies *)

\* What is not said is a message too: its line is one of the lines, its length
\* is a number.
LEMMA MessageType ==
  ASSUME NEW m \in Messages \cup {Silence}
  PROVE  m.line \in {x.line : x \in Messages} /\ Len(m.chunks) \in Nat
<1>1. CASE m \in Messages
  <2>1. m.chunks \in Seq({"text", "end"})
    BY <1>1, ConnectionsAssumption
  <2> QED
    BY <1>1, <2>1, LenProperties
<1>2. CASE m = Silence
  <2>1. m.line \in {x.line : x \in Messages}
    BY <1>2, ConnectionsAssumption DEF Silence
  <2>2. m.chunks = <<>>
    BY <1>2 DEF Silence
  <2> QED
    BY <2>1, <2>2
<1> QED
  BY <1>1, <1>2

\* A handler that does not throw has a reply.
LEMMA OutcomesType ==
  ASSUME NEW line, NEW r \in Replying(line) PROVE r \in Replies
BY DEF Replying, Outcomes, AnnounceOutcomes, Replies

-----------------------------------------------------------------------------
(* Every action keeps the invariant *)

\* At the start there are no handlers.
LEMMA InitIInv == Init => IInv
<1> SUFFICES ASSUME Init PROVE IInv
  OBVIOUS
<1>1. TypeOK
  <2>1. 1 \in Descriptor /\ 0 \in 0 .. ResponseSize
    BY ConnectionsAssumption DEF Descriptor
  <2>2. Len(Silence.chunks) = 0
    BY DEF Silence
  <2> QED
    BY <2>1, <2>2 DEF Init, TypeOK
<1>2. HandlersOwnDescriptors
  BY ConnectionsAssumption DEF Init, HandlersOwnDescriptors
<1>3. QueueInv
  BY DEF Init, QueueInv, Waits, Elements
<1>4. BufferInv
  BY DEF Init, BufferInv
<1> QED
  BY <1>1, <1>2, <1>3, <1>4 DEF IInv

\* A client that connects was nowhere.
LEMMA ConnectKeepsIInv ==
  ASSUME IInv, NEW c \in Client, NEW m \in Messages, Connect(c, m) PROVE IInv'
<1> USE DEF IInv
<1>1. c \notin alive /\ ~Waits(c) /\ request[c] = 0
  BY DEF Connect, QueueInv, BufferInv
<1>2. /\ backlog' \in Seq(Client)
      /\ Elements(backlog') = Elements(backlog) \cup {c}
      /\ \A k, l \in DOMAIN backlog' : backlog'[k] = backlog'[l] => k = l
  BY <1>1, Queued DEF Connect, TypeOK, QueueInv, Waits
<1>3. TypeOK'
  BY <1>1, <1>2, MessageType DEF TypeOK, Connect, watchers, buffers
<1>4. HandlersOwnDescriptors'
  BY DEF HandlersOwnDescriptors, Connect, watchers
<1>5. QueueInv'
  BY <1>1, <1>2 DEF QueueInv, Connect, Waits, TypeOK
<1>6. BufferInv'
  BY DEF BufferInv, Connect, watchers, buffers
<1> QED
  BY <1>3, <1>4, <1>5, <1>6

\* Saying no more and breaking off change nothing but the client's end.
LEMMA PartingKeepsIInv ==
  ASSUME IInv, NEW c \in Client, ShutDown(c) \/ Reset(c) PROVE IInv'
<1> USE DEF IInv
<1>1. /\ far' \in [Client -> {"away", "open", "shut", "reset"}]
      /\ \A d \in Client : far'[d] = "away" => far[d] = "away"
  BY DEF TypeOK, ShutDown, Reset
<1>2. UNCHANGED <<up, fatal, backlog, message, owner, alive, sock, watchers, buffers, got>>
  BY DEF ShutDown, Reset
<1>3. TypeOK'
  BY <1>1, <1>2 DEF TypeOK, watchers, buffers
<1>4. HandlersOwnDescriptors' /\ BufferInv'
  BY <1>2 DEF HandlersOwnDescriptors, BufferInv, watchers, buffers
<1>5. QueueInv'
  BY <1>1, <1>2 DEF QueueInv, Waits
<1> QED
  BY <1>3, <1>4, <1>5

\* The head of the backlog has no handler, and gets a descriptor nobody has.
LEMMA AcceptKeepsIInv ==
  ASSUME IInv, AcceptClient PROVE IInv'
<1> USE DEF IInv
<1> DEFINE c == Head(backlog)
<1>1. backlog \in Seq(Client) /\ backlog # <<>> /\ backlog' = Tail(backlog)
      /\ \A k, l \in DOMAIN backlog : backlog[k] = backlog[l] => k = l
  BY DEF AcceptClient, TypeOK, QueueInv
<1>2. /\ c \in Client /\ Waits(c) /\ backlog' \in Seq(Client)
      /\ Elements(backlog') \subseteq Elements(backlog) /\ c \notin Elements(backlog')
      /\ \A k, l \in DOMAIN backlog' : backlog'[k] = backlog'[l] => k = l
  BY <1>1, Dequeued DEF Waits
<1>3. /\ c \notin alive /\ far[c] # "away"
      /\ request[c] = 0 /\ response[c] = "none" /\ sent[c] = 0
  BY <1>2 DEF QueueInv, BufferInv
<1>4. PICK d \in Descriptor :
        /\ owner[d] = "free"
        /\ \/ /\ owner' = [owner EXCEPT ![d] = "leaked"]
              /\ Leave(c)
              /\ UNCHANGED <<alive, sock, watchers, buffers, got>>
           \/ /\ owner' = [owner EXCEPT ![d] = c]
              /\ alive' = alive \cup {c}
              /\ sock' = [sock EXCEPT ![c] = d]
              /\ reading' = reading \cup {c} /\ timing' = timing \cup {c}
              /\ got' = [got EXCEPT ![c] = <<>>]
              /\ UNCHANGED <<clients, writing, buffers>>
  BY DEF AcceptClient, Lowest, Free, Timed
<1>5. up' = up /\ fatal' = fatal
  BY DEF AcceptClient
<1> HIDE DEF c
<1>6. CASE Leave(c) /\ owner' = [owner EXCEPT ![d] = "leaked"]
           /\ UNCHANGED <<alive, sock, watchers, buffers, got>>
  <2>1. TypeOK'
    <3>1. \A e \in Client : request'[e] <= Len(message'[e].chunks)
      BY <1>2, <1>3, <1>6, MessageType DEF TypeOK, Leave, buffers
    <3> QED
      BY <1>2, <1>5, <1>6, <3>1 DEF TypeOK, Leave, watchers, buffers
  <2>2. HandlersOwnDescriptors'
    BY <1>2, <1>4, <1>6, ConnectionsAssumption DEF TypeOK, HandlersOwnDescriptors, watchers
  <2>3. QueueInv'
    BY <1>2, <1>3, <1>6 DEF TypeOK, QueueInv, Waits, Leave
  <2>4. BufferInv'
    BY <1>6 DEF BufferInv, watchers, buffers
  <2> QED
    BY <2>1, <2>2, <2>3, <2>4
<1>7. CASE /\ owner' = [owner EXCEPT ![d] = c] /\ alive' = alive \cup {c}
           /\ sock' = [sock EXCEPT ![c] = d]
           /\ reading' = reading \cup {c} /\ timing' = timing \cup {c}
           /\ got' = [got EXCEPT ![c] = <<>>] /\ UNCHANGED <<clients, writing, buffers>>
  <2>1. TypeOK'
    <3>1. got' \in [Client -> Seq(Unit)]
      <4>1. <<>> \in Seq(Unit)
        BY EmptySeq
      <4> QED
        BY <1>2, <1>7, <4>1 DEF TypeOK, Unit
    <3>2. owner' \in [Descriptor -> Client \cup {"free", "leaked"}]
          /\ sock' \in [Client -> Descriptor]
      BY <1>2, <1>4, <1>7 DEF TypeOK
    <3> QED
      BY <1>2, <1>5, <1>7, <3>1, <3>2 DEF TypeOK, Unit, clients, buffers
  <2>2. HandlersOwnDescriptors'
    <3>1. \A e \in alive' : owner'[sock'[e]] = e
      BY <1>2, <1>3, <1>4, <1>7, ConnectionsAssumption DEF TypeOK, HandlersOwnDescriptors
    <3>2. ASSUME NEW f \in Descriptor, owner'[f] \in Client
          PROVE  owner'[f] \in alive' /\ sock'[owner'[f]] = f
      <4>1. CASE f = d
        BY <1>2, <1>4, <1>7, <4>1 DEF TypeOK
      <4>2. CASE f # d
        BY <1>2, <1>3, <1>4, <1>7, <3>2, <4>2 DEF TypeOK, HandlersOwnDescriptors
      <4> QED
        BY <4>1, <4>2
    <3>3. reading' \cup writing' \subseteq alive' /\ timing' = alive'
      BY <1>7 DEF HandlersOwnDescriptors
    <3> QED
      BY <3>1, <3>2, <3>3 DEF HandlersOwnDescriptors
  <2>3. QueueInv'
    BY <1>2, <1>3, <1>7 DEF TypeOK, QueueInv, Waits, clients
  <2>4. BufferInv'
    <3>1. got'[c] = X!Units(c, "none", 0)
      BY <1>2, <1>7, NoUnits DEF TypeOK
    <3> QED
      BY <1>2, <1>3, <1>7, <3>1, ConnectionsAssumption DEF TypeOK, BufferInv, buffers
  <2> QED
    BY <2>1, <2>2, <2>3, <2>4
<1> QED
  BY <1>4, <1>6, <1>7

\* Closing gives back a descriptor nobody else has.  What the client got last
\* may have come with the same step.
LEMMA DestroyKeepsIInv ==
  ASSUME IInv, NEW c \in alive, Destroy(c), got' \in [Client -> Seq(Unit)],
         \A d \in Client \ {c} : got'[d] = got[d]
  PROVE  IInv'
<1> USE DEF IInv
<1>1. c \in Client /\ owner[sock[c]] = c /\ sock[c] \in Descriptor /\ ~Waits(c)
  BY DEF TypeOK, HandlersOwnDescriptors, QueueInv
<1>2. TypeOK'
  <2>1. \A e \in Client : request'[e] <= Len(message'[e].chunks)
    BY <1>1, MessageType DEF TypeOK, Destroy, Leave
  <2>2. /\ request' \in [Client -> Nat] /\ response' \in [Client -> Replies \cup {"none"}]
        /\ sent' \in [Client -> 0 .. ResponseSize]
    BY <1>1, ConnectionsAssumption DEF TypeOK, Destroy
  <2>3. /\ far' \in [Client -> {"away", "open", "shut", "reset"}]
        /\ message' \in [Client -> Messages \cup {Silence}]
        /\ owner' \in [Descriptor -> Client \cup {"free", "leaked"}]
    BY <1>1 DEF TypeOK, Destroy, Leave
  <2> QED
    BY <2>1, <2>2, <2>3 DEF TypeOK, Destroy, StopWatchers, Unit
<1>3. HandlersOwnDescriptors'
  BY <1>1, ConnectionsAssumption DEF TypeOK, HandlersOwnDescriptors, Destroy, StopWatchers
<1>4. QueueInv'
  BY <1>1 DEF TypeOK, QueueInv, Destroy, Leave, Waits
<1>5. BufferInv'
  BY <1>1 DEF TypeOK, BufferInv, Destroy, StopWatchers
<1> QED
  BY <1>2, <1>3, <1>4, <1>5

\* The end of the event loop leaves everything where it is.
LEMMA EndLoopKeepsIInv ==
  ASSUME IInv, NEW lines, lines \subseteq {m.line : m \in Messages}, EndLoop(lines)
  PROVE  IInv'
<1> USE DEF IInv, EndLoop, clients, watchers, buffers
<1>1. TypeOK'
  BY DEF TypeOK
<1>2. HandlersOwnDescriptors' /\ BufferInv'
  BY DEF HandlersOwnDescriptors, BufferInv
<1>3. QueueInv'
  BY DEF QueueInv, Waits
<1> QED
  BY <1>1, <1>2, <1>3

\* Request data is stored; a complete request gets its reply, and the handler
\* turns from reading to writing.
LEMMA ReceiveKeepsIInv ==
  ASSUME IInv, NEW c \in reading, NEW k, Receive(c, k) PROVE IInv'
<1> USE DEF IInv
<1> DEFINE m == message[c]
           n == request[c] + k
<1>1. /\ c \in Client /\ c \in alive /\ response[c] = "none" /\ sent[c] = 0
      /\ got[c] = X!Units(c, "none", 0)
      /\ m \in Messages \cup {Silence} /\ request[c] \in Nat
  <2>1. c \in Client /\ c \in alive /\ response[c] = "none"
    BY DEF TypeOK, BufferInv
  <2>2. sent[c] = 0 /\ got[c] = X!Units(c, response[c], sent[c])
    BY <2>1 DEF BufferInv
  <2>3. m \in Messages \cup {Silence} /\ request[c] \in Nat
    BY <2>1 DEF TypeOK
  <2> QED
    BY <2>1, <2>2, <2>3
<1>2. k \in Nat /\ n \in Nat /\ n <= Len(m.chunks)
  <2>1. k \in 1 .. BUFFER_SIZE /\ n <= Len(m.chunks)
    BY DEF Receive
  <2> HIDE DEF m
  <2> QED
    BY <1>1, <2>1, ConnectionsAssumption
<1>3. CASE /\ request' = [request EXCEPT ![c] = n]
           /\ UNCHANGED <<up, fatal, response, watchers, backlog, clients, owner, alive, sock,
                          sent, got>>
  <2>1. TypeOK'
    BY <1>1, <1>2, <1>3 DEF TypeOK, watchers, clients
  <2>2. HandlersOwnDescriptors' /\ BufferInv'
    BY <1>1, <1>3 DEF TypeOK, HandlersOwnDescriptors, BufferInv, watchers
  <2>3. QueueInv'
    BY <1>3 DEF QueueInv, Waits, clients
  <2> QED
    BY <2>1, <2>2, <2>3
<1>4. ASSUME NEW reply \in Replies, StartWriting(c, reply),
             request' = [request EXCEPT ![c] = n],
             UNCHANGED <<backlog, clients, owner, alive, sock, sent, got>>
      PROVE  IInv'
  <2>1. TypeOK'
    BY <1>1, <1>2, <1>4 DEF TypeOK, StartWriting, clients
  <2>2. HandlersOwnDescriptors'
    BY <1>1, <1>4 DEF HandlersOwnDescriptors, StartWriting
  <2>3. QueueInv'
    BY <1>4 DEF QueueInv, Waits, clients
  <2>4. BufferInv'
    <3>1. response' = [response EXCEPT ![c] = reply] /\ reply # "none"
      BY <1>4 DEF StartWriting, Replies
    <3>2. got[c] = X!Units(c, reply, 0)
      BY <1>1, NoUnits
    <3>3. /\ reading' = {d \in alive' : response'[d] = "none"}
          /\ writing' = {d \in alive' : response'[d] # "none"}
      BY <1>1, <1>4, <3>1 DEF TypeOK, BufferInv, StartWriting
    <3>4. \A d \in alive' : /\ sent'[d] < ResponseSize
                            /\ response'[d] = "none" => sent'[d] = 0
                            /\ got'[d] = X!Units(d, response'[d], sent'[d])
      <4>1. ASSUME NEW d \in alive, d # c
            PROVE  response'[d] = response[d] /\ sent'[d] = sent[d] /\ got'[d] = got[d]
        BY <1>4, <3>1, <4>1 DEF TypeOK
      <4>2. response'[c] = reply /\ sent'[c] = 0 /\ got'[c] = X!Units(c, reply, 0)
        BY <1>1, <1>4, <3>1, <3>2 DEF TypeOK
      <4>3. alive' = alive /\ 0 < ResponseSize
        BY <1>4, ConnectionsAssumption
      <4> QED
        BY <3>1, <4>1, <4>2, <4>3 DEF BufferInv
    <3>5. \A d \in Client \ alive' : request'[d] = 0 /\ response'[d] = "none" /\ sent'[d] = 0
      BY <1>1, <1>4, <3>1 DEF TypeOK, BufferInv
    <3> QED
      BY <3>3, <3>4, <3>5 DEF BufferInv
  <2> QED
    BY <2>1, <2>2, <2>3, <2>4
<1>5. ASSUME NEW lines, lines \subseteq {m.line}, EndLoop(lines) PROVE IInv'
  BY <1>1, <1>5, MessageType, EndLoopKeepsIInv
<1>6. \A reply \in IF n > MAX_REQUEST_SIZE THEN {"request too long"}
                   ELSE Replying(m.line) : reply \in Replies
  BY OutcomesType DEF Replies
<1> QED
  BY <1>3, <1>4, <1>5, <1>6 DEF Receive

\* recv() of something, of nothing, or of an error.
LEMMA ReadKeepsIInv ==
  ASSUME IInv, NEW c \in Client, ReadRequest(c) PROVE IInv'
<1>1. CASE \E k \in 1 .. BUFFER_SIZE : Receive(c, k)
  BY <1>1, ReceiveKeepsIInv DEF ReadRequest
<1>2. CASE Destroy(c) /\ UNCHANGED got
  BY <1>2, DestroyKeepsIInv DEF ReadRequest, IInv, TypeOK, BufferInv, Unit
<1>3. CASE EndLoop({})
  BY <1>3, EndLoopKeepsIInv
<1> QED
  BY <1>1, <1>2, <1>3 DEF ReadRequest

\* What send() takes goes to the client of the handler, and continues what it
\* has.
LEMMA Continues ==
  ASSUME IInv, NEW c \in writing, NEW n \in 1 .. ResponseSize - sent[c]
  PROVE  /\ c \in Client /\ c \in alive /\ owner[sock[c]] = c /\ response[c] \in Replies
         /\ sent[c] + n \in 1 .. ResponseSize
         /\ got[c] \o Sent(c, n) = X!Units(c, response[c], sent[c] + n)
         /\ got[c] \o Sent(c, n) \in Seq(Unit)
<1>1. /\ c \in Client /\ c \in alive /\ owner[sock[c]] = c /\ response[c] \in Replies
      /\ sent[c] \in Nat /\ got[c] = X!Units(c, response[c], sent[c])
  <2>1. c \in Client /\ c \in alive /\ response[c] # "none"
    BY DEF IInv, TypeOK, BufferInv
  <2>2. response[c] \in Replies /\ sent[c] \in Nat
    BY <2>1, ConnectionsAssumption DEF IInv, TypeOK
  <2>3. owner[sock[c]] = c /\ got[c] = X!Units(c, response[c], sent[c])
    BY <2>1 DEF IInv, BufferInv, HandlersOwnDescriptors
  <2> QED
    BY <2>1, <2>2, <2>3
<1>2. n \in Nat /\ sent[c] + n \in 1 .. ResponseSize
  BY <1>1, ConnectionsAssumption
<1>3. got[c] \o Sent(c, n) = X!Units(c, response[c], sent[c] + n)
  <2>1. X!Units(c, response[c], sent[c]) \o [i \in 1 .. n |-> <<c, response[c], sent[c] + i>>]
          = X!Units(c, response[c], sent[c] + n)
    BY <1>1, <1>2, Prefixes
  <2> QED
    BY <1>1, <2>1 DEF Sent
<1>4. X!Units(c, response[c], sent[c] + n) \in [1 .. sent[c] + n -> Unit]
  BY <1>1, <1>2, ConnectionsAssumption DEF Unit, X!Units
<1>5. X!Units(c, response[c], sent[c] + n) \in Seq(Unit)
  BY <1>2, <1>4, SeqDef
<1> QED
  BY <1>1, <1>2, <1>3, <1>5

\* A piece of the answer goes out, perhaps the last one.
LEMMA WriteKeepsIInv ==
  ASSUME IInv, NEW c \in Client, WriteResponse(c) PROVE IInv'
<1>1. PICK n \in 1 .. ResponseSize - sent[c] :
        /\ got' = [got EXCEPT ![owner[sock[c]]] = @ \o Sent(c, n)]
        /\ IF sent[c] + n = ResponseSize THEN Destroy(c)
           ELSE /\ sent' = [sent EXCEPT ![c] = @ + n]
                /\ UNCHANGED <<up, fatal, backlog, clients, owner, alive, sock, watchers,
                               request, response>>
  BY DEF WriteResponse
<1>2. /\ c \in alive /\ owner[sock[c]] = c /\ response[c] \in Replies
      /\ sent[c] + n \in 1 .. ResponseSize
      /\ got[c] \o Sent(c, n) = X!Units(c, response[c], sent[c] + n)
      /\ got[c] \o Sent(c, n) \in Seq(Unit)
  BY Continues DEF WriteResponse
<1>3. /\ got' = [got EXCEPT ![c] = X!Units(c, response[c], sent[c] + n)]
      /\ got' \in [Client -> Seq(Unit)]
  BY <1>1, <1>2 DEF IInv, TypeOK, Unit
<1>4. CASE sent[c] + n = ResponseSize
  BY <1>1, <1>2, <1>3, <1>4, DestroyKeepsIInv DEF IInv, TypeOK
<1>5. CASE sent[c] + n # ResponseSize
  <2>1. /\ sent' = [sent EXCEPT ![c] = sent[c] + n]
        /\ UNCHANGED <<up, fatal, backlog, clients, owner, alive, sock, watchers,
                       request, response>>
    BY <1>1, <1>5
  <2>2. TypeOK'
    <3>1. sent' \in [Client -> 0 .. ResponseSize]
      BY <1>2, <2>1, ConnectionsAssumption DEF IInv, TypeOK
    <3> QED
      BY <1>3, <2>1, <3>1 DEF IInv, TypeOK, Unit, clients, watchers
  <2>3. HandlersOwnDescriptors'
    BY <2>1 DEF IInv, HandlersOwnDescriptors, watchers
  <2>4. QueueInv'
    BY <2>1 DEF IInv, QueueInv, Waits, clients
  <2>5. BufferInv'
    <3>1. \A d \in alive' : /\ sent'[d] < ResponseSize
                            /\ response'[d] = "none" => sent'[d] = 0
                            /\ got'[d] = X!Units(d, response'[d], sent'[d])
      <4>1. ASSUME NEW d \in alive, d # c
            PROVE  response'[d] = response[d] /\ sent'[d] = sent[d] /\ got'[d] = got[d]
        BY <1>3, <2>1, <4>1 DEF IInv, TypeOK
      <4>2. /\ response'[c] = response[c] /\ response[c] # "none"
            /\ sent'[c] = sent[c] + n /\ got'[c] = X!Units(c, response[c], sent[c] + n)
        BY <1>2, <1>3, <2>1 DEF IInv, TypeOK, Replies
      <4>3. sent[c] + n < ResponseSize /\ alive' = alive
        BY <1>2, <1>5, <2>1, ConnectionsAssumption
      <4> QED
        BY <4>1, <4>2, <4>3 DEF IInv, BufferInv
    <3>2. \A d \in Client \ alive' : request'[d] = 0 /\ response'[d] = "none" /\ sent'[d] = 0
      BY <1>2, <2>1 DEF IInv, TypeOK, BufferInv
    <3> QED
      BY <2>1, <3>1, <3>2 DEF IInv, BufferInv, watchers
  <2> QED
    BY <2>2, <2>3, <2>4, <2>5 DEF IInv
<1> QED
  BY <1>4, <1>5

\* A handler that is timed is closed in whatever state it is.
LEMMA TimeoutKeepsIInv ==
  ASSUME IInv, NEW c \in Client, Timeout(c) PROVE IInv'
<1>1. c \in alive /\ got' = got /\ Destroy(c)
  BY DEF Timeout, IInv, HandlersOwnDescriptors
<1> QED
  BY <1>1, DestroyKeepsIInv DEF IInv, TypeOK, Unit

\* The invariant holds of the whole specification.
LEMMA IInvHolds == Spec => []IInv
<1>1. IInv /\ [Next]_vars => IInv'
  <2>1. IInv /\ UNCHANGED vars => IInv'
    BY DEF IInv, vars, TypeOK, HandlersOwnDescriptors, QueueInv, BufferInv, Waits
  <2> QED
    BY <2>1, AcceptKeepsIInv, ConnectKeepsIInv, PartingKeepsIInv, ReadKeepsIInv,
       WriteKeepsIInv, TimeoutKeepsIInv DEF Next, ClientStep, HandlerStep
<1> QED
  BY InitIInv, <1>1, PTL DEF Spec

-----------------------------------------------------------------------------
(* Results *)

\* Every variable of the network layer keeps its type: no more of a request is
\* stored than was sent, no more of an answer sent than there is
\* (connectionHandler.cpp:49-112).
THEOREM TypeCorrect == Spec => []TypeOK
BY IInvHolds, PTL DEF IInv

\* For any number of clients and descriptors, and however they are reused, a
\* handler and its descriptor belong to each other, no callback reaches a
\* deleted handler and every handler has its timeout (connectionHandler.cpp:25-35,
\* 102-112).
THEOREM HandlersPaired == Spec => []HandlersOwnDescriptors
BY IInvHolds, PTL DEF IInv

\* No request of the first form whose numbers are numbers throws in announce or
\* scrape: what check requires is what they read.
LEMMA HarmlessLine ==
  ASSUME Type = "private", NEW line, line.path = {"reqpasskey", "action"}, line.numbers = TRUE,
         line.action \in {"announce", "scrape"}
  PROVE  "exception" \notin Outcomes(line)
<1> SUFFICES ASSUME Check(line) PROVE "exception" \notin Outcomes(line)
  BY DEF Outcomes
<1>1. "reqpasskey" \in Parse(line) /\ line.action # "update"
  BY DEF Check, Parse
<1>2. "exception" \notin AnnounceOutcomes(line) \/ line.action = "scrape"
  <2>1. line.action = "announce" => AnnounceParameters \subseteq Parse(line)
    BY DEF Check, Required, AnnounceRequired
  <2> QED
    BY <2>1 DEF AnnounceOutcomes
<1> QED
  BY <1>1, <1>2 DEF Outcomes

\* Only a handler that throws ends the server with a line to blame.
LEMMA FatalThrows == Spec => [](\A line \in fatal : "exception" \in Outcomes(line))
<1> DEFINE FatalInv == \A line \in fatal : "exception" \in Outcomes(line)
<1>1. Init => FatalInv
  BY DEF Init
<1>2. FatalInv /\ [Next]_vars => FatalInv'
  <2>1. ASSUME FatalInv, NEW c \in Client, ReadRequest(c) PROVE FatalInv'
    BY <2>1 DEF ReadRequest, Receive, StartWriting, EndLoop, Destroy
  <2>2. ASSUME NEW c \in Client, WriteResponse(c) \/ Timeout(c) \/ ClientStep(c)
        PROVE  fatal' = fatal
    BY <2>2 DEF WriteResponse, Timeout, ClientStep, Destroy, ShutDown, Reset, Connect
  <2>3. ASSUME AcceptClient \/ UNCHANGED vars PROVE fatal' = fatal
    BY <2>3 DEF AcceptClient, vars
  <2> QED
    BY <2>1, <2>2, <2>3 DEF Next, HandlerStep
<1> QED
  BY <1>1, <1>2, PTL DEF Spec

\* Whatever messages clients send, no announce or scrape of the first form with
\* numbers for numbers ends a private tracker by an exception (parser.cpp:12-15,
\* requestHandler.cpp:33-57, 97-101, 157-169, peers.cpp:21-29).  Of a crash on a
\* lost cursor it says nothing.
THEOREM NothingThrown == Spec => []AnnouncersThrowNothing
<1>1. (\A line \in fatal : "exception" \in Outcomes(line)) => AnnouncersThrowNothing
  BY HarmlessLine DEF AnnouncersThrowNothing
<1> QED
  BY FatalThrows, <1>1, PTL

-----------------------------------------------------------------------------
(* Refinement: every step is a step of Exchange or leaves its state alone  *)

\* The phase of an exchange, as X maps it.
Phase == [c \in Client |-> IF c \notin alive THEN "idle"
                           ELSE IF response[c] = "none" THEN "open" ELSE "replying"]

\* A step that leaves the handlers, their replies and what was received alone.
LEMMA QuietStutters ==
  ASSUME UNCHANGED <<alive, response, got, up>> PROVE UNCHANGED X!vars
BY DEF X!vars

\* The tracker starts with every exchange idle.
LEMMA InitImplements == Init => X!Init
BY DEF Init, X!Init

\* Accepting a client opens an exchange, unless the client has gone.
LEMMA AcceptImplements ==
  ASSUME IInv, AcceptClient PROVE X!Next \/ UNCHANGED X!vars
<1>1. PICK c \in Client : c = Head(backlog) /\ Waits(c) /\ up /\ up' = up
  BY Dequeued DEF AcceptClient, IInv, TypeOK, Waits
<1>2. c \notin alive /\ response[c] = "none"
  BY <1>1 DEF IInv, QueueInv, BufferInv
<1>3. CASE UNCHANGED <<alive, sock, watchers, buffers, got>>
  BY <1>1, <1>3, QuietStutters DEF buffers
<1>4. CASE /\ alive' = alive \cup {c} /\ got' = [got EXCEPT ![c] = <<>>]
           /\ UNCHANGED <<clients, writing, buffers>>
  <2>1. response' = response /\ Phase' = [Phase EXCEPT ![c] = "open"] /\ Phase[c] = "idle"
    BY <1>1, <1>2, <1>4 DEF Phase, buffers
  <2>2. X!Open(c)
    BY <1>1, <1>4, <2>1 DEF X!Open, Phase
  <2> QED
    BY <1>1, <2>2 DEF X!Next
<1> QED
  BY <1>1, <1>3, <1>4 DEF AcceptClient

\* Closing without a last piece of the answer.
LEMMA DestroyImplements ==
  ASSUME IInv, up, NEW c \in alive, Destroy(c), got' = got PROVE X!Next
<1>1. c \in Client
  BY DEF IInv, TypeOK
<1>2. /\ Phase' = [Phase EXCEPT ![c] = "idle"] /\ Phase[c] # "idle"
      /\ response' = [response EXCEPT ![c] = "none"] /\ up' = up
  BY <1>1 DEF Destroy, Phase, IInv, TypeOK
<1>3. X!Close(c)
  BY <1>2 DEF X!Close, X!Over, Phase
<1> QED
  BY <1>1, <1>3 DEF X!Next

\* An exception that leaves a callback stops the server.
LEMMA EndLoopImplements ==
  ASSUME up, NEW lines, EndLoop(lines) PROVE X!Next
<1>1. X!Stop
  BY DEF EndLoop, clients, buffers, X!Stop
<1> QED
  BY <1>1 DEF X!Next

\* Data that completes a request decides its reply.
LEMMA ReceiveImplements ==
  ASSUME IInv, up, NEW c \in reading, NEW k, Receive(c, k) PROVE X!Next \/ UNCHANGED X!vars
<1>1. c \in Client /\ c \in alive /\ response[c] = "none"
  BY DEF IInv, TypeOK, BufferInv
<1>2. CASE UNCHANGED <<up, fatal, response, watchers, backlog, clients, owner, alive, sock,
                       sent, got>>
  BY <1>2, QuietStutters
<1>3. ASSUME NEW reply \in Replies, StartWriting(c, reply),
             UNCHANGED <<backlog, clients, owner, alive, sock, sent, got>>
      PROVE  X!Next
  <2>1. /\ Phase' = [Phase EXCEPT ![c] = "replying"] /\ Phase[c] = "open"
        /\ response' = [response EXCEPT ![c] = reply]
        /\ UNCHANGED <<got, up>>
    BY <1>1, <1>3 DEF StartWriting, Phase, Replies, IInv, TypeOK
  <2>2. X!Decide(c)
    BY <2>1 DEF X!Decide, Phase
  <2> QED
    BY <1>1, <2>2 DEF X!Next
<1>4. ASSUME NEW lines, EndLoop(lines) PROVE X!Next
  BY <1>4, EndLoopImplements
<1>5. \A n : \A reply \in IF n > MAX_REQUEST_SIZE THEN {"request too long"}
                         ELSE Replying(message[c].line) : reply \in Replies
  BY OutcomesType DEF Replies
<1> QED
  BY <1>2, <1>3, <1>4, <1>5 DEF Receive

\* What send() takes extends the prefix, and the whole reply ends the exchange.
LEMMA WriteImplements ==
  ASSUME IInv, NEW c \in Client, WriteResponse(c) PROVE X!Next
<1>1. PICK n \in 1 .. ResponseSize - sent[c] :
        /\ got' = [got EXCEPT ![owner[sock[c]]] = @ \o Sent(c, n)]
        /\ IF sent[c] + n = ResponseSize THEN Destroy(c)
           ELSE /\ sent' = [sent EXCEPT ![c] = @ + n]
                /\ UNCHANGED <<up, fatal, backlog, clients, owner, alive, sock, watchers,
                               request, response>>
  BY DEF WriteResponse
<1> DEFINE total == sent[c] + n
<1>2. /\ c \in alive /\ owner[sock[c]] = c /\ response[c] \in Replies
      /\ total \in 1 .. ResponseSize
      /\ got[c] \o Sent(c, n) = X!Units(c, response[c], total)
  BY Continues DEF WriteResponse
<1>3. Phase[c] = "replying" /\ up
  BY <1>2 DEF Phase, Replies, WriteResponse
<1>4. got' = [got EXCEPT ![c] = X!Units(c, response[c], total)]
  BY <1>1, <1>2 DEF IInv, TypeOK
<1>5. total \in Len(got[c]) + 1 .. ResponseSize
  <2>1. sent[c] \in Nat /\ got[c] = X!Units(c, response[c], sent[c])
    BY <1>2, ConnectionsAssumption DEF IInv, TypeOK, BufferInv
  <2>2. Len(X!Units(c, response[c], sent[c])) = sent[c]
    BY <2>1 DEF X!Units
  <2> QED
    BY <1>2, <2>1, <2>2, ConnectionsAssumption
<1>6. CASE total = ResponseSize
  <2>1. /\ Phase' = [Phase EXCEPT ![c] = "idle"]
        /\ response' = [response EXCEPT ![c] = "none"] /\ up' = up
    BY <1>1, <1>2, <1>6 DEF Destroy, Phase, IInv, TypeOK
  <2>2. X!Deliver(c)
    <3> HIDE DEF total
    <3> QED
      BY <1>3, <1>4, <1>5, <1>6, <2>1 DEF X!Deliver, X!Over, Phase
  <2> QED
    BY <2>2 DEF X!Next
<1>7. CASE total # ResponseSize
  <2>1. Phase' = Phase /\ response' = response /\ up' = up
    BY <1>1, <1>7 DEF Phase
  <2>2. X!Deliver(c)
    <3> HIDE DEF total
    <3> QED
      BY <1>3, <1>4, <1>5, <1>7, <2>1 DEF X!Deliver, Phase
  <2> QED
    BY <2>2 DEF X!Next
<1> QED
  BY <1>6, <1>7

\* So every callback of a handler is a step of Exchange or a stutter.
LEMMA HandlerImplements ==
  ASSUME IInv, NEW c \in Client, HandlerStep(c) PROVE X!Next \/ UNCHANGED X!vars
<1>1. CASE ReadRequest(c)
  <2>1. up /\ c \in reading /\ c \in alive
    BY <1>1 DEF ReadRequest, IInv, BufferInv
  <2> QED
    BY <1>1, <2>1, ReceiveImplements, DestroyImplements, EndLoopImplements DEF ReadRequest
<1>2. CASE WriteResponse(c)
  BY <1>2, WriteImplements
<1>3. CASE Timeout(c)
  BY <1>3, DestroyImplements DEF Timeout, IInv, HandlersOwnDescriptors
<1> QED
  BY <1>1, <1>2, <1>3 DEF HandlerStep

\* The network layer keeps the safety half of Exchange's promise, for any
\* number of clients: however requests and answers are cut in pieces and whoever
\* breaks or times out, a client gets a prefix of one answer to its own request
\* and is closed once it has it all (connectionHandler.cpp:49-112).
THEOREM ImplementsExchange == Spec => X!Safety
<1>1. IInv /\ [Next]_vars => [X!Next]_X!vars
  <2>1. ASSUME NEW c \in Client, ClientStep(c) PROVE UNCHANGED X!vars
    BY <2>1, QuietStutters DEF ClientStep, ShutDown, Reset, Connect, buffers
  <2>2. UNCHANGED vars => UNCHANGED X!vars
    BY QuietStutters DEF vars
  <2> QED
    BY <2>1, <2>2, AcceptImplements, HandlerImplements DEF Next
<1> QED
  BY InitImplements, IInvHolds, <1>1, PTL DEF Spec, X!Safety
=============================================================================
