---------------------------- MODULE Connections ----------------------------
(***************************************************************************)
(* The listening socket and the connections of the tracker                 *)
(* (src/network/server.cpp, connectionHandler.cpp and the IPv4 and IPv6    *)
(* classes), with Dispatch behind them: clients connect, send a request in *)
(* pieces, are answered in pieces, and leave when they please.             *)
(*                                                                         *)
(* One event loop runs every callback to its end.  A ConnectionHandler     *)
(* lives until destroy(); libev calls it while one of its three watchers   *)
(* is started.  A descriptor that is closed is given to the next client,   *)
(* so a watcher left behind would speak to somebody else.  Data is counted *)
(* in chunks of a request, of which some end in an empty line, and units   *)
(* of an answer.  Readiness is left to chance: recv and send take what the *)
(* network gives.                                                          *)
(***************************************************************************)
EXTENDS Dispatch, Naturals, Sequences

CONSTANTS
  Client,          \* the clients; one connection each at a time
  MaxDescriptors,  \* bound: descriptors the process may open for clients
  BUFFER_SIZE,     \* Config "read_buffer_size", in chunks
  MAX_REQUEST_SIZE,\* Config "max_request_size", in chunks
  ResponseSize,    \* bound: length of an answer, in units
  Messages         \* [line, chunks] that clients send

Descriptor == 1 .. MaxDescriptors

ASSUME ConnectionsAssumption ==
  /\ MaxDescriptors \in Nat \ {0} /\ BUFFER_SIZE \in Nat \ {0}
  /\ MAX_REQUEST_SIZE \in Nat /\ ResponseSize \in Nat \ {0}
  /\ Messages # {}
  /\ \A m \in Messages : /\ DOMAIN m = {"line", "chunks"}
                         /\ m.line \in Lines
                         /\ m.chunks \in Seq({"text", "end"})
  /\ Client \cap {"free", "leaked"} = {}

VARIABLES
  up,        \* no exception has left the event loop, and the process lives
  fatal,     \* history: the line whose handler threw it
  backlog,   \* connections the kernel has not handed to accept yet
  far,       \* [Client -> its end: "away", "open", "shut" after a FIN, "reset"]
  message,   \* [Client -> what it sends]
  owner,     \* [Descriptor -> the client behind it, "free" or "leaked"]
  alive,     \* the clients with a ConnectionHandler
  sock,      \* [Client -> the descriptor of its handler]
  reading, writing, timing,   \* the handlers whose watcher is started
  request,   \* [Client -> chunks in `request']
  response,  \* [Client -> `response', or "none"]
  sent,      \* [Client -> units of `response' sent]
  got        \* history: [Client -> units received, <<of whom, of what, which>>]

clients  == <<far, message>>
watchers == <<reading, writing, timing>>
buffers  == <<request, response, sent>>
vars == <<up, fatal, backlog, far, message, owner, alive, sock, reading, writing,
          timing, request, response, sent, got>>

Replies == {"error", "success", "announce", "scrape", "invalid action", "request too long"}

\* What a client says that is not there.
Silence == [line |-> CHOOSE l \in {m.line : m \in Messages} : TRUE, chunks |-> <<>>]

Init ==
  /\ up = TRUE /\ fatal = {}
  /\ backlog = <<>>
  /\ far = [c \in Client |-> "away"]
  /\ message = [c \in Client |-> Silence]
  /\ owner = [d \in Descriptor |-> "free"]
  /\ alive = {} /\ reading = {} /\ writing = {} /\ timing = {}
  /\ sock = [c \in Client |-> 1]
  /\ request = [c \in Client |-> 0]
  /\ response = [c \in Client |-> "none"]
  /\ sent = [c \in Client |-> 0]
  /\ got = [c \in Client |-> <<>>]

-----------------------------------------------------------------------------
(* The clients *)

Leave(c) ==
  /\ far' = [far EXCEPT ![c] = "away"]
  /\ message' = [message EXCEPT ![c] = Silence]

Connect(c, m) ==
  /\ up /\ far[c] = "away"
  /\ far' = [far EXCEPT ![c] = "open"]
  /\ message' = [message EXCEPT ![c] = m]
  /\ backlog' = Append(backlog, c)
  /\ UNCHANGED <<up, fatal, owner, alive, sock, watchers, buffers, got>>

\* The client has said all it will say.
ShutDown(c) ==
  /\ up /\ far[c] = "open"
  /\ far' = [far EXCEPT ![c] = "shut"]
  /\ UNCHANGED <<up, fatal, backlog, message, owner, alive, sock, watchers, buffers, got>>

\* The client breaks the connection.
Reset(c) ==
  /\ up /\ far[c] \in {"open", "shut"}
  /\ far' = [far EXCEPT ![c] = "reset"]
  /\ UNCHANGED <<up, fatal, backlog, message, owner, alive, sock, watchers, buffers, got>>

-----------------------------------------------------------------------------
(* The server *)

Free == {d \in Descriptor : owner[d] = "free"}
Leaked == {d \in Descriptor : owner[d] = "leaked"}

\* accept() returns the lowest free descriptor.
Lowest == {d \in Free : \A e \in Free : d <= e}

\* Mutant of Timed: init() does not start the timeout.
Untimed(c) == timing

Timed(c) == timing \cup {c}

\* acceptClient.  getpeername fails if the client has gone already: the
\* constructor throws, acceptClient logs it, and nobody closes the descriptor.
\* Without a free descriptor accept() fails and the client waits.
AcceptClient ==
  /\ up /\ backlog # <<>>
  /\ \E d \in Lowest :
     LET c == Head(backlog) IN
        /\ backlog' = Tail(backlog)
        /\ \/ /\ far[c] = "reset"
              /\ owner' = [owner EXCEPT ![d] = "leaked"]
              /\ Leave(c)
              /\ UNCHANGED <<alive, sock, watchers, buffers, got>>
           \/ /\ far[c] # "reset"
              /\ owner' = [owner EXCEPT ![d] = c]
              /\ alive' = alive \cup {c}
              /\ sock' = [sock EXCEPT ![c] = d]
              /\ reading' = reading \cup {c} /\ timing' = Timed(c)
              /\ got' = [got EXCEPT ![c] = <<>>]
              /\ UNCHANGED <<clients, writing, buffers>>
  /\ UNCHANGED <<up, fatal>>

\* Mutant of StopWatchers: the write watcher is left started.
StopSomeWatchers(c) ==
  reading' = reading \ {c} /\ timing' = timing \ {c} /\ UNCHANGED writing

StopWatchers(c) ==
  reading' = reading \ {c} /\ writing' = writing \ {c} /\ timing' = timing \ {c}

\* destroy(): stop the watchers, close the socket, delete the handler.
Destroy(c) ==
  /\ StopWatchers(c)
  /\ owner' = [owner EXCEPT ![sock[c]] = "free"]
  /\ alive' = alive \ {c}
  /\ request' = [request EXCEPT ![c] = 0]
  /\ response' = [response EXCEPT ![c] = "none"]
  /\ sent' = [sent EXCEPT ![c] = 0]
  /\ Leave(c)
  /\ UNCHANGED <<up, fatal, backlog, sock>>

\* An exception leaves a callback, and main() catches it outside the event loop;
\* a crash leaves no line that threw.
EndLoop(lines) ==
  /\ up' = FALSE /\ fatal' = lines
  /\ UNCHANGED <<backlog, clients, owner, alive, sock, watchers, buffers, got>>

StartWriting(c, reply) ==
  /\ response' = [response EXCEPT ![c] = reply]
  /\ reading' = reading \ {c} /\ writing' = writing \cup {c}
  /\ UNCHANGED <<up, fatal, timing>>

\* The request is complete, or never will be.
Complete(m, n) == n > MAX_REQUEST_SIZE \/ m.chunks[n] = "end"

\* What a handler that returns may answer.
Replying(line) == Outcomes(line) \ {"exception", "crash"}

\* recv() returned k chunks.  An unfinished request waits for more; a finished
\* one is handled at once, and so is nothing that follows it.
Receive(c, k) ==
  LET m == message[c]
      n == request[c] + k
  IN /\ k \in 1 .. BUFFER_SIZE /\ n <= Len(m.chunks)
     /\ \/ /\ ~Complete(m, n)
           /\ request' = [request EXCEPT ![c] = n]
           /\ UNCHANGED <<up, fatal, response, watchers, backlog, clients, owner, alive, sock,
                          sent, got>>
        \/ /\ Complete(m, n)
           /\ \E reply \in IF n > MAX_REQUEST_SIZE THEN {"request too long"}
                           ELSE Replying(m.line) : StartWriting(c, reply)
           /\ request' = [request EXCEPT ![c] = n]
           /\ UNCHANGED <<backlog, clients, owner, alive, sock, sent, got>>
        \/ /\ Complete(m, n) /\ n <= MAX_REQUEST_SIZE /\ "exception" \in Outcomes(m.line)
           /\ EndLoop({m.line})
        \/ /\ Complete(m, n) /\ n <= MAX_REQUEST_SIZE /\ "crash" \in Outcomes(m.line)
           /\ EndLoop({})

\* recv() returns 0 at the end of what the client sent, and -1, which becomes
\* a huge size that append() throws on, if the connection is broken.
ReadRequest(c) ==
  /\ up /\ c \in reading
  /\ \/ far[c] \in {"open", "shut"} /\ \E k \in 1 .. BUFFER_SIZE : Receive(c, k)
     \/ far[c] = "shut" /\ Destroy(c) /\ UNCHANGED got
     \/ far[c] = "reset" /\ EndLoop({})

\* Mutant of Sent: send() starts at response.data() again.
SentFromStart(c, n) == [i \in 1 .. n |-> <<c, response[c], i>>]

\* Mutant of Sent: one unit is skipped.
SentPastEnd(c, n) == [i \in 1 .. n |-> <<c, response[c], sent[c] + i + 1>>]

Sent(c, n) == [i \in 1 .. n |-> <<c, response[c], sent[c] + i>>]

\* send() took n units.  It returns -1 on a broken connection, and the handler
\* waits, for its timeout in the end.
WriteResponse(c) ==
  LET other == owner[sock[c]] IN
  /\ up /\ c \in writing /\ other \in Client /\ far[other] \in {"open", "shut"}
  /\ \E n \in 1 .. ResponseSize - sent[c] :
       /\ got' = [got EXCEPT ![other] = @ \o Sent(c, n)]
       /\ IF sent[c] + n = ResponseSize THEN Destroy(c)
          ELSE /\ sent' = [sent EXCEPT ![c] = @ + n]
               /\ UNCHANGED <<up, fatal, backlog, clients, owner, alive, sock, watchers,
                              request, response>>

Timeout(c) ==
  /\ up /\ c \in timing
  /\ Destroy(c)
  /\ UNCHANGED got

ClientStep(c) == ShutDown(c) \/ Reset(c) \/ \E m \in Messages : Connect(c, m)

HandlerStep(c) == ReadRequest(c) \/ WriteResponse(c) \/ Timeout(c)

Next == AcceptClient \/ \E c \in Client : ClientStep(c) \/ HandlerStep(c)

Spec == Init /\ [][Next]_vars

\* libev calls the accept watcher while a connection waits, and every timer
\* that is started fires.  Nothing is asked of the clients.
FairSpec == Spec /\ WF_vars(AcceptClient) /\ \A c \in Client : WF_vars(Timeout(c))

-----------------------------------------------------------------------------
(* Properties *)

Elements(s) == {s[k] : k \in DOMAIN s}

TypeOK ==
  /\ up \in BOOLEAN /\ fatal \subseteq {m.line : m \in Messages}
  /\ backlog \in Seq(Client)
  /\ far \in [Client -> {"away", "open", "shut", "reset"}]
  /\ message \in [Client -> Messages \cup {Silence}]
  /\ owner \in [Descriptor -> Client \cup {"free", "leaked"}]
  /\ alive \subseteq Client /\ sock \in [Client -> Descriptor]
  /\ reading \subseteq Client /\ writing \subseteq Client /\ timing \subseteq Client
  /\ request \in [Client -> Nat]
  /\ \A c \in Client : request[c] <= Len(message[c].chunks)
  /\ response \in [Client -> Replies \cup {"none"}]
  /\ sent \in [Client -> 0 .. ResponseSize]
  /\ got \in [Client -> Seq(Client \X (Replies \cup {"none"}) \X (1 .. ResponseSize))]

\* A handler and its descriptor belong to each other from accept to close, a
\* callback never reaches a deleted handler, no handler is without its timeout
\* (connectionHandler.cpp:25-35, 102-112): what is accepted is closed once.
HandlersOwnDescriptors ==
  /\ \A c \in alive : owner[sock[c]] = c
  /\ \A d \in Descriptor : owner[d] \in Client => owner[d] \in alive /\ sock[owner[d]] = d
  /\ reading \cup writing \subseteq alive
  /\ timing = alive

\* On a private tracker no announce or scrape of the form GET
\* /passkey/action?params ends the server by an exception, whatever it leaves
\* out, as long as its numbers are numbers: what Parser::check requires covers
\* what handle, announce and addPeer read (parser.cpp:12-15,
\* requestHandler.cpp:33-57, 97-101, 157-169, peers.cpp:21-29).  An announce may
\* still end it by a crash, when its answer follows a lost cursor.
AnnouncersThrowNothing ==
  \A line \in fatal :
    ~(Type = "private" /\ line.path = {"reqpasskey", "action"} /\ line.numbers
      /\ line.action \in {"announce", "scrape"})

Waits(c) == c \in Elements(backlog)

\* A client that connects is accepted, even if every descriptor is taken by
\* clients that never say a word: their timeouts give the descriptors back.
\* Not so if all have been leaked (server.cpp:64-79, connectionHandler.cpp:97-112).
WaitingAccepted ==
  \A c \in Client : Waits(c) ~> (~Waits(c) \/ Leaked = Descriptor \/ ~up)

\* requestHandler.cpp:26, "check if we have all we need to process": a request
\* that passed the check does not end the server.
CheckedIsEnough == \A line \in fatal : ~Check(line)

X == INSTANCE Exchange WITH
       phase <- [c \in Client |-> IF c \notin alive THEN "idle"
                                  ELSE IF response[c] = "none" THEN "open" ELSE "replying"],
       reply <- response, Size <- ResponseSize

\* However requests and answers are cut in pieces, whoever breaks or times
\* out, each client gets a prefix of one answer to its own request, is closed
\* once it has it all, and every connection ends (connectionHandler.cpp:49-112).
ExchangeImplemented == X!Spec
=============================================================================
