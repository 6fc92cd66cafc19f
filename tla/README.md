# Verification of liquid

liquid is a torrent tracker: one libev event loop answers announces, scrapes and
updates from the site over HTTP, keeps the swarms in memory, and writes what
changed to MySQL from detached threads. This directory holds TLA+ modules of its
core, TLC configurations that check them, and TLAPS proofs.

## Inventory

Paths are relative to the repository.

| Component | State | Operations | What is hard | What makes it correct |
|---|---|---|---|---|
| Database layer (`src/database/mysql.cpp`, `inc/database/db.hpp`) | the `xxxRequests` and `xxxRecords` lists, `sqlLock`, one connection | `recordXxx`, `flush`, `doFlushRecords`, `connect`, `disconnect` | detached threads, refused statements, a lost connection, an unlocked `push_back` against an `erase`, a signal anywhere | threads exclude one another; every row is accounted for, written once, and reaches the database |
| Process (`src/main.cpp`, timers of `src/network/server.cpp`) | running, stopping, exited | signal handler, flush / clear / stats timers, end of `main` | exit without waiting for the threads; exceptions that end the loop | stopping leaves no row in a buffer, and a statement that waits has met an error or has a thread to come, but for what the race on the lists costs |
| Request handler (`src/handler/requestHandler.cpp`) | `torMap`, `usrMap`, bans, whitelist, leech status | `announce`, `scrape`, 18 update types, `clearTorrentPeers` | four maps per torrent and a client that moves between them; removals that miss; `at()` that throws | rows, statistics and maps agree; who announces stays, who is silent or barred leaves |
| `Peer`, `Peers`, `Torrent` (`src/handler`) | totals, corrupt, active, lastUpdate; the maps and the cursor of `nextPeer`; snatches, balance | construct, `updateStats`, `timedOut`, `addPeer`, `removePeer`, `nextPeer` | unsigned differences, an uninitialised field, a cursor that survives erasures | traffic is charged as announced; the cursor stands on a peer |
| `User` | authorized, tokens, IP restrictions | the `update` handlers, `updateStats` | ages, 32-bit parameters | tokens expire |
| `Stats` | peers, torrents, speed, transferred | inc / dec, `show` | counters that drift and wrap | they are the sizes they name |
| Parser and dispatch (`src/misc/parser.cpp`, `RequestHandler::handle`) | `required` | `parse`, `check`, `handle` | parameters required and parameters read differ | an accepted request has what its handler reads |
| Connections and servers (`src/network`) | sockets, three watchers, `request`, `response`, `sent` | accept, read, write, timeout, destroy | partial reads and writes, a timeout at any point, errors of `recv` and `send` | a connection ends, once, and its answer is sent in full or not at all |
| Start and restart (`src/main.cpp:19-64`, the load queries of `mysql.cpp`) | what the database held | `init`, `reset`, `loadTorrents`, `loadUsers`, ... | each query may fail and the tracker starts all the same; rows of an earlier life | rows and maps agree from the first announce on |
| Config, Logger, Response, Utility | settings, level | read, format | | not modelled: no state that changes after the start |

Requests reach `RequestHandler::handle` from a connection's read callback; its
answer is stored in the connection and sent by its write callback. `announce`
changes the maps and calls `recordPeer`, `recordUser`, `recordTorrent` and
`recordToken`. The flush timer turns the recorded rows into statements and starts
a thread for each list. At the start the load queries fill the maps the handlers
work on. Everything but the flush threads and the
signal handler runs in the event loop, one callback at a time, so a handler is one
step; a flush is several.

## Modules

Four groups of modules, each self-contained:

| Group | Abstract | Detailed | Instance | Proofs |
|---|---|---|---|---|
| Database layer | Ledger | MySQL | MCMySQL | MySQLProofs, OrderProofs |
| Request handler | | Swarm, Load, RequestHandler | MCRequestHandler | SwarmProofs, RequestHandlerProofs, RecordProofs, ChargeProofs |
| Peers of an answer | | PeerRing | MCPeerRing | PeerRingProofs |
| Network | Exchange | Dispatch, Connections | MCConnections | ConnectionsProofs |

* **Ledger**: what the database layer promises, and nothing else: while the
  process is up a recorded row is in at most one executed statement, in any order.
* **MySQL**: the database layer and the process around it. The main thread is
  `step`/`at`: a flush visits the tables in the order of `flush()`, pushing a
  statement (`FlushPush`), clearing the buffer (`FlushClear`) and starting a
  thread (`FlushSpawn`), so that a thread or a signal can come in between. A
  thread is `pc`/`table`/`it` and walks a list as `doFlushRecords` does. Rows are numbered; a
  batch is a set of numbers. The race of `push_back` with `erase` is undefined
  behaviour: `AppendDuringErase` lets the size lose an update and the new node, or
  every later one, become unreachable. `LedgerImplemented` maps it to Ledger.
* **Swarm**: peers, the four maps and a torrent as values, with the integers'
  widths (`LongMod`, `IntMod`) and ages in place of time stamps.
* **Load**: the database a tracker finds (`IsDatabase`) and what each load query
  makes of it when it succeeds and when it fails. `LoadEnds` is the one case that
  ends the process: a token whose user is gone makes a catch clause throw.
* **RequestHandler**: one action per handler. `Init` is `init()` on any database of
  `Databases` with any set of `Answered` queries. `Announce` is the whole of
  `announce()`: the refusals (`Admitted`), the leecher's half (`AsLeecher`), the
  seeder's half (`SideUsed`, `AsSeeder`), `inactive()` (`Parting`), the accounting
  (`Charged`, `Accounted`), the removals (`Departed`) and the rows. The updates follow, then
  `ClearTorrentPeers`, the passing of time and `Restart`: the process ends at any
  moment and starts again on the rows it left, of which `reset()` clears some; the
  site, which owns the other tables, may have changed those. `DeleteTorrent` erases the map entry
  and records nothing. The last rows handed to the database are kept for the properties, and of
  each client, as history, when it was last heard of (`seen`), whether it has stopped, and the
  announce it can go on from (`last`): for whom, over which family, with which totals and at
  which price; a client that stops has none.
* **PeerRing**: the cursor of `Peers` and the end of `announce()`. A map is the
  sequence of its nodes; a cursor is a node, `end()`, or, once its node is erased,
  lost. `Ask` splits `numwant` between the families and calls `nextPeer` as often as
  the code does. A lost cursor is undefined behaviour: it may hand out what is left
  of the departed peer, then crash, or find a newer peer, of either family, in the
  same memory.
* **Dispatch**: a request line as the parameters it carries: what `Parser::parse`
  finds, what `Parser::check` requires, which handler `handle` picks, what that
  handler reads with `at()`, and so the possible outcomes, an exception among them. An announce
  that gets as far as its answer may also crash: PeerRing says when (a lost cursor).
* **Exchange**: what the network layer promises: one reply, of which the client
  gets a growing prefix and nothing else, closed when complete, and closed in any case.
* **Connections**: the listening socket and the connection handlers, on top of
  Dispatch. A handler is its membership in `alive`, its descriptor, its three
  watchers and its buffers; descriptors are reused, and leaked where the code leaks
  them. Clients send a request in chunks, shut down, break the connection or fall silent at
  any point; `recv` and `send` take any amount. `ExchangeImplemented` maps it to Exchange.

How the groups fit together: Connections calls `handle` at the point where it
takes an element of `Outcomes`; RequestHandler is what `handle` does to the maps at that
point, in one step because the event loop runs one callback at a time; PeerRing is the
part of the same step that fills the answer; the rows of RequestHandler are MySQL's `Record`.

## Runs

| Configuration | Checks | Instance |
|---|---|---|
| `MySQLSafety` | `TypeOK`, `SqlExclusive`, `IteratorValid`, `NothingLost`, `StopHandsOver` | two tables, two threads, two rows, lossy link, race, signal anywhere |
| `MySQLLive` | `AtMostOnce`, `OrderUnlessRetried`, `LedgerImplemented`, `Delivered` | one table, two threads, three rows, two refused statements, a link that may break before or after a statement is executed, no race, no signal between push and clear |
| `MySQLRace` (violated) | `NoRowDropped` | the race alone |
| `Swarming` | `TypeOK`, `NobodyStranded`, `KeepsAnnouncing` | private; one torrent, which is added, freed and deleted; one client over IPv4 that does as it likes, another that downloads over IPv6, completes and stops; tokens, restarts at any moment, on a site with free leech or without |
| `Accounting` | `ChargedAsAnnounced`, `TorrentRowCurrent` | private; `long` and `int` of one bit, so that sums wrap; one client that downloads, completes, seeds and stops over IPv4, and downloads, completes and seeds over IPv6, in any order; two users, one without a client; free leech that comes and goes; restarts on counters that have grown |
| `Public` | `StatsTorrents`, `SilentTorrentsGo`, `GoneWhenSilent` | public; one client on two torrents, one over each family, as a leecher and as a seeder; a counter that wraps |
| `Admin` | `BarredClientsLeave` | one client and user, two passkeys, two addresses, two prefixes, all access updates, restarts at which the ban, user, token or restriction query, or every query, fails |
| `Ring` | `TypeOK`, `EveryoneInTurn`, `AnswerFromSwarm` | three IPv4 peers and one IPv6 peer, `numwant` of -1, 0, 1, 2 and 9, `max_numwant` 3 |
| `Network` | `TypeOK`, `HandlersOwnDescriptors`, `AnnouncersThrowNothing`, `ExchangeImplemented`, `WaitingAccepted` | private; two clients, two descriptors, five messages (an announce and a scrape that are handled, an announce without `left`, one that is too long, an update that throws), buffers of two chunks, answers of two units |
| `Tokens`, `Ring6`, `Checked` (violated) | one property each | see below |

Bounds, and why they are enough:

* MySQL. Two tables are enough for threads of one list and of two lists to meet: the
  code of the five is the same but for names. Two threads are enough for one to hold the
  lock and another to wait; a thread that ended can be started again. `MySQLLive` has three
  rows in one table, so that of three statements two are refused and retried while the
  third overtakes them. `AtMostOnce` and `LedgerImplemented` for several tables and under the race are left to the proofs.
* RequestHandler. One or two clients are enough because a handler touches one peer of
  one torrent; the second shows what it must leave alone. `UserRef`, the announces,
  the databases and the widths are bounds of the instances. Ages stop at the first
  value past the timeout, which no comparison tells from a later one. `Swarming` and
  `Accounting` have a timeout of 0, so that whoever is not heard of between two ticks
  is cleared; the safety theorems hold for every timeout. `Accounting` has integers of two
  values, where a charge that is missing or doubled shows for odd differences, though not its
  sign; the theorem holds for every width, the cut of a 64-bit difference to 32 included.
* PeerRing. With three nodes a cursor can be at the first, in the middle and at the last,
  and an insertion before, at and after it; with one on the other side the IPv6 share is
  less than, equal to or more than what is left of `numwant`.
* Connections. Two clients and two descriptors: a leak of one makes the other
  contended, and a descriptor is reused by the other client. The requests fit one read,
  take two, exceed the limit and hold more than one request; a two-unit answer is sent
  in one piece or two.

Deadlock is not checked: the process may exit (by a signal or an exception) and then
nothing moves, or only a restart does.

The violated runs, listed as findings in `PROJECT.json`:

* `MySQLRace`: the records lists are pushed on without `sqlLock`, so a statement can be lost.
* `Tokens`: `isTokenExpired` is inverted with respect to its comment.
* `Ring6`: `numwant` is cut to the size of the IPv4 map before the IPv6 share is
  taken, so a client over IPv6 gets nobody from a swarm with IPv6 peers alone.
* `Checked`: `check` passes requests whose handler throws. The counterexample is a
  request without a passkey on a public tracker (`at("reqpasskey")`, while the
  parser's third form of a path has none). Dispatch has more on a private tracker:
  `add_ban` and `remove_ban` are checked for `from` and `to` and read `fromip` and
  `toip`; `add_torrent` reads `freetorrent`, `set_leech_status` reads `leech_status`,
  the IP restrictions read `ip` and `passkey`, and none of these is required.

What the passing properties do not say:

* `NothingLost` and `StopHandsOver` count a row on a node that the race has cut off, and a
  statement in a list whose `size()` the race has made too small. Where there is no race
  (`RacyLists` false) nothing is cut off, and `StopHandsOver` has no such exception left. It ends where `disconnect()`
  begins: a thread that is still to come may find the connection closed, or the process gone.
  A statement that has met an error need not have been tried by the last flush.
* `NobodyStranded` is about steps, and excepts two. `delete_torrent` erases a torrent with its
  peers and records nothing, so rows that call them active stay; and a start whose `reset()`
  fails keeps the rows of the last life, as `TorrentRowCurrent` allows for too. The converse, that a
  client in a map has an active row, is false: nothing sets `active` again.
* `ChargedAsAnnounced` is about announces that go on from the client's last one, or are the first
  since the tracker forgot it. It leaves out a client it still knows that announces for another user,
  over the other family, or as a leecher after a seeder, and one that comes back after a stop that
  left its entry in a map (an IPv4 client that completed stays among the leechers). It leaves open what
  an announce that changes price is charged for its download: the code sets the total to 0 before it
  takes the difference, so the whole session is refunded, or charged, at that announce. And a client that
  completes over IPv6 counts as new, as its traffic since the last announce is charged to nobody.
* `KeepsAnnouncing` is about a client that uses one family, which the theorem states as
  `OneFamily`. Without it the invariant fails: a client that downloads over both and
  then completes is refreshed in the map it is removed from, and the clearing timer
  takes the entry that is left.
* `AtMostOnce` fails when a signal comes between a `push_back` and its `clear()`;
  the constant `SignalSplits` excludes that point.
* `AnswerFromSwarm` and `EveryoneInTurn` do not speak of a lost cursor, which the module
  reaches (the peer under it leaves) and which can end the process.
* `ExchangeImplemented` counts a unit as received when the kernel takes it. `WaitingAccepted`
  allows for every descriptor being leaked: when `getpeername` fails the constructor
  throws and nobody closes the socket. A broken connection ends the server
  (`recv`'s -1 becomes a length), which the properties allow for with `up`.
* `AnnouncersThrowNothing` is about exceptions, for announces and scrapes of the first form of a path
  whose numbers are numbers; `stoul` and `stoi` throw on others. It does not say that no announce ends
  the server: one whose answer follows a lost cursor may, which is an outcome of Dispatch and a step of Connections.

## Fairness

* MySQL: the flush timer repeats, the main thread and started threads are
  scheduled, and `mysql_real_query` returns. Nothing is assumed of new rows,
  signals or exceptions; the server refuses at most `MaxFailures` statements.
  Weak fairness suffices: the lock is taken by a thread that walks a finite list
  and ends, and in the checked instance no thread can starve another for ever.
* RequestHandler: time passes and the clearing timer, which libev repeats, fires. No announce,
  update or restart is ever required.
* Connections: libev calls the accept watcher while a connection waits, and a started
  timeout fires. Nothing is asked of the clients, nor of reads and writes: that a
  connection ends rests on its timeout alone.

## Proofs

`MySQLProofs`, for every sequence of tables, set of threads and bound, with
refused statements, lost connections and the race:

* The inductive invariant `IInv` is `TypeOK`, `IteratorValid` and `LockInv` (the
  holder of `sqlLock` is exactly the thread past it). `TypeOK` alone is not
  inductive: erasing keeps a list a sequence only if the iterator is inside, and
  it stays inside only because other threads are kept out. `TypeCorrect`,
  `OneThreadInside` and `IteratorsStayValid` follow.
* `NothingIsLost` adds `Accounted`, `ErasedWritten` (a thread about to erase has
  executed its statement) and `ClearLosesNothing` (a buffer about to be cleared is in
  a statement, or dropped by the race).
* `StoppingHandsOver` rests on `StopInv`: once the signal came nothing is recorded, and each table
  that the last flush has passed is `Handed`: its buffer is empty, and a statement in its list has met an error
  or is before a thread (one that waits for the lock, or whose iterator has not passed it). `ThreadCovers`
  is the step of a thread: what its iterator leaves behind is erased or has met an error, and
  the lock keeps any other iterator from shifting. `SizeInv` says that without the race `size()`
  is the length, so that no list with a statement is taken for empty. That every row is in a statement
  then comes from `NothingIsLost`.
* `NoRowTwice` adds that waiting batches, buffers and executed statements are
  apart, except for the one a thread is about to erase or that a broken link left
  in doubt. It assumes `~SignalSplits`.
* `ImplementsLedger` maps each step to a Ledger step or a stutter: the log of
  Ledger is the sequence of executed statements, so a repeated statement would
  show, and the invariant of `NoRowTwice` makes each one new. It assumes
  `~SignalSplits` too.
* `OrderCorrect` (OrderProofs) states `OrderUnlessRetried`. Its invariant `OrderInv` adds that the
  rows of a buffer are newer than those of any statement, that the statements of a list
  stand in the order they were recorded, that one which waits and has met no error is newer
  than all its table has written, and that a walk leaves behind it only statements that
  have met an error. It needs `~SignalSplits` as well: a buffer pushed twice puts its rows into a
  statement behind newer ones. The race that drops rows and a link that breaks are allowed.

`ConnectionsProofs`, for any clients, messages, number of descriptors and sizes:

* The inductive invariant `IInv` is `TypeOK`, `HandlersOwnDescriptors`, `QueueInv` (a
  client is away, in the backlog once, or behind a handler) and `BufferInv` (the
  buffers of a handler say which watcher is started and which prefix of its reply
  the client has). The pairing needs the queue: a client that is accepted must not
  have a handler. Types need the buffers: what is sent must be part of a reply.
  `TypeCorrect` and `HandlersPaired` follow.
* `NothingThrown` rests on a lemma about Dispatch alone, `HarmlessLine`: what `check`
  requires of an announce covers what its handler reads. It says nothing of a crash.
* `ImplementsExchange` maps each step to a step of Exchange or a stutter. That a
  piece of an answer extends a prefix to a longer one is the lemma `Prefixes`. It is
  the safety half of `ExchangeImplemented`; that every exchange ends is left to TLC.

`SwarmProofs`, `RequestHandlerProofs`, `RecordProofs` and `ChargeProofs`, for any clients, users, torrents,
announces, databases, failed queries, timeouts and integer widths:

* SwarmProofs are the lemmas about Swarm's operators: what `IsTorrent` makes of putting
  a peer into a map, of refreshing, moving and removing it, and of an announce that does several.
* `TypeCorrect` (RequestHandlerProofs) needs no strengthening, but every part of `TypeOK`
  needs another: peers point to users that exist because users are removed from passkeys
  and not from memory; the rows have a place for each client that the announces and the
  restart keep. `Announce` is proved in the order of the code.
* `StatsCorrect`: the counter is the size of `torMap` modulo its width, with one lemma for the
  insertion and one for the erasures of a clearing, which may be several.
* `RowsCorrect` adds `RowPerTorrent` (on a tracker that is not public, the torrents that have a
  row are those in memory): a clearing rewrites only rows that exist, an addition makes a row
  for a torrent that is new, and a deletion drops it.
* `StrandedCorrect` is proved step by step (`StrandedStep`): an announce or a clearing that takes a client out of
  the last map that holds it records the peer as inactive in the same step, a start whose `reset()` succeeds clears
  the rows, and a public tracker has none.
* `AnnouncingCorrect` rests on `InOwnFamily` (peers are in the maps of the family they
  announce over) and `FreshEntries` (a client that has not stopped has an entry no older
  than its last announce, so the timer leaves it). It has the hypothesis `OneFamily`,
  which every run with this property satisfies; see above for why it is needed.
* `ChargesCorrect` (ChargeProofs) states `ChargedAsAnnounced`, without a hypothesis. Its invariant `Traces` says
  where the client's last announce can be found: an entry of a client that has an announce to go on from
  and is still known belongs to that announce's user, is in the map the next announce will look in, and holds its totals
  (0 for what was downloaded for free). A client that completed is in two maps with different totals; the invariant
  says which of the two counts (`MainEntry`) and that the other does not outlive it. The step of
  an announce (`AnnounceCharges`) then finds that entry (`SideFound`, `PeerFound`), `Difference` is the arithmetic
  (a difference of totals modulo one width, cut to another), and `AnnounceGrows` restores the invariant. Updates,
  clearings and restarts only take entries away.

`PeerRingProofs`, for any peers, `numwant`, default and maximum, negative ones included:

* The library's induction theorems take an operator as a parameter, which no installed prover
  can instantiate. Two lemmas stand in for them: `SetInduction`, over a set of
  numbers, from the theorem that `<` is well founded, and `Recursion`, that a
  function defined by steps exists. With them `getPeers`, a recursive function, is shown to be a run of its
  loop (`GetPeersWalks`), and invariants of the loop are proved by induction over its turns.
* `TypeCorrect` rests on what each change makes of a list of nodes: `InsertedKeeps`,
  `OrdersOnce` (a rehash) and `RemainingKeeps`.
* `TurnsCorrect`: `RoundKept` says that the cursor reaches those who wait for a peer's next
  turn before it reaches that peer. `EveryoneInTurn` is not inductive without it.
  `NextInRound` says what a call of `nextPeer` does to this order and `TurnsKept` that
  insertions and erasures preserve it.
* `AnswerCorrect`: the loop keeps `Given` (those handed out are distinct members, and the cursor
  reaches every other member first), so as long as there are members left the next one is new.

The only assumptions are those on the constants, which TLC evaluates on every run:
`ConstantsAssumption` (MySQL), `ConnectionsAssumption`, `RequestHandlerAssumption` (among
others, that info hashes and peer ids are finite, as a size of a map is counted),
`LoadAssumption`, `SwarmAssumption` and `PeerRingAssumption`.

Every invariant of a passing run is a theorem. Only model-checked: liveness
(`Delivered`, `GoneWhenSilent`, `SilentTorrentsGo`, `BarredClientsLeave`, `WaitingAccepted`,
the fairness of Exchange), which the prover does not reach.

## Not modelled

* Config: values are constants. (Reading a value that is a lone quote is out of the models.)
* Logger, Response, Utility: text without state. The scanning of characters in
  Parser: a request is the parameters it carries. The text of statements, the command
  line, opening the sockets.
* `Stats::speed` and `transferred`, a peer's speed and time spent, the amount on a
  token row: written to the log or to a row and read nowhere. `Stats::peers` is in the
  model, drift included, but no property is about it: nothing reads it but a line of the log.
* The numbers of a scrape: it reads the sizes of maps and changes nothing. In them the
  IPv4 leechers count twice and a peer that completed may still count as one.
* A torrent's numeric id (an info hash has one id), and a `"type"` that is neither
  public nor private (the modules allow it, no run uses it).
* A second signal that interrupts the handling of the first. A `recv` or `send`
  that fails although its socket was reported ready and the client is there.
* `recordSnatch`, which the program never calls, appears only as one of MySQL's tables.

## Plan

1. Done: Ledger, MySQL; Swarm, Load, RequestHandler with restarts; PeerRing; Exchange,
   Dispatch, Connections; and the eight modules of proofs.
2. The composition of Connections, RequestHandler and MySQL in one module. It is not
   done because handlers are atomic (the composition adds no interleaving within
   one) and its smallest instance with two clients and a flush is the product of
   instances that have hundreds of thousands of states each.
3. Theorems left: `AnnouncingCorrect` without its hypothesis on families.
