------------------------------- MODULE MySQL -------------------------------
(***************************************************************************)
(* The write-behind database layer (src/database/mysql.cpp, Database in    *)
(* inc/database/db.hpp) together with the part of the process that drives  *)
(* it: the flush timer, the signal handler, the detached flush threads.    *)
(*                                                                         *)
(* The event loop records rows in the xxxRequests lists.  flush() turns    *)
(* each non-empty list into one multi-row statement, appends it to the     *)
(* table's xxxRecords list and starts a detached thread which, holding     *)
(* sqlLock, walks that list: a statement the server accepts is erased, one *)
(* it refuses stays for the next thread.                                   *)
(*                                                                         *)
(* Rows are numbered per table in the order they are recorded, so a batch  *)
(* (one statement) is the set of its row numbers; their text is left out.  *)
(* A thread's list iterator is the position it stands at.                  *)
(***************************************************************************)
EXTENDS Integers, Sequences, FiniteSets

CONSTANTS
  FlushOrder,   \* the tables in the order flush() visits them
  Threads,      \* identities for the detached threads
  MaxRows,      \* bound: rows recorded per table
  MaxFailures,  \* bound: statements that come back with an error
  LinkMayBreak, \* may the one connection to the server be lost?
  RacyLists,    \* may the unlocked push_back meet an erase half way?
  SignalSplits  \* may a signal come between a push_back and its clear()?

Tables == {FlushOrder[k] : k \in DOMAIN FlushOrder}

ASSUME ConstantsAssumption ==
  /\ FlushOrder \in Seq(STRING)
  /\ FlushOrder # <<>>
  /\ "reset" \notin Tables
  /\ MaxRows \in Nat
  /\ MaxFailures \in Nat
  /\ LinkMayBreak \in BOOLEAN
  /\ RacyLists \in BOOLEAN
  /\ SignalSplits \in BOOLEAN

VARIABLES
  recorded,   \* [Tables -> Nat] rows recorded so far
  requests,   \* [Tables -> set of rows] the xxxRequests lists
  records,    \* [Tables -> Seq(set of rows)] the xxxRecords lists, as walked
  size,       \* [Tables -> Int] what xxxRecords.size() returns
  severed,    \* tables whose list head no longer leads to new nodes
  dropped,    \* [Tables -> set of rows] rows on nodes no walk can reach
  step,       \* what the main thread is doing
  at,         \* the position of flush() in FlushOrder
  stopping,   \* the signal handler has taken over the main thread
  pc,         \* [Threads -> program counter in doFlushRecords]
  table,      \* [Threads -> the list the thread was started for]
  it,         \* [Threads -> its iterator, 1 .. Len + 1]
  sqlLock,    \* the threads that hold sqlLock
  connected,  \* the connection opened by connect() is alive
  executed,   \* the statements the server executed, in order
  retried,    \* [Tables -> set of batches that have met an error]
  failures    \* statements the server has refused

handler == <<recorded, requests>>
lists   == <<records, size, severed, dropped>>
main    == <<step, at, stopping>>
workers == <<pc, table, it, sqlLock>>
server  == <<connected, executed, retried, failures>>
vars == <<recorded, requests, records, size, severed, dropped, step, at,
          stopping, pc, table, it, sqlLock, connected, executed, retried, failures>>

Statement(t, rows) == [table |-> t, rows |-> rows]
ResetStatement == Statement("reset", {})

Up == step # "exited"

\* connect() has run.  If it succeeded, reset() was the first thing the server
\* executed; if not, the tracker only logs it and goes on.
Init ==
  /\ recorded = [t \in Tables |-> 0]
  /\ requests = [t \in Tables |-> {}]
  /\ records = [t \in Tables |-> <<>>]
  /\ size = [t \in Tables |-> 0]
  /\ severed = {}
  /\ dropped = [t \in Tables |-> {}]
  /\ step = "loop" /\ at = 1 /\ stopping = FALSE
  /\ pc = [w \in Threads |-> "idle"]
  /\ table = [w \in Threads |-> FlushOrder[1]]
  /\ it = [w \in Threads |-> 1]
  /\ sqlLock = {}
  /\ connected \in {TRUE, ~LinkMayBreak}
  /\ executed = IF connected THEN <<ResetStatement>> ELSE <<>>
  /\ retried = [t \in Tables |-> {}]
  /\ failures = 0

-----------------------------------------------------------------------------
(* The main thread: request handlers, the flush timer, the signal handler. *)

\* recordUser, recordTorrent, recordPeer, recordToken: push_back one row.
Record(t) ==
  /\ step = "loop"
  /\ recorded[t] < MaxRows
  /\ recorded' = [recorded EXCEPT ![t] = @ + 1]
  /\ requests' = [requests EXCEPT ![t] = @ \cup {recorded[t] + 1}]
  /\ UNCHANGED <<lists, main, workers, server>>

\* The repeating timer calls flush().
FlushTimer ==
  /\ step = "loop"
  /\ step' = "push" /\ at' = 1
  /\ UNCHANGED <<stopping, handler, lists, workers, server>>

\* Mutant: the statement goes to the front of the list.
Prepend1(t, batch) ==
  /\ size' = [size EXCEPT ![t] = @ + 1]
  /\ records' = [records EXCEPT ![t] = <<batch>> \o @]
  /\ UNCHANGED <<severed, dropped>>

\* push_back with nobody else inside the list.
Append1(t, batch) ==
  /\ size' = [size EXCEPT ![t] = @ + 1]
  /\ UNCHANGED severed
  /\ \/ /\ t \notin severed
        /\ records' = [records EXCEPT ![t] = Append(@, batch)]
        /\ UNCHANGED dropped
     \/ /\ t \in severed
        /\ dropped' = [dropped EXCEPT ![t] = @ \cup batch]
        /\ UNCHANGED records

Erasing(w, t) == pc[w] = "erase" /\ table[w] = t

\* push_back while a thread is in the middle of erase() on the same list: the
\* two counter updates may lose one another, and if the node being erased is
\* the last one, the new node may be linked behind it and become unreachable,
\* for itself alone or for every node appended after it too.
AppendDuringErase(t, batch) ==
  /\ RacyLists
  /\ \E w \in Threads :
       /\ Erasing(w, t)
       /\ \E d \in 0 .. 2 : size' = [size EXCEPT ![t] = @ + d]
       /\ \/ /\ t \notin severed
             /\ records' = [records EXCEPT ![t] = Append(@, batch)]
             /\ UNCHANGED <<severed, dropped>>
          \/ /\ it[w] = Len(records[t])
             /\ severed' \in {severed, severed \cup {t}}
             /\ dropped' = [dropped EXCEPT ![t] = @ \cup batch]
             /\ UNCHANGED records

\* The first half of flushUsers() and its siblings: build the statement from
\* the buffered rows and push it on the records list.
FlushPush ==
  LET t == FlushOrder[at] IN
  /\ step = "push"
  /\ \/ /\ requests[t] = {}
        /\ step' = "spawn"
        /\ UNCHANGED lists
     \/ /\ requests[t] # {}
        /\ step' = "clear"
        /\ Append1(t, requests[t]) \/ AppendDuringErase(t, requests[t])
  /\ UNCHANGED <<at, stopping, handler, workers, server>>

\* requests.clear(), after which the statement alone holds the rows.
FlushClear ==
  /\ step = "clear"
  /\ step' = "spawn"
  /\ requests' = [requests EXCEPT ![FlushOrder[at]] = {}]
  /\ UNCHANGED <<recorded, at, stopping, lists, workers, server>>

\* Mutant: flush() forgets its last table.
AdvanceLeavingLast ==
  \/ /\ at + 1 < Len(FlushOrder)
     /\ at' = at + 1 /\ step' = "push"
  \/ /\ at + 1 >= Len(FlushOrder)
     /\ at' = at
     /\ step' = IF stopping THEN "reset" ELSE "loop"

\* Mutant: flush() runs one table too far.
AdvancePastEnd ==
  /\ at' = at + 1
  /\ step' = IF at < Len(FlushOrder) THEN "push" ELSE "loop"

\* flush() goes on with the next table, and returns after the last one: to
\* the event loop, or to disconnect() when it was called from stop().
Advance ==
  \/ /\ at < Len(FlushOrder)
     /\ at' = at + 1 /\ step' = "push"
  \/ /\ at = Len(FlushOrder)
     /\ at' = at
     /\ step' = IF stopping THEN "reset" ELSE "loop"

\* The second half: start a detached thread unless the list says it is empty.
FlushSpawn ==
  LET t == FlushOrder[at] IN
  /\ step = "spawn"
  /\ \/ /\ size[t] = 0
        /\ UNCHANGED <<pc, table>>
     \/ /\ size[t] # 0
        /\ \E w \in Threads :
             /\ pc[w] = "idle"
             /\ pc' = [pc EXCEPT ![w] = "start"]
             /\ table' = [table EXCEPT ![w] = t]
  /\ Advance
  /\ UNCHANGED <<stopping, handler, lists, it, sqlLock, server>>

\* SIGINT or SIGTERM interrupts the main thread wherever it is: handler()
\* calls RequestHandler::stop(), which starts a flush of its own.
Signal ==
  /\ Up /\ ~stopping
  /\ step # "clear" \/ SignalSplits
  /\ stopping' = TRUE
  /\ step' = "push" /\ at' = 1
  /\ UNCHANGED <<handler, lists, workers, server>>

\* disconnect(): reset() empties the peers table without taking sqlLock, an
\* error being only logged, and mysql_close() takes the connection away from
\* whatever thread is using it.
Disconnect ==
  /\ step = "reset"
  /\ step' = "closed"
  /\ connected' = FALSE
  /\ \/ UNCHANGED executed
     \/ /\ connected
        /\ executed' = Append(executed, ResetStatement)
  /\ UNCHANGED <<at, stopping, handler, lists, workers, retried, failures>>

\* exit(0) after disconnect().  The detached threads are not waited for.
ExitStopped ==
  /\ step = "closed"
  /\ step' = "exited"
  /\ UNCHANGED <<at, stopping, handler, lists, workers, server>>

\* An exception has left a request handler and the event loop: main() logs it
\* and returns, without a flush.
ExitOnException ==
  /\ step = "loop"
  /\ step' = "exited"
  /\ UNCHANGED <<at, stopping, handler, lists, workers, server>>

-----------------------------------------------------------------------------
(* A detached thread: doFlushRecords.                                      *)

\* Mutant: the lock is not waited for.
LockBusy(w) ==
  /\ Up /\ pc[w] = "start"
  /\ sqlLock' = sqlLock \cup {w}
  /\ pc' = [pc EXCEPT ![w] = "walk"]
  /\ it' = [it EXCEPT ![w] = 1]
  /\ UNCHANGED <<table, handler, lists, main, server>>

\* lock_guard, then it = records.begin().
Lock(w) ==
  /\ Up /\ pc[w] = "start"
  /\ sqlLock = {}
  /\ sqlLock' = {w}
  /\ pc' = [pc EXCEPT ![w] = "walk"]
  /\ it' = [it EXCEPT ![w] = 1]
  /\ UNCHANGED <<table, handler, lists, main, server>>

\* Mutant: the end of the list is tested one node late.
IssuePastEnd(w) ==
  /\ Up /\ pc[w] = "walk"
  /\ it[w] <= Len(records[table[w]]) + 1
  /\ pc' = [pc EXCEPT ![w] = "query"]
  /\ UNCHANGED <<table, it, sqlLock, handler, lists, main, server>>

\* it != records.end(): hand *it to the server.
Issue(w) ==
  /\ Up /\ pc[w] = "walk"
  /\ it[w] <= Len(records[table[w]])
  /\ pc' = [pc EXCEPT ![w] = "query"]
  /\ UNCHANGED <<table, it, sqlLock, handler, lists, main, server>>

\* Mutant: the thread ends without giving the lock back.
FinishLocked(w) ==
  /\ Up /\ pc[w] = "walk"
  /\ it[w] > Len(records[table[w]])
  /\ pc' = [pc EXCEPT ![w] = "idle"]
  /\ UNCHANGED <<table, it, sqlLock, handler, lists, main, server>>

\* it == records.end(): the lock_guard goes out of scope, the thread ends.
Finish(w) ==
  /\ Up /\ pc[w] = "walk"
  /\ it[w] > Len(records[table[w]])
  /\ pc' = [pc EXCEPT ![w] = "idle"]
  /\ sqlLock' = sqlLock \ {w}
  /\ UNCHANGED <<table, it, handler, lists, main, server>>

\* The batch a thread's iterator stands on.
Current(w) == records[table[w]][it[w]]

\* mysql_real_query returns 0: the server executed the statement.
QueryOk(w) ==
  /\ Up /\ pc[w] = "query"
  /\ connected
  /\ executed' = Append(executed, Statement(table[w], Current(w)))
  /\ pc' = [pc EXCEPT ![w] = "erase"]
  /\ UNCHANGED <<table, it, sqlLock, handler, lists, main, connected, retried,
                 failures>>

\* An error: the record stays in the list and the iterator moves on.
StepOver(w) ==
  /\ retried' = [retried EXCEPT ![table[w]] = @ \cup {Current(w)}]
  /\ it' = [it EXCEPT ![w] = @ + 1]
  /\ pc' = [pc EXCEPT ![w] = "walk"]
  /\ UNCHANGED <<table, sqlLock, handler, lists, main>>

\* The server refuses the statement.
QueryRefused(w) ==
  /\ Up /\ pc[w] = "query"
  /\ connected /\ failures < MaxFailures
  /\ failures' = failures + 1
  /\ StepOver(w)
  /\ UNCHANGED <<connected, executed>>

\* The connection breaks before or after the server executed the statement;
\* nothing in the code opens it again.
LinkBreaks(w) ==
  /\ Up /\ pc[w] = "query"
  /\ LinkMayBreak /\ connected
  /\ connected' = FALSE
  /\ \/ UNCHANGED executed
     \/ executed' = Append(executed, Statement(table[w], Current(w)))
  /\ StepOver(w)
  /\ UNCHANGED failures

\* Without a connection every statement fails.
QueryUnsent(w) ==
  /\ Up /\ pc[w] = "query"
  /\ ~connected
  /\ StepOver(w)
  /\ UNCHANGED <<connected, executed, failures>>

\* Mutants: the node after the executed one is erased; none is.
WithoutNext(s, i) == [j \in 1 .. Len(s) - 1 |-> IF j <= i THEN s[j] ELSE s[j + 1]]
WithoutNone(s, i) == s

Without(s, i) == [j \in 1 .. Len(s) - 1 |-> IF j < i THEN s[j] ELSE s[j + 1]]

\* records.erase(it++): the iterator now stands on the next node, whose
\* position is the erased one's.
Erase(w) ==
  /\ Up /\ pc[w] = "erase"
  /\ records' = [records EXCEPT ![table[w]] = Without(@, it[w])]
  /\ size' = [size EXCEPT ![table[w]] = @ - 1]
  /\ pc' = [pc EXCEPT ![w] = "walk"]
  /\ UNCHANGED <<severed, dropped, table, it, sqlLock, handler, main, server>>

-----------------------------------------------------------------------------

MainStep ==
  \/ \E t \in Tables : Record(t)
  \/ FlushTimer \/ FlushPush \/ FlushClear \/ FlushSpawn
  \/ Signal \/ Disconnect \/ ExitStopped \/ ExitOnException

ThreadStep(w) ==
  \/ Lock(w) \/ Issue(w) \/ Finish(w) \/ Erase(w)
  \/ QueryOk(w) \/ QueryRefused(w) \/ LinkBreaks(w) \/ QueryUnsent(w)

Next == MainStep \/ \E w \in Threads : ThreadStep(w)

Spec == Init /\ [][Next]_vars

\* The flush timer repeats, the main thread and every started thread are
\* scheduled, and mysql_real_query returns.  Nothing is assumed of Record,
\* Signal or ExitOnException; MaxFailures bounds how often the server refuses.
Fairness ==
  /\ WF_vars(FlushTimer) /\ WF_vars(FlushPush) /\ WF_vars(FlushClear)
  /\ WF_vars(FlushSpawn)
  /\ WF_vars(Disconnect) /\ WF_vars(ExitStopped)
  /\ \A w \in Threads : WF_vars(ThreadStep(w))

FairSpec == Spec /\ Fairness

-----------------------------------------------------------------------------
(* Properties.                                                             *)

Rows == 1 .. MaxRows
Statements == [table : Tables \cup {"reset"}, rows : SUBSET Rows]

RowsOf(log, t) == UNION {log[i].rows : i \in {j \in DOMAIN log : log[j].table = t}}
RowsIn(list) == UNION {list[i] : i \in DOMAIN list}

\* The rows of t in statements the server executed, and in waiting statements.
Written(t) == RowsOf(executed, t)
Waiting(t) == RowsIn(records[t])

\* Every variable keeps its type; in particular flush() never looks past its
\* last table (mysql.cpp:196-202) and no iterator falls before begin() (395).
TypeOK ==
  /\ recorded \in [Tables -> 0 .. MaxRows]
  /\ requests \in [Tables -> SUBSET Rows]
  /\ records \in [Tables -> Seq(SUBSET Rows)]
  /\ size \in [Tables -> Int]
  /\ severed \subseteq Tables
  /\ dropped \in [Tables -> SUBSET Rows]
  /\ step \in {"loop", "push", "clear", "spawn", "reset", "closed", "exited"}
  /\ at \in 1 .. Len(FlushOrder)
  /\ stopping \in BOOLEAN
  /\ pc \in [Threads -> {"idle", "start", "walk", "query", "erase"}]
  /\ table \in [Threads -> Tables]
  /\ it \in [Threads -> Nat \ {0}]
  /\ sqlLock \subseteq Threads
  /\ connected \in BOOLEAN
  /\ executed \in Seq(Statements)
  /\ retried \in [Tables -> SUBSET SUBSET Rows]
  /\ failures \in 0 .. MaxFailures

InList(w) == pc[w] \in {"walk", "query", "erase"}

\* Of all the threads flush() has started, at most one is inside a records
\* list or talking to the server over the one connection they share.
SqlExclusive ==
  \A v, w \in Threads : InList(v) /\ InList(w) => v = w

\* doFlushRecords never dereferences end(), although flush() appends to the
\* list it walks and other threads, before and after it, erase from it.
IteratorValid ==
  \A w \in Threads : pc[w] \in {"query", "erase"} => it[w] \in DOMAIN records[table[w]]

\* While the process is up every recorded row is still buffered, in a waiting
\* statement, in a statement the server executed, or on a node the race of
\* push_back with erase has cut off.
NothingLost ==
  Up => \A t \in Tables :
          1 .. recorded[t] = requests[t] \cup Waiting(t) \cup Written(t) \cup dropped[t]

\* No row is in two executed statements: the additive columns (downloaded,
\* uploaded, timespent) count each announce once.  A statement whose answer
\* was lost stays in the list and is tried again, but over a dead connection.
\* Not so if the signal that stops the process comes between a push_back and
\* the clear() after it (SignalSplits): stop() then flushes the rows again.
AtMostOnce ==
  \A i, j \in DOMAIN executed :
    i # j /\ executed[i].table = executed[j].table
      => executed[i].rows \cap executed[j].rows = {}

\* Statements of one table reach the server in the order the rows were
\* recorded, except those that have met an error and were kept for later:
\* only a retry can overwrite a torrent's newer counters with older ones.
OrderUnlessRetried ==
  \A i, j \in DOMAIN executed :
    LET t == executed[i].table IN
    i < j /\ t \in Tables /\ executed[j].table = t /\ executed[j].rows \notin retried[t]
      => \A a \in executed[i].rows, b \in executed[j].rows : a < b

\* Thread w has the i-th statement of t before it.
Reaching(w, t, i) ==
  /\ table[w] = t
  /\ \/ pc[w] = "start"
     \/ InList(w) /\ it[w] <= i

\* What stop() does before it disconnects and exits (mysql.cpp:38-41, 196-202):
\* no row is left in a buffer, and a statement that waits has met an error or
\* is still before a thread flush() started.  The race of push_back with erase
\* costs both ways: a row may be on a node that was cut off, and a list whose
\* size says less than it holds may have got no thread.
StopHandsOver ==
  step \in {"reset", "closed"} =>
    \A t \in Tables :
      /\ 1 .. recorded[t] = Waiting(t) \cup Written(t) \cup dropped[t]
      /\ \A i \in DOMAIN records[t] :
           \/ records[t][i] \in retried[t]
           \/ \E w \in Threads : Reaching(w, t, i)
           \/ RacyLists /\ size[t] < Len(records[t])

\* No statement is ever cut off from its list.
NoRowDropped == \A t \in Tables : dropped[t] = {}

\* Every recorded row reaches the database unless the process ends or the
\* connection is lost first: a statement that was refused is tried again by a
\* later flush, even when nothing new has been recorded since.
Delivered ==
  \A t \in Tables, r \in Rows :
    r <= recorded[t] ~> (r \in Written(t) \/ ~Up \/ ~connected)

\* The promise this layer keeps: the buffers, lists, threads and retries
\* implement Ledger.
L == INSTANCE Ledger WITH log <- executed, up <- Up

\* Every step of the buffers, the lists and the threads is a step of Ledger, a
\* statement of rows that are recorded and in no earlier statement, or
\* changes nothing Ledger sees (mysql.cpp:196-488).
LedgerImplemented == L!Spec
=============================================================================
