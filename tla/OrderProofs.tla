---------------------------- MODULE OrderProofs ----------------------------
(***************************************************************************)
(* The order in which the rows of a table reach the server (MySQL.tla),    *)
(* for any tables, threads and bounds, whether or not push_back may meet   *)
(* an erase half way.                                                      *)
(***************************************************************************)
EXTENDS MySQLProofs

Precedes(A, B) == \A a \in A, b \in B : a < b

\* The rows still in a buffer are newer than those of any statement.
BuffersLast ==
  \A t \in Tables : Clearing(t) \/ Precedes(Waiting(t) \cup Written(t), requests[t])

\* The statements of a list stand in the order their rows were recorded.
ListsSorted ==
  \A t \in Tables : \A i, j \in DOMAIN records[t] :
    i < j => Precedes(records[t][i], records[t][j])

\* A statement that waits and has met no error is newer than all the server has
\* executed, but for the one a thread is about to erase.
NewAfterWritten ==
  \A t \in Tables : \A i \in DOMAIN records[t] :
    \/ Precedes(Written(t), records[t][i])
    \/ records[t][i] \in retried[t]
    \/ \E w \in Threads : Erasing(w, t) /\ it[w] = i

\* A walk leaves behind it only statements that have met an error.
Passed(w) ==
  /\ it[w] <= Len(records[table[w]]) + 1
  /\ \A k \in 1 .. it[w] - 1 : records[table[w]][k] \in retried[table[w]]
PassedRetried == \A w \in Threads : InList(w) => Passed(w)

OrderInv ==
  BuffersLast /\ ListsSorted /\ NewAfterWritten /\ PassedRetried /\ OrderUnlessRetried

\* What the server has of two sets of rows: executing adds to the left side.
LEMMA PrecedesUnion ==
  ASSUME NEW A, NEW B, NEW C
  PROVE  Precedes(A \cup B, C) <=> Precedes(A, C) /\ Precedes(B, C)
BY DEF Precedes

\* At the start no statement holds a row.
LEMMA InitOrderInv == Init => OrderInv
<1> SUFFICES ASSUME Init PROVE OrderInv
  OBVIOUS
<1>1. BuffersLast /\ ListsSorted /\ NewAfterWritten
  <2>1. \A t \in Tables : requests[t] = {} /\ DOMAIN records[t] = {}
    BY DEF Init
  <2> QED
    BY <2>1 DEF BuffersLast, Precedes, ListsSorted, NewAfterWritten
<1>2. PassedRetried
  BY DEF Init, PassedRetried, InList
<1>3. \A i \in DOMAIN executed : executed[i].rows = {}
  BY DEF Init, ResetStatement, Statement
<1>4. OrderUnlessRetried
  BY <1>3 DEF OrderUnlessRetried
<1> QED
  BY <1>1, <1>2, <1>4 DEF OrderInv

\* A statement may join the log if it has met an error, or if its rows are newer
\* than all its table has there.
LEMMA ExecuteKeepsOrder ==
  ASSUME TypeOK, OrderUnlessRetried, NEW u \in Tables \cup {"reset"}, NEW rows \in SUBSET Rows,
         executed' = Append(executed, Statement(u, rows)),
         \A t \in Tables : retried[t] \subseteq retried'[t],
         u \in Tables => rows \in retried'[u] \/ Precedes(RowsOf(executed, u), rows)
  PROVE  OrderUnlessRetried'
<1> DEFINE e == Statement(u, rows)
<1>1. /\ Len(executed) \in Nat
      /\ DOMAIN executed = 1 .. Len(executed)
      /\ DOMAIN executed' = 1 .. Len(executed) + 1
      /\ \A i \in 1 .. Len(executed) : executed'[i] = executed[i]
      /\ executed'[Len(executed) + 1] = e
  BY LenProperties DEF TypeOK
<1>2. e.table = u /\ e.rows = rows
  BY DEF Statement
<1>3. \A i \in DOMAIN executed :
        executed[i].table = u => executed[i].rows \subseteq RowsOf(executed, u)
  BY DEF RowsOf
<1> HIDE DEF e
<1> SUFFICES ASSUME NEW i \in DOMAIN executed', NEW j \in DOMAIN executed', i < j,
                    executed'[i].table \in Tables, executed'[j].table = executed'[i].table,
                    executed'[j].rows \notin retried'[executed'[i].table],
                    NEW a \in executed'[i].rows, NEW b \in executed'[j].rows
             PROVE  a < b
  BY DEF OrderUnlessRetried
<1>4. i \in DOMAIN executed /\ executed'[i] = executed[i]
  BY <1>1
<1>5. CASE j \in DOMAIN executed
  BY <1>1, <1>4, <1>5 DEF OrderUnlessRetried
<1>6. CASE j = Len(executed) + 1
  <2>1. executed[i].table = u /\ u \in Tables /\ b \in rows /\ rows \notin retried'[u]
    BY <1>1, <1>2, <1>4, <1>6
  <2>2. a \in RowsOf(executed, u)
    BY <1>3, <1>4, <2>1
  <2> QED
    BY <2>1, <2>2 DEF Precedes
<1> QED
  BY <1>1, <1>5, <1>6

\* A push_back keeps every position a walk has passed.
LEMMA PushKeepsPassed ==
  ASSUME IInv, PassedRetried, NEW u \in Tables, NEW batch \in SUBSET Rows,
         \/ records' = records
         \/ records' = [records EXCEPT ![u] = Append(@, batch)],
         UNCHANGED <<pc, table, it, retried>>
  PROVE  PassedRetried'
<1> SUFFICES ASSUME NEW w \in Threads, InList(w) PROVE Passed(w)'
  BY DEF PassedRetried, InList
<1> DEFINE t == table[w]
<1>1. /\ t \in Tables /\ records[t] \in Seq(SUBSET Rows) /\ it[w] \in Nat \ {0}
      /\ it[w] <= Len(records[t]) + 1
      /\ \A k \in 1 .. it[w] - 1 : records[t][k] \in retried[t]
  BY DEF IInv, TypeOK, PassedRetried, Passed
<1>2. CASE records'[t] = records[t]
  BY <1>1, <1>2 DEF Passed
<1>3. CASE records'[t] = Append(records[t], batch)
  <2>1. /\ Len(records'[t]) = Len(records[t]) + 1 /\ Len(records[t]) \in Nat
        /\ \A k \in 1 .. Len(records[t]) : records'[t][k] = records[t][k]
    BY <1>1, <1>3, LenProperties
  <2>2. it[w] <= Len(records'[t]) + 1
    BY <1>1, <2>1
  <2>3. \A k \in 1 .. it[w] - 1 : records'[t][k] \in retried[t]
    BY <1>1, <2>1
  <2> QED
    BY <2>2, <2>3 DEF Passed
<1> QED
  BY <1>1, <1>2, <1>3 DEF IInv, TypeOK

\* The buffers are turned into statements at the end of the lists, and what is
\* recorded afterwards is newer.
LEMMA MainKeepsOrderInv ==
  ASSUME ~SignalSplits, IInv, AccountInv, OrderInv, MainStep PROVE OrderInv'
<1> USE DEF OrderInv
<1>1. ASSUME NEW u \in Tables, Record(u) PROVE OrderInv'
  <2>1. /\ recorded[u] \in Nat /\ requests'[u] = requests[u] \cup {recorded[u] + 1}
        /\ Waiting(u) \cup Written(u) \subseteq 1 .. recorded[u]
    BY <1>1, ConstantsAssumption DEF Record, IInv, TypeOK, AccountInv, Accounted
  <2>2. \A t \in Tables \ {u} : requests'[t] = requests[t]
    BY <1>1 DEF Record, IInv, TypeOK
  <2>3. UNCHANGED <<records, executed, retried, pc, table, it>>
    BY <1>1 DEF Record, lists, workers, server
  <2>4. \A t \in Tables : Precedes(Waiting(t) \cup Written(t), requests[t])
    BY <1>1 DEF Record, BuffersLast, Clearing
  <2>5. \A a \in Waiting(u) \cup Written(u) : a < recorded[u] + 1
    BY <2>1
  <2>6. Precedes(Waiting(u) \cup Written(u), requests'[u])
    BY <2>1, <2>4, <2>5 DEF Precedes
  <2>7. \A t \in Tables : Precedes(Waiting(t) \cup Written(t), requests'[t])
    BY <2>2, <2>4, <2>6
  <2>8. BuffersLast'
    BY <2>3, <2>7 DEF BuffersLast, Waiting, Written
  <2> QED
    BY <2>3, <2>8
       DEF ListsSorted, NewAfterWritten, PassedRetried, Passed, InList, OrderUnlessRetried,
           Erasing, Written
<1>2. ASSUME FlushPush PROVE OrderInv'
  <2> DEFINE u == FlushOrder[at]
             batch == requests[u]
  <2>1. /\ u \in Tables /\ batch \in SUBSET Rows
        /\ \A t \in Tables : records[t] \in Seq(SUBSET Rows)
    BY AtTable DEF IInv, TypeOK
  <2>2. UNCHANGED <<requests, at, executed, retried, pc, table, it>> /\ step = "push"
    BY <1>2 DEF FlushPush, handler, workers, server
  <2>3. \A t \in Tables : Precedes(Waiting(t) \cup Written(t), requests[t])
    BY <2>2 DEF BuffersLast, Clearing
  <2>4. OrderUnlessRetried'
    BY <2>2 DEF OrderUnlessRetried
  <2>5. \/ records' = records
        \/ step' = "clear" /\ records' = [records EXCEPT ![u] = Append(@, batch)]
    BY <1>2 DEF FlushPush, lists, Append1, AppendDuringErase
  <2>6. PassedRetried'
    BY <2>1, <2>2, <2>5, PushKeepsPassed
  <2>7. CASE records' = records
    BY <2>2, <2>3, <2>4, <2>6, <2>7
       DEF BuffersLast, ListsSorted, NewAfterWritten, Erasing, Waiting, Written
  <2>8. CASE step' = "clear" /\ records' = [records EXCEPT ![u] = Append(@, batch)]
    <3>1. /\ records'[u] = Append(records[u], batch)
          /\ \A t \in Tables \ {u} : records'[t] = records[t]
      BY <2>1, <2>8 DEF IInv, TypeOK
    <3>2. /\ DOMAIN records'[u] = 1 .. Len(records[u]) + 1
          /\ DOMAIN records[u] = 1 .. Len(records[u]) /\ Len(records[u]) \in Nat
          /\ \A i \in DOMAIN records[u] : records'[u][i] = records[u][i]
          /\ records'[u][Len(records[u]) + 1] = batch
      BY <2>1, <3>1, RowsInAppend
    <3>3. \A i \in DOMAIN records[u] : Precedes(records[u][i], batch)
      BY <2>1, <2>3 DEF Precedes, Waiting, RowsIn
    <3>4. Precedes(Written(u), batch)
      BY <2>1, <2>3 DEF Precedes
    <3>5. BuffersLast'
      <4> SUFFICES ASSUME NEW t \in Tables, ~Clearing(t)'
                   PROVE  Precedes(RowsIn(records'[t]) \cup Written(t), requests[t])
        BY <2>2 DEF BuffersLast, Waiting, Written
      <4>1. t # u
        BY <2>2, <2>8 DEF Clearing
      <4> QED
        BY <2>3, <3>1, <4>1 DEF Waiting
    <3>6. ListsSorted'
      <4>1. ASSUME NEW i \in DOMAIN records'[u], NEW j \in DOMAIN records'[u], i < j
            PROVE  Precedes(records'[u][i], records'[u][j])
        <5>1. i \in DOMAIN records[u] /\ (j \in DOMAIN records[u] \/ j = Len(records[u]) + 1)
          BY <3>2, <4>1
        <5>2. CASE j \in DOMAIN records[u]
          BY <2>1, <3>2, <4>1, <5>1, <5>2 DEF ListsSorted
        <5>3. CASE j = Len(records[u]) + 1
          BY <3>2, <3>3, <5>1, <5>3
        <5> QED
          BY <5>1, <5>2, <5>3
      <4> QED
        BY <3>1, <4>1 DEF ListsSorted
    <3>7. NewAfterWritten'
      <4> SUFFICES ASSUME NEW t \in Tables, NEW i \in DOMAIN records'[t]
                   PROVE  \/ Precedes(Written(t), records'[t][i])
                          \/ records'[t][i] \in retried[t]
                          \/ \E w \in Threads : Erasing(w, t) /\ it[w] = i
        BY <2>2 DEF NewAfterWritten, Written, Erasing
      <4>1. CASE t # u
        BY <3>1, <4>1 DEF NewAfterWritten
      <4>2. CASE t = u /\ i \in DOMAIN records[u]
        BY <2>1, <3>2, <4>2 DEF NewAfterWritten
      <4>3. CASE t = u /\ i = Len(records[u]) + 1
        BY <3>2, <3>4, <4>3
      <4> QED
        BY <3>2, <4>1, <4>2, <4>3
    <3> QED
      BY <2>4, <2>6, <3>5, <3>6, <3>7
  <2> QED
    BY <2>5, <2>7, <2>8
<1>3. ASSUME FlushClear PROVE OrderInv'
  <2> DEFINE u == FlushOrder[at]
  <2>1. UNCHANGED <<records, executed, retried, pc, table, it>> /\ u \in Tables
    BY <1>3, AtTable DEF FlushClear, lists, workers, server, IInv
  <2>2. requests'[u] = {} /\ \A t \in Tables \ {u} : requests'[t] = requests[t]
    BY <1>3, <2>1 DEF FlushClear, IInv, TypeOK
  <2>3. \A t \in Tables : Precedes(Waiting(t) \cup Written(t), requests'[t])
    BY <2>2 DEF BuffersLast, Clearing, Precedes
  <2>4. BuffersLast'
    BY <2>1, <2>3 DEF BuffersLast, Waiting, Written
  <2> QED
    BY <2>1, <2>4
       DEF ListsSorted, NewAfterWritten, PassedRetried, Passed, InList, OrderUnlessRetried,
           Erasing, Written
<1>4. ASSUME FlushSpawn PROVE OrderInv'
  <2>1. UNCHANGED <<requests, records, executed, retried, it>> /\ step = "spawn"
    BY <1>4 DEF FlushSpawn, handler, lists, server
  <2>2. \A w \in Threads : InList(w) \/ InList(w)' => pc'[w] = pc[w] /\ table'[w] = table[w]
    BY <1>4 DEF FlushSpawn, InList, IInv, TypeOK
  <2>3. \A w \in Threads, t \in Tables : Erasing(w, t) => Erasing(w, t)'
    BY <2>2 DEF Erasing, InList
  <2>4. NewAfterWritten'
    BY <2>1, <2>3 DEF NewAfterWritten, Written
  <2>5. PassedRetried'
    BY <2>1, <2>2 DEF PassedRetried, Passed, InList
  <2>6. BuffersLast'
    BY <2>1 DEF BuffersLast, Clearing, Waiting, Written
  <2> QED
    BY <2>1, <2>4, <2>5, <2>6 DEF ListsSorted, OrderUnlessRetried
<1>5. ASSUME Disconnect PROVE OrderInv'
  <2>1. UNCHANGED <<requests, records, retried, pc, table, it>> /\ step = "reset"
    BY <1>5 DEF Disconnect, handler, lists, workers
  <2>2. \A t \in Tables : Written(t)' = Written(t)
    BY <1>5, DisconnectWritesNothing DEF IInv
  <2>3. OrderUnlessRetried'
    <3>1. CASE executed' = executed
      BY <2>1, <3>1 DEF OrderUnlessRetried
    <3>2. CASE executed' = Append(executed, Statement("reset", {}))
      <4>1. "reset" \notin Tables
        BY ConstantsAssumption
      <4> QED
        BY <2>1, <3>2, <4>1, ExecuteKeepsOrder DEF IInv
    <3>3. executed' = executed \/ executed' = Append(executed, Statement("reset", {}))
      BY <1>5 DEF Disconnect, ResetStatement
    <3> QED
      BY <3>1, <3>2, <3>3
  <2>4. BuffersLast'
    BY <2>1, <2>2 DEF BuffersLast, Clearing, Waiting
  <2>5. NewAfterWritten'
    BY <2>1, <2>2 DEF NewAfterWritten, Erasing
  <2> QED
    BY <2>1, <2>3, <2>4, <2>5 DEF ListsSorted, PassedRetried, Passed, InList
<1>6. ASSUME FlushTimer \/ Signal \/ ExitStopped \/ ExitOnException PROVE OrderInv'
  <2>1. UNCHANGED <<requests, records, executed, retried, pc, table, it>>
    BY <1>6 DEF FlushTimer, Signal, ExitStopped, ExitOnException,
                handler, lists, workers, server
  <2>2. \A t \in Tables : ~Clearing(t)
    BY <1>6 DEF FlushTimer, Signal, ExitStopped, ExitOnException, Clearing
  <2>3. \A t \in Tables : Precedes(Waiting(t) \cup Written(t), requests[t])
    BY <2>2 DEF BuffersLast
  <2>4. BuffersLast'
    BY <2>1, <2>3 DEF BuffersLast, Waiting, Written
  <2> QED
    BY <2>1, <2>4
       DEF ListsSorted, NewAfterWritten, PassedRetried, Passed, InList, OrderUnlessRetried,
           Written, Erasing
<1> QED
  BY <1>1, <1>2, <1>3, <1>4, <1>5, <1>6 DEF MainStep

\* An error moves the thread past a statement, and marks the statement.
LEMMA StepOverMarks ==
  ASSUME IInv, PassedRetried, NEW w \in Threads, pc[w] = "query", StepOver(w)
  PROVE  /\ PassedRetried'
         /\ Current(w) \in retried'[table[w]]
         /\ \A t \in Tables : retried[t] \subseteq retried'[t]
<1> DEFINE u == table[w]
<1>1. /\ u \in Tables /\ it[w] \in 1 .. Len(records[u])
      /\ records[u] \in Seq(SUBSET Rows) /\ Len(records[u]) \in Nat
  BY CurrentType, LenProperties
<1>2. UNCHANGED <<records, table>>
  BY DEF StepOver, lists
<1>3. Current(w) \in retried'[u] /\ \A t \in Tables : retried[t] \subseteq retried'[t]
  BY <1>1 DEF StepOver, IInv, TypeOK
<1>4. \A v \in Threads : InList(v)' => v = w
  BY DEF StepOver, IInv, TypeOK, LockInv, InList
<1>5. it'[w] = it[w] + 1
  BY DEF StepOver, IInv, TypeOK
<1>6. \A k \in 1 .. it[w] - 1 : records[u][k] \in retried'[u]
  BY <1>1, <1>3 DEF PassedRetried, Passed, InList
<1>7. \A k \in 1 .. it'[w] - 1 : records[u][k] \in retried'[u]
  <2> SUFFICES ASSUME NEW k \in 1 .. it'[w] - 1 PROVE records[u][k] \in retried'[u]
    OBVIOUS
  <2>1. k = it[w] \/ k \in 1 .. it[w] - 1
    BY <1>1, <1>5
  <2> QED
    BY <1>3, <1>6, <2>1 DEF Current
<1>8. it'[w] <= Len(records[u]) + 1
  BY <1>1, <1>5
<1>9. Passed(w)'
  BY <1>2, <1>7, <1>8 DEF Passed
<1> QED
  BY <1>3, <1>4, <1>9 DEF PassedRetried

\* Executing the statement a thread stands at, which it then erases or, if the
\* answer is lost, leaves behind as one that has met an error.
LEMMA ExecuteKeepsOrderInv ==
  ASSUME IInv, OrderInv, NEW w \in Threads, pc[w] = "query",
         executed' = Append(executed, Statement(table[w], Current(w))),
         \A t \in Tables : retried[t] \subseteq retried'[t],
         \/ Current(w) \in retried'[table[w]]
         \/ Erasing(w, table[w])' /\ it'[w] = it[w],
         UNCHANGED <<requests, records, table, step, at>>
  PROVE  BuffersLast' /\ NewAfterWritten' /\ OrderUnlessRetried'
<1> USE DEF OrderInv
<1> DEFINE u == table[w]
<1>1. /\ u \in Tables /\ it[w] \in DOMAIN records[u] /\ it[w] \in Nat \ {0}
      /\ DOMAIN records[u] = 1 .. Len(records[u]) /\ Current(w) \in SUBSET Rows
  BY CurrentType, LenProperties
<1>2. Current(w) \subseteq Waiting(u)
  BY <1>1 DEF Current, Waiting, RowsIn
<1>3. \A v \in Threads : pc[v] # "erase"
  BY DEF IInv, LockInv, InList
<1>4. \A t \in Tables : \A i \in DOMAIN records[t] :
        Precedes(Written(t), records[t][i]) \/ records[t][i] \in retried[t]
  BY <1>3 DEF NewAfterWritten, Erasing
<1>5. ASSUME NEW t \in Tables
      PROVE  RowsOf(executed', t) = Written(t) \cup (IF u = t THEN Current(w) ELSE {})
  BY <1>1, ExecuteWrites DEF IInv, Written
<1>6. OrderUnlessRetried'
  <2>1. Precedes(RowsOf(executed, u), Current(w)) \/ Current(w) \in retried'[u]
    BY <1>1, <1>4 DEF Current, Written
  <2> QED
    BY <1>1, <2>1, ExecuteKeepsOrder DEF IInv
<1>7. BuffersLast'
  <2> SUFFICES ASSUME NEW t \in Tables, ~Clearing(t)
               PROVE  Precedes(Waiting(t) \cup RowsOf(executed', t), requests[t])
    BY DEF BuffersLast, Clearing, Waiting, Written
  <2>1. Waiting(t) \cup RowsOf(executed', t) = Waiting(t) \cup Written(t)
    BY <1>2, <1>5
  <2> QED
    BY <2>1 DEF BuffersLast
<1>8. NewAfterWritten'
  <2> SUFFICES ASSUME NEW t \in Tables, NEW i \in DOMAIN records[t]
               PROVE  \/ Precedes(RowsOf(executed', t), records[t][i])
                      \/ records[t][i] \in retried'[t]
                      \/ \E v \in Threads : Erasing(v, t)' /\ it'[v] = i
    BY DEF NewAfterWritten, Written
  <2>1. CASE t # u
    BY <1>4, <1>5, <2>1
  <2>2. CASE t = u /\ i < it[w]
    <3>1. i \in 1 .. it[w] - 1
      BY <1>1, <2>2
    <3>2. records[u][i] \in retried[u]
      BY <3>1 DEF PassedRetried, Passed, InList
    <3> QED
      BY <1>1, <2>2, <3>2
  <2>3. CASE t = u /\ i = it[w]
    <3>1. records[t][i] = Current(w)
      BY <2>3 DEF Current
    <3>2. CASE Current(w) \in retried'[u]
      BY <2>3, <3>1, <3>2
    <3>3. CASE Erasing(w, u)' /\ it'[w] = it[w]
      BY <2>3, <3>3 DEF Erasing
    <3> QED
      BY <3>2, <3>3
  <2>4. CASE t = u /\ i > it[w]
    <3>1. Precedes(Current(w), records[u][i])
      BY <1>1, <2>4 DEF ListsSorted, Current
    <3>2. RowsOf(executed', u) = Written(u) \cup Current(w)
      BY <1>1, <1>5
    <3> QED
      BY <1>1, <1>4, <2>4, <3>1, <3>2, PrecedesUnion
  <2> QED
    BY <1>1, <2>1, <2>2, <2>3, <2>4
<1> QED
  BY <1>6, <1>7, <1>8

\* A thread executes the statements of a list from its front on.
LEMMA ThreadKeepsOrderInv ==
  ASSUME IInv, OrderInv, NEW w \in Threads, ThreadStep(w) PROVE OrderInv'
<1> USE DEF OrderInv
<1>1. CASE Lock(w) \/ Issue(w) \/ Finish(w)
  <2>1. UNCHANGED <<requests, records, executed, retried, table, step, at>>
    BY <1>1 DEF Lock, Issue, Finish, handler, lists, main, server
  <2>2. \A v \in Threads, t \in Tables : Erasing(v, t) => Erasing(v, t)' /\ it'[v] = it[v]
    BY <1>1 DEF Lock, Issue, Finish, Erasing, IInv, TypeOK
  <2>3. NewAfterWritten'
    BY <2>1, <2>2 DEF NewAfterWritten, Written
  <2>4. PassedRetried'
    <3> SUFFICES ASSUME NEW v \in Threads, InList(v)' PROVE Passed(v)'
      BY DEF PassedRetried
    <3>1. CASE InList(v) /\ it'[v] = it[v]
      BY <2>1, <3>1 DEF PassedRetried, Passed
    <3>2. CASE it'[v] = 1
      <4>1. Len(records[table[v]]) \in Nat
        BY LenProperties DEF IInv, TypeOK
      <4> QED
        BY <2>1, <3>2, <4>1 DEF Passed
    <3>3. (InList(v) /\ it'[v] = it[v]) \/ it'[v] = 1
      BY <1>1 DEF Lock, Issue, Finish, InList, IInv, TypeOK
    <3> QED
      BY <3>1, <3>2, <3>3
  <2> QED
    BY <2>1, <2>3, <2>4
       DEF BuffersLast, Clearing, ListsSorted, OrderUnlessRetried, Waiting, Written
<1>2. CASE QueryRefused(w) \/ QueryUnsent(w) \/ (LinkBreaks(w) /\ executed' = executed)
  <2>1. StepOver(w) /\ pc[w] = "query" /\ executed' = executed
    BY <1>2 DEF QueryRefused, QueryUnsent, LinkBreaks
  <2>2. UNCHANGED <<requests, records, step, at>>
    BY <2>1 DEF StepOver, handler, lists, main
  <2>3. PassedRetried' /\ \A t \in Tables : retried[t] \subseteq retried'[t]
    BY <2>1, StepOverMarks
  <2>4. \A v \in Threads : pc[v] # "erase"
    BY <2>1 DEF IInv, LockInv, InList
  <2>5. NewAfterWritten'
    BY <2>1, <2>2, <2>3, <2>4 DEF NewAfterWritten, Erasing, Written
  <2>6. OrderUnlessRetried'
    BY <2>1, <2>3 DEF OrderUnlessRetried
  <2> QED
    BY <2>1, <2>2, <2>3, <2>5, <2>6 DEF BuffersLast, Clearing, ListsSorted, Waiting, Written
<1>3. CASE LinkBreaks(w) /\ executed' # executed
  <2>1. /\ StepOver(w) /\ pc[w] = "query"
        /\ executed' = Append(executed, Statement(table[w], Current(w)))
    BY <1>3 DEF LinkBreaks
  <2>2. UNCHANGED <<requests, records, table, step, at>>
    BY <2>1 DEF StepOver, handler, lists, main
  <2>3. /\ PassedRetried' /\ Current(w) \in retried'[table[w]]
        /\ \A t \in Tables : retried[t] \subseteq retried'[t]
    BY <2>1, StepOverMarks
  <2>4. BuffersLast' /\ NewAfterWritten' /\ OrderUnlessRetried'
    BY <2>1, <2>2, <2>3, ExecuteKeepsOrderInv
  <2> QED
    BY <2>2, <2>3, <2>4 DEF ListsSorted
<1>4. CASE QueryOk(w)
  <2>1. /\ pc[w] = "query" /\ executed' = Append(executed, Statement(table[w], Current(w)))
        /\ UNCHANGED <<requests, records, step, at, retried, table, it>>
    BY <1>4 DEF QueryOk, handler, lists, main
  <2>2. pc' = [pc EXCEPT ![w] = "erase"]
    BY <1>4 DEF QueryOk
  <2>3. Erasing(w, table[w])'
    BY <2>1, <2>2 DEF Erasing, IInv, TypeOK
  <2>4. BuffersLast' /\ NewAfterWritten' /\ OrderUnlessRetried'
    BY <2>1, <2>3, ExecuteKeepsOrderInv
  <2>5. \A v \in Threads : InList(v)' => InList(v)
    BY <2>1, <2>2 DEF InList, IInv, TypeOK
  <2>6. PassedRetried'
    BY <2>1, <2>5 DEF PassedRetried, Passed
  <2> QED
    BY <2>1, <2>4, <2>6 DEF ListsSorted
<1>5. CASE Erase(w)
  <2> DEFINE u == table[w]
             list == records[u]
  <2>1. /\ pc[w] = "erase" /\ u \in Tables
        /\ list \in Seq(SUBSET Rows) /\ it[w] \in 1 .. Len(list) /\ Len(list) \in Nat
        /\ DOMAIN list = 1 .. Len(list)
    BY <1>5, CurrentType, LenProperties DEF Erase
  <2>2. UNCHANGED <<requests, executed, retried, table, it, step, at>>
    BY <1>5 DEF Erase, handler, main, server
  <2>3. records'[u] = Without(list, it[w])
    BY <1>5, <2>1 DEF Erase, IInv, TypeOK
  <2>4. \A t \in Tables \ {u} : records'[t] = records[t]
    BY <1>5 DEF Erase, IInv, TypeOK
  <2>5. /\ RowsIn(records'[u]) \subseteq RowsIn(list)
        /\ \A j \in DOMAIN records'[u] :
             /\ Before(it[w], j) \in DOMAIN list
             /\ Before(it[w], j) # it[w]
             /\ records'[u][j] = list[Before(it[w], j)]
    BY <2>1, <2>3, RowsInWithout
  <2>6. DOMAIN records'[u] = 1 .. Len(list) - 1 /\ Len(records'[u]) = Len(list) - 1
    <3> HIDE DEF list
    <3> QED
      BY <2>1, <2>3, WithoutType
  <2>7. \A v \in Threads : pc[v] = "erase" => v = w
    BY <2>1 DEF IInv, LockInv, InList
  <2>8. BuffersLast'
    <3>1. \A t \in Tables : RowsIn(records'[t]) \subseteq RowsIn(records[t])
      BY <2>4, <2>5
    <3> QED
      BY <2>2, <3>1 DEF BuffersLast, Clearing, Precedes, Waiting, Written
  <2>9. ListsSorted'
    <3>1. ASSUME NEW i \in DOMAIN records'[u], NEW j \in DOMAIN records'[u], i < j
          PROVE  Precedes(records'[u][i], records'[u][j])
      <4>1. Before(it[w], i) < Before(it[w], j)
        BY <2>1, <2>6, <3>1 DEF Before
      <4> QED
        BY <2>1, <2>5, <4>1 DEF ListsSorted
    <3> QED
      BY <2>4, <3>1 DEF ListsSorted
  <2>10. NewAfterWritten'
    <3> SUFFICES ASSUME NEW t \in Tables, NEW i \in DOMAIN records'[t]
                 PROVE  Precedes(Written(t), records'[t][i]) \/ records'[t][i] \in retried[t]
      BY <2>2 DEF NewAfterWritten, Written
    <3>1. CASE t # u
      BY <2>4, <2>7, <3>1 DEF NewAfterWritten, Erasing
    <3>2. CASE t = u
      BY <2>1, <2>5, <2>7, <3>2 DEF NewAfterWritten, Erasing
    <3> QED
      BY <3>1, <3>2
  <2>11. PassedRetried'
    <3>1. \A v \in Threads : InList(v)' => v = w
      BY <1>5, <2>1 DEF Erase, IInv, TypeOK, LockInv, InList
    <3>2. \A k \in 1 .. it[w] - 1 : list[k] \in retried[u]
      BY <2>1 DEF PassedRetried, Passed, InList
    <3>3. ASSUME NEW k \in 1 .. it[w] - 1 PROVE records'[u][k] = list[k]
      <4>1. k \in DOMAIN records'[u] /\ Before(it[w], k) = k
        BY <2>1, <2>6 DEF Before
      <4> QED
        BY <2>5, <4>1
    <3>4. it[w] <= Len(records'[u]) + 1
      BY <2>1, <2>6
    <3>5. Passed(w)'
      BY <2>2, <3>2, <3>3, <3>4 DEF Passed
    <3> QED
      BY <3>1, <3>5 DEF PassedRetried
  <2>12. OrderUnlessRetried'
    BY <2>2 DEF OrderUnlessRetried
  <2> QED
    BY <2>8, <2>9, <2>10, <2>11, <2>12
<1> QED
  BY <1>1, <1>2, <1>3, <1>4, <1>5 DEF ThreadStep

\* The rows of a table reach the server in the order they were recorded, but for
\* the statements that had met an error, whatever the interleaving of timer,
\* threads and errors: only a retry can overwrite newer values with older ones.
\* (The signal that splits a push_back from its clear() is left out: the rows
\* are then executed twice.)
THEOREM OrderCorrect == ASSUME ~SignalSplits PROVE Spec => []OrderUnlessRetried
<1>1. ASSUME OrderInv, UNCHANGED vars PROVE OrderInv'
  <2> USE DEF OrderInv
  <2>1. UNCHANGED <<requests, records, step, at, pc, table, it, executed, retried>>
    BY <1>1 DEF vars
  <2>2. BuffersLast' /\ ListsSorted'
    BY <1>1, <2>1 DEF BuffersLast, Clearing, ListsSorted, Waiting, Written
  <2>3. NewAfterWritten'
    BY <1>1, <2>1 DEF NewAfterWritten, Written, Erasing
  <2>4. PassedRetried' /\ OrderUnlessRetried'
    BY <1>1, <2>1 DEF PassedRetried, Passed, InList, OrderUnlessRetried
  <2> QED
    BY <2>2, <2>3, <2>4
<1>2. OrderInv /\ IInv /\ AccountInv /\ [Next]_vars => OrderInv'
  BY <1>1, MainKeepsOrderInv, ThreadKeepsOrderInv DEF Next
<1>3. OrderInv => OrderUnlessRetried
  BY DEF OrderInv
<1> QED
  BY InitOrderInv, IInvHolds, AccountInvHolds, <1>2, <1>3, PTL DEF Spec
=============================================================================
