----------------------------- MODULE MySQLProofs -----------------------------
(***************************************************************************)
(* Proofs about MySQL.tla, for any set of tables, any number of threads    *)
(* and any bounds, with or without a race on the records lists.            *)
(***************************************************************************)
EXTENDS MySQL, TLAPS, SequenceTheorems

\* sqlLock is held by exactly the threads that are past it, and by one at most.
LockInv ==
  /\ \A w \in Threads : InList(w) <=> w \in sqlLock
  /\ \A v, w \in sqlLock : v = w

\* TypeOK alone is not inductive: erase() keeps a list a sequence only if the
\* iterator is valid, and the iterator stays valid only under the lock.
IInv == TypeOK /\ LockInv /\ IteratorValid

\* Erasing a position of a sequence leaves a sequence, shorter by one.
LEMMA WithoutType ==
  ASSUME NEW S, NEW s \in Seq(S), NEW i \in DOMAIN s
  PROVE  /\ Without(s, i) \in Seq(S)
         /\ Len(Without(s, i)) = Len(s) - 1
         /\ DOMAIN Without(s, i) = 1 .. Len(s) - 1
<1>1. /\ Len(s) \in Nat \ {0}
      /\ DOMAIN s = 1 .. Len(s)
      /\ \A j \in 1 .. Len(s) : s[j] \in S
  BY LenProperties, ElementOfSeq
<1>2. \A j \in 1 .. Len(s) - 1 : Without(s, i)[j] \in S
  BY <1>1 DEF Without
<1>3. Without(s, i) \in [1 .. Len(s) - 1 -> S]
  BY <1>1, <1>2 DEF Without
<1>4. Without(s, i) \in Seq(S)
  BY <1>1, <1>3, SeqDef
<1>5. DOMAIN Without(s, i) = 1 .. Len(s) - 1
  BY DEF Without
<1>6. DOMAIN Without(s, i) = 1 .. Len(Without(s, i)) /\ Len(Without(s, i)) \in Nat
  BY <1>4, LenProperties
<1>7. \A m, n \in Nat : 1 .. m = 1 .. n => m = n
  <2> SUFFICES ASSUME NEW m \in Nat, NEW n \in Nat, 1 .. m = 1 .. n
               PROVE  m = n
    OBVIOUS
  <2>1. m # 0 => m \in 1 .. n
    OBVIOUS
  <2>2. n # 0 => n \in 1 .. m
    OBVIOUS
  <2> QED
    BY <2>1, <2>2
<1>8. Len(Without(s, i)) = Len(s) - 1
  <2>1. Len(s) - 1 \in Nat
    BY <1>1
  <2>2. 1 .. Len(s) - 1 = 1 .. Len(Without(s, i))
    BY <1>5, <1>6
  <2> HIDE DEF Without
  <2> QED
    BY <2>1, <2>2, <1>6, <1>7
<1> QED
  BY <1>4, <1>5, <1>8

\* The table flush() stands at is one of the tables.
LEMMA AtTable == ASSUME TypeOK PROVE FlushOrder[at] \in Tables
BY ConstantsAssumption DEF TypeOK, Tables

\* The inductive invariant holds when connect() returns.
LEMMA InitIInv == Init => IInv
<1> SUFFICES ASSUME Init PROVE IInv
  OBVIOUS
<1>1. FlushOrder \in Seq(STRING) /\ Len(FlushOrder) \in Nat \ {0}
  BY ConstantsAssumption, EmptySeq
<1>2. FlushOrder[1] \in Tables
  BY <1>1 DEF Tables
<1>3. ResetStatement \in Statements
  BY DEF ResetStatement, Statement, Statements
<1>4. executed \in Seq(Statements)
  <2>1. CASE connected
    <3>1. executed = <<ResetStatement>>
      BY <2>1 DEF Init
    <3> QED
      BY <1>3, <3>1
  <2>2. CASE ~connected
    BY <2>2, EmptySeq DEF Init
  <2> QED
    BY <2>1, <2>2
<1>5. connected \in BOOLEAN
  BY Zenon, ConstantsAssumption DEF Init
<1>6. records \in [Tables -> Seq(SUBSET Rows)]
  BY EmptySeq DEF Init
<1>7. recorded \in [Tables -> 0 .. MaxRows] /\ failures \in 0 .. MaxFailures
  BY ConstantsAssumption DEF Init
<1>8. at \in 1 .. Len(FlushOrder) /\ it \in [Threads -> Nat \ {0}]
  BY <1>1 DEF Init
<1>9. /\ requests \in [Tables -> SUBSET Rows]
      /\ dropped \in [Tables -> SUBSET Rows]
      /\ retried \in [Tables -> SUBSET SUBSET Rows]
      /\ size \in [Tables -> Int]
  BY DEF Init
<1>10. /\ severed \subseteq Tables
       /\ step \in {"loop", "push", "clear", "spawn", "reset", "closed", "exited"}
       /\ stopping \in BOOLEAN
       /\ pc \in [Threads -> {"idle", "start", "walk", "query", "erase"}]
       /\ table \in [Threads -> Tables]
       /\ sqlLock \subseteq Threads
  BY <1>2 DEF Init
<1>11. TypeOK
  BY <1>4, <1>5, <1>6, <1>7, <1>8, <1>9, <1>10 DEF TypeOK
<1> QED
  BY <1>11 DEF IInv, LockInv, IteratorValid, InList, Init

\* Whichever way push_back goes, the list it appends to stays a sequence and
\* keeps every position it had; only the table flush() is at is touched.
LEMMA PushKeeps ==
  ASSUME TypeOK, FlushPush
  PROVE  /\ records' \in [Tables -> Seq(SUBSET Rows)]
         /\ size' \in [Tables -> Int]
         /\ severed' \subseteq Tables
         /\ dropped' \in [Tables -> SUBSET Rows]
         /\ \A t \in Tables : Len(records[t]) <= Len(records'[t])
<1> DEFINE t == FlushOrder[at]
<1>1. t \in Tables
  BY AtTable
<1>2. /\ requests[t] \in SUBSET Rows
      /\ \A u \in Tables : records[u] \in Seq(SUBSET Rows) /\ Len(records[u]) \in Nat
  BY <1>1, LenProperties DEF TypeOK
<1>3. CASE UNCHANGED lists
  BY <1>2, <1>3 DEF TypeOK, lists
<1>4. CASE Append1(t, requests[t]) \/ AppendDuringErase(t, requests[t])
  <2>2. size' \in [Tables -> Int]
    BY <1>1, <1>4 DEF TypeOK, Append1, AppendDuringErase
  <2>3. severed' \subseteq Tables
    BY <1>1, <1>4 DEF TypeOK, Append1, AppendDuringErase
  <2>4. dropped' = dropped \/ dropped' = [dropped EXCEPT ![t] = @ \cup requests[t]]
    BY <1>4 DEF Append1, AppendDuringErase
  <2>5. dropped' \in [Tables -> SUBSET Rows]
    <3>1. \A u \in Tables : dropped[u] \in SUBSET Rows
      BY DEF TypeOK
    <3>2. dropped[t] \cup requests[t] \in SUBSET Rows
      BY <1>1, <1>2, <3>1
    <3>3. dropped \in [Tables -> SUBSET Rows]
      BY DEF TypeOK
    <3> QED
      BY <1>1, <2>4, <3>2, <3>3
  <2>6. records' = records \/ records' = [records EXCEPT ![t] = Append(@, requests[t])]
    BY <1>4 DEF Append1, AppendDuringErase
  <2>7. CASE records' = records
    BY <1>2, <2>2, <2>3, <2>5, <2>7 DEF TypeOK
  <2>8. CASE records' = [records EXCEPT ![t] = Append(@, requests[t])]
    <3>1. Append(records[t], requests[t]) \in Seq(SUBSET Rows)
      BY <1>1, <1>2
    <3>2. Len(Append(records[t], requests[t])) = Len(records[t]) + 1
      BY <1>1, <1>2
    <3>3. records' \in [Tables -> Seq(SUBSET Rows)]
      BY <1>1, <2>8, <3>1 DEF TypeOK
    <3>4. \A u \in Tables : Len(records[u]) <= Len(records'[u])
      BY <1>1, <1>2, <2>8, <3>2 DEF TypeOK
    <3> QED
      BY <2>2, <2>3, <2>5, <3>3, <3>4
  <2> QED
    BY <2>6, <2>7, <2>8
<1> QED
  BY <1>3, <1>4 DEF FlushPush

\* No step of the main thread disturbs it: an append only lengthens a list, so
\* the iterators in it stay valid.
LEMMA MainKeepsIInv == IInv /\ MainStep => IInv'
<1> SUFFICES ASSUME IInv, MainStep PROVE IInv'
  OBVIOUS
<1> USE DEF IInv
<1>1. FlushOrder \in Seq(STRING) /\ Len(FlushOrder) \in Nat \ {0}
  BY ConstantsAssumption, EmptySeq
<1>2. ASSUME NEW t \in Tables, Record(t) PROVE IInv'
  <2>1. recorded[t] + 1 \in Rows /\ recorded[t] + 1 \in 0 .. MaxRows
    BY <1>2, ConstantsAssumption DEF Record, TypeOK, Rows
  <2>2. /\ recorded' \in [Tables -> 0 .. MaxRows]
        /\ requests' \in [Tables -> SUBSET Rows]
    BY <1>2, <2>1 DEF Record, TypeOK
  <2>3. TypeOK'
    BY <1>2, <2>2 DEF Record, TypeOK, lists, main, workers, server
  <2> QED
    BY <1>2, <2>3 DEF Record, LockInv, IteratorValid, InList, lists, workers
<1>3. ASSUME FlushTimer PROVE IInv'
  BY <1>1, <1>3
     DEF FlushTimer, TypeOK, LockInv, IteratorValid, InList, handler, lists, workers, server
<1>4. ASSUME FlushPush PROVE IInv'
  <2>1. TypeOK'
    BY <1>4, PushKeeps DEF FlushPush, TypeOK, handler, workers, server
  <2>2. LockInv'
    BY <1>4 DEF FlushPush, LockInv, InList, workers
  <2>3. IteratorValid'
    <3> SUFFICES ASSUME NEW w \in Threads, (pc[w] \in {"query", "erase"})'
                 PROVE  (it[w] \in DOMAIN records[table[w]])'
      BY DEF IteratorValid
    <3>1. table[w] \in Tables /\ it[w] \in Nat \ {0}
      BY DEF TypeOK
    <3>2. /\ records[table[w]] \in Seq(SUBSET Rows)
          /\ records'[table[w]] \in Seq(SUBSET Rows)
      BY <1>4, <3>1, PushKeeps DEF TypeOK
    <3>3. it[w] <= Len(records[table[w]])
      BY <1>4, <3>1, <3>2, LenProperties DEF FlushPush, workers, IteratorValid
    <3>4. it[w] <= Len(records'[table[w]])
      BY <1>4, <3>1, <3>2, <3>3, PushKeeps, LenProperties
    <3> QED
      BY <1>4, <3>1, <3>2, <3>4, LenProperties DEF FlushPush, workers
  <2> QED
    BY <2>1, <2>2, <2>3
<1>5. ASSUME FlushSpawn PROVE IInv'
  <2>1. FlushOrder[at] \in Tables
    BY AtTable
  <2>2. /\ at' \in 1 .. Len(FlushOrder)
        /\ step' \in {"loop", "push", "clear", "spawn", "reset", "closed", "exited"}
    BY <1>1, <1>5 DEF FlushSpawn, Advance, TypeOK
  <2>3. \/ UNCHANGED <<pc, table>>
        \/ \E w \in Threads : /\ pc[w] = "idle"
                              /\ pc' = [pc EXCEPT ![w] = "start"]
                              /\ table' = [table EXCEPT ![w] = FlushOrder[at]]
    BY <1>5 DEF FlushSpawn
  <2>4. TypeOK'
    BY <1>5, <2>1, <2>2, <2>3 DEF FlushSpawn, TypeOK, handler, lists, server
  <2>5. /\ \A w \in Threads : InList(w)' <=> InList(w)
        /\ \A w \in Threads : InList(w) => pc'[w] = pc[w] /\ table'[w] = table[w]
    BY <2>3 DEF TypeOK, InList
  <2> QED
    BY <1>5, <2>4, <2>5 DEF FlushSpawn, LockInv, IteratorValid, InList, lists
<1>6. ASSUME Signal PROVE IInv'
  BY <1>1, <1>6
     DEF Signal, TypeOK, LockInv, IteratorValid, InList, handler, lists, workers, server
<1>7. ASSUME Disconnect PROVE IInv'
  <2>1. executed' \in Seq(Statements)
    <3>1. ResetStatement \in Statements
      BY DEF ResetStatement, Statement, Statements
    <3>2. executed \in Seq(Statements)
      BY DEF TypeOK
    <3>3. executed' = executed \/ executed' = Append(executed, ResetStatement)
      BY <1>7 DEF Disconnect
    <3> QED
      BY <3>1, <3>2, <3>3
  <2> QED
    BY <1>7, <2>1
       DEF Disconnect, TypeOK, LockInv, IteratorValid, InList, handler, lists, workers
<1>9. ASSUME FlushClear PROVE IInv'
  <2>1. requests' \in [Tables -> SUBSET Rows]
    BY <1>9 DEF FlushClear, TypeOK
  <2> QED
    BY <1>9, <2>1
       DEF FlushClear, TypeOK, LockInv, IteratorValid, InList, lists, workers, server
<1>8. ASSUME ExitStopped \/ ExitOnException PROVE IInv'
  BY <1>8 DEF ExitStopped, ExitOnException, TypeOK, LockInv, IteratorValid, InList,
              handler, lists, workers, server
<1> QED
  BY <1>2, <1>3, <1>4, <1>5, <1>6, <1>7, <1>8, <1>9 DEF MainStep

\* A batch in a list is a set of rows; a thread about to query stands on one.
LEMMA CurrentType ==
  ASSUME IInv, NEW w \in Threads, pc[w] \in {"query", "erase"}
  PROVE  /\ table[w] \in Tables
         /\ it[w] \in 1 .. Len(records[table[w]])
         /\ records[table[w]] \in Seq(SUBSET Rows)
         /\ Current(w) \in SUBSET Rows
<1>1. table[w] \in Tables /\ records[table[w]] \in Seq(SUBSET Rows)
  BY DEF IInv, TypeOK
<1>2. it[w] \in 1 .. Len(records[table[w]])
  BY <1>1, LenProperties DEF IInv, IteratorValid
<1> QED
  BY <1>1, <1>2, ElementOfSeq DEF Current

\* An error leaves the lists alone and hands the thread back to the walk.
LEMMA StepOverKeepsIInv ==
  ASSUME IInv, NEW w \in Threads, pc[w] = "query", StepOver(w),
         connected' \in BOOLEAN, executed' \in Seq(Statements),
         failures' \in 0 .. MaxFailures
  PROVE  IInv'
<1> USE DEF IInv
<1>1. table[w] \in Tables /\ Current(w) \in SUBSET Rows /\ it[w] + 1 \in Nat \ {0}
  BY CurrentType DEF TypeOK
<1>2. retried' \in [Tables -> SUBSET SUBSET Rows]
  <2>1. retried[table[w]] \in SUBSET SUBSET Rows
    BY <1>1 DEF TypeOK
  <2> QED
    BY <1>1, <2>1 DEF StepOver, TypeOK
<1>3. /\ it' \in [Threads -> Nat \ {0}]
      /\ pc' \in [Threads -> {"idle", "start", "walk", "query", "erase"}]
  BY <1>1 DEF StepOver, TypeOK
<1>4. TypeOK'
  BY <1>2, <1>3 DEF StepOver, TypeOK, handler, lists, main
<1>5. LockInv'
  BY DEF StepOver, TypeOK, LockInv, InList
<1>6. IteratorValid'
  BY DEF StepOver, TypeOK, IteratorValid, lists
<1> QED
  BY <1>4, <1>5, <1>6

\* No step of a flush thread disturbs it: the lock keeps every other thread out
\* of the list it erases from.
LEMMA ThreadKeepsIInv ==
  ASSUME IInv, NEW w \in Threads, ThreadStep(w) PROVE IInv'
<1> USE DEF IInv
<1>1. CASE Lock(w)
  <2>1. TypeOK'
    BY <1>1 DEF Lock, TypeOK, handler, lists, main, server
  <2>2. LockInv'
    BY <1>1 DEF Lock, TypeOK, LockInv, InList
  <2>3. IteratorValid'
    BY <1>1 DEF Lock, TypeOK, IteratorValid, lists
  <2> QED
    BY <2>1, <2>2, <2>3
<1>2. CASE Issue(w)
  <2>1. TypeOK'
    BY <1>2 DEF Issue, TypeOK, handler, lists, main, server
  <2>2. LockInv'
    BY <1>2 DEF Issue, TypeOK, LockInv, InList
  <2>3. table[w] \in Tables /\ records[table[w]] \in Seq(SUBSET Rows) /\ it[w] \in Nat \ {0}
    BY DEF TypeOK
  <2>4. it[w] \in DOMAIN records[table[w]]
    BY <1>2, <2>3, LenProperties DEF Issue
  <2>5. IteratorValid'
    BY <1>2, <2>4 DEF Issue, TypeOK, IteratorValid, lists
  <2> QED
    BY <2>1, <2>2, <2>5
<1>3. CASE Finish(w)
  <2>1. TypeOK'
    BY <1>3 DEF Finish, TypeOK, handler, lists, main, server
  <2>2. LockInv'
    BY <1>3 DEF Finish, TypeOK, LockInv, InList
  <2>3. IteratorValid'
    BY <1>3 DEF Finish, TypeOK, IteratorValid, lists
  <2> QED
    BY <2>1, <2>2, <2>3
<1>4. CASE QueryOk(w)
  <2>1. Statement(table[w], Current(w)) \in Statements
    BY <1>4, CurrentType DEF QueryOk, Statement, Statements
  <2>2. executed' \in Seq(Statements)
    BY <1>4, <2>1 DEF QueryOk, TypeOK
  <2>3. TypeOK'
    BY <1>4, <2>2 DEF QueryOk, TypeOK, handler, lists, main
  <2>4. LockInv'
    BY <1>4 DEF QueryOk, TypeOK, LockInv, InList
  <2>5. IteratorValid'
    BY <1>4 DEF QueryOk, TypeOK, IteratorValid, lists
  <2> QED
    BY <2>3, <2>4, <2>5
<1>5. CASE QueryRefused(w) \/ QueryUnsent(w)
  <2>1. /\ pc[w] = "query" /\ StepOver(w)
        /\ connected' \in BOOLEAN /\ executed' \in Seq(Statements)
        /\ failures' \in 0 .. MaxFailures
    BY <1>5, ConstantsAssumption DEF QueryRefused, QueryUnsent, TypeOK
  <2> QED
    BY <2>1, StepOverKeepsIInv
<1>6. CASE LinkBreaks(w)
  <2>1. Statement(table[w], Current(w)) \in Statements
    BY <1>6, CurrentType DEF LinkBreaks, Statement, Statements
  <2>2. executed \in Seq(Statements)
    BY DEF TypeOK
  <2>3. executed' = executed \/ executed' = Append(executed, Statement(table[w], Current(w)))
    BY <1>6 DEF LinkBreaks
  <2>4. executed' \in Seq(Statements)
    BY <2>1, <2>2, <2>3
  <2>5. /\ pc[w] = "query" /\ StepOver(w)
        /\ connected' \in BOOLEAN /\ failures' \in 0 .. MaxFailures
    BY <1>6 DEF LinkBreaks, TypeOK
  <2> QED
    BY <2>4, <2>5, StepOverKeepsIInv
<1>7. CASE Erase(w)
  <2>1. /\ table[w] \in Tables
        /\ records[table[w]] \in Seq(SUBSET Rows)
        /\ it[w] \in DOMAIN records[table[w]]
    BY <1>7, CurrentType DEF Erase, IteratorValid
  <2>2. Without(records[table[w]], it[w]) \in Seq(SUBSET Rows)
    BY <2>1, WithoutType
  <2>3. records' \in [Tables -> Seq(SUBSET Rows)]
    BY <1>7, <2>1, <2>2 DEF Erase, TypeOK
  <2>4. size' \in [Tables -> Int]
    BY <1>7, <2>1 DEF Erase, TypeOK
  <2>5. TypeOK'
    BY <1>7, <2>3, <2>4 DEF Erase, TypeOK, handler, main, server
  <2>6. LockInv'
    BY <1>7 DEF Erase, TypeOK, LockInv, InList
  <2>7. \A v \in Threads : v # w => ~InList(v)
    BY <1>7 DEF Erase, LockInv, InList
  <2>8. IteratorValid'
    BY <1>7, <2>7 DEF Erase, TypeOK, IteratorValid, InList
  <2> QED
    BY <2>5, <2>6, <2>8
<1> QED
  BY <1>1, <1>2, <1>3, <1>4, <1>5, <1>6, <1>7 DEF ThreadStep

\* Nor does a step of the environment.
LEMMA StutterKeepsIInv == IInv /\ UNCHANGED vars => IInv'
BY DEF IInv, TypeOK, LockInv, IteratorValid, InList, vars

\* The invariant the other proofs rest on.
THEOREM IInvHolds == Spec => []IInv
<1>1. IInv /\ [Next]_vars => IInv'
  BY MainKeepsIInv, ThreadKeepsIInv, StutterKeepsIInv DEF Next
<1> QED
  BY InitIInv, <1>1, PTL DEF Spec

\* Every variable keeps its type; for the lists this needs the lock.
THEOREM TypeCorrect == Spec => []TypeOK
<1>1. IInv => TypeOK
  BY DEF IInv
<1> QED
  BY IInvHolds, <1>1, PTL

\* However many threads flush() has piled up, one at a time is in a records
\* list or uses the connection.
THEOREM OneThreadInside == Spec => []SqlExclusive
<1>1. IInv => SqlExclusive
  BY DEF IInv, LockInv, SqlExclusive
<1> QED
  BY IInvHolds, <1>1, PTL

\* No thread dereferences the end of the list it walks.
THEOREM IteratorsStayValid == Spec => []IteratorValid
<1>1. IInv => IteratorValid
  BY DEF IInv
<1> QED
  BY IInvHolds, <1>1, PTL

-----------------------------------------------------------------------------
(* Nothing is lost: how the three sets of rows change.                     *)

\* What one more executed statement adds to the rows written.
LEMMA RowsOfAppend ==
  ASSUME NEW log \in Seq(Statements), NEW e \in Statements, NEW t
  PROVE  RowsOf(Append(log, e), t)
           = RowsOf(log, t) \cup (IF e.table = t THEN e.rows ELSE {})
<1> DEFINE new == Append(log, e)
<1>1. /\ Len(log) \in Nat
      /\ DOMAIN log = 1 .. Len(log)
      /\ DOMAIN new = 1 .. Len(log) + 1
      /\ \A i \in 1 .. Len(log) : new[i] = log[i]
      /\ new[Len(log) + 1] = e
  BY LenProperties
<1> HIDE DEF new
<1>2. ASSUME NEW r \in RowsOf(new, t)
      PROVE  r \in RowsOf(log, t) \cup (IF e.table = t THEN e.rows ELSE {})
  <2>1. PICK i \in DOMAIN new : new[i].table = t /\ r \in new[i].rows
    BY <1>2 DEF RowsOf
  <2>2. CASE i = Len(log) + 1
    BY <1>1, <2>1, <2>2
  <2>3. CASE i \in 1 .. Len(log)
    BY <1>1, <2>1, <2>3 DEF RowsOf
  <2> QED
    BY <1>1, <2>1, <2>2, <2>3
<1>3. ASSUME NEW r \in RowsOf(log, t) PROVE r \in RowsOf(new, t)
  <2>1. PICK i \in DOMAIN log : log[i].table = t /\ r \in log[i].rows
    BY <1>3 DEF RowsOf
  <2>2. i \in DOMAIN new /\ new[i] = log[i]
    BY <1>1, <2>1
  <2> QED
    BY <2>1, <2>2 DEF RowsOf
<1>4. ASSUME e.table = t, NEW r \in e.rows PROVE r \in RowsOf(new, t)
  <2>1. Len(log) + 1 \in DOMAIN new
    BY <1>1
  <2> QED
    BY <1>1, <1>4, <2>1 DEF RowsOf
<1>5. RowsOf(new, t) = RowsOf(log, t) \cup (IF e.table = t THEN e.rows ELSE {})
  BY <1>2, <1>3, <1>4
<1> QED
  BY <1>5 DEF new

\* What one more statement adds to the rows waiting in a list.
LEMMA RowsInAppend ==
  ASSUME NEW S, NEW list \in Seq(S), NEW b \in S
  PROVE  /\ RowsIn(Append(list, b)) = RowsIn(list) \cup b
         /\ DOMAIN Append(list, b) = 1 .. Len(list) + 1
         /\ DOMAIN list = 1 .. Len(list) /\ Len(list) \in Nat
         /\ \A i \in DOMAIN list : Append(list, b)[i] = list[i]
         /\ Append(list, b)[Len(list) + 1] = b
<1> DEFINE new == Append(list, b)
<1>1. /\ Len(list) \in Nat
      /\ DOMAIN list = 1 .. Len(list)
      /\ DOMAIN new = 1 .. Len(list) + 1
      /\ \A i \in 1 .. Len(list) : new[i] = list[i]
      /\ new[Len(list) + 1] = b
  BY LenProperties
<1> HIDE DEF new
<1>2. ASSUME NEW r \in RowsIn(new) PROVE r \in RowsIn(list) \cup b
  <2>1. PICK i \in DOMAIN new : r \in new[i]
    BY <1>2 DEF RowsIn
  <2>2. i = Len(list) + 1 \/ i \in 1 .. Len(list)
    BY <1>1, <2>1
  <2> QED
    BY <1>1, <2>1, <2>2 DEF RowsIn
<1>3. ASSUME NEW r \in RowsIn(list) \cup b PROVE r \in RowsIn(new)
  <2>1. CASE r \in b
    <3>1. Len(list) + 1 \in DOMAIN new
      BY <1>1
    <3> QED
      BY <1>1, <2>1, <3>1 DEF RowsIn
  <2>2. CASE r \in RowsIn(list)
    <3>1. PICK i \in DOMAIN list : r \in list[i]
      BY <2>2 DEF RowsIn
    <3>2. i \in DOMAIN new /\ new[i] = list[i]
      BY <1>1, <3>1
    <3> QED
      BY <3>1, <3>2 DEF RowsIn
  <2> QED
    BY <1>3, <2>1, <2>2
<1>4. RowsIn(new) = RowsIn(list) \cup b
  BY <1>2, <1>3
<1> QED
  BY <1>1, <1>4 DEF new

\* Where each element of the shorter list stood before.
Before(i, j) == IF j < i THEN j ELSE j + 1

\* What erasing a node takes from the rows waiting in a list.
LEMMA RowsInWithout ==
  ASSUME NEW S, NEW list \in Seq(S), NEW i \in DOMAIN list
  PROVE  /\ RowsIn(list) = RowsIn(Without(list, i)) \cup list[i]
         /\ \A j \in DOMAIN Without(list, i) :
              /\ Before(i, j) \in DOMAIN list
              /\ Before(i, j) # i
              /\ Without(list, i)[j] = list[Before(i, j)]
         /\ \A j, k \in DOMAIN Without(list, i) : Before(i, j) = Before(i, k) => j = k
<1> DEFINE new == Without(list, i)
<1>1. Len(list) \in Nat /\ DOMAIN list = 1 .. Len(list)
  BY LenProperties
<1>2. DOMAIN new = 1 .. Len(list) - 1
  BY WithoutType
<1>3. \A j \in DOMAIN new : /\ Before(i, j) \in DOMAIN list
                            /\ Before(i, j) # i
  BY <1>1, <1>2 DEF Before
<1>4. \A j \in DOMAIN new : new[j] = list[Before(i, j)]
  BY <1>1 DEF Without, Before
<1>5. \A j, k \in DOMAIN new : Before(i, j) = Before(i, k) => j = k
  BY <1>1, <1>2 DEF Before
<1> HIDE DEF new
<1>6. ASSUME NEW r \in RowsIn(list) PROVE r \in RowsIn(new) \cup list[i]
  <2>1. PICK k \in DOMAIN list : r \in list[k]
    BY <1>6 DEF RowsIn
  <2>2. CASE k = i
    BY <2>1, <2>2
  <2>3. CASE k < i
    <3>1. k \in DOMAIN new /\ Before(i, k) = k
      BY <1>1, <1>2, <2>1, <2>3 DEF Before
    <3> QED
      BY <1>4, <2>1, <3>1 DEF RowsIn
  <2>4. CASE k > i
    <3>1. k - 1 \in DOMAIN new /\ Before(i, k - 1) = k
      BY <1>1, <1>2, <2>1, <2>4 DEF Before
    <3> QED
      BY <1>4, <2>1, <3>1 DEF RowsIn
  <2> QED
    BY <1>1, <2>1, <2>2, <2>3, <2>4
<1>7. ASSUME NEW r \in RowsIn(new) \cup list[i] PROVE r \in RowsIn(list)
  <2>1. CASE r \in list[i]
    BY <2>1 DEF RowsIn
  <2>2. CASE r \in RowsIn(new)
    <3>1. PICK j \in DOMAIN new : r \in new[j]
      BY <2>2 DEF RowsIn
    <3> QED
      BY <1>3, <1>4, <3>1 DEF RowsIn
  <2> QED
    BY <1>7, <2>1, <2>2
<1>8. RowsIn(list) = RowsIn(new) \cup list[i]
  BY <1>6, <1>7
<1> QED
  BY <1>3, <1>4, <1>5, <1>8 DEF new

-----------------------------------------------------------------------------
(* Nothing is lost: the inductive invariant.                               *)

Accounted ==
  \A t \in Tables :
    1 .. recorded[t] = requests[t] \cup Waiting(t) \cup Written(t) \cup dropped[t]

\* erase() only takes away what the server has executed.
ErasedWritten ==
  \A w \in Threads : pc[w] = "erase" => Current(w) \subseteq Written(table[w])

\* Between push_back and clear() the rows of the buffer are accounted for twice.
Pushed(t) == requests[t] \subseteq Waiting(t) \cup Written(t) \cup dropped[t]
ClearLosesNothing == step = "clear" => Pushed(FlushOrder[at])

AccountInv == Accounted /\ ErasedWritten /\ ClearLosesNothing

\* A statement of table u adds its rows to what is written of u, and of no
\* other table.
LEMMA ExecuteWrites ==
  ASSUME TypeOK, NEW u \in Tables \cup {"reset"}, NEW rows \in SUBSET Rows,
         executed' = Append(executed, Statement(u, rows)),
         NEW t \in Tables
  PROVE  Written(t)' = Written(t) \cup (IF u = t THEN rows ELSE {})
<1> DEFINE e == Statement(u, rows)
<1>1. e \in Statements /\ e.table = u /\ e.rows = rows
  BY DEF Statement, Statements
<1>2. executed \in Seq(Statements)
  BY DEF TypeOK
<1> HIDE DEF e
<1>3. RowsOf(Append(executed, e), t) = RowsOf(executed, t) \cup (IF u = t THEN rows ELSE {})
  BY <1>1, <1>2, RowsOfAppend
<1> QED
  BY <1>3 DEF Written, e

\* reset() writes no row.
LEMMA DisconnectWritesNothing ==
  ASSUME TypeOK, Disconnect, NEW t \in Tables PROVE Written(t)' = Written(t)
<1>1. CASE executed' = executed
  BY <1>1 DEF Written
<1>2. CASE executed' = Append(executed, Statement("reset", {}))
  <2>1. "reset" \in Tables \cup {"reset"} /\ {} \in SUBSET Rows /\ "reset" # t
    BY ConstantsAssumption
  <2>2. Written(t)' = Written(t) \cup (IF "reset" = t THEN {} ELSE {})
    BY <1>2, <2>1, ExecuteWrites
  <2> QED
    BY <2>2
<1>3. executed' = executed \/ executed' = Append(executed, Statement("reset", {}))
  BY DEF Disconnect, ResetStatement
<1> QED
  BY <1>1, <1>2, <1>3

\* At the start there is no row to account for.
LEMMA InitAccountInv == Init => AccountInv
<1> SUFFICES ASSUME Init, NEW t \in Tables
             PROVE  /\ 1 .. recorded[t] = {} /\ requests[t] = {} /\ dropped[t] = {}
                    /\ Waiting(t) = {} /\ Written(t) = {}
                    /\ \A w \in Threads : pc[w] # "erase"
  BY ConstantsAssumption
     DEF AccountInv, Accounted, ErasedWritten, ClearLosesNothing, Init, Waiting, RowsIn
<1>1. Waiting(t) = {}
  BY DEF Init, Waiting, RowsIn
<1>2. \A i \in DOMAIN executed : executed[i].table # t
  BY ConstantsAssumption DEF Init, ResetStatement, Statement
<1>3. Written(t) = {}
  BY <1>2 DEF Written, RowsOf
<1> QED
  BY <1>1, <1>3 DEF Init

\* Where the batch goes that flush() has taken from a buffer.
LEMMA PushMoves ==
  ASSUME TypeOK, FlushPush
  PROVE  /\ \A t \in Tables :
              requests[t] \cup Waiting(t) \cup dropped[t]
                = requests[t] \cup RowsIn(records'[t]) \cup dropped'[t]
         /\ step' = "clear" => requests[FlushOrder[at]] \subseteq
                                RowsIn(records'[FlushOrder[at]]) \cup dropped'[FlushOrder[at]]
         /\ \A t \in Tables : \A i \in DOMAIN records[t] :
              i \in DOMAIN records'[t] /\ records'[t][i] = records[t][i]
<1> DEFINE u == FlushOrder[at]
<1>1. /\ u \in Tables /\ requests[u] \in SUBSET Rows
      /\ \A t \in Tables : records[t] \in Seq(SUBSET Rows)
  BY AtTable DEF TypeOK
<1>2. CASE step' = "spawn" /\ UNCHANGED lists
  BY <1>2 DEF lists, Waiting
<1>3. CASE Append1(u, requests[u]) \/ AppendDuringErase(u, requests[u])
  <2>1. \/ records' = [records EXCEPT ![u] = Append(@, requests[u])] /\ dropped' = dropped
        \/ records' = records /\ dropped' = [dropped EXCEPT ![u] = @ \cup requests[u]]
    BY <1>3 DEF Append1, AppendDuringErase
  <2>2. CASE records' = [records EXCEPT ![u] = Append(@, requests[u])] /\ dropped' = dropped
    <3>1. records'[u] = Append(records[u], requests[u])
      BY <1>1, <2>2 DEF TypeOK
    <3>2. /\ RowsIn(records'[u]) = RowsIn(records[u]) \cup requests[u]
          /\ \A i \in DOMAIN records[u] :
               i \in DOMAIN records'[u] /\ records'[u][i] = records[u][i]
      BY <1>1, <3>1, RowsInAppend
    <3>3. \A t \in Tables \ {u} : records'[t] = records[t]
      BY <2>2 DEF TypeOK
    <3> QED
      BY <1>1, <2>2, <3>2, <3>3 DEF Waiting
  <2>3. CASE records' = records /\ dropped' = [dropped EXCEPT ![u] = @ \cup requests[u]]
    BY <1>1, <2>3 DEF TypeOK, Waiting
  <2> QED
    BY <2>1, <2>2, <2>3
<1> QED
  BY <1>2, <1>3 DEF FlushPush

\* Recording, pushing and clearing keep every row accounted for.
LEMMA MainKeepsAccountInv ==
  ASSUME IInv, AccountInv, MainStep PROVE AccountInv'
<1> USE DEF AccountInv
<1>1. ASSUME NEW u \in Tables, Record(u) PROVE AccountInv'
  <2>1. recorded[u] \in Nat /\ recorded'[u] = recorded[u] + 1
    BY <1>1, ConstantsAssumption DEF Record, IInv, TypeOK
  <2>2. 1 .. recorded'[u] = (1 .. recorded[u]) \cup {recorded[u] + 1}
    BY <2>1
  <2>3. requests'[u] = requests[u] \cup {recorded[u] + 1}
    BY <1>1 DEF Record, IInv, TypeOK
  <2>4. \A t \in Tables \ {u} : recorded'[t] = recorded[t] /\ requests'[t] = requests[t]
    BY <1>1 DEF Record, IInv, TypeOK
  <2>5. UNCHANGED <<dropped, records, executed, pc, table, it>>
    BY <1>1 DEF Record, lists, workers, server
  <2>6. \A t \in Tables : Waiting(t)' = Waiting(t) /\ Written(t)' = Written(t)
    BY <2>5 DEF Waiting, Written
  <2>7. Accounted'
    BY <2>2, <2>3, <2>4, <2>5, <2>6 DEF Accounted
  <2>8. ErasedWritten'
    BY <2>5, <2>6 DEF ErasedWritten, Current, IInv, TypeOK
  <2>9. ClearLosesNothing'
    BY <1>1 DEF Record, ClearLosesNothing, main
  <2> QED
    BY <2>7, <2>8, <2>9
<1>2. ASSUME FlushPush PROVE AccountInv'
  <2>1. UNCHANGED <<recorded, requests, at, executed, pc, table, it>>
    BY <1>2 DEF FlushPush, handler, workers, server
  <2>2. \A t \in Tables : Written(t)' = Written(t) /\ Waiting(t)' = RowsIn(records'[t])
    BY <2>1 DEF Written, Waiting
  <2>3. Accounted'
    <3> SUFFICES ASSUME NEW t \in Tables
                 PROVE  1 .. recorded[t] = requests[t] \cup RowsIn(records'[t])
                                             \cup Written(t) \cup dropped'[t]
      BY <2>1, <2>2 DEF Accounted
    <3>1. 1 .. recorded[t] = requests[t] \cup Waiting(t) \cup Written(t) \cup dropped[t]
      BY DEF Accounted
    <3>2. requests[t] \cup Waiting(t) \cup dropped[t]
            = requests[t] \cup RowsIn(records'[t]) \cup dropped'[t]
      BY <1>2, PushMoves DEF IInv
    <3> QED
      BY <3>1, <3>2
  <2>4. ErasedWritten'
    <3> SUFFICES ASSUME NEW w \in Threads, pc[w] = "erase"
                 PROVE  Current(w)' \subseteq Written(table[w])'
      BY <2>1 DEF ErasedWritten
    <3>1. table[w] \in Tables /\ it[w] \in DOMAIN records[table[w]]
      BY DEF IInv, IteratorValid, TypeOK
    <3>2. Current(w)' = Current(w)
      BY <1>2, <2>1, <3>1, PushMoves DEF Current, IInv
    <3>3. Written(table[w])' = Written(table[w])
      BY <2>1 DEF Written
    <3> QED
      BY <3>2, <3>3 DEF ErasedWritten
  <2>5. ClearLosesNothing'
    <3>1. FlushOrder[at] \in Tables
      BY AtTable DEF IInv
    <3>2. step' = "clear" => requests[FlushOrder[at]] \subseteq
                             RowsIn(records'[FlushOrder[at]]) \cup dropped'[FlushOrder[at]]
      BY <1>2, PushMoves DEF IInv
    <3> QED
      BY <2>1, <3>1, <3>2 DEF ClearLosesNothing, Pushed, Waiting
  <2> QED
    BY <2>3, <2>4, <2>5
<1>6. ASSUME FlushClear PROVE AccountInv'
  <2> DEFINE u == FlushOrder[at]
  <2>1. UNCHANGED <<recorded, records, dropped, executed, pc, table, it>> /\ u \in Tables
    BY <1>6, AtTable DEF FlushClear, lists, workers, server, IInv
  <2>2. requests'[u] = {} /\ \A t \in Tables \ {u} : requests'[t] = requests[t]
    BY <1>6, <2>1 DEF FlushClear, IInv, TypeOK
  <2>3. Pushed(u)
    BY <1>6 DEF FlushClear, ClearLosesNothing
  <2>4. \A t \in Tables : 1 .. recorded[t]
                             = requests'[t] \cup Waiting(t) \cup Written(t) \cup dropped[t]
    BY <2>1, <2>2, <2>3 DEF Pushed, Accounted
  <2>5. Accounted'
    BY <2>1, <2>4 DEF Accounted, Waiting, Written
  <2>6. ClearLosesNothing'
    BY <1>6 DEF FlushClear, ClearLosesNothing
  <2> QED
    BY <2>1, <2>5, <2>6 DEF ErasedWritten, Current, Written
<1>3. ASSUME FlushSpawn PROVE AccountInv'
  <2>1. UNCHANGED <<recorded, requests, dropped, records, executed, it>>
    BY <1>3 DEF FlushSpawn, handler, lists, server
  <2>2. \A w \in Threads : pc'[w] = "erase" => pc[w] = "erase" /\ table'[w] = table[w]
    BY <1>3 DEF FlushSpawn, IInv, TypeOK
  <2>3. step' # "clear"
    BY <1>3 DEF FlushSpawn, Advance
  <2> QED
    BY <2>1, <2>2, <2>3
       DEF Accounted, ErasedWritten, ClearLosesNothing, Waiting, Written, Current
<1>4. ASSUME Disconnect PROVE AccountInv'
  <2>1. UNCHANGED <<recorded, requests, dropped, records, pc, table, it>>
    BY <1>4 DEF Disconnect, handler, lists, workers
  <2>2. \A t \in Tables : Written(t)' = Written(t)
    BY <1>4, DisconnectWritesNothing DEF IInv
  <2>3. Accounted'
    BY <2>1, <2>2 DEF Accounted, Waiting
  <2>4. \A w \in Threads : Written(table[w])' = Written(table[w])
    BY <2>1, <2>2 DEF IInv, TypeOK, Written
  <2>5. ErasedWritten'
    BY <2>1, <2>4 DEF ErasedWritten, Current
  <2>6. ClearLosesNothing'
    BY <1>4 DEF Disconnect, ClearLosesNothing
  <2> QED
    BY <2>3, <2>5, <2>6
<1>5. ASSUME FlushTimer \/ Signal \/ ExitStopped \/ ExitOnException PROVE AccountInv'
  <2>1. UNCHANGED <<recorded, requests, dropped, records, executed, pc, table, it>>
    BY <1>5 DEF FlushTimer, Signal, ExitStopped, ExitOnException,
                handler, lists, workers, server
  <2>2. step' # "clear"
    BY <1>5 DEF FlushTimer, Signal, ExitStopped, ExitOnException
  <2> QED
    BY <2>1, <2>2 DEF Accounted, ErasedWritten, ClearLosesNothing, Waiting, Written, Current
<1> QED
  BY <1>1, <1>2, <1>3, <1>4, <1>5, <1>6 DEF MainStep

\* A thread that executed nothing and erased nothing keeps the accounts, as
\* long as it does not come to stand on a batch it is about to erase.
LEMMA QuietKeepsAccountInv ==
  ASSUME IInv, AccountInv,
         UNCHANGED <<recorded, requests, dropped, records, executed, table, step, at>>,
         \A v \in Threads : pc'[v] = "erase" => pc[v] = "erase" /\ it'[v] = it[v]
  PROVE  AccountInv'
BY DEF AccountInv, Accounted, ErasedWritten, ClearLosesNothing, Pushed, Waiting, Written, Current

\* ClearLosesNothing is about the main thread, which waits while a thread works:
\* it is kept as long as no row leaves the lists but for the database.
LEMMA ThreadKeepsClear ==
  ASSUME TypeOK, ClearLosesNothing, UNCHANGED <<requests, dropped, step, at>>,
         \A t \in Tables : Waiting(t) \cup Written(t) \subseteq (Waiting(t) \cup Written(t))'
  PROVE  ClearLosesNothing'
<1>1. FlushOrder[at] \in Tables
  BY AtTable
<1> QED
  BY <1>1 DEF ClearLosesNothing, Pushed

\* So does executing, refusing and erasing a statement.
LEMMA ThreadKeepsAccountInv ==
  ASSUME IInv, AccountInv, NEW w \in Threads, ThreadStep(w) PROVE AccountInv'
<1>1. CASE Lock(w) \/ Issue(w) \/ Finish(w) \/ QueryRefused(w) \/ QueryUnsent(w)
  <2>1. UNCHANGED <<recorded, requests, dropped, records, executed, table, step, at>>
    BY <1>1 DEF Lock, Issue, Finish, QueryRefused, QueryUnsent, StepOver,
                handler, lists, main, server
  <2>2. \A v \in Threads : pc'[v] = "erase" => pc[v] = "erase" /\ it'[v] = it[v]
    BY <1>1 DEF Lock, Issue, Finish, QueryRefused, QueryUnsent, StepOver, IInv, TypeOK
  <2> QED
    BY <2>1, <2>2, QuietKeepsAccountInv
<1>2. CASE QueryOk(w) \/ LinkBreaks(w)
  <2> DEFINE u == table[w]
  <2>1. pc[w] = "query" /\ u \in Tables /\ Current(w) \in SUBSET Rows
    BY <1>2, CurrentType DEF QueryOk, LinkBreaks
  <2>2. Current(w) \subseteq Waiting(u)
    BY <2>1, CurrentType, LenProperties DEF Current, Waiting, RowsIn
  <2>3. UNCHANGED <<recorded, requests, dropped, records, table, step, at>>
    BY <1>2 DEF QueryOk, LinkBreaks, StepOver, handler, lists, main
  <2>4. executed' = executed \/ executed' = Append(executed, Statement(u, Current(w)))
    BY <1>2 DEF QueryOk, LinkBreaks
  <2>5. \A t \in Tables :
          Written(t)' = Written(t) \/ (t = u /\ Written(t)' = Written(t) \cup Current(w))
    <3>1. CASE executed' = executed
      BY <3>1 DEF Written
    <3>2. CASE executed' = Append(executed, Statement(u, Current(w)))
      <4>1. ASSUME NEW t \in Tables
            PROVE  Written(t)' = Written(t) \cup (IF u = t THEN Current(w) ELSE {})
        BY <2>1, <3>2, ExecuteWrites DEF IInv
      <4> QED
        BY <4>1
    <3> QED
      BY <2>4, <3>1, <3>2
  <2>6. Accounted'
    <3> SUFFICES ASSUME NEW t \in Tables
                 PROVE  1 .. recorded[t]
                          = requests[t] \cup Waiting(t) \cup Written(t)' \cup dropped[t]
      BY <2>3 DEF Accounted, Waiting
    <3> QED
      BY <2>2, <2>5 DEF AccountInv, Accounted
  <2>7. ASSUME NEW v \in Threads, pc'[v] = "erase"
        PROVE  Current(v)' \subseteq Written(table[v])'
    <3>1. table[v] \in Tables
      BY DEF IInv, TypeOK
    <3>2. CASE v # w
      <4>1. pc[v] = "erase" /\ it'[v] = it[v]
        BY <1>2, <2>7, <3>2 DEF QueryOk, LinkBreaks, StepOver, IInv, TypeOK
      <4>2. Current(v)' = Current(v)
        BY <2>3, <4>1 DEF Current
      <4>3. Written(table[v])' = RowsOf(executed', table[v])
        BY <2>3 DEF Written
      <4>4. Written(table[v]) \subseteq RowsOf(executed', table[v])
        BY <2>5, <3>1 DEF Written
      <4> QED
        BY <4>1, <4>2, <4>3, <4>4 DEF AccountInv, ErasedWritten
    <3>3. CASE v = w
      <4>1. QueryOk(w) /\ it' = it
        BY <1>2, <2>7, <3>3 DEF LinkBreaks, StepOver, IInv, TypeOK, QueryOk
      <4>2. executed' = Append(executed, Statement(u, Current(w)))
        BY <4>1 DEF QueryOk
      <4>3. RowsOf(executed', u) = Written(u) \cup Current(w)
        <5>1. ASSUME NEW t \in Tables
              PROVE  Written(t)' = Written(t) \cup (IF u = t THEN Current(w) ELSE {})
          BY <2>1, <4>2, ExecuteWrites DEF IInv
        <5> QED
          BY <2>1, <5>1 DEF Written
      <4>4. Current(w)' = Current(w)
        BY <2>3, <4>1 DEF Current
      <4> QED
        BY <2>3, <3>3, <4>3, <4>4 DEF Written
    <3> QED
      BY <3>2, <3>3
  <2>8. ErasedWritten'
    BY <2>3, <2>7 DEF ErasedWritten, Written
  <2>9. \A t \in Tables : Waiting(t) \cup Written(t) \subseteq (Waiting(t) \cup Written(t))'
    BY <2>3, <2>5 DEF Waiting
  <2> QED
    BY <2>3, <2>6, <2>8, <2>9, ThreadKeepsClear DEF AccountInv, IInv
<1>3. CASE Erase(w)
  <2> DEFINE u == table[w]
  <2>1. /\ pc[w] = "erase" /\ u \in Tables
        /\ records[u] \in Seq(SUBSET Rows) /\ it[w] \in DOMAIN records[u]
    BY <1>3, CurrentType DEF Erase, IInv, IteratorValid
  <2>2. UNCHANGED <<recorded, requests, dropped, executed, table, it, step, at>>
    BY <1>3 DEF Erase, handler, main, server
  <2>3. records'[u] = Without(records[u], it[w])
    BY <1>3, <2>1 DEF Erase, IInv, TypeOK
  <2>4. \A t \in Tables \ {u} : records'[t] = records[t]
    BY <1>3 DEF Erase, IInv, TypeOK
  <2>5. Waiting(u) = RowsIn(records'[u]) \cup Current(w)
    BY <2>1, <2>2, <2>3, RowsInWithout DEF Waiting, Current
  <2>6. Current(w) \subseteq Written(u)
    BY <2>1 DEF AccountInv, ErasedWritten
  <2>7. \A t \in Tables : Written(t)' = Written(t)
    BY <2>2 DEF Written
  <2>8. Accounted'
    <3> SUFFICES ASSUME NEW t \in Tables
                 PROVE  1 .. recorded[t] = requests[t] \cup RowsIn(records'[t])
                                             \cup Written(t) \cup dropped[t]
      BY <2>2, <2>7 DEF Accounted, Waiting
    <3>1. CASE t = u
      BY <2>5, <2>6, <3>1 DEF AccountInv, Accounted
    <3>2. CASE t # u
      BY <2>4, <3>2 DEF AccountInv, Accounted, Waiting
    <3> QED
      BY <3>1, <3>2
  <2>9. \A v \in Threads : pc'[v] # "erase"
    BY <1>3 DEF Erase, IInv, TypeOK, LockInv, InList
  <2>10. \A t \in Tables : Waiting(t) \cup Written(t) \subseteq RowsIn(records'[t]) \cup Written(t)
    BY <2>4, <2>5, <2>6 DEF Waiting
  <2>11. ClearLosesNothing'
    BY <2>2, <2>7, <2>10, ThreadKeepsClear DEF AccountInv, IInv, Waiting
  <2> QED
    BY <2>8, <2>9, <2>11 DEF AccountInv, ErasedWritten
<1> QED
  BY <1>1, <1>2, <1>3 DEF ThreadStep

\* The accounting invariant from which NothingLost follows.
LEMMA AccountInvHolds == Spec => []AccountInv
<1>1. AccountInv /\ IInv /\ UNCHANGED vars => AccountInv'
  BY DEF AccountInv, Accounted, ErasedWritten, ClearLosesNothing, Pushed,
         Waiting, Written, Current, vars
<1>2. AccountInv /\ IInv /\ [Next]_vars => AccountInv'
  BY <1>1, MainKeepsAccountInv, ThreadKeepsAccountInv DEF Next
<1> QED
  BY InitAccountInv, IInvHolds, <1>2, PTL DEF Spec

\* A recorded row is in a buffer, in a waiting statement, in the database, or
\* cut off by the race of push_back with erase: nowhere else, whatever the
\* threads, errors, timers and signals do.
THEOREM NothingIsLost == Spec => []NothingLost
<1>1. AccountInv => NothingLost
  BY DEF AccountInv, Accounted, NothingLost
<1> QED
  BY AccountInvHolds, <1>1, PTL

-----------------------------------------------------------------------------
(* No row is written twice: the inductive invariant.                       *)

\* A row still in a buffer is in no statement, waiting or executed, but for the
\* rows of the buffer flush() is about to clear.
Fresh(t) == requests[t] \cap Waiting(t) = {} /\ requests[t] \cap Written(t) = {}
Clearing(t) == step = "clear" /\ t = FlushOrder[at]
BuffersFresh == \A t \in Tables : Clearing(t) \/ Fresh(t)

\* The waiting statements of a table are not empty and share no row.
BatchesApart ==
  \A t \in Tables : \A i, j \in DOMAIN records[t] :
    records[t][i] # {} /\ (i # j => records[t][i] \cap records[t][j] = {})

\* While there is a connection, a statement that is waiting has not been
\* executed, but for the one a thread is about to erase.
UnwrittenUnlessErasing ==
  connected => \A t \in Tables : \A i \in DOMAIN records[t] :
    \/ records[t][i] \cap Written(t) = {}
    \/ \E w \in Threads : Erasing(w, t) /\ it[w] = i

OnceInv == BuffersFresh /\ BatchesApart /\ UnwrittenUnlessErasing /\ AtMostOnce

\* At the start no statement holds a row.
LEMMA InitOnceInv == Init => OnceInv
<1> SUFFICES ASSUME Init PROVE OnceInv
  OBVIOUS
<1>1. BuffersFresh /\ BatchesApart /\ UnwrittenUnlessErasing
  <2>1. \A t \in Tables : requests[t] = {} /\ DOMAIN records[t] = {}
    BY DEF Init
  <2> QED
    BY <2>1 DEF BuffersFresh, Fresh, BatchesApart, UnwrittenUnlessErasing
<1>2. \A i \in DOMAIN executed : executed[i].rows = {}
  BY DEF Init, ResetStatement, Statement
<1>3. AtMostOnce
  BY <1>2 DEF AtMostOnce
<1> QED
  BY <1>1, <1>3 DEF OnceInv

\* A statement may join the log if its rows are in none of its table's yet.
LEMMA ExecuteKeepsAtMostOnce ==
  ASSUME TypeOK, AtMostOnce, NEW u \in Tables \cup {"reset"}, NEW rows \in SUBSET Rows,
         executed' = Append(executed, Statement(u, rows)),
         rows \cap RowsOf(executed, u) = {}
  PROVE  AtMostOnce'
<1> DEFINE e == Statement(u, rows)
<1>1. /\ Len(executed) \in Nat
      /\ DOMAIN executed = 1 .. Len(executed)
      /\ DOMAIN executed' = 1 .. Len(executed) + 1
      /\ \A i \in 1 .. Len(executed) : executed'[i] = executed[i]
      /\ executed'[Len(executed) + 1] = e
  BY LenProperties DEF TypeOK
<1>2. e.table = u /\ e.rows = rows
  BY DEF Statement
<1>3. \A i \in DOMAIN executed : executed[i].table = u => executed[i].rows \cap rows = {}
  BY DEF RowsOf
<1> HIDE DEF e
<1> SUFFICES ASSUME NEW i \in DOMAIN executed', NEW j \in DOMAIN executed',
                    i # j, executed'[i].table = executed'[j].table
             PROVE  executed'[i].rows \cap executed'[j].rows = {}
  BY DEF AtMostOnce
<1>4. CASE i \in DOMAIN executed /\ j \in DOMAIN executed
  BY <1>1, <1>4 DEF AtMostOnce
<1>5. CASE i = Len(executed) + 1 /\ j \in DOMAIN executed
  BY <1>1, <1>2, <1>3, <1>5
<1>6. CASE j = Len(executed) + 1 /\ i \in DOMAIN executed
  BY <1>1, <1>2, <1>3, <1>6
<1> QED
  BY <1>1, <1>4, <1>5, <1>6

\* A statement is built of rows that no statement held before, unless a signal
\* splits a push_back from its clear().
LEMMA MainKeepsOnceInv ==
  ASSUME ~SignalSplits, IInv, AccountInv, OnceInv, MainStep PROVE OnceInv'
<1> USE DEF OnceInv
<1>1. ASSUME NEW u \in Tables, Record(u) PROVE OnceInv'
  <2>1. recorded[u] \in Nat /\ requests'[u] = requests[u] \cup {recorded[u] + 1}
    BY <1>1, ConstantsAssumption DEF Record, IInv, TypeOK
  <2>2. \A t \in Tables \ {u} : requests'[t] = requests[t]
    BY <1>1 DEF Record, IInv, TypeOK
  <2>3. recorded[u] + 1 \notin 1 .. recorded[u]
    BY <2>1
  <2>4. recorded[u] + 1 \notin Waiting(u) /\ recorded[u] + 1 \notin Written(u)
    BY <2>3 DEF AccountInv, Accounted
  <2>5. UNCHANGED <<records, connected, executed, pc, table, it>>
    BY <1>1 DEF Record, lists, workers, server
  <2>6. \A t \in Tables : requests'[t] \cap Waiting(t) = {} /\ requests'[t] \cap Written(t) = {}
    BY <1>1, <2>1, <2>2, <2>4 DEF BuffersFresh, Fresh, Clearing, Record
  <2>7. BuffersFresh'
    BY <2>5, <2>6 DEF BuffersFresh, Fresh, Waiting, Written
  <2> QED
    BY <2>5, <2>7 DEF BatchesApart, UnwrittenUnlessErasing, AtMostOnce, Erasing, Written
<1>2. ASSUME FlushPush PROVE OnceInv'
  <2> DEFINE u == FlushOrder[at]
             batch == requests[u]
  <2>1. /\ u \in Tables /\ batch \in SUBSET Rows
        /\ \A t \in Tables : records[t] \in Seq(SUBSET Rows)
    BY AtTable DEF IInv, TypeOK
  <2>2. UNCHANGED <<requests, at, connected, executed, pc, table, it>> /\ step = "push"
    BY <1>2 DEF FlushPush, handler, workers, server
  <2>3. AtMostOnce' /\ \A t \in Tables : Fresh(t)
    BY <2>2 DEF AtMostOnce, BuffersFresh, Clearing
  <2>4. CASE UNCHANGED lists
    BY <2>2, <2>3, <2>4
       DEF lists, BuffersFresh, Fresh, BatchesApart, UnwrittenUnlessErasing, Erasing,
           Waiting, Written
  <2>5. CASE /\ requests[u] # {} /\ step' = "clear"
             /\ Append1(u, requests[u]) \/ AppendDuringErase(u, requests[u])
    <3>1. Clearing(u)'
      BY <2>2, <2>5 DEF Clearing
    <3>2. records' = records \/ records' = [records EXCEPT ![u] = Append(@, batch)]
      BY <2>5 DEF Append1, AppendDuringErase
    <3>3. CASE records' = records
      BY <2>2, <2>3, <3>3
         DEF BuffersFresh, Fresh, BatchesApart, UnwrittenUnlessErasing, Erasing, Waiting, Written
    <3>4. CASE records' = [records EXCEPT ![u] = Append(@, batch)]
      <4>1. /\ records'[u] = Append(records[u], batch)
            /\ \A t \in Tables \ {u} : records'[t] = records[t]
        BY <2>1, <3>4 DEF IInv, TypeOK
      <4>2. /\ DOMAIN records'[u] = 1 .. Len(records[u]) + 1
            /\ DOMAIN records[u] = 1 .. Len(records[u]) /\ Len(records[u]) \in Nat
            /\ \A i \in DOMAIN records[u] : records'[u][i] = records[u][i]
            /\ records'[u][Len(records[u]) + 1] = batch
        BY <2>1, <4>1, RowsInAppend
      <4>3. \A i \in DOMAIN records[u] : records[u][i] \cap batch = {}
        BY <2>1, <2>3 DEF Fresh, Waiting, RowsIn
      <4>4. BuffersFresh'
        BY <2>2, <2>3, <3>1, <4>1 DEF BuffersFresh, Fresh, Clearing, Waiting, Written
      <4>5. BatchesApart'
        <5> SUFFICES ASSUME NEW t \in Tables,
                            NEW i \in DOMAIN records'[t], NEW j \in DOMAIN records'[t]
                     PROVE  /\ records'[t][i] # {}
                            /\ i # j => records'[t][i] \cap records'[t][j] = {}
          BY DEF BatchesApart
        <5>1. CASE t # u
          BY <4>1, <5>1 DEF BatchesApart
        <5>2. CASE t = u
          <6>1. i \in DOMAIN records[u] \/ i = Len(records[u]) + 1
            BY <4>2, <5>2
          <6>2. j \in DOMAIN records[u] \/ j = Len(records[u]) + 1
            BY <4>2, <5>2
          <6>3. records'[u][i] # {}
            BY <2>1, <2>5, <4>2, <6>1 DEF BatchesApart
          <6>4. CASE i \in DOMAIN records[u] /\ j \in DOMAIN records[u]
            <7>1. i # j => records[u][i] \cap records[u][j] = {}
              BY <2>1, <6>4 DEF BatchesApart
            <7> QED
              BY <4>2, <5>2, <6>3, <6>4, <7>1
          <6>5. CASE i = Len(records[u]) + 1 \/ j = Len(records[u]) + 1
            BY <4>2, <4>3, <5>2, <6>1, <6>2, <6>3, <6>5
          <6> QED
            BY <6>1, <6>2, <6>4, <6>5
        <5> QED
          BY <5>1, <5>2
      <4>6. UnwrittenUnlessErasing'
        <5> SUFFICES ASSUME connected, NEW t \in Tables, NEW i \in DOMAIN records'[t]
                     PROVE  \/ records'[t][i] \cap Written(t) = {}
                            \/ \E w \in Threads : Erasing(w, t) /\ it[w] = i
          BY <2>2 DEF UnwrittenUnlessErasing, Written, Erasing
        <5>1. CASE t # u
          BY <4>1, <5>1 DEF UnwrittenUnlessErasing
        <5>2. CASE t = u /\ i \in DOMAIN records[u]
          BY <2>1, <4>2, <5>2 DEF UnwrittenUnlessErasing
        <5>3. CASE t = u /\ i = Len(records[u]) + 1
          BY <2>1, <2>3, <4>2, <5>3 DEF Fresh
        <5> QED
          BY <4>2, <5>1, <5>2, <5>3
      <4> QED
        BY <2>3, <4>4, <4>5, <4>6
    <3> QED
      BY <3>2, <3>3, <3>4
  <2> QED
    BY <1>2, <2>4, <2>5 DEF FlushPush
<1>6. ASSUME FlushClear PROVE OnceInv'
  <2> DEFINE u == FlushOrder[at]
  <2>1. UNCHANGED <<records, connected, executed, pc, table, it>> /\ u \in Tables
    BY <1>6, AtTable DEF FlushClear, lists, workers, server, IInv
  <2>2. requests'[u] = {} /\ \A t \in Tables \ {u} : requests'[t] = requests[t]
    BY <1>6, <2>1 DEF FlushClear, IInv, TypeOK
  <2>3. \A t \in Tables \ {u} : Fresh(t)
    BY DEF BuffersFresh, Clearing
  <2>4. BuffersFresh'
    BY <2>1, <2>2, <2>3 DEF BuffersFresh, Fresh, Waiting, Written
  <2> QED
    BY <2>1, <2>4 DEF BatchesApart, UnwrittenUnlessErasing, AtMostOnce, Erasing, Written
<1>3. ASSUME FlushSpawn PROVE OnceInv'
  <2>1. UNCHANGED <<requests, records, connected, executed, it>>
    BY <1>3 DEF FlushSpawn, handler, lists, server
  <2>2. \A w \in Threads, t \in Tables : Erasing(w, t) => Erasing(w, t)'
    BY <1>3 DEF FlushSpawn, Erasing, IInv, TypeOK
  <2>3. UnwrittenUnlessErasing'
    BY <2>1, <2>2 DEF UnwrittenUnlessErasing, Written
  <2>4. \A t \in Tables : Fresh(t)
    BY <1>3 DEF FlushSpawn, BuffersFresh, Clearing
  <2>5. BuffersFresh'
    BY <2>1, <2>4 DEF BuffersFresh, Fresh, Waiting, Written
  <2> QED
    BY <2>1, <2>3, <2>5 DEF BatchesApart, AtMostOnce
<1>4. ASSUME Disconnect PROVE OnceInv'
  <2>1. UNCHANGED <<requests, records, pc, table, it>> /\ connected' = FALSE
    BY <1>4 DEF Disconnect, handler, lists, workers
  <2>2. \A t \in Tables : Written(t)' = Written(t)
    BY <1>4, DisconnectWritesNothing DEF IInv
  <2>3. AtMostOnce'
    <3>1. CASE executed' = executed
      BY <3>1 DEF AtMostOnce
    <3>2. CASE executed' = Append(executed, Statement("reset", {}))
      BY <3>2, ExecuteKeepsAtMostOnce DEF IInv
    <3>3. executed' = executed \/ executed' = Append(executed, Statement("reset", {}))
      BY <1>4 DEF Disconnect, ResetStatement
    <3> QED
      BY <3>1, <3>2, <3>3
  <2>4. BuffersFresh'
    BY <1>4, <2>1, <2>2 DEF Disconnect, BuffersFresh, Fresh, Clearing, Waiting
  <2>5. UnwrittenUnlessErasing'
    BY <2>1 DEF UnwrittenUnlessErasing
  <2> QED
    BY <2>1, <2>3, <2>4, <2>5 DEF BatchesApart
<1>5. ASSUME FlushTimer \/ Signal \/ ExitStopped \/ ExitOnException PROVE OnceInv'
  <2>1. UNCHANGED <<requests, records, connected, executed, pc, table, it>>
    BY <1>5 DEF FlushTimer, Signal, ExitStopped, ExitOnException,
                handler, lists, workers, server
  <2>2. \A t \in Tables : ~Clearing(t)
    BY <1>5 DEF FlushTimer, Signal, ExitStopped, ExitOnException, Clearing
  <2> QED
    BY <2>1, <2>2 DEF BuffersFresh, Fresh, BatchesApart, UnwrittenUnlessErasing, AtMostOnce,
                      Waiting, Written, Erasing
<1> QED
  BY <1>1, <1>2, <1>3, <1>4, <1>5, <1>6 DEF MainStep

\* A statement that is executed was not executed before.
LEMMA ThreadKeepsOnceInv ==
  ASSUME IInv, OnceInv, NEW w \in Threads, ThreadStep(w) PROVE OnceInv'
<1> USE DEF OnceInv
<1>1. CASE Lock(w) \/ Issue(w) \/ Finish(w) \/ QueryRefused(w) \/ QueryUnsent(w)
  <2>1. UNCHANGED <<requests, records, connected, executed, table, step, at>>
    BY <1>1 DEF Lock, Issue, Finish, QueryRefused, QueryUnsent, StepOver,
                handler, lists, main, server
  <2>2. \A v \in Threads, t \in Tables : Erasing(v, t) => Erasing(v, t)' /\ it'[v] = it[v]
    BY <1>1 DEF Lock, Issue, Finish, QueryRefused, QueryUnsent, StepOver, Erasing, IInv, TypeOK
  <2>3. UnwrittenUnlessErasing'
    BY <2>1, <2>2 DEF UnwrittenUnlessErasing, Written
  <2> QED
    BY <2>1, <2>3 DEF BuffersFresh, Fresh, Clearing, BatchesApart, AtMostOnce, Waiting, Written
<1>2. CASE QueryOk(w) \/ LinkBreaks(w)
  <2> DEFINE u == table[w]
  <2>1. /\ pc[w] = "query" /\ u \in Tables /\ Current(w) \in SUBSET Rows
        /\ it[w] \in DOMAIN records[u] /\ connected
    BY <1>2, CurrentType, LenProperties DEF QueryOk, LinkBreaks
  <2>2. UNCHANGED <<requests, records, table, step, at>>
    BY <1>2 DEF QueryOk, LinkBreaks, StepOver, handler, lists, main
  <2>3. \A v \in Threads : pc[v] # "erase"
    BY <2>1 DEF IInv, LockInv, InList
  <2>4. \A i \in DOMAIN records[u] : records[u][i] \cap Written(u) = {}
    BY <2>1, <2>3 DEF UnwrittenUnlessErasing, Erasing
  <2>5. Current(w) \cap Written(u) = {} /\ Current(w) \subseteq Waiting(u)
    BY <2>1, <2>4 DEF Current, Waiting, RowsIn
  <2>6. CASE executed' = executed
    <3>1. ~connected'
      BY <1>2, <2>6 DEF QueryOk, LinkBreaks, IInv, TypeOK
    <3> QED
      BY <2>2, <2>6, <3>1
         DEF BuffersFresh, Fresh, Clearing, BatchesApart, UnwrittenUnlessErasing, AtMostOnce,
             Waiting, Written
  <2>7. CASE executed' = Append(executed, Statement(u, Current(w)))
    <3>1. AtMostOnce'
      BY <2>1, <2>5, <2>7, ExecuteKeepsAtMostOnce DEF IInv, Written
    <3>2. ASSUME NEW t \in Tables
          PROVE  Written(t)' = Written(t) \cup (IF u = t THEN Current(w) ELSE {})
      BY <2>1, <2>7, ExecuteWrites DEF IInv
    <3>3. BuffersFresh'
      <4> SUFFICES ASSUME NEW t \in Tables, ~Clearing(t)
                   PROVE  /\ requests[t] \cap Waiting(t) = {}
                          /\ requests[t] \cap RowsOf(executed', t) = {}
        BY <2>2 DEF BuffersFresh, Fresh, Clearing, Waiting, Written
      <4> QED
        BY <2>5, <3>2 DEF BuffersFresh, Fresh, Written
    <3>4. BatchesApart'
      BY <2>2 DEF BatchesApart
    <3>5. UnwrittenUnlessErasing'
      <4>1. CASE LinkBreaks(w)
        BY <4>1 DEF LinkBreaks, UnwrittenUnlessErasing
      <4>2. CASE QueryOk(w)
        <5>1. it' = it /\ pc'[w] = "erase"
          BY <4>2 DEF QueryOk, IInv, TypeOK
        <5> SUFFICES ASSUME NEW t \in Tables, NEW i \in DOMAIN records[t]
                     PROVE  \/ records[t][i] \cap RowsOf(executed', t) = {}
                            \/ \E v \in Threads : (Erasing(v, t) /\ it[v] = i)'
          BY <2>2 DEF UnwrittenUnlessErasing, Written, Erasing
        <5>2. RowsOf(executed', t) = Written(t) \cup (IF u = t THEN Current(w) ELSE {})
          BY <3>2 DEF Written
        <5>3. records[t][i] \cap Written(t) = {}
          BY <2>1, <2>3 DEF UnwrittenUnlessErasing, Erasing
        <5>4. CASE t # u
          BY <5>2, <5>3, <5>4
        <5>5. CASE t = u /\ i # it[w]
          <6>1. records[u][i] \cap Current(w) = {}
            BY <2>1, <5>5 DEF BatchesApart, Current
          <6> QED
            BY <5>2, <5>3, <5>5, <6>1
        <5>6. CASE t = u /\ i = it[w]
          BY <2>2, <5>1, <5>6 DEF Erasing
        <5> QED
          BY <5>4, <5>5, <5>6
      <4> QED
        BY <1>2, <4>1, <4>2
    <3> QED
      BY <3>1, <3>3, <3>4, <3>5
  <2> QED
    BY <1>2, <2>6, <2>7 DEF QueryOk, LinkBreaks
<1>3. CASE Erase(w)
  <2> DEFINE u == table[w]
             list == records[u]
  <2>1. /\ pc[w] = "erase" /\ u \in Tables
        /\ list \in Seq(SUBSET Rows) /\ it[w] \in DOMAIN list
    BY <1>3, CurrentType DEF Erase, IInv, IteratorValid
  <2>2. UNCHANGED <<requests, connected, executed, table, it, step, at>>
    BY <1>3 DEF Erase, handler, main, server
  <2>3. records'[u] = Without(list, it[w])
    BY <1>3, <2>1 DEF Erase, IInv, TypeOK
  <2>4. \A t \in Tables \ {u} : records'[t] = records[t]
    BY <1>3 DEF Erase, IInv, TypeOK
  <2>5. /\ RowsIn(records'[u]) \subseteq RowsIn(list)
        /\ \A j \in DOMAIN records'[u] :
             /\ Before(it[w], j) \in DOMAIN list
             /\ Before(it[w], j) # it[w]
             /\ records'[u][j] = list[Before(it[w], j)]
        /\ \A j, k \in DOMAIN records'[u] : Before(it[w], j) = Before(it[w], k) => j = k
    BY <2>1, <2>3, RowsInWithout
  <2>6. \A v \in Threads : pc[v] = "erase" => v = w
    BY <2>1 DEF IInv, LockInv, InList
  <2>7. AtMostOnce'
    BY <2>2 DEF AtMostOnce
  <2>8. BuffersFresh'
    <3>1. \A t \in Tables : RowsIn(records'[t]) \subseteq RowsIn(records[t])
      BY <2>4, <2>5
    <3> QED
      BY <2>2, <3>1 DEF BuffersFresh, Fresh, Clearing, Waiting, Written
  <2>9. BatchesApart'
    <3>1. \A j, k \in DOMAIN records'[u] :
            /\ records'[u][j] # {}
            /\ j # k => records'[u][j] \cap records'[u][k] = {}
      BY <2>1, <2>5 DEF BatchesApart
    <3> QED
      BY <2>4, <3>1 DEF BatchesApart
  <2>10. UnwrittenUnlessErasing'
    <3> SUFFICES ASSUME connected, NEW t \in Tables, NEW i \in DOMAIN records'[t]
                 PROVE  records'[t][i] \cap Written(t) = {}
      BY <2>2 DEF UnwrittenUnlessErasing, Written
    <3>1. CASE t # u
      BY <2>4, <2>6, <3>1 DEF UnwrittenUnlessErasing, Erasing
    <3>2. CASE t = u
      BY <2>1, <2>5, <2>6, <3>2 DEF UnwrittenUnlessErasing, Erasing
    <3> QED
      BY <3>1, <3>2
  <2> QED
    BY <2>7, <2>8, <2>9, <2>10
<1> QED
  BY <1>1, <1>2, <1>3 DEF ThreadStep

\* The invariant from which AtMostOnce follows.
LEMMA OnceInvHolds == ASSUME ~SignalSplits PROVE Spec => []OnceInv
<1>1. OnceInv /\ UNCHANGED vars => OnceInv'
  BY DEF OnceInv, BuffersFresh, Fresh, Clearing, BatchesApart, UnwrittenUnlessErasing,
         AtMostOnce, Waiting, Written, Erasing, vars
<1>2. OnceInv /\ IInv /\ AccountInv /\ [Next]_vars => OnceInv'
  BY <1>1, MainKeepsOnceInv, ThreadKeepsOnceInv DEF Next
<1> QED
  BY InitOnceInv, IInvHolds, AccountInvHolds, <1>2, PTL DEF Spec

\* No row is executed in two statements, however often errors make the threads
\* try a statement again, if no signal splits a push_back from its clear().
THEOREM NoRowTwice == ASSUME ~SignalSplits PROVE Spec => []AtMostOnce
<1>1. OnceInv => AtMostOnce
  BY DEF OnceInv
<1> QED
  BY OnceInvHolds, <1>1, PTL

-----------------------------------------------------------------------------
(* Stopping: the flush that a signal starts leaves no buffer behind, and   *)
(* no statement without a thread.                                          *)

\* A statement that waits has met an error, or has a thread to come, or is one
\* the race made the list's size forget.
Covered(t) ==
  \A i \in DOMAIN records[t] :
    \/ records[t][i] \in retried[t]
    \/ \E w \in Threads : Reaching(w, t, i)
    \/ RacyLists /\ size[t] < Len(records[t])

Handed(t) == requests[t] = {} /\ Covered(t)

\* Only the race makes size() differ from the length of a list.
SizeInv == ~RacyLists => severed = {} /\ \A t \in Tables : size[t] = Len(records[t])

\* Nothing is recorded once the signal came, and the flush it started has
\* handed over the tables it has passed.
StopInv ==
  /\ stopping => step # "loop"
  /\ stopping /\ step \in {"push", "clear", "spawn"} =>
       \A k \in 1 .. at - 1 : Handed(FlushOrder[k])
  /\ stopping /\ step = "spawn" => requests[FlushOrder[at]] = {}
  /\ ~stopping => step \notin {"reset", "closed"}
  /\ step \in {"reset", "closed"} => \A t \in Tables : Handed(t)
  /\ SizeInv

\* At the start no signal has come, and the lists are empty.
LEMMA InitStopInv == Init => StopInv
BY DEF Init, StopInv, SizeInv

\* What Handed says of a table is about its lists and the threads.
LEMMA HandedKept ==
  ASSUME NEW t, Handed(t), requests'[t] = {}, records'[t] = records[t], size'[t] = size[t],
         retried' = retried,
         \A w \in Threads, i \in DOMAIN records[t] : Reaching(w, t, i) => Reaching(w, t, i)'
  PROVE  Handed(t)'
BY DEF Handed, Covered

\* The same, when only the step of the main thread or a buffer changes.
LEMMA HandedStays ==
  ASSUME NEW t, Handed(t), requests'[t] = {}, UNCHANGED <<lists, workers, server>>
  PROVE  Handed(t)'
BY DEF Handed, Covered, Reaching, InList, lists, workers, server

\* Pushing a batch on one list keeps its size right, without the race.
LEMMA PushKeepsSize ==
  ASSUME TypeOK, SizeInv, FlushPush PROVE SizeInv'
<1> DEFINE t == FlushOrder[at]
<1> SUFFICES ASSUME ~RacyLists PROVE severed' = {} /\ \A u \in Tables : size'[u] = Len(records'[u])
  BY DEF SizeInv
<1>1. t \in Tables
  BY AtTable
<1>2. CASE UNCHANGED lists
  BY <1>2 DEF SizeInv, lists
<1>3. CASE Append1(t, requests[t])
  <2>1. /\ severed' = {} /\ size' = [size EXCEPT ![t] = size[t] + 1]
        /\ records' = [records EXCEPT ![t] = Append(records[t], requests[t])]
    BY <1>3 DEF Append1, SizeInv
  <2>2. Len(Append(records[t], requests[t])) = Len(records[t]) + 1
    BY <1>1, AppendProperties DEF TypeOK
  <2> QED
    BY <1>1, <2>1, <2>2 DEF TypeOK, SizeInv
<1> QED
  BY <1>2, <1>3 DEF FlushPush, AppendDuringErase

\* When flush() moves on, the table it leaves has been handed over: either a
\* thread has all of its list before it, or the list says it is empty.
LEMMA SpawnHands ==
  ASSUME IInv, StopInv, FlushSpawn, NEW t \in Tables,
         Handed(t) \/ (t = FlushOrder[at] /\ requests[t] = {})
  PROVE  Handed(t)'
<1>1. /\ UNCHANGED <<requests, records, size, retried, it>>
      /\ \/ size[FlushOrder[at]] = 0 /\ UNCHANGED <<pc, table>>
         \/ \E w \in Threads : /\ pc[w] = "idle"
                               /\ pc' = [pc EXCEPT ![w] = "start"]
                               /\ table' = [table EXCEPT ![w] = FlushOrder[at]]
  BY DEF FlushSpawn, handler, lists, server
<1>2. CASE size[FlushOrder[at]] = 0 /\ UNCHANGED <<pc, table>>
  <2>1. CASE Handed(t)
    BY <1>1, <1>2, <2>1, HandedKept DEF Handed, Reaching, InList
  <2>2. CASE t = FlushOrder[at] /\ requests[t] = {}
    <3>1. ASSUME NEW i \in DOMAIN records[t] PROVE RacyLists /\ size[t] < Len(records[t])
      <4>1. Len(records[t]) \in Nat /\ i \in 1 .. Len(records[t])
        BY LenProperties DEF IInv, TypeOK
      <4>2. ~RacyLists => size[t] = Len(records[t])
        BY DEF StopInv, SizeInv
      <4> QED
        BY <1>2, <2>2, <4>1, <4>2, ConstantsAssumption
    <3> QED
      BY <1>1, <2>2, <3>1 DEF Handed, Covered
  <2> QED
    BY <2>1, <2>2
<1>3. ASSUME NEW w \in Threads, pc[w] = "idle", pc' = [pc EXCEPT ![w] = "start"],
             table' = [table EXCEPT ![w] = FlushOrder[at]]
      PROVE  Handed(t)'
  <2>1. CASE Handed(t)
    <3>1. \A i : \A v \in Threads : Reaching(v, t, i) => Reaching(v, t, i)'
      BY <1>1, <1>3 DEF Reaching, InList, IInv, TypeOK
    <3> QED
      BY <1>1, <2>1, <3>1, HandedKept DEF Handed
  <2>2. CASE t = FlushOrder[at] /\ requests[t] = {}
    <3>1. table'[w] = t /\ pc'[w] = "start"
      BY <1>3, <2>2 DEF IInv, TypeOK
    <3> QED
      BY <1>1, <2>2, <3>1 DEF Handed, Covered, Reaching
  <2> QED
    BY <2>1, <2>2
<1> QED
  BY <1>1, <1>2, <1>3

\* So a table passed stays handed over, and so are all of them in the end.
LEMMA SpawnKeepsStopInv ==
  ASSUME IInv, StopInv, FlushSpawn PROVE StopInv'
<1>1. stopping' = stopping /\ step = "spawn" /\ UNCHANGED lists
  BY DEF FlushSpawn
<1>2. at \in 1 .. Len(FlushOrder) /\ Len(FlushOrder) \in Nat
      /\ \A k \in 1 .. at : FlushOrder[k] \in Tables
  BY ConstantsAssumption, LenProperties DEF IInv, TypeOK, Tables
<1>3. ASSUME stopping, NEW k \in 1 .. at PROVE Handed(FlushOrder[k])'
  <2>1. FlushOrder[k] \in Tables /\ (k \in 1 .. at - 1 \/ k = at)
    BY <1>2
  <2>2. Handed(FlushOrder[k]) \/ (k = at /\ requests[FlushOrder[k]] = {})
    BY <1>1, <1>3, <2>1 DEF StopInv
  <2> QED
    BY <2>1, <2>2, SpawnHands
<1>4. SizeInv'
  BY <1>1 DEF StopInv, SizeInv, lists
<1>5. CASE at < Len(FlushOrder)
  <2>1. at' = at + 1 /\ step' = "push"
    BY <1>2, <1>5 DEF FlushSpawn, Advance
  <2>2. \A k \in 1 .. at' - 1 : k \in 1 .. at
    BY <1>2, <2>1
  <2>3. stopping' => \A k \in 1 .. at' - 1 : Handed(FlushOrder[k])'
    BY <1>1, <1>3, <2>2
  <2> QED
    BY <1>4, <2>1, <2>3 DEF StopInv
<1>6. CASE at = Len(FlushOrder)
  <2>1. step' = IF stopping THEN "reset" ELSE "loop"
    BY <1>2, <1>6 DEF FlushSpawn, Advance
  <2>2. DOMAIN FlushOrder = 1 .. at
    BY <1>6, ConstantsAssumption, LenProperties
  <2>3. stopping => \A t \in Tables : Handed(t)'
    BY <1>3, <2>2 DEF Tables
  <2> QED
    BY <1>1, <1>4, <2>1, <2>3 DEF StopInv
<1> QED
  BY <1>2, <1>5, <1>6

\* No step of the main thread disturbs it: a second flush() starts over when the
\* signal interrupts a first one.
LEMMA MainKeepsStopInv ==
  ASSUME IInv, StopInv, MainStep PROVE StopInv'
<1>1. ASSUME NEW t \in Tables, Record(t) PROVE StopInv'
  BY <1>1 DEF Record, main, lists, StopInv, SizeInv
<1>2. CASE FlushTimer
  BY <1>2 DEF FlushTimer, lists, StopInv, SizeInv
<1>3. CASE FlushPush
  <2>1. requests' = requests /\ stopping' = stopping /\ at' = at /\ step = "push"
        /\ UNCHANGED <<workers, server>>
    BY <1>3 DEF FlushPush, handler
  <2>2. step' = "clear" \/ (step' = "spawn" /\ requests[FlushOrder[at]] = {})
    BY <1>3 DEF FlushPush
  <2>3. SizeInv'
    BY <1>3, PushKeepsSize DEF IInv, StopInv
  <2>4. ASSUME stopping, NEW k \in 1 .. at - 1 PROVE Handed(FlushOrder[k])'
    <3>1. Handed(FlushOrder[k]) /\ FlushOrder[k] \in Tables
      BY <2>1, <2>4, ConstantsAssumption, LenProperties DEF StopInv, IInv, TypeOK, Tables
    <3>2. records'[FlushOrder[k]] = records[FlushOrder[k]]
          /\ size'[FlushOrder[k]] = size[FlushOrder[k]]
      <4>1. CASE requests[FlushOrder[at]] = {}
        BY <1>3, <4>1 DEF FlushPush, lists
      <4>2. CASE requests[FlushOrder[at]] # {}
        <5>1. FlushOrder[k] # FlushOrder[at]
          BY <3>1, <4>2 DEF Handed
        <5> QED
          BY <1>3, <3>1, <5>1 DEF FlushPush, Append1, AppendDuringErase, lists, IInv, TypeOK
      <4> QED
        BY <4>1, <4>2
    <3> QED
      BY <2>1, <3>1, <3>2, HandedKept DEF Handed, Reaching, InList, workers, server
  <2> QED
    BY <2>1, <2>2, <2>3, <2>4 DEF StopInv
<1>4. CASE FlushClear
  <2>1. /\ stopping' = stopping /\ at' = at /\ step = "clear" /\ step' = "spawn"
        /\ requests' = [requests EXCEPT ![FlushOrder[at]] = {}]
        /\ UNCHANGED <<lists, workers, server>>
    BY <1>4 DEF FlushClear
  <2>2. DOMAIN requests = Tables /\ FlushOrder[at] \in Tables
    BY AtTable DEF IInv, TypeOK
  <2>3. ASSUME stopping, NEW k \in 1 .. at - 1 PROVE Handed(FlushOrder[k])'
    <3>1. Handed(FlushOrder[k]) /\ FlushOrder[k] \in Tables
      BY <2>1, <2>3, ConstantsAssumption, LenProperties DEF StopInv, IInv, TypeOK, Tables
    <3>2. requests'[FlushOrder[k]] = {}
      BY <2>1, <2>2, <3>1 DEF Handed
    <3> QED
      BY <2>1, <3>1, <3>2, HandedStays
  <2>4. SizeInv'
    BY <2>1 DEF StopInv, SizeInv, lists
  <2> QED
    BY <2>1, <2>2, <2>3, <2>4 DEF StopInv
<1>5. CASE Signal
  <2>1. step' = "push" /\ at' = 1 /\ UNCHANGED lists
    BY <1>5 DEF Signal
  <2> QED
    BY <2>1 DEF StopInv, SizeInv, lists
<1>6. CASE Disconnect
  <2>1. step = "reset" /\ step' = "closed"
        /\ UNCHANGED <<stopping, requests, lists, workers, retried>>
    BY <1>6 DEF Disconnect, handler
  <2>2. \A t \in Tables : Handed(t)'
    BY <2>1, HandedKept DEF StopInv, Handed, Reaching, InList, lists, workers
  <2> QED
    BY <2>1, <2>2 DEF StopInv, SizeInv, lists
<1>7. CASE ExitStopped \/ ExitOnException
  BY <1>7 DEF ExitStopped, ExitOnException, lists, StopInv, SizeInv
<1> QED
  BY <1>1, <1>2, <1>3, <1>4, <1>5, <1>6, <1>7, SpawnKeepsStopInv DEF MainStep

\* A thread works through its list one statement at a time: what it leaves
\* behind it has been erased or has met an error.
LEMMA ThreadCovers ==
  ASSUME IInv, NEW w \in Threads, ThreadStep(w), NEW t \in Tables, Covered(t)
  PROVE  Covered(t)'
<1>1. CASE Lock(w) \/ Issue(w) \/ QueryOk(w) \/ Finish(w)
  <2>1. UNCHANGED <<lists, retried, table>>
    BY <1>1 DEF Lock, Issue, QueryOk, Finish, server
  <2>2. ASSUME NEW v \in Threads, NEW i \in DOMAIN records[t], Reaching(v, t, i)
        PROVE  Reaching(v, t, i)'
    <3>1. i \in 1 .. Len(records[t]) /\ Len(records[t]) \in Nat
      BY LenProperties DEF IInv, TypeOK
    <3>2. CASE v # w
      BY <1>1, <2>2, <3>2 DEF Lock, Issue, QueryOk, Finish, Reaching, InList, IInv, TypeOK
    <3>3. CASE v = w
      BY <1>1, <2>2, <3>1, <3>3
         DEF Lock, Issue, QueryOk, Finish, Reaching, InList, IInv, TypeOK
    <3> QED
      BY <3>2, <3>3
  <2> QED
    BY <2>1, <2>2 DEF Covered, lists
<1>2. CASE QueryRefused(w) \/ LinkBreaks(w) \/ QueryUnsent(w)
  <2>1. /\ pc[w] = "query" /\ UNCHANGED <<lists, table>>
        /\ retried' = [retried EXCEPT ![table[w]] = retried[table[w]] \cup {Current(w)}]
        /\ it' = [it EXCEPT ![w] = it[w] + 1] /\ pc' = [pc EXCEPT ![w] = "walk"]
    BY <1>2 DEF QueryRefused, LinkBreaks, QueryUnsent, StepOver
  <2>2. retried[t] \subseteq retried'[t]
    BY <2>1 DEF IInv, TypeOK
  <2>3. ASSUME NEW v \in Threads, NEW i \in DOMAIN records[t], Reaching(v, t, i)
        PROVE  Reaching(v, t, i)' \/ records[t][i] \in retried'[t]
    <3>1. i \in Nat
      BY LenProperties DEF IInv, TypeOK
    <3>2. CASE v # w
      BY <2>1, <2>3, <3>2 DEF Reaching, InList, IInv, TypeOK
    <3>3. CASE v = w /\ i = it[w]
      BY <2>1, <2>3, <3>3 DEF Reaching, Current, IInv, TypeOK
    <3>4. CASE v = w /\ i # it[w]
      BY <2>1, <2>3, <3>1, <3>4 DEF Reaching, InList, IInv, TypeOK
    <3> QED
      BY <3>2, <3>3, <3>4
  <2> QED
    BY <2>1, <2>2, <2>3 DEF Covered, lists
<1>3. CASE Erase(w)
  <2>1. /\ pc[w] = "erase" /\ table[w] \in Tables
        /\ records[table[w]] \in Seq(SUBSET Rows) /\ it[w] \in DOMAIN records[table[w]]
    BY <1>3, CurrentType DEF Erase, IInv, IteratorValid
  <2>2. /\ UNCHANGED <<table, it, retried>> /\ pc' = [pc EXCEPT ![w] = "walk"]
        /\ records' = [records EXCEPT ![table[w]] = Without(records[table[w]], it[w])]
        /\ size' = [size EXCEPT ![table[w]] = size[table[w]] - 1]
    BY <1>3 DEF Erase, server
  <2>3. \A v \in Threads \ {w} : ~InList(v)
    BY <2>1 DEF IInv, LockInv, InList
  <2>4. CASE t # table[w]
    <3>1. records'[t] = records[t] /\ size'[t] = size[t]
      BY <2>2, <2>4 DEF IInv, TypeOK
    <3>2. \A v \in Threads, i \in DOMAIN records[t] : Reaching(v, t, i) => Reaching(v, t, i)'
      BY <2>2, <2>4 DEF Reaching, InList, IInv, TypeOK
    <3> QED
      BY <2>2, <3>1, <3>2 DEF Covered
  <2>5. CASE t = table[w]
    <3> DEFINE n == Len(records[t])
    <3>1. n \in Nat /\ DOMAIN records[t] = 1 .. n /\ it[w] \in 1 .. n
      BY <2>1, <2>5, LenProperties
    <3>2. /\ records'[t] = Without(records[t], it[w]) /\ size'[t] = size[t] - 1
          /\ size[t] \in Int
      BY <2>1, <2>2, <2>5 DEF IInv, TypeOK
    <3>3. Len(records'[t]) = n - 1 /\ DOMAIN records'[t] = 1 .. n - 1
      BY <2>1, <2>5, <3>2, WithoutType
    <3>4. ASSUME NEW i \in DOMAIN records'[t]
          PROVE  \/ records'[t][i] \in retried'[t]
                 \/ \E v \in Threads : Reaching(v, t, i)'
                 \/ RacyLists /\ size'[t] < Len(records'[t])
      <4> DEFINE j == IF i < it[w] THEN i ELSE i + 1
      <4>1. i \in Nat /\ i \in 1 .. n - 1 /\ j \in DOMAIN records[t] /\ j # it[w]
        BY <3>1, <3>3
      <4>2. records'[t][i] = records[t][j]
        BY <3>2, <3>3, <4>1 DEF Without
      <4>3. CASE records[t][j] \in retried[t]
        BY <2>2, <4>2, <4>3
      <4>4. CASE RacyLists /\ size[t] < n
        BY <3>1, <3>2, <3>3, <4>4
      <4>5. ASSUME NEW v \in Threads, Reaching(v, t, j) PROVE Reaching(v, t, i)'
        <5>1. CASE v = w
          <6>1. it[w] <= j
            BY <2>1, <4>5, <5>1 DEF Reaching
          <6>2. it[w] <= i
            BY <3>1, <4>1, <6>1
          <6> QED
            BY <2>2, <2>5, <5>1, <6>2 DEF Reaching, InList, IInv, TypeOK
        <5>2. CASE v # w
          BY <2>2, <2>3, <4>5, <5>2 DEF Reaching, IInv, TypeOK
        <5> QED
          BY <5>1, <5>2
      <4> HIDE DEF j
      <4> QED
        BY <4>1, <4>3, <4>4, <4>5 DEF Covered
    <3> QED
      BY <3>4 DEF Covered
  <2> QED
    BY <2>4, <2>5
<1> QED
  BY <1>1, <1>2, <1>3 DEF ThreadStep

\* The flush threads touch neither the buffers nor the main thread, and erase a
\* statement from the list and from its size.
LEMMA ThreadKeepsStopInv ==
  ASSUME IInv, StopInv, NEW w \in Threads, ThreadStep(w) PROVE StopInv'
<1>1. UNCHANGED <<handler, main, severed>>
  BY DEF ThreadStep, Lock, Issue, Finish, Erase, QueryOk, QueryRefused,
         LinkBreaks, QueryUnsent, StepOver, lists
<1>2. \A t \in Tables : Handed(t) => Handed(t)'
  BY <1>1, ThreadCovers DEF Handed, handler
<1>3. SizeInv'
  <2>1. CASE UNCHANGED lists
    BY <2>1 DEF StopInv, SizeInv, lists
  <2>2. CASE Erase(w)
    <3>1. /\ table[w] \in Tables /\ records[table[w]] \in Seq(SUBSET Rows)
          /\ it[w] \in DOMAIN records[table[w]]
      BY <2>2, CurrentType DEF Erase, IInv, IteratorValid
    <3>2. Len(Without(records[table[w]], it[w])) = Len(records[table[w]]) - 1
      BY <3>1, WithoutType
    <3>3. /\ records' = [records EXCEPT ![table[w]] = Without(records[table[w]], it[w])]
          /\ size' = [size EXCEPT ![table[w]] = size[table[w]] - 1]
      BY <2>2 DEF Erase
    <3> QED
      BY <1>1, <3>1, <3>2, <3>3 DEF StopInv, SizeInv, IInv, TypeOK
  <2> QED
    BY <2>1, <2>2 DEF ThreadStep, Lock, Issue, Finish, QueryOk, QueryRefused, LinkBreaks,
                      QueryUnsent, StepOver
<1>4. \A k \in 1 .. at - 1 : FlushOrder[k] \in Tables
  BY ConstantsAssumption, LenProperties DEF IInv, TypeOK, Tables
<1> QED
  BY <1>1, <1>2, <1>3, <1>4 DEF StopInv, handler, main

\* However the signal falls, when stop() closes the connection no row is left in
\* a buffer, and every statement that waits has met an error or is before a
\* thread flush() started for it, unless the race of push_back with erase has
\* cut it off or made size() forget it (mysql.cpp:38-41, 196-202, 389-403).
THEOREM StoppingHandsOver == Spec => []StopHandsOver
<1>1. IInv /\ StopInv /\ [Next]_vars => StopInv'
  <2>1. ASSUME StopInv, UNCHANGED vars PROVE StopInv'
    BY <2>1 DEF vars, StopInv, SizeInv, Handed, Covered, Reaching, InList
  <2> QED
    BY <2>1, MainKeepsStopInv, ThreadKeepsStopInv DEF Next
<1>2. StopInv /\ NothingLost => StopHandsOver
  BY DEF StopInv, NothingLost, Up, StopHandsOver, Handed, Covered
<1> QED
  BY InitStopInv, IInvHolds, NothingIsLost, <1>1, <1>2, PTL DEF Spec

-----------------------------------------------------------------------------
(* Refinement: every step is a step of Ledger or leaves its state alone.   *)

\* The tracker starts as Ledger does.
LEMMA InitImplements == Init => L!Init
BY DEF Init, L!Init, Up, ResetStatement, Statement, L!ResetStatement, L!Statement

\* A step that leaves recorded, the executed statements and the process alone.
LEMMA QuietImplements ==
  ASSUME recorded' = recorded, Up' = Up, executed' = executed
  PROVE  UNCHANGED L!vars
BY DEF L!vars

\* A step of the main thread is a Ledger step or a stutter.
LEMMA MainImplements ==
  ASSUME IInv, MainStep PROVE L!Next \/ UNCHANGED L!vars
<1>1. ASSUME NEW t \in Tables, Record(t) PROVE L!Next
  <2>1. L!Record(t)
    BY <1>1 DEF Record, L!Record, main, server, Up
  <2> QED
    BY <2>1 DEF L!Next
<1>2. ASSUME FlushTimer \/ FlushPush \/ FlushClear \/ FlushSpawn \/ Signal
      PROVE  UNCHANGED L!vars
  <2>1. recorded' = recorded /\ executed' = executed
    BY <1>2 DEF FlushTimer, FlushPush, FlushClear, FlushSpawn, Signal, handler, server
  <2>2. Up /\ Up'
    BY <1>2 DEF FlushTimer, FlushPush, FlushClear, FlushSpawn, Signal, Advance, Up
  <2> QED
    BY <2>1, <2>2, QuietImplements
<1>3. ASSUME Disconnect PROVE L!Next \/ UNCHANGED L!vars
  <2>1. recorded' = recorded /\ Up /\ Up'
    BY <1>3 DEF Disconnect, handler, Up
  <2>2. CASE executed' = executed
    BY <2>1, <2>2, QuietImplements
  <2>3. CASE executed' = Append(executed, ResetStatement)
    <3>1. L!Reset
      BY <2>1, <2>3 DEF L!Reset, ResetStatement, Statement, L!ResetStatement, L!Statement
    <3> QED
      BY <3>1 DEF L!Next
  <2> QED
    BY <1>3, <2>2, <2>3 DEF Disconnect
<1>4. ASSUME ExitStopped \/ ExitOnException PROVE L!Next
  <2>1. L!Down
    BY <1>4 DEF ExitStopped, ExitOnException, handler, server, Up, L!Down
  <2> QED
    BY <2>1 DEF L!Next
<1> QED
  BY <1>1, <1>2, <1>3, <1>4 DEF MainStep

\* So is a step of a flush thread: only an executed statement is visible.
LEMMA ThreadImplements ==
  ASSUME IInv, AccountInv, OnceInv, NEW w \in Threads, ThreadStep(w)
  PROVE  L!Next \/ UNCHANGED L!vars
<1>1. recorded' = recorded /\ Up' = Up /\ Up
  BY DEF ThreadStep, Lock, Issue, Finish, Erase, QueryOk, QueryRefused, LinkBreaks,
         QueryUnsent, StepOver, handler, main, Up
<1>2. CASE executed' = executed
  BY <1>1, <1>2, QuietImplements
<1>3. CASE QueryOk(w) \/ LinkBreaks(w)
  <2> DEFINE u == table[w]
  <2>1. /\ u \in Tables /\ Current(w) \in SUBSET Rows
        /\ it[w] \in DOMAIN records[u] /\ connected /\ pc[w] = "query"
    BY <1>3, CurrentType, LenProperties DEF QueryOk, LinkBreaks
  <2>2. CASE executed' = Append(executed, Statement(u, Current(w)))
    <3>1. Current(w) # {}
      BY <2>1 DEF OnceInv, BatchesApart, Current
    <3>2. Current(w) \cap L!Written(u) = {}
      <4>1. \A v \in Threads : pc[v] # "erase"
        BY <2>1 DEF IInv, LockInv, InList
      <4>2. L!Written(u) = Written(u)
        BY DEF Written, RowsOf, L!Written
      <4> QED
        BY <2>1, <4>1, <4>2 DEF OnceInv, UnwrittenUnlessErasing, Erasing, Current
    <3>3. Current(w) \subseteq 1 .. recorded[u]
      BY <2>1 DEF AccountInv, Accounted, Waiting, RowsIn, Current
    <3>4. L!Write(u, Current(w))
      BY <1>1, <2>1, <2>2, <3>1, <3>2, <3>3 DEF L!Write, Statement, L!Statement
    <3> QED
      BY <2>1, <3>3, <3>4 DEF L!Next
  <2> QED
    BY <1>2, <1>3, <2>2 DEF QueryOk, LinkBreaks
<1> QED
  BY <1>2, <1>3 DEF ThreadStep, Lock, Issue, Finish, Erase, QueryRefused, QueryUnsent, server

\* The write-behind layer keeps Ledger's promise: rows reach the database at
\* most once each, only after they were recorded and only while the process runs.
THEOREM ImplementsLedger == ASSUME ~SignalSplits PROVE Spec => LedgerImplemented
<1>1. IInv /\ AccountInv /\ OnceInv /\ [Next]_vars => [L!Next]_L!vars
  <2>1. UNCHANGED vars => UNCHANGED L!vars
    BY QuietImplements DEF vars, Up
  <2> QED
    BY <2>1, MainImplements, ThreadImplements DEF Next
<1> QED
  BY InitImplements, IInvHolds, AccountInvHolds, OnceInvHolds, <1>1, PTL
     DEF Spec, LedgerImplemented, L!Spec
==============================================================================
