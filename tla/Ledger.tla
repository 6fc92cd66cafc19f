------------------------------- MODULE Ledger -------------------------------
(***************************************************************************)
(* What the write-behind half of the tracker promises the request handler: *)
(* every row handed to it while the process is up is in at most one of the *)
(* statements the database executes, whatever the order, the batching, the *)
(* threads and the retries in between.  MySQL.tla implements it            *)
(* (LedgerImplemented).                                                    *)
(***************************************************************************)
EXTENDS Naturals, Sequences

CONSTANT Tables     \* the database tables rows are recorded for

VARIABLES recorded, \* recorded[t]: rows of t handed over, numbered 1..recorded[t]
          log,      \* the statements the database executed, in order
          up        \* the process runs

vars == <<recorded, log, up>>

Statement(t, rows) == [table |-> t, rows |-> rows]
ResetStatement == Statement("reset", {})

\* The rows of t the database was given.
Written(t) == UNION {log[i].rows : i \in {j \in DOMAIN log : log[j].table = t}}

Init ==
  /\ recorded = [t \in Tables |-> 0]
  /\ log \in {<<>>, <<ResetStatement>>}
  /\ up = TRUE

\* The handler hands over one more row of table t.
Record(t) ==
  /\ up
  /\ recorded' = [recorded EXCEPT ![t] = @ + 1]
  /\ UNCHANGED <<log, up>>

\* One statement writes rows that were recorded and never written before.
Write(t, rows) ==
  /\ up
  /\ rows # {}
  /\ rows \subseteq (1 .. recorded[t]) \ Written(t)
  /\ log' = Append(log, Statement(t, rows))
  /\ UNCHANGED <<recorded, up>>

\* The tables that describe the running tracker are emptied.
Reset ==
  /\ up
  /\ log' = Append(log, ResetStatement)
  /\ UNCHANGED <<recorded, up>>

\* The process ends; what was not written is gone.
Down ==
  /\ up
  /\ up' = FALSE
  /\ UNCHANGED <<recorded, log>>

Next ==
  \/ \E t \in Tables :
       \/ Record(t)
       \/ \E rows \in SUBSET (1 .. recorded[t]) : Write(t, rows)
  \/ Reset
  \/ Down

Spec == Init /\ [][Next]_vars
=============================================================================
