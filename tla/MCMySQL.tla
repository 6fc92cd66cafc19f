------------------------------ MODULE MCMySQL ------------------------------
(* Two of the five tables: the code of the five is the same but for their   *)
(* names, and two are enough for threads of different tables to meet.       *)
EXTENDS MySQL, TLC

TwoTables == <<"users", "torrents">>
OneTable  == <<"torrents">>

\* The names of the threads are interchangeable.
ThreadSymmetry == Permutations(Threads)
=============================================================================
