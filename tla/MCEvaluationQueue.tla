------------------------- MODULE MCEvaluationQueue -------------------------
(***************************************************************************)
(* Instances of EvaluationQueue for TLC. Tasks are ordered by creation, so *)
(* only the replicas are interchangeable, and SQLite names one of them.    *)
(***************************************************************************)
EXTENDS EvaluationQueue, TLC

Postgres == [scm : BOOLEAN, sqlite : {FALSE}, limit : {1}]
Sqlite   == [scm : {TRUE}, sqlite : {TRUE}, limit : {1}]

\* With two tasks the queue is full while one runs only where its limit is zero.
NoQueue  == [scm : {FALSE}, sqlite : {TRUE}, limit : {0}]

AllSites == Postgres \cup Sqlite \cup NoQueue
=============================================================================
