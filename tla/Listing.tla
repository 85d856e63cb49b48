------------------------------- MODULE Listing -------------------------------
(***************************************************************************)
(* How the lists of rows are made.  The queries that return several rows   *)
(* are read by Db.fold (fun row acc -> row :: acc): the rows come in the   *)
(* order of their ids, and each is put before those already read.          *)
(***************************************************************************)
EXTENDS Integers, Sequences

\* The ids of the rows that were selected from a table of n rows, as listed
LatestFirst(ids, n) ==
  LET read[i \in 0 .. n] ==
        IF i = 0 THEN << >>
        ELSE IF i \in ids THEN <<i>> \o read[i - 1] ELSE read[i - 1]
  IN  read[n]
=============================================================================
