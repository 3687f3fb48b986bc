------------------------------ MODULE MCFetcher ------------------------------
(***************************************************************************)
(* Small instances of Fetcher for TLC.                                     *)
(***************************************************************************)
EXTENDS Fetcher, TLC

CONSTANTS t1, t2, t3, k1

\* The callers are interchangeable.
TaskSymmetry == Permutations(Tasks)
=============================================================================
