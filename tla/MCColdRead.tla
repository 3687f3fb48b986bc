------------------------------ MODULE MCColdRead ------------------------------
(***************************************************************************)
(* Small instances of ColdRead for TLC.                                    *)
(***************************************************************************)
EXTENDS ColdRead, TLC

CONSTANTS n1, n2, n3, r1, r2, r3

MCNodes == {n1, n2, n3}
MCScore == n1 :> 1 @@ n2 :> 2 @@ n3 :> 3
MCHome == r1 :> n1 @@ r2 :> n2 @@ r3 :> n3
=============================================================================
