--------------------------- MODULE MCRdmaEndpoints ---------------------------
(***************************************************************************)
(* Small instances of RdmaEndpoints for TLC.                               *)
(***************************************************************************)
EXTENDS RdmaEndpoints

CONSTANTS p1, p2, a1, a2, e1, e2, s1, t1, t2

\* The first peer may come back with another address, which a fetch, a probe or gossip
\* brings; the second peer keeps its address.
SomeCommands ==
  {<<"fetch", p1, a1>>, <<"fetch", p1, a2>>, <<"health", p1, a2>>, <<"update", p1, a2>>,
   <<"fetch", p2, a1>>}
=============================================================================
