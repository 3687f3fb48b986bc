------------------------------- MODULE MCHydrate -------------------------------
(* Instances of Hydrate for TLC. *)
EXTENDS Hydrate

ThreeNodes == 1..3
Positions == 0..2

\* No blob; an empty one between one of one chunk and one of two, the last one short.
SmallListings == {<<>>, <<2, 0, 3>>}

\* The ring has up to three nodes, the other modes up to two.
SmallRequests ==
  {"default", "broadcast"} \X {{}, {1}} \cup {"ring"} \X {{}, {3}, {1, 3}}

\* The other node has its chunk already.
SomeWarm == {[NoWork EXCEPT ![1] = {1}]}

\* The coordinator's node keeps what it reads from peers in memory, the others on disk.
OneMemoryOnly == {2}
================================================================================
