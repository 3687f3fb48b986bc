----------------------------- MODULE MCPeerIndex -----------------------------
\* Two keys and their bits.
EXTENDS PeerIndex, TLC

CONSTANTS k1, k2, w1

\* A filter with k1 promises k2 too.
MCNestedBits == [k \in Keys |-> IF k = k1 THEN {1, 2} ELSE {2}]
=============================================================================
