----------------------------- MODULE MCMembership -----------------------------
\* Three nodes and the seeds they are given.
EXTENDS Membership

CONSTANTS n1, n2, n3

\* Each joins through the next.
RingSeeds == [n \in Nodes |-> CASE n = n1 -> {n2} [] n = n2 -> {n3} [] n = n3 -> {n1}]
=============================================================================
