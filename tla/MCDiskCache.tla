------------------------------ MODULE MCDiskCache ------------------------------
(***************************************************************************)
(* DiskCache for TLC: two keys, a budget of three bytes.                   *)
(***************************************************************************)
EXTENDS DiskCache, TLC

CONSTANTS k1, k2

\* k1 comes in one size; k2 fits beside it once and fills the budget once.
MCPayloads == {[key |-> k1, size |-> 2, rev |-> 0], [key |-> k2, size |-> 1, rev |-> 0],
               [key |-> k2, size |-> 2, rev |-> 1]}

\* One size per key; k2 alone is larger than the budget.
MCFixedSizes == {[key |-> k1, size |-> 2, rev |-> 0], [key |-> k1, size |-> 2, rev |-> 1],
                 [key |-> k2, size |-> 4, rev |-> 0]}

ThreadSymmetry == Permutations(Threads)
=============================================================================
