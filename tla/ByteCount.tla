------------------------------ MODULE ByteCount ------------------------------
(***************************************************************************)
(* The total of the sizes of a finite map, without recursion: a map from   *)
(* keys to sizes holds one cell <<k, i>> for the i-th byte of k, and the   *)
(* bytes in use are the number of cells.                                   *)
(***************************************************************************)
EXTENDS Integers, FiniteSets, Functions

\* The bytes of a map from keys to sizes, one cell each.
Cells(size) == UNION {{k} \X (1..size[k]) : k \in DOMAIN size}

\* The sum of the sizes in the map.
TotalSize(size) == Cardinality(Cells(size))

\* The map that holds nothing.
EmptyMap == [x \in {} |-> x]

\* f without the keys of S.
Without(f, S) == Restrict(f, DOMAIN f \ S)

\* f with the value v at k, whether or not k was there.
With(f, k, v) == [x \in DOMAIN f \cup {k} |-> IF x = k THEN v ELSE f[x]]

\* u64::saturating_sub.
SatSub(a, b) == IF a >= b THEN a - b ELSE 0
=============================================================================
