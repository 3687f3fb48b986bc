------------------------------- MODULE LruCache -------------------------------
(***************************************************************************)
(* What the chunk cache promises, with no threads, lock, files or sequence *)
(* numbers: a set of keys with sizes, a recency order on them, and a byte  *)
(* budget.  A cache over its budget does nothing but drop its least        *)
(* recently used key, until it is within the budget again.                 *)
(***************************************************************************)
EXTENDS ByteCount

CONSTANTS Keys, Sizes, MaxBytes

VARIABLES
  size,    \* the keys held, with their sizes
  older    \* <<j, k>> : j was used less recently than k

lruVars == <<size, older>>

Init == size = EmptyMap /\ older = {}

OverBudget == TotalSize(size) > MaxBytes

\* The recency order with the keys of S taken out.
OlderWithout(S) == {p \in older : p[1] \notin S /\ p[2] \notin S}

\* The recency order with k as its most recent key.
OlderUsing(k) == OlderWithout({k}) \cup {<<j, k>> : j \in DOMAIN size \ {k}}

\* k is stored with n bytes and becomes the most recently used key.
Put(k, n) ==
  /\ ~OverBudget
  /\ size' = With(size, k, n)
  /\ older' = OlderUsing(k)

\* A key that is held is used.
Use(k) ==
  /\ ~OverBudget
  /\ k \in DOMAIN size
  /\ older' = OlderUsing(k)
  /\ UNCHANGED size

\* The caller gives up some keys.
Discard(S) ==
  /\ ~OverBudget
  /\ size' = Without(size, S)
  /\ older' = OlderWithout(S)

\* The only step of a cache over its budget: the least recently used key goes.
EvictOldest(k) ==
  /\ OverBudget
  /\ k \in DOMAIN size
  /\ \A j \in DOMAIN size \ {k} : <<k, j>> \in older
  /\ size' = Without(size, {k})
  /\ older' = OlderWithout({k})

\* The process restarts with an empty cache.
Reset == size' = EmptyMap /\ older' = {}

Next ==
  \/ \E k \in Keys, n \in Sizes : Put(k, n)
  \/ \E k \in Keys : Use(k) \/ EvictOldest(k)
  \/ \E S \in SUBSET Keys : Discard(S)
  \/ Reset

Spec == Init /\ [][Next]_lruVars
=============================================================================
