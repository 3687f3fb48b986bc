---------------------------- MODULE DiskCacheProofs ----------------------------
(***************************************************************************)
(* Proofs about DiskCache for any threads, keys, payloads, budget and      *)
(* number of calls, and that it implements LruCache.                       *)
(***************************************************************************)
EXTENDS DiskCache, FiniteSetTheorems, TLAPS

(***************************************************************************)
(* What adding and removing keys does to the total size of a map.          *)
(***************************************************************************)

\* The map that holds nothing has no bytes.
LEMMA EmptyTotal == IsFiniteSet(Cells(EmptyMap)) /\ TotalSize(EmptyMap) = 0
<1>1. Cells(EmptyMap) = {}
  BY Zenon DEF Cells, EmptyMap
<1> QED
  BY <1>1, FS_EmptySet, Zenon DEF TotalSize

\* The cells of a key: as many as its size.
LEMMA KeyCells ==
  ASSUME NEW k, NEW n \in Nat
  PROVE  IsFiniteSet({k} \X (1..n)) /\ Cardinality({k} \X (1..n)) = n
<1>1. IsFiniteSet({k}) /\ Cardinality({k}) = 1
  BY FS_Singleton, Zenon
<1>2. IsFiniteSet(1..n) /\ Cardinality(1..n) = n
  BY FS_Interval
<1>3. /\ IsFiniteSet({k} \X (1..n))
      /\ Cardinality({k} \X (1..n)) = Cardinality({k}) * Cardinality(1..n)
  BY <1>1, <1>2, FS_Product, Zenon
<1>4. 1 * n = n
  OBVIOUS
<1> QED
  BY <1>1, <1>2, <1>3, <1>4, Zenon

\* A map is split by any set of keys, and its total with it: the identity
\* behind every subtraction from the cache's byte count.
LEMMA SplitTotal ==
  ASSUME NEW f, NEW S, IsFiniteSet(Cells(f))
  PROVE  /\ IsFiniteSet(Cells(Without(f, S)))
         /\ IsFiniteSet(Cells(Restrict(f, S \cap DOMAIN f)))
         /\ TotalSize(f) \in Nat
         /\ TotalSize(Without(f, S)) \in Nat
         /\ TotalSize(Restrict(f, S \cap DOMAIN f)) \in Nat
         /\ TotalSize(f) = TotalSize(Without(f, S)) + TotalSize(Restrict(f, S \cap DOMAIN f))
<1> DEFINE A == Cells(Without(f, S))
           B == Cells(Restrict(f, S \cap DOMAIN f))
<1>1. Cells(f) = A \cup B
  BY Zenon DEF Cells, Without, Restrict
<1>2. A \cap B = {}
  BY DEF Cells, Without, Restrict
<1>3. IsFiniteSet(A) /\ IsFiniteSet(B)
  BY <1>1, FS_Subset, Zenon
<1> HIDE DEF A, B
<1>4. Cardinality(A \cup B) = Cardinality(A) + Cardinality(B) - Cardinality(A \cap B)
  BY <1>3, FS_Union, Zenon
<1>6. Cardinality(A \cap B) = 0
  BY <1>2, FS_EmptySet, Zenon
<1>5. Cardinality(A) \in Nat /\ Cardinality(B) \in Nat /\ Cardinality(Cells(f)) \in Nat
  BY <1>3, FS_CardinalityType, Zenon
<1> QED
  BY <1>1, <1>3, <1>4, <1>5, <1>6 DEF TotalSize, A, B

\* Removing one key takes its size off the total.
LEMMA RemoveTotal ==
  ASSUME NEW f, IsFiniteSet(Cells(f)), NEW k \in DOMAIN f, f[k] \in Nat
  PROVE  /\ IsFiniteSet(Cells(Without(f, {k})))
         /\ TotalSize(Without(f, {k})) \in Nat
         /\ TotalSize(f) = TotalSize(Without(f, {k})) + f[k]
<1>1. Cells(Restrict(f, {k} \cap DOMAIN f)) = {k} \X (1..f[k])
  BY Zenon DEF Cells, Restrict
<1>2. TotalSize(Restrict(f, {k} \cap DOMAIN f)) = f[k]
  BY <1>1, KeyCells, Zenon DEF TotalSize
<1> QED
  BY <1>2, SplitTotal, Zenon

\* Adding a key that was not there puts its size on the total.
LEMMA AddTotal ==
  ASSUME NEW f, IsFiniteSet(Cells(f)), NEW k, k \notin DOMAIN f, NEW n \in Nat
  PROVE  /\ IsFiniteSet(Cells(With(f, k, n)))
         /\ TotalSize(With(f, k, n)) = TotalSize(f) + n
<1> DEFINE g == With(f, k, n)
           B == {k} \X (1..n)
<1>1. Cells(g) = Cells(f) \cup B
  BY Zenon DEF Cells, With
<1>2. Cells(f) \cap B = {}
  BY DEF Cells
<1>3. IsFiniteSet(B) /\ Cardinality(B) = n
  BY KeyCells, Zenon
<1>4. Cardinality(Cells(f)) \in Nat
  BY FS_CardinalityType, Zenon
<1> HIDE DEF B
<1>5. /\ IsFiniteSet(Cells(f) \cup B)
      /\ Cardinality(Cells(f) \cup B)
           = Cardinality(Cells(f)) + Cardinality(B) - Cardinality(Cells(f) \cap B)
  BY <1>3, FS_Union, Zenon
<1>6. Cardinality(Cells(f) \cap B) = 0
  BY <1>2, FS_EmptySet, Zenon
<1> QED
  BY <1>1, <1>3, <1>4, <1>5, <1>6 DEF TotalSize

(***************************************************************************)
(* The byte count.  EntrySizes is finite as a set of bytes at any time, so *)
(* the lemmas above apply to it.                                           *)
(***************************************************************************)

Accounted == IsFiniteSet(Cells(EntrySizes)) /\ BytesAccounted

\* insert's critical section: the replaced entry's bytes are given back.
LEMMA RegisterAccounted ==
  ASSUME InnerTypeOK, Accounted, NEW k \in Keys, NEW n \in Nat, NEW s \in Nat,
         entries' = With(entries, k, [size |-> n, last_access_seq |-> s]),
         bytes' = SatSub(bytes, SizeBefore(k)) + n
  PROVE  Accounted' /\ bytes' \in Nat
<1> DEFINE rest == Without(EntrySizes, {k})
<1>1. EntrySizes' = With(rest, k, n)
  BY Zenon DEF EntrySizes, With, Without, Restrict
<1>2. k \notin DOMAIN rest
  BY Zenon DEF Without, Restrict
<1>3. /\ IsFiniteSet(Cells(rest)) /\ TotalSize(rest) \in Nat
      /\ TotalSize(EntrySizes) = TotalSize(rest) + SizeBefore(k)
      /\ SizeBefore(k) \in Nat
  <2>1. CASE k \in DOMAIN entries
    <3>1. k \in DOMAIN EntrySizes /\ EntrySizes[k] = SizeBefore(k) /\ SizeBefore(k) \in Nat
      BY <2>1, Zenon DEF EntrySizes, SizeBefore, InnerTypeOK
    <3> HIDE DEF rest
    <3>2. /\ IsFiniteSet(Cells(Without(EntrySizes, {k})))
          /\ TotalSize(Without(EntrySizes, {k})) \in Nat
          /\ TotalSize(EntrySizes) = TotalSize(Without(EntrySizes, {k})) + EntrySizes[k]
      BY <3>1, RemoveTotal, Zenon DEF Accounted
    <3> QED
      BY <3>1, <3>2, Zenon DEF rest
  <2>2. CASE k \notin DOMAIN entries
    <3>1. rest = EntrySizes
      BY <2>2, Zenon DEF EntrySizes, Without, Restrict
    <3> HIDE DEF rest
    <3>2. TotalSize(EntrySizes) \in Nat
      BY SplitTotal, Zenon DEF Accounted
    <3> QED
      BY <3>1, <3>2, <2>2 DEF Accounted, SizeBefore
  <2> QED
    BY <2>1, <2>2, Zenon
<1> HIDE DEF rest
<1>4. IsFiniteSet(Cells(With(rest, k, n))) /\ TotalSize(With(rest, k, n)) = TotalSize(rest) + n
  BY <1>2, <1>3, AddTotal, Zenon
<1>5. bytes = TotalSize(rest) + SizeBefore(k)
  BY <1>3, Zenon DEF Accounted, BytesAccounted
<1>6. bytes' = TotalSize(rest) + n
  BY <1>3, <1>5 DEF SatSub
<1> QED
  BY <1>1, <1>3, <1>4, <1>6 DEF Accounted, BytesAccounted

\* Entries dropped: the sizes of the dropped ones are exactly what is taken off.
LEMMA DropAccounted ==
  ASSUME InnerTypeOK, Accounted, NEW S, DropEntries(S)
  PROVE  Accounted' /\ bytes' \in Nat
<1>1. EntrySizes' = Without(EntrySizes, S)
  BY Zenon DEF EntrySizes, Without, Restrict, DropEntries
<1>2. DOMAIN EntrySizes = DOMAIN entries
  BY Zenon DEF EntrySizes
<1>3. /\ IsFiniteSet(Cells(Without(EntrySizes, S)))
      /\ TotalSize(EntrySizes) \in Nat
      /\ TotalSize(Without(EntrySizes, S)) \in Nat
      /\ TotalSize(Restrict(EntrySizes, S \cap DOMAIN EntrySizes)) \in Nat
      /\ TotalSize(EntrySizes) = TotalSize(Without(EntrySizes, S))
                                   + TotalSize(Restrict(EntrySizes, S \cap DOMAIN EntrySizes))
  BY SplitTotal, Zenon DEF Accounted
<1>4. SizeOf(S) \in Nat /\ TotalSize(EntrySizes) = TotalSize(Without(EntrySizes, S)) + SizeOf(S)
  BY <1>2, <1>3, Zenon DEF SizeOf
<1>5. bytes' = TotalSize(Without(EntrySizes, S))
  BY <1>3, <1>4 DEF DropEntries, Accounted, BytesAccounted, SatSub
<1> QED
  BY <1>1, <1>3, <1>5, Zenon DEF Accounted, BytesAccounted

\* One eviction.
LEMMA EvictAccounted ==
  ASSUME InnerTypeOK, Accounted, NEW k,
         entries' = Without(entries, {k}), bytes' = SatSub(bytes, SizeBefore(k))
  PROVE  Accounted' /\ bytes' \in Nat
<1>1. EntrySizes' = Without(EntrySizes, {k})
  BY Zenon DEF EntrySizes, Without, Restrict
<1>2. CASE k \in DOMAIN entries
  <2>1. k \in DOMAIN EntrySizes /\ EntrySizes[k] = SizeBefore(k) /\ SizeBefore(k) \in Nat
    BY <1>2, Zenon DEF EntrySizes, SizeBefore, InnerTypeOK
  <2>2. /\ IsFiniteSet(Cells(Without(EntrySizes, {k})))
        /\ TotalSize(Without(EntrySizes, {k})) \in Nat
        /\ TotalSize(EntrySizes) = TotalSize(Without(EntrySizes, {k})) + EntrySizes[k]
    BY <2>1, RemoveTotal, Zenon DEF Accounted
  <2>3. bytes' = TotalSize(Without(EntrySizes, {k}))
    BY <2>1, <2>2 DEF Accounted, BytesAccounted, SatSub
  <2> QED
    BY <1>1, <2>2, <2>3, Zenon DEF Accounted, BytesAccounted
<1>3. CASE k \notin DOMAIN entries
  <2>1. EntrySizes' = EntrySizes
    BY <1>3, Zenon DEF EntrySizes, Without, Restrict
  <2>2. bytes' = bytes
    BY <1>3 DEF SizeBefore, SatSub, InnerTypeOK
  <2> QED
    BY <2>1, <2>2, Zenon DEF Accounted, BytesAccounted, InnerTypeOK
<1> QED
  BY <1>2, <1>3, Zenon

(***************************************************************************)
(* Types.  The byte count stays a natural number because no saturating_sub *)
(* saturates, so the accounting is part of the invariant.                  *)
(***************************************************************************)

\* A thread past the start of a call on a key has that key.
KeySet ==
  \A t \in Threads :
    pc[t] \in {"rename", "register", "evict", "read", "touch", "remove"} => arg[t].key \in Keys

\* Temporary names come from a counter, so a running insert finds its own bytes
\* under its name, or nothing if clear_all swept it.
OwnTmp ==
  /\ \A n \in DOMAIN tmps : n < tmpSeq
  /\ \A t \in Threads : pc[t] = "rename" =>
       /\ arg[t].tmp < tmpSeq
       /\ arg[t].tmp \in DOMAIN tmps => /\ tmps[arg[t].tmp] \in Payloads
                                        /\ tmps[arg[t].tmp].key = arg[t].key
  /\ \A t, u \in Threads :
       pc[t] = "rename" /\ pc[u] = "rename" /\ t # u => arg[t].tmp # arg[u].tmp

TypeInv == TypeOK /\ KeySet /\ Accounted /\ OwnTmp

LEMMA ListedLocals ==
  ASSUME NEW a \in Locals, NEW names \in SUBSET Keys, NEW temps \in SUBSET Nat
  PROVE  [a EXCEPT !.names = names, !.temps = temps] \in Locals
<1>1. ASSUME NEW b \in Locals PROVE [b EXCEPT !.names = names] \in Locals
  BY DEF Locals
<1>2. ASSUME NEW b \in Locals PROVE [b EXCEPT !.temps = temps] \in Locals
  BY DEF Locals
<1>3. [a EXCEPT !.names = names, !.temps = temps] = [[a EXCEPT !.names = names] EXCEPT !.temps = temps]
  BY DEF Locals
<1> QED
  BY <1>1, <1>2, <1>3, Zenon

LEMMA NoCallType == NoCall \in Locals
BY Zenon DEF NoCall, Locals, Torn

LEMMA InitType == Init => TypeInv
<1> SUFFICES ASSUME Init PROVE TypeInv
  BY Zenon
<1>1. EntrySizes = EmptyMap
  BY Zenon DEF Init, EntrySizes, EmptyMap
<1>2. Accounted
  BY <1>1, EmptyTotal, Zenon DEF Accounted, BytesAccounted, Init
<1>3. InnerTypeOK /\ DiskTypeOK
  BY Zenon DEF Init, InnerTypeOK, DiskTypeOK, EmptyMap
<1>4. CallsTypeOK /\ KeySet
  BY NoCallType, Zenon DEF Init, CallsTypeOK, KeySet, Labels
<1>5. OwnTmp
  BY Zenon DEF Init, OwnTmp, EmptyMap
<1> QED
  BY <1>2, <1>3, <1>4, <1>5, Zenon DEF TypeInv, TypeOK

LEMMA StillAccounted ==
  ASSUME Accounted, UNCHANGED <<entries, bytes>>
  PROVE  Accounted'
BY Zenon DEF Accounted, BytesAccounted, EntrySizes

LEMMA StepType == TypeInv /\ [Next]_vars => TypeInv'
<1> SUFFICES ASSUME TypeInv, [Next]_vars PROVE TypeInv'
  BY Zenon
<1> USE PayloadAssumption, NoCallType DEF TypeInv, TypeOK
<1>1. ASSUME NEW t \in Threads, NEW p \in Payloads, InsertWrite(t, p) PROVE TypeInv'
  <2>1. InnerTypeOK' /\ Accounted'
    BY <1>1, StillAccounted, Zenon DEF InsertWrite, inner, InnerTypeOK
  <2>2. DiskTypeOK'
    BY <1>1 DEF InsertWrite, DiskTypeOK, With, TmpName
  <2>3. CallsTypeOK' /\ KeySet'
    <3>1. arg' \in [Threads -> Locals]
      BY <1>1, ZenonT(40) DEF InsertWrite, CallsTypeOK, Locals, Call, TmpName, DiskTypeOK
    <3> QED
      BY <1>1, <3>1 DEF InsertWrite, CallsTypeOK, KeySet, Labels, Goto, Call, Locals
  <2>4. OwnTmp'
    BY <1>1 DEF InsertWrite, OwnTmp, CallsTypeOK, DiskTypeOK, Locals, Goto, With, TmpName, Call
  <2> QED
    BY <2>1, <2>2, <2>3, <2>4, Zenon
<1>2. ASSUME NEW t \in Threads, InsertWriteFails(t) PROVE TypeInv'
  <2>1. InnerTypeOK' /\ Accounted'
    BY <1>2, StillAccounted, Zenon DEF InsertWriteFails, inner, InnerTypeOK
  <2>2. DiskTypeOK'
    BY <1>2 DEF InsertWriteFails, DiskTypeOK, With, TmpName
  <2>3. CallsTypeOK' /\ KeySet'
    BY <1>2 DEF InsertWriteFails, CallsTypeOK, KeySet, Call
  <2>4. OwnTmp'
    BY <1>2 DEF InsertWriteFails, OwnTmp, CallsTypeOK, DiskTypeOK, Locals, Goto, With, TmpName, Call
  <2> QED
    BY <2>1, <2>2, <2>3, <2>4, Zenon
<1>3. ASSUME NEW t \in Threads, InsertRename(t) PROVE TypeInv'
  <2>1. InnerTypeOK' /\ Accounted'
    BY <1>3, StillAccounted, Zenon DEF InsertRename, inner, InnerTypeOK
  <2>2. DiskTypeOK'
    BY <1>3 DEF InsertRename, DiskTypeOK, Without, With, Restrict, KeySet, OwnTmp
  <2>3. CallsTypeOK' /\ KeySet'
    BY <1>3, Zenon DEF InsertRename, CallsTypeOK, KeySet, Labels, Return, Goto
  <2>4. OwnTmp'
    BY <1>3, SMTT(30) DEF InsertRename, OwnTmp, CallsTypeOK, DiskTypeOK, Locals, Goto, Without, Restrict, Return
  <2> QED
    BY <2>1, <2>2, <2>3, <2>4, Zenon
<1>4. ASSUME NEW t \in Threads, InsertRegister(t) PROVE TypeInv'
  <2>1. InnerTypeOK' /\ Accounted'
    <3>1. arg[t].key \in Keys /\ arg[t].size \in Nat /\ seq + 1 \in Nat
      BY <1>4 DEF InsertRegister, KeySet, CallsTypeOK, Locals, InnerTypeOK
    <3>2. Accounted' /\ bytes' \in Nat
      BY <1>4, <3>1, RegisterAccounted, Zenon DEF InsertRegister
    <3> QED
      BY <1>4, <3>1, <3>2, Zenon DEF InsertRegister, InnerTypeOK, With, Without, Restrict, Reslot
  <2>2. DiskTypeOK'
    BY <1>4, Zenon DEF InsertRegister, DiskTypeOK, disk
  <2>3. CallsTypeOK' /\ KeySet'
    BY <1>4, Zenon DEF InsertRegister, CallsTypeOK, KeySet, Labels, Goto
  <2>4. OwnTmp'
    BY <1>4, Zenon DEF InsertRegister, OwnTmp, CallsTypeOK, DiskTypeOK, Locals, Goto, disk
  <2> QED
    BY <2>1, <2>2, <2>3, <2>4, Zenon
<1>5. ASSUME NEW t \in Threads, EvictOne(t) PROVE TypeInv'
  <2>1. InnerTypeOK' /\ Accounted'
    <3>1. Accounted' /\ bytes' \in Nat
      BY <1>5, EvictAccounted, Zenon DEF EvictOne
    <3> QED
      BY <1>5, <3>1, Zenon DEF EvictOne, InnerTypeOK, Without, Restrict
  <2>2. DiskTypeOK'
    BY <1>5, Zenon DEF EvictOne, DiskTypeOK, Without, Restrict, FilesAfterEvicting
  <2>3. CallsTypeOK' /\ KeySet'
    BY <1>5, Zenon DEF EvictOne, CallsTypeOK, KeySet
  <2>4. OwnTmp'
    BY <1>5, Zenon DEF EvictOne, OwnTmp, CallsTypeOK, DiskTypeOK, Locals, Goto
  <2> QED
    BY <2>1, <2>2, <2>3, <2>4, Zenon
<1>6. ASSUME NEW t \in Threads, EvictDone(t) PROVE TypeInv'
  <2>1. InnerTypeOK' /\ Accounted'
    BY <1>6, StillAccounted, Zenon DEF EvictDone, inner, InnerTypeOK
  <2>2. DiskTypeOK'
    BY <1>6, Zenon DEF EvictDone, DiskTypeOK, disk
  <2>3. CallsTypeOK' /\ KeySet'
    BY <1>6, Zenon DEF EvictDone, CallsTypeOK, KeySet, Labels, Return, Goto
  <2>4. OwnTmp'
    BY <1>6, Zenon DEF EvictDone, OwnTmp, CallsTypeOK, DiskTypeOK, Locals, Goto, disk, Return
  <2> QED
    BY <2>1, <2>2, <2>3, <2>4, Zenon
<1>7. ASSUME NEW t \in Threads, NEW k \in Keys, GetLookup(t, k) PROVE TypeInv'
  <2>1. InnerTypeOK' /\ Accounted'
    BY <1>7, StillAccounted, Zenon DEF GetLookup, inner, InnerTypeOK
  <2>2. DiskTypeOK'
    BY <1>7, Zenon DEF GetLookup, DiskTypeOK, disk
  <2>3. CallsTypeOK' /\ KeySet'
    <3>1. arg' \in [Threads -> Locals]
      <4>1. PICK n \in Nat : arg' = [arg EXCEPT ![t] = [NoCall EXCEPT !.key = k, !.need = n]]
        <5>1. 0 .. entries[k].size \subseteq Nat
          OBVIOUS
        <5> QED
          BY <1>7, <5>1, Zenon DEF GetLookup
      <4>2. [NoCall EXCEPT !.key = k, !.need = n] \in Locals
        BY Zenon DEF Locals
      <4> QED
        BY <4>1, <4>2, Zenon DEF CallsTypeOK
    <3> QED
      BY <1>7, <3>1 DEF GetLookup, CallsTypeOK, KeySet, Labels, Goto, Call, Locals
  <2>4. OwnTmp'
    BY <1>7 DEF GetLookup, OwnTmp, CallsTypeOK, DiskTypeOK, Locals, Goto, disk, Call
  <2> QED
    BY <2>1, <2>2, <2>3, <2>4, Zenon
<1>8. ASSUME NEW t \in Threads, GetRead(t) PROVE TypeInv'
  <2>1. InnerTypeOK' /\ Accounted'
    BY <1>8, StillAccounted, Zenon DEF GetRead, inner, InnerTypeOK
  <2>2. DiskTypeOK'
    BY <1>8, Zenon DEF GetRead, DiskTypeOK, disk
  <2>3. CallsTypeOK' /\ KeySet'
    <3>1. arg' \in [Threads -> Locals]
      <4>1. CASE arg' = [arg EXCEPT ![t] = NoCall]
        <5>1. NoCall \in Locals
          BY NoCallType, Zenon
        <5> QED
          BY <4>1, <5>1, Zenon DEF CallsTypeOK
      <4>2. CASE /\ arg[t].key \in DOMAIN files
                 /\ arg' = [arg EXCEPT ![t].got = files[arg[t].key]]
        <5>1. files[arg[t].key] \in Payloads /\ arg[t] \in Locals
          BY <4>2, Zenon DEF DiskTypeOK, CallsTypeOK
        <5>2. [arg[t] EXCEPT !.got = files[arg[t].key]] \in Locals
          BY <5>1, Zenon DEF Locals
        <5>3. arg' = [arg EXCEPT ![t] = [arg[t] EXCEPT !.got = files[arg[t].key]]]
          BY <4>2, Zenon
        <5> QED
          BY <5>2, <5>3, Zenon DEF CallsTypeOK
      <4> QED
        BY <1>8, <4>1, <4>2, Zenon DEF GetRead, Return
    <3> QED
      BY <1>8, <3>1, SMTT(30) DEF GetRead, CallsTypeOK, KeySet, Labels, Goto, Call, Locals, Return
  <2>4. OwnTmp'
    <3>1. \A u \in Threads : pc'[u] = "rename" => pc[u] = "rename" /\ arg'[u] = arg[u]
      BY <1>8, Zenon DEF GetRead, CallsTypeOK, Goto, Return
    <3> QED
      BY <1>8, <3>1 DEF GetRead, OwnTmp, disk
  <2> QED
    BY <2>1, <2>2, <2>3, <2>4, Zenon
<1>9. ASSUME NEW t \in Threads, GetTouch(t) PROVE TypeInv'
  <2>1. InnerTypeOK' /\ Accounted'
    <3>1. EntrySizes' = EntrySizes /\ bytes' = bytes
      BY <1>9 DEF GetTouch, EntrySizes, InnerTypeOK
    <3>2. Accounted'
      BY <3>1, Zenon DEF Accounted, BytesAccounted
    <3>3. InnerTypeOK'
      <4>1. DOMAIN entries' = DOMAIN entries
            /\ \A k \in DOMAIN entries : entries'[k] \in [size : Nat, last_access_seq : Nat]
        BY <1>9 DEF GetTouch, InnerTypeOK
      <4>2. DOMAIN lru' \subseteq Nat /\ \A s \in DOMAIN lru' : lru'[s] \in Keys
        <5>1. CASE lru' = lru
          BY <5>1, Zenon DEF InnerTypeOK
        <5>2. CASE lru' = Reslot(arg[t].key)
          BY <1>9, <5>2 DEF GetTouch, InnerTypeOK, KeySet, Reslot, With, Without, Restrict
        <5> QED
          BY <1>9, <5>1, <5>2, Zenon DEF GetTouch
      <4> QED
        BY <1>9, <4>1, <4>2 DEF GetTouch, InnerTypeOK
    <3> QED
      BY <3>2, <3>3, Zenon
  <2>2. DiskTypeOK'
    BY <1>9, Zenon DEF GetTouch, DiskTypeOK, disk
  <2>3. CallsTypeOK' /\ KeySet'
    BY <1>9, Zenon DEF GetTouch, CallsTypeOK, KeySet, Labels, Return, Goto
  <2>4. OwnTmp'
    BY <1>9, Zenon DEF GetTouch, OwnTmp, CallsTypeOK, DiskTypeOK, Locals, Goto, disk, Return
  <2> QED
    BY <2>1, <2>2, <2>3, <2>4, Zenon
<1>10. ASSUME NEW t \in Threads, NEW k \in Keys, RemoveUnlink(t, k) PROVE TypeInv'
  <2>1. InnerTypeOK' /\ Accounted'
    BY <1>10, StillAccounted, Zenon DEF RemoveUnlink, inner, InnerTypeOK
  <2>2. DiskTypeOK'
    BY <1>10, Zenon DEF RemoveUnlink, DiskTypeOK, Without, Restrict
  <2>3. CallsTypeOK' /\ KeySet'
    <3>1. arg' \in [Threads -> Locals]
      BY <1>10, Zenon DEF RemoveUnlink, CallsTypeOK, Locals, Call
    <3> QED
      BY <1>10, <3>1, SMTT(30) DEF RemoveUnlink, CallsTypeOK, KeySet, Labels, Goto, Call, Locals
  <2>4. OwnTmp'
    BY <1>10, Zenon DEF RemoveUnlink, OwnTmp, CallsTypeOK, DiskTypeOK, Locals, Goto, Call
  <2> QED
    BY <2>1, <2>2, <2>3, <2>4, Zenon
<1>11. ASSUME NEW t \in Threads, RemoveDrop(t) PROVE TypeInv'
  <2>1. InnerTypeOK' /\ Accounted'
    <3>1. ASSUME NEW S, DropEntries(S) PROVE InnerTypeOK' /\ Accounted'
      BY <3>1, DropAccounted, Zenon DEF DropEntries, InnerTypeOK, Without, Restrict
    <3>2. ASSUME UNCHANGED inner PROVE InnerTypeOK' /\ Accounted'
      BY <3>2, StillAccounted, Zenon DEF inner, InnerTypeOK
    <3> QED
      BY <1>11, <3>1, <3>2, Zenon DEF RemoveDrop
  <2>2. DiskTypeOK'
    BY <1>11, Zenon DEF RemoveDrop, DiskTypeOK, disk
  <2>3. CallsTypeOK' /\ KeySet'
    BY <1>11, Zenon DEF RemoveDrop, CallsTypeOK, KeySet, Labels, Return, Goto
  <2>4. OwnTmp'
    BY <1>11, Zenon DEF RemoveDrop, OwnTmp, CallsTypeOK, DiskTypeOK, Locals, Goto, disk, Return
  <2> QED
    BY <2>1, <2>2, <2>3, <2>4, Zenon
<1>12. ASSUME NEW t \in Threads, ReconcileSnapshot(t) PROVE TypeInv'
  <2>1. InnerTypeOK' /\ Accounted'
    BY <1>12, StillAccounted, Zenon DEF ReconcileSnapshot, inner, InnerTypeOK
  <2>2. DiskTypeOK'
    BY <1>12, Zenon DEF ReconcileSnapshot, DiskTypeOK, disk
  <2>3. CallsTypeOK' /\ KeySet'
    <3>1. arg' \in [Threads -> Locals]
      BY <1>12, Zenon DEF ReconcileSnapshot, CallsTypeOK, Locals, Call, InnerTypeOK
    <3> QED
      BY <1>12, <3>1, SMTT(30) DEF ReconcileSnapshot, CallsTypeOK, KeySet, Labels, Goto, Call, Locals
  <2>4. OwnTmp'
    BY <1>12, ZenonT(40) DEF ReconcileSnapshot, OwnTmp, CallsTypeOK, DiskTypeOK, Locals, Goto, disk, Call
  <2> QED
    BY <2>1, <2>2, <2>3, <2>4, Zenon
<1>13. ASSUME NEW t \in Threads, ReconcileExists(t) PROVE TypeInv'
  <2>1. InnerTypeOK' /\ Accounted'
    BY <1>13, StillAccounted, Zenon DEF ReconcileExists, inner, InnerTypeOK
  <2>2. DiskTypeOK'
    BY <1>13, Zenon DEF ReconcileExists, DiskTypeOK, disk
  <2>3. CallsTypeOK' /\ KeySet'
    <3>1. arg' \in [Threads -> Locals]
      <4>1. PICK k \in arg[t].names :
              arg' = [arg EXCEPT ![t] = [arg[t] EXCEPT
                        !.names = arg[t].names \ {k},
                        !.missing = arg[t].missing \cup ({k} \ DOMAIN files)]]
        BY <1>13, Zenon DEF ReconcileExists
      <4>2. [arg[t] EXCEPT !.names = arg[t].names \ {k},
                           !.missing = arg[t].missing \cup ({k} \ DOMAIN files)] \in Locals
        BY Zenon DEF CallsTypeOK, Locals
      <4> QED
        BY <4>1, <4>2, Zenon DEF CallsTypeOK
    <3> QED
      BY <1>13, <3>1, Zenon DEF ReconcileExists, CallsTypeOK, KeySet, Labels, Goto, Call, Locals
  <2>4. OwnTmp'
    BY <1>13 DEF ReconcileExists, OwnTmp, CallsTypeOK, DiskTypeOK, Locals, Goto, disk
  <2> QED
    BY <2>1, <2>2, <2>3, <2>4, Zenon
<1>14. ASSUME NEW t \in Threads, ReconcileDrop(t) PROVE TypeInv'
  <2>1. InnerTypeOK' /\ Accounted'
    <3>1. ASSUME NEW S, DropEntries(S) PROVE InnerTypeOK' /\ Accounted'
      BY <3>1, DropAccounted, Zenon DEF DropEntries, InnerTypeOK, Without, Restrict
    <3>2. ASSUME UNCHANGED inner PROVE InnerTypeOK' /\ Accounted'
      BY <3>2, StillAccounted, Zenon DEF inner, InnerTypeOK
    <3> QED
      BY <1>14, <3>1, <3>2, ZenonT(40) DEF ReconcileDrop
  <2>2. DiskTypeOK'
    BY <1>14, Zenon DEF ReconcileDrop, DiskTypeOK, disk
  <2>3. CallsTypeOK' /\ KeySet'
    BY <1>14, Zenon DEF ReconcileDrop, CallsTypeOK, KeySet, Labels, Return, Goto
  <2>4. OwnTmp'
    BY <1>14, Zenon DEF ReconcileDrop, OwnTmp, CallsTypeOK, DiskTypeOK, Locals, Goto, disk, Return
  <2> QED
    BY <2>1, <2>2, <2>3, <2>4, Zenon
<1>15. ASSUME NEW t \in Threads, ClearTracked(t) PROVE TypeInv'
  <2>1. InnerTypeOK' /\ Accounted'
    <3>1. EntrySizes' = EmptyMap
      BY <1>15, Zenon DEF ClearTracked, EntrySizes, EmptyMap
    <3>2. Accounted'
      BY <1>15, <3>1, EmptyTotal, Zenon DEF ClearTracked, Accounted, BytesAccounted
    <3> QED
      BY <1>15, <3>2, Zenon DEF ClearTracked, InnerTypeOK, EmptyMap
  <2>2. DiskTypeOK'
    BY <1>15, Zenon DEF ClearTracked, DiskTypeOK, Without, Restrict
  <2>3. CallsTypeOK' /\ KeySet'
    BY <1>15 DEF ClearTracked, CallsTypeOK, KeySet, Labels, Goto, Call
  <2>4. OwnTmp'
    BY <1>15, Zenon DEF ClearTracked, OwnTmp, CallsTypeOK, DiskTypeOK, Locals, Goto, Call
  <2> QED
    BY <2>1, <2>2, <2>3, <2>4, Zenon
<1>16. ASSUME NEW t \in Threads, ClearList(t) PROVE TypeInv'
  <2>1. InnerTypeOK' /\ Accounted'
    BY <1>16, StillAccounted, Zenon DEF ClearList, inner, InnerTypeOK
  <2>2. DiskTypeOK'
    BY <1>16, Zenon DEF ClearList, DiskTypeOK, disk
  <2>3. CallsTypeOK' /\ KeySet'
    <3>1. arg' = [arg EXCEPT ![t].names = DOMAIN files, ![t].temps = DOMAIN tmps]
      BY <1>16, Zenon DEF ClearList
    <3>2. arg[t] \in Locals /\ DOMAIN files \in SUBSET Keys /\ DOMAIN tmps \in SUBSET Nat
      BY Zenon DEF CallsTypeOK, DiskTypeOK
    <3>3. [arg[t] EXCEPT !.names = DOMAIN files, !.temps = DOMAIN tmps] \in Locals
      BY <3>2, ListedLocals, Zenon
    <3>4. arg' \in [Threads -> Locals]
      BY <3>1, <3>3, Zenon DEF CallsTypeOK
    <3> QED
      BY <1>16, <3>4, Zenon DEF ClearList, CallsTypeOK, KeySet, Labels, Goto, Call, Locals
  <2>4. OwnTmp'
    BY <1>16, ZenonT(40) DEF ClearList, OwnTmp, CallsTypeOK, DiskTypeOK, Locals, Goto, disk
  <2> QED
    BY <2>1, <2>2, <2>3, <2>4, Zenon
<1>17. ASSUME NEW t \in Threads, ClearSweep(t) PROVE TypeInv'
  <2>1. InnerTypeOK' /\ Accounted'
    BY <1>17, StillAccounted, Zenon DEF ClearSweep, inner, InnerTypeOK
  <2>2. DiskTypeOK'
    BY <1>17, Zenon DEF ClearSweep, DiskTypeOK, Without, Restrict
  <2>3. CallsTypeOK' /\ KeySet'
    <3>1. arg' \in [Threads -> Locals]
      <4>1. \A a \in Locals, k \in Keys : [a EXCEPT !.names = a.names \ {k}] \in Locals
        BY Zenon DEF Locals
      <4>2. \A a \in Locals, n \in Nat : [a EXCEPT !.temps = a.temps \ {n}] \in Locals
        BY Zenon DEF Locals
      <4>3. arg[t] \in Locals /\ arg[t].names \cup DOMAIN files \subseteq Keys
            /\ arg[t].temps \cup DOMAIN tmps \subseteq Nat
        BY Zenon DEF CallsTypeOK, DiskTypeOK, Locals
      <4>4. \/ \E k \in Keys : arg' = [arg EXCEPT ![t] = [arg[t] EXCEPT !.names = arg[t].names \ {k}]]
            \/ \E n \in Nat : arg' = [arg EXCEPT ![t] = [arg[t] EXCEPT !.temps = arg[t].temps \ {n}]]
        BY <1>17, <4>3, Zenon DEF ClearSweep
      <4>5. \E a \in Locals : arg' = [arg EXCEPT ![t] = a]
        BY <4>1, <4>2, <4>3, <4>4, Zenon
      <4> QED
        BY <4>5, Zenon DEF CallsTypeOK
    <3> QED
      BY <1>17, <3>1, Zenon DEF ClearSweep, CallsTypeOK, KeySet, Labels, Goto, Call, Locals
  <2>4. OwnTmp'
    <3>1. \A u \in Threads : pc'[u] = "rename" => pc[u] = "rename" /\ arg'[u] = arg[u]
      BY <1>17, Zenon DEF ClearSweep, CallsTypeOK
    <3>2. DOMAIN tmps' \subseteq DOMAIN tmps /\ \A n \in DOMAIN tmps' : tmps'[n] = tmps[n]
      BY <1>17, Zenon DEF ClearSweep, Without, Restrict
    <3> QED
      BY <1>17, <3>1, <3>2 DEF ClearSweep, OwnTmp
  <2> QED
    BY <2>1, <2>2, <2>3, <2>4, Zenon
<1>18. ASSUME NEW t \in Threads, ClearDone(t) PROVE TypeInv'
  <2>1. InnerTypeOK' /\ Accounted'
    BY <1>18, StillAccounted, Zenon DEF ClearDone, inner, InnerTypeOK
  <2>2. DiskTypeOK'
    BY <1>18, Zenon DEF ClearDone, DiskTypeOK, disk
  <2>3. CallsTypeOK' /\ KeySet'
    BY <1>18, Zenon DEF ClearDone, CallsTypeOK, KeySet, Labels, Return, Goto
  <2>4. OwnTmp'
    BY <1>18, ZenonT(40) DEF ClearDone, OwnTmp, CallsTypeOK, DiskTypeOK, Locals, Goto, disk, Return
  <2> QED
    BY <2>1, <2>2, <2>3, <2>4, Zenon
<1>19. ASSUME NEW k \in Keys, LoseFile(k) PROVE TypeInv'
  <2>1. InnerTypeOK' /\ Accounted'
    BY <1>19, StillAccounted, Zenon DEF LoseFile, inner, InnerTypeOK
  <2> QED
    BY <1>19, <2>1, Zenon DEF LoseFile, DiskTypeOK, CallsTypeOK, KeySet, OwnTmp, Without, Restrict
<1>20. ASSUME Restart PROVE TypeInv'
  <2>1. EntrySizes' = EmptyMap
    BY <1>20, Zenon DEF Restart, EntrySizes, EmptyMap
  <2>2. Accounted'
    BY <1>20, <2>1, EmptyTotal, Zenon DEF Restart, Accounted, BytesAccounted
  <2>3. InnerTypeOK' /\ DiskTypeOK'
    BY <1>20, Zenon DEF Restart, InnerTypeOK, DiskTypeOK, EmptyMap
  <2>4. CallsTypeOK' /\ KeySet'
    BY <1>20 DEF Restart, CallsTypeOK, KeySet, Labels
  <2>5. OwnTmp'
    BY <1>20, Zenon DEF Restart, OwnTmp, EmptyMap
  <2> QED
    BY <2>2, <2>3, <2>4, <2>5, Zenon
<1>21. ASSUME UNCHANGED vars PROVE TypeInv'
  <2>1. Accounted'
    BY <1>21, StillAccounted, Zenon DEF vars
  <2> QED
    BY <1>21, <2>1, Zenon DEF vars, InnerTypeOK, DiskTypeOK, CallsTypeOK, KeySet, OwnTmp
<1> QED
  BY <1>1, <1>2, <1>3, <1>4, <1>5, <1>6, <1>7, <1>8, <1>9, <1>10, <1>11, <1>12, <1>13, <1>14,
     <1>15, <1>16, <1>17, <1>18, <1>19, <1>20, <1>21, ZenonT(40) DEF Next, Begin, Step, Finished

\* What Inner and the cache directory hold has its type in every reachable
\* state; in particular no unfinished write is ever under a chunk's name.
THEOREM TypeCorrect == Spec => []TypeOK
<1>1. TypeInv => TypeOK
  BY Zenon DEF TypeInv
<1> QED
  BY InitType, StepType, <1>1, PTL DEF Spec

\* Inner.bytes is the sum of the entries' sizes in every reachable state.
THEOREM BytesExact == Spec => []BytesAccounted
<1>1. TypeInv => BytesAccounted
  BY Zenon DEF TypeInv, Accounted
<1> QED
  BY InitType, StepType, <1>1, PTL DEF Spec

(***************************************************************************)
(* The LRU index, the mutex and the budget.                                *)
(***************************************************************************)

\* seq is at or past every slot, so the next one is free.
SeqIsLast == \A s \in DOMAIN lru : s <= seq

\* The mutex is kept beyond one step for the eviction loop, by the thread in it.
HeldForEviction == \A t \in Threads : pc[t] = "evict" <=> lock = t

LruInv == LruMirrorsEntries /\ SeqIsLast

BudgetInv == LruInv /\ HeldForEviction /\ WithinBudget

\* insert and touch_lru move the key to a slot no other key has.
LEMMA ReslotMirrors ==
  ASSUME InnerTypeOK, LruInv, NEW k \in Keys, NEW n \in Nat,
         entries' = With(entries, k, [size |-> n, last_access_seq |-> seq + 1]),
         lru' = Reslot(k), seq' = seq + 1
  PROVE  LruInv'
<1>1. \A s \in DOMAIN lru : s # seq + 1 /\ s \in Nat /\ s <= seq + 1
  BY DEF LruInv, SeqIsLast, InnerTypeOK
<1>2. DOMAIN lru' = {s \in DOMAIN lru : lru[s] # k} \cup {seq + 1}
  BY DEF Reslot, SeqsOf, With, Without, Restrict, LruInv, LruMirrorsEntries
<1>3. \A s \in DOMAIN lru' : lru'[s] = IF s = seq + 1 THEN k ELSE lru[s]
  BY Zenon DEF Reslot, SeqsOf, With, Without, Restrict
<1>4. DOMAIN entries' = DOMAIN entries \cup {k}
      /\ entries'[k].last_access_seq = seq + 1
      /\ \A j \in DOMAIN entries \ {k} : entries'[j] = entries[j]
  BY Zenon DEF With
<1>5. SeqIsLast'
  BY <1>1, <1>2, SMTT(30) DEF SeqIsLast, InnerTypeOK
<1>6. LruMirrorsEntries'
  BY <1>1, <1>2, <1>3, <1>4, SMTT(30) DEF LruMirrorsEntries, LruInv
<1> QED
  BY <1>5, <1>6, Zenon DEF LruInv

\* Entries and their slots go together.
LEMMA DropMirrors ==
  ASSUME LruInv, NEW S, entries' = Without(entries, S), lru' = Without(lru, SeqsOf(S)),
         seq' = seq
  PROVE  LruInv'
BY DEF LruInv, LruMirrorsEntries, SeqIsLast, SeqsOf, Without, Restrict

LEMMA InitBudget == Init => BudgetInv
BY BudgetAssumption, ThreadAssumption
   DEF Init, BudgetInv, LruInv, LruMirrorsEntries, SeqIsLast, HeldForEviction, WithinBudget,
       EmptyMap

\* An empty index means no entries, and no entries no bytes.
LEMMA EmptyIndexNoBytes ==
  ASSUME Accounted, LruMirrorsEntries, lru = EmptyMap
  PROVE  bytes = 0
<1>1. Cells(EntrySizes) = {}
  BY DEF LruMirrorsEntries, EmptyMap, EntrySizes, Cells
<1> QED
  BY <1>1, FS_EmptySet, Zenon DEF Accounted, BytesAccounted, TotalSize

LEMMA StepBudget == TypeInv /\ TypeInv' /\ BudgetInv /\ [Next]_vars => BudgetInv'
<1> SUFFICES ASSUME TypeInv, TypeInv', BudgetInv, [Next]_vars PROVE BudgetInv'
  BY Zenon
<1> USE ThreadAssumption, BudgetAssumption DEF TypeInv, TypeOK, BudgetInv
<1>1. ASSUME UNCHANGED inner PROVE LruInv'
  BY <1>1, Zenon DEF inner, LruInv, LruMirrorsEntries, SeqIsLast
<1>2. ASSUME NEW t \in Threads, UNCHANGED lock, pc[t] # "evict",
             \E l \in Labels \ {"evict"} : Goto(t, l)
      PROVE  HeldForEviction'
  BY <1>2, Zenon DEF HeldForEviction, Goto, CallsTypeOK
<1>3. ASSUME UNCHANGED <<bytes, lock>> PROVE WithinBudget'
  BY <1>3, Zenon DEF WithinBudget, Unlocked
<1>4. ASSUME NEW t \in Threads, NEW p \in Payloads, InsertWrite(t, p) PROVE BudgetInv'
  BY <1>4, <1>1, <1>2, <1>3, Zenon DEF InsertWrite, Call, Return, Goto, Labels, inner
<1>5. ASSUME NEW t \in Threads, InsertRename(t) PROVE BudgetInv'
  BY <1>5, <1>1, <1>2, <1>3, Zenon DEF InsertRename, Call, Return, Goto, Labels, inner
<1>6. ASSUME NEW t \in Threads, NEW k \in Keys, GetLookup(t, k) PROVE BudgetInv'
  BY <1>6, <1>1, <1>2, <1>3, Zenon DEF GetLookup, Call, Return, Goto, Labels, inner
<1>7. ASSUME NEW t \in Threads, GetRead(t) PROVE BudgetInv'
  BY <1>7, <1>1, <1>2, <1>3, Zenon DEF GetRead, Call, Return, Goto, Labels, inner
<1>8. ASSUME NEW t \in Threads, NEW k \in Keys, RemoveUnlink(t, k) PROVE BudgetInv'
  BY <1>8, <1>1, <1>2, <1>3, Zenon DEF RemoveUnlink, Call, Return, Goto, Labels, inner
<1>9. ASSUME NEW t \in Threads, ReconcileSnapshot(t) PROVE BudgetInv'
  BY <1>9, <1>1, <1>2, <1>3, Zenon DEF ReconcileSnapshot, Call, Return, Goto, Labels, inner
<1>10. ASSUME NEW t \in Threads, ClearList(t) PROVE BudgetInv'
  BY <1>10, <1>1, <1>2, <1>3, Zenon DEF ClearList, Call, Return, Goto, Labels, inner
<1>11. ASSUME NEW t \in Threads, ClearDone(t) PROVE BudgetInv'
  BY <1>11, <1>1, <1>2, <1>3, Zenon DEF ClearDone, Call, Return, Goto, Labels, inner
<1>12. ASSUME NEW t \in Threads, InsertWriteFails(t) PROVE BudgetInv'
  BY <1>12, <1>1, <1>3, Zenon DEF InsertWriteFails, HeldForEviction, inner
<1>13. ASSUME NEW t \in Threads, ReconcileExists(t) PROVE BudgetInv'
  BY <1>13, <1>1, <1>3, Zenon DEF ReconcileExists, HeldForEviction, inner
<1>14. ASSUME NEW t \in Threads, ClearSweep(t) PROVE BudgetInv'
  BY <1>14, <1>1, <1>3, Zenon DEF ClearSweep, HeldForEviction, inner
<1>15. ASSUME NEW t \in Threads, InsertRegister(t) PROVE BudgetInv'
  <2>1. arg[t].key \in Keys /\ arg[t].size \in Nat
    BY <1>15, Zenon DEF InsertRegister, KeySet, CallsTypeOK, Locals
  <2>2. LruInv'
    BY <1>15, <2>1, ReslotMirrors, Zenon DEF InsertRegister
  <2> QED
    BY <1>15, <2>2, Zenon DEF InsertRegister, HeldForEviction, WithinBudget, Unlocked, Goto, CallsTypeOK
<1>16. ASSUME NEW t \in Threads, EvictOne(t) PROVE BudgetInv'
  <2>1. LruInv'
    BY <1>16, SMTT(30) DEF EvictOne, LruInv, LruMirrorsEntries, SeqIsLast, Without, Restrict
  <2>2. lock = t
    BY <1>16, Zenon DEF EvictOne, HeldForEviction
  <2> QED
    BY <1>16, <2>1, <2>2, Zenon DEF EvictOne, HeldForEviction, WithinBudget, Unlocked
<1>17. ASSUME NEW t \in Threads, EvictDone(t) PROVE BudgetInv'
  <2>1. bytes <= MaxBytes
    BY <1>17, EmptyIndexNoBytes DEF EvictDone, MustEvict, LruInv, InnerTypeOK
  <2>2. lock = t
    BY <1>17, Zenon DEF EvictDone, HeldForEviction
  <2>3. HeldForEviction'
    BY <1>17, <2>2, Zenon DEF EvictDone, HeldForEviction, Return, Goto, CallsTypeOK
  <2>4. WithinBudget'
    BY <1>17, <2>1, Zenon DEF EvictDone, inner, WithinBudget
  <2> QED
    BY <1>17, <1>1, <2>3, <2>4, Zenon DEF EvictDone
<1>18. ASSUME NEW t \in Threads, GetTouch(t) PROVE BudgetInv'
  <2> DEFINE k == arg[t].key
  <2>1. ASSUME k \in DOMAIN entries, seq' = seq + 1, lru' = Reslot(k),
               entries' = [entries EXCEPT ![k].last_access_seq = seq + 1]
        PROVE  LruInv'
    <3>1. k \in Keys /\ entries[k] \in [size : Nat, last_access_seq : Nat]
      BY <2>1, Zenon DEF InnerTypeOK
    <3>2. [entries[k] EXCEPT !.last_access_seq = seq + 1]
            = [size |-> entries[k].size, last_access_seq |-> seq + 1]
      BY <3>1
    <3>3. entries' = With(entries, k, [size |-> entries[k].size, last_access_seq |-> seq + 1])
      BY <2>1, <3>2, Zenon DEF With
    <3>4. entries[k].size \in Nat
      BY <3>1, Zenon
    <3> HIDE DEF k
    <3> QED
      BY <2>1, <3>1, <3>3, <3>4, ReslotMirrors, Zenon
  <2>2. ASSUME UNCHANGED <<seq, entries, lru>> PROVE LruInv'
    BY <2>2, Zenon DEF LruInv, LruMirrorsEntries, SeqIsLast
  <2>3. LruInv'
    BY <1>18, <2>1, <2>2, Zenon DEF GetTouch
  <2> QED
    BY <1>18, <1>2, <1>3, <2>3, Zenon DEF GetTouch, Return, Labels
<1>19. ASSUME NEW t \in Threads, RemoveDrop(t) PROVE BudgetInv'
  <2>1. ASSUME NEW S, DropEntries(S) PROVE LruInv'
    BY <2>1, DropMirrors, Zenon DEF DropEntries
  <2>2. ASSUME NEW S, DropEntries(S) PROVE bytes' <= bytes
    <3>1. SizeOf(S) \in Nat
      <4>1. DOMAIN EntrySizes = DOMAIN entries
        BY Zenon DEF EntrySizes
      <4>2. TotalSize(Restrict(EntrySizes, S \cap DOMAIN EntrySizes)) \in Nat
        BY SplitTotal, Zenon DEF Accounted
      <4> QED
        BY <4>1, <4>2, Zenon DEF SizeOf
    <3> QED
      BY <2>2, <3>1 DEF DropEntries, SatSub, InnerTypeOK
  <2>3. WithinBudget'
    BY <1>19, <2>2, SMTT(30) DEF RemoveDrop, WithinBudget, Unlocked, InnerTypeOK
  <2> QED
    BY <1>19, <1>2, <2>1, <2>3, Zenon DEF RemoveDrop, Return, Labels
<1>20. ASSUME NEW t \in Threads, ReconcileDrop(t) PROVE BudgetInv'
  <2>1. ASSUME NEW S, DropEntries(S) PROVE LruInv'
    BY <2>1, DropMirrors, Zenon DEF DropEntries
  <2>2. ASSUME NEW S, DropEntries(S) PROVE bytes' <= bytes
    <3>1. SizeOf(S) \in Nat
      <4>1. DOMAIN EntrySizes = DOMAIN entries
        BY Zenon DEF EntrySizes
      <4>2. TotalSize(Restrict(EntrySizes, S \cap DOMAIN EntrySizes)) \in Nat
        BY SplitTotal, Zenon DEF Accounted
      <4> QED
        BY <4>1, <4>2, Zenon DEF SizeOf
    <3> QED
      BY <2>2, <3>1 DEF DropEntries, SatSub, InnerTypeOK
  <2>3. WithinBudget'
    BY <1>20, <2>2 DEF ReconcileDrop, WithinBudget, Unlocked, InnerTypeOK, inner
  <2> QED
    BY <1>20, <1>1, <1>2, <2>1, <2>3, ZenonT(40) DEF ReconcileDrop, Return, Labels
<1>21. ASSUME NEW t \in Threads, ClearTracked(t) PROVE BudgetInv'
  <2>1. LruInv'
    BY <1>21, Zenon DEF ClearTracked, LruInv, LruMirrorsEntries, SeqIsLast, EmptyMap
  <2> QED
    BY <1>21, <1>2, <2>1 DEF ClearTracked, Call, Labels, WithinBudget
<1>22. ASSUME NEW k \in Keys, LoseFile(k) PROVE BudgetInv'
  BY <1>22, <1>1, <1>3, Zenon DEF LoseFile, HeldForEviction, inner
<1>23. ASSUME Restart PROVE BudgetInv'
  BY <1>23 DEF Restart, LruInv, LruMirrorsEntries, SeqIsLast, HeldForEviction, WithinBudget, EmptyMap
<1>24. ASSUME UNCHANGED vars PROVE BudgetInv'
  BY <1>24, <1>1, <1>3, Zenon DEF vars, HeldForEviction, inner
<1> QED
  BY <1>4, <1>5, <1>6, <1>7, <1>8, <1>9, <1>10, <1>11, <1>12, <1>13, <1>14, <1>15, <1>16, <1>17, <1>18, <1>19, <1>20, <1>21, <1>22, <1>23, <1>24, ZenonT(40)
     DEF Next, Begin, Step, Finished

\* The LRU index and the entries stay inverse maps through every interleaving.
THEOREM LruExact == Spec => []LruMirrorsEntries
<1>1. BudgetInv => LruMirrorsEntries
  BY Zenon DEF BudgetInv, LruInv
<1> QED
  BY InitType, StepType, InitBudget, StepBudget, <1>1, PTL DEF Spec

\* Whenever the mutex is free, the byte count is within max_bytes.
THEOREM BudgetKept == Spec => []WithinBudget
<1>1. BudgetInv => WithinBudget
  BY Zenon DEF BudgetInv
<1> QED
  BY InitType, StepType, InitBudget, StepBudget, <1>1, PTL DEF Spec

(***************************************************************************)
(* What a get returns.                                                     *)
(***************************************************************************)

\* A chunk file holds a payload of the chunk it is named after.
FilesOwnChunk == \A k \in DOMAIN files : files[k].key = k

\* An insert registers the size of a payload it was given.
SizeOfPayload ==
  \A t \in Threads : pc[t] \in {"rename", "register"} => arg[t].size \in PayloadSizes

ReadInv == FilesOwnChunk /\ ReadsOwnChunk /\ SizeOfPayload

LEMMA InitRead == Init => ReadInv
BY Zenon DEF Init, ReadInv, FilesOwnChunk, ReadsOwnChunk, SizeOfPayload, EmptyMap

LEMMA StepRead == TypeInv /\ ReadInv /\ [Next]_vars => ReadInv'
<1> SUFFICES ASSUME TypeInv, ReadInv, [Next]_vars PROVE ReadInv'
  BY Zenon
<1> USE DEF TypeInv, TypeOK, ReadInv
<1>1. ASSUME \A u \in Threads : pc'[u] \in {"touch", "rename", "register"} =>
                pc'[u] = pc[u] /\ arg'[u] = arg[u]
      PROVE  ReadsOwnChunk' /\ SizeOfPayload'
  BY <1>1, Zenon DEF ReadsOwnChunk, SizeOfPayload
<1>2. ASSUME DOMAIN files' \subseteq DOMAIN files, \A k \in DOMAIN files' : files'[k] = files[k]
      PROVE  FilesOwnChunk'
  BY <1>2, Zenon DEF FilesOwnChunk
<1>3. ASSUME NEW t \in Threads, NEW p \in Payloads, InsertWrite(t, p) PROVE ReadInv'
  <2>1. arg'[t].size \in PayloadSizes
    BY <1>3, NoCallType, Zenon DEF InsertWrite, CallsTypeOK, Locals, PayloadSizes
  <2>2. pc' = [pc EXCEPT ![t] = "rename"] /\ \A u \in Threads \ {t} : arg'[u] = arg[u]
    BY <1>3, Zenon DEF InsertWrite, Goto, CallsTypeOK
  <2>3. ReadsOwnChunk' /\ SizeOfPayload'
    BY <2>1, <2>2, Zenon DEF ReadsOwnChunk, SizeOfPayload, CallsTypeOK
  <2> QED
    BY <1>3, <1>2, <2>3, Zenon DEF InsertWrite
<1>4. ASSUME NEW t \in Threads, InsertWriteFails(t) PROVE ReadInv'
  BY <1>4, <1>1, <1>2, Zenon DEF InsertWriteFails, CallsTypeOK, Call
<1>5. ASSUME NEW t \in Threads, InsertRename(t) PROVE ReadInv'
  <2>1. ReadsOwnChunk' /\ SizeOfPayload'
    BY <1>5, Zenon DEF InsertRename, ReadsOwnChunk, SizeOfPayload, CallsTypeOK, Goto, Return
  <2>2. FilesOwnChunk'
    BY <1>5 DEF InsertRename, FilesOwnChunk, OwnTmp, With
  <2> QED
    BY <2>1, <2>2, Zenon
<1>6. ASSUME NEW t \in Threads, InsertRegister(t) PROVE ReadInv'
  BY <1>6, <1>1, <1>2, Zenon DEF InsertRegister, CallsTypeOK, Goto, disk
<1>7. ASSUME NEW t \in Threads, EvictOne(t) PROVE ReadInv'
  BY <1>7, <1>1, <1>2, Zenon DEF EvictOne, CallsTypeOK, FilesAfterEvicting, Without, Restrict
<1>8. ASSUME NEW t \in Threads, EvictDone(t) PROVE ReadInv'
  BY <1>8, <1>1, <1>2, Zenon DEF EvictDone, CallsTypeOK, Return, Goto, disk
<1>9. ASSUME NEW t \in Threads, NEW k \in Keys, GetLookup(t, k) PROVE ReadInv'
  BY <1>9, <1>1, <1>2, Zenon DEF GetLookup, CallsTypeOK, Goto, disk
<1>10. ASSUME NEW t \in Threads, GetRead(t) PROVE ReadInv'
  <2>1. CASE Return(t)
    BY <1>10, <2>1, <1>1, <1>2, Zenon DEF GetRead, CallsTypeOK, Return, Goto, disk
  <2>2. CASE /\ arg[t].key \in DOMAIN files /\ files[arg[t].key].size >= arg[t].need
             /\ arg' = [arg EXCEPT ![t].got = files[arg[t].key]] /\ Goto(t, "touch")
    <3>1. /\ arg'[t].got = files[arg[t].key] /\ arg'[t].key = arg[t].key
          /\ arg'[t].need = arg[t].need
      BY <2>2, Zenon DEF CallsTypeOK, Locals
    <3>2. pc' = [pc EXCEPT ![t] = "touch"] /\ \A u \in Threads \ {t} : arg'[u] = arg[u]
      BY <2>2, Zenon DEF Goto, CallsTypeOK
    <3>3. ReadsOwnChunk'
      BY <2>2, <3>1, <3>2 DEF ReadsOwnChunk, FilesOwnChunk, CallsTypeOK, DiskTypeOK
    <3>4. SizeOfPayload'
      BY <3>2, Zenon DEF SizeOfPayload, CallsTypeOK
    <3> QED
      BY <1>10, <1>2, <3>3, <3>4, Zenon DEF GetRead, disk
  <2> QED
    BY <1>10, <2>1, <2>2, Zenon DEF GetRead
<1>11. ASSUME NEW t \in Threads, GetTouch(t) PROVE ReadInv'
  BY <1>11, <1>1, <1>2, Zenon DEF GetTouch, CallsTypeOK, Return, Goto, disk
<1>12. ASSUME NEW t \in Threads, NEW k \in Keys, RemoveUnlink(t, k) PROVE ReadInv'
  BY <1>12, <1>1, <1>2, Zenon DEF RemoveUnlink, CallsTypeOK, Goto, Without, Restrict
<1>13. ASSUME NEW t \in Threads, RemoveDrop(t) PROVE ReadInv'
  BY <1>13, <1>1, <1>2, Zenon DEF RemoveDrop, CallsTypeOK, Return, Goto, disk
<1>14. ASSUME NEW t \in Threads, ReconcileSnapshot(t) PROVE ReadInv'
  BY <1>14, <1>1, <1>2, Zenon DEF ReconcileSnapshot, CallsTypeOK, Goto, disk
<1>15. ASSUME NEW t \in Threads, ReconcileExists(t) PROVE ReadInv'
  BY <1>15, <1>1, <1>2, Zenon DEF ReconcileExists, CallsTypeOK, disk
<1>16. ASSUME NEW t \in Threads, ReconcileDrop(t) PROVE ReadInv'
  BY <1>16, <1>1, <1>2, Zenon DEF ReconcileDrop, CallsTypeOK, Return, Goto, disk
<1>17. ASSUME NEW t \in Threads, ClearTracked(t) PROVE ReadInv'
  BY <1>17, <1>1, <1>2, Zenon DEF ClearTracked, CallsTypeOK, Goto, Without, Restrict
<1>18. ASSUME NEW t \in Threads, ClearList(t) PROVE ReadInv'
  BY <1>18, <1>1, <1>2, Zenon DEF ClearList, CallsTypeOK, Goto, disk
<1>19. ASSUME NEW t \in Threads, ClearSweep(t) PROVE ReadInv'
  <2>1. \A u \in Threads : u # t => arg'[u] = arg[u]
    BY <1>19, Zenon DEF ClearSweep, CallsTypeOK
  <2>2. DOMAIN files' \subseteq DOMAIN files /\ \A k \in DOMAIN files' : files'[k] = files[k]
    BY <1>19, Zenon DEF ClearSweep, Without, Restrict
  <2> QED
    BY <1>19, <1>1, <1>2, <2>1, <2>2, Zenon DEF ClearSweep
<1>20. ASSUME NEW t \in Threads, ClearDone(t) PROVE ReadInv'
  BY <1>20, <1>1, <1>2, Zenon DEF ClearDone, CallsTypeOK, Return, Goto, disk
<1>21. ASSUME NEW k \in Keys, LoseFile(k) PROVE ReadInv'
  BY <1>21, <1>1, <1>2, Zenon DEF LoseFile, Without, Restrict
<1>22. ASSUME Restart PROVE ReadInv'
  BY <1>22, Zenon DEF Restart, FilesOwnChunk, ReadsOwnChunk, SizeOfPayload, EmptyMap
<1>23. ASSUME UNCHANGED vars PROVE ReadInv'
  BY <1>23, <1>1, <1>2, Zenon DEF vars
<1> QED
  BY <1>3, <1>4, <1>5, <1>6, <1>7, <1>8, <1>9, <1>10, <1>11, <1>12, <1>13, <1>14, <1>15, <1>16, <1>17, <1>18, <1>19, <1>20, <1>21, <1>22, <1>23, ZenonT(40)
     DEF Next, Begin, Step, Finished

\* A get returns a whole chunk of the key it asked for, with the bytes it needs,
\* whatever insert, eviction, remove, reconcile_with_disk and clear_all do to the
\* file between the lookup and the read.
THEOREM GetsRight == Spec => []ReadsOwnChunk
<1>1. ReadInv => ReadsOwnChunk
  BY Zenon DEF ReadInv
<1> QED
  BY InitType, StepType, InitRead, StepRead, <1>1, PTL DEF Spec

(***************************************************************************)
(* Chunk files nothing tracks.                                             *)
(***************************************************************************)

\* A step that leaves k's file, its absence from the entries and the inserts about
\* to register it as they were makes no orphan of it.
LEMMA OrphanBefore ==
  ASSUME NEW k, k \in DOMAIN files, k \notin DOMAIN entries, ~BeingInserted(k)',
         \A u \in Threads : pc[u] = "register" /\ arg[u].key = k =>
                              pc'[u] = pc[u] /\ arg'[u] = arg[u]
  PROVE  OrphanFile(k)
BY Zenon DEF OrphanFile, BeingInserted

LEMMA StepOrphan ==
  ASSUME TypeInv, [Next]_vars, NEW k \in Keys, OrphanFile(k)'
  PROVE  OrphanFile(k) \/ (k \in DOMAIN entries /\ \E t \in Threads : EndsDrop(t))
<1> USE DEF TypeInv, TypeOK
<1> DEFINE Goal == OrphanFile(k) \/ (k \in DOMAIN entries /\ \E t \in Threads : EndsDrop(t))
<1>0. k \in DOMAIN files' /\ k \notin DOMAIN entries' /\ ~BeingInserted(k)'
  BY Zenon DEF OrphanFile
<1>a. ASSUME DOMAIN files' \subseteq DOMAIN files, DOMAIN entries \subseteq DOMAIN entries',
             \A u \in Threads : pc[u] = "register" => pc'[u] = pc[u] /\ arg'[u] = arg[u]
      PROVE  Goal
  BY <1>a, <1>0, OrphanBefore, Zenon
<1> HIDE DEF Goal
<1>1. ASSUME NEW t \in Threads, NEW p \in Payloads, InsertWrite(t, p) PROVE Goal
  BY <1>1, <1>a, Zenon DEF InsertWrite, Call, Goto, inner, CallsTypeOK
<1>2. ASSUME NEW t \in Threads, InsertWriteFails(t) PROVE Goal
  BY <1>2, <1>a, Zenon DEF InsertWriteFails, inner
<1>3. ASSUME NEW t \in Threads, InsertRename(t) PROVE Goal
  <2>1. CASE files' = files
    BY <1>3, <2>1, <1>a, Zenon DEF InsertRename, Return, Goto, inner, CallsTypeOK
  <2>2. CASE files' = With(files, arg[t].key, tmps[arg[t].tmp]) /\ Goto(t, "register") /\ UNCHANGED arg
    <3>1. arg[t].key # k
      BY <1>0, <2>2, Zenon DEF BeingInserted, Goto, CallsTypeOK
    <3>2. k \in DOMAIN files
      BY <1>0, <2>2, <3>1, Zenon DEF With
    <3>3. k \notin DOMAIN entries
      BY <1>0, <1>3, Zenon DEF InsertRename, inner
    <3>4. \A u \in Threads : pc[u] = "register" => pc'[u] = pc[u] /\ arg'[u] = arg[u]
      BY <1>3, <2>2, Zenon DEF InsertRename, Goto, CallsTypeOK
    <3> QED
      BY <1>0, <3>2, <3>3, <3>4, OrphanBefore, Zenon DEF Goal
  <2> QED
    BY <1>3, <2>1, <2>2, Zenon DEF InsertRename
<1>4. ASSUME NEW t \in Threads, InsertRegister(t) PROVE Goal
  <2>1. DOMAIN entries' = DOMAIN entries \cup {arg[t].key}
    BY <1>4, Zenon DEF InsertRegister, With
  <2>2. arg[t].key # k /\ k \notin DOMAIN entries
    BY <1>0, <2>1, Zenon
  <2>3. \A u \in Threads : pc[u] = "register" /\ arg[u].key = k =>
                              pc'[u] = pc[u] /\ arg'[u] = arg[u]
    BY <1>4, <2>2, Zenon DEF InsertRegister, Goto, CallsTypeOK
  <2> QED
    BY <1>0, <1>4, <2>2, <2>3, OrphanBefore, Zenon DEF InsertRegister, disk, Goal
<1>5. ASSUME NEW t \in Threads, EvictOne(t) PROVE Goal
  <2>1. PICK s \in DOMAIN lru : /\ entries' = Without(entries, {lru[s]})
                                /\ files' = FilesAfterEvicting(lru[s])
    BY <1>5, Zenon DEF EvictOne
  <2>2. k \in DOMAIN files /\ k \notin DOMAIN entries
    BY <1>0, <2>1, Zenon DEF FilesAfterEvicting, Without, Restrict
  <2> QED
    BY <1>0, <1>5, <2>2, OrphanBefore, Zenon DEF EvictOne, Goal
<1>6. ASSUME NEW t \in Threads, EvictDone(t) PROVE Goal
  BY <1>6, <1>a, Zenon DEF EvictDone, Return, Goto, inner, disk, CallsTypeOK
<1>7. ASSUME NEW t \in Threads, NEW j \in Keys, GetLookup(t, j) PROVE Goal
  BY <1>7, <1>a, Zenon DEF GetLookup, Call, Goto, inner, disk, CallsTypeOK
<1>8. ASSUME NEW t \in Threads, GetRead(t) PROVE Goal
  BY <1>8, <1>a, Zenon DEF GetRead, Return, Goto, inner, disk, CallsTypeOK
<1>9. ASSUME NEW t \in Threads, GetTouch(t) PROVE Goal
  BY <1>9, <1>a, Zenon DEF GetTouch, Return, Goto, disk, CallsTypeOK
<1>10. ASSUME NEW t \in Threads, NEW j \in Keys, RemoveUnlink(t, j) PROVE Goal
  BY <1>10, <1>a, Zenon DEF RemoveUnlink, Call, Goto, inner, Without, Restrict, CallsTypeOK
<1>b. ASSUME NEW t \in Threads, pc[t] \in {"remove", "exists"}, Return(t), UNCHANGED files
      PROVE  Goal
  <2>1. EndsDrop(t)
    BY <1>b, Zenon DEF EndsDrop, Return, Goto, CallsTypeOK
  <2>2. \A u \in Threads : pc[u] = "register" => pc'[u] = pc[u] /\ arg'[u] = arg[u]
    BY <1>b, Zenon DEF Return, Goto, CallsTypeOK
  <2> QED
    BY <1>0, <1>b, <2>1, <2>2, OrphanBefore, Zenon DEF Goal
<1>11. ASSUME NEW t \in Threads, RemoveDrop(t) PROVE Goal
  BY <1>11, <1>b, Zenon DEF RemoveDrop, disk
<1>12. ASSUME NEW t \in Threads, ReconcileSnapshot(t) PROVE Goal
  BY <1>12, <1>a, Zenon DEF ReconcileSnapshot, Call, Goto, inner, disk, CallsTypeOK
<1>13. ASSUME NEW t \in Threads, ReconcileExists(t) PROVE Goal
  BY <1>13, <1>a, Zenon DEF ReconcileExists, inner, disk, CallsTypeOK
<1>14. ASSUME NEW t \in Threads, ReconcileDrop(t) PROVE Goal
  BY <1>14, <1>b, Zenon DEF ReconcileDrop, disk
<1>15. ASSUME NEW t \in Threads, ClearTracked(t) PROVE Goal
  <2>1. k \in DOMAIN files /\ k \notin DOMAIN entries
    BY <1>0, <1>15, Zenon DEF ClearTracked, Without, Restrict
  <2> QED
    BY <1>0, <1>15, <2>1, OrphanBefore, Zenon DEF ClearTracked, Call, Goto, CallsTypeOK, Goal
<1>16. ASSUME NEW t \in Threads, ClearList(t) PROVE Goal
  BY <1>16, <1>a, Zenon DEF ClearList, Goto, inner, disk, CallsTypeOK
<1>17. ASSUME NEW t \in Threads, ClearSweep(t) PROVE Goal
  <2>1. \A u \in Threads : u # t => arg'[u] = arg[u]
    BY <1>17, Zenon DEF ClearSweep, CallsTypeOK
  <2>2. DOMAIN files' \subseteq DOMAIN files
    BY <1>17, Zenon DEF ClearSweep, Without, Restrict
  <2> QED
    BY <1>17, <1>a, <2>1, <2>2, Zenon DEF ClearSweep, inner
<1>18. ASSUME NEW t \in Threads, ClearDone(t) PROVE Goal
  BY <1>18, <1>a, Zenon DEF ClearDone, Return, Goto, inner, disk, CallsTypeOK
<1>19. ASSUME NEW j \in Keys, LoseFile(j) PROVE Goal
  BY <1>19, <1>a, Zenon DEF LoseFile, inner, Without, Restrict
<1>20. ASSUME Restart PROVE Goal
  BY <1>0, <1>20, Zenon DEF Restart, EmptyMap
<1>21. ASSUME UNCHANGED vars PROVE Goal
  BY <1>21, <1>a, Zenon DEF vars
<1> QED
  BY <1>1, <1>2, <1>3, <1>4, <1>5, <1>6, <1>7, <1>8, <1>9, <1>10, <1>11, <1>12, <1>13, <1>14,
     <1>15, <1>16, <1>17, <1>18, <1>19, <1>20, <1>21, ZenonT(40) DEF Next, Begin, Step, Finished, Goal

\* A chunk file gets out of the entries' sight only when a remove or a
\* reconcile_with_disk drops the entry of a chunk inserted again since it looked.
THEOREM OrphansExplained == Spec => OrphansFromDrops
<1>1. TypeInv /\ [Next]_vars =>
        [\A k \in Keys : OrphanFile(k)' =>
           \/ OrphanFile(k)
           \/ k \in DOMAIN entries /\ \E t \in Threads : EndsDrop(t)]_vars
  BY StepOrphan, Zenon
<1> QED
  BY InitType, StepType, <1>1, PTL DEF Spec, OrphansFromDrops

\* Nobody is in a remove or a reconcile_with_disk.
NobodyDrops == \A t \in Threads : pc[t] \notin {"remove", "exists"}

LEMMA StepNobodyDrops ==
  ASSUME Ops \cap {"remove", "reconcile"} = {}
  PROVE  TypeInv /\ NobodyDrops /\ [Next]_vars => NobodyDrops'
<1> SUFFICES ASSUME TypeInv, NobodyDrops, [Next]_vars PROVE NobodyDrops'
  BY Zenon
<1> USE DEF TypeInv, TypeOK, CallsTypeOK, NobodyDrops
<1>a. ASSUME NEW t \in Threads, NEW l \in Labels \ {"remove", "exists"}, Goto(t, l) PROVE NobodyDrops'
  BY <1>a, Zenon DEF Goto
<1>b. ASSUME UNCHANGED pc PROVE NobodyDrops'
  BY <1>b, Zenon
<1>1. ASSUME NEW t \in Threads, Begin(t) PROVE NobodyDrops'
  <2>1. \A k \in Keys : ~RemoveUnlink(t, k)
    BY Zenon DEF RemoveUnlink, Call
  <2>2. ~ReconcileSnapshot(t)
    BY Zenon DEF ReconcileSnapshot, Call
  <2>3. UNCHANGED pc \/ \E l \in {"rename", "read", "list"} : Goto(t, l)
    BY <1>1, <2>1, <2>2, Zenon DEF Begin, InsertWrite, InsertWriteFails, GetLookup, ClearTracked
  <2> QED
    BY <2>3, <1>a, <1>b, Zenon DEF Labels
<1>2. ASSUME NEW t \in Threads, Step(t) PROVE NobodyDrops'
  <2>1. UNCHANGED pc \/ \E l \in {"idle", "register", "evict", "touch", "sweep"} : Goto(t, l)
    BY <1>2, Zenon DEF Step, InsertRename, InsertRegister, EvictOne, EvictDone, GetRead, GetTouch,
       RemoveDrop, ReconcileExists, ReconcileDrop, ClearList, ClearSweep, ClearDone, Return
  <2> QED
    BY <2>1, <1>a, <1>b, Zenon DEF Labels
<1>3. ASSUME Restart PROVE NobodyDrops'
  BY <1>3, Zenon DEF Restart
<1>4. ASSUME NEW k \in Keys, LoseFile(k) PROVE NobodyDrops'
  BY <1>4, <1>b, Zenon DEF LoseFile
<1>5. ASSUME UNCHANGED vars PROVE NobodyDrops'
  BY <1>5, <1>b, Zenon DEF vars
<1> QED
  BY <1>1, <1>2, <1>3, <1>4, <1>5, Zenon DEF Next, Finished

LEMMA InitOrphan == Init => NoOrphanFile /\ NobodyDrops
BY Zenon DEF Init, NoOrphanFile, NobodyDrops, EmptyMap

LEMMA StepNoOrphan == TypeInv /\ TypeInv' /\ NobodyDrops /\ NoOrphanFile /\ [Next]_vars => NoOrphanFile'
<1> SUFFICES ASSUME TypeInv, TypeInv', NobodyDrops, NoOrphanFile, [Next]_vars,
                    NEW k \in DOMAIN files', OrphanFile(k)'
             PROVE  FALSE
  BY Zenon DEF NoOrphanFile
<1>1. k \in Keys
  BY Zenon DEF TypeInv, TypeOK, DiskTypeOK
<1>2. OrphanFile(k) \/ \E t \in Threads : EndsDrop(t)
  BY <1>1, StepOrphan, Zenon
<1> QED
  BY <1>2, Zenon DEF NoOrphanFile, OrphanFile, NobodyDrops, EndsDrop

\* Without remove and reconcile_with_disk every chunk file is tracked, or will be
\* when the insert that renamed it takes the mutex: eviction reaches all of the
\* cache directory, whatever clear_all, lost files and restarts do between.
THEOREM NothingOrphaned ==
  ASSUME Ops \cap {"remove", "reconcile"} = {}
  PROVE  Spec => []NoOrphanFile
<1>1. TypeInv /\ NobodyDrops /\ [Next]_vars => NobodyDrops'
  BY StepNobodyDrops, Zenon
<1> QED
  BY InitType, StepType, InitOrphan, <1>1, StepNoOrphan, PTL DEF Spec

(***************************************************************************)
(* Disk space.                                                             *)
(***************************************************************************)

\* A chunk has one size: its blob is not replaced by one of another length.
FixedSizes == \A p, q \in Payloads : p.key = q.key => p.size = q.size

\* A chunk of k has n bytes.
IsSizeOf(k, n) == \E p \in Payloads : p.key = k /\ p.size = n

\* Inserts and entries carry the sizes of their chunks.
SizesOfChunks ==
  /\ \A t \in Threads : pc[t] \in {"rename", "register", "evict"} => IsSizeOf(arg[t].key, arg[t].size)
  /\ \A k \in DOMAIN entries : IsSizeOf(k, entries[k].size)

\* While an insert evicts, the byte count is over the budget by at most its chunk.
Overshoot == \A t \in Threads : pc[t] = "evict" => bytes <= MaxBytes + arg[t].size

SpaceInv == SizesOfChunks /\ Overshoot

LEMMA InitSpace == Init => SpaceInv
BY Zenon DEF Init, SpaceInv, SizesOfChunks, Overshoot, EmptyMap

LEMMA StepSpace == TypeInv /\ BudgetInv /\ SpaceInv /\ [Next]_vars => SpaceInv'
<1> SUFFICES ASSUME TypeInv, BudgetInv, SpaceInv, [Next]_vars PROVE SpaceInv'
  BY Zenon
<1> USE DEF TypeInv, TypeOK, SpaceInv
<1>a. ASSUME \A u \in Threads : pc'[u] \in {"rename", "register", "evict"} =>
                pc[u] \in {"rename", "register", "evict"} /\ arg'[u] = arg[u],
             \A k \in DOMAIN entries' : k \in DOMAIN entries /\ entries'[k].size = entries[k].size
      PROVE  SizesOfChunks'
  BY <1>a, SMTT(30) DEF SizesOfChunks, IsSizeOf
<1>b. ASSUME \A u \in Threads : pc'[u] = "evict" => pc[u] = "evict" /\ arg'[u] = arg[u],
             bytes' = bytes
      PROVE  Overshoot'
  BY <1>b, Zenon DEF Overshoot
<1>c. ASSUME \A u \in Threads : pc'[u] \in {"rename", "register", "evict"} =>
                pc'[u] = pc[u] /\ arg'[u] = arg[u],
             UNCHANGED <<entries, bytes>>
      PROVE  SpaceInv'
  BY <1>a, <1>b, <1>c, Zenon
<1>d. ASSUME Unlocked, NEW t \in Threads, pc[t] # "evict", NEW l, l # "evict", Goto(t, l)
      PROVE  Overshoot'
  BY <1>d, ThreadAssumption, Zenon DEF Overshoot, BudgetInv, HeldForEviction, Unlocked, Goto, CallsTypeOK
<1>1. ASSUME NEW t \in Threads, NEW p \in Payloads, InsertWrite(t, p) PROVE SpaceInv'
  <2>1. arg'[t].key = p.key /\ arg'[t].size = p.size
    BY <1>1, NoCallType, Zenon DEF InsertWrite, CallsTypeOK, Locals
  <2>2. \A u \in Threads : u # t => pc'[u] = pc[u] /\ arg'[u] = arg[u]
    BY <1>1, Zenon DEF InsertWrite, Goto, CallsTypeOK
  <2>3. pc'[t] = "rename"
    BY <1>1, Zenon DEF InsertWrite, Goto, CallsTypeOK
  <2>4. SizesOfChunks'
    <3>1. IsSizeOf(arg'[t].key, arg'[t].size)
      BY <2>1, Zenon DEF IsSizeOf
    <3>2. ASSUME NEW u \in Threads, pc'[u] \in {"rename", "register", "evict"}
          PROVE  IsSizeOf(arg'[u].key, arg'[u].size)
      BY <2>2, <3>1, <3>2, Zenon DEF SizesOfChunks
    <3>3. ASSUME NEW k \in DOMAIN entries' PROVE IsSizeOf(k, entries'[k].size)
      BY <1>1, <3>3, Zenon DEF InsertWrite, inner, SizesOfChunks
    <3> QED
      BY <3>2, <3>3, Zenon DEF SizesOfChunks, IsSizeOf
  <2>5. Overshoot'
    BY <1>1, <1>b, <2>2, <2>3, Zenon DEF InsertWrite, inner
  <2> QED
    BY <2>4, <2>5, Zenon
<1>2. ASSUME NEW t \in Threads, InsertWriteFails(t) PROVE SpaceInv'
  BY <1>2, <1>c, Zenon DEF InsertWriteFails, inner
<1>3. ASSUME NEW t \in Threads, InsertRename(t) PROVE SpaceInv'
  <2>1. \A u \in Threads : pc'[u] \in {"rename", "register", "evict"} =>
                pc[u] \in {"rename", "register", "evict"} /\ arg'[u] = arg[u]
    BY <1>3, Zenon DEF InsertRename, Return, Goto, CallsTypeOK
  <2>2. \A u \in Threads : pc'[u] = "evict" => pc[u] = "evict" /\ arg'[u] = arg[u]
    BY <1>3, Zenon DEF InsertRename, Return, Goto, CallsTypeOK
  <2> QED
    BY <1>3, <1>a, <1>b, <2>1, <2>2, Zenon DEF InsertRename, inner
<1>4. ASSUME NEW t \in Threads, InsertRegister(t) PROVE SpaceInv'
  <2>1. arg' = arg /\ pc' = [pc EXCEPT ![t] = "evict"] /\ pc[t] = "register"
    BY <1>4, Zenon DEF InsertRegister, Goto
  <2>2. IsSizeOf(arg[t].key, arg[t].size)
    BY <2>1, Zenon DEF SizesOfChunks
  <2>3. entries'[arg[t].key].size = arg[t].size
        /\ \A k \in DOMAIN entries' : k # arg[t].key => k \in DOMAIN entries /\ entries'[k] = entries[k]
    BY <1>4, Zenon DEF InsertRegister, With
  <2>4. SizesOfChunks'
    <3>1. ASSUME NEW u \in Threads, pc'[u] \in {"rename", "register", "evict"}
          PROVE  IsSizeOf(arg[u].key, arg[u].size)
      BY <2>1, <3>1, Zenon DEF SizesOfChunks, CallsTypeOK
    <3>2. ASSUME NEW k \in DOMAIN entries' PROVE IsSizeOf(k, entries'[k].size)
      BY <2>2, <2>3, Zenon DEF SizesOfChunks
    <3> QED
      BY <2>1, <3>1, <3>2, ZenonT(40) DEF SizesOfChunks, IsSizeOf
  <2>5. bytes' <= MaxBytes + arg[t].size
    <3>1. bytes <= MaxBytes
      BY <1>4, Zenon DEF InsertRegister, BudgetInv, WithinBudget
    <3>2. SizeBefore(arg[t].key) \in Nat /\ arg[t].size \in Nat
      BY <1>4, Zenon DEF SizeBefore, InnerTypeOK, CallsTypeOK, Locals
    <3>3. SatSub(bytes, SizeBefore(arg[t].key)) <= MaxBytes
      BY <3>1, <3>2, BudgetAssumption DEF SatSub, InnerTypeOK
    <3>4. SatSub(bytes, SizeBefore(arg[t].key)) \in Int
      BY <3>2 DEF SatSub, InnerTypeOK
    <3> QED
      BY <1>4, <3>2, <3>3, <3>4, BudgetAssumption, SMTT(30) DEF InsertRegister
  <2>6. \A u \in Threads : u # t => pc'[u] # "evict"
    BY <1>4, <2>1, ThreadAssumption, Zenon
       DEF InsertRegister, BudgetInv, HeldForEviction, Unlocked, CallsTypeOK
  <2> QED
    BY <2>1, <2>4, <2>5, <2>6, Zenon DEF Overshoot
<1>5. ASSUME NEW t \in Threads, EvictOne(t) PROVE SpaceInv'
  <2>1. PICK s \in DOMAIN lru : /\ entries' = Without(entries, {lru[s]})
                                /\ bytes' = SatSub(bytes, SizeBefore(lru[s]))
    BY <1>5, Zenon DEF EvictOne
  <2>2. SizeBefore(lru[s]) \in Nat
    BY Zenon DEF SizeBefore, InnerTypeOK
  <2>3. bytes' <= bytes /\ bytes' \in Nat
    BY <2>1, <2>2 DEF SatSub, InnerTypeOK
  <2>4. UNCHANGED <<pc, arg>>
    BY <1>5, Zenon DEF EvictOne
  <2>5. SizesOfChunks'
    BY <2>1, <2>4, <1>a, Zenon DEF Without, Restrict
  <2>6. \A u \in Threads : arg[u].size \in Nat
    BY Zenon DEF CallsTypeOK, Locals
  <2>7. Overshoot'
    BY <2>3, <2>4, <2>6, BudgetAssumption DEF Overshoot, InnerTypeOK
  <2> QED
    BY <2>5, <2>7, Zenon
<1>6. ASSUME NEW t \in Threads, EvictDone(t) PROVE SpaceInv'
  BY <1>6, <1>c, Zenon DEF EvictDone, Return, Goto, inner, CallsTypeOK
<1>7. ASSUME NEW t \in Threads, NEW k \in Keys, GetLookup(t, k) PROVE SpaceInv'
  BY <1>7, <1>c, Zenon DEF GetLookup, Call, Goto, inner, CallsTypeOK
<1>8. ASSUME NEW t \in Threads, GetRead(t) PROVE SpaceInv'
  BY <1>8, <1>c, Zenon DEF GetRead, Return, Goto, inner, CallsTypeOK
<1>9. ASSUME NEW t \in Threads, GetTouch(t) PROVE SpaceInv'
  <2>1. \A k \in DOMAIN entries' : k \in DOMAIN entries /\ entries'[k].size = entries[k].size
    BY <1>9 DEF GetTouch, InnerTypeOK
  <2>2. \A u \in Threads : pc'[u] \in {"rename", "register", "evict"} => pc'[u] = pc[u] /\ arg'[u] = arg[u]
    BY <1>9, Zenon DEF GetTouch, Return, Goto, CallsTypeOK
  <2> QED
    BY <1>9, <1>a, <1>b, <2>1, <2>2, Zenon DEF GetTouch
<1>10. ASSUME NEW t \in Threads, NEW k \in Keys, RemoveUnlink(t, k) PROVE SpaceInv'
  BY <1>10, <1>c, Zenon DEF RemoveUnlink, Call, Goto, inner, CallsTypeOK
<1>e. ASSUME NEW t \in Threads, NEW S, Unlocked, DropEntries(S), Return(t), pc[t] \in {"remove", "exists"}
      PROVE  SpaceInv'
  <2>1. \A k \in DOMAIN entries' : k \in DOMAIN entries /\ entries'[k].size = entries[k].size
    BY <1>e, Zenon DEF DropEntries, Without, Restrict
  <2>2. \A u \in Threads : pc'[u] \in {"rename", "register", "evict"} => pc'[u] = pc[u] /\ arg'[u] = arg[u]
    BY <1>e, Zenon DEF Return, Goto, CallsTypeOK
  <2> QED
    BY <1>e, <1>a, <1>d, <2>1, <2>2, Zenon DEF Return
<1>11. ASSUME NEW t \in Threads, RemoveDrop(t) PROVE SpaceInv'
  BY <1>11, <1>e, Zenon DEF RemoveDrop
<1>12. ASSUME NEW t \in Threads, ReconcileSnapshot(t) PROVE SpaceInv'
  BY <1>12, <1>c, Zenon DEF ReconcileSnapshot, Call, Goto, inner, CallsTypeOK
<1>13. ASSUME NEW t \in Threads, ReconcileExists(t) PROVE SpaceInv'
  BY <1>13, <1>c, Zenon DEF ReconcileExists, inner, CallsTypeOK
<1>14. ASSUME NEW t \in Threads, ReconcileDrop(t) PROVE SpaceInv'
  BY <1>14, <1>c, <1>e, Zenon DEF ReconcileDrop, Return, Goto, inner, CallsTypeOK
<1>15. ASSUME NEW t \in Threads, ClearTracked(t) PROVE SpaceInv'
  <2>1. \A u \in Threads : pc'[u] \in {"rename", "register", "evict"} => pc'[u] = pc[u] /\ arg'[u] = arg[u]
    BY <1>15, Zenon DEF ClearTracked, Call, Goto, CallsTypeOK
  <2>2. DOMAIN entries' = {}
    BY <1>15, Zenon DEF ClearTracked, EmptyMap
  <2> QED
    BY <1>15, <1>a, <1>d, <2>1, <2>2, Zenon DEF ClearTracked, Call
<1>16. ASSUME NEW t \in Threads, ClearList(t) PROVE SpaceInv'
  BY <1>16, <1>c, Zenon DEF ClearList, Goto, inner, CallsTypeOK
<1>17. ASSUME NEW t \in Threads, ClearSweep(t) PROVE SpaceInv'
  <2>1. \A u \in Threads : u # t => arg'[u] = arg[u]
    BY <1>17, Zenon DEF ClearSweep, CallsTypeOK
  <2> QED
    BY <1>17, <1>c, <2>1, Zenon DEF ClearSweep, inner
<1>18. ASSUME NEW t \in Threads, ClearDone(t) PROVE SpaceInv'
  BY <1>18, <1>c, Zenon DEF ClearDone, Return, Goto, inner, CallsTypeOK
<1>19. ASSUME NEW k \in Keys, LoseFile(k) PROVE SpaceInv'
  BY <1>19, <1>c, Zenon DEF LoseFile, inner
<1>20. ASSUME Restart PROVE SpaceInv'
  BY <1>20, Zenon DEF Restart, SizesOfChunks, Overshoot, EmptyMap
<1>21. ASSUME UNCHANGED vars PROVE SpaceInv'
  BY <1>21, <1>c, Zenon DEF vars
<1> QED
  BY <1>1, <1>2, <1>3, <1>4, <1>5, <1>6, <1>7, <1>8, <1>9, <1>10, <1>11, <1>12, <1>13, <1>14,
     <1>15, <1>16, <1>17, <1>18, <1>19, <1>20, <1>21, ZenonT(40) DEF Next, Begin, Step, Finished

\* Finitely many sizes make finitely many bytes.
LEMMA FiniteCells ==
  ASSUME NEW f, IsFiniteSet(DOMAIN f), \A x \in DOMAIN f : f[x] \in Nat
  PROVE  IsFiniteSet(Cells(f))
<1> DEFINE bytesOf == [x \in DOMAIN f |-> {x} \X (1..f[x])]
           S == {{x} \X (1..f[x]) : x \in DOMAIN f}
<1>1. bytesOf \in Surjection(DOMAIN f, S)
  BY Zenon DEF Surjection
<1>2. \A T \in S : IsFiniteSet(T)
  <2>1. ASSUME NEW x \in DOMAIN f PROVE IsFiniteSet({x} \X (1..f[x]))
    <3>1. f[x] \in Nat
      BY Zenon
    <3> QED
      BY <3>1, KeyCells, Zenon
  <2> QED
    BY <2>1, Zenon
<1> HIDE DEF S, bytesOf
<1>3. IsFiniteSet(S)
  BY <1>1, FS_Surjection, Zenon
<1>4. IsFiniteSet(UNION S)
  BY <1>2, <1>3, FS_UNION, Zenon
<1> QED
  BY <1>4, Zenon DEF Cells, S

\* When every size of F is the size E has for the key or the size of a member of P
\* that stands for the key, the total of F is at most those of E and P together.
LEMMA CoveredTotal ==
  ASSUME NEW F, NEW E, NEW P, NEW key, IsFiniteSet(Cells(E)), IsFiniteSet(Cells(P)),
         \A k \in DOMAIN F : \/ k \in DOMAIN E /\ F[k] = E[k]
                             \/ \E t \in DOMAIN P : key[t] = k /\ F[k] = P[t]
  PROVE  TotalSize(F) \in Nat /\ TotalSize(F) <= TotalSize(E) + TotalSize(P)
<1> DEFINE move == [c \in Cells(P) |-> <<key[c[1]], c[2]>>]
           R == {<<key[c[1]], c[2]>> : c \in Cells(P)}
<1>1. move \in Surjection(Cells(P), R)
  BY Zenon DEF Surjection
<1>2. Cells(F) \subseteq Cells(E) \cup R
  <2> SUFFICES ASSUME NEW k \in DOMAIN F, NEW i \in 1..F[k] PROVE <<k, i>> \in Cells(E) \cup R
    BY DEF Cells
  <2>1. CASE k \in DOMAIN E /\ F[k] = E[k]
    BY <2>1 DEF Cells
  <2>2. ASSUME NEW t \in DOMAIN P, key[t] = k, F[k] = P[t] PROVE <<k, i>> \in R
    <3>1. <<t, i>> \in Cells(P)
      BY <2>2 DEF Cells
    <3> QED
      BY <2>2, <3>1
  <2> QED
    BY <2>1, <2>2, Zenon
<1> HIDE DEF move, R
<1>3. IsFiniteSet(R) /\ Cardinality(R) <= Cardinality(Cells(P))
  BY <1>1, FS_Surjection, Zenon
<1>4. /\ IsFiniteSet(Cells(E) \cup R)
      /\ Cardinality(Cells(E) \cup R)
           = Cardinality(Cells(E)) + Cardinality(R) - Cardinality(Cells(E) \cap R)
  BY <1>3, FS_Union, Zenon
<1>5. IsFiniteSet(Cells(E) \cap R)
  BY FS_Intersection, Zenon
<1>6. IsFiniteSet(Cells(F)) /\ Cardinality(Cells(F)) <= Cardinality(Cells(E) \cup R)
  BY <1>2, <1>4, FS_Subset, Zenon
<1>7. /\ Cardinality(Cells(E)) \in Nat /\ Cardinality(R) \in Nat /\ Cardinality(Cells(P)) \in Nat
      /\ Cardinality(Cells(E) \cap R) \in Nat /\ Cardinality(Cells(F)) \in Nat
  BY <1>3, <1>5, <1>6, FS_CardinalityType, Zenon
<1> QED
  BY <1>3, <1>4, <1>6, <1>7 DEF TotalSize

\* A chunk file is as large as the entry that tracks it, or as the insert that
\* will; the entries are within the budget but for the chunk being made room for.
LEMMA SpaceBound ==
  ASSUME FixedSizes, IsFiniteSet(Threads), TypeInv, BudgetInv, ReadInv, SpaceInv, NoOrphanFile
  PROVE  DiskWithinBudget
<1> USE DEF TypeInv, TypeOK
<1> DEFINE F == [k \in DOMAIN files |-> files[k].size]
           R == {t \in Threads : pc[t] = "register"}
           W == {t \in Threads : pc[t] \in {"register", "evict"}}
           P == [t \in R |-> arg[t].size]
           Q == [t \in W |-> arg[t].size]
           key == [t \in Threads |-> arg[t].key]
<1>1. \A t \in Threads : arg[t].size \in Nat
  BY Zenon DEF CallsTypeOK, Locals
<1>2. IsFiniteSet(Cells(P)) /\ IsFiniteSet(Cells(Q))
  <2>1. IsFiniteSet(R) /\ IsFiniteSet(W)
    BY FS_Subset, Zenon
  <2>2. DOMAIN P = R /\ DOMAIN Q = W /\ (\A t \in R : P[t] \in Nat) /\ (\A t \in W : Q[t] \in Nat)
    BY <1>1, Zenon
  <2> HIDE DEF P, Q, R, W
  <2> QED
    BY <2>1, <2>2, FiniteCells, Zenon
<1>3. ASSUME NEW k \in DOMAIN F
      PROVE  \/ k \in DOMAIN EntrySizes /\ F[k] = EntrySizes[k]
             \/ \E t \in DOMAIN P : key[t] = k /\ F[k] = P[t]
  <2>1. files[k] \in Payloads /\ files[k].key = k /\ F[k] = files[k].size
    BY Zenon DEF DiskTypeOK, ReadInv, FilesOwnChunk
  <2>2. ASSUME NEW n, IsSizeOf(k, n) PROVE F[k] = n
    BY <2>1, <2>2, Zenon DEF IsSizeOf, FixedSizes
  <2>3. CASE k \in DOMAIN entries
    BY <2>2, <2>3, Zenon DEF EntrySizes, SpaceInv, SizesOfChunks
  <2>4. CASE BeingInserted(k)
    <3>1. PICK t \in Threads : pc[t] = "register" /\ arg[t].key = k
      BY <2>4, Zenon DEF BeingInserted
    <3>2. IsSizeOf(k, arg[t].size)
      BY <3>1, Zenon DEF SpaceInv, SizesOfChunks
    <3>3. t \in R /\ F[k] = arg[t].size
      BY <2>2, <3>1, <3>2, Zenon
    <3> QED
      BY <3>1, <3>3, Zenon
  <2> QED
    BY <2>3, <2>4, Zenon DEF NoOrphanFile, OrphanFile
<1> HIDE DEF F, key
<1>4. TotalSize(F) \in Nat /\ TotalSize(F) <= TotalSize(EntrySizes) + TotalSize(P)
  <2> HIDE DEF P
  <2> QED
    BY <1>2, <1>3, CoveredTotal, ZenonT(40) DEF Accounted
<1>5. bytes = TotalSize(EntrySizes) /\ bytes \in Nat
  BY Zenon DEF Accounted, BytesAccounted, InnerTypeOK
<1>6. TotalSize(P) \in Nat /\ TotalSize(Q) \in Nat
  <2> HIDE DEF P, Q
  <2> QED
    BY <1>2, FS_CardinalityType, Zenon DEF TotalSize
<1>7. bytes + TotalSize(P) <= MaxBytes + TotalSize(Q)
  <2>1. CASE Unlocked
    <3>1. R = W
      BY <2>1, ThreadAssumption, Zenon DEF BudgetInv, HeldForEviction, Unlocked
    <3>2. P = Q
      BY <3>1, Zenon
    <3>3. bytes <= MaxBytes
      BY <2>1, Zenon DEF BudgetInv, WithinBudget
    <3> HIDE DEF P, Q
    <3> QED
      BY <1>5, <1>6, <3>2, <3>3, BudgetAssumption
  <2>2. CASE ~Unlocked
    <3>1. lock \in Threads /\ pc[lock] = "evict"
      BY <2>2, Zenon DEF BudgetInv, HeldForEviction, Unlocked, CallsTypeOK
    <3>2. W = R \cup {lock} /\ lock \notin R
      BY <3>1, Zenon DEF BudgetInv, HeldForEviction
    <3>3. Q = With(P, lock, arg[lock].size) /\ lock \notin DOMAIN P
      BY <3>2, Zenon DEF With
    <3>4. bytes <= MaxBytes + arg[lock].size /\ arg[lock].size \in Nat
      BY <1>1, <3>1, Zenon DEF SpaceInv, Overshoot
    <3> HIDE DEF P, Q
    <3>5. TotalSize(Q) = TotalSize(P) + arg[lock].size
      BY <1>2, <3>3, <3>4, AddTotal, Zenon
    <3> QED
      BY <1>5, <1>6, <3>4, <3>5, BudgetAssumption, SMTT(30)
  <2> QED
    BY <2>1, <2>2, Zenon
<1>8. TotalSize(F) <= MaxBytes + TotalSize(Q)
  <2> HIDE DEF P, Q
  <2> QED
    BY <1>4, <1>5, <1>6, <1>7, BudgetAssumption
<1> QED
  BY <1>8, Zenon DEF DiskWithinBudget, F

\* Without remove and reconcile_with_disk, the chunk files take at most max_bytes
\* and the chunks of the inserts that are between rename and the end of eviction,
\* in every interleaving, also when one chunk alone is larger than the budget.
THEOREM SpaceBounded ==
  ASSUME FixedSizes, IsFiniteSet(Threads), Ops \cap {"remove", "reconcile"} = {}
  PROVE  Spec => []DiskWithinBudget
<1>1. TypeInv /\ NobodyDrops /\ [Next]_vars => NobodyDrops'
  BY StepNobodyDrops, Zenon
<1>2. TypeInv /\ BudgetInv /\ ReadInv /\ SpaceInv /\ NoOrphanFile => DiskWithinBudget
  BY SpaceBound, Zenon
<1> QED
  BY InitType, StepType, InitBudget, StepBudget, InitRead, StepRead, InitSpace, StepSpace,
     InitOrphan, <1>1, StepNoOrphan, <1>2, PTL DEF Spec

(***************************************************************************)
(* The refinement: the maps, the slots and the eviction loop amount to one *)
(* atomically updated LRU cache.                                           *)
(***************************************************************************)

\* The instance's helpers are this module's.
LEMMA SameHelpers ==
  /\ Lru!EmptyMap = EmptyMap
  /\ \A f : Lru!TotalSize(f) = TotalSize(f)
  /\ \A f, S : Lru!Without(f, S) = Without(f, S)
  /\ \A f, k, v : Lru!With(f, k, v) = With(f, k, v)
<1>1. Lru!EmptyMap = EmptyMap
  BY Zenon DEF Lru!EmptyMap, EmptyMap
<1>2. ASSUME NEW f PROVE Lru!TotalSize(f) = TotalSize(f)
  BY Zenon DEF Lru!TotalSize, TotalSize, Lru!Cells, Cells, Lru!Cardinality, Cardinality
<1>3. ASSUME NEW f, NEW S PROVE Lru!Without(f, S) = Without(f, S)
  BY Zenon DEF Lru!Without, Without, Lru!Restrict, Restrict
<1>4. ASSUME NEW f, NEW k, NEW v PROVE Lru!With(f, k, v) = With(f, k, v)
  BY Zenon DEF Lru!With, With
<1> QED
  BY <1>1, <1>2, <1>3, <1>4, Zenon

\* The slots of the entries are distinct and at most seq.
LEMMA SlotFacts ==
  ASSUME InnerTypeOK, LruInv
  PROVE  /\ \A j \in DOMAIN entries : /\ entries[j].last_access_seq \in Nat
                                      /\ entries[j].last_access_seq <= seq
         /\ \A i, j \in DOMAIN entries :
              entries[i].last_access_seq = entries[j].last_access_seq => i = j
BY Zenon DEF InnerTypeOK, LruInv, LruMirrorsEntries, SeqIsLast

\* A key moved to slot seq + 1 becomes the most recently used one.
LEMMA UseOrder ==
  ASSUME InnerTypeOK, LruInv, NEW k \in Keys, NEW n \in Nat,
         entries' = With(entries, k, [size |-> n, last_access_seq |-> seq + 1])
  PROVE  OlderEntries' = Lru!OlderUsing(k)
<1> DEFINE D == DOMAIN entries
           at(j) == entries[j].last_access_seq
<1>1. DOMAIN entries' = D \cup {k} /\ seq \in Nat
  BY Zenon DEF With, InnerTypeOK
<1>2. entries'[k].last_access_seq = seq + 1
      /\ \A j \in D \ {k} : entries'[j].last_access_seq = at(j)
  BY Zenon DEF With
<1>3. \A j \in D : at(j) \in Nat /\ at(j) <= seq
  BY SlotFacts, Zenon
<1>4. ASSUME NEW i \in D \cup {k}, NEW j \in D \cup {k}
      PROVE  entries'[i].last_access_seq < entries'[j].last_access_seq
               <=> \/ i # k /\ j # k /\ at(i) < at(j)
                   \/ i # k /\ j = k
  BY <1>1, <1>2, <1>3, SMTT(30)
<1>5. OlderEntries' = {q \in (D \cup {k}) \X (D \cup {k}) :
                         \/ q[1] # k /\ q[2] # k /\ at(q[1]) < at(q[2])
                         \/ q[1] # k /\ q[2] = k}
  BY <1>1, <1>4, Zenon DEF OlderEntries
<1>6. Lru!OlderUsing(k) = {q \in OlderEntries : q[1] \notin {k} /\ q[2] \notin {k}}
                            \cup {<<j, k>> : j \in D \ {k}}
  BY Zenon DEF Lru!OlderUsing, Lru!OlderWithout, EntrySizes
<1> QED
  BY <1>5, <1>6 DEF OlderEntries

\* Dropped entries leave the order among the others as it was.
LEMMA DropOrder ==
  ASSUME NEW S, entries' = Without(entries, S)
  PROVE  OlderEntries' = Lru!OlderWithout(S) /\ EntrySizes' = Without(EntrySizes, S)
BY Zenon DEF OlderEntries, EntrySizes, Lru!OlderWithout, Without, Restrict

LEMMA NotOver ==
  ASSUME TypeInv, BudgetInv, Unlocked
  PROVE  ~Lru!OverBudget
<1>1. bytes = TotalSize(EntrySizes) /\ bytes \in Nat /\ bytes <= MaxBytes
  BY Zenon DEF TypeInv, TypeOK, InnerTypeOK, Accounted, BytesAccounted, BudgetInv, WithinBudget
<1> QED
  BY <1>1, SameHelpers, BudgetAssumption DEF Lru!OverBudget

LEMMA SameEntries ==
  ASSUME UNCHANGED entries
  PROVE  UNCHANGED <<EntrySizes, OlderEntries>>
BY Zenon DEF EntrySizes, OlderEntries

LEMMA EmptyEntries ==
  ASSUME entries' = EmptyMap
  PROVE  EntrySizes' = EmptyMap /\ OlderEntries' = {}
BY Zenon DEF EntrySizes, OlderEntries, EmptyMap

\* Every step of the code maps to a step of the LRU cache or to none.
LEMMA StepRefines ==
  TypeInv /\ BudgetInv /\ ReadInv /\ [Next]_vars => [Lru!Next]_<<EntrySizes, OlderEntries>>
<1> SUFFICES ASSUME TypeInv, BudgetInv, ReadInv, [Next]_vars, ~UNCHANGED entries
             PROVE  Lru!Next
  BY SameEntries, Zenon
<1>1. ASSUME NEW t \in Threads, InsertRegister(t) PROVE Lru!Next
  <2> DEFINE k == arg[t].key
             n == arg[t].size
  <2>1. k \in Keys /\ n \in Nat /\ n \in PayloadSizes
    BY <1>1, Zenon DEF InsertRegister, TypeInv, TypeOK, KeySet, CallsTypeOK, Locals, ReadInv, SizeOfPayload
  <2>2. entries' = With(entries, k, [size |-> n, last_access_seq |-> seq + 1])
    BY <1>1, Zenon DEF InsertRegister
  <2>3. EntrySizes' = With(EntrySizes, k, n)
    BY <2>2, Zenon DEF EntrySizes, With
  <2> HIDE DEF k, n
  <2>4. OlderEntries' = Lru!OlderUsing(k)
    BY <2>1, <2>2, UseOrder, Zenon DEF TypeInv, TypeOK, BudgetInv
  <2>5. Lru!Put(k, n)
    BY <1>1, <2>3, <2>4, NotOver, SameHelpers, Zenon DEF InsertRegister, Lru!Put
  <2> QED
    BY <2>1, <2>5, Zenon DEF Lru!Next
<1>2. ASSUME NEW t \in Threads, EvictOne(t) PROVE Lru!Next
  <2>1. PICK s \in DOMAIN lru : EvictsFirst(s) /\ entries' = Without(entries, {lru[s]})
    BY <1>2, Zenon DEF EvictOne
  <2> DEFINE k == lru[s]
  <2>2. k \in Keys /\ k \in DOMAIN entries /\ entries[k].last_access_seq = s
    BY Zenon DEF TypeInv, TypeOK, InnerTypeOK, BudgetInv, LruInv, LruMirrorsEntries
  <2>3. \A j \in DOMAIN entries \ {k} : s < entries[j].last_access_seq
    <3>1. \A j \in DOMAIN entries : s <= entries[j].last_access_seq
      BY <2>1, Zenon DEF EvictsFirst, BudgetInv, LruInv, LruMirrorsEntries
    <3> QED
      BY <2>2, <3>1, SlotFacts DEF TypeInv, TypeOK, BudgetInv
  <2>4. \A j \in DOMAIN EntrySizes \ {k} : <<k, j>> \in OlderEntries
    BY <2>2, <2>3, Zenon DEF OlderEntries, EntrySizes
  <2>5. Lru!OverBudget
    <3>1. bytes > MaxBytes /\ bytes = TotalSize(EntrySizes)
      BY <1>2, Zenon DEF EvictOne, MustEvict, TypeInv, Accounted, BytesAccounted
    <3> QED
      BY <3>1, SameHelpers, Zenon DEF Lru!OverBudget
  <2>6. k \in DOMAIN EntrySizes
    BY <2>2, Zenon DEF EntrySizes
  <2> HIDE DEF k
  <2>7. OlderEntries' = Lru!OlderWithout({k}) /\ EntrySizes' = Without(EntrySizes, {k})
    BY <2>1, DropOrder, Zenon DEF k
  <2>8. Lru!EvictOldest(k)
    BY <2>4, <2>5, <2>6, <2>7, SameHelpers, Zenon DEF Lru!EvictOldest
  <2> QED
    BY <2>2, <2>8, Zenon DEF Lru!Next
<1>3. ASSUME NEW t \in Threads, GetTouch(t) PROVE Lru!Next
  <2> DEFINE k == arg[t].key
  <2>1. /\ Unlocked /\ k \in DOMAIN entries
        /\ entries' = [entries EXCEPT ![k].last_access_seq = seq + 1]
    BY <1>3, Zenon DEF GetTouch
  <2>2. k \in Keys /\ entries[k] \in [size : Nat, last_access_seq : Nat]
    BY <2>1, Zenon DEF TypeInv, TypeOK, InnerTypeOK
  <2>3. [entries[k] EXCEPT !.last_access_seq = seq + 1]
          = [size |-> entries[k].size, last_access_seq |-> seq + 1]
    BY <2>2
  <2>4. entries' = With(entries, k, [size |-> entries[k].size, last_access_seq |-> seq + 1])
    BY <2>1, <2>3, Zenon DEF With
  <2>5. EntrySizes' = EntrySizes /\ k \in DOMAIN EntrySizes
    BY <2>1, <2>4 DEF EntrySizes, With
  <2>6. entries[k].size \in Nat
    BY <2>2, Zenon
  <2> HIDE DEF k
  <2>7. OlderEntries' = Lru!OlderUsing(k)
    BY <2>2, <2>4, <2>6, UseOrder, Zenon DEF TypeInv, TypeOK, BudgetInv
  <2>8. Lru!Use(k)
    BY <2>1, <2>5, <2>7, NotOver, Zenon DEF Lru!Use
  <2> QED
    BY <2>2, <2>8, Zenon DEF Lru!Next
<1>4. ASSUME NEW S \in SUBSET Keys, Unlocked, DropEntries(S) PROVE Lru!Next
  <2>1. OlderEntries' = Lru!OlderWithout(S) /\ EntrySizes' = Without(EntrySizes, S)
    BY <1>4, DropOrder, Zenon DEF DropEntries
  <2>2. Lru!Discard(S)
    BY <1>4, <2>1, NotOver, SameHelpers, Zenon DEF Lru!Discard
  <2> QED
    BY <2>2, Zenon DEF Lru!Next
<1>5. ASSUME NEW t \in Threads, RemoveDrop(t) PROVE Lru!Next
  BY <1>4, <1>5, Zenon DEF RemoveDrop, TypeInv, KeySet
<1>6. ASSUME NEW t \in Threads, ReconcileDrop(t) PROVE Lru!Next
  <2>1. arg[t].missing \in SUBSET Keys
    BY Zenon DEF TypeInv, TypeOK, CallsTypeOK, Locals
  <2> QED
    BY <1>4, <1>6, <2>1, Zenon DEF ReconcileDrop, inner
<1>7. ASSUME entries' = EmptyMap PROVE Lru!Next
  BY <1>7, EmptyEntries, SameHelpers, Zenon DEF Lru!Next, Lru!Reset
<1> QED
  BY <1>1, <1>2, <1>3, <1>5, <1>6, <1>7, ZenonT(40)
     DEF Next, Begin, Step, Finished, vars, inner, InsertWrite, InsertWriteFails, InsertRename,
         EvictDone, GetLookup, GetRead, RemoveUnlink, ReconcileSnapshot, ReconcileExists,
         ClearTracked, ClearList, ClearSweep, ClearDone, LoseFile, Restart

\* DiskCache implements an LRU cache within its budget: insert, touch_lru, the
\* eviction loop, remove, reconcile_with_disk, clear_all and a restart act on the
\* entries as LruCache says, for any number of threads.
THEOREM LruRefinement == Spec => ImplementsLru
<1>1. Init => Lru!Init
  <2> SUFFICES ASSUME Init PROVE EntrySizes = EmptyMap /\ OlderEntries = {}
    BY SameHelpers, Zenon DEF Lru!Init
  <2> QED
    BY Zenon DEF Init, EntrySizes, OlderEntries, EmptyMap
<1> QED
  BY <1>1, InitType, StepType, InitBudget, StepBudget, InitRead, StepRead, StepRefines, PTL
     DEF Spec, ImplementsLru, Lru!Spec, Lru!lruVars
=============================================================================
