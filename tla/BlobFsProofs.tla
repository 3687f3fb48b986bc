----------------------------- MODULE BlobFsProofs -----------------------------
(***************************************************************************)
(* Proofs about BlobFs for any names, blobs, pages, threads and cap.        *)
(***************************************************************************)
EXTENDS BlobFs, FiniteSetTheorems, TLAPS

(***************************************************************************)
(* The tables                                                              *)
(***************************************************************************)

\* What the tables say of each other: parents come before their children; an entry leads
\* to the node of its name, and so does a list of children; and what has an entry in a
\* directory that was not taken away is among its children.
LinkInv ==
  /\ byIno[Root].name = NoName /\ \A k \in Inos \ {Root} : byIno[k].parent < k
  /\ \A i \in Inos, n \in Names : <<i, n>> \in DOMAIN entry =>
       byIno[entry[<<i, n>>]].parent = i /\ byIno[entry[<<i, n>>]].name = n
  /\ \A i \in DOMAIN kids : \A k \in kids[i] :
       /\ byIno[k].parent = i /\ byIno[k].name \in Names
       /\ <<i, byIno[k].name>> \in DOMAIN entry /\ entry[<<i, byIno[k].name>>] = k
  /\ \A i \in Inos : Linked(i) /\ byIno[i].kind = "dir" =>
       /\ i \in DOMAIN kids
       /\ \A n \in Names : <<i, n>> \in DOMAIN entry => entry[<<i, n>>] \in kids[i]

\* Nodes keep who they are.
NodesKeep ==
  \A k \in Inos : /\ k \in Inos'
                  /\ byIno'[k].kind = byIno[k].kind /\ byIno'[k].parent = byIno[k].parent
                  /\ byIno'[k].name = byIno[k].name /\ byIno'[k].path = byIno[k].path

\* The names of A get nodes under i, with the numbers num, and the children in gone go.
Grows(i, A, num, gone) ==
  /\ next' \in Nat /\ next' >= next /\ Inos' = 1..(next' - 1)
  /\ NodesKeep
  /\ \A n \in A : /\ num[n] \in next..(next' - 1) /\ <<i, n>> \notin DOMAIN entry
                  /\ byIno'[num[n]].parent = i /\ byIno'[num[n]].name = n
                  /\ byIno'[num[n]].kind = "dir" => num[n] \in DOMAIN kids'
  /\ \A m, n \in A : num[m] = num[n] => m = n
  /\ \A k \in next..(next' - 1) : \E n \in A : num[n] = k
  /\ DOMAIN entry' = (DOMAIN entry \ {<<i, byIno[k].name>> : k \in gone}) \cup ({i} \X A)
  /\ \A e \in DOMAIN entry \cap DOMAIN entry' : entry'[e] = entry[e]
  /\ \A n \in A : entry'[<<i, n>>] = num[n]
  /\ DOMAIN kids \ gone \subseteq DOMAIN kids' /\ (i \notin gone => DOMAIN kids' \cap gone = {})
  /\ A # {} => i \in DOMAIN kids'
  /\ i \in DOMAIN kids' => kids'[i] = (ChildrenOf(i) \ gone) \cup {num[n] : n \in A}
  /\ \A k \in DOMAIN kids' \ {i} :
       \/ k \in DOMAIN kids /\ kids'[k] = kids[k]
       \/ k \in next..(next' - 1) /\ kids'[k] = {}

LEMMA Intervals ==
  \A a, b \in Nat : a <= b => /\ 1..(a - 1) \subseteq 1..(b - 1)
                             /\ \A k \in 1..(b - 1) : k \in 1..(a - 1) \/ k \in a..(b - 1)
OBVIOUS

LEMMA AfterInterval ==
  \A a, b \in Nat : a > 1 => \A k \in a..(b - 1) : k \in 1..(b - 1) /\ k \notin 1..(a - 1) /\ k # 1
OBVIOUS

LEMMA GrowsLinks ==
  ASSUME TypeOK, LinkInv, NEW i \in Inos, NEW A \in SUBSET Names, NEW num,
         NEW gone \in SUBSET ChildrenOf(i), Grows(i, A, num, gone)
  PROVE  LinkInv'
<1> USE NamesAssumption
<1>1. /\ next \in Nat /\ next > 1 /\ Inos = 1..(next - 1) /\ Root \in Inos /\ Root = 1
      /\ DOMAIN kids \subseteq Inos /\ next' \in Nat /\ Inos' = 1..(next' - 1)
      /\ \A k \in next..(next' - 1) : k \notin Inos /\ k # Root
  <2>1. next \in Nat /\ Inos = 1..(next - 1) /\ Root \in Inos /\ DOMAIN kids \subseteq Inos
    BY Zenon DEF TypeOK
  <2>2. next' \in Nat /\ Inos' = 1..(next' - 1)
    BY Zenon DEF Grows
  <2>3. next > 1 /\ Root = 1
    BY <2>1 DEF Root
  <2> QED
    BY <2>1, <2>2, <2>3, AfterInterval, Zenon
<1>2. \A k \in ChildrenOf(i) : /\ k \in Inos /\ byIno[k].parent = i /\ byIno[k].name \in Names
                               /\ <<i, byIno[k].name>> \in DOMAIN entry /\ entry[<<i, byIno[k].name>>] = k
                               /\ k # i /\ k # Root
  <2> SUFFICES ASSUME NEW k \in ChildrenOf(i)
               PROVE  /\ k \in Inos /\ byIno[k].parent = i /\ byIno[k].name \in Names
                      /\ <<i, byIno[k].name>> \in DOMAIN entry /\ entry[<<i, byIno[k].name>>] = k
                      /\ k # i /\ k # Root
    BY Zenon
  <2>1. i \in DOMAIN kids /\ k \in kids[i]
    BY Zenon DEF ChildrenOf
  <2>2. k \in Inos /\ byIno[k].parent = i /\ byIno[k].name \in Names
    BY <2>1, Zenon DEF TypeOK, LinkInv
  <2>3. k # Root
    BY <2>2, Zenon DEF LinkInv
  <2>4. k # i
    BY <1>1, <2>2, <2>3 DEF LinkInv
  <2> QED
    BY <2>1, <2>2, <2>3, <2>4 DEF LinkInv
<1>3. \A j \in Inos, n \in Names : <<j, n>> \in DOMAIN entry =>
        entry[<<j, n>>] \in Inos /\ byIno[entry[<<j, n>>]].parent = j /\ byIno[entry[<<j, n>>]].name = n
  BY DEF TypeOK, LinkInv
\* What Grows says, in terms of inodes and names.
<1>a. \A k \in Inos : /\ k \in Inos' /\ byIno'[k].kind = byIno[k].kind
                      /\ byIno'[k].parent = byIno[k].parent /\ byIno'[k].name = byIno[k].name
  BY Zenon DEF Grows, NodesKeep
<1>b. \A k : k \in Inos' /\ k \notin Inos <=> k \in next..(next' - 1)
  <2>1. next \in Nat /\ next > 1 /\ next' \in Nat
    BY <1>1, Zenon
  <2>2. \A k : k \in 1..(next' - 1) /\ k \notin 1..(next - 1) <=> k \in next..(next' - 1)
    BY <2>1
  <2>3. Inos = 1..(next - 1) /\ Inos' = 1..(next' - 1)
    BY <1>1, Zenon
  <2> QED
    BY <2>2, <2>3, Zenon
<1>c. \A n \in A : /\ num[n] \in Inos' /\ num[n] \notin Inos
                   /\ byIno'[num[n]].parent = i /\ byIno'[num[n]].name = n
                   /\ byIno'[num[n]].kind = "dir" => num[n] \in DOMAIN kids'
  <2>1. \A n \in A : num[n] \in next..(next' - 1)
    BY Zenon DEF Grows
  <2>2. \A k \in next..(next' - 1) : k \in Inos' /\ k \notin Inos
    BY <1>b, Zenon
  <2>3. \A n \in A : /\ byIno'[num[n]].parent = i /\ byIno'[num[n]].name = n
                     /\ byIno'[num[n]].kind = "dir" => num[n] \in DOMAIN kids'
    BY Zenon DEF Grows
  <2> QED
    BY <2>1, <2>2, <2>3, Zenon
<1>d. \A k \in Inos' : k \notin Inos => \E n \in A : num[n] = k
  BY <1>b, Zenon DEF Grows
<1>e. \A n \in A : <<i, n>> \in DOMAIN entry' /\ entry'[<<i, n>>] = num[n] /\ <<i, n>> \notin DOMAIN entry
  BY Zenon DEF Grows
<1>f. \A e \in DOMAIN entry' : (\E n \in A : e = <<i, n>>) \/ (/\ e \in DOMAIN entry /\ entry'[e] = entry[e]
                                                               /\ \A k \in gone : e # <<i, byIno[k].name>>)
  BY DEF Grows
<1>g. \A e \in DOMAIN entry : \E j \in Inos, n \in Names : e = <<j, n>>
  BY DEF TypeOK
<1>h. \A e \in DOMAIN entry : (\A k \in gone : e # <<i, byIno[k].name>>) => e \in DOMAIN entry' /\ entry'[e] = entry[e]
  BY DEF Grows
\* What an entry is afterwards.
<1>4. \A j \in Inos', n \in Names : <<j, n>> \in DOMAIN entry' =>
        \/ j = i /\ n \in A /\ entry'[<<j, n>>] = num[n]
        \/ /\ j \in Inos /\ <<j, n>> \in DOMAIN entry /\ entry'[<<j, n>>] = entry[<<j, n>>]
           /\ entry[<<j, n>>] \notin gone
  <2> SUFFICES ASSUME NEW j \in Inos', NEW n \in Names, <<j, n>> \in DOMAIN entry',
                      ~(j = i /\ n \in A)
               PROVE  /\ j \in Inos /\ <<j, n>> \in DOMAIN entry /\ entry'[<<j, n>>] = entry[<<j, n>>]
                      /\ entry[<<j, n>>] \notin gone
    BY <1>e, Zenon
  <2>1. /\ <<j, n>> \in DOMAIN entry /\ entry'[<<j, n>>] = entry[<<j, n>>]
        /\ \A k \in gone : <<j, n>> # <<i, byIno[k].name>>
    BY <1>f, Zenon
  <2>2. j \in Inos
    BY <1>g, <2>1, Zenon
  <2>3. ASSUME entry[<<j, n>>] \in gone PROVE FALSE
    <3>1. PICK k \in gone : k = entry[<<j, n>>]
      BY <2>3, Zenon
    <3>2. byIno[k].parent = i /\ byIno[k].parent = j /\ byIno[k].name = n
      BY <1>2, <1>3, <2>1, <2>2, <3>1, Zenon
    <3> QED
      BY <2>1, <3>2, Zenon
  <2> QED
    BY <2>1, <2>2, <2>3, Zenon
<1>5. \A e \in DOMAIN entry' : \E j \in Inos', n \in Names : e = <<j, n>>
  BY <1>a, <1>f, <1>g
<1>6. byIno'[Root].name = NoName /\ \A k \in Inos' \ {Root} : byIno'[k].parent < k
  <2>1. byIno'[Root].name = NoName
    BY <1>1, <1>a, Zenon DEF LinkInv
  <2>2. \A k \in Inos \ {Root} : byIno'[k].parent < k
    BY <1>a, Zenon DEF LinkInv
  <2>3. \A k \in Inos' : k \notin Inos => byIno'[k].parent = i
    BY <1>c, <1>d
  <2>4. \A k \in Inos' : k \notin Inos => i < k
    BY <1>1
  <2> QED
    BY <2>1, <2>2, <2>3, <2>4, Zenon
<1>7. \A j \in Inos', n \in Names : <<j, n>> \in DOMAIN entry' =>
        byIno'[entry'[<<j, n>>]].parent = j /\ byIno'[entry'[<<j, n>>]].name = n
  BY <1>3, <1>4, <1>a, <1>c
\* An entry that does not go stays.
<1>8. ASSUME NEW j \in Inos, NEW n \in Names, <<j, n>> \in DOMAIN entry, entry[<<j, n>>] \notin gone
      PROVE  <<j, n>> \in DOMAIN entry' /\ entry'[<<j, n>>] = entry[<<j, n>>]
  <2>1. ASSUME NEW k \in gone, <<j, n>> = <<i, byIno[k].name>> PROVE FALSE
    <3>1. j = i /\ n = byIno[k].name
      BY <2>1, Zenon
    <3> QED
      BY <1>2, <1>8, <3>1, Zenon
  <2> QED
    BY <1>8, <1>h, <2>1, Zenon
<1>i. \A k \in DOMAIN kids' \ {i} : \/ k \in DOMAIN kids /\ kids'[k] = kids[k]
                                    \/ k \notin Inos /\ kids'[k] = {}
  <2>1. \A k \in DOMAIN kids' \ {i} : \/ k \in DOMAIN kids /\ kids'[k] = kids[k]
                                      \/ k \in next..(next' - 1) /\ kids'[k] = {}
    BY Zenon DEF Grows
  <2>2. \A k \in next..(next' - 1) : k \notin Inos
    BY <1>b, Zenon
  <2> QED
    BY <2>1, <2>2, Zenon
<1>j. DOMAIN kids \ gone \subseteq DOMAIN kids'
  BY Zenon DEF Grows
<1>k. i \in DOMAIN kids' => kids'[i] = (ChildrenOf(i) \ gone) \cup {num[n] : n \in A}
  BY Zenon DEF Grows
<1>9. ASSUME NEW j \in DOMAIN kids', NEW k \in kids'[j]
      PROVE  /\ byIno'[k].parent = j /\ byIno'[k].name \in Names
             /\ <<j, byIno'[k].name>> \in DOMAIN entry' /\ entry'[<<j, byIno'[k].name>>] = k
  <2>1. ASSUME NEW n \in A, j = i, k = num[n]
        PROVE  /\ byIno'[k].parent = j /\ byIno'[k].name \in Names
               /\ <<j, byIno'[k].name>> \in DOMAIN entry' /\ entry'[<<j, byIno'[k].name>>] = k
    <3>1. byIno'[k].parent = i /\ byIno'[k].name = n
      BY <1>c, <2>1, Zenon
    <3> QED
      BY <1>e, <2>1, <3>1, Zenon
  <2>2. CASE j = i /\ k \in ChildrenOf(i) \ gone
    <3>1. /\ k \in Inos /\ byIno[k].parent = i /\ byIno[k].name \in Names
          /\ <<i, byIno[k].name>> \in DOMAIN entry /\ entry[<<i, byIno[k].name>>] = k
      BY <1>2, <2>2, Zenon
    <3>2. <<i, byIno[k].name>> \in DOMAIN entry' /\ entry'[<<i, byIno[k].name>>] = k
      BY <1>8, <2>2, <3>1, Zenon
    <3> QED
      BY <1>a, <2>2, <3>1, <3>2, Zenon
  <2>3. CASE j # i
    <3>1. j \in DOMAIN kids /\ k \in kids[j] /\ j \in Inos
      BY <1>1, <1>9, <1>i, <2>3
    <3>2. /\ k \in Inos /\ byIno[k].parent = j /\ byIno[k].name \in Names
          /\ <<j, byIno[k].name>> \in DOMAIN entry /\ entry[<<j, byIno[k].name>>] = k
      BY <3>1, Zenon DEF LinkInv, TypeOK
    <3>3. k \notin gone
      BY <1>2, <2>3, <3>2, Zenon
    <3>4. <<j, byIno[k].name>> \in DOMAIN entry' /\ entry'[<<j, byIno[k].name>>] = k
      BY <1>8, <3>1, <3>2, <3>3, Zenon
    <3> QED
      BY <1>a, <3>2, <3>4, Zenon
  <2>4. j = i => k \in ChildrenOf(i) \ gone \/ \E n \in A : k = num[n]
    BY <1>9, <1>k, Zenon
  <2> QED
    BY <2>1, <2>2, <2>3, <2>4, Zenon
<1>10. ASSUME NEW j \in Inos', Linked(j)', byIno'[j].kind = "dir"
       PROVE  /\ j \in DOMAIN kids'
              /\ \A n \in Names : <<j, n>> \in DOMAIN entry' => entry'[<<j, n>>] \in kids'[j]
  <2>1. CASE j \in Inos
    <3>1. Linked(j) /\ byIno[j].kind = "dir" /\ j \notin gone
      <4>1. CASE j = Root
        BY <1>2, <1>10, <1>a, <2>1, <4>1, Zenon DEF Linked
      <4>2. CASE j # Root
        <5> DEFINE e == <<byIno[j].parent, byIno[j].name>>
        <5>1. e \in DOMAIN entry' /\ entry'[e] = j
          BY <1>10, <1>a, <2>1, <4>2, Zenon DEF Linked
        <5>2. byIno[j].parent \in Inos' /\ byIno[j].name \in Names
          BY <1>5, <5>1, Zenon
        <5>3. e \in DOMAIN entry /\ entry[e] = j /\ j \notin gone
          BY <1>4, <1>c, <2>1, <5>1, <5>2
        <5> QED
          BY <1>10, <1>a, <2>1, <5>3, Zenon DEF Linked
      <4> QED
        BY <4>1, <4>2, Zenon
    <3>2. /\ j \in DOMAIN kids
          /\ \A n \in Names : <<j, n>> \in DOMAIN entry => entry[<<j, n>>] \in kids[j]
      BY <2>1, <3>1, Zenon DEF LinkInv
    <3>3. j \in DOMAIN kids'
      BY <1>j, <3>1, <3>2, Zenon
    <3>4. CASE j = i
      <4>1. kids'[j] = (kids[j] \ gone) \cup {num[n] : n \in A}
        BY <1>k, <3>2, <3>3, <3>4, Zenon DEF ChildrenOf
      <4> QED
        BY <1>4, <3>2, <3>3, <3>4, <4>1, Zenon
    <3>5. CASE j # i
      <4>1. kids'[j] = kids[j]
        BY <1>i, <2>1, <3>3, <3>5, Zenon
      <4> QED
        BY <1>4, <1>10, <3>2, <3>3, <3>5, <4>1, Zenon
    <3> QED
      BY <3>4, <3>5, Zenon
  <2>2. CASE j \notin Inos
    <3>1. j \in DOMAIN kids'
      BY <1>10, <1>c, <1>d, <2>2
    <3>2. \A n \in Names : <<j, n>> \notin DOMAIN entry'
      BY <1>4, <1>10, <2>2, Zenon
    <3> QED
      BY <3>1, <3>2, Zenon
  <2> QED
    BY <2>1, <2>2, Zenon
<1> QED
  BY <1>6, <1>7, <1>9, <1>10, Zenon DEF LinkInv

(***************************************************************************)
(* Nodes and numbers                                                       *)
(***************************************************************************)

LEMMA Numbers ==
  ASSUME next \in Nat, NEW A \in SUBSET Names, NEW num \in Numberings(A)
  PROVE  /\ Cardinality(A) \in Nat
         /\ Range(num) = next..(next + Cardinality(A) - 1)
         /\ \A n \in A : num[n] \in Range(num)
         /\ \A m, n \in A : num[m] = num[n] => m = n
         /\ \A k \in Range(num) : \E n \in A : num[n] = k
         /\ \A n \in A : (CHOOSE m \in A : num[m] = num[n]) = n
<1>1. Cardinality(A) \in Nat
  BY NamesAssumption, FS_Subset, FS_CardinalityType, Zenon
<1> DEFINE T == next..(next + Cardinality(A) - 1)
<1>2. num \in Bijection(A, T)
  BY Zenon DEF Numberings
<1>3. num \in Injection(A, T) /\ num \in Surjection(A, T)
  BY <1>2, Zenon DEF Bijection
<1>4. num \in [A -> T] /\ \A k \in T : \E n \in A : num[n] = k
  BY <1>3, Zenon DEF Surjection
<1>5. \A m, n \in A : num[m] = num[n] => m = n
  BY <1>3, Zenon DEF Injection, IsInjective
<1>6. Range(num) = T
  BY <1>4, Zenon DEF Range
<1>7. \A n \in A : (CHOOSE m \in A : num[m] = num[n]) = n
  BY <1>5, Zenon
<1> HIDE DEF T
<1> QED
  BY <1>1, <1>4, <1>5, <1>6, <1>7, Zenon DEF T

Fields == {"kind", "parent", "name", "ver", "loaded", "path"}

\* x is a node like y, but for its version and whether it is loaded.
Alike(x, y) ==
  /\ DOMAIN x = DOMAIN y /\ x.kind = y.kind /\ x.parent = y.parent /\ x.name = y.name /\ x.path = y.path
  /\ y.loaded \in BOOLEAN => x.loaded \in BOOLEAN

LEMMA KeptAlike ==
  ASSUME TypeOK, NEW k \in Inos, NEW i, NEW dirs, NEW files
  PROVE  Alike(Kept(k, i, dirs, files), byIno[k])
<1>1. DOMAIN byIno[k] = Fields /\ byIno[k].loaded \in BOOLEAN
  BY Zenon DEF TypeOK, IsNode, Fields
<1>2. Alike([byIno[k] EXCEPT !.loaded = TRUE], byIno[k])
  BY <1>1, Zenon DEF Alike, Fields
<1>3. ASSUME NEW v PROVE Alike([byIno[k] EXCEPT !.ver = v], byIno[k])
  BY <1>1, Zenon DEF Alike, Fields
<1>4. Alike(byIno[k], byIno[k])
  BY Zenon DEF Alike
<1> QED
  BY <1>2, <1>3, <1>4, Zenon DEF Kept

LEMMA NodeIs ==
  ASSUME TypeOK, NEW i \in Inos, NEW n \in Names, NEW v, NEW kind \in {"dir", "file"}
  PROVE  LET x == Node(kind, i, n, v) IN
         /\ DOMAIN x = Fields /\ x.kind = kind /\ x.parent = i /\ x.name = n
         /\ x.loaded = FALSE /\ x.path \in Seq(Names)
<1>1. byIno[i].path \in Seq(Names)
  BY Zenon DEF TypeOK, IsNode
<1>2. Append(byIno[i].path, n) \in Seq(Names)
  BY <1>1
<1> QED
  BY <1>2, Zenon DEF Node, Fields

\* New nodes come after the old ones, which stay alike.
LEMMA NodesType ==
  ASSUME TypeOK, next' \in Nat, next' >= next, Inos' = 1..(next' - 1),
         \A k \in Inos : Alike(byIno'[k], byIno[k]),
         \A k \in next..(next' - 1) :
           /\ DOMAIN byIno'[k] = Fields /\ byIno'[k].kind \in {"dir", "file"} /\ byIno'[k].parent \in Inos
           /\ byIno'[k].name \in Names /\ byIno'[k].loaded \in BOOLEAN /\ byIno'[k].path \in Seq(Names)
  PROVE  /\ \A k \in Inos' : IsNode(byIno[k])'
         /\ NodesKeep /\ Inos \subseteq Inos' /\ Root \in Inos'
<1>1. next \in Nat /\ Inos = 1..(next - 1) /\ Root \in Inos
  BY Zenon DEF TypeOK
<1>2. Inos \subseteq Inos' /\ \A k \in Inos' : k \in Inos \/ k \in next..(next' - 1)
  BY <1>1, Intervals, Zenon
<1>3. NodesKeep
  BY <1>2, Zenon DEF NodesKeep, Alike
<1>4. \A k \in Inos : IsNode(byIno[k])'
  BY <1>2, SMTT(30) DEF TypeOK, IsNode, Alike
<1>5. \A k \in next..(next' - 1) : IsNode(byIno[k])'
  BY <1>2, Zenon DEF IsNode, Fields
<1> QED
  BY <1>1, <1>2, <1>3, <1>4, <1>5, Zenon

LEMMA GrowsType ==
  ASSUME TypeOK, NEW i \in Inos, NEW A \in SUBSET Names, NEW num,
         NEW gone \in SUBSET ChildrenOf(i), Grows(i, A, num, gone), Inos \subseteq Inos'
  PROVE  /\ DOMAIN entry' \subseteq Inos' \X Names /\ \A e \in DOMAIN entry' : entry'[e] \in Inos'
         /\ DOMAIN kids' \subseteq Inos' /\ \A k \in DOMAIN kids' : kids'[k] \subseteq Inos'
<1>1. /\ next \in Nat /\ Inos = 1..(next - 1) /\ next' \in Nat /\ Inos' = 1..(next' - 1) /\ next' >= next
      /\ Root \in Inos /\ Root = 1
  BY Zenon DEF TypeOK, Grows, Root
<1>2. \A k \in next..(next' - 1) : k \in Inos'
  <2>1. next > 1
    BY <1>1
  <2> QED
    BY <1>1, <2>1, AfterInterval, Zenon
<1>3. \A n \in A : num[n] \in Inos'
  BY <1>2, Zenon DEF Grows
<1>4. /\ DOMAIN entry \subseteq Inos \X Names /\ \A e \in DOMAIN entry : entry[e] \in Inos
      /\ DOMAIN kids \subseteq Inos /\ \A k \in DOMAIN kids : kids[k] \subseteq Inos
  BY Zenon DEF TypeOK
<1>a. /\ DOMAIN entry' = (DOMAIN entry \ {<<i, byIno[k].name>> : k \in gone}) \cup ({i} \X A)
      /\ \A e \in DOMAIN entry \cap DOMAIN entry' : entry'[e] = entry[e]
      /\ \A n \in A : entry'[<<i, n>>] = num[n]
  BY Zenon DEF Grows
<1>5. DOMAIN entry' \subseteq Inos' \X Names
  BY <1>4, <1>a
<1>6. \A e \in DOMAIN entry' : entry'[e] \in Inos'
  BY <1>3, <1>4, <1>a
<1>7. \A k \in DOMAIN kids' \ {i} : k \in Inos' /\ kids'[k] \subseteq Inos'
  BY <1>2, <1>4, Zenon DEF Grows
<1>8. i \in DOMAIN kids' => i \in Inos' /\ kids'[i] \subseteq Inos'
  BY <1>3, <1>4 DEF Grows, ChildrenOf
<1> QED
  BY <1>5, <1>6, <1>7, <1>8, Zenon

\* The write-locked part of a listing.
LEMMA ApplyGrows ==
  ASSUME TypeOK, NEW t \in Threads, Apply(t)
  PROVE  /\ \A k \in Inos' : IsNode(byIno[k])'
         /\ Root \in Inos' /\ Inos \subseteq Inos'
         /\ \E A \in SUBSET Names, gone \in SUBSET ChildrenOf(task[t].ino) :
              \E num : Grows(task[t].ino, A, num, gone)
<1> DEFINE i == task[t].ino
           dirs == task[t].dirs
           files == task[t].files
           listed == dirs \cup DOMAIN files
           fresh == Fresh(i, listed)
<1>1. i \in Inos /\ dirs \subseteq Names /\ DOMAIN files \subseteq Names
  BY Zenon DEF TypeOK, IsTask
<1>2. fresh \subseteq Names /\ \A n \in fresh : <<i, n>> \notin DOMAIN entry
  BY <1>1, Zenon DEF Fresh
<1>a. PICK A \in SUBSET fresh : \E num \in Numberings(A) :
       LET seen == A \cup (listed \ fresh)
           gone == Gone(i, seen)
           made == Range(num)
       IN /\ byIno' = [k \in Inos \cup made |->
                         IF k \in made THEN Made(i, CHOOSE n \in A : num[n] = k, dirs, files)
                                       ELSE Kept(k, i, dirs, files)]
          /\ next' = next + Cardinality(A)
          /\ entry' = [e \in (DOMAIN entry \ {<<i, byIno[k].name>> : k \in gone})
                               \cup ({i} \X A) |->
                         IF e \in DOMAIN entry THEN entry[e] ELSE num[e[2]]]
          /\ kids' = [k \in (DOMAIN kids \ gone) \cup (IF A = {} THEN {} ELSE {i})
                              \cup {num[n] : n \in A \cap dirs} |->
                        IF k = i THEN (ChildrenOf(i) \ gone) \cup made
                        ELSE IF k \in made THEN {} ELSE kids[k]]
  BY ZenonT(40) DEF Apply
<1>3. PICK num \in Numberings(A) :
       LET seen == A \cup (listed \ fresh)
           gone == Gone(i, seen)
           made == Range(num)
       IN /\ byIno' = [k \in Inos \cup made |->
                         IF k \in made THEN Made(i, CHOOSE n \in A : num[n] = k, dirs, files)
                                       ELSE Kept(k, i, dirs, files)]
          /\ next' = next + Cardinality(A)
          /\ entry' = [e \in (DOMAIN entry \ {<<i, byIno[k].name>> : k \in gone})
                               \cup ({i} \X A) |->
                         IF e \in DOMAIN entry THEN entry[e] ELSE num[e[2]]]
          /\ kids' = [k \in (DOMAIN kids \ gone) \cup (IF A = {} THEN {} ELSE {i})
                              \cup {num[n] : n \in A \cap dirs} |->
                        IF k = i THEN (ChildrenOf(i) \ gone) \cup made
                        ELSE IF k \in made THEN {} ELSE kids[k]]
  BY <1>a, Zenon
<1> DEFINE gone == Gone(i, A \cup (listed \ fresh))
           made == Range(num)
<1>4. next \in Nat /\ Inos = 1..(next - 1) /\ Root \in Inos /\ DOMAIN kids \subseteq Inos
  BY Zenon DEF TypeOK
<1>5. A \in SUBSET Names /\ num \in Numberings(A)
  BY <1>2, <1>3, Zenon
<1>6. /\ Cardinality(A) \in Nat /\ made = next..(next + Cardinality(A) - 1)
      /\ \A n \in A : num[n] \in made
      /\ \A m, n \in A : num[m] = num[n] => m = n
      /\ \A k \in made : \E n \in A : num[n] = k
      /\ \A n \in A : (CHOOSE m \in A : num[m] = num[n]) = n
  BY <1>4, <1>5, Numbers, Zenon
<1>7. next' = next + Cardinality(A) /\ next' \in Nat /\ next' >= next /\ made = next..(next' - 1)
  BY <1>3, <1>4, <1>6
<1> HIDE DEF made, gone
<1>8. \A k \in made : k \notin Inos /\ k # i
  BY <1>1, <1>4, <1>7
<1>9. /\ Inos' = Inos \cup made
      /\ \A k \in Inos : byIno'[k] = Kept(k, i, dirs, files)
      /\ \A n \in A : byIno'[num[n]] = Made(i, n, dirs, files)
  <2>1. byIno' = [k \in Inos \cup made |->
                    IF k \in made THEN Made(i, CHOOSE n \in A : num[n] = k, dirs, files)
                                  ELSE Kept(k, i, dirs, files)]
    BY <1>3, Zenon DEF made
  <2>2. DOMAIN byIno' = Inos \cup made
    BY <2>1, Zenon
  <2>3. \A k \in Inos : byIno'[k] = Kept(k, i, dirs, files)
    BY <1>8, <2>1, Zenon
  <2>4. ASSUME NEW n \in A PROVE byIno'[num[n]] = Made(i, n, dirs, files)
    BY <1>6, <2>1, Zenon
  <2> QED
    BY <2>2, <2>3, <2>4, Zenon DEF Inos
<1>10. Inos' = 1..(next' - 1)
  <2>1. (1..(next - 1)) \cup (next..(next' - 1)) = 1..(next' - 1)
    <3>1. next >= 1
      BY <1>4 DEF Root
    <3> QED
      BY <1>4, <1>7, <3>1, SMTT(30)
  <2> QED
    BY <1>4, <1>7, <1>9, <2>1, Zenon
<1>11. \A k \in Inos : Alike(byIno'[k], byIno[k])
  BY <1>9, KeptAlike
<1>12. ASSUME NEW n \in A
       PROVE  /\ DOMAIN byIno'[num[n]] = Fields /\ byIno'[num[n]].parent = i /\ byIno'[num[n]].name = n
              /\ byIno'[num[n]].kind = (IF n \in dirs THEN "dir" ELSE "file")
              /\ byIno'[num[n]].loaded = FALSE /\ byIno'[num[n]].path \in Seq(Names)
  <2>1. n \in Names
    BY <1>5, Zenon
  <2>2. CASE n \in dirs
    <3>1. byIno'[num[n]] = Node("dir", i, n, 0)
      BY <1>9, <2>2, Zenon DEF Made
    <3> DEFINE x == Node("dir", i, n, 0)
    <3>2. /\ DOMAIN x = Fields /\ x.kind = "dir" /\ x.parent = i /\ x.name = n
          /\ x.loaded = FALSE /\ x.path \in Seq(Names)
      BY <1>1, <2>1, NodeIs, Zenon
    <3> HIDE DEF x
    <3>3. byIno'[num[n]] = x
      BY <3>1, Zenon DEF x
    <3> QED
      BY <2>2, <3>2, <3>3, Zenon
  <2>3. CASE n \notin dirs
    <3>1. byIno'[num[n]] = Node("file", i, n, files[n])
      BY <1>9, <2>3, Zenon DEF Made
    <3> DEFINE x == Node("file", i, n, files[n])
    <3>2. /\ DOMAIN x = Fields /\ x.kind = "file" /\ x.parent = i /\ x.name = n
          /\ x.loaded = FALSE /\ x.path \in Seq(Names)
      BY <1>1, <2>1, NodeIs, Zenon
    <3> HIDE DEF x
    <3>3. byIno'[num[n]] = x
      BY <3>1, Zenon DEF x
    <3> QED
      BY <2>3, <3>2, <3>3, Zenon
  <2> QED
    BY <2>2, <2>3, Zenon
<1>13. \A k \in next..(next' - 1) :
           /\ DOMAIN byIno'[k] = Fields /\ byIno'[k].kind \in {"dir", "file"} /\ byIno'[k].parent \in Inos
           /\ byIno'[k].name \in Names /\ byIno'[k].loaded \in BOOLEAN /\ byIno'[k].path \in Seq(Names)
  <2> SUFFICES ASSUME NEW k \in made
               PROVE  /\ DOMAIN byIno'[k] = Fields /\ byIno'[k].kind \in {"dir", "file"}
                      /\ byIno'[k].parent \in Inos
                      /\ byIno'[k].name \in Names /\ byIno'[k].loaded \in BOOLEAN /\ byIno'[k].path \in Seq(Names)
    BY <1>7, Zenon
  <2>1. PICK n \in A : num[n] = k
    BY <1>6, Zenon
  <2> QED
    BY <1>1, <1>5, <1>12, <2>1, Zenon
<1>14. /\ \A k \in Inos' : IsNode(byIno[k])'
       /\ NodesKeep /\ Inos \subseteq Inos' /\ Root \in Inos'
  BY <1>7, <1>10, <1>11, <1>13, NodesType, Zenon
<1>15. gone \in SUBSET ChildrenOf(i)
  BY Zenon DEF gone, Gone
<1>16. /\ DOMAIN entry' = (DOMAIN entry \ {<<i, byIno[k].name>> : k \in gone}) \cup ({i} \X A)
       /\ \A e \in DOMAIN entry \cap DOMAIN entry' : entry'[e] = entry[e]
       /\ \A n \in A : entry'[<<i, n>>] = num[n]
  <2>1. entry' = [e \in (DOMAIN entry \ {<<i, byIno[k].name>> : k \in gone}) \cup ({i} \X A) |->
                    IF e \in DOMAIN entry THEN entry[e] ELSE num[e[2]]]
    BY <1>3, Zenon DEF gone
  <2>2. \A n \in A : <<i, n>> \notin DOMAIN entry
    BY <1>2, Zenon
  <2> QED
    BY <2>1, <2>2, Zenon
<1>17. kids' = [k \in (DOMAIN kids \ gone) \cup (IF A = {} THEN {} ELSE {i})
                              \cup {num[n] : n \in A \cap dirs} |->
                  IF k = i THEN (ChildrenOf(i) \ gone) \cup made
                  ELSE IF k \in made THEN {} ELSE kids[k]]
  BY <1>3, Zenon DEF gone, made
<1>18. made = {num[n] : n \in A}
  BY <1>6
<1>19. gone \subseteq Inos /\ i \in Inos
  BY <1>1, <1>15, Zenon DEF TypeOK, ChildrenOf
<1>20. i \notin gone => DOMAIN kids' \cap gone = {}
  BY <1>6, <1>8, <1>17, <1>19
<1>21. /\ DOMAIN kids \ gone \subseteq DOMAIN kids'
       /\ A # {} => i \in DOMAIN kids'
       /\ i \in DOMAIN kids' => kids'[i] = (ChildrenOf(i) \ gone) \cup {num[n] : n \in A}
  BY <1>17, <1>18, Zenon
<1>22. \A k \in DOMAIN kids' \ {i} :
         \/ k \in DOMAIN kids /\ kids'[k] = kids[k]
         \/ k \in next..(next' - 1) /\ kids'[k] = {}
  BY <1>4, <1>6, <1>7, <1>8, <1>17, SMTT(30)
<1>23. \A n \in A : byIno'[num[n]].kind = "dir" => num[n] \in DOMAIN kids'
  BY <1>12, <1>17, Zenon
<1>24. Grows(i, A, num, gone)
  <2>1. \A n \in A : /\ num[n] \in next..(next' - 1) /\ <<i, n>> \notin DOMAIN entry
                     /\ byIno'[num[n]].parent = i /\ byIno'[num[n]].name = n
                     /\ byIno'[num[n]].kind = "dir" => num[n] \in DOMAIN kids'
    BY <1>2, <1>6, <1>7, <1>12, <1>23, Zenon
  <2>2. \A k \in next..(next' - 1) : \E n \in A : num[n] = k
    BY <1>6, <1>7, Zenon
  <2> QED
    BY <1>6, <1>7, <1>10, <1>14, <1>16, <1>20, <1>21, <1>22, <2>1, <2>2, ZenonT(40) DEF Grows
<1>25. \E B \in SUBSET Names, g \in SUBSET ChildrenOf(i) : \E u : Grows(i, B, u, g)
  BY <1>5, <1>15, <1>24, Zenon
<1> QED
  BY <1>14, <1>25, Zenon

\* A file found by HEAD.
LEMMA UpsertGrows ==
  ASSUME TypeOK, NEW t \in Threads, Upsert(t), task[t].name \in Names
  PROVE  /\ \A k \in Inos' : IsNode(byIno[k])'
         /\ Root \in Inos' /\ Inos \subseteq Inos'
         /\ \E A \in SUBSET Names, gone \in SUBSET ChildrenOf(task[t].ino) :
              \E num : Grows(task[t].ino, A, num, gone)
<1>1. /\ next \in Nat /\ Inos = 1..(next - 1) /\ Root \in Inos /\ DOMAIN kids \subseteq Inos
      /\ task[t].ino \in Inos
  BY Zenon DEF TypeOK, IsTask
<1>2. CASE <<task[t].ino, task[t].name>> \in DOMAIN entry
  <2> DEFINE k == entry[<<task[t].ino, task[t].name>>]
             v == task[t].files[task[t].name]
  <2>1. /\ byIno' = IF byIno[k].kind = "file" THEN [byIno EXCEPT ![k].ver = v] ELSE byIno
        /\ UNCHANGED <<entry, kids, next>>
    BY <1>2, Zenon DEF Upsert
  <2> HIDE DEF k, v
  <2>2. ASSUME NEW j \in Inos PROVE j \in Inos' /\ Alike(byIno'[j], byIno[j])
    <3>1. DOMAIN byIno[j] = Fields /\ byIno[j].loaded \in BOOLEAN
      BY Zenon DEF TypeOK, IsNode, Fields
    <3> QED
      BY <2>1, <3>1, Zenon DEF Inos, Alike, Fields
  <2>3. Inos' = Inos /\ next' = next
    BY <2>1, Zenon DEF Inos
  <2>4. \A j : j \notin next..(next' - 1)
    BY <1>1, <2>3
  <2>5. next' \in Nat /\ next' >= next /\ Inos' = 1..(next' - 1)
    BY <1>1, <2>3
  <2>6. /\ \A j \in Inos' : IsNode(byIno[j])'
        /\ NodesKeep /\ Inos \subseteq Inos' /\ Root \in Inos'
    BY <2>2, <2>4, <2>5, NodesType, Zenon
  <2>7. entry' = entry /\ kids' = kids
    BY <2>1, Zenon
  <2>8. task[t].ino \in DOMAIN kids' => kids'[task[t].ino] = (ChildrenOf(task[t].ino) \ {}) \cup {}
    BY <2>7, Zenon DEF ChildrenOf
  <2>9. Grows(task[t].ino, {}, <<>>, {})
    BY <2>4, <2>5, <2>6, <2>7, <2>8, Zenon DEF Grows
  <2>10. \E A \in SUBSET Names, gone \in SUBSET ChildrenOf(task[t].ino) :
           \E num : Grows(task[t].ino, A, num, gone)
    BY <2>9, Zenon
  <2> QED
    BY <2>6, <2>10, Zenon
<1>3. CASE <<task[t].ino, task[t].name>> \notin DOMAIN entry
  <2>1. PICK i \in Inos, n \in Names : i = task[t].ino /\ n = task[t].name
    BY <1>1, Zenon
  <2>2. PICK v : v = task[t].files[n]
    BY Zenon
  <2> DEFINE x == Node("file", i, n, v)
             num == [m \in {n} |-> next]
  <2>3. /\ byIno' = With(byIno, next, x) /\ entry' = With(entry, <<i, n>>, next)
        /\ kids' = With(kids, i, ChildrenOf(i) \cup {next}) /\ next' = next + 1
    BY <1>3, <2>1, <2>2, Zenon DEF Upsert
  <2>4. /\ DOMAIN x = Fields /\ x.kind = "file" /\ x.parent = i /\ x.name = n
        /\ x.loaded = FALSE /\ x.path \in Seq(Names)
    BY NodeIs, Zenon
  <2> HIDE DEF x
  <2>5. next' \in Nat /\ next' >= next /\ next \notin Inos /\ next >= 1 /\ next..(next' - 1) = {next}
    <3>1. next..((next + 1) - 1) = {next}
      BY <1>1
    <3> QED
      BY <1>1, <2>3, <3>1, SMTT(30) DEF Root
  <2>6. Inos' = Inos \cup {next} /\ byIno'[next] = x /\ \A j \in Inos : byIno'[j] = byIno[j]
    BY <2>3, <2>5, Zenon DEF With, Inos
  <2>7. Inos' = 1..(next' - 1)
    <3>1. (1..(next - 1)) \cup {next} = 1..((next + 1) - 1)
      BY <1>1, <2>5
    <3> QED
      BY <1>1, <2>3, <2>6, <3>1, Zenon
  <2>8. \A j \in Inos : Alike(byIno'[j], byIno[j])
    BY <2>6, Zenon DEF Alike
  <2>9. \A j \in next..(next' - 1) :
           /\ DOMAIN byIno'[j] = Fields /\ byIno'[j].kind \in {"dir", "file"} /\ byIno'[j].parent \in Inos
           /\ byIno'[j].name \in Names /\ byIno'[j].loaded \in BOOLEAN /\ byIno'[j].path \in Seq(Names)
    BY <2>4, <2>5, <2>6, Zenon
  <2>10. /\ \A j \in Inos' : IsNode(byIno[j])'
         /\ NodesKeep /\ Inos \subseteq Inos' /\ Root \in Inos'
    BY <2>5, <2>7, <2>8, <2>9, NodesType, Zenon
  <2>11. num[n] = next /\ {num[m] : m \in {n}} = {next}
    BY Zenon
  <2> HIDE DEF num
  <2>12. /\ DOMAIN entry' = (DOMAIN entry \ {<<i, byIno[k].name>> : k \in {}}) \cup ({i} \X {n})
         /\ \A e \in DOMAIN entry \cap DOMAIN entry' : entry'[e] = entry[e]
         /\ \A m \in {n} : entry'[<<i, m>>] = num[m]
    <3>1. {i} \X {n} = {<<i, n>>} /\ {<<i, byIno[k].name>> : k \in {}} = {}
      OBVIOUS
    <3> QED
      BY <1>3, <2>1, <2>3, <2>11, <3>1, Zenon DEF With
  <2>13. /\ DOMAIN kids \ {} \subseteq DOMAIN kids' /\ DOMAIN kids' \cap {} = {} /\ i \in DOMAIN kids'
         /\ kids'[i] = (ChildrenOf(i) \ {}) \cup {num[m] : m \in {n}}
         /\ \A k \in DOMAIN kids' \ {i} : k \in DOMAIN kids /\ kids'[k] = kids[k]
    BY <2>3, <2>11, Zenon DEF With
  <2>14. /\ num[n] \in next..(next' - 1) /\ <<i, n>> \notin DOMAIN entry
         /\ byIno'[num[n]].parent = i /\ byIno'[num[n]].name = n /\ byIno'[num[n]].kind = "file"
    BY <1>3, <2>1, <2>4, <2>5, <2>6, <2>11, Zenon
  <2>15. \A k \in next..(next' - 1) : num[n] = k
    BY <2>5, <2>11, Zenon
  <2>16. Grows(i, {n}, num, {})
    BY <2>5, <2>7, <2>10, <2>12, <2>13, <2>14, <2>15, Zenon DEF Grows
  <2>17. \E A \in SUBSET Names, gone \in SUBSET ChildrenOf(i) : \E u : Grows(i, A, u, gone)
    BY <2>16, Zenon
  <2> QED
    BY <2>1, <2>10, <2>17, Zenon
<1> QED
  BY <1>2, <1>3, Zenon

(***************************************************************************)
(* The calls                                                               *)
(***************************************************************************)

\* Only a lookup asks Azure for one name, and a lookup has a name.
Asks(x) ==
  /\ x.op = "lookup" => x.name \in Names
  /\ x.pc \in {"head", "upsert"} => x.op = "lookup"

AskInv == \A t \in Threads : Asks(task[t])

Inv == TypeOK /\ LinkInv /\ AskInv

LEMMA TasksKeep ==
  ASSUME TypeOK, AskInv, Inos \subseteq Inos', NEW t \in Threads, DOMAIN task' = Threads,
         \A u \in Threads \ {t} : task'[u] = task[u], IsTask(task'[t]), Asks(task'[t])
  PROVE  (\A u \in Threads : IsTask(task[u])') /\ AskInv'
<1>1. \A u \in Threads \ {t} : IsTask(task'[u]) /\ Asks(task'[u])
  BY Zenon DEF TypeOK, AskInv
<1>2. \A u \in Threads : IsTask(task'[u]) /\ Asks(task'[u])
  BY <1>1, Zenon
<1> QED
  BY <1>2, Zenon DEF IsTask, AskInv, Asks

LEMMA IdleTask ==
  ASSUME TypeOK
  PROVE  IsTask(NoTask) /\ Asks(NoTask)
<1>1. 0 \in 0..Pages
  BY PagesAssumption
<1>2. DOMAIN EmptyMap = {}
  BY Zenon DEF EmptyMap
<1>3. Root \in Inos
  BY Zenon DEF TypeOK
<1> QED
  BY <1>1, <1>2, <1>3, Zenon DEF IsTask, Asks, NoTask, Labels

\* The other threads' calls go on as they were.
LEMMA StepsAlone ==
  ASSUME TypeOK, NEW t \in Threads, Lookup(t) \/ Readdir(t) \/ Step(t)
  PROVE  DOMAIN task' = Threads /\ \A u \in Threads \ {t} : task'[u] = task[u]
<1>1. DOMAIN task = Threads
  BY Zenon DEF TypeOK
<1>2. ASSUME Lookup(t) \/ Readdir(t) PROVE DOMAIN task' = DOMAIN task /\ \A u \in Threads \ {t} : task'[u] = task[u]
  BY <1>1, <1>2, Zenon DEF Lookup, Readdir, Begin
<1>3. ASSUME Check(t) \/ ListFails(t) \/ Stamp(t)
      PROVE  DOMAIN task' = DOMAIN task /\ \A u \in Threads \ {t} : task'[u] = task[u]
  BY <1>1, <1>3, Zenon DEF Check, ListFails, Stamp, Goto, Done
<1>4. ASSUME ListPage(t) PROVE DOMAIN task' = DOMAIN task /\ \A u \in Threads \ {t} : task'[u] = task[u]
  BY <1>1, <1>4, Zenon DEF ListPage
<1>5. ASSUME Apply(t) PROVE DOMAIN task' = DOMAIN task /\ \A u \in Threads \ {t} : task'[u] = task[u]
  BY <1>1, <1>5, Zenon DEF Apply
<1>6. ASSUME Answer(t) \/ HeadBlob(t) \/ Upsert(t)
      PROVE  DOMAIN task' = DOMAIN task /\ \A u \in Threads \ {t} : task'[u] = task[u]
  BY <1>1, <1>6, Zenon DEF Answer, HeadBlob, Upsert, Goto, Done
<1> QED
  BY <1>1, <1>2, <1>3, <1>4, <1>5, <1>6, Zenon DEF Step

LEMMA TaskSteps ==
  ASSUME TypeOK, AskInv, NEW t \in Threads, Lookup(t) \/ Readdir(t) \/ Step(t)
  PROVE  IsTask(task'[t]) /\ Asks(task'[t])
<1> DEFINE x == task[t]
           y == task'[t]
<1>1. IsTask(x) /\ Asks(x) /\ DOMAIN task = Threads
  BY Zenon DEF TypeOK, AskInv
<1>2. IsTask(NoTask) /\ Asks(NoTask)
  BY IdleTask, Zenon
<1>3. Pages \in Nat \ {0} /\ 1 \in 0..Pages
  BY PagesAssumption
<1>a. DOMAIN EmptyMap = {}
  BY Zenon DEF EmptyMap
<1>4. ASSUME NEW i \in Inos, NEW n \in Names \cup {NoName}, NEW op \in {"lookup", "readdir"},
             op = "lookup" => n \in Names, Begin(t, op, i, n)
      PROVE  IsTask(y) /\ Asks(y)
  <2>1. y = [NoTask EXCEPT !.pc = "check", !.op = op, !.ino = i, !.name = n]
    BY <1>1, <1>4, Zenon DEF Begin
  <2> QED
    BY <1>2, <1>4, <2>1 DEF IsTask, Asks, NoTask, Labels
<1>5. ASSUME Lookup(t) PROVE IsTask(y) /\ Asks(y)
  BY <1>4, <1>5, Zenon DEF Lookup
<1>6. ASSUME Readdir(t) PROVE IsTask(y) /\ Asks(y)
  BY <1>4, <1>6, Zenon DEF Readdir
<1>7. ASSUME Check(t) PROVE IsTask(y) /\ Asks(y)
  <2>1. y = [x EXCEPT !.pc = "answer"] \/ y = [x EXCEPT !.pc = "list", !.page = 1]
    BY <1>1, <1>7, Zenon DEF Check, Goto
  <2> QED
    BY <1>1, <1>3, <2>1, ZenonT(40) DEF IsTask, Asks, Labels
<1>8. ASSUME ListPage(t) PROVE IsTask(y) /\ Asks(y)
  <2>1. PICK dirs \in SUBSET Names, files \in SUBSET Names :
          y = [x EXCEPT !.dirs = @ \cup dirs,
                 !.files = [n \in DOMAIN @ \cup files |->
                              IF n \in files THEN origin[Append(byIno[x.ino].path, n)] ELSE @[n]],
                 !.page = IF @ = Pages THEN 0 ELSE @ + 1,
                 !.pc = IF x.page = Pages THEN "apply" ELSE "list"]
    <3> DEFINE p == byIno[x.ino].path
               here == {n \in Names : PageOf[n] = x.page}
    <3>1. DirNames(p) \cap here \in SUBSET Names /\ FileNames(p) \cap here \in SUBSET Names
      BY Zenon
    <3> QED
      BY <1>1, <1>8, <3>1, Zenon DEF ListPage
  <2>2. (IF x.page = Pages THEN 0 ELSE x.page + 1) \in 0..Pages
    BY <1>1, <1>3 DEF IsTask
  <2>3. /\ DOMAIN y = DOMAIN x /\ y.op = x.op /\ y.ino = x.ino /\ y.name = x.name
        /\ y.page \in 0..Pages /\ y.pc \in {"apply", "list"}
        /\ y.dirs = x.dirs \cup dirs /\ DOMAIN y.files = DOMAIN x.files \cup files
    BY <1>1, <2>1, <2>2, Zenon DEF IsTask
  <2> QED
    BY <1>1, <2>3, Zenon DEF IsTask, Asks, Labels
<1>9. ASSUME ListFails(t) PROVE IsTask(y) /\ Asks(y)
  BY <1>1, <1>2, <1>9, Zenon DEF ListFails, Done
<1>10. ASSUME Apply(t) PROVE IsTask(y) /\ Asks(y)
  <2>1. y = [x EXCEPT !.pc = "stamp", !.dirs = {}, !.files = EmptyMap]
    BY <1>1, <1>10, Zenon DEF Apply
  <2> QED
    BY <1>1, <1>a, <2>1, Zenon DEF IsTask, Asks, Labels
<1>11. ASSUME Stamp(t) PROVE IsTask(y) /\ Asks(y)
  <2>1. y = [x EXCEPT !.pc = "answer"]
    BY <1>1, <1>11, Zenon DEF Stamp, Goto
  <2> QED
    BY <1>1, <2>1, Zenon DEF IsTask, Asks, Labels
<1>12. ASSUME Answer(t) PROVE IsTask(y) /\ Asks(y)
  <2>1. (x.op = "lookup" /\ y = [x EXCEPT !.pc = "head"]) \/ y = NoTask
    BY <1>1, <1>12, Zenon DEF Answer, Goto, Done
  <2> QED
    BY <1>1, <1>2, <2>1 DEF IsTask, Asks, Labels
<1>13. ASSUME HeadBlob(t) PROVE IsTask(y) /\ Asks(y)
  <2> DEFINE b == Append(byIno[x.ino].path, x.name)
  <2>1. x.pc = "head" /\ (y = [x EXCEPT !.pc = "upsert", !.files = [n \in {x.name} |-> origin[b]]] \/ y = NoTask)
    BY <1>1, <1>13, Zenon DEF HeadBlob, At, Done
  <2>2. CASE y = [x EXCEPT !.pc = "upsert", !.files = [n \in {x.name} |-> origin[b]]]
    <3>1. x.op = "lookup" /\ x.name \in Names
      BY <1>1, <2>1, Zenon DEF Asks
    <3>2. /\ DOMAIN y = DOMAIN x /\ y.op = x.op /\ y.ino = x.ino /\ y.name = x.name /\ y.page = x.page
          /\ y.pc = "upsert" /\ y.dirs = x.dirs /\ DOMAIN y.files = {x.name}
      BY <1>1, <2>2, Zenon DEF IsTask
    <3> QED
      BY <1>1, <3>1, <3>2, Zenon DEF IsTask, Asks, Labels
  <2> QED
    BY <1>2, <2>1, <2>2, Zenon
<1>14. ASSUME Upsert(t) PROVE IsTask(y) /\ Asks(y)
  BY <1>1, <1>2, <1>14, Zenon DEF Upsert, Done
<1> QED
  BY <1>5, <1>6, <1>7, <1>8, <1>9, <1>10, <1>11, <1>12, <1>13, <1>14, Zenon DEF Step

(***************************************************************************)
(* The steps                                                               *)
(***************************************************************************)

LEMMA InitInv == Init => Inv
<1> SUFFICES ASSUME Init PROVE Inv
  BY Zenon
<1> USE NamesAssumption, PagesAssumption, BlobsAssumption DEF Root
<1>1. /\ DOMAIN origin \subseteq Blobs /\ Inos = {1} /\ byIno[1] = RootNode /\ kids = [i \in {1} |-> {}]
      /\ DOMAIN entry = {} /\ next = 2 /\ recent = {} /\ changes = 0
      /\ DOMAIN task = Threads /\ \A t \in Threads : task[t] = NoTask
  BY DEF Init, Inos, EmptyMap
<1>2. {1} = 1..(next - 1) /\ next \in Nat
  BY <1>1
<1>3. <<>> \in Seq(Names)
  OBVIOUS
<1>4. \A i \in Inos : IsNode(byIno[i])
  <2>1. /\ DOMAIN RootNode = {"kind", "parent", "name", "ver", "loaded", "path"}
        /\ RootNode.kind = "dir" /\ RootNode.parent = 1 /\ RootNode.name = NoName
        /\ RootNode.loaded = FALSE /\ RootNode.path = <<>>
    BY Zenon DEF RootNode
  <2> QED
    BY <1>1, <1>3, <2>1, Zenon DEF IsNode
<1>5. IsTask(NoTask) /\ Asks(NoTask)
  <2>1. 0 \in 0..Pages /\ DOMAIN EmptyMap = {}
    BY DEF EmptyMap
  <2> QED
    BY <1>1, <2>1, Zenon DEF IsTask, Asks, NoTask, Labels
<1>6. TypeOK
  BY <1>1, <1>2, <1>4, <1>5, Zenon DEF TypeOK
<1>7. LinkInv
  BY <1>1 DEF LinkInv, RootNode
<1>8. AskInv
  BY <1>1, <1>5, Zenon DEF AskInv
<1> QED
  BY <1>6, <1>7, <1>8, Zenon DEF Inv

LEMMA TablesKept ==
  ASSUME TypeOK, LinkInv, UNCHANGED tables
  PROVE  /\ LinkInv' /\ NodesKeep /\ Inos' = Inos
         /\ next' \in Nat /\ Inos' = 1..(next' - 1) /\ Root \in Inos'
         /\ \A k \in Inos' : IsNode(byIno[k])'
         /\ DOMAIN entry' \subseteq Inos' \X Names /\ \A e \in DOMAIN entry' : entry'[e] \in Inos'
         /\ DOMAIN kids' \subseteq Inos' /\ \A k \in DOMAIN kids' : kids'[k] \subseteq Inos'
<1>1. byIno' = byIno /\ entry' = entry /\ kids' = kids /\ next' = next
  BY Zenon DEF tables
<1>2. Inos' = Inos
  BY <1>1, Zenon DEF Inos
<1>3. LinkInv'
  BY <1>1, <1>2 DEF LinkInv, Linked
<1>4. \A k \in Inos' : IsNode(byIno[k])'
  BY <1>1, <1>2, Zenon DEF TypeOK, IsNode
<1> QED
  BY <1>1, <1>2, <1>3, <1>4, Zenon DEF TypeOK, NodesKeep

\* What a call's step makes of the tables.
LEMMA StepTables ==
  ASSUME Inv, NEW t \in Threads, Lookup(t) \/ Readdir(t) \/ Step(t)
  PROVE  /\ LinkInv' /\ NodesKeep /\ Inos \subseteq Inos'
         /\ next' \in Nat /\ Inos' = 1..(next' - 1) /\ Root \in Inos'
         /\ \A k \in Inos' : IsNode(byIno[k])'
         /\ DOMAIN entry' \subseteq Inos' \X Names /\ \A e \in DOMAIN entry' : entry'[e] \in Inos'
         /\ DOMAIN kids' \subseteq Inos' /\ \A k \in DOMAIN kids' : kids'[k] \subseteq Inos'
<1>1. TypeOK /\ LinkInv /\ AskInv /\ task[t].ino \in Inos
  BY Zenon DEF Inv, TypeOK, IsTask
<1>2. ASSUME /\ \A k \in Inos' : IsNode(byIno[k])'
             /\ Root \in Inos' /\ Inos \subseteq Inos'
             /\ \E A \in SUBSET Names, gone \in SUBSET ChildrenOf(task[t].ino) :
                  \E num : Grows(task[t].ino, A, num, gone)
      PROVE  /\ LinkInv' /\ NodesKeep
             /\ next' \in Nat /\ Inos' = 1..(next' - 1)
             /\ DOMAIN entry' \subseteq Inos' \X Names /\ \A e \in DOMAIN entry' : entry'[e] \in Inos'
             /\ DOMAIN kids' \subseteq Inos' /\ \A k \in DOMAIN kids' : kids'[k] \subseteq Inos'
  <2>1. PICK A \in SUBSET Names, gone \in SUBSET ChildrenOf(task[t].ino) :
          \E num : Grows(task[t].ino, A, num, gone)
    BY <1>2, Zenon
  <2>2. PICK num : Grows(task[t].ino, A, num, gone)
    BY <2>1, Zenon
  <2>3. LinkInv'
    BY <1>1, <2>2, GrowsLinks, Zenon
  <2>4. /\ DOMAIN entry' \subseteq Inos' \X Names /\ \A e \in DOMAIN entry' : entry'[e] \in Inos'
        /\ DOMAIN kids' \subseteq Inos' /\ \A k \in DOMAIN kids' : kids'[k] \subseteq Inos'
    BY <1>1, <1>2, <2>2, GrowsType, Zenon
  <2>5. NodesKeep /\ next' \in Nat /\ Inos' = 1..(next' - 1)
    BY <2>2, Zenon DEF Grows
  <2> QED
    BY <2>3, <2>4, <2>5, Zenon
<1>3. CASE Apply(t)
  BY <1>1, <1>2, <1>3, ApplyGrows, Zenon
<1>4. CASE Upsert(t)
  <2>1. task[t].name \in Names
    BY <1>1, <1>4, Zenon DEF Upsert, At, AskInv, Asks
  <2> QED
    BY <1>1, <1>2, <1>4, <2>1, UpsertGrows, Zenon
<1>5. CASE \/ Lookup(t) \/ Readdir(t) \/ Check(t) \/ ListPage(t) \/ ListFails(t)
           \/ Stamp(t) \/ Answer(t) \/ HeadBlob(t)
  <2>1. UNCHANGED tables
    BY <1>5, Zenon DEF Lookup, Readdir, Begin, Check, ListPage, ListFails, Stamp, Answer, HeadBlob
  <2> QED
    BY <1>1, <2>1, TablesKept, Zenon
<1> QED
  BY <1>3, <1>4, <1>5, Zenon DEF Step

LEMMA StepInv == Inv /\ [Next]_vars => Inv' /\ NodesKeep
<1> SUFFICES ASSUME Inv, [Next]_vars PROVE Inv' /\ NodesKeep
  BY Zenon
<1>1. TypeOK /\ LinkInv /\ AskInv
  BY Zenon DEF Inv
<1>2. ASSUME UNCHANGED <<tables, task>>, DOMAIN origin' \subseteq Blobs, recent' \subseteq recent, changes' \in Nat
      PROVE  Inv' /\ NodesKeep
  <2>1. task' = task /\ UNCHANGED tables
    BY <1>2, Zenon
  <2>2. \A t \in Threads : IsTask(task[t])'
    BY <1>1, <2>1, TablesKept, Zenon DEF TypeOK, IsTask
  <2>3. AskInv'
    BY <1>1, <2>1, Zenon DEF AskInv, Asks
  <2>4. TypeOK'
    BY <1>1, <1>2, <2>1, <2>2, TablesKept, Zenon DEF TypeOK
  <2> QED
    BY <1>1, <2>1, <2>3, <2>4, TablesKept, Zenon DEF Inv
<1>3. ASSUME NEW b \in Blobs, Delete(b) \/ \E v \in Versions : Put(b, v) PROVE Inv' /\ NodesKeep
  <2>1. UNCHANGED <<tables, task>> /\ recent' = recent /\ changes' = changes + 1
    BY <1>3, Zenon DEF Delete, Put, Change
  <2>2. DOMAIN origin' \subseteq Blobs
    BY <1>1, <1>3 DEF TypeOK, Delete, Put, With, Without, Restrict
  <2>3. changes' \in Nat
    BY <1>1, <2>1 DEF TypeOK
  <2> QED
    BY <1>2, <2>1, <2>2, <2>3, Zenon
<1>4. ASSUME NEW t \in Threads, Lookup(t) \/ Readdir(t) \/ Step(t) PROVE Inv' /\ NodesKeep
  <2>1. (\A u \in Threads : IsTask(task[u])') /\ AskInv' /\ DOMAIN task' = Threads
    BY <1>1, <1>4, StepTables, StepsAlone, TaskSteps, TasksKeep, Zenon
  <2>2. origin' = origin /\ changes' = changes
    BY <1>4, Zenon DEF Lookup, Readdir, Begin, Step, Check, ListPage, ListFails, Apply, Stamp, Answer,
                HeadBlob, Upsert
  <2>3. recent' \subseteq Inos
    <3>1. recent \subseteq Inos /\ task[t].ino \in Inos
      BY <1>1, Zenon DEF TypeOK, IsTask
    <3>2. recent' = recent \/ recent' = recent \cup {task[t].ino}
      BY <1>4, Zenon DEF Lookup, Readdir, Begin, Step, Check, ListPage, ListFails, Apply, Stamp, Answer,
                  HeadBlob, Upsert
    <3> QED
      BY <3>1, <3>2, Zenon
  <2>4. DOMAIN origin' \subseteq Blobs /\ changes' \in Nat
    BY <1>1, <2>2, Zenon DEF TypeOK
  <2>5. TypeOK' /\ LinkInv' /\ NodesKeep
    BY <1>4, <2>1, <2>3, <2>4, StepTables, Zenon DEF TypeOK
  <2> QED
    BY <2>1, <2>5, Zenon DEF Inv
<1>5. ASSUME NEW i \in recent, Expire(i) PROVE Inv' /\ NodesKeep
  <2>1. UNCHANGED <<tables, task>> /\ recent' \subseteq recent /\ origin' = origin /\ changes' = changes
    BY <1>5, Zenon DEF Expire
  <2> QED
    BY <1>1, <1>2, <2>1, Zenon DEF TypeOK
<1>6. ASSUME UNCHANGED vars PROVE Inv' /\ NodesKeep
  <2>1. UNCHANGED <<tables, task>> /\ recent' \subseteq recent /\ origin' = origin /\ changes' = changes
    BY <1>6, Zenon DEF vars, tables
  <2> QED
    BY <1>1, <1>2, <2>1, Zenon DEF TypeOK
<1> QED
  BY <1>3, <1>4, <1>5, <1>6, Zenon DEF Next

(***************************************************************************)
(* Theorems                                                                *)
(***************************************************************************)

THEOREM Invariance == Spec => []Inv
<1>1. Inv /\ [Next]_vars => Inv'
  BY StepInv, Zenon
<1> QED
  BY InitInv, <1>1, PTL DEF Spec

\* The inode tables have their types: by_parent_name and children name inodes that are in
\* by_ino, whatever listings, lookups and changes of the container interleave.
THEOREM TypeCorrect == Spec => []TypeOK
<1>1. Inv => TypeOK
  BY Zenon DEF Inv
<1> QED
  BY Invariance, <1>1, PTL

LEMMA LinksMatch == TypeOK /\ LinkInv => ReaddirMatchesLookup
<1> SUFFICES ASSUME TypeOK, LinkInv, NEW i \in Inos, Linked(i), byIno[i].kind = "dir"
             PROVE  /\ i \in DOMAIN kids
                    /\ kids[i] = {entry[e] : e \in {x \in DOMAIN entry : x[1] = i}}
                    /\ \A k \in kids[i] : byIno[k].parent = i /\ entry[<<i, byIno[k].name>>] = k
  BY Zenon DEF ReaddirMatchesLookup
<1>1. /\ i \in DOMAIN kids
      /\ \A n \in Names : <<i, n>> \in DOMAIN entry => entry[<<i, n>>] \in kids[i]
  BY Zenon DEF LinkInv
<1>2. \A k \in kids[i] : /\ byIno[k].parent = i /\ byIno[k].name \in Names
                         /\ <<i, byIno[k].name>> \in DOMAIN entry /\ entry[<<i, byIno[k].name>>] = k
  BY <1>1, Zenon DEF LinkInv
<1>3. DOMAIN entry \subseteq Inos \X Names
  BY Zenon DEF TypeOK
<1>4. \A e \in DOMAIN entry : e[1] = i => entry[e] \in kids[i]
  <2> SUFFICES ASSUME NEW e \in DOMAIN entry, e[1] = i PROVE entry[e] \in kids[i]
    BY Zenon
  <2>1. PICK j \in Inos, n \in Names : e = <<j, n>>
    BY <1>3
  <2> QED
    BY <1>1, <2>1, Zenon
<1>5. \A k \in kids[i] : \E e \in {x \in DOMAIN entry : x[1] = i} : entry[e] = k
  BY <1>2, Zenon
<1> QED
  BY <1>1, <1>2, <1>4, <1>5

\* A directory that was not taken away lists in readdir the very children that lookup
\* finds in it (upsert_dir, upsert_file and the delta-delete keep children and
\* by_parent_name in step), for any container, cap and number of threads.
THEOREM ListingsMatch == Spec => []ReaddirMatchesLookup
<1>1. Inv => ReaddirMatchesLookup
  BY LinksMatch, Zenon DEF Inv
<1> QED
  BY Invariance, <1>1, PTL

\* An inode number the kernel was given stands for the same path and kind of node for
\* ever: by_ino loses no node, and no upsert changes a node's kind, parent or name.
THEOREM InodesStay == Spec => InodesAreForever
<1>1. Inv /\ [Next]_vars =>
        [\A i \in Inos : i \in Inos' /\ \A f \in {"kind", "parent", "name", "path"} :
           byIno'[i][f] = byIno[i][f]]_vars
  BY StepInv, Zenon DEF NodesKeep
<1> QED
  BY Invariance, <1>1, PTL DEF Spec, InodesAreForever
=============================================================================
