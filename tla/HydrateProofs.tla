----------------------------- MODULE HydrateProofs -----------------------------
(* Proofs about Hydrate, for any number of nodes, chunks and failures. *)
EXTENDS Hydrate, FiniteSetTheorems, TLAPS

(***************************************************************************)
(* Counting                                                                *)
(***************************************************************************)

\* The place k places before place i of a ring, without the remainder.
LEMMA BehindIs ==
  ASSUME NEW W \in Nat, NEW i \in 0..(W - 1), NEW k \in 1..(W - 1)
  PROVE  (i + W - k) % W = IF k <= i THEN i - k ELSE i + W - k
  BY SMT

LEMMA BumpBounds ==
  ASSUME NEW e \in Nat, NEW k \in Nat
  PROVE  /\ Bump(e, k) \in Nat
         /\ e <= ErrCap => Bump(e, k) <= ErrCap
         /\ e <= ErrCap + 2 => Bump(e, k) <= ErrCap + 2
         /\ Bump(e, k) = 0 => e = 0 /\ k = 0
  BY ErrCapAssumption DEF Bump

\* An error count that is zero after an answer was zero before it.
LEMMA BumpZero ==
  ASSUME NEW e \in Nat, NEW k \in Nat, Bump(e, k) = 0
  PROVE  e = 0
  BY BumpBounds, Zenon

LEMMA Counts ==
  ASSUME NEW S \in SUBSET Chunks
  PROVE  /\ IsFiniteSet(S) /\ Cardinality(S) \in Nat
         /\ Cardinality(S) = 0 <=> S = {}
  <1>1. IsFiniteSet(S)
    BY ChunksAssumption, FS_Subset, Zenon
  <1> QED
    BY <1>1, FS_CardinalityType, FS_EmptySet, Zenon

LEMMA DisjointCounts ==
  ASSUME NEW S \in SUBSET Chunks, NEW T \in SUBSET Chunks, S \cap T = {}
  PROVE  Cardinality(S \cup T) = Cardinality(S) + Cardinality(T)
  <1> DEFINE s == Cardinality(S)
             t == Cardinality(T)
             b == Cardinality(S \cap T)
             u == Cardinality(S \cup T)
  <1>1. IsFiniteSet(S) /\ IsFiniteSet(T) /\ s \in Nat /\ t \in Nat
    BY Counts, Zenon
  <1>2. b = 0
    BY FS_EmptySet, Zenon
  <1>3. u = s + t - b
    BY <1>1, FS_Union, Zenon
  <1> HIDE DEF s, t, b, u
  <1>4. u = s + t
    BY <1>1, <1>2, <1>3, SMTT(30)
  <1> QED
    BY <1>4, Zenon DEF s, t, u

(***************************************************************************)
(* Types                                                                   *)
(***************************************************************************)

\* Before the end no node has more errors in the response than a shard can list.
TypeInv ==
  /\ TypeOK
  /\ phase # "end" => \A n \in Nodes : peersB[n].errors <= ErrCap

LEMMA SetUpdates ==
  ASSUME NEW f \in [Nodes -> SUBSET Chunks], NEW n \in Nodes, NEW c \in Chunks
  PROVE  /\ [f EXCEPT ![n] = @ \cup {c}] \in [Nodes -> SUBSET Chunks]
         /\ [f EXCEPT ![n] = @ \ {c}] \in [Nodes -> SUBSET Chunks]
  BY Zenon

LEMMA ShareType ==
  ASSUME TypeOK, NEW n \in Nodes
  PROVE  Share(n) \in SUBSET Chunks
  BY DEF TypeOK, Share, Source, AtRank

LEMMA ErrorsType ==
  ASSUME TypeOK, NEW n \in Nodes, handle[n] = "wait"
  PROVE  /\ Errors(n) \in 0..(ErrCap + 2)
         /\ Errors(n) = 0 => errs[n] = 0
         /\ Errors(n) = 0 /\ phase = "A" => failures[n] = {}
  <1> DEFINE C == Cardinality(Share(n))
  <1>1. errs[n] \in Nat /\ errs[n] <= ErrCap /\ got[n] \in Nat /\ ErrCap \in Nat
    BY ErrCapAssumption DEF TypeOK
  <1>2. C \in Nat
    BY ShareType, Counts, Zenon
  <1>3. CASE phase = "A"
    <2>1. failures[n] \in SUBSET Chunks
      BY Zenon DEF TypeOK
    <2>2. /\ Cardinality(failures[n]) \in Nat
          /\ Cardinality(failures[n]) = 0 <=> failures[n] = {}
      BY <2>1, Counts, Zenon
    <2>3. Errors(n) = Bump(errs[n], Cardinality(failures[n]))
      BY <1>3, Zenon DEF Errors
    <2>4. /\ Errors(n) \in Nat /\ Errors(n) <= ErrCap
          /\ Errors(n) = 0 => errs[n] = 0 /\ Cardinality(failures[n]) = 0
      <3> DEFINE f == Cardinality(failures[n])
      <3>1. f \in Nat
        BY <2>2, Zenon
      <3> HIDE DEF f
      <3>2. /\ Bump(errs[n], f) \in Nat /\ Bump(errs[n], f) <= ErrCap
            /\ Bump(errs[n], f) = 0 => errs[n] = 0 /\ f = 0
        BY <1>1, <3>1, BumpBounds, Zenon
      <3> QED
        BY <2>3, <3>2, Zenon DEF f
    <2>5. Errors(n) \in 0..(ErrCap + 2)
      BY <1>1, <2>4, SMTT(30)
    <2> QED
      BY <2>2, <2>4, <2>5, Zenon
  <1>4. CASE phase = "B" /\ mode = "broadcast"
    <2>1. \A e \in Nat : /\ Account(n, e) \in {e, e + 1}
                         /\ Account(n, e) = 0 => e = 0
      BY <1>1, <1>2 DEF Account
    <2>2. Errors(n) \in {Account(n, errs[n]), Account(n, Account(n, errs[n]))}
      BY <1>4, Zenon DEF Errors
    <2> HIDE DEF C
    <2> QED
      BY <1>1, <1>4, <2>1, <2>2, SMTT(30)
  <1>5. CASE ~(phase = "A") /\ ~(phase = "B" /\ mode = "broadcast")
    BY <1>1, <1>5 DEF Errors
  <1> QED
    BY <1>3, <1>4, <1>5, Zenon

LEMMA TypeInit == Init => TypeInv
  <1> SUFFICES ASSUME Init PROVE TypeInv
    BY Zenon
  <1>1. ErrCap \in Nat /\ 0 \in 0..(ErrCap + 2)
    BY ErrCapAssumption
  <1>2. NoEntry \in [Nodes -> [fetched : Nat, errors : 0..(ErrCap + 2)]]
        /\ \A n \in Nodes : NoEntry[n].errors <= ErrCap
    BY <1>1 DEF NoEntry
  <1>3. disk \in [Nodes -> SUBSET Chunks]
    BY WarmAssumption, Zenon DEF Init
  <1>4. NoTally \in [Nodes -> 0..(ErrCap + 2)] /\ NoTally \in [Nodes -> Nat]
    BY <1>1, Zenon DEF NoTally
  <1>5. handle \in [Nodes -> {"none", "post", "wait", "done", "panic"}]
        /\ \A n \in Nodes : handle[n] # "wait"
    BY Zenon DEF Init
  <1> QED
    BY <1>2, <1>3, <1>4, <1>5, Zenon DEF Init, TypeInv, TypeOK, Statuses, NoWork

LEMMA TypeRequest ==
  TypeInv /\ (Submit \/ Run \/ ListFails \/ ListEmpty \/ Plan) => TypeInv'
  <1> SUFFICES ASSUME TypeInv, Submit \/ Run \/ ListFails \/ ListEmpty \/ Plan
               PROVE  TypeInv'
    BY Zenon
  <1> USE DEF TypeInv, TypeOK, calls, response, local, Statuses
  <1>1. CASE Submit
    <2>1. mode' \in {"default", "broadcast", "ring"}
      BY <1>1, RequestsAssumption, Zenon DEF Submit, HydrateMode
    <2> QED
      BY <1>1, <2>1, Zenon DEF Submit
  <1>2. CASE Run
    BY <1>2, Zenon DEF Run
  <1>3. CASE ListFails
    BY <1>3, Zenon DEF ListFails
  <1>4. CASE ListEmpty
    BY <1>4, Zenon DEF ListEmpty
  <1>5. CASE Plan
    <2>1. /\ targets' \in SUBSET Nodes /\ plan' \in [Nodes -> SUBSET Chunks]
          /\ rank' \in [Nodes -> Nat]
      BY <1>5 DEF Plan, Orders, Deal
    <2>2. handle' \in [Nodes -> {"none", "post", "wait", "done", "panic"}]
          /\ \A n \in Nodes : handle'[n] # "wait"
      BY <1>5, Zenon DEF Plan
    <2> QED
      BY <1>5, <2>1, <2>2, Zenon DEF Plan
  <1> QED
    BY <1>1, <1>2, <1>3, <1>4, <1>5, Zenon

LEMMA DoneType ==
  ASSUME TypeInv, NEW n \in Nodes, NEW c \in todo[n], NEW k \in {0, 1},
         handle[n] = "wait", Done(n, c, k), staged' \in [Nodes -> SUBSET Chunks],
         aside' \in [Nodes -> SUBSET Chunks], faults' \in Nat
  PROVE  TypeInv'
  <1>0. errs[n] \in Nat /\ errs[n] <= ErrCap /\ k \in Nat
    BY ErrCapAssumption DEF TypeInv, TypeOK
  <1>b. Bump(errs[n], k) \in Nat /\ Bump(errs[n], k) <= ErrCap
    BY <1>0, BumpBounds, Zenon
  <1>1. Bump(errs[n], k) \in 0..ErrCap
    BY <1>b, ErrCapAssumption, SMTT(30)
  <1>2. errs' \in [Nodes -> 0..(ErrCap + 2)]
        /\ \A m \in Nodes : handle[m] = "wait" => errs'[m] <= ErrCap
    BY <1>1, ErrCapAssumption, SMTT(30) DEF TypeInv, TypeOK, Done
  <1>3. got' \in [Nodes -> Nat]
    BY DEF TypeInv, TypeOK, Done
  <1>4. todo' \in [Nodes -> SUBSET Chunks]
    BY Zenon DEF TypeInv, TypeOK, Done
  <1> QED
    BY <1>2, <1>3, <1>4, Zenon DEF TypeInv, TypeOK, Done, request, response

\* A shard counts a chunk that is in memory only.
SetAside(n, c) == n \in MemoryOnly /\ aside' = [aside EXCEPT ![n] = @ \cup {c}]

LEMMA FetchKinds ==
  ASSUME NEW n, Fetch(n)
  PROVE  /\ handle[n] = "wait"
         /\ \E c \in todo[n], k \in {0, 1} :
              /\ Done(n, c, k)
              /\ staged' = staged \/ Stage(n, c)
              /\ faults' \in {faults, faults + 1}
              /\ aside' = aside \/ SetAside(n, c)
              /\ k = 0 => c \in disk[n] \cup staged[n] \/ Stage(n, c) \/ SetAside(n, c)
  <1>1. PICK c \in todo[n] :
          IF phase = "A" THEN FetchOrigin(n, c) ELSE PullFromPeer(n, c)
    BY Zenon DEF Fetch
  <1> DEFINE Kind == \E k \in {0, 1} :
               /\ Done(n, c, k)
               /\ staged' = staged \/ Stage(n, c)
               /\ faults' \in {faults, faults + 1}
               /\ aside' = aside \/ SetAside(n, c)
               /\ k = 0 => c \in disk[n] \cup staged[n] \/ Stage(n, c) \/ SetAside(n, c)
  <1>2. FetchOrigin(n, c) => Kind
    BY DEF FetchOrigin, FromMemory, SetAside, Fault
  <1>3. PullFromPeer(n, c) => Kind
    <2> HIDE DEF Kind
    <2> SUFFICES ASSUME PullFromPeer(n, c), ~FetchOrigin(n, c) PROVE Kind
      BY <1>2, Zenon
    <2> QED
      BY DEF PullFromPeer, Fault, Kind
  <1> QED
    BY <1>1, <1>2, <1>3, Zenon DEF Fetch

LEMMA TypeNode ==
  ASSUME TypeInv, NEW n \in Nodes, NodeStep(n)
  PROVE  TypeInv'
  <1>0. ErrCap \in Nat \ {0}
    BY ErrCapAssumption, Zenon
  <1>1. CASE Receive(n)
    <2>1. Share(n) \in SUBSET Chunks
      BY ShareType, Zenon DEF TypeInv
    <2> QED
      BY <1>0, <1>1, <2>1, SMTT(30) DEF Receive, TypeInv, TypeOK, request, response, local
  <1>2. CASE Fetch(n)
    <2>1. PICK c \in todo[n], k \in {0, 1} :
            /\ Done(n, c, k) /\ (staged' = staged \/ Stage(n, c))
            /\ faults' \in {faults, faults + 1}
            /\ aside' = aside \/ SetAside(n, c)
      BY <1>2, FetchKinds, Zenon
    <2>2. faults' \in Nat /\ handle[n] = "wait"
      BY <1>2, <2>1, SMTT(30) DEF TypeInv, TypeOK, Fetch
    <2>3. /\ c \in Chunks /\ aside \in [Nodes -> SUBSET Chunks]
          /\ staged \in [Nodes -> SUBSET Chunks]
      BY Zenon DEF TypeInv, TypeOK
    <2>4. staged' \in [Nodes -> SUBSET Chunks] /\ aside' \in [Nodes -> SUBSET Chunks]
      BY <2>1, <2>3, SetUpdates, SMTT(30) DEF Stage, SetAside
    <2> QED
      BY <2>1, <2>2, <2>4, DoneType, Zenon
  <1>3. CASE Insert(n)
    <2>1. /\ disk' \in [Nodes -> SUBSET Chunks] /\ staged' \in [Nodes -> SUBSET Chunks]
          /\ failures' \in [Nodes -> SUBSET Chunks] /\ faults' \in Nat
      <3>1. PICK c \in staged[n] :
              /\ staged' = [staged EXCEPT ![n] = @ \ {c}]
              /\ \/ /\ disk' = [disk EXCEPT ![n] = @ \cup {c}]
                    /\ failures' = failures /\ faults' = faults
                 \/ /\ failures' = [failures EXCEPT ![n] = @ \cup {c}]
                    /\ disk' = disk /\ faults' = faults + 1
        BY <1>3, Zenon DEF Insert, Fault
      <3>2. c \in Chunks
        BY <3>1, Zenon DEF TypeInv, TypeOK
      <3>3. /\ disk \in [Nodes -> SUBSET Chunks] /\ staged \in [Nodes -> SUBSET Chunks]
            /\ failures \in [Nodes -> SUBSET Chunks] /\ faults \in Nat
        BY Zenon DEF TypeInv, TypeOK
      <3> QED
        BY <3>1, <3>2, <3>3, SetUpdates, SMTT(30)
    <2> QED
      BY <1>3, <2>1, Zenon DEF Insert, TypeInv, TypeOK, request, calls, response
  <1>4. CASE ShardEnds(n)
    <2>1. Errors(n) \in 0..(ErrCap + 2)
      BY <1>4, ErrorsType, Zenon DEF TypeInv, ShardEnds
    <2>2. failures' \in [Nodes -> SUBSET Chunks]
      BY <1>4, Zenon DEF ShardEnds, TypeInv, TypeOK
    <2>a. /\ handle' = [handle EXCEPT ![n] = "done"]
          /\ \E g \in {got[n], 0} : got' = [got EXCEPT ![n] = g]
          /\ faults' \in {faults, faults + 1}
      BY <1>4, Zenon DEF ShardEnds, Answer, Fault
    <2>3. /\ handle' = [handle EXCEPT ![n] = "done"]
          /\ got' \in [Nodes -> Nat] /\ faults' \in Nat
      BY <2>a, SMTT(30) DEF TypeInv, TypeOK
    <2>4. /\ errs' \in [Nodes -> 0..(ErrCap + 2)]
          /\ \A m \in Nodes : m # n => errs'[m] = errs[m]
      BY <1>0, <1>4, <2>1, SMTT(30) DEF ShardEnds, TypeInv, TypeOK, Answer
    <2> QED
      BY <1>4, <2>2, <2>3, <2>4, Zenon DEF ShardEnds, TypeInv, TypeOK, request, response
  <1>5. CASE CallFails(n)
    BY <1>0, <1>5, SMTT(30) DEF CallFails, Answer, Fault, TypeInv, TypeOK, request, response
  <1>6. CASE CallPanics(n)
    BY <1>0, <1>6, SMTT(30) DEF CallPanics, Fault, TypeInv, TypeOK, request, response
  <1>7. CASE Stray(n)
    <2>1. strays' \in [Nodes -> SUBSET Chunks] /\ staged' \in [Nodes -> SUBSET Chunks]
      <3>1. PICK c \in strays[n] :
              /\ strays' = [strays EXCEPT ![n] = @ \ {c}]
              /\ \/ staged' = [staged EXCEPT ![n] = @ \cup {c}]
                 \/ staged' = staged
        BY <1>7, Zenon DEF Stray, Stage
      <3>2. c \in Chunks
        BY <3>1, Zenon DEF TypeInv, TypeOK
      <3>3. strays \in [Nodes -> SUBSET Chunks] /\ staged \in [Nodes -> SUBSET Chunks]
        BY Zenon DEF TypeInv, TypeOK
      <3> QED
        BY <3>1, <3>2, <3>3, SetUpdates, SMTT(30)
    <2> QED
      BY <1>7, <2>1, Zenon DEF Stray, TypeInv, TypeOK, request, calls, response
  <1>8. CASE Evict(n)
    BY <1>8 DEF Evict, Fault, TypeInv, TypeOK, request, calls, response
  <1>9. CASE OthersTake(n)
    BY <1>9, Zenon DEF OthersTake, TypeInv, TypeOK, request, calls, response
  <1>10. CASE OthersRead(n)
    BY <1>10 DEF OthersRead, Stage, Fault, TypeInv, TypeOK, request, calls, response
  <1> QED
    BY <1>1, <1>2, <1>3, <1>4, <1>5, <1>6, <1>7, <1>8, <1>9, <1>10, Zenon DEF NodeStep

LEMMA TypeEnds ==
  ASSUME TypeInv, PhaseAEnds \/ BroadcastEnds \/ RingStepEnds \/ Timeout
  PROVE  TypeInv'
  <1>0. ErrCap \in Nat \ {0}
    BY ErrCapAssumption, Zenon
  <1>1. Entries \in [Nodes -> [fetched : Nat, errors : 0..(ErrCap + 2)]]
    BY Zenon DEF Entries, TypeInv, TypeOK
  <1>2. ASSUME Post \/ Respond
        PROVE  /\ handle' \in [Nodes -> {"none", "post", "wait", "done", "panic"}]
               /\ \A n \in Nodes : handle'[n] # "wait"
    BY <1>2, Zenon DEF Post, Respond
  <1>3. CASE PhaseAEnds
    <2>1. /\ phase' \in {"B", "end"} /\ step' \in Nat /\ job' \in Statuses /\ phase = "A"
          /\ Post \/ Respond
      BY <1>3, SMTT(30) DEF PhaseAEnds, Respond, TypeInv, TypeOK, Statuses
    <2> QED
      BY <1>1, <1>2, <1>3, <2>1, Zenon DEF PhaseAEnds, TypeInv, TypeOK, local
  <1>4. CASE BroadcastEnds
    BY <1>1, <1>2, <1>4, Zenon DEF BroadcastEnds, Respond, TypeInv, TypeOK, Statuses, local
  <1>5. CASE RingStepEnds
    <2>1. \A n \in Nodes : /\ peersB[n].errors \in 0..ErrCap /\ errs[n] \in Nat
                           /\ peersB[n].fetched + got[n] \in Nat
      BY <1>0, <1>5, SMTT(30) DEF RingStepEnds, TypeInv, TypeOK
    <2>2. \A n \in Nodes : Bump(peersB[n].errors, errs[n]) \in 0..ErrCap
      BY <1>0, <2>1, BumpBounds, SMTT(30)
    <2>3. /\ peersB' \in [Nodes -> [fetched : Nat, errors : 0..(ErrCap + 2)]]
          /\ \A n \in Nodes : peersB'[n].errors <= ErrCap
      BY <1>0, <1>5, <2>1, <2>2, SMTT(30) DEF RingStepEnds, TypeInv, TypeOK
    <2>4. /\ phase' \in {"B", "end"} /\ step' \in Nat /\ job' \in Statuses
          /\ Post \/ Respond
      BY <1>5, SMTT(30) DEF RingStepEnds, Respond, TypeInv, TypeOK, Statuses
    <2> QED
      BY <1>2, <1>5, <2>3, <2>4, SMTT(30) DEF RingStepEnds, TypeInv, TypeOK, local
  <1>6. CASE Timeout
    <2>0. \A n \in Nodes :
            [peersB[n] EXCEPT !.errors = @ + 1] \in [fetched : Nat, errors : 0..(ErrCap + 2)]
      <3>1. \A n \in Nodes : peersB[n].errors \in 0..ErrCap
        BY <1>0, <1>6, SMTT(30) DEF Timeout, TypeInv, TypeOK
      <3> QED
        BY <1>0, <3>1, SMTT(30) DEF TypeInv, TypeOK
    <2>1. peersB' \in [Nodes -> [fetched : Nat, errors : 0..(ErrCap + 2)]]
      BY <1>6, <2>0, SMTT(30) DEF Timeout, TypeInv, TypeOK
    <2>2. /\ todo' \in [Nodes -> SUBSET Chunks] /\ strays' \in [Nodes -> SUBSET Chunks]
          /\ timedOut' \in BOOLEAN
      <3>1. \A n \in Nodes : Share(n) \in SUBSET Chunks
        BY ShareType, Zenon DEF TypeInv
      <3> QED
        BY <1>6, <3>1, Zenon DEF Timeout, GiveUp, NoWork, TypeInv, TypeOK
    <2> QED
      BY <1>2, <1>6, <2>1, <2>2, Zenon DEF Timeout, GiveUp, Respond, TypeInv, TypeOK, Statuses
  <1> QED
    BY <1>3, <1>4, <1>5, <1>6, Zenon

LEMMA TypeStep == TypeInv /\ [Next]_vars => TypeInv'
  <1>1. ASSUME TypeInv, UNCHANGED vars PROVE TypeInv'
    BY <1>1, Zenon DEF vars, request, calls, response, local, TypeInv, TypeOK
  <1> QED
    BY <1>1, TypeRequest, TypeNode, TypeEnds, Zenon DEF Next, Coordinator, Timed

\* No step of the coordinator, of a shard or of anything around them takes a variable
\* out of its type, and no list of errors grows past its limit.
THEOREM TypeCorrect == Spec => []TypeOK
  <1>1. TypeInv => TypeOK
    BY Zenon DEF TypeInv
  <1> QED
    BY <1>1, TypeInit, TypeStep, PTL DEF Spec

(***************************************************************************)
(* The plan, and the arithmetic of the ring                                *)
(***************************************************************************)

PlanInv ==
  /\ phase = "idle" => targets = {}
  /\ phase \in {"A", "B"} => Me \in targets /\ job = "running"
  /\ job = "completed" => phase = "end"
  /\ World \in Nat
  /\ \A n \in targets : rank[n] < World
  /\ \A m, n \in targets : rank[m] = rank[n] => m = n
  /\ phase = "B" => mode # "default"
  /\ phase = "B" /\ mode = "ring" => step \in 1..(World - 1)
  /\ \A n \in Nodes : handle[n] = "panic" => errs[n] = 1

LEMMA PlanInit == Init => PlanInv
  BY FS_EmptySet, SMTT(30) DEF Init, PlanInv, World

\* In the ring every place is taken by one node, as the ids are in order.
LEMMA PlanMade == TypeInv /\ PlanInv /\ Plan => PlanInv'
  <1> SUFFICES ASSUME TypeInv, PlanInv, Plan PROVE PlanInv'
    BY Zenon
  <1>1. PICK S \in SUBSET Nodes :
          /\ Me \in S /\ targets' = S
          /\ \E r \in Orders(S) :
               /\ \A m, n \in S : m < n => r[m] < r[n]
               /\ rank' = [n \in Nodes |-> IF n \in S THEN r[n] ELSE 0]
          /\ handle' = [n \in Nodes |-> IF n \in S THEN "post" ELSE "none"]
    BY Zenon DEF Plan
  <1>2. PICK r \in Orders(S) :
          /\ \A m, n \in S : m < n => r[m] < r[n]
          /\ rank' = [n \in Nodes |-> IF n \in S THEN r[n] ELSE 0]
    BY <1>1, Zenon
  <1>3. IsFiniteSet(S)
    BY NodesAssumption, FS_Subset, Zenon
  <1>4. Cardinality(S) \in Nat
    BY <1>3, FS_CardinalityType, Zenon
  <1>5. r \in [S -> 0..(Cardinality(S) - 1)]
    BY Zenon DEF Orders
  <1>6. \A n \in S : rank'[n] = r[n] /\ r[n] \in Nat /\ r[n] < Cardinality(S)
    BY <1>2, <1>4, <1>5, SMTT(30)
  <1>7. \A m, n \in S : r[m] = r[n] => m = n
    BY <1>2, <1>6, NodesAssumption, SMTT(30)
  <1>8. job' = "running" /\ phase' = "A" /\ job = "running"
    BY Zenon DEF Plan
  <1> QED
    BY <1>1, <1>4, <1>6, <1>7, <1>8, SMTT(30) DEF PlanInv, World

\* How many places n comes after m.
Between(m, n) ==
  IF rank[m] <= rank[n] THEN rank[n] - rank[m] ELSE rank[n] + World - rank[m]

\* In step k a node asks for the share of the node k places before it, and the node it
\* asks comes k - 1 places after that one.
LEMMA RingPlaces ==
  ASSUME TypeOK, PlanInv, phase = "B", mode = "ring",
         NEW m \in targets, NEW n \in targets
  PROVE  /\ Between(m, n) \in 0..(World - 1)
         /\ m \in Source(n) <=> Between(m, n) = step
         /\ \A p \in Prev(n) : m \in Source(n) => Between(m, p) = step - 1
         /\ Between(m, n) = 0 => m = n
  <1>1. /\ World \in Nat /\ step \in 1..(World - 1) /\ 1 \in 1..(World - 1)
        /\ rank[m] \in 0..(World - 1) /\ rank[n] \in 0..(World - 1)
    BY DEF TypeOK, PlanInv
  <1>2. Behind(rank[n], step) =
          IF step <= rank[n] THEN rank[n] - step ELSE rank[n] + World - step
    BY <1>1, BehindIs, Zenon DEF Behind
  <1>3. Behind(rank[n], 1) = IF 1 <= rank[n] THEN rank[n] - 1 ELSE rank[n] + World - 1
    BY <1>1, BehindIs, Zenon DEF Behind
  <1>4. m \in Source(n) <=> rank[m] = Behind(rank[n], step)
    BY Zenon DEF Source, AtRank
  <1>5. m \in Source(n) <=> Between(m, n) = step
    BY <1>1, <1>2, <1>4, SMTT(30) DEF Between
  <1>6. ASSUME NEW p \in Prev(n), m \in Source(n)
        PROVE  Between(m, p) = step - 1
    <2>1. rank[p] = Behind(rank[n], 1)
      BY <1>6, Zenon DEF Prev, AtRank
    <2> QED
      BY <1>1, <1>2, <1>3, <1>4, <1>6, <2>1, SMTT(30) DEF Between
  <1>7. Between(m, n) \in 0..(World - 1)
    BY <1>1, SMTT(30) DEF Between
  <1>8. Between(m, n) = 0 => rank[m] = rank[n]
    BY <1>1, SMTT(30) DEF Between
  <1> QED
    BY <1>5, <1>6, <1>7, <1>8, Zenon DEF PlanInv

(***************************************************************************)
(* Where the chunks are                                                    *)
(***************************************************************************)

\* The chunks a node has or had; with the ones whose insert failed; with the ones
\* being inserted.
Kept(n) == disk[n] \cup Excused(n)
Seen(n) == Kept(n) \cup failures[n]
Coming(n) == Seen(n) \cup staged[n]

\* A shard without errors has each of its chunks still to do or on its way; its answer
\* without errors, in phase A, means they are kept, in phase B, that they were seen.
ShardInv ==
  \A n \in targets :
    /\ phase \in {"A", "B"} /\ handle[n] = "wait" /\ errs[n] = 0 =>
         Share(n) \subseteq todo[n] \cup Coming(n)
    /\ phase = "A" /\ handle[n] = "done" /\ errs[n] = 0 => plan[n] \subseteq Kept(n)
    /\ phase = "B" /\ handle[n] = "done" /\ errs[n] = 0 => Share(n) \subseteq Seen(n)
    /\ phase = "B" => plan[n] \subseteq Kept(n)

\* After k - 1 clean steps of the ring, a node has seen the shares of the nodes up to
\* k - 1 places before it.
RingInv ==
  phase = "B" /\ mode = "ring" /\ Clean =>
    \A m, n \in targets : Between(m, n) < step => plan[m] \subseteq Seen(n)

PlacedInv == TypeInv /\ PlanInv /\ ShardInv /\ RingInv /\ CleanMeansPlaced

\* What any step on a node does to the chunks of any node: it forgets none, but for the
\* failed inserts that run_shard takes.
LEMMA ChunksStay ==
  ASSUME TypeInv, NEW k \in Nodes, NodeStep(k), NEW n \in Nodes
  PROVE  /\ Kept(n) \subseteq Kept(n)'
         /\ phase # "A" => Seen(n) \subseteq Seen(n)'
         /\ Coming(n) \subseteq Coming(n)' \/ (n = k /\ phase = "A" /\ ShardEnds(k))
  <1>0. lost[n] \subseteq lost'[n] /\ aside[n] \subseteq aside'[n] =>
          Excused(n) \subseteq Excused(n)'
    BY Zenon DEF Excused
  <1> USE DEF Kept, Seen, Coming, request, calls, response, local
  <1>1. CASE Receive(k)
    BY <1>0, <1>1, Zenon DEF Receive
  <1>2. CASE Fetch(k)
    <2>1. PICK c \in todo[k], e \in {0, 1} :
            /\ Done(k, c, e) /\ (staged' = staged \/ Stage(k, c))
            /\ aside' = aside \/ SetAside(k, c)
      BY <1>2, FetchKinds, Zenon
    <2>3. aside[n] \subseteq aside'[n]
      BY <2>1, ZenonT(40) DEF SetAside, TypeInv, TypeOK
    <2>2. staged[n] \subseteq staged'[n]
      BY <2>1, ZenonT(40) DEF Stage, TypeInv, TypeOK
    <2> QED
      BY <1>0, <2>1, <2>2, <2>3, Zenon DEF Done
  <1>3. CASE Insert(k)
    <2>1. PICK c \in staged[k] :
            /\ staged' = [staged EXCEPT ![k] = @ \ {c}]
            /\ \/ disk' = [disk EXCEPT ![k] = @ \cup {c}] /\ failures' = failures
               \/ failures' = [failures EXCEPT ![k] = @ \cup {c}] /\ disk' = disk
      BY <1>3, Zenon DEF Insert
    <2>2. /\ disk[n] \subseteq disk'[n] /\ failures[n] \subseteq failures'[n]
          /\ staged[n] \subseteq staged'[n] \cup disk'[n] \cup failures'[n]
      BY <2>1, SMTT(30) DEF TypeInv, TypeOK
    <2> QED
      BY <1>0, <1>3, <2>2, Zenon DEF Insert
  <1>4. CASE ShardEnds(k)
    <2>1. n # k \/ phase # "A" => failures'[n] = failures[n]
      BY <1>4, Zenon DEF ShardEnds, TypeInv, TypeOK
    <2> QED
      BY <1>0, <1>4, <2>1, Zenon DEF ShardEnds
  <1>5. CASE CallFails(k) \/ CallPanics(k)
    BY <1>0, <1>5, Zenon DEF CallFails, CallPanics
  <1>6. CASE Stray(k)
    <2>1. PICK c \in strays[k] : Stage(k, c) \/ staged' = staged
      BY <1>6, Zenon DEF Stray
    <2>2. staged[n] \subseteq staged'[n]
      BY <2>1, SMTT(30) DEF Stage, TypeInv, TypeOK
    <2> QED
      BY <1>0, <1>6, <2>2, Zenon DEF Stray
  <1>7. CASE Evict(k)
    <2>1. PICK c \in disk[k] : /\ disk' = [disk EXCEPT ![k] = @ \ {c}]
                               /\ lost' = [lost EXCEPT ![k] = @ \cup {c}]
      BY <1>7, Zenon DEF Evict
    <2>2. /\ disk[n] \subseteq disk'[n] \cup lost'[n] /\ lost[n] \subseteq lost'[n]
          /\ lost'[n] \subseteq Excused(n)'
      BY <2>1, Zenon DEF TypeInv, TypeOK, Excused
    <2> QED
      BY <1>0, <1>7, <2>2, Zenon DEF Evict
  <1>8. CASE OthersTake(k)
    <2>1. /\ lost[n] \subseteq lost'[n]
          /\ failures[n] \subseteq lost'[n] \cup failures'[n]
          /\ lost'[n] \subseteq Excused(n)'
      BY <1>8, Zenon DEF OthersTake, TypeInv, TypeOK, Excused
    <2> QED
      BY <1>0, <1>8, <2>1, Zenon DEF OthersTake
  <1>9. CASE OthersRead(k)
    <2>1. staged[n] \subseteq staged'[n]
      BY <1>9, SMTT(30) DEF OthersRead, Stage, TypeInv, TypeOK
    <2> QED
      BY <1>0, <1>9, <2>1, Zenon DEF OthersRead
  <1> QED
    BY <1>1, <1>2, <1>3, <1>4, <1>5, <1>6, <1>7, <1>8, <1>9, Zenon DEF NodeStep

\* What a step on node k does to the call for node n.
Untouched(n) ==
  handle'[n] = handle[n] /\ todo'[n] = todo[n] /\ errs'[n] = errs[n] /\ got'[n] = got[n]
Began(n) == handle'[n] = "wait" /\ todo'[n] = Share(n) /\ got'[n] = 0
Worked(n) ==
  /\ handle[n] = "wait" /\ handle'[n] = "wait"
  /\ errs'[n] = 0 => /\ errs[n] = 0
                     /\ \E c \in todo[n] : todo'[n] = todo[n] \ {c} /\ c \in Coming(n)'
                     /\ got'[n] = got[n] + 1
Ended(n) ==
  /\ handle[n] = "wait" /\ handle'[n] = "done" /\ todo[n] = {} /\ staged[n] = {}
  /\ errs'[n] = 0 => errs[n] = 0 /\ got'[n] = got[n] /\ (phase = "A" => failures[n] = {})
GaveUp(n) == errs'[n] = 1 /\ handle'[n] \in {"done", "panic"}

LEMMA CallSteps ==
  ASSUME TypeInv, NEW k \in Nodes, NodeStep(k), NEW n \in Nodes
  PROVE  Untouched(n) \/ Began(n) \/ Worked(n) \/ Ended(n) \/ GaveUp(n)
  <1> USE DEF request, calls, response
  <1>1. CASE Receive(k)
    BY <1>1, Zenon DEF Receive, Untouched, Began, TypeInv, TypeOK
  <1>2. CASE Fetch(k)
    <2>1. /\ handle[k] = "wait"
          /\ \E c \in todo[k], e \in {0, 1} :
               /\ Done(k, c, e)
               /\ staged' = staged \/ Stage(k, c)
               /\ e = 0 => c \in disk[k] \cup staged[k] \/ Stage(k, c) \/ SetAside(k, c)
      BY <1>2, FetchKinds, Zenon
    <2>2. PICK c \in todo[k], e \in {0, 1} :
            /\ Done(k, c, e)
            /\ staged' = staged \/ Stage(k, c)
            /\ e = 0 => c \in disk[k] \cup staged[k] \/ Stage(k, c) \/ SetAside(k, c)
      BY <2>1, Zenon
    <2>3. CASE n # k
      BY <2>2, <2>3, Zenon DEF Done, Untouched, TypeInv, TypeOK
    <2>4. CASE n = k
      <3>1. errs'[n] = Bump(errs[n], e) /\ todo'[n] = todo[n] \ {c}
        BY <2>2, <2>4, Zenon DEF Done, TypeInv, TypeOK
      <3>2. errs'[n] = 0 => errs[n] = 0 /\ e = 0
        <4>1. errs[n] \in Nat /\ e \in Nat
          BY ErrCapAssumption, SMTT(30) DEF TypeInv, TypeOK
        <4> QED
          BY <3>1, <4>1, BumpBounds, Zenon
      <3>a. SetAside(k, c) => c \in Excused(n)'
        <4>1. SetAside(k, c) => n \in MemoryOnly /\ c \in aside'[n]
          BY <2>4, ZenonT(40) DEF SetAside, TypeInv, TypeOK
        <4> QED
          BY <4>1, Zenon DEF Excused
      <3>3. e = 0 => c \in disk'[n] \cup staged'[n] \/ SetAside(k, c)
        BY <2>2, <2>4, SMTT(30) DEF Done, Stage, TypeInv, TypeOK
      <3>4. handle'[n] = "wait" /\ handle[n] = "wait"
        BY <2>1, <2>2, <2>4, Zenon DEF Done
      <3>5. got'[n] = got[n] + 1 - e /\ got[n] \in Nat
        BY <2>2, <2>4, ZenonT(40) DEF Done, TypeInv, TypeOK
      <3>6. e = 0 => got'[n] = got[n] + 1
        BY <3>5, SMTT(30)
      <3>7. c \in Coming(n)' \/ e # 0
        BY <3>a, <3>3, Zenon DEF Coming, Seen, Kept
      <3> QED
        BY <2>4, <3>1, <3>2, <3>4, <3>6, <3>7, ZenonT(40) DEF Worked
    <2> QED
      BY <2>3, <2>4, Zenon
  <1>3. CASE Insert(k) \/ Stray(k) \/ Evict(k) \/ OthersTake(k) \/ OthersRead(k)
    BY <1>3, Zenon DEF Insert, Stray, Evict, OthersTake, OthersRead, Untouched
  <1>4. CASE ShardEnds(k)
    <2>1. \E f, e : Answer(k, f, e) /\ ((f = got[k] /\ e = Errors(k)) \/ e = 1)
      BY <1>4, Zenon DEF ShardEnds
    <2>2. CASE n # k
      BY <1>4, <2>1, <2>2, ZenonT(40) DEF ShardEnds, Answer, Untouched, TypeInv, TypeOK
    <2>3. CASE n = k
      <3>1. /\ handle'[n] = "done"
            /\ (errs'[n] = Errors(n) /\ got'[n] = got[n]) \/ errs'[n] = 1
        BY <2>1, <2>3, Zenon DEF Answer, TypeInv, TypeOK
      <3>2. /\ Errors(n) = 0 => errs[n] = 0
            /\ Errors(n) = 0 /\ phase = "A" => failures[n] = {}
        BY <1>4, <2>3, ErrorsType, Zenon DEF ShardEnds, TypeInv
      <3>3. handle[n] = "wait" /\ todo[n] = {} /\ staged[n] = {}
        BY <1>4, <2>3, Zenon DEF ShardEnds
      <3>4. errs'[n] = 0 => errs[n] = 0 /\ got'[n] = got[n] /\ (phase = "A" => failures[n] = {})
        BY <3>1, <3>2, SMTT(30)
      <3> QED
        BY <3>1, <3>3, <3>4, Zenon DEF Ended
    <2> QED
      BY <2>2, <2>3, Zenon
  <1>5. CASE CallFails(k) \/ CallPanics(k)
    <2>1. CASE n # k
      BY <1>5, <2>1, ZenonT(40) DEF CallFails, CallPanics, Answer, Untouched, TypeInv, TypeOK
    <2>2. CASE n = k
      BY <1>5, <2>2, ZenonT(40) DEF CallFails, CallPanics, Answer, GaveUp, TypeInv, TypeOK
    <2> QED
      BY <2>1, <2>2, Zenon
  <1> QED
    BY <1>1, <1>2, <1>3, <1>4, <1>5, Zenon DEF NodeStep

LEMMA NodeRequest ==
  ASSUME NEW k, NodeStep(k)
  PROVE  UNCHANGED <<request, response>>
  <1>1. Fetch(k) => UNCHANGED <<request, response>>
    BY FetchKinds, Zenon DEF Done
  <1> QED
    BY <1>1, Zenon DEF NodeStep, Receive, Insert, ShardEnds, CallFails, CallPanics, Stray, Evict,
       OthersTake, OthersRead

LEMMA NodeKeepsPlan ==
  ASSUME TypeInv, PlanInv, NEW k \in Nodes, NodeStep(k)
  PROVE  PlanInv'
  <1>1. UNCHANGED <<request, response>>
    BY NodeRequest, Zenon
  <1>2. \A n \in Nodes : handle'[n] = "panic" => errs'[n] = 1
    <2> SUFFICES ASSUME NEW n \in Nodes, handle'[n] = "panic" PROVE errs'[n] = 1
      BY Zenon
    <2> QED
      BY CallSteps, Zenon DEF Untouched, Began, Worked, Ended, GaveUp, PlanInv
  <1> QED
    BY <1>1, <1>2, Zenon DEF request, PlanInv, World

\* A step on a node keeps what is known of the shards: one that begins has everything
\* to do, one that works has staged or found the chunk, one that ends has drained.
LEMMA NodeKeepsShards ==
  ASSUME TypeInv, PlanInv, ShardInv, NEW k \in Nodes, NodeStep(k)
  PROVE  ShardInv'
  <1>1. UNCHANGED <<phase, mode, targets, plan, rank, step>>
    BY NodeRequest, Zenon DEF request
  <1> SUFFICES ASSUME NEW n \in targets
               PROVE  /\ phase \in {"A", "B"} /\ handle'[n] = "wait" /\ errs'[n] = 0 =>
                           Share(n) \subseteq todo'[n] \cup Coming(n)'
                      /\ phase = "A" /\ handle'[n] = "done" /\ errs'[n] = 0 =>
                           plan[n] \subseteq Kept(n)'
                      /\ phase = "B" /\ handle'[n] = "done" /\ errs'[n] = 0 =>
                           Share(n) \subseteq Seen(n)'
                      /\ phase = "B" => plan[n] \subseteq Kept(n)'
    BY <1>1, SMTT(30) DEF ShardInv, Share, Source, AtRank, Behind, World
  <1>2. n \in Nodes
    BY Zenon DEF TypeInv, TypeOK
  <1>3. /\ Kept(n) \subseteq Kept(n)'
        /\ phase # "A" => Seen(n) \subseteq Seen(n)'
        /\ Coming(n) \subseteq Coming(n)' \/ (n = k /\ phase = "A" /\ ShardEnds(k))
    BY <1>2, ChunksStay, Zenon
  <1>4. phase = "B" => plan[n] \subseteq Kept(n)'
    BY <1>3, Zenon DEF ShardInv
  <1>5. ShardEnds(k) /\ n = k => handle'[n] = "done"
    BY <1>2, Zenon DEF ShardEnds, Answer, TypeInv, TypeOK
  <1>6. CASE Untouched(n)
    BY <1>3, <1>4, <1>5, <1>6, Zenon DEF Untouched, ShardInv
  <1>7. CASE Began(n)
    BY <1>4, <1>7, Zenon DEF Began
  <1>8. CASE Worked(n)
    BY <1>3, <1>4, <1>5, <1>8, Zenon DEF Worked, ShardInv
  <1>9. CASE Ended(n)
    <2> SUFFICES ASSUME errs'[n] = 0, phase \in {"A", "B"}
                 PROVE  /\ phase = "A" => plan[n] \subseteq Kept(n)'
                        /\ phase = "B" => Share(n) \subseteq Seen(n)'
      BY <1>4, <1>9, Zenon DEF Ended
    <2>1. Share(n) \subseteq Seen(n)
      BY <1>9, Zenon DEF Ended, ShardInv, Coming
    <2>2. CASE phase = "A"
      BY <1>3, <1>9, <2>1, <2>2, Zenon DEF Ended, Share, Seen
    <2>3. CASE phase = "B"
      BY <1>3, <2>1, <2>3, Zenon
    <2> QED
      BY <2>2, <2>3, Zenon
  <1>10. CASE GaveUp(n)
    BY <1>4, <1>10, SMTT(30) DEF GaveUp
  <1> QED
    BY <1>2, <1>6, <1>7, <1>8, <1>9, <1>10, CallSteps, Zenon

LEMMA NodeKeepsPlaced ==
  ASSUME PlacedInv, NEW k \in Nodes, NodeStep(k)
  PROVE  RingInv' /\ CleanMeansPlaced'
  <1>1. UNCHANGED <<request, response>>
    BY NodeRequest, Zenon
  <1>2. \A n \in targets : Kept(n) \subseteq Kept(n)' /\ (phase # "A" => Seen(n) \subseteq Seen(n)')
    BY ChunksStay, Zenon DEF PlacedInv, TypeInv, TypeOK
  <1>3. Clean' = Clean
    BY <1>1, Zenon DEF Clean, request, response
  <1>4. RingInv'
    BY <1>1, <1>2, <1>3, Zenon DEF PlacedInv, RingInv, Between, World, request
  <1>5. CleanMeansPlaced'
    BY <1>1, <1>2, <1>3, ZenonT(40) DEF PlacedInv, PlanInv, CleanMeansPlaced, request, Kept, Seen
  <1> QED
    BY <1>4, <1>5, Zenon

LEMMA RequestKeeps ==
  ASSUME PlacedInv, Submit \/ Run \/ ListFails \/ ListEmpty \/ Plan
  PROVE  PlanInv' /\ ShardInv' /\ RingInv' /\ CleanMeansPlaced'
  <1>1. phase \notin {"A", "B"}
    BY Zenon DEF PlacedInv, PlanInv, Submit, Run, ListFails, ListEmpty, Plan
  <1>2. CASE Plan
    <2>1. PlanInv'
      BY <1>2, PlanMade, Zenon DEF PlacedInv
    <2>2. phase' = "A" /\ job' = "running"
      BY <1>2, Zenon DEF Plan
    <2>3. \A n \in Nodes : handle'[n] \in {"post", "none"}
      BY <1>2, Zenon DEF Plan
    <2>4. targets' \subseteq Nodes
      BY <1>2, Zenon DEF Plan
    <2> QED
      BY <2>1, <2>2, <2>3, <2>4, Zenon DEF ShardInv, RingInv, CleanMeansPlaced
  <1>3. CASE Submit \/ Run \/ ListFails \/ ListEmpty
    <2>1. /\ UNCHANGED <<targets, rank, handle, errs>>
          /\ phase' \notin {"A", "B"} /\ (phase' = "idle" => phase = "idle")
          /\ job' = "completed" => phase = "idle" /\ phase' = "end"
      BY <1>1, <1>3, Zenon DEF Submit, Run, ListFails, ListEmpty, calls
    <2>2. PlanInv'
      BY <2>1, Zenon DEF PlacedInv, PlanInv, World
    <2> QED
      BY <2>1, <2>2, Zenon DEF PlacedInv, PlanInv, ShardInv, RingInv, CleanMeansPlaced
  <1> QED
    BY <1>2, <1>3, Zenon

\* Nobody is no places away from anybody else.
LEMMA BetweenZero ==
  ASSUME TypeOK, PlanInv, NEW m \in targets, NEW n \in targets
  PROVE  /\ Between(m, n) \in Nat
         /\ Between(m, n) < 1 \/ World < 2 => m = n
  <1>1. /\ World \in Nat /\ rank[m] \in Nat /\ rank[n] \in Nat
        /\ rank[m] < World /\ rank[n] < World
    BY Zenon DEF TypeOK, PlanInv
  <1>2. /\ Between(m, n) \in Nat
        /\ Between(m, n) < 1 \/ World < 2 => rank[m] = rank[n]
    BY <1>1, SMTT(30) DEF Between
  <1> QED
    BY <1>2, Zenon DEF PlanInv

LEMMA AnsweredClean ==
  ASSUME PlanInv, Answered, NEW n \in targets, n \in Nodes, errs[n] = 0
  PROVE  handle[n] = "done"
  BY SMTT(30) DEF PlanInv, Answered

LEMMA PhaseAKeeps ==
  ASSUME PlacedInv, PhaseAEnds
  PROVE  PlanInv' /\ ShardInv' /\ RingInv' /\ CleanMeansPlaced'
  <1>0. TypeOK /\ PlanInv /\ ShardInv /\ targets \subseteq Nodes
    BY Zenon DEF PlacedInv, TypeInv, TypeOK
  <1>1. phase = "A" /\ Answered /\ Me \in targets /\ job = "running"
        /\ UNCHANGED <<mode, targets, plan, rank, errs, disk, lost, aside, failures>>
    BY <1>0, Zenon DEF PhaseAEnds, PlanInv, local
  <1>2. \A n \in targets : errs[n] = 0 => plan[n] \subseteq Kept(n)
    BY <1>0, <1>1, AnsweredClean, Zenon DEF ShardInv
  <1>3. \A n \in Nodes : handle'[n] \in {"post", "none"}
    BY Zenon DEF PhaseAEnds, Post, Respond
  <1>4. CASE phase' = "B"
    <2>1. /\ mode # "default" /\ \A n \in targets : errs[n] = 0
          /\ ~(mode = "ring" /\ World < 2) /\ step' = 1 /\ job' = "running"
      BY <1>1, <1>4, Zenon DEF PhaseAEnds, Respond
    <2>2. PlanInv'
      <3>1. World \in Nat /\ (mode = "ring" => 1 \in 1..(World - 1))
        BY <1>0, <2>1, SMTT(30) DEF PlanInv
      <3> QED
        BY <1>0, <1>1, <1>3, <1>4, <2>1, <3>1, Zenon DEF PlanInv, World
    <2>3. \A n \in targets : plan'[n] \subseteq Kept(n)'
      BY <1>1, <1>2, <2>1, Zenon DEF Kept, Excused
    <2>4. ShardInv'
      BY <1>0, <1>1, <1>3, <1>4, <2>3, Zenon DEF ShardInv
    <2>5. RingInv'
      BY <1>0, <1>1, <1>4, <2>1, <2>3, BetweenZero, Zenon DEF RingInv, Between, World, Seen
    <2> QED
      BY <2>1, <2>2, <2>4, <2>5, Zenon DEF CleanMeansPlaced
  <1>5. CASE phase' # "B"
    <2>1. /\ phase' = "end" /\ peers' = Entries
          /\ \/ mode = "default" \/ \E n \in targets : errs[n] # 0
             \/ World < 2
      BY <1>5, Zenon DEF PhaseAEnds, Respond
    <2>2. PlanInv'
      BY <1>0, <1>1, <1>3, <2>1, Zenon DEF PlanInv, World
    <2>3. Clean' => \A n \in targets : errs[n] = 0
      BY <1>0, <1>1, <2>1, Zenon DEF Clean, Entries
    <2>4. CleanMeansPlaced'
      <3>e. \A n \in targets : Excused(n)' = Excused(n)
        BY <1>1, Zenon DEF Excused
      <3> SUFFICES ASSUME Clean'
                   PROVE  /\ \A n \in targets : plan[n] \subseteq disk[n] \cup Excused(n)
                          /\ mode # "default" => \A m, n \in targets :
                               plan[m] \subseteq disk[n] \cup Excused(n) \cup failures[n]
        BY <1>1, <3>e, Zenon DEF CleanMeansPlaced
      <3>1. \A n \in targets : plan[n] \subseteq disk[n] \cup Excused(n)
        BY <1>2, <2>3, Zenon DEF Kept
      <3>2. mode # "default" => \A m, n \in targets : m = n
        BY <1>0, <2>1, <2>3, BetweenZero, Zenon
      <3> QED
        BY <3>1, <3>2, Zenon
    <2> QED
      BY <2>1, <2>2, <2>4, Zenon DEF ShardInv, RingInv
  <1> QED
    BY <1>4, <1>5, Zenon

LEMMA BroadcastKeeps ==
  ASSUME PlacedInv, BroadcastEnds
  PROVE  PlanInv' /\ ShardInv' /\ RingInv' /\ CleanMeansPlaced'
  <1>0. TypeOK /\ PlanInv /\ ShardInv /\ targets \subseteq Nodes
    BY Zenon DEF PlacedInv, TypeInv, TypeOK
  <1>1. /\ phase = "B" /\ mode = "broadcast" /\ Answered /\ phase' = "end"
        /\ peersB' = Entries /\ (\A n \in Nodes : handle'[n] = "none")
        /\ UNCHANGED <<mode, targets, plan, rank, errs, disk, lost, aside, failures>>
    BY Zenon DEF BroadcastEnds, Respond, local
  <1>2. PlanInv'
    BY <1>0, <1>1, Zenon DEF PlanInv, World
  <1>3. CleanMeansPlaced'
    <2> SUFFICES ASSUME Clean', NEW n \in targets, NEW m \in targets
                 PROVE  /\ plan[n] \subseteq disk[n] \cup Excused(n)
                        /\ plan[m] \subseteq disk[n] \cup Excused(n) \cup failures[n]
      BY <1>1, Zenon DEF CleanMeansPlaced, Excused
    <2>1. errs[n] = 0
      BY <1>0, <1>1, Zenon DEF Clean, Entries
    <2>2. plan[n] \subseteq Kept(n) /\ Share(n) \subseteq Seen(n)
      BY <1>0, <1>1, <2>1, AnsweredClean, Zenon DEF ShardInv
    <2>3. m # n => plan[m] \subseteq Share(n)
      BY <1>1, Zenon DEF Share
    <2> QED
      BY <2>2, <2>3, Zenon DEF Kept, Seen
  <1> QED
    BY <1>1, <1>2, <1>3, Zenon DEF ShardInv, RingInv

\* A ring step that adds no error to the response had clean answers.
LEMMA CleanBefore ==
  ASSUME PlacedInv, RingStepEnds, Clean'
  PROVE  Clean /\ \A n \in targets : errs[n] = 0
  <1>0. TypeOK /\ PlanInv /\ targets \subseteq Nodes
    BY Zenon DEF PlacedInv, TypeInv, TypeOK
  <1>w. Answered /\ UNCHANGED <<targets, errs, peers, timedOut>>
    BY Zenon DEF RingStepEnds
  <1>a. stepErrs' = 0 /\ ~timedOut' /\ \A n \in targets' : peers'[n].errors = 0
    BY Zenon DEF Clean
  <1>b. stepErrs \in Nat
    BY <1>0, Zenon DEF TypeOK
  <1>c. stepErrs' = IF \A n \in targets : errs[n] = 0 THEN stepErrs ELSE stepErrs + 1
    BY Zenon DEF RingStepEnds
  <1>1. \A n \in targets : errs[n] = 0
    BY <1>a, <1>b, <1>c, SMTT(30)
  <1>2. stepErrs = 0 /\ ~timedOut /\ \A n \in targets : peers[n].errors = 0
    BY <1>w, <1>a, <1>c, <1>1, Zenon
  <1>3. \A n \in targets : Bump(peersB[n].errors, errs[n]) = 0
    <2> SUFFICES ASSUME NEW n \in targets PROVE Bump(peersB[n].errors, errs[n]) = 0
      BY Zenon
    <2>1. handle[n] = "done"
      BY <1>0, <1>w, <1>1, AnsweredClean, Zenon
    <2>2. peersB'[n].errors = Bump(peersB[n].errors, errs[n])
      BY <1>0, <2>1, Zenon DEF RingStepEnds
    <2> QED
      BY <1>w, <2>2, Zenon DEF Clean
  <1>4. \A n \in targets : peersB[n].errors = 0
    <2> SUFFICES ASSUME NEW n \in targets PROVE peersB[n].errors = 0
      BY Zenon
    <2>1. peersB[n].errors \in Nat /\ errs[n] \in Nat
      BY <1>0, ErrCapAssumption, SMTT(30) DEF TypeOK
    <2>2. Bump(peersB[n].errors, errs[n]) = 0
      BY <1>3, Zenon
    <2> QED
      BY <2>1, <2>2, BumpZero, Zenon
  <1> QED
    BY <1>1, <1>2, <1>4, Zenon DEF Clean

\* The barrier: with every answer of step k clean, every node has seen one share more.
LEMMA RingKeeps ==
  ASSUME PlacedInv, RingStepEnds
  PROVE  PlanInv' /\ ShardInv' /\ RingInv' /\ CleanMeansPlaced'
  <1>0. TypeOK /\ PlanInv /\ ShardInv /\ targets \subseteq Nodes /\ TypeOK'
    BY TypeEnds, Zenon DEF PlacedInv, TypeInv, TypeOK
  <1>1. /\ phase = "B" /\ mode = "ring" /\ Answered /\ job = "running"
        /\ (\A n \in Nodes : handle'[n] \in {"post", "none"})
        /\ UNCHANGED <<mode, targets, plan, rank, errs, peers, timedOut, disk, lost, aside, failures>>
    BY <1>0, Zenon DEF RingStepEnds, Respond, Post, local, PlanInv
  <1>2. \/ phase' = "B" /\ step' = step + 1 /\ step + 1 < World /\ job' = "running"
        \/ phase' = "end" /\ step + 1 >= World
    BY <1>1, Zenon DEF RingStepEnds, Respond
  <1>3. step \in 1..(World - 1) /\ World \in Nat
    BY <1>0, <1>1, ZenonT(40) DEF PlanInv
  <1>4. PlanInv'
    BY <1>0, <1>1, <1>2, <1>3, SMTT(30) DEF PlanInv, World
  <1>5. ASSUME Clean' PROVE Clean /\ \A n \in targets : errs[n] = 0
    BY <1>5, CleanBefore, Zenon
  <1>6. ASSUME Clean', NEW m \in targets, NEW n \in targets, Between(m, n) <= step
        PROVE  plan[m] \subseteq Seen(n)
    <2>1. Between(m, n) \in Nat /\ (Between(m, n) < step \/ Between(m, n) = step)
      BY <1>0, <1>3, <1>6, BetweenZero, SMTT(30)
    <2>2. CASE Between(m, n) < step
      BY <1>1, <1>5, <1>6, <2>2, Zenon DEF PlacedInv, RingInv
    <2>3. CASE Between(m, n) = step
      <3>1. m \in Source(n)
        BY <1>0, <1>1, <2>3, RingPlaces, Zenon
      <3>2. plan[m] \subseteq Share(n)
        BY <1>1, <3>1, Zenon DEF Share
      <3>3. Share(n) \subseteq Seen(n)
        BY <1>0, <1>1, <1>5, <1>6, AnsweredClean, Zenon DEF ShardInv
      <3> QED
        BY <3>2, <3>3, Zenon
    <2> QED
      BY <2>1, <2>2, <2>3, Zenon
  <1>7. RingInv'
    <2> SUFFICES ASSUME phase' = "B", Clean', NEW m \in targets, NEW n \in targets,
                        Between(m, n) < step'
                 PROVE  plan[m] \subseteq Seen(n)
      BY <1>1, ZenonT(40) DEF RingInv, Between, World, Seen, Kept, Excused
    <2>1. Between(m, n) <= step
      BY <1>0, <1>2, <1>3, BetweenZero, SMTT(30)
    <2> QED
      BY <1>6, <2>1, Zenon
  <1>8. CleanMeansPlaced'
    <2> SUFFICES ASSUME phase' = "end", Clean', NEW n \in targets, NEW m \in targets
                 PROVE  /\ plan[n] \subseteq disk[n] \cup Excused(n)
                        /\ plan[m] \subseteq disk[n] \cup Excused(n) \cup failures[n]
      BY <1>1, <1>2, Zenon DEF CleanMeansPlaced, Excused
    <2>1. Between(m, n) <= step
      <3>1. Between(m, n) \in 0..(World - 1)
        BY <1>0, <1>1, RingPlaces, Zenon
      <3> QED
        BY <1>2, <1>3, <3>1, SMTT(30)
    <2> QED
      BY <1>0, <1>1, <1>6, <2>1, Zenon DEF ShardInv, Kept, Seen
  <1>9. ShardInv'
    BY <1>0, <1>1, <1>2, Zenon DEF ShardInv, Kept, Excused
  <1> QED
    BY <1>4, <1>7, <1>8, <1>9, Zenon

LEMMA TimeoutUnclean ==
  ASSUME PlacedInv, Timeout
  PROVE  ~Clean'
  <1>0. TypeOK /\ PlanInv /\ targets \subseteq Nodes
    BY Zenon DEF PlacedInv, TypeInv, TypeOK
  <1>w. phase \in {"A", "B"} /\ targets' = targets
    BY Zenon DEF Timeout
  <1>1. CASE timedOut'
    BY <1>1, Zenon DEF Clean
  <1>2. CASE ~timedOut'
    <2>1. Me \in targets /\ Me \in Nodes
      BY <1>0, <1>w, Zenon DEF PlanInv
    <2>2. peersB'[Me] = [peersB[Me] EXCEPT !.errors = @ + 1]
      BY <1>2, <2>1, Zenon DEF Timeout
    <2>3. peersB[Me].errors \in Nat /\ peersB[Me] \in [fetched : Nat, errors : 0..(ErrCap + 2)]
      BY <1>0, <2>1, ErrCapAssumption, SMTT(30) DEF TypeOK
    <2>4. peersB'[Me].errors = peersB[Me].errors + 1
      BY <2>2, <2>3, Zenon
    <2> QED
      BY <1>w, <2>1, <2>3, <2>4, SMTT(30) DEF Clean
  <1> QED
    BY <1>1, <1>2, Zenon

LEMMA TimeoutKeeps ==
  ASSUME PlacedInv, Timeout
  PROVE  PlanInv' /\ ShardInv' /\ RingInv' /\ CleanMeansPlaced'
  <1>0. TypeOK /\ PlanInv /\ targets \subseteq Nodes
    BY Zenon DEF PlacedInv, TypeInv, TypeOK
  <1>1. /\ phase \in {"A", "B"} /\ phase' = "end" /\ (\A n \in Nodes : handle'[n] = "none")
        /\ UNCHANGED <<mode, targets, rank, errs>>
    BY Zenon DEF Timeout, Respond
  <1>2. PlanInv'
    BY <1>0, <1>1, Zenon DEF PlanInv, World
  <1>3. ~Clean'
    BY TimeoutUnclean, Zenon
  <1> QED
    BY <1>1, <1>2, <1>3, Zenon DEF ShardInv, RingInv, CleanMeansPlaced

LEMMA PlacedInit == Init => PlacedInv
  BY TypeInit, PlanInit, Zenon DEF Init, PlacedInv, ShardInv, RingInv, CleanMeansPlaced

LEMMA PlacedStep == PlacedInv /\ [Next]_vars => PlacedInv'
  <1> SUFFICES ASSUME PlacedInv, [Next]_vars PROVE PlacedInv'
    BY Zenon
  <1>1. TypeInv'
    BY TypeStep, Zenon DEF PlacedInv
  <1>2. CASE UNCHANGED vars
    <2>1. PlanInv'
      BY <1>2, Zenon DEF PlacedInv, PlanInv, World, vars, request, calls
    <2>2. ShardInv'
      BY <1>2, SMTT(30) DEF PlacedInv, ShardInv, Share, Source, AtRank, Behind, World, Coming, Seen, Kept,
         Excused, vars, request, calls, local
    <2>3. RingInv' /\ CleanMeansPlaced'
      BY <1>2, SMTT(30) DEF PlacedInv, RingInv, CleanMeansPlaced, Clean, Between, World, Seen, Kept,
         Excused, vars, request, response, local
    <2> QED
      BY <1>1, <2>1, <2>2, <2>3, Zenon DEF PlacedInv
  <1>3. CASE Submit \/ Coordinator
    BY <1>1, <1>3, RequestKeeps, PhaseAKeeps, BroadcastKeeps, RingKeeps, TimeoutKeeps, Zenon
    DEF PlacedInv, Coordinator, Timed
  <1>4. CASE \E n \in Nodes : NodeStep(n)
    BY <1>1, <1>4, NodeKeepsPlan, NodeKeepsShards, NodeKeepsPlaced, Zenon DEF PlacedInv
  <1> QED
    BY <1>2, <1>3, <1>4, Zenon DEF Next

\* A hydrate response that lists no error means that the chunks are where it says, for
\* any number of nodes and chunks, in all three modes, but for chunks evicted, failed
\* inserts that other hydrates took, those that phase B does not look for and, on the
\* nodes with cache_on_peer_fetch off only, chunks the node had in memory.
THEOREM CleanIsPlaced == Spec => []CleanMeansPlaced
  <1>1. PlacedInv => CleanMeansPlaced
    BY ZenonT(40) DEF PlacedInv
  <1> QED
    BY <1>1, PlacedInit, PlacedStep, PTL DEF Spec

\* The barrier of the ring: after clean steps, the node that is asked has the chunks
\* on disk, with the same exceptions.
THEOREM BarrierHolds == Spec => []RingReady
  <1>1. PlacedInv => RingReady
    <2> SUFFICES ASSUME PlacedInv, phase = "B", mode = "ring", Clean,
                        NEW n \in targets, NEW p \in Prev(n), NEW c \in Share(n)
                 PROVE  c \in Seen(p)
      BY Zenon DEF RingReady, Seen, Kept
    <2>1. PICK m \in Source(n) : c \in plan[m]
      BY Zenon DEF Share
    <2>2. p \in targets /\ m \in targets
      BY <2>1, Zenon DEF Prev, Source, AtRank
    <2>3. Between(m, p) = step - 1 /\ step \in Nat
      BY <2>1, <2>2, RingPlaces, Zenon DEF PlacedInv, TypeInv, TypeOK
    <2> QED
      <3>1. Between(m, p) < step
        BY <2>3, SMTT(30)
      <3> QED
        BY <2>1, <2>2, <3>1, Zenon DEF PlacedInv, RingInv
  <1> QED
    BY <1>1, PlacedInit, PlacedStep, PTL DEF Spec

(***************************************************************************)
(* What was fetched                                                        *)
(***************************************************************************)

\* The shares of the nodes up to k - 1 places before n.
Passed(n, k) == UNION {plan[m] : m \in {x \in targets : x # n /\ Between(x, n) < k}}

\* Everybody else's shares.
Rest(n) == UNION {plan[m] : m \in targets \ {n}}

\* A chunk is in one share only.
Dealt == \A m, n \in targets : m # n => plan[m] \cap plan[n] = {}

\* A shard without errors counts each of its chunks once: still to do, or fetched.
ShardTally ==
  \A n \in targets : phase \in {"A", "B"} /\ errs[n] = 0 =>
    /\ handle[n] = "wait" => got[n] + Cardinality(todo[n]) = Cardinality(Share(n))
    /\ handle[n] = "done" => got[n] = Cardinality(Share(n))

\* The response adds up: nothing of phase B before it begins, in phase B the share of
\* each node, and after k - 1 clean steps of the ring the k - 1 shares behind it.
ResponseTally ==
  /\ phase \in {"idle", "A"} => \A n \in Nodes : peersB[n].fetched = 0
  /\ phase = "B" => \A n \in targets : peers[n].fetched = Cardinality(plan[n])
  /\ phase = "B" /\ mode = "ring" /\ Clean =>
       \A n \in targets : peersB[n].fetched = Cardinality(Passed(n, step))

TallyInv == Dealt /\ ShardTally /\ ResponseTally /\ CleanMeansFetched

\* Round robin: as the places of the nodes are different, so are their chunks.
LEMMA PlanDeals == ASSUME Plan PROVE Dealt'
  <1>1. PICK S \in SUBSET Nodes : \E lens \in Listings : \E place \in Orders(S) :
          targets' = S /\ plan' = Deal(S, place, TotalChunks(lens))
    BY Zenon DEF Plan
  <1>2. PICK lens \in Listings, place \in Orders(S) :
          targets' = S /\ plan' = Deal(S, place, TotalChunks(lens))
    BY <1>1, Zenon
  <1>3. IsFiniteSet(S)
    BY NodesAssumption, FS_Subset, Zenon
  <1> DEFINE w == Cardinality(S)
  <1>4. w \in Nat
    BY <1>3, FS_CardinalityType, Zenon
  <1>5. Cardinality(0..(w - 1)) = w
    <2>1. 0 \in Int /\ w - 1 \in Int /\ (IF 0 > w - 1 THEN 0 ELSE (w - 1) - 0 + 1) = w
      BY <1>4, SMTT(30)
    <2> QED
      BY <2>1, FS_Interval, Zenon
  <1>6. place \in Surjection(S, 0..(w - 1))
    BY Zenon DEF Orders, Surjection
  <1>7. place \in Injection(S, 0..(w - 1))
    BY <1>3, <1>5, <1>6, FS_SurjSameCardinalityImpliesInj, Zenon
  <1>8. \A m, n \in S : place[m] = place[n] => m = n
    BY <1>7, Zenon DEF Injection, IsInjective
  <1>9. \A n \in S : plan'[n] =
          {i \in Chunks : i < TotalChunks(lens) /\ i % w = place[n]}
    BY <1>2, Zenon DEF Deal
  <1>10. ASSUME NEW m \in S, NEW n \in S, m # n, NEW i \in plan'[m], i \in plan'[n] PROVE FALSE
    <2>1. i % w = place[m] /\ i % w = place[n]
      BY <1>9, <1>10, Zenon
    <2> QED
      BY <1>8, <1>10, <2>1, Zenon
  <1> QED
    BY <1>2, <1>10, Zenon DEF Dealt

LEMMA FetchedIs ==
  CleanMeansFetched <=>
    (job = "completed" /\ Clean =>
       \A n \in targets : /\ peers[n].fetched = Cardinality(plan[n])
                          /\ mode # "default" => peersB[n].fetched = Cardinality(Rest(n)))
  BY Zenon DEF CleanMeansFetched, Rest

LEMMA FetchedThen ==
  ASSUME UNCHANGED <<mode, targets, plan>>,
         job' = "completed" /\ Clean' =>
           \A n \in targets : /\ peers'[n].fetched = Cardinality(plan[n])
                              /\ mode # "default" => peersB'[n].fetched = Cardinality(Rest(n))
  PROVE  CleanMeansFetched'
  <1>1. \A n \in targets : Rest(n)' = Rest(n)
    BY Zenon DEF Rest
  <1>2. job' = "completed" /\ Clean' =>
           \A n \in targets' : /\ peers'[n].fetched = Cardinality(plan'[n])
                               /\ mode' # "default" => peersB'[n].fetched = Cardinality(Rest(n)')
    BY <1>1, Zenon
  <1> QED
    BY <1>2, Zenon DEF CleanMeansFetched, Rest

LEMMA TallyNode ==
  ASSUME PlacedInv, TallyInv, NEW k \in Nodes, NodeStep(k)
  PROVE  TallyInv'
  <1>1. UNCHANGED <<request, response>>
    BY NodeRequest, Zenon
  <1>2. Clean' = Clean
    BY <1>1, Zenon DEF Clean, request, response
  <1>3. Dealt'
    BY <1>1, Zenon DEF TallyInv, Dealt, request
  <1>4. ResponseTally'
    <2>1. \A n \in targets : Passed(n, step)' = Passed(n, step)
      BY <1>1, Zenon DEF Passed, Between, World, request
    <2> QED
      BY <1>1, <1>2, <2>1, Zenon DEF TallyInv, ResponseTally, request, response
  <1>6. CleanMeansFetched'
    BY <1>1, <1>2, FetchedIs, FetchedThen, Zenon DEF TallyInv, request, response
  <1>5. ShardTally'
    <2>1. \A n \in Nodes : Share(n)' = Share(n)
      BY <1>1, Zenon DEF Share, Source, AtRank, Behind, World, request
    <2> SUFFICES ASSUME NEW n \in targets, phase \in {"A", "B"}, errs'[n] = 0
                 PROVE  /\ handle'[n] = "wait" =>
                             got'[n] + Cardinality(todo'[n]) = Cardinality(Share(n))
                        /\ handle'[n] = "done" => got'[n] = Cardinality(Share(n))
      <3>1. targets' = targets /\ phase' = phase /\ targets \subseteq Nodes
        BY <1>1, Zenon DEF PlacedInv, TypeInv, TypeOK, request
      <3> QED
        BY <2>1, <3>1, Zenon DEF ShardTally
    <2>2. /\ n \in Nodes /\ todo[n] \in SUBSET Chunks /\ got[n] \in Nat
          /\ TypeInv /\ TypeOK
      BY Zenon DEF PlacedInv, TypeInv, TypeOK
    <2>3. /\ IsFiniteSet(todo[n]) /\ Cardinality(todo[n]) \in Nat
          /\ Cardinality(Share(n)) \in Nat
      BY <2>2, ShareType, Counts, Zenon
    <2>4. CASE Untouched(n)
      BY <2>4, Zenon DEF Untouched, TallyInv, ShardTally
    <2>5. CASE Began(n)
      BY <2>3, <2>5, SMTT(30) DEF Began
    <2>6. CASE Worked(n)
      <3>1. PICK c \in todo[n] : todo'[n] = todo[n] \ {c}
        BY <2>6, Zenon DEF Worked
      <3>2. got[n] + Cardinality(todo[n]) = Cardinality(Share(n))
        BY <2>6, Zenon DEF Worked, TallyInv, ShardTally
      <3>3. Cardinality(todo'[n]) = Cardinality(todo[n]) - 1
        <4>1. IsFiniteSet(todo[n])
          BY <2>3, Zenon
        <4>2. Cardinality(todo[n] \ {c}) = Cardinality(todo[n]) - 1
          BY <4>1, FS_RemoveElement, Zenon
        <4> QED
          BY <3>1, <4>2, Zenon
      <3>4. got'[n] = got[n] + 1 /\ handle'[n] = "wait"
        BY <2>6, Zenon DEF Worked
      <3> QED
        BY <2>2, <2>3, <3>2, <3>3, <3>4, SMTT(30)
    <2>7. CASE Ended(n)
      <3>1. /\ got[n] + Cardinality(todo[n]) = Cardinality(Share(n)) /\ todo[n] = {}
            /\ got'[n] = got[n] /\ handle'[n] = "done"
        BY <2>7, Zenon DEF Ended, TallyInv, ShardTally
      <3>2. Cardinality(todo[n]) = 0
        BY <3>1, FS_EmptySet, Zenon
      <3> QED
        BY <2>2, <2>3, <3>1, <3>2, SMTT(30)
    <2>8. CASE GaveUp(n)
      BY <2>8, SMTT(30) DEF GaveUp
    <2> QED
      BY <2>2, <2>4, <2>5, <2>6, <2>7, <2>8, CallSteps, Zenon
  <1> QED
    BY <1>3, <1>4, <1>5, <1>6, Zenon DEF TallyInv

LEMMA TallyRequest ==
  ASSUME PlacedInv, TallyInv, Submit \/ Run \/ ListFails \/ ListEmpty \/ Plan
  PROVE  TallyInv'
  <1>1. phase \notin {"A", "B"}
    BY Zenon DEF PlacedInv, PlanInv, Submit, Run, ListFails, ListEmpty, Plan
  <1>2. CASE Plan
    <2>1. Dealt'
      BY <1>2, PlanDeals, Zenon
    <2>2. /\ phase' = "A" /\ job' = "running" /\ phase = "idle" /\ peersB' = peersB
          /\ targets' \subseteq Nodes /\ \A n \in Nodes : handle'[n] \in {"post", "none"}
      BY <1>2, Zenon DEF Plan, response
    <2>3. ShardTally'
      BY <2>2, Zenon DEF ShardTally
    <2> QED
      BY <2>1, <2>2, <2>3, Zenon DEF TallyInv, ResponseTally, CleanMeansFetched
  <1>3. CASE Submit \/ Run \/ ListFails \/ ListEmpty
    <2>1. /\ UNCHANGED <<targets, plan, peersB>>
          /\ phase' \notin {"A", "B"} /\ (phase' = "idle" => phase = "idle")
          /\ job' = "completed" => phase = "idle"
      BY <1>1, <1>3, Zenon DEF Submit, Run, ListFails, ListEmpty, response
    <2>2. job' = "completed" => targets' = {}
      BY <2>1, Zenon DEF PlacedInv, PlanInv
    <2>3. Dealt'
      BY <2>1, Zenon DEF TallyInv, Dealt
    <2> QED
      BY <2>1, <2>2, <2>3, Zenon DEF TallyInv, ShardTally, ResponseTally, CleanMeansFetched
  <1> QED
    BY <1>2, <1>3, Zenon

LEMMA TallyA ==
  ASSUME PlacedInv, TallyInv, PhaseAEnds
  PROVE  TallyInv'
  <1>0. TypeOK /\ PlanInv /\ targets \subseteq Nodes
    BY Zenon DEF PlacedInv, TypeInv, TypeOK
  <1>1. /\ phase = "A" /\ Answered /\ job = "running" /\ peers' = Entries
        /\ UNCHANGED <<mode, targets, plan, rank, errs, peersB>>
        /\ \A n \in Nodes : handle'[n] \in {"post", "none"}
    BY <1>0, Zenon DEF PhaseAEnds, PlanInv, Post, Respond
  <1>2. \A n \in targets : errs[n] = 0 => peers'[n].fetched = Cardinality(plan'[n])
    <2> SUFFICES ASSUME NEW n \in targets, errs[n] = 0
                 PROVE  peers'[n].fetched = Cardinality(plan'[n])
      BY Zenon
    <2>1. handle[n] = "done"
      BY <1>0, <1>1, AnsweredClean, Zenon
    <2>2. got[n] = Cardinality(plan[n])
      BY <1>1, <2>1, Zenon DEF TallyInv, ShardTally, Share
    <2> QED
      BY <1>0, <1>1, <2>2, Zenon DEF Entries
  <1>3. \A n \in targets : peersB'[n].fetched = 0
    BY <1>0, <1>1, Zenon DEF TallyInv, ResponseTally
  <1>4. Dealt' /\ ShardTally'
    BY <1>0, <1>1, Zenon DEF TallyInv, Dealt, ShardTally
  <1>5. ASSUME NEW n \in targets PROVE Cardinality(Passed(n, 1)) = 0
    <2>1. \A x \in targets : Between(x, n) < 1 => x = n
      BY <1>0, BetweenZero, Zenon
    <2>2. Passed(n, 1) = {}
      BY <2>1, Zenon DEF Passed
    <2> QED
      BY <2>2, FS_EmptySet, Zenon
  <1>6. CASE phase' = "B"
    <2>1. /\ \A n \in targets : errs[n] = 0
          /\ step' = 1 /\ job' = "running"
      BY <1>1, <1>6, Zenon DEF PhaseAEnds, Respond
    <2>2. \A n \in targets : Passed(n, step)' = Passed(n, 1)
      BY <1>1, <2>1, ZenonT(40) DEF Passed, Between, World
    <2>3. ResponseTally'
      BY <1>1, <1>2, <1>3, <1>5, <1>6, <2>1, <2>2, Zenon DEF ResponseTally
    <2> QED
      BY <1>4, <2>1, <2>3, Zenon DEF TallyInv, CleanMeansFetched
  <1>7. CASE phase' # "B"
    <2>1. /\ phase' = "end"
          /\ \/ mode = "default" \/ \E n \in targets : errs[n] # 0
             \/ World < 2
      BY <1>7, Zenon DEF PhaseAEnds, Respond
    <2>2. ResponseTally'
      BY <2>1, Zenon DEF ResponseTally
    <2>3. CleanMeansFetched'
      <3> SUFFICES ASSUME Clean', NEW n \in targets
                   PROVE  /\ peers'[n].fetched = Cardinality(plan[n])
                          /\ mode # "default" => peersB'[n].fetched = Cardinality(Rest(n))
        BY <1>1, FetchedThen, Zenon
      <3>1. \A m \in targets : errs[m] = 0
        BY <1>0, <1>1, Zenon DEF Clean, Entries
      <3>2. mode # "default" => \A m \in targets : m = n
        BY <1>0, <2>1, <3>1, BetweenZero, Zenon
      <3>3. mode # "default" => Rest(n) = {}
        BY <3>2, Zenon DEF Rest
      <3> QED
        BY <1>1, <1>2, <1>3, <3>1, <3>3, FS_EmptySet, Zenon
    <2> QED
      BY <1>4, <2>2, <2>3, Zenon DEF TallyInv
  <1> QED
    BY <1>6, <1>7, Zenon

LEMMA TallyBroadcast ==
  ASSUME PlacedInv, TallyInv, BroadcastEnds
  PROVE  TallyInv'
  <1>0. TypeOK /\ PlanInv /\ targets \subseteq Nodes
    BY Zenon DEF PlacedInv, TypeInv, TypeOK
  <1>1. /\ phase = "B" /\ mode = "broadcast" /\ Answered /\ phase' = "end"
        /\ peersB' = Entries /\ UNCHANGED <<mode, targets, plan, errs, peers>>
    BY Zenon DEF BroadcastEnds, Respond
  <1>2. CleanMeansFetched'
    <2> SUFFICES ASSUME Clean', NEW n \in targets
                 PROVE  /\ peers[n].fetched = Cardinality(plan[n])
                        /\ peersB'[n].fetched = Cardinality(Rest(n))
      BY <1>1, FetchedThen, Zenon
    <2>1. errs[n] = 0
      BY <1>0, <1>1, Zenon DEF Clean, Entries
    <2>2. got[n] = Cardinality(Share(n))
      BY <1>0, <1>1, <2>1, AnsweredClean, Zenon DEF TallyInv, ShardTally
    <2>3. Share(n) = Rest(n)
      BY <1>1, Zenon DEF Share, Rest
    <2>4. peersB'[n].fetched = got[n]
      BY <1>0, <1>1, Zenon DEF Entries
    <2> QED
      BY <1>1, <2>2, <2>3, <2>4, Zenon DEF TallyInv, ResponseTally
  <1> QED
    BY <1>1, <1>2, Zenon DEF TallyInv, Dealt, ShardTally, ResponseTally

\* A step of the ring adds the share of one node more, which is in none of the others.
LEMMA PassedGrows ==
  ASSUME TypeOK, PlanInv, Dealt, phase = "B", mode = "ring", NEW n \in targets
  PROVE  /\ Passed(n, step + 1) = Passed(n, step) \cup Share(n)
         /\ Cardinality(Passed(n, step + 1)) =
              Cardinality(Passed(n, step)) + Cardinality(Share(n))
         /\ step + 1 >= World => Passed(n, step + 1) = Rest(n)
  <1>0. step \in 1..(World - 1) /\ World \in Nat
    BY Zenon DEF PlanInv
  <1>1. ASSUME NEW x \in targets
        PROVE  /\ Between(x, n) \in 0..(World - 1)
               /\ x \in Source(n) <=> Between(x, n) = step
    BY <1>1, RingPlaces, Zenon
  <1>2. Between(n, n) = 0
    <2>1. rank[n] \in Nat
      BY Zenon DEF TypeOK
    <2> QED
      BY <2>1, SMTT(30) DEF Between
  <1>3. ASSUME NEW x \in targets
        PROVE  /\ Between(x, n) < step + 1 <=> Between(x, n) < step \/ Between(x, n) = step
               /\ step + 1 >= World => Between(x, n) < step + 1
               /\ Between(x, n) = step => ~(Between(x, n) < step) /\ x # n
    <2>1. Between(x, n) \in 0..(World - 1)
      BY <1>1, Zenon
    <2>2. step # 0
      BY <1>0
    <2> QED
      BY <1>0, <1>2, <2>1, <2>2, SMTT(30)
  <1>4. Share(n) = UNION {plan[m] : m \in Source(n)} /\ Source(n) \subseteq targets
    BY Zenon DEF Share, Source, AtRank
  <1>5. Passed(n, step + 1) = Passed(n, step) \cup Share(n)
    BY <1>1, <1>3, <1>4, Zenon DEF Passed
  <1>6. Passed(n, step) \cap Share(n) = {}
    <2> SUFFICES ASSUME NEW c \in Passed(n, step), c \in Share(n) PROVE FALSE
      BY Zenon
    <2>1. PICK m \in targets : Between(m, n) < step /\ c \in plan[m]
      BY Zenon DEF Passed
    <2>2. PICK x \in Source(n) : c \in plan[x]
      BY <1>4, Zenon
    <2>3. x \in targets /\ x # m
      BY <1>1, <1>3, <1>4, <2>1, <2>2, Zenon
    <2> QED
      BY <2>1, <2>2, <2>3, Zenon DEF Dealt
  <1>7. Passed(n, step) \in SUBSET Chunks /\ Share(n) \in SUBSET Chunks
    <2>1. n \in Nodes /\ targets \subseteq Nodes /\ plan \in [Nodes -> SUBSET Chunks]
      BY Zenon DEF TypeOK
    <2> QED
      BY <2>1, ShareType, Zenon DEF Passed
  <1>10. Cardinality(Passed(n, step + 1)) =
           Cardinality(Passed(n, step)) + Cardinality(Share(n))
    BY <1>5, <1>6, <1>7, DisjointCounts, Zenon
  <1>11. step + 1 >= World => Passed(n, step + 1) = Rest(n)
    BY <1>3, Zenon DEF Passed, Rest
  <1> QED
    BY <1>5, <1>10, <1>11, Zenon

LEMMA TallyRing ==
  ASSUME PlacedInv, TallyInv, RingStepEnds
  PROVE  TallyInv'
  <1>0. TypeOK /\ PlanInv /\ targets \subseteq Nodes
    BY Zenon DEF PlacedInv, TypeInv, TypeOK
  <1>1. /\ phase = "B" /\ mode = "ring" /\ Answered /\ job = "running"
        /\ (\A n \in Nodes : handle'[n] \in {"post", "none"})
        /\ UNCHANGED <<mode, targets, plan, rank, errs, peers>>
    BY <1>0, Zenon DEF RingStepEnds, Respond, Post, PlanInv
  <1>2. \/ phase' = "B" /\ step' = step + 1 /\ job' = "running"
        \/ phase' = "end" /\ step + 1 >= World
    BY <1>1, Zenon DEF RingStepEnds, Respond
  <1>3. ASSUME Clean', NEW n \in targets
        PROVE  peersB'[n].fetched = Cardinality(Passed(n, step + 1))
    <2>1. Clean /\ errs[n] = 0
      BY <1>3, CleanBefore, Zenon
    <2>2. handle[n] = "done"
      BY <1>0, <1>1, <2>1, AnsweredClean, Zenon
    <2>3. peersB'[n].fetched = peersB[n].fetched + got[n]
      BY <1>0, <2>2, Zenon DEF RingStepEnds
    <2>4. got[n] = Cardinality(Share(n))
      BY <1>1, <2>1, <2>2, Zenon DEF TallyInv, ShardTally
    <2>5. peersB[n].fetched = Cardinality(Passed(n, step))
      BY <1>1, <2>1, Zenon DEF TallyInv, ResponseTally
    <2>6. Cardinality(Passed(n, step + 1)) =
            Cardinality(Passed(n, step)) + Cardinality(Share(n))
      BY <1>0, <1>1, PassedGrows, Zenon DEF TallyInv
    <2> QED
      BY <2>3, <2>4, <2>5, <2>6, Zenon
  <1>4. \A n \in targets : peers'[n].fetched = Cardinality(plan[n])
    BY <1>1, Zenon DEF TallyInv, ResponseTally
  <1>5. ResponseTally'
    <2>1. ASSUME step' = step + 1, NEW n \in targets PROVE Passed(n, step)' = Passed(n, step + 1)
      <3>1. \A x \in targets : Between(x, n)' = Between(x, n)
        BY <1>1, Zenon DEF Between, World
      <3>2. UNCHANGED <<targets, plan>>
        BY <1>1, Zenon DEF World
      <3>3. {x \in targets' : x # n /\ Between(x, n)' < step'} =
            {x \in targets : x # n /\ Between(x, n) < step + 1}
        BY <2>1, <3>1, <3>2, SMTT(30)
      <3> QED
        BY <3>2, <3>3, Zenon DEF Passed
    <2> QED
      BY <1>1, <1>2, <1>3, <1>4, <2>1, Zenon DEF ResponseTally
  <1>6. CleanMeansFetched'
    <2> SUFFICES ASSUME job' = "completed", Clean', NEW n \in targets
                 PROVE  peersB'[n].fetched = Cardinality(Rest(n))
      BY <1>1, <1>4, FetchedThen, Zenon
    <2>1. step + 1 >= World
      BY <1>2, Zenon
    <2>2. Passed(n, step + 1) = Rest(n)
      BY <1>0, <1>1, <2>1, PassedGrows, Zenon DEF TallyInv
    <2> QED
      BY <1>3, <2>2, Zenon
  <1>7. Dealt' /\ ShardTally'
    BY <1>0, <1>1, Zenon DEF TallyInv, Dealt, ShardTally
  <1> QED
    BY <1>5, <1>6, <1>7, Zenon DEF TallyInv

LEMMA TallyTimeout ==
  ASSUME PlacedInv, TallyInv, Timeout
  PROVE  TallyInv'
  <1>1. ~Clean' /\ phase' = "end" /\ UNCHANGED <<targets, plan>>
    BY TimeoutUnclean, Zenon DEF Timeout, Respond
  <1> QED
    BY <1>1, Zenon DEF TallyInv, Dealt, ShardTally, ResponseTally, CleanMeansFetched

LEMMA TallyInit == Init => TallyInv
  <1> SUFFICES ASSUME Init PROVE TallyInv
    BY Zenon
  <1>1. \A n \in Nodes : peersB[n].fetched = 0
    BY Zenon DEF Init, NoEntry
  <1> QED
    BY <1>1, Zenon DEF Init, TallyInv, Dealt, ShardTally, ResponseTally, CleanMeansFetched

LEMMA TallyStep == PlacedInv /\ TallyInv /\ [Next]_vars => TallyInv'
  <1> SUFFICES ASSUME PlacedInv, TallyInv, [Next]_vars PROVE TallyInv'
    BY Zenon
  <1>1. CASE UNCHANGED vars
    <2>1. UNCHANGED <<request, calls, response>>
      BY <1>1, Zenon DEF vars
    <2>2. Clean' = Clean
      BY <2>1, Zenon DEF Clean, request, response
    <2>3. Dealt'
      BY <2>1, Zenon DEF TallyInv, Dealt, request
    <2>4. ShardTally'
      <3>1. \A n \in targets : Share(n)' = Share(n)
        BY <2>1, Zenon DEF Share, Source, AtRank, Behind, World, request
      <3> QED
        BY <2>1, <3>1, Zenon DEF TallyInv, ShardTally, request, calls
    <2>5. ResponseTally'
      <3>1. \A n \in targets : Passed(n, step)' = Passed(n, step)
        BY <2>1, Zenon DEF Passed, Between, World, request
      <3> QED
        BY <2>1, <2>2, <3>1, Zenon DEF TallyInv, ResponseTally, request, response
    <2>6. CleanMeansFetched'
      BY <2>1, <2>2, FetchedIs, FetchedThen, Zenon DEF TallyInv, request, response
    <2> QED
      BY <2>3, <2>4, <2>5, <2>6, Zenon DEF TallyInv
  <1>2. CASE Submit \/ Coordinator
    BY <1>2, TallyRequest, TallyA, TallyBroadcast, TallyRing, TallyTimeout, Zenon
    DEF Coordinator, Timed
  <1>3. CASE \E n \in Nodes : NodeStep(n)
    BY <1>3, TallyNode, Zenon
  <1> QED
    BY <1>1, <1>2, <1>3, Zenon DEF Next

\* A hydrate response that lists no error has counted every chunk: each node fetched its
\* whole share in phase A and, in the broadcast and ring modes, everybody else's in
\* phase B, none of them twice, however the round robin dealt them out.
THEOREM CleanIsFetched == Spec => []CleanMeansFetched
  <1>1. TallyInv => CleanMeansFetched
    BY Zenon DEF TallyInv
  <1> QED
    BY <1>1, PlacedInit, PlacedStep, TallyInit, TallyStep, PTL DEF Spec
================================================================================
