----------------------------- MODULE FetcherProofs -----------------------------
(***************************************************************************)
(* Proofs about Fetcher for any callers, keys, lengths and bounds.         *)
(***************************************************************************)
EXTENDS Fetcher, SequenceTheorems, TLAPS

\* Where a caller works on a chunk.
Working == Labels \ {"idle", "drain", "take", "wipe", "unlead", "unstage"}

\* What the code's labels say about a caller's arguments and result.
CallFits(l, c) ==
  /\ l \in Working => c.key \in Keys /\ c.want \in Lens
  /\ l = "permit" => c.op \in {"range", "origin", "pull"}
  /\ l \in {"rstaged", "rget"} => c.op = "range"
  /\ l = "settle" => c.got \in {c.want, Failed}
  /\ l \in {"wipe", "unlead", "unstage"} => c.op = "clear"
  /\ c.op \in Ops \cup {"none"}

CallersFit ==
  /\ pc \in [Tasks -> Labels] /\ call \in [Tasks -> Calls]
  /\ \A t \in Tasks : CallFits(pc[t], call[t])

StoreFits ==
  /\ ChunkMap(cache) /\ ChunkMap(peerLru) /\ ChunkMap(writes)
  /\ inserts \in Seq(Inserts)
  /\ failures \in 0..MaxRecorded

FlightFits ==
  /\ DOMAIN inflight \subseteq Keys /\ \A k \in DOMAIN inflight : inflight[k] \in Slots
  /\ mail \in [Tasks -> Replies]

TypeInv == CallersFit /\ StoreFits /\ FlightFits

LEMMA TypeInvIsType == TypeInv => TypeOK
BY Zenon DEF TypeInv, CallersFit, StoreFits, FlightFits, TypeOK

LEMMA WithMap ==
  ASSUME NEW m, ChunkMap(m), NEW k \in Keys, NEW n \in Lens
  PROVE  ChunkMap(With(m, k, n))
BY Zenon DEF ChunkMap, With

LEMMA WithoutMap ==
  ASSUME NEW m, ChunkMap(m), NEW S
  PROVE  ChunkMap(Without(m, S))
BY Zenon DEF ChunkMap, Without, Restrict

LEMMA EmptyIsMap == ChunkMap(EmptyMap)
BY Zenon DEF ChunkMap, EmptyMap

\* A caller moves to a label that fits its arguments.
LEMMA Moves ==
  ASSUME CallersFit, NEW t \in Tasks, NEW l \in Labels, NEW c \in Calls, CallFits(l, c),
         pc' = [pc EXCEPT ![t] = l], call' = [call EXCEPT ![t] = c]
  PROVE  CallersFit'
BY Zenon DEF CallersFit

LEMMA GoesOn ==
  ASSUME CallersFit, NEW t \in Tasks, NEW l \in Labels, CallFits(l, call[t]),
         Goto(t, l), UNCHANGED call
  PROVE  CallersFit'
BY Zenon DEF CallersFit, Goto

LEMMA Returns ==
  ASSUME CallersFit, NEW t \in Tasks, NEW n \in Replies, Return(t, n)
  PROVE  CallersFit'
<1>1. [call[t] EXCEPT !.got = n] \in Calls
  BY Zenon DEF CallersFit, Calls
<1>2. call' = [call EXCEPT ![t] = [call[t] EXCEPT !.got = n]]
  BY Zenon DEF Return
<1>3. pc' = [pc EXCEPT ![t] = "idle"] /\ "idle" \in Labels
  BY Zenon DEF Return, Goto, Labels
<1>4. CallFits("idle", [call[t] EXCEPT !.got = n])
  BY Zenon DEF CallersFit, CallFits, Working, Calls
<1> QED
  BY <1>1, <1>2, <1>3, <1>4, Moves, Zenon

\* A leader has its chunk, or an error.
LEMMA Fetches ==
  ASSUME CallersFit, NEW t \in Tasks, pc[t] \in {"lead", "blob"}, NEW n \in {Want(t), Failed},
         Goto(t, "settle"), call' = [call EXCEPT ![t].got = n]
  PROVE  CallersFit'
<1> DEFINE c == [call[t] EXCEPT !.got = n]
<1>1. /\ call[t] \in Calls /\ call[t].key \in Keys /\ call[t].want \in Lens
      /\ call[t].op \in Ops \cup {"none"}
  BY Zenon DEF CallersFit, CallFits, Working, Labels
<1>2. n \in Replies
  BY <1>1, Zenon DEF Want, Replies
<1>3. /\ c \in Calls /\ c.key = call[t].key /\ c.want = call[t].want /\ c.op = call[t].op
      /\ c.got = n
  BY <1>1, <1>2, Zenon DEF Calls
<1>4. CallFits("settle", c)
  BY <1>1, <1>3, Zenon DEF CallFits, Want
<1>5. call' = [call EXCEPT ![t] = c] /\ pc' = [pc EXCEPT ![t] = "settle"] /\ "settle" \in Labels
  BY Zenon DEF Goto, Labels
<1> QED
  BY <1>3, <1>4, <1>5, Moves, Zenon

LEMMA SpawnFits ==
  ASSUME StoreFits, NEW k \in Keys, NEW n \in Lens, SpawnInsert(k, n)
  PROVE  ChunkMap(writes)' /\ (inserts \in Seq(Inserts))'
<1>1. [key |-> k, len |-> n, pc |-> "write"] \in Inserts
  BY Zenon DEF Inserts
<1> QED
  BY <1>1, WithMap, SMTT(30) DEF SpawnInsert, StoreFits, ChunkMap

LEMMA InsertMoves ==
  ASSUME inserts \in Seq(Inserts), NEW i \in DOMAIN inserts,
         NEW l \in {"write", "unstage", "done"}, inserts' = [inserts EXCEPT ![i].pc = l]
  PROVE  inserts[i] \in Inserts /\ inserts' \in Seq(Inserts)
<1>1. i \in 1..Len(inserts) /\ inserts[i] \in Inserts
  OBVIOUS
<1>2. [inserts[i] EXCEPT !.pc = l] \in Inserts
  BY <1>1, Zenon DEF Inserts
<1>3. inserts' = [inserts EXCEPT ![i] = [inserts[i] EXCEPT !.pc = l]]
  BY Zenon
<1> QED
  BY <1>1, <1>2, <1>3, ExceptSeq

LEMMA TellFits ==
  ASSUME FlightFits, NEW S, NEW n \in Replies, Tell(S, n)
  PROVE  mail' \in [Tasks -> Replies]
BY Zenon DEF FlightFits, Tell

LEMMA SettleFits ==
  ASSUME FlightFits, NEW k, NEW n \in Replies, Settle(k, n)
  PROVE  FlightFits'
<1>1. mail' \in [Tasks -> Replies]
  BY TellFits, Zenon DEF Settle
<1> QED
  BY <1>1, Zenon DEF FlightFits, Settle, Without, Restrict

LEMMA InitType == Init => TypeInv
<1> SUFFICES ASSUME Init PROVE TypeInv
  BY Zenon
<1>1. NoCall \in Calls
  BY Zenon DEF NoCall, Calls, Replies, Operations
<1>2. CallersFit
  BY <1>1, Zenon DEF Init, CallersFit, CallFits, Labels, Working, NoCall
<1>3. StoreFits
  BY EmptyIsMap, MaxRecordedAssumption DEF Init, StoreFits
<1>4. FlightFits
  BY Zenon DEF Init, FlightFits, EmptyMap, Replies
<1> QED
  BY <1>2, <1>3, <1>4, Zenon DEF TypeInv

LEMMA StepType == TypeInv /\ [Next]_vars => TypeInv'
<1> SUFFICES ASSUME TypeInv, [Next]_vars PROVE TypeInv'
  BY Zenon
<1> USE DEF TypeInv
<1> DEFINE P == CallersFit' /\ StoreFits' /\ FlightFits'
<1>0. /\ Lens \subseteq Replies /\ Failed \in Replies /\ Closed \in Replies /\ Nothing \in Replies
      /\ \A t \in Tasks : pc[t] \in Labels /\ call[t] \in Calls /\ CallFits(pc[t], call[t])
  BY Zenon DEF Replies, CallersFit
<1>1. ASSUME NEW t \in Tasks, RangeStaged(t) PROVE P
  <2>1. CallersFit'
    BY <1>1, <1>0, Returns, GoesOn, Zenon DEF RangeStaged, At, Key, Want, Holds, Covers, CallFits,
       Working, Labels, Calls, StoreFits, ChunkMap
  <2>2. StoreFits'
    BY <1>1, Zenon DEF RangeStaged, store, StoreFits, ChunkMap
  <2>3. FlightFits'
    BY <1>1, Zenon DEF RangeStaged, FlightFits
  <2> QED
    BY <2>1, <2>2, <2>3, Zenon
<1>2. ASSUME NEW t \in Tasks, RangeGet(t) PROVE P
  <2>1. CallersFit'
    BY <1>2, <1>0, Returns, GoesOn, Zenon DEF RangeGet, At, Key, Covers, CallFits, Working, Labels,
       Calls, StoreFits, ChunkMap
  <2>2. StoreFits'
    BY <1>2, Zenon DEF RangeGet, store, StoreFits, ChunkMap
  <2>3. FlightFits'
    BY <1>2, Zenon DEF RangeGet, FlightFits
  <2> QED
    BY <2>1, <2>2, <2>3, Zenon
<1>3. ASSUME NEW t \in Tasks, Staged(t) PROVE P
  <2>1. CallersFit'
    BY <1>3, <1>0, Returns, GoesOn, Zenon DEF Staged, At, Key, Want, Holds, CallFits, Working,
       Labels, Calls, StoreFits, ChunkMap
  <2>2. StoreFits'
    BY <1>3, Zenon DEF Staged, store, StoreFits, ChunkMap
  <2>3. FlightFits'
    BY <1>3, Zenon DEF Staged, FlightFits
  <2> QED
    BY <2>1, <2>2, <2>3, Zenon
<1>4. ASSUME NEW t \in Tasks, Get(t) PROVE P
  <2>1. CallersFit'
    BY <1>4, <1>0, Returns, GoesOn, Zenon DEF Get, At, Key, Want, Holds, CallFits, Working, Labels,
       Calls, StoreFits, ChunkMap
  <2>2. StoreFits'
    BY <1>4, Zenon DEF Get, store, StoreFits, ChunkMap
  <2>3. FlightFits'
    BY <1>4, Zenon DEF Get, FlightFits
  <2> QED
    BY <2>1, <2>2, <2>3, Zenon
<1>5. ASSUME NEW t \in Tasks, Peek(t) PROVE P
  <2>1. CallersFit'
    BY <1>5, <1>0, Returns, GoesOn, Zenon DEF Peek, At, Key, Want, Holds, CallFits, Working,
       Labels, Calls, StoreFits, ChunkMap
  <2>2. StoreFits'
    BY <1>5, Zenon DEF Peek, store, StoreFits, ChunkMap
  <2>3. FlightFits'
    BY <1>5, Zenon DEF Peek, FlightFits
  <2> QED
    BY <2>1, <2>2, <2>3, Zenon
<1>6. ASSUME NEW t \in Tasks, PullGet(t) PROVE P
  <2>1. CallersFit'
    BY <1>6, <1>0, Returns, GoesOn, Zenon DEF PullGet, At, Key, Want, Holds, CallFits, Working,
       Labels, Calls, StoreFits, ChunkMap
  <2>2. StoreFits'
    BY <1>6, Zenon DEF PullGet, store, StoreFits, ChunkMap
  <2>3. FlightFits'
    BY <1>6, Zenon DEF PullGet, FlightFits
  <2> QED
    BY <2>1, <2>2, <2>3, Zenon
<1>7. ASSUME NEW t \in Tasks, Again(t) PROVE P
  <2>1. CallersFit'
    BY <1>7, <1>0, Returns, Zenon DEF Again, At, Key, Want, Holds, CallFits, Working, Labels, Calls
  <2>2. StoreFits'
    BY <1>7, Zenon DEF Again, store, StoreFits, ChunkMap
  <2>3. FlightFits'
    BY <1>7, Zenon DEF Again, FlightFits
  <2> QED
    BY <2>1, <2>2, <2>3, Zenon
<1>8. ASSUME NEW t \in Tasks, Receive(t) PROVE P
  <2>1. CallersFit'
    BY <1>8, <1>0, Returns, GoesOn, Zenon DEF Receive, At, Want, CallFits, Working, Labels, Calls,
       FlightFits
  <2>2. StoreFits'
    BY <1>8, Zenon DEF Receive, store, StoreFits, ChunkMap
  <2>3. FlightFits'
    BY <1>8, Zenon DEF Receive, FlightFits
  <2> QED
    BY <2>1, <2>2, <2>3, Zenon
<1>9. ASSUME NEW t \in Tasks, RemoveWrong(t) PROVE P
  <2>1. CallersFit'
    BY <1>9, <1>0, GoesOn, Zenon DEF RemoveWrong, At, Key, CallFits, Working, Labels, Calls
  <2>2. StoreFits'
    BY <1>9, WithoutMap, Zenon DEF RemoveWrong, StoreFits, ChunkMap
  <2>3. FlightFits'
    BY <1>9, Zenon DEF RemoveWrong, FlightFits
  <2> QED
    BY <2>1, <2>2, <2>3, Zenon
<1>10. ASSUME NEW t \in Tasks, Enter(t) PROVE P
  <2>1. CallersFit'
    BY <1>10, <1>0, GoesOn, Zenon DEF Enter, At, Key, CallFits, Working, Labels, Calls
  <2>2. StoreFits'
    BY <1>10, Zenon DEF Enter, store, StoreFits, ChunkMap
  <2>3. FlightFits'
    BY <1>10, <1>0, SMTT(30) DEF Enter, At, Key, FlightFits, With, Slots, CallFits, Working, Labels
  <2> QED
    BY <2>1, <2>2, <2>3, Zenon
<1>11. ASSUME NEW t \in Tasks, UnknownMount(t) PROVE P
  <2>1. CallersFit'
    BY <1>11, <1>0, Returns, Zenon DEF UnknownMount, At, Key, CallFits, Working, Labels, Calls
  <2>2. StoreFits'
    BY <1>11, Zenon DEF UnknownMount, store, StoreFits, ChunkMap
  <2>3. FlightFits'
    BY <1>11, <1>0, SettleFits, Zenon DEF UnknownMount
  <2> QED
    BY <2>1, <2>2, <2>3, Zenon
<1>12. ASSUME NEW t \in Tasks, LeaderCancelled(t) PROVE P
  <2>1. CallersFit'
    BY <1>12, <1>0, Returns, Zenon DEF LeaderCancelled, Key, CallFits, Working, Labels, Calls
  <2>2. StoreFits'
    BY <1>12, Zenon DEF LeaderCancelled, store, StoreFits, ChunkMap
  <2>3. FlightFits'
    BY <1>12, <1>0, SettleFits, Zenon DEF LeaderCancelled
  <2> QED
    BY <2>1, <2>2, <2>3, Zenon
<1>13. ASSUME NEW t \in Tasks, FollowerGivesUp(t) PROVE P
  <2>1. CallersFit'
    BY <1>13, <1>0, Returns, Zenon DEF FollowerGivesUp, At, CallFits, Working, Labels, Calls
  <2>2. StoreFits'
    BY <1>13, Zenon DEF FollowerGivesUp, store, StoreFits, ChunkMap
  <2>3. FlightFits'
    BY <1>13, Zenon DEF FollowerGivesUp, Unsubscribe, FlightFits, Slots
  <2> QED
    BY <2>1, <2>2, <2>3, Zenon
<1>14. ASSUME NEW t \in Tasks, Announce(t) PROVE P
  <2>1. CallersFit'
    BY <1>14, <1>0, GoesOn, Zenon DEF Announce, At, Key, CallFits, Working, Labels, Calls
  <2>2. StoreFits'
    BY <1>14, Zenon DEF Announce, store, StoreFits, ChunkMap
  <2>3. FlightFits'
    BY <1>14, <1>0, SettleFits, Zenon DEF Announce, Calls
  <2> QED
    BY <2>1, <2>2, <2>3, Zenon
<1>15. ASSUME NEW t \in Tasks, BlobGet(t) PROVE P
  <2>1. CallersFit'
    BY <1>15, <1>0, GoesOn, Zenon DEF BlobGet, At, Key, CallFits, Working, Labels, Calls
  <2>2. StoreFits'
    BY <1>15, Zenon DEF BlobGet, store, StoreFits, ChunkMap
  <2>3. FlightFits'
    BY <1>15, Zenon DEF BlobGet, FlightFits
  <2> QED
    BY <2>1, <2>2, <2>3, Zenon
<1>16. ASSUME NEW t \in Tasks, PeerAnswers(t) PROVE P
  <2>1. CallersFit'
    BY <1>16, Fetches, Zenon DEF PeerAnswers, At
  <2>2. StoreFits'
    BY <1>16, <1>0, SpawnFits, WithMap, SMTT(30) DEF PeerAnswers, At, Key, Want, StoreFits, ChunkMap,
       CallFits, Working, Labels
  <2>3. FlightFits'
    BY <1>16, Zenon DEF PeerAnswers, FlightFits
  <2> QED
    BY <2>1, <2>2, <2>3, Zenon
<1>17. ASSUME NEW t \in Tasks, BlobAnswers(t) PROVE P
  <2>1. CallersFit'
    <3>1. PICK n \in {Want(t), Failed} : call' = [call EXCEPT ![t].got = n]
      BY <1>17, Zenon DEF BlobAnswers
    <3> QED
      BY <1>17, <3>1, Fetches, Zenon DEF BlobAnswers, At
  <2>2. StoreFits'
    BY <1>17, <1>0, SpawnFits, WithMap, Zenon DEF BlobAnswers, At, Key, Want, StoreFits, ChunkMap,
       CallFits, Working, Labels
  <2>3. FlightFits'
    BY <1>17, Zenon DEF BlobAnswers, FlightFits
  <2> QED
    BY <2>1, <2>2, <2>3, Zenon
<1>18. ASSUME NEW t \in Tasks, PullPeer(t) PROVE P
  <2>1. CallersFit'
    BY <1>18, <1>0, Returns, GoesOn, Zenon DEF PullPeer, At, Key, Want, SpawnInsert, CallFits,
       Working, Labels, Calls
  <2>2. StoreFits'
    BY <1>18, <1>0, SpawnFits, WithMap, Zenon DEF PullPeer, At, Key, Want, StoreFits, ChunkMap,
       CallFits, Working, Labels
  <2>3. FlightFits'
    BY <1>18, Zenon DEF PullPeer, FlightFits
  <2> QED
    BY <2>1, <2>2, <2>3, Zenon
<1>19. ASSUME NEW t \in Tasks, Drained(t) PROVE P
  <2>1. CallersFit'
    BY <1>19, <1>0, GoesOn, Zenon DEF Drained, At, CallFits, Working, Labels, Calls
  <2>2. StoreFits'
    BY <1>19, Zenon DEF Drained, store, StoreFits, ChunkMap
  <2>3. FlightFits'
    BY <1>19, Zenon DEF Drained, FlightFits
  <2> QED
    BY <2>1, <2>2, <2>3, Zenon
<1>20. ASSUME NEW t \in Tasks, AcquirePermit(t) PROVE P
  <2>1. CallersFit'
    BY <1>20, <1>0, GoesOn, Zenon DEF AcquirePermit, At, HoldsPermit, CallFits, Working, Labels,
       Calls
  <2>2. StoreFits'
    BY <1>20, Zenon DEF AcquirePermit, store, StoreFits, ChunkMap
  <2>3. FlightFits'
    BY <1>20, Zenon DEF AcquirePermit, FlightFits
  <2> QED
    BY <2>1, <2>2, <2>3, Zenon
<1>21. ASSUME NEW t \in Tasks, TakeFailures(t) PROVE P
  <2>1. CallersFit'
    BY <1>21, <1>0, Returns, Zenon DEF TakeFailures, At, CallFits, Working, Labels, Calls
  <2>2. StoreFits'
    BY <1>21, MaxRecordedAssumption DEF TakeFailures, StoreFits, ChunkMap
  <2>3. FlightFits'
    BY <1>21, Zenon DEF TakeFailures, FlightFits
  <2> QED
    BY <2>1, <2>2, <2>3, Zenon
<1>22. ASSUME NEW t \in Tasks, ClearCache(t) PROVE P
  <2>1. CallersFit'
    BY <1>22, <1>0, GoesOn, Zenon DEF ClearCache, At, CallFits, Working, Labels, Calls
  <2>2. StoreFits'
    BY <1>22, EmptyIsMap, Zenon DEF ClearCache, StoreFits, ChunkMap
  <2>3. FlightFits'
    BY <1>22, Zenon DEF ClearCache, FlightFits
  <2> QED
    BY <2>1, <2>2, <2>3, Zenon
<1>23. ASSUME NEW t \in Tasks, ClearInflight(t) PROVE P
  <2>1. CallersFit'
    BY <1>23, <1>0, GoesOn, Zenon DEF ClearInflight, At, CallFits, Working, Labels, Calls
  <2>2. StoreFits'
    BY <1>23, Zenon DEF ClearInflight, store, StoreFits, ChunkMap
  <2>3. FlightFits'
    BY <1>23, <1>0, TellFits, Zenon DEF ClearInflight, EmptyMap, FlightFits
  <2> QED
    BY <2>1, <2>2, <2>3, Zenon
<1>24. ASSUME NEW t \in Tasks, ClearWrites(t) PROVE P
  <2>1. CallersFit'
    BY <1>24, <1>0, Returns, Zenon DEF ClearWrites, At, CallFits, Working, Labels, Calls
  <2>2. StoreFits'
    BY <1>24, EmptyIsMap, Zenon DEF ClearWrites, StoreFits, ChunkMap
  <2>3. FlightFits'
    BY <1>24, Zenon DEF ClearWrites, FlightFits
  <2> QED
    BY <2>1, <2>2, <2>3, Zenon
<1>25. ASSUME NEW t \in Tasks, NEW op, NEW k \in Keys \cup {NoKey}, NEW want \in Nat,
             NEW end \in Nat,
             op \in {"clear", "drain"} \/ (op \in {"range", "origin", "pull", "fetch", "serve"}
                                          /\ k \in Keys /\ want \in Lens),
             Start(t, op, k, want, end)
      PROVE  P
  <2> DEFINE c == [op |-> op, key |-> k, want |-> want, end |-> end, got |-> Nothing]
  <2>1. c \in Calls
    BY <1>25, <1>0, Zenon DEF Calls, Operations
  <2>2. Entry(op) \in Labels /\ CallFits(Entry(op), c)
    BY <1>25, Zenon DEF Entry, Labels, CallFits, Working, Start
  <2>3. CallersFit'
    BY <1>25, <2>1, <2>2, Moves, Zenon DEF Start, Goto
  <2>4. StoreFits' /\ FlightFits'
    BY <1>25, Zenon DEF Start, StoreFits, FlightFits, store, ChunkMap
  <2> QED
    BY <2>3, <2>4, Zenon
<1>26. ASSUME NEW t \in Tasks, Begin(t) PROVE P
  BY <1>26, <1>25, LensAssumption DEF Begin
<1>27. ASSUME NEW i \in DOMAIN inserts, InsertReturns(i) PROVE P
  <2>1. inserts[i] \in Inserts /\ inserts' \in Seq(Inserts)
    BY <1>27, InsertMoves, Zenon DEF InsertReturns, StoreFits
  <2>2. StoreFits'
    <3>1. ChunkMap(cache')
      BY <1>27, <2>1, WithMap, Zenon DEF InsertReturns, StoreFits, Inserts
    <3>2. failures' \in 0..MaxRecorded
      BY <1>27, MaxRecordedAssumption DEF InsertReturns, RecordFailure, StoreFits
    <3> QED
      BY <1>27, <2>1, <3>1, <3>2, Zenon DEF InsertReturns, StoreFits, ChunkMap
  <2> QED
    BY <1>27, <2>2, Zenon DEF InsertReturns, CallersFit, FlightFits
<1>28. ASSUME NEW i \in DOMAIN inserts, Unstage(i) PROVE P
  <2>1. inserts[i] \in Inserts /\ inserts' \in Seq(Inserts)
    BY <1>28, InsertMoves, Zenon DEF Unstage, StoreFits
  <2>2. StoreFits'
    BY <1>28, <2>1, WithoutMap, Zenon DEF Unstage, StoreFits, ChunkMap
  <2> QED
    BY <1>28, <2>2, Zenon DEF Unstage, CallersFit, FlightFits
<1>29. ASSUME NEW k \in Keys, Evict(k) PROVE P
  BY <1>29, WithoutMap, Zenon DEF Evict, StoreFits, ChunkMap, CallersFit, FlightFits
<1>30. ASSUME UNCHANGED vars PROVE P
  BY <1>30, Zenon DEF vars, StoreFits, ChunkMap, CallersFit, FlightFits
<1> QED
  BY <1>1, <1>2, <1>3, <1>4, <1>5, <1>6, <1>7, <1>8, <1>9, <1>10, <1>11, <1>12, <1>13,
     <1>14, <1>15, <1>16, <1>17, <1>18, <1>19, <1>20, <1>21, <1>22, <1>23, <1>24, <1>25, <1>26,
     <1>27, <1>28, <1>29, <1>30, ZenonT(40) DEF Next, Step, InsertStep, Finished

\* The fields of the Fetcher and the callers' locals always have their types, whatever
\* calls run at once.
THEOREM TypeCorrect == Spec => []TypeOK
<1>1. Spec => []TypeInv
  BY InitType, StepType, PTL DEF Spec
<1> QED
  BY <1>1, TypeInvIsType, PTL

(***************************************************************************)
(* Singleflight.  A step of the Fetcher does one of five things to it.     *)
(***************************************************************************)

\* The callers other than t stay as they are.
Others(t) == \A u \in Tasks \ {t} : pc'[u] = pc[u] /\ call'[u] = call[u]

\* t moves outside the singleflight.
Elsewhere(t) ==
  /\ ~Leading(t) /\ pc'[t] \notin {"lead", "blob", "settle", "wait"}
  /\ UNCHANGED <<inflight, mail>> /\ Others(t)

\* t goes on leading.
Onward(t) ==
  /\ Leading(t) /\ pc'[t] \in {"lead", "blob", "settle"} /\ call'[t].key = call[t].key
  /\ UNCHANGED <<inflight, mail>> /\ Others(t)

\* t stops leading and tells its followers.
Settles(t) ==
  /\ Leading(t) /\ pc'[t] = "idle" /\ Others(t)
  /\ \E n \in Replies \ {Nothing} : Settle(Key(t), n)

LEMMA Kinds ==
  ASSUME TypeInv, [Next]_vars
  PROVE  \/ \E t \in Tasks : \/ Elsewhere(t) \/ Onward(t) \/ Settles(t)
                              \/ Enter(t) \/ FollowerGivesUp(t) \/ ClearInflight(t)
         \/ UNCHANGED <<inflight, mail, pc, call>>
<1> DEFINE Kind(t) == \/ Elsewhere(t) \/ Onward(t) \/ Settles(t)
                      \/ Enter(t) \/ FollowerGivesUp(t) \/ ClearInflight(t)
<1>0. /\ pc \in [Tasks -> Labels] /\ call \in [Tasks -> Calls]
      /\ \A u \in Tasks : CallFits(pc[u], call[u])
  BY Zenon DEF TypeInv, CallersFit
<1>1. ASSUME NEW t \in Tasks, RangeStaged(t) PROVE Elsewhere(t)
  BY <1>1, <1>0, Zenon DEF RangeStaged, At, Goto, Return, Key, Want, store, Elsewhere, Others,
     Leading, Calls
<1>2. ASSUME NEW t \in Tasks, RangeGet(t) PROVE Elsewhere(t)
  BY <1>2, <1>0, Zenon DEF RangeGet, At, Goto, Return, Key, store, Elsewhere, Others, Leading,
     Calls
<1>3. ASSUME NEW t \in Tasks, Staged(t) PROVE Elsewhere(t)
  BY <1>3, <1>0, Zenon DEF Staged, At, Goto, Return, Key, Want, store, Elsewhere, Others, Leading,
     Calls
<1>4. ASSUME NEW t \in Tasks, Get(t) PROVE Elsewhere(t)
  BY <1>4, <1>0, Zenon DEF Get, At, Goto, Return, Key, Want, store, Elsewhere, Others, Leading,
     Calls
<1>5. ASSUME NEW t \in Tasks, RemoveWrong(t) PROVE Elsewhere(t)
  BY <1>5, <1>0, Zenon DEF RemoveWrong, At, Goto, Key, Elsewhere, Others, Leading, Calls
<1>6. ASSUME NEW t \in Tasks, Peek(t) PROVE Elsewhere(t)
  BY <1>6, <1>0, Zenon DEF Peek, At, Goto, Return, Key, Want, store, Elsewhere, Others, Leading,
     Calls
<1>7. ASSUME NEW t \in Tasks, UnknownMount(t) PROVE Settles(t)
  BY <1>7, <1>0, LensAssumption DEF UnknownMount, At, Return, Key, store, Goto, Settles,
     Others, Leading, Calls, Replies, Failed, Closed, Nothing, CallFits, Working
<1>8. ASSUME NEW t \in Tasks, PeerAnswers(t) PROVE Onward(t)
  BY <1>8, <1>0, Zenon DEF PeerAnswers, At, Goto, Key, Want, Onward, Others, Leading, Calls
<1>9. ASSUME NEW t \in Tasks, BlobGet(t) PROVE Onward(t)
  BY <1>9, <1>0, Zenon DEF BlobGet, At, Goto, Key, store, Onward, Others, Leading, Calls
<1>10. ASSUME NEW t \in Tasks, BlobAnswers(t) PROVE Onward(t)
  BY <1>10, <1>0, Zenon DEF BlobAnswers, At, Goto, Key, Want, Onward, Others, Leading, Calls
<1>11. ASSUME NEW t \in Tasks, Announce(t) PROVE Settles(t)
  BY <1>11, <1>0, LensAssumption DEF Announce, At, Goto, Key, store, Settles, Others,
     Leading, Calls, Replies, Failed, Closed, Nothing, CallFits, Working
<1>12. ASSUME NEW t \in Tasks, Receive(t) PROVE Elsewhere(t)
  BY <1>12, <1>0, Zenon DEF Receive, At, Goto, Return, Want, store, Elsewhere, Others, Leading,
     Calls
<1>13. ASSUME NEW t \in Tasks, Again(t) PROVE Elsewhere(t)
  BY <1>13, <1>0, Zenon DEF Again, At, Return, Key, Want, store, Goto, Elsewhere, Others, Leading,
     Calls
<1>14. ASSUME NEW t \in Tasks, PullGet(t) PROVE Elsewhere(t)
  BY <1>14, <1>0, Zenon DEF PullGet, At, Goto, Return, Key, Want, store, Elsewhere, Others,
     Leading, Calls
<1>15. ASSUME NEW t \in Tasks, PullPeer(t) PROVE Elsewhere(t)
  BY <1>15, <1>0, Zenon DEF PullPeer, At, Goto, Return, Key, Want, Elsewhere, Others, Leading,
     Calls
<1>16. ASSUME NEW t \in Tasks, Drained(t) PROVE Elsewhere(t)
  BY <1>16, <1>0, Zenon DEF Drained, At, Goto, store, Elsewhere, Others, Leading, Calls
<1>17. ASSUME NEW t \in Tasks, TakeFailures(t) PROVE Elsewhere(t)
  BY <1>17, <1>0, Zenon DEF TakeFailures, At, Return, Goto, Elsewhere, Others, Leading, Calls
<1>18. ASSUME NEW t \in Tasks, ClearCache(t) PROVE Elsewhere(t)
  BY <1>18, <1>0, Zenon DEF ClearCache, At, Goto, Elsewhere, Others, Leading, Calls
<1>19. ASSUME NEW t \in Tasks, ClearWrites(t) PROVE Elsewhere(t)
  BY <1>19, <1>0, Zenon DEF ClearWrites, At, Return, Goto, Elsewhere, Others, Leading, Calls
<1>20. ASSUME NEW t \in Tasks, AcquirePermit(t) PROVE Elsewhere(t)
  BY <1>20, <1>0, Zenon DEF AcquirePermit, At, Goto, store, Elsewhere, Others, Leading, Calls,
     CallFits
<1>21. ASSUME NEW t \in Tasks, LeaderCancelled(t) PROVE Settles(t)
  BY <1>21, <1>0, LensAssumption DEF LeaderCancelled, Return, Key, store, Goto, Settles,
     Others, Leading, Calls, Replies, Failed, Closed, Nothing, CallFits, Working
<1>22. ASSUME NEW t \in Tasks, Begin(t) PROVE Elsewhere(t)
  BY <1>22, <1>0 DEF Begin, Start, Entry, Goto, At, store, Elsewhere, Others, Leading, Calls
<1>23. ASSUME NEW i \in DOMAIN inserts, InsertStep(i)
      PROVE  UNCHANGED <<inflight, mail, pc, call>>
  BY <1>23, Zenon DEF InsertStep, InsertReturns, Unstage
<1>24. ASSUME NEW k \in Keys, Evict(k) PROVE UNCHANGED <<inflight, mail, pc, call>>
  BY <1>24, Zenon DEF Evict
<1>25. ASSUME UNCHANGED vars PROVE UNCHANGED <<inflight, mail, pc, call>>
  BY <1>25, Zenon DEF vars
<1> QED
  BY <1>1, <1>2, <1>3, <1>4, <1>5, <1>6, <1>7, <1>8, <1>9, <1>10, <1>11, <1>12, <1>13,
     <1>14, <1>15, <1>16, <1>17, <1>18, <1>19, <1>20, <1>21, <1>22, <1>23, <1>24, <1>25, ZenonT(40) DEF
     Next, Step, Finished

FlightInv == LeaderRuns /\ FollowersHeard

LEMMA InitFlight == Init => FlightInv
BY Zenon DEF Init, FlightInv, LeaderRuns, FollowersHeard, EmptyMap, At

LEMMA StepFlight == TypeInv /\ FlightInv /\ [Next]_vars => FlightInv'
<1> SUFFICES ASSUME TypeInv, FlightInv, [Next]_vars PROVE FlightInv'
  BY Zenon
<1>0. /\ pc \in [Tasks -> Labels] /\ call \in [Tasks -> Calls] /\ mail \in [Tasks -> Replies]
      /\ \A u \in Tasks : CallFits(pc[u], call[u])
      /\ \A k \in DOMAIN inflight : k \in Keys /\ inflight[k] \in Slots
  BY Zenon DEF TypeInv, CallersFit, FlightFits
<1>1. ASSUME NEW t \in Tasks, Elsewhere(t) PROVE FlightInv'
  BY <1>1, <1>0, ZenonT(40) DEF Elsewhere, Others, FlightInv, LeaderRuns, FollowersHeard, Leading, At,
     Key, Slots
<1>2. ASSUME NEW t \in Tasks, Onward(t) PROVE FlightInv'
  BY <1>2, <1>0 DEF Onward, Others, FlightInv, LeaderRuns, FollowersHeard, Leading, At, Key,
     Slots
<1>3. ASSUME NEW t \in Tasks, Settles(t) PROVE FlightInv'
  BY <1>3, <1>0 DEF Settles, Others, Settle, Tell, Without, Restrict, FlightInv, LeaderRuns,
     FollowersHeard, Leading, At, Key, Slots
<1>4. ASSUME NEW t \in Tasks, Enter(t) PROVE FlightInv'
  BY <1>4, <1>0, SMTT(30) DEF Enter, Goto, With, FlightInv, LeaderRuns, FollowersHeard, Leading, At,
     Key, Slots
<1>5. ASSUME NEW t \in Tasks, FollowerGivesUp(t) PROVE FlightInv'
  BY <1>5, <1>0 DEF FollowerGivesUp, Unsubscribe, Return, Goto, FlightInv, LeaderRuns,
     FollowersHeard, Leading, At, Key, Slots
<1>6. ASSUME NEW t \in Tasks, ClearInflight(t) PROVE FlightInv'
  BY <1>6, <1>0 DEF ClearInflight, Goto, Tell, EmptyMap, Closed, Nothing, FlightInv,
     LeaderRuns, FollowersHeard, Leading, At, Key, Slots
<1>7. ASSUME UNCHANGED <<inflight, mail, pc, call>> PROVE FlightInv'
  BY <1>7, Zenon DEF FlightInv, LeaderRuns, FollowersHeard, Leading, At, Key, Slots
<1> QED
  BY <1>1, <1>2, <1>3, <1>4, <1>5, <1>6, <1>7, Kinds, Zenon

\* The entries of the singleflight map belong to callers that are still fetching.
THEOREM LeadersRun == Spec => []LeaderRuns
<1>1. Spec => [](TypeInv /\ FlightInv)
  BY InitType, StepType, InitFlight, StepFlight, PTL DEF Spec
<1> QED
  BY <1>1, PTL DEF FlightInv

\* A follower without an answer is subscribed to an entry of the map.
THEOREM FollowersAreHeard == Spec => []FollowersHeard
<1>1. Spec => [](TypeInv /\ FlightInv)
  BY InitType, StepType, InitFlight, StepFlight, PTL DEF Spec
<1> QED
  BY <1>1, PTL DEF FlightInv

\* A leader's entry is in the map, under its name.
Owns ==
  \A t \in Tasks : Leading(t) => Key(t) \in DOMAIN inflight /\ inflight[Key(t)].lead = t

NoClear == "clear" \notin Ops

LEMMA StepOwns == TypeInv /\ NoClear /\ FlightInv /\ Owns /\ [Next]_vars => Owns'
<1> SUFFICES ASSUME TypeInv, NoClear, FlightInv, Owns, [Next]_vars PROVE Owns'
  BY Zenon
<1>0. /\ pc \in [Tasks -> Labels] /\ call \in [Tasks -> Calls] /\ mail \in [Tasks -> Replies]
      /\ \A u \in Tasks : CallFits(pc[u], call[u])
      /\ \A k \in DOMAIN inflight : k \in Keys /\ inflight[k] \in Slots
  BY Zenon DEF TypeInv, CallersFit, FlightFits
<1>1. ASSUME NEW t \in Tasks, Elsewhere(t) PROVE Owns'
  BY <1>1, <1>0 DEF Elsewhere, Others, Owns, NoClear, FlightInv, LeaderRuns, Leading, At,
     Key, Slots, CallFits, Working
<1>2. ASSUME NEW t \in Tasks, Onward(t) PROVE Owns'
  BY <1>2, <1>0 DEF Onward, Others, Owns, NoClear, FlightInv, LeaderRuns, Leading, At, Key,
     Slots, CallFits, Working
<1>3. ASSUME NEW t \in Tasks, Settles(t) PROVE Owns'
  BY <1>3, <1>0 DEF Settles, Others, Settle, Tell, Without, Restrict, Owns, NoClear,
     FlightInv, LeaderRuns, Leading, At, Key, Slots, CallFits, Working
<1>4. ASSUME NEW t \in Tasks, Enter(t) PROVE Owns'
  BY <1>4, <1>0, SMTT(30) DEF Enter, Goto, With, Owns, NoClear, FlightInv, LeaderRuns, Leading, At,
     Key, Slots, CallFits, Working
<1>5. ASSUME NEW t \in Tasks, FollowerGivesUp(t) PROVE Owns'
  BY <1>5, <1>0 DEF FollowerGivesUp, Unsubscribe, Return, Goto, Owns, NoClear, FlightInv,
     LeaderRuns, Leading, At, Key, Slots, CallFits, Working
<1>6. ASSUME NEW t \in Tasks, ClearInflight(t) PROVE Owns'
  BY <1>6, <1>0 DEF ClearInflight, Goto, Tell, EmptyMap, Closed, Nothing, Owns, NoClear,
     FlightInv, LeaderRuns, Leading, At, Key, Slots, CallFits, Working
<1>7. ASSUME UNCHANGED <<inflight, mail, pc, call>> PROVE Owns'
  BY <1>7, Zenon DEF Owns, NoClear, FlightInv, LeaderRuns, Leading, At, Key, Slots, CallFits,
     Working
<1> QED
  BY <1>1, <1>2, <1>3, <1>4, <1>5, <1>6, <1>7, Kinds, Zenon

\* Where clear_local_state is never called, no two callers fetch a chunk at once.
THEOREM Singleflight == ASSUME NoClear PROVE Spec => []OneLeader
<1>1. Init => Owns
  BY Zenon DEF Init, Owns, Leading
<1>2. Owns => OneLeader
  BY Zenon DEF Owns, OneLeader
<1>3. TypeInv /\ FlightInv /\ Owns /\ [Next]_vars => Owns'
  BY NoClear, StepOwns, Zenon
<1> QED
  BY <1>1, <1>2, <1>3, InitType, StepType, InitFlight, StepFlight, PTL DEF Spec

LEMMA StepLength == TypeInv /\ LengthAsExpected /\ [Next]_vars => LengthAsExpected'
<1> SUFFICES ASSUME TypeInv, LengthAsExpected, [Next]_vars PROVE LengthAsExpected'
  BY Zenon
<1>0. /\ pc \in [Tasks -> Labels] /\ call \in [Tasks -> Calls]
      /\ \A u \in Tasks : CallFits(pc[u], call[u])
  BY Zenon DEF TypeInv, CallersFit
<1>1. ASSUME NEW t \in Tasks, RangeStaged(t) PROVE LengthAsExpected'
  BY <1>1, <1>0 DEF RangeStaged, At, Goto, Return, Key, Want, store, Holds, Covers,
     LengthAsExpected, CallFits, Calls, Failed, Nothing, Closed
<1>2. ASSUME NEW t \in Tasks, RangeGet(t) PROVE LengthAsExpected'
  BY <1>2, <1>0, SMTT(30) DEF RangeGet, At, Goto, Return, Key, store, Covers, LengthAsExpected,
     CallFits, Calls, Want, Failed, Nothing, Closed
<1>3. ASSUME NEW t \in Tasks, Staged(t) PROVE LengthAsExpected'
  BY <1>3, <1>0 DEF Staged, At, Goto, Return, Key, Want, store, Holds, LengthAsExpected,
     CallFits, Calls, Failed, Nothing, Closed
<1>4. ASSUME NEW t \in Tasks, Get(t) PROVE LengthAsExpected'
  BY <1>4, <1>0 DEF Get, At, Goto, Return, Key, Want, store, Holds, LengthAsExpected,
     CallFits, Calls, Failed, Nothing, Closed
<1>5. ASSUME NEW t \in Tasks, RemoveWrong(t) PROVE LengthAsExpected'
  BY <1>5, <1>0, Zenon DEF RemoveWrong, At, Goto, Key, LengthAsExpected, CallFits, Calls, Want,
     Failed, Nothing, Closed
<1>6. ASSUME NEW t \in Tasks, Peek(t) PROVE LengthAsExpected'
  BY <1>6, <1>0 DEF Peek, At, Goto, Return, Key, Want, store, Holds, LengthAsExpected,
     CallFits, Calls, Failed, Nothing, Closed
<1>7. ASSUME NEW t \in Tasks, Enter(t) PROVE LengthAsExpected'
  BY <1>7, <1>0, Zenon DEF Enter, At, Goto, Key, store, LengthAsExpected, CallFits, Calls, Want,
     Failed, Nothing, Closed
<1>8. ASSUME NEW t \in Tasks, UnknownMount(t) PROVE LengthAsExpected'
  BY <1>8, <1>0 DEF UnknownMount, At, Return, Key, store, Settle, Tell, Goto,
     LengthAsExpected, CallFits, Calls, Want, Failed, Nothing, Closed
<1>9. ASSUME NEW t \in Tasks, PeerAnswers(t) PROVE LengthAsExpected'
  BY <1>9, <1>0, Zenon DEF PeerAnswers, At, Goto, Key, Want, LengthAsExpected, CallFits, Calls,
     Failed, Nothing, Closed
<1>10. ASSUME NEW t \in Tasks, BlobGet(t) PROVE LengthAsExpected'
  BY <1>10, <1>0, Zenon DEF BlobGet, At, Goto, Key, store, LengthAsExpected, CallFits, Calls, Want,
     Failed, Nothing, Closed
<1>11. ASSUME NEW t \in Tasks, BlobAnswers(t) PROVE LengthAsExpected'
  BY <1>11, <1>0 DEF BlobAnswers, At, Goto, Key, Want, LengthAsExpected, CallFits, Calls,
     Failed, Nothing, Closed
<1>12. ASSUME NEW t \in Tasks, Announce(t) PROVE LengthAsExpected'
  BY <1>12, <1>0 DEF Announce, At, Goto, Key, store, Settle, Tell, LengthAsExpected,
     CallFits, Calls, Want, Failed, Nothing, Closed
<1>13. ASSUME NEW t \in Tasks, Receive(t) PROVE LengthAsExpected'
  BY <1>13, <1>0 DEF Receive, At, Goto, Return, Want, store, LengthAsExpected, CallFits,
     Calls, Failed, Nothing, Closed
<1>14. ASSUME NEW t \in Tasks, Again(t) PROVE LengthAsExpected'
  BY <1>14, <1>0 DEF Again, At, Return, Key, Want, store, Holds, Goto, LengthAsExpected,
     CallFits, Calls, Failed, Nothing, Closed
<1>15. ASSUME NEW t \in Tasks, PullGet(t) PROVE LengthAsExpected'
  BY <1>15, <1>0, SMTT(30) DEF PullGet, At, Goto, Return, Key, Want, store, Holds, LengthAsExpected,
     CallFits, Calls, Failed, Nothing, Closed
<1>16. ASSUME NEW t \in Tasks, PullPeer(t) PROVE LengthAsExpected'
  BY <1>16, <1>0 DEF PullPeer, At, Goto, Return, Key, Want, LengthAsExpected, CallFits,
     Calls, Failed, Nothing, Closed
<1>17. ASSUME NEW t \in Tasks, Drained(t) PROVE LengthAsExpected'
  BY <1>17, <1>0, Zenon DEF Drained, At, Goto, store, LengthAsExpected, CallFits, Calls, Want,
     Failed, Nothing, Closed
<1>18. ASSUME NEW t \in Tasks, TakeFailures(t) PROVE LengthAsExpected'
  BY <1>18, <1>0 DEF TakeFailures, At, Return, Goto, LengthAsExpected, CallFits, Calls,
     Want, Failed, Nothing, Closed
<1>19. ASSUME NEW t \in Tasks, ClearCache(t) PROVE LengthAsExpected'
  BY <1>19, <1>0, Zenon DEF ClearCache, At, Goto, LengthAsExpected, CallFits, Calls, Want, Failed,
     Nothing, Closed
<1>20. ASSUME NEW t \in Tasks, ClearInflight(t) PROVE LengthAsExpected'
  BY <1>20, <1>0, Zenon DEF ClearInflight, At, Goto, store, Tell, LengthAsExpected, CallFits,
     Calls, Want, Failed, Nothing, Closed
<1>21. ASSUME NEW t \in Tasks, ClearWrites(t) PROVE LengthAsExpected'
  BY <1>21, <1>0 DEF ClearWrites, At, Return, Goto, LengthAsExpected, CallFits, Calls, Want,
     Failed, Nothing, Closed
<1>22. ASSUME NEW t \in Tasks, AcquirePermit(t) PROVE LengthAsExpected'
  BY <1>22, <1>0, Zenon DEF AcquirePermit, At, Goto, store, LengthAsExpected, CallFits, Calls,
     Want, Failed, Nothing, Closed
<1>23. ASSUME NEW t \in Tasks, LeaderCancelled(t) PROVE LengthAsExpected'
  BY <1>23, <1>0 DEF LeaderCancelled, Return, Key, store, Settle, Tell, Goto,
     LengthAsExpected, CallFits, Calls, At, Want, Failed, Nothing, Closed
<1>24. ASSUME NEW t \in Tasks, FollowerGivesUp(t) PROVE LengthAsExpected'
  BY <1>24, <1>0 DEF FollowerGivesUp, At, Return, store, Unsubscribe, Goto,
     LengthAsExpected, CallFits, Calls, Want, Failed, Nothing, Closed
<1>25. ASSUME NEW t \in Tasks, Begin(t) PROVE LengthAsExpected'
  BY <1>25, <1>0 DEF Begin, Start, Entry, Goto, At, store, LengthAsExpected, CallFits,
     Calls, Want, Failed, Nothing, Closed
<1>26. ASSUME NEW i \in DOMAIN inserts, InsertReturns(i) PROVE LengthAsExpected'
  BY <1>26, Zenon DEF InsertReturns, LengthAsExpected, CallFits, Calls, At, Want, Failed, Nothing,
     Closed
<1>27. ASSUME NEW i \in DOMAIN inserts, Unstage(i) PROVE LengthAsExpected'
  BY <1>27, Zenon DEF Unstage, LengthAsExpected, CallFits, Calls, At, Want, Failed, Nothing, Closed
<1>28. ASSUME NEW k \in Keys, Evict(k) PROVE LengthAsExpected'
  BY <1>28, Zenon DEF Evict, LengthAsExpected, CallFits, Calls, At, Want, Failed, Nothing, Closed
<1>29. ASSUME UNCHANGED vars PROVE LengthAsExpected'
  BY <1>29, Zenon DEF vars, LengthAsExpected, CallFits, Calls, At, Want, Failed, Nothing, Closed
<1> QED
  BY <1>1, <1>2, <1>3, <1>4, <1>5, <1>6, <1>7, <1>8, <1>9, <1>10, <1>11, <1>12, <1>13,
     <1>14, <1>15, <1>16, <1>17, <1>18, <1>19, <1>20, <1>21, <1>22, <1>23, <1>24, <1>25, <1>26,
     <1>27, <1>28, <1>29, ZenonT(40) DEF Next, Step, InsertStep, Finished

\* No caller is given a chunk of a length it does not expect.
THEOREM LengthsRight == Spec => []LengthAsExpected
<1>1. Init => LengthAsExpected
  BY DEF Init, LengthAsExpected, NoCall, Failed, Nothing
<1> QED
  BY <1>1, InitType, StepType, StepLength, PTL DEF Spec

(***************************************************************************)
(* Staged bytes and files                                                  *)
(***************************************************************************)

\* Nothing but fetches: no clear, no eviction from the disk, no failing insert, and
\* every caller expects the length the blob has.
OnlyFetches ==
  Ops \cap {"clear", "evict", "insert_error"} = {} /\ \A m, n \in Lens : m = n

\* Nobody removes a chunk of a wrong length, and an insert about to give up its staged
\* bytes has its file.
ReadInv ==
  /\ \A t \in Tasks : pc[t] # "remove"
  /\ \A i \in DOMAIN inserts : inserts[i].pc = "unstage" => inserts[i].key \in DOMAIN cache

Kept == DOMAIN writes \cup DOMAIN cache \subseteq DOMAIN writes' \cup DOMAIN cache'

\* A task is spawned: it has yet to write.
LEMMA SpawnKeeps ==
  ASSUME TypeInv, ReadInv, NEW k, NEW n, SpawnInsert(k, n), UNCHANGED cache
  PROVE  Kept /\ \A i \in DOMAIN inserts' :
           inserts'[i].pc = "unstage" => inserts'[i].key \in DOMAIN cache'
<1> DEFINE e == [key |-> k, len |-> n, pc |-> "write"]
<1>1. inserts \in Seq(Inserts) /\ inserts' = Append(inserts, e)
  BY Zenon DEF TypeInv, StoreFits, SpawnInsert
<1>2. e.pc # "unstage"
  BY Zenon
<1>3. \A i \in DOMAIN inserts' : inserts'[i] = e \/ (i \in DOMAIN inserts /\ inserts'[i] = inserts[i])
  <2> HIDE DEF e
  <2> QED
    BY <1>1, SMTT(30)
<1>4. Kept
  BY Zenon DEF Kept, SpawnInsert, With
<1> QED
  BY <1>2, <1>3, <1>4, Zenon DEF ReadInv

LEMMA StepRead ==
  TypeInv /\ OnlyFetches /\ ReadInv /\ [Next]_vars => ReadInv' /\ Kept
<1> SUFFICES ASSUME TypeInv, OnlyFetches, ReadInv, [Next]_vars PROVE ReadInv' /\ Kept
  BY Zenon
<1>0. /\ pc \in [Tasks -> Labels] /\ inserts \in Seq(Inserts) /\ ChunkMap(cache)
      /\ \A u \in Tasks : CallFits(pc[u], call[u])
  BY Zenon DEF TypeInv, CallersFit, StoreFits
\* No caller runs a clear.
<1>n. \A t \in Tasks : call[t].op # "clear" /\ pc[t] \notin {"remove", "wipe", "unlead", "unstage"}
  BY <1>0, Zenon DEF OnlyFetches, ReadInv, CallFits
\* A step of a caller that touches neither the files nor the inserts.
<1>m. ASSUME NEW t \in Tasks, NEW l, l # "remove", Goto(t, l),
             UNCHANGED <<cache, writes, inserts>>
      PROVE  ReadInv' /\ Kept
  BY <1>m, <1>0, Zenon DEF ReadInv, Kept, Goto
\* One that spawns an insert.
<1>s. ASSUME NEW t \in Tasks, NEW l, l # "remove", Goto(t, l), NEW k, NEW n, SpawnInsert(k, n),
             UNCHANGED cache
      PROVE  ReadInv' /\ Kept
  BY <1>s, <1>0, SpawnKeeps, Zenon DEF ReadInv, Goto
<1>1. ASSUME NEW t \in Tasks, RangeStaged(t) \/ RangeGet(t) \/ Staged(t) \/ Peek(t)
      PROVE  ReadInv' /\ Kept
  BY <1>1, <1>m, Zenon DEF RangeStaged, RangeGet, Staged, Peek, Return, store
<1>2. ASSUME NEW t \in Tasks, Get(t) PROVE ReadInv' /\ Kept
  <2>1. Key(t) \in DOMAIN cache => cache[Key(t)] = Want(t)
    BY <1>2, <1>0, Zenon DEF Get, At, CallFits, Working, Labels, ChunkMap, OnlyFetches, Key, Want
  <2> QED
    BY <1>2, <1>m, <2>1, Zenon DEF Get, Return, store
<1>3. ASSUME NEW t \in Tasks, Enter(t) \/ UnknownMount(t) \/ Announce(t) \/ BlobGet(t)
      PROVE  ReadInv' /\ Kept
  BY <1>3, <1>m, Zenon DEF Enter, UnknownMount, Announce, BlobGet, Return, store
<1>4. ASSUME NEW t \in Tasks, PeerAnswers(t) PROVE ReadInv' /\ Kept
  BY <1>4, <1>m, <1>s, Zenon DEF PeerAnswers
<1>5. ASSUME NEW t \in Tasks, BlobAnswers(t) PROVE ReadInv' /\ Kept
  BY <1>5, <1>m, <1>s, Zenon DEF BlobAnswers
<1>6. ASSUME NEW t \in Tasks, Receive(t) \/ Again(t) \/ PullGet(t) \/ TakeFailures(t)
      PROVE  ReadInv' /\ Kept
  BY <1>6, <1>m, Zenon DEF Receive, Again, PullGet, TakeFailures, Return, store
<1>7. ASSUME NEW t \in Tasks, PullPeer(t) PROVE ReadInv' /\ Kept
  BY <1>7, <1>m, <1>s, Zenon DEF PullPeer, Return
<1>8. ASSUME NEW t \in Tasks, Drained(t) PROVE ReadInv' /\ Kept
  BY <1>8, <1>m, <1>n, Zenon DEF Drained, store
<1>9. ASSUME NEW t \in Tasks, RemoveWrong(t) \/ ClearCache(t) \/ ClearInflight(t) \/ ClearWrites(t)
      PROVE  FALSE
  BY <1>9, <1>n, Zenon DEF RemoveWrong, ClearCache, ClearInflight, ClearWrites, At
<1>10. ASSUME NEW t \in Tasks, LeaderCancelled(t) \/ FollowerGivesUp(t) PROVE ReadInv' /\ Kept
  BY <1>10, <1>m, Zenon DEF LeaderCancelled, FollowerGivesUp, Return, store
<1>11. ASSUME NEW t \in Tasks, AcquirePermit(t) PROVE ReadInv' /\ Kept
  <2>1. PICK l \in {"rstaged", "staged", "pget"} : Goto(t, l)
    BY <1>11, <1>0, Zenon DEF AcquirePermit, At, CallFits
  <2> QED
    BY <1>11, <1>m, <2>1, Zenon DEF AcquirePermit, store
<1>12. ASSUME NEW t \in Tasks, Begin(t) PROVE ReadInv' /\ Kept
  <2>1. \A op \in {"range", "origin", "pull", "fetch", "serve", "clear", "drain"} :
          Entry(op) # "remove"
    BY Zenon DEF Entry
  <2>2. PICK op \in {"range", "origin", "pull", "fetch", "serve", "clear", "drain"} :
          \E k, n, e : Start(t, op, k, n, e)
    BY <1>12, Zenon DEF Begin
  <2> QED
    BY <1>m, <2>1, <2>2, Zenon DEF Start, store
<1>13. ASSUME NEW i \in DOMAIN inserts, InsertReturns(i) PROVE ReadInv' /\ Kept
  <2>1. /\ cache' = With(cache, inserts[i].key, inserts[i].len) /\ UNCHANGED <<pc, writes>>
        /\ inserts' = [inserts EXCEPT ![i].pc = "unstage"]
    BY <1>13, Zenon DEF InsertReturns, OnlyFetches
  <2>2. DOMAIN cache' = DOMAIN cache \cup {inserts[i].key}
    BY <2>1, Zenon DEF With
  <2>3. /\ DOMAIN inserts' = DOMAIN inserts /\ inserts[i] \in Inserts
        /\ \A j \in DOMAIN inserts : j # i => inserts'[j] = inserts[j]
    BY <1>0, <1>13, <2>1, InsertMoves, Zenon
  <2>4. inserts'[i].key = inserts[i].key
    BY <2>1, <2>3, <1>13, Zenon DEF Inserts
  <2> QED
    BY <2>1, <2>2, <2>3, <2>4, Zenon DEF ReadInv, Kept
<1>14. ASSUME NEW i \in DOMAIN inserts, Unstage(i) PROVE ReadInv' /\ Kept
  <2>1. /\ writes' = Without(writes, {inserts[i].key}) /\ UNCHANGED <<pc, cache>>
        /\ inserts' = [inserts EXCEPT ![i].pc = "done"] /\ inserts[i].pc = "unstage"
    BY <1>14, Zenon DEF Unstage
  <2>2. /\ DOMAIN writes' = DOMAIN writes \ {inserts[i].key} /\ inserts[i].key \in DOMAIN cache
    BY <1>14, <2>1, Zenon DEF Without, Restrict, ReadInv
  <2>3. /\ DOMAIN inserts' = DOMAIN inserts /\ inserts[i] \in Inserts
        /\ \A j \in DOMAIN inserts : j # i => inserts'[j] = inserts[j]
    BY <1>0, <1>14, <2>1, InsertMoves, Zenon
  <2>4. inserts'[i].pc = "done"
    BY <2>1, <2>3, <1>14, Zenon DEF Inserts
  <2> QED
    BY <2>1, <2>2, <2>3, <2>4, Zenon DEF ReadInv, Kept
<1>15. ASSUME NEW k \in Keys, Evict(k) PROVE ReadInv' /\ Kept
  BY <1>15, Zenon DEF Evict, OnlyFetches, ReadInv, Kept
<1>16. ASSUME UNCHANGED vars PROVE ReadInv' /\ Kept
  BY <1>16, Zenon DEF vars, ReadInv, Kept
<1> QED
  BY <1>1, <1>2, <1>3, <1>4, <1>5, <1>6, <1>7, <1>8, <1>9, <1>10, <1>11, <1>12, <1>13, <1>14,
     <1>15, <1>16, ZenonT(40) DEF Next, Step, InsertStep, Finished

\* While chunks are only fetched, one that a read could be served from this node stays
\* so: spawn_insert's task gives up the staged bytes only once the file is there,
\* whatever callers are cancelled and whoever staged the same chunk again.
THEOREM ReadableStays == ASSUME OnlyFetches PROVE Spec => StaysReadable
<1>1. Init => ReadInv
  <2>1. DOMAIN <<>> = {}
    BY SMTT(30)
  <2> QED
    BY <2>1, SMTT(30) DEF Init, ReadInv
<1>2. TypeInv /\ ReadInv /\ [Next]_vars => ReadInv'
  BY OnlyFetches, StepRead, Zenon
<1>3. Spec => [](TypeInv /\ ReadInv)
  BY <1>1, <1>2, InitType, StepType, PTL DEF Spec
<1>4. TypeInv /\ ReadInv /\ [Next]_vars =>
        [DOMAIN writes \cup DOMAIN cache \subseteq DOMAIN writes' \cup DOMAIN cache']_vars
  BY OnlyFetches, StepRead, Zenon DEF Kept
<1> QED
  BY <1>3, <1>4, PTL DEF Spec, StaysReadable
=============================================================================
