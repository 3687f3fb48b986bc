---------------------------- MODULE ColdReadProofs ----------------------------
(***************************************************************************)
(* Proofs about ColdRead for any nodes, scores, readers and budgets.       *)
(***************************************************************************)
EXTENDS ColdRead, WellFoundedInduction, TLAPS

(***************************************************************************)
(* Types                                                                   *)
(***************************************************************************)

LEMMA ToldType ==
  ASSUME TypeOK, NEW n \in Nodes, NEW result \in {"ok", "failed"}
  PROVE  Told(n, result) \in [Readers -> ReaderStates]
BY Zenon DEF TypeOK, Told, ReaderStates, ReaderLabels, At

LEMMA AnsweredType ==
  ASSUME TypeOK, NEW n \in Nodes, NEW result \in {"ok", "failed"}
  PROVE  /\ Answered(n, result) \in [Nodes -> CallStates]
         /\ \A o \in Nodes : Answered(n, result)[o].to = call[o].to
         /\ \A o \in Nodes : Answered(n, result)[o].pc = "none" <=> call[o].pc = "none"
BY SMTT(30) DEF TypeOK, Answered, CallStates, HandlerLabels, Serving, To

LEMMA IdleTypes ==
  NoPlan \in Plans /\ NoCall \in CallStates /\ NoCall.pc = "none" /\ NoCall.to = NoNode
BY Zenon DEF NoPlan, NoCall, Plans, CallStates, HandlerLabels

CallsTyped == call \in [Nodes -> CallStates] /\ \A n \in Nodes : Serving(n, "none") \/ To(n) \in Nodes

LEMMA GotoType ==
  ASSUME TypeOK, NEW r \in Readers, NEW l \in ReaderLabels, Goto(r, l)
  PROVE  reader' \in [Readers -> ReaderStates]
BY Zenon DEF TypeOK, Goto, ReaderStates

LEMMA ServesType ==
  ASSUME TypeOK, NEW n \in Nodes, NEW l \in HandlerLabels, ~Serving(n, "none"), Serves(n, l)
  PROVE  CallsTyped'
BY DEF TypeOK, Serves, CallStates, CallsTyped, Serving, To

LEMMA CallsType ==
  ASSUME TypeOK, NEW r \in Readers, NEW m \in Nodes, NEW w \in BOOLEAN, Calls(r, Home[r], m, w)
  PROVE  CallsTyped' /\ reader' \in [Readers -> ReaderStates]
<1>1. Goto(r, "asking") /\ "asking" \in ReaderLabels
  BY Zenon DEF Calls, ReaderLabels
<1>2. reader' \in [Readers -> ReaderStates]
  BY <1>1, GotoType, Zenon
<1>3. [to |-> m, wait |-> w, pc |-> "arrive"] \in CallStates
  BY Zenon DEF CallStates, HandlerLabels
<1>4. CallsTyped'
  BY <1>3, HomeAssumption, Zenon DEF Calls, TypeOK, CallsTyped, Serving, To
<1> QED
  BY <1>2, <1>4, Zenon

LEMMA SpawnType ==
  ASSUME TypeOK, NEW n \in Nodes, SpawnInsert(n)
  PROVE  cached' \subseteq Nodes /\ staged' \subseteq Nodes /\ inserts' \in [Nodes -> Nat]
BY DEF TypeOK, SpawnInsert

LEMMA GetsType ==
  ASSUME TypeOK, NEW n \in Nodes, NEW result, Gets(n, result)
  PROVE  /\ cached' \subseteq Nodes /\ staged' \subseteq Nodes /\ inserts' \in [Nodes -> Nat]
         /\ calm' \in BOOLEAN /\ sound' \in BOOLEAN
<1>1. CASE SpawnInsert(n) /\ UNCHANGED <<calm, sound>>
  BY <1>1, SpawnType, Zenon DEF TypeOK
<1>2. CASE calm' = FALSE /\ sound' = FALSE /\ UNCHANGED store
  BY <1>2, Zenon DEF TypeOK, store
<1> QED
  BY <1>1, <1>2, Zenon DEF Gets

LEMMA LeaderReturnsType ==
  ASSUME TypeOK, NEW r \in Readers, NEW n \in Nodes, NEW result \in {"ok", "failed"},
         LeaderReturns(r, n, result)
  PROVE  /\ inflight' \subseteq Nodes /\ plan' \in [Nodes -> Plans]
         /\ reader' \in [Readers -> ReaderStates]
<1>1. [pc |-> "idle", got |-> result] \in ReaderStates
  BY Zenon DEF ReaderStates, ReaderLabels
<1>2. Told(n, result) \in [Readers -> ReaderStates]
  BY ToldType, Zenon
<1> QED
  BY <1>1, <1>2, IdleTypes, Zenon DEF TypeOK, LeaderReturns

LEMMA InitType == Init => TypeOK
<1> SUFFICES ASSUME Init PROVE TypeOK
  BY Zenon
<1>1. [pc |-> "idle", got |-> "nothing"] \in ReaderStates
  BY Zenon DEF ReaderStates, ReaderLabels
<1> QED
  BY <1>1, IdleTypes, Zenon DEF Init, TypeOK, Others, Serving, To

LEMMA StepType == TypeOK /\ [Next]_vars => TypeOK'
<1> SUFFICES ASSUME TypeOK, [Next]_vars PROVE TypeOK'
  BY Zenon
<1> USE IdleTypes, HomeAssumption
<1>0. CallsTyped
  BY Zenon DEF TypeOK, CallsTyped
<1>1. ASSUME NEW r \in Readers, Begin(r) PROVE TypeOK'
  <2>1. reader' \in [Readers -> ReaderStates]
    BY <1>1, GotoType, Zenon DEF Begin, ReaderLabels
  <2>2. calm' \in BOOLEAN
    BY <1>1, Zenon DEF Begin, TypeOK
  <2>3. events' \in Nat
    BY <1>1 DEF Begin, TypeOK
  <2> QED
    BY <1>1, <2>1, <2>2, <2>3, Zenon DEF Begin, TypeOK, Serving, To, store
<1>2. ASSUME NEW r \in Readers, Look(r) PROVE TypeOK'
  <2>1. [pc |-> "idle", got |-> "ok"] \in ReaderStates /\ [pc |-> "idle", got |-> "failed"] \in ReaderStates
    BY Zenon DEF ReaderStates, ReaderLabels
  <2>2. reader' \in [Readers -> ReaderStates]
    BY <1>2, <2>1, GotoType, Zenon DEF Look, Returns, TypeOK, ReaderLabels
  <2> QED
    BY <1>2, <2>2, Zenon DEF Look, TypeOK, Serving, To, store, history
<1>3. ASSUME NEW r \in Readers, Enter(r) PROVE TypeOK'
  <2>1. reader' \in [Readers -> ReaderStates]
    BY <1>3, GotoType, Zenon DEF Enter, ReaderLabels
  <2> QED
    BY <1>3, <2>1 DEF Enter, TypeOK, Serving, To, store, history
<1>5. ASSUME NEW r \in Readers, Rank(r) PROVE TypeOK'
  <2>1. reader' \in [Readers -> ReaderStates]
    BY <1>5, GotoType, Zenon DEF Rank, ReaderLabels
  <2>2. plan' \in [Nodes -> Plans]
    BY <1>5 DEF Rank, TypeOK, Plans
  <2>3. calm' \in BOOLEAN /\ events' \in Nat
    BY <1>5 DEF Rank, TypeOK, Event
  <2> QED
    BY <1>5, <2>1, <2>2, <2>3, Zenon DEF Rank, TypeOK, Serving, To, store
<1>6. ASSUME NEW r \in Readers, AskYes(r) PROVE TypeOK'
  <2>1. PICK m \in Nodes : Calls(r, Home[r], m, FALSE)
    BY <1>6, Zenon DEF AskYes, First, TypeOK, Plans
  <2>2. plan' \in [Nodes -> Plans]
    BY <1>6, SMTT(30) DEF AskYes, TypeOK, Plans
  <2>3. CallsTyped' /\ reader' \in [Readers -> ReaderStates]
    BY <2>1, CallsType, Zenon
  <2> QED
    BY <1>6, <2>2, <2>3, Zenon DEF AskYes, TypeOK, CallsTyped, store, history
<1>7. ASSUME NEW r \in Readers, AskMaybe(r) PROVE TypeOK'
  <2>1. PICK m \in Nodes : Calls(r, Home[r], m, FALSE)
    BY <1>7, Zenon DEF AskMaybe, First, TypeOK, Plans
  <2>2. plan' \in [Nodes -> Plans]
    BY <1>7, SMTT(30) DEF AskMaybe, TypeOK, Plans
  <2>3. CallsTyped' /\ reader' \in [Readers -> ReaderStates]
    BY <2>1, CallsType, Zenon
  <2> QED
    BY <1>7, <2>2, <2>3, Zenon DEF AskMaybe, TypeOK, CallsTyped, store, history
<1>8. ASSUME NEW r \in Readers, AskElected(r) PROVE TypeOK'
  <2>1. CallsTyped' /\ reader' \in [Readers -> ReaderStates]
    <3>1. PICK m \in Nodes : IF m = Home[r] THEN Goto(r, "blob") /\ UNCHANGED call
                                            ELSE Calls(r, Home[r], m, TRUE)
      BY <1>8, Zenon DEF AskElected, HrwTop, First, TypeOK, Plans
    <3>2. CASE m = Home[r]
      BY <1>0, <3>1, <3>2, GotoType, Zenon DEF ReaderLabels, CallsTyped, Serving, To
    <3>3. CASE m # Home[r]
      BY <3>1, <3>3, CallsType, Zenon
    <3> QED
      BY <3>2, <3>3, Zenon
  <2> QED
    BY <1>8, <2>1, Zenon DEF AskElected, TypeOK, CallsTyped, store, history
<1>9. ASSUME NEW r \in Readers, GoToBlob(r) PROVE TypeOK'
  <2>1. reader' \in [Readers -> ReaderStates]
    BY <1>9, GotoType, Zenon DEF GoToBlob, ReaderLabels
  <2> QED
    BY <1>9, <2>1, Zenon DEF GoToBlob, TypeOK, Serving, To, store, history
<1>10. ASSUME NEW r \in Readers, BlobAnswers(r) PROVE TypeOK'
  <2>1. PICK result \in {"ok", "failed"} : /\ Gets(Home[r], result)
                                           /\ LeaderReturns(r, Home[r], result)
                                           /\ call' = Answered(Home[r], result)
    BY <1>10, Zenon DEF BlobAnswers
  <2>2. CallsTyped'
    <3>1. Home[r] \in Nodes /\ result \in {"ok", "failed"}
      BY Zenon
    <3>2. /\ call' \in [Nodes -> CallStates]
          /\ \A o \in Nodes : call'[o].to = call[o].to /\ (call'[o].pc = "none" <=> call[o].pc = "none")
      BY <2>1, <3>1, AnsweredType
    <3> QED
      BY <1>0, <3>2, Zenon DEF CallsTyped, Serving, To
  <2> QED
    BY <1>10, <2>1, <2>2, GetsType, LeaderReturnsType DEF BlobAnswers, TypeOK, CallsTyped
<1>11. ASSUME NEW r \in Readers, PeerAnswers(r) PROVE TypeOK'
  <2>1. CASE Serving(Home[r], "data")
    <3>1. /\ SpawnInsert(Home[r]) /\ LeaderReturns(r, Home[r], "ok")
          /\ call' = [Answered(Home[r], "ok") EXCEPT ![Home[r]] = NoCall]
      BY <1>11, <2>1, Zenon DEF PeerAnswers, Serving
    <3>2. CallsTyped'
      <4> DEFINE A == Answered(Home[r], "ok")
      <4>1. /\ A \in [Nodes -> CallStates]
            /\ \A o \in Nodes : A[o].to = call[o].to /\ (A[o].pc = "none" <=> call[o].pc = "none")
        BY AnsweredType
      <4> HIDE DEF A
      <4>2. call' = [A EXCEPT ![Home[r]] = NoCall]
        BY <3>1, Zenon DEF A
      <4>3. call' \in [Nodes -> CallStates]
        BY <4>1, <4>2, Zenon
      <4>4. \A o \in Nodes : call'[o].pc = "none" \/ call'[o].to \in Nodes
        BY <1>0, <4>1, <4>2, Zenon DEF CallsTyped, Serving, To
      <4> QED
        BY <4>3, <4>4, Zenon DEF CallsTyped, Serving, To
    <3> QED
      BY <1>11, <3>1, <3>2, SpawnType, LeaderReturnsType, Zenon DEF PeerAnswers, TypeOK, CallsTyped, history
  <2>2. CASE Serving(Home[r], "miss")
    <3>1. Goto(r, "ask") /\ call' = [call EXCEPT ![Home[r]] = NoCall]
      BY <1>11, <2>2, Zenon DEF PeerAnswers, Serving
    <3>2. CallsTyped'
      BY <1>0, <3>1, Zenon DEF CallsTyped, Serving, To
    <3>3. reader' \in [Readers -> ReaderStates]
      BY <3>1, GotoType, Zenon DEF ReaderLabels
    <3> QED
      BY <1>11, <2>2, <3>2, <3>3, Zenon DEF PeerAnswers, TypeOK, CallsTyped, Serving, store, history
  <2> QED
    BY <1>11, <2>1, <2>2, Zenon DEF PeerAnswers
<1>12. ASSUME NEW r \in Readers, Hangup(r) PROVE TypeOK'
  <2> DEFINE n == Home[r]
  <2>1. Goto(r, "ask") /\ call' = [call EXCEPT ![n] = NoCall] /\ adrift' = adrift \cup LeftOf(n)
    BY <1>12, Zenon DEF Hangup
  <2>2. reader' \in [Readers -> ReaderStates]
    BY <2>1, GotoType, Zenon DEF ReaderLabels
  <2>3. CallsTyped'
    BY <1>0, <2>1, Zenon DEF CallsTyped, Serving, To
  <2>4. LeftOf(n) \subseteq Nodes \X {"peek", "enter", "get"}
    BY <1>0, SMTT(30) DEF LeftOf, CallsTyped, Serving, To
  <2>5. calm' \in BOOLEAN
    BY <1>12, Zenon DEF Hangup
  <2>6. events' \in Nat
    BY <1>12 DEF Hangup, Event, TypeOK
  <2> QED
    BY <1>12, <2>1, <2>2, <2>3, <2>4, <2>5, <2>6, Zenon DEF Hangup, TypeOK, CallsTyped, store
<1>13. ASSUME NEW n \in Nodes, Arrive(n) PROVE TypeOK'
  <2>1. CallsTyped'
    BY <1>13, ServesType, Zenon DEF Arrive, Serving, HandlerLabels
  <2> QED
    BY <1>13, <2>1, Zenon DEF Arrive, TypeOK, CallsTyped, store, history
<1>14. ASSUME NEW n \in Nodes, Peek(n) PROVE TypeOK'
  <2>1. CallsTyped'
    BY <1>14, ServesType, Zenon DEF Peek, Serving, HandlerLabels
  <2> QED
    BY <1>14, <2>1, Zenon DEF Peek, TypeOK, CallsTyped, store, history
<1>15. ASSUME NEW n \in Nodes, ServeEnter(n) PROVE TypeOK'
  <2>1. CallsTyped'
    BY <1>15, ServesType, Zenon DEF ServeEnter, Serving, HandlerLabels
  <2>2. inflight' \subseteq Nodes
    BY <1>15 DEF ServeEnter, TypeOK, Serving
  <2> QED
    BY <1>15, <2>1, <2>2, Zenon DEF ServeEnter, TypeOK, CallsTyped, store, history
<1>16. ASSUME NEW n \in Nodes, ServeGet(n) PROVE TypeOK'
  <2>1. To(n) \in Nodes
    BY <1>16, <1>0, Zenon DEF ServeGet, CallsTyped, Serving
  <2>2. PICK result \in {"ok", "failed"} :
          /\ Gets(To(n), result) /\ inflight' = inflight \ {To(n)}
          /\ reader' = Told(To(n), result)
          /\ call' = [Answered(To(n), result) EXCEPT ![n].pc = IF result = "ok" THEN "data" ELSE "miss"]
    BY <1>16, Zenon DEF ServeGet
  <2>3. CallsTyped'
    <3> DEFINE A == Answered(To(n), result)
    <3>1. /\ A \in [Nodes -> CallStates]
          /\ \A o \in Nodes : A[o].to = call[o].to /\ (A[o].pc = "none" <=> call[o].pc = "none")
      BY <2>1, AnsweredType
    <3> HIDE DEF A
    <3>2. call' = [A EXCEPT ![n].pc = IF result = "ok" THEN "data" ELSE "miss"]
      BY <2>2, Zenon DEF A
    <3>3. call' \in [Nodes -> CallStates] /\ \A o \in Nodes : call'[o].to = call[o].to
      BY <3>1, <3>2 DEF CallStates, HandlerLabels
    <3>4. \A o \in Nodes : call'[o].pc = "none" <=> call[o].pc = "none"
      BY <1>16, <3>1, <3>2 DEF ServeGet, Serving, CallStates
    <3> QED
      BY <1>0, <3>3, <3>4, Zenon DEF CallsTyped, Serving, To
  <2>4. reader' \in [Readers -> ReaderStates]
    BY <2>1, <2>2, ToldType, Zenon
  <2> QED
    BY <1>16, <2>1, <2>2, <2>3, <2>4, GetsType, Zenon DEF ServeGet, TypeOK, CallsTyped
<1>17. ASSUME NEW n \in Nodes, ServeTimeout(n) PROVE TypeOK'
  <2>1. CallsTyped'
    BY <1>17, ServesType, Zenon DEF ServeTimeout, Serving, HandlerLabels
  <2> QED
    BY <1>17, <2>1, Zenon DEF ServeTimeout, TypeOK, CallsTyped, store, history
<1>18. ASSUME NEW n \in Nodes, InsertEnds(n) PROVE TypeOK'
  BY <1>18 DEF InsertEnds, TypeOK, Serving, To, history
<1>19. ASSUME NEW n \in Nodes, ViewChange(n) PROVE TypeOK'
  BY <1>19 DEF ViewChange, Event, Others, TypeOK, Serving, To, store
<1>20. ASSUME NEW n \in Nodes, Evict(n) PROVE TypeOK'
  <2>1. calm' \in BOOLEAN
    BY <1>20, Zenon DEF Evict
  <2>2. events' \in Nat /\ cached' \subseteq Nodes
    BY <1>20 DEF Evict, Event, TypeOK
  <2> QED
    BY <1>20, <2>1, <2>2, Zenon DEF Evict, TypeOK, Serving, To
<1>22. ASSUME NEW m \in Nodes, DriftEnters(m) PROVE TypeOK'
  <2>1. adrift' \subseteq Nodes \X {"peek", "enter", "get"} /\ inflight' \subseteq Nodes
    BY <1>22 DEF DriftEnters, Drifts, TypeOK
  <2> QED
    BY <1>22, <2>1, Zenon DEF DriftEnters, TypeOK, Serving, To, store, history
<1>23. ASSUME NEW m \in Nodes, NEW result \in {"ok", "failed"},
              Sinks(m, "get"), inflight' = inflight \ {m}, reader' = Told(m, result), call' = Answered(m, result)
       PROVE  /\ adrift' \subseteq Nodes \X {"peek", "enter", "get"} /\ inflight' \subseteq Nodes
              /\ reader' \in [Readers -> ReaderStates] /\ CallsTyped'
  <2>1. adrift' \subseteq Nodes \X {"peek", "enter", "get"} /\ inflight' \subseteq Nodes
    BY <1>23, Zenon DEF Sinks, TypeOK
  <2>2. reader' \in [Readers -> ReaderStates]
    BY <1>23, ToldType, Zenon
  <2>3. /\ call' \in [Nodes -> CallStates]
        /\ \A o \in Nodes : call'[o].to = call[o].to /\ (call'[o].pc = "none" <=> call[o].pc = "none")
    BY <1>23, AnsweredType
  <2> QED
    BY <1>0, <2>1, <2>2, <2>3, Zenon DEF CallsTyped, Serving, To
<1>24. ASSUME NEW m \in Nodes, DriftGet(m) PROVE TypeOK'
  <2>1. PICK result \in {"ok", "failed"} :
          /\ Sinks(m, "get") /\ Gets(m, result) /\ inflight' = inflight \ {m}
          /\ reader' = Told(m, result) /\ call' = Answered(m, result)
    BY <1>24, Zenon DEF DriftGet
  <2>2. /\ cached' \subseteq Nodes /\ staged' \subseteq Nodes /\ inserts' \in [Nodes -> Nat]
        /\ calm' \in BOOLEAN /\ sound' \in BOOLEAN
    BY <2>1, GetsType, Zenon
  <2> QED
    BY <1>23, <1>24, <2>1, <2>2, Zenon DEF DriftGet, TypeOK, CallsTyped
<1>25. ASSUME NEW m \in Nodes, DriftDropped(m) PROVE TypeOK'
  <2>1. sound' \in BOOLEAN
    BY <1>25, Zenon DEF DriftDropped
  <2> QED
    BY <1>23, <1>25, <2>1, Zenon DEF DriftDropped, TypeOK, CallsTyped, store
<1>26. ASSUME NEW m \in Nodes, DriftEnds(m) PROVE TypeOK'
  BY <1>26, Zenon DEF DriftEnds, Sinks, TypeOK, Serving, To, store, history
<1>21. ASSUME UNCHANGED vars PROVE TypeOK'
  BY <1>21, Zenon DEF vars, TypeOK, Serving, To
<1> QED
  BY <1>1, <1>2, <1>3, <1>5, <1>6, <1>7, <1>8, <1>9, <1>10, <1>11, <1>12, <1>13, <1>14, <1>15, <1>16, <1>17, <1>18,
     <1>19, <1>20, <1>21, <1>22, <1>24, <1>25, <1>26, Zenon DEF Next, Read, Serve, Drift, Finished

\* The singleflight maps, the plans and the calls keep their shape on every node.
THEOREM TypeCorrect == Spec => []TypeOK
BY InitType, StepType, PTL DEF Spec

(***************************************************************************)
(* Waits climb: a call that waits on its callee was made to an elected     *)
(* node, and one is elected only with a higher score.                      *)
(***************************************************************************)

WaitLabels == {"peek", "enter", "get", "follow"}

Climbs(c, n) == c.wait => c.to \in Nodes /\ Score[c.to] > Score[n]
MayWait(c) == c.pc \in WaitLabels => c.wait

WaitInv == \A n \in Nodes : Climbs(call[n], n) /\ MayWait(call[n])

LEMMA AnsweredWaits ==
  ASSUME TypeOK, WaitInv, NEW n \in Nodes, NEW result, NEW o \in Nodes
  PROVE  Climbs(Answered(n, result)[o], o) /\ MayWait(Answered(n, result)[o])
BY DEF TypeOK, WaitInv, Answered, CallStates, Climbs, MayWait, WaitLabels

LEMMA NoCallWaits == \A n : Climbs(NoCall, n) /\ MayWait(NoCall)
BY Zenon DEF NoCall, Climbs, MayWait, WaitLabels

LEMMA ServesWaits ==
  ASSUME TypeOK, WaitInv, NEW n \in Nodes, NEW l, Serves(n, l), l \in WaitLabels => call[n].wait
  PROVE  WaitInv'
BY Zenon DEF TypeOK, WaitInv, Serves, CallStates, Climbs, MayWait

LEMMA HigherElected ==
  ASSUME NEW n \in Nodes, NEW S \in SUBSET Nodes, NEW m \in HrwTop(n, S), m # n
  PROVE  m \in Nodes /\ Score[m] > Score[n]
BY ScoreAssumption DEF HrwTop, First

LEMMA StepWait == TypeOK /\ WaitInv /\ [Next]_vars => WaitInv'
<1> SUFFICES ASSUME TypeOK, WaitInv, [Next]_vars PROVE WaitInv'
  BY Zenon
<1> USE HomeAssumption
<1>1. ASSUME UNCHANGED call PROVE WaitInv'
  BY <1>1, Zenon DEF WaitInv
<1>2. ASSUME NEW r \in Readers, NEW m, Calls(r, Home[r], m, FALSE) PROVE WaitInv'
  <2>1. call' = [call EXCEPT ![Home[r]] = [to |-> m, wait |-> FALSE, pc |-> "arrive"]]
    BY <1>2, Zenon DEF Calls
  <2> QED
    BY <2>1, Zenon DEF TypeOK, WaitInv, Climbs, MayWait, WaitLabels
<1>3. ASSUME NEW r \in Readers, AskElected(r) PROVE WaitInv'
  <2> DEFINE n == Home[r]
  <2>1. PICK m \in HrwTop(n, plan[n].alive) :
          IF m = n THEN UNCHANGED call
                   ELSE call' = [call EXCEPT ![n] = [to |-> m, wait |-> TRUE, pc |-> "arrive"]]
    BY <1>3, Zenon DEF AskElected, Calls
  <2>2. CASE m = n
    BY <1>1, <2>1, <2>2, Zenon
  <2>3. CASE m # n
    <3>1. plan[n].alive \in SUBSET Nodes
      BY Zenon DEF TypeOK, Plans
    <3>2. m \in Nodes /\ Score[m] > Score[n]
      BY <2>3, <3>1, HigherElected, Zenon
    <3> QED
      BY <2>1, <2>3, <3>2 DEF TypeOK, WaitInv, Climbs, MayWait, WaitLabels
  <2> QED
    BY <2>2, <2>3, Zenon
<1>4. ASSUME NEW r \in Readers, BlobAnswers(r) PROVE WaitInv'
  <2>1. PICK result : call' = Answered(Home[r], result)
    BY <1>4, Zenon DEF BlobAnswers
  <2> QED
    BY <2>1, AnsweredWaits, Zenon DEF WaitInv
<1>5. ASSUME NEW r \in Readers, PeerAnswers(r) PROVE WaitInv'
  <2>1. CASE call' = [Answered(Home[r], "ok") EXCEPT ![Home[r]] = NoCall]
    BY <2>1, AnsweredWaits, NoCallWaits, Zenon DEF WaitInv, Answered
  <2>2. CASE call' = [call EXCEPT ![Home[r]] = NoCall]
    BY <2>2, NoCallWaits, Zenon DEF WaitInv, TypeOK
  <2> QED
    BY <1>5, <2>1, <2>2, Zenon DEF PeerAnswers
<1>6. ASSUME NEW r \in Readers, Hangup(r) PROVE WaitInv'
  <2>1. call' = [call EXCEPT ![Home[r]] = NoCall]
    BY <1>6, Zenon DEF Hangup
  <2> QED
    BY <2>1, NoCallWaits, Zenon DEF WaitInv, TypeOK
<1>7. ASSUME NEW n \in Nodes, Arrive(n) \/ Peek(n) \/ ServeEnter(n) \/ ServeTimeout(n) PROVE WaitInv'
  <2>1. PICK l : Serves(n, l) /\ (l \in WaitLabels => call[n].wait)
    BY <1>7 DEF Arrive, Peek, ServeEnter, ServeTimeout, WaitInv, MayWait, WaitLabels, Serving
  <2> QED
    BY <2>1, ServesWaits, Zenon
<1>8. ASSUME NEW n \in Nodes, ServeGet(n) PROVE WaitInv'
  <2>1. To(n) \in Nodes
    BY <1>8, Zenon DEF ServeGet, TypeOK, Serving
  <2>2. PICK result \in {"ok", "failed"}, l \in {"data", "miss"} :
          call' = [Answered(To(n), result) EXCEPT ![n].pc = l]
    BY <1>8, Zenon DEF ServeGet
  <2> DEFINE A == Answered(To(n), result)
  <2>3. /\ \A o \in Nodes : Climbs(A[o], o) /\ MayWait(A[o])
        /\ A = [o \in Nodes |-> A[o]] /\ A[n] \in CallStates
    <3>1. A \in [Nodes -> CallStates]
      BY <2>1, AnsweredType, Zenon
    <3>2. \A o \in Nodes : Climbs(A[o], o) /\ MayWait(A[o])
      BY <2>1, AnsweredWaits, Zenon
    <3> QED
      BY <3>1, <3>2, Zenon
  <2> HIDE DEF A
  <2>4. call' = [A EXCEPT ![n].pc = l]
    BY <2>2, Zenon DEF A
  <2> QED
    BY <2>3, <2>4, Zenon DEF WaitInv, Climbs, MayWait, WaitLabels, CallStates
<1>9. ASSUME NEW r \in Readers, AskYes(r) \/ AskMaybe(r) PROVE WaitInv'
  BY <1>2, <1>9, Zenon DEF AskYes, AskMaybe
<1>10. ASSUME NEW m \in Nodes, DriftGet(m) \/ DriftDropped(m) PROVE WaitInv'
  <2>1. PICK result : call' = Answered(m, result)
    BY <1>10, Zenon DEF DriftGet, DriftDropped
  <2> QED
    BY <2>1, AnsweredWaits, Zenon DEF WaitInv
<1> QED
  BY <1>1, <1>3, <1>4, <1>5, <1>6, <1>7, <1>8, <1>9, <1>10, Zenon
     DEF Next, Read, Serve, Drift, Finished, Begin, Look, Enter, Rank, GoToBlob, DriftEnters, DriftEnds,
         InsertEnds, ViewChange, Evict, vars

\* Some node of any group has the highest score of the group.
LEMMA HighestScore ==
  ASSUME NEW S \in SUBSET Nodes, S # {}
  PROVE  \E n \in S : \A m \in S : Score[m] <= Score[n]
<1> DEFINE R == OpToRel(<, Nat)
           D == {MaxScore - Score[n] : n \in S}
<1>1. D \subseteq Nat /\ D # {}
  BY ScoreAssumption
<1>2. PICK x \in D : \A y \in D : ~(<<y, x>> \in R)
  <2> HIDE DEF D, R
  <2>1. IsWellFoundedOn(R, Nat)
    BY NatLessThanWellFounded, Zenon DEF R
  <2> QED
    BY <1>1, <2>1, WFMin, Zenon
<1>3. \A y \in D : ~(y < x)
  <2> HIDE DEF D
  <2> QED
    BY <1>1, <1>2, Zenon DEF OpToRel
<1>4. PICK n \in S : x = MaxScore - Score[n]
  BY <1>2, Zenon
<1>5. ASSUME NEW m \in S PROVE Score[m] <= Score[n]
  <2>1. ~(MaxScore - Score[m] < MaxScore - Score[n])
    BY <1>3, <1>4, Zenon
  <2> QED
    BY <2>1, ScoreAssumption
<1> QED
  BY <1>5, Zenon

\* Whatever the nodes take each other's membership to be, and however their elections
\* fall, they never wait for each other in a circle (hrw_top_id, serve_peer_chunk).
THEOREM NobodyWaitsInCircles == Spec => []NoWaitCycle
<1>1. Init => WaitInv
  BY NoCallWaits, Zenon DEF Init, WaitInv
<1>2. TypeOK /\ WaitInv => NoWaitCycle
  <2> SUFFICES ASSUME TypeOK, WaitInv, NEW S \in SUBSET Nodes, S # {}
               PROVE  \E n \in S : \A m \in S : ~WaitsFor(n, m)
    BY Zenon DEF NoWaitCycle
  <2>1. PICK n \in S : \A m \in S : Score[m] <= Score[n]
    BY HighestScore, Zenon
  <2>2. ASSUME NEW m \in S, WaitsFor(n, m) PROVE FALSE
    <3>1. m \in Nodes /\ Score[m] > Score[n]
      BY <2>2, Zenon DEF WaitsFor, Serving, To, WaitInv, Climbs, MayWait, WaitLabels
    <3> QED
      BY <2>1, <3>1, ScoreAssumption
  <2> QED
    BY <2>2, Zenon
<1> QED
  BY InitType, StepType, StepWait, <1>1, <1>2, PTL DEF Spec

(***************************************************************************)
(* Leaders: every step keeps the leaders, ends the leader of one node,     *)
(* adds one to a node that has none, or sets one adrift.                   *)
(***************************************************************************)

Gives(o) == Serving(o, "get")
Lost(m) == <<m, "get">> \in adrift

LeadInv ==
  /\ \A r \in Readers : Leads(r) => Home[r] \in inflight
  /\ \A o \in Nodes : Gives(o) => To(o) \in inflight
  /\ \A m \in Nodes : Lost(m) => m \in inflight
  /\ \A r, q \in Readers : Leads(r) /\ Leads(q) /\ Home[r] = Home[q] => r = q
  /\ \A o, p \in Nodes : Gives(o) /\ Gives(p) /\ To(o) = To(p) => o = p
  /\ \A r \in Readers, o \in Nodes : ~(Leads(r) /\ Gives(o) /\ To(o) = Home[r])
  /\ \A r \in Readers : Leads(r) => ~Lost(Home[r])
  /\ \A o \in Nodes : Gives(o) => ~Lost(To(o))
  /\ \A n \in inflight : \/ \E r \in Readers : Leads(r) /\ Home[r] = n
                         \/ \E o \in Nodes : Gives(o) /\ To(o) = n
                         \/ Lost(n)

\* A call out has its caller waiting.
CallerInv == \A n \in Nodes : Serving(n, "none") \/ \E r \in Readers : Home[r] = n /\ At(r, "asking")

GivesOn == \A o \in Nodes : (Gives(o)' <=> Gives(o)) /\ (Gives(o) => To(o)' = To(o))
LostOn == \A m \in Nodes : Lost(m)' <=> Lost(m)

LEMMA LeadersStay ==
  ASSUME TypeOK, LeadInv, UNCHANGED inflight, GivesOn, LostOn, \A r \in Readers : Leads(r)' <=> Leads(r)
  PROVE  LeadInv'
BY HomeAssumption, SMTT(30) DEF LeadInv, GivesOn, LostOn, TypeOK

LEMMA LeaderEnds ==
  ASSUME TypeOK, LeadInv, NEW n \in Nodes, inflight' = inflight \ {n},
         \A r \in Readers : Leads(r)' <=> Leads(r) /\ Home[r] # n,
         \A o \in Nodes : /\ Gives(o)' <=> Gives(o) /\ To(o) # n
                          /\ Gives(o)' => To(o)' = To(o),
         \A m \in Nodes : Lost(m)' <=> Lost(m) /\ m # n
  PROVE  LeadInv'
BY HomeAssumption, SMTT(30) DEF LeadInv, TypeOK

LEMMA ReaderLeads ==
  ASSUME TypeOK, LeadInv, NEW q \in Readers, Home[q] \notin inflight, inflight' = inflight \cup {Home[q]},
         GivesOn, LostOn, \A r \in Readers : Leads(r)' <=> Leads(r) \/ r = q
  PROVE  LeadInv'
BY HomeAssumption, SMTT(30) DEF LeadInv, GivesOn, LostOn, TypeOK

LEMMA HandlerLeads ==
  ASSUME TypeOK, LeadInv, NEW n \in Nodes, To(n) \in Nodes, To(n) \notin inflight,
         inflight' = inflight \cup {To(n)}, LostOn,
         \A r \in Readers : Leads(r)' <=> Leads(r),
         \A o \in Nodes : (Gives(o)' <=> Gives(o) \/ o = n) /\ To(o)' = To(o)
  PROVE  LeadInv'
BY HomeAssumption, SMTT(30) DEF LeadInv, LostOn, TypeOK

LEMMA DriftLeads ==
  ASSUME TypeOK, LeadInv, NEW n \in Nodes, n \notin inflight, inflight' = inflight \cup {n}, GivesOn,
         \A r \in Readers : Leads(r)' <=> Leads(r),
         \A m \in Nodes : Lost(m)' <=> Lost(m) \/ m = n
  PROVE  LeadInv'
BY HomeAssumption, SMTT(30) DEF LeadInv, GivesOn, TypeOK

LEMMA LeaderDrifts ==
  ASSUME TypeOK, LeadInv, NEW n \in Nodes, Gives(n), To(n) \in Nodes, UNCHANGED inflight,
         \A r \in Readers : Leads(r)' <=> Leads(r),
         \A o \in Nodes : /\ Gives(o)' <=> Gives(o) /\ o # n
                          /\ Gives(o)' => To(o)' = To(o),
         \A m \in Nodes : Lost(m)' <=> Lost(m) \/ m = To(n)
  PROVE  LeadInv'
BY HomeAssumption, SMTT(30) DEF LeadInv, TypeOK

LEMMA AdriftStays == UNCHANGED adrift => LostOn
BY Zenon DEF LostOn, Lost

LEMMA ToldLeads ==
  ASSUME TypeOK, NEW n, NEW result, NEW r \in Readers
  PROVE  /\ Told(n, result)[r].pc \in {"rank", "ask", "asking", "blob"} <=> Leads(r)
         /\ Leads(r) => Told(n, result)[r] = reader[r]
BY Zenon DEF TypeOK, Told, Leads, At, ReaderStates

LEMMA AnsweredGives ==
  ASSUME TypeOK, NEW n, NEW result, NEW o \in Nodes
  PROVE  /\ Answered(n, result)[o].pc = "get" <=> Gives(o)
         /\ Answered(n, result)[o].to = To(o)
         /\ Answered(n, result)[o].pc = "none" <=> Serving(o, "none")
BY Zenon DEF TypeOK, Answered, Gives, Serving, To, CallStates

\* A reader that leads ends its read.
LEMMA LeaderReturnsLeads ==
  ASSUME TypeOK, LeadInv, NEW r \in Readers, Leads(r), NEW result,
         LeaderReturns(r, Home[r], result)
  PROVE  \A q \in Readers : Leads(q)' <=> Leads(q) /\ Home[q] # Home[r]
<1> SUFFICES ASSUME NEW q \in Readers PROVE Leads(q)' <=> Leads(q) /\ Home[q] # Home[r]
  BY Zenon
<1> DEFINE T == Told(Home[r], result)
<1>1. reader' = [T EXCEPT ![r] = [pc |-> "idle", got |-> result]]
  BY Zenon DEF LeaderReturns
<1>2. T[q].pc \in {"rank", "ask", "asking", "blob"} <=> Leads(q)
  BY ToldLeads, Zenon
<1>3. DOMAIN T = Readers
  BY Zenon DEF Told
<1> HIDE DEF T
<1>4. CASE q = r
  BY <1>1, <1>3, <1>4, Zenon DEF Leads
<1>5. CASE q # r
  <2>1. Leads(q)' <=> Leads(q)
    BY <1>1, <1>2, <1>3, <1>5, Zenon DEF Leads
  <2> QED
    BY <2>1, <1>5, Zenon DEF LeadInv
<1> QED
  BY <1>4, <1>5, Zenon

\* A reader goes on, as a leader or not, without a call out.
LEMMA ReaderMoves ==
  ASSUME TypeOK, LeadInv, CallerInv, NEW r \in Readers, ~At(r, "asking"),
         \A q \in Readers \ {r} : reader'[q] = reader[q],
         Leads(r)' <=> Leads(r), UNCHANGED <<inflight, call, adrift>>
  PROVE  LeadInv' /\ CallerInv'
<1>1. \A q \in Readers : Leads(q)' <=> Leads(q)
  BY Zenon DEF Leads
<1>2. GivesOn
  BY Zenon DEF GivesOn, Gives, Serving, To
<1>3. LeadInv'
  BY <1>1, <1>2, LeadersStay, AdriftStays, Zenon
<1>4. CallerInv'
  BY DEF CallerInv, Serving, At
<1> QED
  BY <1>3, <1>4, Zenon

\* A leader makes a call; its node has none out.
LEMMA CallsLead ==
  ASSUME TypeOK, LeadInv, CallerInv, NEW r \in Readers, At(r, "ask"), NEW m, NEW w,
         Calls(r, Home[r], m, w), UNCHANGED <<inflight, adrift>>
  PROVE  LeadInv' /\ CallerInv'
<1> DEFINE n == Home[r]
<1> USE HomeAssumption
<1>1. Serving(n, "none")
  BY DEF CallerInv, LeadInv, Leads, At
<1>2. \A q \in Readers : /\ Leads(q)' <=> Leads(q)
                         /\ At(q, "asking")' <=> At(q, "asking") \/ q = r
  BY Zenon DEF TypeOK, ReaderStates, Calls, Goto, At, Leads
<1>3. /\ call'[n].pc = "arrive"
      /\ \A o \in Nodes \ {n} : call'[o] = call[o]
  BY Zenon DEF TypeOK, Calls
<1>4. GivesOn
  BY <1>1, <1>3, Zenon DEF GivesOn, Gives, Serving, To
<1>5. LeadInv'
  BY <1>2, <1>4, LeadersStay, AdriftStays, Zenon
<1>6. CallerInv'
  BY <1>2, <1>3, Zenon DEF CallerInv, Serving
<1> QED
  BY <1>5, <1>6, Zenon

\* The leader's call is over, with the handler not leading, and it goes on.
LEMMA CallOver ==
  ASSUME TypeOK, LeadInv, CallerInv, NEW r \in Readers, At(r, "asking"), ~Gives(Home[r]),
         reader' = [reader EXCEPT ![r].pc = "ask"], call' = [call EXCEPT ![Home[r]] = NoCall],
         UNCHANGED inflight, LostOn
  PROVE  LeadInv' /\ CallerInv'
<1> DEFINE n == Home[r]
<1> USE HomeAssumption
<1>1. \A q \in Readers : /\ Leads(q)' <=> Leads(q)
                         /\ q # r => (At(q, "asking")' <=> At(q, "asking"))
  BY Zenon DEF TypeOK, ReaderStates, At, Leads
<1>2. call'[n] = NoCall /\ \A o \in Nodes \ {n} : call'[o] = call[o]
  BY Zenon DEF TypeOK
<1>3. GivesOn
  BY <1>2, IdleTypes, Zenon DEF GivesOn, Gives, Serving, To
<1>4. LeadInv'
  BY <1>1, <1>3, LeadersStay, AdriftStays, Zenon
<1>5. CallerInv'
  BY <1>1, <1>2, IdleTypes DEF CallerInv, Serving
<1> QED
  BY <1>4, <1>5, Zenon

\* A handler goes on without leading, before or after.
LEMMA HandlerMoves ==
  ASSUME TypeOK, LeadInv, CallerInv, NEW n \in Nodes, ~Gives(n), ~Serving(n, "none"),
         NEW l, l # "get", Serves(n, l), UNCHANGED <<inflight, reader, adrift>>
  PROVE  LeadInv' /\ CallerInv'
<1>1. /\ call'[n].pc = l
      /\ \A o \in Nodes : call'[o].to = call[o].to
      /\ \A o \in Nodes \ {n} : call'[o] = call[o]
  BY Zenon DEF TypeOK, CallStates, Serves
<1>2. GivesOn
  BY <1>1, Zenon DEF GivesOn, Gives, Serving, To
<1>3. \A q \in Readers : Leads(q)' <=> Leads(q)
  BY Zenon DEF Leads
<1>4. LeadInv'
  BY <1>2, <1>3, LeadersStay, AdriftStays, Zenon
<1>5. CallerInv'
  BY <1>1 DEF CallerInv, Serving, At
<1> QED
  BY <1>4, <1>5, Zenon

LEMMA StepLead ==
  ASSUME TypeOK, LeadInv, CallerInv, [Next]_vars
  PROVE  LeadInv' /\ CallerInv'
<1> USE HomeAssumption
<1>1. ASSUME NEW r \in Readers, Begin(r) \/ Look(r) \/ Rank(r) \/ GoToBlob(r)
      PROVE  LeadInv' /\ CallerInv'
  <2>1. /\ \A q \in Readers \ {r} : reader'[q] = reader[q]
        /\ UNCHANGED <<inflight, call, adrift>>
    BY <1>1, SMTT(30) DEF Begin, Look, Rank, GoToBlob, Goto, Returns, TypeOK
  <2>2. ~At(r, "asking") /\ (Leads(r)' <=> Leads(r))
    BY <1>1 DEF Begin, Look, Rank, GoToBlob, Goto, Returns, At, Leads, TypeOK, ReaderStates
  <2> QED
    BY <2>1, <2>2, ReaderMoves, Zenon
<1>2. ASSUME NEW r \in Readers, Enter(r) PROVE LeadInv' /\ CallerInv'
  <2>1. CASE Home[r] \in inflight
    <3>1. Goto(r, "follow") /\ UNCHANGED <<inflight, call, adrift>>
      BY <1>2, <2>1, Zenon DEF Enter
    <3>2. ~At(r, "asking") /\ (Leads(r)' <=> Leads(r)) /\ \A q \in Readers \ {r} : reader'[q] = reader[q]
      BY <1>2, <3>1, ZenonT(40) DEF Enter, Goto, At, Leads, TypeOK, ReaderStates
    <3> QED
      BY <3>1, <3>2, ReaderMoves, Zenon
  <2>2. CASE Home[r] \notin inflight
    <3>1. /\ reader' = [reader EXCEPT ![r].pc = IF At(r, "enter") THEN "rank" ELSE "blob"]
          /\ inflight' = inflight \cup {Home[r]} /\ UNCHANGED <<call, adrift>>
      BY <1>2, <2>2, Zenon DEF Enter, Goto
    <3>2. \A q \in Readers : Leads(q)' <=> Leads(q) \/ q = r
      BY <3>1, Zenon DEF Leads, TypeOK, ReaderStates
    <3>3. GivesOn
      BY <3>1, Zenon DEF GivesOn, Gives, Serving, To
    <3>4. LeadInv'
      BY <2>2, <3>1, <3>2, <3>3, ReaderLeads, AdriftStays, Zenon
    <3>5. CallerInv'
      BY <1>2, <3>1, Zenon DEF CallerInv, Serving, Enter, At, TypeOK, ReaderStates
    <3> QED
      BY <3>4, <3>5, Zenon
  <2> QED
    BY <2>1, <2>2, Zenon
<1>3. ASSUME NEW r \in Readers, AskYes(r) \/ AskMaybe(r) PROVE LeadInv' /\ CallerInv'
  BY <1>3, CallsLead, Zenon DEF AskYes, AskMaybe
<1>4. ASSUME NEW r \in Readers, AskElected(r) PROVE LeadInv' /\ CallerInv'
  <2>1. PICK m : IF m = Home[r] THEN Goto(r, "blob") /\ UNCHANGED call
                                ELSE Calls(r, Home[r], m, TRUE)
    BY <1>4, Zenon DEF AskElected
  <2>2. At(r, "ask") /\ UNCHANGED <<inflight, adrift>>
    BY <1>4, Zenon DEF AskElected
  <2>3. CASE m = Home[r]
    <3>1. ~At(r, "asking") /\ (Leads(r)' <=> Leads(r)) /\ \A q \in Readers \ {r} : reader'[q] = reader[q]
      BY <2>1, <2>2, <2>3 DEF Goto, At, Leads, TypeOK, ReaderStates
    <3> QED
      BY <2>1, <2>2, <2>3, <3>1, ReaderMoves, Zenon
  <2>4. CASE m # Home[r]
    BY <2>1, <2>2, <2>4, CallsLead, Zenon
  <2> QED
    BY <2>3, <2>4, Zenon
<1>5. ASSUME NEW r \in Readers, BlobAnswers(r) PROVE LeadInv' /\ CallerInv'
  <2>1. PICK result \in {"ok", "failed"} : LeaderReturns(r, Home[r], result) /\ call' = Answered(Home[r], result)
    BY <1>5, Zenon DEF BlobAnswers
  <2>2. Leads(r) /\ At(r, "blob")
    BY <1>5, Zenon DEF BlobAnswers, Leads, At
  <2>3. \A q \in Readers : Leads(q)' <=> Leads(q) /\ Home[q] # Home[r]
    BY <2>1, <2>2, LeaderReturnsLeads, Zenon
  <2>4. \A o \in Nodes : /\ Gives(o)' <=> Gives(o)
                         /\ To(o)' = To(o)
                         /\ Serving(o, "none")' <=> Serving(o, "none")
    BY <2>1, AnsweredGives DEF Gives, Serving, To
  <2>5. /\ \A o \in Nodes : Gives(o) => To(o) # Home[r]
        /\ \A m \in Nodes : Lost(m)' <=> Lost(m) /\ m # Home[r]
    BY <1>5, <2>2, Zenon DEF LeadInv, BlobAnswers, Lost
  <2>6. inflight' = inflight \ {Home[r]}
    BY <2>1, Zenon DEF LeaderReturns
  <2>7. LeadInv'
    BY <2>3, <2>4, <2>5, <2>6, LeaderEnds, Zenon
  <2>8. \A q \in Readers : At(q, "asking") => At(q, "asking")'
    BY <2>1, <2>2, ToldLeads, Zenon DEF LeaderReturns, At, Leads, Told
  <2>9. CallerInv'
    BY <2>4, <2>8, Zenon DEF CallerInv
  <2> QED
    BY <2>7, <2>9, Zenon
<1>6. ASSUME NEW r \in Readers, PeerAnswers(r) PROVE LeadInv' /\ CallerInv'
  <2> DEFINE n == Home[r]
  <2>1. CASE Serving(n, "data")
    <3>1. LeaderReturns(r, n, "ok") /\ call' = [Answered(n, "ok") EXCEPT ![n] = NoCall]
      BY <1>6, <2>1, Zenon DEF PeerAnswers, Serving
    <3>2. Leads(r) /\ ~Gives(n)
      BY <1>6, <2>1, Zenon DEF PeerAnswers, Leads, At, Gives, Serving
    <3>3. \A q \in Readers : Leads(q)' <=> Leads(q) /\ Home[q] # n
      BY <3>1, <3>2, LeaderReturnsLeads, Zenon
    <3>4. call'[n] = NoCall /\ \A o \in Nodes \ {n} : call'[o] = Answered(n, "ok")[o]
      BY <3>1, Zenon DEF Answered
    <3>5. \A o \in Nodes \ {n} : /\ Gives(o)' <=> Gives(o)
                                 /\ To(o)' = To(o)
                                 /\ Serving(o, "none")' <=> Serving(o, "none")
      BY <3>4, AnsweredGives DEF Gives, Serving, To
    <3>6. ~Gives(n)' /\ Serving(n, "none")'
      BY <3>4, IdleTypes, Zenon DEF Gives, Serving
    <3>7. inflight' = inflight \ {n}
      BY <3>1, Zenon DEF LeaderReturns
    <3>8. /\ \A o \in Nodes : Gives(o) => To(o) # n
          /\ \A m \in Nodes : Lost(m)' <=> Lost(m) /\ m # n
      BY <1>6, <3>2, Zenon DEF LeadInv, PeerAnswers, Lost
    <3>9. LeadInv'
      BY <3>2, <3>3, <3>5, <3>6, <3>7, <3>8, LeaderEnds, Zenon
    <3>10. \A q \in Readers : At(q, "asking") /\ Home[q] # n => At(q, "asking")'
      BY <3>1, ToldLeads, Zenon DEF LeaderReturns, At, Leads, Told
    <3>11. CallerInv'
      BY <3>5, <3>6, <3>10, Zenon DEF CallerInv
    <3> QED
      BY <3>9, <3>11, Zenon
  <2>2. CASE Serving(n, "miss")
    <3>1. /\ At(r, "asking") /\ ~Gives(n) /\ UNCHANGED <<inflight, adrift>>
          /\ reader' = [reader EXCEPT ![r].pc = "ask"] /\ call' = [call EXCEPT ![n] = NoCall]
      BY <1>6, <2>2, Zenon DEF PeerAnswers, Serving, Gives, Goto
    <3> QED
      BY <3>1, CallOver, AdriftStays, Zenon
  <2> QED
    BY <1>6, <2>1, <2>2, Zenon DEF PeerAnswers
<1>7. ASSUME NEW r \in Readers, Hangup(r) PROVE LeadInv' /\ CallerInv'
  <2> DEFINE n == Home[r]
  <2>0. /\ At(r, "asking") /\ UNCHANGED inflight /\ adrift' = adrift \cup LeftOf(n)
        /\ reader' = [reader EXCEPT ![r].pc = "ask"] /\ call' = [call EXCEPT ![n] = NoCall]
    BY <1>7, Zenon DEF Hangup, Goto
  <2>1. CASE Gives(n)
    <3>0. To(n) \in Nodes
      BY <2>1, Zenon DEF TypeOK, Gives, Serving
    <3>1. LeftOf(n) = {<<To(n), "get">>}
      BY <2>1 DEF LeftOf, Gives, Serving
    <3>2. \A m \in Nodes : Lost(m)' <=> Lost(m) \/ m = To(n)
      BY <2>0, <3>0, <3>1 DEF Lost
    <3>3. \A q \in Readers : /\ Leads(q)' <=> Leads(q)
                             /\ q # r => (At(q, "asking")' <=> At(q, "asking"))
      BY <2>0, Zenon DEF TypeOK, ReaderStates, At, Leads
    <3>4. call'[n] = NoCall /\ \A o \in Nodes \ {n} : call'[o] = call[o]
      BY <2>0, Zenon DEF TypeOK
    <3>5. \A o \in Nodes : /\ Gives(o)' <=> Gives(o) /\ o # n
                           /\ Gives(o)' => To(o)' = To(o)
      BY <3>4, IdleTypes, Zenon DEF Gives, Serving, To
    <3>6. LeadInv'
      BY <2>0, <2>1, <3>0, <3>2, <3>3, <3>5, LeaderDrifts, Zenon
    <3>7. CallerInv'
      BY <3>3, <3>4, IdleTypes DEF CallerInv, Serving
    <3> QED
      BY <3>6, <3>7, Zenon
  <2>2. CASE ~Gives(n)
    <3>1. \A m \in Nodes : <<m, "get">> \notin LeftOf(n)
      BY <2>2 DEF LeftOf, Gives, Serving
    <3>2. LostOn
      BY <2>0, <3>1, Zenon DEF LostOn, Lost
    <3> QED
      BY <2>0, <2>2, <3>2, CallOver, Zenon
  <2> QED
    BY <2>1, <2>2, Zenon
<1>8. ASSUME NEW n \in Nodes, Arrive(n) \/ Peek(n) \/ ServeTimeout(n) PROVE LeadInv' /\ CallerInv'
  <2>1. PICK l : l # "get" /\ Serves(n, l)
    BY <1>8, Zenon DEF Arrive, Peek, ServeTimeout
  <2>2. ~Gives(n) /\ ~Serving(n, "none") /\ UNCHANGED <<inflight, reader, adrift>>
    BY <1>8, Zenon DEF Arrive, Peek, ServeTimeout, Gives, Serving
  <2> QED
    BY <2>1, <2>2, HandlerMoves, Zenon
<1>9. ASSUME NEW n \in Nodes, ServeEnter(n) PROVE LeadInv' /\ CallerInv'
  <2>0. ~Gives(n) /\ ~Serving(n, "none") /\ UNCHANGED <<reader, adrift>>
    BY <1>9, Zenon DEF ServeEnter, Gives, Serving
  <2>1. CASE To(n) \in inflight
    BY <1>9, <2>0, <2>1, HandlerMoves, Zenon DEF ServeEnter
  <2>2. CASE To(n) \notin inflight
    <3>1. Serves(n, "get") /\ inflight' = inflight \cup {To(n)}
      BY <1>9, <2>2, Zenon DEF ServeEnter
    <3>2. \A o \in Nodes : /\ Gives(o)' <=> Gives(o) \/ o = n
                           /\ To(o)' = To(o)
                           /\ Serving(o, "none")' <=> Serving(o, "none")
      BY <2>0, <3>1 DEF Serves, Gives, Serving, To, TypeOK, CallStates
    <3>3. \A q \in Readers : (Leads(q)' <=> Leads(q)) /\ (At(q, "asking")' <=> At(q, "asking"))
      BY <2>0, Zenon DEF Leads, At
    <3>6. To(n) \in Nodes
      BY <2>0, Zenon DEF TypeOK, Serving
    <3>4. LeadInv'
      BY <2>0, <2>2, <3>1, <3>2, <3>3, <3>6, HandlerLeads, AdriftStays, Zenon
    <3>5. CallerInv'
      BY <3>2, <3>3, Zenon DEF CallerInv
    <3> QED
      BY <3>4, <3>5, Zenon
  <2> QED
    BY <2>1, <2>2, Zenon
<1>10. ASSUME NEW n \in Nodes, ServeGet(n) PROVE LeadInv' /\ CallerInv'
  <2> DEFINE m == To(n)
  <2>0. m \in Nodes /\ Gives(n) /\ ~Serving(n, "none")
    BY <1>10, Zenon DEF ServeGet, TypeOK, Serving, Gives
  <2>1. PICK result \in {"ok", "failed"}, l \in {"data", "miss"} :
          /\ inflight' = inflight \ {m} /\ reader' = Told(m, result)
          /\ call' = [Answered(m, result) EXCEPT ![n].pc = l]
    BY <1>10, Zenon DEF ServeGet
  <2>2. Answered(m, result) \in [Nodes -> CallStates]
    BY <2>0, AnsweredType, Zenon
  <2>3. /\ call'[n].pc = l /\ call'[n].to = Answered(m, result)[n].to
        /\ \A o \in Nodes \ {n} : call'[o] = Answered(m, result)[o]
    BY <2>1, <2>2, Zenon DEF CallStates
  <2>4. \A o \in Nodes \ {n} : /\ Gives(o)' <=> Gives(o)
                               /\ To(o)' = To(o)
                               /\ Serving(o, "none")' <=> Serving(o, "none")
    BY <2>3, AnsweredGives DEF Gives, Serving, To
  <2>5. ~Gives(n)' /\ ~Serving(n, "none")'
    BY <2>3, Zenon DEF Gives, Serving
  <2>6. \A o \in Nodes : Gives(o)' <=> Gives(o) /\ To(o) # m
    BY <2>0, <2>4, <2>5, Zenon DEF LeadInv
  <2>7. \A q \in Readers : /\ Leads(q)' <=> Leads(q)
                           /\ Leads(q) => Home[q] # m
                           /\ At(q, "asking") => At(q, "asking")'
    BY <2>0, <2>1, ToldLeads DEF Leads, At, LeadInv
  <2>10. \A k \in Nodes : Lost(k)' <=> Lost(k) /\ k # m
    BY <1>10, <2>0, Zenon DEF LeadInv, ServeGet, Lost
  <2>8. LeadInv'
    BY <2>0, <2>1, <2>4, <2>5, <2>6, <2>7, <2>10, LeaderEnds, Zenon
  <2>9. CallerInv'
    BY <2>0, <2>4, <2>5, <2>7, Zenon DEF CallerInv
  <2> QED
    BY <2>8, <2>9, Zenon
<1>11. ASSUME UNCHANGED <<inflight, reader, call>>, LostOn PROVE LeadInv' /\ CallerInv'
  <2>1. GivesOn /\ \A q \in Readers : Leads(q)' <=> Leads(q)
    BY <1>11, Zenon DEF GivesOn, Gives, Serving, To, Leads
  <2>2. CallerInv'
    BY <1>11, Zenon DEF CallerInv, Serving, At
  <2> QED
    BY <1>11, <2>1, <2>2, LeadersStay, Zenon
<1>12. ASSUME NEW m \in Nodes, DriftEnters(m) PROVE LeadInv' /\ CallerInv'
  <2>0. UNCHANGED <<reader, call>>
    BY <1>12, Zenon DEF DriftEnters
  <2>1. CASE Drifts(m, "peek", "enter") /\ UNCHANGED inflight
    <3>1. LostOn
      BY <2>1 DEF Drifts, LostOn, Lost
    <3> QED
      BY <1>11, <2>0, <2>1, <3>1, Zenon
  <2>2. CASE Drifts(m, "enter", "get") /\ m \notin inflight /\ inflight' = inflight \cup {m}
    <3>1. \A k \in Nodes : Lost(k)' <=> Lost(k) \/ k = m
      BY <2>2 DEF Drifts, Lost
    <3>2. GivesOn /\ CallerInv' /\ \A q \in Readers : Leads(q)' <=> Leads(q)
      BY <2>0, Zenon DEF GivesOn, Gives, Serving, To, Leads, CallerInv, At
    <3> QED
      BY <2>2, <3>1, <3>2, DriftLeads, Zenon
  <2> QED
    BY <1>12, <2>1, <2>2, Zenon DEF DriftEnters
<1>13. ASSUME NEW m \in Nodes, DriftGet(m) \/ DriftDropped(m) PROVE LeadInv' /\ CallerInv'
  <2>1. PICK result \in {"ok", "failed"} :
          /\ Sinks(m, "get") /\ inflight' = inflight \ {m}
          /\ reader' = Told(m, result) /\ call' = Answered(m, result)
    BY <1>13, Zenon DEF DriftGet, DriftDropped
  <2>2. Lost(m) /\ \A k \in Nodes : Lost(k)' <=> Lost(k) /\ k # m
    BY <2>1 DEF Sinks, Lost
  <2>3. \A o \in Nodes : /\ Gives(o)' <=> Gives(o)
                         /\ To(o)' = To(o)
                         /\ Serving(o, "none")' <=> Serving(o, "none")
    BY <2>1, AnsweredGives DEF Gives, Serving, To
  <2>4. \A q \in Readers : /\ Leads(q)' <=> Leads(q)
                           /\ At(q, "asking") => At(q, "asking")'
    BY <2>1, ToldLeads DEF Leads, At
  <2>5. /\ \A q \in Readers : Leads(q) => Home[q] # m
        /\ \A o \in Nodes : Gives(o) => To(o) # m
    <3>1. ASSUME NEW q \in Readers, Leads(q), Home[q] = m PROVE FALSE
      BY <2>2, <3>1, Zenon DEF LeadInv, Lost
    <3>2. ASSUME NEW o \in Nodes, Gives(o), To(o) = m PROVE FALSE
      BY <2>2, <3>2, Zenon DEF LeadInv, Lost
    <3> QED
      BY <3>1, <3>2, Zenon
  <2>6. LeadInv'
    BY <2>1, <2>2, <2>3, <2>4, <2>5, LeaderEnds, Zenon
  <2>7. CallerInv'
    BY <2>3, <2>4, Zenon DEF CallerInv
  <2> QED
    BY <2>6, <2>7, Zenon
<1>14. ASSUME NEW m \in Nodes, DriftEnds(m) PROVE LeadInv' /\ CallerInv'
  <2>1. UNCHANGED <<inflight, reader, call>>
    BY <1>14, Zenon DEF DriftEnds
  <2>2. LostOn
    BY <1>14 DEF DriftEnds, Sinks, LostOn, Lost
  <2> QED
    BY <1>11, <2>1, <2>2, Zenon
<1>15. ASSUME UNCHANGED <<inflight, reader, call, adrift>> PROVE LeadInv' /\ CallerInv'
  BY <1>11, <1>15, AdriftStays, Zenon
<1> QED
  BY <1>1, <1>2, <1>3, <1>4, <1>5, <1>6, <1>7, <1>8, <1>9, <1>10, <1>12, <1>13, <1>14, <1>15, Zenon
     DEF Next, Read, Serve, Drift, Finished, InsertEnds, ViewChange, Evict, vars

\* On every node a singleflight entry has exactly one leader, a read of its own or a
\* call it serves, whose caller may have gone, and a leader has its entry, through errors,
\* timeouts and hang-ups.
THEOREM LeadersAreSingle == Spec => []OneLeaderPerNode
<1>1. Init => LeadInv /\ CallerInv
  BY IdleTypes DEF Init, LeadInv, CallerInv, Leads, Gives, Lost, Serving, At
<1>2. LeadInv => OneLeaderPerNode
  <2> SUFFICES ASSUME LeadInv, NEW n \in Nodes
               PROVE  /\ Leaders(n) = {} <=> n \notin inflight
                      /\ \A k, l \in Leaders(n) : k = l
    BY Zenon DEF OneLeaderPerNode
  <2>1. \A l : l \in Leaders(n) <=>
           \/ \E r \in Readers : l = <<"reader", r>> /\ Leads(r) /\ Home[r] = n
           \/ \E o \in Nodes : l = <<"handler", o>> /\ Gives(o) /\ To(o) = n
           \/ l = <<"adrift", <<n, "get">>>> /\ Lost(n)
    BY SMTT(30) DEF Leaders, Gives, Lost
  <2>2. Leaders(n) = {} <=> n \notin inflight
    <3>1. ASSUME NEW r \in Readers, Leads(r), Home[r] = n PROVE Leaders(n) # {}
      <4>1. <<"reader", r>> \in Leaders(n)
        BY <2>1, <3>1, Zenon
      <4> QED
        BY <4>1, Zenon
    <3>2. ASSUME NEW o \in Nodes, Gives(o), To(o) = n PROVE Leaders(n) # {}
      <4>1. <<"handler", o>> \in Leaders(n)
        BY <2>1, <3>2, Zenon
      <4> QED
        BY <4>1, Zenon
    <3>5. ASSUME Lost(n) PROVE Leaders(n) # {}
      <4>1. <<"adrift", <<n, "get">>>> \in Leaders(n)
        BY <2>1, <3>5, Zenon
      <4> QED
        BY <4>1, Zenon
    <3>3. n \in inflight => Leaders(n) # {}
      BY <3>1, <3>2, <3>5, Zenon DEF LeadInv
    <3>4. ASSUME NEW l \in Leaders(n) PROVE n \in inflight
      BY <2>1, <3>4, SMTT(30) DEF LeadInv
    <3> QED
      BY <3>3, <3>4, Zenon
  <2>3. \A k, l \in Leaders(n) : k = l
    BY <2>1 DEF LeadInv
  <2> QED
    BY <2>2, <2>3, Zenon
<1>3. TypeOK /\ LeadInv /\ CallerInv /\ [Next]_vars => LeadInv' /\ CallerInv'
  BY StepLead, Zenon
<1> QED
  BY InitType, StepType, <1>1, <1>2, <1>3, PTL DEF Spec

(***************************************************************************)
(* Failures                                                                *)
(***************************************************************************)

Unharmed(x) == x.got # "failed"

LEMMA ToldUnharmed ==
  ASSUME TypeOK, NEW n, NEW r \in Readers, Unharmed(reader[r])
  PROVE  Unharmed(Told(n, "ok")[r])
BY Zenon DEF Told, Unharmed

LEMMA StepFailures == TypeOK /\ FailuresComeFromLeaders /\ [Next]_vars => FailuresComeFromLeaders'
<1> SUFFICES ASSUME TypeOK, FailuresComeFromLeaders, [Next]_vars, sound', NEW q \in Readers
             PROVE  Unharmed(reader'[q])
  BY Zenon DEF FailuresComeFromLeaders, Unharmed
<1> DEFINE Goal == Unharmed(reader'[q])
<1> USE HomeAssumption
<1>1. ASSUME sound PROVE \A r \in Readers : Unharmed(reader[r])
  BY <1>1, Zenon DEF FailuresComeFromLeaders, Unharmed
<1>2. ASSUME UNCHANGED <<sound, reader>> PROVE Goal
  BY <1>1, <1>2, Zenon
<1>3. ASSUME NEW r \in Readers, NEW l, Goto(r, l), UNCHANGED sound PROVE Goal
  BY <1>1, <1>3, Zenon DEF Goto, Unharmed, TypeOK, ReaderStates
<1>4. ASSUME NEW r \in Readers, Look(r) PROVE Goal
  <2>1. CASE Returns(r, "ok")
    BY <1>1, <1>4, <2>1, Zenon DEF Look, Returns, Unharmed, TypeOK, history
  <2>2. CASE \E l : Goto(r, l)
    BY <1>3, <1>4, <2>2, Zenon DEF Look, history
  <2> QED
    BY <1>4, <2>1, <2>2 DEF Look
<1>6. ASSUME NEW r \in Readers, NEW n, LeaderReturns(r, n, "ok"), sound PROVE Goal
  BY <1>1, <1>6, ToldUnharmed, Zenon DEF LeaderReturns, Unharmed, Told
<1>7. ASSUME NEW r \in Readers, BlobAnswers(r) PROVE Goal
  BY <1>6, <1>7, Zenon DEF BlobAnswers, Gets
<1>8. ASSUME NEW r \in Readers, PeerAnswers(r) PROVE Goal
  BY <1>3, <1>6, <1>8, Zenon DEF PeerAnswers, history
<1>9. ASSUME NEW n \in Nodes, ServeGet(n) PROVE Goal
  BY <1>1, <1>9, ToldUnharmed, Zenon DEF ServeGet, Gets
<1>10. ASSUME NEW r \in Readers, Hangup(r) PROVE Goal
  BY <1>3, <1>10, Zenon DEF Hangup
<1>13. ASSUME NEW m \in Nodes, DriftGet(m) PROVE Goal
  BY <1>1, <1>13, ToldUnharmed, Zenon DEF DriftGet, Gets
<1>14. ASSUME NEW m \in Nodes, DriftDropped(m) PROVE Goal
  BY <1>14, Zenon DEF DriftDropped
<1>11. ASSUME NEW r \in Readers, Begin(r) \/ Enter(r) \/ Rank(r) \/ GoToBlob(r) PROVE Goal
  <2>1. PICK l : Goto(r, l) /\ UNCHANGED sound
    BY <1>11, Zenon DEF Begin, Enter, Rank, GoToBlob, history
  <2> QED
    BY <1>3, <2>1, Zenon
<1>12. ASSUME NEW r \in Readers, AskYes(r) \/ AskMaybe(r) \/ AskElected(r) PROVE Goal
  <2>1. PICK l : Goto(r, l) /\ UNCHANGED sound
    BY <1>12, Zenon DEF AskYes, AskMaybe, AskElected, Calls, history
  <2> QED
    BY <1>3, <2>1, Zenon
<1> QED
  BY <1>2, <1>4, <1>7, <1>8, <1>9, <1>10, <1>11, <1>12, <1>13, <1>14, ZenonT(40)
     DEF Next, Read, Serve, Drift, DriftEnters, DriftEnds, Finished, Arrive, Peek, ServeEnter, ServeTimeout, InsertEnds,
         ViewChange, Evict, vars, history

\* A read fails only after a failed GET, or after a handler that led was dropped: wrong
\* filters, misses, timeouts, lost calls and evictions only cost time.
THEOREM OnlyLeadersFail == Spec => []FailuresComeFromLeaders
<1>1. Init => FailuresComeFromLeaders
  BY DEF Init, FailuresComeFromLeaders, At
<1> QED
  BY InitType, StepType, StepFailures, <1>1, PTL DEF Spec

(***************************************************************************)
(* The election: with right views and filters and no failure, a leader     *)
(* either has a peer to ask that will not miss, or asks the elected node,  *)
(* or is the elected node.                                                 *)
(***************************************************************************)

DistinctScores == \A m, n \in Nodes : Score[m] = Score[n] => m = n

LEMMA OwnerIs ==
  ASSUME DistinctScores, NEW n \in Nodes, \A o \in Nodes : Score[o] <= Score[n]
  PROVE  Owner = n
<1>1. Owner \in Nodes /\ \A o \in Nodes : Score[o] <= Score[Owner]
  BY Zenon DEF Owner
<1>2. Score[Owner] = Score[n]
  BY <1>1, ScoreAssumption
<1> QED
  BY <1>1, <1>2, Zenon DEF DistinctScores

\* Electing among all the others gives the owner.
LEMMA ElectsOwner ==
  ASSUME DistinctScores, NEW n \in Nodes, NEW m \in HrwTop(n, Others(n))
  PROVE  m = Owner
<1>1. m \in Nodes /\ \A o \in Nodes : Score[o] <= Score[m]
  BY ScoreAssumption DEF HrwTop, First, Others
<1> QED
  BY <1>1, OwnerIs, Zenon

\* What is left of a leader's plan can be trusted.
PlanGood(n) == plan[n].yes \subseteq cached /\ (plan[n].elect => plan[n].alive = Others(n))

\* It leads to a peer that has the chunk or to an election, unless there are no peers.
AskGood(n) == plan[n].elect \/ plan[n].yes # {} \/ (Others(n) = {} /\ plan[n].maybe = {})

\* A call that misses leaves the election to be held.
CallGood(n) ==
  /\ plan[n].elect \/ To(n) \in cached \/ call[n].wait
  /\ call[n].wait => To(n) = Owner
  /\ Serving(n, "miss") => plan[n].elect

OwnerInv ==
  calm => /\ \A r \in Readers : reader[r].pc \notin {"look_origin", "enter_origin"}
          /\ \A r \in Readers : At(r, "blob") => Home[r] = Owner
          /\ \A r \in Readers : At(r, "ask") \/ At(r, "asking") => PlanGood(Home[r])
          /\ \A r \in Readers : At(r, "ask") => AskGood(Home[r])
          /\ \A n \in Nodes : ~Serving(n, "none") => CallGood(n)

\* Readers move, none of them to a place the invariant speaks of.
LEMMA OwnerReaders ==
  ASSUME OwnerInv, calm' => calm, UNCHANGED <<plan, call>>, cached \subseteq cached',
         calm' => \A r \in Readers :
           \/ reader'[r].pc = reader[r].pc
           \/ reader'[r].pc \in {"idle", "look", "enter", "rank", "follow"}
  PROVE  OwnerInv'
BY ZenonT(40) DEF OwnerInv, PlanGood, AskGood, CallGood, At, Serving, To

\* What a call becomes when the leader its handler follows succeeds.
Heard(d, c) ==
  /\ d.to = c.to /\ d.wait = c.wait
  /\ d.pc = c.pc \/ (c.pc = "follow" /\ d.pc = "data")

LEMMA AnsweredHeard ==
  ASSUME TypeOK, NEW n, NEW o \in Nodes
  PROVE  Heard(Answered(n, "ok")[o], call[o])
BY Zenon DEF Answered, Heard, Serving, TypeOK, CallStates

\* The leader of a node moves, or its call is answered; on the other nodes readers end
\* and handlers hear.
LEMMA OwnerLeader ==
  ASSUME TypeOK, LeadInv, OwnerInv, calm, calm', cached \subseteq cached',
         NEW r \in Readers, Leads(r),
         \A q \in Readers \ {r} : reader'[q].pc \in {reader[q].pc, "idle"},
         \A n \in Nodes \ {Home[r]} : plan'[n] = plan[n] /\ Heard(call'[n], call[n]),
         reader'[r].pc \notin {"look_origin", "enter_origin"},
         At(r, "blob")' => Home[r] = Owner,
         At(r, "ask")' \/ At(r, "asking")' => PlanGood(Home[r])',
         At(r, "ask")' => AskGood(Home[r])',
         ~Serving(Home[r], "none")' => CallGood(Home[r])'
  PROVE  OwnerInv'
<1> USE HomeAssumption
<1>1. \A q \in Readers : reader'[q].pc \notin {"look_origin", "enter_origin"}
  BY Zenon DEF OwnerInv
<1>2. \A q \in Readers : At(q, "blob")' => Home[q] = Owner
  BY Zenon DEF OwnerInv, At
<1>3. ASSUME NEW q \in Readers \ {r}, reader'[q].pc \in {"ask", "asking"}
      PROVE  Home[q] # Home[r] /\ reader'[q].pc = reader[q].pc
  BY <1>3, SMTT(30) DEF LeadInv, Leads
<1>4. \A q \in Readers : At(q, "ask")' \/ At(q, "asking")' => PlanGood(Home[q])'
  BY <1>3, SMTT(30) DEF OwnerInv, PlanGood, At
<1>5. \A q \in Readers : At(q, "ask")' => AskGood(Home[q])'
  BY <1>3, SMTT(30) DEF OwnerInv, AskGood, At
<1>6. ASSUME NEW n \in Nodes \ {Home[r]}, ~Serving(n, "none")' PROVE CallGood(n)'
  <2>1. ~Serving(n, "none")
    BY <1>6, Zenon DEF Heard, Serving
  <2>2. CallGood(n)
    BY <2>1, Zenon DEF OwnerInv
  <2>3. /\ call'[n].to = call[n].to /\ call'[n].wait = call[n].wait
        /\ call'[n].pc = "miss" => call[n].pc = "miss"
    BY Zenon DEF Heard
  <2> QED
    BY <2>2, <2>3, Zenon DEF CallGood, To, Serving
<1> QED
  BY <1>1, <1>2, <1>4, <1>5, <1>6, Zenon DEF OwnerInv

LEMMA LeaderAlone ==
  ASSUME LeadInv, CallerInv, NEW r \in Readers, Leads(r), ~At(r, "asking")
  PROVE  Serving(Home[r], "none")
BY HomeAssumption DEF LeadInv, CallerInv, Leads, At

\* A handler adrift means that something failed.
CalmInv == calm => adrift = {}

LEMMA DriftsIfAdrift ==
  ASSUME NEW m \in Nodes, Drift(m)
  PROVE  adrift # {} /\ (calm' => calm)
<1>1. CASE DriftEnters(m)
  BY <1>1, Zenon DEF DriftEnters, Drifts, history
<1>2. CASE DriftGet(m)
  <2>1. PICK result : Sinks(m, "get") /\ Gets(m, result)
    BY <1>2, Zenon DEF DriftGet
  <2>2. calm' => calm
    BY <2>1, Zenon DEF Gets
  <2> QED
    BY <2>1, <2>2, Zenon DEF Sinks
<1>3. CASE DriftEnds(m)
  BY <1>3, Zenon DEF DriftEnds, Sinks, history
<1>4. CASE DriftDropped(m)
  BY <1>4, Zenon DEF DriftDropped, Sinks
<1> QED
  BY <1>1, <1>2, <1>3, <1>4, Zenon DEF Drift

LEMMA StepCalm == CalmInv /\ [Next]_vars => CalmInv'
<1> SUFFICES ASSUME CalmInv, [Next]_vars PROVE CalmInv'
  BY Zenon
<1>1. ASSUME calm' => calm, UNCHANGED adrift PROVE CalmInv'
  BY <1>1, Zenon DEF CalmInv
<1>8. ASSUME NEW n, NEW result, Gets(n, result) PROVE calm' => calm
  BY <1>8, Zenon DEF Gets
<1>2. ASSUME NEW r \in Readers, Begin(r) \/ Read(r) PROVE CalmInv'
  <2>1. CASE Begin(r) \/ Look(r) \/ Enter(r) \/ GoToBlob(r)
    BY <1>1, <2>1, Zenon DEF Begin, Look, Enter, GoToBlob, history
  <2>2. CASE Rank(r)
    BY <1>1, <2>2, Zenon DEF Rank
  <2>3. CASE AskYes(r) \/ AskMaybe(r) \/ AskElected(r) \/ PeerAnswers(r)
    BY <1>1, <2>3, Zenon DEF AskYes, AskMaybe, AskElected, PeerAnswers, history
  <2>4. CASE BlobAnswers(r)
    BY <1>1, <1>8, <2>4, Zenon DEF BlobAnswers
  <2> QED
    BY <1>2, <2>1, <2>2, <2>3, <2>4, Zenon DEF Read
<1>3. ASSUME NEW n \in Nodes, Serve(n) \/ ServeTimeout(n) PROVE CalmInv'
  <2>1. CASE Arrive(n) \/ Peek(n) \/ ServeEnter(n)
    BY <1>1, <2>1, Zenon DEF Arrive, Peek, ServeEnter, history
  <2>2. CASE ServeGet(n)
    BY <1>1, <1>8, <2>2, Zenon DEF ServeGet
  <2>3. CASE ServeTimeout(n)
    BY <1>1, <2>3, Zenon DEF ServeTimeout
  <2> QED
    BY <1>3, <2>1, <2>2, <2>3, Zenon DEF Serve
<1>4. ASSUME NEW n \in Nodes, Drift(n) PROVE CalmInv'
  BY <1>4, DriftsIfAdrift, Zenon DEF CalmInv
<1>5. ASSUME NEW r \in Readers, Hangup(r) PROVE CalmInv'
  BY <1>5, Zenon DEF Hangup, CalmInv
<1>6. ASSUME NEW n \in Nodes, InsertEnds(n) \/ ViewChange(n) \/ Evict(n) PROVE CalmInv'
  BY <1>1, <1>6, Zenon DEF InsertEnds, ViewChange, Evict, history
<1>7. ASSUME UNCHANGED vars PROVE CalmInv'
  BY <1>1, <1>7, Zenon DEF vars
<1> QED
  BY <1>2, <1>3, <1>4, <1>5, <1>6, <1>7, Zenon DEF Next, Finished

LEMMA StepOwner ==
  ASSUME StampedeWait, DistinctScores, TypeOK, LeadInv, CallerInv, WaitInv, CalmInv, OwnerInv, [Next]_vars
  PROVE  OwnerInv'
<1> SUFFICES ASSUME calm' PROVE OwnerInv'
  BY Zenon DEF OwnerInv
<1> USE HomeAssumption
<1>1. ASSUME NEW r \in Readers, Begin(r) PROVE OwnerInv'
  <2>1. calm /\ UNCHANGED <<plan, call, cached>> /\ Goto(r, "look")
    BY <1>1, Zenon DEF Begin, store
  <2> QED
    BY <2>1, OwnerReaders, Zenon DEF Goto, TypeOK, ReaderStates
<1>2. ASSUME NEW r \in Readers, Look(r) PROVE OwnerInv'
  <2>1. calm /\ UNCHANGED <<plan, call, cached>>
    BY <1>2, Zenon DEF Look, store, history
  <2>2. /\ \A q \in Readers \ {r} : reader'[q] = reader[q]
        /\ reader'[r].pc \in {"idle", "enter"}
    BY <1>2, <2>1 DEF Look, Goto, Returns, TypeOK, ReaderStates, OwnerInv, At
  <2> QED
    BY <2>1, <2>2, OwnerReaders, Zenon
<1>3. ASSUME NEW r \in Readers, Enter(r) PROVE OwnerInv'
  <2>1. calm /\ UNCHANGED <<plan, call, cached>>
    BY <1>3, Zenon DEF Enter, store, history
  <2>2. /\ \A q \in Readers \ {r} : reader'[q] = reader[q]
        /\ reader'[r].pc \in {"follow", "rank"}
    BY <1>3, <2>1 DEF Enter, Goto, TypeOK, ReaderStates, OwnerInv, At
  <2> QED
    BY <2>1, <2>2, OwnerReaders, Zenon
<1>4. ASSUME NEW r \in Readers, Rank(r) PROVE OwnerInv'
  <2> DEFINE n == Home[r]
  <2>1. PICK yes \in SUBSET alive[n], maybe \in SUBSET alive[n] :
          /\ plan' = [plan EXCEPT ![n] = [alive |-> alive[n], yes |-> yes, maybe |-> maybe,
                                          elect |-> yes = {} /\ StampedeWait /\ alive[n] # {}]]
          /\ calm' = (calm /\ alive[n] = Others(n) /\ yes \subseteq cached)
    BY <1>4, Zenon DEF Rank
  <2>2. calm /\ alive[n] = Others(n) /\ yes \subseteq cached
    BY <2>1, Zenon
  <2>3. UNCHANGED <<call, cached>> /\ Leads(r) /\ ~At(r, "asking")
    BY <1>4, Zenon DEF Rank, store, Leads, At
  <2>4. reader'[r].pc = "ask" /\ \A q \in Readers \ {r} : reader'[q] = reader[q]
    BY <1>4 DEF Rank, Goto, TypeOK, ReaderStates
  <2>5. Serving(n, "none")'
    BY <2>3, LeaderAlone, Zenon DEF Serving
  <2>6. PlanGood(n)' /\ AskGood(n)'
    BY <2>1, <2>2, <2>3, Zenon DEF PlanGood, AskGood, TypeOK
  <2>7. \A m \in Nodes \ {n} : plan'[m] = plan[m] /\ Heard(call'[m], call[m])
    BY <2>1, <2>3, Zenon DEF TypeOK, Heard
  <2> QED
    BY <2>2, <2>3, <2>4, <2>5, <2>6, <2>7, OwnerLeader, Zenon DEF At
<1>5. ASSUME NEW r \in Readers, AskYes(r) PROVE OwnerInv'
  <2> DEFINE n == Home[r]
  <2>1. PICK m \in First(plan[n].yes) : /\ Calls(r, n, m, FALSE)
                                       /\ plan' = [plan EXCEPT ![n].yes = @ \ {m}]
    BY <1>5, Zenon DEF AskYes
  <2>2. calm /\ UNCHANGED cached /\ At(r, "ask") /\ Leads(r)
    BY <1>5, Zenon DEF AskYes, store, history, Leads, At
  <2>3. reader'[r].pc = "asking" /\ \A q \in Readers \ {r} : reader'[q] = reader[q]
    BY <2>1, Zenon DEF Calls, Goto, TypeOK, ReaderStates
  <2>4. PlanGood(n) /\ AskGood(n)
    BY <2>2, Zenon DEF OwnerInv
  <2>5. PlanGood(n)'
    BY <2>1, <2>2, <2>4 DEF PlanGood, TypeOK, Plans
  <2>6. CallGood(n)'
    BY <1>5, <2>1, <2>2, <2>4, Zenon DEF AskYes, Calls, PlanGood, AskGood, CallGood, First, To, Serving, TypeOK, Plans
  <2>7. \A o \in Nodes \ {n} : plan'[o] = plan[o] /\ Heard(call'[o], call[o])
    BY <2>1, Zenon DEF Calls, TypeOK, Heard
  <2> QED
    BY <2>2, <2>3, <2>5, <2>6, <2>7, OwnerLeader, Zenon DEF At
<1>6. ASSUME NEW r \in Readers, AskMaybe(r) PROVE OwnerInv'
  <2> DEFINE n == Home[r]
  <2>1. PICK m \in First(plan[n].maybe) : /\ Calls(r, n, m, FALSE)
                                       /\ plan' = [plan EXCEPT ![n].maybe = @ \ {m}]
    BY <1>6, Zenon DEF AskMaybe
  <2>2. calm /\ UNCHANGED cached /\ At(r, "ask") /\ Leads(r)
    BY <1>6, Zenon DEF AskMaybe, store, history, Leads, At
  <2>3. reader'[r].pc = "asking" /\ \A q \in Readers \ {r} : reader'[q] = reader[q]
    BY <2>1, Zenon DEF Calls, Goto, TypeOK, ReaderStates
  <2>4. PlanGood(n) /\ AskGood(n)
    BY <2>2, Zenon DEF OwnerInv
  <2>5. PlanGood(n)'
    BY <2>1, <2>2, <2>4, SMTT(30) DEF PlanGood, TypeOK, Plans
  <2>6. CallGood(n)'
    BY <1>6, <2>1, <2>2, <2>4, SMTT(30) DEF AskMaybe, Calls, PlanGood, AskGood, CallGood, First, To, Serving, TypeOK, Plans
  <2>7. \A o \in Nodes \ {n} : plan'[o] = plan[o] /\ Heard(call'[o], call[o])
    BY <2>1, Zenon DEF Calls, TypeOK, Heard
  <2> QED
    BY <2>2, <2>3, <2>5, <2>6, <2>7, OwnerLeader, Zenon DEF At
<1>7. ASSUME NEW r \in Readers, AskElected(r) PROVE OwnerInv'
  <2> DEFINE n == Home[r]
  <2>1. calm /\ UNCHANGED cached /\ At(r, "ask") /\ Leads(r) /\ ~At(r, "asking")
    BY <1>7, Zenon DEF AskElected, store, history, Leads, At
  <2>2. plan[n].alive = Others(n)
    BY <1>7, <2>1, Zenon DEF AskElected, OwnerInv, PlanGood
  <2>3. PICK m \in HrwTop(n, Others(n)) :
          IF m = n THEN Goto(r, "blob") /\ UNCHANGED call ELSE Calls(r, n, m, TRUE)
    BY <1>7, <2>2, Zenon DEF AskElected
  <2>4. m = Owner
    BY ElectsOwner, Zenon
  <2>5. plan' = [plan EXCEPT ![n] = NoPlan]
    BY <1>7, Zenon DEF AskElected
  <2>6. PlanGood(n)'
    BY <2>5, Zenon DEF PlanGood, NoPlan, TypeOK
  <2>7. CASE m = n
    <3>1. reader'[r].pc = "blob" /\ \A q \in Readers \ {r} : reader'[q] = reader[q]
      BY <2>3, <2>7 DEF Goto, TypeOK, ReaderStates
    <3>2. Serving(n, "none")'
      BY <2>1, <2>3, <2>7, LeaderAlone, Zenon DEF Serving
    <3>3. \A o \in Nodes \ {n} : plan'[o] = plan[o] /\ Heard(call'[o], call[o])
      BY <2>3, <2>5, <2>7, Zenon DEF TypeOK, Heard
    <3> QED
      BY <2>1, <2>4, <2>7, <3>1, <3>2, <3>3, OwnerLeader, Zenon DEF At
  <2>8. CASE m # n
    <3>1. reader'[r].pc = "asking" /\ \A q \in Readers \ {r} : reader'[q] = reader[q]
      BY <2>3, <2>8, SMTT(30) DEF Calls, Goto, TypeOK, ReaderStates
    <3>2. CallGood(n)'
      BY <2>3, <2>4, <2>8, SMTT(30) DEF Calls, CallGood, To, Serving, TypeOK
    <3>3. \A o \in Nodes \ {n} : plan'[o] = plan[o] /\ Heard(call'[o], call[o])
      BY <2>3, <2>5, <2>8, Zenon DEF Calls, TypeOK, Heard
    <3> QED
      BY <2>1, <2>6, <3>1, <3>2, <3>3, OwnerLeader, Zenon DEF At
  <2> QED
    BY <2>7, <2>8, Zenon
<1>8. ASSUME NEW r \in Readers, GoToBlob(r) PROVE OwnerInv'
  <2> DEFINE n == Home[r]
  <2>1. calm /\ UNCHANGED <<cached, plan, call>> /\ At(r, "ask") /\ Leads(r) /\ ~At(r, "asking")
    BY <1>8, Zenon DEF GoToBlob, store, history, Leads, At
  <2>2. Others(n) = {}
    BY <1>8, <2>1, Zenon DEF GoToBlob, OwnerInv, AskGood
  <2>3. n = Owner
    BY <2>2, OwnerIs, ScoreAssumption DEF Others
  <2>4. reader'[r].pc = "blob" /\ \A q \in Readers \ {r} : reader'[q] = reader[q]
    BY <1>8, Zenon DEF GoToBlob, Goto, TypeOK, ReaderStates
  <2>5. Serving(n, "none")'
    BY <2>1, LeaderAlone, Zenon DEF Serving
  <2>6. \A o \in Nodes \ {n} : plan'[o] = plan[o] /\ Heard(call'[o], call[o])
    BY <2>1, Zenon DEF Heard
  <2> QED
    BY <2>1, <2>3, <2>4, <2>5, <2>6, OwnerLeader, Zenon DEF At
<1>9. ASSUME NEW r \in Readers, Leads(r), calm, UNCHANGED cached, LeaderReturns(r, Home[r], "ok"),
             \A o \in Nodes \ {Home[r]} : call'[o] = Answered(Home[r], "ok")[o],
             Serving(Home[r], "none")'
      PROVE  OwnerInv'
  <2> DEFINE n == Home[r]
  <2>1. reader'[r].pc = "idle" /\ \A q \in Readers \ {r} : reader'[q].pc \in {reader[q].pc, "idle"}
    BY <1>9, Zenon DEF LeaderReturns, Told
  <2>2. \A o \in Nodes \ {n} : plan'[o] = plan[o] /\ Heard(call'[o], call[o])
    BY <1>9, AnsweredHeard, Zenon DEF LeaderReturns, TypeOK
  <2> QED
    BY <1>9, <2>1, <2>2, OwnerLeader, Zenon DEF At
<1>10. ASSUME NEW r \in Readers, BlobAnswers(r) PROVE OwnerInv'
  <2>1. /\ calm /\ UNCHANGED cached /\ LeaderReturns(r, Home[r], "ok")
        /\ call' = Answered(Home[r], "ok")
    BY <1>10, Zenon DEF BlobAnswers, Gets, SpawnInsert
  <2>2. Leads(r) /\ ~At(r, "asking")
    BY <1>10, Zenon DEF BlobAnswers, Leads, At
  <2>3. Serving(Home[r], "none")'
    BY <2>1, <2>2, LeaderAlone, AnsweredGives DEF Serving
  <2> QED
    BY <1>9, <2>1, <2>2, <2>3, Zenon
<1>11. ASSUME NEW r \in Readers, PeerAnswers(r) PROVE OwnerInv'
  <2> DEFINE n == Home[r]
  <2>0. calm /\ Leads(r) /\ At(r, "asking")
    BY <1>11, Zenon DEF PeerAnswers, history, Leads, At
  <2>1. CASE Serving(n, "data")
    <3>1. /\ UNCHANGED cached /\ LeaderReturns(r, n, "ok")
          /\ call' = [Answered(n, "ok") EXCEPT ![n] = NoCall]
      BY <1>11, <2>1, Zenon DEF PeerAnswers, SpawnInsert, Serving
    <3>2. /\ Serving(n, "none")'
          /\ \A o \in Nodes \ {n} : call'[o] = Answered(n, "ok")[o]
      BY <3>1, IdleTypes, Zenon DEF Answered, Serving
    <3> QED
      BY <1>9, <2>0, <3>1, <3>2, Zenon
  <2>2. CASE Serving(n, "miss")
    <3>1. /\ UNCHANGED <<cached, plan>> /\ Goto(r, "ask")
          /\ call' = [call EXCEPT ![n] = NoCall]
      BY <1>11, <2>2, Zenon DEF PeerAnswers, store, Serving
    <3>2. PlanGood(n) /\ plan[n].elect
      BY <2>0, <2>2, Zenon DEF OwnerInv, CallGood, Serving
    <3>3. PlanGood(n)' /\ AskGood(n)'
      BY <3>1, <3>2, Zenon DEF PlanGood, AskGood
    <3>4. reader'[r].pc = "ask" /\ \A q \in Readers \ {r} : reader'[q] = reader[q]
      BY <3>1, Zenon DEF Goto, TypeOK, ReaderStates
    <3>5. Serving(n, "none")' /\ \A o \in Nodes \ {n} : plan'[o] = plan[o] /\ Heard(call'[o], call[o])
      BY <3>1, IdleTypes, Zenon DEF Serving, Heard, TypeOK
    <3> QED
      BY <2>0, <3>1, <3>3, <3>4, <3>5, OwnerLeader, Zenon DEF At
  <2> QED
    BY <1>11, <2>1, <2>2, Zenon DEF PeerAnswers
<1>12. ASSUME NEW n \in Nodes, NEW l, Serves(n, l), calm, ~Serving(n, "none"),
              UNCHANGED <<cached, plan, reader>>, l = "miss" => plan[n].elect
       PROVE  OwnerInv'
  <2>1. /\ call'[n].pc = l /\ call'[n].to = call[n].to /\ call'[n].wait = call[n].wait
        /\ \A o \in Nodes \ {n} : call'[o] = call[o]
    BY <1>12, ZenonT(40) DEF Serves, TypeOK, CallStates
  <2>2. ASSUME NEW o \in Nodes, ~Serving(o, "none")' PROVE CallGood(o)'
    <3>1. ~Serving(o, "none") /\ CallGood(o)
      BY <1>12, <2>1, <2>2, Zenon DEF OwnerInv, Serving
    <3> QED
      BY <1>12, <2>1, <3>1, Zenon DEF CallGood, To, Serving
  <2> QED
    BY <1>12, <2>2, Zenon DEF OwnerInv, At, PlanGood, AskGood
<1>13. ASSUME NEW n \in Nodes, Arrive(n) PROVE OwnerInv'
  <2>1. calm /\ ~Serving(n, "none") /\ UNCHANGED <<cached, plan, reader>>
    BY <1>13, Zenon DEF Arrive, Serving, store, history
  <2>2. CallGood(n)
    BY <2>1, Zenon DEF OwnerInv
  <2> QED
    BY <1>12, <1>13, <2>1, <2>2, Zenon DEF Arrive, CallGood
<1>14. ASSUME NEW n \in Nodes, Peek(n) \/ ServeEnter(n) PROVE OwnerInv'
  <2>1. calm /\ ~Serving(n, "none") /\ UNCHANGED <<cached, plan, reader>>
    BY <1>14, Zenon DEF Peek, ServeEnter, Serving, store, history
  <2> QED
    BY <1>12, <1>14, <2>1, Zenon DEF Peek, ServeEnter
<1>15. ASSUME NEW n \in Nodes, ServeGet(n) PROVE OwnerInv'
  <2> DEFINE m == To(n)
  <2>1. /\ calm /\ UNCHANGED <<cached, plan>> /\ reader' = Told(m, "ok")
        /\ call' = [Answered(m, "ok") EXCEPT ![n].pc = "data"]
    BY <1>15, Zenon DEF ServeGet, Gets, SpawnInsert
  <2>2. m \in Nodes /\ ~Serving(n, "none")
    BY <1>15, Zenon DEF ServeGet, TypeOK, Serving
  <2>3. Answered(m, "ok") \in [Nodes -> CallStates]
    BY <2>2, AnsweredType, Zenon
  <2>4. ASSUME NEW o \in Nodes
        PROVE  /\ call'[o].to = call[o].to /\ call'[o].wait = call[o].wait
               /\ call'[o].pc = "none" <=> call[o].pc = "none"
               /\ call'[o].pc = "miss" => call[o].pc = "miss"
    <3>1. Heard(Answered(m, "ok")[o], call[o])
      BY AnsweredHeard, Zenon
    <3> QED
      BY <2>1, <2>2, <2>3, <3>1, ZenonT(40) DEF Heard, CallStates, Serving
  <2>5. ASSUME NEW o \in Nodes, ~Serving(o, "none")' PROVE CallGood(o)'
    <3>1. ~Serving(o, "none") /\ CallGood(o)
      BY <2>1, <2>4, <2>5, Zenon DEF OwnerInv, Serving
    <3> QED
      BY <2>1, <2>4, <3>1 DEF CallGood, To, Serving
  <2>6. \A q \in Readers : reader'[q].pc \in {reader[q].pc, "idle"}
    BY <2>1, Zenon DEF Told
  <2> QED
    BY <2>1, <2>5, <2>6, Zenon DEF OwnerInv, At, PlanGood, AskGood
<1>16. ASSUME UNCHANGED <<plan, call, reader, calm>>, cached \subseteq cached' PROVE OwnerInv'
  BY <1>16, OwnerReaders, Zenon
<1>17. ASSUME NEW n \in Nodes, InsertEnds(n) \/ ViewChange(n) PROVE OwnerInv'
  BY <1>16, <1>17, Zenon DEF InsertEnds, ViewChange, store, history
<1>18. ASSUME NEW r \in Readers, Hangup(r) PROVE OwnerInv'
  BY <1>18, Zenon DEF Hangup
<1>19. ASSUME NEW n \in Nodes, ServeTimeout(n) \/ Evict(n) PROVE OwnerInv'
  BY <1>19, Zenon DEF ServeTimeout, Evict
<1>21. ASSUME NEW n \in Nodes, Drift(n) PROVE OwnerInv'
  BY <1>21, DriftsIfAdrift, Zenon DEF CalmInv
<1>20. ASSUME UNCHANGED vars PROVE OwnerInv'
  BY <1>16, <1>20, Zenon DEF vars
<1> QED
  BY <1>1, <1>2, <1>3, <1>4, <1>5, <1>6, <1>7, <1>8, <1>10, <1>11, <1>13, <1>14, <1>15, <1>17, <1>18,
     <1>19, <1>20, <1>21, ZenonT(40) DEF Next, Read, Serve, Finished

\* While views and filters are right and nothing fails, nobody but the elected node
\* goes to Azure, whatever the nodes and however their reads fall (scores do not tie).
THEOREM OwnerAlone ==
  ASSUME StampedeWait, DistinctScores
  PROVE  Spec => []OnlyOwnerGets
<1>1. Init => LeadInv /\ CallerInv /\ WaitInv /\ CalmInv /\ OwnerInv
  BY IdleTypes, NoCallWaits
     DEF Init, LeadInv, CallerInv, WaitInv, CalmInv, OwnerInv, Leads, Gives, Lost, Serving, At
<1>2. TypeOK /\ LeadInv /\ CallerInv /\ [Next]_vars => LeadInv' /\ CallerInv'
  BY StepLead, Zenon
<1>3. TypeOK /\ LeadInv /\ CallerInv /\ WaitInv /\ CalmInv /\ OwnerInv /\ [Next]_vars => OwnerInv'
  BY StepOwner, Zenon
<1>4. WaitInv /\ OwnerInv => OnlyOwnerGets
  BY Zenon DEF WaitInv, OwnerInv, OnlyOwnerGets, MayWait, WaitLabels, CallGood, Serving, To
<1> QED
  BY InitType, StepType, StepWait, StepCalm, <1>1, <1>2, <1>3, <1>4, PTL DEF Spec
=============================================================================
