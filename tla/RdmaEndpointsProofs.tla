------------------------- MODULE RdmaEndpointsProofs -------------------------
(***************************************************************************)
(* Proofs about RdmaEndpoints for any peers, endpoints, slots and tasks.   *)
(***************************************************************************)
EXTENDS RdmaEndpoints, FiniteSetTheorems, TLAPS

(***************************************************************************)
(* Types and where the tasks stand                                         *)
(***************************************************************************)

Labels == {"idle", "run", "closeBefore", "slab", "join", "sending", "closeAfter"}
Ops == {"none", "fetch", "health", "update", "serve"}
Handles == [open : BOOLEAN, addr : Addrs \cup {NoAddr}, broken : BOOLEAN, inFlight : Nat]
Args == [op : Ops, peer : Peers \cup {NoPeer}, addr : Addrs \cup {NoAddr}]

\* A task has an endpoint, a slot or something to close exactly where it should.
TaskInv ==
  \A t \in Tasks :
    /\ held[t] # NoEp <=> pc[t] \in {"closeBefore", "slab", "join", "sending"}
    /\ closing[t] # NoEp <=> pc[t] \in {"closeBefore", "closeAfter"}
    /\ slot[t] # NoSlot <=> pc[t] = "join"
    /\ pc[t] # "idle" => arg[t].peer \in Peers /\ arg[t].op # "none"
    /\ pc[t] = "closeBefore" => arg[t].op # "update"

\* What a task has checked out is its peer's endpoint.
HeldInv == \A t \in Tasks : held[t] # NoEp => peerEps[arg[t].peer] = held[t]

LEMMA Values == Closed \in Handles /\ NoArg \in Args
BY Zenon DEF Closed, Handles, NoArg, Args, Ops

LEMMA BecomesType ==
  ASSUME TypeOK, NEW t \in Tasks, NEW s \in Labels, Becomes(t, s)
  PROVE  pc' \in [Tasks -> Labels] /\ arg' \in [Tasks -> Args]
BY Values, Zenon DEF Becomes, TypeOK, Labels, Args, Ops

LEMMA GoesType ==
  ASSUME TypeOK, TaskInv, NEW t \in Tasks, pc[t] # "idle", arg[t].op # "update"
  PROVE  Goes(t) \in {"slab", "sending", "idle"}
BY DEF Goes, TypeOK, TaskInv

LEMMA StartsType ==
  ASSUME TypeOK, TaskInv, NEW t \in Tasks, Starts(t)
  PROVE  arg[t].peer \in Peers /\ Address(t) \in Addrs /\ Goes(t) \in {"slab", "sending", "idle"}
<1>1. pc[t] # "idle" /\ arg[t].op # "update"
  BY Zenon DEF Starts
<1>2. arg[t].peer \in Peers
  BY <1>1, Zenon DEF TaskInv
<1>3. Address(t) \in Addrs
  BY <1>2, Zenon DEF Starts, Address, TypeOK
<1> QED
  BY <1>1, <1>2, <1>3, GoesType, Zenon

LEMMA MarkedType ==
  ASSUME TypeOK, NEW p \in Peers, NEW a
  PROVE  Marked(p, a) \in [Eps -> Handles] /\ Removed(p, a) \in Eps \cup {NoEp}
<1>1. ep \in [Eps -> Handles]
  BY Zenon DEF TypeOK, Handles
<1>2. ASSUME peerEps[p] # NoEp PROVE [ep EXCEPT ![peerEps[p]].broken = TRUE] \in [Eps -> Handles]
  <2>1. peerEps[p] \in Eps
    BY <1>2 DEF TypeOK
  <2>2. [ep[peerEps[p]] EXCEPT !.broken = TRUE] \in Handles
    BY <1>1, <2>1, Zenon DEF Handles
  <2> QED
    BY <1>1, <2>1, <2>2, Zenon
<1> QED
  BY <1>1, <1>2, Zenon DEF TypeOK, Marked, Removed, Outdated

LEMMA LearnType ==
  ASSUME TypeOK, NEW p \in Peers, NEW a \in Addrs, Learn(p, a)
  PROVE  addrBlobs' \in [Peers -> Addrs \cup {NoAddr}]
BY Zenon DEF TypeOK, Learn

LEMMA ReleaseType ==
  ASSUME TypeOK, TaskInv, HeldInv, NEW t \in Tasks, held[t] # NoEp, NEW err \in BOOLEAN,
         NEW h \in [Eps -> Handles], Release(t, err, h)
  PROVE  /\ ep' \in [Eps -> Handles] /\ peerEps' \in [Peers -> Eps \cup {NoEp}]
         /\ closing' \in [Tasks -> Eps \cup {NoEp}] /\ held' \in [Tasks -> Eps \cup {NoEp}]
         /\ pc' \in [Tasks -> Labels] /\ arg' \in [Tasks -> Args]
         /\ addrBlobs' = addrBlobs
<1> DEFINE e == peerEps[arg[t].peer]
           after == [h[e] EXCEPT !.inFlight = Decremented(@), !.broken = @ \/ err]
<1>1. e \in Eps /\ arg[t].peer \in Peers
  <2>1. arg[t].peer \in Peers
    BY Zenon DEF TaskInv
  <2> QED
    BY <2>1 DEF HeldInv, TypeOK
<1>2. (h[e].broken \/ err) \in BOOLEAN /\ Decremented(h[e].inFlight) \in Nat
  <2>1. (h[e].broken \/ err) \in BOOLEAN
    BY Zenon
  <2>2. Decremented(h[e].inFlight) \in Nat
    BY <1>1, SMTT(30) DEF Decremented, Handles
  <2> QED
    BY <2>1, <2>2, Zenon
<1>3. after \in Handles
  BY <1>1, <1>2, ZenonT(40) DEF Handles
<1>4. ep' = [h EXCEPT ![e] = after]
  BY Zenon DEF Release
<1>5. ep' \in [Eps -> Handles]
  BY <1>3, <1>4, Zenon
<1>6. pc' \in [Tasks -> Labels] /\ arg' \in [Tasks -> Args]
  BY BecomesType, Zenon DEF Release, Labels
<1>7. /\ peerEps' \in [Peers -> Eps \cup {NoEp}]
      /\ closing' \in [Tasks -> Eps \cup {NoEp}] /\ held' \in [Tasks -> Eps \cup {NoEp}]
  BY <1>1, Zenon DEF Release, TypeOK
<1> QED
  BY <1>5, <1>6, <1>7, Zenon DEF Release

LEMMA CommandKinds ==
  ASSUME NEW t, NEW c \in Commands, Dispatch(t, c[1], c[2], c[3])
  PROVE  \E op \in {"fetch", "health", "update"}, p \in Peers, a \in Addrs : Dispatch(t, op, p, a)
<1>1. c[1] \in {"fetch", "health", "update"} /\ c[2] \in Peers /\ c[3] \in Addrs
  BY CommandsAssumption
<1> QED
  BY <1>1, Zenon

LEMMA StepType ==
  ASSUME TypeOK, TaskInv, HeldInv, [Next]_vars
  PROVE  TypeOK'
<1> USE Values
<1>1. ASSUME NEW t \in Tasks, NEW op \in {"fetch", "health", "update"}, NEW p \in Peers,
             NEW a \in Addrs, Dispatch(t, op, p, a)
      PROVE  TypeOK'
  <2>1. [op |-> op, peer |-> p, addr |-> a] \in Args
    BY Zenon DEF Args, Ops
  <2> QED
    BY <1>1, <2>1, Zenon DEF Dispatch, TypeOK, Handles, Labels, Ops, Args, tables, slab, task, wire
<1>2. ASSUME NEW t \in Tasks, NEW p \in Peers, Inbound(t, p) PROVE TypeOK'
  <2>1. [op |-> "serve", peer |-> p, addr |-> NoAddr] \in Args
    BY Zenon DEF Args, Ops
  <2> QED
    BY <1>2, <2>1, Zenon DEF Inbound, TypeOK, Handles, Labels, Ops, Args, tables, slab, task, wire
<1>3. ASSUME NEW t \in Tasks, DropRequest(t) PROVE TypeOK'
  <2>1. pc' \in [Tasks -> Labels] /\ arg' \in [Tasks -> Args]
    BY <1>3, BecomesType, Zenon DEF DropRequest, Labels
  <2> QED
    BY <1>3, <2>1, Zenon DEF DropRequest, TypeOK, Handles, Labels, Ops, Args, tables, slab, task, wire
<1>4. ASSUME NEW t \in Tasks, UpdatePeer(t) PROVE TypeOK'
  <2> DEFINE p == arg[t].peer
  <2>1. p \in Peers /\ arg[t].addr \in Addrs \cup {NoAddr}
    BY <1>4, Zenon DEF UpdatePeer, TaskInv, TypeOK
  <2>2. Marked(p, arg[t].addr) \in [Eps -> Handles] /\ Removed(p, arg[t].addr) \in Eps \cup {NoEp}
    BY <2>1, MarkedType, Zenon
  <2>3. pc' \in [Tasks -> Labels] /\ arg' \in [Tasks -> Args]
    BY <1>4, BecomesType, Zenon DEF UpdatePeer, Labels
  <2>4. /\ addrBlobs' \in [Peers -> Addrs \cup {NoAddr}] /\ peerEps' \in [Peers -> Eps \cup {NoEp}]
        /\ ep' \in [Eps -> Handles] /\ closing' \in [Tasks -> Eps \cup {NoEp}]
    BY <1>4, <2>1, <2>2, Zenon DEF UpdatePeer, TypeOK, Learn
  <2> QED
    BY <1>4, <2>3, <2>4, Zenon DEF UpdatePeer, TypeOK, Handles, Labels, Ops, Args, slab, wire
<1>5. ASSUME NEW t \in Tasks, CheckoutRefused(t) PROVE TypeOK'
  <2>1. arg[t].peer \in Peers /\ Address(t) \in Addrs
    BY <1>5, StartsType, Zenon DEF CheckoutRefused
  <2>2. addrBlobs' \in [Peers -> Addrs \cup {NoAddr}] /\ ep' \in [Eps -> Handles]
    BY <1>5, <2>1, LearnType, MarkedType, Zenon DEF CheckoutRefused
  <2>3. pc' \in [Tasks -> Labels] /\ arg' \in [Tasks -> Args]
    BY <1>5, BecomesType, Zenon DEF CheckoutRefused, Labels
  <2> QED
    BY <1>5, <2>2, <2>3, Zenon DEF CheckoutRefused, TypeOK, Handles, Labels, Ops, Args, slab, wire
<1>6. ASSUME NEW t \in Tasks, CheckoutShared(t) PROVE TypeOK'
  <2> DEFINE e == peerEps[arg[t].peer]
  <2>1. arg[t].peer \in Peers /\ Address(t) \in Addrs /\ Goes(t) \in Labels
    BY <1>6, StartsType, Zenon DEF CheckoutShared, Labels
  <2>2. e \in Eps /\ ep \in [Eps -> Handles]
    BY <1>6, <2>1, SMTT(30) DEF CheckoutShared, TypeOK, Handles
  <2>3. [ep[e] EXCEPT !.inFlight = @ + 1] \in Handles
    BY <2>2, SMTT(30) DEF Handles
  <2>4. ep' \in [Eps -> Handles] /\ held' \in [Tasks -> Eps \cup {NoEp}]
    BY <1>6, <2>2, <2>3, ZenonT(40) DEF CheckoutShared, TypeOK
  <2>5. addrBlobs' \in [Peers -> Addrs \cup {NoAddr}]
    BY <1>6, <2>1, LearnType, Zenon DEF CheckoutShared
  <2>6. pc' \in [Tasks -> Labels] /\ arg' \in [Tasks -> Args]
    BY <1>6, <2>1, BecomesType, Zenon DEF CheckoutShared
  <2> QED
    BY <1>6, <2>4, <2>5, <2>6, Zenon DEF CheckoutShared, TypeOK, Handles, Labels, Ops, Args, slab, wire
<1>7. ASSUME NEW t \in Tasks, NEW e \in Eps, CheckoutNew(t, e) PROVE TypeOK'
  <2> DEFINE n == IF arg[t].op # "health" \/ Removed(arg[t].peer, Address(t)) # NoEp THEN 1 ELSE 0
  <2>1. arg[t].peer \in Peers /\ Address(t) \in Addrs /\ Goes(t) \in Labels
    BY <1>7, StartsType, Zenon DEF CheckoutNew, Labels
  <2>2. [open |-> TRUE, addr |-> Address(t), broken |-> FALSE, inFlight |-> n] \in Handles
    BY <2>1, Zenon DEF Handles
  <2>3. ep' \in [Eps -> Handles]
    BY <1>7, <2>2, Zenon DEF CheckoutNew, TypeOK, Handles
  <2>4. /\ peerEps' \in [Peers -> Eps \cup {NoEp}]
        /\ held' \in [Tasks -> Eps \cup {NoEp}] /\ closing' \in [Tasks -> Eps \cup {NoEp}]
    BY <1>7, <2>1, MarkedType, Zenon DEF CheckoutNew, TypeOK
  <2>5. addrBlobs' \in [Peers -> Addrs \cup {NoAddr}]
    BY <1>7, <2>1, LearnType, Zenon DEF CheckoutNew
  <2>6. pc' \in [Tasks -> Labels] /\ arg' \in [Tasks -> Args]
    BY <1>7, <2>1, BecomesType, Zenon DEF CheckoutNew, Labels
  <2> QED
    BY <1>7, <2>3, <2>4, <2>5, <2>6, Zenon DEF CheckoutNew, TypeOK, Handles, Labels, Ops, Args, slab, wire
<1>8. ASSUME NEW t \in Tasks, CreateFails(t) PROVE TypeOK'
  <2>1. arg[t].peer \in Peers /\ Address(t) \in Addrs
    BY <1>8, StartsType, Zenon DEF CreateFails
  <2>2. addrBlobs' \in [Peers -> Addrs \cup {NoAddr}] /\ peerEps' \in [Peers -> Eps \cup {NoEp}]
    BY <1>8, <2>1, LearnType, Zenon DEF CreateFails, TypeOK
  <2>3. pc' \in [Tasks -> Labels] /\ arg' \in [Tasks -> Args]
    BY <1>8, BecomesType, Zenon DEF CreateFails, Labels
  <2> QED
    BY <1>8, <2>2, <2>3, Zenon DEF CreateFails, TypeOK, Handles, Labels, Ops, Args, slab, wire
<1>9. ASSUME NEW t \in Tasks, CloseBefore(t) PROVE TypeOK'
  <2> DEFINE h == [ep EXCEPT ![closing[t]] = Closed]
  <2>1. h \in [Eps -> Handles] /\ held[t] # NoEp
    BY <1>9, Zenon DEF CloseBefore, TypeOK, TaskInv, Handles
  <2>2. CASE arg[t].op = "health"
    BY <1>9, <2>1, <2>2, ReleaseType, Zenon
       DEF CloseBefore, TypeOK, Handles, Labels, Ops, Args, slab, wire
  <2>3. CASE arg[t].op # "health"
    <3>1. Goes(t) \in Labels
      BY <1>9, GoesType, Zenon DEF CloseBefore, TaskInv, Labels
    <3>2. pc' \in [Tasks -> Labels] /\ arg' \in [Tasks -> Args]
      BY <1>9, <2>3, <3>1, BecomesType, Zenon DEF CloseBefore
    <3>3. ep' = h /\ closing' = [closing EXCEPT ![t] = NoEp]
          /\ UNCHANGED <<peerEps, addrBlobs, held, slab, wire, loop, reaping>>
      BY <1>9, <2>3, Zenon DEF CloseBefore
    <3>4. closing' \in [Tasks -> Eps \cup {NoEp}]
      BY <3>3, Zenon DEF TypeOK
    <3> QED
      BY <2>1, <3>2, <3>3, <3>4, Zenon DEF TypeOK, Handles, Labels, Ops, Args, slab, wire
  <2> QED
    BY <2>2, <2>3, Zenon
<1>10. ASSUME NEW t \in Tasks, CloseAfter(t) PROVE TypeOK'
  <2>1. pc' \in [Tasks -> Labels] /\ arg' \in [Tasks -> Args]
    BY <1>10, BecomesType, Zenon DEF CloseAfter, Labels
  <2> QED
    BY <1>10, <2>1, Zenon DEF CloseAfter, TypeOK, Handles, Labels, Ops, Args, slab, wire
<1>11. ASSUME NEW t \in Tasks, NEW i \in Slots, TakeSlot(t, i) PROVE TypeOK'
  BY <1>11 DEF TakeSlot, TypeOK, tables
<1>12. ASSUME NEW t \in Tasks, Settles(t) PROVE TypeOK'
  <2>1. /\ sent' \in [Tasks -> {"none", "posted", "ok", "failed"}]
        /\ heard' \in [Tasks -> {"none", "posted", "chunk", "miss", "error", "lost"}]
    <3>1. ASSUME NEW r \in {"ok", "failed"}, RequestSent(t, r) PROVE <2>1
      BY <3>1, Zenon DEF RequestSent, TypeOK
    <3>2. ASSUME NEW r \in {"chunk", "miss", "error"}, ReplyComes(t, r) PROVE <2>1
      BY <3>2, Zenon DEF ReplyComes, TypeOK
    <3>3. ASSUME ReplyLost(t) PROVE <2>1
      BY <3>3, Zenon DEF ReplyLost, TypeOK
    <3> QED
      BY <1>12, <3>1, <3>2, <3>3, Zenon DEF Settles
  <2>2. UNCHANGED <<tables, slab, task, loop, reaping>>
    BY <1>12, Zenon DEF Settles, RequestSent, ReplyComes, ReplyLost
  <2> QED
    BY <2>1, <2>2, Zenon DEF TypeOK, tables, slab, task
<1>13. ASSUME NEW t \in Tasks, FetchDone(t) PROVE TypeOK'
  <2>1. held[t] # NoEp /\ slot[t] \in Slots /\ ep \in [Eps -> Handles]
    BY <1>13 DEF FetchDone, TaskInv, TypeOK, Handles
  <2>2. (sent[t] = "failed" \/ heard[t] = "error") \in BOOLEAN
    BY Zenon
  <2>3. /\ ep' \in [Eps -> Handles] /\ peerEps' \in [Peers -> Eps \cup {NoEp}]
        /\ closing' \in [Tasks -> Eps \cup {NoEp}] /\ held' \in [Tasks -> Eps \cup {NoEp}]
        /\ pc' \in [Tasks -> Labels] /\ arg' \in [Tasks -> Args]
        /\ addrBlobs' = addrBlobs
    BY <1>13, <2>1, <2>2, ReleaseType, Zenon DEF FetchDone
  <2>4. /\ free' \in SUBSET Slots /\ permits' \in Nat /\ slot' \in [Tasks -> Slots \cup {NoSlot}]
        /\ sent' \in [Tasks -> {"none", "posted", "ok", "failed"}]
        /\ heard' \in [Tasks -> {"none", "posted", "chunk", "miss", "error", "lost"}]
    BY <1>13, <2>1 DEF FetchDone, TypeOK
  <2>5. UNCHANGED <<loop, reaping>>
    BY <1>13, Zenon DEF FetchDone
  <2> QED
    BY <2>3, <2>4, <2>5, Zenon DEF TypeOK, Handles, Labels, Ops, Args
<1>14. ASSUME NEW t \in Tasks, NEW err \in BOOLEAN, ReplySent(t, err) PROVE TypeOK'
  <2>1. held[t] # NoEp /\ ep \in [Eps -> Handles]
    BY <1>14, Zenon DEF ReplySent, TaskInv, TypeOK, Handles
  <2>2. /\ ep' \in [Eps -> Handles] /\ peerEps' \in [Peers -> Eps \cup {NoEp}]
        /\ closing' \in [Tasks -> Eps \cup {NoEp}] /\ held' \in [Tasks -> Eps \cup {NoEp}]
        /\ pc' \in [Tasks -> Labels] /\ arg' \in [Tasks -> Args]
        /\ addrBlobs' = addrBlobs
    BY <1>14, <2>1, ReleaseType, Zenon DEF ReplySent
  <2> QED
    BY <1>14, <2>2, Zenon DEF ReplySent, TypeOK, Handles, Labels, Ops, Args, slab, wire
<1>15. ASSUME NEW e \in Eps, EndpointError(e) \/ Reap(e) PROVE TypeOK'
  <2>1. ep \in [Eps -> Handles]
    BY Zenon DEF TypeOK, Handles
  <2>2. [ep[e] EXCEPT !.broken = TRUE] \in Handles
    BY <2>1, Zenon DEF Handles
  <2>3. ep' \in [Eps -> Handles]
    BY <1>15, <2>1, <2>2, Zenon DEF EndpointError, Reap
  <2> QED
    BY <1>15, <2>3 DEF EndpointError, Reap, TypeOK, Handles, slab, task, wire
<1>16. ASSUME Tick PROVE TypeOK'
  BY <1>16 DEF Tick, TypeOK, slab, task, wire
<1>17. ASSUME UNCHANGED vars PROVE TypeOK'
  BY <1>17, Zenon DEF vars, TypeOK, tables, slab, task, wire
<1> QED
  BY <1>1, <1>2, <1>3, <1>4, <1>5, <1>6, <1>7, <1>8, <1>9, <1>10, <1>11, <1>12, <1>13, <1>14, <1>15,
     <1>16, <1>17, CommandKinds, CallersAssumption, Zenon DEF Next, Step

\* A task moves on, and the others stay where they are.
LEMMA TaskMoves ==
  ASSUME TypeOK, TaskInv, NEW t \in Tasks, NEW s \in Labels, Becomes(t, s),
         \A u \in Tasks \ {t} : held'[u] = held[u] /\ closing'[u] = closing[u] /\ slot'[u] = slot[u],
         held'[t] # NoEp <=> s \in {"closeBefore", "slab", "join", "sending"},
         closing'[t] # NoEp <=> s \in {"closeBefore", "closeAfter"},
         slot'[t] # NoSlot <=> s = "join",
         pc[t] # "idle", s = "closeBefore" => arg[t].op # "update"
  PROVE  TaskInv'
<1>1. pc'[t] = s /\ \A u \in Tasks \ {t} : pc'[u] = pc[u] /\ arg'[u] = arg[u]
  BY Zenon DEF Becomes, TypeOK
<1>2. s # "idle" => arg'[t] = arg[t]
  BY Zenon DEF Becomes, TypeOK
<1> QED
  BY <1>1, <1>2 DEF TaskInv

LEMMA ReleaseMoves ==
  ASSUME TypeOK, TaskInv, HeldInv, NEW t \in Tasks, held[t] # NoEp, NEW err, NEW h, Release(t, err, h),
         \A u \in Tasks \ {t} : slot'[u] = slot[u], slot'[t] = NoSlot
  PROVE  TaskInv'
<1>1. peerEps[arg[t].peer] # NoEp /\ pc[t] # "idle"
  BY Zenon DEF TaskInv, HeldInv
<1>2. PICK s \in {"closeAfter", "idle"} :
        /\ Becomes(t, s)
        /\ closing' = [closing EXCEPT ![t] = IF s = "closeAfter" THEN peerEps[arg[t].peer] ELSE NoEp]
  BY Zenon DEF Release
<1>3. held' = [held EXCEPT ![t] = NoEp]
  BY Zenon DEF Release
<1>4. s \in Labels /\ held'[t] = NoEp /\ (closing'[t] # NoEp <=> s = "closeAfter")
  BY <1>1, <1>2, <1>3, Zenon DEF TypeOK, Labels
<1>5. \A u \in Tasks \ {t} : held'[u] = held[u] /\ closing'[u] = closing[u]
  BY <1>2, <1>3, Zenon DEF TypeOK
<1> QED
  BY <1>1, <1>2, <1>4, <1>5, TaskMoves, Zenon

LEMMA StepTask ==
  ASSUME TypeOK, TaskInv, HeldInv, [Next]_vars
  PROVE  TaskInv'
<1> USE NothingAssumption
<1>1. ASSUME NEW t \in Tasks, NEW op \in {"fetch", "health", "update"}, NEW p \in Peers,
             NEW a \in Addrs, Dispatch(t, op, p, a)
      PROVE  TaskInv'
  BY <1>1 DEF Dispatch, TaskInv, TypeOK, slab
<1>2. ASSUME NEW t \in Tasks, NEW p \in Peers, Inbound(t, p) PROVE TaskInv'
  BY <1>2 DEF Inbound, TaskInv, TypeOK, slab
<1>3. ASSUME NEW t \in Tasks, DropRequest(t) PROVE TaskInv'
  BY <1>3, TaskMoves, Zenon DEF DropRequest, TaskInv, slab, Labels
<1>4. ASSUME NEW t \in Tasks, UpdatePeer(t) PROVE TaskInv'
  <2>1. PICK s \in {"idle", "closeAfter"} :
          /\ Becomes(t, s)
          /\ closing'[t] # NoEp <=> s = "closeAfter"
    BY <1>4, Zenon DEF UpdatePeer, TypeOK
  <2>2. /\ UNCHANGED <<held, slot>> /\ pc[t] = "run"
        /\ \A u \in Tasks \ {t} : closing'[u] = closing[u]
    BY <1>4, Zenon DEF UpdatePeer, TypeOK, slab
  <2> QED
    BY <2>1, <2>2, TaskMoves, Zenon DEF TaskInv, Labels
<1>5. ASSUME NEW t \in Tasks, CheckoutRefused(t) \/ CreateFails(t) PROVE TaskInv'
  BY <1>5, TaskMoves, Zenon DEF CheckoutRefused, CreateFails, Starts, TaskInv, slab, Labels
<1>6. ASSUME NEW t \in Tasks, CheckoutShared(t) PROVE TaskInv'
  <2>1. /\ Starts(t) /\ Becomes(t, Goes(t)) /\ UNCHANGED <<closing, slot>>
        /\ peerEps[arg[t].peer] # NoEp
    BY <1>6, Zenon DEF CheckoutShared, slab
  <2>2. held[t] = NoEp /\ closing[t] = NoEp /\ slot[t] = NoSlot /\ pc[t] # "idle" /\ arg[t].op # "update"
    BY <2>1, Zenon DEF Starts, TaskInv
  <2>3. arg[t].op \in {"fetch", "serve", "health"}
    BY <2>2 DEF TaskInv, TypeOK
  <2>4. Goes(t) = "idle" <=> arg[t].op = "health"
    BY <2>3 DEF Goes
  <2>5. Goes(t) \in {"slab", "sending", "idle"}
    BY <2>2, GoesType, Zenon
  <2>6. held' = IF arg[t].op = "health" THEN held ELSE [held EXCEPT ![t] = peerEps[arg[t].peer]]
    BY <1>6, Zenon DEF CheckoutShared
  <2>7. /\ \A u \in Tasks \ {t} : held'[u] = held[u]
        /\ held'[t] # NoEp <=> Goes(t) # "idle"
    BY <2>1, <2>2, <2>4, <2>6, Zenon DEF TypeOK
  <2> QED
    BY <2>1, <2>2, <2>5, <2>7, TaskMoves, Zenon DEF Labels
<1>7. ASSUME NEW t \in Tasks, NEW e \in Eps, CheckoutNew(t, e) PROVE TaskInv'
  <2> DEFINE r == Removed(arg[t].peer, Address(t))
             s == IF r = NoEp THEN Goes(t) ELSE "closeBefore"
             keep == arg[t].op # "health" \/ r # NoEp
  <2>1. /\ Starts(t) /\ Becomes(t, s) /\ UNCHANGED slot
        /\ held' = [held EXCEPT ![t] = IF keep THEN e ELSE NoEp]
        /\ closing' = [closing EXCEPT ![t] = r]
    BY <1>7, Zenon DEF CheckoutNew, slab
  <2>2. slot[t] = NoSlot /\ pc[t] # "idle" /\ arg[t].op # "update"
    BY <2>1, Zenon DEF Starts, TaskInv
  <2>3. arg[t].op \in {"fetch", "serve", "health"}
    BY <2>2, ZenonT(40) DEF TaskInv, TypeOK
  <2>4. Goes(t) = "idle" <=> arg[t].op = "health"
    BY <2>3 DEF Goes
  <2>5. Goes(t) \in {"slab", "sending", "idle"}
    BY <2>2, GoesType, Zenon
  <2>6. /\ \A u \in Tasks \ {t} : held'[u] = held[u] /\ closing'[u] = closing[u]
        /\ closing'[t] = r
        /\ held'[t] = IF keep THEN e ELSE NoEp
    BY <2>1, Zenon DEF TypeOK
  <2>7. /\ s \in Labels
        /\ held'[t] # NoEp <=> s \in {"closeBefore", "slab", "join", "sending"}
        /\ closing'[t] # NoEp <=> s \in {"closeBefore", "closeAfter"}
        /\ s # "join"
    BY <2>4, <2>5, <2>6, Zenon DEF Labels
  <2> HIDE DEF s
  <2> QED
    BY <2>1, <2>2, <2>6, <2>7, TaskMoves, Zenon
<1>8. ASSUME NEW t \in Tasks, CloseBefore(t) PROVE TaskInv'
  <2>1. /\ held[t] # NoEp /\ slot[t] = NoSlot /\ UNCHANGED slot /\ pc[t] # "idle"
        /\ arg[t].op \notin {"update", "none"}
    BY <1>8, Zenon DEF CloseBefore, TaskInv, slab
  <2>2. CASE arg[t].op = "health"
    BY <1>8, <2>1, <2>2, ReleaseMoves, Zenon DEF CloseBefore
  <2>3. CASE arg[t].op # "health"
    <3>1. Goes(t) \in {"slab", "sending"}
      BY <2>1, <2>3 DEF Goes, TypeOK
    <3>2. /\ Becomes(t, Goes(t)) /\ held' = held
          /\ \A u \in Tasks \ {t} : closing'[u] = closing[u]
          /\ closing'[t] = NoEp
      BY <1>8, <2>3, Zenon DEF CloseBefore, TypeOK
    <3> QED
      BY <2>1, <3>1, <3>2, TaskMoves, Zenon DEF Labels
  <2> QED
    BY <2>2, <2>3, Zenon
<1>9. ASSUME NEW t \in Tasks, CloseAfter(t) PROVE TaskInv'
  <2>1. /\ Becomes(t, "idle") /\ UNCHANGED <<held, slot>> /\ closing'[t] = NoEp
        /\ \A u \in Tasks \ {t} : closing'[u] = closing[u]
        /\ held[t] = NoEp /\ slot[t] = NoSlot /\ pc[t] # "idle"
    BY <1>9, Zenon DEF CloseAfter, TypeOK, TaskInv, slab
  <2> QED
    BY <2>1, TaskMoves, Zenon DEF Labels
<1>10. ASSUME NEW t \in Tasks, NEW i \in Slots, TakeSlot(t, i) PROVE TaskInv'
  BY <1>10 DEF TakeSlot, TaskInv, TypeOK
<1>11. ASSUME NEW t \in Tasks, FetchDone(t) PROVE TaskInv'
  <2>1. /\ held[t] # NoEp /\ slot'[t] = NoSlot /\ \A u \in Tasks \ {t} : slot'[u] = slot[u]
    BY <1>11, Zenon DEF FetchDone, TaskInv, TypeOK
  <2> QED
    BY <1>11, <2>1, ReleaseMoves, Zenon DEF FetchDone
<1>12. ASSUME NEW t \in Tasks, NEW err \in BOOLEAN, ReplySent(t, err) PROVE TaskInv'
  <2>1. held[t] # NoEp /\ slot[t] = NoSlot /\ UNCHANGED slot
    BY <1>12, Zenon DEF ReplySent, TaskInv, slab
  <2> QED
    BY <1>12, <2>1, ReleaseMoves, Zenon DEF ReplySent
<1>13. ASSUME UNCHANGED <<task, slot>> PROVE TaskInv'
  BY <1>13, Zenon DEF task, TaskInv
<1>14. ASSUME NEW t \in Tasks, Settles(t) PROVE TaskInv'
  BY <1>13, <1>14, Zenon DEF Settles, RequestSent, ReplyComes, ReplyLost, slab
<1>15. ASSUME NEW e \in Eps, EndpointError(e) \/ Reap(e) PROVE TaskInv'
  BY <1>13, <1>15, Zenon DEF EndpointError, Reap, slab
<1>16. ASSUME Tick \/ UNCHANGED vars PROVE TaskInv'
  BY <1>13, <1>16, Zenon DEF Tick, vars, slab
<1> QED
  BY <1>1, <1>2, <1>3, <1>4, <1>5, <1>6, <1>7, <1>8, <1>9, <1>10, <1>11, <1>12, <1>14, <1>15, <1>16,
     CommandKinds, CallersAssumption, ZenonT(40) DEF Next, Step

(***************************************************************************)
(* Endpoints and their users                                               *)
(***************************************************************************)

\* OneOwner, kind of owner by kind of owner.
OwnerInv ==
  /\ \A p \in Peers : peerEps[p] # NoEp => ep[peerEps[p]].open /\ peerEps[p] \notin reaping
  /\ \A t \in Tasks : closing[t] # NoEp => /\ ep[closing[t]].open /\ closing[t] \notin reaping
                                          /\ \A p \in Peers : peerEps[p] # closing[t]
  /\ \A e \in reaping : ep[e].open
  /\ \A p, q \in Peers : peerEps[p] = peerEps[q] /\ peerEps[p] # NoEp => p = q
  /\ \A t, u \in Tasks : closing[t] = closing[u] /\ closing[t] # NoEp => t = u

TableInv == HeldInv /\ InFlightExact /\ OwnerInv

LEMMA UsersFinite == \A e : IsFiniteSet(Users(e)) /\ Cardinality(Users(e)) \in Nat
<1> TAKE e
<1>1. IsFiniteSet(Users(e))
  BY FiniteAssumption, FS_Subset, Zenon DEF Users
<1> QED
  BY <1>1, FS_CardinalityType, Zenon

LEMMA NoUsers ==
  ASSUME NEW e, Cardinality(Users(e)) = 0
  PROVE  \A t \in Tasks : held[t] # e
<1>1. Users(e) = {}
  BY UsersFinite, FS_EmptySet, Zenon
<1> QED
  BY <1>1, Zenon DEF Users

LEMMA OneMore ==
  ASSUME TypeOK, NEW t \in Tasks, held[t] = NoEp, NEW e \in Eps, held' = [held EXCEPT ![t] = e]
  PROVE  /\ Cardinality(Users(e)') = Cardinality(Users(e)) + 1
         /\ \A d \in Eps \ {e} : Users(d)' = Users(d)
<1> USE NothingAssumption
<1>1. Users(e)' = Users(e) \cup {t} /\ t \notin Users(e)
  BY DEF Users, TypeOK
<1>2. \A d \in Eps \ {e} : Users(d)' = Users(d)
  BY DEF Users, TypeOK
<1> QED
  BY <1>1, <1>2, UsersFinite, FS_AddElement, ZenonT(40)

LEMMA OneLess ==
  ASSUME TypeOK, NEW t \in Tasks, NEW e \in Eps, held[t] = e, held' = [held EXCEPT ![t] = NoEp]
  PROVE  /\ Cardinality(Users(e)) > 0
         /\ Cardinality(Users(e)') = Cardinality(Users(e)) - 1
         /\ \A d \in Eps \ {e} : Users(d)' = Users(d)
<1> USE NothingAssumption
<1>1. Users(e)' = Users(e) \ {t} /\ t \in Users(e)
  BY Zenon DEF Users, TypeOK
<1>2. \A d \in Eps \ {e} : Users(d)' = Users(d)
  BY ZenonT(40) DEF Users, TypeOK
<1>3. Cardinality(Users(e) \ {t}) = Cardinality(Users(e)) - 1
  BY <1>1, UsersFinite, FS_RemoveElement, Zenon
<1>4. Cardinality(Users(e)) # 0
  BY <1>1, NoUsers, Zenon DEF Users
<1> QED
  BY <1>1, <1>2, <1>3, <1>4, UsersFinite

\* The endpoints and their owners stay, or some leave the table, and no count changes.
LEMMA TablesLess ==
  ASSUME TypeOK, TaskInv, TableInv, held' = held, closing' = closing, reaping' = reaping,
         \A e \in Eps : ep'[e].open = ep[e].open /\ ep'[e].inFlight = ep[e].inFlight,
         \A t \in Tasks : pc[t] \notin {"idle", "run"} => arg'[t] = arg[t],
         \A p \in Peers : peerEps'[p] # peerEps[p] => peerEps'[p] = NoEp /\ ep[peerEps[p]].inFlight = 0
  PROVE  TableInv'
<1> USE NothingAssumption
<1>1. \A e : Users(e)' = Users(e)
  BY Zenon DEF Users
<1>2. InFlightExact'
  BY <1>1 DEF TableInv, InFlightExact, TypeOK
<1>3. OwnerInv'
  BY DEF TableInv, OwnerInv, TypeOK
<1>4. ASSUME NEW t \in Tasks, held[t] # NoEp PROVE peerEps'[arg'[t].peer] = held[t]
  <2>1. arg'[t] = arg[t] /\ peerEps[arg[t].peer] = held[t] /\ arg[t].peer \in Peers
    BY <1>4, Zenon DEF TaskInv, TableInv, HeldInv
  <2>2. ep[held[t]].inFlight = Cardinality(Users(held[t]))
    BY <1>4, <2>1, Zenon DEF TableInv, InFlightExact
  <2>3. ep[held[t]].inFlight # 0
    BY <2>2, NoUsers, Zenon
  <2> QED
    BY <2>1, <2>3, Zenon
<1> QED
  BY <1>2, <1>3, <1>4, Zenon DEF TableInv, HeldInv

\* A task checks an endpoint out that its peer has already.
LEMMA SharedTables ==
  ASSUME TypeOK, TaskInv, TableInv, NEW t \in Tasks, held[t] = NoEp, pc[t] # "idle",
         NEW e \in Eps, e = peerEps[arg[t].peer], held' = [held EXCEPT ![t] = e],
         ep' = [ep EXCEPT ![e].inFlight = @ + 1], UNCHANGED <<peerEps, closing, reaping, arg>>
  PROVE  TableInv'
<1> USE NothingAssumption
<1>1. ep[e].inFlight = Cardinality(Users(e)) /\ arg[t].peer \in Peers
  BY Zenon DEF TaskInv, TableInv, InFlightExact
<1>2. /\ Cardinality(Users(e)') = Cardinality(Users(e)) + 1
      /\ \A d \in Eps \ {e} : Users(d)' = Users(d)
  BY OneMore, Zenon
<1>3. \A d \in Eps : /\ ep'[d].open = ep[d].open
                     /\ d # e => ep'[d] = ep[d]
                     /\ d = e => ep'[d].inFlight = ep[d].inFlight + 1
  BY DEF TypeOK
<1>4. InFlightExact'
  <2> SUFFICES ASSUME NEW p \in Peers, NEW d \in Eps, peerEps[p] = d
               PROVE  ep'[d].inFlight = Cardinality(Users(d)')
    BY DEF InFlightExact, TypeOK
  <2>1. CASE d = e
    BY <1>1, <1>2, <1>3, <2>1, ZenonT(40)
  <2>2. CASE d # e
    BY <1>2, <1>3, <2>2, SMTT(30) DEF TableInv, InFlightExact
  <2> QED
    BY <2>1, <2>2, Zenon
<1>5. OwnerInv'
  BY <1>3, SMTT(30) DEF TableInv, OwnerInv, TypeOK
<1>6. HeldInv'
  BY Zenon DEF TableInv, HeldInv, TypeOK
<1> QED
  BY <1>4, <1>5, <1>6, Zenon DEF TableInv

\* Task t releases what it has, on handles h that have lost at most what it closes.
LEMMA ReleaseTables ==
  ASSUME TypeOK, TaskInv, TableInv, NEW t \in Tasks, held[t] # NoEp, NEW err \in BOOLEAN,
         NEW h \in [Eps -> Handles], Release(t, err, h), UNCHANGED reaping,
         \A d \in Eps : h[d] = ep[d] \/ d = closing[t]
  PROVE  TableInv'
<1> USE NothingAssumption
<1> DEFINE p == arg[t].peer
           e == held[t]
           n == Decremented(h[e].inFlight)
           after == [h[e] EXCEPT !.inFlight = n, !.broken = @ \/ err]
           last == n = 0 /\ (h[e].broken \/ err)
<1>1. p \in Peers /\ peerEps[p] = e /\ e \in Eps
  <2>1. p \in Peers
    BY Zenon DEF TaskInv
  <2> QED
    BY <2>1 DEF TableInv, HeldInv, TypeOK
<1>2. e # closing[t] /\ h[e] = ep[e] /\ ep[e].open
  BY <1>1, Zenon DEF TableInv, OwnerInv
<1>3. ep[e].inFlight = Cardinality(Users(e)) /\ e # NoEp
  BY <1>1, Zenon DEF TableInv, InFlightExact
<1>4. held' = [held EXCEPT ![t] = NoEp]
  BY Zenon DEF Release
<1>5. PICK c \in Eps : c = e
  BY <1>1, Zenon
<1>6. /\ Cardinality(Users(c)) > 0
      /\ Cardinality(Users(c)') = Cardinality(Users(c)) - 1
      /\ \A d \in Eps \ {c} : Users(d)' = Users(d)
  BY <1>4, <1>5, OneLess, Zenon
<1>7. n = Cardinality(Users(c)')
  BY <1>2, <1>3, <1>5, <1>6, UsersFinite, Zenon DEF Decremented
<1>8. after.inFlight = n /\ after.open = h[e].open /\ after.broken = (h[e].broken \/ err)
  BY <1>1 DEF Handles
<1>9. /\ ep' = [h EXCEPT ![e] = after]
      /\ peerEps' = IF last THEN [peerEps EXCEPT ![p] = NoEp] ELSE peerEps
      /\ closing' = [closing EXCEPT ![t] = IF last THEN e ELSE NoEp]
      /\ Becomes(t, IF last THEN "closeAfter" ELSE "idle")
  BY <1>1, <1>8, Zenon DEF Release
<1> HIDE DEF n, after, last
<1>10. /\ ep'[c].inFlight = Cardinality(Users(c)') /\ ep'[c].open
       /\ \A d \in Eps \ {c} : ep'[d] = ep[d] \/ d = closing[t]
  BY <1>2, <1>5, <1>7, <1>8, <1>9, Zenon
<1>11. last => \A u \in Tasks : held'[u] # c
  <2>1. ASSUME last PROVE Cardinality(Users(c)') = 0
    BY <1>7, <2>1, Zenon DEF last
  <2>2. ASSUME Cardinality(Users(c)') = 0 PROVE \A u \in Tasks : held'[u] # c
    <3>1. Users(c)' = {t0 \in Tasks : held'[t0] = c}
      BY Zenon DEF Users
    <3>2. IsFiniteSet(Users(c)')
      BY <3>1, FiniteAssumption, FS_Subset, Zenon
    <3> QED
      BY <2>2, <3>1, <3>2, FS_EmptySet, Zenon
  <2> QED
    BY <2>1, <2>2, Zenon
<1>12. InFlightExact'
  <2> SUFFICES ASSUME NEW q \in Peers, NEW d \in Eps, peerEps'[q] = d
               PROVE  ep'[d].inFlight = Cardinality(Users(d)')
    <3>1. peerEps' \in [Peers -> Eps \cup {NoEp}]
      BY <1>1, <1>9, Zenon DEF TypeOK
    <3> QED
      BY <3>1, Zenon DEF InFlightExact
  <2>1. peerEps[q] = d
    BY <1>9, Zenon DEF TypeOK
  <2>2. CASE d = c
    BY <1>10, <2>2, Zenon
  <2>3. CASE d # c
    <3>1. d # closing[t]
      BY <2>1 DEF TableInv, OwnerInv
    <3>2. ep'[d] = ep[d]
      BY <1>10, <2>3, <3>1, Zenon
    <3> QED
      BY <1>6, <2>1, <2>3, <3>2, Zenon DEF TableInv, InFlightExact
  <2> QED
    BY <2>2, <2>3, Zenon
<1>13. OwnerInv'
  <2>1. \A q \in Peers : peerEps'[q] = peerEps[q] \/ (q = p /\ last /\ peerEps'[q] = NoEp)
    BY <1>1, <1>9, Zenon DEF TypeOK
  <2>2. \A u \in Tasks \ {t} : closing'[u] = closing[u]
    BY <1>9 DEF TypeOK
  <2>3. closing'[t] = (IF last THEN c ELSE NoEp) /\ (last => peerEps'[p] = NoEp)
    BY <1>1, <1>5, <1>9, Zenon DEF TypeOK
  <2>4. \A d \in Eps : ep[d].open /\ d # closing[t] => ep'[d].open
    BY <1>10, Zenon
  <2>5. closing[t] \in Eps \cup {NoEp} /\ reaping \subseteq Eps
    BY Zenon DEF TypeOK
  <2>6. \A q \in Peers : peerEps'[q] # NoEp => ep'[peerEps'[q]].open /\ peerEps'[q] \notin reaping'
    BY <2>1, <2>4, SMTT(30) DEF TableInv, OwnerInv, TypeOK
  <2>7. \A u \in Tasks : closing'[u] # NoEp => /\ ep'[closing'[u]].open /\ closing'[u] \notin reaping'
                                              /\ \A q \in Peers : peerEps'[q] # closing'[u]
    <3>1. ASSUME NEW u \in Tasks \ {t}, closing[u] # NoEp
          PROVE  /\ ep'[closing[u]].open /\ closing[u] \notin reaping'
                 /\ \A q \in Peers : peerEps'[q] # closing[u]
      BY <2>1, <2>4, <3>1, SMTT(30) DEF TableInv, OwnerInv, TypeOK
    <3>2. ASSUME last
          PROVE  /\ ep'[c].open /\ c \notin reaping'
                 /\ \A q \in Peers : peerEps'[q] # c
      BY <1>1, <1>5, <1>10, <2>1, <2>3, <3>2, SMTT(30) DEF TableInv, OwnerInv
    <3> QED
      BY <2>2, <2>3, <3>1, <3>2, SMTT(30)
  <2>8. \A d \in reaping : ep'[d].open
    BY <2>4, <2>5 DEF TableInv, OwnerInv
  <2>9. \A q, o \in Peers : peerEps'[q] = peerEps'[o] /\ peerEps'[q] # NoEp => q = o
    BY <2>1 DEF TableInv, OwnerInv
  <2>10. \A u, w \in Tasks : closing'[u] = closing'[w] /\ closing'[u] # NoEp => u = w
    <3>1. \A u \in Tasks : closing[u] # NoEp => closing[u] # c
      BY <1>1, <1>5, SMTT(30) DEF TableInv, OwnerInv
    <3> QED
      BY <2>2, <2>3, <3>1 DEF TableInv, OwnerInv
  <2> QED
    BY <2>6, <2>7, <2>8, <2>9, <2>10, Zenon DEF OwnerInv
<1>14. ASSUME NEW u \in Tasks, held'[u] # NoEp PROVE peerEps'[arg'[u].peer] = held'[u]
  <2>1. u # t /\ held'[u] = held[u] /\ arg'[u] = arg[u]
    BY <1>4, <1>9, <1>14, Zenon DEF Becomes, TypeOK
  <2>2. peerEps[arg[u].peer] = held[u]
    BY <1>14, <2>1, Zenon DEF TableInv, HeldInv
  <2> QED
    BY <1>1, <1>5, <1>9, <1>11, <2>1, <2>2, SMTT(30) DEF TypeOK
<1> QED
  BY <1>12, <1>13, <1>14, Zenon DEF TableInv, HeldInv

\* A removed endpoint has no users and goes from the table to task t, which will close it;
\* another one, that was not open, may take its place, with t as its user.
LEMMA RemovedTables ==
  ASSUME TypeOK, TaskInv, TableInv, NEW t \in Tasks, NEW p \in Peers, held[t] = NoEp, UNCHANGED reaping,
         \A u \in Tasks \ {t} : held'[u] = held[u] /\ closing'[u] = closing[u] /\ arg'[u] = arg[u],
         \A q \in Peers \ {p} : peerEps'[q] = peerEps[q],
         \A d \in Eps : d = peerEps'[p] \/ ep'[d] = ep[d],
         closing'[t] # NoEp => closing'[t] = peerEps[p] /\ ep[peerEps[p]].inFlight = 0,
         closing'[t] = NoEp => peerEps[p] = NoEp,
         peerEps'[p] # NoEp => /\ peerEps'[p] \in Eps /\ ~ep[peerEps'[p]].open /\ ep'[peerEps'[p]].open
                               /\ ep'[peerEps'[p]].inFlight = (IF held'[t] = NoEp THEN 0 ELSE 1),
         held'[t] # NoEp => held'[t] = peerEps'[p] /\ arg'[t].peer = p
  PROVE  TableInv'
<1> USE NothingAssumption
<1>0. PICK c, k, r : c = peerEps'[p] /\ k = held'[t] /\ r = closing'[t]
  BY Zenon
<1>a. /\ c # NoEp => c \in Eps /\ ~ep[c].open /\ ep'[c].open /\ ep'[c].inFlight = (IF k = NoEp THEN 0 ELSE 1)
      /\ k # NoEp => k = c /\ arg'[t].peer = p
      /\ \A d \in Eps : d = c \/ ep'[d] = ep[d]
  BY <1>0, Zenon
<1>1. r # NoEp => /\ r \in Eps /\ peerEps[p] = r /\ ep[r].inFlight = 0 /\ ep[r].open /\ r # c
                  /\ \A u \in Tasks : held[u] # r
  <2>1. ASSUME r # NoEp PROVE r \in Eps /\ peerEps[p] = r /\ ep[r].inFlight = 0
    BY <1>0, <2>1, SMTT(30) DEF TypeOK
  <2>2. ASSUME r # NoEp PROVE ep[r].open /\ Cardinality(Users(r)) = 0
    BY <2>1, <2>2 DEF TableInv, InFlightExact, OwnerInv
  <2> QED
    BY <1>a, <2>1, <2>2, NoUsers, Zenon
<1>2. \A u \in Tasks : /\ held[u] # NoEp => held[u] # c /\ held[u] \in Eps /\ arg[u].peer \in Peers
                                            /\ peerEps[arg[u].peer] = held[u]
                       /\ closing[u] # NoEp => closing[u] # c
  <2>1. ASSUME NEW u \in Tasks, held[u] # NoEp
        PROVE  /\ held[u] \in Eps /\ arg[u].peer \in Peers /\ peerEps[arg[u].peer] = held[u]
    BY <2>1, SMTT(30) DEF TaskInv, TableInv, HeldInv, TypeOK
  <2>2. ASSUME NEW u \in Tasks, held[u] # NoEp PROVE held[u] # c
    BY <1>a, <2>1, <2>2 DEF TableInv, OwnerInv
  <2>3. ASSUME NEW u \in Tasks, closing[u] # NoEp PROVE closing[u] # c
    BY <1>a, <2>3, ZenonT(40) DEF TableInv, OwnerInv, TypeOK
  <2> QED
    BY <2>1, <2>2, <2>3, Zenon
<1>3. \A u \in Tasks : /\ held'[u] = IF u = t THEN k ELSE held[u]
                       /\ closing'[u] = IF u = t THEN r ELSE closing[u]
  BY <1>0, Zenon
<1>4. \A q \in Peers : peerEps'[q] = IF q = p THEN c ELSE peerEps[q]
  BY <1>0, Zenon
<1>5. HeldInv'
  <2> SUFFICES ASSUME NEW u \in Tasks, held'[u] # NoEp PROVE peerEps'[arg'[u].peer] = held'[u]
    BY Zenon DEF HeldInv
  <2>1. CASE u = t
    BY <1>a, <1>3, <1>4, <2>1, Zenon
  <2>2. CASE u # t
    <3>1. arg[u].peer # p
      BY <1>1, <1>2, <1>3, <2>2, SMTT(30)
    <3> QED
      BY <1>2, <1>3, <1>4, <2>2, <3>1, SMTT(30)
  <2> QED
    BY <2>1, <2>2, Zenon
<1>6. \A d \in Eps \ {c} : Users(d)' = Users(d)
  BY <1>a, <1>3 DEF Users
<1>7. c # NoEp => Cardinality(Users(c)') = IF k = NoEp THEN 0 ELSE 1
  <2>1. c # NoEp => Users(c)' = IF k = NoEp THEN {} ELSE {t}
    BY <1>a, <1>2, <1>3, SMTT(30) DEF Users
  <2>2. Cardinality({}) = 0 /\ Cardinality({t}) = 1
    BY FS_EmptySet, FS_Singleton, Zenon
  <2> QED
    BY <2>1, <2>2, Zenon
<1>8. InFlightExact'
  <2> SUFFICES ASSUME NEW q \in Peers, NEW d \in Eps, peerEps'[q] = d
               PROVE  ep'[d].inFlight = Cardinality(Users(d)')
    BY <1>a, <1>4, SMTT(30) DEF InFlightExact, TypeOK
  <2>1. CASE d = c
    BY <1>a, <1>7, <2>1, SMTT(30)
  <2>2. CASE d # c
    <3>1. peerEps[q] = d
      BY <1>4, <2>2, Zenon
    <3> QED
      BY <1>a, <1>6, <2>2, <3>1, SMTT(30) DEF TableInv, InFlightExact
  <2> QED
    BY <2>1, <2>2, Zenon
<1>9. OwnerInv'
  <2>1. \A d \in Eps : ep[d].open => ep'[d] = ep[d]
    BY <1>a, Zenon
  <2>2. c # NoEp => ep'[c].open /\ c \notin reaping /\ \A q \in Peers : peerEps[q] # c
    BY <1>a, ZenonT(40) DEF TableInv, OwnerInv
  <2>3. \A q \in Peers : peerEps'[q] # NoEp => ep'[peerEps'[q]].open /\ peerEps'[q] \notin reaping'
    BY <1>4, <2>1, <2>2, SMTT(30) DEF TableInv, OwnerInv, TypeOK
  <2>4. \A u \in Tasks : closing'[u] # NoEp => /\ ep'[closing'[u]].open /\ closing'[u] \notin reaping'
                                              /\ \A q \in Peers : peerEps'[q] # closing'[u]
    <3>1. ASSUME NEW u \in Tasks, closing[u] # NoEp
          PROVE  /\ ep'[closing[u]].open /\ closing[u] \notin reaping'
                 /\ \A q \in Peers : peerEps'[q] # closing[u]
      BY <1>2, <1>4, <2>1, <3>1, SMTT(30) DEF TableInv, OwnerInv, TypeOK
    <3>2. ASSUME r # NoEp
          PROVE  /\ ep'[r].open /\ r \notin reaping'
                 /\ \A q \in Peers : peerEps'[q] # r
      BY <1>1, <1>4, <2>1, <3>2, SMTT(30) DEF TableInv, OwnerInv
    <3> QED
      BY <1>3, <3>1, <3>2, SMTT(30)
  <2>5. \A d \in reaping' : ep'[d].open
    BY <2>1, SMTT(30) DEF TableInv, OwnerInv, TypeOK
  <2>6. \A q, o \in Peers : peerEps'[q] = peerEps'[o] /\ peerEps'[q] # NoEp => q = o
    BY <1>4, <2>2, SMTT(30) DEF TableInv, OwnerInv
  <2>7. \A u, w \in Tasks : closing'[u] = closing'[w] /\ closing'[u] # NoEp => u = w
    <3>1. r # NoEp => \A u \in Tasks : closing[u] # r
      BY <1>1 DEF TableInv, OwnerInv
    <3> QED
      BY <1>3, <3>1, SMTT(30) DEF TableInv, OwnerInv
  <2> QED
    BY <2>3, <2>4, <2>5, <2>6, <2>7, Zenon DEF OwnerInv
<1> QED
  BY <1>5, <1>8, <1>9, Zenon DEF TableInv

\* Task t closes what it was to close.
LEMMA ClosedTables ==
  ASSUME TypeOK, TaskInv, TableInv, NEW t \in Tasks, closing[t] # NoEp,
         ep' = [ep EXCEPT ![closing[t]] = Closed], closing' = [closing EXCEPT ![t] = NoEp],
         UNCHANGED <<peerEps, held, reaping>>,
         \A u \in Tasks : held[u] # NoEp => arg'[u] = arg[u]
  PROVE  TableInv'
<1> USE NothingAssumption
<1>1. \A d \in Eps : d # closing[t] => ep'[d] = ep[d]
  BY Zenon DEF TypeOK
<1>2. \A u \in Tasks : closing'[u] = IF u = t THEN NoEp ELSE closing[u]
  BY Zenon DEF TypeOK
<1>3. \A e : Users(e)' = Users(e)
  BY Zenon DEF Users
<1>4. InFlightExact'
  <2> SUFFICES ASSUME NEW q \in Peers, NEW d \in Eps, peerEps[q] = d
               PROVE  ep'[d].inFlight = Cardinality(Users(d)')
    BY DEF InFlightExact, TypeOK
  <2>1. ep'[d] = ep[d]
    BY <1>1, Zenon DEF TableInv, OwnerInv
  <2> QED
    BY <1>3, <2>1, Zenon DEF TableInv, InFlightExact
<1>5. OwnerInv'
  BY <1>1, <1>2 DEF TableInv, OwnerInv, TypeOK
<1>6. HeldInv'
  BY Zenon DEF TableInv, HeldInv
<1> QED
  BY <1>4, <1>5, <1>6, Zenon DEF TableInv

\* The select loop takes endpoints that nobody uses out of the table.
LEMMA TickTables ==
  ASSUME TypeOK, TaskInv, TableInv, Tick
  PROVE  TableInv'
<1> USE NothingAssumption
<1> DEFINE stale == {p \in Peers : /\ peerEps[p] # NoEp
                                   /\ ep[peerEps[p]].inFlight = 0 /\ ep[peerEps[p]].broken}
<1>1. /\ peerEps' = [p \in Peers |-> IF p \in stale THEN NoEp ELSE peerEps[p]]
      /\ reaping' = {peerEps[p] : p \in stale}
      /\ UNCHANGED <<ep, held, closing, arg>>
  BY Zenon DEF Tick, task
<1>2. \A p \in stale : /\ peerEps[p] \in Eps /\ ep[peerEps[p]].open
                       /\ \A t \in Tasks : held[t] # peerEps[p] /\ closing[t] # peerEps[p]
  <2> SUFFICES ASSUME NEW p \in stale
               PROVE  /\ peerEps[p] \in Eps /\ ep[peerEps[p]].open
                      /\ \A t \in Tasks : held[t] # peerEps[p] /\ closing[t] # peerEps[p]
    BY Zenon
  <2>1. peerEps[p] \in Eps /\ ep[peerEps[p]].open
    BY DEF TypeOK, TableInv, OwnerInv
  <2>2. Cardinality(Users(peerEps[p])) = 0
    BY Zenon DEF TableInv, InFlightExact
  <2>3. \A t \in Tasks : held[t] # peerEps[p]
    BY <2>2, NoUsers, Zenon
  <2> QED
    BY <2>1, <2>3, Zenon DEF TableInv, OwnerInv
<1>3. \A e : Users(e)' = Users(e)
  BY <1>1, Zenon DEF Users
<1>4. InFlightExact'
  BY <1>1, <1>3, Zenon DEF TableInv, InFlightExact
<1>5. HeldInv'
  <2> SUFFICES ASSUME NEW t \in Tasks, held[t] # NoEp PROVE peerEps'[arg[t].peer] = held[t]
    BY <1>1, Zenon DEF HeldInv
  <2>1. arg[t].peer \in Peers /\ peerEps[arg[t].peer] = held[t]
    BY Zenon DEF TaskInv, TableInv, HeldInv
  <2> QED
    BY <1>1, <1>2, <2>1, Zenon
<1> HIDE DEF stale
<1>6. OwnerInv'
  <2>1. stale \subseteq Peers
    BY Zenon DEF stale
  <2>2. \A p \in Peers : peerEps'[p] # NoEp => peerEps'[p] = peerEps[p] /\ p \notin stale
    BY <1>1, Zenon
  <2>3. \A p \in Peers : peerEps'[p] # NoEp => ep'[peerEps'[p]].open /\ peerEps'[p] \notin reaping'
    BY <1>1, <2>1, <2>2, Zenon DEF TableInv, OwnerInv
  <2>4. \A t \in Tasks : closing'[t] # NoEp => /\ ep'[closing'[t]].open /\ closing'[t] \notin reaping'
                                              /\ \A p \in Peers : peerEps'[p] # closing'[t]
    BY <1>1, <1>2, <2>2, Zenon DEF TableInv, OwnerInv
  <2>5. \A e \in reaping' : ep'[e].open
    BY <1>1, <1>2, Zenon
  <2>6. \A p, q \in Peers : peerEps'[p] = peerEps'[q] /\ peerEps'[p] # NoEp => p = q
    BY <2>2, Zenon DEF TableInv, OwnerInv
  <2>7. \A t, u \in Tasks : closing'[t] = closing'[u] /\ closing'[t] # NoEp => t = u
    BY <1>1, Zenon DEF TableInv, OwnerInv
  <2> QED
    BY <2>3, <2>4, <2>5, <2>6, <2>7, Zenon DEF OwnerInv
<1> QED
  BY <1>4, <1>5, <1>6, Zenon DEF TableInv

\* The select loop closes one of them.
LEMMA ReapTables ==
  ASSUME TypeOK, TaskInv, TableInv, NEW e \in Eps, Reap(e)
  PROVE  TableInv'
<1> USE NothingAssumption
<1>1. /\ e \in reaping /\ reaping' = reaping \ {e} /\ UNCHANGED <<peerEps, held, closing, arg>>
      /\ \A d \in Eps \ {e} : ep'[d] = ep[d]
  BY Zenon DEF Reap, task, TypeOK
<1>2. \A d : Users(d)' = Users(d)
  BY <1>1, Zenon DEF Users
<1>3. InFlightExact'
  <2> SUFFICES ASSUME NEW q \in Peers, NEW d \in Eps, peerEps[q] = d
               PROVE  ep'[d].inFlight = Cardinality(Users(d)')
    BY <1>1 DEF InFlightExact, TypeOK
  <2>1. ep'[d] = ep[d]
    BY <1>1, Zenon DEF TableInv, OwnerInv
  <2> QED
    BY <1>2, <2>1, Zenon DEF TableInv, InFlightExact
<1>4. OwnerInv'
  BY <1>1 DEF TableInv, OwnerInv, TypeOK
<1>5. HeldInv'
  BY <1>1, Zenon DEF TableInv, HeldInv
<1> QED
  BY <1>3, <1>4, <1>5, Zenon DEF TableInv

LEMMA StepTables ==
  ASSUME TypeOK, TaskInv, TableInv, [Next]_vars
  PROVE  TableInv'
<1> USE NothingAssumption
<1>0. /\ HeldInv /\ ep \in [Eps -> Handles]
      /\ \A t \in Tasks : pc[t] \in {"idle", "run", "closeAfter"} => held[t] = NoEp
      /\ \A t \in Tasks : pc[t] \in {"idle", "run"} => closing[t] = NoEp
  BY Zenon DEF TableInv, TypeOK, Handles, TaskInv
<1>1. ASSUME UNCHANGED <<tables, held, closing, reaping>>,
             \A t \in Tasks : pc[t] \notin {"idle", "run"} => arg'[t] = arg[t]
      PROVE  TableInv'
  BY <1>1, TablesLess, Zenon DEF tables
<1>2. ASSUME NEW t \in Tasks,
             \/ \E op \in {"fetch", "health", "update"}, p \in Peers, a \in Addrs : Dispatch(t, op, p, a)
             \/ \E p \in Peers : Inbound(t, p)
             \/ DropRequest(t) \/ Settles(t) \/ \E i \in Slots : TakeSlot(t, i)
      PROVE  TableInv'
  <2>1. UNCHANGED <<tables, held, closing, reaping>>
    BY <1>2, Zenon DEF Dispatch, Inbound, DropRequest, Settles, RequestSent, ReplyComes, ReplyLost, TakeSlot, task
  <2>2. \A u \in Tasks : pc[u] \notin {"idle", "run"} => arg'[u] = arg[u]
    BY <1>2, ZenonT(40) DEF Dispatch, Inbound, DropRequest, Becomes, Settles, RequestSent, ReplyComes, ReplyLost,
                TakeSlot, task, TypeOK
  <2> QED
    BY <1>1, <2>1, <2>2, Zenon
<1>3. ASSUME NEW p \in Peers, NEW a
      PROVE  \A e \in Eps : /\ Marked(p, a)[e].open = ep[e].open
                            /\ Marked(p, a)[e].inFlight = ep[e].inFlight
  BY <1>0 DEF Marked, Outdated, Handles, TypeOK
<1>4. ASSUME NEW t \in Tasks, UpdatePeer(t) PROVE TableInv'
  <2> DEFINE p == arg[t].peer
             r == Removed(p, arg[t].addr)
  <2>1. p \in Peers /\ pc[t] = "run" /\ UNCHANGED <<held, reaping>> /\ held[t] = NoEp
    BY <1>0, <1>4, Zenon DEF UpdatePeer, TaskInv
  <2>2. \A u \in Tasks \ {t} : arg'[u] = arg[u]
    BY <1>4, Zenon DEF UpdatePeer, Becomes, TypeOK
  <2>3. CASE r = NoEp
    <3>1. peerEps' = peerEps /\ ep' = Marked(p, arg[t].addr) /\ closing' = closing
      BY <1>0, <1>4, <2>1, <2>3, ZenonT(40) DEF UpdatePeer, TypeOK
    <3> QED
      BY <1>3, <2>1, <2>2, <3>1, TablesLess, Zenon
  <2>4. CASE r # NoEp
    <3>1. peerEps' = [peerEps EXCEPT ![p] = NoEp] /\ closing' = [closing EXCEPT ![t] = r]
      BY <1>4, <2>4, ZenonT(40) DEF UpdatePeer
    <3>2. ep' = ep
      BY <1>4, <2>4, SMTT(30) DEF UpdatePeer, Marked, Removed
    <3>3. r = peerEps[p] /\ ep[r].inFlight = 0
      BY <2>4, Zenon DEF Removed
    <3>4. /\ closing'[t] = r /\ \A u \in Tasks \ {t} : closing'[u] = closing[u]
          /\ peerEps'[p] = NoEp /\ \A q \in Peers \ {p} : peerEps'[q] = peerEps[q]
      BY <2>1, <3>1, Zenon DEF TypeOK
    <3>5. /\ \A u \in Tasks \ {t} : held'[u] = held[u] /\ closing'[u] = closing[u] /\ arg'[u] = arg[u]
          /\ \A d \in Eps : d = peerEps'[p] \/ ep'[d] = ep[d]
      BY <2>1, <2>2, <3>2, <3>4, Zenon
    <3>6. /\ closing'[t] # NoEp /\ closing'[t] = peerEps[p] /\ ep[peerEps[p]].inFlight = 0
          /\ held'[t] = NoEp
      BY <2>1, <2>4, <3>3, <3>4, Zenon
    <3> HIDE DEF p, r
    <3> QED
      BY <1>0, <2>1, <3>4, <3>5, <3>6, RemovedTables, ZenonT(40)
  <2> QED
    BY <2>3, <2>4, Zenon
<1>5. ASSUME NEW t \in Tasks, Starts(t)
      PROVE  arg[t].peer \in Peers /\ pc[t] = "run" /\ held[t] = NoEp /\ Goes(t) \in {"slab", "sending", "idle"}
  BY <1>0, <1>5, StartsType, Zenon DEF Starts
<1>6. ASSUME NEW t \in Tasks, NEW s, Becomes(t, s)
      PROVE  (\A u \in Tasks \ {t} : arg'[u] = arg[u]) /\ (s # "idle" => arg' = arg)
  BY <1>6, ZenonT(40) DEF Becomes, TypeOK
<1>7. ASSUME NEW t \in Tasks, CheckoutRefused(t) PROVE TableInv'
  <2>1. Starts(t) /\ UNCHANGED <<peerEps, held, closing, reaping>> /\ ep' = Marked(arg[t].peer, Address(t))
    BY <1>7, Zenon DEF CheckoutRefused
  <2>2. \A u \in Tasks \ {t} : arg'[u] = arg[u]
    BY <1>6, <1>7, Zenon DEF CheckoutRefused
  <2> QED
    BY <1>3, <1>5, <2>1, <2>2, TablesLess
<1>8. ASSUME NEW t \in Tasks, CheckoutShared(t) PROVE TableInv'
  <2> DEFINE e == peerEps[arg[t].peer]
  <2>1. /\ Starts(t) /\ UNCHANGED <<peerEps, closing, reaping>> /\ e # NoEp
        /\ Becomes(t, Goes(t))
    BY <1>8, Zenon DEF CheckoutShared
  <2>2. arg[t].peer \in Peers /\ pc[t] = "run" /\ held[t] = NoEp /\ e \in Eps /\ arg[t].op \notin {"none", "update"}
    BY <1>5, <2>1 DEF TypeOK, Starts, TaskInv
  <2>3. CASE arg[t].op = "health"
    <3>1. UNCHANGED <<ep, held>> /\ \A u \in Tasks \ {t} : arg'[u] = arg[u]
      BY <1>6, <1>8, <2>1, <2>3, Zenon DEF CheckoutShared
    <3> QED
      BY <2>1, <2>2, <3>1, TablesLess, Zenon
  <2>4. CASE arg[t].op # "health"
    <3>1. ep' = [ep EXCEPT ![e].inFlight = @ + 1] /\ held' = [held EXCEPT ![t] = e]
      BY <1>8, <2>4, Zenon DEF CheckoutShared
    <3>2. arg' = arg
      <4>1. Goes(t) # "idle"
        BY <2>2, <2>4, SMTT(30) DEF Goes, TypeOK
      <4> QED
        BY <1>6, <2>1, <4>1, SMTT(30)
    <3> QED
      BY <2>1, <2>2, <3>1, <3>2, SharedTables, Zenon
  <2> QED
    BY <2>3, <2>4, Zenon
<1>9. ASSUME NEW t \in Tasks, NEW e \in Eps, CheckoutNew(t, e) PROVE TableInv'
  <2> DEFINE p == arg[t].peer
             r == Removed(p, Address(t))
             keep == arg[t].op # "health" \/ r # NoEp
             k == IF keep THEN e ELSE NoEp
  <2>1. /\ Starts(t) /\ UNCHANGED reaping /\ ~ep[e].open /\ (peerEps[p] = NoEp \/ r # NoEp)
        /\ peerEps' = [peerEps EXCEPT ![p] = e]
        /\ closing' = [closing EXCEPT ![t] = r]
        /\ held' = [held EXCEPT ![t] = k]
        /\ Becomes(t, IF r = NoEp THEN Goes(t) ELSE "closeBefore")
    BY <1>9, Zenon DEF CheckoutNew
  <2>2. p \in Peers /\ held[t] = NoEp /\ arg[t].op \in {"fetch", "serve", "health"}
    BY <1>5, <2>1 DEF Starts, TaskInv, TypeOK
  <2>3. /\ \A d \in Eps \ {e} : ep'[d] = ep[d]
        /\ ep'[e].open /\ ep'[e].inFlight = IF k = NoEp THEN 0 ELSE 1
    BY <1>0, <1>9, ZenonT(40) DEF CheckoutNew
  <2>4. k # NoEp => (IF r = NoEp THEN Goes(t) ELSE "closeBefore") # "idle"
    BY <2>2, SMTT(30) DEF Goes
  <2>5. (\A u \in Tasks \ {t} : arg'[u] = arg[u]) /\ (k # NoEp => arg'[t].peer = p)
    BY <1>6, <2>1, <2>4
  <2>6. r # NoEp => r = peerEps[p] /\ ep[peerEps[p]].inFlight = 0
    BY Zenon DEF Removed
  <2>7. /\ held'[t] = k /\ closing'[t] = r
        /\ \A u \in Tasks \ {t} : held'[u] = held[u] /\ closing'[u] = closing[u]
        /\ peerEps'[p] = e /\ \A q \in Peers \ {p} : peerEps'[q] = peerEps[q]
    BY <2>1, <2>2, Zenon DEF TypeOK
  <2>8. k \in {NoEp, e}
    BY Zenon
  <2> HIDE DEF k, r
  <2> QED
    BY <2>1, <2>2, <2>3, <2>5, <2>6, <2>7, <2>8, RemovedTables, SMTT(30)
<1>10. ASSUME NEW t \in Tasks, CreateFails(t) PROVE TableInv'
  <2> DEFINE p == arg[t].peer
  <2>1. /\ Starts(t) /\ UNCHANGED <<ep, held, closing, reaping>> /\ peerEps' = [peerEps EXCEPT ![p] = NoEp]
        /\ peerEps[p] = NoEp \/ Removed(p, Address(t)) # NoEp
        /\ Becomes(t, "idle")
    BY <1>10, Zenon DEF CreateFails
  <2>2. \A u \in Tasks \ {t} : arg'[u] = arg[u]
    BY <1>6, <2>1, Zenon
  <2>3. \A q \in Peers : peerEps'[q] # peerEps[q] => peerEps'[q] = NoEp /\ ep[peerEps[q]].inFlight = 0
    BY <2>1, ZenonT(40) DEF Removed, TypeOK
  <2> QED
    BY <1>5, <2>1, <2>2, <2>3, TablesLess, Zenon
<1>11. ASSUME NEW t \in Tasks, CloseBefore(t) PROVE TableInv'
  <2> DEFINE h == [ep EXCEPT ![closing[t]] = Closed]
  <2>1. /\ held[t] # NoEp /\ closing[t] # NoEp /\ UNCHANGED reaping
        /\ arg[t].op \notin {"none", "update"} /\ closing[t] \in Eps
    BY <1>11 DEF CloseBefore, TaskInv, TypeOK
  <2>2. h \in [Eps -> Handles] /\ \A d \in Eps : h[d] = ep[d] \/ d = closing[t]
    BY <1>0, Values, Zenon
  <2>3. CASE arg[t].op = "health"
    BY <1>11, <2>1, <2>2, <2>3, ReleaseTables, Zenon DEF CloseBefore
  <2>4. CASE arg[t].op # "health"
    <3>1. /\ ep' = h /\ closing' = [closing EXCEPT ![t] = NoEp] /\ UNCHANGED <<peerEps, held>>
          /\ Becomes(t, Goes(t))
      BY <1>11, <2>4, Zenon DEF CloseBefore
    <3>2. Goes(t) # "idle"
      BY <2>1, <2>4, SMTT(30) DEF Goes, TypeOK
    <3>3. arg' = arg
      BY <1>6, <3>1, <3>2
    <3> QED
      BY <2>1, <3>1, <3>3, ClosedTables, Zenon
  <2> QED
    BY <2>3, <2>4, Zenon
<1>12. ASSUME NEW t \in Tasks, CloseAfter(t) PROVE TableInv'
  <2>1. /\ closing[t] # NoEp /\ held[t] = NoEp /\ UNCHANGED <<peerEps, held, reaping>>
        /\ ep' = [ep EXCEPT ![closing[t]] = Closed] /\ closing' = [closing EXCEPT ![t] = NoEp]
        /\ Becomes(t, "idle")
    BY <1>0, <1>12, Zenon DEF CloseAfter, TaskInv
  <2>2. \A u \in Tasks : held[u] # NoEp => arg'[u] = arg[u]
    BY <1>6, <2>1, Zenon
  <2> QED
    BY <2>1, <2>2, ClosedTables, Zenon
<1>13. ASSUME NEW t \in Tasks, NEW err \in BOOLEAN, Release(t, err, ep), UNCHANGED reaping, held[t] # NoEp
       PROVE  TableInv'
  BY <1>0, <1>13, ReleaseTables, Zenon
<1>14. ASSUME NEW t \in Tasks, FetchDone(t) PROVE TableInv'
  <2>1. (sent[t] = "failed" \/ heard[t] = "error") \in BOOLEAN
    BY Zenon
  <2>2. held[t] # NoEp
    BY <1>14, Zenon DEF FetchDone, TaskInv
  <2> QED
    BY <1>13, <1>14, <2>1, <2>2, Zenon DEF FetchDone
<1>15. ASSUME NEW t \in Tasks, NEW err \in BOOLEAN, ReplySent(t, err) PROVE TableInv'
  <2>1. held[t] # NoEp
    BY <1>15, Zenon DEF ReplySent, TaskInv
  <2> QED
    BY <1>13, <1>15, <2>1, Zenon DEF ReplySent
<1>16. ASSUME NEW e \in Eps, EndpointError(e) PROVE TableInv'
  <2>1. \A d \in Eps : ep'[d].open = ep[d].open /\ ep'[d].inFlight = ep[d].inFlight
    BY <1>0, <1>16, Zenon DEF EndpointError, Handles
  <2>2. UNCHANGED <<peerEps, held, closing, reaping, arg>>
    BY <1>16, Zenon DEF EndpointError, task
  <2> QED
    BY <2>1, <2>2, TablesLess, Zenon
<1>17. ASSUME UNCHANGED vars PROVE TableInv'
  BY <1>1, <1>17, Zenon DEF vars, task
<1> QED
  BY <1>2, <1>4, <1>7, <1>8, <1>9, <1>10, <1>11, <1>12, <1>14, <1>15, <1>16, <1>17, TickTables, ReapTables,
     CommandKinds, CallersAssumption, ZenonT(40) DEF Next, Step

(***************************************************************************)
(* The slab                                                                *)
(***************************************************************************)

LEMMA StepSlab ==
  ASSUME TypeOK, TaskInv, SlabExact, [Next]_vars
  PROVE  SlabExact'
<1> USE NothingAssumption
<1>1. IsFiniteSet(free)
  BY FiniteAssumption, FS_Subset, Zenon DEF TypeOK
<1>2. ASSUME NEW t \in Tasks, NEW i \in Slots, TakeSlot(t, i) PROVE SlabExact'
  <2>1. Cardinality(free \ {i}) = Cardinality(free) - 1
    BY <1>1, <1>2, FS_RemoveElement, Zenon DEF TakeSlot
  <2>2. permits' = Cardinality(free')
    BY <1>2, <2>1, Zenon DEF TakeSlot, SlabExact
  <2>3. \A u \in Tasks : slot'[u] = IF u = t THEN i ELSE slot[u]
    BY <1>2, Zenon DEF TakeSlot, TypeOK
  <2> QED
    BY <1>2, <2>2, <2>3 DEF TakeSlot, SlabExact
<1>3. ASSUME NEW t \in Tasks, FetchDone(t) PROVE SlabExact'
  <2>1. slot[t] # NoSlot /\ slot[t] \notin free
    BY <1>3, Zenon DEF FetchDone, TaskInv, SlabExact
  <2>2. Cardinality(free \cup {slot[t]}) = Cardinality(free) + 1
    BY <1>1, <2>1, FS_AddElement, Zenon
  <2>3. permits' = Cardinality(free')
    BY <1>3, <2>2, Zenon DEF FetchDone, SlabExact
  <2>4. \A u \in Tasks : slot'[u] = IF u = t THEN NoSlot ELSE slot[u]
    BY <1>3, Zenon DEF FetchDone, TypeOK
  <2> QED
    BY <1>3, <2>1, <2>3, <2>4 DEF FetchDone, SlabExact
<1>4. ASSUME UNCHANGED slab PROVE SlabExact'
  BY <1>4, Zenon DEF slab, SlabExact
<1>5. ASSUME NEW t \in Tasks, Settles(t) PROVE UNCHANGED slab
  BY <1>5, Zenon DEF Settles, RequestSent, ReplyComes, ReplyLost
<1>6. ASSUME NEW t \in Tasks, Step(t), ~FetchDone(t) PROVE UNCHANGED slab
  BY <1>6, Zenon DEF Step, UpdatePeer, CheckoutRefused, CheckoutShared, CreateFails, CheckoutNew, DropRequest,
              CloseBefore, CloseAfter, ReplySent
<1> QED
  BY <1>2, <1>3, <1>4, <1>5, <1>6, Zenon DEF Next, vars, Dispatch, Inbound, EndpointError, Reap, Tick

(***************************************************************************)
(* The theorems                                                            *)
(***************************************************************************)

Inv == TypeOK /\ TaskInv /\ TableInv /\ SlabExact

LEMMA Invariant == Spec => []Inv
<1>1. Init => Inv
  <2> SUFFICES ASSUME Init PROVE Inv
    BY Zenon
  <2> USE NothingAssumption, Values
  <2>1. Cardinality(Slots) \in Nat
    BY FiniteAssumption, FS_CardinalityType, Zenon
  <2>2. TypeOK
    BY <2>1, Zenon DEF Init, TypeOK, Handles, Args, Ops
  <2>3. TaskInv
    BY Zenon DEF Init, TaskInv
  <2>4. TableInv
    BY Zenon DEF Init, TableInv, HeldInv, InFlightExact, OwnerInv
  <2>5. SlabExact
    BY Zenon DEF Init, SlabExact
  <2> QED
    BY <2>2, <2>3, <2>4, <2>5, Zenon DEF Inv
<1>2. Inv /\ [Next]_vars => Inv'
  BY StepType, StepTask, StepTables, StepSlab, Zenon DEF Inv, TableInv
<1> QED
  BY <1>1, <1>2, PTL DEF Spec

\* The state of the UCX runtime has its types.
THEOREM TypeCorrect == Spec => []TypeOK
<1>1. Inv => TypeOK
  BY Zenon DEF Inv
<1> QED
  BY <1>1, Invariant, PTL

\* in_flight is the number of tasks that have the endpoint checked out, for any number
\* of tasks, peers and reconnections (checkout_endpoint, release_endpoint).
THEOREM CountsAreExact == Spec => []InFlightExact
<1>1. Inv => InFlightExact
  BY Zenon DEF Inv, TableInv
<1> QED
  BY <1>1, Invariant, PTL

\* No task is left with an endpoint that was closed or replaced under it.
THEOREM HeldAreLive == Spec => []HeldIsLive
<1>1. Inv => HeldIsLive
  <2> SUFFICES ASSUME Inv, NEW t \in Tasks, held[t] # NoEp
               PROVE  peerEps[arg[t].peer] = held[t] /\ ep[held[t]].open
    BY Zenon DEF HeldIsLive
  <2>1. arg[t].peer \in Peers /\ peerEps[arg[t].peer] = held[t]
    BY Zenon DEF Inv, TaskInv, TableInv, HeldInv
  <2> QED
    BY <2>1, Zenon DEF Inv, TableInv, OwnerInv
<1> QED
  BY <1>1, Invariant, PTL

\* No endpoint is closed twice, or closed while it is in the table.
THEOREM ClosedOnce == Spec => []OneOwner
<1>1. Inv => OneOwner
  <2> SUFFICES ASSUME Inv, NEW e \in Eps
               PROVE  /\ Owners(e) # {} => ep[e].open
                      /\ \A k, l \in Owners(e) : k = l
    BY Zenon DEF OneOwner
  <2>1. e # NoEp
    BY NothingAssumption, Zenon
  <2>2. Owners(e) # {} => ep[e].open
    BY <2>1, SMTT(30) DEF Owners, Inv, TableInv, OwnerInv
  <2>3. ASSUME NEW k \in Owners(e), NEW l \in Owners(e) PROVE k = l
    <3>1. /\ \/ \E p \in Peers : k = <<"peer", p>> /\ peerEps[p] = e
             \/ \E t \in Tasks : k = <<"task", t>> /\ closing[t] = e
             \/ k = <<"loop", e>> /\ e \in reaping
          /\ \/ \E p \in Peers : l = <<"peer", p>> /\ peerEps[p] = e
             \/ \E t \in Tasks : l = <<"task", t>> /\ closing[t] = e
             \/ l = <<"loop", e>> /\ e \in reaping
      BY Zenon DEF Owners
    <3> QED
      BY <2>1, <3>1 DEF Inv, TableInv, OwnerInv
  <2> QED
    BY <2>2, <2>3, Zenon
<1> QED
  BY <1>1, Invariant, PTL

\* The receive slab hands no slot out twice and loses none (RecvSlab).
THEOREM SlotsAreExact == Spec => []SlabExact
<1>1. Inv => SlabExact
  BY Zenon DEF Inv
<1> QED
  BY <1>1, Invariant, PTL
=============================================================================
