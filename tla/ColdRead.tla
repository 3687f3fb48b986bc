------------------------------- MODULE ColdRead -------------------------------
(***************************************************************************)
(* One chunk read on many nodes at once: Fetcher::do_fetch on the reading  *)
(* nodes, PeerService and Fetcher::serve_peer_chunk on the nodes they ask, *)
(* and the election of the node that goes to Azure (src/fetcher.rs,        *)
(* src/transport.rs, src/peerindex.rs).                                    *)
(*                                                                         *)
(* A node has one leader for the chunk at most, and a leader has one call  *)
(* out at most, so a call, with its handler on the node it is made to, is  *)
(* named by the node that makes it.  A handler whose caller has gone is    *)
(* adrift: it goes on, or is dropped, and nobody hears its answer.  Within *)
(* a node the calls are coarser than in Fetcher.tla: taking an entry out   *)
(* of the singleflight map and telling its followers is one step.  Every   *)
(* node has the chunk's mount, lengths are right, and cache_on_peer_fetch  *)
(* is on.                                                                  *)
(***************************************************************************)
EXTENDS Integers, FiniteSets

CONSTANTS
  Nodes,
  NoNode,
  Score,          \* hrw_score of each node for the chunk
  MaxScore,       \* u64::MAX
  Readers,
  Home,           \* the node of each reader
  StampedeWait,   \* stampede_wait_ms > 0
  MaxYes,         \* peer_max_yes_attempts
  MaxMaybe,       \* peer_max_maybe_attempts
  Happens,        \* "view", "bloom", "get_error", "timeout", "hangup", "evict", ...
  MaxEvents       \* bound: reads, changes of view, wrong filters, hang-ups and evictions

ASSUME ScoreAssumption == MaxScore \in Nat /\ Score \in [Nodes -> 0..MaxScore]
ASSUME HomeAssumption == Home \in [Readers -> Nodes] /\ NoNode \notin Nodes
ASSUME BudgetAssumption == MaxYes \in Nat /\ MaxMaybe \in Nat /\ MaxEvents \in Nat

VARIABLES
  alive,      \* members_alive, on each node
  cached,     \* the nodes that have the chunk on disk
  staged,     \* the nodes that have it in inflight_writes
  inserts,    \* how many insert tasks each node has
  inflight,   \* the nodes with an entry in the singleflight map
  reader,     \* each reader: where it is, and how its last read ended
  plan,       \* on each node, what its leader has still to try
  call,       \* by node: the call of its leader, and where its handler is
  adrift,     \* the handlers whose callers have gone: the node, and where they are
  calm,       \* history: every filter and view used was right, nothing failed
  sound,      \* history: no GET failed and no handler was dropped
  events

store == <<cached, staged, inserts>>
history == <<calm, sound, events>>
vars == <<alive, cached, staged, inserts, inflight, reader, plan, call, adrift, calm, sound, events>>

NoPlan == [alive |-> {}, yes |-> {}, maybe |-> {}, elect |-> FALSE]
NoCall == [to |-> NoNode, wait |-> FALSE, pc |-> "none"]

Others(n) == Nodes \ {n}

Init ==
  /\ alive = [n \in Nodes |-> Others(n)]
  /\ cached = {} /\ staged = {} /\ inserts = [n \in Nodes |-> 0]
  /\ inflight = {}
  /\ reader = [r \in Readers |-> [pc |-> "idle", got |-> "nothing"]]
  /\ plan = [n \in Nodes |-> NoPlan]
  /\ call = [n \in Nodes |-> NoCall] /\ adrift = {}
  /\ calm = TRUE /\ sound = TRUE /\ events = 0

At(r, label) == reader[r].pc = label
Goto(r, label) == reader' = [reader EXCEPT ![r].pc = label]
Returns(r, result) == reader' = [reader EXCEPT ![r] = [pc |-> "idle", got |-> result]]
Serving(n, label) == call[n].pc = label
To(n) == call[n].to
Serves(n, label) == call' = [call EXCEPT ![n].pc = label]

Event(e) == e \in Happens /\ events < MaxEvents /\ events' = events + 1

(***************************************************************************)
(* spawn_insert, and the end of a singleflight entry                       *)
(***************************************************************************)

SpawnInsert(n) ==
  /\ staged' = staged \cup {n}
  /\ inserts' = [inserts EXCEPT ![n] = @ + 1]
  /\ UNCHANGED cached

InsertEnds(n) ==
  /\ inserts[n] > 0 /\ inserts' = [inserts EXCEPT ![n] = @ - 1]
  /\ staged' = staged \ {n}
  /\ \/ cached' = cached \cup {n}
     \/ "insert_error" \in Happens /\ UNCHANGED cached
  /\ UNCHANGED <<alive, inflight, reader, plan, call, adrift, history>>

\* What the readers on n that follow its leader become.  A leader always tells them, as
\* a LeaderGuard that is dropped sends an error too.
Told(n, result) ==
  [r \in Readers |->
     IF Home[r] = n /\ At(r, "follow") THEN [pc |-> "idle", got |-> result] ELSE reader[r]]

\* What the handlers on n that follow its leader answer then.
Answered(n, result) ==
  [o \in Nodes |->
     IF To(o) = n /\ Serving(o, "follow")
       THEN [call[o] EXCEPT !.pc = IF result = "ok" THEN "data" ELSE "miss"]
       ELSE call[o]]

\* LeaderGuard::disarm and the send: the leader r on n ends its read with a result.
LeaderReturns(r, n, result) ==
  /\ inflight' = inflight \ {n}
  /\ reader' = [Told(n, result) EXCEPT ![r] = [pc |-> "idle", got |-> result]]
  /\ plan' = [plan EXCEPT ![n] = NoPlan]

(***************************************************************************)
(* A read: fetch_chunk_inner                                               *)
(***************************************************************************)

\* A FUSE read, or a chunk of a hydrate shard, which goes straight to Azure.
Begin(r) ==
  /\ At(r, "idle") /\ events < MaxEvents /\ events' = events + 1
  /\ \/ Goto(r, "look") /\ UNCHANGED calm
     \/ "origin" \in Happens /\ Goto(r, "look_origin") /\ calm' = FALSE
  /\ UNCHANGED <<alive, store, inflight, plan, call, adrift, sound>>

\* The staging map and the disk.
Look(r) ==
  LET n == Home[r] IN
  /\ reader[r].pc \in {"look", "look_origin"}
  /\ IF n \in staged \cup cached
       THEN Returns(r, "ok")
       ELSE Goto(r, IF At(r, "look") THEN "enter" ELSE "enter_origin")
  /\ UNCHANGED <<alive, store, inflight, plan, call, adrift, history>>

Enter(r) ==
  LET n == Home[r] IN
  /\ reader[r].pc \in {"enter", "enter_origin"}
  /\ IF n \in inflight
       THEN Goto(r, "follow") /\ UNCHANGED inflight
       ELSE /\ inflight' = inflight \cup {n}
            /\ Goto(r, IF At(r, "enter") THEN "rank" ELSE "blob")
  /\ UNCHANGED <<alive, store, plan, call, adrift, history>>

(***************************************************************************)
(* A leader: do_fetch and try_peer_fetch                                   *)
(***************************************************************************)

\* rank_candidates: the filters at hand say yes for some peers, there is none for
\* others, and each list is cut to its budget.  Which, is up to PeerIndex; a filter is
\* right here when the peers it names have the chunk.
Rank(r) ==
  LET n == Home[r] IN
  /\ At(r, "rank")
  /\ \E yes \in SUBSET alive[n] : \E maybe \in SUBSET (alive[n] \ yes) :
       /\ Cardinality(yes) <= MaxYes /\ Cardinality(maybe) <= MaxMaybe
       /\ IF yes \subseteq cached THEN UNCHANGED events ELSE Event("bloom")
       /\ plan' = [plan EXCEPT ![n] =
            [alive |-> alive[n], yes |-> yes, maybe |-> maybe,
             elect |-> yes = {} /\ StampedeWait /\ alive[n] # {}]]
       /\ calm' = (calm /\ alive[n] = Others(n) /\ yes \subseteq cached)
  /\ Goto(r, "ask")
  /\ UNCHANGED <<alive, store, inflight, call, adrift, sound>>

\* The highest scores of S come first.
First(S) == {m \in S : \A o \in S : Score[o] <= Score[m]}

\* Mutant: the election leaves the electing node out.
HrwTop_Others(n, S) == First(S)

\* hrw_top_id: a peer is elected only with a score above this node's own.
HrwTop(n, S) == IF \E m \in S : Score[m] > Score[n] THEN First(S) ELSE {n}

Calls(r, n, m, wait) ==
  /\ call' = [call EXCEPT ![n] = [to |-> m, wait |-> wait, pc |-> "arrive"]]
  /\ Goto(r, "asking")

AskYes(r) ==
  LET n == Home[r] IN
  /\ At(r, "ask")
  /\ \E m \in First(plan[n].yes) :
       Calls(r, n, m, FALSE) /\ plan' = [plan EXCEPT ![n].yes = @ \ {m}]
  /\ UNCHANGED <<alive, store, inflight, adrift, history>>

AskMaybe(r) ==
  LET n == Home[r] IN
  /\ At(r, "ask") /\ plan[n].yes = {}
  /\ \E m \in First(plan[n].maybe) :
       Calls(r, n, m, FALSE) /\ plan' = [plan EXCEPT ![n].maybe = @ \ {m}]
  /\ UNCHANGED <<alive, store, inflight, adrift, history>>

\* Mutant: the elected node is asked until it answers with the chunk.
AskElected_Again(r) ==
  LET n == Home[r] IN
  /\ At(r, "ask") /\ plan[n].yes = {} /\ plan[n].maybe = {} /\ plan[n].elect
  /\ \E m \in HrwTop(n, plan[n].alive) :
       IF m = n THEN Goto(r, "blob") /\ UNCHANGED call ELSE Calls(r, n, m, TRUE)
  /\ UNCHANGED <<alive, store, inflight, plan, adrift, history>>

\* Nobody is known to have the chunk: ask the elected node, and wait there.
AskElected(r) ==
  LET n == Home[r] IN
  /\ At(r, "ask") /\ plan[n].yes = {} /\ plan[n].maybe = {} /\ plan[n].elect
  /\ \E m \in HrwTop(n, plan[n].alive) :
       IF m = n THEN Goto(r, "blob") /\ UNCHANGED call ELSE Calls(r, n, m, TRUE)
  /\ plan' = [plan EXCEPT ![n] = NoPlan]
  /\ UNCHANGED <<alive, store, inflight, adrift, history>>

GoToBlob(r) ==
  LET n == Home[r] IN
  /\ At(r, "ask") /\ plan[n].yes = {} /\ plan[n].maybe = {} /\ ~plan[n].elect
  /\ Goto(r, "blob")
  /\ UNCHANGED <<alive, store, inflight, plan, call, adrift, history>>

\* The answer of a GET made on n.
Gets(n, result) ==
  \/ result = "ok" /\ SpawnInsert(n) /\ UNCHANGED <<calm, sound>>
  \/ /\ result = "failed" /\ "get_error" \in Happens
     /\ calm' = FALSE /\ sound' = FALSE /\ UNCHANGED store

BlobAnswers(r) ==
  LET n == Home[r] IN
  /\ At(r, "blob")
  /\ \E result \in {"ok", "failed"} :
       /\ Gets(n, result)
       /\ LeaderReturns(r, n, result) /\ call' = Answered(n, result)
  /\ UNCHANGED <<alive, adrift, events>>

\* Mutant: a miss ends the read.
PeerAnswers_Miss(r) ==
  LET n == Home[r] IN
  /\ At(r, "asking") /\ call[n].pc \in {"data", "miss"}
  /\ LET result == IF Serving(n, "data") THEN "ok" ELSE "failed" IN
       LeaderReturns(r, n, result) /\ call' = [Answered(n, result) EXCEPT ![n] = NoCall]
  /\ UNCHANGED <<alive, store, adrift, history>>

\* The answer of a peer.  A miss, from a peer whose filter said yes, also drops the
\* filter (drop_remote); the next Rank takes any filters.
PeerAnswers(r) ==
  LET n == Home[r] IN
  /\ At(r, "asking")
  /\ \/ /\ Serving(n, "data")
        /\ SpawnInsert(n)
        /\ LeaderReturns(r, n, "ok") /\ call' = [Answered(n, "ok") EXCEPT ![n] = NoCall]
     \/ /\ Serving(n, "miss")
        /\ Goto(r, "ask") /\ call' = [call EXCEPT ![n] = NoCall]
        /\ UNCHANGED <<store, inflight, plan>>
  /\ UNCHANGED <<alive, adrift, history>>

(***************************************************************************)
(* A handler: handle_chunk and serve_peer_chunk, for the call n made       *)
(***************************************************************************)

Arrive(n) ==
  /\ Serving(n, "arrive")
  /\ Serves(n, IF To(n) \in cached THEN "data" ELSE IF call[n].wait THEN "peek" ELSE "miss")
  /\ UNCHANGED <<alive, store, inflight, reader, plan, adrift, history>>

\* The first lines of serve_peer_chunk: the disk again, and not the staging map.
Peek(n) ==
  /\ Serving(n, "peek")
  /\ Serves(n, IF To(n) \in cached THEN "data" ELSE "enter")
  /\ UNCHANGED <<alive, store, inflight, reader, plan, adrift, history>>

\* Mutant: a handler that finds a leader at work answers at once.
ServeEnter_Busy(n) ==
  /\ Serving(n, "enter")
  /\ IF To(n) \in inflight
       THEN Serves(n, "miss") /\ UNCHANGED inflight
       ELSE Serves(n, "get") /\ inflight' = inflight \cup {To(n)}
  /\ UNCHANGED <<alive, store, reader, plan, adrift, history>>

ServeEnter(n) ==
  /\ Serving(n, "enter")
  /\ IF To(n) \in inflight
       THEN Serves(n, "follow") /\ UNCHANGED inflight
       ELSE Serves(n, "get") /\ inflight' = inflight \cup {To(n)}
  /\ UNCHANGED <<alive, store, reader, plan, adrift, history>>

\* fetch_blob_direct.
ServeGet(n) ==
  LET m == To(n) IN
  /\ Serving(n, "get")
  /\ \E result \in {"ok", "failed"} :
       /\ Gets(m, result) /\ inflight' = inflight \ {m}
       /\ reader' = Told(m, result)
       /\ call' = [Answered(m, result) EXCEPT ![n].pc = IF result = "ok" THEN "data" ELSE "miss"]
  /\ UNCHANGED <<alive, plan, adrift, events>>

\* wait_ms is over.
ServeTimeout(n) ==
  /\ "timeout" \in Happens /\ Serving(n, "follow")
  /\ Serves(n, "miss") /\ calm' = FALSE
  /\ UNCHANGED <<alive, store, inflight, reader, plan, adrift, sound, events>>

\* What is left of the call of n when n goes on without an answer.  Only a handler that
\* waits may come to do more than answer; one that has not looked yet will look.  Two
\* adrift at the same place of a node count as one.
LeftOf(n) ==
  CASE Serving(n, "arrive") /\ call[n].wait -> {<<To(n), "peek">>}
    [] call[n].pc \in {"peek", "enter", "get"} -> {<<To(n), call[n].pc>>}
    [] OTHER -> {}

\* The caller's 30 s are over, or the connection breaks, or was never made: the
\* caller goes on.
Hangup(r) ==
  LET n == Home[r] IN
  /\ Event("hangup") /\ At(r, "asking")
  /\ Goto(r, "ask") /\ call' = [call EXCEPT ![n] = NoCall]
  /\ adrift' = adrift \cup LeftOf(n)
  /\ calm' = FALSE
  /\ UNCHANGED <<alive, store, inflight, plan, sound>>

Drifts(m, from, to) == <<m, from>> \in adrift /\ adrift' = (adrift \ {<<m, from>>}) \cup {<<m, to>>}
Sinks(m, from) == <<m, from>> \in adrift /\ adrift' = adrift \ {<<m, from>>}

\* A handler adrift on m comes to lead there, as Peek and ServeEnter have it.
DriftEnters(m) ==
  /\ \/ Drifts(m, "peek", "enter") /\ m \notin cached /\ UNCHANGED inflight
     \/ Drifts(m, "enter", "get") /\ m \notin inflight /\ inflight' = inflight \cup {m}
  /\ UNCHANGED <<alive, store, reader, plan, call, history>>

\* It has led, and its GET is answered.
DriftGet(m) ==
  /\ Sinks(m, "get")
  /\ \E result \in {"ok", "failed"} :
       /\ Gets(m, result) /\ inflight' = inflight \ {m}
       /\ reader' = Told(m, result) /\ call' = Answered(m, result)
  /\ UNCHANGED <<alive, plan, events>>

\* It answers nobody, or it is dropped before it leads.
DriftEnds(m) ==
  /\ Sinks(m, "peek") \/ Sinks(m, "enter")
  /\ UNCHANGED <<alive, store, inflight, reader, plan, call, history>>

\* Mutant: a dropped leader leaves its entry (no LeaderGuard).
DriftDropped_Leaks(m) ==
  /\ Sinks(m, "get") /\ sound' = FALSE
  /\ UNCHANGED <<alive, store, inflight, reader, plan, call, calm, events>>

\* It is dropped, when the transport hears that the caller is gone, while it leads: its
\* LeaderGuard takes the entry out and tells the followers of an error.
DriftDropped(m) ==
  /\ Sinks(m, "get") /\ sound' = FALSE
  /\ inflight' = inflight \ {m}
  /\ reader' = Told(m, "failed") /\ call' = Answered(m, "failed")
  /\ UNCHANGED <<alive, store, plan, calm, events>>

(***************************************************************************)
(* The other components                                                    *)
(***************************************************************************)

\* Membership changes what n takes to be alive.
ViewChange(n) ==
  /\ Event("view")
  /\ \E S \in SUBSET Others(n) : S # alive[n] /\ alive' = [alive EXCEPT ![n] = S]
  /\ UNCHANGED <<store, inflight, reader, plan, call, adrift, calm, sound>>

\* DiskCache evicts the chunk.
Evict(n) ==
  /\ Event("evict") /\ n \in cached
  /\ cached' = cached \ {n} /\ calm' = FALSE
  /\ UNCHANGED <<alive, staged, inserts, inflight, reader, plan, call, adrift, sound>>

(***************************************************************************)
(* The specification                                                       *)
(***************************************************************************)

Finished == (\A r \in Readers : At(r, "idle")) /\ events = MaxEvents /\ UNCHANGED vars

\* A step that no timer and no failure brings about.
Read(r) ==
  \/ Look(r) \/ Enter(r)
  \/ Rank(r) \/ AskYes(r) \/ AskMaybe(r) \/ AskElected(r) \/ GoToBlob(r)
  \/ BlobAnswers(r) \/ PeerAnswers(r)

Serve(n) == Arrive(n) \/ Peek(n) \/ ServeEnter(n) \/ ServeGet(n)

Drift(m) == DriftEnters(m) \/ DriftGet(m) \/ DriftEnds(m) \/ DriftDropped(m)

Next ==
  \/ \E r \in Readers : Begin(r) \/ Read(r) \/ Hangup(r)
  \/ \E n \in Nodes : Serve(n) \/ ServeTimeout(n) \/ Drift(n)
  \/ \E n \in Nodes : InsertEnds(n) \/ ViewChange(n) \/ Evict(n)
  \/ Finished

Spec == Init /\ [][Next]_vars

\* Tasks run, GETs answer, of a handler adrift too, and replies arrive.  No timer has to
\* fire and no insert has to end: ServeTimeout, Hangup and InsertEnds are not fair.
FairSpec ==
  /\ Spec
  /\ \A r \in Readers : WF_vars(Read(r))
  /\ \A n \in Nodes : WF_vars(Serve(n) \/ DriftGet(n))

(***************************************************************************)
(* Properties                                                              *)
(***************************************************************************)

ReaderLabels ==
  {"idle", "look", "look_origin", "enter", "enter_origin", "rank", "ask", "asking", "blob",
   "follow"}
HandlerLabels == {"none", "arrive", "peek", "enter", "get", "follow", "data", "miss"}
ReaderStates == [pc : ReaderLabels, got : {"nothing", "ok", "failed"}]
Plans == [alive : SUBSET Nodes, yes : SUBSET Nodes, maybe : SUBSET Nodes, elect : BOOLEAN]
CallStates == [to : Nodes \cup {NoNode}, wait : BOOLEAN, pc : HandlerLabels]

\* The state variables have their types.
TypeOK ==
  /\ alive \in [Nodes -> SUBSET Nodes]
  /\ cached \subseteq Nodes /\ staged \subseteq Nodes /\ inserts \in [Nodes -> Nat]
  /\ inflight \subseteq Nodes
  /\ reader \in [Readers -> ReaderStates]
  /\ plan \in [Nodes -> Plans]
  /\ call \in [Nodes -> CallStates] /\ \A n \in Nodes : Serving(n, "none") \/ To(n) \in Nodes
  /\ adrift \subseteq Nodes \X {"peek", "enter", "get"}
  /\ calm \in BOOLEAN /\ sound \in BOOLEAN /\ events \in Nat

Leads(r) == reader[r].pc \in {"rank", "ask", "asking", "blob"}

\* Who leads on n: readers there, and handlers there for other nodes' calls, the callers
\* still there or not.
Leaders(n) ==
  {<<"reader", r>> : r \in {r \in Readers : Home[r] = n /\ Leads(r)}}
    \cup {<<"handler", o>> : o \in {o \in Nodes : To(o) = n /\ Serving(o, "get")}}
    \cup {<<"adrift", h>> : h \in adrift \cap {<<n, "get">>}}

\* A node has one leader exactly while it has a singleflight entry, be it one of its
\* own reads or a call it serves, and whoever hangs up (LeaderGuard).
OneLeaderPerNode ==
  \A n \in Nodes : /\ Leaders(n) = {} <=> n \notin inflight
                   /\ \A k, l \in Leaders(n) : k = l

\* n's leader waits for a handler that itself waits for the leader of the node it is on.
WaitsFor(n, m) == Serving(n, "follow") /\ To(n) = m

\* Nodes with different views elect different leaders (hrw_top_id over what each takes
\* to be alive), and still never wait for each other in a circle: in every group some
\* node waits for none of the group.
NoWaitCycle ==
  \A S \in SUBSET Nodes : S # {} => \E n \in S : \A m \in S : ~WaitsFor(n, m)

Owner == CHOOSE n \in Nodes : \A o \in Nodes : Score[o] <= Score[n]

\* While the nodes see each other, their filters are right and nothing fails, only the
\* elected node goes to Azure, however the reads of all nodes fall (do_fetch's
\* election, and the piggyback on its singleflight).
OnlyOwnerGets ==
  StampedeWait /\ calm =>
    /\ \A r \in Readers : At(r, "blob") => Home[r] = Owner
    /\ \A n \in Nodes : Serving(n, "get") => To(n) = Owner

\* A wrong filter, a miss, a wait that times out, a peer that cannot be reached or an
\* eviction never fails a read: a read fails only after a failed GET or the drop of a
\* handler that led.
FailuresComeFromLeaders ==
  sound => \A r \in Readers : reader[r].got # "failed"

\* Every read ends, although no wait ever times out: neither stampede_wait_ms nor the
\* 30 s of a peer call is needed for fetch_chunk to return.
ReadsEnd == \A r \in Readers : ~At(r, "idle") ~> At(r, "idle")
=============================================================================
