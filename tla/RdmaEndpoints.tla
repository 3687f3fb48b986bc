---------------------------- MODULE RdmaEndpoints ----------------------------
(***************************************************************************)
(* The UCX runtime thread of one node (transport_ucx.rs): the table of     *)
(* endpoints to the peers with their in-flight counts, the pre-registered  *)
(* receive slab, and the tasks that share both.                            *)
(*                                                                         *)
(* run_runtime is one thread: what a task does between two awaits is one   *)
(* step here, and the tasks interleave at the awaits (the close of an      *)
(* endpoint, a slab permit, a send, a reply).  A task is a command of the  *)
(* node ("fetch", "health", "update") or the handler of a peer's request   *)
(* ("serve").  The select loop takes no command and drains no request      *)
(* while it closes the endpoints it has reaped.                            *)
(*                                                                         *)
(* An endpoint handle is a pointer of the UCX library, which may hand the  *)
(* same one out again once it is closed.  What UCX and the peer do (a send *)
(* fails, a reply comes or never comes, an endpoint reports an error, a    *)
(* close completes) is free.                                               *)
(***************************************************************************)
EXTENDS Integers, FiniteSets

CONSTANTS
  Peers, NoPeer,
  Addrs, NoAddr,    \* worker addresses a peer may have: a restart gives it a new one
  Eps, NoEp,        \* endpoint handles UCX may hand out at one time
  Slots, NoSlot,    \* the slots of the receive slab
  Tasks,
  Commands,         \* bound: the commands that come, with their peers and addresses
  Callers           \* bound: the peers whose requests come

ASSUME FiniteAssumption == IsFiniteSet(Slots) /\ IsFiniteSet(Tasks)
ASSUME CommandsAssumption == Commands \subseteq {"fetch", "health", "update"} \X Peers \X Addrs
ASSUME CallersAssumption == Callers \subseteq Peers
ASSUME NothingAssumption == NoPeer \notin Peers /\ NoAddr \notin Addrs /\ NoEp \notin Eps /\ NoSlot \notin Slots

VARIABLES
  peerEps,     \* RuntimeState.peer_eps: the endpoint of a peer, or NoEp
  addrBlobs,   \* RuntimeState.peer_addr_blobs: the address of a peer, or NoAddr
  ep,          \* the endpoint handles: EndpointSlot's fields, while open
  free,        \* RecvSlab.free
  permits,     \* RecvSlab.permits: those nobody holds
  loop,        \* run_runtime's select loop: "select", or "reap" while it closes
  reaping,     \* the endpoints reap_broken_eps has taken and not closed yet
  pc, arg,     \* where each task stands, and what it was called with
  held,        \* CheckedOutEndpoint.ep of the task, or NoEp
  closing,     \* the RemovedEndpoint the task is closing, or NoEp
  slot,        \* SlabSlot.idx of the task, or NoSlot
  sent, heard  \* the task's send and receive

tables == <<peerEps, addrBlobs, ep>>
slab == <<free, permits, slot>>
task == <<pc, arg, held, closing>>
wire == <<sent, heard>>
vars == <<tables, slab, task, wire, loop, reaping>>

Closed == [open |-> FALSE, addr |-> NoAddr, broken |-> FALSE, inFlight |-> 0]
NoArg == [op |-> "none", peer |-> NoPeer, addr |-> NoAddr]

Init ==
  /\ peerEps = [p \in Peers |-> NoEp]
  /\ addrBlobs = [p \in Peers |-> NoAddr]
  /\ ep = [e \in Eps |-> Closed]
  /\ free = Slots
  /\ permits = Cardinality(Slots)
  /\ loop = "select"
  /\ reaping = {}
  /\ pc = [t \in Tasks |-> "idle"]
  /\ arg = [t \in Tasks |-> NoArg]
  /\ held = [t \in Tasks |-> NoEp]
  /\ closing = [t \in Tasks |-> NoEp]
  /\ slot = [t \in Tasks |-> NoSlot]
  /\ sent = [t \in Tasks |-> "none"]
  /\ heard = [t \in Tasks |-> "none"]

\* Task t goes on to s; one that ends forgets its call.
Becomes(t, s) ==
  /\ pc' = [pc EXCEPT ![t] = s]
  /\ arg' = [arg EXCEPT ![t] = IF s = "idle" THEN NoArg ELSE @]

-----------------------------------------------------------------------------

\* cmd_rx.recv and dispatch_cmd: a fetch, a health probe or the address gossip has
\* learned of p is taken from the queue and a task is spawned for it.
Dispatch(t, op, p, a) ==
  /\ loop = "select" /\ pc[t] = "idle"
  /\ pc' = [pc EXCEPT ![t] = "run"]
  /\ arg' = [arg EXCEPT ![t] = [op |-> op, peer |-> p, addr |-> a]]
  /\ UNCHANGED <<tables, slab, held, closing, wire, loop, reaping>>

\* drain_inbound: a request of p is probed and its handler is spawned.
Inbound(t, p) ==
  /\ loop = "select" /\ pc[t] = "idle"
  /\ pc' = [pc EXCEPT ![t] = "run"]
  /\ arg' = [arg EXCEPT ![t] = [op |-> "serve", peer |-> p, addr |-> NoAddr]]
  /\ UNCHANGED <<tables, slab, held, closing, wire, loop, reaping>>

\* handle_inbound_request gives up: the receive or the decoding failed, or the length is
\* out of range; server_send_response does, when it has no address to reply to.
DropRequest(t) ==
  /\ pc[t] = "run" /\ arg[t].op = "serve"
  /\ Becomes(t, "idle")
  /\ UNCHANGED <<tables, slab, held, closing, wire, loop, reaping>>

-----------------------------------------------------------------------------
\* update_peer_addr_blob(p, a), as what it does to each variable.

Outdated(p, a) == peerEps[p] # NoEp /\ ep[peerEps[p]].addr # a

\* The endpoint it removes: one to another address that nobody uses.
Removed(p, a) ==
  IF Outdated(p, a) /\ ep[peerEps[p]].inFlight = 0 THEN peerEps[p] ELSE NoEp

\* One that is in use is only marked, for its last user to remove.
Marked(p, a) ==
  IF Outdated(p, a) /\ ep[peerEps[p]].inFlight > 0
    THEN [ep EXCEPT ![peerEps[p]].broken = TRUE] ELSE ep

Learn(p, a) == addrBlobs' = [addrBlobs EXCEPT ![p] = a]

\* Mutant: the endpoint that is closed stays in the table.
UpdatePeer_Kept(t) ==
  LET p == arg[t].peer
      r == Removed(p, arg[t].addr) IN
  /\ pc[t] = "run" /\ arg[t].op = "update"
  /\ Learn(p, arg[t].addr)
  /\ ep' = Marked(p, arg[t].addr)
  /\ closing' = [closing EXCEPT ![t] = r]
  /\ Becomes(t, IF r = NoEp THEN "idle" ELSE "closeAfter")
  /\ UNCHANGED <<peerEps, slab, held, wire, loop, reaping>>

\* update_peer: a task for the address gossip has learned of.
UpdatePeer(t) ==
  LET p == arg[t].peer
      r == Removed(p, arg[t].addr) IN
  /\ pc[t] = "run" /\ arg[t].op = "update"
  /\ Learn(p, arg[t].addr)
  /\ peerEps' = IF r = NoEp THEN peerEps ELSE [peerEps EXCEPT ![p] = NoEp]
  /\ ep' = Marked(p, arg[t].addr)
  /\ closing' = [closing EXCEPT ![t] = r]
  /\ Becomes(t, IF r = NoEp THEN "idle" ELSE "closeAfter")
  /\ UNCHANGED <<slab, held, wire, loop, reaping>>

-----------------------------------------------------------------------------
\* update_peer_addr_blob followed by checkout_endpoint, under one borrow: the start of
\* client_fetch, of client_health and of server_send_response.

\* The address the caller passes; a reply goes to the one on record.
Address(t) == IF arg[t].op = "serve" THEN addrBlobs[arg[t].peer] ELSE arg[t].addr

Starts(t) == pc[t] = "run" /\ arg[t].op # "update" /\ Address(t) # NoAddr

\* What a task does once it has its endpoint.
Goes(t) == [fetch |-> "slab", serve |-> "sending", health |-> "idle"][arg[t].op]

\* The endpoint is broken, or was just found to be to another address and in use: the
\* task ends with an error (the reply of a handler is dropped).
CheckoutRefused(t) ==
  LET p == arg[t].peer
      a == Address(t) IN
  /\ Starts(t)
  /\ peerEps[p] # NoEp /\ Removed(p, a) = NoEp
  /\ ep[peerEps[p]].broken \/ Outdated(p, a)
  /\ Learn(p, a)
  /\ ep' = Marked(p, a)
  /\ Becomes(t, "idle")
  /\ UNCHANGED <<peerEps, slab, held, closing, wire, loop, reaping>>

\* Mutant: a second user is not counted.
CheckoutShared_Uncounted(t) ==
  LET p == arg[t].peer
      e == peerEps[p] IN
  /\ Starts(t)
  /\ e # NoEp /\ ~Outdated(p, Address(t)) /\ ~ep[e].broken
  /\ Learn(p, Address(t))
  /\ held' = IF arg[t].op = "health" THEN held ELSE [held EXCEPT ![t] = e]
  /\ Becomes(t, Goes(t))
  /\ UNCHANGED <<ep, peerEps, slab, closing, wire, loop, reaping>>

\* The endpoint of the table is used.  A health probe releases it in the same step.
CheckoutShared(t) ==
  LET p == arg[t].peer
      e == peerEps[p] IN
  /\ Starts(t)
  /\ e # NoEp /\ ~Outdated(p, Address(t)) /\ ~ep[e].broken
  /\ Learn(p, Address(t))
  /\ IF arg[t].op = "health"
       THEN UNCHANGED <<ep, held>>
       ELSE /\ ep' = [ep EXCEPT ![e].inFlight = @ + 1]
            /\ held' = [held EXCEPT ![t] = e]
  /\ Becomes(t, Goes(t))
  /\ UNCHANGED <<peerEps, slab, closing, wire, loop, reaping>>

\* create_peer_ep: the peer has no endpoint, or lost it to the new address just now; then
\* the old one is closed before the new one is used.
CheckoutNew(t, e) ==
  LET p == arg[t].peer
      r == Removed(p, Address(t))
      keep == arg[t].op # "health" \/ r # NoEp IN
  /\ Starts(t)
  /\ peerEps[p] = NoEp \/ r # NoEp
  /\ ~ep[e].open
  /\ Learn(p, Address(t))
  /\ peerEps' = [peerEps EXCEPT ![p] = e]
  /\ ep' = [ep EXCEPT ![e] = [open |-> TRUE, addr |-> Address(t), broken |-> FALSE,
                              inFlight |-> IF keep THEN 1 ELSE 0]]
  /\ held' = [held EXCEPT ![t] = IF keep THEN e ELSE NoEp]
  /\ closing' = [closing EXCEPT ![t] = r]
  /\ Becomes(t, IF r = NoEp THEN Goes(t) ELSE "closeBefore")
  /\ UNCHANGED <<slab, wire, loop, reaping>>

\* ucp_ep_create fails: the task ends with the error, and an endpoint that was removed
\* for the new address is dropped without being closed.
CreateFails(t) ==
  LET p == arg[t].peer IN
  /\ Starts(t)
  /\ peerEps[p] = NoEp \/ Removed(p, Address(t)) # NoEp
  /\ Learn(p, Address(t))
  /\ peerEps' = [peerEps EXCEPT ![p] = NoEp]
  /\ Becomes(t, "idle")
  /\ UNCHANGED <<ep, slab, held, closing, wire, loop, reaping>>

-----------------------------------------------------------------------------

Decremented(n) == IF n > 0 THEN n - 1 ELSE 0

\* mark_peer_ep_broken (if err) and release_endpoint, on the handles h: both name the
\* peer, not the endpoint that was checked out.
Release(t, err, h) ==
  LET p == arg[t].peer
      e == peerEps[p]
      after == [h[e] EXCEPT !.inFlight = Decremented(@), !.broken = @ \/ err]
      last == after.inFlight = 0 /\ after.broken IN
  /\ ep' = [h EXCEPT ![e] = after]
  /\ peerEps' = IF last THEN [peerEps EXCEPT ![p] = NoEp] ELSE peerEps
  /\ closing' = [closing EXCEPT ![t] = IF last THEN e ELSE NoEp]
  /\ held' = [held EXCEPT ![t] = NoEp]
  /\ Becomes(t, IF last THEN "closeAfter" ELSE "idle")
  /\ UNCHANGED addrBlobs

\* close_removed_endpoint(removed_before): the task goes on with its new endpoint; a
\* health probe is done with it.
CloseBefore(t) ==
  LET h == [ep EXCEPT ![closing[t]] = Closed] IN
  /\ pc[t] = "closeBefore"
  /\ IF arg[t].op = "health"
       THEN Release(t, FALSE, h)
       ELSE /\ ep' = h
            /\ closing' = [closing EXCEPT ![t] = NoEp]
            /\ Becomes(t, Goes(t))
            /\ UNCHANGED <<peerEps, addrBlobs, held>>
  /\ UNCHANGED <<slab, wire, loop, reaping>>

\* close_removed_endpoint(removed_after), and the close of update_peer.
CloseAfter(t) ==
  /\ pc[t] = "closeAfter"
  /\ ep' = [ep EXCEPT ![closing[t]] = Closed]
  /\ closing' = [closing EXCEPT ![t] = NoEp]
  /\ Becomes(t, "idle")
  /\ UNCHANGED <<peerEps, addrBlobs, slab, held, wire, loop, reaping>>

-----------------------------------------------------------------------------

\* Mutant: the slot is read off the free list and left there.
TakeSlot_Peeks(t, i) ==
  /\ pc[t] = "slab"
  /\ permits > 0 /\ i \in free
  /\ permits' = permits - 1
  /\ slot' = [slot EXCEPT ![t] = i]
  /\ sent' = [sent EXCEPT ![t] = "posted"]
  /\ heard' = [heard EXCEPT ![t] = "posted"]
  /\ pc' = [pc EXCEPT ![t] = "join"]
  /\ UNCHANGED <<free, tables, arg, held, closing, loop, reaping>>

\* client_fetch_inner: RecvSlab::checkout, then the receive is posted and the request sent.
TakeSlot(t, i) ==
  /\ pc[t] = "slab"
  /\ permits > 0 /\ i \in free
  /\ permits' = permits - 1
  /\ free' = free \ {i}
  /\ slot' = [slot EXCEPT ![t] = i]
  /\ sent' = [sent EXCEPT ![t] = "posted"]
  /\ heard' = [heard EXCEPT ![t] = "posted"]
  /\ pc' = [pc EXCEPT ![t] = "join"]
  /\ UNCHANGED <<tables, arg, held, closing, loop, reaping>>

\* UCX completes the send of the request (send_cb).
RequestSent(t, r) ==
  /\ sent[t] = "posted"
  /\ sent' = [sent EXCEPT ![t] = r]
  /\ UNCHANGED <<tables, slab, task, heard, loop, reaping>>

\* UCX completes the receive (recv_tag_cb): the peer's answer is a chunk, a miss, or an
\* error reply or one that decode_response refuses.
ReplyComes(t, r) ==
  /\ heard[t] = "posted" /\ sent[t] # "failed"
  /\ heard' = [heard EXCEPT ![t] = r]
  /\ UNCHANGED <<tables, slab, task, sent, loop, reaping>>

\* The peer is gone or dropped the request, or the request was never sent: there will be
\* no reply.  The receive names a tag and no endpoint, so nothing ends it.
ReplyLost(t) ==
  /\ heard[t] = "posted"
  /\ heard' = [heard EXCEPT ![t] = "lost"]
  /\ UNCHANGED <<tables, slab, task, sent, loop, reaping>>

\* Mutant: a fetch that fails forgets its slot.
FetchDone_SlotForgotten(t) ==
  LET err == sent[t] = "failed" \/ heard[t] = "error" IN
  /\ pc[t] = "join" /\ sent[t] # "posted" /\ heard[t] \notin {"posted", "lost"}
  /\ Release(t, err, ep)
  /\ free' = IF err THEN free ELSE free \cup {slot[t]}
  /\ permits' = IF err THEN permits ELSE permits + 1
  /\ slot' = [slot EXCEPT ![t] = NoSlot]
  /\ sent' = [sent EXCEPT ![t] = "none"]
  /\ heard' = [heard EXCEPT ![t] = "none"]
  /\ UNCHANGED <<loop, reaping>>

\* Mutant: an error returns before release_endpoint.
FetchDone_ReturnsEarly(t) ==
  LET err == sent[t] = "failed" \/ heard[t] = "error" IN
  /\ pc[t] = "join" /\ sent[t] # "posted" /\ heard[t] \notin {"posted", "lost"}
  /\ IF err THEN /\ ep' = [ep EXCEPT ![held[t]].broken = TRUE]
                 /\ held' = [held EXCEPT ![t] = NoEp]
                 /\ Becomes(t, "idle")
                 /\ UNCHANGED <<peerEps, addrBlobs, closing>>
            ELSE Release(t, FALSE, ep)
  /\ free' = free \cup {slot[t]}
  /\ permits' = permits + 1
  /\ slot' = [slot EXCEPT ![t] = NoSlot]
  /\ sent' = [sent EXCEPT ![t] = "none"]
  /\ heard' = [heard EXCEPT ![t] = "none"]
  /\ UNCHANGED <<loop, reaping>>

\* join! has both: the slot goes back (SlabSlot::drop), and the rest of client_fetch.
FetchDone(t) ==
  /\ pc[t] = "join" /\ sent[t] # "posted" /\ heard[t] \notin {"posted", "lost"}
  /\ Release(t, sent[t] = "failed" \/ heard[t] = "error", ep)
  /\ free' = free \cup {slot[t]}
  /\ permits' = permits + 1
  /\ slot' = [slot EXCEPT ![t] = NoSlot]
  /\ sent' = [sent EXCEPT ![t] = "none"]
  /\ heard' = [heard EXCEPT ![t] = "none"]
  /\ UNCHANGED <<loop, reaping>>

\* The reply of a handler is sent or fails, and the rest of server_send_response.
ReplySent(t, err) ==
  /\ pc[t] = "sending"
  /\ Release(t, err, ep)
  /\ UNCHANGED <<slab, wire, loop, reaping>>

-----------------------------------------------------------------------------

\* endpoint_error_cb.
EndpointError(e) ==
  /\ ep[e].open
  /\ ep' = [ep EXCEPT ![e].broken = TRUE]
  /\ UNCHANGED <<peerEps, addrBlobs, slab, task, wire, loop, reaping>>

\* Mutant: broken endpoints are reaped with users.
Tick_InUse ==
  LET stale == {p \in Peers : peerEps[p] # NoEp /\ ep[peerEps[p]].broken} IN
  /\ loop = "select"
  /\ stale # {}
  /\ peerEps' = [p \in Peers |-> IF p \in stale THEN NoEp ELSE peerEps[p]]
  /\ reaping' = {peerEps[p] : p \in stale}
  /\ loop' = "reap"
  /\ UNCHANGED <<addrBlobs, ep, slab, task, wire>>

\* The safety tick: reap_broken_eps takes the broken endpoints nobody uses.
Tick ==
  LET stale == {p \in Peers : /\ peerEps[p] # NoEp
                              /\ ep[peerEps[p]].inFlight = 0 /\ ep[peerEps[p]].broken} IN
  /\ loop = "select"
  /\ stale # {}
  /\ peerEps' = [p \in Peers |-> IF p \in stale THEN NoEp ELSE peerEps[p]]
  /\ reaping' = {peerEps[p] : p \in stale}
  /\ loop' = "reap"
  /\ UNCHANGED <<addrBlobs, ep, slab, task, wire>>

\* reap_broken_eps closes them one after the other, then the loop selects again.
Reap(e) ==
  /\ e \in reaping
  /\ ep' = [ep EXCEPT ![e] = Closed]
  /\ reaping' = reaping \ {e}
  /\ loop' = IF reaping' = {} THEN "select" ELSE "reap"
  /\ UNCHANGED <<peerEps, addrBlobs, slab, task, wire>>

-----------------------------------------------------------------------------

\* A step of task t that waits for nobody but UCX.
Step(t) ==
  \/ UpdatePeer(t) \/ CheckoutRefused(t) \/ CheckoutShared(t) \/ CreateFails(t)
  \/ \E e \in Eps : CheckoutNew(t, e)
  \/ DropRequest(t)
  \/ CloseBefore(t) \/ CloseAfter(t)
  \/ FetchDone(t)
  \/ \E err \in BOOLEAN : ReplySent(t, err)

\* UCX settles the request and the reply of a fetch.
Settles(t) ==
  \/ \E r \in {"ok", "failed"} : RequestSent(t, r)
  \/ \E r \in {"chunk", "miss", "error"} : ReplyComes(t, r)
  \/ ReplyLost(t)

Next ==
  \/ \E t \in Tasks :
       \/ \E c \in Commands : Dispatch(t, c[1], c[2], c[3])
       \/ \E p \in Callers : Inbound(t, p)
       \/ Step(t)
       \/ \E i \in Slots : TakeSlot(t, i)
       \/ Settles(t)
  \/ \E e \in Eps : EndpointError(e) \/ Reap(e)
  \/ Tick

Spec == Init /\ [][Next]_vars

\* The runtime thread polls every ready task, UCX settles every operation, and the tokio
\* semaphore is first come first served: a waiting fetch gets a permit if they keep coming.
Fairness ==
  /\ \A t \in Tasks : /\ WF_vars(Step(t) \/ Settles(t))
                      /\ SF_vars(\E i \in Slots : TakeSlot(t, i))
  /\ WF_vars(Tick)
  /\ WF_vars(\E e \in Eps : Reap(e))

FairSpec == Spec /\ Fairness

-----------------------------------------------------------------------------

\* The state variables have their types.
TypeOK ==
  /\ peerEps \in [Peers -> Eps \cup {NoEp}]
  /\ addrBlobs \in [Peers -> Addrs \cup {NoAddr}]
  /\ ep \in [Eps -> [open : BOOLEAN, addr : Addrs \cup {NoAddr}, broken : BOOLEAN, inFlight : Nat]]
  /\ free \in SUBSET Slots /\ permits \in Nat
  /\ loop \in {"select", "reap"} /\ reaping \in SUBSET Eps
  /\ pc \in [Tasks -> {"idle", "run", "closeBefore", "slab", "join", "sending", "closeAfter"}]
  /\ arg \in [Tasks -> [op : {"none", "fetch", "health", "update", "serve"},
                        peer : Peers \cup {NoPeer}, addr : Addrs \cup {NoAddr}]]
  /\ held \in [Tasks -> Eps \cup {NoEp}] /\ closing \in [Tasks -> Eps \cup {NoEp}]
  /\ slot \in [Tasks -> Slots \cup {NoSlot}]
  /\ sent \in [Tasks -> {"none", "posted", "ok", "failed"}]
  /\ heard \in [Tasks -> {"none", "posted", "chunk", "miss", "error", "lost"}]

Users(e) == {t \in Tasks : held[t] = e}

\* in_flight counts exactly the tasks that have the endpoint checked out: release_endpoint
\* decrements the right one, and never twice.
InFlightExact ==
  \A p \in Peers : peerEps[p] # NoEp =>
    ep[peerEps[p]].inFlight = Cardinality(Users(peerEps[p]))

\* An endpoint a task has checked out stays open, and stays its peer's endpoint, until the
\* task releases it: nothing is sent on one that was closed or handed out again.
HeldIsLive ==
  \A t \in Tasks : held[t] # NoEp => /\ peerEps[arg[t].peer] = held[t]
                                    /\ ep[held[t]].open

\* What an endpoint belongs to: a peer, or a task or the select loop that will close it.
Owners(e) ==
  {<<"peer", p>> : p \in {p \in Peers : peerEps[p] = e}}
    \cup {<<"task", t>> : t \in {t \in Tasks : closing[t] = e}}
    \cup {<<"loop", x>> : x \in reaping \cap {e}}

\* An endpoint is closed at most once, and not before it left the table: it belongs to
\* one peer, or to one closer, and as long as it belongs to any, it is open.
OneOwner ==
  \A e \in Eps : /\ Owners(e) # {} => ep[e].open
                 /\ \A k, l \in Owners(e) : k = l

\* The permits and the free list agree, so a permit always comes with a slot, and no two
\* fetches receive into the same one.
SlabExact ==
  /\ permits = Cardinality(free)
  /\ \A t \in Tasks : slot[t] # NoSlot => slot[t] \notin free
  /\ \A t, u \in Tasks : slot[t] = slot[u] /\ slot[t] # NoSlot => t = u

Lost(t) == heard[t] = "lost"

\* What never ends: a fetch that has lost its reply (the receive has no timeout), and one
\* that waits for the slab when such fetches keep all of its slots.
Stuck(t) ==
  \/ Lost(t)
  \/ pc[t] = "slab" /\ \A i \in Slots : \E u \in Tasks : slot[u] = i /\ Lost(u)

\* Every command and every handler the runtime spawned ends, whatever closes, sends and
\* slab permits it waits for, unless its reply is lost or lost replies keep the slab.
TasksEnd ==
  \A t \in Tasks : pc[t] # "idle" ~> (pc[t] = "idle" \/ Stuck(t))

Broken(p) == peerEps[p] # NoEp /\ ep[peerEps[p]].broken

\* A broken endpoint leaves the table, so that the next call makes a new one, unless a
\* fetch that uses it is stuck: one lost reply of one peer is enough to keep the broken
\* endpoint of another, when it keeps the last slot of the slab.
BrokenReplaced ==
  \A p \in Peers :
    Broken(p) ~> (~Broken(p) \/ \E u \in Users(peerEps[p]) : Stuck(u))
=============================================================================
