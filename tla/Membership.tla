------------------------------ MODULE Membership ------------------------------
(***************************************************************************)
(* Who is in the cluster (src/cluster.rs): every node's member list, the   *)
(* push-pull exchanges its gossip loop makes, refutation by incarnation,   *)
(* suspicion by age, crashes and restarts, possibly with another           *)
(* configuration.                                                          *)
(*                                                                         *)
(* A handler's sections over the list's lock are one step.  An exchange is *)
(* two messages, and either may be late or lost.  The nodes' clocks agree. *)
(* The advertised bloom_version is in module PeerIndex.                    *)
(***************************************************************************)
EXTENDS Integers, FiniteSets

CONSTANTS
  Nodes,
  Seeds,          \* the configured seeds of each node
  Hashes,         \* the values cluster_hash takes
  Hash0,          \* the one every node starts with
  Timeout,        \* HEARTBEAT_TIMEOUT_SECS, in ticks
  MaxTime,        \* bound: the last tick
  LastCrash,      \* bound: no node crashes or starts after this tick
  Mortal,         \* bound: the nodes that may crash
  MaxCrashes,     \* bound: crashes
  MaxOpen,        \* bound: exchanges under way at once
  MaxLost         \* bound: exchanges with a running node that fail

ASSUME SeedsAssumption == Seeds \in [Nodes -> SUBSET Nodes] /\ \A n \in Nodes : n \notin Seeds[n]
ASSUME HashAssumption == Hash0 \in Hashes
ASSUME TimeAssumption == Timeout \in Nat /\ MaxTime \in Nat /\ LastCrash \in Nat
                         /\ MaxCrashes \in Nat /\ MaxOpen \in Nat /\ MaxLost \in Nat

VARIABLES
  now,        \* unix_now()
  up,         \* the nodes that are running
  boot,       \* which process of the node is, or was last: its addresses
  hash,       \* its cluster_hash
  inc,        \* Membership.me_incarnation
  members,    \* Inner.members: what each node knows of each
  toJoin,     \* the seeds run_gossip_loop has yet to contact first
  call,       \* each node's exchange under way: [pc, to, pkt]
  died,       \* when it crashed last (history)
  crashes,    \* crashes so far
  lost        \* failed exchanges so far

self == <<boot, hash, inc>>
history == <<died, crashes, lost>>
vars == <<now, up, boot, hash, inc, members, toJoin, call, died, crashes, lost>>

\* NodeState::rank; 0 for a node that is not in the list.
Rank == [Unknown |-> 0, Alive |-> 1, Suspect |-> 2, Dead |-> 3]

\* No entry: older than any.
Unknown == [inc |-> 0, seen |-> 0, state |-> "Unknown", boot |-> 0, hash |-> Hash0]

NoPacket == [from |-> Unknown, members |-> [m \in Nodes |-> Unknown]]
NoCall(n) == [pc |-> "idle", to |-> n, pkt |-> NoPacket]

Known(n, m) == members[n][m].state # "Unknown"

\* me_snapshot, with the incarnation i.
Me(n, i) == [inc |-> i, seen |-> now, state |-> "Alive", boot |-> boot[n], hash |-> hash[n]]

\* The list of a new process.
Alone(n, t, b, h) ==
  [m \in Nodes |-> IF m = n THEN [inc |-> 1, seen |-> t, state |-> "Alive", boot |-> b, hash |-> h]
                   ELSE Unknown]

Init ==
  /\ now = 0
  /\ up = Nodes
  /\ boot = [n \in Nodes |-> 1]
  /\ hash = [n \in Nodes |-> Hash0]
  /\ inc = [n \in Nodes |-> 1]
  /\ members = [n \in Nodes |-> Alone(n, 0, 1, Hash0)]
  /\ toJoin = Seeds
  /\ call = [n \in Nodes |-> NoCall(n)]
  /\ died = [n \in Nodes |-> 0]
  /\ crashes = 0 /\ lost = 0

-----------------------------------------------------------------------------
(* Membership::merge, touch_peer and sweep *)

\* Mutant: the severity of the state decides before its recency.
Supersedes_RankFirst(r, old) ==
  r.inc > old.inc \/ (r.inc = old.inc /\ Rank[r.state] > Rank[old.state])

\* should_update; an entry for a node that is not in the list always goes in.
Supersedes(r, old) ==
  \/ r.inc > old.inc
  \/ r.inc = old.inc /\ r.seen > old.seen
  \/ r.inc = old.inc /\ r.seen = old.seen /\ Rank[r.state] > Rank[old.state]

\* What the list of b has of a node after the entry r: of another cluster, r is dropped.
Take(b, old, r) == IF r.hash = hash[b] /\ Supersedes(r, old) THEN r ELSE old

\* me_incarnation after the entry r about b itself.
Refuted(b, r) ==
  IF r.inc > inc[b] THEN r.inc + 1
  ELSE IF r.inc = inc[b] /\ r.state # "Alive" THEN inc[b] + 1
  ELSE inc[b]

\* merge(members ++ [from]) of a packet from s.  What s says of b itself only makes
\* b refute it and renew its own entry.  (When s = b, from adds nothing to that.)
Merge(b, s, pkt) ==
  [m \in Nodes |->
     IF m = b
     THEN IF pkt.members[b].state = "Unknown" THEN members[b][b] ELSE Me(b, Refuted(b, pkt.members[b]))
     ELSE LET r == Take(b, members[b][m], pkt.members[m])
          IN  IF m = s THEN Take(b, r, pkt.from) ELSE r]

\* touch_peer.
Touch(list, s) ==
  IF list[s].state = "Unknown" THEN list
  ELSE [list EXCEPT ![s] = [inc |-> list[s].inc, seen |-> now, state |-> "Alive",
                            boot |-> list[s].boot, hash |-> list[s].hash]]

\* Mutant: the new incarnation is in the list but not stored.
Hear_NotStored(b, s, pkt) ==
  /\ inc' = inc
  /\ members' = [members EXCEPT ![b] = Touch(Merge(b, s, pkt), s)]

\* What both ends of an exchange do with the other's packet.
Hear(b, s, pkt) ==
  /\ inc' = [inc EXCEPT ![b] = Refuted(b, pkt.members[b])]
  /\ members' = [members EXCEPT ![b] = Touch(Merge(b, s, pkt), s)]

\* The state sweep gives an entry: by the age of last_seen_unix alone.
StateByAge(r) ==
  IF r.state = "Unknown" THEN "Unknown"
  ELSE IF now - r.seen > 2 * Timeout THEN "Dead"
  ELSE IF now - r.seen > Timeout THEN "Suspect"
  ELSE "Alive"

\* sweep, of the list of n.
Swept(n) ==
  [m \in Nodes |-> IF m = n THEN members[n][n]
                   ELSE LET r == members[n][m]
                        IN  [inc |-> r.inc, seen |-> r.seen, state |-> StateByAge(r),
                             boot |-> r.boot, hash |-> r.hash]]

\* members_alive.
AliveIn(n, list) == {m \in Nodes \ {n} : list[m].state = "Alive" /\ list[m].hash = hash[n]}

-----------------------------------------------------------------------------
(* run_gossip_loop, gossip_with and the /cluster/sync handler *)

\* gossip_with sends the list of n to m.
Send(n, m, list) ==
  /\ Cardinality({k \in Nodes : call[k].pc # "idle"}) < MaxOpen
  /\ call' = [call EXCEPT ![n] = [pc |-> "sent", to |-> m,
                               pkt |-> [from |-> Me(n, inc[n]), members |-> list]]]

\* The loop's first contact with each of its seeds.
Join(n, m) ==
  /\ n \in up /\ call[n].pc = "idle" /\ m \in toJoin[n]
  /\ Send(n, m, members[n])
  /\ toJoin' = [toJoin EXCEPT ![n] = @ \ {m}]
  /\ UNCHANGED <<now, up, self, members, history>>

\* Mutant: a node that knows no one alive waits to be contacted.
Targets_NoSeeds(n, list) == AliveIn(n, list)

\* Whom a round may choose: someone alive, a seed only when there is no one.
Targets(n, list) == IF AliveIn(n, list) = {} THEN Seeds[n] ELSE AliveIn(n, list)

\* A tick of the loop: sweep, choose, send.  With no one to contact, m is n itself.
Round(n, m) ==
  /\ n \in up /\ call[n].pc = "idle" /\ toJoin[n] = {}
  /\ m \in IF Targets(n, Swept(n)) = {} THEN {n} ELSE Targets(n, Swept(n))
  /\ IF m = n THEN UNCHANGED call ELSE Send(n, m, Swept(n))
  /\ members' = [members EXCEPT ![n] = Swept(n)]
  /\ UNCHANGED <<now, up, self, toJoin, history>>

\* Mutant: the handler does not compare cluster_hash.
Sync_AnyHash(n, b) ==
  /\ call[n].pc = "sent" /\ call[n].to = b /\ b \in up
  /\ inc' = [inc EXCEPT ![b] = Refuted(b, call[n].pkt.members[b])]
  /\ members' = [members EXCEPT ![b] = [Merge(b, n, call[n].pkt) EXCEPT ![n] = call[n].pkt.from]]
  /\ call' = [call EXCEPT ![n] = [pc |-> "reply", to |-> b,
                                  pkt |-> [from |-> Me(b, inc'[b]), members |-> members'[b]]]]
  /\ UNCHANGED <<now, up, boot, hash, toJoin, history>>

\* b handles the request of n and replies with its own list.
Sync(n, b) ==
  /\ call[n].pc = "sent" /\ call[n].to = b /\ b \in up
  /\ call[n].pkt.from.hash = hash[b]
  /\ Hear(b, n, call[n].pkt)
  /\ call' = [call EXCEPT ![n] = [pc |-> "reply", to |-> b,
                                  pkt |-> [from |-> Me(b, inc'[b]), members |-> members'[b]]]]
  /\ UNCHANGED <<now, up, boot, hash, toJoin, history>>

\* b answers 409: the request is of another cluster.
Refuse(n, b) ==
  /\ call[n].pc = "sent" /\ call[n].to = b /\ b \in up
  /\ call[n].pkt.from.hash # hash[b]
  /\ call' = [call EXCEPT ![n] = NoCall(n)]
  /\ UNCHANGED <<now, up, self, members, toJoin, history>>

\* n hears the reply.  (It is of the cluster of n, or b would have refused.)
Receive(n, b) ==
  /\ call[n].pc = "reply" /\ call[n].to = b /\ n \in up
  /\ Hear(n, b, call[n].pkt)
  /\ call' = [call EXCEPT ![n] = NoCall(n)]
  /\ UNCHANGED <<now, up, boot, hash, toJoin, history>>

\* The exchange fails: a message is lost, or too late for the timeout.
Lost(n) ==
  /\ call[n].pc # "idle" /\ lost < MaxLost
  /\ call' = [call EXCEPT ![n] = NoCall(n)]
  /\ lost' = lost + 1
  /\ UNCHANGED <<now, up, self, members, toJoin, died, crashes>>

\* The exchange fails: one of the two is down.
Unreachable(n) ==
  /\ \/ call[n].pc = "sent" /\ call[n].to \notin up
     \/ call[n].pc = "reply" /\ n \notin up
  /\ call' = [call EXCEPT ![n] = NoCall(n)]
  /\ UNCHANGED <<now, up, self, members, toJoin, history>>

-----------------------------------------------------------------------------

\* A request of a node that dies may still arrive.
Crash(n) ==
  /\ n \in up \cap Mortal /\ now <= LastCrash /\ crashes < MaxCrashes
  /\ up' = up \ {n}
  /\ died' = [died EXCEPT ![n] = now]
  /\ crashes' = crashes + 1
  /\ UNCHANGED <<now, self, members, toJoin, call, lost>>

\* main: a new process, with nothing of the old one but its id.
Start(n, h) ==
  /\ n \notin up /\ now <= LastCrash
  /\ up' = up \cup {n}
  /\ boot' = [boot EXCEPT ![n] = @ + 1]
  /\ hash' = [hash EXCEPT ![n] = h]
  /\ inc' = [inc EXCEPT ![n] = 1]
  /\ members' = [members EXCEPT ![n] = Alone(n, now, boot[n] + 1, h)]
  /\ toJoin' = [toJoin EXCEPT ![n] = Seeds[n]]
  /\ call' = [call EXCEPT ![n] = NoCall(n)]
  /\ UNCHANGED <<now, history>>

\* An exchange lasts 5 s at most, so it sees one tick of this clock at most.
Tick ==
  /\ now < MaxTime
  /\ \A n \in Nodes : call[n].pc # "idle" => call[n].pkt.from.seen = now
  /\ now' = now + 1
  /\ UNCHANGED <<up, self, members, toJoin, call, history>>

\* gossip_with is called.
Begin(n, m) == Join(n, m) \/ Round(n, m)

\* It goes on or fails.
Continue(n) ==
  \/ \E m \in Nodes : Sync(n, m) \/ Refuse(n, m) \/ Receive(n, m)
  \/ Lost(n)
  \/ Unreachable(n)

Next ==
  \/ \E n, m \in Nodes : Begin(n, m)
  \/ \E n \in Nodes : Continue(n) \/ Crash(n)
  \/ \E n \in Nodes, h \in Hashes : Start(n, h)
  \/ Tick

Spec == Init /\ [][Next]_vars

\* Time passes, the loop ticks and an exchange ends, by its timeout if need be; the
\* random choice of a target leaves none out for ever.
Fairness ==
  /\ WF_vars(Tick)
  /\ \A n \in Nodes : WF_vars(Continue(n)) /\ WF_vars(Begin(n, n))
  /\ \A n \in Nodes, m \in Nodes : m # n => SF_vars(Begin(n, m))

FairSpec == Spec /\ Fairness

-----------------------------------------------------------------------------
(* Properties *)

Entries ==
  [inc : Nat, seen : Nat, state : {"Unknown", "Alive", "Suspect", "Dead"}, boot : Nat, hash : Hashes]

Lists == [Nodes -> Entries]

\* The values the state takes; in its own list a node is always there and Alive.
TypeOK ==
  /\ now \in Nat /\ crashes \in Nat /\ lost \in Nat
  /\ up \in SUBSET Nodes
  /\ boot \in [Nodes -> Nat] /\ hash \in [Nodes -> Hashes] /\ inc \in [Nodes -> Nat]
  /\ died \in [Nodes -> Nat]
  /\ members \in [Nodes -> Lists]
  /\ \A n \in Nodes : members[n][n].state = "Alive"
  /\ toJoin \in [Nodes -> SUBSET Nodes]
  /\ call \in [Nodes -> [pc : {"idle", "sent", "reply"}, to : Nodes,
                         pkt : [from : Entries, members : Lists]]]

\* An entry about the running process of m is not ahead of m's own incarnation.
NotAhead(r, m) == r.boot = boot[m] => r.inc <= inc[m]

\* Only a node raises its incarnation (merge, the self entry): no list and no message
\* has one for its running process that it has not taken itself.
OwnIncarnation ==
  \A n, m \in Nodes :
    /\ NotAhead(members[n][m], m)
    /\ call[n].pc # "idle" => NotAhead(call[n].pkt.members[m], m)

\* The two checks of cluster_hash (the handler's and merge's) keep clusters apart: a
\* node lists no process of another configuration, and none that has changed since.
OwnCluster == \A n, m \in Nodes : Known(n, m) => members[n][m].hash = hash[n]

\* (incarnation, last_seen_unix) of an entry.
NotOlder(r, old) == r.inc > old.inc \/ (r.inc = old.inc /\ r.seen >= old.seen)

\* What a process knows of another never gets older: a stale answer, whatever state it
\* claims, does not undo fresher news (the rules should_update states).
NewsAdvances ==
  [][\A n, m \in Nodes : n # m /\ boot'[n] = boot[n] => NotOlder(members'[n][m], members[n][m])]_vars

\* Nodes that stay up with one configuration come to list each other Alive, whatever
\* was lost, suspected or restarted before.
Converges ==
  <>[](up = Nodes /\ \A n, m \in Nodes : hash[n] = hash[m])
    => <>[](\A n, m \in Nodes : members[n][m].state = "Alive")

\* A node that is down is not kept alive by hearsay: only its own last messages, at
\* most a tick late, made touch_peer or merge take it for alive, so 2 * Timeout + 2
\* ticks after a crash every sweep takes it for Dead.
NoGhost == \A n, m \in Nodes : m \notin up => members[n][m].seen <= died[m] + 1
=============================================================================
