--------------------------- MODULE MembershipProofs ---------------------------
(***************************************************************************)
(* Proofs about module Membership, for any nodes, seeds, timeout and       *)
(* bounds: types, incarnations, clusters kept apart, news that only        *)
(* advances, and no node kept alive by hearsay.                            *)
(***************************************************************************)
EXTENDS Membership, TLAPS

USE SeedsAssumption, HashAssumption, TimeAssumption

Packets == [from : Entries, members : Lists]

LEMMA UnknownType == Unknown \in Entries /\ NoPacket \in Packets
BY Zenon DEF Unknown, Entries, NoPacket, Packets, Lists

LEMMA NoCallType ==
  ASSUME NEW n \in Nodes
  PROVE  NoCall(n) \in [pc : {"idle", "sent", "reply"}, to : Nodes, pkt : Packets]
BY UnknownType, Zenon DEF NoCall

\* merge and touch_peer keep the list a list.
LEMMA HeardType ==
  ASSUME TypeOK, NEW b \in Nodes, NEW s \in Nodes, NEW pkt \in Packets
  PROVE  /\ Refuted(b, pkt.members[b]) \in Nat
         /\ Merge(b, s, pkt) \in Lists
         /\ Touch(Merge(b, s, pkt), s) \in Lists
         /\ Touch(Merge(b, s, pkt), s)[b].state = "Alive"
<1> DEFINE mg == Merge(b, s, pkt)
<1>1. /\ pkt.from \in Entries /\ pkt.members \in [Nodes -> Entries]
      /\ members[b] \in [Nodes -> Entries] /\ members[b][b].state = "Alive"
      /\ hash \in [Nodes -> Hashes] /\ boot \in [Nodes -> Nat] /\ inc \in [Nodes -> Nat] /\ now \in Nat
  BY Zenon DEF TypeOK, Packets, Lists
<1>2. Refuted(b, pkt.members[b]) \in Nat
  BY <1>1 DEF Refuted, Entries
<1>3. ASSUME NEW m \in Nodes PROVE mg[m] \in Entries
  <2>1. Me(b, Refuted(b, pkt.members[b])) \in Entries
    BY <1>1, <1>2, Zenon DEF Me, Entries
  <2>2. Take(b, members[b][m], pkt.members[m]) \in Entries
    BY <1>1, Zenon DEF Take
  <2>3. Take(b, Take(b, members[b][m], pkt.members[m]), pkt.from) \in Entries
    BY <1>1, <2>2, Zenon DEF Take
  <2> QED BY <1>1, <2>1, <2>2, <2>3 DEF Merge
<1>4. mg \in [Nodes -> Entries] /\ mg[b].state = "Alive"
  <2>1. mg = [m \in Nodes |-> mg[m]]
    BY Zenon DEF Merge
  <2>2. mg[b].state = "Alive"
    BY <1>1, Zenon DEF Merge, Me
  <2> QED BY <1>3, <2>1, <2>2
<1> HIDE DEF mg
<1>5. Touch(mg, s) \in [Nodes -> Entries] /\ Touch(mg, s)[b].state = "Alive"
  BY <1>1, <1>4, Zenon DEF Touch, Entries
<1> QED BY <1>2, <1>4, <1>5 DEF mg, Lists

LEMMA SweptType ==
  ASSUME TypeOK, NEW n \in Nodes
  PROVE  Swept(n) \in Lists /\ Swept(n)[n].state = "Alive"
<1>1. members[n] \in [Nodes -> Entries] /\ members[n][n].state = "Alive" /\ now \in Nat
  BY Zenon DEF TypeOK, Lists
<1>2. ASSUME NEW m \in Nodes PROVE Swept(n)[m] \in Entries
  BY <1>1, Zenon DEF Swept, StateByAge, Entries
<1>3. Swept(n) = [m \in Nodes |-> Swept(n)[m]] /\ Swept(n)[n].state = "Alive"
  BY <1>1, Zenon DEF Swept
<1> QED BY <1>2, <1>3 DEF Lists

LEMMA SentType ==
  ASSUME TypeOK, NEW n \in Nodes, NEW m \in Nodes, NEW list \in Lists, Send(n, m, list)
  PROVE  call' \in [Nodes -> [pc : {"idle", "sent", "reply"}, to : Nodes, pkt : Packets]]
<1>1. Me(n, inc[n]) \in Entries
  BY Zenon DEF Me, Entries, TypeOK
<1> QED BY <1>1 DEF Send, TypeOK, Packets

LEMMA HearType ==
  ASSUME TypeOK, NEW b \in Nodes, NEW s \in Nodes, NEW pkt \in Packets, Hear(b, s, pkt)
  PROVE  /\ inc' \in [Nodes -> Nat] /\ members' \in [Nodes -> Lists]
         /\ \A n \in Nodes : members'[n][n].state = "Alive"
BY HeardType DEF Hear, TypeOK

LEMMA InitType == Init => TypeOK
BY NoCallType, UnknownType DEF Init, TypeOK, Alone, Lists, Entries, Packets

LEMMA StepType == TypeOK /\ [Next]_vars => TypeOK'
<1> SUFFICES ASSUME TypeOK, [Next]_vars PROVE TypeOK'
  BY Zenon
<1>0. call \in [Nodes -> [pc : {"idle", "sent", "reply"}, to : Nodes, pkt : Packets]]
  BY Zenon DEF TypeOK, Packets
<1>1. ASSUME NEW n \in Nodes, NEW m \in Nodes, Join(n, m) PROVE TypeOK'
  BY <1>1, SentType, Zenon DEF Join, TypeOK, self, history, Packets
<1>2. ASSUME NEW n \in Nodes, NEW m \in Nodes, Round(n, m) PROVE TypeOK'
  <2>1. call' \in [Nodes -> [pc : {"idle", "sent", "reply"}, to : Nodes, pkt : Packets]]
    BY <1>0, <1>2, SentType, SweptType, Zenon DEF Round
  <2> QED BY <1>2, <2>1, SweptType, Zenon DEF Round, TypeOK, self, history, Packets
<1>3. ASSUME NEW n \in Nodes, NEW m \in Nodes, Sync(n, m) PROVE TypeOK'
  <2>1. /\ inc' \in [Nodes -> Nat] /\ members' \in [Nodes -> Lists]
        /\ \A k \in Nodes : members'[k][k].state = "Alive"
    BY <1>0, <1>3, HearType, Zenon DEF Sync
  <2>2. Me(m, inc'[m]) \in Entries
    BY <2>1, Zenon DEF Me, Entries, TypeOK
  <2>3. call' \in [Nodes -> [pc : {"idle", "sent", "reply"}, to : Nodes, pkt : Packets]]
    BY <1>0, <1>3, <2>1, <2>2, Zenon DEF Sync, Packets
  <2> QED BY <1>3, <2>1, <2>3 DEF Sync, TypeOK, history, Packets
<1>4. ASSUME NEW n \in Nodes, NEW m \in Nodes, Refuse(n, m) PROVE TypeOK'
  BY <1>4, NoCallType, Zenon DEF Refuse, TypeOK, self, history, Packets
<1>5. ASSUME NEW n \in Nodes, NEW m \in Nodes, Receive(n, m) PROVE TypeOK'
  <2>1. /\ inc' \in [Nodes -> Nat] /\ members' \in [Nodes -> Lists]
        /\ \A k \in Nodes : members'[k][k].state = "Alive"
    BY <1>0, <1>5, HearType, Zenon DEF Receive
  <2> QED BY <1>5, <2>1, NoCallType, Zenon DEF Receive, TypeOK, history, Packets
<1>6. ASSUME NEW n \in Nodes, Lost(n) PROVE TypeOK'
  BY <1>6, NoCallType DEF Lost, TypeOK, self, Packets
<1>7. ASSUME NEW n \in Nodes, Unreachable(n) PROVE TypeOK'
  BY <1>7, NoCallType, Zenon DEF Unreachable, TypeOK, self, history, Packets
<1>8. ASSUME NEW n \in Nodes, Crash(n) PROVE TypeOK'
  BY <1>8 DEF Crash, TypeOK, self
<1>9. ASSUME NEW n \in Nodes, NEW h \in Hashes, Start(n, h) PROVE TypeOK'
  <2>1. Alone(n, now, boot[n] + 1, h) \in Lists /\ Alone(n, now, boot[n] + 1, h)[n].state = "Alive"
    BY UnknownType DEF Alone, Lists, Entries, TypeOK
  <2> QED BY <1>9, <2>1, NoCallType DEF Start, TypeOK, history, Packets
<1>10. ASSUME Tick PROVE TypeOK'
  BY <1>10 DEF Tick, TypeOK, self, history
<1>11. ASSUME UNCHANGED vars PROVE TypeOK'
  BY <1>11, Zenon DEF vars, TypeOK
<1> QED
  BY <1>1, <1>2, <1>3, <1>4, <1>5, <1>6, <1>7, <1>8, <1>9, <1>10, <1>11, Zenon DEF Next, Begin, Continue

\* Every variable keeps its type, and a node never lists itself as anything but Alive.
THEOREM TypeCorrect == Spec => []TypeOK
BY InitType, StepType, PTL DEF Spec

-----------------------------------------------------------------------------
(* Where an entry comes from *)

\* r is the entry e, or e touched now.
TouchOf(r, e) ==
  /\ r.inc = e.inc /\ r.boot = e.boot /\ r.hash = e.hash
  /\ r = e \/ (r.seen = now /\ r.state = "Alive" /\ e.state # "Unknown")

\* What merge makes of the entry of b about another node m: one of the three it has,
\* not older than its own, and another than its own only if of its cluster.
LEMMA MergedOther ==
  ASSUME TypeOK, NEW b \in Nodes, NEW s \in Nodes, NEW pkt \in Packets,
         NEW m \in Nodes, m # b
  PROVE  LET e == Merge(b, s, pkt)[m]
         IN  /\ \/ e = members[b][m] \/ e = pkt.members[m] \/ (m = s /\ e = pkt.from)
             /\ NotOlder(e, members[b][m])
             /\ e # members[b][m] => e.hash = hash[b]
<1> DEFINE old == members[b][m]
           r == Take(b, old, pkt.members[m])
           e == Take(b, r, pkt.from)
<1>1. pkt.from \in Entries /\ pkt.members[m] \in Entries /\ old \in Entries
  BY SMTT(30) DEF TypeOK, Packets, Lists
<1>2. r \in Entries /\ NotOlder(r, old) /\ (r # old => r = pkt.members[m] /\ r.hash = hash[b])
  BY <1>1, SMTT(30) DEF Take, Supersedes, NotOlder, Entries
<1>3. NotOlder(e, r) /\ (e # r => e = pkt.from /\ e.hash = hash[b]) /\ e \in Entries
  <2> HIDE DEF r
  <2> QED BY <1>1, <1>2 DEF Take, Supersedes, NotOlder, Entries
<1>4. Merge(b, s, pkt)[m] = IF m = s THEN e ELSE r
  BY Zenon DEF Merge
<1> HIDE DEF r, e
<1>5. NotOlder(e, old)
  BY <1>1, <1>2, <1>3 DEF NotOlder, Entries
<1> QED BY <1>2, <1>3, <1>4, <1>5

\* What merge makes of the entry of b about itself.
LEMMA MergedSelf ==
  ASSUME TypeOK, NEW b \in Nodes, NEW s \in Nodes, NEW pkt \in Packets
  PROVE  \/ Merge(b, s, pkt)[b] = members[b][b]
         \/ Merge(b, s, pkt)[b] = Me(b, Refuted(b, pkt.members[b]))
BY Zenon DEF Merge

LEMMA Touched ==
  ASSUME TypeOK, NEW list \in Lists, NEW s \in Nodes, NEW m \in Nodes
  PROVE  /\ TouchOf(Touch(list, s)[m], list[m])
         /\ m # s => Touch(list, s)[m] = list[m]
BY Zenon DEF Touch, TouchOf, Lists, Entries, TypeOK

LEMMA RefutedGrows ==
  ASSUME TypeOK, NEW b \in Nodes, NEW r \in Entries
  PROVE  Refuted(b, r) \in Nat /\ Refuted(b, r) >= inc[b]
BY DEF Refuted, Entries, TypeOK

-----------------------------------------------------------------------------
(* Incarnations *)

\* Whom the packet of an exchange is from.
Sender(n) == IF call[n].pc = "reply" THEN call[n].to ELSE n

\* No entry about a node is of the future: of a time after t, of a process after the
\* one it runs, or of an incarnation of that one it has not taken.
Sane(r, t, b, i) == r.seen <= t /\ r.boot <= b /\ (r.boot = b => r.inc <= i)

SaneInv ==
  \A n, m \in Nodes :
    /\ Sane(members[n][m], now, boot[m], inc[m])
    /\ Sane(call[n].pkt.members[m], now, boot[m], inc[m])
    /\ Sane(call[n].pkt.from, now, boot[Sender(n)], inc[Sender(n)])

LEMMA InitSane == Init => SaneInv
BY DEF Init, SaneInv, Sane, Alone, NoCall, NoPacket, Unknown, Sender

LEMMA SaneUnknown ==
  ASSUME NEW t \in Nat, NEW b \in Nat, NEW i \in Nat
  PROVE  Sane(Unknown, t, b, i)
BY DEF Sane, Unknown

LEMMA SaneHear ==
  ASSUME TypeOK, SaneInv, NEW b \in Nodes, NEW s \in Nodes, NEW pkt \in Packets,
         Hear(b, s, pkt), UNCHANGED <<now, boot>>,
         Sane(pkt.from, now, boot[s], inc[s]),
         \A m \in Nodes : Sane(pkt.members[m], now, boot[m], inc[m])
  PROVE  /\ \A n, m \in Nodes : Sane(members'[n][m], now, boot[m], inc'[m])
         /\ \A r \in Entries, m \in Nodes :
              Sane(r, now, boot[m], inc[m]) => Sane(r, now, boot[m], inc'[m])
         /\ inc'[b] \in Nat
<1> DEFINE mg == Merge(b, s, pkt)
           me == Me(b, Refuted(b, pkt.members[b]))
<1>1. /\ pkt.members \in [Nodes -> Entries] /\ members \in [Nodes -> [Nodes -> Entries]]
      /\ inc \in [Nodes -> Nat] /\ boot \in [Nodes -> Nat] /\ now \in Nat
      /\ mg \in [Nodes -> Entries] /\ Touch(mg, s) \in [Nodes -> Entries]
  BY HeardType, Zenon DEF TypeOK, Packets, Lists
<1>2. /\ inc' = [inc EXCEPT ![b] = Refuted(b, pkt.members[b])]
      /\ members' = [members EXCEPT ![b] = Touch(mg, s)]
  BY Zenon DEF Hear
<1>3. Refuted(b, pkt.members[b]) \in Nat /\ Refuted(b, pkt.members[b]) >= inc[b]
  BY <1>1, RefutedGrows, Zenon
<1>4. ASSUME NEW r \in Entries, NEW m \in Nodes, Sane(r, now, boot[m], inc[m])
      PROVE  Sane(r, now, boot[m], inc'[m])
  BY <1>1, <1>2, <1>3, <1>4 DEF Sane, Entries
<1>5. Sane(me, now, boot[b], inc'[b])
  BY <1>1, <1>2, <1>3 DEF Sane, Me
<1>6. ASSUME NEW m \in Nodes PROVE Sane(mg[m], now, boot[m], inc'[m])
  <2>1. CASE m = b
    <3>1. mg[b] = members[b][b] \/ mg[b] = me
      BY MergedSelf, Zenon
    <3> HIDE DEF mg, me
    <3> QED BY <1>1, <1>4, <1>5, <2>1, <3>1 DEF SaneInv
  <2>2. CASE m # b
    <3>1. mg[m] = members[b][m] \/ mg[m] = pkt.members[m] \/ (m = s /\ mg[m] = pkt.from)
      BY MergedOther, <2>2
    <3> HIDE DEF mg
    <3>2. Sane(mg[m], now, boot[m], inc[m])
      BY <3>1, Zenon DEF SaneInv
    <3> QED BY <1>1, <3>2, <1>4
  <2> QED BY <2>1, <2>2
<1>7. ASSUME NEW m \in Nodes PROVE Sane(Touch(mg, s)[m], now, boot[m], inc'[m])
  <2>1. TouchOf(Touch(mg, s)[m], mg[m])
    BY <1>1, Touched, Zenon DEF Lists
  <2> HIDE DEF mg
  <2> QED BY <2>1, <1>6, <1>1 DEF TouchOf, Sane
<1> HIDE DEF mg
<1>8. ASSUME NEW n \in Nodes, NEW m \in Nodes PROVE Sane(members'[n][m], now, boot[m], inc'[m])
  <2>1. members'[n][m] = IF n = b THEN Touch(mg, s)[m] ELSE members[n][m]
    BY <1>1, <1>2, Zenon
  <2>2. members[n][m] \in Entries
    BY <1>1
  <2> QED BY <2>1, <2>2, <1>4, <1>7 DEF SaneInv
<1>9. inc'[b] \in Nat
  BY <1>1, <1>2, <1>3, Zenon
<1> QED BY <1>4, <1>8, <1>9

LEMMA SaneSend ==
  ASSUME TypeOK, SaneInv, NEW n \in Nodes, NEW m \in Nodes, NEW list \in Lists, Send(n, m, list),
         UNCHANGED <<now, boot, inc>>,
         \A k \in Nodes : Sane(list[k], now, boot[k], inc[k]),
         \A k, j \in Nodes : Sane(members'[k][j], now, boot[j], inc[j])
  PROVE  SaneInv'
<1> DEFINE sent == [pc |-> "sent", to |-> m, pkt |-> [from |-> Me(n, inc[n]), members |-> list]]
<1>1. Sane(Me(n, inc[n]), now, boot[n], inc[n])
  BY DEF Me, Sane, TypeOK
<1>2. call' = [call EXCEPT ![n] = sent]
  BY Zenon DEF Send
<1>3. sent.pc = "sent" /\ sent.pkt.from = Me(n, inc[n]) /\ sent.pkt.members = list
  BY Zenon
<1>4. \A k \in Nodes : call'[k] = IF k = n THEN sent ELSE call[k]
  BY <1>2, Zenon DEF TypeOK
<1> HIDE DEF sent
<1>5. \A k, j \in Nodes : Sane(call'[k].pkt.members[j], now, boot[j], inc[j])
  BY <1>3, <1>4, Zenon DEF SaneInv
<1>6. \A k \in Nodes : Sane(call'[k].pkt.from, now, boot[Sender(k)'], inc[Sender(k)'])
  BY <1>1, <1>3, <1>4, Zenon DEF SaneInv, Sender
<1> QED BY <1>5, <1>6, SMTT(30) DEF SaneInv

LEMMA StepSane == TypeOK /\ SaneInv /\ [Next]_vars => SaneInv'
<1> SUFFICES ASSUME TypeOK, SaneInv, [Next]_vars PROVE SaneInv'
  BY Zenon
<1>0. /\ call \in [Nodes -> [pc : {"idle", "sent", "reply"}, to : Nodes, pkt : Packets]]
      /\ inc \in [Nodes -> Nat] /\ boot \in [Nodes -> Nat] /\ now \in Nat
      /\ members \in [Nodes -> [Nodes -> Entries]]
      /\ \A n \in Nodes : call[n].pkt.from \in Entries /\ call[n].pkt.members \in [Nodes -> Entries]
  BY Zenon DEF TypeOK, Packets, Lists
<1>a. \A t, b, i \in Nat : Sane(Unknown, t, b, i)
  BY SaneUnknown, Zenon
<1>b. \A n \in Nodes : Sender(n) \in Nodes
  BY <1>0, Zenon DEF Sender
<1>c. \A n, m \in Nodes : NoCall(n).pkt.from = Unknown /\ NoCall(n).pkt.members[m] = Unknown
                         /\ NoCall(n).pc = "idle"
  BY Zenon DEF NoCall, NoPacket
<1>1. ASSUME NEW n \in Nodes, NEW m \in Nodes, Join(n, m) PROVE SaneInv'
  BY <1>0, <1>1, SaneSend, Zenon DEF Join, SaneInv, self, Lists
<1>2. ASSUME NEW n \in Nodes, NEW m \in Nodes, Round(n, m) PROVE SaneInv'
  <2>1. \A k \in Nodes : Swept(n)[k].seen = members[n][k].seen /\ Swept(n)[k].boot = members[n][k].boot
                        /\ Swept(n)[k].inc = members[n][k].inc
    BY Zenon DEF Swept
  <2>2. \A k \in Nodes : Sane(Swept(n)[k], now, boot[k], inc[k])
    BY <2>1, Zenon DEF SaneInv, Sane
  <2>3. \A k, j \in Nodes : Sane(members'[k][j], now, boot[j], inc[j])
    BY <1>0, <1>2, <2>2, Zenon DEF Round, SaneInv
  <2>4. UNCHANGED <<now, boot, inc>> /\ (call' = call \/ Send(n, m, Swept(n)))
    BY <1>2, Zenon DEF Round, self
  <2>5. CASE call' = call
    BY <2>3, <2>4, <2>5, Zenon DEF SaneInv, Sender
  <2> QED BY <2>2, <2>3, <2>4, <2>5, SweptType, SaneSend
<1>3. ASSUME NEW n \in Nodes, NEW m \in Nodes, Sync(n, m) PROVE SaneInv'
  <2>1. Sender(n) = n /\ UNCHANGED <<now, boot>> /\ Hear(m, n, call[n].pkt)
    BY <1>3, Zenon DEF Sync, Sender
  <2>2. /\ \A k, j \in Nodes : Sane(members'[k][j], now, boot[j], inc'[j])
        /\ \A r \in Entries, j \in Nodes :
             Sane(r, now, boot[j], inc[j]) => Sane(r, now, boot[j], inc'[j])
        /\ inc'[m] \in Nat
    BY <1>0, <2>1, SaneHear, Zenon DEF SaneInv
  <2>3. Sane(Me(m, inc'[m]), now, boot[m], inc'[m])
    BY <1>0, <2>2 DEF Me, Sane
  <2>4. call' = [call EXCEPT ![n] = [pc |-> "reply", to |-> m,
                                     pkt |-> [from |-> Me(m, inc'[m]), members |-> members'[m]]]]
    BY <1>3, Zenon DEF Sync
  <2> QED BY <1>0, <1>b, <2>1, <2>2, <2>3, <2>4, SMTT(30) DEF SaneInv, Sender
<1>4. ASSUME NEW n \in Nodes, NEW m \in Nodes, Refuse(n, m) PROVE SaneInv'
  BY <1>0, <1>a, <1>b, <1>c, <1>4, SMTT(30) DEF Refuse, SaneInv, Sender, self, history
<1>5. ASSUME NEW n \in Nodes, NEW m \in Nodes, Receive(n, m) PROVE SaneInv'
  <2>1. Sender(n) = m /\ UNCHANGED <<now, boot>> /\ Hear(n, m, call[n].pkt)
    BY <1>5, Zenon DEF Receive, Sender
  <2>2. /\ \A k, j \in Nodes : Sane(members'[k][j], now, boot[j], inc'[j])
        /\ \A r \in Entries, j \in Nodes :
             Sane(r, now, boot[j], inc[j]) => Sane(r, now, boot[j], inc'[j])
        /\ inc'[n] \in Nat
    BY <1>0, <2>1, SaneHear, Zenon DEF SaneInv
  <2>3. call' = [call EXCEPT ![n] = NoCall(n)]
    BY <1>5, Zenon DEF Receive
  <2>4. \A k, j \in Nodes : Sane(call'[k].pkt.members[j], now, boot[j], inc'[j])
    BY <1>0, <1>c, <2>2, <2>3, UnknownType, <1>a, SMTT(30) DEF SaneInv
  <2>5. \A k \in Nodes : Sane(call'[k].pkt.from, now, boot[Sender(k)'], inc'[Sender(k)'])
    BY <1>0, <1>b, <1>c, <2>2, <2>3, UnknownType, <1>a, SMTT(30) DEF SaneInv, Sender
  <2> QED BY <2>1, <2>2, <2>4, <2>5 DEF SaneInv
<1>6. ASSUME NEW n \in Nodes, Lost(n) PROVE SaneInv'
  <2>1. call' = [call EXCEPT ![n] = NoCall(n)] /\ UNCHANGED <<now, boot, inc, members>>
    BY <1>6, Zenon DEF Lost, self
  <2> QED BY <1>0, <1>a, <1>b, <1>c, <2>1, SMTT(30) DEF SaneInv, Sender
<1>7. ASSUME NEW n \in Nodes, Unreachable(n) PROVE SaneInv'
  BY <1>0, <1>a, <1>b, <1>c, <1>7, SMTT(30) DEF Unreachable, SaneInv, Sender, self, history
<1>8. ASSUME NEW n \in Nodes, Crash(n) PROVE SaneInv'
  BY <1>8, Zenon DEF Crash, SaneInv, Sender, self
<1>9. ASSUME NEW n \in Nodes, NEW h \in Hashes, Start(n, h) PROVE SaneInv'
  <2>1. /\ boot' = [boot EXCEPT ![n] = boot[n] + 1] /\ inc' = [inc EXCEPT ![n] = 1] /\ now' = now
        /\ members' = [members EXCEPT ![n] = Alone(n, now, boot[n] + 1, h)]
        /\ call' = [call EXCEPT ![n] = NoCall(n)]
    BY <1>9, Zenon DEF Start
  <2>2. \A r \in Entries, j \in Nodes :
          Sane(r, now, boot[j], inc[j]) => Sane(r, now, boot'[j], inc'[j])
    BY <1>0, <2>1 DEF Sane, Entries
  <2>3. \A j \in Nodes : Sane(Alone(n, now, boot[n] + 1, h)[j], now, boot'[j], inc'[j])
    BY <1>0, <2>1 DEF Alone, Sane, Unknown
  <2>4. \A k, j \in Nodes : Sane(members'[k][j], now, boot'[j], inc'[j])
    BY <1>0, <2>1, <2>2, <2>3, SMTT(30) DEF SaneInv
  <2>5. \A k, j \in Nodes : Sane(call'[k].pkt.members[j], now, boot'[j], inc'[j])
    BY <1>0, <1>a, <1>c, <2>1, <2>2, UnknownType, SMTT(30) DEF SaneInv
  <2>6. \A k \in Nodes : Sane(call'[k].pkt.from, now, boot'[Sender(k)'], inc'[Sender(k)'])
    BY <1>0, <1>a, <1>b, <1>c, <2>1, <2>2, UnknownType, SMTT(30) DEF SaneInv, Sender
  <2> QED BY <2>1, <2>4, <2>5, <2>6 DEF SaneInv
<1>10. ASSUME Tick PROVE SaneInv'
  BY <1>0, <1>10, SMTT(30) DEF Tick, SaneInv, Sane, Sender, self, history, Entries
<1>11. ASSUME UNCHANGED vars PROVE SaneInv'
  BY <1>11, Zenon DEF vars, SaneInv, Sender
<1> QED
  BY <1>1, <1>2, <1>3, <1>4, <1>5, <1>6, <1>7, <1>8, <1>9, <1>10, <1>11, Zenon DEF Next, Begin, Continue

\* Only a node raises its incarnation, whatever is late, lost or restarted.
THEOREM IncarnationsOwned == Spec => []OwnIncarnation
<1>1. SaneInv => OwnIncarnation
  BY Zenon DEF SaneInv, OwnIncarnation, NotAhead, Sane
<1> QED BY <1>1, InitType, StepType, InitSane, StepSane, PTL DEF Spec

-----------------------------------------------------------------------------
(* One step on the lists *)

\* A step leaves the lists alone, sweeps one, makes one hear a packet, or starts one anew.
Sweeps(n) == members' = [members EXCEPT ![n] = Swept(n)] /\ UNCHANGED <<now, up, self, died>>

Hears(b, s, pkt) ==
  /\ b \in up /\ Hear(b, s, pkt)
  /\ UNCHANGED <<now, up, boot, hash, died>>

LEMMA ListSteps ==
  ASSUME TypeOK, [Next]_vars
  PROVE  \/ UNCHANGED <<members, boot, hash>>
         \/ \E n \in Nodes : Sweeps(n)
         \/ \E n, m \in Nodes : Sync(n, m) /\ Hears(m, n, call[n].pkt)
         \/ \E n, m \in Nodes : Receive(n, m) /\ Hears(n, m, call[n].pkt)
         \/ \E n \in Nodes, h \in Hashes : Start(n, h)
<1>1. ASSUME NEW n \in Nodes, NEW m \in Nodes, Join(n, m) PROVE UNCHANGED <<members, boot, hash>>
  BY <1>1, Zenon DEF Join, self
<1>2. ASSUME NEW n \in Nodes, NEW m \in Nodes, Round(n, m) PROVE Sweeps(n)
  BY <1>2, Zenon DEF Round, Sweeps, history
<1>3. ASSUME NEW n \in Nodes, NEW m \in Nodes, Sync(n, m) PROVE Hears(m, n, call[n].pkt)
  BY <1>3, Zenon DEF Sync, Hears, history
<1>4. ASSUME NEW n \in Nodes, NEW m \in Nodes, Refuse(n, m) PROVE UNCHANGED <<members, boot, hash>>
  BY <1>4, Zenon DEF Refuse, self
<1>5. ASSUME NEW n \in Nodes, NEW m \in Nodes, Receive(n, m) PROVE Hears(n, m, call[n].pkt)
  BY <1>5, Zenon DEF Receive, Hears, history
<1>6. ASSUME NEW n \in Nodes, Lost(n) \/ Unreachable(n) \/ Crash(n)
      PROVE  UNCHANGED <<members, boot, hash>>
  BY <1>6, Zenon DEF Lost, Unreachable, Crash, self
<1>7. ASSUME Tick \/ UNCHANGED vars PROVE UNCHANGED <<members, boot, hash>>
  BY <1>7, Zenon DEF Tick, vars, self
<1> QED BY <1>1, <1>2, <1>3, <1>4, <1>5, <1>6, <1>7 DEF Next, Begin, Continue

LEMMA SweptEntry ==
  ASSUME NEW n \in Nodes, NEW m \in Nodes
  PROVE  /\ Swept(n)[m].inc = members[n][m].inc /\ Swept(n)[m].seen = members[n][m].seen
         /\ Swept(n)[m].hash = members[n][m].hash
         /\ members[n][m].state = "Unknown" => Swept(n)[m].state = "Unknown"
BY Zenon DEF Swept, StateByAge

\* What hearing a packet makes of the entry of b about m.
LEMMA HeardEntry ==
  ASSUME TypeOK, NEW b \in Nodes, NEW s \in Nodes, NEW pkt \in Packets, Hear(b, s, pkt),
         NEW n \in Nodes, NEW m \in Nodes
  PROVE  /\ n # b => members'[n][m] = members[n][m]
         /\ n = b => TouchOf(members'[n][m], Merge(b, s, pkt)[m])
         /\ n = b /\ m # s => members'[n][m] = Merge(b, s, pkt)[m]
         /\ Merge(b, s, pkt)[m] \in Entries
<1>1. Merge(b, s, pkt) \in Lists /\ Merge(b, s, pkt) \in [Nodes -> Entries]
  BY HeardType, Zenon DEF Lists
<1>2. members'[n] = IF n = b THEN Touch(Merge(b, s, pkt), s) ELSE members[n]
  BY Zenon DEF Hear, TypeOK
<1> QED BY <1>1, <1>2, Touched

-----------------------------------------------------------------------------
(* Clusters *)

LEMMA InitCluster == Init => OwnCluster
BY DEF Init, OwnCluster, Known, Alone, Unknown

LEMMA StepCluster == TypeOK /\ OwnCluster /\ [Next]_vars => OwnCluster'
<1> SUFFICES ASSUME TypeOK, OwnCluster, [Next]_vars PROVE OwnCluster'
  BY Zenon
<1>0. /\ members \in [Nodes -> [Nodes -> Entries]] /\ \A n \in Nodes : call[n].pkt \in Packets
      /\ hash \in [Nodes -> Hashes]
  BY Zenon DEF TypeOK, Lists, Packets
<1>1. CASE UNCHANGED <<members, boot, hash>>
  BY <1>1, Zenon DEF OwnCluster, Known
<1>2. ASSUME NEW n \in Nodes, Sweeps(n) PROVE OwnCluster'
  BY <1>0, <1>2, SweptEntry DEF Sweeps, OwnCluster, Known, self
<1>3. ASSUME NEW b \in Nodes, NEW s \in Nodes, NEW pkt \in Packets, Hears(b, s, pkt) PROVE OwnCluster'
  <2>1. hash' = hash /\ Hear(b, s, pkt)
    BY <1>3, Zenon DEF Hears
  <2>2. ASSUME NEW m \in Nodes, members'[b][m].state # "Unknown" PROVE members'[b][m].hash = hash[b]
    <3> DEFINE e == Merge(b, s, pkt)[m]
    <3>1. TouchOf(members'[b][m], e) /\ e \in Entries
      BY <2>1, HeardEntry, Zenon
    <3>2. CASE m = b
      <4>1. e = members[b][b] \/ e = Me(b, Refuted(b, pkt.members[b]))
        BY <3>2, MergedSelf, Zenon
      <4>2. e.hash = hash[b]
        <5>1. members[b][b].hash = hash[b]
          BY Zenon DEF OwnCluster, Known, TypeOK
        <5> QED BY <4>1, <5>1 DEF Me
      <4> QED BY <3>1, <4>2 DEF TouchOf
    <3>3. CASE m # b
      <4>1. e # members[b][m] => e.hash = hash[b]
        BY <3>3, MergedOther
      <4> HIDE DEF e
      <4>2. e.state # "Unknown" => e.hash = hash[b]
        BY <4>1, ZenonT(40) DEF OwnCluster, Known
      <4> QED BY <2>2, <3>1, <4>2 DEF TouchOf
    <3> QED BY <3>2, <3>3
  <2>3. \A n, m \in Nodes : n # b => members'[n][m] = members[n][m]
    BY <2>1, HeardEntry
  <2> QED BY <2>1, <2>2, <2>3, SMTT(30) DEF OwnCluster, Known
<1>4. ASSUME NEW n \in Nodes, NEW h \in Hashes, Start(n, h) PROVE OwnCluster'
  BY <1>0, <1>4, Zenon DEF Start, Alone, Unknown, OwnCluster, Known
<1> QED BY <1>0, <1>1, <1>2, <1>3, <1>4, ListSteps

\* A node lists no process of another cluster.
THEOREM ClustersApart == Spec => []OwnCluster
BY InitType, StepType, InitCluster, StepCluster, PTL DEF Spec

-----------------------------------------------------------------------------
(* News *)

Advances ==
  \A n, m \in Nodes : n # m /\ boot'[n] = boot[n] => NotOlder(members'[n][m], members[n][m])

LEMMA StepAdvances == TypeOK /\ SaneInv /\ [Next]_vars => Advances
<1> SUFFICES ASSUME TypeOK, SaneInv, [Next]_vars PROVE Advances
  BY Zenon
<1>0. /\ members \in [Nodes -> [Nodes -> Entries]] /\ \A n \in Nodes : call[n].pkt \in Packets
      /\ now \in Nat /\ boot \in [Nodes -> Nat]
  BY Zenon DEF TypeOK, Lists, Packets
<1>a. \A n, m \in Nodes : members[n][m].inc \in Nat /\ members[n][m].seen \in Nat
                        /\ members[n][m].seen <= now
  BY <1>0 DEF Entries, SaneInv, Sane
<1>1. CASE UNCHANGED <<members, boot, hash>>
  BY <1>1, <1>a DEF Advances, NotOlder
<1>2. ASSUME NEW n \in Nodes, Sweeps(n) PROVE Advances
  BY <1>0, <1>2, <1>a, SweptEntry DEF Sweeps, Advances, NotOlder
<1>3. ASSUME NEW b \in Nodes, NEW s \in Nodes, NEW pkt \in Packets, Hears(b, s, pkt) PROVE Advances
  <2>1. Hear(b, s, pkt)
    BY <1>3, Zenon DEF Hears
  <2>2. ASSUME NEW m \in Nodes, m # b PROVE NotOlder(members'[b][m], members[b][m])
    <3> DEFINE e == Merge(b, s, pkt)[m]
    <3>1. TouchOf(members'[b][m], e) /\ e \in Entries
      BY <2>1, HeardEntry, Zenon
    <3>2. NotOlder(e, members[b][m])
      BY <2>2, MergedOther, Zenon
    <3> HIDE DEF e
    <3> QED BY <1>0, <1>a, <3>1, <3>2 DEF TouchOf, NotOlder, Entries
  <2>3. \A n, m \in Nodes : n # b => members'[n][m] = members[n][m]
    BY <2>1, HeardEntry, SMTT(30)
  <2> QED BY <1>a, <2>2, <2>3 DEF Advances, NotOlder
<1>4. ASSUME NEW n \in Nodes, NEW h \in Hashes, Start(n, h) PROVE Advances
  <2>1. \A k \in Nodes : boot'[k] = boot[k] => members'[k] = members[k]
    BY <1>0, <1>4 DEF Start
  <2> QED BY <2>1, <1>a DEF Advances, NotOlder
<1> QED BY <1>0, <1>1, <1>2, <1>3, <1>4, ListSteps

\* Stale answers never undo fresher news.
THEOREM NewsOnlyAdvances == Spec => NewsAdvances
<1>1. TypeOK /\ SaneInv /\ [Next]_vars => [Advances]_vars
  BY StepAdvances, Zenon
<1>2. Spec => [][Advances]_vars
  BY <1>1, InitType, StepType, InitSane, StepSane, PTL DEF Spec
<1> QED BY <1>2, PTL DEF NewsAdvances, Advances

-----------------------------------------------------------------------------
(* The down *)

\* An exchange is at most a tick old, and what its packet says of a node that is down
\* is from before it went down; so are the lists, but for a last message a tick late.
GhostInv ==
  /\ \A n \in Nodes : call[n].pc # "idle" => /\ call[n].pkt.from.seen + 1 >= now
                                             /\ Sender(n) \notin up =>
                                                  call[n].pkt.from.seen <= died[Sender(n)]
  /\ \A n, m \in Nodes : m \notin up => /\ members[n][m].seen <= died[m] + 1
                                       /\ call[n].pkt.members[m].seen <= died[m] + 1

LEMMA InitGhost == Init => GhostInv
BY SMTT(30) DEF Init, GhostInv, NoCall, NoPacket, Unknown, Alone

LEMMA GhostHear ==
  ASSUME TypeOK, SaneInv, GhostInv, NEW b \in Nodes, NEW s \in Nodes, NEW pkt \in Packets,
         Hears(b, s, pkt), pkt.from.seen + 1 >= now,
         s \notin up => pkt.from.seen <= died[s],
         \A m \in Nodes : m \notin up => pkt.members[m].seen <= died[m] + 1
  PROVE  \A n, m \in Nodes : m \notin up => members'[n][m].seen <= died[m] + 1
<1>0. Hear(b, s, pkt) /\ b \in up
  BY Zenon DEF Hears
<1>1. ASSUME NEW m \in Nodes, m \notin up PROVE members'[b][m].seen <= died[m] + 1
  <2> DEFINE e == Merge(b, s, pkt)[m]
  <2>1. /\ TouchOf(members'[b][m], e) /\ e \in Entries
        /\ m # s => members'[b][m] = e
    BY <1>0, HeardEntry, SMTT(30)
  <2>2. e = members[b][m] \/ e = pkt.members[m] \/ (m = s /\ e = pkt.from)
    BY <1>0, <1>1, MergedOther, SMTT(30)
  <2>3. died[m] \in Nat /\ now \in Nat /\ pkt.from.seen \in Nat /\ pkt.members[m].seen \in Nat
    BY Zenon DEF TypeOK, Packets, Lists, Entries
  <2> HIDE DEF e
  <2>4. e.seen <= died[m] + 1
    BY <1>1, <2>2, <2>3, SMTT(30) DEF GhostInv
  <2> QED BY <1>1, <2>1, <2>3, <2>4, SMTT(30) DEF TouchOf
<1>2. \A n, m \in Nodes : n # b => members'[n][m] = members[n][m]
  BY <1>0, HeardEntry, SMTT(30)
<1> QED BY <1>1, <1>2, SMTT(30) DEF GhostInv

\* What is left to show of a step that moves at most the exchange of n: that exchange,
\* and the lists.
LEMMA GhostFrame ==
  ASSUME GhostInv, NEW n \in Nodes, UNCHANGED <<now, up, died>>,
         \A k \in Nodes : k # n => call'[k] = call[k],
         \A k, j \in Nodes : j \notin up => members'[k][j].seen <= died[j] + 1,
         call'[n].pc # "idle" => /\ call'[n].pkt.from.seen + 1 >= now
                                 /\ Sender(n)' \notin up =>
                                      call'[n].pkt.from.seen <= died[Sender(n)'],
         \A j \in Nodes : j \notin up => call'[n].pkt.members[j].seen <= died[j] + 1
  PROVE  GhostInv'
<1>1. ASSUME NEW k \in Nodes, call'[k].pc # "idle"
      PROVE  /\ call'[k].pkt.from.seen + 1 >= now'
             /\ Sender(k)' \notin up' => call'[k].pkt.from.seen <= died'[Sender(k)']
  <2>1. CASE k = n
    BY <1>1, <2>1, Zenon
  <2>2. CASE k # n
    <3>1. call'[k] = call[k] /\ Sender(k)' = Sender(k)
      BY <2>2, Zenon DEF Sender
    <3> QED BY <1>1, <3>1 DEF GhostInv
  <2> QED BY <2>1, <2>2
<1>2. ASSUME NEW k \in Nodes, NEW j \in Nodes, j \notin up'
      PROVE  members'[k][j].seen <= died'[j] + 1 /\ call'[k].pkt.members[j].seen <= died'[j] + 1
  <2>1. CASE k = n
    BY <1>2, <2>1, Zenon
  <2>2. CASE k # n
    BY <1>2, <2>2, Zenon DEF GhostInv
  <2> QED BY <2>1, <2>2
<1> QED BY <1>1, <1>2, SMTT(30) DEF GhostInv

\* A step that ends the exchange of n keeps the bounds once the lists are known to.
LEMMA GhostGiveUp ==
  ASSUME TypeOK, GhostInv, NEW n \in Nodes, UNCHANGED <<now, up, died>>,
         call' = [call EXCEPT ![n] = NoCall(n)],
         \A k, j \in Nodes : j \notin up => members'[k][j].seen <= died[j] + 1
  PROVE  GhostInv'
<1>1. call'[n] = NoCall(n) /\ \A k \in Nodes : k # n => call'[k] = call[k]
  BY ZenonT(40) DEF TypeOK
<1>2. call'[n].pc = "idle" /\ \A j \in Nodes : call'[n].pkt.members[j].seen = 0
  BY <1>1, SMTT(30) DEF NoCall, NoPacket, Unknown
<1>3. \A j \in Nodes : j \notin up => call'[n].pkt.members[j].seen <= died[j] + 1
  BY <1>2 DEF TypeOK
<1> QED BY <1>1, <1>2, <1>3, GhostFrame

LEMMA StepGhost == TypeOK /\ SaneInv /\ GhostInv /\ [Next]_vars => GhostInv'
<1> SUFFICES ASSUME TypeOK, SaneInv, GhostInv, [Next]_vars PROVE GhostInv'
  BY Zenon
<1>a. \A k, j \in Nodes : j \notin up => members[k][j].seen <= died[j] + 1
  BY Zenon DEF GhostInv
<1>0. /\ call \in [Nodes -> [pc : {"idle", "sent", "reply"}, to : Nodes, pkt : Packets]]
      /\ died \in [Nodes -> Nat] /\ now \in Nat /\ up \subseteq Nodes
      /\ members \in [Nodes -> [Nodes -> Entries]]
      /\ \A n \in Nodes : call[n].pkt.from \in Entries /\ call[n].pkt.members \in [Nodes -> Entries]
  BY Zenon DEF TypeOK, Packets, Lists
<1>b. \A n \in Nodes : Sender(n) \in Nodes
  BY <1>0, Zenon DEF Sender
<1>c. \A n, m \in Nodes : NoCall(n).pc = "idle" /\ NoCall(n).pkt.members[m].seen = 0
  BY Zenon DEF NoCall, NoPacket, Unknown
<1>1. ASSUME NEW n \in Nodes, NEW m \in Nodes, Join(n, m) PROVE GhostInv'
  <2>1. /\ UNCHANGED <<now, up, died, members>> /\ n \in up
        /\ call' = [call EXCEPT ![n] = [pc |-> "sent", to |-> m,
                                       pkt |-> [from |-> Me(n, inc[n]), members |-> members[n]]]]
    BY <1>1, Zenon DEF Join, Send, history
  <2>2. /\ call'[n].pc = "sent" /\ call'[n].pkt.from.seen = now
        /\ call'[n].pkt.members = members[n]
    BY <1>0, <2>1, Zenon DEF Me
  <2>3. \A k \in Nodes : k # n => call'[k] = call[k]
    BY <1>0, <2>1, Zenon
  <2>4. Sender(n)' = n
    BY <2>2, Zenon DEF Sender
  <2>5. \A k, j \in Nodes : j \notin up => members'[k][j].seen <= died[j] + 1
    BY <2>1, Zenon DEF GhostInv
  <2>6. \A j \in Nodes : j \notin up => call'[n].pkt.members[j].seen <= died[j] + 1
    BY <2>1, <2>2, <2>5, ZenonT(40)
  <2>7. /\ call'[n].pkt.from.seen + 1 >= now
        /\ Sender(n)' \notin up => call'[n].pkt.from.seen <= died[Sender(n)']
    BY <1>0, <2>1, <2>2, <2>4, SMTT(30)
  <2>8. UNCHANGED <<now, up, died>>
    BY <2>1, Zenon
  <2> QED BY <2>3, <2>5, <2>6, <2>7, <2>8, GhostFrame
<1>2. ASSUME NEW n \in Nodes, NEW m \in Nodes, Round(n, m) PROVE GhostInv'
  <2>1. \A k, j \in Nodes : members'[k][j].seen = members[k][j].seen
    BY <1>0, <1>2, SweptEntry, SMTT(30) DEF Round
  <2>2. \A k \in Nodes : Swept(n)[k].seen = members[n][k].seen
    BY SweptEntry, Zenon
  <2>3. UNCHANGED <<now, up, died>> /\ n \in up /\ (call' = call \/ Send(n, m, Swept(n)))
    BY <1>2, Zenon DEF Round, history
  <2>4. CASE call' = call
    BY <2>1, <2>3, <2>4, Zenon DEF GhostInv, Sender
  <2>5. CASE Send(n, m, Swept(n))
    <3>1. call' = [call EXCEPT ![n] = [pc |-> "sent", to |-> m,
                                       pkt |-> [from |-> Me(n, inc[n]), members |-> Swept(n)]]]
      BY <2>5, Zenon DEF Send
    <3>2. /\ call'[n].pc = "sent" /\ call'[n].pkt.from.seen = now
          /\ call'[n].pkt.members = Swept(n)
      BY <1>0, <3>1, Zenon DEF Me
    <3>3. \A k \in Nodes : k # n => call'[k] = call[k]
      BY <1>0, <3>1, Zenon
    <3>4. Sender(n)' = n
      BY <3>2, Zenon DEF Sender
    <3>5. \A k, j \in Nodes : j \notin up => members'[k][j].seen <= died[j] + 1
      BY <1>a, <2>1, Zenon
    <3>6. \A j \in Nodes : j \notin up => call'[n].pkt.members[j].seen <= died[j] + 1
      BY <1>a, <2>2, <3>2, Zenon
    <3>7. /\ call'[n].pkt.from.seen + 1 >= now
          /\ Sender(n)' \notin up => call'[n].pkt.from.seen <= died[Sender(n)']
      BY <1>0, <2>3, <3>2, <3>4
    <3>8. UNCHANGED <<now, up, died>>
      BY <2>3, Zenon
    <3> QED BY <3>3, <3>5, <3>6, <3>7, <3>8, GhostFrame
  <2> QED BY <2>3, <2>4, <2>5, SMTT(30)
<1>3. ASSUME NEW n \in Nodes, NEW m \in Nodes, Sync(n, m) PROVE GhostInv'
  <2>1. /\ Hears(m, n, call[n].pkt) /\ Sender(n) = n /\ call[n].pc # "idle" /\ m \in up
        /\ UNCHANGED <<now, up, died>>
    BY <1>3, Zenon DEF Sync, Hears, Sender, history
  <2>a. /\ call[n].pkt \in Packets /\ call[n].pkt.from.seen + 1 >= now
        /\ n \notin up => call[n].pkt.from.seen <= died[n]
        /\ \A j \in Nodes : j \notin up => call[n].pkt.members[j].seen <= died[j] + 1
    BY <1>0, <2>1, Zenon DEF GhostInv
  <2>2. \A k, j \in Nodes : j \notin up => members'[k][j].seen <= died[j] + 1
    BY <2>a, <2>1, GhostHear, Zenon
  <2>3. call' = [call EXCEPT ![n] = [pc |-> "reply", to |-> m,
                                     pkt |-> [from |-> Me(m, inc'[m]), members |-> members'[m]]]]
    BY <1>3, Zenon DEF Sync
  <2>4. /\ call'[n].pc = "reply" /\ call'[n].to = m /\ call'[n].pkt.from.seen = now
        /\ call'[n].pkt.members = members'[m]
    BY <1>0, <2>3, Zenon DEF Me
  <2>5. \A k \in Nodes : k # n => call'[k] = call[k]
    BY <1>0, <2>3, Zenon
  <2>6. Sender(n)' = m
    BY <2>4, Zenon DEF Sender
  <2>7. \A j \in Nodes : j \notin up => call'[n].pkt.members[j].seen <= died[j] + 1
    BY <2>2, <2>4, Zenon
  <2>8. /\ call'[n].pkt.from.seen + 1 >= now
        /\ Sender(n)' \notin up => call'[n].pkt.from.seen <= died[Sender(n)']
    BY <1>0, <2>1, <2>4, <2>6, SMTT(30)
  <2>9. UNCHANGED <<now, up, died>>
    BY <2>1, Zenon
  <2> QED BY <2>2, <2>5, <2>7, <2>8, <2>9, GhostFrame
<1>4. ASSUME NEW n \in Nodes, NEW m \in Nodes, Refuse(n, m) PROVE GhostInv'
  <2>1. UNCHANGED <<now, up, died, members>> /\ call' = [call EXCEPT ![n] = NoCall(n)]
    BY <1>4, Zenon DEF Refuse, history
  <2> QED BY <1>a, <2>1, GhostGiveUp, Zenon
<1>5. ASSUME NEW n \in Nodes, NEW m \in Nodes, Receive(n, m) PROVE GhostInv'
  <2>1. /\ Hears(n, m, call[n].pkt) /\ Sender(n) = m /\ call[n].pc # "idle"
        /\ UNCHANGED <<now, up, died>>
    BY <1>5, Zenon DEF Receive, Hears, Sender, history
  <2>a. /\ call[n].pkt \in Packets /\ call[n].pkt.from.seen + 1 >= now
        /\ m \notin up => call[n].pkt.from.seen <= died[m]
        /\ \A j \in Nodes : j \notin up => call[n].pkt.members[j].seen <= died[j] + 1
    BY <1>0, <2>1, Zenon DEF GhostInv
  <2>2. \A k, j \in Nodes : j \notin up => members'[k][j].seen <= died[j] + 1
    BY <2>a, <2>1, GhostHear, Zenon
  <2>3. call' = [call EXCEPT ![n] = NoCall(n)]
    BY <1>5, Zenon DEF Receive
  <2> QED BY <2>1, <2>2, <2>3, GhostGiveUp, Zenon
<1>6. ASSUME NEW n \in Nodes, Lost(n) PROVE GhostInv'
  <2>1. UNCHANGED <<now, up, died, members>> /\ call' = [call EXCEPT ![n] = NoCall(n)]
    BY <1>6, Zenon DEF Lost, history
  <2> QED BY <1>a, <2>1, GhostGiveUp, Zenon
<1>7. ASSUME NEW n \in Nodes, Unreachable(n) PROVE GhostInv'
  <2>1. UNCHANGED <<now, up, died, members>> /\ call' = [call EXCEPT ![n] = NoCall(n)]
    BY <1>7, Zenon DEF Unreachable, history
  <2> QED BY <1>a, <2>1, GhostGiveUp, Zenon
<1>8. ASSUME NEW n \in Nodes, Crash(n) PROVE GhostInv'
  <2>1. UNCHANGED <<now, members, call>> /\ up' = up \ {n} /\ died' = [died EXCEPT ![n] = now]
    BY <1>8, Zenon DEF Crash
  <2>2. \A k, j \in Nodes : /\ members[k][j].seen <= now /\ call[k].pkt.members[j].seen <= now
                           /\ call[k].pkt.from.seen <= now
    BY Zenon DEF SaneInv, Sane
  <2>5. \A k, j \in Nodes : /\ members[k][j].seen \in Nat /\ call[k].pkt.members[j].seen \in Nat
                           /\ call[k].pkt.from.seen \in Nat
    BY <1>0, SMTT(30) DEF Entries
  <2>3. \A j \in Nodes : died'[j] = (IF j = n THEN now ELSE died[j]) /\ died[j] \in Nat
    BY <1>0, <2>1, Zenon
  <2>4. \A k \in Nodes : Sender(k)' = Sender(k) /\ Sender(k) \in Nodes
    BY <1>b, <2>1, Zenon DEF Sender
  <2>6. ASSUME NEW k \in Nodes, call[k].pc # "idle", Sender(k) \notin up'
        PROVE  call[k].pkt.from.seen <= died'[Sender(k)]
    BY <2>1, <2>2, <2>3, <2>4, <2>5, <2>6, Zenon DEF GhostInv
  <2>7. ASSUME NEW k \in Nodes, NEW j \in Nodes, j \notin up'
        PROVE  members[k][j].seen <= died'[j] + 1 /\ call[k].pkt.members[j].seen <= died'[j] + 1
    <3>1. CASE j = n
      BY <1>0, <2>2, <2>3, <2>5, <3>1, SMTT(30)
    <3>2. CASE j # n
      BY <2>1, <2>3, <2>7, <3>2, Zenon DEF GhostInv
    <3> QED BY <3>1, <3>2, SMTT(30)
  <2> QED BY <2>1, <2>4, <2>6, <2>7 DEF GhostInv
<1>9. ASSUME NEW n \in Nodes, NEW h \in Hashes, Start(n, h) PROVE GhostInv'
  <2>1. /\ UNCHANGED <<now, died>> /\ up' = up \cup {n}
        /\ call' = [call EXCEPT ![n] = NoCall(n)]
        /\ members' = [members EXCEPT ![n] = Alone(n, now, boot[n] + 1, h)]
    BY <1>9, Zenon DEF Start, history
  <2>2. call'[n] = NoCall(n) /\ \A k \in Nodes : k # n => call'[k] = call[k]
    BY <1>0, <2>1, Zenon
  <2>3. ASSUME NEW k \in Nodes, NEW j \in Nodes, j \notin up'
        PROVE  members'[k][j].seen <= died[j] + 1
    <3>1. CASE k = n
      <4>1. members'[n][j] = Unknown
        BY <1>0, <2>1, <2>3, Zenon DEF Alone
      <4> QED BY <1>0, <3>1, <4>1, SMTT(30) DEF Unknown
    <3>2. CASE k # n
      <4>1. members'[k] = members[k]
        BY <1>0, <2>1, <3>2, Zenon
      <4> QED BY <2>1, <2>3, <4>1 DEF GhostInv
    <3> QED BY <3>1, <3>2, SMTT(30)
  <2>4. \A k, j \in Nodes : j \notin up' => call'[k].pkt.members[j].seen <= died[j] + 1
    <3> SUFFICES ASSUME NEW k \in Nodes, NEW j \in Nodes, j \notin up'
                 PROVE  call'[k].pkt.members[j].seen <= died[j] + 1
      BY Zenon
    <3>1. CASE k = n
      BY <1>0, <1>c, <2>2, <3>1
    <3>2. CASE k # n
      BY <2>1, <2>2, <3>2, Zenon DEF GhostInv
    <3> QED BY <3>1, <3>2
  <2>5. ASSUME NEW k \in Nodes, call'[k].pc # "idle"
        PROVE  /\ call'[k].pkt.from.seen + 1 >= now
               /\ Sender(k)' \notin up' => call'[k].pkt.from.seen <= died[Sender(k)']
    <3>1. k # n /\ call'[k] = call[k]
      BY <1>c, <2>2, <2>5, Zenon
    <3>2. Sender(k)' = Sender(k)
      BY <3>1, Zenon DEF Sender
    <3> QED BY <2>1, <2>5, <3>1, <3>2 DEF GhostInv
  <2> QED BY <2>1, <2>3, <2>4, <2>5 DEF GhostInv
<1>10. ASSUME Tick PROVE GhostInv'
  <2>1. now' = now + 1 /\ UNCHANGED <<up, died, members, call>>
    BY <1>10, Zenon DEF Tick, history
  <2>2. ASSUME NEW k \in Nodes, call'[k].pc # "idle"
        PROVE  /\ call'[k].pkt.from.seen + 1 >= now'
               /\ Sender(k)' \notin up' => call'[k].pkt.from.seen <= died'[Sender(k)']
    <3>1. call[k].pkt.from.seen = now /\ now \in Nat
      BY <1>10, <2>1, <2>2, Zenon DEF Tick, TypeOK
    <3>2. Sender(k)' = Sender(k)
      BY <2>1, Zenon DEF Sender
    <3>3. Sender(k) \notin up => call[k].pkt.from.seen <= died[Sender(k)]
      BY <2>1, <2>2, Zenon DEF GhostInv
    <3> QED BY <2>1, <3>1, <3>2, <3>3
  <2>3. \A k, j \in Nodes : j \notin up' =>
          members'[k][j].seen <= died'[j] + 1 /\ call'[k].pkt.members[j].seen <= died'[j] + 1
    BY <2>1, Zenon DEF GhostInv
  <2> QED BY <2>2, <2>3 DEF GhostInv
<1>11. ASSUME UNCHANGED vars PROVE GhostInv'
  BY <1>11, Zenon DEF vars, GhostInv, Sender
<1> QED
  BY <1>1, <1>2, <1>3, <1>4, <1>5, <1>6, <1>7, <1>8, <1>9, <1>10, <1>11, Zenon DEF Next, Begin, Continue

\* A node that is down is not kept alive by what others say of it.
THEOREM NotKeptAlive == Spec => []NoGhost
<1>1. GhostInv => NoGhost
  BY Zenon DEF GhostInv, NoGhost
<1> QED BY <1>1, InitType, StepType, InitSane, StepSane, InitGhost, StepGhost, PTL DEF Spec
=============================================================================
