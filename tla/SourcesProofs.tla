----------------------------- MODULE SourcesProofs -----------------------------
(***************************************************************************)
(* Proofs about the two sources of a chunk that is not on this node: the   *)
(* peers, found through PeerIndex, for any keys, filter, insert tasks and  *)
(* bounds; and Azure, asked through BlobClient, for any requests and       *)
(* MAX_ATTEMPTS.                                                           *)
(***************************************************************************)
EXTENDS PeerIndex, BlobClient, TLAPS

LEMMA IdleTypes ==
  /\ IdleWriter \in WriterStates /\ IdleRebuilder \in RebuilderStates
  /\ NoBloom \in Blooms /\ NoVersion \in Versions
  /\ IdlePull \in [pc : {"idle", "get", "ingest"}, adv : Versions, got : Blooms]
BY Zenon DEF IdleWriter, WriterStates, IdleRebuilder, RebuilderStates, NoBloom, Blooms, NoVersion,
       Versions, IdlePull

LEMMA InitType == Init => TypeOK
BY IdleTypes DEF Init, TypeOK, IdleWriter

LEMMA StepType == TypeOK /\ [Next]_vars => TypeOK'
<1> SUFFICES ASSUME TypeOK, [Next]_vars PROVE TypeOK'
  BY Zenon
<1> USE IdleTypes, BitsAssumption
<1>1. ASSUME NEW w \in Writers, NEW k \in Keys, WriterInsert(w, k) PROVE TypeOK'
  BY <1>1 DEF WriterInsert, TypeOK, WriterStates, RebuilderStates, Versions, Blooms, local, reader
<1>2. ASSUME NEW w \in Writers, WriterPush(w) PROVE TypeOK'
  BY <1>2, SMTT(30) DEF WriterPush, TypeOK, WriterStates, RebuilderStates, Versions, Blooms, local, reader
<1>3. ASSUME NEW w \in Writers, WriterNote(w) PROVE TypeOK'
  <2>1. wr' \in [Writers -> WriterStates] /\ \A u \in Writers : wr'[u].pc # "idle" => wr'[u].key \in Keys
    BY <1>3 DEF WriterNote, TypeOK, WriterStates, IdleWriter
  <2> QED
    BY <1>3, <2>1, Zenon DEF WriterNote, SetLocal, TypeOK, WriterStates, reader, local
<1>4. ASSUME NEW w \in Writers, WriterHook(w) PROVE TypeOK'
  <2>1. wr' \in [Writers -> WriterStates] /\ \A u \in Writers : wr'[u].pc # "idle" => wr'[u].key \in Keys
    BY <1>4, Zenon DEF WriterHook, TypeOK, WriterStates, IdleWriter
  <2> QED
    BY <1>4, <2>1, Zenon DEF WriterHook, TypeOK, WriterStates, reader, local
<1>5. ASSUME RebuildTick PROVE TypeOK'
  <2>1. rb' \in [Rebuilders -> RebuilderStates]
    BY <1>5, Zenon DEF RebuildTick, RbGoto, TypeOK, RebuilderStates
  <2> QED
    BY <1>5, <2>1, Zenon DEF RebuildTick, TypeOK, reader, local
<1>6. ASSUME ClearDrained PROVE TypeOK'
  <2>1. rb' \in [Rebuilders -> RebuilderStates]
    BY <1>6, Zenon DEF ClearDrained, RbGoto, TypeOK, RebuilderStates
  <2> QED
    BY <1>6, <2>1, Zenon DEF ClearDrained, TypeOK, reader, local
<1>7. ASSUME ClearAll PROVE TypeOK'
  <2>1. rb' \in [Rebuilders -> RebuilderStates]
    BY <1>7, Zenon DEF ClearAll, RbGoto, TypeOK, RebuilderStates
  <2> QED
    BY <1>7, <2>1, Zenon DEF ClearAll, TypeOK, reader, local
<1>8. ASSUME NEW r \in Rebuilders, RebuildKeys(r) PROVE TypeOK'
  BY <1>8, Zenon DEF RebuildKeys, TypeOK, WriterStates, RebuilderStates, Versions, Blooms, local, reader
<1>9. ASSUME NEW r \in Rebuilders, RebuildSwap(r) PROVE TypeOK'
  BY <1>9 DEF RebuildSwap, Overlapped, Exposed, SetLocal, BitsFor, TypeOK, WriterStates, RebuilderStates, Versions, Blooms, local, reader
<1>10. ASSUME NEW r \in Rebuilders, RebuildHook(r) PROVE TypeOK'
  BY <1>10, Zenon DEF RebuildHook, TypeOK, WriterStates, RebuilderStates, Versions, Blooms, local, reader
<1>11. ASSUME NEW r \in Rebuilders, RebuildReport(r) PROVE TypeOK'
  BY <1>11, Zenon DEF RebuildReport, TypeOK, WriterStates, RebuilderStates, Versions, Blooms, local, reader
<1>12. ASSUME NEW r \in Rebuilders, RebuildStore(r) PROVE TypeOK'
  BY <1>12, Zenon DEF RebuildStore, TypeOK, WriterStates, RebuilderStates, Versions, Blooms, local, reader
<1>13. ASSUME NEW k \in Keys, Evict(k) PROVE TypeOK'
  BY <1>13, Zenon DEF Evict, TypeOK, WriterStates, RebuilderStates, Versions, Blooms, local, reader
<1>14. ASSUME NEW k \in Keys, LoseFile(k) PROVE TypeOK'
  BY <1>14, ZenonT(40) DEF LoseFile, TypeOK, WriterStates, RebuilderStates, Versions, Blooms, local, reader
<1>15. ASSUME NEW k \in Keys, ProbeMiss(k) PROVE TypeOK'
  BY <1>15, Zenon DEF ProbeMiss, TypeOK, WriterStates, RebuilderStates, Versions, Blooms, local, reader
<1>16. ASSUME Restart PROVE TypeOK'
  BY <1>16 DEF Restart, TypeOK, IdleWriter, reader
<1>17. ASSUME PeerDead PROVE TypeOK'
  BY <1>17, Zenon DEF PeerDead, TypeOK, WriterStates, RebuilderStates, Versions, Blooms, local, reader
<1>18. ASSUME GossipSync PROVE TypeOK'
  BY <1>18, Zenon DEF GossipSync, TypeOK, WriterStates, RebuilderStates, Versions, Blooms, local, reader
<1>19. ASSUME GossipSelfEntry PROVE TypeOK'
  BY <1>19, Zenon DEF GossipSelfEntry, TypeOK, WriterStates, RebuilderStates, Versions, Blooms, local, reader
<1>20. ASSUME PullTick PROVE TypeOK'
  BY <1>20 DEF PullTick, TypeOK, WriterStates, RebuilderStates, Versions, Blooms, local, reader
<1>21. ASSUME PullGet PROVE TypeOK'
  BY <1>21 DEF PullGet, LocalSnapshot, TypeOK, WriterStates, RebuilderStates, Versions, Blooms, local, reader
<1>22. ASSUME PullFails PROVE TypeOK'
  BY <1>22, Zenon DEF PullFails, TypeOK, WriterStates, RebuilderStates, Versions, Blooms, local, reader
<1>23. ASSUME PullIngest PROVE TypeOK'
  BY <1>23, Zenon DEF PullIngest, TypeOK, WriterStates, RebuilderStates, Versions, Blooms, local, reader
<1>24. ASSUME UNCHANGED vars PROVE TypeOK'
  BY <1>24, Zenon DEF vars, TypeOK, WriterStates, RebuilderStates, Versions, Blooms, local, reader
<1> QED
  BY <1>1, <1>2, <1>3, <1>4, <1>5, <1>6, <1>7, <1>8, <1>9, <1>10, <1>11, <1>12, <1>13, <1>14, <1>15, <1>16, <1>17, <1>18, <1>19, <1>20, <1>21, <1>22, <1>23, <1>24, Zenon
     DEF Next, WriterStep, RebuildStep, PullStep, Finished

\* Every field of PeerIndex and of the reader has its type in every reachable state.
THEOREM TypeCorrect == Spec => []TypeOK
BY InitType, StepType, PTL DEF Spec

(***************************************************************************)
(* Versions: nobody knows one that the owner's process has not reached.    *)
(***************************************************************************)

Reached(b) == b.proc <= proc /\ (b.proc = proc => b.version <= version)

VersionInv ==
  /\ published <= version
  /\ \A w \in Writers : wr[w].v <= version
  /\ \A r \in Rebuilders : rb[r].v <= version
  /\ Reached(adv) /\ Reached(pull.adv) /\ Reached(remote) /\ Reached(pull.got)
  /\ SnapshotCoherent /\ PullCatchesUp

LEMMA InitVersion == Init => VersionInv
BY DEF Init, VersionInv, Reached, SnapshotCoherent, PullCatchesUp, IdleWriter, IdleRebuilder,
       IdlePull, NoBloom, NoVersion

LEMMA StepVersion == TypeOK /\ VersionInv /\ [Next]_vars => VersionInv'
<1> SUFFICES ASSUME TypeOK, VersionInv, [Next]_vars PROVE VersionInv'
  BY Zenon
<1>1. ASSUME NEW w \in Writers, NEW k \in Keys, WriterInsert(w, k) PROVE VersionInv'
  BY <1>1 DEF WriterInsert, TypeOK, WriterStates, RebuilderStates, Versions, Blooms, VersionInv, Reached, SnapshotCoherent, PullCatchesUp, IdleWriter, IdleRebuilder, IdlePull, NoBloom, NoVersion, local, reader
<1>2. ASSUME NEW w \in Writers, WriterPush(w) PROVE VersionInv'
  BY <1>2, ZenonT(40) DEF WriterPush, TypeOK, WriterStates, RebuilderStates, Versions, Blooms, VersionInv, Reached, SnapshotCoherent, PullCatchesUp, IdleWriter, IdleRebuilder, IdlePull, NoBloom, NoVersion, local, reader
<1>3. ASSUME NEW w \in Writers, WriterNote(w) PROVE VersionInv'
  BY <1>3 DEF WriterNote, SetLocal, TypeOK, WriterStates, RebuilderStates, Versions, Blooms, VersionInv, Reached, SnapshotCoherent, PullCatchesUp, IdleWriter, IdleRebuilder, IdlePull, NoBloom, NoVersion, local, reader
<1>4. ASSUME NEW w \in Writers, WriterHook(w) PROVE VersionInv'
  BY <1>4 DEF WriterHook, TypeOK, WriterStates, RebuilderStates, Versions, Blooms, VersionInv, Reached, SnapshotCoherent, PullCatchesUp, IdleWriter, IdleRebuilder, IdlePull, NoBloom, NoVersion, local, reader
<1>5. ASSUME RebuildTick PROVE VersionInv'
  BY <1>5, ZenonT(40) DEF RebuildTick, RbGoto, TypeOK, WriterStates, RebuilderStates, Versions, Blooms, VersionInv, Reached, SnapshotCoherent, PullCatchesUp, IdleWriter, IdleRebuilder, IdlePull, NoBloom, NoVersion, local, reader
<1>6. ASSUME ClearDrained PROVE VersionInv'
  BY <1>6, Zenon DEF ClearDrained, RbGoto, TypeOK, WriterStates, RebuilderStates, Versions, Blooms, VersionInv, Reached, SnapshotCoherent, PullCatchesUp, IdleWriter, IdleRebuilder, IdlePull, NoBloom, NoVersion, local, reader
<1>7. ASSUME ClearAll PROVE VersionInv'
  BY <1>7, ZenonT(40) DEF ClearAll, RbGoto, TypeOK, WriterStates, RebuilderStates, Versions, Blooms, VersionInv, Reached, SnapshotCoherent, PullCatchesUp, IdleWriter, IdleRebuilder, IdlePull, NoBloom, NoVersion, local, reader
<1>8. ASSUME NEW r \in Rebuilders, RebuildKeys(r) PROVE VersionInv'
  BY <1>8 DEF RebuildKeys, TypeOK, WriterStates, RebuilderStates, Versions, Blooms, VersionInv, Reached, SnapshotCoherent, PullCatchesUp, IdleWriter, IdleRebuilder, IdlePull, NoBloom, NoVersion, local, reader
<1>9. ASSUME NEW r \in Rebuilders, RebuildSwap(r) PROVE VersionInv'
  BY <1>9 DEF RebuildSwap, SetLocal, BitsFor, TypeOK, WriterStates, RebuilderStates, Versions, Blooms, VersionInv, Reached, SnapshotCoherent, PullCatchesUp, IdleWriter, IdleRebuilder, IdlePull, NoBloom, NoVersion, local, reader
<1>10. ASSUME NEW r \in Rebuilders, RebuildHook(r) PROVE VersionInv'
  BY <1>10 DEF RebuildHook, TypeOK, WriterStates, RebuilderStates, Versions, Blooms, VersionInv, Reached, SnapshotCoherent, PullCatchesUp, IdleWriter, IdleRebuilder, IdlePull, NoBloom, NoVersion, local, reader
<1>11. ASSUME NEW r \in Rebuilders, RebuildReport(r) PROVE VersionInv'
  BY <1>11 DEF RebuildReport, TypeOK, WriterStates, RebuilderStates, Versions, Blooms, VersionInv, Reached, SnapshotCoherent, PullCatchesUp, IdleWriter, IdleRebuilder, IdlePull, NoBloom, NoVersion, local, reader
<1>12. ASSUME NEW r \in Rebuilders, RebuildStore(r) PROVE VersionInv'
  BY <1>12 DEF RebuildStore, TypeOK, WriterStates, RebuilderStates, Versions, Blooms, VersionInv, Reached, SnapshotCoherent, PullCatchesUp, IdleWriter, IdleRebuilder, IdlePull, NoBloom, NoVersion, local, reader
<1>13. ASSUME NEW k \in Keys, Evict(k) PROVE VersionInv'
  BY <1>13, Zenon DEF Evict, TypeOK, WriterStates, RebuilderStates, Versions, Blooms, VersionInv, Reached, SnapshotCoherent, PullCatchesUp, IdleWriter, IdleRebuilder, IdlePull, NoBloom, NoVersion, local, reader
<1>14. ASSUME NEW k \in Keys, LoseFile(k) PROVE VersionInv'
  BY <1>14, Zenon DEF LoseFile, TypeOK, WriterStates, RebuilderStates, Versions, Blooms, VersionInv, Reached, SnapshotCoherent, PullCatchesUp, IdleWriter, IdleRebuilder, IdlePull, NoBloom, NoVersion, local, reader
<1>15. ASSUME NEW k \in Keys, ProbeMiss(k) PROVE VersionInv'
  BY <1>15 DEF ProbeMiss, TypeOK, WriterStates, RebuilderStates, Versions, Blooms, VersionInv, Reached, SnapshotCoherent, PullCatchesUp, IdleWriter, IdleRebuilder, IdlePull, NoBloom, NoVersion, local, reader
<1>16. ASSUME Restart PROVE VersionInv'
  BY <1>16 DEF Restart, TypeOK, WriterStates, RebuilderStates, Versions, Blooms, VersionInv, Reached, SnapshotCoherent, PullCatchesUp, IdleWriter, IdleRebuilder, IdlePull, NoBloom, NoVersion, local, reader
<1>17. ASSUME PeerDead PROVE VersionInv'
  BY <1>17 DEF PeerDead, TypeOK, WriterStates, RebuilderStates, Versions, Blooms, VersionInv, Reached, SnapshotCoherent, PullCatchesUp, IdleWriter, IdleRebuilder, IdlePull, NoBloom, NoVersion, local, reader
<1>18. ASSUME GossipSync PROVE VersionInv'
  BY <1>18 DEF GossipSync, TypeOK, WriterStates, RebuilderStates, Versions, Blooms, VersionInv, Reached, SnapshotCoherent, PullCatchesUp, IdleWriter, IdleRebuilder, IdlePull, NoBloom, NoVersion, local, reader
<1>19. ASSUME GossipSelfEntry PROVE VersionInv'
  BY <1>19 DEF GossipSelfEntry, TypeOK, WriterStates, RebuilderStates, Versions, Blooms, VersionInv, Reached, SnapshotCoherent, PullCatchesUp, IdleWriter, IdleRebuilder, IdlePull, NoBloom, NoVersion, local, reader
<1>20. ASSUME PullTick PROVE VersionInv'
  BY <1>20 DEF PullTick, TypeOK, WriterStates, RebuilderStates, Versions, Blooms, VersionInv, Reached, SnapshotCoherent, PullCatchesUp, IdleWriter, IdleRebuilder, IdlePull, NoBloom, NoVersion, local, reader
<1>21. ASSUME PullGet PROVE VersionInv'
  BY <1>21 DEF PullGet, LocalSnapshot, TypeOK, WriterStates, RebuilderStates, Versions, Blooms, VersionInv, Reached, SnapshotCoherent, PullCatchesUp, IdleWriter, IdleRebuilder, IdlePull, NoBloom, NoVersion, local, reader
<1>22. ASSUME PullFails PROVE VersionInv'
  BY <1>22 DEF PullFails, TypeOK, WriterStates, RebuilderStates, Versions, Blooms, VersionInv, Reached, SnapshotCoherent, PullCatchesUp, IdleWriter, IdleRebuilder, IdlePull, NoBloom, NoVersion, local, reader
<1>23. ASSUME PullIngest PROVE VersionInv'
  BY <1>23 DEF PullIngest, TypeOK, WriterStates, RebuilderStates, Versions, Blooms, VersionInv, Reached, SnapshotCoherent, PullCatchesUp, IdleWriter, IdleRebuilder, IdlePull, NoBloom, NoVersion, local, reader
<1>24. ASSUME UNCHANGED vars PROVE VersionInv'
  BY <1>24, Zenon DEF vars, TypeOK, WriterStates, RebuilderStates, Versions, Blooms, VersionInv, Reached, SnapshotCoherent, PullCatchesUp, IdleWriter, IdleRebuilder, IdlePull, NoBloom, NoVersion, local, reader
<1> QED
  BY <1>1, <1>2, <1>3, <1>4, <1>5, <1>6, <1>7, <1>8, <1>9, <1>10, <1>11, <1>12, <1>13, <1>14, <1>15, <1>16, <1>17, <1>18, <1>19, <1>20, <1>21, <1>22, <1>23, <1>24, Zenon
     DEF Next, WriterStep, RebuildStep, PullStep, Finished

\* A reader never holds bits under a version that had others: local_snapshot reads
\* both under one lock.
THEOREM Coherent == Spec => []SnapshotCoherent
<1>1. VersionInv => SnapshotCoherent
  BY Zenon DEF VersionInv
<1> QED
  BY InitType, StepType, InitVersion, StepVersion, <1>1, PTL DEF Spec

\* A pull is never answered with less than gossip announced.
THEOREM CatchesUp == Spec => []PullCatchesUp
<1>1. VersionInv => PullCatchesUp
  BY Zenon DEF VersionInv
<1> QED
  BY InitType, StepType, InitVersion, StepVersion, <1>1, PTL DEF Spec

(***************************************************************************)
(* No chunk is lost from the filter.                                       *)
(***************************************************************************)

Unpushed(k) == \E w \in Writers : wr[w].pc = "push" /\ wr[w].key = k

\* A rebuild between live_keys and the swap will find every key it has to set: in
\* its snapshot, in the overlay, with a task that has yet to push it, or with the
\* other rebuild that drained it.
OverlayInv ==
  /\ NoLostAdvertisement
  /\ \A r \in Rebuilders : rb[r].pc = "swap" =>
       \A k \in held : k \in rb[r].keys \cup pending \cup drained \/ Unpushed(k)

LEMMA InitOverlay == Init => OverlayInv
BY Zenon DEF Init, OverlayInv, NoLostAdvertisement, IdleRebuilder

LEMMA StepOverlay == TypeOK /\ OverlayInv /\ [Next]_vars => OverlayInv'
<1> SUFFICES ASSUME TypeOK, OverlayInv, [Next]_vars PROVE OverlayInv'
  BY Zenon
<1>1. ASSUME NEW w \in Writers, NEW k \in Keys, WriterInsert(w, k) PROVE OverlayInv'
  BY <1>1 DEF WriterInsert, TypeOK, WriterStates, RebuilderStates, OverlayInv, NoLostAdvertisement, BeingNoted, Unpushed, Contains, IdleWriter, IdleRebuilder, local, reader
<1>2. ASSUME NEW w \in Writers, WriterPush(w) PROVE OverlayInv'
  BY <1>2, SMTT(30) DEF WriterPush, TypeOK, WriterStates, RebuilderStates, OverlayInv, NoLostAdvertisement, BeingNoted, Unpushed, Contains, IdleWriter, IdleRebuilder, local, reader
<1>3. ASSUME NEW w \in Writers, WriterNote(w) PROVE OverlayInv'
  BY <1>3 DEF WriterNote, SetLocal, TypeOK, WriterStates, RebuilderStates, OverlayInv, NoLostAdvertisement, BeingNoted, Unpushed, Contains, IdleWriter, IdleRebuilder, local, reader
<1>4. ASSUME NEW w \in Writers, WriterHook(w) PROVE OverlayInv'
  BY <1>4 DEF WriterHook, TypeOK, WriterStates, RebuilderStates, OverlayInv, NoLostAdvertisement, BeingNoted, Unpushed, Contains, IdleWriter, IdleRebuilder, local, reader
<1>5. ASSUME RebuildTick PROVE OverlayInv'
  BY <1>5 DEF RebuildTick, RbGoto, TypeOK, WriterStates, RebuilderStates, OverlayInv, NoLostAdvertisement, BeingNoted, Unpushed, Contains, IdleWriter, IdleRebuilder, local, reader
<1>6. ASSUME ClearDrained PROVE OverlayInv'
  BY <1>6 DEF ClearDrained, RbGoto, TypeOK, WriterStates, RebuilderStates, OverlayInv, NoLostAdvertisement, BeingNoted, Unpushed, Contains, IdleWriter, IdleRebuilder, local, reader
<1>7. ASSUME ClearAll PROVE OverlayInv'
  BY <1>7, Zenon DEF ClearAll, RbGoto, TypeOK, WriterStates, RebuilderStates, OverlayInv, NoLostAdvertisement, BeingNoted, Unpushed, Contains, IdleWriter, IdleRebuilder, local, reader
<1>8. ASSUME NEW r \in Rebuilders, RebuildKeys(r) PROVE OverlayInv'
  BY <1>8, SMTT(30) DEF RebuildKeys, TypeOK, WriterStates, RebuilderStates, OverlayInv, NoLostAdvertisement, BeingNoted, Unpushed, Contains, IdleWriter, IdleRebuilder, local, reader
<1>9. ASSUME NEW r \in Rebuilders, RebuildSwap(r) PROVE OverlayInv'
  BY <1>9 DEF RebuildSwap, Overlapped, Exposed, SetLocal, BitsFor, TypeOK, WriterStates, RebuilderStates, OverlayInv, NoLostAdvertisement, BeingNoted, Unpushed, Contains, IdleWriter, IdleRebuilder, local, reader
<1>10. ASSUME NEW r \in Rebuilders, RebuildHook(r) PROVE OverlayInv'
  BY <1>10, SMTT(30) DEF RebuildHook, TypeOK, WriterStates, RebuilderStates, OverlayInv, NoLostAdvertisement, BeingNoted, Unpushed, Contains, IdleWriter, IdleRebuilder, local, reader
<1>11. ASSUME NEW r \in Rebuilders, RebuildReport(r) PROVE OverlayInv'
  BY <1>11, SMTT(30) DEF RebuildReport, TypeOK, WriterStates, RebuilderStates, OverlayInv, NoLostAdvertisement, BeingNoted, Unpushed, Contains, IdleWriter, IdleRebuilder, local, reader
<1>12. ASSUME NEW r \in Rebuilders, RebuildStore(r) PROVE OverlayInv'
  BY <1>12 DEF RebuildStore, TypeOK, WriterStates, RebuilderStates, OverlayInv, NoLostAdvertisement, BeingNoted, Unpushed, Contains, IdleWriter, IdleRebuilder, local, reader
<1>13. ASSUME NEW k \in Keys, Evict(k) PROVE OverlayInv'
  BY <1>13 DEF Evict, TypeOK, WriterStates, RebuilderStates, OverlayInv, NoLostAdvertisement, BeingNoted, Unpushed, Contains, IdleWriter, IdleRebuilder, local, reader
<1>14. ASSUME NEW k \in Keys, LoseFile(k) PROVE OverlayInv'
  BY <1>14 DEF LoseFile, TypeOK, WriterStates, RebuilderStates, OverlayInv, NoLostAdvertisement, BeingNoted, Unpushed, Contains, IdleWriter, IdleRebuilder, local, reader
<1>15. ASSUME NEW k \in Keys, ProbeMiss(k) PROVE OverlayInv'
  BY <1>15 DEF ProbeMiss, TypeOK, WriterStates, RebuilderStates, OverlayInv, NoLostAdvertisement, BeingNoted, Unpushed, Contains, IdleWriter, IdleRebuilder, local, reader
<1>16. ASSUME Restart PROVE OverlayInv'
  BY <1>16, Zenon DEF Restart, TypeOK, WriterStates, RebuilderStates, OverlayInv, NoLostAdvertisement, BeingNoted, Unpushed, Contains, IdleWriter, IdleRebuilder, local, reader
<1>17. ASSUME PeerDead PROVE OverlayInv'
  BY <1>17 DEF PeerDead, TypeOK, WriterStates, RebuilderStates, OverlayInv, NoLostAdvertisement, BeingNoted, Unpushed, Contains, IdleWriter, IdleRebuilder, local, reader
<1>18. ASSUME GossipSync PROVE OverlayInv'
  BY <1>18 DEF GossipSync, TypeOK, WriterStates, RebuilderStates, OverlayInv, NoLostAdvertisement, BeingNoted, Unpushed, Contains, IdleWriter, IdleRebuilder, local, reader
<1>19. ASSUME GossipSelfEntry PROVE OverlayInv'
  BY <1>19 DEF GossipSelfEntry, TypeOK, WriterStates, RebuilderStates, OverlayInv, NoLostAdvertisement, BeingNoted, Unpushed, Contains, IdleWriter, IdleRebuilder, local, reader
<1>20. ASSUME PullTick PROVE OverlayInv'
  BY <1>20, SMTT(30) DEF PullTick, TypeOK, WriterStates, RebuilderStates, OverlayInv, NoLostAdvertisement, BeingNoted, Unpushed, Contains, IdleWriter, IdleRebuilder, local, reader
<1>21. ASSUME PullGet PROVE OverlayInv'
  BY <1>21 DEF PullGet, LocalSnapshot, TypeOK, WriterStates, RebuilderStates, OverlayInv, NoLostAdvertisement, BeingNoted, Unpushed, Contains, IdleWriter, IdleRebuilder, local, reader
<1>22. ASSUME PullFails PROVE OverlayInv'
  BY <1>22 DEF PullFails, TypeOK, WriterStates, RebuilderStates, OverlayInv, NoLostAdvertisement, BeingNoted, Unpushed, Contains, IdleWriter, IdleRebuilder, local, reader
<1>23. ASSUME PullIngest PROVE OverlayInv'
  BY <1>23 DEF PullIngest, TypeOK, WriterStates, RebuilderStates, OverlayInv, NoLostAdvertisement, BeingNoted, Unpushed, Contains, IdleWriter, IdleRebuilder, local, reader
<1>24. ASSUME UNCHANGED vars PROVE OverlayInv'
  BY <1>24 DEF vars, TypeOK, WriterStates, RebuilderStates, OverlayInv, NoLostAdvertisement, BeingNoted, Unpushed, Contains, IdleWriter, IdleRebuilder, local, reader
<1> QED
  BY <1>1, <1>2, <1>3, <1>4, <1>5, <1>6, <1>7, <1>8, <1>9, <1>10, <1>11, <1>12, <1>13, <1>14, <1>15, <1>16, <1>17, <1>18, <1>19, <1>20, <1>21, <1>22, <1>23, <1>24, Zenon
     DEF Next, WriterStep, RebuildStep, PullStep, Finished

\* A chunk on disk is in the filter as soon as its note_local_insert is through,
\* whatever inserts, evictions and rebuilds overlap, unless a rebuild drained it from
\* the overlay while another had yet to swap: with the periodic loop alone, always.
THEOREM NothingLost == Spec => []NoLostAdvertisement
<1>1. OverlayInv => NoLostAdvertisement
  BY Zenon DEF OverlayInv
<1> QED
  BY InitType, StepType, InitOverlay, StepOverlay, <1>1, PTL DEF Spec

(***************************************************************************)
(* The origin: the requests of BlobClient.                                 *)
(***************************************************************************)

Results == {"nothing", "ok", "failed", "rejected"}

RequestStates ==
  [pc : Labels, outer : Nat, attempt : Nat, sends : Nat, token : Nat \cup {-1},
   invalidated : BOOLEAN, got : Results]

\* Within send's loop.
Sending == {"token", "lock", "recheck", "fetch", "store", "send"}

ClientTypes ==
  /\ era \in Nat /\ cached \in Nat \cup {-1} /\ due \in BOOLEAN
  /\ lock \in Requests \cup {NoRequest}
  /\ req \in [Requests -> RequestStates]
  /\ since \in [Requests -> [era : Nat, overlap : BOOLEAN]]

\* The sends that n rounds of get_blob_range may make: in each, send's loop runs at most
\* MaxAttempts times, and once more after an invalidation.
Rounds(n) == (MaxAttempts + 1) * n

\* The counters of a request q = req[r]: a send is counted when it is made, a round starts
\* with attempt 1 and only an invalidation takes it past MaxAttempts.
Counted(r, q) ==
  /\ q.outer \in 1..MaxAttempts /\ (r \in Ranges \/ q.outer = 1)
  /\ q.pc \in Sending =>
       /\ q.attempt >= 1 /\ q.attempt <= MaxAttempts + (IF q.invalidated THEN 1 ELSE 0)
       /\ q.sends <= Rounds(q.outer - 1) + (q.attempt - 1)
  /\ q.pc = "body" => q.sends <= Rounds(q.outer)
  /\ q.pc = "idle" => q.sends = 0
  /\ q.sends <= Rounds(IF r \in Ranges THEN MaxAttempts ELSE 1)

CountInv == \A r \in Requests : Counted(r, req[r])

\* The step writes these fields of r and nothing else of req.
Wrote(r, pc, outer, attempt, sends, token, invalidated, got) ==
  /\ req' \in [Requests -> RequestStates]
  /\ \A o \in Requests \ {r} : req'[o] = req[o]
  /\ req'[r].pc = pc /\ req'[r].outer = outer /\ req'[r].attempt = attempt
  /\ req'[r].sends = sends /\ req'[r].token = token /\ req'[r].invalidated = invalidated
  /\ req'[r].got = got

LEMMA FieldTypes ==
  ASSUME NEW q \in RequestStates
  PROVE  /\ \A x \in Labels : [q EXCEPT !.pc = x] \in RequestStates
         /\ \A x \in Nat : /\ [q EXCEPT !.outer = x] \in RequestStates
                           /\ [q EXCEPT !.attempt = x] \in RequestStates
                           /\ [q EXCEPT !.sends = x] \in RequestStates
         /\ \A x \in Nat \cup {-1} : [q EXCEPT !.token = x] \in RequestStates
         /\ \A x \in BOOLEAN : [q EXCEPT !.invalidated = x] \in RequestStates
BY Zenon DEF RequestStates

\* A state of r's made of the one it has is a state req can have there.
LEMMA WritesOne ==
  ASSUME ClientTypes, NEW r \in Requests, NEW q \in RequestStates, req' = [req EXCEPT ![r] = q]
  PROVE  Wrote(r, q.pc, q.outer, q.attempt, q.sends, q.token, q.invalidated, q.got)
BY Zenon DEF ClientTypes, Wrote

LEMMA WritesGoto ==
  ASSUME ClientTypes, NEW r \in Requests, NEW l \in Labels, Goto(r, l)
  PROVE  Wrote(r, l, req[r].outer, req[r].attempt, req[r].sends, req[r].token,
               req[r].invalidated, req[r].got)
BY Zenon DEF ClientTypes, RequestStates, Wrote, Goto

LEMMA WritesToken ==
  ASSUME ClientTypes, NEW r \in Requests, NEW l \in Labels, NEW k \in Nat \cup {-1},
         req' = [req EXCEPT ![r].pc = l, ![r].token = k]
  PROVE  Wrote(r, l, req[r].outer, req[r].attempt, req[r].sends, k,
               req[r].invalidated, req[r].got)
BY ZenonT(40) DEF ClientTypes, RequestStates, Wrote

LEMMA WritesTurn ==
  ASSUME ClientTypes, NEW r \in Requests, NEW l \in Labels, NEW a \in Nat, NEW n \in Nat,
         NEW k \in Nat \cup {-1}, NEW b \in BOOLEAN,
         req' = [req EXCEPT ![r].pc = l, ![r].attempt = a, ![r].sends = n, ![r].token = k,
                            ![r].invalidated = b]
  PROVE  Wrote(r, l, req[r].outer, a, n, k, b, req[r].got)
<1> DEFINE q == [req[r] EXCEPT !.pc = l, !.attempt = a, !.sends = n, !.token = k,
                               !.invalidated = b]
<1>1. req[r] \in RequestStates
  BY Zenon DEF ClientTypes
<1>2. q \in RequestStates
  BY <1>1, FieldTypes, Zenon
<1>3. /\ q.pc = l /\ q.attempt = a /\ q.sends = n /\ q.token = k /\ q.invalidated = b
      /\ q.outer = req[r].outer /\ q.got = req[r].got
  BY <1>1, Zenon DEF RequestStates
<1>4. req' = [req EXCEPT ![r] = q]
  BY Zenon DEF ClientTypes
<1> HIDE DEF q
<1>5. Wrote(r, q.pc, q.outer, q.attempt, q.sends, q.token, q.invalidated, q.got)
  BY <1>2, <1>4, WritesOne, Zenon
<1> QED
  BY <1>3, <1>5, Zenon

LEMMA WritesSent ==
  ASSUME ClientTypes, NEW r \in Requests, NEW l \in Labels, NEW n \in Nat,
         NEW k \in Nat \cup {-1},
         req' = [req EXCEPT ![r].pc = l, ![r].sends = n, ![r].token = k]
  PROVE  Wrote(r, l, req[r].outer, req[r].attempt, n, k, req[r].invalidated, req[r].got)
<1> DEFINE q == [req[r] EXCEPT !.pc = l, !.sends = n, !.token = k]
<1>1. req[r] \in RequestStates
  BY Zenon DEF ClientTypes
<1>2. q \in RequestStates
  BY <1>1, FieldTypes, Zenon
<1>3. /\ q.pc = l /\ q.attempt = req[r].attempt /\ q.sends = n /\ q.token = k
      /\ q.invalidated = req[r].invalidated /\ q.outer = req[r].outer /\ q.got = req[r].got
  BY <1>1, Zenon DEF RequestStates
<1>4. req' = [req EXCEPT ![r] = q]
  BY Zenon DEF ClientTypes
<1> HIDE DEF q
<1>5. Wrote(r, q.pc, q.outer, q.attempt, q.sends, q.token, q.invalidated, q.got)
  BY <1>2, <1>4, WritesOne, Zenon
<1> QED
  BY <1>3, <1>5, Zenon

LEMMA WritesAnew ==
  ASSUME ClientTypes, NEW r \in Requests, NEW l \in Labels, NEW o \in Nat, NEW a \in Nat,
         NEW b \in BOOLEAN,
         req' = [req EXCEPT ![r].pc = l, ![r].outer = o, ![r].attempt = a, ![r].invalidated = b]
  PROVE  Wrote(r, l, o, a, req[r].sends, req[r].token, b, req[r].got)
<1> DEFINE q == [req[r] EXCEPT !.pc = l, !.outer = o, !.attempt = a, !.invalidated = b]
<1>1. req[r] \in RequestStates
  BY Zenon DEF ClientTypes
<1>2. q \in RequestStates
  BY <1>1, FieldTypes, Zenon
<1>3. /\ q.pc = l /\ q.attempt = a /\ q.sends = req[r].sends /\ q.token = req[r].token
      /\ q.invalidated = b /\ q.outer = o /\ q.got = req[r].got
  BY <1>1, Zenon DEF RequestStates
<1>4. req' = [req EXCEPT ![r] = q]
  BY Zenon DEF ClientTypes
<1> HIDE DEF q
<1>5. Wrote(r, q.pc, q.outer, q.attempt, q.sends, q.token, q.invalidated, q.got)
  BY <1>2, <1>4, WritesOne, Zenon
<1> QED
  BY <1>3, <1>5, Zenon

LEMMA WritesRetry ==
  ASSUME ClientTypes, NEW r \in Requests, NEW b \in BOOLEAN, Retry(r, b)
  PROVE  Wrote(r, "token", req[r].outer, req[r].attempt + 1, req[r].sends + 1, -1, b, req[r].got)
<1>1. req[r].attempt + 1 \in Nat /\ req[r].sends + 1 \in Nat /\ -1 \in Nat \cup {-1}
  BY DEF ClientTypes, RequestStates
<1>2. "token" \in Labels
  BY Zenon DEF Labels
<1>3. req' = [req EXCEPT ![r].pc = "token", ![r].attempt = req[r].attempt + 1,
                         ![r].sends = req[r].sends + 1, ![r].token = -1, ![r].invalidated = b]
  BY Zenon DEF ClientTypes, RequestStates, Retry, None
<1> QED
  BY <1>1, <1>2, <1>3, WritesTurn, Zenon

LEMMA WritesEnd ==
  ASSUME ClientTypes, NEW r \in Requests, NEW res \in Results, NEW n \in Nat, Ends(r, res, n)
  PROVE  Wrote(r, "done", 1, 1, req[r].sends + n, -1, FALSE, res)
<1>1. req[r].sends + n \in Nat /\ 1 \in Nat /\ -1 \in Nat \cup {-1}
  BY DEF ClientTypes, RequestStates
<1>2. "done" \in Labels
  BY Zenon DEF Labels
<1> QED
  BY <1>1, <1>2, Zenon
     DEF ClientTypes, RequestStates, Wrote, Ends, Idle, Start, None

LEMMA WritesBegin ==
  ASSUME ClientTypes, NEW r \in Requests, Begin(r)
  PROVE  Wrote(r, "token", 1, 1, 0, -1, FALSE, "nothing")
<1>1. 0 \in Nat /\ 1 \in Nat /\ -1 \in Nat \cup {-1}
  OBVIOUS
<1>2. "token" \in Labels /\ "nothing" \in Results
  BY Zenon DEF Labels, Results
<1> QED
  BY <1>1, <1>2, Zenon
     DEF ClientTypes, RequestStates, Wrote, Begin, Start, None

LEMMA WritesAccepted ==
  ASSUME ClientTypes, NEW r \in Requests, Accepted(r)
  PROVE  Wrote(r, "body", req[r].outer, req[r].attempt, req[r].sends + 1, -1,
               req[r].invalidated, req[r].got)
<1>1. req[r].sends + 1 \in Nat /\ -1 \in Nat \cup {-1}
  BY DEF ClientTypes, RequestStates
<1>2. "body" \in Labels
  BY Zenon DEF Labels
<1>3. req' = [req EXCEPT ![r].pc = "body", ![r].sends = req[r].sends + 1, ![r].token = -1]
  BY Zenon DEF ClientTypes, RequestStates, Accepted, None
<1> QED
  BY <1>1, <1>2, <1>3, WritesSent, Zenon

LEMMA WritesRound ==
  ASSUME ClientTypes, NEW r \in Requests,
         req' = [req EXCEPT ![r].pc = "token", ![r].outer = @ + 1, ![r].attempt = 1,
                            ![r].invalidated = FALSE]
  PROVE  Wrote(r, "token", req[r].outer + 1, 1, req[r].sends, req[r].token, FALSE, req[r].got)
<1>1. req[r].outer + 1 \in Nat /\ 1 \in Nat
  BY DEF ClientTypes, RequestStates
<1>2. "token" \in Labels
  BY Zenon DEF Labels
<1>3. req' = [req EXCEPT ![r].pc = "token", ![r].outer = req[r].outer + 1, ![r].attempt = 1,
                         ![r].invalidated = FALSE]
  BY Zenon DEF ClientTypes, RequestStates
<1> QED
  BY <1>1, <1>2, <1>3, WritesAnew, Zenon

LEMMA WritesFetch ==
  ASSUME ClientTypes, NEW r \in Requests, Fetch(r)
  PROVE  \/ /\ Wrote(r, "store", req[r].outer, req[r].attempt, req[r].sends, era,
                     req[r].invalidated, req[r].got)
            /\ lock' = lock
         \/ /\ Wrote(r, "done", 1, 1, req[r].sends + 0, -1, FALSE, "failed")
            /\ lock' = NoRequest
<1>1. CASE req' = [req EXCEPT ![r].pc = "store", ![r].token = era] /\ UNCHANGED lock
  <2>1. "store" \in Labels /\ era \in Nat \cup {-1}
    BY Zenon DEF Labels, ClientTypes
  <2> QED
    BY <1>1, <2>1, WritesToken, Zenon
<1>2. CASE Ends(r, "failed", 0) /\ lock' = NoRequest
  <2>1. "failed" \in Results
    BY Zenon DEF Results
  <2>2. 0 \in Nat
    OBVIOUS
  <2> QED
    BY <1>2, <2>1, <2>2, WritesEnd, Zenon
<1> QED
  BY <1>1, <1>2, Zenon DEF Fetch

\* A send that ends the request.
LEMMA WritesLast ==
  ASSUME ClientTypes, NEW r \in Requests, NEW res \in {"ok", "failed", "rejected"},
         NEW n \in {0, 1}, Ends(r, res, n)
  PROVE  Wrote(r, "done", 1, 1, req[r].sends + n, -1, FALSE, res)
<1>1. res \in Results
  BY Zenon DEF Results
<1>2. n \in Nat
  OBVIOUS
<1> QED
  BY <1>1, <1>2, WritesEnd, Zenon

LEMMA WritesRejected ==
  ASSUME ClientTypes, NEW r \in Requests, Rejected(r)
  PROVE  \/ /\ req[r].invalidated
            /\ Wrote(r, "done", 1, 1, req[r].sends + 1, -1, FALSE, "rejected")
            /\ UNCHANGED <<cached, due, since>>
         \/ /\ ~req[r].invalidated
            /\ Wrote(r, "token", req[r].outer, req[r].attempt + 1, req[r].sends + 1, -1, TRUE,
                     req[r].got)
            /\ cached' = -1 /\ due' = FALSE
            /\ since' = [since EXCEPT ![r] =
                           [era |-> era, overlap |-> \E o \in Requests : req[o].pc = "store"]]
<1>1. CASE req[r].invalidated
  BY <1>1, WritesLast, Zenon DEF Rejected
<1>2. CASE ~req[r].invalidated
  <2>1. Retry(r, TRUE)
    BY <1>2, Zenon DEF Rejected
  <2> QED
    BY <1>2, <2>1, WritesRetry, Zenon DEF Rejected, None, At
<1> QED
  BY <1>1, <1>2, Zenon

LEMMA WritesTransient ==
  ASSUME ClientTypes, NEW r \in Requests, Transient(r)
  PROVE  \/ /\ req[r].attempt < MaxAttempts
            /\ Wrote(r, "token", req[r].outer, req[r].attempt + 1, req[r].sends + 1, -1,
                     req[r].invalidated, req[r].got)
         \/ Wrote(r, "done", 1, 1, req[r].sends + 1, -1, FALSE, "failed")
<1>1. CASE req[r].attempt < MaxAttempts
  <2>1. Retry(r, req[r].invalidated)
    BY <1>1, Zenon DEF Transient
  <2>2. req[r].invalidated \in BOOLEAN
    BY Zenon DEF ClientTypes, RequestStates
  <2> QED
    BY <1>1, <2>1, <2>2, WritesRetry, Zenon
<1>2. CASE ~(req[r].attempt < MaxAttempts)
  BY <1>2, WritesLast, Zenon DEF Transient
<1> QED
  BY <1>1, <1>2, Zenon

LEMMA WritesBroken ==
  ASSUME ClientTypes, NEW r \in Requests, BodyBreaks(r)
  PROVE  \/ /\ r \in Ranges /\ req[r].outer < MaxAttempts
            /\ Wrote(r, "token", req[r].outer + 1, 1, req[r].sends, req[r].token, FALSE, req[r].got)
         \/ Wrote(r, "done", 1, 1, req[r].sends + 0, -1, FALSE, "failed")
<1>1. CASE /\ r \in Ranges /\ req[r].outer < MaxAttempts
           /\ req' = [req EXCEPT ![r].pc = "token", ![r].outer = @ + 1, ![r].attempt = 1,
                                 ![r].invalidated = FALSE]
  BY <1>1, WritesRound, Zenon
<1>2. CASE Ends(r, "failed", 0)
  BY <1>2, WritesLast, Zenon
<1> QED
  BY <1>1, <1>2, Zenon DEF BodyBreaks

LEMMA WritesFast ==
  ASSUME ClientTypes, NEW r \in Requests, FastPath(r) \/ Recheck(r)
  PROVE  \E l \in {"lock", "fetch", "send"} :
           /\ l = "send" => cached # -1
           /\ Wrote(r, l, req[r].outer, req[r].attempt, req[r].sends,
                    IF l = "send" THEN cached ELSE req[r].token, req[r].invalidated, req[r].got)
<1>1. \A l \in {"lock", "fetch", "send"} : l \in Labels
  BY Zenon DEF Labels
<1>2. CASE HasToken(r) /\ cached # -1
  BY <1>1, <1>2, WritesToken, Zenon DEF HasToken, ClientTypes
<1>3. ASSUME NEW l \in {"lock", "fetch"}, Goto(r, l)
      PROVE  Wrote(r, l, req[r].outer, req[r].attempt, req[r].sends,
                   IF l = "send" THEN cached ELSE req[r].token, req[r].invalidated, req[r].got)
  <2>1. l # "send" /\ l \in Labels
    BY <1>1, Zenon
  <2> QED
    BY <1>3, <2>1, WritesGoto, Zenon
<1> QED
  BY <1>2, <1>3, Zenon DEF FastPath, Recheck, None

(***************************************************************************)
(* The number of sends                                                     *)
(***************************************************************************)

LEMMA RoundsGrow ==
  /\ \A n \in Nat : Rounds(n) \in Nat /\ Rounds(n + 1) = Rounds(n) + MaxAttempts + 1
  /\ \A m, n \in Nat : m <= n => Rounds(m) <= Rounds(n)
<1> USE AttemptsAssumption
<1>1. \A n \in Nat : Rounds(n) \in Nat
  BY DEF Rounds
<1>2. \A n \in Nat : Rounds(n + 1) = Rounds(n) + MaxAttempts + 1
  BY DEF Rounds
<1>3. ASSUME NEW m \in Nat, NEW n \in Nat, m <= n PROVE Rounds(m) <= Rounds(n)
  <2>1. n - m \in Nat /\ n = m + (n - m)
    BY <1>3
  <2>2. (MaxAttempts + 1) * (m + (n - m)) = (MaxAttempts + 1) * m + (MaxAttempts + 1) * (n - m)
    BY <2>1
  <2>3. (MaxAttempts + 1) * (n - m) \in Nat /\ (MaxAttempts + 1) * m \in Nat
    BY <2>1
  <2> QED
    BY <2>1, <2>2, <2>3 DEF Rounds
<1> QED
  BY <1>1, <1>2, <1>3, Zenon

\* One request changes, to counters that are right.
LEMMA CountWrote ==
  ASSUME ClientTypes, CountInv, NEW r \in Requests,
         NEW pc, NEW outer, NEW attempt, NEW sends, NEW token, NEW invalidated, NEW got,
         Wrote(r, pc, outer, attempt, sends, token, invalidated, got),
         Counted(r, [pc |-> pc, outer |-> outer, attempt |-> attempt, sends |-> sends,
                     token |-> token, invalidated |-> invalidated, got |-> got])
  PROVE  CountInv'
<1>1. Counted(r, req'[r])
  BY DEF Wrote, Counted
<1>2. \A o \in Requests : Counted(o, req'[o])
  BY <1>1, Zenon DEF Wrote, CountInv
<1> QED
  BY <1>2, Zenon DEF CountInv

\* A send more is within the request's quota.
LEMMA SendFits ==
  ASSUME ClientTypes, CountInv, NEW r \in Requests, req[r].pc \in Sending
  PROVE  /\ req[r].sends + 1 <= Rounds(req[r].outer)
         /\ Rounds(req[r].outer) <= Rounds(IF r \in Ranges THEN MaxAttempts ELSE 1)
<1> USE AttemptsAssumption
<1> DEFINE q == req[r]
           quota == IF r \in Ranges THEN MaxAttempts ELSE 1
<1>1. /\ q.outer \in Nat /\ q.outer >= 1 /\ q.outer <= quota /\ quota \in Nat
      /\ q.attempt \in Nat /\ q.attempt <= MaxAttempts + 1 /\ q.sends \in Nat
      /\ q.sends <= Rounds(q.outer - 1) + (q.attempt - 1)
  BY DEF CountInv, Counted, ClientTypes, RequestStates
<1> HIDE DEF q, quota
<1>2. q.outer - 1 \in Nat /\ (q.outer - 1) + 1 = q.outer
  BY <1>1
<1>3. Rounds(q.outer) = Rounds(q.outer - 1) + MaxAttempts + 1 /\ Rounds(q.outer - 1) \in Nat
  <2> HIDE DEF Rounds
  <2>1. Rounds((q.outer - 1) + 1) = Rounds(q.outer - 1) + MaxAttempts + 1
    BY <1>2, RoundsGrow, Zenon
  <2> QED
    BY <1>2, <2>1, RoundsGrow, Zenon
<1>4. Rounds(q.outer) <= Rounds(quota)
  BY <1>1, RoundsGrow, Zenon
<1>5. q.sends + 1 <= Rounds(q.outer)
  BY <1>1, <1>3
<1> QED
  BY <1>4, <1>5 DEF q, quota

\* The state variables' types, step by step.
LEMMA ClientStepTypes == ClientTypes /\ [ClientNext]_clientVars => ClientTypes'
<1> SUFFICES ASSUME ClientTypes, [ClientNext]_clientVars PROVE ClientTypes'
  BY Zenon
<1>a. ASSUME NEW r \in Requests, \E p, u, a, n, k, b, g : Wrote(r, p, u, a, n, k, b, g),
             era' = era, cached' \in Nat \cup {-1}, due' \in BOOLEAN,
             lock' \in Requests \cup {NoRequest}, since' \in [Requests -> [era : Nat, overlap : BOOLEAN]]
      PROVE  ClientTypes'
  BY <1>a, Zenon DEF Wrote, ClientTypes
<1>b. ASSUME NEW r \in Requests, \E p, u, a, n, k, b, g : Wrote(r, p, u, a, n, k, b, g),
             UNCHANGED <<era, cached, due, since>>, lock' \in Requests \cup {NoRequest}
      PROVE  ClientTypes'
  BY <1>a, <1>b, Zenon DEF ClientTypes
<1>l. \A l \in {"lock", "recheck", "fetch", "store", "send", "token"} : l \in Labels
  BY Zenon DEF Labels
<1>1. ASSUME NEW r \in Requests, Begin(r) PROVE ClientTypes'
  BY <1>1, <1>b, WritesBegin, Zenon DEF Begin, ClientTypes
<1>2. ASSUME NEW r \in Requests, FastPath(r) PROVE ClientTypes'
  BY <1>2, <1>b, <1>l, WritesToken, WritesGoto, ZenonT(40)
     DEF FastPath, HasToken, ClientTypes
<1>3. ASSUME NEW r \in Requests, Lock(r) PROVE ClientTypes'
  BY <1>3, <1>b, <1>l, WritesGoto, Zenon DEF Lock, ClientTypes
<1>4. ASSUME NEW r \in Requests, Recheck(r) PROVE ClientTypes'
  BY <1>4, <1>b, <1>l, WritesToken, WritesGoto, ZenonT(40)
     DEF Recheck, HasToken, ClientTypes
<1>5. ASSUME NEW r \in Requests, Fetch(r) PROVE ClientTypes'
  BY <1>5, <1>b, WritesFetch, Zenon DEF Fetch, ClientTypes
<1>6. ASSUME NEW r \in Requests, Store(r) PROVE ClientTypes'
  <2>1. req[r].token \in Nat \cup {-1}
    BY Zenon DEF ClientTypes, RequestStates
  <2> QED
    BY <1>6, <1>a, <1>l, <2>1, WritesGoto, Zenon DEF Store, ClientTypes
<1>7. ASSUME NEW r \in Requests, Rejected(r) PROVE ClientTypes'
  <2>1. CASE UNCHANGED since
    BY <1>7, <2>1, <1>a, WritesRejected, Zenon DEF Rejected, ClientTypes
  <2>2. CASE since' = [since EXCEPT ![r] =
                         [era |-> era, overlap |-> \E o \in Requests : req[o].pc = "store"]]
    <3>1. (\E o \in Requests : req[o].pc = "store") \in BOOLEAN
      BY Zenon
    <3>2. since' \in [Requests -> [era : Nat, overlap : BOOLEAN]]
      BY <2>2, <3>1, Zenon DEF ClientTypes
    <3> QED
      BY <1>7, <1>a, <3>2, WritesRejected, Zenon DEF Rejected, ClientTypes
  <2> QED
    BY <1>7, <2>1, <2>2, WritesRejected, Zenon
<1>8. ASSUME NEW r \in Requests, Transient(r) PROVE ClientTypes'
  BY <1>8, <1>b, WritesTransient, Zenon DEF Transient, ClientTypes
<1>9. ASSUME NEW r \in Requests, Fatal(r) PROVE ClientTypes'
  BY <1>9, <1>b, WritesLast, Zenon DEF Fatal, ClientTypes
<1>10. ASSUME NEW r \in Requests, Accepted(r) PROVE ClientTypes'
  BY <1>10, <1>b, WritesAccepted, Zenon DEF Accepted, ClientTypes
<1>11. ASSUME NEW r \in Requests, BodyComes(r) PROVE ClientTypes'
  BY <1>11, <1>b, WritesLast, Zenon DEF BodyComes, ClientTypes
<1>12. ASSUME NEW r \in Requests, BodyBreaks(r) PROVE ClientTypes'
  BY <1>12, <1>b, WritesBroken, Zenon DEF BodyBreaks, ClientTypes
<1>13. ASSUME Rotate PROVE ClientTypes'
  BY <1>13 DEF Rotate, ClientTypes
<1>14. ASSUME Due PROVE ClientTypes'
  BY <1>14, Zenon DEF Due, ClientTypes
<1>15. ASSUME UNCHANGED clientVars PROVE ClientTypes'
  BY <1>15, Zenon DEF clientVars, ClientTypes
<1> QED
  BY <1>1, <1>2, <1>3, <1>4, <1>5, <1>6, <1>7, <1>8, <1>9, <1>10, <1>11, <1>12, <1>13, <1>14,
     <1>15, Zenon DEF ClientNext, Step, ClientFinished

LEMMA ClientStarts == ClientInit => ClientTypes /\ CountInv
<1> USE AttemptsAssumption
<1> SUFFICES ASSUME ClientInit PROVE ClientTypes /\ CountInv
  BY Zenon
<1>1. Idle \in RequestStates
  <2>1. 0 \in Nat /\ 1 \in Nat /\ -1 \in Nat \cup {-1}
    OBVIOUS
  <2> QED
    BY <2>1, Zenon DEF Idle, Start, None, RequestStates, Labels, Results
<1>2. ClientTypes
  <2>1. era \in Nat /\ cached \in Nat
    BY DEF ClientInit
  <2>2. req \in [Requests -> RequestStates]
    BY <1>1, Zenon DEF ClientInit
  <2>3. since \in [Requests -> [era : Nat, overlap : BOOLEAN]]
    BY DEF ClientInit
  <2> QED
    BY <2>1, <2>2, <2>3, Zenon DEF ClientInit, ClientTypes
<1>3. Idle.pc = "idle" /\ Idle.outer = 1 /\ Idle.sends = 0
  BY Zenon DEF Idle, Start
<1>4. ASSUME NEW r \in Requests PROVE Counted(r, Idle)
  <2>1. Rounds(IF r \in Ranges THEN MaxAttempts ELSE 1) \in Nat
    BY RoundsGrow, Zenon
  <2> QED
    BY <1>3, <2>1 DEF Counted, Sending
<1> QED
  BY <1>2, <1>4, Zenon DEF CountInv, ClientInit

LEMMA ClientStepCount == ClientTypes /\ CountInv /\ [ClientNext]_clientVars => CountInv'
<1> USE AttemptsAssumption
<1> SUFFICES ASSUME ClientTypes, CountInv, [ClientNext]_clientVars PROVE CountInv'
  BY Zenon
<1>q. ASSUME NEW r \in Requests
      PROVE  /\ req[r].outer \in Nat /\ req[r].attempt \in Nat /\ req[r].sends \in Nat
             /\ Counted(r, req[r])
  BY Zenon DEF CountInv, ClientTypes, RequestStates
<1>R. /\ \A n \in Nat : Rounds(n) \in Nat
      /\ \A r : Rounds(IF r \in Ranges THEN MaxAttempts ELSE 1) \in Nat
  <2>1. \A r : (IF r \in Ranges THEN MaxAttempts ELSE 1) \in Nat
    OBVIOUS
  <2> QED
    BY <2>1, RoundsGrow, Zenon
<1>a. ASSUME NEW r \in Requests, req[r].pc \in Sending, NEW l \in Sending, NEW k, NEW g,
             Wrote(r, l, req[r].outer, req[r].attempt, req[r].sends, k, req[r].invalidated, g)
      PROVE  CountInv'
  <2>1. Counted(r, [pc |-> l, outer |-> req[r].outer, attempt |-> req[r].attempt,
                    sends |-> req[r].sends, token |-> k, invalidated |-> req[r].invalidated,
                    got |-> g])
    BY <1>a, <1>q DEF Counted, Sending
  <2> QED
    BY <1>a, <2>1, CountWrote, ZenonT(40)
<1>b. ASSUME NEW r \in Requests, NEW n \in {0, 1}, NEW g,
             req[r].sends + n <= Rounds(IF r \in Ranges THEN MaxAttempts ELSE 1),
             Wrote(r, "done", 1, 1, req[r].sends + n, -1, FALSE, g)
      PROVE  CountInv'
  <2>1. Counted(r, [pc |-> "done", outer |-> 1, attempt |-> 1, sends |-> req[r].sends + n,
                    token |-> -1, invalidated |-> FALSE, got |-> g])
    BY <1>b DEF Counted, Sending
  <2> QED
    BY <1>b, <2>1, CountWrote, Zenon
<1>c. ASSUME NEW r \in Requests, NEW g, req[r].pc \in Sending,
             Wrote(r, "done", 1, 1, req[r].sends + 1, -1, FALSE, g)
      PROVE  CountInv'
  <2>1. Rounds(IF r \in Ranges THEN MaxAttempts ELSE 1) \in Nat /\ Rounds(req[r].outer) \in Nat
    BY <1>q, <1>R, Zenon
  <2>2. req[r].sends + 1 <= Rounds(IF r \in Ranges THEN MaxAttempts ELSE 1)
    BY <1>c, <1>q, <2>1, SendFits
  <2> QED
    BY <1>b, <1>c, <2>2, Zenon
<1>d. ASSUME NEW r \in Requests, NEW g,
             Wrote(r, "done", 1, 1, req[r].sends + 0, -1, FALSE, g)
      PROVE  CountInv'
  <2>1. req[r].sends + 0 <= Rounds(IF r \in Ranges THEN MaxAttempts ELSE 1)
    BY <1>q DEF Counted
  <2> QED
    BY <1>b, <1>d, <2>1, Zenon
<1>e. ASSUME NEW r \in Requests, req[r].pc \in Sending, NEW b \in BOOLEAN, NEW g,
             req[r].attempt + 1 <= MaxAttempts + (IF b THEN 1 ELSE 0),
             Wrote(r, "token", req[r].outer, req[r].attempt + 1, req[r].sends + 1, -1, b, g)
      PROVE  CountInv'
  <2>1. req[r].outer - 1 \in Nat /\ req[r].outer \in Nat
    BY <1>q DEF Counted
  <2>2. /\ Rounds(req[r].outer - 1) \in Nat /\ Rounds(req[r].outer) \in Nat
        /\ Rounds(IF r \in Ranges THEN MaxAttempts ELSE 1) \in Nat
    BY <2>1, <1>R, Zenon
  <2>3. req[r].sends + 1 <= Rounds(IF r \in Ranges THEN MaxAttempts ELSE 1)
    BY <1>e, <1>q, <2>2, SendFits, SMTT(30)
  <2>4. Counted(r, [pc |-> "token", outer |-> req[r].outer, attempt |-> req[r].attempt + 1,
                    sends |-> req[r].sends + 1, token |-> -1, invalidated |-> b, got |-> g])
    BY <1>e, <1>q, <2>2, <2>3, SMTT(30) DEF Counted, Sending
  <2> QED
    BY <1>e, <2>4, CountWrote, Zenon
<1>1. ASSUME NEW r \in Requests, Begin(r) PROVE CountInv'
  <2>1. Rounds(IF r \in Ranges THEN MaxAttempts ELSE 1) \in Nat /\ Rounds(0) \in Nat
    BY <1>R
  <2>2. Counted(r, [pc |-> "token", outer |-> 1, attempt |-> 1, sends |-> 0, token |-> -1,
                    invalidated |-> FALSE, got |-> "nothing"])
    BY <2>1 DEF Counted, Sending
  <2> QED
    BY <1>1, <2>2, WritesBegin, CountWrote, Zenon
<1>s. \A l \in {"token", "lock", "recheck", "fetch", "store", "send"} : l \in Sending /\ l \in Labels
  BY Zenon DEF Sending, Labels
<1>2. ASSUME NEW r \in Requests, FastPath(r) PROVE CountInv'
  BY <1>2, <1>a, <1>s, WritesFast, Zenon DEF FastPath, At
<1>3. ASSUME NEW r \in Requests, Lock(r) PROVE CountInv'
  BY <1>3, <1>a, <1>s, WritesGoto, Zenon DEF Lock, At
<1>4. ASSUME NEW r \in Requests, Recheck(r) PROVE CountInv'
  BY <1>4, <1>a, <1>s, WritesFast, Zenon DEF Recheck, At
<1>5. ASSUME NEW r \in Requests, Fetch(r) PROVE CountInv'
  BY <1>5, <1>a, <1>d, <1>s, WritesFetch, Zenon DEF Fetch, At
<1>6. ASSUME NEW r \in Requests, Store(r) PROVE CountInv'
  BY <1>6, <1>a, <1>s, WritesGoto, Zenon DEF Store, At
<1>7. ASSUME NEW r \in Requests, Rejected(r) PROVE CountInv'
  <2>1. req[r].pc \in Sending
    BY <1>7, <1>s, Zenon DEF Rejected, At
  <2>2. ~req[r].invalidated => req[r].attempt + 1 <= MaxAttempts + (IF TRUE THEN 1 ELSE 0)
    BY <1>q, <2>1 DEF Counted
  <2> QED
    BY <1>7, <1>c, <1>e, <2>1, <2>2, WritesRejected, Zenon
<1>8. ASSUME NEW r \in Requests, Transient(r) PROVE CountInv'
  <2>1. req[r].pc \in Sending /\ req[r].invalidated \in BOOLEAN
    BY <1>8, <1>s, Zenon DEF Transient, At, ClientTypes, RequestStates
  <2>2. req[r].attempt < MaxAttempts =>
          req[r].attempt + 1 <= MaxAttempts + (IF req[r].invalidated THEN 1 ELSE 0)
    BY <1>q
  <2> QED
    BY <1>8, <1>c, <1>e, <2>1, <2>2, WritesTransient, Zenon
<1>9. ASSUME NEW r \in Requests, Fatal(r) PROVE CountInv'
  BY <1>9, <1>c, <1>s, WritesLast, Zenon DEF Fatal, At
<1>10. ASSUME NEW r \in Requests, Accepted(r) PROVE CountInv'
  <2>1. req[r].pc \in Sending
    BY <1>10, <1>s, ZenonT(40) DEF Accepted, At
  <2>2. Rounds(IF r \in Ranges THEN MaxAttempts ELSE 1) \in Nat /\ Rounds(req[r].outer) \in Nat
    BY <1>q, <1>R, Zenon
  <2>3. Counted(r, [pc |-> "body", outer |-> req[r].outer, attempt |-> req[r].attempt,
                    sends |-> req[r].sends + 1, token |-> -1, invalidated |-> req[r].invalidated,
                    got |-> req[r].got])
    BY <1>q, <2>1, <2>2, SendFits, SMTT(30) DEF Counted, Sending
  <2> QED
    BY <1>10, <2>3, WritesAccepted, CountWrote, Zenon
<1>11. ASSUME NEW r \in Requests, BodyComes(r) PROVE CountInv'
  BY <1>11, <1>d, WritesLast, Zenon DEF BodyComes
<1>12. ASSUME NEW r \in Requests, BodyBreaks(r) PROVE CountInv'
  <2>1. ASSUME r \in Ranges, req[r].outer < MaxAttempts
        PROVE  Counted(r, [pc |-> "token", outer |-> req[r].outer + 1, attempt |-> 1,
                           sends |-> req[r].sends, token |-> req[r].token, invalidated |-> FALSE,
                           got |-> req[r].got])
    <3>1. req[r].pc = "body"
      BY <1>12, Zenon DEF BodyBreaks, At
    <3>2. (req[r].outer + 1) - 1 = req[r].outer
      BY <1>q
    <3>3. Rounds(req[r].outer) \in Nat
      BY <1>q, <1>R, Zenon
    <3> QED
      BY <1>q, <2>1, <3>1, <3>2, <3>3, SMTT(30) DEF Counted, Sending
  <2> QED
    BY <1>12, <1>d, <2>1, WritesBroken, CountWrote, ZenonT(40)
<1>13. ASSUME UNCHANGED req PROVE CountInv'
  BY <1>13, Zenon DEF CountInv
<1> QED
  BY <1>1, <1>2, <1>3, <1>4, <1>5, <1>6, <1>7, <1>8, <1>9, <1>10, <1>11, <1>12, <1>13, Zenon
     DEF ClientNext, Step, ClientFinished, Rotate, Due, clientVars

\* However failures of connections, bodies and tokens mix, BlobClient::send and
\* get_blob_range ask Azure at most (MaxAttempts + 1) times in each round, for any number
\* of attempts and of requests that share the token.
THEOREM RetriesAreBounded == ClientSpec => []SendsBounded
<1>1. ClientInit => ClientTypes /\ CountInv
  BY ClientStarts, Zenon
<1>2. ClientTypes /\ CountInv /\ [ClientNext]_clientVars => CountInv'
  BY ClientStepCount, Zenon
<1>3. CountInv => SendsBounded
  BY ZenonT(40) DEF CountInv, Counted, Rounds, SendsBounded
<1> QED
  BY <1>1, <1>2, <1>3, ClientStepTypes, PTL DEF ClientSpec

(***************************************************************************)
(* Why a request is rejected                                               *)
(***************************************************************************)

\* Whatever token r may still send with is at least as new as its invalidation.
FreshFor(r) ==
  /\ cached = -1 \/ cached >= since[r].era
  /\ \A o \in Requests : req[o].pc = "store" => req[o].token >= since[r].era
  /\ req[r].pc = "send" => req[r].token >= since[r].era

CauseInv ==
  /\ cached <= era
  /\ \A r \in Requests : /\ req[r].token <= era /\ since[r].era <= era
                         /\ req[r].pc # "done" => req[r].got = "nothing"
  /\ \A r \in Requests : req[r].invalidated /\ ~since[r].overlap => FreshFor(r)
  /\ RejectedWithCause

LEMMA CauseInit == ClientInit => CauseInv
<1> SUFFICES ASSUME ClientInit PROVE CauseInv
  BY Zenon
<1>1. /\ Idle.token = -1 /\ Idle.got = "nothing" /\ Idle.invalidated = FALSE
  BY Zenon DEF Idle, Start, None
<1>2. \A r \in Requests : req[r] = Idle /\ since[r] = [era |-> 0, overlap |-> FALSE]
  BY Zenon DEF ClientInit
<1>3. era = 0 /\ cached = 0
  BY Zenon DEF ClientInit
<1> QED
  BY <1>1, <1>2, <1>3 DEF CauseInv, RejectedWithCause

\* A step of one request that leaves the periods and the invalidations alone.
LEMMA CauseWrote ==
  ASSUME ClientTypes, ClientTypes', CauseInv, NEW r \in Requests,
         \A o \in Requests \ {r} : req'[o] = req[o], UNCHANGED <<era, since>>,
         req'[r].token <= era,
         cached' = cached \/ (cached' = req[r].token /\ req[r].pc = "store"),
         req'[r].invalidated => req[r].invalidated,
         req'[r].pc = "store" => req'[r].token = era,
         req'[r].pc = "send" /\ req'[r].invalidated /\ ~since[r].overlap
           => req'[r].token >= since[r].era,
         req'[r].pc # "done" => req'[r].got = "nothing",
         req'[r].got = "rejected" => era > since[r].era \/ since[r].overlap
  PROVE  CauseInv'
<1>t. /\ era \in Nat /\ cached \in Nat \cup {-1}
      /\ \A o \in Requests : since[o].era \in Nat /\ req[o].token \in Nat \cup {-1}
      /\ req'[r].token \in Nat \cup {-1} /\ \A o \in Requests : o # r => req'[o] = req[o]
  BY Zenon DEF ClientTypes, RequestStates
<1>1. cached' <= era'
  BY <1>t DEF CauseInv
<1>2. \A o \in Requests : /\ req'[o].token <= era' /\ since'[o].era <= era'
                          /\ req'[o].pc # "done" => req'[o].got = "nothing"
  BY ZenonT(40) DEF CauseInv
<1>3. ASSUME NEW o \in Requests, req'[o].invalidated, ~since'[o].overlap PROVE FreshFor(o)'
  <2>1. req[o].invalidated /\ ~since[o].overlap
    BY <1>3, Zenon
  <2>2. FreshFor(o) /\ since[o].era <= era
    BY <2>1, Zenon DEF CauseInv
  <2>3. cached' = -1 \/ cached' >= since[o].era
    BY <2>2, ZenonT(40) DEF FreshFor
  <2>4. \A p \in Requests : req'[p].pc = "store" => req'[p].token >= since[o].era
    BY <1>t, <2>2 DEF FreshFor
  <2>5. req'[o].pc = "send" => req'[o].token >= since[o].era
    BY <1>3, <2>2, Zenon DEF FreshFor
  <2> QED
    BY <2>3, <2>4, <2>5, Zenon DEF FreshFor
<1>4. RejectedWithCause'
  BY Zenon DEF CauseInv, RejectedWithCause
<1> QED
  BY <1>1, <1>2, <1>3, <1>4, Zenon DEF CauseInv

LEMMA CauseStep == ClientTypes /\ ClientTypes' /\ CauseInv /\ [ClientNext]_clientVars => CauseInv'
<1> SUFFICES ASSUME ClientTypes, ClientTypes', CauseInv, [ClientNext]_clientVars PROVE CauseInv'
  BY Zenon
<1>t. /\ era \in Nat /\ cached \in Nat \cup {-1} /\ -1 \in Nat \cup {-1} /\ -1 <= era
      /\ \A o \in Requests : since[o].era \in Nat /\ req[o].token \in Nat \cup {-1}
  BY DEF ClientTypes, RequestStates
<1>c. /\ cached <= era /\ \A o \in Requests : req[o].token <= era
      /\ \A o \in Requests : req[o].pc # "done" => req[o].got = "nothing"
  BY Zenon DEF CauseInv
<1>f. \A o \in Requests : req[o].invalidated /\ ~since[o].overlap => FreshFor(o)
  BY Zenon DEF CauseInv
\* The request ends otherwise than with a 401.
<1>e. ASSUME NEW r \in Requests, NEW n, NEW g \in {"ok", "failed"},
             Wrote(r, "done", 1, 1, n, -1, FALSE, g), UNCHANGED <<era, cached, since>>
      PROVE  CauseInv'
  <2>1. /\ req'[r].pc = "done" /\ req'[r].token = -1 /\ ~req'[r].invalidated
        /\ req'[r].got # "rejected" /\ \A o \in Requests \ {r} : req'[o] = req[o]
    BY <1>e, Zenon DEF Wrote
  <2> QED
    BY <1>e, <1>t, <2>1, CauseWrote, Zenon
\* It goes on with the token it has, or none.
<1>g. ASSUME NEW r \in Requests, \A o \in Requests \ {r} : req'[o] = req[o],
             req'[r].pc \in {"token", "lock", "recheck", "fetch", "body"},
             req'[r].token \in {-1, req[r].token}, req'[r].got = "nothing",
             req'[r].invalidated => req[r].invalidated, UNCHANGED <<era, cached, since>>
      PROVE  CauseInv'
  <2>1. req'[r].token <= era
    BY <1>g, <1>t, <1>c, Zenon
  <2>2. req'[r].pc # "store" /\ req'[r].pc # "send" /\ req'[r].got # "rejected"
    BY <1>g, Zenon
  <2> QED
    BY <1>g, <2>1, <2>2, CauseWrote, Zenon
<1>1. ASSUME NEW r \in Requests, Begin(r) PROVE CauseInv'
  <2>1. Wrote(r, "token", 1, 1, 0, -1, FALSE, "nothing") /\ UNCHANGED <<era, cached, since>>
    BY <1>1, WritesBegin, Zenon DEF Begin
  <2> QED
    BY <2>1, <1>g, Zenon DEF Wrote
<1>2. ASSUME NEW r \in Requests, FastPath(r) \/ Recheck(r) PROVE CauseInv'
  <2>0. /\ UNCHANGED <<era, cached, since>> /\ req[r].pc # "done"
    BY <1>2, Zenon DEF FastPath, Recheck, At
  <2>1. PICK l \in {"lock", "fetch", "send"} :
           /\ l = "send" => cached # -1
           /\ Wrote(r, l, req[r].outer, req[r].attempt, req[r].sends,
                    IF l = "send" THEN cached ELSE req[r].token, req[r].invalidated, req[r].got)
    BY <1>2, WritesFast, Zenon
  <2>2. CASE l = "send"
    <3>1. Wrote(r, "send", req[r].outer, req[r].attempt, req[r].sends, cached,
                req[r].invalidated, req[r].got)
      BY <2>1, <2>2, Zenon
    <3>2. req[r].invalidated /\ ~since[r].overlap => cached >= since[r].era
      BY <1>f, <2>1, <2>2, Zenon DEF FreshFor
    <3>3. req[r].got = "nothing"
      BY <1>c, <2>0, Zenon
    <3> QED
      BY <1>c, <2>0, <3>1, <3>2, <3>3, CauseWrote, Zenon DEF Wrote
  <2>3. CASE l # "send"
    <3>1. Wrote(r, l, req[r].outer, req[r].attempt, req[r].sends, req[r].token,
                req[r].invalidated, req[r].got)
      BY <2>1, <2>3, Zenon
    <3> QED
      BY <1>c, <1>g, <2>0, <2>3, <3>1, Zenon DEF Wrote
  <2> QED
    BY <2>2, <2>3, Zenon
<1>3. ASSUME NEW r \in Requests, Lock(r) PROVE CauseInv'
  <2>1. "recheck" \in Labels
    BY Zenon DEF Labels
  <2>2. /\ Goto(r, "recheck") /\ UNCHANGED <<era, cached, since>> /\ req[r].got = "nothing"
    BY <1>3, <1>c, Zenon DEF Lock, At
  <2>3. Wrote(r, "recheck", req[r].outer, req[r].attempt, req[r].sends, req[r].token,
              req[r].invalidated, req[r].got)
    BY <2>1, <2>2, WritesGoto, Zenon
  <2> QED
    BY <1>g, <2>2, <2>3, Zenon DEF Wrote
<1>5. ASSUME NEW r \in Requests, Fetch(r) PROVE CauseInv'
  <2>0. UNCHANGED <<era, cached, since>> /\ req[r].pc # "done"
    BY <1>5, Zenon DEF Fetch, At
  <2>1. CASE Wrote(r, "store", req[r].outer, req[r].attempt, req[r].sends, era,
                   req[r].invalidated, req[r].got)
    <3>1. era \in Nat \cup {-1} /\ era <= era /\ req[r].got = "nothing"
      BY <1>t, <1>c, <2>0
    <3> QED
      BY <2>0, <2>1, <3>1, CauseWrote, Zenon DEF Wrote
  <2> QED
    BY <1>5, <1>e, <2>0, <2>1, WritesFetch, Zenon
<1>6. ASSUME NEW r \in Requests, Store(r) PROVE CauseInv'
  <2>1. /\ UNCHANGED <<era, since>> /\ cached' = req[r].token /\ req[r].pc = "store"
        /\ Goto(r, "send") /\ "send" \in Labels
    BY <1>6, Zenon DEF Store, At, Labels
  <2>2. req[r].invalidated /\ ~since[r].overlap => req[r].token >= since[r].era
    BY <1>f, <2>1, Zenon DEF FreshFor
  <2>3. req[r].got = "nothing"
    BY <1>c, <2>1, Zenon
  <2>4. Wrote(r, "send", req[r].outer, req[r].attempt, req[r].sends, req[r].token,
              req[r].invalidated, req[r].got)
    BY <2>1, WritesGoto, Zenon
  <2> QED
    BY <1>c, <2>1, <2>2, <2>3, <2>4, CauseWrote, ZenonT(40) DEF Wrote
<1>7. ASSUME NEW r \in Requests, Rejected(r) PROVE CauseInv'
  <2>0. era' = era /\ req[r].pc = "send" /\ req[r].token # era
    BY <1>7, Zenon DEF Rejected, At
  <2>1. CASE /\ req[r].invalidated
             /\ Wrote(r, "done", 1, 1, req[r].sends + 1, -1, FALSE, "rejected")
             /\ UNCHANGED <<cached, due, since>>
    <3>1. era > since[r].era \/ since[r].overlap
      BY <1>t, <1>c, <1>f, <2>0, <2>1 DEF FreshFor
    <3> QED
      BY <1>t, <2>0, <2>1, <3>1, CauseWrote, Zenon DEF Wrote
  <2>2. CASE /\ Wrote(r, "token", req[r].outer, req[r].attempt + 1, req[r].sends + 1, -1, TRUE,
                      req[r].got)
             /\ cached' = -1
             /\ since' = [since EXCEPT ![r] =
                            [era |-> era, overlap |-> \E o \in Requests : req[o].pc = "store"]]
    <3>1. /\ req'[r].pc = "token" /\ req'[r].token = -1 /\ req'[r].got = "nothing"
          /\ \A o \in Requests : o # r => req'[o] = req[o]
      BY <1>c, <2>0, <2>2, Zenon DEF Wrote
    <3>2. /\ since'[r].era = era
          /\ since'[r].overlap <=> \E o \in Requests : req[o].pc = "store"
          /\ \A o \in Requests : o # r => since'[o] = since[o]
      BY <2>2, Zenon DEF ClientTypes
    <3>3. cached' <= era'
      BY <1>t, <2>0, <2>2, ZenonT(40)
    <3>4. \A o \in Requests : /\ req'[o].token <= era' /\ since'[o].era <= era'
                              /\ req'[o].pc # "done" => req'[o].got = "nothing"
      BY <1>t, <2>0, <3>1, <3>2 DEF CauseInv
    <3>5. ASSUME NEW o \in Requests, req'[o].invalidated, ~since'[o].overlap PROVE FreshFor(o)'
      <4>1. CASE o = r
        BY <2>2, <3>1, <3>2, <3>5, <4>1, Zenon DEF FreshFor
      <4>2. CASE o # r
        <5>1. FreshFor(o) /\ since'[o] = since[o] /\ req'[o] = req[o]
          BY <1>f, <3>1, <3>2, <3>5, <4>2, Zenon
        <5> QED
          BY <2>2, <3>1, <5>1, Zenon DEF FreshFor
      <4> QED
        BY <4>1, <4>2, Zenon
    <3>6. RejectedWithCause'
      BY <2>0, <3>1, <3>2, Zenon DEF CauseInv, RejectedWithCause
    <3> QED
      BY <3>3, <3>4, <3>5, <3>6, Zenon DEF CauseInv
  <2> QED
    BY <1>7, <2>1, <2>2, WritesRejected, Zenon
<1>8. ASSUME NEW r \in Requests, Transient(r) PROVE CauseInv'
  <2>0. UNCHANGED <<era, cached, since>> /\ req[r].pc # "done"
    BY <1>8, Zenon DEF Transient, At
  <2>1. CASE Wrote(r, "token", req[r].outer, req[r].attempt + 1, req[r].sends + 1, -1,
                   req[r].invalidated, req[r].got)
    BY <1>c, <1>g, <2>0, <2>1, Zenon DEF Wrote
  <2> QED
    BY <1>8, <1>e, <2>0, <2>1, WritesTransient, Zenon
<1>9. ASSUME NEW r \in Requests, Fatal(r) PROVE CauseInv'
  BY <1>9, <1>e, WritesLast, Zenon DEF Fatal
<1>10. ASSUME NEW r \in Requests, Accepted(r) PROVE CauseInv'
  <2>1. UNCHANGED <<era, cached, since>> /\ req[r].got = "nothing"
    BY <1>10, <1>c, Zenon DEF Accepted, At
  <2>2. Wrote(r, "body", req[r].outer, req[r].attempt, req[r].sends + 1, -1,
              req[r].invalidated, req[r].got)
    BY <1>10, WritesAccepted, Zenon
  <2> QED
    BY <1>g, <2>1, <2>2, Zenon DEF Wrote
<1>11. ASSUME NEW r \in Requests, BodyComes(r) PROVE CauseInv'
  BY <1>11, <1>e, WritesLast, Zenon DEF BodyComes
<1>12. ASSUME NEW r \in Requests, BodyBreaks(r) PROVE CauseInv'
  <2>0. UNCHANGED <<era, cached, since>> /\ req[r].pc # "done"
    BY <1>12, Zenon DEF BodyBreaks, At
  <2>1. CASE Wrote(r, "token", req[r].outer + 1, 1, req[r].sends, req[r].token, FALSE, req[r].got)
    BY <1>c, <1>g, <2>0, <2>1, Zenon DEF Wrote
  <2> QED
    BY <1>12, <1>e, <2>0, <2>1, WritesBroken, Zenon
<1>13. ASSUME Rotate PROVE CauseInv'
  <2>1. era' = era + 1 /\ UNCHANGED <<cached, req, since>>
    BY <1>13, Zenon DEF Rotate
  <2>2. cached' <= era' /\ \A o \in Requests : req'[o].token <= era' /\ since'[o].era <= era'
    BY <1>t, <2>1, SMTT(30) DEF CauseInv
  <2>3. RejectedWithCause'
    BY <1>t, <2>1 DEF CauseInv, RejectedWithCause
  <2>4. \A o \in Requests : req[o].invalidated /\ ~since[o].overlap => FreshFor(o)'
    BY <1>f, <2>1, Zenon DEF FreshFor
  <2> QED
    BY <1>c, <2>1, <2>2, <2>3, <2>4, Zenon DEF CauseInv
<1>14. ASSUME UNCHANGED <<era, cached, req, since>> PROVE CauseInv'
  BY <1>14, Zenon DEF CauseInv, FreshFor, RejectedWithCause
<1> QED
  BY <1>1, <1>2, <1>3, <1>5, <1>6, <1>7, <1>8, <1>9, <1>10, <1>11, <1>12, <1>13, <1>14, Zenon
     DEF ClientNext, Step, ClientFinished, Due, clientVars

\* A request ends with Azure's 401 only if the key was rotated again after the request
\* had invalidated the token, or if a refresh was about to store an older token just then:
\* BearerSource never hands out, for another reason, a token that was rejected before.
THEOREM RejectionsHaveCause == ClientSpec => []RejectedWithCause
<1>1. ClientInit => ClientTypes
  BY ClientStarts, Zenon
<1>2. CauseInv => RejectedWithCause
  BY Zenon DEF CauseInv
<1> QED
  BY <1>1, <1>2, ClientStepTypes, CauseInit, CauseStep, PTL DEF ClientSpec
=============================================================================
