------------------------------ MODULE DiskCache ------------------------------
(***************************************************************************)
(* The chunk cache of src/cache.rs: a map of entries with an LRU index, a  *)
(* sequence counter and a byte count behind one mutex, and the chunk files *)
(* in the cache directory, which are created, renamed, read and removed    *)
(* OUTSIDE the mutex except by eviction and clear_all.                     *)
(*                                                                         *)
(* Every method is split where it takes or releases the mutex and at every *)
(* file-system call another thread can get in front of.  A method that     *)
(* returns without changing anything (a miss, an unknown key) is no step.  *)
(***************************************************************************)
EXTENDS ByteCount

CONSTANTS
  Threads,     \* threads calling into the cache
  NoThread,    \* the mutex is free
  Keys,        \* chunk keys; a key's file has the key's hash as its name
  NoKey,
  Payloads,    \* chunk contents given to insert: [key, size, rev]
  MaxBytes,    \* max_bytes
  Ops,         \* the kinds of step the environment takes
  MaxCalls     \* bound: calls and restarts in a behaviour

ASSUME ThreadAssumption == NoThread \notin Threads
ASSUME PayloadAssumption == Payloads \subseteq [key : Keys, size : Nat, rev : Nat]
ASSUME BudgetAssumption == MaxBytes \in Nat /\ MaxCalls \in Nat
ASSUME NoKeyAssumption == NoKey \notin Keys

VARIABLES
  entries,   \* Inner.entries : key -> [size, last_access_seq]
  lru,       \* Inner.lru : last_access_seq -> key
  seq,       \* Inner.seq
  bytes,     \* Inner.bytes (stats.bytes_in_use follows it)
  lock,      \* who holds the mutex beyond one step
  files,     \* chunk files in the cache directory : key -> payload
  tmps,      \* temporary files : name -> content
  tmpSeq,    \* TMP_SEQ
  pc,        \* where each thread is in its call
  arg,       \* the locals of each thread's call
  calls      \* calls made so far

vars == <<entries, lru, seq, bytes, lock, files, tmps, tmpSeq, pc, arg, calls>>
inner == <<entries, lru, seq, bytes>>
disk == <<files, tmps, tmpSeq>>

\* What a temporary file holds when its write did not finish.
Torn == [key |-> NoKey, size |-> 0, rev |-> 0]

\* The locals of a thread that is in no call.
NoCall == [key |-> NoKey, size |-> 0, need |-> 0, tmp |-> 0, got |-> Torn,
           names |-> {}, missing |-> {}, temps |-> {}]

EntrySizes == [k \in DOMAIN entries |-> entries[k].size]

Init ==
  /\ entries = EmptyMap /\ lru = EmptyMap /\ seq = 0 /\ bytes = 0
  /\ lock = NoThread
  /\ files = EmptyMap /\ tmps = EmptyMap /\ tmpSeq = 0
  /\ pc = [t \in Threads |-> "idle"]
  /\ arg = [t \in Threads |-> NoCall]
  /\ calls = 0

Call(t, op) ==
  /\ op \in Ops
  /\ pc[t] = "idle"
  /\ calls < MaxCalls
  /\ calls' = calls + 1

Goto(t, label) == pc' = [pc EXCEPT ![t] = label]

Return(t) == Goto(t, "idle") /\ arg' = [arg EXCEPT ![t] = NoCall]

Unlocked == lock = NoThread

(***************************************************************************)
(* insert                                                                  *)
(***************************************************************************)

\* Mutant: the suffix is the clock alone, which two inserts can share.
TmpName_ClockOnly(n) == 0

\* rand_hex: the suffix that keeps temporary names apart within the process.
TmpName(n) == n

\* File::create, write_all and sync_data of the temporary file.
InsertWrite(t, p) ==
  /\ Call(t, "insert")
  /\ tmpSeq' = tmpSeq + 1
  /\ tmps' = With(tmps, TmpName(tmpSeq), p)
  /\ Goto(t, "rename")
  /\ arg' = [arg EXCEPT ![t] = [NoCall EXCEPT !.key = p.key, !.size = p.size,
                                              !.tmp = TmpName(tmpSeq)]]
  /\ UNCHANGED <<inner, lock, files>>

\* The create fails, or a later write does: insert returns the error and
\* leaves the temporary file behind.
InsertWriteFails(t) ==
  /\ Call(t, "insert_error")
  /\ tmpSeq' = tmpSeq + 1
  /\ tmps' \in {tmps, With(tmps, TmpName(tmpSeq), Torn)}
  /\ UNCHANGED <<inner, lock, files, pc, arg>>

\* rename(tmp, path): fails when a concurrent clear_all swept the temporary.
InsertRename(t) ==
  LET n == arg[t].tmp IN
  /\ pc[t] = "rename"
  /\ \/ /\ n \in DOMAIN tmps
        /\ files' = With(files, arg[t].key, tmps[n])
        /\ tmps' = Without(tmps, {n})
        /\ Goto(t, "register")
        /\ UNCHANGED arg
     \/ /\ n \notin DOMAIN tmps
        /\ Return(t)
        /\ UNCHANGED <<files, tmps>>
  /\ UNCHANGED <<inner, lock, tmpSeq, calls>>

\* The sequence numbers at which the keys of S are in the LRU index.
SeqsOf(S) == {entries[k].last_access_seq : k \in S \cap DOMAIN entries}

\* The LRU index with k moved to the next sequence number.
Reslot(k) == With(Without(lru, SeqsOf({k})), seq + 1, k)

\* Mutant: the bytes of a replaced or evicted entry are not given back.
SizeBefore_Forgotten(k) == 0

\* The size of k's entry, if it has one.
SizeBefore(k) == IF k \in DOMAIN entries THEN entries[k].size ELSE 0

\* The bytes the entries of S account for.
SizeOf(S) == TotalSize(Restrict(EntrySizes, S \cap DOMAIN entries))

\* The mutex is taken and the entry replaces any earlier one for the key; the
\* mutex stays with t for the eviction loop.
InsertRegister(t) ==
  LET k == arg[t].key IN
  /\ pc[t] = "register" /\ Unlocked
  /\ lock' = t
  /\ seq' = seq + 1
  /\ entries' = With(entries, k, [size |-> arg[t].size, last_access_seq |-> seq + 1])
  /\ lru' = Reslot(k)
  /\ bytes' = SatSub(bytes, SizeBefore(k)) + arg[t].size
  /\ Goto(t, "evict")
  /\ UNCHANGED <<disk, arg, calls>>

\* Mutant: the comparison lets one byte too many stay.
MustEvict_OffByOne == bytes > MaxBytes + 1 /\ lru # EmptyMap

MustEvict == bytes > MaxBytes /\ lru # EmptyMap

\* Mutant: the most recent entry is evicted.
EvictsFirst_Newest(s) == \A r \in DOMAIN lru : s >= r

\* The first pair of the BTreeMap.
EvictsFirst(s) == \A r \in DOMAIN lru : s <= r

\* Mutant: the evicted entry's file stays.
FilesAfterEvicting_Kept(k) == files

FilesAfterEvicting(k) == IF k \in DOMAIN entries THEN Without(files, {k}) ELSE files

\* One turn of the loop in evict_if_needed: the entry with the least sequence
\* number goes, and its file with it.
EvictOne(t) ==
  /\ pc[t] = "evict" /\ MustEvict
  /\ \E s \in DOMAIN lru :
       /\ EvictsFirst(s)
       /\ lru' = Without(lru, {s})
       /\ entries' = Without(entries, {lru[s]})
       /\ files' = FilesAfterEvicting(lru[s])
       /\ bytes' = SatSub(bytes, SizeBefore(lru[s]))
  /\ UNCHANGED <<seq, lock, tmps, tmpSeq, pc, arg, calls>>

\* Mutant: the guard is leaked and the mutex never released.
EvictDone_GuardLeaked(t) ==
  /\ pc[t] = "evict" /\ ~MustEvict
  /\ Return(t)
  /\ UNCHANGED <<inner, lock, disk, calls>>

\* The loop ends; insert returns and the mutex is released.
EvictDone(t) ==
  /\ pc[t] = "evict" /\ ~MustEvict
  /\ lock' = NoThread
  /\ Return(t)
  /\ UNCHANGED <<inner, disk, calls>>

(***************************************************************************)
(* try_get, try_get_range, try_get_into_slice                              *)
(***************************************************************************)

\* The first critical section: the key is tracked.  need is how many bytes of
\* the file must be there: none in particular for try_get, the end of the range
\* for try_get_range, the entry's size for try_get_into_slice.
GetLookup(t, k) ==
  /\ Call(t, "get") /\ Unlocked
  /\ k \in DOMAIN entries
  /\ \E n \in 0..entries[k].size :
       arg' = [arg EXCEPT ![t] = [NoCall EXCEPT !.key = k, !.need = n]]
  /\ Goto(t, "read")
  /\ UNCHANGED <<inner, lock, disk>>

\* The file is opened and read outside the mutex.
GetRead(t) ==
  LET k == arg[t].key IN
  /\ pc[t] = "read"
  /\ \/ /\ k \in DOMAIN files
        /\ files[k].size >= arg[t].need
        /\ arg' = [arg EXCEPT ![t].got = files[k]]
        /\ Goto(t, "touch")
     \/ /\ ~(k \in DOMAIN files /\ files[k].size >= arg[t].need)
        /\ Return(t)
  /\ UNCHANGED <<inner, lock, disk, calls>>

\* touch_lru: a hit if the key is still tracked, a miss otherwise.
GetTouch(t) ==
  LET k == arg[t].key IN
  /\ pc[t] = "touch" /\ Unlocked
  /\ \/ /\ k \in DOMAIN entries
        /\ seq' = seq + 1
        /\ entries' = [entries EXCEPT ![k].last_access_seq = seq + 1]
        /\ lru' = Reslot(k)
     \/ /\ k \notin DOMAIN entries
        /\ UNCHANGED <<seq, entries, lru>>
  /\ Return(t)
  /\ UNCHANGED <<bytes, lock, disk, calls>>

(***************************************************************************)
(* remove, reconcile_with_disk, clear_all                                  *)
(***************************************************************************)

\* Entries dropped under the mutex, with their LRU slots and bytes.
DropEntries(S) ==
  /\ entries' = Without(entries, S)
  /\ lru' = Without(lru, SeqsOf(S))
  /\ bytes' = SatSub(bytes, SizeOf(S))
  /\ UNCHANGED seq

\* remove deletes the file before it takes the mutex.
RemoveUnlink(t, k) ==
  /\ Call(t, "remove")
  /\ files' = Without(files, {k})
  /\ arg' = [arg EXCEPT ![t] = [NoCall EXCEPT !.key = k]]
  /\ Goto(t, "remove")
  /\ UNCHANGED <<inner, lock, tmps, tmpSeq>>

RemoveDrop(t) ==
  /\ pc[t] = "remove" /\ Unlocked
  /\ DropEntries({arg[t].key})
  /\ Return(t)
  /\ UNCHANGED <<lock, disk, calls>>

\* reconcile_with_disk: the keys to look at are copied under the mutex.
ReconcileSnapshot(t) ==
  /\ Call(t, "reconcile") /\ Unlocked
  /\ arg' = [arg EXCEPT ![t] = [NoCall EXCEPT !.names = DOMAIN entries]]
  /\ Goto(t, "exists")
  /\ UNCHANGED <<inner, lock, disk>>

\* exists() for one of them, outside the mutex.
ReconcileExists(t) ==
  /\ pc[t] = "exists"
  /\ \E k \in arg[t].names :
       arg' = [arg EXCEPT ![t] = [arg[t] EXCEPT
                 !.names = arg[t].names \ {k},
                 !.missing = arg[t].missing \cup ({k} \ DOMAIN files)]]
  /\ UNCHANGED <<inner, lock, disk, pc, calls>>

\* The entries found missing are dropped; with none there is no second lock.
ReconcileDrop(t) ==
  /\ pc[t] = "exists" /\ arg[t].names = {}
  /\ \/ arg[t].missing = {} /\ UNCHANGED inner
     \/ arg[t].missing # {} /\ Unlocked /\ DropEntries(arg[t].missing)
  /\ Return(t)
  /\ UNCHANGED <<lock, disk, calls>>

\* clear_all under the mutex: every entry and its file.
ClearTracked(t) ==
  /\ Call(t, "clear") /\ Unlocked
  /\ files' = Without(files, DOMAIN entries)
  /\ entries' = EmptyMap /\ lru' = EmptyMap /\ bytes' = 0
  /\ Goto(t, "list")
  /\ UNCHANGED <<seq, lock, tmps, tmpSeq, arg>>

\* After the mutex is released: read_dir lists what is in the directory.
ClearList(t) ==
  /\ pc[t] = "list"
  /\ arg' = [arg EXCEPT ![t].names = DOMAIN files, ![t].temps = DOMAIN tmps]
  /\ Goto(t, "sweep")
  /\ UNCHANGED <<inner, lock, disk, calls>>

\* One name is removed, whatever file has it by now.  The iterator may also
\* return a name that appeared after the listing began.
ClearSweep(t) ==
  /\ pc[t] = "sweep"
  /\ \/ \E k \in arg[t].names \cup DOMAIN files :
          /\ files' = Without(files, {k})
          /\ arg' = [arg EXCEPT ![t].names = arg[t].names \ {k}]
          /\ UNCHANGED tmps
     \/ \E n \in arg[t].temps \cup DOMAIN tmps :
          /\ tmps' = Without(tmps, {n})
          /\ arg' = [arg EXCEPT ![t].temps = arg[t].temps \ {n}]
          /\ UNCHANGED files
  /\ UNCHANGED <<inner, lock, tmpSeq, pc, calls>>

ClearDone(t) ==
  /\ pc[t] = "sweep" /\ arg[t].names = {} /\ arg[t].temps = {}
  /\ Return(t)
  /\ UNCHANGED <<inner, lock, disk, calls>>

(***************************************************************************)
(* The surroundings                                                        *)
(***************************************************************************)

\* A chunk file disappears: disk loss, or an rm by hand.
LoseFile(k) ==
  /\ "lose" \in Ops
  /\ k \in DOMAIN files
  /\ files' = Without(files, {k})
  /\ UNCHANGED <<inner, lock, tmps, tmpSeq, pc, arg, calls>>

\* The process dies at any point and starts again: open() begins with empty
\* maps and scan_existing removes every file it finds.
Restart ==
  /\ "restart" \in Ops
  /\ calls < MaxCalls /\ calls' = calls + 1
  /\ entries' = EmptyMap /\ lru' = EmptyMap /\ seq' = 0 /\ bytes' = 0
  /\ lock' = NoThread
  /\ files' = EmptyMap /\ tmps' = EmptyMap /\ tmpSeq' = 0
  /\ pc' = [t \in Threads |-> "idle"]
  /\ arg' = [t \in Threads |-> NoCall]

\* Every call has returned and no more are made.
Finished ==
  /\ calls = MaxCalls
  /\ \A t \in Threads : pc[t] = "idle"
  /\ UNCHANGED vars

Step(t) ==
  \/ InsertRename(t) \/ InsertRegister(t) \/ EvictOne(t) \/ EvictDone(t)
  \/ GetRead(t) \/ GetTouch(t)
  \/ RemoveDrop(t)
  \/ ReconcileExists(t) \/ ReconcileDrop(t)
  \/ ClearList(t) \/ ClearSweep(t) \/ ClearDone(t)

Begin(t) ==
  \/ \E p \in Payloads : InsertWrite(t, p)
  \/ InsertWriteFails(t)
  \/ \E k \in Keys : GetLookup(t, k) \/ RemoveUnlink(t, k)
  \/ ReconcileSnapshot(t)
  \/ ClearTracked(t)

Next ==
  \/ \E t \in Threads : Begin(t) \/ Step(t)
  \/ \E k \in Keys : LoseFile(k)
  \/ Restart
  \/ Finished

Spec == Init /\ [][Next]_vars

\* A thread inside a call keeps running whenever it can.
FairSpec == Spec /\ \A t \in Threads : WF_vars(Step(t))

(***************************************************************************)
(* Properties                                                              *)
(***************************************************************************)

Labels == {"idle", "rename", "register", "evict", "read", "touch", "remove",
           "exists", "list", "sweep"}

Locals == [key : Keys \cup {NoKey}, size : Nat, need : Nat, tmp : Nat,
           got : Payloads \cup {Torn}, names : SUBSET Keys, missing : SUBSET Keys,
           temps : SUBSET Nat]

InnerTypeOK ==
  /\ DOMAIN entries \subseteq Keys
  /\ \A k \in DOMAIN entries : entries[k] \in [size : Nat, last_access_seq : Nat]
  /\ DOMAIN lru \subseteq Nat /\ \A s \in DOMAIN lru : lru[s] \in Keys
  /\ seq \in Nat /\ bytes \in Nat

DiskTypeOK ==
  /\ DOMAIN files \subseteq Keys /\ \A k \in DOMAIN files : files[k] \in Payloads
  /\ DOMAIN tmps \subseteq Nat /\ \A n \in DOMAIN tmps : tmps[n] \in Payloads \cup {Torn}
  /\ tmpSeq \in Nat

CallsTypeOK ==
  /\ lock \in Threads \cup {NoThread}
  /\ pc \in [Threads -> Labels]
  /\ arg \in [Threads -> Locals]
  /\ calls \in Nat

\* The maps of src/cache.rs hold what their declarations say, every chunk file
\* holds one whole payload (never an unfinished write), and the calls' locals
\* have their types.
TypeOK == InnerTypeOK /\ DiskTypeOK /\ CallsTypeOK

\* The LRU index and the entries are inverse maps: whatever insert, touch_lru,
\* eviction, remove, reconcile_with_disk and clear_all do to them, in whatever
\* order, no entry is unreachable for eviction and no slot is left over.
LruMirrorsEntries ==
  /\ \A k \in DOMAIN entries : /\ entries[k].last_access_seq \in DOMAIN lru
                               /\ lru[entries[k].last_access_seq] = k
  /\ \A s \in DOMAIN lru : /\ lru[s] \in DOMAIN entries
                           /\ entries[lru[s]].last_access_seq = s

\* bytes is exactly the sum of the entries' sizes: no saturating_sub ever
\* saturates, and nothing is counted twice when a key is inserted again.
BytesAccounted == bytes = TotalSize(EntrySizes)

\* Whenever the mutex is free the cache is within its budget, also when one
\* chunk alone is larger than the budget.
WithinBudget == Unlocked => bytes <= MaxBytes

\* The bytes a get is about to return are those of a whole chunk of the key it
\* asked for, as many as it needs: no temporary file of another insert and no
\* unfinished write is ever visible under a chunk's name.
ReadsOwnChunk ==
  \A t \in Threads :
    pc[t] = "touch" => /\ arg[t].got \in Payloads
                       /\ arg[t].got.key = arg[t].key
                       /\ arg[t].got.size >= arg[t].need

\* Some insert has renamed its file to k and not yet registered it.
BeingInserted(k) == \E t \in Threads : pc[t] = "register" /\ arg[t].key = k

\* A chunk file nothing tracks and no insert is about to: it takes disk space that
\* eviction cannot give back.
OrphanFile(k) == k \in DOMAIN files /\ k \notin DOMAIN entries /\ ~BeingInserted(k)

\* A chunk file is tracked or about to be: nothing on disk is unreachable for
\* eviction.  It holds as long as nobody calls remove or reconcile_with_disk.
NoOrphanFile == \A k \in DOMAIN files : ~OrphanFile(k)

\* t ends a remove or a reconcile_with_disk.
EndsDrop(t) == pc[t] \in {"remove", "exists"} /\ pc'[t] = "idle"

\* The one way a chunk file gets out of sight: remove or reconcile_with_disk, which
\* look at the file outside the mutex, drop the entry of a chunk that was inserted
\* again meanwhile.  Inserts, failed ones included, evictions, gets, clear_all and
\* restarts never leave a file behind, in whatever order they run.
OrphansFromDrops ==
  [][\A k \in Keys : OrphanFile(k)' =>
       \/ OrphanFile(k)
       \/ k \in DOMAIN entries /\ \E t \in Threads : EndsDrop(t)]_vars

\* The disk space of the chunk files is within the budget plus the chunks of the
\* inserts that are between rename and the end of their eviction loop.
DiskWithinBudget ==
  LET pending == {t \in Threads : pc[t] \in {"register", "evict"}} IN
  TotalSize([k \in DOMAIN files |-> files[k].size])
    <= MaxBytes + TotalSize([t \in pending |-> arg[t].size])

\* Every call returns: the eviction loop ends and the mutex is given back.
CallsReturn == \A t \in Threads : pc[t] # "idle" ~> pc[t] = "idle"

\* <<j, k>> : entry j was used less recently than entry k.
OlderEntries ==
  {q \in (DOMAIN entries) \X (DOMAIN entries) :
     entries[q[1]].last_access_seq < entries[q[2]].last_access_seq}

PayloadSizes == {p.size : p \in Payloads}

Lru == INSTANCE LruCache WITH Sizes <- PayloadSizes, size <- EntrySizes, older <- OlderEntries

\* The entries, their recency and the evictions are those of an LRU cache: what
\* insert, touch_lru and eviction do across threads, a cache that is over its
\* budget drops its least recently used keys and does nothing else until it is
\* within the budget.
ImplementsLru == Lru!Spec
=============================================================================
