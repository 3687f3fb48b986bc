-------------------------------- MODULE BlobFs --------------------------------
(***************************************************************************)
(* The FUSE filesystem over one container (src/fuse_fs.rs): the inode      *)
(* tables, which directory listings and lookups fill while the origin      *)
(* changes under them.                                                     *)
(*                                                                         *)
(* A blob is the sequence of names of its path, with a version that stands *)
(* for its size and etag; the mount's prefix is left out, and so is the    *)
(* order of names within a page.  A step is what runs under one lock, or   *)
(* one request to Azure.  getattr and read change no table and have no     *)
(* action: they take a node of byIno as it is.                             *)
(***************************************************************************)
EXTENDS Integers, Sequences, FiniteSets, Functions, ByteCount

CONSTANTS
  Names,
  NoName,
  Blobs,        \* the paths that blobs can have
  Stocks,       \* what there may be at first: blobs with their versions
  Pages,        \* a listing comes in pages 1..Pages
  PageOf,       \* the page on which each name comes
  Versions,
  Threads,
  Calls,        \* what the kernel asks: <<"lookup", path, name>>, <<"readdir", path, NoName>>
  Happens,      \* "fail" : requests to Azure fail
  MaxChildren,  \* MAX_CHILDREN_PER_DIR
  MaxChanges    \* bound: changes of the origin

ASSUME BlobsAssumption == Blobs \subseteq Seq(Names) /\ \A s \in Stocks : DOMAIN s \subseteq Blobs
ASSUME NamesAssumption == NoName \notin Names /\ IsFiniteSet(Names)
ASSUME PagesAssumption == Pages \in Nat \ {0} /\ PageOf \in [Names -> 1..Pages]
ASSUME BoundsAssumption == MaxChildren \in Nat /\ MaxChanges \in Nat

VARIABLES
  origin,     \* the blobs there are, with their versions
  byIno,      \* by_ino : no node is ever taken out
  entry,      \* by_parent_name : <<ino, name>> -> ino
  kids,       \* children : ino -> inos; an ino is pushed once, when it is made
  next,       \* next_ino
  recent,     \* the inodes with a last_listing younger than listing_cache_ttl
  task,       \* the calls under way
  changes

tables == <<byIno, entry, kids, next>>
vars == <<origin, byIno, entry, kids, next, recent, task, changes>>

Root == 1
Inos == DOMAIN byIno

Node(kind, parent, name, ver) ==
  [kind |-> kind, parent |-> parent, name |-> name, ver |-> ver, loaded |-> FALSE,
   path |-> Append(byIno[parent].path, name)]

RootNode ==
  [kind |-> "dir", parent |-> Root, name |-> NoName, ver |-> 0, loaded |-> FALSE, path |-> <<>>]

NoTask == [pc |-> "idle", op |-> "none", ino |-> Root, name |-> NoName, page |-> 0,
           dirs |-> {}, files |-> EmptyMap]

Init ==
  /\ origin \in Stocks
  /\ byIno = [i \in {Root} |-> RootNode] /\ kids = [i \in {Root} |-> {}]
  /\ entry = EmptyMap /\ next = Root + 1
  /\ recent = {} /\ changes = 0
  /\ task = [t \in Threads |-> NoTask]

At(t, label) == task[t].pc = label
Goto(t, label) == task' = [task EXCEPT ![t].pc = label]
Done(t) == task' = [task EXCEPT ![t] = NoTask]

(***************************************************************************)
(* Azure                                                                   *)
(***************************************************************************)

\* The blobs and the prefixes right under a path.
FileNames(p) == {n \in Names : Append(p, n) \in DOMAIN origin}
DirNames(p) == {n \in Names : \E b \in DOMAIN origin :
                  Len(b) > Len(p) + 1 /\ SubSeq(b, 1, Len(p) + 1) = Append(p, n)}

Change == changes < MaxChanges /\ changes' = changes + 1 /\ UNCHANGED <<tables, recent, task>>

Put(b, v) == Change /\ ~(b \in DOMAIN origin /\ origin[b] = v) /\ origin' = With(origin, b, v)
Delete(b) == Change /\ b \in DOMAIN origin /\ origin' = Without(origin, {b})

(***************************************************************************)
(* lookup and readdir                                                      *)
(***************************************************************************)

\* The kernel asks about a directory it was told of (ENOENT and ENOTDIR do not arise).
Begin(t, op, i, n) ==
  /\ At(t, "idle") /\ byIno[i].kind = "dir" /\ <<op, byIno[i].path, n>> \in Calls
  /\ task' = [task EXCEPT ![t] = [NoTask EXCEPT !.pc = "check", !.op = op, !.ino = i, !.name = n]]
  /\ UNCHANGED <<origin, tables, recent, changes>>

Lookup(t) == \E i \in Inos, n \in Names : Begin(t, "lookup", i, n)
Readdir(t) == \E i \in Inos : Begin(t, "readdir", i, NoName)

(***************************************************************************)
(* ensure_dir_listed                                                       *)
(***************************************************************************)

\* need_load.
Check(t) ==
  LET i == task[t].ino IN
  /\ At(t, "check")
  /\ IF byIno[i].loaded /\ i \in recent
       THEN Goto(t, "answer")
       ELSE task' = [task EXCEPT ![t].pc = "list", ![t].page = 1]
  /\ UNCHANGED <<origin, tables, recent, changes>>

\* list_blobs reads one page more.
ListPage(t) ==
  LET p == byIno[task[t].ino].path
      here == {n \in Names : PageOf[n] = task[t].page}
      files == FileNames(p) \cap here IN
  /\ At(t, "list")
  /\ task' = [task EXCEPT
       ![t].dirs = @ \cup (DirNames(p) \cap here),
       ![t].files = [n \in DOMAIN @ \cup files |->
                       IF n \in files THEN origin[Append(p, n)] ELSE @[n]],
       ![t].page = IF @ = Pages THEN 0 ELSE @ + 1,
       ![t].pc = IF task[t].page = Pages THEN "apply" ELSE "list"]
  /\ UNCHANGED <<origin, tables, recent, changes>>

\* EIO.
ListFails(t) ==
  /\ "fail" \in Happens /\ At(t, "list") /\ Done(t)
  /\ UNCHANGED <<origin, tables, recent, changes>>

ChildrenOf(i) == IF i \in DOMAIN kids THEN kids[i] ELSE {}

\* The names a listing found that have no entry under i yet.
Fresh(i, listed) == {n \in listed : <<i, n>> \notin DOMAIN entry}

\* How many of them there is room for.
Room(i, fresh) ==
  LET room == SatSub(MaxChildren, Cardinality(ChildrenOf(i))) IN
  IF Cardinality(fresh) <= room THEN Cardinality(fresh) ELSE room

\* The numbers the names of A can get.
Numberings(A) == Bijection(A, next..(next + Cardinality(A) - 1))

\* Mutant: nothing is taken away.
Gone_None(i, seen) == {}

\* The children of i that the delta-delete takes away.
Gone(i, seen) == {k \in ChildrenOf(i) : byIno[k].name \notin seen}

\* The node made for a name n that is new under i.
Made(i, n, dirs, files) ==
  IF n \in dirs THEN Node("dir", i, n, 0) ELSE Node("file", i, n, files[n])

\* Mutant: a file whose name is listed as a prefix becomes a directory.
Kept_Turned(k, i, dirs, files) ==
  IF k = i THEN [byIno[k] EXCEPT !.loaded = TRUE]
  ELSE IF k \notin ChildrenOf(i) THEN byIno[k]
  ELSE IF byIno[k].name \in dirs THEN [byIno[k] EXCEPT !.kind = "dir"]
  ELSE IF byIno[k].name \in DOMAIN files THEN [byIno[k] EXCEPT !.ver = files[byIno[k].name]]
  ELSE byIno[k]

\* What a listing of i makes of a node k that is there: a file that is listed takes the
\* version listed, but no node changes its kind.
Kept(k, i, dirs, files) ==
  IF k = i THEN [byIno[k] EXCEPT !.loaded = TRUE]
  ELSE IF byIno[k].kind = "file" /\ \E n \in DOMAIN files :
            <<i, n>> \in DOMAIN entry /\ entry[<<i, n>>] = k
         THEN [byIno[k] EXCEPT !.ver = files[byIno[k].name]]
         ELSE byIno[k]

\* The write-locked part: upsert_dir for the prefixes, then upsert_file for the blobs,
\* both up to the cap, then the delta-delete.
Apply(t) ==
  LET i == task[t].ino
      dirs == task[t].dirs
      files == task[t].files
      listed == dirs \cup DOMAIN files
      fresh == Fresh(i, listed) IN
  /\ At(t, "apply")
  /\ \E A \in SUBSET fresh : \E num \in Numberings(A) :
       LET seen == A \cup (listed \ fresh)
           gone == Gone(i, seen)
           made == Range(num)
       IN /\ Cardinality(A) = Room(i, fresh)
          /\ fresh \cap dirs \subseteq A \/ A \subseteq dirs
          /\ byIno' = [k \in Inos \cup made |->
                         IF k \in made THEN Made(i, CHOOSE n \in A : num[n] = k, dirs, files)
                                       ELSE Kept(k, i, dirs, files)]
          /\ next' = next + Cardinality(A)
          /\ entry' = [e \in (DOMAIN entry \ {<<i, byIno[k].name>> : k \in gone})
                               \cup ({i} \X A) |->
                         IF e \in DOMAIN entry THEN entry[e] ELSE num[e[2]]]
          /\ kids' = [k \in (DOMAIN kids \ gone) \cup (IF A = {} THEN {} ELSE {i})
                              \cup {num[n] : n \in A \cap dirs} |->
                        IF k = i THEN (ChildrenOf(i) \ gone) \cup made
                        ELSE IF k \in made THEN {} ELSE kids[k]]
  /\ task' = [task EXCEPT ![t].pc = "stamp", ![t].dirs = {}, ![t].files = EmptyMap]
  /\ UNCHANGED <<origin, recent, changes>>

\* last_listing, after the lock is released.
Stamp(t) ==
  /\ At(t, "stamp") /\ recent' = recent \cup {task[t].ino}
  /\ Goto(t, "answer")
  /\ UNCHANGED <<origin, tables, changes>>

Expire(i) == i \in recent /\ recent' = recent \ {i} /\ UNCHANGED <<origin, tables, task, changes>>

(***************************************************************************)
(* The rest of lookup and readdir                                          *)
(***************************************************************************)

\* readdir answers with the children; lookup with the entry, or it asks Azure.
Answer(t) ==
  LET i == task[t].ino
      n == task[t].name IN
  /\ At(t, "answer")
  /\ IF task[t].op = "lookup" /\ <<i, n>> \notin DOMAIN entry THEN Goto(t, "head") ELSE Done(t)
  /\ UNCHANGED <<origin, tables, recent, changes>>

\* get_blob_properties.
HeadBlob(t) ==
  LET b == Append(byIno[task[t].ino].path, task[t].name) IN
  /\ At(t, "head")
  /\ \/ /\ b \in DOMAIN origin
        /\ task' = [task EXCEPT ![t].pc = "upsert", ![t].files = [n \in {task[t].name} |-> origin[b]]]
     \/ (b \notin DOMAIN origin \/ "fail" \in Happens) /\ Done(t)
  /\ UNCHANGED <<origin, tables, recent, changes>>

\* Mutant: the entry is not looked for again.
Upsert_Unchecked(t) ==
  LET i == task[t].ino
      n == task[t].name IN
  /\ At(t, "upsert")
  /\ byIno' = With(byIno, next, Node("file", i, n, task[t].files[n]))
  /\ entry' = With(entry, <<i, n>>, next)
  /\ kids' = With(kids, i, ChildrenOf(i) \cup {next})
  /\ next' = next + 1
  /\ Done(t)
  /\ UNCHANGED <<origin, recent, changes>>

\* upsert_file, whatever the number of children: an entry made meanwhile keeps its
\* inode, and takes the version if it is a file.
Upsert(t) ==
  LET i == task[t].ino
      n == task[t].name
      v == task[t].files[n]
      k == entry[<<i, n>>] IN
  /\ At(t, "upsert")
  /\ IF <<i, n>> \in DOMAIN entry
       THEN /\ byIno' = IF byIno[k].kind = "file" THEN [byIno EXCEPT ![k].ver = v] ELSE byIno
            /\ UNCHANGED <<entry, kids, next>>
       ELSE /\ byIno' = With(byIno, next, Node("file", i, n, v))
            /\ entry' = With(entry, <<i, n>>, next)
            /\ kids' = With(kids, i, ChildrenOf(i) \cup {next})
            /\ next' = next + 1
  /\ Done(t)
  /\ UNCHANGED <<origin, recent, changes>>

(***************************************************************************)
(* The specification                                                       *)
(***************************************************************************)

Step(t) ==
  \/ Check(t) \/ ListPage(t) \/ ListFails(t) \/ Apply(t) \/ Stamp(t)
  \/ Answer(t) \/ HeadBlob(t) \/ Upsert(t)

Next ==
  \/ \E b \in Blobs : Delete(b) \/ \E v \in Versions : Put(b, v)
  \/ \E t \in Threads : Lookup(t) \/ Readdir(t) \/ Step(t)
  \/ \E i \in recent : Expire(i)

Spec == Init /\ [][Next]_vars

\* A call that was taken up runs to its end.
FairSpec == Spec /\ \A t \in Threads : WF_vars(Step(t))

(***************************************************************************)
(* Properties                                                              *)
(***************************************************************************)

Labels == {"idle", "check", "list", "apply", "stamp", "answer", "head", "upsert"}
IsNode(x) ==
  /\ DOMAIN x = {"kind", "parent", "name", "ver", "loaded", "path"}
  /\ x.kind \in {"dir", "file"} /\ x.parent \in Inos /\ x.name \in Names \cup {NoName}
  /\ x.loaded \in BOOLEAN /\ x.path \in Seq(Names)
IsTask(x) ==
  /\ DOMAIN x = {"pc", "op", "ino", "name", "page", "dirs", "files"}
  /\ x.pc \in Labels /\ x.op \in {"none", "lookup", "readdir"}
  /\ x.ino \in Inos /\ x.name \in Names \cup {NoName} /\ x.page \in 0..Pages
  /\ x.dirs \subseteq Names /\ DOMAIN x.files \subseteq Names

\* The state variables have their types, and no table names an inode that is not there.
TypeOK ==
  /\ DOMAIN origin \subseteq Blobs
  /\ next \in Nat /\ Inos = 1..(next - 1) /\ Root \in Inos
  /\ \A i \in Inos : IsNode(byIno[i])
  /\ DOMAIN entry \subseteq Inos \X Names /\ \A e \in DOMAIN entry : entry[e] \in Inos
  /\ DOMAIN kids \subseteq Inos /\ \A i \in DOMAIN kids : kids[i] \subseteq Inos
  /\ recent \subseteq Inos
  /\ DOMAIN task = Threads /\ \A t \in Threads : IsTask(task[t])
  /\ changes \in Nat

\* An inode that its parent still has an entry for: the delta-delete did not take it.
Linked(i) ==
  i = Root \/ (<<byIno[i].parent, byIno[i].name>> \in DOMAIN entry
               /\ entry[<<byIno[i].parent, byIno[i].name>>] = i)

\* A directory that was not taken away lists in readdir the very children that lookup
\* finds in it, each name once, however listings, lookups and delta-deletes interleave.
ReaddirMatchesLookup ==
  \A i \in Inos : Linked(i) /\ byIno[i].kind = "dir" =>
    /\ i \in DOMAIN kids
    /\ kids[i] = {entry[e] : e \in {x \in DOMAIN entry : x[1] = i}}
    /\ \A k \in kids[i] : byIno[k].parent = i /\ entry[<<i, byIno[k].name>>] = k

\* An inode number the kernel was given stands for the same path and the same kind of
\* node for ever, whatever is deleted and created again (by_ino keeps what the
\* delta-delete unlinks).
InodesAreForever ==
  [][\A i \in Inos : i \in Inos' /\ \A f \in {"kind", "parent", "name", "path"} :
       byIno'[i][f] = byIno[i][f]]_vars

\* Names under p that blobs may only ever have as a file, or only ever as a directory.
SteadyNames(p) ==
  {n \in Names : ~(/\ Append(p, n) \in Blobs
                   /\ \E b \in Blobs : Len(b) > Len(p) + 1 /\ SubSeq(b, 1, Len(p) + 1) = Append(p, n))}

\* What the root shows is what the origin has, for the names that keep their kind; when
\* there are more than the cap, some may be missing.
RootExact ==
  LET listed == FileNames(<<>>) \cup DirNames(<<>>) IN
  \A n \in SteadyNames(<<>>) :
    LET e == <<Root, n>> IN
    /\ n \in listed /\ Cardinality(listed) <= MaxChildren => e \in DOMAIN entry
    /\ e \in DOMAIN entry =>
         \/ n \in FileNames(<<>>) /\ byIno[entry[e]].kind = "file" /\ byIno[entry[e]].ver = origin[<<n>>]
         \/ n \in DirNames(<<>>) /\ byIno[entry[e]].kind = "dir"

RootAnswered == \E t \in Threads : At(t, "answer") /\ task[t].ino = Root

\* Once the origin changes no more, the root is asked again and again and its listing
\* expires again and again, it comes to show what the origin has and stays so: no
\* overtaken listing or HEAD request leaves a stale or a missing entry for good.
RootConverges ==
  []<>RootAnswered /\ []<>(Root \notin recent) => <>[]RootExact
=============================================================================
