--------------------------------- MODULE Fat32 ---------------------------------
(***************************************************************************)
(* The FAT32 driver of src/impl/kernel/fs/fat32_vfs.c on one mounted        *)
(* volume: the copy of the allocation table kept in memory, the table and   *)
(* the clusters on the disk, the nodes callers hold.  Calls run one at a    *)
(* time, but a call is several disk commands: each is a step, may fail, seen *)
(* by the driver or not, and the machine may lose power between any two.    *)
(*                                                                          *)
(* A cluster holds Slots units: directory entries or bytes of a file.  A    *)
(* name is stored in Needs(name) slots, the last of which names the first   *)
(* cluster; the conversions between long, short and caller's names are not  *)
(* modelled, so names differ however they are stored.                       *)
(***************************************************************************)
EXTENDS Integers, FiniteSets, Sequences

CONSTANTS
  Total,          \* total_clusters: clusters are 2 .. Total - 1
  Slots,          \* units in a cluster
  Root,           \* root_dir_cluster
  Image,          \* the volume before the first mount: [fat, disk]
  Names, Needs(_),\* names callers use, slots an entry of that name takes
  Handles,        \* nodes callers hold at a time
  Bytes,          \* values written
  Spans,          \* << offset, count >> of the writes
  MaxCalls, MaxFaults, MaxResets \* bounds on calls, failed commands, power losses

Cluster == 2 .. Total - 1
Free == 0
Eoc == Total      \* any entry of 0x0FFFFFF8 and above
FatEntry == {Free, Eoc} \cup Cluster

Sfn(n, directory, first, size) == << "entry", n, directory, first, size >>
Lfn(n) == << "part", n >>         \* a slot of the long name that follows
End == << "end" >>                \* first byte 0x00
Deleted == << "deleted" >>        \* first byte 0xE5
Label == << "label" >>            \* the volume's label, which lookups skip
Stale == << "stale" >>            \* anything: what nobody wrote or cleared since the mount
Data(b) == << "data", b >>
Dots == {".", ".."}
Unit ==
  {End, Deleted, Label, Stale} \cup { Lfn(n) : n \in Names } \cup { Data(b) : b \in Bytes }
    \cup { Sfn(n, d, c, s) : n \in Names \cup Dots, d \in BOOLEAN,
                             c \in {0} \cup Cluster, s \in 0 .. Slots }

ASSUME Fat32Assumption ==
  /\ {Total, Slots, MaxCalls} \subseteq Nat \ {0}
  /\ {MaxFaults, MaxResets} \subseteq Nat
  /\ Spans \subseteq Nat \X (Nat \ {0})
  /\ Root \in Cluster
  /\ Names \cap Dots = {}
  /\ \A n \in Names : Needs(n) \in 1 .. Slots
  /\ Slots >= 2
  /\ Image.fat \in [Cluster -> FatEntry]
  /\ Image.disk \in [Cluster -> [1 .. Slots -> Unit]]

VARIABLES
  fat,     \* fat_cache
  dfat,    \* the table on the disk
  disk,    \* the clusters on the disk
  handles, \* the nodes finddir and readdir returned: node->size, fs_data->first_cluster
  op,      \* the call in progress
  calls, faults, resets,
  adrift,  \* the driver has taken what nobody knows for its own: not followed further
  made     \* history: << directory, name >> of every create that returned 0

volume == << dfat, disk >>
bounds == << calls, faults, resets >>
vars == << fat, volume, handles, op, bounds, adrift, made >>

NoNode == [directory |-> FALSE, first |-> 0, size |-> -1]
Idle == [pc |-> "idle"]

-----------------------------------------------------------------------------
(* Cluster chains and directories.                                         *)

\* The clusters a walk from c visits: all loops of the driver stop at an
\* entry that is not a cluster.  A walk that cycles is cut at Total.
Walk(table, c) ==
  LET next(i) == IF i \in Cluster THEN table[i] ELSE i
      at[k \in 0 .. Total] == IF k = 0 THEN c ELSE next(at[k - 1])
  IN [k \in 1 .. Cardinality({ k \in 0 .. Total : at[k] \in Cluster }) |-> at[k - 1]]

\* The units of the chain that starts at c, in order.
Units(table, c) ==
  LET ch == Walk(table, c)
  IN [i \in 1 .. Slots * Len(ch) |-> disk[ch[((i - 1) \div Slots) + 1]][((i - 1) % Slots) + 1]]

EntryAt(s, i) == s[i][1] = "entry"

\* Positions of the entries a scan of directory d meets before its end mark.
Seen(s) ==
  { i \in DOMAIN s : EntryAt(s, i) /\ \A j \in 1 .. (i - 1) : s[j] # End }

First(s, hits) == { s[i] : i \in { j \in hits : \A k \in hits : j <= k } }

\* Mutant: the scan takes a deleted entry for the end mark.
FindDir_StopsAtDeleted(d, n) ==
  LET s == Units(fat, d)
  IN First(s, { i \in Seen(s) : s[i][2] = n /\ \A j \in 1 .. i : s[j] # Deleted })

\* fat32_finddir: the first entry of that name, as a set of at most one.
FindDir(d, n) ==
  LET s == Units(fat, d)
  IN First(s, { i \in Seen(s) : s[i][2] = n })

\* fat32_readdir: the entry with index entries before it.
ReadDirAt(d, index) ==
  LET s == Units(fat, d)
      seen == Seen(s)
  IN { s[i] : i \in { j \in seen : Cardinality({ k \in seen : k < j }) = index } }

NodeOf(e) == [directory |-> e[3], first |-> e[4], size |-> e[5]]

IsFree(u) == u \in {End, Deleted}
Starts(c, n) ==
  { i \in 1 .. (Slots - Needs(n) + 1) : \A j \in i .. (i + Needs(n) - 1) : IsFree(disk[c][j]) }
LowestOf(S) == CHOOSE i \in S : \A j \in S : i <= j

-----------------------------------------------------------------------------
(* Disk commands.  A failed one may have landed in part, and when it timed  *)
(* out the driver is told that it succeeded (AhciPort): each caller that    *)
(* looks at the result may see the failure or not.                          *)
(*                                                                          *)
(* The model stops, adrift, where the driver would go on with Stale units   *)
(* as if it had written them: a directory cluster that was linked or entered *)
(* but not cleared, a buffer a read did not fill; or with a cluster that is *)
(* still free on the disk.  Until then no directory has such a unit, as     *)
(* ChainsSound says, so what they really are does not matter.               *)
(*                                                                          *)
(* Assumed here: the table fits the one page that is kept in memory and a   *)
(* cluster fits a page.                                                     *)

Fault == faults < MaxFaults /\ faults' = faults + 1

FatWritten == dfat' = fat' /\ UNCHANGED faults
FatFailed ==
  /\ Fault
  /\ \E landed \in SUBSET { c \in Cluster : fat'[c] # dfat[c] } :
       dfat' = [c \in Cluster |-> IF c \in landed THEN fat'[c] ELSE dfat[c]]

ClusterWritten(c, content) == disk' = [disk EXCEPT ![c] = content] /\ UNCHANGED faults
ClusterFailed(c, content) ==
  Fault /\ disk' \in {disk, [disk EXCEPT ![c] = content]}

\* A cluster of a directory is set up; the result is not looked at.
SetUp(c, content) ==
  /\ ClusterWritten(c, content) \/ ClusterFailed(c, content)
  /\ adrift' = (disk'[c] # content)

\* A read of a directory timed out: the scan meets what the buffer held.
Misread == Fault /\ adrift' = TRUE

\* What a read into a buffer gives: the cluster, or what the buffer held.
ReadInto(c, buffer) ==
  { << disk[c], faults >> }
    \cup (IF faults < MaxFaults THEN { << buffer, faults + 1 >> } ELSE {})

Blank == [i \in 1 .. Slots |-> End]
Junk == [i \in 1 .. Slots |-> Stale]

-----------------------------------------------------------------------------
(* fat32_alloc_cluster and fat32_extend_chain.                             *)

FreeClusters == { c \in Cluster : fat[c] = Free }

\* Mutant: the cluster found is not marked in the copy of the table.
Claimed_Unmarked(c) == fat
Claimed(c) == [fat EXCEPT ![c] = Eoc]

\* Mutant: a new directory is entered without its first two entries.
AfterAlloc_NoDots(o, c) ==
  IF o.extend THEN [o EXCEPT !.pc = "link", !.new = c]
  ELSE IF o.kind = "create" THEN [o EXCEPT !.pc = "enter", !.first = c]
  ELSE [o EXCEPT !.pc = "body", !.cur = c]

\* Where the caller of fat32_alloc_cluster goes on with the cluster.
AfterAlloc(o, c) ==
  IF o.extend THEN [o EXCEPT !.pc = "link", !.new = c]
  ELSE IF o.kind = "create" THEN [o EXCEPT !.pc = "dots", !.first = c]
  ELSE [o EXCEPT !.pc = "body", !.cur = c]

\* Mutant: the 0 a failed allocation returns is taken for a cluster.
NoCluster_Unchecked(o) == AfterAlloc(o, 0)
NoCluster(o) == Idle

\* The first cluster of an empty file is kept in its node only.
FirstKept(o, c) ==
  IF o.kind = "write" /\ ~ o.extend
  THEN handles' = [handles EXCEPT ![o.h].first = c]
  ELSE UNCHANGED handles

\* The first free cluster is marked and the table written; a failure that is
\* seen ends the call.
Alloc ==
  /\ op.pc = "alloc"
  /\ IF FreeClusters = {}
     THEN op' = NoCluster(op) /\ UNCHANGED << fat, dfat, faults, handles, adrift >>
     ELSE LET c == LowestOf(FreeClusters) IN
          /\ fat' = Claimed(c)
          /\ \/ FatFailed /\ op' = NoCluster(op) /\ UNCHANGED << handles, adrift >>
             \/ /\ FatWritten \/ FatFailed
                /\ IF dfat'[c] = fat'[c]
                   THEN op' = AfterAlloc(op, c) /\ FirstKept(op, c) /\ UNCHANGED adrift
                   ELSE adrift' = TRUE /\ op' = NoCluster(op) /\ UNCHANGED handles
  /\ UNCHANGED << disk, calls, resets, made >>

Linked(o) ==
  IF o.kind = "create"
  THEN [o EXCEPT !.pc = "zero"]
  ELSE [o EXCEPT !.pc = "body", !.extend = FALSE, !.cur = o.new, !.skip = @ - 1]

\* Mutant: the link stays in memory.
Link_NotWritten ==
  /\ op.pc = "link"
  /\ fat' = [fat EXCEPT ![op.cur] = op.new]
  /\ op' = Linked(op)
  /\ UNCHANGED << volume, handles, bounds, adrift, made >>

\* The result of this write is not looked at.
Link ==
  /\ op.pc = "link"
  /\ fat' = [fat EXCEPT ![op.cur] = op.new]
  /\ FatWritten \/ FatFailed
  /\ op' = Linked(op)
  /\ UNCHANGED << disk, handles, calls, resets, adrift, made >>

-----------------------------------------------------------------------------
(* fat32_create, fat32_mkdir_op and fat32_create_entry.                    *)

Directories == {Root} \cup { handles[h].first : h \in { g \in Handles : handles[g].directory } }

CreateOp(d, n, directory, extend, c, i) ==
  [kind |-> "create", pc |-> IF extend \/ directory THEN "alloc" ELSE "enter", d |-> d, n |-> n,
   directory |-> directory, extend |-> extend, cur |-> c, slot |-> i, new |-> 0, first |-> 0]

\* The first cluster with room for the entry, else the last is extended.
Placed(d, n, directory) ==
  LET ch == Walk(fat, d)
      fits == { k \in DOMAIN ch : Starts(ch[k], n) # {} }
  IN IF fits = {}
     THEN CreateOp(d, n, directory, TRUE, ch[Len(ch)], 1)
     ELSE LET c == ch[LowestOf(fits)] IN CreateOp(d, n, directory, FALSE, c, LowestOf(Starts(c, n)))

\* A failed read while the name is looked up is taken for a free name; one
\* while slots are looked for ends the call.
Create(d, n, directory) ==
  /\ op = Idle /\ calls < MaxCalls
  /\ calls' = calls + 1
  /\ \/ FindDir(d, n) # {} /\ UNCHANGED << op, faults, adrift >>
     \/ FindDir(d, n) = {} /\ op' = Placed(d, n, directory) /\ UNCHANGED << faults, adrift >>
     \/ Fault /\ op' = Placed(d, n, directory) /\ UNCHANGED adrift
     \/ Fault /\ UNCHANGED << op, adrift >>
     \/ Misread /\ UNCHANGED op
  /\ UNCHANGED << fat, volume, handles, resets, made >>

\* The cluster added to a directory is cleared.
Zero ==
  /\ op.pc = "zero"
  /\ SetUp(op.new, Blank)
  /\ op' = [op EXCEPT !.pc = IF op.directory THEN "alloc" ELSE "enter",
                      !.extend = FALSE, !.cur = op.new]
  /\ UNCHANGED << fat, dfat, handles, calls, resets, made >>

DotEntries(c, d) ==
  [Blank EXCEPT ![1] = Sfn(".", TRUE, c, 0), ![2] = Sfn("..", TRUE, IF d = Root THEN 0 ELSE d, 0)]

WriteDots ==
  /\ op.pc = "dots"
  /\ SetUp(op.first, DotEntries(op.first, op.d))
  /\ op' = [op EXCEPT !.pc = "enter"]
  /\ UNCHANGED << fat, dfat, handles, calls, resets, made >>

Entered(base, o) ==
  [i \in 1 .. Slots |->
     IF i \notin o.slot .. (o.slot + Needs(o.n) - 1) THEN base[i]
     ELSE IF i < o.slot + Needs(o.n) - 1 THEN Lfn(o.n)
     ELSE Sfn(o.n, o.directory, o.first, 0)]

\* The cluster is read again, the entry put into it and written back; neither
\* result is looked at and 0 is returned.
Enter ==
  /\ op.pc = "enter"
  /\ \E r \in ReadInto(op.cur, IF op.cur = op.new THEN Blank ELSE disk[op.cur]) :
       LET content == Entered(r[1], op) IN
       \/ disk' = [disk EXCEPT ![op.cur] = content] /\ faults' = r[2]
       \/ r[2] = faults /\ ClusterFailed(op.cur, content)
  /\ made' = made \cup { << op.d, op.n >> }
  /\ op' = Idle
  /\ UNCHANGED << fat, dfat, handles, calls, resets, adrift >>

-----------------------------------------------------------------------------
(* Nodes: a lookup makes a new one each time.  No caller keeps a node of    *)
(* "." or ".."; the shell resolves those names itself.                     *)

Lookup(h, d, found) ==
  /\ op = Idle /\ calls < MaxCalls
  /\ calls' = calls + 1
  /\ \/ /\ \E e \in found : e[2] \notin Dots /\ handles' = [handles EXCEPT ![h] = NodeOf(e)]
        /\ UNCHANGED << faults, adrift >>
     \/ Misread /\ UNCHANGED handles
  /\ UNCHANGED << fat, volume, op, resets, made >>

Open(h, d, n) == Lookup(h, d, FindDir(d, n))
ReadDir(h, d, index) == Lookup(h, d, ReadDirAt(d, index))

-----------------------------------------------------------------------------
(* fat32_write and fat32_read, on nodes of files.                          *)

Write(h, offset, n, b) ==
  /\ op = Idle /\ calls < MaxCalls
  /\ handles[h] # NoNode /\ ~ handles[h].directory
  /\ calls' = calls + 1
  /\ op' = [kind |-> "write", pc |-> IF handles[h].first = 0 THEN "alloc" ELSE "body", h |-> h,
            offset |-> offset, n |-> n, b |-> b, extend |-> FALSE, new |-> 0, done |-> 0,
            cur |-> handles[h].first, skip |-> offset \div Slots]
  /\ UNCHANGED << fat, volume, handles, faults, resets, adrift, made >>

\* The chain is too short for the next cluster of the write.
Short(o) == Len(Walk(fat, o.cur)) <= o.skip

Grow ==
  /\ op.pc = "body" /\ Short(op)
  /\ LET ch == Walk(fat, op.cur) IN
     op' = [op EXCEPT !.pc = "alloc", !.extend = TRUE, !.cur = ch[Len(ch)],
                      !.skip = @ - (Len(ch) - 1)]
  /\ UNCHANGED << fat, volume, handles, bounds, adrift, made >>

Within(o) == IF o.done = 0 THEN o.offset % Slots ELSE 0
Copied(o) ==
  IF Slots - Within(o) < o.n - o.done THEN Slots - Within(o) ELSE o.n - o.done

\* Mutant: a write that starts a cluster but does not fill it reads nothing.
Partial_Offset(o) == Within(o) # 0
Partial(o) == Within(o) # 0 \/ o.n - o.done < Slots

Merged(base, o) ==
  [i \in 1 .. Slots |->
     IF i \in (Within(o) + 1) .. (Within(o) + Copied(o)) THEN Data(o.b) ELSE base[i]]

\* node->size, once all is written.
Grown(o) ==
  [handles EXCEPT ![o.h].size = IF o.offset + o.n > @ THEN o.offset + o.n ELSE @]

\* One cluster.  The buffer is a page nobody cleared, or holds the cluster
\* before; a write seen to fail returns without updating the size.
WriteCluster ==
  /\ op.pc = "body" /\ ~ Short(op)
  /\ LET c == Walk(fat, op.cur)[op.skip + 1] IN
     \E r \in (IF Partial(op) THEN ReadInto(c, Junk) ELSE { << Junk, faults >> }) :
       LET content == Merged(r[1], op) IN
       \/ /\ \/ disk' = [disk EXCEPT ![c] = content] /\ faults' = r[2]
             \/ r[2] = faults /\ ClusterFailed(c, content)
          /\ IF op.done + Copied(op) = op.n
             THEN op' = Idle /\ handles' = Grown(op)
             ELSE /\ op' = [op EXCEPT !.cur = c, !.skip = 1, !.done = @ + Copied(op)]
                  /\ UNCHANGED handles
       \/ /\ r[2] = faults /\ ClusterFailed(c, content)
          /\ op' = Idle /\ UNCHANGED handles
  /\ UNCHANGED << fat, dfat, calls, resets, adrift, made >>

\* What fat32_read gives for byte p of a node, p below its size.
ByteAt(h, p) == Units(fat, handles[h].first)[p + 1]

-----------------------------------------------------------------------------
(* Power loss and the mount that follows: nodes and the copy of the table   *)
(* are gone.  Between the link to a directory's new cluster and its clearing *)
(* the disk has in the directory whatever the cluster held.                 *)
Reset ==
  /\ resets < MaxResets
  /\ resets' = resets + 1
  /\ fat' = dfat
  /\ handles' = [h \in Handles |-> NoNode]
  /\ op' = Idle
  /\ adrift' = (op.pc = "zero" /\ dfat[op.cur] = op.new)
  /\ UNCHANGED << volume, calls, faults, made >>

Init ==
  /\ fat = Image.fat /\ dfat = Image.fat /\ disk = Image.disk
  /\ handles = [h \in Handles |-> NoNode]
  /\ op = Idle
  /\ calls = 0 /\ faults = 0 /\ resets = 0
  /\ adrift = FALSE
  /\ made = {}

Steps == Alloc \/ Link \/ Zero \/ WriteDots \/ Enter \/ Grow \/ WriteCluster

Next ==
  /\ ~ adrift
  /\ \/ \E d \in Directories, n \in Names, directory \in BOOLEAN : Create(d, n, directory)
     \/ \E h \in Handles, d \in Directories, n \in Names : Open(h, d, n)
     \/ \E h \in Handles, d \in Directories, index \in 0 .. Slots : ReadDir(h, d, index)
     \/ \E h \in Handles, w \in Spans, b \in Bytes : Write(h, w[1], w[2], b)
     \/ Steps
     \/ Reset

Spec == Init /\ [][Next]_vars

-----------------------------------------------------------------------------
(* What is asked of the volume before the first mount, with table t and     *)
(* clusters s.                                                              *)

\* Entries that lead to files and directories, and where they stand.
Named(u) == u[1] = "entry" /\ u[2] \notin Dots
At(s, p) == s[p[1]][p[2]]
Places(s) == { p \in Cluster \X (1 .. Slots) : Named(At(s, p)) }
Dirs(s) == {Root} \cup { At(s, p)[4] : p \in { q \in Places(s) : At(s, q)[3] } }

InChain(t, d, c) == \E k \in DOMAIN Walk(t, d) : Walk(t, d)[k] = c
Parent(d) == IF d = Root THEN 0 ELSE d

\* A cluster is linked from at most one, and is in use then.
LinkedOnce(t) ==
  /\ \A c, e \in Cluster : t[c] \in Cluster /\ t[c] = t[e] => c = e
  /\ \A c \in Cluster : t[c] \in Cluster => t[t[c]] # Free

\* A chain can begin with c.
Begins(t, c) == c \in Cluster /\ t[c] # Free /\ \A e \in Cluster : t[e] # c

\* Each entry has a chain of its own, unless it is an empty file's.
OwnChain(t, s) ==
  /\ Begins(t, Root)
  /\ \A p \in Places(s) :
       /\ At(s, p)[3] => At(s, p)[4] # 0
       /\ At(s, p)[4] # 0 => Begins(t, At(s, p)[4]) /\ At(s, p)[4] # Root
       /\ \A q \in Places(s) : At(s, p)[4] # 0 /\ At(s, p)[4] = At(s, q)[4] => p = q

\* Entries stand in directories, and a directory has its "." and "..".
Listed(t, s) == \A p \in Places(s) : \E d \in Dirs(s) : InChain(t, d, p[1])
DotsInPlace(t, s) ==
  \A p \in Places(s), d \in Dirs(s) : InChain(t, d, p[1]) /\ At(s, p)[3] =>
    LET c == At(s, p)[4]
    IN s[c][1] = Sfn(".", TRUE, c, 0) /\ s[c][2] = Sfn("..", TRUE, Parent(d), 0)

\* Nothing follows an end mark in its cluster.
EndsLast(t, s) ==
  \A d \in Dirs(s), c \in Cluster : InChain(t, d, c) =>
    \A i, j \in 1 .. Slots : i < j /\ s[c][i] = End => s[c][j] = End

\* The units of directories are entries, parts of names, free slots.
Legible(u) == u[1] \notin {"stale", "data"}
LegibleDirs(t, s) ==
  \A d \in Dirs(s), c \in Cluster : InChain(t, d, c) => \A i \in 1 .. Slots : Legible(s[c][i])

\* What free clusters hold is not known: zeros, data, old directories.
FreeAreStale(t, s) ==
  \A c \in Cluster : t[c] = Free => \A i \in 1 .. Slots : s[c][i] = Stale

ASSUME VolumeAssumption ==
  /\ LinkedOnce(Image.fat) /\ OwnChain(Image.fat, Image.disk)
  /\ Listed(Image.fat, Image.disk) /\ DotsInPlace(Image.fat, Image.disk)
  /\ EndsLast(Image.fat, Image.disk) /\ LegibleDirs(Image.fat, Image.disk)
  /\ FreeAreStale(Image.fat, Image.disk)

-----------------------------------------------------------------------------
(* Properties.                                                             *)

Node == [directory : BOOLEAN, first : {0} \cup Cluster,
         size : 0 .. Slots \cup { w[1] + w[2] : w \in Spans }]

TypeOK ==
  /\ fat \in [Cluster -> FatEntry] /\ dfat \in [Cluster -> FatEntry]
  /\ disk \in [Cluster -> [1 .. Slots -> Unit]]
  /\ handles \in [Handles -> Node \cup {NoNode}]
  /\ op.pc \in {"idle", "alloc", "link", "zero", "dots", "enter", "body"}
  /\ op.pc \in {"link", "zero"} => op.new \in Cluster
  /\ op.pc \in {"link", "body", "enter"} => op.cur \in Cluster
  /\ op.pc = "dots" => op.first \in Cluster
  /\ adrift \in BOOLEAN /\ made \subseteq Cluster \X Names
  /\ calls \in 0 .. MaxCalls /\ faults \in 0 .. MaxFaults /\ resets \in 0 .. MaxResets

EntriesOf(table, d) == LET s == Units(table, d) IN { s[i] : i \in Seen(s) }

\* The directories a table leads to from the root, the first clusters of all.
Children(table, d) ==
  { e[4] : e \in { f \in EntriesOf(table, d) : Named(f) /\ f[3] } }
DirsOf(table) ==
  LET at[k \in 0 .. Total] ==
        IF k = 0 THEN {Root} ELSE UNION { {d} \cup Children(table, d) : d \in at[k - 1] }
  IN at[Total]
Heads(table) ==
  (UNION { {d} \cup { e[4] : e \in { f \in EntriesOf(table, d) : Named(f) } }
         : d \in DirsOf(table) }) \ {0}

Sound(table, heads) ==
  /\ \A c \in heads : LET ch == Walk(table, c) IN Len(ch) < Total /\ table[ch[Len(ch)]] = Eoc
  /\ \A c, e \in heads : c # e =>
       LET a == Walk(table, c)
           b == Walk(table, e)
       IN \A i \in DOMAIN a, j \in DOMAIN b : a[i] # b[j]

\* No two entries lead to one chain.
OneEntryEach(table) ==
  \A d, e \in DirsOf(table) : \A x \in EntriesOf(table, d), y \in EntriesOf(table, e) :
    Named(x) /\ Named(y) /\ x[4] = y[4] /\ x[4] # 0 => x = y /\ d = e

\* What a table's directories hold is the driver's, but for the cluster that is
\* linked and not cleared yet.
KnownBelow(table) ==
  \A d \in DirsOf(table) :
    LET ch == Walk(table, d)
    IN \A k \in DOMAIN ch, i \in 1 .. Slots :
         Legible(disk[ch[k]][i]) \/ (op.pc = "zero" /\ ch[k] = op.new)

\* No cluster belongs to two files, a file and a directory or twice to one, and
\* every chain ends: in the copy of the table, counting files known only by
\* their nodes, and on the disk at any moment (alloc_cluster writes the mark
\* before extend_chain writes the link to it).  And no directory shows what its
\* clusters held before.  All this whatever commands failed, seen or not, and
\* wherever power was lost, up to the first of these (adrift): the mark missed
\* the disk unseen, a new directory cluster was not set up, power was lost
\* before it was, a directory was misread.
ChainsSound ==
  ~ adrift =>
    /\ Sound(fat, Heads(fat) \cup ({ handles[h].first : h \in Handles } \ {0}))
    /\ Sound(dfat, Heads(dfat))
    /\ OneEntryEach(fat) /\ OneEntryEach(dfat)
    /\ KnownBelow(fat) /\ KnownBelow(dfat)

\* A directory the disk leads to has its "." and "..", and they name it and its
\* parent (0 for the root): create_entry writes them before the entry that
\* leads there, so a power loss between the two shows no raw directory.  (One
\* between the link to a further cluster and its clearing may: adrift.)
DirsInitialised ==
  ~ adrift /\ faults = 0 =>
    \A d \in DirsOf(dfat) : \A c \in Children(dfat, d) :
      disk[c][1] = Sfn(".", TRUE, c, 0)
        /\ disk[c][2] = Sfn("..", TRUE, Parent(d), 0)

\* A cluster other than the last of a directory has no end mark in it.
Gapless(table, d) ==
  LET ch == Walk(table, d)
  IN \A k \in 1 .. (Len(ch) - 1), i \in 1 .. Slots : disk[ch[k]][i] # End

\* What create returned 0 for is on the disk: after a power loss at any later
\* moment the next mount finds it (the table, the cluster added and the entry
\* are all written before create returns), unless an earlier loss left the
\* directory a cluster that was not cleared (adrift).  A directory with a gap is
\* not listed beyond it, see TakenNameRefused.
CreatedStays ==
  ~ adrift /\ faults = 0 =>
    \A m \in made :
      Gapless(dfat, m[1]) => \E e \in EntriesOf(dfat, m[1]) : e[2] = m[2]

NamesIn(d, n) ==
  LET s == Units(fat, d) IN { i \in DOMAIN s : EntryAt(s, i) /\ s[i][2] = n }

\* While every cluster of a directory but the last is full, create adds no name
\* that is there already, whatever calls and power losses came before.  (Once a
\* name did not fit in what was left of a cluster it can be added again, see
\* TakenNameRefused, and both may show when the gap is filled.)
NameOnce ==
  ~ adrift /\ faults = 0 /\ op.pc = "enter" /\ Gapless(fat, op.d) => NamesIn(op.d, op.n) = {}

\* fat32_create "fail[s] if anything exists with that name": an entry is never
\* added to a directory that holds one of that name.
TakenNameRefused ==
  [][op.pc = "enter" /\ resets' = resets => NamesIn(op.d, op.n) = {}]_vars

Writing(h) == op.pc \notin {"idle"} /\ op.kind = "write" /\ handles[op.h].first = handles[h].first
InRange(p) == p \in op.offset .. (op.offset + op.n - 1)

\* Through a node a caller holds, the bytes below its size change only by a
\* write to the same file and only in the range written, to the value written;
\* and when a write has gone through, all its range reads back.
WriteIsExact ==
  [][faults' = 0 =>
       /\ \A h \in Handles :
            /\ handles[h] # NoNode /\ ~ handles[h].directory
            /\ handles'[h].first = handles[h].first /\ handles[h].size <= handles'[h].size
            => \A p \in 0 .. (handles[h].size - 1) :
                 \/ ByteAt(h, p)' = ByteAt(h, p)
                 \/ Writing(h) /\ InRange(p) /\ ByteAt(h, p)' = Data(op.b)
       /\ (op.pc = "body" /\ op' = Idle /\ resets' = resets) =>
            \A h \in Handles : \A p \in op.offset .. (op.offset + op.n - 1) :
              h = op.h => p < handles'[h].size /\ ByteAt(h, p)' = Data(op.b)]_vars
=============================================================================
