---------------------------------- MODULE Vfs ----------------------------------
(***************************************************************************)
(* The virtual file system of src/impl/kernel/fs/vfs.c over the file        *)
(* systems main.c mounts: ramfs.c as the root, devfs.c and procfs.c, which  *)
(* have the same shape (one flat directory), below it.  Calls come in any   *)
(* order once the boot sequence of main.c is over.                          *)
(*                                                                          *)
(* A path is the sequence of its components; "/a/" is <<"a", "">>.  A node  *)
(* is << file system, number >>: ramfs numbers its pool from 1, the root of *)
(* a flat file system is 0 and its entries follow.                          *)
(***************************************************************************)
EXTENDS Integers, FiniteSets, Sequences

CONSTANTS
  Names, Cut(_),  \* names in use; the first 31 characters of a name
  Paths,          \* the paths callers use
  Flat,           \* the flat file systems; each is mounted at most once
  Readable,       \* those whose entries can be read (procfs)
  BootScript,     \* what main.c does, a sequence of steps
  MaxNodes,       \* MAX_RAMFS_NODES (64)
  MaxChildren,    \* RAMFS_MAX_CHILDREN (64)
  MaxEntries,     \* MAX_DEVFS_NODES, MAX_PROCFS_NODES (16)
  MaxMounts,      \* MAX_MOUNTS (16)
  Fds,            \* descriptors that are not reserved (3 .. 255)
  Size, Chunk     \* length of an entry's text, bytes asked for by a read

Empty == ""
Ram == "ram"
Null == << "none", 0 >>
Component == Names \cup {Empty}

\* The root is mounted first and only then.
BootStep ==
  [op : {"root"}] \cup [op : {"mkdir"}, path : Seq(Component)]
    \cup [op : {"mount"}, path : Seq(Component), fs : Flat]
    \cup [op : {"entry"}, fs : Flat, name : Component]

ASSUME VfsAssumption ==
  /\ BootScript \in Seq(BootStep)
  /\ \A k \in DOMAIN BootScript : BootScript[k].op = "root" <=> k = 1
  /\ \A n \in Component : Cut(n) \in Component
  /\ Paths \subseteq Seq(Component)
  /\ Ram \notin Flat /\ "none" \notin Flat /\ Readable \subseteq Flat
  /\ {MaxNodes, MaxChildren, MaxEntries, MaxMounts, Size, Chunk} \subseteq Nat \ {0}
  /\ Fds \subseteq Nat /\ Fds # {}

VARIABLES
  used,      \* ramfs_node_count
  isDir,     \* of each ramfs node, its VFS_DIRECTORY flag
  children,  \* of each ramfs node, its slots in use: name and node
  entries,   \* of each flat file system, the names of its entries
  mounts,    \* g_mounts: the root of each mount
  mountedOn, \* of each ramfs node, the mount it points to (0: none)
  root,      \* g_vfs_root
  fds,       \* g_fds: node and offset of each descriptor in use
  step,      \* next step of the boot sequence
  listed     \* history: the nodes vfs_readdir returned for a descriptor

tree == << used, isDir, children >>
fsys == << entries, mounts, mountedOn, root, step >>
vars == << tree, fsys, fds, listed >>

RamNode == 1 .. MaxNodes
Closed == [node |-> Null, offset |-> 0]
Booted == step > Len(BootScript)

Init ==
  /\ used = 0
  /\ isDir = [i \in RamNode |-> FALSE]
  /\ children = [i \in RamNode |-> <<>>]
  /\ entries = [f \in Flat |-> <<>>]
  /\ mounts = <<>>
  /\ mountedOn = [i \in RamNode |-> 0]
  /\ root = Null
  /\ fds = [d \in Fds |-> Closed]
  /\ step = 1
  /\ listed = [d \in Fds |-> <<>>]

-----------------------------------------------------------------------------
(* Directories and path resolution.                                        *)

IsDirectory(n) == IF n[1] = Ram THEN isDir[n[2]] ELSE n # Null /\ n[2] = 0

\* What slot i of directory n holds, the slots being filled in order and
\* never freed.
Count(n) == IF n[1] = Ram THEN Len(children[n[2]]) ELSE Len(entries[n[1]])
NameIn(n, i) == IF n[1] = Ram THEN children[n[2]][i].name ELSE entries[n[1]][i]
NodeIn(n, i) == IF n[1] = Ram THEN << Ram, children[n[2]][i].node >> ELSE << n[1], i >>

Matches(n, name) ==
  { i \in 1 .. (IF IsDirectory(n) THEN Count(n) ELSE 0) : NameIn(n, i) = name }

\* Mutant: the scan does not stop at the first match.
FindDir_Last(n, name) ==
  { NodeIn(n, i) : i \in { j \in Matches(n, name) : \A k \in Matches(n, name) : k <= j } }

\* ramfs_finddir, devfs_finddir, procfs_finddir: the first slot that matches,
\* as a set of at most one node.
FindDir(n, name) ==
  { NodeIn(n, i) : i \in { j \in Matches(n, name) : \A k \in Matches(n, name) : j <= k } }

\* A mount point stands for the root of what is mounted there.
Entered(n) == IF n[1] = Ram /\ mountedOn[n[2]] # 0 THEN mounts[mountedOn[n[2]]] ELSE n

\* One turn of the loop of vfs_resolve_path; empty components are skipped.
Walk(N, name) ==
  IF name = Empty THEN N ELSE { Entered(n) : n \in UNION { FindDir(m, name) : m \in N } }

Resolve(path) ==
  LET at[k \in 0 .. Len(path)] ==
        IF k = 0 THEN {root} \ {Null} ELSE Walk(at[k - 1], path[k])
      N == at[Len(path)]
  IN IF N = {} THEN Null ELSE CHOOSE n \in N : TRUE

\* vfs_dirname and vfs_basename: the last component may be empty.
Dirname(path) == IF path = <<>> THEN <<>> ELSE SubSeq(path, 1, Len(path) - 1)
Basename(path) == IF path = <<>> THEN Empty ELSE path[Len(path)]

-----------------------------------------------------------------------------
(* ramfs_create, reached through vfs_create and vfs_mkdir.                 *)

HasSlot(n) == n[1] = Ram /\ isDir[n[2]] /\ Len(children[n[2]]) < MaxChildren
\* Mutant: the pool is taken to have no end.
CanCreate_NoPool(n) == HasSlot(n)

CanCreate(n) == HasSlot(n) /\ used < MaxNodes

\* Mutant: the node is allocated before a slot is looked for.
Create_AllocFirst(n, name, directory) ==
  IF used < MaxNodes /\ n[1] = Ram
  THEN /\ used' = used + 1
       /\ isDir' = [isDir EXCEPT ![used + 1] = directory]
       /\ children' = IF HasSlot(n)
                      THEN [children EXCEPT
                              ![n[2]] = Append(@, [name |-> Cut(name), node |-> used + 1])]
                      ELSE children
  ELSE UNCHANGED tree

\* The directory keeps the cut name; a name already there is not looked for.
Create(n, name, directory) ==
  IF CanCreate(n)
  THEN /\ used' = used + 1
       /\ isDir' = [isDir EXCEPT ![used + 1] = directory]
       /\ children' = [children EXCEPT
                         ![n[2]] = Append(@, [name |-> Cut(name), node |-> used + 1])]
  ELSE UNCHANGED tree

Mkdir(path) == Create(Resolve(Dirname(path)), Basename(path), TRUE)

\* vfs_mkdir.
VfsMkdir(path) ==
  /\ Booted
  /\ Mkdir(path)
  /\ UNCHANGED << fsys, fds, listed >>

-----------------------------------------------------------------------------
(* The boot sequence: vfs_mount, vfs_mkdir, devfs_add_device and           *)
(* procfs_add_entry as main.c calls them.                                  *)

\* vfs_mount of the ramfs at "/": it takes the next node of the pool.
MountRoot ==
  IF used < MaxNodes /\ Len(mounts) < MaxMounts
  THEN /\ used' = used + 1
       /\ isDir' = [isDir EXCEPT ![used + 1] = TRUE]
       /\ mounts' = Append(mounts, << Ram, used + 1 >>)
       /\ root' = << Ram, used + 1 >>
       /\ mountedOn' = [mountedOn EXCEPT ![used + 1] = Len(mounts) + 1]
       /\ UNCHANGED << children, entries >>
  ELSE UNCHANGED << tree, entries, mounts, mountedOn, root >>

\* vfs_mount of a flat file system below it.
Mount(path, f) ==
  LET n == Resolve(path)
  IN /\ IF Len(mounts) < MaxMounts /\ n[1] = Ram /\ IsDirectory(n)
        THEN /\ mounts' = Append(mounts, << f, 0 >>)
             /\ mountedOn' = [mountedOn EXCEPT ![n[2]] = Len(mounts) + 1]
        ELSE UNCHANGED << mounts, mountedOn >>
     /\ UNCHANGED << tree, entries, root >>

AddEntry(f, name) ==
  /\ entries' = IF Len(entries[f]) < MaxEntries
                THEN [entries EXCEPT ![f] = Append(@, Cut(name))]
                ELSE entries
  /\ UNCHANGED << tree, mounts, mountedOn, root >>

Boot ==
  /\ ~Booted
  /\ LET s == BootScript[step]
     IN CASE s.op = "root"  -> MountRoot
          [] s.op = "mount" -> Mount(s.path, s.fs)
          [] s.op = "mkdir" -> Mkdir(s.path) /\ UNCHANGED << entries, mounts, mountedOn, root >>
          [] s.op = "entry" -> AddEntry(s.fs, s.name)
  /\ step' = step + 1
  /\ UNCHANGED << fds, listed >>

-----------------------------------------------------------------------------
(* Descriptors.                                                            *)

InUse(d) == fds[d].node # Null

\* Mutant: the reference count is not looked at.
FreeFds_All == Fds

FreeFds == { d \in Fds : ~InUse(d) }

\* The end of vfs_open: a node that was found gets the lowest free descriptor.
OpenedAt(n, start) ==
  IF n = Null \/ FreeFds = {}
  THEN UNCHANGED << fds, listed >>
  ELSE LET d == CHOOSE e \in FreeFds : \A g \in FreeFds : e <= g
       IN /\ fds' = [fds EXCEPT ![d] = [node |-> n, offset |-> start]]
          /\ listed' = [listed EXCEPT ![d] = <<>>]
Opened(n) == OpenedAt(n, 0)

VfsOpen(path) ==
  /\ Booted
  /\ Opened(Resolve(path))
  /\ UNCHANGED << tree, fsys >>

\* vfs_open with O_APPEND starts at node->size, which is 0 but for an entry
\* with a text.
VfsOpenAppend(path) ==
  /\ Booted
  /\ LET n == Resolve(path)
     IN OpenedAt(n, IF n[1] \in Readable /\ n[2] # 0 THEN Size ELSE 0)
  /\ UNCHANGED << tree, fsys >>

\* vfs_open with O_CREAT of a path that does not resolve: vfs_create, then
\* the path is resolved again.
VfsOpenCreate(path) ==
  /\ Booted
  /\ Resolve(path) = Null
  /\ Create(Resolve(Dirname(path)), Basename(path), FALSE)
  /\ UNCHANGED fsys
  /\ Opened(Resolve(path)')

VfsClose(d) ==
  /\ InUse(d)
  /\ fds' = [fds EXCEPT ![d] = Closed]
  /\ listed' = [listed EXCEPT ![d] = <<>>]
  /\ UNCHANGED << tree, fsys >>

\* Mutant: the next call starts one entry too late.
ReadDirIndex_Skips(d) == IF fds[d].offset = 0 THEN 1 ELSE fds[d].offset + 2

ReadDirIndex(d) == fds[d].offset + 1

\* vfs_readdir.  At the end of the directory it returns -1.
VfsReaddir(d) ==
  /\ InUse(d) /\ IsDirectory(fds[d].node)
  /\ ReadDirIndex(d) <= Count(fds[d].node)
  /\ fds' = [fds EXCEPT ![d].offset = @ + 1]
  /\ listed' = [listed EXCEPT ![d] = Append(@, NodeIn(fds[d].node, ReadDirIndex(d)))]
  /\ UNCHANGED << tree, fsys >>

\* procfs_read: at most what is left of the text.
ReadCount(offset) ==
  IF offset >= Size THEN 0 ELSE IF offset + Chunk > Size THEN Size - offset ELSE Chunk

\* vfs_read.  (ramfs and devfs nodes have no read, and none has a write: the
\* calls return -1 and change nothing.)
VfsRead(d) ==
  /\ InUse(d) /\ fds[d].node[1] \in Readable /\ fds[d].node[2] # 0
  /\ ReadCount(fds[d].offset) > 0
  /\ fds' = [fds EXCEPT ![d].offset = @ + ReadCount(@)]
  /\ UNCHANGED << tree, fsys, listed >>

Next ==
  \/ Boot
  \/ \E path \in Paths : 
       VfsMkdir(path) \/ VfsOpen(path) \/ VfsOpenAppend(path) \/ VfsOpenCreate(path)
  \/ \E d \in Fds : VfsClose(d) \/ VfsReaddir(d) \/ VfsRead(d)

Spec == Init /\ [][Next]_vars

-----------------------------------------------------------------------------
(* Properties.                                                             *)

Node == ({Ram} \X RamNode) \cup (Flat \X (0 .. MaxEntries))

TypeOK ==
  /\ used \in 0 .. MaxNodes
  /\ isDir \in [RamNode -> BOOLEAN]
  /\ \A i \in RamNode : children[i] \in Seq([name : Component, node : RamNode])
  /\ mountedOn \in [RamNode -> 0 .. MaxMounts]
  /\ root \in Node \cup {Null}
  /\ \A d \in Fds : /\ fds[d].node \in Node \cup {Null}
                    /\ fds[d].offset \in 0 .. Size + MaxChildren + MaxEntries

\* ramfs never frees a node, so none may be lost: every node taken from the
\* pool is the root or stands in exactly one slot of exactly one directory,
\* which is older than it, whatever creations failed in between.
NoNodeLost ==
  \A i \in RamNode :
    LET places == { q \in RamNode \X (1 .. MaxChildren) :
                      q[2] \in DOMAIN children[q[1]] /\ children[q[1]][q[2]].node = i }
    IN /\ Cardinality(places) = IF i <= used /\ << Ram, i >> # root THEN 1 ELSE 0
       /\ \A q \in places : q[1] < i /\ isDir[q[1]]

\* What a path means never changes: no sequence of calls makes a path that
\* resolves to a node resolve to another one or to none, although ramfs
\* accepts a second entry of the same name.  (The shell keeps its current
\* directory as a path and descriptors keep nodes.)
PathsKeepTheirMeaning ==
  [][ Booted => \A p \in Paths : Resolve(p) # Null => Resolve(p)' = Resolve(p) ]_vars

\* A descriptor names the node it was opened on until it is closed, and its
\* offset never moves back, whatever is opened, created or closed beside it.
DescriptorKept ==
  [][ \A d \in Fds : InUse(d) /\ InUse(d)' =>
        /\ fds'[d].node = fds[d].node
        /\ fds'[d].offset >= fds[d].offset ]_vars

\* A directory read through one descriptor lists every entry once, in the
\* order of creation, with no gap, even when entries are created meanwhile.
ListsEveryEntry ==
  \A d \in Fds : InUse(d) /\ IsDirectory(fds[d].node) =>
    /\ fds[d].offset = Len(listed[d])
    /\ Len(listed[d]) <= Count(fds[d].node)
    /\ \A i \in DOMAIN listed[d] : listed[d][i] = NodeIn(fds[d].node, i)
=============================================================================
