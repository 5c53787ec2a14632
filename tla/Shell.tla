--------------------------------- MODULE Shell ---------------------------------
(***************************************************************************)
(* The file commands of the shell, init/init.c, over the virtual file       *)
(* system of module Vfs: the current directory is kept as a path, every     *)
(* argument is made absolute by resolve_path and handed to vfs.c, and every *)
(* command closes what it opened.  The shell is the only caller of the VFS  *)
(* once main.c has started it.                                              *)
(*                                                                          *)
(* An absolute path is the sequence of its components, in the normal form   *)
(* resolve_path produces; what is typed is a sequence of components too, in *)
(* which "" (two slashes, a last slash, nothing), "." and ".." may stand.   *)
(* Paths of more than 127 characters are left out.                          *)
(***************************************************************************)
EXTENDS Integers, FiniteSets, Sequences

CONSTANTS
  Names, Cut(_), Flat, Texts, BootScript, MaxNodes, MaxChildren,
  MaxEntries, MaxMounts, Fds, Size, Chunk, \* those of Vfs
  Arguments                                \* what is typed after a command

VARIABLES
  used, isDir, children, entries, mounts, mountedOn, fsRoot, fds, bootStep,
  listed,   \* the state of Vfs
  cwd,      \* g_cwd
  cwdNode,  \* history: the node `cd` opened for it
  job       \* the command that has a descriptor open

V == INSTANCE Vfs WITH root <- fsRoot, step <- bootStep, Readable <- Texts, Paths <- {}

\* What module Vfs asks of its constants, a boot script that begins with the
\* root, and arguments that are sequences of components.
ASSUME ShellAssumption ==
  /\ BootScript \in Seq(V!BootStep) /\ BootScript # << >>
  /\ \A k \in DOMAIN BootScript : BootScript[k].op = "root" <=> k = 1
  /\ \A n \in V!Component : Cut(n) \in V!Component
  /\ V!Ram \notin Flat /\ "none" \notin Flat /\ Texts \subseteq Flat
  /\ {MaxNodes, MaxChildren, MaxEntries, MaxMounts, Size, Chunk} \subseteq Nat \ {0}
  /\ Fds \subseteq Nat /\ Fds # {}
  /\ \A arg \in Arguments : /\ arg.absolute \in BOOLEAN
                            /\ arg.parts \in Seq(Names \cup {V!Empty, ".", ".."})

shellVars == << cwd, cwdNode, job >>
fileVars == << used, isDir, children, entries, mounts, mountedOn, fsRoot, bootStep, fds, listed >>
shVars == << fileVars, shellVars >>

NoJob == [kind |-> "none"]
Prompted == V!Booted /\ job = NoJob

ShInit == V!Init /\ cwd = << >> /\ cwdNode = V!Null /\ job = NoJob

-----------------------------------------------------------------------------
(* resolve_path.                                                           *)

\* One turn of its loop: the component at hand is skipped, takes the last one
\* away, or is appended.
Push(path, part) ==
  CASE part \in {V!Empty, "."} -> path
    [] part = ".." -> IF path = << >> THEN path ELSE SubSeq(path, 1, Len(path) - 1)
    [] OTHER -> Append(path, part)

ResolvePath(arg) ==
  LET temp[k \in 0 .. Len(arg.parts)] ==
        IF k = 0 THEN IF arg.absolute THEN << >> ELSE cwd
        ELSE Push(temp[k - 1], arg.parts[k])
  IN temp[Len(arg.parts)]

-----------------------------------------------------------------------------
(* The commands.                                                           *)

\* main.c has mounted the file systems before it starts the shell.
ShBoot == V!Boot /\ UNCHANGED shellVars

\* mkdir.
MkdirCommand(arg) == Prompted /\ V!VfsMkdir(ResolvePath(arg)) /\ UNCHANGED shellVars

\* vfs_open with the flags of the command (only `write` says O_CREAT).
OpenPath(kind, path) ==
  IF kind = "write" /\ V!Resolve(path) = V!Null THEN V!VfsOpenCreate(path) ELSE V!VfsOpen(path)

\* What vfs_open returned.
NewFd == CHOOSE d \in Fds : fds'[d] # fds[d]

\* Mutant: `cd` keeps the path before it knows that it exists.
OpenCommand_Trusts(kind, arg) ==
  /\ Prompted
  /\ \E path \in {ResolvePath(arg)} :
       /\ OpenPath(kind, path)
       /\ job' = IF fds' = fds THEN NoJob
                 ELSE [kind |-> kind, path |-> path, fd |-> NewFd]
       /\ cwd' = IF kind = "cd" THEN path ELSE cwd
  /\ UNCHANGED cwdNode

\* cd (also a line that starts or ends with a slash, or is ".."), cdl, dump
\* and write open the path they are given, or give up.
OpenCommand(kind, arg) ==
  /\ Prompted
  /\ \E path \in {ResolvePath(arg)} :
       /\ OpenPath(kind, path)
       /\ job' = IF fds' = fds THEN NoJob
                 ELSE [kind |-> kind, path |-> path, fd |-> NewFd]
  /\ UNCHANGED << cwd, cwdNode >>

\* cdl prints the next entry, dump the next piece of the text.  (vfs_write
\* returns -1 on everything main.c mounts, so `write` changes nothing more.)
MoreToList == job.kind = "list" /\ V!IsDirectory(fds[job.fd].node)
                /\ V!ReadDirIndex(job.fd) <= V!Count(fds[job.fd].node)
MoreToRead == job.kind = "dump" /\ fds[job.fd].node[1] \in Texts
                /\ fds[job.fd].node[2] # 0 /\ V!ReadCount(fds[job.fd].offset) > 0

ListEntry == MoreToList /\ V!VfsReaddir(job.fd) /\ UNCHANGED shellVars
DumpText == MoreToRead /\ V!VfsRead(job.fd) /\ UNCHANGED shellVars

\* The end of the command: vfs_close, and what `cd` found becomes the current
\* directory.
EndCommand ==
  /\ job # NoJob /\ ~MoreToList /\ ~MoreToRead
  /\ V!VfsClose(job.fd)
  /\ IF job.kind = "cd"
     THEN cwd' = job.path /\ cwdNode' = fds[job.fd].node
     ELSE UNCHANGED << cwd, cwdNode >>
  /\ job' = NoJob

ShNext ==
  \/ ShBoot
  \/ \E arg \in Arguments : MkdirCommand(arg)
  \/ \E arg \in Arguments, kind \in {"cd", "list", "dump", "write"} : OpenCommand(kind, arg)
  \/ ListEntry \/ DumpText \/ EndCommand

ShSpec == ShInit /\ [][ShNext]_shVars

-----------------------------------------------------------------------------
(* Properties.                                                             *)

ShTypeOK ==
  /\ V!TypeOK
  /\ cwd \in Seq(Names) /\ cwdNode \in V!Node \cup {V!Null}
  /\ job = NoJob \/ (job.fd \in Fds /\ V!InUse(job.fd))

\* Whenever the shell prompts, its current directory, which it keeps as text,
\* still leads to the node that `cd` opened; so does every path on the way
\* there, so that `cd ..` finds a place from everywhere; and no command has
\* left a descriptor open, whether it succeeded, failed or found an end.
PromptIsSound ==
  Prompted =>
    /\ cwdNode = V!Null \/ V!Resolve(cwd) = cwdNode
    /\ cwdNode = V!Null => cwd = << >>
    /\ \A k \in 0 .. Len(cwd) : V!Resolve(SubSeq(cwd, 1, k)) # V!Null
    /\ V!FreeFds = Fds
=============================================================================
