-------------------------------- MODULE MC_Vfs --------------------------------
(* Values for the constants of Vfs: a boot sequence that mounts one flat    *)
(* file system of each kind, room for three more nodes, and names of which  *)
(* one is longer than a directory slot can hold.                            *)
EXTENDS Vfs

MCNames == {"sys", "dev", "proc", "init", "vga", "a", "cut", "cutlong"}
MCCut(name) == IF name = "cutlong" THEN "cut" ELSE name

MCPaths == { <<>>, <<"a">>, <<"a", "a">>, <<"a", Empty>>, <<"cut">>, <<"cutlong">>,
             <<"sys", "proc">>, <<"sys", "proc", "init">>, <<"sys", "dev", "a">> }

MCBoot == <<
  [op |-> "root"],
  [op |-> "mkdir", path |-> <<"sys">>],
  [op |-> "mkdir", path |-> <<"sys", "dev">>],
  [op |-> "mkdir", path |-> <<"sys", "proc">>],
  [op |-> "mount", path |-> <<"sys", "dev">>, fs |-> "dev"],
  [op |-> "entry", fs |-> "dev", name |-> "vga"],
  [op |-> "mount", path |-> <<"sys", "proc">>, fs |-> "proc"],
  [op |-> "entry", fs |-> "proc", name |-> "init"] >>
=============================================================================
