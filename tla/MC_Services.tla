------------------------------ MODULE MC_Services ------------------------------
(* Small instances of the services.                                        *)
EXTENDS Services

\* Pages: the boot loader mapped the kernel image through one table of each
\* level; regions of one, two and too many pages, one of no size.
MCBootTable == << 1, 2, 3, 4 >>
MCRegions == { [addr |-> 40, size |-> 2], [addr |-> 45, size |-> 2],
               [addr |-> 50, size |-> 0], [addr |-> 60, size |-> 40] }

\* Tasks: ACPI has not been read when the scheduler is set up.
MCReported == {0}
MCApicIds  == { [c \in 0 .. MaxCpus - 1 |-> 0] }

\* Console.
MCPrompt   == << ">" >>
MCOutputs  == { << >>, << "o", "o", "o", "\n" >> }
MCLockText == << "L", "\n" >>
MCLogText  == << "K", "\n" >>

\* Shell: one file system mounted below the root, room for two more nodes, a
\* name longer than a directory slot holds, paths up, down and across.
MCNames == {"sys", "proc", "init", "a", "cut", "cutlong"}
MCCut(name) == IF name = "cutlong" THEN "cut" ELSE name
MCBoot == <<
  [op |-> "root"],
  [op |-> "mkdir", path |-> << "sys" >>],
  [op |-> "mkdir", path |-> << "sys", "proc" >>],
  [op |-> "mount", path |-> << "sys", "proc" >>, fs |-> "proc"],
  [op |-> "entry", fs |-> "proc", name |-> "init"] >>
Relative(parts) == [absolute |-> FALSE, parts |-> parts]
Absolute(parts) == [absolute |-> TRUE, parts |-> parts]
MCArguments == {
  Relative(<< "" >>), Relative(<< ".." >>), Relative(<< "a" >>),
  Relative(<< ".", "cutlong" >>), Relative(<< "cut", "" >>),
  Relative(<< "a", "..", "sys", "proc" >>), Relative(<< "init" >>),
  Absolute(<< "a", "a" >>), Absolute(<< "..", "sys", "" >>) }

\* ACPI: no tables; RSDT only; the FADT where it is not looked for; types in
\* readable and unreadable form, after a stray name; one and two PM1
\* registers; type 5 as S3; an answer to acpi_enable or none; each way of
\* reset and each port, or nothing that works.
Element(enc) == [enc |-> enc, v |-> IF enc = "byte" THEN 5 ELSE 7]
Package(a, b) == [package |-> TRUE, a |-> Element(a), b |-> Element(b)]
Stray == [Package("byte", "byte") EXCEPT !.package = FALSE]

FadtOf(smi, answers, pm1, dsdt, resetReg, revision, has8042) ==
  [sig |-> "FACP",
   body |-> [smi |-> smi, answers |-> answers, pm1 |-> [r \in {"a", "b"} |-> r \in pm1],
             dsdt |-> dsdt, resetReg |-> resetReg, revision |-> revision,
             has8042 |-> has8042]]
Lapic(on, id) == [type |-> "lapic", on |-> on, id |-> id]
MadtOf == [sig |-> "APIC",
           body |-> << Lapic(TRUE, 0), [Lapic(TRUE, 9) EXCEPT !.type = "ioapic"],
                       Lapic(FALSE, 1), Lapic(TRUE, 2), Lapic(TRUE, 4) >>]
SleepTypes(a, b, s3) == [S5 |-> [a |-> a, b |-> b], S3 |-> [a |-> s3, b |-> s3]]

Machine(revision, xsdt, rsdt, types, port, resets) ==
  [rsdp |-> TRUE, revision |-> revision, hasXsdt |-> xsdt # << >>, xsdt |-> xsdt,
   hasRsdt |-> rsdt # << >>, rsdt |-> rsdt, types |-> types, port |-> port,
   resets |-> resets]

MCMachines == {
  [Machine(0, << >>, << >>, SleepTypes(5, 5, 1), "none", {}) EXCEPT !.rsdp = FALSE],
  Machine(0, << >>,
    << MadtOf, FadtOf(TRUE, TRUE, {"a"}, << Stray, Package("byte", "zero") >>, FALSE, 1, FALSE) >>,
    SleepTypes(5, 0, 1), "none", {"8042"}),
  Machine(2, << MadtOf >>,
    << FadtOf(TRUE, TRUE, {"a"}, << >>, FALSE, 1, FALSE) >>,
    SleepTypes(5, 0, 1), "none", {"cf9"}),
  Machine(2, << FadtOf(TRUE, FALSE, {"a", "b"}, << Package("word", "word"), Package("one", "zero") >>, TRUE, 3, FALSE) >>,
    << >>, SleepTypes(1, 0, 5), "none", {"8042"}),
  Machine(2, << FadtOf(FALSE, FALSE, {"a", "b"}, << Package("word", "word") >>, TRUE, 3, TRUE) >>,
    << >>, SleepTypes(7, 7, 3), "none", {"register"}),
  Machine(2, << FadtOf(FALSE, FALSE, {"a"}, << Package("word", "word") >>, TRUE, 3, TRUE) >>,
    << >>, SleepTypes(7, 7, 5), "none", {}),
  Machine(2, << FadtOf(FALSE, FALSE, {"a"}, << >>, FALSE, 3, TRUE),
                FadtOf(TRUE, FALSE, {"a"}, << >>, TRUE, 3, TRUE) >>,
    << >>, SleepTypes(5, 5, 1), "0x604", {}),
  Machine(2, << FadtOf(FALSE, FALSE, {"b"}, << >>, FALSE, 3, TRUE) >>,
    << >>, SleepTypes(5, 5, 1), "0xB004", {"8042"}) }
MCGuesses == << 0, 5, 7, 13 >>
=============================================================================
