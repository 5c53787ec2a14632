---------------------------------- MODULE Acpi ---------------------------------
(***************************************************************************)
(* src/impl/kernel/drivers/acpi.c: the tables found at boot, the list of   *)
(* processors, and the two power commands, each a sequence of attempts     *)
(* that end when one of them works.  The machine is what the firmware      *)
(* describes and what its registers do; it does not change.                *)
(*                                                                         *)
(* A table is [sig, body]; checksums are left out, as a bad one is only    *)
(* reported.  The DSDT is the sequence of the places that read "_S5_":     *)
(* whether a package follows and how its first two elements are encoded.   *)
(***************************************************************************)
EXTENDS Integers, Sequences, SequencesExt

CONSTANTS
  Machines,     \* the machines considered
  MaxIds,       \* length of acpi_cpu_apic_ids (64)
  PollCap,      \* looks at PM1a in acpi_enable (1000)
  Guesses       \* SLP_TYP values tried (0, 5, 7, 13)

\* An element of a package, if it has an encoding the scan understands, and
\* a place that reads "_S5_" before such a package.
Understood(e) == e.enc \in {"byte", "zero", "one"}
Value(e) == CASE e.enc = "zero" -> 0 [] e.enc = "one" -> 1 [] OTHER -> e.v
Parsed(s) == s.package /\ Understood(s.a) /\ Understood(s.b)

\* Processors have numbers, sleep types three bits, and a package that can be
\* read has the types of the machine's soft-off state.
TableOK(m, t) ==
  /\ t.sig = "APIC" => t.body \in Seq([type : STRING, on : BOOLEAN, id : Nat])
  /\ t.sig = "FACP" =>
       /\ DOMAIN t.body.dsdt \subseteq Nat
       /\ \A i \in DOMAIN t.body.dsdt : LET s == t.body.dsdt[i] IN
            Parsed(s) => Value(s.a) = m.types["S5"]["a"] /\ Value(s.b) = m.types["S5"]["b"]
MachineOK(m) ==
  /\ \A r \in {"a", "b"} : m.types["S5"][r] \in 0 .. 7
  /\ \A i \in DOMAIN m.xsdt : TableOK(m, m.xsdt[i])
  /\ \A i \in DOMAIN m.rsdt : TableOK(m, m.rsdt[i])
  /\ DOMAIN m.xsdt \subseteq Nat /\ DOMAIN m.rsdt \subseteq Nat

ASSUME AcpiAssumption ==
  /\ MaxIds \in Nat /\ PollCap \in Nat
  /\ Guesses \in Seq(Nat)
  /\ \A m \in Machines : MachineOK(m)

VARIABLES
  machine,      \* the machine
  root,         \* "none", "xsdt" (g_xsdt) or "rsdt" (g_rsdt)
  enabled,      \* g_acpi_enabled
  apicIds,      \* acpi_cpu_apic_ids, as far as it is filled
  apicCount,    \* acpi_cpu_count
  command,      \* "none", "shutdown" or "reboot"
  pc,           \* where the code is
  tries,        \* looks or guesses made in the current step
  asked,        \* sleep types written to PM1: << register, type >>
  power         \* "on", "off", "asleep" or "reset"

acVars == << machine, root, enabled, apicIds, apicCount, command, pc, tries, asked, power >>

Tables == CASE root = "xsdt" -> machine.xsdt
            [] root = "rsdt" -> machine.rsdt
            [] OTHER -> << >>
\* acpi_find_table: the first with the signature.  (Only one of the two root
\* tables is ever set, so the search of the RSDT after the XSDT never happens.)
Found(sig) == { i \in DOMAIN Tables : Tables[i].sig = sig }
Body(sig) == Tables[Min(Found(sig))].body
Fadt == Body("FACP")
HasFadt == Found("FACP") # {}

AcInit ==
  /\ machine \in Machines
  /\ root = "none" /\ enabled = FALSE
  /\ apicIds = << >> /\ apicCount = 0
  /\ command = "none" /\ pc = "boot" /\ tries = 0
  /\ asked = {} /\ power = "on"

\* acpi_init finds the root table ...
AcpiInit ==
  /\ pc = "boot"
  /\ root' = IF ~machine.rsdp THEN "none"
             ELSE IF machine.revision >= 2 /\ machine.hasXsdt THEN "xsdt"
             ELSE IF machine.hasRsdt THEN "rsdt" ELSE "none"
  /\ pc' = "madt"
  /\ UNCHANGED << machine, enabled, apicIds, apicCount, command, tries, asked, power >>

\* ... and acpi_parse_madt counts the processors that are enabled and lists
\* as many as there is room for.
Counted(cpus, e) ==
  IF e.type # "lapic" \/ ~e.on THEN cpus
  ELSE [ids |-> IF cpus.count < MaxIds THEN Append(cpus.ids, e.id) ELSE cpus.ids,
        count |-> cpus.count + 1]
ParseMadt ==
  /\ pc = "madt"
  /\ LET entries == IF Found("APIC") = {} THEN << >> ELSE Body("APIC")
         cpus[n \in 0 .. Len(entries)] ==
           IF n = 0 THEN [ids |-> << >>, count |-> 0] ELSE Counted(cpus[n - 1], entries[n])
     IN apicIds' = cpus[Len(entries)].ids /\ apicCount' = cpus[Len(entries)].count
  /\ pc' = "idle"
  /\ UNCHANGED << machine, root, enabled, command, tries, asked, power >>

Goto(label) == pc' = label /\ tries' = 0
fixed == << machine, root, apicIds, apicCount >>

-----------------------------------------------------------------------------
(* acpi_shutdown.                                                          *)

\* Without a FADT the CPU is halted; else acpi_enable begins.
AcpiShutdown ==
  /\ pc = "idle"
  /\ command' = "shutdown"
  /\ IF ~HasFadt THEN Goto("halted") /\ UNCHANGED enabled
     ELSE IF enabled \/ ~Fadt.smi THEN Goto("port604") /\ enabled' = TRUE
     ELSE Goto("enable") /\ UNCHANGED enabled
  /\ UNCHANGED << fixed, asked, power >>

\* Mutant: acpi_enable waits until the machine answers.
Waited_Ever == FALSE

\* timeout-- > 0 has become false.
Waited == tries = PollCap

\* acpi_enable looks for SCI_EN, which comes late or never.
EnablePoll ==
  /\ pc = "enable"
  /\ \/ ~Waited /\ Fadt.answers /\ enabled' = TRUE /\ Goto("port604")
     \/ ~Waited /\ enabled' = enabled /\ pc' = pc /\ tries' = (tries + 1) % (PollCap + 1)
     \/ Waited /\ enabled' = enabled /\ Goto("port604")
  /\ UNCHANGED << fixed, command, asked, power >>

\* A step that ends the machine's work if it has what the step needs.
Attempt(from, works, result, to) ==
  /\ pc = from /\ power = "on"
  /\ power' = IF works THEN result ELSE power
  /\ Goto(to)
  /\ UNCHANGED << fixed, enabled, command, asked >>

\* outw(0x604, 0x2000), outw(0xB004, 0x2000)
QemuPorts ==
  \/ Attempt("port604", machine.port = "0x604", "off", "portB004")
  \/ Attempt("portB004", machine.port = "0xB004", "off", "dsdt")

\* The places that read "_S5_" before a package that the scan understands.
Packages == { i \in DOMAIN Fadt.dsdt : Parsed(Fadt.dsdt[i]) }

ScanDsdt ==
  /\ pc = "dsdt" /\ power = "on"
  /\ Goto(IF Packages # {} THEN "s5a" ELSE "guessA")
  /\ UNCHANGED << fixed, enabled, command, asked, power >>

\* SLP_EN and a sleep type are written to PM1a or PM1b.  The machine sleeps
\* when all its PM1 registers were told the same state.
Told(reg, v, state) ==
  /\ Fadt.pm1[reg] /\ v % 8 = machine.types[state][reg]
  /\ \A r \in {"a", "b"} \ {reg} :
       Fadt.pm1[r] => << r, machine.types[state][r] >> \in asked
WritePm1(reg, v) ==
  /\ asked' = IF Fadt.pm1[reg] THEN asked \cup {<< reg, v % 8 >>} ELSE asked
  /\ power' = IF Told(reg, v, "S5") THEN "off"
              ELSE IF Told(reg, v, "S3") THEN "asleep" ELSE power

\* Mutant: the second element is read for both registers.
Declared_B(reg) == Value(Fadt.dsdt[Min(Packages)].b)

Declared(reg) ==
  LET s == Fadt.dsdt[Min(Packages)] IN IF reg = "a" THEN Value(s.a) ELSE Value(s.b)

\* The types of the package, then the CPU is halted.
WriteS5 ==
  /\ power = "on"
  /\ \/ pc = "s5a" /\ WritePm1("a", Declared("a")) /\ Goto("s5b")
     \/ pc = "s5b" /\ WritePm1("b", Declared("b")) /\ Goto("halted")
  /\ UNCHANGED << fixed, enabled, command >>

\* Without one, usual types are tried on PM1a, then on PM1b; 13 is type 5,
\* the bits above the field being those of SLP_EN.
Guess(reg, here, next) ==
  /\ pc = here /\ power = "on"
  /\ IF Fadt.pm1[reg] /\ tries < Len(Guesses)
     THEN WritePm1(reg, Guesses[tries + 1]) /\ tries' = tries + 1 /\ pc' = pc
     ELSE Goto(next) /\ UNCHANGED << asked, power >>
  /\ UNCHANGED << fixed, enabled, command >>
GuessTypes == Guess("a", "guessA", "guessB") \/ Guess("b", "guessB", "apm")

\* int 0x15 has no BIOS behind it: isr_default_handler halts the CPU.
Apm == Attempt("apm", FALSE, "off", "halted")

-----------------------------------------------------------------------------
(* acpi_reboot.                                                            *)

AcpiReboot ==
  /\ pc = "idle"
  /\ command' = "reboot"
  /\ Goto(IF HasFadt /\ Fadt.resetReg THEN "resetRegister" ELSE "pulse")
  /\ UNCHANGED << fixed, enabled, asked, power >>

\* The controller is pulsed unless the FADT says there is none.
Pulses == IF HasFadt /\ Fadt.revision >= 2 THEN Fadt.has8042 ELSE TRUE

\* Reset register, keyboard controller, port 0xCF9, triple fault.
ResetSteps ==
  \/ Attempt("resetRegister", "register" \in machine.resets, "reset", "pulse")
  \/ Attempt("pulse", Pulses /\ "8042" \in machine.resets, "reset", "cf9")
  \/ Attempt("cf9", "cf9" \in machine.resets, "reset", "tripleFault")
  \/ Attempt("tripleFault", TRUE, "reset", "halted")

-----------------------------------------------------------------------------
PowerStep == \/ EnablePoll \/ QemuPorts \/ ScanDsdt \/ WriteS5 \/ GuessTypes \/ Apm
             \/ ResetSteps

AcNext == AcpiInit \/ ParseMadt \/ AcpiShutdown \/ AcpiReboot \/ PowerStep

\* The CPU goes on executing.
AcFairness == WF_acVars(PowerStep)

AcSpec == AcInit /\ [][AcNext]_acVars /\ AcFairness

-----------------------------------------------------------------------------
(* Properties.                                                             *)

AcTypeOK ==
  /\ machine \in Machines
  /\ root \in {"none", "xsdt", "rsdt"}
  /\ enabled \in BOOLEAN
  /\ apicIds \in Seq(Nat) /\ Len(apicIds) <= MaxIds
  /\ apicCount >= Len(apicIds)
  /\ command \in {"none", "shutdown", "reboot"}
  /\ tries \in Nat
  /\ asked \subseteq {"a", "b"} \X (0 .. 7)
  /\ power \in {"on", "off", "asleep", "reset"}

\* A machine whose DSDT declares its soft-off types in a form the scan
\* understands is told those types and no others, each to its own register,
\* whatever stray "_S5_" comes before and whether acpi_enable was answered;
\* so it never ends in another sleep state.  (Guessed types may: type 5 is
\* S3 on many chipsets.)
SleepsAsDeclared ==
  (HasFadt /\ Packages # {}) =>
    /\ asked \subseteq { << r, machine.types["S5"][r] >> : r \in {"a", "b"} }
    /\ power # "asleep"
    /\ (pc = "halted" /\ command = "shutdown" /\ \E r \in {"a", "b"} : Fadt.pm1[r])
         => power = "off"

\* A power command comes to its end, whatever the machine supports: after
\* "shutdown" it is off, in another sleep state or halted, after "reboot" it
\* has been reset.
PowerEnds ==
  /\ command = "shutdown" ~> power \in {"off", "asleep"} \/ pc = "halted"
  /\ command = "reboot" ~> power = "reset"
=============================================================================
