------------------------------- MODULE AhciPort -------------------------------
(***************************************************************************)
(* The AHCI driver of src/impl/kernel/drivers/ahci.c and the port it        *)
(* drives: ahci_init, and port_read / port_write, which differ only in the  *)
(* direction bit of the header and the ATA command and are one operation    *)
(* here.  The driver polls; the device runs beside it, so every read of a   *)
(* device register is a step of its own.                                    *)
(*                                                                          *)
(* Of the command headers only the address of the table is kept.  ahci_init *)
(* sets it in header 0; a command in a later slot is written through        *)
(* address 0.  The driver also reaches the headers and the table through    *)
(* the low halves of their addresses.  Such writes are taken to change      *)
(* nothing that is kept here, and what the device fetches is left open.     *)
(***************************************************************************)
EXTENDS Integers, FiniteSets

CONSTANTS
  Port,         \* ports of the controller (0 .. 31)
  DeviceMaps,   \* what may be attached: functions from Port to device types
  PortFrames,   \* frames pfa_alloc may return
  Slots,        \* command slots (32)
  ReadyTries,   \* iterations of the "port ready" loop (100000)
  DoneTries,    \* iterations of the completion loop (1000000)
  MaxCalls      \* bound: number of sector calls made

Slot == 0 .. Slots - 1
Call == 1 .. MaxCalls
NoPort == -1
Pending == 1
Frame == PortFrames \cup {0}

ASSUME PortAssumption ==
  /\ Port \subseteq Nat /\ Port # {}
  /\ IsFiniteSet(PortFrames) /\ PortFrames \subseteq Nat \ {0}
  /\ Slots \in Nat \ {0} /\ ReadyTries \in Nat \ {0} /\ DoneTries \in Nat \ {0}
  /\ MaxCalls \in Nat

VARIABLES
  port, initialized,        \* g_ahci_port, g_ahci_initialized
  list, ctba, started,      \* clb/clbu, ctba/ctbau of each header, ST and FRE set
  ci, tfes, busy, halted,   \* command issue, task file error, BSY/DRQ, engine stopped
  pc, call, slot, timeout,  \* the driver: next step and the locals of port_read
  owner,                    \* the call whose command a slot holds
  served, failed,           \* calls whose command the device finished, or rejected
  ret                       \* what each call returned: 0, -1, or Pending

boot   == << port, initialized, list, ctba, started >>
device == << ci, tfes, busy, halted >>
locals == << call, slot, timeout >>
ghost  == << owner, served, failed >>
vars   == << boot, device, pc, locals, ghost, ret >>

-----------------------------------------------------------------------------
Init ==
  /\ port = NoPort /\ initialized = FALSE
  /\ list = 0 /\ ctba = [s \in Slot |-> 0] /\ started = FALSE
  /\ ci = {} /\ tfes = FALSE /\ busy = FALSE /\ halted = FALSE
  /\ pc = "init" /\ call = 0 /\ slot = -1 /\ timeout = -1
  /\ owner = [s \in Slot |-> 0] /\ served = {} /\ failed = {}
  /\ ret = [c \in Call |-> Pending]

\* check_type finds a SATA disk on the port: anything present and active that
\* is not an ATAPI, enclosure or multiplier device.
FirstSata(attached) ==
  CHOOSE p \in Port : /\ attached[p] = "sata"
                      /\ \A q \in Port : attached[q] = "sata" => p <= q

\* ahci_init: the first disk's port is chosen before its three pages are
\* allocated; pages is what pfa_alloc had left.  Only header 0 gets a table.
AhciInit(attached, pages) ==
  /\ pc = "init"
  /\ IF \A p \in Port : attached[p] # "sata"
     THEN UNCHANGED boot
     ELSE /\ port' = FirstSata(attached)
          /\ initialized' = (Cardinality(pages) >= 3)
          /\ started' = (started \/ Cardinality(pages) >= 3)
          /\ IF Cardinality(pages) >= 3
             THEN \E l, t \in pages : /\ l # t
                                      /\ list' = l /\ ctba' = [ctba EXCEPT ![0] = t]
             ELSE UNCHANGED << list, ctba >>
  /\ pc' = "idle"
  /\ UNCHANGED << device, locals, ghost, ret >>

\* The call ends with r.
Return(r) ==
  /\ ret' = [ret EXCEPT ![call] = r]
  /\ pc' = "idle"

\* Mutant: always slot 0.
FindCmdslot_Zero == 0

\* find_cmdslot: the lowest slot with no command issued (NCQ is never used).
FindCmdslot ==
  IF Slot \subseteq ci THEN -1
  ELSE CHOOSE s \in Slot \ ci : \A t \in Slot \ ci : s <= t

\* Mutant: only the port number is looked at.
Refused_PortOnly == port = NoPort

Refused == ~initialized \/ port = NoPort

\* ahci_read_sectors or ahci_write_sectors, and the first line of port_read.
BeginCall ==
  /\ pc = "idle" /\ call < MaxCalls
  /\ call' = call + 1
  /\ IF Refused
     THEN /\ ret' = [ret EXCEPT ![call + 1] = -1]
          /\ UNCHANGED << pc, tfes >>
     ELSE /\ tfes' = FALSE
          /\ pc' = "slot"
          /\ UNCHANGED ret
  /\ UNCHANGED << boot, ci, busy, halted, slot, timeout, ghost >>

\* Choose a slot, fill in its header and write the command to ctba[slot].
FillSlot ==
  /\ pc = "slot"
  /\ slot' = FindCmdslot
  /\ IF FindCmdslot = -1
     THEN /\ Return(-1)
          /\ UNCHANGED timeout
     ELSE /\ timeout' = ReadyTries
          /\ pc' = "ready"
          /\ UNCHANGED ret
  /\ UNCHANGED << boot, device, call, ghost >>

\* Mutant: the loop has no bound.
PollReady_Forever ==
  /\ pc = "ready"
  /\ pc' = IF busy THEN "ready" ELSE "issue"
  /\ UNCHANGED << boot, device, locals, ghost, ret >>

\* One iteration of: while ((tfd & (BSY | DRQ)) && timeout-- > 0);
PollReady ==
  /\ pc = "ready"
  /\ IF busy THEN timeout' = timeout - 1 ELSE UNCHANGED timeout
  /\ pc' = IF busy /\ timeout > 0 THEN "ready" ELSE "issue"
  /\ UNCHANGED << boot, device, call, slot, ghost, ret >>

\* The "Port hung" test, and the write to the command issue register.
Issue ==
  /\ pc = "issue"
  /\ IF timeout = 0
     THEN /\ Return(-1)
          /\ UNCHANGED << ci, owner, timeout >>
     ELSE /\ ci' = ci \cup {slot}
          /\ owner' = [owner EXCEPT ![slot] = call]
          /\ timeout' = DoneTries
          /\ pc' = "wait"
          /\ UNCHANGED ret
  /\ UNCHANGED << boot, tfes, busy, halted, call, slot, served, failed >>

\* Mutant: the test of the command issue bit is the wrong way round.
PollDone_Inverted ==
  /\ pc = "wait"
  /\ timeout' = timeout - 1
  /\ pc' = IF timeout > 0 /\ slot \notin ci THEN "error" ELSE "check"
  /\ UNCHANGED << boot, device, call, slot, ghost, ret >>

\* while (timeout-- > 0), and the look at the command issue register in it.
PollDone ==
  /\ pc = "wait"
  /\ timeout' = timeout - 1
  /\ pc' = IF timeout > 0 /\ slot \in ci THEN "error" ELSE "check"
  /\ UNCHANGED << boot, device, call, slot, ghost, ret >>

\* The look at the interrupt status inside the loop.
PollError ==
  /\ pc = "error"
  /\ IF tfes THEN Return(-1) ELSE pc' = "wait" /\ UNCHANGED ret
  /\ UNCHANGED << boot, device, locals, ghost >>

\* Mutant: the interrupt status is not looked at again after the loop.
CheckResult_TimeoutOnly ==
  /\ pc = "check"
  /\ Return(IF timeout = 0 THEN -1 ELSE 0)
  /\ UNCHANGED << boot, device, locals, ghost >>

\* The tests after the loop: timeout, then task file error.
CheckResult ==
  /\ pc = "check"
  /\ Return(IF timeout = 0 \/ tfes THEN -1 ELSE 0)
  /\ UNCHANGED << boot, device, locals, ghost >>

Driver == BeginCall \/ FillSlot \/ PollReady \/ Issue \/ PollDone \/ PollError \/ CheckResult

-----------------------------------------------------------------------------
(* The device: it may finish a command, reject one and stop, be busy for a *)
(* while, or never answer.                                                 *)

Finish(s) ==
  /\ s \in ci /\ started /\ ~halted
  /\ ci' = ci \ {s}
  /\ served' = served \cup {owner[s]}
  /\ UNCHANGED << boot, tfes, busy, halted, pc, locals, owner, failed, ret >>

\* After a task file error the port fetches no command until the driver
\* restarts the engine, which this driver never does.
Reject(s) ==
  /\ s \in ci /\ started /\ ~halted
  /\ tfes' = TRUE /\ halted' = TRUE
  /\ failed' = failed \cup {owner[s]}
  /\ UNCHANGED << boot, ci, busy, pc, locals, owner, served, ret >>

ChangeBusy ==
  /\ initialized /\ ~halted
  /\ busy' = ~busy
  /\ UNCHANGED << boot, ci, tfes, halted, pc, locals, ghost, ret >>

Device == ChangeBusy \/ \E s \in Slot : Finish(s) \/ Reject(s)

Next == \/ \E attached \in DeviceMaps, pages \in SUBSET PortFrames : AhciInit(attached, pages)
        \/ Driver
        \/ Device

\* The caller is inside the driver until it returns; the device owes nothing.
Spec == Init /\ [][Next]_vars /\ WF_vars(Driver)

-----------------------------------------------------------------------------
(* Properties.                                                             *)

TypeOK ==
  /\ port \in Port \cup {NoPort} /\ initialized \in BOOLEAN
  /\ list \in Frame /\ ctba \in [Slot -> Frame] /\ started \in BOOLEAN
  /\ ci \in SUBSET Slot /\ tfes \in BOOLEAN /\ busy \in BOOLEAN /\ halted \in BOOLEAN
  /\ pc \in {"init", "idle", "slot", "ready", "issue", "wait", "error", "check"}
  /\ call \in 0 .. MaxCalls /\ slot \in Slot \cup {-1}
  /\ timeout \in -1 .. ReadyTries \cup -1 .. DoneTries
  /\ owner \in [Slot -> 0 .. MaxCalls]
  /\ served \in SUBSET Call /\ failed \in SUBSET Call
  /\ ret \in [Call -> {Pending, 0, -1}]

Ends(c, r) == ret[c] = Pending /\ ret'[c] = r

\* A command is never issued into a slot that still holds another one, however
\* many earlier calls gave up on theirs and whenever the device finishes them:
\* find_cmdslot's answer is still good when port_read gets to the write of ci.
SlotNotTaken ==
  [][ \A s \in Slot : owner'[s] # owner[s] => s \notin ci ]_vars

\* A call whose command the device rejected does not return 0, whichever of
\* the two looks at the interrupt status comes after the rejection.
RejectionReported ==
  [][ \A c \in Call : Ends(c, 0) => c \notin failed ]_vars

\* A call returns 0 only when the device finished its command or when it has
\* waited the whole DoneTries iterations: no early exit is taken for success.
SuccessAfterWait ==
  [][ \A c \in Call : Ends(c, 0) => c \in served \/ timeout = -1 ]_vars

\* Although ahci_init chooses the port before it can fail, no command is
\* issued to a port whose engine it did not start with a list of its own, and
\* none in slot 0 without the table.  (Of the later slots nothing is said:
\* their headers have no table, and port_read issues commands there once one
\* was given up.)
CommandsNeedSetup ==
  /\ ci # {} => started /\ list \in PortFrames
  /\ 0 \in ci => ctba[0] \in PortFrames \ {list}

\* Every sector call returns, even if the device never answers.
CallReturns == pc \notin {"init", "idle"} ~> pc = "idle"

\* "Read timeout": a call returns 0 only if the device finished its command;
\* waiting in vain is an error.
TimeoutReported ==
  [][ \A c \in Call : Ends(c, 0) => c \in served ]_vars
=============================================================================
