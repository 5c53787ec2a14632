----------------------------- MODULE XhciKeyboard -----------------------------
(***************************************************************************)
(* The xHCI driver of src/impl/kernel/drivers/xhci.c: enumeration of the    *)
(* root-hub ports with its blocking commands, the event ring, the ring of   *)
(* keyboard transfers and usb_kbd_poll.  The controller and the devices run *)
(* beside the driver; what they do is taken from how the driver uses them.  *)
(*                                                                          *)
(* Addresses are left out: the controller finds the rings where the driver  *)
(* keeps them.  A controller that never answers is one of the behaviours.   *)
(***************************************************************************)
EXTENDS Integers, Sequences

CONSTANTS
  MaxPorts,     \* bound: root-hub ports of the controller
  CmdSize,      \* XHCI_CMD_RING_SIZE (32)
  EventSize,    \* XHCI_EVENT_RING_SIZE (32)
  EpSize,       \* XHCI_EP_RING_SIZE (32)
  FlushMax,     \* events flushed before Enable Slot (16)
  CmdTries,     \* iterations of the completion loop (1000000)
  MaxReports,   \* bound: reports the devices send (shared between the ports)
  MaxChanges    \* bound: port status change events

ASSUME XhciAssumption ==
  /\ MaxPorts \in Nat \ {0} /\ CmdSize \in Nat \ {0} /\ EventSize \in Nat \ {0, 1}
  /\ EpSize \in Nat /\ EpSize > 2 * MaxPorts /\ EpSize > 3   \* two transfers wait at most
  /\ FlushMax \in Nat /\ CmdTries \in Nat
  /\ MaxReports \in Nat /\ MaxChanges \in Nat

Slot == 1 .. MaxPorts      \* slots the controller hands out; 0 is "none"
EventIndex == 0 .. EventSize - 1
EpIndex == 0 .. EpSize - 1
Usable == EpSize - 1       \* usable_slots: the last entry is the Link TRB

\* type; slot; completion code; and, to tell events apart, the number of the
\* command or report they are about.
event(t, s, c, n) == [type |-> t, slot |-> s, code |-> c, about |-> n]
NoEvent == event("none", 0, 0, 0)
Success == 1
OtherCode == 4   \* any code other than Success

VARIABLES
  cmds, executed,           \* command ring up to the enqueue pointer; how many done
  ports,                    \* max_ports, as the controller reports it
  ring, enq, pcs, erdp,     \* event ring, the controller's side of it
  deq, ccs,                 \* event_ring_dequeue_ptr, event_ring_cycle_state
  ep1, ep1Enq, ep1Cycle,    \* usb_kbd_ep1_ring, its enqueue index and cycle
  ep,                       \* the controller's interrupt endpoint of each slot
  control,                  \* slots with a control transfer under way
  kbdSlot, configured,      \* usb_kbd_slot, usb_kbd_ep1_configured
  pc, portNo, stage, slotId, timeout, flush, ev,   \* the driver
  given, sent, changes,     \* slots enabled, reports sent, port changes
  posted, taken,            \* history: events posted, number taken by the driver
  queued                    \* history: transfers queued since the ring was cleared

commands == << ports, cmds, executed >>
producer == << ring, enq, pcs >>
consumer == << deq, ccs, erdp >>
ep1ring  == << ep1, ep1Enq, ep1Cycle, queued >>
kbd      == << kbdSlot, configured >>
locals   == << portNo, stage, slotId, timeout, flush >>
env      == << given, sent, changes >>
vars == << commands, producer, consumer, ep1ring, ep, control, kbd, pc, locals,
           ev, env, posted, taken >>

EmptyTrb == [type |-> "empty", cycle |-> 0]
ClearRing == [i \in EpIndex |-> EmptyTrb]

Init ==
  /\ ports \in 1 .. MaxPorts
  /\ cmds = <<>> /\ executed = 0
  /\ ring = [i \in EventIndex |-> [cycle |-> 0, event |-> NoEvent]]
  /\ enq = 0 /\ pcs = 1 /\ erdp = 0 /\ deq = 0 /\ ccs = 1
  /\ ep1 = ClearRing /\ ep1Enq = 0 /\ ep1Cycle = 1
  /\ ep = [s \in Slot |-> [on |-> FALSE, deq |-> 0, cycle |-> 1, bell |-> FALSE, used |-> 0]]
  /\ control = {}
  /\ kbdSlot = 0 /\ configured = FALSE
  /\ pc = "init" /\ portNo = 1 /\ stage = "enable" /\ slotId = 0
  /\ timeout = 0 /\ flush = 0 /\ ev = NoEvent
  /\ given = 0 /\ sent = 0 /\ changes = 0
  /\ posted = <<>> /\ taken = 0 /\ queued = 0

-----------------------------------------------------------------------------
(* The event ring, driver's side.                                          *)

Pending == ring[deq].cycle = ccs

\* Mutant: the index runs past the end of the ring.
Forward_NoWrap(i) == i + 1

Forward(i) == (i + 1) % EventSize

\* Mutant: the cycle state is not toggled on a wrap.
Advance_NoToggle ==
  /\ ev' = ring[deq].event
  /\ deq' = Forward(deq)
  /\ taken' = taken + 1
  /\ UNCHANGED ccs

\* Take the event at the dequeue pointer, toggling the cycle state on a wrap.
Advance ==
  /\ ev' = ring[deq].event
  /\ deq' = Forward(deq)
  /\ ccs' = IF Forward(deq) = 0 THEN 1 - ccs ELSE ccs
  /\ taken' = taken + 1

Take == Advance /\ erdp' = Forward(deq)

-----------------------------------------------------------------------------
(* Enumeration.                                                            *)

\* xhci_init up to the port scan; it may time out and return.
StartController ==
  /\ pc = "init"
  /\ pc' \in {"scan", "poll"}
  /\ UNCHANGED << commands, producer, consumer, ep1ring, ep, control, kbd,
                  locals, ev, env, posted, taken >>

\* The next port, or the end of xhci_init.
ScanPort ==
  /\ pc = "scan"
  /\ IF portNo > ports
     THEN pc' = "poll" /\ UNCHANGED << portNo, flush >>
     ELSE \/ pc' = "flush" /\ flush' = FlushMax /\ UNCHANGED portNo
          \/ pc' = "scan" /\ portNo' = portNo + 1 /\ UNCHANGED flush  \* empty, or no reset
  /\ UNCHANGED << commands, producer, consumer, ep1ring, ep, control, kbd,
                  stage, slotId, timeout, ev, env, posted, taken >>

\* Drop up to FlushMax pending events; ERDP is written once, at the end.
FlushEvent ==
  /\ pc = "flush"
  /\ IF flush > 0 /\ Pending
     THEN /\ Advance
          /\ flush' = flush - 1
          /\ UNCHANGED << erdp, pc, stage >>
     ELSE /\ erdp' = deq
          /\ stage' = "enable"
          /\ pc' = "send"
          /\ UNCHANGED << deq, ccs, ev, taken, flush >>
  /\ UNCHANGED << commands, producer, ep1ring, ep, control, kbd, portNo, slotId,
                  timeout, env, posted >>

NextPort == pc' = "scan" /\ portNo' = portNo + 1

RingFull == (Len(cmds) + 1) % CmdSize = 0

\* xhci_send_command up to the doorbell.
SendCommand ==
  /\ pc = "send"
  /\ IF RingFull
     THEN NextPort /\ UNCHANGED << cmds, timeout >>
     ELSE /\ cmds' = Append(cmds, [op |-> stage, slot |-> slotId])
          /\ timeout' = CmdTries
          /\ pc' = "wait" /\ UNCHANGED portNo
  /\ UNCHANGED << ports, executed, producer, consumer, ep1ring, ep, control,
                  kbd, stage, slotId, flush, ev, env, posted, taken >>

\* Mutant: the loop has no bound.
CountDown_Never == UNCHANGED timeout

\* timeout-- in the condition of the loop.
CountDown == timeout' = timeout - 1

\* One iteration of its completion loop; any other event is dropped.
WaitCommand ==
  /\ pc = "wait"
  /\ IF timeout = 0
     THEN NextPort /\ UNCHANGED << consumer, timeout, ev, taken >>
     ELSE IF ~Pending
     THEN /\ CountDown
          /\ UNCHANGED << consumer, ev, taken, pc, portNo >>
     ELSE /\ Take
          /\ CountDown
          /\ IF ring[deq].event.type # "command" THEN UNCHANGED << pc, portNo >>
             ELSE IF ring[deq].event.code = Success THEN pc' = "handle" /\ UNCHANGED portNo
             ELSE NextPort
  /\ UNCHANGED << commands, producer, ep1ring, ep, control, kbd, stage, slotId,
                  flush, env, posted >>

\* Enable Slot succeeded: xhci_address_device up to its command.
SlotEnabled ==
  /\ pc = "handle" /\ stage = "enable"
  /\ slotId' = ev.slot
  /\ stage' = "address" /\ pc' = "send"
  /\ UNCHANGED << commands, producer, consumer, ep1ring, ep, control, kbd,
                  portNo, timeout, flush, ev, env, posted, taken >>

\* Address Device succeeded: this slot is the keyboard now, and
\* xhci_configure_kbd_endpoint clears the one ring of keyboard transfers.
DeviceAddressed ==
  /\ pc = "handle" /\ stage = "address"
  /\ kbdSlot' = slotId
  /\ ep1' = ClearRing /\ ep1Enq' = 0 /\ ep1Cycle' = 1 /\ queued' = 0
  /\ stage' = "configure" /\ pc' = "send"
  /\ UNCHANGED << commands, producer, consumer, ep, control, configured,
                  portNo, slotId, timeout, flush, ev, env, posted, taken >>

trb(t, c) == [type |-> t, cycle |-> c]

\* Mutant: the Link TRB does not get the cycle bit.
Queued_LinkUnowned(r, i, c) ==
  IF i + 1 >= Usable
  THEN << [r EXCEPT ![i] = trb("normal", c), ![Usable] = trb("link", 0)], 0, 1 -
          c >>
  ELSE << [r EXCEPT ![i] = trb("normal", c)], i + 1, c >>

\* xhci_queue_kbd_transfer on ring r at index i with cycle c.
Queued(r, i, c) ==
  IF i + 1 >= Usable
  THEN << [r EXCEPT ![i] = trb("normal", c), ![Usable] = trb("link", c)], 0, 1 -
          c >>
  ELSE << [r EXCEPT ![i] = trb("normal", c)], i + 1, c >>

\* Write the transfer and ring the doorbell of the keyboard's endpoint.
QueueTransfer ==
  LET q == Queued(ep1, ep1Enq, ep1Cycle)
  IN /\ ep1' = q[1] /\ ep1Enq' = q[2] /\ ep1Cycle' = q[3]
     /\ queued' = queued + 1
     /\ ep' = [ep EXCEPT ![kbdSlot].bell = TRUE]

\* Configure Endpoint succeeded: SET_PROTOCOL is started on endpoint 0 and
\* the first keyboard transfer is queued.
EndpointConfigured ==
  /\ pc = "handle" /\ stage = "configure"
  /\ configured' = TRUE
  /\ control' = control \cup {slotId}
  /\ QueueTransfer
  /\ NextPort
  /\ UNCHANGED << commands, producer, consumer, kbdSlot, stage, slotId,
                  timeout, flush, ev, env, posted, taken >>

-----------------------------------------------------------------------------
(* usb_kbd_poll, called again and again by the reader: the event, then the *)
(* report it is taken to announce.                                         *)

PollEvent ==
  /\ pc = "poll"
  /\ configured /\ Pending
  /\ Take
  /\ pc' = IF ring[deq].event.type = "transfer" THEN "process" ELSE "poll"
  /\ UNCHANGED << commands, producer, ep1ring, ep, control, kbd, locals,
                  env, posted >>

\* Mutant: a failed transfer is not queued again.
Requeues_SuccessOnly(e) == e.type = "transfer" /\ e.slot = kbdSlot /\ e.code = Success

\* Whether an event makes usb_kbd_poll queue the next transfer.
Requeues(e) ==
  e.type = "transfer" /\ (e.slot = kbdSlot \/ e.code # Success)

ProcessEvent ==
  /\ pc = "process"
  /\ IF Requeues(ev) THEN QueueTransfer ELSE UNCHANGED << ep1ring, ep >>
  /\ pc' = "poll"
  /\ UNCHANGED << commands, producer, consumer, control, kbd, locals, ev,
                  env, posted, taken >>

Driver == \/ StartController \/ ScanPort \/ FlushEvent \/ SendCommand \/ WaitCommand
          \/ SlotEnabled \/ DeviceAddressed \/ EndpointConfigured
          \/ PollEvent \/ ProcessEvent

-----------------------------------------------------------------------------
(* The controller and the devices.                                         *)

\* The event ring has room as far as the controller knows from ERDP.
Post(e) ==
  /\ Forward(enq) # erdp
  /\ ring' = [ring EXCEPT ![enq] = [cycle |-> pcs, event |-> e]]
  /\ enq' = Forward(enq)
  /\ pcs' = IF Forward(enq) = 0 THEN 1 - pcs ELSE pcs
  /\ posted' = Append(posted, e)

FreshEndpoint == [on |-> TRUE, deq |-> 0, cycle |-> 1, bell |-> FALSE, used |-> 0]

\* Commands are executed in the order of the ring, at any time.
Execute(code) ==
  /\ executed < Len(cmds)
  /\ LET c == cmds[executed + 1]
         enabling == c.op = "enable" /\ code = Success
         s == IF enabling THEN given + 1 ELSE c.slot
     IN /\ enabling => given < ports
        /\ Post(event("command", s, code, executed + 1))
        /\ given' = IF enabling THEN given + 1 ELSE given
        /\ ep' = IF c.op = "configure" /\ code = Success
                 THEN [ep EXCEPT ![s] = FreshEndpoint]
                 ELSE ep
  /\ executed' = executed + 1
  /\ UNCHANGED << ports, cmds, consumer, ep1ring, control, kbd, pc, locals, ev,
                  sent, changes, taken >>

\* The status stage of a control transfer asks for an event.
FinishControl(s, code) ==
  /\ s \in control
  /\ control' = control \ {s}
  /\ Post(event("transfer", s, code, 0))
  /\ UNCHANGED << commands, consumer, ep1ring, ep, kbd, pc, locals, ev,
                  env, taken >>

\* Where an endpoint at entry d with cycle c looks for its next transfer: it
\* follows a Link TRB it owns, which toggles the cycle.
Where(d, c) == IF d = Usable /\ ep1[d] = trb("link", c) THEN << 0, 1 - c >> ELSE
                                                                << d, c >>
HasTransfer(d, c) == ep1[Where(d, c)[1]] = trb("normal", Where(d, c)[2])

\* A device sends a report, announced by an event.
SendReport(s, code) ==
  /\ ep[s].on /\ ep[s].bell /\ HasTransfer(ep[s].deq, ep[s].cycle)
  /\ sent < MaxReports \div ports
  /\ sent' = sent + 1
  /\ LET at == Where(ep[s].deq, ep[s].cycle)
     IN ep' = [ep EXCEPT ![s] = [@ EXCEPT !.deq = at[1] + 1, !.cycle = at[2],
                                          !.used = ep[s].used + 1,
                                          !.bell = HasTransfer(at[1] + 1, at[2])]]
  /\ Post(event("transfer", s, code, sent + 1))
  /\ UNCHANGED << commands, consumer, ep1ring, control, kbd, pc, locals, ev,
                  given, changes, taken >>

PortChange ==
  /\ pc # "init" /\ changes < MaxChanges
  /\ changes' = changes + 1
  /\ Post(event("port", 0, Success, 0))
  /\ UNCHANGED << commands, consumer, ep1ring, ep, control, kbd, pc, locals,
                  ev, given, sent, taken >>

Controller ==
  \/ PortChange
  \/ \E code \in {Success, OtherCode} :
       \/ Execute(code)
       \/ \E s \in Slot : FinishControl(s, code) \/ SendReport(s, code)

Next == Driver \/ Controller

Spec == Init /\ [][Next]_vars /\ WF_vars(Driver)

-----------------------------------------------------------------------------
(* Properties.                                                             *)

TypeOK ==
  /\ ports \in 1 .. MaxPorts
  /\ executed \in 0 .. Len(cmds) /\ Len(cmds) < CmdSize
  /\ enq \in EventIndex /\ deq \in EventIndex /\ erdp \in EventIndex
  /\ pcs \in {0, 1} /\ ccs \in {0, 1} /\ ep1Cycle \in {0, 1}
  /\ ep1Enq \in 0 .. Usable - 1
  /\ kbdSlot \in 0 .. MaxPorts /\ slotId \in 0 .. MaxPorts /\ configured \in BOOLEAN
  /\ stage \in {"enable", "address", "configure"}
  /\ pc \in {"init", "scan", "flush", "send", "wait", "handle", "poll", "process"}
  /\ portNo \in 1 .. MaxPorts + 1
  /\ timeout \in 0 .. CmdTries /\ flush \in 0 .. FlushMax

\* The driver takes every event once and in the order of posting, through any
\* number of wraps: the entries from its dequeue pointer whose cycle bit it
\* accepts are exactly the events not yet taken, although the three places
\* that take events update ERDP at different moments.
EventsInOrder ==
  LET unread == Len(posted) - taken
      Entry(i) == ring[(deq + i) % EventSize]
      Owned(i) == Entry(i).cycle = (IF deq + i < EventSize THEN ccs ELSE 1 - ccs)
  IN /\ unread \in 0 .. EventSize - 1
     /\ \A i \in 0 .. unread - 1 : Owned(i) /\ Entry(i).event = posted[taken + i + 1]
     /\ ~Owned(unread)

\* The keyboard's endpoint finds exactly the transfers queued and not used,
\* whatever the lap of the ring: the Link TRB and the cycle bits never hide a
\* transfer, none is overwritten, and no old one is taken for a new one.
\* (One port: xhci_address_device clears the ring for every later device.)
TransfersVisible ==
  (ports = 1 /\ pc \in {"poll", "process"} /\ configured /\ ep[kbdSlot].on) =>
     LET e  == ep[kbdSlot]
         at == Where(e.deq, e.cycle)
         Seen(k) == /\ at[1] # Usable   \* not stopped before a Link TRB
                    /\ ep1[(at[1] + k) % Usable]
                         = trb("normal", IF at[1] + k < Usable THEN at[2] ELSE 1 - at[2])
     IN \A k \in 0 .. Usable - 1 : Seen(k) <=> k < queued - e.used

Unread == { i \in 1 .. Len(posted) : i > taken }

\* A configured keyboard can always send: a transfer is waiting for its next
\* report, or an event that makes usb_kbd_poll queue one is still to come.
\* (One port: enumerating a later one drops the keyboard's events.)
KeyboardArmed ==
  (ports = 1 /\ pc \in {"poll", "process"} /\ configured) =>
     \/ ep[kbdSlot].on /\ queued > ep[kbdSlot].used
     \/ pc = "process" /\ Requeues(ev)
     \/ \E i \in Unread : Requeues(posted[i])

\* Enumeration ends, even if the controller answers no command.
EnumerationEnds == pc = "init" ~> pc = "poll"

\* xhci_send_command "waits for the command to complete": the completion it
\* returns on is that of the command it sent.
CompletionForCommand == pc = "handle" => ev.about = Len(cmds)
=============================================================================
