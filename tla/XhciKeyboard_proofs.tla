------------------------- MODULE XhciKeyboard_proofs -------------------------
(***************************************************************************)
(* What is proved about XhciKeyboard: types, and that the driver takes     *)
(* every event once and in order, for every size of the rings, every       *)
(* number of ports, retries and reports, and whatever the controller does; *)
(* and, for a controller with one port, that the keyboard's transfers stay *)
(* visible and one is always waiting or about to be queued.                *)
(***************************************************************************)
EXTENDS XhciKeyboard, SequenceTheorems, FiniteSetTheorems, TLAPS

-----------------------------------------------------------------------------
(* Indices of the event ring.                                              *)

\* Remainders of the numbers that indices are computed from.
LEMMA Remainder ==
  ASSUME NEW a \in (-EventSize) .. 2 * EventSize - 1
  PROVE  a % EventSize = IF a < 0 THEN a + EventSize
                         ELSE IF a < EventSize THEN a ELSE a - EventSize
<1>1. EventSize \in Nat \ {0, 1}
  BY XhciAssumption
<1>2. CASE a < 0
  BY <1>1, <1>2
<1>3. CASE 0 <= a /\ a < EventSize
  BY <1>1, <1>3
<1>4. CASE EventSize <= a
  BY <1>1, <1>4
<1> QED
  BY <1>1, <1>2, <1>3, <1>4

\* The entry i places beyond entry d.
Spot(d, i) == (d + i) % EventSize

LEMMA SpotIs ==
  ASSUME NEW d \in EventIndex, NEW i \in 0 .. EventSize
  PROVE  /\ Spot(d, i) \in EventIndex
         /\ Spot(d, i) = IF d + i < EventSize THEN d + i ELSE d + i - EventSize
<1>1. EventSize \in Nat \ {0, 1}
  BY XhciAssumption
<1>2. d + i \in (-EventSize) .. 2 * EventSize - 1
  BY <1>1 DEF EventIndex
<1> QED
  BY <1>1, <1>2, Remainder DEF Spot, EventIndex

LEMMA ForwardIs ==
  ASSUME NEW i \in EventIndex
  PROVE  /\ Forward(i) \in EventIndex
         /\ Forward(i) = IF i = EventSize - 1 THEN 0 ELSE i + 1
<1>1. EventSize \in Nat \ {0, 1}
  BY XhciAssumption
<1>2. i + 1 \in (-EventSize) .. 2 * EventSize - 1
  BY <1>1 DEF EventIndex
<1> QED
  BY <1>1, <1>2, Remainder DEF Forward, EventIndex

\* How many entries lie from entry b up to entry a.
Gap(a, b) == IF a < b THEN a - b + EventSize ELSE a - b

LEMMA GapIs ==
  ASSUME NEW a \in EventIndex, NEW b \in EventIndex
  PROVE  Gap(a, b) \in 0 .. EventSize - 1
BY XhciAssumption DEF Gap, EventIndex

-----------------------------------------------------------------------------
(* Types.                                                                  *)

Stages == {"enable", "address", "configure"}

Event == [type : {"none", "command", "transfer", "port"}, slot : 0 .. MaxPorts,
          code : {0, Success, OtherCode}, about : Nat]

Command == [op : Stages, slot : 0 .. MaxPorts]

RingTypes ==
  /\ enq \in EventIndex /\ deq \in EventIndex /\ erdp \in EventIndex
  /\ pcs \in {0, 1} /\ ccs \in {0, 1}
  /\ ring \in [EventIndex -> [cycle : {0, 1}, event : Event]]
  /\ posted \in Seq(Event) /\ taken \in Nat

CommandTypes ==
  /\ ports \in 1 .. MaxPorts
  /\ cmds \in Seq(Command) /\ Len(cmds) < CmdSize
  /\ executed \in 0 .. Len(cmds)
  /\ given \in 0 .. MaxPorts /\ sent \in Nat

TransferTypes ==
  /\ ep1Cycle \in {0, 1} /\ ep1Enq \in 0 .. Usable - 1
  /\ kbdSlot \in 0 .. MaxPorts /\ configured \in BOOLEAN

DriverTypes ==
  /\ slotId \in 0 .. MaxPorts /\ stage \in Stages
  /\ pc \in {"init", "scan", "flush", "send", "wait", "handle", "poll", "process"}
  /\ portNo \in 1 .. MaxPorts + 1
  /\ pc \in {"flush", "send", "wait", "handle"} => portNo <= ports
  /\ timeout \in 0 .. CmdTries /\ flush \in 0 .. FlushMax
  /\ ev \in Event

Types == RingTypes /\ CommandTypes /\ TransferTypes /\ DriverTypes

\* The entries that the controller may still write, and those the driver has
\* yet to take, told apart by the cycle bits.
RingOrder ==
  /\ Len(posted) - taken = Gap(enq, deq)
  /\ Gap(deq, erdp) + Gap(enq, deq) < EventSize
  /\ \A j \in EventIndex : ring[j].cycle = IF j < enq THEN pcs ELSE 1 - pcs
  /\ ccs = IF deq <= enq THEN pcs ELSE 1 - pcs
  /\ \A k \in 0 .. Gap(enq, deq) - 1 :
       ring[Spot(deq, k)].event = posted[taken + k + 1]

Inv == Types /\ RingOrder

LEMMA InvInit == Init => Inv
<1> SUFFICES ASSUME Init PROVE Inv
  OBVIOUS
<1>1. /\ MaxPorts \in Nat \ {0} /\ CmdSize \in Nat \ {0} /\ EventSize \in Nat \ {0, 1}
      /\ EpSize \in Nat /\ EpSize > 2 * MaxPorts /\ FlushMax \in Nat /\ CmdTries \in Nat
  BY XhciAssumption
<1>2. NoEvent \in Event
  BY <1>1 DEF NoEvent, event, Event
<1>3. 0 \in EventIndex
  BY <1>1 DEF EventIndex
<1>4. <<>> \in Seq(Event) /\ <<>> \in Seq(Command) /\ Len(<<>>) = 0
  OBVIOUS
<1>5. RingTypes
  BY <1>2, <1>3, <1>4 DEF Init, RingTypes
<1>6. CommandTypes
  BY <1>1, <1>4 DEF Init, CommandTypes
<1>7. TransferTypes
  <2>1. ep1Cycle \in {0, 1} /\ ep1Enq \in 0 .. Usable - 1 /\ kbdSlot \in 0 .. MaxPorts
    BY <1>1 DEF Init, Usable
  <2>2. configured \in BOOLEAN
    BY DEF Init
  <2> QED
    BY <2>1, <2>2 DEF TransferTypes
<1>8. DriverTypes
  BY <1>1, <1>2 DEF Init, DriverTypes, Stages
<1>9. RingOrder
  <2>1. Gap(0, 0) = 0
    BY DEF Gap
  <2>2. \A j \in EventIndex : ring[j].cycle = 0 /\ ~(j < 0)
    BY <1>1 DEF Init, EventIndex
  <2> QED
    BY <1>1, <1>4, <2>1, <2>2 DEF Init, RingOrder
<1> QED
  BY <1>5, <1>6, <1>7, <1>8, <1>9 DEF Inv, Types

-----------------------------------------------------------------------------
(* The controller posts an event; the driver takes one.                    *)

LEMMA PostKeepsRing ==
  ASSUME RingTypes, RingOrder, NEW e \in Event, Post(e), UNCHANGED << consumer, taken >>
  PROVE  RingTypes' /\ RingOrder'
<1>1. EventSize \in Nat \ {0, 1}
  BY XhciAssumption
<1>2. enq' = Forward(enq) /\ Forward(enq) \in EventIndex
  BY ForwardIs DEF Post, RingTypes
<1>3. ring' = [ring EXCEPT ![enq] = [cycle |-> pcs, event |-> e]]
  BY DEF Post
<1>4. UNCHANGED << deq, ccs, erdp, taken >>
  BY DEF consumer
<1>5. pcs' = IF Forward(enq) = 0 THEN 1 - pcs ELSE pcs
  BY DEF Post
<1>6. posted' = Append(posted, e) /\ Len(posted) \in Nat /\ Len(posted') = Len(posted) + 1
      /\ posted' \in Seq(Event)
  BY AppendProperties, LenProperties DEF Post, RingTypes
<1>7. Forward(enq) = IF enq = EventSize - 1 THEN 0 ELSE enq + 1
  BY ForwardIs DEF RingTypes
<1>8. RingTypes'
  BY <1>2, <1>3, <1>4, <1>5, <1>6 DEF RingTypes
<1>9. Gap(enq, deq) + 1 < EventSize - Gap(deq, erdp) /\ Gap(deq, erdp) \in Nat
  BY <1>1, <1>7, GapIs DEF Post, RingTypes, RingOrder, Gap, EventIndex
<1>10. Gap(enq', deq) = Gap(enq, deq) + 1
  BY <1>1, <1>2, <1>7, <1>9 DEF RingTypes, Gap, EventIndex
<1>11. Len(posted') - taken' = Gap(enq', deq')
  BY <1>4, <1>6, <1>10, GapIs DEF RingTypes, RingOrder
<1>12. Gap(deq', erdp') + Gap(enq', deq') < EventSize
  BY <1>1, <1>4, <1>9, <1>10, GapIs DEF RingTypes
<1>13. \A j \in EventIndex : ring'[j].cycle = IF j < enq' THEN pcs' ELSE 1 - pcs'
  <2> SUFFICES ASSUME NEW j \in EventIndex
               PROVE  ring'[j].cycle = IF j < enq' THEN pcs' ELSE 1 - pcs'
    OBVIOUS
  <2>1. ring'[j].cycle = IF j = enq THEN pcs ELSE ring[j].cycle
    BY <1>3 DEF RingTypes
  <2>2. ring[j].cycle = IF j < enq THEN pcs ELSE 1 - pcs
    BY DEF RingOrder
  <2> QED
    BY <1>1, <1>2, <1>5, <1>7, <2>1, <2>2 DEF RingTypes, EventIndex
<1>14. ccs' = IF deq' <= enq' THEN pcs' ELSE 1 - pcs'
  BY <1>1, <1>2, <1>4, <1>5, <1>7, <1>9 DEF RingTypes, RingOrder, Gap, EventIndex
<1>15. \A k \in 0 .. Gap(enq', deq') - 1 :
         ring'[Spot(deq', k)].event = posted'[taken' + k + 1]
  <2> SUFFICES ASSUME NEW k \in 0 .. Gap(enq', deq') - 1
               PROVE  ring'[Spot(deq, k)].event = posted'[taken + k + 1]
    BY <1>4
  <2>1. k \in 0 .. EventSize /\ k \in 0 .. Gap(enq, deq) /\ Gap(enq, deq) \in Nat
    BY <1>1, <1>4, <1>9, <1>10, GapIs DEF RingTypes
  <2>2. /\ Spot(deq, k) \in EventIndex
        /\ Spot(deq, k) = IF deq + k < EventSize THEN deq + k ELSE deq + k - EventSize
    BY <2>1, SpotIs DEF RingTypes
  <2>3. CASE k = Gap(enq, deq)
    <3>1. Spot(deq, k) = enq
      BY <1>1, <2>2, <2>3 DEF RingTypes, Gap, EventIndex
    <3>2. taken + k + 1 = Len(posted) + 1
      BY <1>6, <2>1, <2>3 DEF RingTypes, RingOrder
    <3>3. ring'[enq].event = e
      BY <1>3 DEF RingTypes
    <3>4. posted'[Len(posted) + 1] = e
      BY <1>6, AppendProperties DEF RingTypes
    <3> QED
      BY <3>1, <3>2, <3>3, <3>4
  <2>4. CASE k # Gap(enq, deq)
    <3>1. k \in 0 .. Gap(enq, deq) - 1
      BY <2>1, <2>4
    <3>2. Spot(deq, k) # enq
      BY <1>1, <2>1, <2>2, <2>4 DEF RingTypes, Gap, EventIndex
    <3>3. ring'[Spot(deq, k)].event = ring[Spot(deq, k)].event
      BY <1>3, <2>2, <3>2 DEF RingTypes
    <3>4. ring[Spot(deq, k)].event = posted[taken + k + 1]
      BY <3>1 DEF RingOrder
    <3>5. taken + k + 1 \in 1 .. Len(posted)
      BY <1>6, <3>1, <2>1 DEF RingTypes, RingOrder
    <3>6. posted'[taken + k + 1] = posted[taken + k + 1]
      BY <1>6, <3>5, AppendProperties DEF RingTypes
    <3> QED
      BY <3>3, <3>4, <3>6
  <2> QED
    BY <2>3, <2>4
<1> QED
  BY <1>8, <1>11, <1>12, <1>13, <1>14, <1>15 DEF RingOrder

LEMMA AdvanceKeepsRing ==
  ASSUME RingTypes, RingOrder, Pending, Advance, UNCHANGED << producer, posted >>,
         erdp' = erdp \/ erdp' = deq'
  PROVE  RingTypes' /\ RingOrder' /\ ev' \in Event /\ ev' = ring[deq].event
<1>1. EventSize \in Nat \ {0, 1}
  BY XhciAssumption
<1>2. deq' = Forward(deq) /\ Forward(deq) \in EventIndex
  BY ForwardIs DEF Advance, RingTypes
<1>3. UNCHANGED << ring, enq, pcs, posted >>
  BY DEF producer
<1>4. ccs' = IF Forward(deq) = 0 THEN 1 - ccs ELSE ccs
  BY DEF Advance
<1>5. taken' = taken + 1 /\ ev' = ring[deq].event
  BY DEF Advance
<1>6. Forward(deq) = IF deq = EventSize - 1 THEN 0 ELSE deq + 1
  BY ForwardIs DEF RingTypes
<1>7. RingTypes' /\ ev' \in Event
  BY <1>2, <1>3, <1>4, <1>5 DEF RingTypes
<1>8. deq # enq
  <2>1. ring[deq].cycle = IF deq < enq THEN pcs ELSE 1 - pcs
    BY DEF RingOrder, RingTypes
  <2>2. ring[deq].cycle = ccs
    BY DEF Pending
  <2> QED
    BY <2>1, <2>2, <1>1 DEF RingOrder, RingTypes, EventIndex
<1>9. Gap(enq, deq) = Gap(enq, deq') + 1 /\ Gap(enq, deq') \in Nat
  BY <1>1, <1>2, <1>6, <1>8 DEF RingTypes, Gap, EventIndex
<1>10. Len(posted') - taken' = Gap(enq', deq')
  BY <1>3, <1>5, <1>9, LenProperties DEF RingTypes, RingOrder
<1>11. Gap(deq', erdp') + Gap(enq', deq') < EventSize
  <2>1. CASE erdp' = deq'
    BY <1>1, <1>2, <1>3, <2>1, GapIs DEF RingTypes, Gap, EventIndex
  <2>2. CASE erdp' = erdp
    <3>1. Gap(deq, erdp) + Gap(enq, deq) < EventSize
      BY DEF RingOrder
    <3>2. Gap(deq', erdp) = Gap(deq, erdp) + 1
      BY <1>1, <1>2, <1>6, <1>9, <3>1 DEF RingTypes, Gap, EventIndex
    <3> QED
      BY <1>1, <1>3, <1>9, <2>2, <3>1, <3>2, GapIs DEF RingTypes
  <2> QED
    BY <2>1, <2>2
<1>12. ccs' = IF deq' <= enq' THEN pcs' ELSE 1 - pcs'
  BY <1>1, <1>2, <1>3, <1>4, <1>6, <1>8 DEF RingTypes, RingOrder, EventIndex
<1>13. \A k \in 0 .. Gap(enq', deq') - 1 :
         ring'[Spot(deq', k)].event = posted'[taken' + k + 1]
  <2> SUFFICES ASSUME NEW k \in 0 .. Gap(enq, deq') - 1
               PROVE  ring[Spot(deq', k)].event = posted[taken + 1 + k + 1]
    BY <1>3, <1>5
  <2>1. k \in Nat /\ k + 1 \in 0 .. Gap(enq, deq) - 1 /\ k \in 0 .. EventSize
        /\ k + 1 \in 0 .. EventSize
    BY <1>1, <1>9, GapIs DEF RingTypes
  <2>2. Spot(deq', k) = IF deq' + k < EventSize THEN deq' + k ELSE deq' + k - EventSize
    BY <1>2, <2>1, SpotIs
  <2>3. Spot(deq, k + 1) = IF deq + (k + 1) < EventSize THEN deq + (k + 1)
                           ELSE deq + (k + 1) - EventSize
    BY <2>1, SpotIs DEF RingTypes
  <2>4. Spot(deq', k) = Spot(deq, k + 1)
    BY <1>1, <1>2, <1>6, <2>1, <2>2, <2>3 DEF RingTypes, EventIndex
  <2>5. ring[Spot(deq, k + 1)].event = posted[taken + (k + 1) + 1]
    BY <2>1 DEF RingOrder
  <2>6. taken + (k + 1) + 1 = taken + 1 + k + 1
    BY <2>1 DEF RingTypes
  <2> QED
    BY <2>4, <2>5, <2>6
<1>14. \A j \in EventIndex : ring'[j].cycle = IF j < enq' THEN pcs' ELSE 1 - pcs'
  BY <1>3 DEF RingOrder
<1> QED
  BY <1>5, <1>7, <1>10, <1>11, <1>12, <1>13, <1>14 DEF RingOrder
-----------------------------------------------------------------------------
(* Every step keeps the invariant.                                         *)

LEMMA RingElsewhere ==
  ASSUME RingTypes, RingOrder, UNCHANGED << ring, enq, pcs, posted, deq, ccs, taken >>,
         erdp' = erdp \/ erdp' = deq
  PROVE  RingTypes' /\ RingOrder'
<1>1. RingTypes'
  BY DEF RingTypes
<1>2. Gap(deq', erdp') + Gap(enq', deq') < EventSize
  <2>1. CASE erdp' = erdp
    BY <2>1 DEF RingOrder
  <2>2. CASE erdp' = deq
    BY <2>2, XhciAssumption DEF RingTypes, Gap, EventIndex
  <2> QED
    BY <2>1, <2>2
<1> QED
  BY <1>1, <1>2 DEF RingOrder

\* The steps of the driver that take an event.
LEMMA TakingStep ==
  ASSUME Inv, FlushEvent \/ WaitCommand \/ PollEvent
  PROVE  Inv'
<1> USE DEF Inv, Types
<1>1. CASE FlushEvent
  <2>1. CommandTypes' /\ TransferTypes'
    BY <1>1 DEF FlushEvent, commands, ep1ring, kbd, env, CommandTypes, TransferTypes
  <2>2. CASE flush > 0 /\ Pending
    <3>1. RingTypes' /\ RingOrder' /\ ev' \in Event
      BY <1>1, <2>2, AdvanceKeepsRing DEF FlushEvent
    <3>2. DriverTypes'
      BY <1>1, <2>2, <3>1, XhciAssumption DEF FlushEvent, DriverTypes, commands
    <3> QED
      BY <2>1, <3>1, <3>2
  <2>3. CASE ~(flush > 0 /\ Pending)
    <3>1. RingTypes' /\ RingOrder'
      BY <1>1, <2>3, RingElsewhere DEF FlushEvent, producer
    <3>2. DriverTypes'
      BY <1>1, <2>3 DEF FlushEvent, DriverTypes, Stages, commands
    <3> QED
      BY <2>1, <3>1, <3>2
  <2> QED
    BY <2>2, <2>3
<1>2. CASE WaitCommand
  <2>1. CommandTypes' /\ TransferTypes'
    BY <1>2 DEF WaitCommand, commands, ep1ring, kbd, env, CommandTypes, TransferTypes
  <2>2. portNo \in 1 .. MaxPorts /\ portNo + 1 \in 1 .. MaxPorts + 1
    BY <1>2, XhciAssumption DEF WaitCommand, DriverTypes, CommandTypes
  <2>3. timeout # 0 => timeout - 1 \in 0 .. CmdTries
    BY XhciAssumption DEF DriverTypes
  <2>4. CASE timeout = 0 \/ ~Pending
    <3>1. RingTypes' /\ RingOrder'
      BY <1>2, <2>4, RingElsewhere DEF WaitCommand, producer, consumer
    <3>2. DriverTypes'
      BY <1>2, <2>2, <2>3, <2>4 DEF WaitCommand, DriverTypes, NextPort, CountDown, commands
    <3> QED
      BY <2>1, <3>1, <3>2
  <2>5. CASE timeout # 0 /\ Pending
    <3>1. RingTypes' /\ RingOrder' /\ ev' \in Event
      BY <1>2, <2>5, AdvanceKeepsRing DEF WaitCommand, Take, Advance
    <3>2. DriverTypes'
      BY <1>2, <2>2, <2>3, <2>5, <3>1
      DEF WaitCommand, DriverTypes, NextPort, CountDown, commands
    <3> QED
      BY <2>1, <3>1, <3>2
  <2> QED
    BY <2>4, <2>5
<1>3. CASE PollEvent
  <2>1. CommandTypes' /\ TransferTypes'
    BY <1>3 DEF PollEvent, commands, ep1ring, kbd, env, CommandTypes, TransferTypes
  <2>2. RingTypes' /\ RingOrder' /\ ev' \in Event
    BY <1>3, AdvanceKeepsRing DEF PollEvent, Take, Advance
  <2>3. DriverTypes'
    BY <1>3, <2>2 DEF PollEvent, DriverTypes, locals, commands
  <2> QED
    BY <2>1, <2>2, <2>3
<1> QED
  BY <1>1, <1>2, <1>3

LEMMA QueueTransferTypes ==
  ASSUME TransferTypes, QueueTransfer, UNCHANGED kbdSlot, configured' \in BOOLEAN
  PROVE  TransferTypes'
<1>1. /\ EpSize \in Nat /\ EpSize > 2 * MaxPorts /\ MaxPorts \in Nat \ {0}
  BY XhciAssumption
<1>2. CASE ep1Enq + 1 >= Usable
  <2>1. ep1Enq' = 0 /\ ep1Cycle' = 1 - ep1Cycle
    BY <1>2 DEF QueueTransfer, Queued
  <2> QED
    BY <1>1, <2>1 DEF TransferTypes, Usable
<1>3. CASE ~(ep1Enq + 1 >= Usable)
  <2>1. ep1Enq' = ep1Enq + 1 /\ ep1Cycle' = ep1Cycle
    BY <1>3 DEF QueueTransfer, Queued
  <2> QED
    BY <1>1, <1>3, <2>1 DEF TransferTypes, Usable
<1> QED
  BY <1>2, <1>3

\* The other steps of the driver.
LEMMA DriverStep ==
  ASSUME Inv,
         \/ StartController \/ ScanPort \/ SendCommand \/ SlotEnabled
         \/ DeviceAddressed \/ EndpointConfigured \/ ProcessEvent
  PROVE  Inv'
<1> USE DEF Inv, Types
<1>1. RingTypes' /\ RingOrder'
  BY RingElsewhere
  DEF StartController, ScanPort, SendCommand, SlotEnabled, DeviceAddressed,
      EndpointConfigured, ProcessEvent, producer, consumer
<1>2. CASE StartController
  BY <1>1, <1>2 DEF StartController, commands, ep1ring, kbd, env, locals,
     CommandTypes, TransferTypes, DriverTypes
<1>3. CASE ScanPort
  <2>1. CommandTypes' /\ TransferTypes'
    BY <1>3 DEF ScanPort, commands, ep1ring, kbd, env, CommandTypes, TransferTypes
  <2>2. CASE portNo > ports
    BY <1>1, <1>3, <2>1, <2>2 DEF ScanPort, commands, DriverTypes
  <2>3. CASE ~(portNo > ports)
    BY <1>1, <1>3, <2>1, <2>3, XhciAssumption DEF ScanPort, commands, DriverTypes, CommandTypes
  <2> QED
    BY <2>2, <2>3
<1>4. CASE SendCommand
  <2>1. TransferTypes'
    BY <1>4 DEF SendCommand, ep1ring, kbd, TransferTypes
  <2>2. portNo \in 1 .. MaxPorts /\ portNo <= ports /\ portNo + 1 \in 1 .. MaxPorts + 1
    BY <1>4, XhciAssumption DEF SendCommand, DriverTypes, CommandTypes
  <2>3. CASE RingFull
    <3>1. CommandTypes'
      BY <1>4, <2>3 DEF SendCommand, env, CommandTypes
    <3>2. DriverTypes'
      BY <1>4, <2>2, <2>3 DEF SendCommand, NextPort, DriverTypes
    <3> QED
      BY <1>1, <2>1, <3>1, <3>2
  <2>4. CASE ~RingFull
    <3>1. [op |-> stage, slot |-> slotId] \in Command
      BY DEF Command, DriverTypes
    <3>2. cmds' \in Seq(Command) /\ Len(cmds') = Len(cmds) + 1
      BY <1>4, <2>4, <3>1, AppendProperties DEF SendCommand, CommandTypes
    <3>3. Len(cmds) \in Nat /\ Len(cmds) + 1 # CmdSize
      <4>1. CmdSize % CmdSize = 0
        BY XhciAssumption
      <4> QED
        BY <2>4, <4>1, LenProperties DEF RingFull, CommandTypes
    <3>4. CommandTypes'
      BY <1>4, <3>2, <3>3, XhciAssumption DEF SendCommand, env, CommandTypes
    <3>5. DriverTypes'
      BY <1>4, <2>2, <2>4, XhciAssumption DEF SendCommand, DriverTypes
    <3> QED
      BY <1>1, <2>1, <3>4, <3>5
  <2> QED
    BY <2>3, <2>4
<1>5. CASE SlotEnabled
  <2>1. ev.slot \in 0 .. MaxPorts
    BY DEF DriverTypes, Event
  <2> QED
    BY <1>1, <1>5, <2>1 DEF SlotEnabled, commands, ep1ring, kbd, env,
       CommandTypes, TransferTypes, DriverTypes, Stages
<1>6. CASE DeviceAddressed
  <2>1. 0 \in 0 .. Usable - 1
    BY XhciAssumption DEF Usable
  <2>2. TransferTypes'
    BY <1>6, <2>1 DEF DeviceAddressed, TransferTypes, DriverTypes
  <2>3. CommandTypes' /\ DriverTypes'
    BY <1>6 DEF DeviceAddressed, commands, env, CommandTypes, DriverTypes, Stages
  <2> QED
    BY <1>1, <2>2, <2>3
<1>7. CASE EndpointConfigured
  <2>1. TransferTypes'
    BY <1>7, QueueTransferTypes DEF EndpointConfigured
  <2>2. CommandTypes'
    BY <1>7 DEF EndpointConfigured, commands, env, CommandTypes
  <2>3. portNo + 1 \in 1 .. MaxPorts + 1
    BY <1>7, XhciAssumption DEF EndpointConfigured, DriverTypes, CommandTypes
  <2>4. DriverTypes'
    BY <1>7, <2>3 DEF EndpointConfigured, NextPort, commands, DriverTypes
  <2> QED
    BY <1>1, <2>1, <2>2, <2>4
<1>8. CASE ProcessEvent
  <2>1. TransferTypes'
    <3>1. CASE Requeues(ev)
      BY <1>8, <3>1, QueueTransferTypes DEF ProcessEvent, kbd, TransferTypes
    <3>2. CASE ~Requeues(ev)
      BY <1>8, <3>2 DEF ProcessEvent, kbd, ep1ring, TransferTypes
    <3> QED
      BY <3>1, <3>2
  <2> QED
    BY <1>1, <1>8, <2>1 DEF ProcessEvent, commands, locals, env, CommandTypes, DriverTypes
<1> QED
  BY <1>2, <1>3, <1>4, <1>5, <1>6, <1>7, <1>8

\* The controller and the devices.
LEMMA ControllerStep ==
  ASSUME Inv, Controller
  PROVE  Inv'
<1> USE DEF Inv, Types
<1>1. MaxPorts \in Nat /\ Success = 1 /\ OtherCode = 4
  BY XhciAssumption DEF Success, OtherCode
<1>2. CASE PortChange
  <2>1. event("port", 0, Success, 0) \in Event
    BY <1>1 DEF event, Event
  <2>2. RingTypes' /\ RingOrder'
    BY <1>2, <2>1, PostKeepsRing DEF PortChange
  <2> QED
    BY <1>2, <2>2 DEF PortChange, commands, ep1ring, kbd, locals,
       CommandTypes, TransferTypes, DriverTypes
<1>3. ASSUME NEW code \in {Success, OtherCode}, Execute(code) PROVE Inv'
  <2> DEFINE c == cmds[executed + 1]
             enabling == c.op = "enable" /\ code = Success
             s == IF enabling THEN given + 1 ELSE c.slot
  <2>1. executed + 1 \in 1 .. Len(cmds) /\ executed + 1 \in Nat
    BY <1>3, LenProperties DEF Execute, CommandTypes
  <2>2. c \in Command
    BY <2>1, ElementOfSeq DEF CommandTypes
  <2>3. enabling => given + 1 \in 0 .. MaxPorts
    BY <1>1, <1>3 DEF Execute, CommandTypes
  <2>4. s \in 0 .. MaxPorts
    BY <2>2, <2>3 DEF Command
  <2>5. /\ Post(event("command", s, code, executed + 1))
        /\ given' = IF enabling THEN given + 1 ELSE given
    BY <1>3 DEF Execute
  <2> HIDE DEF s, enabling, c
  <2>6. event("command", s, code, executed + 1) \in Event
    BY <2>1, <2>4 DEF event, Event
  <2>7. RingTypes' /\ RingOrder'
    BY <1>3, <2>5, <2>6, PostKeepsRing DEF Execute
  <2>8. CommandTypes'
    BY <1>3, <2>1, <2>3, <2>5 DEF Execute, CommandTypes
  <2> QED
    BY <1>3, <2>7, <2>8 DEF Execute, ep1ring, kbd, locals, commands, TransferTypes, DriverTypes
<1>4. ASSUME NEW code \in {Success, OtherCode}, NEW s \in Slot, FinishControl(s, code)
      PROVE  Inv'
  <2>1. event("transfer", s, code, 0) \in Event
    BY <1>1 DEF event, Event, Slot
  <2>2. RingTypes' /\ RingOrder'
    BY <1>4, <2>1, PostKeepsRing DEF FinishControl
  <2> QED
    BY <1>4, <2>2 DEF FinishControl, commands, ep1ring, kbd, locals, env,
       CommandTypes, TransferTypes, DriverTypes
<1>5. ASSUME NEW code \in {Success, OtherCode}, NEW s \in Slot, SendReport(s, code)
      PROVE  Inv'
  <2>1. event("transfer", s, code, sent + 1) \in Event
    BY <1>1 DEF event, Event, Slot, CommandTypes
  <2>2. RingTypes' /\ RingOrder'
    BY <1>5, <2>1, PostKeepsRing DEF SendReport
  <2> QED
    BY <1>5, <2>2 DEF SendReport, commands, ep1ring, kbd, locals,
       CommandTypes, TransferTypes, DriverTypes
<1> QED
  BY <1>2, <1>3, <1>4, <1>5 DEF Controller

LEMMA InvStep ==
  ASSUME Inv, [Next]_vars
  PROVE  Inv'
<1>1. CASE UNCHANGED vars
  BY <1>1, RingElsewhere DEF vars, commands, producer, consumer, ep1ring, kbd, locals, env,
     Inv, Types, CommandTypes, TransferTypes, DriverTypes
<1> QED
  BY <1>1, TakingStep, DriverStep, ControllerStep DEF Next, Driver

LEMMA InvHolds == Spec => []Inv
<1>1. Inv /\ [Next]_vars => Inv'
  BY InvStep
<1> QED
  BY <1>1, InvInit, PTL DEF Spec

\* The driver's indices, cycle states and counters keep their types, whatever
\* the controller posts: the command ring never overflows, no index leaves its
\* ring.
THEOREM XhciTypeCorrect == Spec => []TypeOK
<1>1. Inv => TypeOK
  BY DEF Inv, Types, RingTypes, CommandTypes, TransferTypes, DriverTypes, Stages, TypeOK
<1> QED
  BY <1>1, InvHolds, PTL

\* The three places of xhci.c that take events (the flush before Enable Slot,
\* the wait for a command, usb_kbd_poll) together take each event once and in
\* the order of posting.
THEOREM EventsTakenInOrder == Spec => []EventsInOrder
<1>1. Inv => EventsInOrder
  <2> SUFFICES ASSUME Inv PROVE EventsInOrder
    OBVIOUS
  <2>1. RingTypes /\ RingOrder /\ EventSize \in Nat \ {0, 1}
    BY XhciAssumption DEF Inv, Types
  <2> DEFINE unread == Gap(enq, deq)
             Owned(i) == ring[Spot(deq, i)].cycle
                           = (IF deq + i < EventSize THEN ccs ELSE 1 - ccs)
  <2>2. unread \in 0 .. EventSize - 1
    BY <2>1, GapIs DEF RingTypes
  <2>3. ASSUME NEW i \in 0 .. unread
        PROVE  /\ Spot(deq, i) \in EventIndex
               /\ Spot(deq, i) = IF deq + i < EventSize THEN deq + i ELSE deq + i - EventSize
               /\ ring[Spot(deq, i)].cycle = IF Spot(deq, i) < enq THEN pcs ELSE 1 - pcs
    <3>1. i \in 0 .. EventSize
      BY <2>1, <2>2
    <3>2. /\ Spot(deq, i) \in EventIndex
          /\ Spot(deq, i) = IF deq + i < EventSize THEN deq + i ELSE deq + i - EventSize
      BY <2>1, <3>1, SpotIs DEF RingTypes
    <3> QED
      BY <2>1, <3>2 DEF RingOrder
  <2>4. ASSUME NEW i \in 0 .. unread - 1 PROVE Owned(i)
    BY <2>1, <2>2, <2>3 DEF RingTypes, RingOrder, Gap, EventIndex
  <2>5. ~Owned(unread)
    BY <2>1, <2>2, <2>3 DEF RingTypes, RingOrder, Gap, EventIndex
  <2>6. \A i \in 0 .. unread - 1 : ring[Spot(deq, i)].event = posted[taken + i + 1]
    BY <2>1 DEF RingOrder
  <2>7. Len(posted) - taken = unread
    BY <2>1 DEF RingOrder
  <2> HIDE DEF unread
  <2> QED
    BY <2>2, <2>4, <2>5, <2>6, <2>7 DEF EventsInOrder, Spot
<1> QED
  BY <1>1, InvHolds, PTL

-----------------------------------------------------------------------------
(* The keyboard of a controller with one port: what was posted, what the   *)
(* driver knows while it enumerates, and, once the keyboard is configured, *)
(* that two things are always under way: transfers not used yet, the       *)
(* control transfer, events to come that queue a transfer.                 *)

Posted == 1 .. Len(posted)
IsCommand(i)  == posted[i].type = "command"
IsTransfer(i) == posted[i].type = "transfer"
Owed == { i \in Unread : IsTransfer(i) }
NoneUnread == \A i \in Unread : ~IsCommand(i)
One(b) == IF b THEN 1 ELSE 0
Outstanding == queued - ep[1].used

Endpoint == [on : BOOLEAN, deq : Int, cycle : Int, bell : BOOLEAN, used : Int]
Trb == [type : {"empty", "normal", "link"}, cycle : {0, 1}]

MoreTypes ==
  /\ ep \in [Slot -> Endpoint]
  /\ ep1 \in [EpIndex -> Trb]
  /\ queued \in Nat

Completions ==
  /\ \A i \in Posted : IsCommand(i) => posted[i].about \in 1 .. executed
  /\ \A i, j \in Posted : i < j /\ IsCommand(i) /\ IsCommand(j)
                            => posted[i].about < posted[j].about

OneSlot ==
  /\ \A i \in Posted : IsCommand(i) /\ posted[i].code = Success => posted[i].slot = 1
  /\ \A i \in Posted : IsTransfer(i) => posted[i].slot = 1
  /\ \A k \in 1 .. Len(cmds) : cmds[k].op # "enable" => cmds[k].slot = 1
  /\ pc \in {"send", "wait", "handle"} /\ stage # "enable" => slotId = 1
  /\ pc \in {"send", "wait", "handle"} /\ stage = "configure" => kbdSlot = 1
  /\ pc = "handle" => ev.slot = 1
  /\ pc = "process" => ev.type = "transfer" /\ ev.slot = 1
  /\ control \subseteq {1}
  /\ \A s \in Slot : ep[s].on => s = 1

\* One command at a time: its completion is the only one not taken.
InTurn ==
  /\ pc \in {"init", "scan", "flush"} /\ portNo = 1 => cmds = <<>>
  /\ pc = "send" => executed = Len(cmds) /\ NoneUnread
  /\ pc = "wait" =>
       /\ Len(cmds) \in {executed, executed + 1}
       /\ Len(cmds) > 0 /\ cmds[Len(cmds)].op = stage
       /\ \A i \in Unread : IsCommand(i) => posted[i].about = Len(cmds)
       /\ stage = "configure" =>
            \A i \in Unread : IsCommand(i) /\ posted[i].code = Success => ep[1].on
  /\ pc = "handle" => /\ executed = Len(cmds) /\ NoneUnread
                      /\ stage = "configure" => ep[1].on

Before ==
  /\ control = {} /\ queued = 0
  /\ ep1 = ClearRing /\ ep1Enq = 0 /\ ep1Cycle = 1
  /\ \A s \in Slot : ~ep[s].bell /\ ep[s].deq = 0 /\ ep[s].cycle = 1 /\ ep[s].used = 0
  /\ \A i \in Posted : ~IsTransfer(i)
  /\ pc # "process"

After ==
  /\ executed = Len(cmds) /\ portNo = 2 /\ pc \in {"scan", "poll", "process"}
  /\ kbdSlot = 1 /\ ep[1].on

Conserved ==
  Outstanding + One(1 \in control) + One(pc = "process") + Cardinality(Owed) = 2

\* Where the endpoint goes on, past the Link TRB.
At  == IF ep[1].deq = Usable THEN 0 ELSE ep[1].deq
Lap == IF ep[1].deq = Usable THEN 1 - ep[1].cycle ELSE ep[1].cycle

\* The ring holds the transfers of this lap, then those of the lap before.
Contents ==
  /\ ep[1].deq \in 0 .. Usable /\ ep[1].cycle \in {0, 1}
  /\ ep[1].deq <= ep[1].used /\ ep[1].used <= queued
  /\ ep1Enq = IF At + Outstanding < Usable THEN At + Outstanding ELSE At + Outstanding - Usable
  /\ ep1Cycle = IF At + Outstanding < Usable THEN Lap ELSE 1 - Lap
  /\ queued < Usable => ep1Enq = queued /\ ep1Cycle = 1
  /\ \A j \in 0 .. Usable - 1 :
       ep1[j] = IF j < ep1Enq THEN trb("normal", ep1Cycle)
                ELSE IF queued < Usable THEN EmptyTrb ELSE trb("normal", 1 - ep1Cycle)
  /\ ep1[Usable] = IF queued < Usable THEN EmptyTrb ELSE trb("link", 1 - ep1Cycle)

OnePort == /\ OneSlot /\ InTurn
           /\ configured => After /\ Conserved /\ Contents
           /\ ~configured => Before

KbdInv == Inv /\ MoreTypes /\ Completions /\ (ports = 1 => OnePort)

-----------------------------------------------------------------------------
(* What was posted and is not taken yet.                                   *)

LEMMA PostedGrows ==
  ASSUME RingTypes, RingOrder, NEW e, Post(e), taken' = taken
  PROVE  /\ Len(posted) \in Nat /\ taken <= Len(posted)
         /\ Posted' = Posted \cup {Len(posted) + 1} /\ Len(posted) + 1 \notin Posted
         /\ Unread' = Unread \cup {Len(posted) + 1}
         /\ posted'[Len(posted) + 1] = e
         /\ \A i \in Posted : posted'[i] = posted[i]
         /\ Unread \subseteq Posted
<1>1. Len(posted) \in Nat /\ taken \in Nat
  BY LenProperties DEF RingTypes
<1>2. taken <= Len(posted)
  BY <1>1, GapIs DEF RingTypes, RingOrder
<1>3. posted' = Append(posted, e)
  BY DEF Post
<1>4. /\ Len(posted') = Len(posted) + 1 /\ posted'[Len(posted) + 1] = e
      /\ \A i \in Posted : posted'[i] = posted[i]
  BY <1>3 DEF Posted, RingTypes
<1>5. Posted' = Posted \cup {Len(posted) + 1} /\ Len(posted) + 1 \notin Posted
  BY <1>1, <1>4 DEF Posted
<1>6. Unread' = Unread \cup {Len(posted) + 1} /\ Unread \subseteq Posted
  BY <1>1, <1>2, <1>4 DEF Posted, Unread
<1> QED
  BY <1>1, <1>2, <1>4, <1>5, <1>6

LEMMA TakesNext ==
  ASSUME RingTypes, RingOrder, Pending, Advance, posted' = posted
  PROVE  /\ taken + 1 \in Unread /\ Unread \subseteq Posted /\ Posted' = Posted
         /\ Unread' = Unread \ {taken + 1}
         /\ ev' = posted[taken + 1]
         /\ \A i \in Unread : i >= taken + 1
<1>1. Len(posted) \in Nat /\ taken \in Nat /\ EventSize \in Nat \ {0, 1}
  BY LenProperties, XhciAssumption DEF RingTypes
<1>2. deq # enq
  <2>1. ring[deq].cycle = IF deq < enq THEN pcs ELSE 1 - pcs
    BY DEF RingOrder, RingTypes
  <2>2. ring[deq].cycle = ccs
    BY DEF Pending
  <2> QED
    BY <2>1, <2>2, <1>1 DEF RingOrder, RingTypes, EventIndex
<1>3. Gap(enq, deq) \in Nat /\ Gap(enq, deq) > 0
  BY <1>1, <1>2, GapIs DEF RingTypes, Gap, EventIndex
<1>4. taken + 1 <= Len(posted)
  BY <1>1, <1>3 DEF RingOrder
<1>5. Spot(deq, 0) = deq
  BY <1>1, SpotIs DEF RingTypes, EventIndex
<1>6. ring[deq].event = posted[taken + 1]
  <2>1. 0 \in 0 .. Gap(enq, deq) - 1
    BY <1>3
  <2>2. ring[Spot(deq, 0)].event = posted[taken + 0 + 1]
    BY <2>1 DEF RingOrder
  <2> QED
    BY <1>1, <1>5, <2>2
<1>7. taken' = taken + 1 /\ ev' = ring[deq].event
  BY DEF Advance
<1> QED
  BY <1>1, <1>4, <1>6, <1>7 DEF Unread, Posted

LEMMA OwedFinite ==
  ASSUME RingTypes
  PROVE  IsFiniteSet(Owed) /\ Cardinality(Owed) \in Nat
<1>1. Len(posted) \in Nat
  BY LenProperties DEF RingTypes
<1>2. IsFiniteSet(1 .. Len(posted))
  BY <1>1, FS_Interval
<1>3. Owed \in SUBSET (1 .. Len(posted))
  BY DEF Owed, Unread
<1>4. IsFiniteSet(Owed)
  BY <1>2, <1>3, FS_Subset
<1> QED
  BY <1>4, FS_CardinalityType

LEMMA OwedGrows ==
  ASSUME RingTypes, RingOrder, NEW e, Post(e), taken' = taken
  PROVE  Cardinality(Owed') = Cardinality(Owed) + One(e.type = "transfer")
<1> DEFINE n == Len(posted) + 1
<1>1. /\ Unread' = Unread \cup {n} /\ n \notin Posted /\ Unread \subseteq Posted
      /\ posted'[n] = e /\ \A i \in Posted : posted'[i] = posted[i]
  BY PostedGrows
<1> HIDE DEF n
<1>2. Owed' = { i \in Unread' : posted'[i].type = "transfer" }
  BY DEF Owed, IsTransfer
<1>3. Owed = { i \in Unread : posted[i].type = "transfer" }
  BY DEF Owed, IsTransfer
<1>4. IsFiniteSet(Owed) /\ Cardinality(Owed) \in Nat
  BY OwedFinite
<1>5. CASE e.type = "transfer"
  <2>1. Owed' = Owed \cup {n} /\ n \notin Owed
    BY <1>1, <1>2, <1>3, <1>5
  <2> QED
    BY <1>4, <1>5, <2>1, FS_AddElement DEF One
<1>6. CASE e.type # "transfer"
  <2>1. Owed' = Owed
    BY <1>1, <1>2, <1>3, <1>6
  <2> QED
    BY <1>4, <1>6, <2>1 DEF One
<1> QED
  BY <1>5, <1>6

LEMMA OwedShrinks ==
  ASSUME RingTypes, RingOrder, Pending, Advance, posted' = posted
  PROVE  /\ Cardinality(Owed) = Cardinality(Owed') + One(ev'.type = "transfer")
         /\ Cardinality(Owed') \in Nat
<1>1. /\ taken + 1 \in Unread /\ Unread' = Unread \ {taken + 1}
      /\ ev' = posted[taken + 1]
  BY TakesNext
<1>2. Owed' = { i \in Unread' : posted[i].type = "transfer" }
  BY DEF Owed, IsTransfer
<1>3. Owed = { i \in Unread : posted[i].type = "transfer" }
  BY DEF Owed, IsTransfer
<1>4. IsFiniteSet(Owed) /\ Cardinality(Owed) \in Nat
  BY OwedFinite
<1>5. CASE ev'.type = "transfer"
  <2>1. Owed' = Owed \ {taken + 1} /\ taken + 1 \in Owed
    BY <1>1, <1>2, <1>3, <1>5
  <2>2. Cardinality(Owed \ {taken + 1}) = Cardinality(Owed) - 1
    BY <1>4, <2>1, FS_RemoveElement
  <2>3. One(ev'.type = "transfer") = 1
    BY <1>5 DEF One
  <2>4. PICK c \in Nat : c = Cardinality(Owed)
    BY <1>4
  <2>5. Cardinality(Owed') \in Nat
    BY <1>4, <2>1, FS_RemoveElement, FS_CardinalityType
  <2> QED
    BY <2>1, <2>2, <2>3, <2>4, <2>5
<1>6. CASE ev'.type # "transfer"
  <2>1. Owed' = Owed
    BY <1>1, <1>2, <1>3, <1>6
  <2> QED
    BY <1>4, <1>6, <2>1 DEF One
<1> QED
  BY <1>5, <1>6

-----------------------------------------------------------------------------
(* Types of the endpoints and of the transfer ring; order of completions.  *)

LEMMA Sizes ==
  /\ MaxPorts \in Nat \ {0} /\ 1 \in Slot
  /\ EpSize \in Nat /\ Usable \in Nat /\ Usable >= 3
  /\ EpIndex = 0 .. Usable /\ Usable \in EpIndex /\ 0 \in EpIndex
BY XhciAssumption DEF Usable, EpIndex, Slot

LEMMA QueueTransferMoreTypes ==
  ASSUME Inv, MoreTypes, QueueTransfer
  PROVE  MoreTypes'
<1>1. ep1Cycle \in {0, 1} /\ ep1Enq \in 0 .. Usable - 1 /\ ep1Enq \in EpIndex
  BY Sizes DEF Inv, Types, TransferTypes
<1>2. \A t \in {"empty", "normal", "link"}, c \in {0, 1} : trb(t, c) \in Trb
  BY DEF trb, Trb
<1>3. ep1' \in [EpIndex -> Trb]
  <2>1. CASE ep1Enq + 1 >= Usable
    <3>1. ep1' = [ep1 EXCEPT ![ep1Enq] = trb("normal", ep1Cycle), ![Usable] = trb("link", ep1Cycle)]
      BY <2>1 DEF QueueTransfer, Queued
    <3> QED
      BY <1>1, <1>2, <3>1, Sizes DEF MoreTypes
  <2>2. CASE ~(ep1Enq + 1 >= Usable)
    <3>1. ep1' = [ep1 EXCEPT ![ep1Enq] = trb("normal", ep1Cycle)]
      BY <2>2 DEF QueueTransfer, Queued
    <3> QED
      BY <1>1, <1>2, <3>1, Sizes DEF MoreTypes
  <2> QED
    BY <2>1, <2>2
<1>4. ep' \in [Slot -> Endpoint]
  <2>1. ep' = [ep EXCEPT ![kbdSlot] = [ep[kbdSlot] EXCEPT !.bell = TRUE]]
    BY DEF QueueTransfer
  <2>2. ASSUME kbdSlot \in Slot PROVE [ep[kbdSlot] EXCEPT !.bell = TRUE] \in Endpoint
    BY <2>2 DEF MoreTypes, Endpoint
  <2>3. PICK x : x = [ep[kbdSlot] EXCEPT !.bell = TRUE]
    OBVIOUS
  <2> QED
    BY <2>1, <2>2, <2>3 DEF MoreTypes
<1>5. queued' \in Nat
  BY DEF QueueTransfer, MoreTypes
<1> QED
  BY <1>3, <1>4, <1>5 DEF MoreTypes

LEMMA SendReportSteps ==
  ASSUME MoreTypes, NEW s \in Slot, NEW code, SendReport(s, code),
         NEW at, at = Where(ep[s].deq, ep[s].cycle)
  PROVE  /\ ep' \in [Slot -> Endpoint]
         /\ ep'[s].on = ep[s].on /\ ep'[s].used = ep[s].used + 1
         /\ ep'[s].deq = at[1] + 1 /\ ep'[s].cycle = at[2]
         /\ \A t \in Slot \ {s} : ep'[t] = ep[t]
<1>1. PICK d \in Int, c \in Int : d = at[1] /\ c = at[2]
  BY DEF Where, MoreTypes, Endpoint
<1>2. PICK b \in BOOLEAN : b = HasTransfer(at[1] + 1, at[2])
  BY DEF HasTransfer
<1>3. PICK r \in Endpoint : r = ep[s]
  BY DEF MoreTypes
<1>4. PICK x : x = [r EXCEPT !.deq = d + 1, !.cycle = c, !.used = r.used + 1, !.bell = b]
  OBVIOUS
<1>5. ep' = [ep EXCEPT ![s] = [@ EXCEPT !.deq = at[1] + 1, !.cycle = at[2],
                                  !.used = ep[s].used + 1,
                                  !.bell = HasTransfer(at[1] + 1, at[2])]]
  BY DEF SendReport
<1>6. ep' = [ep EXCEPT ![s] = x]
  BY <1>1, <1>2, <1>3, <1>4, <1>5
<1>10. PICK n \in Int, m \in Int : n = r.used + 1 /\ m = d + 1
  BY DEF Endpoint
<1>11. x = [r EXCEPT !.deq = m, !.cycle = c, !.used = n, !.bell = b]
  BY <1>4, <1>10
<1>12. x \in Endpoint /\ x.on = r.on /\ x.deq = m /\ x.cycle = c /\ x.used = n
  BY <1>11 DEF Endpoint
<1>7. x \in Endpoint /\ x.on = r.on /\ x.deq = d + 1 /\ x.cycle = c /\ x.used = r.used + 1
  BY <1>10, <1>12
<1>8. ep'[s] = x /\ ep' \in [Slot -> Endpoint] /\ \A t \in Slot \ {s} : ep'[t] = ep[t]
  BY <1>6, <1>7 DEF MoreTypes
<1> QED
  BY <1>1, <1>3, <1>7, <1>8

LEMMA SendReportMoreTypes ==
  ASSUME MoreTypes, NEW s \in Slot, NEW code, SendReport(s, code)
  PROVE  MoreTypes'
<1>1. ep' \in [Slot -> Endpoint]
  BY SendReportSteps
<1> QED
  BY <1>1 DEF SendReport, ep1ring, MoreTypes

LEMMA MoreTypesStep ==
  ASSUME Inv, MoreTypes, Next
  PROVE  MoreTypes'
<1>1. CASE EndpointConfigured
  BY <1>1, QueueTransferMoreTypes DEF EndpointConfigured
<1>2. CASE ProcessEvent
  BY <1>2, QueueTransferMoreTypes DEF ProcessEvent, ep1ring, MoreTypes
<1>3. CASE DeviceAddressed
  BY <1>3 DEF DeviceAddressed, MoreTypes, ClearRing, EmptyTrb, Trb
<1>4. ASSUME NEW code \in {Success, OtherCode}, Execute(code)
      PROVE  MoreTypes'
  <2>1. FreshEndpoint \in Endpoint
    BY DEF FreshEndpoint, Endpoint
  <2> QED
    BY <1>4, <2>1 DEF Execute, ep1ring, MoreTypes
<1>5. ASSUME NEW code \in {Success, OtherCode}, NEW s \in Slot, SendReport(s, code)
      PROVE  MoreTypes'
  BY <1>5, SendReportMoreTypes
<1>6. ASSUME NEW code \in {Success, OtherCode}, NEW s \in Slot, FinishControl(s, code)
      PROVE  MoreTypes'
  BY <1>6 DEF FinishControl, ep1ring, MoreTypes
<1>7. CASE StartController \/ ScanPort \/ FlushEvent \/ SendCommand \/ WaitCommand
           \/ SlotEnabled \/ PollEvent \/ PortChange
  BY <1>7 DEF StartController, ScanPort, FlushEvent, SendCommand, WaitCommand,
     SlotEnabled, PollEvent, PortChange, ep1ring, MoreTypes
<1> QED
  BY <1>1, <1>2, <1>3, <1>4, <1>5, <1>6, <1>7 DEF Next, Driver, Controller

\* An event that is no completion keeps them in order.
LEMMA OtherEventPosted ==
  ASSUME Inv, Completions, NEW e, Post(e), taken' = taken, executed' = executed,
         e.type # "command"
  PROVE  Completions'
<1> DEFINE n == Len(posted) + 1
<1>1. /\ Posted' = Posted \cup {n} /\ posted'[n] = e
      /\ \A i \in Posted : posted'[i] = posted[i]
  BY PostedGrows DEF Inv, Types
<1> HIDE DEF n
<1>2. \A i \in Posted' : IsCommand(i)' => i \in Posted /\ IsCommand(i)
  BY <1>1 DEF IsCommand
<1> QED
  BY <1>1, <1>2 DEF Completions

LEMMA CompletionsStep ==
  ASSUME Inv, Completions, Next
  PROVE  Completions'
<1>1. ASSUME NEW code \in {Success, OtherCode}, Execute(code)
      PROVE  Completions'
  <2>1. PICK e : /\ Post(e) /\ e.type = "command" /\ e.about = executed + 1
    BY <1>1 DEF Execute, event
  <2>2. taken' = taken /\ executed' = executed + 1 /\ executed \in Nat
    BY <1>1, LenProperties DEF Execute, Inv, Types, CommandTypes
  <2> DEFINE n == Len(posted) + 1
  <2>3. /\ Posted' = Posted \cup {n} /\ posted'[n] = e /\ n \notin Posted
        /\ \A i \in Posted : posted'[i] = posted[i]
    BY <2>1, <2>2, PostedGrows DEF Inv, Types
  <2>4. \A i \in Posted : i < n /\ i \in Nat
    BY LenProperties DEF Inv, Types, RingTypes, Posted
  <2>7. n \in Nat
    BY LenProperties DEF Inv, Types, RingTypes
  <2> HIDE DEF n
  <2>5. \A i \in Posted' : IsCommand(i)' => posted'[i].about \in 1 .. executed'
    BY <2>1, <2>2, <2>3 DEF Completions, IsCommand
  <2>6. ASSUME NEW i \in Posted', NEW j \in Posted', i < j, IsCommand(i)', IsCommand(j)'
        PROVE  posted'[i].about < posted'[j].about
    <3>1. i \in Posted
      <4>1. i \in Posted \cup {n} /\ j \in Posted \cup {n}
        BY <2>3
      <4>2. n \in Nat
        BY <2>7
      <4> QED
        BY <2>4, <2>6, <4>1, <4>2
    <3>2. CASE j = n
      BY <2>1, <2>2, <2>3, <2>6, <3>1, <3>2 DEF Completions, IsCommand
    <3>3. CASE j \in Posted
      BY <2>3, <2>6, <3>1, <3>3 DEF Completions, IsCommand
    <3> QED
      BY <2>3, <3>2, <3>3
  <2> QED
    BY <2>5, <2>6 DEF Completions
<1>2. ASSUME NEW code \in {Success, OtherCode}, NEW s \in Slot,
             FinishControl(s, code) \/ SendReport(s, code)
      PROVE  Completions'
  <2>1. PICK e : Post(e) /\ e.type # "command"
    BY <1>2 DEF FinishControl, SendReport, event
  <2> QED
    BY <1>2, <2>1, OtherEventPosted DEF FinishControl, SendReport, commands
<1>3. CASE PortChange
  <2>1. PICK e : Post(e) /\ e.type # "command"
    BY <1>3 DEF PortChange, event
  <2> QED
    BY <1>3, <2>1, OtherEventPosted DEF PortChange, commands
<1>4. CASE Driver
  <2>1. UNCHANGED << posted, executed >>
    BY <1>4 DEF Driver, StartController, ScanPort, FlushEvent, SendCommand, WaitCommand,
       SlotEnabled, DeviceAddressed, EndpointConfigured, PollEvent, ProcessEvent, commands
  <2> QED
    BY <2>1 DEF Completions, Posted, IsCommand
<1> QED
  BY <1>1, <1>2, <1>3, <1>4 DEF Next, Controller

-----------------------------------------------------------------------------
(* The ring of keyboard transfers.                                         *)

\* Queueing one more keeps the contents.
LEMMA QueueKeepsContents ==
  ASSUME Inv, MoreTypes, Contents, Outstanding <= 1, kbdSlot = 1, QueueTransfer
  PROVE  Contents' /\ Outstanding' = Outstanding + 1 /\ ep'[1].on = ep[1].on
<1>1. /\ 1 \in Slot /\ Usable \in Nat /\ Usable >= 3 /\ EpIndex = 0 .. Usable
      /\ ep1Cycle \in {0, 1} /\ ep1Enq \in 0 .. Usable - 1 /\ queued \in Nat
      /\ ep[1] \in Endpoint
  BY Sizes DEF Inv, Types, TransferTypes, MoreTypes
<1>2. ep' = [ep EXCEPT ![1] = [ep[1] EXCEPT !.bell = TRUE]] /\ queued' = queued + 1
  BY DEF QueueTransfer
<1>3. /\ ep'[1].deq = ep[1].deq /\ ep'[1].cycle = ep[1].cycle /\ ep'[1].used = ep[1].used
      /\ ep'[1].on = ep[1].on
  BY <1>1, <1>2 DEF MoreTypes, Endpoint
<1>4. Outstanding' = Outstanding + 1 /\ Outstanding \in 0 .. 1
  BY <1>1, <1>2, <1>3 DEF Outstanding, Contents, Endpoint
<1>5. At' = At /\ Lap' = Lap /\ At \in 0 .. Usable - 1 /\ Lap \in {0, 1} /\ At <= ep[1].used
  BY <1>1, <1>3 DEF At, Lap, Contents, Endpoint
<1>6. ASSUME ep1Enq + 1 >= Usable
      PROVE  /\ ep1' = [ep1 EXCEPT ![ep1Enq] = trb("normal", ep1Cycle),
                                   ![Usable] = trb("link", ep1Cycle)]
             /\ ep1Enq' = 0 /\ ep1Cycle' = 1 - ep1Cycle
  BY <1>6 DEF QueueTransfer, Queued
<1>7. ASSUME ~(ep1Enq + 1 >= Usable)
      PROVE  /\ ep1' = [ep1 EXCEPT ![ep1Enq] = trb("normal", ep1Cycle)]
             /\ ep1Enq' = ep1Enq + 1 /\ ep1Cycle' = ep1Cycle
  BY <1>7 DEF QueueTransfer, Queued
<1>8. PICK o \in 0 .. 1, a \in 0 .. Usable - 1, l \in {0, 1}, u \in Nat :
        /\ o = Outstanding /\ a = At /\ l = Lap /\ u = ep[1].used /\ a <= u /\ queued = u + o
  <2>1. ep[1].used \in Nat /\ queued = ep[1].used + Outstanding
    BY <1>1, <1>4 DEF Outstanding, Contents, Endpoint
  <2> QED
    BY <1>4, <1>5, <2>1
<1>9. /\ ep1Enq = IF a + o < Usable THEN a + o ELSE a + o - Usable
      /\ ep1Cycle = IF a + o < Usable THEN l ELSE 1 - l
      /\ queued < Usable => ep1Enq = queued /\ ep1Cycle = 1
  BY <1>8 DEF Contents
<1>10. /\ ep1Enq' = IF a + (o + 1) < Usable THEN a + (o + 1) ELSE a + (o + 1) - Usable
       /\ ep1Cycle' = IF a + (o + 1) < Usable THEN l ELSE 1 - l
  BY <1>1, <1>6, <1>7, <1>8, <1>9
<1>11. queued' < Usable => ep1Enq' = queued' /\ ep1Cycle' = 1
  BY <1>1, <1>2, <1>6, <1>7, <1>9
<1>12. queued' >= Usable /\ queued < Usable => ep1Enq + 1 = Usable
  BY <1>1, <1>2, <1>9
<1>13. ASSUME NEW j \in 0 .. Usable - 1
       PROVE  ep1'[j] = IF j < ep1Enq' THEN trb("normal", ep1Cycle')
                        ELSE IF queued' < Usable THEN EmptyTrb ELSE trb("normal", 1 - ep1Cycle')
  <2>1. j \in EpIndex /\ j # Usable
    BY <1>1
  <2>2. ep1[j] = IF j < ep1Enq THEN trb("normal", ep1Cycle)
                 ELSE IF queued < Usable THEN EmptyTrb ELSE trb("normal", 1 - ep1Cycle)
    BY DEF Contents
  <2>3. CASE ep1Enq + 1 >= Usable
    <3>1. ep1'[j] = trb("normal", ep1Cycle)
      BY <1>1, <1>6, <2>1, <2>2, <2>3 DEF MoreTypes
    <3>2. 1 - ep1Cycle' = ep1Cycle /\ ~(j < ep1Enq') /\ ~(queued' < Usable)
      BY <1>1, <1>2, <1>6, <1>9, <2>3
    <3> QED
      BY <3>1, <3>2
  <2>4. CASE ~(ep1Enq + 1 >= Usable)
    <3>1. ep1'[j] = IF j = ep1Enq THEN trb("normal", ep1Cycle) ELSE ep1[j]
      BY <1>1, <1>7, <2>1, <2>4 DEF MoreTypes
    <3>2. ep1Cycle' = ep1Cycle /\ ep1Enq' = ep1Enq + 1 /\ (queued' < Usable <=> queued < Usable)
      BY <1>1, <1>2, <1>7, <1>12, <2>4
    <3> QED
      BY <1>1, <2>2, <3>1, <3>2
  <2> QED
    BY <2>3, <2>4
<1>14. ep1'[Usable] = IF queued' < Usable THEN EmptyTrb ELSE trb("link", 1 - ep1Cycle')
  <2>1. ep1[Usable] = IF queued < Usable THEN EmptyTrb ELSE trb("link", 1 - ep1Cycle)
    BY DEF Contents
  <2>2. CASE ep1Enq + 1 >= Usable
    <3>1. ep1'[Usable] = trb("link", ep1Cycle)
      BY <1>1, <1>6, <2>2 DEF MoreTypes
    <3>2. 1 - ep1Cycle' = ep1Cycle /\ ~(queued' < Usable)
      BY <1>1, <1>2, <1>6, <1>9, <2>2
    <3> QED
      BY <3>1, <3>2
  <2>3. CASE ~(ep1Enq + 1 >= Usable)
    <3>1. ep1'[Usable] = ep1[Usable]
      BY <1>1, <1>7, <2>3 DEF MoreTypes
    <3>2. ep1Cycle' = ep1Cycle /\ (queued' < Usable <=> queued < Usable)
      BY <1>1, <1>2, <1>7, <1>12, <2>3
    <3> QED
      BY <2>1, <3>1, <3>2
  <2> QED
    BY <2>2, <2>3
<1>15. Outstanding' = o + 1 /\ At' = a /\ Lap' = l
  BY <1>4, <1>5, <1>8
<1>16. /\ ep'[1].deq \in 0 .. Usable /\ ep'[1].cycle \in {0, 1}
       /\ ep'[1].deq <= ep'[1].used /\ ep'[1].used <= queued'
  BY <1>1, <1>2, <1>3 DEF Contents, Endpoint
<1>17. Contents'
  BY <1>10, <1>11, <1>13, <1>14, <1>15, <1>16 DEF Contents
<1> QED
  BY <1>3, <1>4, <1>17

\* The endpoint sees a transfer only if one is outstanding, at its place.
LEMMA TransferIsOutstanding ==
  ASSUME Inv, MoreTypes, Contents, Outstanding <= 2,
         HasTransfer(ep[1].deq, ep[1].cycle)
  PROVE  /\ Outstanding \in 1 .. 2
         /\ Where(ep[1].deq, ep[1].cycle) = << At, Lap >>
<1>1. /\ Usable \in Nat /\ Usable >= 3
      /\ ep1Cycle \in {0, 1} /\ ep1Enq \in 0 .. Usable - 1 /\ queued \in Nat
      /\ ep[1].used \in Nat /\ ep[1].deq \in 0 .. Usable /\ ep[1].cycle \in {0, 1}
      /\ ep[1].used <= queued
  BY Sizes DEF Inv, Types, TransferTypes, MoreTypes, Contents, Endpoint
<1>2. ep1[Usable].type # "normal"
  BY DEF Contents, EmptyTrb, trb
<1>3. Where(ep[1].deq, ep[1].cycle) = << At, Lap >>
  <2>1. CASE ep[1].deq # Usable
    BY <2>1 DEF Where, At, Lap
  <2>2. CASE ep[1].deq = Usable
    <3>1. CASE ep1[ep[1].deq] = trb("link", ep[1].cycle)
      BY <2>2, <3>1 DEF Where, At, Lap
    <3>2. CASE ep1[ep[1].deq] # trb("link", ep[1].cycle)
      <4>1. Where(ep[1].deq, ep[1].cycle) = << ep[1].deq, ep[1].cycle >>
        BY <3>2 DEF Where
      <4>2. ep1[Usable] = trb("normal", ep[1].cycle)
        BY <2>2, <4>1 DEF HasTransfer
      <4> QED
        BY <1>2, <4>2 DEF trb
    <3> QED
      BY <3>1, <3>2
  <2> QED
    BY <2>1, <2>2
<1>4. ep1[At] = trb("normal", Lap)
  BY <1>3 DEF HasTransfer
<1>5. At \in 0 .. Usable - 1 /\ Lap \in {0, 1} /\ Outstanding \in 0 .. 2
  BY <1>1 DEF At, Lap, Outstanding
<1>6. Outstanding # 0
  <2> SUFFICES ASSUME Outstanding = 0 PROVE FALSE
    OBVIOUS
  <2>1. ep1Enq = At /\ ep1Cycle = Lap
    <3>1. At + Outstanding = At /\ At < Usable
      BY <1>1, <1>5
    <3> QED
      BY <3>1 DEF Contents
  <2>2. ep1[At] \in {EmptyTrb, trb("normal", 1 - Lap)}
    BY <1>5, <2>1 DEF Contents
  <2> QED
    BY <1>4, <1>5, <2>2 DEF EmptyTrb, trb
<1> QED
  BY <1>3, <1>5, <1>6

LEMMA SendKeepsContents ==
  ASSUME Inv, MoreTypes, Contents, Outstanding <= 2, NEW code, SendReport(1, code)
  PROVE  Contents' /\ Outstanding' = Outstanding - 1 /\ ep'[1].on = ep[1].on
         /\ \A t \in Slot \ {1} : ep'[t] = ep[t]
<1>1. /\ 1 \in Slot /\ Usable \in Nat /\ Usable >= 3
      /\ ep1Cycle \in {0, 1} /\ ep1Enq \in 0 .. Usable - 1 /\ queued \in Nat
      /\ ep[1].used \in Nat /\ ep[1].deq \in 0 .. Usable /\ ep[1].cycle \in {0, 1}
      /\ ep[1].deq <= ep[1].used
  BY Sizes DEF Inv, Types, TransferTypes, MoreTypes, Contents, Endpoint
<1>2. Outstanding \in 1 .. 2 /\ Where(ep[1].deq, ep[1].cycle) = << At, Lap >>
  BY TransferIsOutstanding DEF SendReport
<1>3. PICK a, l : a = At /\ l = Lap
  OBVIOUS
<1>4. a \in 0 .. Usable - 1 /\ l \in {0, 1} /\ a <= ep[1].used
  BY <1>1, <1>3 DEF At, Lap
<1>5. PICK at : at = << a, l >> /\ at = Where(ep[1].deq, ep[1].cycle) /\ at[1] = a /\ at[2] = l
  BY <1>2, <1>3
<1>6. /\ ep'[1].on = ep[1].on /\ ep'[1].used = ep[1].used + 1
      /\ ep'[1].deq = a + 1 /\ ep'[1].cycle = l
      /\ \A t \in Slot \ {1} : ep'[t] = ep[t]
  BY <1>1, <1>5, SendReportSteps
<1>7. UNCHANGED << ep1, ep1Enq, ep1Cycle, queued >>
  BY DEF SendReport, ep1ring
<1>8. Outstanding' = Outstanding - 1
  BY <1>1, <1>6, <1>7 DEF Outstanding
<1>9. At' = IF a + 1 = Usable THEN 0 ELSE a + 1
  BY <1>6 DEF At
<1>10. Lap' = IF a + 1 = Usable THEN 1 - l ELSE l
  BY <1>6 DEF Lap
<1>11. PICK o \in 1 .. 2 : o = Outstanding /\ Outstanding' = o - 1
  BY <1>2, <1>8
<1>12. /\ ep1Enq = IF a + o < Usable THEN a + o ELSE a + o - Usable
       /\ ep1Cycle = IF a + o < Usable THEN l ELSE 1 - l
  BY <1>3, <1>11 DEF Contents
<1>13. /\ ep1Enq' = IF At' + (o - 1) < Usable THEN At' + (o - 1) ELSE At' + (o - 1) - Usable
       /\ ep1Cycle' = IF At' + (o - 1) < Usable THEN Lap' ELSE 1 - Lap'
  BY <1>1, <1>4, <1>7, <1>9, <1>10, <1>12
<1>14. /\ ep'[1].deq \in 0 .. Usable /\ ep'[1].cycle \in {0, 1}
       /\ ep'[1].deq <= ep'[1].used
  BY <1>1, <1>4, <1>6
<1>15. ep'[1].used <= queued'
  BY <1>1, <1>2, <1>6, <1>7 DEF Outstanding
<1>16. Contents'
  BY <1>7, <1>11, <1>13, <1>14, <1>15 DEF Contents
<1> QED
  BY <1>6, <1>8, <1>16

\* What the endpoint sees is what is outstanding.
LEMMA ContentsVisible ==
  ASSUME Inv, MoreTypes, Contents, Outstanding <= 2, kbdSlot = 1,
         NEW at, at = Where(ep[1].deq, ep[1].cycle), NEW k \in 0 .. Usable - 1
  PROVE  (/\ at[1] # Usable
          /\ ep1[(at[1] + k) % Usable]
               = trb("normal", IF at[1] + k < Usable THEN at[2] ELSE 1 - at[2]))
         <=> k < Outstanding
<1>1. /\ Usable \in Nat /\ Usable >= 3
      /\ ep1Cycle \in {0, 1} /\ ep1Enq \in 0 .. Usable - 1 /\ queued \in Nat
      /\ ep[1].used \in Nat /\ ep[1].deq \in 0 .. Usable /\ ep[1].cycle \in {0, 1}
      /\ ep[1].deq <= ep[1].used /\ ep[1].used <= queued
  BY Sizes DEF Inv, Types, TransferTypes, MoreTypes, Contents, Endpoint
<1>2. PICK a, l, o : a = At /\ l = Lap /\ o = Outstanding
  OBVIOUS
<1>3. a \in 0 .. Usable - 1 /\ l \in {0, 1} /\ o \in 0 .. 2
  BY <1>1, <1>2 DEF At, Lap, Outstanding
<1>4. /\ ep1Enq = IF a + o < Usable THEN a + o ELSE a + o - Usable
      /\ ep1Cycle = IF a + o < Usable THEN l ELSE 1 - l
  BY <1>2 DEF Contents
<1>5. at = << a, l >>
  <2>1. CASE ep[1].deq # Usable
    BY <1>2, <2>1 DEF Where, At, Lap
  <2>2. CASE ep[1].deq = Usable
    <3>1. a = 0 /\ l = 1 - ep[1].cycle /\ ~(queued < Usable)
      BY <1>1, <1>2, <2>2 DEF At, Lap
    <3>2. ep1[Usable] = trb("link", ep[1].cycle)
      <4>1. 1 - ep1Cycle = ep[1].cycle
        BY <1>1, <1>3, <1>4, <3>1
      <4> QED
        BY <3>1, <4>1 DEF Contents
    <3> QED
      BY <2>2, <3>1, <3>2 DEF Where
  <2> QED
    BY <2>1, <2>2
<1>6. at[1] = a /\ at[2] = l
  BY <1>5
<1>7. PICK j \in 0 .. Usable - 1 : j = IF a + k < Usable THEN a + k ELSE a + k - Usable
  <2>1. CASE a + k < Usable
    <3>1. a + k \in 0 .. Usable - 1
      BY <1>1, <1>3, <2>1
    <3> QED
      BY <2>1, <3>1
  <2>2. CASE ~(a + k < Usable)
    <3>1. a + k - Usable \in 0 .. Usable - 1
      BY <1>1, <1>3, <2>2
    <3> QED
      BY <2>2, <3>1
  <2> QED
    BY <2>1, <2>2
<1>8. (a + k) % Usable = j
  BY <1>1, <1>3, <1>7
<1>9. ep1[j] = IF j < ep1Enq THEN trb("normal", ep1Cycle)
               ELSE IF queued < Usable THEN EmptyTrb ELSE trb("normal", 1 - ep1Cycle)
  BY DEF Contents
<1>10. PICK x \in {0, 1} : x = IF a + k < Usable THEN l ELSE 1 - l
  BY <1>1, <1>3, <1>7
<1>11. queued < Usable => ep1Enq = queued /\ ep1Cycle = 1
  BY DEF Contents
<1>12. CASE k < o
  <2>1. ep1[j] = trb("normal", x)
    <3>1. CASE j < ep1Enq
      <4>1. ep1Cycle = x
        BY <1>1, <1>3, <1>4, <1>7, <1>10, <1>12, <3>1
      <4> QED
        BY <1>9, <3>1, <4>1
    <3>2. CASE ~(j < ep1Enq)
      <4>1. 1 - ep1Cycle = x
        BY <1>1, <1>3, <1>4, <1>7, <1>10, <1>12, <3>2
      <4>2. ~(queued < Usable)
        <5>1. a <= ep[1].used /\ queued = ep[1].used + o
          BY <1>1, <1>2, <1>3 DEF At, Outstanding
        <5> QED
          BY <1>1, <1>3, <1>4, <1>7, <1>11, <1>12, <3>2, <5>1
      <4> QED
        BY <1>9, <3>2, <4>1, <4>2
    <3> QED
      BY <3>1, <3>2
  <2> QED
    BY <1>1, <1>2, <1>3, <1>6, <1>8, <1>10, <1>12, <2>1
<1>13. CASE ~(k < o)
  <2>1. ep1[j] # trb("normal", x)
    <3>1. CASE j < ep1Enq
      <4>1. ep1Cycle # x
        BY <1>1, <1>3, <1>4, <1>7, <1>10, <1>13, <3>1
      <4> QED
        BY <1>9, <3>1, <4>1 DEF trb
    <3>2. CASE ~(j < ep1Enq)
      <4>1. 1 - ep1Cycle # x
        BY <1>1, <1>3, <1>4, <1>7, <1>10, <1>13, <3>2
      <4> QED
        BY <1>9, <3>2, <4>1 DEF trb, EmptyTrb
    <3> QED
      BY <3>1, <3>2
  <2> QED
    BY <1>1, <1>2, <1>3, <1>6, <1>8, <1>10, <1>13, <2>1
<1> QED
  BY <1>12, <1>13

-----------------------------------------------------------------------------
(* Each step of a controller with one port.                                *)

LEMMA KbdInvInit == Init => KbdInv
<1> SUFFICES ASSUME Init PROVE KbdInv
  OBVIOUS
<1>1. Inv
  BY InvInit
<1>2. MoreTypes
  BY DEF Init, MoreTypes, Endpoint, Trb, ClearRing, EmptyTrb
<1>3. posted = <<>> /\ Posted = {} /\ Unread = {}
  BY DEF Init, Posted, Unread
<1>4. Completions
  BY <1>3 DEF Completions
<1>5. OneSlot
  BY <1>3 DEF Init, OneSlot
<1>6. InTurn
  BY DEF Init, InTurn
<1>7. Before
  BY <1>3 DEF Init, Before
<1> QED
  BY <1>1, <1>2, <1>4, <1>5, <1>6, <1>7 DEF Init, KbdInv, OnePort

\* Facts that every step uses.
LEMMA OnePortFacts ==
  ASSUME KbdInv, ports = 1
  PROVE  /\ RingTypes /\ RingOrder /\ MoreTypes /\ Completions
         /\ OneSlot /\ InTurn
         /\ 1 \in Slot /\ Len(cmds) \in Nat /\ executed \in 0 .. Len(cmds)
         /\ cmds \in Seq(Command)
         /\ portNo \in Nat /\ portNo >= 1
         /\ pc \in {"flush", "send", "wait", "handle"} => portNo = 1
         /\ pc \in {"init", "flush", "send", "wait", "handle"} => ~configured /\ Before
         /\ pc = "process" => configured
         /\ Unread \subseteq Posted
<1>1. Inv /\ OnePort
  BY DEF KbdInv
<1>2. portNo \in Nat /\ portNo >= 1
      /\ (pc \in {"flush", "send", "wait", "handle"} => portNo = 1)
  BY <1>1, XhciAssumption DEF Inv, Types, DriverTypes
<1>3. Len(cmds) \in Nat /\ executed \in 0 .. Len(cmds) /\ cmds \in Seq(Command)
  BY <1>1, LenProperties DEF Inv, Types, CommandTypes
<1>4. pc \in {"init", "flush", "send", "wait", "handle"} => ~configured /\ Before
  BY <1>1 DEF OnePort, After
<1>5. pc = "process" => configured
  BY <1>1 DEF OnePort, Before
<1>6. Unread \subseteq Posted
  BY DEF Unread, Posted
<1>7. RingTypes /\ RingOrder /\ MoreTypes /\ Completions /\ OneSlot /\ InTurn
  BY <1>1 DEF KbdInv, Inv, Types, OnePort
<1> QED
  BY <1>2, <1>3, <1>4, <1>5, <1>6, <1>7, Sizes

LEMMA StartAndScan ==
  ASSUME KbdInv, ports = 1, StartController \/ ScanPort
  PROVE  OnePort'
<1>1. UNCHANGED << cmds, executed, ep1, ep1Enq, ep1Cycle, queued, ep, control, kbdSlot,
                   configured, slotId, stage, ev, posted, taken >>
  BY DEF StartController, ScanPort, commands, ep1ring, kbd, locals
<1>2. pc' \in {"scan", "poll", "flush"}
  BY DEF StartController, ScanPort
<1>3. OneSlot'
  BY <1>1, <1>2, OnePortFacts DEF OneSlot, Posted, IsCommand, IsTransfer
<1>4. pc \in {"init", "scan"} /\ (portNo' = 1 => portNo = 1) /\ (pc' = "flush" => portNo = 1)
  BY OnePortFacts DEF StartController, ScanPort, locals
<1>5. InTurn'
  BY <1>1, <1>2, <1>4, OnePortFacts DEF InTurn
<1>6. CASE ~configured
  <2>1. Before'
    BY <1>1, <1>2, <1>6 DEF KbdInv, OnePort, Before, Posted, IsTransfer
  <2> QED
    BY <1>1, <1>3, <1>5, <1>6, <2>1 DEF OnePort
<1>7. CASE configured
  <2>1. After /\ Conserved /\ Contents
    BY <1>7 DEF KbdInv, OnePort
  <2>2. pc = "scan" /\ pc' = "poll" /\ portNo' = portNo
    BY <1>4, <2>1 DEF After, StartController, ScanPort, locals
  <2>3. After' /\ Contents'
    BY <1>1, <2>1, <2>2 DEF After, Contents, At, Lap, Outstanding
  <2>4. Conserved'
    BY <1>1, <2>1, <2>2 DEF Conserved, Outstanding, Owed, Unread, IsTransfer, One
  <2> QED
    BY <1>1, <1>3, <1>5, <1>7, <2>3, <2>4 DEF OnePort
<1> QED
  BY <1>6, <1>7

LEMMA FlushStep ==
  ASSUME KbdInv, ports = 1, FlushEvent
  PROVE  OnePort'
<1>1. pc = "flush" /\ ~configured /\ Before /\ portNo = 1
  BY OnePortFacts DEF FlushEvent
<1>2. UNCHANGED << cmds, executed, ep1, ep1Enq, ep1Cycle, queued, ep, control, kbdSlot,
                   configured, slotId, posted, portNo >>
  BY DEF FlushEvent, commands, ep1ring, kbd
<1>3. Before'
  BY <1>1, <1>2 DEF Before, Posted, IsTransfer, FlushEvent
<1>4. cmds = <<>> /\ executed = 0
  BY <1>1, OnePortFacts DEF InTurn
<1>5. pc' = "flush" \/ (pc' = "send" /\ stage' = "enable")
  BY <1>1 DEF FlushEvent
<1>6. OneSlot'
  BY <1>2, <1>5, OnePortFacts DEF OneSlot, Posted, IsCommand, IsTransfer
<1>7. \A i \in Posted : ~IsCommand(i)
  BY <1>4, OnePortFacts DEF Completions
<1>8. NoneUnread'
  BY <1>2, <1>7 DEF NoneUnread, Unread, Posted, IsCommand
<1>9. InTurn'
  BY <1>2, <1>4, <1>5, <1>8 DEF InTurn
<1> QED
  BY <1>1, <1>2, <1>3, <1>6, <1>9 DEF OnePort

LEMMA SendStep ==
  ASSUME KbdInv, ports = 1, SendCommand
  PROVE  OnePort'
<1>1. pc = "send" /\ ~configured /\ Before /\ portNo = 1
  BY OnePortFacts DEF SendCommand
<1>2. UNCHANGED << executed, ep1, ep1Enq, ep1Cycle, queued, ep, control, kbdSlot,
                   configured, slotId, stage, ev, posted, taken >>
  BY DEF SendCommand, ep1ring, kbd
<1>3. Before'
  BY <1>1, <1>2 DEF Before, Posted, IsTransfer, SendCommand, NextPort
<1>4. executed = Len(cmds) /\ NoneUnread
  BY <1>1, OnePortFacts DEF InTurn
<1>5. CASE RingFull
  <2>1. pc' = "scan" /\ portNo' = 2 /\ cmds' = cmds
    BY <1>1, <1>5 DEF SendCommand, NextPort
  <2>2. OneSlot'
    BY <1>2, <2>1, OnePortFacts DEF OneSlot, Posted, IsCommand, IsTransfer
  <2>3. InTurn'
    BY <2>1 DEF InTurn
  <2> QED
    BY <1>1, <1>2, <1>3, <2>2, <2>3 DEF OnePort
<1>6. CASE ~RingFull
  <2> DEFINE c == [op |-> stage, slot |-> slotId]
  <2>1. pc' = "wait" /\ cmds' = Append(cmds, c)
    BY <1>6 DEF SendCommand
  <2>2. c \in Command
    BY DEF KbdInv, Inv, Types, DriverTypes, Command
  <2>3. /\ Len(cmds') = Len(cmds) + 1 /\ cmds'[Len(cmds) + 1] = c
        /\ \A k \in 1 .. Len(cmds) : cmds'[k] = cmds[k]
    BY <2>1, <2>2, OnePortFacts, AppendProperties
  <2>4. c.op = stage /\ c.slot = slotId
    OBVIOUS
  <2>5. stage # "enable" => slotId = 1
    BY <1>1, OnePortFacts DEF OneSlot
  <2> HIDE DEF c
  <2>6. \A k \in 1 .. Len(cmds') : cmds'[k].op # "enable" => cmds'[k].slot = 1
    <3> SUFFICES ASSUME NEW k \in 1 .. Len(cmds'), cmds'[k].op # "enable"
                 PROVE  cmds'[k].slot = 1
      OBVIOUS
    <3>1. k \in 1 .. Len(cmds) \/ k = Len(cmds) + 1
      BY <2>3, OnePortFacts
    <3> QED
      BY <2>3, <2>4, <2>5, <3>1, OnePortFacts DEF OneSlot
  <2>7. OneSlot'
    BY <1>1, <1>2, <2>1, <2>6, OnePortFacts DEF OneSlot, Posted, IsCommand, IsTransfer
  <2>8. NoneUnread'
    BY <1>2, <1>4 DEF NoneUnread, Unread, IsCommand
  <2>9. Len(cmds') = executed' + 1 /\ Len(cmds') > 0
    BY <1>2, <1>4, <2>3, OnePortFacts
  <2>10. InTurn'
    BY <1>2, <2>1, <2>3, <2>4, <2>8, <2>9 DEF InTurn, NoneUnread
  <2> QED
    BY <1>1, <1>2, <1>3, <2>7, <2>10 DEF OnePort
<1> QED
  BY <1>5, <1>6

LEMMA WaitStep ==
  ASSUME KbdInv, ports = 1, WaitCommand
  PROVE  OnePort'
<1>1. pc = "wait" /\ ~configured /\ Before /\ portNo = 1
  BY OnePortFacts DEF WaitCommand
<1>2. UNCHANGED << cmds, executed, ep1, ep1Enq, ep1Cycle, queued, ep, control, kbdSlot,
                   configured, slotId, stage, posted >>
  BY DEF WaitCommand, commands, ep1ring, kbd
<1>3. pc' \in {"wait", "handle", "scan"} /\ (pc' = "scan" => portNo' = 2)
      /\ (pc' \in {"wait", "handle"} => portNo' = 1)
  BY <1>1 DEF WaitCommand, NextPort
<1>4. Before'
  BY <1>1, <1>2, <1>3 DEF Before, Posted, IsTransfer
<1>5. CASE timeout = 0 \/ ~Pending
  <2>1. pc' \in {"wait", "scan"} /\ taken' = taken
    BY <1>1, <1>5 DEF WaitCommand, NextPort
  <2>2. OneSlot'
    BY <1>1, <1>2, <2>1, OnePortFacts DEF OneSlot, Posted, IsCommand, IsTransfer
  <2>3. InTurn'
    BY <1>1, <1>2, <1>3, <2>1, OnePortFacts DEF InTurn, Unread, IsCommand
  <2> QED
    BY <1>1, <1>2, <1>4, <2>2, <2>3 DEF OnePort
<1>6. CASE timeout # 0 /\ Pending
  <2>1. Advance
    BY <1>1, <1>6 DEF WaitCommand, Take
  <2>2. /\ taken + 1 \in Unread /\ Unread \subseteq Posted
        /\ Unread' = Unread \ {taken + 1} /\ Posted' = Posted
        /\ ev' = posted[taken + 1] /\ \A i \in Unread : i >= taken + 1
    BY <1>2, <1>6, <2>1, TakesNext, OnePortFacts
  <2>3. ring[deq].event = ev'
    BY <2>1 DEF Advance
  <2>4. pc' = IF ev'.type # "command" THEN "wait"
              ELSE IF ev'.code = Success THEN "handle" ELSE "scan"
    BY <1>1, <1>6, <2>3 DEF WaitCommand, NextPort
  <2>5. pc' = "handle" => ev'.slot = 1
    BY <2>2, <2>4, OnePortFacts DEF OneSlot, IsCommand
  <2>6. OneSlot'
    BY <1>1, <1>2, <1>3, <2>5, OnePortFacts DEF OneSlot, Posted, IsCommand, IsTransfer
  <2>7. CASE pc' = "wait"
    <3>1. InTurn'
      BY <1>1, <1>2, <2>2, <2>7, OnePortFacts DEF InTurn, IsCommand
    <3> QED
      BY <1>1, <1>2, <1>4, <2>6, <3>1 DEF OnePort
  <2>8. CASE pc' = "scan"
    <3>1. InTurn'
      BY <1>3, <2>8 DEF InTurn
    <3> QED
      BY <1>1, <1>2, <1>4, <2>6, <3>1 DEF OnePort
  <2>9. CASE pc' = "handle"
    <3>1. IsCommand(taken + 1) /\ posted[taken + 1].code = Success
      BY <2>2, <2>4, <2>9 DEF IsCommand
    <3>2. posted[taken + 1].about = Len(cmds) /\ posted[taken + 1].about \in 1 .. executed
      BY <1>1, <2>2, <3>1, OnePortFacts DEF InTurn, Completions
    <3>3. executed = Len(cmds)
      BY <1>1, <3>2, OnePortFacts
    <3>4. ASSUME NEW i \in Unread, i # taken + 1 PROVE ~IsCommand(i)
      <4>1. i \in Posted /\ taken + 1 \in Posted /\ taken + 1 < i
        <5>1. i >= taken + 1 /\ i \in Posted /\ taken + 1 \in Posted
          BY <2>2
        <5>2. i \in Int /\ taken + 1 \in Int
          BY <5>1 DEF Posted
        <5> QED
          BY <3>4, <5>1, <5>2
      <4> SUFFICES ASSUME IsCommand(i) PROVE FALSE
        OBVIOUS
      <4>2. Len(cmds) < posted[i].about /\ posted[i].about \in 1 .. executed
        BY <3>1, <3>2, <4>1, OnePortFacts DEF Completions
      <4> QED
        BY <3>3, <4>2, OnePortFacts
    <3>5. NoneUnread'
      BY <1>2, <2>2, <3>4 DEF NoneUnread, IsCommand
    <3>6. stage = "configure" => ep[1].on
      BY <1>1, <2>2, <3>1, OnePortFacts DEF InTurn
    <3>7. InTurn'
      BY <1>2, <2>9, <3>3, <3>5, <3>6 DEF InTurn
    <3> QED
      BY <1>1, <1>2, <1>4, <2>6, <3>7 DEF OnePort
  <2> QED
    BY <1>3, <2>7, <2>8, <2>9
<1> QED
  BY <1>5, <1>6

LEMMA SlotAndAddress ==
  ASSUME KbdInv, ports = 1, SlotEnabled \/ DeviceAddressed
  PROVE  OnePort'
<1>1. pc = "handle" /\ ~configured /\ Before /\ portNo = 1
  BY OnePortFacts DEF SlotEnabled, DeviceAddressed
<1>2. UNCHANGED << cmds, executed, ep, control, configured, ev, posted, taken >> /\ pc' = "send"
  BY DEF SlotEnabled, DeviceAddressed, commands, kbd
<1>3. Before'
  BY <1>1, <1>2 DEF Before, Posted, IsTransfer, SlotEnabled, DeviceAddressed, ep1ring
<1>4. slotId' = 1 /\ (stage' = "configure" => kbdSlot' = 1)
  BY <1>1, OnePortFacts DEF SlotEnabled, DeviceAddressed, OneSlot
<1>5. OneSlot'
  BY <1>2, <1>4, OnePortFacts DEF OneSlot, Posted, IsCommand, IsTransfer
<1>6. InTurn'
  BY <1>1, <1>2, OnePortFacts DEF InTurn, NoneUnread, Unread, IsCommand
<1> QED
  BY <1>1, <1>2, <1>3, <1>5, <1>6 DEF OnePort

LEMMA ConfiguredStep ==
  ASSUME KbdInv, ports = 1, EndpointConfigured
  PROVE  OnePort'
<1>1. pc = "handle" /\ stage = "configure" /\ ~configured /\ Before /\ portNo = 1
  BY OnePortFacts DEF EndpointConfigured
<1>2. UNCHANGED << cmds, executed, kbdSlot, slotId, stage, ev, posted, taken >>
      /\ pc' = "scan" /\ portNo' = 2 /\ configured' = TRUE
      /\ control' = control \cup {slotId} /\ QueueTransfer
  BY <1>1 DEF EndpointConfigured, commands, NextPort
<1>3. slotId = 1 /\ kbdSlot = 1 /\ control' = {1} /\ ep[1].on /\ executed = Len(cmds)
  BY <1>1, <1>2, OnePortFacts DEF OneSlot, InTurn, Before
<1>4. /\ 1 \in Slot /\ 0 \in EpIndex /\ Usable \in EpIndex /\ Usable \in Nat /\ Usable >= 3
      /\ EpIndex = 0 .. Usable
  BY Sizes
<1>5. ep' = [ep EXCEPT ![1] = [ep[1] EXCEPT !.bell = TRUE]] /\ queued' = 1
  BY <1>1, <1>2, <1>3 DEF QueueTransfer, Before
<1>6. /\ ep'[1].deq = 0 /\ ep'[1].cycle = 1 /\ ep'[1].used = 0 /\ ep'[1].on
      /\ \A s \in Slot \ {1} : ep'[s] = ep[s]
  BY <1>1, <1>3, <1>4, <1>5, OnePortFacts DEF Before, MoreTypes, Endpoint
<1>7. ep1' = [ClearRing EXCEPT ![0] = trb("normal", 1)] /\ ep1Enq' = 1 /\ ep1Cycle' = 1
  BY <1>1, <1>2, <1>4 DEF QueueTransfer, Queued, Before
<1>8. Outstanding' = 1 /\ At' = 0 /\ Lap' = 1
  BY <1>4, <1>5, <1>6 DEF Outstanding, At, Lap
<1>9. ASSUME NEW j \in 0 .. Usable
      PROVE  ep1'[j] = IF j < 1 THEN trb("normal", 1) ELSE EmptyTrb
  <2>1. j \in EpIndex /\ ClearRing[j] = EmptyTrb
    BY <1>4 DEF ClearRing
  <2>2. ep1'[j] = IF j = 0 THEN trb("normal", 1) ELSE EmptyTrb
    BY <1>7, <2>1 DEF ClearRing
  <2> QED
    BY <1>4, <2>2
<1>10. Contents'
  <2>1. queued' < Usable
    BY <1>4, <1>5
  <2>2. ep1'[Usable] = EmptyTrb
    BY <1>4, <1>9
  <2>3. \A j \in 0 .. Usable - 1 : ep1'[j] = IF j < 1 THEN trb("normal", 1) ELSE EmptyTrb
    BY <1>4, <1>9
  <2> QED
    BY <1>4, <1>5, <1>6, <1>7, <1>8, <2>1, <2>2, <2>3 DEF Contents
<1>11. Owed' = {}
  BY <1>1, <1>2, OnePortFacts DEF Before, Owed, Unread, Posted, IsTransfer
<1>12. Conserved'
  <2>1. Cardinality(Owed') = 0
    BY <1>11, FS_EmptySet
  <2>2. One((1 \in control)') = 1 /\ One((pc = "process")') = 0
    BY <1>2, <1>3 DEF One
  <2> QED
    BY <1>8, <2>1, <2>2 DEF Conserved
<1>13. After'
  BY <1>2, <1>3, <1>6 DEF After
<1>14. OneSlot'
  BY <1>2, <1>3, <1>6, OnePortFacts DEF OneSlot, Posted, IsCommand, IsTransfer
<1>15. InTurn'
  BY <1>2 DEF InTurn
<1> QED
  BY <1>2, <1>10, <1>12, <1>13, <1>14, <1>15 DEF OnePort

LEMMA PollStep ==
  ASSUME KbdInv, ports = 1, PollEvent
  PROVE  OnePort'
<1>1. pc = "poll" /\ configured /\ Pending /\ Advance
      /\ pc' = IF ring[deq].event.type = "transfer" THEN "process" ELSE "poll"
  BY DEF PollEvent, Take
<1>2. After /\ Conserved /\ Contents
  BY <1>1 DEF KbdInv, OnePort
<1>3. UNCHANGED << cmds, executed, ep1, ep1Enq, ep1Cycle, queued, ep, control, kbdSlot,
                   configured, slotId, stage, posted, portNo >>
  BY DEF PollEvent, commands, ep1ring, kbd, locals
<1>4. /\ taken + 1 \in Unread /\ Unread \subseteq Posted /\ ev' = posted[taken + 1]
      /\ ev' = ring[deq].event
  BY <1>1, <1>3, TakesNext, OnePortFacts DEF Advance
<1>5. pc' = "process" => ev'.type = "transfer" /\ ev'.slot = 1
  BY <1>1, <1>4, OnePortFacts DEF OneSlot, IsTransfer
<1>6. pc' \in {"poll", "process"}
  BY <1>1
<1>7. OneSlot'
  BY <1>3, <1>5, <1>6, OnePortFacts DEF OneSlot, Posted, IsCommand, IsTransfer
<1>8. InTurn'
  BY <1>6 DEF InTurn
<1>9. After' /\ Contents'
  BY <1>2, <1>3, <1>6 DEF After, Contents, At, Lap, Outstanding
<1>10. Conserved'
  <2>1. Cardinality(Owed) = Cardinality(Owed') + One(ev'.type = "transfer")
    BY <1>1, <1>3, OwedShrinks, OnePortFacts
  <2>2. One(pc = "process") = 0 /\ One((pc = "process")') = One(ev'.type = "transfer")
    BY <1>1, <1>4 DEF One
  <2>3. Outstanding' = Outstanding /\ (1 \in control)' = (1 \in control)
    BY <1>3 DEF Outstanding
  <2>4. PICK x, y \in {0, 1} : x = One(ev'.type = "transfer") /\ y = One(1 \in control)
    BY DEF One
  <2>5. PICK o \in Int : o = Outstanding
    BY <1>2, OnePortFacts DEF Contents, MoreTypes, Endpoint, Outstanding
  <2>6. PICK m \in Nat : m = Cardinality(Owed)
    BY OwedFinite, OnePortFacts
  <2>7. PICK n \in Nat : n = Cardinality(Owed')
    BY <1>1, <1>3, OwedShrinks, OnePortFacts
  <2> QED
    BY <1>2, <2>1, <2>2, <2>3, <2>4, <2>5, <2>6, <2>7 DEF Conserved
<1> QED
  BY <1>1, <1>3, <1>7, <1>8, <1>9, <1>10 DEF OnePort

LEMMA ProcessStep ==
  ASSUME KbdInv, ports = 1, ProcessEvent
  PROVE  OnePort'
<1>1. pc = "process" /\ pc' = "poll" /\ configured
  BY OnePortFacts DEF ProcessEvent
<1>2. After /\ Conserved /\ Contents
  BY <1>1 DEF KbdInv, OnePort
<1>3. UNCHANGED << cmds, executed, control, kbdSlot, configured, slotId, stage, ev, posted,
                   taken, portNo >>
  BY DEF ProcessEvent, commands, kbd, locals
<1>4. Requeues(ev)
  BY <1>1, <1>2, OnePortFacts DEF Requeues, OneSlot, After
<1>5. QueueTransfer
  BY <1>4 DEF ProcessEvent
<1>6. PICK o \in Int, x \in {0, 1}, n \in Nat :
        o = Outstanding /\ x = One(1 \in control) /\ n = Cardinality(Owed)
  <2>1. Outstanding \in Int
    BY <1>2, OnePortFacts DEF Contents, MoreTypes, Endpoint, Outstanding
  <2>2. One(1 \in control) \in {0, 1}
    BY DEF One
  <2> QED
    BY <2>1, <2>2, OwedFinite, OnePortFacts
<1>7. One(pc = "process") = 1 /\ One((pc = "process")') = 0
  BY <1>1 DEF One
<1>8. o + x + 1 + n = 2
  BY <1>2, <1>6, <1>7 DEF Conserved
<1>9. Outstanding <= 1
  BY <1>6, <1>8
<1>10. Contents' /\ Outstanding' = Outstanding + 1 /\ ep'[1].on = ep[1].on
  BY <1>2, <1>5, <1>9, QueueKeepsContents, OnePortFacts DEF KbdInv, After
<1>11. \A s \in Slot : ep'[s].on = ep[s].on
  <2>1. ep' = [ep EXCEPT ![1] = [ep[1] EXCEPT !.bell = TRUE]]
    BY <1>2, <1>5 DEF QueueTransfer, After
  <2>2. \A s \in Slot \ {1} : ep'[s] = ep[s]
    BY <2>1, OnePortFacts DEF MoreTypes
  <2> QED
    BY <1>10, <2>2
<1>12. Conserved'
  <2>1. Cardinality(Owed') = n
    BY <1>3, <1>6 DEF Owed, Unread, IsTransfer
  <2>2. One((1 \in control)') = x
    BY <1>3, <1>6
  <2> QED
    BY <1>6, <1>7, <1>8, <1>10, <2>1, <2>2 DEF Conserved
<1>13. After'
  BY <1>1, <1>2, <1>3, <1>10 DEF After
<1>14. OneSlot'
  BY <1>1, <1>3, <1>11, OnePortFacts DEF OneSlot, Posted, IsCommand, IsTransfer
<1>15. InTurn'
  BY <1>1 DEF InTurn
<1> QED
  BY <1>1, <1>3, <1>10, <1>12, <1>13, <1>14, <1>15 DEF OnePort

-----------------------------------------------------------------------------
(* The controller of one port.                                             *)

\* What an event that is no completion leaves as it was.
LEMMA PostKeepsOrder ==
  ASSUME KbdInv, ports = 1, NEW e, Post(e), e.type # "command",
         e.type = "transfer" => e.slot = 1,
         UNCHANGED << taken, cmds, executed, pc, portNo, stage, slotId, ev, kbdSlot >>,
         control' \subseteq control, \A s \in Slot : ep'[s].on = ep[s].on
  PROVE  OneSlot' /\ InTurn'
<1> DEFINE n == Len(posted) + 1
<1>1. /\ Posted' = Posted \cup {n} /\ Unread' = Unread \cup {n}
      /\ posted'[n] = e /\ \A i \in Posted : posted'[i] = posted[i]
      /\ Unread \subseteq Posted
  BY PostedGrows, OnePortFacts
<1> HIDE DEF n
<1>2. \A i \in Posted' : IsCommand(i)' => i \in Posted /\ IsCommand(i)
  BY <1>1 DEF IsCommand
<1>3. \A i \in Unread' : IsCommand(i)' => i \in Unread /\ IsCommand(i)
  BY <1>1 DEF IsCommand
<1>4. \A i \in Posted' : IsTransfer(i)' => posted'[i].slot = 1
  BY <1>1, OnePortFacts DEF IsTransfer, OneSlot
<1>5. OneSlot'
  BY <1>1, <1>2, <1>4, OnePortFacts DEF OneSlot
<1>6. NoneUnread => NoneUnread'
  BY <1>3 DEF NoneUnread
<1>7. InTurn'
  <2>1. pc = "wait" /\ stage = "configure" =>
          \A i \in Unread' : IsCommand(i)' /\ posted'[i].code = Success => ep'[1].on
    BY <1>1, <1>3, OnePortFacts DEF InTurn
  <2>2. pc = "wait" => \A i \in Unread' : IsCommand(i)' => posted'[i].about = Len(cmds)
    BY <1>1, <1>3, OnePortFacts DEF InTurn
  <2>3. ep'[1].on = ep[1].on
    BY OnePortFacts
  <2> QED
    BY <1>6, <2>1, <2>2, <2>3, OnePortFacts DEF InTurn
<1> QED
  BY <1>5, <1>7

LEMMA ChangeStep ==
  ASSUME KbdInv, ports = 1, PortChange
  PROVE  OnePort'
<1>1. PICK e : Post(e) /\ e.type = "port"
  BY DEF PortChange, event
<1>2. UNCHANGED << cmds, executed, ep1, ep1Enq, ep1Cycle, queued, ep, control, kbdSlot,
                   configured, pc, portNo, stage, slotId, ev, taken >>
  BY DEF PortChange, commands, ep1ring, kbd, locals
<1>3. OneSlot' /\ InTurn'
  BY <1>1, <1>2, PostKeepsOrder
<1>4. CASE configured
  <2>1. After /\ Conserved /\ Contents
    BY <1>4 DEF KbdInv, OnePort
  <2>2. After' /\ Contents' /\ Outstanding' = Outstanding
    BY <1>2, <2>1 DEF After, Contents, At, Lap, Outstanding
  <2>3. Cardinality(Owed') = Cardinality(Owed)
    <3>1. One(e.type = "transfer") = 0
      BY <1>1 DEF One
    <3>2. Cardinality(Owed) \in Nat
      BY OwedFinite, OnePortFacts
    <3> QED
      BY <1>1, <1>2, <3>1, <3>2, OwedGrows, OnePortFacts
  <2>4. Conserved'
    BY <1>2, <2>1, <2>2, <2>3 DEF Conserved
  <2> QED
    BY <1>2, <1>3, <1>4, <2>2, <2>4 DEF OnePort
<1>5. CASE ~configured
  <2>1. Before
    BY <1>5 DEF KbdInv, OnePort
  <2>2. \A i \in Posted' : ~IsTransfer(i)'
    BY <1>1, <1>2, <2>1, PostedGrows, OnePortFacts DEF Before, IsTransfer
  <2>3. Before'
    BY <1>2, <2>1, <2>2 DEF Before
  <2> QED
    BY <1>2, <1>3, <1>5, <2>3 DEF OnePort
<1> QED
  BY <1>4, <1>5

LEMMA FinishStep ==
  ASSUME KbdInv, ports = 1, NEW s \in Slot, NEW code, FinishControl(s, code)
  PROVE  OnePort'
<1>1. s \in control /\ control' = control \ {s}
  BY DEF FinishControl
<1>2. s = 1 /\ configured
  BY <1>1, OnePortFacts DEF OneSlot, KbdInv, OnePort, Before
<1>3. PICK e : Post(e) /\ e.type = "transfer" /\ e.slot = 1
  BY <1>2 DEF FinishControl, event
<1>4. UNCHANGED << cmds, executed, ep1, ep1Enq, ep1Cycle, queued, ep, kbdSlot,
                   configured, pc, portNo, stage, slotId, ev, taken >>
  BY DEF FinishControl, commands, ep1ring, kbd, locals
<1>5. OneSlot' /\ InTurn'
  BY <1>1, <1>3, <1>4, PostKeepsOrder
<1>6. After /\ Conserved /\ Contents
  BY <1>2 DEF KbdInv, OnePort
<1>7. After' /\ Contents' /\ Outstanding' = Outstanding
  BY <1>4, <1>6 DEF After, Contents, At, Lap, Outstanding
<1>8. Cardinality(Owed') = Cardinality(Owed) + 1
  <2>1. One(e.type = "transfer") = 1
    BY <1>3 DEF One
  <2> QED
    BY <1>3, <1>4, <2>1, OwedGrows, OnePortFacts
<1>9. Conserved'
  <2>1. One(1 \in control) = 1 /\ One((1 \in control)') = 0
    BY <1>1, <1>2 DEF One
  <2>2. One((pc = "process")') = One(pc = "process") /\ One(pc = "process") \in {0, 1}
    BY <1>4 DEF One
  <2>3. Cardinality(Owed) \in Nat
    BY OwedFinite, OnePortFacts
  <2>4. Outstanding \in Int
    BY <1>6, OnePortFacts DEF Contents, MoreTypes, Endpoint, Outstanding
  <2>5. PICK o \in Int, p \in {0, 1}, m \in Nat :
          o = Outstanding /\ p = One(pc = "process") /\ m = Cardinality(Owed)
    BY <2>2, <2>3, <2>4
  <2> QED
    BY <1>6, <1>7, <1>8, <2>1, <2>2, <2>5 DEF Conserved
<1> QED
  BY <1>2, <1>4, <1>5, <1>7, <1>9 DEF OnePort

LEMMA ReportStep ==
  ASSUME KbdInv, ports = 1, NEW s \in Slot, NEW code, SendReport(s, code)
  PROVE  OnePort'
<1>1. ep[s].on /\ ep[s].bell
  BY DEF SendReport
<1>2. s = 1 /\ configured
  BY <1>1, OnePortFacts DEF OneSlot, KbdInv, OnePort, Before
<1>3. PICK e : Post(e) /\ e.type = "transfer" /\ e.slot = 1
  BY <1>2 DEF SendReport, event
<1>4. UNCHANGED << cmds, executed, control, kbdSlot, configured, pc, portNo, stage, slotId,
                   ev, taken >>
  BY DEF SendReport, commands, kbd, locals
<1>5. After /\ Conserved /\ Contents
  BY <1>2 DEF KbdInv, OnePort
<1>6. PICK o \in Int, x \in {0, 1}, p \in {0, 1}, m \in Nat :
        /\ o = Outstanding /\ x = One(1 \in control) /\ p = One(pc = "process")
        /\ m = Cardinality(Owed)
  <2>1. Outstanding \in Int
    BY <1>5, OnePortFacts DEF Contents, MoreTypes, Endpoint, Outstanding
  <2>2. One(1 \in control) \in {0, 1} /\ One(pc = "process") \in {0, 1}
    BY DEF One
  <2> QED
    BY <2>1, <2>2, OwedFinite, OnePortFacts
<1>7. o + x + p + m = 2
  BY <1>5, <1>6 DEF Conserved
<1>8. /\ Contents' /\ Outstanding' = o - 1 /\ ep'[1].on = ep[1].on
      /\ \A t \in Slot \ {1} : ep'[t] = ep[t]
  BY <1>2, <1>5, <1>6, <1>7, SendKeepsContents, OnePortFacts DEF KbdInv
<1>9. OneSlot' /\ InTurn'
  <2>1. \A t \in Slot : ep'[t].on = ep[t].on
    BY <1>8
  <2> QED
    BY <1>3, <1>4, <2>1, PostKeepsOrder
<1>10. After'
  BY <1>4, <1>5, <1>8 DEF After
<1>11. Conserved'
  <2>1. One(e.type = "transfer") = 1
    BY <1>3 DEF One
  <2>2. Cardinality(Owed') = m + 1
    BY <1>3, <1>4, <1>6, <2>1, OwedGrows, OnePortFacts
  <2>3. One((1 \in control)') = x /\ One((pc = "process")') = p
    BY <1>4, <1>6
  <2> QED
    BY <1>6, <1>7, <1>8, <2>2, <2>3 DEF Conserved
<1> QED
  BY <1>2, <1>4, <1>8, <1>9, <1>10, <1>11 DEF OnePort

LEMMA ExecuteStep ==
  ASSUME KbdInv, ports = 1, NEW code \in {Success, OtherCode}, Execute(code)
  PROVE  OnePort'
<1> DEFINE c == cmds[executed + 1]
           enabling == c.op = "enable" /\ code = Success
           s == IF enabling THEN given + 1 ELSE c.slot
<1>1. executed < Len(cmds) /\ executed' = executed + 1
  BY DEF Execute
<1>2. ~configured /\ Before
  BY <1>1, OnePortFacts DEF KbdInv, OnePort, After
<1>3. UNCHANGED << cmds, ep1, ep1Enq, ep1Cycle, queued, control, kbdSlot,
                   configured, pc, portNo, stage, slotId, ev, taken >>
  BY DEF Execute, ep1ring, kbd, locals
<1>4. executed + 1 \in 1 .. Len(cmds) /\ c \in Command
  <2>1. executed + 1 \in 1 .. Len(cmds)
    BY <1>1, OnePortFacts
  <2> QED
    BY <2>1, ElementOfSeq, OnePortFacts
<1>5. code = Success => s = 1
  <2>1. enabling => given < ports
    BY DEF Execute
  <2>2. given \in Nat
    BY DEF KbdInv, Inv, Types, CommandTypes
  <2>3. c.op # "enable" => c.slot = 1
    BY <1>4, OnePortFacts DEF OneSlot
  <2> QED
    BY <2>1, <2>2, <2>3
<1>6. /\ Post(event("command", s, code, executed + 1))
      /\ ep' = IF c.op = "configure" /\ code = Success
               THEN [ep EXCEPT ![s] = FreshEndpoint] ELSE ep
  BY DEF Execute
<1>7. PICK e : /\ Post(e) /\ e.type = "command" /\ e.slot = s /\ e.code = code
               /\ e.about = executed + 1
  BY <1>6 DEF event
<1> HIDE DEF s, enabling, c
<1>8. /\ ep'[1].on <=> ep[1].on \/ (c.op = "configure" /\ code = Success)
      /\ \A t \in Slot \ {1} : ep'[t] = ep[t]
      /\ ep'[1] \in {ep[1], FreshEndpoint}
  BY <1>5, <1>6, OnePortFacts DEF MoreTypes, FreshEndpoint
<1>9. Before'
  <2>1. \A i \in Posted' : ~IsTransfer(i)'
    BY <1>2, <1>3, <1>7, PostedGrows, OnePortFacts DEF Before, IsTransfer
  <2>2. \A t \in Slot : ~ep'[t].bell /\ ep'[t].deq = 0 /\ ep'[t].cycle = 1 /\ ep'[t].used = 0
    BY <1>2, <1>8 DEF Before, FreshEndpoint
  <2> QED
    BY <1>2, <1>3, <2>1, <2>2 DEF Before
<1> DEFINE n == Len(posted) + 1
<1>10. /\ Posted' = Posted \cup {n} /\ Unread' = Unread \cup {n}
       /\ posted'[n] = e /\ \A i \in Posted : posted'[i] = posted[i]
       /\ Unread \subseteq Posted
  BY <1>3, <1>7, PostedGrows, OnePortFacts
<1> HIDE DEF n
<1>11. OneSlot'
  <2>1. \A i \in Posted' : IsCommand(i)' /\ posted'[i].code = Success => posted'[i].slot = 1
    BY <1>5, <1>7, <1>10, OnePortFacts DEF OneSlot, IsCommand
  <2>2. \A i \in Posted' : IsTransfer(i)' => posted'[i].slot = 1
    BY <1>9 DEF Before
  <2>3. \A t \in Slot : ep'[t].on => t = 1
    BY <1>8, OnePortFacts DEF OneSlot
  <2> QED
    BY <1>2, <1>3, <2>1, <2>2, <2>3, OnePortFacts DEF OneSlot, Before
<1>12. InTurn'
  <2>1. ~(pc \in {"init", "scan", "flush"} /\ portNo = 1)
    BY <1>1, OnePortFacts DEF InTurn
  <2>2. pc \notin {"send", "handle"}
    BY <1>1, OnePortFacts DEF InTurn
  <2>3. ASSUME pc = "wait"
        PROVE  /\ Len(cmds) = executed + 1 /\ Len(cmds) > 0 /\ c.op = stage /\ cmds[Len(cmds)].op = stage
               /\ \A i \in Unread : IsCommand(i) => posted[i].about = Len(cmds)
    BY <1>1, <2>3, OnePortFacts DEF InTurn, c
  <2>4. ASSUME pc = "wait"
        PROVE  \A i \in Unread' : IsCommand(i)' => posted'[i].about = Len(cmds)
    BY <1>7, <1>10, <2>3, <2>4 DEF IsCommand
  <2>5. ASSUME pc = "wait", stage = "configure"
        PROVE  \A i \in Unread' : IsCommand(i)' /\ posted'[i].code = Success => ep'[1].on
    <3> SUFFICES ASSUME NEW i \in Unread', IsCommand(i)', posted'[i].code = Success
                 PROVE  ep'[1].on
      OBVIOUS
    <3>1. CASE i = n
      BY <1>7, <1>8, <1>10, <2>3, <2>5, <3>1
    <3>2. CASE i \in Unread
      BY <1>8, <1>10, <2>5, <3>2, OnePortFacts DEF InTurn, IsCommand
    <3> QED
      BY <1>10, <3>1, <3>2
  <2> QED
    BY <1>1, <1>3, <2>1, <2>2, <2>3, <2>4, <2>5 DEF InTurn
<1> QED
  BY <1>2, <1>3, <1>9, <1>11, <1>12 DEF OnePort

-----------------------------------------------------------------------------
(* Theorems.                                                               *)

LEMMA KbdInvStep ==
  ASSUME KbdInv, [Next]_vars
  PROVE  KbdInv'
<1>1. Inv'
  BY InvStep DEF KbdInv
<1>2. CASE UNCHANGED vars
  <2>1. MoreTypes' /\ Completions'
    BY <1>2 DEF KbdInv, vars, commands, ep1ring, MoreTypes, Completions, Posted, IsCommand
  <2>2. OneSlot => OneSlot'
    BY <1>2 DEF vars, commands, kbd, locals, OneSlot, Posted, IsCommand, IsTransfer
  <2>3. InTurn => InTurn'
    BY <1>2 DEF vars, commands, kbd, locals, InTurn, NoneUnread, Unread, IsCommand
  <2>4. After /\ Conserved /\ Contents => After' /\ Conserved' /\ Contents'
    BY <1>2 DEF vars, commands, kbd, locals, ep1ring, After, Conserved, Contents, Outstanding,
       At, Lap, Owed, Unread, IsTransfer
  <2>5. Before => Before'
    BY <1>2 DEF vars, ep1ring, Before, Posted, IsTransfer
  <2>6. ports' = ports /\ configured' = configured
    BY <1>2 DEF vars, commands, kbd
  <2> QED
    BY <1>1, <2>1, <2>2, <2>3, <2>4, <2>5, <2>6 DEF KbdInv, OnePort
<1>3. CASE Next
  <2>1. MoreTypes' /\ Completions'
    BY <1>3, MoreTypesStep, CompletionsStep DEF KbdInv
  <2>2. ports' = ports
    BY <1>3 DEF Next, Driver, Controller, StartController, ScanPort, FlushEvent, SendCommand,
       WaitCommand, SlotEnabled, DeviceAddressed, EndpointConfigured, PollEvent, ProcessEvent,
       Execute, FinishControl, SendReport, PortChange, commands
  <2>3. ports = 1 => OnePort'
    BY <1>3, StartAndScan, FlushStep, SendStep, WaitStep, SlotAndAddress, ConfiguredStep,
       PollStep, ProcessStep, ChangeStep, FinishStep, ReportStep, ExecuteStep
    DEF Next, Driver, Controller
  <2> QED
    BY <1>1, <2>1, <2>2, <2>3 DEF KbdInv
<1> QED
  BY <1>2, <1>3

LEMMA KbdInvHolds == Spec => []KbdInv
<1>1. KbdInv /\ [Next]_vars => KbdInv'
  BY KbdInvStep
<1> QED
  BY <1>1, KbdInvInit, PTL DEF Spec

LEMMA OutstandingBounds ==
  ASSUME KbdInv, ports = 1, configured
  PROVE  /\ After /\ Contents
         /\ Outstanding \in 0 .. 2
         /\ Outstanding = 0 => pc = "process" \/ Owed # {}
<1>1. After /\ Conserved /\ Contents
  BY DEF KbdInv, OnePort
<1>2. Outstanding \in Int /\ Outstanding >= 0
  BY <1>1, OnePortFacts DEF Contents, MoreTypes, Endpoint, Outstanding
<1>3. One(1 \in control) \in {0, 1} /\ One(pc = "process") \in {0, 1}
  BY DEF One
<1>4. Cardinality(Owed) \in Nat
  BY OwedFinite, OnePortFacts
<1>5. PICK o \in Int, x \in {0, 1}, p \in {0, 1}, m \in Nat :
        /\ o = Outstanding /\ x = One(1 \in control) /\ p = One(pc = "process")
        /\ m = Cardinality(Owed)
  BY <1>2, <1>3, <1>4
<1>6. o + x + p + m = 2
  BY <1>1, <1>5 DEF Conserved
<1>7. Outstanding \in 0 .. 2
  BY <1>2, <1>5, <1>6
<1>8. ASSUME Outstanding = 0, pc # "process" PROVE Owed # {}
  <2>1. p = 0
    BY <1>5, <1>8 DEF One
  <2>2. m # 0
    BY <1>5, <1>6, <1>8, <2>1
  <2> QED
    BY <1>5, <2>2, FS_EmptySet
<1> QED
  BY <1>1, <1>7, <1>8

\* With one port, the cycle bits and the Link TRB written by
\* xhci_queue_kbd_transfer show the controller the transfers that are
\* outstanding and no others, on every lap of the ring.
THEOREM TransfersStayVisible == Spec => []TransfersVisible
<1>1. KbdInv => TransfersVisible
  <2> SUFFICES ASSUME KbdInv, ports = 1, configured PROVE TransfersVisible
    BY DEF TransfersVisible
  <2>1. After /\ Contents /\ Outstanding \in 0 .. 2 /\ Inv /\ MoreTypes
    BY OutstandingBounds DEF KbdInv
  <2>2. kbdSlot = 1
    BY <2>1 DEF After
  <2>3. PICK at : at = Where(ep[1].deq, ep[1].cycle)
    OBVIOUS
  <2>4. ASSUME NEW k \in 0 .. Usable - 1
        PROVE  (/\ at[1] # Usable
                /\ ep1[(at[1] + k) % Usable]
                     = trb("normal", IF at[1] + k < Usable THEN at[2] ELSE 1 - at[2]))
               <=> k < queued - ep[1].used
    BY <2>1, <2>2, <2>3, ContentsVisible DEF Outstanding
  <2> QED
    BY <2>2, <2>3, <2>4 DEF TransfersVisible
<1> QED
  BY <1>1, KbdInvHolds, PTL

\* With one port, a configured keyboard always has a transfer for its next
\* report, or usb_kbd_poll is about to queue one: SET_PROTOCOL and each
\* report lead to one more, so that two are always under way.
THEOREM KeyboardStaysArmed == Spec => []KeyboardArmed
<1>1. KbdInv => KeyboardArmed
  <2> SUFFICES ASSUME KbdInv, ports = 1, configured PROVE KeyboardArmed
    BY DEF KeyboardArmed
  <2>1. After /\ Outstanding \in 0 .. 2
        /\ (Outstanding = 0 => pc = "process" \/ Owed # {})
    BY OutstandingBounds
  <2>2. kbdSlot = 1 /\ ep[1].on
    BY <2>1 DEF After
  <2>3. pc = "process" => Requeues(ev)
    BY <2>2, OnePortFacts DEF OneSlot, Requeues
  <2>4. \A i \in Owed : i \in Unread /\ Requeues(posted[i])
    BY <2>2, OnePortFacts DEF OneSlot, Requeues, Owed, IsTransfer
  <2>5. Outstanding # 0 => queued > ep[1].used
    BY <2>1, OnePortFacts DEF Outstanding, MoreTypes, Endpoint
  <2> QED
    BY <2>1, <2>2, <2>3, <2>4, <2>5 DEF KeyboardArmed
<1> QED
  BY <1>1, KbdInvHolds, PTL
=============================================================================
