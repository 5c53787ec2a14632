------------------------ MODULE KeyboardInput_proofs ------------------------
(***************************************************************************)
(* What is proved about KeyboardInput: types, the order of characters with *)
(* interrupts off, and that the interrupt handler only appends, for every  *)
(* size of the ring, every set of keys and reports, and every number of    *)
(* scancodes.                                                              *)
(***************************************************************************)
EXTENDS KeyboardInput, SequenceTheorems, TLAPS

-----------------------------------------------------------------------------
(* Indices of the ring.                                                    *)

\* Remainders of the numbers that indices are computed from.
LEMMA Remainder ==
  ASSUME NEW a \in (-RingSize) .. 2 * RingSize - 1
  PROVE  a % RingSize = IF a < 0 THEN a + RingSize
                        ELSE IF a < RingSize THEN a ELSE a - RingSize
<1>1. RingSize \in Nat \ {0, 1}
  BY KeyboardAssumption
<1>2. CASE a < 0
  BY <1>1, <1>2
<1>3. CASE 0 <= a /\ a < RingSize
  BY <1>1, <1>3
<1>4. CASE RingSize <= a
  BY <1>1, <1>4
<1> QED
  BY <1>1, <1>2, <1>3, <1>4

\* The next index is the one above, or 0 behind the last one.
LEMMA SuccIs ==
  ASSUME NEW i \in Slot
  PROVE  /\ Succ(i) \in Slot
         /\ Succ(i) = IF i = RingSize - 1 THEN 0 ELSE i + 1
<1>1. RingSize \in Nat \ {0, 1}
  BY KeyboardAssumption
<1>2. i + 1 \in (-RingSize) .. 2 * RingSize - 1
  BY <1>1 DEF Slot
<1> QED
  BY <1>1, <1>2, Remainder DEF Succ, Slot

\* How many characters lie between two indices.
Dist(h, t) == (h - t) % RingSize

LEMMA DistIs ==
  ASSUME NEW h \in Slot, NEW t \in Slot
  PROVE  /\ Dist(h, t) \in 0 .. RingSize - 1
         /\ Dist(h, t) = IF h < t THEN h - t + RingSize ELSE h - t
<1>1. RingSize \in Nat \ {0, 1}
  BY KeyboardAssumption
<1>2. h - t \in (-RingSize) .. 2 * RingSize - 1
  BY <1>1 DEF Slot
<1> QED
  BY <1>1, <1>2, Remainder DEF Dist, Slot

\* The slot of the i-th unread character.
Place(t, i) == (t + i - 1) % RingSize

LEMMA PlaceIs ==
  ASSUME NEW t \in Slot, NEW i \in 1 .. RingSize
  PROVE  /\ Place(t, i) \in Slot
         /\ Place(t, i) = IF t + i - 1 < RingSize THEN t + i - 1
                          ELSE t + i - 1 - RingSize
<1>1. RingSize \in Nat \ {0, 1}
  BY KeyboardAssumption
<1>2. t + i - 1 \in (-RingSize) .. 2 * RingSize - 1
  BY <1>1 DEF Slot
<1> QED
  BY <1>1, <1>2, Remainder DEF Place, Slot

-----------------------------------------------------------------------------
(* What the ring holds.                                                    *)

Items(h, t, b) == [i \in 1 .. Dist(h, t) |-> b[Place(t, i)]]

LEMMA UnreadIsItems == Unread = Items(head, tail, buf)
  BY DEF Unread, Items, Dist, Place

LEMMA ItemsIsSeq ==
  ASSUME NEW h \in Slot, NEW t \in Slot, NEW b \in [Slot -> Chars]
  PROVE  /\ Items(h, t, b) \in Seq(Chars)
         /\ Len(Items(h, t, b)) = Dist(h, t)
<1>1. Dist(h, t) \in Nat /\ Dist(h, t) < RingSize /\ RingSize \in Nat
  BY DistIs, KeyboardAssumption
<1>2. \A i \in 1 .. Dist(h, t) : b[Place(t, i)] \in Chars
  <2> SUFFICES ASSUME NEW i \in 1 .. Dist(h, t) PROVE b[Place(t, i)] \in Chars
    OBVIOUS
  <2>1. i \in 1 .. RingSize
    BY <1>1
  <2> QED
    BY <2>1, PlaceIs
<1>3. Items(h, t, b) \in Seq(Chars)
  BY <1>1, <1>2, IsASeq DEF Items
<1> QED
  BY <1>1, <1>3, LenProperties DEF Items

\* Storing into the free slot leaves the unread characters as they are.
LEMMA StoreIsUnseen ==
  ASSUME NEW h \in Slot, NEW t \in Slot, NEW b \in [Slot -> Chars], NEW c \in Chars
  PROVE  Items(h, t, [b EXCEPT ![h] = c]) = Items(h, t, b)
<1>1. RingSize \in Nat \ {0, 1}
  BY KeyboardAssumption
<1>2. \A i \in 1 .. Dist(h, t) : Place(t, i) \in Slot /\ Place(t, i) # h
  <2> SUFFICES ASSUME NEW i \in 1 .. Dist(h, t)
               PROVE  Place(t, i) \in Slot /\ Place(t, i) # h
    OBVIOUS
  <2>1. i \in 1 .. RingSize
    BY <1>1, DistIs
  <2>2. Place(t, i) = IF t + i - 1 < RingSize THEN t + i - 1 ELSE t + i - 1 - RingSize
    BY <2>1, PlaceIs
  <2>3. Dist(h, t) = IF h < t THEN h - t + RingSize ELSE h - t
    BY DistIs
  <2> QED
    BY <1>1, <2>1, <2>2, <2>3, PlaceIs DEF Slot
<1>3. \A i \in 1 .. Dist(h, t) : [b EXCEPT ![h] = c][Place(t, i)] = b[Place(t, i)]
  BY <1>2
<1> QED
  BY <1>3 DEF Items

\* Publishing the slot behind the unread characters appends what it holds.
LEMMA PublishAppends ==
  ASSUME NEW h \in Slot, NEW t \in Slot, NEW b \in [Slot -> Chars], Succ(h) # t
  PROVE  Items(Succ(h), t, b) = Append(Items(h, t, b), b[h])
<1>1. RingSize \in Nat \ {0, 1}
  BY KeyboardAssumption
<1>2. Succ(h) \in Slot /\ Succ(h) = IF h = RingSize - 1 THEN 0 ELSE h + 1
  BY SuccIs
<1>3. Dist(h, t) = IF h < t THEN h - t + RingSize ELSE h - t
  BY DistIs
<1>4. Dist(Succ(h), t) = IF Succ(h) < t THEN Succ(h) - t + RingSize ELSE Succ(h) - t
  BY <1>2, DistIs
<1>5. Dist(Succ(h), t) = Dist(h, t) + 1
  BY <1>1, <1>2, <1>3, <1>4 DEF Slot
<1>6. Dist(h, t) \in Nat /\ Dist(h, t) + 1 \in 1 .. RingSize
  BY <1>1, DistIs
<1>7. Place(t, Dist(h, t) + 1) = h
  <2>1. Place(t, Dist(h, t) + 1) =
          IF t + (Dist(h, t) + 1) - 1 < RingSize THEN t + (Dist(h, t) + 1) - 1
          ELSE t + (Dist(h, t) + 1) - 1 - RingSize
    BY <1>6, PlaceIs
  <2> QED
    BY <1>1, <1>3, <2>1 DEF Slot
<1>8. Items(h, t, b) \in Seq(Chars) /\ Len(Items(h, t, b)) = Dist(h, t)
  BY ItemsIsSeq
<1> DEFINE new == Append(Items(h, t, b), b[h])
<1>9. new \in Seq(Chars) /\ Len(new) = Dist(h, t) + 1
  BY <1>8, AppendProperties
<1>10. \A i \in 1 .. Dist(h, t) + 1 : new[i] = b[Place(t, i)]
  <2> SUFFICES ASSUME NEW i \in 1 .. Dist(h, t) + 1 PROVE new[i] = b[Place(t, i)]
    OBVIOUS
  <2>1. CASE i = Dist(h, t) + 1
    BY <1>7, <1>8, <2>1, AppendProperties
  <2>2. CASE i # Dist(h, t) + 1
    <3>1. i \in 1 .. Dist(h, t)
      BY <1>6, <2>2
    <3>2. new[i] = Items(h, t, b)[i]
      BY <1>8, <3>1, AppendProperties
    <3> QED
      BY <3>1, <3>2 DEF Items
  <2> QED
    BY <2>1, <2>2
<1>11. Items(Succ(h), t, b) \in Seq(Chars) /\ Len(Items(Succ(h), t, b)) = Dist(h, t) + 1
  BY <1>2, <1>5, ItemsIsSeq
<1>12. \A i \in 1 .. Dist(h, t) + 1 : Items(Succ(h), t, b)[i] = b[Place(t, i)]
  BY <1>5 DEF Items
<1> HIDE DEF new
<1>13. new = Items(Succ(h), t, b)
  BY <1>9, <1>10, <1>11, <1>12, SeqEqual
<1> QED
  BY <1>13 DEF new

\* Advancing the tail removes the oldest unread character.
LEMMA TakeRemoves ==
  ASSUME NEW h \in Slot, NEW t \in Slot, NEW b \in [Slot -> Chars], h # t
  PROVE  Items(h, t, b) = << b[t] >> \o Items(h, Succ(t), b)
<1>1. RingSize \in Nat \ {0, 1}
  BY KeyboardAssumption
<1>2. Succ(t) \in Slot /\ Succ(t) = IF t = RingSize - 1 THEN 0 ELSE t + 1
  BY SuccIs
<1>3. Dist(h, t) = IF h < t THEN h - t + RingSize ELSE h - t
  BY DistIs
<1>4. Dist(h, Succ(t)) = IF h < Succ(t) THEN h - Succ(t) + RingSize ELSE h - Succ(t)
  BY <1>2, DistIs
<1>5. Dist(h, t) = Dist(h, Succ(t)) + 1
  BY <1>1, <1>2, <1>3, <1>4 DEF Slot
<1>6. Dist(h, Succ(t)) \in Nat /\ Dist(h, Succ(t)) < RingSize
  BY <1>1, <1>2, DistIs
<1> DEFINE rest == Items(h, Succ(t), b)
           all  == << b[t] >> \o rest
<1>7. rest \in Seq(Chars) /\ Len(rest) = Dist(h, Succ(t))
  BY <1>2, ItemsIsSeq
<1>8. << b[t] >> \in Seq(Chars) /\ Len(<< b[t] >>) = 1 /\ << b[t] >>[1] = b[t]
  OBVIOUS
<1> HIDE DEF rest
<1>9. all \in Seq(Chars) /\ Len(all) = Dist(h, t)
  BY <1>5, <1>6, <1>7, <1>8, ConcatProperties
<1>10. \A i \in 1 .. Dist(h, t) : all[i] = b[Place(t, i)]
  <2> SUFFICES ASSUME NEW i \in 1 .. Dist(h, t) PROVE all[i] = b[Place(t, i)]
    OBVIOUS
  <2>1. i \in 1 .. RingSize
    BY <1>5, <1>6, <1>1
  <2>2. Place(t, i) = IF t + i - 1 < RingSize THEN t + i - 1 ELSE t + i - 1 - RingSize
    BY <2>1, PlaceIs
  <2>3. CASE i = 1
    <3>1. Place(t, 1) = t
      BY <1>1, <2>2, <2>3 DEF Slot
    <3>2. all[1] = b[t]
      BY <1>6, <1>7, <1>8, ConcatProperties
    <3> QED
      BY <2>3, <3>1, <3>2
  <2>4. CASE i # 1
    <3>1. i - 1 \in 1 .. Dist(h, Succ(t)) /\ i - 1 \in 1 .. RingSize
      BY <1>5, <1>6, <1>1, <2>4
    <3>2. Place(Succ(t), i - 1) =
            IF Succ(t) + (i - 1) - 1 < RingSize THEN Succ(t) + (i - 1) - 1
            ELSE Succ(t) + (i - 1) - 1 - RingSize
      BY <1>2, <3>1, PlaceIs
    <3>3. Place(Succ(t), i - 1) = Place(t, i)
      BY <1>1, <1>2, <2>1, <2>2, <2>4, <3>2 DEF Slot
    <3>4. rest[i - 1] = b[Place(t, i)]
      BY <3>1, <3>3 DEF Items, rest
    <3>5. all[i] = rest[i - 1]
      BY <1>6, <1>7, <1>8, <3>1, ConcatProperties
    <3> QED
      BY <3>4, <3>5
  <2> QED
    BY <2>3, <2>4
<1>11. Items(h, t, b) \in Seq(Chars) /\ Len(Items(h, t, b)) = Dist(h, t)
  BY ItemsIsSeq
<1>12. \A i \in 1 .. Dist(h, t) : Items(h, t, b)[i] = b[Place(t, i)]
  BY DEF Items
<1> HIDE DEF all
<1>13. all = Items(h, t, b)
  BY <1>9, <1>10, <1>11, <1>12, SeqEqual
<1> QED
  BY <1>13 DEF all, rest
-----------------------------------------------------------------------------
(* Types.                                                                  *)

RingTypes ==
  /\ head \in Slot /\ tail \in Slot /\ nxt \in Slot
  /\ buf \in [Slot -> Chars] /\ chr \in Chars

ModTypes == shift \in BOOLEAN /\ caps \in BOOLEAN /\ numlock \in BOOLEAN

ReaderTypes ==
  /\ pc \in Steps /\ then \in {"report", "empty", "status"}
  /\ budget \in 0 .. PollEvents

\* The bytes and reports on their way, and the report being decoded.
QueueTypes ==
  /\ kbc \in Seq(Scancodes) /\ last \in Scancodes
  /\ usbq \in Seq(Reports) /\ rep \in Reports
  /\ rep.shift \in BOOLEAN /\ rep.keys \in Seq(Keys) /\ todo \in Seq(Keys)

\* What AL holds at the steps that use it.
AlTypes ==
  /\ pc = "decode" => acc[2] \in Scancodes
  /\ pc \in {"capsStore", "numStore"} => acc[2] \in BOOLEAN
  /\ pc \in {"nextStore", "tailStore"} => acc[2] \in Slot

Types == intOn \in BOOLEAN /\ RingTypes /\ ModTypes /\ ReaderTypes /\ QueueTypes /\ AlTypes

LEMMA CharIsChar ==
  ASSUME NEW sc \in Scancodes
  PROVE  Char(sc) \in Chars
<1>1. sc.key \in Keys
  BY KeyboardAssumption DEF Scancodes, Keys
<1> QED
  BY <1>1 DEF Char, Decoded, Chars

LEMMA BytesAreScancodes ==
  /\ \A k \in {"break", "shiftDown", "shiftUp", "caps", "num", "pad", "ack"} :
       byte(k) \in Scancodes
  /\ [kind |-> "make", key |-> EoiKey] \in Scancodes
BY KeyboardAssumption DEF byte, Scancodes, Keys

LEMMA AlAfterEoiTyped ==
  ASSUME AlTypes, acc' = AlAfterEoi, pc' = pc
  PROVE  AlTypes'
BY BytesAreScancodes, KeyboardAssumption DEF AlTypes, AlAfterEoi, bit, index, code

LEMMA TypesInit == Init => Types
<1> SUFFICES ASSUME Init PROVE Types
  OBVIOUS
<1>1. RingSize \in Nat \ {0, 1} /\ PollEvents \in Nat \ {0} /\ EoiKey \in Letters
  BY KeyboardAssumption
<1>2. 0 \in Slot
  BY <1>1 DEF Slot
<1>3. None \in Chars
  BY <1>1 DEF None, Chars, Keys
<1>4. intOn \in BOOLEAN /\ RingTypes
  BY <1>2, <1>3 DEF Init, RingTypes
<1>5. ModTypes
  BY DEF Init, ModTypes
<1>6. pc \in Steps /\ then \in {"report", "empty", "status"}
  BY DEF Init, Steps
<1>7. budget \in 0 .. PollEvents
  BY <1>1 DEF Init
<1>8. QueueTypes
  BY BytesAreScancodes, KeyboardAssumption DEF Init, QueueTypes, Released
<1>9. AlTypes
  BY DEF Init, AlTypes
<1> QED
  BY <1>4, <1>5, <1>6, <1>7, <1>8, <1>9 DEF Types, ReaderTypes

\* The handler, and what it may do to the ring.
LEMMA Irq1Types ==
  ASSUME Types, Irq1
  PROVE  Types'
<1>1. RingTypes /\ ModTypes /\ QueueTypes /\ intOn \in BOOLEAN
  BY DEF Types
<1>2. AlTypes'
  BY AlAfterEoiTyped DEF Types, Irq1
<1>3. UNCHANGED << intOn, usb, pc, nxt, chr, then, rep, todo, budget >>
  BY DEF Irq1
<1>4. CASE kbc = <<>>
  BY <1>1, <1>2, <1>3, <1>4
  DEF Irq1, Types, RingTypes, ModTypes, ReaderTypes, QueueTypes, mods, ring, usb
<1>5. CASE kbc # <<>>
  <2> DEFINE sc == Head(kbc)
             leds == IF sc.kind \in {"caps", "num"}
                     THEN << byte("ack"), byte("ack") >> ELSE <<>>
  <2>1. sc \in Scancodes /\ Tail(kbc) \in Seq(Scancodes)
    BY <1>1, <1>5, HeadTailProperties DEF QueueTypes
  <2>2. leds \in Seq(Scancodes)
    BY BytesAreScancodes
  <2>3. kbc' = Tail(kbc) \o leds /\ last' = sc
    BY <1>5 DEF Irq1
  <2>4. kbc' \in Seq(Scancodes)
    <3> HIDE DEF leds
    <3> QED
      BY <2>1, <2>2, <2>3, ConcatProperties
  <2>5. QueueTypes'
    BY <1>1, <1>3, <2>1, <2>3, <2>4 DEF QueueTypes, usb
  <2>6. Char(sc) \in Chars /\ Succ(head) \in Slot
    BY <1>1, <2>1, CharIsChar, SuccIs DEF RingTypes
  <2>7. /\ head' \in {head, Succ(head)} /\ tail' = tail
        /\ buf' \in {buf, [buf EXCEPT ![head] = Char(sc)]}
    BY <1>5 DEF Irq1
  <2>8. RingTypes'
    BY <1>1, <1>3, <2>6, <2>7 DEF RingTypes
  <2>9. ModTypes'
    BY <1>1, <1>5 DEF Irq1, ModTypes
  <2> QED
    BY <1>1, <1>2, <1>3, <2>5, <2>8, <2>9 DEF Types, ReaderTypes
<1> QED
  BY <1>4, <1>5
\* The environment, and the interrupt of the timer.
LEMMA OutsideTypes ==
  ASSUME Types,
         \/ \E sc \in Scancodes : Type(sc)
         \/ \E r \in Reports : Report(r)
         \/ HoldShift \/ SameReport \/ Irq0 \/ UNCHANGED vars
  PROVE  Types'
<1>1. ASSUME NEW sc \in Scancodes, Type(sc) PROVE Types'
  <2>1. kbc' \in Seq(Scancodes)
    BY <1>1, AppendProperties DEF Type, Types, QueueTypes
  <2> QED
    BY <1>1, <2>1 DEF Type, Types, RingTypes, ModTypes, ReaderTypes, QueueTypes, AlTypes, Steps, vars, kbd, mods, ring, usb, regs, env, hist, Goto
<1>2. ASSUME NEW r \in Reports, Report(r) PROVE Types'
  <2>1. usbq' \in Seq(Reports)
    BY <1>2, AppendProperties DEF Report, Types, QueueTypes
  <2> QED
    BY <1>2, <2>1 DEF Report, Types, RingTypes, ModTypes, ReaderTypes, QueueTypes, AlTypes, Steps, vars, kbd, mods, ring, usb, regs, env, hist, Goto
<1>3. CASE Irq0
  <2>1. AlTypes'
    BY <1>3, AlAfterEoiTyped DEF Irq0, Types
  <2> QED
    BY <1>3, <2>1 DEF Irq0, Types, RingTypes, ModTypes, ReaderTypes, QueueTypes,
       kbd, mods, ring, usb
<1>4. CASE UNCHANGED vars
  BY <1>4 DEF Types, RingTypes, ModTypes, ReaderTypes, QueueTypes, AlTypes, Steps, vars, kbd, mods, ring, usb, regs, env, hist, Goto
<1>5. CASE HoldShift
  <2>1. kbc' \in Seq(Scancodes)
    BY <1>5, BytesAreScancodes DEF HoldShift
  <2> QED
    BY <1>5, <2>1 DEF HoldShift, Types, RingTypes, ModTypes, ReaderTypes, QueueTypes, AlTypes, Steps, vars, kbd, mods, ring, usb, regs, env, hist, Goto
<1>6. CASE SameReport
  <2>1. usbq' \in Seq(Reports)
    BY <1>6 DEF SameReport, Types, QueueTypes
  <2> QED
    BY <1>6, <2>1 DEF SameReport, Types, RingTypes, ModTypes, ReaderTypes, QueueTypes, AlTypes, Steps, vars, kbd, mods, ring, usb, regs, env, hist, Goto
<1> QED
  BY <1>1, <1>2, <1>3, <1>4, <1>5, <1>6

\* The reader's steps.
LEMMA ReaderTypesKept ==
  ASSUME Types, Reader
  PROVE  Types'
<1> USE DEF Types, RingTypes, ModTypes, ReaderTypes, QueueTypes, AlTypes, Steps, vars, kbd, mods, ring, usb, regs, env, hist, Goto
<1>1. CASE UsbEvent
  <2>1. CASE usbq # <<>> /\ budget > 0
    <3>1. Head(usbq) \in Reports /\ Tail(usbq) \in Seq(Reports)
      BY <2>1, HeadTailProperties
    <3>2. rep' = Head(usbq) /\ todo' = Head(usbq).keys /\ usbq' = Tail(usbq)
      BY <1>1, <2>1 DEF UsbEvent
    <3>3. QueueTypes'
      BY <1>1, <3>1, <3>2, KeyboardAssumption DEF UsbEvent
    <3>4. ReaderTypes'
      BY <1>1, <2>1, KeyboardAssumption DEF UsbEvent
    <3>5. RingTypes' /\ ModTypes' /\ AlTypes' /\ intOn' = intOn
      BY <1>1, <2>1 DEF UsbEvent
    <3> QED
      BY <3>3, <3>4, <3>5
  <2>2. CASE ~(usbq # <<>> /\ budget > 0)
    <3>1. budget' \in 0 .. PollEvents
      BY <1>1, <2>2, KeyboardAssumption DEF UsbEvent
    <3> QED
      BY <1>1, <2>2, <3>1 DEF UsbEvent
  <2> QED
    BY <2>1, <2>2
<1>2. CASE UsbKey
  <2>1. CASE todo = <<>>
    BY <1>2, <2>1 DEF UsbKey
  <2>2. CASE todo # <<>>
    <3>1. Head(todo) \in Keys /\ Tail(todo) \in Seq(Keys)
      BY <2>2, HeadTailProperties
    <3>2. << Head(todo), rep.shift /\ Head(todo) \in Letters >> \in Chars
      BY <3>1 DEF Chars
    <3> QED
      BY <1>2, <2>2, <3>1, <3>2 DEF UsbKey
  <2> QED
    BY <2>1, <2>2
<1>3. CASE ReadStatus
  BY <1>3 DEF ReadStatus
<1>4. CASE TestStatus
  BY <1>4 DEF TestStatus
<1>5. CASE ReadData
  <2>1. CASE kbc = <<>>
    BY <1>5, <2>1 DEF ReadData, code
  <2>2. CASE kbc # <<>>
    <3>1. Head(kbc) \in Scancodes /\ Tail(kbc) \in Seq(Scancodes)
      BY <2>2, HeadTailProperties
    <3>2. /\ acc' = code(Head(kbc)) /\ last' = Head(kbc) /\ kbc' = Tail(kbc)
          /\ pc' = "decode" /\ UNCHANGED intOn
          /\ UNCHANGED << mods, ring, usb, nxt, chr, then, rep, todo, budget >>
      BY <1>5, <2>2 DEF ReadData
    <3> QED
      BY <3>1, <3>2 DEF code
  <2> QED
    BY <2>1, <2>2
<1>6. CASE Decode
  <2>1. acc[2] \in Scancodes
    BY <1>6 DEF Decode
  <2>2. Char(acc[2]) \in Chars
    BY <2>1, CharIsChar
  <2>3. RingTypes' /\ QueueTypes' /\ intOn' = intOn
    BY <1>6, <2>2 DEF Decode
  <2>4. ModTypes'
    BY <1>6 DEF Decode
  <2>5. ReaderTypes'
    BY <1>6 DEF Decode
  <2>6. AlTypes'
    BY <1>6 DEF Decode, bit
  <2> QED
    BY <2>3, <2>4, <2>5, <2>6
<1>7. CASE ToggleLock
  <2>1. << byte("ack"), byte("ack") >> \in Seq(Scancodes)
    BY BytesAreScancodes
  <2>2. kbc' \in Seq(Scancodes)
    BY <1>7, <2>1, ConcatProperties DEF ToggleLock
  <2> QED
    BY <1>7, <2>2 DEF ToggleLock
<1>8. CASE ComputeNext
  <2>1. Succ(head) \in Slot
    BY SuccIs
  <2> QED
    BY <1>8, <2>1 DEF ComputeNext, index
<1>9. CASE StoreNext
  BY <1>9 DEF StoreNext
<1>10. CASE TestRoom
  BY <1>10 DEF TestRoom
<1>11. CASE PutChar
  BY <1>11 DEF PutChar
<1>12. CASE PublishHead
  BY <1>12 DEF PublishHead
<1>13. CASE TestEmpty
  BY <1>13 DEF TestEmpty
<1>14. CASE TakeChar
  <2>1. Succ(tail) \in Slot
    BY SuccIs
  <2> QED
    BY <1>14, <2>1 DEF TakeChar, index
<1>15. CASE StoreTail
  BY <1>15 DEF StoreTail
<1> QED
  BY <1>1, <1>2, <1>3, <1>4, <1>5, <1>6, <1>7, <1>8, <1>9, <1>10, <1>11, <1>12,
     <1>13, <1>14, <1>15 DEF Reader
LEMMA TypesStep ==
  ASSUME Types, [Next]_vars
  PROVE  Types'
BY Irq1Types, OutsideTypes, ReaderTypesKept DEF Next

LEMMA TypesHold == Spec => []Types
<1>1. Types /\ [Next]_vars => Types'
  BY TypesStep
<1> QED
  BY <1>1, TypesInit, PTL DEF Spec

\* The reader, the ring buffer and the decoder of both keyboards keep their
\* types, whenever interrupts strike.
THEOREM KeyboardTypeCorrect == Spec => []TypeOK
<1>1. Types => TypeOK
  BY DEF Types, RingTypes, ModTypes, ReaderTypes, TypeOK
<1> QED
  BY <1>1, TypesHold, PTL

-----------------------------------------------------------------------------
(* The order of characters, with interrupts off.                           *)

\* What the reader's registers hold between the steps of putting a character
\* in and of taking one out.
Registers ==
  /\ pc = "nextStore" => acc[2] = Succ(head)
  /\ pc \in {"room", "put", "publish"} => nxt = Succ(head)
  /\ pc \in {"put", "publish"} => nxt # tail
  /\ pc = "publish" => buf[head] = chr
  /\ pc \in {"take", "tailStore"} => head # tail
  /\ pc = "tailStore" => acc[2] = Succ(tail) /\ chr = buf[tail]

Incoming == IF pc \in {"put", "publish"} THEN << chr >> ELSE <<>>

Ordered ==
  /\ accepted \in Seq(Chars) /\ got \in Seq(Chars)
  /\ accepted = got \o Items(head, tail, buf) \o Incoming

Fifo == ~intOn => Registers /\ Ordered

LEMMA FifoInit == Init => Fifo
<1> SUFFICES ASSUME Init PROVE Fifo
  OBVIOUS
<1>1. RingSize \in Nat \ {0, 1}
  BY KeyboardAssumption
<1>2. Types
  BY TypesInit
<1>3. Items(head, tail, buf) \in Seq(Chars) /\ Len(Items(head, tail, buf)) = 0
  <2>1. Dist(0, 0) = 0
    BY <1>1, DistIs DEF Slot
  <2> QED
    BY <1>2, <2>1, ItemsIsSeq DEF Init, Types, RingTypes
<1>4. Items(head, tail, buf) = <<>>
  BY <1>3, EmptySeq
<1>5. Incoming = <<>> /\ accepted = <<>> /\ got = <<>>
  BY DEF Init, Incoming
<1>6. Ordered
  BY <1>4, <1>5 DEF Ordered
<1>7. Registers
  BY DEF Init, Registers
<1> QED
  BY <1>6, <1>7 DEF Fifo

\* A step that touches neither the ring nor the histories, and leads neither
\* into nor out of the steps that do.
LEMMA ElsewhereKeepsFifo ==
  ASSUME Fifo, UNCHANGED << ring, hist, intOn >>,
         \/ UNCHANGED << pc, acc, nxt, chr >>
         \/ /\ pc \notin {"put", "publish"}
            /\ pc' \notin {"nextStore", "room", "put", "publish", "take", "tailStore"}
  PROVE  Fifo'
BY DEF Fifo, Registers, Ordered, Incoming, ring, hist

LEMMA FifoStep ==
  ASSUME Types, Fifo, [Next]_vars
  PROVE  Fifo'
<1> USE DEF kbd, mods, ring, usb, regs, env, hist, Goto
<1>a. /\ intOn' = intOn
      /\ intOn \/ ~intOn
  BY DEF Next, Type, Report, HoldShift, SameReport, Irq1, Irq0, Reader, UsbEvent, UsbKey, ReadStatus,
     TestStatus, ReadData, Decode, ToggleLock, ComputeNext, StoreNext, TestRoom,
     PutChar, PublishHead, TestEmpty, TakeChar, StoreTail, vars
<1> SUFFICES ASSUME ~intOn PROVE Fifo'
  BY <1>a DEF Fifo
<1>b. Registers /\ Ordered
  BY DEF Fifo
<1>c. RingTypes /\ then \in {"report", "empty", "status"}
  BY DEF Types, ReaderTypes
<1>d. Items(head, tail, buf) \in Seq(Chars)
  BY <1>c, ItemsIsSeq DEF RingTypes
<1>1. ASSUME NEW sc \in Scancodes, Type(sc) PROVE Fifo'
  BY <1>1, ElsewhereKeepsFifo DEF Type
<1>2. ASSUME NEW r \in Reports, Report(r) PROVE Fifo'
  BY <1>2, ElsewhereKeepsFifo DEF Report
<1>3. CASE Irq1 \/ Irq0
  BY <1>3 DEF Irq1, Irq0
<1>4. CASE UsbEvent
  BY <1>4, ElsewhereKeepsFifo DEF UsbEvent
<1>5. CASE UsbKey
  BY <1>5, ElsewhereKeepsFifo DEF UsbKey
<1>6. CASE ReadStatus
  BY <1>6, ElsewhereKeepsFifo DEF ReadStatus
<1>7. CASE TestStatus
  BY <1>7, ElsewhereKeepsFifo DEF TestStatus
<1>8. CASE ReadData
  BY <1>8, ElsewhereKeepsFifo DEF ReadData
<1>9. CASE Decode
  BY <1>9, ElsewhereKeepsFifo DEF Decode
<1>10. CASE ToggleLock
  BY <1>10, ElsewhereKeepsFifo DEF ToggleLock
<1>11. CASE ComputeNext
  BY <1>11, <1>a, <1>b DEF ComputeNext, Fifo, Registers, Ordered, Incoming, index
<1>12. CASE StoreNext
  BY <1>12, <1>a, <1>b DEF StoreNext, Fifo, Registers, Ordered, Incoming
<1>13. CASE TestRoom
  <2>1. CASE nxt = tail
    BY <1>13, <2>1, <1>c, ElsewhereKeepsFifo DEF TestRoom
  <2>2. CASE nxt # tail
    <3>1. accepted' = Append(accepted, chr) /\ pc' = "put" /\ got' = got
          /\ UNCHANGED << head, tail, buf, chr, nxt >>
      BY <1>13, <2>2 DEF TestRoom, Recorded
    <3>2. Registers'
      BY <1>13, <2>2, <3>1, <1>b DEF Registers, TestRoom
    <3>3. accepted = got \o Items(head, tail, buf)
      <4>1. Incoming = <<>>
        BY <1>13 DEF Incoming, TestRoom
      <4>2. got \o Items(head, tail, buf) \in Seq(Chars)
        BY <1>b, <1>d, ConcatProperties DEF Ordered
      <4> QED
        BY <4>1, <4>2, <1>b, ConcatEmptySeq DEF Ordered
    <3>4. Incoming' = << chr >>
      BY <3>1 DEF Incoming
    <3>5. Append(accepted, chr) = accepted \o << chr >>
      BY <1>b, <1>c, AppendIsConcat DEF Ordered, RingTypes
    <3>6. accepted' \in Seq(Chars)
      BY <3>1, <1>b, <1>c, AppendProperties DEF Ordered, RingTypes
    <3>7. Ordered'
      BY <3>1, <3>3, <3>4, <3>5, <3>6, <1>b DEF Ordered
    <3> QED
      BY <3>2, <3>7 DEF Fifo
  <2> QED
    BY <2>1, <2>2
<1>14. CASE PutChar
  <2>1. Items(head, tail, buf') = Items(head, tail, buf)
    BY <1>14, <1>c, StoreIsUnseen DEF PutChar, RingTypes
  <2>2. UNCHANGED << head, tail, chr, nxt, accepted, got >> /\ pc' = "publish"
    BY <1>14 DEF PutChar
  <2>3. Registers'
    BY <1>14, <2>2, <1>b, <1>c DEF Registers, PutChar, RingTypes
  <2>4. Ordered'
    BY <1>14, <2>1, <2>2, <1>b DEF Ordered, Incoming, PutChar
  <2> QED
    BY <2>3, <2>4 DEF Fifo
<1>15. CASE PublishHead
  <2>1. head' = Succ(head) /\ Succ(head) # tail /\ buf[head] = chr
    BY <1>15, <1>b DEF PublishHead, Registers
  <2>2. UNCHANGED << tail, buf, accepted, got >> /\ pc' = then
    BY <1>15 DEF PublishHead
  <2>3. Items(head', tail, buf) = Append(Items(head, tail, buf), chr)
    BY <2>1, <1>c, PublishAppends DEF RingTypes
  <2>4. Append(Items(head, tail, buf), chr) = Items(head, tail, buf) \o << chr >>
    BY <1>c, <1>d, AppendIsConcat DEF RingTypes
  <2>5. Registers'
    BY <2>2, <1>c DEF Registers
  <2>6. Incoming = << chr >> /\ Incoming' = <<>>
    BY <1>15, <2>2, <1>c DEF Incoming, PublishHead
  <2>7. << chr >> \in Seq(Chars)
    BY <1>c DEF RingTypes
  <2>8. accepted = got \o Items(head', tail, buf)
    BY <2>3, <2>4, <2>6, <2>7, <1>b, <1>d, ConcatAssociative DEF Ordered
  <2>9. got \o Items(head', tail, buf) \o <<>> = got \o Items(head', tail, buf)
    BY <2>8, <1>b, ConcatEmptySeq DEF Ordered
  <2>10. Ordered'
    BY <2>2, <2>6, <2>8, <2>9, <1>b DEF Ordered
  <2> QED
    BY <2>5, <2>10 DEF Fifo
<1>16. CASE TestEmpty
  <2>1. CASE head = tail
    BY <1>16, <2>1, ElsewhereKeepsFifo DEF TestEmpty
  <2>2. CASE head # tail
    BY <1>16, <2>2, <1>a, <1>b DEF TestEmpty, Fifo, Registers, Ordered, Incoming
  <2> QED
    BY <2>1, <2>2
<1>17. CASE TakeChar
  BY <1>17, <1>a, <1>b DEF TakeChar, Fifo, Registers, Ordered, Incoming, index
<1>18. CASE StoreTail
  <2>1. tail' = Succ(tail) /\ head # tail /\ chr = buf[tail]
    BY <1>18, <1>b DEF StoreTail, Registers
  <2>2. /\ got' = Append(got, chr) /\ accepted' = accepted
        /\ UNCHANGED << head, buf, chr >> /\ pc' = "call" /\ pc = "tailStore"
    BY <1>18 DEF StoreTail, Recorded
  <2>3. Items(head, tail, buf) = << chr >> \o Items(head, tail', buf)
    BY <2>1, <1>c, TakeRemoves DEF RingTypes
  <2>4. Items(head, tail', buf) \in Seq(Chars) /\ << chr >> \in Seq(Chars)
    BY <2>1, <1>c, SuccIs, ItemsIsSeq DEF RingTypes
  <2>5. Append(got, chr) = got \o << chr >> /\ Append(got, chr) \in Seq(Chars)
    BY <1>b, <1>c, AppendIsConcat, AppendProperties DEF Ordered, RingTypes
  <2>6. got \o Items(head, tail, buf) = Append(got, chr) \o Items(head, tail', buf)
    <3>1. got \in Seq(Chars)
      BY <1>b DEF Ordered
    <3>2. got \o (<< chr >> \o Items(head, tail', buf))
            = (got \o << chr >>) \o Items(head, tail', buf)
      BY <2>4, <3>1, ConcatAssociative
    <3> QED
      BY <2>3, <2>5, <3>2, Zenon
  <2>7. Incoming = <<>> /\ Incoming' = <<>>
    BY <2>2 DEF Incoming
  <2>8. Ordered'
    BY <2>2, <2>5, <2>6, <2>7, <1>b DEF Ordered
  <2>9. Registers'
    BY <2>2 DEF Registers
  <2> QED
    BY <2>8, <2>9 DEF Fifo
<1>19. CASE UNCHANGED vars
  BY <1>19, ElsewhereKeepsFifo DEF vars
<1>20. CASE HoldShift
  BY <1>20, ElsewhereKeepsFifo DEF HoldShift
<1>21. CASE SameReport
  BY <1>21, ElsewhereKeepsFifo DEF SameReport
<1> QED
  BY <1>1, <1>2, <1>3, <1>4, <1>5, <1>6, <1>7, <1>8, <1>9, <1>10, <1>11, <1>12, <1>13,
     <1>14, <1>15, <1>16, <1>17, <1>18, <1>19, <1>20, <1>21 DEF Next, Reader

\* With interrupts off, try_getchar returns the characters that
\* input_add_char and the handler had room for, each once and in order.
THEOREM CharactersInOrder == Spec => []FifoOrder
<1>1. Types /\ Fifo /\ [Next]_vars => Fifo'
  BY FifoStep
<1>2. Types /\ Fifo => FifoOrder
  BY UnreadIsItems DEF Fifo, Ordered, Incoming, FifoOrder
<1> QED
  BY <1>1, <1>2, FifoInit, TypesHold, PTL DEF Spec

\* The handler of IRQ1 stores only into the free slot: whatever it interrupts,
\* the unread characters stay, or one is added behind them.
THEOREM HandlerOnlyAppends == Spec => InterruptOnlyAppends
<1> DEFINE Appends == (Len(kbc') < Len(kbc) /\ pc' = pc) =>
                        \/ Unread' = Unread
                        \/ \E c \in Chars : Unread' = Append(Unread, c)
<1>1. Types /\ [Next]_vars => [Appends]_vars
  <2> SUFFICES ASSUME Types, Next, Len(kbc') < Len(kbc), pc' = pc
               PROVE  \/ Unread' = Unread
                      \/ \E c \in Chars : Unread' = Append(Unread, c)
    OBVIOUS
  <2> USE DEF kbd, mods, ring, usb, regs, env, hist, Goto
  <2>a. RingTypes /\ kbc \in Seq(Scancodes)
    BY DEF Types, QueueTypes
  <2>1. CASE kbc' = kbc
    BY <2>1, <2>a, LenProperties
  <2>2. CASE \E sc \in Scancodes : Type(sc)
    BY <2>2, <2>a, AppendProperties DEF Type
  <2>3. CASE ReadData \/ ToggleLock
    BY <2>3 DEF ReadData, ToggleLock
  <2>4. CASE Irq1 /\ kbc' # kbc
    <3> DEFINE c == Char(Head(kbc))
    <3>1. kbc # <<>>
      BY <2>4 DEF Irq1
    <3>2. c \in Chars
      BY <2>a, <3>1, HeadTailProperties, CharIsChar
    <3>3. \/ UNCHANGED << head, tail, buf >>
          \/ /\ Succ(head) # tail
             /\ buf' = [buf EXCEPT ![head] = c] /\ head' = Succ(head) /\ tail' = tail
      BY <2>4, <3>1 DEF Irq1, HasRoom
    <3>4. CASE UNCHANGED << head, tail, buf >>
      BY <3>4, UnreadIsItems DEF Unread
    <3>5. CASE /\ Succ(head) # tail
               /\ buf' = [buf EXCEPT ![head] = c] /\ head' = Succ(head) /\ tail' = tail
      <4> HIDE DEF c
      <4>1. buf' \in [Slot -> Chars] /\ buf'[head] = c
        BY <2>a, <3>2, <3>5 DEF RingTypes
      <4>2. Items(head', tail', buf') = Append(Items(head, tail, buf'), c)
        BY <2>a, <3>5, <4>1, PublishAppends DEF RingTypes
      <4>3. Items(head, tail, buf') = Items(head, tail, buf)
        BY <2>a, <3>2, <3>5, StoreIsUnseen DEF RingTypes
      <4>4. Unread = Items(head, tail, buf) /\ Unread' = Items(head', tail', buf')
        BY DEF Unread, Items, Dist, Place
      <4> QED
        BY <3>2, <4>2, <4>3, <4>4
    <3> QED
      BY <3>3, <3>4, <3>5
  <2>5. CASE HoldShift
    BY <2>5, <2>a, LenProperties DEF HoldShift
  <2> QED
    BY <2>1, <2>2, <2>3, <2>4, <2>5
    DEF Next, Report, SameReport, Irq0, Reader, UsbEvent, UsbKey, ReadStatus, TestStatus, Decode,
        ComputeNext, StoreNext, TestRoom, PutChar, PublishHead, TestEmpty, TakeChar,
        StoreTail
<1> QED
  BY <1>1, TypesHold, PTL DEF Spec, InterruptOnlyAppends
=============================================================================
