---------------------------- MODULE KeyboardInput ----------------------------
(***************************************************************************)
(* The keyboard path: the PS/2 controller, IRQ1 (isr.asm, irq.c), the       *)
(* handler and ring buffer of ps2.c, the USB report decoder of usb_hid.c    *)
(* and the polling reader (try_getchar, ps2_getchar).                       *)
(*                                                                          *)
(* There is one CPU.  The reader is split at every access to shared state;  *)
(* an interrupt runs its handler to completion between two of its steps     *)
(* (interrupts stay off until iretq).  The interrupt stubs restore rax and then     *)
(* load AL for the end-of-interrupt write, so whatever the reader had in    *)
(* AL is 0x20 afterwards: acc is that register, and the steps between which *)
(* it is live are steps of their own.                                       *)
(***************************************************************************)
EXTENDS Integers, Sequences

CONSTANTS
  RingSize,     \* slots of in_buf (256)
  Letters,      \* keys with a lower-case letter
  Others,       \* keys without one (backspace, enter, ...)
  EoiKey,       \* the key whose scancode is 0x20
  EoiIndex,     \* 0x20 as a ring index
  Reports,      \* the USB reports a keyboard may send
  PollEvents,   \* events usb_kbd_poll takes per call (4)
  MaxBytes,     \* bound: scancodes produced
  MaxReports    \* bound: reports produced (half as many with interrupts on)

Keys  == Letters \cup Others
Slot  == 0 .. RingSize - 1
Chars == Keys \X BOOLEAN
Scancodes == [kind : {"make"}, key : Keys]
               \cup [kind : {"break", "shiftDown", "shiftUp", "caps", "num", "pad", "ack"},
                     key : {EoiKey}]
\* What AL holds: a truth value, a ring index or a scancode.
bit(v) == << "bit", v >>
index(i) == << "index", i >>
code(sc) == << "code", sc >>
byte(k) == [kind |-> k, key |-> EoiKey]
None  == <<EoiKey, FALSE>>  \* the value of in_buf's unused slots is irrelevant

\* The report of a keyboard none of whose keys is held.
Released == [keys |-> <<>>, shift |-> FALSE]

ASSUME KeyboardAssumption ==
  /\ RingSize \in Nat \ {0, 1} /\ EoiIndex \in Slot /\ EoiKey \in Letters
  /\ PollEvents \in Nat \ {0}
  /\ Released \in Reports
  /\ \A r \in Reports : r.keys \in Seq(Keys) /\ r.shift \in BOOLEAN

VARIABLES
  intOn,              \* is the reader run with interrupts enabled?
  kbc, last,          \* controller: bytes not yet read, byte last read
  irr,                \* IRQ1 latched in the PIC
  shift, caps, numlock,             \* modifier state of ps2_handle_interrupt
  head, tail, buf,    \* in_head, in_tail, in_buf
  usbq, prev,         \* reports on the event ring, prev_keycodes
  pc, acc,            \* the reader: next step, AL
  nxt, chr, then,     \* its local "next" and "c", and where enqueueing returns
  rep, todo, budget,  \* report being decoded, its keys still to do, events left
  typed, reported,    \* how many bytes and reports were produced
  accepted, got       \* history: characters the ring had room for, and those
                      \* try_getchar returned (kept with interrupts off)

kbd  == << intOn, kbc, last, irr >>
mods == << shift, caps, numlock >>
ring == << head, tail, buf >>
usb  == << usbq, prev >>
regs == << acc, nxt, chr, then, rep, todo, budget >>
env  == << typed, reported >>
hist == << accepted, got >>
vars == << kbd, mods, ring, usb, pc, regs, env, hist >>

\* Mutant: the index is not wrapped.
Succ_NoWrap(i) == i + 1

Succ(i) == (i + 1) % RingSize

\* Mutant: nothing is ever refused.
HasRoom_Always(h) == TRUE

HasRoom(h) == Succ(h) # tail

\* The published, unread characters, oldest first.
Unread == [i \in 1 .. (head - tail) % RingSize |-> buf[(tail + i - 1) % RingSize]]

\* scancode_map / scancode_shift_map with shift and Caps Lock applied.
Decoded(key) == << key, key \in Letters /\ (shift \/ caps) >>

Char(sc) == IF sc.kind = "make" THEN Decoded(sc.key) ELSE << sc.key, FALSE >>
Yields(sc) == sc.kind = "make" \/ (sc.kind = "pad" /\ numlock)

-----------------------------------------------------------------------------
Init ==
  /\ intOn \in BOOLEAN
  /\ kbc = <<>> /\ last = byte("ack") /\ irr = FALSE
  /\ shift = FALSE /\ caps = FALSE /\ numlock = FALSE
  /\ head = 0 /\ tail = 0 /\ buf = [i \in Slot |-> None]
  /\ usbq = <<>> /\ prev = <<>>
  /\ pc = "call" /\ acc = bit(FALSE) /\ nxt = 0 /\ chr = None /\ then = "status"
  /\ rep = Released /\ todo = <<>> /\ budget = PollEvents
  /\ typed = 0 /\ reported = 0
  /\ accepted = <<>> /\ got = <<>>

\* The keyboard sends a byte; the controller raises IRQ1.
Type(sc) ==
  /\ typed < MaxBytes
  /\ typed' = typed + 1
  /\ kbc' = Append(kbc, sc)
  /\ irr' = TRUE
  /\ UNCHANGED << intOn, last, mods, ring, usb, pc, regs, reported, hist >>

\* A USB report reaches the event ring.
Report(r) ==
  /\ reported < IF intOn THEN MaxReports \div 2 ELSE MaxReports
  /\ reported' = reported + 1
  /\ usbq' = Append(usbq, r)
  /\ UNCHANGED << kbd, mods, ring, prev, pc, regs, typed, hist >>

\* Two keyboards that never stop, with nothing new to say: the key pressed
\* last, Shift, repeats its scancode while it is held, and a report tells that
\* no key was added.  (Bound: only with interrupts off.)
HoldShift ==
  /\ ~intOn
  /\ kbc = <<>> /\ last = byte("shiftDown")
  /\ kbc' = << byte("shiftDown") >>
  /\ irr' = TRUE
  /\ UNCHANGED << intOn, last, mods, ring, usb, pc, regs, env, hist >>

SameReport ==
  /\ ~intOn
  /\ usbq = <<>>
  /\ usbq' = << rep >>
  /\ UNCHANGED << kbd, mods, ring, prev, pc, regs, env, hist >>

-----------------------------------------------------------------------------
(* Interrupts.                                                             *)

\* AL after the stub's "mov al, 0x20", as what the reader keeps in AL.
AlAfterEoi ==
  CASE pc \in {"statusTest", "handlerTest"} -> bit(FALSE)        \* bit 0 is clear
    [] pc = "decode" -> code([kind |-> "make", key |-> EoiKey])  \* scancode of 'd'
    [] pc \in {"capsStore", "numStore"} -> bit(TRUE)             \* non-zero
    [] pc \in {"nextStore", "tailStore"} -> index(EoiIndex)
    [] OTHER -> acc

\* ps2_handle_interrupt, run as the IRQ1 handler.
Irq1 ==
  /\ intOn /\ irr
  /\ acc' = AlAfterEoi
  /\ IF kbc = <<>>
     THEN UNCHANGED << kbc, last, mods, ring >>
     ELSE LET sc == Head(kbc)
              c == Char(sc)
              room == HasRoom(head)
              leds == IF sc.kind \in {"caps", "num"}
                      THEN << byte("ack"), byte("ack") >> ELSE <<>>
          IN /\ kbc' = Tail(kbc) \o leds
             /\ last' = sc
             /\ shift' = (sc.kind = "shiftDown" \/ (shift /\ sc.kind # "shiftUp"))
             /\ caps' = (caps # (sc.kind = "caps"))
             /\ numlock' = (numlock # (sc.kind = "num"))
             /\ buf' = IF Yields(sc) /\ room THEN [buf EXCEPT ![head] = c] ELSE buf
             /\ head' = IF Yields(sc) /\ room THEN Succ(head) ELSE head
             /\ tail' = tail
  /\ irr' = (kbc' # <<>>)
  /\ UNCHANGED << intOn, usb, pc, nxt, chr, then, rep, todo, budget, env, hist >>

\* IRQ0: the tick, seen from here, only costs the reader its AL.
Irq0 ==
  /\ intOn
  /\ AlAfterEoi # acc
  /\ acc' = AlAfterEoi
  /\ UNCHANGED << kbd, mods, ring, usb, pc, nxt, chr, then, rep, todo, budget, env, hist >>

-----------------------------------------------------------------------------
(* try_getchar, called again and again by the shell (ps2_getchar runs the  *)
(* same loop inside one call).                                             *)

Goto(l) == pc' = l

\* Mutant: events are taken as long as there are any.
UsbEvent_NoLimit ==
  /\ pc = "call"
  /\ IF usbq # <<>>
     THEN /\ rep' = Head(usbq)
          /\ todo' = Head(usbq).keys
          /\ usbq' = Tail(usbq)
          /\ Goto("report")
     ELSE /\ Goto("status")
          /\ UNCHANGED << usbq, rep, todo >>
  /\ UNCHANGED << kbd, mods, ring, prev, acc, nxt, chr, then, budget, env, hist >>

\* usb_kbd_poll: take the next event, up to PollEvents of them.
UsbEvent ==
  /\ pc = "call"
  /\ IF usbq # <<>> /\ budget > 0
     THEN /\ rep' = Head(usbq)
          /\ todo' = Head(usbq).keys
          /\ usbq' = Tail(usbq)
          /\ budget' = budget - 1
          /\ Goto("report")
     ELSE /\ budget' = PollEvents
          /\ Goto("status")
          /\ UNCHANGED << usbq, rep, todo >>
  /\ UNCHANGED << kbd, mods, ring, prev, acc, nxt, chr, then, env, hist >>

\* usb_kbd_process_report: enqueue each key the previous report did not hold.
UsbKey ==
  /\ pc = "report"
  /\ IF todo = <<>>
     THEN /\ prev' = rep.keys
          /\ Goto("call")
          /\ UNCHANGED << todo, chr, then >>
     ELSE /\ todo' = Tail(todo)
          /\ UNCHANGED prev
          /\ IF \E i \in DOMAIN prev : prev[i] = Head(todo)
             THEN UNCHANGED << pc, chr, then >>
             ELSE /\ chr' = << Head(todo), rep.shift /\ Head(todo) \in Letters >>
                  /\ then' = "report"
                  /\ Goto("next")
  /\ UNCHANGED << kbd, mods, ring, usbq, acc, nxt, rep, budget, env, hist >>

\* Read the status port: by the reader, then again by the handler it calls.
ReadStatus ==
  /\ pc \in {"status", "handler"}
  /\ acc' = bit(kbc # <<>>)
  /\ Goto(IF pc = "status" THEN "statusTest" ELSE "handlerTest")
  /\ UNCHANGED << kbd, mods, ring, usb, nxt, chr, then, rep, todo, budget, env, hist >>

TestStatus ==
  /\ pc \in {"statusTest", "handlerTest"}
  /\ Goto(IF ~acc[2] THEN "empty" ELSE IF pc = "statusTest" THEN "handler" ELSE "data")
  /\ UNCHANGED << kbd, mods, ring, usb, regs, env, hist >>

\* Read the data port; with no byte waiting it repeats the last one.
ReadData ==
  /\ pc = "data"
  /\ IF kbc = <<>>
     THEN /\ acc' = code(last)
          /\ UNCHANGED kbd
     ELSE /\ acc' = code(Head(kbc)) /\ last' = Head(kbc)
          /\ kbc' = Tail(kbc)
          /\ irr' = (irr \/ Tail(kbc) # <<>>) /\ UNCHANGED intOn
  /\ Goto("decode")
  /\ UNCHANGED << mods, ring, usb, nxt, chr, then, rep, todo, budget, env, hist >>

\* ps2_handle_interrupt, from the scancode to the character, in the reader.
Decode ==
  /\ pc = "decode"
  /\ LET sc == acc[2]
     IN /\ IF Yields(sc)
           THEN /\ chr' = Char(sc) /\ then' = "empty"
                /\ Goto("next")
           ELSE /\ UNCHANGED << chr, then >>
                /\ Goto(CASE sc.kind = "caps" -> "capsStore"
                          [] sc.kind = "num" -> "numStore"
                          [] OTHER -> "empty")
        /\ shift' = (sc.kind = "shiftDown" \/ (shift /\ sc.kind # "shiftUp"))
        /\ acc' = CASE sc.kind = "caps" -> bit(~caps)
                    [] sc.kind = "num" -> bit(~numlock)
                    [] OTHER -> acc
  /\ UNCHANGED << kbd, caps, numlock, ring, usb, nxt, rep, todo, budget, env, hist >>

\* Store the toggled lock and send the two-byte LED command; the keyboard
\* acknowledges each byte.
ToggleLock ==
  /\ pc \in {"capsStore", "numStore"}
  /\ caps' = IF pc = "capsStore" THEN acc[2] ELSE caps
  /\ numlock' = IF pc = "numStore" THEN acc[2] ELSE numlock
  /\ kbc' = kbc \o << byte("ack"), byte("ack") >>
  /\ irr' = TRUE
  /\ Goto("empty")
  /\ UNCHANGED << intOn, last, shift, ring, usb, regs, env, hist >>

\* input_add_char, and the same four lines inside ps2_handle_interrupt.
ComputeNext ==
  /\ pc = "next"
  /\ acc' = index(Succ(head))
  /\ Goto("nextStore")
  /\ UNCHANGED << kbd, mods, ring, usb, nxt, chr, then, rep, todo, budget, env, hist >>

StoreNext ==
  /\ pc = "nextStore"
  /\ nxt' = acc[2]
  /\ Goto("room")
  /\ UNCHANGED << kbd, mods, ring, usb, acc, chr, then, rep, todo, budget, env, hist >>

\* The histories are kept where they stay bounded, with interrupts off.
Recorded(h) == IF intOn THEN h ELSE Append(h, chr)

TestRoom ==
  /\ pc = "room"
  /\ IF nxt # tail
     THEN /\ accepted' = Recorded(accepted)
          /\ Goto("put")
     ELSE /\ UNCHANGED accepted
          /\ Goto(then)
  /\ UNCHANGED << kbd, mods, ring, usb, regs, env, got >>

\* Mutant: the character goes one slot too far.
PutChar_AtNext ==
  /\ pc = "put"
  /\ buf' = [buf EXCEPT ![nxt] = chr]
  /\ Goto("publish")
  /\ UNCHANGED << kbd, mods, head, tail, usb, regs, env, hist >>

PutChar ==
  /\ pc = "put"
  /\ buf' = [buf EXCEPT ![head] = chr]
  /\ Goto("publish")
  /\ UNCHANGED << kbd, mods, head, tail, usb, regs, env, hist >>

PublishHead ==
  /\ pc = "publish"
  /\ head' = nxt
  /\ Goto(then)
  /\ UNCHANGED << kbd, mods, tail, buf, usb, regs, env, hist >>

\* The end of try_getchar: -1, or the oldest character.
TestEmpty ==
  /\ pc = "empty"
  /\ Goto(IF head = tail THEN "call" ELSE "take")
  /\ UNCHANGED << kbd, mods, ring, usb, regs, env, hist >>

TakeChar ==
  /\ pc = "take"
  /\ chr' = buf[tail]
  /\ acc' = index(Succ(tail))
  /\ Goto("tailStore")
  /\ UNCHANGED << kbd, mods, ring, usb, nxt, then, rep, todo, budget, env, hist >>

StoreTail ==
  /\ pc = "tailStore"
  /\ tail' = acc[2]
  /\ got' = Recorded(got)
  /\ Goto("call")
  /\ UNCHANGED << kbd, mods, head, buf, usb, regs, env, accepted >>

Reader == \/ UsbEvent \/ UsbKey \/ ReadStatus \/ TestStatus \/ ReadData
          \/ Decode \/ ToggleLock \/ ComputeNext \/ StoreNext \/ TestRoom
          \/ PutChar \/ PublishHead \/ TestEmpty \/ TakeChar \/ StoreTail

Next == \/ \E sc \in Scancodes : Type(sc)
        \/ \E r \in Reports : Report(r)
        \/ HoldShift \/ SameReport
        \/ Irq1 \/ Irq0
        \/ Reader

\* The shell and sys_read call the reader in a loop and never stop.
Spec == Init /\ [][Next]_vars /\ WF_vars(Reader)

-----------------------------------------------------------------------------
(* Properties.                                                             *)

Steps == {"call", "report", "status", "statusTest", "handler", "handlerTest",
          "data", "decode", "capsStore", "numStore", "next", "nextStore",
          "room", "put", "publish", "empty", "take", "tailStore"}

TypeOK ==
  /\ intOn \in BOOLEAN
  /\ head \in Slot /\ tail \in Slot /\ nxt \in Slot
  /\ buf \in [Slot -> Chars] /\ chr \in Chars
  /\ pc \in Steps /\ then \in {"report", "empty", "status"}
  /\ shift \in BOOLEAN /\ caps \in BOOLEAN /\ numlock \in BOOLEAN
  /\ budget \in 0 .. PollEvents

\* With interrupts off (the panic shell, system calls), every character the
\* ring had room for is returned exactly once and in the order of acceptance:
\* the sequence accepted is what try_getchar returned, then what is unread,
\* then the one being put in.  (ps2.c: in_head, in_tail, input_add_char,
\* ps2_handle_interrupt, try_getchar.)
FifoOrder ==
  ~intOn =>
    LET incoming == IF pc \in {"put", "publish"} THEN << chr >> ELSE <<>>
    IN accepted = got \o Unread \o incoming

\* Whatever waits in the controller, on the event ring or in in_buf is
\* eventually fetched, though both keyboards send again the moment they have
\* been heard, for ever: neither source starves the other or the caller.
InputDrained ==
  /\ (~intOn /\ kbc # <<>>)    ~> kbc = <<>>
  /\ (~intOn /\ usbq # <<>>)   ~> usbq = <<>>
  /\ (~intOn /\ Unread # <<>>) ~> Unread = <<>>

\* Wherever it interrupts the reader, the IRQ1 handler leaves the unread
\* characters as they are, or adds one behind them: it stores only into the
\* free slot, and refuses when there is none.
InterruptOnlyAppends ==
  [][ (Len(kbc') < Len(kbc) /\ pc' = pc) =>
        \/ Unread' = Unread
        \/ \E c \in Chars : Unread' = Append(Unread, c) ]_vars

\* "Add a character to the input buffer": publishing a character adds exactly
\* that one to the unread characters.
CharAdded ==
  [][ pc = "publish" /\ pc' # "publish" => Unread' = Append(Unread, chr) ]_vars
=============================================================================
