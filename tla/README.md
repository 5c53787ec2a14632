# Rhoudveine in TLA+

Rhoudveine is a small x86_64 kernel with a built-in shell. It is loaded by
Limine, runs on one CPU, takes two interrupts (IRQ0, the timer; IRQ1, the PS/2
keyboard) and polls every other device. This directory holds TLA+ models of
its parts, TLC runs over small instances, and proofs checked by TLAPS.

Source paths below are relative to `src/impl/kernel/` unless they start with
`init/` or `x86_64/`. `PROJECT.json` maps every definition to its lines.

## The system

| Component | State | Operations | Talks to | Hard behaviour | Correct when | Model |
|---|---|---|---|---|---|---|
| Frame allocator `core/mm.c` | two bitmaps, four counters | `mm_init`, `pfa_alloc`, `pfa_alloc_low`, `pfa_free` | everyone who needs memory | the bitmaps live in frames; counters wrap; a bitmap is larger than its reservation | a frame has one owner; books balance | `FrameAllocator` |
| Page mapping `core/mm.c` | page tables, MMIO window | `map_page`, `mmio_remap`, `virt_to_phys` | frame allocator | a table cannot be allocated halfway; dirty frames become tables; the window only grows | a mapping returned is mapped and stays; a step changes one page | `PageMap` |
| Keyboard `drivers/ps2.c`, `drivers/usb_hid.c`, `x86_64/isr.asm` | ring buffer, modifiers, previous USB report | IRQ1 handler, `try_getchar`, `ps2_getchar`, `input_add_char` | controller, USB poll, shell | handler and reader share the ring and `AL`; two keyboards, one ring | characters come out once and in order; nobody starves | `KeyboardInput` |
| AHCI `drivers/ahci.c` | chosen port, command slots | `ahci_init`, sector reads and writes | frame allocator, FAT32, shell | the device answers late, rejects, or is silent | no slot taken twice, errors reported, calls return | `AhciPort` |
| xHCI `drivers/xhci.c` | command, event and transfer rings | enumeration, `usb_kbd_poll` | PCI table, keyboard | events taken in three places; cycle bits; late answers | events taken once and in order; the keyboard stays armed | `XhciKeyboard` |
| VFS `fs/vfs.c` | mount table, descriptors, file system types | mount, resolve, open, create, mkdir, read, readdir, close | file systems, shell, system calls | creation inside open; mount points; descriptors reused | a path keeps its meaning; descriptors are independent | `Vfs` |
| ramfs, devfs, procfs `fs/` | node pool, directories, flat lists | finddir, readdir, create, mount | VFS | pool and directories fill up; names are cut | no node lost; listings complete | `Vfs` |
| FAT32 `fs/fat32_vfs.c` | one page of FAT cache, node pages | lookup, listing, read, write, create, mkdir | AHCI, VFS | FAT, data and directory are written one after the other, each write may fail | chains stay apart and end, in memory and on the disk; what was created stays; writes are exact | `Fat32` |
| Old FAT32 `fs/fat32.c` | | | | not built | | no |
| Scheduler `core/sched.c` | tasks, run queues | create, place, rotate, tick | ACPI (the CPU count), init tasks | new tasks go to the head; set up before the CPUs are counted | no task waits longer than a round | `TaskScheduler` |
| Block I/O `core/blk.c` | two lists sorted by deadline | submit, dispatch | no caller yet | ties, new heads, empty lists | one queue ordered by kind, deadline and age | `BlockQueue` |
| Timer `core/timer.c` | tick counter | `pit_init`, `timer_sleep_ms` | IRQ0 | test, then halt | a sleep ends | `Timer` |
| System calls `core/syscall.c`, `x86_64/syscall.asm`, `core/elf.c` | working directory, pid | 15 calls | VFS, keyboard | one kernel stack, interrupts off inside | registers survive | no |
| Device registries `drivers/vray.c`, `fs/vnode.c`, `fs/nvnode.c`, `drivers/pci_db.c` | fixed tables | PCI scan, create, find | drivers | tables fill up | lookup exact | no |
| ACPI `drivers/acpi.c` | CPU list, root table | discovery, MADT walk, power off, reboot | scheduler, shell | bounded waits, attempts in turn, encodings of sleep types | power commands end in the state they name | `Acpi` |
| Console `core/main.c` | cursor, back buffer, screen | put character, backspace, scroll, flush, cursor | everyone | wrap and scroll at the edges; output from the interrupt handler; cursor cell saved and restored | what is seen is the line that will run | `Console` |
| Shell `init/init.c` | line, working directory | line editor, `resolve_path`, commands | VFS, AHCI, keyboard, console | `..`, `.` and slashes; a directory kept as text | the directory named is the directory meant | `Console` (editor), `Shell` (file commands) |
| Panic screen, serial, IDT, CPU frequency, formatted output, user library, tools, generated tables | | | | straight-line device programming, host tools or data | | no |

How they interact: the boot sequence of `core/main.c` calls the initialisers in
a fixed order and then the shell, which never returns. The shell polls the
keyboard (`try_getchar`, which also polls the USB event ring), and calls the
VFS and AHCI directly. The only concurrency on the CPU is between this one
thread and the two interrupt handlers; the AHCI port, the disk, the xHCI
controller and the USB devices run beside it and share memory with it.

## Modules

Each module names in comments the function every definition stands for.

- **`FrameAllocator`** - `lowFree` and `highFree` are the clear bits of
  `low_bitmap` and `bitmap`; the counters are those of the code, 64 bits wide
  (`CountMax`). `MmInit` is `mm_init` on one of the memory maps in
  `MemoryMaps`: placement, reservation, seeding, counting. `PfaAllocLow`,
  `PfaAlloc`, `PfaFreeLow` and `PfaFreeHigh` are the calls; `holders` counts
  who believes to own a frame. `ClearFrame` is a caller that clears the frame
  it was given (as `map_page` does), which clears bits when the frame lies
  under a bitmap. A caller returns only frames it holds.
- **`FramePool`** - what the allocator promises below 4 GiB: a call takes a
  frame nobody has, and a return makes exactly that frame available. When none
  is left (`Exhausted`) a call returns 0 or one of `Others`. `FrameAllocator`
  implements it (`LowPoolSpec`) with the frames at or above 4 GiB as `Others`:
  `pfa_alloc_low` scans the whole low bitmap, and their bits are clear once a
  frame under the bitmaps was cleared.
- **`KeyboardInput`** - the reader is split at every access to shared state,
  because an interrupt can strike between any two; the handler itself is one
  step. `acc` is `AL`: the interrupt stubs restore `rax` and then load `AL`
  for the end-of-interrupt write, so the interrupted code continues with 0x20
  in it. `intOn` says whether the reader runs with interrupts enabled (the
  shell) or not (panic shell, system calls). Both keyboards may send without
  end: `HoldShift` repeats the scancode of a key held, `SameReport` the last
  report, each as soon as the one before was read. They put nothing into the
  ring, so the histories stay finite.
- **`AhciPort`** - `BeginCall` to `CheckResult` are the steps of `port_read`
  and `port_write`, one per look at a device register. `Finish`, `Reject` and
  `ChangeBusy` are the device. Of the headers of the command list only the
  address of the command table is kept (`ctba`): `ahci_init` sets it in header
  0 alone, and commands in other slots are written through address 0.
- **`XhciKeyboard`** - the driver's steps of enumeration and polling, one per
  look at the event ring, and the controller (`Execute`, `FinishControl`,
  `SendReport`, `PortChange`). The event ring and the keyboard's transfer ring
  are modelled with their cycle bits, Link TRB and wraps.
- **`Vfs`** - `vfs.c` over ramfs with the flat file systems below it. A call
  is one step (nothing else runs while the VFS does). `Boot` replays what
  `main.c` does; afterwards calls come in any order, several descriptors open
  at once, as the interface allows (the shell itself has one open at a time),
  also with `O_APPEND`, which no caller passes yet.
- **`Fat32`** - `fat` is the table in memory, `dfat` and `disk` what the disk
  holds, `handles` the nodes callers got from `finddir` and `readdir`. One call
  runs at a time; `op` is where it stands. Every disk write is a step
  (`Alloc`, `Link`, `Zero`, `WriteDots`, `Enter`, `WriteCluster`), which may
  fail and then have landed in part; the driver is told so or, after a timeout,
  that it succeeded (`drivers/ahci.c:271`). `Reset` is a power loss and the mount
  after it. A unit that nobody wrote or cleared since the mount is `Stale`: free
  clusters may hold anything, zeros, data or an old directory. `adrift` is set,
  and the behaviour followed no further, where the driver goes on as if it had
  written what it had not: a directory has a cluster that was linked or entered
  and not cleared (power lost between the two, or the write timed out), the mark
  of a cluster missed the disk unseen, or a directory was read into a buffer
  that a timed-out command did not fill. Names differ however they are stored: the conversions between long
  and short names are left out. The driver is registered at boot; `main.c`
  mounts a volume with it when it is given a root device, which this version
  always leaves empty.
- **`AddressSpace`** - what the page tables promise: a function from pages to
  what they show, each step of which changes at most one page. **`PageMap`** -
  `map_page` level by level (`Descend`, `NewTable`, `StrayTable`, `OutOfFrames`,
  `MapLeaf`)
  inside `mmio_remap` (`MmioRemap`, `MmioReturn`), over an instance of
  `FramePool`: tables are frames of the pool that come dirty and are cleared.
  It implements `AddressSpace` (`AddressSpaceSpec`) until one of the boot
  loader's tables is handed out, or a frame beyond 4 GiB becomes a table
  (`StrayTable`); then `damaged` is set and nothing more is promised. An
  address is counted in pages; flags are left out.
- **`RequestQueue`** - a set of requests, dispatched reads first, then by
  deadline and age. **`BlockQueue`** - the two sorted lists of `blk.c` with the
  walk that places a request; it implements `RequestQueue`. A request before
  `blk_init` is dropped by the code; the model has none before it.
- **`TaskScheduler`** - `sched_init` with what ACPI has reported by then,
  creation, rotation, ticks. `wait` is a history variable: rounds since a task
  last ran.
- **`Console`** - every `fb_` call of the line editor is a step; a cell is the
  set of glyphs drawn on it since it was cleared, and whether it is inverted.
  `vram` and `back` are the screen and the back buffer, or one and the same
  when there is none. The lock keys print from the interrupt handler between
  any two steps, not inside one. The height need not be a multiple of the 22
  lines of a glyph: `spare` says that part of a row is left below the whole
  ones, as on a screen of 1080 lines. Text goes on in it, and the first scroll
  puts an end to it.
- **`Shell`** - the file commands over an instance of `Vfs`: `resolve_path`,
  the current directory, and `cd`, `cdl`, `dump`, `write`, `mkdir` call by
  call. `cwdNode` is history: the node `cd` opened.
- **`Timer`** - the test and the `hlt` of `timer_sleep_ms` apart, with IRQ0
  and other interrupts between.
- **`Acpi`** - root table, table lookup, MADT walk, and the two power commands
  as sequences of attempts. The machine (tables, registers that work) is
  chosen at the start and does not change.
- **`Services`** - page mapping, block requests, the scheduler, the console,
  the shell's files, the timer and ACPI. These share no variable, so no step
  of one can enable, disable or change a step of another; every behaviour
  therefore follows one of them, and one run checks them all.
- **`*_proofs`** - the theorems. **`MC_*`** - constants for TLC.

## Runs

All bounds are constants in the `.cfg` files and named in the modules.

| Run | Shows | Bounds, and why they are enough |
|---|---|---|
| `frames` | one owner per low frame even after bits were overwritten; reserved frames never given; exact books until then; implements `FramePool` | 12 frames, bitmaps of 2 frames each, 1 reserved: the ratios of the code (64 + 64 and 32), with the reservation covering exactly the bits below 4 GiB. Two clearings show a bitmap overwritten before and after it is in use. Three memory maps: one that straddles 4 GiB, one with an unaligned and an out-of-range entry, one with nothing usable |
| `frames_bitmaps` (violation) | frames under the bitmaps are given to callers | as above |
| `keyboard` | FIFO order with interrupts off; the handler only appends with interrupts on; each keyboard and the ring are read though the keyboards never stop | ring of 3: full, empty and wrapped are all reached. Two scancodes and two reports (one with interrupts on) of up to two keys overflow it; scancodes include both locks, shift, release and keypad. A held Shift key and an unchanged report repeat without bound; one USB event for each poll |
| `keyboard_char_added` (violation) | an interrupt inside `input_add_char` loses or repeats a character | as above |
| `ahci` | set-up, slots, rejections, early exits, termination | 2 slots and 4 calls: with commands given up on, every slot can be occupied and calls refused. Loops of 1 and 3 turns: the counter reaches 0 and -1 |
| `ahci_timeout` (violation) | a timeout is returned as success | as above |
| `xhci` | events in order; transfers visible; keyboard armed; enumeration ends | one or two ports; event ring of 3 (several wraps), transfer ring of 5 (wraps through its Link TRB), 3 turns of the command loop, so that a completion can be late |
| `xhci_completion` (violation) | a late completion is taken for the next command | as above |
| `vfs` | paths keep their meaning; no node lost; descriptors independent; listings complete | pool of 7, directories of 3, 2 descriptors: all of them run out. A name longer than a directory slot, duplicate names, an empty last component, paths through both mount points |
| `fat32` | chains sound, in memory and on the disk; directories show nothing old; new directories complete; creations survive; no name is added twice to a directory without gaps; writes exact | 5 clusters of 3 units, 4 calls: the volume fills up, a directory of two clusters, a file of three. One failed command, noticed or not, and one power loss, anywhere. Names of one and two slots, so that entries meet the end of a cluster |
| `fat32_taken_name` (violation) | a name is created twice | as above, without failures |
| `services`: pages | windows stay mapped; the tables are one address space | tables of 2 entries in 4 levels, 7 frames of which 4 are the boot loader's, windows of up to 3 pages, 3 calls: the window crosses into new tables at every level, runs out of frames, and reaches the kernel image |
| `services`: blocks | the lists are one queue | 3 request structures, 2 deadlines, 4 submissions: ties, a new head, a structure used again |
| `services`: tasks | no task waits longer than a round | 4 tasks, 2 CPUs, none counted yet, as at boot |
| `services`: console | the line on the screen is the line that runs | 4 by 2 cells, with and without part of a third row, a line of up to 4 characters, 5 keys, one lock key or log line; with and without a back buffer: wraps, scrolls, backspaces over both edges |
| `services`: shell | the current directory keeps naming what `cd` opened; descriptors are returned | a pool with room for 2 more nodes; nine arguments up, down, across the mount point and of names that are cut |
| `services`: timer | sleeps end | sleeps of no tick, one tick and several, two of them; the counter stops at 5 |
| `services`: ACPI | declared sleep types are used; power commands end | 8 machines: no tables, RSDT only, FADT out of reach, both encodings, a stray name, one and two PM1 registers, each port and each way of reset, and none |

Fairness: `WF(Reader)` in `KeyboardInput` (the shell calls `try_getchar` in a
loop for ever), `WF(Driver)` in `AhciPort` and `XhciKeyboard` (the caller is
inside the driver until it returns), `WF(TimerIrq)`, `WF(TestTicks)` and
`WF(Halt)` in `Timer` (the PIT runs from `pit_init` on and interrupts stay
enabled; the CPU executes the next instruction), `WF(PowerStep)` in `Acpi` (the
CPU goes on executing). Devices owe nothing: no liveness property relies on an
answer. The other modules have no fairness and no liveness property; that
walks along chains end follows from `ChainsSound`, that no task starves from
`WaitBounded`.

Deadlock is checked for `keyboard`, `keyboard_char_added` and `vfs`. The other
runs say `CHECK_DEADLOCK FALSE`: the number of calls, clearings, commands,
reports, keys and sleeps is bounded, `mm_init` may have given up, and a machine
may be off.

## Proofs

Every theorem holds for all values of the constants that satisfy the
assumption of its module; sizes and bounds are not fixed. All invariants are
inductive strengthenings of the property, and each proof has one step per
action.

**`FrameAllocator_proofs`** - `TypeCorrect`, `LowFramesExclusive`
(`LowExclusive`), `ReservationHolds` (`ReservedNeverGiven`), `BooksExact`
(`IntactBooks`), `LowPoolImplemented` (`LowPoolSpec`).
`AllocatorAssumption`: a bitmap has `BitmapPages * BitsPerPage = MaxPages` bits;
the reservation holds at least the bits of the frames below 4 GiB
(`ReqPages * BitsPerPage >= LowPages`; in the code 32 * 32768 = 2^20); counters
do not overflow at the number of frames; a memory map that has room puts it
below 4 GiB (what Limine hands over on a PC).
`LowExclusive` is not inductive, because a caller may clear a frame under the
bitmaps. `IInv` adds that the reserved frames are neither free nor held. The
bits of the frames below 4 GiB all lie in reserved frames, so what a caller
clears holds only bits of frames beyond 4 GiB, and the low part of the bitmap
is changed by the allocator's own calls alone. First fit returns the smallest
clear bit; below 4 GiB that is a frame nobody holds. The counters follow from
the cardinality of a set with one element added or removed, as long as nothing
was cleared. The refinement needs one more fact: when the low bitmap has no
clear bit below 4 GiB, what `pfa_alloc_low` returns is either 0 or a frame
at or above 4 GiB, one of the pool's `Others`. The converse is the promise:
first fit, so as long as a frame below 4 GiB is left, none of these is returned.

**`PageMap_proofs`** - `PageMapTypeCorrect`, `WindowsNeverLost`
(`WindowsStayMapped`), `TablesAreOneFunction` (`AddressSpaceSpec`).
`PageMapAssumption`: the boot loader has one table per level, all different and
in frames of the pool; the regions lie among the device pages. The invariant says that the tables reached
from the root form a tree whose levels are right, that entries beyond the path
being walked are as before, and that what a window showed it still shows. The
lemmas on page numbers (a page is rebuilt from its four indices) carry the
proof from one table to another for every fan-out. It holds until `damaged`.

**`KeyboardInput_proofs`** - `KeyboardTypeCorrect`, `CharactersInOrder`
(`FifoOrder`, with interrupts off), `HandlerOnlyAppends`
(`InterruptOnlyAppends`). The invariant relates the unread part of the ring to
the characters put in and taken out, with the reader at each of its steps.

**`AhciPort_proofs`** - `AhciTypeCorrect`, `SetUpBeforeCommands`
(`CommandsNeedSetup`), `SlotStillFree` (`SlotNotTaken`), `RejectionNotLost`
(`RejectionReported`), `NoEarlySuccess` (`SuccessAfterWait`). The invariant:
types; the engine is started, with a command list and the table of header 0,
before a command is issued (commands in other slots have no table, item 5
below); where the running call
stands with its slot and its counter, which is -1 only after the loop; and what
the task file register says of the call's command.

**`XhciKeyboard_proofs`** - `XhciTypeCorrect`, `EventsTakenInOrder`
(`EventsInOrder`) for any number of ports; `TransfersStayVisible` and
`KeyboardStaysArmed` for controllers with one port. The event ring's invariant
says that the entries between the two indices, and no others, carry the
consumer's cycle bit. For the keyboard the invariant counts: transfers in the
ring plus events on their way that will queue one are two, from the event of
SET_PROTOCOL on. `XhciAssumption` asks for a transfer ring of more than 3
entries (32 in the code): in one of 3, two waiting transfers meet the Link TRB.

**`Services_proofs`** has one part for each service it is about.

- Block requests: `BlockTypeCorrect`, `QueueImplemented` (`RequestQueueSpec`).
  Both lists are sorted by deadline and then by age, so the head is what the
  abstract queue must choose; a new request is the youngest.
- Tasks: `SchedulerTypeCorrect`, `NoTaskStarves` (`WaitBounded`). Only the boot
  processor is ever online, so every task is in its queue once; the rounds a
  task has waited plus its position never exceed the number of tasks.
- Shell: `ShellUsesVfs` (every behaviour of the shell is one of `Vfs` with some
  caller, so the theorems of `Vfs_proofs` hold below it), `ShellTypeCorrect`,
  `PromptSound` (`PromptIsSound`). The invariant keeps, besides the path of the
  current directory, what `cd` looked up on the way: all proper prefixes of the
  path resolve, so `..` cuts it to one that does. Resolution survives every
  call because `Vfs_proofs` shows that directories only grow.
- Timer: `TimerTypeCorrect`. `TimerAssumption`: the default frequency is one
  the PIT can make, so its divisor is not 0 (`timer.c:32`).
- ACPI: `AcpiTypeCorrect`, `SleepTypesDeclared` (`SleepsAsDeclared`). The
  invariant follows `acpi_shutdown` from step to step: on a machine whose DSDT
  declares its types the code cannot come to a guess without having written
  them, and the registers not yet written to are those still to come.
  `AcpiAssumption`: sleep types have three bits, and every `_S5_` before a
  package that the scan can read stands before the machine's own types; a
  string of the AML that looked like another package would mislead the code.
- Console: `ConsoleTypeCorrect`, `EchoTrue` (`EchoIsLine`), with any number of
  columns and whole rows, with or without a part of a row below them, any prompt, any outputs and any number of messages. The property
  speaks of the screen while the editor waits for a key, so the invariant
  (`CnInv`) says what is true between: what is being printed is what the editor
  was asked for (`Doing`); the cell of the cursor and all cells behind it are
  empty, so that what the cursor saved can go back (`CursorKept`); screen and
  back buffer show the same but for log lines that no flush has followed yet
  (`Flushed`); outputs and prompts begin a line (`LineStart`); and the line is
  on both, without the character to be drawn or with the one to be erased
  (`Echo`). The proof follows the pen through a text, character
  by character (`PensRun`), with the division of a position into row and column.
  `ConsoleAssumption`: a screen of two columns and a row at least; the prompt
  and the keys of a line hold no line feed, while each output is empty or ends
  with one, as all that `init.c` prints does, the two messages of a lock key and
  the log lines of the kernel.
- Together: `ServicesTypeCorrect` (`TypeOK`).

**`Fat32_proofs`** - `TypeCorrect`, `ChainsStaySound` (`ChainsSound`) with any
number of failed commands and power losses; `DotsInTime` (`DirsInitialised`),
`CreatedIsKept` (`CreatedStays`), `NameAddedOnce` (`NameOnce`) while no command
failed, as the properties say, with any number of power losses.
`VolumeAssumption` says what the volume is before the first mount: no cluster is
linked twice, every entry has a chain of its own and stands in a directory,
directories have their dots, hold entries, parts of names and free slots, and
nothing follows an end mark in a cluster. Of what free clusters hold it says
nothing: they are `Stale` (`FreeAreStale`), which stands for anything, also for
an end mark or an entry; nothing is concluded from it, because all properties
end (`adrift`) before such a unit would be read as part of a directory. So
the theorems say what the driver keeps up to there, on any volume in order,
and `ChainsSound` that no directory has a unit of that kind until then.
`ChainsSound` is not inductive: it says nothing of the cluster a call has
allocated and not yet linked, and in the two copies of the table marks and
links are made at different moments. `ChainInv` says that the table on the disk
is the one in memory but for marks and links not written yet (`TablesOK`); that
the first clusters of entries and nodes begin a chain in both and differ
(`HeadsOK`); and for each step of a call what is reserved by then (`CallOK`):
the new cluster is led to by nothing. From this, chains end: a chain that did not end
would visit a cluster twice, and of two ways to the same cluster one would be
linked twice or begin in the middle of the other (`ChainEnds`, by a counting
argument over a set of clusters as large as the volume). Chains from different
heads share nothing for the same reason (`ChainsApart`).
`OwnInv` says where `Stale` units may be: in no directory, but for the cluster
a running call has linked and not cleared. `DirInv` adds, while `faults = 0`: both tables are equal; directories are as
`VolumeAssumption` asks (`Tidy`); nodes are directories exactly when entries say
so; what was created stands in its directory; and the running call writes to
free slots with no end mark before them, in the directory it began with, whose
clusters hold no such name when they are full. A listing reads up to the first
end mark; in a directory without gaps nothing stands behind it (`EntrySeen`).

**`Vfs_proofs`** - `VfsTypeCorrect`, `NoNodeIsLost` (`NoNodeLost`),
`ListingsComplete` (`ListsEveryEntry`), `DescriptorsKept` (`DescriptorKept`),
`PathsKeepMeaning` (`PathsKeepTheirMeaning`). `VfsAssumption`: the boot script
mounts the root first and only then, and a cut name is a name. `TreeInv` says
that the pool is one tree: every node but the root has one parent, which is
older; `Descriptors` that a descriptor names an existing node and has listed a
prefix of what it holds. `Grows` says of every call that filled slots stay as
they are; along a path, by induction on its length (as a least
counterexample), what was found stays the first match.

Checked by TLC only: every liveness property (the prover does not treat
fairness and ENABLED); `WriteIsExact`, which needs the contents of files through
every division of an offset into clusters and units.

## Where code and comments disagree

Each of 1 to 4 and 12 has a run; the others were met while modelling and are
recorded here and under "hazards".

1. `core/mm.c:366` reserves 32 frames for bitmaps of 128 (`frames_bitmaps`).
   After one of the others was cleared, `pfa_alloc_low` may also return a frame
   at or above 4 GiB, against its comment (`:126`), once none below is left;
   `map_page` links and clears it like any other (`StrayTable`).
2. `drivers/ps2.c:12`: `input_add_char` is not safe against IRQ1
   (`keyboard_char_added`). For the same reason the polling path can read the
   data port after the handler emptied it and decode a byte twice.
3. `drivers/ahci.c:271`: after `while (timeout-- > 0)` the code tests for 0,
   and -1 is a timeout (`ahci_timeout`).
4. `drivers/xhci.c:248`: a completion is not matched with its command
   (`xhci_completion`).
5. `drivers/ahci.c:217`: the command list comes from `pfa_alloc`, which returns
   frames at or above 4 GiB, and is reached through the low half of its address.
   So is the table. `:439`: only header 0 is given one. Once a command was given
   up, `find_cmdslot` returns a later slot, whose header still has address 0,
   and `port_read` writes header and command there: `CommandsNeedSetup` says so
   much of slot 0 only. `AhciPort` keeps no contents, and takes the
   writes through address 0 to change nothing else; what is mapped there is up to
   the boot loader, and a fault is not modelled. On a machine with no memory above
   4 GiB `ahci_init` fails, which `AhciPort` includes.
6. `drivers/xhci.c`: rings in the kernel image go through `virt_to_phys`, which
   subtracts the direct-map offset from any high address (`core/mm.c:461`).
   `XhciKeyboard` assumes that the controller finds the rings; a controller
   that never answers is one of its behaviours.
7. `drivers/xhci.c:261` and `:676` drop keyboard events while a later port is
   enumerated; `:793` makes the last device the keyboard and `:816` clears the
   ring its predecessor uses. `TransfersVisible` and `KeyboardArmed` are
   therefore stated for one port.
8. `drivers/xhci.c:982`: the completion of SET_PROTOCOL is processed as a
   report and leaves two transfers on the one report buffer.
9. `drivers/xhci.c:197`: the command ring never wraps; after 31 commands every
   further one is refused.
10. `core/mm.c:110`, `:125`: the totals grow with every frame returned.
11. `fs/ramfs.c:145`: a name of 32 characters or more is created and then not
    found, and is found under its first 31 characters. `:134`: a second entry
    of the same name is accepted, and never reached.
12. `fs/fat32_vfs.c:742`: an entry that does not fit the free slots at the end
    of a cluster goes to a new one, behind an end mark that stays: it is never
    found and can be created again (`fat32_taken_name`). `NameOnce` and
    `CreatedStays` are stated for directories without such a gap.
13. `fs/fat32_vfs.c:300`: the size and first cluster of a file are never
    written to its entry, so a file opened anew is as it was at mount (the
    comment says so). `:271`, `:289`: a write cut short returns the bytes
    written, but the size stays and they cannot be read.
14. `fs/fat32_vfs.c:1019`: one page of the FAT is kept, while `:74` writes all
    its sectors from that page: beyond eight sectors the FAT on the disk is
    overwritten with whatever lies behind the page. `:66` counts clusters over
    the whole volume, so the last numbers lie beyond its end when the metadata
    take more than a cluster or two. `:993` accepts clusters larger than the
    page they are read into. `Fat32` leaves these volumes out.
15. `fs/fat32_vfs.c:224`: `vfs_write` on a descriptor of a directory overwrites
    its entries. `Fat32` writes to files only.
16. `core/mm.c:372`: the boot loader's page tables lie in reclaimable memory,
    which goes into the pool while they are in use. `:437`: a region of more
    than 64 pages is mapped in part and its address returned as if whole, as
    it is when a table cannot be allocated (`:231`). `:449`: the window grows
    until it reaches the kernel image. `WindowsStayMapped` says until when its
    promises hold.
17. `core/main.c:707`: the scheduler is set up before ACPI has counted the
    processors, so one is all it ever knows. `sched_tick` is said to be "Called
    from timer interrupt" and is not called; neither are `timer_sleep_ms` and
    `blk.c`. `blk_dispatch` always prefers reads: a write can wait for ever.
18. Console: a backspace after a wrap erases the last column, which is never
    written, and a wrap below the bottom row does not scroll until the next
    line feed (`core/main.c:271`, `:313`); a line that begins 2 lines above the
    end of a screen of 1080 does not scroll either (`:222`), and all but the
    top of it is not seen, while showing and hiding the cursor there reaches past
    the buffer (`:352`, `:376`); `EchoIsLine` counts such a line as torn.
    With a back buffer the cursor is drawn and not flushed, so it is not seen
    (`:363`); `kprintf` prints over a shown cursor (`:210`); the panic screen answers a backspace by printing
    three characters, each of which moves on (`core/panic.c:152`).
19. ACPI: with an XSDT the fall-back to the RSDT is never taken
    (`drivers/acpi.c:160`). The DSDT is read at its physical address
    (`:380`), where the tables are found through the direct map.
    Guessed sleep types include 5, which is S3 on many chipsets (`:504`). APM's
    `int 0x15` has no BIOS behind it and halts in `isr_default_handler`, so
    that "All shutdown methods failed" is never printed. A MADT entry of length
    0 keeps the walk where it is (`:282`); `Acpi` leaves it out.
20. `init/init.c:635`: `cd` accepts anything that opens, files included.
    `:434`: `write` prints "Wrote bytes to" whatever `vfs_write` returned, and
    on everything `main.c` mounts it returns -1. A `write` to a name of 32
    characters or more takes a node of the pool at every attempt and fails.
    `:143`, `:179`: paths of more than 127 characters are cut; `Shell` leaves
    them out.
21. `x86_64/syscall.asm` saves the user stack pointer in `r12`, which the
    caller expects preserved; `sys_chdir` stores the path as given, and its
    working directory is not the shell's.
22. `fs/fat32_vfs.c:98`: `fat32_extend_chain` writes the link to a new cluster,
    and only then does `fat32_create_entry` clear it (`:749`). After a power
    loss between the two the directory ends in a cluster with whatever it held
    before: old entries would show again. `:75`, `:750`, `:789`: a timeout
    of the write that marks a cluster or sets one up passes for success, and of
    the last two no result is looked at. These, and a directory read that timed
    out, are the cases in which `Fat32` goes `adrift`.

## Not modelled

- The old FAT32 reader is not built. The panic screen polls the keyboard with
  interrupts off, which `KeyboardInput` covers (`intOn = FALSE`); the rest of
  it is output.
- System calls pass their arguments to the VFS and the keyboard or return a
  constant; no user program is started in this version. `elf.c` parses a file
  image.
- The device registries are filled at boot by one loop each and only searched
  afterwards: a model would restate the loops.
- Serial port, IDT, CPU frequency, formatted output: straight-line device
  programming. User programs, host tools: thin wrappers and generators.
- In modelled parts: the conversions of long and short names and the checks of
  the boot sector in `Fat32`, the BIOS handoff and the contents of contexts in
  `XhciKeyboard`, framebuffer set-up and splash in `Console`, malformed tables
  in `Acpi`, `ps2_init` in `KeyboardInput`.

Of the lines counted as implementation, seven tenths are a generated PCI table
(`include/pci_db_generated.h`), a font (`include/gallant12x22.h`) and the boot
protocol's header (`include/limine.h`): data with nothing to model. The map
covers two fifths of the rest.

## Plan

Done: all modules named above, and the theorems listed under Proofs. What is
left, in the order of what it would add:

1. `Fat32`: `WriteIsExact` as a theorem; the conversions of names (what is
   stored is what is found).
2. `XhciKeyboard`: what can be promised with two devices.
3. The panic shell on the same console.
