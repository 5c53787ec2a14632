------------------------------- MODULE PageMap -------------------------------
(***************************************************************************)
(* The page tables of src/impl/kernel/core/mm.c: map_page, which walks and *)
(* extends the four levels, and mmio_remap, which maps a device region     *)
(* page by page into a window that only grows.  Tables come from           *)
(* pfa_alloc_low, here the pool that FrameAllocator is shown to implement. *)
(*                                                                         *)
(* An address is counted in pages: a frame or a device page is its page    *)
(* number, an entry is the page number it holds, 0 if it is not present.   *)
(* Flags are left out.  The frames of the tables the boot loader built are *)
(* BOOTLOADER_RECLAIMABLE memory, which mm_init gives to the pool like any *)
(* other.                                                                  *)
(***************************************************************************)
EXTENDS Integers, FiniteSets

CONSTANTS
  Fanout,       \* entries of a table (512)
  Frames,       \* frames below 4 GiB that are in the pool
  Strays,       \* frames pfa_alloc_low may return from beyond 4 GiB
  BootTable,    \* BootTable[l]: the boot loader's table of level l
  KernelPage,   \* first page of the kernel image
  KernelFrame,  \* what that page shows
  WindowBase,   \* first page of the MMIO window (page of 0xFFFFFFFF80000000)
  PageSize,     \* bytes of a page (4096)
  PagesCap,     \* most pages mmio_remap maps (64)
  Regions,      \* device regions at or above 4 GiB that drivers map
  DeviceTop,    \* bound: largest page number of a device
  CallCap,      \* bound: calls of mmio_remap
  Dirt          \* what a word of a frame may hold when it is handed out

Index  == 0 .. Fanout - 1
Level  == 1 .. 4
Page   == 0 .. Fanout * Fanout * Fanout * Fanout - 1
Target == 1 .. DeviceTop
Root   == BootTable[1]                                 \* CR3
BootFrames == { BootTable[l] : l \in Level }

\* pml4_index, pdpt_index, pdt_index, pt_index
PageIndex(v, l) ==
  CASE l = 1 -> (v \div (Fanout * Fanout * Fanout)) % Fanout
    [] l = 2 -> (v \div (Fanout * Fanout)) % Fanout
    [] l = 3 -> (v \div Fanout) % Fanout
    [] OTHER -> v % Fanout

PagesNeeded(r) ==
  LET pages == (r.size + (r.addr % PageSize) + PageSize - 1) \div PageSize
  IN IF pages = 0 THEN 1 ELSE IF pages > PagesCap THEN PagesCap ELSE pages

ConstantsOK ==
  /\ Fanout \in Nat \ {0} /\ PageSize \in Nat \ {0} /\ PagesCap \in Nat \ {0}
  /\ DeviceTop \in Nat /\ CallCap \in Nat
  /\ Frames \subseteq Target /\ Strays \subseteq Nat \ (Frames \cup {0})
  /\ BootTable \in [Level -> Frames]
  /\ \A k, l \in Level : BootTable[k] = BootTable[l] => k = l
  /\ KernelPage \in Page /\ KernelFrame \in Target
  /\ WindowBase \in Page
  /\ Dirt \in Target
  /\ \A r \in Regions :
       /\ r.addr \in Nat /\ r.size \in Nat
       /\ r.addr \div PageSize \in Target
       /\ r.addr \div PageSize + PagesNeeded(r) \in Target
ASSUME PageMapAssumption == ConstantsOK

-----------------------------------------------------------------------------
VARIABLES
  up, avail, inUse, reply,  \* the pool behind pfa_alloc_low (FramePool)
  tables,     \* what the frames hold, as page tables
  kind,       \* level of the table kept in a frame, 0 for any other use
  nextMmio,   \* next_mmio_addr
  running,    \* a call of mmio_remap is running
  page, phys, left,   \* page being mapped, what it shall show, pages to go
  level, table,       \* where map_page stands
  region,     \* pages_needed and pages mapped or not of the running call
  windows,    \* the windows returned so far
  damaged     \* a boot table was handed out, or a table lies beyond 4 GiB

pool  == << up, avail, inUse, reply >>
walk  == << page, phys, left, level, table >>
pmVars == << pool, tables, kind, nextMmio, running, walk, region, windows, damaged >>

Pool == INSTANCE FramePool WITH Others <- Strays

Empty == [i \in Index |-> 0]
Entry == tables[table][PageIndex(page, level)]

\* The next table, or what a page shows, seen from table t; 0 for nothing.
Down(t, i) == IF t \in Frames THEN tables[t][i] ELSE 0

TableAt(v, l) ==
  LET pdpt == Down(Root, PageIndex(v, 1))
      pdt  == Down(pdpt, PageIndex(v, 2))
      pt   == Down(pdt, PageIndex(v, 3))
  IN CASE l = 1 -> Root [] l = 2 -> pdpt [] l = 3 -> pdt [] OTHER -> pt

\* What the processor finds for page v.
Translate(v) == Down(TableAt(v, 4), PageIndex(v, 4))

PmInit ==
  /\ Pool!Init
  /\ tables = [f \in Frames |-> [i \in Index |->
       IF f \notin BootFrames THEN Dirt
       ELSE LET l == CHOOSE k \in Level : BootTable[k] = f
            IN IF i # PageIndex(KernelPage, l) THEN 0
               ELSE IF l = 4 THEN KernelFrame ELSE BootTable[l + 1]]]
  /\ kind = [f \in Frames |-> IF f \in BootFrames
                              THEN CHOOSE k \in Level : BootTable[k] = f ELSE 0]
  /\ nextMmio = 0
  /\ running = FALSE
  /\ page = 0 /\ phys = 0 /\ left = 0 /\ level = 1 /\ table = Root
  /\ region = [pages |-> 0, whole |-> TRUE]
  /\ windows = {}
  /\ damaged = FALSE

\* The end of mm_init: the pool is filled, the window set up.
MmInit ==
  /\ Pool!Fill(Frames)
  /\ nextMmio' = WindowBase
  /\ UNCHANGED << tables, kind, running, walk, region, windows, damaged >>

\* mmio_remap of a region at or above 4 GiB begins.  (Below, it returns the
\* address it was given and changes nothing.)
MmioRemap(r) ==
  /\ up /\ ~running
  /\ nextMmio + PagesNeeded(r) \in Page
  /\ Cardinality(windows) < CallCap
  /\ running' = TRUE
  /\ page' = nextMmio /\ phys' = r.addr \div PageSize /\ left' = PagesNeeded(r)
  /\ level' = 1 /\ table' = Root
  /\ region' = [pages |-> PagesNeeded(r), whole |-> TRUE]
  /\ UNCHANGED << pool, tables, kind, nextMmio, windows, damaged >>

\* map_page finds the next table.
Descend ==
  /\ left > 0 /\ level < 4
  /\ Entry # 0
  /\ level' = level + 1 /\ table' = Entry
  /\ UNCHANGED << pool, tables, kind, nextMmio, running, page, phys, left,
                  region, windows, damaged >>

\* Mutant: the new table is not cleared.
Linked_Dirty(f) == [tables EXCEPT ![table][PageIndex(page, level)] = f]

\* A cleared frame f becomes the missing table.
Linked(f) ==
  [[tables EXCEPT ![f] = Empty] EXCEPT ![table][PageIndex(page, level)] = f]

\* map_page allocates the next table, clears it and links it.
NewTable ==
  /\ left > 0 /\ level < 4
  /\ Entry = 0
  /\ Pool!Acquire
  /\ tables' = Linked(reply')
  /\ kind' = [kind EXCEPT ![reply'] = level + 1]
  /\ damaged' = (damaged \/ reply' \in BootFrames)
  /\ level' = level + 1 /\ table' = reply'
  /\ UNCHANGED << nextMmio, running, page, phys, left, region, windows >>

\* The loop of mmio_remap goes to the next page.
NextPage ==
  /\ page' = page + 1 /\ phys' = phys + 1 /\ left' = left - 1
  /\ level' = 1 /\ table' = Root

\* map_page gives up on a page, keeping the tables it has already linked;
\* mmio_remap does not notice.
OutOfFrames ==
  /\ left > 0 /\ level < 4
  /\ Entry = 0
  /\ Pool!Exhausted /\ reply' = 0
  /\ NextPage
  /\ region' = [region EXCEPT !.whole = FALSE]
  /\ UNCHANGED << tables, kind, nextMmio, running, windows, damaged >>

\* No frame is left below 4 GiB and pfa_alloc_low returns one from beyond:
\* map_page takes it like any other.
StrayTable ==
  /\ left > 0 /\ level < 4
  /\ Entry = 0
  /\ Pool!Exhausted /\ reply' # 0
  /\ tables' = [tables EXCEPT ![table][PageIndex(page, level)] = reply']
  /\ level' = level + 1 /\ table' = reply'
  /\ damaged' = TRUE
  /\ UNCHANGED << kind, nextMmio, running, page, phys, left, region, windows >>

\* The last level: whatever the entry held is replaced.
MapLeaf ==
  /\ left > 0 /\ level = 4
  /\ tables' = [tables EXCEPT ![table][PageIndex(page, 4)] = phys]
  /\ NextPage
  /\ UNCHANGED << pool, kind, nextMmio, running, region, windows, damaged >>

\* Mutant: the window moves on by one page.
MmioReturn_OnePage ==
  /\ running /\ left = 0
  /\ running' = FALSE
  /\ nextMmio' = nextMmio + 1
  /\ windows' = windows \cup {[virt |-> nextMmio, phys |-> phys - region.pages,
                               pages |-> region.pages, whole |-> region.whole]}
  /\ UNCHANGED << pool, tables, kind, walk, region, damaged >>

\* mmio_remap returns the address, whether the pages are mapped or not.
MmioReturn ==
  /\ running /\ left = 0
  /\ running' = FALSE
  /\ nextMmio' = nextMmio + region.pages
  /\ windows' = windows \cup {[virt |-> nextMmio, phys |-> phys - region.pages,
                               pages |-> region.pages, whole |-> region.whole]}
  /\ UNCHANGED << pool, tables, kind, walk, region, damaged >>

\* Another driver takes a frame and fills it.
DriverTakes ==
  /\ ~running
  /\ Pool!Acquire
  /\ tables' = [tables EXCEPT ![reply'] = [i \in Index |-> Dirt]]
  /\ kind' = [kind EXCEPT ![reply'] = 0]
  /\ damaged' = (damaged \/ reply' \in BootFrames)
  /\ UNCHANGED << nextMmio, running, walk, region, windows >>

\* A driver gives back a frame of its own.
DriverReturns(f) ==
  /\ ~running
  /\ kind[f] = 0
  /\ Pool!Release(f)
  /\ UNCHANGED << tables, kind, nextMmio, running, walk, region, windows, damaged >>

\* Once a boot table is overwritten, or a table lies in a frame that may be
\* another caller's, the processor finds nothing it can rely on: such a
\* behaviour is not followed further.
PmNext ==
  /\ ~damaged
  /\ \/ MmInit
     \/ \E r \in Regions : MmioRemap(r)
     \/ Descend \/ NewTable \/ OutOfFrames \/ StrayTable \/ MapLeaf \/ MmioReturn
     \/ DriverTakes
     \/ \E f \in Frames : DriverReturns(f)

PmSpec == PmInit /\ [][PmNext]_pmVars

-----------------------------------------------------------------------------
(* Properties.                                                             *)

PmTypeOK ==
  /\ up \in BOOLEAN /\ avail \in SUBSET Frames /\ inUse \in SUBSET Frames
  /\ reply \in Frames \cup Strays \cup {0}
  /\ tables \in [Frames -> [Index -> Nat]]
  /\ kind \in [Frames -> 0 .. 4]
  /\ nextMmio \in Page
  /\ running \in BOOLEAN
  /\ page \in Nat /\ phys \in Nat /\ left \in Nat
  /\ level \in Level /\ table \in Nat
  /\ region \in [pages : Nat, whole : BOOLEAN]
  /\ \A w \in windows : w \in [virt : Page, phys : Nat, pages : Nat, whole : BOOLEAN]
  /\ damaged \in BOOLEAN

\* The first page the window has not reached.
WindowEnd == nextMmio + (IF running THEN region.pages ELSE 0)

\* Until a frame of the boot loader's tables is handed out or a table is put
\* beyond 4 GiB: every window returned without running out of frames still
\* shows its device, page by page, whatever was mapped later; and the kernel
\* image is where the boot loader put it until the window has grown onto it.
\* (A table that is not cleared, a window that does not move on or an index
\* taken from the wrong
\* bits shows up only when a later call crosses into another table.)
WindowsStayMapped ==
  ~damaged =>
    /\ \A w \in windows : w.whole =>
         \A i \in 0 .. w.pages - 1 : Translate(w.virt + i) = w.phys + i
    /\ WindowEnd <= KernelPage => Translate(KernelPage) = KernelFrame

\* Seen from outside, the four levels are one function from pages to what
\* they show, and each step of map_page changes at most the page it maps:
\* extending the tables, giving up halfway and reusing dirty frames are
\* invisible, as long as no frame of the boot loader's tables is handed out
\* and no table is put beyond 4 GiB.
AS == INSTANCE AddressSpace WITH
  Pages <- Page, Targets <- Target, None <- 0,
  space <- [v \in Page |-> Translate(v)], intact <- ~damaged
AddressSpaceSpec == AS!Spec
=============================================================================
