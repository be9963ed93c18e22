------------------------------ MODULE KernelMap ------------------------------
(***************************************************************************)
(* How the kernel builds its own address space while it boots: the         *)
(* identity map (quest_os_boot.S calls mmu_init_idmap_table), the mapping  *)
(* and remapping of the image (map_kernel.c), the fixmap window            *)
(* (fixmap.c), the device tree seen through it (fdt.c), early_ioremap and  *)
(* the linear map (mapping.c).                                             *)
(*                                                                         *)
(* Two mapping algorithms write the tables.  pg_map_range takes new tables *)
(* from a statically sized pool (pnext); __create_pgd_mapping asks         *)
(* pgtable_alloc, which has no memory to give this early in the boot.      *)
(* The boot CPU runs alone, so the phases happen in program order; what    *)
(* varies is where the image and the device tree lie and how large they    *)
(* are, and which devices are mapped.                                      *)
(***************************************************************************)
EXTENDS PageTable

CONSTANTS
    ImageVaddr,     \* IMAGE_VADDR, the first address of the image's PGD slot
    PageOffset,     \* phys_to_virt(RAM_BASE)
    RamBase, RamSize,
    FixaddrTop,     \* FIXADDR_TOP
    MaxFdtSize,     \* MAX_FDT_SIZE
    NrFixBtmaps,    \* NR_FIX_BTMAPS, pages of one early_ioremap slot
    BtmapSlots,     \* FIX_BTMAPS_SLOTS
    Boots,          \* the placements of image and device tree considered
    IoRequests,     \* the physical ranges passed to early_ioremap
    MaxIoremaps     \* bound: calls of early_ioremap

(***************************************************************************)
(* A boot: stext is the physical address of _stext; segment k of           *)
(* linker.lds.S (text, rodata, inittext, initdata, data) is the k-th       *)
(* interval of cuts, all multiples of SEGMENT_ALIGN; the device tree       *)
(* [fdt, fdt + fdtsize) lies outside the image and magic says whether its  *)
(* header is valid.                                                        *)
(***************************************************************************)
SegStart(b, k) == b.stext + b.cuts[k]
SegEnd(b, k) == b.stext + b.cuts[k + 1]
KimageEnd(b) == SegEnd(b, 5)

ASSUME BootAssumption == \A b \in Boots :
    /\ b.cuts[1] = 0 /\ \A k \in 1 .. 5 : b.cuts[k] < b.cuts[k + 1]
    /\ \A k \in 1 .. 6 : Aligned(b.stext + b.cuts[k], Page)
    /\ b.fdt + b.fdtsize <= b.stext \/ b.fdt >= KimageEnd(b)

VARIABLES
    boot,
    phase,
    idmap,      \* init_idmap_pg_dir and the tables below it
    kmap,       \* init_pg_dir, later swapper_pg_dir (a copy of its root)
    fdtv,       \* g_dt_virt, or 0
    prevMap,    \* prev_map: the pointers early_ioremap has returned, by slot
    ioCalls     \* the requests behind them, and how many calls were made

vars == <<boot, phase, idmap, kmap, fdtv, prevMap, ioCalls>>

\* A set of tables being written: the descriptors, how many tables the pool in
\* use has given and which descriptors they were linked from, the tables wanted
\* while pnext was NULL, the tables wanted from pgtable_alloc, and whether a
\* BUG_ON fired or a block was taken for a table.
Empty == [e |-> <<>>, next |-> 0, links |-> {}, null |-> 0, alloc |-> 0,
          bug |-> FALSE]

-----------------------------------------------------------------------------
(* pg_map_range *)

Missing(s, keys) == {k \in keys : k \notin DOMAIN s.e}
\* Descriptors that are already blocks where a table is expected.
NotTables(s, keys) == {k \in keys : k \in DOMAIN s.e /\ s.e[k].kind = "leaf"}

\* A missing table is linked from the pool (the present bit decides); block and
\* page descriptors overwrite whatever was there.
MapPlan(s, plan, prot, pool) ==
    [s EXCEPT !.e = Write(@, [k \in DOMAIN plan.leaves |-> Leaf(plan.leaves[k], prot)]
                               @@ [k \in Missing(s, plan.tables) |-> Table]),
              !.next = IF pool THEN @ + Cardinality(Missing(s, plan.tables)) ELSE @,
              !.links = IF pool THEN @ \cup Missing(s, plan.tables) ELSE @,
              !.null = IF pool THEN @ ELSE @ + Cardinality(Missing(s, plan.tables)),
              !.bug = @ \/ NotTables(s, plan.tables) # {}]

\* start and va_start round down, end rounds up.
pg_map_range(s, start, end, va, prot, pool) ==
    MapPlan(s, Plan(Chunk(Down(va, Page), Down(va, Page) + Up(end, Page) - Down(start, Page),
                          Down(start, Page))), prot, pool)

-----------------------------------------------------------------------------
(* The sizes of the pools, from include/pg_table.h *)

SpanNrEntries(vstart, vend, size) == (vend \div size) - (vstart \div size) + 1

\* EARLY_PAGES for four levels; the root level covers the whole space.
EarlyPages(vstart, vend, add) ==
    1 + (1 + add) + (SpanNrEntries(vstart, vend, PgdirSize) + add)
      + (SpanNrEntries(vstart, vend, PudSize) + add)

EarlyIdmapExtraPages == 3
EarlyIdmapExtraFdtPages == 2
\* Mutant: no allowance for segment boundaries.
NoSegmentExtraPages == 0

EarlySegmentExtraPages == 5 + 1

\* kimage_limit = ALIGN(_end + SZ_64K, SZ_2M), here a page for the 64K.
KimageLimit(b) == Up(ImageVaddr + b.cuts[6] + Page, PmdSize)

InitIdmapDirPages(b) == EarlyPages(ImageVaddr, KimageLimit(b), 1) + EarlyIdmapExtraPages
InitIdmapFdtPages == EarlyPages(0, MaxFdtSize, 1) - 1 + EarlyIdmapExtraFdtPages
InitDirPages(b) == EarlyPages(ImageVaddr, ImageVaddr + b.cuts[6], 1) + EarlySegmentExtraPages
LinearPages == EarlyPages(RamBase, RamBase + RamSize, 1) + EarlyIdmapExtraPages

-----------------------------------------------------------------------------
(* The identity map and the kernel image *)

Init ==
    /\ boot \in Boots
    /\ phase = "reset"
    /\ idmap = Empty /\ kmap = Empty
    /\ fdtv = 0
    /\ prevMap = <<>>
    /\ ioCalls = [n |-> 0, done |-> <<>>]

\* The first page of each pool is the root itself.
mmu_init_idmap_table ==
    /\ phase = "reset"
    /\ LET rom == pg_map_range([Empty EXCEPT !.next = 1], boot.stext, SegStart(boot, 4),
                               boot.stext, "rx", TRUE)
       IN idmap' = pg_map_range(rom, SegStart(boot, 4), KimageEnd(boot),
                                SegStart(boot, 4), "rwx", TRUE)
    /\ phase' = "idmap"
    /\ UNCHANGED <<boot, kmap, fdtv, prevMap, ioCalls>>

\* Mutant: the window is not cut at the image.
FdtWindowEndUncut(b) == b.fdt + MaxFdtSize

\* The window stops short of an image that lies above the device tree.
FdtWindowEnd(b) ==
    IF b.stext > b.fdt THEN Smaller(b.stext, b.fdt + MaxFdtSize) ELSE b.fdt + MaxFdtSize

\* Takes its tables from a pool of its own, the static array ptes in .bss.
map_fdt ==
    /\ phase = "idmap"
    /\ idmap' = pg_map_range([idmap EXCEPT !.next = 0, !.links = {}], boot.fdt,
                             FdtWindowEnd(boot), boot.fdt, "rw", TRUE)
    /\ phase' = "idmapFdt"
    /\ UNCHANGED <<boot, kmap, fdtv, prevMap, ioCalls>>

\* The descriptors that lie in the tables taken from the pool, or below them.
InPool(s) ==
    {k \in DOMAIN s.e : \E t \in s.links : t[1] > k[1] /\ Key(t[1], k[2]) = t}

\* early_map_kernel clears .bss and the initial page tables only now, and with
\* .bss the tables that map_fdt has just filled; what links to them stays.
ClearBss ==
    /\ phase = "idmapFdt"
    /\ idmap' = [idmap EXCEPT !.e = Restrict(@, DOMAIN @ \ InPool(idmap))]
    /\ kmap' = Empty
    /\ phase' = "cleared"
    /\ UNCHANGED <<boot, fdtv, prevMap, ioCalls>>

map_segment(s, k, prot, pool) ==
    pg_map_range(s, SegStart(boot, k), SegEnd(boot, k),
                 ImageVaddr + boot.cuts[k], prot, pool)

\* map_kernel up to relocate_kernel(): everything is writable.
MapKernel ==
    /\ phase = "cleared"
    /\ kmap' = FoldLeft(LAMBDA s, k : map_segment(s, k, "rw", TRUE),
                        [kmap EXCEPT !.next = 1], <<1, 2, 3, 4, 5>>)
    /\ phase' = "relocate"
    /\ UNCHANGED <<boot, idmap, fdtv, prevMap, ioCalls>>

\* Mutant: va_offset is dropped.
UnmapTextPhysical ==
    /\ phase = "relocate"
    /\ kmap' = pg_map_range(kmap, SegStart(boot, 1), SegEnd(boot, 1), SegStart(boot, 1), "none", FALSE)
    /\ phase' = "textUnmapped"
    /\ UNCHANGED <<boot, idmap, fdtv, prevMap, ioCalls>>

\* unmap_segment maps with no attributes at all: no access flag is set.
UnmapText ==
    /\ phase = "relocate"
    /\ kmap' = map_segment(kmap, 1, "none", FALSE)
    /\ phase' = "textUnmapped"
    /\ UNCHANGED <<boot, idmap, fdtv, prevMap, ioCalls>>

\* Mutant: inittext stays writable and not executable.
RemapTextOnly ==
    /\ phase = "textUnmapped"
    /\ kmap' = map_segment(kmap, 1, "rox", FALSE)
    /\ phase' = "remapped"
    /\ UNCHANGED <<boot, idmap, fdtv, prevMap, ioCalls>>

\* The text and inittext segments again, read-only and executable; the root is
\* then copied to swapper_pg_dir.
RemapText ==
    /\ phase = "textUnmapped"
    /\ kmap' = map_segment(map_segment(kmap, 1, "rox", FALSE), 3, "rox", FALSE)
    /\ phase' = "remapped"
    /\ UNCHANGED <<boot, idmap, fdtv, prevMap, ioCalls>>

-----------------------------------------------------------------------------
(* fixmap: enum fixed_addresses and early_fixmap_init *)

\* Mutant: no page for a device tree that crosses a page boundary.
FixFdtNoExtraPage == 1 + ((MaxFdtSize + Page - 1) \div Page)

FIX_FDT == 1 + ((MaxFdtSize + Page - 1) \div Page) + 1
FIX_BTMAP_END == FIX_FDT + 3
FIX_BTMAP_BEGIN == FIX_BTMAP_END + (NrFixBtmaps * BtmapSlots) - 1
FIX_PTE == FIX_BTMAP_BEGIN + 1
FIX_PMD == FIX_BTMAP_BEGIN + 2
FIX_PUD == FIX_BTMAP_BEGIN + 3
EndOfFixedAddresses == FIX_BTMAP_BEGIN + 5

FixToVirt(idx) == FixaddrTop - (idx * Page)
FixaddrTotStart == FixToVirt(EndOfFixedAddresses)

\* Mutant: the loop over the window stops one PMD entry early.
EarlyFixmapInitShort ==
    /\ phase = "remapped"
    /\ LET old == {k \in DOMAIN kmap.e : Down(k[2], PgdirSize) = Down(FixaddrTotStart, PgdirSize)}
           pmds == Parts(Chunk(FixaddrTotStart, FixaddrTop - PmdSize, 0), 1)
           new == {Key(3, FixaddrTotStart), Key(2, FixaddrTotStart)} \cup {Key(1, c.va) : c \in pmds}
       IN kmap' = [kmap EXCEPT !.e = [k \in new |-> Table] @@ Restrict(@, DOMAIN @ \ old)]
    /\ phase' = "fixmap"
    /\ UNCHANGED <<boot, idmap, fdtv, prevMap, ioCalls>>

\* One statically allocated table per PMD entry of the window.  The PGD entry
\* is overwritten whatever it held.
early_fixmap_init ==
    /\ phase = "remapped"
    /\ LET old == {k \in DOMAIN kmap.e : Down(k[2], PgdirSize) = Down(FixaddrTotStart, PgdirSize)}
           pmds == Parts(Chunk(FixaddrTotStart, FixaddrTop, 0), 1)
           new == {Key(3, FixaddrTotStart), Key(2, FixaddrTotStart)} \cup {Key(1, c.va) : c \in pmds}
       IN kmap' = [kmap EXCEPT !.e = [k \in new |-> Table] @@ Restrict(@, DOMAIN @ \ old)]
    /\ phase' = "fixmap"
    /\ UNCHANGED <<boot, idmap, fdtv, prevMap, ioCalls>>

\* __set_fixmap, with flags or, to clear a slot, without.
SetFixmap(e, idx, pa, prot) == (<<0, FixToVirt(idx)>> :> Leaf(pa, prot)) @@ e
ClearFixmap(e, idx) == Restrict(e, DOMAIN e \ {<<0, FixToVirt(idx)>>})

-----------------------------------------------------------------------------
(* __create_pgd_mapping and the levels below it, with NO_CONT_MAPPINGS *)

\* pgattr_change_is_safe: a live descriptor keeps its frame.
ChangeIsSafe(old, new) == old.kind = "none" \/ (old.kind = "leaf" /\ old.pa = new.pa)

\* A missing table comes from pgtable_alloc(), which every level calls whatever
\* create_mapping_noalloc asked for.  A block or page descriptor is stored when
\* the change is safe: for a page anything else is a BUG, for a block
\* (pmd_set_huge, pud_set_huge) it is silently left out.  The tables are reached
\* through the slots FIX_PTE, FIX_PMD and FIX_PUD, which end up cleared.
CreatePlan(s, plan, prot) ==
    LET New(k) == Leaf(plan.leaves[k], prot)
        Old(k) == Lookup(s.e, k[1], k[2])
        refused == {k \in DOMAIN plan.leaves : ~ChangeIsSafe(Old(k), New(k))}
        e == Write(s.e, [k \in DOMAIN plan.leaves \ refused |-> New(k)]
                          @@ [k \in Missing(s, plan.tables) |-> Table])
    IN [s EXCEPT !.e = ClearFixmap(ClearFixmap(ClearFixmap(e, FIX_PTE), FIX_PMD), FIX_PUD),
                 !.alloc = @ + Cardinality(Missing(s, plan.tables)),
                 !.bug = @ \/ NotTables(s, plan.tables) # {} \/ \E k \in refused : k[1] = 0]

create_mapping_noalloc(s, phys, virt, size, prot) ==
    CreatePlan(s, Plan(Chunk(Down(virt, Page), Up(virt + size, Page), Down(phys, Page))), prot)

-----------------------------------------------------------------------------
(* The device tree, device windows and the linear map *)

FdtOffset == boot.fdt % Page
\* Addresses of the model are multiples of MIN_FDT_ALIGN; 0 is no device tree.
FdtHeaderOk == boot.fdt # 0 /\ boot.magic /\ boot.fdtsize <= MaxFdtSize

\* The first page is mapped to read the header, then the whole of it.
fixmap_remap_fdt(s, prot) ==
    LET base == Down(boot.fdt, Page)
        first == create_mapping_noalloc(s, base, FixToVirt(FIX_FDT), Page, prot)
    IN IF boot.fdt = 0 THEN s
       ELSE IF FdtHeaderOk /\ FdtOffset + boot.fdtsize > Page
       THEN create_mapping_noalloc(first, base, FixToVirt(FIX_FDT),
                                   FdtOffset + boot.fdtsize, prot)
       ELSE first

\* Mapped writable for fix-ups, then again read-only.
setup_machine_fdt ==
    /\ phase = "fixmap"
    /\ LET rw == fixmap_remap_fdt(kmap, "rw")
       IN kmap' = IF FdtHeaderOk THEN fixmap_remap_fdt(rw, "ro") ELSE rw
    /\ fdtv' = IF FdtHeaderOk THEN FixToVirt(FIX_FDT) + FdtOffset ELSE 0
    /\ phase' = "fdt"
    /\ UNCHANGED <<boot, idmap, prevMap, ioCalls>>

\* slot_virt, filled by early_ioremap_setup; slots are numbered from 0.
SlotVirt(slot) == FixToVirt(FIX_BTMAP_BEGIN - (NrFixBtmaps * slot))

IoPages(r) == (Up(r.phys + r.size, Page) - Down(r.phys, Page)) \div Page

\* Mutant: the index runs upwards, where addresses run downwards.
MapSlotUp(e, slot, r) ==
    FoldLeft(LAMBDA f, j : SetFixmap(f, FIX_BTMAP_BEGIN - (NrFixBtmaps * slot) + j,
                                     Down(r.phys, Page) + (j * Page), "dev"),
             e, [i \in 1 .. IoPages(r) |-> i - 1])

\* Page j of the request goes to fixmap index FIX_BTMAP_BEGIN - slot's base - j.
MapSlot(e, slot, r) ==
    FoldLeft(LAMBDA f, j : SetFixmap(f, FIX_BTMAP_BEGIN - (NrFixBtmaps * slot) - j,
                                     Down(r.phys, Page) + (j * Page), "dev"),
             e, [i \in 1 .. IoPages(r) |-> i - 1])

\* Mutant: a slot past the last one is handed out.
EarlyIoremapAnySlot(r) ==
    /\ phase \in {"fdt", "linear"}
    /\ ioCalls.n < MaxIoremaps
    /\ LET slot == Len(prevMap)
       IN IF slot <= BtmapSlots /\ r.size > 0 /\ IoPages(r) <= NrFixBtmaps
          THEN /\ kmap' = [kmap EXCEPT !.e = MapSlot(@, slot, r)]
               /\ prevMap' = Append(prevMap, SlotVirt(slot) + (r.phys % Page))
               /\ ioCalls' = [n |-> ioCalls.n + 1, done |-> Append(ioCalls.done, r)]
          ELSE /\ ioCalls' = [ioCalls EXCEPT !.n = @ + 1]
               /\ UNCHANGED <<kmap, prevMap>>
    /\ UNCHANGED <<boot, phase, idmap, fdtv>>

\* No free slot, an empty range and one larger than a slot all yield NULL.
early_ioremap(r) ==
    /\ phase \in {"fdt", "linear"}
    /\ ioCalls.n < MaxIoremaps
    /\ LET slot == Len(prevMap)
       IN IF slot < BtmapSlots /\ r.size > 0 /\ IoPages(r) <= NrFixBtmaps
          THEN /\ kmap' = [kmap EXCEPT !.e = MapSlot(@, slot, r)]
               /\ prevMap' = Append(prevMap, SlotVirt(slot) + (r.phys % Page))
               /\ ioCalls' = [n |-> ioCalls.n + 1, done |-> Append(ioCalls.done, r)]
          ELSE /\ ioCalls' = [ioCalls EXCEPT !.n = @ + 1]
               /\ UNCHANGED <<kmap, prevMap>>
    /\ UNCHANGED <<boot, phase, idmap, fdtv>>

\* All of RAM, from a pool of its own.
linear_mapping_init ==
    /\ phase = "fdt"
    /\ kmap' = pg_map_range([kmap EXCEPT !.next = 0, !.links = {}], RamBase, RamBase + RamSize,
                            PageOffset, "rw", TRUE)
    /\ phase' = "linear"
    /\ UNCHANGED <<boot, idmap, fdtv, prevMap, ioCalls>>

Next ==
    \/ mmu_init_idmap_table
    \/ map_fdt
    \/ ClearBss
    \/ MapKernel
    \/ UnmapText
    \/ RemapText
    \/ early_fixmap_init
    \/ setup_machine_fdt
    \/ \E r \in IoRequests : early_ioremap(r)
    \/ linear_mapping_init

Spec == Init /\ [][Next]_vars
-----------------------------------------------------------------------------
(* Properties *)

Tables == [e : {kmap.e, idmap.e}, next : Nat, links : {kmap.links, idmap.links},
           null : Nat, alloc : Nat, bug : BOOLEAN]

\* The shape of the state: descriptors sit at addresses their level can have.
TypeOK ==
    /\ boot \in Boots
    /\ idmap \in Tables /\ kmap \in Tables
    /\ \A k \in DOMAIN kmap.e \cup DOMAIN idmap.e : k[1] \in 0 .. 3 /\ Aligned(k[2], Span(k[1]))
    /\ Len(prevMap) <= BtmapSlots /\ Len(prevMap) = Len(ioCalls.done)

\* What segment k may be used for, phase by phase (map_kernel).
SegProt(k) ==
    CASE phase = "relocate" -> "rw"
      [] phase = "textUnmapped" -> IF k = 1 THEN "none" ELSE "rw"
      [] OTHER -> IF k \in {1, 3} THEN "rox" ELSE "rw"

\* From map_kernel to the end of the boot every byte of the image translates
\* to its own physical address, writable while relocate_kernel() runs and with
\* its final permissions afterwards, and no address above the image is mapped:
\* the fixmap, the device tree, device windows and the linear map, written
\* into the same tables later, never disturb it.
KernelImageMapped ==
    phase \notin {"reset", "idmap", "idmapFdt", "cleared"} =>
        /\ \A k \in 1 .. 5 : MapsTo(kmap.e, ImageVaddr + boot.cuts[k],
                                    boot.cuts[k + 1] - boot.cuts[k], SegStart(boot, k), SegProt(k))
        /\ \A v \in ImageVaddr + boot.cuts[6] .. ImageVaddr + PgdirSize - 1 :
                Walk(kmap.e, v) = Fault

\* The identity map keeps the image executable up to initdata and writable
\* from there, also after map_fdt has put the device tree (which may lie right
\* below the image, in the same block) into the same tables: no block of the
\* image is taken for a table there.  Clearing .bss then takes back those tables
\* of the device tree that came from ptes (map_kernel.c:15, 110), and nothing of
\* the image: from there on an address of the device tree's window translates
\* to itself or faults.
IdmapMapped ==
    /\ ~idmap.bug
    /\ phase # "reset" =>
        /\ MapsTo(idmap.e, boot.stext, boot.cuts[4], boot.stext, "rx")
        /\ MapsTo(idmap.e, SegStart(boot, 4), boot.cuts[6] - boot.cuts[4], SegStart(boot, 4), "rwx")
    /\ phase = "idmapFdt" /\ boot.fdtsize <= MaxFdtSize =>
        MapsTo(idmap.e, boot.fdt, boot.fdtsize, boot.fdt, "rw")
    /\ phase \notin {"reset", "idmap", "idmapFdt"} =>
        \A v \in boot.fdt .. FdtWindowEnd(boot) - 1 :
          Walk(idmap.e, v) # Fault => MapsTo(idmap.e, v, 1, v, "rw")

\* The statically sized pools are never overrun: INIT_IDMAP_DIR_SIZE,
\* INIT_IDMAP_FDT_SIZE, INIT_DIR_SIZE and the linear map's PTEP_SIZE leave room
\* for the tables that segment boundaries and misaligned ranges cost.
PoolsFit ==
    /\ idmap.next <= IF phase \in {"reset", "idmap"} THEN InitIdmapDirPages(boot)
                                                     ELSE InitIdmapFdtPages
    /\ kmap.next <= IF phase = "linear" THEN LinearPages ELSE InitDirPages(boot)

\* "No new page table allocations should be needed" (map_kernel.c:92): the
\* unmapping and the remapping, called with a NULL pool, find every table.
RemapNeedsNoTables == kmap.null = 0

\* create_mapping_noalloc "can only be used to modify existing table entries,
\* without allocating new levels of table" (mmu.c:470): nothing in the function
\* enforces it, the fixmap's own tables have to be there; pgtable_alloc would
\* spin.  No BUG_ON fires and no block is taken for a table either.
NoallocNeedsNoTables == kmap.alloc = 0 /\ ~kmap.bug

\* The device tree that setup_machine_fdt returns is all there, read-only,
\* wherever it lies and up to MAX_FDT_SIZE.  A part that fills a whole PMD would
\* silently stay unmapped (pmd_set_huge refuses a live table).
FdtMapped ==
    fdtv # 0 => MapsTo(kmap.e, fdtv, boot.fdtsize, boot.fdt, "ro")

\* Every pointer early_ioremap ever returned still reaches its own device, and
\* after linear_mapping_init all of RAM is reached through the linear map.
WindowsHold ==
    /\ \A i \in DOMAIN prevMap :
          MapsTo(kmap.e, prevMap[i], ioCalls.done[i].size, ioCalls.done[i].phys, "dev")
    /\ phase = "linear" => MapsTo(kmap.e, PageOffset, RamSize, RamBase, "rw")
=============================================================================
