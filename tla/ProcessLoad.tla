----------------------------- MODULE ProcessLoad -----------------------------
(***************************************************************************)
(* From the package of user images in the kernel image to the run queues   *)
(* (schedule/process.c): load_processes fills g_processes, the loop of     *)
(* user_processes_struct_init gives every entry its memory, stacks and     *)
(* pid, and user_processes_register hands the table to the schedulers.     *)
(* The user address space is mapped by vmap_phys_range_noflush (mm/vm.c).  *)
(*                                                                         *)
(* All of it runs on the boot CPU.  What varies is the package and which   *)
(* kmalloc fails.  The callers check kmalloc for NULL everywhere but at    *)
(* the segments (process.c:619); Null says where the model lets it return  *)
(* NULL.  (Today's kmalloc faults instead: see Memblock and its run        *)
(* kmalloc_exhausted.)                                                     *)
(***************************************************************************)
EXTENDS PageTable

CONSTANTS
    Images,         \* the images a package may contain
    MaxImages,      \* bound: images of a package
    ProcessMax,     \* PROCESS_MAX_COUNT
    Cpus,           \* MAX_CPUS
    SlotMax,        \* MAX_PROCESS_COUNT, slots of a CPU's round-robin array
    ImageStart, ImageEnd,   \* PROCESS_IMAGE_START, PROCESS_IMAGE_END
    StackTop,       \* PROCESS_STACK_TOP
    DefaultStack, MaxStack, \* PROCESS_DEFAULT_STACK_SIZE, PROCESS_MAX_STACK_SIZE
    ImageBase(_),   \* physical address of the n-th image of the package
    StackBase(_),   \* physical address of the n-th process's user stack
    Null,           \* the allocations that may return NULL
    NullTables      \* ... and for page tables, after how many successes

(***************************************************************************)
(* An image: head is the outcome of check_image_desc, the type test and    *)
(* check_elf64_aarch64; segs are the PT_LOAD headers (valid is             *)
(* check_elf_ph); meta is the outcome of check_image_meta, metaoff and     *)
(* metasize place the meta data; stack is the requested stack size and     *)
(* args what argc, argv, env and auxv take on it.                          *)
(*                                                                         *)
(* The linker script gives segments that start on a page and do not        *)
(* overlap.  That a segment's memory size, .bss included, ends before the  *)
(* meta data of its image is an assumption: nothing in the linker script,  *)
(* the packer or the loader sees to it.                                    *)
(***************************************************************************)
SegEnd(s) == s.va + s.mem

ASSUME ImageAssumption == \A img \in Images :
    /\ Len(img.segs) \in Nat /\ DOMAIN img.segs = 1 .. Len(img.segs)
    /\ Aligned(img.metaoff, Page) /\ img.metasize > 0
    /\ Aligned(img.stack, Page)
    /\ \A i \in DOMAIN img.segs :
        /\ img.segs[i].mem > 0
        /\ Aligned(img.segs[i].va, Page) /\ Aligned(img.segs[i].off, Page)
        /\ img.segs[i].off + img.segs[i].mem <= img.metaoff
        /\ \A j \in DOMAIN img.segs : i < j =>
               \/ Up(SegEnd(img.segs[i]), Page) <= img.segs[j].va
               \/ Up(SegEnd(img.segs[j]), Page) <= img.segs[i].va

\* The whole user layout lies below one PGD entry, the first.
ASSUME LayoutAssumption ==
    /\ 0 < ImageStart /\ ImageStart < ImageEnd /\ ImageEnd < StackTop
    /\ StackTop <= PgdirSize
    /\ \A x \in {ImageStart, ImageEnd, StackTop, DefaultStack, MaxStack} : Aligned(x, Page)
    /\ \A img \in Images : Up(ImageEnd + img.metasize, Page) <= StackTop - MaxStack

ASSUME CountAssumption ==
    /\ {MaxImages, SlotMax} \subseteq Nat
    /\ Cpus \in Nat \ {0} /\ ProcessMax \in Nat \ {0}
    /\ ProcessMax <= SlotMax * Cpus

ASSUME NullAssumption ==
    /\ Null \subseteq {"process", "stack", "heap", "pgdir", "table", "kstack"}
    /\ NullTables \subseteq Nat

MetaStart == ImageEnd

VARIABLES
    pkg,            \* the package's images; the n-th becomes process n
    phase,
    i,              \* the index of the loop that is running, from 1
    proc,           \* the loop variable of for_each_process
    g_processes,    \* the entries in use, in order
    pgtable_mem,    \* nodes on proc->mm.pgtable_mem when its mapping fails
    max_pid,
    pids,           \* proc->pid of initialised processes
    tables,         \* proc->mm.pg_dir: the descriptors reachable from it
    heap,           \* blocks allocated and not freed, <<process, what>>
    queue           \* the round-robin arrays of the CPUs

vars == <<pkg, phase, i, proc, g_processes, pgtable_mem, max_pid, pids, tables, heap, queue>>

Procs == 1 .. MaxImages
Initialised == DOMAIN pids

\* What a load of g_processes[k] yields: an entry in use, what is left behind
\* the last one, or whatever follows the array.
Unused == 0
Outside == -1
Entry(table, k) ==
    IF k <= Len(table) THEN table[k] ELSE IF k <= ProcessMax THEN Unused ELSE Outside

Init ==
    /\ pkg \in UNION {[1 .. n -> Images] : n \in 0 .. MaxImages}
    /\ phase = "load"
    /\ i = 1
    /\ proc = Unused
    /\ g_processes = <<>>
    /\ pgtable_mem = 0
    /\ max_pid = 1
    /\ pids = <<>> /\ tables = <<>>
    /\ heap = {}
    /\ queue = [c \in 0 .. Cpus - 1 |-> <<>>]

-----------------------------------------------------------------------------
(* load_processes *)

\* check_section_region_valid; the overlap test gets the memory size where
\* check_vmem_region_overlap(process, start, end) expects the end.
RegionValid(segs, k) ==
    LET s == segs[k]
    IN /\ s.va >= ImageStart
       /\ SegEnd(s) <= ImageEnd
       /\ \A j \in 1 .. k - 1 : segs[j].va >= s.mem \/ SegEnd(segs[j]) <= s.va

\* The segments that load_user_elf refuses ...
BadSegments(img) ==
    {k \in DOMAIN img.segs : ~(img.segs[k].valid /\ RegionValid(img.segs, k))}

\* ... and how many it allocates before the first of them.
GoodSegments(img) ==
    IF BadSegments(img) = {} THEN Len(img.segs) ELSE Min(BadSegments(img)) - 1

\* The process_struct and the vmem_segments of process n.
ElfBlocks(n, count) == {<<n, "process", 0>>} \cup {<<n, "segment", k>> : k \in 1 .. count}

\* Mutant: the segments are forgotten.
FreeProcessOnly(n, count) == {<<n, "process", 0>>}

\* The list the clean-up walks is the list that was built, in section_load_failed
\* and in free_user_elf alike.
free_user_elf(n, count) == ElfBlocks(n, count)

\* load_one_image: a bad header allocates nothing, a bad segment or bad meta
\* data frees what was allocated; only a complete process enters g_processes.
load_one_image(n, nomem) ==
    LET img == pkg[n]
        count == GoodSegments(img)
    IN IF ~img.head \/ nomem THEN UNCHANGED <<heap, g_processes>>
       ELSE IF BadSegments(img) # {} \/ ~img.meta
       THEN /\ heap' = (heap \cup ElfBlocks(n, count)) \ free_user_elf(n, count)
            /\ UNCHANGED g_processes
       ELSE /\ heap' = heap \cup ElfBlocks(n, count)
            /\ g_processes' = Append(g_processes, n)

\* Mutant: the table's capacity is not looked at.
LoadImageUncapped ==
    /\ phase = "load"
    /\ i <= Len(pkg)
    /\ \E nomem \in {x \in BOOLEAN : x => "process" \in Null} : load_one_image(i, nomem)
    /\ i' = i + 1
    /\ UNCHANGED <<pkg, phase, proc, pgtable_mem, max_pid, pids, tables, queue>>

\* Mutant: an image that fails is tried again.
LoadImageRetry ==
    /\ phase = "load"
    /\ i <= Len(pkg)
    /\ Len(g_processes) < ProcessMax
    /\ \E nomem \in {x \in BOOLEAN : x => "process" \in Null} : load_one_image(i, nomem)
    /\ i' = IF g_processes' = g_processes THEN i ELSE i + 1
    /\ UNCHANGED <<pkg, phase, proc, pgtable_mem, max_pid, pids, tables, queue>>

\* One turn of the loop; an image that fails is skipped.
LoadImage ==
    /\ phase = "load"
    /\ i <= Len(pkg)
    /\ Len(g_processes) < ProcessMax
    /\ \E nomem \in {x \in BOOLEAN : x => "process" \in Null} : load_one_image(i, nomem)
    /\ i' = i + 1
    /\ UNCHANGED <<pkg, phase, proc, pgtable_mem, max_pid, pids, tables, queue>>

\* The package is exhausted or the table is full; the next loop starts, with
\* proc = g_processes[0] loaded before any test.
LoadEnd ==
    /\ phase = "load"
    /\ i > Len(pkg) \/ Len(g_processes) >= ProcessMax
    /\ phase' = IF g_processes = <<>> THEN "register" ELSE "init"
    /\ i' = 1
    /\ proc' = Entry(g_processes, 1)
    /\ UNCHANGED <<pkg, g_processes, pgtable_mem, max_pid, pids, tables, heap, queue>>

-----------------------------------------------------------------------------
(* vmap_phys_range_noflush *)

\* A region to map, with its protection.
Region(va, size, pa, prot) == [va |-> va, end |-> va + size, pa |-> pa, prot |-> prot]

\* The walk through the tables starts at mm->pg_dir, the first PGD entry,
\* whatever the address: the range is laid out from slot 0 on.
VmapPlan(r) ==
    LET base == Down(r.va, PgdirSize)
    IN Plan(Chunk(r.va - base, r.end - base, r.pa))

\* Missing tables are allocated and recorded in mm->pgtable_mem.  A page that is
\* mapped already, or a block in the way, is a BUG; a block descriptor replaces
\* a table and frees it.
Vmap(s, r) ==
    LET plan == VmapPlan(r)
        new == {k \in plan.tables : k \notin DOMAIN s.e}
        Live(keys) == {k \in keys : k \in DOMAIN s.e /\ s.e[k].kind = "leaf"}
    IN [e |-> Write(s.e, [k \in DOMAIN plan.leaves |-> Leaf(plan.leaves[k], r.prot)]
                           @@ [k \in new |-> Table]),
        recorded |-> s.recorded + Cardinality(new),
        bug |-> s.bug \/ Live(plan.tables \cup DOMAIN plan.leaves) # {}]
-----------------------------------------------------------------------------
(* process_memory_init and user_processes_struct_init *)

\* process_get_segment_pgprot
SegmentProt(flags) ==
    CASE "w" \in flags -> IF "x" \in flags THEN "rwx" ELSE "rw"
      [] "w" \notin flags /\ "r" \in flags -> IF "x" \in flags THEN "rx" ELSE "ro"
      [] OTHER -> "kernel"

StackSize(img) ==
    IF img.stack > MaxStack THEN MaxStack ELSE IF img.stack = 0 THEN DefaultStack ELSE img.stack

\* What the three process_map_* calls map, in their order.
Regions(img, p) ==
    [k \in DOMAIN img.segs |->
            Region(img.segs[k].va, img.segs[k].mem, ImageBase(p) + img.segs[k].off,
                   SegmentProt(img.segs[k].flags))]
       \o <<Region(MetaStart, Up(img.metasize, Page), ImageBase(p) + img.metaoff, "rw"),
            Region(StackTop - StackSize(img), StackSize(img), StackBase(p), "rw")>>

Mapped ==
    [img \in Images, p \in Procs |->
        FoldLeft(Vmap, [e |-> <<>>, recorded |-> 0, bug |-> FALSE], Regions(img, p))]

TableBlocks(p, n) == {<<p, "table", k>> : k \in 1 .. n}

\* Mutant: the count goes down, the entries stay where they are.
DestroyLast(p, live) ==
    /\ heap' = live \ ElfBlocks(p, Len(pkg[p].segs))
    /\ g_processes' = SubSeq(g_processes, 1, Len(g_processes) - 1)

\* process_destroy: the segments, the process, and its place in g_processes:
\* every entry after it moves down by one.
process_destroy(p, live) ==
    /\ heap' = live \ ElfBlocks(p, Len(pkg[p].segs))
    /\ g_processes' = [k \in 1 .. Len(g_processes) - 1 |->
                         IF \E j \in 1 .. k : g_processes[j] = p
                         THEN g_processes[k + 1] ELSE g_processes[k]]

\* The first step of the initialisation that fails: an allocation, or
\* process_stack_init when the arguments do not fit.
Failure(p, f) ==
    IF f \in {"none", "kstack"} /\ pkg[p].args > StackSize(pkg[p]) THEN "args" ELSE f

\* What has been allocated when step f fails, n tables included.
Allocated(p, f, n) ==
    CASE f = "stack" -> {}
      [] f = "heap" -> {<<p, "stack", 0>>}
      [] f = "pgdir" -> {<<p, "stack", 0>>, <<p, "heap", 0>>}
      [] f \in {"table", "args", "kstack"} ->
            {<<p, "stack", 0>>, <<p, "heap", 0>>, <<p, "pgdir", 0>>} \cup TableBlocks(p, n)

\* What the error paths hand back before process_destroy.  kfree(mm->stack) gets
\* the pointer that ALIGN_UP has moved, reads a zero size in front of it and
\* frees the eight bytes that would be a header: the block stays, less those
\* eight bytes.  pg_dir is never freed.
Released(p) == {<<p, "heap", 0>>}

\* The step of for_each_process: the index, then the load, then the loop's test.
Advance(table) == i' = i + 1 /\ proc' = Entry(table, i + 1)

\* Mutant: the pid is taken before the process is known to be complete.
InitFailsTakesPid(p, f, n) ==
    /\ IF f = "table"
       THEN /\ phase' = "cleanup"
            /\ heap' = heap \cup Allocated(p, f, n)
            /\ pgtable_mem' = n
            /\ UNCHANGED <<i, proc, g_processes>>
       ELSE /\ process_destroy(p, (heap \cup Allocated(p, f, n)) \ Released(p))
            /\ Advance(g_processes')
            /\ UNCHANGED <<phase, pgtable_mem>>
    /\ max_pid' = max_pid + 1
    /\ UNCHANGED <<pids, tables>>

\* A mapping that fails goes to process_map_memory's clean-up first.
InitFails(p, f, n) ==
    /\ IF f = "table"
       THEN /\ phase' = "cleanup"
            /\ heap' = heap \cup Allocated(p, f, n)
            /\ pgtable_mem' = n
            /\ UNCHANGED <<i, proc, g_processes>>
       ELSE /\ process_destroy(p, (heap \cup Allocated(p, f, n)) \ Released(p))
            /\ Advance(g_processes')
            /\ UNCHANGED <<phase, pgtable_mem>>
    /\ UNCHANGED <<max_pid, pids, tables>>

InitSucceeds(p, m) ==
    /\ heap' = heap \cup Allocated(p, "kstack", m.recorded) \cup {<<p, "kstack", 0>>}
    /\ pids' = [q \in Initialised \cup {p} |-> IF q = p THEN max_pid ELSE pids[q]]
    /\ max_pid' = max_pid + 1
    /\ tables' = [q \in Initialised \cup {p} |-> IF q = p THEN m.e ELSE tables[q]]
    /\ Advance(g_processes)
    /\ UNCHANGED <<phase, g_processes, pgtable_mem>>

\* The step that fails, if one does, and the tables it leaves on mm->pgtable_mem.
Tables(f, m) == IF f = "table" THEN {n \in NullTables : n < m.recorded} ELSE {m.recorded}

\* One turn of for_each_process.  The index advances after a process_destroy
\* too, past the entry that has moved into its place.
InitProcess ==
    /\ phase = "init"
    /\ i <= Len(g_processes)
    /\ \E f \in {"none"} \cup (Null \ {"process"}), m \in {Mapped[pkg[proc], proc]} :
        IF f \in {"none", "kstack"} /\ m.bug
        THEN /\ phase' = "bug"
             /\ UNCHANGED <<i, proc, g_processes, pgtable_mem, max_pid, pids, tables, heap>>
        ELSE IF Failure(proc, f) = "none" THEN InitSucceeds(proc, m)
        ELSE \E n \in Tables(f, m) : InitFails(proc, Failure(proc, f), n)
    /\ UNCHANGED <<pkg, queue>>

\* One turn of process_map_memory's clean-up loop: the table and the node at the
\* head of the list are freed, but mm->pgtable_mem is not advanced, so that the
\* next turn finds the same node.
CleanUp ==
    /\ phase = "cleanup"
    /\ pgtable_mem > 0
    /\ heap' = heap \ {<<proc, "table", pgtable_mem>>}
    /\ UNCHANGED <<pkg, phase, i, proc, g_processes, pgtable_mem, max_pid, pids, tables, queue>>

\* The list is empty: process_memory_init's error path, then process_destroy.
CleanUpEnd ==
    /\ phase = "cleanup"
    /\ pgtable_mem = 0
    /\ process_destroy(proc, heap \ Released(proc))
    /\ Advance(g_processes')
    /\ phase' = "init"
    /\ UNCHANGED <<pkg, pgtable_mem, max_pid, pids, tables, queue>>

InitEnd ==
    /\ phase = "init"
    /\ i > Len(g_processes)
    /\ phase' = "register"
    /\ i' = 1
    /\ proc' = Entry(g_processes, 1)
    /\ UNCHANGED <<pkg, g_processes, pgtable_mem, max_pid, pids, tables, heap, queue>>
-----------------------------------------------------------------------------
(* user_processes_register *)

\* Mutant: neighbours go to the same CPU.
RegisterBlocks ==
    /\ phase = "register"
    /\ i <= Len(g_processes)
    /\ queue' = [queue EXCEPT ![(i - 1) \div Cpus] = Append(@, proc)]
    /\ Advance(g_processes)
    /\ UNCHANGED <<pkg, phase, g_processes, pgtable_mem, max_pid, pids, tables, heap>>

\* Every entry of the table, initialised or not; the scheduler's array store is
\* unchecked (sched_round_robin.c:49).
Register ==
    /\ phase = "register"
    /\ i <= Len(g_processes)
    /\ queue' = [queue EXCEPT ![(i - 1) % Cpus] = Append(@, proc)]
    /\ Advance(g_processes)
    /\ UNCHANGED <<pkg, phase, g_processes, pgtable_mem, max_pid, pids, tables, heap>>

RegisterEnd ==
    /\ phase = "register"
    /\ i > Len(g_processes)
    /\ phase' = "done"
    /\ UNCHANGED <<pkg, i, proc, g_processes, pgtable_mem, max_pid, pids, tables, heap, queue>>

Next ==
    \/ LoadImage \/ LoadEnd
    \/ InitProcess \/ CleanUp \/ CleanUpEnd \/ InitEnd
    \/ Register \/ RegisterEnd

\* The boot CPU keeps executing.
Spec == Init /\ [][Next]_vars /\ WF_vars(Next)

-----------------------------------------------------------------------------
(* Properties *)

Queued == UNION {{queue[c][k] : k \in DOMAIN queue[c]} : c \in DOMAIN queue}

\* The variables keep their types, and load_processes stops at PROCESS_MAX_COUNT.
TypeOK ==
    /\ phase \in {"load", "init", "cleanup", "register", "done", "bug"}
    /\ i \in 1 .. MaxImages + 1
    /\ proc \in Procs \cup {Unused, Outside}
    /\ pgtable_mem \in Nat
    /\ g_processes \in Seq(Procs) /\ Len(g_processes) <= ProcessMax
    /\ Initialised \subseteq Procs /\ DOMAIN tables = Initialised
    /\ \A b \in heap : b[1] \in Procs
    /\ \A c \in DOMAIN queue : queue[c] \in Seq(Procs)

\* A loop over g_processes works on the entry that its index names, although
\* process_destroy moves the entries while it runs.  The load that follows the
\* last turn may miss the array, by one entry and never more: for_each_process
\* reads g_processes[PROCESS_MAX_COUNT] when it leaves the last entry of a full
\* table, and does not use the value.
LoopEntry ==
    /\ phase \in {"init", "cleanup", "register"} /\ i <= Len(g_processes) => proc = g_processes[i]
    /\ proc = Outside => i = ProcessMax + 1 /\ i > Len(g_processes)

\* Every entry of g_processes is a process that has not been freed, with all its
\* segments, in the order of the package and once: process_destroy in the middle
\* of the loop leaves no dangling, lost or doubled entry behind, and neither loop
\* works on anything but such an entry.
TableSound ==
    /\ LoopEntry
    /\ \A k \in 1 .. Len(g_processes) - 1 : g_processes[k] < g_processes[k + 1]
    /\ {n \in Procs : <<n, "process", 0>> \in heap} = ToSet(g_processes)
    /\ \A n \in ToSet(g_processes) : ElfBlocks(n, Len(pkg[n].segs)) \subseteq heap

\* An image that was refused keeps no memory at all; a process that was destroyed
\* keeps at most its stack, its page directory and its page tables (which the
\* error paths of process_memory_init and of the loop do not free).
FailedKeepsOnlyTables ==
    \A b \in heap : b[1] \notin ToSet(g_processes) => b[2] \in {"stack", "pgdir", "table"}

\* The pids of the initialised processes are 1, 2, ... without gaps, in the order
\* of the table; a process that fails takes no pid (0 is the idle threads').
PidsOrdered ==
    /\ {pids[p] : p \in Initialised} = 1 .. max_pid - 1
    /\ \A p, q \in Initialised : p < q => pids[p] < pids[q]

\* What the address space of process p should be: each page of a segment, of the
\* meta data and of the stack at its place, everything else unmapped.
Expected(p, va) ==
    LET rs == Regions(pkg[p], p)
        hit == {k \in DOMAIN rs : rs[k].va <= va /\ va < Up(rs[k].end, Page)}
    IN IF hit = {} THEN Fault
       ELSE LET r == rs[CHOOSE k \in hit : TRUE]
            IN [pa |-> r.pa + (va - r.va), prot |-> r.prot]

\* The MMU's walk through the tables that vmap_phys_range_noflush built for an
\* initialised process, with pages, 2M blocks and 1G blocks mixed, yields exactly
\* the intended address space.
AddressSpaceExact ==
    \A p \in Initialised : \A va \in 0 .. PgdirSize - 1 : Walk(tables[p], va) = Expected(p, va)

\* user_processes_register deals the table out to the CPUs one by one: every
\* entry goes to exactly one place of one queue, queues differ by at most one,
\* and no queue outgrows the array behind it, whose store is unchecked.
QueuesDealt ==
    /\ \A c \in DOMAIN queue : Len(queue[c]) <= SlotMax
    /\ \A c, d \in DOMAIN queue : Len(queue[c]) - Len(queue[d]) <= 1
    /\ \A c, d \in DOMAIN queue : \A j \in DOMAIN queue[c], k \in DOMAIN queue[d] :
         queue[c][j] = queue[d][k] => c = d /\ j = k
    /\ phase = "done" => Queued = ToSet(g_processes)

\* The boot CPU gets through loading, initialising and registering, whatever the
\* package contains and whichever allocation fails, with one exception: a page
\* table that cannot be had when others are already on mm->pgtable_mem, where the
\* clean-up loop of process_map_memory never ends (process.c:85).
CleanUpStuck == phase = "cleanup" /\ pgtable_mem > 0
LoadCompletes == <>(phase = "done" \/ CleanUpStuck)

\* "User processes first complete loading and structure initialisation, then
\* [...] are registered with the scheduler" (docs/linux-mechanisms.md:265).
RegisteredInitialised == Queued \subseteq Initialised
=============================================================================
