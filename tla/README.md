# QuestOS in TLA+

A verification development for QuestOS, a small AArch64 SMP kernel. It covers
the parts whose correctness depends on the order in which CPUs, interrupts and
calls happen, and the parts that build state in many dependent steps:
scheduling and context switching, the bring-up of the CPUs, the physical memory
allocator, the page tables of the kernel and of the processes, the loading of
processes, and the console. Paths below are relative to the repository.

## The system and its parts

One boot CPU runs `quest_os_main`: memory, per-CPU areas, GIC, timer, scheduler
class, idle threads, PSCI, then the secondary CPUs one at a time. It loads the
user processes, waits for a key, and registers process *i* on CPU
*i mod MAX_CPUS*. Each CPU then runs `run_idle`, which switches to a process
and gets the CPU back when an exception exit finds a reschedule request.

| Part | State | Operations | What is hard about it |
|---|---|---|---|
| Scheduler (`schedule/sched.c`, `sched_round_robin.c`) | run-queue array, count, next index, `__need_resched`, `preempt_count`, `entry_task` per CPU | register, pick_next, run_process, schdule, run_idle | the boot CPU writes arrays other CPUs scan; flags balanced across two control flows |
| Exception path and context switch (`exception_entry.S`, `system_reg_helper.S`) | kernel stack, `process.sp`, TTBR0, `sp_el0` | kernel_entry/exit, process_resched, process_cpu_context_switch | two assembly routines must undo each other for every order of events |
| Arch timer (`arch_timer.c`) | CNTP control | init, start, handler, hotplug callback | the only source of preemption |
| CPU bring-up (`smp/`, `psci.c`, `quest_os_boot.S`, `main.c`) | callback table, online mask, early stack, per-CPU bases | callbacks on both sides, CPU_ON, online handshake | one shared early stack; failure of one CPU of several; no timeout |
| GICv3, generic IRQ (`gic-v3.c`, `irqdesc.c`) | redistributor bases, enable bits, handlers | init, enable, mask, dispatch | per-CPU set-up hidden failures |
| memblock, kmalloc (`mm/memblock.c`, `kmalloc.c`, `pm.c`) | memory and reserved arrays, the place of the reserved array | add, reserve, search, free, double_array | the array that describes memory is allocated from that memory |
| Process loading (`schedule/process.c`) | process table, segments, page tables | image and ELF checks, map, destroy | partial failure and clean-up |
| vmalloc areas (`mm/vm.c`) | free and busy trees, pools, lazy list | allocate, clip, merge, purge | long sequences of splits and merges |
| Page tables, fixmap, ioremap (`mmu.c`, `mm/`) | tables | map ranges | partial ranges, attribute changes |
| printk, UART (`printk.c`, `pl-uart.c`, `spinlock.S`) | lock, log buffer, status | printk, drain | recursion from an exception, buffer limit |
| System calls, user access | - | write, exit | effect on the scheduler |
| Device tree, fw_cfg, bootloader, ported libraries | - | sequential parsing and data structures | - |

`PROJECT.json` lists each part with its status and every hazard with its line.

## Modules

* **Sched** - the scheduler core. Each CPU has a program point (`pc`). Code that
  runs with IRQs masked on one CPU's own data is one step; it is split wherever
  an IRQ can arrive or another CPU can see a store. `StoreLands` is
  `round_robin_load_process` (slot and count as separate stores);
  `PreemptDisable`, `LocalIrqEnable`, `NeedResched`, `Schdule`, `RunProcess`,
  `RunProcessReturn` are `run_idle`, `schdule` and `run_process`;
  `round_robin_pick_next` takes a step per iteration: `PickBegin`, `ScanSkip`, and
  `PickNext` or `PickNone` at the end, with `ReloadCount` wherever the compiler may
  load the count again, so that the boot CPU publishes processes in the middle of a
  scan. `rqSeen` and `rqHad` are auxiliary: how many processes have a place in the
  CPU's order, and how many had one when the scan began; `El1Irq`, `El0Irq` and `El0Sync` are the
  exception vectors with the handler and the exit through `check_resched` and
  `ProcessResched`; `TimerExpires` is hardware. A resumption through a stack
  pointer where nothing was saved leads to the program point `wild`.
* **RoundRobin** - what the scheduling class promises: each CPU has a cyclic
  order of its processes, the first one in it that has not exited runs next, and
  the order is turned behind it. A process that arrives (`Arrive`) joins the order
  when the CPU next begins to choose (`Choose`) or while it does (`Notice`); a CPU
  gives up (`GiveUp`) only when all that had arrived when it began have exited. `ImplementsRoundRobin` states
  that Sched refines it; the mapping reads the order off the array, from the next
  index on and around (`Turn`).
* **SchedInvariant**, **SchedProofs** - the inductive invariant of Sched, the
  lemmas that its steps keep it, and the theorems, for any number of CPUs and
  processes.
* **RingOrder**, **SchedRefinement** - what appending to a circular array and
  moving its index do to the order read from it, and the proof that Sched
  implements RoundRobin.
* **CpuBringup** - `quest_os_main` up to registration, both sides of the cpuhp
  callback loop, the early stack and the online handshake. `Faults` is the set
  of failures the environment may cause; each is a result the code checks, or
  fails to check.
* **CpuBringupProofs** - theorems about CpuBringup for any number of CPUs.
* **Memblock** - the region arrays as sequences, `memblock_add_range`,
  `memblock_isolate_range`, the reverse walk over free ranges, the top-down
  search, `memblock_double_array`, and `kmalloc`, `kfree`, `pgtable_alloc` on
  top. The algorithms are folds over the arrays that keep the order of the C
  loops.
* **PageTable** - the four-level tables as a partial function from level and
  address to descriptors, how a range is cut into blocks and pages (`Plan`), and
  the walk of the MMU (`Walk`), which the mapping functions are checked against.
* **KernelMap** - the boot CPU's path through its own page tables: identity map
  and device-tree window, the clearing of .bss (`ClearBss`, which takes the tables
  of the device tree's window with it), `map_kernel` (map, unmap, remap), `early_fixmap_init`,
  `setup_machine_fdt` through `create_mapping_noalloc`, `early_ioremap`,
  `linear_mapping_init`. One action per call, in program order (`early_ioremap`
  any number of times after the device tree). A state of the tables counts the
  pages taken from the static pool, tables wanted while the pool pointer is NULL,
  and tables wanted from the allocator.
* **ProcessLoad** - `load_processes`, `user_processes_struct_init` and
  `user_processes_register`, one action per turn of each loop. `heap` holds the
  blocks that are allocated; `Null` names the allocations that may fail, and
  `NullTables` after how many page tables of a process. `proc` is the loop variable
  of `for_each_process`, loaded after the index moves and before it is tested
  (`Advance`). `CleanUp` is a turn of the loop in `process_map_memory` that frees
  the page tables of a failed mapping. User tables are built by `Vmap` on PageTable.
* **ProcessLoadProofs** - theorems about the table, the heap, the pids and the
  queues of ProcessLoad, for every package and pattern of failures.
* **Console** - `printk` on several CPUs: the spin lock with its exclusive load
  and store, interrupt masking, the early log, the polled UART. Each CPU has a
  task frame and an interrupt frame with a script of calls.
* **ConsoleProofs**, **ConsoleOutput** - theorems about Console for any number of
  CPUs: the lock and the interrupt mask; the log and what the line shows.

`ProcessLoad` ends with the run queues that `Sched` starts to fill
(`QueuesDealt`: every process in one place, the queues of equal length up to
one); it lets `kmalloc`
return NULL, which its callers check for; that today's `kmalloc` faults instead is
the run `kmalloc_exhausted` of `Memblock`. `KernelMap` and `ProcessLoad` share `PageTable`.

`CpuBringup` ends where `Sched` begins: `HandoffReady` gives the state that
`Sched`'s `Init` assumes (all CPUs online with their own idle process). A CPU
that is online but has not yet entered `run_idle` is `pre` in Sched; the
registration stores do not depend on the difference.

## Runs

| Run | Instance | Result |
|---|---|---|
| `sched` | 2 CPUs, 4 processes, FairSpec; 67,146 states | all properties hold |
| `bringup` | 4 CPUs (the code's MAX_CPUS), five kinds of fault; 406 states | all hold |
| `memblock` | 32 units of memory, array of 3 entries growing to 12; 5,372 states | all hold |
| `kernel_map` | 140 placements of image and device tree, tables of 4 pages per PMD entry; 6,160 states | all hold |
| `process_load` | all packages of up to 4 images of 7 kinds, table of 3, 2 CPUs; 316,058 states | all hold |
| `console` | 3 CPUs, 2 printing interrupt handlers, FIFO of 2; 138,019 states | all hold |
| `process_skip` | as `process_load`, no allocation fails | an uninitialised process is registered |
| `sched_secondary_tick` | as `sched` | a process of a secondary CPU can starve |
| `sched_boot_tick` | first tick allowed in the boot window | `NeverWild` fails |
| `sched_idle_rest` | as `sched` | the idle loop never waits |
| `sched_weak_stores` | registration stores seen in any order | `NeverWild` fails |
| `kmalloc_exhausted` | as `memblock` | `kmalloc` writes through a failed allocation |

The last six compare the code with what its documentation, comments or
callers say; each is described under "findings" in `PROJECT.json`.

What the passing runs show:

* *sched*: no resumption without a saved context (`NeverWild`); stack, saved
  stack pointer, address space and `entry_task` belong together and no process
  runs twice (`ContextOwned`); enabled interrupts never preempt the idle context
  (`IdleNotPreempted`); RUNNING means `entry_task` of the home CPU
  (`RunningIsEntryTask`); exit is final (`ZombieIsFinal`); turns are kept while
  processes are still being added (`ImplementsRoundRobin`); no process of the
  boot CPU starves (`BootCpuReadyRuns`).
* *bringup*: at most one CPU on the early stack (`EarlyStackExclusive`); no CPU
  takes interrupts or is online before its set-up (`InterruptsNeedSetup`);
  processes are handed over only when every CPU is there (`HandoffReady`); the
  boot CPU never waits for a CPU that was not released (`NoLostCpu`); the boot
  either stops, loads the processes, or waits for a CPU that was started and
  hung (`BootDecides`).
* *memblock*: arrays sorted, disjoint and minimal (`RegionsMinimal`); reserved
  is exactly what is in use (`ReservedExact`); nothing is used twice, the moving
  array included (`NoDoubleUse`); no insertion into a full array (`NoBugOn`);
  the search returns the highest fit and fails only when there is none
  (`SearchExact`).
* *kernel_map*: every byte of the image translates to its own physical
  address with the permission of its phase, and later mappings never disturb it
  (`KernelImageMapped`, `IdmapMapped`). The identity map's window of the device tree
  is complete after `map_fdt`; when .bss is cleared next, it loses what hung
  below tables from the static array `ptes`, and what is left is right; the static pools suffice (`PoolsFit`); remapping and
  `create_mapping_noalloc` find every table they need (`RemapNeedsNoTables`,
  `NoallocNeedsNoTables`); the whole device tree is readable wherever it lies
  (`FdtMapped`); device windows and the linear map stay valid (`WindowsHold`).
  `FdtMapped` depends on the page by which the window is larger than
  MAX_FDT_SIZE. Without it a tree of maximal size that starts in the page before
  a block would be mapped by a block over a live table, which `pmd_set_huge`
  silently refuses.
* *process_load*: the table has no dangling, lost or doubled entry after any
  failures, and the loops work on the entry their index names; the load after the
  last turn goes one entry past the array when the table is full, and is not used
  (`TableSound`); failures leak only what the error paths are written to
  leave (`FailedKeepsOnlyTables`); pids have no gaps (`PidsOrdered`); user address
  spaces are exactly the regions asked for (`AddressSpaceExact`); run-queue arrays
  are not overrun (`QueuesDealt`); the boot CPU gets through, but for one case: when a
  page table cannot be allocated after others of the same process were, the clean-up
  loop `process.c:85` never advances `mm->pgtable_mem` and does not end
  (`LoadCompletes`, `CleanUpStuck`).
* *console*: one frame at a time uses the shared buffer and a handler never spins
  on the lock of the task under it (`LockExclusive`); the line shows whole
  messages in lock order, the early log first (`OutputWhole`, which gives every
  character of every message its place on the line); the interrupt mask
  is restored (`IrqStateRestored`); every printk returns and every character
  leaves the UART (`PrintsComplete`).

**Bounds.** Two processes per CPU are the fewest that alternate, and two CPUs
the fewest with a boot and a secondary side; a CPU's steps touch only its own
variables and its home processes. A 32-unit memory with an array of three
entries and requests smaller and larger than a page reaches two doublings, arrays found above and below the pending block, an
exhausted memory and a failed `kfree`. `AddrMax` stands for PHYS_ADDR_MAX and
`GrowRounds` bounds the growth loop at three, one more than it can take.
The page tables keep four levels; a descriptor spans 2, 8, 128 or 256 units in
`kernel_map` and 2, 4, 16 or 64 in `process_load`, where a page is 2. Segment
sizes and load addresses on and off a block boundary reach every combination of
pages and blocks, and device trees reach one unit beyond the maximal size. Four
images overfill a process table of three; the image kinds differ in which check
or step refuses them (header, segment, meta data, arguments that do not fit the
stack) and in how they mix pages and blocks. A page-table allocation fails as the
first, the second or the fourth of its process (`NullTables`). `MaxIoremaps` is one more than the
slots. In `console` a FIFO of two is shorter than a message, which makes senders
wait, and the early log is exactly full.
Deadlock is not checked in `bringup` (it ends at registration or a halt),
`memblock` (it ends when the memory is exhausted), `kernel_map`, `process_load`
and `console` (they end when the work is done; the last two have a liveness
property that says so).

**Fairness.** A CPU that can execute kernel code keeps executing it; an armed
timer expires and its interrupt is taken at EL0. These are properties of the
hardware, not of scheduling. In Console likewise, and the UART keeps sending;
the lock itself is not fair, and no fairness of it is assumed: the scripts are
finite. In ProcessLoad the boot CPU keeps executing. Nothing is assumed of
processes, of a key arriving at the UART, or of the firmware's answers.

**Environment assumptions.** `sched` and the theorems assume that the first
tick, one 10 ms slice after the timer is started, does not arrive in the few
instructions before `preempt_disable` (`TickInBootWindow`), and that
registration stores are seen in order (`StoresInOrder`); the code enforces
neither, and a run each shows what happens otherwise. `bringup` assumes that the
per-CPU areas can be allocated and that each CPU finds its redistributor, two
results the code ignores (`main.c:40`, `gic-v3.c:709`). `kernel_map` assumes that
the static pools are zero at entry (`bss_clear` in `bootloader.S`).
`process_load` assumes segments that start on a page and do not overlap, as
`app/src/linker.ld.S` lays them out, and that end with their memory size, .bss
included, before the meta data of their image (`ImageAssumption`; neither the linker
script nor `app/tools/proc_pack.py` reserves room for .bss, so this is up to the
application), and a user
layout below the first PGD entry (`LayoutAssumption`, as in `process.h`: the walk
in `vmap_phys_range_noflush` starts at entry 0 whatever the address). `console` assumes that the early messages fit the log
(`EarlyLogAssumption`), that the text to print does not fault, and that an
exclusive store fails only when the lock was stored to.

## Proofs

The theorems hold for every value of the constants that satisfies the named
assumptions. Each rests on an inductive invariant, which TLC has checked on small
instances too (with `Nat` and `Seq` cut down where they occur in it).

| Module | Theorems | Assumptions |
|---|---|---|
| SchedProofs | `TypeCorrect`, `NoWildReturn`, `ContextsOwned`, `IdleProtected`, `RunningEntry`, `ZombiesStay` | `SchedAssumption`, `QuietBoot` |
| SchedRefinement | `RunsInTurn` | the same |
| CpuBringupProofs | `TypeCorrect`, `EarlyStackSafe`, `HandoffSafe`, `NoCpuLost` | `BringupAssumption` |
| | `InterruptsSafe` | and `ReportedFaults` |
| ProcessLoadProofs | `LoadTypeCorrect`, `TableIsSound`, `FailedIsFreed`, `PidsAreOrdered`, `QueuesAreDealt` | `ImageAssumption`, `CountAssumption`, `NullAssumption` |
| ConsoleProofs | `LockIsExclusive`, `IrqStateIsRestored` | `ScriptAssumption` |
| ConsoleOutput | `OutputIsWhole` | `ConsoleAssumption`, `ScriptAssumption`, `EarlyLogAssumption` |

**Sched.** `QuietBoot` is the pair of assumptions about the first tick and the
order of stores above; `SchedAssumption` says that processes and idle processes
are distinct. `NeverWild` is not inductive by itself:
that a return is safe depends on whose `sp` holds the idle frame, which depends
on where every process's registers are, which depends on no two CPUs running
the same process, which depends on the run queues. `IInv` therefore joins

* `CpuInv`: preemption and interrupt state at each program point;
* `CtxInv`: the context each CPU is in;
* `SpInv`: a process that does not execute has its user registers saved;
* `RqInv`: slots below the count are stored and hold processes of that CPU;
* `NewInv`: a process not registered yet is untouched;

with `TypeOK` and `RunningIsEntryTask`. One lemma per action shows that it
preserves `IInv`.

**The refinement.** A step of Sched is a step of RoundRobin or changes nothing it
sees: the store to `g_num_processes` is Arrive, the entry of a scan is Choose, a
skip past the last process known so far is Notice, the pick is Dispatch, a scan
that finds nothing is GiveUp, the way out of a process Yield or Exit. The order is read
off the array from `g_next_process` on, over the processes that have a place in it
(`rqSeen`), so the cases that need work are the ones in which the modulus or the
index changes: processes appended while the index is in the middle join the order
in the middle, and a pick at distance *k* turns the order by *k*. Both are facts
about circular arrays (module RingOrder). On top of `IInv` the proof needs
`OrderInv`: where the index and the scan are (`PositionInv`), that a published slot
holds a process that has been registered (`PublishedInv`), and that every process
the scan has passed has exited (`PassedInv`). The last one holds although the count
may grow between two iterations and change the modulus under the scan.

**CpuBringup.** That the early stack is not shared, and that every CPU is there at
the handoff, follow from one picture (`ChainInv`): the CPUs below the one being
brought up are through or were never started, and then `err` says so; those above
are untouched; the boot CPU waits only for one that was released. The faults are
arbitrary. `InterruptsSafe` needs `SetupInv`, which says what each callback has
left behind at each state, and that the two failures the code ignores do not occur
(`ReportedFaults`).

**ProcessLoad.** `TableInv` orders the entries by their image, which makes the
k-th entry at least the k-th image and thus gives room for the shift of
`process_destroy` in the middle of a loop; `HeapInv` ties every block to an entry
or to what a failed initialisation may keep; `PidInv` keeps the initialised
processes before the loop's index; `LoopInv` says what the loop variable holds,
also while a clean-up runs. The queues need a closed form: after
*i - 1 = q * Cpus + r* registrations the first *r* CPUs have *q + 1* processes
(`Dealt`), and the k-th process of CPU *c* is entry *(k - 1) * Cpus + c + 1*. That
no store passes the end of an array then follows from
`ProcessMax <= SlotMax * Cpus`. The page tables are opaque in these proofs.

**Console.** Mutual
exclusion is not inductive by itself: the exclusive store is safe because a set
monitor means nobody has stored to the free lock, and a monitor belongs to a CPU,
not to a frame, which is sound because a task inside the lock's calls is masked
and so not interrupted. That is `LockInv`; `MaskInv` adds what the saved `flags`
hold at each level, and `Types` that a frame inside a call still has that call
in its script. One step per action preserves their conjunction `IInv`.

What the line shows needs an invariant with three phases (`OutputInv`). Before
`init_printf_done` (`EarlyInv`) the boot CPU is alone and the log holds what its
script has printed, which is what bounds it. In the loop of `init_printf_done`
(`DrainInv`), which takes no lock, it is still alone, and the line has as many
characters as the loop's index has passed, carriage returns included. Afterwards
(`LateInv`) every message is complete but that of the frame that holds the lock,
whose index says how much of it is out. A character's place on the line is
`(n - 1) * Width + Column(k)`; places are in order (`PlaceOrder`), so the next
character never disturbs an earlier one.

**Only model-checked.** The liveness properties (`BootCpuReadyRuns`, `BootDecides`,
`LoadCompletes`, `PrintsComplete`): liveness and ENABLED are out of the prover's
reach. Everything about Memblock, and `AddressSpaceExact`: the algorithms are folds over
arrays and over the parts of a range, and a proof would need induction over that
data. The properties of KernelMap: they compare the result of concrete mapping
calls at boot, for the placements of the run.

## Abstractions to know of

* The time slice is a nondeterministic "expired".
* `current` at the end of `run_process` may be the value read at its start or
  `sp_el0`: the compiler is free to reuse the first read.
* A process whose name starts with `idle` would take the kernel-thread branch
  of `run_process`; no process in Sched has such a name.
* Memory attributes, NUMA, mirroring and the bottom-up search are left out of
  Memblock; the memory array holds one bank and does not grow.
* Descriptors keep their frame and one permission; the parts of a range are
  mapped as a set, because they are disjoint. A block descriptor that replaces a
  table hides what hung below it.
* Physical memory for images and stacks is given by address functions, not by
  Memblock; frames of different regions do not overlap.
* An image is the outcome of its checks plus where its segments lie. The fields
  `zero_start` and `zero_size` are not modelled: `load_user_elf` sets them and
  nothing reads them.
* `kfree` of a process's user stack gets an aligned pointer and finds a zero size in
  front of it: it frees the eight bytes of a header that is not there, inside the
  block, and the rest stays reserved. The model counts the block as kept.
* The branch of `vmap_pte_range` that writes several contiguous entries at once is
  live in the code; it gives the same translations as page by page and is left out.
* A system call is one of `sys_call_table`; that `el0t_64_handle_svc` does not
  compare the number with the table's size is not modelled.
* The allocation of a segment, whose result `load_user_elf` does not check, does not
  fail in ProcessLoad.
* In Console the status check and `local_irq_save` are one step: the status does
  not change to "forbid" while several CPUs run (only the bootloader sets it).

## Not modelled

* *vmalloc areas* (`mm/vm.c`): nothing calls `vmalloc` or `vfree`, and the purge path
  walks pool list heads that are never initialised; the kernel reaches no state of
  it beyond its initialisation.
* *GIC enable bits and the generic IRQ layer*: handlers are registered and
  enabled once, on the boot path or in a CPU's own callback; `disable_irq` has no
  caller.
* *User memory access*: page-by-page copying through the MMU's own translation.
* *Synchronous exceptions inside printk*: their handlers print, and would spin on
  the lock the CPU holds.
* *Device-tree parsing, fw_cfg, the bootloader's menu and copying, ported Linux
  and U-Boot libraries, formatting*: sequential reading of data, or pure functions
  used as what they are named after.

## Plan

1. Proofs about KernelMap that do not need the contents of the tables: the order
   of its calls and the windows of the fixmap.
2. User access on top of the address space of ProcessLoad.
