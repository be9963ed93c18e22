-------------------------- MODULE ProcessLoadProofs --------------------------
(***************************************************************************)
(* The process table, the heap, the pids and the run queues of             *)
(* ProcessLoad, proved for every package, every table size and number of   *)
(* CPUs, and whichever allocations fail.  What the page tables contain is  *)
(* not used: the tables of a process are opaque here.                      *)
(***************************************************************************)
EXTENDS ProcessLoad, TLAPS

\* g_processes_count
Count == Len(g_processes)

\* The table: entries in the order of the package and without repetition, so
\* that the k-th entry is at least the k-th image; while images are loaded, all
\* entries and all blocks are of earlier images.
TableInv ==
    /\ Len(pkg) \in 0 .. MaxImages
    /\ \A n \in 1 .. Len(pkg) : pkg[n] \in Images
    /\ phase \in {"load", "init", "cleanup", "register", "done", "bug"}
    /\ i \in 1 .. MaxImages + 1
    /\ g_processes \in Seq(Nat) /\ Count <= ProcessMax
    /\ \A k \in 1 .. Count : k <= g_processes[k] /\ g_processes[k] <= Len(pkg)
    /\ \A j, k \in 1 .. Count : j < k => g_processes[j] < g_processes[k]
    /\ phase = "load" =>
         /\ \A k \in 1 .. Count : g_processes[k] < i
         /\ \A b \in heap : b[1] < i
         /\ Initialised = {}

\* The loops over the table: the loop variable is what the last load found, the
\* index is at most one past the array, and a clean-up works on the entry in hand.
LoopInv ==
    /\ proc \in Procs \cup {Unused, Outside}
    /\ pgtable_mem \in Nat
    /\ phase = "load" => proc = Unused
    /\ phase \in {"init", "register"} => i <= ProcessMax + 1 /\ proc = Entry(g_processes, i)
    /\ phase = "cleanup" => i \in 1 .. Count /\ proc = g_processes[i]
    /\ proc = Outside => i = ProcessMax + 1 /\ i > Count

\* The heap: the blocks of load_user_elf belong to entries of the table and are
\* complete; a user heap or a kernel stack belongs to an initialised process, or
\* the heap to the one whose mapping is being cleaned up.
Elf == {"process", "segment"}

HeapInv ==
    /\ \A b \in heap :
         /\ b = <<b[1], b[2], b[3]>>
         /\ b[1] \in Procs
         /\ b[2] \in Elf \cup {"stack", "heap", "pgdir", "table", "kstack"}
         /\ b[2] \in Elf => /\ b[1] \in ToSet(g_processes)
                            /\ b \in ElfBlocks(b[1], Len(pkg[b[1]].segs))
         /\ b[2] \in {"heap", "kstack"} =>
              b[1] \in Initialised \/ (phase = "cleanup" /\ b = <<proc, "heap", 0>>)
    /\ \A n \in ToSet(g_processes) : ElfBlocks(n, Len(pkg[n].segs)) \subseteq heap

\* The pids: what is initialised is in the table, before the loop's index.
PidInv ==
    /\ max_pid \in Nat \ {0}
    /\ DOMAIN tables = Initialised
    /\ Initialised \subseteq ToSet(g_processes)
    /\ phase \in {"init", "cleanup"} => \A n \in Initialised, k \in i .. Count : n < g_processes[k]
    /\ PidsOrdered

\* The queues: after i - 1 = q * Cpus + r registrations, the first r CPUs have
\* q + 1 processes and the others q; the k-th process of CPU c is the one that
\* the table has at Place(c, k).
Place(c, k) == ((k - 1) * Cpus) + c + 1

Dealt(q, r) ==
    /\ i - 1 = (q * Cpus) + r
    /\ \A c \in 0 .. Cpus - 1 : Len(queue[c]) = IF c < r THEN q + 1 ELSE q

QueueInv ==
    /\ queue \in [0 .. Cpus - 1 -> Seq(Procs)]
    /\ phase \notin {"register", "done"} => \A c \in 0 .. Cpus - 1 : queue[c] = <<>>
    /\ phase \in {"register", "done"} =>
         /\ i <= Count + 1
         /\ \E q \in 0 .. i, r \in 0 .. Cpus - 1 : Dealt(q, r)
         /\ \A k \in 1 .. i - 1 :
              \E c \in 0 .. Cpus - 1 : \E j \in 1 .. Len(queue[c]) : queue[c][j] = g_processes[k]
    /\ phase = "done" => i = Count + 1
    /\ \A c \in 0 .. Cpus - 1 : \A k \in 1 .. Len(queue[c]) :
         Place(c, k) \in 1 .. Count /\ queue[c][k] = g_processes[Place(c, k)]

IInv == TableInv /\ LoopInv /\ HeapInv /\ PidInv /\ QueueInv

-----------------------------------------------------------------------------
(* Arithmetic of dealing out                                               *)

LEMMA ProductBound ==
  ASSUME NEW x \in Int, NEW y \in Int, NEW n \in Nat \ {0}, x < y
  PROVE  (x * n) + n <= y * n
<1>1. PICK d \in Nat : y = x + 1 + d
  <2>1. y - x - 1 \in Nat /\ y = x + 1 + (y - x - 1)
    OBVIOUS
  <2> QED
    BY <2>1
<1>2. d * n >= 0
  OBVIOUS
<1>3. y * n = (x * n) + n + (d * n)
  BY <1>1
<1> QED
  BY <1>2, <1>3

\* Quotient and remainder are unique.
LEMMA DivisionUnique ==
  ASSUME NEW n \in Nat \ {0}, NEW p \in Int, NEW q \in Int,
         NEW r \in 0 .. n - 1, NEW s \in 0 .. n - 1, (p * n) + r = (q * n) + s
  PROVE  p = q /\ r = s
<1>0. p * n \in Int /\ q * n \in Int
  OBVIOUS
<1>1. ~(p < q)
  BY <1>0, ProductBound
<1>2. ~(q < p)
  BY <1>0, ProductBound
<1> QED
  BY <1>0, <1>1, <1>2

LEMMA Remainder ==
  ASSUME NEW n \in Nat \ {0}, NEW q \in Nat, NEW r \in 0 .. n - 1
  PROVE  ((q * n) + r) % n = r
<1> DEFINE a == (q * n) + r
<1>1. a \in Nat
  OBVIOUS
<1> HIDE DEF a
<1>2. /\ a % n \in 0 .. n - 1
      /\ a \div n \in Int
      /\ a = ((a \div n) * n) + (a % n)
  BY <1>1
<1>3. a = (q * n) + r
  BY DEF a
<1>4. PICK d \in Int, m \in 0 .. n - 1 : m = a % n /\ a = (d * n) + m
  BY <1>2
<1>5. (d * n) + m = (q * n) + r /\ q \in Int
  BY <1>3, <1>4
<1>6. r = m
  BY <1>5, DivisionUnique, Zenon
<1> QED
  BY <1>4, <1>6 DEF a

-----------------------------------------------------------------------------
(* The initial states and the loop over the package                        *)

LEMMA InitInv == Init => IInv
<1> SUFFICES ASSUME Init PROVE IInv
  OBVIOUS
<1>1. PICK n \in 0 .. MaxImages : pkg \in [1 .. n -> Images]
  BY DEF Init
<1>2. Len(pkg) = n /\ \A k \in 1 .. n : pkg[k] \in Images
  BY <1>1, CountAssumption
<1>3. g_processes = <<>> /\ Count = 0 /\ ToSet(g_processes) = {} /\ Initialised = {}
  BY DEF Init, Count, ToSet, Initialised
<1>4. TableInv
  BY <1>2, <1>3, CountAssumption DEF Init, TableInv
<1>5. HeapInv
  BY <1>3 DEF Init, HeapInv
<1>6. PidInv
  <2>1. PidsOrdered
    BY <1>3 DEF Init, PidsOrdered
  <2> QED
    BY <1>3, <2>1 DEF Init, PidInv, Initialised
<1>7. QueueInv
  BY <1>3, CountAssumption DEF Init, QueueInv
<1>8. LoopInv
  BY CountAssumption DEF Init, LoopInv, Unused, Outside
<1> QED
  BY <1>4, <1>5, <1>6, <1>7, <1>8 DEF IInv

\* What the entries of the table are, for use in the lemmas below.
LEMMA TableFacts ==
  ASSUME TableInv
  PROVE  /\ Count \in Nat /\ Count <= MaxImages
         /\ DOMAIN g_processes = 1 .. Count
         /\ \A k \in 1 .. Count : g_processes[k] \in Procs
         /\ \A j, k \in 1 .. Count : g_processes[j] = g_processes[k] => j = k
         /\ \A n : n \in ToSet(g_processes) <=> \E k \in 1 .. Count : n = g_processes[k]
         /\ \A n \in ToSet(g_processes) : /\ n \in Procs
                                          /\ pkg[n] \in Images
                                          /\ Len(pkg[n].segs) \in Nat
<1>1. Count \in Nat /\ DOMAIN g_processes = 1 .. Count
  BY DEF TableInv, Count
<1>2. \A k \in 1 .. Count : g_processes[k] \in Procs /\ pkg[g_processes[k]] \in Images
  BY <1>1, CountAssumption DEF TableInv, Procs
<1>3. Count <= MaxImages
  BY <1>1, CountAssumption DEF TableInv
<1>4. \A n : n \in ToSet(g_processes) <=> \E k \in 1 .. Count : n = g_processes[k]
  BY <1>1 DEF ToSet
<1>5. \A j, k \in 1 .. Count : g_processes[j] = g_processes[k] => j = k
  BY <1>1, <1>2 DEF TableInv, Procs
<1> QED
  BY <1>1, <1>2, <1>3, <1>4, <1>5, ImageAssumption

\* After a load of g_processes the loop variable is in order, whatever the load
\* found.
LEMMA EntryLoop ==
  ASSUME TableInv', phase' \in {"init", "register"}, i' \in 1 .. ProcessMax + 1,
         proc' = Entry(g_processes', i'), pgtable_mem' \in Nat
  PROVE  LoopInv'
<1>1. /\ Len(g_processes)' \in Nat /\ Len(g_processes)' <= ProcessMax
      /\ \A k \in 1 .. Len(g_processes)' : g_processes'[k] \in 1 .. MaxImages
      /\ ProcessMax \in Nat /\ MaxImages \in Nat
  <2>1. /\ ProcessMax \in Nat /\ MaxImages \in Nat
        /\ Len(pkg)' \in 0 .. MaxImages
        /\ g_processes' \in Seq(Nat) /\ Len(g_processes)' <= ProcessMax
        /\ \A k \in 1 .. Len(g_processes)' : k <= g_processes'[k] /\ g_processes'[k] <= Len(pkg)'
    BY CountAssumption DEF TableInv, Count
  <2>2. /\ Len(g_processes)' \in Nat
        /\ \A k \in 1 .. Len(g_processes)' : g_processes'[k] \in Nat
    BY <2>1
  <2>3. ASSUME NEW k \in 1 .. Len(g_processes)'
        PROVE  g_processes'[k] \in 1 .. MaxImages
    BY <2>1, <2>2
  <2> QED
    BY <2>1, <2>2, <2>3
<1>2. CASE i' <= Len(g_processes')
  BY <1>1, <1>2 DEF LoopInv, Entry, Procs, Count, Outside
<1>3. CASE ~(i' <= Len(g_processes'))
  BY <1>1, <1>3 DEF LoopInv, Entry, Count, Unused, Outside
<1> QED
  BY <1>2, <1>3

\* A block of load_user_elf names its image and its kind.
LEMMA ElfBlockFacts ==
  ASSUME NEW n, NEW count, NEW b \in ElfBlocks(n, count)
  PROVE  b = <<b[1], b[2], b[3]>> /\ b[1] = n /\ b[2] \in Elf
BY DEF ElfBlocks, Elf

\* An image is skipped, and then nothing remains of it, or it becomes the
\* last entry of the table.
LEMMA LoadImageEffect ==
  ASSUME IInv, LoadImage
  PROVE  /\ phase = "load" /\ i \in 1 .. Len(pkg) /\ Count < ProcessMax
         /\ i' = i + 1
         /\ UNCHANGED <<pkg, phase, proc, pgtable_mem, max_pid, pids, tables, queue>>
         /\ \/ UNCHANGED <<heap, g_processes>>
            \/ /\ heap' = heap \cup ElfBlocks(i, Len(pkg[i].segs))
               /\ g_processes' = Append(g_processes, i)
<1>1. /\ phase = "load" /\ i \in 1 .. Len(pkg) /\ Count < ProcessMax
      /\ i' = i + 1
      /\ UNCHANGED <<pkg, phase, proc, pgtable_mem, max_pid, pids, tables, queue>>
  BY DEF LoadImage, IInv, TableInv, Count
<1>2. PICK nomem \in BOOLEAN : load_one_image(i, nomem)
  BY DEF LoadImage
<1>3. \A count : (heap \cup ElfBlocks(i, count)) \ free_user_elf(i, count) = heap
  BY <1>1, ElfBlockFacts DEF IInv, TableInv, HeapInv, Procs, free_user_elf
<1>4. BadSegments(pkg[i]) = {} => GoodSegments(pkg[i]) = Len(pkg[i].segs)
  BY DEF GoodSegments
<1> QED
  BY <1>1, <1>2, <1>3, <1>4 DEF load_one_image

LEMMA LoadImageInv ==
  ASSUME IInv, LoadImage
  PROVE  IInv'
<1>0. /\ TableInv /\ HeapInv /\ PidInv /\ QueueInv
      /\ phase = "load" /\ phase' = phase /\ Initialised = {} /\ Initialised' = {}
      /\ i \in 1 .. Len(pkg) /\ i' = i + 1 /\ i \in Procs
  BY LoadImageEffect, CountAssumption DEF IInv, TableInv, Initialised, Procs
<1>x. LoopInv'
  BY <1>0, LoadImageEffect DEF LoopInv, Unused, Outside, IInv
<1>1. CASE UNCHANGED <<heap, g_processes>>
  <2>1. TableInv'
    BY <1>0, <1>1, LoadImageEffect, CountAssumption DEF TableInv, HeapInv, Procs, Count
  <2>2. HeapInv'
    BY <1>0, <1>1, LoadImageEffect DEF HeapInv
  <2>3. PidInv'
    BY <1>0, <1>1, LoadImageEffect DEF PidInv, PidsOrdered, Initialised
  <2>4. QueueInv'
    BY <1>0, LoadImageEffect DEF QueueInv
  <2> QED
    BY <1>x, <2>1, <2>2, <2>3, <2>4 DEF IInv
<1>2. CASE /\ heap' = heap \cup ElfBlocks(i, Len(pkg[i].segs))
           /\ g_processes' = Append(g_processes, i)
  <2>1. /\ Count' = Count + 1 /\ g_processes' \in Seq(Nat)
        /\ \A k \in 1 .. Count : g_processes'[k] = g_processes[k]
        /\ g_processes'[Count + 1] = i
        /\ DOMAIN g_processes' = 1 .. Count + 1
    BY <1>0, <1>2 DEF Count, TableInv
  <2>2. ToSet(g_processes') = ToSet(g_processes) \cup {i}
    BY <1>0, <2>1, TableFacts DEF ToSet
  <2>3. Count + 1 <= i
    <3>1. Count \in Nat /\ \A k \in 1 .. Count : g_processes[k] \in Procs
      BY <1>0, TableFacts
    <3>2. CASE Count = 0
      BY <1>0, <3>2
    <3>3. CASE Count > 0
      <4>1. Count \in 1 .. Count
        BY <3>1, <3>3
      <4>2. Count <= g_processes[Count] /\ g_processes[Count] < i /\ g_processes[Count] \in Nat
        BY <1>0, <3>1, <4>1 DEF TableInv, Procs
      <4> QED
        BY <1>0, <3>1, <4>2
    <3> QED
      BY <3>1, <3>2, <3>3
  <2>4. TableInv'
    <3>1. \A b \in heap' : b[1] < i'
      BY <1>0, <1>2, ElfBlockFacts DEF TableInv, HeapInv, Procs
    <3>2. \A k \in 1 .. Count' : /\ k <= g_processes'[k]
                                 /\ g_processes'[k] <= Len(pkg)
                                 /\ g_processes'[k] < i'
      <4>1. TAKE k \in 1 .. Count'
      <4>2. CASE k = Count + 1
        BY <1>0, <2>1, <2>3, <4>2
      <4>3. CASE k \in 1 .. Count
        <5>1. g_processes'[k] = g_processes[k] /\ g_processes[k] \in Procs
          BY <1>0, <2>1, <4>3, TableFacts
        <5>2. k <= g_processes[k] /\ g_processes[k] <= Len(pkg) /\ g_processes[k] < i
          BY <1>0, <4>3 DEF TableInv
        <5> QED
          BY <1>0, <5>1, <5>2 DEF Procs
      <4> QED
        BY <2>1, <4>2, <4>3, TableFacts, <1>0
    <3>3. \A j, k \in 1 .. Count' : j < k => g_processes'[j] < g_processes'[k]
      <4>1. TAKE j, k \in 1 .. Count'
      <4>2. HAVE j < k
      <4>3. j \in 1 .. Count
        BY <1>0, <2>1, <4>2, TableFacts
      <4>4. CASE k = Count + 1
        BY <1>0, <2>1, <4>3, <4>4 DEF TableInv
      <4>5. CASE k \in 1 .. Count
        BY <1>0, <2>1, <4>2, <4>3, <4>5 DEF TableInv
      <4> QED
        BY <1>0, <2>1, <4>4, <4>5, TableFacts
    <3>4. Count' <= ProcessMax /\ i' \in 1 .. MaxImages + 1
      BY <1>0, <2>1, LoadImageEffect, TableFacts, CountAssumption DEF TableInv
    <3> QED
      BY <1>0, <2>1, <3>1, <3>2, <3>3, <3>4, LoadImageEffect DEF TableInv
  <2>5. HeapInv'
    <3>1. pkg' = pkg
      BY LoadImageEffect
    <3>2. \A b \in ElfBlocks(i, Len(pkg[i].segs)) :
            b = <<b[1], b[2], b[3]>> /\ b[1] = i /\ b[2] \in Elf
      BY ElfBlockFacts
    <3> QED
      BY <1>0, <1>2, <2>2, <3>1, <3>2 DEF HeapInv, Elf
  <2>6. PidInv'
    BY <1>0, <2>2, LoadImageEffect DEF PidInv, PidsOrdered, Initialised
  <2>7. QueueInv'
    BY <1>0, LoadImageEffect DEF QueueInv
  <2> QED
    BY <1>x, <2>4, <2>5, <2>6, <2>7 DEF IInv
<1> QED
  BY <1>1, <1>2, LoadImageEffect

LEMMA LoadEndInv ==
  ASSUME IInv, LoadEnd
  PROVE  IInv'
<1>0. ASSUME TableInv' PROVE LoopInv'
  BY <1>0, EntryLoop, CountAssumption DEF LoadEnd, IInv, LoopInv
<1>1. CASE g_processes = <<>>
  <2>1. TableInv' /\ HeapInv' /\ PidInv'
    BY <1>1, CountAssumption
       DEF LoadEnd, IInv, TableInv, HeapInv, PidInv, Count, PidsOrdered, Initialised
  <2>2. Count' = 0 /\ i' = 1 /\ phase' = "register" /\ phase = "load" /\ queue' = queue
    BY <1>1 DEF LoadEnd, Count
  <2>3. Dealt(0, 0)'
    BY <2>2, CountAssumption DEF IInv, QueueInv, Dealt
  <2>4. QueueInv'
    BY <2>2, <2>3, CountAssumption DEF IInv, QueueInv
  <2> QED
    BY <1>0, <2>1, <2>4 DEF IInv
<1>2. CASE g_processes # <<>>
  <2>1. TableInv' /\ HeapInv' /\ PidInv' /\ QueueInv'
    BY <1>2, CountAssumption DEF LoadEnd, IInv, TableInv, HeapInv, PidInv, QueueInv,
        Count, PidsOrdered, Initialised
  <2> QED
    BY <1>0, <2>1 DEF IInv
<1> QED
  BY <1>1, <1>2

-----------------------------------------------------------------------------
(* The loop over the table: what a turn does                              *)

\* What process_memory_init and the loop allocate for p, whichever step fails.
Own(p, A) ==
    \A b \in A : /\ b = <<b[1], b[2], b[3]>> /\ b[1] = p
                 /\ b[2] \in {"stack", "heap", "pgdir", "table"}
                 /\ b[2] = "heap" => b = <<p, "heap", 0>>

LEMMA AllocatedOwn ==
  ASSUME NEW p, NEW n, NEW f \in {"stack", "heap", "pgdir", "table", "args", "kstack"}
  PROVE  Own(p, Allocated(p, f, n))
<1>1. CASE f \in {"table", "args", "kstack"}
  BY <1>1 DEF Allocated, TableBlocks, Own
<1>2. CASE f \in {"stack", "heap", "pgdir"}
  BY <1>2 DEF Allocated, Own
<1> QED
  BY <1>1, <1>2

\* process_destroy without process_memory_init's own blocks A, and the next turn.
Destroyed(p, A) ==
    /\ process_destroy(p, (heap \cup A) \ {<<p, "heap", 0>>})
    /\ Advance(g_processes')
    /\ phase' = "init"
    /\ UNCHANGED <<pgtable_mem, max_pid, pids, tables>>

\* A mapping that failed: the blocks A are taken and the clean-up starts.
CleanUpStarts(p, A) ==
    /\ heap' = heap \cup A
    /\ phase' = "cleanup" /\ pgtable_mem' \in Nat
    /\ UNCHANGED <<i, proc, g_processes, max_pid, pids, tables>>

Stops ==
    /\ phase' = "bug"
    /\ UNCHANGED <<i, proc, g_processes, pgtable_mem, max_pid, pids, tables, heap>>

\* A turn of for_each_process stops the boot CPU, ends in the clean-up, destroys
\* the process or completes it.
LEMMA InitProcessEffect ==
  ASSUME IInv, InitProcess
  PROVE  /\ phase = "init" /\ i \in 1 .. Count /\ proc = g_processes[i]
         /\ UNCHANGED <<pkg, queue>>
         /\ \/ Stops
            \/ \E A : Own(proc, A) /\ CleanUpStarts(proc, A)
            \/ \E A : Own(proc, A) /\ Destroyed(proc, A)
            \/ \E m : InitSucceeds(proc, m)
<1>0. /\ phase = "init" /\ i \in 1 .. Count /\ proc = g_processes[i]
      /\ UNCHANGED <<pkg, queue>>
  <2>1. phase = "init" /\ i <= Len(g_processes) /\ UNCHANGED <<pkg, queue>>
    BY Zenon DEF InitProcess
  <2>2. proc = Entry(g_processes, i)
    BY <2>1 DEF IInv, LoopInv
  <2>3. proc = g_processes[i]
    BY <2>1, <2>2, Zenon DEF Entry
  <2> QED
    BY <2>1, <2>3 DEF IInv, TableInv, Count
<1>a. PICK f \in {"none"} \cup (Null \ {"process"}) : \E m :
        IF f \in {"none", "kstack"} /\ m.bug
        THEN /\ phase' = "bug"
             /\ UNCHANGED <<i, proc, g_processes, pgtable_mem, max_pid, pids, tables, heap>>
        ELSE IF Failure(proc, f) = "none" THEN InitSucceeds(proc, m)
        ELSE \E n \in Tables(f, m) : InitFails(proc, Failure(proc, f), n)
  BY Zenon DEF InitProcess
<1>1. PICK m :
        IF f \in {"none", "kstack"} /\ m.bug
        THEN /\ phase' = "bug"
             /\ UNCHANGED <<i, proc, g_processes, pgtable_mem, max_pid, pids, tables, heap>>
        ELSE IF Failure(proc, f) = "none" THEN InitSucceeds(proc, m)
        ELSE \E n \in Tables(f, m) : InitFails(proc, Failure(proc, f), n)
  BY <1>a, Zenon
<1>2. CASE f \in {"none", "kstack"} /\ m.bug
  BY <1>0, <1>1, <1>2 DEF Stops
<1>3. CASE InitSucceeds(proc, m)
  BY <1>0, <1>3
<1>4. ASSUME NEW n \in Tables(f, m), InitFails(proc, Failure(proc, f), n), Failure(proc, f) # "none"
      PROVE  \/ \E A : Own(proc, A) /\ CleanUpStarts(proc, A)
             \/ \E A : Own(proc, A) /\ Destroyed(proc, A)
  <2>1. Failure(proc, f) \in {"stack", "heap", "pgdir", "table", "args", "kstack"}
    BY <1>4, NullAssumption DEF Failure
  <2>2. Own(proc, Allocated(proc, Failure(proc, f), n))
    BY <2>1, AllocatedOwn
  <2>3. CASE Failure(proc, f) = "table"
    <3>1. f = "table"
      BY <2>3 DEF Failure
    <3>2. n \in Nat
      BY <3>1, <1>4, NullAssumption DEF Tables
    <3>3. CleanUpStarts(proc, Allocated(proc, Failure(proc, f), n))
      BY <1>4, <2>3, <3>2 DEF InitFails, CleanUpStarts
    <3> QED
      BY <2>2, <3>3
  <2>4. CASE Failure(proc, f) # "table"
    <3>1. Destroyed(proc, Allocated(proc, Failure(proc, f), n))
      BY <1>0, <1>4, <2>4 DEF InitFails, Destroyed, Released
    <3> QED
      BY <2>2, <3>1
  <2> QED
    BY <2>3, <2>4
<1> QED
  BY <1>0, <1>1, <1>2, <1>3, <1>4

\* process_destroy takes the i-th entry out and closes the gap.
LEMMA DestroyedTable ==
  ASSUME IInv, i \in 1 .. Count, NEW A, Destroyed(g_processes[i], A)
  PROVE  /\ Count' = Count - 1 /\ g_processes' \in Seq(Nat)
         /\ \A k \in 1 .. Count - 1 :
              g_processes'[k] = IF k < i THEN g_processes[k] ELSE g_processes[k + 1]
         /\ ToSet(g_processes') = ToSet(g_processes) \ {g_processes[i]}
<1> DEFINE p == g_processes[i]
<1>0. TableInv /\ Count \in Nat /\ i \in Nat
  BY TableFacts DEF IInv, TableInv
<1>1. \A j, k \in 1 .. Count : g_processes[j] = g_processes[k] => j = k
  BY <1>0, TableFacts
<1>2. g_processes' = [k \in 1 .. Count - 1 |->
                         IF \E j \in 1 .. k : g_processes[j] = p
                         THEN g_processes[k + 1] ELSE g_processes[k]]
  BY DEF Destroyed, process_destroy, Count
<1>3. \A k \in 1 .. Count - 1 : (\E j \in 1 .. k : g_processes[j] = p) <=> i <= k
  BY <1>0, <1>1
<1>4. \A k \in 1 .. Count - 1 :
        g_processes'[k] = IF k < i THEN g_processes[k] ELSE g_processes[k + 1]
  <2>1. TAKE k \in 1 .. Count - 1
  <2>2. g_processes'[k] = IF \E j \in 1 .. k : g_processes[j] = p
                          THEN g_processes[k + 1] ELSE g_processes[k]
    BY <1>2
  <2>3. k \in Nat
    BY <1>0
  <2>4. CASE k < i
    BY <1>0, <1>3, <2>2, <2>3, <2>4
  <2>5. CASE ~(k < i)
    BY <1>0, <1>3, <2>2, <2>3, <2>5
  <2> QED
    BY <2>4, <2>5
<1>5. g_processes' \in [1 .. Count - 1 -> Nat]
  BY <1>0, <1>2, TableFacts DEF Procs
<1>6. g_processes' \in Seq(Nat) /\ Len(g_processes') = Count - 1
  BY <1>0, <1>5
<1>7. ToSet(g_processes') = ToSet(g_processes) \ {p}
  <2>1. ASSUME NEW k \in 1 .. Count - 1
        PROVE  g_processes'[k] \in ToSet(g_processes) \ {p}
    BY <1>0, <1>1, <1>4, TableFacts
  <2>2. ASSUME NEW k \in 1 .. Count, k # i
        PROVE  \E l \in 1 .. Count - 1 : g_processes'[l] = g_processes[k]
    <3>1. CASE k < i
      BY <1>0, <1>4, <3>1
    <3>2. CASE k > i
      <4>1. k - 1 \in 1 .. Count - 1 /\ ~(k - 1 < i) /\ (k - 1) + 1 = k
        BY <1>0, <3>2
      <4> QED
        BY <1>4, <4>1
    <3> QED
      BY <1>0, <2>2, <3>1, <3>2
  <2>3. ToSet(g_processes') = {g_processes'[k] : k \in 1 .. Count - 1}
    BY <1>5 DEF ToSet
  <2>4. \A n : n \in ToSet(g_processes) <=> \E k \in 1 .. Count : n = g_processes[k]
    BY <1>0, TableFacts
  <2> QED
    BY <2>1, <2>2, <2>3, <2>4
<1> QED
  BY <1>4, <1>6, <1>7 DEF Count

-----------------------------------------------------------------------------
(* The loop over the table: the process it works on is not initialised     *)

\* A process that failed leaves the table, the heap and the pids in order.
LEMMA DestroyedInv ==
  ASSUME IInv, phase \in {"init", "cleanup"}, i \in 1 .. Count, proc = g_processes[i],
         UNCHANGED <<pkg, queue>>, NEW A, Own(proc, A), Destroyed(proc, A)
  PROVE  IInv'
<1> DEFINE p == g_processes[i]
<1>0. /\ TableInv /\ LoopInv /\ HeapInv /\ PidInv /\ QueueInv
      /\ phase \in {"init", "cleanup"} /\ phase' = "init" /\ i \in 1 .. Count /\ i' = i + 1
      /\ UNCHANGED <<pkg, queue, pgtable_mem, max_pid, pids, tables>>
      /\ p = proc /\ p \in Procs /\ p \in ToSet(g_processes)
      /\ Count \in Nat /\ Count <= MaxImages
      /\ proc' = Entry(g_processes', i')
  BY TableFacts DEF IInv, Destroyed, Advance
<1>1. /\ Count' = Count - 1 /\ g_processes' \in Seq(Nat)
      /\ \A k \in 1 .. Count - 1 :
              g_processes'[k] = IF k < i THEN g_processes[k] ELSE g_processes[k + 1]
      /\ ToSet(g_processes') = ToSet(g_processes) \ {p}
  BY <1>0, DestroyedTable
<1>2. p \notin Initialised /\ Initialised' = Initialised
  BY <1>0 DEF PidInv, Initialised, Procs
<1>3. TableInv'
  <2>0. \A k \in 1 .. Count : /\ g_processes[k] \in Nat
                              /\ k <= g_processes[k] /\ g_processes[k] <= Len(pkg)
    BY <1>0, TableFacts DEF TableInv, Procs
  <2>1. \A k \in 1 .. Count - 1 : k <= g_processes'[k] /\ g_processes'[k] <= Len(pkg)
    <3>1. TAKE k \in 1 .. Count - 1
    <3>2. CASE k < i
      BY <1>0, <1>1, <2>0, <3>2
    <3>3. CASE ~(k < i)
      <4>1. g_processes'[k] = g_processes[k + 1] /\ k + 1 \in 1 .. Count
        BY <1>0, <1>1, <3>3
      <4> QED
        BY <1>0, <2>0, <4>1
    <3> QED
      BY <3>2, <3>3
  <2>2. \A j, k \in 1 .. Count - 1 : j < k => g_processes'[j] < g_processes'[k]
    <3>1. \A j, k \in 1 .. Count : j < k => g_processes[j] < g_processes[k]
      BY <1>0 DEF TableInv
    <3>2. TAKE j, k \in 1 .. Count - 1
    <3>3. HAVE j < k
    <3>4. CASE k < i
      BY <1>0, <1>1, <3>1, <3>3, <3>4
    <3>5. CASE ~(k < i) /\ j < i
      BY <1>0, <1>1, <3>1, <3>3, <3>5
    <3>6. CASE ~(j < i)
      BY <1>0, <1>1, <3>1, <3>3, <3>6
    <3> QED
      BY <1>0, <3>3, <3>4, <3>5, <3>6
  <2> QED
    BY <1>0, <1>1, <2>1, <2>2, CountAssumption DEF TableInv
<1>4. HeapInv'
  <2>1. heap' = ((heap \cup A) \ {<<p, "heap", 0>>}) \ ElfBlocks(p, Len(pkg[p].segs))
    BY DEF Destroyed, process_destroy
  <2>2. ASSUME NEW b \in heap'
        PROVE  /\ b = <<b[1], b[2], b[3]>>
               /\ b[1] \in Procs
               /\ b[2] \in Elf \cup {"stack", "heap", "pgdir", "table", "kstack"}
               /\ b[2] \in Elf => /\ b[1] \in ToSet(g_processes')
                                  /\ b \in ElfBlocks(b[1], Len(pkg[b[1]].segs))
               /\ b[2] \in {"heap", "kstack"} => b[1] \in Initialised
    <3>1. CASE b \in A
      BY <1>0, <2>1, <3>1 DEF Own, Elf
    <3>2. CASE b \in heap
      BY <1>1, <1>0, <2>1, <3>2 DEF HeapInv
    <3> QED
      BY <2>1, <3>1, <3>2
  <2>3. ASSUME NEW n \in ToSet(g_processes')
        PROVE  ElfBlocks(n, Len(pkg[n].segs)) \subseteq heap'
    <3>1. n # p /\ ElfBlocks(n, Len(pkg[n].segs)) \subseteq heap
      BY <1>0, <1>1 DEF HeapInv
    <3>2. \A b \in ElfBlocks(n, Len(pkg[n].segs)) :
            b[1] = n /\ b # <<p, "heap", 0>> /\ b \notin ElfBlocks(p, Len(pkg[p].segs))
      BY <3>1, ElfBlockFacts
    <3> QED
      BY <2>1, <3>1, <3>2
  <2> QED
    BY <1>0, <1>2, <2>2, <2>3 DEF HeapInv
<1>5. PidInv'
  <2>1. \A n \in Initialised, k \in i + 1 .. Count - 1 : n < g_processes'[k]
    <3>1. TAKE n \in Initialised, k \in i + 1 .. Count - 1
    <3>2. g_processes'[k] = g_processes[k + 1] /\ k + 1 \in i .. Count
      BY <1>0, <1>1
    <3> QED
      BY <1>0, <3>2 DEF PidInv
  <2> QED
    BY <1>0, <1>1, <1>2, <2>1 DEF PidInv, PidsOrdered
<1>6. QueueInv'
  BY <1>0 DEF QueueInv
<1>7. LoopInv'
  BY <1>0, <1>3, EntryLoop, CountAssumption DEF LoopInv, TableInv
<1> QED
  BY <1>3, <1>4, <1>5, <1>6, <1>7 DEF IInv

\* A completed process gets the next pid and the blocks that go with it.
LEMMA SucceedsInv ==
  ASSUME IInv, InitProcess, NEW m, InitSucceeds(proc, m)
  PROVE  IInv'
<1> DEFINE p == g_processes[i]
<1>0. /\ TableInv /\ LoopInv /\ HeapInv /\ PidInv /\ QueueInv
      /\ phase = "init" /\ phase' = "init" /\ i \in 1 .. Count /\ i' = i + 1
      /\ UNCHANGED <<pkg, queue, pgtable_mem, g_processes>> /\ Count' = Count
      /\ proc' = Entry(g_processes', i') /\ p = proc
      /\ p \in Procs /\ p \in ToSet(g_processes)
      /\ Count \in Nat /\ Count <= MaxImages /\ max_pid' = max_pid + 1
  BY InitProcessEffect, TableFacts DEF IInv, InitSucceeds, Advance, Count
<1>1. /\ p \notin Initialised /\ Initialised' = Initialised \cup {p}
      /\ pids'[p] = max_pid /\ \A n \in Initialised : pids'[n] = pids[n]
      /\ DOMAIN tables' = DOMAIN tables \cup {p}
  <2>1. p \notin Initialised
    BY <1>0 DEF PidInv, Procs
  <2> QED
    BY <1>0, <2>1 DEF InitSucceeds, PidInv, Initialised
<1>2. TableInv'
  BY <1>0, CountAssumption DEF TableInv
<1>3. HeapInv'
  <2>1. /\ heap' = heap \cup Allocated(p, "kstack", m.recorded) \cup {<<p, "kstack", 0>>}
        /\ Own(p, Allocated(p, "kstack", m.recorded))
    BY <1>0, AllocatedOwn DEF InitSucceeds
  <2>2. ASSUME NEW b \in heap' \ heap
        PROVE  /\ b = <<b[1], b[2], b[3]>> /\ b[1] = p /\ b[2] \notin Elf
               /\ b[2] \in {"stack", "heap", "pgdir", "table", "kstack"}
    BY <2>1 DEF Own, Elf
  <2> QED
    BY <1>0, <1>1, <2>1, <2>2 DEF HeapInv
<1>4. PidInv'
  <2>1. \A n \in Initialised : n < p
    BY <1>0 DEF PidInv
  <2>2. \A n \in Initialised' : \A k \in i' .. Count : n < g_processes[k]
    BY <1>0, <1>1 DEF PidInv, TableInv
  <2>3. {pids'[n] : n \in Initialised'} = 1 .. max_pid
    <3>1. {pids'[n] : n \in Initialised'} = {pids[n] : n \in Initialised} \cup {max_pid}
      BY <1>1
    <3> QED
      BY SMTT(30), <1>0, <3>1 DEF PidInv, PidsOrdered
  <2>4. \A n, q \in Initialised' : n < q => pids'[n] < pids'[q]
    <3>1. \A n \in Initialised : pids[n] \in 1 .. max_pid - 1
      BY <1>0 DEF PidInv, PidsOrdered
    <3>2. \A n \in Initialised : n \in Procs
      BY <1>0, TableFacts DEF PidInv
    <3> QED
      BY SMTT(30), <1>0, <1>1, <2>1, <3>1, <3>2 DEF PidInv, PidsOrdered, Procs
  <2> QED
    BY <1>0, <1>1, <2>2, <2>3, <2>4 DEF PidInv, PidsOrdered
<1>5. QueueInv'
  BY <1>0 DEF QueueInv
<1>6. LoopInv'
  BY SMTT(30), <1>0, <1>2, EntryLoop, CountAssumption DEF LoopInv, TableInv
<1> QED
  BY <1>2, <1>3, <1>4, <1>5, <1>6 DEF IInv

\* The clean-up starts, with the blocks of the process in hand on the heap.
LEMMA CleanUpStartsInv ==
  ASSUME IInv, InitProcess, NEW A, Own(proc, A), CleanUpStarts(proc, A)
  PROVE  IInv'
<1>0. /\ TableInv /\ LoopInv /\ HeapInv /\ PidInv /\ QueueInv
      /\ phase = "init" /\ phase' = "cleanup" /\ i \in 1 .. Count /\ proc = g_processes[i]
      /\ heap' = heap \cup A /\ pgtable_mem' \in Nat
      /\ UNCHANGED <<pkg, queue, i, proc, g_processes, max_pid, pids, tables>>
      /\ proc \in Procs /\ Count' = Count
  BY InitProcessEffect, TableFacts DEF IInv, CleanUpStarts, Count
<1>1. TableInv' /\ PidInv' /\ QueueInv'
  BY SMTT(30), <1>0 DEF TableInv, PidInv, PidsOrdered, QueueInv, Initialised
<1>2. LoopInv'
  BY <1>0 DEF LoopInv
<1>3. HeapInv'
  BY <1>0 DEF HeapInv, Own, Elf, Initialised
<1> QED
  BY <1>1, <1>2, <1>3 DEF IInv

\* A turn of the clean-up frees a table and leaves the rest alone; its end is a
\* process_destroy.
LEMMA CleanUpInv ==
  ASSUME IInv, CleanUp \/ CleanUpEnd
  PROVE  IInv'
<1>1. CASE CleanUp
  <2>0. /\ TableInv /\ LoopInv /\ HeapInv /\ PidInv /\ QueueInv
        /\ phase = "cleanup" /\ heap' = heap \ {<<proc, "table", pgtable_mem>>}
        /\ UNCHANGED <<pkg, phase, i, proc, g_processes, pgtable_mem, max_pid, pids, tables, queue>>
        /\ Count' = Count
    BY <1>1 DEF IInv, CleanUp, Count
  <2>1. TableInv' /\ PidInv' /\ QueueInv' /\ LoopInv'
    BY SMTT(30), <2>0 DEF TableInv, PidInv, PidsOrdered, QueueInv, LoopInv, Initialised
  <2>2. HeapInv'
    <3>1. \A n : <<proc, "table", pgtable_mem>> \notin ElfBlocks(n, Len(pkg[n].segs))
      BY DEF ElfBlocks
    <3> QED
      BY <2>0, <3>1 DEF HeapInv, Initialised
  <2> QED
    BY <2>1, <2>2 DEF IInv
<1>2. CASE CleanUpEnd
  <2>1. Own(proc, {}) /\ heap \cup {} = heap
    BY DEF Own
  <2>2. /\ phase = "cleanup" /\ i \in 1 .. Count /\ proc = g_processes[i]
        /\ UNCHANGED <<pkg, queue>>
    BY <1>2 DEF CleanUpEnd, IInv, LoopInv
  <2>3. Destroyed(proc, {})
    BY <1>2, <2>1 DEF CleanUpEnd, Destroyed, Released
  <2> QED
    BY <2>1, <2>2, <2>3, DestroyedInv
<1> QED
  BY <1>1, <1>2

LEMMA InitStepInv ==
  ASSUME IInv, InitProcess \/ InitEnd
  PROVE  IInv'
<1>1. CASE InitProcess
  <2>1. CASE Stops
    <3>1. /\ UNCHANGED <<pkg, queue, i, proc, g_processes, pgtable_mem, max_pid, pids, tables, heap>>
          /\ phase = "init" /\ phase' = "bug" /\ Count' = Count
      BY <1>1, <2>1, InitProcessEffect DEF Stops, Count
    <3>2. TableInv' /\ HeapInv' /\ PidInv'
      BY <3>1 DEF IInv, TableInv, HeapInv, PidInv, PidsOrdered, Initialised
    <3>3. QueueInv' /\ LoopInv'
      BY <3>1 DEF IInv, QueueInv, LoopInv
    <3> QED
      BY <3>2, <3>3 DEF IInv
  <2>2. ASSUME NEW A, Own(proc, A), Destroyed(proc, A) PROVE IInv'
    BY <1>1, <2>2, InitProcessEffect, DestroyedInv
  <2> QED
    BY <1>1, <2>1, <2>2, InitProcessEffect, CleanUpStartsInv, SucceedsInv
<1>2. CASE InitEnd
  <2>0. Count' = Count /\ i' = 1 /\ phase' = "register" /\ phase = "init" /\ Count \in Nat
        /\ proc' = Entry(g_processes', i')
        /\ UNCHANGED <<pkg, g_processes, pgtable_mem, max_pid, pids, tables, heap, queue>>
    BY <1>2, TableFacts DEF InitEnd, Count, IInv
  <2>1. TableInv' /\ HeapInv' /\ PidInv'
    BY SMTT(30), <2>0, CountAssumption DEF IInv, TableInv, HeapInv, PidInv, PidsOrdered, Initialised
  <2>2. Dealt(0, 0)'
    BY <2>0, CountAssumption DEF IInv, QueueInv, Dealt
  <2>3. QueueInv'
    BY <2>0, <2>2, CountAssumption DEF IInv, QueueInv
  <2>4. LoopInv'
    BY <2>0, <2>1, EntryLoop, CountAssumption DEF IInv, LoopInv
  <2> QED
    BY <2>1, <2>3, <2>4 DEF IInv
<1> QED
  BY <1>1, <1>2

-----------------------------------------------------------------------------
(* user_processes_register                                                 *)

\* A registration appends the i-th entry to the queue of CPU (i - 1) % Cpus:
\* the next CPU in turn, or CPU 0 again after a full round.
LEMMA RegisterInv ==
  ASSUME IInv, Register
  PROVE  IInv'
<1>0. /\ TableInv /\ LoopInv /\ HeapInv /\ PidInv /\ QueueInv
      /\ phase = "register" /\ i \in 1 .. Count /\ i' = i + 1 /\ i \in Nat
      /\ UNCHANGED <<pkg, phase, g_processes, pgtable_mem, max_pid, pids, tables, heap>>
      /\ proc' = Entry(g_processes', i') /\ proc = g_processes[i]
      /\ Count' = Count /\ Count \in Nat /\ Count <= MaxImages
      /\ Cpus \in Nat \ {0} /\ MaxImages \in Nat
  BY SMTT(30), TableFacts, CountAssumption DEF Register, Advance, Entry, LoopInv, IInv, TableInv, Count
<1>1. TableInv' /\ HeapInv' /\ PidInv'
  BY SMTT(30), <1>0 DEF TableInv, HeapInv, PidInv, PidsOrdered, Initialised
<1>2. PICK q \in 0 .. i, r \in 0 .. Cpus - 1 : Dealt(q, r)
  BY <1>0 DEF QueueInv
<1>3. /\ q \in Nat /\ r \in Nat /\ q * Cpus \in Nat /\ i - 1 = (q * Cpus) + r
      /\ (i - 1) % Cpus = r /\ Len(queue[r]) = q
  BY <1>0, <1>2, Remainder DEF Dealt
<1>l. /\ Cpus \in Nat \ {0} /\ q \in Nat /\ r \in 0 .. Cpus - 1
      /\ \A c \in 0 .. Cpus - 1 : Len(queue[c]) = IF c < r THEN q + 1 ELSE q
      /\ queue \in [0 .. Cpus - 1 -> Seq(Procs)]
  BY <1>0, <1>2 DEF Dealt, QueueInv
<1>4. /\ queue' = [queue EXCEPT ![r] = Append(queue[r], g_processes[i])]
      /\ g_processes[i] \in Procs
  BY <1>0, <1>3, TableFacts DEF Register
<1>5. /\ queue' \in [0 .. Cpus - 1 -> Seq(Procs)]
      /\ Len(queue'[r]) = q + 1 /\ queue'[r][q + 1] = g_processes[i]
      /\ \A k \in 1 .. q : queue'[r][k] = queue[r][k]
      /\ \A c \in 0 .. Cpus - 1 : c # r => queue'[c] = queue[c]
  <2>1. queue[r] \in Seq(Procs) /\ Len(queue[r]) = q
    BY <1>l
  <2>2. /\ queue'[r] = Append(queue[r], g_processes[i])
        /\ \A c \in 0 .. Cpus - 1 : c # r => queue'[c] = queue[c]
        /\ queue' \in [0 .. Cpus - 1 -> Seq(Procs)]
    BY <1>l, <1>4, <2>1
  <2>3. \A s \in Seq(Procs) : \A p \in Procs :
          /\ Len(Append(s, p)) = Len(s) + 1
          /\ Append(s, p)[Len(s) + 1] = p
          /\ \A k \in 1 .. Len(s) : Append(s, p)[k] = s[k]
    OBVIOUS
  <2> QED
    BY SMTT(30), <1>4, <2>1, <2>2, <2>3
<1>6. \E qq \in 0 .. i', rr \in 0 .. Cpus - 1 : Dealt(qq, rr)'
  <2>1. CASE r + 1 < Cpus
    <3>1. i' - 1 = (q * Cpus) + (r + 1)
      BY <1>0, <1>3
    <3>2. \A c \in 0 .. Cpus - 1 : Len(queue'[c]) = IF c < r + 1 THEN q + 1 ELSE q
      <4>1. TAKE c \in 0 .. Cpus - 1
      <4>2. CASE c = r
        BY <1>l, <1>5, <4>2
      <4>3. CASE c # r
        BY <1>l, <1>5, <4>3
      <4> QED
        BY <4>2, <4>3
    <3>3. Dealt(q, r + 1)' /\ r + 1 \in 0 .. Cpus - 1 /\ q \in 0 .. i'
      BY <1>0, <1>3, <2>1, <3>1, <3>2 DEF Dealt
    <3> QED
      BY <3>3
  <2>2. CASE r + 1 = Cpus
    <3>1. i' - 1 = ((q + 1) * Cpus) + 0
      BY <1>0, <1>3, <2>2
    <3>2. \A c \in 0 .. Cpus - 1 : Len(queue'[c]) = q + 1
      <4>1. TAKE c \in 0 .. Cpus - 1
      <4>2. CASE c = r
        BY <1>5, <4>2
      <4>3. CASE c # r
        <5>1. queue'[c] = queue[c]
          BY <1>5, <4>3, Zenon
        <5>2. Cpus \in Nat /\ r \in Nat
          BY <1>l
        <5>3. c < r
          BY <2>2, <4>3, <5>2
        <5> QED
          BY <1>l, <5>1, <5>3
      <4> QED
        BY <4>2, <4>3
    <3>3. Dealt(q + 1, 0)' /\ 0 \in 0 .. Cpus - 1 /\ q + 1 \in 0 .. i'
      BY <1>0, <1>2, <1>3, <3>1, <3>2 DEF Dealt
    <3> QED
      BY <3>3
  <2> QED
    BY <1>0, <1>3, <2>1, <2>2
<1>7. \A c \in 0 .. Cpus - 1 : \A k \in 1 .. Len(queue'[c]) :
         Place(c, k) \in 1 .. Count /\ queue'[c][k] = g_processes[Place(c, k)]
  <2>1. TAKE c \in 0 .. Cpus - 1
  <2>2. TAKE k \in 1 .. Len(queue'[c])
  <2>3. CASE c = r /\ k = q + 1
    <3>1. Place(c, k) = i
      BY <1>0, <1>3, <2>3 DEF Place
    <3> QED
      BY <1>0, <1>5, <2>3, <3>1
  <2>4. CASE ~(c = r /\ k = q + 1)
    <3>1. k \in 1 .. Len(queue[c]) /\ queue'[c][k] = queue[c][k]
      <4>1. CASE c = r
        BY <1>l, <1>5, <2>4, <4>1
      <4>2. CASE c # r
        BY <1>5, <4>2
      <4> QED
        BY <4>1, <4>2
    <3> QED
      BY <1>0, <3>1 DEF QueueInv
  <2> QED
    BY <2>3, <2>4
<1>8. \A k \in 1 .. i' - 1 :
        \E c \in 0 .. Cpus - 1 : \E j \in 1 .. Len(queue'[c]) : queue'[c][j] = g_processes[k]
  <2>1. TAKE k \in 1 .. i' - 1
  <2>2. CASE k = i
    BY <1>3, <1>5, <2>2
  <2>3. CASE k \in 1 .. i - 1
    <3>1. PICK c \in 0 .. Cpus - 1 : \E j \in 1 .. Len(queue[c]) : queue[c][j] = g_processes[k]
      BY <1>0, <2>3 DEF QueueInv
    <3>2. PICK j \in 1 .. Len(queue[c]) : queue[c][j] = g_processes[k]
      BY <3>1
    <3>3. j \in 1 .. Len(queue'[c]) /\ queue'[c][j] = queue[c][j]
      <4>1. CASE c = r
        BY <1>l, <1>5, <4>1
      <4>2. CASE c # r
        BY <1>5, <4>2
      <4> QED
        BY <4>1, <4>2
    <3> QED
      BY <3>2, <3>3
  <2> QED
    BY <1>0, <2>2, <2>3
<1>9. QueueInv'
  <2>1. phase' = "register" /\ i' <= Count' + 1 /\ g_processes' = g_processes /\ Count' = Count
    BY <1>0
  <2>2. queue' \in [0 .. Cpus - 1 -> Seq(Procs)]
    BY <1>5
  <2> QED
    BY <1>6, <1>7, <1>8, <2>1, <2>2 DEF QueueInv
<1>10. LoopInv'
  BY SMTT(30), <1>0, <1>1, EntryLoop, CountAssumption DEF LoopInv, TableInv
<1> QED
  BY <1>1, <1>9, <1>10 DEF IInv

-----------------------------------------------------------------------------
(* The theorems                                                            *)

\* The invariant holds for every package and whichever allocations fail.
THEOREM LoadInvariant == Spec => []IInv
<1>1. IInv /\ [Next]_vars => IInv'
  <2> SUFFICES ASSUME IInv, [Next]_vars PROVE IInv'
    OBVIOUS
  <2>1. CASE RegisterEnd
    <3>1. /\ phase = "register" /\ phase' = "done" /\ i > Count
          /\ UNCHANGED <<pkg, i, proc, g_processes, pgtable_mem, max_pid, pids, tables, heap, queue>>
      BY <2>1 DEF RegisterEnd, Count
    <3>2. TableInv' /\ HeapInv' /\ PidInv'
      BY <3>1 DEF IInv, TableInv, HeapInv, PidInv, Count, PidsOrdered, Initialised
    <3>3. QueueInv'
      <4>1. i' = Count' + 1 /\ Count' = Count
        BY SMTT(30), <3>1, TableFacts DEF IInv, TableInv, QueueInv, Count
      <4>2. \A q, r : Dealt(q, r) => Dealt(q, r)'
        BY <3>1 DEF Dealt
      <4> QED
        BY <3>1, <4>1, <4>2 DEF IInv, QueueInv
    <3>4. LoopInv'
      BY <3>1 DEF IInv, LoopInv, Count
    <3> QED
      BY <3>2, <3>3, <3>4 DEF IInv
  <2>2. CASE UNCHANGED vars
    <3>1. TableInv'
      BY Zenon, <2>2 DEF vars, IInv, TableInv, Initialised, Count
    <3>2. HeapInv'
      BY Zenon, <2>2 DEF vars, IInv, HeapInv, Initialised
    <3>3. PidInv'
      BY <2>2 DEF vars, IInv, PidInv, Count, PidsOrdered, Initialised
    <3>4. QueueInv'
      BY <2>2 DEF vars, IInv, QueueInv, Dealt, Count
    <3>5. LoopInv'
      BY <2>2 DEF vars, IInv, LoopInv, Count
    <3> QED
      BY <3>1, <3>2, <3>3, <3>4, <3>5 DEF IInv
  <2> QED
    BY <2>1, <2>2, LoadImageInv, LoadEndInv, InitStepInv, CleanUpInv, RegisterInv DEF Next
<1> QED
  BY <1>1, InitInv, PTL DEF Spec

\* The variables keep their types, and g_processes never outgrows
\* PROCESS_MAX_COUNT entries.
THEOREM LoadTypeCorrect == Spec => []TypeOK
<1>1. IInv => TypeOK
  <2> SUFFICES ASSUME IInv PROVE TypeOK
    OBVIOUS
  <2>1. g_processes \in Seq(Procs) /\ Len(g_processes) <= ProcessMax
    BY TableFacts DEF IInv, TableInv, Count
  <2>2. Initialised \subseteq Procs /\ DOMAIN tables = Initialised
    BY TableFacts DEF IInv, PidInv
  <2> QED
    BY <2>1, <2>2 DEF IInv, TableInv, LoopInv, HeapInv, QueueInv, TypeOK
<1> QED
  BY <1>1, LoadInvariant, PTL

\* process_destroy in the middle of the loop leaves no dangling, lost or
\* doubled entry in g_processes, and no entry without one of its segments; the
\* loops over the table work on the entry their index names, and load at most
\* one entry past the array.
THEOREM TableIsSound == Spec => []TableSound
<1>1. IInv => TableSound
  <2> SUFFICES ASSUME IInv PROVE TableSound
    OBVIOUS
  <2>1. \A k \in 1 .. Len(g_processes) - 1 : g_processes[k] < g_processes[k + 1]
    BY TableFacts DEF IInv, TableInv, Count
  <2>2. \A n : <<n, "process", 0>> \in heap => n \in ToSet(g_processes)
    BY DEF IInv, HeapInv, Elf
  <2>3. \A n \in ToSet(g_processes) : /\ ElfBlocks(n, Len(pkg[n].segs)) \subseteq heap
                                      /\ <<n, "process", 0>> \in heap
                                      /\ n \in Procs
    BY TableFacts DEF IInv, HeapInv, ElfBlocks
  <2>4. LoopEntry
    BY TableFacts DEF IInv, TableInv, LoopInv, LoopEntry, Entry, Count
  <2> QED
    BY <2>1, <2>2, <2>3, <2>4 DEF TableSound
<1> QED
  BY <1>1, LoadInvariant, PTL

\* A refused image keeps no memory; a destroyed process keeps at most its
\* stack, its page directory and its page tables.
THEOREM FailedIsFreed == Spec => []FailedKeepsOnlyTables
<1>1. IInv => FailedKeepsOnlyTables
  <2> SUFFICES ASSUME IInv, NEW b \in heap, b[1] \notin ToSet(g_processes)
               PROVE  b[2] \in {"stack", "pgdir", "table"}
    BY DEF FailedKeepsOnlyTables
  <2>1. phase = "cleanup" => proc \in ToSet(g_processes)
    BY TableFacts DEF IInv, LoopInv
  <2>2. b # <<proc, "heap", 0>> \/ phase # "cleanup"
    BY <2>1
  <2> QED
    BY <2>2 DEF IInv, HeapInv, PidInv, Elf
<1> QED
  BY <1>1, LoadInvariant, PTL

\* Pids are given out from 1 without gaps, in the order of the table.
THEOREM PidsAreOrdered == Spec => []PidsOrdered
<1>1. IInv => PidsOrdered
  BY DEF IInv, PidInv
<1> QED
  BY <1>1, LoadInvariant, PTL

\* Every entry of the table goes to exactly one place of one CPU's queue, the
\* queues differ by at most one process and stay within the scheduler's array,
\* although its store is unchecked.
THEOREM QueuesAreDealt == Spec => []QueuesDealt
<1>1. IInv => QueuesDealt
  <2> SUFFICES ASSUME IInv PROVE QueuesDealt
    OBVIOUS
  <2>0. /\ TableInv /\ QueueInv /\ Count \in Nat /\ Count <= ProcessMax
        /\ Cpus \in Nat \ {0} /\ SlotMax \in Nat /\ ProcessMax \in Nat
        /\ DOMAIN queue = 0 .. Cpus - 1
        /\ \A c \in 0 .. Cpus - 1 : queue[c] \in Seq(Procs) /\ DOMAIN queue[c] = 1 .. Len(queue[c])
    BY SMTT(30), TableFacts, CountAssumption DEF IInv, TableInv, QueueInv
  <2>1. ASSUME NEW c \in 0 .. Cpus - 1, NEW k \in 1 .. Len(queue[c])
        PROVE  Place(c, k) \in 1 .. Count /\ queue[c][k] = g_processes[Place(c, k)]
    BY <2>0 DEF QueueInv
  <2>2. ASSUME NEW c \in 0 .. Cpus - 1
        PROVE  Len(queue[c]) <= SlotMax
    <3> DEFINE k == Len(queue[c])
    <3>0. k \in Nat
      BY <2>0
    <3>1. SUFFICES ASSUME k > SlotMax PROVE FALSE
      BY <2>0, <3>0
    <3>2. k \in 1 .. Len(queue[c])
      BY <2>0, <3>0, <3>1
    <3>3. ((k - 1) * Cpus) + c + 1 <= ProcessMax
      <4>1. Place(c, k) \in 1 .. Count
        BY <2>1, <3>2, Zenon
      <4>2. Place(c, k) <= ProcessMax
        BY <2>0, <4>1
      <4> QED
        BY <4>2 DEF Place
    <3> HIDE DEF k
    <3>4. SlotMax * Cpus <= (k - 1) * Cpus
      <4>1. CASE SlotMax = k - 1
        BY <4>1, <2>0, <3>0
      <4>2. CASE SlotMax < k - 1
        BY <4>2, <2>0, <3>0, ProductBound
      <4> QED
        BY <2>0, <3>0, <3>1, <4>1, <4>2
    <3> QED
      BY <2>0, <3>0, <3>3, <3>4, CountAssumption
  <2>3. \A c, d \in 0 .. Cpus - 1 : Len(queue[c]) - Len(queue[d]) <= 1
    <3>1. CASE phase \in {"register", "done"}
      BY <2>0, <3>1 DEF QueueInv, Dealt
    <3>2. CASE phase \notin {"register", "done"}
      BY <2>0, <3>2 DEF QueueInv
    <3> QED
      BY <3>1, <3>2
  <2>4. ASSUME NEW c \in 0 .. Cpus - 1, NEW d \in 0 .. Cpus - 1,
               NEW j \in 1 .. Len(queue[c]), NEW k \in 1 .. Len(queue[d]),
               queue[c][j] = queue[d][k]
        PROVE  c = d /\ j = k
    <3>1. Place(c, j) = Place(d, k)
      <4>1. /\ Place(c, j) \in 1 .. Count /\ Place(d, k) \in 1 .. Count
            /\ g_processes[Place(c, j)] = g_processes[Place(d, k)]
        BY <2>1, <2>4
      <4> QED
        BY <2>0, <4>1, TableFacts
    <3>2. j - 1 \in Int /\ k - 1 \in Int
      BY <2>0
    <3>3. ((j - 1) * Cpus) + c = ((k - 1) * Cpus) + d
      BY <2>0, <3>1, <3>2 DEF Place
    <3>4. j - 1 = k - 1 /\ c = d
      <4>1. \A a, b \in Int : \A u, v \in 0 .. Cpus - 1 :
              (a * Cpus) + u = (b * Cpus) + v => a = b /\ u = v
        BY <2>0, DivisionUnique
      <4> QED
        BY <3>2, <3>3, <4>1
    <3> QED
      BY <2>0, <3>2, <3>4
  <2>5. ASSUME phase = "done" PROVE Queued = ToSet(g_processes)
    <3>1. \A k \in 1 .. Count :
            \E c \in 0 .. Cpus - 1 : \E j \in 1 .. Len(queue[c]) : queue[c][j] = g_processes[k]
      <4>1. i - 1 = Count
        BY <2>0, <2>5 DEF QueueInv
      <4>2. \A k \in 1 .. i - 1 :
              \E c \in 0 .. Cpus - 1 : \E j \in 1 .. Len(queue[c]) : queue[c][j] = g_processes[k]
        BY <2>0, <2>5, Zenon DEF QueueInv
      <4> QED
        BY <4>1, <4>2, Zenon
    <3>2. Queued = UNION {{queue[c][j] : j \in 1 .. Len(queue[c])} : c \in 0 .. Cpus - 1}
      BY <2>0 DEF Queued
    <3>3. \A n : n \in Queued <=>
            \E c \in 0 .. Cpus - 1 : \E j \in 1 .. Len(queue[c]) : n = queue[c][j]
      BY <3>2
    <3>4. \A n : n \in ToSet(g_processes) <=> \E k \in 1 .. Count : n = g_processes[k]
      BY <2>0, TableFacts
    <3>5. ASSUME NEW n \in Queued PROVE n \in ToSet(g_processes)
      <4>1. PICK c \in 0 .. Cpus - 1 : \E j \in 1 .. Len(queue[c]) : n = queue[c][j]
        BY <3>3
      <4>2. PICK j \in 1 .. Len(queue[c]) : n = queue[c][j]
        BY <4>1
      <4> QED
        BY <2>1, <3>4, <4>2
    <3>6. ASSUME NEW n \in ToSet(g_processes) PROVE n \in Queued
      BY <3>1, <3>3, <3>4
    <3> QED
      BY <3>5, <3>6
  <2> QED
    <3>1. \A c, d \in DOMAIN queue : \A j \in DOMAIN queue[c], k \in DOMAIN queue[d] :
            queue[c][j] = queue[d][k] => c = d /\ j = k
      <4>1. TAKE c, d \in DOMAIN queue
      <4>2. TAKE j \in DOMAIN queue[c], k \in DOMAIN queue[d]
      <4>3. /\ c \in 0 .. Cpus - 1 /\ d \in 0 .. Cpus - 1
            /\ j \in 1 .. Len(queue[c]) /\ k \in 1 .. Len(queue[d])
        BY <2>0
      <4> QED
        BY <2>4, <4>3, Zenon
    <3> QED
      BY <2>0, <2>2, <2>3, <2>5, <3>1 DEF QueuesDealt
<1> QED
  BY <1>1, LoadInvariant, PTL

==============================================================================
