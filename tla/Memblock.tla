------------------------------ MODULE Memblock ------------------------------
(***************************************************************************)
(* The physical memory allocator: memblock's sorted arrays of memory and   *)
(* reserved regions, the top-down search for a free range, the growth of   *)
(* the reserved array out of the very memory it describes, and kmalloc,    *)
(* kfree and page-table pages on top of it.  Addresses are counted in an   *)
(* allocation unit; a region is a base, a size and its kernel flag.        *)
(***************************************************************************)
EXTENDS Integers, Sequences, FiniteSetsExt, SequencesExt

CONSTANTS
    BootCalls,          \* the memblock_add/memblock_reserve calls of the boot
    InitRegions,        \* INIT_MEMBLOCK_RESERVED_REGIONS
    RegionsPerPage,     \* PAGE_SIZE / sizeof(struct memblock_region)
    PageSize,           \* PAGE_SIZE
    CacheBytes,         \* SMP_CACHE_BYTES
    Header,             \* sizeof(struct malloc_mem_region)
    Requests,           \* the sizes kmalloc is asked for
    AddrMax             \* PHYS_ADDR_MAX

Call == [op : {"add", "reserve"}, base : Nat, size : Nat \ {0}]

ASSUME MemblockAssumption ==
    /\ BootCalls \in Seq(Call)
    /\ InitRegions \in Nat \ {0, 1}
    /\ \A n \in {RegionsPerPage, PageSize, CacheBytes, Header, AddrMax} :
         n \in Nat \ {0}
    /\ Requests \subseteq Nat \ {0}

VARIABLES
    memory,     \* memblock.memory.regions
    reserved,   \* memblock.reserved.regions
    max,        \* memblock.reserved.max
    array,      \* where reserved.regions lives: the static array, or a block
    pending,    \* the boot calls still to come
    live,       \* blocks handed out and not freed
    lost,       \* blocks whose kfree failed inside memblock
    stop        \* why the CPU stopped: "no", a BUG_ON, a fault or a hang

vars == <<memory, reserved, max, array, pending, live, lost, stop>>

Region(base, end, kern) == [base |-> base, size |-> end - base, kern |-> kern]
End(r) == r.base + r.size
Static == [base |-> 0, size |-> 0]

MinOf(a, b) == IF a < b THEN a ELSE b
MaxOf(a, b) == IF a < b THEN b ELSE a
RoundDown(x, align) == x - (x % align)
RoundUp(x, align) == RoundDown(x + align - 1, align)

-----------------------------------------------------------------------------
(* memblock_add_range and memblock_remove_range on one array               *)

\* What remains of the new range after the last region that overlaps it goes
\* in front of the first region beyond end.
WithRemainder(a, end, kern) ==
    LET at == Cardinality({i \in DOMAIN a.out : a.out[i].base < end}) + 1
    IN  IF a.base < end THEN InsertAt(a.out, at, Region(a.base, end, kern))
                        ELSE a.out

\* The insertion loop: the parts of [base, end) that no region covers are
\* inserted before the region that bounds them.
Inserted(rs, base, end, kern) ==
    LET step(a, r) ==
          IF r.base >= end \/ End(r) <= a.base
            THEN [a EXCEPT !.out = Append(@, r)]
            ELSE [base |-> MinOf(End(r), end),
                  out  |-> a.out \o (IF r.base > a.base
                                       THEN <<Region(a.base, r.base, kern), r>>
                                       ELSE <<r>>)]
    IN  WithRemainder(FoldLeft(step, [base |-> base, out |-> <<>>], rs), end,
                      kern)

NrNew(rs, base, end) == Len(Inserted(rs, base, end, FALSE)) - Len(rs)

\* Mutant: the window ends at the last inserted region.
MergeWindowShort(first, last) == first .. last

\* memblock_merge_regions gets the window of inserted regions; a region is
\* compared with its lower neighbour if it lies in first .. last + 1.
MergeWindow(first, last) == first .. last + 1

Merged(rs, window) ==
    LET step(out, j) ==
          IF j \in window /\ out # <<>>
               /\ End(Last(out)) = rs[j].base /\ Last(out).kern = rs[j].kern
            THEN Append(Front(out), Region(Last(out).base, End(rs[j]), rs[j].kern))
            ELSE Append(out, rs[j])
    IN  FoldLeftDomain(step, <<>>, rs)

\* Merge around what was inserted into rs.
MergedAround(rs, out) ==
    LET new == {i \in DOMAIN out : out[i] \notin Range(rs)}
    IN  IF new = {} THEN out ELSE Merged(out, MergeWindow(Min(new), Max(new)))

AddRange(rs, base, size, kern) ==
    MergedAround(rs, Inserted(rs, base, MinOf(base + size, AddrMax), kern))

\* memblock_isolate_range splits the regions that cross base or end.
Isolated(rs, base, end) ==
    LET step(out, r) ==
          LET cuts == {x \in {base, end} : r.base < x /\ x < End(r)}
          IN  out \o CASE cuts = {} -> <<r>>
                       [] cuts = {base, end} /\ base < end ->
                            <<Region(r.base, base, r.kern),
                              Region(base, end, r.kern),
                              Region(end, End(r), r.kern)>>
                       [] OTHER ->
                            LET x == CHOOSE x \in cuts : TRUE IN
                            <<Region(r.base, x, r.kern), Region(x, End(r), r.kern)>>
    IN  FoldLeft(step, <<>>, rs)

\* Mutant: regions that overlap the range are removed whole.
RemoveOverlapping(rs, base, size) ==
    LET disjoint(r) == End(r) <= base \/ r.base >= base + size
    IN  SelectSeq(rs, disjoint)

RemoveRange(rs, base, size) ==
    LET end == MinOf(base + size, AddrMax)
        outside(r) == r.base < base \/ End(r) > end
    IN  SelectSeq(Isolated(rs, base, end), outside)

-----------------------------------------------------------------------------
(* The search for a free range                                             *)

\* __next_mem_range_rev, called until it signals the end: two indices walk
\* down the memory regions and the gaps between reserved regions in lockstep.
\* Each step emits an intersection or moves one index; the order of the
\* emitted ranges is the order of the walk.
FreeRangesRev(ms, rs) ==
    LET gapStart(b) == IF b > 0 THEN End(rs[b]) ELSE 0
        gapEnd(b) == IF b < Len(rs) THEN rs[b + 1].base ELSE AddrMax
        step(w, n) ==
          IF w.a = 0 THEN w
          ELSE IF w.b < 0 \/ gapEnd(w.b) <= ms[w.a].base
            THEN [w EXCEPT !.a = @ - 1]
          ELSE IF End(ms[w.a]) <= gapStart(w.b)
            THEN [w EXCEPT !.b = @ - 1]
          ELSE LET m == ms[w.a] IN
               [a |-> IF m.base >= gapStart(w.b) THEN w.a - 1 ELSE w.a,
                b |-> IF m.base >= gapStart(w.b) THEN w.b ELSE w.b - 1,
                out |-> Append(w.out,
                               [start |-> MaxOf(m.base, gapStart(w.b)),
                                end |-> MinOf(End(m), gapEnd(w.b))])]
        steps == [n \in 1 .. Len(ms) + Len(rs) + 1 |-> n]
    IN  FoldLeft(step, [a |-> Len(ms), b |-> Len(rs), out |-> <<>>], steps).out

\* memblock_find_in_range_node and __memblock_find_range_top_down: does the
\* clamped free range [start, end) hold an aligned block, and where?
Candidate(end, size, align) == RoundDown(end - size, align)

\* Mutant: a range that fits exactly is passed over.
FitsStrictly(start, end, size, align) ==
    end >= size /\ Candidate(end, size, align) > start

Fits(start, end, size, align) ==
    end >= size /\ Candidate(end, size, align) >= start

FindInRange(rs, from, to, size, align) ==
    LET lo == MaxOf(from, PageSize)
        hi == MaxOf(lo, to)
        clamp(x) == MinOf(MaxOf(x, lo), hi)
        fits(f) == Fits(clamp(f.start), clamp(f.end), size, align)
        addrIn(fs, i) ==
          IF i = 0 THEN 0 ELSE Candidate(clamp(fs[i].end), size, align)
        firstFit(fs) == addrIn(fs, SelectInSeq(fs, fits))
    IN  firstFit(FreeRangesRev(memory, rs))

-----------------------------------------------------------------------------
(* The reserved array and its growth                                       *)

\* rs, max and array; whether memblock_double_array succeeded; whether the
\* BUG_ON of memblock_insert_region, an insertion into a full array, was hit.
Table == [rs |-> reserved, max |-> max, array |-> array, ok |-> TRUE,
          bug |-> FALSE]

Put(t, base, size, kern) ==
    LET n == Len(Inserted(t.rs, base, MinOf(base + size, AddrMax), kern))
    IN  [t EXCEPT !.rs = AddRange(@, base, size, kern),
                  !.bug = @ \/ n > MaxOf(t.max, 1)]

Take(t, base, size) ==
    LET n == Len(Isolated(t.rs, base, MinOf(base + size, AddrMax)))
    IN  [t EXCEPT !.rs = RemoveRange(@, base, size), !.bug = @ \/ n > t.max]

\* Mutant: the size of the old array is asked for.
ArraySizeOld(n) ==
    (RoundUp(n \div 2, RegionsPerPage) \div RegionsPerPage) * PageSize

ArraySize(n) == (RoundUp(n, RegionsPerPage) \div RegionsPerPage) * PageSize

\* Mutant: the range waiting to be reserved is not avoided.
FindArrayAnywhere(t, size, avoid) ==
    FindInRange(t.rs, 0, AddrMax, size, PageSize)

OrElse(addr, other) == IF addr # 0 THEN addr ELSE other

\* Above the range that is about to be reserved, else below it.
FindArray(t, size, avoid) ==
    OrElse(FindInRange(t.rs, End(avoid), AddrMax, size, PageSize),
           FindInRange(t.rs, 0, avoid.base, size, PageSize))

\* The array moves to addr: the old one is freed unless it is the static one,
\* and the new one is reserved; both find room in the doubled array.
MovedTo(t, addr, size) ==
    LET moved == [t EXCEPT !.max = 2 * @,
                           !.array = [base |-> addr, size |-> size]]
    IN  Put(IF t.array = Static THEN moved
            ELSE Take(moved, t.array.base, t.array.size), addr, size, TRUE)

\* memblock_double_array for the reserved array.
DoubleArray(t, avoid) ==
    LET size == ArraySize(2 * t.max)
        moved(addr) == IF addr = 0 THEN [t EXCEPT !.ok = FALSE]
                                   ELSE MovedTo(t, addr, size)
    IN  moved(FindArray(t, size, avoid))

\* while (type->cnt + need > type->max): double.  Two rounds are enough when
\* the array has at least two entries, three are allowed for.
GrowRounds == <<1, 2, 3>>

\* Mutant: one slot short.
GrownShort(t, need, avoid) ==
    LET step(u, round) == IF u.ok /\ Len(u.rs) + need - 1 > u.max
                            THEN DoubleArray(u, avoid) ELSE u
    IN  FoldLeft(step, t, GrowRounds)

Grown(t, need, avoid) ==
    LET step(u, round) == IF u.ok /\ Len(u.rs) + need > u.max
                            THEN DoubleArray(u, avoid) ELSE u
    IN  FoldLeft(step, t, GrowRounds)

\* __memblock_reserve.  The counting pass is skipped when the array has room
\* for the worst case.
Reserve(t, base, size, kern) ==
    LET end == MinOf(base + size, AddrMax)
        block == [base |-> base, size |-> end - base]
        put(u) == IF u.ok THEN Put(u, base, size, kern) ELSE u
    IN  put(IF 2 * Len(t.rs) + 1 <= t.max THEN t
            ELSE Grown(t, NrNew(t.rs, base, end), block))

\* memblock_phys_free.
Unreserve(t, base, size) ==
    LET take(u) == IF u.ok THEN Take(u, base, size) ELSE u
    IN  take(Grown(t, 2, [base |-> base, size |-> size]))

\* The table after an operation, which went well or failed for the reason why.
Install(t, why) ==
    /\ reserved' = t.rs
    /\ max' = t.max
    /\ array' = t.array
    /\ stop' = IF t.bug THEN "bug" ELSE why

-----------------------------------------------------------------------------
(* Operations                                                              *)

Init ==
    /\ memory = <<>>
    /\ reserved = <<>>
    /\ max = InitRegions
    /\ array = Static
    /\ pending = BootCalls
    /\ live = {}
    /\ lost = {}
    /\ stop = "no"

\* setup_machine_fdt and physmem_init.  Nothing is allocated before them.
MemblockAdd ==
    /\ pending # <<>>
    /\ LET call == Head(pending) IN
         /\ call.op = "add"
         /\ memory' = AddRange(memory, call.base, call.size, FALSE)
    /\ pending' = Tail(pending)
    /\ UNCHANGED <<reserved, max, array, live, lost, stop>>

MemblockReserve ==
    /\ pending # <<>>
    /\ LET call == Head(pending) IN
         /\ call.op = "reserve"
         /\ Install(Reserve(Table, call.base, call.size, FALSE), "no")
    /\ pending' = Tail(pending)
    /\ UNCHANGED <<memory, live, lost>>

\* memblock_alloc_range_nid: search, then reserve what was found.  It returns
\* 0 if either fails (t.ok is FALSE).
AllocRange(size, align) ==
    LET reserveAt(addr) ==
          [addr |-> addr, t |-> IF addr = 0 THEN [Table EXCEPT !.ok = FALSE]
                                ELSE Reserve(Table, addr, size, TRUE)]
    IN  reserveAt(FindInRange(reserved, 0, AddrMax, size,
                              IF align = 0 THEN CacheBytes ELSE align))

\* The size kmalloc really asks for.
Pow2AtLeast(n) == CHOOSE p \in {2 ^ k : k \in 0 .. n} : p >= n /\ p < 2 * n
KmallocSize(n) == Header + 2 * RoundUp(n, Pow2AtLeast(n))

\* kmalloc writes the header through the address it got, also when that is
\* the 0 of a failed allocation.
Kmalloc(n) ==
    /\ pending = <<>> /\ stop = "no"
    /\ \E r \in {AllocRange(KmallocSize(n), 0)} :
         /\ Install(r.t, IF r.t.ok THEN "no" ELSE "fault")
         /\ live' = IF ~r.t.ok THEN live
                    ELSE live \cup {[base |-> r.addr, size |-> KmallocSize(n),
                                     use |-> "kmalloc"]}
    /\ UNCHANGED <<memory, pending, lost>>

\* kfree computes the block from its header; it ignores a failure.
Kfree(block) ==
    /\ stop = "no"
    /\ block.use = "kmalloc"
    /\ \E t \in {Unreserve(Table, block.base, block.size)} :
         /\ Install(t, "no")
         /\ lost' = IF t.ok THEN lost ELSE lost \cup {block}
    /\ live' = live \ {block}
    /\ UNCHANGED <<memory, pending>>

\* pgtable_alloc hangs when there is no page; page tables are never freed.
PgtableAlloc ==
    /\ pending = <<>> /\ stop = "no"
    /\ \E r \in {AllocRange(PageSize, PageSize)} :
         /\ Install(r.t, IF r.t.ok THEN "no" ELSE "hang")
         /\ live' = IF ~r.t.ok THEN live
                    ELSE live \cup {[base |-> r.addr, size |-> PageSize,
                                     use |-> "page"]}
    /\ UNCHANGED <<memory, pending, lost>>

Next ==
    \/ MemblockAdd
    \/ MemblockReserve
    \/ \E n \in Requests : Kmalloc(n)
    \/ \E block \in live : Kfree(block)
    \/ PgtableAlloc

Spec == Init /\ [][Next]_vars

-----------------------------------------------------------------------------
(* Properties                                                              *)

Units(r) == r.base .. End(r) - 1
UnitsOf(S) == UNION {Units(r) : r \in S}
Overlaps(r, q) == r.base < End(q) /\ q.base < End(r)

Block == [base : Nat, size : Nat \ {0}, use : {"kmalloc", "page"}]
Reserves == {i \in 1 .. Len(BootCalls) - Len(pending) :
               BootCalls[i].op = "reserve"}

\* The values of the arrays and block sets; no array holds an empty region, and
\* the block an array was moved to holds all of its max entries
\* (memblock_double_array).
TypeOK ==
    /\ \A rs \in {memory, reserved} : \A i \in DOMAIN rs :
         rs[i] \in [base : Nat, size : Nat \ {0}, kern : BOOLEAN]
    /\ max \in Nat
    /\ array \in [base : Nat, size : Nat]
    /\ array # Static => array.size * RegionsPerPage >= max * PageSize
    /\ live \subseteq Block /\ lost \subseteq Block
    /\ stop \in {"no", "bug", "fault", "hang"}

\* Every array is sorted, free of overlaps, and minimal: "all neighbouring
\* compatible regions are merged", whatever was inserted, split or removed
\* (memblock.c:786).
RegionsMinimal ==
    \A rs \in {memory, reserved} : \A i \in 1 .. Len(rs) - 1 :
      /\ End(rs[i]) <= rs[i + 1].base
      /\ End(rs[i]) = rs[i + 1].base => rs[i].kern # rs[i + 1].kern

\* The reserved array accounts exactly for the memory in use: the kernel
\* image and device tree, the blocks handed out, the blocks a failed kfree
\* lost, and the array itself wherever it has moved.  A kfree gives back its
\* block and nothing else.
ReservedExact ==
    UnitsOf(Range(reserved)) =
      UnitsOf({BootCalls[i] : i \in Reserves} \cup live \cup lost \cup {array})

\* No address is in use twice: a block, the reserved array that grows while
\* another allocation is under way, and what was reserved at boot never
\* overlap, and all blocks lie in memory.
NoDoubleUse ==
    LET boot == {BootCalls[i] : i \in Reserves}
        blocks == live \cup lost
    IN  /\ \A b, d \in blocks : b # d => ~Overlaps(b, d)
        /\ \A b \in blocks : \A d \in boot \cup {array} : ~Overlaps(b, d)
        /\ \A d \in boot : ~Overlaps(array, d)
        /\ UnitsOf(blocks \cup {array}) \subseteq UnitsOf(Range(memory))

\* memblock_insert_region never meets a full array (BUG_ON, memblock.c:102):
\* the growth checks before inserting and before splitting leave room.
NoBugOn == stop # "bug" /\ Len(reserved) <= max

\* The top-down search is exact: it returns the highest aligned address at
\* which size units of memory are free above the first page, and fails only
\* if there is none.
SearchExact ==
    \A align \in {CacheBytes, PageSize} :
      \A size \in {KmallocSize(n) : n \in Requests} \cup {PageSize} :
        LET free == UnitsOf(Range(memory)) \ UnitsOf(Range(reserved))
            fit == {a \in free : /\ a % align = 0 /\ a >= PageSize
                                 /\ a .. a + size - 1 \subseteq free}
        IN  FindInRange(reserved, 0, AddrMax, size, align) =
              IF fit = {} THEN 0 ELSE Max(fit)

\* kmalloc reports that memory is exhausted, as its callers' checks for NULL
\* expect, rather than write through the address of a failed allocation.
KmallocReportsFailure == stop # "fault"
=============================================================================
