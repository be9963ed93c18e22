------------------------------ MODULE PageTable ------------------------------
(***************************************************************************)
(* The four-level AArch64 translation tables that every mapping function   *)
(* of the kernel writes (include/pg_table.h), and the walk the MMU makes   *)
(* through them.                                                           *)
(*                                                                         *)
(* Levels are numbered as the code nests them: 3 is the PGD, 2 the PUD,    *)
(* 1 the PMD and 0 the PTE.  A set of tables is one partial function from  *)
(* <<level, address>> to descriptors; the address is the first one the     *)
(* descriptor covers.  A descriptor that is 0 (pXd_none) is a missing key. *)
(***************************************************************************)
EXTENDS Integers, Sequences, FiniteSets, SequencesExt

CONSTANTS
    Page,       \* PAGE_SIZE
    PmdSize,    \* PMD_SIZE, 1 << PMD_SHIFT
    PudSize,    \* PUD_SIZE, 1 << PUD_SHIFT
    PgdirSize   \* 1 << PGDIR_SHIFT

\* Every level's span is a whole number of spans of the level below.
ASSUME GeometryAssumption ==
    /\ {Page, PmdSize, PudSize, PgdirSize} \subseteq Nat \ {0}
    /\ PmdSize % Page = 0 /\ PudSize % PmdSize = 0 /\ PgdirSize % PudSize = 0

\* What one descriptor of a level covers.
Span(l) == CASE l = 0 -> Page [] l = 1 -> PmdSize [] l = 2 -> PudSize [] l = 3 -> PgdirSize

Down(a, size) == a - (a % size)
Up(a, size) == Down(a + size - 1, size)
Aligned(a, size) == a % size = 0

Smaller(a, b) == IF a < b THEN a ELSE b
Larger(a, b) == IF a < b THEN b ELSE a

-----------------------------------------------------------------------------
None == [kind |-> "none"]
Table == [kind |-> "table"]
\* A block (levels 1 and 2) or page (level 0) descriptor.
Leaf(pa, prot) == [kind |-> "leaf", pa |-> pa, prot |-> prot]

Key(l, va) == <<l, Down(va, Span(l))>>
Lookup(ents, l, va) ==
    IF Key(l, va) \in DOMAIN ents THEN ents[Key(l, va)] ELSE None

\* Write the descriptors of the function new.  Whatever hung below a block or
\* page descriptor that replaces a table can no longer be reached.
Hidden(ents, leaves) ==
    {k \in DOMAIN ents : \E h \in leaves : k[1] < h[1] /\ Down(k[2], Span(h[1])) = h[2]}
Write(ents, new) ==
    new @@ Restrict(ents, DOMAIN ents \ Hidden(ents, {h \in DOMAIN new : new[h].kind = "leaf"}))

-----------------------------------------------------------------------------
(***************************************************************************)
(* A range being mapped: virtual [va, end), physical from pa.  The loop of *)
(* each level cuts it at the level's boundaries (pgd_addr_end,             *)
(* pud_addr_end, pmd_addr_end), maps a part that a block descriptor covers *)
(* exactly, and hands the other parts to the level below.  The parts are   *)
(* disjoint, so a loop is a set of parts.                                  *)
(***************************************************************************)
Chunk(va, end, pa) == [va |-> va, end |-> end, pa |-> pa]

Parts(c, l) ==
    {Chunk(Larger(i * Span(l), c.va), Smaller((i + 1) * Span(l), c.end),
           c.pa + (Larger(i * Span(l), c.va) - c.va)) :
        i \in c.va \div Span(l) .. (c.end - 1) \div Span(l)}

\* Mutant: the physical alignment is not looked at.
FitsBlockAnyPa(c, l) == c.end - c.va = Span(l) /\ Aligned(c.va, Span(l))

FitsBlock(c, l) ==
    /\ c.end - c.va = Span(l)
    /\ Aligned(c.va, Span(l))
    /\ Aligned(c.pa, Span(l))

Cut(cs, l) == UNION {Parts(c, l) : c \in cs}
Blocks(cs, l) == {c \in cs : l = 0 \/ FitsBlock(c, l)}

\* The table descriptors and the frames of the block and page descriptors that
\* mapping c takes, from the PGD (which has no blocks) down.
Plan(c) ==
    LET pgd == Parts(c, 3)
        pud == Cut(pgd, 2)
        pmd == Cut(pud \ Blocks(pud, 2), 1)
        pte == Cut(pmd \ Blocks(pmd, 1), 0)
    IN [tables |-> {Key(3, k.va) : k \in pgd} \cup {Key(2, k.va) : k \in pud \ Blocks(pud, 2)}
                     \cup {Key(1, k.va) : k \in pmd \ Blocks(pmd, 1)},
        leaves |-> [k \in {Key(2, b.va) : b \in Blocks(pud, 2)}
                          \cup {Key(1, b.va) : b \in Blocks(pmd, 1)}
                          \cup {Key(0, b.va) : b \in pte} |-> c.pa + (k[2] - c.va)]]

-----------------------------------------------------------------------------
(***************************************************************************)
(* The translation the MMU performs: table descriptors down to the first   *)
(* block or page descriptor, whose address field has no bits below the     *)
(* block's size.  This is the hardware's side, the reference the mapping   *)
(* functions are checked against.                                          *)
(***************************************************************************)
Fault == [pa |-> -1, prot |-> "fault"]

Walk(ents, va) ==
    LET hits == {l \in 0 .. 2 : /\ Lookup(ents, l, va).kind = "leaf"
                                /\ \A h \in l + 1 .. 3 : Lookup(ents, h, va).kind = "table"}
    IN IF hits = {} THEN Fault
       ELSE LET l == CHOOSE h \in hits : TRUE
                d == Lookup(ents, l, va)
            IN [pa |-> Down(d.pa, Span(l)) + (va % Span(l)), prot |-> d.prot]

\* [va, va + size) translates to the physical range from pa with prot.
MapsTo(ents, va, size, pa, prot) ==
    \A i \in 0 .. size - 1 : Walk(ents, va + i) = [pa |-> pa + i, prot |-> prot]
=============================================================================
