----------------------------- MODULE MCKernelMap -----------------------------
(***************************************************************************)
(* KernelMap on tables of 4 pages to a PMD entry, 16 PMD entries to a PUD  *)
(* entry and 2 PUD entries to a PGD entry.  The linear map, the image and  *)
(* the fixmap have a PGD slot each, as in include/memory.h; FIXADDR_TOP is *)
(* four PMD entries below the end, MAX_FDT_SIZE is one PMD entry.          *)
(***************************************************************************)
EXTENDS KernelMap

\* The segment boundaries, in pages: segments shorter than, equal to and longer
\* than a block, with boundaries on and off block boundaries.
PageCuts ==
    {<<0, t, t + r, t + r + i, t + r + i + 1, t + r + i + 1 + d>> :
        t \in {1, 4, 9}, r \in {1, 3}, i \in {1, 8}, d \in {2, 5}}
Cuts == {[k \in 1 .. 6 |-> c[k] * Page] : c \in PageCuts}

\* Load addresses on and off a block boundary.
ImageBoots ==
    [stext : {144, 148}, cuts : Cuts, fdt : {224}, fdtsize : {3}, magic : {TRUE}]

\* Device trees below the image (close enough that the window reaches it) and
\* above it, on and off a page boundary (207 starts in the page before a block),
\* up to and beyond the maximal size; 0 is no device tree.
FdtBoots ==
    [stext : {144}, cuts : {[k \in 1 .. 6 |-> <<0, 5, 8, 9, 10, 14>>[k] * Page]},
     fdt : {0, 132, 133, 136, 141, 200, 201, 204, 205, 207}, fdtsize : {1, 3, 7, 8, 9}, magic : BOOLEAN]

MCBoots == ImageBoots \cup {b \in FdtBoots : b.fdt + b.fdtsize <= b.stext \/ b.fdt >= 172}

\* One page, a range across a page boundary, one too large, an empty one.
MCIoRequests ==
    {[phys |-> 20, size |-> 2], [phys |-> 31, size |-> 3],
     [phys |-> 41, size |-> 4], [phys |-> 50, size |-> 0]}
=============================================================================
