---------------------------- MODULE MCProcessLoad ----------------------------
(***************************************************************************)
(* ProcessLoad on tables of 2 pages to a PMD entry, 4 PMD entries to a PUD *)
(* entry and 4 PUD entries to a PGD entry.  A page is two units, so that   *)
(* sizes need not be whole pages.                                          *)
(***************************************************************************)
EXTENDS ProcessLoad

Seg(va, off, mem, flags, valid) ==
    [va |-> va, off |-> off, mem |-> mem, flags |-> flags, valid |-> valid]

\* Pages, a PUD block, then a PMD block followed by part of a page.
Full == [head |-> TRUE, meta |-> TRUE, metaoff |-> 40, metasize |-> 3, stack |-> 0, args |-> 2,
         segs |-> <<Seg(8, 0, 5, {"r", "x"}, TRUE), Seg(16, 16, 16, {"r"}, TRUE),
                    Seg(32, 32, 5, {"r", "w"}, TRUE)>>]
\* A small one that asks for more stack than there is.
Small == [Full EXCEPT !.segs = <<Seg(10, 2, 3, {"r", "w", "x"}, TRUE)>>, !.stack = 20, !.metasize = 1]
\* Arguments larger than the one page of stack.
Crowded == [Small EXCEPT !.stack = 2, !.args = 3]
\* The second segment reaches past the image area.
OutOfArea == [Full EXCEPT !.segs = <<@[1], Seg(38, 34, 5, {"r"}, TRUE)>>]
\* Refused by load_user_meta, by the header checks, by check_elf_ph.
BadMeta == [Full EXCEPT !.meta = FALSE]
BadHead == [Full EXCEPT !.head = FALSE]
BadHeader == [Full EXCEPT !.segs = <<@[1], [@[2] EXCEPT !.valid = FALSE]>>]

MCImages == {Full, Small, Crowded, OutOfArea, BadHeader, BadMeta, BadHead}
MCImageBase(n) == 64 * n
MCStackBase(n) == 1024 + (32 * n) + 2
=============================================================================
