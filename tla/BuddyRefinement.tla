--------------------------- MODULE BuddyRefinement ---------------------------
(***************************************************************************)
(* Buddy implements PageAllocator.  _alloc takes effect when it returns and *)
(* _free when it leaves its merge loop: until then the block in hand still *)
(* counts as available, and the block being freed as owned.  The pages of  *)
(* every region count as reserved from the start of the boot.              *)
(***************************************************************************)
EXTENDS Buddy

Freeing == IF pc = "free" THEN {orig} ELSE {}

availBar ==
    IF pc \in {"idle", "alloc", "free"}
    THEN PagesOf(FreeBlocks \cup Hand) \ PagesOf(Freeing)
    ELSE Page \ UNION {RegionPages(n) : n \in 1 .. Len(regions)}

PA == INSTANCE PageAllocator WITH avail <- availBar, held <- held \cup Freeing

\* Seen from outside, every step of every call of mm.c is one atomic step of the
\* page allocator or changes nothing: an allocation takes exactly an aligned run
\* of 2^k available pages, a free gives back exactly what was taken, and the
\* splits and merges in between are invisible.
ImplementsPageAllocator == PA!Spec
=============================================================================
