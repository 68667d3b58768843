-------------------------------- MODULE Buddy --------------------------------
(***************************************************************************)
(* The page allocator of src/src/mm.c: mm_init, reserve, _alloc and _free. *)
(*                                                                         *)
(* Memory is an array of PAGE_NUM page frames, page_list, cut at boot into *)
(* blocks of 2^(MAX_ORDER-1) pages.  free_list[k] holds the free blocks of *)
(* 2^k pages, each named by the index of its first page.  The C code keeps *)
(* every free_list[k] as a doubly linked list threaded through page_list;  *)
(* here it is the set of the entries, so _alloc may take any of them (the  *)
(* code takes the front one).                                              *)
(*                                                                         *)
(* Each loop iteration of the C functions is one action.  The calls are    *)
(* sequential: pc names the function being executed, "idle" when none is.  *)
(* main() calls mm_init (Init), then reserve once per region ("boot"), and *)
(* only then lets clients call _alloc and _free.                           *)
(*                                                                         *)
(* held, resv and orig are history variables: the blocks clients own, the  *)
(* blocks the boot regions took, and the block a running _free was given.  *)
(***************************************************************************)
EXTENDS Integers, Sequences, FiniteSets

CONSTANTS MAX_ORDER,    \* number of orders; the largest block has order MAX_ORDER-1
          PAGE_SIZE,    \* bytes per page
          MAX_BLOCKS,   \* PAGE_NUM / MAX_BLOCK_SIZE, 30 in mm.h
          Pow2,         \* the function k |-> 1 << k
          BootRegions   \* the sequences of regions main() may pass to reserve

Orders == 0 .. MAX_ORDER - 1
MAX_BLOCK_SIZE == Pow2[MAX_ORDER - 1]
PAGE_NUM == MAX_BLOCKS * MAX_BLOCK_SIZE
Page == 0 .. PAGE_NUM - 1
MAX_ALLOC_SIZE == PAGE_SIZE * MAX_BLOCK_SIZE

ASSUME SizeAssumption ==
    /\ MAX_ORDER \in Nat \ {0}
    /\ PAGE_SIZE \in Nat \ {0}
    /\ MAX_BLOCKS \in Nat \ {0}

ASSUME Pow2Assumption ==
    /\ Pow2 \in [0 .. MAX_ORDER -> Nat \ {0}]
    /\ Pow2[0] = 1
    /\ \A k \in Orders : Pow2[k + 1] = 2 * Pow2[k]
    /\ \A k \in Orders : MAX_BLOCK_SIZE % Pow2[k] = 0

\* A region is a nonempty range of bytes [first, last).  Two regions of one boot
\* never share a byte (they may share a page), and page 0, whose address is
\* NULL, always belongs to one: main() first reserves the spin tables.
ASSUME RegionAssumption ==
    \A rs \in BootRegions :
        /\ rs \in Seq(Nat \X Nat)
        /\ \A n \in 1 .. Len(rs) :
              rs[n][1] < rs[n][2] /\ rs[n][2] <= PAGE_NUM * PAGE_SIZE
        /\ \A n, m \in 1 .. Len(rs) :
              n # m => rs[n][2] <= rs[m][1] \/ rs[m][2] <= rs[n][1]
        /\ \E n \in 1 .. Len(rs) : rs[n][1] = 0

VARIABLES free_list,      \* free_list[k]: the listed blocks of order k
          order,          \* page_list[p].order
          entry_in_list,  \* page_list[p].entry_in_list # NULL
          pc,             \* which function is running
          cur,            \* _alloc: block; _free: curr_idx; reserve: i
          ord,            \* _alloc: i; _free: order; reserve: curr_order
          want,           \* _alloc: order
          regions,        \* the regions of this boot
          nreg,           \* the reserve call in progress, or the next one
          held,           \* blocks <<page, order>> returned by _alloc, not yet freed
          resv,           \* blocks taken off the free lists by reserve
          orig            \* the block the running _free was called with

list == <<free_list, order, entry_in_list>>
vars == <<free_list, order, entry_in_list, pc, cur, ord, want, regions, nreg,
          held, resv, orig>>

-----------------------------------------------------------------------------
(* Helpers of mm.c *)

round(size) == IF size % PAGE_SIZE = 0 THEN size
               ELSE (size \div PAGE_SIZE + 1) * PAGE_SIZE

\* The loop stops at the first order whose block is large enough.
get_order(size) ==
    CHOOSE k \in Orders :
        /\ Pow2[k] >= size \div PAGE_SIZE
        /\ \A j \in Orders : j < k => Pow2[j] < size \div PAGE_SIZE

\* idx ^ (1 << k): bit k of idx is flipped.
get_buddy(idx, k) == IF (idx \div Pow2[k]) % 2 = 0 THEN idx + Pow2[k]
                                                   ELSE idx - Pow2[k]

\* The block of order k that holds page idx.
Base(idx, k) == idx - (idx % Pow2[k])

add_to_free_list(fl, idx, k) ==
    IF k \in Orders THEN [fl EXCEPT ![k] = @ \cup {idx}] ELSE fl

rm_from_free_list(fl, idx, k) ==
    IF k \in Orders THEN [fl EXCEPT ![k] = @ \ {idx}] ELSE fl

-----------------------------------------------------------------------------
(* mm_init and reserve, called by main() before anything else allocates *)

Init ==
    /\ free_list = [k \in Orders |->
          IF k = MAX_ORDER - 1
          THEN {p \in Page : p % MAX_BLOCK_SIZE = 0} ELSE {}]
    /\ order = [p \in Page |->
          IF p % MAX_BLOCK_SIZE = 0 THEN MAX_ORDER - 1 ELSE 0]
    /\ entry_in_list = [p \in Page |-> p % MAX_BLOCK_SIZE = 0]
    /\ regions \in BootRegions
    /\ nreg = 1
    /\ pc = "boot"
    /\ cur = 0 /\ ord = 0 /\ want = 0
    /\ held = {} /\ resv = {} /\ orig = <<0, 0>>

start_idx(n) == regions[n][1] \div PAGE_SIZE
end_idx(n) == (regions[n][2] - 1) \div PAGE_SIZE

\* main() calls reserve(start, end) for the next region.
ReserveCall ==
    /\ pc = "boot" /\ nreg <= Len(regions)
    /\ pc' = "split_start"
    /\ ord' = MAX_ORDER - 1
    /\ UNCHANGED <<list, cur, want, regions, nreg, held, resv, orig>>

\* split(idx, k): the block becomes two listed blocks of the next lower order.
\* Neither the list nor entry_in_list is looked at.
split(idx, k) ==
    LET buddy == get_buddy(idx, k - 1)
        rest  == rm_from_free_list(free_list, idx, k)
    IN /\ free_list' = add_to_free_list(add_to_free_list(rest, idx, k - 1),
                                        buddy, k - 1)
       /\ order' = [order EXCEPT ![idx] = k - 1, ![buddy] = k - 1]
       /\ entry_in_list' = [entry_in_list EXCEPT ![idx] = TRUE, ![buddy] = TRUE]

\* `if (page_list[idx].order == curr_order) split(idx, curr_order)`
SplitIfWhole(idx) ==
    \/ order[idx] = ord /\ split(idx, ord)
    \/ order[idx] # ord /\ UNCHANGED list

\* One iteration of the split loop, first the block around the start of the
\* region, then the one around its end when that is another block.
SplitStart ==
    /\ pc = "split_start" /\ ord > 0
    /\ SplitIfWhole(Base(start_idx(nreg), ord))
    /\ pc' = "split_end"
    /\ UNCHANGED <<cur, ord, want, regions, nreg, held, resv, orig>>

SplitEnd ==
    /\ pc = "split_end"
    /\ IF Base(start_idx(nreg), ord) = Base(end_idx(nreg), ord)
       THEN UNCHANGED list
       ELSE SplitIfWhole(Base(end_idx(nreg), ord))
    /\ ord' = ord - 1
    /\ pc' = "split_start"
    /\ UNCHANGED <<cur, want, regions, nreg, held, resv, orig>>

\* The split loop has reached order 0: start removing at start_idx.
SplitDone ==
    /\ pc = "split_start" /\ ord = 0
    /\ cur' = start_idx(nreg)
    /\ pc' = "take"
    /\ UNCHANGED <<list, ord, want, regions, nreg, held, resv, orig>>

\* Mutant of Take: the loop `i < end_idx`.
TakeNotLast ==
    /\ pc = "take" /\ cur <= end_idx(nreg)
    /\ IF entry_in_list[cur] /\ cur # end_idx(nreg)
       THEN /\ free_list' = rm_from_free_list(free_list, cur, order[cur])
            /\ entry_in_list' = [entry_in_list EXCEPT ![cur] = FALSE]
            /\ resv' = resv \cup {<<cur, order[cur]>>}
       ELSE UNCHANGED <<free_list, entry_in_list, resv>>
    /\ cur' = cur + Pow2[order[cur]]
    /\ UNCHANGED <<order, pc, ord, want, regions, nreg, held, orig>>

\* One iteration of the removal loop.
Take ==
    /\ pc = "take" /\ cur <= end_idx(nreg)
    /\ IF entry_in_list[cur]
       THEN /\ free_list' = rm_from_free_list(free_list, cur, order[cur])
            /\ entry_in_list' = [entry_in_list EXCEPT ![cur] = FALSE]
            /\ resv' = resv \cup {<<cur, order[cur]>>}
       ELSE UNCHANGED <<free_list, entry_in_list, resv>>
    /\ cur' = cur + Pow2[order[cur]]
    /\ UNCHANGED <<order, pc, ord, want, regions, nreg, held, orig>>

\* The removal loop is past end_idx: reserve returns.
ReserveReturn ==
    /\ pc = "take" /\ cur > end_idx(nreg)
    /\ nreg' = nreg + 1
    /\ cur' = 0
    /\ pc' = "boot"
    /\ UNCHANGED <<list, ord, want, regions, held, resv, orig>>

\* Every region is reserved: main() goes on and clients may call.
BootDone ==
    /\ pc = "boot" /\ nreg > Len(regions)
    /\ pc' = "idle"
    /\ UNCHANGED <<list, cur, ord, want, regions, nreg, held, resv, orig>>

-----------------------------------------------------------------------------
(* _alloc *)

\* The call up to the removal of the block it found: the lowest order that is
\* large enough and not empty.
Alloc(size) ==
    /\ pc = "idle" /\ size > 0 /\ size <= MAX_ALLOC_SIZE
    /\ LET k == get_order(round(size)) IN
       \E i \in k .. MAX_ORDER - 1 :
          /\ free_list[i] # {}
          /\ \A j \in k .. i - 1 : free_list[j] = {}
          /\ \E block \in free_list[i] :
                /\ free_list' = rm_from_free_list(free_list, block, i)
                /\ cur' = block
          /\ ord' = i
          /\ want' = k
    /\ pc' = "alloc"
    /\ UNCHANGED <<order, entry_in_list, regions, nreg, held, resv, orig>>

\* An invalid size, or no block: NULL is returned.
AllocNull(size) ==
    /\ pc = "idle"
    /\ \/ size = 0 \/ size > MAX_ALLOC_SIZE
       \/ /\ size \in 1 .. MAX_ALLOC_SIZE
          /\ \A i \in get_order(round(size)) .. MAX_ORDER - 1 : free_list[i] = {}
    /\ UNCHANGED vars

\* Mutant of AllocSplit: the upper half is listed but not marked so.
AllocSplitUnmarked ==
    /\ pc = "alloc" /\ ord > want
    /\ LET upper == cur + Pow2[ord - 1] IN
          /\ free_list' = add_to_free_list(free_list, upper, ord - 1)
          /\ order' = [order EXCEPT ![upper] = ord - 1]
    /\ ord' = ord - 1
    /\ UNCHANGED <<entry_in_list, pc, cur, want, regions, nreg, held, resv, orig>>

\* One iteration of `while (i > order)`: the upper half goes back to its list.
AllocSplit ==
    /\ pc = "alloc" /\ ord > want
    /\ LET upper == cur + Pow2[ord - 1] IN
          /\ free_list' = add_to_free_list(free_list, upper, ord - 1)
          /\ order' = [order EXCEPT ![upper] = ord - 1]
          /\ entry_in_list' = [entry_in_list EXCEPT ![upper] = TRUE]
    /\ ord' = ord - 1
    /\ UNCHANGED <<pc, cur, want, regions, nreg, held, resv, orig>>

\* Mutants of AllocReturn: the block keeps its list mark, or records an order one
\* too large.
AllocReturnBut(k, entry) ==
    /\ pc = "alloc" /\ ord <= want
    /\ order' = [order EXCEPT ![cur] = k]
    /\ entry_in_list' = [entry_in_list EXCEPT ![cur] = entry]
    /\ held' = held \cup {<<cur, want>>}
    /\ pc' = "idle"
    /\ UNCHANGED <<free_list, cur, ord, want, regions, nreg, resv, orig>>
AllocReturnMarked == AllocReturnBut(want, TRUE)
AllocReturnOrder == AllocReturnBut(want + 1, FALSE)

\* The block is marked and its address returned.
AllocReturn ==
    /\ pc = "alloc" /\ ord <= want
    /\ order' = [order EXCEPT ![cur] = want]
    /\ entry_in_list' = [entry_in_list EXCEPT ![cur] = FALSE]
    /\ held' = held \cup {<<cur, want>>}
    /\ pc' = "idle"
    /\ UNCHANGED <<free_list, cur, ord, want, regions, nreg, resv, orig>>

-----------------------------------------------------------------------------
(* _free *)

\* A client frees a block it owns.  The order is the one page_list remembers.
\* The check that rejects a listed page is never taken for an owned block.
Free(b) ==
    /\ pc = "idle" /\ b \in held
    /\ b[1] # 0 /\ ~ entry_in_list[b[1]]
    /\ held' = held \ {b}
    /\ orig' = b
    /\ cur' = b[1]
    /\ ord' = order[b[1]]
    /\ pc' = "free"
    /\ UNCHANGED <<list, want, regions, nreg, resv>>

\* NULL, or a block that is listed already, freed a second time: _free returns.
FreeIgnored(p) ==
    /\ pc = "idle"
    /\ p = 0 \/ entry_in_list[p]
    /\ UNCHANGED vars

\* `buddy_entry && page_list[buddy_idx].order == page_list[curr_idx].order`
HaveBuddy ==
    LET buddy == get_buddy(cur, ord)
    IN entry_in_list[buddy] /\ order[buddy] = order[cur]

\* Mutant of FreeMerge: the buddy stays on its list.
FreeMergeKeepsBuddy ==
    /\ pc = "free" /\ ord < MAX_ORDER - 1 /\ HaveBuddy
    /\ LET buddy   == get_buddy(cur, ord)
           bigger  == IF cur > buddy THEN cur ELSE buddy
           smaller == IF cur < buddy THEN cur ELSE buddy
       IN /\ order' = [order EXCEPT ![smaller] = ord + 1, ![bigger] = -1]
          /\ entry_in_list' = [entry_in_list EXCEPT ![bigger] = FALSE]
          /\ cur' = smaller
    /\ ord' = ord + 1
    /\ UNCHANGED <<free_list, pc, want, regions, nreg, held, resv, orig>>

\* One iteration of the merge loop that finds the buddy listed.
FreeMerge ==
    /\ pc = "free" /\ ord < MAX_ORDER - 1 /\ HaveBuddy
    /\ LET buddy   == get_buddy(cur, ord)
           bigger  == IF cur > buddy THEN cur ELSE buddy
           smaller == IF cur < buddy THEN cur ELSE buddy
       IN /\ free_list' = rm_from_free_list(free_list, buddy, ord)
          /\ order' = [order EXCEPT ![smaller] = ord + 1, ![bigger] = -1]
          /\ entry_in_list' = [entry_in_list EXCEPT ![bigger] = FALSE]
          /\ cur' = smaller
    /\ ord' = ord + 1
    /\ UNCHANGED <<pc, want, regions, nreg, held, resv, orig>>

\* Mutants of FreeInsert: the merged block is listed with the order it was
\* allocated with, and the `break` is missing.
FreeInsertBut(k, next) ==
    /\ pc = "free" /\ ord < MAX_ORDER - 1 /\ ~ HaveBuddy
    /\ free_list' = add_to_free_list(free_list, cur, k)
    /\ entry_in_list' = [entry_in_list EXCEPT ![cur] = TRUE]
    /\ order' = [order EXCEPT ![cur] = k]
    /\ pc' = next
    /\ UNCHANGED <<cur, ord, want, regions, nreg, held, resv, orig>>
FreeInsertOldOrder == FreeInsertBut(orig[2], "idle")
FreeInsertNoBreak == FreeInsertBut(ord, "free")

\* The iteration that does not: the block is listed and the loop left.
FreeInsert ==
    /\ pc = "free" /\ ord < MAX_ORDER - 1 /\ ~ HaveBuddy
    /\ free_list' = add_to_free_list(free_list, cur, ord)
    /\ entry_in_list' = [entry_in_list EXCEPT ![cur] = TRUE]
    /\ order' = [order EXCEPT ![cur] = ord]
    /\ pc' = "idle"
    /\ UNCHANGED <<cur, ord, want, regions, nreg, held, resv, orig>>

\* The loop condition fails: _free returns and the block is on no list.
FreeMaxOrder ==
    /\ pc = "free" /\ ord >= MAX_ORDER - 1
    /\ pc' = "idle"
    /\ UNCHANGED <<list, cur, ord, want, regions, nreg, held, resv, orig>>

-----------------------------------------------------------------------------
Boot == ReserveCall \/ SplitStart \/ SplitEnd \/ SplitDone \/ Take
        \/ ReserveReturn \/ BootDone

\* The steps of a call that is running.
Step == AllocSplit \/ AllocReturn \/ FreeMerge \/ FreeInsert \/ FreeMaxOrder

Call == \/ \E size \in 0 .. MAX_ALLOC_SIZE + 1 : Alloc(size) \/ AllocNull(size)
        \/ \E b \in held : Free(b)
        \/ \E p \in Page : FreeIgnored(p)

Next == Boot \/ Step \/ Call

Spec == Init /\ [][Next]_vars

\* A function that was called keeps running.
FairSpec == Spec /\ WF_vars(Boot) /\ WF_vars(Step)

-----------------------------------------------------------------------------
(* Blocks and the pages they cover *)

Pages(b) == b[1] .. b[1] + Pow2[b[2]] - 1
PagesOf(S) == UNION {Pages(b) : b \in S}
RegionPages(n) == start_idx(n) .. end_idx(n)

\* The pages that hold a byte of region n.
TouchedPages(n) == {p \in Page : /\ p * PAGE_SIZE < regions[n][2]
                                 /\ regions[n][1] < (p + 1) * PAGE_SIZE}

FreeBlocks == {b \in Page \X Orders : b[1] \in free_list[b[2]]}

\* The block a running _alloc or _free is working on.
Hand == IF pc \in {"alloc", "free"} THEN {<<cur, ord>>} ELSE {}

\* Every block of the system with its owner.
Blocks == ({"free"} \X FreeBlocks) \cup ({"held"} \X held)
          \cup ({"resv"} \X resv) \cup ({"hand"} \X Hand)

Apart(b, c) == \/ b[1] + Pow2[b[2]] <= c[1]
               \/ c[1] + Pow2[c[2]] <= b[1]

-----------------------------------------------------------------------------
(* Properties *)

TypeOK ==
    /\ free_list \in [Orders -> SUBSET Page]
    /\ order \in [Page -> -1 .. MAX_ORDER - 1]
    /\ entry_in_list \in [Page -> BOOLEAN]
    /\ pc \in {"boot", "split_start", "split_end", "take", "idle", "alloc", "free"}
    /\ cur \in 0 .. PAGE_NUM
    /\ ord \in Orders /\ want \in Orders
    /\ regions \in Seq(Nat \X Nat)
    /\ nreg \in 1 .. Len(regions) + 1
    /\ held \subseteq Page \X Orders
    /\ resv \subseteq Page \X Orders
    /\ orig \in Page \X Orders

\* No page belongs to two blocks: what _alloc returns is in no other client's
\* block, in no reserved region and on no free list, at every step of every call.
NoOverlap ==
    \A b, c \in Blocks : b # c => Apart(b[2], c[2])

\* free_list and page_list agree: a listed block is marked listed with its order
\* (so a later _free of its buddy finds it), and a page marked listed is on that
\* list.  Two exceptions: the block in the hands of a running call, and a block
\* of the largest order, whose mark _free may leave behind.
ListConsistent ==
    /\ \A b \in FreeBlocks : entry_in_list[b[1]] /\ order[b[1]] = b[2]
    /\ \A p \in Page : entry_in_list[p] =>
          \/ <<p, order[p]>> \in FreeBlocks
          \/ Hand # {} /\ p = cur
          \/ order[p] = MAX_ORDER - 1

\* A block a client owns is not NULL, and page_list keeps what _free will read
\* from it (its size, and that it is not listed) until the client frees it,
\* whatever is merged or split around it in between.
HeldIntact ==
    \A b \in held : b[1] # 0 /\ order[b[1]] = b[2] /\ ~ entry_in_list[b[1]]

\* Between calls the free pages are coalesced: an aligned run of 2^k pages that
\* are all free lies in one listed block, so _alloc finds it when asked for 2^k
\* pages and never answers NULL while a run of that size is free.
FreeRunIsBlock ==
    pc = "idle" =>
        \A k \in Orders : \A p \in Page :
            /\ Base(p, k) = p
            /\ Pages(<<p, k>>) \subseteq PagesOf(FreeBlocks)
            => \E b \in FreeBlocks : Pages(<<p, k>>) \subseteq Pages(b)

\* After boot exactly the pages that hold a byte of a region are withheld, whatever order the
\* regions come in and whether or not two of them meet inside a page: reserve
\* neither leaves one of their pages on a free list nor takes another one, and
\* no later region gives back what an earlier one took.
ReservedExactly ==
    pc \in {"boot", "idle", "alloc", "free"} =>
        PagesOf(resv) = UNION {TouchedPages(n) : n \in 1 .. nreg - 1}

\* At every step each page is free, owned, reserved or in hand, except that a block of
\* the largest order may be missing as a whole: _free loses nothing smaller.
LostOnlyMaxOrder ==
    LET known == PagesOf({b[2] : b \in Blocks})
    IN \A p \in Page \ known :
          Pages(<<Base(p, MAX_ORDER - 1), MAX_ORDER - 1>>) \cap known = {}

\* Every call ends: the loops of reserve, _alloc and _free terminate.
CallsReturn == (pc # "idle") ~> (pc = "idle")

-----------------------------------------------------------------------------
(***************************************************************************)
(* The inductive invariant behind NoOverlap, ListConsistent, HeldIntact    *)
(* and ReservedExactly (proved in BuddyProofs).  split() does not look     *)
(* whether the block it cuts is listed, so the boot part has to say why it *)
(* always is: every page lies in a block, only the first page of a block   *)
(* has an order above 0, and a reserved block of more than one page lies   *)
(* strictly inside its region, where no later region reaches.              *)
(***************************************************************************)
Booting == pc \in {"boot", "split_start", "split_end", "take"}

BlockAt(p, k) == p \in free_list[k] \/ <<p, k>> \in resv

\* Every block starts at a multiple of its size.
Aligned == \A b \in Blocks :
              b[2] \in Page \X Orders /\ b[2][1] % Pow2[b[2][2]] = 0

\* What the running call and its clients know of their blocks.
CallState ==
    /\ pc = "alloc" => want <= ord
    /\ pc = "free" => order[cur] = ord
    /\ \A b \in held : order[b[1]] = b[2] /\ ~ entry_in_list[b[1]]

\* During boot page_list describes the blocks exactly.
BootState == Booting =>
    /\ held = {}
    /\ \A p \in Page :
          /\ order[p] >= 0
          /\ entry_in_list[p] => <<p, order[p]>> \in FreeBlocks
          /\ order[p] > 0 => BlockAt(p, order[p])
    /\ \A b \in resv : order[b[1]] = b[2]
    /\ \A x \in Page : \E k \in Orders : BlockAt(Base(x, k), k)

\* The regions reserve has started to take pages of.
Begun == 1 .. (IF pc = "take" THEN nreg ELSE nreg - 1)

\* A reserved block lies in its region, strictly if it has several pages.
ResvInside == \A b \in resv : \E n \in Begun :
    /\ start_idx(n) <= b[1] /\ b[1] + Pow2[b[2]] - 1 <= end_idx(n)
    /\ b[2] > 0 => start_idx(n) < b[1] /\ b[1] + Pow2[b[2]] - 1 < end_idx(n)

Withheld(x) == \E b \in resv : b[1] <= x /\ x < b[1] + Pow2[b[2]]

\* Every page of a region that reserve is done with is reserved, and those the
\* removal loop has passed.
ResvComplete ==
    /\ \A n \in 1 .. nreg - 1 : \A x \in RegionPages(n) : Withheld(x)
    /\ pc = "take" => \A x \in start_idx(nreg) .. cur - 1 : Withheld(x)

\* The block around page x has order m at most.
CutTo(x, m) == \E k \in 0 .. m : BlockAt(Base(x, k), k)

\* Where the split loop is.
Cut ==
    /\ pc \in {"split_start", "split_end", "take"} => nreg <= Len(regions)
    /\ pc = "split_start" => CutTo(start_idx(nreg), ord) /\ CutTo(end_idx(nreg), ord)
    /\ pc = "split_end" => /\ ord > 0
                           /\ CutTo(start_idx(nreg), ord - 1)
                           /\ CutTo(end_idx(nreg), ord)
    /\ pc = "take" => /\ CutTo(start_idx(nreg), 0) /\ CutTo(end_idx(nreg), 0)
                      /\ start_idx(nreg) <= cur
    /\ pc \in {"idle", "alloc", "free"} => nreg = Len(regions) + 1

IInv ==
    /\ TypeOK /\ regions \in BootRegions
    /\ NoOverlap /\ Aligned
    /\ ListConsistent /\ CallState
    /\ BootState /\ ResvInside /\ ResvComplete /\ Cut

=============================================================================
