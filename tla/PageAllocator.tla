---------------------------- MODULE PageAllocator ----------------------------
(***************************************************************************)
(* What src/src/mm.c promises its callers once the kernel is up: an        *)
(* allocation takes an aligned run of 2^k available pages, all at once,    *)
(* and freeing it makes exactly these pages available again.  The one      *)
(* departure is in the code: when the free pages make up a whole block of  *)
(* the largest order, _free drops that block instead of listing it, so     *)
(* Drop takes the place of Free there.                                     *)
(***************************************************************************)
EXTENDS Integers

CONSTANTS MAX_ORDER, MAX_BLOCKS, Pow2

Orders == 0 .. MAX_ORDER - 1
Page == 0 .. (MAX_BLOCKS * Pow2[MAX_ORDER - 1]) - 1

VARIABLES avail,   \* the pages an allocation may still take
          held     \* the blocks <<first page, order>> that callers own

Run(b) == b[1] .. b[1] + Pow2[b[2]] - 1
Whole(b) == LET top == Pow2[MAX_ORDER - 1]
                first == b[1] - (b[1] % top)
            IN first .. first + top - 1

\* Some pages, page 0 among them, are never handed out.
Init ==
    /\ \E reserved \in SUBSET Page : 0 \in reserved /\ avail = Page \ reserved
    /\ held = {}

\* The run is aligned and available.
Fits(b) == b[1] % Pow2[b[2]] = 0 /\ Run(b) \subseteq avail

Alloc(b) ==
    /\ Fits(b)
    /\ avail' = avail \ Run(b)
    /\ held' = held \cup {b}

Free(b) ==
    /\ ~ (Whole(b) \subseteq avail \cup Run(b))
    /\ avail' = avail \cup Run(b)
    /\ held' = held \ {b}

Drop(b) ==
    /\ Whole(b) \subseteq avail \cup Run(b)
    /\ avail' = avail \ Whole(b)
    /\ held' = held \ {b}

Next == \/ \E b \in Page \X Orders : Alloc(b)
        \/ \E b \in held : Free(b) \/ Drop(b)

Spec == Init /\ [][Next]_<<avail, held>>
=============================================================================
