------------------------------- MODULE MCBuddy -------------------------------
(* Instances of Buddy for TLC. *)
EXTENDS BuddyRefinement

MCPow2 == [k \in 0 .. MAX_ORDER |-> 2 ^ k]

TOP == PAGE_NUM * PAGE_SIZE

\* Page 0, as main() does first, alone or followed by: a region that ends inside
\* the last page, one that begins and ends inside a page, and two that meet
\* inside a page, the higher one first.
Regions == { << <<0, PAGE_SIZE>> >> \o rest : rest \in
               { <<>>,
                 << <<TOP - PAGE_SIZE - 1, TOP - 1>> >>,
                 << <<2 * PAGE_SIZE + 1, 4 * PAGE_SIZE + 1>> >>,
                 << <<4 * PAGE_SIZE + 1, 6 * PAGE_SIZE>>, <<3 * PAGE_SIZE, 4 * PAGE_SIZE + 1>> >> } }
=============================================================================
