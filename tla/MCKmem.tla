------------------------------- MODULE MCKmem -------------------------------
(* Instances of Kmem for TLC. *)
EXTENDS Kmem, TLC

MCPow2 == [k \in 0 .. 6 |-> 2 ^ k]
Symmetric == Permutations(Slot)

\* Both sides of the smallest and of the largest chunk, of a page and of a block.
MCSizes == {16, 17, 33, 97, 193}
Small == {16}
=============================================================================
