----------------------------- MODULE BuddyProofs -----------------------------
(***************************************************************************)
(* Proofs about Buddy, for every number of orders, page size, memory size  *)
(* and list of boot regions: the arithmetic of aligned blocks, the         *)
(* inductive invariant, coalescing, and the refinement of PageAllocator.   *)
(***************************************************************************)
EXTENDS BuddyRefinement, WellFoundedInduction, TLAPS

-----------------------------------------------------------------------------
(* Aligned blocks: rounding a page index down to a multiple of a block     *)
(* size P and of the double size Q = 2 * P, the arithmetic under the buddy *)
(* scheme of src/src/mm.c (get_buddy, reserve's start_block_idx, split).   *)

\* Division with remainder, as used for (addr - memory_start) / PAGE_SIZE.
LEMMA DivMod ==
    ASSUME NEW x \in Nat, NEW P \in Nat \ {0}
    PROVE  \E q \in Nat : \E r \in 0 .. P - 1 :
              x = P * q + r /\ q = x \div P /\ r = x % P
<1>1. x = P * (x \div P) + (x % P) /\ x % P \in 0 .. P - 1 /\ x \div P \in Int
  OBVIOUS
<1>2. x \div P \in Nat
  OBVIOUS
<1> QED
  BY <1>1, <1>2, Zenon

\* Quotient and remainder are determined by such a decomposition.
LEMMA DivModUnique ==
    ASSUME NEW P \in Nat \ {0}, NEW q \in Int, NEW r \in 0 .. P - 1
    PROVE  (P * q + r) % P = r /\ (P * q + r) \div P = q
OBVIOUS

\* A multiple of P has no remainder.
LEMMA MultMod ==
    ASSUME NEW P \in Nat \ {0}, NEW q \in Int
    PROVE  (P * q) % P = 0 /\ (P * q) \div P = q
OBVIOUS

\* Division by the page size keeps the order of addresses.
LEMMA DivMono ==
    ASSUME NEW P \in Nat \ {0}, NEW x \in Nat, NEW y \in Nat, x <= y
    PROVE  x \div P <= y \div P
OBVIOUS

\* Rounding down gives the aligned block of P pages that holds page x.
LEMMA RoundDown ==
    ASSUME NEW x \in Nat, NEW P \in Nat \ {0}
    PROVE  /\ x - (x % P) \in Nat
           /\ x - (x % P) <= x
           /\ x < x - (x % P) + P
           /\ (x - (x % P)) % P = 0
<1>1. PICK q \in Nat : \E r \in 0 .. P - 1 :
              x = P * q + r /\ q = x \div P /\ r = x % P
  BY DivMod, Zenon
<1>2. x - (x % P) = P * q
  BY <1>1
<1>3. q \in Int
  OBVIOUS
<1>4. (x - (x % P)) % P = 0
  BY <1>2, <1>3, MultMod, Zenon
<1>5. x - (x % P) \in Nat /\ x - (x % P) <= x /\ x < x - (x % P) + P
  OBVIOUS
<1> QED
  BY <1>4, <1>5, Zenon

\* An aligned block that starts below a multiple N of its size ends below it.
LEMMA FitsBelow ==
    ASSUME NEW P \in Nat \ {0}, NEW N \in Nat, N % P = 0, NEW x \in Nat, x < N
    PROVE  x - (x % P) + P <= N
<1>1. PICK q \in Nat : \E r \in 0 .. P - 1 :
              x = P * q + r /\ q = x \div P /\ r = x % P
  BY DivMod, Zenon
<1>2. PICK m \in Nat : \E r \in 0 .. P - 1 :
              N = P * m + r /\ m = N \div P /\ r = N % P
  BY DivMod, Zenon
<1>3. N = P * m
  BY <1>2
<1>4. x - (x % P) = P * q
  BY <1>1
<1>5. q < m
  BY <1>1, <1>3
<1>6. P * q + P <= P * m
  BY <1>5
<1> QED
  BY <1>3, <1>4, <1>6, Zenon

\* The block of P pages around x is one of the halves of the block of 2 * P.
LEMMA Halves ==
    ASSUME NEW x \in Nat, NEW P \in Nat \ {0}, NEW Q \in Nat \ {0}, Q = 2 * P
    PROVE  x - (x % P) \in {x - (x % Q), x - (x % Q) + P}
<1>1. PICK q \in Nat : \E r \in 0 .. Q - 1 :
              x = Q * q + r /\ q = x \div Q /\ r = x % Q
  BY DivMod, Zenon
<1>2. PICK r \in 0 .. Q - 1 : x = Q * q + r /\ r = x % Q
  BY <1>1, Zenon
<1>3. CASE r < P
  <2>1. x = P * (2 * q) + r /\ 2 * q \in Int /\ r \in 0 .. P - 1
    BY <1>2, <1>3
  <2>2. (P * (2 * q) + r) % P = r
    BY <2>1, DivModUnique, Zenon
  <2>3. x % P = r
    BY <2>1, <2>2, Zenon
  <2> QED
    BY <2>3, <1>2, Zenon
<1>4. CASE r >= P
  <2>1. x = P * (2 * q + 1) + (r - P) /\ 2 * q + 1 \in Int /\ r - P \in 0 .. P - 1
    BY <1>2, <1>4
  <2>2. (P * (2 * q + 1) + (r - P)) % P = r - P
    BY <2>1, DivModUnique, Zenon
  <2>3. x % P = (x % Q) - P
    BY <2>1, <2>2, <1>2, Zenon
  <2>4. \A a, b \in Nat : a = b - P => x - a = x - b + P
    OBVIOUS
  <2>5. x % P \in Nat /\ x % Q \in Nat
    OBVIOUS
  <2>6. x - (x % P) = x - (x % Q) + P
    BY <2>3, <2>4, <2>5, Zenon
  <2> QED
    BY <2>6, Zenon
<1> QED
  BY <1>2, <1>3, <1>4

\* The start of a block of 2 * P pages is aligned for P, is the lower of two
\* buddies of P pages, and so is the upper half aligned.
LEMMA LowerHalf ==
    ASSUME NEW x \in Nat, NEW P \in Nat \ {0}, NEW Q \in Nat \ {0}, Q = 2 * P,
           x % Q = 0
    PROVE  (x \div P) % 2 = 0 /\ x % P = 0 /\ (x + P) % P = 0
<1>1. PICK q \in Nat : \E r \in 0 .. Q - 1 :
              x = Q * q + r /\ q = x \div Q /\ r = x % Q
  BY DivMod, Zenon
<1>2. x = Q * q
  BY <1>1
<1>3. x = P * (2 * q) /\ 2 * q \in Int
  BY <1>2
<1>4. x \div P = 2 * q /\ x % P = 0
  BY <1>3, MultMod, Zenon
<1>5. x + P = P * (2 * q + 1) /\ 2 * q + 1 \in Int
  BY <1>2
<1>6. (x + P) % P = 0
  BY <1>5, MultMod, Zenon
<1>7. (2 * q) % 2 = 0
  OBVIOUS
<1> QED
  BY <1>4, <1>6, <1>7, Zenon

\* The lower of two buddies of P pages starts a block of 2 * P pages.
LEMMA BuddyAligned ==
    ASSUME NEW x \in Nat, NEW P \in Nat \ {0}, NEW Q \in Nat \ {0}, Q = 2 * P,
           x % P = 0
    PROVE  /\ (x \div P) % 2 = 0 => x % Q = 0
           /\ (x \div P) % 2 # 0 => x >= P /\ (x - P) % Q = 0
<1>1. PICK q \in Nat : x = P * q /\ q = x \div P
  <2>1. PICK q \in Nat : \E r \in 0 .. P - 1 :
                x = P * q + r /\ q = x \div P /\ r = x % P
    BY DivMod, Zenon
  <2>2. x = P * q
    BY <2>1
  <2> QED
    BY <2>1, <2>2, Zenon
<1>2. PICK h \in Nat : \E r \in 0 .. 1 : q = 2 * h + r /\ r = q % 2
  OBVIOUS
<1>3. CASE q % 2 = 0
  <2>1. x = Q * h /\ h \in Int
    BY <1>1, <1>2, <1>3
  <2>2. x % Q = 0
    BY <2>1, MultMod, Zenon
  <2> QED
    BY <2>2, <1>1, <1>3, Zenon
<1>4. CASE q % 2 # 0
  <2>1. x - P = Q * h /\ h \in Int
    BY <1>1, <1>2, <1>4
  <2>2. (x - P) % Q = 0
    BY <2>1, MultMod, Zenon
  <2>3. x >= P
    <3>1. Q * h >= 0
      OBVIOUS
    <3> QED
      BY <3>1, <2>1
  <2> QED
    BY <2>2, <2>3, <1>1, <1>4, Zenon
<1> QED
  BY <1>3, <1>4, Zenon

\* The pages from the one of the first byte to the one of the last byte are those
\* that hold a byte of the range.
LEMMA PagesOfBytes ==
    ASSUME NEW P \in Nat \ {0}, NEW first \in Nat, NEW last \in Nat, first < last,
           NEW x \in Nat
    PROVE  (first \div P <= x /\ x <= (last - 1) \div P)
              <=> (x * P < last /\ first < (x + 1) * P)
<1>1. PICK q \in Nat : \E r \in 0 .. P - 1 :
         first = P * q + r /\ q = first \div P /\ r = first % P
  BY DivMod, Zenon
<1>2. last - 1 \in Nat
  OBVIOUS
<1>3. PICK u \in Nat : \E r \in 0 .. P - 1 :
         last - 1 = P * u + r /\ u = (last - 1) \div P /\ r = (last - 1) % P
  BY <1>2, DivMod, Zenon
<1>4. PICK r \in 0 .. P - 1 : first = P * q + r
  BY <1>1
<1>5. PICK w \in 0 .. P - 1 : last - 1 = P * u + w
  BY <1>3
<1>6. q <= x <=> first < (x + 1) * P
  <2>1. ASSUME q <= x PROVE first < (x + 1) * P
    <3>1. P * q <= P * x
      BY <2>1
    <3> QED
      BY <3>1, <1>4
  <2>2. ASSUME x < q PROVE ~ (first < (x + 1) * P)
    <3>1. P * (x + 1) <= P * q
      BY <2>2
    <3> QED
      BY <3>1, <1>4
  <2> QED
    BY <2>1, <2>2
<1>7. x <= u <=> x * P < last
  <2>1. ASSUME x <= u PROVE x * P < last
    <3>1. P * x <= P * u
      BY <2>1
    <3> QED
      BY <3>1, <1>5
  <2>2. ASSUME u < x PROVE ~ (x * P < last)
    <3>1. P * (u + 1) <= P * x
      BY <2>2
    <3> QED
      BY <3>1, <1>5
  <2> QED
    BY <2>1, <2>2
<1> QED
  BY <1>1, <1>3, <1>6, <1>7

-----------------------------------------------------------------------------
(* The constants *)

\* The sizes of blocks, and that memory is a whole number of blocks of each.
LEMMA Sizes ==
    /\ MAX_ORDER \in Nat \ {0} /\ MAX_ORDER - 1 \in Orders
    /\ \A k \in Orders : k \in Nat /\ k <= MAX_ORDER - 1
    /\ \A k \in Orders : Pow2[k] \in Nat \ {0}
    /\ Pow2[0] = 1 /\ 0 \in Orders
    /\ \A k \in Orders : k > 0 => k - 1 \in Orders /\ Pow2[k] = 2 * Pow2[k - 1]
    /\ \A k \in Orders : k < MAX_ORDER - 1 => k + 1 \in Orders /\ Pow2[k + 1] = 2 * Pow2[k]
    /\ PAGE_NUM \in Nat \ {0}
    /\ \A k \in Orders : PAGE_NUM % Pow2[k] = 0
<1>1. /\ MAX_ORDER \in Nat \ {0} /\ MAX_ORDER - 1 \in Orders
      /\ \A k \in Orders : k \in Nat /\ k <= MAX_ORDER - 1
      /\ \A k \in Orders : Pow2[k] \in Nat \ {0}
      /\ Pow2[0] = 1 /\ 0 \in Orders
  BY SizeAssumption, Pow2Assumption DEF Orders
<1>2. \A k \in Orders : k > 0 => k - 1 \in Orders /\ Pow2[k] = 2 * Pow2[k - 1]
  <2> SUFFICES ASSUME NEW k \in Orders, k > 0
               PROVE  k - 1 \in Orders /\ Pow2[k] = 2 * Pow2[k - 1]
    OBVIOUS
  <2>1. k - 1 \in Orders /\ (k - 1) + 1 = k
    BY <1>1 DEF Orders
  <2> QED
    BY <2>1, Pow2Assumption
<1>3. \A k \in Orders : k < MAX_ORDER - 1 => k + 1 \in Orders /\ Pow2[k + 1] = 2 * Pow2[k]
  BY <1>1, Pow2Assumption DEF Orders
<1>4. MAX_BLOCKS \in Nat \ {0} /\ MAX_BLOCK_SIZE \in Nat \ {0}
  BY <1>1, SizeAssumption DEF MAX_BLOCK_SIZE
<1>5. PAGE_NUM \in Nat \ {0}
  BY <1>4 DEF PAGE_NUM
<1>6. ASSUME NEW k \in Orders PROVE PAGE_NUM % Pow2[k] = 0
  <2> DEFINE P == Pow2[k]
  <2>1. P \in Nat \ {0} /\ MAX_BLOCK_SIZE % P = 0
    BY <1>1, Pow2Assumption
  <2> HIDE DEF P
  <2>2. PICK m \in Nat : \E r \in 0 .. P - 1 :
             MAX_BLOCK_SIZE = P * m + r /\ m = MAX_BLOCK_SIZE \div P /\ r = MAX_BLOCK_SIZE % P
    BY <1>4, <2>1, DivMod, Zenon
  <2>3. MAX_BLOCK_SIZE = P * m
    BY <2>1, <2>2, <1>4
  <2>4. PAGE_NUM = P * (MAX_BLOCKS * m) /\ MAX_BLOCKS * m \in Int
    BY <2>1, <2>3, <1>4 DEF PAGE_NUM
  <2>5. PAGE_NUM % P = 0
    BY <2>1, <2>4, MultMod, Zenon
  <2> QED
    BY <2>5 DEF P
<1> QED
  BY <1>1, <1>2, <1>3, <1>5, <1>6

\* The block of order k around a page lies in memory and is aligned.
LEMMA BaseBlock ==
    ASSUME NEW x \in Page, NEW k \in Orders
    PROVE  /\ Base(x, k) \in Page
           /\ Base(x, k) <= x /\ x < Base(x, k) + Pow2[k]
           /\ Base(x, k) + Pow2[k] <= PAGE_NUM
           /\ Base(x, k) % Pow2[k] = 0
<1>1. x \in Nat /\ x < PAGE_NUM /\ PAGE_NUM \in Nat /\ Pow2[k] \in Nat \ {0}
      /\ PAGE_NUM % Pow2[k] = 0
  BY Sizes DEF Page
<1>2. /\ Base(x, k) \in Nat /\ Base(x, k) <= x
      /\ x < Base(x, k) + Pow2[k] /\ Base(x, k) % Pow2[k] = 0
  BY <1>1, RoundDown, Zenon DEF Base
<1>3. Base(x, k) + Pow2[k] <= PAGE_NUM
  BY <1>1, FitsBelow, Zenon DEF Base
<1> QED
  BY <1>1, <1>2, <1>3 DEF Page

\* An aligned page is the start of its own block.
LEMMA AlignedBase ==
    ASSUME NEW x \in Page, NEW k \in Orders, x % Pow2[k] = 0
    PROVE  Base(x, k) = x /\ x + Pow2[k] <= PAGE_NUM
<1>1. Base(x, k) = x
  BY Sizes DEF Base, Page
<1> QED
  BY <1>1, BaseBlock

\* Splitting a block of order k + 1: get_buddy gives its upper half.
LEMMA SplitBlock ==
    ASSUME NEW p \in Page, NEW k \in Orders, k > 0, p % Pow2[k] = 0
    PROVE  /\ k - 1 \in Orders /\ Pow2[k] = 2 * Pow2[k - 1]
           /\ get_buddy(p, k - 1) = p + Pow2[k - 1]
           /\ p + Pow2[k - 1] \in Page
           /\ p % Pow2[k - 1] = 0
           /\ (p + Pow2[k - 1]) % Pow2[k - 1] = 0
<1>1. /\ k - 1 \in Orders /\ Pow2[k] = 2 * Pow2[k - 1]
      /\ Pow2[k] \in Nat \ {0} /\ Pow2[k - 1] \in Nat \ {0} /\ p \in Nat
  BY Sizes DEF Page
<1>2. /\ (p \div Pow2[k - 1]) % 2 = 0 /\ p % Pow2[k - 1] = 0
      /\ (p + Pow2[k - 1]) % Pow2[k - 1] = 0
  BY <1>1, LowerHalf, Zenon
<1>3. p + Pow2[k] <= PAGE_NUM
  BY AlignedBase
<1>4. p + Pow2[k - 1] \in Page
  BY <1>1, <1>3, Sizes DEF Page
<1> QED
  BY <1>1, <1>2, <1>4 DEF get_buddy

\* Merging: the buddy of a block below the largest order lies in memory, and the
\* lower of the two starts an aligned block of the next order.
LEMMA MergeBlock ==
    ASSUME NEW p \in Page, NEW k \in Orders, k < MAX_ORDER - 1, p % Pow2[k] = 0
    PROVE  LET q == get_buddy(p, k)
               low == IF p < q THEN p ELSE q
           IN /\ q \in Page
              /\ q = p + Pow2[k] \/ q = p - Pow2[k]
              /\ low % Pow2[k + 1] = 0
<1>1. /\ k + 1 \in Orders /\ Pow2[k + 1] = 2 * Pow2[k]
      /\ Pow2[k] \in Nat \ {0} /\ Pow2[k + 1] \in Nat \ {0}
      /\ p \in Nat /\ p < PAGE_NUM /\ PAGE_NUM \in Nat
  BY Sizes DEF Page
<1>2. /\ (p \div Pow2[k]) % 2 = 0 => p % Pow2[k + 1] = 0
      /\ (p \div Pow2[k]) % 2 # 0 => p >= Pow2[k] /\ (p - Pow2[k]) % Pow2[k + 1] = 0
  BY <1>1, BuddyAligned, Zenon
<1>3. CASE (p \div Pow2[k]) % 2 = 0
  <2>1. get_buddy(p, k) = p + Pow2[k]
    BY <1>3 DEF get_buddy
  <2>2. p % Pow2[k + 1] = 0
    BY <1>2, <1>3
  <2>3. p + Pow2[k + 1] <= PAGE_NUM
    BY <1>1, <2>2, AlignedBase
  <2> QED
    BY <1>1, <2>1, <2>2, <2>3 DEF Page
<1>4. CASE (p \div Pow2[k]) % 2 # 0
  <2>1. get_buddy(p, k) = p - Pow2[k]
    BY <1>4 DEF get_buddy
  <2>2. p >= Pow2[k] /\ (p - Pow2[k]) % Pow2[k + 1] = 0
    BY <1>2, <1>4
  <2> QED
    BY <1>1, <2>1, <2>2 DEF Page
<1> QED
  BY <1>3, <1>4

\* The block of the next lower order around x is a half of the one around x.
LEMMA HalfBlock ==
    ASSUME NEW x \in Page, NEW k \in Orders, k > 0
    PROVE  Base(x, k - 1) \in {Base(x, k), Base(x, k) + Pow2[k - 1]}
<1>1. /\ Pow2[k] = 2 * Pow2[k - 1]
      /\ Pow2[k] \in Nat \ {0} /\ Pow2[k - 1] \in Nat \ {0} /\ x \in Nat
  BY Sizes DEF Page
<1> QED
  BY <1>1, Halves, Zenon DEF Base

-----------------------------------------------------------------------------
(* Sets of blocks with owners, and what splits and merges do to them *)

Owners == {"free", "held", "resv", "hand"}
Owned == Owners \X (Page \X Orders)

\* The four owners.
LEMMA OwnerNames == "free" \in Owners /\ "held" \in Owners /\ "resv" \in Owners /\ "hand" \in Owners
BY DEF Owners

PairwiseApart(B) == \A b, c \in B : b # c => Apart(b[2], c[2])

\* A block changes its owner, or is dropped.
LEMMA ChangeOwner ==
    ASSUME NEW B \in SUBSET Owned, NEW C, PairwiseApart(B),
           NEW b \in B, NEW o \in Owners,
           C \subseteq (B \ {b}) \cup {<<o, b[2]>>}
    PROVE  PairwiseApart(C)
<1> SUFFICES ASSUME NEW c \in C, NEW d \in C, c # d
             PROVE  Apart(c[2], d[2])
  BY DEF PairwiseApart
<1>1. <<o, b[2]>>[2] = b[2]
  OBVIOUS
<1>2. \A e \in B : e # b => Apart(e[2], b[2]) /\ Apart(b[2], e[2])
  BY DEF PairwiseApart
<1> QED
  BY <1>1, <1>2 DEF PairwiseApart

\* A block is split in two halves.
LEMMA SplitOwned ==
    ASSUME NEW B \in SUBSET Owned, NEW C, PairwiseApart(B),
           NEW o \in Owners, NEW p \in Page, NEW k \in Orders, k > 0,
           <<o, <<p, k>>>> \in B,
           NEW u \in Owners, NEW v \in Owners,
           C \subseteq (B \ {<<o, <<p, k>>>>})
                        \cup {<<u, <<p, k - 1>>>>, <<v, <<p + Pow2[k - 1], k - 1>>>>}
    PROVE  PairwiseApart(C)
<1> DEFINE b == <<o, <<p, k>>>>
           lo == <<u, <<p, k - 1>>>>
           hi == <<v, <<p + Pow2[k - 1], k - 1>>>>
<1>1. /\ k - 1 \in Orders /\ Pow2[k] = 2 * Pow2[k - 1]
      /\ Pow2[k - 1] \in Nat \ {0} /\ p \in Nat
  BY Sizes DEF Page
<1>2. \A e \in B : e # b => Apart(e[2], <<p, k>>) /\ Apart(<<p, k>>, e[2])
  BY DEF PairwiseApart
<1>3. \A e \in B : e[2] \in Page \X Orders /\ e[2][1] \in Nat /\ Pow2[e[2][2]] \in Nat
  BY Sizes DEF Owned, Page
<1>4. ASSUME NEW e \in B, e # b
      PROVE  /\ Apart(e[2], lo[2]) /\ Apart(lo[2], e[2])
             /\ Apart(e[2], hi[2]) /\ Apart(hi[2], e[2])
  BY <1>1, <1>2, <1>3, <1>4 DEF Apart
<1>5. Apart(lo[2], hi[2]) /\ Apart(hi[2], lo[2])
  BY <1>1 DEF Apart
<1> SUFFICES ASSUME NEW c \in C, NEW d \in C, c # d
             PROVE  Apart(c[2], d[2])
  BY DEF PairwiseApart
<1>6. c \in (B \ {b}) \cup {lo, hi} /\ d \in (B \ {b}) \cup {lo, hi}
  OBVIOUS
<1> HIDE DEF b, lo, hi
<1> QED
  BY <1>4, <1>5, <1>6 DEF PairwiseApart

\* Two adjacent blocks of one order become one.
LEMMA MergeOwned ==
    ASSUME NEW B \in SUBSET Owned, NEW C, PairwiseApart(B),
           NEW b \in B, NEW c \in B, b # c, b[2][2] = c[2][2],
           b[2][2] < MAX_ORDER - 1,
           b[2][1] + Pow2[b[2][2]] = c[2][1],
           NEW o \in Owners,
           C \subseteq (B \ {b, c}) \cup {<<o, <<b[2][1], b[2][2] + 1>>>>}
    PROVE  PairwiseApart(C)
<1> DEFINE new == <<o, <<b[2][1], b[2][2] + 1>>>>
<1>1. \A e \in B : e[2] \in Page \X Orders /\ e[2][1] \in Nat /\ Pow2[e[2][2]] \in Nat \ {0}
  BY Sizes DEF Owned, Page
<1>2. Pow2[b[2][2] + 1] = 2 * Pow2[b[2][2]]
  BY <1>1, Sizes
<1>3. ASSUME NEW e \in B, e # b, e # c
      PROVE  Apart(e[2], new[2]) /\ Apart(new[2], e[2])
  <2>1. /\ Apart(e[2], b[2]) /\ Apart(b[2], e[2])
        /\ Apart(e[2], c[2]) /\ Apart(c[2], e[2])
    BY <1>3 DEF PairwiseApart
  <2> QED
    BY <2>1, <1>1, <1>2 DEF Apart
<1> SUFFICES ASSUME NEW f \in C, NEW d \in C, f # d
             PROVE  Apart(f[2], d[2])
  BY DEF PairwiseApart
<1>4. f \in (B \ {b, c}) \cup {new} /\ d \in (B \ {b, c}) \cup {new}
  OBVIOUS
<1> HIDE DEF new
<1> QED
  BY <1>3, <1>4 DEF PairwiseApart

-----------------------------------------------------------------------------
(* The regions of a boot *)

\* The pages of a region lie in memory, and two regions share a page at most
\* where one ends and the other starts.
LEMMA RegionFacts ==
    ASSUME regions \in BootRegions
    PROVE  /\ Len(regions) \in Nat
           /\ \A n \in 1 .. Len(regions) :
                 start_idx(n) \in Page /\ end_idx(n) \in Page /\ start_idx(n) <= end_idx(n)
           /\ \A n, m \in 1 .. Len(regions) :
                 n # m => end_idx(n) <= start_idx(m) \/ end_idx(m) <= start_idx(n)
           /\ \E n \in 1 .. Len(regions) : start_idx(n) = 0
<1>1. /\ regions \in Seq(Nat \X Nat)
      /\ \A n \in 1 .. Len(regions) :
            regions[n][1] < regions[n][2] /\ regions[n][2] <= PAGE_NUM * PAGE_SIZE
      /\ \A n, m \in 1 .. Len(regions) :
            n # m => regions[n][2] <= regions[m][1] \/ regions[m][2] <= regions[n][1]
      /\ \E n \in 1 .. Len(regions) : regions[n][1] = 0
  BY RegionAssumption, Zenon
<1>2. PAGE_SIZE \in Nat \ {0} /\ PAGE_NUM \in Nat
  BY SizeAssumption, Sizes
<1>3. Len(regions) \in Nat /\ \A n \in 1 .. Len(regions) :
         regions[n][1] \in Nat /\ regions[n][2] \in Nat
  BY <1>1
<1>4. \A n \in 1 .. Len(regions) : regions[n][2] - 1 \in Nat /\ regions[n][1] <= regions[n][2] - 1
  BY <1>1, <1>3
<1>5. ASSUME NEW x \in Nat, x < PAGE_NUM * PAGE_SIZE PROVE x \div PAGE_SIZE \in Page
  <2>1. PICK q \in Nat : \E r \in 0 .. PAGE_SIZE - 1 :
            x = PAGE_SIZE * q + r /\ q = x \div PAGE_SIZE /\ r = x % PAGE_SIZE
    BY <1>2, DivMod, Zenon
  <2>2. PAGE_SIZE * q < PAGE_NUM * PAGE_SIZE
    BY <2>1, <1>2, <1>5
  <2>3. q < PAGE_NUM
    BY <2>2, <1>2
  <2> QED
    BY <2>1, <2>3, <1>2 DEF Page
<1>6. \A n \in 1 .. Len(regions) : start_idx(n) <= end_idx(n)
  BY <1>2, <1>3, <1>4, DivMono, Zenon DEF start_idx, end_idx
<1>7. \A n \in 1 .. Len(regions) : start_idx(n) \in Page /\ end_idx(n) \in Page
  <2> SUFFICES ASSUME NEW n \in 1 .. Len(regions)
               PROVE  start_idx(n) \in Page /\ end_idx(n) \in Page
    OBVIOUS
  <2>1. PAGE_NUM * PAGE_SIZE \in Nat
    BY <1>2
  <2>2. regions[n][1] < PAGE_NUM * PAGE_SIZE /\ regions[n][2] - 1 < PAGE_NUM * PAGE_SIZE
    <3>1. /\ regions[n][1] \in Nat /\ regions[n][2] \in Nat
          /\ regions[n][1] < regions[n][2] /\ regions[n][2] <= PAGE_NUM * PAGE_SIZE
      BY <1>1, <1>3, Zenon
    <3> QED
      BY <3>1, <2>1
  <2> QED
    BY <2>2, <1>3, <1>4, <1>5, Zenon DEF start_idx, end_idx
<1>8. ASSUME NEW n \in 1 .. Len(regions), NEW m \in 1 .. Len(regions),
             regions[n][2] <= regions[m][1]
      PROVE  end_idx(n) <= start_idx(m)
  <2>1. regions[n][2] - 1 <= regions[m][1]
    BY <1>8, <1>3
  <2> QED
    BY <2>1, <1>2, <1>3, <1>4, DivMono, Zenon DEF start_idx, end_idx
<1>9. \E n \in 1 .. Len(regions) : start_idx(n) = 0
  <2>1. PICK n \in 1 .. Len(regions) : regions[n][1] = 0
    BY <1>1
  <2>2. 0 \div PAGE_SIZE = 0
    BY <1>2
  <2> QED
    BY <2>1, <2>2 DEF start_idx
<1> QED
  BY <1>1, <1>3, <1>6, <1>7, <1>8, <1>9

-----------------------------------------------------------------------------
(* The blocks of a state *)

\* The page indices of a region are numbers.
LEMMA RegionNat ==
    ASSUME regions \in BootRegions, NEW n \in 1 .. Len(regions)
    PROVE  start_idx(n) \in Nat /\ end_idx(n) \in Nat
<1>1. start_idx(n) \in Page /\ end_idx(n) \in Page
  BY RegionFacts, Zenon
<1>2. \A y \in Page : y \in Nat
  BY DEF Page
<1> QED
  BY <1>1, <1>2, Zenon

\* reserve rounds a region to exactly the pages that hold a byte of it.
LEMMA RegionRounding ==
    ASSUME regions \in BootRegions, NEW n \in 1 .. Len(regions)
    PROVE  TouchedPages(n) = RegionPages(n)
<1>1. regions \in Seq(Nat \X Nat) /\ regions[n][1] < regions[n][2]
  BY RegionAssumption, Zenon
<1>2. regions[n][1] \in Nat /\ regions[n][2] \in Nat
  BY <1>1
<1>3. start_idx(n) \in Page /\ end_idx(n) \in Page
  BY RegionFacts, Zenon
<1>4. PAGE_NUM \in Nat
  BY Sizes
<1>5. RegionPages(n) = {p \in Page : start_idx(n) <= p /\ p <= end_idx(n)}
  BY <1>3, <1>4 DEF RegionPages, Page
<1>6. ASSUME NEW p \in Page
      PROVE  (start_idx(n) <= p /\ p <= end_idx(n))
                <=> (p * PAGE_SIZE < regions[n][2] /\ regions[n][1] < (p + 1) * PAGE_SIZE)
  <2>1. p \in Nat /\ PAGE_SIZE \in Nat \ {0}
    BY SizeAssumption DEF Page
  <2> QED
    BY <2>1, <1>1, <1>2, PagesOfBytes, Zenon DEF start_idx, end_idx
<1> QED
  BY <1>5, <1>6 DEF TouchedPages

\* What belongs to Blocks.
LEMMA InBlocks ==
    ASSUME TypeOK
    PROVE  /\ \A p \in Page, k \in Orders : <<"free", <<p, k>>>> \in Blocks <=> p \in free_list[k]
           /\ \A b : <<"held", b>> \in Blocks <=> b \in held
           /\ \A b : <<"resv", b>> \in Blocks <=> b \in resv
           /\ \A b : <<"hand", b>> \in Blocks <=> b \in Hand
           /\ Aligned => Blocks \subseteq Owned
<1>1. Hand \subseteq {<<cur, ord>>}
  BY DEF Hand
<1>2. ASSUME Aligned PROVE Blocks \subseteq Owned
  BY <1>2 DEF Aligned, Blocks, Owned, Owners, FreeBlocks, TypeOK
<1> QED
  BY <1>2 DEF Blocks, FreeBlocks, TypeOK

\* No other block starts at a page of a block.
LEMMA NoOtherHead ==
    ASSUME TypeOK, NoOverlap, Aligned, NEW b \in Blocks, NEW x \in Int,
           b[2][1] <= x, x < b[2][1] + Pow2[b[2][2]]
    PROVE  /\ \A c \in Blocks : c # b => c[2][1] # x
           /\ \A k \in Orders : x \in free_list[k] => b = <<"free", <<x, k>>>>
           /\ \A c \in held : c[1] = x => b = <<"held", c>>
           /\ \A c \in resv : c[1] = x => b = <<"resv", c>>
<1>1. ASSUME NEW c \in Blocks, c # b PROVE c[2][1] # x
  <2>1. Apart(b[2], c[2])
    BY <1>1 DEF NoOverlap
  <2>2. /\ b[2][1] \in Nat /\ c[2][1] \in Nat
        /\ Pow2[b[2][2]] \in Nat \ {0} /\ Pow2[c[2][2]] \in Nat \ {0}
    BY Sizes DEF Aligned, Page
  <2> QED
    BY <2>1, <2>2 DEF Apart
<1>2. \A k \in Orders : x \in free_list[k] => b = <<"free", <<x, k>>>>
  <2> SUFFICES ASSUME NEW k \in Orders, x \in free_list[k]
               PROVE  b = <<"free", <<x, k>>>>
    OBVIOUS
  <2>1. x \in Page
    BY DEF TypeOK
  <2>2. <<"free", <<x, k>>>> \in Blocks
    BY <2>1, InBlocks
  <2> QED
    BY <2>2, <1>1
<1>3. \A c \in held : c[1] = x => b = <<"held", c>>
  <2> SUFFICES ASSUME NEW c \in held, c[1] = x PROVE b = <<"held", c>>
    OBVIOUS
  <2>1. <<"held", c>> \in Blocks
    BY InBlocks
  <2> QED
    BY <2>1, <1>1
<1>4. \A c \in resv : c[1] = x => b = <<"resv", c>>
  <2> SUFFICES ASSUME NEW c \in resv, c[1] = x PROVE b = <<"resv", c>>
    OBVIOUS
  <2>1. <<"resv", c>> \in Blocks
    BY InBlocks
  <2> QED
    BY <2>1, <1>1
<1> QED
  BY <1>1, <1>2, <1>3, <1>4

-----------------------------------------------------------------------------
(* Each action preserves the invariant *)

\* A step that changes the owner of one block, or drops it, keeps blocks apart.
LEMMA OwnerStep ==
    ASSUME TypeOK, NoOverlap, Aligned, NEW b \in Blocks, NEW o \in Owners,
           Blocks' \subseteq (Blocks \ {b}) \cup {<<o, b[2]>>}
    PROVE  NoOverlap' /\ Aligned'
<1>1. PairwiseApart(Blocks) /\ Blocks \in SUBSET Owned
  BY InBlocks DEF NoOverlap, PairwiseApart
<1>2. PairwiseApart(Blocks')
  BY <1>1, ChangeOwner, Zenon
<1>3. NoOverlap'
  BY <1>2 DEF NoOverlap, PairwiseApart
<1>4. Aligned'
  BY DEF Aligned
<1> QED
  BY <1>3, <1>4

\* A step that splits a block keeps blocks apart.
LEMMA SplitStep ==
    ASSUME TypeOK, NoOverlap, Aligned, NEW o \in Owners, NEW p, NEW k, k > 0,
           <<o, <<p, k>>>> \in Blocks,
           NEW u \in Owners, NEW v \in Owners,
           Blocks' \subseteq (Blocks \ {<<o, <<p, k>>>>})
              \cup {<<u, <<p, k - 1>>>>, <<v, <<p + Pow2[k - 1], k - 1>>>>}
    PROVE  NoOverlap' /\ Aligned'
<1>1. PairwiseApart(Blocks) /\ Blocks \in SUBSET Owned
  BY InBlocks DEF NoOverlap, PairwiseApart
<1>2. p \in Page /\ k \in Orders /\ p % Pow2[k] = 0
  BY DEF Aligned
<1>3. PairwiseApart(Blocks')
  <2>1. Blocks \in SUBSET Owned /\ PairwiseApart(Blocks) /\ p \in Page /\ k \in Orders
    BY <1>1, <1>2
  <2> QED
    BY <2>1, SplitOwned, ZenonT(30)
<1>4. NoOverlap'
  BY <1>3 DEF NoOverlap, PairwiseApart
<1>5. /\ k - 1 \in Orders /\ p + Pow2[k - 1] \in Page
      /\ p % Pow2[k - 1] = 0 /\ (p + Pow2[k - 1]) % Pow2[k - 1] = 0
  BY <1>2, SplitBlock
<1>6. Aligned'
  BY <1>2, <1>5 DEF Aligned
<1> QED
  BY <1>4, <1>6

\* Once boot is over the reserved blocks and the regions no longer change.
LEMMA ServingFrame ==
    ASSUME IInv, ~ Booting, ~ Booting', UNCHANGED <<regions, nreg, resv>>
    PROVE  regions' \in BootRegions /\ BootState' /\ ResvInside' /\ ResvComplete'
           /\ (nreg' = Len(regions') + 1)
BY DEF IInv, Booting, BootState, ResvInside, ResvComplete, Begun, start_idx,
       end_idx, RegionPages, Withheld, Cut, TypeOK

\* _alloc gives the upper half of its block back.
LEMMA AllocSplitInv ==
    ASSUME IInv, AllocSplit
    PROVE  IInv'
<1> DEFINE P == Pow2[ord - 1]
           hand == <<"hand", <<cur, ord>>>>
<1>1. TypeOK /\ NoOverlap /\ Aligned /\ ListConsistent /\ CallState /\ Cut
  BY DEF IInv
<1>2. pc = "alloc" /\ ord > want /\ pc' = "alloc" /\ ord' = ord - 1
      /\ UNCHANGED <<cur, want, regions, nreg, held, resv, orig>>
  BY DEF AllocSplit
<1>3. hand \in Blocks /\ cur \in Page /\ ord \in Orders /\ cur % Pow2[ord] = 0 /\ ord > 0
  <2>1. Hand = {<<cur, ord>>}
    BY <1>2 DEF Hand
  <2>2. hand \in Blocks
    BY <2>1, <1>1, InBlocks
  <2> QED
    <3>1. cur \in Page /\ ord \in Orders /\ cur % Pow2[ord] = 0
      BY <2>2, <1>1 DEF Aligned
    <3>2. want \in Orders
      BY <1>1 DEF TypeOK
    <3>3. ord > 0
      BY <3>1, <3>2, <1>2, Sizes
    <3> QED
      BY <2>2, <3>1, <3>3
<1>4. /\ ord - 1 \in Orders /\ cur + P \in Page /\ P \in Nat \ {0}
      /\ Pow2[ord] = 2 * P
      /\ cur % P = 0 /\ (cur + P) % P = 0
  BY <1>3, SplitBlock, Sizes
<1>0. /\ \A k \in Orders : cur + P \notin free_list[k]
      /\ \A c \in held : c[1] # cur + P
  <2>1. cur <= cur + P /\ cur + P < cur + Pow2[ord] /\ cur + P \in Int
    BY <1>3, <1>4 DEF Page
  <2>2. hand[2][1] = cur /\ hand[2][2] = ord /\ hand[1] = "hand"
    OBVIOUS
  <2> HIDE DEF hand
  <2> QED
    BY <2>1, <2>2, <1>1, <1>3, NoOtherHead
<1>5. /\ free_list' = [free_list EXCEPT ![ord - 1] = @ \cup {cur + P}]
      /\ order' = [order EXCEPT ![cur + P] = ord - 1]
      /\ entry_in_list' = [entry_in_list EXCEPT ![cur + P] = TRUE]
  BY <1>4 DEF AllocSplit, add_to_free_list
<1>6. TypeOK'
  <2>1. ord - 1 \in -1 .. MAX_ORDER - 1
    BY <1>4, Sizes
  <2> QED
    BY <1>1, <1>2, <1>4, <1>5, <2>1 DEF TypeOK
<1>7. Blocks' \subseteq (Blocks \ {hand})
          \cup {<<"hand", <<cur, ord - 1>>>>, <<"free", <<cur + P, ord - 1>>>>}
  BY <1>1, <1>2, <1>3, <1>4, <1>5 DEF Blocks, FreeBlocks, Hand, AllocSplit, TypeOK
<1>8. NoOverlap' /\ Aligned'
  BY <1>1, <1>3, <1>7, OwnerNames, SplitStep, Zenon
<1>10. ListConsistent'
  <2>1. \A b \in FreeBlocks' : b \in FreeBlocks \/ b = <<cur + P, ord - 1>>
    BY <1>1, <1>4, <1>5 DEF FreeBlocks, TypeOK
  <2>2. \A b \in FreeBlocks : b[1] # cur + P
    BY <1>0 DEF FreeBlocks
  <2>3. \A b \in FreeBlocks' : entry_in_list'[b[1]] /\ order'[b[1]] = b[2]
    BY <2>1, <2>2, <1>1, <1>4, <1>5 DEF ListConsistent, FreeBlocks, TypeOK
  <2>4. ASSUME NEW p \in Page, entry_in_list'[p]
        PROVE  \/ <<p, order'[p]>> \in FreeBlocks'
               \/ Hand' # {} /\ p = cur'
               \/ order'[p] = MAX_ORDER - 1
    <3>1. CASE p = cur + P
      BY <3>1, <1>1, <1>4, <1>5 DEF TypeOK, FreeBlocks
    <3>2. CASE p # cur + P
      <4>1. order'[p] = order[p] /\ entry_in_list[p]
        BY <3>2, <2>4, <1>1, <1>5 DEF TypeOK
      <4>2. FreeBlocks \subseteq FreeBlocks'
        BY <1>1, <1>4, <1>5 DEF TypeOK, FreeBlocks
      <4>3. Hand' # {} /\ cur' = cur
        BY <1>2 DEF Hand
      <4> QED
        BY <4>1, <4>2, <4>3, <1>1 DEF ListConsistent
    <3> QED
      BY <3>1, <3>2
  <2> QED
    BY <2>3, <2>4 DEF ListConsistent
<1>11. CallState'
  <2>1. \A b \in held : order'[b[1]] = b[2] /\ ~ entry_in_list'[b[1]]
    BY <1>0, <1>1, <1>5 DEF CallState, TypeOK
  <2>2. want <= ord - 1
    BY <1>1, <1>2, Sizes DEF TypeOK
  <2> QED
    BY <2>1, <2>2, <1>2 DEF CallState
<1>12. QED
  BY <1>2, <1>6, <1>8, <1>10, <1>11, ServingFrame DEF IInv, Cut, Booting

\* A set of orders has a least element.
LEMMA LeastOrder ==
    ASSUME NEW T \in SUBSET Nat, T # {}
    PROVE  \E n \in T : \A m \in T : n <= m
<1>1. PICK n \in T : \A y \in T : ~ (<<y, n>> \in OpToRel(<, Nat))
  BY NatLessThanWellFounded, WFMin, Zenon
<1>2. \A y \in T : ~ (y < n)
  BY <1>1 DEF OpToRel
<1> QED
  BY <1>2

\* get_order: a legal request is given an order, and its block is large enough.
LEMMA OrderOfSize ==
    ASSUME NEW size \in Nat, size > 0, size <= MAX_ALLOC_SIZE
    PROVE  LET k == get_order(round(size))
           IN k \in Orders /\ size <= Pow2[k] * PAGE_SIZE
<1> DEFINE PS == PAGE_SIZE   M == MAX_BLOCK_SIZE   n == round(size) \div PAGE_SIZE
<1>1. PS \in Nat \ {0} /\ M \in Nat \ {0} /\ size <= PS * M
  BY SizeAssumption, Sizes DEF MAX_BLOCK_SIZE, MAX_ALLOC_SIZE
<1>2. PICK q \in Nat : \E r \in 0 .. PS - 1 :
           size = PS * q + r /\ q = size \div PS /\ r = size % PS
  BY <1>1, DivMod, Zenon
<1>3. n \in Nat /\ n <= M /\ size <= n * PS
  <2>1. CASE size % PS = 0
    <3>1. size = PS * q /\ round(size) = size
      BY <2>1, <1>1, <1>2 DEF round
    <3>2. n = q
      BY <3>1, <1>2, Zenon
    <3>3. q <= M
      BY <3>1, <1>1
    <3> QED
      BY <3>1, <3>2, <3>3, <1>1
  <2>2. CASE size % PS # 0
    <3>1. round(size) = (q + 1) * PS
      BY <2>2, <1>2, Zenon DEF round
    <3>2. (q + 1) * PS = PS * (q + 1) /\ q + 1 \in Int
      BY <1>1
    <3>3. n = q + 1
      BY <3>1, <3>2, <1>1, MultMod, Zenon
    <3>4. PS * q < PS * M
      BY <1>1, <1>2, <2>2
    <3>5. q < M
      BY <3>4, <1>1
    <3>6. size <= (q + 1) * PS
      BY <1>1, <1>2
    <3> QED
      BY <3>3, <3>5, <3>6, <1>1
  <2> QED
    BY <2>1, <2>2
<1> HIDE DEF n
<1> DEFINE T == {k \in Orders : Pow2[k] >= n}
<1>4. MAX_ORDER - 1 \in T /\ T \subseteq Nat
  BY <1>3, Sizes DEF MAX_BLOCK_SIZE
<1>5. PICK k \in T : \A m \in T : k <= m
  BY <1>4, LeastOrder
<1>6. \E j \in Orders : Pow2[j] >= n /\ \A m \in Orders : m < j => Pow2[m] < n
  <2>1. k \in Orders /\ Pow2[k] >= n
    OBVIOUS
  <2>2. \A m \in Orders : m < k => Pow2[m] < n
    BY <1>3, <1>5, Sizes
  <2> QED
    BY <2>1, <2>2
<1>7. get_order(round(size)) \in Orders /\ Pow2[get_order(round(size))] >= n
  BY <1>6 DEF get_order, n
<1>8. \A a \in Nat : a >= n => size <= a * PS
  BY <1>1, <1>3
<1> QED
  BY <1>7, <1>8, Sizes

\* _alloc takes a block off its list.
LEMMA AllocInv ==
    ASSUME IInv, NEW size \in Nat, Alloc(size)
    PROVE  IInv'
<1> DEFINE k == get_order(round(size))
<1>1. TypeOK /\ NoOverlap /\ Aligned /\ ListConsistent /\ CallState /\ Cut
  BY DEF IInv
<1>2. k \in Orders
  BY OrderOfSize DEF Alloc
<1>3. PICK i \in k .. MAX_ORDER - 1 : \E block \in free_list[i] :
         /\ free_list' = rm_from_free_list(free_list, block, i)
         /\ cur' = block /\ ord' = i /\ want' = k
  BY DEF Alloc
<1>4. PICK block \in free_list[i] :
         /\ free_list' = rm_from_free_list(free_list, block, i)
         /\ cur' = block /\ ord' = i /\ want' = k
  BY <1>3
<1>5. i \in Orders /\ k <= i /\ block \in Page
  BY <1>1, <1>2, Sizes DEF TypeOK, Orders
<1>6. /\ pc = "idle" /\ pc' = "alloc"
      /\ UNCHANGED <<order, entry_in_list, regions, nreg, held, resv, orig>>
      /\ free_list' = [free_list EXCEPT ![i] = @ \ {block}]
  BY <1>4, <1>5 DEF Alloc, rm_from_free_list
<1> HIDE DEF k
<1>7. TypeOK'
  <2>1. block \in 0 .. PAGE_NUM
    BY <1>5, Sizes DEF Page
  <2> QED
    <3>1. free_list' \in [Orders -> SUBSET Page]
      BY <1>1, <1>6 DEF TypeOK
    <3>2. ord' \in Orders /\ want' \in Orders /\ cur' \in 0 .. PAGE_NUM
      BY <1>2, <1>4, <1>5, <2>1
    <3> QED
      BY <3>1, <3>2, <1>1, <1>6 DEF TypeOK
<1> DEFINE b == <<"free", <<block, i>>>>
<1>8. b \in Blocks
  BY <1>1, <1>5, InBlocks
<1>9. Blocks' \subseteq (Blocks \ {b}) \cup {<<"hand", b[2]>>}
  BY <1>1, <1>4, <1>5, <1>6 DEF Blocks, FreeBlocks, Hand, TypeOK
<1>10. NoOverlap' /\ Aligned'
  BY <1>1, <1>8, <1>9, OwnerNames, OwnerStep, Zenon
<1>11. ListConsistent'
  <2>1. FreeBlocks' = FreeBlocks \ {<<block, i>>} /\ <<block, i>> \in FreeBlocks
    BY <1>1, <1>5, <1>6 DEF FreeBlocks, TypeOK
  <2>2. Hand = {} /\ Hand' # {} /\ cur' = block
    BY <1>4, <1>6 DEF Hand
  <2> QED
    BY <2>1, <2>2, <1>1, <1>6 DEF ListConsistent
<1>12. CallState'
  BY <1>1, <1>4, <1>5, <1>6 DEF CallState
<1> QED
  BY <1>6, <1>1, <1>7, <1>10, <1>11, <1>12, ServingFrame DEF IInv, Cut, Booting

\* _alloc marks its block and returns it.
LEMMA AllocReturnInv ==
    ASSUME IInv, AllocReturn
    PROVE  IInv'
<1> DEFINE hand == <<"hand", <<cur, ord>>>>
<1>1. TypeOK /\ NoOverlap /\ Aligned /\ ListConsistent /\ CallState /\ Cut
  BY DEF IInv
<1>2. /\ pc = "alloc" /\ pc' = "idle" /\ ord = want
      /\ UNCHANGED <<free_list, cur, ord, want, regions, nreg, resv, orig>>
  BY <1>1, Sizes DEF AllocReturn, CallState, TypeOK
<1>3. hand \in Blocks /\ cur \in Page /\ ord \in Orders
  <2>1. Hand = {<<cur, ord>>}
    BY <1>2 DEF Hand
  <2>2. hand \in Blocks
    BY <2>1, <1>1, InBlocks
  <2> QED
    BY <2>2, <1>1 DEF Aligned
<1>4. /\ order' = [order EXCEPT ![cur] = ord]
      /\ entry_in_list' = [entry_in_list EXCEPT ![cur] = FALSE]
      /\ held' = held \cup {<<cur, ord>>}
  BY <1>2 DEF AllocReturn
<1>5. TypeOK'
  <2>1. ord \in -1 .. MAX_ORDER - 1
    BY <1>3, Sizes
  <2> QED
    BY <1>1, <1>2, <1>3, <1>4, <2>1 DEF TypeOK
<1>6. Blocks' \subseteq (Blocks \ {hand}) \cup {<<"held", hand[2]>>}
  BY <1>1, <1>2, <1>3, <1>4 DEF Blocks, FreeBlocks, Hand, TypeOK
<1>7. NoOverlap' /\ Aligned'
  BY <1>1, <1>3, <1>6, OwnerNames, OwnerStep, Zenon
<1>8. /\ \A j \in Orders : cur \notin free_list[j]
      /\ \A c \in held : c[1] # cur
  <2>1. cur <= cur /\ cur < cur + Pow2[ord] /\ cur \in Int
    BY <1>3, Sizes DEF Page
  <2>2. hand[2][1] = cur /\ hand[2][2] = ord /\ hand[1] = "hand"
    OBVIOUS
  <2> HIDE DEF hand
  <2> QED
    BY <2>1, <2>2, <1>1, <1>3, NoOtherHead
<1>9. ListConsistent'
  <2>1. FreeBlocks' = FreeBlocks /\ \A b \in FreeBlocks : b[1] # cur
    BY <1>2, <1>8 DEF FreeBlocks
  <2>2. \A b \in FreeBlocks' : entry_in_list'[b[1]] /\ order'[b[1]] = b[2]
    BY <2>1, <1>1, <1>4 DEF ListConsistent, FreeBlocks, TypeOK
  <2>3. \A p \in Page : entry_in_list'[p] => p # cur /\ entry_in_list[p] /\ order'[p] = order[p]
    BY <1>1, <1>3, <1>4 DEF TypeOK
  <2> QED
    BY <2>1, <2>2, <2>3, <1>1 DEF ListConsistent
<1>10. CallState'
  <2>1. \A b \in held : order'[b[1]] = b[2] /\ ~ entry_in_list'[b[1]]
    BY <1>8, <1>1, <1>4 DEF CallState, TypeOK
  <2>2. order'[cur] = ord /\ ~ entry_in_list'[cur]
    BY <1>1, <1>3, <1>4 DEF TypeOK
  <2> QED
    BY <2>1, <2>2, <1>2, <1>4 DEF CallState
<1> QED
  BY <1>1, <1>2, <1>5, <1>7, <1>9, <1>10, ServingFrame DEF IInv, Cut, Booting

\* _free takes a client's block in hand.
LEMMA FreeInv ==
    ASSUME IInv, NEW b \in held, Free(b)
    PROVE  IInv'
<1>1. TypeOK /\ NoOverlap /\ Aligned /\ ListConsistent /\ CallState /\ Cut
  BY DEF IInv
<1>2. /\ pc = "idle" /\ pc' = "free"
      /\ held' = held \ {b} /\ orig' = b /\ cur' = b[1]
      /\ UNCHANGED <<free_list, order, entry_in_list, want, regions, nreg, resv>>
  BY DEF Free, list
<1>3. b \in Page \X Orders /\ b[1] \in Page /\ b[2] \in Orders /\ order[b[1]] = b[2]
      /\ b = <<b[1], b[2]>>
  BY <1>1 DEF TypeOK, CallState
<1>4. ord' = b[2]
  BY <1>3 DEF Free
<1>5. TypeOK'
  <2>1. b[1] \in 0 .. PAGE_NUM
    BY <1>3, Sizes DEF Page
  <2> QED
    BY <1>1, <1>2, <1>3, <1>4, <2>1 DEF TypeOK
<1>6. <<"held", b>> \in Blocks
  BY <1>1, InBlocks
<1>7. Blocks' \subseteq (Blocks \ {<<"held", b>>}) \cup {<<"hand", <<"held", b>>[2]>>}
  <2>1. Hand = {} /\ Hand' = {b} /\ FreeBlocks' = FreeBlocks
    BY <1>2, <1>3, <1>4 DEF Hand, FreeBlocks
  <2>2. <<"hand", <<"held", b>>[2]>> = <<"hand", b>>
    OBVIOUS
  <2> QED
    BY <2>1, <2>2, <1>2 DEF Blocks
<1>8. NoOverlap' /\ Aligned'
  BY <1>1, <1>6, <1>7, OwnerNames, OwnerStep, Zenon
<1>9. ListConsistent'
  BY <1>1, <1>2 DEF ListConsistent, FreeBlocks, Hand
<1>10. CallState'
  BY <1>1, <1>2, <1>3, <1>4 DEF CallState
<1> QED
  BY <1>1, <1>2, <1>5, <1>8, <1>9, <1>10, ServingFrame DEF IInv, Cut, Booting

\* _free merges its block with a listed buddy.
LEMMA FreeMergeInv ==
    ASSUME IInv, FreeMerge
    PROVE  IInv'
<1> DEFINE q == get_buddy(cur, ord)
           low == IF cur < q THEN cur ELSE q
           high == IF cur > q THEN cur ELSE q
           hand == <<"hand", <<cur, ord>>>>
           bud == <<"free", <<q, ord>>>>
<1>1. TypeOK /\ NoOverlap /\ Aligned /\ ListConsistent /\ CallState /\ Cut
  BY DEF IInv
<1>2. /\ pc = "free" /\ pc' = "free" /\ ord < MAX_ORDER - 1 /\ ord' = ord + 1
      /\ cur' = low
      /\ free_list' = rm_from_free_list(free_list, q, ord)
      /\ order' = [order EXCEPT ![low] = ord + 1, ![high] = -1]
      /\ entry_in_list' = [entry_in_list EXCEPT ![high] = FALSE]
      /\ entry_in_list[q] /\ order[q] = order[cur]
      /\ UNCHANGED <<want, regions, nreg, held, resv, orig>>
  BY DEF FreeMerge, HaveBuddy
<1>3. hand \in Blocks /\ cur \in Page /\ ord \in Orders /\ cur % Pow2[ord] = 0
      /\ order[cur] = ord
  <2>1. Hand = {<<cur, ord>>}
    BY <1>2 DEF Hand
  <2>2. hand \in Blocks
    BY <2>1, <1>1, InBlocks
  <2> QED
    BY <2>2, <1>1, <1>2 DEF Aligned, CallState
<1>4. /\ q \in Page /\ (q = cur + Pow2[ord] \/ q = cur - Pow2[ord])
      /\ low % Pow2[ord + 1] = 0
  BY <1>2, <1>3, MergeBlock
<1>5. /\ Pow2[ord] \in Nat \ {0} /\ ord + 1 \in Orders /\ cur \in Nat /\ q \in Nat
      /\ Pow2[ord + 1] = 2 * Pow2[ord]
  BY <1>2, <1>3, <1>4, Sizes DEF Page
<1>6. /\ low \in Page /\ high \in Page /\ low # high
      /\ high = low + Pow2[ord] /\ q # cur
      /\ {low, high} = {cur, q}
  BY <1>3, <1>4, <1>5
<1>7. <<q, ord>> \in FreeBlocks /\ bud \in Blocks
  <2>1. order[q] # MAX_ORDER - 1 /\ q # cur
    BY <1>2, <1>3, <1>6, Sizes
  <2>2. <<q, ord>> \in FreeBlocks
    BY <2>1, <1>1, <1>2, <1>3, <1>4 DEF ListConsistent
  <2> QED
    BY <2>2 DEF Blocks
<1>8. free_list' = [free_list EXCEPT ![ord] = @ \ {q}]
  BY <1>2, <1>3 DEF rm_from_free_list
<1> HIDE DEF q, low, high
<1>9. TypeOK'
  <2>1. low \in 0 .. PAGE_NUM
    BY <1>6, Sizes DEF Page
  <2>2. ord + 1 \in -1 .. MAX_ORDER - 1 /\ -1 \in -1 .. MAX_ORDER - 1
    BY <1>5, Sizes
  <2> QED
    <3>1. free_list' \in [Orders -> SUBSET Page]
      BY <1>1, <1>8 DEF TypeOK
    <3>2. order' \in [Page -> -1 .. MAX_ORDER - 1] /\ entry_in_list' \in [Page -> BOOLEAN]
      BY <1>1, <1>2, <1>6, <2>2 DEF TypeOK
    <3> QED
      BY <3>1, <3>2, <2>1, <1>1, <1>2, <1>5 DEF TypeOK
<1>10. Blocks' \subseteq (Blocks \ {hand, bud}) \cup {<<"hand", <<low, ord + 1>>>>}
  BY <1>1, <1>2, <1>3, <1>4, <1>8 DEF Blocks, FreeBlocks, Hand, TypeOK
<1>11. Aligned'
  BY <1>1, <1>4, <1>5, <1>6, <1>10 DEF Aligned
<1>12. NoOverlap'
  <2>1. PairwiseApart(Blocks) /\ Blocks \in SUBSET Owned
    BY <1>1, InBlocks DEF NoOverlap, PairwiseApart
  <2>2. PICK b \in Blocks, c \in Blocks :
           /\ {b, c} = {hand, bud} /\ b # c
           /\ b[2] = <<low, ord>> /\ c[2] = <<high, ord>>
    <3>1. CASE low = cur /\ high = q
      BY <3>1, <1>3, <1>7
    <3>2. CASE low = q /\ high = cur
      BY <3>2, <1>3, <1>7
    <3> QED
      BY <3>1, <3>2, <1>6
  <2>3. /\ b[2][2] = c[2][2] /\ b[2][2] < MAX_ORDER - 1
        /\ b[2][1] + Pow2[b[2][2]] = c[2][1]
        /\ Blocks' \subseteq (Blocks \ {b, c}) \cup {<<"hand", <<b[2][1], b[2][2] + 1>>>>}
    BY <2>2, <1>2, <1>6, <1>10
  <2> HIDE DEF hand, bud
  <2>4. PairwiseApart(Blocks')
    BY <2>1, <2>2, <2>3, OwnerNames, MergeOwned, Zenon
  <2> QED
    BY <2>4 DEF NoOverlap, PairwiseApart
<1>13. /\ \A k \in Orders : cur \notin free_list[k]
       /\ \A c \in held : c[1] # cur
  <2>1. cur <= cur /\ cur < cur + Pow2[ord] /\ cur \in Int
    BY <1>5
  <2>2. hand[2][1] = cur /\ hand[2][2] = ord /\ hand[1] = "hand"
    OBVIOUS
  <2> HIDE DEF hand
  <2> QED
    BY <2>1, <2>2, <1>1, <1>3, NoOtherHead
<1>14. /\ \A k \in Orders : q \in free_list[k] => k = ord
       /\ \A c \in held : c[1] # q
  <2>1. q <= q /\ q < q + Pow2[ord] /\ q \in Int
    BY <1>5
  <2>2. bud[2][1] = q /\ bud[2][2] = ord /\ bud[1] = "free"
    OBVIOUS
  <2>3. /\ \A k \in Orders : q \in free_list[k] => bud = <<"free", <<q, k>>>>
        /\ \A c \in held : c[1] = q => bud = <<"held", c>>
    BY <2>1, <2>2, <1>1, <1>7, NoOtherHead, Zenon
  <2> QED
    BY <2>3
<1>15. ListConsistent'
  <2>1. FreeBlocks' = FreeBlocks \ {<<q, ord>>}
    BY <1>1, <1>3, <1>4, <1>8 DEF FreeBlocks, TypeOK
  <2>2. \A b \in FreeBlocks' : b[1] # cur /\ b[1] # q
    BY <2>1, <1>13, <1>14 DEF FreeBlocks
  <2>3. \A b \in FreeBlocks' : entry_in_list'[b[1]] /\ order'[b[1]] = b[2]
    <3>1. \A p \in Page : p # cur /\ p # q =>
             order'[p] = order[p] /\ entry_in_list'[p] = entry_in_list[p]
      BY <1>1, <1>2, <1>6 DEF TypeOK
    <3>2. \A b \in FreeBlocks' : b \in FreeBlocks /\ b[1] \in Page
      BY <2>1 DEF FreeBlocks
    <3> QED
      BY <3>1, <3>2, <2>2, <1>1 DEF ListConsistent
  <2>4. ASSUME NEW p \in Page, entry_in_list'[p]
        PROVE  \/ <<p, order'[p]>> \in FreeBlocks'
               \/ Hand' # {} /\ p = cur'
               \/ order'[p] = MAX_ORDER - 1
    <3>1. p # high /\ entry_in_list[p]
      BY <2>4, <1>1, <1>2, <1>6 DEF TypeOK
    <3>2. CASE p = low
      BY <3>2, <1>2 DEF Hand
    <3>3. CASE p # low
      <4>1. order'[p] = order[p] /\ p # cur /\ p # q
        BY <3>1, <3>3, <1>1, <1>2, <1>6 DEF TypeOK
      <4> QED
        BY <4>1, <3>1, <2>1, <1>1 DEF ListConsistent
    <3> QED
      BY <3>2, <3>3
  <2> QED
    BY <2>3, <2>4 DEF ListConsistent
<1>16. CallState'
  <2>1. \A b \in held : order'[b[1]] = b[2] /\ ~ entry_in_list'[b[1]]
    BY <1>13, <1>14, <1>1, <1>2, <1>6 DEF CallState, TypeOK
  <2>2. order'[low] = ord + 1
    BY <1>1, <1>2, <1>6 DEF TypeOK
  <2> QED
    BY <2>1, <2>2, <1>2 DEF CallState
<1> QED
  BY <1>1, <1>2, <1>9, <1>11, <1>12, <1>15, <1>16, ServingFrame DEF IInv, Cut, Booting

\* _free lists its block.
LEMMA FreeInsertInv ==
    ASSUME IInv, FreeInsert
    PROVE  IInv'
<1> DEFINE hand == <<"hand", <<cur, ord>>>>
<1>1. TypeOK /\ NoOverlap /\ Aligned /\ ListConsistent /\ CallState /\ Cut
  BY DEF IInv
<1>2. /\ pc = "free" /\ pc' = "idle"
      /\ order' = [order EXCEPT ![cur] = ord]
      /\ entry_in_list' = [entry_in_list EXCEPT ![cur] = TRUE]
      /\ UNCHANGED <<cur, ord, want, regions, nreg, held, resv, orig>>
  BY DEF FreeInsert
<1>3. hand \in Blocks /\ cur \in Page /\ ord \in Orders
  <2>1. Hand = {<<cur, ord>>}
    BY <1>2 DEF Hand
  <2>2. hand \in Blocks
    BY <2>1, <1>1, InBlocks
  <2> QED
    BY <2>2, <1>1 DEF Aligned
<1>4. free_list' = [free_list EXCEPT ![ord] = @ \cup {cur}]
  BY <1>3 DEF FreeInsert, add_to_free_list
<1>5. TypeOK'
  <2>1. ord \in -1 .. MAX_ORDER - 1
    BY <1>3, Sizes
  <2> QED
    BY <1>1, <1>2, <1>3, <1>4, <2>1 DEF TypeOK
<1>6. Blocks' \subseteq (Blocks \ {hand}) \cup {<<"free", hand[2]>>}
  BY <1>1, <1>2, <1>3, <1>4 DEF Blocks, FreeBlocks, Hand, TypeOK
<1>7. NoOverlap' /\ Aligned'
  BY <1>1, <1>3, <1>6, OwnerNames, OwnerStep, Zenon
<1>8. /\ \A j \in Orders : cur \notin free_list[j]
      /\ \A c \in held : c[1] # cur
  <2>1. cur <= cur /\ cur < cur + Pow2[ord] /\ cur \in Int
    BY <1>3, Sizes DEF Page
  <2>2. hand[2][1] = cur /\ hand[2][2] = ord /\ hand[1] = "hand"
    OBVIOUS
  <2> HIDE DEF hand
  <2> QED
    BY <2>1, <2>2, <1>1, <1>3, NoOtherHead
<1>9. ListConsistent'
  <2>1. FreeBlocks' = FreeBlocks \cup {<<cur, ord>>} /\ \A b \in FreeBlocks : b[1] # cur
    BY <1>1, <1>3, <1>4, <1>8 DEF FreeBlocks, TypeOK
  <2>2. order'[cur] = ord /\ entry_in_list'[cur]
    BY <1>1, <1>2, <1>3 DEF TypeOK
  <2>3. \A p \in Page : p # cur => order'[p] = order[p] /\ entry_in_list'[p] = entry_in_list[p]
    BY <1>1, <1>2 DEF TypeOK
  <2>4. \A b \in FreeBlocks' : entry_in_list'[b[1]] /\ order'[b[1]] = b[2]
    BY <2>1, <2>2, <2>3, <1>1 DEF ListConsistent, FreeBlocks
  <2>5. \A p \in Page : entry_in_list'[p] =>
           <<p, order'[p]>> \in FreeBlocks' \/ order'[p] = MAX_ORDER - 1
    BY <2>1, <2>2, <2>3, <1>1 DEF ListConsistent
  <2> QED
    BY <2>4, <2>5 DEF ListConsistent
<1>10. CallState'
  <2>1. \A b \in held : order'[b[1]] = b[2] /\ ~ entry_in_list'[b[1]]
    BY <1>8, <1>1, <1>2 DEF CallState, TypeOK
  <2> QED
    BY <2>1, <1>2 DEF CallState
<1> QED
  BY <1>1, <1>2, <1>5, <1>7, <1>9, <1>10, ServingFrame DEF IInv, Cut, Booting

\* _free leaves a block of the largest order on no list.
LEMMA FreeMaxOrderInv ==
    ASSUME IInv, FreeMaxOrder
    PROVE  IInv'
<1>1. TypeOK /\ NoOverlap /\ Aligned /\ ListConsistent /\ CallState /\ Cut
  BY DEF IInv
<1>2. /\ pc = "free" /\ pc' = "idle" /\ ord = MAX_ORDER - 1
      /\ UNCHANGED <<free_list, order, entry_in_list, cur, ord, want, regions, nreg,
                     held, resv, orig>>
  BY <1>1, Sizes DEF FreeMaxOrder, list, TypeOK
<1>3. TypeOK'
  BY <1>1, <1>2 DEF TypeOK
<1>4. Blocks' \subseteq Blocks
  BY <1>2 DEF Blocks, FreeBlocks, Hand
<1>5. NoOverlap' /\ Aligned'
  BY <1>1, <1>4 DEF NoOverlap, Aligned
<1>6. ListConsistent'
  BY <1>1, <1>2 DEF ListConsistent, FreeBlocks, Hand, CallState
<1>7. CallState'
  BY <1>1, <1>2 DEF CallState
<1> QED
  BY <1>1, <1>2, <1>3, <1>5, <1>6, <1>7, ServingFrame DEF IInv, Cut, Booting

-----------------------------------------------------------------------------
(* Boot *)

\* What reserve relies on at one end x of its region: if the aligned block around
\* x is whole, it is listed, since an earlier region cannot have taken it.
LEMMA WholeIsListed ==
    ASSUME IInv, pc \in {"split_start", "split_end"}, ord > 0,
           NEW x \in {start_idx(nreg), end_idx(nreg)}, order[Base(x, ord)] = ord
    PROVE  Base(x, ord) \in free_list[ord]
<1> DEFINE h == Base(x, ord)
<1>1. /\ TypeOK /\ BootState /\ ResvInside /\ Cut /\ Booting
      /\ regions \in BootRegions /\ nreg \in 1 .. Len(regions)
  <2>1. /\ TypeOK /\ BootState /\ ResvInside /\ Cut /\ Booting
        /\ regions \in BootRegions
    BY DEF IInv, Booting
  <2>2. nreg \in 1 .. Len(regions)
    <3>1. nreg \in 1 .. Len(regions) + 1 /\ nreg <= Len(regions) /\ Len(regions) \in Nat
      BY RegionFacts DEF IInv, Cut, TypeOK
    <3> QED
      BY <3>1
  <2> QED
    BY <2>1, <2>2
<1>2. x \in Page /\ ord \in Orders
  BY <1>1, RegionFacts DEF TypeOK
<1>3. h \in Page /\ h <= x /\ x < h + Pow2[ord]
  BY <1>2, BaseBlock
<1>4. BlockAt(h, ord)
  BY <1>1, <1>2, <1>3 DEF BootState
<1>5. ASSUME <<h, ord>> \in resv PROVE FALSE
  <2>1. PICK n \in 1 .. nreg - 1 : start_idx(n) < h /\ h + Pow2[ord] - 1 < end_idx(n)
    BY <1>1, <1>5 DEF ResvInside, Begun
  <2>2. n \in 1 .. Len(regions) /\ n # nreg
    BY <1>1, RegionFacts
  <2>3. end_idx(n) <= start_idx(nreg) \/ end_idx(nreg) <= start_idx(n)
    BY <2>2, <1>1, RegionFacts
  <2>4. /\ start_idx(n) \in Nat /\ end_idx(n) \in Nat /\ start_idx(nreg) \in Nat
        /\ end_idx(nreg) \in Nat /\ start_idx(nreg) <= end_idx(nreg)
        /\ h \in Nat /\ x \in Nat /\ Pow2[ord] \in Nat
    <3>1. /\ start_idx(n) \in Nat /\ end_idx(n) \in Nat
          /\ start_idx(nreg) \in Nat /\ end_idx(nreg) \in Nat
      BY <2>2, <1>1, RegionNat, Zenon
    <3>2. start_idx(nreg) <= end_idx(nreg)
      BY <1>1, RegionFacts, Zenon
    <3>3. \A y \in Page : y \in Nat
      BY DEF Page
    <3>4. Pow2[ord] \in Nat
      BY <1>2, Sizes
    <3> QED
      BY <3>1, <3>2, <3>3, <3>4, <1>2, <1>3, Zenon
  <2>5. start_idx(n) < x /\ x < end_idx(n)
    BY <2>1, <2>4, <1>3
  <2> QED
    BY <2>3, <2>4, <2>5
<1> QED
  BY <1>4, <1>5 DEF BlockAt

\* BlockAt and CutTo in the next state, for arguments of this one.
BlockAtNext(p, k) == p \in free_list'[k] \/ <<p, k>> \in resv'
CutToNext(x, m) == \E k \in 0 .. m : BlockAtNext(Base(x, k), k)

\* One split of reserve, at one end x of its region.
LEMMA SplitOne ==
    ASSUME IInv, pc \in {"split_start", "split_end"}, ord > 0,
           NEW x \in {start_idx(nreg), end_idx(nreg)}, CutTo(x, ord),
           SplitIfWhole(Base(x, ord)),
           pc' \in {"split_start", "split_end"},
           UNCHANGED <<regions, nreg, held, resv>>
    PROVE  /\ free_list' \in [Orders -> SUBSET Page]
           /\ order' \in [Page -> -1 .. MAX_ORDER - 1]
           /\ entry_in_list' \in [Page -> BOOLEAN]
           /\ NoOverlap' /\ Aligned' /\ ListConsistent' /\ BootState'
           /\ CutToNext(x, ord - 1)
           /\ \A y \in Page, m \in Orders : CutTo(y, m) => CutToNext(y, m)
<1> DEFINE h == Base(x, ord)
           Q == Pow2[ord - 1]
           whole == <<"free", <<h, ord>>>>
<1>1. /\ TypeOK /\ NoOverlap /\ Aligned /\ ListConsistent /\ BootState
      /\ Booting /\ Booting' /\ regions \in BootRegions
      /\ nreg \in 1 .. Len(regions) /\ Hand = {} /\ Hand' = {}
  <2>1. /\ TypeOK /\ NoOverlap /\ Aligned /\ ListConsistent /\ BootState
        /\ regions \in BootRegions
    BY DEF IInv
  <2>2. Booting /\ Booting' /\ Hand = {} /\ Hand' = {}
    BY DEF Booting, Hand
  <2>3. nreg \in 1 .. Len(regions)
    <3>1. nreg \in 1 .. Len(regions) + 1 /\ nreg <= Len(regions) /\ Len(regions) \in Nat
      BY RegionFacts DEF IInv, Cut, TypeOK
    <3> QED
      BY <3>1
  <2> QED
    BY <2>1, <2>2, <2>3
<1>2. x \in Page /\ ord \in Orders
  BY <1>1, RegionFacts DEF TypeOK
<1>3. h \in Page /\ h <= x /\ x < h + Pow2[ord] /\ h % Pow2[ord] = 0
  BY <1>2, BaseBlock
<1>4. CASE order[h] # ord
  <2>1. UNCHANGED <<free_list, order, entry_in_list>>
    BY <1>4 DEF SplitIfWhole, list
  <2>2. Blocks' = Blocks /\ FreeBlocks' = FreeBlocks
    BY <2>1, <1>1 DEF Blocks, FreeBlocks
  <2>3. NoOverlap' /\ Aligned' /\ ListConsistent' /\ BootState'
    BY <2>1, <2>2, <1>1 DEF NoOverlap, Aligned, ListConsistent, BootState, BlockAt
  <2>4. PICK k \in 0 .. ord : BlockAt(Base(x, k), k)
    BY DEF CutTo
  <2>5. k # ord
    <3>1. ASSUME BlockAt(h, ord) PROVE FALSE
      <4>1. CASE h \in free_list[ord]
        <5>1. <<h, ord>> \in FreeBlocks
          BY <4>1, <1>2, <1>3 DEF FreeBlocks
        <5> QED
          BY <5>1, <1>1, <1>4 DEF ListConsistent
      <4>2. CASE <<h, ord>> \in resv
        BY <4>2, <1>1, <1>4 DEF BootState
      <4> QED
        BY <3>1, <4>1, <4>2 DEF BlockAt
    <3> QED
      BY <3>1, <2>4
  <2>6. k \in 0 .. ord - 1
    BY <2>5, <1>2, Sizes
  <2>7. CutToNext(x, ord - 1)
    BY <2>1, <2>4, <2>6 DEF CutToNext, BlockAtNext, BlockAt
  <2>8. \A y \in Page, m \in Orders : CutTo(y, m) => CutToNext(y, m)
    BY <2>1 DEF CutTo, CutToNext, BlockAtNext, BlockAt
  <2> QED
    BY <2>1, <2>3, <2>7, <2>8, <1>1 DEF TypeOK
<1>5. CASE order[h] = ord
  <2>1. h \in free_list[ord] /\ whole \in Blocks
    BY <1>1, <1>2, <1>3, <1>5, WholeIsListed, InBlocks
  <2>2. /\ ord - 1 \in Orders /\ Pow2[ord] = 2 * Q /\ Q \in Nat \ {0}
        /\ get_buddy(h, ord - 1) = h + Q /\ h + Q \in Page
        /\ h \in Nat /\ h # h + Q /\ ord # ord - 1
    <3>1. /\ ord - 1 \in Orders /\ Pow2[ord] = 2 * Q
          /\ get_buddy(h, ord - 1) = h + Q /\ h + Q \in Page
      BY <1>2, <1>3, SplitBlock
    <3>2. Q \in Nat \ {0} /\ h \in Nat /\ ord \in Nat
      BY <3>1, <1>2, <1>3, Sizes DEF Page
    <3> QED
      BY <3>1, <3>2
  <2> HIDE DEF h, Q
  <2>3. /\ free_list' = [free_list EXCEPT ![ord] = @ \ {h},
                                          ![ord - 1] = (@ \cup {h}) \cup {h + Q}]
        /\ order' = [order EXCEPT ![h] = ord - 1, ![h + Q] = ord - 1]
        /\ entry_in_list' = [entry_in_list EXCEPT ![h] = TRUE, ![h + Q] = TRUE]
    <3>1. split(h, ord)
      BY <1>5 DEF SplitIfWhole, h
    <3> QED
      BY <3>1, <2>2, <1>1, <1>2 DEF split, add_to_free_list, rm_from_free_list, TypeOK
  <2>4. FreeBlocks' = (FreeBlocks \ {<<h, ord>>}) \cup {<<h, ord - 1>>, <<h + Q, ord - 1>>}
    <3>1. \A k \in Orders : free_list'[k] =
             IF k = ord THEN free_list[k] \ {h}
             ELSE IF k = ord - 1 THEN free_list[k] \cup {h, h + Q} ELSE free_list[k]
      BY <2>2, <2>3, <1>1 DEF TypeOK
    <3>2. \A b \in Page \X Orders : b[1] \in Page /\ b[2] \in Orders /\ b = <<b[1], b[2]>>
      OBVIOUS
    <3>3. ASSUME NEW b \in Page \X Orders
          PROVE  b \in FreeBlocks' <=>
                   b \in (FreeBlocks \ {<<h, ord>>}) \cup {<<h, ord - 1>>, <<h + Q, ord - 1>>}
      <4>1. b[1] \in Page /\ b[2] \in Orders /\ b = <<b[1], b[2]>>
        BY <3>2
      <4>2. b \in FreeBlocks' <=> b[1] \in free_list'[b[2]]
        BY DEF FreeBlocks
      <4>3. b \in FreeBlocks <=> b[1] \in free_list[b[2]]
        BY DEF FreeBlocks
      <4>4. CASE b[2] = ord
        <5>1. b[1] \in free_list'[b[2]] <=> b[1] \in free_list[b[2]] /\ b[1] # h
          BY <4>1, <4>4, <3>1
        <5>2. b # <<h, ord - 1>> /\ b # <<h + Q, ord - 1>> /\ (b = <<h, ord>> <=> b[1] = h)
          BY <4>1, <4>4, <2>2
        <5> QED
          BY <5>1, <5>2, <4>2, <4>3
      <4>5. CASE b[2] = ord - 1
        <5>1. b[1] \in free_list'[b[2]] <=> b[1] \in free_list[b[2]] \/ b[1] = h \/ b[1] = h + Q
          BY <4>1, <4>5, <3>1, <2>2
        <5>2. /\ b # <<h, ord>> /\ (b = <<h, ord - 1>> <=> b[1] = h)
              /\ (b = <<h + Q, ord - 1>> <=> b[1] = h + Q)
          BY <4>1, <4>5, <2>2
        <5> QED
          BY <5>1, <5>2, <4>2, <4>3
      <4>6. CASE b[2] # ord /\ b[2] # ord - 1
        <5>1. b[1] \in free_list'[b[2]] <=> b[1] \in free_list[b[2]]
          BY <4>1, <4>6, <3>1
        <5>2. b # <<h, ord>> /\ b # <<h, ord - 1>> /\ b # <<h + Q, ord - 1>>
          BY <4>1, <4>6
        <5> QED
          BY <5>1, <5>2, <4>2, <4>3
      <4> QED
        BY <4>4, <4>5, <4>6
    <3>4. <<h, ord - 1>> \in Page \X Orders /\ <<h + Q, ord - 1>> \in Page \X Orders
      BY <2>2, <1>3 DEF h
    <3>5. FreeBlocks' \subseteq Page \X Orders /\ FreeBlocks \subseteq Page \X Orders
      BY DEF FreeBlocks
    <3> QED
      BY <3>3, <3>4, <3>5
  <2>5. Blocks' \subseteq (Blocks \ {whole})
            \cup {<<"free", <<h, ord - 1>>>>, <<"free", <<h + Q, ord - 1>>>>}
    BY <2>4, <1>1 DEF Blocks
  <2>6. NoOverlap' /\ Aligned'
    BY <2>1, <2>5, <1>1, OwnerNames, SplitStep, Zenon DEF Q
  <2>7. ASSUME NEW y \in {h, h + Q}
        PROVE  /\ \A k \in Orders : y \in free_list[k] => y = h /\ k = ord
               /\ \A c \in resv : c[1] # y
    <3>1. h <= y /\ y < h + Pow2[ord] /\ y \in Int
      BY <2>2
    <3>2. whole[2][1] = h /\ whole[2][2] = ord
      OBVIOUS
    <3>3. /\ \A k \in Orders : y \in free_list[k] => whole = <<"free", <<y, k>>>>
          /\ \A c \in resv : c[1] = y => whole = <<"resv", c>>
      BY <3>1, <3>2, <2>1, <1>1, NoOtherHead, Zenon
    <3> QED
      BY <3>3
  <2>8. \A p \in Page : p \notin {h, h + Q} =>
           order'[p] = order[p] /\ entry_in_list'[p] = entry_in_list[p]
    BY <2>2, <2>3, <1>1 DEF TypeOK
  <2>9. \A y \in {h, h + Q} : order'[y] = ord - 1 /\ entry_in_list'[y]
    BY <2>2, <2>3, <1>1, <1>3 DEF TypeOK, h
  <2>10. \A b \in FreeBlocks : b # <<h, ord>> => b[1] \notin {h, h + Q}
    BY <2>7 DEF FreeBlocks
  <2>11. \A b \in FreeBlocks' : entry_in_list'[b[1]] /\ order'[b[1]] = b[2]
    <3>1. \A b \in FreeBlocks : b[1] \in Page
      BY DEF FreeBlocks
    <3> QED
      BY <3>1, <2>4, <2>8, <2>9, <2>10, <1>1 DEF ListConsistent
  <2>12. \A p \in Page : entry_in_list'[p] => <<p, order'[p]>> \in FreeBlocks'
    <3> SUFFICES ASSUME NEW p \in Page, entry_in_list'[p]
                 PROVE  <<p, order'[p]>> \in FreeBlocks'
      OBVIOUS
    <3>1. CASE p \in {h, h + Q}
      BY <3>1, <2>4, <2>9
    <3>2. CASE p \notin {h, h + Q}
      <4>1. <<p, order[p]>> \in FreeBlocks /\ order'[p] = order[p]
        BY <3>2, <2>8, <1>1 DEF BootState
      <4> QED
        BY <4>1, <3>2, <2>4
    <3> QED
      BY <3>1, <3>2
  <2>13. ListConsistent'
    BY <2>11, <2>12 DEF ListConsistent
  <2>14. \A p \in Page, k \in Orders : BlockAt(p, k) /\ <<p, k>> # <<h, ord>> => BlockAtNext(p, k)
    <3> SUFFICES ASSUME NEW p \in Page, NEW k \in Orders, BlockAt(p, k), <<p, k>> # <<h, ord>>
                 PROVE  BlockAtNext(p, k)
      OBVIOUS
    <3>1. CASE p \in free_list[k]
      <4>1. <<p, k>> \in FreeBlocks
        BY <3>1 DEF FreeBlocks
      <4>2. <<p, k>> \in FreeBlocks'
        BY <4>1, <2>4
      <4> QED
        BY <4>2 DEF FreeBlocks, BlockAtNext
    <3>2. CASE <<p, k>> \in resv
      BY <3>2 DEF BlockAtNext
    <3> QED
      BY <3>1, <3>2 DEF BlockAt
  <2>15. BlockAtNext(h, ord - 1) /\ BlockAtNext(h + Q, ord - 1)
    BY <2>4 DEF FreeBlocks, BlockAtNext
  <2>16. ASSUME NEW y \in Page, NEW k \in Orders, BlockAt(Base(y, k), k)
         PROVE  \E j \in 0 .. k : BlockAtNext(Base(y, j), j)
    <3>1. CASE <<Base(y, k), k>> = <<h, ord>>
      <4>1. Base(y, ord - 1) \in {h, h + Q} /\ k = ord
        BY <3>1, <1>2, HalfBlock DEF Q
      <4>2. ord - 1 \in 0 .. k
        BY <4>1, <2>2, <1>2, Sizes
      <4> QED
        BY <4>1, <4>2, <2>15
    <3>2. CASE <<Base(y, k), k>> # <<h, ord>>
      <4>1. Base(y, k) \in Page /\ k \in 0 .. k
        BY BaseBlock, Sizes
      <4> QED
        BY <4>1, <3>2, <2>14, <2>16
    <3> QED
      BY <3>1, <3>2
  <2>17. \A y \in Page, m \in Orders : CutTo(y, m) => CutToNext(y, m)
    <3> SUFFICES ASSUME NEW y \in Page, NEW m \in Orders, CutTo(y, m)
                 PROVE  CutToNext(y, m)
      OBVIOUS
    <3>1. PICK k \in 0 .. m : BlockAt(Base(y, k), k)
      BY DEF CutTo
    <3>2. k \in Orders
      BY Sizes DEF Orders
    <3>3. PICK j \in 0 .. k : BlockAtNext(Base(y, j), j)
      BY <3>1, <3>2, <2>16
    <3>4. j \in 0 .. m
      BY Sizes
    <3> QED
      BY <3>3, <3>4 DEF CutToNext
  <2>18. CutToNext(x, ord - 1)
    <3>1. Base(x, ord - 1) \in {h, h + Q}
      BY <1>2, HalfBlock DEF h, Q
    <3>2. ord - 1 \in 0 .. ord - 1
      BY <2>2, Sizes
    <3> QED
      BY <3>1, <3>2, <2>15 DEF CutToNext
  <2>19. BootState'
    <3>1. \A p \in Page : order'[p] >= 0 /\ (order'[p] > 0 => BlockAtNext(p, order'[p]))
      <4> SUFFICES ASSUME NEW p \in Page
                   PROVE  order'[p] >= 0 /\ (order'[p] > 0 => BlockAtNext(p, order'[p]))
        OBVIOUS
      <4>1. CASE p \in {h, h + Q}
        <5>1. order'[p] = ord - 1 /\ ord - 1 \in Nat
          BY <4>1, <2>9, <2>2, Sizes
        <5>2. BlockAtNext(p, ord - 1)
          BY <4>1, <2>15
        <5> QED
          BY <5>1, <5>2
      <4>2. CASE p \notin {h, h + Q}
        <5>1. order'[p] = order[p] /\ order[p] >= 0 /\ (order[p] > 0 => BlockAt(p, order[p]))
          BY <4>2, <2>8, <1>1 DEF BootState
        <5>2. order[p] \in Orders
          BY <5>1, <1>1 DEF TypeOK, Orders
        <5> QED
          BY <5>1, <5>2, <4>2, <2>14
      <4> QED
        BY <4>1, <4>2
    <3>2. \A b \in resv : order'[b[1]] = b[2]
      <4>1. \A b \in resv : b[1] \in Page /\ b[1] \notin {h, h + Q}
        BY <2>7, <1>1 DEF TypeOK
      <4> QED
        BY <4>1, <2>8, <1>1 DEF BootState
    <3>3. \A y \in Page : \E k \in Orders : BlockAtNext(Base(y, k), k)
      <4> SUFFICES ASSUME NEW y \in Page PROVE \E k \in Orders : BlockAtNext(Base(y, k), k)
        OBVIOUS
      <4>1. PICK k \in Orders : BlockAt(Base(y, k), k)
        BY <1>1 DEF BootState
      <4>2. PICK j \in 0 .. k : BlockAtNext(Base(y, j), j)
        BY <4>1, <2>16
      <4>3. j \in Orders
        BY Sizes DEF Orders
      <4> QED
        BY <4>2, <4>3
    <3>4. held' = {}
      BY <1>1 DEF BootState
    <3> QED
      BY <3>1, <3>2, <3>3, <3>4, <2>12 DEF BootState, BlockAtNext, BlockAt
  <2>20. /\ free_list' \in [Orders -> SUBSET Page]
         /\ order' \in [Page -> -1 .. MAX_ORDER - 1]
         /\ entry_in_list' \in [Page -> BOOLEAN]
    <3>1. ord - 1 \in -1 .. MAX_ORDER - 1
      BY <2>2, Sizes
    <3> QED
      BY <3>1, <2>2, <2>3, <1>1, <1>3 DEF TypeOK, h
  <2> QED
    BY <2>6, <2>13, <2>17, <2>18, <2>19, <2>20
<1> QED
  BY <1>4, <1>5

\* The first state of reserve's split loop.
LEMMA ReserveCallInv ==
    ASSUME IInv, ReserveCall
    PROVE  IInv'
<1>1. /\ pc = "boot" /\ nreg <= Len(regions) /\ pc' = "split_start" /\ ord' = MAX_ORDER - 1
      /\ UNCHANGED <<free_list, order, entry_in_list, cur, want, regions, nreg, held, resv, orig>>
  BY DEF ReserveCall, list
<1>2. TypeOK'
  BY <1>1, Sizes DEF IInv, TypeOK
<1>3. NoOverlap' /\ Aligned' /\ ListConsistent' /\ CallState'
  <2>1. Blocks' = Blocks /\ FreeBlocks' = FreeBlocks /\ Hand = {} /\ Hand' = {}
    BY <1>1 DEF Blocks, FreeBlocks, Hand
  <2> QED
    BY <2>1, <1>1 DEF IInv, NoOverlap, Aligned, ListConsistent, CallState
<1>4. BootState' /\ ResvInside' /\ ResvComplete'
  BY <1>1 DEF IInv, BootState, Booting, BlockAt, FreeBlocks, ResvInside, Begun,
              start_idx, end_idx, ResvComplete, RegionPages, Withheld
<1>5. Cut'
  <2>1. ASSUME NEW x \in Page PROVE CutToNext(x, MAX_ORDER - 1)
    <3>1. PICK k \in Orders : BlockAt(Base(x, k), k)
      BY <1>1 DEF IInv, BootState, Booting
    <3>2. k \in 0 .. MAX_ORDER - 1
      BY DEF Orders
    <3> QED
      BY <3>1, <3>2, <1>1 DEF CutToNext, BlockAtNext, BlockAt
  <2>2. nreg \in 1 .. Len(regions) /\ regions \in BootRegions
    BY <1>1 DEF IInv, TypeOK
  <2>3. start_idx(nreg) \in Page /\ end_idx(nreg) \in Page
    BY <2>2, RegionFacts
  <2>4. CutToNext(start_idx(nreg), MAX_ORDER - 1) /\ CutToNext(end_idx(nreg), MAX_ORDER - 1)
    BY <2>1, <2>3
  <2> QED
    BY <2>4, <1>1 DEF Cut, CutTo, CutToNext, BlockAt, BlockAtNext, start_idx, end_idx
<1> QED
  BY <1>1, <1>2, <1>3, <1>4, <1>5 DEF IInv

\* reserve splits the block around the start of its region.
LEMMA SplitStartInv ==
    ASSUME IInv, SplitStart
    PROVE  IInv'
<1> DEFINE x == start_idx(nreg)
<1>1. /\ pc = "split_start" /\ ord > 0 /\ pc' = "split_end"
      /\ SplitIfWhole(Base(x, ord))
      /\ UNCHANGED <<cur, ord, want, regions, nreg, held, resv, orig>>
  BY DEF SplitStart
<1>2. CutTo(x, ord) /\ CutTo(end_idx(nreg), ord)
  BY <1>1 DEF IInv, Cut
<1>3. nreg \in 1 .. Len(regions) /\ ord \in Orders /\ end_idx(nreg) \in Page
  BY <1>1, RegionFacts DEF IInv, Cut, TypeOK
<1>4. /\ free_list' \in [Orders -> SUBSET Page]
      /\ order' \in [Page -> -1 .. MAX_ORDER - 1]
      /\ entry_in_list' \in [Page -> BOOLEAN]
      /\ NoOverlap' /\ Aligned' /\ ListConsistent' /\ BootState'
      /\ CutToNext(x, ord - 1)
      /\ \A y \in Page, m \in Orders : CutTo(y, m) => CutToNext(y, m)
  <2>1. pc \in {"split_start", "split_end"} /\ pc' \in {"split_start", "split_end"}
        /\ x \in {start_idx(nreg), end_idx(nreg)} /\ UNCHANGED <<regions, nreg, held, resv>>
    BY <1>1
  <2> QED
    BY <2>1, <1>1, <1>2, SplitOne, Zenon
<1>5. CutToNext(end_idx(nreg), ord)
  BY <1>2, <1>3, <1>4
<1>6. TypeOK'
  BY <1>1, <1>4 DEF IInv, TypeOK
<1>7. CallState'
  BY <1>1 DEF IInv, CallState, BootState, Booting
<1>8. ResvInside' /\ ResvComplete'
  BY <1>1 DEF IInv, ResvInside, Begun, start_idx, end_idx, ResvComplete, RegionPages, Withheld
<1>9. Cut'
  <2>1. CutTo(start_idx(nreg), ord - 1)' /\ CutTo(end_idx(nreg), ord)'
    BY <1>1, <1>4, <1>5 DEF CutTo, CutToNext, BlockAt, BlockAtNext, start_idx, end_idx
  <2> QED
    BY <2>1, <1>1, <1>3 DEF Cut
<1> QED
  BY <1>1, <1>4, <1>6, <1>7, <1>8, <1>9 DEF IInv

\* reserve splits the block around the end of its region, unless it is the same.
LEMMA SplitEndInv ==
    ASSUME IInv, SplitEnd
    PROVE  IInv'
<1> DEFINE s == start_idx(nreg)
           e == end_idx(nreg)
<1>1. /\ pc = "split_end" /\ pc' = "split_start" /\ ord' = ord - 1 /\ ord > 0
      /\ UNCHANGED <<cur, want, regions, nreg, held, resv, orig>>
      /\ CutTo(s, ord - 1) /\ CutTo(e, ord)
  BY DEF SplitEnd, IInv, Cut
<1>2. /\ nreg \in 1 .. Len(regions) /\ ord \in Orders /\ s \in Page /\ e \in Page
      /\ ord - 1 \in Orders
  BY <1>1, RegionFacts, Sizes DEF IInv, Cut, TypeOK
<1>3. /\ free_list' \in [Orders -> SUBSET Page]
      /\ order' \in [Page -> -1 .. MAX_ORDER - 1]
      /\ entry_in_list' \in [Page -> BOOLEAN]
      /\ NoOverlap' /\ Aligned' /\ ListConsistent' /\ BootState'
      /\ CutToNext(s, ord - 1) /\ CutToNext(e, ord - 1)
  <2>1. CASE Base(s, ord) # Base(e, ord)
    <3>1. SplitIfWhole(Base(e, ord))
      BY <2>1 DEF SplitEnd
    <3>2. pc \in {"split_start", "split_end"} /\ pc' \in {"split_start", "split_end"}
          /\ e \in {start_idx(nreg), end_idx(nreg)} /\ UNCHANGED <<regions, nreg, held, resv>>
      BY <1>1
    <3>3. /\ free_list' \in [Orders -> SUBSET Page]
          /\ order' \in [Page -> -1 .. MAX_ORDER - 1]
          /\ entry_in_list' \in [Page -> BOOLEAN]
          /\ NoOverlap' /\ Aligned' /\ ListConsistent' /\ BootState'
          /\ CutToNext(e, ord - 1)
          /\ \A y \in Page, m \in Orders : CutTo(y, m) => CutToNext(y, m)
      BY <3>1, <3>2, <1>1, SplitOne, Zenon
    <3> QED
      BY <3>3, <1>1, <1>2
  <2>2. CASE Base(s, ord) = Base(e, ord)
    <3>1. UNCHANGED <<free_list, order, entry_in_list>>
      BY <2>2 DEF SplitEnd, list
    <3>2. Blocks' = Blocks /\ FreeBlocks' = FreeBlocks /\ Hand = {} /\ Hand' = {}
      BY <3>1, <1>1 DEF Blocks, FreeBlocks, Hand
    <3>3. NoOverlap' /\ Aligned' /\ ListConsistent' /\ BootState'
      BY <3>1, <3>2, <1>1 DEF IInv, NoOverlap, Aligned, ListConsistent, BootState, Booting, BlockAt
    <3>4. PICK j \in 0 .. ord - 1 : BlockAt(Base(s, j), j)
      BY <1>1 DEF CutTo
    <3>5. PICK k \in 0 .. ord : BlockAt(Base(e, k), k)
      BY <1>1 DEF CutTo
    <3>6. k # ord
      <4> SUFFICES ASSUME k = ord PROVE FALSE
        OBVIOUS
      <4>1. j \in Orders /\ j # ord /\ j \in Nat /\ ord \in Nat
        BY <1>2, Sizes DEF Orders
      <4>2. BlockAt(Base(s, ord), ord)
        BY <3>5, <2>2
      <4>3. PICK o \in {"free", "resv"} : <<o, <<Base(s, j), j>>>> \in Blocks
        BY <3>4, <4>1, <1>2, BaseBlock, InBlocks DEF BlockAt, IInv
      <4>4. PICK w \in {"free", "resv"} : <<w, <<Base(s, ord), ord>>>> \in Blocks
        BY <4>2, <1>2, BaseBlock, InBlocks DEF BlockAt, IInv
      <4>5. Apart(<<Base(s, j), j>>, <<Base(s, ord), ord>>)
        BY <4>1, <4>3, <4>4 DEF IInv, NoOverlap
      <4>6. /\ Base(s, j) <= s /\ s < Base(s, j) + Pow2[j]
            /\ Base(s, ord) <= s /\ s < Base(s, ord) + Pow2[ord]
            /\ Base(s, j) \in Page /\ Base(s, ord) \in Page
        BY <4>1, <1>2, BaseBlock
      <4> HIDE DEF s
      <4>7. /\ s \in Nat /\ Base(s, j) \in Nat /\ Base(s, ord) \in Nat
            /\ Pow2[j] \in Nat /\ Pow2[ord] \in Nat
        <5>1. \A y \in Page : y \in Nat
          BY DEF Page
        <5>2. s \in Page
          BY <1>2 DEF s
        <5>3. Pow2[j] \in Nat /\ Pow2[ord] \in Nat
          BY <4>1, <1>2, Sizes
        <5> QED
          BY <5>1, <5>2, <5>3, <4>6
      <4> QED
        BY <4>5, <4>6, <4>7 DEF Apart
    <3>7. k \in 0 .. ord - 1
      BY <3>6, <1>2, Sizes
    <3>8. CutToNext(s, ord - 1) /\ CutToNext(e, ord - 1)
      BY <3>1, <3>4, <3>5, <3>7, <1>1 DEF CutToNext, BlockAtNext, BlockAt
    <3> QED
      BY <3>1, <3>3, <3>8 DEF IInv, TypeOK
  <2> QED
    BY <2>1, <2>2
<1>4. TypeOK'
  BY <1>1, <1>2, <1>3 DEF IInv, TypeOK
<1>5. CallState'
  BY <1>1 DEF IInv, CallState, BootState, Booting
<1>6. ResvInside' /\ ResvComplete'
  BY <1>1 DEF IInv, ResvInside, Begun, start_idx, end_idx, ResvComplete, RegionPages, Withheld
<1>7. Cut'
  <2>1. CutTo(start_idx(nreg), ord)' /\ CutTo(end_idx(nreg), ord)'
    BY <1>1, <1>3 DEF CutTo, CutToNext, BlockAt, BlockAtNext, start_idx, end_idx
  <2> QED
    BY <2>1, <1>1, <1>2 DEF Cut
<1> QED
  BY <1>1, <1>3, <1>4, <1>5, <1>6, <1>7 DEF IInv

\* The split loop of reserve ends.
LEMMA SplitDoneInv ==
    ASSUME IInv, SplitDone
    PROVE  IInv'
<1>1. /\ pc = "split_start" /\ ord = 0 /\ pc' = "take" /\ cur' = start_idx(nreg)
      /\ UNCHANGED <<free_list, order, entry_in_list, ord, want, regions, nreg, held, resv, orig>>
  BY DEF SplitDone, list
<1>2. nreg \in 1 .. Len(regions) /\ start_idx(nreg) \in Page /\ start_idx(nreg) \in 0 .. PAGE_NUM
  <2>1. nreg \in 1 .. Len(regions) /\ start_idx(nreg) \in Page
    BY <1>1, RegionFacts DEF IInv, Cut, TypeOK
  <2> QED
    BY <2>1, Sizes DEF Page
<1>3. TypeOK'
  BY <1>1, <1>2 DEF IInv, TypeOK
<1>4. NoOverlap' /\ Aligned' /\ ListConsistent' /\ CallState'
  <2>1. Blocks' = Blocks /\ FreeBlocks' = FreeBlocks /\ Hand = {} /\ Hand' = {}
    BY <1>1 DEF Blocks, FreeBlocks, Hand
  <2> QED
    BY <2>1, <1>1 DEF IInv, NoOverlap, Aligned, ListConsistent, CallState
<1>5. BootState'
  BY <1>1 DEF IInv, BootState, Booting, BlockAt, FreeBlocks
<1>6. ResvInside'
  <2>1. Begun \subseteq Begun'
    BY <1>1, <1>2 DEF Begun
  <2> QED
    BY <2>1, <1>1 DEF IInv, ResvInside, start_idx, end_idx
<1>7. ResvComplete'
  <2>1. \A n \in 1 .. nreg - 1 : \A x \in RegionPages(n) : Withheld(x)
    BY DEF IInv, ResvComplete
  <2>2. start_idx(nreg) .. start_idx(nreg) - 1 = {}
    BY <1>2 DEF Page
  <2> QED
    BY <2>1, <2>2, <1>1 DEF ResvComplete, RegionPages, Withheld, start_idx, end_idx
<1>8. Cut'
  <2>1. start_idx(nreg) <= start_idx(nreg)
    BY <1>2 DEF Page
  <2> QED
    BY <2>1, <1>1, <1>2 DEF IInv, Cut, CutTo, BlockAt, start_idx, end_idx
<1> QED
  BY <1>1, <1>3, <1>4, <1>5, <1>6, <1>7, <1>8 DEF IInv

\* reserve takes the block at i off its list, or passes a page already taken.
LEMMA TakeInv ==
    ASSUME IInv, Take
    PROVE  IInv'
<1> DEFINE s == start_idx(nreg)
           e == end_idx(nreg)
           k == order[cur]
<1>1. /\ TypeOK /\ NoOverlap /\ Aligned /\ ListConsistent /\ CallState /\ BootState
      /\ ResvInside /\ ResvComplete /\ Cut /\ regions \in BootRegions
  BY DEF IInv
<1>2. /\ pc = "take" /\ pc' = "take" /\ cur <= e /\ cur' = cur + Pow2[k]
      /\ UNCHANGED <<order, ord, want, regions, nreg, held, orig>>
  BY DEF Take
<1>3. /\ nreg \in 1 .. Len(regions) /\ s \in Page /\ e \in Page /\ s <= cur
      /\ s \in Nat /\ e \in Nat /\ cur \in Nat /\ cur \in Page
  <2>1. /\ nreg \in 1 .. Len(regions) /\ s \in Page /\ e \in Page /\ s <= cur
        /\ cur \in Nat
    BY <1>1, <1>2, RegionFacts DEF Cut, TypeOK
  <2> QED
    BY <2>1, <1>2, Sizes DEF Page
<1>4. k \in Orders /\ Pow2[k] \in Nat \ {0} /\ Booting /\ Booting' /\ Hand = {} /\ Hand' = {}
  <2>1. Booting /\ Booting' /\ Hand = {} /\ Hand' = {}
    BY <1>2 DEF Booting, Hand
  <2>2. k >= 0 /\ k \in -1 .. MAX_ORDER - 1
    BY <2>1, <1>1, <1>3 DEF BootState, TypeOK
  <2>3. k \in Orders
    BY <2>2, Sizes DEF Orders
  <2> QED
    BY <2>1, <2>3, Sizes
<1>5. BlockAt(s, 0) /\ BlockAt(e, 0)
  <2>1. \A x \in Page : Base(x, 0) = x
    BY Sizes DEF Base, Page
  <2>2. CutTo(s, 0) /\ CutTo(e, 0) /\ 0 .. 0 = {0}
    BY <1>1, <1>2 DEF Cut
  <2> HIDE DEF s, e
  <2> QED
    BY <2>1, <2>2, <1>3 DEF CutTo
<1>6. cur' \in 0 .. PAGE_NUM
  <2>1. CASE k = 0
    BY <2>1, <1>2, <1>3, Sizes DEF Page
  <2>2. CASE k > 0
    <3>1. BlockAt(cur, k)
      BY <2>2, <1>1, <1>3, <1>4 DEF BootState
    <3>2. cur % Pow2[k] = 0
      <4>1. <<"free", <<cur, k>>>> \in Blocks \/ <<"resv", <<cur, k>>>> \in Blocks
        BY <3>1, <1>1, <1>3, <1>4, InBlocks DEF BlockAt
      <4> QED
        BY <4>1, <1>1 DEF Aligned
    <3>3. cur + Pow2[k] <= PAGE_NUM
      BY <3>2, <1>3, <1>4, AlignedBase
    <3> QED
      <4>1. cur' = cur + Pow2[k] /\ cur \in Nat /\ Pow2[k] \in Nat /\ PAGE_NUM \in Nat
        BY <1>2, <1>3, <1>4, Sizes
      <4> HIDE DEF k
      <4> QED
        BY <3>3, <4>1
  <2> QED
    BY <2>1, <2>2, <1>4, Sizes
<1>7. CASE entry_in_list[cur]
  <2> DEFINE b == <<"free", <<cur, k>>>>
  <2>1. <<cur, k>> \in FreeBlocks /\ b \in Blocks
    BY <1>1, <1>3, <1>4, <1>7 DEF BootState, Blocks
  <2>2. /\ free_list' = [free_list EXCEPT ![k] = @ \ {cur}]
        /\ entry_in_list' = [entry_in_list EXCEPT ![cur] = FALSE]
        /\ resv' = resv \cup {<<cur, k>>}
    BY <1>4, <1>7 DEF Take, rm_from_free_list
  <2> HIDE DEF k
  <2>3. TypeOK'
    <3>1. resv' \subseteq Page \X Orders
      <4>1. <<cur, k>> \in Page \X Orders
        BY <1>3, <1>4
      <4> QED
        BY <2>2, <1>1, <4>1 DEF TypeOK
    <3>2. free_list' \in [Orders -> SUBSET Page] /\ entry_in_list' \in [Page -> BOOLEAN]
      BY <2>2, <1>1, <1>3, <1>4 DEF TypeOK
    <3> QED
      BY <3>1, <3>2, <1>1, <1>2, <1>6 DEF TypeOK
  <2>4. FreeBlocks' = FreeBlocks \ {<<cur, k>>}
    <3>1. \A j \in Orders : free_list'[j] = IF j = k THEN free_list[k] \ {cur} ELSE free_list[j]
      BY <2>2, <1>1 DEF TypeOK
    <3> QED
      BY <3>1 DEF FreeBlocks
  <2>5. Blocks' \subseteq (Blocks \ {b}) \cup {<<"resv", b[2]>>}
    BY <2>2, <2>4, <1>2, <1>4 DEF Blocks
  <2>6. NoOverlap' /\ Aligned'
    BY <2>1, <2>5, <1>1, OwnerNames, OwnerStep, Zenon
  <2>7. \A c \in FreeBlocks' : c[1] # cur
    <3>1. cur <= cur /\ cur < cur + Pow2[k] /\ cur \in Int
      BY <1>3, <1>4
    <3>2. b[2][1] = cur /\ b[2][2] = k
      OBVIOUS
    <3>3. \A j \in Orders : cur \in free_list[j] => b = <<"free", <<cur, j>>>>
      BY <3>1, <3>2, <2>1, <1>1, NoOtherHead, Zenon
    <3> QED
      BY <3>3, <2>4 DEF FreeBlocks
  <2>8. \A p \in Page : entry_in_list'[p] =>
           p # cur /\ entry_in_list[p] /\ <<p, order'[p]>> \in FreeBlocks'
    <3>1. \A p \in Page : entry_in_list'[p] => p # cur /\ entry_in_list[p]
      BY <2>2, <1>1, <1>3 DEF TypeOK
    <3> QED
      BY <3>1, <2>4, <1>1, <1>2, <1>4 DEF BootState
  <2>9. \A c \in FreeBlocks' : entry_in_list'[c[1]] /\ order'[c[1]] = c[2]
    <3>1. \A c \in FreeBlocks' : c \in FreeBlocks /\ c[1] \in Page /\ c[1] # cur
      BY <2>4, <2>7 DEF FreeBlocks
    <3> QED
      BY <3>1, <2>2, <1>1, <1>2 DEF ListConsistent, TypeOK
  <2>10. ListConsistent'
    BY <2>8, <2>9 DEF ListConsistent
  <2>11. \A p \in Page, j \in Orders : BlockAt(p, j) => BlockAtNext(p, j)
    <3> SUFFICES ASSUME NEW p \in Page, NEW j \in Orders, BlockAt(p, j)
                 PROVE  BlockAtNext(p, j)
      OBVIOUS
    <3>1. CASE <<p, j>> = <<cur, k>>
      BY <3>1, <2>2 DEF BlockAtNext
    <3>2. CASE <<p, j>> # <<cur, k>>
      <4>1. <<p, j>> \in FreeBlocks => <<p, j>> \in FreeBlocks'
        BY <3>2, <2>4
      <4> QED
        BY <4>1, <2>2 DEF BlockAt, BlockAtNext, FreeBlocks
    <3> QED
      BY <3>1, <3>2
  <2>12. BootState'
    <3>1. \A p \in Page : order'[p] >= 0 /\ (order'[p] > 0 => BlockAtNext(p, order'[p]))
      <4> SUFFICES ASSUME NEW p \in Page
                   PROVE  order[p] >= 0 /\ (order[p] > 0 => BlockAtNext(p, order[p]))
        BY <1>2
      <4>1. order[p] >= 0 /\ (order[p] > 0 => BlockAt(p, order[p])) /\ order[p] \in Orders
        <5>1. order[p] >= 0 /\ (order[p] > 0 => BlockAt(p, order[p]))
          BY <1>1, <1>4 DEF BootState
        <5>2. order[p] \in -1 .. MAX_ORDER - 1
          BY <1>1 DEF TypeOK
        <5>3. order[p] \in Orders
          BY <5>1, <5>2, Sizes DEF Orders
        <5> QED
          BY <5>1, <5>3
      <4> QED
        BY <4>1, <2>11
    <3>2. \A c \in resv' : order'[c[1]] = c[2]
      BY <2>2, <1>1, <1>2, <1>4 DEF BootState, k
    <3>3. \A x \in Page : \E j \in Orders : BlockAtNext(Base(x, j), j)
      BY <2>11, <1>1, <1>4, BaseBlock DEF BootState
    <3>4. held' = {}
      BY <1>1, <1>2, <1>4 DEF BootState
    <3> QED
      BY <3>1, <3>2, <3>3, <3>4, <2>8 DEF BootState, BlockAt, BlockAtNext
  <2>13. /\ s <= cur /\ cur + Pow2[k] - 1 <= e
         /\ k > 0 => s < cur /\ cur + Pow2[k] - 1 < e
    <3>1. CASE k = 0
      <4>1. Pow2[k] = 1
        BY <3>1, Sizes
      <4> QED
        BY <4>1, <3>1, <1>2, <1>3
    <3>2. CASE k > 0
      <4>1. ASSUME NEW x \in Page, BlockAt(x, 0)
            PROVE  cur + Pow2[k] <= x \/ x + 1 <= cur
        <5>1. PICK c \in Blocks : c[2] = <<x, 0>>
          <6>1. <<"free", <<x, 0>>>> \in Blocks \/ <<"resv", <<x, 0>>>> \in Blocks
            BY <4>1, <1>1, Sizes, InBlocks DEF BlockAt
          <6> QED
            BY <6>1
        <5>2. c # b
          BY <5>1, <3>2, <1>4, Sizes
        <5>3. Apart(<<cur, k>>, <<x, 0>>)
          BY <5>1, <5>2, <2>1, <1>1 DEF NoOverlap
        <5> QED
          BY <5>3, Sizes DEF Apart
      <4> HIDE DEF s, e
      <4>2. cur + Pow2[k] <= s \/ s + 1 <= cur
        BY <4>1, <1>3, <1>5
      <4>3. cur + Pow2[k] <= e \/ e + 1 <= cur
        BY <4>1, <1>3, <1>5
      <4> QED
        BY <4>2, <4>3, <1>2, <1>3, <1>4
    <3> QED
      BY <3>1, <3>2, <1>4, Sizes
  <2>14. ResvInside'
    <3>1. nreg \in Begun /\ Begun' = Begun
      BY <1>2, <1>3 DEF Begun
    <3> QED
      BY <3>1, <2>2, <2>13, <1>1, <1>2 DEF ResvInside, start_idx, end_idx
  <2>15. ResvComplete'
    <3>1. resv \subseteq resv' /\ <<cur, k>> \in resv'
      BY <2>2
    <3>2. \A x : Withheld(x) => Withheld(x)'
      BY <3>1 DEF Withheld
    <3>3. \A x \in cur .. cur + Pow2[k] - 1 : \E c \in resv' : c[1] <= x /\ x < c[1] + Pow2[c[2]]
      BY <3>1, <1>3, <1>4
    <3>4. \A x \in s .. cur' - 1 : \E c \in resv' : c[1] <= x /\ x < c[1] + Pow2[c[2]]
      <4> SUFFICES ASSUME NEW x \in s .. cur' - 1
                   PROVE  \E c \in resv' : c[1] <= x /\ x < c[1] + Pow2[c[2]]
        OBVIOUS
      <4>0. cur' = cur + Pow2[k]
        BY <1>2 DEF k
      <4>1. CASE x < cur
        <5>1. x \in s .. cur - 1
          BY <4>0, <4>1, <1>3, <1>4
        <5> QED
          BY <5>1, <3>1, <1>1, <1>2 DEF ResvComplete, Withheld
      <4>2. CASE x >= cur
        <5>1. x \in cur .. cur + Pow2[k] - 1
          BY <4>0, <4>2, <1>3, <1>4
        <5> QED
          BY <5>1, <3>3
      <4> QED
        BY <4>1, <4>2, <1>3
    <3>5. \A n \in 1 .. nreg - 1 : \A x \in RegionPages(n) :
             \E c \in resv' : c[1] <= x /\ x < c[1] + Pow2[c[2]]
      BY <3>1, <1>1 DEF ResvComplete, Withheld
    <3> QED
      BY <3>4, <3>5, <1>2 DEF ResvComplete, Withheld, RegionPages, start_idx, end_idx
  <2>16. Cut'
    <3>1. BlockAtNext(s, 0) /\ BlockAtNext(e, 0)
      BY <2>11, <1>3, <1>5, Sizes
    <3>2. \A x \in Page : Base(x, 0) = x
      BY Sizes DEF Base, Page
    <3>3. CutToNext(s, 0) /\ CutToNext(e, 0)
      BY <3>1, <3>2, <1>3 DEF CutToNext
    <3>4. CutTo(start_idx(nreg), 0)' /\ CutTo(end_idx(nreg), 0)'
      BY <3>3, <1>2 DEF CutTo, CutToNext, BlockAt, BlockAtNext, start_idx, end_idx
    <3>5. start_idx(nreg)' <= cur' /\ nreg' <= Len(regions')
      BY <1>2, <1>3, <1>4 DEF start_idx, k
    <3> QED
      BY <3>4, <3>5, <1>2 DEF Cut
  <2>17. CallState'
    BY <1>2, <1>1, <1>4 DEF CallState, BootState
  <2> QED
    BY <2>3, <2>6, <2>10, <2>12, <2>14, <2>15, <2>16, <2>17, <1>1, <1>2 DEF IInv
<1>8. CASE ~ entry_in_list[cur]
  <2>1. UNCHANGED <<free_list, order, entry_in_list, resv>>
    BY <1>2, <1>8 DEF Take
  <2>2. TypeOK'
    BY <2>1, <1>1, <1>2, <1>6 DEF TypeOK
  <2>3. Blocks' = Blocks /\ FreeBlocks' = FreeBlocks
    BY <2>1, <1>2, <1>4 DEF Blocks, FreeBlocks
  <2>4. NoOverlap' /\ Aligned' /\ ListConsistent' /\ CallState'
    BY <2>1, <2>3, <1>1, <1>2, <1>4 DEF NoOverlap, Aligned, ListConsistent, CallState
  <2>5. BootState' /\ ResvInside'
    BY <2>1, <2>3, <1>1, <1>2, <1>4 DEF BootState, BlockAt, ResvInside, Begun, start_idx, end_idx
  <2>6. \A c \in FreeBlocks : c[1] # cur
    BY <1>1, <1>8 DEF ListConsistent
  <2>7. ASSUME NEW x \in cur .. cur' - 1 PROVE Withheld(x)
    <3>1. CASE k > 0
      <4>1. BlockAt(cur, k)
        BY <3>1, <1>1, <1>3, <1>4 DEF BootState
      <4>2. <<cur, k>> \in resv
        BY <4>1, <2>6, <1>3, <1>4 DEF BlockAt, FreeBlocks
      <4>3. cur <= x /\ x < cur + Pow2[k]
        BY <1>2, <1>3, <1>4
      <4> QED
        BY <4>2, <4>3 DEF Withheld
    <3>2. CASE k = 0
      <4>1. x = cur
        BY <3>2, <1>2, <1>3, Sizes
      <4>2. PICK j \in Orders : BlockAt(Base(cur, j), j)
        BY <1>1, <1>3, <1>4 DEF BootState
      <4> DEFINE h == Base(cur, j)
      <4>3. h \in Page /\ h <= cur /\ cur < h + Pow2[j] /\ h \in Nat /\ Pow2[j] \in Nat
        <5>1. h \in Page /\ h <= cur /\ cur < h + Pow2[j]
          BY <1>3, BaseBlock
        <5> QED
          BY <5>1, Sizes DEF Page
      <4>4. BlockAt(h, j)
        BY <4>2
      <4> HIDE DEF h
      <4>5. CASE <<h, j>> \in resv
        BY <4>1, <4>3, <4>5 DEF Withheld
      <4>6. CASE h \in free_list[j]
        <5> DEFINE c == <<"free", <<h, j>>>>
        <5>1. <<h, j>> \in FreeBlocks /\ c \in Blocks
          BY <4>3, <4>6 DEF FreeBlocks, Blocks
        <5>2. h < cur
          <6>1. h # cur
            BY <5>1, <2>6
          <6> QED
            BY <6>1, <4>3, <1>3
        <5>3. CASE cur = s
          <6>1. c[2][1] = h /\ c[2][2] = j /\ cur \in Int
            BY <1>3
          <6>2. /\ \A i \in Orders : cur \in free_list[i] => c = <<"free", <<cur, i>>>>
                /\ \A d \in resv : d[1] = cur => c = <<"resv", d>>
            BY <6>1, <5>1, <4>3, <1>1, NoOtherHead, Zenon
          <6>3. BlockAt(cur, 0) /\ 0 \in Orders
            BY <5>3, <1>5, Sizes
          <6>4. cur \notin free_list[0] /\ <<cur, 0>> \notin resv
            BY <6>2, <6>3, <5>2, <1>3, <4>3
          <6> QED
            BY <6>3, <6>4 DEF BlockAt
        <5>4. CASE cur # s
          <6>1. cur - 1 \in s .. cur - 1
            BY <5>4, <1>3
          <6>2. PICK d \in resv : d[1] <= cur - 1 /\ cur - 1 < d[1] + Pow2[d[2]]
            BY <6>1, <1>1, <1>2 DEF ResvComplete, Withheld
          <6>3. <<"resv", d>> \in Blocks /\ <<"resv", d>> # c
            BY <1>1, InBlocks
          <6>4. Apart(<<h, j>>, d)
            BY <6>3, <5>1, <1>1 DEF NoOverlap
          <6>5. d[1] \in Nat /\ Pow2[d[2]] \in Nat
            <7>1. d[1] \in Page /\ d[2] \in Orders
              BY <1>1 DEF TypeOK
            <7>2. Pow2[d[2]] \in Nat
              BY <7>1, Sizes
            <7> QED
              BY <7>1, <7>2 DEF Page
          <6> QED
            <7>1. h + Pow2[j] <= d[1] \/ d[1] + Pow2[d[2]] <= h
              BY <6>4 DEF Apart
            <7>2. /\ h \in Nat /\ Pow2[j] \in Nat /\ cur \in Nat
                  /\ h < cur /\ cur < h + Pow2[j]
              BY <5>2, <4>3, <1>3
            <7> QED
              BY <7>1, <7>2, <6>2, <6>5
        <5> QED
          BY <5>3, <5>4
      <4> QED
        BY <4>4, <4>5, <4>6 DEF BlockAt
    <3> QED
      BY <3>1, <3>2, <1>4, Sizes
  <2>8. ResvComplete'
    <3>1. \A x \in s .. cur' - 1 : Withheld(x)
      <4> SUFFICES ASSUME NEW x \in s .. cur' - 1 PROVE Withheld(x)
        OBVIOUS
      <4>1. CASE x < cur
        <5>1. x \in s .. cur - 1
          BY <4>1, <1>3
        <5> QED
          BY <5>1, <1>1, <1>2 DEF ResvComplete
      <4>2. CASE x >= cur
        <5>1. x \in cur .. cur' - 1
          BY <4>2, <1>3
        <5> QED
          BY <5>1, <2>7
      <4> QED
        BY <4>1, <4>2, <1>3
    <3> QED
      BY <3>1, <2>1, <1>1, <1>2 DEF ResvComplete, Withheld, RegionPages, start_idx, end_idx
  <2>9. Cut'
    <3>1. start_idx(nreg)' <= cur' /\ nreg' <= Len(regions')
      BY <1>2, <1>3, <1>4 DEF start_idx
    <3>2. CutTo(start_idx(nreg), 0)' /\ CutTo(end_idx(nreg), 0)'
      BY <2>1, <1>1, <1>2 DEF Cut, CutTo, BlockAt, start_idx, end_idx
    <3> QED
      BY <3>1, <3>2, <1>2 DEF Cut
  <2> QED
    BY <2>2, <2>4, <2>5, <2>8, <2>9, <1>1, <1>2 DEF IInv
<1> QED
  BY <1>7, <1>8

\* reserve returns.
LEMMA ReserveReturnInv ==
    ASSUME IInv, ReserveReturn
    PROVE  IInv'
<1>1. /\ pc = "take" /\ pc' = "boot" /\ cur > end_idx(nreg) /\ nreg' = nreg + 1 /\ cur' = 0
      /\ UNCHANGED <<free_list, order, entry_in_list, ord, want, regions, held, resv, orig>>
  BY DEF ReserveReturn, list
<1>2. /\ nreg \in 1 .. Len(regions) /\ start_idx(nreg) \in Nat /\ end_idx(nreg) \in Nat
      /\ cur \in Nat /\ Len(regions) \in Nat
  <2>1. nreg \in 1 .. Len(regions) /\ regions \in BootRegions /\ cur \in Nat
    BY <1>1 DEF IInv, Cut, TypeOK
  <2> QED
    BY <2>1, RegionFacts DEF Page
<1>3. TypeOK'
  <2>1. 0 \in 0 .. PAGE_NUM /\ nreg + 1 \in 1 .. Len(regions) + 1
    BY <1>2, Sizes
  <2> QED
    BY <1>1, <2>1 DEF IInv, TypeOK
<1>4. NoOverlap' /\ Aligned' /\ ListConsistent' /\ CallState'
  <2>1. Blocks' = Blocks /\ FreeBlocks' = FreeBlocks /\ Hand = {} /\ Hand' = {}
    BY <1>1 DEF Blocks, FreeBlocks, Hand
  <2> QED
    BY <2>1, <1>1 DEF IInv, NoOverlap, Aligned, ListConsistent, CallState
<1>5. BootState'
  BY <1>1 DEF IInv, BootState, Booting, BlockAt, FreeBlocks
<1>6. ResvInside'
  <2>1. Begun' = Begun
    BY <1>1, <1>2 DEF Begun
  <2> QED
    BY <2>1, <1>1 DEF IInv, ResvInside, start_idx, end_idx
<1>7. ResvComplete'
  <2>1. \A n \in 1 .. nreg - 1 : \A x \in RegionPages(n) : Withheld(x)
    BY DEF IInv, ResvComplete
  <2>2. \A x \in RegionPages(nreg) : Withheld(x)
    BY <1>1, <1>2 DEF IInv, ResvComplete, RegionPages
  <2>3. \A n \in 1 .. nreg' - 1 : n \in 1 .. nreg - 1 \/ n = nreg
    BY <1>1, <1>2
  <2>4. \A n \in 1 .. nreg' - 1 : \A x \in RegionPages(n) : Withheld(x)
    BY <2>1, <2>2, <2>3
  <2> QED
    BY <2>4, <1>1 DEF ResvComplete, RegionPages, Withheld, start_idx, end_idx
<1>8. Cut'
  BY <1>1 DEF Cut
<1> QED
  BY <1>1, <1>3, <1>4, <1>5, <1>6, <1>7, <1>8 DEF IInv

\* main() goes on after the last reserve.
LEMMA BootDoneInv ==
    ASSUME IInv, BootDone
    PROVE  IInv'
<1>1. /\ pc = "boot" /\ pc' = "idle" /\ nreg > Len(regions)
      /\ UNCHANGED <<free_list, order, entry_in_list, cur, ord, want, regions, nreg,
                     held, resv, orig>>
  BY DEF BootDone, list
<1>2. TypeOK'
  BY <1>1 DEF IInv, TypeOK
<1>3. NoOverlap' /\ Aligned' /\ ListConsistent' /\ CallState'
  <2>1. Blocks' = Blocks /\ FreeBlocks' = FreeBlocks /\ Hand = {} /\ Hand' = {}
    BY <1>1 DEF Blocks, FreeBlocks, Hand
  <2> QED
    BY <2>1, <1>1 DEF IInv, NoOverlap, Aligned, ListConsistent, CallState
<1>4. BootState' /\ ResvInside' /\ ResvComplete'
  BY <1>1 DEF IInv, BootState, Booting, ResvInside, Begun, start_idx, end_idx,
              ResvComplete, RegionPages, Withheld
<1>5. Cut'
  <2>1. nreg = Len(regions) + 1
    <3>1. nreg \in 1 .. Len(regions) + 1 /\ Len(regions) \in Nat
      BY RegionFacts DEF IInv, TypeOK
    <3>2. nreg > Len(regions)
      BY DEF BootDone
    <3> QED
      BY <3>1, <3>2
  <2> QED
    BY <2>1, <1>1 DEF Cut
<1> QED
  BY <1>1, <1>2, <1>3, <1>4, <1>5 DEF IInv

\* mm_init cuts memory into blocks of the largest order.
LEMMA InitInv ==
    ASSUME Init
    PROVE  IInv
<1> DEFINE M == MAX_BLOCK_SIZE
           T == MAX_ORDER - 1
<1>1. /\ M \in Nat \ {0} /\ M = Pow2[T] /\ T \in Orders /\ T \in Nat
      /\ 0 \in Page /\ 0 \in 0 .. PAGE_NUM /\ 0 \in Orders
  BY Sizes DEF MAX_BLOCK_SIZE, Page
<1>2. /\ free_list \in [Orders -> SUBSET Page]
      /\ \A k \in Orders : free_list[k] = IF k = T THEN {p \in Page : p % M = 0} ELSE {}
  BY <1>1 DEF Init
<1>3. /\ order \in [Page -> -1 .. MAX_ORDER - 1]
      /\ \A p \in Page : order[p] = IF p % M = 0 THEN T ELSE 0
  <2>1. T \in -1 .. MAX_ORDER - 1 /\ 0 \in -1 .. MAX_ORDER - 1
    BY <1>1
  <2> QED
    BY <2>1 DEF Init
<1>4. /\ entry_in_list \in [Page -> BOOLEAN]
      /\ \A p \in Page : entry_in_list[p] <=> p % M = 0
  BY DEF Init
<1>5. /\ regions \in BootRegions /\ nreg = 1 /\ pc = "boot" /\ held = {} /\ resv = {}
      /\ cur = 0 /\ ord = 0 /\ want = 0 /\ orig = <<0, 0>>
  BY DEF Init
<1>6. TypeOK
  <2>1. regions \in Seq(Nat \X Nat) /\ 1 \in 1 .. Len(regions) + 1
    BY <1>5, RegionAssumption, RegionFacts
  <2> QED
    BY <2>1, <1>1, <1>2, <1>3, <1>4, <1>5 DEF TypeOK
<1> HIDE DEF M, T
<1>7. FreeBlocks = {p \in Page : p % M = 0} \X {T}
  BY <1>1, <1>2 DEF FreeBlocks
<1>8. Hand = {} /\ Blocks = {"free"} \X FreeBlocks /\ Booting
  BY <1>5 DEF Hand, Blocks, Booting
<1>9. Aligned
  BY <1>1, <1>7, <1>8 DEF Aligned
<1>10. NoOverlap
  <2> SUFFICES ASSUME NEW b \in Blocks, NEW c \in Blocks, b # c
               PROVE  Apart(b[2], c[2])
    BY DEF NoOverlap
  <2>1. PICK p \in Page, q \in Page :
           b[2] = <<p, T>> /\ c[2] = <<q, T>> /\ p % M = 0 /\ q % M = 0 /\ p # q
    BY <1>7, <1>8
  <2>2. p \in Nat /\ q \in Nat
    BY Sizes DEF Page
  <2>3. PICK i \in Nat : p = M * i
    <3>1. PICK i \in Nat : \E r \in 0 .. M - 1 : p = M * i + r /\ i = p \div M /\ r = p % M
      BY <2>2, <1>1, DivMod, Zenon
    <3> QED
      BY <3>1, <2>1, <1>1
  <2>4. PICK j \in Nat : q = M * j
    <3>1. PICK j \in Nat : \E r \in 0 .. M - 1 : q = M * j + r /\ j = q \div M /\ r = q % M
      BY <2>2, <1>1, DivMod, Zenon
    <3> QED
      BY <3>1, <2>1, <1>1
  <2>5. i < j \/ j < i
    BY <2>1, <2>3, <2>4
  <2>6. \A u, v \in Nat : u < v => M * u + M <= M * v
    BY <1>1
  <2>7. p + M <= q \/ q + M <= p
    BY <2>3, <2>4, <2>5, <2>6
  <2> QED
    BY <2>1, <2>7, <1>1 DEF Apart
<1>11. ListConsistent
  BY <1>1, <1>3, <1>4, <1>7 DEF ListConsistent
<1>12. CallState
  BY <1>5 DEF CallState
<1>13. BootState
  <2>1. \A p \in Page : order[p] >= 0 /\ (entry_in_list[p] => <<p, order[p]>> \in FreeBlocks)
    BY <1>1, <1>3, <1>4, <1>7
  <2>2. \A p \in Page : order[p] > 0 => BlockAt(p, order[p])
    BY <1>1, <1>2, <1>3 DEF BlockAt
  <2>3. \A x \in Page : BlockAt(Base(x, T), T)
    BY <1>1, <1>2, BaseBlock DEF BlockAt
  <2> QED
    BY <2>1, <2>2, <2>3, <1>1, <1>5 DEF BootState
<1>14. ResvInside /\ ResvComplete /\ Cut
  BY <1>5 DEF ResvInside, ResvComplete, Cut
<1> QED
  BY <1>5, <1>6, <1>9, <1>10, <1>11, <1>12, <1>13, <1>14 DEF IInv

-----------------------------------------------------------------------------
(* The theorems *)

\* Every step of Buddy preserves the inductive invariant.
LEMMA StepInv ==
    ASSUME IInv, [Next]_vars
    PROVE  IInv'
<1>1. CASE Boot
  BY <1>1, ReserveCallInv, SplitStartInv, SplitEndInv, SplitDoneInv, TakeInv,
     ReserveReturnInv, BootDoneInv DEF Boot
<1>2. CASE Step
  BY <1>2, AllocSplitInv, AllocReturnInv, FreeMergeInv, FreeInsertInv,
     FreeMaxOrderInv DEF Step
<1>3. CASE UNCHANGED vars
  <2>1. TypeOK' /\ regions' \in BootRegions
    BY <1>3 DEF IInv, TypeOK, vars
  <2>2. Blocks' = Blocks /\ FreeBlocks' = FreeBlocks /\ Hand' = Hand
    BY <1>3 DEF vars, Blocks, FreeBlocks, Hand
  <2>3. NoOverlap' /\ Aligned' /\ ListConsistent' /\ CallState'
    BY <2>2, <1>3 DEF IInv, vars, NoOverlap, Aligned, ListConsistent, CallState
  <2>4. BootState' /\ ResvInside' /\ ResvComplete' /\ Cut'
    BY <2>2, <1>3 DEF IInv, vars, BootState, Booting, BlockAt, ResvInside, Begun,
       start_idx, end_idx, ResvComplete, RegionPages, Withheld, Cut, CutTo
  <2> QED
    BY <2>1, <2>3, <2>4 DEF IInv
<1>4. CASE Call
  <2>1. MAX_ALLOC_SIZE + 1 \in Nat
    <3>1. PAGE_SIZE \in Nat /\ MAX_BLOCK_SIZE \in Nat
      BY SizeAssumption, Sizes DEF MAX_BLOCK_SIZE
    <3> QED
      BY <3>1 DEF MAX_ALLOC_SIZE
  <2>2. ASSUME NEW size \in 0 .. MAX_ALLOC_SIZE + 1, Alloc(size) PROVE IInv'
    BY <2>1, <2>2, AllocInv
  <2>3. ASSUME NEW size \in 0 .. MAX_ALLOC_SIZE + 1, AllocNull(size) PROVE IInv'
    BY <2>3, <1>3 DEF AllocNull
  <2>4. ASSUME NEW b \in held, Free(b) PROVE IInv'
    BY <2>4, FreeInv
  <2>5. ASSUME NEW p \in Page, FreeIgnored(p) PROVE IInv'
    BY <2>5, <1>3 DEF FreeIgnored
  <2> QED
    BY <2>2, <2>3, <2>4, <2>5, <1>4 DEF Call
<1> QED
  BY <1>1, <1>2, <1>3, <1>4 DEF Next

\* The inductive invariant holds in every reachable state.
THEOREM Invariance == Spec => []IInv
<1>1. Init => IInv
  BY InitInv
<1>2. IInv /\ [Next]_vars => IInv'
  BY StepInv
<1> QED
  BY <1>1, <1>2, PTL DEF Spec

\* The state of the page allocator is well typed: indices stay inside page_list.
THEOREM TypeCorrect == Spec => []TypeOK
<1>1. IInv => TypeOK
  BY DEF IInv
<1> QED
  BY <1>1, Invariance, PTL

\* No page is ever in two blocks: not in two allocations, not in an allocation
\* and a boot region, not in an allocation and on a free list.
THEOREM NeverTwice == Spec => []NoOverlap
<1>1. IInv => NoOverlap
  BY DEF IInv
<1> QED
  BY <1>1, Invariance, PTL

\* free_list and page_list agree whenever no call is working on the block.
THEOREM ListsAgree == Spec => []ListConsistent
<1>1. IInv => ListConsistent
  BY DEF IInv
<1> QED
  BY <1>1, Invariance, PTL

\* page_list keeps the size of an allocated block until it is freed, and page 0,
\* whose address is NULL, is never allocated.
THEOREM AllocationsIntact == Spec => []HeldIntact
<1>1. IInv => HeldIntact
  <2> SUFFICES ASSUME IInv, NEW b \in held
               PROVE  b[1] # 0 /\ order[b[1]] = b[2] /\ ~ entry_in_list[b[1]]
    BY DEF HeldIntact
  <2>1. order[b[1]] = b[2] /\ ~ entry_in_list[b[1]]
    BY DEF IInv, CallState
  <2>2. b[1] # 0
    <3> SUFFICES ASSUME b[1] = 0 PROVE FALSE
      OBVIOUS
    <3>1. ~ Booting
      BY DEF IInv, BootState
    <3>2. nreg = Len(regions) + 1
      BY <3>1 DEF IInv, Cut, Booting, TypeOK
    <3>3. PICK n \in 1 .. Len(regions) : start_idx(n) = 0
      BY RegionFacts DEF IInv
    <3>4. end_idx(n) \in Nat /\ 0 \in RegionPages(n)
      BY <3>3, RegionFacts DEF IInv, RegionPages, Page
    <3>5. n \in 1 .. nreg - 1
      BY <3>2, RegionFacts DEF IInv
    <3>6. PICK c \in resv : c[1] <= 0 /\ 0 < c[1] + Pow2[c[2]]
      BY <3>4, <3>5 DEF IInv, ResvComplete, Withheld
    <3>7. <<"resv", c>> \in Blocks
      BY InBlocks DEF IInv
    <3>8. <<"resv", c>> = <<"held", b>>
      <4> DEFINE d == <<"resv", c>>
      <4>1. d \in Blocks /\ d[2][1] <= 0 /\ 0 < d[2][1] + Pow2[d[2][2]] /\ 0 \in Int
        BY <3>6, <3>7
      <4> HIDE DEF d
      <4>2. \A a \in held : a[1] = 0 => d = <<"held", a>>
        BY <4>1, NoOtherHead, Zenon DEF IInv
      <4> QED
        BY <4>2 DEF d
    <3> QED
      BY <3>8
  <2> QED
    BY <2>1, <2>2
<1> QED
  BY <1>1, Invariance, PTL

\* Between the calls of reserve, and after them, the withheld pages are those of
\* the regions reserve is done with.
LEMMA ReservedPages ==
    ASSUME IInv, pc \in {"boot", "idle", "alloc", "free"}
    PROVE  PagesOf(resv) = UNION {RegionPages(n) : n \in 1 .. nreg - 1}
<1>1. Begun = 1 .. nreg - 1
  BY DEF Begun
<1>2. \A b \in resv : b[1] \in Nat /\ Pow2[b[2]] \in Nat
  <2>1. \A b \in resv : b[1] \in Page /\ b[2] \in Orders
    BY DEF IInv, TypeOK
  <2>2. \A k \in Orders : Pow2[k] \in Nat
    BY Sizes
  <2>3. \A y \in Page : y \in Nat
    BY DEF Page
  <2> QED
    BY <2>1, <2>2, <2>3
<1>3. \A n \in 1 .. nreg - 1 : start_idx(n) \in Nat /\ end_idx(n) \in Nat
  <2>1. regions \in BootRegions
    BY DEF IInv
  <2>2. 1 .. nreg - 1 \subseteq 1 .. Len(regions)
    <3>1. nreg \in 1 .. Len(regions) + 1 /\ Len(regions) \in Nat
      BY <2>1, RegionFacts DEF IInv, TypeOK
    <3> QED
      BY <3>1
  <2> QED
    BY <2>1, <2>2, RegionNat, Zenon
<1>4. ASSUME NEW x, x \in PagesOf(resv)
      PROVE  x \in UNION {RegionPages(n) : n \in 1 .. nreg - 1}
  <2>1. PICK b \in resv : x \in b[1] .. b[1] + Pow2[b[2]] - 1
    BY <1>4 DEF PagesOf, Pages
  <2>2. PICK n \in 1 .. nreg - 1 : start_idx(n) <= b[1] /\ b[1] + Pow2[b[2]] - 1 <= end_idx(n)
    BY <1>1 DEF IInv, ResvInside
  <2>3. x \in RegionPages(n)
    BY <2>1, <2>2, <1>2, <1>3 DEF RegionPages
  <2> QED
    BY <2>3
<1>5. ASSUME NEW x, x \in UNION {RegionPages(n) : n \in 1 .. nreg - 1}
      PROVE  x \in PagesOf(resv)
  <2>1. PICK n \in 1 .. nreg - 1 : x \in RegionPages(n)
    BY <1>5
  <2>2. PICK b \in resv : b[1] <= x /\ x < b[1] + Pow2[b[2]]
    BY <2>1 DEF IInv, ResvComplete, Withheld
  <2>3. x \in Int
    BY <2>1, <1>3 DEF RegionPages
  <2>4. x \in Pages(b)
    BY <2>2, <2>3, <1>2 DEF Pages
  <2> QED
    BY <2>4 DEF PagesOf
<1> QED
  BY <1>4, <1>5

\* Between and after the calls of reserve exactly the pages of the regions passed
\* to it are withheld, for every list of regions that share no byte.
THEOREM ReserveExact == Spec => []ReservedExactly
<1>1. IInv => ReservedExactly
  <2> SUFFICES ASSUME IInv, pc \in {"boot", "idle", "alloc", "free"}
               PROVE  PagesOf(resv) = UNION {TouchedPages(n) : n \in 1 .. nreg - 1}
    BY DEF ReservedExactly
  <2>1. /\ nreg \in 1 .. Len(regions) + 1 /\ Len(regions) \in Nat
        /\ regions \in BootRegions
    BY RegionFacts DEF IInv, TypeOK
  <2>2. 1 .. nreg - 1 \subseteq 1 .. Len(regions)
    BY <2>1
  <2>3. \A n \in 1 .. nreg - 1 : TouchedPages(n) = RegionPages(n)
    BY <2>1, <2>2, RegionRounding, Zenon
  <2> QED
    BY <2>3, ReservedPages
<1> QED
  BY <1>1, Invariance, PTL

-----------------------------------------------------------------------------
(* Coalescing: no two halves of a block are both listed *)

\* The two halves of an aligned block of order k + 1 are both listed.
Mergeable(p, k) ==
    p % Pow2[k + 1] = 0 /\ p \in free_list[k] /\ p + Pow2[k] \in free_list[k]

\* Only reserve leaves such halves behind: its split loop cuts one of them again
\* in a later iteration, or its removal loop takes one of them off the list.
Pending(p, k) ==
    LET s == start_idx(nreg)
        e == end_idx(nreg)
    IN \/ /\ pc = "split_start" /\ k = ord
          /\ p = Base(s, k + 1) \/ p = Base(e, k + 1)
       \/ /\ pc = "split_end"
          /\ \/ k = ord - 1 /\ p = Base(s, k + 1)
             \/ k = ord /\ p = Base(e, k + 1)
       \/ /\ pc = "take" /\ k = 0
          /\ \/ cur <= s /\ p = Base(s, 1)
             \/ cur <= e /\ p = Base(e, 1)

Coalesced == \A k \in 0 .. MAX_ORDER - 2 : \A p \in Page :
                Mergeable(p, k) => Pending(p, k)

\* The upper of two buddies is not aligned for the double size, and its quotient
\* by the block size is odd.
LEMMA UpperHalf ==
    ASSUME NEW x \in Nat, NEW P \in Nat \ {0}, NEW Q \in Nat \ {0}, Q = 2 * P,
           x % Q = 0
    PROVE  ((x + P) \div P) % 2 = 1 /\ (x + P) % Q # 0
<1>1. PICK q \in Nat : \E r \in 0 .. Q - 1 :
              x = Q * q + r /\ q = x \div Q /\ r = x % Q
  BY DivMod, Zenon
<1>2. x = Q * q
  BY <1>1
<1>3. x + P = P * (2 * q + 1) /\ 2 * q + 1 \in Int
  BY <1>2
<1>4. (x + P) \div P = 2 * q + 1
  BY <1>3, MultMod, Zenon
<1>5. (2 * q + 1) % 2 = 1
  OBVIOUS
<1>6. (Q * q + P) % Q = P
  <2>1. P \in 0 .. Q - 1 /\ q \in Int
    OBVIOUS
  <2> QED
    BY <2>1, DivModUnique, Zenon
<1>7. (x + P) % Q = P
  BY <1>2, <1>6, Zenon
<1> QED
  BY <1>4, <1>5, <1>7

\* An order below the largest has a next one.
LEMMA NextOrder ==
    ASSUME NEW k \in 0 .. MAX_ORDER - 2
    PROVE  /\ k \in Orders /\ k + 1 \in Orders /\ k + 1 > 0 /\ k < MAX_ORDER - 1
           /\ (k + 1) - 1 = k
           /\ Pow2[k] \in Nat \ {0} /\ Pow2[k + 1] \in Nat \ {0}
           /\ Pow2[k + 1] = 2 * Pow2[k]
<1>1. k \in Orders /\ k < MAX_ORDER - 1 /\ k \in Nat
  BY Sizes DEF Orders
<1>2. k + 1 \in Orders /\ Pow2[k + 1] = 2 * Pow2[k]
  BY <1>1, Sizes
<1> QED
  BY <1>1, <1>2, Sizes

\* Of the two halves of a block of order k + 1 get_buddy gives the other one.
LEMMA BuddiesOfHalves ==
    ASSUME NEW p \in Page, NEW k \in 0 .. MAX_ORDER - 2, p % Pow2[k + 1] = 0
    PROVE  /\ get_buddy(p, k) = p + Pow2[k] /\ get_buddy(p + Pow2[k], k) = p
           /\ p + Pow2[k] \in Page /\ p % Pow2[k] = 0 /\ (p + Pow2[k]) % Pow2[k] = 0
           /\ (p + Pow2[k]) % Pow2[k + 1] # 0
<1>1. /\ k \in Orders /\ k + 1 \in Orders /\ k + 1 > 0 /\ (k + 1) - 1 = k
      /\ Pow2[k] \in Nat \ {0} /\ Pow2[k + 1] \in Nat \ {0}
      /\ Pow2[k + 1] = 2 * Pow2[k]
  BY NextOrder
<1>2. /\ get_buddy(p, (k + 1) - 1) = p + Pow2[(k + 1) - 1]
      /\ p + Pow2[(k + 1) - 1] \in Page
      /\ p % Pow2[(k + 1) - 1] = 0
      /\ (p + Pow2[(k + 1) - 1]) % Pow2[(k + 1) - 1] = 0
  BY <1>1, SplitBlock, Zenon
<1>3. /\ get_buddy(p, k) = p + Pow2[k] /\ p + Pow2[k] \in Page
      /\ p % Pow2[k] = 0 /\ (p + Pow2[k]) % Pow2[k] = 0
  BY <1>1, <1>2, Zenon
<1>4. p \in Nat
  BY DEF Page
<1>5. ((p + Pow2[k]) \div Pow2[k]) % 2 = 1 /\ (p + Pow2[k]) % Pow2[k + 1] # 0
  BY <1>1, <1>4, UpperHalf, Zenon
<1>6. (p + Pow2[k]) - Pow2[k] = p
  BY <1>1, <1>4
<1>7. get_buddy(p + Pow2[k], k) = p
  <2>1. ((p + Pow2[k]) \div Pow2[k]) % 2 # 0
    BY <1>5
  <2> QED
    BY <2>1, <1>6, Zenon DEF get_buddy
<1> QED
  BY <1>3, <1>5, <1>7, Zenon

\* A step that lists no block leaves no new halves.
LEMMA ListsShrink ==
    ASSUME NEW k, NEW p, free_list'[k] \subseteq free_list[k], Mergeable(p, k)'
    PROVE  Mergeable(p, k)
BY DEF Mergeable

\* A step that lists one block can only bring that block together with its other half.
LEMMA ListsGrow ==
    ASSUME NEW k \in 0 .. MAX_ORDER - 2, NEW p \in Page, NEW c \in Page,
           free_list'[k] \subseteq free_list[k] \cup {c},
           Mergeable(p, k)', ~ Mergeable(p, k)
    PROVE  \/ p = c /\ c + Pow2[k] \in free_list[k]
           \/ p + Pow2[k] = c /\ p \in free_list[k]
<1>1. Pow2[k] \in Nat \ {0} /\ p \in Nat /\ c \in Nat
  BY NextOrder DEF Page
<1>2. p % Pow2[k + 1] = 0 /\ p \in free_list'[k] /\ p + Pow2[k] \in free_list'[k]
  BY DEF Mergeable
<1>3. p + Pow2[k] # p
  BY <1>1
<1>4. p \notin free_list[k] \/ p + Pow2[k] \notin free_list[k]
  BY <1>2 DEF Mergeable
<1> QED
  BY <1>2, <1>3, <1>4

\* What one split of reserve does to the lists, at one end x of its region.
LEMMA SplitLists ==
    ASSUME IInv, pc \in {"split_start", "split_end"}, ord > 0,
           NEW x \in {start_idx(nreg), end_idx(nreg)}, x \in Page,
           SplitIfWhole(Base(x, ord))
    PROVE  /\ Base(x, ord) \notin free_list'[ord]
           /\ \A k \in 0 .. MAX_ORDER - 2 : \A p \in Page : Mergeable(p, k)' =>
                 Mergeable(p, k) \/ (k = ord - 1 /\ p = Base(x, ord))
<1> DEFINE h == Base(x, ord)
           P == Pow2[ord - 1]
<1>1. TypeOK /\ ListConsistent /\ ord \in Orders /\ h \in Page /\ h % Pow2[ord] = 0
  BY BaseBlock DEF IInv, TypeOK
<1>2. /\ ord - 1 \in Orders /\ get_buddy(h, ord - 1) = h + P /\ h + P \in Page
      /\ ord - 1 # ord /\ ord - 1 \in 0 .. MAX_ORDER - 2 /\ (ord - 1) + 1 = ord
  <2>1. ord - 1 \in Orders /\ get_buddy(h, ord - 1) = h + P /\ h + P \in Page
    BY <1>1, SplitBlock, Zenon
  <2>2. ord \in Nat /\ ord <= MAX_ORDER - 1 /\ MAX_ORDER \in Nat
    BY <1>1, Sizes
  <2> QED
    BY <2>1, <2>2
<1>3. CASE order[h] # ord
  <2>1. free_list' = free_list
    BY <1>3 DEF SplitIfWhole, list
  <2>2. h \notin free_list[ord]
    <3> HIDE DEF h
    <3> SUFFICES ASSUME h \in free_list[ord] PROVE FALSE
      OBVIOUS
    <3>1. <<h, ord>> \in FreeBlocks
      BY <1>1 DEF FreeBlocks
    <3> QED
      BY <3>1, <1>1, <1>3 DEF ListConsistent
  <2> QED
    BY <2>1, <2>2 DEF Mergeable
<1>4. CASE order[h] = ord
  <2>1. split(h, ord)
    BY <1>4 DEF SplitIfWhole
  <2>2. free_list' = [[[free_list EXCEPT ![ord] = @ \ {h}]
                         EXCEPT ![ord - 1] = @ \cup {h}] EXCEPT ![ord - 1] = @ \cup {h + P}]
    <3> HIDE DEF h, P
    <3> QED
      BY <2>1, <1>1, <1>2, Zenon DEF split, add_to_free_list, rm_from_free_list
  <2> HIDE DEF h, P
  <2>3. /\ free_list'[ord] = free_list[ord] \ {h}
        /\ free_list'[ord - 1] = free_list[ord - 1] \cup {h, h + P}
        /\ \A k \in Orders : k # ord /\ k # ord - 1 => free_list'[k] = free_list[k]
    BY <2>2, <1>1, <1>2 DEF TypeOK
  <2>4. ASSUME NEW k \in 0 .. MAX_ORDER - 2, NEW p \in Page, Mergeable(p, k)'
        PROVE  Mergeable(p, k) \/ (k = ord - 1 /\ p = h)
    <3>1. CASE k # ord - 1
      <4>1. free_list'[k] \subseteq free_list[k]
        BY <3>1, <2>3, NextOrder
      <4> QED
        BY <4>1, <2>4, ListsShrink
    <3>2. CASE k = ord - 1
      <4>1. /\ p % Pow2[ord] = 0 /\ p \in free_list[k] \cup {h, h + P}
            /\ p + P \in free_list[k] \cup {h, h + P}
        BY <3>2, <2>3, <2>4, <1>2 DEF Mergeable, P
      <4>2. (p + P) % Pow2[ord] # 0 /\ (h + P) % Pow2[ord] # 0
        <5>1. (p + Pow2[k]) % Pow2[k + 1] # 0 /\ (h + Pow2[k]) % Pow2[k + 1] # 0
          <6>1. k + 1 = ord
            BY <3>2, <1>2
          <6>2. p % Pow2[k + 1] = 0 /\ h % Pow2[k + 1] = 0
            BY <6>1, <4>1, <1>1
          <6> QED
            BY <6>2, <1>1, BuddiesOfHalves, Zenon
        <5> QED
          BY <5>1, <3>2, <1>2, Zenon DEF P
      <4>3. p # h + P /\ p + P # h
        BY <4>1, <4>2, <1>1
      <4>4. p \in Nat /\ h \in Nat /\ P \in Nat
        BY <1>1, <1>2, Sizes DEF Page, P
      <4>5. p + P = h + P => p = h
        BY <4>4
      <4>6. p = h \/ (p \in free_list[k] /\ p + P \in free_list[k])
        BY <4>1, <4>3, <4>5
      <4> QED
        BY <4>6, <4>1, <3>2, <1>2 DEF Mergeable, P
    <3> QED
      BY <3>1, <3>2
  <2> QED
    BY <2>3, <2>4 DEF h
<1> QED
  BY <1>3, <1>4

\* Outside reserve no halves wait to be merged, so a step that lists no block
\* leaves none.
LEMMA QuietStep ==
    ASSUME Coalesced, pc \notin {"split_start", "split_end", "take"},
           \A k \in Orders : free_list'[k] \subseteq free_list[k]
    PROVE  Coalesced'
<1> SUFFICES ASSUME NEW k \in 0 .. MAX_ORDER - 2, NEW p \in Page, Mergeable(p, k)'
             PROVE  FALSE
  BY DEF Coalesced
<1>1. Mergeable(p, k)
  BY NextOrder, ListsShrink
<1> QED
  BY <1>1 DEF Coalesced, Pending

\* The ends of the region that reserve is working on.
LEMMA RegionEnds ==
    ASSUME IInv, pc \in {"split_start", "split_end", "take"}
    PROVE  /\ start_idx(nreg) \in Page /\ end_idx(nreg) \in Page
           /\ start_idx(nreg) \in Nat /\ end_idx(nreg) \in Nat
           /\ start_idx(nreg) <= end_idx(nreg)
<1>1. nreg \in 1 .. Len(regions) /\ regions \in BootRegions
  <2>1. /\ nreg \in 1 .. Len(regions) + 1 /\ nreg <= Len(regions)
        /\ Len(regions) \in Nat /\ regions \in BootRegions
    BY RegionFacts DEF IInv, Cut, TypeOK
  <2> QED
    BY <2>1
<1> QED
  BY <1>1, RegionFacts, RegionNat, Zenon

\* The block of order k around a page is a half of the one of order k + 1.
LEMMA HalfAround ==
    ASSUME NEW x \in Page, NEW k \in 0 .. MAX_ORDER - 2
    PROVE  Base(x, k) \in {Base(x, k + 1), Base(x, k + 1) + Pow2[k]}
<1>1. Base(x, (k + 1) - 1) \in {Base(x, k + 1), Base(x, k + 1) + Pow2[(k + 1) - 1]}
  BY NextOrder, HalfBlock
<1> QED
  BY <1>1, NextOrder

\* reserve splits the block around the start of its region.
LEMMA SplitStartCoalesced ==
    ASSUME IInv, Coalesced, SplitStart
    PROVE  Coalesced'
<1> DEFINE s == start_idx(nreg)
           e == end_idx(nreg)
<1>1. /\ pc = "split_start" /\ ord > 0 /\ pc' = "split_end"
      /\ SplitIfWhole(Base(s, ord))
      /\ UNCHANGED <<ord, regions, nreg>>
  BY DEF SplitStart
<1>2. s \in Page /\ e \in Page /\ ord \in Orders /\ ord \in Nat
  BY <1>1, RegionEnds, Sizes DEF IInv, TypeOK
<1>3. /\ Base(s, ord) \notin free_list'[ord]
      /\ \A k \in 0 .. MAX_ORDER - 2 : \A p \in Page : Mergeable(p, k)' =>
            Mergeable(p, k) \/ (k = ord - 1 /\ p = Base(s, ord))
  <2>1. pc \in {"split_start", "split_end"} /\ s \in {start_idx(nreg), end_idx(nreg)}
    BY <1>1
  <2> QED
    BY <2>1, <1>1, <1>2, SplitLists, Zenon
<1>4. start_idx(nreg)' = s /\ end_idx(nreg)' = e
  BY <1>1 DEF start_idx, end_idx
<1> SUFFICES ASSUME NEW k \in 0 .. MAX_ORDER - 2, NEW p \in Page, Mergeable(p, k)'
             PROVE  Pending(p, k)'
  BY DEF Coalesced
<1>5. CASE k = ord - 1 /\ p = Base(s, ord)
  <2>1. k + 1 = ord
    BY <1>5, <1>2
  <2> QED
    BY <2>1, <1>1, <1>4, <1>5 DEF Pending, Base
<1>6. CASE Mergeable(p, k)
  <2>1. Pending(p, k)
    BY <1>6 DEF Coalesced
  <2>2. k = ord /\ (p = Base(s, k + 1) \/ p = Base(e, k + 1))
    BY <2>1, <1>1 DEF Pending
  <2>3. p # Base(s, k + 1)
    <3> SUFFICES ASSUME p = Base(s, k + 1) PROVE FALSE
      OBVIOUS
    <3>1. Base(s, k) \in {p, p + Pow2[k]}
      BY <1>2, HalfAround
    <3>2. Base(s, k) \in free_list'[k]
      BY <3>1 DEF Mergeable
    <3> QED
      BY <3>2, <2>2, <1>3
  <2>4. p = Base(e, k + 1) /\ k = ord
    BY <2>2, <2>3
  <2> QED
    BY <2>4, <1>1, <1>4 DEF Pending, Base
<1> QED
  BY <1>3, <1>5, <1>6

\* reserve splits the block around the end of its region, unless it is the same.
LEMMA SplitEndCoalesced ==
    ASSUME IInv, Coalesced, SplitEnd
    PROVE  Coalesced'
<1> DEFINE s == start_idx(nreg)
           e == end_idx(nreg)
<1>1. /\ pc = "split_end" /\ ord > 0 /\ pc' = "split_start" /\ ord' = ord - 1
      /\ UNCHANGED <<regions, nreg>> /\ CutTo(s, ord - 1)
  BY DEF SplitEnd, IInv, Cut
<1>2. s \in Page /\ e \in Page /\ ord \in Orders /\ ord \in Nat
  BY <1>1, RegionEnds, Sizes DEF IInv, TypeOK
<1>3. start_idx(nreg)' = s /\ end_idx(nreg)' = e
  BY <1>1 DEF start_idx, end_idx
<1>4. Base(e, ord) \notin free_list'[ord]
      /\ \A k \in 0 .. MAX_ORDER - 2 : \A p \in Page : Mergeable(p, k)' =>
            Mergeable(p, k) \/ (k = ord - 1 /\ p = Base(e, ord))
  <2>1. CASE Base(s, ord) # Base(e, ord)
    <3>1. pc \in {"split_start", "split_end"} /\ e \in {start_idx(nreg), end_idx(nreg)}
      BY <1>1
    <3>2. SplitIfWhole(Base(e, ord))
      BY <2>1 DEF SplitEnd
    <3> QED
      BY <3>1, <3>2, <1>1, <1>2, SplitLists, Zenon
  <2>2. CASE Base(s, ord) = Base(e, ord)
    <3>1. free_list' = free_list
      BY <2>2 DEF SplitEnd, list
    <3>2. PICK j \in 0 .. ord - 1 : BlockAt(Base(s, j), j)
      BY <1>1 DEF CutTo
    <3>3. ASSUME Base(s, ord) \in free_list[ord] PROVE FALSE
      <4>1. j \in Orders /\ j # ord
        BY <1>2, Sizes DEF Orders
      <4>2. PICK o \in {"free", "resv"} : <<o, <<Base(s, j), j>>>> \in Blocks
        BY <3>2, <4>1, <1>2, BaseBlock, InBlocks DEF BlockAt, IInv
      <4>3. <<"free", <<Base(s, ord), ord>>>> \in Blocks
        BY <3>3, <1>2, BaseBlock, InBlocks DEF IInv
      <4>4. Apart(<<Base(s, j), j>>, <<Base(s, ord), ord>>)
        BY <4>1, <4>2, <4>3 DEF IInv, NoOverlap
      <4>5. /\ Base(s, j) <= s /\ s < Base(s, j) + Pow2[j]
            /\ Base(s, ord) <= s /\ s < Base(s, ord) + Pow2[ord]
            /\ Base(s, j) \in Page /\ Base(s, ord) \in Page
        BY <4>1, <1>2, BaseBlock
      <4> HIDE DEF s
      <4>6. /\ s \in Nat /\ Base(s, j) \in Nat /\ Base(s, ord) \in Nat
            /\ Pow2[j] \in Nat /\ Pow2[ord] \in Nat
        BY <4>1, <4>5, <1>2, Sizes DEF Page
      <4> QED
        BY <4>4, <4>5, <4>6 DEF Apart
    <3> QED
      BY <3>1, <3>3, <2>2 DEF Mergeable
  <2> QED
    BY <2>1, <2>2
<1> SUFFICES ASSUME NEW k \in 0 .. MAX_ORDER - 2, NEW p \in Page, Mergeable(p, k)'
             PROVE  Pending(p, k)'
  BY DEF Coalesced
<1>5. CASE k = ord - 1 /\ p = Base(e, ord)
  <2>1. k + 1 = ord
    BY <1>5, <1>2
  <2> QED
    BY <2>1, <1>1, <1>3, <1>5 DEF Pending, Base
<1>6. CASE Mergeable(p, k)
  <2>1. Pending(p, k)
    BY <1>6 DEF Coalesced
  <2>2. (k = ord - 1 /\ p = Base(s, k + 1)) \/ (k = ord /\ p = Base(e, k + 1))
    BY <2>1, <1>1 DEF Pending
  <2>3. ~ (k = ord /\ p = Base(e, k + 1))
    <3> SUFFICES ASSUME k = ord, p = Base(e, k + 1) PROVE FALSE
      OBVIOUS
    <3>1. Base(e, k) \in {p, p + Pow2[k]}
      BY <1>2, HalfAround
    <3>2. Base(e, k) \in free_list'[k]
      BY <3>1 DEF Mergeable
    <3> QED
      BY <3>2, <1>4
  <2> QED
    BY <2>2, <2>3, <1>1, <1>3 DEF Pending, Base
<1> QED
  BY <1>4, <1>5, <1>6

\* The split loop of reserve ends: only halves of one page are left.
LEMMA SplitDoneCoalesced ==
    ASSUME IInv, Coalesced, SplitDone
    PROVE  Coalesced'
<1> DEFINE s == start_idx(nreg)
           e == end_idx(nreg)
<1>1. /\ pc = "split_start" /\ ord = 0 /\ pc' = "take" /\ cur' = s
      /\ UNCHANGED <<free_list, regions, nreg>>
  BY DEF SplitDone, list
<1>2. s \in Nat /\ e \in Nat /\ s <= e
  BY <1>1, RegionEnds
<1>3. start_idx(nreg)' = s /\ end_idx(nreg)' = e
  BY <1>1 DEF start_idx, end_idx
<1> SUFFICES ASSUME NEW k \in 0 .. MAX_ORDER - 2, NEW p \in Page, Mergeable(p, k)'
             PROVE  Pending(p, k)'
  BY DEF Coalesced
<1>4. Pending(p, k)
  BY <1>1 DEF Coalesced, Mergeable
<1>5. k = 0 /\ (p = Base(s, 1) \/ p = Base(e, 1))
  BY <1>1, <1>4 DEF Pending
<1>6. cur' <= s /\ cur' <= e
  BY <1>1, <1>2
<1> HIDE DEF s, e
<1> QED
  BY <1>1, <1>3, <1>5, <1>6 DEF Pending, Base

\* reserve takes the block at i off its list, or passes a page already taken.
LEMMA TakeCoalesced ==
    ASSUME IInv, Coalesced, Take
    PROVE  Coalesced'
<1> DEFINE s == start_idx(nreg)
           e == end_idx(nreg)
<1>1. /\ TypeOK /\ NoOverlap /\ Aligned /\ ListConsistent /\ BootState /\ Cut
      /\ pc = "take" /\ pc' = "take" /\ cur <= e /\ cur' = cur + Pow2[order[cur]]
      /\ UNCHANGED <<order, regions, nreg>> /\ Booting
  BY DEF IInv, Take, Booting
<1>2. /\ s \in Nat /\ e \in Nat /\ s <= e /\ s <= cur /\ s \in Page /\ e \in Page
      /\ cur \in Nat /\ cur \in Page
  <2>1. /\ s \in Nat /\ e \in Nat /\ s <= e /\ s <= cur /\ s \in Page /\ e \in Page
        /\ cur \in Nat
    BY <1>1, RegionEnds DEF Cut, TypeOK
  <2> QED
    BY <2>1, <1>1, Sizes DEF Page
<1>3. start_idx(nreg)' = s /\ end_idx(nreg)' = e
  BY <1>1 DEF start_idx, end_idx
<1>4. \A k \in Orders : free_list'[k] \subseteq free_list[k] \ {cur}
  <2> SUFFICES ASSUME NEW k \in Orders PROVE free_list'[k] \subseteq free_list[k] \ {cur}
    OBVIOUS
  <2>1. cur \in free_list[k] => entry_in_list[cur] /\ order[cur] = k
    <3>1. cur \in free_list[k] => <<cur, k>> \in FreeBlocks
      BY <1>2 DEF FreeBlocks
    <3> QED
      BY <3>1, <1>1 DEF ListConsistent
  <2>2. CASE ~ entry_in_list[cur]
    BY <2>1, <2>2 DEF Take
  <2>3. CASE entry_in_list[cur]
    <3>1. order[cur] \in Orders
      BY <1>1, <1>2, <2>3 DEF BootState, FreeBlocks
    <3>2. free_list' = [free_list EXCEPT ![order[cur]] = @ \ {cur}]
      BY <3>1, <2>3 DEF Take, rm_from_free_list
    <3> QED
      BY <3>2, <2>1, <1>1 DEF TypeOK
  <2> QED
    BY <2>2, <2>3
<1> SUFFICES ASSUME NEW k \in 0 .. MAX_ORDER - 2, NEW p \in Page, Mergeable(p, k)'
             PROVE  Pending(p, k)'
  BY DEF Coalesced
<1>5. Mergeable(p, k) /\ p \in free_list'[k] /\ p + Pow2[k] \in free_list'[k]
  BY <1>4, NextOrder DEF Mergeable
<1>6. k = 0 /\ ((cur <= s /\ p = Base(s, 1)) \/ (cur <= e /\ p = Base(e, 1)))
  BY <1>5, <1>1 DEF Coalesced, Pending
<1>7. ASSUME NEW x \in Page, p = Base(x, 1) PROVE x \in free_list[0] /\ x # cur
  <2>1. Base(x, 0) = x
    BY Sizes DEF Base, Page
  <2>2. Base(x, k) \in {p, p + Pow2[k]}
    BY <1>6, <1>7, HalfAround
  <2>3. x \in free_list'[0]
    BY <2>1, <2>2, <1>5, <1>6
  <2> QED
    BY <2>3, <1>4, Sizes
<1>8. CASE cur <= s /\ p = Base(s, 1)
  <2>1. cur = s
    BY <1>8, <1>2
  <2> QED
    BY <2>1, <1>2, <1>7, <1>8
<1>9. CASE cur <= e /\ p = Base(e, 1)
  <2>1. e \in free_list[0] /\ cur < e
    BY <1>9, <1>2, <1>7
  <2>2. order[cur] \in Orders
    <3>1. order[cur] >= 0 /\ order[cur] \in -1 .. MAX_ORDER - 1
      BY <1>1, <1>2 DEF BootState, TypeOK
    <3> QED
      BY <3>1, Sizes DEF Orders
  <2>3. cur + Pow2[order[cur]] <= e
    <3>1. CASE order[cur] = 0
      BY <3>1, <2>1, <1>2, Sizes
    <3>2. CASE order[cur] > 0
      <4>1. BlockAt(cur, order[cur])
        BY <3>2, <1>1, <1>2 DEF BootState
      <4>2. PICK o \in {"free", "resv"} : <<o, <<cur, order[cur]>>>> \in Blocks
        BY <4>1, <2>2, <1>1, <1>2, InBlocks DEF BlockAt
      <4>3. <<"free", <<e, 0>>>> \in Blocks
        BY <2>1, <1>1, <1>2, Sizes, InBlocks
      <4>4. Apart(<<cur, order[cur]>>, <<e, 0>>)
        <5>1. <<o, <<cur, order[cur]>>>> # <<"free", <<e, 0>>>>
          BY <2>1, <1>2
        <5> QED
          BY <5>1, <4>2, <4>3, <1>1 DEF NoOverlap
      <4> HIDE DEF e
      <4>5. Pow2[order[cur]] \in Nat
        BY <2>2, Sizes
      <4> QED
        BY <4>4, <4>5, <2>1, <1>2, Sizes DEF Apart
    <3> QED
      BY <3>1, <3>2, <2>2, Sizes
  <2> HIDE DEF s, e
  <2> QED
    BY <2>3, <1>1, <1>3, <1>6, <1>9 DEF Pending, Base
<1> QED
  BY <1>6, <1>8, <1>9

\* reserve returns: it has passed both ends of its region.
LEMMA ReserveReturnCoalesced ==
    ASSUME IInv, Coalesced, ReserveReturn
    PROVE  Coalesced'
<1>1. /\ pc = "take" /\ cur > end_idx(nreg) /\ free_list' = free_list
      /\ cur \in Nat
  BY DEF ReserveReturn, list, IInv, TypeOK
<1>2. /\ start_idx(nreg) \in Nat /\ end_idx(nreg) \in Nat
      /\ start_idx(nreg) <= end_idx(nreg)
  BY <1>1, RegionEnds
<1> SUFFICES ASSUME NEW k \in 0 .. MAX_ORDER - 2, NEW p \in Page, Mergeable(p, k)'
             PROVE  FALSE
  BY DEF Coalesced
<1>3. Pending(p, k)
  BY <1>1 DEF Coalesced, Mergeable
<1>4. cur <= start_idx(nreg) \/ cur <= end_idx(nreg)
  BY <1>1, <1>3 DEF Pending
<1> QED
  BY <1>1, <1>2, <1>4

\* _alloc gives back an upper half whose lower half stays in its hand.
LEMMA AllocSplitCoalesced ==
    ASSUME IInv, Coalesced, AllocSplit
    PROVE  Coalesced'
<1> DEFINE j == ord - 1
           c == cur + Pow2[j]
           hand == <<"hand", <<cur, ord>>>>
<1>1. TypeOK /\ NoOverlap /\ Aligned /\ pc = "alloc" /\ ord > want
  BY DEF IInv, AllocSplit
<1>2. hand \in Blocks
  <2>1. Hand = {<<cur, ord>>}
    BY <1>1 DEF Hand
  <2> QED
    BY <2>1, <1>1, InBlocks
<1>3. /\ cur \in Page /\ cur \in Nat /\ ord \in Orders /\ cur % Pow2[ord] = 0
      /\ j \in 0 .. MAX_ORDER - 2 /\ j + 1 = ord /\ j \in Orders
  <2>1. cur \in Page /\ ord \in Orders /\ cur % Pow2[ord] = 0 /\ want \in Orders
    BY <1>1, <1>2 DEF Aligned, TypeOK
  <2>2. want \in Nat /\ ord \in Nat /\ ord <= MAX_ORDER - 1 /\ MAX_ORDER \in Nat
    BY <2>1, Sizes
  <2>3. j \in 0 .. MAX_ORDER - 2 /\ j + 1 = ord
    BY <2>2, <1>1
  <2>4. cur \in Nat
    BY <2>1 DEF Page
  <2> HIDE DEF j
  <2> QED
    BY <2>1, <2>3, <2>4, NextOrder
<1>4. c \in Page /\ c % Pow2[j + 1] # 0
  <2> HIDE DEF j
  <2> QED
    BY <1>3, BuddiesOfHalves
<1>5. free_list' = [free_list EXCEPT ![j] = @ \cup {c}]
  BY <1>3 DEF AllocSplit, add_to_free_list
<1>6. cur \notin free_list[j]
  <2>1. cur <= cur /\ cur < cur + Pow2[ord] /\ cur \in Int
    BY <1>3, Sizes
  <2>2. hand[2][1] = cur /\ hand[2][2] = ord /\ hand[1] = "hand"
    OBVIOUS
  <2> HIDE DEF hand, j
  <2> QED
    BY <2>1, <2>2, <1>1, <1>2, <1>3, NoOtherHead
<1> HIDE DEF j
<1> SUFFICES ASSUME NEW k \in 0 .. MAX_ORDER - 2, NEW p \in Page, Mergeable(p, k)'
             PROVE  FALSE
  BY DEF Coalesced
<1>7. ~ Mergeable(p, k)
  BY <1>1 DEF Coalesced, Pending
<1>8. k = j /\ free_list'[j] = free_list[j] \cup {c}
  <2>1. free_list'[j] = free_list[j] \cup {c}
    BY <1>1, <1>3, <1>5 DEF TypeOK
  <2>2. k # j => free_list'[k] \subseteq free_list[k]
    BY <1>1, <1>5, NextOrder DEF TypeOK
  <2> QED
    BY <2>1, <2>2, <1>7, ListsShrink
<1>9. (p = c /\ c + Pow2[k] \in free_list[k]) \/ (p + Pow2[k] = c /\ p \in free_list[k])
  BY <1>4, <1>7, <1>8, ListsGrow
<1>10. p # c
  BY <1>4, <1>8 DEF Mergeable
<1>11. p = cur
  <2>1. p \in Nat /\ Pow2[j] \in Nat
    BY <1>3, Sizes DEF Page
  <2>2. p + Pow2[j] = cur + Pow2[j]
    BY <1>8, <1>9, <1>10
  <2> QED
    BY <2>1, <2>2, <1>3
<1> QED
  BY <1>6, <1>8, <1>9, <1>10, <1>11

\* _free lists a block only if its other half is not listed.
LEMMA FreeInsertCoalesced ==
    ASSUME IInv, Coalesced, FreeInsert
    PROVE  Coalesced'
<1>1. /\ TypeOK /\ Aligned /\ ListConsistent /\ CallState
      /\ pc = "free" /\ ord < MAX_ORDER - 1 /\ ~ HaveBuddy
  BY DEF IInv, FreeInsert
<1>2. /\ cur \in Page /\ ord \in Orders /\ order[cur] = ord
      /\ ord \in 0 .. MAX_ORDER - 2
  <2>1. <<"hand", <<cur, ord>>>> \in Blocks
    <3>1. Hand = {<<cur, ord>>}
      BY <1>1 DEF Hand
    <3> QED
      BY <3>1, <1>1, InBlocks
  <2>2. cur \in Page /\ ord \in Orders /\ order[cur] = ord
    BY <2>1, <1>1 DEF Aligned, CallState
  <2> QED
    BY <2>2, <1>1, Sizes
<1>3. free_list' = [free_list EXCEPT ![ord] = @ \cup {cur}]
  BY <1>2 DEF FreeInsert, add_to_free_list
<1>4. get_buddy(cur, ord) \notin free_list[ord]
  <2> SUFFICES ASSUME get_buddy(cur, ord) \in free_list[ord] PROVE FALSE
    OBVIOUS
  <2>1. <<get_buddy(cur, ord), ord>> \in FreeBlocks
    BY <1>1, <1>2 DEF FreeBlocks, TypeOK
  <2> QED
    BY <2>1, <1>1, <1>2 DEF ListConsistent, HaveBuddy
<1> SUFFICES ASSUME NEW k \in 0 .. MAX_ORDER - 2, NEW p \in Page, Mergeable(p, k)'
             PROVE  FALSE
  BY DEF Coalesced
<1>5. ~ Mergeable(p, k)
  BY <1>1 DEF Coalesced, Pending
<1>6. k = ord /\ free_list'[ord] = free_list[ord] \cup {cur}
  <2>1. free_list'[ord] = free_list[ord] \cup {cur}
    BY <1>1, <1>2, <1>3 DEF TypeOK
  <2>2. k # ord => free_list'[k] \subseteq free_list[k]
    BY <1>1, <1>3, NextOrder DEF TypeOK
  <2> QED
    BY <2>1, <2>2, <1>5, ListsShrink
<1>7. \/ p = cur /\ cur + Pow2[k] \in free_list[k]
      \/ p + Pow2[k] = cur /\ p \in free_list[k]
  BY <1>2, <1>5, <1>6, ListsGrow
<1>8. get_buddy(p, k) = p + Pow2[k] /\ get_buddy(p + Pow2[k], k) = p
  <2>1. p % Pow2[k + 1] = 0
    BY DEF Mergeable
  <2> QED
    BY <2>1, BuddiesOfHalves
<1> QED
  BY <1>4, <1>6, <1>7, <1>8

\* Every step keeps the lists coalesced.
LEMMA CoalescedStep ==
    ASSUME IInv, Coalesced, [Next]_vars
    PROVE  Coalesced'
<1>0. TypeOK
  BY DEF IInv
<1>1. CASE ReserveCall \/ BootDone
  <2>1. pc = "boot" /\ free_list' = free_list
    BY <1>1 DEF ReserveCall, BootDone, list
  <2> QED
    BY <2>1, QuietStep
<1>2. CASE AllocReturn \/ FreeMaxOrder
  <2>1. pc \in {"alloc", "free"} /\ free_list' = free_list
    BY <1>2 DEF AllocReturn, FreeMaxOrder, list
  <2> QED
    BY <2>1, QuietStep
<1>3. CASE FreeMerge
  <2>1. pc = "free" /\ free_list' = rm_from_free_list(free_list, get_buddy(cur, ord), ord)
    BY <1>3 DEF FreeMerge
  <2>2. \A k \in Orders : free_list'[k] \subseteq free_list[k]
    BY <2>1, <1>0 DEF rm_from_free_list, TypeOK
  <2> QED
    BY <2>1, <2>2, QuietStep
<1>4. ASSUME NEW size, Alloc(size) PROVE Coalesced'
  <2>1. PICK i, block : free_list' = rm_from_free_list(free_list, block, i)
    BY <1>4 DEF Alloc
  <2>2. \A k \in Orders : free_list'[k] \subseteq free_list[k]
    BY <2>1, <1>0 DEF rm_from_free_list, TypeOK
  <2>3. pc = "idle"
    BY <1>4 DEF Alloc
  <2> QED
    BY <2>2, <2>3, QuietStep
<1>5. ASSUME NEW b, Free(b) PROVE Coalesced'
  <2>1. pc = "idle" /\ free_list' = free_list
    BY <1>5 DEF Free, list
  <2> QED
    BY <2>1, QuietStep
<1>6. CASE UNCHANGED vars
  BY <1>6 DEF vars, Coalesced, Mergeable, Pending, start_idx, end_idx, Base
<1> QED
  BY <1>1, <1>2, <1>3, <1>4, <1>5, <1>6, SplitStartCoalesced, SplitEndCoalesced,
     SplitDoneCoalesced, TakeCoalesced, ReserveReturnCoalesced, AllocSplitCoalesced,
     FreeInsertCoalesced DEF Next, Boot, Step, Call, AllocNull, FreeIgnored

-----------------------------------------------------------------------------
(* Aligned blocks that share a page are nested *)

\* The size of a larger order is a multiple of the size of a smaller one.
LEMMA SizesDivide ==
    ASSUME NEW i \in Orders, NEW j \in Orders, i <= j
    PROVE  Pow2[j] % Pow2[i] = 0 /\ (i < j => Pow2[i] < Pow2[j])
<1> DEFINE D == {m \in Orders : i <= m
                    /\ ~ (Pow2[m] % Pow2[i] = 0 /\ (i < m => Pow2[i] < Pow2[m]))}
<1> SUFFICES ASSUME D # {} PROVE FALSE
  BY Zenon
<1>1. D \in SUBSET Nat
  BY Sizes
<1>2. PICK m \in D : \A n \in D : m <= n
  <2> HIDE DEF D
  <2> QED
    BY <1>1, LeastOrder, Zenon
<1>3. m \in Orders /\ i <= m /\ m \in Nat /\ i \in Nat
  BY Sizes
<1>4. Pow2[i] \in Nat \ {0} /\ Pow2[m] \in Nat \ {0}
  BY <1>3, Sizes
<1>5. CASE i = m
  <2>1. Pow2[i] % Pow2[i] = 0
    BY <1>4
  <2>2. ~ (i < m)
    BY <1>3, <1>5
  <2> QED
    BY <2>1, <2>2, <1>5
<1>6. CASE i < m
  <2>1. m > 0 /\ i <= m - 1 /\ ~ (m <= m - 1) /\ m - 1 \in Nat
    BY <1>3, <1>6
  <2>2. m - 1 \in Orders /\ Pow2[m] = 2 * Pow2[m - 1]
    BY <2>1, <1>3, Sizes
  <2>3. Pow2[m - 1] \in Nat \ {0}
    BY <2>2, Sizes
  <2>4. m - 1 \notin D
    BY <2>1, <1>2
  <2>5. Pow2[m - 1] % Pow2[i] = 0 /\ (i < m - 1 => Pow2[i] < Pow2[m - 1])
    BY <2>1, <2>2, <2>4
  <2>6. Pow2[i] <= Pow2[m - 1]
    <3>1. CASE i = m - 1
      BY <3>1, <1>4
    <3>2. CASE i < m - 1
      BY <3>2, <2>5, <2>3, <1>4
    <3> QED
      BY <3>1, <3>2, <2>1, <1>3
  <2>7. Pow2[i] < Pow2[m]
    BY <2>2, <2>3, <2>6, <1>4
  <2>8. PICK q \in Nat : \E r \in 0 .. Pow2[i] - 1 :
           Pow2[m - 1] = Pow2[i] * q + r /\ q = Pow2[m - 1] \div Pow2[i]
             /\ r = Pow2[m - 1] % Pow2[i]
    BY <2>3, <1>4, DivMod, Zenon
  <2>9. Pow2[m - 1] = Pow2[i] * q
    BY <2>5, <2>8, <1>4
  <2>10. Pow2[m] = Pow2[i] * (2 * q) /\ 2 * q \in Int
    BY <2>2, <2>9, <1>4
  <2>11. Pow2[m] % Pow2[i] = 0
    BY <2>10, <1>4, MultMod, Zenon
  <2> QED
    BY <2>7, <2>11
<1> QED
  BY <1>3, <1>5, <1>6

\* Divisibility is transitive, and closed under addition.
LEMMA MultipleOf ==
    ASSUME NEW P \in Nat \ {0}, NEW Q \in Nat \ {0}, Q % P = 0,
           NEW x \in Nat, x % Q = 0
    PROVE  x % P = 0 /\ (x + Q) % P = 0
<1>1. PICK q \in Nat : \E r \in 0 .. P - 1 : Q = P * q + r /\ q = Q \div P /\ r = Q % P
  BY DivMod, Zenon
<1>2. PICK n \in Nat : \E r \in 0 .. Q - 1 : x = Q * n + r /\ n = x \div Q /\ r = x % Q
  BY DivMod, Zenon
<1>3. Q = P * q /\ x = Q * n
  <2>1. Q = P * q
    BY <1>1
  <2>2. x = Q * n
    BY <1>2
  <2> QED
    BY <2>1, <2>2
<1>4. x = P * (q * n) /\ q * n \in Int
  BY <1>3
<1>5. x + Q = P * (q * n + q) /\ q * n + q \in Int
  BY <1>3, <1>4
<1> QED
  BY <1>4, <1>5, MultMod, Zenon

\* An aligned block that shares a page with an aligned block of its order or a
\* larger one lies inside it.
LEMMA Nested ==
    ASSUME NEW p \in Page, NEW k \in Orders, p % Pow2[k] = 0,
           NEW q \in Page, NEW m \in Orders, q % Pow2[m] = 0, k <= m,
           NEW x \in Int, p <= x, x < p + Pow2[k], q <= x, x < q + Pow2[m]
    PROVE  q <= p /\ p + Pow2[k] <= q + Pow2[m]
<1>1. /\ p \in Nat /\ q \in Nat /\ Pow2[k] \in Nat \ {0} /\ Pow2[m] \in Nat \ {0}
      /\ Pow2[m] % Pow2[k] = 0
  BY Sizes, SizesDivide DEF Page
<1>2. q % Pow2[k] = 0 /\ (q + Pow2[m]) % Pow2[k] = 0 /\ q + Pow2[m] \in Nat
  <2>1. PICK a : a = Pow2[k]
    OBVIOUS
  <2>2. PICK b : b = Pow2[m]
    OBVIOUS
  <2>3. /\ a \in Nat \ {0} /\ b \in Nat \ {0} /\ b % a = 0 /\ q % b = 0 /\ q \in Nat
    BY <1>1, <2>1, <2>2
  <2>4. q % a = 0 /\ (q + b) % a = 0
    BY <2>3, MultipleOf
  <2> QED
    BY <2>1, <2>2, <2>3, <2>4
<1>3. p - (p % Pow2[k]) = p
  BY <1>1
<1>4. q <= p
  <2> SUFFICES ASSUME p < q PROVE FALSE
    BY <1>1
  <2>1. p - (p % Pow2[k]) + Pow2[k] <= q
    BY <1>1, <1>2, FitsBelow, Zenon
  <2> QED
    BY <2>1, <1>1, <1>3
<1>5. p < q + Pow2[m]
  BY <1>1
<1>6. p - (p % Pow2[k]) + Pow2[k] <= q + Pow2[m]
  BY <1>1, <1>2, <1>5, FitsBelow, Zenon
<1> QED
  BY <1>3, <1>4, <1>6

\* A block that covers another one has its order or a larger one.
LEMMA CoversLarger ==
    ASSUME NEW p \in Page, NEW k \in Orders, NEW q \in Page, NEW m \in Orders,
           q <= p, p + Pow2[k] <= q + Pow2[m]
    PROVE  k <= m /\ (k = m => p = q)
<1>1. /\ p \in Nat /\ q \in Nat /\ Pow2[k] \in Nat \ {0} /\ Pow2[m] \in Nat \ {0}
      /\ k \in Nat /\ m \in Nat
  BY Sizes DEF Page
<1>2. Pow2[k] <= Pow2[m]
  BY <1>1
<1>3. ~ (m < k)
  <2> SUFFICES ASSUME m < k PROVE FALSE
    OBVIOUS
  <2>1. m <= k
    BY <1>1
  <2>2. Pow2[m] < Pow2[k]
    BY <2>1, SizesDivide
  <2> QED
    BY <2>2, <1>1, <1>2
<1>4. k = m => p = q
  BY <1>1
<1> QED
  BY <1>1, <1>3, <1>4

\* The pages of a block as a range, and one block inside another.
LEMMA InPages ==
    ASSUME NEW b \in Page \X Orders
    PROVE  /\ b[1] \in Nat /\ Pow2[b[2]] \in Nat \ {0} /\ b = <<b[1], b[2]>>
           /\ b[1] \in Page /\ b[2] \in Orders
           /\ \A x : x \in Pages(b) <=> x \in Int /\ b[1] <= x /\ x < b[1] + Pow2[b[2]]
           /\ b[1] \in Pages(b)
           /\ \A c \in Page \X Orders : Pages(c) \subseteq Pages(b)
                 <=> b[1] <= c[1] /\ c[1] + Pow2[c[2]] <= b[1] + Pow2[b[2]]
<1>1. /\ b[1] \in Nat /\ Pow2[b[2]] \in Nat \ {0} /\ b = <<b[1], b[2]>>
      /\ b[1] \in Page /\ b[2] \in Orders
  BY Sizes DEF Page
<1>2. \A x : x \in Pages(b) <=> x \in Int /\ b[1] <= x /\ x < b[1] + Pow2[b[2]]
  BY <1>1 DEF Pages
<1>3. ASSUME NEW c \in Page \X Orders
      PROVE  Pages(c) \subseteq Pages(b)
                <=> b[1] <= c[1] /\ c[1] + Pow2[c[2]] <= b[1] + Pow2[b[2]]
  <2>1. c[1] \in Nat /\ Pow2[c[2]] \in Nat \ {0}
    BY Sizes DEF Page
  <2>2. \A x : x \in Pages(c) <=> x \in Int /\ c[1] <= x /\ x < c[1] + Pow2[c[2]]
    BY <2>1 DEF Pages
  <2>3. ASSUME Pages(c) \subseteq Pages(b)
        PROVE  b[1] <= c[1] /\ c[1] + Pow2[c[2]] <= b[1] + Pow2[b[2]]
    <3>1. c[1] \in Pages(c) /\ c[1] + Pow2[c[2]] - 1 \in Pages(c)
      BY <2>1, <2>2
    <3>2. c[1] \in Pages(b) /\ c[1] + Pow2[c[2]] - 1 \in Pages(b)
      BY <2>3, <3>1
    <3> QED
      BY <3>2, <1>1, <1>2, <2>1
  <2>4. ASSUME b[1] <= c[1], c[1] + Pow2[c[2]] <= b[1] + Pow2[b[2]]
        PROVE  Pages(c) \subseteq Pages(b)
    BY <2>1, <2>2, <2>4, <1>1, <1>2
  <2> QED
    BY <2>3, <2>4
<1> QED
  BY <1>1, <1>2, <1>3

\* Free pages that make up an aligned block lie in one listed block.
LEMMA FreeRuns == IInv /\ Coalesced => FreeRunIsBlock
<1> SUFFICES ASSUME IInv, Coalesced, pc = "idle" PROVE FreeRunIsBlock
  BY DEF FreeRunIsBlock
<1> DEFINE Split(p, k) == /\ Base(p, k) = p
                          /\ Pages(<<p, k>>) \subseteq PagesOf(FreeBlocks)
                          /\ \A b \in FreeBlocks : ~ (Pages(<<p, k>>) \subseteq Pages(b))
           D == {k \in Orders : \E p \in Page : Split(p, k)}
<1>1. D = {} => FreeRunIsBlock
  BY DEF FreeRunIsBlock
<1> SUFFICES ASSUME D # {} PROVE FALSE
  BY <1>1
<1>2. D \in SUBSET Nat
  BY Sizes
<1>3. PICK k \in D : \A n \in D : k <= n
  <2> HIDE DEF D
  <2> QED
    BY <1>2, LeastOrder, Zenon
<1>4. k \in Orders /\ k \in Nat
  BY Sizes
<1>5. PICK p \in Page : Split(p, k)
  OBVIOUS
<1>6. p \in Nat /\ p % Pow2[k] = 0 /\ <<p, k>> \in Page \X Orders
  <2>1. Base(p, k) % Pow2[k] = 0
    BY <1>4, BaseBlock
  <2> QED
    BY <2>1, <1>4, <1>5 DEF Page
<1>7. \A b \in FreeBlocks : b \in Page \X Orders /\ b[1] % Pow2[b[2]] = 0
  <2>1. \A b \in FreeBlocks : <<"free", b>> \in Blocks
    BY DEF Blocks
  <2> QED
    BY <2>1 DEF IInv, Aligned
\* A listed block of order k or more that holds a page of the run holds all of it.
<1>8. ASSUME NEW b \in FreeBlocks, NEW x \in Pages(<<p, k>>), x \in Pages(b) PROVE b[2] < k
  <2>1. b \in Page \X Orders /\ b[1] % Pow2[b[2]] = 0
    BY <1>7
  <2>2. /\ b[1] \in Page /\ b[2] \in Orders /\ b[2] \in Nat
        /\ x \in Int /\ b[1] <= x /\ x < b[1] + Pow2[b[2]]
    BY <2>1, <1>8, InPages, Sizes
  <2>3. p <= x /\ x < p + Pow2[k]
    <3>1. <<p, k>>[1] = p /\ <<p, k>>[2] = k
      OBVIOUS
    <3> QED
      BY <3>1, <1>6, <1>8, InPages
  <2>4. ASSUME k <= b[2] PROVE FALSE
    <3>1. b[1] <= p /\ p + Pow2[k] <= b[1] + Pow2[b[2]]
      BY <2>1, <2>2, <2>3, <2>4, <1>4, <1>6, Nested
    <3>2. Pages(<<p, k>>) \subseteq Pages(b)
      <4>1. <<p, k>>[1] = p /\ <<p, k>>[2] = k
        OBVIOUS
      <4> QED
        BY <4>1, <3>1, <2>1, <1>6, InPages
    <3> QED
      BY <3>2, <1>5
  <2> QED
    BY <2>2, <2>4, <1>4
<1>9. k > 0
  <2>1. p \in Pages(<<p, k>>)
    BY <1>6, InPages
  <2>2. PICK b \in FreeBlocks : p \in Pages(b)
    BY <2>1, <1>5 DEF PagesOf
  <2>3. b[2] < k /\ b[2] \in Nat
    BY <2>1, <2>2, <1>7, <1>8, Sizes
  <2> QED
    BY <2>3, <1>4
<1> DEFINE j == k - 1
           P == Pow2[j]
<1>10. /\ j \in 0 .. MAX_ORDER - 2 /\ j + 1 = k /\ j \in Orders /\ j \in Nat
       /\ P \in Nat \ {0} /\ Pow2[k] = 2 * P
       /\ p + P \in Page /\ p % P = 0 /\ (p + P) % P = 0
  <2>1. /\ k - 1 \in Orders /\ Pow2[k] = 2 * Pow2[k - 1]
        /\ p + Pow2[k - 1] \in Page
        /\ p % Pow2[k - 1] = 0 /\ (p + Pow2[k - 1]) % Pow2[k - 1] = 0
    BY <1>4, <1>6, <1>9, SplitBlock, Zenon
  <2>2. k - 1 \in 0 .. MAX_ORDER - 2 /\ (k - 1) + 1 = k /\ k - 1 \in Nat
    BY <1>4, <1>9, Sizes
  <2>3. Pow2[k - 1] \in Nat \ {0}
    BY <2>1, Sizes
  <2> QED
    BY <2>1, <2>2, <2>3
<1> HIDE DEF j, P
\* Each half of the run is a listed block.
<1>11. ASSUME NEW h \in {p, p + P} PROVE h \in free_list[j]
  <2>1. h \in Page /\ h \in Nat /\ h % Pow2[j] = 0 /\ <<h, j>> \in Page \X Orders
    BY <1>10, <1>6 DEF P, Page
  <2>2. Pages(<<h, j>>) \subseteq Pages(<<p, k>>)
    <3>1. p <= h /\ h + Pow2[j] <= p + Pow2[k]
      BY <1>6, <1>10 DEF P
    <3>2. <<p, k>>[1] = p /\ <<p, k>>[2] = k /\ <<h, j>>[1] = h /\ <<h, j>>[2] = j
      OBVIOUS
    <3> QED
      BY <3>1, <3>2, <2>1, <1>6, InPages
  <2>3. Base(h, j) = h
    BY <2>1, <1>10, AlignedBase
  <2>4. j \notin D
    <3>1. ~ (k <= j)
      BY <1>4, <1>10
    <3> HIDE DEF D
    <3> QED
      BY <3>1, <1>3
  <2>5. ~ Split(h, j)
    BY <2>1, <2>4, <1>10
  <2>6. PICK b \in FreeBlocks : Pages(<<h, j>>) \subseteq Pages(b)
    BY <2>2, <2>3, <2>5, <1>5
  <2>7. h \in Pages(<<h, j>>)
    BY <2>1, InPages
  <2>8. b[2] < k
    BY <2>2, <2>6, <2>7, <1>8
  <2>9. b \in Page \X Orders /\ b[1] \in Page /\ b[2] \in Orders /\ b[2] \in Nat /\ b = <<b[1], b[2]>>
    BY <1>7, InPages, Sizes
  <2>10. b[1] <= h /\ h + Pow2[j] <= b[1] + Pow2[b[2]]
    <3>1. <<h, j>>[1] = h /\ <<h, j>>[2] = j
      OBVIOUS
    <3> QED
      BY <3>1, <2>1, <2>6, <2>9, InPages
  <2>11. j <= b[2] /\ (j = b[2] => h = b[1])
    <3>1. b[1] \in Page /\ b[2] \in Orders
      BY <2>9
    <3>2. h \in Page /\ j \in Orders
      BY <2>1, <1>10
    <3> QED
      BY <3>1, <3>2, <2>10, CoversLarger
  <2>12. b[2] = j
    BY <2>8, <2>9, <2>11, <1>4, <1>10
  <2> QED
    BY <2>9, <2>11, <2>12 DEF FreeBlocks
<1>12. Mergeable(p, j)
  BY <1>6, <1>10, <1>11 DEF Mergeable, P
<1> QED
  BY <1>10, <1>12 DEF Coalesced, Pending

-----------------------------------------------------------------------------
(* The pages of a set of blocks *)

\* The pages on the free lists and in the hand of a running call.
FreePages == PagesOf(FreeBlocks \cup Hand)

\* The pages of two sets of blocks, and of one block.
LEMMA PagesOfUnion ==
    ASSUME NEW S, NEW T, NEW b
    PROVE  PagesOf(S \cup T) = PagesOf(S) \cup PagesOf(T) /\ PagesOf({b}) = Pages(b)
BY DEF PagesOf

\* The pages of a set to which a block is added.
LEMMA PagesOfAdd == \A S, b : PagesOf(S \cup {b}) = PagesOf(S) \cup Pages(b)
BY DEF PagesOf

\* The pages of a block are those of its two halves.
LEMMA PagesOfHalves ==
    ASSUME NEW p \in Page, NEW k \in 0 .. MAX_ORDER - 2, p % Pow2[k + 1] = 0
    PROVE  Pages(<<p, k + 1>>) = Pages(<<p, k>>) \cup Pages(<<p + Pow2[k], k>>)
<1>1. p \in Nat /\ Pow2[k] \in Nat \ {0} /\ Pow2[k + 1] = 2 * Pow2[k]
  BY NextOrder DEF Page
<1>2. /\ Pages(<<p, k + 1>>) = p .. p + Pow2[k + 1] - 1
      /\ Pages(<<p, k>>) = p .. p + Pow2[k] - 1
      /\ Pages(<<p + Pow2[k], k>>) = p + Pow2[k] .. p + Pow2[k] + Pow2[k] - 1
  BY DEF Pages
<1> QED
  BY <1>1, <1>2

\* Two blocks of the system share no page.
LEMMA PagesApart ==
    ASSUME IInv, NEW b \in Blocks, NEW c \in Blocks, b # c
    PROVE  Pages(b[2]) \cap Pages(c[2]) = {}
<1>1. Apart(b[2], c[2])
  BY DEF IInv, NoOverlap
<1>2. b[2] \in Page \X Orders /\ c[2] \in Page \X Orders
  BY DEF IInv, Aligned
<1>3. /\ b[2][1] \in Nat /\ Pow2[b[2][2]] \in Nat /\ c[2][1] \in Nat /\ Pow2[c[2][2]] \in Nat
      /\ \A x : x \in Pages(b[2]) => x \in Int /\ b[2][1] <= x /\ x < b[2][1] + Pow2[b[2][2]]
      /\ \A x : x \in Pages(c[2]) => x \in Int /\ c[2][1] <= x /\ x < c[2][1] + Pow2[c[2][2]]
  BY <1>2, InPages
<1> QED
  BY <1>1, <1>3 DEF Apart

\* Free, owned and reserved pages, and those of the block in hand, are apart.
LEMMA OwnersApart ==
    ASSUME IInv
    PROVE  /\ PagesOf(FreeBlocks) \cap PagesOf(Hand) = {}
           /\ \A b \in held : Pages(b) \cap FreePages = {}
           /\ FreePages \cap PagesOf(resv) = {}
           /\ PagesOf(Hand) \cap (PagesOf(held) \cup PagesOf(resv)) = {}
<1> DEFINE Owner(o, S) == \A b \in S : <<o, b>> \in Blocks
<1>1. ASSUME NEW o, NEW u, NEW S, NEW T, o # u, Owner(o, S), Owner(u, T)
      PROVE  PagesOf(S) \cap PagesOf(T) = {}
  <2> SUFFICES ASSUME NEW b \in S, NEW c \in T PROVE Pages(b) \cap Pages(c) = {}
    BY DEF PagesOf
  <2>1. <<o, b>> \in Blocks /\ <<u, c>> \in Blocks /\ <<o, b>> # <<u, c>>
    BY <1>1
  <2>2. Pages(<<o, b>>[2]) \cap Pages(<<u, c>>[2]) = {}
    BY <2>1, PagesApart, Zenon
  <2> QED
    BY <2>2
<1>2. Owner("free", FreeBlocks) /\ Owner("held", held) /\ Owner("resv", resv) /\ Owner("hand", Hand)
  BY DEF Blocks
<1> HIDE DEF Owner
<1>3. /\ PagesOf(FreeBlocks) \cap PagesOf(Hand) = {}
      /\ PagesOf(FreeBlocks) \cap PagesOf(held) = {} /\ PagesOf(Hand) \cap PagesOf(held) = {}
      /\ PagesOf(FreeBlocks) \cap PagesOf(resv) = {} /\ PagesOf(Hand) \cap PagesOf(resv) = {}
  BY <1>1, <1>2
<1>4. FreePages = PagesOf(FreeBlocks) \cup PagesOf(Hand)
  BY PagesOfUnion DEF FreePages
<1>5. \A b \in held : Pages(b) \subseteq PagesOf(held)
  BY DEF PagesOf
<1> QED
  BY <1>3, <1>4, <1>5

\* _alloc and _free do not change which pages are free or in hand, until they
\* hand a block out or take one in.
LEMMA AllocPages ==
    ASSUME IInv, NEW size \in Nat, Alloc(size)
    PROVE  FreePages' = FreePages
<1>1. TypeOK /\ pc = "idle" /\ pc' = "alloc"
  BY DEF IInv, Alloc
<1>2. PICK i \in get_order(round(size)) .. MAX_ORDER - 1 : \E block \in free_list[i] :
         free_list' = rm_from_free_list(free_list, block, i) /\ cur' = block /\ ord' = i
  BY DEF Alloc
<1>3. PICK block \in free_list[i] :
         free_list' = rm_from_free_list(free_list, block, i) /\ cur' = block /\ ord' = i
  BY <1>2
<1>4. i \in Orders /\ block \in Page
  <2>1. get_order(round(size)) \in Orders
    BY OrderOfSize DEF Alloc
  <2> QED
    BY <2>1, <1>1, Sizes DEF Orders, TypeOK
<1>5. free_list' = [free_list EXCEPT ![i] = @ \ {block}]
  BY <1>3, <1>4 DEF rm_from_free_list
<1>6. FreeBlocks' = FreeBlocks \ {<<block, i>>} /\ <<block, i>> \in FreeBlocks
  BY <1>1, <1>4, <1>5 DEF FreeBlocks, TypeOK
<1>7. Hand = {} /\ Hand' = {<<block, i>>}
  BY <1>1, <1>3 DEF Hand
<1>8. FreeBlocks' \cup Hand' = FreeBlocks \cup Hand
  BY <1>6, <1>7
<1> QED
  BY <1>8 DEF FreePages, PagesOf, Pages

\* Cutting a block in _alloc keeps the pages listed or in hand.
LEMMA AllocSplitPages ==
    ASSUME IInv, AllocSplit
    PROVE  FreePages' = FreePages
<1> DEFINE j == ord - 1
<1>1. TypeOK /\ Aligned /\ pc = "alloc" /\ ord > want /\ pc' = "alloc" /\ cur' = cur /\ ord' = j
  BY DEF IInv, AllocSplit
<1>2. Hand = {<<cur, ord>>} /\ Hand' = {<<cur, j>>}
  BY <1>1 DEF Hand
<1>3. /\ cur \in Page /\ ord \in Orders /\ cur % Pow2[ord] = 0
      /\ j \in 0 .. MAX_ORDER - 2 /\ j + 1 = ord
  <2>1. <<"hand", <<cur, ord>>>> \in Blocks
    BY <1>1, <1>2, InBlocks
  <2>2. cur \in Page /\ ord \in Orders /\ cur % Pow2[ord] = 0 /\ want \in Orders
    BY <2>1, <1>1 DEF Aligned, TypeOK
  <2>3. want \in Nat /\ ord \in Nat /\ ord <= MAX_ORDER - 1 /\ MAX_ORDER \in Nat
    BY <2>2, Sizes
  <2>4. j \in 0 .. MAX_ORDER - 2 /\ j + 1 = ord
    BY <2>3, <1>1
  <2> QED
    BY <2>2, <2>4
<1> HIDE DEF j
<1>4. j \in Orders /\ cur + Pow2[j] \in Page
  BY <1>3, NextOrder, BuddiesOfHalves
<1>5. free_list' = [free_list EXCEPT ![j] = @ \cup {cur + Pow2[j]}]
  BY <1>4 DEF AllocSplit, add_to_free_list, j
<1>6. FreeBlocks' = FreeBlocks \cup {<<cur + Pow2[j], j>>}
  BY <1>1, <1>4, <1>5 DEF FreeBlocks, TypeOK
<1>7. Pages(<<cur, ord>>) = Pages(<<cur, j>>) \cup Pages(<<cur + Pow2[j], j>>)
  BY <1>3, PagesOfHalves
<1>8. FreePages = PagesOf(FreeBlocks) \cup Pages(<<cur, ord>>)
  BY <1>2, PagesOfUnion DEF FreePages
<1>9. FreePages' = PagesOf(FreeBlocks' \cup Hand')
  BY DEF FreePages, PagesOf, Pages
<1>10. FreePages' = PagesOf(FreeBlocks \cup {<<cur + Pow2[j], j>>} \cup {<<cur, j>>})
  BY <1>2, <1>6, <1>9
<1>11. PagesOf(FreeBlocks \cup {<<cur + Pow2[j], j>>} \cup {<<cur, j>>})
          = PagesOf(FreeBlocks) \cup Pages(<<cur + Pow2[j], j>>) \cup Pages(<<cur, j>>)
  BY PagesOfAdd, Zenon
<1> QED
  BY <1>7, <1>8, <1>10, <1>11

\* Merging with the buddy in _free keeps the pages listed or in hand.
LEMMA FreeMergePages ==
    ASSUME IInv, FreeMerge
    PROVE  FreePages' = FreePages /\ Pages(<<cur, ord>>) \subseteq Pages(<<cur', ord'>>)
<1> DEFINE q == get_buddy(cur, ord)
           low == IF cur < q THEN cur ELSE q
<1>1. /\ TypeOK /\ Aligned /\ ListConsistent /\ CallState
      /\ pc = "free" /\ pc' = "free" /\ ord < MAX_ORDER - 1
      /\ cur' = low /\ ord' = ord + 1
      /\ entry_in_list[q] /\ order[q] = order[cur]
  BY DEF IInv, FreeMerge, HaveBuddy
<1>2. Hand = {<<cur, ord>>} /\ Hand' = {<<low, ord + 1>>}
  BY <1>1 DEF Hand
<1>3. /\ cur \in Page /\ ord \in Orders /\ cur % Pow2[ord] = 0 /\ order[cur] = ord
      /\ ord \in 0 .. MAX_ORDER - 2
  <2>1. <<"hand", <<cur, ord>>>> \in Blocks
    BY <1>1, <1>2, InBlocks
  <2>2. cur \in Page /\ ord \in Orders /\ cur % Pow2[ord] = 0 /\ order[cur] = ord
    BY <2>1, <1>1 DEF Aligned, CallState
  <2> QED
    BY <2>2, <1>1, Sizes
<1>4. /\ q \in Page /\ (q = cur + Pow2[ord] \/ q = cur - Pow2[ord])
      /\ low % Pow2[ord + 1] = 0
  BY <1>1, <1>3, MergeBlock
<1>5. cur \in Nat /\ q \in Nat /\ Pow2[ord] \in Nat \ {0} /\ ord # MAX_ORDER - 1
  BY <1>1, <1>3, <1>4, NextOrder DEF Page
<1>6. free_list' = [free_list EXCEPT ![ord] = @ \ {q}]
  BY <1>3 DEF FreeMerge, rm_from_free_list
<1> HIDE DEF q
<1>7. {low, low + Pow2[ord]} = {cur, q} /\ low \in Page /\ q # cur
  BY <1>3, <1>4, <1>5
<1>8. <<q, ord>> \in FreeBlocks
  <2>1. order[q] = ord
    BY <1>1, <1>3
  <2> QED
    BY <2>1, <1>1, <1>4, <1>5, <1>7 DEF ListConsistent
<1>9. FreeBlocks' = FreeBlocks \ {<<q, ord>>}
  BY <1>1, <1>3, <1>6 DEF FreeBlocks, TypeOK
<1> HIDE DEF low
<1>10. Pages(<<low, ord + 1>>) = Pages(<<cur, ord>>) \cup Pages(<<q, ord>>)
  <2>1. Pages(<<low, ord + 1>>) = Pages(<<low, ord>>) \cup Pages(<<low + Pow2[ord], ord>>)
    BY <1>3, <1>4, <1>7, PagesOfHalves
  <2> QED
    BY <2>1, <1>7
<1> DEFINE F == FreeBlocks \ {<<q, ord>>}
<1>11. FreeBlocks = F \cup {<<q, ord>>}
  BY <1>8
<1>12. FreePages = PagesOf(F \cup {<<q, ord>>} \cup {<<cur, ord>>})
  BY <1>2, <1>11 DEF FreePages
<1>13. FreePages' = PagesOf(F \cup {<<low, ord + 1>>})
  <2>1. FreePages' = PagesOf(FreeBlocks' \cup Hand')
    BY DEF FreePages, PagesOf, Pages
  <2> QED
    BY <2>1, <1>2, <1>9
<1> HIDE DEF F
<1>14. /\ PagesOf(F \cup {<<q, ord>>} \cup {<<cur, ord>>})
              = PagesOf(F) \cup Pages(<<q, ord>>) \cup Pages(<<cur, ord>>)
       /\ PagesOf(F \cup {<<low, ord + 1>>}) = PagesOf(F) \cup Pages(<<low, ord + 1>>)
  BY PagesOfAdd, Zenon
<1>15. <<cur', ord'>> = <<low, ord + 1>>
  BY <1>1 DEF low, q
<1> QED
  BY <1>10, <1>12, <1>13, <1>14, <1>15

\* Listing the merged block in _free keeps the pages listed or in hand.
LEMMA FreeInsertPages ==
    ASSUME IInv, FreeInsert
    PROVE  FreePages' = FreePages
<1>1. TypeOK /\ Aligned /\ pc = "free" /\ pc' = "idle"
  BY DEF IInv, FreeInsert
<1>2. Hand = {<<cur, ord>>} /\ Hand' = {}
  BY <1>1 DEF Hand
<1>3. cur \in Page /\ ord \in Orders
  <2>1. <<"hand", <<cur, ord>>>> \in Blocks
    BY <1>1, <1>2, InBlocks
  <2> QED
    BY <2>1, <1>1 DEF Aligned
<1>4. free_list' = [free_list EXCEPT ![ord] = @ \cup {cur}]
  BY <1>3 DEF FreeInsert, add_to_free_list
<1>5. FreeBlocks' = FreeBlocks \cup {<<cur, ord>>}
  BY <1>1, <1>3, <1>4 DEF FreeBlocks, TypeOK
<1> QED
  BY <1>2, <1>5 DEF FreePages, PagesOf, Pages

\* The block in hand: it is one of the system's blocks.
LEMMA HandBlock ==
    ASSUME IInv, pc \in {"alloc", "free"}
    PROVE  /\ Hand = {<<cur, ord>>} /\ <<"hand", <<cur, ord>>>> \in Blocks
           /\ cur \in Page /\ ord \in Orders /\ cur % Pow2[ord] = 0
           /\ <<cur, ord>> \in Page \X Orders
           /\ FreePages = PagesOf(FreeBlocks) \cup Pages(<<cur, ord>>)
<1>1. Hand = {<<cur, ord>>}
  BY DEF Hand
<1>2. <<"hand", <<cur, ord>>>> \in Blocks
  BY <1>1, InBlocks DEF IInv
<1>3. cur \in Page /\ ord \in Orders /\ cur % Pow2[ord] = 0
  BY <1>2 DEF IInv, Aligned
<1>4. FreePages = PagesOf(FreeBlocks) \cup Pages(<<cur, ord>>)
  BY <1>1, PagesOfAdd DEF FreePages
<1> QED
  BY <1>1, <1>2, <1>3, <1>4

\* A call returns with the block it had in hand: the other free pages stay free.
LEMMA HandLeaves ==
    ASSUME IInv, AllocReturn \/ FreeMaxOrder
    PROVE  /\ FreePages' = PagesOf(FreeBlocks)
           /\ FreePages = PagesOf(FreeBlocks) \cup Pages(<<cur, ord>>)
           /\ PagesOf(FreeBlocks) \cap Pages(<<cur, ord>>) = {}
<1>1. pc \in {"alloc", "free"} /\ pc' = "idle" /\ free_list' = free_list
  BY DEF AllocReturn, FreeMaxOrder, list
<1>2. Hand' = {} /\ FreeBlocks' = FreeBlocks
  BY <1>1 DEF Hand, FreeBlocks
<1>3. FreePages' = PagesOf(FreeBlocks)
  BY <1>2 DEF FreePages, PagesOf, Pages
<1>4. PagesOf(Hand) = Pages(<<cur, ord>>)
  BY <1>1, HandBlock, PagesOfUnion
<1> QED
  BY <1>1, <1>3, <1>4, HandBlock, OwnersApart

\* _free takes a client's block in hand.
LEMMA HandTaken ==
    ASSUME IInv, NEW b \in held, Free(b)
    PROVE  /\ FreePages = PagesOf(FreeBlocks)
           /\ FreePages' = PagesOf(FreeBlocks) \cup Pages(b)
           /\ PagesOf(FreeBlocks) \cap Pages(b) = {}
           /\ b = <<cur', ord'>> /\ b \in Page \X Orders
<1>1. pc = "idle" /\ pc' = "free" /\ free_list' = free_list /\ b = <<cur', ord'>>
      /\ b \in Page \X Orders
  BY DEF Free, list, IInv, CallState, TypeOK
<1>2. Hand = {} /\ Hand' = {b} /\ FreeBlocks' = FreeBlocks
  BY <1>1 DEF Hand, FreeBlocks
<1>3. FreePages = PagesOf(FreeBlocks)
  BY <1>2 DEF FreePages
<1>4. FreePages' = PagesOf(FreeBlocks \cup {b})
  BY <1>2 DEF FreePages, PagesOf, Pages
<1> QED
  BY <1>1, <1>3, <1>4, PagesOfAdd, OwnersApart

-----------------------------------------------------------------------------
(* No page is lost but with its whole block of the largest order *)

Known == PagesOf({b[2] : b \in Blocks})

\* The pages that have an owner.
LEMMA KnownPages == Known = FreePages \cup PagesOf(held) \cup PagesOf(resv)
<1> DEFINE U == FreeBlocks \cup Hand \cup held \cup resv
<1>1. \A b \in Blocks : b[2] \in U
  BY DEF Blocks
<1>2. ASSUME NEW c \in U PROVE \E b \in Blocks : b[2] = c
  <2>1. \E o : <<o, c>> \in Blocks
    BY DEF Blocks
  <2>2. \A o : <<o, c>>[2] = c
    OBVIOUS
  <2> QED
    BY <2>1, <2>2
<1> HIDE DEF U
<1>3. {b[2] : b \in Blocks} = U
  BY <1>1, <1>2
<1> QED
  BY <1>3 DEF Known, FreePages, PagesOf, U

\* During boot every page has an owner.
LEMMA BootKnown == IInv /\ Booting => LostOnlyMaxOrder
<1> SUFFICES ASSUME IInv, Booting, NEW x \in Page PROVE x \in Known
  BY DEF LostOnlyMaxOrder, Known
<1>1. PICK k \in Orders : BlockAt(Base(x, k), k)
  BY DEF IInv, BootState
<1>2. Base(x, k) \in Page /\ Base(x, k) <= x /\ x < Base(x, k) + Pow2[k]
  BY BaseBlock
<1>3. x \in Pages(<<Base(x, k), k>>)
  <2>1. <<Base(x, k), k>>[1] = Base(x, k) /\ <<Base(x, k), k>>[2] = k /\ x \in Int
        /\ <<Base(x, k), k>> \in Page \X Orders
    BY <1>2 DEF Page
  <2> QED
    BY <2>1, <1>2, InPages
<1>4. <<Base(x, k), k>> \in FreeBlocks \cup resv
  BY <1>1, <1>2 DEF BlockAt, FreeBlocks
<1>5. x \in PagesOf(FreeBlocks) \cup PagesOf(resv)
  BY <1>3, <1>4 DEF PagesOf
<1> QED
  <2>1. FreePages = PagesOf(FreeBlocks) \cup PagesOf(Hand)
    BY PagesOfUnion DEF FreePages
  <2> QED
    BY <2>1, <1>5, KnownPages

\* Once the kernel is up a step loses no page, or the block in hand as a whole.
LEMMA KnownStep ==
    ASSUME IInv, ~ Booting, Next
    PROVE  \/ Known' = Known
           \/ /\ Known' = Known \ Pages(<<cur, ord>>) /\ ord = MAX_ORDER - 1
              /\ cur \in Page /\ ord \in Orders /\ cur % Pow2[ord] = 0
<1>1. Known = FreePages \cup PagesOf(held) \cup PagesOf(resv)
  BY KnownPages
<1>2. Known' = FreePages' \cup PagesOf(held') \cup PagesOf(resv')
  <2>1. (Known = FreePages \cup PagesOf(held) \cup PagesOf(resv))'
    BY KnownPages, PTL
  <2> QED
    BY <2>1 DEF PagesOf, Pages
<1>3. CASE AllocSplit \/ FreeMerge \/ FreeInsert
  <2>1. FreePages' = FreePages
    BY <1>3, AllocSplitPages, FreeMergePages, FreeInsertPages
  <2>2. held' = held /\ resv' = resv
    BY <1>3 DEF AllocSplit, FreeMerge, FreeInsert
  <2> QED
    BY <2>1, <2>2, <1>1, <1>2
<1>4. ASSUME NEW size \in Nat, Alloc(size) PROVE Known' = Known
  <2>1. FreePages' = FreePages
    BY <1>4, AllocPages
  <2>2. held' = held /\ resv' = resv
    BY <1>4 DEF Alloc
  <2> QED
    BY <2>1, <2>2, <1>1, <1>2
<1>5. CASE AllocReturn
  <2>1. /\ FreePages' = PagesOf(FreeBlocks)
        /\ FreePages = PagesOf(FreeBlocks) \cup Pages(<<cur, ord>>)
    BY <1>5, HandLeaves
  <2>2. held' = held \cup {<<cur, ord>>} /\ resv' = resv
    BY <1>5, Sizes DEF AllocReturn, IInv, CallState, TypeOK
  <2>3. PagesOf(held') = PagesOf(held) \cup Pages(<<cur, ord>>)
    BY <2>2, PagesOfAdd
  <2> QED
    BY <2>1, <2>2, <2>3, <1>1, <1>2
<1>6. ASSUME NEW b \in held, Free(b) PROVE Known' = Known
  <2>1. FreePages = PagesOf(FreeBlocks) /\ FreePages' = PagesOf(FreeBlocks) \cup Pages(b)
    BY <1>6, HandTaken
  <2>2. held' = held \ {b} /\ resv' = resv
    BY <1>6 DEF Free
  <2>3. PagesOf(held) = PagesOf(held') \cup Pages(b)
    <3>1. held = (held \ {b}) \cup {b}
      OBVIOUS
    <3>2. PagesOf((held \ {b}) \cup {b}) = PagesOf(held \ {b}) \cup Pages(b)
      BY PagesOfAdd, Zenon
    <3> QED
      BY <3>1, <3>2, <2>2
  <2> QED
    BY <2>1, <2>2, <2>3, <1>1, <1>2
<1>7. CASE FreeMaxOrder
  <2>1. pc = "free" /\ held' = held /\ resv' = resv
    BY <1>7 DEF FreeMaxOrder
  <2>2. /\ cur \in Page /\ ord \in Orders /\ cur % Pow2[ord] = 0
        /\ PagesOf(Hand) = Pages(<<cur, ord>>)
    BY <2>1, HandBlock, PagesOfUnion
  <2>3. ord = MAX_ORDER - 1
    BY <2>2, <1>7, Sizes DEF FreeMaxOrder
  <2>4. /\ FreePages' = PagesOf(FreeBlocks)
        /\ FreePages = PagesOf(FreeBlocks) \cup Pages(<<cur, ord>>)
        /\ PagesOf(FreeBlocks) \cap Pages(<<cur, ord>>) = {}
    BY <1>7, HandLeaves
  <2>5. Pages(<<cur, ord>>) \cap (PagesOf(held) \cup PagesOf(resv)) = {}
    BY <2>2, OwnersApart
  <2>6. Known' = Known \ Pages(<<cur, ord>>)
    BY <2>1, <2>4, <2>5, <1>1, <1>2
  <2> QED
    BY <2>2, <2>3, <2>6
<1>8. CASE UNCHANGED vars
  BY <1>8, <1>1, <1>2 DEF vars, FreePages, FreeBlocks, Hand, PagesOf, Pages
<1>9. ~ Boot
  BY DEF Boot, ReserveCall, SplitStart, SplitEnd, SplitDone, Take, ReserveReturn,
         BootDone, Booting
<1>10. CASE Call
  <2>1. \A size \in 0 .. MAX_ALLOC_SIZE + 1 : size \in Nat
    OBVIOUS
  <2> QED
    BY <2>1, <1>4, <1>6, <1>8, <1>10 DEF Call, AllocNull, FreeIgnored
<1>11. CASE Step
  BY <1>3, <1>5, <1>7, <1>11 DEF Step
<1> QED
  BY <1>9, <1>10, <1>11 DEF Next

\* Every step keeps what is lost to whole blocks of the largest order.
LEMMA LostStep ==
    ASSUME IInv, LostOnlyMaxOrder, ~ Booting, [Next]_vars
    PROVE  LostOnlyMaxOrder'
<1> DEFINE M == MAX_ORDER - 1
           W(x) == Pages(<<Base(x, M), M>>)
<1>1. \A x \in Page \ Known : W(x) \cap Known = {}
  BY DEF LostOnlyMaxOrder, Known
<1> SUFFICES ASSUME NEW x \in Page \ Known' PROVE W(x) \cap Known' = {}
  BY DEF LostOnlyMaxOrder, Known, PagesOf, Pages, Base
<1>2. CASE Known' = Known
  BY <1>1, <1>2
<1>3. CASE UNCHANGED vars
  <2>1. Known' = Known
    BY <1>3 DEF vars, Known, Blocks, FreeBlocks, Hand, PagesOf, Pages
  <2> QED
    BY <2>1, <1>2
<1>4. ASSUME Known' = Known \ Pages(<<cur, ord>>), ord = M,
             cur \in Page, ord \in Orders, cur % Pow2[ord] = 0
      PROVE  W(x) \cap Known' = {}
  <2>1. CASE x \notin Known
    BY <2>1, <1>1, <1>4
  <2>2. CASE x \in Pages(<<cur, ord>>)
    <3>1. /\ Base(x, ord) \in Page /\ Base(x, ord) <= x /\ x < Base(x, ord) + Pow2[ord]
          /\ Base(x, ord) % Pow2[ord] = 0
      BY <1>4, BaseBlock
    <3>2. cur <= x /\ x < cur + Pow2[ord] /\ x \in Int
      <4>1. <<cur, ord>>[1] = cur /\ <<cur, ord>>[2] = ord /\ <<cur, ord>> \in Page \X Orders
        BY <1>4
      <4> QED
        BY <4>1, <2>2, InPages
    <3>3. ord <= ord
      BY <1>4, Sizes
    <3>4. Base(x, ord) <= cur
      BY <3>1, <3>2, <3>3, <1>4, Nested
    <3>5. cur <= Base(x, ord)
      BY <3>1, <3>2, <3>3, <1>4, Nested
    <3>6. Base(x, ord) = cur
      BY <3>1, <3>4, <3>5, <1>4 DEF Page
    <3> QED
      BY <3>6, <1>4
  <2> QED
    BY <2>1, <2>2, <1>4
<1> QED
  BY <1>2, <1>3, <1>4, KnownStep

-----------------------------------------------------------------------------
(* Buddy implements PageAllocator *)

\* The block that _free was called with lies in the block it has in hand.
OrigInHand == pc = "free" => Pages(orig) \subseteq Pages(<<cur, ord>>)

RInv == IInv /\ Coalesced /\ (~ Booting => LostOnlyMaxOrder) /\ OrigInHand

\* The strengthened invariant holds at first.
LEMMA InitRInv == Init => RInv
<1> SUFFICES ASSUME Init PROVE RInv
  OBVIOUS
<1>1. IInv /\ pc = "boot"
  BY InitInv DEF Init
<1>2. Coalesced
  <2> SUFFICES ASSUME NEW k \in 0 .. MAX_ORDER - 2, NEW p \in Page, Mergeable(p, k)
               PROVE  FALSE
    BY DEF Coalesced
  <2>1. k \in Orders /\ k # MAX_ORDER - 1
    BY NextOrder
  <2>2. free_list[k] = {}
    BY <2>1 DEF Init
  <2> QED
    BY <2>2 DEF Mergeable
<1> QED
  BY <1>1, <1>2 DEF RInv, Booting, OrigInHand

\* Every step preserves it.
LEMMA StepRInv ==
    ASSUME RInv, [Next]_vars
    PROVE  RInv'
<1>1. IInv' /\ Coalesced'
  BY StepInv, CoalescedStep DEF RInv
<1>2. ASSUME ~ Booting' PROVE LostOnlyMaxOrder'
  <2>1. CASE ~ Booting
    BY <2>1, LostStep DEF RInv
  <2>2. CASE Booting
    <3>1. LostOnlyMaxOrder
      BY <2>2, BootKnown DEF RInv
    <3>2. BootDone
      BY <2>2, <1>2 DEF Next, Boot, ReserveCall, SplitStart, SplitEnd, SplitDone, Take,
         ReserveReturn, Step, AllocSplit, AllocReturn, FreeMerge, FreeInsert, FreeMaxOrder,
         Call, Alloc, AllocNull, Free, FreeIgnored, Booting, vars
    <3>3. UNCHANGED <<free_list, held, resv>> /\ Hand = {} /\ Hand' = {}
      BY <3>2 DEF BootDone, list, Hand
    <3>4. Blocks' = Blocks
      BY <3>3 DEF Blocks, FreeBlocks
    <3> QED
      BY <3>1, <3>4 DEF LostOnlyMaxOrder, PagesOf, Pages, Base
  <2> QED
    BY <2>1, <2>2
<1>3. ASSUME pc' = "free" PROVE Pages(orig') \subseteq Pages(<<cur', ord'>>)
  <2>1. CASE FreeMerge
    <3>1. Pages(<<cur, ord>>) \subseteq Pages(<<cur', ord'>>)
      BY <2>1, FreeMergePages DEF RInv
    <3>2. orig' = orig /\ pc = "free"
      BY <2>1 DEF FreeMerge
    <3> QED
      BY <3>1, <3>2 DEF RInv, OrigInHand
  <2>2. ASSUME NEW b \in held, Free(b) PROVE Pages(orig') \subseteq Pages(<<cur', ord'>>)
    <3>1. b = <<cur', ord'>> /\ orig' = b
      BY <2>2, HandTaken DEF RInv, Free
    <3> QED
      BY <3>1
  <2>3. CASE UNCHANGED vars
    BY <2>3, <1>3 DEF vars, RInv, OrigInHand
  <2>4. FreeMerge \/ (\E b \in held : Free(b)) \/ UNCHANGED vars
    BY <1>3 DEF Next, Boot, ReserveCall, SplitStart, SplitEnd, SplitDone, Take,
       ReserveReturn, BootDone, Step, AllocSplit, AllocReturn, FreeInsert, FreeMaxOrder,
       Call, Alloc, AllocNull, FreeIgnored
  <2> QED
    BY <2>1, <2>2, <2>3, <2>4
<1>4. OrigInHand'
  BY <1>3 DEF OrigInHand, Pages
<1> QED
  BY <1>1, <1>2, <1>4 DEF RInv

\* It holds in every reachable state.
THEOREM StrongInvariance == Spec => []RInv
<1>1. Init => RInv
  BY InitRInv
<1>2. RInv /\ [Next]_vars => RInv'
  BY StepRInv
<1> QED
  BY <1>1, <1>2, PTL DEF Spec

\* Whenever no call is running, free pages that make up an aligned run of a power of two
\* lie in one listed block: _free merges with every free buddy, at every order, and
\* what reserve and _alloc cut off is never left next to its free other half.
THEOREM RunsAreListed == Spec => []FreeRunIsBlock
<1>1. RInv => FreeRunIsBlock
  BY FreeRuns DEF RInv
<1> QED
  BY <1>1, StrongInvariance, PTL

\* A page is free, owned, reserved or in hand at every step, unless _free has dropped
\* the whole block of the largest order around it.
THEOREM NothingSmallerLost == Spec => []LostOnlyMaxOrder
<1>1. RInv => LostOnlyMaxOrder
  BY BootKnown DEF RInv
<1> QED
  BY <1>1, StrongInvariance, PTL

heldBar == held \cup Freeing

\* The names of PageAllocator mean what they mean here.
LEMMA SameNames ==
    /\ PA!Orders = Orders /\ PA!Page = Page
    /\ \A b : PA!Run(b) = Pages(b)
    /\ \A b : PA!Whole(b) = Pages(<<Base(b[1], MAX_ORDER - 1), MAX_ORDER - 1>>)
<1>1. PA!Orders = Orders /\ PA!Page = Page
  BY DEF PA!Orders, PA!Page, Orders, Page, PAGE_NUM, MAX_BLOCK_SIZE
<1>2. \A b : PA!Run(b) = Pages(b)
  BY DEF PA!Run, Pages
<1>3. \A b : PA!Whole(b) = Pages(<<Base(b[1], MAX_ORDER - 1), MAX_ORDER - 1>>)
  BY DEF PA!Whole, Pages, Base
<1> QED
  BY <1>1, <1>2, <1>3

\* What is available, and what is owned, once the kernel is up.
Serving ==
    /\ pc = "free" => availBar = FreePages \ Pages(orig) /\ heldBar = held \cup {orig}
    /\ pc # "free" => availBar = FreePages /\ heldBar = held

\* Once the boot is over, the abstract allocator sees what _alloc and _free serve.
LEMMA AvailBar == IInv /\ ~ Booting => Serving
<1> SUFFICES ASSUME IInv, ~ Booting PROVE Serving
  OBVIOUS
<1>1. pc \in {"idle", "alloc", "free"}
  BY DEF IInv, TypeOK, Booting
<1>2. availBar = FreePages \ PagesOf(Freeing)
  BY <1>1 DEF availBar, FreePages
<1>3. CASE pc = "free"
  <2>1. Freeing = {orig}
    BY <1>3 DEF Freeing
  <2>2. PagesOf({orig}) = Pages(orig)
    BY PagesOfUnion
  <2> QED
    BY <2>1, <2>2, <1>2, <1>3 DEF heldBar, Serving
<1>4. CASE pc # "free"
  <2>1. Freeing = {} /\ PagesOf({}) = {}
    BY <1>4 DEF Freeing, PagesOf
  <2> QED
    BY <2>1, <1>2, <1>4 DEF heldBar, Serving
<1> QED
  BY <1>3, <1>4

\* The same in the next state.
LEMMA AvailBarNext ==
    ASSUME IInv', ~ Booting'
    PROVE  /\ pc' = "free" => availBar' = FreePages' \ Pages(orig') /\ heldBar' = held' \cup {orig'}
           /\ pc' # "free" => availBar' = FreePages' /\ heldBar' = held'
<1>1. (IInv /\ ~ Booting => Serving)'
  BY AvailBar, PTL
<1> QED
  BY <1>1 DEF Serving, Pages

\* A step of the page allocator, or none.
AStep == PA!Next \/ UNCHANGED <<availBar, heldBar>>

\* While booting nothing changes for the clients.
LEMMA BootRefines ==
    ASSUME IInv, IInv', Booting, [Next]_vars
    PROVE  AStep
<1>1. held = {} /\ heldBar = {}
  BY DEF IInv, BootState, heldBar, Freeing, Booting
<1>2. availBar = Page \ UNION {RegionPages(n) : n \in 1 .. Len(regions)}
  BY DEF availBar, Booting
<1>3. CASE BootDone
  <2>1. /\ pc = "boot" /\ pc' = "idle" /\ nreg > Len(regions)
        /\ UNCHANGED <<free_list, regions, nreg, held, resv>>
    BY <1>3 DEF BootDone, list
  <2>2. Hand = {} /\ Hand' = {} /\ FreeBlocks' = FreeBlocks
    BY <2>1 DEF Hand, FreeBlocks
  <2>3. FreePages = PagesOf(FreeBlocks) /\ FreePages' = PagesOf(FreeBlocks)
    BY <2>2 DEF FreePages, PagesOf, Pages
  <2>4. availBar' = FreePages' /\ heldBar' = held'
    BY <2>1, AvailBarNext DEF Booting
  <2>5. nreg - 1 = Len(regions)
    <3>1. nreg \in 1 .. Len(regions) + 1 /\ Len(regions) \in Nat
      BY RegionFacts DEF IInv, TypeOK
    <3> QED
      BY <3>1, <2>1
  <2>6. PagesOf(resv) = UNION {RegionPages(n) : n \in 1 .. Len(regions)}
    BY <2>1, <2>5, ReservedPages
  <2>7. PagesOf(FreeBlocks) = Page \ PagesOf(resv)
    <3>1. PagesOf(FreeBlocks) \cap PagesOf(resv) = {}
      BY <2>3, OwnersApart
    <3>2. ASSUME NEW x \in Page PROVE x \in PagesOf(FreeBlocks) \cup PagesOf(resv)
      <4>1. PICK k \in Orders : BlockAt(Base(x, k), k)
        BY DEF IInv, BootState
      <4>2. Base(x, k) \in Page /\ Base(x, k) <= x /\ x < Base(x, k) + Pow2[k]
        BY BaseBlock
      <4>3. x \in Pages(<<Base(x, k), k>>)
        <5>1. <<Base(x, k), k>>[1] = Base(x, k) /\ <<Base(x, k), k>>[2] = k /\ x \in Int
              /\ <<Base(x, k), k>> \in Page \X Orders
          BY <4>2 DEF Page
        <5> QED
          BY <5>1, <4>2, InPages
      <4>4. <<Base(x, k), k>> \in FreeBlocks \cup resv
        BY <4>1, <4>2 DEF BlockAt, FreeBlocks
      <4> QED
        BY <4>3, <4>4 DEF PagesOf
    <3>3. PagesOf(FreeBlocks) \subseteq Page
      <4> SUFFICES ASSUME NEW b \in FreeBlocks, NEW x \in Pages(b) PROVE x \in Page
        BY DEF PagesOf
      <4>1. b \in Page \X Orders /\ b[1] % Pow2[b[2]] = 0
        <5>1. <<"free", b>> \in Blocks
          BY DEF Blocks
        <5> QED
          BY <5>1 DEF IInv, Aligned
      <4>2. b[1] \in Page /\ b[2] \in Orders /\ x \in Int /\ b[1] <= x /\ x < b[1] + Pow2[b[2]]
        BY <4>1, InPages
      <4>3. b[1] + Pow2[b[2]] <= PAGE_NUM
        BY <4>1, <4>2, AlignedBase
      <4>4. b[1] \in Nat /\ Pow2[b[2]] \in Nat /\ PAGE_NUM \in Nat
        BY <4>2, Sizes DEF Page
      <4> QED
        BY <4>2, <4>3, <4>4 DEF Page
    <3> QED
      BY <3>1, <3>2, <3>3
  <2>8. availBar' = availBar
    BY <2>3, <2>4, <2>6, <2>7, <1>2
  <2> QED
    BY <2>1, <2>4, <2>8, <1>1 DEF AStep
<1>4. CASE ~ BootDone
  <2>1. Booting' /\ regions' = regions
    BY <1>4 DEF Next, Boot, ReserveCall, SplitStart, SplitEnd, SplitDone, Take,
       ReserveReturn, Step, AllocSplit, AllocReturn, FreeMerge, FreeInsert, FreeMaxOrder,
       Call, Alloc, AllocNull, Free, FreeIgnored, Booting, vars
  <2>2. held' = {} /\ heldBar' = {}
    BY <2>1 DEF IInv, BootState, heldBar, Freeing, Booting
  <2>3. availBar' = Page \ UNION {RegionPages(n) : n \in 1 .. Len(regions)}
    BY <2>1 DEF availBar, Booting, RegionPages, start_idx, end_idx
  <2> QED
    BY <2>2, <2>3, <1>1, <1>2 DEF AStep
<1> QED
  BY <1>3, <1>4

\* Splits, merges and the start of a call are invisible.
LEMMA InvisibleStep ==
    ASSUME IInv, IInv', ~ Booting, ~ Booting', FreePages' = FreePages,
           UNCHANGED <<held, orig>>, pc = "free" <=> pc' = "free"
    PROVE  UNCHANGED <<availBar, heldBar>>
<1>1. Serving
  BY AvailBar
<1> QED
  BY <1>1, AvailBarNext DEF Serving, Pages

\* _alloc returns: an aligned run of available pages is taken.
LEMMA AllocRefines ==
    ASSUME IInv, IInv', AllocReturn
    PROVE  PA!Next
<1> DEFINE b == <<cur, ord>>
<1>1. pc = "alloc" /\ pc' = "idle" /\ held' = held \cup {b}
  BY Sizes DEF AllocReturn, IInv, CallState, TypeOK
<1>2. availBar = FreePages /\ heldBar = held /\ availBar' = FreePages' /\ heldBar' = held'
  BY <1>1, AvailBar, AvailBarNext DEF Serving, Booting
<1>3. b \in Page \X Orders /\ b[1] % Pow2[b[2]] = 0
  BY <1>1, HandBlock
<1>4. /\ FreePages' = PagesOf(FreeBlocks)
      /\ FreePages = PagesOf(FreeBlocks) \cup Pages(b)
      /\ PagesOf(FreeBlocks) \cap Pages(b) = {}
  BY HandLeaves
<1> HIDE DEF b
<1>5. PA!Fits(b)
  BY <1>2, <1>3, <1>4, SameNames DEF PA!Fits
<1>6. availBar' = availBar \ PA!Run(b)
  BY <1>2, <1>4, SameNames
<1>7. heldBar' = heldBar \cup {b}
  BY <1>1, <1>2
<1>8. PA!Alloc(b)
  BY <1>5, <1>6, <1>7 DEF PA!Alloc, heldBar
<1> QED
  BY <1>3, <1>8, SameNames DEF PA!Next

\* The block a running _free was given: it is in hand, and no longer owned.
LEMMA OrigFacts ==
    ASSUME RInv, pc = "free"
    PROVE  /\ orig \in Page \X Orders /\ orig[1] \in Pages(orig)
           /\ Pages(orig) \subseteq Pages(<<cur, ord>>) /\ Pages(<<cur, ord>>) \subseteq FreePages
           /\ orig \notin held
           /\ availBar = FreePages \ Pages(orig) /\ heldBar = held \cup {orig}
<1>1. orig \in Page \X Orders /\ Pages(orig) \subseteq Pages(<<cur, ord>>)
  BY DEF RInv, IInv, TypeOK, OrigInHand
<1>2. orig[1] \in Pages(orig)
  BY <1>1, InPages
<1>3. Pages(<<cur, ord>>) \subseteq FreePages
  BY HandBlock DEF RInv
<1>4. orig \notin held
  BY <1>1, <1>2, <1>3, OwnersApart DEF RInv
<1>5. availBar = FreePages \ Pages(orig) /\ heldBar = held \cup {orig}
  BY AvailBar DEF RInv, Serving, Booting
<1> QED
  BY <1>1, <1>2, <1>3, <1>4, <1>5

\* _free lists its block: the pages it was given become available, and the free pages
\* do not make up a whole block of the largest order.
LEMMA FreeRefines ==
    ASSUME RInv, RInv', FreeInsert
    PROVE  PA!Next
<1> DEFINE M == MAX_ORDER - 1
           first == Base(orig[1], M)
<1>1. /\ IInv /\ IInv' /\ pc = "free" /\ pc' = "idle" /\ held' = held /\ orig' = orig
      /\ ord < M
  BY DEF RInv, FreeInsert
<1>2. /\ orig \in Page \X Orders /\ orig[1] \in Pages(orig)
      /\ Pages(orig) \subseteq Pages(<<cur, ord>>) /\ Pages(<<cur, ord>>) \subseteq FreePages
      /\ orig \notin held
      /\ availBar = FreePages \ Pages(orig) /\ heldBar = held \cup {orig}
  BY <1>1, OrigFacts
<1>3. availBar' = FreePages' /\ heldBar' = held'
  BY <1>1, AvailBarNext DEF Booting
<1>4. FreePages' = FreePages
  BY <1>1, FreeInsertPages
<1>5. M \in Orders /\ first \in Page /\ first % Pow2[M] = 0 /\ <<first, M>> \in Page \X Orders
  BY <1>2, Sizes, BaseBlock
<1>6. ASSUME Pages(<<first, M>>) \subseteq FreePages PROVE FALSE
  <2>1. FreePages' = PagesOf(FreeBlocks')
    <3>1. Hand' = {}
      BY <1>1 DEF Hand
    <3> QED
      BY <3>1 DEF FreePages, PagesOf, Pages
  <2>2. Base(first, M) = first
    BY <1>5, AlignedBase
  <2>3. FreeRunIsBlock'
    <3>1. (IInv /\ Coalesced => FreeRunIsBlock)'
      BY FreeRuns, PTL
    <3> QED
      BY <3>1 DEF RInv
  <2> HIDE DEF first, M
  <2>4. \E b \in FreeBlocks' : Pages(<<first, M>>) \subseteq Pages(b)
    <3>1. \A k \in Orders : \A p \in Page :
            /\ Base(p, k) = p
            /\ Pages(<<p, k>>) \subseteq PagesOf(FreeBlocks')
            => \E b \in FreeBlocks' : Pages(<<p, k>>) \subseteq Pages(b)
      BY <2>3, <1>1 DEF FreeRunIsBlock, Base, Pages, PagesOf
    <3>2. Pages(<<first, M>>) \subseteq PagesOf(FreeBlocks')
      BY <2>1, <1>4, <1>6
    <3> QED
      BY <3>1, <3>2, <2>2, <1>5
  <2>5. PICK b \in FreeBlocks' : Pages(<<first, M>>) \subseteq Pages(b)
    BY <2>4
  <2>6. <<cur, ord>> \in FreeBlocks' /\ <<cur, ord>> \in Page \X Orders
    <3>1. cur \in Page /\ ord \in Orders
      BY <1>1, HandBlock
    <3>2. free_list' = [free_list EXCEPT ![ord] = @ \cup {cur}]
      BY <3>1 DEF FreeInsert, add_to_free_list
    <3> QED
      BY <3>1, <3>2, <1>1 DEF FreeBlocks, IInv, TypeOK
  <2>7. b \in Page \X Orders /\ <<"free", b>> \in Blocks' /\ <<"free", <<cur, ord>>>> \in Blocks'
    BY <2>6 DEF Blocks, FreeBlocks
  <2>8. M <= b[2]
    <3>1. <<first, M>>[1] = first /\ <<first, M>>[2] = M
      OBVIOUS
    <3>2. b[1] <= first /\ first + Pow2[M] <= b[1] + Pow2[b[2]]
      BY <3>1, <2>5, <2>7, <1>5, InPages
    <3>3. b[1] \in Page /\ b[2] \in Orders
      BY <2>7
    <3> QED
      BY <3>2, <3>3, <1>5, CoversLarger
  <2>9. b # <<cur, ord>>
    <3>1. ord \in Nat /\ M \in Nat
      BY <1>5, <2>6, Sizes
    <3>2. ~ (M <= ord)
      BY <3>1, <1>1 DEF M
    <3> QED
      BY <3>2, <2>8
  <2>10. Apart(b, <<cur, ord>>)
    <3>1. <<"free", b>>[2] = b /\ <<"free", <<cur, ord>>>>[2] = <<cur, ord>>
          /\ <<"free", b>> # <<"free", <<cur, ord>>>>
      BY <2>9
    <3>2. \A c, d \in Blocks' : c # d => Apart(c[2], d[2])
      BY <1>1 DEF IInv, NoOverlap, Apart
    <3>3. Apart(<<"free", b>>[2], <<"free", <<cur, ord>>>>[2])
      BY <3>1, <3>2, <2>7, Zenon
    <3> QED
      BY <3>1, <3>3
  <2>11. orig[1] \in Pages(b) /\ orig[1] \in Pages(<<cur, ord>>)
    <3>1. first <= orig[1] /\ orig[1] < first + Pow2[M] /\ orig[1] \in Int
      BY <1>2, <1>5, BaseBlock DEF first, Page
    <3>2. <<first, M>>[1] = first /\ <<first, M>>[2] = M
      OBVIOUS
    <3>3. orig[1] \in Pages(<<first, M>>)
      BY <3>1, <3>2, <1>5, InPages
    <3> QED
      BY <3>3, <2>5, <1>2
  <2>12. b[1] <= orig[1] /\ orig[1] < b[1] + Pow2[b[2]] /\ orig[1] \in Int
         /\ b[1] \in Nat /\ Pow2[b[2]] \in Nat
    BY <2>7, <2>11, InPages
  <2>13. cur <= orig[1] /\ orig[1] < cur + Pow2[ord] /\ cur \in Nat /\ Pow2[ord] \in Nat
    <3>1. <<cur, ord>>[1] = cur /\ <<cur, ord>>[2] = ord
      OBVIOUS
    <3> QED
      BY <3>1, <2>6, <2>11, InPages
  <2> QED
    BY <2>10, <2>12, <2>13 DEF Apart
<1>7. ~ (PA!Whole(orig) \subseteq availBar \cup PA!Run(orig))
  <2>1. availBar \cup Pages(orig) = FreePages
    BY <1>2
  <2> QED
    BY <2>1, <1>6, SameNames
<1>8. availBar' = availBar \cup PA!Run(orig)
  BY <1>2, <1>3, <1>4, SameNames
<1>9. heldBar' = heldBar \ {orig} /\ orig \in heldBar
  BY <1>1, <1>2, <1>3
<1>10. PA!Free(orig)
  BY <1>7, <1>8, <1>9 DEF PA!Free, heldBar
<1> QED
  BY <1>9, <1>10 DEF PA!Next, heldBar

\* _free drops a block of the largest order: it is the whole block around the pages
\* it was given, and all the rest of it was free.
LEMMA DropRefines ==
    ASSUME RInv, RInv', FreeMaxOrder
    PROVE  PA!Next
<1> DEFINE M == MAX_ORDER - 1
           first == Base(orig[1], M)
<1>1. /\ IInv /\ IInv' /\ pc = "free" /\ pc' = "idle" /\ held' = held /\ orig' = orig
  BY DEF RInv, FreeMaxOrder
<1>2. /\ orig \in Page \X Orders /\ orig[1] \in Pages(orig)
      /\ Pages(orig) \subseteq Pages(<<cur, ord>>) /\ Pages(<<cur, ord>>) \subseteq FreePages
      /\ orig \notin held
      /\ availBar = FreePages \ Pages(orig) /\ heldBar = held \cup {orig}
  BY <1>1, OrigFacts
<1>3. availBar' = FreePages' /\ heldBar' = held'
  BY <1>1, AvailBarNext DEF Booting
<1>4. /\ FreePages' = PagesOf(FreeBlocks)
      /\ FreePages = PagesOf(FreeBlocks) \cup Pages(<<cur, ord>>)
      /\ PagesOf(FreeBlocks) \cap Pages(<<cur, ord>>) = {}
  BY <1>1, HandLeaves
<1>5. cur \in Page /\ ord \in Orders /\ cur % Pow2[ord] = 0 /\ <<cur, ord>> \in Page \X Orders
  BY <1>1, HandBlock
<1>6. ord = M
  BY <1>5, Sizes DEF FreeMaxOrder
<1>7. first = cur
  <2>1. /\ first \in Page /\ first % Pow2[ord] = 0 /\ first <= orig[1]
        /\ orig[1] < first + Pow2[ord]
    BY <1>2, <1>5, <1>6, BaseBlock
  <2>2. cur <= orig[1] /\ orig[1] < cur + Pow2[ord] /\ orig[1] \in Int
    <3>1. <<cur, ord>>[1] = cur /\ <<cur, ord>>[2] = ord
      OBVIOUS
    <3>2. orig[1] \in Pages(<<cur, ord>>)
      BY <1>2
    <3> QED
      BY <3>1, <3>2, <1>5, InPages
  <2> HIDE DEF first
  <2>3. ord <= ord
    BY <1>5, Sizes
  <2>4. first <= cur
    BY <2>1, <2>2, <2>3, <1>5, Nested
  <2>5. cur <= first
    BY <2>1, <2>2, <2>3, <1>5, Nested
  <2> QED
    BY <2>1, <2>4, <2>5, <1>5 DEF Page
<1>8. PA!Whole(orig) = Pages(<<cur, ord>>)
  BY <1>6, <1>7, SameNames
<1>9. PA!Whole(orig) \subseteq availBar \cup PA!Run(orig)
  BY <1>2, <1>8, SameNames
<1>10. availBar' = availBar \ PA!Whole(orig)
  BY <1>2, <1>3, <1>4, <1>8
<1>11. heldBar' = heldBar \ {orig} /\ orig \in heldBar
  BY <1>1, <1>2, <1>3
<1>12. PA!Drop(orig)
  BY <1>9, <1>10, <1>11 DEF PA!Drop, heldBar
<1> QED
  BY <1>11, <1>12 DEF PA!Next, heldBar

\* Every step is a step of the page allocator, or changes nothing for its clients.
LEMMA StepRefines ==
    ASSUME RInv, RInv', [Next]_vars
    PROVE  AStep
<1>0. IInv /\ IInv'
  BY DEF RInv
<1>1. CASE Booting
  BY <1>0, <1>1, BootRefines
<1>2. ASSUME AllocSplit \/ FreeMerge PROVE AStep
  <2>1. FreePages' = FreePages
    BY <1>0, <1>2, AllocSplitPages, FreeMergePages
  <2>2. /\ ~ Booting /\ ~ Booting' /\ UNCHANGED <<held, orig>>
        /\ pc = "free" <=> pc' = "free"
    BY <1>2 DEF AllocSplit, FreeMerge, Booting
  <2> QED
    BY <2>1, <2>2, <1>0, InvisibleStep DEF AStep
<1>3. ASSUME NEW size \in Nat, Alloc(size) PROVE AStep
  <2>1. FreePages' = FreePages
    BY <1>0, <1>3, AllocPages
  <2>2. /\ ~ Booting /\ ~ Booting' /\ UNCHANGED <<held, orig>>
        /\ pc = "free" <=> pc' = "free"
    BY <1>3 DEF Alloc, Booting
  <2> QED
    BY <2>1, <2>2, <1>0, InvisibleStep DEF AStep
<1>4. ASSUME NEW b \in held, Free(b) PROVE AStep
  <2>1. /\ pc = "idle" /\ pc' = "free" /\ ~ Booting /\ ~ Booting'
        /\ held' = held \ {b} /\ orig' = b
    BY <1>4 DEF Free, Booting
  <2>2. /\ FreePages = PagesOf(FreeBlocks) /\ FreePages' = PagesOf(FreeBlocks) \cup Pages(b)
        /\ PagesOf(FreeBlocks) \cap Pages(b) = {}
    BY <1>0, <1>4, HandTaken
  <2>3. availBar = FreePages /\ heldBar = held
    BY <2>1, <1>0, AvailBar DEF Serving
  <2>4. availBar' = FreePages' \ Pages(b) /\ heldBar' = held' \cup {b}
    BY <2>1, <1>0, AvailBarNext
  <2> QED
    BY <2>1, <2>2, <2>3, <2>4 DEF AStep
<1>5. CASE UNCHANGED vars
  BY <1>5 DEF AStep, vars, availBar, heldBar, Freeing, PagesOf, Pages, FreeBlocks, Hand,
     RegionPages, start_idx, end_idx
<1>6. CASE AllocReturn \/ FreeInsert \/ FreeMaxOrder
  BY <1>0, <1>6, AllocRefines, FreeRefines, DropRefines DEF AStep
<1>7. CASE Boot
  BY <1>7, <1>1 DEF Boot, ReserveCall, SplitStart, SplitEnd, SplitDone, Take, ReserveReturn,
         BootDone, Booting
<1>8. CASE Step
  BY <1>8, <1>2, <1>6 DEF Step
<1>9. CASE Call
  <2>1. \A size \in 0 .. MAX_ALLOC_SIZE + 1 : size \in Nat
    OBVIOUS
  <2> QED
    BY <2>1, <1>3, <1>4, <1>5, <1>9 DEF Call, AllocNull, FreeIgnored
<1> QED
  BY <1>5, <1>7, <1>8, <1>9 DEF Next

\* At boot nothing is owned, and the pages of the regions, page 0 among them, are
\* reserved.
LEMMA InitRefines == Init => PA!Init
<1> SUFFICES ASSUME Init PROVE PA!Init
  OBVIOUS
<1>1. pc = "boot" /\ held = {} /\ regions \in BootRegions
  BY DEF Init
<1> DEFINE R == Page \cap UNION {RegionPages(n) : n \in 1 .. Len(regions)}
<1>2. availBar = Page \ R
  BY <1>1 DEF availBar
<1>3. held \cup Freeing = {}
  BY <1>1 DEF Freeing
<1>4. 0 \in R
  <2>1. PICK n \in 1 .. Len(regions) : start_idx(n) = 0
    BY <1>1, RegionFacts
  <2>2. end_idx(n) \in Nat /\ 0 \in Page
    BY <2>1, <1>1, RegionFacts, RegionNat, Sizes DEF Page
  <2>3. 0 \in RegionPages(n)
    BY <2>1, <2>2 DEF RegionPages
  <2> QED
    BY <2>2, <2>3
<1>5. R \in SUBSET Page
  OBVIOUS
<1> HIDE DEF R
<1> QED
  BY <1>2, <1>3, <1>4, <1>5, SameNames DEF PA!Init

\* The page allocator of mm.c behaves, for every number of orders, memory size and
\* list of boot regions, as the atomic allocator of PageAllocator.
THEOREM Refinement == Spec => ImplementsPageAllocator
<1>1. Init => PA!Init
  BY InitRefines
<1>2. RInv /\ RInv' /\ [Next]_vars => [PA!Next]_<<availBar, held \cup Freeing>>
  BY StepRefines DEF AStep, heldBar
<1> QED
  BY <1>1, <1>2, StrongInvariance, PTL DEF Spec, ImplementsPageAllocator, PA!Spec

==============================================================================
