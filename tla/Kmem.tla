-------------------------------- MODULE Kmem --------------------------------
(***************************************************************************)
(* The allocator every part of the kernel calls: src/src/alloc.c.          *)
(* simple_alloc bumps a pointer; alloc serves small requests from chunks   *)
(* (kmalloc, kfree) and large ones from the page allocator, of which this  *)
(* module uses the abstract specification PageAllocator.                   *)
(*                                                                         *)
(* Addresses are numbers and NULL is 0, the address of the reserved page   *)
(* 0.  A chunk is a header of ENTRY bytes and 2^k bytes for the caller;    *)
(* free_list[o] is the list of the headers of the free chunks of 2^(o+4)   *)
(* bytes, the last one freed first.                                        *)
(*                                                                         *)
(* A slot is a pointer variable of some thread or interrupt handler, which *)
(* fills it by one allocation at a time: pc[s] is where the call is, ptr[s]*)
(* what it returned and req[s] the size asked for.  Interrupts are enabled *)
(* while alloc runs in a system call, and the timer handler allocates: if  *)
(* Interruptible, other calls run between the steps of kmalloc.  A call of *)
(* _alloc or _free, and a push or a pop of a free list, is one step.       *)
(***************************************************************************)
EXTENDS Integers, Sequences, FiniteSets, Functions

CONSTANTS MAX_ORDER, MAX_BLOCKS, Pow2, PAGE_SIZE,
          ENTRY,            \* sizeof(struct kmem_cache_entry)
          MIN_CACHE_ORDER, CACHE_NUM,
          HEAP_START,       \* &__bss_end
          HEAP_END,         \* &__stack_top
          Slot,             \* the callers' pointer variables
          Sizes,            \* the sizes they ask for
          Interruptible

VARIABLES avail, held,      \* of the page allocator
          cache_order,      \* page_list[p].cache_order
          free_list,        \* kmem_caches[o].free_list
          booted,           \* the next cache that kmem_cache_init sets up
          heap_ptr,
          pc, req, entry, ptr

PA == INSTANCE PageAllocator

Page == PA!Page
NULL == 0
Cache == 0 .. CACHE_NUM - 1
MAX_CHUNK_SIZE == Pow2[MIN_CACHE_ORDER + CACHE_NUM - 1]
MAX_ALLOC_SIZE == PAGE_SIZE * Pow2[MAX_ORDER - 1]
cache_size(o) == Pow2[o + MIN_CACHE_ORDER]
Stride(o) == cache_size(o) + ENTRY
chunk_num(o) == PAGE_SIZE \div Stride(o)
PageOf(a) == a \div PAGE_SIZE

ASSUME KmemAssumption ==
    /\ PAGE_SIZE \in Nat \ {0} /\ ENTRY \in Nat \ {0} /\ CACHE_NUM \in Nat \ {0}
    /\ MIN_CACHE_ORDER \in Nat
    /\ \A o \in Cache : cache_size(o) \in Nat \ {0} /\ chunk_num(o) \in Nat /\ chunk_num(o) > 1
    /\ MAX_ORDER \in Nat \ {0} /\ MAX_BLOCKS \in Nat \ {0}
    /\ Pow2[0] = 1 /\ \A k \in PA!Orders : Pow2[k] \in Nat \ {0}
    /\ HEAP_START \in Nat \ {0} /\ HEAP_END \in Nat /\ HEAP_START < HEAP_END
    /\ Sizes \subseteq Nat \ {0}   \* alloc(0) is NULL, and simple_alloc(0) hands out no byte
    /\ Interruptible \in BOOLEAN

vars == <<avail, held, cache_order, free_list, booted, heap_ptr, pc, req, entry, ptr>>
pages == <<avail, held>>
caches == <<cache_order, free_list, booted>>
calls == <<pc, req, entry, ptr>>

-----------------------------------------------------------------------------
(* Boot: main() has reserved page 0 and the kernel with its heap *)

HeapPages == {p \in Page : PageOf(HEAP_START) <= p /\ p <= PageOf(HEAP_END - 1)}

Init ==
    /\ PA!Init /\ avail \cap HeapPages = {}
    /\ cache_order = [p \in Page |-> -1]
    /\ free_list = [o \in Cache |-> <<>>]
    /\ booted = 0
    /\ heap_ptr = HEAP_START
    /\ pc = [s \in Slot |-> "idle"]
    /\ req = [s \in Slot |-> 0]
    /\ entry = [s \in Slot |-> NULL]
    /\ ptr = [s \in Slot |-> NULL]

\* n chunks of page p are pushed, one after the other.
Pushed(p, o, n) ==
    [j \in 1 .. n |-> p * PAGE_SIZE + (n - j) * Stride(o)] \o free_list[o]

\* Page p becomes n chunks of cache o.
Carve(p, o, n) ==
    /\ PA!Alloc(<<p, 0>>)
    /\ cache_order' = [cache_order EXCEPT ![p] = o + MIN_CACHE_ORDER]
    /\ free_list' = [free_list EXCEPT ![o] = Pushed(p, o, n)]

\* One cache is set up; without a page kmem_cache_init gives up.
kmem_cache_init ==
    /\ booted < CACHE_NUM
    /\ \/ /\ \E p \in Page : Carve(p, booted, chunk_num(booted))
          /\ booted' = booted + 1
       \/ /\ avail = {}
          /\ booted' = CACHE_NUM
          /\ UNCHANGED <<pages, cache_order, free_list>>
    /\ UNCHANGED <<heap_ptr, calls>>

-----------------------------------------------------------------------------
(* A caller's turn *)

Undisturbed(s) == Interruptible \/ \A u \in Slot \ {s} : pc[u] = "idle"
Ready(s) == booted = CACHE_NUM /\ pc[s] = "idle" /\ Undisturbed(s)
Empty(s) == Ready(s) /\ ptr[s] = NULL

\* The call for n bytes in slot s returns a.
Return(s, a, n) ==
    /\ ptr' = [ptr EXCEPT ![s] = a]
    /\ req' = [req EXCEPT ![s] = IF a = NULL THEN 0 ELSE n]
    /\ pc' = [pc EXCEPT ![s] = "idle"]
    /\ entry' = [entry EXCEPT ![s] = NULL]

simple_alloc(s, n) ==
    /\ Empty(s)
    /\ IF heap_ptr + n > HEAP_END
       THEN Return(s, NULL, n) /\ UNCHANGED heap_ptr
       ELSE Return(s, heap_ptr, n) /\ heap_ptr' = heap_ptr + n
    /\ UNCHANGED <<pages, caches>>

\* The order of the smallest block of pages with n bytes.
get_order(n) ==
    CHOOSE k \in PA!Orders : PAGE_SIZE * Pow2[k] >= n /\ \A j \in 0 .. k - 1 : PAGE_SIZE * Pow2[j] < n

\* alloc with a large size: _alloc, or NULL if no block is free.
AllocPages(s, n) ==
    /\ Empty(s) /\ n > MAX_CHUNK_SIZE
    /\ \/ /\ n <= MAX_ALLOC_SIZE
          /\ \E p \in Page : PA!Alloc(<<p, get_order(n)>>) /\ Return(s, p * PAGE_SIZE, n)
       \/ /\ n <= MAX_ALLOC_SIZE => \A p \in Page : ~ PA!Fits(<<p, get_order(n)>>)
          /\ Return(s, NULL, n) /\ UNCHANGED pages
    /\ UNCHANGED <<caches, heap_ptr>>

-----------------------------------------------------------------------------
(* kmalloc *)

\* Mutant: one byte too many fits.
get_chunk_order_short(n) ==
    CHOOSE k \in {o + MIN_CACHE_ORDER : o \in Cache} :
        Pow2[k] >= n - 1 /\ \A j \in MIN_CACHE_ORDER .. k - 1 : Pow2[j] < n - 1

get_chunk_order(n) ==
    CHOOSE k \in {o + MIN_CACHE_ORDER : o \in Cache} :
        Pow2[k] >= n /\ \A j \in MIN_CACHE_ORDER .. k - 1 : Pow2[j] < n

CacheOf(s) == get_chunk_order(req[s]) - MIN_CACHE_ORDER

kmalloc(s, n) ==
    /\ Empty(s) /\ n \in 1 .. MAX_CHUNK_SIZE
    /\ pc' = [pc EXCEPT ![s] = "kmalloc"]
    /\ req' = [req EXCEPT ![s] = n]
    /\ UNCHANGED <<pages, caches, heap_ptr, entry, ptr>>

\* Mutant: an empty free list is not refilled.
request_page_never(s) ==
    /\ pc[s] = "kmalloc" /\ Undisturbed(s)
    /\ pc' = [pc EXCEPT ![s] = "read"]
    /\ UNCHANGED <<pages, caches, heap_ptr, req, entry, ptr>>

\* If the free list is empty a page is requested.  Its last chunk is not used.
request_page(s) ==
    LET o == CacheOf(s)
    IN /\ pc[s] = "kmalloc" /\ Undisturbed(s)
       /\ \/ /\ free_list[o] = <<>>
             /\ \E p \in Page : Carve(p, o, chunk_num(o) - 1)
          \/ /\ free_list[o] # <<>> \/ avail = {}
             /\ UNCHANGED <<pages, cache_order, free_list>>
       /\ pc' = [pc EXCEPT ![s] = "read"]
       /\ UNCHANGED <<booted, heap_ptr, req, entry, ptr>>

\* `entry` is the first free chunk, if there is one.
ReadEntry(s) ==
    LET list == free_list[CacheOf(s)]
    IN /\ pc[s] = "read" /\ Undisturbed(s)
       /\ IF list = <<>>
          THEN Return(s, NULL, req[s])
          ELSE /\ entry' = [entry EXCEPT ![s] = Head(list)]
               /\ pc' = [pc EXCEPT ![s] = "pop"]
               /\ UNCHANGED <<ptr, req>>
       /\ UNCHANGED <<pages, caches, heap_ptr>>

\* Mutant: the chunk stays in the free list.
kmem_freelist_pop_not(s) ==
    /\ pc[s] = "pop" /\ Undisturbed(s)
    /\ Return(s, entry[s] + ENTRY, req[s])
    /\ UNCHANGED <<pages, caches, heap_ptr>>

\* The list, whatever is its head by now, loses its head, and the memory behind
\* `entry` is returned.  (Popping a list that has become empty reads memory at
\* address 0; the model stops there.)
kmem_freelist_pop(s) ==
    LET o == CacheOf(s)
    IN /\ pc[s] = "pop" /\ Undisturbed(s)
       /\ free_list[o] # <<>>
       /\ free_list' = [free_list EXCEPT ![o] = Tail(@)]
       /\ Return(s, entry[s] + ENTRY, req[s])
       /\ UNCHANGED <<pages, cache_order, booted, heap_ptr>>

-----------------------------------------------------------------------------
(* free *)

InHeap(a) == HEAP_START <= a /\ a < HEAP_END

Clear(s) == ptr' = [ptr EXCEPT ![s] = NULL] /\ req' = [req EXCEPT ![s] = 0]

\* Memory of simple_alloc is not freed.
FreeHeap(s) ==
    /\ Ready(s) /\ InHeap(ptr[s])
    /\ Clear(s)
    /\ UNCHANGED <<pages, caches, heap_ptr, pc, entry>>

\* Mutant: the chunk goes to the cache of the smallest size.
kfree_smallest(s) ==
    /\ Ready(s) /\ ptr[s] # NULL /\ ~ InHeap(ptr[s])
    /\ cache_order[PageOf(ptr[s])] # -1
    /\ free_list' = [free_list EXCEPT ![0] = <<ptr[s] - ENTRY>> \o @]
    /\ Clear(s)
    /\ UNCHANGED <<pages, cache_order, booted, heap_ptr, pc, entry>>

\* A pointer into a page of a cache is a chunk and goes back to that cache, ...
kfree(s) ==
    /\ Ready(s) /\ ptr[s] # NULL /\ ~ InHeap(ptr[s])
    /\ cache_order[PageOf(ptr[s])] # -1
    /\ free_list' = [free_list EXCEPT ![cache_order[PageOf(ptr[s])] - MIN_CACHE_ORDER] =
                        <<ptr[s] - ENTRY>> \o @]
    /\ Clear(s)
    /\ UNCHANGED <<pages, cache_order, booted, heap_ptr, pc, entry>>

\* Mutant: chunks are freed as pages.
FreePagesAlways(s) ==
    /\ Ready(s) /\ ptr[s] # NULL /\ ~ InHeap(ptr[s])
    /\ \E b \in held : b[1] = PageOf(ptr[s]) /\ (PA!Free(b) \/ PA!Drop(b))
    /\ Clear(s)
    /\ UNCHANGED <<caches, heap_ptr, pc, entry>>

\* ... any other is a block of pages.
FreePages(s) ==
    /\ Ready(s) /\ ptr[s] # NULL /\ ~ InHeap(ptr[s])
    /\ cache_order[PageOf(ptr[s])] = -1
    /\ \E b \in held : b[1] = PageOf(ptr[s]) /\ (PA!Free(b) \/ PA!Drop(b))
    /\ Clear(s)
    /\ UNCHANGED <<caches, heap_ptr, pc, entry>>

-----------------------------------------------------------------------------
Next ==
    \/ kmem_cache_init
    \/ \E s \in Slot :
         \/ \E n \in Sizes : simple_alloc(s, n) \/ AllocPages(s, n) \/ kmalloc(s, n)
         \/ request_page(s) \/ ReadEntry(s) \/ kmem_freelist_pop(s)
         \/ FreeHeap(s) \/ kfree(s) \/ FreePages(s)

Spec == Init /\ [][Next]_vars

-----------------------------------------------------------------------------
(* Properties *)

IsChunk(s) == ptr[s] # NULL /\ ~ InHeap(ptr[s]) /\ cache_order[PageOf(ptr[s])] # -1

\* The memory in use by a caller, as <<first byte, end>>: the bytes it asked for
\* and the header in front of them, which kfree will write.
Footprint(s) == <<IF IsChunk(s) THEN ptr[s] - ENTRY ELSE ptr[s], ptr[s] + req[s]>>

\* The memory of the free chunks.
FreeChunks == UNION {{<<i, o>> : i \in DOMAIN free_list[o]} : o \in Cache}
ChunkMemory(c) == <<free_list[c[2]][c[1]], free_list[c[2]][c[1]] + Stride(c[2])>>

Disjoint(a, b) == a[2] <= b[1] \/ b[2] <= a[1]

\* Nobody's memory is anybody else's: two pointers that alloc or simple_alloc
\* returned, and the free chunks, share no byte, chunk headers included.
NoSharedMemory ==
    LET used == {s \in Slot : ptr[s] # NULL}
    IN /\ \A s, u \in used : s # u => Disjoint(Footprint(s), Footprint(u))
       /\ \A s \in used, c \in FreeChunks : Disjoint(Footprint(s), ChunkMemory(c))
       /\ \A c, d \in FreeChunks : c # d => Disjoint(ChunkMemory(c), ChunkMemory(d))

\* What alloc returns is as large as it was asked to be: it lies in the heap, in a
\* chunk of one page that the caches own, or in a block of pages the caller owns.
FitsItsMemory ==
    \A s \in Slot : ptr[s] # NULL =>
        \/ HEAP_START <= ptr[s] /\ ptr[s] + req[s] <= HEAP_END
        \/ /\ IsChunk(s)
           /\ LET o == cache_order[PageOf(ptr[s])] - MIN_CACHE_ORDER
              IN /\ req[s] <= cache_size(o)
                 /\ ptr[s] + cache_size(o) <= (PageOf(ptr[s]) + 1) * PAGE_SIZE
        \/ \E b \in held : /\ ptr[s] = b[1] * PAGE_SIZE /\ req[s] <= PAGE_SIZE * Pow2[b[2]]
                           /\ \A p \in PA!Run(b) : cache_order[p] = -1

\* A page that was made into chunks is never given back: free() tells chunks from
\* pages by a mark that nobody removes.
CachePagesKept ==
    \A p \in Page : cache_order[p] # -1 => <<p, 0>> \in held

\* Every chunk of a cache page, but for the last one, is free or in use: none is
\* lost on the way.
ChunksConserved ==
    \A p \in Page, o \in Cache : cache_order[p] = o + MIN_CACHE_ORDER =>
        \A j \in 0 .. chunk_num(o) - 2 :
            LET e == p * PAGE_SIZE + j * Stride(o)
            IN e \in Range(free_list[o]) \/ \E s \in Slot : ptr[s] = e + ENTRY

\* kmalloc returns NULL only when there is no page left.
NullMeansFull ==
    [][\A s \in Slot : pc[s] = "read" /\ pc'[s] = "idle" /\ ptr'[s] = NULL => avail = {}]_vars
=============================================================================
