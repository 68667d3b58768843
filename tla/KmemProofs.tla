----------------------------- MODULE KmemProofs -----------------------------
(***************************************************************************)
(* free() is right to trust the mark of a cache page, whatever the sizes,  *)
(* the number of callers and the interleaving.  If no call interrupts      *)
(* another, no byte has two owners: the memory that alloc and simple_alloc *)
(* handed out and the free chunks are disjoint, large enough and complete. *)
(***************************************************************************)
EXTENDS Kmem, WellFoundedInduction, TLAPS

\* There is one mark for each page.
MarksOK == cache_order = [p \in Page |-> cache_order[p]]

\* Making a page into chunks takes it from the page allocator and marks it.
LEMMA CarveKeeps ==
    ASSUME MarksOK, CachePagesKept, NEW p \in Page, NEW o, NEW n, Carve(p, o, n)
    PROVE  MarksOK' /\ CachePagesKept'
<1>1. held' = held \cup {<<p, 0>>}
  BY DEF Carve, PA!Alloc
<1>2. cache_order' = [cache_order EXCEPT ![p] = o + MIN_CACHE_ORDER]
  BY DEF Carve
<1>3. MarksOK' /\ \A q \in Page \ {p} : cache_order'[q] = cache_order[q]
  BY <1>2 DEF MarksOK
<1> QED
  BY <1>1, <1>3 DEF CachePagesKept

\* Steps that take no page back and mark none.
LEMMA GrowKeeps ==
    ASSUME MarksOK, CachePagesKept, UNCHANGED cache_order, held \subseteq held'
    PROVE  MarksOK' /\ CachePagesKept'
  BY DEF MarksOK, CachePagesKept

\* _free gets only blocks whose first page is unmarked.
LEMMA FreePagesKeeps ==
    ASSUME MarksOK, CachePagesKept, NEW s \in Slot, FreePages(s)
    PROVE  MarksOK' /\ CachePagesKept'
<1>1. UNCHANGED cache_order
  BY DEF FreePages, caches
<1>2. PICK b \in held : b[1] = PageOf(ptr[s]) /\ held' = held \ {b}
  BY DEF FreePages, PA!Free, PA!Drop
<1>3. cache_order[b[1]] = -1
  BY <1>2 DEF FreePages
<1>4. ASSUME NEW p \in Page, cache_order'[p] # -1 PROVE <<p, 0>> \in held'
  <2>1. <<p, 0>> \in held
    BY <1>1, <1>4 DEF CachePagesKept
  <2>2. <<p, 0>> # b
    BY <1>1, <1>3, <1>4
  <2> QED
    BY <2>1, <2>2, <1>2
<1> QED
  BY <1>1, <1>4 DEF MarksOK, CachePagesKept

\* No sequence of calls, interrupted or not, gives a page of the caches back to
\* the page allocator: free() sends every pointer into such a page to kfree.
THEOREM CachePagesStay == Spec => []CachePagesKept
<1>1. Init => MarksOK /\ CachePagesKept
  BY DEF Init, MarksOK, CachePagesKept
<1>2. MarksOK /\ CachePagesKept /\ [Next]_vars => MarksOK' /\ CachePagesKept'
  <2> SUFFICES ASSUME MarksOK, CachePagesKept, [Next]_vars
               PROVE  MarksOK' /\ CachePagesKept'
    OBVIOUS
  <2>1. CASE kmem_cache_init
    <3>1. CASE \E p \in Page : Carve(p, booted, chunk_num(booted))
      BY <3>1, CarveKeeps
    <3>2. CASE UNCHANGED <<pages, cache_order, free_list>>
      BY <3>2, GrowKeeps DEF pages
    <3> QED
      BY <2>1, <3>1, <3>2 DEF kmem_cache_init
  <2>2. ASSUME NEW s \in Slot, NEW n \in Sizes,
               simple_alloc(s, n) \/ AllocPages(s, n) \/ kmalloc(s, n)
        PROVE  MarksOK' /\ CachePagesKept'
    <3>1. CASE simple_alloc(s, n) \/ kmalloc(s, n)
      BY <3>1, GrowKeeps DEF simple_alloc, kmalloc, pages, caches
    <3>2. CASE AllocPages(s, n)
      <4>1. UNCHANGED cache_order
        BY <3>2 DEF AllocPages, caches
      <4>2. held \subseteq held'
        BY <3>2 DEF AllocPages, pages, PA!Alloc
      <4> QED
        BY <4>1, <4>2, GrowKeeps
    <3> QED
      BY <2>2, <3>1, <3>2
  <2>3. ASSUME NEW s \in Slot, request_page(s)
        PROVE  MarksOK' /\ CachePagesKept'
    <3>1. CASE \E p \in Page : Carve(p, CacheOf(s), chunk_num(CacheOf(s)) - 1)
      BY <3>1, CarveKeeps
    <3>2. CASE UNCHANGED <<pages, cache_order, free_list>>
      BY <3>2, GrowKeeps DEF pages
    <3> QED
      BY <2>3, <3>1, <3>2 DEF request_page
  <2>4. ASSUME NEW s \in Slot, ReadEntry(s) \/ kmem_freelist_pop(s) \/ FreeHeap(s) \/ kfree(s)
        PROVE  MarksOK' /\ CachePagesKept'
    BY <2>4, GrowKeeps DEF ReadEntry, kmem_freelist_pop, FreeHeap, kfree, pages, caches
  <2>5. ASSUME NEW s \in Slot, FreePages(s)
        PROVE  MarksOK' /\ CachePagesKept'
    BY <2>5, FreePagesKeeps
  <2>6. CASE UNCHANGED vars
    BY <2>6, GrowKeeps DEF vars
  <2> QED
    BY <2>1, <2>2, <2>3, <2>4, <2>5, <2>6 DEF Next
<1> QED
  BY <1>1, <1>2, PTL DEF Spec

-----------------------------------------------------------------------------
(* kmalloc fails only when there is no page left. *)

\* A size that a chunk can hold has a cache, whose chunks are large enough.
LEMMA CacheExists ==
    ASSUME NEW n \in 1 .. MAX_CHUNK_SIZE
    PROVE  /\ get_chunk_order(n) - MIN_CACHE_ORDER \in Cache
           /\ n <= cache_size(get_chunk_order(n) - MIN_CACHE_ORDER)
<1> DEFINE K == {o + MIN_CACHE_ORDER : o \in Cache}
           D == {k \in K : Pow2[k] >= n}
<1>1. CACHE_NUM \in Nat \ {0} /\ MIN_CACHE_ORDER \in Nat
  BY KmemAssumption
<1>2. \A k \in K : k \in Nat /\ Pow2[k] \in Nat /\ k - MIN_CACHE_ORDER \in Cache
  BY <1>1, KmemAssumption DEF Cache, cache_size
<1>3. D # {} /\ D \in SUBSET Nat
  <2>1. CACHE_NUM - 1 \in Cache
    BY <1>1 DEF Cache
  <2>2. MIN_CACHE_ORDER + CACHE_NUM - 1 \in K
    BY <1>1, <2>1
  <2>3. Pow2[MIN_CACHE_ORDER + CACHE_NUM - 1] >= n
    BY <1>2, <2>2 DEF MAX_CHUNK_SIZE
  <2> QED
    BY <1>2, <2>2, <2>3
<1>4. PICK k \in D : \A m \in D : <<m, k>> \notin OpToRel(<, Nat)
  <2> HIDE DEF D
  <2> QED
    BY <1>3, NatLessThanWellFounded, WFMin, Zenon
<1>5. \A m \in D : ~ (m < k)
  BY <1>3, <1>4 DEF OpToRel
<1>6. \A j \in MIN_CACHE_ORDER .. k - 1 : Pow2[j] < n
  <2> SUFFICES ASSUME NEW j \in MIN_CACHE_ORDER .. k - 1 PROVE Pow2[j] < n
    OBVIOUS
  <2>1. j - MIN_CACHE_ORDER \in Cache /\ j = (j - MIN_CACHE_ORDER) + MIN_CACHE_ORDER
    BY <1>1, <1>2 DEF Cache
  <2>2. j \in K /\ j < k
    BY <1>1, <1>2, <2>1
  <2> QED
    BY <1>2, <1>5, <2>2
<1>7. get_chunk_order(n) \in K /\ Pow2[get_chunk_order(n)] >= n
  BY <1>6 DEF get_chunk_order
<1>8. (get_chunk_order(n) - MIN_CACHE_ORDER) + MIN_CACHE_ORDER = get_chunk_order(n)
  BY <1>1, <1>2, <1>7
<1> QED
  BY <1>2, <1>7, <1>8 DEF cache_size

\* A call is in kmalloc only once the caches are set up, for a size that a chunk can
\* hold, and between request_page and the read of the list it is alone: the list
\* has a chunk then, or there was no page.
KmallocInv ==
    /\ free_list = [o \in Cache |-> free_list[o]]
    /\ pc = [s \in Slot |-> pc[s]] /\ req = [s \in Slot |-> req[s]]
    /\ \A s \in Slot : pc[s] # "idle" =>
          /\ booted = CACHE_NUM /\ req[s] \in 1 .. MAX_CHUNK_SIZE
          /\ \A u \in Slot \ {s} : pc[u] = "idle"
    /\ \A s \in Slot : pc[s] = "read" => free_list[CacheOf(s)] # <<>> \/ avail = {}

\* In the uninterrupted kernel a step of one call is a step of the only call.
LEMMA OthersIdle ==
    ASSUME ~ Interruptible, NEW s \in Slot, Undisturbed(s), NEW u \in Slot \ {s}
    PROVE  pc[u] = "idle"
  BY DEF Undisturbed

\* A step of a call that is idle after it leaves nobody in kmalloc.
LEMMA EndsIdle ==
    ASSUME ~ Interruptible, KmallocInv, NEW s \in Slot, Undisturbed(s),
           pc' = [pc EXCEPT ![s] = "idle"] \/ (pc[s] = "idle" /\ UNCHANGED pc),
           NEW x, req' = [req EXCEPT ![s] = x] \/ UNCHANGED req,
           free_list' = [o \in Cache |-> free_list'[o]]
    PROVE  KmallocInv'
<1>1. \A u \in Slot : pc'[u] = "idle"
  BY OthersIdle DEF KmallocInv
<1> QED
  BY <1>1 DEF KmallocInv

\* request_page leaves a chunk in the list, or there is no page.
LEMMA RequestInv ==
    ASSUME ~ Interruptible, KmallocInv, NEW s \in Slot, request_page(s)
    PROVE  KmallocInv'
<1> DEFINE o == CacheOf(s)
<1>1. req[s] \in 1 .. MAX_CHUNK_SIZE /\ booted = CACHE_NUM /\ UNCHANGED <<booted, req>>
  BY DEF KmallocInv, request_page
<1>2. o \in Cache /\ CacheOf(s)' = o
  BY <1>1, CacheExists DEF CacheOf
<1>3. pc' = [pc EXCEPT ![s] = "read"]
  BY DEF request_page
<1>4. \A u \in Slot \ {s} : pc[u] = "idle" /\ pc'[u] = "idle"
  BY <1>3, OthersIdle DEF request_page, KmallocInv
<1>5. free_list' = [c \in Cache |-> free_list'[c]] /\ (free_list'[o] # <<>> \/ avail' = {})
  <2>1. CASE free_list[o] = <<>> /\ \E p \in Page : Carve(p, o, chunk_num(o) - 1)
    <3>1. PICK p \in Page : free_list' = [free_list EXCEPT ![o] = Pushed(p, o, chunk_num(o) - 1)]
      BY <2>1 DEF Carve
    <3> DEFINE k == chunk_num(o) - 1
               q == [j \in 1 .. k |-> p * PAGE_SIZE + (k - j) * Stride(o)]
    <3>2. k \in Nat \ {0}
      BY <1>2, KmemAssumption
    <3>3. q \o <<>> # <<>>
      <4>1. q \in [1 .. k -> {q[j] : j \in 1 .. k}]
        OBVIOUS
      <4> HIDE DEF k, q
      <4>2. q \in Seq({q[j] : j \in 1 .. k}) /\ Len(q) = k
        BY <3>2, <4>1
      <4>3. q \o <<>> = q
        BY <4>2
      <4> QED
        BY <3>2, <4>2, <4>3
    <3>4. Pushed(p, o, k) = q \o <<>>
      BY <2>1 DEF Pushed
    <3> HIDE DEF k, q, o
    <3>5. free_list' = [free_list EXCEPT ![o] = Pushed(p, o, k)]
      BY <3>1 DEF k
    <3>6. Pushed(p, o, k) # <<>>
      BY <3>3, <3>4
    <3> QED
      BY <1>2, <3>5, <3>6 DEF KmallocInv
  <2>2. CASE (free_list[o] # <<>> \/ avail = {}) /\ UNCHANGED <<pages, cache_order, free_list>>
    BY <2>2 DEF KmallocInv, pages
  <2> QED
    BY <2>1, <2>2 DEF request_page
<1> HIDE DEF o
<1>6. \A u \in Slot : pc'[u] # "idle" => u = s
  BY <1>4
<1>7. /\ pc' = [u \in Slot |-> pc'[u]] /\ req' = [u \in Slot |-> req'[u]]
  BY <1>1, <1>3 DEF KmallocInv
<1>8. \A u \in Slot : pc'[u] = "read" => free_list'[CacheOf(u)'] # <<>> \/ avail' = {}
  BY <1>2, <1>5, <1>6
<1>9. \A u \in Slot : pc'[u] # "idle" =>
          /\ booted' = CACHE_NUM /\ req'[u] \in 1 .. MAX_CHUNK_SIZE
          /\ \A v \in Slot \ {u} : pc'[v] = "idle"
  BY <1>1, <1>4, <1>6
<1> QED
  BY <1>5, <1>7, <1>8, <1>9 DEF KmallocInv

\* The steps that begin, go on in and end kmalloc, and the others.
LEMMA KmallocNext == ASSUME ~ Interruptible, KmallocInv, [Next]_vars PROVE KmallocInv'
<1> USE DEF KmallocInv
<1>1. CASE UNCHANGED vars
  BY <1>1 DEF vars, CacheOf
<1>2. CASE kmem_cache_init
  <2>1. \A s \in Slot : pc[s] = "idle"
    BY <1>2, KmemAssumption DEF kmem_cache_init
  <2>2. free_list' = [o \in Cache |-> free_list'[o]]
    BY <1>2 DEF kmem_cache_init, Carve
  <2> QED
    BY <1>2, <2>1, <2>2 DEF kmem_cache_init, calls
<1>3. ASSUME NEW s \in Slot, NEW n \in Sizes, kmalloc(s, n) PROVE KmallocInv'
  <2>1. /\ pc' = [pc EXCEPT ![s] = "kmalloc"] /\ req' = [req EXCEPT ![s] = n]
        /\ n \in 1 .. MAX_CHUNK_SIZE /\ booted = CACHE_NUM /\ UNCHANGED <<free_list, booted>>
    BY <1>3 DEF kmalloc, Empty, Ready, caches
  <2>2. \A u \in Slot \ {s} : pc[u] = "idle"
    BY <1>3, OthersIdle DEF kmalloc, Empty, Ready
  <2> QED
    BY <2>1, <2>2
<1>4. ASSUME NEW s \in Slot, NEW n \in Sizes, simple_alloc(s, n) \/ AllocPages(s, n) PROVE KmallocInv'
  <2>1. PICK a : Return(s, a, n)
    BY <1>4 DEF simple_alloc, AllocPages
  <2>2. Undisturbed(s) /\ UNCHANGED free_list
    BY <1>4 DEF simple_alloc, AllocPages, Empty, Ready, caches
  <2> QED
    BY <2>1, <2>2, EndsIdle DEF Return
<1>5. ASSUME NEW s \in Slot, request_page(s) PROVE KmallocInv'
  BY <1>5, RequestInv
<1>6. ASSUME NEW s \in Slot, ReadEntry(s) PROVE KmallocInv'
  <2>1. Undisturbed(s) /\ UNCHANGED <<free_list, booted, avail>>
    BY <1>6 DEF ReadEntry, caches, pages
  <2>2. CASE Return(s, NULL, req[s])
    BY <2>1, <2>2, EndsIdle DEF Return
  <2>3. CASE pc' = [pc EXCEPT ![s] = "pop"] /\ UNCHANGED <<ptr, req>>
    <3>1. \A u \in Slot : pc'[u] # "read"
      BY <2>1, <2>3, OthersIdle
    <3> QED
      BY <1>6, <2>1, <2>3, <3>1 DEF ReadEntry
  <2> QED
    BY <1>6, <2>2, <2>3 DEF ReadEntry
<1>7. ASSUME NEW s \in Slot, kmem_freelist_pop(s) PROVE KmallocInv'
  <2>1. Undisturbed(s) /\ Return(s, entry[s] + ENTRY, req[s]) /\ free_list' = [o \in Cache |-> free_list'[o]]
    BY <1>7 DEF kmem_freelist_pop
  <2> QED
    BY <2>1, EndsIdle DEF Return
<1>8. ASSUME NEW s \in Slot, FreeHeap(s) \/ kfree(s) \/ FreePages(s) PROVE KmallocInv'
  <2>1. Undisturbed(s) /\ pc[s] = "idle" /\ UNCHANGED pc /\ req' = [req EXCEPT ![s] = 0]
    BY <1>8 DEF FreeHeap, kfree, FreePages, Ready, Clear
  <2>2. free_list' = [o \in Cache |-> free_list'[o]]
    BY <1>8 DEF FreeHeap, kfree, FreePages, caches
  <2> QED
    BY <2>1, <2>2, EndsIdle
<1> QED
  BY <1>1, <1>2, <1>3, <1>4, <1>5, <1>6, <1>7, <1>8 DEF Next

\* If no call interrupts another, kmalloc returns NULL only when the page allocator
\* has no page left: the page that request_page carved always has a chunk for it.
THEOREM KmallocFailsOnlyWhenFull == ASSUME ~ Interruptible PROVE Spec => NullMeansFull
<1>1. Init => KmallocInv
  BY DEF Init, KmallocInv
<1>2. KmallocInv /\ [Next]_vars => KmallocInv'
  BY KmallocNext
<1>3. KmallocInv /\ [Next]_vars =>
        [\A s \in Slot : pc[s] = "read" /\ pc'[s] = "idle" /\ ptr'[s] = NULL => avail = {}]_vars
  <2> SUFFICES ASSUME KmallocInv, Next, NEW s \in Slot, pc[s] = "read", pc'[s] = "idle"
               PROVE  avail = {}
    OBVIOUS
  <2>1. booted = CACHE_NUM
    BY DEF KmallocInv
  <2>2. ~ kmem_cache_init
    BY <2>1, KmemAssumption DEF kmem_cache_init
  <2>3. PICK u \in Slot :
           \/ \E n \in Sizes : simple_alloc(u, n) \/ AllocPages(u, n) \/ kmalloc(u, n)
           \/ request_page(u) \/ ReadEntry(u) \/ kmem_freelist_pop(u)
           \/ FreeHeap(u) \/ kfree(u) \/ FreePages(u)
    BY <2>2 DEF Next
  <2>4. Undisturbed(u)
    BY <2>3 DEF simple_alloc, AllocPages, kmalloc, request_page, ReadEntry, kmem_freelist_pop,
                FreeHeap, kfree, FreePages, Empty, Ready
  <2>5. u = s
    BY <2>4, OthersIdle
  <2>6. ReadEntry(s)
    BY <2>3, <2>5 DEF simple_alloc, AllocPages, kmalloc, request_page, kmem_freelist_pop,
                      FreeHeap, kfree, FreePages, Empty, Ready
  <2>7. free_list[CacheOf(s)] = <<>>
    BY <2>6 DEF ReadEntry, KmallocInv
  <2> QED
    BY <2>7 DEF KmallocInv
<1> QED
  BY <1>1, <1>2, <1>3, PTL DEF Spec, NullMeansFull

-----------------------------------------------------------------------------
(* Who owns which byte. *)

\* The headers of the chunks of page p in cache o.
Headers(p, o) == {p * PAGE_SIZE + j * Stride(o) : j \in 0 .. chunk_num(o) - 1}

-----------------------------------------------------------------------------
(* Where things lie. *)

\* The constants in the form the proofs use.
LEMMA Constants ==
    /\ PAGE_SIZE \in Nat \ {0} /\ ENTRY \in Nat \ {0} /\ MIN_CACHE_ORDER \in Nat /\ CACHE_NUM \in Nat
    /\ HEAP_START \in Nat \ {0} /\ HEAP_END \in Nat /\ HEAP_START < HEAP_END
    /\ Page \subseteq Nat
  BY KmemAssumption DEF Page, PA!Page

\* The chunks of a cache fill at most a page.
LEMMA ChunksFit ==
    ASSUME NEW o \in Cache
    PROVE  /\ cache_size(o) \in Nat \ {0} /\ Stride(o) \in Nat \ {0} /\ Stride(o) = cache_size(o) + ENTRY
           /\ chunk_num(o) \in Nat /\ chunk_num(o) > 1 /\ chunk_num(o) * Stride(o) <= PAGE_SIZE
<1> DEFINE S == Stride(o) P == PAGE_SIZE
<1>1. cache_size(o) \in Nat \ {0} /\ S \in Nat \ {0} /\ S = cache_size(o) + ENTRY /\ P \in Nat \ {0}
  BY KmemAssumption DEF Stride
<1>2. chunk_num(o) = P \div S /\ chunk_num(o) \in Nat /\ chunk_num(o) > 1
  BY KmemAssumption DEF chunk_num
<1> HIDE DEF S, P
<1>3. P = S * (P \div S) + (P % S) /\ P % S \in 0 .. S - 1
  BY <1>1
<1>4. S * chunk_num(o) = chunk_num(o) * S
  BY <1>1, <1>2
<1> QED
  BY <1>1, <1>2, <1>3, <1>4 DEF S, P

\* Multiplication keeps gaps.
LEMMA Gap == ASSUME NEW n \in Nat, NEW i \in Nat, NEW k \in Nat, i < k PROVE i * n + n <= k * n /\ i * n \in Nat /\ k * n \in Nat
<1>1. k = i + 1 + (k - i - 1) /\ k - i - 1 \in Nat
  OBVIOUS
<1> DEFINE d == k - i - 1
<1>2. k * n = i * n + n + d * n
  BY <1>1
<1>3. d * n \in Nat
  BY <1>1
<1> QED
  BY <1>2, <1>3

\* A chunk lies in its page, and PageOf finds it.
LEMMA HeaderPlace ==
    ASSUME NEW p \in Nat, NEW o \in Cache, NEW e \in Headers(p, o)
    PROVE  /\ e \in Nat /\ p * PAGE_SIZE <= e /\ e + Stride(o) <= p * PAGE_SIZE + PAGE_SIZE
           /\ PageOf(e + ENTRY) = p
<1> DEFINE S == Stride(o) P == PAGE_SIZE n == chunk_num(o)
<1>1. S \in Nat \ {0} /\ P \in Nat \ {0} /\ n \in Nat /\ n * S <= P /\ ENTRY \in Nat /\ ENTRY < S
  BY ChunksFit, Constants
<1>2. PICK j \in 0 .. n - 1 : e = p * P + j * S
  BY DEF Headers
<1> HIDE DEF S, P, n
<1>3. j * S + S <= n * S /\ j * S \in Nat /\ p * P \in Nat
  BY <1>1, <1>2, Gap
<1>4. e \in Nat /\ p * P <= e /\ e + S <= p * P + P
  BY <1>1, <1>2, <1>3
<1>5. (e + ENTRY) \div P = p
  <2> DEFINE r == e + ENTRY - p * P
  <2>1. r \in 0 .. P - 1 /\ e + ENTRY = P * p + r
    BY <1>1, <1>3, <1>4
  <2> HIDE DEF r
  <2> QED
    BY <1>1, <2>1
<1> QED
  BY <1>4, <1>5 DEF S, P, PageOf

\* Two chunks of one page do not overlap.
LEMMA HeadersApart ==
    ASSUME NEW p \in Nat, NEW o \in Cache, NEW e \in Headers(p, o), NEW f \in Headers(p, o), e # f
    PROVE  e + Stride(o) <= f \/ f + Stride(o) <= e
<1> DEFINE S == Stride(o) P == PAGE_SIZE n == chunk_num(o)
<1>1. S \in Nat /\ P \in Nat /\ n \in Nat
  BY ChunksFit, Constants
<1>2. PICK j \in 0 .. n - 1 : e = p * P + j * S
  BY DEF Headers
<1>3. PICK k \in 0 .. n - 1 : f = p * P + k * S
  BY DEF Headers
<1> HIDE DEF S, P, n
<1>4. p * P \in Nat /\ j \in Nat /\ k \in Nat
  BY <1>1
<1>5. CASE j < k
  BY <1>1, <1>2, <1>3, <1>4, <1>5, Gap DEF S
<1>6. CASE k < j
  BY <1>1, <1>2, <1>3, <1>4, <1>6, Gap DEF S
<1>7. j # k
  BY <1>2, <1>3
<1> QED
  BY <1>4, <1>5, <1>6, <1>7

\* Memory in different pages does not overlap, blocks of pages included.
LEMMA PagesApart ==
    ASSUME NEW p \in Nat, NEW q \in Nat, NEW n \in Nat, p + n <= q
    PROVE  /\ p * PAGE_SIZE + n * PAGE_SIZE <= q * PAGE_SIZE
           /\ p * PAGE_SIZE \in Nat /\ n * PAGE_SIZE \in Nat /\ q * PAGE_SIZE \in Nat
<1> DEFINE P == PAGE_SIZE
<1>1. P \in Nat
  BY Constants
<1> HIDE DEF P
<1>2. (p + n) * P = p * P + n * P /\ p * P \in Nat /\ n * P \in Nat /\ q * P \in Nat
  BY <1>1
<1>3. (p + n) * P <= q * P
  <2>1. CASE p + n = q
    BY <2>1, <1>1, <1>2
  <2>2. CASE p + n < q
    BY <2>2, <1>1, Gap
  <2> QED
    BY <2>1, <2>2
<1> QED
  BY <1>2, <1>3 DEF P

\* The first byte of a page is in it.
LEMMA PageStart == ASSUME NEW p \in Nat PROVE PageOf(p * PAGE_SIZE) = p
<1> DEFINE P == PAGE_SIZE
<1>1. P \in Nat \ {0}
  BY Constants
<1>2. (P * p + 0) \div P = p /\ P * p + 0 = p * P
  <2> HIDE DEF P
  <2> QED
    BY <1>1
<1> QED
  BY <1>2 DEF PageOf

\* An address is in its page.
LEMMA AddressInPage ==
    ASSUME NEW x \in Nat
    PROVE  x \div PAGE_SIZE \in Nat /\ x = PAGE_SIZE * (x \div PAGE_SIZE) + (x % PAGE_SIZE) /\ x % PAGE_SIZE \in 0 .. PAGE_SIZE - 1
<1> DEFINE P == PAGE_SIZE
<1>1. P \in Nat \ {0}
  BY Constants
<1> HIDE DEF P
<1>2. x \div P \in Nat /\ x = P * (x \div P) + (x % P) /\ x % P \in 0 .. P - 1
  BY <1>1
<1> QED
  BY <1>2 DEF P

\* A page that the heap does not touch lies before it or behind it.
LEMMA PageOffHeap ==
    ASSUME NEW p \in Page, p \notin HeapPages
    PROVE  p * PAGE_SIZE + PAGE_SIZE <= HEAP_START \/ HEAP_END <= p * PAGE_SIZE
<1> DEFINE P == PAGE_SIZE a == HEAP_START \div P z == (HEAP_END - 1) \div P
<1>1. P \in Nat \ {0} /\ p \in Nat /\ HEAP_START \in Nat /\ HEAP_END - 1 \in Nat
  BY Constants
<1>2. p < a \/ z < p
  <2>1. ~ (a <= p /\ p <= z)
    BY DEF HeapPages, PageOf
  <2>2. a \in Int /\ z \in Int
    BY <1>1
  <2> HIDE DEF a, z
  <2> QED
    BY <1>1, <2>1, <2>2
<1> HIDE DEF P
<1>3. /\ a \in Nat /\ HEAP_START = P * a + (HEAP_START % P) /\ HEAP_START % P \in 0 .. P - 1
      /\ z \in Nat /\ HEAP_END - 1 = P * z + ((HEAP_END - 1) % P) /\ (HEAP_END - 1) % P \in 0 .. P - 1
  BY <1>1
<1> HIDE DEF a, z
<1>4. CASE p < a
  <2>1. p * P + P <= a * P
    BY <1>1, <1>3, <1>4, Gap
  <2>2. a * P = P * a
    BY <1>1, <1>3
  <2> QED
    BY <1>1, <1>3, <2>1, <2>2 DEF P
<1>5. CASE z < p
  <2>1. z * P + P <= p * P
    BY <1>1, <1>3, <1>5, Gap
  <2>2. z * P = P * z
    BY <1>1, <1>3
  <2> QED
    BY <1>1, <1>3, <2>1, <2>2, Constants DEF P
<1> QED
  BY <1>2, <1>4, <1>5

-----------------------------------------------------------------------------
(* The invariant: who owns which memory. *)

\* e is the header of a chunk of cache o.
IsEntry(e, o) == \E p \in Page : cache_order[p] = o + MIN_CACHE_ORDER /\ e \in Headers(p, o)

\* A page is reserved, available, or of one held block.
PagesInv ==
    /\ avail \subseteq Page \ (HeapPages \cup {0})
    /\ held \subseteq Page \X PA!Orders
    /\ \A b \in held : PA!Run(b) \subseteq Page \ (avail \cup HeapPages \cup {0})
    /\ \A b, c \in held : b # c => PA!Run(b) \cap PA!Run(c) = {}

\* A mark is the cache of a page that the caches own.
MarksInv ==
    /\ cache_order \in [Page -> {-1} \cup {o + MIN_CACHE_ORDER : o \in Cache}]
    /\ CachePagesKept

\* A free list has chunks of its cache, each of them once.
ListsInv ==
    /\ free_list \in [Cache -> Seq(Nat)]
    /\ \A o \in Cache : /\ \A e \in Range(free_list[o]) : IsEntry(e, o)
                        /\ IsInjective(free_list[o])

\* The n bytes from a on are memory of simple_alloc, a chunk that is not free, or a
\* block of pages.
OnHeap(a, n) == HEAP_START <= a /\ a + n <= heap_ptr
InChunk(a, n) ==
    \E o \in Cache : /\ IsEntry(a - ENTRY, o) /\ n <= cache_size(o)
                     /\ a - ENTRY \notin Range(free_list[o])
InBlock(a, n) ==
    \E b \in held : /\ a = b[1] * PAGE_SIZE /\ n <= PAGE_SIZE * Pow2[b[2]]
                    /\ \A p \in PA!Run(b) : cache_order[p] = -1
Owned(a, n) == OnHeap(a, n) \/ InChunk(a, n) \/ InBlock(a, n)

\* Between the read of the list and the pop `entry` stays the head of the list.
CallsInv ==
    /\ ptr \in [Slot -> Nat] /\ entry \in [Slot -> Nat] /\ heap_ptr \in HEAP_START .. HEAP_END
    /\ \A s \in Slot : pc[s] # "idle" => ptr[s] = NULL
    /\ \A s \in Slot : pc[s] = "pop" => /\ free_list[CacheOf(s)] # <<>>
                                       /\ entry[s] = Head(free_list[CacheOf(s)])

\* Every caller owns its memory, and no two have the same.
OwnersInv ==
    /\ \A s \in Slot : ptr[s] # NULL => req[s] \in Nat \ {0} /\ Owned(ptr[s], req[s])
    /\ \A s, u \in Slot : s # u /\ ptr[s] # NULL /\ ptr[u] # NULL =>
          /\ ptr[s] # ptr[u]
          /\ InHeap(ptr[s]) /\ InHeap(ptr[u]) =>
                ptr[s] + req[s] <= ptr[u] \/ ptr[u] + req[u] <= ptr[s]

\* The caches are set up one by one.
BootedInv == booted \in 0 .. CACHE_NUM

MemoryInv ==
    /\ BootedInv /\ KmallocInv
    /\ PagesInv /\ MarksInv /\ ListsInv
    /\ CallsInv /\ OwnersInv /\ ChunksConserved

-----------------------------------------------------------------------------
(* Owners do not overlap. *)

\* The page of a chunk.
LEMMA EntryPage ==
    ASSUME PagesInv, MarksInv, NEW o \in Cache, NEW e, IsEntry(e, o)
    PROVE  \E p \in Page : /\ cache_order[p] = o + MIN_CACHE_ORDER /\ e \in Headers(p, o)
                          /\ <<p, 0>> \in held /\ PA!Run(<<p, 0>>) = {p}
                          /\ p \in Nat \ {0} /\ p \notin HeapPages /\ p \notin avail
                          /\ PageOf(e + ENTRY) = p
                          /\ e \in Nat /\ p * PAGE_SIZE <= e /\ e + Stride(o) <= p * PAGE_SIZE + PAGE_SIZE
<1>1. PICK p \in Page : cache_order[p] = o + MIN_CACHE_ORDER /\ e \in Headers(p, o)
  BY DEF IsEntry
<1>2. o + MIN_CACHE_ORDER # -1 /\ p \in Nat
  BY Constants DEF Cache
<1>3. <<p, 0>> \in held
  BY <1>1, <1>2 DEF MarksInv, CachePagesKept
<1>4. PA!Run(<<p, 0>>) = {p}
  BY <1>2, KmemAssumption DEF PA!Run
<1>5. p # 0 /\ p \notin HeapPages /\ p \notin avail
  BY <1>3, <1>4 DEF PagesInv
<1> QED
  BY <1>1, <1>2, <1>3, <1>4, <1>5, HeaderPlace

\* A chunk's page tells its cache.
LEMMA EntryMark ==
    ASSUME PagesInv, MarksInv, NEW o \in Cache, NEW e, IsEntry(e, o)
    PROVE  /\ e \in Nat /\ PageOf(e + ENTRY) \in Page
           /\ cache_order[PageOf(e + ENTRY)] = o + MIN_CACHE_ORDER /\ o + MIN_CACHE_ORDER # -1
           /\ cache_order[PageOf(e + ENTRY)] - MIN_CACHE_ORDER = o
<1>1. PageOf(e + ENTRY) \in Page /\ cache_order[PageOf(e + ENTRY)] = o + MIN_CACHE_ORDER /\ e \in Nat
  <2>1. PICK p \in Page : cache_order[p] = o + MIN_CACHE_ORDER /\ PageOf(e + ENTRY) = p /\ e \in Nat
    BY EntryPage, ZenonT(30)
  <2> QED
    BY <2>1
<1>2. o \in Nat /\ MIN_CACHE_ORDER \in Nat
  BY Constants DEF Cache
<1> QED
  BY <1>1, <1>2

\* A chunk lies beside the heap.
LEMMA EntryOffHeap ==
    ASSUME PagesInv, MarksInv, NEW o \in Cache, NEW e, IsEntry(e, o)
    PROVE  e + Stride(o) <= HEAP_START \/ HEAP_END <= e
<1>1. PICK p \in Page : /\ p \notin HeapPages /\ p \in Nat /\ e \in Nat
                        /\ p * PAGE_SIZE <= e /\ e + Stride(o) <= p * PAGE_SIZE + PAGE_SIZE
  BY EntryPage
<1> DEFINE a == p * PAGE_SIZE
<1>2. a \in Nat /\ PAGE_SIZE \in Nat /\ Stride(o) \in Nat
  BY <1>1, Constants, ChunksFit
<1>3. a + PAGE_SIZE <= HEAP_START \/ HEAP_END <= a
  BY <1>1, PageOffHeap
<1> HIDE DEF a
<1>4. a <= e /\ e + Stride(o) <= a + PAGE_SIZE
  BY <1>1 DEF a
<1> QED
  BY <1>1, <1>2, <1>3, <1>4, Constants

\* Two chunks do not overlap.
LEMMA EntriesApart ==
    ASSUME PagesInv, MarksInv, NEW o \in Cache, NEW c \in Cache, NEW e, NEW f,
           IsEntry(e, o), IsEntry(f, c), e # f
    PROVE  e + Stride(o) <= f \/ f + Stride(c) <= e
<1>1. PICK p \in Page : /\ cache_order[p] = o + MIN_CACHE_ORDER /\ e \in Headers(p, o) /\ p \in Nat /\ e \in Nat
                        /\ p * PAGE_SIZE <= e /\ e + Stride(o) <= p * PAGE_SIZE + PAGE_SIZE
  BY EntryPage
<1>2. PICK q \in Page : /\ cache_order[q] = c + MIN_CACHE_ORDER /\ f \in Headers(q, c) /\ q \in Nat /\ f \in Nat
                        /\ q * PAGE_SIZE <= f /\ f + Stride(c) <= q * PAGE_SIZE + PAGE_SIZE
  BY EntryPage
<1>3. CASE p = q
  <2>1. o = c
    BY <1>1, <1>2, <1>3, Constants DEF Cache
  <2> QED
    BY <1>1, <1>2, <1>3, <2>1, HeadersApart
<1>4. Stride(o) \in Nat /\ Stride(c) \in Nat /\ PAGE_SIZE \in Nat
  BY ChunksFit, Constants
<1>5. CASE p < q
  <2>1. p * PAGE_SIZE + PAGE_SIZE <= q * PAGE_SIZE /\ p * PAGE_SIZE \in Nat /\ q * PAGE_SIZE \in Nat
    BY <1>1, <1>2, <1>4, <1>5, Gap
  <2> QED
    BY <1>1, <1>2, <1>4, <2>1
<1>6. CASE q < p
  <2>1. q * PAGE_SIZE + PAGE_SIZE <= p * PAGE_SIZE /\ p * PAGE_SIZE \in Nat /\ q * PAGE_SIZE \in Nat
    BY <1>1, <1>2, <1>4, <1>6, Gap
  <2> QED
    BY <1>1, <1>2, <1>4, <2>1
<1> QED
  BY <1>1, <1>2, <1>3, <1>5, <1>6

\* A block of pages: where it begins, and that it lies beside the heap.
LEMMA BlockPlace ==
    ASSUME PagesInv, NEW b \in held
    PROVE  /\ b[1] \in Page /\ b[1] \in Nat \ {0} /\ b[2] \in PA!Orders
           /\ Pow2[b[2]] \in Nat \ {0} /\ b[1] \in PA!Run(b)
           /\ b[1] * PAGE_SIZE \in Nat \ {0} /\ PAGE_SIZE * Pow2[b[2]] \in Nat
           /\ PageOf(b[1] * PAGE_SIZE) = b[1]
           /\ \/ b[1] * PAGE_SIZE + PAGE_SIZE * Pow2[b[2]] <= HEAP_START
              \/ HEAP_END <= b[1] * PAGE_SIZE
<1> DEFINE p == b[1] n == Pow2[b[2]] P == PAGE_SIZE
<1>1. p \in Page /\ p \in Nat /\ b[2] \in PA!Orders /\ n \in Nat \ {0}
  BY KmemAssumption, Constants DEF PagesInv
<1>2. PA!Run(b) = p .. p + n - 1
  BY DEF PA!Run
<1> HIDE DEF p, n
<1>3. p \in PA!Run(b) /\ p + n - 1 \in PA!Run(b) /\ p + n - 1 \in Page /\ p + n - 1 \in Nat
  BY <1>1, <1>2, Constants DEF PagesInv
<1>4. p # 0
  BY <1>3 DEF PagesInv
<1>5. P \in Nat \ {0}
  BY Constants
<1> HIDE DEF P
<1>6. p * P \in Nat \ {0} /\ P * n \in Nat
  BY <1>1, <1>4, <1>5
<1>7. p * P + P * n <= HEAP_START \/ HEAP_END <= p * P
  <2> DEFINE q == p + n - 1
  <2>1. p \notin HeapPages /\ q \notin HeapPages
    BY <1>3 DEF PagesInv
  <2>2. CASE HEAP_END <= p * P
    BY <2>2
  <2>3. CASE HEAP_END > p * P
    <3>1. p * P + P <= HEAP_START
      BY <1>1, <1>6, <2>1, <2>3, PageOffHeap, Constants DEF P
    <3>2. q * P + P <= HEAP_START \/ HEAP_END <= q * P
      BY <1>3, <2>1, PageOffHeap DEF P
    <3>3. q * P + P = p * P + P * n
      BY <1>1, <1>5
    <3>4. CASE HEAP_END <= q * P
      <4> DEFINE a == HEAP_START \div P z == (HEAP_END - 1) \div P
      <4>1. /\ a \in Nat /\ HEAP_START = P * a + (HEAP_START % P) /\ HEAP_START % P \in 0 .. P - 1
            /\ z \in Nat /\ HEAP_END - 1 = P * z + ((HEAP_END - 1) % P) /\ (HEAP_END - 1) % P \in 0 .. P - 1
        <5>1. HEAP_START \in Nat /\ HEAP_END - 1 \in Nat
          BY Constants
        <5> QED
          BY <5>1, AddressInPage DEF P
      <4> HIDE DEF a, z
      <4>2. p <= a
        <5>1. CASE a < p
          <6>1. a * P + P <= p * P
            BY <1>1, <1>5, <4>1, <5>1, Gap
          <6>2. a * P = P * a
            BY <1>5, <4>1
          <6> QED
            BY <1>1, <1>5, <1>6, <3>1, <4>1, <6>1, <6>2, Constants
        <5> QED
          BY <1>1, <4>1, <5>1
      <4>3. a <= q
        <5>1. CASE q < a
          <6>1. q * P + P <= a * P /\ q * P \in Nat
            BY <1>3, <1>5, <4>1, <5>1, Gap
          <6>2. a * P = P * a
            BY <1>5, <4>1
          <6> QED
            BY <1>5, <3>4, <4>1, <6>1, <6>2, Constants
        <5> QED
          BY <1>3, <4>1, <5>1
      <4>4. a <= z
        <5>1. CASE z < a
          <6>1. z * P + P <= a * P
            BY <1>5, <4>1, <5>1, Gap
          <6>2. a * P = P * a /\ z * P = P * z
            BY <1>5, <4>1
          <6> QED
            BY <1>5, <4>1, <6>1, <6>2, Constants
        <5> QED
          BY <4>1, <5>1
      <4>5. a \in PA!Run(b)
        BY <1>1, <1>2, <4>1, <4>2, <4>3
      <4>6. a \in HeapPages
        <5>1. a \in Page
          BY <4>5 DEF PagesInv
        <5> QED
          BY <4>1, <4>4, <5>1 DEF HeapPages, PageOf, a, z, P
      <4> QED
        BY <4>5, <4>6 DEF PagesInv
    <3> QED
      BY <3>2, <3>3, <3>4
  <2> QED
    BY <1>6, <2>2, <2>3, Constants
<1> QED
  BY <1>1, <1>3, <1>4, <1>6, <1>7, PageStart DEF p, n, P

\* Two blocks do not overlap.
LEMMA BlocksApart ==
    ASSUME PagesInv, NEW b \in held, NEW c \in held, b # c
    PROVE  \/ b[1] * PAGE_SIZE + PAGE_SIZE * Pow2[b[2]] <= c[1] * PAGE_SIZE
           \/ c[1] * PAGE_SIZE + PAGE_SIZE * Pow2[c[2]] <= b[1] * PAGE_SIZE
<1> DEFINE p == b[1] n == Pow2[b[2]] q == c[1] m == Pow2[c[2]] P == PAGE_SIZE
<1>1. p \in Nat /\ n \in Nat \ {0} /\ q \in Nat /\ m \in Nat \ {0} /\ P \in Nat
  BY BlockPlace, Constants
<1>2. (p .. p + n - 1) \cap (q .. q + m - 1) = {}
  BY DEF PagesInv, PA!Run
<1> HIDE DEF p, n, q, m
<1>3. p + n <= q \/ q + m <= p
  <2>1. q \notin p .. p + n - 1
    BY <1>1, <1>2
  <2>2. p \notin q .. q + m - 1
    BY <1>1, <1>2
  <2> QED
    BY <1>1, <2>1, <2>2
<1>4. p * P + n * P <= q * P \/ q * P + m * P <= p * P
  BY <1>1, <1>3, PagesApart
<1>5. n * P = P * n /\ m * P = P * m
  <2> HIDE DEF P
  <2> QED
    BY <1>1
<1> QED
  BY <1>4, <1>5 DEF p, n, q, m

\* A chunk and a block without chunks do not overlap.
LEMMA EntryBlockApart ==
    ASSUME PagesInv, MarksInv, NEW o \in Cache, NEW e, IsEntry(e, o),
           NEW b \in held, \A p \in PA!Run(b) : cache_order[p] = -1
    PROVE  \/ e + Stride(o) <= b[1] * PAGE_SIZE
           \/ b[1] * PAGE_SIZE + PAGE_SIZE * Pow2[b[2]] <= e
<1>1. PICK p \in Page : /\ cache_order[p] = o + MIN_CACHE_ORDER /\ <<p, 0>> \in held /\ PA!Run(<<p, 0>>) = {p}
                        /\ p \in Nat /\ e \in Nat
                        /\ p * PAGE_SIZE <= e /\ e + Stride(o) <= p * PAGE_SIZE + PAGE_SIZE
  BY EntryPage
<1>2. o + MIN_CACHE_ORDER # -1
  BY Constants DEF Cache
<1>3. b # <<p, 0>>
  BY <1>1, <1>2
<1> DEFINE x == p * PAGE_SIZE y == b[1] * PAGE_SIZE z == PAGE_SIZE * Pow2[b[2]]
<1>4. PAGE_SIZE * Pow2[0] = PAGE_SIZE /\ PAGE_SIZE \in Nat
  BY KmemAssumption
<1>5. x + PAGE_SIZE <= y \/ y + z <= x
  BY <1>1, <1>3, <1>4, BlocksApart
<1>6. x \in Nat /\ y \in Nat /\ z \in Nat /\ Stride(o) \in Nat
  BY <1>1, <1>4, BlockPlace, ChunksFit
<1>7. x <= e /\ e + Stride(o) <= x + PAGE_SIZE
  BY <1>1
<1> HIDE DEF x, y, z
<1>8. e + Stride(o) <= y \/ y + z <= e
  BY <1>1, <1>4, <1>5, <1>6, <1>7
<1> QED
  BY <1>8 DEF y, z

-----------------------------------------------------------------------------
(* How free() sees a pointer. *)

\* free() recognises memory of simple_alloc, ...
LEMMA SeesHeap ==
    ASSUME CallsInv, NEW a \in Nat, NEW n \in Nat \ {0}, OnHeap(a, n)
    PROVE  InHeap(a) /\ a + n <= HEAP_END
  BY Constants DEF CallsInv, OnHeap, InHeap

\* ... a chunk ...
LEMMA SeesChunk ==
    ASSUME PagesInv, MarksInv, NEW a \in Nat, NEW o \in Cache, IsEntry(a - ENTRY, o)
    PROVE  /\ ~ InHeap(a) /\ PageOf(a) \in Page
           /\ cache_order[PageOf(a)] = o + MIN_CACHE_ORDER /\ o + MIN_CACHE_ORDER # -1
           /\ cache_order[PageOf(a)] - MIN_CACHE_ORDER = o
           /\ a + cache_size(o) <= (PageOf(a) + 1) * PAGE_SIZE
<1> DEFINE e == a - ENTRY
<1>1. a = e + ENTRY /\ e \in Nat
  BY EntryMark, Constants
<1>2. /\ cache_size(o) \in Nat \ {0} /\ Stride(o) = cache_size(o) + ENTRY /\ ENTRY \in Nat /\ HEAP_START \in Nat /\ HEAP_END \in Nat
  BY ChunksFit, Constants
<1>3. e + Stride(o) <= HEAP_START \/ HEAP_END <= e
  BY EntryOffHeap
<1>4. PICK p \in Page : PageOf(e + ENTRY) = p /\ p \in Nat /\ e + Stride(o) <= p * PAGE_SIZE + PAGE_SIZE
  BY EntryPage
<1>5. (p + 1) * PAGE_SIZE = p * PAGE_SIZE + PAGE_SIZE /\ p * PAGE_SIZE + PAGE_SIZE \in Nat
  <2>1. PAGE_SIZE \in Nat
    BY Constants
  <2> QED
    BY <1>4, <2>1
<1>6. PageOf(a) = PageOf(e + ENTRY)
  BY <1>1
<1>7. a + cache_size(o) <= (PageOf(a) + 1) * PAGE_SIZE
  <2>1. PageOf(a) = p
    BY <1>4, <1>6
  <2>2. e + Stride(o) = a + cache_size(o)
    BY <1>1, <1>2
  <2> QED
    BY <1>4, <1>5, <2>1, <2>2
<1>8. ~ InHeap(a)
  <2> HIDE DEF e
  <2> QED
    BY <1>1, <1>2, <1>3 DEF InHeap
<1> QED
  BY <1>6, <1>7, <1>8, EntryMark

\* ... and a block of pages.
LEMMA SeesBlock ==
    ASSUME PagesInv, NEW b \in held, \A p \in PA!Run(b) : cache_order[p] = -1
    PROVE  ~ InHeap(b[1] * PAGE_SIZE) /\ cache_order[PageOf(b[1] * PAGE_SIZE)] = -1
<1> DEFINE a == b[1] * PAGE_SIZE z == PAGE_SIZE * Pow2[b[2]]
<1>1. /\ a \in Nat /\ z \in Nat \ {0} /\ PageOf(a) = b[1] /\ b[1] \in PA!Run(b)
      /\ a + z <= HEAP_START \/ HEAP_END <= a
  <2>1. Pow2[b[2]] \in Nat \ {0} /\ PAGE_SIZE \in Nat \ {0}
    BY BlockPlace, Constants
  <2>2. z # 0
    <3> HIDE DEF a
    <3> QED
      BY <2>1
  <2> QED
    BY BlockPlace, <2>2
<1> HIDE DEF a, z
<1>2. ~ InHeap(a) /\ cache_order[PageOf(a)] = -1
  BY <1>1, Constants DEF InHeap
<1> QED
  BY <1>2 DEF a

-----------------------------------------------------------------------------
(* What the invariant says. *)

\* Every pointer lies in memory of its kind that is large enough.
LEMMA InvFits == ASSUME MemoryInv PROVE FitsItsMemory
<1> USE DEF MemoryInv
<1> SUFFICES ASSUME NEW s \in Slot, ptr[s] # NULL
             PROVE  \/ HEAP_START <= ptr[s] /\ ptr[s] + req[s] <= HEAP_END
                    \/ /\ IsChunk(s)
                       /\ LET o == cache_order[PageOf(ptr[s])] - MIN_CACHE_ORDER
                          IN /\ req[s] <= cache_size(o)
                             /\ ptr[s] + cache_size(o) <= (PageOf(ptr[s]) + 1) * PAGE_SIZE
                    \/ \E b \in held : /\ ptr[s] = b[1] * PAGE_SIZE /\ req[s] <= PAGE_SIZE * Pow2[b[2]]
                                       /\ \A p \in PA!Run(b) : cache_order[p] = -1
  BY DEF FitsItsMemory
<1>1. ptr[s] \in Nat /\ req[s] \in Nat \ {0}
  BY DEF CallsInv, OwnersInv
<1>2. CASE OnHeap(ptr[s], req[s])
  BY <1>1, <1>2, SeesHeap DEF InHeap
<1>3. CASE InChunk(ptr[s], req[s])
  <2>1. PICK o \in Cache : IsEntry(ptr[s] - ENTRY, o) /\ req[s] <= cache_size(o)
    BY <1>3 DEF InChunk
  <2>2. /\ ~ InHeap(ptr[s]) /\ cache_order[PageOf(ptr[s])] # -1
        /\ cache_order[PageOf(ptr[s])] - MIN_CACHE_ORDER = o
        /\ ptr[s] + cache_size(o) <= (PageOf(ptr[s]) + 1) * PAGE_SIZE
    BY <1>1, <2>1, SeesChunk
  <2> QED
    BY <2>1, <2>2 DEF IsChunk
<1>4. CASE InBlock(ptr[s], req[s])
  BY <1>4 DEF InBlock
<1> QED
  BY <1>2, <1>3, <1>4 DEF OwnersInv, Owned

\* The memory of a caller that has memory of simple_alloc.
LEMMA HeapFootprint ==
    ASSUME MemoryInv, NEW s \in Slot, ptr[s] # NULL, OnHeap(ptr[s], req[s])
    PROVE  /\ Footprint(s) = <<ptr[s], ptr[s] + req[s]>> /\ ptr[s] \in Nat /\ ptr[s] + req[s] \in Nat
           /\ HEAP_START <= ptr[s] /\ ptr[s] + req[s] <= HEAP_END
<1>1. ptr[s] \in Nat /\ req[s] \in Nat \ {0} /\ CallsInv
  BY DEF MemoryInv, CallsInv, OwnersInv
<1>2. InHeap(ptr[s]) /\ ptr[s] + req[s] <= HEAP_END
  BY <1>1, SeesHeap
<1> QED
  BY <1>1, <1>2 DEF Footprint, IsChunk, InHeap

\* The memory of a caller that has a chunk.
LEMMA ChunkFootprint ==
    ASSUME MemoryInv, NEW s \in Slot, ptr[s] # NULL,
           NEW o \in Cache, IsEntry(ptr[s] - ENTRY, o), req[s] <= cache_size(o)
    PROVE  /\ Footprint(s) = <<ptr[s] - ENTRY, ptr[s] + req[s]>>
           /\ ptr[s] - ENTRY \in Nat /\ ptr[s] + req[s] \in Nat
           /\ ptr[s] + req[s] <= (ptr[s] - ENTRY) + Stride(o)
<1> USE DEF MemoryInv
<1>1. ptr[s] \in Nat /\ req[s] \in Nat /\ ptr[s] - ENTRY \in Nat
  BY EntryMark DEF CallsInv, OwnersInv
<1>2. Stride(o) = cache_size(o) + ENTRY /\ cache_size(o) \in Nat /\ ENTRY \in Nat
  BY ChunksFit, Constants
<1>3. IsChunk(s)
  BY <1>1, SeesChunk DEF IsChunk
<1> QED
  BY <1>1, <1>2, <1>3 DEF Footprint

\* The memory of a caller that has a block.
LEMMA BlockFootprint ==
    ASSUME MemoryInv, NEW s \in Slot, ptr[s] # NULL, NEW b \in held,
           ptr[s] = b[1] * PAGE_SIZE, req[s] <= PAGE_SIZE * Pow2[b[2]],
           \A p \in PA!Run(b) : cache_order[p] = -1
    PROVE  /\ Footprint(s) = <<ptr[s], ptr[s] + req[s]>> /\ ptr[s] \in Nat /\ ptr[s] + req[s] \in Nat
           /\ ptr[s] + req[s] <= b[1] * PAGE_SIZE + PAGE_SIZE * Pow2[b[2]]
<1> USE DEF MemoryInv
<1>1. ptr[s] \in Nat /\ req[s] \in Nat /\ PAGE_SIZE * Pow2[b[2]] \in Nat
  BY BlockPlace DEF CallsInv, OwnersInv
<1>2. ~ IsChunk(s)
  BY SeesBlock DEF IsChunk
<1>3. ptr[s] + req[s] <= ptr[s] + PAGE_SIZE * Pow2[b[2]]
  BY <1>1
<1> QED
  BY <1>1, <1>2, <1>3 DEF Footprint

\* Two callers, the one on the heap first, then chunks, then blocks.
LEMMA CallersApart ==
    ASSUME MemoryInv, NEW s \in Slot, NEW u \in Slot, s # u, ptr[s] # NULL, ptr[u] # NULL,
           \/ OnHeap(ptr[s], req[s])
           \/ InChunk(ptr[s], req[s]) /\ (InChunk(ptr[u], req[u]) \/ InBlock(ptr[u], req[u]))
           \/ InBlock(ptr[s], req[s]) /\ InBlock(ptr[u], req[u])
    PROVE  Disjoint(Footprint(s), Footprint(u))
<1> USE DEF MemoryInv
<1>0. ptr[s] # ptr[u] /\ ptr[s] \in Nat /\ ptr[u] \in Nat /\ ENTRY \in Nat
  BY Constants DEF CallsInv, OwnersInv
<1>1. CASE OnHeap(ptr[s], req[s])
  <2>1. /\ Footprint(s) = <<ptr[s], ptr[s] + req[s]>> /\ ptr[s] + req[s] \in Nat
        /\ HEAP_START <= ptr[s] /\ ptr[s] + req[s] <= HEAP_END
    BY <1>1, HeapFootprint
  <2>2. CASE OnHeap(ptr[u], req[u])
    <3>1. InHeap(ptr[s]) /\ InHeap(ptr[u])
      BY <1>0, <1>1, <2>2, SeesHeap DEF OwnersInv
    <3> QED
      BY <2>1, <2>2, <3>1, HeapFootprint DEF OwnersInv, Disjoint
  <2>3. CASE InChunk(ptr[u], req[u])
    <3>1. PICK o \in Cache : IsEntry(ptr[u] - ENTRY, o) /\ req[u] <= cache_size(o)
      BY <2>3 DEF InChunk
    <3>2. /\ Footprint(u) = <<ptr[u] - ENTRY, ptr[u] + req[u]>>
          /\ ptr[u] - ENTRY \in Nat /\ ptr[u] + req[u] \in Nat
          /\ ptr[u] + req[u] <= (ptr[u] - ENTRY) + Stride(o)
      BY <3>1, ChunkFootprint
    <3>3. (ptr[u] - ENTRY) + Stride(o) <= HEAP_START \/ HEAP_END <= ptr[u] - ENTRY
      BY <3>1, EntryOffHeap
    <3> QED
      BY <1>0, <2>1, <3>1, <3>2, <3>3, ChunksFit, Constants DEF Disjoint
  <2>4. CASE InBlock(ptr[u], req[u])
    <3>1. PICK b \in held : /\ ptr[u] = b[1] * PAGE_SIZE /\ req[u] <= PAGE_SIZE * Pow2[b[2]]
                            /\ \A p \in PA!Run(b) : cache_order[p] = -1
      BY <2>4 DEF InBlock
    <3> DEFINE z == b[1] * PAGE_SIZE + PAGE_SIZE * Pow2[b[2]]
    <3>2. Footprint(u) = <<ptr[u], ptr[u] + req[u]>> /\ ptr[u] + req[u] \in Nat /\ ptr[u] + req[u] <= z
      BY <3>1, BlockFootprint
    <3>3. (z <= HEAP_START \/ HEAP_END <= ptr[u]) /\ z \in Nat
      BY <3>1, BlockPlace
    <3> HIDE DEF z
    <3> QED
      BY <1>0, <2>1, <3>2, <3>3, Constants DEF Disjoint
  <2> QED
    BY <2>2, <2>3, <2>4 DEF OwnersInv, Owned
<1>2. CASE InChunk(ptr[s], req[s]) /\ (InChunk(ptr[u], req[u]) \/ InBlock(ptr[u], req[u]))
  <2>1. PICK o \in Cache : IsEntry(ptr[s] - ENTRY, o) /\ req[s] <= cache_size(o)
    BY <1>2 DEF InChunk
  <2>2. /\ Footprint(s) = <<ptr[s] - ENTRY, ptr[s] + req[s]>>
        /\ ptr[s] - ENTRY \in Nat /\ ptr[s] + req[s] \in Nat
        /\ ptr[s] + req[s] <= (ptr[s] - ENTRY) + Stride(o) /\ Stride(o) \in Nat
    BY <2>1, ChunkFootprint, ChunksFit
  <2>3. CASE InChunk(ptr[u], req[u])
    <3>1. PICK c \in Cache : IsEntry(ptr[u] - ENTRY, c) /\ req[u] <= cache_size(c)
      BY <2>3 DEF InChunk
    <3>2. /\ Footprint(u) = <<ptr[u] - ENTRY, ptr[u] + req[u]>>
          /\ ptr[u] - ENTRY \in Nat /\ ptr[u] + req[u] \in Nat
          /\ ptr[u] + req[u] <= (ptr[u] - ENTRY) + Stride(c) /\ Stride(c) \in Nat
      BY <3>1, ChunkFootprint, ChunksFit
    <3>3. ptr[s] - ENTRY # ptr[u] - ENTRY
      BY <1>0
    <3>4. (ptr[s] - ENTRY) + Stride(o) <= ptr[u] - ENTRY \/ (ptr[u] - ENTRY) + Stride(c) <= ptr[s] - ENTRY
      BY <2>1, <3>1, <3>3, EntriesApart
    <3> QED
      BY <2>2, <3>2, <3>4 DEF Disjoint
  <2>4. CASE InBlock(ptr[u], req[u])
    <3>1. PICK b \in held : /\ ptr[u] = b[1] * PAGE_SIZE /\ req[u] <= PAGE_SIZE * Pow2[b[2]]
                            /\ \A p \in PA!Run(b) : cache_order[p] = -1
      BY <2>4 DEF InBlock
    <3> DEFINE z == b[1] * PAGE_SIZE + PAGE_SIZE * Pow2[b[2]]
    <3>2. Footprint(u) = <<ptr[u], ptr[u] + req[u]>> /\ ptr[u] + req[u] \in Nat /\ ptr[u] + req[u] <= z
      BY <3>1, BlockFootprint
    <3>3. ((ptr[s] - ENTRY) + Stride(o) <= ptr[u] \/ z <= ptr[s] - ENTRY) /\ z \in Nat
      BY <2>1, <3>1, EntryBlockApart, BlockPlace
    <3> HIDE DEF z
    <3> QED
      BY <1>0, <2>2, <3>2, <3>3 DEF Disjoint
  <2> QED
    BY <1>2, <2>3, <2>4
<1>3. CASE InBlock(ptr[s], req[s]) /\ InBlock(ptr[u], req[u])
  <2>1. PICK b \in held : /\ ptr[s] = b[1] * PAGE_SIZE /\ req[s] <= PAGE_SIZE * Pow2[b[2]]
                          /\ \A p \in PA!Run(b) : cache_order[p] = -1
    BY <1>3 DEF InBlock
  <2>2. PICK c \in held : /\ ptr[u] = c[1] * PAGE_SIZE /\ req[u] <= PAGE_SIZE * Pow2[c[2]]
                          /\ \A p \in PA!Run(c) : cache_order[p] = -1
    BY <1>3 DEF InBlock
  <2> DEFINE y == b[1] * PAGE_SIZE + PAGE_SIZE * Pow2[b[2]]
             z == c[1] * PAGE_SIZE + PAGE_SIZE * Pow2[c[2]]
  <2>3. Footprint(s) = <<ptr[s], ptr[s] + req[s]>> /\ ptr[s] + req[s] \in Nat /\ ptr[s] + req[s] <= y
    BY <2>1, BlockFootprint
  <2>4. Footprint(u) = <<ptr[u], ptr[u] + req[u]>> /\ ptr[u] + req[u] \in Nat /\ ptr[u] + req[u] <= z
    BY <2>2, BlockFootprint
  <2>5. b # c
    BY <1>0, <2>1, <2>2
  <2>6. (y <= ptr[u] \/ z <= ptr[s]) /\ y \in Nat /\ z \in Nat
    BY <2>1, <2>2, <2>5, BlocksApart, BlockPlace
  <2> HIDE DEF y, z
  <2> QED
    BY <1>0, <2>3, <2>4, <2>6 DEF Disjoint
<1> QED
  BY <1>1, <1>2, <1>3

\* A free chunk.
LEMMA FreeChunk ==
    ASSUME MemoryInv, NEW c \in FreeChunks
    PROVE  /\ c = <<c[1], c[2]>> /\ c[2] \in Cache /\ c[1] \in DOMAIN free_list[c[2]]
           /\ IsEntry(free_list[c[2]][c[1]], c[2]) /\ free_list[c[2]][c[1]] \in Nat
           /\ free_list[c[2]][c[1]] \in Range(free_list[c[2]])
<1>1. PICK o \in Cache : \E i \in DOMAIN free_list[o] : c = <<i, o>>
  BY DEF FreeChunks
<1>2. PICK i \in DOMAIN free_list[o] : c = <<i, o>>
  BY <1>1
<1>3. free_list[o] \in Seq(Nat)
  BY DEF MemoryInv, ListsInv
<1>4. free_list[o][i] \in Nat
  BY <1>2, <1>3
<1> QED
  BY <1>2, <1>4 DEF MemoryInv, ListsInv, Range

\* A caller and a free chunk.
LEMMA CallerFreeApart ==
    ASSUME MemoryInv, NEW s \in Slot, ptr[s] # NULL, NEW c \in FreeChunks
    PROVE  Disjoint(Footprint(s), ChunkMemory(c))
<1> USE DEF MemoryInv
<1> DEFINE o == c[2] e == free_list[c[2]][c[1]]
<1>1. o \in Cache /\ IsEntry(e, o) /\ e \in Nat /\ e \in Range(free_list[o]) /\ Stride(o) \in Nat
  BY FreeChunk, ChunksFit
<1>2. ChunkMemory(c) = <<e, e + Stride(o)>>
  BY DEF ChunkMemory
<1> HIDE DEF o, e
<1>0. ptr[s] \in Nat /\ ENTRY \in Nat
  BY Constants DEF CallsInv
<1>3. CASE OnHeap(ptr[s], req[s])
  <2>1. /\ Footprint(s) = <<ptr[s], ptr[s] + req[s]>> /\ ptr[s] + req[s] \in Nat
        /\ HEAP_START <= ptr[s] /\ ptr[s] + req[s] <= HEAP_END
    BY <1>3, HeapFootprint
  <2>2. e + Stride(o) <= HEAP_START \/ HEAP_END <= e
    BY <1>1, EntryOffHeap
  <2> QED
    BY <1>0, <1>1, <1>2, <2>1, <2>2, Constants DEF Disjoint
<1>4. CASE InChunk(ptr[s], req[s])
  <2>1. PICK d \in Cache : /\ IsEntry(ptr[s] - ENTRY, d) /\ req[s] <= cache_size(d)
                           /\ ptr[s] - ENTRY \notin Range(free_list[d])
    BY <1>4 DEF InChunk
  <2>2. /\ Footprint(s) = <<ptr[s] - ENTRY, ptr[s] + req[s]>>
        /\ ptr[s] - ENTRY \in Nat /\ ptr[s] + req[s] \in Nat
        /\ ptr[s] + req[s] <= (ptr[s] - ENTRY) + Stride(d) /\ Stride(d) \in Nat
    BY <2>1, ChunkFootprint, ChunksFit
  <2>3. ptr[s] - ENTRY # e
    <3>1. SUFFICES ASSUME ptr[s] - ENTRY = e PROVE FALSE
      OBVIOUS
    <3>2. d = o
      BY <1>1, <2>1, <3>1, EntryMark
    <3> QED
      BY <1>1, <2>1, <3>1, <3>2
  <2>4. (ptr[s] - ENTRY) + Stride(d) <= e \/ e + Stride(o) <= ptr[s] - ENTRY
    BY <1>1, <2>1, <2>3, EntriesApart
  <2> QED
    BY <1>1, <1>2, <2>2, <2>4 DEF Disjoint
<1>5. CASE InBlock(ptr[s], req[s])
  <2>1. PICK b \in held : /\ ptr[s] = b[1] * PAGE_SIZE /\ req[s] <= PAGE_SIZE * Pow2[b[2]]
                          /\ \A p \in PA!Run(b) : cache_order[p] = -1
    BY <1>5 DEF InBlock
  <2> DEFINE z == b[1] * PAGE_SIZE + PAGE_SIZE * Pow2[b[2]]
  <2>2. Footprint(s) = <<ptr[s], ptr[s] + req[s]>> /\ ptr[s] + req[s] \in Nat /\ ptr[s] + req[s] <= z
    BY <2>1, BlockFootprint
  <2>3. (e + Stride(o) <= ptr[s] \/ z <= e) /\ z \in Nat
    BY <1>1, <2>1, EntryBlockApart, BlockPlace
  <2> HIDE DEF z
  <2> QED
    BY <1>0, <1>1, <1>2, <2>2, <2>3 DEF Disjoint
<1> QED
  BY <1>3, <1>4, <1>5 DEF OwnersInv, Owned

\* Two free chunks.
LEMMA FreeApart ==
    ASSUME MemoryInv, NEW c \in FreeChunks, NEW d \in FreeChunks, c # d
    PROVE  Disjoint(ChunkMemory(c), ChunkMemory(d))
<1> USE DEF MemoryInv
<1> DEFINE e == free_list[c[2]][c[1]] f == free_list[d[2]][d[1]]
<1>1. c[2] \in Cache /\ IsEntry(e, c[2]) /\ d[2] \in Cache /\ IsEntry(f, d[2]) /\ c = <<c[1], c[2]>> /\ d = <<d[1], d[2]>>
  BY FreeChunk
<1>2. e # f
  <2>1. SUFFICES ASSUME e = f PROVE FALSE
    OBVIOUS
  <2>2. c[2] = d[2]
    <3> HIDE DEF e, f
    <3> QED
      BY <1>1, <2>1, EntryMark
  <2>3. c[1] = d[1]
    BY <2>1, <2>2, FreeChunk DEF ListsInv, IsInjective
  <2> QED
    BY <1>1, <2>2, <2>3
<1>3. e + Stride(c[2]) <= f \/ f + Stride(d[2]) <= e
  <2> HIDE DEF e, f
  <2> QED
    BY <1>1, <1>2, EntriesApart
<1> QED
  BY <1>3 DEF ChunkMemory, Disjoint

\* The three kinds of pairs together.
LEMMA InvShared == ASSUME MemoryInv PROVE NoSharedMemory
<1>1. ASSUME NEW s \in Slot, NEW u \in Slot, ptr[s] # NULL, ptr[u] # NULL, s # u
      PROVE  Disjoint(Footprint(s), Footprint(u))
  <2>1. Disjoint(Footprint(s), Footprint(u)) \/ Disjoint(Footprint(u), Footprint(s))
    BY <1>1, CallersApart DEF MemoryInv, OwnersInv, Owned
  <2> QED
    BY <2>1 DEF Disjoint
<1> QED
  BY <1>1, CallerFreeApart, FreeApart DEF NoSharedMemory

-----------------------------------------------------------------------------
(* Lists. *)

\* What \o does to a list without repetitions, ...
LEMMA Concat ==
    ASSUME NEW l \in Seq(Nat), NEW m \in Seq(Nat)
    PROVE  /\ l \o m \in Seq(Nat) /\ Range(l \o m) = Range(l) \cup Range(m)
           /\ IsInjective(l) /\ IsInjective(m) /\ Range(l) \cap Range(m) = {} => IsInjective(l \o m)
<1> DEFINE x == l \o m
<1>1. /\ x \in Seq(Nat) /\ Len(l) \in Nat /\ Len(m) \in Nat /\ Len(x) = Len(l) + Len(m)
      /\ DOMAIN l = 1 .. Len(l) /\ DOMAIN m = 1 .. Len(m) /\ DOMAIN x = 1 .. Len(l) + Len(m)
  OBVIOUS
<1>2. /\ \A i \in DOMAIN l : i \in DOMAIN x /\ x[i] = l[i]
      /\ \A i \in DOMAIN m : i + Len(l) \in DOMAIN x /\ x[i + Len(l)] = m[i]
      /\ \A i \in DOMAIN x : i \in DOMAIN l \/ i - Len(l) \in DOMAIN m
      /\ \A i \in DOMAIN x : i \in DOMAIN l => x[i] = l[i]
      /\ \A i \in DOMAIN x : i \notin DOMAIN l => x[i] = m[i - Len(l)] /\ i \in Int
  BY <1>1
<1> HIDE DEF x
<1>3. Range(x) = Range(l) \cup Range(m)
  BY <1>2 DEF Range
<1>4. ASSUME IsInjective(l), IsInjective(m), Range(l) \cap Range(m) = {}, NEW i \in DOMAIN x, NEW j \in DOMAIN x, x[i] = x[j]
      PROVE  i = j
  <2>1. CASE i \in DOMAIN l /\ j \in DOMAIN l
    BY <1>2, <1>4, <2>1 DEF IsInjective
  <2>2. CASE i \notin DOMAIN l /\ j \notin DOMAIN l
    <3>1. i - Len(l) = j - Len(l)
      BY <1>2, <1>4, <2>2 DEF IsInjective
    <3> QED
      BY <1>1, <1>2, <2>2, <3>1
  <2>3. CASE i \in DOMAIN l /\ j \notin DOMAIN l
    <3>1. x[i] = l[i] /\ x[j] = m[j - Len(l)] /\ j - Len(l) \in DOMAIN m
      BY <1>2, <2>3
    <3>2. x[i] \in Range(l) /\ x[j] \in Range(m)
      BY <2>3, <3>1 DEF Range
    <3> QED
      BY <1>4, <3>2
  <2>4. CASE i \notin DOMAIN l /\ j \in DOMAIN l
    <3>1. x[j] = l[j] /\ x[i] = m[i - Len(l)] /\ i - Len(l) \in DOMAIN m
      BY <1>2, <2>4
    <3>2. x[j] \in Range(l) /\ x[i] \in Range(m)
      BY <2>4, <3>1 DEF Range
    <3> QED
      BY <1>4, <3>2
  <2> QED
    BY <2>1, <2>2, <2>3, <2>4
<1> QED
  BY <1>1, <1>3, <1>4 DEF x, IsInjective

\* ... a push ...
LEMMA Push ==
    ASSUME NEW l \in Seq(Nat), NEW e \in Nat
    PROVE  /\ <<e>> \o l \in Seq(Nat) /\ Range(<<e>> \o l) = {e} \cup Range(l)
           /\ IsInjective(l) /\ e \notin Range(l) => IsInjective(<<e>> \o l)
<1>1. <<e>> \in Seq(Nat) /\ DOMAIN <<e>> = {1} /\ <<e>>[1] = e
  OBVIOUS
<1> DEFINE k == <<e>>
<1> HIDE DEF k
<1>2. Range(k) = {e} /\ IsInjective(k) /\ k \in Seq(Nat)
  BY <1>1 DEF Range, IsInjective, k
<1>3. /\ k \o l \in Seq(Nat) /\ Range(k \o l) = {e} \cup Range(l)
      /\ IsInjective(l) /\ e \notin Range(l) => IsInjective(k \o l)
  BY <1>2, Concat
<1> QED
  BY <1>3 DEF k

\* ... and a pop.
LEMMA Pop ==
    ASSUME NEW l \in Seq(Nat), l # <<>>, IsInjective(l)
    PROVE  /\ Tail(l) \in Seq(Nat) /\ Range(Tail(l)) = Range(l) \ {Head(l)} /\ IsInjective(Tail(l))
           /\ Head(l) \in Range(l) /\ Head(l) \in Nat
<1> DEFINE t == Tail(l)
<1>1. /\ t \in Seq(Nat) /\ Len(l) \in Nat \ {0} /\ DOMAIN l = 1 .. Len(l) /\ DOMAIN t = 1 .. Len(l) - 1
      /\ Head(l) = l[1] /\ Head(l) \in Nat
  OBVIOUS
<1>2. \A i \in DOMAIN t : t[i] = l[i + 1] /\ i + 1 \in DOMAIN l /\ i + 1 # 1 /\ i \in Int
  BY <1>1
<1>3. \A i \in DOMAIN l : i # 1 => i - 1 \in DOMAIN t /\ t[i - 1] = l[i]
  BY <1>1
<1>4. 1 \in DOMAIN l
  BY <1>1
<1> HIDE DEF t
<1>5. Range(t) = Range(l) \ {l[1]}
  BY <1>2, <1>3, <1>4 DEF Range, IsInjective
<1>6. ASSUME NEW i \in DOMAIN t, NEW j \in DOMAIN t, t[i] = t[j] PROVE i = j
  <2>1. i + 1 = j + 1
    BY <1>2, <1>6 DEF IsInjective
  <2> QED
    BY <1>2, <2>1
<1> QED
  BY <1>1, <1>4, <1>5, <1>6 DEF t, IsInjective, Range

\* The chunks of a new page: the first n of them, in front of the list.
LEMMA NewChunks ==
    ASSUME NEW p \in Nat, NEW o \in Cache, NEW n \in 0 .. chunk_num(o), free_list[o] \in Seq(Nat),
           IsInjective(free_list[o]), \A e \in Range(free_list[o]) : e \notin Headers(p, o)
    PROVE  /\ Pushed(p, o, n) \in Seq(Nat) /\ IsInjective(Pushed(p, o, n))
           /\ Range(Pushed(p, o, n)) = Range(free_list[o]) \cup {p * PAGE_SIZE + j * Stride(o) : j \in 0 .. n - 1}
<1> DEFINE S == Stride(o) a == p * PAGE_SIZE
           q == [j \in 1 .. n |-> a + (n - j) * S]
           H == {a + j * S : j \in 0 .. n - 1}
<1>1. a \in Nat /\ S \in Nat \ {0} /\ n \in Nat
  <2>1. PAGE_SIZE \in Nat /\ S \in Nat \ {0} /\ chunk_num(o) \in Nat
    BY Constants, ChunksFit
  <2> QED
    BY <2>1
<1>2. H \subseteq Headers(p, o)
  BY ChunksFit DEF Headers
<1>3. Pushed(p, o, n) = q \o free_list[o]
  BY DEF Pushed
<1> HIDE DEF S, a
<1>4. \A j \in 1 .. n : n - j \in 0 .. n - 1 /\ (n - j) * S \in Nat
  BY <1>1
<1>5. q \in [1 .. n -> Nat]
  BY <1>1, <1>4
<1>6. q \in Seq(Nat) /\ DOMAIN q = 1 .. n
  <2>1. DOMAIN q = 1 .. n
    OBVIOUS
  <2> HIDE DEF q
  <2> QED
    BY <1>1, <1>5, <2>1
<1>7. Range(q) = H
  <2>1. \A x \in Range(q) : x \in H
    BY <1>4, <1>6 DEF Range
  <2>2. ASSUME NEW j \in 0 .. n - 1 PROVE a + j * S \in Range(q)
    <3>1. n - j \in 1 .. n /\ n - (n - j) = j
      BY <1>1
    <3>2. q[n - j] = a + j * S
      BY <3>1
    <3> QED
      BY <1>6, <3>1, <3>2 DEF Range
  <2> QED
    BY <2>1, <2>2
<1>8. IsInjective(q)
  <2> SUFFICES ASSUME NEW i \in 1 .. n, NEW j \in 1 .. n, q[i] = q[j] PROVE i = j
    BY <1>6 DEF IsInjective
  <2>1. a + (n - i) * S = a + (n - j) * S
    OBVIOUS
  <2>2. n - i \in Nat /\ n - j \in Nat
    BY <1>1
  <2>3. CASE n - i < n - j
    <3>1. (n - i) * S + S <= (n - j) * S /\ (n - i) * S \in Nat /\ (n - j) * S \in Nat
      BY <1>1, <2>2, <2>3, Gap
    <3> QED
      BY <1>1, <2>1, <3>1
  <2>4. CASE n - j < n - i
    <3>1. (n - j) * S + S <= (n - i) * S /\ (n - i) * S \in Nat /\ (n - j) * S \in Nat
      BY <1>1, <2>2, <2>4, Gap
    <3> QED
      BY <1>1, <2>1, <3>1
  <2> QED
    BY <1>1, <2>2, <2>3, <2>4
<1>9. Range(q) \cap Range(free_list[o]) = {}
  BY <1>2, <1>7
<1> HIDE DEF q, H
<1>10. /\ Pushed(p, o, n) \in Seq(Nat) /\ IsInjective(Pushed(p, o, n))
       /\ Range(Pushed(p, o, n)) = Range(free_list[o]) \cup H
  BY <1>3, <1>6, <1>7, <1>8, <1>9, Concat
<1> QED
  BY <1>10 DEF H, S, a

-----------------------------------------------------------------------------
(* Frames: what a step leaves as it is. *)

\* Marks stay: a chunk remains a chunk.
LEMMA EntryKept ==
    ASSUME \A p \in Page : cache_order[p] # -1 => cache_order'[p] = cache_order[p],
           NEW o \in Cache, NEW e, IsEntry(e, o)
    PROVE  IsEntry(e, o)'
<1>1. PICK p \in Page : cache_order[p] = o + MIN_CACHE_ORDER /\ e \in Headers(p, o)
  BY DEF IsEntry
<1>2. o + MIN_CACHE_ORDER # -1
  BY Constants DEF Cache
<1> QED
  BY <1>1, <1>2 DEF IsEntry

\* A page that is available has no mark and no caller.
LEMMA AvailUnmarked == ASSUME PagesInv, MarksInv, NEW p \in avail PROVE p \in Page /\ p \in Nat /\ cache_order[p] = -1
<1>1. p \in Page /\ p \in Nat
  BY Constants DEF PagesInv
<1>2. PA!Run(<<p, 0>>) = {p}
  BY <1>1, KmemAssumption DEF PA!Run
<1> QED
  BY <1>1, <1>2 DEF PagesInv, MarksInv, CachePagesKept

\* The page allocator hands out a block.
LEMMA AllocPagesInv ==
    ASSUME PagesInv, NEW p \in Page, NEW k \in PA!Orders, PA!Alloc(<<p, k>>)
    PROVE  PagesInv' /\ p \in avail
<1> DEFINE b == <<p, k>>
<1>1. PA!Run(b) \subseteq avail /\ avail' = avail \ PA!Run(b) /\ held' = held \cup {b}
  BY DEF PA!Alloc, PA!Fits
<1>2. b \in Page \X PA!Orders
  OBVIOUS
<1>3. p \in PA!Run(b)
  <2>1. p \in Nat /\ Pow2[k] \in Nat \ {0}
    BY KmemAssumption, Constants
  <2> QED
    BY <2>1 DEF PA!Run
<1> HIDE DEF b
<1>4. \A c \in held : PA!Run(c) \cap PA!Run(b) = {}
  BY <1>1 DEF PagesInv
<1> QED
  BY <1>1, <1>2, <1>3, <1>4 DEF PagesInv

\* A caller in slot s gets the memory <<a, n>>, or none, and the others keep theirs.
LEMMA OwnersStep ==
    ASSUME CallsInv, OwnersInv, KmallocInv, NEW s \in Slot, NEW a \in Nat, NEW n,
           ptr' = [ptr EXCEPT ![s] = a], req' = [req EXCEPT ![s] = n],
           \A x \in Nat, y \in Nat \ {0} : x # ptr[s] /\ x # NULL /\ Owned(x, y) => Owned(x, y)',
           a # NULL => /\ n \in Nat \ {0} /\ Owned(a, n)'
                       /\ \A u \in Slot \ {s} : ptr[u] # NULL =>
                             /\ ptr[u] # a
                             /\ InHeap(a) /\ InHeap(ptr[u]) => ptr[u] + req[u] <= a,
           ptr[s] # NULL => a = NULL
    PROVE  OwnersInv'
<1>1. /\ ptr'[s] = a /\ req'[s] = n
      /\ \A u \in Slot \ {s} : ptr'[u] = ptr[u] /\ req'[u] = req[u]
  BY DEF CallsInv, KmallocInv
<1>2. \A u \in Slot \ {s} : ptr[u] # NULL /\ ptr[s] # NULL => ptr[u] # ptr[s]
  BY DEF OwnersInv
<1>3. ASSUME NEW u \in Slot, ptr'[u] # NULL
      PROVE  req'[u] \in Nat \ {0} /\ Owned(ptr[u], req[u])'
  <2>1. CASE u = s
    BY <1>1, <1>3, <2>1
  <2>2. CASE u # s
    <3>1. ptr[u] \in Nat /\ req[u] \in Nat \ {0} /\ Owned(ptr[u], req[u]) /\ ptr[u] # ptr[s]
      BY <1>1, <1>2, <1>3, <2>2 DEF OwnersInv, CallsInv
    <3> QED
      BY <1>1, <1>3, <2>2, <3>1
  <2> QED
    BY <2>1, <2>2
<1>4. ASSUME NEW u \in Slot, NEW v \in Slot, u # v, ptr'[u] # NULL, ptr'[v] # NULL
      PROVE  /\ ptr'[u] # ptr'[v]
             /\ InHeap(ptr'[u]) /\ InHeap(ptr'[v]) =>
                   ptr'[u] + req'[u] <= ptr'[v] \/ ptr'[v] + req'[v] <= ptr'[u]
  <2>1. CASE u # s /\ v # s
    BY <1>1, <1>4, <2>1 DEF OwnersInv
  <2>2. CASE u = s
    BY <1>1, <1>4, <2>2
  <2>3. CASE v = s
    BY <1>1, <1>4, <2>3
  <2> QED
    BY <2>1, <2>2, <2>3
<1> QED
  BY <1>3, <1>4 DEF OwnersInv, InHeap

\* Nobody gets or returns memory.
LEMMA OwnersSame ==
    ASSUME CallsInv, OwnersInv, UNCHANGED <<ptr, req>>,
           \A x \in Nat, y \in Nat \ {0} : x # NULL /\ Owned(x, y) => Owned(x, y)'
    PROVE  OwnersInv'
<1>1. ASSUME NEW u \in Slot, ptr'[u] # NULL PROVE req'[u] \in Nat \ {0} /\ Owned(ptr[u], req[u])'
  <2>1. ptr[u] \in Nat /\ req[u] \in Nat \ {0} /\ Owned(ptr[u], req[u]) /\ ptr[u] # NULL
    BY <1>1 DEF OwnersInv, CallsInv
  <2> QED
    BY <2>1
<1> QED
  BY <1>1 DEF OwnersInv, InHeap

-----------------------------------------------------------------------------
(* A page becomes chunks. *)

\* The new chunks are nobody's, and none of the page is missing.
LEMMA CarveInv ==
    ASSUME MemoryInv, NEW p \in Page, NEW o \in Cache, NEW n \in Nat,
           chunk_num(o) - 1 <= n, n <= chunk_num(o), Carve(p, o, n), UNCHANGED <<heap_ptr, ptr, req>>
    PROVE  PagesInv' /\ MarksInv' /\ ListsInv' /\ OwnersInv' /\ ChunksConserved'
<1> USE DEF MemoryInv
<1>1. PagesInv' /\ p \in avail
  <2>1. PA!Alloc(<<p, 0>>) /\ 0 \in PA!Orders
    BY KmemAssumption DEF Carve, PA!Orders
  <2> QED
    BY <2>1, AllocPagesInv
<1>2. cache_order[p] = -1 /\ p \in Nat
  BY <1>1, AvailUnmarked
<1>3. /\ cache_order' = [cache_order EXCEPT ![p] = o + MIN_CACHE_ORDER]
      /\ free_list' = [free_list EXCEPT ![o] = Pushed(p, o, n)]
      /\ held' = held \cup {<<p, 0>>}
  BY DEF Carve, PA!Alloc
<1>4. /\ cache_order'[p] = o + MIN_CACHE_ORDER
      /\ \A q \in Page \ {p} : cache_order'[q] = cache_order[q]
  BY <1>3 DEF MarksInv
<1>5. \A q \in Page : cache_order[q] # -1 => cache_order'[q] = cache_order[q]
  BY <1>2, <1>4
<1>6. MarksInv'
  <2>1. cache_order' \in [Page -> {-1} \cup {c + MIN_CACHE_ORDER : c \in Cache}]
    BY <1>3 DEF MarksInv
  <2>2. CachePagesKept'
    BY <1>3, <1>4 DEF MarksInv, CachePagesKept
  <2> QED
    BY <2>1, <2>2 DEF MarksInv
\* The page had no chunks before.
<1>7. \A c \in Cache : \A e : IsEntry(e, c) => e \notin Headers(p, o)
  <2> SUFFICES ASSUME NEW c \in Cache, NEW e, IsEntry(e, c), e \in Headers(p, o) PROVE FALSE
    OBVIOUS
  <2>1. PageOf(e + ENTRY) = p
    BY <1>2, HeaderPlace
  <2> QED
    BY <1>2, <2>1, EntryMark
<1> DEFINE H == {p * PAGE_SIZE + j * Stride(o) : j \in 0 .. n - 1}
<1>8. H \subseteq Headers(p, o)
  BY ChunksFit DEF Headers
<1>9. /\ free_list'[o] \in Seq(Nat) /\ IsInjective(free_list'[o])
      /\ Range(free_list'[o]) = Range(free_list[o]) \cup H
      /\ \A c \in Cache \ {o} : free_list'[c] = free_list[c]
  <2>1. /\ free_list[o] \in Seq(Nat) /\ IsInjective(free_list[o])
        /\ \A e \in Range(free_list[o]) : e \notin Headers(p, o)
    BY <1>7 DEF ListsInv
  <2>2. n \in 0 .. chunk_num(o)
    BY ChunksFit
  <2>3. /\ Pushed(p, o, n) \in Seq(Nat) /\ IsInjective(Pushed(p, o, n))
        /\ Range(Pushed(p, o, n)) = Range(free_list[o]) \cup H
    BY <1>2, <2>1, <2>2, NewChunks
  <2> HIDE DEF H
  <2>4. free_list'[o] = Pushed(p, o, n) /\ \A c \in Cache \ {o} : free_list'[c] = free_list[c]
    BY <1>3 DEF ListsInv
  <2> QED
    BY <2>3, <2>4
<1>10. \A c \in Cache : \A e : IsEntry(e, c) => IsEntry(e, c)'
  BY <1>5, EntryKept
<1>11. ListsInv'
  <2>1. free_list' \in [Cache -> Seq(Nat)]
    BY <1>3, <1>9 DEF ListsInv
  <2>2. \A e \in H : IsEntry(e, o)'
    BY <1>4, <1>8 DEF IsEntry
  <2> HIDE DEF H
  <2>3. ASSUME NEW c \in Cache PROVE (\A e \in Range(free_list'[c]) : IsEntry(e, c)') /\ IsInjective(free_list'[c])
    BY <1>9, <1>10, <2>2 DEF ListsInv
  <2> QED
    BY <2>1, <2>3 DEF ListsInv, Range, IsInjective
<1>12. OwnersInv'
  <2> SUFFICES ASSUME NEW x \in Nat, NEW y \in Nat \ {0}, Owned(x, y) PROVE Owned(x, y)'
    BY OwnersSame
  <2>1. CASE OnHeap(x, y)
    BY <2>1 DEF OnHeap, Owned
  <2>2. CASE InChunk(x, y)
    <3>1. PICK c \in Cache : IsEntry(x - ENTRY, c) /\ y <= cache_size(c) /\ x - ENTRY \notin Range(free_list[c])
      BY <2>2 DEF InChunk
    <3>2. x - ENTRY \notin Range(free_list'[c])
      BY <1>7, <1>8, <1>9, <3>1
    <3>3. InChunk(x, y)'
      BY <1>10, <3>1, <3>2 DEF InChunk, Range
    <3> QED
      BY <3>3 DEF Owned
  <2>3. CASE InBlock(x, y)
    <3>1. PICK b \in held : /\ x = b[1] * PAGE_SIZE /\ y <= PAGE_SIZE * Pow2[b[2]]
                            /\ \A q \in PA!Run(b) : cache_order[q] = -1
      BY <2>3 DEF InBlock
    <3>2. p \notin PA!Run(b) /\ PA!Run(b) \subseteq Page
      BY <1>1 DEF PagesInv
    <3>3. \A q \in PA!Run(b) : cache_order'[q] = -1
      BY <1>4, <3>1, <3>2
    <3>4. InBlock(x, y)'
      BY <1>3, <3>1, <3>3 DEF InBlock, PA!Run
    <3> QED
      BY <3>4 DEF Owned
  <2> QED
    BY <2>1, <2>2, <2>3 DEF Owned
<1>13. ChunksConserved'
  <2> SUFFICES ASSUME NEW q \in Page, NEW c \in Cache, cache_order'[q] = c + MIN_CACHE_ORDER,
                      NEW j \in 0 .. chunk_num(c) - 2
               PROVE  \/ q * PAGE_SIZE + j * Stride(c) \in Range(free_list'[c])
                      \/ \E s \in Slot : ptr'[s] = (q * PAGE_SIZE + j * Stride(c)) + ENTRY
    BY DEF ChunksConserved, Range
  <2>1. CASE q = p
    <3>1. c = o
      BY <1>4, <2>1, Constants DEF Cache
    <3>2. j \in 0 .. n - 1
      BY <3>1, ChunksFit
    <3> QED
      BY <1>9, <2>1, <3>1, <3>2
  <2>2. CASE q # p
    <3>1. Range(free_list[c]) \subseteq Range(free_list'[c])
      <4> HIDE DEF H
      <4> QED
        BY <1>9
    <3> QED
      BY <1>4, <2>2, <3>1 DEF ChunksConserved
  <2> QED
    BY <2>1, <2>2
<1> QED
  BY <1>1, <1>6, <1>11, <1>12, <1>13

-----------------------------------------------------------------------------
(* The other steps. *)

\* Steps that leave pages and lists alone.
LEMMA ListsSame ==
    ASSUME MemoryInv, UNCHANGED <<avail, held, cache_order, free_list>>
    PROVE  PagesInv' /\ MarksInv' /\ ListsInv'
  BY DEF MemoryInv, PagesInv, MarksInv, CachePagesKept, ListsInv, IsEntry, PA!Run, Range, IsInjective

\* The heap only grows.
LEMMA OwnedSame ==
    ASSUME CallsInv, UNCHANGED <<held, cache_order, free_list>>, heap_ptr' \in Nat, heap_ptr <= heap_ptr',
           NEW x \in Nat, NEW y \in Nat, Owned(x, y)
    PROVE  Owned(x, y)'
<1>1. heap_ptr \in Nat
  BY Constants DEF CallsInv
<1>2. CASE OnHeap(x, y)
  BY <1>1, <1>2 DEF OnHeap, Owned
<1>3. CASE InChunk(x, y)
  BY <1>3 DEF InChunk, IsEntry, Owned, Range
<1>4. CASE InBlock(x, y)
  BY <1>4 DEF InBlock, Owned, PA!Run
<1> QED
  BY <1>2, <1>3, <1>4 DEF Owned

\* A pointer that was no chunk goes.
LEMMA ConservedSame ==
    ASSUME MemoryInv, UNCHANGED <<cache_order, free_list>>, NEW s \in Slot, NEW a,
           ptr' = [ptr EXCEPT ![s] = a],
           \A o \in Cache : \A e : IsEntry(e, o) => ptr[s] # e + ENTRY
    PROVE  ChunksConserved'
<1> SUFFICES ASSUME NEW q \in Page, NEW c \in Cache, cache_order'[q] = c + MIN_CACHE_ORDER,
                    NEW j \in 0 .. chunk_num(c) - 2
             PROVE  \/ q * PAGE_SIZE + j * Stride(c) \in Range(free_list'[c])
                    \/ \E u \in Slot : ptr'[u] = (q * PAGE_SIZE + j * Stride(c)) + ENTRY
  BY DEF ChunksConserved, Range
<1> DEFINE e == q * PAGE_SIZE + j * Stride(c)
<1>1. IsEntry(e, c)
  <2>1. j \in 0 .. chunk_num(c) - 1
    BY ChunksFit
  <2>2. e \in Headers(q, c)
    BY <2>1 DEF Headers
  <2> QED
    BY <2>2 DEF IsEntry
<1>2. e \in Range(free_list[c]) \/ \E u \in Slot : ptr[u] = e + ENTRY
  BY DEF MemoryInv, ChunksConserved
<1> HIDE DEF e
<1>3. \A u \in Slot : ptr[u] = e + ENTRY => ptr'[u] = e + ENTRY
  BY <1>1 DEF MemoryInv, CallsInv
<1> QED
  BY <1>2, <1>3 DEF e

\* NULL and memory of the heap are no chunks.
LEMMA NoChunk ==
    ASSUME MemoryInv, NEW a \in Nat, a = NULL \/ InHeap(a), NEW o \in Cache, NEW e, IsEntry(e, o)
    PROVE  a # e + ENTRY
<1> USE DEF MemoryInv
<1>1. e \in Nat /\ ENTRY \in Nat \ {0}
  BY EntryMark, Constants
<1>2. SUFFICES ASSUME a = e + ENTRY PROVE FALSE
  OBVIOUS
<1>3. a - ENTRY = e
  BY <1>1, <1>2
<1>4. ~ InHeap(a)
  BY <1>3, SeesChunk
<1> QED
  BY <1>1, <1>2, <1>4 DEF NULL

\* A call ends, and nobody is in kmalloc.
LEMMA CallsIdle ==
    ASSUME ~ Interruptible, KmallocInv, CallsInv, NEW s \in Slot, Undisturbed(s), NEW a \in Nat,
           ptr' = [ptr EXCEPT ![s] = a], entry' \in [Slot -> Nat], heap_ptr' \in HEAP_START .. HEAP_END,
           pc' = [pc EXCEPT ![s] = "idle"] \/ (pc[s] = "idle" /\ UNCHANGED pc)
    PROVE  CallsInv'
<1>1. \A u \in Slot : pc'[u] = "idle"
  BY OthersIdle DEF KmallocInv
<1>2. ptr' \in [Slot -> Nat]
  BY DEF CallsInv
<1> QED
  BY <1>1, <1>2 DEF CallsInv

\* The returned pointer is stored.
LEMMA ReturnCalls ==
    ASSUME ~ Interruptible, KmallocInv, CallsInv, NEW s \in Slot, Undisturbed(s), NEW a \in Nat, NEW n,
           Return(s, a, n), heap_ptr' \in HEAP_START .. HEAP_END
    PROVE  CallsInv'
<1>1. entry' \in [Slot -> Nat]
  BY DEF Return, CallsInv, NULL
<1> QED
  BY <1>1, CallsIdle DEF Return

\* simple_alloc: the new memory lies behind all that was handed out before.
LEMMA SimpleInv ==
    ASSUME ~ Interruptible, MemoryInv, NEW s \in Slot, NEW n \in Sizes, simple_alloc(s, n)
    PROVE  PagesInv' /\ MarksInv' /\ ListsInv' /\ CallsInv' /\ OwnersInv' /\ ChunksConserved'
<1> USE DEF MemoryInv
<1>1. /\ UNCHANGED <<avail, held, cache_order, free_list>> /\ ptr[s] = NULL /\ Undisturbed(s)
      /\ n \in Nat \ {0} /\ heap_ptr \in Nat /\ heap_ptr # 0
  BY Constants, KmemAssumption DEF simple_alloc, Empty, Ready, pages, caches, CallsInv
<1>2. PICK a \in {NULL, heap_ptr} :
         /\ Return(s, a, n)
         /\ a = NULL => UNCHANGED heap_ptr
         /\ a # NULL => a = heap_ptr /\ heap_ptr' = heap_ptr + n /\ ~ (heap_ptr + n > HEAP_END)
  <2>1. heap_ptr # NULL
    BY <1>1 DEF NULL
  <2> QED
    BY <2>1 DEF simple_alloc
<1>3. a \in Nat /\ heap_ptr' \in HEAP_START .. HEAP_END /\ heap_ptr' \in Nat /\ heap_ptr <= heap_ptr'
  BY <1>1, <1>2, Constants DEF CallsInv, NULL
<1>4. CallsInv'
  BY <1>1, <1>2, <1>3, ReturnCalls
<1>5. ptr' = [ptr EXCEPT ![s] = a]
  BY <1>2 DEF Return
<1>6. ChunksConserved'
  BY <1>1, <1>5, NoChunk, ConservedSame DEF CallsInv
<1>7. OwnersInv'
  <2> DEFINE m == IF a = NULL THEN 0 ELSE n
  <2>1. req' = [req EXCEPT ![s] = m]
    BY <1>2 DEF Return
  <2>2. \A x \in Nat, y \in Nat \ {0} : Owned(x, y) => Owned(x, y)'
    BY <1>1, <1>3, OwnedSame
  <2>3. a # NULL => Owned(a, m)'
    BY <1>2, <1>3 DEF Owned, OnHeap, CallsInv
  <2>4. ASSUME a # NULL, NEW u \in Slot \ {s}, ptr[u] # NULL
        PROVE  ptr[u] # a /\ (InHeap(a) /\ InHeap(ptr[u]) => ptr[u] + req[u] <= a)
    <3>1. ptr[u] \in Nat /\ req[u] \in Nat \ {0} /\ Owned(ptr[u], req[u])
      BY <2>4 DEF CallsInv, OwnersInv
    <3>2. a = heap_ptr /\ InHeap(a)
      BY <1>1, <1>2, <2>4, Constants DEF InHeap, CallsInv
    <3>3. CASE OnHeap(ptr[u], req[u])
      BY <1>1, <3>1, <3>2, <3>3 DEF OnHeap
    <3>4. CASE InChunk(ptr[u], req[u])
      BY <3>1, <3>2, <3>4, SeesChunk DEF InChunk
    <3>5. CASE InBlock(ptr[u], req[u])
      BY <3>2, <3>5, SeesBlock DEF InBlock
    <3> QED
      BY <3>1, <3>3, <3>4, <3>5 DEF Owned
  <2>5. a # NULL => m \in Nat \ {0}
    BY <1>1
  <2> HIDE DEF m
  <2> QED
    BY <1>1, <1>3, <1>5, <2>1, <2>2, <2>3, <2>4, <2>5, OwnersStep
<1> QED
  BY <1>1, <1>4, <1>6, <1>7, ListsSame

\* free() of memory of simple_alloc.
LEMMA FreeHeapInv ==
    ASSUME ~ Interruptible, MemoryInv, NEW s \in Slot, FreeHeap(s)
    PROVE  PagesInv' /\ MarksInv' /\ ListsInv' /\ CallsInv' /\ OwnersInv' /\ ChunksConserved'
<1> USE DEF MemoryInv
<1>1. /\ UNCHANGED <<avail, held, cache_order, free_list, heap_ptr, pc, entry>> /\ InHeap(ptr[s])
      /\ Undisturbed(s) /\ pc[s] = "idle"
      /\ ptr' = [ptr EXCEPT ![s] = NULL] /\ req' = [req EXCEPT ![s] = 0]
  BY DEF FreeHeap, Ready, pages, caches, Clear
<1>2. NULL \in Nat /\ ptr[s] \in Nat /\ entry' \in [Slot -> Nat] /\ heap_ptr' \in HEAP_START .. HEAP_END /\ heap_ptr \in Nat
  BY <1>1, Constants DEF CallsInv, NULL
<1>3. CallsInv'
  BY <1>1, <1>2, CallsIdle
<1>4. ChunksConserved'
  BY <1>1, <1>2, NoChunk, ConservedSame
<1>5. \A x \in Nat, y \in Nat \ {0} : Owned(x, y) => Owned(x, y)'
  BY <1>1, <1>2, OwnedSame
<1>6. OwnersInv'
  BY <1>1, <1>2, <1>5, OwnersStep
<1> QED
  BY <1>1, <1>3, <1>4, <1>6, ListsSame

\* kmalloc begins.
LEMMA BeginInv ==
    ASSUME ~ Interruptible, MemoryInv, NEW s \in Slot, NEW n \in Sizes, kmalloc(s, n)
    PROVE  PagesInv' /\ MarksInv' /\ ListsInv' /\ CallsInv' /\ OwnersInv' /\ ChunksConserved'
<1> USE DEF MemoryInv
<1>1. /\ UNCHANGED <<avail, held, cache_order, free_list, heap_ptr, ptr, entry>> /\ ptr[s] = NULL
      /\ Undisturbed(s) /\ pc' = [pc EXCEPT ![s] = "kmalloc"] /\ req' = [req EXCEPT ![s] = n]
  BY DEF kmalloc, Empty, Ready, pages, caches
<1>2. NULL \in Nat /\ heap_ptr' \in Nat /\ heap_ptr <= heap_ptr' /\ ptr' = [ptr EXCEPT ![s] = NULL]
  BY <1>1, Constants DEF CallsInv, NULL
<1>3. CallsInv'
  <2>1. \A u \in Slot : pc'[u] # "pop" /\ (pc'[u] # "idle" => u = s)
    BY <1>1, OthersIdle DEF KmallocInv
  <2> QED
    BY <1>1, <2>1 DEF CallsInv
<1>4. ChunksConserved'
  BY <1>1, <1>2, NoChunk, ConservedSame
<1>5. \A x \in Nat, y \in Nat \ {0} : Owned(x, y) => Owned(x, y)'
  BY <1>1, <1>2, OwnedSame
<1>6. OwnersInv'
  BY <1>1, <1>2, <1>5, OwnersStep
<1> QED
  BY <1>1, <1>3, <1>4, <1>6, ListsSame

\* kmalloc reads the list.
LEMMA ReadInv ==
    ASSUME ~ Interruptible, MemoryInv, NEW s \in Slot, ReadEntry(s)
    PROVE  PagesInv' /\ MarksInv' /\ ListsInv' /\ CallsInv' /\ OwnersInv' /\ ChunksConserved'
<1> USE DEF MemoryInv
<1>1. /\ UNCHANGED <<avail, held, cache_order, free_list, heap_ptr>> /\ ptr[s] = NULL
      /\ Undisturbed(s) /\ pc[s] = "read"
  BY DEF ReadEntry, pages, caches, CallsInv
<1>2. NULL \in Nat /\ heap_ptr' \in Nat /\ heap_ptr <= heap_ptr' /\ heap_ptr' \in HEAP_START .. HEAP_END
  BY <1>1, Constants DEF CallsInv, NULL
<1>3. ptr' = [ptr EXCEPT ![s] = NULL] /\ \E n : req' = [req EXCEPT ![s] = n]
  BY <1>1 DEF ReadEntry, Return, CallsInv, KmallocInv
<1>4. CallsInv'
  <2> DEFINE o == CacheOf(s)
  <2>1. CASE free_list[o] = <<>>
    BY <1>1, <1>2, <2>1, ReturnCalls DEF ReadEntry
  <2>2. CASE free_list[o] # <<>>
    <3>1. /\ entry' = [entry EXCEPT ![s] = Head(free_list[o])] /\ pc' = [pc EXCEPT ![s] = "pop"]
          /\ UNCHANGED <<ptr, req>>
      BY <2>2 DEF ReadEntry
    <3>2. o \in Cache
      BY <1>1, CacheExists DEF KmallocInv, CacheOf
    <3>3. CacheOf(s)' = o
      BY <3>1 DEF CacheOf
    <3> HIDE DEF o
    <3>4. Head(free_list[o]) \in Nat
      BY <2>2, <3>2, Pop DEF ListsInv
    <3>5. entry' \in [Slot -> Nat] /\ entry'[s] = Head(free_list[o])
      BY <3>1, <3>4 DEF CallsInv
    <3>6. \A u \in Slot : pc'[u] # "idle" => u = s
      BY <1>1, <3>1, OthersIdle DEF KmallocInv
    <3> QED
      BY <1>1, <1>2, <2>2, <3>1, <3>3, <3>5, <3>6 DEF CallsInv
  <2> QED
    BY <2>1, <2>2
<1>5. ChunksConserved'
  BY <1>1, <1>2, <1>3, NoChunk, ConservedSame
<1>6. \A x \in Nat, y \in Nat \ {0} : Owned(x, y) => Owned(x, y)'
  BY <1>1, <1>2, OwnedSame
<1>7. OwnersInv'
  BY <1>1, <1>2, <1>3, <1>6, OwnersStep
<1> QED
  BY <1>1, <1>4, <1>5, <1>7, ListsSame

\* A size that a block can hold has an order, whose blocks are large enough.
LEMMA OrderExists ==
    ASSUME NEW n \in Nat, n <= MAX_ALLOC_SIZE
    PROVE  get_order(n) \in PA!Orders /\ n <= PAGE_SIZE * Pow2[get_order(n)]
<1> DEFINE D == {k \in PA!Orders : PAGE_SIZE * Pow2[k] >= n}
<1>1. MAX_ORDER \in Nat \ {0} /\ PA!Orders = 0 .. MAX_ORDER - 1
  BY KmemAssumption DEF PA!Orders
<1>2. \A k \in PA!Orders : k \in Nat /\ PAGE_SIZE * Pow2[k] \in Nat
  BY <1>1, KmemAssumption
<1>3. D # {} /\ D \in SUBSET Nat
  <2>1. MAX_ORDER - 1 \in D
    BY <1>1, <1>2 DEF MAX_ALLOC_SIZE
  <2> QED
    BY <1>2, <2>1
<1>4. PICK k \in D : \A m \in D : <<m, k>> \notin OpToRel(<, Nat)
  <2> HIDE DEF D
  <2> QED
    BY <1>3, NatLessThanWellFounded, WFMin, Zenon
<1>5. \A m \in D : ~ (m < k)
  BY <1>3, <1>4 DEF OpToRel
<1>6. \A j \in 0 .. k - 1 : PAGE_SIZE * Pow2[j] < n
  <2> SUFFICES ASSUME NEW j \in 0 .. k - 1 PROVE PAGE_SIZE * Pow2[j] < n
    OBVIOUS
  <2>1. j \in PA!Orders /\ j < k
    BY <1>1, <1>2
  <2> QED
    BY <1>2, <1>5, <2>1
<1>7. get_order(n) \in PA!Orders /\ PAGE_SIZE * Pow2[get_order(n)] >= n
  BY <1>6 DEF get_order
<1> QED
  BY <1>2, <1>7

\* The start of a page that is available is nobody's pointer.
LEMMA AvailNobodys ==
    ASSUME MemoryInv, NEW p \in avail, NEW u \in Slot, ptr[u] # NULL
    PROVE  ptr[u] # p * PAGE_SIZE
<1> USE DEF MemoryInv
<1>1. SUFFICES ASSUME ptr[u] = p * PAGE_SIZE PROVE FALSE
  OBVIOUS
<1>2. p \in Page /\ p \in Nat /\ cache_order[p] = -1 /\ p \notin HeapPages
  BY AvailUnmarked DEF PagesInv
<1>3. PageOf(ptr[u]) = p
  BY <1>1, <1>2, PageStart
<1>4. ptr[u] \in Nat /\ req[u] \in Nat \ {0}
  BY DEF CallsInv, OwnersInv
<1>5. CASE OnHeap(ptr[u], req[u])
  <2>1. HEAP_START <= ptr[u] /\ ptr[u] < HEAP_END
    BY <1>4, <1>5, SeesHeap DEF InHeap
  <2>2. ptr[u] + PAGE_SIZE <= HEAP_START \/ HEAP_END <= ptr[u]
    BY <1>1, <1>2, PageOffHeap
  <2> QED
    BY <1>4, <2>1, <2>2, Constants
<1>6. CASE InChunk(ptr[u], req[u])
  BY <1>2, <1>3, <1>4, <1>6, SeesChunk DEF InChunk
<1>7. CASE InBlock(ptr[u], req[u])
  <2>1. PICK b \in held : ptr[u] = b[1] * PAGE_SIZE
    BY <1>7 DEF InBlock
  <2>2. b[1] = p
    BY <1>3, <2>1, BlockPlace
  <2> QED
    BY <2>2, BlockPlace DEF PagesInv
<1> QED
  BY <1>5, <1>6, <1>7 DEF OwnersInv, Owned

\* alloc of a block: its pages were available, so nobody has them.
LEMMA AllocInv ==
    ASSUME ~ Interruptible, MemoryInv, NEW s \in Slot, NEW n \in Sizes, AllocPages(s, n)
    PROVE  PagesInv' /\ MarksInv' /\ ListsInv' /\ CallsInv' /\ OwnersInv' /\ ChunksConserved'
<1> USE DEF MemoryInv
<1>1. /\ UNCHANGED <<cache_order, free_list, heap_ptr>> /\ ptr[s] = NULL /\ Undisturbed(s)
      /\ n \in Nat \ {0} /\ heap_ptr \in Nat /\ heap_ptr' \in HEAP_START .. HEAP_END /\ NULL \in Nat
  BY Constants, KmemAssumption DEF AllocPages, Empty, Ready, caches, CallsInv, NULL
<1>2. CASE Return(s, NULL, n) /\ UNCHANGED pages
  <2>1. UNCHANGED <<avail, held>> /\ ptr' = [ptr EXCEPT ![s] = NULL] /\ req' = [req EXCEPT ![s] = 0]
    BY <1>2 DEF pages, Return
  <2>2. CallsInv'
    BY <1>1, <1>2, ReturnCalls
  <2>3. ChunksConserved'
    BY <1>1, <2>1, NoChunk, ConservedSame
  <2>4. \A x \in Nat, y \in Nat \ {0} : Owned(x, y) => Owned(x, y)'
    BY <1>1, <2>1, OwnedSame
  <2>5. OwnersInv'
    BY <1>1, <2>1, <2>4, OwnersStep
  <2> QED
    BY <1>1, <2>1, <2>2, <2>3, <2>5, ListsSame
<1>3. ASSUME n <= MAX_ALLOC_SIZE, NEW p \in Page, PA!Alloc(<<p, get_order(n)>>), Return(s, p * PAGE_SIZE, n)
      PROVE  PagesInv' /\ MarksInv' /\ ListsInv' /\ CallsInv' /\ OwnersInv' /\ ChunksConserved'
  <2> DEFINE k == get_order(n) a == p * PAGE_SIZE b == <<p, k>>
  <2>1. k \in PA!Orders /\ n <= PAGE_SIZE * Pow2[k]
    BY <1>1, <1>3, OrderExists
  <2>2. PagesInv' /\ p \in avail
    BY <1>3, <2>1, AllocPagesInv
  <2>3. held' = held \cup {b} /\ PA!Run(b) \subseteq avail
    BY <1>3 DEF PA!Alloc, PA!Fits
  <2>4. a \in Nat /\ a # NULL /\ ~ InHeap(a)
    <3>1. p \in Nat \ {0} /\ p \notin HeapPages /\ PAGE_SIZE \in Nat \ {0}
      BY <2>2, Constants DEF PagesInv
    <3>2. a \in Nat /\ a # 0
      BY <3>1
    <3>3. a + PAGE_SIZE <= HEAP_START \/ HEAP_END <= a
      BY <3>1, PageOffHeap
    <3> HIDE DEF a
    <3> QED
      BY <3>1, <3>2, <3>3, Constants DEF InHeap, NULL
  <2>5. ptr' = [ptr EXCEPT ![s] = a] /\ req' = [req EXCEPT ![s] = n]
    BY <1>3, <2>4 DEF Return
  <2>6. CallsInv'
    BY <1>1, <1>3, <2>4, ReturnCalls
  <2>7. ChunksConserved'
    BY <1>1, <2>5, NoChunk, ConservedSame
  <2>8. MarksInv' /\ ListsInv'
    <3>1. held \subseteq held'
      BY <2>3
    <3>2. MarksInv'
      BY <1>1, <3>1 DEF MarksInv, CachePagesKept
    <3>3. ListsInv'
      BY <1>1 DEF ListsInv, IsEntry, Range, IsInjective
    <3> QED
      BY <3>2, <3>3
  <2>9. ASSUME NEW x \in Nat, NEW y \in Nat \ {0}, Owned(x, y) PROVE Owned(x, y)'
    <3>1. CASE OnHeap(x, y)
      BY <1>1, <3>1 DEF OnHeap, Owned
    <3>2. CASE InChunk(x, y)
      BY <1>1, <3>2 DEF InChunk, IsEntry, Owned, Range
    <3>3. CASE InBlock(x, y)
      <4>1. InBlock(x, y)'
        <5> HIDE DEF b
        <5> QED
          BY <1>1, <2>3, <3>3 DEF InBlock, PA!Run
      <4> QED
        BY <4>1 DEF Owned
    <3> QED
      BY <2>9, <3>1, <3>2, <3>3 DEF Owned
  <2>10. Owned(a, n)'
    <3>1. \A q \in PA!Run(b) : cache_order'[q] = -1
      BY <1>1, <2>3, AvailUnmarked
    <3>2. b \in held' /\ b[1] = p /\ b[2] = k
      BY <2>3
    <3>3. InBlock(a, n)'
      <4> HIDE DEF b, k
      <4> QED
        BY <2>1, <3>1, <3>2 DEF InBlock, PA!Run
    <3> QED
      BY <3>3 DEF Owned
  <2>11. \A u \in Slot \ {s} : ptr[u] # NULL => ptr[u] # a
    BY <2>2, AvailNobodys
  <2>12. OwnersInv'
    <3> HIDE DEF a, b, k
    <3> QED
      BY <1>1, <2>4, <2>5, <2>9, <2>10, <2>11, OwnersStep
  <2> QED
    BY <2>2, <2>6, <2>7, <2>8, <2>12
<1> QED
  BY <1>2, <1>3 DEF AllocPages

\* kmalloc takes the head of the list, which nobody has.
LEMMA PopInv ==
    ASSUME ~ Interruptible, MemoryInv, NEW s \in Slot, kmem_freelist_pop(s)
    PROVE  PagesInv' /\ MarksInv' /\ ListsInv' /\ CallsInv' /\ OwnersInv' /\ ChunksConserved'
<1> USE DEF MemoryInv
<1>0. PICK o, e, n : o = CacheOf(s) /\ e = entry[s] /\ n = req[s]
  OBVIOUS
<1> DEFINE a == e + ENTRY
<1>1. /\ UNCHANGED <<avail, held, cache_order, heap_ptr>> /\ ptr[s] = NULL /\ Undisturbed(s)
      /\ Return(s, a, n) /\ free_list' = [free_list EXCEPT ![o] = Tail(@)] /\ free_list[o] # <<>>
      /\ pc[s] = "pop" /\ e = Head(free_list[o])
  BY <1>0 DEF kmem_freelist_pop, pages, CallsInv
<1>2. o \in Cache /\ n \in Nat \ {0} /\ n <= cache_size(o)
  <2>1. n \in 1 .. MAX_CHUNK_SIZE
    BY <1>0, <1>1 DEF KmallocInv
  <2>2. o \in Cache /\ n <= cache_size(o)
    BY <1>0, <2>1, CacheExists DEF CacheOf
  <2> QED
    BY <2>1, <2>2
<1>3. /\ free_list'[o] \in Seq(Nat) /\ IsInjective(free_list'[o]) /\ e \in Range(free_list[o]) /\ e \in Nat
      /\ Range(free_list'[o]) = Range(free_list[o]) \ {e}
      /\ \A c \in Cache \ {o} : free_list'[c] = free_list[c]
  <2>1. free_list[o] \in Seq(Nat) /\ IsInjective(free_list[o])
    BY <1>2 DEF ListsInv
  <2>2. free_list'[o] = Tail(free_list[o]) /\ \A c \in Cache \ {o} : free_list'[c] = free_list[c]
    BY <1>1, <1>2 DEF ListsInv
  <2> QED
    BY <1>1, <2>1, <2>2, Pop
<1>4. IsEntry(e, o)
  BY <1>2, <1>3 DEF ListsInv
<1>5. a \in Nat /\ a # NULL /\ a - ENTRY = e /\ ~ InHeap(a)
  <2>1. ENTRY \in Nat \ {0}
    BY Constants
  <2>2. a \in Nat /\ a # 0 /\ a - ENTRY = e
    BY <1>3, <2>1
  <2> HIDE DEF a
  <2>3. ~ InHeap(a)
    BY <1>2, <1>4, <2>2, SeesChunk
  <2> QED
    BY <2>2, <2>3 DEF NULL
<1>6. PagesInv' /\ MarksInv'
  BY <1>1 DEF PagesInv, MarksInv, CachePagesKept, PA!Run
<1>7. ListsInv'
  <2>1. free_list' \in [Cache -> Seq(Nat)]
    BY <1>1, <1>3 DEF ListsInv
  <2>2. ASSUME NEW c \in Cache PROVE (\A f \in Range(free_list'[c]) : IsEntry(f, c)') /\ IsInjective(free_list'[c])
    <3>1. Range(free_list'[c]) \subseteq Range(free_list[c])
      BY <1>3
    <3>2. \A f \in Range(free_list[c]) : IsEntry(f, c)'
      BY <1>1 DEF ListsInv, IsEntry
    <3> QED
      BY <1>3, <3>1, <3>2 DEF ListsInv
  <2> QED
    BY <2>1, <2>2 DEF ListsInv, Range, IsInjective
<1>8. CallsInv'
  <2>1. heap_ptr' \in HEAP_START .. HEAP_END
    BY <1>1 DEF CallsInv
  <2> HIDE DEF a
  <2> QED
    BY <1>1, <1>5, <2>1, ReturnCalls
<1>9. ptr' = [ptr EXCEPT ![s] = a] /\ req' = [req EXCEPT ![s] = n]
  BY <1>1, <1>5 DEF Return
<1>10. ASSUME NEW x \in Nat, NEW y \in Nat \ {0}, Owned(x, y) PROVE Owned(x, y)'
  <2>1. CASE OnHeap(x, y)
    BY <1>1, <2>1 DEF OnHeap, Owned
  <2>2. CASE InChunk(x, y)
    <3>1. PICK c \in Cache : IsEntry(x - ENTRY, c) /\ y <= cache_size(c) /\ x - ENTRY \notin Range(free_list[c])
      BY <2>2 DEF InChunk
    <3>2. x - ENTRY \notin Range(free_list'[c])
      BY <1>3, <3>1
    <3> QED
      BY <1>1, <3>1, <3>2 DEF InChunk, IsEntry, Range, Owned
  <2>3. CASE InBlock(x, y)
    BY <1>1, <2>3 DEF InBlock, Owned, PA!Run
  <2> QED
    BY <1>10, <2>1, <2>2, <2>3 DEF Owned
<1>11. Owned(a, n)'
  <2>1. e \notin Range(free_list'[o]) /\ IsEntry(e, o)'
    BY <1>1, <1>3, <1>4 DEF IsEntry
  <2> HIDE DEF a
  <2>2. InChunk(a, n)'
    BY <1>2, <1>5, <2>1 DEF InChunk, Range
  <2> QED
    BY <2>2 DEF Owned
\* A chunk of the list is nobody's pointer.
<1>12. ASSUME NEW u \in Slot \ {s}, ptr[u] # NULL PROVE ptr[u] # a
  <2> HIDE DEF a
  <2>1. SUFFICES ASSUME ptr[u] = a PROVE FALSE
    OBVIOUS
  <2>2. req[u] \in Nat \ {0} /\ Owned(a, req[u])
    BY <1>12, <2>1 DEF OwnersInv
  <2>3. cache_order[PageOf(a)] = o + MIN_CACHE_ORDER /\ o + MIN_CACHE_ORDER # -1
    BY <1>2, <1>4, <1>5, SeesChunk
  <2>4. CASE OnHeap(a, req[u])
    BY <1>5, <2>2, <2>4, SeesHeap
  <2>5. CASE InChunk(a, req[u])
    <3>1. PICK c \in Cache : IsEntry(e, c) /\ e \notin Range(free_list[c])
      BY <1>5, <2>5 DEF InChunk
    <3>2. c = o
      BY <1>2, <1>4, <3>1, EntryMark
    <3> QED
      BY <1>3, <3>1, <3>2
  <2>6. CASE InBlock(a, req[u])
    BY <2>3, <2>6, SeesBlock DEF InBlock
  <2> QED
    BY <2>2, <2>4, <2>5, <2>6 DEF Owned
<1>13. OwnersInv'
  <2> HIDE DEF a
  <2> QED
    BY <1>1, <1>2, <1>5, <1>9, <1>10, <1>11, <1>12, OwnersStep
<1>14. ChunksConserved'
  <2> SUFFICES ASSUME NEW q \in Page, NEW c \in Cache, cache_order'[q] = c + MIN_CACHE_ORDER,
                      NEW j \in 0 .. chunk_num(c) - 2
               PROVE  \/ q * PAGE_SIZE + j * Stride(c) \in Range(free_list'[c])
                      \/ \E u \in Slot : ptr'[u] = (q * PAGE_SIZE + j * Stride(c)) + ENTRY
    BY DEF ChunksConserved, Range
  <2> DEFINE f == q * PAGE_SIZE + j * Stride(c)
  <2>1. f \in Range(free_list[c]) \/ \E u \in Slot : ptr[u] = f + ENTRY
    BY <1>1 DEF ChunksConserved
  <2>2. f \in Nat
    <3>1. q \in Nat /\ PAGE_SIZE \in Nat /\ Stride(c) \in Nat /\ j \in Nat
      BY Constants, ChunksFit
    <3> QED
      BY <3>1
  <2> HIDE DEF f
  <2>3. CASE f \in Range(free_list[c])
    <3>1. f \in Range(free_list'[c]) \/ f = e
      BY <1>3, <2>3
    <3>2. ptr'[s] = e + ENTRY
      BY <1>9 DEF CallsInv
    <3> QED
      BY <3>1, <3>2 DEF f
  <2>4. ASSUME NEW u \in Slot, ptr[u] = f + ENTRY PROVE ptr'[u] = f + ENTRY
    <3>1. f + ENTRY # 0
      BY <2>2, Constants
    <3> QED
      BY <1>1, <1>9, <2>4, <3>1 DEF CallsInv, NULL
  <2> QED
    BY <2>1, <2>3, <2>4 DEF f
<1> QED
  BY <1>6, <1>7, <1>8, <1>13, <1>14

\* The pointer that free() sends to kfree is a chunk, and the cache is its cache.
LEMMA KfreeInv ==
    ASSUME ~ Interruptible, MemoryInv, NEW s \in Slot, kfree(s)
    PROVE  PagesInv' /\ MarksInv' /\ ListsInv' /\ CallsInv' /\ OwnersInv' /\ ChunksConserved'
<1> USE DEF MemoryInv
<1>0. PICK a, n : a = ptr[s] /\ n = req[s]
  OBVIOUS
<1>1. /\ UNCHANGED <<avail, held, cache_order, heap_ptr, pc, entry>> /\ Undisturbed(s) /\ pc[s] = "idle"
      /\ a # NULL /\ ~ InHeap(a) /\ cache_order[PageOf(a)] # -1
      /\ free_list' = [free_list EXCEPT ![cache_order[PageOf(a)] - MIN_CACHE_ORDER] = <<a - ENTRY>> \o @]
      /\ ptr' = [ptr EXCEPT ![s] = NULL] /\ req' = [req EXCEPT ![s] = 0]
  BY <1>0 DEF kfree, Ready, pages, Clear
<1>2. a \in Nat /\ n \in Nat \ {0} /\ Owned(a, n) /\ NULL \in Nat
  BY <1>0, <1>1 DEF CallsInv, OwnersInv, NULL
<1>3. InChunk(a, n)
  BY <1>1, <1>2, SeesHeap, SeesBlock DEF Owned, InBlock
<1>4. PICK o \in Cache : IsEntry(a - ENTRY, o) /\ n <= cache_size(o) /\ a - ENTRY \notin Range(free_list[o])
  BY <1>3 DEF InChunk
<1> DEFINE e == a - ENTRY
<1>5. cache_order[PageOf(a)] - MIN_CACHE_ORDER = o /\ e \in Nat /\ e + ENTRY = a
  BY <1>2, <1>4, SeesChunk, EntryMark, Constants
<1> HIDE DEF e
<1>6. IsEntry(e, o) /\ e \notin Range(free_list[o]) /\ free_list' = [free_list EXCEPT ![o] = <<e>> \o @]
  BY <1>1, <1>4, <1>5 DEF e
<1>7. /\ free_list'[o] \in Seq(Nat) /\ IsInjective(free_list'[o])
      /\ Range(free_list'[o]) = {e} \cup Range(free_list[o])
      /\ \A c \in Cache \ {o} : free_list'[c] = free_list[c]
  <2>1. free_list[o] \in Seq(Nat) /\ IsInjective(free_list[o])
    BY DEF ListsInv
  <2>2. free_list'[o] = <<e>> \o free_list[o] /\ \A c \in Cache \ {o} : free_list'[c] = free_list[c]
    BY <1>6 DEF ListsInv
  <2> QED
    BY <1>5, <1>6, <2>1, <2>2, Push
<1>8. PagesInv' /\ MarksInv'
  BY <1>1 DEF PagesInv, MarksInv, CachePagesKept, PA!Run
<1>9. ListsInv'
  <2>1. free_list' \in [Cache -> Seq(Nat)]
    BY <1>6, <1>7 DEF ListsInv
  <2>2. ASSUME NEW c \in Cache PROVE (\A f \in Range(free_list'[c]) : IsEntry(f, c)') /\ IsInjective(free_list'[c])
    <3>1. \A f \in Range(free_list'[c]) : IsEntry(f, c)
      BY <1>6, <1>7 DEF ListsInv
    <3>2. \A f : IsEntry(f, c) => IsEntry(f, c)'
      BY <1>1 DEF IsEntry
    <3> QED
      BY <1>7, <3>1, <3>2 DEF ListsInv
  <2> QED
    BY <2>1, <2>2 DEF ListsInv, Range, IsInjective
<1>10. CallsInv'
  <2>1. entry' \in [Slot -> Nat] /\ heap_ptr' \in HEAP_START .. HEAP_END
    BY <1>1 DEF CallsInv
  <2> QED
    BY <1>1, <1>2, <2>1, CallsIdle
<1>11. ASSUME NEW x \in Nat, NEW y \in Nat \ {0}, x # a, Owned(x, y) PROVE Owned(x, y)'
  <2>1. CASE OnHeap(x, y)
    BY <1>1, <2>1 DEF OnHeap, Owned
  <2>2. CASE InChunk(x, y)
    <3>1. PICK c \in Cache : IsEntry(x - ENTRY, c) /\ y <= cache_size(c) /\ x - ENTRY \notin Range(free_list[c])
      BY <2>2 DEF InChunk
    <3>2. x - ENTRY # e
      BY <1>2, <1>11, Constants DEF e
    <3>3. x - ENTRY \notin Range(free_list'[c])
      BY <1>7, <3>1, <3>2
    <3> QED
      BY <1>1, <3>1, <3>3 DEF InChunk, IsEntry, Range, Owned
  <2>3. CASE InBlock(x, y)
    BY <1>1, <2>3 DEF InBlock, Owned, PA!Run
  <2> QED
    BY <1>11, <2>1, <2>2, <2>3 DEF Owned
<1>12. OwnersInv'
  BY <1>0, <1>1, <1>2, <1>11, OwnersStep
<1>13. ChunksConserved'
  <2> SUFFICES ASSUME NEW q \in Page, NEW c \in Cache, cache_order'[q] = c + MIN_CACHE_ORDER,
                      NEW j \in 0 .. chunk_num(c) - 2
               PROVE  \/ q * PAGE_SIZE + j * Stride(c) \in Range(free_list'[c])
                      \/ \E u \in Slot : ptr'[u] = (q * PAGE_SIZE + j * Stride(c)) + ENTRY
    BY DEF ChunksConserved, Range
  <2> DEFINE f == q * PAGE_SIZE + j * Stride(c)
  <2>1. f \in Range(free_list[c]) \/ \E u \in Slot : ptr[u] = f + ENTRY
    BY <1>1 DEF ChunksConserved
  <2>2. f \in Nat /\ IsEntry(f, c)
    <3>1. q \in Nat /\ PAGE_SIZE \in Nat /\ Stride(c) \in Nat /\ j \in Nat /\ j \in 0 .. chunk_num(c) - 1
      BY Constants, ChunksFit
    <3>2. f \in Headers(q, c)
      BY <3>1 DEF Headers
    <3>3. IsEntry(f, c)
      BY <1>1, <3>2 DEF IsEntry
    <3> QED
      BY <3>1, <3>3
  <2> HIDE DEF f
  <2>3. CASE f \in Range(free_list[c])
    <3>1. f \in Range(free_list'[c])
      BY <1>7, <2>3
    <3> QED
      BY <3>1 DEF f
  <2>4. ASSUME NEW u \in Slot, ptr[u] = f + ENTRY PROVE ptr'[u] = f + ENTRY \/ f \in Range(free_list'[c])
    <3>1. CASE u = s
      <4>1. f = e
        BY <1>0, <1>2, <2>2, <2>4, <3>1, Constants DEF e
      <4>2. c = o
        BY <1>6, <2>2, <4>1, EntryMark
      <4> QED
        BY <1>7, <4>1, <4>2
    <3>2. CASE u # s
      BY <1>1, <2>4, <3>2 DEF CallsInv
    <3> QED
      BY <3>1, <3>2
  <2> QED
    BY <2>1, <2>3, <2>4 DEF f
<1> QED
  BY <1>8, <1>9, <1>10, <1>12, <1>13

\* Any other pointer is the start of a held block, which no one else uses.
LEMMA FreePagesInv ==
    ASSUME ~ Interruptible, MemoryInv, NEW s \in Slot, FreePages(s)
    PROVE  PagesInv' /\ MarksInv' /\ ListsInv' /\ CallsInv' /\ OwnersInv' /\ ChunksConserved'
<1> USE DEF MemoryInv
<1>0. PICK a, n : a = ptr[s] /\ n = req[s]
  OBVIOUS
<1>1. /\ UNCHANGED <<cache_order, free_list, heap_ptr, pc, entry>> /\ Undisturbed(s) /\ pc[s] = "idle"
      /\ a # NULL /\ ~ InHeap(a) /\ cache_order[PageOf(a)] = -1
      /\ ptr' = [ptr EXCEPT ![s] = NULL] /\ req' = [req EXCEPT ![s] = 0]
  BY <1>0 DEF FreePages, Ready, caches, Clear
<1>2. PICK b \in held : b[1] = PageOf(a) /\ (PA!Free(b) \/ PA!Drop(b))
  BY <1>0 DEF FreePages
<1>3. a \in Nat /\ n \in Nat \ {0} /\ Owned(a, n) /\ NULL \in Nat
  BY <1>0, <1>1 DEF CallsInv, OwnersInv, NULL
<1>4. held' = held \ {b} /\ avail' \subseteq avail \cup PA!Run(b)
  BY <1>2 DEF PA!Free, PA!Drop
<1>5. a = b[1] * PAGE_SIZE
  <2>1. InBlock(a, n)
    <3>1. ~ OnHeap(a, n)
      BY <1>1, <1>3, SeesHeap
    <3>2. ~ InChunk(a, n)
      BY <1>1, <1>3, SeesChunk DEF InChunk
    <3> QED
      BY <1>3, <3>1, <3>2 DEF Owned
  <2>2. PICK c \in held : a = c[1] * PAGE_SIZE
    BY <2>1 DEF InBlock
  <2>3. PageOf(a) = c[1]
    BY <2>2, BlockPlace
  <2> QED
    BY <1>2, <2>2, <2>3
<1>6. PagesInv'
  <2>1. PA!Run(b) \subseteq Page \ (HeapPages \cup {0})
    BY DEF PagesInv
  <2>2. avail' \subseteq Page \ (HeapPages \cup {0})
    BY <1>4, <2>1 DEF PagesInv
  <2>3. ASSUME NEW c \in held' PROVE PA!Run(c) \subseteq Page \ (avail' \cup HeapPages \cup {0})
    <3>1. c \in held /\ c # b /\ PA!Run(c) \cap PA!Run(b) = {}
      BY <1>4, <2>3 DEF PagesInv
    <3> QED
      BY <1>4, <3>1 DEF PagesInv
  <2> QED
    BY <1>4, <2>2, <2>3 DEF PagesInv
<1>7. MarksInv'
  <2>1. CachePagesKept'
    <3>1. MarksOK
      BY DEF MarksInv, MarksOK
    <3> QED
      BY <3>1, FreePagesKeeps DEF MarksInv
  <2> QED
    BY <1>1, <2>1 DEF MarksInv
<1>8. ListsInv'
  BY <1>1 DEF ListsInv, IsEntry, Range, IsInjective
<1>9. CallsInv'
  <2>1. entry' \in [Slot -> Nat] /\ heap_ptr' \in HEAP_START .. HEAP_END
    BY <1>1 DEF CallsInv
  <2> QED
    BY <1>1, <1>3, <2>1, CallsIdle
<1>10. ASSUME NEW x \in Nat, NEW y \in Nat \ {0}, x # a, Owned(x, y) PROVE Owned(x, y)'
  <2>1. CASE OnHeap(x, y)
    BY <1>1, <2>1 DEF OnHeap, Owned
  <2>2. CASE InChunk(x, y)
    BY <1>1, <2>2 DEF InChunk, IsEntry, Range, Owned
  <2>3. CASE InBlock(x, y)
    <3>1. PICK c \in held : /\ x = c[1] * PAGE_SIZE /\ y <= PAGE_SIZE * Pow2[c[2]]
                            /\ \A p \in PA!Run(c) : cache_order[p] = -1
      BY <2>3 DEF InBlock
    <3>2. c \in held'
      BY <1>4, <1>5, <1>10, <3>1
    <3> QED
      BY <1>1, <3>1, <3>2 DEF InBlock, Owned, PA!Run
  <2> QED
    BY <1>10, <2>1, <2>2, <2>3 DEF Owned
<1>11. OwnersInv'
  BY <1>0, <1>1, <1>3, <1>10, OwnersStep
<1>12. ChunksConserved'
  <2>1. ASSUME NEW o \in Cache, NEW e, IsEntry(e, o) PROVE ptr[s] # e + ENTRY
    BY <1>0, <1>1, <2>1, EntryMark
  <2> QED
    BY <1>1, <2>1, ConservedSame
<1> QED
  BY <1>6, <1>7, <1>8, <1>9, <1>11, <1>12

\* Nothing but the call's progress changes, or a page becomes chunks.
LEMMA RequestMemoryInv ==
    ASSUME ~ Interruptible, MemoryInv, NEW s \in Slot, request_page(s)
    PROVE  PagesInv' /\ MarksInv' /\ ListsInv' /\ CallsInv' /\ OwnersInv' /\ ChunksConserved'
<1> USE DEF MemoryInv
<1>0. PICK o : o = CacheOf(s)
  OBVIOUS
<1>1. /\ UNCHANGED <<heap_ptr, req, entry, ptr>> /\ pc[s] = "kmalloc" /\ Undisturbed(s)
      /\ pc' = [pc EXCEPT ![s] = "read"]
  BY DEF request_page
<1>2. o \in Cache
  BY <1>0, <1>1, CacheExists DEF KmallocInv, CacheOf
<1>3. CallsInv'
  <2>1. \A u \in Slot : pc'[u] # "pop" /\ (pc'[u] # "idle" => pc[u] # "idle")
    BY <1>1, OthersIdle DEF KmallocInv
  <2> QED
    BY <1>1, <2>1 DEF CallsInv
<1>4. ASSUME NEW p \in Page, Carve(p, o, chunk_num(o) - 1)
      PROVE  PagesInv' /\ MarksInv' /\ ListsInv' /\ OwnersInv' /\ ChunksConserved'
  <2>1. chunk_num(o) - 1 \in Nat /\ chunk_num(o) - 1 <= chunk_num(o)
    BY <1>2, ChunksFit
  <2> QED
    BY <1>1, <1>2, <1>4, <2>1, CarveInv
<1>5. CASE UNCHANGED <<pages, cache_order, free_list>>
  <2>1. UNCHANGED <<avail, held, cache_order, free_list>> /\ heap_ptr' \in Nat /\ heap_ptr <= heap_ptr'
    BY <1>1, <1>5, Constants DEF pages, CallsInv
  <2>2. OwnersInv'
    BY <1>1, <2>1, OwnedSame, OwnersSame
  <2>3. ChunksConserved'
    BY <1>1, <2>1 DEF ChunksConserved, Range
  <2> QED
    BY <1>3, <2>1, <2>2, <2>3, ListsSame
<1> QED
  BY <1>0, <1>3, <1>4, <1>5 DEF request_page

\* A cache is set up.
LEMMA BootInv ==
    ASSUME MemoryInv, kmem_cache_init
    PROVE  PagesInv' /\ MarksInv' /\ ListsInv' /\ CallsInv' /\ OwnersInv' /\ ChunksConserved'
<1> USE DEF MemoryInv
<1>1. UNCHANGED <<heap_ptr, pc, req, entry, ptr>> /\ booted < CACHE_NUM
  BY DEF kmem_cache_init, calls
<1>2. \A s \in Slot : pc[s] = "idle"
  BY <1>1, Constants DEF KmallocInv
<1>3. CallsInv'
  BY <1>1, <1>2 DEF CallsInv
<1>4. ASSUME NEW p \in Page, NEW o \in Cache, Carve(p, o, chunk_num(o))
      PROVE  PagesInv' /\ MarksInv' /\ ListsInv' /\ OwnersInv' /\ ChunksConserved'
  <2>1. chunk_num(o) \in Nat /\ chunk_num(o) - 1 <= chunk_num(o) /\ chunk_num(o) <= chunk_num(o)
    BY ChunksFit
  <2> QED
    BY <1>1, <1>4, <2>1, CarveInv
<1>5. CASE UNCHANGED <<pages, cache_order, free_list>>
  <2>1. UNCHANGED <<avail, held, cache_order, free_list>> /\ heap_ptr' \in Nat /\ heap_ptr <= heap_ptr'
    BY <1>1, <1>5, Constants DEF pages, CallsInv
  <2>2. OwnersInv'
    BY <1>1, <2>1, OwnedSame, OwnersSame
  <2>3. ChunksConserved'
    BY <1>1, <2>1 DEF ChunksConserved, Range
  <2> QED
    BY <1>3, <2>1, <2>2, <2>3, ListsSame
<1>6. booted \in Cache
  BY <1>1, Constants DEF BootedInv, Cache
<1> QED
  BY <1>3, <1>4, <1>5, <1>6 DEF kmem_cache_init

-----------------------------------------------------------------------------
(* The theorems. *)

\* Nobody has memory yet.
LEMMA MemoryInit == ASSUME Init PROVE MemoryInv
<1>1. KmallocInv /\ BootedInv
  BY Constants DEF Init, KmallocInv, BootedInv
<1>2. PagesInv
  BY DEF Init, PA!Init, Page, PagesInv
<1>3. MarksInv
  BY DEF Init, MarksInv, CachePagesKept
<1>4. ListsInv
  <2>1. \A o \in Cache : free_list[o] = <<>>
    BY DEF Init
  <2>2. free_list \in [Cache -> Seq(Nat)]
    BY DEF Init
  <2>3. DOMAIN <<>> = {}
    OBVIOUS
  <2> QED
    BY <2>1, <2>2, <2>3 DEF ListsInv, Range, IsInjective
<1>5. CallsInv /\ OwnersInv
  BY Constants DEF Init, CallsInv, OwnersInv, NULL
<1>6. ChunksConserved
  <2>1. \A p \in Page, o \in Cache : cache_order[p] # o + MIN_CACHE_ORDER
    BY Constants DEF Init, Cache
  <2> QED
    BY <2>1 DEF ChunksConserved
<1> QED
  BY <1>1, <1>2, <1>3, <1>4, <1>5, <1>6 DEF MemoryInv

\* Every step keeps the invariant.
LEMMA MemoryNext == ASSUME ~ Interruptible, MemoryInv, [Next]_vars PROVE MemoryInv'
<1>1. KmallocInv'
  BY KmallocNext DEF MemoryInv
<1>2. BootedInv'
  <2>1. CASE kmem_cache_init
    BY <2>1, Constants DEF kmem_cache_init, MemoryInv, BootedInv
  <2>2. CASE UNCHANGED booted
    BY <2>2 DEF MemoryInv, BootedInv
  <2> QED
    BY <2>1, <2>2 DEF Next, vars, caches, simple_alloc, AllocPages, kmalloc, request_page, ReadEntry,
                      kmem_freelist_pop, FreeHeap, kfree, FreePages
<1>3. CASE UNCHANGED vars
  <2>1. UNCHANGED <<avail, held, cache_order, free_list, heap_ptr, pc, req, entry, ptr>>
    BY <1>3 DEF vars
  <2>2. CallsInv'
    BY <2>1 DEF MemoryInv, CallsInv, CacheOf
  <2>3. OwnersInv'
    <3>1. heap_ptr' \in Nat /\ heap_ptr <= heap_ptr'
      BY <2>1, Constants DEF MemoryInv, CallsInv
    <3> QED
      BY <2>1, <3>1, OwnedSame, OwnersSame DEF MemoryInv
  <2>4. ChunksConserved'
    BY <2>1 DEF MemoryInv, ChunksConserved, Range
  <2> QED
    BY <1>1, <1>2, <2>1, <2>2, <2>3, <2>4, ListsSame DEF MemoryInv
<1>4. CASE Next
  <2>1. CASE kmem_cache_init
    BY <1>1, <1>2, <2>1, BootInv DEF MemoryInv
  <2>2. ASSUME NEW s \in Slot, NEW n \in Sizes, simple_alloc(s, n) \/ AllocPages(s, n) \/ kmalloc(s, n)
        PROVE  MemoryInv'
    BY <1>1, <1>2, <2>2, SimpleInv, AllocInv, BeginInv DEF MemoryInv
  <2>3. ASSUME NEW s \in Slot, request_page(s) \/ ReadEntry(s) \/ kmem_freelist_pop(s)
        PROVE  MemoryInv'
    BY <1>1, <1>2, <2>3, RequestMemoryInv, ReadInv, PopInv DEF MemoryInv
  <2>4. ASSUME NEW s \in Slot, FreeHeap(s) \/ kfree(s) \/ FreePages(s)
        PROVE  MemoryInv'
    BY <1>1, <1>2, <2>4, FreeHeapInv, KfreeInv, FreePagesInv DEF MemoryInv
  <2> QED
    BY <1>4, <2>1, <2>2, <2>3, <2>4 DEF Next
<1> QED
  BY <1>3, <1>4

\* Who owns which memory, in every state of the uninterrupted kernel.
THEOREM MemoryInvariance == ASSUME ~ Interruptible PROVE Spec => []MemoryInv
<1>1. Init => MemoryInv
  BY MemoryInit
<1>2. MemoryInv /\ [Next]_vars => MemoryInv'
  BY MemoryNext
<1> QED
  BY <1>1, <1>2, PTL DEF Spec

\* If no call interrupts another, two pointers that alloc or simple_alloc returned,
\* and the free chunks, never share a byte.
THEOREM NobodySharesMemory == ASSUME ~ Interruptible PROVE Spec => []NoSharedMemory
  BY MemoryInvariance, InvShared, PTL

\* If no call interrupts another, what alloc returned is as large as it was asked to be.
THEOREM EveryoneFits == ASSUME ~ Interruptible PROVE Spec => []FitsItsMemory
  BY MemoryInvariance, InvFits, PTL

\* If no call interrupts another, no chunk of a cache page is lost.
THEOREM NoChunkLost == ASSUME ~ Interruptible PROVE Spec => []ChunksConserved
<1>1. MemoryInv => ChunksConserved
  BY DEF MemoryInv
<1> QED
  BY <1>1, MemoryInvariance, PTL

=============================================================================
