------------------------------- MODULE KHeap -------------------------------
(***************************************************************************)
(* The kernel's memory: the physical page bitmap of kernel/pmm.c and the   *)
(* first-fit heap of kernel/heap.c that grows by pages of it.              *)
(*                                                                         *)
(* Addresses count units of 8 bytes, the granularity of ALIGN8.  The list  *)
(* of block headers is a sequence in list order; the header of a block     *)
(* lies at its addr and its payload follows.  No interrupt handler         *)
(* allocates, so a call runs alone; kmalloc takes one step per page it has *)
(* to ask for.                                                             *)
(***************************************************************************)
EXTENDS Integers, Sequences, FiniteSets

CONSTANTS
  TotalPages,     \* total_pages
  WordPages,      \* pages per word of the bitmap: 32
  PageUnits,      \* PAGE_SIZE in units: 512
  HdrUnits,       \* HDR_SIZE in units: 2
  KernelPages,    \* pages 0 .. KernelPages-1 hold the kernel: marked used
  MaxRequest,     \* bound: units of the largest kmalloc
  Others          \* bound: pages the rest of the kernel takes

ASSUME HeapAssumption ==
  /\ {TotalPages, WordPages, PageUnits, HdrUnits, KernelPages} \subseteq Nat \ {0}
  /\ KernelPages < TotalPages /\ HdrUnits < PageUnits
  /\ Others \in Nat /\ MaxRequest \in Nat

VARIABLES
  used,         \* pmm bitmap: pages marked used
  free_pages,   \* pmm counter
  heap,         \* the list from heap_head
  req,          \* the call in progress: [want, cur], want = 0 when there is none
  held,         \* history: [ptr, size] of every allocation not freed yet
  others        \* history: pages handed to the rest of the kernel

vars == <<used, free_pages, heap, req, held, others>>

Pages     == 0 .. TotalPages - 1
Units     == 0 .. TotalPages * PageUnits
MinSplit  == HdrUnits + 1
NoRequest == [want |-> 0, cur |-> 1]

Block(a, n, f) == [addr |-> a, size |-> n, free |-> f]
End(b) == b.addr + HdrUnits + b.size

-----------------------------------------------------------------------------
(* pmm_alloc looks at whole words of the bitmap only: the pages after the  *)
(* last full word are never handed out.                                    *)
Mut_FreeListed ==
  (0 .. WordPages * ((TotalPages + WordPages - 1) \div WordPages) - 1) \ used
FreeListed == {p \in Pages \ used : p < (TotalPages \div WordPages) * WordPages}

pmm_alloc(p) ==
  /\ p \in FreeListed /\ \A q \in FreeListed : p <= q
  /\ used' = used \cup {p}
  /\ free_pages' = free_pages - 1

(* heap_grow with page p: the new block joins the last one when that is    *)
(* free and ends where the page begins.                                    *)
Grown(p) ==
  LET blk  == Block(p * PageUnits, PageUnits - HdrUnits, TRUE)
      n    == Len(heap)
      join == n > 0 /\ heap[n].free /\ End(heap[n]) = blk.addr
  IN  IF join THEN [heap EXCEPT ![n].size = @ + HdrUnits + blk.size]
      ELSE Append(heap, blk)

(* Boot: arch_init marks the kernel used, heap_init takes the first page. *)
Init ==
  /\ used = 0 .. KernelPages
  /\ free_pages = TotalPages - KernelPages - 1
  /\ heap = <<Block(KernelPages * PageUnits, PageUnits - HdrUnits, TRUE)>>
  /\ req = NoRequest /\ held = {} /\ others = {}

-----------------------------------------------------------------------------
kmalloc(n) ==
  /\ req = NoRequest
  /\ req' = [want |-> n, cur |-> 1]
  /\ UNCHANGED <<used, free_pages, heap, held, others>>

Fits == {i \in req.cur .. Len(heap) : heap[i].free /\ heap[i].size >= req.want}

Mut_Split(b) ==
  IF b.size >= req.want + MinSplit
  THEN <<Block(b.addr, req.want, FALSE),
         Block(b.addr + HdrUnits + req.want, b.size - req.want, TRUE)>>
  ELSE <<[b EXCEPT !.free = FALSE]>>

(* What is left of a block is worth a header only if one unit remains. *)
Split(b) ==
  IF b.size >= req.want + MinSplit
  THEN <<Block(b.addr, req.want, FALSE),
         Block(b.addr + HdrUnits + req.want, b.size - req.want - HdrUnits, TRUE)>>
  ELSE <<[b EXCEPT !.free = FALSE]>>

kmalloc_take ==
  /\ req.want > 0
  /\ \E i \in Fits :
       /\ \A j \in Fits : i <= j
       /\ heap' = SubSeq(heap, 1, i - 1) \o Split(heap[i])
                  \o SubSeq(heap, i + 1, Len(heap))
       /\ held' = held \cup {[ptr |-> heap[i].addr + HdrUnits, size |-> req.want]}
  /\ req' = NoRequest
  /\ UNCHANGED <<used, free_pages, others>>

kmalloc_grow ==
  /\ req.want > 0 /\ Fits = {}
  /\ \E p \in FreeListed : pmm_alloc(p) /\ heap' = Grown(p)
  /\ req' = [req EXCEPT !.cur = Len(heap')]
  /\ UNCHANGED <<held, others>>

Mut_kmalloc_fails ==
  /\ req.want > 0 /\ Fits = {} /\ FreeListed = {}
  /\ req' = [req EXCEPT !.cur = 1]
  /\ UNCHANGED <<used, free_pages, heap, held, others>>

kmalloc_fails ==
  /\ req.want > 0 /\ Fits = {} /\ FreeListed = {}
  /\ req' = NoRequest
  /\ UNCHANGED <<used, free_pages, heap, held, others>>

(* kfree: mark the block free, then join every free block with the free    *)
(* block that follows it in the list, wherever that one lies.              *)
Joined(list, b) ==
  LET n == Len(list)
  IN  IF n > 0 /\ list[n].free /\ b.free
      THEN [list EXCEPT ![n].size = @ + HdrUnits + b.size]
      ELSE Append(list, b)

Mut_Coalesced(list) == list
Coalesced(list) ==
  LET done[n \in 0 .. Len(list)] ==
        IF n = 0 THEN <<>> ELSE Joined(done[n - 1], list[n])
  IN  done[Len(list)]

kfree(a) ==
  /\ req = NoRequest
  /\ heap' = Coalesced([i \in 1 .. Len(heap) |->
                          IF heap[i].addr + HdrUnits = a.ptr
                          THEN [heap[i] EXCEPT !.free = TRUE] ELSE heap[i]])
  /\ held' = held \ {a}
  /\ UNCHANGED <<used, free_pages, req, others>>

(* process_create (a stack), paging_map (a page table) and ahci_init (DMA  *)
(* buffers) take pages of their own.                                       *)
OtherPage ==
  /\ req = NoRequest
  /\ Cardinality(others) < Others
  /\ \E p \in FreeListed : pmm_alloc(p) /\ others' = others \cup {p}
  /\ UNCHANGED <<heap, req, held>>

Working == kmalloc_take \/ kmalloc_grow \/ kmalloc_fails

Next ==
  \/ \E n \in 1 .. MaxRequest : kmalloc(n)
  \/ Working
  \/ \E a \in held : kfree(a)
  \/ OtherPage

(* kmalloc is a loop that nothing suspends. *)
Spec == Init /\ [][Next]_vars /\ WF_vars(Working)
-----------------------------------------------------------------------------
TypeOK ==
  /\ used \subseteq Pages /\ others \subseteq used
  /\ free_pages \in 0 .. TotalPages
  /\ heap \in Seq([addr : Units, size : Units, free : BOOLEAN])
  /\ req \in [want : 0 .. MaxRequest, cur : Nat]
  /\ held \subseteq [ptr : Units, size : Units]

(* free_pages counts the pages pmm_alloc can still be asked for and the    *)
(* ones of the last, partial word.                                         *)
FreePagesMatch == free_pages = Cardinality(Pages \ used)

(* Every kmalloc returns: it finds a block or runs out of pages. *)
KmallocReturns == (req.want > 0) ~> (req.want = 0)

Span(a)   == a.ptr .. a.ptr + a.size - 1
Header(b) == b.addr .. b.addr + HdrUnits - 1
PageOf(u) == u \div PageUnits
HeapPages == used \ (others \cup 0 .. KernelPages - 1)

(* heap.c:54 "Solo fusionar si las páginas son físicamente contiguas" and  *)
(* heap.c:14 "fusiona bloques adyacentes (coalescing)": no block of the    *)
(* heap reaches over a page that belongs to someone else.                  *)
BlocksContiguous ==
  \A i \in 1 .. Len(heap) : \A u \in heap[i].addr .. End(heap[i]) - 1 :
    PageOf(u) \notin others

(* What kmalloc returned is the caller's alone until it is freed: inside   *)
(* pages of the heap, over no other allocation, no block header and no     *)
(* page of anyone else.  Until kfree has merged over a foreign page.       *)
AllocationsApart ==
  BlocksContiguous => \A a \in held :
    /\ \A u \in Span(a) : PageOf(u) \in HeapPages
    /\ \A b \in held \ {a} : Span(a) \cap Span(b) = {}
    /\ \A i \in 1 .. Len(heap) : Span(a) \cap Header(heap[i]) = {}

(* No memory is lost by any sequence of calls: every unit of every page of *)
(* the heap belongs to exactly one block, header or payload, and once all  *)
(* is freed one block is left.  Until kfree has merged over a foreign page.*)
HeapTiles ==
  BlocksContiguous =>
    /\ \A u \in Units : PageOf(u) \in HeapPages =>
         Cardinality({i \in 1 .. Len(heap) : heap[i].addr <= u /\ u < End(heap[i])}) = 1
    /\ held = {} /\ others = {} => Len(heap) = 1
=============================================================================
