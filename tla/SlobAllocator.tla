--------------------------- MODULE SlobAllocator ----------------------------
(***************************************************************************)
(* The SLOB allocator as patch_3 changes it: best fit over the pages of a  *)
(* size class and the blocks of a page, and a counter of what is taken     *)
(* from the page allocator.                                                *)
(*                                                                         *)
(* What slob_alloc and slob_free do under slob_lock is one step.  They     *)
(* leave the lock to take pages from the page allocator and to give them   *)
(* back, and change allocated_mem there without any lock: a load and a     *)
(* store, between which another processor may do the same.                 *)
(*                                                                         *)
(* One NUMA node; a request too large for a page takes one page, and none  *)
(* of several; caches freed by RCU are freed at once.                      *)
(***************************************************************************)
EXTENDS SlobPage, Sequences, SequencesExt

CONSTANTS
  Cpus,
  Pages,           \* the memory the page allocator has
  MinAlign,        \* ARCH_KMALLOC_MINALIGN, in units
  KmallocSizes,    \* what kmalloc is called with
  Caches,          \* the caches objects are taken from: size and align
  Break1, Break2,  \* SLOB_BREAK1, SLOB_BREAK2
  Wrap             \* bound: allocated_mem, in pages, wraps here

NoPage == "no page"
IsPowerOfTwo(n) == \E k \in 0 .. n : n = 2 ^ k

\* PAGE_SIZE is a power of two, so any lower one goes into it twice.
ASSUME SlobAssumption ==
  /\ MinAlign \in Nat \ {0}
  /\ \A n \in 1 .. PageUnits - 1 : IsPowerOfTwo(n) => 2 * n <= PageUnits
  /\ KmallocSizes \subseteq Nat \ {0}
  /\ Caches \subseteq [size : Nat \ {0}, align : Nat \ {0}]
  /\ Break1 \in Nat /\ Break2 \in Nat /\ Break1 <= Break2
  /\ NoPage \notin Pages
  /\ Wrap \in Nat \ {0}

VARIABLES
  page,            \* what slob keeps in the struct page and in the page
  use,             \* who has the page: nobody, somebody, or slob (PageSlab)
  free_slob,       \* the lists free_slob_small, _medium and _large
  blocks,          \* the blocks that users have
  allocated_mem,
  call             \* what each processor is in the midst of

vars == <<page, use, free_slob, blocks, allocated_mem, call>>

Phases == {"idle", "search", "grow", "count", "init", "release", "uncount"}
Lists == {"small", "medium", "large"}
NoRequest == [units |-> 0, align |-> 1, offset |-> 0, cache |-> FALSE]
Quiet == [at |-> "idle", req |-> NoRequest, page |-> NoPage, seen |-> 0]

ListOf(units) ==
  IF units < Break1 THEN "small" ELSE IF units < Break2 THEN "medium" ELSE "large"

\* slob_page_free: true for pages on a list.
Listed(p) == \E l \in Lists : p \in ToSet(free_slob[l])

Without(list, p) ==
  IF p \in ToSet(list) THEN RemoveAt(list, CHOOSE i \in DOMAIN list : list[i] = p) ELSE list

Delist(p) == [l \in Lists |-> Without(free_slob[l], p)]
Enlist(p, l) == [free_slob EXCEPT ![l] = <<p>> \o @]

Init ==
  /\ page = [p \in Pages |-> FreshPage]
  /\ use = [p \in Pages |-> "nobody"]
  /\ free_slob = [l \in Lists |-> <<>>]
  /\ blocks = {}
  /\ allocated_mem = 0
  /\ call = [c \in Cpus |-> Quiet]
-----------------------------------------------------------------------------
(* What is asked of slob_alloc, or of slob_new_pages *)

WholePage(cache) == [units |-> PageUnits, align |-> PageUnits, offset |-> 0, cache |-> cache]

\* A header of MinAlign, in which the size is kept, precedes the object.
KmallocRequest(size) ==
  IF size >= PageUnits - MinAlign THEN WholePage(FALSE)
  ELSE [units |-> size + MinAlign, offset |-> MinAlign, cache |-> FALSE,
        align |-> IF IsPowerOfTwo(size) THEN Max({MinAlign, size}) ELSE MinAlign]

CacheRequest(k) ==
  IF k.size >= PageUnits THEN WholePage(TRUE)
  ELSE [units |-> k.size, align |-> k.align, offset |-> 0, cache |-> TRUE]

Requests == {KmallocRequest(s) : s \in KmallocSizes} \cup {CacheRequest(k) : k \in Caches}

Whole(r) == r.units = PageUnits

Malloc(c) ==
  /\ call[c].at = "idle"
  /\ \E r \in Requests :
       call' = [call EXCEPT ![c].req = r, ![c].at = IF Whole(r) THEN "grow" ELSE "search"]
  /\ UNCHANGED <<page, use, free_slob, blocks, allocated_mem>>
-----------------------------------------------------------------------------
(* slob_alloc *)

Obtain(c, p, at) ==
  /\ blocks' = blocks \cup {[page |-> p, at |-> at, req |-> call[c].req]}
  /\ call' = [call EXCEPT ![c] = Quiet]

\* What slob_page_best_fit_check says of a page that may have the room.
Fit(p, r) == IF page[p].units < r.units THEN None ELSE BestFitCheck(page[p], r.units, r.align)

\* Mutant: the first page that has room.
FirstPage(list, r) ==
  LET fits == {i \in DOMAIN list : Fit(list[i], r) # None}
  IN IF fits = {} THEN NoPage ELSE list[Min(fits)]

\* The first page of the list whose fit is best.
BestPage(list, r) ==
  LET fits == {i \in DOMAIN list : Fit(list[i], r) # None}
  IN IF fits = {} THEN NoPage
     ELSE list[Min({i \in fits : \A j \in fits : Fit(list[i], r) <= Fit(list[j], r)})]

Search(c) ==
  LET r == call[c].req
  IN /\ call[c].at = "search"
     /\ \E p \in {BestPage(free_slob[ListOf(r.units)], r)} :
        \E found \in {IF p = NoPage THEN [at |-> None]
                      ELSE PageAlloc(page[p], r.units, r.align, r.offset)} :
          IF found.at = None
          THEN /\ call' = [call EXCEPT ![c].at = "grow"]
               /\ UNCHANGED <<page, free_slob, blocks>>
          ELSE /\ page' = [page EXCEPT ![p] = found.page]
               /\ free_slob' = IF found.page.units = 0 THEN Delist(p) ELSE free_slob
               /\ Obtain(c, p, found.at)
     /\ UNCHANGED <<use, allocated_mem>>

\* slob_new_pages, to the load of allocated_mem.
Grow(c) ==
  /\ call[c].at = "grow"
  /\ IF \A p \in Pages : use[p] # "nobody"
     THEN call' = [call EXCEPT ![c] = Quiet] /\ UNCHANGED use
     ELSE \E p \in Pages :
            /\ use[p] = "nobody"
            /\ use' = [use EXCEPT ![p] = "somebody"]
            /\ call' = [call EXCEPT ![c].at = "count", ![c].page = p, ![c].seen = allocated_mem]
  /\ UNCHANGED <<page, free_slob, blocks, allocated_mem>>

Count(c) ==
  LET p == call[c].page
  IN /\ call[c].at = "count"
     /\ allocated_mem' = (call[c].seen + 1) % Wrap
     /\ IF Whole(call[c].req) THEN Obtain(c, p, 0) /\ UNCHANGED use
        ELSE /\ call' = [call EXCEPT ![c].at = "init", ![c].seen = 0]
             /\ use' = [use EXCEPT ![p] = "slob"]
             /\ UNCHANGED blocks
     /\ UNCHANGED <<page, free_slob>>

\* BUG_ON(!b): there is room in a fresh page.
InitPage(c) ==
  LET r == call[c].req
      p == call[c].page
      found == PageAlloc(FreshPage, r.units, r.align, r.offset)
  IN /\ call[c].at = "init"
     /\ page' = [page EXCEPT ![p] = found.page]
     /\ free_slob' = IF found.page.units = 0 THEN free_slob ELSE Enlist(p, ListOf(r.units))
     /\ Obtain(c, p, found.at)
     /\ UNCHANGED <<use, allocated_mem>>
-----------------------------------------------------------------------------
(* kfree, kmem_cache_free *)

\* slob_free, under the lock.  A page that is given back is shown as a fresh
\* one: slob_alloc sets all of it before it reads any of it.
FreeSmall(c, b) ==
  LET p == b.page
      units == b.req.units
      whole == page[p].units + units = PageUnits
  IN /\ IF whole THEN page' = [page EXCEPT ![p] = FreshPage] /\ free_slob' = Delist(p)
        ELSE IF Listed(p)
        THEN page' = [page EXCEPT ![p] = Reinsert(@, b.at, units)] /\ UNCHANGED free_slob
        ELSE /\ page' = [page EXCEPT ![p] = FirstFreed(@, b.at, units)]
             /\ free_slob' = Enlist(p, ListOf(units))
     /\ call' = IF whole THEN [call EXCEPT ![c].at = "release", ![c].page = p] ELSE call
     /\ UNCHANGED use

\* kfree knows a large block by its page, and gives it back by itself; for a
\* cache slob_free_pages does it.
FreeWhole(c, b) ==
  /\ use' = IF b.req.cache THEN use ELSE [use EXCEPT ![b.page] = "nobody"]
  /\ call' = IF b.req.cache THEN [call EXCEPT ![c].at = "release", ![c].page = b.page] ELSE call
  /\ UNCHANGED <<page, free_slob>>

Free(c) ==
  /\ call[c].at = "idle"
  /\ \E b \in blocks :
       /\ blocks' = blocks \ {b}
       /\ IF Whole(b.req) THEN FreeWhole(c, b) ELSE FreeSmall(c, b)
  /\ UNCHANGED allocated_mem

\* slob_free_pages, to the load of allocated_mem.
Release(c) ==
  /\ call[c].at = "release"
  /\ use' = [use EXCEPT ![call[c].page] = "nobody"]
  /\ call' = [call EXCEPT ![c].at = "uncount", ![c].page = NoPage, ![c].seen = allocated_mem]
  /\ UNCHANGED <<page, free_slob, blocks, allocated_mem>>

Uncount(c) ==
  /\ call[c].at = "uncount"
  /\ allocated_mem' = (call[c].seen - 1) % Wrap
  /\ call' = [call EXCEPT ![c] = Quiet]
  /\ UNCHANGED <<page, use, free_slob, blocks>>
-----------------------------------------------------------------------------
Next ==
  \E c \in Cpus :
    Malloc(c) \/ Search(c) \/ Grow(c) \/ Count(c) \/ InitPage(c)
      \/ Free(c) \/ Release(c) \/ Uncount(c)

Spec == Init /\ [][Next]_vars
-----------------------------------------------------------------------------
(* Properties *)

BlockType == [page : Pages, at : Cells, req : Requests]

\* In particular slob_alloc never finds a fresh page too small (BUG_ON).
TypeOK ==
  /\ page \in [Pages -> PageType]
  /\ use \in [Pages -> {"nobody", "somebody", "slob"}]
  /\ free_slob \in [Lists -> Seq(Pages)]
  /\ blocks \in SUBSET BlockType
  /\ allocated_mem \in 0 .. Wrap - 1
  /\ call \in [Cpus -> [at : Phases, req : Requests \cup {NoRequest},
                        page : Pages \cup {NoPage}, seen : 0 .. Wrap - 1]]

BlocksOf(p) == {b \in blocks : b.page = p}
TakenCells(p) == UNION {b.at .. b.at + b.req.units - 1 : b \in BlocksOf(p)}
InTransit(p) == \E c \in Cpus : call[c].page = p

\* The page's own account: its free blocks are what its users have left, in
\* one piece where they touch, and its count is exact.
PageSound(p) ==
  LET free == FreeBlocks(page[p])
  IN /\ FreeCells(page[p]) = Cells \ TakenCells(p)
     /\ page[p].units = Cardinality(Cells \ TakenCells(p))
     /\ \A s, t \in free : s + SlobUnits(page[p].mem, s) # t

\* Whatever is allocated and freed in whichever order, on several processors:
\* a page is on a list, once and with its like, exactly if it is partly free;
\* and what its list of blocks says is the truth.
PagesSound ==
  \A p \in Pages :
    /\ \A l, m \in Lists : \A i \in DOMAIN free_slob[l], j \in DOMAIN free_slob[m] :
         free_slob[l][i] = p /\ free_slob[m][j] = p => l = m /\ i = j
    /\ Listed(p) => use[p] = "slob" /\ ~ InTransit(p) /\ PageSound(p)
    /\ use[p] = "slob" /\ ~ InTransit(p) /\ ~ Listed(p) => TakenCells(p) = Cells
    /\ \A b \in BlocksOf(p) :
         /\ use[p] = IF Whole(b.req) THEN "somebody" ELSE "slob"
         /\ Listed(p) => p \in ToSet(free_slob[ListOf(b.req.units)])

\* What each processor is in the midst of getting.
Asked ==
  [c \in Cpus |-> IF call[c].at \in {"search", "grow", "count", "init"} THEN call[c].req ELSE NoRequest]

Promise == INSTANCE Heap WITH live <- blocks, asked <- Asked

\* No two users are ever given the same memory.
ImplementsHeap == Promise!HeapSpec

\* What the free blocks of the list would have left of themselves.
Leftovers(r) ==
  UNION {{Left(page[p], s, r.units, r.align, r.offset) :
            s \in Fitting(page[p], r.units, r.align, r.offset)}
           : p \in ToSet(free_slob[ListOf(r.units)])}

\* The block that b was cut from.
Origin(b) ==
  CHOOSE s \in FreeBlocks(page[b.page]) : s <= b.at /\ b.at < s + SlobUnits(page[b.page].mem, s)

Searched(c) == call[c].at = "search" /\ call'[c].at # "search"

\* A block is taken that leaves least of all blocks in all pages, and a new page
\* is asked for only if there is none.
TakesBest(c) ==
  LET r == call[c].req
  IN IF Leftovers(r) = {} THEN call'[c].at = "grow"
     ELSE \E b \in blocks' \ blocks :
            Left(page[b.page], Origin(b), r.units, r.align, r.offset) = Min(Leftovers(r))

\* The search in two stages, of a page and then of a block in it, takes the best
\* block when the alignment of the header is that of the object.  When it is not
\* it may take another, as slob_page_best_fit_check does not know of align_offset.
BestFit ==
  [][\A c \in Cpus :
       Searched(c) /\ call[c].req.offset % call[c].req.align = 0 => TakesBest(c)]_vars
=============================================================================
