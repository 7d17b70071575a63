------------------------------ MODULE SlobPage ------------------------------
(***************************************************************************)
(* One page of the SLOB allocator of patch_3: the free blocks in it, which *)
(* are chained through the memory they leave unused, and the choice of one *)
(* by best fit.  Everything is counted in SLOB units, as slobidx_t does.   *)
(***************************************************************************)
EXTENDS Integers, FiniteSets, FiniteSetsExt

CONSTANT PageUnits     \* SLOB_UNITS(PAGE_SIZE)

ASSUME SlobPageAssumption == PageUnits \in Nat \ {0, 1}

Cells == 0 .. PageUnits - 1
Used == 0         \* a cell that is no part of a header: a user's, or stale
None == -1        \* a NULL slob_t pointer

\* The cells from 0 on hold the headers of the free blocks; sp->units counts
\* the free cells, and sp->freelist is the first block.
PageType ==
  [mem : [Cells -> -PageUnits .. PageUnits], freelist : 0 .. PageUnits,
   units : 0 .. PageUnits]
-----------------------------------------------------------------------------
(* The headers: a block of one unit has room only for the offset of the    *)
(* next block, and is marked by its sign.                                  *)

SetSlob(mem, s, size, next) ==
  IF size > 1 THEN [mem EXCEPT ![s] = size, ![s + 1] = next]
  ELSE [mem EXCEPT ![s] = -next]

SlobUnits(mem, s) == IF mem[s] > 0 THEN mem[s] ELSE 1
SlobNext(mem, s) == IF mem[s] < 0 THEN -mem[s] ELSE mem[s + 1]
SlobLast(mem, s) == SlobNext(mem, s) % PageUnits = 0

\* The free blocks, by following the list from its first to its last.
FreeBlocks(pg) ==
  LET Hop[k \in Nat] == IF k = 0 THEN pg.freelist ELSE SlobNext(pg.mem, Hop[k - 1])
      last == CHOOSE k \in Cells : /\ SlobLast(pg.mem, Hop[k])
                                   /\ \A j \in 0 .. k - 1 : ~ SlobLast(pg.mem, Hop[j])
  IN {Hop[k] : k \in 0 .. last}

FreeCells(pg) ==
  UNION {s .. s + SlobUnits(pg.mem, s) - 1 : s \in FreeBlocks(pg)}

\* What lies outside the headers is never read again before it is written.
Forget(pg) ==
  LET headers == IF pg.units = 0 THEN {}
                 ELSE UNION {s .. s + Min({1, SlobUnits(pg.mem, s) - 1}) : s \in FreeBlocks(pg)}
  IN [pg EXCEPT !.mem = [c \in Cells |-> IF c \in headers THEN pg.mem[c] ELSE Used]]

FreshPage ==
  [mem |-> SetSlob([c \in Cells |-> Used], 0, PageUnits, PageUnits),
   freelist |-> 0, units |-> PageUnits]
-----------------------------------------------------------------------------
(* Best fit *)

AlignUp(x, align) == ((x + align - 1) \div align) * align

\* Mutant: it is the object's address that is aligned to, not its header's.
DeltaOfObject(s, align, offset) ==
  IF align = 0 THEN 0 ELSE AlignUp(s + offset, align) - s

\* Where an object whose address plus offset is aligned can start in block s.
Delta(s, align, offset) ==
  IF align = 0 THEN 0 ELSE AlignUp(s + offset, align) - offset - s

\* What would be left of block s; negative if it is too small.
Left(pg, s, units, align, offset) ==
  SlobUnits(pg.mem, s) - (units + Delta(s, align, offset))

Fitting(pg, units, align, offset) ==
  {s \in FreeBlocks(pg) : Left(pg, s, units, align, offset) >= 0}

\* It does not know of the offset.
BestFitCheck(pg, units, align) ==
  LET fit == Fitting(pg, units, align, 0)
  IN IF fit = {} THEN None ELSE Min({Left(pg, s, units, align, 0) : s \in fit})

\* The first block in the list that leaves least: the list is in the order of
\* addresses.
BestBlock(pg, units, align, offset) ==
  LET fit == Fitting(pg, units, align, offset)
      Leaves(s) == Left(pg, s, units, align, offset)
  IN Min({s \in fit : \A t \in fit : Leaves(s) <= Leaves(t)})

Prev(pg, s) ==
  IF s = pg.freelist THEN None
  ELSE CHOOSE t \in FreeBlocks(pg) : SlobNext(pg.mem, t) = s

\* The head of block s, which is before the aligned object, becomes a block.
SplitHead(pg, s, delta) ==
  LET rest == SetSlob(pg.mem, s + delta, SlobUnits(pg.mem, s) - delta, SlobNext(pg.mem, s))
  IN [pg EXCEPT !.mem = SetSlob(rest, s, delta, s + delta)]

\* Takes the first units of block s, which comes after prev in the list.
Take(pg, prev, s, units) ==
  LET avail == SlobUnits(pg.mem, s)
      rest == IF avail = units THEN SlobNext(pg.mem, s) ELSE s + units
      linked == IF prev = None THEN pg.mem
                ELSE SetSlob(pg.mem, prev, SlobUnits(pg.mem, prev), rest)
  IN [mem |-> IF avail = units THEN linked
              ELSE SetSlob(linked, rest, avail - units, SlobNext(pg.mem, s)),
      freelist |-> IF prev = None THEN rest ELSE pg.freelist,
      units |-> pg.units - units]

\* Mutant: the head is not split off.
PageAllocUnaligned(pg, units, align, offset) ==
  IF Fitting(pg, units, align, offset) = {} THEN [at |-> None, page |-> pg]
  ELSE LET s == BestBlock(pg, units, align, offset)
       IN [at |-> s, page |-> Forget(Take(pg, Prev(pg, s), s, units))]

\* slob_page_alloc: where the object is, or None, and the page after it.
PageAlloc(pg, units, align, offset) ==
  IF Fitting(pg, units, align, offset) = {} THEN [at |-> None, page |-> pg]
  ELSE LET s == BestBlock(pg, units, align, offset)
           delta == Delta(s, align, offset)
       IN [at |-> s + delta,
           page |-> Forget(IF delta > 0
                           THEN Take(SplitHead(pg, s, delta), s, s + delta, units)
                           ELSE Take(pg, Prev(pg, s), s, units))]
-----------------------------------------------------------------------------
(* Freeing *)

\* The first block freed in a full page.
FirstFreed(pg, b, units) ==
  [mem |-> SetSlob(pg.mem, b, units, PageUnits), freelist |-> b, units |-> units]

\* Reinsertion in the order of addresses, joining what is adjacent.
BeforeAll(pg, b, units) ==
  LET first == pg.freelist
      joins == b + units = first
  IN [mem |-> SetSlob(pg.mem, b,
                IF joins THEN units + SlobUnits(pg.mem, first) ELSE units,
                IF joins THEN SlobNext(pg.mem, first) ELSE first),
      freelist |-> b, units |-> pg.units + units]

\* Mutant: what comes after the block is not joined to it.
BetweenUnjoined(pg, b, units) ==
  LET prev == Max({s \in FreeBlocks(pg) : s < b})
      after == SetSlob(pg.mem, b, units, SlobNext(pg.mem, prev))
  IN [pg EXCEPT !.units = @ + units,
        !.mem = IF prev + SlobUnits(after, prev) = b
                THEN SetSlob(after, prev, SlobUnits(after, b) + SlobUnits(after, prev),
                             SlobNext(after, b))
                ELSE SetSlob(after, prev, SlobUnits(after, prev), b)]

Between(pg, b, units) ==
  LET prev == Max({s \in FreeBlocks(pg) : s < b})
      next == SlobNext(pg.mem, prev)
      after == IF ~ SlobLast(pg.mem, prev) /\ b + units = next
               THEN SetSlob(pg.mem, b, units + SlobUnits(pg.mem, next), SlobNext(pg.mem, next))
               ELSE SetSlob(pg.mem, b, units, next)
  IN [pg EXCEPT !.units = @ + units,
        !.mem = IF prev + SlobUnits(after, prev) = b
                THEN SetSlob(after, prev, SlobUnits(after, b) + SlobUnits(after, prev),
                             SlobNext(after, b))
                ELSE SetSlob(after, prev, SlobUnits(after, prev), b)]

Reinsert(pg, b, units) ==
  Forget(IF b < pg.freelist THEN BeforeAll(pg, b, units) ELSE Between(pg, b, units))
=============================================================================
