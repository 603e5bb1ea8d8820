------------------------------- MODULE GuestHeap -------------------------------
(***************************************************************************)
(* The allocator of guest address space (guest_heap.cpp) over guest memory  *)
(* (guest_memory.cpp): live regions, a list of free blocks, and the         *)
(* high-water mark below which claimed pages are zeroed.  Every call holds  *)
(* the heap's lock, so a call is one step.  The guest writes to any page    *)
(* that was ever committed: a free does not decommit.                       *)
(*                                                                          *)
(* Addresses are pages from the base of the heap.  A block is a pair: its   *)
(* first page and the page after its last.                                  *)
(***************************************************************************)
EXTENDS Naturals, FiniteSetsExt

CONSTANTS
  HeapPages,        (* pages of the heap                                      *)
  Requests,         (* sizes asked for, in pages                              *)
  Alignments        (* page sizes: the small one is 1                         *)

ASSUME HeapAssumption ==
  /\ HeapPages \in Nat \ {0} /\ Requests \subseteq Nat \ {0} /\ Alignments \subseteq Nat \ {0}

VARIABLES
  regions,          (* regions_                                               *)
  free,             (* free_                                                  *)
  mark,             (* everAllocatedEnd_                                      *)
  committed,        (* pages mapped readable and writable                     *)
  written,          (* history: pages with bytes of a guest's on them         *)
  commitFailed,     (* history: a commit failed in a fixed allocation         *)
  conflicted        (* history: a fixed allocation ran into a live region     *)

heapVars == <<regions, free, mark, committed, written, commitFailed, conflicted>>

HeapInit ==
  /\ regions = {} /\ free = {<<0, HeapPages>>} /\ mark = 0 /\ committed = {} /\ written = {}
  /\ commitFailed = FALSE /\ conflicted = FALSE

-----------------------------------------------------------------------------
(* Blocks *)

PagesOf(b) == b[1] .. b[2] - 1
Cover(blocks) == UNION {PagesOf(b) : b \in blocks}
Owned == Cover(regions)

RoundUp(n, a) == ((n + a - 1) \div a) * a
RoundDown(n, a) == n - (n % a)

\* What is left of block b without b1 .. b2 - 1.
Without(b, from, to) ==
  {<<b[1], IF from < b[2] THEN from ELSE b[2]>>, <<IF to > b[1] THEN to ELSE b[1], b[2]>>}
RemoveFreeRange(blocks, from, to) ==
  {c \in UNION {Without(b, from, to) : b \in blocks} : c[1] < c[2]}

\* Mutant: a freed block stays beside its free neighbours.
InsertAlone(blocks, b) == blocks \union {b}

\* InsertFree merges a block with the free blocks it touches; one that overlaps a free block is
\* reported and dropped.
InsertFree(blocks, b) ==
  LET near == {c \in blocks : c[2] = b[1] \/ c[1] = b[2]}
      merged == <<Min({b[1]} \union {c[1] : c \in near}), Max({b[2]} \union {c[2] : c \in near})>> IN
  IF PagesOf(b) \cap Cover(blocks) # {} THEN blocks ELSE (blocks \ near) \union {merged}

\* Mutant: pages handed out before keep what was on them.
ZeroNothing(pages) == written

\* ZeroClaimed on the pages of a claim: above the mark they are as the host mapped them.
ZeroClaimed(pages) == {p \in written : p \in pages => p >= mark}
RaisedTo(to) == IF to > mark THEN to ELSE mark

-----------------------------------------------------------------------------
(* Allocation where there is room *)

\* The first free block that holds n pages from its first aligned page on.
Fits(n, a) == {b \in free : RoundUp(b[1], a) + n <= b[2]}
FirstFit(n, a) == RoundUp(Min({b[1] : b \in Fits(n, a)}), a)

\* A failed commit puts the space back.
Allocate(n, a) ==
  LET size == RoundUp(n, a)
      from == FirstFit(size, a)
      rest == RemoveFreeRange(free, from, from + size) IN
  /\ Fits(size, a) # {}
  /\ \/ /\ free' = rest /\ regions' = regions \union {<<from, from + size>>}
        /\ committed' = committed \union (from .. from + size - 1)
        /\ written' = ZeroClaimed(from .. from + size - 1) /\ mark' = RaisedTo(from + size)
     \/ /\ free' = InsertFree(rest, <<from, from + size>>)
        /\ UNCHANGED <<regions, mark, committed, written>>
  /\ UNCHANGED <<commitFailed, conflicted>>

Free(b) ==
  /\ b \in regions
  /\ regions' = regions \ {b} /\ free' = InsertFree(free, b)
  /\ UNCHANGED <<mark, committed, written, commitFailed, conflicted>>

-----------------------------------------------------------------------------
(* Allocation at a given address *)

Owner(from) == {b \in regions : b[1] <= from /\ from < b[2]}

Commits(from, to) == committed' = committed \union (from .. to - 1)

\* Inside a live region: commits again, and zeroes nothing.
Recommit(from, to) ==
  /\ \E o \in Owner(from) : to <= o[2]
  /\ Commits(from, to)
  /\ UNCHANGED <<regions, free, mark, written, commitFailed, conflicted>>

\* Past the end of a live region: it absorbs the regions in the way and claims the gaps between
\* them, one after the other, up to the page `stop` where a commit fails (or the end).  What is
\* absorbed or claimed by then is lost to a failure; the commit of the whole range, at the end,
\* may fail too, and loses nothing.
GrowRegion(from, to) ==
  \E o \in Owner(from) :
    LET victims == {v \in regions : v[1] > o[1] /\ v[1] < to}
        end == Max({to} \union {v[2] : v \in victims})
        gaps == (o[2] .. end - 1) \ Cover(victims)
        ends(g) == Min({v[1] : v \in {w \in victims : w[1] > g}} \union {end})
        Claimed(stop) == {p \in gaps : p < stop} IN
    /\ to > o[2]
    /\ \/ /\ regions' = (regions \ (victims \union {o})) \union {<<o[1], end>>}
          /\ free' = RemoveFreeRange(free, o[2], end)
          /\ committed' = committed \union gaps \union (from .. to - 1)
          /\ written' = ZeroClaimed(gaps)
          /\ mark' = IF gaps = {} THEN mark ELSE RaisedTo(Max(gaps) + 1)
          /\ UNCHANGED commitFailed
       \/ \E stop \in {g \in gaps : g - 1 \notin gaps} :
            /\ regions' = regions \ {v \in victims : v[1] < stop}
            /\ free' = RemoveFreeRange(free, o[2], ends(stop))
            /\ committed' = committed \union Claimed(stop)
            /\ written' = ZeroClaimed(Claimed(stop))
            /\ mark' = IF Claimed(stop) = {} THEN mark ELSE RaisedTo(Max(Claimed(stop)) + 1)
            /\ commitFailed' = TRUE
    /\ UNCHANGED conflicted

\* From free space into a live region: commits the range, claims none of it and succeeds.
Conflict(from, to) ==
  /\ Owner(from) = {} /\ \E b \in regions : from <= b[1] /\ b[1] < to
  /\ Commits(from, to) /\ conflicted' = TRUE
  /\ UNCHANGED <<regions, free, mark, written, commitFailed>>

\* In free space: claimed, or lost if the commit fails.
Claim(from, to) ==
  /\ \A b \in regions : PagesOf(b) \cap (from .. to - 1) = {}
  /\ free' = RemoveFreeRange(free, from, to)
  /\ \/ /\ regions' = regions \union {<<from, to>>} /\ Commits(from, to)
        /\ written' = ZeroClaimed(from .. to - 1) /\ mark' = RaisedTo(to)
        /\ UNCHANGED commitFailed
     \/ /\ commitFailed' = TRUE
        /\ UNCHANGED <<regions, committed, written, mark>>
  /\ UNCHANGED conflicted

AllocateAt(at, n, a) ==
  LET from == RoundDown(at, a)
      to == from + RoundUp(n, a) IN
  to <= HeapPages /\ (Recommit(from, to) \/ GrowRegion(from, to) \/ Conflict(from, to) \/ Claim(from, to))

-----------------------------------------------------------------------------

\* A guest's store, to memory it owns or to memory it once owned.
Write(p) ==
  /\ p \in committed /\ written' = written \union {p}
  /\ UNCHANGED <<regions, free, mark, committed, commitFailed, conflicted>>

HeapNext ==
  \/ \E n \in Requests, a \in Alignments :
       Allocate(n, a) \/ \E at \in 0 .. HeapPages - 1 : AllocateAt(at, n, a)
  \/ \E b \in regions : Free(b)
  \/ \E p \in 0 .. HeapPages - 1 : Write(p)

HeapSpec == HeapInit /\ [][HeapNext]_heapVars

-----------------------------------------------------------------------------
(* Properties *)

\* Every variable has its type.
HeapTypeOK ==
  /\ regions \union free \subseteq (0 .. HeapPages) \X (0 .. HeapPages)
  /\ mark \in 0 .. HeapPages
  /\ committed \subseteq 0 .. HeapPages - 1 /\ written \subseteq committed
  /\ commitFailed \in BOOLEAN /\ conflicted \in BOOLEAN

Apart(blocks) == \A b, c \in blocks : b = c \/ PagesOf(b) \cap PagesOf(c) = {}

\* The books of the heap: no page has two owners or an owner and a place on the free list, the
\* free blocks are as large as they can be, a page that is owned is committed, and no page is
\* lost, unless a commit failed in a fixed allocation (Allocate, Free, InsertFree).
BooksBalance ==
  /\ Apart(regions) /\ Owned \cap Cover(free) = {} /\ Owned \subseteq committed
  /\ \A b, c \in free : b = c \/ b[2] < c[1] \/ c[2] < b[1]
  /\ commitFailed \/ Owned \union Cover(free) = 0 .. HeapPages - 1

\* Pages come to a new owner zeroed, whoever wrote to them before and after they were freed,
\* unless a fixed allocation had handed them out without claiming them (ZeroClaimed).
FreshPagesAreZero ==
  [][\A p \in Owned' \ Owned : p \notin written' \/ conflicted]_heapVars

=============================================================================
