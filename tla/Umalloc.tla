------------------------------- MODULE Umalloc -------------------------------
(***************************************************************************)
(* malloc() and free() of user programs: the circular free list, in units  *)
(* of a header.  `base', the empty block that the list starts from, is at  *)
(* address BASE, below the heap.  Between two sbrk() calls a thread's      *)
(* stack may be put above the heap, so that it is not contiguous.          *)
(***************************************************************************)
EXTENDS Integers, FiniteSets, FiniteSetsExt

CONSTANTS HEADER,     \* sizeof(Header)
          MinUnits,   \* what morecore() asks for at least
          Requests,   \* arguments of malloc()
          HeapEnd     \* sbrk() fails beyond it

ASSUME UmallocAssumption == HEADER \in Nat \ {0} /\ MinUnits \in Nat \ {0} /\ Requests \subseteq Nat

VARIABLES heap,   \* headers, freep and the break
          used,   \* blocks that the program has: address and bytes asked for
          core    \* ghost: the units that sbrk() has given

umallocVars == <<heap, used, core>>

BASE == 0
NULL == -1
NoHeader == [ptr |-> NULL, size |-> 0]

RECURSIVE FreePlace(_, _, _), Search(_, _, _, _)

\* The block after which bp belongs, from p on.
FreePlace(h, bp, p) ==
  LET next == h.hdr[p].ptr
  IN  IF (bp > p /\ bp < next) \/ (p >= next /\ (bp > p \/ bp < next)) THEN p ELSE FreePlace(h, bp, next)

\* bp, joined with the block after it if they touch.
JoinNext(h, bp, next) ==
  IF bp + h.hdr[bp].size = next
  THEN [ptr |-> h.hdr[next].ptr, size |-> h.hdr[bp].size + h.hdr[next].size]
  ELSE [ptr |-> next, size |-> h.hdr[bp].size]

Touches(h, p, bp) == p + h.hdr[p].size = bp

\* Headers that are no longer one are forgotten.
free(h, bp) ==
  LET p == FreePlace(h, bp, h.freep)
      next == h.hdr[p].ptr
      joined == JoinNext(h, bp, next)
      kept == IF joined.ptr # next THEN [h.hdr EXCEPT ![next] = NoHeader] ELSE h.hdr
  IN  [h EXCEPT !.freep = p,
                !.hdr = IF Touches(h, p, bp)
                        THEN [kept EXCEPT ![p] = [ptr |-> joined.ptr, size |-> @.size + joined.size], ![bp] = NoHeader]
                        ELSE [kept EXCEPT ![p].ptr = bp, ![bp] = joined]]

CoreUnits(n) == IF n < MinUnits THEN MinUnits ELSE n

\* morecore(): the heap grows at the break, and the new block is freed.
morecore(h, n) ==
  free([h EXCEPT !.hdr[h.brk].size = CoreUnits(n), !.brk = @ + CoreUnits(n)], h.brk)

SplitFrom_Whole(h, p, n) == [h.hdr EXCEPT ![p + h.hdr[p].size - n] = [ptr |-> NULL, size |-> n]]

\* The tail of a larger block is given away.
SplitFrom(h, p, n) ==
  [h.hdr EXCEPT ![p].size = @ - n, ![p + h.hdr[p].size - n] = [ptr |-> NULL, size |-> n]]

Failed(h) == [heap |-> h, at |-> NULL]

\* The loop of malloc(), from the block after prevp.
Search(h, prevp, n, more) ==
  LET p == h.hdr[prevp].ptr
  IN  IF h.hdr[p].size = n
      THEN [heap |-> [h EXCEPT !.hdr[prevp].ptr = h.hdr[p].ptr, !.hdr[p].ptr = NULL, !.freep = prevp], at |-> p]
      ELSE IF h.hdr[p].size > n
      THEN [heap |-> [h EXCEPT !.hdr = SplitFrom(h, p, n), !.freep = prevp], at |-> p + h.hdr[p].size - n]
      ELSE IF p # h.freep THEN Search(h, p, n, more)
      ELSE IF ~more \/ h.brk + CoreUnits(n) > HeapEnd THEN Failed(h)
      ELSE Search(morecore(h, n), morecore(h, n).freep, n, more)

Units(nbytes) == (nbytes + HEADER - 1) \div HEADER + 1

malloc(nbytes, more) ==
  LET h == IF heap.freep # NULL THEN heap
           ELSE [heap EXCEPT !.freep = BASE, !.hdr[BASE] = [ptr |-> BASE, size |-> 0]]
  IN  Search(h, h.freep, Units(nbytes), more)
----------------------------------------------------------------------------
\* A call of malloc(); sbrk() may fail.
Malloc(nbytes, more) ==
  LET m == malloc(nbytes, more)
  IN  /\ heap' = m.heap
      /\ used' = IF m.at = NULL THEN used ELSE used \cup {[at |-> m.at, bytes |-> nbytes]}
      /\ core' = core \cup heap.brk..(m.heap.brk - 1)

FreeBlock(b) ==
  /\ heap' = free(heap, b.at) /\ used' = used \ {b}
  /\ UNCHANGED core

\* A thread's stack takes the place above the heap.
StackAbove ==
  /\ heap.brk < HeapEnd /\ heap.brk - 1 \in core
  /\ heap' = [heap EXCEPT !.brk = @ + 1]
  /\ UNCHANGED <<used, core>>

UmallocInit ==
  /\ heap = [hdr |-> [a \in 0..HeapEnd |-> NoHeader], freep |-> NULL, brk |-> 2]
  /\ used = {} /\ core = {}

UmallocNext ==
  \/ \E n \in Requests, more \in BOOLEAN : Malloc(n, more)
  \/ \E b \in used : FreeBlock(b)
  \/ StackAbove

UmallocSpec == UmallocInit /\ [][UmallocNext]_umallocVars
----------------------------------------------------------------------------
BlockUnits(a) == a..(a + heap.hdr[a].size - 1)
ListBlocks == {a \in DOMAIN heap.hdr : heap.hdr[a].ptr # NULL}

\* The blocks on the list and the blocks of the program divide what sbrk()
\* gave: none overlap, nothing is lost, and each block of the program has room
\* for what was asked for.
HeapDivided ==
  /\ UNION {BlockUnits(a) : a \in ListBlocks} \cup UNION {BlockUnits(b.at) : b \in used} = core
  /\ \A a, b \in ListBlocks \cup {u.at : u \in used} : a # b => BlockUnits(a) \cap BlockUnits(b) = {}
  /\ \A b \in used : (heap.hdr[b.at].size - 1) * HEADER >= b.bytes

\* The list is one circle through all its blocks in the order of addresses,
\* freep is on it, and no two of its blocks touch: the pieces of the heap grow
\* together again whatever the order of the calls.
ListWhole ==
  heap.freep # NULL =>
    /\ heap.freep \in ListBlocks
    /\ \A a \in ListBlocks :
         LET above == {b \in ListBlocks : b > a}
         IN  /\ heap.hdr[a].ptr = IF above = {} THEN BASE ELSE Min(above)
             /\ a + heap.hdr[a].size \notin ListBlocks \/ a = BASE

\* The heap is divided between the program and a list that malloc() and
\* free() keep whole.
HeapWhole == HeapDivided /\ ListWhole
=============================================================================
