------------------------------ MODULE Umalloc -------------------------------
(***************************************************************************)
(* The user allocator (umalloc.c): a circular list of free blocks with     *)
(* headers in the heap itself.  Addresses are counted in headers; the heap *)
(* that sbrk() gives is Heap, and base, the static header, lies below it.  *)
(***************************************************************************)
EXTENDS Naturals, FiniteSetsExt, TLC

CONSTANTS
  HeapMax,   \* units sbrk() can give in all
  Chunk,     \* units morecore() asks for at least (4096)
  MaxUnits   \* largest request, in units with the header

ASSUME UmallocAssumption == HeapMax \in Nat /\ Chunk \in Nat \ {0} /\ MaxUnits \in Nat

base == 0
Addr == 0 .. HeapMax

VARIABLES
  ptr,     \* s.ptr of every address
  size,    \* s.size of every address
  freep,   \* where the next search starts
  brk,     \* units that sbrk() has given
  used     \* blocks the program has, by their header

uvars == <<ptr, size, freep, brk, used>>

\* The first malloc() finds freep = 0 and makes base a list of its own.
UInit ==
  /\ ptr = [a \in Addr |-> base] /\ size = [a \in Addr |-> 0]
  /\ freep = base /\ brk = 0 /\ used = {}

\* The heap as a record, for the functions that work on it.
H == [ptr |-> ptr, size |-> size, freep |-> freep]

\* free(): bp belongs between p and p->ptr.
Stop(h, p, bp) ==
  \/ bp > p /\ bp < h.ptr[p]
  \/ p >= h.ptr[p] /\ (bp > p \/ bp < h.ptr[p])

\* free(): the first such p from freep on.
Place(h, bp) ==
  LET walk[n \in 0 .. HeapMax] == IF n = 0 THEN h.freep ELSE h.ptr[walk[n - 1]]
  IN walk[CHOOSE n \in 0 .. HeapMax :
            (Stop(h, walk[n], bp) \/ n = HeapMax) /\ \A m \in 0 .. n - 1 : ~Stop(h, walk[m], bp)]

\* free(): join with the upper, then with the lower neighbour.
Upper(h, p, bp) ==
  LET up == h.ptr[p]
  IN IF bp + h.size[bp] = up
     THEN [h EXCEPT !.size[bp] = @ + h.size[up], !.ptr[bp] = h.ptr[up]]
     ELSE [h EXCEPT !.ptr[bp] = up]
Lower(h, p, bp) ==
  IF p + h.size[p] = bp
  THEN [h EXCEPT !.size[p] = @ + h.size[bp], !.ptr[p] = h.ptr[bp]]
  ELSE [h EXCEPT !.ptr[p] = bp]

free(h, bp) == LET p == Place(h, bp) IN [Lower(Upper(h, p, bp), p, bp) EXCEPT !.freep = p]

\* malloc(): the n-th block after freep, and the one before it.
Nth(h, n) ==
  LET walk[m \in 0 .. HeapMax + 1] == IF m = 0 THEN h.freep ELSE h.ptr[walk[m - 1]]
  IN walk[n]

\* The loop looks at every block, freep last.
Rounds(h) == Min({n \in 1 .. HeapMax + 1 : Nth(h, n) = h.freep})
Fits(h, units) == {n \in 1 .. Rounds(h) : h.size[Nth(h, n)] >= units}

\* Mutant: a block that is split keeps its size.
Take_whole(h, prevp, p, units) ==
  IF h.size[p] = units THEN [h EXCEPT !.ptr[prevp] = h.ptr[p], !.freep = prevp]
  ELSE [h EXCEPT !.size[p + h.size[p] - units] = units, !.freep = prevp]

\* malloc(): a block of the right size leaves the list; a larger one loses its tail.
Take(h, prevp, p, units) ==
  IF h.size[p] = units THEN [h EXCEPT !.ptr[prevp] = h.ptr[p], !.freep = prevp]
  ELSE [h EXCEPT !.size[p] = @ - units, !.size[p + h.size[p] - units] = units,
                 !.freep = prevp]

\* The new heap.  What no list and no block reaches any more is forgotten (0).
Store(h, blocks) ==
  LET list == {Nth(h, n) : n \in 1 .. Rounds(h)}
  IN /\ ptr' = [a \in Addr |-> IF a \in list THEN h.ptr[a] ELSE base]
     /\ size' = [a \in Addr |-> IF a \in list \cup blocks THEN h.size[a] ELSE 0]
     /\ freep' = h.freep /\ used' = blocks

\* malloc(): first fit; then morecore() and the search goes on from the new freep.
\* sbrk() may fail.
malloc(units) ==
  LET fits == Fits(H, units)
      more == Max({units, Chunk})
      new == brk + 1
      h == IF fits # {} THEN H ELSE free([H EXCEPT !.size[new] = more], new)
      n == Min(Fits(h, units))
      p == Nth(h, n)
  IN \/ /\ fits # {} \/ brk + more <= HeapMax
        /\ Store(Take(h, Nth(h, n - 1), p, units), used \cup {p + h.size[p] - units})
        /\ brk' = IF fits # {} THEN brk ELSE brk + more
     \/ /\ fits = {} /\ brk + more > HeapMax
        /\ UNCHANGED <<ptr, size, freep, brk, used>>

Free(bp) ==
  /\ bp \in used
  /\ Store(free(H, bp), used \ {bp})
  /\ UNCHANGED brk

UNext == (\E n \in 1 .. MaxUnits : malloc(n)) \/ \E bp \in used : Free(bp)

-----------------------------------------------------------------------------
\* Blocks on the free list, without base.
FreeList == {Nth(H, n) : n \in 1 .. Rounds(H)} \ {base}
Units(a) == a .. a + size[a] - 1

\* The free blocks and the blocks of the program are the heap: no unit is lost, none
\* is in two blocks, whatever the order of malloc() and free().  The free list is one
\* circle in address order through base, and no two of its blocks touch: free() has
\* joined them.
HeapPartitioned ==
  /\ UNION {Units(a) : a \in FreeList \cup used} = 1 .. brk
  /\ FreeList \cap used = {}
  /\ \A a, c \in FreeList \cup used : a # c => Units(a) \cap Units(c) = {}
  /\ base \in {Nth(H, n) : n \in 1 .. Rounds(H)}
  /\ \A a \in FreeList : ptr[a] # base => ptr[a] > a + size[a]
=============================================================================
