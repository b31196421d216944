-------------------------------- MODULE Umalloc --------------------------------
(* user/umalloc.c: malloc() and free() of user programs, a circular list of  *)
(* free blocks in the order of their addresses.  Sizes and addresses are in  *)
(* units of a Header; the list's head, base, is at address 0, below the heap.*)
(* The program frees what malloc() returned, once, and may call sbrk() too.  *)
EXTENDS Naturals, FiniteSets

CONSTANTS
  HeapEnd,    \* bound: the highest address sbrk() gives out, plus one
  MinCore,    \* the least number of units morecore() asks for (4096)
  MaxUnits    \* bound: units of one malloc(), its header included

ASSUME UmallocAssumption ==
  HeapEnd \in Nat \ {0} /\ MinCore \in Nat \ {0} /\ MaxUnits \in Nat

VARIABLES
  heap,       \* size of every block, next of the free ones, freep
  brk,        \* the end of the heap
  inUse,      \* blocks the program has: their addresses
  theirs      \* units that the program's own sbrk() calls took

umallocVars == <<heap, brk, inUse, theirs>>

Put(f, x, v) == [y \in DOMAIN f \cup {x} |-> IF y = x THEN v ELSE f[y]]
Drop(f, x) == [y \in DOMAIN f \ {x} |-> f[y]]

\* The first block from p on that Stop accepts; the list has no more than
\* HeapEnd blocks, so a walk that takes more steps never ends.
Walk(h, from, Stop(_)) ==
  LET after[n \in 0..HeapEnd] == IF n = 0 THEN from ELSE h.next[after[n - 1]]
      hits == {n \in 0..HeapEnd : Stop(after[n])}
  IN after[CHOOSE n \in hits : \A m \in hits : n <= m]

\* free() of a block at bp: between its neighbours, merged with those it meets.
FreeBlock(h, bp) ==
  LET stop(p) == \/ bp > p /\ bp < h.next[p]
                 \/ p >= h.next[p] /\ (bp > p \/ bp < h.next[p])
      p == Walk(h, h.freep, stop)
      up == h.next[p]
      meets == bp + h.size[bp] = up
      h1 == IF meets
            THEN [h EXCEPT !.size = Drop(Put(@, bp, h.size[bp] + h.size[up]), up),
                           !.next = Drop(Put(@, bp, h.next[up]), up)]
            ELSE [h EXCEPT !.next = Put(@, bp, up)]
      joins == p + h1.size[p] = bp
  IN IF joins
     THEN [size |-> Drop(Put(h1.size, p, h1.size[p] + h1.size[bp]), bp),
           next |-> Drop(Put(h1.next, p, h1.next[bp]), bp), freep |-> p]
     ELSE [h1 EXCEPT !.next = Put(@, p, bp), !.freep = p]

Fits(h, n) == \E p \in DOMAIN h.next : h.size[p] >= n

(* Slip: the block that is cut keeps its size. *)
TakeUncut(h, n) ==
  LET stop(q) == h.size[h.next[q]] >= n
      prev == Walk(h, h.freep, stop)
      p == h.next[prev]
      at == p + h.size[p] - n
  IN IF h.size[p] = n
     THEN [at |-> p, heap |-> [h EXCEPT !.freep = prev,
             !.next = Drop([@ EXCEPT ![prev] = h.next[p]], p)]]
     ELSE [at |-> at, heap |-> [h EXCEPT !.freep = prev, !.size = Put(@, at, n)]]
\* malloc() when a block fits: the first after freep; a larger one is cut, and
\* its upper end is given away.  at: the block returned.
Take(h, n) ==
  LET stop(q) == h.size[h.next[q]] >= n
      prev == Walk(h, h.freep, stop)
      p == h.next[prev]
      at == p + h.size[p] - n
  IN IF h.size[p] = n
     THEN [at |-> p, heap |-> [h EXCEPT !.freep = prev,
             !.next = Drop([@ EXCEPT ![prev] = h.next[p]], p)]]
     ELSE [at |-> at, heap |-> [h EXCEPT !.freep = prev,
             !.size = Put([@ EXCEPT ![p] = @ - n], at, n)]]

Morecore(h, nu) == FreeBlock([h EXCEPT !.size = Put(@, brk, nu)], brk)

Malloc(n) ==
  LET nu == IF n < MinCore THEN MinCore ELSE n
      more == ~Fits(heap, n)
      t == Take(IF more THEN Morecore(heap, nu) ELSE heap, n)
  IN /\ more => brk + nu <= HeapEnd
     /\ heap' = t.heap /\ inUse' = inUse \cup {t.at}
     /\ brk' = IF more THEN brk + nu ELSE brk
     /\ UNCHANGED theirs

Free(bp) ==
  /\ bp \in inUse
  /\ heap' = FreeBlock(heap, bp) /\ inUse' = inUse \ {bp}
  /\ UNCHANGED <<brk, theirs>>

UserSbrk == /\ brk < HeapEnd /\ brk' = brk + 1 /\ theirs' = theirs \cup {brk}
            /\ UNCHANGED <<heap, inUse>>

UmallocInit ==
  /\ heap = [size |-> [p \in {0} |-> 0], next |-> [p \in {0} |-> 0], freep |-> 0]
  /\ brk = 1 /\ inUse = {} /\ theirs = {}

UmallocNext ==
  \/ \E n \in 2..MaxUnits : Malloc(n)
  \/ \E bp \in inUse : Free(bp)
  \/ UserSbrk

UmallocSpec == UmallocInit /\ [][UmallocNext]_umallocVars

--------------------------------------------------------------------------------
(* Properties.                                                               *)

Units(p) == p..p + heap.size[p] - 1
FreeList == DOMAIN heap.next \ {0}

\* Every unit of the heap is in one block, in use or free, or the program's
\* own: no block overlaps another and none is lost by cutting and merging.
UnitsAccounted ==
  \A u \in 1..brk - 1 :
    Cardinality({p \in inUse \cup FreeList : u \in Units(p)})
      = (IF u \in theirs THEN 0 ELSE 1)

\* The free list is one cycle in the order of the addresses, on which free()'s
\* search always ends, and no two free blocks touch: everything was merged.
ListInOrder ==
  /\ heap.freep \in DOMAIN heap.next
  /\ \A p \in DOMAIN heap.next :
       LET above == {q \in FreeList : q > p}
       IN /\ heap.next[p] = IF above = {} THEN 0
                            ELSE CHOOSE q \in above : \A r \in above : q <= r
          /\ p \in FreeList => p + heap.size[p] \notin FreeList

\* malloc() gives out no unit twice and loses none.
HeapConsistent == UnitsAccounted /\ ListInOrder

================================================================================
