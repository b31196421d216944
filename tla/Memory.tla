--------------------------------- MODULE Memory --------------------------------
(* Physical pages and user address spaces: kernel/kalloc.c, kernel/vm.c,     *)
(* kernel/exec.c, sys_exec() and sys_sbrk(), and in kernel/proc.c allocproc, *)
(* freeproc, proc_pagetable, proc_freepagetable, growproc and fork's copy.   *)
(*                                                                           *)
(* A call works on one address space that nobody else can see, and takes and *)
(* returns pages one at a time under kmem.lock, so a call is one action; what*)
(* processes in the middle of theirs hold in the meantime is a number of     *)
(* pages withheld from it, so that kalloc() may fail at any point.  A call is*)
(* a composition of functions of a record w: the free pages it can get, the  *)
(* space it works on, and whether it has failed.                             *)
EXTENDS Integers, FiniteSets, SequencesExt

CONSTANTS
  Page,        \* physical pages between end and PHYSTOP (positive numbers)
  Slot, First, \* process slots; the one userinit() fills, which never exits
  PGSIZE,      \* bytes of a page
  MaxPages,    \* pages below TRAPFRAME in a user address space
  Span,        \* pages that one second-level table maps
  Program,     \* programs: the end addresses of their segments, in order
  MaxArgs,     \* bound: arguments of exec()
  MaxBrk       \* bound: bytes of one sbrk()

ASSUME MemoryAssumption ==
  /\ Page \subseteq Nat \ {0} /\ First \in Slot
  /\ PGSIZE \in Nat \ {0} /\ Span \in Nat \ {0} /\ IsFiniteSet(Page)
  /\ MaxPages \in Nat /\ MaxPages >= Cardinality(Page)
  /\ Program \subseteq Seq(Nat) /\ MaxArgs \in Nat /\ MaxBrk \in Nat

VARIABLES
  freelist,   \* kmem.freelist
  space,      \* space[p]: page tables, trapframe and size of a process
  fault,      \* the panic, or the page freed twice; "" if none
  inOp,       \* begin_op()s without an end_op()
  failed      \* the name of the last call, if it failed; "" if not

memVars == <<freelist, space, fault, inOp, failed>>

TrapFrame == MaxPages
Trampoline == MaxPages + 1
Vpn == 0..Trampoline
TabOf(v) == IF v >= MaxPages THEN MaxPages ELSE v \div Span
Tab == {TabOf(v) : v \in Vpn}
KernelText == 0 - 1    \* the page of the trampoline: never free

\* No page table: root = 0.  A leaf, a table, a trapframe that is 0 is absent.
NoSpace == [root |-> 0, tabs |-> [t \in Tab |-> 0], leaf |-> [v \in Vpn |-> 0],
            guard |-> {}, tf |-> 0, sz |-> 0]
Up(sz) == (sz + PGSIZE - 1) \div PGSIZE     \* PGROUNDUP, in pages

MPanic(w, why) == IF w.bad = "" THEN [w EXCEPT !.bad = why] ELSE w
Fail(w) == [w EXCEPT !.ok = FALSE]

(* kalloc.c *)
Head0(free) == IF free = {} THEN 0
               ELSE CHOOSE pg \in free : \A q \in free : pg <= q
Kalloc(w) == [w EXCEPT !.free = @ \ {Head0(w.free)}]
Kfree(w, pg) == IF pg \in w.free \/ pg \notin Page THEN MPanic(w, "kfree")
                ELSE [w EXCEPT !.free = @ \cup {pg}]
\* kfree() of the pages of a function, one after the other.
KfreeEach(w, f) ==
  LET pages == {f[x] : x \in DOMAIN f}
  IN IF pages \subseteq Page \ w.free /\ IsInjective(f)
     THEN [w EXCEPT !.free = @ \cup pages] ELSE MPanic(w, "kfree")

(* vm.c *)
\* walk() with alloc: page v has a table, if a page for one could be had.
WalkAlloc(w, v) ==
  IF w.sp.tabs[TabOf(v)] # 0 THEN w
  ELSE [Kalloc(w) EXCEPT !.sp.tabs[TabOf(v)] = Head0(w.free)]

\* mappages() of one page.
Mappages(w, v, pg) ==
  LET w1 == WalkAlloc(w, v)
  IN IF w1.sp.tabs[TabOf(v)] = 0 THEN Fail(w)
     ELSE IF w1.sp.leaf[v] # 0 THEN MPanic(w1, "mappages: remap")
     ELSE [w1 EXCEPT !.sp.leaf[v] = pg]

\* The space sp without the pages V; uvmunmap() of them.
Unmapped(sp, V) ==
  [sp EXCEPT !.leaf = [v \in Vpn |-> IF v \in V THEN 0 ELSE @[v]],
             !.guard = @ \ V]
Uvmunmap(w, V, dofree) ==
  LET x == IF dofree THEN KfreeEach(w, [v \in V |-> w.sp.leaf[v]]) ELSE w
  IN IF \E v \in V : w.sp.tabs[TabOf(v)] = 0 THEN MPanic(w, "uvmunmap: walk")
     ELSE IF \E v \in V : w.sp.leaf[v] = 0
     THEN MPanic(w, "uvmunmap: not mapped")
     ELSE [x EXCEPT !.sp = Unmapped(@, V)]

\* uvmcreate()
Uvmcreate(w) ==
  IF w.free = {} THEN Fail(w) ELSE [Kalloc(w) EXCEPT !.sp.root = Head0(w.free)]

\* uvmdealloc(): the state; the size it returns is that of Shrunk.
Shrunk(old, new) == IF new >= old THEN old ELSE new
Uvmdealloc(w, old, new) ==
  IF new >= old THEN w ELSE Uvmunmap(w, Up(new)..Up(old) - 1, TRUE)

(* Slip: the page is not freed when mappages() fails. *)
MapNewLeaks(w, v) ==
  LET pg == Head0(w.free)
  IN IF pg = 0 THEN Fail(w) ELSE Mappages(Kalloc(w), v, pg)
\* Pages from to.. until one cannot be had: a page and its place in a table,
\* filled by uvmalloc() with zeros, by uvmcopy() with the parent's page.
MapNew(w, v) ==
  LET pg == Head0(w.free)
      x == Mappages(Kalloc(w), v, pg)
  IN IF pg = 0 THEN Fail(w) ELSE IF x.ok THEN x ELSE Kfree(x, pg)
MapNext(w, v) == IF w.ok THEN MapNew(w, v) ELSE w
\* The pages that were mapped before one could not be are unmapped again.
MapOrUndo(w, from, to) ==
  IF w.ok THEN w
  ELSE Uvmunmap(w, {v \in Vpn : /\ from <= v /\ v < to /\ v < TrapFrame
                               /\ w.sp.leaf[v] # 0}, TRUE)
MapRange(w, from, to) ==
  LET x[n \in 0..to - from] == IF n = 0 THEN w ELSE MapNext(x[n - 1], from + n - 1)
  IN MapOrUndo(x[to - from], from, to)

\* uvmalloc(): fails by returning 0, which a size of 0 looks like too.
Uvmalloc(w, old, new) ==
  IF new < old THEN w ELSE IF new = 0 THEN Fail(w)
  ELSE MapRange(w, Up(old), Up(new))
Grown(old, new) == IF new < old THEN old ELSE new

\* uvmcopy() of the size of old, guard pages as such.
Guarded(w, guard) == IF w.ok THEN [w EXCEPT !.sp.guard = guard] ELSE w
Uvmcopy(w, old) ==
  LET missing == \E v \in 0..Up(old.sz) - 1 : old.leaf[v] = 0
  IN IF missing THEN MPanic(w, "uvmcopy: page not present")
     ELSE Guarded(MapRange(w, 0, Up(old.sz)), old.guard)

\* freewalk() of a root and its tables, whose leaves must be gone.
Freewalk(w) ==
  LET U == {t \in Tab : w.sp.tabs[t] # 0}
      x == KfreeEach(w, [t \in U |-> w.sp.tabs[t]])
  IN IF \E v \in Vpn : w.sp.leaf[v] # 0 THEN MPanic(w, "freewalk: leaf")
     ELSE [Kfree(x, w.sp.root) EXCEPT
             !.sp = [@ EXCEPT !.root = 0, !.tabs = [t \in Tab |-> 0]]]
Uvmfree(w, sz) == Freewalk(Uvmunmap(w, 0..Up(sz) - 1, TRUE))

\* walkaddr(): the page that user page v is, 0 if the user may not touch it.
Walkaddr(sp, v) ==
  IF v \in Vpn \ (sp.guard \cup {TrapFrame, Trampoline}) THEN sp.leaf[v] ELSE 0

\* One turn of the loops of copyin(), copyout() and copyinstr(): from user
\* address va to the end of its page.  max bytes are left; stop is the address
\* behind a string's NUL.  bytes: what was touched, as pages and places in them.
CopyTurn(sp, c, stop) ==
  LET at == c.va % PGSIZE
      pg == Walkaddr(sp, c.va \div PGSIZE)
      room == IF c.max < PGSIZE - at THEN c.max ELSE PGSIZE - at
      n == IF stop - c.va < room THEN stop - c.va ELSE room
  IN IF ~c.ok \/ c.max = 0 \/ c.va >= stop THEN c
     ELSE IF pg = 0 THEN [c EXCEPT !.ok = FALSE]
     ELSE [c EXCEPT !.va = @ + n, !.max = @ - n,
                    !.bytes = @ \o [k \in 1..n |-> <<pg, at + k - 1>>]]
Copied(sp, va, max, stop) ==
  LET c[n \in 0..max] ==
        IF n = 0 THEN [va |-> va, max |-> max, ok |-> TRUE, bytes |-> <<>>]
        ELSE CopyTurn(sp, c[n - 1], stop)
  IN c[max]

Copyin(sp, va, len) == Copied(sp, va, len, va + len)
Copyinstr(sp, va, max, nul) ==
  LET c == Copied(sp, va, max, nul + 1) IN [c EXCEPT !.ok = @ /\ c.va = nul + 1]
\* fetchaddr() of a word of size bytes; fetchstr() is copyinstr().
Fetchaddr(sp, addr, size) ==
  addr < sp.sz /\ addr + size <= sp.sz /\ Copyin(sp, addr, size).ok

(* proc.c *)
ProcPagetable(w) ==
  LET x == Uvmcreate(w)
      y == Mappages(x, Trampoline, KernelText)
      z == Mappages(y, TrapFrame, w.sp.tf)
  IN IF ~x.ok THEN x ELSE IF ~y.ok THEN Uvmfree(y, 0)
     ELSE IF ~z.ok THEN Uvmfree(Uvmunmap(z, {Trampoline}, FALSE), 0) ELSE z

ProcFreePagetable(w, sz) ==
  Uvmfree(Uvmunmap(Uvmunmap(w, {Trampoline}, FALSE), {TrapFrame}, FALSE), sz)

Freeproc(w) ==
  LET x == IF w.sp.tf = 0 THEN w ELSE [Kfree(w, w.sp.tf) EXCEPT !.sp.tf = 0]
      y == IF w.sp.root = 0 THEN x ELSE ProcFreePagetable(x, w.sp.sz)
  IN [y EXCEPT !.sp.sz = 0]

OrFreeproc(w) == IF w.ok THEN w ELSE Freeproc(w)

Allocproc(w) ==
  IF w.free = {} THEN Fail(w)
  ELSE OrFreeproc(ProcPagetable([Kalloc(w) EXCEPT !.sp.tf = Head0(w.free)]))

(* exec.c and the system calls.                                              *)
Work(free, sp) ==
  [free |-> free, sp |-> sp, ok |-> TRUE, bad |-> "", op |-> inOp]
EndOp(w) == [w EXCEPT !.op = @ - 1]

(* Slip: exec() fails with its transaction open. *)
PutImageForgotten(w, loaded) == w
\* The end of the label bad: the inode is put, unless it was before.
PutImage(w, loaded) == IF loaded THEN w ELSE EndOp(w)

\* loadseg() of pages from..to - 1, whose contents can be read.
Loadseg(w, from, to) ==
  IF \E v \in from..to - 1 : Walkaddr(w.sp, v) = 0
  THEN MPanic(w, "loadseg: address should exist") ELSE w

\* exec(): loads the first segments of prog, the next one being bad (a read of
\* its header or of its contents fails) unless there is none and good; args:
\* the argument strings fit on the stack.
Loaded(w, old, end) ==
  IF w.ok THEN [Loadseg(w, Up(old), Up(end)) EXCEPT !.sp.sz = Grown(old, end)]
  ELSE w
LoadSegment(w, end) ==
  IF w.ok THEN Loaded(Uvmalloc(w, w.sp.sz, end), w.sp.sz, end) ELSE w
LoadSegments(w, prog, loads) ==
  LET x[n \in 0..loads] == IF n = 0 THEN w ELSE LoadSegment(x[n - 1], prog[n])
  IN x[loads]

\* The label bad: what was built is torn down, the old image stays.
ExecBad(w, loaded, old) ==
  LET freed == IF w.sp.root = 0 THEN w ELSE ProcFreePagetable(w, w.sp.sz)
  IN Fail([PutImage(freed, loaded) EXCEPT !.sp = old])

\* The new image w is complete: it replaces the old one.
ExecCommit(w, old) ==
  [ProcFreePagetable([w EXCEPT !.sp = old], old.sz) EXCEPT !.sp = w.sp]

\* The stack and its guard page above the image, and the arguments on it.
ExecStack(w, sz, old, args) ==
  LET whole == [w EXCEPT !.sp = [@ EXCEPT !.sz = sz + 2 * PGSIZE, !.guard = {Up(sz)}]]
  IN IF ~w.ok THEN ExecBad(w, TRUE, old)
     ELSE IF args THEN ExecCommit(whole, old) ELSE ExecBad(whole, TRUE, old)
ExecLoaded(w, old, args) ==
  ExecStack(Uvmalloc(w, w.sp.sz, w.sp.sz + 2 * PGSIZE), w.sp.sz, old, args)

ExecImage(w, old, loaded, args) ==
  IF w.ok /\ loaded
  THEN ExecLoaded(EndOp([w EXCEPT !.sp.sz = Up(@) * PGSIZE]), old, args)
  ELSE ExecBad(w, FALSE, old)

ExecProgram(free, old, prog, loads, good, args) ==
  LET begun == [Work(free, [NoSpace EXCEPT !.tf = old.tf]) EXCEPT !.op = @ + 1]
  IN ExecImage(LoadSegments(ProcPagetable(begun), prog, loads),
               old, good /\ loads = Len(prog), args)

--------------------------------------------------------------------------------
Alive(p) == space[p].root # 0

\* What a call finds free: the pages but those withheld by others.
Offers == {{}} \cup {{q \in freelist : q <= pg} : pg \in freelist}

Settle(w, offer, p, call) ==
  IF w.bad # ""
  THEN fault' = w.bad /\ UNCHANGED <<freelist, space, inOp, failed>>
  ELSE /\ freelist' = (freelist \ offer) \cup w.free
       /\ space' = [space EXCEPT ![p] = w.sp]
       /\ inOp' = w.op
       /\ failed' = IF w.ok THEN "" ELSE call
       /\ UNCHANGED fault

ForkCopied(w, old) ==
  IF w.ok THEN [w EXCEPT !.sp.sz = old.sz] ELSE Freeproc(w)
ForkCopy(w, old) == IF w.ok THEN ForkCopied(Uvmcopy(w, old), old) ELSE w

ForkMemory(p) ==
  \E q \in Slot, offer \in Offers :
    /\ fault = "" /\ Alive(p) /\ ~Alive(q)
    /\ \E w \in {ForkCopy(Allocproc(Work(offer, NoSpace)), space[p])} :
         Settle(w, offer, q, "fork")

\* sys_sbrk(): growproc().
GrownTo(w, sz) == IF w.ok THEN [w EXCEPT !.sp.sz = sz] ELSE w
Growproc(w, old, n) ==
  IF n > 0 THEN GrownTo(Uvmalloc(w, old, old + n), Grown(old, old + n))
  ELSE IF n = 0 \/ old + n < 0 THEN w      \* the sum wraps
  ELSE [Uvmdealloc(w, old, old + n) EXCEPT !.sp.sz = Shrunk(old, old + n)]

Sbrk(p) ==
  \E n \in (0 - MaxBrk)..MaxBrk, offer \in Offers :
    /\ fault = "" /\ Alive(p)
    /\ \E w \in {Growproc(Work(offer, space[p]), space[p].sz, n)} :
         Settle(w, offer, p, "sbrk")

\* sys_exec(): a page for each of n arguments, given back at the end.
Argv(offer, n) == {pg \in offer : Cardinality({q \in offer : q <= pg}) <= n}
ExecCall(offer, n, old, prog, loads, good, args) ==
  LET argv == Argv(offer, n)
      x == ExecProgram(offer \ argv, old, prog, loads, good, args)
  IN IF Cardinality(argv) = n THEN KfreeEach(x, [pg \in argv |-> pg])
     ELSE Fail(Work(offer, old))

Exec(p) ==
  \E prog \in Program, good, args \in BOOLEAN, n \in 0..MaxArgs, offer \in Offers :
   \E loads \in 0..Len(prog) :
    /\ fault = "" /\ Alive(p)
    /\ \E w \in {ExecCall(offer, n, space[p], prog, loads, good, args)} :
         Settle(w, offer, p, "exec")

\* freeproc() of a process that has exited, by wait() in its parent.
FreeMemory(p) ==
  /\ fault = "" /\ Alive(p) /\ p # First
  /\ \E w \in {Freeproc(Work(freelist, space[p]))} :
       Settle(w, freelist, p, "wait")

\* kinit() frees every page; userinit() and uvmfirst() take the first ones.
FirstSpace ==
  MapRange(Allocproc([free |-> Page, sp |-> NoSpace, ok |-> TRUE, bad |-> "",
                      op |-> 0]), 0, 1)

\* There are pages for it: userinit() does not look.
ASSUME MemoryBoots == FirstSpace.ok

MemInit ==
  /\ freelist = FirstSpace.free
  /\ space = [p \in Slot |-> IF p = First
                            THEN [FirstSpace.sp EXCEPT !.sz = PGSIZE] ELSE NoSpace]
  /\ fault = "" /\ inOp = 0 /\ failed = ""

MemNext == \E p \in Slot : ForkMemory(p) \/ Sbrk(p) \/ Exec(p) \/ FreeMemory(p)

MemSpec == MemInit /\ [][MemNext]_memVars

--------------------------------------------------------------------------------
(* Properties.                                                               *)

MemTypeOK ==
  /\ freelist \subseteq Page
  /\ space \in [Slot -> [root : Page \cup {0}, tabs : [Tab -> Page \cup {0}],
                         leaf : [Vpn -> Page \cup {0, KernelText}],
                         guard : SUBSET Vpn, tf : Page \cup {0}, sz : Nat]]
  /\ failed \in {"", "fork", "sbrk", "exec"}

\* The places that hold a page; the trapframe's leaf repeats its pointer tf.
Place == {<<"root", 0>>, <<"tf", 0>>} \cup {"table"} \X Tab
           \cup {"leaf"} \X (Vpn \ {TrapFrame})
PageIn(sp, x) == CASE x[1] = "root" -> sp.root [] x[1] = "tf" -> sp.tf
                   [] x[1] = "table" -> sp.tabs[x[2]]
                   [] x[1] = "leaf" -> sp.leaf[x[2]]
PageAt(p, x) == PageIn(space[p], x)
Taken(p) == {x \in Place : PageAt(p, x) \in Page}

\* Every page is either free or in one place of one process, whatever calls
\* have failed half-way: none leaks, none is free and in use, none is shared.
PagesAccounted ==
  LET used == Page \ freelist IN
  /\ UNION {{PageAt(p, x) : x \in Taken(p)} : p \in Slot} = used
  /\ Cardinality(used) = Cardinality(UNION {{p} \X Taken(p) : p \in Slot})

\* A process's memory is mapped from 0 to its size without a gap and not
\* beyond, below its trapframe and trampoline: what uvmunmap(), uvmcopy() and
\* freewalk() panic without.  No call panics or frees a page twice.
ImagesMapped ==
  /\ fault = ""
  /\ \A p \in Slot : Alive(p) =>
       /\ {v \in Vpn : space[p].leaf[v] # 0}
            = 0..Up(space[p].sz) - 1 \cup {TrapFrame, Trampoline}
       /\ space[p].leaf[TrapFrame] = space[p].tf

\* Copies between the kernel and p touch, byte by byte and over page borders,
\* what the addresses stand for, up to the first the user may not touch: not
\* the guard page of the stack, nor the trapframe.  A string that does not end
\* within max bytes, or a word that is not all below the size, is refused.
CopiesExact(p) ==
  LET sp == space[p]
      end == (Up(sp.sz) + 1) * PGSIZE
      len == PGSIZE + 1
      users(a) == a < Up(sp.sz) * PGSIZE /\ a \div PGSIZE \notin sp.guard
      place(a) == <<sp.leaf[a \div PGSIZE], a % PGSIZE>>
  IN \A va \in 0..end - 1 :
       LET all == \A a \in va..va + len - 1 : users(a)
           c == Copyin(sp, va, len)
       IN /\ c.ok = all /\ all => Len(c.bytes) = len
          /\ \A k \in DOMAIN c.bytes : /\ users(va + k - 1)
                                        /\ c.bytes[k] = place(va + k - 1)
          /\ ~all => ~users(va + Len(c.bytes))
          /\ Copyinstr(sp, va, len, va + len - 1).ok = all
          /\ ~Copyinstr(sp, va, len, va + len).ok
          /\ Fetchaddr(sp, va, len) = (all /\ va + len <= sp.sz)

\* No page is lost, no address space torn, and the kernel's copies respect it.
MemoryConsistent ==
  /\ PagesAccounted /\ ImagesMapped
  /\ \A p \in Slot : Alive(p) => CopiesExact(p)

\* A call that fails leaves no transaction open and nobody's memory changed;
\* fork() and exec() give every page back.
FailedCallUndone ==
  [][/\ inOp' = 0
     /\ failed' # "" =>
          /\ \A p \in Slot : /\ space'[p].leaf = space[p].leaf
                              /\ space'[p].sz = space[p].sz
          /\ failed' # "sbrk" => UNCHANGED <<freelist, space>>]_memVars

================================================================================
