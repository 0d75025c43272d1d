------------------------------- MODULE Memory -------------------------------
(***************************************************************************)
(* Physical pages (kalloc.c), page tables (vm.c), and what fork, exec, sbrk *)
(* and wait do with them (proc.c, exec.c), with every way they can fail.   *)
(*                                                                         *)
(* kmem.lock makes kalloc() and kfree() atomic and a page table belongs to *)
(* one process, so a call meets the others only in how many pages are      *)
(* left: a call is one step, and may see only some of the free pages,      *)
(* because other calls and the rest of the kernel have the others for the  *)
(* moment.  A page table is a tree of three levels with Fan entries in a   *)
(* node.                                                                   *)
(***************************************************************************)
EXTENDS Integers, Sequences, FiniteSetsExt, SequencesExt, TLC

CONSTANTS
  Proc,       \* entries of the process table
  Page,       \* physical pages, as numbers
  Fan,        \* entries of a page-table page (512)
  PGSIZE,     \* bytes of a page
  MaxSz,      \* largest size a process asks for, in bytes
  Programs,   \* what exec may find in a file: sequences of segments
  USERSTACK,  \* stack pages
  Null

ASSUME MemoryAssumption ==
  /\ Page \subseteq Nat /\ Null \notin Page
  /\ Fan \in Nat /\ Fan >= 2 /\ PGSIZE \in Nat /\ PGSIZE > 0
  /\ MaxSz \in Nat /\ USERSTACK \in Nat

MAXVPN == Fan * Fan * Fan
TRAMPOLINE == MAXVPN - 1
TRAPFRAME == MAXVPN - 2

VARIABLES
  freelist,   \* kmem.freelist
  proc,       \* per process: trapframe, page table, size; Null if UNUSED
  panicked

mvars == <<freelist, proc, panicked>>

\* A page table under construction, with the free list and the outcome: nodes are
\* the page-table pages below the root, map the leaf entries.
Work(f) == [free |-> f, root |-> Null, nodes |-> <<>>, map |-> <<>>,
            ok |-> TRUE, bad |-> FALSE]
WorkOn(p, f) == [free |-> f, root |-> proc[p].root, nodes |-> proc[p].nodes,
              map |-> proc[p].map, ok |-> TRUE, bad |-> FALSE]

PGROUNDUP(sz) == ((sz + PGSIZE - 1) \div PGSIZE) * PGSIZE
Pages(sz) == PGROUNDUP(sz) \div PGSIZE
Vpns(from, to) == [n \in 1 .. (IF to > from THEN to - from ELSE 0) |-> from + n - 1]
Drop(f, S) == [x \in DOMAIN f \ S |-> f[x]]

-----------------------------------------------------------------------------
(* vm.c *)

\* kalloc() and kfree() (the order of the list does not matter).
kalloc(f) == IF f = {} THEN Null ELSE Min(f)
kfree(s, pgs) == [s EXCEPT !.free = @ \cup pgs, !.bad = @ \/ pgs \cap s.free # {}]

\* walk(): one level; the page-table page is allocated if it is missing.
Node(s, n) ==
  IF ~s.ok \/ n \in DOMAIN s.nodes THEN s
  ELSE IF kalloc(s.free) = Null THEN [s EXCEPT !.ok = FALSE]
  ELSE [s EXCEPT !.nodes = (n :> kalloc(s.free)) @@ @, !.free = @ \ {kalloc(s.free)}]

\* walk(pagetable, va, 1)
walk(s, v) == Node(Node(s, <<1, v \div (Fan * Fan)>>), <<0, v \div Fan>>)

\* mappages() of one page; "mappages: remap".
mappages(s, v, pte) ==
  LET t == walk(s, v)
  IN IF ~t.ok THEN t
     ELSE [t EXCEPT !.map = (v :> pte) @@ @, !.bad = @ \/ v \in DOMAIN s.map]

\* uvmunmap(): "uvmunmap: not mapped".
uvmunmap(s, V, do_free) ==
  LET t == [s EXCEPT !.map = Drop(@, V), !.bad = @ \/ ~(V \subseteq DOMAIN s.map)]
  IN IF do_free THEN kfree(t, {s.map[v].pa : v \in V \cap DOMAIN s.map}) ELSE t

uvmcreate(f) ==
  LET s == Work(f)
  IN IF kalloc(f) = Null THEN [s EXCEPT !.ok = FALSE]
     ELSE [s EXCEPT !.root = kalloc(f), !.free = @ \ {kalloc(f)}]

\* A page for virtual page v: kalloc(), mappages(), and kfree() if that fails.
NewPage(s, v, u, w) ==
  LET pa == kalloc(s.free)
  IN IF ~s.ok THEN s
     ELSE IF pa = Null THEN [s EXCEPT !.ok = FALSE]
     ELSE LET t == mappages([s EXCEPT !.free = @ \ {pa}], v, [pa |-> pa, u |-> u, w |-> w])
          IN IF t.ok THEN t ELSE kfree(t, {pa})

\* uvmfirst(): the page of initcode.
uvmfirst(s) == NewPage(s, 0, TRUE, TRUE)

uvmdealloc(s, oldsz, newsz) ==
  IF newsz >= oldsz THEN s ELSE uvmunmap(s, Pages(newsz) .. Pages(oldsz) - 1, TRUE)

\* A loop over the virtual pages from .. to - 1, with the permissions of perm, that stops
\* at the first page a which it cannot get.
Loop(s, from, to, perm) ==
  FoldLeft(LAMBDA x, v : IF ~x.s.ok THEN x
                         ELSE [s |-> NewPage(x.s, v, perm[v].u, perm[v].w), a |-> v],
           [s |-> s, a |-> from], Vpns(from, to))

\* uvmalloc(): when page a fails, uvmdealloc(pagetable, a, oldsz) gives back the others.
uvmalloc(s, oldsz, newsz, w) ==
  LET first == Pages(oldsz)
      x == Loop(s, first, Pages(newsz), [v \in 0 .. MAXVPN |-> [u |-> TRUE, w |-> w]])
  IN IF newsz < oldsz \/ x.s.ok THEN x.s
     ELSE uvmdealloc(x.s, x.a * PGSIZE, first * PGSIZE)

\* Mutant: the page that failed is unmapped as well.
uvmcopy_past(s, old, sz) ==
  LET x == Loop(s, 0, Pages(sz), old)
  IN IF x.s.ok THEN x.s ELSE uvmunmap(x.s, 0 .. x.a, TRUE)

\* uvmcopy(): the pages of the parent, with its permissions; when page i fails, the i
\* pages before it are unmapped.  "uvmcopy: page not present".
uvmcopy(s, old, sz) ==
  LET x == Loop(s, 0, Pages(sz), old)
  IN IF ~(0 .. Pages(sz) - 1 \subseteq DOMAIN old) THEN [s EXCEPT !.bad = TRUE]
     ELSE IF x.s.ok THEN x.s ELSE uvmunmap(x.s, 0 .. x.a - 1, TRUE)

\* freewalk(): every page-table page; "freewalk: leaf".
freewalk(s) ==
  LET t == kfree(s, Range(s.nodes) \cup {s.root})
  IN [t EXCEPT !.bad = @ \/ s.map # <<>>, !.nodes = <<>>, !.root = Null]

uvmfree(s, sz) == freewalk(IF sz > 0 THEN uvmunmap(s, 0 .. Pages(sz) - 1, TRUE) ELSE s)

\* copyout() and copyin() go from page to page; the result says whether they copied
\* all.  Bits are the flags each of them wants of an entry.
Translate(map, bits) ==
  LET copied[va \in 0 .. MAXVPN * PGSIZE, len \in 0 .. MAXVPN * PGSIZE] ==
        LET v == va \div PGSIZE
            n == Min({PGSIZE - (va - v * PGSIZE), len})
        IN IF len = 0 THEN TRUE
           ELSE IF v >= MAXVPN \/ v \notin DOMAIN map \/ \E b \in bits : ~map[v][b] THEN FALSE
           ELSE copied[(v + 1) * PGSIZE, len - n]
  IN copied

copyout(map, va, len) == Translate(map, {"u", "w"})[va, len]
copyin(map, va, len) == Translate(map, {"u"})[va, len]

-----------------------------------------------------------------------------
(* proc.c *)

\* proc_pagetable(): trampoline and trapframe, which are not freed with the table.
proc_pagetable(f, tf) ==
  LET s == uvmcreate(f)
      t == mappages(s, TRAMPOLINE, [pa |-> Null, u |-> FALSE, w |-> FALSE])
      r == mappages(t, TRAPFRAME, [pa |-> tf, u |-> FALSE, w |-> TRUE])
  IN IF ~s.ok THEN s
     ELSE IF ~t.ok THEN uvmfree(t, 0)
     ELSE IF ~r.ok THEN uvmfree(uvmunmap(r, {TRAMPOLINE}, FALSE), 0)
     ELSE r

proc_freepagetable(s, sz) == uvmfree(uvmunmap(s, {TRAMPOLINE, TRAPFRAME}, FALSE), sz)

\* freeproc() of a process with a trapframe and a page table.
freeproc(s, tf, sz) == proc_freepagetable(kfree(s, {tf}), sz)

\* The pages a call can get are avail, of the free ones.
Result(s, avail) ==
  /\ freelist' = s.free \cup (freelist \ avail)
  /\ panicked' = (panicked \/ s.bad \/ s.free \cap (freelist \ avail) # {})

Image(s, tf, sz) ==
  [tf |-> tf, root |-> s.root, nodes |-> s.nodes, map |-> s.map, sz |-> sz]

\* userinit(): the first process has one page.
MInit ==
  /\ LET tf == kalloc(Page)
         s == uvmfirst(proc_pagetable(Page \ {tf}, tf))
     IN /\ freelist = s.free
        /\ \E p \in Proc :
             proc = [q \in Proc |-> IF q = p THEN Image(s, tf, PGSIZE) ELSE Null]
  /\ panicked = FALSE

\* fork(): allocproc() and uvmcopy(), undone by freeproc() wherever they fail.
fork(p, q, avail) ==
  /\ proc[p] # Null /\ proc[q] = Null
  /\ \E tf \in {kalloc(avail)} : \E s \in {proc_pagetable(avail \ {tf}, tf)} :
     \E t \in {uvmcopy(s, proc[p].map, proc[p].sz)} :
       \/ tf = Null /\ UNCHANGED mvars
       \/ tf # Null /\ ~s.ok /\ Result(kfree(s, {tf}), avail) /\ UNCHANGED proc
       \/ tf # Null /\ s.ok /\ ~t.ok /\ Result(freeproc(t, tf, 0), avail) /\ UNCHANGED proc
       \/ /\ tf # Null /\ s.ok /\ t.ok /\ Result(t, avail)
          /\ proc' = [proc EXCEPT ![q] = Image(t, tf, proc[p].sz)]

\* wait() frees a zombie, whose memory is as it was.
wait(q) ==
  /\ proc[q] # Null /\ \E p \in Proc \ {q} : proc[p] # Null
  /\ Result(freeproc(WorkOn(q, freelist), proc[q].tf, proc[q].sz), freelist)
  /\ proc' = [proc EXCEPT ![q] = Null]

\* sbrk(n), growproc(n).
growproc(p, n, avail) ==
  /\ proc[p] # Null /\ proc[p].sz + n \in 0 .. MaxSz
  /\ LET sz == proc[p].sz
     IN \E s \in {IF n > 0 THEN uvmalloc(WorkOn(p, avail), sz, sz + n, TRUE)
                  ELSE uvmdealloc(WorkOn(p, avail), sz, sz + n)} :
          /\ Result(s, avail)
          /\ proc' = [proc EXCEPT ![p] = Image(s, @.tf, IF s.ok THEN sz + n ELSE sz)]

\* exec(): the segments of the file, one after the other; loadseg() of segment
\* `stop' fails.
Segments(s, prog, stop) ==
  FoldLeft(LAMBDA x, i :
             IF ~x.s.ok \/ ~x.loaded THEN x
             ELSE LET to == prog[i].vaddr + prog[i].memsz
                      t == uvmalloc(x.s, x.sz, to, prog[i].w)
                  IN [s |-> t, loaded |-> i # stop,
                      sz |-> IF ~t.ok \/ to < x.sz THEN x.sz ELSE to],
           [s |-> s, sz |-> 0, loaded |-> TRUE], [i \in 1 .. Len(prog) |-> i])

\* exec(): the new image is built beside the old one, which goes when nothing can
\* fail any more; the page below the stack is made inaccessible (uvmclear).
exec(p, prog, stop, argsFit, avail) ==
  /\ proc[p] # Null
  /\ \E s \in {proc_pagetable(avail, proc[p].tf)} : \E x \in {Segments(s, prog, stop)} :
     \E base \in {PGROUNDUP(x.sz)} : \E top \in {base + (USERSTACK + 1) * PGSIZE} :
     \E t \in {uvmalloc(x.s, base, top, TRUE)} :
       LET guarded == [t EXCEPT !.map[base \div PGSIZE].u = FALSE]
           old == proc_freepagetable(WorkOn(p, t.free), proc[p].sz)
       IN \/ ~s.ok /\ Result(s, avail) /\ UNCHANGED proc
          \/ /\ s.ok /\ (~x.s.ok \/ ~x.loaded)
             /\ Result(proc_freepagetable(x.s, x.sz), avail) /\ UNCHANGED proc
          \/ /\ s.ok /\ x.s.ok /\ x.loaded /\ ~t.ok
             /\ Result(proc_freepagetable(t, base), avail) /\ UNCHANGED proc
          \/ /\ s.ok /\ x.s.ok /\ x.loaded /\ t.ok /\ ~argsFit
             /\ Result(proc_freepagetable(guarded, top), avail) /\ UNCHANGED proc
          \/ /\ s.ok /\ x.s.ok /\ x.loaded /\ t.ok /\ argsFit
             /\ Result([old EXCEPT !.bad = @ \/ t.bad], avail)
             /\ proc' = [proc EXCEPT ![p] = Image(guarded, @.tf, top)]

\* The first n free pages.
Avail(n) == {x \in freelist : Cardinality({y \in freelist : y < x}) < n}

MNext ==
  \/ \E q \in Proc : wait(q)
  \/ \E n \in 0 .. Cardinality(freelist) :
       LET avail == Avail(n)
       IN \/ \E p, q \in Proc : fork(p, q, avail)
          \/ \E p \in Proc, k \in -MaxSz .. MaxSz : k # 0 /\ growproc(p, k, avail)
          \/ \E p \in Proc, prog \in Programs, argsFit \in BOOLEAN :
               \E stop \in 0 .. Len(prog) : exec(p, prog, stop, argsFit, avail)

-----------------------------------------------------------------------------
\* The pages of a process: trapframe, page-table pages, user pages.
Owned(p) ==
  IF proc[p] = Null THEN {}
  ELSE {proc[p].tf, proc[p].root} \cup Range(proc[p].nodes)
       \cup {proc[p].map[v].pa : v \in DOMAIN proc[p].map \ {TRAMPOLINE, TRAPFRAME}}

\* Every page is free or has one owner, and within a process one use, after every
\* failure of kalloc() at any place in fork, exec and sbrk: nothing leaks, nothing
\* is freed twice, no two processes share a page.  Exactly the pages below p->sz are
\* mapped, so that uvmunmap(), uvmcopy(), mappages() and freewalk() never panic.
PagesAccounted ==
  /\ ~panicked
  /\ freelist \cup UNION {Owned(p) : p \in Proc} = Page
  /\ \A p \in Proc :
       /\ Owned(p) \cap freelist = {}
       /\ \A q \in Proc \ {p} : Owned(p) \cap Owned(q) = {}
       /\ proc[p] # Null =>
            /\ Cardinality(Owned(p)) = Cardinality(DOMAIN proc[p].nodes)
                                        + Cardinality(DOMAIN proc[p].map)
            /\ DOMAIN proc[p].map = (0 .. Pages(proc[p].sz) - 1) \cup {TRAMPOLINE, TRAPFRAME}

\* copyin() and copyout() succeed exactly when every byte of the range is in a page
\* the user may read or write: never the stack guard, the trapframe, or past p->sz.
CopySafe ==
  \A p \in Proc : proc[p] # Null =>
    LET map == proc[p].map
        In(b) == b < MAXVPN * PGSIZE /\ b \div PGSIZE \in DOMAIN map
                 /\ map[b \div PGSIZE].u
        Out(b) == In(b) /\ map[b \div PGSIZE].w
    IN \A va \in 0 .. MAXVPN * PGSIZE, len \in 0 .. 2 * PGSIZE + 1 :
         va + len <= MAXVPN * PGSIZE =>
           /\ copyin(map, va, len) = \A b \in va .. va + len - 1 : In(b)
           /\ copyout(map, va, len) = \A b \in va .. va + len - 1 : Out(b)
=============================================================================
