--------------------------------- MODULE Vm ---------------------------------
(***************************************************************************)
(* Memory: the page allocator (kalloc.c), page tables (vm.c), and what     *)
(* sbrk(), fork(), exec(), thread_create() and the end of threads and      *)
(* processes do with them (proc.c, exec.c).  The threads of a process      *)
(* share a page directory; the main thread has the size of the memory and  *)
(* the pool of stacks that ended threads have left below it.               *)
(*                                                                         *)
(* An address is a number of units, PGSIZE of them in a page.  A section   *)
(* under memlock or under ptable.lock is one action, and dealloc_thread()  *)
(* is two.  Which page of the free list kalloc() takes does not matter:    *)
(* only their number is kept, and a page is known by what it is used for.  *)
(* Of the fields sz only the main thread's is kept: the others' are        *)
(* copies, refreshed before each use.  originalbase matters in threads     *)
(* other than the main one.                                                *)
(***************************************************************************)
EXTENDS Integers, Sequences, FiniteSets, FiniteSetsExt, SequencesExt

CONSTANTS Slots,        \* entries of the process table; the first is init's
          NPAGES,       \* pages of physical memory
          PGSIZE, KERNBASE,
          NPTENTRIES,   \* pages that one page table maps
          ImageSize,    \* units of the text and data of a program
          SbrkSizes     \* arguments of sbrk()

InitSlot == 1

ASSUME VmAssumption ==
  /\ Slots \subseteq Nat \ {0} /\ InitSlot \in Slots /\ NPAGES \in Nat
  /\ PGSIZE \in Nat \ {0} /\ KERNBASE % PGSIZE = 0 /\ NPTENTRIES \in Nat \ {0}
  /\ SbrkSizes \subseteq Int

VARIABLES kmem,     \* length of the free list
          dirs,     \* page directories: which pages and tables are present
          proc,     \* the process table
          ending,   \* the thread that dealloc_thread() is half done with
          held,     \* locks that a failed call has returned with
          vmpanic

vmVars == <<kmem, dirs, proc, ending, held, vmpanic>>

Dirs == 1..(Cardinality(Slots) + 1)
UserPages == 0..(KERNBASE \div PGSIZE - 1)
Tables == 0..((KERNBASE \div PGSIZE - 1) \div NPTENTRIES)
PGROUNDUP(a) == ((a + PGSIZE - 1) \div PGSIZE) * PGSIZE
PageOf(a) == a \div PGSIZE

\* The pages that the loops of allocuvm() and deallocuvm() go through.
Between(old, new) == {i \in UserPages : PGROUNDUP(old) <= i * PGSIZE /\ i * PGSIZE < new}

NoDir == [used |-> FALSE, ktab |-> FALSE, tab |-> {}, pte |-> {}, user |-> {}]
NoProc == [state |-> "unused", kstack |-> FALSE, pgdir |-> 0, sz |-> 0, master |-> 0, base |-> 0, pool |-> <<>>]
----------------------------------------------------------------------------
\* Memories: records [free, dirs, ok, panic]; ok is the result of the last
\* function.

Memory == [free |-> kmem, dirs |-> dirs, ok |-> TRUE, panic |-> vmpanic]

kalloc(m) == IF m.free = 0 THEN [m EXCEPT !.ok = FALSE] ELSE [m EXCEPT !.free = @ - 1, !.ok = TRUE]
kfree(m, n) == [m EXCEPT !.free = @ + n]

\* walkpgdir() with alloc: the table of page i is there, or memory is out.
walkpgdir(m, d, i) ==
  LET k == kalloc(m)
  IN  IF i \div NPTENTRIES \in m.dirs[d].tab THEN [m EXCEPT !.ok = TRUE]
      ELSE IF ~k.ok THEN k
      ELSE [k EXCEPT !.dirs[d].tab = @ \union {i \div NPTENTRIES}]

\* mappages() of one user page.
mappages(m, d, i, user) ==
  LET w == walkpgdir(m, d, i)
  IN  CASE ~w.ok -> w
        [] w.ok /\ i \in w.dirs[d].pte -> [w EXCEPT !.panic = "remap"]
        [] OTHER -> [w EXCEPT !.dirs[d].pte = @ \union {i},
                              !.dirs[d].user = IF user THEN @ \union {i} ELSE @ \ {i}]

deallocuvm(m, d, oldsz, newsz) ==
  LET gone == m.dirs[d].pte \cap (IF newsz >= oldsz THEN {} ELSE Between(newsz, oldsz))
  IN  [m EXCEPT !.free = @ + Cardinality(gone),
                !.dirs[d].pte = @ \ gone, !.dirs[d].user = @ \ gone]

AddPage_Leaks(m, d, i, user) ==
  LET t == kalloc(m)
      r == mappages(t, d, i, user)
  IN  IF ~m.ok \/ m.panic # "" THEN m
      ELSE IF ~t.ok THEN t
      ELSE r

\* One turn of the loop of allocuvm() or copyuvm2(): a page, and its entry.
AddPage(m, d, i, user) ==
  LET t == kalloc(m)
      r == mappages(t, d, i, user)
  IN  IF ~m.ok \/ m.panic # "" THEN m
      ELSE IF ~t.ok THEN t
      ELSE IF ~r.ok THEN kfree(r, 1)
      ELSE r

AddPages(m, d, pages, user) ==
  LET order == [k \in 1..Cardinality(pages) |->
                  CHOOSE i \in pages : Cardinality({j \in pages : j < i}) = k - 1]
      upto[k \in 0..Len(order)] ==
        IF k = 0 THEN [m EXCEPT !.ok = TRUE]
        ELSE AddPage(upto[k - 1], d, order[k], order[k] \in user)
  IN  upto[Len(order)]

\* A failure takes back what was added.
allocuvm(m, d, oldsz, newsz) ==
  LET r == AddPages(m, d, Between(oldsz, newsz), UserPages)
  IN  IF newsz >= KERNBASE THEN [m EXCEPT !.ok = FALSE]
      ELSE IF newsz < oldsz THEN [m EXCEPT !.ok = TRUE]
      ELSE IF r.ok THEN r
      ELSE [deallocuvm(r, d, newsz, oldsz) EXCEPT !.ok = FALSE]

freevm(m, d) ==
  LET r == deallocuvm(m, d, KERNBASE, 0)
  IN  [kfree(r, Cardinality(r.dirs[d].tab) + (IF r.dirs[d].ktab THEN 2 ELSE 1)) EXCEPT !.dirs[d] = NoDir]

\* The directory that setupkvm() makes next.
NewDir(m) == Min({d \in Dirs : ~m.dirs[d].used})

\* setupkvm(): a page for the directory, and one for the tables of the
\* kernel's part.
setupkvm(m) ==
  LET t == kalloc(m)
      k == kalloc([t EXCEPT !.dirs[NewDir(m)].used = TRUE])
  IN  IF ~t.ok THEN t
      ELSE IF ~k.ok THEN [freevm(k, NewDir(m)) EXCEPT !.ok = FALSE]
      ELSE [k EXCEPT !.dirs[NewDir(m)].ktab = TRUE]

\* copyuvm2(): the child's directory is NewDir(m).  Pages that are not
\* present are skipped.
copyuvm2(m, d, sz) ==
  LET s == setupkvm(m)
      c == AddPages(s, NewDir(m), Between(0, sz) \cap m.dirs[d].pte, m.dirs[d].user)
  IN  IF ~s.ok THEN s
      ELSE IF \E i \in Between(0, sz) : i \div NPTENTRIES \notin m.dirs[d].tab
           THEN [s EXCEPT !.panic = "copyuvm: pte should exist"]
      ELSE IF ~c.ok THEN [freevm(c, NewDir(m)) EXCEPT !.ok = FALSE]
      ELSE c
----------------------------------------------------------------------------
get_highest_master(p) ==
  LET up[k \in 0..Cardinality(Slots)] ==
        IF k = 0 THEN p ELSE IF proc[up[k - 1]].master = 0 THEN up[k - 1] ELSE proc[up[k - 1]].master
  IN  up[Cardinality(Slots)]

Live(p) == proc[p].state = "live"
Threads(p) == {q \in Slots : Live(q) /\ proc[q].pgdir = proc[p].pgdir}
Unused == {q \in Slots : proc[q].state = "unused"}

Set(m) == kmem' = m.free /\ dirs' = m.dirs /\ vmpanic' = m.panic

Runs == vmpanic = ""
MayLockPtable == "ptable" \notin held /\ ending = 0
MayLockMem == "memlock" \notin held

\* What a program does not give back with sbrk(): its first page, and the
\* stacks of its threads and of the pool.
StackTop(p) ==
  Max({PGSIZE} \union {proc[q].base + 2 * PGSIZE : q \in {t \in Threads(p) \union ({ending} \ {0}) : proc[t].master # 0}}
          \union {proc[get_highest_master(p)].pool[k] + 2 * PGSIZE :
                    k \in DOMAIN proc[get_highest_master(p)].pool})

\* growproc(): a failure returns with memlock.
Growproc(p, n) ==
  LET h == get_highest_master(p)
      s == proc[h].sz
      m == IF n > 0 THEN allocuvm(Memory, proc[p].pgdir, s, s + n)
           ELSE deallocuvm(Memory, proc[p].pgdir, s, s + n)
  IN  /\ Runs /\ MayLockMem /\ Live(p) /\ s + n >= StackTop(p)
      /\ Set(m)
      /\ \/ /\ m.ok
            /\ proc' = [proc EXCEPT ![h].sz = s + n] /\ UNCHANGED held
         \/ /\ ~m.ok
            /\ held' = held \union {"memlock"} /\ UNCHANGED proc
      /\ UNCHANGED ending

\* fork(): a failure of copyuvm2() returns with ptable.lock.
Fork(p) ==
  LET h == get_highest_master(p)
      a == kalloc(Memory)
      c == copyuvm2(a, proc[p].pgdir, proc[h].sz)
  IN  /\ Runs /\ MayLockPtable /\ Live(p) /\ Unused # {}
      /\ LET q == Min(Unused)
         IN  \/ /\ ~a.ok
                /\ UNCHANGED vmVars
             \/ /\ a.ok /\ c.ok /\ Set(c)
                /\ proc' = [proc EXCEPT ![q] = [NoProc EXCEPT !.state = "live", !.kstack = TRUE,
                                        !.pgdir = NewDir(a), !.sz = proc[h].sz, !.pool = proc[h].pool]]
                /\ UNCHANGED <<ending, held>>
             \/ /\ a.ok /\ ~c.ok /\ Set(kfree(c, 1))
                /\ held' = held \union {"ptable"}
                /\ UNCHANGED <<proc, ending>>

\* thread_create() up to acquire(&memlock): a slot and a kernel stack.
ThreadAlloc(p) ==
  LET a == kalloc(Memory)
  IN  /\ Runs /\ MayLockPtable /\ Live(p) /\ Unused # {} /\ a.ok
      /\ \A q \in Slots : proc[q].state = "embryo" => proc[q].master # p
      /\ Set(a)
      /\ proc' = [proc EXCEPT ![Min(Unused)] = [NoProc EXCEPT !.state = "embryo", !.master = p,
                                                             !.kstack = TRUE]]
      /\ UNCHANGED <<ending, held>>

\* Where thread_create() puts the stack, and the pool that is left.
StackBase(h) == IF proc[h].pool = <<>> THEN proc[h].sz ELSE Last(proc[h].pool)
PoolLeft(h) == IF proc[h].pool = <<>> THEN <<>> ELSE Front(proc[h].pool)

\* The rest of thread_create(): the stack and its guard page.  A failure
\* returns with memlock, and leaves the slot as it is.
ThreadCreate(p, q) ==
  LET h    == get_highest_master(p)
      base == StackBase(h)
      top  == base + 2 * PGSIZE
      m    == allocuvm(Memory, proc[p].pgdir, base, top)
      size == IF proc[h].sz < top THEN top ELSE proc[h].sz
      done == [proc EXCEPT ![h].sz = size, ![h].pool = PoolLeft(h),
                 ![q] = [@ EXCEPT !.state = "live", !.pgdir = proc[p].pgdir, !.base = base]]
  IN  /\ Runs /\ MayLockMem /\ Live(p) /\ proc[q].state = "embryo" /\ proc[q].master = p
      /\ base % PGSIZE = 0
      /\ \/ /\ m.ok
            /\ Set([m EXCEPT !.dirs[proc[p].pgdir].user = @ \ {PageOf(base)}])
            /\ proc' = done /\ UNCHANGED held
         \/ /\ ~m.ok /\ Set(m)
            /\ held' = held \union {"memlock"}
            /\ proc' = [proc EXCEPT ![h].pool = PoolLeft(h)]
      /\ UNCHANGED ending

\* dealloc_thread() of an ended thread, with ptable.lock, up to memlock.
\* (The slot is marked UNUSED before, but nobody can take it yet.)
DeallocThread(w) ==
  LET b == proc[w].base
  IN  /\ Runs /\ MayLockPtable /\ Live(w) /\ proc[w].master # 0
      /\ \A q \in Slots : proc[q].master # w
      /\ Set(kfree(deallocuvm(Memory, proc[w].pgdir, b + 2 * PGSIZE, b), 1))
      /\ proc' = [proc EXCEPT ![w].kstack = FALSE, ![w].state = "ended"]
      /\ ending' = w
      /\ UNCHANGED held

PoolStack_Never(main, base) == [main EXCEPT !.sz = @ - 2 * PGSIZE]

\* What becomes of the stack at base: it goes to the pool, or is cut off.
PoolStack(main, base) ==
  IF base + 2 * PGSIZE < main.sz THEN [main EXCEPT !.pool = Append(@, base)]
  ELSE [main EXCEPT !.sz = @ - 2 * PGSIZE]

\* The rest of dealloc_thread(), with memlock.
DeallocThread2 ==
  LET w == ending
      h == get_highest_master(w)
  IN  /\ Runs /\ ending # 0 /\ MayLockMem
      /\ proc' = [proc EXCEPT ![h] = PoolStack(@, proc[w].base), ![w] = NoProc]
      /\ ending' = 0
      /\ UNCHANGED <<kmem, dirs, held, vmpanic>>

\* exit() of a process whose threads have ended, and the wait() that frees it.
Wait(p) ==
  /\ Runs /\ MayLockPtable /\ Live(p) /\ proc[p].master = 0 /\ p # InitSlot
  /\ \A q \in Slots : proc[q].master # p
  /\ Set(freevm(kfree(Memory, 1), proc[p].pgdir))
  /\ proc' = [proc EXCEPT ![p] = NoProc]
  /\ UNCHANGED <<ending, held>>

\* The two stages of exec(), a program that may turn out to be bad, and the
\* user stack above it.
ExecImage(m) == allocuvm(setupkvm(m), NewDir(m), 0, ImageSize)
ExecStack(m) == allocuvm(ExecImage(m), NewDir(m), PGROUNDUP(ImageSize), PGROUNDUP(ImageSize) + 2 * PGSIZE)

\* exec() by a process with one thread and no stacks in its pool.
Exec(p) ==
  LET d    == NewDir(Memory)
      base == PGROUNDUP(ImageSize)
  IN  /\ Runs /\ Live(p) /\ proc[p].master = 0 /\ proc[p].pool = <<>>
      /\ \A q \in Slots : proc[q].master # p
      /\ \/ /\ ~setupkvm(Memory).ok
            /\ Set(setupkvm(Memory)) /\ UNCHANGED proc
         \/ /\ setupkvm(Memory).ok
            /\ Set(freevm(ExecImage(Memory), d)) /\ UNCHANGED proc
         \/ /\ setupkvm(Memory).ok /\ ExecImage(Memory).ok
            /\ Set(freevm(ExecStack(Memory), d)) /\ UNCHANGED proc
         \/ /\ setupkvm(Memory).ok /\ ExecImage(Memory).ok /\ ExecStack(Memory).ok
            /\ Set(freevm([ExecStack(Memory) EXCEPT !.dirs[d].user = @ \ {PageOf(base)}], proc[p].pgdir))
            /\ proc' = [proc EXCEPT ![p].pgdir = d, ![p].sz = base + 2 * PGSIZE]
      /\ UNCHANGED <<ending, held>>
----------------------------------------------------------------------------
\* userinit(): one process, with one page.
Boot ==
  LET m == [free |-> NPAGES - 1, dirs |-> [d \in Dirs |-> NoDir], ok |-> TRUE, panic |-> ""]
  IN  AddPages(setupkvm(m), NewDir(m), {0}, {0})

VmInit ==
  /\ kmem = Boot.free /\ dirs = Boot.dirs /\ vmpanic = ""
  /\ proc = [p \in Slots |-> IF p = InitSlot
                             THEN [NoProc EXCEPT !.state = "live", !.kstack = TRUE, !.pgdir = 1, !.sz = PGSIZE]
                             ELSE NoProc]
  /\ ending = 0 /\ held = {}

VmNext ==
  \/ \E p \in Slots : \/ \E n \in SbrkSizes : Growproc(p, n)
                      \/ Fork(p) \/ ThreadAlloc(p) \/ DeallocThread(p) \/ Wait(p) \/ Exec(p)
                      \/ \E q \in Slots : ThreadCreate(p, q)
  \/ DeallocThread2

VmSpec == VmInit /\ [][VmNext]_vmVars
----------------------------------------------------------------------------
\* The page directories in use, and how many pages each takes.
DirsInUse == {proc[p].pgdir : p \in {q \in Slots : Live(q)}}
PagesOf(d) == 2 + Cardinality(dirs[d].tab) + Cardinality(dirs[d].pte)
SumOver(ds) == FoldSet(LAMBDA d, n : n + PagesOf(d), 0, ds)

\* Every physical page has one use: on the free list, as a kernel stack, or
\* in the page directory of a live process; none is lost or freed twice,
\* whatever call runs out of memory at whatever point.
PagesOwned ==
  kmem + Cardinality({p \in Slots : proc[p].kstack}) + SumOver(DirsInUse) = NPAGES

\* The memory of a process is what its main thread says: all pages below sz
\* are mapped except the stacks in the pool, which are not, and nothing is
\* mapped above.  So thread_create() never maps over something ("remap").
LayoutExact ==
  Runs /\ held = {} =>
    \A p \in Slots : Live(p) /\ proc[p].master = 0 =>
      LET gone == {proc[p].pool[k] : k \in DOMAIN proc[p].pool}
                    \union {proc[w].base : w \in {v \in {ending} \ {0} : get_highest_master(v) = p}}
      IN  dirs[proc[p].pgdir].pte
            = Between(0, proc[p].sz) \ UNION {Between(b, b + 2 * PGSIZE) : b \in gone}

\* The stack of a live thread is its own: mapped, below the size of the
\* process, not in the pool, disjoint from every other thread's, with its
\* guard page closed to user code and the page above it open.
StacksPrivate ==
  \A p \in Slots : Live(p) /\ proc[p].master # 0 =>
    LET h    == get_highest_master(p)
        mine == Between(proc[p].base, proc[p].base + 2 * PGSIZE)
    IN  /\ mine \subseteq dirs[proc[p].pgdir].pte
        /\ mine \cap dirs[proc[p].pgdir].user = mine \ {PageOf(proc[p].base)}
        /\ proc[p].base + 2 * PGSIZE <= proc[h].sz
        /\ proc[p].base \notin Range(proc[h].pool)
        /\ \A q \in Threads(p) \ {p} : proc[q].master # 0 =>
             mine \cap Between(proc[q].base, proc[q].base + 2 * PGSIZE) = {}

\* Nothing is mapped twice and no page table is missing (the panics of
\* mappages() and copyuvm2()).
NoVmPanic == vmpanic = ""

\* The address space of a process is laid out as its main thread records it,
\* with a private stack for each thread: what thread_create(), the end of
\* threads, sbrk() and fork() have to agree on.
MemoryLaid == LayoutExact /\ StacksPrivate /\ NoVmPanic
=============================================================================
