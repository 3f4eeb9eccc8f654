----------------------------- MODULE ProcProofs -----------------------------
(***************************************************************************)
(* Proofs about Proc for any number of slots and CPUs, where nobody calls  *)
(* exec() and only main threads fork, create and join threads: every slot  *)
(* has one user, a process reaches all its threads by its list, a parent   *)
(* outlives its children or passes them on, and no wakeup is lost.         *)
(***************************************************************************)
EXTENDS Proc, TLAPS

\* The system calls that the theorems are about.
Calm == MainCalls \subseteq {"sleep"} /\ WorkerCalls \subseteq {"sleep"}

Alive == {"RUNNABLE", "RUNNING", "SLEEPING"}
Entries == [state : Alive \union {"UNUSED", "EMBRYO", "ZOMBIE"}, pid : Nat, tid : Nat,
            parent : 0..NPROC, master : 0..NPROC, next_thread : 0..NPROC,
            prev_thread : 0..NPROC, killed : BOOLEAN, chan : 0..Ticks]
Tables == [Slots -> Entries]
InLoop == {"exiting", "waiting", "joining"}
MainOnly == {"fork", "create", "create2", "join", "joining", "exiting"}
NotInit == {"create", "create2", "exit", "exiting", "exit2", "dead", "texit", "join", "joining",
            "exec", "tick", "tick2", "ticking"}
Allocating == {"fork", "create", "create2"}

\* The threads of the table pt: their masters are main threads that live, and
\* each is linked from its master or from a younger thread of it.
Threads(pt, nt) ==
  /\ \A q \in Slots : pt[q].master # 0 =>
       /\ pt[pt[q].master].master = 0 /\ pt[pt[q].master].state \in Alive
       /\ pt[q].state \in Alive \union {"ZOMBIE"} /\ pt[q].parent = 0
       /\ pt[q].tid \in 1..(nt - 1)
       /\ pt[q].prev_thread # 0 /\ pt[pt[q].prev_thread].next_thread = q
       /\ \/ pt[q].prev_thread = pt[q].master
          \/ /\ pt[pt[q].prev_thread].master = pt[q].master
             /\ pt[q].tid < pt[pt[q].prev_thread].tid
  /\ \A q \in Slots : pt[q].next_thread # 0 /\ (pt[q].master # 0 \/ pt[q].state \in Alive) =>
       /\ pt[pt[q].next_thread].prev_thread = q
       /\ pt[pt[q].next_thread].master = IF pt[q].master = 0 THEN q ELSE pt[q].master

\* A parent is a live main thread, and somebody else.
Parents(pt) ==
  \A q \in Slots : pt[q].parent # 0 => /\ pt[pt[q].parent].state \in Alive
                                       /\ pt[pt[q].parent].master = 0
                                       /\ pt[q].parent # q

\* Where the kernel threads are.
PlaceOf(p) ==
  /\ ptable[p].state \in {"UNUSED", "EMBRYO"} => /\ pc[p] \in {"user", "dead"}
                                                /\ ptable[p].master = 0 /\ ptable[p].parent = 0
  /\ ptable[p].state = "ZOMBIE" => pc[p] = "dead"
  /\ ptable[p].state \in Alive => pc[p] # "dead"
  /\ ptable[p].state = "SLEEPING" => \/ pc[p] \in InLoop /\ ptable[p].chan = p
                                     \/ pc[p] = "ticking" /\ ptable[p].chan = Ticks
  /\ ptable[p].state = "RUNNING" => pc[p] \notin InLoop \union {"ticking"}
  /\ pc[p] \in MainOnly => ptable[p].master = 0
  /\ pc[p] = "texit" => ptable[p].master # 0
  /\ pc[p] = "exit2" => \A w \in Slots : ptable[w].master # p
  /\ pc[p] = "joining" => \E w \in Slots : ptable[w].master = p /\ ptable[w].tid = arg[p]
  /\ pc[p] # "exec"

Places ==
  /\ \A p \in Slots : PlaceOf(p)
  /\ ptable[initproc].state \in Alive /\ pc[initproc] \notin NotInit
  /\ ptable[initproc].master = 0 /\ ptable[initproc].parent = 0
  /\ \A w \in Slots : ptable[w].master # initproc

\* Who fills which slot.
Embryos ==
  /\ \A q \in Slots : ptable[q].state = "EMBRYO" => \E p \in Slots : pc[p] \in Allocating /\ arg[p] = q
  /\ \A p \in Slots : pc[p] \in Allocating => arg[p] \in Slots /\ ptable[arg[p]].state = "EMBRYO"
  /\ \A p, q \in Slots : pc[p] \in Allocating /\ pc[q] \in Allocating /\ arg[p] = arg[q] => p = q

\* Nobody sleeps without somebody to wait for.
SleeperOf(p) ==
  ptable[p].state = "SLEEPING" =>
    /\ pc[p] = "waiting" => /\ ~ptable[p].killed
                            /\ \E q \in Slots : ptable[q].parent = p
                            /\ \A q \in Slots : ptable[q].parent = p => ptable[q].state # "ZOMBIE"
    /\ pc[p] = "joining" => /\ ~ptable[p].killed
                            /\ \E w \in Slots : /\ ptable[w].master = p /\ ptable[w].tid = arg[p]
                                                /\ ptable[w].state \in Alive
    /\ pc[p] = "exiting" => \E w \in Slots : ptable[w].master = p /\ ptable[w].state \in Alive

Sleepers == \A p \in Slots : SleeperOf(p)

\* A thread gives back the pid that allocproc() took for it, and no other.
Pids == nextpid >= 2 + Cardinality({p \in Slots : pc[p] = "create"})

\* What the proofs use of the theory of finite sets and of least elements.
Counts ==
  /\ Cardinality({}) = 0
  /\ \A S \in SUBSET Slots : Cardinality(S) \in Nat
  /\ \A S, T \in SUBSET Slots : S \subseteq T => Cardinality(S) <= Cardinality(T)
  /\ \A S \in SUBSET Slots, x \in Slots :
       /\ Cardinality(S \union {x}) = IF x \in S THEN Cardinality(S) ELSE Cardinality(S) + 1
       /\ Cardinality(S \ {x}) = IF x \in S THEN Cardinality(S) - 1 ELSE Cardinality(S)
  /\ \A T \in SUBSET Nat : T # {} => \E x \in T : \A y \in T : x <= y
  /\ \A n \in Nat : \A T \in SUBSET (1..n) : T # {} => \E x \in T : \A y \in T : y <= x

ProcInv == /\ TypeOK /\ OnCpu /\ Threads(ptable, nexttid) /\ Parents(ptable)
           /\ Places /\ Embryos /\ Sleepers /\ Pids
-----------------------------------------------------------------------------
\* Slots, channels and the null pointer are told apart.
LEMMA SlotFacts ==
  /\ NPROC \in Nat /\ initproc \in Slots /\ initproc # 0 /\ Ticks \notin Slots /\ Ticks # 0
  /\ 0 \notin Slots /\ \A x \in 0..NPROC : x # 0 => x \in Slots
  /\ \A x \in Slots : x # 0 /\ x # Ticks /\ x \in 0..Ticks /\ x \in 0..NPROC
BY ProcAssumption DEF Slots, initproc, Ticks

LEMMA TableTyped == TypeOK => ptable \in Tables
BY Zenon DEF TypeOK, Tables, Entries, Alive

\* Setting a field keeps an entry of the table an entry.
LEMMA EntrySet ==
  ASSUME NEW r \in Entries
  PROVE  /\ [r EXCEPT !.state = "UNUSED"] \in Entries /\ [r EXCEPT !.state = "EMBRYO"] \in Entries
         /\ [r EXCEPT !.state = "RUNNABLE"] \in Entries /\ [r EXCEPT !.state = "RUNNING"] \in Entries
         /\ [r EXCEPT !.state = "SLEEPING"] \in Entries /\ [r EXCEPT !.state = "ZOMBIE"] \in Entries
         /\ \A x \in Nat : [r EXCEPT !.pid = x] \in Entries /\ [r EXCEPT !.tid = x] \in Entries
         /\ \A x \in 0..NPROC : /\ [r EXCEPT !.parent = x] \in Entries /\ [r EXCEPT !.master = x] \in Entries
                                /\ [r EXCEPT !.next_thread = x] \in Entries
                                /\ [r EXCEPT !.prev_thread = x] \in Entries
         /\ [r EXCEPT !.killed = TRUE] \in Entries /\ [r EXCEPT !.killed = FALSE] \in Entries
         /\ \A x \in 0..Ticks : [r EXCEPT !.chan = x] \in Entries
<1>1. /\ [r EXCEPT !.state = "UNUSED"] \in Entries /\ [r EXCEPT !.state = "EMBRYO"] \in Entries
      /\ [r EXCEPT !.state = "RUNNABLE"] \in Entries /\ [r EXCEPT !.state = "RUNNING"] \in Entries
      /\ [r EXCEPT !.state = "SLEEPING"] \in Entries /\ [r EXCEPT !.state = "ZOMBIE"] \in Entries
  BY Zenon DEF Entries, Alive
<1>2. \A x \in Nat : [r EXCEPT !.pid = x] \in Entries /\ [r EXCEPT !.tid = x] \in Entries
  BY Zenon DEF Entries
<1>3. \A x \in 0..NPROC : [r EXCEPT !.parent = x] \in Entries /\ [r EXCEPT !.master = x] \in Entries
  BY Zenon DEF Entries
<1>4. \A x \in 0..NPROC : /\ [r EXCEPT !.next_thread = x] \in Entries
                          /\ [r EXCEPT !.prev_thread = x] \in Entries
  BY Zenon DEF Entries
<1>5. /\ [r EXCEPT !.killed = TRUE] \in Entries /\ [r EXCEPT !.killed = FALSE] \in Entries
      /\ \A x \in 0..Ticks : [r EXCEPT !.chan = x] \in Entries
  BY Zenon DEF Entries
<1>. QED  BY <1>1, <1>2, <1>3, <1>4, <1>5, Zenon

LEMMA EntryTyped ==
  ASSUME NEW pt \in Tables, NEW q \in Slots
  PROVE  /\ pt[q].state \in Alive \union {"UNUSED", "EMBRYO", "ZOMBIE"}
         /\ pt[q].parent \in 0..NPROC /\ pt[q].master \in 0..NPROC /\ pt[q].tid \in Nat
         /\ pt[q].next_thread \in 0..NPROC /\ pt[q].prev_thread \in 0..NPROC
         /\ pt[q].parent # 0 => pt[q].parent \in Slots
         /\ pt[q].master # 0 => pt[q].master \in Slots
         /\ pt[q].next_thread # 0 => pt[q].next_thread \in Slots
         /\ pt[q].prev_thread # 0 => pt[q].prev_thread \in Slots
         /\ pt[q].chan \in 0..Ticks /\ pt[q].killed \in BOOLEAN
BY SlotFacts, Zenon DEF Tables, Entries

\* The master of a thread is a main thread: get_highest_master() takes one step.
LEMMA HighestMaster ==
  ASSUME NEW pt \in Tables, NEW p \in Slots,
         \A q \in Slots : pt[q].master # 0 => pt[pt[q].master].master = 0
  PROVE  get_highest_master(pt, p) = IF pt[p].master = 0 THEN p ELSE pt[p].master
<1>. DEFINE Up(f) == f = [q \in Slots |-> IF pt[q].master = 0 THEN q ELSE f[pt[q].master]]
            one == [q \in Slots |-> IF pt[q].master = 0 THEN q ELSE pt[q].master]
            up == CHOOSE f : Up(f)
<1>1. \A q \in Slots : pt[q].master # 0 => pt[q].master \in Slots
  BY EntryTyped, Zenon
<1>2. \A q \in Slots : one[q] = IF pt[q].master = 0 THEN q ELSE one[pt[q].master]
  BY <1>1, Zenon
<1>3. Up(one)
  BY <1>2, Zenon
<1>4. Up(up)
  BY <1>3, Zenon
<1>5. get_highest_master(pt, p) = up[p]
  BY Zenon DEF get_highest_master
<1>. HIDE DEF up
<1>6. \A q \in Slots : up[q] = IF pt[q].master = 0 THEN q ELSE up[pt[q].master]
  BY <1>4, Zenon
<1>. QED  BY <1>1, <1>5, <1>6, Zenon

\* A main thread's list holds exactly its threads: it goes from the youngest
\* thread to the oldest and leaves none out.
LEMMA ListIsThreads ==
  ASSUME Counts, NEW pt \in Tables, NEW nt \in Nat, Threads(pt, nt),
         NEW p \in Slots, pt[p].master = 0, pt[p].state \in Alive
  PROVE  NextSet(pt, p) = {w \in Slots : pt[w].master = p}
<1>. DEFINE mine == {w \in Slots : pt[w].master = p}
<1>1. Follows(pt, p, mine)
  <2>. SUFFICES ASSUME NEW q \in mine \union {p}, pt[q].next_thread # 0
                PROVE  pt[q].next_thread \in mine
    BY Zenon DEF Follows
  <2>1. q \in Slots /\ pt[q].next_thread \in Slots
    BY EntryTyped, Zenon
  <2>2. pt[pt[q].next_thread].master = IF pt[q].master = 0 THEN q ELSE pt[q].master
    BY <2>1, SlotFacts, Zenon DEF Threads
  <2>. QED  BY <2>1, <2>2, SlotFacts, Zenon
<1>2. ASSUME NEW S \in SUBSET Slots, Follows(pt, p, S)
      PROVE  mine \subseteq S
  <2>. DEFINE T == {t \in 1..nt : \E w \in mine \ S : t = pt[w].tid}
  <2>. SUFFICES ASSUME NEW v \in mine \ S  PROVE FALSE
    OBVIOUS
  <2>1. \A w \in mine : pt[w].tid \in 1..nt
    BY SlotFacts DEF Threads
  <2>2. T \subseteq 1..nt /\ T # {}
    BY <2>1, Zenon
  <2>3. PICK t \in T : \A u \in T : u <= t
    BY <2>2, ZenonT(40) DEF Counts
  <2>4. PICK w \in mine \ S : t = pt[w].tid
    BY <2>3, Zenon
  <2>5. /\ w \in Slots /\ w # 0 /\ pt[w].prev_thread \in Slots
        /\ pt[pt[w].prev_thread].next_thread = w
        /\ \/ pt[w].prev_thread = p
           \/ pt[pt[w].prev_thread].master = p /\ pt[w].tid < pt[pt[w].prev_thread].tid
    BY SlotFacts, EntryTyped DEF Threads
  <2>6. pt[w].prev_thread \notin S \union {p}
    BY <1>2, <2>5, Zenon DEF Follows
  <2>7. pt[w].prev_thread \in mine \ S /\ pt[w].tid < pt[pt[w].prev_thread].tid
    BY <2>5, <2>6, Zenon
  <2>8. pt[pt[w].prev_thread].tid \in T
    BY <2>1, <2>7, Zenon
  <2>9. pt[pt[w].prev_thread].tid \in Nat /\ pt[w].tid \in Nat
    BY <2>5, EntryTyped, Zenon
  <2>. QED  BY <2>3, <2>4, <2>7, <2>8, <2>9
<1>. QED  BY <1>1, <1>2, Zenon DEF NextSet

\* What a step leaves alone in the table when nobody is created, ends or is
\* passed on.
Calmly(pt, new) ==
  \A q \in Slots :
    /\ new[q].tid = pt[q].tid /\ new[q].parent = pt[q].parent /\ new[q].master = pt[q].master
    /\ new[q].next_thread = pt[q].next_thread /\ new[q].prev_thread = pt[q].prev_thread
    /\ new[q].state \in Alive <=> pt[q].state \in Alive
    /\ pt[q].state \notin Alive => new[q].state = pt[q].state

\* The same, where a free slot may also be taken or given back.
Kept(pt, new) ==
  \A q \in Slots :
    /\ new[q].tid = pt[q].tid /\ new[q].parent = pt[q].parent /\ new[q].master = pt[q].master
    /\ new[q].next_thread = pt[q].next_thread /\ new[q].prev_thread = pt[q].prev_thread
    /\ new[q].state \in Alive <=> pt[q].state \in Alive
    /\ pt[q].master # 0 /\ pt[q].state \notin Alive => new[q].state = pt[q].state

LEMMA KeptTable ==
  ASSUME NEW pt \in Tables, NEW new \in Tables, NEW nt, Threads(pt, nt), Parents(pt), Kept(pt, new)
  PROVE  Threads(new, nt) /\ Parents(new)
<1>1. ASSUME NEW q \in Slots, new[q].master # 0
      PROVE  /\ new[new[q].master].master = 0 /\ new[new[q].master].state \in Alive
             /\ new[q].state \in Alive \union {"ZOMBIE"} /\ new[q].parent = 0
             /\ new[q].tid \in 1..(nt - 1)
             /\ new[q].prev_thread # 0 /\ new[new[q].prev_thread].next_thread = q
             /\ \/ new[q].prev_thread = new[q].master
                \/ /\ new[new[q].prev_thread].master = new[q].master
                   /\ new[q].tid < new[new[q].prev_thread].tid
  <2>1. pt[q].master # 0 /\ pt[q].master \in Slots
    BY <1>1, EntryTyped, Zenon DEF Kept
  <2>2. pt[q].prev_thread \in Slots
    BY <2>1, EntryTyped, Zenon DEF Threads
  <2>. QED  BY <2>1, <2>2 DEF Kept, Threads
<1>2. ASSUME NEW q \in Slots, new[q].next_thread # 0, new[q].master # 0 \/ new[q].state \in Alive
      PROVE  /\ new[new[q].next_thread].prev_thread = q
             /\ new[new[q].next_thread].master = IF new[q].master = 0 THEN q ELSE new[q].master
  <2>1. pt[q].next_thread # 0 /\ pt[q].next_thread \in Slots /\ (pt[q].master # 0 \/ pt[q].state \in Alive)
    BY <1>2, EntryTyped, Zenon DEF Kept
  <2>. QED  BY <2>1 DEF Kept, Threads
<1>3. ASSUME NEW q \in Slots, new[q].parent # 0
      PROVE  new[new[q].parent].state \in Alive /\ new[new[q].parent].master = 0 /\ new[q].parent # q
  <2>1. pt[q].parent # 0 /\ pt[q].parent \in Slots
    BY <1>3, EntryTyped, Zenon DEF Kept
  <2>. QED  BY <2>1 DEF Kept, Parents
<1>. QED  BY <1>1, <1>2, <1>3, Zenon DEF Threads, Parents

\* What freeing the threads ws leaves alone, besides their own slots and the
\* links.
Freed(pt, new, ws) ==
  \A q \in Slots :
    IF q \in ws THEN new[q].state = "UNUSED" /\ new[q].master = 0 /\ new[q].parent = 0
    ELSE /\ new[q].state = pt[q].state /\ new[q].master = pt[q].master
         /\ new[q].parent = pt[q].parent /\ new[q].tid = pt[q].tid
         /\ new[q].killed = pt[q].killed /\ new[q].chan = pt[q].chan

LEMMA CalmTable ==
  ASSUME NEW pt \in Tables, NEW new \in Tables, NEW nt, Threads(pt, nt), Parents(pt), Calmly(pt, new)
  PROVE  Threads(new, nt) /\ Parents(new)
<1>1. Kept(pt, new)
  BY Zenon DEF Calmly, Kept
<1>. QED  BY <1>1, KeptTable, Zenon

\* The fields of the table after a thread has been freed.
LEMMA FreeFields ==
  ASSUME NEW pt \in Tables, NEW w \in Slots, pt[w].master # 0
  PROVE  /\ dealloc_thread(pt, w) \in Tables
         /\ Freed(pt, dealloc_thread(pt, w), {w})
         /\ \A q \in Slots :
              /\ dealloc_thread(pt, w)[q].next_thread =
                   IF q = pt[w].prev_thread THEN pt[w].next_thread ELSE pt[q].next_thread
              /\ dealloc_thread(pt, w)[q].prev_thread =
                   IF q = pt[w].next_thread THEN pt[w].prev_thread ELSE pt[q].prev_thread
<1>. DEFINE off == Unlink(pt, w)
            new == dealloc_thread(pt, w)
<1>1. /\ off \in Tables
      /\ \A q \in Slots :
           /\ off[q].next_thread = IF q = pt[w].prev_thread THEN pt[w].next_thread ELSE pt[q].next_thread
           /\ off[q].prev_thread = IF q = pt[w].next_thread THEN pt[w].prev_thread ELSE pt[q].prev_thread
           /\ off[q].state = pt[q].state /\ off[q].master = pt[q].master
           /\ off[q].parent = pt[q].parent /\ off[q].tid = pt[q].tid
           /\ off[q].killed = pt[q].killed /\ off[q].chan = pt[q].chan
  <2>1. ASSUME NEW q \in Slots
        PROVE  \E a, b \in 0..NPROC :
                 /\ off[q] = [pt[q] EXCEPT !.next_thread = a, !.prev_thread = b]
                 /\ a = IF q = pt[w].prev_thread THEN pt[w].next_thread ELSE pt[q].next_thread
                 /\ b = IF q = pt[w].next_thread THEN pt[w].prev_thread ELSE pt[q].prev_thread
    BY EntryTyped, Zenon DEF Unlink
  <2>3. \A q \in Slots : pt[q] \in Entries
    BY Zenon DEF Tables
  <2>4. off = [q \in Slots |-> off[q]]
    BY Zenon DEF Unlink
  <2>. HIDE DEF off
  <2>5. ASSUME NEW q \in Slots
        PROVE  /\ off[q] \in Entries
               /\ off[q].next_thread = IF q = pt[w].prev_thread THEN pt[w].next_thread ELSE pt[q].next_thread
               /\ off[q].prev_thread = IF q = pt[w].next_thread THEN pt[w].prev_thread ELSE pt[q].prev_thread
               /\ off[q].state = pt[q].state /\ off[q].master = pt[q].master
               /\ off[q].parent = pt[q].parent /\ off[q].tid = pt[q].tid
               /\ off[q].killed = pt[q].killed /\ off[q].chan = pt[q].chan
    <3>1. PICK a, b \in 0..NPROC :
            /\ off[q] = [pt[q] EXCEPT !.next_thread = a, !.prev_thread = b]
            /\ a = IF q = pt[w].prev_thread THEN pt[w].next_thread ELSE pt[q].next_thread
            /\ b = IF q = pt[w].next_thread THEN pt[w].prev_thread ELSE pt[q].prev_thread
      BY <2>1, Zenon
    <3>2. /\ off[q] \in Entries /\ off[q].next_thread = a /\ off[q].prev_thread = b
          /\ off[q].state = pt[q].state /\ off[q].master = pt[q].master
          /\ off[q].parent = pt[q].parent /\ off[q].tid = pt[q].tid
          /\ off[q].killed = pt[q].killed /\ off[q].chan = pt[q].chan
      <4>1. PICK r \in Entries : r = pt[q]
        BY <2>3, Zenon
      <4>2. PICK s : s = off[q]
        BY Zenon
      <4>3. s = [r EXCEPT !.next_thread = a, !.prev_thread = b]
        BY <3>1, <4>1, <4>2, Zenon
      <4>4. /\ s \in Entries /\ s.next_thread = a /\ s.prev_thread = b
            /\ s.state = r.state /\ s.master = r.master /\ s.parent = r.parent /\ s.tid = r.tid
            /\ s.killed = r.killed /\ s.chan = r.chan
        BY <4>3, Zenon DEF Entries
      <4>. QED  BY <4>1, <4>2, <4>4, Zenon
    <3>3. /\ a = IF q = pt[w].prev_thread THEN pt[w].next_thread ELSE pt[q].next_thread
          /\ b = IF q = pt[w].next_thread THEN pt[w].prev_thread ELSE pt[q].prev_thread
      BY <3>1, Zenon
    <3>. QED  BY <3>2, <3>3, Zenon
  <2>6. off \in Tables
    BY <2>4, <2>5, Zenon DEF Tables
  <2>. QED  BY <2>5, <2>6, Zenon
<1>2. new = [off EXCEPT ![w] = [off[w] EXCEPT !.state = "UNUSED", !.pid = 0, !.tid = 0,
                                  !.parent = 0, !.master = 0, !.killed = FALSE]]
  BY Zenon DEF dealloc_thread
<1>. HIDE DEF off, new
<1>3. new \in Tables
  <2>1. 0 \in 0..NPROC /\ 0 \in Nat
    BY ProcAssumption
  <2>. DEFINE e == [off[w] EXCEPT !.state = "UNUSED", !.pid = 0, !.tid = 0,
                                  !.parent = 0, !.master = 0, !.killed = FALSE]
  <2>4. off[w] \in Entries
    BY <1>1, Zenon DEF Tables
  <2>2. e \in Entries
    BY <2>1, <2>4, EntrySet, Zenon
  <2>. HIDE DEF e
  <2>3. new = [off EXCEPT ![w] = e]
    BY <1>2, Zenon DEF e
  <2>. QED  BY <1>1, <2>2, <2>3, Zenon DEF Tables
<1>4. \A q \in Slots : q # w => new[q] = off[q]
  BY <1>1, <1>2, Zenon DEF Tables
<1>5. /\ new[w].state = "UNUSED" /\ new[w].master = 0 /\ new[w].parent = 0
      /\ new[w].next_thread = off[w].next_thread /\ new[w].prev_thread = off[w].prev_thread
  BY <1>1, <1>2 DEF Tables, Entries
<1>6. Freed(pt, new, {w})
  BY <1>1, <1>4, <1>5 DEF Freed
<1>7. \A q \in Slots : new[q].next_thread = off[q].next_thread /\ new[q].prev_thread = off[q].prev_thread
  BY <1>4, <1>5, Zenon
<1>8. \A q \in Slots :
        /\ new[q].next_thread = IF q = pt[w].prev_thread THEN pt[w].next_thread ELSE pt[q].next_thread
        /\ new[q].prev_thread = IF q = pt[w].next_thread THEN pt[w].prev_thread ELSE pt[q].prev_thread
  BY <1>1, <1>7
<1>. QED  BY <1>3, <1>6, <1>8, Zenon DEF new

\* dealloc_thread() of a zombie takes it out of its master's list, and the
\* list stays whole.
LEMMA FreeThread ==
  ASSUME NEW pt \in Tables, NEW nt \in Nat, Threads(pt, nt), Parents(pt),
         NEW w \in Slots, pt[w].master # 0, pt[w].state = "ZOMBIE"
  PROVE  Threads(dealloc_thread(pt, w), nt) /\ Parents(dealloc_thread(pt, w))
<1>. DEFINE new == dealloc_thread(pt, w)
<1>1. new \in Tables /\ Freed(pt, new, {w})
  BY FreeFields, Zenon
<1>2. \A q \in Slots :
        /\ new[q].next_thread = IF q = pt[w].prev_thread THEN pt[w].next_thread ELSE pt[q].next_thread
        /\ new[q].prev_thread = IF q = pt[w].next_thread THEN pt[w].prev_thread ELSE pt[q].prev_thread
  BY FreeFields, Zenon
<1>. HIDE DEF new
<1>3. /\ pt[w].prev_thread \in Slots /\ pt[w].prev_thread # w /\ pt[pt[w].prev_thread].next_thread = w
      /\ pt[w].master \in Slots /\ pt[w].master # w
  <2>1. pt[w].prev_thread \in Slots /\ pt[w].master \in Slots
    BY EntryTyped, Zenon DEF Threads
  <2>2. pt[w].tid \in Nat
    BY EntryTyped, Zenon
  <2>. QED  BY <2>1, <2>2 DEF Threads
<1>4. pt[w].next_thread # 0 =>
        /\ pt[w].next_thread \in Slots /\ pt[w].next_thread # w
        /\ pt[pt[w].next_thread].prev_thread = w /\ pt[pt[w].next_thread].master = pt[w].master
  BY <1>3, EntryTyped, Zenon DEF Threads
<1>5. ASSUME NEW q \in Slots, q # w, pt[q].master # 0
      PROVE  /\ new[new[q].master].master = 0 /\ new[new[q].master].state \in Alive
             /\ new[q].state \in Alive \union {"ZOMBIE"} /\ new[q].parent = 0
             /\ new[q].tid \in 1..(nt - 1)
  <2>1. pt[q].master \in Slots
    BY <1>5, EntryTyped, Zenon
  <2>2. pt[q].master # w
    BY <1>5, ZenonT(40) DEF Threads
  <2>. QED  BY <1>1, <1>5, <2>1, <2>2 DEF Threads, Freed
<1>6. ASSUME NEW q \in Slots, q # w, pt[q].master # 0
      PROVE  /\ new[q].prev_thread # 0 /\ new[new[q].prev_thread].next_thread = q
             /\ \/ new[q].prev_thread = new[q].master
                \/ /\ new[new[q].prev_thread].master = new[q].master
                   /\ new[q].tid < new[new[q].prev_thread].tid
  <2>1. pt[q].prev_thread \in Slots /\ pt[pt[q].prev_thread].next_thread = q
    BY <1>6, EntryTyped, Zenon DEF Threads
  <2>2. pt[w].tid \in Nat /\ pt[q].tid \in Nat /\ pt[pt[w].prev_thread].tid \in Nat
    BY <1>3, EntryTyped, Zenon
  <2>3. CASE q = pt[w].next_thread
    <3>1. pt[q].master = pt[w].master /\ pt[q].prev_thread = w
      BY <1>4, <1>6, <2>3, SlotFacts, Zenon
    <3>2. pt[q].tid < pt[w].tid
      BY <1>3, <1>6, <3>1, Zenon DEF Threads
    <3>3. new[q].prev_thread = pt[w].prev_thread /\ new[pt[w].prev_thread].next_thread = q
      BY <1>2, <1>3, <2>3, Zenon
    <3>4. \/ pt[w].prev_thread = pt[w].master
          \/ pt[pt[w].prev_thread].master = pt[w].master /\ pt[w].tid < pt[pt[w].prev_thread].tid
      BY Zenon DEF Threads
    <3>5. /\ new[q].master = pt[q].master /\ new[q].tid = pt[q].tid
          /\ new[pt[w].prev_thread].master = pt[pt[w].prev_thread].master
          /\ new[pt[w].prev_thread].tid = pt[pt[w].prev_thread].tid
      BY <1>1, <1>3, <1>6, Zenon DEF Freed
    <3>. QED  BY <1>3, <2>2, <3>1, <3>2, <3>3, <3>4, <3>5, SlotFacts
  <2>4. CASE q # pt[w].next_thread
    <3>1. pt[q].prev_thread # w /\ pt[q].prev_thread # pt[w].prev_thread
      BY <1>3, <1>6, <2>1, <2>4, Zenon
    <3>2. new[q].prev_thread = pt[q].prev_thread /\ new[pt[q].prev_thread].next_thread = q
      BY <1>2, <2>1, <2>4, <3>1, Zenon
    <3>3. /\ new[q].master = pt[q].master /\ new[q].tid = pt[q].tid
          /\ new[pt[q].prev_thread].master = pt[pt[q].prev_thread].master
          /\ new[pt[q].prev_thread].tid = pt[pt[q].prev_thread].tid
      BY <1>1, <1>6, <2>1, <3>1, Zenon DEF Freed
    <3>4. \/ pt[q].prev_thread = pt[q].master
          \/ pt[pt[q].prev_thread].master = pt[q].master /\ pt[q].tid < pt[pt[q].prev_thread].tid
      BY <1>6, Zenon DEF Threads
    <3>. QED  BY <2>1, <3>2, <3>3, <3>4, SlotFacts, Zenon
  <2>. QED  BY <2>3, <2>4, Zenon
<1>7. ASSUME NEW q \in Slots, q # w, new[q].next_thread # 0, pt[q].master # 0 \/ pt[q].state \in Alive
      PROVE  /\ new[new[q].next_thread].prev_thread = q
             /\ new[new[q].next_thread].master = IF pt[q].master = 0 THEN q ELSE pt[q].master
  <2>1. CASE q = pt[w].prev_thread
    <3>1. new[q].next_thread = pt[w].next_thread /\ pt[w].next_thread # 0
      BY <1>2, <1>7, <2>1, Zenon
    <3>2. new[pt[w].next_thread].prev_thread = q
      BY <1>2, <1>4, <2>1, <3>1, Zenon
    <3>3. new[pt[w].next_thread].master = pt[w].master
      BY <1>1, <1>4, <3>1, Zenon DEF Freed
    <3>4. pt[w].master = IF pt[q].master = 0 THEN q ELSE pt[q].master
      BY <2>1, <1>3, SlotFacts, Zenon DEF Threads
    <3>. QED  BY <3>1, <3>2, <3>3, <3>4, Zenon
  <2>2. CASE q # pt[w].prev_thread
    <3>1. new[q].next_thread = pt[q].next_thread /\ pt[q].next_thread # 0
      BY <1>2, <1>7, <2>2, Zenon
    <3>2. /\ pt[q].next_thread \in Slots /\ pt[pt[q].next_thread].prev_thread = q
          /\ pt[pt[q].next_thread].master = IF pt[q].master = 0 THEN q ELSE pt[q].master
      BY <1>7, <3>1, EntryTyped, Zenon DEF Threads
    <3>3. pt[q].next_thread # w /\ pt[q].next_thread # pt[w].next_thread
      BY <1>4, <1>7, <2>2, <3>1, <3>2, Zenon
    <3>4. new[pt[q].next_thread].prev_thread = q
      BY <1>2, <3>2, <3>3, Zenon
    <3>5. new[pt[q].next_thread].master = pt[pt[q].next_thread].master
      BY <1>1, <3>2, <3>3, Zenon DEF Freed
    <3>. QED  BY <3>1, <3>2, <3>4, <3>5, Zenon
  <2>. QED  BY <2>1, <2>2, Zenon
<1>8. /\ new[w].master = 0 /\ new[w].state = "UNUSED" /\ new[w].parent = 0
      /\ \A q \in Slots : q # w => /\ new[q].master = pt[q].master /\ new[q].state = pt[q].state
                                   /\ new[q].parent = pt[q].parent
  BY <1>1, Zenon DEF Freed
<1>9. Parents(new)
  <2>. SUFFICES ASSUME NEW q \in Slots, new[q].parent # 0
                PROVE  new[new[q].parent].state \in Alive /\ new[new[q].parent].master = 0 /\ new[q].parent # q
    BY Zenon DEF Parents
  <2>1. q # w /\ pt[q].parent # 0 /\ new[q].parent = pt[q].parent
    BY <1>8, Zenon
  <2>2. /\ pt[q].parent \in Slots /\ pt[pt[q].parent].master = 0 /\ pt[pt[q].parent].state \in Alive
        /\ pt[q].parent # q
    BY <2>1, EntryTyped, Zenon DEF Parents
  <2>. QED  BY <1>8, <2>1, <2>2, Zenon
<1>10. Threads(new, nt)
  <2>1. ASSUME NEW q \in Slots, new[q].master # 0
        PROVE  q # w /\ pt[q].master # 0
    BY <1>8, <2>1, Zenon
  <2>2. ASSUME NEW q \in Slots, new[q].master # 0 \/ new[q].state \in Alive
        PROVE  q # w /\ (pt[q].master # 0 \/ pt[q].state \in Alive) /\ new[q].master = pt[q].master
    BY <1>8, <2>2, Zenon DEF Alive
  <2>3. ASSUME NEW q \in Slots, new[q].next_thread # 0, new[q].master # 0 \/ new[q].state \in Alive
        PROVE  /\ new[new[q].next_thread].prev_thread = q
               /\ new[new[q].next_thread].master = IF new[q].master = 0 THEN q ELSE new[q].master
    BY <1>7, <2>2, <2>3, Zenon
  <2>. QED  BY <1>5, <1>6, <2>1, <2>3, ZenonT(40) DEF Threads
<1>. QED  BY <1>9, <1>10, Zenon DEF new

\* The loop that frees the threads ws is defined by recursion over the slots.
LEMMA FreeingDefined ==
  ASSUME Counts, NEW pt, NEW ws
  PROVE  \E g : /\ g[0] = pt
                /\ \A i \in Slots : g[i] = IF i \in ws THEN dealloc_thread(g[i - 1], i) ELSE g[i - 1]
                /\ DeallocAll(pt, ws) = g[NPROC]
<1>. DEFINE One(t, i) == IF i \in ws THEN dealloc_thread(t, i) ELSE t
            Loop(n, g) == g = [i \in 0..n |-> IF i = 0 THEN pt ELSE One(g[i - 1], i)]
            T == {n \in Nat : ~\E g : Loop(n, g)}
<1>. HIDE DEF One
<1>1. T = {}
  <2>. SUFFICES ASSUME T # {}  PROVE FALSE
    OBVIOUS
  <2>1. PICK n \in T : \A m \in T : n <= m
    <3>1. T \subseteq Nat
      OBVIOUS
    <3>. HIDE DEF T
    <3>. QED  BY <3>1, Zenon DEF Counts
  <2>2. n # 0
    <3>1. PICK g : g = [i \in 0..0 |-> pt]
      BY Zenon
    <3>2. \A i \in 0..0 : i = 0
      OBVIOUS
    <3>3. Loop(0, g)
      BY <3>1, <3>2, Zenon
    <3>. QED  BY <3>3, Zenon
  <2>3. n \in Nat /\ n - 1 \in Nat /\ n - 1 \notin T
    <3>1. n \in Nat
      OBVIOUS
    <3>. HIDE DEF T
    <3>. QED  BY <2>1, <2>2, <3>1
  <2>4. PICK g : Loop(n - 1, g)
    BY <2>3, Zenon
  <2>5. PICK h : h = [i \in 0..n |-> IF i = n THEN One(g[n - 1], n) ELSE g[i]]
    BY Zenon
  <2>6. \A i \in 0..n : h[i] = IF i = 0 THEN pt ELSE One(h[i - 1], i)
    <3>. SUFFICES ASSUME NEW i \in 0..n
                  PROVE  h[i] = IF i = 0 THEN pt ELSE One(h[i - 1], i)
      OBVIOUS
    <3>1. CASE i = n
      BY <2>2, <2>3, <2>5, <3>1
    <3>2. CASE i # n /\ i = 0
      BY <2>3, <2>4, <2>5, <3>2
    <3>3. CASE i # n /\ i # 0
      <4>1. i \in 0..(n - 1) /\ i - 1 \in 0..n /\ i - 1 # n
        BY <2>3, <3>3
      <4>2. g[i] = One(g[i - 1], i)
        BY <2>4, <3>3, <4>1, Zenon
      <4>. QED  BY <2>5, <3>3, <4>1, <4>2, Zenon
    <3>. QED  BY <3>1, <3>2, <3>3, Zenon
  <2>7. Loop(n, h)
    <3>1. h = [i \in 0..n |-> h[i]]
      BY <2>5, Zenon
    <3>. QED  BY <2>6, <3>1, Zenon
  <2>. QED  BY <2>7, Zenon
<1>2. \E g : Loop(NPROC, g)
  BY <1>1, ProcAssumption, Zenon
<1>. DEFINE G == CHOOSE g : Loop(NPROC, g)
<1>3. Loop(NPROC, G)
  BY <1>2, Zenon
<1>4. DeallocAll(pt, ws) = G[NPROC]
  BY Zenon DEF DeallocAll, One
<1>. HIDE DEF G
<1>5. \A i \in 0..NPROC : G[i] = IF i = 0 THEN pt ELSE One(G[i - 1], i)
  BY <1>3, Zenon
<1>6. G[0] = pt /\ \A i \in Slots : G[i] = One(G[i - 1], i)
  BY <1>5, ProcAssumption DEF Slots
<1>. QED  BY <1>4, <1>6, Zenon DEF One

\* Freeing several zombies keeps every list whole.
LEMMA FreeThreads ==
  ASSUME Counts, NEW pt \in Tables, NEW nt \in Nat, Threads(pt, nt), Parents(pt),
         NEW ws \in SUBSET Slots, \A w \in ws : pt[w].master # 0 /\ pt[w].state = "ZOMBIE"
  PROVE  /\ DeallocAll(pt, ws) \in Tables /\ Threads(DeallocAll(pt, ws), nt)
         /\ Parents(DeallocAll(pt, ws)) /\ Freed(pt, DeallocAll(pt, ws), ws)
<1>1. PICK g : /\ g[0] = pt
               /\ \A i \in Slots : g[i] = IF i \in ws THEN dealloc_thread(g[i - 1], i) ELSE g[i - 1]
               /\ DeallocAll(pt, ws) = g[NPROC]
  BY FreeingDefined
<1>. DEFINE upto(i) == {w \in ws : w <= i}
            Right(i) == g[i] \in Tables /\ Threads(g[i], nt) /\ Parents(g[i]) /\ Freed(pt, g[i], upto(i))
            T == {i \in 0..NPROC : ~Right(i)}
<1>2. T = {}
  <2>. SUFFICES ASSUME T # {}  PROVE FALSE
    BY Zenon
  <2>1. PICK i \in T : \A j \in T : i <= j
    <3>1. T \subseteq Nat
      OBVIOUS
    <3>. HIDE DEF T
    <3>. QED  BY <3>1, Zenon DEF Counts
  <2>2. Right(0)
    <3>1. \A q \in Slots : q \notin upto(0)
      BY ProcAssumption DEF Slots
    <3>2. Freed(pt, pt, upto(0))
      BY <3>1, Zenon DEF Freed
    <3>. QED  BY <1>1, <3>2, Zenon
  <2>3. i \in Slots /\ i - 1 \in 0..NPROC /\ ~Right(i)
    <3>1. i \in 0..NPROC /\ ~Right(i)
      OBVIOUS
    <3>. HIDE DEF Right
    <3>2. i # 0
      BY <2>2, <3>1, Zenon
    <3>. QED  BY <3>1, <3>2, ProcAssumption DEF Slots
  <2>4. Right(i - 1)
    <3>. HIDE DEF Right
    <3>1. i - 1 \notin T
      <4>. HIDE DEF T
      <4>. QED  BY <2>1, <2>3 DEF Slots
    <3>. QED  BY <2>3, <3>1, Zenon
  <2>. DEFINE t == g[i - 1]
  <2>5. t \in Tables /\ Threads(t, nt) /\ Parents(t) /\ Freed(pt, t, upto(i - 1))
    BY <2>4, Zenon
  <2>. HIDE DEF t
  <2>6. CASE i \in ws
    <3>1. t[i].master # 0 /\ t[i].state = "ZOMBIE"
      <4>1. i \notin upto(i - 1)
        BY <2>3 DEF Slots
      <4>. QED  BY <2>3, <2>5, <2>6, <4>1, Zenon DEF Freed
    <3>2. g[i] = dealloc_thread(t, i)
      BY <1>1, <2>3, <2>6, Zenon DEF t
    <3>3. g[i] \in Tables /\ Freed(t, g[i], {i})
      BY <2>3, <2>5, <3>1, <3>2, FreeFields
    <3>4. Threads(g[i], nt) /\ Parents(g[i])
      BY <2>3, <2>5, <3>1, <3>2, FreeThread, Zenon
    <3>5. \A q \in Slots : q \in upto(i) <=> q \in upto(i - 1) \/ q = i
      BY <2>3, <2>6 DEF Slots
    <3>6. Freed(pt, g[i], upto(i))
      <4>. HIDE DEF upto
      <4>. QED  BY <2>5, <3>3, <3>5 DEF Freed
    <3>. QED  BY <2>3, <3>3, <3>4, <3>6, Zenon
  <2>7. CASE i \notin ws
    <3>1. g[i] = t
      BY <1>1, <2>3, <2>7, Zenon DEF t
    <3>2. upto(i) = upto(i - 1)
      <4>1. \A w \in ws : w <= i <=> w <= i - 1
        BY <2>3, <2>7 DEF Slots
      <4>. QED  BY <4>1, Zenon
    <3>. QED  BY <2>3, <2>5, <3>1, <3>2, Zenon
  <2>. QED  BY <2>6, <2>7, Zenon
<1>3. Right(NPROC)
  <2>. HIDE DEF Right
  <2>. QED  BY <1>2, ProcAssumption
<1>4. upto(NPROC) = ws
  <2>1. \A w \in ws : w <= NPROC
    BY DEF Slots
  <2>. QED  BY <2>1, Zenon
<1>. QED  BY <1>1, <1>3, <1>4, Zenon
-----------------------------------------------------------------------------
Labels == {"user", "fork", "create", "create2", "exit", "exiting", "exit2", "dead", "wait", "waiting",
           "texit", "join", "joining", "exec", "tick", "tick2", "ticking"}

\* The type invariant after a step, from the parts of the state.
LEMMA TypeStep ==
  ASSUME ptable' \in Tables, nextpid' \in Nat \ {0}, nexttid' \in Nat \ {0},
         cpu' \subseteq Slots, Cardinality(cpu') <= NCPU,
         pc' \in [Slots -> Labels], arg' \in [Slots -> Nat]
  PROVE  TypeOK'
BY Zenon DEF TypeOK, Tables, Entries, Alive, Labels

\* How p takes or leaves a CPU, or stays where it is.
CpuMove(p) ==
  \/ cpu' = cpu /\ (ptable'[p].state = "RUNNING" <=> ptable[p].state = "RUNNING")
  \/ cpu' = cpu \union {p} /\ (p \in cpu \/ Ready(p)) /\ ptable'[p].state = "RUNNING"
  \/ cpu' = cpu \ {p} /\ ptable'[p].state # "RUNNING"

LEMMA CpuStep ==
  ASSUME Counts, TypeOK, OnCpu, NEW p \in Slots, CpuMove(p),
         \A q \in Slots \ {p} : ptable'[q].state = "RUNNING" <=> ptable[q].state = "RUNNING"
  PROVE  OnCpu' /\ cpu' \subseteq Slots /\ Cardinality(cpu') <= NCPU
<1>1. OnCpu' /\ cpu' \subseteq Slots
  BY Zenon DEF TypeOK, OnCpu, CpuMove
<1>3. cpu \in SUBSET Slots
  BY Zenon DEF TypeOK
<1>4. Cardinality(cpu) \in Nat /\ Cardinality(cpu) <= NCPU
  BY <1>3, Zenon DEF Counts, TypeOK
<1>5. CASE cpu' = cpu
  BY <1>1, <1>4, <1>5, Zenon
<1>6. CASE cpu' = cpu \union {p} /\ Cardinality(cpu) < NCPU
  <2>1. Cardinality(cpu \union {p}) = IF p \in cpu THEN Cardinality(cpu) ELSE Cardinality(cpu) + 1
    BY <1>3, Zenon DEF Counts
  <2>. QED  BY <1>1, <1>4, <1>6, <2>1, ProcAssumption
<1>7. CASE cpu' = cpu \ {p}
  <2>1. Cardinality(cpu \ {p}) = IF p \in cpu THEN Cardinality(cpu) - 1 ELSE Cardinality(cpu)
    BY <1>3, Zenon DEF Counts
  <2>. QED  BY <1>1, <1>4, <1>7, <2>1, ProcAssumption
<1>8. cpu' = cpu \/ (cpu' = cpu \union {p} /\ Cardinality(cpu) < NCPU) \/ cpu' = cpu \ {p}
  BY Zenon DEF CpuMove, Ready
<1>. QED  BY <1>1, <1>5, <1>6, <1>7, <1>8, Zenon

\* Nobody starts to create a thread.
LEMMA PidsStep ==
  ASSUME Counts, Pids, nextpid \in Nat, nextpid' = nextpid, \A q \in Slots : pc'[q] = "create" => pc[q] = "create"
  PROVE  Pids' /\ nextpid' \in Nat \ {0}
<1>. DEFINE old == {q \in Slots : pc[q] = "create"}
            new == {q \in Slots : pc'[q] = "create"}
<1>1. new \in SUBSET Slots /\ old \in SUBSET Slots
  BY Zenon
<1>2. new \subseteq old
  BY Zenon
<1>4. Cardinality(new) <= Cardinality(old)
  BY <1>1, <1>2, Zenon DEF Counts
<1>5. Cardinality(new) \in Nat /\ Cardinality(old) \in Nat
  BY <1>1, Zenon DEF Counts
<1>6. nextpid >= 2 + Cardinality(old)
  BY Zenon DEF Pids
<1>7. Pids' <=> nextpid' >= 2 + Cardinality(new)
  BY Zenon DEF Pids
<1>. HIDE DEF old, new
<1>. QED  BY <1>4, <1>5, <1>6, <1>7

\* What a step of somebody else may do to q: wake it.
Undisturbed(q) ==
  /\ arg'[q] = arg[q] /\ ptable'[q].chan = ptable[q].chan
  /\ \/ ptable'[q].state = ptable[q].state
     \/ ptable[q].state = "SLEEPING" /\ ptable'[q].state = "RUNNABLE"
  /\ ptable'[q].state = "SLEEPING" /\ pc[q] # "ticking" => ptable'[q].killed = ptable[q].killed

LEMMA StaysPlaced ==
  ASSUME Calmly(ptable, ptable'), NEW q \in Slots, Undisturbed(q), pc'[q] = pc[q], PlaceOf(q), SleeperOf(q)
  PROVE  PlaceOf(q)' /\ SleeperOf(q)'
<1>1. PlaceOf(q)'
  <2>1. /\ \/ ptable'[q].state = ptable[q].state
           \/ ptable[q].state = "SLEEPING" /\ ptable'[q].state = "RUNNABLE"
        /\ ptable'[q].master = ptable[q].master /\ ptable'[q].parent = ptable[q].parent
        /\ ptable'[q].chan = ptable[q].chan
    BY Zenon DEF Calmly, Undisturbed
  <2>2. (\A w \in Slots : ptable[w].master # q) => \A w \in Slots : ptable'[w].master # q
    BY Zenon DEF Calmly
  <2>3. (\E w \in Slots : ptable[w].master = q /\ ptable[w].tid = arg[q])
          => \E w \in Slots : ptable'[w].master = q /\ ptable'[w].tid = arg'[q]
    BY Zenon DEF Calmly, Undisturbed
  <2>. QED  BY <2>1, <2>2, <2>3, Zenon DEF PlaceOf, Alive
<1>2. SleeperOf(q)'
  <2>. SUFFICES ASSUME ptable'[q].state = "SLEEPING"  PROVE SleeperOf(q)'
    BY Zenon DEF SleeperOf
  <2>1. ptable[q].state = "SLEEPING" /\ (pc[q] # "ticking" => ptable'[q].killed = ptable[q].killed)
    BY Zenon DEF Undisturbed
  <2>2. \A w \in Slots : /\ ptable'[w].state = "ZOMBIE" => ptable[w].state = "ZOMBIE"
                         /\ ptable'[w].state \in Alive <=> ptable[w].state \in Alive
                         /\ ptable'[w].parent = ptable[w].parent /\ ptable'[w].master = ptable[w].master
                         /\ ptable'[w].tid = ptable[w].tid
    BY Zenon DEF Calmly, Alive
  <2>3. arg'[q] = arg[q]
    BY Zenon DEF Undisturbed
  <2>. QED  BY <2>1, <2>2, <2>3 DEF SleeperOf
<1>. QED  BY <1>1, <1>2, Zenon

\* A step of p that ends nobody, creates nobody and passes nobody on keeps
\* the invariant when p itself ends up where it may be.
LEMMA CalmStep ==
  ASSUME Counts, ProcInv, NEW p \in Slots, NEW l \in Labels,
         ptable' \in Tables, Calmly(ptable, ptable'), nextpid' = nextpid, nexttid' = nexttid,
         pc' = [pc EXCEPT ![p] = l], arg' \in [Slots -> Nat],
         \/ l = pc[p] /\ arg' = arg
         \/ l \notin Allocating /\ pc[p] \notin Allocating,
         \A q \in Slots \ {p} : Undisturbed(q),
         PlaceOf(p)', SleeperOf(p)', p = initproc => l \notin NotInit, CpuMove(p)
  PROVE  ProcInv'
<1>1. Threads(ptable', nexttid') /\ Parents(ptable')
  BY TableTyped, CalmTable, Zenon DEF ProcInv
<1>2. pc \in [Slots -> Labels]
  BY Zenon DEF ProcInv, TypeOK, Labels
<1>3. pc' \in [Slots -> Labels] /\ pc'[p] = l /\ \A q \in Slots \ {p} : pc'[q] = pc[q]
  BY <1>2, Zenon
<1>4. \A q \in Slots : PlaceOf(q)' /\ SleeperOf(q)'
  <2>1. \A q \in Slots : PlaceOf(q) /\ SleeperOf(q)
    BY Zenon DEF ProcInv, Places, Sleepers
  <2>2. \A q \in Slots \ {p} : PlaceOf(q)' /\ SleeperOf(q)'
    BY <1>3, <2>1, StaysPlaced, Zenon
  <2>. QED  BY <2>2, Zenon
<1>5. Places'
  <2>1. /\ ptable[initproc].state \in Alive /\ pc[initproc] \notin NotInit
        /\ ptable[initproc].master = 0 /\ ptable[initproc].parent = 0
        /\ \A w \in Slots : ptable[w].master # initproc
    BY Zenon DEF ProcInv, Places
  <2>2. ptable'[initproc].state \in Alive /\ ptable'[initproc].master = 0 /\ ptable'[initproc].parent = 0
    BY <2>1, SlotFacts, Zenon DEF Calmly
  <2>3. pc'[initproc] \notin NotInit
    BY <1>3, <2>1, SlotFacts, Zenon
  <2>4. \A w \in Slots : ptable'[w].master # initproc
    BY <2>1, Zenon DEF Calmly
  <2>. QED  BY <1>4, <2>2, <2>3, <2>4, Zenon DEF Places
<1>6. Embryos'
  <2>1. \A q \in Slots : ptable'[q].state = "EMBRYO" <=> ptable[q].state = "EMBRYO"
    BY Zenon DEF Calmly, Alive
  <2>2. \A q \in Slots : /\ pc'[q] \in Allocating <=> pc[q] \in Allocating
                         /\ pc'[q] \in Allocating => arg'[q] = arg[q]
    BY <1>3, Zenon DEF Undisturbed
  <2>. QED  BY <2>1, <2>2 DEF ProcInv, Embryos
<1>7. OnCpu' /\ cpu' \subseteq Slots /\ Cardinality(cpu') <= NCPU
  <2>1. \A q \in Slots \ {p} : ptable'[q].state = "RUNNING" <=> ptable[q].state = "RUNNING"
    BY Zenon DEF Undisturbed
  <2>. QED  BY <2>1, CpuStep, Zenon DEF ProcInv
<1>8. Pids' /\ nextpid' \in Nat \ {0}
  <2>1. \A q \in Slots : pc'[q] = "create" => pc[q] = "create"
    BY <1>3, Zenon DEF Allocating
  <2>2. nextpid \in Nat
    BY Zenon DEF ProcInv, TypeOK
  <2>. QED  BY <2>1, <2>2, PidsStep, Zenon DEF ProcInv
<1>9. TypeOK'
  <2>1. nexttid' \in Nat \ {0}
    BY Zenon DEF ProcInv, TypeOK
  <2>. QED  BY <1>3, <1>7, <1>8, <2>1, TypeStep, Zenon
<1>. QED  BY <1>1, <1>4, <1>5, <1>6, <1>7, <1>8, <1>9, Zenon DEF ProcInv, Sleepers

\* A running process goes from one place in the kernel to another.
LEMMA GoStep ==
  ASSUME Counts, ProcInv, NEW p \in Slots, NEW l \in Labels, p \in cpu, pc[p] \notin Allocating,
         UNCHANGED <<ptable, nextpid, nexttid, cpu>>, Goto(p, l),
         arg' \in [Slots -> Nat], \A q \in Slots \ {p} : arg'[q] = arg[q],
         l \notin Allocating \union InLoop \union {"ticking", "dead", "exec", "exit2"},
         l \in MainOnly => ptable[p].master = 0, l = "texit" => ptable[p].master # 0,
         p = initproc => l \notin NotInit
  PROVE  ProcInv'
<1>1. ptable[p].state = "RUNNING" /\ PlaceOf(p)
  BY Zenon DEF ProcInv, OnCpu, Places
<1>2. ptable' \in Tables
  BY TableTyped, Zenon DEF ProcInv
<1>3. Calmly(ptable, ptable') /\ CpuMove(p) /\ \A q \in Slots \ {p} : Undisturbed(q)
  BY Zenon DEF Calmly, CpuMove, Undisturbed
<1>4. pc' = [pc EXCEPT ![p] = l] /\ pc'[p] = l
  BY Zenon DEF Goto, ProcInv, TypeOK
<1>5. PlaceOf(p)'
  BY <1>1, <1>4, Zenon DEF PlaceOf, Alive, InLoop
<1>6. SleeperOf(p)'
  BY <1>1, Zenon DEF SleeperOf
<1>. QED  BY <1>2, <1>3, <1>4, <1>5, <1>6, CalmStep, Zenon

\* A process that is told to be killed is woken.
LEMMA TellStep ==
  ASSUME Counts, ProcInv, NEW p \in Slots, p \in cpu, NEW h \in Slots,
         ptable' = [ptable EXCEPT ![h] = Terminate(@)] \/ ptable' = [ptable EXCEPT ![p].killed = TRUE],
         UNCHANGED <<nextpid, nexttid, cpu, pc, arg>>
  PROVE  ProcInv'
<1>1. ptable[p].state = "RUNNING" /\ PlaceOf(p)
  BY Zenon DEF ProcInv, OnCpu, Places
<1>2. ptable \in Tables
  BY TableTyped, Zenon DEF ProcInv
<1>3. ASSUME ptable' = [ptable EXCEPT ![h] = Terminate(@)]
      PROVE  ptable' \in Tables /\ Calmly(ptable, ptable') /\ \A q \in Slots : Undisturbed(q)
  <2>. DEFINE r == Terminate(ptable[h])
  <2>1. /\ r \in Entries /\ r.killed = TRUE /\ r.chan = ptable[h].chan
        /\ r.state = IF ptable[h].state = "SLEEPING" THEN "RUNNABLE" ELSE ptable[h].state
        /\ r.tid = ptable[h].tid /\ r.parent = ptable[h].parent /\ r.master = ptable[h].master
        /\ r.next_thread = ptable[h].next_thread /\ r.prev_thread = ptable[h].prev_thread
    BY <1>2, ZenonT(40) DEF Terminate, Rouse, Tables, Entries, Alive
  <2>. HIDE DEF r
  <2>2. ptable' = [ptable EXCEPT ![h] = r]
    BY <1>3, Zenon DEF r
  <2>3. ptable' \in Tables /\ ptable'[h] = r /\ \A q \in Slots \ {h} : ptable'[q] = ptable[q]
    BY <1>2, <2>1, <2>2, Zenon DEF Tables
  <2>4. Calmly(ptable, ptable')
    BY <2>1, <2>3, Zenon DEF Calmly, Alive
  <2>5. \A q \in Slots : Undisturbed(q)
    BY <2>1, <2>3, ZenonT(40) DEF Undisturbed
  <2>. QED  BY <2>3, <2>4, <2>5, Zenon
<1>4. ASSUME ptable' = [ptable EXCEPT ![p].killed = TRUE]
      PROVE  ptable' \in Tables /\ Calmly(ptable, ptable') /\ \A q \in Slots : Undisturbed(q)
  <2>1. ptable' \in Tables /\ \A q \in Slots \ {p} : ptable'[q] = ptable[q]
    BY <1>2, <1>4, ZenonT(40) DEF Tables, Entries
  <2>2. /\ ptable'[p].state = ptable[p].state /\ ptable'[p].chan = ptable[p].chan
        /\ ptable'[p].tid = ptable[p].tid /\ ptable'[p].parent = ptable[p].parent
        /\ ptable'[p].master = ptable[p].master
        /\ ptable'[p].next_thread = ptable[p].next_thread /\ ptable'[p].prev_thread = ptable[p].prev_thread
    BY <1>2, <1>4, Zenon DEF Tables, Entries
  <2>3. Calmly(ptable, ptable')
    BY <2>1, <2>2, Zenon DEF Calmly
  <2>4. \A q \in Slots : Undisturbed(q)
    BY <1>1, <2>1, <2>2, Zenon DEF Undisturbed
  <2>. QED  BY <2>1, <2>3, <2>4, Zenon
<1>5. ptable' \in Tables /\ Calmly(ptable, ptable') /\ \A q \in Slots : Undisturbed(q)
  BY <1>3, <1>4, Zenon
<1>6. PlaceOf(p)' /\ SleeperOf(p)'
  <2>1. PlaceOf(p) /\ SleeperOf(p)
    BY Zenon DEF ProcInv, Places, Sleepers
  <2>. QED  BY <1>5, <2>1, StaysPlaced, Zenon
<1>7. CpuMove(p)
  BY <1>1, <1>5, Zenon DEF CpuMove, Undisturbed
<1>8. pc[p] \in Labels /\ pc' = [pc EXCEPT ![p] = pc[p]]
  BY Zenon DEF ProcInv, TypeOK, Labels
<1>9. arg' \in [Slots -> Nat] /\ (p = initproc => pc[p] \notin NotInit)
  BY Zenon DEF ProcInv, TypeOK, Places
<1>. QED  BY <1>5, <1>6, <1>7, <1>8, <1>9, CalmStep, Zenon

\* Setting p's state and channel while it lives.
SetTo(pt, p, s, c) == [pt EXCEPT ![p].state = s, ![p].chan = c]
Moved(pt, new, p, s, c) ==
  /\ new \in Tables /\ Calmly(pt, new) /\ \A q \in Slots \ {p} : new[q] = pt[q]
  /\ new[p].state = s /\ new[p].chan = c /\ new[p].killed = pt[p].killed

LEMMA SetState ==
  ASSUME NEW pt \in Tables, NEW p \in Slots, pt[p].state \in Alive, NEW s \in Alive, NEW c \in 0..Ticks,
         NEW new, new = SetTo(pt, p, s, c)
  PROVE  Moved(pt, new, p, s, c)
<1>. DEFINE e == [[pt[p] EXCEPT !.state = s] EXCEPT !.chan = c]
<1>1. e \in Entries
  <2>1. pt[p] \in Entries
    BY Zenon DEF Tables
  <2>2. [pt[p] EXCEPT !.state = s] \in Entries
    BY <2>1, EntrySet, Zenon DEF Alive
  <2>. QED  BY <2>2, EntrySet, Zenon
<1>2. /\ e.state = s /\ e.chan = c /\ e.killed = pt[p].killed
      /\ e.tid = pt[p].tid /\ e.parent = pt[p].parent /\ e.master = pt[p].master
      /\ e.next_thread = pt[p].next_thread /\ e.prev_thread = pt[p].prev_thread
  BY Zenon DEF Tables, Entries
<1>3. new = [pt EXCEPT ![p] = e]
  BY Zenon DEF Tables, SetTo
<1>. HIDE DEF e
<1>4. new \in Tables /\ new[p] = e /\ \A q \in Slots \ {p} : new[q] = pt[q]
  BY <1>1, <1>3, Zenon DEF Tables
<1>5. Calmly(pt, new)
  BY <1>2, <1>4, Zenon DEF Calmly
<1>. QED  BY <1>2, <1>4, <1>5, Zenon DEF Moved

LEMMA CalmTwice ==
  ASSUME NEW a, NEW b, NEW c, Calmly(a, b), Calmly(b, c)
  PROVE  Calmly(a, c)
BY DEF Calmly

\* A process that comes back into its loop is running.
LEMMA BackFields ==
  ASSUME ProcInv, NEW p \in Slots, NEW first \in Labels \ Resumed, NEW again \in Resumed, Turn(p, first, again)
  PROVE  /\ Back(p) \in Tables /\ Calmly(ptable, Back(p)) /\ \A q \in Slots \ {p} : Back(p)[q] = ptable[q]
         /\ Back(p)[p].state = "RUNNING" /\ Back(p)[p].killed = ptable[p].killed
         /\ p \in cpu \/ Ready(p)
         /\ ptable[p].state \in Alive /\ pc[p] \in {first, again}
<1>1. ptable \in Tables
  BY TableTyped, Zenon DEF ProcInv
<1>2. p \in cpu => ptable[p].state = "RUNNING"
  BY Zenon DEF ProcInv, OnCpu
<1>3. CASE p \in cpu /\ pc[p] = first
  <2>1. Back(p) = ptable
    BY <1>3, Zenon DEF Back
  <2>. QED  BY <1>1, <1>2, <1>3, <2>1, Zenon DEF Calmly, Alive
<1>4. CASE Ready(p) /\ pc[p] = again
  <2>1. Back(p) = SetTo(ptable, p, "RUNNING", 0)
    BY <1>4, Zenon DEF Back, SetTo
  <2>2. ptable[p].state = "RUNNABLE" /\ ptable[p].state \in Alive /\ "RUNNING" \in Alive /\ 0 \in 0..Ticks
    BY <1>4, ProcAssumption DEF Ready, Alive, Ticks
  <2>3. /\ Back(p) \in Tables /\ Calmly(ptable, Back(p)) /\ \A q \in Slots \ {p} : Back(p)[q] = ptable[q]
        /\ Back(p)[p].state = "RUNNING" /\ Back(p)[p].killed = ptable[p].killed
    <3>1. Moved(ptable, Back(p), p, "RUNNING", 0)
      BY <1>1, <2>1, <2>2, SetState, Zenon
    <3>. QED  BY <3>1, Zenon DEF Moved
  <2>. QED  BY <1>4, <2>2, <2>3, Zenon
<1>. QED  BY <1>3, <1>4, Zenon DEF Turn, Runs

\* p changes nothing but its own state and channel.
LEMMA OwnStep ==
  ASSUME Counts, ProcInv, NEW p \in Slots, NEW l \in Labels,
         ptable' \in Tables, Calmly(ptable, ptable'), \A q \in Slots \ {p} : ptable'[q] = ptable[q],
         nextpid' = nextpid, nexttid' = nexttid, Goto(p, l), CpuMove(p),
         \/ l = pc[p] /\ arg' = arg
         \/ l \notin Allocating /\ pc[p] \notin Allocating /\ (arg' = arg \/ arg' = [arg EXCEPT ![p] = 0]),
         PlaceOf(p)', SleeperOf(p)', p = initproc => l \notin NotInit
  PROVE  ProcInv'
<1>1. pc' = [pc EXCEPT ![p] = l]
  BY Zenon DEF Goto
<1>2. arg' \in [Slots -> Nat] /\ \A q \in Slots \ {p} : arg'[q] = arg[q]
  BY DEF ProcInv, TypeOK
<1>3. \A q \in Slots \ {p} : Undisturbed(q)
  BY <1>2, Zenon DEF Undisturbed
<1>. QED  BY <1>1, <1>2, <1>3, CalmStep, Zenon
-----------------------------------------------------------------------------
LEMMA RunStep ==
  ASSUME Counts, ProcInv, NEW p \in Slots, Run(p)
  PROVE  ProcInv'
<1>. DEFINE l == IF pc[p] = "ticking" THEN "tick" ELSE pc[p]
            c == IF pc[p] = "ticking" THEN 0 ELSE ptable[p].chan
<1>1. ptable \in Tables /\ PlaceOf(p) /\ ptable[p].state = "RUNNABLE" /\ ptable[p].state \in Alive
  BY TableTyped, Zenon DEF ProcInv, Places, Run, Ready, Alive
<1>2. c \in 0..Ticks
  BY <1>1, EntryTyped, ProcAssumption DEF Ticks
<1>3. "RUNNING" \in Alive
  BY Zenon DEF Alive
<1>4. ptable' = SetTo(ptable, p, "RUNNING", c)
  BY Zenon DEF Run, SetTo
<1>. HIDE DEF c
<1>5. /\ ptable' \in Tables /\ Calmly(ptable, ptable') /\ \A q \in Slots \ {p} : ptable'[q] = ptable[q]
      /\ ptable'[p].state = "RUNNING"
  <2>1. Moved(ptable, ptable', p, "RUNNING", c)
    BY <1>1, <1>2, <1>3, <1>4, SetState, Zenon
  <2>. QED  BY <2>1, Zenon DEF Moved
<1>6. l \in Labels /\ pc'[p] = l /\ l \notin InLoop \union {"ticking"} /\ l # "dead"
  BY <1>1, Zenon DEF ProcInv, TypeOK, Run, Goto, Labels, PlaceOf, InLoop, Resumed, Alive
<1>7. PlaceOf(p)'
  <2>1. ptable'[p].master = ptable[p].master /\ \A w \in Slots : ptable'[w].master = ptable[w].master
    BY <1>5, Zenon DEF Calmly
  <2>. QED  BY <1>1, <1>5, <1>6, <2>1, Zenon DEF PlaceOf, Alive, MainOnly, InLoop
<1>8. SleeperOf(p)'
  BY <1>5, Zenon DEF SleeperOf
<1>9. CpuMove(p)
  BY <1>5, Zenon DEF Run, CpuMove
<1>10. p = initproc => l \notin NotInit
  BY Zenon DEF ProcInv, Places, NotInit
<1>11. \/ l = pc[p] /\ arg' = arg
       \/ l \notin Allocating /\ pc[p] \notin Allocating /\ (arg' = arg \/ arg' = [arg EXCEPT ![p] = 0])
  BY Zenon DEF Run, Allocating
<1>12. nextpid' = nextpid /\ nexttid' = nexttid /\ Goto(p, l)
  BY Zenon DEF Run
<1>. QED  BY <1>5, <1>6, <1>7, <1>8, <1>9, <1>10, <1>11, <1>12, OwnStep, Zenon

LEMMA YieldStep ==
  ASSUME Counts, ProcInv, NEW p \in Slots, Yield(p)
  PROVE  ProcInv'
<1>1. ptable \in Tables /\ PlaceOf(p) /\ ptable[p].state = "RUNNING" /\ ptable[p].state \in Alive
  BY TableTyped, Zenon DEF ProcInv, Places, Yield, Alive
<1>2. ptable' = SetTo(ptable, p, "RUNNABLE", ptable[p].chan)
  BY <1>1, Zenon DEF Yield, Tables, Entries, SetTo
<1>3. "RUNNABLE" \in Alive /\ ptable[p].chan \in 0..Ticks
  BY <1>1, EntryTyped, Zenon DEF Alive
<1>4. /\ ptable' \in Tables /\ Calmly(ptable, ptable') /\ \A q \in Slots \ {p} : ptable'[q] = ptable[q]
      /\ ptable'[p].state = "RUNNABLE"
  <2>1. Moved(ptable, ptable', p, "RUNNABLE", ptable[p].chan)
    BY <1>1, <1>2, <1>3, SetState, Zenon
  <2>. QED  BY <2>1, Zenon DEF Moved
<1>5. pc[p] \in Labels /\ pc' = pc /\ Goto(p, pc[p])
  BY Zenon DEF ProcInv, TypeOK, Yield, Goto, Labels
<1>6. PlaceOf(p)'
  <2>1. ptable'[p].master = ptable[p].master /\ \A w \in Slots : ptable'[w].master = ptable[w].master
    BY <1>4, Zenon DEF Calmly
  <2>. QED  BY <1>1, <1>4, <1>5, <2>1, Zenon DEF PlaceOf, Alive, InLoop
<1>7. SleeperOf(p)'
  BY <1>4, Zenon DEF SleeperOf
<1>8. CpuMove(p)
  BY <1>4, Zenon DEF Yield, CpuMove
<1>9. p = initproc => pc[p] \notin NotInit
  BY Zenon DEF ProcInv, Places
<1>10. nextpid' = nextpid /\ nexttid' = nexttid /\ arg' = arg
  BY Zenon DEF Yield
<1>. QED  BY <1>4, <1>5, <1>6, <1>7, <1>8, <1>9, <1>10, OwnStep, Zenon

\* Who may call what.
LEMMA CallFacts ==
  ASSUME Calm, ProcInv, NEW p \in Slots, NEW call, MayCall(p, call)
  PROVE  /\ p \in cpu /\ pc[p] = "user" /\ ptable[p].state = "RUNNING" /\ call # "exec"
         /\ call \in {"fork", "create", "join"} => ptable[p].master = 0
         /\ call = "thread_exit" => ptable[p].master # 0
         /\ p = initproc => call \in {"fork", "wait"}
<1>1. p \in cpu /\ pc[p] = "user" /\ ptable[p].state = "RUNNING"
  BY Zenon DEF MayCall, Runs, ProcInv, OnCpu
<1>2. p = initproc => ptable[p].master = 0
  BY Zenon DEF ProcInv, Places
<1>3. CASE p = initproc
  BY <1>1, <1>2, <1>3, Zenon DEF MayCall
<1>4. CASE p # initproc /\ ptable[p].master = 0
  <2>1. call \in {"wait", "kill", "fault"} \union MainCalls \union {"fork", "create", "join"}
    BY <1>4, Zenon DEF MayCall, IsMain
  <2>. QED  BY <1>1, <1>4, <2>1, Zenon DEF Calm
<1>5. CASE p # initproc /\ ptable[p].master # 0
  <2>1. call \in {"wait", "kill", "fault"} \union WorkerCalls \union {"thread_exit"}
    BY <1>5, Zenon DEF MayCall, IsMain
  <2>. QED  BY <1>1, <1>5, <2>1, Zenon DEF Calm
<1>. QED  BY <1>3, <1>4, <1>5, Zenon

LEMMA ExitCallStep ==
  ASSUME Counts, ProcInv, NEW p \in Slots, ExitCall(p)
  PROVE  ProcInv'
<1>1. p \in cpu /\ pc[p] \notin Allocating /\ p # initproc
  BY Zenon DEF ExitCall, Runs, Allocating
<1>2. UNCHANGED <<ptable, nextpid, nexttid, cpu>> /\ Goto(p, "exit")
  BY Zenon DEF ExitCall
<1>3. arg' \in [Slots -> Nat] /\ \A q \in Slots \ {p} : arg'[q] = arg[q]
  BY Zenon DEF ExitCall, ProcInv, TypeOK
<1>4. "exit" \in Labels /\ "exit" \notin Allocating \union InLoop \union {"ticking", "dead", "exec", "exit2"}
      /\ "exit" \notin MainOnly /\ "exit" # "texit"
  BY Zenon DEF Labels, Allocating, InLoop, MainOnly
<1>. QED  BY <1>1, <1>2, <1>3, <1>4, GoStep, Zenon

\* wait(), thread_exit(), thread_join() and sleep(), up to their loops.
LEMMA EnterStep ==
  ASSUME Counts, Calm, ProcInv, NEW p \in Slots,
         WaitCall(p) \/ ThreadExitCall(p) \/ JoinCall(p) \/ SleepCall(p)
  PROVE  ProcInv'
<1>. DEFINE call == IF WaitCall(p) THEN "wait" ELSE IF ThreadExitCall(p) THEN "thread_exit"
                    ELSE IF JoinCall(p) THEN "join" ELSE "sleep"
            l == IF WaitCall(p) THEN "wait" ELSE IF ThreadExitCall(p) THEN "texit"
                 ELSE IF JoinCall(p) THEN "join" ELSE "tick"
<1>1. /\ MayCall(p, call) /\ Goto(p, l) /\ UNCHANGED <<ptable, nextpid, nexttid, cpu>>
      /\ arg' = arg \/ \E t \in 1..(nexttid - 1) : arg' = [arg EXCEPT ![p] = t]
  BY Zenon DEF WaitCall, ThreadExitCall, JoinCall, SleepCall
<1>2. /\ l \in Labels /\ l \notin Allocating \union InLoop \union {"ticking", "dead", "exec", "exit2"}
      /\ (l = "join" <=> call = "join") /\ (l = "texit" <=> call = "thread_exit")
      /\ l \in MainOnly => l = "join"
      /\ l \in NotInit => call \notin {"fork", "wait"}
  BY Zenon DEF Labels, Allocating, InLoop, MainOnly, NotInit
<1>. HIDE DEF l, call
<1>3. /\ p \in cpu /\ pc[p] \notin Allocating
      /\ l \in MainOnly => ptable[p].master = 0
      /\ l = "texit" => ptable[p].master # 0
      /\ p = initproc => l \notin NotInit
  BY <1>1, <1>2, CallFacts, Zenon DEF Allocating
<1>4. arg' \in [Slots -> Nat] /\ \A q \in Slots \ {p} : arg'[q] = arg[q]
  BY <1>1 DEF ProcInv, TypeOK
<1>. QED  BY <1>1, <1>2, <1>3, <1>4, GoStep, Zenon

LEMMA SysSleepStep ==
  ASSUME Counts, ProcInv, NEW p \in Slots, SysSleep(p)
  PROVE  ProcInv'
<1>1. PICK l \in {"user", "tick2"} : Goto(p, l)
  BY Zenon DEF SysSleep
<1>2. UNCHANGED <<ptable, nextpid, nexttid, cpu>>
  BY Zenon DEF SysSleep
<1>3. arg' \in [Slots -> Nat] /\ \A q \in Slots \ {p} : arg'[q] = arg[q]
  BY Zenon DEF SysSleep, ProcInv, TypeOK
<1>4. p \in cpu /\ pc[p] \notin Allocating /\ p # initproc
  BY SlotFacts, Zenon DEF SysSleep, Runs, Allocating, ProcInv, Places, NotInit
<1>5. /\ l \in Labels /\ l \notin Allocating \union InLoop \union {"ticking", "dead", "exec", "exit2"}
      /\ l \notin MainOnly /\ l # "texit"
  BY Zenon DEF Labels, Allocating, InLoop, MainOnly
<1>. QED  BY <1>1, <1>2, <1>3, <1>4, <1>5, GoStep, Zenon

LEMMA FaultStep ==
  ASSUME Counts, Calm, ProcInv, NEW p \in Slots, Fault(p)
  PROVE  ProcInv'
<1>1. p \in cpu
  BY CallFacts, Zenon DEF Fault
<1>2. ptable' = [ptable EXCEPT ![p].killed = TRUE] /\ UNCHANGED <<nextpid, nexttid, cpu, pc, arg>>
  BY Zenon DEF Fault
<1>. QED  BY <1>1, <1>2, TellStep, Zenon

\* The master of a thread is a main thread.
LEMMA Flat == ASSUME ProcInv PROVE \A q \in Slots : ptable[q].master # 0 => ptable[ptable[q].master].master = 0
BY Zenon DEF ProcInv, Threads

LEMMA KillStep ==
  ASSUME Counts, Calm, ProcInv, NEW p \in Slots, Kill(p)
  PROVE  ProcInv'
<1>1. p \in cpu
  BY CallFacts, Zenon DEF Kill
<1>2. PICK q \in Slots : ptable' = [ptable EXCEPT ![get_highest_master(ptable, q)] = Terminate(@)]
  BY Zenon DEF Kill
<1>3. ptable \in Tables
  BY TableTyped, Zenon DEF ProcInv
<1>4. get_highest_master(ptable, q) \in Slots
  <2>1. get_highest_master(ptable, q) = IF ptable[q].master = 0 THEN q ELSE ptable[q].master
    BY <1>3, Flat, HighestMaster, Zenon
  <2>. QED  BY <1>3, <2>1, EntryTyped, Zenon
<1>5. UNCHANGED <<nextpid, nexttid, cpu, pc, arg>>
  BY Zenon DEF Kill
<1>. QED  BY <1>1, <1>2, <1>4, <1>5, TellStep, Zenon

\* Whoever is left alone by a step stays where it may be, if it is woken
\* whenever what it waits for has changed.
LEMMA StaysPut ==
  ASSUME NEW q \in Slots, PlaceOf(q), SleeperOf(q), Undisturbed(q), pc'[q] = pc[q],
         ptable'[q].master = ptable[q].master,
         ptable'[q].parent = ptable[q].parent \/ ptable[q].state \notin {"UNUSED", "EMBRYO"},
         \A w \in Slots : ptable'[w].master = q => ptable[w].master = q,
         pc[q] = "joining" => \A w \in Slots : ptable[w].master = q
                                => ptable'[w].master = q /\ ptable'[w].tid = ptable[w].tid,
         ptable'[q].state = "SLEEPING" /\ pc[q] = "waiting" =>
           \A w \in Slots : /\ ptable[w].parent = q => ptable'[w].parent = q
                            /\ ptable'[w].parent = q /\ ptable'[w].state = "ZOMBIE"
                                 => ptable[w].parent = q /\ ptable[w].state = "ZOMBIE",
         ptable'[q].state = "SLEEPING" /\ pc[q] \in {"joining", "exiting"} =>
           \A w \in Slots : ptable[w].master = q /\ ptable[w].state \in Alive
                              => /\ ptable'[w].master = q /\ ptable'[w].state \in Alive
                                 /\ ptable'[w].tid = ptable[w].tid
  PROVE  PlaceOf(q)' /\ SleeperOf(q)'
<1>1. PlaceOf(q)'
  <2>1. /\ \/ ptable'[q].state = ptable[q].state
           \/ ptable[q].state = "SLEEPING" /\ ptable'[q].state = "RUNNABLE"
        /\ ptable'[q].chan = ptable[q].chan
    BY Zenon DEF Undisturbed
  <2>2. (\A w \in Slots : ptable[w].master # q) => \A w \in Slots : ptable'[w].master # q
    BY Zenon
  <2>3. pc[q] = "joining" /\ (\E w \in Slots : ptable[w].master = q /\ ptable[w].tid = arg[q])
          => \E w \in Slots : ptable'[w].master = q /\ ptable'[w].tid = arg'[q]
    BY Zenon DEF Undisturbed
  <2>. QED  BY <2>1, <2>2, <2>3, Zenon DEF PlaceOf, Alive
<1>2. SleeperOf(q)'
  <2>. SUFFICES ASSUME ptable'[q].state = "SLEEPING"  PROVE SleeperOf(q)'
    BY Zenon DEF SleeperOf
  <2>1. /\ ptable[q].state = "SLEEPING" /\ (pc[q] # "ticking" => ptable'[q].killed = ptable[q].killed)
        /\ arg'[q] = arg[q]
    BY Zenon DEF Undisturbed
  <2>2. CASE pc[q] = "waiting"
    BY <2>1, <2>2, Zenon DEF SleeperOf
  <2>3. CASE pc[q] \in {"joining", "exiting"}
    BY <2>1, <2>3, Zenon DEF SleeperOf
  <2>4. CASE pc[q] \notin {"waiting", "joining", "exiting"}
    BY <2>4, Zenon DEF SleeperOf
  <2>. QED  BY <2>2, <2>3, <2>4, Zenon
<1>. QED  BY <1>1, <1>2, Zenon

\* A step of p that frees the zombies ws, which nobody but p waits for.
LEMMA FreeStep ==
  ASSUME Counts, ProcInv, NEW p \in Slots, NEW l \in Labels, NEW ws \in SUBSET (Slots \ {p}),
         ptable' \in Tables, Threads(ptable', nexttid), Parents(ptable'),
         nextpid' = nextpid, nexttid' = nexttid, Goto(p, l), CpuMove(p),
         l \notin Allocating, pc[p] \notin Allocating, p = initproc => l \notin NotInit,
         arg' \in [Slots -> Nat], \A q \in Slots \ {p} : arg'[q] = arg[q],
         \A w \in ws : /\ ptable[w].state = "ZOMBIE"
                       /\ ptable[w].parent \in {0, p} /\ ptable[w].master \in {0, p}
                       /\ ptable'[w].state = "UNUSED" /\ ptable'[w].master = 0 /\ ptable'[w].parent = 0,
         \A q \in Slots \ ws : /\ ptable'[q].master = ptable[q].master /\ ptable'[q].parent = ptable[q].parent
                               /\ ptable'[q].tid = ptable[q].tid
                               /\ ptable'[q].state \in Alive <=> ptable[q].state \in Alive
                               /\ ptable[q].state \notin Alive => ptable'[q].state = ptable[q].state,
         \A q \in Slots \ (ws \union {p}) : Undisturbed(q),
         PlaceOf(p)', SleeperOf(p)'
  PROVE  ProcInv'
<1>1. pc \in [Slots -> Labels]
  BY Zenon DEF ProcInv, TypeOK, Labels
<1>2. pc' \in [Slots -> Labels] /\ pc'[p] = l /\ \A q \in Slots \ {p} : pc'[q] = pc[q]
  BY <1>1, Zenon DEF Goto
<1>3. \A q \in Slots : PlaceOf(q) /\ SleeperOf(q)
  BY Zenon DEF ProcInv, Places, Sleepers
<1>4. ASSUME NEW q \in Slots, q \notin ws, q # p
      PROVE  PlaceOf(q)' /\ SleeperOf(q)'
  <2>1. Undisturbed(q) /\ pc'[q] = pc[q] /\ ptable'[q].master = ptable[q].master
        /\ ptable'[q].parent = ptable[q].parent
    BY <1>2, <1>4, Zenon
  <2>2. \A w \in Slots : ptable'[w].master = q => ptable[w].master = q
    BY SlotFacts
  <2>3. \A w \in Slots : /\ ptable[w].parent = q => ptable'[w].parent = q
                         /\ ptable'[w].parent = q /\ ptable'[w].state = "ZOMBIE"
                              => ptable[w].parent = q /\ ptable[w].state = "ZOMBIE"
    BY <1>4, SlotFacts, SMTT(30) DEF Alive
  <2>4. \A w \in Slots : ptable[w].master = q /\ ptable[w].state \in Alive
                           => /\ ptable'[w].master = q /\ ptable'[w].state \in Alive
                              /\ ptable'[w].tid = ptable[w].tid
    BY Zenon DEF Alive
  <2>5. \A w \in Slots : ptable[w].master = q => ptable'[w].master = q /\ ptable'[w].tid = ptable[w].tid
    BY <1>4, SlotFacts, SMTT(30)
  <2>. QED  BY <1>3, <2>1, <2>2, <2>3, <2>4, <2>5, StaysPut, Zenon
<1>5. ASSUME NEW q \in ws
      PROVE  PlaceOf(q)' /\ SleeperOf(q)'
  <2>1. pc'[q] = "dead"
    BY <1>2, <1>3, SMTT(30) DEF PlaceOf
  <2>. QED  BY <2>1 DEF PlaceOf, SleeperOf, Alive, MainOnly
<1>6. \A q \in Slots : PlaceOf(q)' /\ SleeperOf(q)'
  BY <1>4, <1>5, Zenon
<1>7. Places'
  <2>1. /\ ptable[initproc].state \in Alive /\ pc[initproc] \notin NotInit
        /\ ptable[initproc].master = 0 /\ ptable[initproc].parent = 0
        /\ \A w \in Slots : ptable[w].master # initproc
    BY Zenon DEF ProcInv, Places
  <2>2. ptable'[initproc].state \in Alive /\ ptable'[initproc].master = 0 /\ ptable'[initproc].parent = 0
    BY <2>1, SlotFacts, Zenon DEF Alive
  <2>3. pc'[initproc] \notin NotInit
    BY <1>2, <2>1, SlotFacts, Zenon
  <2>4. \A w \in Slots : ptable'[w].master # initproc
    BY <2>1, SlotFacts, SMTT(30)
  <2>. QED  BY <1>6, <2>2, <2>3, <2>4, Zenon DEF Places
<1>8. Embryos'
  <2>1. \A q \in Slots : ptable'[q].state = "EMBRYO" <=> ptable[q].state = "EMBRYO"
    BY Zenon DEF Alive
  <2>2. \A q \in Slots : /\ pc'[q] \in Allocating <=> pc[q] \in Allocating
                         /\ pc'[q] \in Allocating => arg'[q] = arg[q]
    BY <1>2, Zenon
  <2>. QED  BY <2>1, <2>2, SMTT(30) DEF ProcInv, Embryos
<1>9. OnCpu' /\ cpu' \subseteq Slots /\ Cardinality(cpu') <= NCPU
  <2>1. \A q \in Slots \ {p} : ptable'[q].state = "RUNNING" <=> ptable[q].state = "RUNNING"
    BY Zenon DEF Undisturbed
  <2>. QED  BY <2>1, CpuStep, Zenon DEF ProcInv
<1>10. Pids' /\ nextpid' \in Nat \ {0}
  <2>1. \A q \in Slots : pc'[q] = "create" => pc[q] = "create"
    BY <1>2, Zenon DEF Allocating
  <2>2. nextpid \in Nat
    BY Zenon DEF ProcInv, TypeOK
  <2>. QED  BY <2>1, <2>2, PidsStep, Zenon DEF ProcInv
<1>11. TypeOK'
  <2>1. nexttid' \in Nat \ {0}
    BY Zenon DEF ProcInv, TypeOK
  <2>. QED  BY <1>2, <1>9, <1>10, <2>1, TypeStep, Zenon
<1>12. Threads(ptable', nexttid')
  BY SMTT(30)
<1>. QED  BY <1>6, <1>7, <1>8, <1>9, <1>10, <1>11, <1>12, Zenon DEF ProcInv, Sleepers

\* p is running, back in user mode.
LEMMA UserPlace ==
  ASSUME NEW p \in Slots, ptable'[p].state = "RUNNING", pc'[p] = "user"
  PROVE  PlaceOf(p)' /\ SleeperOf(p)'
BY Zenon DEF PlaceOf, SleeperOf, Alive, InLoop, MainOnly

\* wakeup1() rouses the sleepers on a channel and does nothing else.
LEMMA WakeFields ==
  ASSUME NEW pt \in Tables, NEW ch
  PROVE  /\ wakeup1(pt, ch) \in Tables /\ Calmly(pt, wakeup1(pt, ch))
         /\ \A q \in Slots :
              /\ wakeup1(pt, ch)[q].chan = pt[q].chan /\ wakeup1(pt, ch)[q].killed = pt[q].killed
              /\ wakeup1(pt, ch)[q].state =
                   IF pt[q].chan = ch /\ pt[q].state = "SLEEPING" THEN "RUNNABLE" ELSE pt[q].state
<1>. DEFINE new == wakeup1(pt, ch)
<1>1. ASSUME NEW q \in Slots
      PROVE  /\ new[q] \in Entries /\ new[q].chan = pt[q].chan /\ new[q].killed = pt[q].killed
             /\ new[q].state = IF pt[q].chan = ch /\ pt[q].state = "SLEEPING" THEN "RUNNABLE" ELSE pt[q].state
             /\ new[q].tid = pt[q].tid /\ new[q].parent = pt[q].parent /\ new[q].master = pt[q].master
             /\ new[q].next_thread = pt[q].next_thread /\ new[q].prev_thread = pt[q].prev_thread
  <2>1. new[q] = IF pt[q].chan = ch /\ pt[q].state = "SLEEPING" THEN [pt[q] EXCEPT !.state = "RUNNABLE"]
                 ELSE pt[q]
    BY Zenon DEF wakeup1, Rouse
  <2>2. pt[q] \in Entries
    BY Zenon DEF Tables
  <2>3. new[q] \in Entries
    BY <2>1, <2>2, EntrySet, Zenon
  <2>. HIDE DEF new
  <2>. QED  BY <2>1, <2>2, <2>3, Zenon DEF Entries
<1>2. new \in Tables
  <2>1. new = [q \in Slots |-> new[q]]
    BY Zenon DEF wakeup1
  <2>. HIDE DEF new
  <2>. QED  BY <1>1, <2>1, Zenon DEF Tables
<1>. HIDE DEF new
<1>3. Calmly(pt, new)
  BY <1>1, Zenon DEF Calmly, Alive
<1>. QED  BY <1>1, <1>2, <1>3, Zenon DEF new

LEMMA TickStep ==
  ASSUME Counts, ProcInv, Tick
  PROVE  ProcInv'
<1>1. ptable' = wakeup1(ptable, Ticks) /\ UNCHANGED <<nextpid, nexttid, cpu, pc, arg>>
  BY Zenon DEF Tick
<1>2. ptable \in Tables /\ initproc \in Slots
  BY TableTyped, SlotFacts, Zenon DEF ProcInv
<1>3. /\ ptable' \in Tables /\ Calmly(ptable, ptable')
      /\ \A q \in Slots : /\ ptable'[q].chan = ptable[q].chan /\ ptable'[q].killed = ptable[q].killed
                          /\ ptable'[q].state = IF ptable[q].chan = Ticks /\ ptable[q].state = "SLEEPING"
                                                THEN "RUNNABLE" ELSE ptable[q].state
  BY <1>1, <1>2, WakeFields, Zenon
<1>4. \A q \in Slots : Undisturbed(q)
  BY <1>1, <1>3, Zenon DEF Undisturbed
<1>5. PlaceOf(initproc)' /\ SleeperOf(initproc)'
  <2>1. PlaceOf(initproc) /\ SleeperOf(initproc)
    BY <1>2, Zenon DEF ProcInv, Places, Sleepers
  <2>. QED  BY <1>1, <1>2, <1>3, <1>4, <2>1, StaysPlaced, Zenon
<1>6. CpuMove(initproc)
  BY <1>1, <1>2, <1>3, Zenon DEF CpuMove
<1>7. pc[initproc] \in Labels /\ pc' = [pc EXCEPT ![initproc] = pc[initproc]] /\ arg' \in [Slots -> Nat]
  BY <1>1, <1>2, Zenon DEF ProcInv, TypeOK, Labels
<1>8. pc[initproc] \notin NotInit
  BY Zenon DEF ProcInv, Places
<1>. QED  BY <1>1, <1>2, <1>3, <1>4, <1>5, <1>6, <1>7, <1>8, CalmStep, Zenon

LEMMA TickSleepStep ==
  ASSUME Counts, ProcInv, NEW p \in Slots, TickSleep(p)
  PROVE  ProcInv'
<1>1. ptable \in Tables /\ ptable[p].state \in Alive /\ PlaceOf(p) /\ pc[p] = "tick2"
  BY TableTyped, Zenon DEF ProcInv, OnCpu, Places, TickSleep, Runs, Alive
<1>2. ptable' = SetTo(ptable, p, "SLEEPING", Ticks)
  BY Zenon DEF TickSleep, Sleeping, SetTo
<1>3. "SLEEPING" \in Alive /\ Ticks \in 0..Ticks
  BY ProcAssumption DEF Alive, Ticks
<1>4. /\ ptable' \in Tables /\ Calmly(ptable, ptable') /\ \A q \in Slots \ {p} : ptable'[q] = ptable[q]
      /\ ptable'[p].state = "SLEEPING" /\ ptable'[p].chan = Ticks
  <2>1. Moved(ptable, ptable', p, "SLEEPING", Ticks)
    BY <1>1, <1>2, <1>3, SetState, Zenon
  <2>. QED  BY <2>1, Zenon DEF Moved
<1>5. pc'[p] = "ticking" /\ Goto(p, "ticking") /\ nextpid' = nextpid /\ nexttid' = nexttid /\ arg' = arg
  BY Zenon DEF TickSleep, Goto, ProcInv, TypeOK
<1>6. PlaceOf(p)' /\ SleeperOf(p)'
  BY <1>4, <1>5, Zenon DEF PlaceOf, SleeperOf, Alive, MainOnly
<1>7. CpuMove(p)
  BY <1>4, Zenon DEF TickSleep, CpuMove
<1>8. p # initproc /\ "ticking" \in Labels /\ "ticking" \notin Allocating /\ pc[p] \notin Allocating
  BY <1>1, Zenon DEF ProcInv, Places, NotInit, Labels, Allocating
<1>. QED  BY <1>4, <1>5, <1>6, <1>7, <1>8, OwnStep, Zenon

\* wait() takes a zombie child out of the table; nothing led to it any more.
LEMMA ReapTable ==
  ASSUME NEW pt \in Tables, NEW nt, Threads(pt, nt), Parents(pt),
         NEW k \in Slots, pt[k].state = "ZOMBIE", pt[k].parent # 0
  PROVE  /\ Reap(pt, k) \in Tables /\ Threads(Reap(pt, k), nt) /\ Parents(Reap(pt, k))
         /\ \A q \in Slots \ {k} : Reap(pt, k)[q] = pt[q]
         /\ Reap(pt, k)[k].state = "UNUSED" /\ Reap(pt, k)[k].master = 0 /\ Reap(pt, k)[k].parent = 0
<1>. DEFINE new == Reap(pt, k)
            e == [pt[k] EXCEPT !.pid = 0, !.parent = 0, !.killed = FALSE, !.state = "UNUSED"]
<1>1. pt[k].master = 0
  BY Zenon DEF Threads
<1>2. e \in Entries
  <2>1. 0 \in Nat /\ 0 \in 0..NPROC
    BY ProcAssumption
  <2>2. pt[k] \in Entries
    BY Zenon DEF Tables
  <2>. QED  BY <2>1, <2>2, EntrySet, Zenon
<1>3. new = [pt EXCEPT ![k] = e]
  BY Zenon DEF Tables, Reap
<1>4. /\ e.state = "UNUSED" /\ e.parent = 0 /\ e.master = 0 /\ e.tid = pt[k].tid
      /\ e.next_thread = pt[k].next_thread /\ e.prev_thread = pt[k].prev_thread
  BY <1>1 DEF Tables, Entries
<1>. HIDE DEF e, new
<1>5. new \in Tables /\ new[k] = e /\ \A q \in Slots \ {k} : new[q] = pt[q]
  BY <1>2, <1>3, Zenon DEF Tables
<1>6. Parents(new)
  <2>. SUFFICES ASSUME NEW q \in Slots, new[q].parent # 0
                PROVE  new[new[q].parent].state \in Alive /\ new[new[q].parent].master = 0 /\ new[q].parent # q
    BY Zenon DEF Parents
  <2>1. q # k /\ new[q].parent = pt[q].parent /\ pt[q].parent \in Slots
    BY <1>4, <1>5, EntryTyped, Zenon
  <2>2. pt[pt[q].parent].state \in Alive /\ pt[pt[q].parent].master = 0 /\ pt[q].parent # q
    BY <2>1, Zenon DEF Parents
  <2>3. pt[q].parent # k
    BY <2>2, Zenon DEF Alive
  <2>. QED  BY <1>5, <2>1, <2>2, <2>3, Zenon
<1>7. ASSUME NEW q \in Slots, new[q].master # 0
      PROVE  /\ new[new[q].master].master = 0 /\ new[new[q].master].state \in Alive
             /\ new[q].state \in Alive \union {"ZOMBIE"} /\ new[q].parent = 0
             /\ new[q].tid \in 1..(nt - 1)
             /\ new[q].prev_thread # 0 /\ new[new[q].prev_thread].next_thread = q
             /\ \/ new[q].prev_thread = new[q].master
                \/ /\ new[new[q].prev_thread].master = new[q].master
                   /\ new[q].tid < new[new[q].prev_thread].tid
  <2>1. q # k /\ new[q] = pt[q] /\ pt[q].master # 0 /\ pt[q].master \in Slots
    BY <1>4, <1>5, <1>7, EntryTyped
  <2>2. pt[q].prev_thread \in Slots
    BY <2>1, EntryTyped, Zenon DEF Threads
  <2>3. pt[q].master # k /\ pt[q].prev_thread # k
    BY <1>1, <2>1 DEF Threads, Alive
  <2>4. new[pt[q].master] = pt[pt[q].master] /\ new[pt[q].prev_thread] = pt[pt[q].prev_thread]
    BY <1>5, <2>1, <2>2, <2>3, Zenon
  <2>. QED  BY <2>1, <2>4, SMTT(30) DEF Threads
<1>8. ASSUME NEW q \in Slots, new[q].next_thread # 0, new[q].master # 0 \/ new[q].state \in Alive
      PROVE  /\ new[new[q].next_thread].prev_thread = q
             /\ new[new[q].next_thread].master = IF new[q].master = 0 THEN q ELSE new[q].master
  <2>1. q # k /\ new[q] = pt[q] /\ pt[q].next_thread \in Slots
    BY <1>4, <1>5, <1>8, EntryTyped, Zenon DEF Alive
  <2>2. /\ pt[pt[q].next_thread].prev_thread = q
        /\ pt[pt[q].next_thread].master = IF pt[q].master = 0 THEN q ELSE pt[q].master
    BY <1>8, <2>1, ZenonT(40) DEF Threads
  <2>3. pt[q].next_thread # k
    BY <1>1, <2>2, SlotFacts, Zenon
  <2>. QED  BY <1>5, <2>1, <2>2, <2>3, Zenon
<1>9. Threads(new, nt)
  BY <1>7, <1>8, Zenon DEF Threads
<1>. QED  BY <1>4, <1>5, <1>6, <1>9, Zenon DEF new

LEMMA WaitStep ==
  ASSUME Counts, ProcInv, NEW p \in Slots, Wait(p)
  PROVE  ProcInv'
<1>. DEFINE pt   == Back(p)
            kids == {q \in Slots : pt[q].parent = p}
            dead == {q \in kids : pt[q].state = "ZOMBIE"}
<1>1. "wait" \in Labels \ Resumed /\ "waiting" \in Resumed /\ Turn(p, "wait", "waiting")
  BY Zenon DEF Labels, Resumed, Wait
<1>2. /\ pt \in Tables /\ Calmly(ptable, pt) /\ \A q \in Slots \ {p} : pt[q] = ptable[q]
      /\ pt[p].state = "RUNNING" /\ pt[p].killed = ptable[p].killed
      /\ p \in cpu \/ Ready(p)
      /\ ptable[p].state \in Alive /\ pc[p] \in {"wait", "waiting"}
  BY <1>1, BackFields, Zenon
<1>3. Threads(pt, nexttid) /\ Parents(pt)
  BY <1>2, TableTyped, CalmTable, Zenon DEF ProcInv
<1>4. /\ nextpid' = nextpid /\ nexttid' = nexttid /\ arg' = arg /\ arg' \in [Slots -> Nat]
      /\ pc \in [Slots -> Labels] /\ pc[p] \notin Allocating
  BY <1>2 DEF Wait, ProcInv, TypeOK, Labels, Allocating
<1>5. CASE /\ dead # {}
           /\ ptable' = Reap(pt, CHOOSE q \in dead : \A r \in dead : q <= r)
           /\ cpu' = cpu \union {p} /\ Goto(p, "user")
  <2>1. PICK k \in dead : ptable' = Reap(pt, k)
    <3>1. dead \subseteq Nat
      BY DEF Slots
    <3>2. \E q \in dead : \A r \in dead : q <= r
      <4>. HIDE DEF dead
      <4>. QED  BY <1>5, <3>1, Zenon DEF Counts
    <3>3. (CHOOSE q \in dead : \A r \in dead : q <= r) \in dead
      <4>. HIDE DEF dead
      <4>. QED  BY <3>2, Zenon
    <3>. HIDE DEF dead
    <3>. QED  BY <1>5, <3>3, Zenon
  <2>2. k \in Slots /\ k # p /\ pt[k].parent = p /\ pt[k].parent # 0 /\ pt[k].state = "ZOMBIE"
    BY <1>2, SlotFacts, Zenon
  <2>. HIDE DEF pt
  <2>3. /\ ptable' \in Tables /\ Threads(ptable', nexttid) /\ Parents(ptable')
        /\ \A q \in Slots \ {k} : ptable'[q] = pt[q]
        /\ ptable'[k].state = "UNUSED" /\ ptable'[k].master = 0 /\ ptable'[k].parent = 0
    BY <1>2, <1>3, <2>1, <2>2, ReapTable, Zenon
  <2>4. ptable'[p].state = "RUNNING" /\ pc'[p] = "user" /\ Goto(p, "user")
    BY <1>2, <1>4, <1>5, <2>2, <2>3 DEF Goto
  <2>5. PlaceOf(p)' /\ SleeperOf(p)'
    BY <2>4, UserPlace, Zenon
  <2>6. CpuMove(p)
    BY <1>2, <1>5, <2>4, Zenon DEF CpuMove
  <2>7. /\ {k} \in SUBSET (Slots \ {p})
        /\ \A w \in {k} : /\ ptable[w].state = "ZOMBIE"
                          /\ ptable[w].parent \in {0, p} /\ ptable[w].master \in {0, p}
                          /\ ptable'[w].state = "UNUSED" /\ ptable'[w].master = 0 /\ ptable'[w].parent = 0
    <3>1. pt[k].master = 0
      BY <1>3, <2>2, Zenon DEF Threads
    <3>. QED  BY <1>2, <2>2, <2>3, <3>1, Zenon
  <2>8. \A q \in Slots \ {k} : /\ ptable'[q].master = ptable[q].master /\ ptable'[q].parent = ptable[q].parent
                               /\ ptable'[q].tid = ptable[q].tid
                               /\ ptable'[q].state \in Alive <=> ptable[q].state \in Alive
                               /\ ptable[q].state \notin Alive => ptable'[q].state = ptable[q].state
    BY <1>2, <2>3, SMTT(30) DEF Calmly
  <2>9. \A q \in Slots \ ({k} \union {p}) : Undisturbed(q)
    BY <1>2, <1>4, <2>3, Zenon DEF Undisturbed
  <2>10. "user" \in Labels /\ "user" \notin Allocating /\ "user" \notin NotInit
    BY Zenon DEF Labels, Allocating, NotInit
  <2>. QED  BY <1>4, <2>3, <2>4, <2>5, <2>6, <2>7, <2>8, <2>9, <2>10, FreeStep, Zenon
<1>6. CASE ptable' = pt /\ cpu' = cpu \union {p} /\ Goto(p, "user")
  <2>1. pc'[p] = "user"
    BY <1>4, <1>6, Zenon DEF Goto
  <2>2. PlaceOf(p)' /\ SleeperOf(p)'
    BY <1>2, <1>6, <2>1, UserPlace, Zenon
  <2>3. CpuMove(p)
    BY <1>2, <1>6, Zenon DEF CpuMove
  <2>4. "user" \in Labels /\ "user" \notin Allocating /\ "user" \notin NotInit
    BY Zenon DEF Labels, Allocating, NotInit
  <2>. QED  BY <1>2, <1>4, <1>6, <2>2, <2>3, <2>4, OwnStep
<1>7. CASE /\ dead = {} /\ kids # {} /\ ~pt[p].killed
           /\ ptable' = Sleeping(pt, p, p) /\ cpu' = cpu \ {p} /\ Goto(p, "waiting")
  <2>1. ptable' = SetTo(pt, p, "SLEEPING", p) /\ "SLEEPING" \in Alive /\ pt[p].state \in Alive /\ p \in 0..Ticks
    BY <1>2, <1>7, SlotFacts, Zenon DEF Sleeping, SetTo, Alive
  <2>. HIDE DEF pt
  <2>2. /\ ptable' \in Tables /\ Calmly(pt, ptable') /\ \A q \in Slots \ {p} : ptable'[q] = pt[q]
        /\ ptable'[p].state = "SLEEPING" /\ ptable'[p].chan = p /\ ptable'[p].killed = pt[p].killed
    <3>1. Moved(pt, ptable', p, "SLEEPING", p)
      BY <1>2, <2>1, SetState, Zenon
    <3>. QED  BY <3>1, Zenon DEF Moved
  <2>3. Calmly(ptable, ptable') /\ \A q \in Slots \ {p} : ptable'[q] = ptable[q]
    BY <1>2, <2>2, CalmTwice, Zenon
  <2>4. pc'[p] = "waiting" /\ Goto(p, "waiting")
    BY <1>4, <1>7, Zenon DEF Goto
  <2>5. PlaceOf(p)'
    BY <2>2, <2>4, Zenon DEF PlaceOf, Alive, InLoop, MainOnly
  <2>6. SleeperOf(p)'
    <3>1. ~ptable'[p].killed
      BY <1>7, <2>2, Zenon
    <3>2. \A q \in Slots : ptable'[q].parent = pt[q].parent
      BY <2>2, Zenon DEF Calmly
    <3>3. \E q \in Slots : ptable'[q].parent = p
      BY <1>7, <3>2, Zenon
    <3>4. \A q \in Slots : ptable'[q].parent = p => ptable'[q].state # "ZOMBIE"
      BY <1>7, <2>2, <3>2, Zenon
    <3>. QED  BY <2>4, <3>1, <3>3, <3>4, Zenon DEF SleeperOf
  <2>7. CpuMove(p)
    BY <1>7, <2>2, Zenon DEF CpuMove
  <2>8. "waiting" \in Labels /\ "waiting" \notin Allocating /\ "waiting" \notin NotInit
    BY Zenon DEF Labels, Allocating, NotInit
  <2>. QED  BY <1>4, <2>2, <2>3, <2>4, <2>5, <2>6, <2>7, <2>8, OwnStep, Zenon
<1>. QED  BY <1>5, <1>6, <1>7, Zenon DEF Wait

LEMMA JoinStep ==
  ASSUME Counts, ProcInv, NEW p \in Slots, ThreadJoin(p)
  PROVE  ProcInv'
<1>. DEFINE pt    == Back(p)
            match == {w \in NextSet(pt, p) : pt[w].tid = arg[p]}
            dead  == {w \in match : pt[w].state = "ZOMBIE"}
            found == match # {} \/ pc[p] = "joining"
<1>1. "join" \in Labels \ Resumed /\ "joining" \in Resumed /\ Turn(p, "join", "joining")
  BY Zenon DEF Labels, Resumed, ThreadJoin
<1>2. /\ pt \in Tables /\ Calmly(ptable, pt) /\ \A q \in Slots \ {p} : pt[q] = ptable[q]
      /\ pt[p].state = "RUNNING" /\ pt[p].killed = ptable[p].killed
      /\ p \in cpu \/ Ready(p)
      /\ ptable[p].state \in Alive /\ pc[p] \in {"join", "joining"}
  BY <1>1, BackFields, Zenon
<1>3. Threads(pt, nexttid) /\ Parents(pt) /\ nexttid \in Nat
  BY <1>2, TableTyped, CalmTable, Zenon DEF ProcInv, TypeOK
<1>4. /\ nextpid' = nextpid /\ nexttid' = nexttid
      /\ arg' = IF pc'[p] = "user" THEN [arg EXCEPT ![p] = 0] ELSE arg
      /\ arg \in [Slots -> Nat] /\ pc \in [Slots -> Labels] /\ pc[p] \notin Allocating
  BY <1>2 DEF ThreadJoin, ProcInv, TypeOK, Labels, Allocating
<1>5. PlaceOf(p) /\ p # initproc
  BY <1>2, Zenon DEF ProcInv, Places, NotInit
<1>6. pt[p].master = 0 /\ ptable[p].master = 0
  BY <1>2, <1>5, Zenon DEF PlaceOf, MainOnly, Calmly
<1>7. NextSet(pt, p) = {w \in Slots : pt[w].master = p}
  <2>. HIDE DEF pt
  <2>1. pt[p].state \in Alive
    BY <1>2, Zenon DEF Alive
  <2>. QED  BY <1>2, <1>3, <1>6, <2>1, ListIsThreads, Zenon
<1>8. CASE /\ dead # {}
           /\ ptable' = dealloc_thread(pt, CHOOSE w \in dead : TRUE)
           /\ cpu' = cpu \union {p} /\ Goto(p, "user")
  <2>1. PICK k \in dead : ptable' = dealloc_thread(pt, k)
    <3>1. (CHOOSE w \in dead : TRUE) \in dead
      <4>. HIDE DEF dead
      <4>. QED  BY <1>8, Zenon
    <3>. HIDE DEF dead
    <3>. QED  BY <1>8, <3>1, Zenon
  <2>2. k \in Slots /\ k # p /\ pt[k].master = p /\ pt[k].master # 0 /\ pt[k].state = "ZOMBIE"
    BY <1>2, <1>7, SlotFacts, Zenon
  <2>. HIDE DEF pt
  <2>3. ptable' \in Tables /\ Threads(ptable', nexttid) /\ Parents(ptable') /\ Freed(pt, ptable', {k})
    BY <1>2, <1>3, <2>1, <2>2, FreeThread, FreeFields
  <2>4. ptable'[p].state = "RUNNING" /\ pc'[p] = "user" /\ Goto(p, "user")
    BY <1>2, <1>4, <1>8, <2>2, <2>3 DEF Goto, Freed
  <2>5. PlaceOf(p)' /\ SleeperOf(p)'
    BY <2>4, UserPlace, Zenon
  <2>6. CpuMove(p)
    BY <1>2, <1>8, <2>4, Zenon DEF CpuMove
  <2>7. /\ {k} \in SUBSET (Slots \ {p})
        /\ \A w \in {k} : /\ ptable[w].state = "ZOMBIE"
                          /\ ptable[w].parent \in {0, p} /\ ptable[w].master \in {0, p}
                          /\ ptable'[w].state = "UNUSED" /\ ptable'[w].master = 0 /\ ptable'[w].parent = 0
    <3>1. pt[k].parent = 0
      BY <1>3, <2>2, Zenon DEF Threads
    <3>. QED  BY <1>2, <2>2, <2>3, <3>1, SMTT(30) DEF Freed
  <2>8. \A q \in Slots \ {k} : /\ ptable'[q].master = ptable[q].master /\ ptable'[q].parent = ptable[q].parent
                               /\ ptable'[q].tid = ptable[q].tid
                               /\ ptable'[q].state \in Alive <=> ptable[q].state \in Alive
                               /\ ptable[q].state \notin Alive => ptable'[q].state = ptable[q].state
    BY <1>2, <2>3, SMTT(30) DEF Calmly, Freed
  <2>9. /\ arg' \in [Slots -> Nat] /\ \A q \in Slots \ {p} : arg'[q] = arg[q]
        /\ \A q \in Slots \ ({k} \union {p}) : Undisturbed(q)
    BY <1>2, <1>4, <2>3 DEF Undisturbed, Freed
  <2>10. "user" \in Labels /\ "user" \notin Allocating /\ "user" \notin NotInit
    BY Zenon DEF Labels, Allocating, NotInit
  <2>. QED  BY <1>4, <2>3, <2>4, <2>5, <2>6, <2>7, <2>8, <2>9, <2>10, FreeStep, Zenon
<1>9. CASE ptable' = pt /\ cpu' = cpu \union {p} /\ Goto(p, "user")
  <2>1. pc'[p] = "user"
    BY <1>4, <1>9, Zenon DEF Goto
  <2>2. PlaceOf(p)' /\ SleeperOf(p)'
    BY <1>2, <1>9, <2>1, UserPlace
  <2>3. CpuMove(p)
    BY <1>2, <1>9, Zenon DEF CpuMove
  <2>4. "user" \in Labels /\ "user" \notin Allocating /\ "user" \notin NotInit
    BY Zenon DEF Labels, Allocating, NotInit
  <2>. QED  BY <1>2, <1>4, <1>9, <2>1, <2>2, <2>3, <2>4, OwnStep, Zenon
<1>10. CASE /\ dead = {} /\ found /\ ~pt[p].killed
            /\ ptable' = Sleeping(pt, p, p) /\ cpu' = cpu \ {p} /\ Goto(p, "joining")
  <2>1. ptable' = SetTo(pt, p, "SLEEPING", p) /\ "SLEEPING" \in Alive /\ pt[p].state \in Alive /\ p \in 0..Ticks
    BY <1>2, <1>10, SlotFacts, Zenon DEF Sleeping, SetTo, Alive
  <2>2. PICK w \in Slots : pt[w].master = p /\ pt[w].tid = arg[p]
    <3>1. CASE match # {}
      BY <1>7, <3>1, Zenon
    <3>2. CASE pc[p] = "joining"
      <4>1. PICK w \in Slots : ptable[w].master = p /\ ptable[w].tid = arg[p]
        BY <1>5, <3>2, Zenon DEF PlaceOf
      <4>. QED  BY <1>2, <4>1, Zenon DEF Calmly
    <3>. QED  BY <1>10, <3>1, <3>2, Zenon
  <2>3. pt[w].state \in Alive /\ w # p
    <3>1. pt[w].state # "ZOMBIE"
      BY <1>7, <1>10, <2>2, Zenon
    <3>. HIDE DEF pt
    <3>. QED  BY <1>3, <1>6, <2>2, <3>1, SlotFacts, Zenon DEF Threads
  <2>. HIDE DEF pt
  <2>4. /\ ptable' \in Tables /\ Calmly(pt, ptable') /\ \A q \in Slots \ {p} : ptable'[q] = pt[q]
        /\ ptable'[p].state = "SLEEPING" /\ ptable'[p].chan = p /\ ptable'[p].killed = pt[p].killed
    <3>1. Moved(pt, ptable', p, "SLEEPING", p)
      BY <1>2, <2>1, SetState, Zenon
    <3>. QED  BY <3>1, Zenon DEF Moved
  <2>5. Calmly(ptable, ptable') /\ \A q \in Slots \ {p} : ptable'[q] = ptable[q]
    BY <1>2, <2>4, CalmTwice, Zenon
  <2>6. pc'[p] = "joining" /\ Goto(p, "joining") /\ arg' = arg
    BY <1>4, <1>10, Zenon DEF Goto
  <2>7. ptable'[w].master = p /\ ptable'[w].tid = arg'[p] /\ ptable'[w].state \in Alive
    BY <2>2, <2>3, <2>4, <2>6, Zenon
  <2>8. PlaceOf(p)'
    <3>1. ptable'[p].master = 0
      BY <1>6, <2>5, Zenon DEF Calmly
    <3>. QED  BY <2>4, <2>6, <2>7, <3>1, Zenon DEF PlaceOf, Alive, InLoop
  <2>9. SleeperOf(p)'
    <3>1. ~ptable'[p].killed
      BY <1>10, <2>4, Zenon
    <3>. QED  BY <2>6, <2>7, <3>1, Zenon DEF SleeperOf
  <2>10. CpuMove(p)
    BY <1>10, <2>4, Zenon DEF CpuMove
  <2>11. "joining" \in Labels /\ "joining" \notin Allocating
    BY Zenon DEF Labels, Allocating
  <2>. QED  BY <1>4, <1>5, <2>4, <2>5, <2>6, <2>8, <2>9, <2>10, <2>11, OwnStep, Zenon
<1>. QED  BY <1>8, <1>9, <1>10, Zenon DEF ThreadJoin

\* exit() tells the threads in ts that they are killed, and wakes them.
Told(pt, new, ts) ==
  /\ new \in Tables /\ Calmly(pt, new)
  /\ \A q \in Slots : /\ q \notin ts => new[q] = pt[q]
                      /\ new[q].chan = pt[q].chan
                      /\ q \in ts => new[q].state = IF pt[q].state = "SLEEPING" THEN "RUNNABLE" ELSE pt[q].state

LEMMA TellFields ==
  ASSUME NEW pt \in Tables, NEW ts, NEW new,
         new = [q \in Slots |-> IF q \in ts THEN Terminate(pt[q]) ELSE pt[q]]
  PROVE  Told(pt, new, ts)
<1>1. ASSUME NEW q \in Slots
      PROVE  /\ Terminate(pt[q]) \in Entries /\ Terminate(pt[q]).chan = pt[q].chan
             /\ Terminate(pt[q]).state = IF pt[q].state = "SLEEPING" THEN "RUNNABLE" ELSE pt[q].state
             /\ Terminate(pt[q]).tid = pt[q].tid /\ Terminate(pt[q]).parent = pt[q].parent
             /\ Terminate(pt[q]).master = pt[q].master
             /\ Terminate(pt[q]).next_thread = pt[q].next_thread
             /\ Terminate(pt[q]).prev_thread = pt[q].prev_thread
  BY Zenon DEF Terminate, Rouse, Tables, Entries, Alive
<1>2. \A q \in Slots : new[q] = IF q \in ts THEN Terminate(pt[q]) ELSE pt[q]
  BY Zenon
<1>3. new \in Tables
  <2>1. \A q \in Slots : pt[q] \in Entries
    BY Zenon DEF Tables
  <2>. QED  BY <1>1, <2>1, Zenon DEF Tables
<1>4. Calmly(pt, new)
  BY <1>1, <1>2, Zenon DEF Calmly, Alive
<1>5. \A q \in Slots : /\ q \notin ts => new[q] = pt[q]
                       /\ new[q].chan = pt[q].chan
                       /\ q \in ts => new[q].state = IF pt[q].state = "SLEEPING" THEN "RUNNABLE" ELSE pt[q].state
  BY <1>1, <1>2, Zenon
<1>. QED  BY <1>3, <1>4, <1>5, Zenon DEF Told

LEMMA ExitThreadsStep ==
  ASSUME Counts, ProcInv, NEW p \in Slots, ExitThreads(p)
  PROVE  ProcInv'
<1>. DEFINE pt    == Back(p)
            dead  == {w \in NextSet(pt, p) : pt[w].state = "ZOMBIE"}
            found == NextSet(pt, p) \ dead
            freed == DeallocAll(pt, dead)
            told  == [q \in Slots |-> IF q \in found THEN Terminate(freed[q]) ELSE freed[q]]
<1>1. "exit" \in Labels \ Resumed /\ "exiting" \in Resumed /\ Turn(p, "exit", "exiting")
  BY Zenon DEF Labels, Resumed, ExitThreads
<1>2. /\ pt \in Tables /\ Calmly(ptable, pt) /\ \A q \in Slots \ {p} : pt[q] = ptable[q]
      /\ pt[p].state = "RUNNING"
      /\ p \in cpu \/ Ready(p)
      /\ ptable[p].state \in Alive /\ pc[p] \in {"exit", "exiting"}
  BY <1>1, BackFields, Zenon
<1>3. Threads(pt, nexttid) /\ Parents(pt) /\ nexttid \in Nat
  BY <1>2, TableTyped, CalmTable, Zenon DEF ProcInv, TypeOK
<1>4. /\ nextpid' = nextpid /\ nexttid' = nexttid /\ arg' = arg
      /\ arg \in [Slots -> Nat] /\ pc \in [Slots -> Labels] /\ pc[p] \notin Allocating
  BY <1>2, Zenon DEF ExitThreads, ProcInv, TypeOK, Labels, Allocating
<1>5. p # initproc
  BY <1>2 DEF ProcInv, Places, NotInit
<1>6. /\ "exit2" \in Labels /\ "exit2" \notin Allocating
      /\ "exiting" \in Labels /\ "exiting" \notin Allocating
  BY Zenon DEF Labels, Allocating
<1>7. CASE ~IsMain(p) /\ ptable' = pt /\ cpu' = cpu \union {p} /\ Goto(p, "exit2")
  <2>1. pc'[p] = "exit2"
    BY <1>4, <1>7, Zenon DEF Goto
  <2>2. \A w \in Slots : ptable'[w].master # p
    <3>1. pt[p].master # 0
      BY <1>2, <1>7, Zenon DEF IsMain, Calmly
    <3>. HIDE DEF pt
    <3>. QED  BY <1>3, <1>7, <3>1, SlotFacts, SMTT(30) DEF Threads
  <2>3. PlaceOf(p)' /\ SleeperOf(p)'
    BY <1>2, <1>7, <2>1, <2>2, Zenon DEF PlaceOf, SleeperOf, Alive, InLoop, MainOnly
  <2>4. CpuMove(p)
    BY <1>2, <1>7, Zenon DEF CpuMove
  <2>. QED  BY <1>2, <1>4, <1>5, <1>6, <1>7, <2>3, <2>4, OwnStep, Zenon
<1>8. ASSUME IsMain(p)
      PROVE  /\ NextSet(pt, p) = {w \in Slots : pt[w].master = p} /\ pt[p].master = 0
             /\ dead \in SUBSET (Slots \ {p}) /\ found \in SUBSET (Slots \ {p})
             /\ freed \in Tables /\ Threads(freed, nexttid) /\ Parents(freed) /\ Freed(pt, freed, dead)
             /\ \A w \in dead : /\ ptable[w].state = "ZOMBIE"
                                /\ ptable[w].parent \in {0, p} /\ ptable[w].master \in {0, p}
  <2>1. pt[p].master = 0
    BY <1>2, <1>8, Zenon DEF IsMain, Calmly
  <2>2. NextSet(pt, p) = {w \in Slots : pt[w].master = p}
    <3>. HIDE DEF pt
    <3>1. pt[p].state \in Alive
      BY <1>2 DEF Alive
    <3>. QED  BY <1>2, <1>3, <2>1, <3>1, ListIsThreads, Zenon
  <2>. HIDE DEF pt
  <2>3. dead \in SUBSET (Slots \ {p}) /\ found \in SUBSET (Slots \ {p})
    BY <2>1, <2>2, SlotFacts, Zenon
  <2>4. \A w \in dead : w \in Slots /\ w # p /\ pt[w].master = p /\ pt[w].master # 0 /\ pt[w].state = "ZOMBIE"
    BY <2>1, <2>2, SlotFacts, Zenon
  <2>5. \A w \in dead : /\ ptable[w].state = "ZOMBIE"
                        /\ ptable[w].parent \in {0, p} /\ ptable[w].master \in {0, p}
    <3>. SUFFICES ASSUME NEW w \in dead
                  PROVE  /\ ptable[w].state = "ZOMBIE"
                         /\ ptable[w].parent \in {0, p} /\ ptable[w].master \in {0, p}
      BY Zenon
    <3>. HIDE DEF dead
    <3>1. pt[w].parent = 0
      BY <1>3, <2>4, Zenon DEF Threads
    <3>. QED  BY <1>2, <2>4, <3>1, Zenon
  <2>6. freed \in Tables /\ Threads(freed, nexttid) /\ Parents(freed) /\ Freed(pt, freed, dead)
    <3>. HIDE DEF dead
    <3>1. dead \in SUBSET Slots /\ \A w \in dead : pt[w].master # 0 /\ pt[w].state = "ZOMBIE"
      BY <2>3, <2>4, Zenon
    <3>. QED  BY <1>2, <1>3, <3>1, FreeThreads, Zenon
  <2>. QED  BY <2>1, <2>2, <2>3, <2>5, <2>6
<1>9. CASE IsMain(p) /\ found = {} /\ ptable' = freed /\ cpu' = cpu \union {p} /\ Goto(p, "exit2")
  <2>1. /\ NextSet(pt, p) = {w \in Slots : pt[w].master = p} /\ pt[p].master = 0
        /\ dead \in SUBSET (Slots \ {p})
        /\ freed \in Tables /\ Threads(freed, nexttid) /\ Parents(freed) /\ Freed(pt, freed, dead)
        /\ \A w \in dead : /\ ptable[w].state = "ZOMBIE"
                           /\ ptable[w].parent \in {0, p} /\ ptable[w].master \in {0, p}
    BY <1>8, <1>9, Zenon
  <2>2. \A w \in Slots : pt[w].master = p => w \in dead
    BY <1>9, <2>1
  <2>. HIDE DEF pt, dead, freed
  <2>3. ptable'[p].state = "RUNNING" /\ pc'[p] = "exit2"
    BY <1>2, <1>4, <1>9, <2>1, Zenon DEF Goto, Freed
  <2>4. \A w \in Slots : ptable'[w].master # p
    BY <1>9, <2>1, <2>2, SlotFacts, SMTT(30) DEF Freed
  <2>5. PlaceOf(p)' /\ SleeperOf(p)'
    BY <2>3, <2>4, Zenon DEF PlaceOf, SleeperOf, Alive, InLoop, MainOnly
  <2>6. CpuMove(p)
    BY <1>2, <1>9, <2>3, Zenon DEF CpuMove
  <2>7. \A w \in dead : ptable'[w].state = "UNUSED" /\ ptable'[w].master = 0 /\ ptable'[w].parent = 0
    BY <1>9, <2>1 DEF Freed
  <2>8. \A q \in Slots \ dead : /\ ptable'[q].master = ptable[q].master /\ ptable'[q].parent = ptable[q].parent
                                /\ ptable'[q].tid = ptable[q].tid
                                /\ ptable'[q].state \in Alive <=> ptable[q].state \in Alive
                                /\ ptable[q].state \notin Alive => ptable'[q].state = ptable[q].state
    BY <1>2, <1>9, <2>1 DEF Calmly, Freed
  <2>9. \A q \in Slots \ (dead \union {p}) : Undisturbed(q)
    BY <1>2, <1>4, <1>9, <2>1 DEF Undisturbed, Freed
  <2>10. ptable' \in Tables /\ Threads(ptable', nexttid) /\ Parents(ptable') /\ Goto(p, "exit2")
    BY <1>9, <2>1, Zenon
  <2>11. \A w \in dead : /\ ptable[w].state = "ZOMBIE"
                         /\ ptable[w].parent \in {0, p} /\ ptable[w].master \in {0, p}
                         /\ ptable'[w].state = "UNUSED" /\ ptable'[w].master = 0 /\ ptable'[w].parent = 0
    BY <2>1, <2>7, Zenon
  <2>. QED  BY <1>4, <1>5, <1>6, <2>1, <2>5, <2>6, <2>8, <2>9, <2>10, <2>11, FreeStep, Zenon
<1>10. CASE /\ IsMain(p) /\ found # {}
            /\ ptable' = Sleeping(told, p, p) /\ cpu' = cpu \ {p} /\ Goto(p, "exiting")
  <2>1. /\ NextSet(pt, p) = {w \in Slots : pt[w].master = p} /\ pt[p].master = 0
        /\ dead \in SUBSET (Slots \ {p}) /\ found \in SUBSET (Slots \ {p})
        /\ freed \in Tables /\ Threads(freed, nexttid) /\ Parents(freed) /\ Freed(pt, freed, dead)
        /\ \A w \in dead : /\ ptable[w].state = "ZOMBIE"
                           /\ ptable[w].parent \in {0, p} /\ ptable[w].master \in {0, p}
    BY <1>8, <1>10, Zenon
  <2>2. PICK v \in Slots : v \in found /\ v # p /\ v \notin dead /\ pt[v].master = p /\ pt[v].state # "ZOMBIE"
    BY <1>10, <2>1
  <2>3. Told(freed, told, found)
    <3>. HIDE DEF freed, found
    <3>. QED  BY <2>1, TellFields, Zenon
  <2>4. \A q \in Slots : q \in found => q \notin dead
    BY Zenon
  <2>. HIDE DEF pt, dead, freed, found, told
  <2>5. ptable' = SetTo(told, p, "SLEEPING", p) /\ "SLEEPING" \in Alive /\ p \in 0..Ticks
    BY <1>10, SlotFacts, Zenon DEF Sleeping, SetTo, Alive
  <2>6. told \in Tables /\ told[p] = freed[p] /\ told[p].state \in Alive
    BY <1>2, <2>1, <2>3, Zenon DEF Told, Freed, Alive
  <2>7. Moved(told, ptable', p, "SLEEPING", p)
    BY <2>5, <2>6, SetState, Zenon
  <2>8. Calmly(freed, ptable') /\ ptable' \in Tables
    BY <2>3, <2>7, CalmTwice, Zenon DEF Told, Moved
  <2>9. Threads(ptable', nexttid) /\ Parents(ptable')
    BY <2>1, <2>8, CalmTable, Zenon
  <2>10. ptable'[p].state = "SLEEPING" /\ ptable'[p].chan = p /\ pc'[p] = "exiting" /\ Goto(p, "exiting")
    BY <1>4, <1>10, <2>7, Zenon DEF Goto, Moved
  <2>11. ptable'[v].master = p /\ ptable'[v].state \in Alive
    <3>1. pt[v].state \in Alive
      BY <1>3, <2>2, SlotFacts, Zenon DEF Threads
    <3>2. freed[v].state \in Alive /\ freed[v].master = p
      BY <2>1, <2>2, <3>1, Zenon DEF Freed
    <3>. QED  BY <2>8, <3>2, Zenon DEF Calmly
  <2>12. PlaceOf(p)'
    <3>1. ptable'[p].master = 0
      BY <2>1, <2>8, Zenon DEF Freed, Calmly
    <3>. QED  BY <2>10, <3>1, Zenon DEF PlaceOf, Alive, InLoop
  <2>13. SleeperOf(p)'
    BY <2>10, <2>11, Zenon DEF SleeperOf
  <2>14. CpuMove(p)
    BY <1>10, <2>10, Zenon DEF CpuMove
  <2>15. \A w \in dead : ptable'[w].state = "UNUSED" /\ ptable'[w].master = 0 /\ ptable'[w].parent = 0
    BY <2>1, <2>8, SMTT(30) DEF Freed, Calmly, Alive
  <2>16. \A q \in Slots \ dead : /\ ptable'[q].master = ptable[q].master /\ ptable'[q].parent = ptable[q].parent
                                 /\ ptable'[q].tid = ptable[q].tid
                                 /\ ptable'[q].state \in Alive <=> ptable[q].state \in Alive
                                 /\ ptable[q].state \notin Alive => ptable'[q].state = ptable[q].state
    BY <1>2, <2>1, <2>8 DEF Calmly, Freed
  <2>17. \A q \in Slots \ (dead \union {p}) : Undisturbed(q)
    <3>. SUFFICES ASSUME NEW q \in Slots, q \notin dead, q # p  PROVE Undisturbed(q)
      OBVIOUS
    <3>1. ptable'[q] = told[q] /\ pt[q] = ptable[q] /\ arg'[q] = arg[q]
      BY <1>2, <1>4, <2>7, Zenon DEF Moved
    <3>2. freed[q].state = ptable[q].state /\ freed[q].chan = ptable[q].chan /\ freed[q].killed = ptable[q].killed
      BY <2>1, <3>1, Zenon DEF Freed
    <3>3. told[q].chan = freed[q].chan
      BY <2>3, Zenon DEF Told
    <3>4. CASE q \notin found
      <4>1. told[q] = freed[q]
        BY <2>3, <3>4, Zenon DEF Told
      <4>. QED  BY <3>1, <3>2, <4>1, Zenon DEF Undisturbed
    <3>5. CASE q \in found
      <4>1. told[q].state = IF freed[q].state = "SLEEPING" THEN "RUNNABLE" ELSE freed[q].state
        BY <2>3, <3>5, Zenon DEF Told
      <4>. QED  BY <3>1, <3>2, <3>3, <4>1, Zenon DEF Undisturbed
    <3>. QED  BY <3>4, <3>5, Zenon
  <2>18. \A w \in dead : /\ ptable[w].state = "ZOMBIE"
                         /\ ptable[w].parent \in {0, p} /\ ptable[w].master \in {0, p}
                         /\ ptable'[w].state = "UNUSED" /\ ptable'[w].master = 0 /\ ptable'[w].parent = 0
    BY <2>1, <2>15, Zenon
  <2>. QED  BY <1>4, <1>5, <1>6, <2>1, <2>8, <2>9, <2>10, <2>12, <2>13, <2>14, <2>16, <2>17, <2>18, FreeStep, Zenon
<1>. QED  BY <1>7, <1>9, <1>10 DEF ExitThreads
-----------------------------------------------------------------------------
\* The slot that p has taken is nobody else's.
LEMMA TakenSlot ==
  ASSUME ProcInv, NEW p \in Slots, p \in cpu, pc[p] \in Allocating
  PROVE  /\ arg[p] \in Slots /\ arg[p] # p /\ arg[p] # initproc /\ ptable[arg[p]].state = "EMBRYO"
         /\ ptable[arg[p]].master = 0 /\ ptable[arg[p]].parent = 0 /\ pc[arg[p]] \in {"user", "dead"}
         /\ ptable[p].master = 0 /\ ptable[p].state = "RUNNING"
<1>1. arg[p] \in Slots /\ ptable[arg[p]].state = "EMBRYO"
  BY Zenon DEF ProcInv, Embryos
<1>2. ptable[p].state = "RUNNING"
  BY Zenon DEF ProcInv, OnCpu
<1>3. ptable[initproc].state \in Alive /\ PlaceOf(p) /\ PlaceOf(arg[p])
  BY <1>1, Zenon DEF ProcInv, Places
<1>. QED  BY <1>1, <1>2, <1>3, Zenon DEF PlaceOf, Alive, Allocating, MainOnly

\* fork() or thread_create() is done with the slot k that it has taken.
LEMMA FilledStep ==
  ASSUME Counts, ProcInv, NEW p \in Slots, p \in cpu, pc[p] \in Allocating, NEW k, k = arg[p],
         ptable' \in Tables, Threads(ptable', nexttid'), Parents(ptable'),
         nextpid' = nextpid, nexttid' \in Nat \ {0}, cpu' = cpu, arg' = [arg EXCEPT ![p] = 0],
         pc'[p] = "user", pc'[k] \in {"user", "dead"}, pc' \in [Slots -> Labels],
         \A q \in Slots \ {p, k} : pc'[q] = pc[q],
         \A q \in Slots \ {k} : /\ ptable'[q].state = ptable[q].state /\ ptable'[q].chan = ptable[q].chan
                                /\ ptable'[q].killed = ptable[q].killed /\ ptable'[q].parent = ptable[q].parent
                                /\ ptable'[q].master = ptable[q].master /\ ptable'[q].tid = ptable[q].tid,
         ptable'[k].state \in {"UNUSED", "RUNNABLE"}, PlaceOf(k)',
         ptable'[k].master \in {0, p}, ptable'[k].parent \in {0, p}, p = initproc => ptable'[k].master = 0
  PROVE  ProcInv'
<1>1. /\ k \in Slots /\ k # p /\ k # initproc /\ ptable[k].state = "EMBRYO"
      /\ ptable[k].master = 0 /\ ptable[k].parent = 0 /\ pc[k] \in {"user", "dead"}
      /\ ptable[p].master = 0 /\ ptable[p].state = "RUNNING"
  BY TakenSlot, Zenon
<1>2. arg \in [Slots -> Nat] /\ arg' \in [Slots -> Nat] /\ arg'[p] = 0 /\ \A q \in Slots \ {p} : arg'[q] = arg[q]
  BY ProcAssumption, SMTT(30) DEF ProcInv, TypeOK
<1>3. \A q \in Slots : PlaceOf(q) /\ SleeperOf(q)
  BY Zenon DEF ProcInv, Places, Sleepers
<1>4. ASSUME NEW q \in Slots, q # p, q # k
      PROVE  PlaceOf(q)' /\ SleeperOf(q)'
  <2>1. Undisturbed(q) /\ pc'[q] = pc[q] /\ ptable'[q].master = ptable[q].master
        /\ ptable'[q].parent = ptable[q].parent
    BY <1>2, <1>4, Zenon DEF Undisturbed
  <2>2. \A w \in Slots : ptable'[w].master = q => ptable[w].master = q
    BY <1>4, SlotFacts, SMTT(30)
  <2>3. \A w \in Slots : /\ ptable[w].parent = q => ptable'[w].parent = q
                         /\ ptable'[w].parent = q /\ ptable'[w].state = "ZOMBIE"
                              => ptable[w].parent = q /\ ptable[w].state = "ZOMBIE"
    BY <1>1, <1>4, SlotFacts, SMTT(30)
  <2>4. \A w \in Slots : ptable[w].master = q /\ ptable[w].state \in Alive
                           => /\ ptable'[w].master = q /\ ptable'[w].state \in Alive
                              /\ ptable'[w].tid = ptable[w].tid
    BY <1>1, <1>4, SlotFacts, SMTT(30)
  <2>5. \A w \in Slots : ptable[w].master = q => ptable'[w].master = q /\ ptable'[w].tid = ptable[w].tid
    BY <1>1, <1>4, SlotFacts, SMTT(30)
  <2>. QED  BY <1>3, <2>1, <2>2, <2>3, <2>4, <2>5, StaysPut, Zenon
<1>5. PlaceOf(p)' /\ SleeperOf(p)'
  <2>1. ptable'[p].state = "RUNNING"
    BY <1>1, Zenon
  <2>. QED  BY <2>1, UserPlace, Zenon
<1>6. SleeperOf(k)'
  BY Zenon DEF SleeperOf
<1>7. \A q \in Slots : PlaceOf(q)' /\ SleeperOf(q)'
  BY <1>4, <1>5, <1>6, Zenon
<1>8. Places'
  <2>1. /\ ptable[initproc].state \in Alive /\ pc[initproc] \notin NotInit
        /\ ptable[initproc].master = 0 /\ ptable[initproc].parent = 0
        /\ \A w \in Slots : ptable[w].master # initproc
    BY Zenon DEF ProcInv, Places
  <2>2. ptable'[initproc].state \in Alive /\ ptable'[initproc].master = 0 /\ ptable'[initproc].parent = 0
    BY <1>1, <2>1, SlotFacts, ZenonT(40)
  <2>3. pc'[initproc] \notin NotInit
    BY <1>1, <2>1, SlotFacts, Zenon DEF NotInit
  <2>4. \A w \in Slots : ptable'[w].master # initproc
    BY <1>1, <2>1, SlotFacts, SMTT(30)
  <2>. QED  BY <1>7, <2>2, <2>3, <2>4, Zenon DEF Places
<1>9. Embryos'
  <2>1. \A q \in Slots : pc'[q] \in Allocating <=> q # p /\ pc[q] \in Allocating
    BY <1>1, Zenon DEF Allocating
  <2>2. \A q \in Slots : q # p /\ pc[q] \in Allocating => arg[q] # k
    BY Zenon DEF ProcInv, Embryos
  <2>3. \A q \in Slots : ptable'[q].state = "EMBRYO" <=> q # k /\ ptable[q].state = "EMBRYO"
    BY <1>1, Zenon
  <2>4. \A q \in Slots : ptable'[q].state = "EMBRYO" => \E r \in Slots : pc'[r] \in Allocating /\ arg'[r] = q
    <3>. SUFFICES ASSUME NEW q \in Slots, ptable'[q].state = "EMBRYO"
                  PROVE  \E r \in Slots : pc'[r] \in Allocating /\ arg'[r] = q
      BY Zenon
    <3>1. q # k /\ ptable[q].state = "EMBRYO"
      BY <2>3, Zenon
    <3>2. PICK r \in Slots : pc[r] \in Allocating /\ arg[r] = q
      BY <3>1, Zenon DEF ProcInv, Embryos
    <3>3. r # p
      BY <3>1, <3>2, Zenon
    <3>. QED  BY <1>2, <2>1, <3>2, <3>3, Zenon
  <2>5. \A q \in Slots : pc'[q] \in Allocating => arg'[q] \in Slots /\ ptable'[arg'[q]].state = "EMBRYO"
    <3>. SUFFICES ASSUME NEW q \in Slots, pc'[q] \in Allocating
                  PROVE  arg'[q] \in Slots /\ ptable'[arg'[q]].state = "EMBRYO"
      BY Zenon
    <3>1. q # p /\ pc[q] \in Allocating /\ arg'[q] = arg[q] /\ arg[q] # k
      BY <1>2, <2>1, <2>2, Zenon
    <3>2. arg[q] \in Slots /\ ptable[arg[q]].state = "EMBRYO"
      BY <3>1, Zenon DEF ProcInv, Embryos
    <3>. QED  BY <2>3, <3>1, <3>2, ZenonT(40)
  <2>6. \A q, r \in Slots : pc'[q] \in Allocating /\ pc'[r] \in Allocating /\ arg'[q] = arg'[r] => q = r
    BY <1>2, <2>1, SMTT(30) DEF ProcInv, Embryos
  <2>. QED  BY <2>4, <2>5, <2>6, Zenon DEF Embryos
<1>10. OnCpu' /\ cpu' \subseteq Slots /\ Cardinality(cpu') <= NCPU
  <2>1. \A q \in Slots \ {p} : ptable'[q].state = "RUNNING" <=> ptable[q].state = "RUNNING"
    BY <1>1, Zenon
  <2>2. CpuMove(p)
    BY <1>1, Zenon DEF CpuMove
  <2>. QED  BY <2>1, <2>2, CpuStep, Zenon DEF ProcInv
<1>11. Pids' /\ nextpid' \in Nat \ {0}
  <2>1. \A q \in Slots : pc'[q] = "create" => pc[q] = "create"
    BY <1>1, Zenon
  <2>2. nextpid \in Nat
    BY Zenon DEF ProcInv, TypeOK
  <2>. QED  BY <2>1, <2>2, PidsStep, Zenon DEF ProcInv
<1>12. TypeOK'
  BY <1>2, <1>10, <1>11, TypeStep, Zenon
<1>. QED  BY <1>7, <1>8, <1>9, <1>10, <1>11, <1>12, Zenon DEF ProcInv, Sleepers

LEMMA AllocFailsStep ==
  ASSUME Counts, ProcInv, NEW p \in Slots, AllocFails(p)
  PROVE  ProcInv'
<1>1. p \in cpu /\ pc[p] \in Allocating
  BY Zenon DEF AllocFails, Runs, Allocating
<1>. PICK k : k = arg[p]
  OBVIOUS
<1>2. /\ k \in Slots /\ k # p /\ k # initproc /\ ptable[k].state = "EMBRYO"
      /\ ptable[k].master = 0 /\ ptable[k].parent = 0 /\ pc[k] \in {"user", "dead"}
  BY <1>1, TakenSlot, Zenon
<1>3. /\ ptable' = [ptable EXCEPT ![k].state = "UNUSED"] /\ Goto(p, "user")
      /\ nextpid' = nextpid /\ nexttid' = nexttid /\ cpu' = cpu /\ arg' = [arg EXCEPT ![p] = 0]
  BY Zenon DEF AllocFails
<1>4. ptable \in Tables /\ pc \in [Slots -> Labels] /\ nexttid \in Nat \ {0}
  BY TableTyped, Zenon DEF ProcInv, TypeOK, Labels
<1>5. ptable' \in Tables /\ \A q \in Slots \ {k} : ptable'[q] = ptable[q]
  BY <1>2, <1>3, <1>4 DEF Tables, Entries, Alive
<1>6. /\ ptable'[k].state = "UNUSED" /\ ptable'[k].tid = ptable[k].tid /\ ptable'[k].parent = ptable[k].parent
      /\ ptable'[k].master = ptable[k].master /\ ptable'[k].next_thread = ptable[k].next_thread
      /\ ptable'[k].prev_thread = ptable[k].prev_thread
  BY <1>2, <1>3, <1>4, Zenon DEF Tables, Entries
<1>7. Kept(ptable, ptable')
  BY <1>2, <1>5, <1>6, Zenon DEF Kept, Alive
<1>8. Threads(ptable', nexttid') /\ Parents(ptable')
  BY <1>3, <1>4, <1>5, <1>7, KeptTable, Zenon DEF ProcInv
<1>9. pc' \in [Slots -> Labels] /\ pc'[p] = "user" /\ \A q \in Slots \ {p} : pc'[q] = pc[q]
  BY <1>3, <1>4, Zenon DEF Goto, Labels
<1>10. PlaceOf(k)'
  BY <1>2, <1>6, <1>9, Zenon DEF PlaceOf, Alive, MainOnly
<1>11. nexttid' \in Nat \ {0} /\ pc'[k] \in {"user", "dead"} /\ (\A q \in Slots \ {p, k} : pc'[q] = pc[q])
       /\ ptable'[k].master = 0 /\ ptable'[k].parent = 0
  BY <1>2, <1>3, <1>4, <1>6, <1>9, Zenon
<1>. QED  BY <1>1, <1>3, <1>5, <1>6, <1>8, <1>9, <1>10, <1>11, FilledStep, ZenonT(40)

\* The table after fork() has filled the slot k for the main thread p.
LEMMA ForkTable ==
  ASSUME NEW pt \in Tables, NEW nt, Threads(pt, nt), Parents(pt),
         NEW p \in Slots, pt[p].master = 0, pt[p].state \in Alive,
         NEW k \in Slots, k # p, pt[k].state = "EMBRYO", pt[k].master = 0, NEW new \in Tables,
         \A q \in Slots \ {k} : new[q] = pt[q],
         new[k].state = "RUNNABLE", new[k].parent = p, new[k].master = 0, new[k].next_thread = 0
  PROVE  Threads(new, nt) /\ Parents(new)
<1>1. Parents(new)
  <2>. SUFFICES ASSUME NEW q \in Slots, new[q].parent # 0
                PROVE  new[new[q].parent].state \in Alive /\ new[new[q].parent].master = 0 /\ new[q].parent # q
    BY Zenon DEF Parents
  <2>1. CASE q = k
    BY <2>1, Zenon
  <2>2. CASE q # k
    <3>1. new[q].parent = pt[q].parent /\ pt[q].parent \in Slots
      BY <2>2, EntryTyped, Zenon
    <3>2. pt[pt[q].parent].state \in Alive /\ pt[pt[q].parent].master = 0 /\ pt[q].parent # q
      BY <3>1, Zenon DEF Parents
    <3>3. pt[q].parent # k
      BY <3>2, Zenon DEF Alive
    <3>. QED  BY <3>1, <3>2, <3>3, Zenon
  <2>. QED  BY <2>1, <2>2, Zenon
<1>2. ASSUME NEW q \in Slots, new[q].master # 0
      PROVE  /\ new[new[q].master].master = 0 /\ new[new[q].master].state \in Alive
             /\ new[q].state \in Alive \union {"ZOMBIE"} /\ new[q].parent = 0
             /\ new[q].tid \in 1..(nt - 1)
             /\ new[q].prev_thread # 0 /\ new[new[q].prev_thread].next_thread = q
             /\ \/ new[q].prev_thread = new[q].master
                \/ /\ new[new[q].prev_thread].master = new[q].master
                   /\ new[q].tid < new[new[q].prev_thread].tid
  <2>1. q # k /\ new[q] = pt[q] /\ pt[q].master # 0 /\ pt[q].master \in Slots
    BY <1>2, EntryTyped, Zenon
  <2>2. pt[q].prev_thread \in Slots
    BY <2>1, EntryTyped, Zenon DEF Threads
  <2>3. pt[q].master # k /\ pt[q].prev_thread # k
    BY <2>1, SMTT(30) DEF Threads, Alive
  <2>4. new[pt[q].master] = pt[pt[q].master] /\ new[pt[q].prev_thread] = pt[pt[q].prev_thread]
    BY <2>1, <2>2, <2>3, Zenon
  <2>. QED  BY <2>1, <2>4, SMTT(30) DEF Threads
<1>3. ASSUME NEW q \in Slots, new[q].next_thread # 0, new[q].master # 0 \/ new[q].state \in Alive
      PROVE  /\ new[new[q].next_thread].prev_thread = q
             /\ new[new[q].next_thread].master = IF new[q].master = 0 THEN q ELSE new[q].master
  <2>1. q # k /\ new[q] = pt[q] /\ pt[q].next_thread \in Slots
    BY <1>3, EntryTyped, Zenon
  <2>2. /\ pt[pt[q].next_thread].prev_thread = q
        /\ pt[pt[q].next_thread].master = IF pt[q].master = 0 THEN q ELSE pt[q].master
    BY <1>3, <2>1, SMTT(30) DEF Threads
  <2>3. pt[q].next_thread # k
    BY <2>2, SlotFacts, Zenon
  <2>. QED  BY <2>1, <2>2, <2>3, Zenon
<1>. QED  BY <1>1, <1>2, <1>3, Zenon DEF Threads

LEMMA ForkStep ==
  ASSUME Counts, ProcInv, NEW p \in Slots, Fork(p)
  PROVE  ProcInv'
<1>1. p \in cpu /\ pc[p] \in Allocating
  BY Zenon DEF Fork, Runs, Allocating
<1>. PICK k : k = arg[p]
  OBVIOUS
<1>. DEFINE e == [ptable[k] EXCEPT !.state = "RUNNABLE", !.parent = p, !.tid = 0,
                                   !.next_thread = 0, !.prev_thread = 0]
<1>2. /\ k \in Slots /\ k # p /\ k # initproc /\ ptable[k].state = "EMBRYO"
      /\ ptable[k].master = 0 /\ ptable[k].parent = 0 /\ pc[k] \in {"user", "dead"}
      /\ ptable[p].master = 0 /\ ptable[p].state = "RUNNING"
  BY <1>1, TakenSlot, Zenon
<1>3. /\ ptable' = [ptable EXCEPT ![k] = e] /\ pc' = [pc EXCEPT ![p] = "user", ![k] = "user"]
      /\ nextpid' = nextpid /\ nexttid' = nexttid /\ cpu' = cpu /\ arg' = [arg EXCEPT ![p] = 0]
  BY Zenon DEF Fork
<1>4. ptable \in Tables /\ pc \in [Slots -> Labels] /\ nexttid \in Nat \ {0}
  BY TableTyped, Zenon DEF ProcInv, TypeOK, Labels
<1>5. e \in Entries
  <2>1. ptable[k] \in Entries /\ p \in 0..NPROC /\ 0 \in 0..NPROC /\ 0 \in Nat
    BY <1>2, <1>4, ProcAssumption DEF Tables, Slots
  <2>. QED  BY <2>1, EntrySet, Zenon
<1>6. /\ e.state = "RUNNABLE" /\ e.parent = p /\ e.master = 0 /\ e.next_thread = 0
  BY <1>2, <1>4, Zenon DEF Tables, Entries
<1>. HIDE DEF e
<1>7. ptable' \in Tables /\ ptable'[k] = e /\ \A q \in Slots \ {k} : ptable'[q] = ptable[q]
  BY <1>2, <1>3, <1>4, <1>5, Zenon DEF Tables
<1>8. Threads(ptable', nexttid') /\ Parents(ptable')
  <2>1. ptable[p].state \in Alive /\ Threads(ptable, nexttid) /\ Parents(ptable)
    BY <1>2, Zenon DEF Alive, ProcInv
  <2>2. /\ ptable'[k].state = "RUNNABLE" /\ ptable'[k].parent = p
        /\ ptable'[k].master = 0 /\ ptable'[k].next_thread = 0
    BY <1>6, <1>7, Zenon
  <2>3. Threads(ptable', nexttid) /\ Parents(ptable')
    BY <1>2, <1>4, <1>7, <2>1, <2>2, ForkTable, SMTT(30)
  <2>. QED  BY <1>3, <2>3, Zenon
<1>9. pc' \in [Slots -> Labels] /\ pc'[p] = "user" /\ pc'[k] = "user" /\ \A q \in Slots \ {p, k} : pc'[q] = pc[q]
  BY <1>2, <1>3, <1>4, Zenon DEF Labels
<1>10. PlaceOf(k)'
  BY <1>6, <1>7, <1>9, Zenon DEF PlaceOf, Alive, MainOnly
<1>11. /\ \A q \in Slots \ {k} : /\ ptable'[q].state = ptable[q].state /\ ptable'[q].chan = ptable[q].chan
                                  /\ ptable'[q].killed = ptable[q].killed /\ ptable'[q].parent = ptable[q].parent
                                  /\ ptable'[q].master = ptable[q].master /\ ptable'[q].tid = ptable[q].tid
       /\ ptable'[k].state \in {"UNUSED", "RUNNABLE"}
       /\ ptable'[k].master \in {0, p} /\ ptable'[k].parent \in {0, p} /\ ptable'[k].master = 0
  BY <1>6, <1>7, Zenon
<1>12. nexttid' \in Nat \ {0} /\ pc'[k] \in {"user", "dead"}
  BY <1>3, <1>4, <1>9, Zenon
<1>. QED  BY <1>1, <1>3, <1>7, <1>8, <1>9, <1>10, <1>11, <1>12, FilledStep, ZenonT(40)

\* "--nextpid" gives back the pid that allocproc() took.
LEMMA ReturnPidStep ==
  ASSUME Counts, ProcInv, NEW p \in Slots, ReturnPid(p)
  PROVE  ProcInv'
<1>1. /\ p \in cpu /\ pc[p] = "create" /\ nextpid' = nextpid - 1 /\ pc' = [pc EXCEPT ![p] = "create2"]
      /\ ptable' = ptable /\ nexttid' = nexttid /\ cpu' = cpu /\ arg' = arg
  BY Zenon DEF ReturnPid, Runs, Goto
<1>2. pc \in [Slots -> Labels] /\ nextpid \in Nat /\ nexttid \in Nat \ {0} /\ ptable \in Tables
  BY TableTyped, Zenon DEF ProcInv, TypeOK, Labels
<1>3. pc' \in [Slots -> Labels] /\ pc'[p] = "create2" /\ \A q \in Slots \ {p} : pc'[q] = pc[q]
  BY <1>1, <1>2, Zenon DEF Labels
<1>4. ptable[p].state = "RUNNING" /\ PlaceOf(p)
  BY <1>1, Zenon DEF ProcInv, OnCpu, Places
<1>5. \A q \in Slots : PlaceOf(q)' /\ SleeperOf(q)'
  <2>1. \A q \in Slots : PlaceOf(q) /\ SleeperOf(q)
    BY Zenon DEF ProcInv, Places, Sleepers
  <2>2. Calmly(ptable, ptable') /\ \A q \in Slots : Undisturbed(q)
    BY <1>1, Zenon DEF Calmly, Undisturbed
  <2>3. \A q \in Slots \ {p} : PlaceOf(q)' /\ SleeperOf(q)'
    BY <1>3, <2>1, <2>2, StaysPlaced, Zenon
  <2>4. PlaceOf(p)' /\ SleeperOf(p)'
    BY <1>1, <1>3, <1>4, Zenon DEF PlaceOf, SleeperOf, Alive, InLoop, MainOnly
  <2>. QED  BY <2>3, <2>4, Zenon
<1>6. p # initproc
  BY <1>1, Zenon DEF ProcInv, Places, NotInit
<1>7. Places'
  <2>1. pc'[initproc] \notin NotInit
    BY <1>3, <1>6, SlotFacts, Zenon DEF ProcInv, Places
  <2>. QED  BY <1>1, <1>5, <2>1, Zenon DEF ProcInv, Places
<1>8. Embryos'
  <2>1. \A q \in Slots : pc'[q] \in Allocating <=> pc[q] \in Allocating
    BY <1>1, <1>3, Zenon DEF Allocating
  <2>. QED  BY <1>1, <2>1, Zenon DEF ProcInv, Embryos
<1>9. OnCpu' /\ Threads(ptable', nexttid') /\ Parents(ptable') /\ cpu' \subseteq Slots /\ Cardinality(cpu') <= NCPU
  BY <1>1, Zenon DEF ProcInv, OnCpu, TypeOK
<1>10. Pids' /\ nextpid' \in Nat \ {0}
  <2>. DEFINE old == {q \in Slots : pc[q] = "create"}
              new == {q \in Slots : pc'[q] = "create"}
  <2>1. new \in SUBSET Slots /\ old \in SUBSET Slots
    BY Zenon
  <2>3. new = old \ {p} /\ p \in old
    BY <1>1, <1>3, Zenon
  <2>4. Cardinality(old \ {p}) = IF p \in old THEN Cardinality(old) - 1 ELSE Cardinality(old)
    BY <2>1, Zenon DEF Counts
  <2>5. Cardinality(old) \in Nat /\ Cardinality(new) \in Nat
    BY <2>1, Zenon DEF Counts
  <2>6. nextpid >= 2 + Cardinality(old)
    BY Zenon DEF ProcInv, Pids
  <2>7. Pids' <=> nextpid' >= 2 + Cardinality(new)
    BY Zenon DEF Pids
  <2>. HIDE DEF old, new
  <2>. QED  BY <1>1, <1>2, <2>3, <2>4, <2>5, <2>6, <2>7
<1>11. TypeOK'
  <2>1. ptable' \in Tables /\ nexttid' \in Nat \ {0} /\ arg' \in [Slots -> Nat]
    BY <1>1, <1>2, Zenon DEF ProcInv, TypeOK
  <2>. QED  BY <1>3, <1>9, <1>10, <2>1, TypeStep, Zenon
<1>. QED  BY <1>5, <1>7, <1>8, <1>9, <1>10, <1>11, Zenon DEF ProcInv, Sleepers

\* allocproc() takes a free slot for fork() or thread_create().
LEMMA AllocprocStep ==
  ASSUME Counts, Calm, ProcInv, NEW p \in Slots, NEW call \in {"fork", "create"}, Allocproc(p, call)
  PROVE  ProcInv'
<1>1. /\ p \in cpu /\ pc[p] = "user" /\ ptable[p].state = "RUNNING" /\ ptable[p].master = 0
      /\ p = initproc => call = "fork"
  BY CallFacts, Zenon DEF Allocproc
<1>2. PICK k \in Slots : /\ ptable[k].state = "UNUSED"
                         /\ ptable' = [ptable EXCEPT ![k].state = "EMBRYO", ![k].pid = nextpid]
                         /\ arg' = [arg EXCEPT ![p] = k]
  BY Zenon DEF Allocproc
<1>3. nextpid' = nextpid + 1 /\ nexttid' = nexttid /\ cpu' = cpu /\ pc' = [pc EXCEPT ![p] = call]
  BY Zenon DEF Allocproc, Goto
<1>4. /\ ptable \in Tables /\ pc \in [Slots -> Labels] /\ nextpid \in Nat /\ nexttid \in Nat \ {0}
      /\ arg \in [Slots -> Nat]
  BY TableTyped, Zenon DEF ProcInv, TypeOK, Labels
<1>. DEFINE e == [ptable[k] EXCEPT !.state = "EMBRYO", !.pid = nextpid]
<1>5. e \in Entries
  <2>1. ptable[k] \in Entries
    BY <1>4, Zenon DEF Tables
  <2>. QED  BY <1>4, <2>1, EntrySet, Zenon
<1>6. /\ e.state = "EMBRYO" /\ e.parent = ptable[k].parent /\ e.master = ptable[k].master
      /\ e.tid = ptable[k].tid /\ e.next_thread = ptable[k].next_thread /\ e.prev_thread = ptable[k].prev_thread
  BY <1>4, Zenon DEF Tables, Entries
<1>7. ptable' = [ptable EXCEPT ![k] = e]
  BY <1>2, <1>4, Zenon DEF Tables
<1>. HIDE DEF e
<1>8. ptable' \in Tables /\ ptable'[k] = e /\ \A q \in Slots \ {k} : ptable'[q] = ptable[q]
  BY <1>4, <1>5, <1>7, Zenon DEF Tables
<1>9. k # p /\ k # initproc /\ ptable[k].master = 0 /\ ptable[k].parent = 0 /\ pc[k] \in {"user", "dead"}
  <2>1. PlaceOf(k) /\ ptable[initproc].state \in Alive
    BY Zenon DEF ProcInv, Places
  <2>. QED  BY <1>1, <1>2, <2>1, Zenon DEF PlaceOf, Alive
<1>10. Kept(ptable, ptable')
  BY <1>2, <1>6, <1>8, <1>9, Zenon DEF Kept, Alive
<1>11. Threads(ptable', nexttid') /\ Parents(ptable')
  BY <1>3, <1>4, <1>8, <1>10, KeptTable, Zenon DEF ProcInv
<1>12. /\ pc' \in [Slots -> Labels] /\ pc'[p] = call /\ \A q \in Slots \ {p} : pc'[q] = pc[q]
       /\ arg' \in [Slots -> Nat] /\ arg'[p] = k /\ \A q \in Slots \ {p} : arg'[q] = arg[q]
  BY <1>2, <1>3, <1>4 DEF Labels, Slots
<1>13. \A q \in Slots : PlaceOf(q)' /\ SleeperOf(q)'
  <2>1. \A q \in Slots : PlaceOf(q) /\ SleeperOf(q)
    BY Zenon DEF ProcInv, Places, Sleepers
  <2>2. ASSUME NEW q \in Slots, q # p, q # k
        PROVE  PlaceOf(q)' /\ SleeperOf(q)'
    <3>1. Undisturbed(q) /\ pc'[q] = pc[q] /\ ptable'[q] = ptable[q]
      BY <1>8, <1>12, <2>2, Zenon DEF Undisturbed
    <3>2. \A w \in Slots : /\ ptable'[w].master = ptable[w].master /\ ptable'[w].parent = ptable[w].parent
                           /\ ptable'[w].tid = ptable[w].tid
                           /\ ptable'[w].state \in Alive <=> ptable[w].state \in Alive
                           /\ ptable'[w].state = "ZOMBIE" => ptable[w].state = "ZOMBIE"
      BY <1>6, <1>8, <1>10, Zenon DEF Kept
    <3>. QED  BY <2>1, <3>1, <3>2, StaysPut, Zenon
  <2>3. PlaceOf(k)' /\ SleeperOf(k)'
    BY <1>6, <1>8, <1>9, <1>12, Zenon DEF PlaceOf, SleeperOf, Alive, MainOnly
  <2>4. PlaceOf(p)' /\ SleeperOf(p)'
    BY <1>1, <1>8, <1>9, <1>12, Zenon DEF PlaceOf, SleeperOf, Alive, InLoop
  <2>. QED  BY <2>2, <2>3, <2>4, Zenon
<1>14. Places'
  <2>1. pc'[initproc] \notin NotInit
    BY <1>1, <1>12, SlotFacts DEF ProcInv, Places, NotInit
  <2>2. /\ ptable'[initproc] = ptable[initproc]
        /\ \A w \in Slots : ptable'[w].master = ptable[w].master
    BY <1>6, <1>8, <1>9, SlotFacts, Zenon
  <2>. QED  BY <1>13, <2>1, <2>2 DEF ProcInv, Places
<1>15. Embryos'
  <2>1. \A q \in Slots : pc'[q] \in Allocating <=> q = p \/ pc[q] \in Allocating
    BY <1>12, Zenon DEF Allocating
  <2>2. \A q \in Slots : ptable'[q].state = "EMBRYO" <=> q = k \/ ptable[q].state = "EMBRYO"
    BY <1>6, <1>8, Zenon
  <2>3. pc[p] \notin Allocating
    BY <1>1, Zenon DEF Allocating
  <2>4. \A q \in Slots : pc[q] \in Allocating => arg[q] # k /\ q # p
    BY <1>2, <2>3, Zenon DEF ProcInv, Embryos
  <2>. QED  BY <1>12, <2>1, <2>2, <2>4, SMTT(30) DEF ProcInv, Embryos
<1>16. OnCpu' /\ cpu' \subseteq Slots /\ Cardinality(cpu') <= NCPU
  <2>1. \A q \in Slots \ {p} : ptable'[q].state = "RUNNING" <=> ptable[q].state = "RUNNING"
    BY <1>2, <1>6, <1>8, Zenon
  <2>2. CpuMove(p)
    BY <1>3, <1>8, <1>9, Zenon DEF CpuMove
  <2>. QED  BY <2>1, <2>2, CpuStep, Zenon DEF ProcInv
<1>17. Pids' /\ nextpid' \in Nat \ {0}
  <2>. DEFINE old == {q \in Slots : pc[q] = "create"}
              new == {q \in Slots : pc'[q] = "create"}
  <2>1. new \in SUBSET Slots /\ old \in SUBSET Slots /\ old \union {p} \in SUBSET Slots
    BY Zenon
  <2>3. new \subseteq old \union {p}
    BY <1>12, Zenon
  <2>4. Cardinality(old \union {p}) = IF p \in old THEN Cardinality(old) ELSE Cardinality(old) + 1
    BY <2>1, Zenon DEF Counts
  <2>5. Cardinality(new) <= Cardinality(old \union {p})
    <3>. HIDE DEF old, new
    <3>1. \A S, T \in SUBSET Slots : S \subseteq T => Cardinality(S) <= Cardinality(T)
      BY Zenon DEF Counts
    <3>. QED  BY <2>1, <2>3, <3>1, Zenon
  <2>6. Cardinality(old) \in Nat /\ Cardinality(new) \in Nat
    BY <2>1, Zenon DEF Counts
  <2>7. nextpid >= 2 + Cardinality(old)
    BY Zenon DEF ProcInv, Pids
  <2>8. Pids' <=> nextpid' >= 2 + Cardinality(new)
    BY Zenon DEF Pids
  <2>. HIDE DEF old, new
  <2>. QED  BY <1>3, <1>4, <2>4, <2>5, <2>6, <2>7, <2>8
<1>18. TypeOK'
  <2>1. nexttid' \in Nat \ {0}
    BY <1>3, <1>4, Zenon
  <2>. QED  BY <1>8, <1>12, <1>16, <1>17, <2>1, TypeStep, Zenon
<1>. QED  BY <1>11, <1>13, <1>14, <1>15, <1>16, <1>17, <1>18, Zenon DEF ProcInv, Sleepers

\* thread_create() puts the new thread first into its master's list.
Linked(pt, new, p, k, nt) ==
  /\ new[k].state = "RUNNABLE" /\ new[k].master = p /\ new[k].parent = 0 /\ new[k].tid = nt
  /\ new[k].prev_thread = p /\ new[k].next_thread = pt[p].next_thread /\ new[p].next_thread = k
  /\ \A q \in Slots \ {p, k} : new[q].next_thread = pt[q].next_thread
  /\ \A q \in Slots \ {k} :
       /\ new[q].state = pt[q].state /\ new[q].master = pt[q].master /\ new[q].parent = pt[q].parent
       /\ new[q].tid = pt[q].tid /\ new[q].chan = pt[q].chan /\ new[q].killed = pt[q].killed
       /\ new[q].prev_thread = IF q = pt[p].next_thread THEN k ELSE pt[q].prev_thread

LEMMA LinkTable ==
  ASSUME NEW pt \in Tables, NEW nt \in Nat \ {0}, Threads(pt, nt), Parents(pt),
         NEW p \in Slots, pt[p].master = 0, pt[p].state \in Alive,
         NEW k \in Slots, k # p, pt[k].state = "EMBRYO", pt[k].master = 0,
         NEW new \in Tables, Linked(pt, new, p, k, nt)
  PROVE  Threads(new, nt + 1) /\ Parents(new)
<1>0. k \notin {0} /\ p # 0 /\ pt[k].state \notin Alive
  BY SlotFacts, Zenon DEF Alive
<1>1. Parents(new)
  <2>. SUFFICES ASSUME NEW q \in Slots, new[q].parent # 0
                PROVE  new[new[q].parent].state \in Alive /\ new[new[q].parent].master = 0 /\ new[q].parent # q
    BY Zenon DEF Parents
  <2>1. q # k /\ new[q].parent = pt[q].parent /\ pt[q].parent \in Slots
    BY EntryTyped, SMTT(30) DEF Linked
  <2>2. pt[pt[q].parent].state \in Alive /\ pt[pt[q].parent].master = 0 /\ pt[q].parent # q
    BY <2>1, Zenon DEF Parents
  <2>3. pt[q].parent # k
    BY <1>0, <2>2, Zenon
  <2>. QED  BY <2>1, <2>2, <2>3, SMTT(30) DEF Linked
<1>2. ASSUME NEW q \in Slots, new[q].master # 0
      PROVE  /\ new[new[q].master].master = 0 /\ new[new[q].master].state \in Alive
             /\ new[q].state \in Alive \union {"ZOMBIE"} /\ new[q].parent = 0
             /\ new[q].tid \in 1..((nt + 1) - 1)
             /\ new[q].prev_thread # 0 /\ new[new[q].prev_thread].next_thread = q
             /\ \/ new[q].prev_thread = new[q].master
                \/ /\ new[new[q].prev_thread].master = new[q].master
                   /\ new[q].tid < new[new[q].prev_thread].tid
  <2>1. CASE q = k
    BY <1>0, <2>1, SMTT(30) DEF Linked, Alive
  <2>2. CASE q # k
    <3>1. /\ new[q].master = pt[q].master /\ pt[q].master # 0 /\ pt[q].master \in Slots
          /\ new[q].state = pt[q].state /\ new[q].parent = pt[q].parent /\ new[q].tid = pt[q].tid
      BY <1>2, <2>2, EntryTyped, SMTT(30) DEF Linked
    <3>2. /\ pt[pt[q].master].master = 0 /\ pt[pt[q].master].state \in Alive
          /\ pt[q].state \in Alive \union {"ZOMBIE"} /\ pt[q].parent = 0
          /\ pt[q].tid \in 1..(nt - 1) /\ pt[q].prev_thread \in Slots
          /\ pt[q].prev_thread # 0 /\ pt[pt[q].prev_thread].next_thread = q
          /\ \/ pt[q].prev_thread = pt[q].master
             \/ /\ pt[pt[q].prev_thread].master = pt[q].master
                /\ pt[q].tid < pt[pt[q].prev_thread].tid
      BY <3>1, EntryTyped DEF Threads
    <3>3. pt[q].master # k /\ pt[q].prev_thread # k
      BY <1>0, <3>1, <3>2, Zenon
    <3>4. new[new[q].master].master = 0 /\ new[new[q].master].state \in Alive
      BY <3>1, <3>2, <3>3, SMTT(30) DEF Linked
    <3>5. new[q].tid \in 1..((nt + 1) - 1) /\ new[q].tid < nt
      BY <3>1, <3>2, SMTT(30)
    <3>6. CASE q = pt[p].next_thread
      <4>1. pt[q].master = p
        BY <1>0, <3>6, SlotFacts DEF Threads
      <4>2. new[q].prev_thread = k /\ new[k].next_thread = q /\ new[k].master = p /\ new[k].tid = nt
        BY <2>2, <3>6, Zenon DEF Linked
      <4>. QED  BY <1>0, <3>1, <3>2, <3>4, <3>5, <4>1, <4>2
    <3>7. CASE q # pt[p].next_thread
      <4>1. pt[q].prev_thread # p
        BY <3>2, <3>7
      <4>2. new[q].prev_thread = pt[q].prev_thread
        BY <2>2, <3>7, Zenon DEF Linked
      <4>3. /\ new[pt[q].prev_thread].next_thread = pt[pt[q].prev_thread].next_thread
            /\ new[pt[q].prev_thread].master = pt[pt[q].prev_thread].master
            /\ new[pt[q].prev_thread].tid = pt[pt[q].prev_thread].tid
        BY <3>2, <3>3, <4>1 DEF Linked
      <4>. QED  BY <3>1, <3>2, <3>4, <3>5, <4>2, <4>3
    <3>. QED  BY <3>6, <3>7
  <2>. QED  BY <2>1, <2>2
<1>3. ASSUME NEW q \in Slots, new[q].next_thread # 0, new[q].master # 0 \/ new[q].state \in Alive
      PROVE  /\ new[new[q].next_thread].prev_thread = q
             /\ new[new[q].next_thread].master = IF new[q].master = 0 THEN q ELSE new[q].master
  <2>1. pt[p].next_thread # 0 => /\ pt[p].next_thread \in Slots /\ pt[p].next_thread # k
                                 /\ pt[pt[p].next_thread].prev_thread = p
                                 /\ pt[pt[p].next_thread].master = p
    BY <1>0, EntryTyped DEF Threads
  <2>2. CASE q = k
    BY <1>0, <1>3, <2>1, <2>2, SMTT(30) DEF Linked
  <2>3. CASE q = p
    BY <1>0, <2>3, ZenonT(40) DEF Linked
  <2>4. CASE q # p /\ q # k
    <3>1. /\ new[q].next_thread = pt[q].next_thread /\ pt[q].next_thread \in Slots
          /\ new[q].master = pt[q].master /\ new[q].state = pt[q].state
      BY <1>3, <2>4, EntryTyped, SMTT(30) DEF Linked
    <3>2. /\ pt[pt[q].next_thread].prev_thread = q
          /\ pt[pt[q].next_thread].master = IF pt[q].master = 0 THEN q ELSE pt[q].master
      BY <1>3, <3>1, Zenon DEF Threads
    <3>3. pt[q].next_thread # k /\ pt[q].next_thread # pt[p].next_thread
      BY <1>3, <2>1, <2>4, <3>1, <3>2, SlotFacts, Zenon
    <3>. QED  BY <3>1, <3>2, <3>3, SMTT(30) DEF Linked
  <2>. QED  BY <2>2, <2>3, <2>4, Zenon
<1>. QED  BY <1>1, <1>2, <1>3, Zenon DEF Threads

LEMMA ThreadCreateStep ==
  ASSUME Counts, ProcInv, NEW p \in Slots, ThreadCreate(p)
  PROVE  ProcInv'
<1>1. p \in cpu /\ pc[p] = "create2" /\ pc[p] \in Allocating
  BY Zenon DEF ThreadCreate, Runs, Allocating
<1>. PICK k : k = arg[p]
  OBVIOUS
<1>2. /\ k \in Slots /\ k # p /\ k # initproc /\ ptable[k].state = "EMBRYO"
      /\ ptable[k].master = 0 /\ ptable[k].parent = 0 /\ pc[k] \in {"user", "dead"}
      /\ ptable[p].master = 0 /\ ptable[p].state = "RUNNING"
  BY <1>1, TakenSlot, Zenon
<1>3. /\ ptable' = LinkThread(ptable, p, k) /\ pc' = [pc EXCEPT ![p] = "user", ![k] = "user"]
      /\ nextpid' = nextpid /\ nexttid' = nexttid + 1 /\ cpu' = cpu /\ arg' = [arg EXCEPT ![p] = 0]
  BY Zenon DEF ThreadCreate
<1>4. ptable \in Tables /\ pc \in [Slots -> Labels] /\ nexttid \in Nat \ {0}
  BY TableTyped, Zenon DEF ProcInv, TypeOK, Labels
<1>. DEFINE n == ptable[p].next_thread
            e == [ptable[k] EXCEPT !.state = "RUNNABLE", !.master = p, !.pid = ptable[p].pid,
                    !.tid = nexttid, !.prev_thread = p, !.next_thread = n]
            f == [ptable[p] EXCEPT !.next_thread = k]
            g == [ptable[n] EXCEPT !.prev_thread = k]
<1>5. /\ p \in 0..NPROC /\ k \in 0..NPROC /\ n \in 0..NPROC /\ ptable[p].pid \in Nat /\ nexttid \in Nat
      /\ ptable[k] \in Entries /\ ptable[p] \in Entries /\ (n \in Slots => ptable[n] \in Entries)
  BY <1>2, <1>4, SlotFacts, Zenon DEF Tables, Entries
<1>6. e \in Entries /\ f \in Entries /\ (n \in Slots => g \in Entries)
  BY <1>5, EntrySet, Zenon
<1>7. /\ e.state = "RUNNABLE" /\ e.master = p /\ e.parent = 0 /\ e.tid = nexttid
      /\ e.prev_thread = p /\ e.next_thread = n
  BY <1>2, <1>5, Zenon DEF Entries
<1>8. /\ f.next_thread = k /\ f.state = ptable[p].state /\ f.master = ptable[p].master
      /\ f.parent = ptable[p].parent /\ f.tid = ptable[p].tid /\ f.chan = ptable[p].chan
      /\ f.killed = ptable[p].killed /\ f.prev_thread = ptable[p].prev_thread
  BY <1>5, Zenon DEF Entries
<1>9. n \in Slots =>
        /\ g.next_thread = ptable[n].next_thread /\ g.state = ptable[n].state /\ g.master = ptable[n].master
        /\ g.parent = ptable[n].parent /\ g.tid = ptable[n].tid /\ g.chan = ptable[n].chan
        /\ g.killed = ptable[n].killed /\ g.prev_thread = k
  BY <1>5, Zenon DEF Entries
<1>10. /\ ptable'[k] = e /\ ptable'[p] = f /\ (n \in Slots => n # p /\ n # k /\ ptable'[n] = g)
       /\ \A q \in Slots : q # p /\ q # k /\ q # n => ptable'[q] = ptable[q]
  <2>1. n \in Slots => n # p /\ n # k
    BY <1>2, SlotFacts, SMTT(30) DEF ProcInv, Threads, Alive
  <2>. QED  BY <1>2, <1>3, <2>1, Zenon DEF LinkThread
<1>. HIDE DEF e, f, g
<1>11. ptable' \in Tables
  <2>1. ptable' = [q \in Slots |-> ptable'[q]]
    BY <1>3, Zenon DEF LinkThread
  <2>2. \A q \in Slots : ptable'[q] \in Entries
    BY <1>4, <1>6, <1>10, Zenon DEF Tables
  <2>. QED  BY <2>1, <2>2, Zenon DEF Tables
<1>12. n \notin Slots => n = 0
  BY <1>5, SlotFacts, Zenon
<1>13. Linked(ptable, ptable', p, k, nexttid)
  <2>1. ASSUME NEW q \in Slots \ {k}
        PROVE /\ ptable'[q].state = ptable[q].state /\ ptable'[q].master = ptable[q].master
              /\ ptable'[q].parent = ptable[q].parent /\ ptable'[q].tid = ptable[q].tid
              /\ ptable'[q].chan = ptable[q].chan /\ ptable'[q].killed = ptable[q].killed
              /\ ptable'[q].prev_thread = IF q = n THEN k ELSE ptable[q].prev_thread
              /\ q # p => ptable'[q].next_thread = ptable[q].next_thread
    <3>1. CASE q = p
      BY <1>8, <1>10, <3>1, SlotFacts, Zenon
    <3>2. CASE q = n /\ q # p
      BY <1>9, <1>10, <3>2
    <3>3. CASE q # n /\ q # p
      BY <1>10, <3>3, Zenon
    <3>. QED  BY <3>1, <3>2, <3>3, Zenon
  <2>. QED  BY <1>7, <1>8, <1>10, <2>1, Zenon DEF Linked
<1>14. Threads(ptable', nexttid') /\ Parents(ptable')
  <2>1. ptable[p].state \in Alive /\ Threads(ptable, nexttid) /\ Parents(ptable)
    BY <1>2, Zenon DEF Alive, ProcInv
  <2>2. Threads(ptable', nexttid + 1) /\ Parents(ptable')
    BY <1>2, <1>4, <1>11, <1>13, <2>1, LinkTable, Zenon
  <2>. QED  BY <1>3, <2>2, Zenon
<1>15. /\ pc' \in [Slots -> Labels] /\ pc'[p] = "user" /\ pc'[k] \in {"user", "dead"}
       /\ \A q \in Slots \ {p, k} : pc'[q] = pc[q]
  BY <1>2, <1>3, <1>4, Zenon DEF Labels
<1>16. ptable'[k].state = "RUNNABLE" /\ ptable'[k].master = p /\ ptable'[k].parent = 0
  BY <1>7, <1>10, Zenon
<1>17. PlaceOf(k)'
  <2>1. pc'[k] = "user"
    BY <1>2, <1>3, <1>4, Zenon DEF Labels
  <2>. QED  BY <1>16, <2>1, Zenon DEF PlaceOf, Alive, MainOnly
<1>18. p # initproc
  BY <1>1, Zenon DEF ProcInv, Places, NotInit
<1>19. /\ \A q \in Slots \ {k} : /\ ptable'[q].state = ptable[q].state /\ ptable'[q].chan = ptable[q].chan
                                  /\ ptable'[q].killed = ptable[q].killed /\ ptable'[q].parent = ptable[q].parent
                                  /\ ptable'[q].master = ptable[q].master /\ ptable'[q].tid = ptable[q].tid
       /\ ptable'[k].state \in {"UNUSED", "RUNNABLE"}
       /\ ptable'[k].master \in {0, p} /\ ptable'[k].parent \in {0, p}
       /\ p = initproc => ptable'[k].master = 0
  BY <1>13, <1>16, <1>18, Zenon DEF Linked
<1>20. nexttid' \in Nat \ {0}
  BY <1>3, <1>4
<1>. QED  BY <1>1, <1>3, <1>11, <1>14, <1>15, <1>17, <1>19, <1>20, FilledStep, ZenonT(40)

\* How p ends: it becomes a zombie, its children go to init, and whoever
\* sleeps until p ends is woken.
Ends(p) ==
  /\ ptable'[p].state = "ZOMBIE" /\ pc' = [pc EXCEPT ![p] = "dead"] /\ cpu' = cpu \ {p}
  /\ \A q \in Slots :
       /\ ptable'[q].tid = ptable[q].tid /\ ptable'[q].master = ptable[q].master
       /\ ptable'[q].next_thread = ptable[q].next_thread /\ ptable'[q].prev_thread = ptable[q].prev_thread
       /\ ptable'[q].parent = IF ptable[q].parent = p THEN initproc ELSE ptable[q].parent
  /\ \A q \in Slots \ {p} :
       /\ Undisturbed(q)
       /\ ptable'[q].state = "SLEEPING" /\ pc[q] \in InLoop =>
            /\ q # ptable[p].parent /\ q # ptable[p].master
            /\ q = initproc => \A w \in Slots : ptable[w].parent = p => ptable[w].state # "ZOMBIE"

LEMMA EndTable ==
  ASSUME ProcInv, NEW p \in Slots, p # initproc, ptable[p].state = "RUNNING",
         \A w \in Slots : ptable[w].master # p, ptable' \in Tables, Ends(p)
  PROVE  Threads(ptable', nexttid) /\ Parents(ptable')
<1>1. /\ ptable \in Tables /\ Threads(ptable, nexttid) /\ Parents(ptable)
      /\ ptable[initproc].state \in Alive /\ ptable[initproc].master = 0 /\ ptable[initproc].parent = 0
  BY TableTyped, Zenon DEF ProcInv, Places
<1>2. \A q \in Slots : /\ q # p => (ptable'[q].state \in Alive <=> ptable[q].state \in Alive)
                       /\ q # p /\ ptable[q].state \notin Alive => ptable'[q].state = ptable[q].state
  BY Zenon DEF Ends, Undisturbed, Alive
<1>3. \A q \in Slots : /\ ptable'[q].tid = ptable[q].tid /\ ptable'[q].master = ptable[q].master
                       /\ ptable'[q].next_thread = ptable[q].next_thread
                       /\ ptable'[q].prev_thread = ptable[q].prev_thread
                       /\ ptable'[q].parent = IF ptable[q].parent = p THEN initproc ELSE ptable[q].parent
  BY Zenon DEF Ends
<1>4. ptable'[p].state = "ZOMBIE" /\ "ZOMBIE" \notin Alive /\ p # 0
  BY SlotFacts, Zenon DEF Ends, Alive
<1>5. ASSUME NEW q \in Slots, ptable'[q].master # 0
      PROVE  /\ ptable'[ptable'[q].master].master = 0 /\ ptable'[ptable'[q].master].state \in Alive
             /\ ptable'[q].state \in Alive \union {"ZOMBIE"} /\ ptable'[q].parent = 0
             /\ ptable'[q].tid \in 1..(nexttid - 1)
             /\ ptable'[q].prev_thread # 0 /\ ptable'[ptable'[q].prev_thread].next_thread = q
             /\ \/ ptable'[q].prev_thread = ptable'[q].master
                \/ /\ ptable'[ptable'[q].prev_thread].master = ptable'[q].master
                   /\ ptable'[q].tid < ptable'[ptable'[q].prev_thread].tid
  <2>1. ptable[q].master # 0 /\ ptable[q].master \in Slots /\ ptable[q].master # p
    BY <1>1, <1>3, <1>5, EntryTyped
  <2>2. ptable[q].prev_thread \in Slots
    BY <1>1, <2>1, EntryTyped, Zenon DEF Threads
  <2>3. /\ ptable[ptable[q].master].master = 0 /\ ptable[ptable[q].master].state \in Alive
        /\ ptable[q].state \in Alive \union {"ZOMBIE"} /\ ptable[q].parent = 0
        /\ ptable[q].tid \in 1..(nexttid - 1)
        /\ ptable[q].prev_thread # 0 /\ ptable[ptable[q].prev_thread].next_thread = q
        /\ \/ ptable[q].prev_thread = ptable[q].master
           \/ /\ ptable[ptable[q].prev_thread].master = ptable[q].master
              /\ ptable[q].tid < ptable[ptable[q].prev_thread].tid
    BY <1>1, <2>1, Zenon DEF Threads
  <2>4. ptable'[q].state \in Alive \union {"ZOMBIE"} /\ ptable'[q].parent = 0
    BY <1>2, <1>3, <1>4, <2>3, Zenon
  <2>. QED  BY <1>2, <1>3, <2>1, <2>2, <2>3, <2>4
<1>6. ASSUME NEW q \in Slots, ptable'[q].next_thread # 0, ptable'[q].master # 0 \/ ptable'[q].state \in Alive
      PROVE  /\ ptable'[ptable'[q].next_thread].prev_thread = q
             /\ ptable'[ptable'[q].next_thread].master = IF ptable'[q].master = 0 THEN q ELSE ptable'[q].master
  <2>1. ptable[q].next_thread # 0 /\ ptable[q].next_thread \in Slots /\ (ptable[q].master # 0 \/ ptable[q].state \in Alive)
    BY <1>1, <1>2, <1>3, <1>4, <1>6, EntryTyped, Zenon
  <2>. QED  BY <1>1, <1>3, <2>1, SMTT(30) DEF Threads
<1>7. ASSUME NEW q \in Slots, ptable'[q].parent # 0
      PROVE  /\ ptable'[ptable'[q].parent].state \in Alive /\ ptable'[ptable'[q].parent].master = 0
             /\ ptable'[q].parent # q
  <2>1. CASE ptable[q].parent = p
    BY <1>1, <1>2, <1>3, <1>4, <2>1, SlotFacts
  <2>2. CASE ptable[q].parent # p
    <3>1. ptable[q].parent \in Slots /\ ptable[q].parent # 0 /\ ptable'[q].parent = ptable[q].parent
      BY <1>1, <1>3, <1>7, <2>2, EntryTyped
    <3>. QED  BY <1>1, <1>2, <1>3, <2>2, <3>1 DEF Parents
  <2>. QED  BY <2>1, <2>2, Zenon
<1>. QED  BY <1>5, <1>6, <1>7, Zenon DEF Threads, Parents

LEMMA EndStep ==
  ASSUME Counts, ProcInv, NEW p \in Slots, p \in cpu, p # initproc, pc[p] \notin Allocating,
         \A w \in Slots : ptable[w].master # p, ptable' \in Tables, Ends(p),
         nextpid' = nextpid, nexttid' = nexttid, arg' = arg
  PROVE  ProcInv'
<1>1. ptable[p].state = "RUNNING" /\ ptable \in Tables
  BY TableTyped, Zenon DEF ProcInv, OnCpu
<1>2. pc \in [Slots -> Labels] /\ nextpid \in Nat /\ nexttid \in Nat \ {0} /\ arg \in [Slots -> Nat]
  BY Zenon DEF ProcInv, TypeOK, Labels
<1>3. pc' \in [Slots -> Labels] /\ pc'[p] = "dead" /\ \A q \in Slots \ {p} : pc'[q] = pc[q]
  BY <1>2, Zenon DEF Ends, Labels
<1>4. Threads(ptable', nexttid') /\ Parents(ptable')
  <2>1. Threads(ptable', nexttid) /\ Parents(ptable')
    BY <1>1, EndTable, Zenon
  <2>. QED  BY <2>1, Zenon
<1>5. \A q \in Slots : PlaceOf(q) /\ SleeperOf(q)
  BY Zenon DEF ProcInv, Places, Sleepers
<1>6. \A q \in Slots : /\ q # p => (ptable'[q].state \in Alive <=> ptable[q].state \in Alive)
                       /\ q # p /\ ptable'[q].state = "ZOMBIE" => ptable[q].state = "ZOMBIE"
                       /\ q # p => (ptable'[q].state = "RUNNING" <=> ptable[q].state = "RUNNING")
                       /\ ptable'[q].state = "EMBRYO" <=> ptable[q].state = "EMBRYO"
  BY <1>1 DEF Ends, Undisturbed, Alive
<1>7. ASSUME NEW q \in Slots, q # p
      PROVE  PlaceOf(q)' /\ SleeperOf(q)'
  <2>1. Undisturbed(q) /\ pc'[q] = pc[q] /\ ptable'[q].master = ptable[q].master
    BY <1>3, <1>7 DEF Ends
  <2>2. ptable'[q].parent = ptable[q].parent \/ ptable[q].state \notin {"UNUSED", "EMBRYO"}
    BY <1>5, SlotFacts DEF Ends, PlaceOf
  <2>3. \A w \in Slots : ptable'[w].master = ptable[w].master /\ ptable'[w].tid = ptable[w].tid
    BY Zenon DEF Ends
  <2>4. ASSUME ptable'[q].state = "SLEEPING", pc[q] = "waiting", NEW w \in Slots
        PROVE  /\ ptable[w].parent = q => ptable'[w].parent = q
               /\ ptable'[w].parent = q /\ ptable'[w].state = "ZOMBIE"
                    => ptable[w].parent = q /\ ptable[w].state = "ZOMBIE"
    <3>1. ptable[p].parent # p
      BY SlotFacts, Zenon DEF ProcInv, Parents
    <3>2. q # ptable[p].parent
      BY <1>7, <2>4, Zenon DEF Ends, InLoop
    <3>3. q = initproc => \A v \in Slots : ptable[v].parent = p => ptable[v].state # "ZOMBIE"
      BY <1>7, <2>4, Zenon DEF Ends, InLoop
    <3>4. ptable'[w].parent = IF ptable[w].parent = p THEN initproc ELSE ptable[w].parent
      BY Zenon DEF Ends
    <3>. QED  BY <1>6, <1>7, <3>1, <3>2, <3>3, <3>4
  <2>5. ASSUME ptable'[q].state = "SLEEPING", pc[q] \in {"joining", "exiting"}, NEW w \in Slots,
               ptable[w].master = q, ptable[w].state \in Alive
        PROVE  ptable'[w].master = q /\ ptable'[w].state \in Alive /\ ptable'[w].tid = ptable[w].tid
    <3>1. q # ptable[p].master
      BY <1>7, <2>5, Zenon DEF Ends, InLoop
    <3>. QED  BY <1>6, <2>3, <2>5, <3>1, Zenon
  <2>. QED  BY <1>5, <2>1, <2>2, <2>3, <2>4, <2>5, StaysPut
<1>8. PlaceOf(p)' /\ SleeperOf(p)'
  BY <1>3 DEF PlaceOf, SleeperOf, Ends, Alive, MainOnly
<1>9. \A q \in Slots : PlaceOf(q)' /\ SleeperOf(q)'
  BY <1>7, <1>8, Zenon
<1>10. Places'
  <2>1. /\ ptable[initproc].state \in Alive /\ pc[initproc] \notin NotInit
        /\ ptable[initproc].master = 0 /\ ptable[initproc].parent = 0
        /\ \A w \in Slots : ptable[w].master # initproc
    BY Zenon DEF ProcInv, Places
  <2>2. ptable'[initproc].state \in Alive /\ pc'[initproc] \notin NotInit
    BY <1>3, <1>6, <2>1, SlotFacts
  <2>3. ptable'[initproc].master = 0 /\ ptable'[initproc].parent = 0
    BY <2>1, SlotFacts, Zenon DEF Ends
  <2>4. \A w \in Slots : ptable'[w].master # initproc
    BY <2>1, Zenon DEF Ends
  <2>. QED  BY <1>9, <2>2, <2>3, <2>4, Zenon DEF Places
<1>11. Embryos'
  <2>1. \A q \in Slots : pc'[q] \in Allocating <=> pc[q] \in Allocating
    BY <1>3, Zenon DEF Allocating
  <2>2. \A q \in Slots : ptable'[q].state = "EMBRYO" <=> ptable[q].state = "EMBRYO"
    BY <1>6, Zenon
  <2>. QED  BY <2>1, <2>2 DEF ProcInv, Embryos
<1>12. OnCpu' /\ cpu' \subseteq Slots /\ Cardinality(cpu') <= NCPU
  <2>1. \A q \in Slots \ {p} : ptable'[q].state = "RUNNING" <=> ptable[q].state = "RUNNING"
    BY <1>6, Zenon
  <2>2. CpuMove(p)
    BY Zenon DEF CpuMove, Ends
  <2>. QED  BY <2>1, <2>2, CpuStep, Zenon DEF ProcInv
<1>13. Pids' /\ nextpid' \in Nat \ {0}
  <2>1. \A q \in Slots : pc'[q] = "create" => pc[q] = "create"
    BY <1>3, Zenon
  <2>. QED  BY <1>2, <2>1, PidsStep, Zenon DEF ProcInv
<1>14. TypeOK'
  BY <1>2, <1>3, <1>12, <1>13, TypeStep, Zenon
<1>. QED  BY <1>4, <1>9, <1>10, <1>11, <1>12, <1>13, <1>14, Zenon DEF ProcInv, Sleepers

\* What waking and killing others does to the table.
Roused(pt, new) ==
  \A q \in Slots :
    /\ new[q].tid = pt[q].tid /\ new[q].master = pt[q].master /\ new[q].chan = pt[q].chan
    /\ new[q].next_thread = pt[q].next_thread /\ new[q].prev_thread = pt[q].prev_thread
    /\ new[q].state = pt[q].state \/ (pt[q].state = "SLEEPING" /\ new[q].state = "RUNNABLE")
    /\ new[q].state = "SLEEPING" /\ new[q].chan # Ticks => new[q].killed = pt[q].killed

LEMMA RousedTwice ==
  ASSUME NEW pt, NEW mid, NEW new, Roused(pt, mid), Roused(mid, new)
  PROVE  Roused(pt, new)
<1>. SUFFICES ASSUME NEW q \in Slots
              PROVE  /\ new[q].tid = pt[q].tid /\ new[q].master = pt[q].master /\ new[q].chan = pt[q].chan
                     /\ new[q].next_thread = pt[q].next_thread /\ new[q].prev_thread = pt[q].prev_thread
                     /\ new[q].state = pt[q].state \/ (pt[q].state = "SLEEPING" /\ new[q].state = "RUNNABLE")
                     /\ new[q].state = "SLEEPING" /\ new[q].chan # Ticks => new[q].killed = pt[q].killed
  BY Zenon DEF Roused
<1>. QED  BY SMTT(30) DEF Roused

\* The fields of the table after wakeup1().
WokenOn(pt, new, ch) ==
  /\ new \in Tables /\ Calmly(pt, new) /\ Roused(pt, new)
  /\ \A q \in Slots : new[q].killed = pt[q].killed /\ (new[q].state = "SLEEPING" => pt[q].chan # ch)

LEMMA WokenFields ==
  ASSUME NEW pt \in Tables, NEW ch, NEW new, new = wakeup1(pt, ch)
  PROVE  WokenOn(pt, new, ch)
<1>1. /\ new \in Tables /\ Calmly(pt, new)
      /\ \A q \in Slots :
           /\ new[q].chan = pt[q].chan /\ new[q].killed = pt[q].killed
           /\ new[q].state = IF pt[q].chan = ch /\ pt[q].state = "SLEEPING" THEN "RUNNABLE" ELSE pt[q].state
  BY WakeFields, Zenon
<1>2. Roused(pt, new)
  BY <1>1, Zenon DEF Roused, Calmly
<1>. QED  BY <1>1, <1>2, Zenon DEF WokenOn

\* The last thing a thread does: it marks itself a zombie.
Buried(pt, new, p) ==
  /\ new \in Tables /\ new[p].state = "ZOMBIE" /\ \A q \in Slots \ {p} : new[q] = pt[q]
  /\ new[p].tid = pt[p].tid /\ new[p].master = pt[p].master /\ new[p].parent = pt[p].parent
  /\ new[p].next_thread = pt[p].next_thread /\ new[p].prev_thread = pt[p].prev_thread

LEMMA BuriedFields ==
  ASSUME NEW pt \in Tables, NEW p \in Slots, NEW new, new = [pt EXCEPT ![p].state = "ZOMBIE"]
  PROVE  Buried(pt, new, p)
<1>. DEFINE e == [pt[p] EXCEPT !.state = "ZOMBIE"]
<1>1. pt[p] \in Entries
  BY Zenon DEF Tables
<1>2. e \in Entries
  BY <1>1, EntrySet, Zenon
<1>3. /\ e.state = "ZOMBIE" /\ e.tid = pt[p].tid /\ e.master = pt[p].master /\ e.parent = pt[p].parent
      /\ e.next_thread = pt[p].next_thread /\ e.prev_thread = pt[p].prev_thread
  BY <1>1, Zenon DEF Entries
<1>4. new = [pt EXCEPT ![p] = e]
  BY Zenon
<1>. HIDE DEF e
<1>5. new \in Tables /\ new[p] = e /\ \A q \in Slots \ {p} : new[q] = pt[q]
  BY <1>2, <1>4, Zenon DEF Tables
<1>. QED  BY <1>3, <1>5, Zenon DEF Buried

LEMMA ThreadExitStep ==
  ASSUME Counts, ProcInv, NEW p \in Slots, ThreadExit(p)
  PROVE  ProcInv'
<1>m. PICK m : m = ptable[p].master
  OBVIOUS
<1>t1. PICK t1 : t1 = wakeup1(ptable, m)
  OBVIOUS
<1>t2. PICK t2 : t2 = wakeup1(t1, ptable[p].parent)
  OBVIOUS
<1>1. /\ p \in cpu /\ pc[p] = "texit" /\ ptable' = [t2 EXCEPT ![p].state = "ZOMBIE"]
      /\ cpu' = cpu \ {p} /\ pc' = [pc EXCEPT ![p] = "dead"]
      /\ nextpid' = nextpid /\ nexttid' = nexttid /\ arg' = arg
  BY <1>m, <1>t1, <1>t2, Zenon DEF ThreadExit, Runs, Goto
<1>2. /\ ptable \in Tables /\ Threads(ptable, nexttid) /\ Parents(ptable)
      /\ \A q \in Slots : PlaceOf(q)
  BY TableTyped, Zenon DEF ProcInv, Places
<1>3. ptable[p].master # 0 /\ ptable[p].parent = 0
  BY <1>1, <1>2, Zenon DEF PlaceOf, Threads
<1>4. /\ p # initproc /\ pc[p] \notin Allocating
      /\ \A w \in Slots : ptable[w].master # p /\ ptable[w].parent # p
  BY <1>1, <1>2, <1>3, SlotFacts DEF ProcInv, Places, NotInit, Allocating, Threads, Parents
<1>5. WokenOn(ptable, t1, m)
  BY <1>t1, <1>2, WokenFields, Zenon
<1>6. WokenOn(t1, t2, ptable[p].parent)
  <2>1. t1 \in Tables
    BY <1>5, Zenon DEF WokenOn
  <2>. QED  BY <1>t2, <2>1, WokenFields, Zenon
<1>7. Buried(t2, ptable', p)
  <2>1. t2 \in Tables
    BY <1>6, Zenon DEF WokenOn
  <2>. QED  BY <1>1, <2>1, BuriedFields, Zenon
<1>8. Roused(ptable, t2)
  BY <1>5, <1>6, RousedTwice, Zenon DEF WokenOn
<1>9. \A q \in Slots : t2[q].parent = ptable[q].parent
  BY <1>5, <1>6, Zenon DEF WokenOn, Calmly
<1>10. ASSUME NEW q \in Slots, q # p
       PROVE  /\ Undisturbed(q)
              /\ ptable'[q].state = "SLEEPING" /\ pc[q] \in InLoop => q # m /\ q # ptable[p].parent
  <2>1. ptable'[q] = t2[q]
    BY <1>7, <1>10, Zenon DEF Buried
  <2>2. ptable'[q].state = "SLEEPING" => ptable[q].state = "SLEEPING"
    BY <1>8, <2>1, Zenon DEF Roused
  <2>3. ptable[q].state = "SLEEPING" /\ pc[q] # "ticking" => ptable[q].chan # Ticks
    BY <1>2, SlotFacts, SMTT(30) DEF PlaceOf
  <2>4. Undisturbed(q)
    <3>1. /\ ptable'[q].chan = ptable[q].chan
          /\ \/ ptable'[q].state = ptable[q].state
             \/ ptable[q].state = "SLEEPING" /\ ptable'[q].state = "RUNNABLE"
          /\ ptable'[q].state = "SLEEPING" /\ ptable'[q].chan # Ticks => ptable'[q].killed = ptable[q].killed
      BY <1>8, <2>1, ZenonT(40) DEF Roused
    <3>2. arg'[q] = arg[q]
      BY <1>1, Zenon
    <3>. QED  BY <2>2, <2>3, <3>1, <3>2, Zenon DEF Undisturbed
  <2>5. ASSUME ptable'[q].state = "SLEEPING", pc[q] \in InLoop
        PROVE  q # m /\ q # ptable[p].parent
    <3>1. ptable[q].chan = q
      BY <1>2, <2>2, <2>5, Zenon DEF PlaceOf, InLoop
    <3>2. t1[q].state = "SLEEPING"
      BY <1>6, <2>1, <2>5, Zenon DEF WokenOn, Roused
    <3>. QED  BY <1>3, <1>5, <3>1, <3>2, SlotFacts, Zenon DEF WokenOn
  <2>. QED  BY <2>4, <2>5, Zenon
<1>11. \A q \in Slots :
         /\ ptable'[q].tid = ptable[q].tid /\ ptable'[q].master = ptable[q].master
         /\ ptable'[q].next_thread = ptable[q].next_thread /\ ptable'[q].prev_thread = ptable[q].prev_thread
         /\ ptable'[q].parent = ptable[q].parent
  <2>1. \A q \in Slots :
          /\ ptable'[q].tid = t2[q].tid /\ ptable'[q].master = t2[q].master
          /\ ptable'[q].next_thread = t2[q].next_thread /\ ptable'[q].prev_thread = t2[q].prev_thread
          /\ ptable'[q].parent = t2[q].parent
    BY <1>7, Zenon DEF Buried
  <2>. QED  BY <1>8, <1>9, <2>1, ZenonT(40) DEF Roused
<1>12. Ends(p)
  <2>1. ptable'[p].state = "ZOMBIE" /\ ptable' \in Tables
    BY <1>7, Zenon DEF Buried
  <2>. QED  BY <1>m, <1>1, <1>4, <1>10, <1>11, <2>1, Zenon DEF Ends
<1>13. ptable' \in Tables
  BY <1>7, Zenon DEF Buried
<1>. QED  BY <1>1, <1>4, <1>12, <1>13, EndStep, Zenon

\* The parent that exit() wakes, if there is one.
ParentTold(pt, new, p) ==
  /\ new \in Tables /\ Calmly(pt, new) /\ Roused(pt, new)
  /\ \A q \in Slots : new[q].killed = pt[q].killed
  /\ \A q \in Slots : new[q].state = "SLEEPING" /\ pt[q].chan = q => q # pt[p].parent

LEMMA ParentToldFields ==
  ASSUME NEW pt \in Tables, NEW p \in Slots, NEW new, new = WakeParent(pt, p)
  PROVE  ParentTold(pt, new, p)
<1>1. CASE pt[p].parent = 0
  <2>1. new = pt
    BY <1>1, Zenon DEF WakeParent
  <2>2. Calmly(pt, new) /\ Roused(pt, new)
    BY <2>1, Zenon DEF Calmly, Roused
  <2>. QED  BY <1>1, <2>1, <2>2, SlotFacts, Zenon DEF ParentTold
<1>2. CASE pt[p].parent # 0
  <2>1. new = wakeup1(pt, pt[p].parent)
    BY <1>2, Zenon DEF WakeParent
  <2>2. WokenOn(pt, new, pt[p].parent)
    BY <2>1, WokenFields, Zenon
  <2>. QED  BY <2>2, Zenon DEF WokenOn, ParentTold
<1>. QED  BY <1>1, <1>2, Zenon

\* The main thread that a worker's exit() kills and wakes.
MasterTold(pt, new, p) ==
  /\ new \in Tables /\ Calmly(pt, new) /\ Roused(pt, new)
  /\ \A q \in Slots : new[q].state = "SLEEPING" /\ pt[q].chan = q => q # pt[p].master

LEMMA MasterToldFields ==
  ASSUME NEW pt \in Tables, NEW p \in Slots, NEW new, new = TellMaster(pt, p),
         \A q \in Slots : pt[q].master # 0 => pt[pt[q].master].master = 0,
         \A q \in Slots : pt[q].state = "SLEEPING" => pt[q].chan \in {q, Ticks}
  PROVE  MasterTold(pt, new, p)
<1>1. CASE pt[p].master = 0
  <2>1. new = pt
    BY <1>1, Zenon DEF TellMaster
  <2>2. Calmly(pt, new) /\ Roused(pt, new)
    BY <2>1, Zenon DEF Calmly, Roused
  <2>. QED  BY <1>1, <2>1, <2>2, SlotFacts, Zenon DEF MasterTold
<1>2. CASE pt[p].master # 0
  <2>hm. PICK hm : hm = pt[p].master
    BY SMTT(30)
  <2>1. get_highest_master(pt, p) = hm /\ hm \in Slots
    BY <1>2, <2>hm, HighestMaster, EntryTyped
  <2>mid. PICK mid : mid = IF pt[p].killed THEN pt ELSE [pt EXCEPT ![hm].killed = TRUE]
    BY Zenon
  <2>2. new = wakeup1(mid, hm)
    BY <1>2, <2>1, <2>mid, Zenon DEF TellMaster
  <2>3. /\ mid \in Tables /\ \A q \in Slots \ {hm} : mid[q] = pt[q]
        /\ mid[hm].state = pt[hm].state /\ mid[hm].tid = pt[hm].tid /\ mid[hm].parent = pt[hm].parent
        /\ mid[hm].master = pt[hm].master /\ mid[hm].next_thread = pt[hm].next_thread
        /\ mid[hm].prev_thread = pt[hm].prev_thread /\ mid[hm].chan = pt[hm].chan
    <3>. DEFINE e == [pt[hm] EXCEPT !.killed = TRUE]
    <3>1. pt[hm] \in Entries
      BY <2>1, Zenon DEF Tables
    <3>2. e \in Entries
      BY <3>1, EntrySet, Zenon
    <3>3. /\ e.state = pt[hm].state /\ e.tid = pt[hm].tid /\ e.parent = pt[hm].parent
          /\ e.master = pt[hm].master /\ e.next_thread = pt[hm].next_thread
          /\ e.prev_thread = pt[hm].prev_thread /\ e.chan = pt[hm].chan
      BY <3>1, Zenon DEF Entries
    <3>4. mid = pt \/ mid = [pt EXCEPT ![hm] = e]
      BY <2>mid, Zenon
    <3>. HIDE DEF e
    <3>5. CASE mid = pt
      BY <3>5, Zenon
    <3>6. CASE mid = [pt EXCEPT ![hm] = e]
      <4>1. mid \in Tables /\ mid[hm] = e /\ \A q \in Slots \ {hm} : mid[q] = pt[q]
        BY <2>1, <3>2, <3>6, Zenon DEF Tables
      <4>. QED  BY <3>3, <4>1, Zenon
    <3>. QED  BY <3>4, <3>5, <3>6, Zenon
  <2>4. WokenOn(mid, new, hm)
    BY <2>2, <2>3, WokenFields, Zenon
  <2>5. new \in Tables /\ Calmly(mid, new) /\ Roused(mid, new)
    BY <2>4, Zenon DEF WokenOn
  <2>6. /\ Calmly(pt, mid)
        /\ \A q \in Slots : /\ mid[q].tid = pt[q].tid /\ mid[q].master = pt[q].master /\ mid[q].chan = pt[q].chan
                            /\ mid[q].next_thread = pt[q].next_thread /\ mid[q].prev_thread = pt[q].prev_thread
                            /\ mid[q].state = pt[q].state /\ (q # hm => mid[q].killed = pt[q].killed)
    BY <2>3, Zenon DEF Calmly
  <2>7. Calmly(pt, new)
    BY <2>5, <2>6, CalmTwice, Zenon
  <2>8. \A q \in Slots : new[q].state = "SLEEPING" => pt[q].state = "SLEEPING" /\ pt[q].chan # hm
    BY <2>4, <2>6, SMTT(30) DEF WokenOn, Roused
  <2>9. Roused(pt, new)
    <3>. SUFFICES ASSUME NEW q \in Slots
                  PROVE  /\ new[q].tid = pt[q].tid /\ new[q].master = pt[q].master /\ new[q].chan = pt[q].chan
                         /\ new[q].next_thread = pt[q].next_thread /\ new[q].prev_thread = pt[q].prev_thread
                         /\ new[q].state = pt[q].state \/ (pt[q].state = "SLEEPING" /\ new[q].state = "RUNNABLE")
                         /\ new[q].state = "SLEEPING" /\ new[q].chan # Ticks => new[q].killed = pt[q].killed
      BY Zenon DEF Roused
    <3>1. /\ new[q].tid = pt[q].tid /\ new[q].master = pt[q].master /\ new[q].chan = pt[q].chan
          /\ new[q].next_thread = pt[q].next_thread /\ new[q].prev_thread = pt[q].prev_thread
          /\ new[q].state = pt[q].state \/ (pt[q].state = "SLEEPING" /\ new[q].state = "RUNNABLE")
          /\ new[q].state = "SLEEPING" /\ new[q].chan # Ticks => new[q].killed = mid[q].killed
      BY <2>5, <2>6, SMTT(30) DEF Roused
    <3>2. new[q].state = "SLEEPING" /\ new[q].chan # Ticks => q # hm
      BY <2>8, <3>1, Zenon
    <3>. QED  BY <2>6, <3>1, <3>2, Zenon
  <2>10. \A q \in Slots : new[q].state = "SLEEPING" /\ pt[q].chan = q => q # pt[p].master
    BY <2>hm, <2>8, Zenon
  <2>. QED  BY <2>5, <2>7, <2>9, <2>10, Zenon DEF MasterTold
<1>. QED  BY <1>1, <1>2, Zenon

\* The children that exit() passes to init.
PassedOn(pt, new, p) ==
  /\ new \in Tables /\ Roused(pt, new)
  /\ \A q \in Slots : new[q].parent = IF pt[q].parent = p THEN initproc ELSE pt[q].parent
  /\ (\E w \in Slots : pt[w].parent = p /\ pt[w].state = "ZOMBIE")
       => ~(new[initproc].state = "SLEEPING" /\ pt[initproc].chan = initproc)

LEMMA PassedOnFields ==
  ASSUME NEW pt \in Tables, NEW p \in Slots, NEW new, new = Reparent(pt, p)
  PROVE  PassedOn(pt, new, p)
<1>kids. PICK kids : kids = {q \in Slots : pt[q].parent = p}
  BY Zenon
<1>mid. PICK mid : mid = [q \in Slots |-> IF q \in kids THEN [pt[q] EXCEPT !.parent = initproc] ELSE pt[q]]
  BY Zenon
<1>1. new = IF \E q \in kids : pt[q].state = "ZOMBIE" THEN wakeup1(mid, initproc) ELSE mid
  BY <1>kids, <1>mid, Zenon DEF Reparent
<1>2. ASSUME NEW q \in Slots
      PROVE  /\ mid[q] \in Entries /\ mid[q].state = pt[q].state /\ mid[q].tid = pt[q].tid
             /\ mid[q].master = pt[q].master /\ mid[q].next_thread = pt[q].next_thread
             /\ mid[q].prev_thread = pt[q].prev_thread /\ mid[q].chan = pt[q].chan
             /\ mid[q].killed = pt[q].killed
             /\ mid[q].parent = IF pt[q].parent = p THEN initproc ELSE pt[q].parent
  <2>. DEFINE e == [pt[q] EXCEPT !.parent = initproc]
  <2>1. pt[q] \in Entries /\ initproc \in 0..NPROC
    BY SlotFacts, Zenon DEF Tables
  <2>2. e \in Entries
    BY <2>1, EntrySet, Zenon
  <2>3. /\ e.state = pt[q].state /\ e.tid = pt[q].tid /\ e.parent = initproc
        /\ e.master = pt[q].master /\ e.next_thread = pt[q].next_thread /\ e.killed = pt[q].killed
        /\ e.prev_thread = pt[q].prev_thread /\ e.chan = pt[q].chan
    BY <2>1, Zenon DEF Entries
  <2>4. mid[q] = IF pt[q].parent = p THEN e ELSE pt[q]
    BY <1>kids, <1>mid, Zenon
  <2>. HIDE DEF e
  <2>. QED  BY <2>1, <2>2, <2>3, <2>4, Zenon
<1>3. mid \in Tables
  BY <1>mid, <1>2, Zenon DEF Tables
<1>4. Roused(pt, mid)
  BY <1>2, Zenon DEF Roused
<1>5. CASE \E q \in kids : pt[q].state = "ZOMBIE"
  <2>1. WokenOn(mid, new, initproc)
    BY <1>1, <1>3, <1>5, WokenFields, Zenon
  <2>2. new \in Tables /\ Calmly(mid, new) /\ Roused(mid, new)
    BY <2>1, Zenon DEF WokenOn
  <2>3. Roused(pt, new)
    BY <1>4, <2>2, RousedTwice, Zenon
  <2>4. \A q \in Slots : new[q].parent = IF pt[q].parent = p THEN initproc ELSE pt[q].parent
    BY <1>2, <2>2, SMTT(30) DEF Calmly
  <2>5. ~(new[initproc].state = "SLEEPING" /\ pt[initproc].chan = initproc)
    BY <1>2, <2>1, SlotFacts, Zenon DEF WokenOn
  <2>. QED  BY <2>2, <2>3, <2>4, <2>5, Zenon DEF PassedOn
<1>6. CASE ~\E q \in kids : pt[q].state = "ZOMBIE"
  <2>1. new = mid
    BY <1>1, <1>6, Zenon
  <2>2. ~\E w \in Slots : pt[w].parent = p /\ pt[w].state = "ZOMBIE"
    BY <1>kids, <1>6, Zenon
  <2>3. \A q \in Slots : mid[q].parent = IF pt[q].parent = p THEN initproc ELSE pt[q].parent
    BY <1>2, Zenon
  <2>. QED  BY <1>3, <1>4, <2>1, <2>2, <2>3, Zenon DEF PassedOn
<1>. QED  BY <1>5, <1>6, Zenon

LEMMA ExitFinishStep ==
  ASSUME Counts, ProcInv, NEW p \in Slots, ExitFinish(p)
  PROVE  ProcInv'
<1>t1. PICK t1 : t1 = WakeParent(ptable, p)
  OBVIOUS
<1>t2. PICK t2 : t2 = TellMaster(t1, p)
  OBVIOUS
<1>t3. PICK t3 : t3 = Reparent(t2, p)
  OBVIOUS
<1>1. /\ p \in cpu /\ pc[p] = "exit2" /\ ptable' = [t3 EXCEPT ![p].state = "ZOMBIE"]
      /\ cpu' = cpu \ {p} /\ pc' = [pc EXCEPT ![p] = "dead"]
      /\ nextpid' = nextpid /\ nexttid' = nexttid /\ arg' = arg
  BY <1>t1, <1>t2, <1>t3, Zenon DEF ExitFinish, Runs, Goto
<1>2. /\ ptable \in Tables /\ Threads(ptable, nexttid) /\ Parents(ptable)
      /\ \A q \in Slots : PlaceOf(q)
  BY TableTyped, Zenon DEF ProcInv, Places
<1>3. p # initproc /\ pc[p] \notin Allocating /\ \A w \in Slots : ptable[w].master # p
  BY <1>1, <1>2, Zenon DEF ProcInv, Places, NotInit, Allocating, PlaceOf
<1>4. ParentTold(ptable, t1, p)
  BY <1>t1, <1>2, ParentToldFields, Zenon
<1>5. /\ t1 \in Tables /\ Calmly(ptable, t1) /\ Roused(ptable, t1)
      /\ \A q \in Slots : t1[q].state = "SLEEPING" /\ ptable[q].chan = q => q # ptable[p].parent
  BY <1>4, Zenon DEF ParentTold
<1>6. MasterTold(t1, t2, p)
  <2>1. \A q \in Slots : t1[q].master # 0 => t1[t1[q].master].master = 0
    <3>. SUFFICES ASSUME NEW q \in Slots, t1[q].master # 0  PROVE t1[t1[q].master].master = 0
      BY Zenon
    <3>1. t1[q].master = ptable[q].master /\ ptable[q].master # 0 /\ ptable[q].master \in Slots
      BY <1>2, <1>5, EntryTyped DEF Calmly
    <3>. QED  BY <1>5, <3>1, Flat, SMTT(30) DEF Calmly
  <2>2. \A q \in Slots : t1[q].state = "SLEEPING" => t1[q].chan \in {q, Ticks}
    BY <1>2, <1>5 DEF Roused, PlaceOf
  <2>. QED  BY <1>t2, <1>5, <2>1, <2>2, MasterToldFields, Zenon
<1>7. /\ t2 \in Tables /\ Calmly(t1, t2) /\ Roused(t1, t2)
      /\ \A q \in Slots : t2[q].state = "SLEEPING" /\ t1[q].chan = q => q # t1[p].master
  BY <1>6, Zenon DEF MasterTold
<1>8. PassedOn(t2, t3, p)
  BY <1>t3, <1>7, PassedOnFields, Zenon
<1>9. /\ t3 \in Tables /\ Roused(t2, t3)
      /\ \A q \in Slots : t3[q].parent = IF t2[q].parent = p THEN initproc ELSE t2[q].parent
      /\ (\E w \in Slots : t2[w].parent = p /\ t2[w].state = "ZOMBIE")
           => ~(t3[initproc].state = "SLEEPING" /\ t2[initproc].chan = initproc)
  BY <1>8, Zenon DEF PassedOn
<1>10. Buried(t3, ptable', p)
  BY <1>1, <1>9, BuriedFields, Zenon
<1>11. Calmly(ptable, t2) /\ Roused(ptable, t2) /\ Roused(ptable, t3)
  BY <1>5, <1>7, <1>9, CalmTwice, RousedTwice, Zenon
<1>12. ASSUME NEW q \in Slots, q # p
       PROVE  /\ Undisturbed(q)
              /\ ptable'[q].state = "SLEEPING" /\ pc[q] \in InLoop =>
                   /\ q # ptable[p].parent /\ q # ptable[p].master
                   /\ q = initproc => \A w \in Slots : ptable[w].parent = p => ptable[w].state # "ZOMBIE"
  <2>1. ptable'[q] = t3[q]
    BY <1>10, <1>12, Zenon DEF Buried
  <2>2. ptable'[q].state = "SLEEPING" => ptable[q].state = "SLEEPING"
    BY <1>11, <2>1 DEF Roused
  <2>3. ptable[q].state = "SLEEPING" /\ pc[q] # "ticking" => ptable[q].chan # Ticks
    <3>1. ptable[q].state = "SLEEPING" /\ pc[q] # "ticking" => ptable[q].chan = q
      BY <1>2, Zenon DEF PlaceOf
    <3>2. q # Ticks
      BY SlotFacts, Zenon
    <3>. QED  BY <3>1, <3>2, Zenon
  <2>4. Undisturbed(q)
    <3>1. /\ ptable'[q].chan = ptable[q].chan
          /\ \/ ptable'[q].state = ptable[q].state
             \/ ptable[q].state = "SLEEPING" /\ ptable'[q].state = "RUNNABLE"
          /\ ptable'[q].state = "SLEEPING" /\ ptable'[q].chan # Ticks => ptable'[q].killed = ptable[q].killed
      <4>1. Roused(ptable, t3)
        BY <1>11, Zenon
      <4>. QED  BY <2>1, <4>1, ZenonT(40) DEF Roused
    <3>2. arg'[q] = arg[q]
      BY <1>1, Zenon
    <3>. QED  BY <2>2, <2>3, <3>1, <3>2, Zenon DEF Undisturbed
  <2>5. ASSUME ptable'[q].state = "SLEEPING", pc[q] \in InLoop
        PROVE  /\ q # ptable[p].parent /\ q # ptable[p].master
               /\ q = initproc => \A w \in Slots : ptable[w].parent = p => ptable[w].state # "ZOMBIE"
    <3>1. ptable[q].chan = q
      BY <1>2, <2>2, <2>5, Zenon DEF PlaceOf, InLoop
    <3>2. t3[q].state = "SLEEPING" /\ t2[q].state = "SLEEPING" /\ t1[q].state = "SLEEPING"
      BY <1>7, <1>9, <2>1, <2>5 DEF Roused
    <3>3. t1[q].chan = q /\ t2[q].chan = q /\ t1[p].master = ptable[p].master
      BY <1>5, <1>7, <3>1 DEF Roused
    <3>4. q # ptable[p].parent /\ q # ptable[p].master
      BY <1>5, <1>7, <3>1, <3>2, <3>3, Zenon
    <3>5. ASSUME q = initproc, NEW w \in Slots, ptable[w].parent = p PROVE ptable[w].state # "ZOMBIE"
      <4>1. ~\E v \in Slots : t2[v].parent = p /\ t2[v].state = "ZOMBIE"
        BY <1>9, <3>2, <3>3, <3>5, Zenon
      <4>2. t2[w].parent = p /\ (ptable[w].state = "ZOMBIE" => t2[w].state = "ZOMBIE")
        BY <1>11, <3>5, Zenon DEF Calmly, Alive
      <4>. QED  BY <4>1, <4>2, Zenon
    <3>. QED  BY <3>4, <3>5, Zenon
  <2>. QED  BY <2>4, <2>5, Zenon
<1>13. \A q \in Slots :
         /\ ptable'[q].tid = ptable[q].tid /\ ptable'[q].master = ptable[q].master
         /\ ptable'[q].next_thread = ptable[q].next_thread /\ ptable'[q].prev_thread = ptable[q].prev_thread
         /\ ptable'[q].parent = IF ptable[q].parent = p THEN initproc ELSE ptable[q].parent
  <2>1. \A q \in Slots :
          /\ ptable'[q].tid = t3[q].tid /\ ptable'[q].master = t3[q].master
          /\ ptable'[q].next_thread = t3[q].next_thread /\ ptable'[q].prev_thread = t3[q].prev_thread
          /\ ptable'[q].parent = t3[q].parent
    BY <1>10, Zenon DEF Buried
  <2>2. \A q \in Slots : t3[q].parent = IF ptable[q].parent = p THEN initproc ELSE ptable[q].parent
    BY <1>9, <1>11, Zenon DEF Calmly
  <2>3. \A q \in Slots : /\ t3[q].tid = ptable[q].tid /\ t3[q].master = ptable[q].master
                         /\ t3[q].next_thread = ptable[q].next_thread /\ t3[q].prev_thread = ptable[q].prev_thread
    BY <1>11, Zenon DEF Roused
  <2>. QED  BY <2>1, <2>2, <2>3, ZenonT(40)
<1>14. ptable'[p].state = "ZOMBIE" /\ ptable' \in Tables
  BY <1>10, Zenon DEF Buried
<1>15. Ends(p)
  BY <1>1, <1>12, <1>13, <1>14, Zenon DEF Ends
<1>. QED  BY <1>1, <1>3, <1>14, <1>15, EndStep, Zenon
-----------------------------------------------------------------------------
LEMMA InitRight ==
  ASSUME Counts, Init
  PROVE  ProcInv
<1>1. /\ \A q \in Slots \ {initproc} : ptable[q] = Unused
      /\ ptable[initproc] = [Unused EXCEPT !.state = "RUNNABLE", !.pid = 1]
      /\ nextpid = 2 /\ nexttid = 1 /\ cpu = {} /\ \A q \in Slots : pc[q] = "user" /\ arg[q] = 0
  BY SlotFacts, Zenon DEF Init
<1>2. \A q \in Slots : /\ ptable[q].state = IF q = initproc THEN "RUNNABLE" ELSE "UNUSED"
                       /\ ptable[q].parent = 0 /\ ptable[q].master = 0 /\ ptable[q].next_thread = 0
  <2>. DEFINE e == [Unused EXCEPT !.state = "RUNNABLE", !.pid = 1]
  <2>1. /\ Unused.state = "UNUSED" /\ Unused.parent = 0 /\ Unused.master = 0 /\ Unused.next_thread = 0
        /\ e.state = "RUNNABLE" /\ e.parent = 0 /\ e.master = 0 /\ e.next_thread = 0
    BY Zenon DEF Unused
  <2>. HIDE DEF e
  <2>2. \A q \in Slots : ptable[q] = IF q = initproc THEN e ELSE Unused
    BY <1>1, Zenon DEF e
  <2>. QED  BY <2>1, <2>2, Zenon
<1>3. TypeOK
  <2>1. 0 \in 0..NPROC /\ 0 \in 0..Ticks /\ 0 \in Nat /\ 1 \in Nat
    BY ProcAssumption DEF Ticks
  <2>2. Unused \in Entries
    BY <2>1, Zenon DEF Unused, Entries
  <2>3. [Unused EXCEPT !.state = "RUNNABLE", !.pid = 1] \in Entries
    BY <2>1, <2>2, EntrySet, Zenon
  <2>4. ptable \in Tables
    BY <2>2, <2>3, Zenon DEF Init, Tables
  <2>5. cpu \subseteq Slots /\ Cardinality(cpu) <= NCPU
    <3>1. Cardinality({}) = 0
      BY Zenon DEF Counts
    <3>2. Cardinality(cpu) = 0
      BY <1>1, <3>1, Zenon
    <3>. QED  BY <1>1, <3>2, ProcAssumption
  <2>6. pc \in [Slots -> Labels] /\ arg \in [Slots -> Nat] /\ nextpid \in Nat \ {0} /\ nexttid \in Nat \ {0}
    BY DEF Init, Labels
  <2>. QED  BY <2>4, <2>5, <2>6, Zenon DEF TypeOK, Tables, Entries, Alive, Labels
<1>4. OnCpu
  BY <1>1, <1>2, Zenon DEF OnCpu
<1>5. Threads(ptable, nexttid) /\ Parents(ptable)
  BY <1>2, Zenon DEF Threads, Parents
<1>6. Places
  BY <1>1, <1>2, SlotFacts, Zenon DEF Places, PlaceOf, Alive, MainOnly, NotInit
<1>7. Embryos /\ Sleepers
  BY <1>1, <1>2, Zenon DEF Embryos, Sleepers, SleeperOf, Allocating
<1>8. Pids
  <2>1. {p \in Slots : pc[p] = "create"} = {}
    BY <1>1, Zenon
  <2>2. Cardinality({p \in Slots : pc[p] = "create"}) = 0
    BY <2>1, Zenon DEF Counts
  <2>. QED  BY <1>1, <2>2 DEF Pids
<1>. QED  BY <1>3, <1>4, <1>5, <1>6, <1>7, <1>8, Zenon DEF ProcInv

\* Nobody calls exec().
LEMMA NoExec ==
  ASSUME Calm, ProcInv, NEW p \in Slots
  PROVE  ~ExecCall(p) /\ ~ExecFails(p) /\ ~Exec(p)
<1>1. ~ExecCall(p)
  BY CallFacts, Zenon DEF ExecCall
<1>2. pc[p] # "exec"
  BY Zenon DEF ProcInv, Places, PlaceOf
<1>. QED  BY <1>1, <1>2, Zenon DEF ExecFails, Exec, Runs

\* Every step keeps the invariant, action by action.
LEMMA ProcNext ==
  ASSUME Counts, Calm, ProcInv, [Next]_vars
  PROVE  ProcInv'
<1>1. ASSUME NEW p \in Slots, Run(p) \/ Yield(p) \/ ExitCall(p)  PROVE ProcInv'
  BY <1>1, RunStep, YieldStep, ExitCallStep, Zenon
<1>2. ASSUME NEW p \in Slots, Call(p)  PROVE ProcInv'
  <2>1. CASE Allocproc(p, "fork") \/ Allocproc(p, "create")
    BY <2>1, AllocprocStep, Zenon
  <2>2. CASE WaitCall(p) \/ ThreadExitCall(p) \/ JoinCall(p) \/ SleepCall(p)
    BY <2>2, EnterStep, Zenon
  <2>3. CASE Kill(p)
    BY <2>3, KillStep, Zenon
  <2>4. CASE Fault(p)
    BY <2>4, FaultStep, Zenon
  <2>5. CASE ExecCall(p)
    BY <2>5, NoExec, Zenon
  <2>. QED  BY <1>2, <2>1, <2>2, <2>3, <2>4, <2>5, Zenon DEF Call
<1>3. ASSUME NEW p \in Slots, Step(p)  PROVE ProcInv'
  <2>1. CASE AllocFails(p) \/ Fork(p) \/ ReturnPid(p) \/ ThreadCreate(p)
    BY <2>1, AllocFailsStep, ForkStep, ReturnPidStep, ThreadCreateStep, Zenon
  <2>2. CASE ExitThreads(p) \/ ExitFinish(p) \/ ThreadExit(p)
    BY <2>2, ExitThreadsStep, ExitFinishStep, ThreadExitStep, Zenon
  <2>3. CASE Wait(p) \/ ThreadJoin(p)
    BY <2>3, WaitStep, JoinStep, Zenon
  <2>4. CASE SysSleep(p) \/ TickSleep(p)
    BY <2>4, SysSleepStep, TickSleepStep, Zenon
  <2>5. CASE ExecFails(p) \/ Exec(p)
    BY <2>5, NoExec, Zenon
  <2>. QED  BY <1>3, <2>1, <2>2, <2>3, <2>4, <2>5, Zenon DEF Step
<1>4. CASE Tick
  BY <1>4, TickStep, Zenon
<1>5. CASE UNCHANGED vars
  BY <1>5 DEF vars, ProcInv, TypeOK, OnCpu, Places, PlaceOf, Embryos, Sleepers, SleeperOf, Pids
<1>. QED  BY <1>1, <1>2, <1>3, <1>4, <1>5, Zenon DEF Next

-----------------------------------------------------------------------------
\* The libraries' facts are needed for Counts only, and come in here: among
\* the facts of every step above they would be a burden.
INSTANCE FiniteSetTheorems
INSTANCE Counting

LEMMA CountsRight == Counts
<1>1. IsFiniteSet(Slots)
  <2>1. 1 \in Int /\ NPROC \in Int
    BY ProcAssumption
  <2>. QED  BY <2>1, FS_Interval, Zenon DEF Slots
<1>2. \A S \in SUBSET Slots : IsFiniteSet(S)
  BY <1>1, FS_Subset, Zenon
<1>3. \A S \in SUBSET Slots : Cardinality(S) \in Nat
  BY <1>2, FS_CardinalityType, Zenon
<1>4. \A S, T \in SUBSET Slots : S \subseteq T => Cardinality(S) <= Cardinality(T)
  BY <1>2, FS_Subset, Zenon
<1>5. \A S \in SUBSET Slots, x \in Slots :
        /\ Cardinality(S \union {x}) = IF x \in S THEN Cardinality(S) ELSE Cardinality(S) + 1
        /\ Cardinality(S \ {x}) = IF x \in S THEN Cardinality(S) - 1 ELSE Cardinality(S)
  BY <1>2, FS_AddElement, FS_RemoveElement, Zenon
<1>6. \A T \in SUBSET Nat : T # {} => \E x \in T : \A y \in T : x <= y
  BY LeastNat, Zenon
<1>7. \A n \in Nat : \A T \in SUBSET (1..n) : T # {} => \E x \in T : \A y \in T : y <= x
  BY GreatestNat, Zenon
<1>8. Cardinality({}) = 0
  BY FS_EmptySet, Zenon
<1>. QED  BY <1>3, <1>4, <1>5, <1>6, <1>7, <1>8, Zenon DEF Counts

LEMMA ProcAlways == Calm => (Spec => []ProcInv)
<1>. SUFFICES ASSUME Calm PROVE Spec => []ProcInv
  OBVIOUS
<1>1. Init => ProcInv
  BY InitRight, CountsRight, Zenon
<1>2. ProcInv /\ [Next]_vars => ProcInv'
  BY ProcNext, CountsRight, Zenon
<1>. QED  BY <1>1, <1>2, PTL DEF Spec

\* Every slot that is taken has one user: allocproc() hands an embryo to one
\* caller, fork() and thread_create() fill it or give it back, and the slots
\* that are RUNNING are those on a CPU (proc.c: scheduler(), allocproc()).
THEOREM SlotsAlwaysOwned == Calm => (Spec => []SlotsOwned)
<1>. SUFFICES ASSUME Calm PROVE Spec => []SlotsOwned
  OBVIOUS
<1>1. ProcInv => SlotsOwned
  <2>. SUFFICES ASSUME ProcInv PROVE SlotsOwned
    OBVIOUS
  <2>1. ASSUME NEW q \in Slots, ptable[q].state = "EMBRYO"
        PROVE  \E p \in Slots : Live(p) /\ pc[p] \in {"fork", "create", "create2"} /\ arg[p] = q
    <3>1. PICK p \in Slots : pc[p] \in Allocating /\ arg[p] = q
      BY <2>1, Zenon DEF ProcInv, Embryos
    <3>2. PlaceOf(p) /\ ptable[p].state \in Alive \union {"UNUSED", "EMBRYO", "ZOMBIE"}
      BY TableTyped, EntryTyped, Zenon DEF ProcInv, Places
    <3>3. ptable[p].state \in Alive
      BY <3>1, <3>2 DEF PlaceOf, Allocating
    <3>. QED  BY <3>1, <3>3, Zenon DEF Live, Alive, Allocating
  <2>. QED  BY <2>1, Zenon DEF SlotsOwned, ProcInv
<1>. QED  BY <1>1, ProcAlways, PTL

\* Walking next_thread from a main thread meets exactly the threads whose
\* master it is, and it lives as long as there are any: exit() reaches every
\* thread, and dealloc_thread() and thread_create() keep the list whole.
THEOREM ThreadsAlwaysListed == Calm => (Spec => []ThreadList)
<1>. SUFFICES ASSUME Calm PROVE Spec => []ThreadList
  OBVIOUS
<1>1. ProcInv => ThreadList
  <2>. SUFFICES ASSUME ProcInv, NEW m \in Slots, IsMain(m)
                PROVE  LET mine == {w \in Slots : ~IsMain(w) /\ get_highest_master(ptable, w) = m}
                       IN  mine # {} => NextSet(ptable, m) = mine /\ Live(m)
    BY Zenon DEF ThreadList
  <2>. DEFINE mine == {w \in Slots : ~IsMain(w) /\ get_highest_master(ptable, w) = m}
  <2>1. ptable \in Tables /\ nexttid \in Nat /\ Threads(ptable, nexttid)
    BY TableTyped, Zenon DEF ProcInv, TypeOK
  <2>2. \A w \in Slots : get_highest_master(ptable, w) = IF ptable[w].master = 0 THEN w ELSE ptable[w].master
    BY <2>1, HighestMaster, Flat, Zenon
  <2>3. mine = {w \in Slots : ptable[w].master = m}
    BY <2>2, SlotFacts, Zenon DEF IsMain
  <2>. HIDE DEF mine
  <2>4. ASSUME mine # {} PROVE NextSet(ptable, m) = mine /\ Live(m)
    <3>1. PICK w \in Slots : ptable[w].master = m
      BY <2>3, <2>4, Zenon
    <3>2. ptable[m].state \in Alive
      BY <2>1, <3>1, SlotFacts, Zenon DEF Threads
    <3>3. NextSet(ptable, m) = mine
      BY <2>1, <2>3, <3>2, CountsRight, ListIsThreads, Zenon DEF IsMain
    <3>. QED  BY <3>2, <3>3, Zenon DEF Live, Alive
  <2>. QED  BY <2>4, Zenon DEF mine
<1>. QED  BY <1>1, ProcAlways, PTL

\* A process's parent lives: exit() passes its children to init before it
\* ends, and init never ends.
THEOREM ParentAlwaysAlive == Calm => (Spec => []ParentAlive)
<1>. SUFFICES ASSUME Calm PROVE Spec => []ParentAlive
  OBVIOUS
<1>1. ProcInv => ParentAlive
  BY Zenon DEF ProcInv, Parents, ParentAlive, Live, Alive
<1>. QED  BY <1>1, ProcAlways, PTL

\* Who sleeps in wait(), thread_join() or exit() still has somebody to wait
\* for and has not been killed: scan and sleep are one section of ptable.lock,
\* and exit(), thread_exit() and kill() wake under it.
THEOREM WakeupNeverLost == Calm => (Spec => []NoLostWakeup)
<1>. SUFFICES ASSUME Calm PROVE Spec => []NoLostWakeup
  OBVIOUS
<1>1. ProcInv => NoLostWakeup
  <2>. SUFFICES ASSUME ProcInv PROVE WaitWoken /\ JoinWoken /\ ExitWoken
    BY Zenon DEF NoLostWakeup
  <2>1. ptable \in Tables /\ nexttid \in Nat /\ Threads(ptable, nexttid)
    BY TableTyped, Zenon DEF ProcInv, TypeOK
  <2>2. \A p \in Slots : SleeperOf(p) /\ PlaceOf(p)
    BY Zenon DEF ProcInv, Sleepers, Places
  <2>3. WaitWoken
    BY <2>2, Zenon DEF WaitWoken, Asleep, SleeperOf
  <2>4. ASSUME NEW p \in Slots, ptable[p].state = "SLEEPING", pc[p] \in {"joining", "exiting"}
        PROVE  NextSet(ptable, p) = {w \in Slots : ptable[w].master = p}
    <3>1. ptable[p].master = 0 /\ ptable[p].state \in Alive
      BY <2>2, <2>4, Zenon DEF PlaceOf, MainOnly, Alive
    <3>. QED  BY <2>1, <3>1, CountsRight, ListIsThreads, Zenon
  <2>5. JoinWoken
    BY <2>2, <2>4, SMTT(30) DEF JoinWoken, Asleep, SleeperOf, Live, Alive
  <2>6. ExitWoken
    BY <2>2, <2>4, SMTT(30) DEF ExitWoken, Asleep, SleeperOf, Live, Alive
  <2>. QED  BY <2>3, <2>5, <2>6, Zenon
<1>. QED  BY <1>1, ProcAlways, PTL
=============================================================================
