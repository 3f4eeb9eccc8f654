----------------------------- MODULE SpinProofs -----------------------------
(***************************************************************************)
(* Proofs about Spinlock for any number of CPUs and locks: what acquire()  *)
(* and release() promise, and that pushcli() and popcli() keep interrupt   *)
(* handlers away from whoever has locks.                                   *)
(***************************************************************************)
EXTENDS Spinlock, FiniteSetTheorems, TLAPS

CpuState == [FL_IF : BOOLEAN, ncli : Int, intena : BOOLEAN, intr : BOOLEAN]
FrameState == [pc : {"run", "spin", "mark", "unlock", "pop", "cli"}, lk : Nat, has : SUBSET Locks]

SpinTypeOK ==
  /\ lock \in [Locks -> [locked : BOOLEAN, cpu : Cpus \cup {NoCpu}]]
  /\ cpu \in [Cpus -> CpuState]
  /\ frames \in [Code -> FrameState]

\* The locks a piece of code has are finitely many, and a lock on its way in
\* or out is not among them.
Transit ==
  \A x \in Code :
    /\ IsFiniteSet(frames[x].has)
    /\ frames[x].pc \in {"spin", "mark", "unlock"} => frames[x].lk \in Locks \ frames[x].has

\* lock->cpu is the CPU of the code that has the lock, if any has.
Owner ==
  \A l \in Locks :
    /\ \A x \in Code : l \in frames[x].has => lock[l].cpu = x[1]
    /\ lock[l].cpu # NoCpu => \E x \in Code : l \in frames[x].has

\* A handler runs over code that has no lock and no pushcli() open, and
\* leaves none; intena remembers that interrupts were enabled outside.
Nesting ==
  \A c \in Cpus :
    /\ ~cpu[c].intr => frames[<<c, 1>>] = NewFrame
    /\ cpu[c].intr => frames[<<c, 0>>].pc = "run" /\ frames[<<c, 0>>].has = {}
    /\ cpu[c].ncli > 0 => (cpu[c].intena <=> ~cpu[c].intr)

SpinInv ==
  /\ SpinTypeOK /\ Transit /\ Owner /\ Nesting
  /\ LockExclusive /\ InterruptsMatched /\ spinpanic = FALSE
----------------------------------------------------------------------------
\* What a step does to the code that makes it, and to the rest.
LEMMA FrameStep ==
  ASSUME SpinTypeOK, NEW c \in Cpus, NEW f \in FrameState, Frame(c, f.pc, f.lk, f.has)
  PROVE  /\ Current(c) \in Code
         /\ frames' \in [Code -> FrameState]
         /\ frames'[Current(c)] = f
         /\ \A x \in Code : x # Current(c) => frames'[x] = frames[x]
BY Zenon DEF SpinTypeOK, Frame, Current, Code, FrameState

LEMMA TopType ==
  ASSUME SpinTypeOK, NEW c \in Cpus
  PROVE  Top(c) \in FrameState /\ Current(c) \in Code /\ cpu[c] \in CpuState
BY Zenon DEF SpinTypeOK, Top, Current, Code

\* Who is inside a lock does not change.
LEMMA SameHolders ==
  ASSUME LockExclusive, \A x \in Code : Has(frames'[x]) = Has(frames[x]),
         \A l \in Locks : lock'[l].locked = lock[l].locked
  PROVE  LockExclusive'
BY Zenon DEF LockExclusive

\* Nor who owns it.
LEMMA SameOwners ==
  ASSUME Owner, \A x \in Code : frames'[x].has = frames[x].has,
         \A l \in Locks : lock'[l].cpu = lock[l].cpu
  PROVE  Owner'
BY Zenon DEF Owner

\* Code that is not the current one of its CPU is idle.
LEMMA OnlyTopBusy ==
  ASSUME Nesting, NEW c \in Cpus, NEW x \in Code, x[1] = c, x # Current(c)
  PROVE  frames[x].has = {} /\ frames[x].pc = "run"
<1>1. x = <<c, 0>> \/ x = <<c, 1>>
  BY DEF Code
<1>2. CASE cpu[c].intr
  BY <1>1, <1>2, Zenon DEF Nesting, Current
<1>3. CASE ~cpu[c].intr
  <2>1. x = <<c, 1>>
    BY <1>1, <1>3, Zenon DEF Current
  <2>2. frames[<<c, 1>>] = NewFrame
    BY <1>3, Zenon DEF Nesting
  <2>. QED  BY <2>1, <2>2 DEF NewFrame
<1>. QED  BY <1>2, <1>3, Zenon

\* The number of open pushcli() calls of a piece of code.
LEMMA DepthType ==
  ASSUME SpinTypeOK, Transit, NEW x \in Code
  PROVE  Depth(frames[x]) \in Nat
BY FS_CardinalityType DEF Transit, Depth

\* A step of one CPU that leaves intr alone keeps the handlers apart.
LEMMA NestingStep ==
  ASSUME SpinTypeOK, Nesting, NEW c \in Cpus,
         \A x \in Code : x # Current(c) => frames'[x] = frames[x],
         \A d \in Cpus : cpu'[d].intr = cpu[d].intr,
         \A d \in Cpus : cpu'[d].ncli > 0 => (cpu'[d].intena <=> ~cpu[d].intr)
  PROVE  Nesting'
<1>. SUFFICES ASSUME NEW d \in Cpus
              PROVE  /\ ~cpu'[d].intr => frames'[<<d, 1>>] = NewFrame
                     /\ cpu'[d].intr => frames'[<<d, 0>>].pc = "run" /\ frames'[<<d, 0>>].has = {}
  BY Zenon DEF Nesting, NewFrame
<1>1. <<d, 0>> \in Code /\ <<d, 1>> \in Code
  BY Zenon DEF Code
<1>2. CASE cpu[d].intr
  <2>1. <<d, 0>> # Current(c)
    BY <1>2 DEF Current
  <2>. QED  BY <1>1, <1>2, <2>1, Zenon DEF Nesting
<1>3. CASE ~cpu[d].intr
  <2>1. <<d, 1>> # Current(c)
    BY <1>3 DEF Current
  <2>. QED  BY <1>1, <1>3, <2>1, Zenon DEF Nesting
<1>. QED  BY <1>2, <1>3, Zenon

\* ncli and FL_IF stay right if the step opens or closes as many pushcli()
\* calls as it counts, and enables interrupts when none is left.
LEMMA DepthStep ==
  ASSUME SpinTypeOK, Transit, Nesting, InterruptsMatched, NEW c \in Cpus, NEW k \in CpuState,
         cpu' = [cpu EXCEPT ![c] = k],
         k.ncli = cpu[c].ncli + Depth(frames'[Current(c)]) - Depth(Top(c)),
         Depth(frames'[Current(c)]) \in Nat,
         k.FL_IF <=> k.ncli = 0 /\ ~k.intr,
         \A x \in Code : x # Current(c) => frames'[x] = frames[x]
  PROVE  InterruptsMatched'
<1>. SUFFICES ASSUME NEW d \in Cpus
              PROVE  /\ cpu'[d].ncli = Depth(frames'[<<d, 0>>]) + Depth(frames'[<<d, 1>>])
                     /\ cpu'[d].FL_IF <=> cpu'[d].ncli = 0 /\ ~cpu'[d].intr
  BY Zenon DEF InterruptsMatched, Depth
<1>1. <<d, 0>> \in Code /\ <<d, 1>> \in Code
  BY Zenon DEF Code
<1>2. Depth(frames[<<d, 0>>]) \in Nat /\ Depth(frames[<<d, 1>>]) \in Nat
  BY <1>1, DepthType, Zenon
<1>3. /\ cpu[d].ncli = Depth(frames[<<d, 0>>]) + Depth(frames[<<d, 1>>])
      /\ cpu[d].FL_IF <=> cpu[d].ncli = 0 /\ ~cpu[d].intr
  BY Zenon DEF InterruptsMatched
<1>4. CASE d # c
  <2>1. cpu'[d] = cpu[d]
    BY <1>4, Zenon DEF SpinTypeOK
  <2>2. <<d, 0>> # Current(c) /\ <<d, 1>> # Current(c)
    BY <1>4, Zenon DEF Current
  <2>. QED  BY <1>1, <1>3, <2>1, <2>2, Zenon
<1>5. CASE d = c
  <2>1. cpu'[d] = k
    BY <1>5, Zenon DEF SpinTypeOK
  <2>2. CASE Current(c) = <<d, 0>>
    <3>1. frames'[<<d, 1>>] = frames[<<d, 1>>]
      BY <1>1, <2>2
    <3>. QED  BY <1>2, <1>3, <1>5, <2>1, <2>2, <3>1 DEF Top, CpuState
  <2>3. CASE Current(c) = <<d, 1>>
    <3>1. frames'[<<d, 0>>] = frames[<<d, 0>>]
      BY <1>1, <2>3
    <3>. QED  BY <1>2, <1>3, <1>5, <2>1, <2>3, <3>1 DEF Top, CpuState
  <2>. QED  BY <1>5, <2>2, <2>3, Zenon DEF Current
<1>. QED  BY <1>4, <1>5, Zenon

\* What pushcli() does to the CPU's record.
LEMMA PushFields ==
  ASSUME NEW k \in CpuState
  PROVE  /\ pushcli(k) \in CpuState
         /\ pushcli(k).ncli = k.ncli + 1 /\ pushcli(k).intr = k.intr /\ ~pushcli(k).FL_IF
         /\ k.ncli = 0 => (pushcli(k).intena <=> k.FL_IF)
         /\ k.ncli # 0 => (pushcli(k).intena <=> k.intena)
<1>1. Saved(k) \in BOOLEAN
  BY Zenon DEF Saved, CpuState
<1>2. k.ncli = 0 => Saved(k) = k.FL_IF
  BY Zenon DEF Saved
<1>3. k.ncli # 0 => Saved(k) = k.intena
  BY Zenon DEF Saved
<1>4. pushcli(k) \in CpuState
  <2>1. k.ncli + 1 \in Int
    BY DEF CpuState
  <2>. QED  BY <1>1, <2>1, Zenon DEF pushcli, CpuState
<1>5. pushcli(k).ncli = k.ncli + 1
  BY Zenon DEF pushcli, CpuState
<1>6. pushcli(k).intr = k.intr /\ pushcli(k).FL_IF = FALSE /\ pushcli(k).intena = Saved(k)
  BY Zenon DEF pushcli, CpuState
<1>7. k.ncli = 0 => pushcli(k).intena = k.FL_IF
  BY <1>2, <1>6, Zenon
<1>8. k.ncli # 0 => pushcli(k).intena = k.intena
  BY <1>3, <1>6, Zenon
<1>. QED  BY <1>4, <1>5, <1>6, <1>7, <1>8, Zenon

\* pushcli() with the frame that acquire() or myproc() leaves.
LEMMA PushStep ==
  ASSUME SpinInv, NEW c \in Cpus, NEW f \in FrameState, Frame(c, f.pc, f.lk, f.has),
         Top(c).pc = "run", f.has = Top(c).has, f.pc \in {"spin", "cli"},
         f.pc = "spin" => f.lk \in Locks \ f.has,
         cpu' = [cpu EXCEPT ![c] = pushcli(@)], lock' = lock, spinpanic' = FALSE
  PROVE  SpinInv'
<1>. DEFINE k == pushcli(cpu[c])
<1>1. SpinTypeOK /\ Transit /\ Owner /\ Nesting /\ LockExclusive /\ InterruptsMatched
  BY Zenon DEF SpinInv
<1>2. Top(c) \in FrameState /\ Current(c) \in Code /\ cpu[c] \in CpuState
  BY <1>1, TopType, Zenon
<1>3. /\ frames' \in [Code -> FrameState]
      /\ frames'[Current(c)] = f
      /\ \A x \in Code : x # Current(c) => frames'[x] = frames[x]
  BY <1>1, FrameStep, Zenon
<1>4. /\ k \in CpuState /\ k.ncli = cpu[c].ncli + 1 /\ k.intr = cpu[c].intr /\ ~k.FL_IF
      /\ cpu[c].ncli = 0 => (k.intena <=> cpu[c].FL_IF)
      /\ cpu[c].ncli # 0 => (k.intena <=> cpu[c].intena)
  BY <1>2, PushFields, Zenon
<1>5. cpu' = [cpu EXCEPT ![c] = k]
  BY <1>1, Zenon DEF SpinTypeOK
<1>. HIDE DEF k
<1>6. cpu'[c] = k /\ \A d \in Cpus : d # c => cpu'[d] = cpu[d]
  BY <1>1, <1>5, Zenon DEF SpinTypeOK
<1>7. Depth(Top(c)) \in Nat /\ Depth(f) = Depth(Top(c)) + 1
  <2>1. IsFiniteSet(Top(c).has)
    BY <1>1, <1>2, Zenon DEF Transit, Top
  <2>. QED  BY <2>1, FS_CardinalityType DEF Depth
<1>8. cpu[c].ncli \in Nat /\ (cpu[c].FL_IF <=> cpu[c].ncli = 0 /\ ~cpu[c].intr)
  <2>1. <<c, 0>> \in Code /\ <<c, 1>> \in Code
    BY Zenon DEF Code
  <2>2. Depth(frames[<<c, 0>>]) \in Nat /\ Depth(frames[<<c, 1>>]) \in Nat
    BY <1>1, <2>1, DepthType, Zenon
  <2>. QED  BY <1>1, <2>2 DEF InterruptsMatched
<1>9. SpinTypeOK'
  BY <1>1, <1>3, <1>4, <1>5, Zenon DEF SpinTypeOK
<1>10. Transit'
  <2>. SUFFICES ASSUME NEW x \in Code
                PROVE  /\ IsFiniteSet(frames'[x].has)
                       /\ frames'[x].pc \in {"spin", "mark", "unlock"} =>
                            frames'[x].lk \in Locks \ frames'[x].has
    BY Zenon DEF Transit
  <2>1. CASE x = Current(c)
    BY <1>1, <1>2, <1>3, <2>1, Zenon DEF Transit, Top
  <2>2. CASE x # Current(c)
    BY <1>1, <1>3, <2>2, Zenon DEF Transit
  <2>. QED  BY <2>1, <2>2, Zenon
<1>11. Owner'
  <2>1. \A x \in Code : frames'[x].has = frames[x].has
    BY <1>2, <1>3, Zenon DEF Top
  <2>. QED  BY <1>1, <2>1, SameOwners, Zenon
<1>12. LockExclusive'
  <2>1. \A x \in Code : Has(frames'[x]) = Has(frames[x])
    BY <1>2, <1>3, Zenon DEF Top, Has
  <2>. QED  BY <1>1, <2>1, SameHolders, Zenon
<1>13. Nesting'
  <2>1. \A d \in Cpus : cpu'[d].intr = cpu[d].intr
    BY <1>4, <1>6, Zenon
  <2>2. cpu'[c].intena <=> ~cpu[c].intr
    <3>1. CASE cpu[c].ncli = 0
      BY <1>4, <1>6, <1>8, <3>1, Zenon
    <3>2. CASE cpu[c].ncli # 0
      <4>1. cpu[c].ncli > 0
        BY <1>8, <3>2
      <4>2. cpu[c].intena <=> ~cpu[c].intr
        BY <1>1, <4>1, Zenon DEF Nesting
      <4>. QED  BY <1>4, <1>6, <3>2, <4>2, Zenon
    <3>. QED  BY <3>1, <3>2, Zenon
  <2>3. \A d \in Cpus : cpu'[d].ncli > 0 => (cpu'[d].intena <=> ~cpu[d].intr)
    BY <1>1, <1>6, <2>2, Zenon DEF Nesting
  <2>. QED  BY <1>1, <1>3, <2>1, <2>3, NestingStep, Zenon
<1>14. InterruptsMatched'
  <2>1. k.ncli = cpu[c].ncli + Depth(frames'[Current(c)]) - Depth(Top(c))
    BY <1>3, <1>4, <1>7, <1>8
  <2>2. k.FL_IF <=> k.ncli = 0 /\ ~k.intr
    BY <1>4, <1>8
  <2>3. Depth(frames'[Current(c)]) \in Nat
    BY <1>3, <1>7
  <2>. QED  BY <1>1, <1>3, <1>4, <1>5, <2>1, <2>2, <2>3, DepthStep, Zenon
<1>. QED  BY <1>9, <1>10, <1>11, <1>12, <1>13, <1>14, Zenon DEF SpinInv

\* acquire() up to its loop: the lock cannot be the CPU's own.
LEMMA AcquireStep ==
  ASSUME SpinInv, NEW c \in Cpus, NEW l \in Locks, acquire(c, l)
  PROVE  SpinInv'
<1>. DEFINE f == [pc |-> "spin", lk |-> l, has |-> Top(c).has]
<1>1. SpinTypeOK /\ Owner /\ Nesting
  BY Zenon DEF SpinInv
<1>2. Top(c) \in FrameState /\ Current(c) \in Code
  BY <1>1, TopType, Zenon
<1>3. f \in FrameState
  BY <1>2, SpinAssumption, Zenon DEF FrameState
<1>4. l \notin Top(c).has
  BY <1>2, SpinAssumption DEF acquire, FrameState
<1>5. ~holding(c, l)
  <2>. SUFFICES ASSUME holding(c, l) PROVE FALSE
    OBVIOUS
  <2>1. lock[l].cpu = c /\ c # NoCpu
    BY SpinAssumption, Zenon DEF holding
  <2>2. PICK x \in Code : l \in frames[x].has
    BY <1>1, <2>1, Zenon DEF Owner
  <2>3. x[1] = c
    BY <1>1, <2>1, <2>2, Zenon DEF Owner
  <2>4. x # Current(c)
    BY <1>4, <2>2, Zenon DEF Top
  <2>. QED  BY <1>1, <2>2, <2>3, <2>4, OnlyTopBusy, Zenon
<1>6. spinpanic' = FALSE
  BY <1>5 DEF acquire
<1>. QED  BY <1>3, <1>4, <1>6, PushStep, Zenon DEF acquire

\* myproc() and other looks at the CPU's state.
LEMMA MyprocStep ==
  ASSUME SpinInv, NEW c \in Cpus, Myproc(c)
  PROVE  SpinInv'
<1>. DEFINE f == [pc |-> "cli", lk |-> 0, has |-> Top(c).has]
<1>1. Top(c) \in FrameState
  BY TopType, Zenon DEF SpinInv
<1>2. f \in FrameState
  BY <1>1, Zenon DEF FrameState
<1>. QED  BY <1>2, PushStep, Zenon DEF Myproc, SpinInv

\* The steps that leave the CPU's record alone: xchg, the stores to lock->cpu
\* and the store that unlocks.
LEMMA StoreStep ==
  ASSUME SpinInv, NEW c \in Cpus, NEW f \in FrameState, Frame(c, f.pc, f.lk, f.has),
         IsFiniteSet(f.has), f.pc \in {"spin", "mark", "unlock"} => f.lk \in Locks \ f.has,
         Depth(f) = Depth(Top(c)), cpu' = cpu,
         lock' \in [Locks -> [locked : BOOLEAN, cpu : Cpus \cup {NoCpu}]],
         Owner', LockExclusive', spinpanic' = FALSE
  PROVE  SpinInv'
<1>1. SpinTypeOK /\ Transit /\ Nesting /\ InterruptsMatched
  BY Zenon DEF SpinInv
<1>2. Top(c) \in FrameState /\ Current(c) \in Code /\ cpu[c] \in CpuState
  BY <1>1, TopType, Zenon
<1>3. /\ frames' \in [Code -> FrameState]
      /\ frames'[Current(c)] = f
      /\ \A x \in Code : x # Current(c) => frames'[x] = frames[x]
  BY <1>1, FrameStep, Zenon
<1>4. SpinTypeOK'
  BY <1>1, <1>3, Zenon DEF SpinTypeOK
<1>5. Transit'
  <2>. SUFFICES ASSUME NEW x \in Code
                PROVE  /\ IsFiniteSet(frames'[x].has)
                       /\ frames'[x].pc \in {"spin", "mark", "unlock"} =>
                            frames'[x].lk \in Locks \ frames'[x].has
    BY Zenon DEF Transit
  <2>1. CASE x = Current(c)
    BY <1>3, <2>1, Zenon
  <2>2. CASE x # Current(c)
    BY <1>1, <1>3, <2>2, Zenon DEF Transit
  <2>. QED  BY <2>1, <2>2, Zenon
<1>6. Nesting'
  BY <1>1, <1>3, NestingStep, Zenon DEF Nesting
<1>7. InterruptsMatched'
  <2>1. Depth(Top(c)) \in Nat
    BY <1>1, <1>2, DepthType, Zenon DEF Top
  <2>2. cpu' = [cpu EXCEPT ![c] = cpu[c]]
    BY <1>1, Zenon DEF SpinTypeOK
  <2>3. cpu[c].ncli = cpu[c].ncli + Depth(frames'[Current(c)]) - Depth(Top(c))
    BY <1>2, <1>3, <2>1 DEF CpuState
  <2>4. cpu[c].FL_IF <=> cpu[c].ncli = 0 /\ ~cpu[c].intr
    BY <1>1, Zenon DEF InterruptsMatched
  <2>5. Depth(frames'[Current(c)]) \in Nat
    BY <1>3, <2>1, Zenon
  <2>. QED  BY <1>1, <1>2, <1>3, <2>2, <2>3, <2>4, <2>5, DepthStep, Zenon
<1>. QED  BY <1>4, <1>5, <1>6, <1>7, Zenon DEF SpinInv

\* The xchg that takes the lock: nobody was inside.
LEMMA XchgStep ==
  ASSUME SpinInv, NEW c \in Cpus, Xchg(c)
  PROVE  SpinInv'
<1>. DEFINE l == Top(c).lk
            f == [pc |-> "mark", lk |-> l, has |-> Top(c).has]
<1>1. SpinTypeOK /\ Transit /\ Owner /\ LockExclusive
  BY Zenon DEF SpinInv
<1>2. Top(c) \in FrameState /\ Current(c) \in Code
  BY <1>1, TopType, Zenon
<1>3. Top(c).pc = "spin" /\ ~lock[l].locked /\ lock' = [lock EXCEPT ![l].locked = TRUE]
  BY Zenon DEF Xchg, Unlocked
<1>4. l \in Locks \ Top(c).has /\ IsFiniteSet(Top(c).has)
  BY <1>1, <1>2, <1>3, Zenon DEF Transit, Top
<1>5. f \in FrameState /\ Frame(c, f.pc, f.lk, f.has)
  BY <1>2, Zenon DEF Xchg, FrameState
<1>6. /\ frames'[Current(c)] = f
      /\ \A x \in Code : x # Current(c) => frames'[x] = frames[x]
  BY <1>1, <1>5, FrameStep, Zenon
<1>7. /\ lock' \in [Locks -> [locked : BOOLEAN, cpu : Cpus \cup {NoCpu}]]
      /\ lock'[l].locked /\ lock'[l].cpu = lock[l].cpu
      /\ \A m \in Locks : m # l => lock'[m] = lock[m]
  BY <1>1, <1>3, <1>4, Zenon DEF SpinTypeOK
<1>. HIDE DEF l
<1>8. Owner'
  <2>1. \A x \in Code : frames'[x].has = frames[x].has
    BY <1>6 DEF Top
  <2>2. \A m \in Locks : lock'[m].cpu = lock[m].cpu
    BY <1>7, Zenon
  <2>. QED  BY <1>1, <2>1, <2>2, SameOwners, Zenon
<1>9. LockExclusive'
  <2>1. Has(frames'[Current(c)]) = Has(frames[Current(c)]) \cup {l}
    BY <1>3, <1>6 DEF Has, Top
  <2>2. \A x \in Code : x # Current(c) => Has(frames'[x]) = Has(frames[x])
    BY <1>6, Zenon
  <2>3. \A x \in Code : l \notin Has(frames[x])
    BY <1>1, <1>3, <1>4, Zenon DEF LockExclusive
  <2>4. ASSUME NEW m \in Locks
        PROVE  /\ \A x, y \in Code : m \in Has(frames'[x]) /\ m \in Has(frames'[y]) => x = y
               /\ lock'[m].locked <=> \E x \in Code : m \in Has(frames'[x])
    <3>1. CASE m = l
      BY <1>2, <1>7, <2>1, <2>2, <2>3, <3>1, Zenon
    <3>2. CASE m # l
      <4>1. \A x \in Code : m \in Has(frames'[x]) <=> m \in Has(frames[x])
        BY <2>1, <2>2, <3>2, Zenon
      <4>. QED  BY <1>1, <1>7, <3>2, <4>1, Zenon DEF LockExclusive
    <3>. QED  BY <3>1, <3>2, Zenon
  <2>. QED  BY <2>4, Zenon DEF LockExclusive
<1>10. Depth(f) = Depth(Top(c))
  BY <1>3, Zenon DEF Depth
<1>11. cpu' = cpu /\ spinpanic' = FALSE
  BY Zenon DEF Xchg, SpinInv
<1>. QED  BY <1>4, <1>5, <1>7, <1>8, <1>9, <1>10, <1>11, StoreStep, Zenon

\* The store to lock->cpu after the xchg.
LEMMA MarkStep ==
  ASSUME SpinInv, NEW c \in Cpus, Mark(c)
  PROVE  SpinInv'
<1>. DEFINE l == Top(c).lk
            f == [pc |-> "run", lk |-> 0, has |-> Top(c).has \cup {l}]
<1>1. SpinTypeOK /\ Transit /\ Owner /\ LockExclusive
  BY Zenon DEF SpinInv
<1>2. Top(c) \in FrameState /\ Current(c) \in Code /\ Current(c)[1] = c
  BY <1>1, TopType, Zenon DEF Current
<1>3. Top(c).pc = "mark" /\ lock' = [lock EXCEPT ![l].cpu = c]
  BY Zenon DEF Mark
<1>4. l \in Locks \ Top(c).has /\ IsFiniteSet(Top(c).has)
  BY <1>1, <1>2, <1>3, Zenon DEF Transit, Top
<1>5. f \in FrameState /\ Frame(c, f.pc, f.lk, f.has)
  BY <1>2, <1>4, Zenon DEF Mark, FrameState
<1>6. /\ frames'[Current(c)] = f
      /\ \A x \in Code : x # Current(c) => frames'[x] = frames[x]
  BY <1>1, <1>5, FrameStep, Zenon
<1>7. /\ lock' \in [Locks -> [locked : BOOLEAN, cpu : Cpus \cup {NoCpu}]]
      /\ lock'[l].locked = lock[l].locked /\ lock'[l].cpu = c
      /\ \A m \in Locks : m # l => lock'[m] = lock[m]
  BY <1>1, <1>3, <1>4, Zenon DEF SpinTypeOK
<1>8. IsFiniteSet(f.has) /\ Depth(f) = Depth(Top(c))
  <2>1. IsFiniteSet(f.has) /\ Cardinality(f.has) = Cardinality(Top(c).has) + 1
    BY <1>4, FS_AddElement, Zenon
  <2>2. Cardinality(Top(c).has) \in Nat
    BY <1>4, FS_CardinalityType, Zenon
  <2>. QED  BY <1>3, <2>1, <2>2 DEF Depth
<1>. HIDE DEF l
<1>9. LockExclusive'
  <2>1. \A x \in Code : Has(frames'[x]) = Has(frames[x])
    BY <1>3, <1>6 DEF Has, Top, l
  <2>2. \A m \in Locks : lock'[m].locked = lock[m].locked
    BY <1>7, Zenon
  <2>. QED  BY <1>1, <2>1, <2>2, SameHolders, Zenon
<1>10. Owner'
  <2>1. \A x \in Code : x # Current(c) => l \notin frames'[x].has
    BY <1>1, <1>2, <1>3, <1>4, <1>6, Zenon DEF LockExclusive, Has, Top, l
  <2>2. \A x \in Code, m \in Locks : m # l => (m \in frames'[x].has <=> m \in frames[x].has)
    BY <1>6 DEF Top
  <2>3. l \in frames'[Current(c)].has
    BY <1>6
  <2>4. ASSUME NEW m \in Locks
        PROVE  /\ \A x \in Code : m \in frames'[x].has => lock'[m].cpu = x[1]
               /\ lock'[m].cpu # NoCpu => \E x \in Code : m \in frames'[x].has
    <3>1. CASE m = l
      BY <1>2, <1>7, <2>1, <2>3, <3>1, Zenon
    <3>2. CASE m # l
      BY <1>1, <1>7, <2>2, <3>2 DEF Owner
    <3>. QED  BY <3>1, <3>2, Zenon
  <2>. QED  BY <2>4, Zenon DEF Owner
<1>11. cpu' = cpu /\ spinpanic' = FALSE
  BY Zenon DEF Mark, SpinInv
<1>. QED  BY <1>5, <1>7, <1>8, <1>9, <1>10, <1>11, StoreStep, Zenon

\* release() up to the store that unlocks: holding() is true.
LEMMA ReleaseStep ==
  ASSUME SpinInv, NEW c \in Cpus, NEW l \in Locks, release(c, l)
  PROVE  SpinInv'
<1>. DEFINE f == [pc |-> "unlock", lk |-> l, has |-> Top(c).has \ {l}]
<1>1. SpinTypeOK /\ Transit /\ Owner /\ LockExclusive
  BY Zenon DEF SpinInv
<1>2. Top(c) \in FrameState /\ Current(c) \in Code /\ Current(c)[1] = c
  BY <1>1, TopType, Zenon DEF Current
<1>3. Top(c).pc = "run" /\ l \in Top(c).has /\ lock' = [lock EXCEPT ![l].cpu = NoCpu]
  BY Zenon DEF release
<1>4. IsFiniteSet(Top(c).has)
  BY <1>1, <1>2, Zenon DEF Transit, Top
<1>5. f \in FrameState /\ Frame(c, f.pc, f.lk, f.has)
  BY <1>2, SpinAssumption, Zenon DEF release, FrameState
<1>6. /\ frames'[Current(c)] = f
      /\ \A x \in Code : x # Current(c) => frames'[x] = frames[x]
  BY <1>1, <1>5, FrameStep, Zenon
<1>7. /\ lock' \in [Locks -> [locked : BOOLEAN, cpu : Cpus \cup {NoCpu}]]
      /\ lock'[l].locked = lock[l].locked /\ lock'[l].cpu = NoCpu
      /\ \A m \in Locks : m # l => lock'[m] = lock[m]
  BY <1>1, <1>3, Zenon DEF SpinTypeOK
<1>8. IsFiniteSet(f.has) /\ Depth(f) = Depth(Top(c))
  <2>1. IsFiniteSet(f.has) /\ Cardinality(f.has) = Cardinality(Top(c).has) - 1
    BY <1>3, <1>4, FS_RemoveElement, Zenon
  <2>2. Cardinality(Top(c).has) \in Nat
    BY <1>4, FS_CardinalityType, Zenon
  <2>. QED  BY <1>3, <2>1, <2>2 DEF Depth
<1>9. LockExclusive'
  <2>1. \A x \in Code : Has(frames'[x]) = Has(frames[x])
    BY <1>3, <1>6 DEF Has, Top
  <2>2. \A m \in Locks : lock'[m].locked = lock[m].locked
    BY <1>7, Zenon
  <2>. QED  BY <1>1, <2>1, <2>2, SameHolders, Zenon
<1>10. Owner'
  <2>1. \A x \in Code : l \notin frames'[x].has
    BY <1>1, <1>2, <1>3, <1>6 DEF LockExclusive, Has, Top
  <2>2. \A x \in Code, m \in Locks : m # l => (m \in frames'[x].has <=> m \in frames[x].has)
    BY <1>6 DEF Top
  <2>3. ASSUME NEW m \in Locks
        PROVE  /\ \A x \in Code : m \in frames'[x].has => lock'[m].cpu = x[1]
               /\ lock'[m].cpu # NoCpu => \E x \in Code : m \in frames'[x].has
    <3>1. CASE m = l
      BY <1>7, <2>1, <3>1, Zenon
    <3>2. CASE m # l
      BY <1>1, <1>7, <2>2, <3>2 DEF Owner
    <3>. QED  BY <3>1, <3>2, Zenon
  <2>. QED  BY <2>3, Zenon DEF Owner
<1>11. cpu' = cpu
  BY Zenon DEF release
<1>12. spinpanic' = FALSE
  <2>1. lock[l].locked
    BY <1>1, <1>2, <1>3, Zenon DEF LockExclusive, Has, Top
  <2>2. lock[l].cpu = c
    BY <1>1, <1>2, <1>3, Zenon DEF Owner, Top
  <2>. QED  BY <2>1, <2>2, Zenon DEF release, holding
<1>. QED  BY <1>5, <1>7, <1>8, <1>9, <1>10, <1>11, <1>12, StoreStep, Zenon

\* The store that unlocks.
LEMMA UnlockStep ==
  ASSUME SpinInv, NEW c \in Cpus, Unlock(c)
  PROVE  SpinInv'
<1>. DEFINE l == Top(c).lk
            f == [pc |-> "pop", lk |-> 0, has |-> Top(c).has]
<1>1. SpinTypeOK /\ Transit /\ Owner /\ LockExclusive
  BY Zenon DEF SpinInv
<1>2. Top(c) \in FrameState /\ Current(c) \in Code
  BY <1>1, TopType, Zenon
<1>3. Top(c).pc = "unlock" /\ lock' = [lock EXCEPT ![l].locked = FALSE]
  BY Zenon DEF Unlock
<1>4. l \in Locks \ Top(c).has /\ IsFiniteSet(Top(c).has)
  BY <1>1, <1>2, <1>3, Zenon DEF Transit, Top
<1>5. f \in FrameState /\ Frame(c, f.pc, f.lk, f.has)
  BY <1>2, Zenon DEF Unlock, FrameState
<1>6. /\ frames'[Current(c)] = f
      /\ \A x \in Code : x # Current(c) => frames'[x] = frames[x]
  BY <1>1, <1>5, FrameStep, Zenon
<1>7. /\ lock' \in [Locks -> [locked : BOOLEAN, cpu : Cpus \cup {NoCpu}]]
      /\ ~lock'[l].locked /\ lock'[l].cpu = lock[l].cpu
      /\ \A m \in Locks : m # l => lock'[m] = lock[m]
  BY <1>1, <1>3, <1>4, Zenon DEF SpinTypeOK
<1>. HIDE DEF l
<1>8. Owner'
  <2>1. \A x \in Code : frames'[x].has = frames[x].has
    BY <1>6 DEF Top
  <2>2. \A m \in Locks : lock'[m].cpu = lock[m].cpu
    BY <1>7, Zenon
  <2>. QED  BY <1>1, <2>1, <2>2, SameOwners, Zenon
<1>9. LockExclusive'
  <2>1. /\ Has(frames[Current(c)]) = Top(c).has \cup {Top(c).lk}
        /\ Has(frames'[Current(c)]) = Top(c).has
    BY <1>3, <1>6 DEF Has, Top
  <2>2. \A x \in Code : x # Current(c) => Has(frames'[x]) = Has(frames[x])
    BY <1>6, Zenon
  <2>3. \A x \in Code : l \notin Has(frames'[x])
    BY <1>1, <1>2, <1>4, <2>1, <2>2, Zenon DEF LockExclusive, l
  <2>4. ASSUME NEW m \in Locks
        PROVE  /\ \A x, y \in Code : m \in Has(frames'[x]) /\ m \in Has(frames'[y]) => x = y
               /\ lock'[m].locked <=> \E x \in Code : m \in Has(frames'[x])
    <3>1. CASE m = l
      BY <1>7, <2>3, <3>1, Zenon
    <3>2. CASE m # l
      <4>1. \A x \in Code : m \in Has(frames'[x]) <=> m \in Has(frames[x])
        BY <2>1, <2>2, <3>2, Zenon DEF l
      <4>. QED  BY <1>1, <1>7, <3>2, <4>1, Zenon DEF LockExclusive
    <3>. QED  BY <3>1, <3>2, Zenon
  <2>. QED  BY <2>4, Zenon DEF LockExclusive
<1>10. Depth(f) = Depth(Top(c))
  BY <1>3, Zenon DEF Depth
<1>11. cpu' = cpu /\ spinpanic' = FALSE
  BY Zenon DEF Unlock, SpinInv
<1>. QED  BY <1>4, <1>5, <1>7, <1>8, <1>9, <1>10, <1>11, StoreStep, Zenon

\* What popcli() does to the CPU's record.
LEMMA PopFields ==
  ASSUME NEW k \in CpuState
  PROVE  /\ popcli(k) \in CpuState
         /\ popcli(k).ncli = k.ncli - 1 /\ popcli(k).intr = k.intr /\ popcli(k).intena = k.intena
         /\ popcli(k).FL_IF <=> k.ncli = 1 /\ k.intena
<1>1. Enables(k) \in BOOLEAN /\ (Enables(k) <=> k.ncli = 1 /\ k.intena)
  BY Zenon DEF Enables, CpuState
<1>2. popcli(k).ncli = k.ncli - 1
  BY Zenon DEF popcli, CpuState
<1>3. popcli(k).intr = k.intr /\ popcli(k).intena = k.intena /\ popcli(k).FL_IF = Enables(k)
  BY Zenon DEF popcli, CpuState
<1>4. popcli(k) \in CpuState
  <2>1. k.ncli - 1 \in Int
    BY DEF CpuState
  <2>. QED  BY <1>1, <2>1, Zenon DEF popcli, CpuState
<1>. QED  BY <1>1, <1>2, <1>3, <1>4, Zenon

\* popcli(): it finds interrupts disabled and a call to undo.
LEMMA PopStep ==
  ASSUME SpinInv, NEW c \in Cpus, Pop(c)
  PROVE  SpinInv'
<1>. DEFINE f == [pc |-> "run", lk |-> 0, has |-> Top(c).has]
            k == popcli(cpu[c])
<1>1. SpinTypeOK /\ Transit /\ Owner /\ Nesting /\ LockExclusive /\ InterruptsMatched
  BY Zenon DEF SpinInv
<1>2. Top(c) \in FrameState /\ Current(c) \in Code /\ cpu[c] \in CpuState
  BY <1>1, TopType, Zenon
<1>3. /\ Top(c).pc \in {"pop", "cli"} /\ lock' = lock
      /\ cpu' = [cpu EXCEPT ![c] = k] /\ spinpanic' = PopPanics(cpu[c])
  BY <1>1, Zenon DEF Pop, SpinTypeOK
<1>4. f \in FrameState /\ Frame(c, f.pc, f.lk, f.has)
  BY <1>2, Zenon DEF Pop, FrameState
<1>5. /\ frames' \in [Code -> FrameState]
      /\ frames'[Current(c)] = f
      /\ \A x \in Code : x # Current(c) => frames'[x] = frames[x]
  BY <1>1, <1>4, FrameStep, Zenon
<1>6. /\ k \in CpuState /\ k.ncli = cpu[c].ncli - 1 /\ k.intr = cpu[c].intr
      /\ k.intena = cpu[c].intena /\ (k.FL_IF <=> cpu[c].ncli = 1 /\ cpu[c].intena)
  BY <1>2, PopFields, Zenon
<1>. HIDE DEF k
<1>7. cpu'[c] = k /\ \A d \in Cpus : d # c => cpu'[d] = cpu[d]
  BY <1>1, <1>3, Zenon DEF SpinTypeOK
<1>8. IsFiniteSet(f.has) /\ Depth(f) \in Nat /\ Depth(Top(c)) = Depth(f) + 1
  <2>1. IsFiniteSet(Top(c).has)
    BY <1>1, <1>2, Zenon DEF Transit, Top
  <2>. QED  BY <1>3, <2>1, FS_CardinalityType DEF Depth
<1>9. cpu[c].ncli \in Nat \ {0} /\ ~cpu[c].FL_IF
  <2>1. <<c, 0>> \in Code /\ <<c, 1>> \in Code
    BY Zenon DEF Code
  <2>2. Depth(frames[<<c, 0>>]) \in Nat /\ Depth(frames[<<c, 1>>]) \in Nat
    BY <1>1, <2>1, DepthType, Zenon
  <2>3. Depth(Top(c)) = Depth(frames[<<c, 0>>]) \/ Depth(Top(c)) = Depth(frames[<<c, 1>>])
    BY Zenon DEF Top, Current
  <2>4. cpu[c].ncli = Depth(frames[<<c, 0>>]) + Depth(frames[<<c, 1>>])
    BY <1>1, Zenon DEF InterruptsMatched
  <2>5. cpu[c].ncli \in Nat \ {0}
    BY <1>8, <2>2, <2>3, <2>4
  <2>. QED  BY <1>1, <2>5, Zenon DEF InterruptsMatched
<1>10. cpu[c].intena <=> ~cpu[c].intr
  <2>1. cpu[c].ncli > 0
    BY <1>9
  <2>. QED  BY <1>1, <2>1, Zenon DEF Nesting
<1>11. SpinTypeOK'
  BY <1>1, <1>3, <1>5, <1>6, Zenon DEF SpinTypeOK
<1>12. Transit'
  <2>. SUFFICES ASSUME NEW x \in Code
                PROVE  /\ IsFiniteSet(frames'[x].has)
                       /\ frames'[x].pc \in {"spin", "mark", "unlock"} =>
                            frames'[x].lk \in Locks \ frames'[x].has
    BY Zenon DEF Transit
  <2>1. CASE x = Current(c)
    BY <1>5, <1>8, <2>1
  <2>2. CASE x # Current(c)
    BY <1>1, <1>5, <2>2, Zenon DEF Transit
  <2>. QED  BY <2>1, <2>2, Zenon
<1>13. Owner'
  <2>1. \A x \in Code : frames'[x].has = frames[x].has
    BY <1>2, <1>5 DEF Top
  <2>. QED  BY <1>1, <1>3, <2>1, SameOwners, Zenon
<1>14. LockExclusive'
  <2>1. \A x \in Code : Has(frames'[x]) = Has(frames[x])
    BY <1>2, <1>3, <1>5 DEF Top, Has
  <2>. QED  BY <1>1, <1>3, <2>1, SameHolders, Zenon
<1>15. Nesting'
  <2>1. \A d \in Cpus : cpu'[d].intr = cpu[d].intr
    BY <1>6, <1>7, Zenon
  <2>2. cpu'[c].intena <=> ~cpu[c].intr
    BY <1>6, <1>7, <1>10, Zenon
  <2>3. \A d \in Cpus : cpu'[d].ncli > 0 => (cpu'[d].intena <=> ~cpu[d].intr)
    BY <1>1, <1>7, <2>2, Zenon DEF Nesting
  <2>. QED  BY <1>1, <1>5, <2>1, <2>3, NestingStep, Zenon
<1>16. InterruptsMatched'
  <2>1. k.ncli = cpu[c].ncli + Depth(frames'[Current(c)]) - Depth(Top(c))
    BY <1>5, <1>6, <1>8, <1>9
  <2>2. k.FL_IF <=> k.ncli = 0 /\ ~k.intr
    <3>1. cpu[c].ncli = 1 <=> k.ncli = 0
      BY <1>6, <1>9
    <3>. QED  BY <1>6, <1>10, <3>1, Zenon
  <2>3. Depth(frames'[Current(c)]) \in Nat
    BY <1>5, <1>8, Zenon
  <2>. QED  BY <1>1, <1>3, <1>5, <1>6, <2>1, <2>2, <2>3, DepthStep, Zenon
<1>17. spinpanic' = FALSE
  <2>1. ~(cpu[c].ncli < 1)
    BY <1>9
  <2>. QED  BY <1>3, <1>9, <2>1, Zenon DEF PopPanics
<1>. QED  BY <1>11, <1>12, <1>13, <1>14, <1>15, <1>16, <1>17, Zenon DEF SpinInv

\* An interrupt comes only where no lock is held and no pushcli() is open.
LEMMA InterruptStep ==
  ASSUME SpinInv, NEW c \in Cpus, Interrupt(c)
  PROVE  SpinInv'
<1>1. SpinTypeOK /\ Transit /\ Owner /\ Nesting /\ LockExclusive /\ InterruptsMatched
  BY Zenon DEF SpinInv
<1>2. /\ cpu[c].FL_IF /\ UNCHANGED <<lock, frames, spinpanic>>
      /\ cpu' = [cpu EXCEPT ![c].FL_IF = FALSE, ![c].intr = TRUE]
  BY Zenon DEF Interrupt
<1>3. cpu' \in [Cpus -> CpuState]
  BY <1>1, <1>2, Zenon DEF SpinTypeOK, CpuState
<1>4. /\ ~cpu'[c].FL_IF /\ cpu'[c].intr /\ cpu'[c].ncli = cpu[c].ncli
      /\ \A d \in Cpus : d # c => cpu'[d] = cpu[d]
  BY <1>1, <1>2, Zenon DEF SpinTypeOK, CpuState
<1>5. cpu[c].ncli = 0
  BY <1>1, <1>2, Zenon DEF InterruptsMatched
<1>6. frames[<<c, 0>>].pc = "run" /\ frames[<<c, 0>>].has = {}
  <2>1. <<c, 0>> \in Code /\ <<c, 1>> \in Code
    BY Zenon DEF Code
  <2>2. Depth(frames[<<c, 0>>]) \in Nat /\ Depth(frames[<<c, 1>>]) \in Nat
    BY <1>1, <2>1, DepthType, Zenon
  <2>3. Depth(frames[<<c, 0>>]) = 0
    BY <1>1, <1>5, <2>2 DEF InterruptsMatched
  <2>4. IsFiniteSet(frames[<<c, 0>>].has)
    BY <1>1, <2>1, Zenon DEF Transit
  <2>5. Cardinality(frames[<<c, 0>>].has) \in Nat
    BY <2>4, FS_CardinalityType, Zenon
  <2>6. frames[<<c, 0>>].pc = "run" /\ Cardinality(frames[<<c, 0>>].has) = 0
    BY <2>3, <2>5 DEF Depth
  <2>. QED  BY <2>4, <2>6, FS_EmptySet, Zenon
<1>7. SpinTypeOK' /\ Transit' /\ Owner' /\ LockExclusive'
  BY <1>1, <1>2, <1>3, Zenon DEF SpinTypeOK, Transit, Owner, LockExclusive, Has
<1>8. Nesting'
  <2>. SUFFICES ASSUME NEW d \in Cpus
                PROVE  /\ ~cpu'[d].intr => frames[<<d, 1>>] = NewFrame
                       /\ cpu'[d].intr => frames[<<d, 0>>].pc = "run" /\ frames[<<d, 0>>].has = {}
                       /\ cpu'[d].ncli > 0 => (cpu'[d].intena <=> ~cpu'[d].intr)
    BY <1>2, Zenon DEF Nesting, NewFrame
  <2>1. CASE d = c
    BY <1>4, <1>5, <1>6, <2>1
  <2>2. CASE d # c
    BY <1>1, <1>4, <2>2, Zenon DEF Nesting
  <2>. QED  BY <2>1, <2>2, Zenon
<1>9. InterruptsMatched'
  <2>. SUFFICES ASSUME NEW d \in Cpus
                PROVE  /\ cpu'[d].ncli = Depth(frames[<<d, 0>>]) + Depth(frames[<<d, 1>>])
                       /\ cpu'[d].FL_IF <=> cpu'[d].ncli = 0 /\ ~cpu'[d].intr
    BY <1>2, Zenon DEF InterruptsMatched, Depth
  <2>1. CASE d = c
    BY <1>1, <1>4, <2>1, Zenon DEF InterruptsMatched
  <2>2. CASE d # c
    BY <1>1, <1>4, <2>2, Zenon DEF InterruptsMatched
  <2>. QED  BY <2>1, <2>2, Zenon
<1>. QED  BY <1>2, <1>7, <1>8, <1>9, Zenon DEF SpinInv

\* The return from a handler, which has undone its calls.
LEMMA IretStep ==
  ASSUME SpinInv, NEW c \in Cpus, Iret(c)
  PROVE  SpinInv'
<1>1. SpinTypeOK /\ Transit /\ Owner /\ Nesting /\ LockExclusive /\ InterruptsMatched
  BY Zenon DEF SpinInv
<1>2. /\ cpu[c].intr /\ Top(c) = NewFrame /\ UNCHANGED <<lock, frames, spinpanic>>
      /\ cpu' = [cpu EXCEPT ![c].FL_IF = TRUE, ![c].intr = FALSE]
  BY Zenon DEF Iret
<1>3. cpu' \in [Cpus -> CpuState]
  BY <1>1, <1>2, Zenon DEF SpinTypeOK, CpuState
<1>4. /\ cpu'[c].FL_IF /\ ~cpu'[c].intr /\ cpu'[c].ncli = cpu[c].ncli
      /\ \A d \in Cpus : d # c => cpu'[d] = cpu[d]
  BY <1>1, <1>2, Zenon DEF SpinTypeOK, CpuState
<1>5. frames[<<c, 1>>] = NewFrame
  BY <1>2, Zenon DEF Top, Current
<1>6. frames[<<c, 0>>].pc = "run" /\ frames[<<c, 0>>].has = {}
  BY <1>1, <1>2, Zenon DEF Nesting
<1>7. cpu[c].ncli = 0
  <2>1. Depth(frames[<<c, 0>>]) = 0
    BY <1>6, FS_EmptySet DEF Depth
  <2>2. Depth(frames[<<c, 1>>]) = 0
    BY <1>5, FS_EmptySet DEF Depth, NewFrame
  <2>. QED  BY <1>1, <2>1, <2>2 DEF InterruptsMatched
<1>8. SpinTypeOK' /\ Transit' /\ Owner' /\ LockExclusive'
  BY <1>1, <1>2, <1>3, Zenon DEF SpinTypeOK, Transit, Owner, LockExclusive, Has
<1>9. Nesting'
  <2>. SUFFICES ASSUME NEW d \in Cpus
                PROVE  /\ ~cpu'[d].intr => frames[<<d, 1>>] = NewFrame
                       /\ cpu'[d].intr => frames[<<d, 0>>].pc = "run" /\ frames[<<d, 0>>].has = {}
                       /\ cpu'[d].ncli > 0 => (cpu'[d].intena <=> ~cpu'[d].intr)
    BY <1>2, Zenon DEF Nesting, NewFrame
  <2>1. CASE d = c
    BY <1>4, <1>5, <1>7, <2>1
  <2>2. CASE d # c
    BY <1>1, <1>4, <2>2, Zenon DEF Nesting
  <2>. QED  BY <2>1, <2>2, Zenon
<1>10. InterruptsMatched'
  <2>. SUFFICES ASSUME NEW d \in Cpus
                PROVE  /\ cpu'[d].ncli = Depth(frames[<<d, 0>>]) + Depth(frames[<<d, 1>>])
                       /\ cpu'[d].FL_IF <=> cpu'[d].ncli = 0 /\ ~cpu'[d].intr
    BY <1>2, Zenon DEF InterruptsMatched, Depth
  <2>1. CASE d = c
    BY <1>1, <1>4, <1>7, <2>1, Zenon DEF InterruptsMatched
  <2>2. CASE d # c
    BY <1>1, <1>4, <2>2, Zenon DEF InterruptsMatched
  <2>. QED  BY <2>1, <2>2, Zenon
<1>. QED  BY <1>2, <1>8, <1>9, <1>10, Zenon DEF SpinInv

\* At boot nobody has a lock and interrupts are enabled.
LEMMA SpinInitially == SpinInit => SpinInv
<1>. SUFFICES ASSUME SpinInit PROVE SpinInv
  OBVIOUS
<1>1. \A x \in Code : frames[x] = NewFrame
  BY Zenon DEF SpinInit
<1>2. NewFrame \in FrameState /\ NewFrame.has = {} /\ NewFrame.pc = "run"
  BY Zenon DEF NewFrame, FrameState
<1>3. \A c \in Cpus : <<c, 0>> \in Code /\ <<c, 1>> \in Code
  BY Zenon DEF Code
<1>4. SpinTypeOK
  BY <1>2 DEF SpinInit, SpinTypeOK, CpuState
<1>5. Transit
  BY <1>1, <1>2, FS_EmptySet, Zenon DEF Transit
<1>6. Owner
  BY <1>1, <1>2, Zenon DEF Owner, SpinInit
<1>7. \A c \in Cpus : cpu[c].FL_IF /\ cpu[c].ncli = 0 /\ ~cpu[c].intr
  BY Zenon DEF SpinInit
<1>8. Nesting
  <2>1. \A c \in Cpus : ~(cpu[c].ncli > 0)
    BY <1>7
  <2>. QED  BY <1>1, <1>3, <1>7, <2>1, Zenon DEF Nesting
<1>9. LockExclusive
  BY <1>1, <1>2, Zenon DEF LockExclusive, Has, SpinInit
<1>10. InterruptsMatched
  <2>. SUFFICES ASSUME NEW c \in Cpus
                PROVE  /\ cpu[c].ncli = Depth(frames[<<c, 0>>]) + Depth(frames[<<c, 1>>])
                       /\ cpu[c].FL_IF <=> cpu[c].ncli = 0 /\ ~cpu[c].intr
    BY Zenon DEF InterruptsMatched
  <2>1. frames[<<c, 0>>] = NewFrame /\ frames[<<c, 1>>] = NewFrame
    BY <1>1, <1>3, Zenon
  <2>2. Depth(NewFrame) = 0
    BY <1>2, FS_EmptySet DEF Depth
  <2>3. Depth(frames[<<c, 0>>]) = 0 /\ Depth(frames[<<c, 1>>]) = 0
    BY <2>1, <2>2, Zenon
  <2>. QED  BY <1>7, <2>3
<1>. QED  BY <1>4, <1>5, <1>6, <1>8, <1>9, <1>10, Zenon DEF SpinInv, SpinInit

\* Every step of Spinlock keeps the invariant.
LEMMA SpinStep == SpinInv /\ [SpinNext]_spinVars => SpinInv'
<1>. SUFFICES ASSUME SpinInv, [SpinNext]_spinVars PROVE SpinInv'
  OBVIOUS
<1>1. ASSUME NEW c \in Cpus, NEW l \in Locks, acquire(c, l) \/ release(c, l)
      PROVE  SpinInv'
  BY <1>1, AcquireStep, ReleaseStep, Zenon
<1>2. ASSUME NEW c \in Cpus, Xchg(c) \/ Mark(c) \/ Unlock(c) \/ Pop(c)
      PROVE  SpinInv'
  BY <1>2, XchgStep, MarkStep, UnlockStep, PopStep, Zenon
<1>3. ASSUME NEW c \in Cpus, Myproc(c) \/ Interrupt(c) \/ Iret(c)
      PROVE  SpinInv'
  BY <1>3, MyprocStep, InterruptStep, IretStep, Zenon
<1>4. CASE UNCHANGED spinVars
  BY <1>4, SMTT(30) DEF spinVars, SpinInv, SpinTypeOK, Transit, Owner, Nesting, LockExclusive,
              InterruptsMatched, Has, Depth
<1>. QED  BY <1>1, <1>2, <1>3, <1>4, Zenon DEF SpinNext

\* What the invariant says of holding() and of spinning.
LEMMA SpinConsequences == SpinInv => HoldingExact /\ NoSelfSpin
<1>. SUFFICES ASSUME SpinInv PROVE HoldingExact /\ NoSelfSpin
  OBVIOUS
<1>1. SpinTypeOK /\ Transit /\ Owner /\ Nesting /\ LockExclusive /\ spinpanic = FALSE
  BY Zenon DEF SpinInv
<1>2. ASSUME NEW c \in Cpus, NEW l \in Locks
      PROVE  holding(c, l) <=> \E i \in {0, 1} : l \in frames[<<c, i>>].has
  <2>1. ASSUME holding(c, l) PROVE \E i \in {0, 1} : l \in frames[<<c, i>>].has
    <3>1. lock[l].cpu = c /\ c # NoCpu
      BY <2>1, SpinAssumption, Zenon DEF holding
    <3>2. PICK x \in Code : l \in frames[x].has
      BY <1>1, <3>1, Zenon DEF Owner
    <3>3. x[1] = c
      BY <1>1, <3>1, <3>2, Zenon DEF Owner
    <3>. QED  BY <3>2, <3>3 DEF Code
  <2>2. ASSUME NEW i \in {0, 1}, l \in frames[<<c, i>>].has PROVE holding(c, l)
    <3>1. <<c, i>> \in Code /\ <<c, i>>[1] = c
      BY Zenon DEF Code
    <3>2. lock[l].cpu = c
      BY <1>1, <2>2, <3>1, Zenon DEF Owner
    <3>3. lock[l].locked
      BY <1>1, <2>2, <3>1, Zenon DEF LockExclusive, Has
    <3>. QED  BY <3>2, <3>3, Zenon DEF holding
  <2>. QED  BY <2>1, <2>2, Zenon
<1>3. ASSUME NEW c \in Cpus, Top(c).pc = "spin", NEW i \in {0, 1}
      PROVE  Top(c).lk \notin Has(frames[<<c, i>>])
  <2>1. <<c, i>> \in Code /\ <<c, i>>[1] = c
    BY Zenon DEF Code
  <2>2. CASE <<c, i>> = Current(c)
    BY <1>1, <1>3, <2>1, <2>2, Zenon DEF Transit, Top, Has
  <2>3. CASE <<c, i>> # Current(c)
    <3>1. frames[<<c, i>>].has = {} /\ frames[<<c, i>>].pc = "run"
      BY <1>1, <2>1, <2>3, OnlyTopBusy, Zenon
    <3>. QED  BY <3>1, Zenon DEF Has
  <2>. QED  BY <2>2, <2>3, Zenon
<1>. QED  BY <1>1, <1>2, <1>3, Zenon DEF HoldingExact, NoSelfSpin

\* Mutual exclusion, for any number of CPUs and locks: at most one piece of
\* code is between acquire()'s xchg and release()'s store, and the lock is
\* marked taken exactly then, with interrupt handlers cutting in.
THEOREM Exclusive == SpinSpec => []LockExclusive
<1>1. SpinInv => LockExclusive
  BY Zenon DEF SpinInv
<1>. QED  BY <1>1, SpinInitially, SpinStep, PTL DEF SpinSpec

\* pushcli() and popcli() match, holding() is exact, so that none of acquire(),
\* release() and popcli() panics, and no CPU waits for a lock that its own code
\* holds, for any number of CPUs and locks.
THEOREM InterruptsSafe == SpinSpec => []HandlersKeptOut
<1>1. SpinInv => InterruptsMatched
  BY Zenon DEF SpinInv
<1>2. SpinInv => HandlersKeptOut
  BY <1>1, SpinConsequences, Zenon DEF HandlersKeptOut
<1>. QED  BY <1>2, SpinInitially, SpinStep, PTL DEF SpinSpec
=============================================================================
