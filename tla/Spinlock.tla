------------------------------ MODULE Spinlock ------------------------------
(***************************************************************************)
(* Spinlocks and the nesting of interrupt disabling.  Each CPU runs kernel *)
(* code (its frame 0) that an interrupt handler (its frame 1) may cut in   *)
(* on wherever interrupts are enabled; both take and drop locks.           *)
(* The stores of acquire() and release() that other CPUs can see are       *)
(* separate steps.                                                         *)
(***************************************************************************)
EXTENDS Integers, FiniteSets

CONSTANTS Cpus, Locks,   \* locks are numbers: nested ones are taken in order
          NoCpu

ASSUME SpinAssumption == Locks \subseteq Nat /\ NoCpu \notin Cpus

VARIABLES lock,      \* locked and cpu
          cpu,       \* FL_IF, ncli, intena, and whether a handler is running
          frames,    \* what each piece of code is doing, and the locks it has
          spinpanic

spinVars == <<lock, cpu, frames, spinpanic>>

NewFrame == [pc |-> "run", lk |-> 0, has |-> {}]
Code == Cpus \X {0, 1}
Current(c) == <<c, IF cpu[c].intr THEN 1 ELSE 0>>
Top(c) == frames[Current(c)]

Frame(c, pc, l, has) ==
  frames' = [frames EXCEPT ![Current(c)] = [pc |-> pc, lk |-> l, has |-> has]]

Saved(k) == IF k.ncli = 0 THEN k.FL_IF ELSE k.intena

pushcli(k) == [k EXCEPT !.FL_IF = FALSE, !.ncli = @ + 1, !.intena = Saved(k)]

Enables_Early(k) == k.intena
Enables(k) == k.ncli = 1 /\ k.intena

popcli(k) == [k EXCEPT !.ncli = @ - 1, !.FL_IF = Enables(k)]
PopPanics(k) == k.FL_IF \/ k.ncli < 1

holding(c, l) == lock[l].locked /\ lock[l].cpu = c

\* acquire() up to its loop.
acquire(c, l) ==
  /\ Top(c).pc = "run" /\ \A m \in Top(c).has : m < l
  /\ cpu' = [cpu EXCEPT ![c] = pushcli(@)]
  /\ spinpanic' = holding(c, l)
  /\ Frame(c, "spin", l, Top(c).has)
  /\ UNCHANGED lock

Unlocked_Always(l) == TRUE
Unlocked(l) == ~lock[l].locked

\* The xchg that ends the loop.
Xchg(c) ==
  /\ Top(c).pc = "spin" /\ Unlocked(Top(c).lk)
  /\ lock' = [lock EXCEPT ![Top(c).lk].locked = TRUE]
  /\ Frame(c, "mark", Top(c).lk, Top(c).has)
  /\ UNCHANGED <<cpu, spinpanic>>

Mark(c) ==
  /\ Top(c).pc = "mark"
  /\ lock' = [lock EXCEPT ![Top(c).lk].cpu = c]
  /\ Frame(c, "run", 0, Top(c).has \cup {Top(c).lk})
  /\ UNCHANGED <<cpu, spinpanic>>

\* release() clears the owner, then the lock, then the nesting.
release(c, l) ==
  /\ Top(c).pc = "run" /\ l \in Top(c).has
  /\ spinpanic' = ~holding(c, l)
  /\ lock' = [lock EXCEPT ![l].cpu = NoCpu]
  /\ Frame(c, "unlock", l, Top(c).has \ {l})
  /\ UNCHANGED cpu

Unlock(c) ==
  /\ Top(c).pc = "unlock"
  /\ lock' = [lock EXCEPT ![Top(c).lk].locked = FALSE]
  /\ Frame(c, "pop", 0, Top(c).has)
  /\ UNCHANGED <<cpu, spinpanic>>

Pop(c) ==
  /\ Top(c).pc \in {"pop", "cli"}
  /\ spinpanic' = PopPanics(cpu[c])
  /\ cpu' = [cpu EXCEPT ![c] = popcli(@)]
  /\ Frame(c, "run", 0, Top(c).has)
  /\ UNCHANGED lock

\* myproc(): pushcli() and popcli() around a look at the CPU's state.
Myproc(c) ==
  /\ Top(c).pc = "run"
  /\ cpu' = [cpu EXCEPT ![c] = pushcli(@)]
  /\ Frame(c, "cli", 0, Top(c).has)
  /\ UNCHANGED <<lock, spinpanic>>

\* An interrupt gate disables interrupts; iret restores the flags.
Interrupt(c) ==
  /\ cpu[c].FL_IF
  /\ cpu' = [cpu EXCEPT ![c].FL_IF = FALSE, ![c].intr = TRUE]
  /\ UNCHANGED <<lock, frames, spinpanic>>

Iret(c) ==
  /\ cpu[c].intr /\ Top(c) = NewFrame
  /\ cpu' = [cpu EXCEPT ![c].FL_IF = TRUE, ![c].intr = FALSE]
  /\ UNCHANGED <<lock, frames, spinpanic>>
----------------------------------------------------------------------------
SpinInit ==
  /\ lock = [l \in Locks |-> [locked |-> FALSE, cpu |-> NoCpu]]
  /\ cpu = [c \in Cpus |-> [FL_IF |-> TRUE, ncli |-> 0, intena |-> FALSE, intr |-> FALSE]]
  /\ frames = [x \in Code |-> NewFrame] /\ spinpanic = FALSE

SpinNext ==
  /\ ~spinpanic
  /\ \E c \in Cpus :
       \/ \E l \in Locks : acquire(c, l) \/ release(c, l)
       \/ Xchg(c) \/ Mark(c) \/ Unlock(c) \/ Pop(c) \/ Myproc(c) \/ Interrupt(c) \/ Iret(c)

SpinSpec == SpinInit /\ [][SpinNext]_spinVars
----------------------------------------------------------------------------
\* The locks whose acquire() is past its xchg and whose release() has not
\* cleared them yet.
Has(f) == f.has \cup IF f.pc \in {"mark", "unlock"} THEN {f.lk} ELSE {}
\* The pushcli() calls that a frame has not undone.
Depth(f) == Cardinality(f.has) + IF f.pc = "run" THEN 0 ELSE 1

\* At most one piece of code of all CPUs is between the xchg that takes a lock
\* and the store that frees it, and the lock is marked taken exactly then.
LockExclusive ==
  \A l \in Locks :
    /\ \A x, y \in Code : l \in Has(frames[x]) /\ l \in Has(frames[y]) => x = y
    /\ lock[l].locked <=> \E x \in Code : l \in Has(frames[x])

\* "It takes two popcli to undo two pushcli": ncli counts the calls that are
\* open, kernel code that has none open runs with interrupts enabled, and
\* nothing runs with them enabled while one is open or a handler is active.
InterruptsMatched ==
  \A c \in Cpus :
    /\ cpu[c].ncli = Depth(frames[<<c, 0>>]) + Depth(frames[<<c, 1>>])
    /\ cpu[c].FL_IF <=> cpu[c].ncli = 0 /\ ~cpu[c].intr

\* holding() answers for the CPU that asks, also while other CPUs are inside
\* acquire() or release() of the lock, so that neither of them nor popcli()
\* panics.
HoldingExact ==
  /\ ~spinpanic
  /\ \A c \in Cpus, l \in Locks : holding(c, l) <=> \E i \in {0, 1} : l \in frames[<<c, i>>].has

\* A CPU never spins on a lock that its own code holds: the interrupt handler
\* cannot cut in on a holder.
NoSelfSpin ==
  \A c \in Cpus : Top(c).pc = "spin" => \A i \in {0, 1} : Top(c).lk \notin Has(frames[<<c, i>>])

\* Interrupt handlers and lock holders stay out of each other's way: pushcli()
\* and popcli() match, holding() is exact, and no CPU waits for itself.
HandlersKeptOut == InterruptsMatched /\ HoldingExact /\ NoSelfSpin
=============================================================================
