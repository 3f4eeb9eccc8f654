-------------------------------- MODULE Proc --------------------------------
(***************************************************************************)
(* Life and death of processes and threads (proc.c): fork, exit, wait,     *)
(* kill, thread_create/exit/join, exec's handling of the other threads,    *)
(* sleep and wakeup.  A thread is a slot of the process table with a       *)
(* master; the threads of a process hang off it on next_thread.            *)
(*                                                                         *)
(* A section under ptable.lock is one action.  Which runnable process a    *)
(* CPU picks is left open (module Sched has the policy).  pc[p] says where *)
(* p's kernel thread stands between two such sections; "user" is user mode *)
(* or the start of a system call.  Work on files, on memory and in the log *)
(* happens between sections and is not part of this module.                *)
(***************************************************************************)
EXTENDS Integers, FiniteSets

CONSTANTS NPROC, NCPU,
          MaxPid, MaxTid,  \* bounds: pids and thread ids handed out
          MainCalls,       \* optional system calls of a main thread: "exec", "sleep"
          WorkerCalls      \* those of other threads: these, and "fork", "create", "join"

ASSUME ProcAssumption ==
  /\ NPROC \in Nat \ {0} /\ NCPU \in Nat \ {0} /\ MaxPid \in Nat /\ MaxTid \in Nat
  /\ MainCalls \subseteq {"exec", "sleep"}
  /\ WorkerCalls \subseteq {"fork", "create", "join", "exec", "sleep"}

Slots == 1..NPROC
initproc == 1
Ticks == NPROC + 1   \* the channel &ticks; a process's own slot is its wait channel

VARIABLES ptable,    \* struct proc of each slot; 0 is the null pointer
          nextpid, nexttid,
          cpu,       \* slots whose kernel thread a CPU is executing
          pc, arg    \* where each kernel thread is, and its argument

vars == <<ptable, nextpid, nexttid, cpu, pc, arg>>

Unused == [state |-> "UNUSED", pid |-> 0, tid |-> 0, parent |-> 0, master |-> 0,
           next_thread |-> 0, prev_thread |-> 0, killed |-> FALSE, chan |-> 0]

Goto(p, label) == pc' = [pc EXCEPT ![p] = label]
Runs(p, label) == p \in cpu /\ pc[p] = label

\* The scheduler can switch to p.
Ready(p) == ptable[p].state = "RUNNABLE" /\ p \notin cpu /\ Cardinality(cpu) < NCPU

\* p asleep in a loop under ptable.lock comes back into it with the lock
\* held: being scheduled and the next turn of the loop are one step.
Resumed == {"exiting", "waiting", "joining"}
Turn(p, first, again) == Runs(p, first) \/ (Ready(p) /\ pc[p] = again)
Back(p) == IF pc[p] \in Resumed
           THEN [ptable EXCEPT ![p].state = "RUNNING", ![p].chan = 0] ELSE ptable
----------------------------------------------------------------------------
\* Pure parts: what the helpers of proc.c make of a process table pt.

get_highest_master(pt, p) ==
  LET up[q \in Slots] == IF pt[q].master = 0 THEN q ELSE up[pt[q].master] IN up[p]

\* The threads that the loops over p's list come to: what is reached from p
\* by next_thread, the least set that is closed under it.
Follows(pt, p, S) == \A q \in S \union {p} : pt[q].next_thread \in S \union {0}
NextSet(pt, p) == {w \in Slots : \A S \in SUBSET Slots : Follows(pt, p, S) => w \in S}

\* The current process gives up its CPU in the given state (sched()).
Sleeping(pt, p, ch) == [pt EXCEPT ![p].state = "SLEEPING", ![p].chan = ch]

Rouse(r) == IF r.state = "SLEEPING" THEN [r EXCEPT !.state = "RUNNABLE"] ELSE r

wakeup1_AnyState(pt, ch) ==
  [q \in Slots |-> IF pt[q].chan = ch THEN [pt[q] EXCEPT !.state = "RUNNABLE"] ELSE pt[q]]

wakeup1(pt, ch) ==
  [q \in Slots |-> IF pt[q].chan = ch THEN Rouse(pt[q]) ELSE pt[q]]

Unlink(pt, w) ==
  [q \in Slots |->
     [pt[q] EXCEPT
        !.next_thread = IF q = pt[w].prev_thread THEN pt[w].next_thread ELSE @,
        !.prev_thread = IF q = pt[w].next_thread THEN pt[w].prev_thread ELSE @]]

dealloc_thread(pt, w) ==
  IF pt[w].master = 0 THEN pt
  ELSE [Unlink(pt, w) EXCEPT ![w] = [@ EXCEPT !.state = "UNUSED", !.pid = 0, !.tid = 0,
                                       !.parent = 0, !.master = 0, !.killed = FALSE]]

\* The threads ws of a list, one after the other.  The order shows only in the
\* links of freed slots, which are set again before anybody follows them.
DeallocAll(pt, ws) ==
  LET upto[i \in 0..NPROC] ==
        IF i = 0 THEN pt ELSE IF i \in ws THEN dealloc_thread(upto[i - 1], i) ELSE upto[i - 1]
  IN  upto[NPROC]

Terminate(r) == Rouse([r EXCEPT !.killed = TRUE])
----------------------------------------------------------------------------
\* scheduler(), sched() and yield(): any runnable process may get a free CPU.
Run(p) ==
  /\ Ready(p) /\ pc[p] \notin Resumed
  /\ ptable' = [ptable EXCEPT ![p].state = "RUNNING",
                              ![p].chan = IF pc[p] = "ticking" THEN 0 ELSE @]
  /\ cpu' = cpu \union {p}
  /\ Goto(p, IF pc[p] = "ticking" THEN "tick" ELSE pc[p])
  /\ UNCHANGED <<nextpid, nexttid, arg>>

\* No timer interrupt is taken while tickslock is held ("tick2").
Yield(p) ==
  /\ p \in cpu /\ ptable[p].state = "RUNNING" /\ pc[p] # "tick2"
  /\ ptable' = [ptable EXCEPT ![p].state = "RUNNABLE"]
  /\ cpu' = cpu \ {p}
  /\ UNCHANGED <<nextpid, nexttid, pc, arg>>

IsMain(p) == ptable[p].master = 0

\* trap(): a killed process gets no further than exit().  init only forks and
\* waits (init.c).
MayCall(p, call) ==
  /\ Runs(p, "user") /\ ~ptable[p].killed
  /\ call \in IF p = initproc THEN {"fork", "wait"}
              ELSE {"wait", "kill", "fault"} \union
                   IF IsMain(p) THEN MainCalls \union {"fork", "create", "join"}
                   ELSE WorkerCalls \union {"thread_exit"}

\* The first half of fork() and thread_create(): allocproc() finds a slot.
Allocproc(p, call) ==
  /\ MayCall(p, call) /\ nextpid <= MaxPid /\ (call = "create" => nexttid <= MaxTid)
  /\ \E np \in Slots :
       /\ ptable[np].state = "UNUSED" /\ \A q \in 1..(np - 1) : ptable[q].state # "UNUSED"
       /\ ptable' = [ptable EXCEPT ![np].state = "EMBRYO", ![np].pid = nextpid]
       /\ arg' = [arg EXCEPT ![p] = np]
  /\ nextpid' = nextpid + 1
  /\ Goto(p, call)
  /\ UNCHANGED <<nexttid, cpu>>

AllocFails_KeepSlot(p) ==
  /\ Runs(p, "fork") \/ Runs(p, "create")
  /\ Goto(p, "user")
  /\ arg' = [arg EXCEPT ![p] = 0]
  /\ UNCHANGED <<ptable, nextpid, nexttid, cpu>>

\* No memory for the kernel stack: the slot is given back.
AllocFails(p) ==
  /\ Runs(p, "fork") \/ Runs(p, "create")
  /\ ptable' = [ptable EXCEPT ![arg[p]].state = "UNUSED"]
  /\ Goto(p, "user")
  /\ arg' = [arg EXCEPT ![p] = 0]
  /\ UNCHANGED <<nextpid, nexttid, cpu>>

Fork(p) ==
  /\ Runs(p, "fork")
  /\ ptable' = [ptable EXCEPT
                  ![arg[p]] = [@ EXCEPT !.state = "RUNNABLE", !.parent = p, !.tid = 0,
                                        !.next_thread = 0, !.prev_thread = 0]]
  /\ pc' = [pc EXCEPT ![p] = "user", ![arg[p]] = "user"]
  /\ arg' = [arg EXCEPT ![p] = 0]
  /\ UNCHANGED <<nextpid, nexttid, cpu>>

\* "--nextpid": a thread shares its creator's pid; no lock is held.
ReturnPid(p) ==
  /\ Runs(p, "create")
  /\ nextpid' = nextpid - 1
  /\ Goto(p, "create2")
  /\ UNCHANGED <<ptable, nexttid, cpu, arg>>

LinkThread_OneWay(pt, p, np) ==
  [q \in Slots |->
     IF q = np THEN [pt[np] EXCEPT !.state = "RUNNABLE", !.master = p, !.pid = pt[p].pid,
                       !.tid = nexttid, !.prev_thread = p, !.next_thread = pt[p].next_thread]
     ELSE IF q = p THEN [pt[p] EXCEPT !.next_thread = np]
     ELSE pt[q]]

LinkThread(pt, p, np) ==
  [q \in Slots |->
     IF q = np THEN [pt[np] EXCEPT !.state = "RUNNABLE", !.master = p, !.pid = pt[p].pid,
                       !.tid = nexttid, !.prev_thread = p, !.next_thread = pt[p].next_thread]
     ELSE IF q = p THEN [pt[p] EXCEPT !.next_thread = np]
     ELSE IF q = pt[p].next_thread THEN [pt[q] EXCEPT !.prev_thread = np]
     ELSE pt[q]]

ThreadCreate(p) ==
  /\ Runs(p, "create2")
  /\ ptable' = LinkThread(ptable, p, arg[p])
  /\ nexttid' = nexttid + 1
  /\ pc' = [pc EXCEPT ![p] = "user", ![arg[p]] = "user"]
  /\ arg' = [arg EXCEPT ![p] = 0]
  /\ UNCHANGED <<nextpid, cpu>>
----------------------------------------------------------------------------
\* exit(), by choice or because trap() found the process killed.
ExitCall(p) ==
  /\ Runs(p, "user") /\ p # initproc
  /\ Goto(p, "exit")
  /\ UNCHANGED <<ptable, nextpid, nexttid, cpu, arg>>

\* A page fault or the like in user mode: killed is set for this thread only.
Fault(p) ==
  /\ MayCall(p, "fault")
  /\ ptable' = [ptable EXCEPT ![p].killed = TRUE]
  /\ UNCHANGED <<nextpid, nexttid, cpu, pc, arg>>

ExitThreads_CountZombies(p) ==
  /\ Turn(p, "exit", "exiting")
  /\ LET pt    == Back(p)
         found == NextSet(pt, p)
         dead  == {w \in found : pt[w].state = "ZOMBIE"}
         freed == DeallocAll(pt, dead)
         told  == [q \in Slots |-> IF pt[q].state # "ZOMBIE" /\ q \in found
                                   THEN Terminate(freed[q]) ELSE freed[q]]
     IN  \/ /\ ~IsMain(p) \/ found = {}
            /\ ptable' = pt /\ cpu' = cpu \union {p} /\ Goto(p, "exit2")
         \/ /\ IsMain(p) /\ found # {}
            /\ ptable' = Sleeping(told, p, p) /\ cpu' = cpu \ {p} /\ Goto(p, "exiting")
  /\ UNCHANGED <<nextpid, nexttid, arg>>

\* exit(): a main thread kills its threads and waits until all are gone.
ExitThreads(p) ==
  /\ Turn(p, "exit", "exiting")
  /\ LET pt    == Back(p)
         dead  == {w \in NextSet(pt, p) : pt[w].state = "ZOMBIE"}
         found == NextSet(pt, p) \ dead
         freed == DeallocAll(pt, dead)
         told  == [q \in Slots |-> IF q \in found THEN Terminate(freed[q]) ELSE freed[q]]
     IN  \/ /\ ~IsMain(p)
            /\ ptable' = pt /\ cpu' = cpu \union {p} /\ Goto(p, "exit2")
         \/ /\ IsMain(p) /\ found = {}
            /\ ptable' = freed /\ cpu' = cpu \union {p} /\ Goto(p, "exit2")
         \/ /\ IsMain(p) /\ found # {}
            /\ ptable' = Sleeping(told, p, p) /\ cpu' = cpu \ {p} /\ Goto(p, "exiting")
  /\ UNCHANGED <<nextpid, nexttid, arg>>

Reparent_Not(pt, p) == pt

\* Pass abandoned children to init.
Reparent(pt, p) ==
  LET kids == {q \in Slots : pt[q].parent = p}
      moved == [q \in Slots |-> IF q \in kids THEN [pt[q] EXCEPT !.parent = initproc] ELSE pt[q]]
  IN  IF \E q \in kids : pt[q].state = "ZOMBIE" THEN wakeup1(moved, initproc) ELSE moved

\* A worker's exit() ends the whole process, unless it was itself told to.
TellMaster(pt, p) ==
  LET hm == get_highest_master(pt, p)
  IN  IF pt[p].master = 0 THEN pt
      ELSE wakeup1(IF pt[p].killed THEN pt ELSE [pt EXCEPT ![hm].killed = TRUE], hm)

WakeParent_Not(pt, p) == pt

WakeParent(pt, p) == IF pt[p].parent # 0 THEN wakeup1(pt, pt[p].parent) ELSE pt

ExitFinish(p) ==
  /\ Runs(p, "exit2")
  /\ ptable' = [Reparent(TellMaster(WakeParent(ptable, p), p), p) EXCEPT ![p].state = "ZOMBIE"]
  /\ cpu' = cpu \ {p}
  /\ Goto(p, "dead")
  /\ UNCHANGED <<nextpid, nexttid, arg>>

WaitCall(p) ==
  /\ MayCall(p, "wait")
  /\ Goto(p, "wait")
  /\ UNCHANGED <<ptable, nextpid, nexttid, cpu, arg>>

Reap(pt, q) ==
  [pt EXCEPT ![q].pid = 0, ![q].parent = 0, ![q].killed = FALSE, ![q].state = "UNUSED"]

\* One turn of the loop in wait().
Wait(p) ==
  /\ Turn(p, "wait", "waiting")
  /\ LET pt   == Back(p)
         kids == {q \in Slots : pt[q].parent = p}
         dead == {q \in kids : pt[q].state = "ZOMBIE"}
     IN  \/ /\ dead # {}
            /\ ptable' = Reap(pt, CHOOSE q \in dead : \A r \in dead : q <= r)
            /\ cpu' = cpu \union {p} /\ Goto(p, "user")
         \/ /\ dead = {} /\ (kids = {} \/ pt[p].killed)
            /\ ptable' = pt /\ cpu' = cpu \union {p} /\ Goto(p, "user")
         \/ /\ dead = {} /\ kids # {} /\ ~pt[p].killed
            /\ ptable' = Sleeping(pt, p, p) /\ cpu' = cpu \ {p} /\ Goto(p, "waiting")
  /\ UNCHANGED <<nextpid, nexttid, arg>>

\* kill(): the first slot with that pid; its whole process is told through
\* the main thread.  Nobody kills init.
Kill(p) ==
  /\ MayCall(p, "kill")
  /\ \E q \in Slots :
       LET hm == get_highest_master(ptable, q) IN
         /\ ptable[q].pid # 0 /\ \A r \in 1..(q - 1) : ptable[r].pid # ptable[q].pid
         /\ hm # initproc
         /\ ptable' = [ptable EXCEPT ![hm] = Terminate(@)]
  /\ UNCHANGED <<nextpid, nexttid, cpu, pc, arg>>
----------------------------------------------------------------------------
ThreadExitCall(p) ==
  /\ MayCall(p, "thread_exit")
  /\ Goto(p, "texit")
  /\ UNCHANGED <<ptable, nextpid, nexttid, cpu, arg>>

\* The second wakeup1() has a null parent: it rouses sleepers without channel.
ThreadExit(p) ==
  /\ Runs(p, "texit")
  /\ ptable' = [wakeup1(wakeup1(ptable, ptable[p].master), ptable[p].parent)
                  EXCEPT ![p].state = "ZOMBIE"]
  /\ cpu' = cpu \ {p}
  /\ Goto(p, "dead")
  /\ UNCHANGED <<nextpid, nexttid, arg>>

\* thread_join(tid): the thread need not exist.
JoinCall(p) ==
  /\ MayCall(p, "join")
  /\ \E t \in 1..(nexttid - 1) : arg' = [arg EXCEPT ![p] = t]
  /\ Goto(p, "join")
  /\ UNCHANGED <<ptable, nextpid, nexttid, cpu>>

\* One turn of its loop; "found" keeps its value from one turn to the next,
\* which is what the label "joining" stands for.
ThreadJoin(p) ==
  /\ Turn(p, "join", "joining")
  /\ LET pt    == Back(p)
         match == {w \in NextSet(pt, p) : pt[w].tid = arg[p]}
         dead  == {w \in match : pt[w].state = "ZOMBIE"}
         found == match # {} \/ pc[p] = "joining"
     IN  \/ /\ dead # {}
            /\ ptable' = dealloc_thread(pt, CHOOSE w \in dead : TRUE)
            /\ cpu' = cpu \union {p} /\ Goto(p, "user")
         \/ /\ dead = {} /\ (~found \/ pt[p].killed)
            /\ ptable' = pt /\ cpu' = cpu \union {p} /\ Goto(p, "user")
         \/ /\ dead = {} /\ found /\ ~pt[p].killed
            /\ ptable' = Sleeping(pt, p, p) /\ cpu' = cpu \ {p} /\ Goto(p, "joining")
  /\ arg' = IF pc'[p] = "user" THEN [arg EXCEPT ![p] = 0] ELSE arg
  /\ UNCHANGED <<nextpid, nexttid>>
----------------------------------------------------------------------------
\* exec(): the other threads are first put to sleep ...
ExecCall(p) ==
  /\ MayCall(p, "exec")
  /\ LET hm    == get_highest_master(ptable, p)
         group == (NextSet(ptable, hm) \union {hm}) \ {p}
     IN  ptable' = [q \in Slots |-> IF q \in group /\ ptable[q].state = "RUNNABLE"
                                    THEN [ptable[q] EXCEPT !.state = "SLEEPING"] ELSE ptable[q]]
  /\ Goto(p, "exec")
  /\ UNCHANGED <<nextpid, nexttid, cpu, arg>>

\* ... and stay asleep when the program cannot be loaded.
ExecFails(p) ==
  /\ Runs(p, "exec")
  /\ Goto(p, "user")
  /\ UNCHANGED <<ptable, nextpid, nexttid, cpu, arg>>

Exec_StayLinked(p) ==
  /\ Runs(p, "exec")
  /\ \/ /\ IsMain(p)
        /\ ptable' = DeallocAll(ptable, NextSet(ptable, p))
        /\ Goto(p, "user")
     \/ /\ ~IsMain(p)
        /\ LET hm == get_highest_master(ptable, p)
           IN  ptable' = [ptable EXCEPT
                            ![p] = [@ EXCEPT !.parent = ptable[hm].parent, !.master = 0],
                            ![hm] = Terminate([@ EXCEPT !.parent = p])]
        /\ Goto(p, "wait")
  /\ UNCHANGED <<nextpid, nexttid, cpu, arg>>

\* dealloc_other_threads(): a main thread frees the others whatever they do;
\* another thread takes the place of the main thread, kills it and waits.
Exec(p) ==
  /\ Runs(p, "exec")
  /\ \/ /\ IsMain(p)
        /\ ptable' = DeallocAll(ptable, NextSet(ptable, p))
        /\ Goto(p, "user")
     \/ /\ ~IsMain(p)
        /\ LET hm  == get_highest_master(ptable, p)
               off == Unlink(ptable, p)
           IN  ptable' = [off EXCEPT
                            ![p] = [@ EXCEPT !.parent = off[hm].parent, !.master = 0,
                                             !.next_thread = 0, !.prev_thread = 0],
                            ![hm] = Terminate([@ EXCEPT !.parent = p])]
        /\ Goto(p, "wait")
  /\ UNCHANGED <<nextpid, nexttid, cpu, arg>>
----------------------------------------------------------------------------
\* sys_sleep(): killed is looked at before each sleep on &ticks.
SleepCall(p) ==
  /\ MayCall(p, "sleep")
  /\ Goto(p, "tick")
  /\ UNCHANGED <<ptable, nextpid, nexttid, cpu, arg>>

SysSleep_NotKilled(p) ==
  /\ Runs(p, "tick")
  /\ Goto(p, "user") \/ Goto(p, "tick2")
  /\ UNCHANGED <<ptable, nextpid, nexttid, cpu, arg>>

SysSleep(p) ==
  /\ Runs(p, "tick")
  /\ Goto(p, "user") \/ (~ptable[p].killed /\ Goto(p, "tick2"))
  /\ UNCHANGED <<ptable, nextpid, nexttid, cpu, arg>>

TickSleep(p) ==
  /\ Runs(p, "tick2")
  /\ ptable' = Sleeping(ptable, p, Ticks)
  /\ cpu' = cpu \ {p}
  /\ Goto(p, "ticking")
  /\ UNCHANGED <<nextpid, nexttid, arg>>

\* The timer interrupt: wakeup(&ticks) under tickslock.
Tick ==
  /\ \A p \in cpu : pc[p] # "tick2"
  /\ ptable' = wakeup1(ptable, Ticks)
  /\ UNCHANGED <<nextpid, nexttid, cpu, pc, arg>>
----------------------------------------------------------------------------
\* userinit(): the first process, ready to run.
Init ==
  /\ ptable = [q \in Slots |-> IF q = initproc
                               THEN [Unused EXCEPT !.state = "RUNNABLE", !.pid = 1] ELSE Unused]
  /\ nextpid = 2 /\ nexttid = 1 /\ cpu = {}
  /\ pc = [q \in Slots |-> "user"] /\ arg = [q \in Slots |-> 0]

\* What a process does of its own accord, and what it must go on doing.
Call(p) == Allocproc(p, "fork") \/ Allocproc(p, "create") \/ WaitCall(p) \/ Kill(p)
             \/ ThreadExitCall(p) \/ JoinCall(p) \/ ExecCall(p) \/ SleepCall(p) \/ Fault(p)
Step(p) == AllocFails(p) \/ Fork(p) \/ ReturnPid(p) \/ ThreadCreate(p) \/ ExitThreads(p)
             \/ ExitFinish(p) \/ Wait(p) \/ ThreadExit(p) \/ ThreadJoin(p) \/ ExecFails(p)
             \/ Exec(p) \/ SysSleep(p) \/ TickSleep(p)

Next == \/ \E p \in Slots : Run(p) \/ Yield(p) \/ Call(p) \/ ExitCall(p) \/ Step(p)
        \/ Tick

Spec == Init /\ [][Next]_vars

\* The timer takes the CPU away; every runnable process is scheduled in the
\* end and gets somewhere in its time slice; the timer goes on ticking; a
\* killed process scheduled again and again meets the check in trap(); init
\* keeps waiting.
Fairness ==
  /\ \A p \in Slots : /\ WF_vars(Yield(p)) /\ SF_vars(Run(p))
                      /\ SF_vars(Step(p) \/ (ptable[p].killed /\ ExitCall(p)))
  /\ SF_vars(WaitCall(initproc))
  /\ SF_vars(Tick)

FairSpec == Spec /\ Fairness
----------------------------------------------------------------------------
Live(p) == ptable[p].state \in {"RUNNABLE", "RUNNING", "SLEEPING"}

TypeOK ==
  /\ ptable \in [Slots -> [state : {"UNUSED", "EMBRYO", "SLEEPING", "RUNNABLE", "RUNNING", "ZOMBIE"},
                           pid : Nat, tid : Nat,
                           parent : 0..NPROC, master : 0..NPROC,
                           next_thread : 0..NPROC, prev_thread : 0..NPROC,
                           killed : BOOLEAN, chan : 0..Ticks]]
  /\ nextpid \in Nat \ {0} /\ nexttid \in Nat \ {0}
  /\ cpu \subseteq Slots /\ Cardinality(cpu) <= NCPU
  /\ pc \in [Slots -> {"user", "fork", "create", "create2", "exit", "exiting", "exit2", "dead",
                       "wait", "waiting", "texit", "join", "joining", "exec",
                       "tick", "tick2", "ticking"}]
  /\ arg \in [Slots -> Nat]

\* The slots whose kernel threads the CPUs execute are exactly the RUNNING
\* ones: no kernel stack is freed or handed out again under a running thread.
OnCpu == \A p \in Slots : p \in cpu <=> ptable[p].state = "RUNNING"

\* The threads found by walking next_thread from a main thread are those
\* whose master chain leads to it, and while there are any it is alive: exit()
\* and exec() reach every thread, and only those, and leave none behind.
ThreadList ==
  \A m \in Slots : IsMain(m) =>
    LET mine == {w \in Slots : ~IsMain(w) /\ get_highest_master(ptable, w) = m}
    IN  mine # {} => NextSet(ptable, m) = mine /\ Live(m)

\* A process's parent is a live process, so somebody can still wait for it:
\* "Pass abandoned children to init."
ParentAlive == \A q \in Slots : ptable[q].parent # 0 => Live(ptable[q].parent)

Asleep(p, where) == ptable[p].state = "SLEEPING" /\ pc[p] = where

\* Nobody is left asleep in wait() after a child has exited or after having
\* been killed, nor without any child.
WaitWoken ==
  \A p \in Slots : Asleep(p, "waiting") =>
    /\ ~ptable[p].killed
    /\ \E q \in Slots : ptable[q].parent = p
    /\ \A q \in Slots : ptable[q].parent = p => ptable[q].state # "ZOMBIE"

\* Nobody is left asleep in thread_join() after the thread has exited or after
\* having been killed: "Wait for the thread to call thread_exit."
JoinWoken ==
  \A p \in Slots : Asleep(p, "joining") =>
    /\ ~ptable[p].killed
    /\ \E w \in NextSet(ptable, p) : ptable[w].tid = arg[p] /\ Live(w)

\* A main thread asleep in exit() still has a thread to wait for.
ExitWoken ==
  \A p \in Slots : Asleep(p, "exiting") => \E w \in NextSet(ptable, p) : Live(w)

\* No two processes have the same pid, and a pid is never handed out twice at
\* a time: threads give back the pid allocproc() took for them.
UniquePid ==
  \A p, q \in Slots : IsMain(p) /\ IsMain(q) /\ Live(p) /\ Live(q) /\ p # q
                        => ptable[p].pid # ptable[q].pid

\* A slot that is taken has one user: a RUNNING one a CPU, an EMBRYO the
\* fork() or thread_create() that is filling it, which has given it back if
\* it failed.  (With the type invariant: every link stays inside the table.)
SlotsOwned ==
  /\ TypeOK
  /\ OnCpu
  /\ \A q \in Slots : ptable[q].state = "EMBRYO" =>
       \E p \in Slots : Live(p) /\ pc[p] \in {"fork", "create", "create2"} /\ arg[p] = q

\* No wakeup is lost: who sleeps in wait(), thread_join() or exit() has not
\* been killed and still has somebody to wait for, whatever has ended between
\* its scan of the table and its sleep.
NoLostWakeup == WaitWoken /\ JoinWoken /\ ExitWoken

\* A killed process ends: all its threads are told, woken and freed.
KilledEnds == \A p \in Slots \ {initproc} : (Live(p) /\ ptable[p].killed) ~> ~Live(p)

\* init reaps every process that was passed to it.
OrphanReaped ==
  \A q \in Slots \ {initproc} : (ptable[q].state = "ZOMBIE" /\ ptable[q].parent = initproc)
    ~> ptable[q].state = "UNUSED"
============================================================================
