------------------------------- MODULE Sched -------------------------------
(***************************************************************************)
(* The scheduling policy of proc.c.  Stride scheduling shares the CPU      *)
(* between the default processes (as one client), the MLFQ processes (as   *)
(* one client) and each process with a fixed share (cpu_share).  Default   *)
(* processes are served by pathlevel, the MLFQ by three levels of queues   *)
(* held in one list with a header node before each level; threads of a     *)
(* default or fixed-share process take turns.                              *)
(*                                                                         *)
(* Which threads a process has is fixed here (module Proc has their lives).*)
(* Paths are exact multiples of 1/Unit where the code uses doubles.        *)
(***************************************************************************)
EXTENDS Integers, Sequences, FiniteSets, SequencesExt, FiniteSetsExt

CONSTANTS Threads,   \* main thread -> its other threads, in next_thread order
          NCPU, NNODE,
          Unit,      \* path units in 1.0
          Allot, Slice,   \* mlfqvmp.allottime and slice, levels 1..3 here
          Shares,    \* arguments of cpu_share()
          MaxTicks,  \* bound: turns of the scheduler
          Calls      \* what processes do: a subset of AllCalls

AllCalls == {"fork", "exit", "leave", "reap", "sleep", "share", "mlfq"}

Mains == DOMAIN Threads
Procs == Mains \union UNION {ToSet(Threads[m]) : m \in Mains}
CPUs == 1..NCPU
Nodes == 1..NNODE
Header(l) == NNODE + 1 + l        \* headers[l]
Headers == {Header(l) : l \in 0..3}

ASSUME SchedAssumption ==
  /\ Mains \subseteq Nat \ {0} /\ Procs \subseteq Nat \ {0} /\ 1 \in Mains
  /\ NCPU \in Nat \ {0} /\ NNODE \in Nat /\ MaxTicks \in Nat
  /\ Calls \subseteq AllCalls

get_highest_master(p) == CHOOSE m \in Mains : p = m \/ p \in ToSet(Threads[m])

VARIABLES v,     \* process table and scheduler data, all under ptable.lock
          cpu,   \* the process each CPU runs, or 0
          ticks

vars == <<v, cpu, ticks>>
----------------------------------------------------------------------------
\* The MLFQ list: a sequence of nodes and headers.

Position(q, n) == CHOOSE i \in DOMAIN q : q[i] = n

FreeNode == [self |-> 0, level |-> 0, exec_time |-> 0]

\* delete(): off the list and free again.
delete(u, n) == [u EXCEPT !.queue = Remove(@, n), !.node[n] = FreeNode]

\* remove() and insertBefore(): to the end of a level.
ToLevel(u, n, l) ==
  LET q == Remove(u.queue, n)
  IN  [u EXCEPT !.queue = InsertAt(q, Position(q, Header(l + 1)), n)]

lowerlevel(u, n) ==
  LET l == u.node[n].level
  IN  IF l = 2 THEN u ELSE [ToLevel(u, n, l + 1) EXCEPT !.node[n].level = l + 1]

\* allocmlfqnode() and insertafter(headers[0], ...): a new node in front.
Enqueue(u, p) ==
  LET n == CHOOSE m \in Nodes : u.node[m].self = 0 /\ \A k \in 1..(m - 1) : u.node[k].self # 0
  IN  [u EXCEPT !.node[n] = [FreeNode EXCEPT !.self = p], !.proc[p].mnode = n,
                !.queue = InsertAt(@, Position(@, Header(0)) + 1, n)]

NodeState(u, n) == IF n \in Headers THEN "header" ELSE u.proc[u.node[n].self].state

choosebymlfq_DropSleepers(u) ==
  IF ~u.up THEN [u EXCEPT !.mhigh = 0]
  ELSE IF u.mhigh # 0 /\ NodeState(u, u.mhigh) = "RUNNABLE" THEN u
  ELSE LET ready == {i \in DOMAIN u.queue : NodeState(u, u.queue[i]) = "RUNNABLE"}
           stop  == IF ready = {} THEN Len(u.queue) + 1 ELSE Min(ready)
           gone  == {i \in 1..(stop - 1) :
                       NodeState(u, u.queue[i]) \notin {"RUNNABLE", "header"}}
           dead  == {u.queue[i] : i \in gone}
       IN  [u EXCEPT !.queue = SelectSeq(@, LAMBDA n : n \notin dead),
                     !.node = [n \in Nodes |-> IF n \in dead THEN FreeNode ELSE @[n]],
                     !.mhigh = IF ready = {} THEN 0 ELSE u.queue[stop]]

choosebymlfq_KeepHighpr(u) ==
  IF ~u.up THEN [u EXCEPT !.mhigh = 0]
  ELSE IF u.mhigh # 0 /\ u.node[u.mhigh].self # 0 /\ NodeState(u, u.mhigh) = "RUNNABLE" THEN u
  ELSE LET ready == {i \in DOMAIN u.queue : NodeState(u, u.queue[i]) = "RUNNABLE"}
           stop  == IF ready = {} THEN Len(u.queue) + 1 ELSE Min(ready)
           gone  == {i \in 1..(stop - 1) :
                       NodeState(u, u.queue[i]) \notin {"RUNNABLE", "SLEEPING", "header"}}
           dead  == {u.queue[i] : i \in gone}
       IN  [u EXCEPT !.queue = SelectSeq(@, LAMBDA n : n \notin dead),
                     !.node = [n \in Nodes |-> IF n \in dead THEN FreeNode ELSE @[n]],
                     !.mhigh = IF ready = {} THEN u.mhigh ELSE u.queue[stop]]

\* choosebymlfq(): the current choice while it can run, else the first node
\* that can; nodes of ended processes met on the way are deleted.
choosebymlfq(u) ==
  IF ~u.up THEN [u EXCEPT !.mhigh = 0]
  ELSE IF u.mhigh # 0 /\ NodeState(u, u.mhigh) = "RUNNABLE" THEN u
  ELSE LET ready == {i \in DOMAIN u.queue : NodeState(u, u.queue[i]) = "RUNNABLE"}
           stop  == IF ready = {} THEN Len(u.queue) + 1 ELSE Min(ready)
           gone  == {i \in 1..(stop - 1) :
                       NodeState(u, u.queue[i]) \notin {"RUNNABLE", "SLEEPING", "header"}}
           dead  == {u.queue[i] : i \in gone}
       IN  [u EXCEPT !.queue = SelectSeq(@, LAMBDA n : n \notin dead),
                     !.node = [n \in Nodes |-> IF n \in dead THEN FreeNode ELSE @[n]],
                     !.mhigh = IF ready = {} THEN 0 ELSE u.queue[stop]]
----------------------------------------------------------------------------
\* Stride scheduling.

Runnable(u) == {p \in Procs : u.proc[p].state = "RUNNABLE"}
Mode(u, p) == u.proc[get_highest_master(p)].schedmode

\* The master with the least path or pathlevel among those of the runnable
\* processes of a mode; the first in the table if there are several.
FirstMaster(u, mode, field) ==
  LET S == {p \in Runnable(u) : Mode(u, p) = mode}
      Key(p) == u.proc[get_highest_master(p)][field]
  IN  IF S = {} THEN 0
      ELSE get_highest_master(
             CHOOSE p \in S : \A q \in S :
               Key(p) < Key(q) \/ (Key(p) = Key(q) /\ p <= q))

getminproc(u, a, b) ==
  CASE a = 0 -> b
    [] b = 0 -> a
    [] OTHER -> IF u.proc[a].path > u.proc[b].path THEN b ELSE a

\* The highpr of the default client, whose path is then the client's.
DefaultHigh(u) == FirstMaster(u, 0, "pathlevel")
WithPath(u, dh) == IF dh = 0 THEN u ELSE [u EXCEPT !.dhigh = dh, !.proc[dh].path = u.dpath]

FixedMin(u) == FirstMaster(u, 1, "path")
FixedTotal(u) == MapThenSumSet(LAMBDA p : u.proc[p].fixedshare,
                               {p \in Runnable(u) \intersect Mains : Mode(u, p) = 1})
MlfqRuns(u) == \E p \in Runnable(u) : Mode(u, p) = 2

\* The MLFQ starts with the least path of the others when it has someone to run.
MlfqPath(u, low) ==
  CASE ~MlfqRuns(u) -> -1
    [] MlfqRuns(u) /\ u.mpath # -1 -> u.mpath
    [] OTHER -> IF low = 0 THEN 0 ELSE u.proc[low].path

updatevals(u) ==
  LET w == WithPath([u EXCEPT !.dhigh = 0, !.fixedmin = FixedMin(u)], DefaultHigh(u))
  IN  choosebymlfq([w EXCEPT !.mpath = MlfqPath(w, getminproc(w, w.fixedmin, w.dhigh)),
                             !.dstride = (100 * Unit)
                                \div ((IF MlfqRuns(u) THEN 80 ELSE 100) - FixedTotal(u))])

\* choosebystride() changes the data it looks at; the choice is Chosen of it.
WithMlfqPath(w) == IF w.mhigh = 0 THEN w ELSE [w EXCEPT !.proc[w.node[w.mhigh].self].path = w.mpath]
choosebystride(u) == WithMlfqPath(updatevals(u))

Chosen(w) ==
  getminproc(w, w.fixedmin,
             IF w.mhigh = 0 THEN w.dhigh ELSE getminproc(w, w.node[w.mhigh].self, w.dhigh))

MinPath(w) == IF Chosen(w) = 0 THEN 0 ELSE w.proc[Chosen(w)].path

\* Threads of m from its turn on, round and round: the first that can run.
TurnOf(u, m) ==
  LET list == <<m>> \o Threads[m]
      at   == Position(list, u.proc[m].turn)
      nth(k) == ((at + k - 1) % Len(list)) + 1
      k    == CHOOSE k \in 0..(Len(list) - 1) :
                /\ u.proc[list[nth(k)]].state = "RUNNABLE"
                /\ \A j \in 0..(k - 1) : u.proc[list[nth(j)]].state # "RUNNABLE"
  IN  [thread |-> list[nth(k)], next |-> list[nth(k + 1)]]

\* Charge the default client, a fixed-share process, or the MLFQ for a turn.
ChargeDefault(w, m) ==
  [w EXCEPT !.dpath = @ + w.dstride, !.proc[m].pathlevel = @ + 1, !.proc[m].turn = TurnOf(w, m).next]

ChargeFixed(w, m) ==
  [w EXCEPT !.proc[m].path = @ + (100 * Unit) \div w.proc[m].fixedshare,
            !.proc[m].turn = TurnOf(w, m).next]

ChargeMlfq(w, p) ==
  LET n == w.proc[p].mnode
      l == w.node[n].level
      t == [w EXCEPT !.mpath = @ + 5 * Unit, !.slice_cnt = @ + 1, !.node[n].exec_time = @ + 1]
      moved == IF t.node[n].exec_time >= Allot[l + 1]
               THEN [lowerlevel(t, n) EXCEPT !.node[n].exec_time = 0]
               ELSE ToLevel(t, n, l)
  IN  IF t.slice_cnt >= Slice[l + 1] THEN [moved EXCEPT !.slice_cnt = 0, !.mhigh = 0] ELSE t
----------------------------------------------------------------------------
Charged(w, p) ==
  CASE w.proc[p].schedmode = 0 -> ChargeDefault(w, p)
    [] w.proc[p].schedmode = 1 -> ChargeFixed(w, p)
    [] w.proc[p].schedmode = 2 -> ChargeMlfq(w, p)

NextThread(w, p) == IF w.proc[p].schedmode = 2 THEN p ELSE TurnOf(w, p).thread

\* CPU c idles, or switches to process p of the data w of choosebystride().
Dispatch(c, w, p) ==
  \/ p = 0 /\ v' = w /\ cpu' = [cpu EXCEPT ![c] = 0]
  \/ p # 0 /\ cpu' = [cpu EXCEPT ![c] = NextThread(w, p)]
           /\ v' = [Charged(w, p) EXCEPT !.proc[cpu'[c]].state = "RUNNING"]

\* scheduler() on CPU c after its process left in state st (yield, sleep or
\* exit): all of it without giving up ptable.lock.
Switch(c, st) ==
  /\ ticks < MaxTicks
  /\ LET left == IF cpu[c] = 0 THEN v ELSE [v EXCEPT !.proc[cpu[c]].state = st]
     IN  \E w \in {choosebystride(left)} : Dispatch(c, w, Chosen(w))
  /\ ticks' = ticks + 1

Yield(c) == Switch(c, "RUNNABLE")

Sleep(c) == "sleep" \in Calls /\ cpu[c] # 0 /\ Switch(c, "SLEEPING")

\* exit() of a single-threaded process; "leave" keeps it to those not in the MLFQ.
Exit(c) ==
  /\ cpu[c] \in Mains \ {1} /\ Threads[cpu[c]] = <<>>
  /\ "exit" \in Calls \/ ("leave" \in Calls /\ v.proc[cpu[c]].schedmode # 2)
  /\ Switch(c, "ZOMBIE")

Wakeup(p) ==
  /\ v.proc[p].state = "SLEEPING"
  /\ v' = [v EXCEPT !.proc[p].state = "RUNNABLE"]
  /\ UNCHANGED <<cpu, ticks>>

\* wait() of some running process.
Reap(c, p) ==
  /\ "reap" \in Calls /\ cpu[c] # 0 /\ v.proc[p].state = "ZOMBIE"
  /\ v' = [v EXCEPT !.proc[p].state = "UNUSED"]
  /\ UNCHANGED <<cpu, ticks>>

Fork(c, p) ==
  /\ "fork" \in Calls /\ cpu[c] # 0
  /\ v.proc[p].state = "UNUSED" /\ \A q \in Mains : q < p => v.proc[q].state # "UNUSED"
  /\ v' = [v EXCEPT !.proc[p] = [@ EXCEPT !.state = "RUNNABLE", !.turn = p, !.schedmode = 0,
                     !.pathlevel = IF v.dhigh # 0 THEN v.proc[v.dhigh].pathlevel ELSE 0]]
  /\ UNCHANGED <<cpu, ticks>>

ToFixed(u, p) ==
  [(IF u.proc[p].schedmode = 2 THEN delete(u, u.proc[p].mnode) ELSE u) EXCEPT !.proc[p].schedmode = 1]

Granted(u) ==
  MapThenSumSet(LAMBDA p : u.proc[p].fixedshare,
                {p \in Mains : u.proc[p].schedmode = 1 /\ u.proc[p].state \in {"RUNNABLE", "SLEEPING"}})

Share(u, m, n) == choosebystride([u EXCEPT !.proc[m].fixedshare = n])
AtMinPath(w, m) == [w EXCEPT !.proc[m].path = MinPath(w)]

cpu_share_CapBefore(c, n) ==
  /\ "share" \in Calls /\ cpu[c] \notin {0, 1}
  /\ LET m == get_highest_master(cpu[c])
     IN  IF n <= 0 \/ Granted(v) > 20 THEN UNCHANGED v
         ELSE v' = FoldLeft(ToFixed, AtMinPath(Share(v, m, n), m), <<m>> \o Threads[m])
  /\ UNCHANGED <<cpu, ticks>>

cpu_share_KeepPath(c, n) ==
  /\ "share" \in Calls /\ cpu[c] \notin {0, 1}
  /\ LET m == get_highest_master(cpu[c])
     IN  IF n <= 0 \/ Granted(v) + n > 20 THEN UNCHANGED v
         ELSE v' = FoldLeft(ToFixed, Share(v, m, n), <<m>> \o Threads[m])
  /\ UNCHANGED <<cpu, ticks>>

\* cpu_share(n), which leaves everything alone when it refuses.  init does not call it.
cpu_share(c, n) ==
  /\ "share" \in Calls /\ cpu[c] \notin {0, 1}
  /\ LET m == get_highest_master(cpu[c])
     IN  IF n <= 0 \/ Granted(v) + n > 20 THEN UNCHANGED v
         ELSE v' = FoldLeft(ToFixed, AtMinPath(Share(v, m, n), m), <<m>> \o Threads[m])
  /\ UNCHANGED <<cpu, ticks>>

ToMlfq(u, p) == Enqueue([u EXCEPT !.proc[p].schedmode = 2], p)

\* mlfqvmp.path = getminpath().
Rebased(w) == [w EXCEPT !.mpath = MinPath(w)]

\* initmlfq() the first time.
initmlfq(u) ==
  IF u.up THEN u
  ELSE Rebased(choosebystride([u EXCEPT !.up = TRUE, !.mhigh = 0, !.mpath = 0, !.slice_cnt = 0]))

StartMlfq(u) == IF u.mpath = -1 THEN Rebased(choosebystride(u)) ELSE u

\* run_MLFQ(); a process asks for it once.
run_MLFQ(c) ==
  /\ "mlfq" \in Calls /\ cpu[c] \notin {0, 1}
  /\ LET m    == get_highest_master(cpu[c])
         list == <<m>> \o Threads[m]
     IN  /\ v.proc[m].schedmode # 2
         /\ Cardinality({n \in Nodes : v.node[n].self = 0}) >= Len(list)
         /\ v' = FoldLeft(ToMlfq, StartMlfq(initmlfq(v)), list)
  /\ UNCHANGED <<cpu, ticks>>
----------------------------------------------------------------------------
\* userinit() has made init; a process with threads has started them.
Init ==
  /\ v = [proc |-> [p \in Procs |->
                      [state |-> IF p = 1 \/ Threads[get_highest_master(p)] # <<>>
                                 THEN "RUNNABLE" ELSE "UNUSED",
                       schedmode |-> 0, path |-> 0, fixedshare |-> 0, pathlevel |-> 0,
                       turn |-> p, mnode |-> 0]],
          node |-> [n \in Nodes |-> FreeNode], queue |-> [i \in 1..4 |-> Header(i - 1)],
          up |-> FALSE, dpath |-> 0, dstride |-> Unit, dhigh |-> 1, fixedmin |-> 0,
          mpath |-> -1, mhigh |-> 0, slice_cnt |-> 0]
  /\ cpu = [c \in CPUs |-> 0]
  /\ ticks = 0

Next ==
  \/ \E c \in CPUs : Yield(c) \/ Sleep(c) \/ Exit(c) \/ run_MLFQ(c)
  \/ \E c \in CPUs, n \in Shares : cpu_share(c, n)
  \/ \E c \in CPUs, p \in Mains : Reap(c, p) \/ Fork(c, p)
  \/ \E p \in Procs : Wakeup(p)

Spec == Init /\ [][Next]_vars
----------------------------------------------------------------------------
Live(p) == v.proc[p].state \in {"RUNNABLE", "RUNNING", "SLEEPING"}
Queued == ToSet(v.queue) \ Headers

TypeOK ==
  /\ v.proc \in [Procs -> [state : {"UNUSED", "RUNNABLE", "RUNNING", "SLEEPING", "ZOMBIE"},
                           schedmode : 0..2, path : Int, fixedshare : Shares \union {0},
                           pathlevel : Nat, turn : Procs, mnode : 0..NNODE]]
  /\ v.node \in [Nodes -> [self : Procs \union {0}, level : 0..2, exec_time : Nat]]
  /\ ToSet(v.queue) \subseteq Nodes \union Headers
  /\ cpu \in [CPUs -> Procs \union {0}] /\ ticks \in 0..MaxTicks

\* A process of the MLFQ that waits for the CPU or for an event is on the
\* list; off it, it would never be scheduled again.
NobodyDropped ==
  \A p \in Procs : v.proc[p].schedmode = 2 /\ v.proc[p].state \in {"RUNNABLE", "SLEEPING"}
                     => v.proc[p].mnode \in Queued /\ v.node[v.proc[p].mnode].self = p

\* Only processes in MLFQ mode are served by the MLFQ's list.
OnlyMlfqQueued ==
  \A n \in Queued : Live(v.node[n].self) => v.proc[v.node[n].self].schedmode = 2

\* The current choice of the MLFQ is a node on the list, not a deleted one.
HighprQueued == v.mhigh # 0 => v.mhigh \in Queued

\* The list holds each node between the headers of its level, and no node
\* overdraws its level's time by more than a slice.
LevelsInOrder ==
  \A n \in Queued :
    /\ Position(v.queue, Header(v.node[n].level)) < Position(v.queue, n)
    /\ Position(v.queue, n) < Position(v.queue, Header(v.node[n].level + 1))
    /\ v.node[n].exec_time < Allot[v.node[n].level + 1] + Slice[v.node[n].level + 1]

\* Fixed shares never add up to more than the 20 percent cpu_share() grants.
SharesCapped ==
  MapThenSumSet(LAMBDA p : v.proc[p].fixedshare,
                {p \in Mains : v.proc[p].schedmode = 1 /\ Live(p)}) <= 20

\* Stride scheduling gives every client its share: none of those that can run
\* is ahead of another by more than one of its own turns.
Fixed == {p \in Mains : v.proc[p].schedmode = 1 /\ \E q \in {p} \union ToSet(Threads[p]) :
                                                      v.proc[q].state \in {"RUNNABLE", "RUNNING"}}
DefaultOn == \E p \in Procs : Mode(v, p) = 0 /\ v.proc[p].state \in {"RUNNABLE", "RUNNING"}
Paths == {v.proc[p].path : p \in Fixed} \union (IF DefaultOn THEN {v.dpath} ELSE {})
           \union (IF v.mpath # -1 THEN {v.mpath} ELSE {})

FairShares ==
  Paths # {} =>
    /\ \A p \in Fixed : v.proc[p].path <= Min(Paths) + (100 * Unit) \div v.proc[p].fixedshare
    /\ DefaultOn => v.dpath <= Min(Paths) + (100 * Unit) \div 60
    /\ v.mpath <= Min(Paths) + 5 * Unit
============================================================================
