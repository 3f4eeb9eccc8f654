-------------------------------- MODULE Log --------------------------------
(***************************************************************************)
(* The redo log of log.c: begin_op/log_write/end_op, the deferred group    *)
(* commit in sync(), and recovery after a crash.  Every critical section   *)
(* under log.lock is one action; every disk write of the committer is one  *)
(* action, so that a crash or another process can come between any two.    *)
(* A buffer is modified, logged and released under its sleep-lock, so the  *)
(* modification of a block and its log_write() are one step to everybody   *)
(* else.  Single block writes are atomic on the disk.                      *)
(***************************************************************************)
EXTENDS Integers, Sequences, FiniteSets, Functions

CONSTANTS Procs,        \* processes that make FS system calls
          Syncers,      \* those of them that also call sync()
          Blocks,       \* home blocks of the file system
          Vals,         \* contents of a block
          MAXOPBLOCKS, LOGSIZE,   \* param.h
          NLOG,         \* sb.nlog: blocks of the on-disk log, header included
          OpBlocks      \* distinct blocks an operation logs, at most

ASSUME LogAssumption ==
  /\ IsFiniteSet(Procs) /\ Syncers \subseteq Procs
  /\ Vals # {}
  /\ MAXOPBLOCKS \in Nat \ {0} /\ LOGSIZE \in Nat /\ NLOG \in Nat
  /\ MAXOPBLOCKS <= LOGSIZE
  /\ OpBlocks \in 1..MAXOPBLOCKS

VARIABLES lh, outstanding, committing,  \* struct log
          cache, dirty,                 \* buffers of the home blocks, B_DIRTY
          disk, dlog, dhead,            \* home blocks, log blocks, log header
          pc, tail, wrote,              \* where each process is
          boot, rtail                   \* kernel life cycle and recovery

logVars  == <<lh, outstanding, committing>>
memVars  == <<cache, dirty>>
diskVars == <<disk, dlog, dhead>>
procVars == <<pc, tail, wrote>>
bootVars == <<boot, rtail>>
vars     == <<logVars, memVars, diskVars, procVars, bootVars>>

InOp    == {p \in Procs : pc[p] \in {"op", "logw"}}
Writers == {p \in Procs : pc[p] \in {"wlog", "whead", "install", "erase"}}

\* wakeup(chan): every process asleep at label "from" runs again at "to".
Wakeup(f, from, to) == [q \in Procs |-> IF f[q] = from THEN to ELSE f[q]]

Goto(p, label) == pc' = [pc EXCEPT ![p] = label]
----------------------------------------------------------------------------
CanBegin_NoReserve == ~committing /\ Len(lh) + MAXOPBLOCKS <= LOGSIZE

\* begin_op(): neither committing nor short of log space.
CanBegin == /\ ~committing
            /\ Len(lh) + (outstanding + 1) * MAXOPBLOCKS <= LOGSIZE

BeginOp(p) ==
  /\ boot = "up" /\ pc[p] \in {"idle", "begin"}
  /\ \/ /\ CanBegin
        /\ outstanding' = outstanding + 1
        /\ wrote' = [wrote EXCEPT ![p] = {}]
        /\ Goto(p, "op")
     \/ /\ ~CanBegin
        /\ Goto(p, "logsleep")
        /\ UNCHANGED <<outstanding, wrote>>
  /\ UNCHANGED <<lh, committing, tail, memVars, diskVars, bootVars>>

TooBig == Len(lh) >= LOGSIZE \/ Len(lh) >= NLOG - 1

\* The panic checks of log_write(), made before log.lock is taken.
LogWriteCheck(p) ==
  /\ boot = "up" /\ pc[p] = "op"
  /\ \/ /\ TooBig \/ outstanding < 1
        /\ boot' = "panic"
        /\ UNCHANGED pc
     \/ /\ ~TooBig /\ outstanding >= 1
        /\ Goto(p, "logw")
        /\ UNCHANGED boot
  /\ UNCHANGED <<logVars, memVars, diskVars, tail, wrote, rtail>>

Pin(b) == dirty \union {b}

\* The block joins the log unless it is there already (log absorption).
Absorb(b) == IF b \in Range(lh) THEN lh ELSE Append(lh, b)

LogWrite(p) ==
  /\ boot = "up" /\ pc[p] = "logw"
  /\ \E b \in Blocks, v \in Vals :
       /\ Cardinality(wrote[p] \union {b}) <= OpBlocks
       /\ cache' = [cache EXCEPT ![b] = v]
       /\ wrote' = [wrote EXCEPT ![p] = @ \union {b}]
       /\ lh' = Absorb(b)
       /\ dirty' = Pin(b)
  /\ Goto(p, "op")
  /\ UNCHANGED <<outstanding, committing, tail, diskVars, bootVars>>

\* end_op(): the next operation might not fit.
LogFull == Len(lh) + MAXOPBLOCKS > LOGSIZE

WakeSync_Nobody(f) == f
WakeLog_Nobody(f) == f

\* wakeup(&log.sync_chan) and wakeup(&log).
WakeSync(f) == Wakeup(f, "syncsleep", "synccheck")
WakeLog(f) == Wakeup(f, "logsleep", "begin")

EndOp(p) ==
  /\ boot = "up" /\ pc[p] = "op"
  /\ outstanding' = outstanding - 1
  /\ wrote' = [wrote EXCEPT ![p] = {}]
  /\ LET last     == outstanding - 1 = 0
         doCommit == last /\ LogFull
         commits  == committing \/ doCommit
         synced   == IF last THEN WakeSync(pc) ELSE pc
         woken    == IF commits THEN synced ELSE WakeLog(synced)
     IN  /\ committing' = commits
         /\ pc' = [woken EXCEPT ![p] = IF doCommit THEN "sync" ELSE "idle"]
  /\ UNCHANGED <<lh, tail, memVars, diskVars, bootVars>>
----------------------------------------------------------------------------
\* The sync() system call.
SyncCall(p) ==
  /\ boot = "up" /\ p \in Syncers /\ pc[p] = "idle"
  /\ Goto(p, "sync")
  /\ UNCHANGED <<logVars, memVars, diskVars, tail, wrote, bootVars>>

\* sync() looks at log.lh.n without the lock; -1 when there is nothing to do.
SyncTest(p) ==
  /\ boot = "up" /\ pc[p] = "sync"
  /\ Goto(p, IF Len(lh) > 0 THEN "synclock" ELSE "idle")
  /\ UNCHANGED <<logVars, memVars, diskVars, tail, wrote, bootVars>>

MustWait_Never == FALSE

MustWait == outstanding > 0

\* log.committing is set once, before the loop that waits for outstanding
\* operations, and not again when the wait is over.
SyncWait(p) ==
  /\ boot = "up" /\ pc[p] \in {"synclock", "synccheck"}
  /\ committing' = (committing \/ pc[p] = "synclock")
  /\ Goto(p, IF MustWait THEN "syncsleep" ELSE "commit")
  /\ UNCHANGED <<lh, outstanding, memVars, diskVars, tail, wrote, bootVars>>

Commit_HeaderFirst(p) ==
  /\ boot = "up" /\ pc[p] = "commit"
  /\ Goto(p, IF Len(lh) > 0 THEN "whead" ELSE "syncdone")
  /\ UNCHANGED <<logVars, memVars, diskVars, tail, wrote, bootVars>>

Commit(p) ==
  /\ boot = "up" /\ pc[p] = "commit"
  /\ Goto(p, IF Len(lh) > 0 THEN "wlog" ELSE "syncdone")
  /\ UNCHANGED <<logVars, memVars, diskVars, tail, wrote, bootVars>>

\* write_log(): one block from the cache to the log, or the end of the loop.
WriteLog(p) ==
  /\ boot = "up" /\ pc[p] = "wlog"
  /\ LET t == tail[p] + 1 IN
       \/ /\ t <= Len(lh)
          /\ dlog' = [dlog EXCEPT ![t] = cache[lh[t]]]
          /\ tail' = [tail EXCEPT ![p] = t]
          /\ UNCHANGED pc
       \/ /\ t > Len(lh)
          /\ tail' = [tail EXCEPT ![p] = 0]
          /\ Goto(p, "whead")
          /\ UNCHANGED dlog
  /\ UNCHANGED <<logVars, memVars, disk, dhead, wrote, bootVars>>

\* The first write_head() of commit().
WriteHead(p) ==
  /\ boot = "up" /\ pc[p] = "whead"
  /\ dhead' = lh
  /\ Goto(p, "install")
  /\ UNCHANGED <<logVars, memVars, disk, dlog, tail, wrote, bootVars>>

\* One iteration of install_trans(): log block t to its home location.
InstallBlock(t) ==
  /\ disk' = [disk EXCEPT ![lh[t]] = dlog[t]]
  /\ cache' = [cache EXCEPT ![lh[t]] = dlog[t]]
  /\ dirty' = dirty \ {lh[t]}

Install(p) ==
  /\ boot = "up" /\ pc[p] = "install"
  /\ LET t == tail[p] + 1 IN
       \/ /\ t <= Len(lh)
          /\ InstallBlock(t)
          /\ tail' = [tail EXCEPT ![p] = t]
          /\ UNCHANGED <<lh, pc>>
       \/ /\ t > Len(lh)
          /\ lh' = <<>>
          /\ tail' = [tail EXCEPT ![p] = 0]
          /\ Goto(p, "erase")
          /\ UNCHANGED <<disk, memVars>>
  /\ UNCHANGED <<outstanding, committing, dlog, dhead, wrote, bootVars>>

\* The second write_head() of commit().
EraseHead(p) ==
  /\ boot = "up" /\ pc[p] = "erase"
  /\ dhead' = lh
  /\ Goto(p, "syncdone")
  /\ UNCHANGED <<logVars, memVars, disk, dlog, tail, wrote, bootVars>>

SyncDone(p) ==
  /\ boot = "up" /\ pc[p] = "syncdone"
  /\ committing' = FALSE
  /\ pc' = [WakeLog(pc) EXCEPT ![p] = "idle"]
  /\ UNCHANGED <<lh, outstanding, memVars, diskVars, tail, wrote, bootVars>>
----------------------------------------------------------------------------
\* bget() recycles a clean buffer; the block is read again from the disk.
Evict(b) ==
  /\ boot = "up" /\ b \notin dirty
  /\ cache' = [cache EXCEPT ![b] = disk[b]]
  /\ UNCHANGED <<logVars, dirty, diskVars, procVars, bootVars>>

\* Power failure or reset; only the disk survives.
Crash ==
  /\ boot' = "readhead"
  /\ lh' = <<>> /\ outstanding' = 0 /\ committing' = FALSE
  /\ cache' = disk /\ dirty' = {} /\ rtail' = 0
  /\ pc' = [p \in Procs |-> "idle"]
  /\ tail' = [p \in Procs |-> 0]
  /\ wrote' = [p \in Procs |-> {}]
  /\ UNCHANGED diskVars

\* recover_from_log(): read_head(), install_trans(), clear the header.
ReadHead ==
  /\ boot = "readhead"
  /\ lh' = dhead /\ boot' = "install"
  /\ UNCHANGED <<outstanding, committing, memVars, diskVars, procVars, rtail>>

RecoverInstall ==
  /\ boot = "install"
  /\ \/ /\ rtail + 1 <= Len(lh)
        /\ InstallBlock(rtail + 1)
        /\ rtail' = rtail + 1
        /\ UNCHANGED <<lh, boot>>
     \/ /\ rtail + 1 > Len(lh)
        /\ lh' = <<>> /\ rtail' = 0 /\ boot' = "erase"
        /\ UNCHANGED <<memVars, disk>>
  /\ UNCHANGED <<outstanding, committing, dlog, dhead, procVars>>

RecoverErase ==
  /\ boot = "erase"
  /\ dhead' = lh /\ boot' = "up"
  /\ UNCHANGED <<logVars, memVars, disk, dlog, procVars, rtail>>
----------------------------------------------------------------------------
\* A formatted disk with an empty log, before the first boot's recovery.
Init ==
  /\ lh = <<>> /\ outstanding = 0 /\ committing = FALSE
  /\ disk \in [Blocks -> Vals] /\ cache = disk /\ dirty = {}
  /\ dlog \in {[i \in 1..LOGSIZE |-> v] : v \in Vals} /\ dhead = <<>>
  /\ pc = [p \in Procs |-> "idle"]
  /\ tail = [p \in Procs |-> 0] /\ wrote = [p \in Procs |-> {}]
  /\ boot = "readhead" /\ rtail = 0

SyncStep(p) == SyncTest(p) \/ SyncWait(p) \/ Commit(p) \/ WriteLog(p) \/ WriteHead(p)
                 \/ Install(p) \/ EraseHead(p) \/ SyncDone(p)

Next ==
  \/ \E p \in Procs : BeginOp(p) \/ LogWriteCheck(p) \/ LogWrite(p) \/ EndOp(p)
                        \/ SyncCall(p) \/ SyncStep(p)
  \/ \E b \in Blocks : Evict(b)
  \/ Crash \/ ReadHead \/ RecoverInstall \/ RecoverErase

Spec == Init /\ [][Next]_vars

\* A process woken in begin_op() or running in sync() is scheduled again, an
\* operation makes finitely many log_write()s, and a booting kernel recovers.
Fairness ==
  /\ \A p \in Procs : /\ WF_vars(pc[p] = "begin" /\ BeginOp(p))
                      /\ WF_vars(LogWrite(p))
                      /\ SF_vars(EndOp(p))
                      /\ WF_vars(SyncStep(p))
  /\ WF_vars(ReadHead \/ RecoverInstall \/ RecoverErase)

FairSpec == Spec /\ Fairness
----------------------------------------------------------------------------
Labels == {"idle", "begin", "logsleep", "op", "logw", "sync", "synclock", "syncsleep",
           "synccheck", "commit", "wlog", "whead", "install", "erase", "syncdone"}

\* Every variable has its type; the in-memory and on-disk headers list each
\* block once and never more than LOGSIZE blocks.
TypeOK ==
  /\ lh \in Seq(Blocks) /\ dhead \in Seq(Blocks)
  /\ IsInjective(lh) /\ IsInjective(dhead)
  /\ Len(lh) <= LOGSIZE /\ Len(dhead) <= LOGSIZE
  /\ outstanding = Cardinality(InOp) /\ committing \in BOOLEAN
  /\ cache \in [Blocks -> Vals] /\ disk \in [Blocks -> Vals]
  /\ dlog \in [1..LOGSIZE -> Vals]
  /\ dirty \subseteq Blocks
  /\ pc \in [Procs -> Labels] /\ wrote \in [Procs -> SUBSET Blocks]
  /\ tail \in [Procs -> 0..LOGSIZE] /\ rtail \in 0..LOGSIZE
  /\ boot \in {"readhead", "install", "erase", "up", "panic"}

\* log_write() never panics: the space begin_op() reserves for each operation
\* covers what it logs, although the panic check is made without log.lock.
NoPanic == boot # "panic"

\* log.c:11-15, "The logging system only commits when there are no FS system
\* calls active": while commit() writes or installs the log, no operation runs.
CommitQuiescent == Writers # {} => InOp = {}

\* What recovery would make of the disk: committed log blocks over home blocks.
Recovered ==
  [b \in Blocks |-> IF b \in Range(dhead)
                    THEN dlog[CHOOSE i \in 1..Len(dhead) : dhead[i] = b]
                    ELSE disk[b]]

\* log.c implements AtomicDisk: commits are atomic, take in whole operations
\* only, and survive a crash at any point of commit() or of recovery.
Abstract == INSTANCE AtomicDisk WITH
  fs      <- IF boot = "up" THEN cache ELSE Recovered,
  durable <- Recovered,
  active  <- IF boot = "up" THEN InOp ELSE {}

Atomicity == Abstract!Spec

\* When sync() returns, with 0 or with -1, a crash would lose nothing that was
\* written so far.
SyncDurable ==
  [][\A p \in Procs : pc[p] \in {"sync", "syncdone"} /\ pc'[p] = "idle" /\ boot' = "up"
                        => Recovered = cache]_vars

\* A process that sleeps in begin_op() is always woken up again.
SleeperWoken == \A p \in Procs : pc[p] = "logsleep" ~> pc[p] # "logsleep"

\* A call of sync() returns, however many operations are under way.
SyncReturns == \A p \in Procs : pc[p] = "sync" ~> pc[p] = "idle"
============================================================================
