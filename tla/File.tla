-------------------------------- MODULE File --------------------------------
(***************************************************************************)
(* Open files: the descriptors of each process (sysfile.c), the table of   *)
(* struct file with its reference counts (file.c) and the pipes (pipe.c).  *)
(* Every section under ftable.lock or under a pipe's lock is one action,   *)
(* and so is a section under an inode's lock.  Threads have descriptors of *)
(* their own (thread_create() copies them as fork() does), so a process of *)
(* this module is any kernel thread.                                       *)
(***************************************************************************)
EXTENDS Pipe, FiniteSets, Functions

CONSTANTS Procs, NOFILE, NFILE,
          NPAGE,       \* pages kalloc() has for pipes
          Payloads,    \* what a write() may send
          MaxLen,      \* bound: bytes of one read()
          Opens,       \* what a process may open: "pipe", "inode"
          KillRaces    \* whether kill() may hit a process inside pipewrite(), or
                       \* between piperead()'s test of killed and its sleep()

ASSUME FileAssumption ==
  /\ IsFiniteSet(Procs) /\ NOFILE \in Nat /\ NFILE \in Nat /\ NPAGE \in Nat
  /\ Payloads \subseteq Seq(Bytes) \ {<<>>}
  /\ MaxLen \in Nat \ {0}
  /\ Opens \subseteq {"pipe", "inode"} /\ KillRaces \in BOOLEAN

Fds   == 0..(NOFILE - 1)
Files == 1..NFILE
Pages == 1..NPAGE

VARIABLES ftable,  \* struct file of each slot
          pipes,   \* the pages that hold pipes
          ofile,   \* proc->ofile; 0 is the null pointer
          pc, loc, \* where each process is in the kernel, and its locals
          killed,
          iref     \* references that files hold on the inode

vars == <<ftable, pipes, ofile, pc, loc, killed, iref>>

\* A free struct file, as fileclose() leaves it (the rest of it is not looked at).
NoFile == [ref |-> 0, type |-> "NONE", writable |-> FALSE, page |-> 0]
NoLoc  == [f |-> 0, n |-> 0, todo |-> <<>>, page |-> 0, writable |-> FALSE]

\* A process in user mode; a killed one gets no further than exit() (trap.c).
User(p) == pc[p] = "user" /\ ~killed[p]

Return(p) == /\ pc' = [pc EXCEPT ![p] = "user"]
             /\ loc' = [loc EXCEPT ![p] = NoLoc]

\* fdalloc(): the first free descriptor.
fdalloc(t) == {fd \in Fds : t[fd] = 0 /\ \A e \in 0..(fd - 1) : t[e] # 0}

\* filealloc(): the first struct file without references.
filealloc(ft) == {f \in Files : ft[f].ref = 0 /\ \A g \in 1..(f - 1) : ft[g].ref # 0}
----------------------------------------------------------------------------
\* sys_dup(): the descriptor first, then the reference.
SysDup(p) ==
  /\ User(p)
  /\ \E old \in {fd \in Fds : ofile[p][fd] # 0}, fd \in fdalloc(ofile[p]) :
       /\ ofile' = [ofile EXCEPT ![p][fd] = ofile[p][old]]
       /\ ftable' = [ftable EXCEPT ![ofile[p][old]].ref = @ + 1]
  /\ UNCHANGED <<pipes, pc, loc, killed, iref>>

\* The end of sys_open() on the inode file, which namei() has referenced;
\* without a struct file or a descriptor it gives that reference back.
SysOpen(p) ==
  /\ User(p) /\ "inode" \in Opens
  /\ \E f \in filealloc(ftable), fd \in fdalloc(ofile[p]) :
       /\ ftable' = [ftable EXCEPT ![f].ref = 1, ![f].type = "INODE"]
       /\ ofile' = [ofile EXCEPT ![p][fd] = f]
  /\ iref' = iref + 1
  /\ UNCHANGED <<pipes, pc, loc, killed>>

\* sys_pipe() up to the first filealloc() of pipealloc().
SysPipe(p) ==
  /\ User(p) /\ "pipe" \in Opens
  /\ \E f \in filealloc(ftable) :
       /\ ftable' = [ftable EXCEPT ![f].ref = 1]
       /\ loc' = [loc EXCEPT ![p].f = f]
  /\ pc' = [pc EXCEPT ![p] = "pipealloc"]
  /\ UNCHANGED <<pipes, ofile, killed, iref>>

PipeFile(k, w) == [ref |-> 1, type |-> "PIPE", writable |-> w, page |-> k]

\* The rest of sys_pipe().  Nobody else knows the files or the pipe yet.
PipeAlloc(p) ==
  /\ pc[p] = "pipealloc"
  /\ \E f \in filealloc(ftable), k \in {j \in Pages : ~pipes[j].page},
        fd0 \in fdalloc(ofile[p]) :
       \E fd1 \in fdalloc([ofile[p] EXCEPT ![fd0] = loc[p].f]) :
         /\ ftable' = [ftable EXCEPT ![loc[p].f] = PipeFile(k, FALSE), ![f] = PipeFile(k, TRUE)]
         /\ pipes' = [pipes EXCEPT ![k] = NewPipe]
         /\ ofile' = [ofile EXCEPT ![p][fd0] = loc[p].f, ![p][fd1] = f]
  /\ Return(p)
  /\ UNCHANGED <<killed, iref>>

\* "bad" in pipealloc(), or no two free descriptors in sys_pipe(): what was
\* taken is given back.
PipeAllocFails(p) ==
  /\ pc[p] = "pipealloc"
  /\ \/ filealloc(ftable) = {}
     \/ \A j \in Pages : pipes[j].page
     \/ Cardinality({fd \in Fds : ofile[p][fd] = 0}) < 2
  /\ ftable' = [ftable EXCEPT ![loc[p].f] = NoFile]
  /\ Return(p)
  /\ UNCHANGED <<pipes, ofile, killed, iref>>

\* fork() and thread_create(): the child gets a copy of every descriptor.
Fork(p, np) ==
  /\ User(p) /\ pc[np] = "unused"
  /\ ofile' = [ofile EXCEPT ![np] = ofile[p]]
  /\ ftable' = [f \in Files |->
                  [ftable[f] EXCEPT !.ref = @ + Cardinality({fd \in Fds : ofile[p][fd] = f})]]
  /\ pc' = [pc EXCEPT ![np] = "user"]
  /\ UNCHANGED <<pipes, loc, killed, iref>>
----------------------------------------------------------------------------
\* fileclose(): under ftable.lock the reference goes, and with the last one
\* the struct file is free for others; what it referred to is closed later,
\* from the copy ff.  next says where the process continues.
fileclose(p, f, next) ==
  LET last == ftable[f].ref = 1
  IN  /\ ftable' = [ftable EXCEPT ![f] = IF last THEN NoFile ELSE [@ EXCEPT !.ref = ftable[f].ref - 1]]
      /\ pc' = [pc EXCEPT ![p] = IF ~last \/ ftable[f].type = "NONE" THEN next
                                 ELSE IF next = "user" THEN "close" ELSE "exitclose"]
      /\ loc' = [loc EXCEPT ![p] = IF last THEN [NoLoc EXCEPT !.page = ftable[f].page,
                                                              !.writable = ftable[f].writable]
                                   ELSE NoLoc]

SysClose(p) ==
  /\ User(p)
  /\ \E fd \in {e \in Fds : ofile[p][e] # 0} :
       /\ ofile' = [ofile EXCEPT ![p][fd] = 0]
       /\ fileclose(p, ofile[p][fd], "user")
  /\ UNCHANGED <<pipes, killed, iref>>

\* exit() and thread_exit(), which trap() also calls for a killed process:
\* the open descriptors are closed in order.
Exit(p) ==
  /\ pc[p] \in {"user", "exit"}
  /\ \/ /\ \A fd \in Fds : ofile[p][fd] = 0
        /\ pc' = [pc EXCEPT ![p] = "unused"]
        /\ killed' = [killed EXCEPT ![p] = FALSE]
        /\ UNCHANGED <<ofile, ftable, loc>>
     \/ \E fd \in Fds :
          /\ ofile[p][fd] # 0 /\ \A e \in 0..(fd - 1) : ofile[p][e] = 0
          /\ ofile' = [ofile EXCEPT ![p][fd] = 0]
          /\ fileclose(p, ofile[p][fd], "exit")
          /\ UNCHANGED killed
  /\ UNCHANGED <<pipes, iref>>

\* Labels: a process that holds a pipe's lock between its test and sleep()
\* is at "wfull" or "rempty", one that sleeps at "wsleep" or "rsleep".
Unlocked(k) == \A q \in Procs : pc[q] \in {"wfull", "rempty"} => ftable[loc[q].f].page # k

\* wakeup(&p->nread) and wakeup(&p->nwrite) for the pipe in page k.
On(q, k) == loc[q].f # 0 /\ ftable[loc[q].f].page = k
WakeReaders(l, k) == [q \in Procs |-> IF l[q] = "rsleep" /\ On(q, k) THEN "piperead" ELSE l[q]]
WakeWriters(l, k) == [q \in Procs |-> IF l[q] = "wsleep" /\ On(q, k) THEN "pipewrite" ELSE l[q]]

PipeCloseWakes_Nobody(w, l, k) == l
PipeCloseWakes(w, l, k) == IF w THEN WakeReaders(l, k) ELSE WakeWriters(l, k)

ClosedEnd_FreeAtOnce(pipe, w) ==
  LET c == IF w THEN [pipe EXCEPT !.writeopen = FALSE] ELSE [pipe EXCEPT !.readopen = FALSE]
  IN  IF c.readopen THEN c ELSE NoPipe

\* pipeclose(): the second end to close frees the page.
ClosedEnd(pipe, w) ==
  LET c == IF w THEN [pipe EXCEPT !.writeopen = FALSE] ELSE [pipe EXCEPT !.readopen = FALSE]
  IN  IF c.readopen \/ c.writeopen THEN c ELSE NoPipe

PipeClose(p) ==
  /\ pc[p] \in {"close", "exitclose"} /\ loc[p].page # 0 /\ Unlocked(loc[p].page)
  /\ pipes' = [pipes EXCEPT ![loc[p].page] = ClosedEnd(@, loc[p].writable)]
  /\ pc' = [PipeCloseWakes(loc[p].writable, pc, loc[p].page)
              EXCEPT ![p] = IF pc[p] = "close" THEN "user" ELSE "exit"]
  /\ loc' = [loc EXCEPT ![p] = NoLoc]
  /\ UNCHANGED <<ftable, ofile, killed, iref>>

\* iput() inside a log transaction.
InodeClose(p) ==
  /\ pc[p] \in {"close", "exitclose"} /\ loc[p].page = 0
  /\ iref' = iref - 1
  /\ pc' = [pc EXCEPT ![p] = IF pc[p] = "close" THEN "user" ELSE "exit"]
  /\ loc' = [loc EXCEPT ![p] = NoLoc]
  /\ UNCHANGED <<ftable, pipes, ofile, killed>>
----------------------------------------------------------------------------
\* pipewrite() under the lock with the bytes in todo still to write: to the
\* end, to an error (no reader, or killed), or to the decision to sleep.
PipeWriteLoop(p, f, todo) ==
  LET k == ftable[f].page
      r == Fill(pipes[k], todo)
  IN  /\ Unlocked(k)
      /\ pipes' = [pipes EXCEPT ![k] = r.pipe]
      /\ \/ /\ r.rest = <<>>
            /\ pc' = [WakeReaders(pc, k) EXCEPT ![p] = "user"]
            /\ loc' = [loc EXCEPT ![p] = NoLoc]
         \/ /\ r.rest # <<>> /\ (~r.pipe.readopen \/ killed[p])
            /\ Return(p)
         \/ /\ r.rest # <<>> /\ r.pipe.readopen /\ ~killed[p]
            /\ pc' = [WakeReaders(pc, k) EXCEPT ![p] = "wfull"]
            /\ loc' = [loc EXCEPT ![p].f = f, ![p].todo = r.rest]

SysWrite(p) ==
  /\ User(p)
  /\ \E f \in Range(ofile[p]) \ {0}, s \in Payloads :
       ftable[f].type = "PIPE" /\ ftable[f].writable /\ PipeWriteLoop(p, f, s)
  /\ UNCHANGED <<ftable, ofile, killed, iref>>

\* The writer runs again: another turn of its loop.
WriteMore(p) ==
  /\ pc[p] = "pipewrite"
  /\ PipeWriteLoop(p, loc[p].f, loc[p].todo)
  /\ UNCHANGED <<ftable, ofile, killed, iref>>

\* sleep() takes ptable.lock before it gives up the pipe's lock.  A kill()
\* before that finds the process running and wakes nobody.
Sleep(p) ==
  /\ pc[p] \in {"wfull", "rempty"}
  /\ pc' = [pc EXCEPT ![p] = IF pc[p] = "wfull" THEN "wsleep" ELSE "rsleep"]
  /\ UNCHANGED <<ftable, pipes, ofile, loc, killed, iref>>

ThisPipe(p) == pipes[ftable[loc[p].f].page]

MustWait_EvenClosed(pipe) == Empty(pipe)
MustWait(pipe) == Empty(pipe) /\ pipe.writeopen

\* piperead() under the lock.
PipeReadLoop(p, f, n) ==
  LET k == ftable[f].page
  IN  /\ Unlocked(k)
      /\ \/ /\ MustWait(pipes[k]) /\ killed[p]
            /\ Return(p)
            /\ UNCHANGED pipes
         \/ /\ MustWait(pipes[k]) /\ ~killed[p]
            /\ pc' = [pc EXCEPT ![p] = "rempty"]
            /\ loc' = [loc EXCEPT ![p].f = f, ![p].n = n]
            /\ UNCHANGED pipes
         \/ /\ ~MustWait(pipes[k])
            /\ pipes' = [pipes EXCEPT ![k] = Drain(@, n).pipe]
            /\ pc' = [WakeWriters(pc, k) EXCEPT ![p] = "user"]
            /\ loc' = [loc EXCEPT ![p] = NoLoc]

SysRead(p) ==
  /\ User(p)
  /\ \E f \in Range(ofile[p]) \ {0}, n \in 1..MaxLen :
       ftable[f].type = "PIPE" /\ ~ftable[f].writable /\ PipeReadLoop(p, f, n)
  /\ UNCHANGED <<ftable, ofile, killed, iref>>

\* The reader of a pipe runs again.
ReadMore(p) ==
  /\ pc[p] = "piperead"
  /\ PipeReadLoop(p, loc[p].f, loc[p].n)
  /\ UNCHANGED <<ftable, ofile, killed, iref>>

Kill_NoWakeup(p) ==
  /\ pc[p] # "unused" /\ ~killed[p]
  /\ pc[p] \in {"pipewrite", "wfull", "wsleep", "rempty"} => KillRaces
  /\ killed' = [killed EXCEPT ![p] = TRUE]
  /\ UNCHANGED <<ftable, pipes, ofile, pc, loc, iref>>

\* kill(): the flag, and a sleeping process runs again.
Kill(p) ==
  /\ pc[p] # "unused" /\ ~killed[p]
  /\ pc[p] \in {"pipewrite", "wfull", "wsleep", "rempty"} => KillRaces
  /\ killed' = [killed EXCEPT ![p] = TRUE]
  /\ pc' = [pc EXCEPT ![p] = CASE @ = "wsleep" -> "pipewrite" [] @ = "rsleep" -> "piperead"
                               [] OTHER -> @]
  /\ UNCHANGED <<ftable, pipes, ofile, loc, iref>>
----------------------------------------------------------------------------
Init ==
  /\ ftable = [f \in Files |-> NoFile]
  /\ pipes = [k \in Pages |-> NoPipe]
  /\ ofile = [p \in Procs |-> [fd \in Fds |-> 0]]
  /\ pc \in {l \in [Procs -> {"user", "unused"}] :
               Cardinality({p \in Procs : l[p] = "user"}) = 1}
  /\ loc = [p \in Procs |-> NoLoc]
  /\ killed = [p \in Procs |-> FALSE]
  /\ iref = 0

\* Steps inside the kernel, which a process goes on with by itself.
Kernel(p) ==
  \/ PipeAlloc(p) \/ PipeAllocFails(p) \/ PipeClose(p) \/ InodeClose(p)
  \/ WriteMore(p) \/ ReadMore(p) \/ Sleep(p)

Calls(p) ==
  \/ SysDup(p) \/ SysOpen(p) \/ SysPipe(p) \/ SysClose(p) \/ SysWrite(p) \/ SysRead(p)
  \/ Exit(p) \/ Kill(p)
  \/ \E np \in Procs : Fork(p, np)

Next == \E p \in Procs : Kernel(p) \/ Calls(p)

Spec == Init /\ [][Next]_vars

\* What a process does by itself: to go on in the kernel, and to exit when killed.
OnItsOwn(p) == Kernel(p) \/ ((killed[p] \/ pc[p] = "exit") /\ Exit(p))

\* The scheduler runs every process that can go on again and again.
Fairness == \A p \in Procs : WF_vars(OnItsOwn(p))

FairSpec == Spec /\ Fairness
----------------------------------------------------------------------------
FileType == [ref : Nat, type : {"NONE", "PIPE", "INODE"}, writable : BOOLEAN, page : 0..NPAGE]
LocType == [f : 0..NFILE, n : 0..MaxLen, todo : Seq(Bytes), page : 0..NPAGE, writable : BOOLEAN]
Labels == {"unused", "user", "exit", "pipealloc", "close", "exitclose",
           "pipewrite", "piperead", "wfull", "rempty", "wsleep", "rsleep"}

TypeOK ==
  /\ ftable \in [Files -> FileType]
  /\ pipes \in [Pages -> PipeType]
  /\ ofile \in [Procs -> [Fds -> 0..NFILE]]
  /\ pc \in [Procs -> Labels]
  /\ loc \in [Procs -> LocType]
  /\ killed \in [Procs -> BOOLEAN]
  /\ iref \in Nat

\* The reference count of a struct file is the number of descriptors that
\* point to it, plus one while pipealloc() holds it: filealloc(), filedup()
\* and fileclose() of all processes keep it exact through failed calls,
\* fork() and exit().
RefExact ==
  \A f \in Files :
    ftable[f].ref = Cardinality({d \in Procs \X Fds : ofile[d[1]][d[2]] = f})
                    + Cardinality({p \in Procs : pc[p] = "pipealloc" /\ loc[p].f = f})

\* Who keeps an end of the pipe in page k open: a struct file, or a process
\* between fileclose()'s two halves.
Enders(k, w) ==
  {f \in Files : ftable[f].ref > 0 /\ ftable[f].type = "PIPE"
                 /\ ftable[f].page = k /\ ftable[f].writable = w}
  \union {p \in Procs : pc[p] \in {"close", "exitclose"} /\ loc[p].page = k
                        /\ loc[p].writable = w}

\* An end of a pipe is marked open exactly while somebody is left to close
\* it, and a page given back by pipeclose() is referred to by nobody: no
\* double close, no use after kfree(), no end that stays open for ever.
PipeEnds ==
  \A k \in Pages :
    /\ Cardinality(Enders(k, FALSE)) = (IF pipes[k].readopen THEN 1 ELSE 0)
    /\ Cardinality(Enders(k, TRUE)) = (IF pipes[k].writeopen THEN 1 ELSE 0)
    /\ pipes[k].page <=> pipes[k].readopen \/ pipes[k].writeopen

\* Unless kill() hits a writer inside pipewrite() (it fills the pipe and then
\* returns without waking the readers), no wakeup is lost: a reader sleeps
\* only in front of an empty pipe that can still be written, a writer only in
\* front of a full one that can still be read (the sleeps of piperead() and
\* pipewrite()).
SleepersRight ==
  \A p \in Procs :
    /\ pc[p] = "rsleep" => Empty(ThisPipe(p)) /\ ThisPipe(p).writeopen
    /\ pc[p] = "wsleep" => Full(ThisPipe(p)) /\ ThisPipe(p).readopen

\* In every state that the counters of a pipe reach, across their overflow
\* and whatever the bytes are, the loop of pipewrite() adds its bytes in order
\* behind those in the pipe and never over them, until the pipe is full, and
\* the loop of piperead() returns the oldest ones, as many as there are.
FifoOrder ==
  \A k \in Pages, d \in [0..(PIPESIZE - 1) -> Bytes] :
    LET q == [pipes[k] EXCEPT !.data = d] IN
      /\ Used(q) <= PIPESIZE
      /\ \A s \in Payloads :
           /\ Content(Fill(q, s).pipe) \o Fill(q, s).rest = Content(q) \o s
           /\ Fill(q, s).rest # <<>> => Full(Fill(q, s).pipe)
      /\ \A n \in 1..MaxLen :
           /\ Drain(q, n).got \o Content(Drain(q, n).pipe) = Content(q)
           /\ Len(Drain(q, n).got) = n \/ Empty(Drain(q, n).pipe)

\* The references on an inode are those of the open files and of the
\* processes that are about to iput() it.
InodeHeld ==
  iref = Cardinality({f \in Files : ftable[f].ref > 0 /\ ftable[f].type = "INODE"})
         + Cardinality({p \in Procs : pc[p] \in {"close", "exitclose"} /\ loc[p].page = 0})

\* What is open is what somebody can still close: struct files, ends of pipes
\* and inodes live exactly as long as a descriptor, or a call half way through
\* pipe() or close(), leads to them.
LifetimesExact == TypeOK /\ RefExact /\ PipeEnds /\ InodeHeld

Reading(p) == pc[p] \in {"piperead", "rempty", "rsleep"}
Writing(p) == pc[p] \in {"pipewrite", "wfull", "wsleep"}

\* When the last write descriptor is closed, also by the exit of a killed
\* process, every reader that waits in piperead() returns; likewise the
\* writers when the last read descriptor is closed.
OtherEndGone ==
  \A p \in Procs :
    ((Reading(p) /\ ~ThisPipe(p).writeopen) \/ (Writing(p) /\ ~ThisPipe(p).readopen))
      ~> ~(Reading(p) \/ Writing(p))

\* A process that is killed, also while it sleeps in piperead(), ends.
KilledEnds == \A p \in Procs : killed[p] ~> pc[p] = "unused"
=============================================================================
