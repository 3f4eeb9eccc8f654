------------------------------- MODULE Bcache -------------------------------
(***************************************************************************)
(* The buffer cache (bio.c), the sleep-lock of each buffer (sleeplock.c)   *)
(* and the disk driver with its queue and interrupt (ide.c).  A section    *)
(* under bcache.lock, under a sleep-lock's spinlock or under idelock is    *)
(* one action.                                                             *)
(*                                                                         *)
(* A process reads one block at a time with bread() and may then change it *)
(* and log_write() it (the buffer stays pinned by B_DIRTY), bwrite() it    *)
(* (as a commit does with each logged block), or only look; brelse() ends  *)
(* the use.  Of the data in a buffer, on the disk and on the way between   *)
(* them only one thing is kept: whether it is what was written last to its *)
(* block (TRUE) or something older.                                        *)
(***************************************************************************)
EXTENDS Integers, Sequences, FiniteSets, Functions

CONSTANTS Users,     \* the processes
          DiskBlocks, NoBlock,
          NBUF,
          MaxLogged  \* bound: blocks in the log's header

NoUser == 0

\* A process uses one buffer at a time.
ASSUME BcacheAssumption ==
  /\ IsFiniteSet(Users) /\ NoUser \notin Users /\ NoBlock \notin DiskBlocks
  /\ MaxLogged \in Nat /\ NBUF \in Nat /\ NBUF >= MaxLogged + Cardinality(Users)

VARIABLES buf,      \* the buffers
          lru,      \* their order on the list, most recently used first
          disk,     \* is the block on disk the version that was written last
          idequeue, \* buffers with a request to the disk
          device,   \* what idestart() has told the disk to do
          header,   \* blocks in the log's header
          at, using \* of each process: where it is, and its buffer

bcacheVars == <<buf, lru, disk, idequeue, device, header, at, using>>

Bufs == 1..NBUF
Idle == [cmd |-> "none", block |-> NoBlock, data |-> FALSE]

FreeBuf == [block |-> NoBlock, valid |-> FALSE, dirty |-> FALSE, refcnt |-> 0, holder |-> NoUser, data |-> FALSE]
----------------------------------------------------------------------------
Cached(b) == {i \in Bufs : buf[i].block = b}

Recyclable_NotUsed(i) == buf[i].refcnt = 0
Recyclable(i) == buf[i].refcnt = 0 /\ ~buf[i].dirty

\* The positions on the list at which bget() finds a buffer to recycle; it
\* takes the last.
Victims == {k \in 1..NBUF : Recyclable(lru[k])}

\* bget() up to acquiresleep().
Bget(p) ==
  /\ at[p] = "idle"
  /\ \E b \in DiskBlocks :
       \/ \E i \in Cached(b) :
            /\ buf' = [buf EXCEPT ![i].refcnt = @ + 1]
            /\ using' = [using EXCEPT ![p] = i] /\ at' = [at EXCEPT ![p] = "lock"]
       \/ /\ Cached(b) = {} /\ Victims # {}
          /\ LET i == lru[CHOOSE k \in Victims : \A j \in Victims : j <= k]
             IN  /\ buf' = [buf EXCEPT ![i] = [@ EXCEPT !.block = b, !.valid = FALSE, !.dirty = FALSE, !.refcnt = 1,
                                                    !.data = FALSE]]
                 /\ using' = [using EXCEPT ![p] = i] /\ at' = [at EXCEPT ![p] = "lock"]
       \/ /\ Cached(b) = {} /\ Victims = {}
          /\ at' = [at EXCEPT ![p] = "panic"] /\ UNCHANGED <<buf, using>>
  /\ UNCHANGED <<lru, disk, idequeue, device, header>>

Acquire_NoTest(p) ==
  LET i == using[p]
  IN  /\ at[p] = "lock"
      /\ buf' = [buf EXCEPT ![i].holder = p]
      /\ at' = [at EXCEPT ![p] = IF buf[i].valid THEN "hold" ELSE "iderw"]
      /\ UNCHANGED <<lru, disk, idequeue, device, header, using>>

\* acquiresleep(), and bread()'s test whether the buffer is valid.
Acquire(p) ==
  LET i == using[p]
  IN  /\ at[p] = "lock"
      /\ \/ /\ buf[i].holder # NoUser
            /\ at' = [at EXCEPT ![p] = "asleep"] /\ UNCHANGED buf
         \/ /\ buf[i].holder = NoUser
            /\ buf' = [buf EXCEPT ![i].holder = p]
            /\ at' = [at EXCEPT ![p] = IF buf[i].valid THEN "hold" ELSE "iderw"]
      /\ UNCHANGED <<lru, disk, idequeue, device, header, using>>

\* What idestart(i) tells the disk, with the buffers bs.
Command(bs, i) ==
  [cmd |-> IF bs[i].dirty THEN "write" ELSE "read", block |-> bs[i].block, data |-> bs[i].data]

\* iderw() up to its sleep: the request goes to the end of the queue.
Iderw(p) ==
  LET i == using[p]
  IN  /\ at[p] = "iderw"
      /\ idequeue' = Append(idequeue, i)
      /\ device' = IF idequeue = <<>> THEN Command(buf, i) ELSE device
      /\ at' = [at EXCEPT ![p] = "io"]
      /\ UNCHANGED <<buf, lru, disk, header, using>>

\* The loop of iderw() after a wakeup.
IderwDone(p) ==
  /\ at[p] = "ioawake"
  /\ at' = [at EXCEPT ![p] = IF buf[using[p]].valid /\ ~buf[using[p]].dirty THEN "hold" ELSE "io"]
  /\ UNCHANGED <<buf, lru, disk, idequeue, device, header, using>>

NextCommand(bs, q) == IF q = <<>> THEN Idle ELSE Command(bs, Head(q))

\* A request for buffer i is done: a read takes what the disk was asked for.
Synced(i) ==
  [buf[i] EXCEPT !.valid = TRUE, !.dirty = FALSE,
                 !.data = IF buf[i].dirty THEN @ ELSE disk[device.block]]

\* The disk has done what it was told, and ideintr() handles its interrupt:
\* it takes the first request off the queue, wakes who waits for it and
\* starts the next.
Ideintr ==
  LET i == Head(idequeue)
  IN  /\ device # Idle
      /\ disk' = IF device.cmd = "write" THEN [disk EXCEPT ![device.block] = device.data] ELSE disk
      /\ buf' = [buf EXCEPT ![i] = Synced(i)]
      /\ device' = NextCommand(buf, Tail(idequeue))
      /\ at' = [p \in Users |-> IF at[p] = "io" /\ using[p] = i THEN "ioawake" ELSE at[p]]
      /\ idequeue' = Tail(idequeue)
      /\ UNCHANGED <<lru, header, using>>

\* The caller changes the block and calls log_write(): the buffer is pinned.
LogWrite(p) ==
  LET i == using[p]
      b == buf[i].block
  IN  /\ at[p] = "hold" /\ Cardinality(header \union {b}) <= MaxLogged
      /\ header' = header \union {b}
      /\ buf' = [j \in Bufs |-> IF j = i THEN [buf[i] EXCEPT !.data = TRUE, !.dirty = TRUE]
                              ELSE IF buf[j].block = b THEN [buf[j] EXCEPT !.data = FALSE]
                              ELSE buf[j]]
      /\ disk' = [disk EXCEPT ![b] = FALSE]
      /\ at' = [at EXCEPT ![p] = "brelse"]
      /\ UNCHANGED <<lru, idequeue, device, using>>

\* install_trans() writes a logged block to its place with bwrite().
Bwrite(p) ==
  LET i == using[p]
  IN  /\ at[p] = "hold" /\ buf[i].block \in header
      /\ buf' = [buf EXCEPT ![i].dirty = TRUE]
      /\ header' = header \ {buf[i].block}
      /\ at' = [at EXCEPT ![p] = "iderw"]
      /\ UNCHANGED <<lru, disk, idequeue, device, using>>

Woken_None(i) == {}

\* Who sleeps on the lock of buffer i when it is released.
Woken(i) == {q \in Users : at[q] = "asleep" /\ using[q] = i}

\* The first half of brelse(): releasesleep().
Brelse(p) ==
  LET i == using[p]
  IN  /\ at[p] \in {"hold", "brelse"}
      /\ buf' = [buf EXCEPT ![i].holder = NoUser]
      /\ at' = [q \in Users |-> IF q = p THEN "put" ELSE IF q \in Woken(i) THEN "lock" ELSE at[q]]
      /\ UNCHANGED <<lru, disk, idequeue, device, header, using>>

\* Buffer i comes to the front of the list, and the ones before it move back.
ToFront(i) ==
  LET n == CHOOSE k \in 1..NBUF : lru[k] = i
  IN  [k \in 1..NBUF |-> IF k = 1 THEN i ELSE IF k <= n THEN lru[k - 1] ELSE lru[k]]

\* The second half of brelse(), under bcache.lock.
Put(p) ==
  LET i == using[p]
  IN  /\ at[p] = "put"
      /\ buf' = [buf EXCEPT ![i].refcnt = @ - 1]
      /\ lru' = IF buf[i].refcnt = 1 THEN ToFront(i) ELSE lru
      /\ at' = [at EXCEPT ![p] = "idle"] /\ using' = [using EXCEPT ![p] = 0]
      /\ UNCHANGED <<disk, idequeue, device, header>>

\* kill() makes a sleeper runnable; the loops of acquiresleep() and iderw()
\* test again.
KillWakes(p) ==
  /\ at[p] \in {"asleep", "io"}
  /\ at' = [at EXCEPT ![p] = IF @ = "io" THEN "ioawake" ELSE "lock"]
  /\ UNCHANGED <<buf, lru, disk, idequeue, device, header, using>>
----------------------------------------------------------------------------
\* binit() puts each buffer in front of the ones before.
BcacheInit ==
  /\ buf = [i \in Bufs |-> FreeBuf] /\ lru = [k \in 1..NBUF |-> NBUF + 1 - k]
  /\ disk = [b \in DiskBlocks |-> TRUE]
  /\ idequeue = <<>> /\ device = Idle /\ header = {}
  /\ at = [p \in Users |-> "idle"] /\ using = [p \in Users |-> 0]

BcacheNext ==
  \/ \E p \in Users : \/ Bget(p) \/ Acquire(p) \/ Iderw(p) \/ IderwDone(p)
                      \/ LogWrite(p) \/ Bwrite(p) \/ Brelse(p) \/ Put(p) \/ KillWakes(p)
  \/ Ideintr

BcacheSpec == BcacheInit /\ [][BcacheNext]_bcacheVars
----------------------------------------------------------------------------
InUse == {p \in Users : using[p] # 0}
Holding == {p \in Users : at[p] \in {"hold", "brelse"}}

\* A block is in one buffer at most, and refcnt is the number of processes
\* between bget() and the end of brelse(): no buffer is recycled in use.
BufferPerBlock ==
  /\ \A i, j \in Bufs : i # j /\ buf[i].block = buf[j].block => buf[i].block = NoBlock
  /\ \A i \in Bufs : buf[i].refcnt = Cardinality({p \in Users : using[p] = i})
  /\ Range(lru) = Bufs

\* Whoever has returned from bread() has the buffer alone, valid and with the
\* version of the block that was written last, on whatever CPU and however
\* often the buffer was recycled in between.
ReadsLatest ==
  \A p \in Holding : /\ buf[using[p]].holder = p /\ buf[using[p]].valid
                     /\ buf[using[p]].data
                     /\ \A q \in Holding \ {p} : using[q] # using[p]

\* The last version of a block is on the disk or in a buffer that B_DIRTY
\* pins; a block of the log's header is always in one (bget() must not
\* recycle it, although nobody uses it).
NothingLost ==
  \A b \in DiskBlocks :
    /\ disk[b] \/ \E i \in Cached(b) : buf[i].dirty /\ buf[i].data
    /\ b \in header => \E i \in Cached(b) : buf[i].dirty

\* Who sleeps will be woken: for a lock there is a holder, for the disk the
\* request is on the queue, and the disk works on the first one.
SleepersHaveWaker ==
  /\ \A p \in Users : at[p] = "asleep" => buf[using[p]].holder # NoUser
  /\ \A p \in Users : at[p] = "io" => using[p] \in Range(idequeue)
  /\ IF idequeue = <<>> THEN device = Idle ELSE device = Command(buf, Head(idequeue))

\* bget() finds a buffer as long as the log pins at most MaxLogged of them
\* and there is one more for every process.
BgetFinds == \A p \in Users : at[p] # "panic"

\* Everybody sees one version of a block: it is in one buffer, which bread()
\* returns to one process at a time, with what was written last.
OneVersion == BufferPerBlock /\ ReadsLatest

\* Nobody is stuck in the cache: bget() finds a buffer, and who sleeps for a
\* buffer or for the disk is going to be woken.
CacheMoves == BgetFinds /\ SleepersHaveWaker
=============================================================================
