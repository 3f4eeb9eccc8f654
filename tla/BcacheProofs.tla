---------------------------- MODULE BcacheProofs ----------------------------
(***************************************************************************)
(* Proofs about Bcache for any number of processes, blocks and buffers     *)
(* (with a buffer for each block the log may hold and one for each         *)
(* process): bread() returns the last version of a block to one process at *)
(* a time, no version is lost, and nobody is stuck in the cache.           *)
(***************************************************************************)
EXTENDS Bcache, Counting, FiniteSetTheorems, TLAPS

Buffer == [block : DiskBlocks \cup {NoBlock}, valid : BOOLEAN, dirty : BOOLEAN, refcnt : Nat,
           holder : Users \cup {NoUser}, data : BOOLEAN]
Request == [cmd : {"none", "read", "write"}, block : DiskBlocks \cup {NoBlock}, data : BOOLEAN]
Places == {"idle", "lock", "asleep", "iderw", "io", "ioawake", "hold", "brelse", "put"}

\* Between acquiresleep() and releasesleep(), and after iderw() has queued
\* the request.
Owning == {"iderw", "io", "ioawake", "hold", "brelse"}
Waiting == {"io", "ioawake"}

\* The number of processes that use each buffer.
Uses == [i \in Bufs |-> Cardinality({p \in Users : using[p] = i})]

Queued == {idequeue[n] : n \in 1..Len(idequeue)}

BcacheTypeOK ==
  /\ buf \in [Bufs -> Buffer]
  /\ lru \in [1..NBUF -> Bufs]
  /\ disk \in [DiskBlocks -> BOOLEAN]
  /\ idequeue \in Seq(Bufs)
  /\ device \in Request
  /\ header \in SUBSET DiskBlocks
  /\ at \in [Users -> Places]
  /\ using \in [Users -> Bufs \cup {0}]

\* A block has one buffer, and refcnt counts its users.
BuffersRight ==
  /\ \A i, j \in Bufs : i # j /\ buf[i].block = buf[j].block => buf[i].block = NoBlock
  /\ \A i \in Bufs : buf[i].refcnt = Uses[i]
  /\ \A i \in Bufs : \E k \in 1..NBUF : lru[k] = i

\* A process uses a buffer with a block from bget() to the end of brelse().
UsersRight ==
  \A p \in Users : /\ using[p] = 0 <=> at[p] = "idle"
                   /\ using[p] # 0 => buf[using[p]].block # NoBlock

\* The sleep-lock of a buffer is its user's that is past acquiresleep().
LocksRight ==
  /\ \A p \in Users : at[p] \in Owning => buf[using[p]].holder = p
  /\ \A i \in Bufs : buf[i].holder # NoUser => /\ at[buf[i].holder] \in Owning
                                               /\ using[buf[i].holder] = i
  /\ \A p \in Users : at[p] = "asleep" => buf[using[p]].holder # NoUser

\* A valid buffer has the last version, and one to be written is valid.  It
\* is written because its block is in the log's header, or by its holder.
DataRight ==
  \A i \in Bufs :
    /\ buf[i].valid => buf[i].data
    /\ buf[i].dirty => /\ buf[i].valid
                       /\ \/ buf[i].block \in header
                          \/ buf[i].holder # NoUser /\ at[buf[i].holder] \in {"iderw", "io", "ioawake"}

\* What a process past acquiresleep() knows of its buffer's flags.
FlagsRight ==
  \A p \in Users :
    /\ at[p] \in {"hold", "brelse"} => buf[using[p]].valid
    /\ at[p] = "iderw" => (buf[using[p]].valid => buf[using[p]].dirty)
    /\ at[p] \in {"iderw", "io", "ioawake"} => buf[using[p]].block \notin header
    /\ at[p] \in Waiting /\ using[p] \in Queued => (buf[using[p]].valid => buf[using[p]].dirty)
    /\ at[p] \in Waiting /\ using[p] \notin Queued => buf[using[p]].valid /\ ~buf[using[p]].dirty

\* The queue has the buffers whose holders wait, each once.
QueueRight ==
  /\ \A m, n \in 1..Len(idequeue) : idequeue[m] = idequeue[n] => m = n
  /\ \A i \in Queued : buf[i].holder # NoUser /\ at[buf[i].holder] \in Waiting
  /\ \A p \in Users : at[p] = "io" => using[p] \in Queued
  /\ device = NextCommand(buf, idequeue)

HeaderRight == IsFiniteSet(header) /\ Cardinality(header) <= MaxLogged

BcacheInv ==
  /\ BcacheTypeOK /\ BuffersRight /\ UsersRight /\ LocksRight /\ DataRight
  /\ FlagsRight /\ QueueRight /\ HeaderRight /\ NothingLost
----------------------------------------------------------------------------
\* What one process more, or one less, does to the counts of users.
LEMMA OneMore ==
  ASSUME BcacheTypeOK, NEW p \in Users, NEW i \in Bufs, using[p] = 0,
         using' = [using EXCEPT ![p] = i]
  PROVE  \A j \in Bufs : Uses'[j] = Uses[j] + (IF j = i THEN 1 ELSE 0)
<1>. SUFFICES ASSUME NEW j \in Bufs
              PROVE  Uses'[j] = Uses[j] + (IF j = i THEN 1 ELSE 0)
  OBVIOUS
<1>. USE DEF Uses
<1>. DEFINE S == {q \in Users : using[q] = j}
<1>1. IsFiniteSet(S) /\ Cardinality(S) \in Nat
  BY BcacheAssumption, FS_Subset, FS_CardinalityType, Zenon
<1>2. CASE j = i
  <2>1. {q \in Users : using'[q] = j} = S \cup {p}
    BY <1>2, Zenon DEF BcacheTypeOK
  <2>2. p \notin S
    BY DEF Bufs
  <2>. QED  BY <1>1, <1>2, <2>1, <2>2, FS_AddElement, ZenonT(40)
<1>3. CASE j # i
  <2>1. {q \in Users : using'[q] = j} = S
    BY <1>3 DEF BcacheTypeOK, Bufs
  <2>2. Uses'[j] = Uses[j] /\ Uses[j] \in Nat
    BY <1>1, <2>1, Zenon
  <2>. HIDE DEF Uses
  <2>. QED  BY <1>3, <2>2
<1>. QED  BY <1>2, <1>3, Zenon

LEMMA OneLess ==
  ASSUME BcacheTypeOK, NEW p \in Users, using[p] \in Bufs,
         using' = [using EXCEPT ![p] = 0]
  PROVE  \A j \in Bufs : Uses'[j] = Uses[j] - (IF j = using[p] THEN 1 ELSE 0)
<1>. SUFFICES ASSUME NEW j \in Bufs
              PROVE  Uses'[j] = Uses[j] - (IF j = using[p] THEN 1 ELSE 0)
  OBVIOUS
<1>. USE DEF Uses
<1>. DEFINE S == {q \in Users : using[q] = j}
<1>1. IsFiniteSet(S) /\ Cardinality(S) \in Nat
  BY BcacheAssumption, FS_Subset, FS_CardinalityType, Zenon
<1>2. CASE j = using[p]
  <2>1. {q \in Users : using'[q] = j} = S \ {p}
    BY <1>2 DEF BcacheTypeOK, Bufs
  <2>2. p \in S
    BY <1>2, Zenon
  <2>. QED  BY <1>1, <1>2, <2>1, <2>2, FS_RemoveElement, ZenonT(40)
<1>3. CASE j # using[p]
  <2>1. {q \in Users : using'[q] = j} = S
    BY <1>3 DEF BcacheTypeOK, Bufs
  <2>2. Uses'[j] = Uses[j] /\ Uses[j] \in Nat
    BY <1>1, <2>1, Zenon
  <2>. HIDE DEF Uses
  <2>. QED  BY <1>3, <2>2
<1>. QED  BY <1>2, <1>3, Zenon

\* A buffer that bget() recycles has no user, no holder and no request.
LEMMA RecyclableFree ==
  ASSUME BcacheInv, NEW i \in Bufs, Recyclable(i)
  PROVE  /\ \A p \in Users : using[p] # i
         /\ buf[i].holder = NoUser /\ i \notin Queued
<1>. DEFINE S == {p \in Users : using[p] = i}
<1>1. IsFiniteSet(S)
  BY BcacheAssumption, FS_Subset, Zenon
<1>2. S = {}
  BY <1>1, FS_EmptySet, Zenon DEF BcacheInv, BuffersRight, Recyclable, Uses
<1>3. buf[i].holder = NoUser
  BY <1>2 DEF BcacheInv, LocksRight, BcacheTypeOK, Buffer
<1>4. i \notin Queued
  BY <1>3, Zenon DEF BcacheInv, QueueRight
<1>. QED  BY <1>2, <1>3, <1>4, Zenon

\* The last of the positions bget() may take.
LEMMA VictimTaken ==
  ASSUME BcacheTypeOK, BcacheAssumption, Victims # {}
  PROVE  LET i == lru[CHOOSE k \in Victims : \A j \in Victims : j <= k]
         IN  i \in Bufs /\ Recyclable(i)
<1>1. Victims \subseteq 1..NBUF /\ NBUF \in Nat
  BY BcacheAssumption, Zenon DEF Victims
<1>2. \E k \in Victims : \A j \in Victims : j <= k
  BY <1>1, GreatestNat, Zenon
<1>3. (CHOOSE k \in Victims : \A j \in Victims : j <= k) \in Victims
  BY <1>2, Zenon
<1>. QED  BY <1>1, <1>3, Zenon DEF Victims, BcacheTypeOK

\* bget() finds a buffer: the ones in use are fewer than the processes, the
\* others that are dirty hold different blocks of the log's header.
LEMMA VictimsThere ==
  ASSUME BcacheInv, NEW p \in Users, at[p] = "idle"
  PROVE  Victims # {}
<1>. SUFFICES ASSUME Victims = {} PROVE FALSE
  OBVIOUS
<1>. DEFINE U == {q \in Users : using[q] # 0}
            A == {i \in Bufs : \E q \in Users : using[q] = i}
            B == {i \in Bufs : buf[i].dirty /\ buf[i].block \in header}
<1>1. Bufs = A \cup B
  <2>. SUFFICES ASSUME NEW i \in Bufs, i \notin A, i \notin B
                PROVE  FALSE
    OBVIOUS
  <2>1. {q \in Users : using[q] = i} = {}
    OBVIOUS
  <2>2. buf[i].refcnt = 0
    BY <2>1, FS_EmptySet, Zenon DEF BcacheInv, BuffersRight, Uses
  <2>3. buf[i].holder = NoUser
    BY <2>1 DEF BcacheInv, LocksRight, BcacheTypeOK, Buffer
  <2>4. ~buf[i].dirty
    BY <2>3, Zenon DEF BcacheInv, DataRight
  <2>5. PICK k \in 1..NBUF : lru[k] = i
    BY Zenon DEF BcacheInv, BuffersRight
  <2>. QED  BY <2>2, <2>4, <2>5, Zenon DEF Victims, Recyclable
<1>2. IsFiniteSet(U) /\ Cardinality(U) <= Cardinality(Users) - 1
  <2>1. U \subseteq Users \ {p}
    BY Zenon DEF BcacheInv, UsersRight
  <2>2. IsFiniteSet(Users \ {p}) /\ Cardinality(Users \ {p}) = Cardinality(Users) - 1
    BY BcacheAssumption, FS_RemoveElement, Zenon
  <2>. QED  BY <2>1, <2>2, FS_Subset
<1>3. IsFiniteSet(A) /\ Cardinality(A) <= Cardinality(U)
  <2>. DEFINE f == [q \in U |-> using[q]]
  <2>1. f \in Surjection(U, A)
    <3>1. f \in [U -> A]
      BY Zenon DEF BcacheInv, BcacheTypeOK
    <3>2. \A i \in A : \E q \in U : f[q] = i
      BY DEF Bufs
    <3>. QED  BY <3>1, <3>2, Zenon DEF Surjection
  <2>. QED  BY <1>2, <2>1, FS_Surjection, Zenon
<1>4. IsFiniteSet(B) /\ Cardinality(B) <= MaxLogged
  <2>. DEFINE g == [i \in B |-> buf[i].block]
  <2>1. g \in Injection(B, header)
    <3>1. g \in [B -> header]
      OBVIOUS
    <3>2. \A i, j \in B : g[i] = g[j] => i = j
      BY BcacheAssumption, Zenon DEF BcacheInv, BuffersRight, BcacheTypeOK
    <3>. QED  BY <3>1, <3>2, Zenon DEF Injection, IsInjective
  <2>2. IsFiniteSet(header) /\ Cardinality(header) \in Nat /\ Cardinality(header) <= MaxLogged
    BY FS_CardinalityType, Zenon DEF BcacheInv, HeaderRight
  <2>3. IsFiniteSet(B) /\ Cardinality(B) <= Cardinality(header)
    BY <2>1, <2>2, FS_Injection, Zenon
  <2>4. Cardinality(B) \in Nat
    BY <2>3, FS_CardinalityType, Zenon
  <2>. QED  BY <2>2, <2>3, <2>4, BcacheAssumption
<1>5. Cardinality(A \cup B) <= Cardinality(A) + Cardinality(B)
  <2>1. IsFiniteSet(A \cap B)
    BY <1>3, FS_Intersection, Zenon
  <2>2. Cardinality(A \cup B) = Cardinality(A) + Cardinality(B) - Cardinality(A \cap B)
    BY <1>3, <1>4, FS_Union, Zenon
  <2>3. Cardinality(A) \in Nat /\ Cardinality(B) \in Nat /\ Cardinality(A \cap B) \in Nat
    BY <1>3, <1>4, <2>1, FS_CardinalityType, Zenon
  <2>. QED  BY <2>2, <2>3
<1>6. Cardinality(Bufs) = NBUF
  BY BcacheAssumption, FS_Interval DEF Bufs
<1>7. Cardinality(U) \in Nat /\ Cardinality(A) \in Nat /\ Cardinality(B) \in Nat /\ Cardinality(Users) \in Nat
  BY <1>2, <1>3, <1>4, FS_CardinalityType, BcacheAssumption, Zenon
<1>. HIDE DEF A, B, U
<1>. QED  BY <1>1, <1>2, <1>3, <1>4, <1>5, <1>6, <1>7, BcacheAssumption
----------------------------------------------------------------------------
\* The disk's command stays right if the first request's buffer does.
LEMMA SameCommand ==
  ASSUME BcacheTypeOK, QueueRight, UNCHANGED <<idequeue, device>>,
         \A i \in Queued : /\ buf'[i].block = buf[i].block
                           /\ buf'[i].dirty = buf[i].dirty
                           /\ buf'[i].data = buf[i].data
  PROVE  device' = NextCommand(buf', idequeue')
<1>1. CASE idequeue = <<>>
  BY <1>1, Zenon DEF QueueRight, NextCommand
<1>2. CASE idequeue # <<>>
  <2>1. Head(idequeue) \in Queued
    BY <1>2 DEF BcacheTypeOK, Queued
  <2>. QED  BY <1>2, <2>1, Zenon DEF QueueRight, NextCommand, Command
<1>. QED  BY <1>1, <1>2, Zenon

\* A step of a process that does not wait for the disk leaves the queue right
\* when it leaves the queued buffers alone.
LEMMA QueueKept ==
  ASSUME BcacheTypeOK, QueueRight, UNCHANGED <<idequeue, device>>,
         NEW p \in Users, at[p] \notin Waiting, at'[p] \notin Waiting,
         \A q \in Users : q # p => at'[q] = at[q] /\ using'[q] = using[q],
         \A i \in Queued : /\ buf'[i].block = buf[i].block /\ buf'[i].dirty = buf[i].dirty
                           /\ buf'[i].data = buf[i].data /\ buf'[i].holder = buf[i].holder
  PROVE  QueueRight'
<1>1. device' = NextCommand(buf', idequeue')
  BY SameCommand, Zenon
<1>2. idequeue' = idequeue /\ Queued' = Queued
  BY Zenon DEF Queued
<1>3. \A m, n \in 1..Len(idequeue') : idequeue'[m] = idequeue'[n] => m = n
  <2>1. \A m, n \in 1..Len(idequeue) : idequeue[m] = idequeue[n] => m = n
    BY Zenon DEF QueueRight
  <2>. QED  BY <1>2, <2>1
<1>4. Queued \subseteq Bufs
  BY DEF Queued, BcacheTypeOK
<1>5. ASSUME NEW i \in Queued PROVE buf'[i].holder # NoUser /\ at'[buf'[i].holder] \in Waiting
  <2>1. buf[i].holder # NoUser /\ at[buf[i].holder] \in Waiting /\ buf[i] \in Buffer
    BY <1>4, Zenon DEF QueueRight, BcacheTypeOK
  <2>2. buf[i].holder \in Users
    BY <2>1 DEF Buffer
  <2>3. buf[i].holder # p
    BY <2>1, Zenon
  <2>. QED  BY <2>1, <2>2, <2>3, Zenon
<1>6. ASSUME NEW q \in Users, at'[q] = "io" PROVE using'[q] \in Queued
  <2>1. q # p
    BY <1>6 DEF Waiting
  <2>. QED  BY <1>6, <2>1, Zenon DEF QueueRight
<1>. QED  BY <1>1, <1>2, <1>3, <1>5, <1>6, Zenon DEF QueueRight

LEMMA BgetStep ==
  ASSUME BcacheInv, NEW p \in Users, Bget(p)
  PROVE  BcacheInv'
<1>. USE DEF BcacheInv
<1>1. PICK b \in DiskBlocks :
        \/ \E i \in Cached(b) :
             /\ buf' = [buf EXCEPT ![i].refcnt = @ + 1]
             /\ using' = [using EXCEPT ![p] = i] /\ at' = [at EXCEPT ![p] = "lock"]
        \/ \E i \in Bufs :
             /\ Cached(b) = {} /\ Recyclable(i)
             /\ buf' = [buf EXCEPT ![i] = [@ EXCEPT !.block = b, !.valid = FALSE, !.dirty = FALSE, !.refcnt = 1,
                                                   !.data = FALSE]]
             /\ using' = [using EXCEPT ![p] = i] /\ at' = [at EXCEPT ![p] = "lock"]
  BY BcacheAssumption, VictimsThere, VictimTaken, Zenon DEF Bget
<1>2. at[p] = "idle" /\ using[p] = 0 /\ UNCHANGED <<lru, disk, idequeue, device, header>>
  BY Zenon DEF Bget, UsersRight
<1>3. CASE \E i \in Cached(b) : /\ buf' = [buf EXCEPT ![i].refcnt = @ + 1]
                                /\ using' = [using EXCEPT ![p] = i] /\ at' = [at EXCEPT ![p] = "lock"]
  <2>1. PICK i \in Bufs : /\ buf[i].block = b /\ b # NoBlock
                          /\ buf' = [buf EXCEPT ![i].refcnt = @ + 1]
                          /\ using' = [using EXCEPT ![p] = i] /\ at' = [at EXCEPT ![p] = "lock"]
    BY <1>3, BcacheAssumption, Zenon DEF Cached
  <2>2. BcacheTypeOK'
    <3>a. buf[i] \in Buffer
      BY Zenon DEF BcacheTypeOK
    <3>0. [buf[i] EXCEPT !.refcnt = @ + 1] \in Buffer
      BY <3>a DEF Buffer
    <3>1. buf' \in [Bufs -> Buffer]
      BY <2>1, <3>0, Zenon DEF BcacheTypeOK
    <3>. QED  BY <1>2, <2>1, <3>1, Zenon DEF BcacheTypeOK, Places
  <2>3. /\ buf'[i] = [buf[i] EXCEPT !.refcnt = @ + 1]
        /\ \A j \in Bufs : j # i => buf'[j] = buf[j]
        /\ \A j \in Bufs : /\ buf'[j].block = buf[j].block /\ buf'[j].valid = buf[j].valid
                           /\ buf'[j].dirty = buf[j].dirty /\ buf'[j].data = buf[j].data
                           /\ buf'[j].holder = buf[j].holder
    <3>1. buf'[i] = [buf[i] EXCEPT !.refcnt = @ + 1] /\ buf[i] \in Buffer
      BY <2>1, Zenon DEF BcacheTypeOK
    <3>2. \A j \in Bufs : j # i => buf'[j] = buf[j]
      BY <2>1, Zenon DEF BcacheTypeOK
    <3>. QED  BY <3>1, <3>2 DEF Buffer
  <2>4. BuffersRight'
    <3>1. \A j \in Bufs : buf'[j].refcnt = buf[j].refcnt + (IF j = i THEN 1 ELSE 0)
      BY <2>3 DEF BcacheTypeOK, Buffer
    <3>2. \A j \in Bufs : buf'[j].refcnt = Uses'[j]
      <4>1. \A j \in Bufs : Uses'[j] = Uses[j] + (IF j = i THEN 1 ELSE 0)
        BY <1>2, <2>1, OneMore, Zenon
      <4>2. \A j \in Bufs : buf[j].refcnt = Uses[j]
        BY Zenon DEF BuffersRight
      <4>. QED  BY <3>1, <4>1, <4>2, Zenon
    <3>. QED  BY <1>2, <2>3, <3>2 DEF BuffersRight
  <2>5. UsersRight'
    BY <2>1, <2>3 DEF UsersRight, BcacheTypeOK, Bufs
  <2>6. LocksRight'
    BY <1>2, <2>1, <2>3 DEF LocksRight, BcacheTypeOK, Buffer, Owning
  <2>7. DataRight'
    BY <1>2, <2>1, <2>3 DEF DataRight, BcacheTypeOK, LocksRight, Owning, Buffer
  <2>8. FlagsRight'
    BY <1>2, <2>1, <2>3 DEF FlagsRight, BcacheTypeOK, Waiting, Queued
  <2>9. QueueRight'
    <3>1. at[p] \notin Waiting /\ at'[p] \notin Waiting
      BY <1>2, <2>1 DEF Waiting, BcacheTypeOK
    <3>2. \A q \in Users : q # p => at'[q] = at[q] /\ using'[q] = using[q]
      BY <2>1, Zenon DEF BcacheTypeOK
    <3>3. \A j \in Queued : /\ buf'[j].block = buf[j].block /\ buf'[j].dirty = buf[j].dirty
                            /\ buf'[j].data = buf[j].data /\ buf'[j].holder = buf[j].holder
      <4>1. Queued \subseteq Bufs
        BY DEF Queued, BcacheTypeOK
      <4>. QED  BY <4>1, <2>3
    <3>. QED  BY <1>2, <3>1, <3>2, <3>3, QueueKept, Zenon
  <2>10. HeaderRight' /\ NothingLost'
    BY <1>2, <2>3 DEF HeaderRight, NothingLost, Cached
  <2>. QED  BY <2>2, <2>4, <2>5, <2>6, <2>7, <2>8, <2>9, <2>10, Zenon
<1>4. CASE \E i \in Bufs :
             /\ Cached(b) = {} /\ Recyclable(i)
             /\ buf' = [buf EXCEPT ![i] = [@ EXCEPT !.block = b, !.valid = FALSE, !.dirty = FALSE, !.refcnt = 1,
                                                   !.data = FALSE]]
             /\ using' = [using EXCEPT ![p] = i] /\ at' = [at EXCEPT ![p] = "lock"]
  <2>1. PICK i \in Bufs :
             /\ Cached(b) = {} /\ Recyclable(i) /\ b # NoBlock
             /\ buf' = [buf EXCEPT ![i] = [@ EXCEPT !.block = b, !.valid = FALSE, !.dirty = FALSE, !.refcnt = 1,
                                                   !.data = FALSE]]
             /\ using' = [using EXCEPT ![p] = i] /\ at' = [at EXCEPT ![p] = "lock"]
    BY <1>4, BcacheAssumption, Zenon
  <2>2. BcacheTypeOK'
    <3>1. buf' \in [Bufs -> Buffer]
      BY <2>1, ZenonT(40) DEF BcacheTypeOK, Buffer
    <3>. QED  BY <1>2, <2>1, <3>1, Zenon DEF BcacheTypeOK, Places
  <2>3. /\ buf'[i].block = b /\ ~buf'[i].valid /\ ~buf'[i].dirty /\ buf'[i].refcnt = 1
        /\ buf'[i].holder = buf[i].holder
        /\ \A j \in Bufs : j # i => buf'[j] = buf[j]
    <3>1. /\ buf'[i] = [buf[i] EXCEPT !.block = b, !.valid = FALSE, !.dirty = FALSE, !.refcnt = 1, !.data = FALSE]
          /\ buf[i] \in Buffer
      BY <2>1, Zenon DEF BcacheTypeOK
    <3>2. \A j \in Bufs : j # i => buf'[j] = buf[j]
      BY <2>1, Zenon DEF BcacheTypeOK
    <3>. QED  BY <3>1, <3>2, Zenon DEF Buffer
  <2>a. /\ \A q \in Users : using[q] # i
        /\ buf[i].holder = NoUser /\ i \notin Queued
    BY <2>1, RecyclableFree, Zenon
  <2>4. BuffersRight'
    <3>3. \A j \in Bufs : buf'[j].refcnt = buf[j].refcnt + (IF j = i THEN 1 ELSE 0)
      BY <2>1, <2>3 DEF BcacheTypeOK, Buffer, Recyclable
    <3>1. \A j \in Bufs : buf'[j].refcnt = Uses'[j]
      <4>1. \A j \in Bufs : Uses'[j] = Uses[j] + (IF j = i THEN 1 ELSE 0)
        BY <1>2, <2>1, OneMore, Zenon
      <4>2. \A j \in Bufs : buf[j].refcnt = Uses[j]
        BY Zenon DEF BuffersRight
      <4>. QED  BY <3>3, <4>1, <4>2, Zenon
    <3>2. \A j, k \in Bufs : j # k /\ buf'[j].block = buf'[k].block => buf'[j].block = NoBlock
      BY <2>1, <2>3 DEF BuffersRight, Cached
    <3>. QED  BY <1>2, <3>1, <3>2, Zenon DEF BuffersRight
  <2>5. UsersRight'
    BY <2>1, <2>3, <2>a DEF UsersRight, BcacheTypeOK, Bufs
  <2>6. LocksRight'
    BY <1>2, <2>1, <2>3, <2>a DEF LocksRight, BcacheTypeOK, Buffer, Owning, UsersRight
  <2>7. DataRight'
    BY <1>2, <2>1, <2>3, <2>a DEF DataRight, BcacheTypeOK, LocksRight, Owning, Buffer
  <2>8. FlagsRight'
    BY <1>2, <2>1, <2>3, <2>a DEF FlagsRight, BcacheTypeOK, Waiting, Queued, UsersRight
  <2>9. QueueRight'
    <3>1. at[p] \notin Waiting /\ at'[p] \notin Waiting
      BY <1>2, <2>1 DEF Waiting, BcacheTypeOK
    <3>2. \A q \in Users : q # p => at'[q] = at[q] /\ using'[q] = using[q]
      BY <2>1, Zenon DEF BcacheTypeOK
    <3>3. \A j \in Queued : /\ buf'[j].block = buf[j].block /\ buf'[j].dirty = buf[j].dirty
                            /\ buf'[j].data = buf[j].data /\ buf'[j].holder = buf[j].holder
      <4>1. Queued \subseteq Bufs
        BY DEF Queued, BcacheTypeOK
      <4>. QED  BY <4>1, <2>3, <2>a
    <3>. QED  BY <1>2, <3>1, <3>2, <3>3, QueueKept, Zenon
  <2>10. HeaderRight' /\ NothingLost'
    BY <1>2, <2>1, <2>3 DEF HeaderRight, NothingLost, Cached, Recyclable
  <2>. QED  BY <2>2, <2>4, <2>5, <2>6, <2>7, <2>8, <2>9, <2>10, Zenon
<1>. QED  BY <1>1, <1>3, <1>4, Zenon

\* A process that is not idle has a buffer.
LEMMA UsesBuffer ==
  ASSUME BcacheInv, NEW p \in Users, at[p] # "idle"
  PROVE  using[p] \in Bufs /\ using[p] # 0 /\ buf[using[p]] \in Buffer
BY Zenon DEF BcacheInv, UsersRight, BcacheTypeOK

\* Who holds a buffer is one of its users.
LEMMA HoldersUse ==
  ASSUME BcacheInv
  PROVE  \A i \in Bufs : buf[i].holder = NoUser \/ /\ buf[i].holder \in Users /\ at[buf[i].holder] \in Owning
                                                   /\ using[buf[i].holder] = i
BY DEF BcacheInv, LocksRight, BcacheTypeOK, Buffer

\* Nothing but where the processes are changes, and the locks of the buffers.
LEMMA AcquireStep ==
  ASSUME BcacheInv, NEW p \in Users, Acquire(p)
  PROVE  BcacheInv'
<1>. USE DEF BcacheInv
<1>. DEFINE i == using[p]
<1>1. /\ at[p] = "lock" /\ i \in Bufs /\ buf[i] \in Buffer
      /\ UNCHANGED <<lru, disk, idequeue, device, header, using>>
  BY UsesBuffer, Zenon DEF Acquire
<1>2. CASE buf[i].holder # NoUser /\ at' = [at EXCEPT ![p] = "asleep"] /\ UNCHANGED buf
  <2>1. BcacheTypeOK'
    BY <1>1, <1>2, Zenon DEF BcacheTypeOK, Places
  <2>2. BuffersRight' /\ UsersRight' /\ HeaderRight' /\ NothingLost'
    BY <1>1, <1>2 DEF BuffersRight, UsersRight, HeaderRight, NothingLost, Cached, Uses, BcacheTypeOK
  <2>3. LocksRight'
    BY <1>1, <1>2 DEF LocksRight, BcacheTypeOK, Owning
  <2>4. DataRight'
    BY <1>1, <1>2 DEF DataRight, LocksRight, Owning, BcacheTypeOK
  <2>5. FlagsRight'
    BY <1>1, <1>2 DEF FlagsRight, Waiting, Queued, BcacheTypeOK
  <2>6. QueueRight'
    <3>1. at[p] \notin Waiting /\ at'[p] \notin Waiting
      BY <1>1, <1>2 DEF Waiting, BcacheTypeOK
    <3>2. \A q \in Users : q # p => at'[q] = at[q] /\ using'[q] = using[q]
      BY <1>1, <1>2, Zenon DEF BcacheTypeOK
    <3>. QED  BY <1>1, <1>2, <3>1, <3>2, QueueKept, Zenon
  <2>. QED  BY <2>1, <2>2, <2>3, <2>4, <2>5, <2>6, Zenon
<1>3. CASE /\ buf[i].holder = NoUser /\ buf' = [buf EXCEPT ![i].holder = p]
           /\ at' = [at EXCEPT ![p] = IF buf[i].valid THEN "hold" ELSE "iderw"]
  <2>1. /\ buf'[i] = [buf[i] EXCEPT !.holder = p]
        /\ \A j \in Bufs : j # i => buf'[j] = buf[j]
    BY <1>1, <1>3, Zenon DEF BcacheTypeOK
  <2>2. /\ buf'[i].holder = p /\ buf'[i] \in Buffer
        /\ \A j \in Bufs : /\ buf'[j].block = buf[j].block /\ buf'[j].valid = buf[j].valid
                           /\ buf'[j].dirty = buf[j].dirty /\ buf'[j].data = buf[j].data
                           /\ buf'[j].refcnt = buf[j].refcnt
                           /\ j # i => buf'[j].holder = buf[j].holder
    BY <1>1, <2>1 DEF Buffer
  <2>3. BcacheTypeOK'
    <3>1. buf' \in [Bufs -> Buffer]
      BY <1>1, <1>3, <2>1, <2>2, Zenon DEF BcacheTypeOK
    <3>. QED  BY <1>1, <1>3, <3>1, Zenon DEF BcacheTypeOK, Places
  <2>4. /\ at'[p] \in Owning /\ \A q \in Users : q # p => at'[q] = at[q]
        /\ at'[p] = IF buf[i].valid THEN "hold" ELSE "iderw"
    BY <1>3, Zenon DEF BcacheTypeOK, Owning
  <2>5. BuffersRight' /\ HeaderRight' /\ NothingLost'
    <3>1. Uses' = Uses
      BY <1>1, Zenon DEF Uses
    <3>. HIDE DEF i
    <3>2. BuffersRight'
      BY <1>1, <2>2, <3>1 DEF BuffersRight
    <3>3. NothingLost'
      BY <1>1, <2>2 DEF NothingLost, Cached
    <3>. QED  BY <1>1, <3>2, <3>3, Zenon DEF HeaderRight
  <2>6. UsersRight'
    <3>. SUFFICES ASSUME NEW q \in Users
                  PROVE  /\ using[q] = 0 <=> at'[q] = "idle"
                         /\ using[q] # 0 => buf'[using[q]].block # NoBlock
      BY <1>1, Zenon DEF UsersRight
    <3>1. using[q] \in Bufs \cup {0}
      BY Zenon DEF BcacheTypeOK
    <3>. QED  BY <1>1, <2>2, <2>4, <3>1, ZenonT(40) DEF UsersRight, Owning
  <2>7. LocksRight'
    BY <1>1, <1>3, <2>2, <2>4, BcacheAssumption DEF LocksRight, BcacheTypeOK, Buffer, NoUser
  <2>8. DataRight'
    BY <1>1, <1>3, <2>2, <2>4 DEF DataRight, BcacheTypeOK, LocksRight, Buffer
  <2>9. FlagsRight'
    <3>1. Queued' = Queued
      BY <1>1, Zenon DEF Queued
    <3>2. \A q \in Users : at[q] # "idle" => using[q] \in Bufs
      BY UsesBuffer, Zenon
    <3>3. ~buf[i].valid => buf[i].block \notin header
      <4>1. buf[i].block # NoBlock
        BY <1>1, Zenon DEF UsersRight
      <4>2. \A j \in Bufs : buf[j].block = buf[i].block => j = i
        BY <1>1, <4>1, Zenon DEF BuffersRight
      <4>3. ~buf[i].valid => ~buf[i].dirty
        BY <1>1, Zenon DEF DataRight
      <4>4. buf[i].block \in DiskBlocks
        BY <1>1, <4>1, Zenon DEF Buffer
      <4>. QED  BY <1>1, <4>2, <4>3, <4>4, Zenon DEF NothingLost, Cached
    <3>. QED  BY <1>1, <2>2, <2>4, <3>1, <3>2, <3>3, SMTT(30) DEF FlagsRight, Waiting
  <2>10. QueueRight'
    <3>1. i \notin Queued
      BY <1>3, Zenon DEF QueueRight
    <3>2. device' = NextCommand(buf', idequeue')
      BY <1>1, <2>2, SameCommand DEF BcacheTypeOK, Queued
    <3>3. Queued' = Queued /\ Queued \subseteq Bufs
      BY <1>1 DEF Queued, BcacheTypeOK
    <3>4. \A j \in Queued : buf'[j].holder # NoUser /\ at'[buf'[j].holder] \in Waiting
      <4>1. \A j \in Queued : buf[j].holder \in Users /\ buf[j].holder # NoUser /\ at[buf[j].holder] \in Waiting
        BY <3>3, Zenon DEF QueueRight, BcacheTypeOK, Buffer
      <4>2. \A j \in Queued : buf'[j].holder = buf[j].holder
        BY <2>2, <3>1, <3>3, Zenon
      <4>. QED  BY <1>1, <2>4, <4>1, <4>2, Zenon DEF Waiting
    <3>5. \A q \in Users : at'[q] = "io" => using'[q] \in Queued'
      BY <1>1, <2>4, <3>3, Zenon DEF QueueRight
    <3>. QED  BY <1>1, <3>2, <3>3, <3>4, <3>5, Zenon DEF QueueRight
  <2>. QED  BY <2>3, <2>5, <2>6, <2>7, <2>8, <2>9, <2>10, Zenon
<1>. QED  BY <1>2, <1>3, Zenon DEF Acquire

LEMMA IderwStep ==
  ASSUME BcacheInv, NEW p \in Users, Iderw(p)
  PROVE  BcacheInv'
<1>. USE DEF BcacheInv
<1>. DEFINE i == using[p]
<1>1. /\ at[p] = "iderw" /\ i \in Bufs /\ buf[i] \in Buffer
      /\ UNCHANGED <<buf, lru, disk, header, using>>
  BY UsesBuffer, Zenon DEF Iderw
<1>2. /\ idequeue' = Append(idequeue, i) /\ at' = [at EXCEPT ![p] = "io"]
      /\ device' = IF idequeue = <<>> THEN Command(buf, i) ELSE device
  BY Zenon DEF Iderw
<1>3. i \notin Queued
  BY <1>1, Zenon DEF QueueRight, LocksRight, Owning, Waiting
<1>4. /\ idequeue' \in Seq(Bufs) /\ Len(idequeue') = Len(idequeue) + 1
      /\ \A n \in 1..Len(idequeue) : idequeue'[n] = idequeue[n]
      /\ idequeue'[Len(idequeue) + 1] = i /\ Len(idequeue) \in Nat
  BY <1>1, <1>2 DEF BcacheTypeOK
<1>5. Queued' = Queued \cup {i}
  BY <1>4 DEF Queued
<1>6. /\ at'[p] = "io" /\ \A q \in Users : q # p => at'[q] = at[q]
  BY <1>2, Zenon DEF BcacheTypeOK
<1>7. buf[i].holder = p /\ p # NoUser
  BY <1>1, BcacheAssumption, Zenon DEF LocksRight, Owning
<1>8. BcacheTypeOK'
  <2>1. device' \in Request
    BY <1>1, <1>2, Zenon DEF BcacheTypeOK, Request, Command, Buffer
  <2>. QED  BY <1>1, <1>2, <1>4, <2>1, Zenon DEF BcacheTypeOK, Places
<1>9. BuffersRight' /\ HeaderRight' /\ NothingLost'
  BY <1>1 DEF BuffersRight, HeaderRight, NothingLost, Cached, Uses
<1>10. UsersRight'
  BY <1>1, <1>6, Zenon DEF UsersRight, BcacheTypeOK
<1>11. LocksRight'
  <2>1. \A q \in Users : /\ at'[q] \in Owning <=> at[q] \in Owning
                         /\ at'[q] = "asleep" => at[q] = "asleep"
    BY <1>1, <1>6 DEF Owning
  <2>2. \A j \in Bufs : buf[j].holder # NoUser => buf[j].holder \in Users
    BY HoldersUse, Zenon
  <2>. QED  BY <1>1, <2>1, <2>2, Zenon DEF LocksRight
<1>12. DataRight'
  BY <1>1, <1>6, ZenonT(40) DEF DataRight, BcacheTypeOK, Buffer
<1>13. FlagsRight'
  <2>. SUFFICES ASSUME NEW q \in Users
                PROVE  /\ at'[q] \in {"hold", "brelse"} => buf[using[q]].valid
                       /\ at'[q] = "iderw" => (buf[using[q]].valid => buf[using[q]].dirty)
                       /\ at'[q] \in {"iderw", "io", "ioawake"} => buf[using[q]].block \notin header
                       /\ at'[q] \in Waiting /\ using[q] \in Queued' => (buf[using[q]].valid => buf[using[q]].dirty)
                       /\ at'[q] \in Waiting /\ using[q] \notin Queued' => buf[using[q]].valid /\ ~buf[using[q]].dirty
    BY <1>1, Zenon DEF FlagsRight
  <2>1. CASE q = p
    BY <1>1, <1>5, <1>6, <2>1, Zenon DEF FlagsRight
  <2>2. CASE q # p
    <3>1. at[q] \in Waiting => using[q] # i
      BY <1>7, <2>2, Zenon DEF LocksRight, Waiting, Owning
    <3>. QED  BY <1>5, <1>6, <2>2, <3>1, Zenon DEF FlagsRight
  <2>. QED  BY <2>1, <2>2, Zenon
<1>14. QueueRight'
  <2>1. \A m, n \in 1..Len(idequeue') : idequeue'[m] = idequeue'[n] => m = n
    BY <1>3, <1>4 DEF QueueRight, Queued
  <2>2. \A j \in Queued' : buf'[j].holder # NoUser /\ at'[buf'[j].holder] \in Waiting
    <3>1. \A j \in Queued : buf[j].holder # NoUser /\ buf[j].holder \in Users /\ at[buf[j].holder] \in Waiting
      BY DEF QueueRight, BcacheTypeOK, Buffer, Queued
    <3>. QED  BY <1>1, <1>5, <1>6, <1>7, <3>1, Zenon DEF Waiting
  <2>3. \A q \in Users : at'[q] = "io" => using'[q] \in Queued'
    BY <1>1, <1>5, <1>6, Zenon DEF QueueRight
  <2>4. device' = NextCommand(buf', idequeue')
    <3>1. idequeue' # <<>> /\ Head(idequeue') = IF idequeue = <<>> THEN i ELSE Head(idequeue)
      BY <1>1, <1>2 DEF BcacheTypeOK
    <3>. QED  BY <1>1, <1>2, <3>1, Zenon DEF QueueRight, NextCommand
  <2>. QED  BY <2>1, <2>2, <2>3, <2>4, Zenon DEF QueueRight
<1>. QED  BY <1>8, <1>9, <1>10, <1>11, <1>12, <1>13, <1>14, Zenon

\* The queued requests are those of holders that wait.
LEMMA QueuedHolders ==
  ASSUME BcacheInv
  PROVE  /\ Queued \subseteq Bufs
         /\ \A j \in Queued : /\ buf[j].holder \in Users /\ buf[j].holder # NoUser
                              /\ at[buf[j].holder] \in Waiting /\ using[buf[j].holder] = j
<1>1. Queued \subseteq Bufs
  BY DEF BcacheInv, BcacheTypeOK, Queued
<1>. QED  BY <1>1 DEF BcacheInv, QueueRight, LocksRight, BcacheTypeOK, Buffer

LEMMA IderwDoneStep ==
  ASSUME BcacheInv, NEW p \in Users, IderwDone(p)
  PROVE  BcacheInv'
<1>. USE DEF BcacheInv
<1>1. /\ at[p] = "ioawake" /\ using[p] \in Bufs /\ buf[using[p]].holder = p
      /\ UNCHANGED <<buf, lru, disk, idequeue, device, header, using>>
  BY UsesBuffer, Zenon DEF IderwDone, LocksRight, Owning
<1>2. /\ at'[p] = IF using[p] \notin Queued THEN "hold" ELSE "io"
      /\ at' \in [Users -> Places] /\ \A q \in Users : q # p => at'[q] = at[q]
  BY <1>1, Zenon DEF IderwDone, BcacheTypeOK, FlagsRight, Waiting, Places
<1>3. Queued' = Queued /\ Uses' = Uses
  BY <1>1, Zenon DEF Queued, Uses
<1>4. BcacheTypeOK'
  BY <1>1, <1>2, Zenon DEF BcacheTypeOK
<1>5. BuffersRight' /\ HeaderRight' /\ NothingLost'
  BY <1>1, <1>3, Zenon DEF BuffersRight, HeaderRight, NothingLost, Cached
<1>6. UsersRight'
  BY <1>1, <1>2, Zenon DEF UsersRight
<1>7. LocksRight'
  BY <1>1, <1>2, HoldersUse, SMTT(30) DEF LocksRight, Owning
<1>8. FlagsRight'
  BY <1>1, <1>2, <1>3, Zenon DEF FlagsRight, Waiting
<1>9. DataRight'
  <2>1. using[p] \notin Queued => ~buf[using[p]].dirty
    BY <1>1, Zenon DEF FlagsRight, Waiting
  <2>2. \A j \in Bufs : buf[j].holder = p => j = using[p]
    BY BcacheAssumption DEF LocksRight
  <2>. QED  BY <1>1, <1>2, <2>1, <2>2, Zenon DEF DataRight, BcacheTypeOK, Buffer
<1>10. QueueRight'
  <2>1. \A j \in Queued : buf[j].holder # NoUser /\ at'[buf[j].holder] \in Waiting
    BY <1>1, <1>2, QueuedHolders DEF Waiting
  <2>2. \A q \in Users : at'[q] = "io" => using[q] \in Queued
    BY <1>1, <1>2, Zenon DEF QueueRight
  <2>. QED  BY <1>1, <1>3, <2>1, <2>2, Zenon DEF QueueRight, NextCommand, Command
<1>. QED  BY <1>4, <1>5, <1>6, <1>7, <1>8, <1>9, <1>10, Zenon

LEMMA KillWakesStep ==
  ASSUME BcacheInv, NEW p \in Users, KillWakes(p)
  PROVE  BcacheInv'
<1>. USE DEF BcacheInv
<1>1. /\ at[p] \in {"asleep", "io"} /\ using[p] \in Bufs
      /\ UNCHANGED <<buf, lru, disk, idequeue, device, header, using>>
  BY UsesBuffer, Zenon DEF KillWakes
<1>2. /\ at'[p] = IF at[p] = "io" THEN "ioawake" ELSE "lock"
      /\ at' \in [Users -> Places] /\ \A q \in Users : q # p => at'[q] = at[q]
  BY <1>1, Zenon DEF KillWakes, BcacheTypeOK, Places
<1>3. Queued' = Queued /\ Uses' = Uses
  BY <1>1, Zenon DEF Queued, Uses
<1>4. BcacheTypeOK'
  BY <1>1, <1>2, Zenon DEF BcacheTypeOK
<1>5. BuffersRight' /\ HeaderRight' /\ NothingLost'
  BY <1>1, <1>3, Zenon DEF BuffersRight, HeaderRight, NothingLost, Cached
<1>6. UsersRight'
  BY <1>1, <1>2, Zenon DEF UsersRight
<1>7. LocksRight'
  BY <1>1, <1>2, HoldersUse, SMTT(30) DEF LocksRight, Owning
<1>8. FlagsRight'
  BY <1>1, <1>2, <1>3, Zenon DEF FlagsRight, Waiting
<1>9. DataRight'
  BY <1>1, <1>2, HoldersUse, Zenon DEF DataRight
<1>10. QueueRight'
  <2>1. \A j \in Queued : buf[j].holder # NoUser /\ at'[buf[j].holder] \in Waiting
    BY <1>1, <1>2, QueuedHolders, Zenon DEF Waiting
  <2>2. \A q \in Users : at'[q] = "io" => using[q] \in Queued
    BY <1>1, <1>2, Zenon DEF QueueRight
  <2>. QED  BY <1>1, <1>3, <2>1, <2>2, Zenon DEF QueueRight, NextCommand, Command
<1>. QED  BY <1>4, <1>5, <1>6, <1>7, <1>8, <1>9, <1>10, Zenon

\* The buffer of a block is the only one.
LEMMA OnlyBuffer ==
  ASSUME BcacheInv, NEW p \in Users, at[p] # "idle"
  PROVE  /\ buf[using[p]].block \in DiskBlocks /\ buf[using[p]].block # NoBlock
         /\ \A j \in Bufs : buf[j].block = buf[using[p]].block => j = using[p]
<1>1. using[p] \in Bufs /\ buf[using[p]] \in Buffer /\ buf[using[p]].block # NoBlock
  BY UsesBuffer, Zenon DEF BcacheInv, UsersRight
<1>2. buf[using[p]].block \in DiskBlocks
  BY <1>1, Zenon DEF Buffer
<1>. QED  BY <1>1, <1>2, Zenon DEF BcacheInv, BuffersRight

\* What setting B_DIRTY, with or without new data, leaves of a buffer.
LEMMA Logged ==
  ASSUME NEW r \in Buffer, NEW s, s = [r EXCEPT !.data = TRUE, !.dirty = TRUE]
  PROVE  /\ s \in Buffer /\ s.dirty /\ s.data /\ s.block = r.block /\ s.valid = r.valid
         /\ s.refcnt = r.refcnt /\ s.holder = r.holder
<1>1. s \in Buffer
  BY Zenon DEF Buffer
<1>2. s.dirty /\ s.data /\ s.block = r.block /\ s.valid = r.valid /\ s.refcnt = r.refcnt /\ s.holder = r.holder
  BY Zenon DEF Buffer
<1>. QED  BY <1>1, <1>2, Zenon

LEMMA Dirtied ==
  ASSUME NEW r \in Buffer, NEW s, s = [r EXCEPT !.dirty = TRUE]
  PROVE  /\ s \in Buffer /\ s.dirty /\ s.data = r.data /\ s.block = r.block /\ s.valid = r.valid
         /\ s.refcnt = r.refcnt /\ s.holder = r.holder
<1>1. s \in Buffer
  BY Zenon DEF Buffer
<1>2. /\ s.dirty /\ s.data = r.data /\ s.block = r.block /\ s.valid = r.valid /\ s.refcnt = r.refcnt
      /\ s.holder = r.holder
  BY Zenon DEF Buffer
<1>. QED  BY <1>1, <1>2, Zenon

\* One buffer changes.
LEMMA BufferStep ==
  ASSUME buf \in [Bufs -> Buffer], NEW i \in Bufs, NEW r, buf' = [buf EXCEPT ![i] = r]
  PROVE  /\ buf' = [j \in Bufs |-> buf'[j]]
         /\ buf'[i] = r
         /\ \A j \in Bufs : j # i => buf'[j] = buf[j]
BY Zenon

LEMMA LogWriteStep ==
  ASSUME BcacheInv, NEW p \in Users, LogWrite(p)
  PROVE  BcacheInv'
<1>. USE DEF BcacheInv
<1>1. PICK i \in Bufs : i = using[p] /\ buf[i] \in Buffer /\ at[p] = "hold"
  BY UsesBuffer, Zenon DEF LogWrite
<1>2. PICK b \in DiskBlocks : b = buf[i].block /\ \A j \in Bufs : buf[j].block = b => j = i
  BY <1>1, OnlyBuffer
<1>3. /\ header' = header \cup {b} /\ Cardinality(header \cup {b}) <= MaxLogged
      /\ disk' = [disk EXCEPT ![b] = FALSE] /\ at' = [at EXCEPT ![p] = "brelse"]
      /\ UNCHANGED <<lru, idequeue, device, using>>
  BY <1>1, <1>2, Zenon DEF LogWrite
<1>4. /\ buf' = [j \in Bufs |-> buf'[j]]
      /\ buf'[i] = [buf[i] EXCEPT !.data = TRUE, !.dirty = TRUE]
      /\ \A j \in Bufs : j # i => buf'[j] = buf[j]
  <2>1. buf' = [j \in Bufs |-> IF j = i THEN [buf[i] EXCEPT !.data = TRUE, !.dirty = TRUE]
                               ELSE IF buf[j].block = b THEN [buf[j] EXCEPT !.data = FALSE]
                               ELSE buf[j]]
    BY <1>1, <1>2, Zenon DEF LogWrite
  <2>2. \A j \in Bufs : j # i => buf'[j] = buf[j]
    BY <1>2, <2>1, Zenon
  <2>3. buf'[i] = [buf[i] EXCEPT !.data = TRUE, !.dirty = TRUE]
    BY <2>1, Zenon
  <2>4. buf' = [j \in Bufs |-> buf'[j]]
    BY <2>1, Zenon
  <2>. QED  BY <2>2, <2>3, <2>4, Zenon
<1>5. /\ buf'[i] \in Buffer /\ buf'[i].data /\ buf'[i].dirty
      /\ \A j \in Bufs : /\ buf'[j].block = buf[j].block /\ buf'[j].valid = buf[j].valid
                         /\ buf'[j].refcnt = buf[j].refcnt /\ buf'[j].holder = buf[j].holder
  <2>1. /\ buf'[i] \in Buffer /\ buf'[i].data /\ buf'[i].dirty
        /\ buf'[i].block = buf[i].block /\ buf'[i].valid = buf[i].valid
        /\ buf'[i].refcnt = buf[i].refcnt /\ buf'[i].holder = buf[i].holder
    BY <1>1, <1>4, Logged, ZenonT(40)
  <2>. QED  BY <1>4, <2>1, Zenon
<1>6. /\ at'[p] = "brelse" /\ at' \in [Users -> Places]
      /\ \A q \in Users : q # p => at'[q] = at[q]
  BY <1>3, Zenon DEF BcacheTypeOK, Places
<1>7. buf[i].holder = p /\ buf[i].valid
  BY <1>1, Zenon DEF LocksRight, Owning, FlagsRight
<1>8. /\ Queued' = Queued /\ Uses' = Uses /\ i \notin Queued
      /\ \A q \in Users : q # p /\ at[q] \in Owning => using[q] # i
  <2>1. Queued' = Queued /\ Uses' = Uses
    BY <1>3, Zenon DEF Queued, Uses
  <2>2. i \notin Queued
    BY <1>1, <1>7, QueuedHolders, Zenon DEF Waiting
  <2>3. \A q \in Users : q # p /\ at[q] \in Owning => using[q] # i
    BY <1>7, Zenon DEF LocksRight
  <2>. QED  BY <2>1, <2>2, <2>3, Zenon
<1>9. BcacheTypeOK'
  <2>1. buf' \in [Bufs -> Buffer]
    BY <1>4, <1>5, Zenon DEF BcacheTypeOK
  <2>. QED  BY <1>3, <1>6, <2>1, Zenon DEF BcacheTypeOK
<1>10. BuffersRight'
  BY <1>3, <1>5, <1>8 DEF BuffersRight
<1>11. UsersRight'
  <2>1. \A q \in Users : (at'[q] = "idle" <=> at[q] = "idle") /\ (at[q] # "idle" => using[q] \in Bufs)
    BY <1>1, <1>6, UsesBuffer, Zenon
  <2>. QED  BY <1>3, <1>5, <2>1 DEF UsersRight
<1>12. LocksRight'
  <2>1. \A q \in Users : /\ at'[q] \in Owning <=> at[q] \in Owning
                         /\ at'[q] = "asleep" <=> at[q] = "asleep"
                         /\ at[q] \in Owning \cup {"asleep"} => using[q] \in Bufs
    BY <1>1, <1>6, UsesBuffer, Zenon DEF Owning
  <2>. QED  BY <1>3, <1>5, <2>1, HoldersUse DEF LocksRight
<1>13. DataRight'
  <2>. SUFFICES ASSUME NEW j \in Bufs
                PROVE  /\ buf'[j].valid => buf'[j].data
                       /\ buf'[j].dirty => /\ buf'[j].valid
                                           /\ \/ buf'[j].block \in header'
                                              \/ buf'[j].holder # NoUser /\ at'[buf'[j].holder] \in {"iderw", "io", "ioawake"}
    BY Zenon DEF DataRight
  <2>1. CASE j = i
    BY <1>2, <1>3, <1>5, <1>7, <2>1, Zenon
  <2>2. CASE j # i
    BY <1>1, <1>3, <1>4, <1>6, <2>2, HoldersUse DEF DataRight
  <2>. QED  BY <2>1, <2>2, Zenon
<1>14. FlagsRight'
  <2>. SUFFICES ASSUME NEW q \in Users
                PROVE  /\ at'[q] \in {"hold", "brelse"} => buf'[using[q]].valid
                       /\ at'[q] = "iderw" => (buf'[using[q]].valid => buf'[using[q]].dirty)
                       /\ at'[q] \in {"iderw", "io", "ioawake"} => buf'[using[q]].block \notin header'
                       /\ at'[q] \in Waiting /\ using[q] \in Queued => (buf'[using[q]].valid => buf'[using[q]].dirty)
                       /\ at'[q] \in Waiting /\ using[q] \notin Queued => buf'[using[q]].valid /\ ~buf'[using[q]].dirty
    BY <1>3, <1>8, Zenon DEF FlagsRight
  <2>1. CASE q = p
    BY <1>1, <1>5, <1>6, <1>7, <2>1, Zenon DEF Waiting
  <2>2. CASE q # p /\ at[q] \in Owning
    <3>1. using[q] \in Bufs /\ using[q] # i /\ at'[q] = at[q]
      BY <1>6, <1>8, <2>2, UsesBuffer, Zenon DEF Owning
    <3>2. buf'[using[q]] = buf[using[q]] /\ buf[using[q]].block # b
      BY <1>2, <1>4, <3>1, Zenon
    <3>. QED  BY <1>3, <3>1, <3>2, Zenon DEF FlagsRight
  <2>3. CASE q # p /\ at[q] \notin Owning
    BY <1>6, <2>3, Zenon DEF Owning, Waiting
  <2>. QED  BY <2>1, <2>2, <2>3, Zenon
<1>15. QueueRight'
  <2>1. device' = NextCommand(buf', idequeue')
    <3>1. \A j \in Queued : buf'[j] = buf[j]
      BY <1>4, <1>8, QueuedHolders, Zenon
    <3>. QED  BY <1>3, <3>1, SameCommand, Zenon
  <2>2. \A j \in Queued : buf'[j].holder # NoUser /\ at'[buf'[j].holder] \in Waiting
    BY <1>1, <1>5, <1>6, QueuedHolders DEF Waiting
  <2>. QED  BY <1>3, <1>6, <1>8, <2>1, <2>2, Zenon DEF QueueRight
<1>16. HeaderRight'
  BY <1>3, FS_AddElement, Zenon DEF HeaderRight
<1>17. NothingLost'
  <2>. SUFFICES ASSUME NEW c \in DiskBlocks
                PROVE  /\ disk'[c] \/ \E j \in Bufs : buf'[j].block = c /\ buf'[j].dirty /\ buf'[j].data
                       /\ c \in header' => \E j \in Bufs : buf'[j].block = c /\ buf'[j].dirty
    BY Zenon DEF NothingLost, Cached
  <2>1. CASE c = b
    BY <1>2, <1>5, <2>1, Zenon
  <2>2. CASE c # b
    <3>1. disk'[c] = disk[c] /\ (c \in header' <=> c \in header)
      BY <1>3, <2>2, Zenon DEF BcacheTypeOK
    <3>2. \A j \in Bufs : buf[j].block = c => buf'[j] = buf[j]
      BY <1>2, <1>4, <2>2, Zenon
    <3>. QED  BY <3>1, <3>2 DEF NothingLost, Cached
  <2>. QED  BY <2>1, <2>2, Zenon
<1>. QED  BY <1>9, <1>10, <1>11, <1>12, <1>13, <1>14, <1>15, <1>16, <1>17, Zenon

LEMMA BwriteStep ==
  ASSUME BcacheInv, NEW p \in Users, Bwrite(p)
  PROVE  BcacheInv'
<1>. USE DEF BcacheInv
<1>1. PICK i \in Bufs : i = using[p] /\ buf[i] \in Buffer /\ at[p] = "hold"
  BY UsesBuffer, Zenon DEF Bwrite
<1>2. PICK b \in DiskBlocks : b = buf[i].block /\ \A j \in Bufs : buf[j].block = b => j = i
  BY <1>1, OnlyBuffer
<1>3. /\ header' = header \ {b} /\ b \in header /\ at' = [at EXCEPT ![p] = "iderw"]
      /\ UNCHANGED <<lru, disk, idequeue, device, using>>
  BY <1>1, <1>2, Zenon DEF Bwrite
<1>4. /\ buf' = [j \in Bufs |-> buf'[j]]
      /\ buf'[i] = [buf[i] EXCEPT !.dirty = TRUE]
      /\ \A j \in Bufs : j # i => buf'[j] = buf[j]
  <2>1. buf' = [buf EXCEPT ![i].dirty = TRUE] /\ buf \in [Bufs -> Buffer]
    BY <1>1, Zenon DEF Bwrite, BcacheTypeOK
  <2>. QED  BY <2>1, BufferStep, Zenon
<1>5. /\ buf'[i] \in Buffer /\ buf'[i].dirty
      /\ \A j \in Bufs : /\ buf'[j].block = buf[j].block /\ buf'[j].valid = buf[j].valid /\ buf'[j].data = buf[j].data
                         /\ buf'[j].refcnt = buf[j].refcnt /\ buf'[j].holder = buf[j].holder
  <2>1. /\ buf'[i] \in Buffer /\ buf'[i].dirty /\ buf'[i].data = buf[i].data
        /\ buf'[i].block = buf[i].block /\ buf'[i].valid = buf[i].valid
        /\ buf'[i].refcnt = buf[i].refcnt /\ buf'[i].holder = buf[i].holder
    BY <1>1, <1>4, Dirtied
  <2>. QED  BY <1>4, <2>1, Zenon
<1>6. /\ at'[p] = "iderw" /\ at' \in [Users -> Places]
      /\ \A q \in Users : q # p => at'[q] = at[q]
  BY <1>3, Zenon DEF BcacheTypeOK, Places
<1>7. buf[i].holder = p /\ p # NoUser /\ buf[i].valid
  BY <1>1, BcacheAssumption, Zenon DEF LocksRight, Owning, FlagsRight
<1>8. /\ Queued' = Queued /\ Uses' = Uses /\ i \notin Queued
      /\ \A q \in Users : q # p /\ at[q] \in Owning => using[q] # i
  <2>1. Queued' = Queued /\ Uses' = Uses
    BY <1>3, Zenon DEF Queued, Uses
  <2>2. i \notin Queued
    BY <1>1, <1>7, QueuedHolders, Zenon DEF Waiting
  <2>3. \A q \in Users : q # p /\ at[q] \in Owning => using[q] # i
    BY <1>7, Zenon DEF LocksRight
  <2>. QED  BY <2>1, <2>2, <2>3, Zenon
<1>9. BcacheTypeOK'
  <2>1. buf' \in [Bufs -> Buffer]
    BY <1>4, <1>5, Zenon DEF BcacheTypeOK
  <2>. QED  BY <1>3, <1>6, <2>1, Zenon DEF BcacheTypeOK
<1>10. BuffersRight'
  BY <1>3, <1>5, <1>8, SMTT(30) DEF BuffersRight
<1>11. UsersRight'
  <2>1. \A q \in Users : (at'[q] = "idle" <=> at[q] = "idle") /\ (at[q] # "idle" => using[q] \in Bufs)
    BY <1>1, <1>6, UsesBuffer, Zenon
  <2>. QED  BY <1>3, <1>5, <2>1, SMTT(30) DEF UsersRight
<1>12. LocksRight'
  <2>1. \A q \in Users : /\ at'[q] \in Owning <=> at[q] \in Owning
                         /\ at'[q] = "asleep" <=> at[q] = "asleep"
                         /\ at[q] \in Owning \cup {"asleep"} => using[q] \in Bufs
    BY <1>1, <1>6, UsesBuffer, Zenon DEF Owning
  <2>. QED  BY <1>3, <1>5, <2>1, HoldersUse DEF LocksRight
<1>13. DataRight'
  <2>. SUFFICES ASSUME NEW j \in Bufs
                PROVE  /\ buf'[j].valid => buf'[j].data
                       /\ buf'[j].dirty => /\ buf'[j].valid
                                           /\ \/ buf'[j].block \in header'
                                              \/ buf'[j].holder # NoUser /\ at'[buf'[j].holder] \in {"iderw", "io", "ioawake"}
    BY Zenon DEF DataRight
  <2>1. CASE j = i
    BY <1>5, <1>6, <1>7, <2>1, Zenon DEF DataRight
  <2>2. CASE j # i
    BY <1>1, <1>2, <1>3, <1>4, <1>6, <2>2, HoldersUse DEF DataRight
  <2>. QED  BY <2>1, <2>2, Zenon
<1>14. FlagsRight'
  <2>. SUFFICES ASSUME NEW q \in Users
                PROVE  /\ at'[q] \in {"hold", "brelse"} => buf'[using[q]].valid
                       /\ at'[q] = "iderw" => (buf'[using[q]].valid => buf'[using[q]].dirty)
                       /\ at'[q] \in {"iderw", "io", "ioawake"} => buf'[using[q]].block \notin header'
                       /\ at'[q] \in Waiting /\ using[q] \in Queued => (buf'[using[q]].valid => buf'[using[q]].dirty)
                       /\ at'[q] \in Waiting /\ using[q] \notin Queued => buf'[using[q]].valid /\ ~buf'[using[q]].dirty
    BY <1>3, <1>8, Zenon DEF FlagsRight
  <2>1. CASE q = p
    BY <1>1, <1>2, <1>3, <1>5, <1>6, <1>7, <2>1, Zenon DEF Waiting
  <2>2. CASE q # p /\ at[q] \in Owning
    <3>1. using[q] \in Bufs /\ using[q] # i /\ at'[q] = at[q]
      BY <1>6, <1>8, <2>2, UsesBuffer, Zenon DEF Owning
    <3>2. buf'[using[q]] = buf[using[q]]
      BY <1>4, <3>1, Zenon
    <3>. QED  BY <1>3, <3>1, <3>2, Zenon DEF FlagsRight
  <2>3. CASE q # p /\ at[q] \notin Owning
    BY <1>6, <2>3, Zenon DEF Owning, Waiting
  <2>. QED  BY <2>1, <2>2, <2>3, Zenon
<1>15. QueueRight'
  <2>1. device' = NextCommand(buf', idequeue')
    <3>1. \A j \in Queued : buf'[j] = buf[j]
      BY <1>4, <1>8, QueuedHolders, Zenon
    <3>. QED  BY <1>3, <3>1, SameCommand, Zenon
  <2>2. \A j \in Queued : buf'[j].holder # NoUser /\ at'[buf'[j].holder] \in Waiting
    BY <1>1, <1>5, <1>6, QueuedHolders DEF Waiting
  <2>. QED  BY <1>3, <1>6, <1>8, <2>1, <2>2, Zenon DEF QueueRight
<1>16. HeaderRight'
  <2>1. IsFiniteSet(header) /\ Cardinality(header) \in Nat /\ Cardinality(header) <= MaxLogged
    BY FS_CardinalityType, Zenon DEF HeaderRight
  <2>2. IsFiniteSet(header \ {b}) /\ Cardinality(header \ {b}) = Cardinality(header) - 1
    BY <1>3, <2>1, FS_RemoveElement, Zenon
  <2>. QED  BY <1>3, <2>1, <2>2, BcacheAssumption DEF HeaderRight
<1>17. NothingLost'
  <2>. SUFFICES ASSUME NEW c \in DiskBlocks
                PROVE  /\ disk'[c] \/ \E j \in Bufs : buf'[j].block = c /\ buf'[j].dirty /\ buf'[j].data
                       /\ c \in header' => \E j \in Bufs : buf'[j].block = c /\ buf'[j].dirty
    BY Zenon DEF NothingLost, Cached
  <2>1. CASE c = b
    BY <1>2, <1>3, <1>5, <1>7, <2>1, Zenon DEF DataRight
  <2>2. CASE c # b
    <3>1. \A j \in Bufs : buf[j].block = c => buf'[j] = buf[j]
      BY <1>2, <1>4, <2>2, Zenon
    <3>. QED  BY <1>3, <3>1 DEF NothingLost, Cached
  <2>. QED  BY <2>1, <2>2, Zenon
<1>. QED  BY <1>9, <1>10, <1>11, <1>12, <1>13, <1>14, <1>15, <1>16, <1>17, Zenon

LEMMA BrelseStep ==
  ASSUME BcacheInv, NEW p \in Users, Brelse(p)
  PROVE  BcacheInv'
<1>. USE DEF BcacheInv
<1>1. PICK i \in Bufs : i = using[p] /\ buf[i] \in Buffer /\ at[p] \in {"hold", "brelse"}
  BY UsesBuffer, Zenon DEF Brelse
<1>2. UNCHANGED <<lru, disk, idequeue, device, header, using>>
  BY Zenon DEF Brelse
<1>3. /\ buf' = [j \in Bufs |-> buf'[j]]
      /\ buf'[i] = [buf[i] EXCEPT !.holder = NoUser]
      /\ \A j \in Bufs : j # i => buf'[j] = buf[j]
  <2>1. buf' = [buf EXCEPT ![i].holder = NoUser] /\ buf \in [Bufs -> Buffer]
    BY <1>1, Zenon DEF Brelse, BcacheTypeOK
  <2>. QED  BY <2>1, BufferStep, Zenon
<1>4. /\ buf'[i] \in Buffer /\ buf'[i].holder = NoUser
      /\ \A j \in Bufs : /\ buf'[j].block = buf[j].block /\ buf'[j].valid = buf[j].valid
                         /\ buf'[j].refcnt = buf[j].refcnt /\ buf'[j].dirty = buf[j].dirty
                         /\ buf'[j].data = buf[j].data
  <2>1. buf'[i] \in Buffer /\ buf'[i].holder = NoUser
    BY <1>1, <1>3, Zenon DEF Buffer
  <2>2. /\ buf'[i].block = buf[i].block /\ buf'[i].valid = buf[i].valid /\ buf'[i].refcnt = buf[i].refcnt
        /\ buf'[i].dirty = buf[i].dirty /\ buf'[i].data = buf[i].data
    BY <1>1, <1>3, Zenon DEF Buffer
  <2>. QED  BY <1>3, <2>1, <2>2, Zenon
<1>5. /\ at' \in [Users -> Places] /\ at'[p] = "put"
      /\ \A q \in Users : q # p => at'[q] = IF at[q] = "asleep" /\ using[q] = i THEN "lock" ELSE at[q]
  BY <1>1, Zenon DEF Brelse, Woken, BcacheTypeOK, Places
<1>6. buf[i].holder = p /\ p # NoUser
  BY <1>1, BcacheAssumption, Zenon DEF LocksRight, Owning
<1>7. /\ Queued' = Queued /\ Uses' = Uses /\ i \notin Queued
      /\ \A q \in Users : q # p /\ at[q] \in Owning => using[q] # i
  <2>1. Queued' = Queued /\ Uses' = Uses
    BY <1>2, Zenon DEF Queued, Uses
  <2>2. i \notin Queued
    BY <1>1, <1>6, QueuedHolders, Zenon DEF Waiting
  <2>3. \A q \in Users : q # p /\ at[q] \in Owning => using[q] # i
    BY <1>6, Zenon DEF LocksRight
  <2>. QED  BY <2>1, <2>2, <2>3, Zenon
<1>8. BcacheTypeOK'
  <2>1. buf' \in [Bufs -> Buffer]
    BY <1>3, <1>4, Zenon DEF BcacheTypeOK
  <2>. QED  BY <1>2, <1>5, <2>1, Zenon DEF BcacheTypeOK
<1>9. BuffersRight' /\ HeaderRight' /\ NothingLost'
  <2>1. BuffersRight'
    BY <1>2, <1>4, <1>7, SMTT(30) DEF BuffersRight
  <2>2. NothingLost'
    BY <1>2, <1>4, SMTT(30) DEF NothingLost, Cached
  <2>. QED  BY <1>2, <2>1, <2>2, Zenon DEF HeaderRight
<1>10. UsersRight'
  BY <1>1, <1>2, <1>4, <1>5, UsesBuffer, ZenonT(40) DEF UsersRight
<1>11. LocksRight'
  <2>1. \A q \in Users : at'[q] \in Owning => q # p /\ at[q] = at'[q] /\ using[q] \in Bufs \ {i}
    BY <1>5, <1>7, UsesBuffer, Zenon DEF Owning
  <2>2. \A q \in Users : at'[q] \in Owning => buf'[using[q]].holder = q
    BY <1>3, <2>1 DEF LocksRight
  <2>3. \A j \in Bufs : buf'[j].holder # NoUser => at'[buf'[j].holder] \in Owning /\ using[buf'[j].holder] = j
    <3>. SUFFICES ASSUME NEW j \in Bufs, buf'[j].holder # NoUser
                  PROVE  at'[buf'[j].holder] \in Owning /\ using[buf'[j].holder] = j
      OBVIOUS
    <3>1. j # i /\ buf'[j] = buf[j]
      BY <1>3, <1>4, Zenon
    <3>2. buf[j].holder \in Users \ {p} /\ at[buf[j].holder] \in Owning /\ using[buf[j].holder] = j
      BY <1>1, <3>1, HoldersUse, Zenon
    <3>. QED  BY <1>5, <3>1, <3>2, Zenon DEF Owning
  <2>4. \A q \in Users : at'[q] = "asleep" => buf'[using[q]].holder # NoUser
    BY <1>3, <1>5, UsesBuffer DEF LocksRight
  <2>. QED  BY <1>2, <2>2, <2>3, <2>4, Zenon DEF LocksRight
<1>12. DataRight'
  <2>. SUFFICES ASSUME NEW j \in Bufs
                PROVE  /\ buf'[j].valid => buf'[j].data
                       /\ buf'[j].dirty => /\ buf'[j].valid
                                           /\ \/ buf'[j].block \in header'
                                              \/ buf'[j].holder # NoUser /\ at'[buf'[j].holder] \in {"iderw", "io", "ioawake"}
    BY Zenon DEF DataRight
  <2>1. CASE j = i
    BY <1>1, <1>2, <1>4, <1>6, <2>1, Zenon DEF DataRight
  <2>2. CASE j # i
    BY <1>1, <1>2, <1>3, <1>5, <2>2, HoldersUse DEF DataRight
  <2>. QED  BY <2>1, <2>2, Zenon
<1>13. FlagsRight'
  <2>1. \A q \in Users : at'[q] \in Owning => q # p /\ at[q] = at'[q] /\ using[q] \in Bufs
    BY <1>5, UsesBuffer, Zenon DEF Owning
  <2>. QED  BY <1>2, <1>4, <1>7, <2>1, ZenonT(40) DEF FlagsRight, Owning, Waiting
<1>14. QueueRight'
  <2>1. device' = NextCommand(buf', idequeue')
    BY <1>2, <1>4, SameCommand, QueuedHolders, Zenon
  <2>2. \A j \in Queued : buf'[j].holder # NoUser /\ at'[buf'[j].holder] \in Waiting
    BY <1>1, <1>3, <1>5, <1>7, QueuedHolders DEF Waiting
  <2>. QED  BY <1>2, <1>5, <1>7, <2>1, <2>2, Zenon DEF QueueRight
<1>. QED  BY <1>8, <1>9, <1>10, <1>11, <1>12, <1>13, <1>14, Zenon

\* brelse() leaves every buffer on the list.
LEMMA FrontKeepsAll ==
  ASSUME BcacheInv, NEW i \in Bufs
  PROVE  ToFront(i) \in [1..NBUF -> Bufs] /\ \A j \in Bufs : \E k \in 1..NBUF : ToFront(i)[k] = j
<1>. DEFINE n == CHOOSE k \in 1..NBUF : lru[k] = i
<1>1. n \in 1..NBUF /\ lru[n] = i /\ lru \in [1..NBUF -> Bufs] /\ NBUF \in Nat
  BY BcacheAssumption, Zenon DEF BcacheInv, BuffersRight, BcacheTypeOK
<1>. HIDE DEF n
<1>2. ToFront(i) = [k \in 1..NBUF |-> IF k = 1 THEN i ELSE IF k <= n THEN lru[k - 1] ELSE lru[k]]
  BY Zenon DEF ToFront, n
<1>3. ToFront(i) \in [1..NBUF -> Bufs]
  BY <1>1, <1>2
<1>4. ASSUME NEW j \in Bufs PROVE \E k \in 1..NBUF : ToFront(i)[k] = j
  <2>1. PICK m \in 1..NBUF : lru[m] = j
    BY Zenon DEF BcacheInv, BuffersRight
  <2>2. CASE j = i
    BY <1>1, <1>2, <2>2
  <2>3. CASE m < n
    <3>1. m + 1 \in 1..NBUF /\ m + 1 # 1 /\ m + 1 <= n /\ (m + 1) - 1 = m
      BY <1>1, <2>3
    <3>. QED  BY <1>2, <2>1, <3>1, Zenon
  <2>4. CASE m > n
    BY <1>1, <1>2, <2>1, <2>4
  <2>. QED  BY <1>1, <2>1, <2>2, <2>3, <2>4
<1>. QED  BY <1>3, <1>4, Zenon

LEMMA PutStep ==
  ASSUME BcacheInv, NEW p \in Users, Put(p)
  PROVE  BcacheInv'
<1>. USE DEF BcacheInv
<1>1. PICK i \in Bufs : i = using[p] /\ buf[i] \in Buffer /\ at[p] = "put"
  BY UsesBuffer, Zenon DEF Put
<1>2. /\ using' = [using EXCEPT ![p] = 0]
      /\ lru' = lru \/ lru' = ToFront(i)
      /\ UNCHANGED <<disk, idequeue, device, header>>
  BY <1>1, Zenon DEF Put
<1>3. /\ buf' = [j \in Bufs |-> buf'[j]]
      /\ buf'[i] = [buf[i] EXCEPT !.refcnt = @ - 1]
      /\ \A j \in Bufs : j # i => buf'[j] = buf[j]
  <2>1. buf' = [buf EXCEPT ![i] = [buf[i] EXCEPT !.refcnt = @ - 1]] /\ buf \in [Bufs -> Buffer]
    BY <1>1, Zenon DEF Put, BcacheTypeOK
  <2>. QED  BY <2>1, BufferStep, Zenon
<1>4. \A j \in Bufs : buf[j].refcnt = Uses[j] /\ Uses'[j] = Uses[j] - (IF j = i THEN 1 ELSE 0) /\ Uses'[j] \in Nat
  <2>1. \A j \in Bufs : Uses'[j] = Uses[j] - (IF j = i THEN 1 ELSE 0)
    BY <1>1, <1>2, OneLess, Zenon
  <2>2. \A j \in Bufs : buf[j].refcnt = Uses[j]
    BY Zenon DEF BuffersRight
  <2>3. ASSUME NEW j \in Bufs PROVE Uses'[j] \in Nat
    <3>1. IsFiniteSet({q \in Users : using'[q] = j})
      BY BcacheAssumption, FS_Subset, Zenon
    <3>. QED  BY <3>1, FS_CardinalityType, Zenon DEF Uses
  <2>. QED  BY <2>1, <2>2, <2>3, Zenon
<1>5. \A j \in Bufs : /\ buf'[j].block = buf[j].block /\ buf'[j].valid = buf[j].valid
                      /\ buf'[j].holder = buf[j].holder /\ buf'[j].dirty = buf[j].dirty
                      /\ buf'[j].data = buf[j].data
  <2>1. /\ buf'[i].block = buf[i].block /\ buf'[i].valid = buf[i].valid /\ buf'[i].holder = buf[i].holder
        /\ buf'[i].dirty = buf[i].dirty /\ buf'[i].data = buf[i].data
    BY <1>1, <1>3, Zenon DEF Buffer
  <2>. QED  BY <1>3, <2>1, Zenon
<1>6. \A j \in Bufs : buf'[j].refcnt = Uses'[j]
  <2>1. buf'[i].refcnt = buf[i].refcnt - 1
    BY <1>1, <1>3, Zenon DEF Buffer
  <2>2. buf'[i].refcnt = Uses'[i]
    BY <1>4, <2>1, Zenon
  <2>3. \A j \in Bufs : j # i => Uses'[j] = Uses[j]
    <3>. SUFFICES ASSUME NEW j \in Bufs, j # i PROVE Uses'[j] = Uses[j]
      OBVIOUS
    <3>1. Uses'[j] = Uses[j] - 0 /\ Uses[j] \in Nat
      BY <1>4, Zenon DEF BcacheTypeOK, Buffer
    <3>. QED  BY <3>1
  <2>. QED  BY <1>3, <1>4, <2>2, <2>3, Zenon
<1>7. buf' \in [Bufs -> Buffer]
  <2>1. buf[i].refcnt - 1 \in Nat
    BY <1>4, Zenon
  <2>2. buf'[i] \in Buffer
    BY <1>1, <1>3, <2>1, Zenon DEF Buffer
  <2>. QED  BY <1>3, <2>2, Zenon DEF BcacheTypeOK
<1>8. /\ at' \in [Users -> Places] /\ at'[p] = "idle" /\ \A q \in Users : q # p => at'[q] = at[q]
      /\ using' \in [Users -> Bufs \cup {0}] /\ using'[p] = 0 /\ \A q \in Users : q # p => using'[q] = using[q]
  BY <1>2, Zenon DEF Put, BcacheTypeOK, Places
<1>9. lru' \in [1..NBUF -> Bufs] /\ \A j \in Bufs : \E k \in 1..NBUF : lru'[k] = j
  <2>1. CASE lru' = lru
    BY <2>1, Zenon DEF BcacheTypeOK, BuffersRight
  <2>2. CASE lru' = ToFront(i)
    BY <2>2, FrontKeepsAll, Zenon
  <2>. QED  BY <1>2, <2>1, <2>2, Zenon
<1>10. Queued' = Queued /\ Queued \subseteq Bufs
  BY <1>2, QueuedHolders, Zenon DEF Queued
<1>11. BcacheTypeOK'
  BY <1>2, <1>7, <1>8, <1>9, Zenon DEF BcacheTypeOK
<1>12. BuffersRight'
  BY <1>5, <1>6, <1>9, SMTT(30) DEF BuffersRight
<1>13. UsersRight'
  <2>1. \A q \in Users : q # p => using[q] \in Bufs \cup {0}
    BY Zenon DEF BcacheTypeOK
  <2>. QED  BY <1>5, <1>8, <2>1 DEF UsersRight
<1>14. LocksRight'
  <2>1. \A q \in Users : q # p /\ at[q] # "idle" => using[q] \in Bufs
    BY UsesBuffer, Zenon
  <2>2. \A j \in Bufs : buf'[j].holder # NoUser => at'[buf'[j].holder] \in Owning /\ using'[buf'[j].holder] = j
    BY <1>1, <1>5, <1>8, HoldersUse, SMTT(30) DEF Owning
  <2>. QED  BY <1>5, <1>8, <2>1, <2>2, SMTT(30) DEF LocksRight, Owning
<1>15. DataRight'
  BY <1>1, <1>2, <1>5, <1>8, HoldersUse DEF DataRight, Owning
<1>16. FlagsRight'
  <2>1. \A q \in Users : q # p /\ at[q] # "idle" => using[q] \in Bufs
    BY UsesBuffer, Zenon
  <2>. QED  BY <1>2, <1>5, <1>8, <1>10, <2>1, SMTT(30) DEF FlagsRight, Waiting
<1>17. QueueRight'
  <2>1. device' = NextCommand(buf', idequeue')
    BY <1>2, <1>5, SameCommand, QueuedHolders, Zenon
  <2>2. \A j \in Queued : buf'[j].holder # NoUser /\ at'[buf'[j].holder] \in Waiting
    BY <1>1, <1>5, <1>8, QueuedHolders, SMTT(30) DEF Waiting
  <2>. QED  BY <1>2, <1>8, <1>10, <2>1, <2>2, Zenon DEF QueueRight
<1>18. HeaderRight' /\ NothingLost'
  BY <1>2, <1>5, SMTT(30) DEF HeaderRight, NothingLost, Cached
<1>. QED  BY <1>11, <1>12, <1>13, <1>14, <1>15, <1>16, <1>17, <1>18, Zenon

\* The disk's interrupt ends the first request on the queue.
LEMMA IdeintrStep ==
  ASSUME BcacheInv, Ideintr
  PROVE  BcacheInv'
<1>. USE DEF BcacheInv
<1>1. idequeue # <<>>
  BY Zenon DEF Ideintr, QueueRight, NextCommand
<1>2. PICK i \in Bufs : i = Head(idequeue) /\ i \in Queued /\ i = idequeue[1] /\ buf[i] \in Buffer
  BY <1>1 DEF BcacheTypeOK, Queued
<1>3. PICK h \in Users : /\ buf[i].holder = h /\ h # NoUser /\ at[h] \in Waiting /\ using[h] = i
                         /\ (buf[i].valid => buf[i].dirty)
                         /\ buf[i].block \notin header
  BY <1>2, QueuedHolders, ZenonT(40) DEF FlagsRight, Waiting
<1>4. /\ buf[i].block \in DiskBlocks
      /\ \A j \in Bufs : buf[j].block = buf[i].block => j = i
  BY <1>3, OnlyBuffer, ZenonT(40) DEF Waiting
<1>5. device = Command(buf, i)
  BY <1>1, <1>2, Zenon DEF QueueRight, NextCommand
<1>6. device.block = buf[i].block /\ device.data = buf[i].data /\ (device.cmd = "write" <=> buf[i].dirty)
  BY <1>5, Zenon DEF Command
<1>7. UNCHANGED <<lru, header, using>> /\ idequeue' = Tail(idequeue) /\ device' = NextCommand(buf, Tail(idequeue))
  BY Zenon DEF Ideintr
<1>8. /\ at' \in [Users -> Places]
      /\ \A q \in Users : at'[q] = IF at[q] = "io" /\ using[q] = i THEN "ioawake" ELSE at[q]
  BY <1>2, Zenon DEF Ideintr, BcacheTypeOK, Places
<1>9. /\ disk' \in [DiskBlocks -> BOOLEAN]
      /\ \A c \in DiskBlocks : disk'[c] <=> IF c = buf[i].block /\ buf[i].dirty THEN buf[i].data ELSE disk[c]
  <2>1. disk' = IF buf[i].dirty THEN [disk EXCEPT ![buf[i].block] = buf[i].data] ELSE disk
    BY <1>6, Zenon DEF Ideintr
  <2>2. buf[i].data \in BOOLEAN
    BY <1>2, Zenon DEF Buffer
  <2>. QED  BY <1>4, <2>1, <2>2, Zenon DEF BcacheTypeOK
<1>10. /\ buf' = [j \in Bufs |-> buf'[j]]
       /\ buf'[i] = Synced(i)
       /\ \A j \in Bufs : j # i => buf'[j] = buf[j]
  <2>1. buf' = [buf EXCEPT ![i] = Synced(i)] /\ buf \in [Bufs -> Buffer]
    BY <1>2, Zenon DEF Ideintr, BcacheTypeOK
  <2>. QED  BY <2>1, BufferStep, Zenon
<1>11. \/ buf[i].dirty /\ buf[i].valid /\ buf[i].data
       \/ ~buf[i].dirty /\ ~buf[i].valid /\ disk[buf[i].block]
  BY <1>3, <1>4, Zenon DEF DataRight, NothingLost, Cached
<1>12. /\ buf'[i] \in Buffer /\ buf'[i].valid /\ ~buf'[i].dirty /\ buf'[i].data
       /\ buf'[i].block = buf[i].block /\ buf'[i].refcnt = buf[i].refcnt /\ buf'[i].holder = h
  <2>1. buf'[i] = [buf[i] EXCEPT !.valid = TRUE, !.dirty = FALSE, !.data = IF buf[i].dirty THEN @ ELSE disk[buf[i].block]]
    BY <1>6, <1>10, Zenon DEF Synced
  <2>2. (IF buf[i].dirty THEN buf[i].data ELSE disk[buf[i].block]) = TRUE
    BY <1>2, <1>4, <1>11, Zenon DEF Buffer, BcacheTypeOK
  <2>3. buf'[i] = [buf[i] EXCEPT !.valid = TRUE, !.dirty = FALSE, !.data = TRUE]
    BY <2>1, <2>2, Zenon
  <2>4. buf'[i] \in Buffer
    BY <1>2, <2>3, Zenon DEF Buffer
  <2>5. /\ buf'[i].valid /\ ~buf'[i].dirty /\ buf'[i].data
        /\ buf'[i].block = buf[i].block /\ buf'[i].refcnt = buf[i].refcnt /\ buf'[i].holder = buf[i].holder
    BY <1>2, <2>3, Zenon DEF Buffer
  <2>. QED  BY <1>3, <2>4, <2>5, Zenon
<1>13. /\ idequeue' \in Seq(Bufs) /\ Len(idequeue') = Len(idequeue) - 1
       /\ \A n \in 1..Len(idequeue') : idequeue'[n] = idequeue[n + 1] /\ n + 1 \in 1..Len(idequeue)
  BY <1>1, <1>7 DEF BcacheTypeOK
<1>14. Queued' = Queued \ {i}
  <2>1. \A n \in 1..Len(idequeue') : idequeue'[n] \in Queued /\ idequeue'[n] # i
    <3>. SUFFICES ASSUME NEW n \in 1..Len(idequeue') PROVE idequeue'[n] \in Queued /\ idequeue'[n] # i
      OBVIOUS
    <3>1. n + 1 \in 1..Len(idequeue) /\ 1 \in 1..Len(idequeue) /\ n + 1 # 1
      BY <1>1, <1>13 DEF BcacheTypeOK
    <3>. QED  BY <1>2, <1>13, <3>1 DEF QueueRight, Queued
  <2>2. \A j \in Queued \ {i} : \E n \in 1..Len(idequeue') : idequeue'[n] = j
    <3>. SUFFICES ASSUME NEW j \in Queued, j # i PROVE \E n \in 1..Len(idequeue') : idequeue'[n] = j
      OBVIOUS
    <3>1. PICK m \in 1..Len(idequeue) : idequeue[m] = j
      BY Zenon DEF Queued
    <3>2. m # 1 /\ m - 1 \in 1..Len(idequeue') /\ (m - 1) + 1 = m
      BY <1>2, <1>13, <3>1 DEF BcacheTypeOK
    <3>. QED  BY <1>13, <3>1, <3>2, Zenon
  <2>. QED  BY <2>1, <2>2, Zenon DEF Queued
<1>15. BcacheTypeOK'
  <2>1. buf' \in [Bufs -> Buffer]
    BY <1>10, <1>12, Zenon DEF BcacheTypeOK
  <2>2. device' \in Request
    <3>1. CASE Tail(idequeue) = <<>>
      BY <1>7, <3>1, Zenon DEF NextCommand, Idle, Request
    <3>2. CASE Tail(idequeue) # <<>>
      <4>1. Head(Tail(idequeue)) \in Bufs
        BY <1>1, <3>2 DEF BcacheTypeOK
      <4>2. buf[Head(Tail(idequeue))] \in Buffer
        BY <4>1, Zenon DEF BcacheTypeOK
      <4>. QED  BY <1>7, <3>2, <4>2, Zenon DEF NextCommand, Command, Request, Buffer
    <3>. QED  BY <3>1, <3>2, Zenon
  <2>. QED  BY <1>7, <1>8, <1>9, <1>13, <2>1, <2>2, Zenon DEF BcacheTypeOK
<1>16. Uses' = Uses
  BY <1>7, Zenon DEF Uses
<1>17. BuffersRight'
  <2>1. \A j \in Bufs : buf'[j].block = buf[j].block /\ buf'[j].refcnt = buf[j].refcnt
    BY <1>10, <1>12, Zenon
  <2>. QED  BY <1>7, <1>16, <2>1 DEF BuffersRight
<1>18. UsersRight'
  <2>1. \A j \in Bufs : buf'[j].block = buf[j].block
    BY <1>10, <1>12, Zenon
  <2>2. \A q \in Users : at'[q] = "idle" <=> at[q] = "idle"
    BY <1>8, Zenon
  <2>. QED  BY <1>7, <2>1, <2>2, UsesBuffer, Zenon DEF UsersRight
<1>19. LocksRight'
  <2>1. \A j \in Bufs : buf'[j].holder = buf[j].holder
    BY <1>3, <1>10, <1>12, Zenon
  <2>2. \A q \in Users : (at'[q] \in Owning <=> at[q] \in Owning) /\ (at'[q] = "asleep" <=> at[q] = "asleep")
    BY <1>8, Zenon DEF Owning
  <2>. QED  BY <1>7, <2>1, <2>2, HoldersUse, UsesBuffer, SMTT(30) DEF LocksRight, Owning
<1>20. DataRight'
  <2>. SUFFICES ASSUME NEW j \in Bufs
                PROVE  /\ buf'[j].valid => buf'[j].data
                       /\ buf'[j].dirty => /\ buf'[j].valid
                                           /\ \/ buf'[j].block \in header'
                                              \/ buf'[j].holder # NoUser /\ at'[buf'[j].holder] \in {"iderw", "io", "ioawake"}
    BY Zenon DEF DataRight
  <2>1. CASE j = i
    BY <1>12, <2>1, Zenon
  <2>2. CASE j # i
    BY <1>7, <1>8, <1>10, <2>2, HoldersUse DEF DataRight
  <2>. QED  BY <2>1, <2>2, Zenon
<1>21. FlagsRight'
  <2>. SUFFICES ASSUME NEW q \in Users
                PROVE  /\ at'[q] \in {"hold", "brelse"} => buf'[using[q]].valid
                       /\ at'[q] = "iderw" => (buf'[using[q]].valid => buf'[using[q]].dirty)
                       /\ at'[q] \in {"iderw", "io", "ioawake"} => buf'[using[q]].block \notin header
                       /\ at'[q] \in Waiting /\ using[q] \in Queued' => (buf'[using[q]].valid => buf'[using[q]].dirty)
                       /\ at'[q] \in Waiting /\ using[q] \notin Queued' => buf'[using[q]].valid /\ ~buf'[using[q]].dirty
    BY <1>7, Zenon DEF FlagsRight
  <2>1. CASE q = h
    BY <1>3, <1>8, <1>12, <1>14, <2>1, Zenon DEF Waiting
  <2>2. CASE q # h /\ at[q] \in Owning
    <3>1. using[q] \in Bufs /\ using[q] # i
      BY <1>3, <2>2, UsesBuffer, Zenon DEF Owning, LocksRight
    <3>2. buf'[using[q]] = buf[using[q]] /\ at'[q] = at[q]
      BY <1>8, <1>10, <3>1, Zenon
    <3>. QED  BY <1>14, <3>1, <3>2, Zenon DEF FlagsRight
  <2>3. CASE at[q] \notin Owning
    BY <1>8, <2>3, Zenon DEF Owning, Waiting
  <2>. QED  BY <2>1, <2>2, <2>3, Zenon
<1>22. QueueRight'
  <2>1. \A m, n \in 1..Len(idequeue') : idequeue'[m] = idequeue'[n] => m = n
    <3>. SUFFICES ASSUME NEW m \in 1..Len(idequeue'), NEW n \in 1..Len(idequeue'), idequeue'[m] = idequeue'[n]
                  PROVE  m = n
      OBVIOUS
    <3>1. m + 1 = n + 1
      <4>1. PICK x \in 1..Len(idequeue) : x = m + 1 /\ idequeue'[m] = idequeue[x]
        BY <1>13, Zenon
      <4>2. PICK y \in 1..Len(idequeue) : y = n + 1 /\ idequeue'[n] = idequeue[y]
        BY <1>13, Zenon
      <4>3. idequeue[x] = idequeue[y]
        BY <4>1, <4>2, Zenon
      <4>4. x = y
        BY <4>3, Zenon DEF QueueRight
      <4>. QED  BY <4>1, <4>2, <4>4, Zenon
    <3>2. m \in Int /\ n \in Int
      OBVIOUS
    <3>. QED  BY <3>1, <3>2
  <2>2. \A j \in Queued' : buf'[j].holder # NoUser /\ at'[buf'[j].holder] \in Waiting
    BY <1>8, <1>10, <1>14, QueuedHolders DEF Waiting
  <2>3. \A q \in Users : at'[q] = "io" => using[q] \in Queued'
    BY <1>8, <1>14, Zenon DEF QueueRight
  <2>4. device' = NextCommand(buf', idequeue')
    <3>1. CASE Tail(idequeue) = <<>>
      BY <1>7, <3>1, Zenon DEF NextCommand
    <3>2. CASE Tail(idequeue) # <<>>
      <4>1. Head(Tail(idequeue)) \in Queued'
        <5>1. idequeue' # <<>> /\ idequeue' \in Seq(Bufs)
          BY <1>7, <1>13, <3>2, Zenon
        <5>2. Head(idequeue') = idequeue'[1] /\ 1 \in 1..Len(idequeue')
          BY <5>1
        <5>. QED  BY <1>7, <5>2, Zenon DEF Queued
      <4>2. buf'[Head(Tail(idequeue))] = buf[Head(Tail(idequeue))]
        BY <1>10, <1>14, <4>1, QueuedHolders, Zenon
      <4>. QED  BY <1>7, <3>2, <4>2, Zenon DEF NextCommand, Command
    <3>. QED  BY <3>1, <3>2, Zenon
  <2>. QED  BY <1>7, <2>1, <2>2, <2>3, <2>4, Zenon DEF QueueRight
<1>23. HeaderRight'
  BY <1>7, Zenon DEF HeaderRight
<1>24. NothingLost'
  <2>. SUFFICES ASSUME NEW c \in DiskBlocks
                PROVE  /\ disk'[c] \/ \E j \in Bufs : buf'[j].block = c /\ buf'[j].dirty /\ buf'[j].data
                       /\ c \in header => \E j \in Bufs : buf'[j].block = c /\ buf'[j].dirty
    BY <1>7, Zenon DEF NothingLost, Cached
  <2>1. CASE c = buf[i].block
    BY <1>3, <1>9, <1>11, <2>1, Zenon
  <2>2. CASE c # buf[i].block
    <3>1. disk'[c] <=> disk[c]
      BY <1>9, <2>2, Zenon
    <3>2. \A j \in Bufs : buf[j].block = c => buf'[j] = buf[j]
      BY <1>10, <2>2, Zenon
    <3>. QED  BY <3>1, <3>2, SMTT(30) DEF NothingLost, Cached
  <2>. QED  BY <2>1, <2>2, Zenon
<1>. QED  BY <1>15, <1>17, <1>18, <1>19, <1>20, <1>21, <1>22, <1>23, <1>24, Zenon
----------------------------------------------------------------------------
LEMMA InitInv == BcacheInit => BcacheInv
<1>. SUFFICES ASSUME BcacheInit PROVE BcacheInv
  OBVIOUS
<1>. USE DEF BcacheInit
<1>1. NBUF \in Nat /\ NoUser \notin Users
  BY BcacheAssumption, Zenon
<1>2. \A i \in Bufs : buf[i] = FreeBuf
  OBVIOUS
<1>3. BcacheTypeOK
  <2>1. FreeBuf \in Buffer
    BY Zenon DEF FreeBuf, Buffer
  <2>2. buf \in [Bufs -> Buffer]
    BY <2>1, Zenon
  <2>3. lru \in [1..NBUF -> Bufs]
    BY <1>1 DEF Bufs
  <2>4. device \in Request
    BY Zenon DEF Idle, Request
  <2>. QED  BY <2>2, <2>3, <2>4 DEF BcacheTypeOK, Places
<1>4. Queued = {}
  BY DEF Queued
<1>5. BuffersRight
  <2>1. \A i \in Bufs : {p \in Users : using[p] = i} = {}
    BY DEF Bufs
  <2>2. \A i \in Bufs : buf[i].refcnt = Uses[i]
    BY <1>2, <2>1, FS_EmptySet, Zenon DEF Uses, FreeBuf
  <2>3. \A i \in Bufs : NBUF + 1 - i \in 1..NBUF /\ lru[NBUF + 1 - i] = i
    BY <1>1 DEF Bufs
  <2>. QED  BY <1>2, <2>2, <2>3, Zenon DEF BuffersRight, FreeBuf
<1>6. UsersRight /\ LocksRight /\ DataRight /\ FlagsRight
  BY <1>2, Zenon DEF UsersRight, LocksRight, DataRight, FlagsRight, FreeBuf, Owning, Waiting
<1>7. QueueRight
  BY <1>4 DEF QueueRight, NextCommand
<1>8. HeaderRight
  BY FS_EmptySet, BcacheAssumption DEF HeaderRight
<1>9. NothingLost
  BY Zenon DEF NothingLost
<1>. QED  BY <1>3, <1>5, <1>6, <1>7, <1>8, <1>9, Zenon DEF BcacheInv

LEMMA NextInv == BcacheInv /\ [BcacheNext]_bcacheVars => BcacheInv'
<1>1. ASSUME BcacheInv, UNCHANGED bcacheVars PROVE BcacheInv'
  <2>. USE <1>1 DEF bcacheVars, BcacheInv
  <2>1. Queued' = Queued /\ Uses' = Uses
    BY Zenon DEF Queued, Uses
  <2>2. BcacheTypeOK' /\ BuffersRight' /\ UsersRight'
    BY <2>1, Zenon DEF BcacheTypeOK, BuffersRight, UsersRight
  <2>3. LocksRight' /\ DataRight' /\ FlagsRight'
    BY <2>1, Zenon DEF LocksRight, DataRight, FlagsRight
  <2>4. QueueRight' /\ HeaderRight' /\ NothingLost'
    BY <2>1, Zenon DEF QueueRight, HeaderRight, NothingLost, Cached, NextCommand, Command
  <2>. QED  BY <2>2, <2>3, <2>4, Zenon
<1>. QED  BY <1>1, BgetStep, AcquireStep, IderwStep, IderwDoneStep, LogWriteStep, BwriteStep, BrelseStep, PutStep,
             KillWakesStep, IdeintrStep, Zenon DEF BcacheNext

LEMMA CacheInvariant == BcacheSpec => []BcacheInv
BY InitInv, NextInv, PTL DEF BcacheSpec

\* OneVersion: a block is in one buffer, refcnt counts who uses it, and
\* bread() returns the last version of it to one process at a time, however
\* bget(), the sleep-locks and the interrupts of the disk interleave.
THEOREM CacheCoherent == BcacheSpec => []OneVersion
<1>1. BcacheInv => OneVersion
  <2>. SUFFICES ASSUME BcacheInv PROVE OneVersion
    OBVIOUS
  <2>. USE DEF BcacheInv
  <2>1. BufferPerBlock
    <3>1. Range(lru) = Bufs
      BY BcacheAssumption DEF Range, BcacheTypeOK, BuffersRight
    <3>. QED  BY <3>1, Zenon DEF BufferPerBlock, BuffersRight, Uses
  <2>2. ReadsLatest
    <3>1. \A p \in Holding : /\ p \in Users /\ at[p] \in {"hold", "brelse"} /\ using[p] \in Bufs
                             /\ buf[using[p]].holder = p
      BY UsesBuffer, Zenon DEF Holding, LocksRight, Owning
    <3>2. \A p \in Holding : buf[using[p]].valid /\ buf[using[p]].data
      BY <3>1, Zenon DEF FlagsRight, DataRight
    <3>3. \A p \in Holding : \A q \in Holding \ {p} : using[q] # using[p]
      BY <3>1, Zenon
    <3>. QED  BY <3>1, <3>2, <3>3, Zenon DEF ReadsLatest
  <2>. QED  BY <2>1, <2>2, Zenon DEF OneVersion
<1>. QED  BY <1>1, CacheInvariant, PTL

\* NothingLost: the last version of a block is on the disk or in a buffer
\* that B_DIRTY keeps from being recycled.
THEOREM NoVersionLost == BcacheSpec => []NothingLost
<1>1. BcacheInv => NothingLost
  BY Zenon DEF BcacheInv
<1>. QED  BY <1>1, CacheInvariant, PTL

\* CacheMoves: with a buffer for each block of the log and one for each
\* process bget() never finds none, and who sleeps in the cache is woken by
\* the holder of the buffer or by the interrupt of the disk.
THEOREM NobodyStuck == BcacheSpec => []CacheMoves
<1>1. BcacheInv => CacheMoves
  <2>. SUFFICES ASSUME BcacheInv PROVE CacheMoves
    OBVIOUS
  <2>. USE DEF BcacheInv
  <2>1. BgetFinds
    BY Zenon DEF BgetFinds, BcacheTypeOK, Places
  <2>2. Queued = Range(idequeue)
    BY DEF Queued, Range, BcacheTypeOK
  <2>3. SleepersHaveWaker
    BY <2>2, Zenon DEF SleepersHaveWaker, LocksRight, QueueRight, NextCommand
  <2>. QED  BY <2>1, <2>3, Zenon DEF CacheMoves
<1>. QED  BY <1>1, CacheInvariant, PTL
=============================================================================
