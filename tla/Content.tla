------------------------------ MODULE Content -------------------------------
(***************************************************************************)
(* The contents of files: the block bitmap (balloc, bfree), the tree of    *)
(* block numbers of an inode with three levels of indirection (bmap,       *)
(* itrunc), reading and writing (readi, writei, fileread, filewrite), and  *)
(* the image that mkfs makes of the files it is given.                     *)
(*                                                                         *)
(* The unit of data is the word: a block is BSIZE words, and as an index   *)
(* block it holds BSIZE block numbers (NINDIRECT = BSIZE / sizeof(uint)).  *)
(* A block keeps its words when it is freed.  Each call runs under the     *)
(* lock of the inode, in a transaction that logs a set of blocks.          *)
(***************************************************************************)
EXTENDS Integers, Sequences, FiniteSets, FiniteSetsExt

CONSTANTS Files,       \* numbers of inodes
          NDIRECT, BSIZE,
          nmeta, FSSIZE, \* the first data block, and the size of the disk in blocks
          BPB,         \* bits per block of the bitmap
          MAXOPBLOCKS,
          MkfsSize,    \* words of each file in the image
          MaxSize,     \* bound: words of each file
          Lens,        \* lengths of the reads and writes
          MaxRemoves   \* bound: how many files are removed

NINDIRECT == BSIZE
MAXFILE == NDIRECT + NINDIRECT + NINDIRECT * NINDIRECT + NINDIRECT * NINDIRECT * NINDIRECT

\* mkfs knows one level of indirection, and lays the files out in order.
ASSUME ContentAssumption ==
  /\ Files \subseteq Nat \ {0} /\ NDIRECT \in Nat \ {0} /\ BSIZE \in Nat \ {0}
  /\ nmeta \in Nat \ {0} /\ FSSIZE \in Nat /\ nmeta < FSSIZE /\ BPB \in Nat \ {0}
  /\ MAXOPBLOCKS >= 10
  /\ \A f \in Files : MkfsSize[f] \in 0..((NDIRECT + NINDIRECT) * BSIZE)

VARIABLES bitmap,   \* the blocks marked in use
          block,    \* the words of every data block
          inode,    \* addrs and size of each file
          full,     \* panic("balloc: out of blocks")
          removes   \* how many files have been removed

contentVars == <<bitmap, block, inode, full, removes>>

Blocks == nmeta..(FSSIZE - 1)
Zeroes == [i \in 0..(BSIZE - 1) |-> 0]
NoFile == [addrs |-> [i \in 0..(NDIRECT + 2) |-> 0], size |-> 0]

\* The word that programs write at offset o of file f: it tells where it belongs.
Word(f, o) == f * 1000 + o
----------------------------------------------------------------------------
\* Disks: records [used, words, ip, log, full] that the functions below take
\* from one state to the next.

Disk == [used |-> bitmap, words |-> block, ip |-> inode, log |-> {}, full |-> FALSE]

Log(d, b) == [d EXCEPT !.log = @ \union {b}]

Data(b) == <<"data", b>>
BBLOCK(b) == <<"bitmap", b \div BPB>>
IBLOCK(f) == <<"inode", f>>

\* The first free block, zeroed.  Its number is Newest(d) of the disk before.
balloc(d) ==
  LET free == (0..(FSSIZE - 1)) \ d.used
  IN  IF free = {} THEN [d EXCEPT !.full = TRUE]
      ELSE [d EXCEPT !.used = @ \union {Min(free)},
                     !.words[Min(free)] = Zeroes,
                     !.log = @ \union {BBLOCK(Min(free)), Data(Min(free))}]

Newest(d) == IF (0..(FSSIZE - 1)) \subseteq d.used THEN 0 ELSE Min((0..(FSSIZE - 1)) \ d.used)

\* bfree() of every block of the set bs.  It panics if one is free already,
\* which BlocksAccounted excludes.
bfree(d, bs) == [d EXCEPT !.used = @ \ bs, !.log = @ \union {BBLOCK(b) : b \in bs}]

Path_LeafTwice(bn) ==
  LET n1 == bn - NDIRECT
      n2 == n1 - NINDIRECT
      n3 == n2 - NINDIRECT * NINDIRECT
  IN  CASE bn < NDIRECT               -> <<bn>>
        [] n1 \in 0..(NINDIRECT - 1)  -> <<NDIRECT, n1>>
        [] n2 \in 0..(NINDIRECT * NINDIRECT - 1) ->
             <<NDIRECT + 1, n2 \div NINDIRECT, n2 % NINDIRECT>>
        [] OTHER ->
             <<NDIRECT + 2, n3 \div (NINDIRECT * NINDIRECT), n3 % NINDIRECT, n3 % NINDIRECT>>

\* The slots that lead to block bn of a file: one of addrs[], then one of
\* each index block.
Path(bn) ==
  LET n1 == bn - NDIRECT
      n2 == n1 - NINDIRECT
      n3 == n2 - NINDIRECT * NINDIRECT
  IN  CASE bn < NDIRECT               -> <<bn>>
        [] n1 \in 0..(NINDIRECT - 1)  -> <<NDIRECT, n1>>
        [] n2 \in 0..(NINDIRECT * NINDIRECT - 1) ->
             <<NDIRECT + 1, n2 \div NINDIRECT, n2 % NINDIRECT>>
        [] OTHER ->
             <<NDIRECT + 2, n3 \div (NINDIRECT * NINDIRECT),
               (n3 % (NINDIRECT * NINDIRECT)) \div NINDIRECT, n3 % NINDIRECT>>

\* One level of bmap(): follow slot i of addrs[], or of the index block
\* addr, and allocate what is missing.  A changed index block is logged.
Descend(d, f, top, addr, i) ==
  LET next == IF top THEN d.ip[f].addrs[i] ELSE d.words[addr][i]
      new  == balloc(d)
  IN  IF d.full THEN [disk |-> d, addr |-> 0]
      ELSE IF next # 0 THEN [disk |-> d, addr |-> next]
      ELSE [addr |-> Newest(d),
            disk |-> IF new.full THEN new
                     ELSE IF top THEN [new EXCEPT !.ip[f].addrs[i] = Newest(d)]
                     ELSE Log([new EXCEPT !.words[addr][i] = Newest(d)], Data(addr))]

\* The disk after bmap(f, bn), and the block it returns.
bmap(d, f, bn) ==
  LET path == Path(bn)
      at[l \in 1..Len(path)] ==
        IF l = 1 THEN Descend(d, f, TRUE, 0, path[1])
        ELSE Descend(at[l - 1].disk, f, FALSE, at[l - 1].addr, path[l])
  IN  at[Len(path)]

\* The blocks below block b, which is the root of a tree of `depth' levels
\* of index blocks.
Below(d, b, depth) ==
  LET Entries(s) == {d.words[x][i] : x \in s, i \in 0..(NINDIRECT - 1)} \ {0}
      level[l \in 0..depth] == IF l = 0 THEN {b} \ {0} ELSE Entries(level[l - 1])
  IN  UNION {level[l] : l \in 0..depth}

Owned(d, f) ==
  LET a == d.ip[f].addrs
  IN  ({a[i] : i \in 0..(NDIRECT - 1)} \ {0}) \union Below(d, a[NDIRECT], 1)
      \union Below(d, a[NDIRECT + 1], 2) \union Below(d, a[NDIRECT + 2], 3)

\* itrunc() frees every block the inode leads to, index blocks included.
itrunc(d, f) == Log([bfree(d, Owned(d, f)) EXCEPT !.ip[f] = NoFile], IBLOCK(f))

\* The blocks that a transfer of n words at off touches.
Touched(off, n) == IF n = 0 THEN {} ELSE (off \div BSIZE)..((off + n - 1) \div BSIZE)

\* readi(): how many words it returns (-1: an error), the words, and the
\* disk, for bmap() may allocate.
ReadLen(d, f, off, n) ==
  IF off > d.ip[f].size THEN -1
  ELSE IF off + n > d.ip[f].size THEN d.ip[f].size - off ELSE n

MapRange(d, f, off, n) ==
  LET first == off \div BSIZE
      upto[k \in 0..Cardinality(Touched(off, n))] ==
        IF k = 0 THEN d ELSE bmap(upto[k - 1], f, first + k - 1).disk
  IN  upto[Cardinality(Touched(off, n))]

ReadWord(d, f, o) == d.words[bmap(d, f, o \div BSIZE).addr][o % BSIZE]

\* One turn of the loop of writei(): the words of one block.
WriteBlock(d, f, off, n, bn) ==
  LET m == bmap(d, f, bn)
      w == {i \in 0..(BSIZE - 1) : bn * BSIZE + i \in off..(off + n - 1)}
  IN  IF m.disk.full THEN m.disk
      ELSE Log([m.disk EXCEPT !.words[m.addr] =
                  [i \in 0..(BSIZE - 1) |-> IF i \in w THEN Word(f, bn * BSIZE + i) ELSE @[i]]], Data(m.addr))

WriteLen(d, f, off, n) ==
  IF off > d.ip[f].size \/ off + n > MAXFILE * BSIZE THEN -1 ELSE n

writei(d, f, off, n) ==
  LET first == off \div BSIZE
      turns == Cardinality(Touched(off, n))
      upto[k \in 0..turns] ==
        IF k = 0 THEN d ELSE WriteBlock(upto[k - 1], f, off, n, first + k - 1)
  IN  IF upto[turns].full \/ n = 0 \/ off + n <= d.ip[f].size THEN upto[turns]
      ELSE Log([upto[turns] EXCEPT !.ip[f].size = off + n], IBLOCK(f))
----------------------------------------------------------------------------
ChunkMax_OneLevel == ((MAXOPBLOCKS - 1 - 1 - 2) \div 2) * BSIZE

\* What filewrite() writes in one transaction at most.
ChunkMax == ((MAXOPBLOCKS - 1 - 3 - 4) \div 2) * BSIZE

\* The loop of filewrite(): transactions of at most ChunkMax words.  i is how
\* far it has come, most the blocks of its largest transaction.
Chunk(q, f, off, n) ==
  LET n1 == IF n - q.i > ChunkMax THEN ChunkMax ELSE n - q.i
      d  == writei([q.disk EXCEPT !.log = {}], f, off + q.i, n1)
  IN  IF q.i = n \/ q.bad \/ q.disk.full THEN q
      ELSE IF WriteLen(q.disk, f, off + q.i, n1) < 0 THEN [q EXCEPT !.bad = TRUE]
      ELSE [disk |-> d, i |-> q.i + n1, most |-> IF Cardinality(d.log) > q.most THEN Cardinality(d.log) ELSE q.most,
            bad |-> FALSE]

WriteChunks(d, f, off, n) ==
  LET upto[k \in 0..n] ==
        IF k = 0 THEN [disk |-> d, i |-> 0, most |-> 0, bad |-> FALSE] ELSE Chunk(upto[k - 1], f, off, n)
  IN  upto[n]

Becomes(d) == bitmap' = d.used /\ block' = d.words /\ inode' = d.ip /\ full' = d.full

\* fileread() of n words at off.
FileRead(f, off, n) ==
  LET r == ReadLen(Disk, f, off, n)
  IN  ~full /\ Becomes(IF r > 0 THEN MapRange(Disk, f, off, r) ELSE Disk) /\ UNCHANGED removes

\* filewrite() of n words at off.
FileWrite(f, off, n) ==
  /\ ~full /\ off + n <= MaxSize[f]
  /\ Becomes(WriteChunks(Disk, f, off, n).disk) /\ UNCHANGED removes

\* The last link and the last reference go: iput() truncates the inode, and
\* create() may take it for a new file.
RemoveFile(f) ==
  /\ ~full /\ inode[f].size > 0 /\ removes < MaxRemoves
  /\ Becomes(itrunc(Disk, f)) /\ removes' = removes + 1
----------------------------------------------------------------------------
\* iappend() of mkfs, one word at offset o.  Blocks come from a counter.
iappend(m, f, o) ==
  LET path == Path(o \div BSIZE)
      x1   == IF m.ip[f].addrs[path[1]] # 0 THEN m.ip[f].addrs[path[1]] ELSE m.freeblock
      m1   == IF x1 = m.freeblock
              THEN [m EXCEPT !.freeblock = @ + 1, !.ip[f].addrs[path[1]] = x1] ELSE m
      x2   == IF Len(path) = 1 THEN x1
              ELSE IF m1.words[x1][path[2]] # 0 THEN m1.words[x1][path[2]] ELSE m1.freeblock
      m2   == IF x2 = m1.freeblock
              THEN [m1 EXCEPT !.freeblock = @ + 1, !.words[x1][path[2]] = x2] ELSE m1
  IN  [m2 EXCEPT !.words[x2][o % BSIZE] = Word(f, o), !.ip[f].size = o + 1]

\* The loop of mkfs over its arguments: file after file, word after word.
Image ==
  LET jobs == [f \in 0..Max(Files) |-> IF f \in Files THEN MkfsSize[f] ELSE 0]
      Whole(m, f) ==
        LET upto[k \in 0..jobs[f]] == IF k = 0 THEN m ELSE iappend(upto[k - 1], f, k - 1)
        IN  upto[jobs[f]]
      made[f \in 0..Max(Files)] ==
        IF f = 0 THEN [words |-> [b \in Blocks |-> Zeroes], ip |-> [g \in Files |-> NoFile], freeblock |-> nmeta]
        ELSE Whole(made[f - 1], f)
  IN  made[Max(Files)]

\* The blocks that balloc() of mkfs marks in the bitmap.
Marked(m) == 0..(m.freeblock - 1)

ContentInit ==
  /\ bitmap = Marked(Image) /\ block = Image.words /\ inode = Image.ip
  /\ full = FALSE /\ removes = 0

\* The offset of an open file is where its reads and writes have brought it,
\* anywhere up to the size.
ContentNext ==
  \E f \in Files : \/ \E off \in 0..inode[f].size, n \in Lens : FileRead(f, off, n) \/ FileWrite(f, off, n)
                   \/ RemoveFile(f)

ContentSpec == ContentInit /\ [][ContentNext]_contentVars
----------------------------------------------------------------------------
\* A file is a flat array: every word below its size is the one that was last
\* written at that offset, by a program or by mkfs, across all boundaries
\* between direct and indirect blocks and whatever was in the block before
\* (bmap(), writei() and readi() agree, and balloc() zeroes).
FlatContents ==
  ~full => \A f \in Files : \A o \in 0..(inode[f].size - 1) : ReadWord(Disk, f, o) = Word(f, o)

\* No block belongs to two files, or twice to one, and a block is marked in
\* the bitmap exactly if it is reserved or belongs to a file: itrunc() leaks
\* and bmap() shares nothing.
BlocksAccounted ==
  ~full => /\ bitmap = (0..(nmeta - 1)) \union UNION {Owned(Disk, f) : f \in Files}
           /\ \A f, g \in Files : f # g => Owned(Disk, f) \cap Owned(Disk, g) = {}
           /\ \A f \in Files :
                Cardinality({bmap(Disk, f, b).addr : b \in Touched(0, inode[f].size)})
                  = Cardinality(Touched(0, inode[f].size))

\* A transaction of filewrite(), unaligned and with index blocks to allocate
\* on the way, logs at most MAXOPBLOCKS - 2 blocks: what log_write() needs so
\* that it never panics (NoPanic of module Log).
TransactionFits ==
  ~full => \A f \in Files : \A off \in {inode[f].size - 1, inode[f].size} \cap Nat :
             WriteChunks(Disk, f, off, MAXOPBLOCKS * BSIZE).most <= MAXOPBLOCKS - 2
=============================================================================
