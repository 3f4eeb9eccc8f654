------------------------------- MODULE Inode --------------------------------
(***************************************************************************)
(* The directory tree: the inode cache (iget, ilock, iput of fs.c), path   *)
(* lookup (namex), directories (dirlookup, dirlink) and the system calls   *)
(* that change the tree (sysfile.c).  A section under an inode's sleep-    *)
(* lock is one action; a call that keeps a lock while it waits for another *)
(* holds it across actions.  iput() is three steps: its test under the     *)
(* lock, the truncation, and the separate ref--.                           *)
(*                                                                         *)
(* iget() gives an inode number one cache entry under icache.lock, so the  *)
(* cache is indexed by inode number; at most NINODE entries are in use.    *)
(* Directory blocks are read and written under the directory's lock: only  *)
(* what is on disk is kept.  The log makes each call atomic with respect   *)
(* to crashes (module Log); the contents of files are module Content's.    *)
(***************************************************************************)
EXTENDS Integers, Sequences, FiniteSets

CONSTANTS Procs, NoProc,
          NINODES,     \* inodes on the disk, numbered from 1
          NINODE,      \* entries of the inode cache
          Names,       \* names of directory entries other than "." and ".."
          SysCalls     \* the calls of each process: <<call, path, second path of link()>>

ASSUME InodeAssumption ==
  /\ IsFiniteSet(Procs) /\ NoProc \notin Procs
  /\ NINODES \in Nat \ {0} /\ NINODE \in Nat
  /\ \A p \in Procs :
       SysCalls[p] \subseteq {"open", "create", "mkdir", "mknod", "link", "unlink", "chdir"}
                          \X Seq(Names \union {".", ".."}) \X Seq(Names \union {".", ".."})

Inums == 1..NINODES
ROOTINO == 1

VARIABLES dinode,    \* the inodes on disk; a directory's entries are ent and dotdot
          icache,    \* cache entry of each inode
          cwd, file, \* of each process: working directory, one open file (0: none)
          pc, loc    \* where each process is, and its locals

vars == <<dinode, icache, cwd, file, pc, loc>>

FreeInode == [type |-> "free", nlink |-> 0, ent |-> [n \in Names |-> 0], dotdot |-> 0]
NoLoc == [call |-> "none", path |-> <<>>, new |-> <<>>, w |-> 0, dp |-> 0, ip |-> 0,
          put |-> 0, cont |-> "idle"]
----------------------------------------------------------------------------
\* Pure parts: what the helpers of fs.c make of the cache ic and the disk di.

\* iget() and idup(): a recycled entry is not valid.
iget(ic, i) ==
  IF ic[i].ref > 0 THEN [ic EXCEPT ![i].ref = @ + 1]
  ELSE [ic EXCEPT ![i].ref = 1, ![i].valid = FALSE]

\* The part of ilock() after acquiresleep(): read from disk if necessary.
Loaded(ic, i) ==
  IF ic[i].valid THEN ic
  ELSE [ic EXCEPT ![i].valid = TRUE, ![i].type = dinode[i].type, ![i].nlink = dinode[i].nlink]

dirlookup(i, name) ==
  CASE name = "."  -> i
    [] name = ".." -> dinode[i].dotdot
    [] OTHER       -> dinode[i].ent[name]

\* iupdate() after a change of nlink by k, which writes the inode through.
Relinked(ic, i, k) == [ic EXCEPT ![i].nlink = @ + k]
iupdate(di, ic, i) == [di EXCEPT ![i].type = ic[i].type, ![i].nlink = ic[i].nlink]

isdirempty(i) == \A n \in Names : dinode[i].ent[n] = 0

Locked(ic, i, p) == [ic EXCEPT ![i].lock = p]
Unlocked(ic, i)  == [ic EXCEPT ![i].lock = NoProc]
Free(i) == icache[i].lock = NoProc

\* ilock() of an inode that is free on disk panics ("ilock: no type").
NoType(i) == ~icache[i].valid /\ dinode[i].type = "free"

CacheFull(i) == icache[i].ref = 0 /\ Cardinality({j \in Inums : icache[j].ref > 0}) >= NINODE
----------------------------------------------------------------------------
Goto(p, label, l) == pc' = [pc EXCEPT ![p] = label] /\ loc' = [loc EXCEPT ![p] = l]

\* iput(i) is called next; afterwards the process continues at cont.
ThenPut(p, l, i, cont) == Goto(p, "put", [l EXCEPT !.put = i, !.cont = cont])

Panic(p) == Goto(p, "panic", loc[p]) /\ UNCHANGED <<dinode, icache, cwd, file>>

ByParent == {"create", "mkdir", "mknod", "unlink"}
Start(p) == {ROOTINO, cwd[p]}

\* Where namex() leads: link() walks twice, and its second walk is by parent.
ToParent(l) == l.call \in ByParent \/ (l.call = "link" /\ l.ip # 0)
Target(l) == CASE l.call = "link" /\ l.ip # 0 -> "link2"
               [] l.call \in {"create", "mkdir", "mknod"} -> "create"
               [] OTHER -> l.call
OnFailure(l) == IF l.call = "link" /\ l.ip # 0 THEN "linkbad" ELSE "idle"

\* The arguments of a system call, and namex() up to its loop: from the root
\* or from the working directory.
Begin(p) ==
  /\ pc[p] = "idle"
  /\ \E c \in SysCalls[p], from \in Start(p) :
       /\ ~CacheFull(from)
       /\ icache' = iget(icache, from)
       /\ LET l == [NoLoc EXCEPT !.call = c[1], !.path = c[2], !.w = from, !.new = c[3]]
          IN  IF c[2] = <<>> THEN Goto(p, Target(l), [l EXCEPT !.w = 0, !.ip = from])
              ELSE Goto(p, "walk", l)
  /\ UNCHANGED <<dinode, cwd, file>>

\* The last path element has been looked up: the inode found is ip.
Found(l, next) == [l EXCEPT !.path = <<>>, !.w = 0, !.ip = next]

\* One turn of the loop of namex().
Walk(p) ==
  LET l    == loc[p]
      ic   == Loaded(icache, l.w)
      name == Head(l.path)
      next == dirlookup(l.w, name)
  IN  /\ pc[p] = "walk" /\ Free(l.w)
      /\ \/ NoType(l.w) /\ Panic(p)
         \/ /\ ~NoType(l.w)
            /\ \/ /\ ic[l.w].type # "DIR"
                  /\ icache' = ic
                  /\ ThenPut(p, [l EXCEPT !.w = 0, !.path = <<>>], l.w, OnFailure(l))
               \/ /\ ic[l.w].type = "DIR" /\ ToParent(l) /\ Len(l.path) = 1
                  /\ icache' = ic
                  /\ Goto(p, Target(l), [l EXCEPT !.w = 0, !.dp = l.w])
               \/ /\ ic[l.w].type = "DIR" /\ ~(ToParent(l) /\ Len(l.path) = 1) /\ next = 0
                  /\ icache' = ic
                  /\ ThenPut(p, [l EXCEPT !.w = 0, !.path = <<>>], l.w, OnFailure(l))
               \/ /\ ic[l.w].type = "DIR" /\ ~(ToParent(l) /\ Len(l.path) = 1) /\ next # 0
                  /\ ~CacheFull(next)
                  /\ icache' = iget(ic, next)
                  /\ IF Len(l.path) = 1 THEN ThenPut(p, Found(l, next), l.w, Target(l))
                     ELSE ThenPut(p, [l EXCEPT !.path = Tail(@), !.w = next], l.w, "walk")
            /\ UNCHANGED <<dinode, cwd, file>>
----------------------------------------------------------------------------
Last_Any(ic, i) == TRUE
Last(ic, i) == ic[i].ref = 1

NoEntry == [ref |-> 0, valid |-> FALSE, type |-> "free", nlink |-> 0, lock |-> NoProc]

\* The ref-- at the end of iput(), and where the process goes on: link() has
\* another iput() to make.  Nobody looks at an entry without references
\* before iget() recycles it.
Dropped(p, i) ==
  LET l == loc[p]
  IN  /\ icache' = [icache EXCEPT ![i] = IF @.ref = 1 THEN NoEntry ELSE [@ EXCEPT !.ref = @ - 1]]
      /\ CASE l.cont = "link3" -> ThenPut(p, NoLoc, l.ip, "idle")
           [] l.cont = "idle"  -> Goto(p, "idle", NoLoc)
           [] OTHER            -> Goto(p, l.cont, [l EXCEPT !.put = 0, !.cont = "idle"])

\* iput(): the test under the inode's lock and icache.lock.  The root always
\* has a link, so that the moment of its ref-- makes no difference.
Put(p) ==
  LET i == loc[p].put
      frees == icache[i].valid /\ icache[i].nlink = 0 /\ Last(icache, i)
  IN  /\ pc[p] = "put" /\ Free(i)
      /\ \/ i = ROOTINO /\ Dropped(p, i)
         \/ /\ i # ROOTINO
            /\ pc' = [pc EXCEPT ![p] = IF frees THEN "itrunc" ELSE "drop"]
            /\ icache' = IF frees THEN Locked(icache, i, p) ELSE icache
            /\ UNCHANGED loc
      /\ UNCHANGED <<dinode, cwd, file>>

\* itrunc(), type = 0, iupdate(), valid = 0, and the lock released.
Itrunc(p) ==
  LET i == loc[p].put
  IN  /\ pc[p] = "itrunc"
      /\ dinode' = [dinode EXCEPT ![i] = FreeInode]
      /\ icache' = [icache EXCEPT ![i].valid = FALSE, ![i].type = "free", ![i].lock = NoProc]
      /\ pc' = [pc EXCEPT ![p] = "drop"]
      /\ UNCHANGED <<cwd, file, loc>>

Drop(p) ==
  /\ pc[p] = "drop"
  /\ Dropped(p, loc[p].put)
  /\ UNCHANGED <<dinode, cwd, file>>
----------------------------------------------------------------------------
\* ilock(i), by a process that waits until the lock is free.
IlockPanics(p, i) == Free(i) /\ NoType(i) /\ Panic(p)
Ilock(i) == Free(i) /\ ~NoType(i)

\* sys_open() once ip is locked: no file left, or the file takes over ip.
OpenTail(p, ic) ==
  LET l == loc[p] IN
    \/ /\ file[p] # 0
       /\ icache' = Unlocked(ic, l.ip)
       /\ ThenPut(p, NoLoc, l.ip, "idle")
       /\ UNCHANGED file
    \/ /\ file[p] = 0
       /\ icache' = Unlocked(ic, l.ip)
       /\ file' = [file EXCEPT ![p] = l.ip]
       /\ Goto(p, "idle", NoLoc)

\* The given inode is unlocked and put, and the call is over.
Unlockput(p, ic, i) ==
  /\ icache' = Unlocked(ic, i)
  /\ ThenPut(p, NoLoc, i, "idle")
  /\ UNCHANGED file

\* sys_open() without O_CREATE; a directory can only be opened for reading.
SysOpen(p) ==
  LET ip == loc[p].ip
      ic == Loaded(icache, ip)
  IN  /\ pc[p] = "open"
      /\ \/ IlockPanics(p, ip)
         \/ /\ Ilock(ip)
            /\ \/ ic[ip].type = "DIR" /\ Unlockput(p, ic, ip)
               \/ OpenTail(p, ic)
            /\ UNCHANGED <<dinode, cwd>>

\* close() of the open file (fileclose()).
SysClose(p) ==
  /\ pc[p] = "idle" /\ file[p] # 0
  /\ ThenPut(p, NoLoc, file[p], "idle")
  /\ file' = [file EXCEPT ![p] = 0]
  /\ UNCHANGED <<dinode, icache, cwd>>

SysChdir(p) ==
  LET ip == loc[p].ip
      ic == Loaded(icache, ip)
  IN  /\ pc[p] = "chdir"
      /\ \/ IlockPanics(p, ip)
         \/ Ilock(ip) /\ ic[ip].type # "DIR" /\ Unlockput(p, ic, ip) /\ UNCHANGED <<dinode, cwd>>
         \/ /\ Ilock(ip) /\ ic[ip].type = "DIR"
            /\ icache' = ic
            /\ ThenPut(p, NoLoc, cwd[p], "idle")
            /\ cwd' = [cwd EXCEPT ![p] = ip]
            /\ UNCHANGED <<dinode, file>>
----------------------------------------------------------------------------
TypeOf(call) == CASE call = "mkdir" -> "DIR" [] call = "mknod" -> "DEV" [] OTHER -> "FILE"

\* ialloc(): the first inode that is free on disk.
ialloc == {i \in Inums : dinode[i].type = "free" /\ \A j \in 1..(i - 1) : dinode[j].type # "free"}

NameOf(l) == l.path[Len(l.path)]

\* What create() writes: the new inode with its dots, and the entry in dp; a
\* new directory is a link to its parent.
Created_NoParentLink(dp, ip, name, type) ==
  [dinode EXCEPT
     ![ip] = [FreeInode EXCEPT !.type = type, !.nlink = 1, !.dotdot = IF type = "DIR" THEN dp ELSE 0],
     ![dp].ent[name] = ip]

Created(dp, ip, name, type) ==
  [dinode EXCEPT
     ![ip] = [FreeInode EXCEPT !.type = type, !.nlink = 1, !.dotdot = IF type = "DIR" THEN dp ELSE 0],
     ![dp].ent[name] = ip,
     ![dp].nlink = @ + IF type = "DIR" THEN 1 ELSE 0]

\* create() from ilock(dp) on.  A name that exists: dp is put before ip is
\* locked ("exists").  A new one: everything is written under dp's lock, and
\* dp is put while the new inode is locked ("created").
Create(p) ==
  LET l    == loc[p]
      ic   == Loaded(icache, l.dp)
      old  == dirlookup(l.dp, NameOf(l))
  IN  /\ pc[p] = "create"
      /\ \/ IlockPanics(p, l.dp)
         \/ /\ Ilock(l.dp) /\ old # 0 /\ ~CacheFull(old)
            /\ icache' = iget(ic, old)
            /\ ThenPut(p, [l EXCEPT !.ip = old, !.dp = 0, !.path = <<>>], l.dp, "exists")
            /\ UNCHANGED dinode
         \/ /\ Ilock(l.dp) /\ old = 0
            /\ \E ip \in ialloc :
                 LET di == Created(l.dp, ip, NameOf(l), TypeOf(l.call))
                     a  == iget(ic, ip)
                 IN  /\ ~CacheFull(ip) /\ Free(ip)
                     /\ dinode' = di
                     /\ icache' = [a EXCEPT ![ip].valid = TRUE, ![ip].type = di[ip].type,
                                            ![ip].nlink = 1, ![ip].lock = p,
                                            ![l.dp].nlink = di[l.dp].nlink]
                     /\ ThenPut(p, [l EXCEPT !.ip = ip, !.dp = 0, !.path = <<>>], l.dp, "created")
      /\ UNCHANGED <<cwd, file>>

\* The rest of sys_open(), sys_mkdir() and sys_mknod().
CreateExists(p) ==
  LET ip == loc[p].ip
      ic == Loaded(icache, ip)
  IN  /\ pc[p] = "exists"
      /\ \/ IlockPanics(p, ip)
         \/ /\ Ilock(ip)
            /\ \/ loc[p].call = "create" /\ ic[ip].type = "FILE" /\ OpenTail(p, ic)
               \/ ~(loc[p].call = "create" /\ ic[ip].type = "FILE") /\ Unlockput(p, ic, ip)
            /\ UNCHANGED <<dinode, cwd>>

CreateDone(p) ==
  /\ pc[p] = "created"
  /\ IF loc[p].call = "create" THEN OpenTail(p, icache) ELSE Unlockput(p, icache, loc[p].ip)
  /\ UNCHANGED <<dinode, cwd>>
----------------------------------------------------------------------------
\* sys_unlink() up to ilock(ip), which it waits for with dp locked.
SysUnlink(p) ==
  LET l    == loc[p]
      ic   == Loaded(icache, l.dp)
      ip   == dirlookup(l.dp, NameOf(l))
      ok   == NameOf(l) \in Names /\ ip # 0
  IN  /\ pc[p] = "unlink"
      /\ \/ IlockPanics(p, l.dp)
         \/ Ilock(l.dp) /\ ~ok /\ Unlockput(p, ic, l.dp)
         \/ /\ Ilock(l.dp) /\ ok /\ ~CacheFull(ip)
            /\ icache' = Locked(iget(ic, ip), l.dp, p)
            /\ Goto(p, "unlink2", [l EXCEPT !.ip = ip])
            /\ UNCHANGED file
      /\ UNCHANGED <<dinode, cwd>>

MayRemove(ip, type) == type = "DIR" => isdirempty(ip)

\* A directory that goes is one link less to its parent.
ParentLinks(type) == IF type = "DIR" THEN -1 ELSE 0

\* With both locked: the entry goes, dp is unlocked and put while ip stays locked.
SysUnlink2(p) ==
  LET l   == loc[p]
      ic  == Loaded(icache, l.ip)
      less == Relinked(ic, l.dp, ParentLinks(ic[l.ip].type))
  IN  /\ pc[p] = "unlink2"
      /\ \/ IlockPanics(p, l.ip)
         \/ Ilock(l.ip) /\ ic[l.ip].nlink < 1 /\ Panic(p)
         \/ /\ Ilock(l.ip) /\ ic[l.ip].nlink >= 1 /\ ~MayRemove(l.ip, ic[l.ip].type)
            /\ icache' = ic
            /\ ThenPut(p, [l EXCEPT !.ip = 0, !.path = <<>>], l.ip, "unlinkbad")
            /\ UNCHANGED dinode
         \/ /\ Ilock(l.ip) /\ ic[l.ip].nlink >= 1 /\ MayRemove(l.ip, ic[l.ip].type)
            /\ dinode' = [iupdate(dinode, less, l.dp) EXCEPT ![l.dp].ent[NameOf(l)] = 0]
            /\ icache' = Locked(Unlocked(less, l.dp), l.ip, p)
            /\ ThenPut(p, [l EXCEPT !.dp = 0, !.path = <<>>], l.dp, "unlink3")
      /\ UNCHANGED <<cwd, file>>

SysUnlinkBad(p) ==
  /\ pc[p] = "unlinkbad"
  /\ Unlockput(p, icache, loc[p].dp)
  /\ UNCHANGED <<dinode, cwd>>

\* ip loses its link and is put.
SysUnlink3(p) ==
  LET ip == loc[p].ip
      ic == Relinked(icache, ip, -1)
  IN  /\ pc[p] = "unlink3"
      /\ dinode' = iupdate(dinode, ic, ip)
      /\ Unlockput(p, ic, ip)
      /\ UNCHANGED cwd

MayLink(type) == type # "DIR"

\* sys_link() counts the new link before it is made, and looks for its parent.
SysLink(p) ==
  LET l    == loc[p]
      ic   == Loaded(icache, l.ip)
      more == Relinked(ic, l.ip, 1)
  IN  /\ pc[p] = "link"
      /\ \/ IlockPanics(p, l.ip)
         \/ Ilock(l.ip) /\ ~MayLink(ic[l.ip].type) /\ Unlockput(p, ic, l.ip) /\ UNCHANGED dinode
         \/ /\ Ilock(l.ip) /\ MayLink(ic[l.ip].type)
            /\ dinode' = iupdate(dinode, more, l.ip)
            /\ \E from \in Start(p) :
                 /\ ~CacheFull(from)
                 /\ icache' = iget(more, from)
                 /\ Goto(p, "walk", [l EXCEPT !.path = l.new, !.new = <<>>, !.w = from])
            /\ UNCHANGED file
      /\ UNCHANGED cwd

\* dirlink(): a name that exists is put with dp still locked.
SysLink2(p) ==
  LET l   == loc[p]
      ic  == Loaded(icache, l.dp)
      old == dirlookup(l.dp, NameOf(l))
  IN  /\ pc[p] = "link2"
      /\ \/ IlockPanics(p, l.dp)
         \/ /\ Ilock(l.dp) /\ old # 0 /\ ~CacheFull(old)
            /\ icache' = Locked(iget(ic, old), l.dp, p)
            /\ ThenPut(p, [l EXCEPT !.path = <<>>], old, "link2bad")
            /\ UNCHANGED dinode
         \/ /\ Ilock(l.dp) /\ old = 0
            /\ dinode' = [dinode EXCEPT ![l.dp].ent[NameOf(l)] = l.ip]
            /\ icache' = ic
            /\ ThenPut(p, [l EXCEPT !.dp = 0, !.path = <<>>], l.dp, "link3")
      /\ UNCHANGED <<cwd, file>>

SysLink2Bad(p) ==
  /\ pc[p] = "link2bad"
  /\ icache' = Unlocked(icache, loc[p].dp)
  /\ ThenPut(p, [loc[p] EXCEPT !.dp = 0], loc[p].dp, "linkbad")
  /\ UNCHANGED <<dinode, cwd, file>>

\* "bad": the link that was counted is taken back.
SysLinkBad(p) ==
  LET ip == loc[p].ip
      ic == Relinked(Loaded(icache, ip), ip, -1)
  IN  /\ pc[p] = "linkbad"
      /\ \/ IlockPanics(p, ip)
         \/ /\ Ilock(ip)
            /\ dinode' = iupdate(dinode, ic, ip)
            /\ Unlockput(p, ic, ip)
            /\ UNCHANGED cwd
----------------------------------------------------------------------------
\* mkfs makes the root directory; it is every process's first cwd (userinit()).
Init ==
  /\ dinode = [i \in Inums |->
                 IF i = ROOTINO THEN [FreeInode EXCEPT !.type = "DIR", !.nlink = 1, !.dotdot = ROOTINO]
                 ELSE FreeInode]
  /\ icache = [i \in Inums |-> [NoEntry EXCEPT !.ref = IF i = ROOTINO THEN Cardinality(Procs) ELSE 0]]
  /\ cwd = [p \in Procs |-> ROOTINO]
  /\ file = [p \in Procs |-> 0]
  /\ pc = [p \in Procs |-> "idle"]
  /\ loc = [p \in Procs |-> NoLoc]

Next ==
  \E p \in Procs :
    \/ Begin(p) \/ Walk(p) \/ Put(p) \/ Itrunc(p) \/ Drop(p)
    \/ SysOpen(p) \/ SysClose(p) \/ SysChdir(p)
    \/ Create(p) \/ CreateExists(p) \/ CreateDone(p)
    \/ SysUnlink(p) \/ SysUnlink2(p) \/ SysUnlinkBad(p) \/ SysUnlink3(p)
    \/ SysLink(p) \/ SysLink2(p) \/ SysLink2Bad(p) \/ SysLinkBad(p)

Spec == Init /\ [][Next]_vars
----------------------------------------------------------------------------
Labels == {"idle", "walk", "put", "itrunc", "drop", "panic", "open", "chdir", "create",
           "exists", "created", "unlink", "unlink2", "unlink3", "unlinkbad",
           "link", "link2", "link2bad", "linkbad"}

TypeOK ==
  /\ dinode \in [Inums -> [type : {"free", "DIR", "FILE", "DEV"}, nlink : Nat,
                           ent : [Names -> 0..NINODES], dotdot : 0..NINODES]]
  /\ icache \in [Inums -> [ref : Nat, valid : BOOLEAN, type : {"free", "DIR", "FILE", "DEV"},
                           nlink : Nat, lock : Procs \union {NoProc}]]
  /\ cwd \in [Procs -> Inums] /\ file \in [Procs -> 0..NINODES]
  /\ pc \in [Procs -> Labels]

\* The pointers a process has to inodes: its working directory, its open
\* file, and the ones in its system call.
Pointers(p) == <<cwd[p], file[p], loc[p].w, loc[p].dp, loc[p].ip, loc[p].put>>

\* icache.ref is the number of these pointers: iget(), idup() and iput() are
\* paired on every path through the system calls, the failing ones included.
RefExact ==
  \A i \in Inums :
    icache[i].ref = Cardinality({x \in Procs \X (1..6) : Pointers(x[1])[x[2]] = i})

\* None of the panics of ilock() ("no type") and of sys_unlink() ("nlink < 1")
\* happens: no lookup ever finds an inode that has been freed meanwhile.
NoPanic == \A p \in Procs : pc[p] # "panic"

\* The links to i that a walk can take: entries with its name, and the ".."
\* of the directories in it; the root has one by birth.
Entries(i) == {x \in Inums \X Names : dinode[x[1]].ent[x[2]] = i}
Children(i) == {n \in Names : dinode[i].ent[n] # 0 /\ dinode[dinode[i].ent[n]].type = "DIR"}

\* nlink never falls below the number of links that exist, at any point of
\* the calls that change them, and what an entry names is not free: link()
\* counts first, unlink() last.
LinksCounted ==
  \A i \in Inums :
    /\ Entries(i) # {} => dinode[i].type # "free"
    /\ Cardinality(Entries(i)) + Cardinality(Children(i)) + (IF i = ROOTINO THEN 1 ELSE 0)
         <= dinode[i].nlink

\* iput() frees an inode on disk only when nobody else has it: the working
\* directory, the open file and the inodes a system call works on are
\* allocated, also when their last link has gone.
HeldNotFree ==
  \A p \in Procs, i \in Inums :
    i \in {cwd[p], file[p], loc[p].w, loc[p].dp, loc[p].ip} => dinode[i].type # "free"

\* A directory is named by at most one entry, the one in the directory that
\* its ".." names: the tree has no cycles and no shared directories.
DirTree ==
  \A i \in Inums : dinode[i].type = "DIR" =>
    /\ Cardinality(Entries(i)) <= 1
    /\ \A x \in Entries(i) : dinode[i].dotdot = x[1]

\* An inode lives while somebody has it: every pointer is counted, what is
\* pointed to is not free, and no lookup panics.
InodesHeld == TypeOK /\ RefExact /\ HeldNotFree /\ NoPanic

\* The directories are a tree and the links in it are counted, at every point
\* of concurrent create(), link(), unlink() and mkdir() calls.
TreeSound == LinksCounted /\ DirTree

\* When the last reference to an inode without links has gone, the inode is
\* free on disk, as the comment of iput() says.
NoLeak == \A i \in Inums : icache[i].ref = 0 /\ dinode[i].nlink = 0 => dinode[i].type = "free"

\* The inode whose lock a process needs for its next step (0: none).
Wanted(p) ==
  CASE pc[p] = "walk" -> loc[p].w
    [] pc[p] = "put" -> loc[p].put
    [] pc[p] \in {"create", "unlink", "link2"} -> loc[p].dp
    [] pc[p] \in {"exists", "open", "chdir", "unlink2", "link", "linkbad"} -> loc[p].ip
    [] OTHER -> 0

\* No processes wait for each other's inode locks for ever.
NoLockCycle ==
  ~\E S \in SUBSET Procs \ {{}} :
     \A p \in S : Wanted(p) # 0 /\ icache[Wanted(p)].lock \in S
=============================================================================
