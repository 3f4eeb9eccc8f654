----------------------------- MODULE FileProofs -----------------------------
(***************************************************************************)
(* Proofs about File and Pipe for any number of processes, descriptors,    *)
(* struct files and pages, any size of a pipe and any word: what is open   *)
(* is what somebody can still close, bytes stay in order, and nobody       *)
(* sleeps beside a pipe that is ready.                                     *)
(***************************************************************************)
EXTENDS FileIoProofs, FiniteSetTheorems, TLAPS

\* The descriptors that point to struct file f, the processes for which
\* pipealloc() holds it, the struct files of the inode, and the processes
\* that are about to iput() it.
Pointers(o, f) == {d \in Procs \X Fds : o[d[1]][d[2]] = f}
Makers(l, c, f) == {p \in Procs : l[p] = "pipealloc" /\ c[p].f = f}
InodeFiles(t) == {f \in Files : t[f].ref > 0 /\ t[f].type = "INODE"}
InodeClosers(l, c) == {p \in Procs : l[p] \in {"close", "exitclose"} /\ c[p].page = 0}

LEMMA AllFinite ==
  /\ \A o, f : IsFiniteSet(Pointers(o, f)) /\ Cardinality(Pointers(o, f)) \in Nat
  /\ \A l, c, f : IsFiniteSet(Makers(l, c, f)) /\ Cardinality(Makers(l, c, f)) \in Nat
  /\ \A t : IsFiniteSet(InodeFiles(t)) /\ Cardinality(InodeFiles(t)) \in Nat
  /\ \A l, c : IsFiniteSet(InodeClosers(l, c)) /\ Cardinality(InodeClosers(l, c)) \in Nat
<1>1. IsFiniteSet(Procs) /\ IsFiniteSet(Fds) /\ IsFiniteSet(Files)
  <2>1. NOFILE - 1 \in Int /\ NFILE \in Int /\ 0 \in Int /\ 1 \in Int
    BY FileAssumption
  <2>. QED  BY <2>1, FileAssumption, FS_Interval, Zenon DEF Fds, Files
<1>2. IsFiniteSet(Procs \X Fds)
  BY <1>1, FS_Product, Zenon
<1>3. \A o, f : IsFiniteSet(Pointers(o, f))
  BY <1>2, FS_Subset, Zenon DEF Pointers
<1>4. \A l, c, f : IsFiniteSet(Makers(l, c, f))
  BY <1>1, FS_Subset, Zenon DEF Makers
<1>5. \A t : IsFiniteSet(InodeFiles(t))
  BY <1>1, FS_Subset, Zenon DEF InodeFiles
<1>6. \A l, c : IsFiniteSet(InodeClosers(l, c))
  BY <1>1, FS_Subset, Zenon DEF InodeClosers
<1>. QED  BY <1>3, <1>4, <1>5, <1>6, FS_CardinalityType, Zenon

\* A descriptor that is closed or set counts one less or one more.
SameBut(o, n, p, fd) ==
  \A q \in Procs, e \in Fds : ~(q = p /\ e = fd) => n[q][e] = o[q][e]

LEMMA PointersSame ==
  ASSUME NEW o, NEW n, NEW f, NEW p \in Procs, NEW fd \in Fds, SameBut(o, n, p, fd)
  PROVE  \A d \in Procs \X Fds : d # <<p, fd>> => (d \in Pointers(n, f) <=> d \in Pointers(o, f))
<1>. SUFFICES ASSUME NEW d \in Procs \X Fds, d # <<p, fd>>
              PROVE  n[d[1]][d[2]] = o[d[1]][d[2]]
  BY Zenon DEF Pointers
<1>1. d[1] \in Procs /\ d[2] \in Fds /\ d = <<d[1], d[2]>>
  OBVIOUS
<1>2. ~(d[1] = p /\ d[2] = fd)
  BY <1>1, Zenon
<1>. QED  BY <1>1, <1>2, Zenon DEF SameBut

LEMMA PointerKept ==
  ASSUME NEW o, NEW n, NEW f, NEW p \in Procs, NEW fd \in Fds, SameBut(o, n, p, fd),
         o[p][fd] # f, n[p][fd] # f
  PROVE  Pointers(n, f) = Pointers(o, f)
<1>1. <<p, fd>> \in Procs \X Fds /\ <<p, fd>> \notin Pointers(n, f) /\ <<p, fd>> \notin Pointers(o, f)
  BY Zenon DEF Pointers
<1>2. Pointers(n, f) \subseteq Procs \X Fds /\ Pointers(o, f) \subseteq Procs \X Fds
  BY Zenon DEF Pointers
<1>3. \A d \in Procs \X Fds : d # <<p, fd>> => (d \in Pointers(n, f) <=> d \in Pointers(o, f))
  BY PointersSame, Zenon
<1>4. \A d : d \in Pointers(n, f) <=> d \in Pointers(o, f)
  BY <1>1, <1>2, <1>3, Zenon
<1>. QED  BY <1>4, Zenon

LEMMA PointerAdded ==
  ASSUME NEW o, NEW n, NEW f, NEW p \in Procs, NEW fd \in Fds, SameBut(o, n, p, fd),
         o[p][fd] # f, n[p][fd] = f
  PROVE  Cardinality(Pointers(n, f)) = Cardinality(Pointers(o, f)) + 1
<1>1. <<p, fd>> \in Procs \X Fds /\ <<p, fd>> \in Pointers(n, f) /\ <<p, fd>> \notin Pointers(o, f)
  BY Zenon DEF Pointers
<1>2. Pointers(n, f) \subseteq Procs \X Fds /\ Pointers(o, f) \subseteq Procs \X Fds
  BY Zenon DEF Pointers
<1>3. Pointers(n, f) = Pointers(o, f) \cup {<<p, fd>>}
  BY <1>1, <1>2, PointersSame
<1>. QED  BY <1>1, <1>3, AllFinite, FS_AddElement, ZenonT(40)

LEMMA PointerDropped ==
  ASSUME NEW o, NEW n, NEW f, NEW p \in Procs, NEW fd \in Fds, SameBut(o, n, p, fd),
         o[p][fd] = f, n[p][fd] # f
  PROVE  Cardinality(Pointers(n, f)) = Cardinality(Pointers(o, f)) - 1
<1>1. <<p, fd>> \in Procs \X Fds /\ <<p, fd>> \notin Pointers(n, f) /\ <<p, fd>> \in Pointers(o, f)
  BY Zenon DEF Pointers
<1>2. Pointers(n, f) \subseteq Procs \X Fds /\ Pointers(o, f) \subseteq Procs \X Fds
  BY Zenon DEF Pointers
<1>3. Pointers(n, f) = Pointers(o, f) \ {<<p, fd>>}
  BY <1>1, <1>2, PointersSame
<1>. QED  BY <1>1, <1>3, AllFinite, FS_RemoveElement, Zenon

\* A struct file that a descriptor points to is counted.
LEMMA Pointed ==
  ASSUME NEW o, NEW p \in Procs, NEW fd \in Fds, NEW f, o[p][fd] = f
  PROVE  Cardinality(Pointers(o, f)) # 0
<1>1. <<p, fd>> \in Pointers(o, f)
  BY Zenon DEF Pointers
<1>. QED  BY <1>1, AllFinite, FS_EmptySet, Zenon

\* A child has as many descriptors for a file as its parent.
IsChild(o, n, p, q) ==
  /\ \A fd \in Fds : o[q][fd] = 0
  /\ \A r \in Procs : n[r] = IF r = q THEN o[p] ELSE o[r]

LEMMA PointersForked ==
  ASSUME NEW o, NEW n, NEW p \in Procs, NEW q \in Procs, IsChild(o, n, p, q), NEW f \in Files
  PROVE  /\ Cardinality({fd \in Fds : o[p][fd] = f}) \in Nat
         /\ Cardinality(Pointers(n, f)) =
              Cardinality(Pointers(o, f)) + Cardinality({fd \in Fds : o[p][fd] = f})
<1>. DEFINE F == {fd \in Fds : o[p][fd] = f}
            C == {d \in Procs \X Fds : d[1] = q /\ d[2] \in F}
<1>1. IsFiniteSet(F)
  <2>1. IsFiniteSet(Fds)
    <3>1. NOFILE - 1 \in Int /\ 0 \in Int
      BY FileAssumption
    <3>. QED  BY <3>1, FS_Interval, Zenon DEF Fds
  <2>. QED  BY <2>1, FS_Subset, Zenon
<1>2. IsFiniteSet(C) /\ Cardinality(C) = Cardinality(F)
  <2>. DEFINE b == [fd \in F |-> <<q, fd>>]
  <2>1. b \in Bijection(F, C)
    <3>1. b \in [F -> C]
      OBVIOUS
    <3>2. \A x, y \in F : b[x] = b[y] => x = y
      OBVIOUS
    <3>3. \A d \in C : \E x \in F : b[x] = d
      <4>. SUFFICES ASSUME NEW d \in C  PROVE b[d[2]] = d /\ d[2] \in F
        OBVIOUS
      <4>. QED  OBVIOUS
    <3>. QED  BY <3>1, <3>2, <3>3, Zenon DEF Bijection, Injection, Surjection, IsInjective
  <2>. QED  BY <1>1, <2>1, FS_Bijection, Zenon DEF ExistsBijection
<1>3. Pointers(n, f) = Pointers(o, f) \cup C
  <2>1. ASSUME NEW d \in Procs \X Fds
        PROVE  n[d[1]][d[2]] = f <=> o[d[1]][d[2]] = f \/ d \in C
    <3>1. d[1] \in Procs /\ d[2] \in Fds
      OBVIOUS
    <3>2. 0 # f
      BY DEF Files
    <3>3. n[d[1]] = IF d[1] = q THEN o[p] ELSE o[d[1]]
      BY <3>1, Zenon DEF IsChild
    <3>4. d[1] = q => o[d[1]][d[2]] = 0
      BY <3>1, Zenon DEF IsChild
    <3>. QED  BY <3>1, <3>2, <3>3, <3>4, Zenon
  <2>. QED  BY <2>1, Zenon DEF Pointers
<1>4. Pointers(o, f) \cap C = {}
  <2>1. 0 # f
    BY DEF Files
  <2>. QED  BY <2>1, Zenon DEF Pointers, IsChild
<1>5. Cardinality(F) \in Nat
  BY <1>1, FS_CardinalityType, Zenon
<1>. HIDE DEF C
<1>6. Cardinality(Pointers(o, f) \cup C) = Cardinality(Pointers(o, f)) + Cardinality(C)
  <2>1. IsFiniteSet(Pointers(o, f)) /\ Cardinality(Pointers(o, f)) \in Nat
    BY AllFinite, Zenon
  <2>2. Cardinality(Pointers(o, f) \cap C) = 0
    BY <1>4, FS_EmptySet, Zenon
  <2>3. Cardinality(Pointers(o, f) \cup C)
          = Cardinality(Pointers(o, f)) + Cardinality(C) - Cardinality(Pointers(o, f) \cap C)
    BY <1>2, <2>1, FS_Union, Zenon
  <2>. QED  BY <1>2, <1>5, <2>1, <2>2, <2>3
<1>. QED  BY <1>2, <1>3, <1>5, <1>6, Zenon
----------------------------------------------------------------------------
LEMMA InodeCloseStep ==
  ASSUME FileInv, NEW p \in Procs, InodeClose(p)
  PROVE  FileInv'
<1>1. /\ pc[p] \in {"close", "exitclose"} /\ loc[p].page = 0 /\ iref' = iref - 1
      /\ pc' = [pc EXCEPT ![p] = IF pc[p] = "close" THEN "user" ELSE "exit"]
      /\ loc' = [loc EXCEPT ![p] = NoLoc]
      /\ UNCHANGED <<ftable, pipes, ofile, killed>>
  BY Zenon DEF InodeClose
<1>2. pc \in [Procs -> Labels] /\ loc \in [Procs -> LocType] /\ iref \in Nat
  BY Zenon DEF FileInv, TypeOK
<1>3. NoLoc \in LocType
  BY FileAssumption DEF NoLoc, LocType
<1>4. /\ \A q \in Procs : q # p => loc'[q] = loc[q] /\ pc'[q] = pc[q]
      /\ pc'[p] \in {"user", "exit"}
  BY <1>1, <1>2, Zenon
<1>5. iref' \in Nat /\ InodeHeld'
  <2>. DEFINE C == InodeClosers(pc, loc)
  <2>1. InodeClosers(pc', loc') = C \ {p} /\ p \in C
    BY <1>1, <1>4, Zenon DEF InodeClosers
  <2>2. IsFiniteSet(C) /\ Cardinality(C) \in Nat /\ Cardinality(InodeFiles(ftable)) \in Nat
    BY AllFinite, Zenon
  <2>3. Cardinality(InodeClosers(pc', loc')) = Cardinality(C) - 1
    BY <2>1, <2>2, FS_RemoveElement, Zenon
  <2>4. Cardinality(C) # 0
    BY <2>1, <2>2, FS_EmptySet, Zenon
  <2>5. iref = Cardinality(InodeFiles(ftable)) + Cardinality(C)
    BY Zenon DEF FileInv, InodeHeld, InodeFiles, InodeClosers
  <2>. HIDE DEF C
  <2>6. iref' \in Nat /\ iref' = Cardinality(InodeFiles(ftable)) + Cardinality(InodeClosers(pc', loc'))
    BY <1>1, <1>2, <2>2, <2>3, <2>4, <2>5
  <2>. QED  BY <1>1, <2>6, Zenon DEF InodeHeld, InodeFiles, InodeClosers
<1>6. TypeOK'
  <2>1. pc' \in [Procs -> Labels]
    BY <1>1, <1>2, Zenon DEF Labels
  <2>2. loc' \in [Procs -> LocType]
    BY <1>1, <1>2, <1>3, Zenon
  <2>. QED  BY <1>1, <1>5, <2>1, <2>2, Zenon DEF FileInv, TypeOK
<1>7. LocalsRight'
  BY <1>1, <1>4 DEF FileInv, LocalsRight, Reading, Writing
<1>8. FilesRight' /\ RefExact'
  BY <1>1, <1>4, FilesCalm, Zenon
<1>9. EndsRight'
  <2>1. \A j \in Pages : loc[p].page # j
    BY <1>1 DEF Pages
  <2>2. \A q \in Procs, j \in Pages, v \in BOOLEAN : ProcEnd(q, j, v)' <=> ProcEnd(q, j, v)
    BY <1>4, <2>1, Zenon DEF ProcEnd, Closing
  <2>3. \A f, j, v : FileEnd(f, j, v)' <=> FileEnd(f, j, v)
    BY <1>1, Zenon DEF FileEnd
  <2>. QED  BY <1>1, <2>2, <2>3 DEF FileInv, EndsRight
<1>10. PipesRight' /\ SleepRight'
  BY <1>1, <1>4, Zenon DEF FileInv, PipesRight, SleepRight, ThisPipe, Writing
<1>. QED  BY <1>5, <1>6, <1>7, <1>8, <1>9, <1>10, Zenon DEF FileInv

\* exit() after the last descriptor.
LEMMA ExitEnds ==
  ASSUME FileInv, NEW p \in Procs, pc[p] \in {"user", "exit"}, \A fd \in Fds : ofile[p][fd] = 0,
         pc' = [pc EXCEPT ![p] = "unused"], killed' = [killed EXCEPT ![p] = FALSE],
         UNCHANGED <<ofile, ftable, loc, pipes, iref>>
  PROVE  FileInv'
<1>1. pc \in [Procs -> Labels] /\ killed \in [Procs -> BOOLEAN]
  BY Zenon DEF FileInv, TypeOK
<1>2. /\ \A q \in Procs : q # p => killed'[q] = killed[q] /\ pc'[q] = pc[q]
      /\ pc'[p] = "unused" /\ ~killed'[p]
  BY <1>1, Zenon
<1>3. TypeOK'
  <2>1. pc' \in [Procs -> Labels]
    BY <1>1, Zenon DEF Labels
  <2>. QED  BY <1>1, <2>1, Zenon DEF FileInv, TypeOK
<1>4. LocalsRight'
  BY <1>2 DEF FileInv, LocalsRight, Reading, Writing
<1>5. FilesRight' /\ EndsRight' /\ RefExact' /\ InodeHeld'
  BY <1>2, CalmStep, Zenon
<1>6. PipesRight' /\ SleepRight'
  BY <1>2, Zenon DEF FileInv, PipesRight, SleepRight, ThisPipe, Writing
<1>. QED  BY <1>3, <1>4, <1>5, <1>6, Zenon DEF FileInv

LEMMA SysDupStep ==
  ASSUME FileInv, NEW p \in Procs, SysDup(p)
  PROVE  FileInv'
<1>1. PICK old \in Fds, fd \in Fds :
        /\ ofile[p][old] # 0 /\ ofile[p][fd] = 0
        /\ ofile' = [ofile EXCEPT ![p][fd] = ofile[p][old]]
        /\ ftable' = [ftable EXCEPT ![ofile[p][old]].ref = @ + 1]
  BY Zenon DEF SysDup, fdalloc
<1>2. pc[p] = "user" /\ UNCHANGED <<pipes, pc, loc, killed, iref>>
  BY Zenon DEF SysDup, User
<1>3. /\ ftable \in [Files -> FileType] /\ ofile \in [Procs -> [Fds -> 0..NFILE]]
  BY Zenon DEF FileInv, TypeOK
<1>4. PICK f \in Files : f = ofile[p][old]
  BY <1>1, <1>3 DEF Files
<1>5. /\ \A g \in Files : g # f => ftable'[g] = ftable[g]
      /\ ftable'[f] \in FileType /\ ftable'[f].ref = ftable[f].ref + 1
      /\ ftable'[f].type = ftable[f].type /\ ftable'[f].page = ftable[f].page
      /\ ftable'[f].writable = ftable[f].writable
      /\ ftable' \in [Files -> FileType] /\ ftable[f].ref \in Nat
  <2>1. ftable' = [ftable EXCEPT ![f] = [ftable[f] EXCEPT !.ref = ftable[f].ref + 1]]
    BY <1>1, <1>3, <1>4, Zenon
  <2>2. ftable[f].ref \in Nat /\ ftable[f].ref + 1 \in Nat
    BY <1>3, <1>4 DEF FileType
  <2>. QED  BY <1>3, <1>4, <2>1, <2>2, Zenon DEF FileType
<1>6. /\ ofile' \in [Procs -> [Fds -> 0..NFILE]] /\ ofile'[p][fd] = f
      /\ \A q \in Procs, e \in Fds : ~(q = p /\ e = fd) => ofile'[q][e] = ofile[q][e]
  BY <1>1, <1>3, <1>4, Zenon
<1>7. TypeOK'
  BY <1>2, <1>5, <1>6, Zenon DEF FileInv, TypeOK
<1>8. \A g \in Files : /\ ftable'[g].type = ftable[g].type /\ ftable'[g].page = ftable[g].page
                       /\ ftable'[g].writable = ftable[g].writable
                       /\ ftable'[g].ref = 0 => ftable[g].ref = 0
  BY <1>4, <1>5
<1>9. LocalsRight'
  <2>. SUFFICES ASSUME NEW q \in Procs
                PROVE  /\ pc[q] = "unused" => ~killed[q] /\ \A e \in Fds : ofile'[q][e] = 0
                       /\ Reading(q) \/ Writing(q) =>
                            /\ \E e \in Fds : ofile'[q][e] = loc[q].f
                            /\ loc[q].f # 0 /\ ftable'[loc[q].f].type = "PIPE"
                            /\ ftable'[loc[q].f].writable = Writing(q)
                       /\ Reading(q) => loc[q].n # 0
                       /\ Writing(q) => loc[q].todo # <<>>
    BY <1>2, Zenon DEF LocalsRight, Reading, Writing
  <2>1. CASE q = p
    BY <1>2, <2>1, Zenon DEF Reading, Writing
  <2>2. CASE q # p
    <3>1. \A e \in Fds : ofile'[q][e] = ofile[q][e]
      BY <1>6, <2>2, Zenon
    <3>2. Reading(q) \/ Writing(q) => loc[q].f \in Files
      BY UserOfPipe, Zenon
    <3>. QED  BY <1>8, <3>1, <3>2 DEF FileInv, LocalsRight
  <2>. QED  BY <2>1, <2>2, Zenon
<1>10. FilesRight'
  <2>1. \A q \in Procs, e \in Fds : ofile'[q][e] # 0 => ftable'[ofile'[q][e]].type # "NONE"
    <3>. SUFFICES ASSUME NEW q \in Procs, NEW e \in Fds, ofile'[q][e] # 0
                  PROVE  ftable'[ofile'[q][e]].type # "NONE"
      OBVIOUS
    <3>1. CASE q = p /\ e = fd
      BY <1>1, <1>4, <1>6, <1>8, <3>1 DEF FileInv, FilesRight
    <3>2. CASE ~(q = p /\ e = fd)
      <4>1. ofile'[q][e] = ofile[q][e] /\ ofile[q][e] \in Files
        BY <1>3, <1>6, <3>2 DEF Files
      <4>. QED  BY <1>8, <4>1 DEF FileInv, FilesRight
    <3>. QED  BY <3>1, <3>2, Zenon
  <2>2. \A q \in Procs : pc[q] = "pipealloc" => loc[q].f \in Files /\ loc[q].f # f
    <3>. SUFFICES ASSUME NEW q \in Procs, pc[q] = "pipealloc"
                  PROVE  loc[q].f \in Files /\ loc[q].f # f
      OBVIOUS
    <3>1. loc[q].f \in Files
      BY DEF FileInv, TypeOK, LocType, FilesRight, Files
    <3>2. ftable[f].type # "NONE"
      BY <1>1, <1>4, Zenon DEF FileInv, FilesRight
    <3>. QED  BY <3>1, <3>2, Zenon DEF FileInv, FilesRight
  <2>. QED  BY <1>2, <1>5, <1>8, <2>1, <2>2 DEF FileInv, FilesRight
<1>11. EndsRight'
  <2>1. \A g \in Files, j \in Pages, v \in BOOLEAN : FileEnd(g, j, v)' <=> FileEnd(g, j, v)
    BY <1>8, Zenon DEF FileEnd
  <2>2. \A q, j, v : ProcEnd(q, j, v)' <=> ProcEnd(q, j, v)
    BY <1>2, Zenon DEF ProcEnd, Closing
  <2>. QED  BY <1>2, <2>1, <2>2 DEF FileInv, EndsRight
<1>12. RefExact'
  <2>. SUFFICES ASSUME NEW g \in Files
                PROVE  ftable'[g].ref = Cardinality(Pointers(ofile', g)) + Cardinality(Makers(pc, loc, g))
    BY <1>2, Zenon DEF RefExact, Pointers, Makers
  <2>1. ftable[g].ref = Cardinality(Pointers(ofile, g)) + Cardinality(Makers(pc, loc, g))
    BY Zenon DEF FileInv, RefExact, Pointers, Makers
  <2>2. Cardinality(Pointers(ofile, g)) \in Nat /\ Cardinality(Makers(pc, loc, g)) \in Nat
    BY AllFinite, Zenon
  <2>3. 0 # g
    BY DEF Files
  <2>4. /\ g = f => Cardinality(Pointers(ofile', g)) = Cardinality(Pointers(ofile, g)) + 1
        /\ g # f => Cardinality(Pointers(ofile', g)) = Cardinality(Pointers(ofile, g))
    <3>1. SameBut(ofile, ofile', p, fd)
      BY <1>6, Zenon DEF SameBut
    <3>2. ofile[p][fd] # g /\ ofile'[p][fd] = f
      BY <1>1, <1>6, <2>3, Zenon
    <3>. QED  BY <3>1, <3>2, PointerKept, PointerAdded, ZenonT(40)
  <2>. QED  BY <1>5, <2>1, <2>2, <2>4
<1>13. InodeHeld'
  <2>1. ftable[f].ref > 0 /\ ftable'[f].ref > 0
    <3>1. ftable[f].type # "NONE"
      BY <1>1, <1>4, Zenon DEF FileInv, FilesRight
    <3>. QED  BY <1>5, <3>1 DEF FileInv, FilesRight
  <2>2. {g \in Files : ftable'[g].ref > 0 /\ ftable'[g].type = "INODE"}
          = {g \in Files : ftable[g].ref > 0 /\ ftable[g].type = "INODE"}
    BY <1>5, <2>1, Zenon
  <2>. QED  BY <1>2, <2>2, Zenon DEF FileInv, InodeHeld
<1>14. PipesRight'
  BY <1>2, Zenon DEF FileInv, PipesRight
<1>15. SleepRight'
  <2>1. \A q \in Procs : Reading(q) \/ Writing(q) => ThisPipe(q)' = ThisPipe(q)
    BY <1>2, <1>8, UserOfPipe, Zenon DEF ThisPipe
  <2>. QED  BY <1>2, <2>1, Zenon DEF FileInv, SleepRight, Writing, Reading
<1>. QED  BY <1>7, <1>9, <1>10, <1>11, <1>12, <1>13, <1>14, <1>15, Zenon DEF FileInv

\* A struct file without references is nobody's.
LEMMA FreeFile ==
  ASSUME FileInv, NEW f \in Files, ftable[f].ref = 0
  PROVE  /\ Cardinality(Pointers(ofile, f)) = 0 /\ Cardinality(Makers(pc, loc, f)) = 0
         /\ ftable[f].type = "NONE" /\ ftable[f].page = 0 /\ ftable[f].writable = FALSE
         /\ \A p \in Procs : pc[p] = "pipealloc" \/ Reading(p) \/ Writing(p) => loc[p].f # f
<1>1. ftable[f].ref = Cardinality(Pointers(ofile, f)) + Cardinality(Makers(pc, loc, f))
  BY Zenon DEF FileInv, RefExact, Pointers, Makers
<1>2. Cardinality(Pointers(ofile, f)) \in Nat /\ Cardinality(Makers(pc, loc, f)) \in Nat
  BY AllFinite, Zenon
<1>3. ftable[f].type = "NONE" /\ ftable[f].page = 0 /\ ftable[f].writable = FALSE
  BY Zenon DEF FileInv, FilesRight, TypeOK, FileType
<1>4. \A p \in Procs : pc[p] = "pipealloc" \/ Reading(p) \/ Writing(p) => loc[p].f # f
  BY <1>3 DEF FileInv, FilesRight, LocalsRight
<1>. QED  BY <1>1, <1>2, <1>3, <1>4

LEMMA SysOpenStep ==
  ASSUME FileInv, NEW p \in Procs, SysOpen(p)
  PROVE  FileInv'
<1>1. PICK f \in Files, fd \in Fds :
        /\ ftable[f].ref = 0 /\ ofile[p][fd] = 0
        /\ ftable' = [ftable EXCEPT ![f].ref = 1, ![f].type = "INODE"]
        /\ ofile' = [ofile EXCEPT ![p][fd] = f]
  BY Zenon DEF SysOpen, filealloc, fdalloc
<1>2. pc[p] = "user" /\ iref' = iref + 1 /\ UNCHANGED <<pipes, pc, loc, killed>>
  BY Zenon DEF SysOpen, User
<1>3. ftable \in [Files -> FileType] /\ ofile \in [Procs -> [Fds -> 0..NFILE]] /\ iref \in Nat
  BY Zenon DEF FileInv, TypeOK
<1>4. /\ Cardinality(Pointers(ofile, f)) = 0 /\ Cardinality(Makers(pc, loc, f)) = 0
      /\ ftable[f].type = "NONE" /\ ftable[f].page = 0 /\ ftable[f].writable = FALSE
      /\ \A q \in Procs : pc[q] = "pipealloc" \/ Reading(q) \/ Writing(q) => loc[q].f # f
  BY <1>1, FreeFile, Zenon
<1>5. /\ \A g \in Files : g # f => ftable'[g] = ftable[g]
      /\ ftable'[f].ref = 1 /\ ftable'[f].type = "INODE" /\ ftable'[f].page = 0
      /\ ftable'[f].writable = FALSE /\ ftable' \in [Files -> FileType]
  <2>1. ftable' = [ftable EXCEPT ![f] = [ftable[f] EXCEPT !.ref = 1, !.type = "INODE"]]
    BY <1>1, <1>3, Zenon
  <2>. QED  BY <1>3, <1>4, <2>1, Zenon DEF FileType
<1>6. /\ ofile' \in [Procs -> [Fds -> 0..NFILE]] /\ ofile'[p][fd] = f
      /\ \A q \in Procs, e \in Fds : ~(q = p /\ e = fd) => ofile'[q][e] = ofile[q][e]
  <2>1. f \in 0..NFILE
    BY FileAssumption DEF Files
  <2>. QED  BY <1>1, <1>3, <2>1, Zenon
<1>7. TypeOK'
  <2>1. iref' \in Nat
    BY <1>2, <1>3
  <2>. QED  BY <1>2, <1>5, <1>6, <2>1, Zenon DEF FileInv, TypeOK
<1>8. LocalsRight'
  <2>. SUFFICES ASSUME NEW q \in Procs
                PROVE  /\ pc[q] = "unused" => ~killed[q] /\ \A e \in Fds : ofile'[q][e] = 0
                       /\ Reading(q) \/ Writing(q) =>
                            /\ \E e \in Fds : ofile'[q][e] = loc[q].f
                            /\ loc[q].f # 0 /\ ftable'[loc[q].f].type = "PIPE"
                            /\ ftable'[loc[q].f].writable = Writing(q)
                       /\ Reading(q) => loc[q].n # 0
                       /\ Writing(q) => loc[q].todo # <<>>
    BY <1>2, Zenon DEF LocalsRight, Reading, Writing
  <2>1. CASE q = p
    BY <1>2, <2>1, Zenon DEF Reading, Writing
  <2>2. CASE q # p
    <3>1. \A e \in Fds : ofile'[q][e] = ofile[q][e]
      BY <1>6, <2>2, Zenon
    <3>2. Reading(q) \/ Writing(q) => loc[q].f \in Files /\ ftable'[loc[q].f] = ftable[loc[q].f]
      BY <1>4, <1>5, UserOfPipe, Zenon
    <3>. QED  BY <3>1, <3>2, Zenon DEF FileInv, LocalsRight
  <2>. QED  BY <2>1, <2>2, Zenon
<1>9. FilesRight'
  <2>1. \A q \in Procs, e \in Fds : ofile'[q][e] # 0 => ftable'[ofile'[q][e]].type # "NONE"
    <3>. SUFFICES ASSUME NEW q \in Procs, NEW e \in Fds, ofile'[q][e] # 0
                  PROVE  ftable'[ofile'[q][e]].type # "NONE"
      OBVIOUS
    <3>1. CASE q = p /\ e = fd
      BY <1>5, <1>6, <3>1, Zenon
    <3>2. CASE ~(q = p /\ e = fd)
      <4>1. ofile'[q][e] = ofile[q][e] /\ ofile[q][e] \in Files
        BY <1>3, <1>6, <3>2 DEF Files
      <4>. QED  BY <1>5, <4>1 DEF FileInv, FilesRight
    <3>. QED  BY <3>1, <3>2, Zenon
  <2>2. \A q \in Procs : pc[q] = "pipealloc" => ftable'[loc[q].f] = ftable[loc[q].f]
    BY <1>4, <1>5 DEF FileInv, TypeOK, LocType, FilesRight, Files
  <2>. QED  BY <1>2, <1>5, <2>1, <2>2, SMTT(30) DEF FileInv, FilesRight
<1>10. EndsRight'
  <2>1. \A g \in Files, j \in Pages, v \in BOOLEAN : FileEnd(g, j, v)' <=> FileEnd(g, j, v)
    BY <1>4, <1>5, Zenon DEF FileEnd
  <2>2. \A q, j, v : ProcEnd(q, j, v)' <=> ProcEnd(q, j, v)
    BY <1>2, Zenon DEF ProcEnd, Closing
  <2>. QED  BY <1>2, <2>1, <2>2 DEF FileInv, EndsRight
<1>11. RefExact'
  <2>. SUFFICES ASSUME NEW g \in Files
                PROVE  ftable'[g].ref = Cardinality(Pointers(ofile', g)) + Cardinality(Makers(pc, loc, g))
    BY <1>2, Zenon DEF RefExact, Pointers, Makers
  <2>1. ftable[g].ref = Cardinality(Pointers(ofile, g)) + Cardinality(Makers(pc, loc, g))
    BY Zenon DEF FileInv, RefExact, Pointers, Makers
  <2>2. SameBut(ofile, ofile', p, fd)
    BY <1>6, Zenon DEF SameBut
  <2>3. ofile[p][fd] # g /\ ofile'[p][fd] = f
    BY <1>1, <1>6 DEF Files
  <2>4. /\ g = f => Cardinality(Pointers(ofile', g)) = Cardinality(Pointers(ofile, g)) + 1
        /\ g # f => Cardinality(Pointers(ofile', g)) = Cardinality(Pointers(ofile, g))
    BY <2>2, <2>3, PointerKept, PointerAdded, Zenon
  <2>. QED  BY <1>4, <1>5, <2>1, <2>4
<1>12. InodeHeld'
  <2>1. InodeFiles(ftable') = InodeFiles(ftable) \cup {f}
    BY <1>5 DEF InodeFiles
  <2>2. f \notin InodeFiles(ftable)
    BY <1>4, Zenon DEF InodeFiles
  <2>3. /\ IsFiniteSet(InodeFiles(ftable)) /\ Cardinality(InodeFiles(ftable)) \in Nat
        /\ Cardinality(InodeClosers(pc, loc)) \in Nat
    BY AllFinite, Zenon
  <2>4. Cardinality(InodeFiles(ftable')) = Cardinality(InodeFiles(ftable)) + 1
    BY <2>1, <2>2, <2>3, FS_AddElement, Zenon
  <2>5. iref = Cardinality(InodeFiles(ftable)) + Cardinality(InodeClosers(pc, loc))
    BY Zenon DEF FileInv, InodeHeld, InodeFiles, InodeClosers
  <2>6. iref' = Cardinality(InodeFiles(ftable')) + Cardinality(InodeClosers(pc, loc))
    BY <1>2, <2>3, <2>4, <2>5
  <2>. QED  BY <1>2, <2>6, Zenon DEF InodeHeld, InodeFiles, InodeClosers
<1>13. PipesRight'
  BY <1>2, Zenon DEF FileInv, PipesRight
<1>14. SleepRight'
  <2>1. \A q \in Procs : Reading(q) \/ Writing(q) => ThisPipe(q)' = ThisPipe(q)
    BY <1>2, <1>4, <1>5, UserOfPipe, Zenon DEF ThisPipe
  <2>. QED  BY <1>2, <2>1, Zenon DEF FileInv, SleepRight, Writing, Reading
<1>. QED  BY <1>7, <1>8, <1>9, <1>10, <1>11, <1>12, <1>13, <1>14, Zenon DEF FileInv

LEMMA SysPipeStep ==
  ASSUME FileInv, NEW p \in Procs, SysPipe(p)
  PROVE  FileInv'
<1>1. PICK f \in Files :
        /\ ftable[f].ref = 0
        /\ ftable' = [ftable EXCEPT ![f].ref = 1]
        /\ loc' = [loc EXCEPT ![p].f = f]
  BY Zenon DEF SysPipe, filealloc
<1>2. pc[p] = "user" /\ pc' = [pc EXCEPT ![p] = "pipealloc"] /\ UNCHANGED <<pipes, ofile, killed, iref>>
  BY Zenon DEF SysPipe, User
<1>3. /\ ftable \in [Files -> FileType] /\ pc \in [Procs -> Labels] /\ loc \in [Procs -> LocType]
  BY Zenon DEF FileInv, TypeOK
<1>4. /\ Cardinality(Pointers(ofile, f)) = 0 /\ Cardinality(Makers(pc, loc, f)) = 0
      /\ ftable[f].type = "NONE" /\ ftable[f].page = 0 /\ ftable[f].writable = FALSE
      /\ \A q \in Procs : pc[q] = "pipealloc" \/ Reading(q) \/ Writing(q) => loc[q].f # f
  BY <1>1, FreeFile, Zenon
<1>5. /\ \A g \in Files : g # f => ftable'[g] = ftable[g]
      /\ ftable'[f].ref = 1 /\ ftable'[f].type = "NONE" /\ ftable'[f].page = 0
      /\ ftable'[f].writable = FALSE /\ ftable' \in [Files -> FileType]
  <2>1. ftable' = [ftable EXCEPT ![f] = [ftable[f] EXCEPT !.ref = 1]]
    BY <1>1, <1>3, Zenon
  <2>. QED  BY <1>3, <1>4, <2>1, Zenon DEF FileType
<1>6. /\ \A q \in Procs : q # p => loc'[q] = loc[q] /\ pc'[q] = pc[q]
      /\ pc'[p] = "pipealloc" /\ loc'[p].f = f /\ loc' \in [Procs -> LocType]
  <2>1. f \in 0..NFILE
    BY FileAssumption DEF Files
  <2>2. loc' = [loc EXCEPT ![p] = [loc[p] EXCEPT !.f = f]]
    BY <1>1, <1>3, Zenon
  <2>. QED  BY <1>2, <1>3, <2>1, <2>2, Zenon DEF LocType
<1>7. TypeOK'
  <2>1. pc' \in [Procs -> Labels]
    BY <1>2, <1>3, Zenon DEF Labels
  <2>. QED  BY <1>2, <1>5, <1>6, <2>1, Zenon DEF FileInv, TypeOK
<1>8. \A q \in Procs : Reading(q)' \/ Writing(q)' =>
        /\ q # p /\ loc[q].f \in Files /\ ftable'[loc[q].f] = ftable[loc[q].f]
        /\ Reading(q)' = Reading(q) /\ Writing(q)' = Writing(q)
  <2>. SUFFICES ASSUME NEW q \in Procs, Reading(q)' \/ Writing(q)'
                PROVE  /\ q # p /\ loc[q].f \in Files /\ ftable'[loc[q].f] = ftable[loc[q].f]
                       /\ Reading(q)' = Reading(q) /\ Writing(q)' = Writing(q)
    BY SMTT(30)
  <2>1. q # p
    BY <1>6, Zenon DEF Reading, Writing
  <2>2. Reading(q)' = Reading(q) /\ Writing(q)' = Writing(q)
    BY <1>6, <2>1, Zenon DEF Reading, Writing
  <2>. QED  BY <1>4, <1>5, <2>1, <2>2, UserOfPipe, Zenon
<1>9. LocalsRight'
  <2>. SUFFICES ASSUME NEW q \in Procs
                PROVE  /\ pc'[q] = "unused" => ~killed[q] /\ \A e \in Fds : ofile[q][e] = 0
                       /\ Reading(q)' \/ Writing(q)' =>
                            /\ \E e \in Fds : ofile[q][e] = loc'[q].f
                            /\ loc'[q].f # 0 /\ ftable'[loc'[q].f].type = "PIPE"
                            /\ ftable'[loc'[q].f].writable = Writing(q)'
                       /\ Reading(q)' => loc'[q].n # 0
                       /\ Writing(q)' => loc'[q].todo # <<>>
    BY <1>2, Zenon DEF LocalsRight
  <2>1. pc'[q] = "unused" => q # p /\ pc[q] = "unused"
    BY <1>6, Zenon
  <2>2. Reading(q)' \/ Writing(q)' => loc'[q] = loc[q]
    BY <1>6, <1>8, Zenon
  <2>. QED  BY <1>8, <2>1, <2>2, SMTT(30) DEF FileInv, LocalsRight
<1>10. FilesRight'
  <2>1. \A q \in Procs, e \in Fds : ofile[q][e] # 0 => ftable'[ofile[q][e]].type # "NONE"
    <3>. SUFFICES ASSUME NEW q \in Procs, NEW e \in Fds, ofile[q][e] # 0
                  PROVE  ftable'[ofile[q][e]].type # "NONE"
      OBVIOUS
    <3>1. ofile[q][e] \in Files /\ ftable[ofile[q][e]].type # "NONE"
      BY DEF FileInv, TypeOK, FilesRight, Files
    <3>. QED  BY <1>4, <1>5, <3>1, Zenon
  <2>2. \A q \in Procs : pc[q] = "pipealloc" => ftable'[loc[q].f] = ftable[loc[q].f]
    BY <1>4, <1>5, SMTT(30) DEF FileInv, TypeOK, LocType, FilesRight, Files
  <2>3. \A q \in Procs : pc'[q] = "pipealloc" => loc'[q].f # 0 /\ ftable'[loc'[q].f].ref = 1
                                                 /\ ftable'[loc'[q].f].type = "NONE"
    BY <1>5, <1>6, <2>2, SMTT(30) DEF FileInv, FilesRight, Files
  <2>4. \A q, r \in Procs : pc'[q] = "pipealloc" /\ pc'[r] = "pipealloc" /\ loc'[q].f = loc'[r].f => q = r
    BY <1>4, <1>6, SMTT(30) DEF FileInv, FilesRight
  <2>5. \A g \in Files :
          /\ ftable'[g].ref = 0 => ftable'[g].type = "NONE"
          /\ ftable'[g].type = "PIPE" <=> ftable'[g].page # 0
          /\ ftable'[g].type # "PIPE" => ~ftable'[g].writable
    BY <1>5, ZenonT(40) DEF FileInv, FilesRight
  <2>. QED  BY <1>2, <2>1, <2>3, <2>4, <2>5, Zenon DEF FilesRight
<1>11. EndsRight'
  <2>1. \A g \in Files, j \in Pages, v \in BOOLEAN : FileEnd(g, j, v)' <=> FileEnd(g, j, v)
    BY <1>4, <1>5, Zenon DEF FileEnd
  <2>2. \A q \in Procs, j \in Pages, v \in BOOLEAN : ProcEnd(q, j, v)' <=> ProcEnd(q, j, v)
    BY <1>2, <1>6, Zenon DEF ProcEnd, Closing
  <2>. QED  BY <1>2, <2>1, <2>2, SMTT(30) DEF FileInv, EndsRight
<1>12. RefExact'
  <2>. SUFFICES ASSUME NEW g \in Files
                PROVE  ftable'[g].ref = Cardinality(Pointers(ofile, g)) + Cardinality(Makers(pc', loc', g))
    BY <1>2, Zenon DEF RefExact, Pointers, Makers
  <2>1. ftable[g].ref = Cardinality(Pointers(ofile, g)) + Cardinality(Makers(pc, loc, g))
    BY Zenon DEF FileInv, RefExact, Pointers, Makers
  <2>2. CASE g = f
    <3>1. Makers(pc', loc', f) = Makers(pc, loc, f) \cup {p} /\ p \notin Makers(pc, loc, f)
      BY <1>2, <1>6, Zenon DEF Makers
    <3>2. IsFiniteSet(Makers(pc, loc, f))
      BY AllFinite, Zenon
    <3>3. Cardinality(Makers(pc', loc', f)) = Cardinality(Makers(pc, loc, f)) + 1
      BY <3>1, <3>2, FS_AddElement, Zenon
    <3>. QED  BY <1>4, <1>5, <2>2, <3>3, SMTT(30)
  <2>3. CASE g # f
    <3>1. Makers(pc', loc', g) = Makers(pc, loc, g)
      BY <1>2, <1>6, <2>3, Zenon DEF Makers
    <3>. QED  BY <1>5, <2>1, <2>3, <3>1, Zenon
  <2>. QED  BY <2>2, <2>3, Zenon
<1>13. InodeHeld'
  <2>1. {g \in Files : ftable'[g].ref > 0 /\ ftable'[g].type = "INODE"}
          = {g \in Files : ftable[g].ref > 0 /\ ftable[g].type = "INODE"}
    BY <1>4, <1>5, Zenon
  <2>2. {q \in Procs : pc'[q] \in {"close", "exitclose"} /\ loc'[q].page = 0}
          = {q \in Procs : pc[q] \in {"close", "exitclose"} /\ loc[q].page = 0}
    BY <1>2, <1>6, Zenon
  <2>. QED  BY <1>2, <2>1, <2>2, Zenon DEF FileInv, InodeHeld
<1>14. PipesRight'
  BY <1>2, Zenon DEF FileInv, PipesRight
<1>15. SleepRight'
  <2>. SUFFICES ASSUME ~KillRaces, NEW q \in Procs, Reading(q)' \/ Writing(q)'
                PROVE  /\ Writing(q)' => ~killed[q]
                       /\ pc'[q] \in {"rempty", "rsleep"} => Empty(ThisPipe(q)') /\ ThisPipe(q)'.writeopen
                       /\ pc'[q] \in {"wfull", "wsleep"} => Full(ThisPipe(q)') /\ ThisPipe(q)'.readopen
    BY <1>2, Zenon DEF SleepRight, Reading, Writing
  <2>1. ThisPipe(q)' = ThisPipe(q) /\ pc'[q] = pc[q]
    BY <1>2, <1>6, <1>8, Zenon DEF ThisPipe
  <2>. QED  BY <1>8, <2>1, Zenon DEF FileInv, SleepRight
<1>. QED  BY <1>7, <1>9, <1>10, <1>11, <1>12, <1>13, <1>14, <1>15, Zenon DEF FileInv

\* A step of p that is not inside piperead() or pipewrite() afterwards, and
\* that leaves what the others read and write as it was.
OthersKeep(p) ==
  /\ pc'[p] \in {"user", "exit", "pipealloc", "close", "exitclose"}
  /\ \A q \in Procs : q # p =>
       /\ pc'[q] = pc[q] /\ loc'[q] = loc[q] /\ killed'[q] = killed[q]
       /\ \A e \in Fds : ofile'[q][e] = ofile[q][e]
       /\ Reading(q) \/ Writing(q) =>
            /\ ftable'[loc[q].f].type = ftable[loc[q].f].type
            /\ ftable'[loc[q].f].page = ftable[loc[q].f].page
            /\ ftable'[loc[q].f].writable = ftable[loc[q].f].writable
            /\ pipes'[ftable[loc[q].f].page] = pipes[ftable[loc[q].f].page]

LEMMA OthersRight ==
  ASSUME FileInv, NEW p \in Procs, OthersKeep(p)
  PROVE  LocalsRight' /\ SleepRight'
<1>1. pc'[p] \in {"user", "exit", "pipealloc", "close", "exitclose"}
  BY Zenon DEF OthersKeep
<1>2. LocalsRight'
  <2>. SUFFICES ASSUME NEW q \in Procs
                PROVE  /\ pc'[q] = "unused" => ~killed'[q] /\ \A e \in Fds : ofile'[q][e] = 0
                       /\ Reading(q)' \/ Writing(q)' =>
                            /\ \E e \in Fds : ofile'[q][e] = loc'[q].f
                            /\ loc'[q].f # 0 /\ ftable'[loc'[q].f].type = "PIPE"
                            /\ ftable'[loc'[q].f].writable = Writing(q)'
                       /\ Reading(q)' => loc'[q].n # 0
                       /\ Writing(q)' => loc'[q].todo # <<>>
    BY Zenon DEF LocalsRight
  <2>1. CASE q = p
    BY <1>1, <2>1, Zenon DEF Reading, Writing
  <2>2. CASE q # p
    <3>1. /\ pc'[q] = pc[q] /\ loc'[q] = loc[q] /\ killed'[q] = killed[q]
          /\ \A e \in Fds : ofile'[q][e] = ofile[q][e]
          /\ Reading(q) \/ Writing(q) => /\ ftable'[loc[q].f].type = ftable[loc[q].f].type
                                         /\ ftable'[loc[q].f].writable = ftable[loc[q].f].writable
      BY <2>2, Zenon DEF OthersKeep
    <3>2. Reading(q)' = Reading(q) /\ Writing(q)' = Writing(q)
      BY <3>1, Zenon DEF Reading, Writing
    <3>. QED  BY <3>1, <3>2, Zenon DEF FileInv, LocalsRight
  <2>. QED  BY <2>1, <2>2, Zenon
<1>3. SleepRight'
  <2>. SUFFICES ASSUME ~KillRaces, NEW q \in Procs, Reading(q)' \/ Writing(q)'
                PROVE  /\ Writing(q)' => ~killed'[q]
                       /\ pc'[q] \in {"rempty", "rsleep"} => Empty(ThisPipe(q)') /\ ThisPipe(q)'.writeopen
                       /\ pc'[q] \in {"wfull", "wsleep"} => Full(ThisPipe(q)') /\ ThisPipe(q)'.readopen
    BY Zenon DEF SleepRight, Reading, Writing
  <2>1. q # p
    BY <1>1, Zenon DEF Reading, Writing
  <2>2. pc'[q] = pc[q] /\ loc'[q] = loc[q] /\ killed'[q] = killed[q]
    BY <2>1, Zenon DEF OthersKeep
  <2>3. Reading(q)' = Reading(q) /\ Writing(q)' = Writing(q)
    BY <2>2, Zenon DEF Reading, Writing
  <2>4. ThisPipe(q)' = ThisPipe(q)
    BY <2>1, <2>2, <2>3, ZenonT(40) DEF OthersKeep, ThisPipe
  <2>. QED  BY <2>2, <2>3, <2>4, Zenon DEF FileInv, SleepRight
<1>. QED  BY <1>2, <1>3, Zenon

\* The struct file that pipealloc() holds.
LEMMA MakersFile ==
  ASSUME FileInv, NEW p \in Procs, pc[p] = "pipealloc"
  PROVE  \E m \in Files : m = loc[p].f /\ ftable[m].ref = 1 /\ ftable[m].type = "NONE"
<1>1. loc[p].f \in 0..NFILE
  BY Zenon DEF FileInv, TypeOK, LocType
<1>2. loc[p].f # 0 /\ ftable[loc[p].f].ref = 1 /\ ftable[loc[p].f].type = "NONE"
  BY Zenon DEF FileInv, FilesRight
<1>3. loc[p].f \in Files
  BY <1>1, <1>2, FileAssumption DEF Files
<1>. QED  BY <1>2, <1>3, Zenon

LEMMA NoFileRight == NoFile \in FileType
BY FileAssumption DEF NoFile, FileType

LEMMA PipeAllocFailsStep ==
  ASSUME FileInv, NEW p \in Procs, PipeAllocFails(p)
  PROVE  FileInv'
<1>1. /\ pc[p] = "pipealloc" /\ ftable' = [ftable EXCEPT ![loc[p].f] = NoFile]
      /\ pc' = [pc EXCEPT ![p] = "user"] /\ loc' = [loc EXCEPT ![p] = NoLoc]
      /\ UNCHANGED <<pipes, ofile, killed, iref>>
  BY Zenon DEF PipeAllocFails, Return
<1>2. /\ ftable \in [Files -> FileType] /\ pc \in [Procs -> Labels] /\ loc \in [Procs -> LocType]
  BY Zenon DEF FileInv, TypeOK
<1>3. PICK m \in Files : m = loc[p].f /\ ftable[m].ref = 1 /\ ftable[m].type = "NONE"
  BY <1>1, MakersFile, Zenon
<1>4. NoLoc \in LocType
  BY FileAssumption DEF NoLoc, LocType
<1>5. ftable[m].page = 0 /\ ftable[m].writable = FALSE
  BY <1>2, <1>3, Zenon DEF FileInv, FilesRight, FileType
<1>6. /\ \A g \in Files : g # m => ftable'[g] = ftable[g]
      /\ ftable'[m].ref = 0 /\ ftable'[m].type = "NONE" /\ ftable'[m].page = 0
      /\ ftable'[m].writable = FALSE /\ ftable' \in [Files -> FileType]
  <2>1. ftable' = [ftable EXCEPT ![m] = NoFile]
    BY <1>1, <1>3, Zenon
  <2>. QED  BY <1>2, <2>1, NoFileRight, Zenon DEF NoFile
<1>7. /\ \A q \in Procs : q # p => loc'[q] = loc[q] /\ pc'[q] = pc[q]
      /\ pc'[p] = "user" /\ loc' \in [Procs -> LocType] /\ pc' \in [Procs -> Labels]
  BY <1>1, <1>2, <1>4, Zenon DEF Labels
<1>8. TypeOK'
  BY <1>1, <1>6, <1>7, Zenon DEF FileInv, TypeOK
<1>9. /\ Cardinality(Pointers(ofile, m)) = 0 /\ Cardinality(Makers(pc, loc, m)) = 1
      /\ Cardinality(Makers(pc', loc', m)) = 0
  <2>1. Makers(pc, loc, m) = {p} /\ Makers(pc', loc', m) = {}
    BY <1>1, <1>3, <1>7, Zenon DEF Makers, FileInv, FilesRight
  <2>2. ftable[m].ref = Cardinality(Pointers(ofile, m)) + Cardinality(Makers(pc, loc, m))
    BY Zenon DEF FileInv, RefExact, Pointers, Makers
  <2>3. Cardinality(Makers(pc, loc, m)) = 1 /\ Cardinality(Makers(pc', loc', m)) = 0
    BY <2>1, FS_Singleton, FS_EmptySet, Zenon
  <2>4. Cardinality(Pointers(ofile, m)) \in Nat
    BY AllFinite, Zenon
  <2>. QED  BY <1>3, <2>2, <2>3, <2>4
<1>10. OthersKeep(p)
  <2>1. \A q \in Procs : Reading(q) \/ Writing(q) => loc[q].f \in Files /\ loc[q].f # m
    BY <1>3, UserOfPipe, Zenon DEF FileInv, LocalsRight
  <2>. QED  BY <1>1, <1>6, <1>7, <2>1, Zenon DEF OthersKeep
<1>11. LocalsRight' /\ SleepRight'
  BY <1>10, OthersRight, Zenon
<1>12. FilesRight'
  <2>1. \A q \in Procs, e \in Fds : ofile[q][e] # 0 => ftable'[ofile[q][e]].type # "NONE"
    <3>. SUFFICES ASSUME NEW q \in Procs, NEW e \in Fds, ofile[q][e] # 0
                  PROVE  ftable'[ofile[q][e]].type # "NONE"
      OBVIOUS
    <3>1. ofile[q][e] \in Files /\ ftable[ofile[q][e]].type # "NONE"
      BY DEF FileInv, TypeOK, FilesRight, Files
    <3>. QED  BY <1>3, <1>6, <3>1, Zenon
  <2>2. \A q \in Procs : pc'[q] = "pipealloc" =>
          loc'[q] = loc[q] /\ pc[q] = "pipealloc" /\ ftable'[loc[q].f] = ftable[loc[q].f]
    <3>. SUFFICES ASSUME NEW q \in Procs, pc'[q] = "pipealloc"
                  PROVE  loc'[q] = loc[q] /\ pc[q] = "pipealloc" /\ ftable'[loc[q].f] = ftable[loc[q].f]
      BY Zenon
    <3>1. q # p /\ loc'[q] = loc[q] /\ pc[q] = "pipealloc"
      BY <1>7, Zenon
    <3>2. loc[q].f \in Files
      BY <3>1, MakersFile, Zenon
    <3>3. loc[q].f # m
      BY <1>1, <1>3, <3>1, Zenon DEF FileInv, FilesRight
    <3>. QED  BY <1>6, <3>1, <3>2, <3>3, Zenon
  <2>3. \A g \in Files :
          /\ ftable'[g].ref = 0 => ftable'[g].type = "NONE"
          /\ ftable'[g].type = "PIPE" <=> ftable'[g].page # 0
          /\ ftable'[g].type # "PIPE" => ~ftable'[g].writable
    BY <1>6, ZenonT(40) DEF FileInv, FilesRight
  <2>4. \A q, r \in Procs : pc'[q] = "pipealloc" /\ pc'[r] = "pipealloc" /\ loc'[q].f = loc'[r].f => q = r
    BY <2>2, SMTT(30) DEF FileInv, FilesRight
  <2>5. \A q \in Procs : pc'[q] = "pipealloc" => loc'[q].f # 0 /\ ftable'[loc'[q].f].ref = 1
                                                 /\ ftable'[loc'[q].f].type = "NONE"
    BY <2>2 DEF FileInv, FilesRight
  <2>. QED  BY <1>1, <2>1, <2>3, <2>4, <2>5, SMTT(30) DEF FilesRight
<1>13. EndsRight'
  <2>1. \A g \in Files, j \in Pages, v \in BOOLEAN : FileEnd(g, j, v)' <=> FileEnd(g, j, v)
    BY <1>5, <1>6, Zenon DEF FileEnd, Pages
  <2>2. \A q \in Procs, j \in Pages, v \in BOOLEAN : ProcEnd(q, j, v)' <=> ProcEnd(q, j, v)
    BY <1>1, <1>7, Zenon DEF ProcEnd, Closing
  <2>. QED  BY <1>1, <2>1, <2>2 DEF FileInv, EndsRight
<1>14. RefExact'
  <2>. SUFFICES ASSUME NEW g \in Files
                PROVE  ftable'[g].ref = Cardinality(Pointers(ofile, g)) + Cardinality(Makers(pc', loc', g))
    BY <1>1, Zenon DEF RefExact, Pointers, Makers
  <2>1. ftable[g].ref = Cardinality(Pointers(ofile, g)) + Cardinality(Makers(pc, loc, g))
    BY Zenon DEF FileInv, RefExact, Pointers, Makers
  <2>2. g # m => Makers(pc', loc', g) = Makers(pc, loc, g)
    BY <1>3, <1>7, Zenon DEF Makers
  <2>. QED  BY <1>6, <1>9, <2>1, <2>2
<1>15. InodeHeld'
  <2>1. {g \in Files : ftable'[g].ref > 0 /\ ftable'[g].type = "INODE"}
          = {g \in Files : ftable[g].ref > 0 /\ ftable[g].type = "INODE"}
    BY <1>3, <1>6, Zenon
  <2>2. {q \in Procs : pc'[q] \in {"close", "exitclose"} /\ loc'[q].page = 0}
          = {q \in Procs : pc[q] \in {"close", "exitclose"} /\ loc[q].page = 0}
    BY <1>1, <1>7, Zenon
  <2>. QED  BY <1>1, <2>1, <2>2, Zenon DEF FileInv, InodeHeld
<1>16. PipesRight'
  BY <1>1, Zenon DEF FileInv, PipesRight
<1>. QED  BY <1>8, <1>11, <1>12, <1>13, <1>14, <1>15, <1>16, Zenon DEF FileInv

LEMMA FileCloseStep ==
  ASSUME FileInv, NEW p \in Procs, pc[p] \in {"user", "exit"}, NEW fd \in Fds, ofile[p][fd] # 0,
         NEW next \in {"user", "exit"},
         ofile' = [ofile EXCEPT ![p][fd] = 0], fileclose(p, ofile[p][fd], next),
         UNCHANGED <<pipes, killed, iref>>
  PROVE  FileInv'
<1>1. /\ ftable \in [Files -> FileType] /\ ofile \in [Procs -> [Fds -> 0..NFILE]]
      /\ pc \in [Procs -> Labels] /\ loc \in [Procs -> LocType]
  BY Zenon DEF FileInv, TypeOK
<1>2. PICK f \in Files : f = ofile[p][fd]
  BY <1>1 DEF Files
<1>3. ftable[f].type # "NONE" /\ ftable[f].ref # 0 /\ ftable[f] \in FileType
  BY <1>1, <1>2, Zenon DEF FileInv, FilesRight
<1>4. /\ ofile' \in [Procs -> [Fds -> 0..NFILE]] /\ ofile'[p][fd] = 0
      /\ \A q \in Procs, e \in Fds : ~(q = p /\ e = fd) => ofile'[q][e] = ofile[q][e]
  <2>1. 0 \in 0..NFILE
    BY FileAssumption
  <2>. QED  BY <1>1, <2>1, Zenon
<1>5. /\ Cardinality(Pointers(ofile', f)) = Cardinality(Pointers(ofile, f)) - 1
      /\ \A g \in Files : g # f => Pointers(ofile', g) = Pointers(ofile, g)
  <2>1. SameBut(ofile, ofile', p, fd)
    BY <1>4, Zenon DEF SameBut
  <2>2. ofile'[p][fd] # f /\ \A g \in Files : ofile'[p][fd] # g
    BY <1>4 DEF Files
  <2>. QED  BY <1>2, <2>1, <2>2, PointerDropped, PointerKept, ZenonT(40)
<1>6. ftable[f].ref = Cardinality(Pointers(ofile, f)) + Cardinality(Makers(pc, loc, f))
  BY Zenon DEF FileInv, RefExact, Pointers, Makers
<1>7. \A q \in Procs : pc[q] = "pipealloc" => loc[q].f # f /\ loc[q].f \in Files
  BY <1>3, MakersFile, Zenon
<1>8. Cardinality(Makers(pc, loc, f)) = 0
  <2>1. Makers(pc, loc, f) = {}
    BY <1>7, Zenon DEF Makers
  <2>. QED  BY <2>1, FS_EmptySet, Zenon
<1>9. PICK y \in LocType : y = [NoLoc EXCEPT !.page = ftable[f].page, !.writable = ftable[f].writable]
                           /\ y.page = ftable[f].page /\ y.writable = ftable[f].writable
  <2>1. ftable[f].page \in 0..NPAGE /\ ftable[f].writable \in BOOLEAN
    BY <1>3, Zenon DEF FileType
  <2>2. NoLoc \in LocType
    BY FileAssumption DEF NoLoc, LocType
  <2>3. \A z \in LocType, k \in 0..NPAGE :
          [z EXCEPT !.page = k] \in LocType /\ [z EXCEPT !.page = k].page = k
    BY Zenon DEF LocType
  <2>4. \A z \in LocType, w \in BOOLEAN :
          /\ [z EXCEPT !.writable = w] \in LocType /\ [z EXCEPT !.writable = w].writable = w
          /\ [z EXCEPT !.writable = w].page = z.page
    BY Zenon DEF LocType
  <2>5. PICK z \in LocType : z = [NoLoc EXCEPT !.page = ftable[f].page] /\ z.page = ftable[f].page
    BY <2>1, <2>2, <2>3, ZenonT(40)
  <2>6. /\ [z EXCEPT !.writable = ftable[f].writable] \in LocType
        /\ [z EXCEPT !.writable = ftable[f].writable].writable = ftable[f].writable
        /\ [z EXCEPT !.writable = ftable[f].writable].page = z.page
    BY <2>1, <2>4, Zenon
  <2>. QED  BY <2>5, <2>6, Zenon
<1>10. NoLoc \in LocType
  BY FileAssumption DEF NoLoc, LocType
<1>11. \A q \in Procs, e \in Fds : ftable[f].ref = 1 => ofile'[q][e] # f
  <2>. SUFFICES ASSUME ftable[f].ref = 1, NEW q \in Procs, NEW e \in Fds, ofile'[q][e] = f
                PROVE  FALSE
    OBVIOUS
  <2>1. Cardinality(Pointers(ofile', f)) # 0
    BY Pointed, Zenon
  <2>2. Cardinality(Pointers(ofile, f)) \in Nat
    BY AllFinite, Zenon
  <2>. QED  BY <1>5, <1>6, <1>8, <2>1, <2>2
<1>12. \A q \in Procs : q # p /\ (Reading(q) \/ Writing(q)) =>
         loc[q].f \in Files /\ (ftable[f].ref = 1 => loc[q].f # f)
  <2>. SUFFICES ASSUME NEW q \in Procs, q # p, Reading(q) \/ Writing(q)
                PROVE  loc[q].f \in Files /\ (ftable[f].ref = 1 => loc[q].f # f)
    OBVIOUS
  <2>1. PICK e \in Fds : ofile[q][e] = loc[q].f
    BY Zenon DEF FileInv, LocalsRight
  <2>2. ofile'[q][e] = loc[q].f
    BY <1>4, <2>1, Zenon
  <2>. QED  BY <1>11, <2>2, UserOfPipe, Zenon
<1>13. /\ \A q \in Procs : q # p => loc'[q] = loc[q] /\ pc'[q] = pc[q]
       /\ loc' \in [Procs -> LocType] /\ pc' \in [Procs -> Labels]
       /\ pc'[p] \in {"user", "exit", "close", "exitclose"}
  BY <1>1, <1>2, <1>9, <1>10, Zenon DEF fileclose, Labels
<1>14. \A g \in Files : g # f => ftable'[g] = ftable[g]
  BY <1>1, <1>2, Zenon DEF fileclose
<1>15. CASE ftable[f].ref # 1
  <2>1. /\ ftable'[f].ref = ftable[f].ref - 1 /\ ftable'[f].ref \in Nat \ {0}
        /\ ftable'[f].type = ftable[f].type /\ ftable'[f].page = ftable[f].page
        /\ ftable'[f].writable = ftable[f].writable /\ ftable' \in [Files -> FileType]
    <3>1. ftable' = [ftable EXCEPT ![f] = [ftable[f] EXCEPT !.ref = ftable[f].ref - 1]]
      BY <1>1, <1>2, <1>15, Zenon DEF fileclose
    <3>2. ftable[f].ref \in Nat /\ ftable[f].ref - 1 \in Nat \ {0}
      <4>1. ftable[f].ref \in Nat
        BY <1>3, Zenon DEF FileType
      <4>. QED  BY <1>3, <1>15, <4>1
    <3>. QED  BY <1>1, <3>1, <3>2, Zenon DEF FileType
  <2>2. pc'[p] \in {"user", "exit"}
    BY <1>1, <1>2, <1>15, Zenon DEF fileclose
  <2>3. TypeOK'
    BY <1>4, <1>13, <2>1, Zenon DEF FileInv, TypeOK
  <2>4. LocalsRight' /\ SleepRight'
    <3>1. OthersKeep(p)
      BY <1>4, <1>12, <1>13, <1>14, <2>1, <2>2, Zenon DEF OthersKeep
    <3>. QED  BY <3>1, OthersRight, Zenon
  <2>5. FilesRight'
    <3>1. \A q \in Procs, e \in Fds : ofile'[q][e] # 0 => ftable'[ofile'[q][e]].type # "NONE"
      <4>. SUFFICES ASSUME NEW q \in Procs, NEW e \in Fds, ofile'[q][e] # 0
                    PROVE  ftable'[ofile'[q][e]].type # "NONE"
        OBVIOUS
      <4>1. ofile'[q][e] = ofile[q][e] /\ ofile[q][e] \in Files
        BY <1>1, <1>4 DEF Files
      <4>. QED  BY <1>14, <2>1, <4>1, SMTT(30) DEF FileInv, FilesRight
    <3>2. \A q \in Procs : pc'[q] = "pipealloc" =>
            loc'[q] = loc[q] /\ pc[q] = "pipealloc" /\ ftable'[loc[q].f] = ftable[loc[q].f]
      BY <1>7, <1>13, <1>14, <2>2, Zenon
    <3>3. \A g \in Files :
            /\ ftable'[g].ref = 0 => ftable'[g].type = "NONE"
            /\ ftable'[g].type = "PIPE" <=> ftable'[g].page # 0
            /\ ftable'[g].type # "PIPE" => ~ftable'[g].writable
      <4>1. /\ ftable'[f].ref # 0
            /\ ftable'[f].type = "PIPE" <=> ftable'[f].page # 0
            /\ ftable'[f].type # "PIPE" => ~ftable'[f].writable
        BY <2>1, Zenon DEF FileInv, FilesRight
      <4>. QED  BY <1>14, <4>1 DEF FileInv, FilesRight
    <3>. QED  BY <3>1, <3>2, <3>3, SMTT(30) DEF FileInv, FilesRight
  <2>6. EndsRight'
    <3>1. \A g \in Files, j \in Pages, v \in BOOLEAN : FileEnd(g, j, v)' <=> FileEnd(g, j, v)
      BY <1>14, <2>1, Zenon DEF FileEnd
    <3>2. \A q \in Procs, j \in Pages, v \in BOOLEAN : ProcEnd(q, j, v)' <=> ProcEnd(q, j, v)
      BY <1>13, <2>2, Zenon DEF ProcEnd, Closing
    <3>. QED  BY <3>1, <3>2, SMTT(30) DEF FileInv, EndsRight
  <2>7. RefExact'
    <3>. SUFFICES ASSUME NEW g \in Files
                  PROVE  ftable'[g].ref = Cardinality(Pointers(ofile', g)) + Cardinality(Makers(pc', loc', g))
      BY Zenon DEF RefExact, Pointers, Makers
    <3>1. ftable[g].ref = Cardinality(Pointers(ofile, g)) + Cardinality(Makers(pc, loc, g))
      BY Zenon DEF FileInv, RefExact, Pointers, Makers
    <3>2. Makers(pc', loc', g) = Makers(pc, loc, g)
      BY <1>13, <2>2, Zenon DEF Makers
    <3>3. Cardinality(Pointers(ofile, g)) \in Nat /\ Cardinality(Makers(pc, loc, g)) \in Nat
      BY AllFinite, Zenon
    <3>4. CASE g = f
      BY <1>5, <2>1, <3>1, <3>2, <3>3, <3>4
    <3>5. CASE g # f
      BY <1>5, <1>14, <3>1, <3>2, <3>5, Zenon
    <3>. QED  BY <3>4, <3>5, Zenon
  <2>8. InodeHeld'
    <3>1. {g \in Files : ftable'[g].ref > 0 /\ ftable'[g].type = "INODE"}
            = {g \in Files : ftable[g].ref > 0 /\ ftable[g].type = "INODE"}
      <4>1. ftable[f].ref \in Nat \ {0}
        BY <1>3, Zenon DEF FileType
      <4>. QED  BY <1>14, <2>1, <4>1
    <3>2. {q \in Procs : pc'[q] \in {"close", "exitclose"} /\ loc'[q].page = 0}
            = {q \in Procs : pc[q] \in {"close", "exitclose"} /\ loc[q].page = 0}
      BY <1>13, <2>2, Zenon
    <3>. QED  BY <3>1, <3>2, Zenon DEF FileInv, InodeHeld
  <2>9. PipesRight'
    BY Zenon DEF FileInv, PipesRight
  <2>. QED  BY <2>3, <2>4, <2>5, <2>6, <2>7, <2>8, <2>9, Zenon DEF FileInv
<1>16. CASE ftable[f].ref = 1
  <2>1. /\ ftable'[f] = NoFile /\ ftable' \in [Files -> FileType]
        /\ pc'[p] \in {"close", "exitclose"} /\ loc'[p] = y
    <3>1. ftable' = [ftable EXCEPT ![f] = NoFile]
      BY <1>1, <1>2, <1>16, Zenon DEF fileclose
    <3>2. pc'[p] \in {"close", "exitclose"} /\ loc'[p] = y
      BY <1>1, <1>2, <1>3, <1>9, <1>16, Zenon DEF fileclose
    <3>. QED  BY <1>1, <3>1, <3>2, NoFileRight, Zenon
  <2>2. TypeOK'
    BY <1>4, <1>13, <2>1, Zenon DEF FileInv, TypeOK
  <2>3. LocalsRight' /\ SleepRight'
    <3>1. OthersKeep(p)
      BY <1>4, <1>12, <1>13, <1>14, <1>16, <2>1, Zenon DEF OthersKeep
    <3>. QED  BY <3>1, OthersRight, Zenon
  <2>4. FilesRight'
    <3>1. \A q \in Procs, e \in Fds : ofile'[q][e] # 0 => ftable'[ofile'[q][e]].type # "NONE"
      <4>. SUFFICES ASSUME NEW q \in Procs, NEW e \in Fds, ofile'[q][e] # 0
                    PROVE  ftable'[ofile'[q][e]].type # "NONE"
        OBVIOUS
      <4>1. ofile'[q][e] = ofile[q][e] /\ ofile[q][e] \in Files /\ ofile[q][e] # f
        BY <1>1, <1>4, <1>11, <1>16 DEF Files
      <4>. QED  BY <1>14, <4>1, SMTT(30) DEF FileInv, FilesRight
    <3>2. \A q \in Procs : pc'[q] = "pipealloc" =>
            loc'[q] = loc[q] /\ pc[q] = "pipealloc" /\ ftable'[loc[q].f] = ftable[loc[q].f]
      BY <1>7, <1>13, <1>14, <2>1, Zenon
    <3>3. \A g \in Files :
            /\ ftable'[g].ref = 0 => ftable'[g].type = "NONE"
            /\ ftable'[g].type = "PIPE" <=> ftable'[g].page # 0
            /\ ftable'[g].type # "PIPE" => ~ftable'[g].writable
      BY <1>14, <2>1, SMTT(30) DEF FileInv, FilesRight, NoFile
    <3>. QED  BY <3>1, <3>2, <3>3 DEF FileInv, FilesRight
  <2>5. EndsRight'
    <3>. SUFFICES ASSUME NEW j \in Pages, NEW v \in BOOLEAN
                  PROVE  /\ IsOpen(pipes[j], v) <=> \/ \E g \in Files : FileEnd(g, j, v)'
                                                    \/ \E q \in Procs : ProcEnd(q, j, v)'
                         /\ \A g, h \in Files : FileEnd(g, j, v)' /\ FileEnd(h, j, v)' => g = h
                         /\ \A q, r \in Procs : ProcEnd(q, j, v)' /\ ProcEnd(r, j, v)' => q = r
                         /\ \A g \in Files, q \in Procs : ~(FileEnd(g, j, v)' /\ ProcEnd(q, j, v)')
      BY Zenon DEF FileInv, EndsRight
    <3>1. \A g \in Files : FileEnd(g, j, v)' <=> FileEnd(g, j, v) /\ g # f
      BY <1>14, <2>1, SMTT(30) DEF FileEnd, NoFile, Pages
    <3>2. /\ \A q \in Procs : q # p => (ProcEnd(q, j, v)' <=> ProcEnd(q, j, v))
          /\ ~ProcEnd(p, j, v) /\ (ProcEnd(p, j, v)' <=> FileEnd(f, j, v))
      BY <1>9, <1>13, <2>1, Zenon DEF ProcEnd, Closing, FileEnd
    <3>3. /\ IsOpen(pipes[j], v) <=> \/ \E g \in Files : FileEnd(g, j, v)
                                     \/ \E q \in Procs : ProcEnd(q, j, v)
          /\ \A g, h \in Files : FileEnd(g, j, v) /\ FileEnd(h, j, v) => g = h
          /\ \A q, r \in Procs : ProcEnd(q, j, v) /\ ProcEnd(r, j, v) => q = r
          /\ \A g \in Files, q \in Procs : ~(FileEnd(g, j, v) /\ ProcEnd(q, j, v))
      BY Zenon DEF FileInv, EndsRight
    <3>. QED  BY <3>1, <3>2, <3>3, Zenon
  <2>6. RefExact'
    <3>. SUFFICES ASSUME NEW g \in Files
                  PROVE  ftable'[g].ref = Cardinality(Pointers(ofile', g)) + Cardinality(Makers(pc', loc', g))
      BY Zenon DEF RefExact, Pointers, Makers
    <3>1. ftable[g].ref = Cardinality(Pointers(ofile, g)) + Cardinality(Makers(pc, loc, g))
      BY Zenon DEF FileInv, RefExact, Pointers, Makers
    <3>2. Makers(pc', loc', g) = Makers(pc, loc, g)
      BY <1>13, <2>1, Zenon DEF Makers
    <3>3. Cardinality(Pointers(ofile, g)) \in Nat /\ Cardinality(Makers(pc, loc, g)) \in Nat
      BY AllFinite, Zenon
    <3>4. CASE g = f
      <4>1. ftable'[g].ref = 0
        BY <2>1, <3>4 DEF NoFile
      <4>. QED  BY <1>5, <1>8, <1>16, <3>1, <3>2, <3>3, <3>4, <4>1
    <3>5. CASE g # f
      BY <1>5, <1>14, <3>1, <3>2, <3>5, Zenon
    <3>. QED  BY <3>4, <3>5, Zenon
  <2>7. InodeHeld'
    <3>1. /\ IsFiniteSet(InodeFiles(ftable)) /\ Cardinality(InodeFiles(ftable)) \in Nat
          /\ IsFiniteSet(InodeClosers(pc, loc)) /\ Cardinality(InodeClosers(pc, loc)) \in Nat
      BY AllFinite, Zenon
    <3>2. iref = Cardinality(InodeFiles(ftable)) + Cardinality(InodeClosers(pc, loc))
      BY Zenon DEF FileInv, InodeHeld, InodeFiles, InodeClosers
    <3>3. ftable[f].type = "INODE" <=> ftable[f].page = 0
      BY <1>3, Zenon DEF FileInv, FilesRight, FileType
    <3>4. CASE ftable[f].type = "INODE"
      <4>1. InodeFiles(ftable') = InodeFiles(ftable) \ {f} /\ f \in InodeFiles(ftable)
        BY <1>14, <1>16, <2>1, <3>4, SMTT(30) DEF InodeFiles, NoFile
      <4>2. InodeClosers(pc', loc') = InodeClosers(pc, loc) \cup {p} /\ p \notin InodeClosers(pc, loc)
        BY <1>9, <1>13, <2>1, <3>3, <3>4, ZenonT(40) DEF InodeClosers
      <4>3. Cardinality(InodeFiles(ftable')) = Cardinality(InodeFiles(ftable)) - 1
        BY <3>1, <4>1, FS_RemoveElement, Zenon
      <4>4. Cardinality(InodeClosers(pc', loc')) = Cardinality(InodeClosers(pc, loc)) + 1
        BY <3>1, <4>2, FS_AddElement, Zenon
      <4>5. iref' = Cardinality(InodeFiles(ftable')) + Cardinality(InodeClosers(pc', loc'))
        BY <3>1, <3>2, <4>3, <4>4, SMTT(30)
      <4>. QED  BY <4>5, Zenon DEF InodeHeld, InodeFiles, InodeClosers
    <3>5. CASE ftable[f].type # "INODE"
      <4>1. InodeFiles(ftable') = InodeFiles(ftable)
        BY <1>14, <2>1, <3>5, SMTT(30) DEF InodeFiles, NoFile
      <4>2. InodeClosers(pc', loc') = InodeClosers(pc, loc)
        <5>1. loc'[p].page # 0 /\ ~(pc[p] \in {"close", "exitclose"})
          BY <1>9, <2>1, <3>3, <3>5, Zenon
        <5>. QED  BY <1>13, <5>1, Zenon DEF InodeClosers
      <4>3. iref' = Cardinality(InodeFiles(ftable')) + Cardinality(InodeClosers(pc', loc'))
        BY <3>2, <4>1, <4>2, Zenon
      <4>. QED  BY <4>3, Zenon DEF InodeHeld, InodeFiles, InodeClosers
    <3>. QED  BY <3>4, <3>5, Zenon
  <2>8. PipesRight'
    BY Zenon DEF FileInv, PipesRight
  <2>. QED  BY <2>2, <2>3, <2>4, <2>5, <2>6, <2>7, <2>8, Zenon DEF FileInv
<1>. QED  BY <1>15, <1>16, Zenon

LEMMA ForkStep ==
  ASSUME FileInv, NEW p \in Procs, NEW np \in Procs, Fork(p, np)
  PROVE  FileInv'
<1>1. /\ pc[p] = "user" /\ pc[np] = "unused" /\ p # np
      /\ ofile' = [ofile EXCEPT ![np] = ofile[p]]
      /\ ftable' = [f \in Files |->
                      [ftable[f] EXCEPT !.ref = @ + Cardinality({fd \in Fds : ofile[p][fd] = f})]]
      /\ pc' = [pc EXCEPT ![np] = "user"]
      /\ UNCHANGED <<pipes, loc, killed, iref>>
  BY Zenon DEF Fork, User
<1>2. /\ ftable \in [Files -> FileType] /\ ofile \in [Procs -> [Fds -> 0..NFILE]]
      /\ pc \in [Procs -> Labels]
  BY Zenon DEF FileInv, TypeOK
<1>3. ASSUME NEW f \in Files
      PROVE  /\ Cardinality({fd \in Fds : ofile[p][fd] = f}) \in Nat
             /\ Cardinality(Pointers(ofile', f)) =
                  Cardinality(Pointers(ofile, f)) + Cardinality({fd \in Fds : ofile[p][fd] = f})
  <2>1. \A fd \in Fds : ofile[np][fd] = 0
    BY <1>1, Zenon DEF FileInv, LocalsRight
  <2>2. IsChild(ofile, ofile', p, np)
    BY <1>1, <1>2, <2>1, Zenon DEF IsChild
  <2>. QED  BY <2>2, PointersForked, SMTT(30)
<1>4. ASSUME NEW f \in Files
      PROVE  /\ ftable'[f] \in FileType
             /\ ftable'[f].ref = ftable[f].ref + Cardinality({fd \in Fds : ofile[p][fd] = f})
             /\ ftable'[f].type = ftable[f].type /\ ftable'[f].page = ftable[f].page
             /\ ftable'[f].writable = ftable[f].writable
  <2>. PICK c \in Nat : c = Cardinality({fd \in Fds : ofile[p][fd] = f})
    BY <1>3, Zenon
  <2>1. ftable'[f] = [ftable[f] EXCEPT !.ref = ftable[f].ref + c]
    BY <1>1, Zenon
  <2>2. ftable[f] \in FileType /\ ftable[f].ref + c \in Nat
    BY <1>2, SMTT(30) DEF FileType
  <2>. QED  BY <2>1, <2>2, Zenon DEF FileType
<1>5. \A f \in Files :
        /\ ftable'[f].type = ftable[f].type /\ ftable'[f].page = ftable[f].page
        /\ ftable'[f].writable = ftable[f].writable
        /\ ftable[f].ref \in Nat /\ ftable'[f].ref \in Nat /\ ftable'[f].ref >= ftable[f].ref
  <2>. SUFFICES ASSUME NEW f \in Files
                PROVE  ftable[f].ref \in Nat /\ ftable'[f].ref \in Nat /\ ftable'[f].ref >= ftable[f].ref
    BY <1>4, Zenon
  <2>1. ftable[f].ref \in Nat
    BY <1>2, Zenon DEF FileType
  <2>. PICK c \in Nat : c = Cardinality({fd \in Fds : ofile[p][fd] = f})
    BY <1>3, Zenon
  <2>2. ftable'[f].ref = ftable[f].ref + c
    BY <1>4, Zenon
  <2>. QED  BY <2>1, <2>2, SMTT(30)
<1>6. ofile' \in [Procs -> [Fds -> 0..NFILE]] /\ pc' \in [Procs -> Labels]
  BY <1>1, <1>2, Zenon DEF Labels
<1>7. \A q \in Procs : q # np => ofile'[q] = ofile[q] /\ pc'[q] = pc[q]
  BY <1>1, <1>2, Zenon
<1>8. pc'[np] = "user" /\ ofile'[np] = ofile[p]
  BY <1>1, <1>2, Zenon
<1>9. TypeOK'
  <2>1. ftable' \in [Files -> FileType]
    BY <1>1, <1>4, Zenon
  <2>. QED  BY <1>1, <1>6, <2>1, Zenon DEF FileInv, TypeOK
<1>10. LocalsRight' /\ SleepRight'
  <2>1. \A q \in Procs : Reading(q) \/ Writing(q) => loc[q].f \in Files
    BY UserOfPipe, Zenon
  <2>2. OthersKeep(np)
    BY <1>1, <1>5, <1>7, <1>8, <2>1, Zenon DEF OthersKeep
  <2>. QED  BY <2>2, OthersRight, Zenon
<1>11. FilesRight'
  <2>1. \A q \in Procs, e \in Fds : ofile'[q][e] # 0 => ftable'[ofile'[q][e]].type # "NONE"
    <3>. SUFFICES ASSUME NEW q \in Procs, NEW e \in Fds, ofile'[q][e] # 0
                  PROVE  ftable'[ofile'[q][e]].type # "NONE"
      BY SMTT(30)
    <3>1. PICK r \in Procs : ofile'[q][e] = ofile[r][e]
      BY <1>7, <1>8, Zenon
    <3>2. ofile[r][e] \in Files
      BY <1>2, <3>1, SMTT(30) DEF Files
    <3>. QED  BY <1>5, <3>1, <3>2, SMTT(30) DEF FileInv, FilesRight
  <2>2. \A q \in Procs : pc'[q] = "pipealloc" => pc[q] = "pipealloc"
    BY <1>7, <1>8, Zenon
  <2>3. \A q \in Procs : pc[q] = "pipealloc" =>
          ftable'[loc[q].f].ref = 1 /\ ftable'[loc[q].f].type = "NONE"
    <3>. SUFFICES ASSUME NEW q \in Procs, pc[q] = "pipealloc"
                  PROVE  ftable'[loc[q].f].ref = 1 /\ ftable'[loc[q].f].type = "NONE"
      OBVIOUS
    <3>1. PICK m \in Files : m = loc[q].f /\ ftable[m].ref = 1 /\ ftable[m].type = "NONE"
      BY MakersFile, Zenon
    <3>2. {fd \in Fds : ofile[p][fd] = m} = {}
      BY <3>1, ZenonT(40) DEF FileInv, FilesRight, Files
    <3>3. Cardinality({fd \in Fds : ofile[p][fd] = m}) = 0
      BY <3>2, FS_EmptySet, Zenon
    <3>. QED  BY <1>4, <3>1, <3>3, SMTT(30)
  <2>4. \A g \in Files :
          /\ ftable'[g].ref = 0 => ftable'[g].type = "NONE"
          /\ ftable'[g].type = "PIPE" <=> ftable'[g].page # 0
          /\ ftable'[g].type # "PIPE" => ~ftable'[g].writable
    <3>. SUFFICES ASSUME NEW g \in Files
                  PROVE  /\ ftable'[g].ref = 0 => ftable'[g].type = "NONE"
                         /\ ftable'[g].type = "PIPE" <=> ftable'[g].page # 0
                         /\ ftable'[g].type # "PIPE" => ~ftable'[g].writable
      OBVIOUS
    <3>1. ftable'[g].ref = 0 => ftable[g].ref = 0
      BY <1>5
    <3>. QED  BY <1>5, <3>1, Zenon DEF FileInv, FilesRight
  <2>5. \A q \in Procs : pc'[q] = "pipealloc" => loc'[q].f # 0 /\ ftable'[loc'[q].f].ref = 1
                                                 /\ ftable'[loc'[q].f].type = "NONE"
    BY <1>1, <2>2, <2>3, ZenonT(40) DEF FileInv, FilesRight
  <2>6. \A q, r \in Procs : pc'[q] = "pipealloc" /\ pc'[r] = "pipealloc" /\ loc'[q].f = loc'[r].f => q = r
    BY <1>1, <2>2, Zenon DEF FileInv, FilesRight
  <2>. QED  BY <2>1, <2>4, <2>5, <2>6, Zenon DEF FilesRight
<1>12. EndsRight'
  <2>1. \A g \in Files, j \in Pages, v \in BOOLEAN : FileEnd(g, j, v)' <=> FileEnd(g, j, v)
    BY <1>5, Zenon DEF FileEnd
  <2>2. \A q \in Procs, j \in Pages, v \in BOOLEAN : ProcEnd(q, j, v)' <=> ProcEnd(q, j, v)
    BY <1>1, <1>7, <1>8, Zenon DEF ProcEnd, Closing
  <2>. QED  BY <1>1, <2>1, <2>2 DEF FileInv, EndsRight
<1>13. RefExact'
  <2>. SUFFICES ASSUME NEW g \in Files
                PROVE  ftable'[g].ref = Cardinality(Pointers(ofile', g)) + Cardinality(Makers(pc', loc', g))
    BY Zenon DEF RefExact, Pointers, Makers
  <2>1. ftable[g].ref = Cardinality(Pointers(ofile, g)) + Cardinality(Makers(pc, loc, g))
    BY Zenon DEF FileInv, RefExact, Pointers, Makers
  <2>2. Makers(pc', loc', g) = Makers(pc, loc, g)
    BY <1>1, <1>7, <1>8, Zenon DEF Makers
  <2>3. Cardinality(Pointers(ofile, g)) \in Nat /\ Cardinality(Makers(pc, loc, g)) \in Nat
    BY AllFinite, Zenon
  <2>. PICK c \in Nat : c = Cardinality({fd \in Fds : ofile[p][fd] = g})
    BY <1>3, Zenon
  <2>4. ftable'[g].ref = ftable[g].ref + c
    BY <1>4, Zenon
  <2>5. Cardinality(Pointers(ofile', g)) = Cardinality(Pointers(ofile, g)) + c
    BY <1>3, Zenon
  <2>. QED  BY <2>1, <2>2, <2>3, <2>4, <2>5, SMTT(30)
<1>14. InodeHeld'
  <2>1. {g \in Files : ftable'[g].ref > 0 /\ ftable'[g].type = "INODE"}
          = {g \in Files : ftable[g].ref > 0 /\ ftable[g].type = "INODE"}
    <3>1. \A g \in Files : ftable[g].type = "INODE" => ftable[g].ref # 0
      BY Zenon DEF FileInv, FilesRight
    <3>2. \A g \in Files : ftable[g].type = "INODE" => ftable[g].ref > 0 /\ ftable'[g].ref > 0
      BY <1>5, <3>1, SMTT(30)
    <3>. QED  BY <1>5, <3>2, Zenon
  <2>2. {q \in Procs : pc'[q] \in {"close", "exitclose"} /\ loc'[q].page = 0}
          = {q \in Procs : pc[q] \in {"close", "exitclose"} /\ loc[q].page = 0}
    BY <1>1, <1>7, <1>8, Zenon
  <2>. QED  BY <1>1, <2>1, <2>2, Zenon DEF FileInv, InodeHeld
<1>15. PipesRight'
  BY <1>1, Zenon DEF FileInv, PipesRight
<1>. QED  BY <1>9, <1>10, <1>11, <1>12, <1>13, <1>14, <1>15, Zenon DEF FileInv

LEMMA PipeAllocStep ==
  ASSUME FileInv, NEW p \in Procs, PipeAlloc(p)
  PROVE  FileInv'
<1>1. /\ pc[p] = "pipealloc" /\ pc' = [pc EXCEPT ![p] = "user"] /\ loc' = [loc EXCEPT ![p] = NoLoc]
      /\ UNCHANGED <<killed, iref>>
  BY Zenon DEF PipeAlloc, Return
<1>2. /\ ftable \in [Files -> FileType] /\ ofile \in [Procs -> [Fds -> 0..NFILE]]
      /\ pc \in [Procs -> Labels] /\ loc \in [Procs -> LocType] /\ pipes \in [Pages -> PipeType]
  BY Zenon DEF FileInv, TypeOK
<1>3. PICK m \in Files : m = loc[p].f /\ ftable[m].ref = 1 /\ ftable[m].type = "NONE"
  BY <1>1, MakersFile, Zenon
<1>4. PICK f \in Files, k \in Pages, fd0 \in Fds, fd1 \in Fds :
        /\ ftable[f].ref = 0 /\ ~pipes[k].page /\ ofile[p][fd0] = 0
        /\ [ofile[p] EXCEPT ![fd0] = m][fd1] = 0
        /\ ftable' = [ftable EXCEPT ![m] = PipeFile(k, FALSE), ![f] = PipeFile(k, TRUE)]
        /\ pipes' = [pipes EXCEPT ![k] = NewPipe]
        /\ ofile' = [ofile EXCEPT ![p][fd0] = m, ![p][fd1] = f]
  <2>1. PICK f \in filealloc(ftable), k \in {j \in Pages : ~pipes[j].page}, fd0 \in fdalloc(ofile[p]) :
          \E fd1 \in fdalloc([ofile[p] EXCEPT ![fd0] = loc[p].f]) :
            /\ ftable' = [ftable EXCEPT ![loc[p].f] = PipeFile(k, FALSE), ![f] = PipeFile(k, TRUE)]
            /\ pipes' = [pipes EXCEPT ![k] = NewPipe]
            /\ ofile' = [ofile EXCEPT ![p][fd0] = loc[p].f, ![p][fd1] = f]
    BY Zenon DEF PipeAlloc
  <2>2. PICK fd1 \in fdalloc([ofile[p] EXCEPT ![fd0] = m]) :
            /\ ftable' = [ftable EXCEPT ![m] = PipeFile(k, FALSE), ![f] = PipeFile(k, TRUE)]
            /\ pipes' = [pipes EXCEPT ![k] = NewPipe]
            /\ ofile' = [ofile EXCEPT ![p][fd0] = m, ![p][fd1] = f]
    BY <1>3, <2>1, Zenon
  <2>3. f \in Files /\ ftable[f].ref = 0
    BY Zenon DEF filealloc
  <2>4. fd0 \in Fds /\ ofile[p][fd0] = 0 /\ fd1 \in Fds /\ [ofile[p] EXCEPT ![fd0] = m][fd1] = 0
    BY Zenon DEF fdalloc
  <2>. QED  BY <2>2, <2>3, <2>4, Zenon
<1>5. m # f /\ m # 0 /\ f # 0
  BY <1>3, <1>4, SMTT(30) DEF Files
<1>6. fd0 # fd1 /\ ofile[p][fd1] = 0
  BY <1>2, <1>4, <1>5, Zenon
<1>7. /\ Cardinality(Pointers(ofile, f)) = 0 /\ Cardinality(Makers(pc, loc, f)) = 0
      /\ ftable[f].type = "NONE" /\ ftable[f].page = 0
      /\ \A q \in Procs : pc[q] = "pipealloc" \/ Reading(q) \/ Writing(q) => loc[q].f # f
  BY <1>4, FreeFile, Zenon
<1>8. ftable[m].page = 0
  BY <1>3, Zenon DEF FileInv, FilesRight
<1>9. /\ \A g \in Files : g # m /\ g # f => ftable'[g] = ftable[g]
      /\ ftable'[m] = PipeFile(k, FALSE) /\ ftable'[f] = PipeFile(k, TRUE)
  BY <1>2, <1>4, <1>5, Zenon
<1>10. /\ PipeFile(k, FALSE) \in FileType /\ PipeFile(k, TRUE) \in FileType
       /\ k \in 0..NPAGE /\ k # 0
  <2>1. k \in 0..NPAGE /\ k # 0
    BY FileAssumption DEF Pages
  <2>. QED  BY <2>1, Zenon DEF PipeFile, FileType
<1>11. /\ ftable'[m].ref = 1 /\ ftable'[m].type = "PIPE" /\ ftable'[m].page = k
       /\ ftable'[m].writable = FALSE
       /\ ftable'[f].ref = 1 /\ ftable'[f].type = "PIPE" /\ ftable'[f].page = k
       /\ ftable'[f].writable = TRUE
  BY <1>9, SMTT(30) DEF PipeFile
<1>12. NoLoc \in LocType
  BY FileAssumption, SMTT(30) DEF NoLoc, LocType
<1>13. /\ \A q \in Procs : q # p => loc'[q] = loc[q] /\ pc'[q] = pc[q]
       /\ pc'[p] = "user" /\ loc' \in [Procs -> LocType] /\ pc' \in [Procs -> Labels]
  BY <1>1, <1>2, <1>12, Zenon DEF Labels
<1>14. PICK o \in [Procs -> [Fds -> 0..NFILE]] : o = [ofile EXCEPT ![p][fd0] = m]
  <2>1. m \in 0..NFILE
    BY FileAssumption DEF Files
  <2>. QED  BY <1>2, <2>1, Zenon
<1>15. ofile' = [o EXCEPT ![p][fd1] = f] /\ ofile' \in [Procs -> [Fds -> 0..NFILE]]
  <2>1. f \in 0..NFILE
    BY FileAssumption DEF Files
  <2>. QED  BY <1>2, <1>4, <1>14, <2>1, Zenon
<1>16. /\ SameBut(ofile, o, p, fd0) /\ SameBut(o, ofile', p, fd1)
       /\ o[p][fd0] = m /\ o[p][fd1] = 0 /\ ofile'[p][fd1] = f /\ ofile'[p][fd0] = m
  <2>1. SameBut(ofile, o, p, fd0) /\ o[p][fd0] = m /\ o[p][fd1] = 0
    BY <1>2, <1>6, <1>14, Zenon DEF SameBut
  <2>2. SameBut(o, ofile', p, fd1) /\ ofile'[p][fd1] = f /\ ofile'[p][fd0] = o[p][fd0]
    BY <1>6, <1>15, Zenon DEF SameBut
  <2>. QED  BY <2>1, <2>2, Zenon
<1>17. \A q \in Procs, e \in Fds : ~(q = p /\ e \in {fd0, fd1}) => ofile'[q][e] = ofile[q][e]
  BY <1>16, ZenonT(40) DEF SameBut
<1>18. /\ \A j \in Pages : j # k => pipes'[j] = pipes[j]
       /\ pipes'[k] = NewPipe /\ pipes' \in [Pages -> PipeType]
  BY <1>2, <1>4, NoPipeRight, Zenon
<1>19. TypeOK'
  <2>1. ftable' \in [Files -> FileType]
    BY <1>2, <1>4, <1>10, Zenon
  <2>. QED  BY <1>1, <1>13, <1>15, <1>18, <2>1, Zenon DEF FileInv, TypeOK
<1>20. \A v \in BOOLEAN : /\ ~IsOpen(pipes[k], v)
                          /\ \A g \in Files : ~FileEnd(g, k, v)
                          /\ \A q \in Procs : ~ProcEnd(q, k, v)
  <2>1. ~pipes[k].readopen /\ ~pipes[k].writeopen
    BY <1>4, Zenon DEF FileInv, EndsRight
  <2>2. \A v \in BOOLEAN : ~IsOpen(pipes[k], v)
    BY <2>1, Zenon DEF IsOpen
  <2>. QED  BY <2>2, Zenon DEF FileInv, EndsRight
<1>21. LocalsRight' /\ SleepRight'
  <2>1. \A q \in Procs : Reading(q) \/ Writing(q) =>
          /\ loc[q].f \in Files /\ loc[q].f # m /\ loc[q].f # f
          /\ ftable[loc[q].f].page \in Pages /\ ftable[loc[q].f].page # k
    <3>. SUFFICES ASSUME NEW q \in Procs, Reading(q) \/ Writing(q)
                  PROVE  /\ loc[q].f \in Files /\ loc[q].f # m /\ loc[q].f # f
                         /\ ftable[loc[q].f].page \in Pages /\ ftable[loc[q].f].page # k
      BY Zenon
    <3>1. loc[q].f \in Files /\ ftable[loc[q].f].page \in Pages
      BY UserOfPipe, Zenon
    <3>2. loc[q].f # m /\ loc[q].f # f
      BY <1>3, <1>7, Zenon DEF FileInv, LocalsRight
    <3>3. FileEnd(loc[q].f, ftable[loc[q].f].page, ftable[loc[q].f].writable)
          /\ ftable[loc[q].f].writable \in BOOLEAN
      BY <1>2, <3>1, Zenon DEF FileEnd, FileType
    <3>. QED  BY <1>20, <3>1, <3>2, <3>3, Zenon
  <2>2. OthersKeep(p)
    BY <1>1, <1>9, <1>13, <1>17, <1>18, <2>1, ZenonT(40) DEF OthersKeep
  <2>. QED  BY <2>2, OthersRight, Zenon
<1>22. FilesRight'
  <2>1. \A q \in Procs, e \in Fds : ofile'[q][e] # 0 => ftable'[ofile'[q][e]].type # "NONE"
    <3>. SUFFICES ASSUME NEW q \in Procs, NEW e \in Fds, ofile'[q][e] # 0
                  PROVE  ftable'[ofile'[q][e]].type # "NONE"
      BY Zenon
    <3>1. CASE q = p /\ e \in {fd0, fd1}
      BY <1>11, <1>16, <3>1, Zenon
    <3>2. CASE ~(q = p /\ e \in {fd0, fd1})
      <4>1. ofile'[q][e] = ofile[q][e] /\ ofile[q][e] \in Files
        <5>1. ofile'[q][e] = ofile[q][e]
          BY <1>17, <3>2, Zenon
        <5>2. ofile[q][e] \in 0..NFILE
          BY <1>2
        <5>. QED  BY <5>1, <5>2, FileAssumption, SMTT(30) DEF Files
      <4>2. ftable[ofile[q][e]].type # "NONE"
        BY <4>1, Zenon DEF FileInv, FilesRight
      <4>. QED  BY <1>3, <1>7, <1>9, <4>1, <4>2, Zenon
    <3>. QED  BY <3>1, <3>2, Zenon
  <2>2. \A q \in Procs : pc'[q] = "pipealloc" =>
          loc'[q] = loc[q] /\ pc[q] = "pipealloc" /\ ftable'[loc[q].f] = ftable[loc[q].f]
    <3>. SUFFICES ASSUME NEW q \in Procs, pc'[q] = "pipealloc"
                  PROVE  loc'[q] = loc[q] /\ pc[q] = "pipealloc" /\ ftable'[loc[q].f] = ftable[loc[q].f]
      BY SMTT(30)
    <3>1. q # p /\ loc'[q] = loc[q] /\ pc[q] = "pipealloc"
      BY <1>13, Zenon
    <3>2. loc[q].f \in Files /\ loc[q].f # f
      BY <1>7, <3>1, MakersFile, Zenon
    <3>3. loc[q].f # m
      <4>1. \A r, s \in Procs : pc[r] = "pipealloc" /\ pc[s] = "pipealloc" /\ loc[r].f = loc[s].f => r = s
        BY Zenon DEF FileInv, FilesRight
      <4>. QED  BY <1>1, <1>3, <3>1, <4>1, Zenon
    <3>. QED  BY <1>9, <3>1, <3>2, <3>3, Zenon
  <2>3. \A g \in Files :
          /\ ftable'[g].ref = 0 => ftable'[g].type = "NONE"
          /\ ftable'[g].type = "PIPE" <=> ftable'[g].page # 0
          /\ ftable'[g].type # "PIPE" => ~ftable'[g].writable
    <3>1. ASSUME NEW g \in Files, g # m, g # f
          PROVE  /\ ftable'[g].ref = 0 => ftable'[g].type = "NONE"
                 /\ ftable'[g].type = "PIPE" <=> ftable'[g].page # 0
                 /\ ftable'[g].type # "PIPE" => ~ftable'[g].writable
      BY <1>9, <3>1, Zenon DEF FileInv, FilesRight
    <3>. QED  BY <1>10, <1>11, <3>1, SMTT(30)
  <2>4. \A q, r \in Procs : pc'[q] = "pipealloc" /\ pc'[r] = "pipealloc" /\ loc'[q].f = loc'[r].f => q = r
    BY <2>2, SMTT(30) DEF FileInv, FilesRight
  <2>5. \A q \in Procs : pc'[q] = "pipealloc" => loc'[q].f # 0 /\ ftable'[loc'[q].f].ref = 1
                                                 /\ ftable'[loc'[q].f].type = "NONE"
    BY <2>2, SMTT(30) DEF FileInv, FilesRight
  <2>. QED  BY <2>1, <2>3, <2>4, <2>5, Zenon DEF FilesRight
<1>23. EndsRight'
  <2>. SUFFICES ASSUME NEW j \in Pages
                PROVE  /\ pipes'[j].page <=> pipes'[j].readopen \/ pipes'[j].writeopen
                       /\ \A v \in BOOLEAN :
                            /\ IsOpen(pipes'[j], v) <=> \/ \E g \in Files : FileEnd(g, j, v)'
                                                        \/ \E q \in Procs : ProcEnd(q, j, v)'
                            /\ \A g, h \in Files : FileEnd(g, j, v)' /\ FileEnd(h, j, v)' => g = h
                            /\ \A q, r \in Procs : ProcEnd(q, j, v)' /\ ProcEnd(r, j, v)' => q = r
                            /\ \A g \in Files, q \in Procs : ~(FileEnd(g, j, v)' /\ ProcEnd(q, j, v)')
    BY Zenon DEF EndsRight
  <2>1. \A q \in Procs, v \in BOOLEAN : ProcEnd(q, j, v)' <=> ProcEnd(q, j, v)
    BY <1>1, <1>13, Zenon DEF ProcEnd, Closing
  <2>2. CASE j # k
    <3>1. \A g \in Files, v \in BOOLEAN : FileEnd(g, j, v)' <=> FileEnd(g, j, v)
      <4>1. j # 0
        BY DEF Pages
      <4>. QED  BY <1>7, <1>8, <1>9, <1>11, <2>2, <4>1, Zenon DEF FileEnd
    <3>2. pipes'[j] = pipes[j]
      BY <1>18, <2>2, Zenon
    <3>3. /\ pipes[j].page <=> pipes[j].readopen \/ pipes[j].writeopen
          /\ \A v \in BOOLEAN :
               /\ IsOpen(pipes[j], v) <=> \/ \E g \in Files : FileEnd(g, j, v)
                                          \/ \E q \in Procs : ProcEnd(q, j, v)
               /\ \A g, h \in Files : FileEnd(g, j, v) /\ FileEnd(h, j, v) => g = h
               /\ \A q, r \in Procs : ProcEnd(q, j, v) /\ ProcEnd(r, j, v) => q = r
               /\ \A g \in Files, q \in Procs : ~(FileEnd(g, j, v) /\ ProcEnd(q, j, v))
      BY Zenon DEF FileInv, EndsRight
    <3>4. ASSUME NEW v \in BOOLEAN
          PROVE  /\ IsOpen(pipes'[j], v) <=> \/ \E g \in Files : FileEnd(g, j, v)'
                                             \/ \E q \in Procs : ProcEnd(q, j, v)'
                 /\ \A g, h \in Files : FileEnd(g, j, v)' /\ FileEnd(h, j, v)' => g = h
                 /\ \A q, r \in Procs : ProcEnd(q, j, v)' /\ ProcEnd(r, j, v)' => q = r
                 /\ \A g \in Files, q \in Procs : ~(FileEnd(g, j, v)' /\ ProcEnd(q, j, v)')
      <4>1. /\ \A g \in Files : FileEnd(g, j, v)' <=> FileEnd(g, j, v)
            /\ \A q \in Procs : ProcEnd(q, j, v)' <=> ProcEnd(q, j, v)
            /\ IsOpen(pipes'[j], v) <=> IsOpen(pipes[j], v)
        BY <2>1, <3>1, <3>2, Zenon
      <4>. QED  BY <3>3, <4>1, Zenon
    <3>. QED  BY <3>2, <3>3, <3>4, Zenon
  <2>3. CASE j = k
    <3>1. pipes'[j].page /\ pipes'[j].readopen /\ pipes'[j].writeopen
      BY <1>18, <2>3, NoPipeRight, Zenon
    <3>2. ASSUME NEW v \in BOOLEAN
          PROVE  /\ IsOpen(pipes'[j], v)
                 /\ \A q \in Procs : ~ProcEnd(q, j, v)'
                 /\ \A g \in Files : FileEnd(g, j, v)' <=> g = IF v THEN f ELSE m
      <4>1. IsOpen(pipes'[j], v)
        BY <3>1, Zenon DEF IsOpen
      <4>2. \A g \in Files : ~FileEnd(g, k, v)
        BY <1>20, Zenon
      <4>3. \A g \in Files : g # m /\ g # f => ~FileEnd(g, j, v)'
        BY <1>9, <2>3, <4>2, Zenon DEF FileEnd
      <4>4. (FileEnd(m, j, v)' <=> ~v) /\ (FileEnd(f, j, v)' <=> v)
        BY <1>11, <2>3, Zenon DEF FileEnd
      <4>. QED  BY <1>5, <1>20, <2>1, <2>3, <4>1, <4>3, <4>4, Zenon
    <3>3. \A v \in BOOLEAN : \E g \in Files : g = IF v THEN f ELSE m
      OBVIOUS
    <3>. QED  BY <3>1, <3>2, <3>3, Zenon
  <2>. QED  BY <2>2, <2>3, Zenon
<1>24. RefExact'
  <2>. SUFFICES ASSUME NEW g \in Files
                PROVE  ftable'[g].ref = Cardinality(Pointers(ofile', g)) + Cardinality(Makers(pc', loc', g))
    BY Zenon DEF RefExact, Pointers, Makers
  <2>1. \A h \in Files : ftable[h].ref = Cardinality(Pointers(ofile, h)) + Cardinality(Makers(pc, loc, h))
    BY Zenon DEF FileInv, RefExact, Pointers, Makers
  <2>2. /\ Cardinality(Pointers(ofile, g)) \in Nat /\ Cardinality(Makers(pc, loc, g)) \in Nat
        /\ g # 0
    BY AllFinite, SMTT(30) DEF Files
  <2>3. CASE g = m
    <3>1. Makers(pc, loc, m) = {p} /\ Makers(pc', loc', m) = {}
      BY <1>1, <1>3, <1>13, ZenonT(40) DEF Makers, FileInv, FilesRight
    <3>2. Cardinality(Makers(pc, loc, m)) = 1 /\ Cardinality(Makers(pc', loc', m)) = 0
      BY <3>1, FS_Singleton, FS_EmptySet, Zenon
    <3>3. Cardinality(Pointers(ofile, m)) = 0
      <4>1. PICK x \in Nat : x = Cardinality(Pointers(ofile, m))
        BY <2>2, <2>3, Zenon
      <4>2. x + 1 = 1
        BY <1>3, <2>1, <3>2, <4>1, Zenon
      <4>3. x = 0
        BY <4>2
      <4>. QED  BY <4>1, <4>3, Zenon
    <3>4. Cardinality(Pointers(o, m)) = Cardinality(Pointers(ofile, m)) + 1
      BY <1>4, <1>5, <1>16, PointerAdded, ZenonT(40)
    <3>5. Pointers(ofile', m) = Pointers(o, m)
      BY <1>5, <1>16, PointerKept, Zenon
    <3>. QED  BY <1>11, <2>3, <3>2, <3>3, <3>4, <3>5, SMTT(30)
  <2>4. CASE g = f
    <3>1. Makers(pc', loc', f) = Makers(pc, loc, f)
      BY <1>3, <1>5, <1>13, Zenon DEF Makers
    <3>2. Pointers(o, f) = Pointers(ofile, f)
      BY <1>4, <1>5, <1>16, PointerKept
    <3>3. Cardinality(Pointers(ofile', f)) = Cardinality(Pointers(o, f)) + 1
      BY <1>5, <1>16, PointerAdded, Zenon
    <3>4. Cardinality(Pointers(ofile, f)) = 0 /\ Cardinality(Makers(pc, loc, f)) = 0
      BY <1>7, <2>1, <2>2, <2>4, Zenon
    <3>5. Cardinality(Pointers(ofile', f)) = 1 /\ Cardinality(Makers(pc', loc', f)) = 0
      BY <3>1, <3>2, <3>3, <3>4
    <3>. QED  BY <1>11, <2>4, <3>5, SMTT(30)
  <2>5. CASE g # m /\ g # f
    <3>1. Makers(pc', loc', g) = Makers(pc, loc, g)
      BY <1>3, <1>13, <2>5, Zenon DEF Makers
    <3>2. Pointers(o, g) = Pointers(ofile, g)
      BY <1>4, <1>16, <2>2, <2>5, PointerKept, Zenon
    <3>3. Pointers(ofile', g) = Pointers(o, g)
      BY <1>16, <2>2, <2>5, PointerKept, Zenon
    <3>. QED  BY <1>9, <2>1, <2>5, <3>1, <3>2, <3>3, Zenon
  <2>. QED  BY <2>3, <2>4, <2>5, Zenon
<1>25. InodeHeld'
  <2>1. {g \in Files : ftable'[g].ref > 0 /\ ftable'[g].type = "INODE"}
          = {g \in Files : ftable[g].ref > 0 /\ ftable[g].type = "INODE"}
    BY <1>3, <1>7, <1>9, <1>11, Zenon
  <2>2. {q \in Procs : pc'[q] \in {"close", "exitclose"} /\ loc'[q].page = 0}
          = {q \in Procs : pc[q] \in {"close", "exitclose"} /\ loc[q].page = 0}
    BY <1>1, <1>13, Zenon
  <2>. QED  BY <1>1, <2>1, <2>2, Zenon DEF FileInv, InodeHeld
<1>26. PipesRight'
  <2>1. Used(NewPipe) <= PIPESIZE
    BY NoPipeRight, Sizes
  <2>. QED  BY <1>18, <2>1, Zenon DEF FileInv, PipesRight
<1>. QED  BY <1>19, <1>21, <1>22, <1>23, <1>24, <1>25, <1>26, Zenon DEF FileInv
----------------------------------------------------------------------------
LEMMA InitInv == ASSUME Init PROVE FileInv
<1>1. /\ ftable = [f \in Files |-> NoFile] /\ pipes = [k \in Pages |-> NoPipe]
      /\ ofile = [p \in Procs |-> [fd \in Fds |-> 0]] /\ loc = [p \in Procs |-> NoLoc]
      /\ killed = [p \in Procs |-> FALSE] /\ iref = 0
      /\ pc \in [Procs -> {"user", "unused"}]
  BY Zenon DEF Init
<1>2. NoLoc \in LocType /\ 0 \in 0..NFILE
  BY FileAssumption DEF NoLoc, LocType
<1>3. TypeOK
  <2>1. pc \in [Procs -> Labels]
    BY <1>1, Zenon DEF Labels
  <2>. QED  BY <1>1, <1>2, <2>1, NoFileRight, NoPipeRight, Zenon DEF TypeOK
<1>4. \A f \in Files : /\ ftable[f].ref = 0 /\ ftable[f].type = "NONE" /\ ftable[f].page = 0
                       /\ ftable[f].writable = FALSE
  BY <1>1, Zenon DEF NoFile
<1>5. \A p \in Procs : pc[p] \in {"user", "unused"} /\ killed[p] = FALSE /\ \A fd \in Fds : ofile[p][fd] = 0
  BY <1>1, Zenon
<1>6. LocalsRight /\ SleepRight
  BY <1>5, Zenon DEF LocalsRight, SleepRight, Reading, Writing
<1>7. FilesRight
  BY <1>4, <1>5, Zenon DEF FilesRight
<1>8. EndsRight
  <2>1. \A k \in Pages : ~pipes[k].page /\ ~pipes[k].readopen /\ ~pipes[k].writeopen
    BY <1>1, NoPipeRight, Zenon
  <2>2. \A f \in Files, k \in Pages, w \in BOOLEAN : ~FileEnd(f, k, w)
    BY <1>4, SMTT(30) DEF FileEnd, Pages
  <2>3. \A p \in Procs, k \in Pages, w \in BOOLEAN : ~ProcEnd(p, k, w)
    BY <1>5, Zenon DEF ProcEnd, Closing
  <2>. QED  BY <2>1, <2>2, <2>3, Zenon DEF EndsRight, IsOpen
<1>9. RefExact
  <2>. SUFFICES ASSUME NEW f \in Files
                PROVE  ftable[f].ref = Cardinality(Pointers(ofile, f)) + Cardinality(Makers(pc, loc, f))
    BY Zenon DEF RefExact, Pointers, Makers
  <2>1. Pointers(ofile, f) = {} /\ Makers(pc, loc, f) = {}
    BY <1>5, SMTT(30) DEF Pointers, Makers, Files
  <2>. QED  BY <1>4, <2>1, FS_EmptySet, SMTT(30)
<1>10. InodeHeld
  <2>1. InodeFiles(ftable) = {} /\ InodeClosers(pc, loc) = {}
    BY <1>4, <1>5, Zenon DEF InodeFiles, InodeClosers
  <2>2. iref = Cardinality(InodeFiles(ftable)) + Cardinality(InodeClosers(pc, loc))
    BY <1>1, <2>1, FS_EmptySet, SMTT(30)
  <2>. QED  BY <2>2, Zenon DEF InodeHeld, InodeFiles, InodeClosers
<1>11. PipesRight
  BY <1>1, NoPipeRight, Sizes DEF PipesRight
<1>. QED  BY <1>3, <1>6, <1>7, <1>8, <1>9, <1>10, <1>11, Zenon DEF FileInv

LEMMA NextInv == ASSUME FileInv, [Next]_vars PROVE FileInv'
<1>1. CASE UNCHANGED vars
  <2>1. UNCHANGED <<ftable, pipes, ofile, pc, loc, killed, iref>>
    BY <1>1, Zenon DEF vars
  <2>2. TypeOK' /\ PipesRight'
    BY <2>1, Zenon DEF FileInv, TypeOK, PipesRight
  <2>3. LocalsRight'
    BY <2>1, Zenon DEF FileInv, LocalsRight, Reading, Writing
  <2>4. FilesRight' /\ EndsRight' /\ RefExact' /\ InodeHeld'
    BY <2>1, CalmStep, Zenon
  <2>5. SleepRight'
    BY <2>1, Zenon DEF FileInv, SleepRight, Writing, ThisPipe
  <2>. QED  BY <2>2, <2>3, <2>4, <2>5, Zenon DEF FileInv
<1>2. CASE Next
  <2>1. PICK p \in Procs : Kernel(p) \/ Calls(p)
    BY <1>2, Zenon DEF Next
  <2>2. CASE PipeAlloc(p)
    BY <2>2, PipeAllocStep, Zenon
  <2>3. CASE PipeAllocFails(p)
    BY <2>3, PipeAllocFailsStep, Zenon
  <2>4. CASE PipeClose(p)
    BY <2>4, PipeCloseStep, Zenon
  <2>5. CASE InodeClose(p)
    BY <2>5, InodeCloseStep, Zenon
  <2>6. CASE SysWrite(p) \/ WriteMore(p)
    BY <2>6, SysWriteStep, Zenon
  <2>7. CASE SysRead(p) \/ ReadMore(p)
    BY <2>7, SysReadStep, Zenon
  <2>8. CASE Sleep(p)
    BY <2>8, SleepStep, Zenon
  <2>9. CASE SysDup(p)
    BY <2>9, SysDupStep, Zenon
  <2>10. CASE SysOpen(p)
    BY <2>10, SysOpenStep, Zenon
  <2>11. CASE SysPipe(p)
    BY <2>11, SysPipeStep, Zenon
  <2>12. CASE SysClose(p)
    <3>1. PICK fd \in Fds : /\ ofile[p][fd] # 0 /\ ofile' = [ofile EXCEPT ![p][fd] = 0]
                            /\ fileclose(p, ofile[p][fd], "user")
      BY <2>12, Zenon DEF SysClose
    <3>2. pc[p] = "user" /\ UNCHANGED <<pipes, killed, iref>>
      BY <2>12, Zenon DEF SysClose, User
    <3>. QED  BY <3>1, <3>2, FileCloseStep, Zenon
  <2>13. CASE Exit(p)
    <3>1. pc[p] \in {"user", "exit"} /\ UNCHANGED <<pipes, iref>>
      BY <2>13, Zenon DEF Exit
    <3>2. CASE /\ \A fd \in Fds : ofile[p][fd] = 0
               /\ pc' = [pc EXCEPT ![p] = "unused"]
               /\ killed' = [killed EXCEPT ![p] = FALSE]
               /\ UNCHANGED <<ofile, ftable, loc>>
      BY <3>1, <3>2, ExitEnds, Zenon
    <3>3. CASE \E fd \in Fds : /\ ofile[p][fd] # 0 /\ ofile' = [ofile EXCEPT ![p][fd] = 0]
                               /\ fileclose(p, ofile[p][fd], "exit") /\ UNCHANGED killed
      BY <3>1, <3>3, FileCloseStep, Zenon
    <3>. QED  BY <2>13, <3>2, <3>3, Zenon DEF Exit
  <2>14. CASE Kill(p)
    BY <2>14, KillStep, Zenon
  <2>15. CASE \E np \in Procs : Fork(p, np)
    BY <2>15, ForkStep, Zenon
  <2>. QED  BY <2>1, <2>2, <2>3, <2>4, <2>5, <2>6, <2>7, <2>8, <2>9, <2>10, <2>11, <2>12, <2>13, <2>14,
               <2>15, Zenon DEF Kernel, Calls
<1>. QED  BY <1>1, <1>2, Zenon

LEMMA FileInvariant == Spec => []FileInv
<1>1. Init => FileInv
  BY InitInv, Zenon
<1>2. FileInv /\ [Next]_vars => FileInv'
  BY NextInv, Zenon
<1>. QED  BY <1>1, <1>2, PTL DEF Spec

\* What is open is what somebody can still close, whatever the processes do
\* with their descriptors: fileclose(), filealloc(), filedup() and pipeclose()
\* keep the counts and the two ends of every pipe exact.
THEOREM OpenIsCloseable == Spec => []LifetimesExact
<1>1. FileInv => LifetimesExact
  <2>. SUFFICES ASSUME FileInv  PROVE PipeEnds
    BY Zenon DEF FileInv, LifetimesExact
  <2>. SUFFICES ASSUME NEW k \in Pages
                PROVE  /\ Cardinality(Enders(k, FALSE)) = (IF pipes[k].readopen THEN 1 ELSE 0)
                       /\ Cardinality(Enders(k, TRUE)) = (IF pipes[k].writeopen THEN 1 ELSE 0)
    BY Zenon DEF FileInv, EndsRight, PipeEnds
  <2>1. ASSUME NEW w \in BOOLEAN
        PROVE  Cardinality(Enders(k, w)) = (IF IsOpen(pipes[k], w) THEN 1 ELSE 0)
    <3>1. \A f \in Files : FileEnd(f, k, w) => ftable[f].ref > 0 /\ ftable[f].type = "PIPE"
      <4>. SUFFICES ASSUME NEW f \in Files, FileEnd(f, k, w)
                    PROVE  ftable[f].ref > 0 /\ ftable[f].type = "PIPE"
        BY SMTT(30)
      <4>1. ftable[f].page # 0
        BY SMTT(30) DEF FileEnd, Pages
      <4>2. ftable[f].type = "PIPE" /\ ftable[f].ref # 0
        BY <4>1, Zenon DEF FileInv, FilesRight
      <4>3. ftable[f].ref \in Nat
        BY Zenon DEF FileInv, TypeOK, FileType
      <4>. QED  BY <4>2, <4>3, SMTT(30)
    <3>2. Enders(k, w) = {f \in Files : FileEnd(f, k, w)} \cup {p \in Procs : ProcEnd(p, k, w)}
      BY <3>1, Zenon DEF Enders, FileEnd, ProcEnd, Closing
    <3>3. /\ IsOpen(pipes[k], w) <=> \/ \E f \in Files : FileEnd(f, k, w)
                                     \/ \E p \in Procs : ProcEnd(p, k, w)
          /\ \A f, g \in Files : FileEnd(f, k, w) /\ FileEnd(g, k, w) => f = g
          /\ \A p, q \in Procs : ProcEnd(p, k, w) /\ ProcEnd(q, k, w) => p = q
          /\ \A f \in Files, p \in Procs : ~(FileEnd(f, k, w) /\ ProcEnd(p, k, w))
      BY Zenon DEF FileInv, EndsRight
    <3>4. CASE IsOpen(pipes[k], w)
      <4>1. PICK x : Enders(k, w) = {x}
        <5>1. CASE \E f \in Files : FileEnd(f, k, w)
          BY <3>2, <3>3, <5>1, ZenonT(40)
        <5>2. CASE \E p \in Procs : ProcEnd(p, k, w)
          BY <3>2, <3>3, <5>2, ZenonT(40)
        <5>. QED  BY <3>3, <3>4, <5>1, <5>2, Zenon
      <4>. QED  BY <3>4, <4>1, FS_Singleton, Zenon
    <3>5. CASE ~IsOpen(pipes[k], w)
      <4>1. Enders(k, w) = {}
        BY <3>2, <3>3, <3>5, Zenon
      <4>. QED  BY <3>5, <4>1, FS_EmptySet, Zenon
    <3>. QED  BY <3>4, <3>5, Zenon
  <2>. QED  BY <2>1, Zenon DEF IsOpen
<1>. QED  BY <1>1, FileInvariant, PTL

\* Without a kill() of a writer inside pipewrite(), a process sleeps in
\* piperead() or pipewrite() only beside a pipe that is empty or full and
\* whose other end is open: every wakeup that is needed is sent.
THEOREM NoSleeperForgotten == ASSUME ~KillRaces PROVE Spec => []SleepersRight
<1>1. FileInv => SleepersRight
  BY Zenon DEF FileInv, SleepRight, SleepersRight
<1>. QED  BY <1>1, FileInvariant, PTL

\* For any size of the pipe that divides the word, and across the overflow of
\* the counters, the loops of pipewrite() and piperead() are a queue of at
\* most PIPESIZE bytes.
THEOREM PipeIsQueue == Spec => []FifoOrder
<1>1. FileInv => FifoOrder
  <2>. SUFFICES ASSUME FileInv, NEW k \in Pages, NEW d \in [0..(PIPESIZE - 1) -> Bytes]
                PROVE  LET q == [pipes[k] EXCEPT !.data = d] IN
                         /\ Used(q) <= PIPESIZE
                         /\ \A s \in Payloads :
                              /\ Content(Fill(q, s).pipe) \o Fill(q, s).rest = Content(q) \o s
                              /\ Fill(q, s).rest # <<>> => Full(Fill(q, s).pipe)
                         /\ \A n \in 1..MaxLen :
                              /\ Drain(q, n).got \o Content(Drain(q, n).pipe) = Content(q)
                              /\ Len(Drain(q, n).got) = n \/ Empty(Drain(q, n).pipe)
    BY Zenon DEF FifoOrder
  <2>1. pipes[k] \in PipeType /\ Used(pipes[k]) <= PIPESIZE
    BY Zenon DEF FileInv, TypeOK, PipesRight
  <2>2. PICK q \in PipeType : /\ q = [pipes[k] EXCEPT !.data = d]
                              /\ q.nread = pipes[k].nread /\ q.nwrite = pipes[k].nwrite
    <3>1. ASSUME NEW x \in PipeType
          PROVE  /\ [x EXCEPT !.data = d] \in PipeType
                 /\ [x EXCEPT !.data = d].nread = x.nread /\ [x EXCEPT !.data = d].nwrite = x.nwrite
      BY Zenon DEF PipeType
    <3>. QED  BY <2>1, <3>1, Zenon
  <2>3. Used(q) <= PIPESIZE
    BY <2>1, <2>2, Zenon DEF Used
  <2>4. ASSUME NEW s \in Payloads
        PROVE  /\ Content(Fill(q, s).pipe) \o Fill(q, s).rest = Content(q) \o s
               /\ Fill(q, s).rest # <<>> => Full(Fill(q, s).pipe)
    <3>1. s \in Seq(Bytes)
      BY FileAssumption, Zenon
    <3>2. FillState(q, s, Len(s), Fill(q, s)) /\ (Fill(q, s).rest # <<>> => Full(Fill(q, s).pipe))
      BY <2>3, <3>1, FillRight, Zenon
    <3>. QED  BY <3>2, Zenon DEF FillState
  <2>5. ASSUME NEW n \in 1..MaxLen
        PROVE  /\ Drain(q, n).got \o Content(Drain(q, n).pipe) = Content(q)
               /\ Len(Drain(q, n).got) = n \/ Empty(Drain(q, n).pipe)
    <3>1. n \in Nat
      BY FileAssumption
    <3>. QED  BY <2>3, <3>1, DrainRight, Zenon DEF DrainState
  <2>. QED  BY <2>2, <2>3, <2>4, <2>5, Zenon
<1>. QED  BY <1>1, FileInvariant, PTL
=============================================================================
