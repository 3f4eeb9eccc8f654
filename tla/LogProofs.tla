----------------------------- MODULE LogProofs -----------------------------
(***************************************************************************)
(* Proofs about Log for every number of processes and blocks and every log *)
(* size: the space begin_op() reserves is enough, whoever calls sync() and *)
(* whenever; and where only end_op() commits, the log implements           *)
(* AtomicDisk.                                                             *)
(***************************************************************************)
EXTENDS Log, FiniteSetTheorems, TLAPS

\* Blocks logged by operations that have not ended yet.
Open == UNION {wrote[p] : p \in InOp}

\* The reservation argument: what ended operations logged, plus MAXOPBLOCKS
\* for each running one, fits.
RoomInv ==
  /\ TypeOK
  /\ \A p \in Procs : IsFiniteSet(wrote[p]) /\ Cardinality(wrote[p]) <= OpBlocks
  /\ boot \in {"readhead", "install", "erase"} => InOp = {}
  /\ boot \in {"erase", "up"} =>
       Cardinality(Range(lh) \ Open) + outstanding * MAXOPBLOCKS <= LOGSIZE

LEMMA UpTo ==
  ASSUME NEW n \in Nat
  PROVE  IsFiniteSet(1..n) /\ Cardinality(1..n) = n
<1>1. 1 \in Int /\ n \in Int
  OBVIOUS
<1>2. IsFiniteSet(1..n) /\ Cardinality(1..n) = IF 1 > n THEN 0 ELSE n-1+1
  BY ONLY <1>1, FS_Interval, Zenon
<1>. QED  BY <1>2

LEMMA SeqSet ==
  ASSUME NEW S, NEW s \in Seq(S), IsInjective(s)
  PROVE  IsFiniteSet(Range(s)) /\ Cardinality(Range(s)) = Len(s)
<1>1. s \in Surjection(1..Len(s), Range(s)) /\ s \in Injection(1..Len(s), Range(s))
  BY DEF Surjection, Injection, Range, IsInjective
<1>2. IsFiniteSet(1..Len(s)) /\ Cardinality(1..Len(s)) = Len(s)
  BY UpTo
<1>. QED  BY <1>1, <1>2, FS_Surjection, Zenon

LEMMA AbsorbSeq ==
  ASSUME NEW b \in Blocks, lh \in Seq(Blocks), IsInjective(lh)
  PROVE  /\ Absorb(b) \in Seq(Blocks) /\ IsInjective(Absorb(b))
         /\ Range(Absorb(b)) = Range(lh) \union {b}
<1>1. CASE b \in Range(lh)
  BY <1>1, Zenon DEF Absorb
<1>2. CASE b \notin Range(lh)
  <2>1. Absorb(b) = Append(lh, b)
    BY <1>2, Zenon DEF Absorb
  <2>2. /\ Append(lh, b) \in Seq(Blocks) /\ Len(Append(lh, b)) = Len(lh) + 1 /\ Len(lh) \in Nat
        /\ \A i \in 1..Len(lh) : Append(lh, b)[i] = lh[i] /\ lh[i] \in Range(lh)
        /\ Append(lh, b)[Len(lh) + 1] = b
    BY DEF Range
  <2>3. DOMAIN Append(lh, b) = 1..(Len(lh) + 1) /\ DOMAIN lh = 1..Len(lh)
    BY <2>2
  <2>4. \A i \in 1..(Len(lh) + 1) : i \in 1..Len(lh) \/ i = Len(lh) + 1
    BY <2>2
  <2>5. IsInjective(Append(lh, b))
    <3>. SUFFICES ASSUME NEW i \in 1..(Len(lh) + 1), NEW j \in 1..(Len(lh) + 1),
                         Append(lh, b)[i] = Append(lh, b)[j]
                  PROVE  i = j
      BY <2>3, Zenon DEF IsInjective
    <3>1. \A k, l \in 1..Len(lh) : lh[k] = lh[l] => k = l
      BY <2>3, Zenon DEF IsInjective
    <3>. QED  BY <1>2, <2>2, <2>4, <3>1, Zenon
  <2>6. Range(Append(lh, b)) = Range(lh) \union {b}
    <3>1. \A x \in Range(lh) : \E i \in 1..Len(lh) : x = lh[i]
      BY <2>3, Zenon DEF Range
    <3>2. \A i \in 1..Len(lh) : i \in 1..(Len(lh) + 1)
      BY <2>2
    <3>3. Len(lh) + 1 \in 1..(Len(lh) + 1)
      BY <2>2
    <3>4. \A x : x \in Range(Append(lh, b)) <=> \E i \in 1..(Len(lh) + 1) : x = Append(lh, b)[i]
      BY <2>3, Zenon DEF Range
    <3>5. ASSUME NEW x \in Range(Append(lh, b)) PROVE x \in Range(lh) \union {b}
      <4>1. PICK i \in 1..(Len(lh) + 1) : x = Append(lh, b)[i]
        BY <3>4, <3>5, Zenon
      <4>. QED  BY <2>2, <2>4, <4>1, Zenon
    <3>6. ASSUME NEW x \in Range(lh) \union {b} PROVE x \in Range(Append(lh, b))
      BY <2>2, <3>1, <3>2, <3>3, <3>4, ZenonT(40)
    <3>. QED  BY <3>5, <3>6, Zenon
  <2>. QED  BY <2>1, <2>2, <2>5, <2>6, Zenon
<1>. QED  BY <1>1, <1>2, Zenon

\* The blocks of running operations are at most OpBlocks for each of them.
LEMMA OpenBound ==
  ASSUME NEW S, IsFiniteSet(S), NEW w, NEW K \in Nat,
         \A p \in S : IsFiniteSet(w[p]) /\ Cardinality(w[p]) <= K
  PROVE  /\ IsFiniteSet(UNION {w[p] : p \in S})
         /\ Cardinality(UNION {w[p] : p \in S}) <= Cardinality(S) * K
<1>. DEFINE U == UNION {w[p] : p \in S}
            P == S \X (1..K)
            e[p \in S] == CHOOSE f : f \in Bijection(1..Cardinality(w[p]), w[p])
<1>1. IsFiniteSet(P) /\ Cardinality(P) = Cardinality(S) * K
  <2>1. IsFiniteSet(1..K) /\ Cardinality(1..K) = K
    BY UpTo, Zenon
  <2>2. IsFiniteSet(P) /\ Cardinality(P) = Cardinality(S) * Cardinality(1..K)
    BY <2>1, FS_Product, Zenon
  <2>. QED  BY <2>1, <2>2, Zenon
<1>2. \A p \in S : e[p] \in Bijection(1..Cardinality(w[p]), w[p])
  BY FS_CardinalityType, Zenon DEF ExistsBijection
<1>3. CASE U = {}
  <2>1. IsFiniteSet(U) /\ Cardinality(U) = 0 /\ Cardinality(S) \in Nat
    BY <1>3, FS_EmptySet, FS_CardinalityType, Zenon
  <2>. HIDE DEF U
  <2>2. PICK c \in Nat : c = Cardinality(S)
    BY <2>1, Zenon
  <2>3. 0 <= c * K
    OBVIOUS
  <2>. QED  BY <2>1, <2>2, <2>3, Zenon DEF U
<1>4. ASSUME NEW u \in U PROVE IsFiniteSet(U) /\ Cardinality(U) <= Cardinality(S) * K
  <2>. DEFINE f == [x \in P |-> IF x[2] <= Cardinality(w[x[1]]) THEN e[x[1]][x[2]] ELSE u]
  <2>. HIDE DEF e
  <2>0. \A p \in S : Cardinality(w[p]) \in Nat /\ Cardinality(w[p]) <= K
    BY FS_CardinalityType, Zenon
  <2>1. ASSUME NEW x \in P PROVE f[x] \in U
    <3>1. x[1] \in S /\ x[2] \in 1..K
      OBVIOUS
    <3>2. CASE x[2] <= Cardinality(w[x[1]])
      <4>1. x[2] \in 1..Cardinality(w[x[1]])
        BY <3>1, <3>2, <2>0
      <4>2. e[x[1]][x[2]] \in w[x[1]]
        BY <3>1, <4>1, <1>2, Zenon DEF Bijection, Injection
      <4>. QED  BY <3>1, <3>2, <4>2, Zenon
    <3>3. CASE ~(x[2] <= Cardinality(w[x[1]]))
      BY <3>3, Zenon
    <3>. QED  BY <3>2, <3>3, Zenon
  <2>2. ASSUME NEW v \in U PROVE \E x \in P : f[x] = v
    <3>1. PICK p \in S : v \in w[p]
      OBVIOUS
    <3>2. PICK i \in 1..Cardinality(w[p]) : e[p][i] = v
      BY <3>1, <1>2, Zenon DEF Bijection, Surjection
    <3>3. <<p, i>> \in P /\ i <= Cardinality(w[p])
      BY <3>2, <2>0
    <3>. QED  BY <3>2, <3>3, Zenon
  <2>3. f \in Surjection(P, U)
    BY <2>1, <2>2, Zenon DEF Surjection
  <2>. QED  BY <2>3, <1>1, FS_Surjection
<1>. QED  BY <1>3, <1>4, Zenon

LEMMA OutNat ==
  ASSUME TypeOK
  PROVE  IsFiniteSet(InOp) /\ outstanding \in Nat
BY LogAssumption, FS_Subset, FS_CardinalityType, Zenon DEF TypeOK, InOp

\* With the reservation in place a header h holds at most what the running
\* operations I leave unused: K of M blocks for each of them.
LEMMA RoomBound ==
  ASSUME NEW h \in Seq(Blocks), IsInjective(h), NEW I, IsFiniteSet(I), NEW w,
         NEW K \in Nat, NEW M \in Nat, NEW L \in Nat,
         \A p \in I : IsFiniteSet(w[p]) /\ Cardinality(w[p]) <= K,
         Cardinality(Range(h) \ UNION {w[p] : p \in I}) + Cardinality(I) * M <= L
  PROVE  Len(h) + Cardinality(I) * (M - K) <= L
<1>. DEFINE U == UNION {w[p] : p \in I}
            rest == Range(h) \ U
            both == rest \union U
<1>1. Cardinality(I) \in Nat
  BY FS_CardinalityType, Zenon
<1>2. IsFiniteSet(U) /\ Cardinality(U) <= Cardinality(I) * K
  BY OpenBound, Zenon
<1>3. IsFiniteSet(Range(h)) /\ Cardinality(Range(h)) = Len(h)
  BY SeqSet, Zenon
<1>4. IsFiniteSet(rest)
  BY <1>3, FS_Difference, Zenon
<1>5. /\ IsFiniteSet(both)
      /\ Cardinality(both) = Cardinality(rest) + Cardinality(U) - Cardinality(rest \cap U)
  <2>1. IsFiniteSet(U) /\ IsFiniteSet(rest)
    BY <1>2, <1>4, Zenon
  <2>. HIDE DEF U, rest
  <2>. QED  BY <2>1, FS_Union, Zenon
<1>6. rest \cap U = {} /\ Cardinality(rest \cap U) = 0
  BY FS_EmptySet, Zenon
<1>7. Cardinality(Range(h)) <= Cardinality(both)
  BY <1>5, FS_Subset, Zenon
<1>8. Cardinality(rest) \in Nat /\ Cardinality(U) \in Nat /\ Cardinality(both) \in Nat
  BY <1>2, <1>4, <1>5, FS_CardinalityType, Zenon
<1>. DEFINE m == Cardinality(I) * M
            k == Cardinality(I) * K
            d == Cardinality(I) * (M - K)
            r == Cardinality(rest)
            u == Cardinality(U)
<1>9. d = m - k /\ m \in Nat /\ k \in Nat /\ r \in Nat /\ u \in Nat
  BY <1>1, <1>8, SMTT(30)
<1>10. Len(h) \in Nat /\ r + m <= L /\ Len(h) <= r + u /\ u <= k
  BY <1>2, <1>3, <1>5, <1>6, <1>7, <1>8, SMTT(30)
<1>. HIDE DEF m, k, d, r, u
<1>11. Len(h) + d <= L
  BY <1>9, <1>10
<1>. QED  BY <1>11, Zenon DEF d

----------------------------------------------------------------------------
\* Steps that move neither operations nor the header keep the reservation.
LEMMA RoomFrame ==
  ASSUME RoomInv, TypeOK', InOp' = InOp, UNCHANGED <<lh, outstanding, wrote>>,
         boot' = boot \/ boot' = "panic"
  PROVE  RoomInv'
<1>1. Open' = Open /\ Range(lh)' = Range(lh)
  BY Zenon DEF Open, Range
<1>. QED  BY <1>1, Zenon DEF RoomInv

LEMMA RoomInit == Init => RoomInv
<1>. SUFFICES ASSUME Init PROVE RoomInv
  OBVIOUS
<1>1. InOp = {} /\ Cardinality(InOp) = 0 /\ outstanding = 0
  BY FS_EmptySet, Zenon DEF Init, InOp
<1>2. PICK v \in Vals : dlog = [i \in 1..LOGSIZE |-> v]
  BY Zenon DEF Init
<1>3. TypeOK
  <2>1. <<>> \in Seq(Blocks) /\ IsInjective(<<>>) /\ Len(<<>>) = 0
    BY DEF IsInjective
  <2>2. 0 \in 0..LOGSIZE /\ 0 <= LOGSIZE
    BY LogAssumption
  <2>. QED  BY <1>1, <1>2, <2>1, <2>2, Zenon DEF Init, TypeOK, Labels
<1>4. \A p \in Procs : IsFiniteSet(wrote[p]) /\ Cardinality(wrote[p]) <= OpBlocks
  BY FS_EmptySet, LogAssumption DEF Init
<1>. QED  BY <1>1, <1>3, <1>4, Zenon DEF RoomInv, Init

LEMMA RoomBegin == ASSUME RoomInv, NEW p \in Procs, BeginOp(p) PROVE RoomInv'
<1>. USE DEF RoomInv
<1>f. IsFiniteSet(InOp)
  BY OutNat, Zenon
<1>1. CASE CanBegin
  <2>1. /\ p \notin InOp /\ InOp' = InOp \union {p} /\ boot = "up"
        /\ outstanding' = outstanding + 1 /\ lh' = lh
        /\ wrote' = [wrote EXCEPT ![p] = {}]
    BY <1>1 DEF BeginOp, InOp, Goto, TypeOK
  <2>2. outstanding' = Cardinality(InOp')
    BY <2>1, <1>f, FS_AddElement, Zenon DEF TypeOK
  <2>3. TypeOK'
    BY <1>1, <2>2, Zenon DEF BeginOp, TypeOK, Goto, Labels, memVars, diskVars, bootVars, IsInjective
  <2>4. Range(lh') \ Open' \subseteq Range(lh)
    BY <2>1, Zenon
  <2>5. Cardinality(Range(lh') \ Open') <= Len(lh) /\ Cardinality(Range(lh') \ Open') \in Nat
    BY <2>4, SeqSet, FS_Subset, FS_CardinalityType DEF TypeOK
  <2>6. Len(lh) + outstanding' * MAXOPBLOCKS <= LOGSIZE
    BY <1>1, <2>1, Zenon DEF CanBegin
  <2>7. outstanding' * MAXOPBLOCKS \in Nat
    BY <2>1, OutNat, LogAssumption
  <2>8. Cardinality(Range(lh') \ Open') + outstanding' * MAXOPBLOCKS <= LOGSIZE
    <3>. DEFINE c == Cardinality(Range(lh') \ Open')
                m == outstanding' * MAXOPBLOCKS
    <3>1. c <= Len(lh) /\ c \in Nat /\ m \in Nat /\ Len(lh) \in Nat /\ LOGSIZE \in Nat /\ Len(lh) + m <= LOGSIZE
      BY <2>5, <2>6, <2>7, LogAssumption DEF TypeOK
    <3>. HIDE DEF c, m
    <3>2. c + m <= LOGSIZE
      BY <3>1
    <3>. QED  BY <3>2, Zenon DEF c, m
  <2>9. \A q \in Procs : IsFiniteSet(wrote'[q]) /\ Cardinality(wrote'[q]) <= OpBlocks
    BY <2>1, FS_EmptySet, LogAssumption DEF TypeOK
  <2>10. boot' = "up"
    BY <2>1, Zenon DEF BeginOp, bootVars
  <2>. QED  BY <2>3, <2>8, <2>9, <2>10, <2>1, Zenon DEF Range, Open
<1>2. CASE ~CanBegin
  <2>1. /\ InOp' = InOp /\ UNCHANGED <<lh, outstanding, wrote, boot>>
    BY <1>2, Zenon DEF BeginOp, InOp, Goto, TypeOK, bootVars
  <2>2. TypeOK'
    BY <1>2, <2>1, Zenon DEF BeginOp, TypeOK, Goto, Labels, memVars, diskVars, bootVars, IsInjective
  <2>. QED  BY <2>1, <2>2, RoomFrame, Zenon
<1>. QED  BY <1>1, <1>2, Zenon

LEMMA RoomWrite == ASSUME RoomInv, NEW p \in Procs, LogWrite(p) PROVE RoomInv'
<1>. USE DEF RoomInv
<1>1. PICK b \in Blocks, v \in Vals :
        /\ Cardinality(wrote[p] \union {b}) <= OpBlocks
        /\ cache' = [cache EXCEPT ![b] = v]
        /\ wrote' = [wrote EXCEPT ![p] = @ \union {b}]
        /\ lh' = Absorb(b)
        /\ dirty' = dirty \union {b}
  BY Zenon DEF LogWrite, Pin
<1>2. /\ boot = "up" /\ boot' = "up" /\ p \in InOp /\ InOp' = InOp /\ outstanding' = outstanding
      /\ pc' = [pc EXCEPT ![p] = "op"]
  BY Zenon DEF LogWrite, InOp, Goto, TypeOK, bootVars
<1>3. /\ lh' \in Seq(Blocks) /\ IsInjective(lh') /\ Range(lh') = Range(lh) \union {b}
  BY <1>1, AbsorbSeq, Zenon DEF TypeOK
<1>4. \A q \in Procs : IsFiniteSet(wrote'[q]) /\ Cardinality(wrote'[q]) <= OpBlocks
  BY <1>1, FS_AddElement, ZenonT(40) DEF TypeOK
<1>5. Open' = Open \union {b}
  <2>1. \A q \in InOp : wrote'[q] = IF q = p THEN wrote[q] \union {b} ELSE wrote[q]
    BY <1>1, <1>2, Zenon DEF TypeOK, InOp
  <2>. QED  BY <2>1, <1>2, ZenonT(40) DEF Open
<1>6. Range(lh') \ Open' \subseteq Range(lh) \ Open
  BY <1>3, <1>5, Zenon
<1>7. Cardinality(Range(lh') \ Open') + outstanding' * MAXOPBLOCKS <= LOGSIZE
  <2>1. IsFiniteSet(Range(lh) \ Open)
    BY SeqSet, FS_Difference, Zenon DEF TypeOK
  <2>. DEFINE c == Cardinality(Range(lh) \ Open)
              d == Cardinality(Range(lh') \ Open')
              m == outstanding * MAXOPBLOCKS
  <2>2. c \in Nat /\ d \in Nat /\ d <= c
    BY <2>1, <1>6, FS_Subset, FS_CardinalityType, Zenon
  <2>3. m \in Nat /\ c + m <= LOGSIZE /\ LOGSIZE \in Nat
    BY <1>2, OutNat, LogAssumption
  <2>. HIDE DEF c, d, m
  <2>4. d + m <= LOGSIZE
    BY <2>2, <2>3
  <2>. QED  BY <2>4, <1>2, Zenon DEF d, m
<1>8. Len(lh') <= LOGSIZE
  <2>1. IsFiniteSet(InOp) /\ outstanding = Cardinality(InOp) /\ outstanding \in Nat
    BY OutNat, Zenon DEF TypeOK
  <2>2. OpBlocks \in Nat /\ MAXOPBLOCKS \in Nat /\ LOGSIZE \in Nat /\ MAXOPBLOCKS - OpBlocks \in Nat
    BY LogAssumption
  <2>3. \A q \in InOp : IsFiniteSet(wrote'[q]) /\ Cardinality(wrote'[q]) <= OpBlocks
    BY <1>4, Zenon DEF InOp
  <2>4. Open' = UNION {wrote'[q] : q \in InOp}
    BY <1>2, Zenon DEF Open
  <2>5. Cardinality(Range(lh') \ UNION {wrote'[q] : q \in InOp}) + Cardinality(InOp) * MAXOPBLOCKS <= LOGSIZE
    BY <1>2, <1>7, <2>1, <2>4, Zenon
  <2>6. Len(lh') + Cardinality(InOp) * (MAXOPBLOCKS - OpBlocks) <= LOGSIZE
    BY ONLY <1>3, <2>1, <2>2, <2>3, <2>5, RoomBound, ZenonT(60)
  <2>7. Cardinality(InOp) * (MAXOPBLOCKS - OpBlocks) \in Nat
    BY <2>1, <2>2
  <2>8. Len(lh') \in Nat
    BY <1>3
  <2>. HIDE DEF RoomInv
  <2>. QED  BY <2>2, <2>6, <2>7, <2>8
<1>9. TypeOK'
  BY <1>1, <1>2, <1>3, <1>8, ZenonT(40) DEF TypeOK, LogWrite, Labels, diskVars, bootVars
<1>. QED  BY <1>2, <1>4, <1>7, <1>9, Zenon

LEMMA RoomEnd == ASSUME RoomInv, NEW p \in Procs, EndOp(p) PROVE RoomInv'
<1>. USE DEF RoomInv
<1>1. /\ boot = "up" /\ boot' = "up" /\ p \in InOp /\ lh' = lh
      /\ outstanding' = outstanding - 1 /\ wrote' = [wrote EXCEPT ![p] = {}]
  BY Zenon DEF EndOp, InOp, bootVars
<1>2. /\ pc' \in [Procs -> Labels] /\ pc'[p] \notin {"op", "logw"} /\ committing' \in BOOLEAN
      /\ \A q \in Procs \ {p} : pc'[q] \in {"op", "logw"} <=> pc[q] \in {"op", "logw"}
  BY Zenon DEF EndOp, TypeOK, Labels, WakeSync, WakeLog, Wakeup
<1>3. InOp' = InOp \ {p}
  BY <1>2, Zenon DEF InOp
<1>4. IsFiniteSet(InOp) /\ outstanding = Cardinality(InOp) /\ outstanding \in Nat
  BY OutNat, Zenon DEF TypeOK
<1>5. outstanding' = Cardinality(InOp')
  BY <1>1, <1>3, <1>4, FS_RemoveElement, Zenon
<1>6. TypeOK'
  BY <1>1, <1>2, <1>5, Zenon DEF TypeOK, EndOp, memVars, diskVars, bootVars, IsInjective
<1>7. \A q \in Procs : IsFiniteSet(wrote'[q]) /\ Cardinality(wrote'[q]) <= OpBlocks
  BY <1>1, FS_EmptySet, LogAssumption DEF TypeOK
<1>8. Range(lh') \ Open' \subseteq (Range(lh) \ Open) \union wrote[p]
  <2>1. \A q \in InOp' : wrote'[q] = wrote[q]
    BY <1>1, <1>3, Zenon DEF TypeOK, InOp
  <2>. QED  BY <1>1, <1>3, <2>1, Zenon DEF Open
<1>9. Cardinality(Range(lh') \ Open') + outstanding' * MAXOPBLOCKS <= LOGSIZE
  <2>. DEFINE A == Range(lh) \ Open
              c == Cardinality(A)
              d == Cardinality(Range(lh') \ Open')
              w == Cardinality(wrote[p])
              m == outstanding * MAXOPBLOCKS
              n == outstanding' * MAXOPBLOCKS
  <2>1. IsFiniteSet(A) /\ IsFiniteSet(wrote[p])
    BY SeqSet, FS_Difference, Zenon DEF TypeOK
  <2>2. /\ IsFiniteSet(A \union wrote[p]) /\ Cardinality(A \union wrote[p]) <= c + w
        /\ Cardinality(A \union wrote[p]) \in Nat
    <3>1. /\ IsFiniteSet(A \union wrote[p])
          /\ Cardinality(A \union wrote[p]) = c + w - Cardinality(A \cap wrote[p])
      BY <2>1, FS_Union, Zenon
    <3>2. IsFiniteSet(A \cap wrote[p])
      BY <2>1, FS_Intersection, Zenon
    <3>3. /\ Cardinality(A \union wrote[p]) \in Nat /\ Cardinality(A \cap wrote[p]) \in Nat
          /\ c \in Nat /\ w \in Nat
      BY <2>1, <3>1, <3>2, FS_CardinalityType, Zenon
    <3>. HIDE DEF A, c, w
    <3>. QED  BY <3>1, <3>3
  <2>3. d \in Nat /\ d <= Cardinality(A \union wrote[p])
    BY <2>2, <1>8, FS_Subset, FS_CardinalityType, Zenon
  <2>4. c \in Nat /\ w \in Nat /\ w <= MAXOPBLOCKS /\ MAXOPBLOCKS \in Nat /\ LOGSIZE \in Nat
    BY <2>1, FS_CardinalityType, LogAssumption
  <2>5. m \in Nat /\ n = m - MAXOPBLOCKS
    BY <1>1, <1>4, <2>4
  <2>6. c + m <= LOGSIZE
    BY <1>1, Zenon
  <2>. HIDE DEF A, c, d, w, m, n
  <2>7. d + n <= LOGSIZE
    BY <2>2, <2>3, <2>4, <2>5, <2>6
  <2>. QED  BY <2>7, Zenon DEF d, n
<1>. QED  BY <1>1, <1>6, <1>7, <1>9, Zenon

LEMMA RoomCheck == ASSUME RoomInv, NEW p \in Procs, LogWriteCheck(p) PROVE RoomInv'
<1>1. /\ InOp' = InOp /\ UNCHANGED <<lh, outstanding, wrote>>
      /\ boot' = boot \/ boot' = "panic"
  BY Zenon DEF LogWriteCheck, InOp, Goto, RoomInv, TypeOK, logVars
<1>2. TypeOK'
  BY <1>1, Zenon DEF LogWriteCheck, RoomInv, TypeOK, Labels, Goto, logVars, memVars, diskVars, IsInjective
<1>. QED  BY <1>1, <1>2, RoomFrame, Zenon

LEMMA RoomSync == ASSUME RoomInv, NEW p \in Procs, SyncCall(p) \/ SyncTest(p) \/ SyncWait(p)
                                    \/ Commit(p) \/ EraseHead(p) \/ WriteHead(p) \/ SyncDone(p)
                  PROVE  RoomInv'
<1>1. UNCHANGED <<lh, outstanding, wrote, boot, memVars, disk, dlog, tail, rtail>>
  BY Zenon DEF SyncCall, SyncTest, SyncWait, Commit, EraseHead, WriteHead, SyncDone,
         logVars, memVars, diskVars, bootVars
<1>2. /\ pc' \in [Procs -> Labels] /\ committing' \in BOOLEAN
      /\ \A q \in Procs : pc'[q] \in {"op", "logw"} <=> pc[q] \in {"op", "logw"}
  BY ZenonT(30) DEF SyncCall, SyncTest, SyncWait, Commit, EraseHead, WriteHead, SyncDone, Goto,
         WakeLog, Wakeup, Labels, RoomInv, TypeOK, logVars
<1>3. InOp' = InOp
  BY <1>2, Zenon DEF InOp
<1>4. dhead' = dhead \/ dhead' = lh
  BY Zenon DEF SyncCall, SyncTest, SyncWait, Commit, EraseHead, WriteHead, SyncDone, diskVars
<1>5. TypeOK'
  BY <1>1, <1>2, <1>3, <1>4, Zenon DEF RoomInv, TypeOK, memVars, IsInjective
<1>. QED  BY <1>1, <1>3, <1>5, RoomFrame, Zenon

LEMMA RoomWriteLog == ASSUME RoomInv, NEW p \in Procs, WriteLog(p) PROVE RoomInv'
<1>1. UNCHANGED <<lh, outstanding, committing, wrote, boot, memVars, disk, dhead, rtail>>
  BY Zenon DEF WriteLog, logVars, bootVars
<1>2. pc' \in [Procs -> Labels] /\ \A q \in Procs : pc'[q] \in {"op", "logw"} <=> pc[q] \in {"op", "logw"}
  BY Zenon DEF WriteLog, Goto, Labels, RoomInv, TypeOK
<1>3. dlog' \in [1..LOGSIZE -> Vals] /\ tail' \in [Procs -> 0..LOGSIZE]
  <2>1. CASE tail[p] + 1 <= Len(lh)
    <3>1. tail[p] \in 0..LOGSIZE /\ tail[p] + 1 \in 1..Len(lh) /\ tail[p] + 1 \in 1..LOGSIZE
      BY <2>1, LogAssumption DEF RoomInv, TypeOK
    <3>2. cache[lh[tail[p] + 1]] \in Vals
      BY <3>1 DEF RoomInv, TypeOK
    <3>3. /\ dlog' = [dlog EXCEPT ![tail[p] + 1] = cache[lh[tail[p] + 1]]]
          /\ tail' = [tail EXCEPT ![p] = tail[p] + 1]
      BY <2>1, <3>1 DEF WriteLog, RoomInv, TypeOK
    <3>. QED  BY <3>1, <3>2, <3>3, LogAssumption DEF RoomInv, TypeOK
  <2>2. CASE ~(tail[p] + 1 <= Len(lh))
    <3>1. dlog' = dlog /\ tail' = [tail EXCEPT ![p] = 0]
      BY <2>2, Zenon DEF WriteLog
    <3>2. 0 \in 0..LOGSIZE
      BY LogAssumption
    <3>. QED  BY <3>1, <3>2, Zenon DEF RoomInv, TypeOK
  <2>. QED  BY <2>1, <2>2, Zenon
<1>4. InOp' = InOp
  BY <1>2, Zenon DEF InOp
<1>5. TypeOK'
  BY <1>1, <1>2, <1>3, <1>4, Zenon DEF RoomInv, TypeOK, memVars, IsInjective
<1>. QED  BY <1>1, <1>4, <1>5, RoomFrame, Zenon

LEMMA InstallType ==
  ASSUME TypeOK, NEW t \in 1..LOGSIZE, t <= Len(lh), InstallBlock(t)
  PROVE  cache' \in [Blocks -> Vals] /\ disk' \in [Blocks -> Vals] /\ dirty' \subseteq Blocks
BY Zenon DEF TypeOK, InstallBlock

LEMMA EmptyHead ==
  ASSUME RoomInv, TypeOK', InOp' = InOp, UNCHANGED <<outstanding, wrote>>, lh' = <<>>,
         (boot = "up" /\ boot' = "up") \/ InOp = {}
  PROVE  RoomInv'
<1>1. Range(lh') \ Open' = {} /\ Cardinality(Range(lh') \ Open') = 0
  BY FS_EmptySet DEF Range
<1>2. outstanding \in Nat /\ outstanding * MAXOPBLOCKS <= LOGSIZE
  <2>1. CASE boot = "up"
    <3>. DEFINE c == Cardinality(Range(lh) \ Open)
                m == outstanding * MAXOPBLOCKS
    <3>1. IsFiniteSet(Range(lh) \ Open)
      BY SeqSet, FS_Difference, Zenon DEF RoomInv, TypeOK
    <3>2. c \in Nat /\ m \in Nat /\ outstanding \in Nat
      BY <3>1, OutNat, FS_CardinalityType, LogAssumption DEF RoomInv
    <3>3. c + m <= LOGSIZE /\ LOGSIZE \in Nat
      BY <2>1, LogAssumption, Zenon DEF RoomInv
    <3>. HIDE DEF c, m
    <3>4. m <= LOGSIZE
      BY <3>2, <3>3, SMTT(30)
    <3>. QED  BY <3>2, <3>4, Zenon DEF m
  <2>2. CASE InOp = {}
    BY <2>2, FS_EmptySet, LogAssumption, SMTT(30) DEF RoomInv, TypeOK
  <2>. QED  BY <2>1, <2>2, Zenon
<1>3. 0 + outstanding' * MAXOPBLOCKS <= LOGSIZE
  BY <1>2, LogAssumption
<1>. QED  BY <1>1, <1>3, Zenon DEF RoomInv, Open

LEMMA RoomInstall == ASSUME RoomInv, NEW p \in Procs, Install(p) PROVE RoomInv'
<1>1. /\ UNCHANGED <<outstanding, committing, dlog, dhead, wrote, boot, rtail>>
      /\ boot = "up"
  BY Zenon DEF Install, bootVars
<1>2. pc' \in [Procs -> Labels] /\ \A q \in Procs : pc'[q] \in {"op", "logw"} <=> pc[q] \in {"op", "logw"}
  BY Zenon DEF Install, Goto, Labels, RoomInv, TypeOK
<1>3. InOp' = InOp
  BY <1>2, Zenon DEF InOp
<1>4. CASE tail[p] + 1 <= Len(lh)
  <2>1. tail[p] + 1 \in 1..LOGSIZE
    BY <1>4, LogAssumption DEF RoomInv, TypeOK
  <2>2. InstallBlock(tail[p] + 1) /\ tail' = [tail EXCEPT ![p] = tail[p] + 1] /\ lh' = lh
    BY <1>4, <2>1, SMTT(30) DEF Install, RoomInv, TypeOK
  <2>3. cache' \in [Blocks -> Vals] /\ disk' \in [Blocks -> Vals] /\ dirty' \subseteq Blocks
    BY <1>4, <2>1, <2>2, InstallType, Zenon DEF RoomInv
  <2>4. tail' \in [Procs -> 0..LOGSIZE]
    BY <2>1, <2>2, LogAssumption, SMTT(30) DEF RoomInv, TypeOK
  <2>5. TypeOK'
    BY <1>1, <1>2, <1>3, <2>2, <2>3, <2>4, Zenon DEF RoomInv, TypeOK, IsInjective
  <2>. QED  BY <1>1, <1>3, <2>2, <2>5, RoomFrame, Zenon
<1>5. CASE ~(tail[p] + 1 <= Len(lh))
  <2>1. lh' = <<>> /\ tail' = [tail EXCEPT ![p] = 0] /\ UNCHANGED <<disk, cache, dirty>>
    BY <1>5, Zenon DEF Install, memVars, RoomInv, TypeOK
  <2>2. <<>> \in Seq(Blocks) /\ IsInjective(<<>>) /\ Len(<<>>) = 0 /\ 0 \in 0..LOGSIZE
    BY LogAssumption DEF IsInjective
  <2>3. TypeOK'
    BY <1>1, <1>2, <1>3, <2>1, <2>2, LogAssumption, SMTT(30) DEF RoomInv, TypeOK, IsInjective
  <2>. QED  BY <1>1, <1>3, <2>1, <2>3, EmptyHead, Zenon
<1>. QED  BY <1>4, <1>5, Zenon

LEMMA RoomEvict == ASSUME RoomInv, NEW b \in Blocks, Evict(b) PROVE RoomInv'
<1>1. TypeOK' /\ InOp' = InOp /\ UNCHANGED <<lh, outstanding, wrote, boot>>
  BY Zenon DEF Evict, RoomInv, TypeOK, InOp, logVars, diskVars, procVars, bootVars, IsInjective
<1>. QED  BY <1>1, RoomFrame, Zenon

LEMMA RoomCrash == ASSUME RoomInv, Crash PROVE RoomInv'
<1>1. InOp' = {} /\ Cardinality({}) = 0 /\ IsFiniteSet({})
  BY FS_EmptySet, Zenon DEF Crash, InOp
<1>2. <<>> \in Seq(Blocks) /\ IsInjective(<<>>) /\ Len(<<>>) = 0 /\ 0 \in 0..LOGSIZE
  BY LogAssumption DEF IsInjective
<1>3. TypeOK'
  <2>1. dhead' = dhead /\ IsInjective(dhead') /\ disk' = disk /\ dlog' = dlog
    BY Zenon DEF Crash, diskVars, RoomInv, TypeOK
  <2>2. 0 <= LOGSIZE
    BY LogAssumption
  <2>. QED  BY <1>1, <1>2, <2>1, <2>2, Zenon DEF Crash, RoomInv, TypeOK, Labels
<1>4. \A p \in Procs : IsFiniteSet(wrote'[p]) /\ Cardinality(wrote'[p]) <= OpBlocks
  <2>1. \A p \in Procs : wrote'[p] = {}
    BY Zenon DEF Crash
  <2>2. 0 <= OpBlocks
    BY LogAssumption
  <2>. QED  BY <1>1, <2>1, <2>2, Zenon
<1>5. boot' = "readhead" /\ boot' \notin {"erase", "up"}
  BY Zenon DEF Crash
<1>. QED  BY <1>1, <1>3, <1>4, <1>5, Zenon DEF RoomInv

LEMMA RoomReadHead == ASSUME RoomInv, ReadHead PROVE RoomInv'
<1>1. TypeOK' /\ InOp' = InOp /\ InOp = {}
  BY Zenon DEF ReadHead, RoomInv, TypeOK, InOp, memVars, diskVars, procVars, IsInjective
<1>. QED  BY <1>1, Zenon DEF RoomInv, ReadHead, procVars

LEMMA RoomRecover == ASSUME RoomInv, RecoverInstall PROVE RoomInv'
<1>1. /\ UNCHANGED <<outstanding, committing, dlog, dhead, pc, tail, wrote>>
      /\ boot = "install" /\ InOp = {} /\ InOp' = InOp
  BY Zenon DEF RecoverInstall, procVars, RoomInv, InOp
<1>4. CASE rtail + 1 <= Len(lh)
  <2>1. rtail + 1 \in 1..LOGSIZE
    BY <1>4, LogAssumption, SMTT(30) DEF RoomInv, TypeOK
  <2>2. InstallBlock(rtail + 1) /\ rtail' = rtail + 1 /\ lh' = lh /\ boot' = boot
    BY <1>4, <2>1, SMTT(30) DEF RecoverInstall, RoomInv, TypeOK
  <2>3. cache' \in [Blocks -> Vals] /\ disk' \in [Blocks -> Vals] /\ dirty' \subseteq Blocks
    BY <1>4, <2>1, <2>2, InstallType, Zenon DEF RoomInv
  <2>5. TypeOK'
    BY <1>1, <2>1, <2>2, <2>3, LogAssumption, SMTT(30) DEF RoomInv, TypeOK, IsInjective
  <2>. QED  BY <1>1, <2>2, <2>5, RoomFrame, Zenon
<1>5. CASE ~(rtail + 1 <= Len(lh))
  <2>1. lh' = <<>> /\ rtail' = 0 /\ boot' = "erase" /\ UNCHANGED <<disk, cache, dirty>>
    BY <1>5, Zenon DEF RecoverInstall, memVars, RoomInv, TypeOK
  <2>2. <<>> \in Seq(Blocks) /\ IsInjective(<<>>) /\ Len(<<>>) = 0 /\ 0 \in 0..LOGSIZE
    BY LogAssumption DEF IsInjective
  <2>3. TypeOK'
    BY <1>1, <2>1, <2>2, LogAssumption, SMTT(30) DEF RoomInv, TypeOK, IsInjective
  <2>. QED  BY <1>1, <2>1, <2>3, EmptyHead, Zenon
<1>. QED  BY <1>4, <1>5, Zenon

LEMMA RoomErase == ASSUME RoomInv, RecoverErase PROVE RoomInv'
<1>1. TypeOK' /\ InOp' = InOp
  BY Zenon DEF RecoverErase, RoomInv, TypeOK, InOp, logVars, memVars, procVars, IsInjective
<1>2. Open' = Open /\ Range(lh)' = Range(lh) /\ UNCHANGED <<lh, outstanding, wrote>>
  BY <1>1, Zenon DEF Open, Range, RecoverErase, logVars, procVars
<1>. QED  BY <1>1, <1>2, Zenon DEF RoomInv, RecoverErase
----------------------------------------------------------------------------
LEMMA RoomNext == RoomInv /\ [Next]_vars => RoomInv'
<1>. SUFFICES ASSUME RoomInv, [Next]_vars PROVE RoomInv'
  OBVIOUS
<1>1. CASE UNCHANGED vars
  BY <1>1 DEF RoomInv, TypeOK, Open, InOp, Range, IsInjective, vars, logVars, memVars,
              diskVars, procVars, bootVars
<1>2. ASSUME NEW p \in Procs, BeginOp(p) \/ LogWriteCheck(p) \/ LogWrite(p) \/ EndOp(p)
                        \/ SyncCall(p) \/ SyncStep(p)
      PROVE  RoomInv'
  BY <1>2, RoomBegin, RoomCheck, RoomWrite, RoomEnd, RoomSync, RoomWriteLog, RoomInstall, Zenon
     DEF SyncStep
<1>3. ASSUME NEW b \in Blocks, Evict(b) PROVE RoomInv'
  BY <1>3, RoomEvict, Zenon
<1>. QED  BY <1>1, <1>2, <1>3, RoomCrash, RoomReadHead, RoomRecover, RoomErase, Zenon DEF Next

\* The types of all variables; in particular the log header never outgrows
\* LOGSIZE entries and log.outstanding counts the running operations, for every
\* set of processes and of sync() callers.
THEOREM TypeCorrect == Spec => []TypeOK
<1>1. RoomInv => TypeOK
  BY Zenon DEF RoomInv
<1>. QED  BY <1>1, RoomInit, RoomNext, PTL DEF Spec

\* log_write() does not panic when an operation logs at most MAXOPBLOCKS - 2
\* distinct blocks in a log of LOGSIZE blocks, header included (mkfs.c).
THEOREM NeverTooBig ==
  ASSUME OpBlocks + 2 <= MAXOPBLOCKS, NLOG >= LOGSIZE
  PROVE  Spec => []NoPanic
<1>1. Init => NoPanic
  BY Zenon DEF Init, NoPanic
<1>2. RoomInv /\ NoPanic /\ [Next]_vars => NoPanic'
  <2>. SUFFICES ASSUME RoomInv, NoPanic, [Next]_vars, boot' = "panic" PROVE FALSE
    BY Zenon DEF NoPanic
  <2>1. PICK p \in Procs : LogWriteCheck(p)
    BY Zenon DEF Next, NoPanic, BeginOp, LogWrite, EndOp, SyncCall, SyncStep, SyncTest, SyncWait,
           Commit, WriteLog, WriteHead, Install, EraseHead, SyncDone, Evict, Crash, ReadHead,
           RecoverInstall, RecoverErase, vars, bootVars
  <2>2. boot = "up" /\ p \in InOp /\ (TooBig \/ outstanding < 1)
    BY <2>1, Zenon DEF LogWriteCheck, InOp, NoPanic
  <2>3. IsFiniteSet(InOp) /\ outstanding \in Nat /\ outstanding = Cardinality(InOp)
    BY OutNat, Zenon DEF RoomInv, TypeOK
  <2>4. outstanding >= 1
    <3>1. Cardinality(InOp \ {p}) = Cardinality(InOp) - 1 /\ IsFiniteSet(InOp \ {p})
      BY <2>2, <2>3, FS_RemoveElement, Zenon
    <3>2. Cardinality(InOp \ {p}) \in Nat
      BY <3>1, FS_CardinalityType, Zenon
    <3>. QED  BY <3>1, <3>2, <2>3
  <2>5. /\ OpBlocks \in Nat /\ MAXOPBLOCKS \in Nat /\ LOGSIZE \in Nat /\ NLOG \in Nat
        /\ MAXOPBLOCKS - OpBlocks \in Nat
    BY LogAssumption
  <2>6. Len(lh) + outstanding * (MAXOPBLOCKS - OpBlocks) <= LOGSIZE
    <3>1. lh \in Seq(Blocks) /\ IsInjective(lh)
      BY Zenon DEF RoomInv, TypeOK
    <3>2. \A q \in InOp : IsFiniteSet(wrote[q]) /\ Cardinality(wrote[q]) <= OpBlocks
      BY Zenon DEF RoomInv, InOp
    <3>3. Cardinality(Range(lh) \ UNION {wrote[q] : q \in InOp}) + Cardinality(InOp) * MAXOPBLOCKS <= LOGSIZE
      BY <2>2, <2>3, Zenon DEF RoomInv, Open
    <3>4. Len(lh) + Cardinality(InOp) * (MAXOPBLOCKS - OpBlocks) <= LOGSIZE
      BY ONLY <2>3, <2>5, <3>1, <3>2, <3>3, RoomBound, ZenonT(60)
    <3>. QED  BY <2>3, <3>4, Zenon
  <2>7. outstanding * (MAXOPBLOCKS - OpBlocks) >= MAXOPBLOCKS - OpBlocks
    BY <2>3, <2>4, <2>5, SMTT(30)
  <2>8. Len(lh) \in Nat
    BY DEF RoomInv, TypeOK
  <2>. DEFINE d == outstanding * (MAXOPBLOCKS - OpBlocks)
  <2>9. d \in Nat /\ d >= 2 /\ Len(lh) + d <= LOGSIZE
    BY <2>3, <2>5, <2>6, <2>7
  <2>. HIDE DEF d
  <2>. QED  BY <2>2, <2>3, <2>4, <2>5, <2>8, <2>9, SMTT(30) DEF TooBig
<1>. QED  BY <1>1, <1>2, RoomInit, RoomNext, PTL DEF Spec
----------------------------------------------------------------------------
\* Atomicity.  Where nobody calls sync() and only end_op() commits, there is
\* one committer at a time, and no operation runs beside it.
SyncLabels == {"sync", "synclock", "syncsleep", "synccheck", "commit", "wlog", "whead",
               "install", "erase", "syncdone"}
Syncing    == {p \in Procs : pc[p] \in SyncLabels}
Installing == {p \in Procs : pc[p] \in {"install", "erase"}}

\* The first n log blocks hold what c has for the blocks of header h.
Copied(h, c, n) == \A i \in 1..n : dlog[i] = c[h[i]]

\* How far the committer p has come.
CommitterRight(p) ==
  /\ pc[p] \notin {"wlog", "install"} => tail[p] = 0
  /\ pc[p] = "wlog" => tail[p] <= Len(lh) /\ Copied(lh, cache, tail[p])
  /\ pc[p] = "whead" => Copied(lh, cache, Len(lh))
  /\ pc[p] = "install" => /\ dhead = lh /\ tail[p] <= Len(lh) /\ Copied(lh, cache, Len(lh))
                          /\ dirty = {lh[i] : i \in (tail[p] + 1)..Len(lh)}
  /\ pc[p] = "erase" => lh = <<>> /\ dirty = {} /\ Copied(dhead, disk, Len(dhead))
  /\ pc[p] = "syncdone" => lh = <<>>

\* While the system is up, what differs from the disk is pinned, and the
\* header on the disk is empty except while the log is being installed.
UpRight ==
  /\ \A p, q \in Syncing : p = q
  /\ Syncing # {} => committing /\ InOp = {}
  /\ \A b \in Blocks \ dirty : cache[b] = disk[b]
  /\ Installing = {} => dhead = <<>> /\ dirty = Range(lh)
  /\ \A p \in Procs : CommitterRight(p)

\* How far recovery has come.
BootRight ==
  /\ cache = disk /\ dirty = {}
  /\ \A p \in Procs : pc[p] = "idle" /\ tail[p] = 0
  /\ boot = "readhead" => rtail = 0
  /\ boot = "install" => lh = dhead /\ rtail <= Len(lh) /\ Copied(lh, disk, rtail)
  /\ boot = "erase" => lh = <<>> /\ Copied(dhead, disk, Len(dhead))

CommitInv == /\ RoomInv
             /\ boot = "up" => UpRight
             /\ boot \in {"readhead", "install", "erase"} => BootRight

LEMMA CommitInit == Init => CommitInv
<1>. SUFFICES ASSUME Init PROVE CommitInv
  OBVIOUS
<1>1. RoomInv
  BY RoomInit, Zenon
<1>2. BootRight /\ boot = "readhead"
  BY Zenon DEF Init, BootRight
<1>. QED  BY <1>1, <1>2, Zenon DEF CommitInv

\* A step that moves processes and nothing else.
LEMMA Steady ==
  ASSUME UpRight, RoomInv, UNCHANGED <<lh, cache, dirty, disk, dlog, dhead, tail>>,
         \A q \in Procs : \/ pc'[q] = pc[q]
                          \/ pc[q] = "commit" /\ pc'[q] = "wlog"
                          \/ /\ pc[q] \notin {"wlog", "whead", "install", "erase"}
                             /\ pc'[q] \notin {"wlog", "whead", "install", "erase"}
                             /\ pc'[q] = "syncdone" => lh = <<>>,
         \A p, q \in Syncing' : p = q,
         Syncing' # {} => committing' /\ InOp' = {}
  PROVE  UpRight'
<1>1. Installing' = Installing
  BY Zenon DEF Installing
<1>2. (Installing = {} => dhead = <<>> /\ dirty = Range(lh))'
  BY <1>1, Zenon DEF UpRight, Range
<1>3. (\A b \in Blocks \ dirty : cache[b] = disk[b])'
  BY Zenon DEF UpRight
<1>4. ASSUME NEW q \in Procs PROVE CommitterRight(q)'
  <2>1. CommitterRight(q) /\ tail[q] \in Nat /\ Len(lh) \in Nat
    BY LogAssumption DEF UpRight, RoomInv, TypeOK
  <2>2. CASE pc'[q] = pc[q]
    BY <2>1, <2>2 DEF CommitterRight, Copied
  <2>3. CASE pc[q] = "commit" /\ pc'[q] = "wlog"
    <3>1. tail'[q] = 0
      BY <2>1, <2>3, Zenon DEF CommitterRight
    <3>. QED  BY <2>1, <2>3, <3>1 DEF CommitterRight, Copied
  <2>4. CASE /\ pc[q] \notin {"wlog", "whead", "install", "erase"}
             /\ pc'[q] \notin {"wlog", "whead", "install", "erase"}
             /\ pc'[q] = "syncdone" => lh = <<>>
    BY <2>1, <2>4, Zenon DEF CommitterRight
  <2>. QED  BY <2>2, <2>3, <2>4, Zenon
<1>. QED  BY <1>2, <1>3, <1>4, Zenon DEF UpRight

\* Beside an operation nobody is in sync().
LEMMA Alone ==
  ASSUME UpRight, NEW p \in Procs, pc[p] \in {"op", "logw"}
  PROVE  Syncing = {} /\ Installing = {} /\ InOp # {}
BY Zenon DEF UpRight, InOp, Syncing, Installing, SyncLabels

LEMMA CommitBegin == ASSUME CommitInv, NEW p \in Procs, BeginOp(p) PROVE CommitInv'
<1>1. /\ RoomInv /\ UpRight /\ boot = "up" /\ boot' = "up" /\ pc \in [Procs -> Labels]
      /\ UNCHANGED <<lh, committing, cache, dirty, disk, dlog, dhead, tail>>
  BY Zenon DEF CommitInv, BeginOp, memVars, diskVars, bootVars, RoomInv, TypeOK
<1>2. pc[p] \in {"idle", "begin"}
  BY Zenon DEF BeginOp
<1>3. \/ CanBegin /\ pc' = [pc EXCEPT ![p] = "op"]
      \/ pc' = [pc EXCEPT ![p] = "logsleep"]
  BY Zenon DEF BeginOp, Goto
<1>4. Syncing' = Syncing
  BY <1>1, <1>2, <1>3, Zenon DEF Syncing, SyncLabels
<1>5. Syncing # {} => InOp' = InOp
  <2>1. CASE CanBegin
    BY <1>1, <2>1, Zenon DEF UpRight, CanBegin
  <2>2. CASE pc' = [pc EXCEPT ![p] = "logsleep"]
    BY <1>1, <1>2, <2>2, Zenon DEF InOp
  <2>. QED  BY <1>3, <2>1, <2>2, Zenon
<1>6. \A p1, q \in Syncing' : p1 = q
  BY <1>1, <1>4, Zenon DEF UpRight
<1>7. Syncing' # {} => committing' /\ InOp' = {}
  BY <1>1, <1>4, <1>5, Zenon DEF UpRight
<1>8. UpRight'
  BY <1>1, <1>2, <1>3, <1>6, <1>7, Steady, Zenon
<1>. QED  BY <1>1, <1>8, RoomBegin, Zenon DEF CommitInv

LEMMA CommitCheck == ASSUME CommitInv, NEW p \in Procs, LogWriteCheck(p) PROVE CommitInv'
<1>1. /\ RoomInv /\ UpRight /\ boot = "up" /\ boot' \in {"up", "panic"} /\ pc \in [Procs -> Labels]
      /\ UNCHANGED <<lh, committing, cache, dirty, disk, dlog, dhead, tail>>
      /\ pc[p] = "op" /\ (pc' = pc \/ pc' = [pc EXCEPT ![p] = "logw"])
  BY Zenon DEF CommitInv, LogWriteCheck, logVars, memVars, diskVars, RoomInv, TypeOK, Goto
<1>2. Syncing' = Syncing /\ InOp' = InOp
  BY <1>1, Zenon DEF Syncing, SyncLabels, InOp
<1>3. UpRight'
  <2>1. \A p1, q \in Syncing' : p1 = q
    BY <1>1, <1>2, Zenon DEF UpRight
  <2>2. Syncing' # {} => committing' /\ InOp' = {}
    BY <1>1, <1>2, Zenon DEF UpRight
  <2>. QED  BY <1>1, <2>1, <2>2, Steady, Zenon
<1>. QED  BY <1>1, <1>3, RoomCheck, Zenon DEF CommitInv

LEMMA CommitEnd == ASSUME CommitInv, NEW p \in Procs, EndOp(p) PROVE CommitInv'
<1>1. /\ RoomInv /\ UpRight /\ boot = "up" /\ boot' = "up" /\ pc \in [Procs -> Labels] /\ pc[p] = "op"
      /\ UNCHANGED <<lh, cache, dirty, disk, dlog, dhead, tail>>
  BY Zenon DEF CommitInv, EndOp, memVars, diskVars, bootVars, RoomInv, TypeOK
<1>. DEFINE doCommit == outstanding - 1 = 0 /\ LogFull
<1>2. /\ doCommit => committing'
      /\ pc'[p] = (IF doCommit THEN "sync" ELSE "idle")
      /\ \A q \in Procs \ {p} : \/ pc'[q] = pc[q]
                                \/ pc[q] = "syncsleep" /\ pc'[q] = "synccheck"
                                \/ pc[q] = "logsleep" /\ pc'[q] = "begin"
  BY <1>1, Zenon DEF EndOp, WakeLog, WakeSync, Wakeup
<1>3. Syncing = {} /\ \A q \in Procs : pc[q] \notin SyncLabels
  BY <1>1, Alone, Zenon DEF Syncing
<1>4. \A q \in Procs \ {p} : pc'[q] \notin SyncLabels /\ (pc'[q] = pc[q] \/ pc'[q] = "begin")
  BY <1>2, <1>3, Zenon DEF SyncLabels
<1>5. \A q \in Syncing' : q = p /\ doCommit
  BY <1>2, <1>4, Zenon DEF Syncing, SyncLabels
<1>6. doCommit => InOp' = {}
  <2>. SUFFICES ASSUME doCommit PROVE InOp' = {}
    OBVIOUS
  <2>1. IsFiniteSet(InOp) /\ Cardinality(InOp) \in Nat /\ Cardinality(InOp) - 1 = 0 /\ p \in InOp
    BY <1>1, OutNat, Zenon DEF RoomInv, TypeOK, InOp
  <2>2. InOp \ {p} = {}
    BY <2>1, FS_RemoveElement, FS_EmptySet, Zenon
  <2>. QED  BY <1>2, <1>4, <2>2, Zenon DEF InOp
<1>. HIDE DEF doCommit
<1>7. Syncing' # {} => committing' /\ InOp' = {}
  BY <1>2, <1>5, <1>6, Zenon
<1>8. \A q \in Procs : \/ pc'[q] = pc[q]
                       \/ /\ pc[q] \notin {"wlog", "whead", "install", "erase"}
                          /\ pc'[q] \notin {"wlog", "whead", "install", "erase", "syncdone"}
  BY <1>1, <1>2, <1>3, <1>4, Zenon DEF SyncLabels
<1>9. UpRight'
  BY <1>1, <1>5, <1>7, <1>8, Steady, Zenon
<1>. QED  BY <1>1, <1>9, RoomEnd, Zenon DEF CommitInv

\* A step of the committer from one label of sync() to another, or out of it.
LEMMA CommitMove ==
  ASSUME CommitInv, NEW p \in Procs, SyncTest(p) \/ SyncWait(p) \/ Commit(p) \/ SyncDone(p)
  PROVE  CommitInv'
<1>1. /\ RoomInv /\ UpRight /\ boot = "up" /\ boot' = "up" /\ pc \in [Procs -> Labels]
      /\ UNCHANGED <<lh, cache, dirty, disk, dlog, dhead, tail>>
  BY Zenon DEF CommitInv, SyncTest, SyncWait, Commit, SyncDone, logVars, memVars, diskVars, bootVars, RoomInv, TypeOK
<1>2. /\ pc[p] \in SyncLabels \ {"wlog", "whead", "install", "erase"}
      /\ \/ pc'[p] \notin {"wlog", "whead", "install", "erase"}
         \/ pc[p] = "commit" /\ pc'[p] = "wlog"
      /\ \A q \in Procs \ {p} : pc'[q] = pc[q] \/ (pc[q] = "logsleep" /\ pc'[q] = "begin")
      /\ pc'[p] \in SyncLabels \/ pc'[p] = "idle"
      /\ pc'[p] \in SyncLabels /\ committing => committing'
      /\ pc'[p] = "syncdone" => lh = <<>>
  <2>1. CASE SyncTest(p)
    BY <1>1, <2>1, Zenon DEF SyncTest, Goto, SyncLabels, logVars
  <2>2. CASE SyncWait(p)
    BY <1>1, <2>2, Zenon DEF SyncWait, Goto, SyncLabels
  <2>3. CASE Commit(p)
    <3>1. Len(lh) > 0 \/ lh = <<>>
      BY DEF CommitInv, RoomInv, TypeOK
    <3>. QED  BY <1>1, <2>3, <3>1, Zenon DEF Commit, Goto, SyncLabels, logVars
  <2>4. CASE SyncDone(p)
    BY <1>1, <2>4, Zenon DEF SyncDone, SyncLabels, WakeLog, Wakeup
  <2>. QED  BY <2>1, <2>2, <2>3, <2>4, Zenon
<1>3. p \in Syncing /\ committing /\ InOp = {} /\ \A q \in Syncing : q = p
  BY <1>1, <1>2, Zenon DEF UpRight, Syncing
<1>4. \A q \in Syncing' : q = p /\ pc'[p] \in SyncLabels
  BY <1>2, <1>3, Zenon DEF Syncing, SyncLabels
<1>5. InOp' = {}
  BY <1>2, <1>3, Zenon DEF InOp, SyncLabels
<1>6. Syncing' # {} => committing' /\ InOp' = {}
  BY <1>2, <1>3, <1>4, <1>5, Zenon
<1>7. \A q \in Procs : \/ pc'[q] = pc[q]
                       \/ pc[q] = "commit" /\ pc'[q] = "wlog"
                       \/ /\ pc[q] \notin {"wlog", "whead", "install", "erase"}
                          /\ pc'[q] \notin {"wlog", "whead", "install", "erase"}
                          /\ pc'[q] = "syncdone" => lh = <<>>
  <2>1. \A q \in Procs \ {p} : \/ pc'[q] = pc[q]
                                \/ /\ pc[q] \notin {"wlog", "whead", "install", "erase"}
                                   /\ pc'[q] \notin {"wlog", "whead", "install", "erase", "syncdone"}
    BY <1>2, Zenon
  <2>. QED  BY <1>2, <2>1, Zenon
<1>8. UpRight'
  BY <1>1, <1>4, <1>6, <1>7, Steady, Zenon
<1>9. RoomInv'
  BY <1>1, RoomSync, Zenon
<1>. QED  BY <1>1, <1>8, <1>9, Zenon DEF CommitInv

LEMMA CommitWrite == ASSUME CommitInv, NEW p \in Procs, LogWrite(p) PROVE CommitInv'
<1>1. /\ RoomInv /\ UpRight /\ boot = "up" /\ boot' = "up" /\ pc \in [Procs -> Labels] /\ pc[p] = "logw"
      /\ UNCHANGED <<committing, disk, dlog, dhead, tail>> /\ pc' = [pc EXCEPT ![p] = "op"]
  BY Zenon DEF CommitInv, LogWrite, diskVars, bootVars, RoomInv, TypeOK, Goto
<1>2. PICK b \in Blocks, v \in Vals : cache' = [cache EXCEPT ![b] = v] /\ lh' = Absorb(b) /\ dirty' = dirty \union {b}
  BY Zenon DEF LogWrite, Pin
<1>3. Syncing = {} /\ Installing = {} /\ \A q \in Procs : pc[q] \notin SyncLabels
  BY <1>1, Alone, Zenon DEF Syncing
<1>4. \A q \in Procs : pc'[q] \notin SyncLabels /\ tail'[q] = 0
  BY <1>1, <1>3, Zenon DEF SyncLabels, UpRight, CommitterRight
<1>5. Syncing' = {} /\ Installing' = {}
  BY <1>4, Zenon DEF Syncing, Installing, SyncLabels
<1>6. dirty' = Range(lh')
  <2>1. Range(Absorb(b)) = Range(lh) \union {b}
    BY <1>1, AbsorbSeq, Zenon DEF RoomInv, TypeOK
  <2>. QED  BY <1>1, <1>2, <1>3, <2>1, Zenon DEF UpRight
<1>7. \A c \in Blocks \ dirty' : cache'[c] = disk'[c]
  BY <1>1, <1>2, Zenon DEF UpRight, RoomInv, TypeOK
<1>8. \A q \in Procs : CommitterRight(q)'
  BY <1>4, Zenon DEF CommitterRight, SyncLabels
<1>9. dhead' = <<>> /\ (Installing = {} => dhead = <<>> /\ dirty = Range(lh))'
  BY <1>1, <1>3, <1>6, Zenon DEF UpRight, Range
<1>10. UpRight'
  BY <1>5, <1>7, <1>8, <1>9, Zenon DEF UpRight
<1>. QED  BY <1>1, <1>10, RoomWrite, Zenon DEF CommitInv

LEMMA OneCommitter ==
  ASSUME UpRight, NEW p \in Procs, pc[p] \in SyncLabels
  PROVE  /\ committing /\ InOp = {}
         /\ \A q \in Procs \ {p} : pc[q] \notin SyncLabels /\ tail[q] = 0
<1>1. p \in Syncing
  BY Zenon DEF Syncing
<1>2. \A q \in Procs \ {p} : pc[q] \notin SyncLabels
  BY <1>1, Zenon DEF UpRight, Syncing
<1>. QED  BY <1>1, <1>2, Zenon DEF UpRight, CommitterRight, SyncLabels

\* Such a step, of the committer alone, inside commit().
LEMMA CommitterMoves ==
  ASSUME UpRight, NEW p \in Procs, pc[p] \in SyncLabels, pc'[p] \in SyncLabels, committing' = committing,
         \A q \in Procs \ {p} : pc'[q] = pc[q] /\ tail'[q] = tail[q],
         (\A b \in Blocks \ dirty : cache[b] = disk[b])',
         pc'[p] \notin {"install", "erase"} => dhead' = <<>> /\ dirty' = Range(lh'),
         CommitterRight(p)'
  PROVE  UpRight'
<1>1. /\ committing /\ InOp = {}
      /\ \A q \in Procs \ {p} : pc[q] \notin SyncLabels /\ tail[q] = 0
  BY OneCommitter, Zenon
<1>2. \A q \in Procs \ {p} : pc'[q] \notin SyncLabels /\ tail'[q] = 0
  BY <1>1, Zenon
<1>3. \A q \in Syncing' : q = p
  BY <1>2, Zenon DEF Syncing
<1>4. InOp' = {} /\ committing'
  BY <1>1, Zenon DEF InOp, SyncLabels
<1>5. \A q \in Procs : CommitterRight(q)'
  BY <1>2, Zenon DEF CommitterRight, SyncLabels
<1>6. pc'[p] \in {"install", "erase"} <=> Installing' # {}
  BY <1>2, Zenon DEF Installing, SyncLabels
<1>7. (Installing = {} => dhead = <<>> /\ dirty = Range(lh))'
  <2>1. Range(lh') = Range(lh)'
    BY Zenon DEF Range
  <2>. QED  BY <1>6, <2>1, Zenon
<1>. QED  BY <1>3, <1>4, <1>5, <1>7 DEF UpRight

LEMMA CommitWriteLog == ASSUME CommitInv, NEW p \in Procs, WriteLog(p) PROVE CommitInv'
<1>1. /\ RoomInv /\ UpRight /\ boot = "up" /\ boot' = "up" /\ pc \in [Procs -> Labels] /\ pc[p] = "wlog"
      /\ UNCHANGED <<lh, committing, cache, dirty, disk, dhead>>
      /\ tail \in [Procs -> 0..LOGSIZE] /\ Len(lh) \in Nat /\ Len(lh) <= LOGSIZE /\ LOGSIZE \in Nat
      /\ dlog \in [1..LOGSIZE -> Vals]
  BY LogAssumption, SMTT(30) DEF CommitInv, WriteLog, logVars, memVars, bootVars, RoomInv, TypeOK
<1>2. tail[p] \in Nat /\ tail[p] <= Len(lh) /\ Copied(lh, cache, tail[p])
  BY <1>1 DEF UpRight, CommitterRight
<1>3. dhead = <<>> /\ dirty = Range(lh)
  <2>1. Installing = {}
    BY <1>1, OneCommitter, Zenon DEF Installing, SyncLabels
  <2>. QED  BY <1>1, <2>1, Zenon DEF UpRight
<1>4. \A b \in Blocks \ dirty : cache[b] = disk[b]
  BY <1>1, Zenon DEF UpRight
<1>5. PICK t \in Nat : t = tail[p] + 1
  BY <1>2
<1>6. CASE t <= Len(lh)
  <2>1. dlog' = [dlog EXCEPT ![t] = cache[lh[t]]] /\ tail' = [tail EXCEPT ![p] = t] /\ pc' = pc
    <3>1. ~(tail[p] + 1 > Len(lh))
      BY <1>1, <1>2, <1>5, <1>6
    <3>. QED  BY <1>5, <3>1, Zenon DEF WriteLog
  <2>2. ASSUME NEW i \in 1..t PROVE dlog'[i] = cache[lh[i]]
    <3>1. t \in 1..LOGSIZE /\ i \in 1..LOGSIZE
      BY <1>1, <1>2, <1>5, <1>6
    <3>2. CASE i = t
      BY <1>1, <2>1, <3>1, <3>2, Zenon
    <3>3. CASE i # t
      <4>1. i \in 1..tail[p]
        BY <1>2, <1>5, <3>3
      <4>. QED  BY <1>1, <1>2, <2>1, <3>1, <3>3, <4>1, Zenon DEF Copied
    <3>. QED  BY <3>2, <3>3, Zenon
  <2>3. CommitterRight(p)'
    BY <1>1, <1>6, <2>1, <2>2, Zenon DEF CommitterRight, Copied
  <2>4. UpRight'
    <3>1. (\A b \in Blocks \ dirty : cache[b] = disk[b])'
      BY <1>1, <1>4, Zenon
    <3>. QED  BY <1>1, <1>3, <2>1, <2>3, <3>1, CommitterMoves, Zenon DEF SyncLabels
  <2>. QED  BY <1>1, <2>4, RoomWriteLog, Zenon DEF CommitInv
<1>7. CASE t > Len(lh)
  <2>1. dlog' = dlog /\ tail' = [tail EXCEPT ![p] = 0] /\ pc' = [pc EXCEPT ![p] = "whead"]
    <3>1. ~(tail[p] + 1 <= Len(lh))
      BY <1>1, <1>2, <1>5, <1>7
    <3>. QED  BY <3>1, Zenon DEF WriteLog, Goto
  <2>2. tail[p] = Len(lh)
    BY <1>1, <1>2, <1>5, <1>7
  <2>3. CommitterRight(p)'
    BY <1>1, <1>2, <2>1, <2>2, Zenon DEF CommitterRight, Copied
  <2>4. UpRight'
    <3>1. (\A b \in Blocks \ dirty : cache[b] = disk[b])'
      BY <1>1, <1>4, Zenon
    <3>. QED  BY <1>1, <1>3, <2>1, <2>3, <3>1, CommitterMoves, Zenon DEF SyncLabels
  <2>. QED  BY <1>1, <2>4, RoomWriteLog, Zenon DEF CommitInv
<1>. QED  BY <1>1, <1>5, <1>6, <1>7

LEMMA CommitWriteHead == ASSUME CommitInv, NEW p \in Procs, WriteHead(p) PROVE CommitInv'
<1>1. /\ RoomInv /\ UpRight /\ boot = "up" /\ boot' = "up" /\ pc \in [Procs -> Labels] /\ pc[p] = "whead"
      /\ UNCHANGED <<lh, committing, cache, dirty, disk, dlog, tail>>
      /\ dhead' = lh /\ pc' = [pc EXCEPT ![p] = "install"]
      /\ tail \in [Procs -> 0..LOGSIZE] /\ lh \in Seq(Blocks)
  BY Zenon DEF CommitInv, WriteHead, Goto, logVars, memVars, bootVars, RoomInv, TypeOK
<1>2. tail[p] = 0 /\ Copied(lh, cache, Len(lh))
  BY <1>1, Zenon DEF UpRight, CommitterRight
<1>3. dirty = Range(lh)
  <2>1. Installing = {}
    BY <1>1, OneCommitter, Zenon DEF Installing, SyncLabels
  <2>. QED  BY <1>1, <2>1, Zenon DEF UpRight
<1>4. dirty = {lh[i] : i \in (tail[p] + 1)..Len(lh)}
  <2>1. tail[p] + 1 = 1 /\ DOMAIN lh = 1..Len(lh)
    BY <1>1, <1>2
  <2>. QED  BY <1>3, <2>1, Zenon DEF Range
<1>5. CommitterRight(p)'
  BY <1>1, <1>2, <1>4, SMTT(30) DEF CommitterRight, Copied
<1>6. UpRight'
  <2>1. (\A b \in Blocks \ dirty : cache[b] = disk[b])'
    <3>1. \A b \in Blocks \ dirty : cache[b] = disk[b]
      BY <1>1, Zenon DEF UpRight
    <3>. QED  BY <1>1, <3>1, Zenon
  <2>. QED  BY <1>1, <1>5, <2>1, CommitterMoves, Zenon DEF SyncLabels
<1>7. RoomInv'
  BY <1>1, RoomSync, Zenon
<1>. QED  BY <1>1, <1>6, <1>7, Zenon DEF CommitInv

LEMMA CommitInstall == ASSUME CommitInv, NEW p \in Procs, Install(p) PROVE CommitInv'
<1>1. /\ RoomInv /\ UpRight /\ boot = "up" /\ boot' = "up" /\ pc \in [Procs -> Labels] /\ pc[p] = "install"
      /\ UNCHANGED <<committing, dlog, dhead>>
      /\ tail \in [Procs -> 0..LOGSIZE] /\ Len(lh) \in Nat /\ Len(lh) <= LOGSIZE /\ LOGSIZE \in Nat
      /\ lh \in Seq(Blocks) /\ IsInjective(lh)
      /\ disk \in [Blocks -> Vals] /\ cache \in [Blocks -> Vals]
  BY LogAssumption, SMTT(30) DEF CommitInv, Install, bootVars, RoomInv, TypeOK
<1>2. /\ tail[p] \in Nat /\ tail[p] <= Len(lh) /\ Copied(lh, cache, Len(lh)) /\ dhead = lh
      /\ dirty = {lh[i] : i \in (tail[p] + 1)..Len(lh)}
  BY <1>1 DEF UpRight, CommitterRight
<1>3. \A b \in Blocks \ dirty : cache[b] = disk[b]
  BY <1>1, Zenon DEF UpRight
<1>4. PICK t \in Nat : t = tail[p] + 1
  BY <1>2, SMTT(30)
<1>5. CASE t <= Len(lh)
  <2>1. InstallBlock(t) /\ tail' = [tail EXCEPT ![p] = t] /\ pc' = pc /\ lh' = lh
    <3>1. ~(tail[p] + 1 > Len(lh))
      BY <1>1, <1>2, <1>4, <1>5
    <3>. QED  BY <1>4, <3>1, Zenon DEF Install
  <2>2. t \in 1..Len(lh) /\ lh[t] \in Blocks /\ dlog[t] = cache[lh[t]]
    <3>1. t \in 1..Len(lh)
      BY <1>2, <1>4, <1>5
    <3>. QED  BY <1>1, <1>2, <3>1 DEF Copied
  <2>3. cache' = cache /\ disk' = [disk EXCEPT ![lh[t]] = cache[lh[t]]] /\ dirty' = dirty \ {lh[t]}
    BY <1>1, <2>1, <2>2, Zenon DEF InstallBlock
  <2>4. dirty' = {lh[i] : i \in (t + 1)..Len(lh)}
    <3>1. \A i, j \in 1..Len(lh) : lh[i] = lh[j] => i = j
      BY <1>1 DEF IsInjective
    <3>2. \A i \in t..Len(lh) : i \in 1..Len(lh) /\ (i # t => i \in (t + 1)..Len(lh))
      BY <2>2
    <3>3. \A i \in (t + 1)..Len(lh) : i \in t..Len(lh) /\ i # t
      BY <2>2
    <3>4. dirty = {lh[i] : i \in t..Len(lh)}
      BY <1>2, <1>4, Zenon
    <3>5. \A i \in (t + 1)..Len(lh) : lh[i] # lh[t] /\ lh[i] \in dirty
      BY <2>2, <3>1, <3>2, <3>3, <3>4, Zenon
    <3>6. \A b \in dirty : b # lh[t] => \E i \in (t + 1)..Len(lh) : b = lh[i]
      BY <3>2, <3>4, Zenon
    <3>. QED  BY <2>3, <3>5, <3>6, Zenon
  <2>5. CommitterRight(p)'
    <3>1. Copied(lh, cache, Len(lh))' /\ tail'[p] = t /\ pc'[p] = "install" /\ dhead' = lh' /\ t <= Len(lh')
      BY <1>1, <1>2, <1>5, <2>1, <2>3, Zenon DEF Copied
    <3>2. dirty' = {lh'[i] : i \in (tail'[p] + 1)..Len(lh')}
      BY <2>1, <2>4, <3>1, Zenon
    <3>. QED  BY <3>1, <3>2, Zenon DEF CommitterRight
  <2>6. (\A b \in Blocks \ dirty : cache[b] = disk[b])'
    BY <1>1, <1>3, <2>2, <2>3, Zenon
  <2>7. UpRight'
    BY <1>1, <2>1, <2>5, <2>6, CommitterMoves, Zenon DEF SyncLabels
  <2>. QED  BY <1>1, <2>7, RoomInstall, Zenon DEF CommitInv
<1>6. CASE t > Len(lh)
  <2>1. lh' = <<>> /\ tail' = [tail EXCEPT ![p] = 0] /\ pc' = [pc EXCEPT ![p] = "erase"]
        /\ UNCHANGED <<disk, cache, dirty>>
    BY <1>1, <1>4, <1>6 DEF Install, Goto, memVars
  <2>2. dirty = {}
    <3>1. (tail[p] + 1)..Len(lh) = {}
      BY <1>1, <1>4, <1>6
    <3>. QED  BY <1>2, <3>1, Zenon
  <2>3. Copied(dhead, disk, Len(dhead))
    <3>1. ASSUME NEW i \in 1..Len(lh) PROVE dlog[i] = disk[lh[i]]
      <4>1. lh[i] \in Blocks
        BY <1>1
      <4>. QED  BY <1>2, <1>3, <2>2, <4>1, Zenon DEF Copied
    <3>. QED  BY <1>2, <3>1, Zenon DEF Copied
  <2>4. CommitterRight(p)'
    BY <1>1, <2>1, <2>2, <2>3, Zenon DEF CommitterRight, Copied
  <2>5. (\A b \in Blocks \ dirty : cache[b] = disk[b])'
    BY <1>3, <2>1, Zenon
  <2>6. UpRight'
    BY <1>1, <2>1, <2>4, <2>5, CommitterMoves, Zenon DEF SyncLabels
  <2>. QED  BY <1>1, <2>6, RoomInstall, Zenon DEF CommitInv
<1>. QED  BY <1>1, <1>4, <1>5, <1>6, SMTT(30)

LEMMA CommitErase == ASSUME CommitInv, NEW p \in Procs, EraseHead(p) PROVE CommitInv'
<1>1. /\ RoomInv /\ UpRight /\ boot = "up" /\ boot' = "up" /\ pc \in [Procs -> Labels] /\ pc[p] = "erase"
      /\ UNCHANGED <<lh, committing, cache, dirty, disk, dlog, tail>>
      /\ dhead' = lh /\ pc' = [pc EXCEPT ![p] = "syncdone"]
  BY Zenon DEF CommitInv, EraseHead, Goto, logVars, memVars, bootVars, RoomInv, TypeOK
<1>2. lh = <<>> /\ dirty = {} /\ tail[p] = 0
  BY <1>1, Zenon DEF UpRight, CommitterRight
<1>3. CommitterRight(p)'
  BY <1>1, <1>2, Zenon DEF CommitterRight
<1>4. dhead' = <<>> /\ dirty' = Range(lh')
  BY <1>1, <1>2 DEF Range
<1>5. (\A b \in Blocks \ dirty : cache[b] = disk[b])'
  BY <1>1, Zenon DEF UpRight
<1>6. UpRight'
  BY <1>1, <1>3, <1>4, <1>5, CommitterMoves, Zenon DEF SyncLabels
<1>7. RoomInv'
  BY <1>1, RoomSync, Zenon
<1>. QED  BY <1>1, <1>6, <1>7, Zenon DEF CommitInv

LEMMA CommitterSame ==
  ASSUME NEW p \in Procs, UNCHANGED <<lh, cache, dirty, disk, dlog, dhead, tail, pc>>
  PROVE  CommitterRight(p)' <=> CommitterRight(p)
<1>1. /\ Copied(lh, cache, tail[p])' <=> Copied(lh, cache, tail[p])
      /\ Copied(lh, cache, Len(lh))' <=> Copied(lh, cache, Len(lh))
      /\ Copied(dhead, disk, Len(dhead))' <=> Copied(dhead, disk, Len(dhead))
  BY Zenon DEF Copied
<1>2. {lh[i] : i \in (tail[p] + 1)..Len(lh)}' = {lh[i] : i \in (tail[p] + 1)..Len(lh)}
  BY Zenon
<1>. QED  BY <1>1, <1>2, Zenon DEF CommitterRight

LEMMA UpSame ==
  ASSUME UpRight, UNCHANGED <<lh, committing, cache, dirty, disk, dlog, dhead, tail, pc>>
  PROVE  UpRight'
<1>1. Syncing' = Syncing /\ Installing' = Installing /\ InOp' = InOp
  BY Zenon DEF Syncing, Installing, InOp
<1>2. ASSUME NEW p \in Procs PROVE CommitterRight(p)'
  <2>1. CommitterRight(p)
    BY Zenon DEF UpRight
  <2>. QED  BY <2>1, CommitterSame, Zenon
<1>. QED  BY <1>1, <1>2, Zenon DEF UpRight, Range

LEMMA CommitEvict == ASSUME CommitInv, NEW b \in Blocks, Evict(b) PROVE CommitInv' /\ cache' = cache
<1>1. /\ RoomInv /\ UpRight /\ boot = "up" /\ boot' = "up"
      /\ UNCHANGED <<lh, committing, dirty, disk, dlog, dhead, tail, pc>>
  BY Zenon DEF CommitInv, Evict, logVars, diskVars, procVars, bootVars
<1>2. cache' = cache
  BY <1>1, Zenon DEF Evict, UpRight, RoomInv, TypeOK
<1>3. UpRight'
  BY <1>1, <1>2, UpSame, Zenon
<1>. QED  BY <1>1, <1>2, <1>3, RoomEvict, Zenon DEF CommitInv

LEMMA CommitCrash == ASSUME CommitInv, Crash PROVE CommitInv'
<1>1. BootRight' /\ boot' = "readhead"
  BY Zenon DEF Crash, BootRight, diskVars
<1>. QED  BY <1>1, RoomCrash, Zenon DEF CommitInv

LEMMA CommitReadHead == ASSUME CommitInv, ReadHead PROVE CommitInv'
<1>1. RoomInv /\ BootRight /\ boot = "readhead" /\ Len(dhead) \in Nat
  BY DEF CommitInv, ReadHead, RoomInv, TypeOK
<1>2. /\ lh' = dhead /\ boot' = "install"
      /\ UNCHANGED <<cache, dirty, disk, dlog, dhead, pc, tail, rtail>>
  BY Zenon DEF ReadHead, memVars, diskVars, procVars
<1>3. BootRight'
  BY <1>1, <1>2 DEF BootRight, Copied
<1>. QED  BY <1>1, <1>2, <1>3, RoomReadHead, Zenon DEF CommitInv

LEMMA CommitRecover == ASSUME CommitInv, RecoverInstall PROVE CommitInv'
<1>1. /\ RoomInv /\ BootRight /\ boot = "install" /\ UNCHANGED <<dlog, dhead, pc, tail>>
      /\ Len(lh) \in Nat /\ rtail \in Nat /\ lh \in Seq(Blocks) /\ IsInjective(lh) /\ disk \in [Blocks -> Vals]
  BY LogAssumption, SMTT(30) DEF CommitInv, RecoverInstall, procVars, RoomInv, TypeOK
<1>2. /\ cache = disk /\ dirty = {} /\ lh = dhead /\ rtail <= Len(lh) /\ Copied(lh, disk, rtail)
      /\ \A p \in Procs : pc[p] = "idle" /\ tail[p] = 0
  BY <1>1, Zenon DEF BootRight
<1>3. PICK t \in Nat : t = rtail + 1
  BY <1>1
<1>4. CASE t <= Len(lh)
  <2>1. InstallBlock(t) /\ rtail' = t /\ lh' = lh /\ boot' = "install"
    BY <1>1, <1>3, <1>4 DEF RecoverInstall
  <2>2. t \in 1..Len(lh) /\ lh[t] \in Blocks
    BY <1>1, <1>3, <1>4
  <2>3. cache' = disk' /\ disk' = [disk EXCEPT ![lh[t]] = dlog[t]] /\ dirty' = {}
    BY <1>2, <2>1, Zenon DEF InstallBlock
  <2>4. ASSUME NEW i \in 1..t PROVE dlog[i] = disk'[lh[i]]
    <3>1. i \in 1..Len(lh) /\ lh[i] \in Blocks
      BY <1>1, <2>2
    <3>2. CASE i = t
      BY <1>1, <2>2, <2>3, <3>2, Zenon
    <3>3. CASE i # t
      <4>1. i \in 1..rtail
        BY <1>1, <1>3, <3>3
      <4>2. lh[i] # lh[t]
        BY <1>1, <2>2, <3>1, <3>3 DEF IsInjective
      <4>. QED  BY <1>1, <1>2, <2>3, <3>1, <4>1, <4>2, Zenon DEF Copied
    <3>. QED  BY <3>2, <3>3, Zenon
  <2>5. BootRight'
    BY <1>1, <1>2, <1>4, <2>1, <2>3, <2>4, Zenon DEF BootRight, Copied
  <2>. QED  BY <2>1, <2>5, RoomRecover, Zenon DEF CommitInv
<1>5. CASE t > Len(lh)
  <2>1. lh' = <<>> /\ rtail' = 0 /\ boot' = "erase" /\ UNCHANGED <<disk, cache, dirty>>
    BY <1>1, <1>3, <1>5 DEF RecoverInstall, memVars
  <2>2. rtail = Len(lh)
    BY <1>1, <1>2, <1>3, <1>5
  <2>3. BootRight'
    BY <1>1, <1>2, <2>1, <2>2, Zenon DEF BootRight, Copied
  <2>. QED  BY <2>1, <2>3, RoomRecover, Zenon DEF CommitInv
<1>. QED  BY <1>1, <1>3, <1>4, <1>5

LEMMA CommitBoot == ASSUME CommitInv, RecoverErase PROVE CommitInv'
<1>1. RoomInv /\ BootRight /\ boot = "erase"
  BY Zenon DEF CommitInv, RecoverErase
<1>2. /\ dhead' = lh /\ boot' = "up"
      /\ UNCHANGED <<lh, committing, cache, dirty, disk, pc, tail>>
  BY Zenon DEF RecoverErase, logVars, memVars, procVars
<1>3. /\ cache = disk /\ dirty = {} /\ lh = <<>>
      /\ \A p \in Procs : pc'[p] = "idle" /\ tail'[p] = 0
  BY <1>1, <1>2, Zenon DEF BootRight
<1>4. Syncing' = {} /\ \A p \in Procs : CommitterRight(p)'
  BY <1>3, Zenon DEF Syncing, SyncLabels, CommitterRight
<1>5. UpRight'
  BY <1>2, <1>3, <1>4 DEF UpRight, Range
<1>. QED  BY <1>2, <1>5, RoomErase, Zenon DEF CommitInv
----------------------------------------------------------------------------
\* What recovery makes of header h and log blocks l over the home blocks d.
Redo(h, l, d) ==
  [b \in Blocks |-> IF b \in Range(h) THEN l[CHOOSE i \in 1..Len(h) : h[i] = b] ELSE d[b]]

LEMMA RedoIs ==
  ASSUME NEW h \in Seq(Blocks), NEW l, NEW d, NEW c \in [Blocks -> Vals],
         \A i \in 1..Len(h) : l[i] = c[h[i]],
         \A b \in Blocks \ Range(h) : c[b] = d[b]
  PROVE  Redo(h, l, d) = c
<1>1. ASSUME NEW b \in Blocks PROVE Redo(h, l, d)[b] = c[b]
  <2>1. CASE b \in Range(h)
    <3>1. PICK j \in 1..Len(h) : h[j] = b
      BY <2>1 DEF Range
    <3>2. PICK k : k = CHOOSE i \in 1..Len(h) : h[i] = b
      OBVIOUS
    <3>3. k \in 1..Len(h) /\ h[k] = b
      BY <3>1, <3>2, Zenon
    <3>. QED  BY <2>1, <3>2, <3>3, Zenon DEF Redo
  <2>2. CASE b \notin Range(h)
    BY <2>2, Zenon DEF Redo
  <2>. QED  BY <2>1, <2>2, Zenon
<1>2. Redo(h, l, d) = [b \in Blocks |-> Redo(h, l, d)[b]]
  BY DEF Redo
<1>. QED  BY <1>1, <1>2, Zenon

\* With an empty header recovery changes nothing.
LEMMA RedoNothing ==
  ASSUME NEW l, NEW d \in [Blocks -> Vals]
  PROVE  Redo(<<>>, l, d) = d
<1>1. Range(<<>>) = {}
  BY DEF Range
<1>. QED  BY <1>1, Zenon DEF Redo

LEMMA RecoveredIs == Recovered = Redo(dhead, dlog, disk)
BY Zenon DEF Recovered, Redo

\* What would be recovered: the disk before write_head(), the cache after it.
LEMMA Durable ==
  ASSUME RoomInv, UpRight
  PROVE  /\ Installing = {} => Recovered = disk
         /\ Installing # {} => Recovered = cache
<1>1. /\ dhead \in Seq(Blocks) /\ cache \in [Blocks -> Vals] /\ disk \in [Blocks -> Vals] /\ Len(lh) \in Nat
      /\ lh \in Seq(Blocks)
  BY DEF RoomInv, TypeOK
<1>2. CASE Installing = {}
  BY <1>1, <1>2, RedoNothing, RecoveredIs, Zenon DEF UpRight
<1>3. ASSUME NEW p \in Procs, pc[p] \in {"install", "erase"} PROVE Recovered = cache
  <2>1. CommitterRight(p) /\ \A b \in Blocks \ dirty : cache[b] = disk[b]
    BY Zenon DEF UpRight
  <2>2. CASE pc[p] = "install"
    <3>1. dhead = lh /\ dirty \subseteq Range(lh) /\ \A i \in 1..Len(lh) : dlog[i] = cache[lh[i]]
      <4>1. tail[p] \in Nat /\ dirty = {lh[i] : i \in (tail[p] + 1)..Len(lh)}
        BY <2>1, <2>2, LogAssumption, SMTT(30) DEF CommitterRight, RoomInv, TypeOK
      <4>2. \A i \in (tail[p] + 1)..Len(lh) : i \in 1..Len(lh)
        <5>1. Len(lh) \in Nat /\ tail[p] \in Nat
          BY <1>1, <4>1, Zenon
        <5>. QED  BY ONLY <5>1
      <4>. QED  BY <1>1, <2>1, <2>2, <4>1, <4>2, SMTT(30) DEF CommitterRight, Copied, Range
    <3>2. \A b \in Blocks \ Range(dhead) : cache[b] = disk[b]
      BY <2>1, <3>1, Zenon
    <3>. QED  BY <1>1, <3>1, <3>2, RedoIs, RecoveredIs, SMTT(30)
  <2>3. CASE pc[p] = "erase"
    <3>1. dirty = {} /\ \A i \in 1..Len(dhead) : dlog[i] = disk[dhead[i]]
      BY <2>1, <2>3, Zenon DEF CommitterRight, Copied
    <3>2. cache = disk
      BY <1>1, <2>1, <3>1
    <3>. QED  BY <1>1, <3>1, <3>2, RedoIs, RecoveredIs
  <2>. QED  BY <1>3, <2>2, <2>3, Zenon
<1>. QED  BY <1>2, <1>3, Zenon DEF Installing

LEMMA DurableNext ==
  (RoomInv /\ UpRight => /\ Installing = {} => Recovered = disk
                         /\ Installing # {} => Recovered = cache)'
<1>1. RoomInv /\ UpRight => /\ Installing = {} => Recovered = disk
                            /\ Installing # {} => Recovered = cache
  BY Durable, Zenon
<1>. QED  BY <1>1, PTL

\* The abstract variables of the refinement.
FS     == IF boot = "up" THEN cache ELSE Recovered
Active == IF boot = "up" THEN InOp ELSE {}

\* Every step of AtomicDisk in these terms.
LEMMA AbstractStep ==
  ASSUME \/ FS' = FS /\ Recovered' = Recovered /\ Active' = Active
         \/ \E p \in Procs : /\ p \notin Active /\ Active' = Active \union {p}
                             /\ FS' = FS /\ Recovered' = Recovered
         \/ \E p \in Procs : /\ p \in Active /\ Active' = Active \ {p}
                             /\ FS' = FS /\ Recovered' = Recovered
         \/ \E p \in Procs, b \in Blocks, v \in Vals :
              /\ p \in Active /\ FS' = [FS EXCEPT ![b] = v]
              /\ Recovered' = Recovered /\ Active' = Active
         \/ Active = {} /\ Recovered' = FS /\ FS' = FS /\ Active' = Active
         \/ FS' = Recovered /\ Active' = {} /\ Recovered' = Recovered
  PROVE  [Abstract!Next]_(Abstract!vars)
BY Zenon DEF FS, Active, Abstract!Next, Abstract!vars, Abstract!Begin, Abstract!End, Abstract!Write,
       Abstract!Commit, Abstract!Crash

\* A step that leaves the disk alone leaves alone what would be recovered.
LEMMA SameDisk == ASSUME UNCHANGED <<dhead, dlog, disk>> PROVE Recovered' = Recovered
BY DEF Recovered, Range

LEMMA OpStep ==
  ASSUME CommitInv, NEW p \in Procs, BeginOp(p) \/ LogWriteCheck(p) \/ LogWrite(p) \/ EndOp(p)
  PROVE  [Abstract!Next]_(Abstract!vars)
<1>1. boot = "up" /\ UNCHANGED <<dhead, dlog, disk>> /\ pc \in [Procs -> Labels]
  BY Zenon DEF CommitInv, BeginOp, LogWriteCheck, LogWrite, EndOp, diskVars, RoomInv, TypeOK
<1>2. Recovered' = Recovered /\ FS = cache /\ Active = InOp
  BY <1>1, SameDisk, Zenon DEF FS, Active
<1>3. CASE BeginOp(p)
  <2>1. boot' = "up" /\ cache' = cache /\ pc[p] \in {"idle", "begin"}
        /\ (pc' = [pc EXCEPT ![p] = "op"] \/ pc' = [pc EXCEPT ![p] = "logsleep"])
    BY <1>3, Zenon DEF BeginOp, memVars, bootVars, Goto
  <2>2. p \notin InOp /\ (InOp' = InOp \union {p} \/ InOp' = InOp)
    BY <1>1, <2>1, Zenon DEF InOp
  <2>3. FS' = FS /\ Active' = InOp'
    BY <1>2, <2>1, Zenon DEF FS, Active
  <2>. QED  BY <1>2, <2>2, <2>3, AbstractStep, Zenon
<1>4. CASE LogWriteCheck(p)
  <2>1. CASE boot' = "panic"
    <3>1. FS' = Recovered' /\ Active' = {}
      BY <2>1, Zenon DEF FS, Active
    <3>. QED  BY <1>2, <3>1, AbstractStep, Zenon
  <2>2. CASE boot' # "panic"
    <3>1. boot' = "up" /\ cache' = cache /\ pc[p] = "op" /\ pc' = [pc EXCEPT ![p] = "logw"]
      BY <1>1, <1>4, <2>2, Zenon DEF LogWriteCheck, memVars, Goto
    <3>2. InOp' = InOp
      BY <1>1, <3>1, Zenon DEF InOp
    <3>3. FS' = FS /\ Active' = Active
      BY <1>2, <3>1, <3>2, Zenon DEF FS, Active
    <3>. QED  BY <1>2, <3>3, AbstractStep, Zenon
  <2>. QED  BY <2>1, <2>2, Zenon
<1>5. CASE LogWrite(p)
  <2>1. boot' = "up" /\ pc[p] = "logw" /\ pc' = [pc EXCEPT ![p] = "op"]
    BY <1>1, <1>5, Zenon DEF LogWrite, bootVars, Goto
  <2>2. PICK b \in Blocks, v \in Vals : cache' = [cache EXCEPT ![b] = v]
    BY <1>5, Zenon DEF LogWrite
  <2>3. InOp' = InOp /\ p \in InOp
    BY <1>1, <2>1, Zenon DEF InOp
  <2>4. FS' = [FS EXCEPT ![b] = v] /\ Active' = Active /\ p \in Active
    BY <1>2, <2>1, <2>2, <2>3, Zenon DEF FS, Active
  <2>. QED  BY <1>2, <2>4, AbstractStep, Zenon
<1>6. CASE EndOp(p)
  <2>1. /\ boot' = "up" /\ cache' = cache /\ pc[p] = "op" /\ pc'[p] \in {"sync", "idle"}
        /\ \A q \in Procs \ {p} : \/ pc'[q] = pc[q]
                                  \/ pc[q] = "syncsleep" /\ pc'[q] = "synccheck"
                                  \/ pc[q] = "logsleep" /\ pc'[q] = "begin"
    BY <1>1, <1>6, Zenon DEF EndOp, WakeLog, WakeSync, Wakeup, memVars, bootVars
  <2>2. InOp' = InOp \ {p} /\ p \in InOp
    BY <2>1, Zenon DEF InOp
  <2>3. FS' = FS /\ Active' = Active \ {p} /\ p \in Active
    BY <1>2, <2>1, <2>2, Zenon DEF FS, Active
  <2>. QED  BY <1>2, <2>3, AbstractStep, Zenon
<1>. QED  BY <1>3, <1>4, <1>5, <1>6, Zenon

LEMMA SyncStepStep ==
  ASSUME CommitInv, CommitInv', NEW p \in Procs, SyncStep(p)
  PROVE  [Abstract!Next]_(Abstract!vars)
<1>1. /\ boot = "up" /\ boot' = "up" /\ pc \in [Procs -> Labels] /\ RoomInv /\ UpRight /\ RoomInv' /\ UpRight'
      /\ disk \in [Blocks -> Vals] /\ cache \in [Blocks -> Vals]
  BY Zenon DEF CommitInv, SyncStep, SyncTest, SyncWait, Commit, WriteLog, WriteHead, Install, EraseHead, SyncDone,
         bootVars, RoomInv, TypeOK
<1>2. FS = cache /\ FS' = cache' /\ Active = InOp /\ Active' = InOp'
  BY <1>1, Zenon DEF FS, Active
<1>3. CASE SyncTest(p) \/ SyncWait(p) \/ Commit(p) \/ SyncDone(p)
  <2>1. UNCHANGED <<cache, dhead, dlog, disk>>
    BY <1>3, Zenon DEF SyncTest, SyncWait, Commit, SyncDone, memVars, diskVars
  <2>2. /\ pc[p] \notin {"op", "logw"} /\ pc'[p] \notin {"op", "logw"}
        /\ \A q \in Procs \ {p} : pc'[q] = pc[q] \/ (pc[q] = "logsleep" /\ pc'[q] = "begin")
    <3>1. CASE SyncTest(p)
      BY <1>1, <3>1, Zenon DEF SyncTest, Goto
    <3>2. CASE SyncWait(p)
      BY <1>1, <3>2, Zenon DEF SyncWait, Goto
    <3>3. CASE Commit(p)
      BY <1>1, <3>3, Zenon DEF Commit, Goto
    <3>4. CASE SyncDone(p)
      BY <1>1, <3>4, Zenon DEF SyncDone, WakeLog, Wakeup
    <3>. QED  BY <1>3, <3>1, <3>2, <3>3, <3>4, Zenon
  <2>3. InOp' = InOp
    BY <2>2, Zenon DEF InOp
  <2>. QED  BY <1>2, <2>1, <2>3, SameDisk, AbstractStep, Zenon
<1>4. CASE WriteLog(p)
  <2>1. /\ pc[p] = "wlog" /\ UNCHANGED <<cache, disk, dhead>> /\ pc'[p] \in {"wlog", "whead"}
        /\ \A q \in Procs \ {p} : pc'[q] = pc[q]
    BY <1>1, <1>4, Zenon DEF WriteLog, memVars, Goto
  <2>2. Installing = {} /\ InOp = {}
    BY <1>1, <2>1, OneCommitter, Zenon DEF Installing, SyncLabels
  <2>3. Installing' = {} /\ InOp' = {}
    BY <2>1, <2>2, Zenon DEF Installing, InOp
  <2>. QED  BY <1>1, <1>2, <2>1, <2>2, <2>3, Durable, DurableNext, AbstractStep, Zenon
<1>5. CASE WriteHead(p)
  <2>1. pc[p] = "whead" /\ UNCHANGED <<cache, disk>> /\ pc' = [pc EXCEPT ![p] = "install"]
    BY <1>5, Zenon DEF WriteHead, memVars, Goto
  <2>2. InOp = {}
    BY <1>1, <2>1, OneCommitter, Zenon DEF SyncLabels
  <2>3. Installing' # {} /\ InOp' = {}
    BY <1>1, <2>1, <2>2, Zenon DEF Installing, InOp
  <2>. QED  BY <1>1, <1>2, <2>1, <2>2, <2>3, DurableNext, AbstractStep, Zenon
<1>6. CASE Install(p)
  <2>1. /\ pc[p] = "install" /\ pc'[p] \in {"install", "erase"} /\ \A q \in Procs \ {p} : pc'[q] = pc[q]
    BY <1>1, <1>6, Zenon DEF Install, Goto
  <2>2. Installing # {} /\ Installing' # {} /\ InOp = {}
    BY <1>1, <2>1, OneCommitter, Zenon DEF Installing, SyncLabels
  <2>3. InOp' = {}
    BY <2>1, <2>2, Zenon DEF InOp
  <2>4. cache' = cache
    <3>1. /\ Len(lh) \in Nat /\ tail[p] \in Nat /\ lh \in Seq(Blocks) /\ Copied(lh, cache, Len(lh))
      <4>1. lh \in Seq(Blocks) /\ tail[p] \in 0..LOGSIZE
        BY <1>1, Zenon DEF RoomInv, TypeOK
      <4>2. Copied(lh, cache, Len(lh))
        BY <1>1, <2>1, Zenon DEF UpRight, CommitterRight
      <4>. QED  BY <4>1, <4>2, LogAssumption
    <3>2. CASE tail[p] + 1 <= Len(lh)
      <4>1. cache' = [cache EXCEPT ![lh[tail[p] + 1]] = dlog[tail[p] + 1]]
        BY <1>6, <3>1, <3>2, SMTT(30) DEF Install, InstallBlock
      <4>2. tail[p] + 1 \in 1..Len(lh)
        BY <3>1, <3>2
      <4>. QED  BY <1>1, <3>1, <4>1, <4>2, Zenon DEF Copied
    <3>3. CASE ~(tail[p] + 1 <= Len(lh))
      BY <1>6, <3>3, Zenon DEF Install, memVars
    <3>. QED  BY <3>2, <3>3, Zenon
  <2>. QED  BY <1>1, <1>2, <2>2, <2>3, <2>4, Durable, DurableNext, AbstractStep, Zenon
<1>7. CASE EraseHead(p)
  <2>1. pc[p] = "erase" /\ UNCHANGED <<cache, disk, dirty>> /\ pc' = [pc EXCEPT ![p] = "syncdone"]
    BY <1>7, Zenon DEF EraseHead, memVars, Goto
  <2>2. /\ Installing # {} /\ InOp = {} /\ \A q \in Procs \ {p} : pc[q] \notin SyncLabels
    BY <1>1, <2>1, OneCommitter, Zenon DEF Installing, SyncLabels
  <2>3. Installing' = {} /\ InOp' = {}
    BY <1>1, <2>1, <2>2, Zenon DEF Installing, InOp, SyncLabels
  <2>4. dirty = {}
    BY <1>1, <2>1, Zenon DEF UpRight, CommitterRight
  <2>5. cache = disk
    <3>1. \A b \in Blocks : cache[b] = disk[b]
      BY <1>1, <2>4, Zenon DEF UpRight
    <3>2. cache \in [Blocks -> Vals] /\ disk \in [Blocks -> Vals]
      BY <1>1, Zenon DEF RoomInv, TypeOK
    <3>. QED  BY <3>1, <3>2
  <2>6. Recovered = cache /\ Recovered' = disk'
    BY <1>1, <2>2, <2>3, Durable, DurableNext, Zenon
  <2>7. FS' = FS /\ Active' = Active /\ Recovered' = Recovered
    BY <1>2, <2>1, <2>2, <2>3, <2>5, <2>6, Zenon
  <2>. QED  BY <2>7, AbstractStep, Zenon
<1>. QED  BY <1>3, <1>4, <1>5, <1>6, <1>7, Zenon DEF SyncStep

LEMMA BootStep ==
  ASSUME CommitInv, Crash \/ ReadHead \/ RecoverInstall \/ RecoverErase
  PROVE  [Abstract!Next]_(Abstract!vars)
<1>1. /\ dhead \in Seq(Blocks) /\ lh \in Seq(Blocks) /\ disk \in [Blocks -> Vals] /\ rtail \in Nat
      /\ Len(lh) \in Nat
  BY LogAssumption DEF CommitInv, RoomInv, TypeOK
<1>2. CASE Crash
  <2>1. boot' = "readhead" /\ UNCHANGED <<dhead, dlog, disk>>
    BY <1>2, Zenon DEF Crash, diskVars
  <2>2. Recovered' = Recovered /\ FS' = Recovered' /\ Active' = {}
    BY <2>1, SameDisk, Zenon DEF FS, Active
  <2>. QED  BY <2>2, AbstractStep, Zenon
<1>3. CASE ReadHead
  <2>1. boot = "readhead" /\ boot' = "install" /\ UNCHANGED <<dhead, dlog, disk>>
    BY <1>3, Zenon DEF ReadHead, diskVars
  <2>2. Recovered' = Recovered
    BY <2>1, SameDisk, Zenon
  <2>3. FS' = FS /\ Active' = Active
    BY <2>1, <2>2, Zenon DEF FS, Active
  <2>. QED  BY <2>2, <2>3, AbstractStep, Zenon
<1>4. CASE RecoverInstall
  <2>1. boot = "install" /\ boot' \in {"install", "erase"} /\ UNCHANGED <<dhead, dlog>>
    BY <1>4, Zenon DEF RecoverInstall
  <2>2. \A b \in Blocks \ Range(dhead) : disk'[b] = disk[b]
    <3>1. lh = dhead
      BY <2>1, Zenon DEF CommitInv, BootRight
    <3>2. CASE rtail + 1 <= Len(lh)
      <4>1. disk' = [disk EXCEPT ![lh[rtail + 1]] = dlog[rtail + 1]]
        BY <1>1, <1>4, <3>2, SMTT(30) DEF RecoverInstall, InstallBlock
      <4>2. lh[rtail + 1] \in Range(lh)
        BY <1>1, <3>2 DEF Range
      <4>. QED  BY <1>1, <3>1, <4>1, <4>2, Zenon
    <3>3. CASE ~(rtail + 1 <= Len(lh))
      BY <1>4, <3>3, Zenon DEF RecoverInstall
    <3>. QED  BY <3>2, <3>3, Zenon
  <2>3. Recovered' = Recovered
    BY <2>1, <2>2 DEF Recovered, Range
  <2>4. FS' = FS /\ Active' = Active
    BY <2>1, <2>3, Zenon DEF FS, Active
  <2>. QED  BY <2>3, <2>4, AbstractStep, Zenon
<1>5. CASE RecoverErase
  <2>1. boot = "erase" /\ boot' = "up" /\ dhead' = lh /\ UNCHANGED <<lh, cache, dlog, disk, pc>>
    BY <1>5, Zenon DEF RecoverErase, logVars, memVars, procVars
  <2>2. /\ lh = <<>> /\ cache = disk /\ \A i \in 1..Len(dhead) : dlog[i] = disk[dhead[i]]
        /\ \A p \in Procs : pc[p] = "idle"
    BY <2>1, Zenon DEF CommitInv, BootRight, Copied
  <2>3. Recovered = disk
    <3>2. dhead \in Seq(Blocks) /\ disk \in [Blocks -> Vals] /\ \A i \in 1..Len(dhead) : dlog[i] = disk[dhead[i]]
      BY <1>1, <2>2, Zenon
    <3>3. Redo(dhead, dlog, disk) = disk
      BY ONLY <3>2, RedoIs
    <3>. QED  BY <3>3, RecoveredIs, Zenon
  <2>4. Recovered' = Redo(dhead', dlog', disk')
    BY Zenon DEF Recovered, Redo, Range
  <2>5. Recovered' = disk
    BY <1>1, <2>1, <2>2, <2>4, RedoNothing, Zenon
  <2>6. InOp' = {}
    BY <2>1, <2>2, Zenon DEF InOp
  <2>7. FS' = FS /\ Active' = Active /\ Recovered' = Recovered
    BY <2>1, <2>2, <2>3, <2>5, <2>6, Zenon DEF FS, Active
  <2>. QED  BY <2>7, AbstractStep, Zenon
<1>. QED  BY <1>2, <1>3, <1>4, <1>5, Zenon

LEMMA CommitNext ==
  ASSUME Syncers = {}, CommitInv, [Next]_vars
  PROVE  CommitInv' /\ [Abstract!Next]_(Abstract!vars)
<1>1. CASE UNCHANGED vars
  <2>1. /\ UNCHANGED <<lh, outstanding, committing, cache, dirty, disk, dlog, dhead, pc, tail, wrote, boot, rtail>>
    BY <1>1, Zenon DEF vars, logVars, memVars, diskVars, procVars, bootVars
  <2>2. RoomInv'
    BY <1>1, RoomNext, Zenon DEF CommitInv
  <2>3. UpRight' <=> UpRight
    <3>1. Syncing' = Syncing /\ Installing' = Installing /\ InOp' = InOp
      BY <2>1, Zenon DEF Syncing, Installing, InOp
    <3>2. ASSUME NEW p \in Procs PROVE CommitterRight(p)' <=> CommitterRight(p)
      BY <2>1, CommitterSame, Zenon
    <3>. QED  BY <2>1, <3>1, <3>2, Zenon DEF UpRight, Range
  <2>4. BootRight' <=> BootRight
    BY <2>1, Zenon DEF BootRight, Copied
  <2>5. Recovered' = Recovered /\ InOp' = InOp
    BY <2>1, SameDisk, Zenon DEF InOp
  <2>6. FS' = FS /\ Active' = Active
    BY <2>1, <2>5, Zenon DEF FS, Active
  <2>. QED  BY <2>1, <2>2, <2>3, <2>4, <2>5, <2>6, AbstractStep, Zenon DEF CommitInv
<1>2. ASSUME NEW p \in Procs, BeginOp(p) \/ LogWriteCheck(p) \/ LogWrite(p) \/ EndOp(p)
      PROVE  CommitInv' /\ [Abstract!Next]_(Abstract!vars)
  BY <1>2, CommitBegin, CommitCheck, CommitWrite, CommitEnd, OpStep, Zenon
<1>3. ASSUME NEW p \in Procs, SyncCall(p) PROVE FALSE
  BY <1>3, Zenon DEF SyncCall
<1>4. ASSUME NEW p \in Procs, SyncStep(p)
      PROVE  CommitInv' /\ [Abstract!Next]_(Abstract!vars)
  <2>1. CommitInv'
    BY <1>4, CommitMove, CommitWriteLog, CommitWriteHead, CommitInstall, CommitErase, Zenon DEF SyncStep
  <2>. QED  BY <1>4, <2>1, SyncStepStep, Zenon
<1>5. ASSUME NEW b \in Blocks, Evict(b)
      PROVE  CommitInv' /\ [Abstract!Next]_(Abstract!vars)
  <2>1. /\ CommitInv' /\ cache' = cache /\ UNCHANGED <<disk, dlog, dhead, pc, boot>>
    BY <1>5, CommitEvict, Zenon DEF Evict, diskVars, procVars, bootVars
  <2>2. Recovered' = Recovered /\ InOp' = InOp
    BY <2>1, SameDisk, Zenon DEF InOp
  <2>3. FS' = FS /\ Active' = Active
    BY <2>1, <2>2, Zenon DEF FS, Active
  <2>. QED  BY <2>1, <2>2, <2>3, AbstractStep, Zenon
<1>6. CASE Crash \/ ReadHead \/ RecoverInstall \/ RecoverErase
  BY <1>6, CommitCrash, CommitReadHead, CommitRecover, CommitBoot, BootStep, Zenon
<1>. QED  BY <1>1, <1>2, <1>3, <1>4, <1>5, <1>6, Zenon DEF Next

\* log.c implements AtomicDisk where only end_op() commits: a commit takes in
\* whole operations, becomes durable at once when write_head() writes the
\* header, and survives a crash at any point of commit() and of recovery.
THEOREM CommitsAtomic == ASSUME Syncers = {} PROVE Spec => Atomicity
<1>1. Init => Abstract!Init
  <2>. SUFFICES ASSUME Init PROVE Abstract!Init
    OBVIOUS
  <2>1. Recovered = disk /\ disk \in [Blocks -> Vals] /\ boot = "readhead"
    BY RedoNothing, RecoveredIs, Zenon DEF Init
  <2>. QED  BY <2>1, Zenon DEF Abstract!Init
<1>2. CommitInv /\ [Next]_vars => CommitInv' /\ [Abstract!Next]_(Abstract!vars)
  BY CommitNext, Zenon
<1>. QED  BY <1>1, <1>2, CommitInit, PTL DEF Spec, Atomicity, Abstract!Spec

\* When the commit that end_op() forces returns, a crash would lose nothing
\* that was written so far.
THEOREM CommitDurable == ASSUME Syncers = {} PROVE Spec => SyncDurable
<1>1. ASSUME CommitInv, [Next]_vars, NEW p \in Procs,
             pc[p] \in {"sync", "syncdone"}, pc'[p] = "idle", boot' = "up"
      PROVE  Recovered = cache
  <2>1. /\ lh \in Seq(Blocks) /\ disk \in [Blocks -> Vals] /\ cache \in [Blocks -> Vals] /\ RoomInv
    BY <1>1, Zenon DEF CommitInv, RoomInv, TypeOK
  <2>2. boot = "up" /\ UpRight
    <3>1. CASE boot = "up"
      BY <1>1, <3>1, Zenon DEF CommitInv
    <3>2. CASE RecoverErase
      BY <1>1, <3>2, Zenon DEF RecoverErase, CommitInv, BootRight
    <3>. QED  BY <1>1, <3>1, <3>2, Zenon DEF Next, BeginOp, LogWriteCheck, LogWrite, EndOp, SyncCall, SyncStep, SyncTest,
                 SyncWait, Commit, WriteLog, WriteHead, Install, EraseHead, SyncDone, Evict, Crash, ReadHead,
                 RecoverInstall, vars, bootVars
  <2>3. lh = <<>>
    <3>1. CASE pc[p] = "syncdone"
      BY <2>2, <3>1, Zenon DEF UpRight, CommitterRight
    <3>2. CASE pc[p] = "sync"
      <4>1. SyncTest(p)
        <5>1. pc' # pc /\ pc[p] = "sync" /\ pc'[p] = "idle" /\ boot' = "up" /\ pc \in [Procs -> Labels]
          BY <1>1, <3>2, Zenon DEF CommitInv, RoomInv, TypeOK
        <5>2. ASSUME NEW q \in Procs, BeginOp(q) \/ LogWriteCheck(q) \/ LogWrite(q) \/ SyncCall(q) PROVE FALSE
          BY <5>1, <5>2, Zenon DEF BeginOp, LogWriteCheck, LogWrite, SyncCall, Goto
        <5>3. ASSUME NEW q \in Procs, EndOp(q) PROVE FALSE
          BY <5>1, <5>3, Zenon DEF EndOp, WakeSync, WakeLog, Wakeup
        <5>4. ASSUME NEW q \in Procs, SyncDone(q) PROVE FALSE
          BY <5>1, <5>4, Zenon DEF SyncDone, WakeLog, Wakeup
        <5>5. ASSUME NEW q \in Procs, SyncTest(q) PROVE q = p
          BY <5>1, <5>5, Zenon DEF SyncTest, Goto
        <5>6. ASSUME NEW q \in Procs, SyncWait(q) \/ Commit(q) \/ WriteLog(q) \/ WriteHead(q) \/ Install(q) \/ EraseHead(q)
              PROVE  FALSE
          BY <5>1, <5>6, Zenon DEF SyncWait, Commit, WriteLog, WriteHead, Install, EraseHead, Goto
        <5>7. ~Crash /\ ~ReadHead /\ ~RecoverInstall /\ ~RecoverErase /\ pc' # pc /\ \A b \in Blocks : ~Evict(b)
          BY <5>1, Zenon DEF Crash, ReadHead, RecoverInstall, RecoverErase, Evict, procVars
        <5>8. vars' # vars
          BY <5>1, Zenon DEF vars, procVars
        <5>. QED  BY <1>1, <5>2, <5>3, <5>4, <5>5, <5>6, <5>7, <5>8, Zenon DEF Next, SyncStep
      <4>. QED  BY <1>1, <2>1, <3>2, <4>1, SMTT(30) DEF SyncTest, Goto, RoomInv, TypeOK
    <3>. QED  BY <1>1, <3>1, <3>2, Zenon
  <2>4. Installing = {} /\ dirty = {}
    <3>1. Installing = {}
      BY <1>1, <2>2, OneCommitter, Zenon DEF Installing, SyncLabels
    <3>2. DOMAIN lh = {}
      BY <2>3
    <3>. QED  BY <2>2, <3>1, <3>2, Zenon DEF UpRight, Range
  <2>. QED  BY <2>1, <2>2, <2>4, Durable DEF UpRight
<1>2. CommitInv /\ [Next]_vars =>
        [\A p \in Procs : pc[p] \in {"sync", "syncdone"} /\ pc'[p] = "idle" /\ boot' = "up"
                            => Recovered = cache]_vars
  BY <1>1, Zenon
<1>3. CommitInv /\ [Next]_vars => CommitInv'
  BY CommitNext, Zenon
<1>. QED  BY <1>2, <1>3, CommitInit, PTL DEF Spec, SyncDurable
=============================================================================
