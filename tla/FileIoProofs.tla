---------------------------- MODULE FileIoProofs ---------------------------
(***************************************************************************)
(* Proofs about the buffer of a pipe, for any size of it, any word its     *)
(* counters wrap around in and any bytes: between two sleeps pipewrite()   *)
(* appends what fits and piperead() takes from the front, in order.  Then  *)
(* the inductive invariant of File, and that reading, writing, sleeping,   *)
(* killing and closing an end of a pipe keep it; FileProofs has the calls  *)
(* that make and drop struct files, and the theorems.                      *)
(***************************************************************************)
EXTENDS File, Counting, TLAPS

\* Sequences.
LEMMA AppendIs ==
  ASSUME NEW S, NEW s \in Seq(S), NEW x \in S
  PROVE  Append(s, x) = s \o <<x>>
OBVIOUS

LEMMA Associative ==
  ASSUME NEW S, NEW s \in Seq(S), NEW t \in Seq(S), NEW u \in Seq(S)
  PROVE  (s \o t) \o u = s \o (t \o u)
OBVIOUS

LEMMA TailIs ==
  ASSUME NEW S, NEW s \in Seq(S), s # <<>>
  PROVE  /\ Tail(s) \in Seq(S) /\ Len(Tail(s)) = Len(s) - 1
         /\ \A i \in 1..Len(Tail(s)) : Tail(s)[i] = s[i + 1]
OBVIOUS

LEMMA Sizes ==
  /\ PIPESIZE \in Nat \ {0} /\ WORD \in Nat \ {0} /\ PIPESIZE < WORD
  /\ PIPESIZE \in 0..(WORD - 1) /\ WORD % PIPESIZE = 0 /\ PIPESIZE + 1 \in 0..WORD
BY PipeAssumption

\* What pipealloc() makes of a page, and what a page is when no pipe is in it.
LEMMA NoPipeRight ==
  /\ NewPipe \in PipeType /\ Used(NewPipe) = 0 /\ NewPipe.page /\ NewPipe.readopen /\ NewPipe.writeopen
  /\ NoPipe \in PipeType /\ Used(NoPipe) = 0 /\ ~NoPipe.page /\ ~NoPipe.readopen /\ ~NoPipe.writeopen
<1>1. 0 \in 0..(WORD - 1) /\ Word(0 - 0) = 0
  <2>1. 0 \in 0..(WORD - 1) /\ 0 - 0 = 0
    BY Sizes
  <2>. QED  BY <2>1, Sizes, ModSmall, Zenon DEF Word
<1>2. PICK b : b \in Bytes /\ b = CHOOSE c \in Bytes : TRUE
  BY PipeAssumption, Zenon
<1>3. NewPipe \in PipeType
  BY <1>1, <1>2, Zenon DEF NewPipe, PipeType
<1>4. NewPipe.nread = 0 /\ NewPipe.nwrite = 0 /\ NewPipe.page /\ NewPipe.readopen /\ NewPipe.writeopen
  BY Zenon DEF NewPipe
<1>5. NoPipe \in PipeType /\ NoPipe.nread = 0 /\ NoPipe.nwrite = 0
  BY <1>3, <1>4, Zenon DEF NoPipe, PipeType
<1>6. ~NoPipe.page /\ ~NoPipe.readopen /\ ~NoPipe.writeopen
  BY <1>3, Zenon DEF NoPipe, PipeType
<1>. QED  BY <1>1, <1>3, <1>4, <1>5, <1>6, Zenon DEF Used

\* The two counters r and w as words, and their distance u.
LEMMA Distance ==
  ASSUME NEW r \in 0..(WORD - 1), NEW w \in 0..(WORD - 1), NEW u, u = Word(w - r)
  PROVE  /\ u \in 0..(WORD - 1)
         /\ w = Word(r + u)
         /\ r = w <=> u = 0
         /\ w = Word(r + PIPESIZE) <=> u = PIPESIZE
<1>. USE DEF Word
<1>1. u \in 0..(WORD - 1)
  BY Sizes, ModRange
<1>2. w = (r + u) % WORD
  <2>. PICK x \in Int, y \in Int : x = w - r /\ y = r
    OBVIOUS
  <2>1. ((x % WORD) + y) % WORD = (x + y) % WORD
    BY Sizes, ModAdd, Zenon
  <2>2. x + y = w /\ w % WORD = w
    BY Sizes, ModSmall
  <2>3. (u + r) % WORD = w
    BY <2>1, <2>2, Zenon
  <2>4. u + r = r + u
    BY <1>1
  <2>. QED  BY <2>3, <2>4, Zenon
<1>3. r % WORD = r
  BY Sizes, ModSmall, Zenon
<1>4. r = w => u = 0
  <2>1. 0 \in 0..(WORD - 1)
    BY Sizes
  <2>2. 0 % WORD = 0
    BY <2>1, Sizes, ModSmall, Zenon
  <2>. QED  BY <2>2
<1>5. u = 0 => r = w
  <2>1. r + 0 = r
    OBVIOUS
  <2>. QED  BY <1>2, <1>3, <2>1, Zenon
<1>6. w = (r + PIPESIZE) % WORD => u = PIPESIZE
  <2>. SUFFICES ASSUME w = (r + PIPESIZE) % WORD  PROVE u = PIPESIZE
    OBVIOUS
  <2>1. PICK x \in Int, y \in Int : x = r + PIPESIZE /\ y = 0 - r
    BY Sizes
  <2>2. ((x % WORD) + y) % WORD = (x + y) % WORD
    BY Sizes, ModAdd, Zenon
  <2>3. x + y = PIPESIZE /\ (x % WORD) + y = w - r
    BY <2>1, Sizes
  <2>4. PIPESIZE % WORD = PIPESIZE
    BY Sizes, ModSmall, Zenon
  <2>. QED  BY <2>2, <2>3, <2>4, Zenon
<1>. QED  BY <1>1, <1>2, <1>4, <1>5, <1>6, Zenon

LEMMA NextWord ==
  ASSUME NEW p \in PipeType
  PROVE  p.nwrite = (p.nread + Used(p)) % WORD
<1>1. p.nread \in 0..(WORD - 1) /\ p.nwrite \in 0..(WORD - 1)
  BY Zenon DEF PipeType
<1>2. ASSUME NEW r \in 0..(WORD - 1), NEW w \in 0..(WORD - 1)
      PROVE  w = (r + ((w - r) % WORD)) % WORD
  <2>1. PICK u \in 0..(WORD - 1) : u = (w - r) % WORD
    BY Sizes, ModRange
  <2>. QED  BY <2>1, Distance, Zenon DEF Word
<1>. QED  BY <1>1, <1>2, Zenon DEF Used, Word

LEMMA Forward ==
  ASSUME NEW r \in 0..(WORD - 1), NEW w \in 0..(WORD - 1), NEW u, u = Word(w - r)
  PROVE  /\ u < PIPESIZE => Word(Word(w + 1) - r) = u + 1
         /\ u > 0 => Word(w - Word(r + 1)) = u - 1
<1>. USE DEF Word
<1>1. u \in 0..(WORD - 1)
  BY Distance, Zenon
<1>2. PICK z \in Int : z = w - r
  OBVIOUS
<1>3. u < PIPESIZE => ((w + 1) % WORD) - r \in Int /\ (((w + 1) % WORD) - r) % WORD = u + 1
  <2>1. PICK x \in Int, y \in Int, o \in Int : x = w + 1 /\ y = 0 - r /\ o = 1
    OBVIOUS
  <2>2. ((x % WORD) + y) % WORD = (x + y) % WORD
    BY Sizes, ModAdd, Zenon
  <2>3. ((z % WORD) + o) % WORD = (z + o) % WORD
    BY Sizes, ModAdd, Zenon
  <2>4. x + y = z + o /\ (x % WORD) + y = ((w + 1) % WORD) - r /\ (x % WORD) + y \in Int
    BY <1>2, <2>1, Sizes
  <2>5. u < PIPESIZE => u + 1 \in 0..(WORD - 1)
    BY <1>1, Sizes
  <2>6. u < PIPESIZE => (u + 1) % WORD = u + 1
    BY <2>5, Sizes, ModSmall, Zenon
  <2>. QED  BY <1>2, <2>1, <2>2, <2>3, <2>4, <2>6, Zenon
<1>4. u > 0 => (w - ((r + 1) % WORD)) % WORD = u - 1
  <2>1. PICK x \in Int, y \in Int, o \in Int : x = r + 1 /\ y = w /\ o = 0 - 1
    OBVIOUS
  <2>2. (y - (x % WORD)) % WORD = (y - x) % WORD
    BY Sizes, ModSub, Zenon
  <2>3. ((z % WORD) + o) % WORD = (z + o) % WORD
    BY Sizes, ModAdd, Zenon
  <2>4. y - x = z + o /\ u + o = u - 1
    BY <1>1, <1>2, <2>1
  <2>5. u > 0 => u - 1 \in 0..(WORD - 1)
    BY <1>1, Sizes
  <2>6. u > 0 => (u - 1) % WORD = u - 1
    BY <2>5, Sizes, ModSmall, Zenon
  <2>. QED  BY <1>2, <2>1, <2>2, <2>3, <2>4, <2>6, Zenon
<1>. QED  BY <1>3, <1>4, Zenon

\* The bytes of a pipe as the slots of the ring.
LEMMA ContentRight ==
  ASSUME NEW p \in PipeType
  PROVE  /\ Used(p) \in 0..(WORD - 1) /\ Content(p) \in Seq(Bytes) /\ Len(Content(p)) = Used(p)
         /\ \A i \in 1..Used(p) : Content(p)[i] = p.data[(p.nread + i - 1) % PIPESIZE]
<1>1. p.nread \in 0..(WORD - 1) /\ p.nwrite \in 0..(WORD - 1) /\ p.data \in [0..(PIPESIZE - 1) -> Bytes]
  BY Zenon DEF PipeType
<1>2. Used(p) \in 0..(WORD - 1)
  BY <1>1, Distance, ZenonT(40) DEF Used
<1>3. \A n \in Int : Word(n) % PIPESIZE = n % PIPESIZE /\ n % PIPESIZE \in 0..(PIPESIZE - 1)
  BY Sizes, ModMod, ModRange, ZenonT(40) DEF Word
<1>4. \A i \in 1..Used(p) : p.nread + i - 1 \in Int
  BY <1>1, <1>2
<1>5. \A i \in 1..Used(p) : Content(p)[i] = p.data[(p.nread + i - 1) % PIPESIZE]
  BY <1>3, <1>4, Zenon DEF Content
<1>6. \A i \in 1..Used(p) : p.data[(p.nread + i - 1) % PIPESIZE] \in Bytes
  BY <1>1, <1>3, <1>4, Zenon
<1>7. Content(p) = [i \in 1..Used(p) |-> p.data[(p.nread + i - 1) % PIPESIZE]]
  BY <1>3, <1>4, Zenon DEF Content
<1>8. Content(p) \in Seq(Bytes) /\ Len(Content(p)) = Used(p)
  BY <1>2, <1>6, <1>7
<1>. QED  BY <1>2, <1>5, <1>8, Zenon

\* One byte into a pipe that is not full.
LEMMA PutAppends ==
  ASSUME NEW p \in PipeType, NEW b \in Bytes, Used(p) < PIPESIZE
  PROVE  /\ Put(p, b) \in PipeType /\ Used(Put(p, b)) = Used(p) + 1
         /\ Content(Put(p, b)) = Append(Content(p), b)
         /\ Put(p, b).readopen = p.readopen /\ Put(p, b).writeopen = p.writeopen
         /\ Put(p, b).page = p.page
<1>1. p.nread \in 0..(WORD - 1) /\ p.nwrite \in 0..(WORD - 1) /\ p.data \in [0..(PIPESIZE - 1) -> Bytes]
  BY Zenon DEF PipeType
<1>2. PICK x : x = Put(p, b)
  OBVIOUS
<1>. PICK r \in Int, w \in Int : r = p.nread /\ w = p.nwrite
  BY <1>1
<1>3. PICK s \in 0..(PIPESIZE - 1) : s = w % PIPESIZE
  BY Sizes, ModRange, Zenon
<1>4. /\ x.nread = p.nread /\ x.nwrite = Word(p.nwrite + 1) /\ x.data = [p.data EXCEPT ![s] = b]
      /\ x.readopen = p.readopen /\ x.writeopen = p.writeopen /\ x.page = p.page
  BY <1>2, <1>3, Zenon DEF Put, PipeType
<1>5. Word(p.nwrite + 1) \in 0..(WORD - 1)
  <2>1. w + 1 \in Int
    OBVIOUS
  <2>. QED  BY <2>1, Sizes, ModRange, Zenon DEF Word
<1>6. x \in PipeType
  <2>1. x = [data |-> [p.data EXCEPT ![s] = b], nread |-> p.nread, nwrite |-> Word(p.nwrite + 1),
             readopen |-> p.readopen, writeopen |-> p.writeopen, page |-> p.page]
    BY <1>2, <1>3, Zenon DEF Put, PipeType
  <2>2. p.readopen \in BOOLEAN /\ p.writeopen \in BOOLEAN /\ p.page \in BOOLEAN
    BY Zenon DEF PipeType
  <2>. QED  BY <1>1, <1>5, <2>1, <2>2, Zenon DEF PipeType
<1>7. PICK u \in 0..(WORD - 1) : u = Used(p)
  BY ContentRight, Zenon
<1>8. Used(x) = u + 1
  BY <1>1, <1>4, <1>7, Forward DEF Used
<1>9. Content(x) = Append(Content(p), b)
  <2>0. \A d \in Int : d = r + u => d % PIPESIZE = s
    <3>. SUFFICES ASSUME NEW d \in Int, d = r + u  PROVE d % PIPESIZE = s
      OBVIOUS
    <3>1. w = d % WORD
      BY <1>7, NextWord, Zenon
    <3>2. (d % WORD) % PIPESIZE = d % PIPESIZE
      BY Sizes, ModMod, Zenon
    <3>. QED  BY <1>3, <3>1, <3>2, Zenon
  <2>1. Content(x) \in Seq(Bytes) /\ Len(Content(x)) = u + 1
    BY <1>6, <1>8, ContentRight, Zenon
  <2>2. Content(p) \in Seq(Bytes) /\ Len(Content(p)) = u
    BY <1>7, ContentRight, Zenon
  <2>3. \A i \in 1..u : Content(x)[i] = Content(p)[i]
    <3>. SUFFICES ASSUME NEW i \in 1..u  PROVE Content(x)[i] = Content(p)[i]
      OBVIOUS
    <3>1. PICK c \in Int, d \in Int : c = r + i - 1 /\ d = r + u
      OBVIOUS
    <3>2. c % PIPESIZE # d % PIPESIZE
      <4>1. c < d /\ d - c < PIPESIZE
        BY <1>7, <3>1, Sizes
      <4>. QED  BY <4>1, Sizes, ModDistinct, Zenon
    <3>3. d % PIPESIZE = s
      BY <2>0, <3>1, Zenon
    <3>4. i \in 1..Used(x) /\ i \in 1..Used(p)
      BY <1>7, <1>8
    <3>5a. Content(x)[i] = x.data[c % PIPESIZE]
      BY <1>4, <1>6, <3>1, <3>4, ContentRight, Zenon
    <3>5b. Content(p)[i] = p.data[c % PIPESIZE]
      BY <3>1, <3>4, ContentRight, Zenon
    <3>5. c % PIPESIZE \in 0..(PIPESIZE - 1)
      BY Sizes, ModRange, Zenon
    <3>. QED  BY <1>1, <1>4, <3>2, <3>3, <3>5a, <3>5b, <3>5, Zenon
  <2>4. Content(x)[u + 1] = b
    <3>1. PICK d \in Int : d = r + u
      OBVIOUS
    <3>2. d % PIPESIZE = s
      BY <2>0, <3>1, Zenon
    <3>3. u + 1 \in 1..Used(x) /\ x.nread + (u + 1) - 1 = d
      BY <1>1, <1>4, <1>8, <3>1, SMTT(30)
    <3>4. Content(x)[u + 1] = x.data[d % PIPESIZE]
      BY <1>6, <3>3, ContentRight, Zenon
    <3>. QED  BY <1>1, <1>4, <3>2, <3>4, Zenon
  <2>. QED  BY <2>1, <2>2, <2>3, <2>4
<1>. QED  BY <1>2, <1>4, <1>6, <1>7, <1>8, <1>9, Zenon

\* One byte out of a pipe that is not empty.
LEMMA GetTakes ==
  ASSUME NEW p \in PipeType, NEW x, x = [p EXCEPT !.nread = Word(@ + 1)], Used(p) > 0
  PROVE  /\ x \in PipeType /\ Used(x) = Used(p) - 1
         /\ p.data[p.nread % PIPESIZE] \in Bytes
         /\ Content(p) = <<p.data[p.nread % PIPESIZE]>> \o Content(x)
         /\ x.readopen = p.readopen /\ x.writeopen = p.writeopen /\ x.page = p.page
<1>1. p.nread \in 0..(WORD - 1) /\ p.nwrite \in 0..(WORD - 1) /\ p.data \in [0..(PIPESIZE - 1) -> Bytes]
  BY Zenon DEF PipeType
<1>2. /\ x.nread = Word(p.nread + 1) /\ x.nwrite = p.nwrite /\ x.data = p.data
      /\ x.readopen = p.readopen /\ x.writeopen = p.writeopen /\ x.page = p.page
  BY Zenon DEF PipeType
<1>. PICK r \in Int : r = p.nread
  BY <1>1
<1>3. Word(p.nread + 1) \in 0..(WORD - 1)
  <2>1. r + 1 \in Int
    OBVIOUS
  <2>. QED  BY <2>1, Sizes, ModRange, Zenon DEF Word
<1>4. x \in PipeType
  BY <1>3, Zenon DEF PipeType
<1>5. PICK u \in 0..(WORD - 1) : u = Used(p)
  BY ContentRight, Zenon
<1>6. Used(x) = u - 1
  BY <1>1, <1>2, <1>5, Forward DEF Used
<1>7. PICK b : b = p.data[p.nread % PIPESIZE]
  OBVIOUS
<1>8. b \in Bytes
  <2>1. r % PIPESIZE \in 0..(PIPESIZE - 1)
    BY Sizes, ModRange, Zenon
  <2>. QED  BY <1>1, <1>7, <2>1, Zenon
<1>9. Content(p) = <<b>> \o Content(x)
  <2>1. Content(x) \in Seq(Bytes) /\ Len(Content(x)) = u - 1
    BY <1>4, <1>6, ContentRight, Zenon
  <2>2. Content(p) \in Seq(Bytes) /\ Len(Content(p)) = u
    BY <1>5, ContentRight, Zenon
  <2>3. Content(p)[1] = b
    <3>1. 1 \in 1..u /\ p.nread + 1 - 1 = p.nread
      BY <1>1, <1>5
    <3>. QED  BY <1>5, <1>7, <3>1, ContentRight, Zenon
  <2>4. \A i \in 1..(u - 1) : Content(p)[i + 1] = Content(x)[i]
    <3>. SUFFICES ASSUME NEW i \in 1..(u - 1)  PROVE Content(p)[i + 1] = Content(x)[i]
      OBVIOUS
    <3>1. PICK c \in Int, d \in Int, e \in Int : c = r + 1 /\ d = i - 1 /\ e = r + i
      <4>1. r + 1 \in Int /\ i - 1 \in Int /\ r + i \in Int
        OBVIOUS
      <4>. QED  BY <4>1, Zenon
    <3>2. Content(p)[i + 1] = p.data[e % PIPESIZE]
      <4>1. i + 1 \in 1..u /\ p.nread + (i + 1) - 1 = e
        BY <1>1, <1>5, <3>1, SMTT(30)
      <4>. QED  BY <1>5, <4>1, ContentRight, Zenon
    <3>3. Content(x)[i] = p.data[((c % WORD) + i - 1) % PIPESIZE]
      <4>1. i \in 1..Used(x) /\ x.nread = c % WORD
        BY <1>2, <1>6, <3>1, Zenon DEF Word
      <4>. QED  BY <1>2, <1>4, <4>1, ContentRight, Zenon
    <3>4. ((c % WORD) + i - 1) % PIPESIZE = e % PIPESIZE
      <4>1. PICK v \in Int : v = c % WORD
        BY Sizes, ModRange
      <4>2. v % PIPESIZE = c % PIPESIZE
        BY <4>1, Sizes, ModMod, Zenon
      <4>3. ((v % PIPESIZE) + d) % PIPESIZE = (v + d) % PIPESIZE
        BY Sizes, ModAdd, Zenon
      <4>4. ((c % PIPESIZE) + d) % PIPESIZE = (c + d) % PIPESIZE
        BY Sizes, ModAdd
      <4>5. c + d = e /\ v + d = (c % WORD) + i - 1
        BY <1>1, <3>1, <4>1
      <4>. QED  BY <4>2, <4>3, <4>4, <4>5, Zenon
    <3>. QED  BY <3>2, <3>3, <3>4, Zenon
  <2>5. <<b>> \in Seq(Bytes) /\ Len(<<b>>) = 1 /\ <<b>>[1] = b
    BY <1>8
  <2>6. PICK y : y = <<b>> \o Content(x)
    BY Zenon
  <2>6a. y \in Seq(Bytes)
    BY <2>1, <2>5, <2>6
  <2>7. Len(y) = u /\ y[1] = b
    BY <2>1, <2>5, <2>6
  <2>8. \A i \in 1..(u - 1) : y[i + 1] = Content(x)[i]
    BY <2>1, <2>5, <2>6
  <2>9. \A i \in 1..u : y[i] = Content(p)[i]
    <3>. SUFFICES ASSUME NEW i \in 1..u, i # 1  PROVE y[i] = Content(p)[i]
      BY <2>3, <2>7, Zenon
    <3>1. i - 1 \in 1..(u - 1) /\ i = (i - 1) + 1
      OBVIOUS
    <3>. QED  BY <2>4, <2>8, <3>1, Zenon
  <2>10. y = Content(p)
    BY <2>2, <2>6a, <2>7, <2>9
  <2>. QED  BY <2>6, <2>10, Zenon
<1>. QED  BY <1>2, <1>4, <1>5, <1>6, <1>7, <1>8, <1>9, Zenon

\* Two sequences of bytes, the first byte of the second moved to the first.
LEMMA MoveByte ==
  ASSUME NEW s \in Seq(Bytes), NEW t \in Seq(Bytes), t # <<>>
  PROVE  Append(s, t[1]) \o Tail(t) = s \o t
<1>1. t[1] \in Bytes /\ Tail(t) \in Seq(Bytes) /\ <<t[1]>> \in Seq(Bytes)
  OBVIOUS
<1>2. t = <<t[1]>> \o Tail(t)
  OBVIOUS
<1>3. Append(s, t[1]) = s \o <<t[1]>>
  BY <1>1, AppendIs, Zenon
<1>4. (s \o <<t[1]>>) \o Tail(t) = s \o (<<t[1]>> \o Tail(t))
  BY <1>1, Associative
<1>. QED  BY <1>2, <1>3, <1>4, Zenon

\* pipewrite() after i turns of its loop for the bytes s: the pipe q.pipe that
\* was p, and the bytes q.rest.
FillState(p, s, i, q) ==
  /\ q.pipe \in PipeType /\ Used(q.pipe) <= PIPESIZE /\ q.rest \in Seq(Bytes)
  /\ q.pipe.readopen = p.readopen /\ q.pipe.writeopen = p.writeopen /\ q.pipe.page = p.page
  /\ Content(q.pipe) \o q.rest = Content(p) \o s
  /\ Full(p) => q.pipe = p /\ q.rest = s
  /\ \/ Full(q.pipe)
     \/ Len(q.rest) = Len(s) - i /\ \A j \in 1..Len(q.rest) : q.rest[j] = s[i + j]

LEMMA FullIsUsed ==
  ASSUME NEW p \in PipeType
  PROVE  (Full(p) <=> Used(p) = PIPESIZE) /\ (Empty(p) <=> Used(p) = 0)
<1>1. p.nread \in 0..(WORD - 1) /\ p.nwrite \in 0..(WORD - 1)
  BY Zenon DEF PipeType
<1>2. ASSUME NEW r \in 0..(WORD - 1), NEW w \in 0..(WORD - 1)
      PROVE  /\ w = Word(r + PIPESIZE) <=> Word(w - r) = PIPESIZE
             /\ r = w <=> Word(w - r) = 0
  <2>1. PICK u \in 0..(WORD - 1) : u = Word(w - r)
    BY Sizes, ModRange DEF Word
  <2>2. w = Word(r + PIPESIZE) <=> u = PIPESIZE
    BY <2>1, Distance, ZenonT(40)
  <2>3. r = w <=> u = 0
    <3>1. u = 0 => r = w
      BY <2>1, Distance, Zenon
    <3>2. r = w => u = 0
      BY <2>1, Distance
    <3>. QED  BY <3>1, <3>2, Zenon
  <2>. QED  BY <2>1, <2>2, <2>3, Zenon
<1>. QED  BY <1>1, <1>2, Zenon DEF Used, Full, Empty

LEMMA FillStep ==
  ASSUME NEW p \in PipeType, NEW s \in Seq(Bytes), NEW i \in 1..Len(s), NEW q,
         FillState(p, s, i - 1, q)
  PROVE  FillState(p, s, i, FillOne(q, s[i]))
<1>. USE DEF FillState
<1>1. CASE Full(q.pipe)
  BY <1>1, Zenon DEF FillOne
<1>2. CASE ~Full(q.pipe)
  <2>1. /\ Len(q.rest) = Len(s) - (i - 1) /\ \A j \in 1..Len(q.rest) : q.rest[j] = s[i - 1 + j]
        /\ ~Full(p)
    BY <1>2, Zenon
  <2>2. q.rest # <<>> /\ q.rest[1] = s[i] /\ s[i] \in Bytes
    <3>7. q.rest \in Seq(Bytes)
      BY Zenon
    <3>8. Len(s) \in Nat /\ Len(q.rest) \in Nat
      BY ONLY <3>7, s \in Seq(Bytes)
    <3>1. PICK m \in Nat, k \in Nat : m = Len(s) /\ k = Len(q.rest)
      BY <3>8, Zenon
    <3>2. k = m - (i - 1) /\ i \in 1..m
      BY <2>1, <3>1, Zenon
    <3>3. 1 \in 1..k /\ i - 1 + 1 = i
      BY <3>2
    <3>4. q.rest[1] = s[i - 1 + 1]
      BY <2>1, <3>1, <3>3, Zenon
    <3>5. s[i] \in Bytes
      OBVIOUS
    <3>6. q.rest # <<>>
      <4>1. Len(<<>>) = 0
        OBVIOUS
      <4>2. k # 0
        BY <3>3
      <4>. QED  BY <3>1, <4>1, <4>2, Zenon
    <3>. QED  BY <3>3, <3>4, <3>5, <3>6, Zenon
  <2>3. PICK x : x = Put(q.pipe, s[i])
    OBVIOUS
  <2>4. FillOne(q, s[i]) = [pipe |-> x, rest |-> Tail(q.rest)]
    BY <1>2, <2>3, Zenon DEF FillOne
  <2>5. Used(q.pipe) < PIPESIZE
    BY <1>2, FullIsUsed, ContentRight, Sizes
  <2>6. /\ x \in PipeType /\ Used(x) = Used(q.pipe) + 1 /\ Content(x) = Append(Content(q.pipe), s[i])
        /\ x.readopen = p.readopen /\ x.writeopen = p.writeopen /\ x.page = p.page
    BY <2>2, <2>3, <2>5, PutAppends, Zenon
  <2>7. Used(x) <= PIPESIZE
    BY <2>5, <2>6, ContentRight, Sizes
  <2>8. /\ Tail(q.rest) \in Seq(Bytes) /\ Len(Tail(q.rest)) = Len(s) - i
        /\ \A j \in 1..Len(Tail(q.rest)) : Tail(q.rest)[j] = s[i + j]
    <3>1. /\ Tail(q.rest) \in Seq(Bytes) /\ Len(Tail(q.rest)) = Len(q.rest) - 1
          /\ \A j \in 1..Len(Tail(q.rest)) : Tail(q.rest)[j] = q.rest[j + 1]
      BY <2>2, TailIs, Zenon
    <3>2. Len(Tail(q.rest)) = Len(s) - i
      BY <2>1, <3>1
    <3>3. ASSUME NEW j \in 1..Len(Tail(q.rest))
          PROVE  Tail(q.rest)[j] = s[i + j]
      <4>1. j + 1 \in 1..Len(q.rest) /\ i - 1 + (j + 1) = i + j
        BY <2>1, <3>1, <3>2
      <4>. QED  BY <2>1, <3>1, <4>1, Zenon
    <3>. QED  BY <3>1, <3>2, <3>3, Zenon
  <2>9. Content(x) \o Tail(q.rest) = Content(p) \o s
    <3>1. Content(q.pipe) \in Seq(Bytes)
      BY ContentRight, Zenon
    <3>2. Append(Content(q.pipe), q.rest[1]) \o Tail(q.rest) = Content(q.pipe) \o q.rest
      BY <2>2, <3>1, MoveByte, Zenon
    <3>. QED  BY <2>2, <2>6, <3>2, Zenon
  <2>10. PICK y : y = FillOne(q, s[i])
    OBVIOUS
  <2>11. y.pipe = x /\ y.rest = Tail(q.rest)
    BY <2>4, <2>10
  <2>12. FillState(p, s, i, y)
    BY <2>1, <2>6, <2>7, <2>8, <2>9, <2>11, Zenon
  <2>. QED  BY <2>10, <2>12, Zenon
<1>. QED  BY <1>1, <1>2, Zenon

\* The loop of pipewrite() is defined by recursion on the number of its turns.
LEMMA FillDefined ==
  ASSUME NEW p, NEW s \in Seq(Bytes)
  PROVE  \E g : /\ \A i \in 0..Len(s) : g[i] = IF i = 0 THEN [pipe |-> p, rest |-> s]
                                              ELSE FillOne(g[i - 1], s[i])
                /\ Fill(p, s) = g[Len(s)]
<1>. DEFINE Loop(n, g) == g = [i \in 0..n |-> IF i = 0 THEN [pipe |-> p, rest |-> s]
                                             ELSE FillOne(g[i - 1], s[i])]
            T == {n \in Nat : ~\E g : Loop(n, g)}
<1>1. T = {}
  <2>. SUFFICES ASSUME T # {}  PROVE FALSE
    OBVIOUS
  <2>1. PICK n \in T : \A m \in T : n <= m
    <3>1. T \subseteq Nat
      OBVIOUS
    <3>. HIDE DEF T
    <3>. QED  BY <3>1, LeastNat, Zenon
  <2>2. n # 0
    <3>1. PICK g : g = [i \in 0..0 |-> [pipe |-> p, rest |-> s]]
      BY Zenon
    <3>2. \A i \in 0..0 : i = 0
      OBVIOUS
    <3>3. Loop(0, g)
      BY <3>1, <3>2, Zenon
    <3>. QED  BY <3>3, Zenon
  <2>3. n - 1 \in Nat /\ n - 1 \notin T
    <3>1. n \in Nat
      OBVIOUS
    <3>. HIDE DEF T
    <3>. QED  BY <2>1, <2>2, <3>1
  <2>4. PICK g : Loop(n - 1, g)
    BY <2>3, Zenon
  <2>5. PICK h : h = [i \in 0..n |-> IF i = n THEN FillOne(g[n - 1], s[n]) ELSE g[i]]
    BY Zenon
  <2>6. \A i \in 0..n : h[i] = IF i = 0 THEN [pipe |-> p, rest |-> s] ELSE FillOne(h[i - 1], s[i])
    <3>. SUFFICES ASSUME NEW i \in 0..n
                  PROVE  h[i] = IF i = 0 THEN [pipe |-> p, rest |-> s] ELSE FillOne(h[i - 1], s[i])
      OBVIOUS
    <3>1. CASE i = n
      BY <2>2, <2>5, <3>1
    <3>2. CASE i # n /\ i = 0
      BY <2>3, <2>4, <2>5, <3>2
    <3>3. CASE i # n /\ i # 0
      <4>1. i \in 0..(n - 1) /\ i - 1 \in 0..n /\ i - 1 # n
        BY <3>3
      <4>2. g[i] = FillOne(g[i - 1], s[i])
        BY <2>4, <3>3, <4>1, Zenon
      <4>. QED  BY <2>5, <3>3, <4>1, <4>2, Zenon
    <3>. QED  BY <3>1, <3>2, <3>3, Zenon
  <2>7. Loop(n, h)
    <3>1. h = [i \in 0..n |-> h[i]]
      BY <2>5, Zenon
    <3>. QED  BY <2>6, <3>1, Zenon
  <2>. QED  BY <2>7, Zenon
<1>2. \E g : Loop(Len(s), g)
  BY <1>1
<1>. DEFINE G == CHOOSE g : Loop(Len(s), g)
<1>3. Loop(Len(s), G)
  BY <1>2, Zenon
<1>4. Fill(p, s) = G[Len(s)]
  BY Zenon DEF Fill
<1>. HIDE DEF G
<1>5. \A i \in 0..Len(s) : G[i] = IF i = 0 THEN [pipe |-> p, rest |-> s] ELSE FillOne(G[i - 1], s[i])
  BY <1>3, Zenon
<1>. QED  BY <1>4, <1>5, Zenon

\* The whole loop of pipewrite().
LEMMA FillRight ==
  ASSUME NEW p \in PipeType, NEW s \in Seq(Bytes), Used(p) <= PIPESIZE
  PROVE  FillState(p, s, Len(s), Fill(p, s)) /\ (Fill(p, s).rest # <<>> => Full(Fill(p, s).pipe))
<1>1. PICK g : /\ \A i \in 0..Len(s) : g[i] = IF i = 0 THEN [pipe |-> p, rest |-> s]
                                             ELSE FillOne(g[i - 1], s[i])
               /\ Fill(p, s) = g[Len(s)]
  BY FillDefined, Zenon
<1>. DEFINE T == {i \in 0..Len(s) : ~FillState(p, s, i, g[i])}
<1>2. T = {}
  <2>. SUFFICES ASSUME T # {}  PROVE FALSE
    OBVIOUS
  <2>1. PICK n \in T : \A m \in T : n <= m
    <3>1. T \subseteq Nat
      OBVIOUS
    <3>. HIDE DEF T
    <3>. QED  BY <3>1, LeastNat, Zenon
  <2>2. n \in 0..Len(s) /\ ~FillState(p, s, n, g[n])
    OBVIOUS
  <2>3. n # 0
    <3>1. g[0] = [pipe |-> p, rest |-> s]
      BY <1>1
    <3>2. FillState(p, s, 0, g[0])
      <4>1. g[0].pipe = p /\ g[0].rest = s
        BY <3>1
      <4>2. Len(s) = Len(s) - 0 /\ \A j \in 1..Len(s) : s[j] = s[0 + j]
        OBVIOUS
      <4>. QED  BY <4>1, <4>2, Zenon DEF FillState
    <3>. QED  BY <2>2, <3>2, Zenon
  <2>4. n \in 1..Len(s) /\ n - 1 \in 0..Len(s) /\ n - 1 \notin T
    <3>. HIDE DEF T
    <3>. QED  BY <2>1, <2>2, <2>3
  <2>5. FillState(p, s, n - 1, g[n - 1])
    BY <2>4, Zenon
  <2>6. g[n] = FillOne(g[n - 1], s[n])
    BY <1>1, <2>4
  <2>. QED  BY <2>2, <2>4, <2>5, <2>6, FillStep, Zenon
<1>3. FillState(p, s, Len(s), Fill(p, s))
  BY <1>1, <1>2
<1>4. Fill(p, s).rest # <<>> => Full(Fill(p, s).pipe)
  BY <1>3 DEF FillState
<1>. QED  BY <1>3, <1>4, Zenon

\* piperead() after i turns of its copying loop: the pipe q.pipe that was p,
\* and the bytes q.got.
DrainState(p, i, q) ==
  /\ q.pipe \in PipeType /\ Used(q.pipe) <= Used(p) /\ q.got \in Seq(Bytes)
  /\ q.pipe.readopen = p.readopen /\ q.pipe.writeopen = p.writeopen /\ q.pipe.page = p.page
  /\ q.got \o Content(q.pipe) = Content(p)
  /\ Len(q.got) = i \/ Empty(q.pipe)

LEMMA DrainStep ==
  ASSUME NEW p \in PipeType, NEW i \in Nat, NEW q, DrainState(p, i, q)
  PROVE  DrainState(p, i + 1, DrainOne(q))
<1>. USE DEF DrainState
<1>1. CASE Empty(q.pipe)
  BY <1>1, Zenon DEF DrainOne
<1>2. CASE ~Empty(q.pipe)
  <2>1. PICK x : x = [q.pipe EXCEPT !.nread = Word(@ + 1)]
    BY Zenon
  <2>2. PICK b : b = q.pipe.data[q.pipe.nread % PIPESIZE]
    OBVIOUS
  <2>3. PICK y : y = DrainOne(q)
    OBVIOUS
  <2>4. y.pipe = x /\ y.got = Append(q.got, b)
    BY <1>2, <2>1, <2>2, <2>3, Zenon DEF DrainOne
  <2>5. Used(q.pipe) \in Nat /\ Used(q.pipe) > 0 /\ Used(p) \in Nat
    BY <1>2, FullIsUsed, ContentRight
  <2>6. /\ x \in PipeType /\ Used(x) = Used(q.pipe) - 1 /\ b \in Bytes
        /\ Content(q.pipe) = <<b>> \o Content(x)
        /\ x.readopen = p.readopen /\ x.writeopen = p.writeopen /\ x.page = p.page
    BY <2>1, <2>2, <2>5, GetTakes, Zenon
  <2>7. Used(x) <= Used(p)
    BY <2>5, <2>6
  <2>8. y.got \in Seq(Bytes) /\ Len(y.got) = Len(q.got) + 1
    BY <2>4, <2>6
  <2>9. y.got \o Content(x) = Content(p)
    <3>1. Content(x) \in Seq(Bytes) /\ <<b>> \in Seq(Bytes) /\ q.got \in Seq(Bytes)
      BY <2>6, ContentRight
    <3>2. y.got = q.got \o <<b>>
      BY <2>4, <2>6, AppendIs, Zenon
    <3>3. PICK a \in Seq(Bytes), t \in Seq(Bytes), c \in Seq(Bytes) :
            a = q.got /\ t = <<b>> /\ c = Content(x)
      BY <3>1, Zenon
    <3>4. (a \o t) \o c = a \o (t \o c)
      BY <3>1, Associative, SMTT(30)
    <3>. QED  BY <2>6, <3>2, <3>3, <3>4, Zenon
  <2>10. Len(q.got) = i
    BY <1>2, Zenon
  <2>11. DrainState(p, i + 1, y)
    BY <2>4, <2>6, <2>7, <2>8, <2>9, <2>10, Zenon
  <2>. QED  BY <2>3, <2>11, Zenon
<1>. QED  BY <1>1, <1>2, Zenon

LEMMA DrainDefined ==
  ASSUME NEW p, NEW k \in Nat
  PROVE  \E g : /\ \A i \in 0..k : g[i] = IF i = 0 THEN [pipe |-> p, got |-> <<>>]
                                          ELSE DrainOne(g[i - 1])
                /\ Drain(p, k) = g[k]
<1>. DEFINE Loop(n, g) == g = [i \in 0..n |-> IF i = 0 THEN [pipe |-> p, got |-> <<>>]
                                             ELSE DrainOne(g[i - 1])]
            T == {n \in Nat : ~\E g : Loop(n, g)}
<1>1. T = {}
  <2>. SUFFICES ASSUME T # {}  PROVE FALSE
    OBVIOUS
  <2>1. PICK n \in T : \A m \in T : n <= m
    <3>1. T \subseteq Nat
      OBVIOUS
    <3>. HIDE DEF T
    <3>. QED  BY <3>1, LeastNat, Zenon
  <2>2. n # 0
    <3>1. PICK g : g = [i \in 0..0 |-> [pipe |-> p, got |-> <<>>]]
      BY Zenon
    <3>2. \A i \in 0..0 : i = 0
      OBVIOUS
    <3>3. Loop(0, g)
      BY <3>1, <3>2, Zenon
    <3>. QED  BY <3>3, Zenon
  <2>3. n - 1 \in Nat /\ n - 1 \notin T
    <3>1. n \in Nat
      OBVIOUS
    <3>. HIDE DEF T
    <3>. QED  BY <2>1, <2>2, <3>1
  <2>4. PICK g : Loop(n - 1, g)
    BY <2>3, Zenon
  <2>5. PICK h : h = [i \in 0..n |-> IF i = n THEN DrainOne(g[n - 1]) ELSE g[i]]
    BY Zenon
  <2>6. \A i \in 0..n : h[i] = IF i = 0 THEN [pipe |-> p, got |-> <<>>] ELSE DrainOne(h[i - 1])
    <3>. SUFFICES ASSUME NEW i \in 0..n
                  PROVE  h[i] = IF i = 0 THEN [pipe |-> p, got |-> <<>>] ELSE DrainOne(h[i - 1])
      OBVIOUS
    <3>1. CASE i = n
      BY <2>2, <2>5, <3>1
    <3>2. CASE i # n /\ i = 0
      BY <2>3, <2>4, <2>5, <3>2
    <3>3. CASE i # n /\ i # 0
      <4>1. i \in 0..(n - 1) /\ i - 1 \in 0..n /\ i - 1 # n
        BY <3>3
      <4>2. g[i] = DrainOne(g[i - 1])
        BY <2>4, <3>3, <4>1, Zenon
      <4>. QED  BY <2>5, <3>3, <4>1, <4>2, Zenon
    <3>. QED  BY <3>1, <3>2, <3>3, Zenon
  <2>7. Loop(n, h)
    <3>1. h = [i \in 0..n |-> h[i]]
      BY <2>5, Zenon
    <3>. QED  BY <2>6, <3>1, Zenon
  <2>. QED  BY <2>7, Zenon
<1>2. \E g : Loop(k, g)
  BY <1>1, Zenon
<1>. DEFINE G == CHOOSE g : Loop(k, g)
<1>3. Loop(k, G)
  BY <1>2, Zenon
<1>4. Drain(p, k) = G[k]
  BY Zenon DEF Drain
<1>. HIDE DEF G
<1>5. \A i \in 0..k : G[i] = IF i = 0 THEN [pipe |-> p, got |-> <<>>] ELSE DrainOne(G[i - 1])
  BY <1>3, Zenon
<1>. QED  BY <1>4, <1>5, Zenon

\* The whole copying loop of piperead().
LEMMA DrainRight ==
  ASSUME NEW p \in PipeType, NEW k \in Nat
  PROVE  DrainState(p, k, Drain(p, k))
<1>1. PICK g : /\ \A i \in 0..k : g[i] = IF i = 0 THEN [pipe |-> p, got |-> <<>>]
                                         ELSE DrainOne(g[i - 1])
               /\ Drain(p, k) = g[k]
  BY DrainDefined, Zenon
<1>. DEFINE T == {i \in 0..k : ~DrainState(p, i, g[i])}
<1>2. T = {}
  <2>. SUFFICES ASSUME T # {}  PROVE FALSE
    OBVIOUS
  <2>1. PICK n \in T : \A m \in T : n <= m
    <3>1. T \subseteq Nat
      OBVIOUS
    <3>. HIDE DEF T
    <3>. QED  BY <3>1, LeastNat, Zenon
  <2>2. n \in 0..k /\ ~DrainState(p, n, g[n])
    OBVIOUS
  <2>3. n # 0
    <3>1. g[0] = [pipe |-> p, got |-> <<>>]
      BY <1>1
    <3>2. Content(p) \in Seq(Bytes) /\ Used(p) \in Nat
      BY ContentRight
    <3>3. <<>> \o Content(p) = Content(p) /\ <<>> \in Seq(Bytes) /\ Len(<<>>) = 0
      BY <3>2
    <3>4. DrainState(p, 0, g[0])
      BY <3>1, <3>2, <3>3, SMTT(30) DEF DrainState
    <3>. QED  BY <2>2, <3>4, Zenon
  <2>4. n - 1 \in Nat /\ n - 1 \in 0..k /\ n - 1 \notin T /\ n \in 0..k /\ (n - 1) + 1 = n
    <3>. HIDE DEF T
    <3>. QED  BY <2>1, <2>2, <2>3
  <2>5. DrainState(p, n - 1, g[n - 1])
    BY <2>4, Zenon
  <2>6. g[n] = DrainOne(g[n - 1])
    BY <1>1, <2>3, <2>4, Zenon
  <2>7. DrainState(p, (n - 1) + 1, g[n])
    BY <2>4, <2>5, <2>6, DrainStep, Zenon
  <2>. QED  BY <2>2, <2>4, <2>7, Zenon
<1>. QED  BY <1>1, <1>2
----------------------------------------------------------------------------
Closing(p) == pc[p] \in {"close", "exitclose"}

\* A process inside piperead() or pipewrite() has the file open, at the right
\* end, and something left to do.
LocalsRight ==
  \A p \in Procs :
    /\ pc[p] = "unused" => ~killed[p] /\ \A fd \in Fds : ofile[p][fd] = 0
    /\ Reading(p) \/ Writing(p) =>
         /\ \E fd \in Fds : ofile[p][fd] = loc[p].f
         /\ loc[p].f # 0 /\ ftable[loc[p].f].type = "PIPE"
         /\ ftable[loc[p].f].writable = Writing(p)
    /\ Reading(p) => loc[p].n # 0
    /\ Writing(p) => loc[p].todo # <<>>

\* A struct file has a type as soon as a descriptor points to it, and no
\* descriptor points to the one that pipealloc() holds.
FilesRight ==
  /\ \A f \in Files :
       /\ ftable[f].ref = 0 => ftable[f].type = "NONE"
       /\ ftable[f].type = "PIPE" <=> ftable[f].page # 0
       /\ ftable[f].type # "PIPE" => ~ftable[f].writable
  /\ \A p \in Procs, fd \in Fds : ofile[p][fd] # 0 => ftable[ofile[p][fd]].type # "NONE"
  /\ \A p \in Procs : pc[p] = "pipealloc" => loc[p].f # 0 /\ ftable[loc[p].f].ref = 1
                                                          /\ ftable[loc[p].f].type = "NONE"
  /\ \A p, q \in Procs : pc[p] = "pipealloc" /\ pc[q] = "pipealloc" /\ loc[p].f = loc[q].f => p = q

\* Who keeps the end w of the pipe in page k open: a struct file, or a process
\* that has closed the struct file and not yet the pipe.
FileEnd(f, k, w) == ftable[f].page = k /\ ftable[f].writable = w
ProcEnd(p, k, w) == Closing(p) /\ loc[p].page = k /\ loc[p].writable = w
IsOpen(pipe, w) == IF w THEN pipe.writeopen ELSE pipe.readopen

EndsRight ==
  \A k \in Pages :
    /\ pipes[k].page <=> pipes[k].readopen \/ pipes[k].writeopen
    /\ \A w \in BOOLEAN :
         /\ IsOpen(pipes[k], w) <=> \/ \E f \in Files : FileEnd(f, k, w)
                                    \/ \E p \in Procs : ProcEnd(p, k, w)
         /\ \A f, g \in Files : FileEnd(f, k, w) /\ FileEnd(g, k, w) => f = g
         /\ \A p, q \in Procs : ProcEnd(p, k, w) /\ ProcEnd(q, k, w) => p = q
         /\ \A f \in Files, p \in Procs : ~(FileEnd(f, k, w) /\ ProcEnd(p, k, w))

\* The counters of a pipe are at most PIPESIZE apart.
PipesRight == \A k \in Pages : Used(pipes[k]) <= PIPESIZE

\* Where kill() leaves a writer alone, the test before a sleep still holds
\* when the process sleeps.
SleepRight ==
  ~KillRaces =>
    \A p \in Procs :
      /\ Writing(p) => ~killed[p]
      /\ pc[p] \in {"rempty", "rsleep"} => Empty(ThisPipe(p)) /\ ThisPipe(p).writeopen
      /\ pc[p] \in {"wfull", "wsleep"} => Full(ThisPipe(p)) /\ ThisPipe(p).readopen

FileInv == /\ TypeOK /\ LocalsRight /\ FilesRight /\ EndsRight /\ RefExact /\ InodeHeld
           /\ PipesRight /\ SleepRight
----------------------------------------------------------------------------
\* Steps that open and close no descriptor: the struct files and their counts
\* stay right.
LEMMA FilesCalm ==
  ASSUME FileInv, UNCHANGED <<ftable, ofile>>,
         \A q \in Procs : /\ pc'[q] = "pipealloc" <=> pc[q] = "pipealloc"
                          /\ pc[q] = "pipealloc" => loc'[q] = loc[q]
  PROVE  FilesRight' /\ RefExact'
<1>1. FilesRight'
  BY DEF FileInv, FilesRight
<1>2. RefExact'
  <2>1. \A f : {p \in Procs : pc'[p] = "pipealloc" /\ loc'[p].f = f}
                 = {p \in Procs : pc[p] = "pipealloc" /\ loc[p].f = f}
    OBVIOUS
  <2>. QED  BY <2>1, Zenon DEF FileInv, RefExact
<1>. QED  BY <1>1, <1>2, Zenon

\* Steps that open and close nothing at all.
LEMMA CalmStep ==
  ASSUME FileInv, UNCHANGED <<ftable, ofile, iref>>,
         \A q \in Procs : /\ pc'[q] = "pipealloc" <=> pc[q] = "pipealloc"
                          /\ pc'[q] \in {"close", "exitclose"} <=> pc[q] \in {"close", "exitclose"}
                          /\ pc[q] \in {"pipealloc", "close", "exitclose"} => loc'[q] = loc[q],
         \A k \in Pages : /\ pipes'[k].readopen = pipes[k].readopen
                          /\ pipes'[k].writeopen = pipes[k].writeopen
                          /\ pipes'[k].page = pipes[k].page
  PROVE  FilesRight' /\ EndsRight' /\ RefExact' /\ InodeHeld'
<1>1. FilesRight' /\ RefExact'
  BY FilesCalm, Zenon
<1>2. EndsRight'
  BY SMTT(30) DEF FileInv, EndsRight, FileEnd, ProcEnd, Closing, IsOpen
<1>3. InodeHeld'
  <2>1. {p \in Procs : pc'[p] \in {"close", "exitclose"} /\ loc'[p].page = 0}
          = {p \in Procs : pc[p] \in {"close", "exitclose"} /\ loc[p].page = 0}
    OBVIOUS
  <2>. QED  BY <2>1, Zenon DEF FileInv, InodeHeld
<1>. QED  BY <1>1, <1>2, <1>3, Zenon

\* A process inside piperead() or pipewrite() keeps its end of the pipe open.
LEMMA UserOfPipe ==
  ASSUME FileInv, NEW p \in Procs, Reading(p) \/ Writing(p)
  PROVE  /\ loc[p].f \in Files /\ ftable[loc[p].f].page \in Pages
         /\ Reading(p) => ThisPipe(p).readopen
         /\ Writing(p) => ThisPipe(p).writeopen
<1>1. loc[p] \in LocType
  BY Zenon DEF FileInv, TypeOK
<1>2. loc[p].f \in Files /\ ftable[loc[p].f].type = "PIPE" /\ ftable[loc[p].f].writable = Writing(p)
  BY <1>1 DEF FileInv, LocalsRight, LocType, Files
<1>3. ftable[loc[p].f] \in FileType /\ ftable[loc[p].f].page # 0
  BY <1>2, Zenon DEF FileInv, TypeOK, FilesRight
<1>4. ftable[loc[p].f].page \in Pages
  BY <1>3 DEF FileType, Pages
<1>5. FileEnd(loc[p].f, ftable[loc[p].f].page, Writing(p))
  BY <1>2, Zenon DEF FileEnd
<1>6. Writing(p) \in BOOLEAN
  BY DEF Writing
<1>7. IsOpen(ThisPipe(p), Writing(p))
  BY <1>2, <1>4, <1>5, <1>6, Zenon DEF FileInv, EndsRight, ThisPipe
<1>8. Reading(p) => ~Writing(p)
  BY Zenon DEF Reading, Writing
<1>. QED  BY <1>2, <1>4, <1>7, <1>8, Zenon DEF IsOpen

LEMMA PipeWriteLoopStep ==
  ASSUME FileInv, NEW p \in Procs, NEW f \in Files, NEW todo \in Seq(Bytes), todo # <<>>,
         ftable[f].type = "PIPE", ftable[f].writable, NEW fd \in Fds, ofile[p][fd] = f,
         pc[p] \in {"user", "pipewrite"}, ~KillRaces => ~killed[p],
         PipeWriteLoop(p, f, todo), UNCHANGED <<ftable, ofile, killed, iref>>
  PROVE  FileInv'
<1>1. PICK k : k = ftable[f].page
  OBVIOUS
<1>2. k \in Pages
  BY <1>1 DEF FileInv, TypeOK, FilesRight, FileType, Pages
<1>3. PICK r : r = Fill(pipes[k], todo)
  BY SMTT(30)
<1>4. pipes[k] \in PipeType /\ Used(pipes[k]) <= PIPESIZE
  BY <1>2, Zenon DEF FileInv, TypeOK, PipesRight
<1>5. FillState(pipes[k], todo, Len(todo), r) /\ (r.rest # <<>> => Full(r.pipe))
  BY <1>3, <1>4, FillRight, Zenon
<1>6. /\ r.pipe \in PipeType /\ Used(r.pipe) <= PIPESIZE /\ r.rest \in Seq(Bytes)
      /\ r.pipe.readopen = pipes[k].readopen /\ r.pipe.writeopen = pipes[k].writeopen
      /\ r.pipe.page = pipes[k].page
      /\ Full(pipes[k]) => r.pipe = pipes[k] /\ r.rest = todo
  BY <1>5, Zenon DEF FillState
<1>7. Unlocked(k) /\ pipes' = [pipes EXCEPT ![k] = r.pipe]
  BY <1>1, <1>3, Zenon DEF PipeWriteLoop
<1>8. \/ /\ r.rest = <<>>
         /\ pc' = [WakeReaders(pc, k) EXCEPT ![p] = "user"]
         /\ loc' = [loc EXCEPT ![p] = NoLoc]
      \/ /\ r.rest # <<>> /\ (~r.pipe.readopen \/ killed[p])
         /\ pc' = [pc EXCEPT ![p] = "user"]
         /\ loc' = [loc EXCEPT ![p] = NoLoc]
      \/ /\ r.rest # <<>> /\ r.pipe.readopen /\ ~killed[p]
         /\ pc' = [WakeReaders(pc, k) EXCEPT ![p] = "wfull"]
         /\ loc' = [loc EXCEPT ![p].f = f, ![p].todo = r.rest]
  BY <1>1, <1>3, Zenon DEF PipeWriteLoop, Return
<1>9. /\ pc \in [Procs -> Labels] /\ loc \in [Procs -> LocType] /\ pipes \in [Pages -> PipeType]
      /\ loc[p] \in LocType
  BY Zenon DEF FileInv, TypeOK
<1>10. NoLoc \in LocType /\ NoLoc.f = 0
  BY FileAssumption DEF NoLoc, LocType
<1>11. \A q \in Procs : q # p =>
         /\ loc'[q] = loc[q]
         /\ \/ pc'[q] = pc[q]
            \/ pc[q] = "rsleep" /\ pc'[q] = "piperead"
  BY <1>8, <1>9, Zenon DEF WakeReaders
<1>12. PICK m : m = [loc[p] EXCEPT !.f = f, !.todo = r.rest]
  OBVIOUS
<1>13. m \in LocType /\ m.f = f /\ m.todo = r.rest
  <2>1. f \in 0..NFILE
    BY FileAssumption DEF Files
  <2>. QED  BY <1>6, <1>9, <1>12, <2>1, Zenon DEF LocType
<1>14. \/ pc'[p] = "user" /\ loc'[p] = NoLoc
       \/ pc'[p] = "wfull" /\ loc'[p] = m /\ r.rest # <<>> /\ r.pipe.readopen /\ ~killed[p]
  BY <1>8, <1>9, <1>12, Zenon DEF WakeReaders
<1>15. TypeOK'
  <2>1. pc' \in [Procs -> Labels]
    BY <1>8, <1>9, Zenon DEF WakeReaders, Labels
  <2>2. loc' \in [Procs -> LocType]
    <3>1. DOMAIN loc' = Procs /\ loc' = [q \in Procs |-> loc'[q]]
      BY <1>8, <1>9, Zenon
    <3>2. \A q \in Procs : loc'[q] \in LocType
      BY <1>9, <1>10, <1>11, <1>13, <1>14, SMTT(30)
    <3>. QED  BY <3>1, <3>2, Zenon
  <2>3. pipes' \in [Pages -> PipeType]
    BY <1>6, <1>7, <1>9, Zenon
  <2>. QED  BY <2>1, <2>2, <2>3, Zenon DEF FileInv, TypeOK
<1>16. LocalsRight'
  <2>. SUFFICES ASSUME NEW q \in Procs
                PROVE  /\ pc'[q] = "unused" => ~killed[q] /\ \A e \in Fds : ofile[q][e] = 0
                       /\ Reading(q)' \/ Writing(q)' =>
                            /\ \E e \in Fds : ofile[q][e] = loc'[q].f
                            /\ loc'[q].f # 0 /\ ftable[loc'[q].f].type = "PIPE"
                            /\ ftable[loc'[q].f].writable = Writing(q)'
                       /\ Reading(q)' => loc'[q].n # 0
                       /\ Writing(q)' => loc'[q].todo # <<>>
    BY Zenon DEF LocalsRight
  <2>1. CASE q = p /\ pc'[p] = "user"
    BY <2>1, Zenon DEF Reading, Writing
  <2>3. CASE q = p /\ pc'[p] = "wfull"
    <3>1. ~Reading(q)' /\ Writing(q)' /\ loc'[q].f = f /\ loc'[q].todo # <<>>
      BY <1>13, <1>14, <2>3 DEF Reading, Writing
    <3>2. ftable[f].writable = TRUE /\ Writing(q)' = TRUE
      BY <2>3, Zenon DEF FileInv, TypeOK, FileType, Writing
    <3>3. f # 0
      BY DEF Files
    <3>. QED  BY <2>3, <3>1, <3>2, <3>3, Zenon
  <2>2. CASE q # p
    BY <1>11, <2>2, SMTT(30) DEF Reading, Writing, FileInv, LocalsRight
  <2>. QED  BY <1>14, <2>1, <2>2, <2>3
<1>17. FilesRight' /\ EndsRight' /\ RefExact' /\ InodeHeld'
  <2>1. \A q \in Procs : /\ pc'[q] = "pipealloc" <=> pc[q] = "pipealloc"
                         /\ pc'[q] \in {"close", "exitclose"} <=> pc[q] \in {"close", "exitclose"}
                         /\ pc[q] \in {"pipealloc", "close", "exitclose"} => loc'[q] = loc[q]
    BY <1>11, <1>14, Zenon
  <2>2. \A j \in Pages : /\ pipes'[j].readopen = pipes[j].readopen
                         /\ pipes'[j].writeopen = pipes[j].writeopen
                         /\ pipes'[j].page = pipes[j].page
    BY <1>2, <1>6, <1>7, <1>9, Zenon
  <2>. QED  BY <2>1, <2>2, CalmStep, Zenon
<1>18. PipesRight'
  BY <1>6, <1>7, <1>9, Zenon DEF FileInv, PipesRight
<1>19. SleepRight'
  <2>. SUFFICES ASSUME ~KillRaces, NEW q \in Procs
                PROVE  /\ Writing(q)' => ~killed[q]
                       /\ pc'[q] \in {"rempty", "rsleep"} => Empty(ThisPipe(q)') /\ ThisPipe(q)'.writeopen
                       /\ pc'[q] \in {"wfull", "wsleep"} => Full(ThisPipe(q)') /\ ThisPipe(q)'.readopen
    BY Zenon DEF SleepRight
  <2>1. ThisPipe(q)' = pipes'[ftable[loc'[q].f].page]
    BY Zenon DEF ThisPipe
  <2>2. CASE q = p
    BY <1>1, <1>2, <1>5, <1>7, <1>9, <1>13, <1>14, <2>1, <2>2, Zenon DEF Writing
  <2>3. CASE q # p /\ pc'[q] \in {"rempty", "rsleep", "wfull", "wsleep"}
    <3>1. pc'[q] = pc[q] /\ loc'[q] = loc[q] /\ (Reading(q) \/ Writing(q))
      BY <1>11, <2>3, Zenon DEF Reading, Writing
    <3>2. PICK j \in Pages : j = ftable[loc[q].f].page
      BY <3>1, UserOfPipe, Zenon
    <3>3. CASE j # k
      BY <1>7, <1>9, <2>1, <2>3, <3>1, <3>2, <3>3, Zenon DEF FileInv, SleepRight, ThisPipe, Writing
    <3>4. CASE j = k /\ pc[q] \in {"rempty", "wfull"}
      BY <1>7, <3>2, <3>4, Zenon DEF Unlocked
    <3>5. CASE j = k /\ pc[q] = "rsleep"
      <4>1. r.pipe.readopen
        BY <1>6, <3>2, <3>5, UserOfPipe, Zenon DEF Reading, ThisPipe
      <4>2. loc[q].f # 0 /\ On(q, k)
        BY <3>1, <3>2, <3>5, Zenon DEF FileInv, LocalsRight, On
      <4>3. pc'[q] = "piperead"
        BY <1>8, <1>9, <2>3, <3>5, <4>1, <4>2, Zenon DEF WakeReaders
      <4>. QED  BY <3>1, <3>5, <4>3, Zenon
    <3>6. CASE j = k /\ pc[q] = "wsleep"
      <4>1. Full(pipes[k]) /\ pipes[k].readopen /\ ~killed[q]
        BY <3>2, <3>6, Zenon DEF FileInv, SleepRight, ThisPipe, Writing
      <4>2. ThisPipe(q)' = pipes[k]
        BY <1>2, <1>6, <1>7, <1>9, <2>1, <3>1, <3>2, <3>6, <4>1, Zenon
      <4>. QED  BY <3>1, <3>6, <4>1, <4>2, Zenon DEF Writing
    <3>. QED  BY <2>3, <3>1, <3>3, <3>4, <3>5, <3>6, Zenon
  <2>4. CASE q # p /\ pc'[q] \notin {"rempty", "rsleep", "wfull", "wsleep"}
    BY <1>11, <2>4, Zenon DEF FileInv, SleepRight, Writing
  <2>. QED  BY <2>2, <2>3, <2>4, Zenon
<1>. QED  BY <1>15, <1>16, <1>17, <1>18, <1>19, Zenon DEF FileInv

LEMMA PipeReadLoopStep ==
  ASSUME FileInv, NEW p \in Procs, NEW f \in Files, NEW n \in 1..MaxLen,
         ftable[f].type = "PIPE", ~ftable[f].writable, NEW fd \in Fds, ofile[p][fd] = f,
         pc[p] \in {"user", "piperead"},
         PipeReadLoop(p, f, n), UNCHANGED <<ftable, ofile, killed, iref>>
  PROVE  FileInv'
<1>1. PICK k : k = ftable[f].page
  OBVIOUS
<1>2. k \in Pages
  BY <1>1 DEF FileInv, TypeOK, FilesRight, FileType, Pages
<1>3. PICK r : r = Drain(pipes[k], n)
  OBVIOUS
<1>4. pipes[k] \in PipeType /\ Used(pipes[k]) <= PIPESIZE /\ n \in Nat
  BY <1>2 DEF FileInv, TypeOK, PipesRight
<1>5. DrainState(pipes[k], n, r)
  BY <1>3, <1>4, DrainRight, Zenon
<1>6. /\ r.pipe \in PipeType /\ Used(r.pipe) <= PIPESIZE
      /\ r.pipe.readopen = pipes[k].readopen /\ r.pipe.writeopen = pipes[k].writeopen
      /\ r.pipe.page = pipes[k].page
  <2>1. /\ r.pipe \in PipeType /\ Used(r.pipe) <= Used(pipes[k])
        /\ r.pipe.readopen = pipes[k].readopen /\ r.pipe.writeopen = pipes[k].writeopen
        /\ r.pipe.page = pipes[k].page
    BY <1>5, Zenon DEF DrainState
  <2>2. Used(r.pipe) \in Nat /\ Used(pipes[k]) \in Nat
    BY <1>4, <2>1, ContentRight
  <2>. QED  BY <1>4, <2>1, <2>2, Sizes
<1>7. Unlocked(k)
  BY <1>1, Zenon DEF PipeReadLoop
<1>8. \/ /\ pc' = [pc EXCEPT ![p] = "user"]
         /\ loc' = [loc EXCEPT ![p] = NoLoc]
         /\ pipes' = pipes
      \/ /\ MustWait(pipes[k]) /\ ~killed[p]
         /\ pc' = [pc EXCEPT ![p] = "rempty"]
         /\ loc' = [loc EXCEPT ![p].f = f, ![p].n = n]
         /\ pipes' = pipes
      \/ /\ ~MustWait(pipes[k])
         /\ pipes' = [pipes EXCEPT ![k] = r.pipe]
         /\ pc' = [WakeWriters(pc, k) EXCEPT ![p] = "user"]
         /\ loc' = [loc EXCEPT ![p] = NoLoc]
  <2>1. pipes[k] = pipes[ftable[f].page] /\ r = Drain(pipes[ftable[f].page], n)
    BY <1>1, <1>3, Zenon
  <2>. QED  BY <1>1, <2>1, Zenon DEF PipeReadLoop, Return
<1>9. /\ pc \in [Procs -> Labels] /\ loc \in [Procs -> LocType] /\ pipes \in [Pages -> PipeType]
      /\ loc[p] \in LocType
  BY Zenon DEF FileInv, TypeOK
<1>10. NoLoc \in LocType /\ NoLoc.f = 0
  BY FileAssumption DEF NoLoc, LocType
<1>11. \A q \in Procs : q # p =>
         /\ loc'[q] = loc[q]
         /\ \/ pc'[q] = pc[q]
            \/ pc[q] = "wsleep" /\ pc'[q] = "pipewrite"
  BY <1>8, <1>9, Zenon DEF WakeWriters
<1>12. PICK m : m = [loc[p] EXCEPT !.f = f, !.n = n]
  OBVIOUS
<1>13. m \in LocType /\ m.f = f /\ m.n = n
  <2>1. f \in 0..NFILE /\ n \in 0..MaxLen
    BY FileAssumption DEF Files
  <2>. QED  BY <1>9, <1>12, <2>1, Zenon DEF LocType
<1>14. \/ pc'[p] = "user" /\ loc'[p] = NoLoc
       \/ pc'[p] = "rempty" /\ loc'[p] = m /\ MustWait(pipes[k]) /\ pipes' = pipes
  BY <1>8, <1>9, <1>12, Zenon DEF WakeWriters
<1>15. pipes' = pipes \/ pipes' = [pipes EXCEPT ![k] = r.pipe]
  BY <1>8, Zenon
<1>16. TypeOK'
  <2>1. pc' \in [Procs -> Labels]
    BY <1>8, <1>9, Zenon DEF WakeWriters, Labels
  <2>2. loc' \in [Procs -> LocType]
    <3>1. DOMAIN loc' = Procs /\ loc' = [q \in Procs |-> loc'[q]]
      BY <1>8, <1>9, Zenon
    <3>2. \A q \in Procs : loc'[q] \in LocType
      BY <1>9, <1>10, <1>11, <1>13, <1>14, Zenon
    <3>. QED  BY <3>1, <3>2, Zenon
  <2>3. pipes' \in [Pages -> PipeType]
    BY <1>6, <1>15, <1>9, Zenon
  <2>. QED  BY <2>1, <2>2, <2>3, Zenon DEF FileInv, TypeOK
<1>17. LocalsRight'
  <2>. SUFFICES ASSUME NEW q \in Procs
                PROVE  /\ pc'[q] = "unused" => ~killed[q] /\ \A e \in Fds : ofile[q][e] = 0
                       /\ Reading(q)' \/ Writing(q)' =>
                            /\ \E e \in Fds : ofile[q][e] = loc'[q].f
                            /\ loc'[q].f # 0 /\ ftable[loc'[q].f].type = "PIPE"
                            /\ ftable[loc'[q].f].writable = Writing(q)'
                       /\ Reading(q)' => loc'[q].n # 0
                       /\ Writing(q)' => loc'[q].todo # <<>>
    BY Zenon DEF LocalsRight
  <2>1. CASE q = p /\ pc'[p] = "user"
    BY <2>1, Zenon DEF Reading, Writing
  <2>2. CASE q = p /\ pc'[p] = "rempty"
    <3>1. Reading(q)' /\ ~Writing(q)' /\ loc'[q].f = f /\ loc'[q].n # 0
      BY <1>13, <1>14, <2>2, SMTT(30) DEF Reading, Writing
    <3>2. ftable[f].writable = FALSE /\ Writing(q)' = FALSE
      BY <2>2 DEF FileInv, TypeOK, FileType, Writing
    <3>3. f # 0
      BY SMTT(30) DEF Files
    <3>. QED  BY <2>2, <3>1, <3>2, <3>3, Zenon
  <2>3. CASE q # p
    BY <1>11, <2>3, SMTT(30) DEF Reading, Writing, FileInv, LocalsRight
  <2>. QED  BY <1>14, <2>1, <2>2, <2>3, Zenon
<1>18. FilesRight' /\ EndsRight' /\ RefExact' /\ InodeHeld'
  <2>1. \A q \in Procs : /\ pc'[q] = "pipealloc" <=> pc[q] = "pipealloc"
                         /\ pc'[q] \in {"close", "exitclose"} <=> pc[q] \in {"close", "exitclose"}
                         /\ pc[q] \in {"pipealloc", "close", "exitclose"} => loc'[q] = loc[q]
    BY <1>11, <1>14, Zenon
  <2>2. \A j \in Pages : /\ pipes'[j].readopen = pipes[j].readopen
                         /\ pipes'[j].writeopen = pipes[j].writeopen
                         /\ pipes'[j].page = pipes[j].page
    BY <1>2, <1>6, <1>15, <1>9, Zenon
  <2>. QED  BY <2>1, <2>2, CalmStep, Zenon
<1>19. PipesRight'
  BY <1>6, <1>15, <1>9, Zenon DEF FileInv, PipesRight
<1>20. SleepRight'
  <2>. SUFFICES ASSUME ~KillRaces, NEW q \in Procs
                PROVE  /\ Writing(q)' => ~killed[q]
                       /\ pc'[q] \in {"rempty", "rsleep"} => Empty(ThisPipe(q)') /\ ThisPipe(q)'.writeopen
                       /\ pc'[q] \in {"wfull", "wsleep"} => Full(ThisPipe(q)') /\ ThisPipe(q)'.readopen
    BY Zenon DEF SleepRight
  <2>1. ThisPipe(q)' = pipes'[ftable[loc'[q].f].page]
    BY Zenon DEF ThisPipe
  <2>2. CASE q = p
    BY <1>1, <1>13, <1>14, <2>1, <2>2, Zenon DEF Writing, MustWait
  <2>3. CASE q # p /\ pc'[q] \in {"rempty", "rsleep", "wfull", "wsleep"}
    <3>1. pc'[q] = pc[q] /\ loc'[q] = loc[q] /\ (Reading(q) \/ Writing(q))
      BY <1>11, <2>3, Zenon DEF Reading, Writing
    <3>2. PICK j \in Pages : j = ftable[loc[q].f].page
      BY <3>1, UserOfPipe, Zenon
    <3>3. CASE j # k \/ pipes' = pipes
      BY <1>9, <1>15, <2>1, <2>3, <3>1, <3>2, <3>3, Zenon DEF FileInv, SleepRight, ThisPipe, Writing
    <3>4. CASE j = k /\ pc[q] \in {"rempty", "wfull"}
      BY <1>7, <3>2, <3>4, Zenon DEF Unlocked
    <3>5. CASE j = k /\ pc[q] = "rsleep" /\ ~MustWait(pipes[k])
      BY <3>2, <3>5, Zenon DEF FileInv, SleepRight, ThisPipe, MustWait
    <3>6. CASE j = k /\ pc[q] = "wsleep" /\ pc' = [WakeWriters(pc, k) EXCEPT ![p] = "user"]
      <4>1. loc[q].f # 0 /\ On(q, k)
        BY <3>1, <3>2, <3>6, Zenon DEF FileInv, LocalsRight, On
      <4>2. pc'[q] = "pipewrite"
        BY <1>9, <2>3, <3>6, <4>1, Zenon DEF WakeWriters
      <4>. QED  BY <3>1, <3>6, <4>2, Zenon
    <3>. QED  BY <1>8, <2>3, <3>1, <3>3, <3>4, <3>5, <3>6, Zenon
  <2>4. CASE q # p /\ pc'[q] \notin {"rempty", "rsleep", "wfull", "wsleep"}
    BY <1>11, <2>4, Zenon DEF FileInv, SleepRight, Writing
  <2>. QED  BY <2>2, <2>3, <2>4, Zenon
<1>. QED  BY <1>16, <1>17, <1>18, <1>19, <1>20, Zenon DEF FileInv

LEMMA SysWriteStep ==
  ASSUME FileInv, NEW p \in Procs, SysWrite(p) \/ WriteMore(p)
  PROVE  FileInv'
<1>1. CASE SysWrite(p)
  <2>1. PICK f \in Range(ofile[p]) \ {0}, s \in Payloads :
          ftable[f].type = "PIPE" /\ ftable[f].writable /\ PipeWriteLoop(p, f, s)
    BY <1>1, Zenon DEF SysWrite
  <2>2. PICK fd \in Fds : ofile[p][fd] = f
    BY Zenon DEF Range, FileInv, TypeOK
  <2>3. f \in Files /\ s \in Seq(Bytes) /\ s # <<>>
    BY <2>2, FileAssumption DEF FileInv, TypeOK, Files
  <2>. QED  BY <1>1, <2>1, <2>2, <2>3, PipeWriteLoopStep, Zenon DEF SysWrite, User
<1>2. CASE WriteMore(p)
  <2>1. pc[p] = "pipewrite" /\ Writing(p)
    BY <1>2, Zenon DEF WriteMore, Writing
  <2>2. /\ loc[p].f # 0 /\ ftable[loc[p].f].type = "PIPE" /\ loc[p].todo # <<>>
        /\ ftable[loc[p].f].writable = TRUE
    BY <2>1, Zenon DEF FileInv, LocalsRight, Writing
  <2>3. PICK fd \in Fds : ofile[p][fd] = loc[p].f
    BY <2>1, Zenon DEF FileInv, LocalsRight
  <2>4. loc[p].todo \in Seq(Bytes) /\ loc[p].f \in Files
    BY <2>1, UserOfPipe, Zenon DEF FileInv, TypeOK, LocType
  <2>5. ~KillRaces => ~killed[p]
    BY <2>1, Zenon DEF FileInv, SleepRight
  <2>. QED  BY <1>2, <2>1, <2>2, <2>3, <2>4, <2>5, PipeWriteLoopStep, Zenon DEF WriteMore
<1>. QED  BY <1>1, <1>2, Zenon

LEMMA SysReadStep ==
  ASSUME FileInv, NEW p \in Procs, SysRead(p) \/ ReadMore(p)
  PROVE  FileInv'
<1>1. CASE SysRead(p)
  <2>1. PICK f \in Range(ofile[p]) \ {0}, n \in 1..MaxLen :
          ftable[f].type = "PIPE" /\ ~ftable[f].writable /\ PipeReadLoop(p, f, n)
    BY <1>1, Zenon DEF SysRead
  <2>2. PICK fd \in Fds : ofile[p][fd] = f
    BY Zenon DEF Range, FileInv, TypeOK
  <2>3. f \in Files
    BY <2>2, FileAssumption DEF FileInv, TypeOK, Files
  <2>. QED  BY <1>1, <2>1, <2>2, <2>3, PipeReadLoopStep, Zenon DEF SysRead, User
<1>2. CASE ReadMore(p)
  <2>1. pc[p] = "piperead" /\ Reading(p) /\ ~Writing(p)
    BY <1>2, Zenon DEF ReadMore, Reading, Writing
  <2>2. /\ loc[p].f # 0 /\ ftable[loc[p].f].type = "PIPE" /\ loc[p].n # 0
        /\ ftable[loc[p].f].writable = FALSE
    <3>1. Writing(p) = FALSE
      BY <2>1 DEF Writing
    <3>. QED  BY <2>1, <3>1, Zenon DEF FileInv, LocalsRight
  <2>3. PICK fd \in Fds : ofile[p][fd] = loc[p].f
    BY <2>1, Zenon DEF FileInv, LocalsRight
  <2>4. loc[p].n \in 0..MaxLen /\ loc[p].f \in Files
    BY <2>1, UserOfPipe, Zenon DEF FileInv, TypeOK, LocType
  <2>5. loc[p].n \in 1..MaxLen
    BY <2>2, <2>4, FileAssumption
  <2>. QED  BY <1>2, <2>1, <2>2, <2>3, <2>4, <2>5, PipeReadLoopStep, Zenon DEF ReadMore
<1>. QED  BY <1>1, <1>2, Zenon

LEMMA SleepStep ==
  ASSUME FileInv, NEW p \in Procs, Sleep(p)
  PROVE  FileInv'
<1>1. /\ pc[p] \in {"wfull", "rempty"}
      /\ pc' = [pc EXCEPT ![p] = IF pc[p] = "wfull" THEN "wsleep" ELSE "rsleep"]
      /\ UNCHANGED <<ftable, pipes, ofile, loc, killed, iref>>
  BY Zenon DEF Sleep
<1>2. pc \in [Procs -> Labels]
  BY Zenon DEF FileInv, TypeOK
<1>3. \A q \in Procs : /\ q # p => pc'[q] = pc[q]
                       /\ pc[p] = "wfull" => pc'[p] = "wsleep"
                       /\ pc[p] = "rempty" => pc'[p] = "rsleep"
  BY <1>1, <1>2, Zenon
<1>4. TypeOK'
  BY <1>1, <1>2, Zenon DEF FileInv, TypeOK, Labels
<1>5. LocalsRight'
  BY <1>1, <1>3 DEF FileInv, LocalsRight, Reading, Writing
<1>6. FilesRight' /\ EndsRight' /\ RefExact' /\ InodeHeld'
  BY <1>1, <1>3, CalmStep, Zenon
<1>7. PipesRight' /\ SleepRight'
  BY <1>1, <1>3, Zenon DEF FileInv, PipesRight, SleepRight, ThisPipe, Writing
<1>. QED  BY <1>4, <1>5, <1>6, <1>7, Zenon DEF FileInv

LEMMA KillStep ==
  ASSUME FileInv, NEW p \in Procs, Kill(p)
  PROVE  FileInv'
<1>1. /\ pc[p] # "unused" /\ (pc[p] \in {"pipewrite", "wfull", "wsleep", "rempty"} => KillRaces)
      /\ killed' = [killed EXCEPT ![p] = TRUE]
      /\ UNCHANGED <<ftable, pipes, ofile, loc, iref>>
  BY Zenon DEF Kill
<1>2. pc \in [Procs -> Labels] /\ killed \in [Procs -> BOOLEAN]
  BY Zenon DEF FileInv, TypeOK
<1>3. \A q \in Procs : /\ q # p => pc'[q] = pc[q] /\ killed'[q] = killed[q]
                       /\ \/ pc'[q] = pc[q]
                          \/ pc[q] = "wsleep" /\ pc'[q] = "pipewrite"
                          \/ pc[q] = "rsleep" /\ pc'[q] = "piperead"
  BY <1>1, <1>2, Zenon DEF Kill
<1>4. TypeOK'
  <2>1. pc' \in [Procs -> Labels]
    BY <1>2, Zenon DEF Kill, Labels
  <2>. QED  BY <1>1, <1>2, <2>1, Zenon DEF FileInv, TypeOK
<1>5. LocalsRight'
  <2>. SUFFICES ASSUME NEW q \in Procs
                PROVE  /\ pc'[q] = "unused" => ~killed'[q] /\ \A e \in Fds : ofile[q][e] = 0
                       /\ Reading(q)' \/ Writing(q)' =>
                            /\ \E e \in Fds : ofile[q][e] = loc[q].f
                            /\ loc[q].f # 0 /\ ftable[loc[q].f].type = "PIPE"
                            /\ ftable[loc[q].f].writable = Writing(q)'
                       /\ Reading(q)' => loc[q].n # 0
                       /\ Writing(q)' => loc[q].todo # <<>>
    BY <1>1, Zenon DEF LocalsRight
  <2>1. Reading(q)' = Reading(q) /\ Writing(q)' = Writing(q)
    BY <1>3 DEF Reading, Writing
  <2>2. pc'[q] = "unused" => q # p /\ pc[q] = "unused" /\ killed'[q] = killed[q]
    BY <1>1, <1>3, Zenon
  <2>. QED  BY <2>1, <2>2, Zenon DEF FileInv, LocalsRight
<1>6. FilesRight' /\ EndsRight' /\ RefExact' /\ InodeHeld'
  BY <1>1, <1>3, CalmStep, Zenon
<1>7. PipesRight' /\ SleepRight'
  BY <1>1, <1>3, Zenon DEF FileInv, PipesRight, SleepRight, ThisPipe, Writing
<1>. QED  BY <1>4, <1>5, <1>6, <1>7, Zenon DEF FileInv

\* What pipeclose() makes of a pipe.
LEMMA ClosedEndRight ==
  ASSUME NEW pipe \in PipeType, NEW w \in BOOLEAN, NEW x, x = ClosedEnd(pipe, w),
         Used(pipe) <= PIPESIZE, pipe.page
  PROVE  /\ x \in PipeType /\ Used(x) <= PIPESIZE
         /\ x.page <=> x.readopen \/ x.writeopen
         /\ w => ~x.writeopen /\ x.readopen = pipe.readopen
         /\ ~w => ~x.readopen /\ x.writeopen = pipe.writeopen
         /\ x.readopen \/ x.writeopen => (Full(x) <=> Full(pipe)) /\ (Empty(x) <=> Empty(pipe))
<1>1. PICK c : c = IF w THEN [pipe EXCEPT !.writeopen = FALSE] ELSE [pipe EXCEPT !.readopen = FALSE]
  BY Zenon
<1>2. x = IF c.readopen \/ c.writeopen THEN c ELSE NoPipe
  BY <1>1, Zenon DEF ClosedEnd
<1>3. /\ c \in PipeType /\ c.nread = pipe.nread /\ c.nwrite = pipe.nwrite /\ c.page = pipe.page
      /\ w => ~c.writeopen /\ c.readopen = pipe.readopen
      /\ ~w => ~c.readopen /\ c.writeopen = pipe.writeopen
  BY <1>1, Zenon DEF PipeType
<1>4. CASE c.readopen \/ c.writeopen
  BY <1>2, <1>3, <1>4, Zenon DEF Used, Full, Empty
<1>5. CASE ~(c.readopen \/ c.writeopen)
  <2>1. x = NoPipe
    BY <1>2, <1>5, Zenon
  <2>2. pipe.readopen \in BOOLEAN /\ pipe.writeopen \in BOOLEAN /\ x.readopen \in BOOLEAN /\ x.writeopen \in BOOLEAN
    BY <2>1, NoPipeRight, Zenon DEF PipeType
  <2>3. 0 <= PIPESIZE
    BY Sizes
  <2>. QED  BY <1>3, <1>5, <2>1, <2>2, <2>3, NoPipeRight, Zenon
<1>. QED  BY <1>4, <1>5, Zenon

LEMMA PipeCloseStep ==
  ASSUME FileInv, NEW p \in Procs, PipeClose(p)
  PROVE  FileInv'
<1>1. /\ pc[p] \in {"close", "exitclose"} /\ loc[p].page # 0
      /\ UNCHANGED <<ftable, ofile, killed, iref>> /\ loc' = [loc EXCEPT ![p] = NoLoc]
  BY Zenon DEF PipeClose
<1>2. /\ pc \in [Procs -> Labels] /\ loc \in [Procs -> LocType] /\ pipes \in [Pages -> PipeType]
      /\ loc[p] \in LocType
  BY Zenon DEF FileInv, TypeOK
<1>3. PICK k \in Pages, w \in BOOLEAN : k = loc[p].page /\ w = loc[p].writable
  BY <1>1, <1>2 DEF LocType, Pages
<1>4. ProcEnd(p, k, w)
  BY <1>1, <1>3, Zenon DEF ProcEnd, Closing
<1>5. IsOpen(pipes[k], w) /\ pipes[k].page
  BY <1>3, <1>4, Zenon DEF FileInv, EndsRight, IsOpen
<1>6. PICK x : x = ClosedEnd(pipes[k], w)
  OBVIOUS
<1>7. /\ x \in PipeType /\ Used(x) <= PIPESIZE
      /\ x.page <=> x.readopen \/ x.writeopen
      /\ w => ~x.writeopen /\ x.readopen = pipes[k].readopen
      /\ ~w => ~x.readopen /\ x.writeopen = pipes[k].writeopen
      /\ x.readopen \/ x.writeopen => (Full(x) <=> Full(pipes[k])) /\ (Empty(x) <=> Empty(pipes[k]))
  BY <1>2, <1>5, <1>6, ClosedEndRight, Zenon DEF FileInv, PipesRight
<1>8. Unlocked(k) /\ pipes' = [pipes EXCEPT ![k] = x]
  BY <1>2, <1>3, <1>6, Zenon DEF PipeClose
<1>9. pc' = [PipeCloseWakes(w, pc, k) EXCEPT ![p] = IF pc[p] = "close" THEN "user" ELSE "exit"]
  BY <1>3, Zenon DEF PipeClose
<1>10. NoLoc \in LocType
  BY FileAssumption DEF NoLoc, LocType
<1>11. \A q \in Procs : q # p =>
         /\ loc'[q] = loc[q]
         /\ \/ pc'[q] = pc[q]
            \/ pc[q] = "rsleep" /\ pc'[q] = "piperead"
            \/ pc[q] = "wsleep" /\ pc'[q] = "pipewrite"
  BY <1>1, <1>2, <1>9, Zenon DEF PipeCloseWakes, WakeReaders, WakeWriters
<1>12. pc'[p] \in {"user", "exit"}
  BY <1>1, <1>2, <1>9, Zenon DEF PipeCloseWakes, WakeReaders, WakeWriters
<1>13. TypeOK'
  <2>1. pc' \in [Procs -> Labels]
    BY <1>2, <1>9, Zenon DEF PipeCloseWakes, WakeReaders, WakeWriters, Labels
  <2>2. loc' \in [Procs -> LocType]
    BY <1>1, <1>2, <1>10, Zenon
  <2>3. pipes' \in [Pages -> PipeType]
    BY <1>2, <1>7, <1>8, Zenon
  <2>. QED  BY <1>1, <2>1, <2>2, <2>3, Zenon DEF FileInv, TypeOK
<1>14. LocalsRight'
  <2>. SUFFICES ASSUME NEW q \in Procs
                PROVE  /\ pc'[q] = "unused" => ~killed[q] /\ \A e \in Fds : ofile[q][e] = 0
                       /\ Reading(q)' \/ Writing(q)' =>
                            /\ \E e \in Fds : ofile[q][e] = loc'[q].f
                            /\ loc'[q].f # 0 /\ ftable[loc'[q].f].type = "PIPE"
                            /\ ftable[loc'[q].f].writable = Writing(q)'
                       /\ Reading(q)' => loc'[q].n # 0
                       /\ Writing(q)' => loc'[q].todo # <<>>
    BY <1>1, Zenon DEF LocalsRight
  <2>1. CASE q = p
    BY <1>12, <2>1, Zenon DEF Reading, Writing
  <2>2. CASE q # p
    BY <1>11, <2>2, SMTT(30) DEF Reading, Writing, FileInv, LocalsRight
  <2>. QED  BY <2>1, <2>2, Zenon
<1>15. FilesRight' /\ RefExact'
  <2>1. \A q \in Procs : /\ pc'[q] = "pipealloc" <=> pc[q] = "pipealloc"
                         /\ pc[q] = "pipealloc" => loc'[q] = loc[q]
    BY <1>1, <1>11, <1>12, Zenon
  <2>. QED  BY <1>1, <2>1, FilesCalm, Zenon
<1>16. EndsRight'
  <2>. SUFFICES ASSUME NEW j \in Pages
                PROVE  /\ pipes'[j].page <=> pipes'[j].readopen \/ pipes'[j].writeopen
                       /\ \A v \in BOOLEAN :
                            /\ IsOpen(pipes'[j], v) <=> \/ \E f \in Files : FileEnd(f, j, v)'
                                                        \/ \E q \in Procs : ProcEnd(q, j, v)'
                            /\ \A f, g \in Files : FileEnd(f, j, v)' /\ FileEnd(g, j, v)' => f = g
                            /\ \A q, r \in Procs : ProcEnd(q, j, v)' /\ ProcEnd(r, j, v)' => q = r
                            /\ \A f \in Files, q \in Procs : ~(FileEnd(f, j, v)' /\ ProcEnd(q, j, v)')
    BY Zenon DEF EndsRight
  <2>1. pipes'[j].page <=> pipes'[j].readopen \/ pipes'[j].writeopen
    BY <1>2, <1>7, <1>8, Zenon DEF FileInv, EndsRight
  <2>2. ASSUME NEW v \in BOOLEAN
        PROVE  /\ IsOpen(pipes'[j], v) <=> \/ \E f \in Files : FileEnd(f, j, v)'
                                           \/ \E q \in Procs : ProcEnd(q, j, v)'
               /\ \A f, g \in Files : FileEnd(f, j, v)' /\ FileEnd(g, j, v)' => f = g
               /\ \A q, r \in Procs : ProcEnd(q, j, v)' /\ ProcEnd(r, j, v)' => q = r
               /\ \A f \in Files, q \in Procs : ~(FileEnd(f, j, v)' /\ ProcEnd(q, j, v)')
    <3>1. \A f \in Files : FileEnd(f, j, v)' <=> FileEnd(f, j, v)
      BY <1>1, Zenon DEF FileEnd
    <3>2. \A q \in Procs : ProcEnd(q, j, v)' <=> ProcEnd(q, j, v) /\ q # p
      BY <1>11, <1>12, Zenon DEF ProcEnd, Closing
    <3>3. ProcEnd(p, j, v) <=> j = k /\ v = w
      BY <1>1, <1>3, Zenon DEF ProcEnd, Closing
    <3>4. IsOpen(pipes'[j], v) <=> IsOpen(pipes[j], v) /\ ~(j = k /\ v = w)
      BY <1>2, <1>5, <1>7, <1>8, Zenon DEF IsOpen
    <3>5. /\ IsOpen(pipes[j], v) <=> \/ \E f \in Files : FileEnd(f, j, v)
                                     \/ \E q \in Procs : ProcEnd(q, j, v)
          /\ \A f, g \in Files : FileEnd(f, j, v) /\ FileEnd(g, j, v) => f = g
          /\ \A q, r \in Procs : ProcEnd(q, j, v) /\ ProcEnd(r, j, v) => q = r
          /\ \A f \in Files, q \in Procs : ~(FileEnd(f, j, v) /\ ProcEnd(q, j, v))
      BY Zenon DEF FileInv, EndsRight
    <3>. QED  BY <3>1, <3>2, <3>3, <3>4, <3>5, Zenon
  <2>. QED  BY <2>1, <2>2, Zenon
<1>17. InodeHeld'
  <2>1. {q \in Procs : pc'[q] \in {"close", "exitclose"} /\ loc'[q].page = 0}
          = {q \in Procs : pc[q] \in {"close", "exitclose"} /\ loc[q].page = 0}
    BY <1>1, <1>11, <1>12
  <2>. QED  BY <1>1, <2>1, Zenon DEF FileInv, InodeHeld
<1>18. PipesRight'
  BY <1>2, <1>7, <1>8, Zenon DEF FileInv, PipesRight
<1>19. SleepRight'
  <2>. SUFFICES ASSUME ~KillRaces, NEW q \in Procs
                PROVE  /\ Writing(q)' => ~killed[q]
                       /\ pc'[q] \in {"rempty", "rsleep"} => Empty(ThisPipe(q)') /\ ThisPipe(q)'.writeopen
                       /\ pc'[q] \in {"wfull", "wsleep"} => Full(ThisPipe(q)') /\ ThisPipe(q)'.readopen
    BY <1>1, Zenon DEF SleepRight
  <2>1. ThisPipe(q)' = pipes'[ftable[loc'[q].f].page]
    BY <1>1, Zenon DEF ThisPipe
  <2>2. CASE q = p
    BY <1>12, <2>2, Zenon DEF Writing
  <2>3. CASE q # p /\ pc'[q] \in {"rempty", "rsleep", "wfull", "wsleep"}
    <3>1. pc'[q] = pc[q] /\ loc'[q] = loc[q] /\ (Reading(q) \/ Writing(q))
      BY <1>11, <2>3, Zenon DEF Reading, Writing
    <3>2. PICK j \in Pages : j = ftable[loc[q].f].page
      BY <3>1, UserOfPipe, Zenon
    <3>3. CASE j # k
      BY <1>2, <1>8, <2>1, <2>3, <3>1, <3>2, <3>3, Zenon DEF FileInv, SleepRight, ThisPipe, Writing
    <3>4. CASE j = k /\ pc[q] \in {"rempty", "wfull"}
      BY <1>8, <3>2, <3>4, Zenon DEF Unlocked
    <3>5. loc[q].f # 0 /\ (j = k => On(q, k))
      BY <3>1, <3>2, Zenon DEF FileInv, LocalsRight, On
    <3>6. CASE j = k /\ pc[q] = "rsleep"
      <4>1. CASE w
        BY <1>2, <1>9, <2>3, <3>1, <3>5, <3>6, <4>1, Zenon DEF PipeCloseWakes, WakeReaders
      <4>2. CASE ~w
        <5>1. Empty(pipes[k]) /\ pipes[k].writeopen
          BY <3>2, <3>6, Zenon DEF FileInv, SleepRight, ThisPipe
        <5>2. Empty(x) /\ x.writeopen
          BY <1>7, <4>2, <5>1, Zenon
        <5>. QED  BY <1>2, <1>8, <2>1, <3>1, <3>2, <3>6, <5>2, Zenon DEF Writing
      <4>. QED  BY <4>1, <4>2, Zenon
    <3>7. CASE j = k /\ pc[q] = "wsleep"
      <4>1. CASE ~w
        BY <1>2, <1>9, <2>3, <3>1, <3>5, <3>7, <4>1, Zenon DEF PipeCloseWakes, WakeWriters
      <4>2. CASE w
        <5>1. Full(pipes[k]) /\ pipes[k].readopen /\ ~killed[q]
          BY <3>2, <3>7, Zenon DEF FileInv, SleepRight, ThisPipe, Writing
        <5>2. Full(x) /\ x.readopen
          BY <1>7, <4>2, <5>1, Zenon
        <5>. QED  BY <1>2, <1>8, <2>1, <3>1, <3>2, <3>7, <5>1, <5>2, Zenon DEF Writing
      <4>. QED  BY <4>1, <4>2, Zenon
    <3>. QED  BY <2>3, <3>1, <3>3, <3>4, <3>6, <3>7, Zenon
  <2>4. CASE q # p /\ pc'[q] \notin {"rempty", "rsleep", "wfull", "wsleep"}
    BY <1>11, <2>4, Zenon DEF FileInv, SleepRight, Writing
  <2>. QED  BY <2>2, <2>3, <2>4, Zenon
<1>. QED  BY <1>13, <1>14, <1>15, <1>16, <1>17, <1>18, <1>19, Zenon DEF FileInv
============================================================================
