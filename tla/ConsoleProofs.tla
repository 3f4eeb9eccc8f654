--------------------------- MODULE ConsoleProofs ----------------------------
(***************************************************************************)
(* Proofs about Console for any number of readers, any ring and any word   *)
(* that the ring divides: what is typed gets through, and end of file is   *)
(* read alone.                                                             *)
(***************************************************************************)
EXTENDS Console, Counting, TLAPS

Chars == {"x", "newline", "^D"}
InputType == [buf : [0..(INPUT_BUF - 1) -> Chars], r : 0..(CWORD - 1), w : 0..(CWORD - 1), e : 0..(CWORD - 1)]
ReaderType == [asleep : BOOLEAN, n : Nat, target : Nat]

\* The sequence s lies in the ring from index a on.
At(buf, a, s) == \A i \in 1..Len(s) : s[i] = buf[Slot(a + i - 1)]

\* The ring and its indices as what was typed: the finished lines from r on,
\* behind them the line being edited, together at most the whole ring, and the
\* whole ring only as finished lines.
ConsoleInv ==
  /\ input \in InputType /\ lines \in Seq(Chars) /\ edit \in Seq({"x"})
  /\ reader \in [Readers -> ReaderType]
  /\ Len(lines) + Len(edit) <= INPUT_BUF
  /\ Len(lines) + Len(edit) = INPUT_BUF => edit = <<>>
  /\ input.w = CWord(input.r + Len(lines))
  /\ input.e = CWord(input.r + Len(lines) + Len(edit))
  /\ At(input.buf, input.r, lines)
  /\ At(input.buf, input.r + Len(lines), edit)
  /\ \A p \in Readers : /\ reader[p].asleep => lines = <<>>
                        /\ reader[p].n <= reader[p].target
                        /\ reader[p] # NotReading => reader[p].n # 0
----------------------------------------------------------------------------
LEMMA Sizes ==
  /\ INPUT_BUF \in Nat \ {0} /\ CWORD \in Nat \ {0} /\ INPUT_BUF < CWORD /\ CWORD % INPUT_BUF = 0
BY ConsoleAssumption

\* Indices may be taken as words before or after they are added to.
LEMMA Words ==
  /\ \A a \in Int : CWord(a) \in 0..(CWORD - 1) /\ Slot(a) \in 0..(INPUT_BUF - 1)
  /\ \A a \in 0..(CWORD - 1) : CWord(a) = a
  /\ \A a, b \in Int : CWord(CWord(a) + b) = CWord(a + b) /\ CWord(a - CWord(b)) = CWord(a - b)
  /\ \A a, b \in Int : Slot(CWord(a) + b) = Slot(a + b)
<1>1. \A a \in Int : CWord(a) \in 0..(CWORD - 1) /\ Slot(a) \in 0..(INPUT_BUF - 1)
  BY Sizes, ModRange, Zenon DEF CWord, Slot
<1>2. \A a \in 0..(CWORD - 1) : CWord(a) = a
  BY Sizes, ModSmall, Zenon DEF CWord
<1>3. \A a, b \in Int : CWord(CWord(a) + b) = CWord(a + b) /\ CWord(a - CWord(b)) = CWord(a - b)
  BY Sizes, ModAdd, ModSub, Zenon DEF CWord
<1>4. ASSUME NEW a \in Int, NEW b \in Int
      PROVE  Slot(CWord(a) + b) = Slot(a + b)
  <2>1. PICK c \in Int : c = a % CWORD
    BY Sizes, ModRange
  <2>2. c % INPUT_BUF = a % INPUT_BUF
    BY <2>1, Sizes, ModMod, Zenon
  <2>3. ((c % INPUT_BUF) + b) % INPUT_BUF = (c + b) % INPUT_BUF
    BY Sizes, ModAdd, Zenon
  <2>4. ((a % INPUT_BUF) + b) % INPUT_BUF = (a + b) % INPUT_BUF
    BY Sizes, ModAdd, Zenon
  <2>. QED  BY <2>1, <2>2, <2>3, <2>4, Zenon DEF CWord, Slot
<1>. QED  BY <1>1, <1>2, <1>3, <1>4, Zenon

LEMMA WordInt ==
  \A a \in Int : CWord(a) \in Int
<1>1. \A d \in 0..(CWORD - 1) : d \in Int
  OBVIOUS
<1>. QED  BY <1>1, Words, Zenon

LEMMA SlotsDiffer ==
  ASSUME NEW a \in Int, NEW b \in Int, a < b, b - a < INPUT_BUF
  PROVE  Slot(a) # Slot(b)
BY Sizes, ModDistinct, Zenon DEF Slot

\* The distance of two words that are n apart.
LEMMA Apart ==
  ASSUME NEW a \in Int, NEW n \in 0..(CWORD - 1)
  PROVE  CWord(CWord(a + n) - CWord(a)) = n
<1>. PICK d \in 0..(CWORD - 1) : d = CWord(a)
  BY Words, Zenon
<1>1. PICK x \in Int, y \in Int : x = a + n /\ y = 0 - d
  OBVIOUS
<1>2. CWord(CWord(x) + y) = CWord(x + y)
  BY Words, Zenon
<1>3. CWord(x - CWord(a)) = CWord(x - a)
  BY Words, Zenon
<1>4. CWord(x) + y = CWord(a + n) - CWord(a) /\ x + y = x - CWord(a) /\ x - a = n
  <2>1. CWord(x) \in 0..(CWORD - 1)
    BY Words, Zenon
  <2>. QED  BY <1>1, <2>1, Sizes
<1>. QED  BY <1>2, <1>3, <1>4, Words, Zenon

\* RingPart() of two words returns what lies between them.
LEMMA RingIs ==
  ASSUME NEW a \in Int, NEW s \in Seq(Chars), Len(s) < CWORD, At(input.buf, a, s)
  PROVE  RingPart(CWord(a), CWord(a + Len(s))) = s
<1>1. Len(s) \in 0..(CWORD - 1)
  BY Sizes
<1>2. CWord(CWord(a + Len(s)) - CWord(a)) = Len(s)
  BY <1>1, Apart, Zenon
<1>3. \A i \in 1..Len(s) : Slot(CWord(a) + i - 1) = Slot(a + i - 1)
  <2>. SUFFICES ASSUME NEW i \in 1..Len(s)  PROVE Slot(CWord(a) + i - 1) = Slot(a + i - 1)
    OBVIOUS
  <2>1. PICK b \in Int : b = i - 1
    OBVIOUS
  <2>2. CWord(a) + b = CWord(a) + i - 1 /\ a + b = a + i - 1
    BY <2>1, Words, Zenon
  <2>. QED  BY <2>2, Words
<1>4. RingPart(CWord(a), CWord(a + Len(s))) = [i \in 1..Len(s) |-> s[i]]
  BY <1>2, <1>3, Zenon DEF RingPart, At
<1>. QED  BY <1>4

LEMMA AtWord ==
  ASSUME NEW buf, NEW a \in Int, NEW b \in Int, NEW s \in Seq(Chars), At(buf, a + b, s)
  PROVE  At(buf, CWord(a) + b, s)
<1>. SUFFICES ASSUME NEW i \in 1..Len(s)
              PROVE  Slot(CWord(a) + b + i - 1) = Slot(a + b + i - 1)
  BY Zenon DEF At
<1>1. PICK c \in Int : c = b + i - 1
  OBVIOUS
<1>2. CWord(a) + c = CWord(a) + b + i - 1 /\ a + c = a + b + i - 1
  <2>1. CWord(a) \in Int
    BY WordInt, Zenon
  <2>. QED  BY <1>1, <2>1
<1>. QED  BY <1>2, Words, ZenonT(40)

\* A character behind s does not touch it.
LEMMA AtKept ==
  ASSUME NEW buf \in [0..(INPUT_BUF - 1) -> Chars], NEW a \in Int, NEW s \in Seq(Chars), At(buf, a, s),
         NEW k \in Int, a + Len(s) <= k, k < a + INPUT_BUF, NEW c \in Chars
  PROVE  At([buf EXCEPT ![Slot(k)] = c], a, s)
<1>. SUFFICES ASSUME NEW i \in 1..Len(s)
              PROVE  Slot(a + i - 1) # Slot(k) /\ Slot(a + i - 1) \in 0..(INPUT_BUF - 1)
  BY Zenon DEF At
<1>1. PICK x \in Int : x = a + i - 1 /\ x < k /\ k - x < INPUT_BUF
  BY Sizes
<1>. QED  BY <1>1, SlotsDiffer, Words, Zenon

LEMMA AtAppend ==
  ASSUME NEW buf \in [0..(INPUT_BUF - 1) -> Chars], NEW a \in Int, NEW s \in Seq(Chars), At(buf, a, s),
         Len(s) < INPUT_BUF, NEW c \in Chars
  PROVE  At([buf EXCEPT ![Slot(a + Len(s))] = c], a, Append(s, c))
<1>1. At([buf EXCEPT ![Slot(a + Len(s))] = c], a, s)
  <2>1. PICK k \in Int : k = a + Len(s)
    OBVIOUS
  <2>2. a + Len(s) <= k /\ k < a + INPUT_BUF
    BY <2>1, Sizes
  <2>. QED  BY <2>1, <2>2, AtKept, Zenon
<1>2. Slot(a + Len(s)) \in 0..(INPUT_BUF - 1)
  BY Words
<1>3. a + (Len(s) + 1) - 1 = a + Len(s)
  OBVIOUS
<1>4. /\ Len(Append(s, c)) = Len(s) + 1 /\ Append(s, c)[Len(s) + 1] = c
      /\ \A i \in 1..Len(s) : Append(s, c)[i] = s[i]
  OBVIOUS
<1>5. \A i \in 1..(Len(s) + 1) : i \in 1..Len(s) \/ i = Len(s) + 1
  OBVIOUS
<1>. QED  BY <1>1, <1>2, <1>3, <1>4, <1>5, Zenon DEF At

LEMMA AtConcat ==
  ASSUME NEW buf, NEW a \in Int, NEW s \in Seq(Chars), NEW t \in Seq(Chars), At(buf, a, s),
         At(buf, a + Len(s), t)
  PROVE  At(buf, a, s \o t)
<1>. SUFFICES ASSUME NEW i \in 1..Len(s \o t)  PROVE (s \o t)[i] = buf[Slot(a + i - 1)]
  BY Zenon DEF At
<1>1. CASE i \in 1..Len(s)
  BY <1>1 DEF At
<1>2. CASE i \notin 1..Len(s)
  <2>1. PICK j \in 1..Len(t) : j = i - Len(s) /\ (s \o t)[i] = t[j]
    BY <1>2
  <2>2. (a + Len(s)) + j - 1 = a + i - 1
    BY <2>1
  <2>. QED  BY <2>1, <2>2, Zenon DEF At
<1>. QED  BY <1>1, <1>2, Zenon

\* A part of what lies in the ring lies in the ring.
LEMMA AtPart ==
  ASSUME NEW buf, NEW a \in Int, NEW s \in Seq(Chars), At(buf, a, s), NEW k \in 0..Len(s)
  PROVE  /\ SubSeq(s, 1, k) \in Seq(Chars) /\ Len(SubSeq(s, 1, k)) = k
         /\ At(buf, a, SubSeq(s, 1, k))
         /\ SubSeq(s, k + 1, Len(s)) \in Seq(Chars) /\ Len(SubSeq(s, k + 1, Len(s))) = Len(s) - k
         /\ At(buf, a + k, SubSeq(s, k + 1, Len(s)))
<1>1. /\ Len(SubSeq(s, 1, k)) = k /\ \A i \in 1..k : SubSeq(s, 1, k)[i] = s[i]
      /\ SubSeq(s, 1, k) \in Seq(Chars)
  OBVIOUS
<1>2. /\ SubSeq(s, k + 1, Len(s)) \in Seq(Chars) /\ Len(SubSeq(s, k + 1, Len(s))) = Len(s) - k
      /\ \A i \in 1..(Len(s) - k) : SubSeq(s, k + 1, Len(s))[i] = s[k + i]
  OBVIOUS
<1>3. At(buf, a, SubSeq(s, 1, k))
  BY <1>1 DEF At
<1>4. At(buf, a + k, SubSeq(s, k + 1, Len(s)))
  <2>. SUFFICES ASSUME NEW i \in 1..(Len(s) - k)  PROVE s[k + i] = buf[Slot((a + k) + i - 1)]
    BY <1>2, Zenon DEF At
  <2>1. k + i \in 1..Len(s) /\ a + (k + i) - 1 = (a + k) + i - 1
    OBVIOUS
  <2>. QED  BY <2>1, Zenon DEF At
<1>. QED  BY <1>1, <1>2, <1>3, <1>4, Zenon
----------------------------------------------------------------------------
\* What the invariant says of the indices.
LEMMA InputRight ==
  ASSUME ConsoleInv
  PROVE  /\ Len(lines) \in 0..(CWORD - 1) /\ Len(edit) \in 0..(CWORD - 1)
         /\ Len(lines) \in Nat /\ Len(edit) \in Nat
         /\ Len(lines) + Len(edit) \in 0..(CWORD - 1) /\ lines \in Seq(Chars) /\ edit \in Seq(Chars)
         /\ input.buf \in [0..(INPUT_BUF - 1) -> Chars] /\ input.r \in Int /\ CWord(input.r) = input.r
         /\ RingPart(input.r, input.w) = lines /\ RingPart(input.w, input.e) = edit
         /\ CWord(input.w - input.r) = Len(lines) /\ CWord(input.e - input.w) = Len(edit)
         /\ CWord(input.e - input.r) = Len(lines) + Len(edit)
<1>1. lines \in Seq(Chars) /\ edit \in Seq(Chars)
  <2>1. {"x"} \subseteq Chars
    BY Zenon DEF Chars
  <2>. QED  BY <2>1 DEF ConsoleInv
<1>2. /\ input.buf \in [0..(INPUT_BUF - 1) -> Chars] /\ input.r \in Int /\ CWord(input.r) = input.r
  <2>1. input.r \in 0..(CWORD - 1)
    BY Zenon DEF ConsoleInv, InputType
  <2>2. input.r \in Int
    BY <2>1, Sizes
  <2>. QED  BY <2>1, <2>2, Words, Zenon DEF ConsoleInv, InputType
<1>3. /\ Len(lines) \in 0..(CWORD - 1) /\ Len(edit) \in 0..(CWORD - 1)
      /\ Len(lines) \in Nat /\ Len(edit) \in Nat
      /\ Len(lines) + Len(edit) \in 0..(CWORD - 1)
  <2>1. Len(lines) \in Nat /\ Len(edit) \in Nat
    BY <1>1
  <2>2. PICK m \in Nat, n \in Nat : m = Len(lines) /\ n = Len(edit)
    BY <2>1, Zenon
  <2>3. m + n <= INPUT_BUF
    BY <2>2, Zenon DEF ConsoleInv
  <2>4. m \in 0..(CWORD - 1) /\ n \in 0..(CWORD - 1) /\ m + n \in 0..(CWORD - 1)
    BY <2>3, Sizes
  <2>. QED  BY <2>1, <2>2, <2>4, Zenon
<1>4. PICK a \in Int, b \in Int : a = input.r /\ b = input.r + Len(lines)
  BY <1>2, <1>3
<1>5. /\ input.r = CWord(a) /\ input.w = CWord(a + Len(lines)) /\ input.w = CWord(b)
      /\ input.e = CWord(b + Len(edit)) /\ input.e = CWord(a + (Len(lines) + Len(edit)))
  <2>1. b + Len(edit) = input.r + Len(lines) + Len(edit)
    BY <1>4, Zenon
  <2>2. a + (Len(lines) + Len(edit)) = input.r + Len(lines) + Len(edit)
    BY <1>1, <1>4
  <2>. QED  BY <1>2, <1>4, <2>1, <2>2, Zenon DEF ConsoleInv
<1>6. At(input.buf, a, lines) /\ At(input.buf, b, edit)
  BY <1>4, Zenon DEF ConsoleInv
<1>7. RingPart(input.r, input.w) = lines /\ RingPart(input.w, input.e) = edit
  <2>1. Len(lines) < CWORD /\ Len(edit) < CWORD
    BY <1>3, Sizes
  <2>2. RingPart(CWord(a), CWord(a + Len(lines))) = lines
    BY <1>1, <1>6, <2>1, RingIs, Zenon
  <2>3. RingPart(CWord(b), CWord(b + Len(edit))) = edit
    BY <1>1, <1>6, <2>1, RingIs, Zenon
  <2>. QED  BY <1>5, <2>2, <2>3, Zenon
<1>8. CWord(input.w - input.r) = Len(lines) /\ CWord(input.e - input.w) = Len(edit)
  BY <1>3, <1>5, Apart, Zenon
<1>9. CWord(input.e - input.r) = Len(lines) + Len(edit)
  BY <1>3, <1>5, Apart, Zenon
<1>. QED  BY <1>1, <1>2, <1>3, <1>7, <1>8, <1>9, Zenon

\* An entered character.
LEMMA TypeStep ==
  ASSUME ConsoleInv, NEW c \in Chars, Type(c)
  PROVE  ConsoleInv'
<1>. DEFINE L == Len(lines)  M == Len(edit)  b == Slot(input.r + L + M)
            buf == [input.buf EXCEPT ![b] = c]  e == CWord(input.e + 1)
<1>1. /\ L \in Nat /\ M \in Nat /\ lines \in Seq(Chars) /\ edit \in Seq(Chars)
      /\ input.buf \in [0..(INPUT_BUF - 1) -> Chars] /\ input.r \in Int /\ L + M < INPUT_BUF
  BY InputRight, Zenon DEF Type, Room
<1>2. b = Slot(input.e) /\ e = CWord(input.r + L + M + 1) /\ e \in 0..(CWORD - 1)
  <2>1. PICK a \in Int : a = input.r + L + M
    BY <1>1
  <2>2. input.e = CWord(a)
    BY <2>1, Zenon DEF ConsoleInv
  <2>3. Slot(CWord(a) + 0) = Slot(a + 0) /\ CWord(a) + 0 = CWord(a) /\ a + 0 = a
    <3>1. CWord(a) \in Int
      BY WordInt, Zenon
    <3>. QED  BY <3>1, Words
  <2>4. CWord(CWord(a) + 1) = CWord(a + 1) /\ CWord(a + 1) \in 0..(CWORD - 1)
    BY Words
  <2>. QED  BY <2>1, <2>2, <2>3, <2>4, Zenon
<1>3. input' = [input EXCEPT !.buf = buf, !.e = e, !.w = IF Ends(c, e) THEN e ELSE input.w]
  BY <1>2, Zenon DEF Type
<1>4. buf \in [0..(INPUT_BUF - 1) -> Chars]
  BY <1>1, Words, Zenon
<1>. HIDE DEF buf, e
<1>5. /\ input' \in InputType /\ input'.buf = buf /\ input'.r = input.r /\ input'.e = e
      /\ input'.w = IF Ends(c, e) THEN e ELSE input.w
  <2>1. input \in InputType
    BY Zenon DEF ConsoleInv
  <2>. QED  BY <1>2, <1>3, <1>4, <2>1, Zenon DEF InputType
<1>6. At(buf, input.r, lines) /\ At(buf, input.r + L, Append(edit, c))
  <2>1. PICK a \in Int, k \in Int, d \in Int : a = input.r /\ d = input.r + L /\ k = input.r + L + M
    BY <1>1
  <2>2. At(input.buf, a, lines) /\ At(input.buf, d, edit)
    <3>1. At(input.buf, input.r, lines) /\ At(input.buf, input.r + L, edit)
      BY Zenon DEF ConsoleInv
    <3>. QED  BY <2>1, <3>1, Zenon
  <2>3. a + L <= k /\ k < a + INPUT_BUF /\ M < INPUT_BUF /\ k = d + M
    <3>1. /\ L \in Nat /\ M \in Nat /\ L + M < INPUT_BUF /\ INPUT_BUF \in Nat
          /\ a \in Int /\ d = a + L /\ k = a + L + M
      BY <1>1, <2>1, Sizes, Zenon
    <3>. QED  BY ONLY <3>1
  <2>4. At([input.buf EXCEPT ![Slot(k)] = c], a, lines)
    BY <1>1, <2>2, <2>3, AtKept, Zenon
  <2>5. At([input.buf EXCEPT ![Slot(d + M)] = c], d, Append(edit, c))
    BY <1>1, <2>2, <2>3, AtAppend, Zenon
  <2>. QED  BY <2>1, <2>3, <2>4, <2>5, Zenon DEF buf
<1>7. Append(edit, c) \in Seq(Chars) /\ Len(Append(edit, c)) = M + 1
  BY <1>1
<1>8. e = CWord(input.r + INPUT_BUF) <=> L + M + 1 = INPUT_BUF
  <2>1. PICK a \in Int, m \in 0..(CWORD - 1), n \in 0..(CWORD - 1) :
          a = input.r /\ m = L + M + 1 /\ n = INPUT_BUF
    BY <1>1, Sizes
  <2>2. CWord(CWord(a + m) - CWord(a)) = m /\ CWord(CWord(a + n) - CWord(a)) = n
    BY Apart, Zenon
  <2>3. a + m = input.r + L + M + 1
    <3>1. PICK l \in Nat, k \in Nat : l = L /\ k = M
      BY <1>1, Zenon
    <3>2. a + (l + k + 1) = a + l + k + 1
      OBVIOUS
    <3>. QED  BY <2>1, <3>1, <3>2, Zenon
  <2>. QED  BY <1>2, <2>1, <2>2, <2>3, Zenon
<1>9. CASE Ends(c, e)
  <2>1. lines' = lines \o Append(edit, c) /\ edit' = <<>> /\ reader' = WakeReaders /\ input'.w = e
    BY <1>5, <1>9, Zenon DEF Type, e
  <2>2. lines' \in Seq(Chars) /\ Len(lines') = L + (M + 1) /\ Len(edit') = 0 /\ edit' \in Seq({"x"})
    BY <1>1, <1>7, <2>1
  <2>3. At(input'.buf, input'.r, lines')
    <3>1. PICK a \in Int, t \in Seq(Chars) : a = input.r /\ t = Append(edit, c)
      BY <1>1, <1>7, Zenon
    <3>2. At(buf, a, lines \o t)
      BY <1>1, <1>6, <3>1, AtConcat, Zenon
    <3>. QED  BY <1>5, <2>1, <3>1, <3>2, Zenon
  <2>4. At(input'.buf, input'.r + Len(lines'), edit')
    BY <2>2 DEF At
  <2>5. input'.w = CWord(input'.r + Len(lines')) /\ input'.e = CWord(input'.r + Len(lines') + Len(edit'))
    <3>1. input.r + (L + (M + 1)) = input.r + L + M + 1 /\ input.r + (L + (M + 1)) + 0 = input.r + L + M + 1
      BY <1>1
    <3>. QED  BY <1>2, <1>5, <2>1, <2>2, <3>1, Zenon
  <2>6. /\ reader' \in [Readers -> ReaderType]
        /\ \A p \in Readers : /\ ~reader'[p].asleep /\ reader'[p].n = reader[p].n
                              /\ reader'[p].target = reader[p].target
                              /\ reader[p] = NotReading => reader'[p] = NotReading
    <3>1. ASSUME NEW p \in Readers
          PROVE  /\ reader'[p] \in ReaderType
                 /\ ~reader'[p].asleep /\ reader'[p].n = reader[p].n
                 /\ reader'[p].target = reader[p].target
                 /\ reader[p] = NotReading => reader'[p] = NotReading
      <4>1. reader'[p] = [reader[p] EXCEPT !.asleep = FALSE] /\ reader[p] \in ReaderType
        BY <2>1, Zenon DEF ConsoleInv, WakeReaders
      <4>2. /\ reader'[p] \in ReaderType /\ reader'[p].asleep = FALSE
            /\ reader'[p].n = reader[p].n /\ reader'[p].target = reader[p].target
        BY <4>1, Zenon DEF ReaderType
      <4>3. NotReading \in ReaderType /\ NotReading.asleep = FALSE
        BY Zenon DEF NotReading, ReaderType
      <4>4. \A x, y \in ReaderType : x.asleep = y.asleep /\ x.n = y.n /\ x.target = y.target => x = y
        BY DEF ReaderType
      <4>. QED  BY <4>2, <4>3, <4>4, Zenon
    <3>. QED  BY <2>1, <3>1, Zenon DEF WakeReaders
  <2>7. Len(lines') + Len(edit') <= INPUT_BUF
    BY <1>1, <2>2, Sizes
  <2>8. \A p \in Readers : /\ reader'[p].asleep => lines' = <<>>
                           /\ reader'[p].n <= reader'[p].target
                           /\ reader'[p] # NotReading => reader'[p].n # 0
    BY <2>6, Zenon DEF ConsoleInv
  <2>. QED  BY <1>5, <2>1, <2>2, <2>3, <2>4, <2>5, <2>6, <2>7, <2>8, Zenon DEF ConsoleInv
<1>10. CASE ~Ends(c, e)
  <2>1. edit' = Append(edit, c) /\ UNCHANGED <<lines, reader>> /\ input'.w = input.w
    BY <1>5, <1>10, Zenon DEF Type, e
  <2>2. c = "x" /\ L + M + 1 # INPUT_BUF
    BY <1>8, <1>10, Zenon DEF Ends, Chars
  <2>3. edit' \in Seq({"x"}) /\ Len(edit') = M + 1
    BY <2>1, <2>2 DEF ConsoleInv
  <2>4. At(input'.buf, input'.r, lines') /\ At(input'.buf, input'.r + Len(lines'), edit')
    BY <1>5, <1>6, <2>1, Zenon
  <2>5. input'.w = CWord(input'.r + Len(lines')) /\ input'.e = CWord(input'.r + Len(lines') + Len(edit'))
    <3>1. input.r + L + (M + 1) = input.r + L + M + 1
      <4>1. \A a \in Int, l, m \in Nat : a + l + (m + 1) = a + l + m + 1
        OBVIOUS
      <4>. QED  BY <1>1, <4>1, Zenon
    <3>. QED  BY <1>2, <1>5, <2>1, <2>3, <3>1, Zenon DEF ConsoleInv
  <2>6. Len(lines') + Len(edit') <= INPUT_BUF /\ Len(lines') + Len(edit') # INPUT_BUF
    BY <1>1, <2>1, <2>2, <2>3, Sizes
  <2>. QED  BY <1>5, <2>1, <2>3, <2>4, <2>5, <2>6, Zenon DEF ConsoleInv
<1>. QED  BY <1>9, <1>10, Zenon

\* Backspace and ^U leave a part of the line.
LEMMA EraseStep ==
  ASSUME ConsoleInv, NEW k \in 0..Len(edit), k < Len(edit), input' = [input EXCEPT !.e = CWord(input.w + k)],
         edit' = SubSeq(edit, 1, k), UNCHANGED <<lines, reader>>
  PROVE  ConsoleInv'
<1>1. /\ lines \in Seq(Chars) /\ edit \in Seq(Chars) /\ input.r \in Int /\ input.w \in Int
      /\ CWord(input.w + k) \in 0..(CWORD - 1)
  <2>1. input.w \in 0..(CWORD - 1) /\ 0..(CWORD - 1) \subseteq Int
    BY Sizes DEF ConsoleInv, InputType
  <2>2. input.w \in Int
    BY <2>1, Zenon
  <2>3. input.w + k \in Int
    BY <2>2
  <2>. QED  BY <2>2, <2>3, InputRight, Words, Zenon
<1>2. /\ input' \in InputType /\ input'.buf = input.buf /\ input'.r = input.r /\ input'.w = input.w
      /\ input'.e = CWord(input.w + k)
  <2>1. input \in InputType
    BY Zenon DEF ConsoleInv
  <2>. QED  BY <1>1, <2>1, Zenon DEF InputType
<1>3. Len(edit') = k /\ edit' \in Seq({"x"})
  BY DEF ConsoleInv
<1>4. At(input.buf, input.r + Len(lines), edit')
  <2>1. PICK a \in Int : a = input.r + Len(lines)
    BY <1>1
  <2>2. At(input.buf, a, edit)
    BY <2>1, Zenon DEF ConsoleInv
  <2>. QED  BY <1>1, <2>1, <2>2, AtPart, Zenon
<1>5. CWord(input.w + k) = CWord(input.r + Len(lines) + k)
  <2>1. PICK a \in Int : a = input.r + Len(lines)
    BY <1>1
  <2>2. k \in Int
    OBVIOUS
  <2>3. input.w = CWord(a) /\ CWord(CWord(a) + k) = CWord(a + k)
    BY <2>1, <2>2, Words, Zenon DEF ConsoleInv
  <2>. QED  BY <2>1, <2>3, Zenon
<1>6. Len(lines') + Len(edit') <= INPUT_BUF /\ Len(lines') + Len(edit') # INPUT_BUF
  BY <1>1, <1>3, Sizes, SMTT(30) DEF ConsoleInv
<1>. QED  BY <1>2, <1>3, <1>4, <1>5, <1>6, Zenon DEF ConsoleInv

\* The end of the edited line from the end of the finished ones, and back.
LEMMA EditEnd ==
  ASSUME ConsoleInv
  PROVE  /\ input.w \in Int /\ input.e \in Int
         /\ MayErase => Len(edit) > 0
         /\ \A k \in 0..Len(edit) : CWord(input.e - k) = CWord(input.w + (Len(edit) - k))
<1>1. /\ input.w \in Int /\ input.e \in Int /\ input.r \in Int /\ Len(lines) \in Nat /\ Len(edit) \in Nat
      /\ CWord(input.w - input.w) = 0
  <2>1. input.w \in 0..(CWORD - 1) /\ input.e \in 0..(CWORD - 1)
    BY Zenon DEF ConsoleInv, InputType
  <2>2. input.w \in Int /\ input.e \in Int
    BY <2>1, Sizes
  <2>3. input.w - input.w = 0 /\ 0 \in 0..(CWORD - 1)
    BY <2>2, Sizes
  <2>. QED  BY <2>2, <2>3, InputRight, Words, Zenon
<1>2. input.e = CWord(input.w + Len(edit))
  <2>1. PICK a \in Int, m \in Int : a = input.r + Len(lines) /\ m = Len(edit)
    BY <1>1
  <2>2. CWord(CWord(a) + m) = CWord(a + m)
    BY Words, Zenon
  <2>. QED  BY <2>1, <2>2, Zenon DEF ConsoleInv
<1>3. MayErase => Len(edit) > 0
  <2>. SUFFICES ASSUME Len(edit) = 0  PROVE input.e = input.w
    BY <1>1 DEF MayErase
  <2>1. input.w \in 0..(CWORD - 1)
    BY Zenon DEF ConsoleInv, InputType
  <2>2. CWord(input.w) = input.w
    BY <2>1, Words, Zenon
  <2>3. input.w + 0 = input.w
    BY <1>1
  <2>. QED  BY <1>2, <2>2, <2>3, Zenon
<1>4. ASSUME NEW k \in 0..Len(edit)
      PROVE  CWord(input.e - k) = CWord(input.w + (Len(edit) - k))
  <2>1. PICK a \in Int, m \in Int : a = input.w + Len(edit) /\ m = 0 - k
    BY <1>1
  <2>2. CWord(CWord(a) + m) = CWord(a + m)
    BY Words, Zenon
  <2>3. a + m = input.w + (Len(edit) - k)
    BY <1>1, <2>1
  <2>4. input.e + m = input.e - k
    BY <1>1, <2>1
  <2>. QED  BY <1>2, <2>1, <2>2, <2>3, <2>4, Zenon
<1>. QED  BY <1>1, <1>3, <1>4, Zenon

LEMMA BackspaceStep == ASSUME ConsoleInv, Backspace PROVE ConsoleInv'
<1>1. /\ MayErase /\ input' = [input EXCEPT !.e = CWord(input.e - 1)]
      /\ edit' = SubSeq(edit, 1, Len(edit) - 1) /\ UNCHANGED <<lines, reader>>
  BY Zenon DEF Backspace
<1>2. PICK m \in Nat : m = Len(edit) /\ m > 0
  BY <1>1, EditEnd, InputRight, Zenon
<1>3. PICK k \in 0..m : k = m - 1 /\ k < m
  BY <1>2
<1>4. CWord(input.e - 1) = CWord(input.w + k)
  <2>1. 1 \in 0..m
    BY <1>2
  <2>. QED  BY <1>2, <1>3, <2>1, EditEnd, Zenon
<1>. QED  BY <1>1, <1>2, <1>3, <1>4, EraseStep, Zenon

LEMMA KillLineStep == ASSUME ConsoleInv, KillLine PROVE ConsoleInv'
<1>. PICK m \in Nat, l \in Nat, r \in Int :
       m = Len(edit) /\ l = Len(lines) /\ r = input.r /\ CWord(input.e - input.w) = m
  BY InputRight, Zenon
<1>. DEFINE stops == {k \in 0..m : k = m \/ input.buf[Slot(CWord(input.e - k - 1))] = "newline"}
<1>1. /\ MayErase /\ edit' = <<>> /\ UNCHANGED <<lines, reader>>
      /\ input' = [input EXCEPT !.e = CWord(input.e - (CHOOSE k \in stops : \A j \in stops : k <= j))]
  BY Zenon DEF KillLine
<1>2. m > 0 /\ input.w \in Int /\ input.e \in Int
  BY <1>1, EditEnd, Zenon
<1>3. ASSUME NEW k \in 0..m, k # m
      PROVE  input.buf[Slot(CWord(input.e - k - 1))] # "newline"
  <2>1. PICK j \in 0..m : j = k + 1
    BY <1>3
  <2>2. CWord(input.e - j) = CWord(input.w + (m - j)) /\ input.e - j = input.e - k - 1
    BY <1>2, <2>1, EditEnd
  <2>3. PICK a \in Int : \E d \in Int : a = r + l /\ d = m - j
    <3>1. r + l \in Int /\ m - j \in Int
      BY <2>1
    <3>. QED  BY <3>1, Zenon
  <2>. PICK d \in Int : a = r + l /\ d = m - j
    BY <2>3, Zenon
  <2>4. input.w = CWord(a)
    BY <2>3, Zenon DEF ConsoleInv
  <2>5. PICK x \in Int : x = a + d
    OBVIOUS
  <2>6. CWord(CWord(a) + d) = CWord(x) /\ Slot(CWord(x) + 0) = Slot(x + 0)
    <3>1. CWord(CWord(a) + d) = CWord(a + d)
      BY Words, Zenon
    <3>2. PICK z \in Int : z = 0
      OBVIOUS
    <3>3. Slot(CWord(x) + z) = Slot(x + z)
      BY Words, Zenon
    <3>. QED  BY <2>5, <3>1, <3>2, <3>3, Zenon
  <2>7. CWord(x) + 0 = CWord(x) /\ x + 0 = x
    <3>1. CWord(x) \in Int
      BY WordInt, Zenon
    <3>. QED  BY <3>1
  <2>8. Slot(CWord(input.e - k - 1)) = Slot(x)
    BY <2>2, <2>3, <2>4, <2>6, <2>7, Zenon
  <2>9. PICK i \in 1..m : i = m - k /\ a + i - 1 = x
    <3>1. m - k \in 1..m
      BY <1>3
    <3>2. a + (m - k) - 1 = x
      BY <1>3, <2>1, <2>5
    <3>. QED  BY <3>1, <3>2, Zenon
  <2>10. edit[i] = input.buf[Slot(a + i - 1)]
    BY <2>3, Zenon DEF ConsoleInv, At
  <2>11. edit[i] = "x"
    BY DEF ConsoleInv
  <2>. QED  BY <2>8, <2>9, <2>10, <2>11, Zenon
<1>4. stops = {m}
  BY <1>3
<1>5. (CHOOSE k \in stops : \A j \in stops : k <= j) = m
  BY <1>4
<1>6. CWord(input.e - m) = CWord(input.w + 0)
  <2>1. m \in 0..m /\ m - m = 0
    OBVIOUS
  <2>. QED  BY <2>1, EditEnd, Zenon
<1>7. edit' = SubSeq(edit, 1, 0) /\ 0 \in 0..m
  <2>1. edit \in Seq({"x"})
    BY Zenon DEF ConsoleInv
  <2>2. SubSeq(edit, 1, 0) = <<>>
    BY <2>1
  <2>. QED  BY <1>1, <2>2
<1>8. input' = [input EXCEPT !.e = CWord(input.w + 0)]
  BY <1>1, <1>5, <1>6, Zenon
<1>. QED  BY <1>1, <1>2, <1>7, <1>8, EraseStep, Zenon

LEMMA StopRight ==
  ASSUME ConsoleInv, NEW n \in Nat
  PROVE  /\ Stop(n) \in 0..Len(lines) /\ Len(lines) \in Nat
         /\ Stop(n) = 0 => ReadEnds(lines, n) = {}
         /\ Stop(n) # 0 => Stop(n) \in ReadEnds(lines, n) /\ \A j \in ReadEnds(lines, n) : Stop(n) <= j
<1>1. Stop(n) = IF ReadEnds(lines, n) = {} THEN 0
                ELSE CHOOSE i \in ReadEnds(lines, n) : \A j \in ReadEnds(lines, n) : i <= j
  <2>1. RingPart(input.r, input.w) = lines
    BY InputRight, Zenon
  <2>. QED  BY <2>1 DEF Stop
<1>2. Len(lines) \in Nat /\ ReadEnds(lines, n) \subseteq 1..Len(lines) /\ ReadEnds(lines, n) \subseteq Nat
  BY InputRight DEF ReadEnds
<1>3. CASE ReadEnds(lines, n) = {}
  BY <1>1, <1>2, <1>3
<1>4. CASE ReadEnds(lines, n) # {}
  <2>1. \E i \in ReadEnds(lines, n) : \A j \in ReadEnds(lines, n) : i <= j
    BY <1>2, <1>4, LeastNat, Zenon
  <2>2. Stop(n) \in ReadEnds(lines, n) /\ \A j \in ReadEnds(lines, n) : Stop(n) <= j
    BY <1>1, <1>4, <2>1, Zenon
  <2>3. Stop(n) \in 1..Len(lines)
    BY <1>2, <2>2, Zenon
  <2>. QED  BY <1>2, <2>2, <2>3
<1>. QED  BY <1>3, <1>4, Zenon

\* What a turn of consoleread()'s loops takes.
LEMMA ReadTakes ==
  ASSUME ConsoleInv, NEW p \in Readers, NEW q \in ReaderType, q.n # 0, Resumed(p, q)
  PROVE  \E k \in 0..Len(lines), i \in 0..Len(lines) :
           /\ i = Stop(q.n)
           /\ input' = [input EXCEPT !.r = CWord(input.r + k)]
           /\ lines' = SubSeq(lines, k + 1, Len(lines)) /\ edit' = edit
           /\ reader' = [reader EXCEPT ![p] = IF i > 0 THEN NotReading
                                              ELSE [asleep |-> TRUE, n |-> q.n - k, target |-> q.target]]
           /\ i = 0 => k = Len(lines) /\ k < q.n
           /\ i > 0 => k = i \/ k = i - 1
           /\ i > 0 /\ k = i /\ lines[i] = "^D" => ~Kept(q, i)
<1>. PICK n \in Nat, l \in Nat, r \in Int :
       n = q.n /\ l = Len(lines) /\ r = input.r /\ CWord(input.w - input.r) = l
  BY InputRight, Zenon DEF ReaderType
<1>1. PICK i \in 0..l : i = Stop(n) /\ (i = 0 => ReadEnds(lines, n) = {})
  BY StopRight, Zenon
<1>2. i > 0 => (input.buf[Slot(input.r + i - 1)] = "^D" <=> lines[i] = "^D")
  <2>. SUFFICES ASSUME i > 0  PROVE lines[i] = input.buf[Slot(input.r + i - 1)]
    OBVIOUS
  <2>1. i \in 1..l
    OBVIOUS
  <2>. QED  BY <2>1, Zenon DEF ConsoleInv, At
<1>. DEFINE k == IF i = 0 THEN l ELSE IF lines[i] = "^D" /\ Kept(q, i) THEN i - 1 ELSE i
<1>3. k \in 0..l /\ (i > 0 => k = i \/ k = i - 1) /\ (i = 0 => k = l)
  <2>1. CASE i = 0
    BY <2>1
  <2>2. CASE i # 0
    <3>1. i - 1 \in 0..l /\ i \in 0..l
      BY <2>2
    <3>. QED  BY <2>2, <3>1, Zenon
  <2>. QED  BY <2>1, <2>2, Zenon
<1>4. i > 0 /\ k = i /\ lines[i] = "^D" => ~Kept(q, i)
  <2>. SUFFICES ASSUME i > 0, k = i, lines[i] = "^D", Kept(q, i)  PROVE FALSE
    OBVIOUS
  <2>1. i - 1 # i
    OBVIOUS
  <2>. QED  BY <2>1
<1>5. i = 0 => l < n
  <2>. SUFFICES ASSUME i = 0, n <= l  PROVE FALSE
    OBVIOUS
  <2>1. n \in 1..l
    OBVIOUS
  <2>2. n \in ReadEnds(lines, n)
    BY <2>1, Zenon DEF ReadEnds
  <2>. QED  BY <1>1, <2>2, Zenon
<1>6. /\ input' = [input EXCEPT !.r = CWord(input.r + k)]
      /\ lines' = SubSeq(lines, k + 1, Len(lines)) /\ edit' = edit
      /\ reader' = [reader EXCEPT ![p] = IF i > 0 THEN NotReading
                                         ELSE [asleep |-> TRUE, n |-> q.n - k, target |-> q.target]]
  <2>1. CASE i = 0
    BY <1>1, <2>1, Zenon DEF Resumed
  <2>2. CASE i > 0
    BY <1>1, <1>2, <2>2, Zenon DEF Resumed
  <2>. QED  BY <2>1, <2>2
<1>. HIDE DEF k
<1>. QED  BY <1>1, <1>3, <1>4, <1>5, <1>6, Zenon

LEMMA ResumedStep ==
  ASSUME ConsoleInv, NEW p \in Readers, NEW q \in ReaderType, q.n # 0, q.n <= q.target, Resumed(p, q)
  PROVE  ConsoleInv'
<1>1. PICK k \in 0..Len(lines), i \in 0..Len(lines) :
        /\ input' = [input EXCEPT !.r = CWord(input.r + k)]
        /\ lines' = SubSeq(lines, k + 1, Len(lines)) /\ edit' = edit
        /\ reader' = [reader EXCEPT ![p] = IF i > 0 THEN NotReading
                                           ELSE [asleep |-> TRUE, n |-> q.n - k, target |-> q.target]]
        /\ i = 0 => k = Len(lines) /\ k < q.n
  BY ReadTakes, Zenon
<1>2. PICK r \in Int, l \in Nat, m \in Nat :
        /\ r = input.r /\ l = Len(lines) /\ m = Len(edit)
        /\ lines \in Seq(Chars) /\ edit \in Seq(Chars)
  BY InputRight, Zenon
<1>3. k \in 0..l /\ l - k \in Nat /\ r + k \in Int /\ CWord(r + k) \in 0..(CWORD - 1)
  <2>1. k \in 0..l
    BY <1>2, Zenon
  <2>2. l - k \in Nat /\ r + k \in Int
    BY <2>1
  <2>. QED  BY <2>1, <2>2, Words, Zenon
<1>4. /\ input' \in InputType /\ input'.buf = input.buf /\ input'.r = CWord(r + k)
      /\ input'.w = input.w /\ input'.e = input.e
  <2>1. input \in InputType
    BY Zenon DEF ConsoleInv
  <2>. QED  BY <1>1, <1>2, <1>3, <2>1, Zenon DEF InputType
<1>5. /\ lines' \in Seq(Chars) /\ Len(lines') = l - k /\ At(input.buf, r + k, lines')
  <2>1. At(input.buf, r, lines)
    BY <1>2, Zenon DEF ConsoleInv
  <2>2. k \in 0..Len(lines) /\ l = Len(lines)
    BY <1>2, Zenon
  <2>3. /\ SubSeq(lines, k + 1, Len(lines)) \in Seq(Chars) /\ Len(SubSeq(lines, k + 1, Len(lines))) = Len(lines) - k
        /\ At(input.buf, r + k, SubSeq(lines, k + 1, Len(lines)))
    BY <1>2, <2>1, <2>2, AtPart
  <2>. QED  BY <1>1, <2>2, <2>3, Zenon
<1>6. input'.w = CWord(input'.r + Len(lines')) /\ input'.e = CWord(input'.r + Len(lines') + Len(edit'))
  <2>1. PICK a \in Int : a = r + k
    BY <1>3, Zenon
  <2>2. PICK b \in Int : b = l - k
    BY <1>3
  <2>3. PICK c \in Int : c = (l - k) + m
    BY <1>3
  <2>4. CWord(CWord(a) + b) = CWord(a + b) /\ CWord(CWord(a) + c) = CWord(a + c)
    BY Words, Zenon
  <2>5. a + b = r + l /\ a + c = r + l + m
    BY <1>3, <2>1, <2>2, <2>3
  <2>6. CWord(a) + c = CWord(a) + (l - k) + m
    <3>1. CWord(a) \in Int
      BY WordInt, Zenon
    <3>. QED  BY <1>3, <2>3, <3>1
  <2>7. input.w = CWord(r + l) /\ input.e = CWord(r + l + m)
    BY <1>2, Zenon DEF ConsoleInv
  <2>. QED  BY <1>1, <1>2, <1>4, <1>5, <2>1, <2>2, <2>4, <2>5, <2>6, <2>7, Zenon
<1>7. At(input'.buf, input'.r, lines')
  <2>1. PICK a \in Int : a = r + k
    BY <1>3, Zenon
  <2>2. PICK z \in Int : z = 0 /\ a + z = a /\ CWord(a) + z = CWord(a)
    <3>1. CWord(a) \in Int
      BY WordInt, Zenon
    <3>. QED  BY <3>1
  <2>3. At(input.buf, CWord(a) + z, lines')
    BY <1>5, <2>1, <2>2, AtWord, Zenon
  <2>. QED  BY <1>4, <2>1, <2>2, <2>3, Zenon
<1>8. At(input'.buf, input'.r + Len(lines'), edit')
  <2>1. PICK a \in Int : a = r + k
    BY <1>3, Zenon
  <2>2. PICK b \in Int : b = l - k
    BY <1>3
  <2>3. a + b = r + l
    BY <1>3, <2>1, <2>2
  <2>4. At(input.buf, a + b, edit)
    BY <1>2, <2>3, Zenon DEF ConsoleInv
  <2>5. At(input.buf, CWord(a) + b, edit)
    BY <1>2, <2>4, AtWord, Zenon
  <2>. QED  BY <1>1, <1>4, <1>5, <2>1, <2>2, <2>5, Zenon
<1>9. Len(lines') + Len(edit') <= INPUT_BUF /\ (Len(lines') + Len(edit') = INPUT_BUF => edit' = <<>>)
  <2>1. l + m <= INPUT_BUF /\ (l + m = INPUT_BUF => edit = <<>>)
    BY <1>2, Zenon DEF ConsoleInv
  <2>2. (l - k) + m <= INPUT_BUF /\ ((l - k) + m = INPUT_BUF => l + m = INPUT_BUF)
    BY <1>3, <2>1, Sizes
  <2>. QED  BY <1>1, <1>2, <1>5, <2>1, <2>2, Zenon
<1>10. ASSUME NEW s \in Readers
       PROVE  /\ reader'[s] \in ReaderType
              /\ reader'[s].asleep => lines' = <<>>
              /\ reader'[s].n <= reader'[s].target
              /\ reader'[s] # NotReading => reader'[s].n # 0
  <2>1. reader \in [Readers -> ReaderType]
    BY Zenon DEF ConsoleInv
  <2>2. l = 0 => l - k = 0
    <3>1. k >= 0 /\ k <= l /\ k \in Int
      BY <1>3
    <3>. QED  BY <3>1
  <2>3. CASE s # p
    <3>1. reader'[s] = reader[s] /\ reader[s] \in ReaderType
      BY <1>1, <2>1, <2>3, Zenon
    <3>2. lines = <<>> => lines' = <<>>
      <4>. SUFFICES ASSUME lines = <<>>  PROVE lines' = <<>>
        OBVIOUS
      <4>1. l = 0
        BY <1>2, Zenon
      <4>2. l - k = 0
        BY <2>2, <4>1, Zenon
      <4>3. Len(lines') = 0
        BY <1>5, <4>2, Zenon
      <4>. QED  BY <1>5, <4>3
    <3>. QED  BY <3>1, <3>2, Zenon DEF ConsoleInv
  <2>4. CASE s = p /\ i > 0
    <3>1. reader'[s] = NotReading
      BY <1>1, <2>1, <2>4, Zenon
    <3>2. NotReading \in ReaderType /\ NotReading.asleep = FALSE /\ NotReading.n = 0 /\ NotReading.target = 0
      BY Zenon DEF NotReading, ReaderType
    <3>. QED  BY <3>1, <3>2
  <2>5. CASE s = p /\ i = 0
    <3>1. PICK n \in Nat, t \in Nat : n = q.n /\ t = q.target /\ n <= t /\ n > k /\ k = l
      BY <1>1, <1>2, <2>5, Zenon DEF ReaderType
    <3>2. n - k \in Nat /\ n - k # 0 /\ n - k <= t
      BY <1>3, <3>1, SMTT(30)
    <3>3. reader'[s] = [asleep |-> TRUE, n |-> n - k, target |-> t]
      BY <1>1, <2>1, <2>5, <3>1
    <3>4. /\ reader'[s] \in ReaderType /\ reader'[s].n = n - k /\ reader'[s].target = t
      BY <3>2, <3>3 DEF ReaderType
    <3>5. Len(lines') = 0
      BY <1>3, <1>5, <3>1
    <3>6. lines' = <<>>
      BY <1>5, <3>5
    <3>. QED  BY <3>2, <3>4, <3>6, Zenon
  <2>. QED  BY <2>3, <2>4, <2>5
<1>11. reader' \in [Readers -> ReaderType]
  <2>1. reader \in [Readers -> ReaderType]
    BY Zenon DEF ConsoleInv
  <2>. QED  BY <1>1, <1>10, <2>1, Zenon
<1>12. edit' \in Seq({"x"})
  BY <1>1, Zenon DEF ConsoleInv
<1>. QED  BY <1>4, <1>5, <1>6, <1>7, <1>8, <1>9, <1>10, <1>11, <1>12, Zenon DEF ConsoleInv

LEMMA KilledStep == ASSUME ConsoleInv, NEW p \in Readers, Killed(p) PROVE ConsoleInv'
<1>1. reader' = [reader EXCEPT ![p] = NotReading] /\ UNCHANGED <<input, lines, edit>>
  BY Zenon DEF Killed
<1>2. NotReading \in ReaderType /\ NotReading.asleep = FALSE /\ NotReading.n = 0 /\ NotReading.target = 0
  BY Zenon DEF NotReading, ReaderType
<1>3. reader \in [Readers -> ReaderType]
  BY Zenon DEF ConsoleInv
<1>4. reader' \in [Readers -> ReaderType] /\ \A q \in Readers : reader'[q] = IF q = p THEN NotReading ELSE reader[q]
  BY <1>1, <1>2, <1>3, Zenon
<1>5. \A q \in Readers : /\ reader'[q].asleep => lines = <<>>
                         /\ reader'[q].n <= reader'[q].target
                         /\ reader'[q] # NotReading => reader'[q].n # 0
  BY <1>2, <1>4 DEF ConsoleInv
<1>. QED  BY <1>1, <1>4, <1>5, Zenon DEF ConsoleInv

LEMMA ReadStep ==
  ASSUME ConsoleInv, NEW p \in Readers, Read(p)
  PROVE  \E q \in ReaderType : /\ q.n # 0 /\ q.n <= q.target /\ Resumed(p, q)
                               /\ q.n = q.target => reader[p].n = reader[p].target
<1>1. CASE reader[p] = NotReading /\ \E n \in Lengths : Resumed(p, [asleep |-> FALSE, n |-> n, target |-> n])
  <2>1. PICK n \in Lengths : Resumed(p, [asleep |-> FALSE, n |-> n, target |-> n])
    BY <1>1, Zenon
  <2>2. n \in Nat /\ n # 0 /\ n <= n
    BY ConsoleAssumption
  <2>3. PICK q \in ReaderType : q = [asleep |-> FALSE, n |-> n, target |-> n] /\ q.n = n /\ q.target = n
    <3>1. [asleep |-> FALSE, n |-> n, target |-> n] \in ReaderType
      BY <2>2, Zenon DEF ReaderType
    <3>. QED  BY <3>1, Zenon
  <2>4. reader[p].n = reader[p].target
    BY <1>1 DEF NotReading
  <2>. QED  BY <2>1, <2>2, <2>3, <2>4, Zenon
<1>2. CASE reader[p] # NotReading /\ ~reader[p].asleep /\ Resumed(p, reader[p])
  BY <1>2, Zenon DEF ConsoleInv
<1>. QED  BY <1>1, <1>2, Zenon DEF Read
----------------------------------------------------------------------------
LEMMA ConsoleInitInv == ASSUME ConsoleInit PROVE ConsoleInv
<1>1. /\ lines = <<>> /\ edit = <<>> /\ reader = [p \in Readers |-> NotReading]
      /\ input = [buf |-> [i \in 0..(INPUT_BUF - 1) |-> "x"], r |-> 0, w |-> 0, e |-> 0]
  BY Zenon DEF ConsoleInit
<1>2. 0 \in 0..(CWORD - 1) /\ CWord(0) = 0
  <2>1. 0 \in 0..(CWORD - 1)
    BY Sizes
  <2>. QED  BY <2>1, Words, Zenon
<1>3. input \in InputType /\ input.r = 0 /\ input.w = 0 /\ input.e = 0
  BY <1>1, <1>2, Zenon DEF InputType, Chars
<1>4. lines \in Seq(Chars) /\ edit \in Seq({"x"}) /\ Len(lines) = 0 /\ Len(edit) = 0
  BY <1>1
<1>5. NotReading \in ReaderType /\ NotReading.asleep = FALSE /\ NotReading.n = 0 /\ NotReading.target = 0
  BY Zenon DEF NotReading, ReaderType
<1>6. /\ reader \in [Readers -> ReaderType]
      /\ \A p \in Readers : /\ reader[p].asleep => lines = <<>>
                            /\ reader[p].n <= reader[p].target
                            /\ reader[p] # NotReading => reader[p].n # 0
  BY <1>1, <1>5
<1>7. /\ input.w = CWord(input.r + Len(lines)) /\ input.e = CWord(input.r + Len(lines) + Len(edit))
  BY <1>2, <1>3, <1>4
<1>8. At(input.buf, input.r, lines) /\ At(input.buf, input.r + Len(lines), edit)
  BY <1>4 DEF At
<1>9. Len(lines) + Len(edit) <= INPUT_BUF
  BY <1>4, Sizes
<1>. QED  BY <1>1, <1>3, <1>4, <1>6, <1>7, <1>8, <1>9, Zenon DEF ConsoleInv

LEMMA ConsoleNextInv == ASSUME ConsoleInv, [ConsoleNext]_consoleVars PROVE ConsoleInv'
<1>1. CASE UNCHANGED consoleVars
  BY <1>1, Zenon DEF consoleVars, ConsoleInv
<1>2. CASE \E c \in {"x", "newline", "^D"} : Type(c)
  BY <1>2, TypeStep, Zenon DEF Chars
<1>3. CASE Backspace
  BY <1>3, BackspaceStep, Zenon
<1>4. CASE KillLine
  BY <1>4, KillLineStep, Zenon
<1>5. CASE \E p \in Readers : Read(p)
  BY <1>5, ReadStep, ResumedStep, Zenon
<1>6. CASE \E p \in Readers : Killed(p)
  BY <1>6, KilledStep, Zenon
<1>. QED  BY <1>1, <1>2, <1>3, <1>4, <1>5, <1>6, Zenon DEF ConsoleNext

LEMMA ConsoleInvariant == ConsoleSpec => []ConsoleInv
<1>1. ConsoleInit => ConsoleInv
  BY ConsoleInitInv, Zenon
<1>2. ConsoleInv /\ [ConsoleNext]_consoleVars => ConsoleInv'
  BY ConsoleNextInv, Zenon
<1>. QED  BY <1>1, <1>2, PTL DEF ConsoleSpec

\* What consoleintr() takes in is what consoleread() hands out, in order and
\* across the overflow of the indices, and a reader sleeps only while the line
\* that will wake it can still be finished.
THEOREM TypedIsRead == ConsoleSpec => []TypedGetsThrough
<1>1. ConsoleInv => TypedGetsThrough
  <2>. SUFFICES ASSUME ConsoleInv  PROVE ReadersNotStuck
    BY InputRight, Zenon DEF TypedGetsThrough, RingHoldsInput
  <2>. SUFFICES ASSUME lines = <<>>  PROVE input.r = input.w /\ Room
    BY Zenon DEF ReadersNotStuck, ConsoleInv
  <2>1. PICK r \in Int, m \in Nat : r = input.r /\ m = Len(edit) /\ CWord(r) = r
    BY InputRight, Zenon
  <2>2. Len(lines) = 0
    OBVIOUS
  <2>3. input.w = CWord(r + 0) /\ r + 0 = r
    BY <2>1, <2>2 DEF ConsoleInv
  <2>4. m <= INPUT_BUF /\ (m = INPUT_BUF => m = 0)
    <3>1. 0 + m = m
      OBVIOUS
    <3>2. m <= INPUT_BUF /\ (m = INPUT_BUF => edit = <<>>)
      BY <2>1, <2>2, <3>1, Zenon DEF ConsoleInv
    <3>. QED  BY <2>1, <3>2, Zenon
  <2>5. CWord(input.e - input.r) = m
    BY <2>1, <2>2, InputRight
  <2>6. m < INPUT_BUF
    BY <2>4, Sizes
  <2>. QED  BY <2>1, <2>3, <2>5, <2>6, Zenon DEF Room
<1>. QED  BY <1>1, ConsoleInvariant, PTL

\* A sequence of one element is determined by it.
LEMMA Singleton == ASSUME NEW S, NEW s \in Seq(S), Len(s) = 1 PROVE s = <<s[1]>>
OBVIOUS

\* A ^D is handed out by consoleread() alone or not at all: the read() that
\* takes it returns nothing else.
THEOREM EofReadAlone == ConsoleSpec => EofAlone
<1>1. ASSUME ConsoleInv, NEW p \in Readers, Read(p)
      PROVE  LET taken == SubSeq(lines, 1, Len(lines) - Len(lines'))
             IN  "^D" \in Range(taken) => taken = <<"^D">> /\ reader[p].n = reader[p].target
  <2>1. PICK q \in ReaderType : /\ q.n # 0 /\ q.n <= q.target /\ Resumed(p, q)
                                /\ q.n = q.target => reader[p].n = reader[p].target
    BY <1>1, ReadStep, Zenon
  <2>2. PICK k \in 0..Len(lines), i \in 0..Len(lines) :
          /\ i = Stop(q.n) /\ lines' = SubSeq(lines, k + 1, Len(lines))
          /\ i = 0 => k = Len(lines)
          /\ i > 0 => k = i \/ k = i - 1
          /\ i > 0 /\ k = i /\ lines[i] = "^D" => ~Kept(q, i)
    BY <1>1, <2>1, ReadTakes, Zenon
  <2>3. PICK l \in Nat : l = Len(lines) /\ lines \in Seq(Chars) /\ k \in 0..l /\ i \in 0..l
    BY <1>1, <2>2, InputRight, Zenon
  <2>4. Len(lines) - Len(lines') = k
    <3>1. Len(lines') = l - k
      BY <2>2, <2>3
    <3>. QED  BY <2>3, <3>1
  <2>5. /\ SubSeq(lines, 1, k) \in Seq(Chars) /\ Len(SubSeq(lines, 1, k)) = k
        /\ \A j \in 1..k : SubSeq(lines, 1, k)[j] = lines[j]
    BY <2>3
  <2>. SUFFICES ASSUME NEW j \in 1..k, lines[j] = "^D"
                PROVE  SubSeq(lines, 1, k) = <<"^D">> /\ reader[p].n = reader[p].target
    <3>1. DOMAIN SubSeq(lines, 1, k) = 1..k
      BY <2>5
    <3>. QED  BY <2>4, <2>5, <3>1, Zenon DEF Range
  <2>6. j \in ReadEnds(lines, q.n)
    BY <2>3 DEF ReadEnds
  <2>7. i > 0 /\ i <= j /\ q.n \in Nat /\ q.target \in Nat
    <3>1. q.n \in Nat /\ q.target \in Nat
      BY Zenon DEF ReaderType
    <3>2. i # 0 => \A x \in ReadEnds(lines, q.n) : i <= x
      BY <1>1, <2>2, <3>1, StopRight, Zenon
    <3>3. i = 0 => ReadEnds(lines, q.n) = {}
      BY <1>1, <2>2, <3>1, StopRight, Zenon
    <3>. QED  BY <2>3, <2>6, <3>1, <3>2, <3>3
  <2>8. k = i /\ j = i
    BY <2>2, <2>3, <2>7
  <2>9. ~Kept(q, i)
    BY <2>2, <2>7, <2>8, Zenon
  <2>10. i = 1 /\ q.n = q.target
    BY <2>1, <2>7, <2>9 DEF Kept
  <2>11. SubSeq(lines, 1, k) = <<"^D">>
    <3>1. k = 1 /\ lines[1] = "^D"
      BY <2>8, <2>10, Zenon
    <3>2. Len(SubSeq(lines, 1, k)) = 1 /\ SubSeq(lines, 1, k)[1] = "^D"
      BY <2>5, <3>1
    <3>3. PICK s \in Seq(Chars) : s = SubSeq(lines, 1, k) /\ Len(s) = 1 /\ s[1] = "^D"
      BY <2>5, <3>2, Zenon
    <3>4. s = <<s[1]>>
      BY <3>3, Singleton, Zenon
    <3>. QED  BY <3>3, <3>4, Zenon
  <2>. QED  BY <2>1, <2>10, <2>11, Zenon
<1>2. ConsoleInv /\ [ConsoleNext]_consoleVars =>
        [\A p \in Readers : Read(p) =>
           LET taken == SubSeq(lines, 1, Len(lines) - Len(lines'))
           IN  "^D" \in Range(taken) => taken = <<"^D">> /\ reader[p].n = reader[p].target]_consoleVars
  BY <1>1, Zenon
<1>. QED  BY <1>2, ConsoleInvariant, PTL DEF ConsoleSpec, EofAlone
=============================================================================
