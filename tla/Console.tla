------------------------------ MODULE Console -------------------------------
(***************************************************************************)
(* Console input: the ring that the keyboard interrupt (consoleintr) edits *)
(* and consoleread() empties.  r, w and e only grow, as unsigned words of  *)
(* CWORD values: r..w are finished lines, w..e the line being edited.      *)
(* Every section under cons.lock is one action.                            *)
(***************************************************************************)
EXTENDS Integers, Sequences, Functions

CONSTANTS Readers, INPUT_BUF, CWORD,
          Lengths      \* arguments of read()

ASSUME ConsoleAssumption ==
  /\ INPUT_BUF \in Nat \ {0} /\ CWORD \in Nat /\ CWORD % INPUT_BUF = 0 /\ CWORD > INPUT_BUF
  /\ Lengths \subseteq Nat \ {0}

VARIABLES input,        \* the ring
          lines, edit,  \* what was typed: finished and not yet read, and unfinished
          reader        \* of each reader: asleep or not, n, and n at the start

consoleVars == <<input, lines, edit, reader>>

CWord(n) == n % CWORD
Slot(n) == n % INPUT_BUF
NotReading == [asleep |-> FALSE, n |-> 0, target |-> 0]

\* The characters of the ring from index a to index b.
RingPart(a, b) == [i \in 1..CWord(b - a) |-> input.buf[Slot(a + i - 1)]]

Room_Signed == input.e < input.r + INPUT_BUF
Room == CWord(input.e - input.r) < INPUT_BUF

WakeReaders == [p \in Readers |-> [reader[p] EXCEPT !.asleep = FALSE]]

\* Does the character c, the last one before e, finish a line?
Ends(c, e) == c \in {"newline", "^D"} \/ e = CWord(input.r + INPUT_BUF)

\* consoleintr() for a character that is entered; CR comes as newline.
Type(c) ==
  /\ Room
  /\ LET e == CWord(input.e + 1)
     IN  /\ input' = [input EXCEPT !.buf[Slot(input.e)] = c, !.e = e, !.w = IF Ends(c, e) THEN e ELSE @]
         /\ \/ /\ Ends(c, e)
               /\ lines' = lines \o Append(edit, c) /\ edit' = <<>> /\ reader' = WakeReaders
            \/ /\ ~Ends(c, e)
               /\ edit' = Append(edit, c) /\ UNCHANGED <<lines, reader>>

MayErase == input.e # input.w

Backspace ==
  /\ MayErase
  /\ input' = [input EXCEPT !.e = CWord(@ - 1)]
  /\ edit' = SubSeq(edit, 1, Len(edit) - 1)
  /\ UNCHANGED <<lines, reader>>

\* ^U: back to the end of the last finished line.
KillLine ==
  /\ MayErase
  /\ LET stops == {k \in 0..CWord(input.e - input.w) :
                     k = CWord(input.e - input.w) \/ input.buf[Slot(CWord(input.e - k - 1))] = "newline"}
     IN  input' = [input EXCEPT !.e = CWord(@ - (CHOOSE k \in stops : \A j \in stops : k <= j))]
  /\ edit' = <<>>
  /\ UNCHANGED <<lines, reader>>

\* Where a read of n characters may end in s.
ReadEnds(s, n) == {i \in 1..Len(s) : s[i] \in {"newline", "^D"} \/ i = n}

\* How many characters a read of n takes before it ends or has to wait: up to
\* a newline, or up to ^D.
Stop(n) ==
  LET ends == ReadEnds(RingPart(input.r, input.w), n)
  IN  IF ends = {} THEN 0 ELSE CHOOSE i \in ends : \A j \in ends : i <= j

Kept_Never(q, i) == FALSE

\* ^D at position i is left for the next read() if this one has got something.
Kept(q, i) == q.n - (i - 1) < q.target

Resumed(p, q) ==
  LET i == Stop(q.n)
      eof == i > 0 /\ input.buf[Slot(input.r + i - 1)] = "^D"
      k == IF i = 0 THEN CWord(input.w - input.r) ELSE IF eof /\ Kept(q, i) THEN i - 1 ELSE i
  IN  /\ input' = [input EXCEPT !.r = CWord(@ + k)]
      /\ lines' = SubSeq(lines, k + 1, Len(lines))
      /\ reader' = [reader EXCEPT ![p] = IF i > 0 THEN NotReading
                                         ELSE [asleep |-> TRUE, n |-> q.n - k, target |-> q.target]]
      /\ UNCHANGED edit

\* consoleread() from its start, or from a wakeup, to its end or its sleep.
Read(p) ==
  \/ /\ reader[p] = NotReading
     /\ \E n \in Lengths : Resumed(p, [asleep |-> FALSE, n |-> n, target |-> n])
  \/ /\ reader[p] # NotReading /\ ~reader[p].asleep
     /\ Resumed(p, reader[p])

\* kill() wakes a reader, which gives up if there is nothing to read.
Killed(p) ==
  /\ reader[p].asleep /\ input.r = input.w
  /\ reader' = [reader EXCEPT ![p] = NotReading]
  /\ UNCHANGED <<input, lines, edit>>
----------------------------------------------------------------------------
ConsoleInit ==
  /\ input = [buf |-> [i \in 0..(INPUT_BUF - 1) |-> "x"], r |-> 0, w |-> 0, e |-> 0]
  /\ lines = <<>> /\ edit = <<>> /\ reader = [p \in Readers |-> NotReading]

ConsoleNext ==
  \/ \E c \in {"x", "newline", "^D"} : Type(c)
  \/ Backspace \/ KillLine
  \/ \E p \in Readers : Read(p) \/ Killed(p)

ConsoleSpec == ConsoleInit /\ [][ConsoleNext]_consoleVars
----------------------------------------------------------------------------
\* The ring holds exactly the finished lines that were not read, in order,
\* and after them the line being edited, also when the indices wrap and when
\* the ring is full; editing never touches a finished line.
RingHoldsInput ==
  RingPart(input.r, input.w) = lines /\ RingPart(input.w, input.e) = edit

\* A reader that sleeps has nothing to read, and there is still room to type
\* the end of the line that will wake it.
ReadersNotStuck ==
  \A p \in Readers : reader[p].asleep => input.r = input.w /\ Room

\* What is typed gets through: nothing in the ring is lost or overwritten,
\* and nobody waits for a line that can no longer be finished.
TypedGetsThrough == RingHoldsInput /\ ReadersNotStuck

\* End of file stays visible: a ^D leaves the ring only through a read() that
\* returns nothing else, so a reader first gets what was typed before it.
EofAlone ==
  [][\A p \in Readers : Read(p) =>
       LET taken == SubSeq(lines, 1, Len(lines) - Len(lines'))
       IN  "^D" \in Range(taken) => taken = <<"^D">> /\ reader[p].n = reader[p].target]_consoleVars
=============================================================================
