-------------------------------- MODULE Grep --------------------------------
(***************************************************************************)
(* grep: the matcher for ^ . * $, and the loop that cuts what read()       *)
(* returns, in pieces of any size, into lines.                             *)
(***************************************************************************)
EXTENDS Integers, Sequences, SequencesExt

CONSTANTS Patterns, Texts(_),         \* patterns, and the inputs to search for each
          Strings,                    \* lines to try every pattern on
          BufSize                     \* sizeof(buf)

VARIABLES re, rest,      \* pattern, and the input not read yet
          gbuf, gout,    \* the first m characters of buf, and the lines written
          seen, dropped  \* ghosts: input read, and whether grep() has dropped some

grepVars == <<re, rest, gbuf, gout, seen, dropped>>

RECURSIVE matchhere(_, _), matchstar(_, _, _), LinesOf(_)

StarNext(c, t) == t # <<>> /\ (t[1] = c \/ c = ".")

matchhere(r, t) ==
  \/ r = <<>>
  \/ Len(r) > 1 /\ r[2] = "*" /\ matchstar(r[1], SubSeq(r, 3, Len(r)), t)
  \/ r = <<"$">> /\ t = <<>>
  \/ /\ r # <<>> /\ ~(Len(r) > 1 /\ r[2] = "*") /\ r # <<"$">>
     /\ t # <<>> /\ r[1] \in {".", t[1]} /\ matchhere(Tail(r), Tail(t))

matchstar(c, r, t) == matchhere(r, t) \/ (StarNext(c, t) /\ matchstar(c, r, Tail(t)))

match(r, t) ==
  IF r # <<>> /\ r[1] = "^" THEN matchhere(Tail(r), t)
  ELSE \E k \in 1..(Len(t) + 1) : matchhere(r, SubSeq(t, k, Len(t)))

\* The lines of a buffer, each without its newline, and the piece after them.
LinesOf(s) ==
  IF "nl" \notin ToSet(s) THEN <<s>>
  ELSE LET q == CHOOSE q \in 1..Len(s) : s[q] = "nl" /\ "nl" \notin ToSet(SubSeq(s, 1, q - 1))
       IN  <<SubSeq(s, 1, q - 1)>> \o LinesOf(SubSeq(s, q + 1, Len(s)))

Remains_All(lines, s) == s

\* What stays in buf: the piece of a line, unless buf has no newline.
Remains(lines, s) == IF Len(lines) = 1 THEN <<>> ELSE Last(lines)

Start(r, t) ==
  /\ re = <<>> /\ rest = <<>>
  /\ re' = r /\ rest' = t /\ gbuf' = <<>> /\ gout' = <<>> /\ seen' = <<>> /\ dropped' = FALSE

\* One turn of the loop of grep(), for a read() that returns n characters.
ReadSome(n) ==
  LET s == gbuf \o SubSeq(rest, 1, n)
      lines == LinesOf(s)
  IN  /\ n <= Len(rest) /\ n <= BufSize - Len(gbuf) - 1
      /\ rest' = SubSeq(rest, n + 1, Len(rest)) /\ seen' = seen \o SubSeq(rest, 1, n)
      /\ gout' = gout \o SelectSeq(Front(lines), LAMBDA t : match(re, t))
      /\ gbuf' = Remains(lines, s)
      /\ dropped' = (dropped \/ Len(lines) = 1)
      /\ UNCHANGED re

GrepInit == re = <<>> /\ rest = <<>> /\ gbuf = <<>> /\ gout = <<>> /\ seen = <<>> /\ dropped = FALSE
GrepNext ==
  \/ seen = <<>> /\ \E r \in Patterns : \E t \in Texts(r) : Start(r, t)
  \/ \E n \in 1..(BufSize - 1) : ReadSome(n)
GrepSpec == GrepInit /\ [][GrepNext]_grepVars
----------------------------------------------------------------------------
RECURSIVE Items(_)
\* A pattern as a sequence of characters, each repeated or not.
Items(r) ==
  IF r = <<>> THEN <<>>
  ELSE IF Len(r) > 1 /\ r[2] = "*" THEN <<<<r[1], TRUE>>>> \o Items(SubSeq(r, 3, Len(r)))
  ELSE <<<<r[1], FALSE>>>> \o Items(Tail(r))

Covers(item, s) ==
  /\ ~item[2] => Len(s) = 1
  /\ \A k \in 1..Len(s) : item[1] \in {".", s[k]}

\* Some substring of t, that starts t if anchored and ends it if the pattern
\* ends in $, is the items of the pattern one after the other.
Matches(r, t) ==
  LET anchored == r # <<>> /\ r[1] = "^"
      all == Items(IF anchored THEN Tail(r) ELSE r)
      ended == all # <<>> /\ Last(all) = <<"$", FALSE>>
      items == IF ended THEN Front(all) ELSE all
  IN  \E cut \in [0..Len(items) -> 0..Len(t)] :
        /\ anchored => cut[0] = 0
        /\ ended => cut[Len(items)] = Len(t)
        /\ \A i \in 1..Len(items) : cut[i - 1] <= cut[i] /\ Covers(items[i], SubSeq(t, cut[i - 1] + 1, cut[i]))

\* match() finds a pattern in a line exactly when it is there.
MatcherExact == gout = <<>> => \A t \in Strings : match(re, t) <=> Matches(re, t)

\* However read() cuts the input, the lines written are the lines of it that
\* match, and the piece of the next line is kept, until a read() leaves the
\* buffer without a newline, which drops what is in it.
LinesFound ==
  ~dropped => /\ gout = SelectSeq(Front(LinesOf(seen)), LAMBDA t : Matches(re, t))
              /\ gbuf = Last(LinesOf(seen)) /\ Len(gbuf) < BufSize - 1
=============================================================================
