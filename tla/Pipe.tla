-------------------------------- MODULE Pipe --------------------------------
(***************************************************************************)
(* The buffer of a pipe (struct pipe and the loops of pipe.c) as a value:  *)
(* a ring of PIPESIZE bytes with two counters that only grow, in unsigned  *)
(* words of WORD values (2^32 in the kernel).  Module File has the         *)
(* processes, the descriptors and the sleeping.                            *)
(***************************************************************************)
EXTENDS Integers, Sequences

CONSTANTS Bytes, PIPESIZE, WORD

ASSUME PipeAssumption ==
  /\ Bytes # {} /\ PIPESIZE \in Nat \ {0} /\ WORD \in Nat
  /\ WORD % PIPESIZE = 0 /\ WORD >= 2 * PIPESIZE

Word(n) == n % WORD

PipeType == [data : [0..(PIPESIZE - 1) -> Bytes], nread : 0..(WORD - 1), nwrite : 0..(WORD - 1),
             readopen : BOOLEAN, writeopen : BOOLEAN, page : BOOLEAN]

\* What pipealloc() makes of a page; page says that kalloc() has given it out.
NewPipe == [data |-> [i \in 0..(PIPESIZE - 1) |-> CHOOSE b \in Bytes : TRUE],
            nread |-> 0, nwrite |-> 0, readopen |-> TRUE, writeopen |-> TRUE, page |-> TRUE]
NoPipe == [NewPipe EXCEPT !.readopen = FALSE, !.writeopen = FALSE, !.page = FALSE]

Full_Signed(p) == p.nwrite >= p.nread + PIPESIZE

\* The tests of pipewrite() and of piperead().
Full(p) == p.nwrite = Word(p.nread + PIPESIZE)
Empty(p) == p.nread = p.nwrite

Used(p) == Word(p.nwrite - p.nread)

\* The bytes in the pipe, the next one to be read first.
Content(p) == [i \in 1..Used(p) |-> p.data[Word(p.nread + i - 1) % PIPESIZE]]

Put(p, b) == [p EXCEPT !.data[p.nwrite % PIPESIZE] = b, !.nwrite = Word(@ + 1)]

FillOne(q, b) ==
  IF Full(q.pipe) THEN q ELSE [pipe |-> Put(q.pipe, b), rest |-> Tail(q.rest)]

\* The loop of pipewrite() up to its end or to a full pipe: the pipe, and
\* the bytes that are left.
Fill(p, s) ==
  LET upto[i \in 0..Len(s)] ==
        IF i = 0 THEN [pipe |-> p, rest |-> s] ELSE FillOne(upto[i - 1], s[i])
  IN  upto[Len(s)]

DrainOne(q) ==
  IF Empty(q.pipe) THEN q
  ELSE [pipe |-> [q.pipe EXCEPT !.nread = Word(@ + 1)],
        got  |-> Append(q.got, q.pipe.data[q.pipe.nread % PIPESIZE])]

\* The copying loop of piperead(): at most n bytes, fewer when the pipe is empty.
Drain(p, n) ==
  LET upto[i \in 0..n] ==
        IF i = 0 THEN [pipe |-> p, got |-> <<>>] ELSE DrainOne(upto[i - 1])
  IN  upto[n]
=============================================================================
