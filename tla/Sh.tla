--------------------------------- MODULE Sh ---------------------------------
(***************************************************************************)
(* The user shell sh.c on lines of tokens, "a" being any word: the         *)
(* recursive-descent parser, and runcmd() with the processes it forks, the *)
(* pipes it makes and the descriptors each process is left with.  A word   *)
(* or file name is known by its place in the line, a process by its path   *)
(* from the child that the main loop forks.                                *)
(***************************************************************************)
EXTENDS Integers, Sequences, FiniteSets, SequencesExt

CONSTANTS Lines, MAXARGS, NOFILES

ASSUME ShAssumption == MAXARGS \in Nat \ {0} /\ NOFILES > 4

VARIABLES shell,    \* "prompt", "parse", "wait" or "exit"
          shline,   \* the line it waits for
          parsed,   \* what parsecmd() made of it
          procs     \* the points where the processes exec() or wait()

shVars == <<shell, shline, parsed, procs>>

execcmd(argv) == [type |-> "exec", argv |-> argv]
redircmd(c, file, fd) == [type |-> "redir", cmd |-> c, file |-> file, fd |-> fd]
pipecmd(l, r) == [type |-> "pipe", left |-> l, right |-> r]
listcmd(l, r) == [type |-> "list", left |-> l, right |-> r]
backcmd(c) == [type |-> "back", cmd |-> c]

Tok(s, i) == IF i <= Len(s) THEN s[i] ELSE "end"
Got(cmd, i) == [ok |-> TRUE, cmd |-> cmd, i |-> i]
Panic == [ok |-> FALSE, cmd |-> execcmd(<<>>), i |-> 0]

RECURSIVE parseline(_, _), parsepipe(_, _), parseredirs(_, _, _), Args(_, _, _, _), backs(_, _)

\* The redirections from token i on, after the ones already met.
parseredirs(s, i, redirs) ==
  IF Tok(s, i) \notin {"<", ">", "+"} THEN [ok |-> TRUE, redirs |-> redirs, i |-> i]
  ELSE IF Tok(s, i + 1) # "a" THEN [ok |-> FALSE, redirs |-> redirs, i |-> i]
  ELSE parseredirs(s, i + 2, Append(redirs, [file |-> i + 1, fd |-> IF s[i] = "<" THEN 0 ELSE 1]))

\* Each redirection goes around what is there: the last is outermost.
Wrap(cmd, redirs) == FoldLeft(LAMBDA c, r : redircmd(c, r.file, r.fd), cmd, redirs)

TooMany(argv) == Len(argv) >= MAXARGS

\* parseexec() after its first redirections: words, each with what follows it.
Args(s, i, argv, redirs) ==
  IF Tok(s, i) \in {"|", ")", "&", ";", "end"} THEN Got(Wrap(execcmd(argv), redirs), i)
  ELSE IF s[i] # "a" \/ TooMany(Append(argv, i)) THEN Panic
  ELSE LET r == parseredirs(s, i + 1, redirs)
       IN  IF r.ok THEN Args(s, r.i, Append(argv, i), r.redirs) ELSE Panic

parseblock(s, i) ==
  LET c == parseline(s, i + 1)
      r == parseredirs(s, c.i + 1, <<>>)
  IN  IF c.ok /\ Tok(s, c.i) = ")" /\ r.ok THEN Got(Wrap(c.cmd, r.redirs), r.i) ELSE Panic

parseexec(s, i) ==
  IF Tok(s, i) = "(" THEN parseblock(s, i)
  ELSE LET r == parseredirs(s, i, <<>>)
       IN  IF r.ok THEN Args(s, r.i, <<>>, r.redirs) ELSE Panic

Joined(l, r, cmd) == IF l.ok /\ r.ok THEN Got(cmd, r.i) ELSE Panic

parsepipe(s, i) ==
  LET l == parseexec(s, i)
  IN  IF ~l.ok \/ Tok(s, l.i) # "|" THEN l
      ELSE LET r == parsepipe(s, l.i + 1) IN Joined(l, r, pipecmd(l.cmd, r.cmd))

backs(s, c) == IF c.ok /\ Tok(s, c.i) = "&" THEN backs(s, Got(backcmd(c.cmd), c.i + 1)) ELSE c

RestOfLine_Pipe(s, i) == parsepipe(s, i)

\* What may follow a semicolon.
RestOfLine(s, i) == parseline(s, i)

parseline(s, i) ==
  LET l == backs(s, parsepipe(s, i))
  IN  IF ~l.ok \/ Tok(s, l.i) # ";" THEN l
      ELSE LET r == RestOfLine(s, l.i + 1) IN Joined(l, r, listcmd(l.cmd, r.cmd))

parsecmd(s) ==
  LET c == parseline(s, 1) IN IF c.ok /\ c.i = Len(s) + 1 THEN c ELSE Panic

RECURSIVE nulterminate(_)

\* The words that get a terminating NUL.
nulterminate(c) ==
  CASE c.type = "exec" -> ToSet(c.argv)
    [] c.type = "redir" -> nulterminate(c.cmd) \cup {c.file}
    [] c.type = "back" -> nulterminate(c.cmd)
    [] OTHER -> nulterminate(c.left) \cup nulterminate(c.right)
----------------------------------------------------------------------------
Closed == <<"closed", <<>>>>
Tty == <<"console", <<>>>>
close(fds, n) == [fds EXCEPT ![n] = Closed]
Lowest(fds) == CHOOSE n \in DOMAIN fds : fds[n] = Closed /\ \A m \in DOMAIN fds : fds[m] = Closed => n <= m
\* open(), dup() and pipe() take the lowest free descriptor.
Install(fds, end) == [fds EXCEPT ![Lowest(fds)] = end]
dup(fds, n) == Install(fds, fds[n])

Rd(at) == <<"r", at>>
Wr(at) == <<"w", at>>
OnFile(k) == <<"file", <<k>>>>
Unforked(at) == <<"fork", at>>

\* A child of a pipe makes its end descriptor n and closes the pipe's own.
PipeChild(fds, n, p0, p1) == close(close(dup(close(fds, n), IF n = 1 THEN p1 ELSE p0), p0), p1)

PipeParent_Open(fds, p0, p1) == close(fds, p0)
PipeParent(fds, p0, p1) == close(close(fds, p0), p1)

Execs(at, c, fds) == IF c.argv = <<>> THEN {} ELSE {[at |-> at, argv |-> c.argv, fds |-> fds, waits |-> {}]}
Waits(at, fds, children) == {[at |-> at, argv |-> <<>>, fds |-> fds, waits |-> children]}

RECURSIVE runcmd(_, _, _, _)

\* The processes of a command run as process `at` with descriptors fds; bad is
\* the place of a file that open() refuses, or the path of a process that
\* fork() cannot make, whose parent gives up.
runcmd(c, at, fds, bad) ==
  CASE c.type = "exec" -> Execs(at, c, fds)
    [] c.type = "redir" ->
         IF bad = OnFile(c.file) THEN {}
         ELSE runcmd(c.cmd, at, Install(close(fds, c.fd), OnFile(c.file)), bad)
    [] c.type = "list" ->
         IF bad = Unforked(Append(at, 1)) THEN {}
         ELSE runcmd(c.left, Append(at, 1), fds, bad) \cup Waits(at, fds, {Append(at, 1)})
                \cup runcmd(c.right, at, fds, bad)
    [] c.type = "back" -> IF bad = Unforked(Append(at, 1)) THEN {} ELSE runcmd(c.cmd, Append(at, 1), fds, bad)
    [] c.type = "pipe" ->
         LET p0 == Lowest(fds)
             p1 == Lowest(Install(fds, Rd(at)))
             both == Install(Install(fds, Rd(at)), Wr(at))
             left == runcmd(c.left, Append(at, 1), PipeChild(both, 1, p0, p1), bad)
         IN  IF bad = Unforked(Append(at, 1)) THEN {}
             ELSE IF bad = Unforked(Append(at, 2)) THEN left
             ELSE left \cup runcmd(c.right, Append(at, 2), PipeChild(both, 0, p0, p1), bad)
                       \cup Waits(at, PipeParent(both, p0, p1), {Append(at, 1), Append(at, 2)})
----------------------------------------------------------------------------
\* The shell makes sure that descriptors 0, 1 and 2 are the console.
ShFds == [n \in 0..(NOFILES - 1) |-> IF n < 3 THEN Tty ELSE Closed]

Faults(s) == {OnFile(k) : k \in 1..Len(s)} \cup {Unforked(at) : at \in {<<1>>, <<2>>, <<1, 1>>, <<2, 1>>, <<2, 2>>}}

\* main(): read a line, and fork a child that parses it.
Getcmd(s) ==
  /\ shell = "prompt"
  /\ shell' = "parse" /\ shline' = s /\ parsed' = parsecmd(s)
  /\ UNCHANGED procs

\* The child runs the command, or panics, and the shell waits for it.
Run(bad) ==
  /\ shell = "parse"
  /\ shell' = "wait"
  /\ procs' = IF parsed.ok THEN runcmd(parsed.cmd, <<>>, ShFds, bad) ELSE {}
  /\ UNCHANGED <<shline, parsed>>

ShWait ==
  /\ shell = "wait"
  /\ shell' = "prompt" /\ shline' = <<>> /\ parsed' = Panic /\ procs' = {}

\* The end of the input, or fork1() failing in the shell itself.
ShExit ==
  /\ shell = "prompt"
  /\ shell' = "exit"
  /\ UNCHANGED <<shline, parsed, procs>>

ShInit == shell = "prompt" /\ shline = <<>> /\ parsed = Panic /\ procs = {}
ShNext ==
  \/ \E s \in Lines : Getcmd(s)
  \/ \E bad \in {Closed} \cup Faults(shline) : Run(bad)
  \/ ShWait \/ ShExit
ShSpec == ShInit /\ [][ShNext]_shVars
----------------------------------------------------------------------------
(* The grammar, as the set of the trees of the tokens i..j-1 of a line.    *)
RECURSIVE LineTrees(_, _, _), HeadTrees(_, _, _), PipeTrees(_, _, _)

IsRedir(s, k, j) == s[k] \in {"<", ">", "+"} /\ k + 1 < j /\ s[k + 1] = "a"
Arg(s, i, k) == s[k] = "a" /\ (k > i => s[k - 1] \notin {"<", ">", "+"})
RedirsOf(s, i, j) ==
  LET ks == SelectSeq([k \in 1..(j - i) |-> i + k - 1], LAMBDA k : s[k] \in {"<", ">", "+"})
  IN  [n \in 1..Len(ks) |-> [file |-> ks[n] + 1, fd |-> IF s[ks[n]] = "<" THEN 0 ELSE 1]]
ArgsOf(s, i, j) == SelectSeq([k \in 1..(j - i) |-> i + k - 1], LAMBDA k : Arg(s, i, k))

RECURSIVE Around(_, _, _)
\* The first n redirections around a command: the n-th is outermost.
Around(c, redirs, n) == IF n = 0 THEN c ELSE redircmd(Around(c, redirs, n - 1), redirs[n].file, redirs[n].fd)

Simple(s, i, j) == \A k \in i..(j - 1) : s[k] = "a" \/ IsRedir(s, k, j)
WithRedirs(c, s, i, j) == Around(c, RedirsOf(s, i, j), Len(RedirsOf(s, i, j)))

CommandTrees(s, i, j) ==
  (IF Simple(s, i, j) /\ Len(ArgsOf(s, i, j)) < MAXARGS
   THEN {WithRedirs(execcmd(ArgsOf(s, i, j)), s, i, j)} ELSE {})
  \cup UNION {{WithRedirs(c, s, k + 1, j) : c \in LineTrees(s, i + 1, k)} :
                k \in {k \in (i + 1)..(j - 1) :
                         s[i] = "(" /\ s[k] = ")" /\ Simple(s, k + 1, j) /\ ArgsOf(s, k + 1, j) = <<>>}}

PipeTrees(s, i, j) ==
  CommandTrees(s, i, j) \cup
    UNION {{pipecmd(l, r) : l \in CommandTrees(s, i, k), r \in PipeTrees(s, k + 1, j)} :
             k \in {k \in i..(j - 1) : s[k] = "|"}}

HeadTrees(s, i, j) ==
  PipeTrees(s, i, j) \cup
    (IF j > i /\ s[j - 1] = "&" THEN {backcmd(c) : c \in HeadTrees(s, i, j - 1)} ELSE {})

LineTrees(s, i, j) ==
  HeadTrees(s, i, j) \cup
    UNION {{listcmd(l, r) : l \in HeadTrees(s, i, k), r \in LineTrees(s, k + 1, j)} :
             k \in {k \in i..(j - 1) : s[k] = ";"}}

\* The parser accepts exactly the lines that the grammar has a tree for, the
\* tree is the only one, and every word of the line gets its terminator.
ParsesGrammar ==
  shell = "parse" =>
    /\ LineTrees(shline, 1, Len(shline) + 1) = IF parsed.ok THEN {parsed.cmd} ELSE {}
    /\ parsed.ok => nulterminate(parsed.cmd) = {k \in 1..Len(shline) : shline[k] = "a"}

RECURSIVE Wiring(_, _, _, _)
\* What each program should read and write, given what the command does.
Wiring(c, at, in, out) ==
  CASE c.type = "exec" -> IF c.argv = <<>> THEN {} ELSE {<<at, c.argv, in, out>>}
    [] c.type = "redir" -> IF c.fd = 0 THEN Wiring(c.cmd, at, OnFile(c.file), out)
                                       ELSE Wiring(c.cmd, at, in, OnFile(c.file))
    [] c.type = "list" -> Wiring(c.left, Append(at, 1), in, out) \cup Wiring(c.right, at, in, out)
    [] c.type = "back" -> Wiring(c.cmd, Append(at, 1), in, out)
    [] c.type = "pipe" -> Wiring(c.left, Append(at, 1), in, Wr(at)) \cup Wiring(c.right, Append(at, 2), Rd(at), out)

\* Every program starts with its own end of its own pipe or file as standard
\* input and output, the console as standard error, and nothing else open,
\* whatever nesting it is found in and whichever open() or fork() failed.
ProgramsWired ==
  \A p \in procs : p.argv # <<>> =>
    /\ <<p.at, p.argv, p.fds[0], p.fds[1]>> \in Wiring(parsed.cmd, <<>>, Tty, Tty)
    /\ p.fds[2] = Tty /\ \A n \in 3..(NOFILES - 1) : p.fds[n] = Closed

\* x cannot end before y: it waits for y, or reads a pipe that y can write.
EndsAfter(x, y) ==
  \E p \in procs : p.at = x /\
    \/ y \in p.waits
    \/ \E q \in procs : /\ q.at = y /\ p.argv # <<>> /\ p.fds[0][1] = "r"
                        /\ \E n \in DOMAIN q.fds : q.fds[n] = Wr(p.fds[0][2])

\* Nobody waits for itself: programs that read to the end of their input all
\* get there, because no process of the line that waits, or reads, keeps open
\* the end of a pipe whose reader it waits for.
LineEnds ==
  LET at == {p.at : p \in procs}
  IN  ~\E S \in SUBSET at : S # {} /\ \A x \in S : \E y \in S : EndsAfter(x, y)

\* A line runs as it says: every program is connected as it should be, and
\* the line comes to its end.
LineRuns == ProgramsWired /\ LineEnds
=============================================================================
