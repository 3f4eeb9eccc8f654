----------------------------- MODULE BatchShell -----------------------------
(***************************************************************************)
(* proj_shell: the commands of a line, separated by semicolons, run at the *)
(* same time, and the shell waits for all of them.  A line is a sequence   *)
(* of "a" (a letter), " ", "r" (white space to isspace() but not to        *)
(* strtok()) and ";"; a word is the interval of its places.                *)
(***************************************************************************)
EXTENDS Integers, Sequences, FiniteSets, SequencesExt

CONSTANTS Inputs

VARIABLES input_line,     \* the trimmed line
          index,          \* the commands that command_index leads to
          commands_num,   \* g_commands_num
          kids, waits     \* children that run, and wait() calls to come

batchVars == <<input_line, index, commands_num, kids, waits>>

isspace(c) == c \in {" ", "r"}
Solid(s) == {k \in 1..Len(s) : ~isspace(s[k])}
Least(S) == CHOOSE x \in S : \A y \in S : x <= y
Greatest(S) == CHOOSE x \in S : \A y \in S : y <= x

LeftRightTrim(s) == IF Solid(s) = {} THEN <<>> ELSE SubSeq(s, Least(Solid(s)), Greatest(Solid(s)))

RECURSIVE strtok(_, _, _, _), CountRuns(_, _)

\* The pieces of the places i..j of s between delimiters, as strtok() finds
\* them: never an empty one.
strtok(s, i, j, delim) ==
  LET from == {k \in i..j : s[k] \notin delim}
      ends == {k \in Least(from)..(j + 1) : k = j + 1 \/ s[k] \in delim}
  IN  IF from = {} THEN <<>>
      ELSE <<<<Least(from), Least(ends) - 1>>>> \o strtok(s, Least(ends) + 1, j, delim)

AfterRun(s, i) == Least({k \in i..(Len(s) + 1) : k > Len(s) \/ ~(isspace(s[k]) \/ s[k] = ";")})

CountRuns_Skips(s, i) ==
  IF i > Len(s) THEN 1
  ELSE CountRuns(s, AfterRun(s, i) + 2) + IF \E k \in i..(AfterRun(s, i) - 1) : s[k] = ";" THEN 1 ELSE 0

\* The counting loop: one command more for every run of separators that has a
\* semicolon; the character after a run is skipped.
CountRuns(s, i) ==
  IF i > Len(s) THEN 1
  ELSE CountRuns(s, AfterRun(s, i) + 1) + IF \E k \in i..(AfterRun(s, i) - 1) : s[k] = ";" THEN 1 ELSE 0

\* The words of the chunk c.
Words(s, c) == strtok(s, c[1], c[2], {" "})

Chunks(s) == strtok(s, 1, Len(s), {";"})
Blank(s, c) == Words(s, c) = <<>>

\* CommandParser(): the vector of each command that is not blank; command_index
\* has an entry for each of them, g_commands_num counts the blank ones too.
CommandParser(s) ==
  LET some == SelectSeq(Chunks(s), LAMBDA c : ~Blank(s, c))
  IN  [i \in 1..Len(some) |-> Words(s, some[i])]
----------------------------------------------------------------------------
Undefined == <<"?">>

\* ForkAndExec() up to its waits: one child for each number below
\* g_commands_num; an entry that was never written is anything.
ForkAndExec(s) ==
  /\ waits = 0
  /\ input_line' = s
  /\ index' = CommandParser(s)
  /\ commands_num' = Len(Chunks(s))
  /\ kids' = 1..Len(Chunks(s))
  /\ waits' = Len(Chunks(s))

\* main() trims what fgets() read, and the parser trims it again.
Line(s) == ForkAndExec(LeftRightTrim(LeftRightTrim(s)))

Argv(i) == IF i \in DOMAIN index THEN index[i] ELSE Undefined

\* A child ends and one wait() returns; after the last the line is done with.
ChildEnds(i) ==
  /\ i \in kids /\ waits > 0
  /\ kids' = kids \ {i} /\ waits' = waits - 1
  /\ IF waits = 1 THEN input_line' = <<>> /\ index' = <<>> /\ commands_num' = 0
                  ELSE UNCHANGED <<input_line, index, commands_num>>

BatchInit == input_line = <<>> /\ index = <<>> /\ commands_num = 0 /\ kids = {} /\ waits = 0
BatchNext ==
  \/ \E s \in Inputs : Line(s)
  \/ \E i \in kids : ChildEnds(i)
BatchSpec == BatchInit /\ [][BatchNext]_batchVars
----------------------------------------------------------------------------
Sep == {" ", ";"}
IsWord(s, a, b) ==
  /\ \A k \in a..b : s[k] \notin Sep
  /\ a = 1 \/ s[a - 1] \in Sep
  /\ b = Len(s) \/ s[b + 1] \in Sep
AllWords(s) == {ab \in (1..Len(s)) \X (1..Len(s)) : ab[1] <= ab[2] /\ IsWord(s, ab[1], ab[2])}
Divided(s, v, w) == \E k \in v[2]..w[1] : s[k] = ";"
NoBlankCommand(s) ==
  \A i, j \in 1..Len(s) : s[i] = ";" /\ s[j] = ";" /\ i + 1 < j => \E k \in (i + 1)..(j - 1) : ~isspace(s[k])

\* Every word of the line is in one command, in order, and commands are what
\* the semicolons divide; as long as no command is blank (only white space
\* between two semicolons) every child finds its command.
CommandsRun ==
  LET s == input_line
  IN  commands_num > 0 =>
        /\ UNION {ToSet(index[i]) : i \in DOMAIN index} = AllWords(s)
        /\ \A i, j \in DOMAIN index : \A v \in ToSet(index[i]), w \in ToSet(index[j]) :
             v[2] < w[1] => (i < j <=> Divided(s, v, w)) /\ i <= j
        /\ \A i \in DOMAIN index : \A m, n \in DOMAIN index[i] : m < n => index[i][m][2] < index[i][n][1]
        /\ NoBlankCommand(s) => \A i \in 1..commands_num : Argv(i) # Undefined

\* The first count, which the arrays of commands are allocated by, is never
\* below the number of commands that the second pass stores, if none is blank.
CommandsFit == NoBlankCommand(input_line) => commands_num <= CountRuns(input_line, 1)

\* The shell is back at its prompt only when every child has ended.
PromptAfterAll == waits = 0 => kids = {}

\* A line runs the commands it has, in arrays that are large enough, and the
\* prompt comes after the last of them.
LineRunsAll == CommandsRun /\ CommandsFit /\ PromptAfterAll
=============================================================================
