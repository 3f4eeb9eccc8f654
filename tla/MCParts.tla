------------------------------ MODULE MCParts -------------------------------
(***************************************************************************)
(* Small instances of the components that share no state with each other   *)
(* in the code paths modelled: each behaviour picks one of them and runs   *)
(* it, the others stay as they start.                                      *)
(***************************************************************************)
EXTENDS Content, Bcache, Vm, Console, Spinlock, Sh, Umalloc, BatchShell, Grep

VARIABLE part

AnyLength(n, S) == UNION {[1..k -> S] : k \in 0..n}

\* The first file reaches into the triple-indirect blocks.
MCMkfsSize == <<3, 1>>
MCMaxSize == <<34, 3>>
MCSbrkSizes == {2, -2}

\* Every line of four tokens, and longer ones with nested blocks and pipes.
MCLines ==
  AnyLength(4, {"a", "|", "&", ";", "(", ")", "<", ">", "+"}) \cup
  { <<"a", "|", "a", "|", "a">>,
    <<"(", "a", "|", "a", ")", "<", "a", "|", "a", ">", "a">>,
    <<"a", "|", "(", "a", ";", "a", ")", "|", "a">>,
    <<"(", "a", "&", ";", "a", "|", "a", ")", ">", "a", "<", "a", "&">>,
    <<"a", "<", "a", "<", "a", "|", "a", "a", ">", "a", "+", "a", ";", "a">>,
    <<"(", "(", "a", ";", "a", ")", "|", "(", "a", "|", "a", ")", ")", "&", ";", "a", "|", "a">> }

MCInputs == AnyLength(5, {"a", " ", ";", "r"})

\* All patterns are tried on MCStrings; the input loop runs for one of them.
MCPatterns == AnyLength(4, {"x", ".", "*", "^", "$"})
MCTexts(r) == IF r = <<"x">> THEN AnyLength(6, {"x", "y", "nl"}) ELSE {<<>>}
MCStrings == AnyLength(3, {"x", "y"})

Init ==
  /\ part \in {"content", "bcache", "vm", "console", "spinlock", "sh", "umalloc", "batch", "grep"}
  /\ ContentInit /\ BcacheInit /\ VmInit /\ ConsoleInit /\ SpinInit
  /\ ShInit /\ UmallocInit /\ BatchInit /\ GrepInit

Next ==
  \/ /\ part = "content" /\ ContentNext
     /\ UNCHANGED <<part, bcacheVars, vmVars, consoleVars, spinVars, shVars, umallocVars, batchVars, grepVars>>
  \/ /\ part = "bcache" /\ BcacheNext
     /\ UNCHANGED <<part, contentVars, vmVars, consoleVars, spinVars, shVars, umallocVars, batchVars, grepVars>>
  \/ /\ part = "vm" /\ VmNext
     /\ UNCHANGED <<part, contentVars, bcacheVars, consoleVars, spinVars, shVars, umallocVars, batchVars, grepVars>>
  \/ /\ part = "console" /\ ConsoleNext
     /\ UNCHANGED <<part, contentVars, bcacheVars, vmVars, spinVars, shVars, umallocVars, batchVars, grepVars>>
  \/ /\ part = "spinlock" /\ SpinNext
     /\ UNCHANGED <<part, contentVars, bcacheVars, vmVars, consoleVars, shVars, umallocVars, batchVars, grepVars>>
  \/ /\ part = "sh" /\ ShNext
     /\ UNCHANGED <<part, contentVars, bcacheVars, vmVars, consoleVars, spinVars, umallocVars, batchVars, grepVars>>
  \/ /\ part = "umalloc" /\ UmallocNext
     /\ UNCHANGED <<part, contentVars, bcacheVars, vmVars, consoleVars, spinVars, shVars, batchVars, grepVars>>
  \/ /\ part = "batch" /\ BatchNext
     /\ UNCHANGED <<part, contentVars, bcacheVars, vmVars, consoleVars, spinVars, shVars, umallocVars, grepVars>>
  \/ /\ part = "grep" /\ GrepNext
     /\ UNCHANGED <<part, contentVars, bcacheVars, vmVars, consoleVars, spinVars, shVars, umallocVars, batchVars>>

vars == <<part, contentVars, bcacheVars, vmVars, consoleVars, spinVars, shVars, umallocVars, batchVars, grepVars>>
Spec == Init /\ [][Next]_vars
----------------------------------------------------------------------------
\* The properties that are costly to evaluate, where their part runs.

\* Files are disjoint flat arrays: a file reads as what was written to it,
\* whatever levels of indirection bmap() takes it through, and a block is
\* marked in the bitmap exactly when one file reaches it, once.
ContentExact == part = "content" => FlatContents /\ BlocksAccounted

\* TransactionFits: what one chunk of filewrite() logs fits the operation.
ContentFits == part = "content" => TransactionFits

\* grep writes the lines that match: match() finds a pattern exactly when it
\* is there, and no line is lost or split between two read() calls.
GrepExact == part = "grep" => MatcherExact /\ LinesFound
=============================================================================
