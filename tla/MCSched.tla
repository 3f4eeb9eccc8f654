------------------------------ MODULE MCSched ------------------------------
(***************************************************************************)
(* Model checking of Sched.  Shares are 10 and 20 percent; 252 path units  *)
(* make every stride they lead to exact.                                   *)
(*                                                                         *)
(* Two systems are checked side by side: the one of the cfg's constants,   *)
(* whose processes have threads, sleep and use the MLFQ, and Share, whose  *)
(* single-threaded processes take fixed shares, and end and are reaped.    *)
(***************************************************************************)
EXTENDS Sched

\* Process 1 is init; the others are single-threaded, or one of them has one
\* more thread.
Three == [m \in 1..3 |-> <<>>]
Threaded == [m \in {1, 2, 4} |-> IF m = 2 THEN <<3>> ELSE <<>>]

\* Short slices and allotments, so that every level is reached and left.
ShortAllot == <<1, 2, 2>>
ShortSlice == <<1, 2, 2>>

S == INSTANCE Sched WITH Threads <- Three, MaxTicks <- 10,
                         Calls <- {"fork", "leave", "reap", "share", "mlfq"}

VARIABLE sharing    \* whether the system is S

EitherInit == \/ sharing = FALSE /\ Init
              \/ sharing = TRUE /\ S!Init
EitherNext == \/ ~sharing /\ Next /\ UNCHANGED sharing
              \/ sharing /\ S!Next /\ UNCHANGED sharing
EitherSpec == EitherInit /\ [][EitherNext]_<<vars, sharing>>

\* The MLFQ's list in the system with threads, sleeping and the MLFQ: every
\* process of the MLFQ that waits is on it, nobody else's, and each node is
\* between the headers of its level and within its allotment, whatever
\* choosebymlfq(), lowerlevel() and delete() have done to it.
MlfqListRight == ~sharing => TypeOK /\ NobodyDropped /\ OnlyMlfqQueued /\ LevelsInOrder

\* SharesCapped of the system with fixed shares: cpu_share() grants at most
\* 20 percent in all, whoever has ended, left or been reaped.
ShareCap == sharing => S!SharesCapped

\* FairShares of that system: no client of the stride scheduler is ahead of
\* another that can run by more than one of its own turns.
ShareFair == sharing => S!FairShares

\* HighprQueued of that system: the node the MLFQ has chosen is on its list
\* after cpu_share() has deleted the caller's nodes.
ShareHighpr == sharing => S!HighprQueued
============================================================================
