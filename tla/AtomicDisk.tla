----------------------------- MODULE AtomicDisk -----------------------------
(***************************************************************************)
(* What log.c promises its callers: operations see and modify the file     *)
(* system "fs"; a commit makes all of it durable at once, and only between *)
(* operations; after a crash the file system is the one last committed.    *)
(***************************************************************************)
CONSTANTS Procs, Blocks, Vals

VARIABLES fs,       \* contents as the running system sees them
          durable,  \* contents a crash now would leave
          active    \* processes between begin_op() and end_op()

vars == <<fs, durable, active>>

Init == /\ fs \in [Blocks -> Vals]
        /\ durable = fs
        /\ active = {}

Begin(p) == /\ p \notin active
            /\ active' = active \union {p}
            /\ UNCHANGED <<fs, durable>>

Write(p) == /\ p \in active
            /\ \E b \in Blocks, v \in Vals : fs' = [fs EXCEPT ![b] = v]
            /\ UNCHANGED <<durable, active>>

End(p) == /\ p \in active
          /\ active' = active \ {p}
          /\ UNCHANGED <<fs, durable>>

Commit == /\ active = {}
          /\ durable' = fs
          /\ UNCHANGED <<fs, active>>

Crash == /\ fs' = durable
         /\ active' = {}
         /\ UNCHANGED durable

Next == \/ \E p \in Procs : Begin(p) \/ Write(p) \/ End(p)
        \/ Commit \/ Crash

Spec == Init /\ [][Next]_vars
=============================================================================
