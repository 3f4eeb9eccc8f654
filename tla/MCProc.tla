------------------------------- MODULE MCProc -------------------------------
(***************************************************************************)
(* Model checking of Proc: the configurations differ in the number of      *)
(* slots and CPUs and in the system calls threads make.                    *)
(***************************************************************************)
EXTENDS Proc
============================================================================
