------------------------------- MODULE MCFile -------------------------------
(* Model-checking instances of module File. *)
EXTENDS File, TLC

CONSTANTS p1, p2

\* Fits into an empty pipe of two bytes, and only in part when one is there.
MCPayloads == {<<0, 0>>}
=============================================================================
