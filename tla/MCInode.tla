------------------------------- MODULE MCInode ------------------------------
(* Model-checking instances of module Inode. *)
EXTENDS Inode, TLC

CONSTANTS p1, p2

A  == <<"a">>
B  == <<"b">>
AA == <<"a", "a">>

One(call, path) == <<call, path, <<>>>>

\* "a" is a file or a directory, "b" another name of the file.
MCSysCalls ==
  [p \in Procs |->
     IF p = p1 THEN {One("create", A), One("create", AA), One("open", A), One("chdir", A),
                     One("unlink", A), <<"link", A, B>>}
     ELSE {One("create", A), One("mkdir", A), One("mknod", B), One("unlink", A), One("unlink", AA),
           One("unlink", B)}]
=============================================================================
