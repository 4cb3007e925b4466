------------------------------ MODULE MCPipes ------------------------------
(***************************************************************************)
(* Three children, so that one can be missing before, between and after    *)
(* others that write; the pipe holds fewer results than that, or all.      *)
(***************************************************************************)
EXTENDS Pipes

MCCapacities == {1, 2, 3}
=============================================================================
