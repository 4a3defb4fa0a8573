------------------------------ MODULE MCThread ------------------------------
(***************************************************************************)
(* Three blocks: one thread may be created and another exit while the idle *)
(* thread frees a third.                                                   *)
(***************************************************************************)
EXTENDS Thread, TLC

Sym == Permutations(Blocks)

=============================================================================
