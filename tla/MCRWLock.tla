------------------------------ MODULE MCRWLock ------------------------------
(***************************************************************************)
(* Four contexts of three priorities on one reader/writer lock.            *)
(***************************************************************************)
EXTENDS RWLock, TLC

CONSTANTS a, b, c1, c2

McPri == (a :> 16) @@ (b :> 64) @@ (c1 :> 80) @@ (c2 :> 80)

=============================================================================
