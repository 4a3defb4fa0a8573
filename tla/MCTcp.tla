------------------------------- MODULE MCTcp -------------------------------
(***************************************************************************)
(* A connection between two hosts, with a few payloads and faults.         *)
(***************************************************************************)
EXTENDS Tcp, TLC

McSend == (A :> 2) @@ (B :> 1)
McSend0 == (A :> 1) @@ (B :> 0)

=============================================================================
