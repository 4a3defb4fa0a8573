------------------------------- MODULE MCLan --------------------------------
(***************************************************************************)
(* Three hosts on an Ethernet that all run this code.                      *)
(***************************************************************************)
EXTENDS Lan

McLocal == Network(8, 1, Zero)

McClients == {<<"ip", UDP>>}

=============================================================================
