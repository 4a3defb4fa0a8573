----------------------------- MODULE MCContext -----------------------------
(***************************************************************************)
(* A small instance of Context for TLC.                                    *)
(***************************************************************************)
EXTENDS Context, TLC

CONSTANTS idle, drv, t1, t2, isr, low, high, q1, q2

\* A priority queue belongs to the more urgent lock, a LIFO queue to the other one.
McQueueLock == (q1 :> high) @@ (q2 :> low)

\* A driver thread more urgent than two application threads of equal priority.
McPri == (idle :> 127) @@ (drv :> 64) @@ (t1 :> 80) @@ (t2 :> 80)

\* An isr lock, a lock whose ceiling is the application threads' own priority
\* and a more urgent lock that may be taken inside it.
McCeiling == (isr :> 0) @@ (low :> 80) @@ (high :> 16)

=============================================================================
