------------------------------ MODULE MCEventLoop ------------------------------
(***************************************************************************)
(* Two loops, A and B, and threads that hand them tasks.  a1, a2 .. are    *)
(* tasks of loop A, b1, b2 .. of loop B.                                   *)
(***************************************************************************)
EXTENDS EventLoop, TLC

CONSTANTS A, B, a1, a2, a3, b1, b2

MCHome == [k \in Tasks |-> IF k \in {a1, a2, a3} THEN A ELSE B]

\* a1 hands a2 to its own loop, and a2 hands b1 to the other.
MCDescending == [k \in Tasks |-> CASE k = a1 -> a2 [] k = a2 -> b1 [] OTHER -> NoTask]

\* a1 hands a task to B while b1 hands one to A.
MCCrossing ==
  [k \in Tasks |-> CASE k = a1 -> b2 [] k = b1 -> a2 [] OTHER -> NoTask]
=============================================================================
