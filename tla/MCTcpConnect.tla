------------------------------ MODULE MCTcpConnect -----------------------------
(***************************************************************************)
(* Three messages: two single buffers of three and two bytes, and a list   *)
(* of two nodes.                                                           *)
(***************************************************************************)
EXTENDS TcpConnect, TLC

CONSTANTS m1, m2, m3

Byte(m, i) == <<m, i>>
MCText == [m \in Messages |->
             CASE m = m1 -> <<<<Byte(m, 1), Byte(m, 2), Byte(m, 3)>>>>
               [] m = m2 -> <<<<Byte(m, 1), Byte(m, 2)>>>>
               [] m = m3 -> <<<<Byte(m, 1)>>, <<Byte(m, 2)>>>>]
=============================================================================
