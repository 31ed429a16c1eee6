------------------------------ MODULE MCServer ------------------------------
(* An instance of Server with named clients: c1 an agent, c2 a window.     *)
EXTENDS Server

CONSTANTS c1, c2, w1, q1
=============================================================================
