------------------------------ MODULE MCCircuit ------------------------------
(* Circuit for TLC: a fan-out to two input ports.  Each ring has two buffers *)
(* and the messages go more than twice round it.                            *)
EXTENDS Circuit

CONSTANTS p1, p2

FanOut == {p1, p2}
=============================================================================
