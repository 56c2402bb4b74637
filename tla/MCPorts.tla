------------------------------- MODULE MCPorts -------------------------------
(* A serial port with room for two poll threads, two sockets, two numbers. *)
EXTENDS Ports

CONSTANTS a, b, l1, l2
MCFds == 3..4
MCSockets == {a, b}
MCLoops == {l1, l2}
=============================================================================
