--------------------------- MODULE MCBoardDaemons ---------------------------
(* The two daemons of a board, called by two threads.                        *)
EXTENDS BoardDaemons

CONSTANTS c1, c2

MCDaemons == {Wifi, Tbd}
MCCallers == {c1, c2}
=============================================================================
