------------------------------ MODULE MCMadonna ------------------------------
(* One hon-opt dock, two command threads, two workers of the four.          *)
EXTENDS Madonna

CONSTANTS d1, c1, c2, w1, w2
MCDocks == {d1}
MCCmds == {c1, c2}
MCWorkers == {w1, w2}
=============================================================================
