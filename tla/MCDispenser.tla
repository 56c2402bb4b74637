---------------------------- MODULE MCDispenser -----------------------------
(* Two threads with two handle variables each, over every mode; three blocks *)
(* let one be freed and made again while another is held.                    *)
EXTENDS Dispenser, TLC

CONSTANTS t1, t2, n1, n2, b1, b2, b3

MCThreads == {t1, t2}
MCNames == {n1, n2}
MCBlocks == {b1, b2, b3}
MCModes == {"Lock", "Trylock", "Drop"}
MCDropMode == {"Drop"}

MCSymmetry == Permutations(MCThreads) \cup Permutations(MCNames)
                \cup Permutations(MCBlocks)
=============================================================================
