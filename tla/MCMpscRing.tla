----------------------------- MODULE MCMpscRing -----------------------------
(* Instances of MpscRing for TLC: one producer and three slots wrap the ring *)
(* around with every fill level; two producers show the loss of the claim.   *)
EXTENDS MpscRing

CONSTANTS p1, p2, a, b

MCOne == {p1}
MCTwo == {p1, p2}
MCPayloads == {a, b}
=============================================================================
