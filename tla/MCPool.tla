------------------------------- MODULE MCPool -------------------------------
(* Pool on small instances. *)
EXTENDS Pool, TLC

CONSTANTS a1, a2, bot, rival, w1, w2

PoolSymmetry == Permutations({a1, a2} \cap Accounts) \cup Permutations({w1, w2} \cap Workers)
=============================================================================
