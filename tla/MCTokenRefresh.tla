--------------------------- MODULE MCTokenRefresh ---------------------------
(* TokenRefresh on small instances; runs, accounts and requests are interchangeable. *)
EXTENDS TokenRefresh, TLC

RefreshSymmetry == Permutations(Runs) \cup Permutations(Accounts) \cup Permutations(Others)
=============================================================================
