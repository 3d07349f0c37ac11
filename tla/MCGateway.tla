------------------------------ MODULE MCGateway ------------------------------
(* One handle per client driver.                                             *)
EXTENDS Gateway
CONSTANTS h1, h2, h3

MCVia == (h1 :> "http") @@ (h2 :> "inline") @@ (h3 :> "test")
Symmetry == Permutations(Requests)
=============================================================================
