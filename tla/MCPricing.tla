------------------------------ MODULE MCPricing ------------------------------
(* Two administrators change the price of a model while a call is charged. *)
EXTENDS Pricing, TLC

UpdaterSymmetry == Permutations(Updaters)
=============================================================================
