-------------------------- MODULE MCSecretRotation --------------------------
(* An instance of SecretRotation: two organisations, one of them with an   *)
(* alert from before webhook secrets were encrypted.                       *)
EXTENDS SecretRotation, TLC

CONSTANTS o1, o2, s1, s2

MCOrgOf == (s1 :> o1) @@ (s2 :> o2)
MCSymmetry == Permutations(Servers) \cup Permutations(Tools)
=============================================================================
