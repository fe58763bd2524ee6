--------------------------- MODULE MCAdminAccess ---------------------------
(* One member of one organisation, two requests at a time.                 *)
EXTENDS AdminAccess, TLC

MCSymmetry == Permutations(Workers)
MCScopeSets == {{}}
=============================================================================
