CONSTANTS
  o1 = o1
  o2 = o2
  k1 = k1
  k2 = k2
  Orgs = {o1, o2}
  ApiKeys = {k1, k2}
  OrgOf <- MCOrgOf
  RPMLimit <- MCRPM
  Inputs <- MCInputs
  Requests <- MCRequests
  PII = {"mail"}
  Redact <- MCRedact
  Score <- MCScore
  Threshold = 9
  MaxTemp = 1
  HighRisk = {"risky"}
  Workers = {x1, x2, x3}
  Seals = {"old", "new"}
  Actions = {"redact", "block"}
  Expiries = {2}
  WindowTTL = 2
  MaxMinute = 1
  MaxPolicies = 1
SYMMETRY MCSymmetry
CONSTRAINT MCBound
CHECK_DEADLOCK FALSE
SPECIFICATION EdgeSpec
INVARIANTS
  AnswersFit
  OrphansExplained
PROPERTIES
  ImplementsAllowance
