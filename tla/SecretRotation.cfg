CONSTANTS
  o1 = o1
  o2 = o2
  s1 = s1
  s2 = s2
  Providers = {s1}
  Alerts = {s2}
  Legacy = {s2}
  Tokens = {k1}
  Orgs = {o1, o2}
  OrgOf <- MCOrgOf
  Versions = {1, 2}
  Servers = {p1}
  Tools = {t1, t2}
  MaxEdits = 3
  MaxRuns = 2
SYMMETRY MCSymmetry
CHECK_DEADLOCK FALSE
SPECIFICATION RotationSpec
INVARIANTS
  SecretsRecoverable
  DoneMeansRotated
