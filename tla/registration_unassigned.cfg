\* An update puts back the identity it read before the org was recorded: violated.
SPECIFICATION FairSpec
CONSTANTS
  u1 = u1
  Users = {u1}
  Consoles = {a1}
  NoOrg = NoOrg
  Nobody = Nobody
  MaxRuns = 2
  MaxAttempts = 2
PROPERTY OrgKept
