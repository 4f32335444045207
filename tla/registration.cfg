\* One user, a webhook delivered twice, a console session.
SPECIFICATION FairSpec
CONSTANTS
  u1 = u1
  Users = {u1}
  Consoles = {a1}
  NoOrg = NoOrg
  Nobody = Nobody
  MaxRuns = 2
  MaxAttempts = 2
INVARIANTS TypeOK OrgIsGranted OneGrantPerRun OperatorsAreRegistered
PROPERTY RegistrationResolves
