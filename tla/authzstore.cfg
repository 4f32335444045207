\* A server and a worker, three runs of the seed.
SPECIFICATION FairSpec
CONSTANTS
  server = server
  worker = worker
  k1 = k1
  k2 = k2
  k3 = k3
  member = member
  viewer = viewer
  Clients = {server, worker}
  Calls = {k1, k2, k3}
  Call <- MCCall
  Ops <- MCOps
  Tuples = {member, viewer}
  Nobody = Nobody
  MaxRuns = 3
INVARIANT TypeOK
PROPERTIES AnswersAreTrue SeededIsAllowed AsOneStore CallEnds
