SPECIFICATION Spec
CONSTANTS
  addr = addr
  rules = rules
  user = user
  system = system
  v1 = v1
  v2 = v2
  c1 = c1
  c2 = c2
  Absent = Absent
  Torn = Torn
  Files <- MCFiles
  Contents <- MCContents
  UserFiles = {user}
  Singletons = {system}
  Shipped = {}
  Factory <- MCFactory
  Bodies <- MCFewBodies
  Imports <- MCImports
  ErrorsOf <- MCErrorsOf
  Clients <- MCClients
  MaxCommits = 2
  MaxFaults = 1
INVARIANTS
  ServingHasHead
