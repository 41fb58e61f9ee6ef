SPECIFICATION Spec
CONSTANTS
  good1 = good1
  good2 = good2
  bad = bad
  torn = torn
  h1 = h1
  h2 = h2
  c1 = c1
  c2 = c2
  Configs <- MCConfigs
  Unreadable = {torn}
  Invalid = {bad}
  Hashes = {h1, h2}
  Section <- MCSection
  Clients <- MCClients
  Toggled = {"dataplane", "dhcp"}
  MaxCommits = 3
  MaxFaults = 0
  MaxReadErrors = 0
  MaxCrashes = 0
INVARIANTS
  SupersededReturns
