SPECIFICATION Spec
CONSTANTS
  good1 = good1
  good2 = good2
  bad = bad
  torn = torn
  h1 = h1
  h2 = h2
  c1 = c1
  c2 = c2
  Configs = {good1, good2, bad}
  Unreadable = {}
  Invalid = {bad}
  Hashes = {h1, h2}
  Section <- MCSection
  Clients = {c1}
  Toggled = {"dhcp"}
  MaxCommits = 3
  MaxFaults = 1
  MaxReadErrors = 1
  MaxCrashes = 1
INVARIANTS
  TypeOK
  
  AppliedWhole
  AllOrNothing
  BootRunsSomething
  LKGGood
  NoStuckWaiter
  
