SPECIFICATION TabsSpec
CONSTANTS
  f1 = f1
  f2 = f2
  v1 = v1
  v2 = v2
  t1 = t1
  t2 = t2
  Tabs <- MCTabs
  Contents = {v1, v2}
  FirstFiles <- MCFirstFiles
  Files = {f1, f2}
  MaxRevs = 3
  MaxFetches = 2
SYMMETRY Symmetry
PROPERTIES
  NoLostUpdate
