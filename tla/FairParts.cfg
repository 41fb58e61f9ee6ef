SPECIFICATION FairPartsSpec
CONSTANTS
  f1 = f1
  f2 = f2
  v1 = v1
  v2 = v2
  t1 = t1
  t2 = t2
  Tabs <- MCTabs
  Contents = {v1, v2}
  FirstFiles <- MCFirstFiles
  Files = {f1}
  MaxRevs = 3
  MaxFetches = 2
  Absent = Absent
  Broken = Broken
  NoFile = NoFile
  RuleFiles <- MCRuleFiles
  Packets <- Arriving
  MaxRules = 2
  MaxWrites = 3
  MaxTime = 3
  MaxFailures = 1
  ToUpper <- MCToUpper
  Subscribers = {"s"}
  BufSize = 2
  ChanSize = 2
  Capacity = 2
  Unit = 2
  Refill = 1
  MaxOpen = 2
  ShortLife = 0
  LongLife = 2
  PerTick = 3
  MaxFlows = 4
INVARIANTS
  EventsAddUp
  PacketsJudged
PROPERTIES
  TabsConverge
  WhatIsDueComes
