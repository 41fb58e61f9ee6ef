SPECIFICATION PartsSpec
CONSTANTS
  Width = 4
  None = None
  AddressNames <- MCNames
  Members <- MCMembers
  RuleSources <- MCRuleSources
  ColorNames <- MCColorNames
  ShippedHex <- MCShippedHex
  Hexes = {"h1", "h2"}
  Heads <- MCHeads
  Absent = Absent
  Blank = Blank
  Interface <- PortNames
  Forms <- EdgeForms
  MaxLeft = 3
  MaxRight = 1
  DhcpServer = {"s", "t"}
  IfaceSpecs <- MCIfaceSpecs
  ServerSpecs <- Dhcp
  Unset = Unset
  Users = {"admin", "auditor"}
  Secrets = {"p", "q"}
  Readers = {"r1", "r2"}
  MaxSaves = 2
  Nobody = Nobody
  Handlers = {"h1", "h2"}
  MaxCommits = 2
  MaxEntries = 3
  MaxFaults = 2
  MaxRestarts = 1
  Attempts = {"a1", "a2"}
  Writers = {"h1", "h2"}
  Sources = {"s"}
  Names = {"n1", "n2"}
  Passwords = {"p", "q"}
  LoginPolicies <- MCPolicies
  FirstPolicy <- Strict
  DefaultPolicy <- Lax
  FirstUsers <- MCFirstUsers
  MaxSessions = 2
  MaxConfigs = 4
  RuleSetNames = {"x", "y"}
  RuleNames = {"a", "b", "c"}
  MaxRules = 3
  MaxTrees = 4
  Tabs = {"t1", "t2"}
  Files = {"f"}
  Contents = {"v1", "v2"}
  FirstFiles <- MCFirstFiles
  MaxRevs = 3
  MaxFetches = 1
  KindOrder <- MCKindOrder
  ObjectNames = {1, 2}
  ObjectValues = {"v", "w"}
  NoValue = NoValue
  MaxDocs = 2
INVARIANTS
  PartsTypeOK
  ListsExact
  NetworkSound
  OneUuidEach
  AuditKept
  DemotionHolds
  LockoutCounts
  SearchesExact
PROPERTIES
  
  SavesBreakNothing
  ImplementsMap
  AccountsKept
CHECK_DEADLOCK FALSE
