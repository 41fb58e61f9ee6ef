SPECIFICATION CompilerSpec
CONSTANTS
  Width = 4
  None = None
  Interfaces <- MCInterfaces
  ZoneNames <- MCZoneNames
  RouteNames <- MCRouteNames
  AddressNames <- MCAddressNames
  SetNames = {1, 2}
  Groups <- MCGroups
  Services <- MCServices
  HTTPSPort = 2
  PortTop = 3
  MaxDNATEntries = 6
  MaxPolicies = 2
  InterfaceSpecs <- MCInterfaceSpecs
  ZoneSpecs <- MCZoneSpecs
  AddressSpecs <- MCAddressSpecs
  RouteSpecs <- MCRouteSpecs
  Rules <- MCRules
  Pairs <- MCPairs
  Factory <- MCFactory
  Flows <- MCFlows
  MaxObjects = 4
  ServedSets <- MCServedSets
  Access = {"dns"}
  MaxServed = 2
PROPERTY SectionsCoverVerdicts
