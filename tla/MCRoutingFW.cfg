\* Four switch processes of one switch each, link costs 1 and 3 (a route
\* of three cheap links ties a direct one, two undercut it).
CONSTANTS
  NumProcs = 4
  Sub = 1
  Costs = {1, 3}
SPECIFICATION Spec
VIEW MCView
INVARIANTS RoutingTypeOK
PROPERTIES FwdCostIsShortest FwdNextHopOnShortestPath
