\* Three switch processes of one switch each, two links per switch (the
\* code has three), link costs 1..3: duplicate links, unreachable switches,
\* ties between first hops (2 = 1 + 1) and cheaper two-link routes
\* (1 + 1 < 3) all occur.
CONSTANTS
  NumProcs = 3
  Sub = 1
  NPS = 2
  Costs = {1, 2, 3}
SPECIFICATION Spec
VIEW MCView
INVARIANTS DijkstraTypeOK
PROPERTIES DijkstraCostIsShortest DijkstraFirstHopOnShortestPath
