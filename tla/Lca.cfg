SPECIFICATION ImprovedSpec
CONSTANTS
  Vertex <- MCVertex
  N = 2
  MaxRound = 8
  Cites <- MCCites
  Papers <- MCPapers
INVARIANTS
  ShortestDistances
  LowestAncestors
PROPERTIES
  ImplementsLca
  Terminates
