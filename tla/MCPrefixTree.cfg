\* Two tries, every call in every order.
CONSTANTS
  c1 = c1  c2 = c2  x = x  y = y
  Clients = {c1, c2}
  PrefixSet <- MCPrefixes
  Keys <- MCKeys
  Trees = {x, y}
  MaxRegistrations = 3
SPECIFICATION Spec
SYMMETRY Symmetry
INVARIANTS
  MatchesReference
  NoDeadNodes
  CountExact
