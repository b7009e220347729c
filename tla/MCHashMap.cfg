\* Two maps, three keys, every hash function below 3 (all ways to collide).
CONSTANTS
  k1 = k1  k2 = k2  k3 = k3  v0 = v0  v1 = v1  x = x  y = y
  Key = {k1, k2, k3}
  Value = {v0, v1}
  Default = v0
  Lists <- MCLists
  Maps = {x, y}
  Nil = Nil
  HashBound = 3
  InitialCapacity = 2
  LoadNum = 3
  LoadDen = 4
  MaxBuckets = 4
SPECIFICATION Spec
SYMMETRY Symmetry
INVARIANTS
  FindExact
  LoopCoversMap
  SizeExact
  LoadBounded
