SPECIFICATION Spec
CONSTANTS
  Requests = {r1, r2}
  Inputs <- MCInputs
  Models <- MCModels
  Generations = {"g1", "g2", "g3"}
  FirstGen = "g1"
  Settings <- MCSettings
  Sizes = {1, 3}
  MaxTime = 1
  MaxDrift = 1
INVARIANTS LocalCacheSound ReplayIsOwn SharedCacheSound
SYMMETRY Sym
