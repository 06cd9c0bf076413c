SPECIFICATION Spec
CONSTANTS
  Null = Null
  Undefined = Undefined
  Ships = {s1, s2}
  Cells = {inner, border}
  Out = Out
  Border = {border}
  Modules = {"LASER", "BEAM", "ROCKET", "EMP", "LIGHTNING"}
  ShootCost <- MCShootCost
  MaxTargets = 0
  WaveSize = 2
  MaxBuffs = 1
  MaxRockets = 2
  MaxEnergy = 3
INVARIANTS
  InItsCellOnce
  UpdatedOnce
PROPERTIES
  SpentAreRemoved
