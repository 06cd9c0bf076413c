SPECIFICATION Spec
CONSTANTS
  Null = Null
  Planets = {1}
  Moons = {0, 1}
  Mines = 2
  Blueprints <- MCBlueprints
  MaxBodies = 6
INVARIANTS
  SystemStands
  OnlineIsConnected
  LinesAreOfTheLiving
