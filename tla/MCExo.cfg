SPECIFICATION Spec
CONSTANTS
  Null = Null
  Buttons <- MCButtons
  Hosts = {planet}
  Others = {moon}
  Missions <- MCMissions
  MissionDelay = 1
  Cooldown = 1
  CooldownStep = 1
  MinCooldown = 0
  Second = 1
  MaxDistance = 1
  MaxRepeat = 2
  MaxMinerals = 5
  MaxWaves = 1
  MaxGames = 2
INVARIANTS
  PendingIsAffordable
  OfThisGame
  TutorialCanBeFollowed
  SimulationHasBase
PROPERTIES
  PlayedAsDrawn
  ReleaseDoesOneThing
  LostIsNoticed
