SPECIFICATION Spec
CONSTANTS
  NoEntity = NoEntity
  ID = {1, 2, 3, 4, 5, 6, 7, 8, 9, 10, 11, 12, 13, 14}
  WIDTH = 4
  HEIGHT = 4
  TRAVEL = 2
  QUEUE_MAX = 0
  Inputs = {}
  Worlds <- SpawnerWorlds
INVARIANTS SpawnersDoNotStarve
