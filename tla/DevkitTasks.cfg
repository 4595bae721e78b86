SPECIFICATION Spec
CONSTANTS
  None = None
  Assets <- MCAssets
  Paths <- MCPaths
  Places <- MCPlaces
  PlaceOf <- MCPlaceOf
  GroupOf <- MCGroupOf
  RungOf <- MCRungOf
  KitGroups = {1}
  Placements <- MCPlacements
  TargetOf <- MCTargetOf
  Executable = {"hook"}
  Regional = {"base"}
  Templated = {"hook"}
  KitTexts = {"h1", "h2", "b1", "b2", "o1"}
  OwnTexts = {"mine"}
  Answers = {"yes"}
  Regions = {"catalog"}
  Kits <- TaskKits
  Configs <- TaskConfigs
  Tasks <- MCTasks
  TaskRung <- MCTaskRung
  Blueprint = {"build"}
  NeedsBlueprint = {"verify"}
  BlueprintRung = 2
  KitCommands = {"c1", "c2"}
  OwnCommands = {"own"}
  ConsumerNodes <- TaskNodes
  MaxChanges = 3
  MaxCrashes = 1
INVARIANTS
  TasksFollow
