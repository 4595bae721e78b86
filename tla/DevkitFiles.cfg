SPECIFICATION Spec
CONSTANTS
  None = None
  Assets <- MCAssets
  Paths <- MCPaths
  Places <- MCPlaces
  PlaceOf <- MCPlaceOf
  GroupOf <- MCGroupOf
  RungOf <- MCRungOf
  KitGroups = {1, 2}
  Placements <- MCPlacements
  TargetOf <- MCTargetOf
  Executable = {"hook"}
  Regional = {"base"}
  Templated = {"hook"}
  KitTexts = {"h1", "h2", "b1", "b2", "o1"}
  OwnTexts = {"mine"}
  Answers = {"yes"}
  Regions = {"catalog"}
  Kits <- FileKits
  Configs <- FileConfigs
  Tasks <- NoTasks
  TaskRung <- MCTaskRung
  Blueprint = {}
  NeedsBlueprint = {}
  BlueprintRung = 2
  KitCommands = {"c1", "c2"}
  OwnCommands = {"own"}
  ConsumerNodes <- FileNodes
  MaxChanges = 3
  MaxCrashes = 1
INVARIANTS
  TypeOK
  OneRecordPerFile
  SecondRunIsQuiet
  UntouchedFollows
  ModesHold
PROPERTIES
  KeepsOwnWork
  RecordsWhatIsThere
