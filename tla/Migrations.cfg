SPECIFICATION Spec
CONSTANT Found <- AnyDatabase
INVARIANTS
  VersionTellsSchema
  UpgradesRun
