SPECIFICATION Spec
CONSTANTS
    Contents <- MCCatalog
    ManifestPath <- MCManifestPath
    Setups <- RaceSetups
INVARIANT UnchangedIsSafe
CHECK_DEADLOCK FALSE
