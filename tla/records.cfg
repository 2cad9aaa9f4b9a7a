SPECIFICATION Spec
CONSTANTS
    Contents <- MCCatalog
    ManifestPath <- MCManifestPath
    Setups <- MCSetups
INVARIANTS RecordsInv UnchangedIsSafe SuccessIsComplete
PROPERTIES Publishing Converges
CHECK_DEADLOCK FALSE
