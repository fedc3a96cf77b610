SPECIFICATION MigrationSpec
CONSTANTS
    Layouts <- CleanDirectory
    Setups = 0
    MaxCrashes = 1
    MaxFailures = 0
INVARIANTS
    Idempotent
