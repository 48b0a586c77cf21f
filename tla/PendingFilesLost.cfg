SPECIFICATION MigrationsSpec
CONSTANTS
    Contents <- SmallContents
    MaxCrashes = 0
INVARIANT PendingFilesSurvive
CHECK_DEADLOCK FALSE
