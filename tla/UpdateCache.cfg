\* Three versions whose installers share a file name.
SPECIFICATION Spec
CONSTANTS
  MaxVersion = 3
  None = None
  Corrupt = Corrupt
  SharedFileName = TRUE
  AllowDowngrade = FALSE
INVARIANTS
  TypeOK
  HelperMatchesCache
PROPERTIES
  OneLaunchInstallPerMark
  LaunchInstallsOnlyChanges
  NoDamagedInstallerRuns
  
