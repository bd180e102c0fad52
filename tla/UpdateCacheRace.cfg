\* A marked update is validated for the launch while the app downloads one.
SPECIFICATION Spec
CONSTANTS
  MaxVersion = 3
  None = None
  Corrupt = Corrupt
  SharedFileName = FALSE
  AllowDowngrade = FALSE
INVARIANTS
  DownloadedUpdateStaysInCache
