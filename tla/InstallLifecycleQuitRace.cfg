\* quitAndInstall({ waitUntilNextLaunch: true }) while an install runs.
SPECIFICATION Spec
CONSTANTS
  Updates = {u1}
  NoUpdate = NoUpdate
  NoInstall = NoInstall
  NoDownload = NoDownload
  PackageTarget = TRUE
  HasWillQuit = TRUE
  HasSessionEnd = TRUE
  MaxScheduledQuits = 2
INVARIANTS
  QuitNeverCutsInstallShort
