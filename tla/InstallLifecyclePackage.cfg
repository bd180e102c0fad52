\* A Linux package target under Electron: installs wait for an elevation dialog.  One quit at a
\* time is scheduled, which keeps the liveness property in reach.
SPECIFICATION Spec
CONSTANTS
  Updates = {u1, u2}
  NoUpdate = NoUpdate
  NoInstall = NoInstall
  NoDownload = NoDownload
  PackageTarget = TRUE
  HasWillQuit = TRUE
  HasSessionEnd = TRUE
  MaxScheduledQuits = 1
INVARIANTS
  TypeOK
  QuitWaitsForInstall
PROPERTIES
  InstallsOneAtATime
  HandOffIsFinal
  DismissedNotRetriedOnQuit
  UpdateInstalledOnCleanQuit
  FailedInstallKeepsAppRunning
  OneQuitPerInstall
  DeferredQuitHappens
