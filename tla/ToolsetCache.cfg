SPECIFICATION Spec
CONSTANTS
  Builds = {b1, b2}
  Urls = {github, mirror}
  Free = Free
  Stale = Stale
  MaxFaults = 2
INVARIANTS
  UsersHaveToolset
  CompleteMeansUnpacked
  SeededArchiveIsEnough
PROPERTIES
  RecoversFromFaults
