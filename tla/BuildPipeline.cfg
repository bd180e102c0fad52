SPECIFICATION Spec
CONSTANTS
  linux = linux
  x64 = x64
  arm64 = arm64
  appImage = appImage
  zip = zip
  squirrel = squirrel
  nsis = nsis
  Plan <- MCPlan
  Archives = {zip}
  Images = {appImage}
  Writers = {squirrel}
  Installers = {nsis}
  MaxFailures = 1
  NoWait = NoWait
INVARIANTS
  NoReadDuringWrite
  FinishCoversBuilds
PROPERTIES
  FinalizeAfterReaders
  ImplementsPackager
