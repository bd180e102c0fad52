SPECIFICATION Spec
CONSTANTS
  github = github
  s3 = s3
  Artifacts = {exe}
  Updatable = {exe}
  Extra = extra
  ConfigList <- MCConfigList
  GitHub = {github}
  MaxAttempts = 1
  MaxFailures = 2
  NoWait = NoWait
INVARIANTS
  UpdateInfoComesLast
  ResolvesOnlyWhenPublished
  OneReleasePerConfig
PROPERTIES
  BuildEnds
