\* One URL and no fault are enough for a build to replace a directory that another one is about to
\* look at.
SPECIFICATION Spec
CONSTANTS
  Builds = {b1, b2}
  Urls = {github}
  Free = Free
  Stale = Stale
  MaxFaults = 0
PROPERTIES
  FastPathFallsThrough
