SPECIFICATION Spec
CONSTANTS
  MaxVersion = 3
  MaxFaults = 3
  None = None
  Corrupt = Corrupt
INVARIANTS
  MapDescribesZip
PROPERTIES
  AnnouncedIsWhole
  CancelledIsNotAnnounced
  LatestIsOffered
