SPECIFICATION Spec
CONSTANTS
  Byte <- MCByte
  Content <- MCContent
  OldMaps <- MCOldMaps
  NewMaps <- MCNewMaps
  FileMetadata <- MCFileMetadata
  CRLF <- MCCRLF
  LF <- MCLF
  MultipartGap = 2
  SingleGap = 3
  MaxRanges = 2
  MaxTasks = 4
  RangesPerPause = 2
  MaxFaults = 1
CHECK_DEADLOCK FALSE
INVARIANTS
  OutcomeIsRight
  OldFileIsOpenWhileRead
PROPERTIES
  DownloadSettles
