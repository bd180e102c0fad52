\* The write that clears a marker fails.
SPECIFICATION Spec
CONSTANTS
  MaxVersion = 2
  None = None
  Corrupt = Corrupt
  SharedFileName = TRUE
  AllowDowngrade = FALSE
PROPERTIES
  NoMarkerOutlivesInstall
