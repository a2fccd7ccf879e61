SPECIFICATION Spec
CONSTANTS
  Root <- Repo
  Cwd <- Src
  DottedNames = {"..data"}
  Excluded <- MCExcluded
  ScanExcluded <- MCScanExcluded
  Places <- MCPlaces
  Requests <- MCRequests
  Noise <- MCNoise
  Turned = {"fix", "cold-hunt"}
  LinkNames <- MCLinkNames
  LinkTargets <- MCLinkTargets
  Configured <- MCConfigured
  MaxTurns = 2
  MaxLines = 2
INVARIANTS
  TranscriptIsTheStream
  NothingOffTheRecord
  TouchedPlacesAreInScope
  OnlyFixTurnsWrite
  RefusalsAreJustified
CHECK_DEADLOCK FALSE
