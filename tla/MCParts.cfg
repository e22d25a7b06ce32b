SPECIFICATION MCSpec
CONSTANTS
  Attempts = 3
  MaxRuns = 3
  MaxFaults = 2
  Letters = {x}
  CR = CR
  LF = LF
  ChunkSize = 2
  MaximumLineBytes = 3
  Pages = {1, 2}
  PageSizes = {1, 2}
  MaxSize = 6
  MaxEdits = 2
  GroupSize = 16
  MaxGroups = 3
  Widths <- FixedWidths
  Fields <- SomeFields
  MaxFields = 2
CHECK_DEADLOCK FALSE
INVARIANTS
  PagesAreExact
  MessagesSurvive
  OnlyTheReleaseStarts
  DownloadsEndClean
