SPECIFICATION PollSpec
CONSTANTS
  Writers = {ui}
  Ui = ui
  MaxEntries = 2
  ArchiveEnabled = TRUE
  MaxEvents = 6
  Crashes = FALSE
  IoErrors = FALSE
  LostReplies = FALSE
  JUNK = JUNK
  BLANK = BLANK
INVARIANTS
  SequentialTypeInv
  HistoryKept
  TrustedRoot
  AnchoredVerifiable
  AnchorsRecorded
  AnchorsAdvance
PROPERTIES
  ImplementsAppendOnlyLog
  StreamGapsOnlyByRetention
