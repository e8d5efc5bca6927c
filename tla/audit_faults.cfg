SPECIFICATION PollSpec
CONSTANTS
  Writers = {ui}
  Ui = ui
  MaxEntries = 1
  ArchiveEnabled = TRUE
  MaxEvents = 3
  Crashes = TRUE
  IoErrors = TRUE
  LostReplies = TRUE
  JUNK = JUNK
  BLANK = BLANK
INVARIANT
  FaultsOrdered
