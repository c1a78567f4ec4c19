SPECIFICATION FairSpec
CONSTANTS
  Codes <- MCCodes
  Chars <- Tokens
  NUL = "NUL"
  IdLen = 2
  SdFaults = {}
  BufLen = 5
  RxCap = 12
  Announced <- MCAnnounced
  Spaced = TRUE
  Notices <- MCLost
  Unknown = TRUE
  MaxLines = 2
  MaxCuts = 1
INVARIANTS ApprovedWasTexted OneMessageAtATime CardNeverStale GsmOkWhileWaiting
PROPERTIES ChannelComesUp TextsAreRecorded
