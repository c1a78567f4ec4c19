SPECIFICATION FairSpec
CONSTANTS
  Codes <- MCCodes
  Chars <- Tokens
  NUL = "NUL"
  IdLen = 2
  SdFaults = {"write"}
  SocketSurvives = FALSE
  BufLen = 5
  RxCap = 12
  Announced <- MCReady
  MaxEvents = 2
INVARIANTS TypeOK DisplayTellsBoth CardNeverStale
PROPERTIES ServesPromise BothChannelsComeUp
