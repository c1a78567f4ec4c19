SPECIFICATION Spec
CONSTANTS
  Codes <- MCTwoCodes
  Chars <- Tokens
  NUL = "NUL"
  IdLen = 4
  SdFaults = {}
  BufLen = 12
  RxCap = 12
  Announced <- MCReady
  Spaced = FALSE
  Notices = {}
  Unknown = FALSE
  MaxLines = 2
  MaxCuts = 0
INVARIANT ApprovedWasTexted
