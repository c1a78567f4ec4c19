SPECIFICATION Spec
CONSTANTS
  Codes <- MCCodes
  Chars <- MCChars
  NUL = "NUL"
  IdLen = 2
  SdFaults = {"begin", "open", "write"}
  TextCodes <- MCText
  MaxApprovals = 3
  MaxCuts = 1
INVARIANTS TypeOK CardNeverStale PassAfterStore
PROPERTIES NoReplay OldValueIgnored
