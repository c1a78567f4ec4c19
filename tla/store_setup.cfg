SPECIFICATION Spec
CONSTANTS
  Codes <- MCCodes
  Chars <- MCChars
  NUL = "NUL"
  IdLen = 2
  SdFaults = {}
  TextCodes = {}
  MaxApprovals = 2
  MaxCuts = 1
PROPERTY SetupNeverVends
