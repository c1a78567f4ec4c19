SPECIFICATION FairSpec
CONSTANTS
  Codes <- MCCodes
  Chars <- MCChars
  NUL = "NUL"
  IdLen = 2
  SdFaults = {}
  SocketSurvives = TRUE
  MaxPublished = 1
  MaxFailures = 2
INVARIANTS SubscribedHere PassMeansApproved DisplayTellsCosm
PROPERTIES RecoversUnlessRefused FeedValueArrives
