SPECIFICATION FairSpec
CONSTANTS
  Base = 16
  MQTT_MAX_PACKET_SIZE = 11
  ConnectTail <- MCConnectTail
  FeedTopic <- MCFeedTopic
  ResponseTopic <- MCResponseTopic
  Reply <- MCReply
  Values <- MCValues
  MaxPublished = 1
  MaxFailures = 1
INVARIANTS InStep HandsOn WrittenWell
PROPERTIES ReadEnds WholePackets
