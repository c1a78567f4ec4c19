SPECIFICATION FairSpec
CONSTANTS
  Base = 16
  MQTT_MAX_PACKET_SIZE = 11
  ConnectTail <- MCConnectTail
  FeedTopic <- MCFeedTopic
  ResponseTopic <- MCResponseTopic
  Reply <- MCReply
  Values <- MCLongValues
  MaxPublished = 1
  MaxFailures = 0
PROPERTIES TooLongIsIgnored
