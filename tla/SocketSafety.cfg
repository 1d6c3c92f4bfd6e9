CONSTANTS
  Ids = {s1}
  Protocol = "GraphQLWS"
  HasKeepalive = TRUE
  HasPing = TRUE
  Kinds <- AllKinds
  MaxMessages = 4
  MaxInbox = 2
  MaxItems = 1
SPECIFICATION FairSpec
CHECK_DEADLOCK FALSE
INVARIANTS NoLostWakeup PongDeadlineArmed
PROPERTIES ImplementsProtocol PingAnsweredOrClosed HandshakeAnswered
