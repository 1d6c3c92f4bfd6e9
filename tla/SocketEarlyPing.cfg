CONSTANTS
  Ids = {s1}
  Protocol = "GraphQLWS"
  HasKeepalive = TRUE
  HasPing = TRUE
  Kinds <- Handshake
  MaxMessages = 2
  MaxInbox = 1
  MaxItems = 0
SPECIFICATION Spec
CHECK_DEADLOCK FALSE
INVARIANT PingsAcknowledged
