CONSTANTS
  Ids = {s1, s2}
  Protocol = "SubscriptionsTransportWS"
  HasKeepalive = FALSE
  HasPing = FALSE
  Kinds <- Subscribing
  MaxMessages = 4
  MaxInbox = 2
  MaxItems = 3
SPECIFICATION FairSpec
CHECK_DEADLOCK FALSE
PROPERTIES ItemsDelivered
