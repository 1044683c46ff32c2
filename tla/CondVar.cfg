SPECIFICATION FairSpec
CONSTANTS
  Thread = {a, b, c}
  MaxWaits = 4
  NoOne = NoOne
INVARIANTS TypeOK Counted NoMissedChange NoNotificationLost
PROPERTIES ImplementsCondVar NotificationsTaken BroadcastReleases
CHECK_DEADLOCK FALSE
