\* Notifications in batches of two, one of them of a user who blocked the bot; or
\* three creations of a backup, side by side or one after the other, on two days
\* of two seconds each.
SPECIFICATION Spec
CONSTANTS
  None = None
  User = {u, f}
  Unreachable = {f}
  Limit = 2
  MaxQueued = 4
  MaxForbidden = 1
  MaxLost = 2
  Creation = {b1, b2, b3}
  MaxDay = 2
  MaxSecond = 1
INVARIANTS
  RepeatedOnlyAfterLoss
  RecordedBackupIsWhole
  UnrecordedFileIsExplained

  
\* The creations are used up and the clock stops.
CHECK_DEADLOCK FALSE
