\* "cancelled: User declined / aborted via the overlay's Cancel button".
CONSTANTS
  t1 = t1
  t2 = t2
  None = None
  Tabs = {t1, t2}
  MaxRequests = 2
  MaxArms = 2
  MaxFinishes = 1
SPECIFICATION HelpSpec
INVARIANTS
  CancelledByUser
