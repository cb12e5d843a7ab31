SPECIFICATION FairSpec
CONSTANTS
  s1 = s1
  Request = {s1}
  Size = 2
  RetryMax = 2
  MaxClicks = 3
  MaxLosses = 1
INVARIANTS TypeOK ClosesOnlyItsOwn NoConnectionLeft
PROPERTIES ResumeIsSaved ClickActsWhereMade StopIsNoticed
CHECK_DEADLOCK FALSE
