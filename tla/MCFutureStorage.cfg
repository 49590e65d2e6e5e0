CONSTANTS
  Values = {v1, v2}
  Errors = {e1}
  Unfullfilled = Unfullfilled
  None = None
  Moved = Moved
SPECIFICATION FairSpec
INVARIANTS TypeOK NoUseAfterFree AtMostOnce NothingLost NoDataRace NothingLeaks
PROPERTIES Refines EventuallyDelivered
