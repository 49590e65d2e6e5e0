CONSTANTS
  Values = {v1, v2}
  Errors = {e1}
  Complete = Complete
  Unfullfilled = Unfullfilled
  None = None
  MaxPush = 3
SPECIFICATION FairSpec
INVARIANTS NoUseAfterFree OneThreadDelivers NothingLost NothingLeaks
PROPERTIES Refines EventuallyFinal
