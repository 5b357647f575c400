SPECIFICATION Spec
INVARIANTS NoThreadSurvives FreedUsedInTurnOnly
PROPERTY StopReturns
CHECK_DEADLOCK FALSE
