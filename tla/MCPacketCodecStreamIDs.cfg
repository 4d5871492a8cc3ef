SPECIFICATION Spec
INVARIANT LongStreamIDsSurvive
CHECK_DEADLOCK FALSE
