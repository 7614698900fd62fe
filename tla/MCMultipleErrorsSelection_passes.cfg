SPECIFICATION Spec
CONSTANT Reports <- MCReports
INVARIANTS FirstOccurrencesRemain EachTagOnce SelectionServes
CHECK_DEADLOCK FALSE
