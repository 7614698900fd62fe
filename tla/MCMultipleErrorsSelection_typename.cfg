SPECIFICATION Spec
CONSTANT Reports <- MCReports
INVARIANT TypenameKept
CHECK_DEADLOCK FALSE
