SPECIFICATION FilterSpec
CONSTANT Param <- MCParam
INVARIANT StateKept
CHECK_DEADLOCK FALSE
