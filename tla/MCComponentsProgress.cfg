SPECIFICATION ProgressSpec
CONSTANT Param <- MCParam
PROPERTY CallsReturn
PROPERTY FinallyServes
PROPERTY StreamsEnd
PROPERTY AllDelivered
PROPERTY StaysAccurate
CHECK_DEADLOCK FALSE
