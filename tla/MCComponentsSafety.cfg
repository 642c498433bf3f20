SPECIFICATION SafetySpec
CONSTANT Param <- MCParam
INVARIANT TypeOK
INVARIANT OthersUnharmed
PROPERTY QueryKeepsPromise
PROPERTY NoMutualWait
INVARIANT ResultTrue
INVARIANT ServesSoundly
PROPERTY TokenKept
INVARIANT CancelsOwn
PROPERTY StreamKeepsPromise
INVARIANT EvictionTrue
INVARIANT SameOrder
INVARIANT BootTrue
INVARIANT PendingTrue
INVARIANT UpToDateReal
INVARIANT SecurityReported
INVARIANT FilesMeant
INVARIANT ListingTrue
 
INVARIANT OneFollower
INVARIANT RequestsPaired
INVARIANT ClearRepairs
CHECK_DEADLOCK FALSE
