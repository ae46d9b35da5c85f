SPECIFICATION FairSpec
CONSTANTS
    NoObject = NoObject
    Objects = {o1}
    Forms = {"sync", "promise", "callback"}
    Routes = {"method", "direct", "unknownMethod", "unknownFunction", "noArguments"}
    MaxCalls = 3
    MaxPosts = 2
    MaxPages = 2
INVARIANTS NoCrossTalk PromiseSettlesOnce AnsweredNotLost ClosedInstanceIsSilent SyncStuckOnlyByStore
PROPERTIES BridgeKeepsPromises AnsweredIsDelivered CollectedIsFreed
CHECK_DEADLOCK FALSE
