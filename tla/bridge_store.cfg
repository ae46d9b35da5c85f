SPECIFICATION Spec
CONSTANTS
    NoObject = NoObject
    Objects = {o1, o2}
    Forms = {"promise", "callback", "plain"}
    Routes = {"method", "direct", "unknownMethod", "badArguments"}
    MaxCalls = 4
    MaxPosts = 1
    MaxPages = 2
INVARIANTS StoreFollowsGC OwnerCallFindsObject NativeOutlivesPromises
CHECK_DEADLOCK FALSE
