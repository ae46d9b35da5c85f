SPECIFICATION Spec
CONSTANTS
    NoObject = NoObject
    Objects = {o1}
    Forms = {"sync"}
    Routes = {"direct"}
    MaxCalls = 1
    MaxPosts = 1
    MaxPages = 1
INVARIANTS LateResultIsHarmless
CHECK_DEADLOCK FALSE
