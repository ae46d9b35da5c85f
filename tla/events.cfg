SPECIFICATION FairSpec
CONSTANTS
    Owner = e1
    Endpoints = {e1}
    Types = {t1, t2}
    Functions = {f1, f2}
    Nothing = Nothing
    MaxAdds = 3
    MaxEvents = 1
INVARIANTS CallbacksExact RemovedIsNotCalled SidesAgree CollectedIsQuiet
PROPERTIES SourceFollows
CHECK_DEADLOCK FALSE
