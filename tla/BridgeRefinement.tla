-------------------------- MODULE BridgeRefinement --------------------------
(***************************************************************************)
(* The bridge implements RemoteCalls: how the stage of a call is read off  *)
(* the tables, queues and pointers of ExtensionBridge.                     *)
(***************************************************************************)
EXTENDS ExtensionBridge

\* The answer the script can be given: DispatchResult passes on a list, and
\* anything as the answer to a sync call.
HasAnswer(c) ==
    \/ <<c, "list">> \in answered
    \/ calls[c].form = "sync" /\ <<c, "value">> \in answered

StageOf(c) ==
    IF c > Len(calls) THEN "unmade"
    ELSE IF Delivered(c) THEN "completed"
    ELSE IF c \in refused THEN "refused"
    ELSE IF ~OfOpenPage(c) THEN "cut"
    ELSE IF HasAnswer(c) THEN "answered"
    ELSE IF InTransit(to_native, c) THEN "made"
    ELSE "taken"

Abstract == INSTANCE RemoteCalls WITH
    Nobody <- NoCall,
    stage <- [c \in Calls |-> StageOf(c)],
    blocking <- waiting

\* Every behaviour of the bridge is one RemoteCalls allows: calls are taken
\* in order, completed by their own answer, at most once, and never after
\* they were refused or their page ended.
BridgeKeepsPromises == Abstract!Spec
=============================================================================
