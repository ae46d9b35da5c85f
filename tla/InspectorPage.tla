---------------------------- MODULE InspectorPage ----------------------------
(***************************************************************************)
(* Telemetry drives a tab over one web socket: InspectorWebsocket numbers  *)
(* the requests and hands each notification to its domain; InspectorPage   *)
(* navigates and decides, from the Page.frameNavigated notifications that  *)
(* arrive meanwhile, when a navigation is over; InspectorRuntime evaluates *)
(* scripts.                                                                *)
(*                                                                         *)
(* The client is one thread.  The tab works at its own pace: it may answer *)
(* after the client gave up, and a navigation commits before or after its  *)
(* request is answered.  A call that timed out is no reason to leave the   *)
(* tab: the story runner records the failure and loads the next page in    *)
(* it, and WaitForJavaScriptExpression simply evaluates again.             *)
(***************************************************************************)
EXTENDS Integers, Sequences, FiniteSets

CONSTANTS
    Scripts,      \* values of script_to_evaluate_on_commit
    MaxCalls,     \* bound on the calls of InspectorBackend
    MaxTimeouts,  \* bound on the times a call gives up
    MaxFrames     \* bound on the navigations of subframes

None == "none"
ASSUME ScriptsAssumption == None \notin Scripts /\ IsFiniteSet(Scripts)
ASSUME BoundsAssumption == {MaxCalls, MaxTimeouts, MaxFrames} \subseteq Nat

VARIABLES
    ws,       \* InspectorWebsocket: [open, next, inbox]
    page,     \* InspectorPage: see PageType
    call,     \* the call the client is in
    tab,      \* the other end
    result,   \* how the last call ended
    history   \* [calls, timeouts, seen, failed]

vars == <<ws, page, call, tab, result, history>>

Calls == 1 .. MaxCalls
Kinds == {"navigate", "wait", "evaluate", "click"}
Frames == {"main", "sub"}
Sync == {"remove", "add", "go", "evaluate"}  \* the steps that are a SyncRequest

Message == [type : {"answer"}, id : Nat, of : Calls, frame : Frames \cup {None}]
             \cup [type : {"navigated"}, frame : {"main"}, of : Calls]
             \cup [type : {"navigated"}, frame : {"sub"}, of : {0}]
             \cup [type : {"crashed"}]
Request ==
    {r \in [id : Nat, of : Calls, method : Sync \cup {"click"}, script : Scripts \cup {None}] :
        r.method = "add" => r.script # None}

-----------------------------------------------------------------------------
(* Ending a call. *)

(* The call returns or raises; nothing of InspectorPage is reset for it. *)
End(outcome, taken) ==
    /\ result' = [kind |-> call.kind, of |-> call.of, outcome |-> outcome, step |-> call.step,
                  alone |-> call.alone, fresh |-> ~history.failed, taken |-> taken,
                  new |-> history'.seen \ call.before, asked |-> call.script, ran |-> tab.ran]
    /\ call' = [call EXCEPT !.step = "idle"]

NotYet == UNCHANGED <<call, result>>

-----------------------------------------------------------------------------
(* InspectorWebsocket. *)

(* SendAndIgnoreResponse: the identifier is the number of requests so far. *)
Send(method, script) ==
    /\ ws' = [ws EXCEPT !.next = @ + 1]
    /\ tab' = [tab EXCEPT !.requests =
                  Append(@, [id |-> ws.next, of |-> call'.of, method |-> method, script |-> script])]

(* _Receive takes one message; its time limit is for that message alone. *)
Received == [ws EXCEPT !.inbox = Tail(@)]
Waiting == ws.open /\ call.step # "idle"
Arrived(type) == Waiting /\ ws.inbox # <<>> /\ Head(ws.inbox).type = type

(* SyncRequest returns the message that carries its identifier, not any.   *)
MatchesAny(message) == TRUE
Matches(message) == message.id = call.id

-----------------------------------------------------------------------------
(* InspectorPage._OnNotification for Page.frameNavigated.  tracking stands *)
(* for _navigated_frame_ids not being None; url is that of a navigation of *)
(* the main frame, or None for _navigation_url = ''.                       *)

Over(p) == [p EXCEPT !.pending = FALSE]
NotTracking(p) == [p EXCEPT !.tracking = FALSE, !.frames = {}]

AnyFrame(p, frame, url) ==
    IF p.tracking THEN Over(NotTracking([p EXCEPT !.frameId = None])) ELSE Over(p)
OnNotification(p, frame, url) ==
    IF p.tracking
    THEN IF p.frameId = frame
         THEN Over(NotTracking([p EXCEPT !.frameId = None]))
         ELSE [p EXCEPT !.frames = @ \cup {frame}]
    ELSE IF frame = "main" /\ p.url = url
    THEN Over([p EXCEPT !.url = 0])
    ELSE IF frame = "main" THEN Over(p) ELSE p

-----------------------------------------------------------------------------
(* The calls of InspectorBackend. *)

(* Nothing else is navigating in the tab, nor is news of it under way. *)
Alone ==
    /\ tab.loading = 0
    /\ tab.requests = <<>>
    /\ \A i \in DOMAIN ws.inbox : ws.inbox[i].type = "answer"

Enter(kind, step, script) ==
    /\ ws.open
    /\ call.step = "idle"
    /\ history.calls < MaxCalls
    /\ history' = [history EXCEPT !.calls = @ + 1]
    /\ call' = [kind |-> kind, of |-> history.calls + 1, step |-> step, id |-> ws.next,
                late |-> FALSE, script |-> script, alone |-> Alone, before |-> history.seen]
    /\ UNCHANGED result

(* Navigate, up to its first request: the script of the last navigation is *)
(* removed unless it is asked for again, then the new one is added.        *)
KeepsScript(script) == IF script = page.script THEN "go" ELSE "add"
FirstStep(script) ==
    IF script = page.script THEN "go" ELSE IF page.script # None THEN "remove" ELSE "add"

StartsTracking(p) == [p EXCEPT !.tracking = TRUE, !.frames = {}]

Navigate(script) ==
    LET step == FirstStep(script) IN
    /\ Enter("navigate", step, script)
    /\ Send(step, IF step = "remove" THEN page.script ELSE script)
    /\ page' = IF step = "go" THEN StartsTracking(page) ELSE page

(* Runtime.evaluate; "click" is a script that makes the page navigate. *)
Evaluate(kind) ==
    /\ Enter(kind, "evaluate", None)
    /\ Send(kind, None)
    /\ UNCHANGED page

WaitForNavigate ==
    /\ Enter("wait", "wait", None)
    /\ page' = [page EXCEPT !.pending = TRUE]
    /\ UNCHANGED <<ws, tab>>

-----------------------------------------------------------------------------
(* What arrives while a call waits. *)

(* The loop of WaitForNavigate: it ends when the navigation is over, or    *)
(* with the message that arrived after the time was up.                    *)
Loop(after) ==
    IF call.step = "wait" /\ (~after.pending \/ call.late)
    THEN End(IF after.pending THEN "expired" ELSE "ok", 0)
    ELSE NotYet

ReceiveNavigated ==
    /\ Arrived("navigated")
    /\ LET m == Head(ws.inbox) IN
       /\ page' = OnNotification(page, m.frame, m.of)
       /\ history' = [history EXCEPT !.seen = IF m.frame = "main" THEN @ \cup {m.of} ELSE @]
       /\ Loop(page')
    /\ ws' = Received
    /\ UNCHANGED tab

(* An answer nobody waits for any more is dropped. *)
ReceiveOther ==
    /\ Arrived("answer")
    /\ call.step \in Sync => ~Matches(Head(ws.inbox))
    /\ UNCHANGED history
    /\ Loop(page)
    /\ ws' = Received
    /\ UNCHANGED <<page, tab>>

(* Inspector.targetCrashed raises DevtoolsTargetCrashException through     *)
(* whatever was waiting; the story runner gives the browser up.            *)
ReceiveCrashed ==
    /\ Arrived("crashed")
    /\ history' = [history EXCEPT !.failed = TRUE]
    /\ End("crashed", 0)
    /\ ws' = [Received EXCEPT !.open = FALSE]
    /\ UNCHANGED <<page, tab>>

Answered(step) ==
    /\ Arrived("answer")
    /\ call.step = step
    /\ Matches(Head(ws.inbox))
    /\ UNCHANGED history

(* The request that follows an answer goes out at once. *)
Proceed(step, script) ==
    /\ call' = [call EXCEPT !.step = step, !.id = ws.next]
    /\ ws' = [Received EXCEPT !.next = @ + 1]
    /\ tab' = [tab EXCEPT !.requests =
                  Append(@, [id |-> ws.next, of |-> call.of, method |-> step, script |-> script])]
    /\ UNCHANGED result

ScriptRemoved ==
    /\ Answered("remove")
    /\ IF call.script = None
       THEN page' = StartsTracking([page EXCEPT !.script = None]) /\ Proceed("go", None)
       ELSE page' = [page EXCEPT !.script = None] /\ Proceed("add", call.script)

ScriptAdded ==
    /\ Answered("add")
    /\ page' = StartsTracking([page EXCEPT !.script = call.script])
    /\ Proceed("go", None)

(* Page.navigate was answered.  With a frame identifier the navigation is  *)
(* over if that frame was seen to navigate; otherwise it is waited for.  A *)
(* legacy tab answers without one, and the URL is waited for.              *)
NeverOver(frame) == FALSE
AlreadyOver(frame) == page.tracking /\ frame \in page.frames

NavigateAnswered ==
    /\ Answered("go")
    /\ ws' = Received
    /\ LET frame == Head(ws.inbox).frame IN
       IF frame # None /\ AlreadyOver(frame)
       THEN /\ page' = NotTracking(page)
            /\ End("ok", Head(ws.inbox).of)
       ELSE /\ page' = IF frame # None
                       THEN [page EXCEPT !.frameId = frame, !.pending = TRUE]
                       ELSE [NotTracking(page) EXCEPT !.url = call.of, !.pending = TRUE]
            /\ call' = [call EXCEPT !.step = "wait"]
            /\ UNCHANGED result
    /\ UNCHANGED tab

EvaluateAnswered ==
    /\ Answered("evaluate")
    /\ End("ok", Head(ws.inbox).of)
    /\ ws' = Received
    /\ UNCHANGED <<page, tab>>

(* Nothing arrived in time: the call raises, and the socket stays open.  A *)
(* wait whose time was up before it read once more polls the socket, whose *)
(* refusal is taken for a crash.                                           *)
Timeout ==
    /\ Waiting
    /\ ws.inbox = <<>>
    /\ history.timeouts < MaxTimeouts
    /\ history' = [history EXCEPT !.timeouts = @ + 1, !.failed = TRUE]
    /\ End(IF call.late THEN "crashed" ELSE "timeout", 0)
    /\ ws' = [ws EXCEPT !.open = ~call.late]
    /\ UNCHANGED <<page, tab>>

TimeIsUp ==
    /\ Waiting
    /\ call.step = "wait"
    /\ ~call.late
    /\ history.timeouts < MaxTimeouts
    /\ history' = [history EXCEPT !.timeouts = @ + 1, !.failed = TRUE]
    /\ call' = [call EXCEPT !.late = TRUE]
    /\ UNCHANGED <<ws, page, tab, result>>

-----------------------------------------------------------------------------
(* The tab (external): it takes the requests in order and answers each.  A *)
(* navigation replaces the one under way; a modern tab may commit it       *)
(* before it answers, a legacy one answers first, without a frame.         *)

Push(message) == ws' = [ws EXCEPT !.inbox = Append(@, message)]
AnswerTo(request, frame) == [type |-> "answer", id |-> request.id, of |-> request.of, frame |-> frame]
Live == ws.open /\ tab.alive
ByTab == UNCHANGED <<page, call, result>>

TabScripts(request) ==
    CASE request.method = "add" -> tab.scripts \cup {request.script}
      [] request.method = "remove" -> tab.scripts \ {request.script}
      [] OTHER -> tab.scripts

TabAnswers ==
    /\ Live /\ tab.requests # <<>> /\ tab.owed = <<>>
    /\ LET r == Head(tab.requests) IN
       /\ \/ /\ r.method # "go"
             /\ Push(AnswerTo(r, None))
             /\ tab' = [tab EXCEPT !.requests = Tail(@), !.scripts = TabScripts(r),
                                  !.loading = IF r.method = "click" THEN r.of ELSE @]
          \/ /\ r.method = "go"
             /\ Push(AnswerTo(r, IF tab.modern THEN "main" ELSE None))
             /\ tab' = [tab EXCEPT !.requests = Tail(@), !.loading = r.of]
          \/ /\ r.method = "go" /\ tab.modern
             /\ tab' = [tab EXCEPT !.requests = Tail(@), !.loading = r.of,
                                  !.owed = <<AnswerTo(r, "main")>>]
             /\ UNCHANGED ws
    /\ ByTab /\ UNCHANGED history

TabAnswersLate ==
    /\ Live /\ tab.owed # <<>>
    /\ Push(Head(tab.owed))
    /\ tab' = [tab EXCEPT !.owed = <<>>]
    /\ ByTab /\ UNCHANGED history

(* The scripts run as the document is created. *)
TabCommits ==
    /\ Live /\ tab.loading # 0
    /\ Push([type |-> "navigated", frame |-> "main", of |-> tab.loading])
    /\ tab' = [tab EXCEPT !.loading = 0, !.shown = @ + 1, !.ran = tab.scripts]
    /\ ByTab /\ UNCHANGED history

SubframeCommits ==
    /\ Live /\ tab.shown > 0 /\ tab.subs < MaxFrames
    /\ Push([type |-> "navigated", frame |-> "sub", of |-> 0])
    /\ tab' = [tab EXCEPT !.subs = @ + 1]
    /\ ByTab /\ UNCHANGED history

TabCrashes ==
    /\ Live
    /\ Push([type |-> "crashed"])
    /\ tab' = [tab EXCEPT !.alive = FALSE]
    /\ ByTab /\ UNCHANGED history

-----------------------------------------------------------------------------
PageType ==
    [pending : BOOLEAN, url : 0 .. MaxCalls, frameId : Frames \cup {None},
     tracking : BOOLEAN, frames : SUBSET Frames, script : Scripts \cup {None}]

WsType == [open : BOOLEAN, next : Nat, inbox : Seq(Message)]
CallType ==
    [kind : Kinds, of : 0 .. MaxCalls, step : Sync \cup {"idle", "wait"}, id : Nat,
     late : BOOLEAN, script : Scripts \cup {None}, alone : BOOLEAN, before : SUBSET Calls]
TabType ==
    [modern : BOOLEAN, alive : BOOLEAN, requests : Seq(Request), owed : Seq(Message),
     loading : 0 .. MaxCalls, shown : Nat, subs : Nat, scripts : SUBSET Scripts,
     ran : SUBSET Scripts]
HistoryType == [calls : 0 .. MaxCalls, timeouts : Nat, seen : SUBSET Calls, failed : BOOLEAN]

TypeOK ==
    /\ ws \in WsType
    /\ page \in PageType
    /\ page.frames # {} => page.tracking
    /\ call \in CallType
    /\ call.step # "idle" => call.of \in Calls /\ call.of = history.calls
    /\ tab \in TabType
    /\ history \in HistoryType

Init ==
    /\ ws = [open |-> TRUE, next |-> 0, inbox |-> <<>>]
    /\ page = [pending |-> FALSE, url |-> 0, frameId |-> None, tracking |-> FALSE,
               frames |-> {}, script |-> None]
    /\ call = [kind |-> "evaluate", of |-> 0, step |-> "idle", id |-> 0, late |-> FALSE,
               script |-> None, alone |-> TRUE, before |-> {}]
    /\ \E modern \in BOOLEAN :
          tab = [modern |-> modern, alive |-> TRUE, requests |-> <<>>, owed |-> <<>>,
                 loading |-> 0, shown |-> 0, subs |-> 0, scripts |-> {}, ran |-> {}]
    /\ result = [kind |-> "none"]
    /\ history = [calls |-> 0, timeouts |-> 0, seen |-> {}, failed |-> FALSE]

Client ==
    \/ \E script \in Scripts \cup {None} : Navigate(script)
    \/ \E kind \in {"evaluate", "click"} : Evaluate(kind)
    \/ WaitForNavigate

Receive ==
    \/ ReceiveNavigated \/ ReceiveOther \/ ReceiveCrashed
    \/ ScriptRemoved \/ ScriptAdded \/ NavigateAnswered \/ EvaluateAnswered

Tab == TabAnswers \/ TabAnswersLate \/ TabCommits \/ SubframeCommits \/ TabCrashes

Next == Client \/ Receive \/ Timeout \/ TimeIsUp \/ Tab

Spec == Init /\ [][Next]_vars

-----------------------------------------------------------------------------
(* Properties. *)

(* Whatever a call returns answers the request of that very call, although *)
(* answers to calls that gave up may arrive first (SyncRequest).           *)
AnswerIsOwn ==
    result.kind # "none" /\ result.taken # 0 => result.taken = result.of

(* A Navigate that returns in time, when nothing else was navigating as it *)
(* was called, has seen its own navigation commit: no subframe and no      *)
(* leftover of a failed call ends it early (_OnNotification).              *)
PreciseWhenAlone ==
    result.kind = "navigate" /\ result.outcome = "ok" /\ result.alone => result.of \in result.new

(* As long as no call of the tab has failed, a Navigate that gives up      *)
(* waiting was not told that its navigation committed, and a               *)
(* WaitForNavigate not of any: no notification is lost between the         *)
(* request, its answer and the wait.                                       *)
WakeupNotLost ==
    /\ result.kind \in {"navigate", "wait"}
    /\ result.step = "wait" /\ result.outcome \in {"timeout", "expired"}
    /\ result.fresh
    => IF result.kind = "wait" THEN result.new = {} ELSE result.of \notin result.new

(* As long as no call has failed, the document a Navigate waited for ran   *)
(* the script that was asked for and no other.                             *)
ScriptAsAsked ==
    result.kind = "navigate" /\ result.outcome = "ok" /\ result.alone /\ result.fresh
       => result.ran = {result.asked} \ {None}

=============================================================================
