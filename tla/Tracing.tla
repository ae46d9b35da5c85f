------------------------------- MODULE Tracing -------------------------------
(***************************************************************************)
(* Tracing for telemetry's TimelineBasedMeasurement.  One call goes through*)
(* TracingControllerBackend and ChromeTracingAgent, both as old as the     *)
(* platform, to the DevToolsClientBackend of every browser registered with *)
(* it, and on to its TracingBackend, which speaks to the browser over a    *)
(* web socket.  Browsers come and go between the stories of a run, and     *)
(* crash in the middle of them; the controller and the agent stay.         *)
(*                                                                         *)
(* Telemetry is one thread.  A browser flushes its trace at its own pace.  *)
(* Data is told apart by the story it was traced in.                       *)
(***************************************************************************)
EXTENDS Integers, Sequences, FiniteSets

CONSTANTS
    Browsers,    \* the browsers, each launched once
    MaxLive,     \* bound on the browsers alive at a time
    MaxStories,  \* bound on the stories
    MaxFaults    \* bound on crashes, time-outs and failing pages

NoBrowser == "none"
ASSUME BrowsersAssumption == NoBrowser \notin Browsers /\ IsFiniteSet(Browsers)
ASSUME BoundsAssumption ==
    MaxLive \in Nat \ {0} /\ MaxStories \in Nat \ {0} /\ MaxFaults \in Nat

VARIABLES
    controller,  \* TracingControllerBackend: [running, agents]
    agent,       \* ChromeTracingAgent: [active, clients]
    backend,     \* TracingBackend of each browser: [running, events]
    browser,     \* the browsers
    story,       \* the runner and the call it is in, see StoryType
    result,      \* the last trace Measure got
    faults       \* how many faults there were

vars == <<controller, agent, backend, browser, story, result, faults>>

Stories == 1 .. MaxStories
Complete == 0   \* Tracing.tracingComplete, among the data in an inbox

Live == {b \in Browsers : browser[b].life = "alive"}
At(pc) == story.pc = pc
Fault == faults < MaxFaults /\ faults' = faults + 1
NoFault == UNCHANGED faults

-----------------------------------------------------------------------------
(* Browsers start, register their client, stop and crash. *)

Alive(b) == [browser EXCEPT ![b].life = "alive"]
Dead(bs) == [b \in Browsers |-> IF b \in bs THEN [browser[b] EXCEPT !.life = "dead"] ELSE browser[b]]

(* RegisterDevToolsClient refuses a browser while the platform is traced.  *)
Launch(b) ==
    /\ At("idle") \/ At("running")
    /\ browser[b].life = "unused"
    /\ Cardinality(Live) < MaxLive
    /\ IF agent.active
       THEN /\ browser' = Dead({b})
            /\ story' = [story EXCEPT !.aborting = TRUE,
                                      !.pc = IF At("idle") THEN "over" ELSE "cleanup"]
            /\ UNCHANGED agent
       ELSE /\ browser' = Alive(b)
            /\ agent' = [agent EXCEPT !.clients = @ \cup {b}]
            /\ UNCHANGED story
    /\ NoFault /\ UNCHANGED <<controller, backend, result>>

(* DevToolsClientBackend.Close drops the TracingBackend; the client stays  *)
(* in the agent's map until it is found stale.                             *)
Fresh == [running |-> FALSE, events |-> {}]
Close(b) ==
    /\ At("idle")
    /\ b \in Live
    /\ browser' = Dead({b})
    /\ backend' = [backend EXCEPT ![b] = Fresh]
    /\ NoFault /\ UNCHANGED <<controller, agent, story, result>>

Crash(b) ==
    /\ b \in Live
    /\ browser' = Dead({b})
    /\ Fault /\ UNCHANGED <<controller, agent, backend, story, result>>

-----------------------------------------------------------------------------
(* TimelineBasedMeasurement.WillRunUserStory: Start. *)

Unstale == [agent EXCEPT !.clients = @ \cap Live]

(* A controller that is still running leaves everything as it is. *)
WillRunUserStory ==
    /\ At("idle")
    /\ Live # {}
    /\ story.n < MaxStories
    /\ agent' = Unstale
    /\ IF controller.running
       THEN /\ story' = [story EXCEPT !.n = @ + 1, !.pc = "running", !.fresh = {}]
            /\ UNCHANGED controller
       ELSE /\ story' = [story EXCEPT !.n = @ + 1, !.pc = "starting", !.fresh = {},
                                      !.todo = agent.clients \cap Live]
            /\ controller' = [controller EXCEPT !.running = TRUE]
    /\ NoFault /\ UNCHANGED <<backend, browser, result>>

(* No browser answers: WillRunUserStory raises. *)
NotSupported ==
    /\ At("idle")
    /\ Live = {} /\ agent.clients # {}
    /\ story.n < MaxStories
    /\ agent' = Unstale
    /\ story' = [story EXCEPT !.n = @ + 1, !.pc = "cleanup", !.aborting = TRUE]
    /\ NoFault /\ UNCHANGED <<controller, backend, browser, result>>

(* The browser has answered every request before the one that is sent. *)
Settled(b) == browser[b].ends = 0 /\ browser[b].flush = {} /\ ~browser[b].completing
Data(b) == {browser[b].inbox[i] : i \in DOMAIN browser[b].inbox} \ {Complete}
BrowserStarts(b) == [browser[b] EXCEPT !.tracing = TRUE, !.inbox = <<>>]

(* TracingBackend.StartTracing: what is still in the socket is read on the *)
(* way to the answer; an answer that reports an error is not looked at.    *)
KeepsEvents(b) == [running |-> TRUE, events |-> backend[b].events \cup Data(b)]
Started(b) == [running |-> TRUE, events |-> Data(b)]

StartChromeTracing(b) ==
    /\ At("starting")
    /\ b \in story.todo
    /\ \/ /\ backend[b].running
          /\ story' = [story EXCEPT !.todo = @ \ {b}]
          /\ UNCHANGED <<backend, browser>>
       \/ /\ ~backend[b].running
          /\ b \in Live /\ Settled(b)
          /\ backend' = [backend EXCEPT ![b] = Started(b)]
          /\ browser' = [browser EXCEPT ![b] = BrowserStarts(b)]
          /\ story' = [story EXCEPT !.todo = @ \ {b}, !.fresh = @ \cup {b}]
    /\ NoFault /\ UNCHANGED <<controller, agent, result>>

(* No answer, although the browser may have started: what is raised is not *)
(* one of telemetry's errors, and nobody stops the browsers that started.  *)
StartFails(b) ==
    /\ At("starting")
    /\ b \in story.todo /\ ~backend[b].running
    /\ \/ b \notin Live /\ NoFault /\ UNCHANGED <<backend, browser>>
       \/ /\ b \in Live /\ Fault
          /\ backend' = [backend EXCEPT ![b].events = {}]
          /\ \/ UNCHANGED browser
             \/ Settled(b) /\ browser' = [browser EXCEPT ![b].tracing = TRUE]
    /\ story' = [story EXCEPT !.pc = "cleanup", !.aborting = TRUE, !.todo = {}]
    /\ UNCHANGED <<controller, agent, result>>

NotAppended == controller
Appended == [controller EXCEPT !.agents = TRUE]
StartDone ==
    /\ At("starting")
    /\ story.todo = {}
    /\ agent' = [agent EXCEPT !.active = TRUE]
    /\ controller' = Appended
    /\ story' = [story EXCEPT !.pc = "running"]
    /\ NoFault /\ UNCHANGED <<backend, browser, result>>

-----------------------------------------------------------------------------
(* The page runs; whatever browser traces then traces it. *)

Traced == [b \in Browsers |->
              IF browser[b].tracing /\ b \in Live
              THEN [browser[b] EXCEPT !.buffer = @ \cup {story.n}] ELSE browser[b]]

(* TracingControllerBackend.Stop, with nothing to do for a controller that *)
(* has no agent.                                                           *)
Cleared == [running |-> FALSE, agents |-> FALSE]
Stop(by) ==
    IF controller.agents
    THEN /\ story' = [story EXCEPT !.pc = "stopping", !.by = by, !.todo = agent.clients,
                                   !.failed = {}, !.trace = {}]
         /\ UNCHANGED controller
    ELSE /\ story' = [story EXCEPT !.pc = IF by = "measure" THEN "cleanup" ELSE "over"]
         /\ controller' = Cleared

(* The page ran to its end: ValidateAndMeasurePage, Measure. *)
Measure ==
    /\ At("running")
    /\ browser' = Traced
    /\ Stop("measure")
    /\ NoFault /\ UNCHANGED <<agent, backend, result>>

(* The page failed, or took the browser with it.  The story runner records *)
(* the error and goes on.                                                  *)
PageFails ==
    /\ At("running")
    /\ \/ Fault
       \/ NoFault /\ \E b \in agent.clients : b \notin Live
    /\ browser' = Traced
    /\ story' = [story EXCEPT !.pc = "cleanup"]
    /\ UNCHANGED <<controller, agent, backend, result>>

(* DidRunUserStory, whatever came before it. *)
DidRunUserStory ==
    /\ At("cleanup")
    /\ IF controller.running THEN Stop("did")
       ELSE story' = [story EXCEPT !.pc = "over"] /\ UNCHANGED controller
    /\ NoFault /\ UNCHANGED <<agent, backend, browser, result>>

(* The run goes on, or its end closes the browsers; another run of the     *)
(* process uses the same platform.                                         *)
StoryOver ==
    /\ At("over")
    /\ browser' = IF story.aborting THEN Dead(Live) ELSE browser
    /\ backend' = IF story.aborting THEN [b \in Browsers |-> Fresh] ELSE backend
    /\ story' = [story EXCEPT !.pc = "idle", !.aborting = FALSE]
    /\ NoFault /\ UNCHANGED <<controller, agent, result>>

-----------------------------------------------------------------------------
(* ChromeTracingAgent.Stop asks every client, and collects their errors.   *)

Asking == At("stopping") /\ story.client = NoBrowser
UntilError(b, error) == [story EXCEPT !.todo = IF error THEN {} ELSE @ \ {b},
                                      !.client = NoBrowser,
                                      !.failed = IF error THEN @ \cup {b} ELSE @]
Asked(b, error) == [story EXCEPT !.todo = @ \ {b}, !.client = NoBrowser,
                                 !.failed = IF error THEN @ \cup {b} ELSE @,
                                 !.trace = IF error THEN @ ELSE @ \cup ({b} \X backend'[b].events)]

(* StopChromeTracing needs the tabs of the browser first.  A TracingBackend*)
(* that is not running hands out what it collected last, if anything.      *)
StopChromeTracing(b) ==
    /\ Asking
    /\ b \in story.todo
    /\ UNCHANGED backend
    /\ \/ /\ \/ b \notin Live /\ NoFault
             \/ b \in Live /\ Fault
          /\ story' = Asked(b, TRUE)
          /\ UNCHANGED browser
       \/ /\ b \in Live /\ ~backend[b].running /\ NoFault
          /\ story' = Asked(b, backend[b].events = {})
          /\ UNCHANGED browser
       \/ /\ b \in Live /\ backend[b].running /\ NoFault
          /\ browser' = [browser EXCEPT ![b].ends = @ + 1]
          /\ story' = [story EXCEPT !.client = b]
    /\ UNCHANGED <<controller, agent, result>>

(* _CollectTracingData, one notification at a time. *)
Collecting == At("stopping") /\ story.client # NoBrowser
NextOf(b) == Head(browser[b].inbox)
IsLast(message) == message = Complete
EventsIn(b) == {NextOf(b)} \ {Complete}

Collect ==
    /\ Collecting
    /\ LET b == story.client IN
       /\ browser[b].inbox # <<>>
       /\ browser' = [browser EXCEPT ![b].inbox = Tail(@)]
       /\ backend' = [backend EXCEPT ![b] =
                         [running |-> ~IsLast(NextOf(b)),
                          events |-> @.events \cup EventsIn(b)]]
       /\ story' = IF IsLast(NextOf(b)) THEN Asked(b, FALSE) ELSE story
    /\ NoFault /\ UNCHANGED <<controller, agent, result>>

(* Time-out, or the browser is gone: the backend stays as if it ran. *)
CollectFails ==
    /\ Collecting
    /\ LET b == story.client IN
       /\ browser[b].inbox = <<>>
       /\ \/ b \notin Live /\ NoFault
          \/ b \in Live /\ Fault
       /\ UNCHANGED backend
       /\ story' = Asked(b, TRUE)
    /\ UNCHANGED <<controller, agent, browser, result>>

(* With an error the agent raises, and the controller keeps what it knows. *)
AfterStop(failed) == IF failed # {} THEN controller ELSE Cleared
StopDone ==
    /\ Asking
    /\ story.todo = {}
    /\ agent' = [agent EXCEPT !.active = FALSE]
    /\ controller' = AfterStop(story.failed)
    /\ result' = IF story.by = "measure" /\ story.failed = {}
                 THEN [n |-> story.n, trace |-> story.trace, fresh |-> story.fresh] ELSE result
    /\ story' = [story EXCEPT !.pc = IF story.by = "measure" THEN "cleanup" ELSE "over",
                              !.aborting = @ \/ (story.by = "measure" /\ story.failed # {})]
    /\ NoFault /\ UNCHANGED <<backend, browser>>

-----------------------------------------------------------------------------
(* The browsers (external): Tracing.end stops a trace, whose data is sent  *)
(* and then declared complete; otherwise it is answered with an error.     *)

ByBrowser == UNCHANGED <<controller, agent, backend, story, result, faults>>

Flushing(b) == [browser[b] EXCEPT !.ends = @ - 1, !.tracing = FALSE, !.buffer = {},
                                  !.flush = browser[b].buffer,
                                  !.completing = browser[b].tracing]
BrowserEnds(b) ==
    /\ b \in Live /\ browser[b].ends > 0
    /\ browser[b].flush = {} /\ ~browser[b].completing
    /\ browser' = [browser EXCEPT ![b] = Flushing(b)]
    /\ ByBrowser

BrowserFlushes(b) ==
    /\ b \in Live
    /\ \E d \in browser[b].flush :
          browser' = [browser EXCEPT ![b].flush = @ \ {d}, ![b].inbox = Append(@, d)]
    /\ ByBrowser

BrowserCompletes(b) ==
    /\ b \in Live /\ browser[b].flush = {} /\ browser[b].completing
    /\ browser' = [browser EXCEPT ![b].completing = FALSE, ![b].inbox = Append(@, Complete)]
    /\ ByBrowser

-----------------------------------------------------------------------------
Traces == SUBSET (Browsers \X Stories)
Inboxes == Seq(Stories \cup {Complete})
StoryType ==
    [pc : {"idle", "starting", "running", "stopping", "cleanup", "over"},
     n : 0 .. MaxStories, by : {"measure", "did"}, client : Browsers \cup {NoBrowser},
     todo : SUBSET Browsers, fresh : SUBSET Browsers, failed : SUBSET Browsers, aborting : BOOLEAN,
     trace : Traces]
BrowserType ==
    [life : {"unused", "alive", "dead"}, tracing : BOOLEAN, completing : BOOLEAN,
     buffer : SUBSET Stories, flush : SUBSET Stories, ends : Nat, inbox : Inboxes]

BackendType == [running : BOOLEAN, events : SUBSET Stories]

TypeOK ==
    /\ controller \in [running : BOOLEAN, agents : BOOLEAN]
    /\ agent \in [active : BOOLEAN, clients : SUBSET Browsers]
    /\ backend \in [Browsers -> BackendType]
    /\ browser \in [Browsers -> BrowserType]
    /\ story \in StoryType
    /\ result \in [n : 0 .. MaxStories, trace : Traces, fresh : SUBSET Browsers]
    /\ faults \in 0 .. MaxFaults

Init ==
    /\ controller = Cleared
    /\ agent = [active |-> FALSE, clients |-> {}]
    /\ backend = [b \in Browsers |-> Fresh]
    /\ browser = [b \in Browsers |->
                    [life |-> "unused", tracing |-> FALSE, completing |-> FALSE,
                     buffer |-> {}, flush |-> {}, ends |-> 0, inbox |-> <<>>]]
    /\ story = [pc |-> "idle", n |-> 0, by |-> "did", client |-> NoBrowser, todo |-> {},
                fresh |-> {}, failed |-> {}, aborting |-> FALSE, trace |-> {}]
    /\ result = [n |-> 0, trace |-> {}, fresh |-> {}]
    /\ faults = 0

Runner ==
    \/ WillRunUserStory \/ NotSupported \/ StartDone \/ Measure \/ PageFails
    \/ DidRunUserStory \/ StoryOver \/ Collect \/ CollectFails \/ StopDone
    \/ \E b \in Browsers : StartChromeTracing(b) \/ StartFails(b) \/ StopChromeTracing(b)

Browsing == \E b \in Browsers :
    Launch(b) \/ Close(b) \/ Crash(b) \/ BrowserEnds(b) \/ BrowserFlushes(b) \/ BrowserCompletes(b)

Next == Runner \/ Browsing

Spec == Init /\ [][Next]_vars

-----------------------------------------------------------------------------
(* Properties. *)

(* A browser refused for being launched during a trace is refused during a *)
(* trace only: the agent is active no longer than the controller has it to *)
(* stop (RegisterDevToolsClient, Stop).                                    *)
ActiveIsStoppable == agent.active => controller.running /\ controller.agents

(* A trace that Measure returns has, of every browser its own Start made   *)
(* trace, that story and no other, whatever earlier stories left in the    *)
(* browser, the socket or the backend.                                     *)
TraceExact ==
    \A b \in result.fresh : {n \in Stories : <<b, n>> \in result.trace} = {result.n}

(* Between two stories a browser is left tracing only if that browser's    *)
(* own trace could not be stopped: one that cannot be stopped keeps Stop   *)
(* from none of the others.                                                *)
QuietBetweenStories ==
    At("idle") => \A b \in Live \ story.failed : ~browser[b].tracing

(* What the documentation of TracingController.Start claims: Start succeeds*)
(* always, so that a page runs with the agent active.                      *)
StartAlwaysSucceeds == At("running") => agent.active
=============================================================================
