---------------------------- MODULE TracingProofs ----------------------------
(***************************************************************************)
(* Proofs about Tracing, for any browsers and bounds: the types, that the  *)
(* agent is active only while the controller has it to stop, that a trace  *)
(* has the data of its story and no other, and that no browser is left     *)
(* tracing unknown to the agent.                                           *)
(***************************************************************************)
EXTENDS Tracing, TLAPS

USE BoundsAssumption

LEMMA BrowserKept ==
    ASSUME TypeOK, NEW b \in Browsers, NEW v \in BrowserType,
           browser' = [browser EXCEPT ![b] = v]
    PROVE  browser' \in [Browsers -> BrowserType]
BY DEF TypeOK

LEMMA TracingType ==
    ASSUME NEW r \in BrowserType, NEW tracing \in BOOLEAN
    PROVE  [r EXCEPT !.tracing = tracing] \in BrowserType
BY DEF BrowserType

LEMMA InboxType ==
    ASSUME NEW r \in BrowserType, NEW inbox \in Inboxes
    PROVE  [r EXCEPT !.inbox = inbox] \in BrowserType
BY DEF BrowserType

LEMMA FlushingType ==
    ASSUME NEW r \in BrowserType, NEW tracing \in BOOLEAN, NEW completing \in BOOLEAN,
           NEW flush \in SUBSET Stories, NEW ends \in Nat
    PROVE  [r EXCEPT !.ends = ends, !.tracing = tracing, !.buffer = {},
                     !.flush = flush, !.completing = completing] \in BrowserType
BY DEF BrowserType

LEMMA DeadType ==
    ASSUME TypeOK, NEW bs
    PROVE  Dead(bs) \in [Browsers -> BrowserType]
BY DEF Dead, TypeOK, BrowserType

LEMMA DataType ==
    ASSUME TypeOK, NEW b \in Browsers
    PROVE  Data(b) \subseteq Stories
<1>1. browser[b].inbox \in Seq(Stories \cup {Complete})
  BY DEF TypeOK, BrowserType, Inboxes
<1> QED BY <1>1 DEF Data

LEMMA BackendKept ==
    ASSUME TypeOK, NEW b \in Browsers, NEW v \in BackendType,
           backend' = [backend EXCEPT ![b] = v]
    PROVE  backend' \in [Browsers -> BackendType]
BY DEF TypeOK

LEMMA FreshType == Fresh \in BackendType /\ [b \in Browsers |-> Fresh] \in [Browsers -> BackendType]
BY DEF Fresh, BackendType

LEMMA FaultType ==
    ASSUME TypeOK, Fault \/ NoFault
    PROVE  faults' \in 0 .. MaxFaults
BY DEF Fault, NoFault, TypeOK

LEMMA MovedStory ==
    ASSUME NEW r \in StoryType, NEW pc \in {"idle", "cleanup", "over"}, NEW aborting \in BOOLEAN
    PROVE  /\ [r EXCEPT !.aborting = aborting, !.pc = pc] \in StoryType
           /\ [r EXCEPT !.pc = pc, !.aborting = aborting].pc = pc
BY DEF StoryType

LEMMA AskedType ==
    ASSUME story \in StoryType, NEW b \in Browsers, NEW error \in BOOLEAN,
           backend' \in [Browsers -> BackendType]
    PROVE  Asked(b, error) \in StoryType
<1> DEFINE all == story.trace \cup ({b} \X backend'[b].events)
<1>1. all \in Traces
  <2>1. story.trace \in Traces
    BY DEF StoryType
  <2>2. {b} \X backend'[b].events \subseteq Browsers \X Stories
    <3>1. backend'[b].events \subseteq Stories
      BY DEF BackendType
    <3> QED BY <3>1
  <2> QED BY <2>1, <2>2 DEF Traces
<1> HIDE DEF all
<1>2. CASE error = TRUE
  BY <1>2 DEF Asked, StoryType
<1>3. CASE error = FALSE
  <2>1. Asked(b, error) = [story EXCEPT !.todo = @ \ {b}, !.client = NoBrowser,
                                        !.trace = all]
    BY <1>3 DEF Asked, all, StoryType
  <2> QED BY <1>1, <2>1 DEF StoryType
<1> QED BY <1>2, <1>3

LEMMA StopType ==
    ASSUME TypeOK, NEW by \in {"measure", "did"}, Stop(by)
    PROVE  story' \in StoryType /\ controller' \in [running : BOOLEAN, agents : BOOLEAN]
<1>1. CASE controller.agents
  <2>1. {} \in Traces
    BY DEF Traces
  <2>2. agent.clients \subseteq Browsers
    BY DEF TypeOK
  <2>3. story' = [story EXCEPT !.pc = "stopping", !.by = by, !.todo = agent.clients,
                               !.failed = {}, !.trace = {}]
    BY <1>1 DEF Stop
  <2> HIDE DEF Traces
  <2>4. story' \in StoryType
    BY <2>1, <2>2, <2>3 DEF TypeOK, StoryType
  <2> QED BY <1>1, <2>4 DEF Stop, TypeOK
<1>2. CASE ~controller.agents
  <2>1. story' = [story EXCEPT !.pc = "cleanup"] \/ story' = [story EXCEPT !.pc = "over"]
    BY <1>2 DEF Stop
  <2>2. story' \in StoryType
    BY <2>1 DEF TypeOK, StoryType
  <2>3. controller' = Cleared
    BY <1>2 DEF Stop
  <2> QED BY <2>2, <2>3 DEF Cleared
<1> QED BY <1>1, <1>2

LEMMA InitType == Init => TypeOK
<1> SUFFICES ASSUME Init PROVE TypeOK
  OBVIOUS
<1>1. story \in StoryType
  BY DEF Init, StoryType, Traces
<1>2. browser \in [Browsers -> BrowserType]
  BY DEF Init, BrowserType, Inboxes
<1>3. backend \in [Browsers -> BackendType]
  BY FreshType DEF Init
<1> QED BY <1>1, <1>2, <1>3 DEF Init, TypeOK, Cleared, Traces

(* What is traced is traced in a story. *)
Numbered == story.pc \in {"starting", "running"} => story.n > 0

LEMMA NextType == TypeOK /\ Numbered /\ [Next]_vars => TypeOK'
<1> SUFFICES ASSUME TypeOK, Numbered, [Next]_vars PROVE TypeOK'
  OBVIOUS
<1> USE DEF TypeOK
<1>1. ASSUME NEW b \in Browsers, Launch(b) PROVE TypeOK'
  <2>1. browser' \in [Browsers -> BrowserType]
    <3>1. [browser[b] EXCEPT !.life = "alive"] \in BrowserType
      BY DEF BrowserType
    <3>2. Alive(b) \in [Browsers -> BrowserType]
      BY <3>1 DEF Alive
    <3> QED BY <1>1, <3>2, DeadType DEF Launch
  <2>2. story' \in StoryType
    <3>1. CASE story' = story
      BY <3>1
    <3>2. CASE story' # story
      <4>1. story' = [story EXCEPT !.aborting = TRUE, !.pc = "over"]
            \/ story' = [story EXCEPT !.aborting = TRUE, !.pc = "cleanup"]
        BY <1>1, <3>2 DEF Launch
      <4>2. story \in StoryType
        OBVIOUS
      <4> HIDE DEF TypeOK
      <4> QED BY <4>1, <4>2, MovedStory
    <3> QED BY <3>1, <3>2
  <2>3. agent' \in [active : BOOLEAN, clients : SUBSET Browsers]
    BY <1>1 DEF Launch
  <2> QED BY <1>1, <2>1, <2>2, <2>3 DEF Launch, NoFault
<1>2. ASSUME NEW b \in Browsers, Close(b) \/ Crash(b) PROVE TypeOK'
  <2>1. browser' \in [Browsers -> BrowserType]
    BY <1>2, DeadType DEF Close, Crash
  <2>2. backend' \in [Browsers -> BackendType]
    BY <1>2, BackendKept, FreshType DEF Close, Crash
  <2> QED BY <1>2, <2>1, <2>2, FaultType DEF Close, Crash
<1>3. ASSUME WillRunUserStory PROVE TypeOK'
  <2>1. agent' \in [active : BOOLEAN, clients : SUBSET Browsers]
    BY <1>3 DEF WillRunUserStory, Unstale
  <2>2. story' \in StoryType
    <3>1. CASE controller.running
      <4>1. story' = [story EXCEPT !.n = @ + 1, !.pc = "running", !.fresh = {}]
        BY <1>3, <3>1 DEF WillRunUserStory
      <4>2. story.n + 1 \in 0 .. MaxStories
        BY <1>3 DEF WillRunUserStory, StoryType
      <4> QED BY <4>1, <4>2 DEF StoryType
    <3>2. CASE ~controller.running
      <4>1. agent.clients \cap Live \subseteq Browsers /\ story.n + 1 \in 0 .. MaxStories
        BY <1>3 DEF WillRunUserStory, StoryType
      <4>2. story' = [story EXCEPT !.n = @ + 1, !.pc = "starting", !.fresh = {},
                                   !.todo = agent.clients \cap Live]
        BY <1>3, <3>2 DEF WillRunUserStory
      <4> QED BY <4>1, <4>2 DEF StoryType
    <3> QED BY <3>1, <3>2
  <2> QED BY <1>3, <2>1, <2>2 DEF WillRunUserStory, NoFault
<1>4. ASSUME NotSupported PROVE TypeOK'
  <2>1. agent' \in [active : BOOLEAN, clients : SUBSET Browsers]
    BY <1>4 DEF NotSupported, Unstale
  <2>2. story' \in StoryType
    <3>1. story' = [story EXCEPT !.n = @ + 1, !.pc = "cleanup", !.aborting = TRUE]
      BY <1>4 DEF NotSupported
    <3>2. story.n + 1 \in 0 .. MaxStories
      BY <1>4 DEF NotSupported, StoryType
    <3> QED BY <3>1, <3>2 DEF StoryType
  <2> QED BY <1>4, <2>1, <2>2 DEF NotSupported, NoFault
<1>5. ASSUME NEW b \in Browsers, StartChromeTracing(b) PROVE TypeOK'
  <2>1. CASE /\ backend[b].running
             /\ story' = [story EXCEPT !.todo = @ \ {b}]
             /\ UNCHANGED <<backend, browser>>
    <3>1. story' \in StoryType
      BY <2>1 DEF StoryType
    <3> QED BY <1>5, <2>1, <3>1 DEF StartChromeTracing, NoFault
  <2>2. CASE /\ backend' = [backend EXCEPT ![b] = Started(b)]
             /\ browser' = [browser EXCEPT ![b] = BrowserStarts(b)]
             /\ story' = [story EXCEPT !.todo = @ \ {b}, !.fresh = @ \cup {b}]
    <3>1. story' \in StoryType
      BY <2>2 DEF StoryType
    <3>2. BrowserStarts(b) \in BrowserType
      <4>1. <<>> \in Inboxes /\ browser[b] \in BrowserType
        BY DEF Inboxes
      <4> DEFINE r == [browser[b] EXCEPT !.tracing = TRUE]
      <4>2. r \in BrowserType
        BY <4>1, TracingType
      <4>3. BrowserStarts(b) = [r EXCEPT !.inbox = <<>>]
        BY <4>1 DEF BrowserStarts, BrowserType
      <4> HIDE DEF r
      <4> QED BY <4>1, <4>2, <4>3, InboxType
    <3>3. Started(b) \in BackendType
      BY DataType DEF Started, BackendType
    <3>4. browser' \in [Browsers -> BrowserType] /\ backend' \in [Browsers -> BackendType]
      BY <2>2, <3>2, <3>3, BrowserKept, BackendKept
    <3> QED BY <1>5, <3>1, <3>4 DEF StartChromeTracing, NoFault
  <2> QED BY <1>5, <2>1, <2>2 DEF StartChromeTracing
<1>6. ASSUME NEW b \in Browsers, StartFails(b) PROVE TypeOK'
  <2>1. story' \in StoryType
    BY <1>6 DEF StartFails, StoryType
  <2>2. browser' \in [Browsers -> BrowserType]
    <3>1. [browser[b] EXCEPT !.tracing = TRUE] \in BrowserType
      <4>1. browser[b] \in BrowserType
        OBVIOUS
      <4> QED BY <4>1, TracingType
    <3>2. browser' = browser \/ browser' = [browser EXCEPT ![b] = [browser[b] EXCEPT !.tracing = TRUE]]
      BY <1>6 DEF StartFails
    <3> QED BY <3>1, <3>2, BrowserKept
  <2>3. backend' \in [Browsers -> BackendType]
    <3>1. [backend[b] EXCEPT !.events = {}] \in BackendType
      BY DEF BackendType
    <3>2. backend' = backend \/ backend' = [backend EXCEPT ![b] = [backend[b] EXCEPT !.events = {}]]
      BY <1>6 DEF StartFails
    <3> QED BY <3>1, <3>2, BackendKept
  <2> QED BY <1>6, <2>1, <2>2, <2>3, FaultType DEF StartFails
<1>7. ASSUME StartDone PROVE TypeOK'
  BY <1>7 DEF StartDone, Appended, StoryType, NoFault
<1>8. ASSUME Measure \/ PageFails \/ DidRunUserStory PROVE TypeOK'
  <2>1. browser' \in [Browsers -> BrowserType]
    <3>1. CASE Measure \/ PageFails
      <4>1. story.n \in Stories
        BY <3>1 DEF Measure, PageFails, At, Numbered, StoryType, Stories
      <4>2. ASSUME NEW b \in Browsers
            PROVE  [browser[b] EXCEPT !.buffer = @ \cup {story.n}] \in BrowserType
        BY <4>1 DEF BrowserType
      <4> QED BY <3>1, <4>2 DEF Measure, PageFails, Traced
    <3>2. CASE DidRunUserStory
      BY <3>2 DEF DidRunUserStory
    <3> QED BY <1>8, <3>1, <3>2
  <2>2. story' \in StoryType /\ controller' \in [running : BOOLEAN, agents : BOOLEAN]
    <3>1. CASE Measure
      BY <3>1, StopType DEF Measure
    <3>2. CASE PageFails
      BY <3>2 DEF PageFails, StoryType
    <3>3. CASE DidRunUserStory /\ controller.running
      BY <3>3, StopType DEF DidRunUserStory
    <3>4. CASE DidRunUserStory /\ ~controller.running
      BY <3>4 DEF DidRunUserStory, StoryType
    <3> QED BY <1>8, <3>1, <3>2, <3>3, <3>4
  <2> QED BY <1>8, <2>1, <2>2, FaultType DEF Measure, PageFails, DidRunUserStory
<1>9. ASSUME StoryOver PROVE TypeOK'
  <2>1. story' \in StoryType
    BY <1>9 DEF StoryOver, StoryType
  <2> QED BY <1>9, <2>1, DeadType, FreshType DEF StoryOver, NoFault
<1>10. ASSUME NEW b \in Browsers, StopChromeTracing(b) PROVE TypeOK'
  <2>1. story' \in StoryType
    <3>1. backend' \in [Browsers -> BackendType]
      BY <1>10 DEF StopChromeTracing
    <3>2. Asked(b, TRUE) \in StoryType /\ Asked(b, backend[b].events = {}) \in StoryType
      BY <3>1, AskedType
    <3>3. [story EXCEPT !.client = b] \in StoryType
      BY DEF StoryType
    <3>4. \/ story' = Asked(b, TRUE) \/ story' = Asked(b, backend[b].events = {})
          \/ story' = [story EXCEPT !.client = b]
      BY <1>10 DEF StopChromeTracing
    <3> QED BY <3>2, <3>3, <3>4
  <2>2. browser' \in [Browsers -> BrowserType]
    <3>1. [browser[b] EXCEPT !.ends = @ + 1] \in BrowserType
      BY DEF BrowserType
    <3>2. browser' = browser \/ browser' = [browser EXCEPT ![b] = [browser[b] EXCEPT !.ends = @ + 1]]
      BY <1>10 DEF StopChromeTracing
    <3> QED BY <3>1, <3>2, BrowserKept
  <2> QED BY <1>10, <2>1, <2>2, FaultType DEF StopChromeTracing
<1>11. ASSUME Collect PROVE TypeOK'
  <2> DEFINE b == story.client
  <2>1. b \in Browsers
    BY <1>11 DEF Collect, Collecting, StoryType
  <2>2. browser[b].inbox \in Seq(Stories \cup {Complete}) /\ browser[b].inbox # <<>>
    BY <1>11, <2>1 DEF Collect, BrowserType, Inboxes
  <2>3. Tail(browser[b].inbox) \in Inboxes /\ EventsIn(b) \subseteq Stories
    BY <2>2 DEF EventsIn, NextOf, Inboxes
  <2>4. browser' \in [Browsers -> BrowserType]
    <3>1. [browser[b] EXCEPT !.inbox = Tail(@)] \in BrowserType
      <4>1. browser[b] \in BrowserType
        BY <2>1
      <4> QED BY <2>3, <4>1, InboxType
    <3>2. browser' = [browser EXCEPT ![b] = [browser[b] EXCEPT !.inbox = Tail(@)]]
      BY <1>11 DEF Collect
    <3> QED BY <2>1, <3>1, <3>2, BrowserKept
  <2>5. backend' \in [Browsers -> BackendType]
    <3> DEFINE v == [running |-> ~IsLast(NextOf(b)), events |-> backend[b].events \cup EventsIn(b)]
    <3>1. backend[b].events \subseteq Stories
      BY <2>1 DEF BackendType
    <3>2. v \in BackendType
      BY <2>3, <3>1 DEF BackendType, IsLast
    <3>3. backend' = [backend EXCEPT ![b] = v]
      BY <1>11 DEF Collect
    <3> QED BY <2>1, <3>2, <3>3, BackendKept
  <2>6. Asked(b, FALSE) \in StoryType
    BY <2>1, <2>5, AskedType
  <2>7. story' \in StoryType
    BY <1>11, <2>6 DEF Collect
  <2> QED BY <1>11, <2>4, <2>5, <2>7 DEF Collect, NoFault
<1>12. ASSUME CollectFails PROVE TypeOK'
  <2> DEFINE b == story.client
  <2>1. b \in Browsers
    BY <1>12 DEF CollectFails, Collecting, StoryType
  <2>2. Asked(b, TRUE) \in StoryType
    BY <1>12, <2>1, AskedType DEF CollectFails
  <2> QED BY <1>12, <2>2, FaultType DEF CollectFails
<1>13. ASSUME StopDone PROVE TypeOK'
  <2>1. story' \in StoryType
    BY <1>13 DEF StopDone, StoryType
  <2>2. controller' \in [running : BOOLEAN, agents : BOOLEAN]
    BY <1>13 DEF StopDone, AfterStop, Cleared
  <2>3. result' \in [n : 0 .. MaxStories, trace : Traces, fresh : SUBSET Browsers]
    BY <1>13 DEF StopDone, StoryType
  <2> QED BY <1>13, <2>1, <2>2, <2>3 DEF StopDone, NoFault
<1>14. ASSUME NEW b \in Browsers, BrowserEnds(b) \/ BrowserFlushes(b) \/ BrowserCompletes(b) PROVE TypeOK'
  <2>1. browser' \in [Browsers -> BrowserType]
    <3>1. CASE BrowserEnds(b)
      <4>1. /\ browser[b] \in BrowserType /\ browser[b].ends - 1 \in Nat
            /\ browser[b].buffer \in SUBSET Stories /\ browser[b].tracing \in BOOLEAN
        BY <3>1 DEF BrowserEnds, BrowserType
      <4>2. Flushing(b) \in BrowserType
        BY <4>1, FlushingType DEF Flushing
      <4> QED BY <3>1, <4>2, BrowserKept DEF BrowserEnds
    <3>2. CASE BrowserFlushes(b)
      <4>1. PICK d \in browser[b].flush :
               browser' = [browser EXCEPT ![b].flush = @ \ {d}, ![b].inbox = Append(@, d)]
        BY <3>2 DEF BrowserFlushes
      <4>2. Append(browser[b].inbox, d) \in Inboxes
        BY <4>1 DEF BrowserType, Inboxes
      <4> QED BY <4>1, <4>2 DEF BrowserType
    <3>3. CASE BrowserCompletes(b)
      <4>1. Append(browser[b].inbox, Complete) \in Inboxes
        BY DEF BrowserType, Inboxes
      <4> QED BY <3>3, <4>1 DEF BrowserCompletes, BrowserType
    <3> QED BY <1>14, <3>1, <3>2, <3>3
  <2> QED BY <1>14, <2>1 DEF BrowserEnds, BrowserFlushes, BrowserCompletes, ByBrowser
<1>15. CASE UNCHANGED vars
  BY <1>15 DEF vars
<1> QED BY <1>1, <1>2, <1>3, <1>4, <1>5, <1>6, <1>7, <1>8, <1>9, <1>10, <1>11, <1>12, <1>13, <1>14, <1>15
        DEF Next, Runner, Browsing

-----------------------------------------------------------------------------
(* The controller and the agent. *)

(* The agent that Start made active is in the controller's list when Start *)
(* returns, and a controller that forgets the list has stopped it.         *)
Stoppable ==
    /\ agent.active => controller.agents
    /\ controller.agents => controller.running
    /\ story.pc = "starting" => controller.running /\ story.n > 0
    /\ story.pc = "running" => story.n > 0

IInv == TypeOK /\ Stoppable

LEMMA InitStoppable == Init => Stoppable
BY DEF Init, Stoppable, Cleared

LEMMA NextStoppable == IInv /\ [Next]_vars => Stoppable'
<1> SUFFICES ASSUME TypeOK, Stoppable, [Next]_vars PROVE Stoppable'
  BY DEF IInv
<1> USE DEF TypeOK
<1>1. ASSUME NEW b \in Browsers, Launch(b) PROVE Stoppable'
  BY <1>1 DEF Launch, Stoppable, At, StoryType
<1>2. ASSUME NEW b \in Browsers, \/ Close(b) \/ Crash(b) \/ BrowserEnds(b) \/ BrowserFlushes(b) \/ BrowserCompletes(b)
      PROVE  Stoppable'
  BY <1>2 DEF Close, Crash, BrowserEnds, BrowserFlushes, BrowserCompletes, ByBrowser, Stoppable
<1>3. ASSUME WillRunUserStory PROVE Stoppable'
  <2>1. agent'.active = agent.active
    BY <1>3 DEF WillRunUserStory, Unstale
  <2>2. CASE controller.running
    <3>1. /\ controller' = controller
          /\ story' = [story EXCEPT !.n = @ + 1, !.pc = "running", !.fresh = {}]
      BY <1>3, <2>2 DEF WillRunUserStory
    <3>2. story'.n = story.n + 1 /\ story'.pc = "running" /\ story.n + 1 > 0
      BY <3>1 DEF StoryType
    <3> QED BY <2>1, <3>1, <3>2 DEF Stoppable
  <2>3. CASE ~controller.running
    <3>1. controller' = [controller EXCEPT !.running = TRUE] /\ story'.n = story.n + 1
      BY <1>3, <2>3 DEF WillRunUserStory, StoryType
    <3> QED BY <1>3, <2>1, <2>3, <3>1 DEF WillRunUserStory, Stoppable, StoryType
  <2> QED BY <2>2, <2>3
<1>4. ASSUME NotSupported PROVE Stoppable'
  <2>1. agent'.active = agent.active /\ controller' = controller /\ story'.pc = "cleanup"
    BY <1>4 DEF NotSupported, Unstale, StoryType
  <2> QED BY <2>1 DEF Stoppable
<1>5. ASSUME NEW b \in Browsers, StartChromeTracing(b) \/ StartFails(b) PROVE Stoppable'
  <2>1. /\ story'.pc \in {story.pc, "cleanup"} /\ story'.n = story.n
        /\ UNCHANGED <<controller, agent>>
    BY <1>5 DEF StartChromeTracing, StartFails, StoryType
  <2> QED BY <2>1 DEF Stoppable
<1>6. ASSUME StartDone PROVE Stoppable'
  <2>1. /\ agent'.active /\ controller'.agents /\ controller'.running = controller.running
        /\ story.pc = "starting" /\ story'.pc = "running" /\ story'.n = story.n
    BY <1>6 DEF StartDone, Appended, At, StoryType
  <2> QED BY <2>1 DEF Stoppable
<1>7. ASSUME NEW by \in {"measure", "did"}, Stop(by), agent' = agent PROVE Stoppable'
  <2>1. CASE controller.agents
    <3>1. controller' = controller /\ story'.pc = "stopping"
      BY <1>7, <2>1 DEF Stop, StoryType
    <3> QED BY <1>7, <3>1 DEF Stoppable
  <2>2. CASE ~controller.agents
    <3>1. controller' = Cleared /\ story'.pc \in {"cleanup", "over"}
      BY <1>7, <2>2 DEF Stop, StoryType
    <3> QED BY <1>7, <2>2, <3>1 DEF Stoppable, Cleared
  <2> QED BY <2>1, <2>2
<1>8. ASSUME Measure \/ PageFails \/ DidRunUserStory PROVE Stoppable'
  <2>1. CASE Measure
    BY <1>7, <2>1 DEF Measure
  <2>2. CASE PageFails
    <3>1. story'.pc = "cleanup" /\ UNCHANGED <<controller, agent>>
      BY <2>2 DEF PageFails, StoryType
    <3> QED BY <3>1 DEF Stoppable
  <2>3. CASE DidRunUserStory /\ controller.running
    BY <1>7, <2>3 DEF DidRunUserStory
  <2>4. CASE DidRunUserStory /\ ~controller.running
    <3>1. story'.pc = "over" /\ UNCHANGED <<controller, agent>>
      BY <2>4 DEF DidRunUserStory, StoryType
    <3> QED BY <3>1 DEF Stoppable
  <2> QED BY <1>8, <2>1, <2>2, <2>3, <2>4
<1>9. ASSUME StoryOver PROVE Stoppable'
  <2>1. story'.pc = "idle" /\ UNCHANGED <<controller, agent>>
    <3>1. PICK r \in StoryType : r = story
      OBVIOUS
    <3>2. story' = [r EXCEPT !.pc = "idle", !.aborting = FALSE] /\ UNCHANGED <<controller, agent>>
      BY <1>9, <3>1 DEF StoryOver
    <3>3. [r EXCEPT !.pc = "idle", !.aborting = FALSE].pc = "idle"
      BY MovedStory
    <3> QED BY <3>2, <3>3
  <2> QED BY <2>1 DEF Stoppable
<1>10. ASSUME Collect \/ CollectFails \/ \E b \in Browsers : StopChromeTracing(b) PROVE Stoppable'
  <2>1. story.pc = "stopping" /\ UNCHANGED <<controller, agent>>
    BY <1>10 DEF Collect, CollectFails, StopChromeTracing, Asking, Collecting, At
  <2>2. \/ story' = story
        \/ \E b, error : story' = Asked(b, error)
        \/ \E b : story' = [story EXCEPT !.client = b]
    BY <1>10 DEF Collect, CollectFails, StopChromeTracing
  <2>3. PICK r \in StoryType : r = story
    OBVIOUS
  <2>4. ASSUME NEW b, NEW error, story' = Asked(b, error) PROVE story'.pc = story.pc
    <3>1. PICK todo, failed, trace :
             story' = [r EXCEPT !.todo = todo, !.client = NoBrowser, !.failed = failed, !.trace = trace]
      BY <2>3, <2>4 DEF Asked
    <3> QED BY <2>3, <3>1 DEF StoryType
  <2>5. ASSUME NEW b, story' = [r EXCEPT !.client = b] PROVE story'.pc = story.pc
    BY <2>3, <2>5 DEF StoryType
  <2>6. story'.pc = story.pc
    BY <2>2, <2>3, <2>4, <2>5
  <2> QED BY <2>1, <2>6 DEF Stoppable
<1>11. ASSUME StopDone PROVE Stoppable'
  <2>1. ~agent'.active /\ story'.pc \in {"cleanup", "over"} /\ controller' \in {controller, Cleared}
    BY <1>11 DEF StopDone, AfterStop, StoryType
  <2> QED BY <2>1 DEF Stoppable, Cleared
<1>12. CASE UNCHANGED vars
  BY <1>12 DEF vars, Stoppable
<1> QED BY <1>1, <1>2, <1>3, <1>4, <1>5, <1>6, <1>8, <1>9, <1>10, <1>11, <1>12 DEF Next, Runner, Browsing

THEOREM Invariance == Spec => []IInv
<1>1. Init => IInv
  BY InitType, InitStoppable DEF IInv
<1>2. IInv /\ [Next]_vars => IInv'
  BY NextType, NextStoppable DEF IInv, Stoppable, Numbered
<1> QED BY <1>1, <1>2, PTL DEF Spec

(* Every variable keeps its type; in particular no trace holds data of a   *)
(* story that did not run, and the end of a trace is not taken for data.   *)
THEOREM TypeCorrect == Spec => []TypeOK
<1>1. IInv => TypeOK
  BY DEF IInv
<1> QED BY <1>1, Invariance, PTL

(* While the agent refuses new browsers, the controller has it in its list *)
(* of agents to stop, whatever failed on the way (Start, Stop,             *)
(* RegisterDevToolsClient).                                                *)
THEOREM ActiveIsStoppableHolds == Spec => []ActiveIsStoppable
<1>1. IInv => ActiveIsStoppable
  BY DEF IInv, Stoppable, ActiveIsStoppable
<1> QED BY <1>1, Invariance, PTL

-----------------------------------------------------------------------------
(* What a browser has traced, and where it is. *)

(* What is in the socket of a browser: while it traces, nothing; when it   *)
(* stops, the data and then, last, the word that it is complete.           *)
Orderly(b) ==
    /\ browser[b].tracing => browser[b].inbox = <<>> /\ browser[b].flush = {} /\ ~browser[b].completing
    /\ browser[b].flush # {} => browser[b].completing
    /\ \A i \in DOMAIN browser[b].inbox :
          browser[b].inbox[i] = Complete => i = Len(browser[b].inbox) /\ ~browser[b].completing
    /\ browser[b].buffer # {} => browser[b].tracing

(* A backend that does not run has read everything, and its browser traces *)
(* only if a Start failed, which ends the run of the stories.              *)
Settling(b) ==
    /\ browser[b].life = "unused" => ~backend[b].running /\ ~browser[b].tracing
    /\ browser[b].life # "dead" /\ ~backend[b].running =>
          /\ browser[b].inbox = <<>> /\ ~browser[b].completing
          /\ browser[b].tracing => story.aborting /\ browser[b].ends = 0

Orders == \A b \in Browsers : Orderly(b) /\ Settling(b)

(* The runner: a run that is to end starts nothing, and a browser that     *)
(* lives is known to the agent.                                            *)
RunnerInv ==
    /\ story.pc \in {"idle", "starting", "running"} => ~story.aborting
    /\ story.pc # "stopping" => story.client = NoBrowser
    /\ story.client # NoBrowser => story.client \in story.todo
    /\ Live \subseteq agent.clients
    /\ story.pc \in {"starting", "running"} => story.fresh \subseteq agent.clients
    /\ story.pc = "starting" => story.fresh \cap story.todo = {}

(* A browser goes on tracing only where a later Stop knows of it.          *)
TracedIsKnown ==
    story.aborting \/ \A b \in Live : browser[b].tracing =>
        /\ story.pc \in {"idle", "over"} => b \in story.failed
        /\ story.pc = "stopping" => b \in story.todo \cup story.failed
        /\ story.pc # "starting" => controller.agents

(* A browser that this story's Start made trace, before it is stopped.     *)
Sealed(b) ==
    /\ backend[b].running /\ backend[b].events = {}
    /\ browser[b].tracing /\ browser[b].ends = 0
(* ... and afterwards: its data is somewhere on the way to the result.     *)
OnTheWay(b) == backend[b].events \cup Data(b) \cup browser[b].flush \cup browser[b].buffer
TracedIn(b) == {n \in Stories : <<b, n>> \in story.trace}

FreshExact ==
    /\ story.pc \in {"starting", "running"} =>
          \A b \in story.fresh : Sealed(b) /\ browser[b].buffer = {}
    /\ story.pc = "stopping" =>
          \A b \in story.todo : TracedIn(b) = {}
    /\ story.pc = "stopping" /\ story.by = "measure" =>
          \A b \in story.fresh :
             /\ b \in story.todo /\ b # story.client =>
                   Sealed(b) /\ (b \in Live => browser[b].buffer = {story.n})
             /\ b = story.client => OnTheWay(b) = {story.n}
             /\ b \notin story.todo => b \in story.failed \/ TracedIn(b) = {story.n}

TInv == Orders /\ RunnerInv /\ TracedIsKnown /\ FreshExact /\ TraceExact

(* What changes in the browsers. *)
Tape(b) == <<browser[b].tracing, browser[b].completing, browser[b].buffer,
             browser[b].flush, browser[b].ends, browser[b].inbox>>
Untouched(b) == Tape(b)' = Tape(b)

LEMMA TapeSame ==
    ASSUME NEW b, Untouched(b)
    PROVE  /\ browser'[b].tracing = browser[b].tracing /\ browser'[b].completing = browser[b].completing
           /\ browser'[b].buffer = browser[b].buffer /\ browser'[b].flush = browser[b].flush
           /\ browser'[b].ends = browser[b].ends /\ browser'[b].inbox = browser[b].inbox
BY DEF Untouched, Tape

LEMMA SameUntouched ==
    ASSUME NEW b, browser'[b] = browser[b]
    PROVE  Untouched(b)
BY DEF Untouched, Tape

LEMMA OrderlyStays ==
    ASSUME NEW b, Untouched(b), Orderly(b)
    PROVE  Orderly(b)'
<1>1. /\ browser'[b].tracing = browser[b].tracing /\ browser'[b].completing = browser[b].completing
      /\ browser'[b].buffer = browser[b].buffer /\ browser'[b].flush = browser[b].flush
      /\ browser'[b].inbox = browser[b].inbox
  BY TapeSame
<1> QED BY <1>1 DEF Orderly

LEMMA DeadTape ==
    ASSUME TypeOK, NEW bs, browser' = Dead(bs)
    PROVE  \A c \in Browsers : /\ Untouched(c)
                               /\ browser'[c].life = IF c \in bs THEN "dead" ELSE browser[c].life
<1> SUFFICES ASSUME NEW c \in Browsers
             PROVE  /\ Untouched(c)
                    /\ browser'[c].life = IF c \in bs THEN "dead" ELSE browser[c].life
  OBVIOUS
<1>1. PICK r \in BrowserType : r = browser[c]
  BY DEF TypeOK
<1>2. browser'[c] = IF c \in bs THEN [r EXCEPT !.life = "dead"] ELSE r
  BY <1>1 DEF Dead
<1>3. CASE c \in bs
  <2>1. browser'[c] = [r EXCEPT !.life = "dead"]
    BY <1>2, <1>3
  <2>2. /\ browser'[c].life = "dead"
        /\ browser'[c].tracing = r.tracing /\ browser'[c].completing = r.completing
        /\ browser'[c].buffer = r.buffer /\ browser'[c].flush = r.flush
        /\ browser'[c].ends = r.ends /\ browser'[c].inbox = r.inbox
    BY <2>1 DEF BrowserType
  <2> QED BY <1>1, <1>3, <2>2 DEF Untouched, Tape
<1>4. CASE c \notin bs
  BY <1>1, <1>2, <1>4, SameUntouched
<1> QED BY <1>3, <1>4

LEMMA AliveTape ==
    ASSUME TypeOK, NEW b \in Browsers, browser' = Alive(b)
    PROVE  \A c \in Browsers : /\ Untouched(c)
                               /\ browser'[c].life = IF c = b THEN "alive" ELSE browser[c].life
<1> SUFFICES ASSUME NEW c \in Browsers
             PROVE  /\ Untouched(c)
                    /\ browser'[c].life = IF c = b THEN "alive" ELSE browser[c].life
  OBVIOUS
<1>1. PICK r \in BrowserType : r = browser[c]
  BY DEF TypeOK
<1>2. CASE c = b
  <2>1. browser'[c] = [r EXCEPT !.life = "alive"]
    BY <1>1, <1>2 DEF Alive, TypeOK
  <2>2. /\ browser'[c].life = "alive"
        /\ browser'[c].tracing = r.tracing /\ browser'[c].completing = r.completing
        /\ browser'[c].buffer = r.buffer /\ browser'[c].flush = r.flush
        /\ browser'[c].ends = r.ends /\ browser'[c].inbox = r.inbox
    BY <2>1 DEF BrowserType
  <2> QED BY <1>1, <1>2, <2>2 DEF Untouched, Tape
<1>3. CASE c # b
  <2>1. browser'[c] = browser[c]
    BY <1>3 DEF Alive, TypeOK
  <2> QED BY <1>3, <2>1, SameUntouched
<1> QED BY <1>2, <1>3

LEMMA TracedTape ==
    ASSUME TypeOK, browser' = Traced
    PROVE  \A c \in Browsers :
              /\ browser'[c].life = browser[c].life
              /\ browser'[c].tracing = browser[c].tracing /\ browser'[c].completing = browser[c].completing
              /\ browser'[c].flush = browser[c].flush /\ browser'[c].ends = browser[c].ends
              /\ browser'[c].inbox = browser[c].inbox
              /\ browser'[c].buffer = IF browser[c].tracing /\ c \in Live
                                      THEN browser[c].buffer \cup {story.n} ELSE browser[c].buffer
<1> SUFFICES ASSUME NEW c \in Browsers
             PROVE  /\ browser'[c].life = browser[c].life
                    /\ browser'[c].tracing = browser[c].tracing /\ browser'[c].completing = browser[c].completing
                    /\ browser'[c].flush = browser[c].flush /\ browser'[c].ends = browser[c].ends
                    /\ browser'[c].inbox = browser[c].inbox
                    /\ browser'[c].buffer = IF browser[c].tracing /\ c \in Live
                                            THEN browser[c].buffer \cup {story.n} ELSE browser[c].buffer
  OBVIOUS
<1>1. PICK r \in BrowserType : r = browser[c]
  BY DEF TypeOK
<1>2. CASE r.tracing /\ c \in Live
  <2>1. browser'[c] = [r EXCEPT !.buffer = r.buffer \cup {story.n}]
    BY <1>1, <1>2 DEF Traced
  <2> QED BY <1>1, <1>2, <2>1 DEF BrowserType
<1>3. CASE ~(r.tracing /\ c \in Live)
  <2>1. browser'[c] = browser[c]
    BY <1>1, <1>3 DEF Traced
  <2> QED BY <1>1, <1>3, <2>1
<1> QED BY <1>2, <1>3

LEMMA TapeAt ==
    ASSUME TypeOK, NEW b \in Browsers, NEW v, browser' = [browser EXCEPT ![b] = v]
    PROVE  /\ browser'[b] = v
           /\ \A c \in Browsers \ {b} : browser'[c] = browser[c] /\ Untouched(c)
<1>1. browser'[b] = v /\ \A c \in Browsers \ {b} : browser'[c] = browser[c]
  BY DEF TypeOK
<1> QED BY <1>1, SameUntouched

(* The data in an inbox. *)
LEMMA DataAppend ==
    ASSUME NEW b, NEW d, browser[b].inbox \in Inboxes, d \in Stories \cup {Complete},
           browser'[b].inbox = Append(browser[b].inbox, d)
    PROVE  Data(b)' = Data(b) \cup ({d} \ {Complete})
<1> DEFINE q == browser[b].inbox
           r == browser'[b].inbox
<1>1. q \in Seq(Stories \cup {Complete}) /\ r = Append(q, d)
  BY DEF Inboxes
<1> HIDE DEF q, r
<1>2. /\ Len(r) = Len(q) + 1 /\ DOMAIN q = 1 .. Len(q) /\ DOMAIN r = 1 .. Len(q) + 1
      /\ r[Len(q) + 1] = d /\ \A i \in 1 .. Len(q) : r[i] = q[i]
      /\ Len(q) \in Nat
  BY <1>1
<1>3. {r[i] : i \in DOMAIN r} = {q[i] : i \in DOMAIN q} \cup {d}
  BY <1>2
<1> QED BY <1>3 DEF Data, q, r

LEMMA DataTail ==
    ASSUME NEW b, browser[b].inbox \in Inboxes, browser[b].inbox # <<>>,
           browser'[b].inbox = Tail(browser[b].inbox)
    PROVE  Data(b) = Data(b)' \cup EventsIn(b)
<1> DEFINE q == browser[b].inbox
           r == browser'[b].inbox
<1>1. q \in Seq(Stories \cup {Complete}) /\ q # <<>> /\ r = Tail(q)
  BY DEF Inboxes
<1> HIDE DEF q, r
<1>2. /\ DOMAIN q = 1 .. Len(q) /\ DOMAIN r = 1 .. Len(q) - 1 /\ Len(q) \in Nat \ {0}
      /\ \A i \in 1 .. Len(q) - 1 : r[i] = q[i + 1]
      /\ Head(q) = q[1]
  BY <1>1
<1>3. {q[i] : i \in DOMAIN q} = {r[i] : i \in DOMAIN r} \cup {Head(q)}
  <2>1. ASSUME NEW i \in DOMAIN q PROVE q[i] \in {r[k] : k \in DOMAIN r} \cup {Head(q)}
    <3>1. CASE i = 1
      BY <1>2, <3>1
    <3>2. CASE i # 1
      <4>1. i - 1 \in DOMAIN r /\ r[i - 1] = q[i]
        BY <1>2, <2>1, <3>2
      <4> QED BY <4>1
    <3> QED BY <3>1, <3>2
  <2>2. ASSUME NEW i \in DOMAIN r PROVE r[i] \in {q[k] : k \in DOMAIN q}
    <3>1. i + 1 \in DOMAIN q /\ r[i] = q[i + 1]
      BY <1>2, <2>2
    <3> QED BY <3>1
  <2>3. Head(q) \in {q[k] : k \in DOMAIN q}
    <3>1. 1 \in DOMAIN q
      BY <1>2
    <3> QED BY <1>2, <3>1
  <2> QED BY <2>1, <2>2, <2>3
<1> QED BY <1>3 DEF Data, EventsIn, NextOf, q, r

(* What the steps of the runner and of a browser do to the browsers. *)
LEMMA OthersKeep ==
    ASSUME IInv,
           \/ \E b \in Browsers : Launch(b) \/ Close(b) \/ Crash(b)
           \/ WillRunUserStory \/ NotSupported \/ StartDone \/ DidRunUserStory \/ StoryOver
           \/ CollectFails \/ StopDone \/ UNCHANGED vars
    PROVE  \A c \in Browsers : Untouched(c)
<1>1. CASE \E b \in Browsers : Launch(b)
  <2>1. PICK b \in Browsers : Launch(b)
    BY <1>1
  <2>2. browser' = Dead({b}) \/ browser' = Alive(b)
    BY <2>1 DEF Launch
  <2> QED BY <2>2, DeadTape, AliveTape DEF IInv
<1>2. CASE StoryOver \/ \E b \in Browsers : Close(b) \/ Crash(b)
  <2>1. browser' = browser \/ \E bs : browser' = Dead(bs)
    BY <1>2 DEF StoryOver, Close, Crash
  <2> QED BY <2>1, DeadTape, SameUntouched DEF IInv
<1>3. CASE \/ WillRunUserStory \/ NotSupported \/ StartDone \/ DidRunUserStory
           \/ CollectFails \/ StopDone \/ UNCHANGED vars
  <2>1. browser' = browser
    BY <1>3 DEF WillRunUserStory, NotSupported, StartDone, DidRunUserStory, CollectFails, StopDone, vars
  <2> QED BY <2>1, SameUntouched
<1> QED BY <1>1, <1>2, <1>3

LEMMA StartTape ==
    ASSUME IInv, NEW b \in Browsers, StartChromeTracing(b), ~backend[b].running
    PROVE  /\ b \in Live /\ Settled(b)
           /\ browser'[b].tracing /\ browser'[b].inbox = <<>>
           /\ browser'[b].life = browser[b].life
           /\ browser'[b].completing = browser[b].completing /\ browser'[b].flush = browser[b].flush
           /\ browser'[b].ends = browser[b].ends /\ browser'[b].buffer = browser[b].buffer
           /\ backend' = [backend EXCEPT ![b] = Started(b)]
           /\ \A c \in Browsers \ {b} : browser'[c] = browser[c] /\ Untouched(c)
<1>1. /\ browser' = [browser EXCEPT ![b] = BrowserStarts(b)]
      /\ b \in Live /\ Settled(b) /\ backend' = [backend EXCEPT ![b] = Started(b)]
  BY DEF StartChromeTracing
<1>2. PICK r \in BrowserType : r = browser[b]
  BY DEF IInv, TypeOK
<1>3. BrowserStarts(b) = [r EXCEPT !.tracing = TRUE, !.inbox = <<>>]
  BY <1>2 DEF BrowserStarts
<1>4. browser'[b] = [r EXCEPT !.tracing = TRUE, !.inbox = <<>>]
  BY <1>1, <1>3, TapeAt DEF IInv
<1>5. /\ browser'[b].tracing /\ browser'[b].inbox = <<>>
      /\ browser'[b].life = browser[b].life
      /\ browser'[b].completing = browser[b].completing /\ browser'[b].flush = browser[b].flush
      /\ browser'[b].ends = browser[b].ends /\ browser'[b].buffer = browser[b].buffer
  BY <1>2, <1>4 DEF BrowserType
<1>6. \A c \in Browsers \ {b} : browser'[c] = browser[c] /\ Untouched(c)
  BY <1>1, TapeAt DEF IInv
<1> QED BY <1>1, <1>5, <1>6

LEMMA StartFailsTape ==
    ASSUME IInv, NEW b \in Browsers, StartFails(b)
    PROVE  /\ browser'[b].life = browser[b].life /\ browser'[b].inbox = browser[b].inbox
           /\ browser'[b].completing = browser[b].completing /\ browser'[b].flush = browser[b].flush
           /\ browser'[b].ends = browser[b].ends /\ browser'[b].buffer = browser[b].buffer
           /\ \/ browser' = browser
              \/ b \in Live /\ Settled(b) /\ browser'[b].tracing
           /\ \A c \in Browsers \ {b} : browser'[c] = browser[c] /\ Untouched(c)
<1>1. CASE browser' = browser
  BY <1>1, SameUntouched
<1>2. CASE browser' = [browser EXCEPT ![b].tracing = TRUE] /\ b \in Live /\ Settled(b)
  <2>1. PICK r \in BrowserType : r = browser[b]
    BY DEF IInv, TypeOK
  <2>2. browser' = [browser EXCEPT ![b] = [r EXCEPT !.tracing = TRUE]]
    BY <1>2, <2>1
  <2>3. browser'[b] = [r EXCEPT !.tracing = TRUE]
    BY <2>2, TapeAt DEF IInv
  <2> QED BY <1>2, <2>1, <2>2, <2>3, TapeAt DEF IInv, BrowserType
<1> QED BY <1>1, <1>2 DEF StartFails

LEMMA StopTape ==
    ASSUME IInv, NEW b \in Browsers, StopChromeTracing(b)
    PROVE  /\ browser'[b].life = browser[b].life /\ browser'[b].inbox = browser[b].inbox
           /\ browser'[b].tracing = browser[b].tracing
           /\ browser'[b].completing = browser[b].completing /\ browser'[b].flush = browser[b].flush
           /\ browser'[b].buffer = browser[b].buffer
           /\ \A c \in Browsers \ {b} : browser'[c] = browser[c] /\ Untouched(c)
<1>1. CASE browser' = browser
  BY <1>1, SameUntouched
<1>2. CASE browser' = [browser EXCEPT ![b].ends = @ + 1]
  <2>1. PICK r \in BrowserType : r = browser[b]
    BY DEF IInv, TypeOK
  <2>2. browser' = [browser EXCEPT ![b] = [r EXCEPT !.ends = r.ends + 1]]
    BY <1>2, <2>1
  <2>3. browser'[b] = [r EXCEPT !.ends = r.ends + 1]
    BY <2>2, TapeAt DEF IInv
  <2>4. /\ browser'[b].life = browser[b].life /\ browser'[b].inbox = browser[b].inbox
        /\ browser'[b].tracing = browser[b].tracing
        /\ browser'[b].completing = browser[b].completing /\ browser'[b].flush = browser[b].flush
        /\ browser'[b].buffer = browser[b].buffer
    BY <2>1, <2>3 DEF BrowserType
  <2>5. \A c \in Browsers \ {b} : browser'[c] = browser[c] /\ Untouched(c)
    BY <2>2, TapeAt DEF IInv
  <2> QED BY <2>4, <2>5
<1> QED BY <1>1, <1>2 DEF StopChromeTracing

LEMMA CollectTape ==
    ASSUME IInv, Collect
    PROVE  \E b \in Browsers :
           /\ b = story.client /\ story.pc = "stopping"
           /\ browser[b].inbox \in Inboxes /\ browser[b].inbox # <<>>
           /\ browser'[b].life = browser[b].life /\ browser'[b].inbox = Tail(browser[b].inbox)
           /\ browser'[b].tracing = browser[b].tracing
           /\ browser'[b].completing = browser[b].completing /\ browser'[b].flush = browser[b].flush
           /\ browser'[b].ends = browser[b].ends /\ browser'[b].buffer = browser[b].buffer
           /\ \A c \in Browsers \ {b} : browser'[c] = browser[c] /\ Untouched(c)
           /\ backend'[b].running = ~IsLast(NextOf(b))
           /\ backend'[b].events = backend[b].events \cup EventsIn(b)
           /\ \A c \in Browsers \ {b} : backend'[c] = backend[c]
           /\ story' = IF IsLast(NextOf(b)) THEN Asked(b, FALSE) ELSE story
<1>1. PICK b \in Browsers : b = story.client
  BY DEF Collect, Collecting, IInv, TypeOK, StoryType
<1>2. /\ browser[b].inbox # <<>> /\ story.pc = "stopping"
      /\ browser' = [browser EXCEPT ![b].inbox = Tail(@)]
      /\ backend' = [backend EXCEPT ![b] = [running |-> ~IsLast(NextOf(b)),
                                            events |-> @.events \cup EventsIn(b)]]
      /\ story' = IF IsLast(NextOf(b)) THEN Asked(b, FALSE) ELSE story
  BY <1>1 DEF Collect, Collecting, At
<1>3. PICK r \in BrowserType : r = browser[b]
  BY DEF IInv, TypeOK
<1>4. browser' = [browser EXCEPT ![b] = [r EXCEPT !.inbox = Tail(r.inbox)]]
  BY <1>2, <1>3
<1>5. browser'[b] = [r EXCEPT !.inbox = Tail(r.inbox)]
  BY <1>4, TapeAt DEF IInv
<1>6. /\ browser[b].inbox \in Inboxes
      /\ browser'[b].life = browser[b].life /\ browser'[b].inbox = Tail(browser[b].inbox)
      /\ browser'[b].tracing = browser[b].tracing
      /\ browser'[b].completing = browser[b].completing /\ browser'[b].flush = browser[b].flush
      /\ browser'[b].ends = browser[b].ends /\ browser'[b].buffer = browser[b].buffer
  BY <1>3, <1>5 DEF BrowserType
<1>7. \A c \in Browsers \ {b} : browser'[c] = browser[c] /\ Untouched(c)
  BY <1>4, TapeAt DEF IInv
<1>8. /\ backend'[b].running = ~IsLast(NextOf(b))
      /\ backend'[b].events = backend[b].events \cup EventsIn(b)
      /\ \A c \in Browsers \ {b} : backend'[c] = backend[c]
  <2>1. backend'[b] = [running |-> ~IsLast(NextOf(b)), events |-> backend[b].events \cup EventsIn(b)]
    BY <1>2 DEF IInv, TypeOK
  <2>2. \A c \in Browsers \ {b} : backend'[c] = backend[c]
    BY <1>2 DEF IInv, TypeOK
  <2> QED BY <2>1, <2>2
<1> QED BY <1>1, <1>2, <1>6, <1>7, <1>8

LEMMA EndsTape ==
    ASSUME IInv, NEW b \in Browsers, BrowserEnds(b)
    PROVE  /\ browser[b].ends > 0 /\ browser[b].flush = {} /\ ~browser[b].completing
           /\ browser'[b].life = browser[b].life /\ browser'[b].inbox = browser[b].inbox
           /\ ~browser'[b].tracing /\ browser'[b].buffer = {}
           /\ browser'[b].flush = browser[b].buffer /\ browser'[b].completing = browser[b].tracing
           /\ \A c \in Browsers \ {b} : browser'[c] = browser[c] /\ Untouched(c)
<1>1. PICK r \in BrowserType : r = browser[b]
  BY DEF IInv, TypeOK
<1>2. browser' = [browser EXCEPT ![b] = Flushing(b)]
  BY DEF BrowserEnds
<1>3. browser'[b] = [r EXCEPT !.ends = r.ends - 1, !.tracing = FALSE, !.buffer = {},
                              !.flush = r.buffer, !.completing = r.tracing]
  BY <1>1, <1>2, TapeAt DEF IInv, Flushing
<1>4. \A c \in Browsers \ {b} : browser'[c] = browser[c] /\ Untouched(c)
  BY <1>2, TapeAt DEF IInv
<1>5. /\ browser'[b].life = r.life /\ browser'[b].inbox = r.inbox
      /\ browser'[b].tracing = FALSE /\ browser'[b].buffer = {}
      /\ browser'[b].flush = r.buffer /\ browser'[b].completing = r.tracing
  BY <1>3 DEF BrowserType
<1> QED BY <1>1, <1>4, <1>5 DEF BrowserEnds

LEMMA FlushesTape ==
    ASSUME IInv, NEW b \in Browsers, BrowserFlushes(b)
    PROVE  \E d \in browser[b].flush :
           /\ browser[b].inbox \in Inboxes /\ d \in Stories
           /\ browser'[b].life = browser[b].life /\ browser'[b].inbox = Append(browser[b].inbox, d)
           /\ browser'[b].tracing = browser[b].tracing /\ browser'[b].buffer = browser[b].buffer
           /\ browser'[b].flush = browser[b].flush \ {d}
           /\ browser'[b].completing = browser[b].completing
           /\ \A c \in Browsers \ {b} : browser'[c] = browser[c] /\ Untouched(c)
<1>1. PICK r \in BrowserType : r = browser[b]
  BY DEF IInv, TypeOK
<1>2. PICK d \in r.flush : browser' = [browser EXCEPT ![b].flush = @ \ {d}, ![b].inbox = Append(@, d)]
  BY <1>1 DEF BrowserFlushes
<1>3. browser' = [browser EXCEPT ![b] = [r EXCEPT !.flush = r.flush \ {d}, !.inbox = Append(r.inbox, d)]]
  BY <1>1, <1>2 DEF IInv, TypeOK
<1>4. browser'[b] = [r EXCEPT !.flush = r.flush \ {d}, !.inbox = Append(r.inbox, d)]
  BY <1>3, TapeAt DEF IInv
<1>5. \A c \in Browsers \ {b} : browser'[c] = browser[c] /\ Untouched(c)
  BY <1>3, TapeAt DEF IInv
<1>6. d \in Stories /\ r.inbox \in Inboxes
  BY <1>2 DEF BrowserType
<1>7. /\ browser'[b].life = r.life /\ browser'[b].inbox = Append(r.inbox, d)
      /\ browser'[b].tracing = r.tracing /\ browser'[b].buffer = r.buffer
      /\ browser'[b].flush = r.flush \ {d} /\ browser'[b].completing = r.completing
  BY <1>4 DEF BrowserType
<1> QED BY <1>1, <1>2, <1>5, <1>6, <1>7

LEMMA CompletesTape ==
    ASSUME IInv, NEW b \in Browsers, BrowserCompletes(b)
    PROVE  /\ browser[b].inbox \in Inboxes /\ browser[b].flush = {} /\ browser[b].completing
           /\ browser'[b].life = browser[b].life
           /\ browser'[b].inbox = Append(browser[b].inbox, Complete)
           /\ browser'[b].tracing = browser[b].tracing /\ browser'[b].buffer = browser[b].buffer
           /\ browser'[b].flush = browser[b].flush /\ ~browser'[b].completing
           /\ \A c \in Browsers \ {b} : browser'[c] = browser[c] /\ Untouched(c)
<1>1. PICK r \in BrowserType : r = browser[b]
  BY DEF IInv, TypeOK
<1>2. browser' = [browser EXCEPT ![b].completing = FALSE, ![b].inbox = Append(@, Complete)]
  BY <1>1 DEF BrowserCompletes
<1>3. browser' = [browser EXCEPT ![b] = [r EXCEPT !.completing = FALSE, !.inbox = Append(r.inbox, Complete)]]
  BY <1>1, <1>2 DEF IInv, TypeOK
<1>4. browser'[b] = [r EXCEPT !.completing = FALSE, !.inbox = Append(r.inbox, Complete)]
  BY <1>3, TapeAt DEF IInv
<1>5. \A c \in Browsers \ {b} : browser'[c] = browser[c] /\ Untouched(c)
  BY <1>3, TapeAt DEF IInv
<1>6. r.flush = {} /\ r.completing /\ r.inbox \in Inboxes
  BY <1>1 DEF BrowserCompletes, BrowserType
<1>7. /\ browser'[b].life = r.life /\ browser'[b].inbox = Append(r.inbox, Complete)
      /\ browser'[b].tracing = r.tracing /\ browser'[b].buffer = r.buffer
      /\ browser'[b].flush = r.flush /\ ~browser'[b].completing
  BY <1>4 DEF BrowserType
<1> QED BY <1>1, <1>5, <1>6, <1>7

LEMMA NextOrderly == IInv /\ (\A b \in Browsers : Orderly(b) /\ Settling(b)) /\ [Next]_vars
                     => \A b \in Browsers : Orderly(b)'
<1> SUFFICES ASSUME IInv, \A b \in Browsers : Orderly(b) /\ Settling(b), [Next]_vars,
                    NEW c \in Browsers
             PROVE  Orderly(c)'
  OBVIOUS
<1>0. Orderly(c)
  OBVIOUS
<1>1. CASE Untouched(c)
  BY <1>0, <1>1, OrderlyStays
<1>2. ASSUME NEW b \in Browsers, StartChromeTracing(b) PROVE Orderly(c)'
  <2>1. CASE backend[b].running
    BY <1>1, <1>2, <2>1, SameUntouched DEF StartChromeTracing
  <2>2. CASE ~backend[b].running /\ c = b
    BY <1>0, <1>2, <2>2, StartTape DEF Orderly, Settled
  <2>3. CASE ~backend[b].running /\ c # b
    BY <1>1, <1>2, <2>3, StartTape
  <2> QED BY <2>1, <2>2, <2>3
<1>3. ASSUME NEW b \in Browsers, StartFails(b) PROVE Orderly(c)'
  <2>1. CASE browser' = browser
    BY <1>1, <2>1, SameUntouched
  <2>2. CASE browser' # browser /\ c = b
    <3>1. b \in Live /\ Settled(b) /\ ~backend[b].running
      BY <1>3, <2>2, StartFailsTape DEF StartFails
    <3>2. browser[b].inbox = <<>>
      BY <3>1 DEF Settling, Live
    <3>3. /\ browser'[b].inbox = browser[b].inbox /\ browser'[b].completing = browser[b].completing
          /\ browser'[b].flush = browser[b].flush /\ browser'[b].tracing
      BY <1>3, <2>2, StartFailsTape
    <3>4. browser[b].flush = {} /\ ~browser[b].completing
      BY <3>1 DEF Settled
    <3> QED BY <2>2, <3>2, <3>3, <3>4 DEF Orderly
  <2>3. CASE c # b
    BY <1>1, <1>3, <2>3, StartFailsTape
  <2> QED BY <2>1, <2>2, <2>3
<1>4. ASSUME Measure \/ PageFails PROVE Orderly(c)'
  <2>1. browser' = Traced
    BY <1>4 DEF Measure, PageFails
  <2>2. /\ browser'[c].tracing = browser[c].tracing /\ browser'[c].completing = browser[c].completing
        /\ browser'[c].flush = browser[c].flush /\ browser'[c].inbox = browser[c].inbox
        /\ browser'[c].buffer # {} => browser[c].tracing \/ browser[c].buffer # {}
    BY <2>1, TracedTape DEF IInv
  <2> QED BY <1>0, <2>2 DEF Orderly
<1>5. ASSUME NEW b \in Browsers, StopChromeTracing(b) PROVE Orderly(c)'
  <2>1. CASE c = b
    BY <1>0, <1>5, <2>1, StopTape DEF Orderly
  <2>2. CASE c # b
    BY <1>1, <1>5, <2>2, StopTape
  <2> QED BY <2>1, <2>2
<1>6. ASSUME Collect PROVE Orderly(c)'
  <2>1. PICK b \in Browsers :
           /\ browser[b].inbox \in Inboxes /\ browser[b].inbox # <<>>
           /\ browser'[b].inbox = Tail(browser[b].inbox)
           /\ browser'[b].tracing = browser[b].tracing
           /\ browser'[b].completing = browser[b].completing /\ browser'[b].flush = browser[b].flush
           /\ browser'[b].buffer = browser[b].buffer
           /\ \A a \in Browsers \ {b} : Untouched(a)
    BY <1>6, CollectTape
  <2>2. CASE c = b
    <3> DEFINE q == browser[b].inbox
               t == browser'[b].inbox
    <3>1. q \in Seq(Stories \cup {Complete}) /\ q # <<>> /\ t = Tail(q)
      BY <2>1 DEF Inboxes
    <3>2. \A i \in DOMAIN q : q[i] = Complete => i = Len(q) /\ ~browser[b].completing
      BY <1>0, <2>2 DEF Orderly
    <3> HIDE DEF q, t
    <3>3. ASSUME NEW i \in DOMAIN t, t[i] = Complete PROVE i = Len(t) /\ ~browser[b].completing
      <4>1. i + 1 \in DOMAIN q /\ q[i + 1] = Complete /\ Len(t) = Len(q) - 1 /\ i \in Nat /\ Len(q) \in Nat
        BY <3>1, <3>3
      <4> QED BY <3>2, <4>1
    <3>4. ~browser[b].tracing
      BY <1>0, <2>2, <3>1 DEF Orderly, q
    <3> QED BY <1>0, <2>1, <2>2, <3>3, <3>4 DEF Orderly, t
  <2>3. CASE c # b
    BY <1>1, <2>1, <2>3
  <2> QED BY <2>2, <2>3
<1>7. ASSUME NEW b \in Browsers, BrowserEnds(b) PROVE Orderly(c)'
  <2>1. CASE c # b
    BY <1>1, <1>7, <2>1, EndsTape
  <2>2. CASE c = b
    BY <1>0, <1>7, <2>2, EndsTape DEF Orderly
  <2> QED BY <2>1, <2>2
<1>8. ASSUME NEW b \in Browsers, BrowserFlushes(b) \/ BrowserCompletes(b) PROVE Orderly(c)'
  <2>1. CASE c # b
    BY <1>1, <1>8, <2>1, FlushesTape, CompletesTape
  <2>2. CASE c = b
    <3>1. PICK d \in Stories \cup {Complete} :
             /\ browser[b].inbox \in Inboxes
             /\ browser'[b].inbox = Append(browser[b].inbox, d)
             /\ browser'[b].tracing = browser[b].tracing /\ browser'[b].buffer = browser[b].buffer
             /\ browser'[b].flush \subseteq browser[b].flush
             /\ browser[b].completing
             /\ d # Complete => browser'[b].completing
             /\ d = Complete => ~browser'[b].completing /\ browser'[b].flush = {}
      <4>1. CASE BrowserFlushes(b)
        <5>1. PICK d \in browser[b].flush :
                 /\ browser[b].inbox \in Inboxes /\ d \in Stories
                 /\ browser'[b].inbox = Append(browser[b].inbox, d)
                 /\ browser'[b].tracing = browser[b].tracing /\ browser'[b].buffer = browser[b].buffer
                 /\ browser'[b].flush = browser[b].flush \ {d}
                 /\ browser'[b].completing = browser[b].completing
          BY <4>1, FlushesTape
        <5>2. d # Complete /\ browser[b].completing
          BY <1>0, <2>2, <5>1 DEF Orderly, Stories, Complete
        <5> QED BY <5>1, <5>2
      <4>2. CASE BrowserCompletes(b)
        BY <4>2, CompletesTape
      <4> QED BY <1>8, <4>1, <4>2
    <3> DEFINE q == browser[b].inbox
               t == browser'[b].inbox
    <3>2. q \in Seq(Stories \cup {Complete}) /\ t = Append(q, d)
      BY <3>1 DEF Inboxes
    <3>3. \A i \in DOMAIN q : q[i] # Complete
      BY <1>0, <2>2, <3>1 DEF Orderly
    <3> HIDE DEF q, t
    <3>4. ASSUME NEW i \in DOMAIN t, t[i] = Complete PROVE i = Len(t) /\ d = Complete
      <4>1. Len(t) = Len(q) + 1 /\ t[Len(q) + 1] = d /\ (i # Len(q) + 1 => i \in DOMAIN q /\ t[i] = q[i])
        BY <3>2, <3>4
      <4> QED BY <3>3, <3>4, <4>1
    <3>5. ~browser[b].tracing
      BY <1>0, <2>2, <3>1 DEF Orderly
    <3>6. browser[b].buffer = {}
      BY <1>0, <2>2, <3>5 DEF Orderly
    <3> QED BY <2>2, <3>1, <3>4, <3>5, <3>6 DEF Orderly, t
  <2> QED BY <2>1, <2>2
<1>9. CASE \/ \E b \in Browsers : Launch(b) \/ Close(b) \/ Crash(b)
           \/ WillRunUserStory \/ NotSupported \/ StartDone \/ DidRunUserStory \/ StoryOver
           \/ CollectFails \/ StopDone \/ UNCHANGED vars
  BY <1>1, <1>9, OthersKeep
<1> QED BY <1>2, <1>3, <1>4, <1>5, <1>6, <1>7, <1>8, <1>9 DEF Next, Runner, Browsing

LEMMA LivesOn ==
    ASSUME IInv,
           \/ WillRunUserStory \/ NotSupported \/ StartDone \/ Measure \/ PageFails
           \/ DidRunUserStory \/ Collect \/ CollectFails \/ StopDone \/ UNCHANGED vars
           \/ \E b \in Browsers : \/ StartChromeTracing(b) \/ StartFails(b) \/ StopChromeTracing(b)
                                  \/ BrowserEnds(b) \/ BrowserFlushes(b) \/ BrowserCompletes(b)
    PROVE  /\ \A c \in Browsers : browser'[c].life = browser[c].life
           /\ Live' = Live
<1>1. \A c \in Browsers : browser'[c].life = browser[c].life
  <2>1. CASE \/ WillRunUserStory \/ NotSupported \/ StartDone \/ DidRunUserStory
             \/ CollectFails \/ StopDone \/ UNCHANGED vars
    BY <2>1 DEF WillRunUserStory, NotSupported, StartDone, DidRunUserStory, CollectFails, StopDone, vars
  <2>2. CASE Measure \/ PageFails
    <3>1. browser' = Traced
      BY <2>2 DEF Measure, PageFails
    <3> QED BY <3>1, TracedTape DEF IInv
  <2>3. CASE Collect
    BY <2>3, CollectTape
  <2>4. ASSUME NEW b \in Browsers,
               \/ StartChromeTracing(b) \/ StartFails(b) \/ StopChromeTracing(b)
               \/ BrowserEnds(b) \/ BrowserFlushes(b) \/ BrowserCompletes(b),
               NEW c \in Browsers
        PROVE  browser'[c].life = browser[c].life
    <3>1. CASE StartChromeTracing(b) /\ backend[b].running
      BY <3>1 DEF StartChromeTracing
    <3>2. CASE StartChromeTracing(b) /\ ~backend[b].running
      BY <3>2, StartTape
    <3>3. CASE StartFails(b)
      BY <3>3, StartFailsTape
    <3>4. CASE StopChromeTracing(b)
      BY <3>4, StopTape
    <3>5. CASE BrowserEnds(b)
      BY <3>5, EndsTape
    <3>6. CASE BrowserFlushes(b)
      BY <3>6, FlushesTape
    <3>7. CASE BrowserCompletes(b)
      BY <3>7, CompletesTape
    <3> QED BY <2>4, <3>1, <3>2, <3>3, <3>4, <3>5, <3>6, <3>7
  <2> QED BY <2>1, <2>2, <2>3, <2>4
<1> QED BY <1>1 DEF Live

LEMMA Launched ==
    ASSUME IInv, NEW b \in Browsers, Launch(b)
    PROVE  /\ browser[b].life = "unused"
           /\ \A c \in Browsers : browser'[c].life = IF c # b THEN browser[c].life
                                                    ELSE IF agent.active THEN "dead" ELSE "alive"
           /\ Live \subseteq Live' /\ Live' \subseteq Live \cup {b}
           /\ b \in Live' => agent' = [agent EXCEPT !.clients = @ \cup {b}]
<1>1. browser[b].life = "unused"
  BY DEF Launch
<1>2. \A c \in Browsers : browser'[c].life = IF c # b THEN browser[c].life
                                             ELSE IF agent.active THEN "dead" ELSE "alive"
  <2>1. CASE agent.active
    <3>1. browser' = Dead({b})
      BY <2>1 DEF Launch
    <3> QED BY <2>1, <3>1, DeadTape DEF IInv
  <2>2. CASE ~agent.active
    <3>1. browser' = Alive(b)
      BY <2>2 DEF Launch
    <3> QED BY <2>2, <3>1, AliveTape DEF IInv
  <2> QED BY <2>1, <2>2
<1>3. b \in Live' => ~agent.active
  BY <1>2 DEF Live
<1> QED BY <1>1, <1>2, <1>3 DEF Live, Launch

LEMMA Dies ==
    ASSUME IInv, StoryOver \/ \E b \in Browsers : Close(b) \/ Crash(b)
    PROVE  /\ \A c \in Browsers : browser'[c].life \in {browser[c].life, "dead"}
           /\ Live' \subseteq Live
           /\ StoryOver /\ story.aborting => Live' = {}
<1>1. browser' = browser \/ \E bs : browser' = Dead(bs)
  BY DEF StoryOver, Close, Crash
<1>2. \A c \in Browsers : browser'[c].life \in {browser[c].life, "dead"}
  BY <1>1, DeadTape DEF IInv
<1>3. ASSUME StoryOver, story.aborting PROVE Live' = {}
  <2>1. browser' = Dead(Live)
    BY <1>3 DEF StoryOver
  <2>2. \A c \in Browsers : browser'[c].life # "alive"
    BY <2>1, DeadTape DEF IInv, Live
  <2> QED BY <2>2 DEF Live
<1> QED BY <1>2, <1>3 DEF Live

(* Stop, said of the fields of story. *)
LEMMA StopFields ==
    ASSUME IInv, NEW by \in {"measure", "did"}, Stop(by)
    PROVE  /\ story'.n = story.n /\ story'.fresh = story.fresh
           /\ story'.client = story.client /\ story'.aborting = story.aborting
           /\ controller.agents => /\ story'.pc = "stopping" /\ story'.by = by
                                   /\ story'.todo = agent.clients
                                   /\ story'.failed = {} /\ story'.trace = {}
                                   /\ controller' = controller
           /\ ~controller.agents => /\ story'.pc = IF by = "measure" THEN "cleanup" ELSE "over"
                                    /\ story'.todo = story.todo /\ story'.failed = story.failed
                                    /\ story'.trace = story.trace
<1>1. PICK r \in StoryType : r = story
  BY DEF IInv, TypeOK
<1>2. CASE controller.agents
  <2>1. story' = [r EXCEPT !.pc = "stopping", !.by = by, !.todo = agent.clients,
                           !.failed = {}, !.trace = {}]
    BY <1>1, <1>2 DEF Stop
  <2>2. controller' = controller
    BY <1>2 DEF Stop
  <2> QED BY <1>1, <1>2, <2>1, <2>2 DEF StoryType
<1>3. CASE ~controller.agents
  <2>1. story' = [r EXCEPT !.pc = IF by = "measure" THEN "cleanup" ELSE "over"]
    BY <1>1, <1>3 DEF Stop
  <2> QED BY <1>1, <1>3, <2>1 DEF StoryType
<1> QED BY <1>2, <1>3

LEMMA AskedFields ==
    ASSUME IInv, NEW b \in Browsers, NEW error \in BOOLEAN, story' = Asked(b, error)
    PROVE  /\ story'.n = story.n /\ story'.fresh = story.fresh /\ story'.pc = story.pc
           /\ story'.by = story.by /\ story'.aborting = story.aborting
           /\ story'.client = NoBrowser /\ story'.todo = story.todo \ {b}
           /\ story'.failed = IF error THEN story.failed \cup {b} ELSE story.failed
           /\ story'.trace = IF error THEN story.trace ELSE story.trace \cup ({b} \X backend'[b].events)
<1>1. PICK r \in StoryType : r = story
  BY DEF IInv, TypeOK
<1> DEFINE f == IF error THEN r.failed \cup {b} ELSE r.failed
           t == IF error THEN r.trace ELSE r.trace \cup ({b} \X backend'[b].events)
<1>2. story' = [r EXCEPT !.todo = r.todo \ {b}, !.client = NoBrowser, !.failed = f, !.trace = t]
  BY <1>1 DEF Asked
<1> HIDE DEF f, t
<1>3. /\ story'.n = r.n /\ story'.fresh = r.fresh /\ story'.pc = r.pc
      /\ story'.by = r.by /\ story'.aborting = r.aborting
      /\ story'.client = NoBrowser /\ story'.todo = r.todo \ {b}
      /\ story'.failed = f /\ story'.trace = t
  BY <1>2 DEF StoryType
<1> QED BY <1>1, <1>3 DEF f, t

(* The story in the other steps of the runner. *)
LEMMA WillRunFields ==
    ASSUME IInv, WillRunUserStory
    PROVE  /\ story.pc = "idle" /\ story'.fresh = {}
           /\ story'.client = story.client /\ story'.aborting = story.aborting
           /\ story'.failed = story.failed /\ story'.trace = story.trace
           /\ controller.running => story'.pc = "running" /\ controller' = controller
           /\ ~controller.running => story'.pc = "starting" /\ controller'.agents = controller.agents
           /\ story'.todo \in {story.todo, agent.clients \cap Live}
           /\ agent'.clients = agent.clients \cap Live
<1>1. PICK r \in StoryType : r = story
  BY DEF IInv, TypeOK
<1>2. agent'.clients = agent.clients \cap Live /\ story.pc = "idle"
  BY DEF IInv, TypeOK, WillRunUserStory, Unstale, At
<1>3. CASE controller.running
  <2>1. story' = [r EXCEPT !.n = r.n + 1, !.pc = "running", !.fresh = {}] /\ controller' = controller
    BY <1>1, <1>3 DEF WillRunUserStory
  <2> QED BY <1>1, <1>2, <1>3, <2>1 DEF StoryType
<1>4. CASE ~controller.running
  <2>1. story' = [r EXCEPT !.n = r.n + 1, !.pc = "starting", !.fresh = {}, !.todo = agent.clients \cap Live]
    BY <1>1, <1>4 DEF WillRunUserStory
  <2>2. controller'.agents = controller.agents
    BY <1>4 DEF WillRunUserStory, IInv, TypeOK
  <2> QED BY <1>1, <1>2, <1>4, <2>1, <2>2 DEF StoryType
<1> QED BY <1>3, <1>4

LEMMA StopDoneFields ==
    ASSUME IInv, StopDone
    PROVE  /\ story.pc = "stopping" /\ story.client = NoBrowser /\ story.todo = {}
           /\ story'.fresh = story.fresh /\ story'.client = story.client /\ story'.todo = story.todo
           /\ story'.failed = story.failed
           /\ story'.pc = IF story.by = "measure" THEN "cleanup" ELSE "over"
           /\ story'.aborting = (story.aborting \/ (story.by = "measure" /\ story.failed # {}))
           /\ agent'.clients = agent.clients
           /\ story.failed # {} => controller' = controller
<1>1. PICK r \in StoryType : r = story
  BY DEF IInv, TypeOK
<1> DEFINE p == IF r.by = "measure" THEN "cleanup" ELSE "over"
           a == r.aborting \/ (r.by = "measure" /\ r.failed # {})
<1>2. story' = [r EXCEPT !.pc = p, !.aborting = a]
  BY <1>1 DEF StopDone
<1> HIDE DEF p, a
<1>3. /\ story'.fresh = r.fresh /\ story'.client = r.client /\ story'.todo = r.todo
      /\ story'.failed = r.failed /\ story'.pc = p /\ story'.aborting = a
  BY <1>2 DEF StoryType
<1>4. story.pc = "stopping" /\ story.client = NoBrowser /\ story.todo = {}
  BY DEF StopDone, Asking, At
<1>5. agent'.clients = agent.clients
  BY DEF StopDone, IInv, TypeOK
<1>6. story.failed # {} => controller' = controller
  BY DEF StopDone, AfterStop
<1> QED BY <1>1, <1>3, <1>4, <1>5, <1>6 DEF p, a

(* The steps that only move the runner on. *)
LEMMA MovesOn ==
    ASSUME IInv,
           \/ \E b \in Browsers : Launch(b) \/ StartFails(b)
           \/ NotSupported \/ StartDone \/ PageFails \/ StoryOver
    PROVE  /\ story'.fresh \in {story.fresh, {}} /\ story'.client = story.client
           /\ story'.failed = story.failed /\ story'.trace = story.trace
           /\ (\E b \in Browsers : Launch(b)) =>
                 /\ story.pc \in {"idle", "running"} /\ story'.todo = story.todo
                 /\ \/ story' = story
                    \/ story'.aborting /\ story'.pc = IF story.pc = "idle" THEN "over" ELSE "cleanup"
           /\ (\E b \in Browsers : StartFails(b)) =>
                 story.pc = "starting" /\ story'.pc = "cleanup" /\ story'.aborting
           /\ NotSupported => story.pc = "idle" /\ story'.pc = "cleanup" /\ story'.aborting
           /\ StartDone => /\ story.pc = "starting" /\ story'.pc = "running"
                           /\ story'.fresh = story.fresh /\ story'.aborting = story.aborting
                           /\ story'.todo = story.todo
           /\ PageFails => story.pc = "running" /\ story'.pc = "cleanup" /\ story'.aborting = story.aborting
           /\ StoryOver => story.pc = "over" /\ story'.pc = "idle" /\ ~story'.aborting
<1>1. PICK r \in StoryType : r = story
  BY DEF IInv, TypeOK
<1>2. ASSUME NEW b \in Browsers, Launch(b)
      PROVE  /\ story.pc \in {"idle", "running"}
             /\ story'.fresh = story.fresh /\ story'.client = story.client
             /\ story'.failed = story.failed /\ story'.trace = story.trace /\ story'.todo = story.todo
             /\ \/ story' = story
                \/ story'.aborting /\ story'.pc = IF story.pc = "idle" THEN "over" ELSE "cleanup"
  <2>1. story.pc \in {"idle", "running"}
    BY <1>2 DEF Launch, At
  <2>2. story' = story \/ story' = [r EXCEPT !.aborting = TRUE, !.pc = IF r.pc = "idle" THEN "over" ELSE "cleanup"]
    BY <1>1, <1>2 DEF Launch, At
  <2> QED BY <1>1, <2>1, <2>2 DEF StoryType
<1>3. ASSUME NEW b \in Browsers, StartFails(b)
      PROVE  /\ story.pc = "starting" /\ story'.pc = "cleanup" /\ story'.aborting
             /\ story'.fresh = story.fresh /\ story'.client = story.client
             /\ story'.failed = story.failed /\ story'.trace = story.trace
  <2>1. story' = [r EXCEPT !.pc = "cleanup", !.aborting = TRUE, !.todo = {}] /\ story.pc = "starting"
    BY <1>1, <1>3 DEF StartFails, At
  <2> QED BY <1>1, <2>1 DEF StoryType
<1>4. ASSUME NotSupported
      PROVE  /\ story.pc = "idle" /\ story'.pc = "cleanup" /\ story'.aborting
             /\ story'.fresh = story.fresh /\ story'.client = story.client
             /\ story'.failed = story.failed /\ story'.trace = story.trace
  <2>1. story' = [r EXCEPT !.n = r.n + 1, !.pc = "cleanup", !.aborting = TRUE] /\ story.pc = "idle"
    BY <1>1, <1>4 DEF NotSupported, At
  <2> QED BY <1>1, <2>1 DEF StoryType
<1>5. ASSUME StartDone
      PROVE  /\ story.pc = "starting" /\ story'.pc = "running" /\ story'.aborting = story.aborting
             /\ story'.fresh = story.fresh /\ story'.client = story.client /\ story'.todo = story.todo
             /\ story'.failed = story.failed /\ story'.trace = story.trace
  <2>1. story' = [r EXCEPT !.pc = "running"] /\ story.pc = "starting"
    BY <1>1, <1>5 DEF StartDone, At
  <2> QED BY <1>1, <2>1 DEF StoryType
<1>6. ASSUME PageFails
      PROVE  /\ story.pc = "running" /\ story'.pc = "cleanup" /\ story'.aborting = story.aborting
             /\ story'.fresh = story.fresh /\ story'.client = story.client
             /\ story'.failed = story.failed /\ story'.trace = story.trace
  <2>1. story' = [r EXCEPT !.pc = "cleanup"] /\ story.pc = "running"
    BY <1>1, <1>6 DEF PageFails, At
  <2> QED BY <1>1, <2>1 DEF StoryType
<1>7. ASSUME StoryOver
      PROVE  /\ story.pc = "over" /\ story'.pc = "idle" /\ ~story'.aborting
             /\ story'.fresh = story.fresh /\ story'.client = story.client
             /\ story'.failed = story.failed /\ story'.trace = story.trace
  <2>1. story' = [r EXCEPT !.pc = "idle", !.aborting = FALSE] /\ story.pc = "over"
    BY <1>1, <1>7 DEF StoryOver, At
  <2> QED BY <1>1, <2>1 DEF StoryType
<1> QED BY <1>2, <1>3, <1>4, <1>5, <1>6, <1>7

LEMMA StartFields ==
    ASSUME IInv, NEW b \in Browsers, StartChromeTracing(b)
    PROVE  /\ story.pc = "starting" /\ b \in story.todo
           /\ story'.pc = story.pc /\ story'.aborting = story.aborting /\ story'.client = story.client
           /\ story'.failed = story.failed /\ story'.todo = story.todo \ {b}
           /\ UNCHANGED <<controller, agent>>
           /\ \/ story'.fresh = story.fresh /\ UNCHANGED <<backend, browser>>
              \/ story'.fresh = story.fresh \cup {b} /\ ~backend[b].running
<1>1. PICK r \in StoryType : r = story
  BY DEF IInv, TypeOK
<1>2. CASE backend[b].running
  <2>1. story' = [r EXCEPT !.todo = r.todo \ {b}] /\ UNCHANGED <<backend, browser>>
    BY <1>1, <1>2 DEF StartChromeTracing
  <2> QED BY <1>1, <2>1 DEF StartChromeTracing, At, StoryType
<1>3. CASE ~backend[b].running
  <2>1. story' = [r EXCEPT !.todo = r.todo \ {b}, !.fresh = r.fresh \cup {b}]
    BY <1>1, <1>3 DEF StartChromeTracing
  <2> QED BY <1>1, <1>3, <2>1 DEF StartChromeTracing, At, StoryType
<1> QED BY <1>2, <1>3

LEMMA AsksFields ==
    ASSUME IInv, NEW b \in Browsers, StopChromeTracing(b)
    PROVE  /\ story.pc = "stopping" /\ story.client = NoBrowser /\ b \in story.todo
           /\ UNCHANGED <<controller, agent, backend>>
           /\ \/ story' = Asked(b, TRUE) /\ browser' = browser
              \/ /\ ~backend[b].running /\ b \in Live /\ browser' = browser
                 /\ story' = Asked(b, backend[b].events = {})
              \/ /\ backend[b].running /\ b \in Live
                 /\ story'.n = story.n /\ story'.fresh = story.fresh /\ story'.pc = story.pc
                 /\ story'.by = story.by /\ story'.aborting = story.aborting
                 /\ story'.client = b /\ story'.todo = story.todo
                 /\ story'.failed = story.failed /\ story'.trace = story.trace
<1>1. PICK r \in StoryType : r = story
  BY DEF IInv, TypeOK
<1>2. /\ story.pc = "stopping" /\ story.client = NoBrowser /\ b \in story.todo
      /\ UNCHANGED <<controller, agent, backend>>
  BY DEF StopChromeTracing, Asking, At
<1>3. ASSUME story' = [story EXCEPT !.client = b]
      PROVE  /\ story'.n = story.n /\ story'.fresh = story.fresh /\ story'.pc = story.pc
             /\ story'.by = story.by /\ story'.aborting = story.aborting
             /\ story'.client = b /\ story'.todo = story.todo
             /\ story'.failed = story.failed /\ story'.trace = story.trace
  <2>1. story' = [r EXCEPT !.client = b]
    BY <1>1, <1>3
  <2> QED BY <1>1, <2>1 DEF StoryType
<1>4. \/ story' = Asked(b, TRUE) /\ browser' = browser
      \/ ~backend[b].running /\ b \in Live /\ browser' = browser /\ story' = Asked(b, backend[b].events = {})
      \/ backend[b].running /\ b \in Live /\ story' = [story EXCEPT !.client = b]
  BY DEF StopChromeTracing
<1> QED BY <1>2, <1>3, <1>4

LEMMA NextRunner == IInv /\ RunnerInv /\ [Next]_vars => RunnerInv'
<1> SUFFICES ASSUME IInv, RunnerInv, [Next]_vars PROVE RunnerInv'
  OBVIOUS
<1>1. ASSUME NEW b \in Browsers, Launch(b) PROVE RunnerInv'
  <2>1. Live' \subseteq agent'.clients /\ agent.clients \subseteq agent'.clients
    <3>1. agent' = agent \/ agent' = [agent EXCEPT !.clients = @ \cup {b}]
      BY <1>1 DEF Launch
    <3>2. agent.clients \subseteq agent'.clients
      BY <3>1 DEF IInv, TypeOK
    <3>3. b \in Live' => b \in agent'.clients
      BY <1>1, Launched DEF IInv, TypeOK
    <3> QED BY <1>1, <3>2, <3>3, Launched DEF RunnerInv
  <2>2. /\ story.pc \in {"idle", "running"} /\ story'.client = story.client /\ story'.todo = story.todo
        /\ \/ story' = story
           \/ story'.aborting /\ story'.pc = IF story.pc = "idle" THEN "over" ELSE "cleanup"
    BY <1>1, MovesOn
  <2> QED BY <2>1, <2>2 DEF RunnerInv
<1>2. ASSUME \E b \in Browsers : \/ Close(b) \/ Crash(b)
                                 \/ BrowserEnds(b) \/ BrowserFlushes(b) \/ BrowserCompletes(b)
      PROVE  RunnerInv'
  <2>1. UNCHANGED <<story, agent>>
    BY <1>2 DEF Close, Crash, BrowserEnds, BrowserFlushes, BrowserCompletes, ByBrowser
  <2>2. Live' \subseteq Live
    BY <1>2, Dies, LivesOn
  <2> QED BY <2>1, <2>2 DEF RunnerInv
<1>3. ASSUME WillRunUserStory PROVE RunnerInv'
  <2>1. Live' = Live
    BY <1>3, LivesOn
  <2>2. /\ story.pc = "idle" /\ story'.fresh = {}
        /\ story'.client = story.client /\ story'.aborting = story.aborting
        /\ agent'.clients = agent.clients \cap Live
        /\ story'.pc \in {"starting", "running"}
    BY <1>3, WillRunFields
  <2> QED BY <2>1, <2>2 DEF RunnerInv
<1>4. ASSUME NotSupported PROVE RunnerInv'
  <2>1. Live' = Live
    BY <1>4, LivesOn
  <2>2. agent'.clients = agent.clients \cap Live
    BY <1>4 DEF NotSupported, Unstale, IInv, TypeOK
  <2>3. story.pc = "idle" /\ story'.pc = "cleanup" /\ story'.client = story.client
    BY <1>4, MovesOn
  <2> QED BY <2>1, <2>2, <2>3 DEF RunnerInv
<1>5. ASSUME NEW b \in Browsers, StartChromeTracing(b) PROVE RunnerInv'
  <2>1. Live' = Live
    BY <1>5, LivesOn
  <2>2. b \in agent.clients \/ UNCHANGED <<backend, browser>>
    <3>1. backend[b].running \/ b \in Live
      BY <1>5 DEF StartChromeTracing
    <3> QED BY <1>5, <3>1 DEF StartChromeTracing, RunnerInv
  <2>3. /\ story.pc = "starting" /\ story'.pc = story.pc /\ story'.aborting = story.aborting
        /\ story'.client = story.client /\ story'.todo = story.todo \ {b} /\ agent' = agent
        /\ story'.fresh = story.fresh \/ (story'.fresh = story.fresh \cup {b} /\ ~backend[b].running)
    BY <1>5, StartFields
  <2>4. ~backend[b].running => b \in Live
    BY <1>5 DEF StartChromeTracing
  <2> QED BY <2>1, <2>3, <2>4 DEF RunnerInv
<1>6. ASSUME StartDone PROVE RunnerInv'
  <2>1. Live' = Live
    BY <1>6, LivesOn
  <2>2. agent'.clients = agent.clients
    BY <1>6 DEF StartDone, IInv, TypeOK
  <2>3. /\ story.pc = "starting" /\ story'.pc = "running" /\ story'.client = story.client
        /\ story'.fresh = story.fresh /\ story'.aborting = story.aborting /\ story'.todo = story.todo
    BY <1>6, MovesOn
  <2> QED BY <2>1, <2>2, <2>3 DEF RunnerInv
<1>7. ASSUME NEW by \in {"measure", "did"}, Stop(by), agent' = agent, Live' = Live,
             story.pc \in {"running", "cleanup"}
      PROVE  RunnerInv'
  <2>1. story'.client = NoBrowser /\ story'.pc \in {"stopping", "cleanup", "over"}
    BY <1>7, StopFields DEF RunnerInv
  <2> QED BY <1>7, <2>1 DEF RunnerInv
<1>8. ASSUME Measure \/ PageFails \/ DidRunUserStory PROVE RunnerInv'
  <2>1. Live' = Live /\ agent' = agent /\ story.pc \in {"running", "cleanup"}
    BY <1>8, LivesOn DEF Measure, PageFails, DidRunUserStory, At
  <2>2. CASE Measure
    BY <1>7, <2>1, <2>2 DEF Measure
  <2>3. CASE PageFails
    <3>1. story.pc = "running" /\ story'.pc = "cleanup" /\ story'.client = story.client
      BY <2>3, MovesOn
    <3> QED BY <2>1, <3>1 DEF RunnerInv
  <2>4. CASE DidRunUserStory /\ controller.running
    BY <1>7, <2>1, <2>4 DEF DidRunUserStory
  <2>5. CASE DidRunUserStory /\ ~controller.running
    <3>1. story' = [story EXCEPT !.pc = "over"] /\ story.pc = "cleanup" /\ story \in StoryType
      BY <2>5 DEF DidRunUserStory, At, IInv, TypeOK
    <3>2. story'.pc = "over" /\ story'.client = story.client
      BY <3>1 DEF StoryType
    <3> QED BY <2>1, <3>1, <3>2 DEF RunnerInv
  <2> QED BY <1>8, <2>2, <2>3, <2>4, <2>5
<1>9. ASSUME StoryOver PROVE RunnerInv'
  <2>1. Live' \subseteq Live /\ agent' = agent
    BY <1>9, Dies DEF StoryOver
  <2>2. story.pc = "over" /\ story'.pc = "idle" /\ ~story'.aborting /\ story'.client = story.client
    BY <1>9, MovesOn
  <2> QED BY <2>1, <2>2 DEF RunnerInv
<1>10. ASSUME NEW b \in Browsers, StartFails(b) PROVE RunnerInv'
  <2>1. Live' = Live /\ agent' = agent
    BY <1>10, LivesOn DEF StartFails
  <2>2. story.pc = "starting" /\ story'.pc = "cleanup" /\ story'.client = story.client
    BY <1>10, MovesOn
  <2> QED BY <2>1, <2>2 DEF RunnerInv
<1>11. ASSUME NEW b \in Browsers, NEW error \in BOOLEAN, story' = Asked(b, error),
              story.pc = "stopping", agent' = agent, Live' = Live
       PROVE  RunnerInv'
  <2>1. story'.pc = story.pc /\ story'.client = NoBrowser
    BY <1>11, AskedFields
  <2> QED BY <1>11, <2>1 DEF RunnerInv
<1>12. ASSUME NEW b \in Browsers, StopChromeTracing(b) PROVE RunnerInv'
  <2>1. Live' = Live /\ agent' = agent /\ story.pc = "stopping" /\ b \in story.todo
    BY <1>12, LivesOn, AsksFields
  <2>2. \/ \E error \in BOOLEAN : story' = Asked(b, error)
        \/ story'.pc = story.pc /\ story'.client = b /\ story'.todo = story.todo
    BY <1>12, AsksFields
  <2> QED BY <1>11, <2>1, <2>2 DEF RunnerInv
<1>13. ASSUME Collect PROVE RunnerInv'
  <2>1. Live' = Live /\ agent' = agent
    BY <1>13, LivesOn DEF Collect
  <2>2. PICK b \in Browsers :
           story.pc = "stopping" /\ story' \in {Asked(b, FALSE), story}
    BY <1>13, CollectTape
  <2>3. CASE story' = story
    BY <2>1, <2>3 DEF RunnerInv
  <2>4. CASE story' = Asked(b, FALSE)
    BY <1>11, <2>1, <2>2, <2>4
  <2> QED BY <2>2, <2>3, <2>4
<1>14. ASSUME CollectFails PROVE RunnerInv'
  <2>1. Live' = Live /\ agent' = agent
    BY <1>14, LivesOn DEF CollectFails
  <2>2. PICK b \in Browsers : story' = Asked(b, TRUE) /\ story.pc = "stopping"
    BY <1>14 DEF CollectFails, Collecting, At, IInv, TypeOK, StoryType
  <2> QED BY <1>11, <2>1, <2>2
<1>15. ASSUME StopDone PROVE RunnerInv'
  <2>1. Live' = Live
    BY <1>15, LivesOn
  <2>2. /\ agent'.clients = agent.clients /\ story.client = NoBrowser /\ story'.client = story.client
        /\ story'.pc \in {"cleanup", "over"}
    BY <1>15, StopDoneFields
  <2> QED BY <2>1, <2>2 DEF RunnerInv
<1>16. CASE UNCHANGED vars
  BY <1>16 DEF vars, RunnerInv, Live
<1> QED BY <1>1, <1>2, <1>3, <1>4, <1>5, <1>6, <1>8, <1>9, <1>10, <1>12, <1>13, <1>14, <1>15, <1>16
        DEF Next, Runner, Browsing

LEMMA AbortingStays ==
    ASSUME IInv, [Next]_vars, ~StoryOver, story.aborting
    PROVE  story'.aborting
<1>1. CASE \/ WillRunUserStory \/ NotSupported \/ StartDone \/ PageFails
           \/ \E b \in Browsers : Launch(b) \/ StartFails(b) \/ StartChromeTracing(b)
  BY <1>1, WillRunFields, MovesOn, StartFields
<1>2. CASE \/ Measure \/ DidRunUserStory
  <2>1. CASE \E by \in {"measure", "did"} : Stop(by)
    BY <2>1, StopFields
  <2>2. CASE DidRunUserStory /\ ~controller.running
    BY <2>2 DEF DidRunUserStory, IInv, TypeOK, StoryType
  <2> QED BY <1>2, <2>1, <2>2 DEF Measure, DidRunUserStory
<1>3. CASE StopDone
  BY <1>3, StopDoneFields
<1>4. CASE Collect \/ CollectFails \/ \E b \in Browsers : StopChromeTracing(b)
  <2>1. \/ story'.aborting = story.aborting
        \/ \E b \in Browsers, error \in BOOLEAN : story' = Asked(b, error)
    <3>1. CASE Collect
      BY <3>1, CollectTape
    <3>2. CASE CollectFails
      <4>1. story.client \in Browsers
        BY <3>2 DEF CollectFails, Collecting, IInv, TypeOK, StoryType
      <4> QED BY <3>2, <4>1 DEF CollectFails
    <3>3. ASSUME NEW b \in Browsers, StopChromeTracing(b)
          PROVE  \/ story'.aborting = story.aborting
                 \/ \E error \in BOOLEAN : story' = Asked(b, error)
      BY <3>3, AsksFields
    <3> QED BY <1>4, <3>1, <3>2, <3>3
  <2> QED BY <2>1, AskedFields
<1>5. CASE \/ UNCHANGED vars
           \/ \E b \in Browsers : \/ Close(b) \/ Crash(b)
                                  \/ BrowserEnds(b) \/ BrowserFlushes(b) \/ BrowserCompletes(b)
  <2>1. story' = story
    BY <1>5 DEF vars, Close, Crash, BrowserEnds, BrowserFlushes, BrowserCompletes, ByBrowser
  <2> QED BY <2>1
<1> QED BY <1>1, <1>2, <1>3, <1>4, <1>5 DEF Next, Runner, Browsing

LEMMA SettlingStays ==
    ASSUME NEW c, Settling(c), story.aborting => story'.aborting,
           browser'[c].life \in {browser[c].life, "dead"}, Untouched(c),
           backend'[c].running = backend[c].running
    PROVE  Settling(c)'
<1>1. /\ browser'[c].inbox = browser[c].inbox /\ browser'[c].completing = browser[c].completing
      /\ browser'[c].tracing = browser[c].tracing /\ browser'[c].ends = browser[c].ends
  BY TapeSame
<1> QED BY <1>1 DEF Settling

LEMMA NextSettling == IInv /\ Orders /\ [Next]_vars => \A b \in Browsers : Settling(b)'
<1> SUFFICES ASSUME IInv, Orders, [Next]_vars, NEW c \in Browsers PROVE Settling(c)'
  OBVIOUS
<1>0. Orderly(c) /\ Settling(c)
  BY DEF Orders
<1>1. ASSUME ~StoryOver, browser'[c].life \in {browser[c].life, "dead"}, Untouched(c),
             backend'[c].running = backend[c].running
      PROVE  Settling(c)'
  BY <1>0, <1>1, SettlingStays, AbortingStays
<1>2. ASSUME NEW b \in Browsers, Launch(b) PROVE Settling(c)'
  <2>1. backend' = backend /\ Untouched(c)
    BY <1>2, OthersKeep DEF Launch
  <2>2. browser'[c].life = IF c # b THEN browser[c].life ELSE IF agent.active THEN "dead" ELSE "alive"
    BY <1>2, Launched
  <2>3. CASE c = b
    <3>1. browser[c].life = "unused"
      BY <1>2, <2>3, Launched
    <3>2. /\ browser'[c].inbox = browser[c].inbox /\ browser'[c].completing = browser[c].completing
          /\ browser'[c].tracing = browser[c].tracing /\ browser'[c].ends = browser[c].ends
      BY <2>1, TapeSame
    <3> QED BY <1>0, <2>1, <2>2, <2>3, <3>1, <3>2 DEF Settling
  <2>4. CASE c # b
    <3>1. Settling(c) /\ browser'[c].life = browser[c].life /\ backend'[c].running = backend[c].running
      BY <1>0, <2>1, <2>2, <2>4
    <3>2. story.aborting => story'.aborting
      BY <1>2, MovesOn
    <3> QED BY <2>1, <3>1, <3>2, SettlingStays
  <2> QED BY <2>3, <2>4
<1>3. ASSUME NEW b \in Browsers, Close(b) \/ Crash(b) PROVE Settling(c)'
  <2>1. Untouched(c) /\ browser'[c].life \in {browser[c].life, "dead"} /\ story' = story
    BY <1>3, OthersKeep, Dies DEF Close, Crash
  <2>2. CASE backend'[c] = backend[c]
    BY <1>0, <2>1, <2>2, SettlingStays
  <2>3. CASE backend'[c] # backend[c]
    <3>1. Close(b) /\ c = b
      BY <1>3, <2>3 DEF Close, Crash, IInv, TypeOK
    <3>2. browser'[c].life = "dead"
      BY <3>1, DeadTape DEF Close, IInv
    <3> QED BY <3>2 DEF Settling
  <2> QED BY <2>2, <2>3
<1>4. ASSUME StoryOver PROVE Settling(c)'
  <2>1. Untouched(c) /\ browser'[c].life \in {browser[c].life, "dead"}
    BY <1>4, OthersKeep, Dies
  <2>2. CASE story.aborting
    <3>1. backend'[c] = Fresh
      BY <1>4, <2>2 DEF StoryOver
    <3>2. c \notin Live'
      BY <1>4, <2>2, Dies
    <3>3. browser[c].life \in {"unused", "alive", "dead"}
      BY DEF IInv, TypeOK, BrowserType
    <3>4. browser'[c].life \in {"unused", "dead"}
      BY <2>1, <3>2, <3>3 DEF Live
    <3>5. browser'[c].life = "unused" => browser[c].life = "unused"
      BY <2>1
    <3>6. /\ browser'[c].inbox = browser[c].inbox /\ browser'[c].completing = browser[c].completing
          /\ browser'[c].tracing = browser[c].tracing /\ browser'[c].ends = browser[c].ends
      BY <2>1, TapeSame
    <3>7. ~backend'[c].running
      BY <3>1 DEF Fresh
    <3> QED BY <1>0, <3>4, <3>5, <3>6, <3>7 DEF Settling
  <2>3. CASE ~story.aborting
    <3>1. backend' = backend
      BY <1>4, <2>3 DEF StoryOver
    <3> QED BY <1>0, <2>1, <2>3, <3>1, SettlingStays
  <2> QED BY <2>2, <2>3
<1>5. ASSUME NEW b \in Browsers, StartChromeTracing(b) PROVE Settling(c)'
  <2>1. browser'[c].life = browser[c].life /\ ~StoryOver
    BY <1>5, LivesOn DEF StartChromeTracing, StoryOver, At
  <2>2. CASE UNCHANGED <<browser, backend>>
    BY <1>1, <2>1, <2>2, SameUntouched
  <2>3. CASE ~backend[b].running
    <3>1. CASE c = b
      <4>1. b \in Live /\ backend'[b].running
        <5>1. backend' = [backend EXCEPT ![b] = Started(b)] /\ b \in Live
          BY <1>5, <2>3, StartTape
        <5> QED BY <5>1 DEF Started, IInv, TypeOK
      <4> QED BY <2>1, <3>1, <4>1 DEF Settling, Live
    <3>2. CASE c # b
      <4>1. Untouched(c) /\ backend'[c] = backend[c]
        BY <1>5, <2>3, <3>2, StartTape DEF IInv, TypeOK
      <4> QED BY <1>1, <2>1, <4>1
    <3> QED BY <3>1, <3>2
  <2> QED BY <1>5, <2>2, <2>3, StartFields
<1>6. ASSUME NEW b \in Browsers, StartFails(b) PROVE Settling(c)'
  <2>1. browser'[c].life = browser[c].life /\ ~StoryOver /\ story'.aborting
    BY <1>6, LivesOn, MovesOn DEF StartFails, StoryOver, At
  <2>2. backend'[c].running = backend[c].running
    <3>1. backend' = backend \/ backend' = [backend EXCEPT ![b] = [backend[b] EXCEPT !.events = {}]]
      BY <1>6 DEF StartFails
    <3>2. [backend[b] EXCEPT !.events = {}].running = backend[b].running
      BY DEF IInv, TypeOK, BackendType
    <3> QED BY <3>1, <3>2 DEF IInv, TypeOK
  <2>3. CASE c # b \/ browser' = browser
    BY <1>1, <1>6, <2>1, <2>2, <2>3, StartFailsTape, SameUntouched
  <2>4. CASE c = b /\ browser' # browser
    <3>1. /\ b \in Live /\ browser'[b].inbox = browser[b].inbox
          /\ browser'[b].completing = browser[b].completing /\ browser'[b].ends = 0
      BY <1>6, <2>4, StartFailsTape DEF Settled
    <3> QED BY <1>0, <2>1, <2>2, <2>4, <3>1 DEF Settling, Live
  <2> QED BY <2>3, <2>4
<1>7. ASSUME Collect PROVE Settling(c)'
  <2>1. browser'[c].life = browser[c].life /\ ~StoryOver
    BY <1>7, LivesOn DEF Collect, Collecting, StoryOver, At
  <2>2. PICK b \in Browsers :
           /\ browser[b].inbox \in Inboxes /\ browser[b].inbox # <<>>
           /\ browser'[b].inbox = Tail(browser[b].inbox)
           /\ browser'[b].tracing = browser[b].tracing
           /\ browser'[b].completing = browser[b].completing /\ browser'[b].flush = browser[b].flush
           /\ \A a \in Browsers \ {b} : browser'[a] = browser[a] /\ Untouched(a)
           /\ backend'[b].running = ~IsLast(NextOf(b))
           /\ \A a \in Browsers \ {b} : backend'[a] = backend[a]
    BY <1>7, CollectTape
  <2>3. CASE c # b
    BY <1>1, <2>1, <2>2, <2>3
  <2>4. CASE c = b
    <3> DEFINE q == browser[b].inbox
    <3>1. q \in Seq(Stories \cup {Complete}) /\ q # <<>> /\ browser'[b].inbox = Tail(q)
      BY <2>2 DEF Inboxes
    <3>2. \A i \in DOMAIN q : q[i] = Complete => i = Len(q) /\ ~browser[b].completing
      BY <1>0, <2>4 DEF Orderly
    <3>3. ~browser[b].tracing
      BY <1>0, <2>4, <3>1 DEF Orderly
    <3>4. CASE IsLast(NextOf(b))
      <4>1. Head(q) = Complete
        BY <3>4 DEF IsLast, NextOf
      <4> HIDE DEF q
      <4>2. 1 \in DOMAIN q /\ Len(q) \in Nat /\ q[1] = Complete
        BY <3>1, <4>1
      <4>3. Len(q) = 1 /\ ~browser[b].completing
        BY <3>2, <4>2
      <4>4. Tail(q) = <<>>
        BY <3>1, <4>3
      <4> QED BY <1>0, <2>1, <2>2, <2>4, <3>1, <3>3, <4>3, <4>4 DEF Settling
    <3>5. CASE ~IsLast(NextOf(b))
      <4>1. backend'[b].running
        BY <2>2, <3>5
      <4>2. browser[b].life = "unused" => FALSE
        <5>1. browser[b].life = "unused" => browser[b].inbox = <<>>
          BY <1>0, <2>4 DEF Settling
        <5> QED BY <2>2, <5>1
      <4> QED BY <2>1, <2>4, <4>1, <4>2 DEF Settling
    <3> QED BY <3>4, <3>5
  <2> QED BY <2>3, <2>4
<1>8. ASSUME Measure \/ PageFails PROVE Settling(c)'
  <2>1. browser' = Traced /\ backend' = backend /\ ~StoryOver
    BY <1>8 DEF Measure, PageFails, StoryOver, At
  <2>2. /\ browser'[c].life = browser[c].life
        /\ browser'[c].inbox = browser[c].inbox /\ browser'[c].completing = browser[c].completing
        /\ browser'[c].tracing = browser[c].tracing /\ browser'[c].ends = browser[c].ends
    BY <2>1, TracedTape DEF IInv
  <2> QED BY <1>0, <2>1, <2>2, AbortingStays DEF Settling
<1>9. ASSUME \/ WillRunUserStory \/ NotSupported \/ StartDone \/ DidRunUserStory
             \/ CollectFails \/ StopDone
      PROVE  Settling(c)'
  <2>1. browser' = browser /\ backend' = backend /\ ~StoryOver
    BY <1>9 DEF WillRunUserStory, NotSupported, StartDone, DidRunUserStory, CollectFails, StopDone,
                StoryOver, At, Collecting, Asking
  <2> QED BY <1>1, <2>1, SameUntouched
<1>10. ASSUME NEW b \in Browsers, StopChromeTracing(b) PROVE Settling(c)'
  <2>1. browser'[c].life = browser[c].life /\ ~StoryOver /\ backend' = backend
    BY <1>10, LivesOn DEF StopChromeTracing, Asking, StoryOver, At
  <2>2. CASE Untouched(c)
    BY <1>1, <2>1, <2>2
  <2>3. CASE ~Untouched(c)
    <3>1. c = b
      BY <1>10, <2>3, StopTape
    <3>2. backend[b].running /\ b \in Live
      BY <1>10, <2>3, <3>1, SameUntouched DEF StopChromeTracing
    <3> QED BY <2>1, <3>1, <3>2 DEF Settling, Live
  <2> QED BY <2>2, <2>3
<1>11. ASSUME NEW b \in Browsers, BrowserEnds(b) \/ BrowserFlushes(b) \/ BrowserCompletes(b)
       PROVE  Settling(c)'
  <2>1. browser'[c].life = browser[c].life /\ backend' = backend /\ story' = story
    BY <1>11, LivesOn DEF BrowserEnds, BrowserFlushes, BrowserCompletes, ByBrowser
  <2>2. CASE c # b
    <3>1. Untouched(c)
      BY <1>11, <2>2, EndsTape, FlushesTape, CompletesTape
    <3> QED BY <1>0, <2>1, <3>1, SettlingStays
  <2>3. CASE c = b /\ BrowserEnds(b)
    <3>1. /\ ~browser[b].completing /\ browser'[b].inbox = browser[b].inbox
          /\ ~browser'[b].tracing /\ browser'[b].completing = browser[b].tracing
      BY <2>3, EndsTape
    <3>2. browser[b].life = "dead" \/ backend[b].running \/ ~browser[b].tracing
      <4>1. browser[b].ends # 0
        BY <2>3, EndsTape
      <4> QED BY <1>0, <2>3, <4>1 DEF Settling
    <3> QED BY <1>0, <2>1, <2>3, <3>1, <3>2 DEF Settling
  <2>4. CASE c = b /\ (BrowserFlushes(b) \/ BrowserCompletes(b))
    <3>1. browser[b].completing /\ browser'[b].tracing = browser[b].tracing
      BY <1>0, <2>4, FlushesTape, CompletesTape DEF Orderly
    <3>2. browser[b].life = "dead" \/ backend[b].running
      BY <1>0, <2>4, <3>1 DEF Settling
    <3> QED BY <1>0, <2>1, <2>4, <3>1, <3>2 DEF Settling
  <2> QED BY <1>11, <2>2, <2>3, <2>4
<1>12. CASE UNCHANGED vars
  <2>1. browser' = browser /\ backend' = backend /\ story' = story
    BY <1>12 DEF vars
  <2> QED BY <1>0, <2>1 DEF Settling
<1> QED BY <1>2, <1>3, <1>4, <1>5, <1>6, <1>7, <1>8, <1>9, <1>10, <1>11, <1>12 DEF Next, Runner, Browsing

LEMMA NextTracedIsKnown == IInv /\ Orders /\ RunnerInv /\ TracedIsKnown /\ [Next]_vars => TracedIsKnown'
<1> SUFFICES ASSUME IInv, Orders, RunnerInv, TracedIsKnown, [Next]_vars,
                    ~story'.aborting, NEW c \in Browsers, c \in Live', browser'[c].tracing
             PROVE  /\ story'.pc \in {"idle", "over"} => c \in story'.failed
                    /\ story'.pc = "stopping" => c \in story'.todo \cup story'.failed
                    /\ story'.pc # "starting" => controller'.agents
  BY DEF TracedIsKnown, Live
<1> DEFINE Known == /\ story'.pc \in {"idle", "over"} => c \in story'.failed
                    /\ story'.pc = "stopping" => c \in story'.todo \cup story'.failed
                    /\ story'.pc # "starting" => controller'.agents
<1>0. ~StoryOver => ~story.aborting
  BY AbortingStays
<1>1. ASSUME ~story.aborting, c \in Live, browser[c].tracing
      PROVE  /\ story.pc \in {"idle", "over"} => c \in story.failed
             /\ story.pc = "stopping" => c \in story.todo \cup story.failed
             /\ story.pc # "starting" => controller.agents
  BY <1>1 DEF TracedIsKnown
<1>2. ASSUME NEW b \in Browsers, Launch(b) PROVE Known
  <2>1. ~StoryOver
    BY <1>2 DEF Launch, StoryOver, At
  <2>2. browser[c].tracing
    BY <1>2, OthersKeep, TapeSame
  <2>3. c # b
    <3>1. browser[b].life = "unused"
      BY <1>2, Launched
    <3> QED BY <2>2, <3>1 DEF Orders, Settling
  <2>4. c \in Live
    BY <1>2, <2>3, Launched
  <2>5. controller' = controller
    BY <1>2 DEF Launch
  <2>6. story' = story
    BY <1>2, MovesOn
  <2> QED BY <1>0, <1>1, <2>1, <2>2, <2>4, <2>5, <2>6
<1>3. ASSUME NEW b \in Browsers, \/ Close(b) \/ Crash(b)
                                 \/ BrowserEnds(b) \/ BrowserFlushes(b) \/ BrowserCompletes(b)
      PROVE  Known
  <2>1. story' = story /\ controller' = controller
    BY <1>3 DEF Close, Crash, BrowserEnds, BrowserFlushes, BrowserCompletes, ByBrowser
  <2>2. c \in Live
    BY <1>3, Dies, LivesOn
  <2>3. browser[c].tracing
    <3>1. CASE Close(b) \/ Crash(b)
      BY <3>1, OthersKeep, TapeSame
    <3>2. CASE c # b /\ (BrowserEnds(b) \/ BrowserFlushes(b) \/ BrowserCompletes(b))
      BY <3>2, EndsTape, FlushesTape, CompletesTape, TapeSame
    <3>3. CASE c = b /\ (BrowserEnds(b) \/ BrowserFlushes(b) \/ BrowserCompletes(b))
      BY <3>3, EndsTape, FlushesTape, CompletesTape
    <3> QED BY <1>3, <3>1, <3>2, <3>3
  <2> QED BY <1>1, <2>1, <2>2, <2>3
<1>4. ASSUME WillRunUserStory PROVE Known
  <2>1. browser' = browser /\ c \in Live /\ ~StoryOver
    BY <1>4, LivesOn DEF WillRunUserStory, StoryOver, At
  <2>2. controller.agents /\ story.pc = "idle"
    BY <1>0, <1>1, <1>4, <2>1, WillRunFields
  <2>3. controller.running
    BY <2>2 DEF IInv, Stoppable
  <2> QED BY <1>4, <2>2, <2>3, WillRunFields
<1>5. ASSUME NEW b \in Browsers, StartChromeTracing(b) PROVE Known
  BY <1>5, StartFields
<1>6. ASSUME StartDone PROVE Known
  <2>1. story'.pc = "running"
    BY <1>6, MovesOn
  <2>2. controller'.agents
    BY <1>6 DEF StartDone, Appended, IInv, TypeOK
  <2> QED BY <2>1, <2>2
<1>7. ASSUME NEW by \in {"measure", "did"}, Stop(by), c \in Live, browser[c].tracing,
             ~story.aborting, story.pc \in {"running", "cleanup"}
      PROVE  Known
  <2>1. controller.agents
    BY <1>1, <1>7
  <2>2. story'.pc = "stopping" /\ story'.todo = agent.clients /\ controller' = controller
    BY <1>7, <2>1, StopFields
  <2> QED BY <1>7, <2>1, <2>2 DEF RunnerInv
<1>8. ASSUME Measure \/ PageFails \/ DidRunUserStory PROVE Known
  <2>1. c \in Live /\ ~story.aborting
    BY <1>0, <1>8, LivesOn DEF Measure, PageFails, DidRunUserStory, StoryOver, At
  <2>2. browser[c].tracing
    <3>1. browser' = Traced \/ browser' = browser
      BY <1>8 DEF Measure, PageFails, DidRunUserStory
    <3> QED BY <3>1, TracedTape DEF IInv
  <2>3. CASE Measure
    BY <1>7, <2>1, <2>2, <2>3 DEF Measure, At
  <2>4. CASE PageFails
    <3>1. story.pc = "running" /\ story'.pc = "cleanup" /\ controller' = controller
      BY <2>4, MovesOn DEF PageFails
    <3> QED BY <1>1, <2>1, <2>2, <3>1
  <2>5. CASE DidRunUserStory /\ controller.running
    BY <1>7, <2>1, <2>2, <2>5 DEF DidRunUserStory, At
  <2>6. CASE DidRunUserStory /\ ~controller.running
    <3>1. story.pc = "cleanup" /\ ~controller.agents
      BY <2>6 DEF DidRunUserStory, At, IInv, Stoppable
    <3> QED BY <1>1, <2>1, <2>2, <3>1
  <2> QED BY <1>8, <2>3, <2>4, <2>5, <2>6
<1>9. ASSUME StoryOver PROVE Known
  <2>1. c \in Live /\ browser[c].tracing
    BY <1>9, Dies, OthersKeep, TapeSame
  <2>2. ~story.aborting
    BY <1>9, Dies
  <2>3. story.pc = "over" /\ story'.pc = "idle" /\ story'.failed = story.failed /\ controller' = controller
    BY <1>9, MovesOn DEF StoryOver
  <2> QED BY <1>1, <2>1, <2>2, <2>3
<1>10. ASSUME NotSupported \/ \E b \in Browsers : StartFails(b) PROVE Known
  BY <1>10, MovesOn
<1>11. ASSUME NEW b \in Browsers, NEW error \in BOOLEAN, story' = Asked(b, error),
              c \in Live, browser[c].tracing, ~story.aborting, story.pc = "stopping",
              controller' = controller, c = b => error
       PROVE  Known
  <2>1. /\ story'.pc = story.pc /\ story'.todo = story.todo \ {b}
        /\ story'.failed = IF error THEN story.failed \cup {b} ELSE story.failed
    BY <1>11, AskedFields
  <2>2. story.pc = "stopping" /\ c \in story.todo \cup story.failed /\ controller.agents
    BY <1>1, <1>11
  <2> QED BY <1>11, <2>1, <2>2
<1>12. ASSUME NEW b \in Browsers, StopChromeTracing(b) PROVE Known
  <2>1. /\ c \in Live /\ story.pc = "stopping" /\ ~StoryOver
        /\ controller' = controller
    BY <1>12, LivesOn, AsksFields DEF StoryOver, At
  <2>2. browser[c].tracing
    BY <1>12, StopTape, TapeSame
  <2>3. CASE story' = Asked(b, TRUE)
    BY <1>0, <1>11, <2>1, <2>2, <2>3
  <2>4. CASE ~backend[b].running /\ b \in Live /\ story' = Asked(b, backend[b].events = {})
    <3>1. c # b
      BY <1>0, <2>1, <2>2, <2>4 DEF Orders, Settling, Live
    <3> QED BY <1>0, <1>11, <2>1, <2>2, <2>4, <3>1
  <2>5. CASE /\ story'.pc = story.pc /\ story'.todo = story.todo
             /\ story'.failed = story.failed
    BY <1>0, <1>1, <2>1, <2>2, <2>5
  <2> QED BY <1>12, <2>3, <2>4, <2>5, AsksFields
<1>13. ASSUME Collect PROVE Known
  <2>1. /\ c \in Live /\ ~StoryOver /\ controller' = controller
    BY <1>13, LivesOn DEF Collect, Collecting, StoryOver, At
  <2>2. PICK b \in Browsers :
           /\ browser[b].inbox # <<>> /\ story.pc = "stopping"
           /\ browser'[b].tracing = browser[b].tracing
           /\ \A a \in Browsers \ {b} : browser'[a] = browser[a]
           /\ story' \in {story, Asked(b, FALSE)}
    BY <1>13, CollectTape
  <2>3. browser[c].tracing
    BY <2>2
  <2>4. c # b
    BY <2>2, <2>3 DEF Orders, Orderly
  <2>5. CASE story' = story
    BY <1>0, <1>1, <2>1, <2>3, <2>5
  <2>6. CASE story' = Asked(b, FALSE)
    BY <1>0, <1>11, <2>1, <2>2, <2>3, <2>4, <2>6
  <2> QED BY <2>2, <2>5, <2>6
<1>14. ASSUME CollectFails PROVE Known
  <2>1. /\ c \in Live /\ ~StoryOver /\ controller' = controller /\ browser' = browser
    BY <1>14, LivesOn DEF CollectFails, Collecting, StoryOver, At
  <2>2. PICK b \in Browsers : story' = Asked(b, TRUE) /\ story.pc = "stopping"
    BY <1>14 DEF CollectFails, Collecting, At, IInv, TypeOK, StoryType
  <2> QED BY <1>0, <1>11, <2>1, <2>2
<1>15. ASSUME StopDone PROVE Known
  <2>1. c \in Live /\ ~StoryOver /\ browser' = browser
    BY <1>15, LivesOn DEF StopDone, Asking, StoryOver, At
  <2>2. c \in story.failed /\ controller.agents
    BY <1>0, <1>1, <1>15, <2>1, StopDoneFields
  <2>3. /\ story'.pc = (IF story.by = "measure" THEN "cleanup" ELSE "over")
        /\ story'.aborting = (story.aborting \/ (story.by = "measure" /\ story.failed # {}))
        /\ story'.failed = story.failed /\ controller' = controller
    BY <1>15, <2>2, StopDoneFields
  <2>4. story.by # "measure"
    BY <2>2, <2>3
  <2> QED BY <2>2, <2>3, <2>4
<1>16. CASE UNCHANGED vars
  <2>1. c \in Live /\ browser' = browser /\ story' = story /\ controller' = controller
    BY <1>16 DEF vars, Live
  <2> QED BY <1>1, <2>1
<1> QED BY <1>2, <1>3, <1>4, <1>5, <1>6, <1>8, <1>9, <1>10, <1>12, <1>13, <1>14, <1>15, <1>16
        DEF Next, Runner, Browsing

LEMMA DataSame ==
    ASSUME NEW b, browser'[b].inbox = browser[b].inbox
    PROVE  Data(b)' = Data(b)
BY DEF Data

LEMMA SealedEmpty ==
    ASSUME NEW b, Orderly(b), browser[b].tracing
    PROVE  Data(b) = {} /\ browser[b].flush = {} /\ ~browser[b].completing /\ browser[b].inbox = <<>>
<1>1. browser[b].inbox = <<>> /\ browser[b].flush = {} /\ ~browser[b].completing
  BY DEF Orderly
<1>2. DOMAIN browser[b].inbox = {}
  BY <1>1
<1> QED BY <1>1, <1>2 DEF Data

(* What is known of one browser, from step to step. *)
LEMMA FreshStays ==
    ASSUME NEW b, Untouched(b), backend'[b] = backend[b]
    PROVE  /\ Sealed(b) => Sealed(b)'
           /\ browser'[b].buffer = browser[b].buffer
           /\ OnTheWay(b)' = OnTheWay(b)
<1>1. /\ browser'[b].inbox = browser[b].inbox /\ browser'[b].flush = browser[b].flush
      /\ browser'[b].buffer = browser[b].buffer /\ browser'[b].ends = browser[b].ends
      /\ browser'[b].tracing = browser[b].tracing
  BY TapeSame
<1>2. Data(b)' = Data(b)
  BY <1>1, DataSame
<1> QED BY <1>1, <1>2 DEF Sealed, OnTheWay

LEMMA FreshAsBefore ==
    ASSUME FreshExact, story' = story, Live' \subseteq Live,
           \A c \in Browsers : Untouched(c) /\ backend'[c] = backend[c], IInv
    PROVE  FreshExact'
<1>1. \A c \in Browsers : /\ Sealed(c) => Sealed(c)'
                          /\ browser'[c].buffer = browser[c].buffer
                          /\ OnTheWay(c)' = OnTheWay(c)
  BY FreshStays
<1>2. story.fresh \subseteq Browsers
  BY DEF IInv, TypeOK, StoryType
<1>3. \A c : TracedIn(c)' = TracedIn(c)
  BY DEF TracedIn
<1> QED BY <1>1, <1>2, <1>3 DEF FreshExact

LEMMA FreshOutside ==
    ASSUME story'.pc \notin {"starting", "running", "stopping"}
    PROVE  FreshExact'
BY DEF FreshExact

(* A client was asked, and reported an error. *)
LEMMA AskedInVain ==
    ASSUME IInv, FreshExact, NEW b \in Browsers, story' = Asked(b, TRUE), story.pc = "stopping",
           story.client \in {b, NoBrowser}, browser' = browser, backend' = backend
    PROVE  FreshExact'
<1>1. /\ story'.n = story.n /\ story'.fresh = story.fresh /\ story'.pc = story.pc
      /\ story'.by = story.by /\ story'.client = NoBrowser /\ story'.todo = story.todo \ {b}
      /\ story'.failed = story.failed \cup {b} /\ story'.trace = story.trace
  BY AskedFields
<1>2. \A c : Sealed(c)' = Sealed(c)
  BY DEF Sealed
<1>3. \A c : TracedIn(c)' = TracedIn(c)
  BY <1>1 DEF TracedIn
<1>4. Live' = Live
  BY DEF Live
<1>5. NoBrowser \notin story.fresh
  BY BrowsersAssumption DEF IInv, TypeOK, StoryType
<1>6. ASSUME story.by = "measure", NEW c \in story.fresh
      PROVE  /\ c \in story.todo \ {b} =>
                  Sealed(c)' /\ (c \in Live' => browser'[c].buffer = {story.n})
             /\ c \notin story.todo \ {b} => c \in story.failed \cup {b} \/ TracedIn(c)' = {story.n}
  <2>1. CASE c = b
    BY <2>1
  <2>2. CASE c # b
    <3>1. c # story.client
      BY <1>5, <1>6, <2>2
    <3> QED BY <1>2, <1>3, <1>4, <1>6, <2>2, <3>1 DEF FreshExact
  <2> QED BY <2>1, <2>2
<1> QED BY <1>1, <1>3, <1>5, <1>6 DEF FreshExact

(* A client handed out what its backend holds. *)
LEMMA AskedData ==
    ASSUME IInv, FreshExact, NEW b \in Browsers, story' = Asked(b, FALSE), story.pc = "stopping",
           story.client \in {b, NoBrowser}, b \in story.todo,
           \A c \in Browsers \ {b} : browser'[c] = browser[c] /\ backend'[c] = backend[c],
           Live' = Live,
           story.by = "measure" /\ b \in story.fresh => backend'[b].events = {story.n} /\ story.n \in Stories
    PROVE  FreshExact'
<1>1. /\ story'.n = story.n /\ story'.fresh = story.fresh /\ story'.pc = story.pc
      /\ story'.by = story.by /\ story'.client = NoBrowser /\ story'.todo = story.todo \ {b}
      /\ story'.failed = story.failed
      /\ story'.trace = story.trace \cup ({b} \X backend'[b].events)
  BY AskedFields
<1>2. ASSUME NEW c \in Browsers, c # b
      PROVE  (Sealed(c) => Sealed(c)') /\ browser'[c].buffer = browser[c].buffer
  BY <1>2, SameUntouched, FreshStays
<1>3. ASSUME NEW c, c # b PROVE TracedIn(c)' = TracedIn(c)
  <2>1. \A n : <<c, n>> \in story'.trace <=> <<c, n>> \in story.trace
    BY <1>1, <1>3
  <2> QED BY <2>1 DEF TracedIn
<1>4. NoBrowser \notin story.fresh /\ story.fresh \subseteq Browsers /\ story.todo \subseteq Browsers
  BY BrowsersAssumption DEF IInv, TypeOK, StoryType
<1>5. TracedIn(b) = {}
  BY DEF FreshExact
<1>6. ASSUME story.by = "measure", b \in story.fresh PROVE TracedIn(b)' = {story.n}
  <2>1. backend'[b].events = {story.n} /\ story.n \in Stories
    BY <1>6
  <2>2. \A n \in Stories : <<b, n>> \in story'.trace <=> n = story.n
    BY <1>1, <1>5, <2>1 DEF TracedIn
  <2> QED BY <2>1, <2>2 DEF TracedIn
<1>7. ASSUME story.by = "measure", NEW c \in story.fresh
      PROVE  /\ c \in story.todo \ {b} =>
                  Sealed(c)' /\ (c \in Live' => browser'[c].buffer = {story.n})
             /\ c \notin story.todo \ {b} => c \in story.failed \/ TracedIn(c)' = {story.n}
  <2>1. CASE c = b
    BY <1>6, <1>7, <2>1
  <2>2. CASE c # b
    <3>1. c # story.client
      BY <1>4, <1>7, <2>2
    <3> QED BY <1>2, <1>3, <1>4, <1>7, <2>2, <3>1 DEF FreshExact
  <2> QED BY <2>1, <2>2
<1>8. \A c \in story.todo \ {b} : TracedIn(c)' = {}
  BY <1>3 DEF FreshExact
<1> QED BY <1>1, <1>4, <1>7, <1>8 DEF FreshExact

LEMMA NextFresh == IInv /\ Orders /\ RunnerInv /\ FreshExact /\ [Next]_vars => FreshExact'
<1> SUFFICES ASSUME IInv, Orders, RunnerInv, FreshExact, [Next]_vars PROVE FreshExact'
  OBVIOUS
<1>0. /\ story.fresh \subseteq Browsers /\ NoBrowser \notin story.fresh
      /\ \A c \in Browsers : Orderly(c) /\ Settling(c)
  BY BrowsersAssumption DEF IInv, TypeOK, StoryType, Orders
<1>1. ASSUME NEW b \in Browsers, Launch(b) PROVE FreshExact'
  <2>1. /\ backend' = backend /\ \A c \in Browsers : Untouched(c)
        /\ story.pc \in {"idle", "running"}
    BY <1>1, OthersKeep, MovesOn DEF Launch
  <2>2. CASE story' = story
    <3>1. \A c \in story.fresh : (Sealed(c) => Sealed(c)') /\ browser'[c].buffer = browser[c].buffer
      BY <1>0, <2>1, FreshStays
    <3> QED BY <2>1, <2>2, <3>1 DEF FreshExact
  <2>3. CASE story' # story
    BY <1>1, <2>3, MovesOn, FreshOutside
  <2> QED BY <2>2, <2>3
<1>2. ASSUME NEW b \in Browsers, Close(b) \/ Crash(b) PROVE FreshExact'
  <2>1. CASE Close(b)
    BY <2>1, FreshOutside DEF Close, At
  <2>2. CASE Crash(b)
    <3>1. story' = story /\ backend' = backend
      BY <2>2 DEF Crash
    <3> QED BY <2>2, <3>1, Dies, OthersKeep, FreshAsBefore
  <2> QED BY <1>2, <2>1, <2>2
<1>3. ASSUME NEW b \in Browsers, BrowserEnds(b) \/ BrowserFlushes(b) \/ BrowserCompletes(b)
      PROVE  FreshExact'
  <2>1. story' = story /\ backend' = backend
    BY <1>3 DEF BrowserEnds, BrowserFlushes, BrowserCompletes, ByBrowser
  <2>2. Live' = Live /\ \A c \in Browsers \ {b} : Untouched(c)
    BY <1>3, LivesOn, EndsTape, FlushesTape, CompletesTape
  <2>3. ~(Sealed(b) /\ Orderly(b))
    <3>1. CASE BrowserEnds(b)
      BY <3>1, EndsTape DEF Sealed
    <3>2. CASE BrowserFlushes(b)
      <4>1. browser[b].flush # {}
        BY <3>2, FlushesTape
      <4> QED BY <4>1 DEF Sealed, Orderly
    <3>3. CASE BrowserCompletes(b)
      <4>1. browser[b].completing
        BY <3>3, CompletesTape
      <4> QED BY <4>1 DEF Sealed, Orderly
    <3> QED BY <1>3, <3>1, <3>2, <3>3
  <2>4. OnTheWay(b)' = OnTheWay(b)
    <3>1. CASE BrowserEnds(b)
      <4>1. /\ browser[b].flush = {} /\ browser'[b].buffer = {} /\ browser'[b].flush = browser[b].buffer
            /\ browser'[b].inbox = browser[b].inbox
        BY <3>1, EndsTape
      <4>2. Data(b)' = Data(b)
        BY <4>1, DataSame
      <4> QED BY <2>1, <4>1, <4>2 DEF OnTheWay
    <3>2. CASE BrowserFlushes(b)
      <4>1. PICK d \in browser[b].flush :
               /\ browser[b].inbox \in Inboxes /\ d \in Stories
               /\ browser'[b].inbox = Append(browser[b].inbox, d)
               /\ browser'[b].buffer = browser[b].buffer
               /\ browser'[b].flush = browser[b].flush \ {d}
        BY <3>2, FlushesTape
      <4>2. d # Complete
        BY <4>1 DEF Stories, Complete
      <4>3. Data(b)' = Data(b) \cup {d}
        BY <4>1, <4>2, DataAppend
      <4> QED BY <2>1, <4>1, <4>3 DEF OnTheWay
    <3>3. CASE BrowserCompletes(b)
      <4>1. /\ browser[b].inbox \in Inboxes /\ browser'[b].inbox = Append(browser[b].inbox, Complete)
            /\ browser'[b].buffer = browser[b].buffer /\ browser'[b].flush = browser[b].flush
        BY <3>3, CompletesTape
      <4>2. Data(b)' = Data(b) \cup ({Complete} \ {Complete})
        BY <4>1, DataAppend
      <4> QED BY <2>1, <4>1, <4>2 DEF OnTheWay
    <3> QED BY <1>3, <3>1, <3>2, <3>3
  <2>5. \A c \in Browsers \ {b} : /\ Sealed(c) => Sealed(c)'
                                  /\ browser'[c].buffer = browser[c].buffer
                                  /\ OnTheWay(c)' = OnTheWay(c)
    BY <2>1, <2>2, FreshStays
  <2>6. \A c : TracedIn(c)' = TracedIn(c)
    BY <2>1 DEF TracedIn
  <2>7. story.pc \in {"starting", "running"} =>
           \A c \in story.fresh : Sealed(c)' /\ browser'[c].buffer = {}
    BY <1>0, <2>3, <2>5 DEF FreshExact
  <2>8. ASSUME story.pc = "stopping", story.by = "measure", NEW c \in story.fresh
        PROVE  /\ c \in story.todo /\ c # story.client =>
                     Sealed(c)' /\ (c \in Live' => browser'[c].buffer = {story.n})
               /\ c = story.client => OnTheWay(c)' = {story.n}
    BY <1>0, <2>2, <2>3, <2>4, <2>5, <2>8 DEF FreshExact
  <2>9. story.pc = "stopping" => \A c \in story.todo : TracedIn(c)' = {}
    BY <2>6 DEF FreshExact
  <2>10. story.pc = "stopping" /\ story.by = "measure" =>
            \A c \in story.fresh : c \notin story.todo => c \in story.failed \/ TracedIn(c)' = {story.n}
    BY <2>6 DEF FreshExact
  <2> QED BY <2>1, <2>7, <2>8, <2>9, <2>10 DEF FreshExact
<1>4. ASSUME WillRunUserStory PROVE FreshExact'
  <2>1. story'.fresh = {} /\ story'.pc # "stopping"
    BY <1>4, WillRunFields
  <2> QED BY <2>1 DEF FreshExact
<1>5. ASSUME NotSupported \/ PageFails \/ StoryOver \/ \E b \in Browsers : StartFails(b)
      PROVE  FreshExact'
  BY <1>5, MovesOn, FreshOutside
<1>6. ASSUME NEW b \in Browsers, StartChromeTracing(b) PROVE FreshExact'
  <2>1. story.pc = "starting" /\ story'.pc = "starting"
    BY <1>6, StartFields
  <2>2. CASE story'.fresh = story.fresh /\ UNCHANGED <<backend, browser>>
    BY <2>1, <2>2 DEF FreshExact, Sealed
  <2>3. CASE story'.fresh = story.fresh \cup {b} /\ ~backend[b].running
    <3>1. /\ b \in Live /\ browser[b].ends = 0
          /\ browser'[b].tracing /\ browser'[b].inbox = <<>>
          /\ browser'[b].ends = browser[b].ends /\ browser'[b].buffer = browser[b].buffer
          /\ backend' = [backend EXCEPT ![b] = Started(b)]
          /\ \A c \in Browsers \ {b} : browser'[c] = browser[c]
      BY <1>6, <2>3, StartTape DEF Settled
    <3>2. browser[b].inbox = <<>> /\ ~browser[b].tracing
      BY <1>0, <2>1, <2>3, <3>1 DEF RunnerInv, Settling, Live
    <3>3. browser[b].buffer = {}
      BY <1>0, <3>2 DEF Orderly
    <3>4. Data(b) = {}
      BY <3>2 DEF Data
    <3>5. backend'[b].running /\ backend'[b].events = {}
      BY <3>1, <3>4 DEF Started, IInv, TypeOK
    <3>6. Sealed(b)' /\ browser'[b].buffer = {}
      BY <3>1, <3>3, <3>5 DEF Sealed
    <3>7. ASSUME NEW c \in story.fresh, c # b PROVE Sealed(c)' /\ browser'[c].buffer = {}
      <4>1. backend'[c] = backend[c] /\ browser'[c] = browser[c]
        BY <1>0, <3>1, <3>7 DEF IInv, TypeOK
      <4>2. Sealed(c) /\ browser[c].buffer = {}
        BY <2>1, <3>7 DEF FreshExact
      <4> QED BY <4>1, <4>2 DEF Sealed
    <3>8. \A c \in story'.fresh : Sealed(c)' /\ browser'[c].buffer = {}
      BY <2>3, <3>6, <3>7
    <3> QED BY <2>1, <3>8 DEF FreshExact
  <2> QED BY <1>6, <2>2, <2>3, StartFields
<1>7. ASSUME StartDone PROVE FreshExact'
  <2>1. /\ story.pc = "starting" /\ story'.pc = "running" /\ story'.fresh = story.fresh
        /\ UNCHANGED <<browser, backend>>
    BY <1>7, MovesOn DEF StartDone
  <2> QED BY <2>1 DEF FreshExact, Sealed
<1>8. ASSUME Measure PROVE FreshExact'
  <2>1. /\ browser' = Traced /\ Stop("measure") /\ story.pc = "running"
        /\ backend' = backend /\ Live' = Live
    BY <1>8, LivesOn DEF Measure, At
  <2>2. CASE ~controller.agents
    BY <2>1, <2>2, StopFields, FreshOutside
  <2>3. CASE controller.agents
    <3>1. /\ story'.n = story.n /\ story'.fresh = story.fresh /\ story'.client = NoBrowser
          /\ story'.pc = "stopping" /\ story'.by = "measure" /\ story'.todo = agent.clients
          /\ story'.trace = {}
      BY <2>1, <2>3, StopFields DEF RunnerInv
    <3>2. ASSUME NEW c \in story.fresh
          PROVE  /\ c \in agent.clients /\ c # NoBrowser
                 /\ Sealed(c)' /\ (c \in Live => browser'[c].buffer = {story.n})
      <4>1. c \in agent.clients /\ c # NoBrowser /\ c \in Browsers
        BY <1>0, <2>1, <3>2 DEF RunnerInv
      <4>2. Sealed(c) /\ browser[c].buffer = {}
        BY <2>1, <3>2 DEF FreshExact
      <4>3. browser'[c].tracing = browser[c].tracing /\ browser'[c].ends = browser[c].ends
        BY <2>1, <4>1, TracedTape DEF IInv
      <4>4. c \in Live => browser'[c].buffer = browser[c].buffer \cup {story.n}
        BY <2>1, <4>1, <4>2, TracedTape DEF IInv, Sealed
      <4> QED BY <2>1, <4>1, <4>2, <4>3, <4>4 DEF Sealed
    <3>3. \A c : TracedIn(c)' = {}
      BY <3>1 DEF TracedIn
    <3> QED BY <2>1, <3>1, <3>2, <3>3 DEF FreshExact
  <2> QED BY <2>2, <2>3
<1>9. ASSUME DidRunUserStory PROVE FreshExact'
  <2>1. CASE Stop("did") /\ controller.agents
    <3>1. story'.pc = "stopping" /\ story'.by = "did" /\ story'.trace = {}
      BY <2>1, StopFields
    <3> QED BY <3>1 DEF FreshExact, TracedIn
  <2>2. CASE Stop("did") /\ ~controller.agents
    BY <2>2, StopFields, FreshOutside
  <2>3. CASE story' = [story EXCEPT !.pc = "over"]
    <3>1. story'.pc = "over"
      BY <2>3 DEF IInv, TypeOK, StoryType
    <3> QED BY <3>1, FreshOutside
  <2> QED BY <1>9, <2>1, <2>2, <2>3 DEF DidRunUserStory
<1>10. ASSUME NEW b \in Browsers, StopChromeTracing(b) PROVE FreshExact'
  <2>1. /\ story.pc = "stopping" /\ story.client = NoBrowser /\ b \in story.todo
        /\ backend' = backend /\ Live' = Live
    BY <1>10, AsksFields, LivesOn
  <2>2. CASE story' = Asked(b, TRUE) /\ browser' = browser
    BY <2>1, <2>2, AskedInVain
  <2>3. CASE /\ ~backend[b].running /\ b \in Live /\ browser' = browser
             /\ story' = Asked(b, backend[b].events = {})
    <3>1. CASE backend[b].events = {}
      <4>1. story' = Asked(b, TRUE)
        BY <2>3, <3>1
      <4> QED BY <2>1, <2>3, <4>1, AskedInVain
    <3>2. CASE backend[b].events # {}
      <4>1. story' = Asked(b, FALSE)
        BY <2>3, <3>2
      <4>2. ~(story.by = "measure" /\ b \in story.fresh)
        <5>1. b # NoBrowser
          BY BrowsersAssumption
        <5> QED BY <2>1, <2>3, <5>1 DEF FreshExact, Sealed
      <4> QED BY <2>1, <2>3, <4>1, <4>2, AskedData
    <3> QED BY <3>1, <3>2
  <2>4. CASE /\ backend[b].running /\ b \in Live
             /\ story'.n = story.n /\ story'.fresh = story.fresh /\ story'.pc = story.pc
             /\ story'.by = story.by
             /\ story'.client = b /\ story'.todo = story.todo
             /\ story'.failed = story.failed /\ story'.trace = story.trace
    <3>1. \A c \in Browsers \ {b} : (Sealed(c) => Sealed(c)') /\ browser'[c].buffer = browser[c].buffer
      BY <1>10, <2>1, StopTape, FreshStays
    <3>2. ASSUME story.by = "measure", b \in story.fresh PROVE OnTheWay(b)' = {story.n}
      <4>1. b # NoBrowser
        BY BrowsersAssumption
      <4>2. Sealed(b) /\ browser[b].buffer = {story.n}
        BY <2>1, <2>4, <3>2, <4>1 DEF FreshExact
      <4>3. Data(b) = {} /\ browser[b].flush = {}
        BY <1>0, <4>2, SealedEmpty DEF Sealed
      <4>4. /\ browser'[b].flush = browser[b].flush /\ browser'[b].buffer = browser[b].buffer
            /\ browser'[b].inbox = browser[b].inbox
        BY <1>10, StopTape
      <4>5. Data(b)' = {}
        BY <4>3, <4>4, DataSame
      <4> QED BY <2>1, <4>2, <4>3, <4>4, <4>5 DEF OnTheWay, Sealed
    <3>3. \A c : TracedIn(c)' = TracedIn(c)
      BY <2>4 DEF TracedIn
    <3>4. ASSUME story.by = "measure", NEW c \in story.fresh
          PROVE  /\ c \in story.todo /\ c # b =>
                      Sealed(c)' /\ (c \in Live' => browser'[c].buffer = {story.n})
                 /\ c \notin story.todo => c \in story.failed \/ TracedIn(c)' = {story.n}
      BY <1>0, <2>1, <3>1, <3>3, <3>4 DEF FreshExact
    <3>5. \A c \in story.todo : TracedIn(c)' = {}
      BY <2>1, <3>3 DEF FreshExact
    <3> QED BY <2>1, <2>4, <3>2, <3>4, <3>5 DEF FreshExact
  <2> QED BY <1>10, <2>2, <2>3, <2>4, AsksFields
<1>11. ASSUME Collect PROVE FreshExact'
  <2>1. Live' = Live
    BY <1>11, LivesOn
  <2>2. PICK b \in Browsers :
           /\ b = story.client /\ story.pc = "stopping"
           /\ browser[b].inbox \in Inboxes /\ browser[b].inbox # <<>>
           /\ browser'[b].inbox = Tail(browser[b].inbox)
           /\ browser'[b].tracing = browser[b].tracing
           /\ browser'[b].completing = browser[b].completing /\ browser'[b].flush = browser[b].flush
           /\ browser'[b].buffer = browser[b].buffer
           /\ \A c \in Browsers \ {b} : browser'[c] = browser[c] /\ Untouched(c)
           /\ backend'[b].running = ~IsLast(NextOf(b))
           /\ backend'[b].events = backend[b].events \cup EventsIn(b)
           /\ \A c \in Browsers \ {b} : backend'[c] = backend[c]
           /\ story' = IF IsLast(NextOf(b)) THEN Asked(b, FALSE) ELSE story
    BY <1>11, CollectTape
  <2>3. Data(b) = Data(b)' \cup EventsIn(b)
    BY <2>2, DataTail
  <2>4. b # NoBrowser /\ b \in story.todo
    <3>1. b # NoBrowser
      BY BrowsersAssumption
    <3> QED BY <2>2, <3>1 DEF RunnerInv
  <2>5. CASE ~IsLast(NextOf(b))
    <3>1. story' = story
      BY <2>2, <2>5
    <3>2. OnTheWay(b)' = OnTheWay(b)
      BY <2>2, <2>3 DEF OnTheWay
    <3>3. \A c \in Browsers \ {b} : (Sealed(c) => Sealed(c)') /\ browser'[c].buffer = browser[c].buffer
      BY <2>2, FreshStays
    <3>4. \A c : TracedIn(c)' = TracedIn(c)
      BY <3>1 DEF TracedIn
    <3>5. ASSUME story.by = "measure", NEW c \in story.fresh
          PROVE  /\ c \in story.todo /\ c # b =>
                      Sealed(c)' /\ (c \in Live' => browser'[c].buffer = {story.n})
                 /\ c = b => OnTheWay(c)' = {story.n}
                 /\ c \notin story.todo => c \in story.failed \/ TracedIn(c)' = {story.n}
      BY <1>0, <2>1, <2>2, <3>2, <3>3, <3>4, <3>5 DEF FreshExact
    <3>6. \A c \in story.todo : TracedIn(c)' = {}
      BY <2>2, <3>4 DEF FreshExact
    <3>7. story.pc = "stopping" /\ story.client = b
      BY <2>2
    <3> QED BY <3>1, <3>5, <3>6, <3>7 DEF FreshExact
  <2>6. CASE IsLast(NextOf(b))
    <3>1. story' = Asked(b, FALSE)
      BY <2>2, <2>6
    <3>2. ASSUME story.by = "measure", b \in story.fresh
          PROVE  backend'[b].events = {story.n} /\ story.n \in Stories
      <4>1. OnTheWay(b) = {story.n}
        BY <2>2, <3>2 DEF FreshExact
      <4> DEFINE q == browser[b].inbox
      <4>2. q \in Seq(Stories \cup {Complete}) /\ q # <<>> /\ Head(q) = Complete
        BY <2>2, <2>6 DEF Inboxes, IsLast, NextOf
      <4>3. \A i \in DOMAIN q : q[i] = Complete => i = Len(q) /\ ~browser[b].completing
        BY <1>0 DEF Orderly
      <4> HIDE DEF q
      <4>4. 1 \in DOMAIN q /\ q[1] = Complete /\ Len(q) \in Nat
        BY <4>2
      <4>5. Len(q) = 1 /\ ~browser[b].completing
        BY <4>3, <4>4
      <4>6. \A i \in DOMAIN q : q[i] = Complete
        BY <4>2, <4>4, <4>5
      <4>7. Data(b) = {}
        BY <4>6 DEF Data, q
      <4>8. browser[b].flush = {} /\ browser[b].buffer = {}
        BY <1>0, <2>2, <4>5 DEF Orderly
      <4>9. backend[b].events = {story.n} /\ EventsIn(b) = {}
        BY <2>3, <4>1, <4>7, <4>8 DEF OnTheWay
      <4>10. backend[b].events \subseteq Stories
        BY DEF IInv, TypeOK, BackendType
      <4> QED BY <2>2, <4>9, <4>10
    <3> QED BY <2>1, <2>2, <2>4, <3>1, <3>2, AskedData
  <2> QED BY <2>5, <2>6
<1>12. ASSUME CollectFails PROVE FreshExact'
  <2>1. story.client \in Browsers /\ story.pc = "stopping" /\ browser' = browser /\ backend' = backend
    BY <1>12 DEF CollectFails, Collecting, At, IInv, TypeOK, StoryType
  <2>2. PICK b \in Browsers : b = story.client /\ story' = Asked(b, TRUE)
    BY <1>12, <2>1 DEF CollectFails
  <2> QED BY <2>1, <2>2, AskedInVain
<1>13. ASSUME StopDone PROVE FreshExact'
  BY <1>13, StopDoneFields, FreshOutside
<1>14. CASE UNCHANGED vars
  <2>1. story' = story /\ browser' = browser /\ backend' = backend /\ Live' = Live
    BY <1>14 DEF vars, Live
  <2> QED BY <2>1, SameUntouched, FreshAsBefore
<1> QED BY <1>1, <1>2, <1>3, <1>4, <1>5, <1>6, <1>7, <1>8, <1>9, <1>10, <1>11, <1>12, <1>13, <1>14
        DEF Next, Runner, Browsing

LEMMA NextTraceExact == IInv /\ FreshExact /\ TraceExact /\ [Next]_vars => TraceExact'
<1> SUFFICES ASSUME IInv, FreshExact, TraceExact, [Next]_vars PROVE TraceExact'
  OBVIOUS
<1>1. CASE result' = result
  BY <1>1 DEF TraceExact
<1>2. CASE result' # result
  <2>1. StopDone
    BY <1>2 DEF Next, Runner, Browsing, vars, Launch, Close, Crash, WillRunUserStory, NotSupported,
                StartChromeTracing, StartFails, StartDone, Measure, PageFails, DidRunUserStory, StoryOver,
                StopChromeTracing, Collect, CollectFails, BrowserEnds, BrowserFlushes, BrowserCompletes,
                ByBrowser
  <2>2. /\ story.by = "measure" /\ story.failed = {}
        /\ result' = [n |-> story.n, trace |-> story.trace, fresh |-> story.fresh]
    BY <1>2, <2>1 DEF StopDone
  <2>3. story.pc = "stopping" /\ story.todo = {}
    BY <2>1, StopDoneFields
  <2>4. \A b \in story.fresh : TracedIn(b) = {story.n}
    BY <2>2, <2>3 DEF FreshExact
  <2> QED BY <2>2, <2>4 DEF TraceExact, TracedIn
<1> QED BY <1>1, <1>2

LEMMA InitTInv == Init => TInv
<1> SUFFICES ASSUME Init PROVE TInv
  OBVIOUS
<1>1. \A b \in Browsers : /\ browser[b].life = "unused" /\ ~browser[b].tracing /\ ~browser[b].completing
                          /\ browser[b].buffer = {} /\ browser[b].flush = {} /\ browser[b].inbox = <<>>
                          /\ ~backend[b].running
  BY DEF Init, Fresh
<1>2. Orders
  BY <1>1 DEF Orders, Orderly, Settling
<1>3. Live = {}
  BY <1>1 DEF Live
<1>4. RunnerInv /\ TracedIsKnown /\ FreshExact /\ TraceExact
  BY <1>3 DEF Init, RunnerInv, TracedIsKnown, FreshExact, TraceExact
<1> QED BY <1>2, <1>4 DEF TInv

(* The inductive invariant behind the two properties below: what socket,   *)
(* backend and result hold of each browser (TracingBackend).               *)
THEOREM TraceInvariance == Spec => [](IInv /\ TInv)
<1>1. IInv /\ TInv /\ [Next]_vars => TInv'
  BY NextOrderly, NextSettling, NextRunner, NextTracedIsKnown, NextFresh, NextTraceExact DEF TInv, Orders
<1> QED BY <1>1, InitTInv, Invariance, PTL DEF Spec

(* A trace that Measure returns has, of every browser its own Start made   *)
(* trace, that story and no other (StartTracing, _CollectTracingData,      *)
(* Stop), whatever failed before.                                          *)
THEOREM TraceExactHolds == Spec => []TraceExact
<1>1. TInv => TraceExact
  BY DEF TInv
<1> QED BY <1>1, TraceInvariance, PTL

(* Between two stories a browser is left tracing only if its own trace     *)
(* could not be stopped (ChromeTracingAgent.Stop).                         *)
THEOREM QuietBetweenStoriesHolds == Spec => []QuietBetweenStories
<1>1. TInv => QuietBetweenStories
  BY DEF TInv, RunnerInv, TracedIsKnown, QuietBetweenStories, At
<1> QED BY <1>1, TraceInvariance, PTL
=============================================================================
