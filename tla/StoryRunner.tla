---------------------------- MODULE StoryRunner ----------------------------
(***************************************************************************)
(* Telemetry's story runner: user_story_runner.Run drives the stories of a *)
(* page set, one after another, through a shared state that owns a browser *)
(* (SharedPageState), while the network controller keeps Web Page Replay   *)
(* serving the archive of the story.  Everything runs in one thread; what  *)
(* is hard is which of the nested handlers sees an exception, and in what  *)
(* state it leaves the browser, the replay server and the results.         *)
(*                                                                         *)
(* "pc" is the place in the nest, "raised" the exception travelling up.    *)
(* Exceptions differ only in who catches them:                             *)
(*   expected     Failure, TimeoutException, LoginException,               *)
(*                ProfilingException: the story failed, go on              *)
(*   error        any other exceptions.Error: go on with another browser   *)
(*   unsupported  PageActionNotSupported: the story is skipped             *)
(*   fatal        any other Exception: the run is over                     *)
(*   interrupt    KeyboardInterrupt: nobody catches it                     *)
(***************************************************************************)
EXTENDS Integers, Sequences, FiniteSets

CONSTANTS
    PageSets,      \* the page sets: sequences of stories [class, archive]
    OptionSets,    \* the options, see OptionsAssumption
    Expectations,  \* what test expectations may say of a story
    MaxFaults      \* bound on exceptions and crashes

NoArchive == "local"   \* the archive of a story that has none
NoLimit == -1          \* max_failures is None

ASSUME OptionsAssumption ==
    /\ OptionSets \subseteq
         [pageset_repeat : Nat \ {0}, page_repeat : Nat \ {0},
          max_failures   : Nat \cup {NoLimit},
          wpr_mode       : {"off", "replay", "record"},
          restart        : BOOLEAN,   \* RestartBrowserBeforeEachPage
          stop_after     : BOOLEAN,   \* StopBrowserAfterPage
          multi_tab      : BOOLEAN]
    /\ Expectations \subseteq {"pass", "fail", "skip"}
    /\ MaxFaults \in Nat

ASSUME PageSetsAssumption ==
    \A s \in PageSets : Len(s) \in Nat \ {0} /\ DOMAIN s = 1 .. Len(s)

NoState == [id |-> 0]
NoRun == [story |-> 0]
NoArgs == [archive |-> NoArchive, mode |-> "off"]
NoBrowser == 0

VARIABLES
    stories, options,  \* the page set and the options of this run
    pc, at, raised, expectation,
    state,     \* the SharedPageState in use, or NoState
    replay,    \* NetworkControllerBackend
    browsers,  \* [created, alive, running, perf]: processes and platform
    results,   \* [current, runs]: PageTestResults
    recorded,  \* the stories in the archive being recorded
    faults,
    history    \* [created, torn, lost, met, leaked, swallowed]

vars == <<stories, options, pc, at, raised, expectation, state, replay,
          browsers, results, recorded, faults, history>>

Items(f) == {f[i] : i \in DOMAIN f}
Story == stories[at.story]
Fault == faults < MaxFaults /\ faults' = faults + 1
NoFault == UNCHANGED faults

-----------------------------------------------------------------------------
(* The browser and Web Page Replay. *)

\* _StopReplayOnly, and StopReplay: the forwarder goes, too.
ReplayOnlyStopped == [replay EXCEPT !.server = NoArgs,
                          !.active = IF replay.server = NoArgs THEN @ ELSE NoArgs]
ReplayStopped == [ReplayOnlyStopped EXCEPT !.forwarder = FALSE]
\* Replay left running by a browser that closes: WillCloseBrowser stops it,
\* and is called only while the browser's process runs.
ReplayKept(b) == replay
ReplayAfterClose(b) == IF b \in browsers.alive THEN ReplayStopped ELSE replay
BrowsersAfterClose(b) ==
    IF b \notin browsers.alive THEN browsers
    ELSE [browsers EXCEPT !.alive = @ \ {b}, !.running = @ \ {b},
              !.perf = @ /\ Cardinality(browsers.running) > 1]

\* _StopBrowser, on the state: the next browser of this state appends.
StateStopped == IF state.browser = NoBrowser THEN state
                ELSE [state EXCEPT !.browser = NoBrowser, !.append_to_existing_wpr = TRUE]
StopBrowser == /\ state' = StateStopped
               /\ replay' = ReplayAfterClose(state.browser)
               /\ browsers' = BrowsersAfterClose(state.browser)

\* WprFilePathForUserStory: every story is recorded into one temporary file.
ArchiveOf(story) == IF options.wpr_mode = "record" THEN "recording" ELSE story.archive

\* _PrepareWpr and SetReplayArgs: without an archive the arguments stay.
WprMode(s) ==
    IF options.wpr_mode = "record"
    THEN IF s.append_to_existing_wpr THEN "append" ELSE "record"
    ELSE options.wpr_mode
WithReplayArgs(r, s, archive) ==
    IF archive = NoArchive THEN r
    ELSE [r EXCEPT !.pending = [archive |-> archive, mode |-> WprMode(s)]]

\* UpdateReplay has nothing to do.
AnyServerWillDo == replay.pending = NoArgs \/ replay.active # NoArgs \/ replay.pending.mode = "off"
UpToDate == \/ replay.pending \in {NoArgs, replay.active}
            \/ replay.pending.mode = "off"

\* The server of the pending arguments is started, for browser b or for the
\* browser that is there: it overwrites the archive unless it appends.
ServerStarted(r) == [r EXCEPT !.server = r.pending, !.forwarder = TRUE,
                              !.active = r.pending, !.pending = NoArgs]
ServerFailed(r) == [r EXCEPT !.server = r.pending]
ArchiveAfterStart == IF replay.pending.mode = "record" THEN {} ELSE recorded

-----------------------------------------------------------------------------
(* The handlers of _RunUserStoryAndProcessErrorIfNeeded. *)

\* The values the handlers add to the results of the story for an exception
\* raised while its expectation was e.
ValuesFor(kind, e) ==
    CASE kind \in {"expected", "error"} -> IF e = "fail" THEN {} ELSE {"failure"}
      [] kind = "fatal"                 -> {"failure"}
      [] kind = "unsupported"           -> {"skip"}
      [] OTHER                          -> {}
\* The exceptions raised again; all but errors, all but the fatal ones.
ErrorsKept(kind) == IF kind \in {"fatal", "interrupt"} THEN kind ELSE "none"
FatalKept(kind) == IF kind \in {"error", "interrupt"} THEN kind ELSE "none"
Passed(kind) == IF kind \in {"error", "fatal", "interrupt"} THEN kind ELSE "none"

\* The story ends with an exception of this kind, "none" for no exception,
\* and the finally clause calls DidRunUserStory.
StoryEnds(kind) ==
    /\ results' = [results EXCEPT !.current.values = @ \cup ValuesFor(kind, expectation),
                                  !.current.outcome = kind]
    /\ raised' = Passed(kind)
    /\ pc' = "did_run"

\* What browser b met, and what becomes of it in Run: the retry, one of the
\* four handlers of failures, or the finally clause that drops everything.
Manners == {"error", "expected", "dropped"}
Met(b, how) == IF how \in Manners THEN [history EXCEPT !.met = @ \cup {<<b, how>>}] ELSE history

\* What the browser of the state may raise while it is used.
BrowserRaises(kind) == kind \in {"expected", "error"} /\ Fault /\ StoryEnds(kind)

-----------------------------------------------------------------------------
(* One run of one story. *)

\* The states the runner creates as it needs them; WillRunPage asserts that
\* the previous run was closed.
NewState == [id |-> history.created + 1, browser |-> NoBrowser,
             append_to_existing_wpr |-> FALSE]
StartPage ==
    /\ pc = "page"
    /\ IF state = NoState
       THEN /\ state' = NewState
            /\ history' = [history EXCEPT !.created = @ + 1,
                               !.torn = [i \in 1 .. history.created + 1 |->
                                            IF i \in DOMAIN @ THEN @[i] ELSE 0]]
       ELSE UNCHANGED <<state, history>>
    /\ \/ /\ results.current # NoRun
          /\ raised' = "fatal" /\ pc' = "teardown"
          /\ NoFault /\ UNCHANGED results
       \/ /\ results.current = NoRun
          /\ results' = [results EXCEPT !.current =
                [story |-> at.story, values |-> {}, outcome |-> "none"]]
          \* _WaitForThermalThrottlingIfNeeded asks the device
          /\ \/ NoFault /\ pc' = "will_run" /\ UNCHANGED raised
             \/ Fault /\ pc' = "did_page" /\ raised' = "fatal"
    /\ expectation' = "none"
    /\ UNCHANGED <<stories, options, at, replay, browsers, recorded>>

\* WillRunUserStory up to the start or the reuse of the browser.
WillRunUserStory ==
    /\ pc = "will_run"
    /\ state' = IF options.restart THEN StateStopped ELSE state
    /\ browsers' = IF options.restart THEN BrowsersAfterClose(state.browser) ELSE browsers
    /\ replay' = WithReplayArgs(IF options.restart THEN ReplayAfterClose(state.browser)
                                ELSE replay, state', ArchiveOf(Story))
    /\ pc' = IF state'.browser = NoBrowser THEN "create" ELSE "reuse"
    /\ UNCHANGED <<stories, options, at, raised, expectation, results, recorded,
                   faults, history>>

\* UpdateReplayForExistingBrowser: a browser that started without a forwarder
\* cannot be given one.
ReuseBrowser ==
    /\ pc = "reuse"
    /\ \/ /\ UpToDate
          /\ \/ NoFault /\ pc' = "expectation" /\ UNCHANGED <<raised, results, history>>
             \/ \E kind \in {"expected", "error"} :
                  BrowserRaises(kind) /\ history' = Met(state.browser, kind)
          /\ UNCHANGED <<replay, recorded>>
       \/ /\ ~UpToDate /\ ~replay.forwarder
          /\ NoFault /\ StoryEnds("fatal")
          /\ UNCHANGED <<replay, recorded, history>>
       \/ /\ ~UpToDate /\ replay.forwarder
          /\ \/ /\ NoFault /\ pc' = "expectation"
                /\ replay' = ServerStarted(ReplayOnlyStopped)
                /\ recorded' = ArchiveAfterStart
                /\ UNCHANGED <<raised, results>>
             \/ /\ Fault /\ StoryEnds("fatal")
                /\ replay' = ServerFailed(ReplayOnlyStopped)
                /\ UNCHANGED recorded
          /\ UNCHANGED history
    /\ UNCHANGED <<stories, options, at, expectation, state, browsers>>

\* Browser.__init__: DidCreateBrowser updates replay before the process
\* starts; a browser that does not come up is closed by its own backend,
\* which stops neither replay nor the performance mode.
CreateBrowser ==
    /\ pc = "create"
    /\ LET b == browsers.created + 1
           started == IF UpToDate THEN replay
                      ELSE ServerStarted(ReplayStopped)
       IN  \/ /\ ~UpToDate /\ Fault /\ StoryEnds("fatal")
              /\ replay' = ServerFailed(ReplayStopped)
              /\ browsers' = [browsers EXCEPT !.created = b, !.perf = TRUE]
              /\ history' = [history EXCEPT !.lost = @ \cup {b}]
              /\ UNCHANGED <<state, recorded>>
           \/ /\ replay' = started
              /\ recorded' = IF UpToDate THEN recorded ELSE ArchiveAfterStart
              /\ \/ /\ browsers' = [browsers EXCEPT !.created = b, !.perf = TRUE]
                    /\ history' = [history EXCEPT !.lost = @ \cup {b}]
                    /\ \E kind \in {"expected", "error"} : BrowserRaises(kind)
                    /\ UNCHANGED state
                 \/ /\ browsers' = [created |-> b, perf |-> TRUE,
                                    alive |-> browsers.alive \cup {b},
                                    running |-> browsers.running \cup {b}]
                    /\ state' = [state EXCEPT !.browser = b]
                    /\ \/ /\ NoFault /\ pc' = "expectation"
                          /\ UNCHANGED <<raised, results, history>>
                       \/ \E kind \in {"expected", "error"} :
                            BrowserRaises(kind) /\ history' = Met(b, kind)
    /\ UNCHANGED <<stories, options, at, expectation>>

\* GetTestExpectationAndSkipValue.
GetExpectation ==
    /\ pc = "expectation"
    /\ expectation' \in Expectations
    /\ IF expectation' = "skip"
       THEN /\ results' = [results EXCEPT !.current.values = @ \cup {"skip"}]
            /\ pc' = "did_run"
       ELSE pc' = "run" /\ UNCHANGED results
    /\ UNCHANGED <<stories, options, at, raised, state, replay, browsers, recorded,
                   faults, history>>

\* RunUserStory.  A multi-tab test does not survive an exceptions.Error, and
\* some of the expected exceptions are among them.
Outcomes(b) ==
    {"expected", "error", "fatal", "interrupt", "unsupported"}
        \cup (IF b \in browsers.alive THEN {"none"} ELSE {})
Rethrown(kind) ==
    IF ~options.multi_tab THEN {kind}
    ELSE IF kind = "error" THEN {"fatal"}
    ELSE IF kind = "expected" THEN {"expected", "fatal"} ELSE {kind}
RunUserStory ==
    /\ pc = "run"
    /\ \E outcome \in Outcomes(state.browser) :
         /\ IF outcome = "none" \/ state.browser \notin browsers.alive THEN NoFault ELSE Fault
         /\ \E kind \in Rethrown(outcome) : StoryEnds(kind)
         /\ history' = Met(state.browser, outcome)
         /\ recorded' = IF outcome \in {"none", "unsupported"} /\ replay.server.mode \in {"record", "append"}
                        THEN recorded \cup {at.story} ELSE recorded
    /\ UNCHANGED <<stories, options, at, expectation, state, replay, browsers>>

\* The finally clause: has_existing_exception compares a tuple with None, so
\* that whatever DidRunUserStory raises is printed and dropped, and what it
\* had not done yet is left undone.
DidRunUserStory ==
    /\ pc = "did_run"
    /\ \/ /\ NoFault
          /\ IF options.stop_after THEN StopBrowser
             ELSE UNCHANGED <<state, replay, browsers>>
          /\ UNCHANGED history
       \/ /\ Fault
          /\ history' = [Met(state.browser, "dropped") EXCEPT !.swallowed = @ \/ raised = "none"]
          /\ UNCHANGED <<state, replay, browsers>>
    /\ pc' = "did_page"
    /\ UNCHANGED <<stories, options, at, raised, expectation, results, recorded>>

TornDown(h) == [h EXCEPT !.torn[state.id] = @ + 1]
\* Later finally clauses look at the state.
StillHeld(s) == s
Forget(s) == NoState

\* The except and finally clauses of Run around one run of a story: an
\* exceptions.Error tears the state down and is forgotten with it, unless
\* the teardown itself raises; then DidRunPage files the run, unless the
\* thermal check of a state that is still there raised first.
RetryAfterError ==
    /\ state' = Forget(state)
    /\ \/ /\ NoFault
          /\ replay' = ReplayAfterClose(state.browser)
          /\ browsers' = BrowsersAfterClose(state.browser)
          /\ history' = TornDown(history)
          /\ raised' = "none"
       \/ /\ Fault
          /\ history' = [TornDown(history) EXCEPT !.leaked = TRUE]
          /\ raised' = "fatal"
          /\ UNCHANGED <<replay, browsers>>
RunFiled == results' = [current |-> NoRun, runs |-> Append(results.runs, results.current)]
FinishPage ==
    /\ pc = "did_page"
    /\ \/ /\ raised = "error" /\ RetryAfterError /\ RunFiled
       \/ /\ raised # "error"
          /\ \/ NoFault /\ RunFiled /\ UNCHANGED history
             \/ /\ Fault /\ UNCHANGED results
                /\ history' = [history EXCEPT !.swallowed = @ \/ raised = "none"]
          /\ UNCHANGED <<state, replay, browsers, raised>>
    /\ pc' = IF raised' = "none" THEN "next" ELSE "teardown"
    /\ UNCHANGED <<stories, options, at, expectation, recorded>>

-----------------------------------------------------------------------------
(* The loops of Run. *)

\* StoriesGroupedByStateClass: neighbours with the same class form a group.
SameGroup(i, j) == \A k \in i .. j : stories[k].class = stories[i].class
FirstStory(j) == 1
FirstOfGroup(j) == CHOOSE i \in 1 .. j : SameGroup(i, j) /\ \A k \in 1 .. j : SameGroup(k, j) => i <= k
LastOfGroup(i) == CHOOSE j \in i .. Len(stories) :
                     SameGroup(i, j) /\ \A k \in i .. Len(stories) : SameGroup(i, k) => k <= j

\* results.failures counts the run that was never filed, too.
Failed(run) == "failure" \in run.values
Failures == Cardinality({i \in DOMAIN results.runs : Failed(results.runs[i])})
            + (IF results.current # NoRun /\ Failed(results.current) THEN 1 ELSE 0)
TooManyFailures == options.max_failures # NoLimit /\ Failures > options.max_failures

\* Looked at after the last repetition of a story only.
NextStory ==
    /\ pc = "next"
    /\ \/ /\ at.page < options.page_repeat
          /\ at' = [at EXCEPT !.page = @ + 1] /\ pc' = "page" /\ UNCHANGED raised
       \/ /\ at.page = options.page_repeat /\ TooManyFailures
          /\ raised' = "too_many_failures" /\ pc' = "teardown" /\ UNCHANGED at
       \/ /\ at.page = options.page_repeat /\ ~TooManyFailures /\ UNCHANGED raised
          /\ \/ /\ at.story < LastOfGroup(at.story)
                /\ at' = [at EXCEPT !.story = @ + 1, !.page = 1] /\ pc' = "page"
             \/ /\ at.story = LastOfGroup(at.story) /\ at.round < options.pageset_repeat
                /\ at' = [round |-> at.round + 1, story |-> FirstOfGroup(at.story), page |-> 1]
                /\ pc' = "page"
             \/ /\ at.story = LastOfGroup(at.story) /\ at.round = options.pageset_repeat
                /\ pc' = "teardown" /\ UNCHANGED at
    /\ UNCHANGED <<stories, options, expectation, state, replay, browsers, results,
                   recorded, faults, history>>

\* The finally clause of a group; an exception of TearDownState is dropped.
TearDownGroup ==
    /\ pc = "teardown"
    /\ state' = NoState
    /\ \/ /\ state = NoState
          /\ NoFault /\ UNCHANGED <<replay, browsers, history>>
       \/ /\ state # NoState /\ NoFault
          /\ replay' = ReplayAfterClose(state.browser)
          /\ browsers' = BrowsersAfterClose(state.browser)
          /\ history' = TornDown(history)
       \/ /\ state # NoState /\ Fault
          /\ history' = [TornDown(history) EXCEPT !.leaked = TRUE,
                             !.swallowed = @ \/ raised \in {"none", "too_many_failures"}]
          /\ UNCHANGED <<replay, browsers>>
    /\ IF raised = "none" /\ at.story < Len(stories)
       THEN at' = [round |-> 1, story |-> at.story + 1, page |-> 1] /\ pc' = "page"
       ELSE pc' = "done" /\ UNCHANGED at
    /\ UNCHANGED <<stories, options, raised, expectation, results, recorded>>

\* The process of a browser dies by itself.
BrowserDies ==
    /\ pc # "done" /\ Fault
    /\ \E b \in browsers.alive :
         /\ browsers' = [browsers EXCEPT !.alive = @ \ {b}]
         /\ history' = [history EXCEPT !.lost = @ \cup {b}]
    /\ UNCHANGED <<stories, options, pc, at, raised, expectation, state, replay,
                   results, recorded>>

Init ==
    /\ stories \in PageSets /\ options \in OptionSets
    /\ pc = "page" /\ raised = "none" /\ expectation = "none"
    /\ at = [round |-> 1, story |-> 1, page |-> 1]
    /\ state = NoState
    /\ replay = [pending |-> NoArgs, active |-> NoArgs, server |-> NoArgs, forwarder |-> FALSE]
    /\ browsers = [created |-> 0, alive |-> {}, running |-> {}, perf |-> FALSE]
    /\ results = [current |-> NoRun, runs |-> <<>>]
    /\ recorded = {} /\ faults = 0
    /\ history = [created |-> 0, torn |-> <<>>, lost |-> {}, met |-> {},
                  leaked |-> FALSE, swallowed |-> FALSE]

Next == \/ StartPage \/ WillRunUserStory \/ ReuseBrowser \/ CreateBrowser
        \/ GetExpectation \/ RunUserStory \/ DidRunUserStory \/ FinishPage
        \/ NextStory \/ TearDownGroup \/ BrowserDies

Spec == Init /\ [][Next]_vars
-----------------------------------------------------------------------------
(* Properties. *)

Args == [archive : {"recording"} \cup {s.archive : s \in UNION {Items(p) : p \in PageSets}},
         mode : {"off", "replay", "record", "append"}] \cup {NoArgs}
Runs == [story : 1 .. Len(stories), values : SUBSET {"failure", "skip"},
         outcome : {"none", "expected", "error", "unsupported", "fatal", "interrupt"}]
Created == 1 .. history.created

TypeOK ==
    /\ stories \in PageSets /\ options \in OptionSets
    /\ pc \in {"page", "will_run", "reuse", "create", "expectation", "run", "did_run",
               "did_page", "next", "teardown", "done"}
    /\ at \in [round : 1 .. options.pageset_repeat, story : 1 .. Len(stories),
               page : 1 .. options.page_repeat]
    /\ raised \in {"none", "error", "fatal", "interrupt", "too_many_failures"}
    /\ expectation \in Expectations \cup {"none"}
    /\ state \in [id : Created, browser : 0 .. browsers.created,
                  append_to_existing_wpr : BOOLEAN] \cup {NoState}
    /\ replay \in [pending : Args, active : Args, server : Args, forwarder : BOOLEAN]
    /\ browsers \in [created : Nat, alive : SUBSET (1 .. browsers.created),
                     running : SUBSET (1 .. browsers.created), perf : BOOLEAN]
    /\ results \in [current : Runs \cup {NoRun}, runs : Seq(Runs)]
    /\ recorded \subseteq 1 .. Len(stories)
    /\ faults \in 0 .. MaxFaults
    /\ history \in [created : Nat, torn : [Created -> Nat],
                    lost : SUBSET (1 .. browsers.created),
                    met : SUBSET ((0 .. browsers.created) \X Manners),
                    leaked : BOOLEAN, swallowed : BOOLEAN]

\* Every state the runner created is torn down exactly once, whichever
\* exceptions ended its stories: after an error by the retry, otherwise by the
\* finally clause of the group, never by both.
TornDownOnce ==
    /\ \A i \in Created : history.torn[i] <= 1
    /\ pc = "done" => \A i \in Created : history.torn[i] = 1

\* No story runs in a browser in which an earlier story met an exception,
\* but for those Run tolerates: the four it takes for a failure of the story
\* (a TimeoutException is an exceptions.Error, yet the browser is kept), and
\* whatever DidRunUserStory raised, an exceptions.Error too, that the finally
\* clause drops.  Every other exceptions.Error has a retry with a state, and
\* a browser, of its own.
Tolerated == {"expected", "dropped"}
FreshUnlessTolerated ==
    pc = "run" => \A how \in Manners : <<state.browser, how>> \in history.met => how \in Tolerated

\* While a story that has an archive runs, Web Page Replay serves that
\* archive, however the browser and the server came to be there: fresh,
\* reused, restarted, or left behind by a browser that died.
ReplayServesPage ==
    pc = "run" /\ options.wpr_mode # "off" /\ ArchiveOf(Story) # NoArchive =>
        /\ replay.server.archive = ArchiveOf(Story)
        /\ replay.server.mode \in (IF options.wpr_mode = "record"
                                   THEN {"record", "append"} ELSE {"replay"})

\* When Run ends, its browsers are closed unless a teardown raised; and if no
\* browser died or failed to start, replay is stopped and the device left its
\* performance mode.
DeviceLeftAsFound ==
    pc = "done" /\ ~history.leaked =>
        /\ browsers.alive = {}
        /\ history.lost = {} =>
              /\ replay.server = NoArgs /\ ~replay.forwarder
              /\ browsers.running = {} /\ ~browsers.perf

\* A run that ends without an exception has reported every repetition of
\* every story, one group after the other; an exception dropped by a finally
\* clause may have left the last one unfiled.
RunsOf(i) == Cardinality({k \in DOMAIN results.runs : results.runs[k].story = i})
EveryRunReported ==
    /\ pc = "done" /\ raised = "none" =>
         \A i \in 1 .. Len(stories) :
            \/ RunsOf(i) = options.pageset_repeat * options.page_repeat
            \/ /\ history.swallowed /\ results.current # NoRun /\ results.current.story = i
               /\ RunsOf(i) = options.pageset_repeat * options.page_repeat - 1
    /\ \A k, l \in DOMAIN results.runs :
         k < l => \/ results.runs[k].story <= results.runs[l].story
                  \/ SameGroup(results.runs[l].story, results.runs[k].story)

\* A story that ended with an exception the runner does not know how to go on
\* after is the last one run.
StopsOnUnexpected ==
    \A k \in DOMAIN results.runs :
        results.runs[k].outcome \in {"fatal", "interrupt"} =>
            k = Len(results.runs) /\ pc \in {"teardown", "done"}

\* When record_wpr is done, the archive holds every page it will list as
\* recorded: "we need to continue adding into the same wpr archive, not
\* overwrite it".
Succeeded == {i \in 1 .. Len(stories) :
                /\ RunsOf(i) > 0
                /\ \A k \in DOMAIN results.runs : results.runs[k].story = i =>
                      ~Failed(results.runs[k]) \/ "skip" \in results.runs[k].values}
RecordingComplete ==
    pc = "done" /\ raised = "none" /\ options.wpr_mode = "record" => Succeeded \subseteq recorded
=============================================================================
