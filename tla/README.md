# A verification of the Crosswalk extensions SDK and its test tools

The Crosswalk extensions SDK lets a C++ (or Java) library offer a JavaScript API
to the pages of the Crosswalk runtime: `xwalk/common/`. The tree it is built in
brings the Python programs that build and test it. Those with concurrency,
failure handling or state that outlives a call are *telemetry*
(`tools/telemetry/`), *legion* (`testing/legion/`) and the *Android test
dispatcher* (`build/android/pylib/base/`). This directory models them in TLA+,
checks the models with TLC on small instances and proves the most important
facts with TLAPS for instances of any size.

Paths below are relative to the repository; `common/` is `xwalk/common/`,
`telemetry/` is `tools/telemetry/telemetry/`, `inspector/` is
`telemetry/core/backends/chrome_inspector/`, `pylib/` is `build/android/pylib/`.

## 1. Inventory

### The SDK

| part | source | state | operations |
|---|---|---|---|
| script bridge | `common/common_api.js` | `callback_listeners`, `callback_id`, a `lifecycleTracker` per binding object | `wrapCallback`, `removeCallback`, `postMessage`, `postBinaryMessage`, `sendSyncMessage`, the message listener, `_addMethod`, the promise variants, `_registerLifecycleTracker` |
| function handler | `common/xwalk_extension_function_handler.{h,cc}` | `handlers_` by name, the weak pointer bound into result callbacks | `HandleMessage`, `HandleBinaryMessage`, `HandleSyncMessage`, `HandleFunction`, `PostResult`, `DispatchResult`, `Register` |
| binding object store | `common/binding_object_store.{h,cc}`, `common/binding_object.h` | `objects_` by identifier | `AddBindingObject`, `OnJSObjectCollected`, `OnPostMessageToObject` |
| instance | `common/extension.{h,cc}` (`Instance`) | `xw_instance_` | `OnInstanceCreated`, `OnInstanceDestroyed`, `HandleMessage` and siblings, `PostMessage`, `PostBinaryMessage`, `SendSyncReply` |
| extension | `common/extension.{h,cc}` (`Extension`, `XW_Initialize`) | `g_extension`, the interface table | start, shutdown, names, permissions, runtime variables |
| event target, script | `common/common_api.js` (`EventTargetPrototype`) | `_event_listeners`, `_callback_listeners_id`, `on[type]` | `addEventListener`, `removeEventListener`, `dispatchEvent`, the setter of `on[type]` |
| event target, native | `common/event_target.{h,cc}` | `events_` | `OnAddEventListener`, `OnRemoveEventListener`, `DispatchEvent`, `StartEvent`, `StopEvent`, `IsEventActive` |
| Android port | `common/android/src/org/xwalk/extensions/common/*.java` | the same tables in Java | the same operations |

A script's call stores its callback in `callback_listeners` under a fresh
identifier, prefixes the message with it and posts it. The host (the runtime, not
in this repository) hands the message to `Extension::HandleMessage`, which finds
the `Instance` of the page; the `FunctionHandler` finds the function by name and
gives it an info holding a result callback with the identifier bound in. A call
on a binding object is the message `postMessageToObject`, whose registered
function is the store's, which runs the *object's* function handler with the same
info. When native code posts a result, `PostResult` goes to `DispatchResult` at
once on the client's thread, and by a posted task from any other; the message
that leaves starts with the identifier, by which the page's message listener
finds the callback. The lifecycle tracker's destructor, called by the garbage
collector, posts `JSObjectCollected`, at which the store deletes the native
object. Events are the same machinery with a callback that returns true and so
stays registered.

Hard: results come from other threads, after the page, the instance or the object
is gone. Callback identifiers restart at 0 on each page. Collection races the
calls on the object. A sync call blocks the script until somebody answers.
Listeners change the array a dispatch iterates over. Both sides keep a view of
who listens to what, and of the layout of a binary message.

Right: a callback gets a result of its own call only; a promise settles once; an
answer is not lost; a closed instance says nothing; a blocked script is blocked
for a reason; the native object exists from its construction to the arrival of
its collection; the native map and the source follow the script's listeners; what
is written is what is read.

### The test tools

| part | source | state | operations |
|---|---|---|---|
| story runner | `telemetry/user_story/user_story_runner.py`, `telemetry/results/`, `telemetry/page/record_wpr.py` | the position in the page set, the exception on its way, the results | `Run`, `_RunUserStoryAndProcessErrorIfNeeded`, `StoriesGroupedByStateClass` |
| page state, browsers, page replay | `telemetry/page/shared_page_state.py`, `telemetry/core/browser.py`, `telemetry/core/platform/network_controller_backend.py`, `platform_backend.py` | the browser of a state, the active and the pending replay arguments, the running browsers, the recorded archive | `WillRunUserStory`, `RunUserStory`, `DidRunUserStory`, `TearDownState`, `UpdateReplay`, `StopReplay` |
| DevTools client | `inspector/inspector_{page,websocket,runtime,backend}.py` | request numbers, the navigation under way, the script on commit | `SyncRequest`, `Navigate`, `WaitForNavigate`, `Evaluate`, the notification handler |
| tracing | `telemetry/core/platform/tracing_controller_backend.py`, `tracing_agent/chrome_tracing_agent.py`, `inspector/tracing_backend.py`, `telemetry/web_perf/timeline_based_measurement.py` | the active agents, the registered browsers, each browser's trace events | `Start`, `Stop`, `RegisterDevToolsClient`, `StartTracing`, `StopTracing`, `_CollectTracingData` |
| legion | `testing/legion/*.py` | the expected passwords, each task's connection, each machine's server, its child and the child's output | `Create`, `WaitForConnection`, `OnConnect`, `Release`, remote calls, `Quit`, the idle thread, `_reader` |
| Android test dispatcher | `pylib/base/test_dispatcher.py`, `test_collection.py`, `pylib/utils/reraiser_thread.py` | the queue, its counter and its event, the devices' threads, the results | `RunTests`, `_pop`, `add`, `test_completed`, `_RunTestsFromQueue`, `JoinAll` |

The story runner drives everything else in telemetry: it makes a
`SharedPageState` for each group of stories, which owns a browser; the network
controller of the platform keeps the replay server that browser talks to; the
page of a story is driven through the DevTools client; the measurement starts and
stops tracing around it. Its loop, the page state and the replay server are
composed in one module, since the exceptions of each decide what the others do.
Legion and the dispatcher are programs of their own.

Hard: exceptions that pass through nested `finally` clauses, some of them
swallowed; state kept in an object that is thrown away; a server or a trace left
by something that died; answers and notifications that arrive after the caller
gave up; several threads around one queue with an event that is set and cleared;
machines that register while the controller is giving up.

Right: every run of a story is reported, states are torn down once, an error that
the runner does not take for a failure of the story is followed by a fresh browser,
the page is served its own archive, the device is
left as it was found; a request returns its own answer and a navigation waits for
its own commit; a trace holds its own story; a task has one machine, which is
known when the task is said to be connected and given back in the end; no test is
lost, and the verdict accounts for every test that a device was there to run.

`PROJECT.json`, "hazards", has each hazard at its line.

## 2. Modules

| module | what it is |
|---|---|
| `ExtensionBridge` | script bridge, function handler, store and instance, composed: one call from script to native code and back |
| `RemoteCalls` | what the bridge promises, without identifiers, tables, queues or threads |
| `BridgeRefinement` | the refinement mapping from the first to the second |
| `EventTarget` | the script's and the native event target, over ordered channels |
| `BinaryMessage` | the layout of a binary message, written and read back |
| `StoryRunner`, `MCStoryRunner` | the story runner composed with page state, browsers and replay; the page sets and options of its runs |
| `InspectorPage` | the DevTools client and one tab |
| `Tracing` | the tracing controller, the Chrome agent, the backends and the browsers |
| `Legion` | the controller's main thread, its registration thread, the machines |
| `TestDispatcher` | the dispatcher's main thread, the devices' threads, the collections |
| `*Proofs` | theorems and proofs about the module of that name |

### ExtensionBridge

The variables carry the names of the code: `callback_id`,
`callback_listeners` (common_api.js), `objects_` (the store), `xw_instance_`
(Instance). `js_objects` is what the garbage collector knows of the script's
objects, `waiting` the sync call a script is blocked in, `to_native` and
`to_js` the host's channels, `handler` whether the function handler (and with it
the weak pointer in every result callback) is alive, `infos` the function infos
native code holds, `tasks` the results posted to the client's loop. The last
variables are history: they record what happened, and no guard of the code's
actions depends on them, except that the form and the target of a call are
looked up in `calls`, which stands for the contents of the message.

Every operation that posts ends in `Send`: store the callback if there is one,
advance the identifier, queue the message. `Receive` is the message listener,
with the three ways a callback may end: falsy (it is removed), truthy (it
stays) or throwing (it stays: the `delete` is not reached). The native actions
are one per branch of the handlers: `OnConstruct`, `OnJSObjectCollected`,
`RunFunction` (the function is found, in the extension's or the object's
handler), `DropForObject` (the store's early returns) and `DropForHandler` (the
handler's, which answers a sync call with `false`). `DispatchResult` keeps the
order of the code's tests: sync first, where the weak handler is used
*without* being tested, then the missing callback identifier, the type of the
result, and the test of the handler. `OnInstanceDestroyed` and `DeleteInstance`
are separate steps because a destructor takes time in which other threads
post; `RunTask` does not run between them, since the destructor occupies the
client's thread.

What a reachable object is matters for collection: the closure `sendMsg` gives
`wrapCallback` refers to `this`, so the object cannot be collected while the
callback of a promise method is registered (`Retained`).

### EventTarget

`js` is the script's tables, with one `Endpoint` per script object that uses the
native object's identifier. An operation of the script maps the tables to the
tables after it and lists the messages it posts (`AddListener`,
`RemoveListener`, `SetHandler`). A dispatch in progress is `loop`: the code's
`for ... in` enumerates the indices once and iterates the *live* array, and
between two listeners any operation may run, as the listeners' own. When the
last listener is removed the table forgets the array, but the loop still has
it (`Iterated`, `LoopAfter`).

The native object goes in two ways, both through `Delete`, since `~EventTarget`
is empty: with its script object, by a message that comes after all others about
it (`OnJSObjectCollected`), and with its page, at any time
(`OnInstanceDestroyed`), when the script's tables and the channels go as well.
`source` is what `StartEvent` started and `StopEvent` did not stop; it outlives
the object, so that a source left running can be seen. One page is modelled;
`ExtensionBridge` has the next one.

### BinaryMessage

A buffer maps offsets to cells. A cell is a byte of text or one quarter of an
Int32, so a reader that looks at the wrong place gets garbage and never a
plausible value. `Written` and `Read` compute the offsets each on its own, as
the two languages do; the padding is a full word when the length is already a
multiple of four, on both sides.

### RemoteCalls and BridgeRefinement

Each call has a stage (`unmade`, `made`, `taken`, `answered`, `completed`,
`refused`, `cut`), and a script may be blocked by one call. `StageOf` reads the
stage off the bridge's queues and tables. The end of a page cuts all its calls.
A cut call has no further stage, so that a late asynchronous result of one maps to
a stutter wherever it goes: that it does not run the callback with the same
identifier on a later page is `NoCrossTalk`, not the refinement. What the
refinement adds is the order of the stages: no call is answered that was not
taken, completed that was not answered, or taken after it was refused.

### StoryRunner

One thread; what is hard is which handler sees an exception and what it leaves
behind. `pc` is the place in the nest of `try` statements, `raised` the exception
on its way up. Exceptions differ only in who catches them, so there are five
(`expected`, `error`, `unsupported`, `fatal`, `interrupt`), and `Rethrown`
turns one into another where a multi-tab test does. `StoryEnds` is the inner
function's handlers and what they add to the results; `DidRunUserStory` its
`finally` clause, in which `has_existing_exception = sys.exc_info() is not
None` compares a tuple with None and is always true, so that whatever is raised
there is printed and dropped. `history.met` notes what a browser met and how `Run`
took it: an `error`, raised again up to the retry; one of the four `expected`
exceptions, which end the story only; or one `dropped` by the `finally` clause.
`FinishPage` is the retry after an error and
`DidRunPage`; `TearDownGroup` the outer `finally`. A fault is any step that
raises, or `BrowserDies`, a browser whose process goes by itself: `Browser.Close`
tells the platform of a browser only while it runs. `replay` keeps the pending
and the active arguments apart from the server that really runs, because that is
where they may differ (`UpToDate`, `ServerFailed`). `recorded` is the set of
stories in the archive being recorded, emptied by a server that does not append.

### InspectorPage

`ws.inbox` is what the tab has sent and nobody read. A call is one action to enter
it (`Navigate`, `Evaluate`, `WaitForNavigate`), then one per message received:
the notification handler (`OnNotification`), the awaited answer, any other
message, a crash. A modern tab answers `Page.navigate` with a frame and may
commit before it answers; a legacy one answers without, and the client waits for
the URL. A call that gives up (`Timeout`, `TimeIsUp`) resets nothing of the page
object, and the next call starts from there: `_navigated_frame_ids`,
`_navigation_frame_id`, `_navigation_url` and the pending flag keep what they had.

### Tracing

A call goes through controller, agent and one backend per registered browser.
`WillRunUserStory` to `StartDone` is Start, `Stop` to `StopDone` is Stop, with one
step per browser, so that a browser may crash between any two. The backend of a
browser keeps the events it collected; the browser's `inbox` keeps what is still
in the socket, the data of an earlier trace included. Data is told apart by the
number of the story it was traced in. `StartFails` leaves the browsers started so
far tracing, as the code does.

### Legion

`main` is the controller's thread with the place it is in; `tasks` the fields of
each `TaskController`; `registration` the one request the registration server
handles, with `OnConnect` split at each of its assignments, since the test's
thread may run in between. A machine has the life of `run_task.py` (`Connect`,
`Serve`, `TakeCall`, `Answer`, `StopServing`, `MachineExits`); it registers before
it listens, and a call made in between is refused. It has an idle thread
(`IdleRound`), a child and a `Reader`. Calls block the controller, so there is
one at most. `ControllerKilled` may happen at any step.

### TestDispatcher

What a thread does under the collection's lock is one step; waiting for the event
(`Wake`) and looking under the lock (`Pop`) are two, as are handing a test back
(`Add`) and `TestCompleted`, so that threads interleave exactly where the code
lets them. A test is a group of names that run together; a retry is the group of
those that failed. `TimeOut` is the watchdog of `JoinAll`, which may give up as
long as there is a thread to join, one that has just ended included. A collection
exists for every device when tests are replicated, though the code makes one per
runner: the collections without a runner are those of `Unreached`.

## 3. Runs

| run | question | shows |
|---|---|---|
| `bridge` | may a result go astray, come twice or go missing; does the bridge implement `RemoteCalls`; what can leave a script blocked? | `NoCrossTalk`, `PromiseSettlesOnce`, `AnsweredNotLost`, `ClosedInstanceIsSilent`, `SyncStuckOnlyByStore`, `BridgeKeepsPromises`, `AnsweredIsDelivered`, `CollectedIsFreed` |
| `bridge_store` | does the store follow the garbage collector? | `StoreFollowsGC`, `OwnerCallFindsObject`, `NativeOutlivesPromises` |
| `events` | do both sides agree on who listens while listeners change each other under a dispatch? | `CallbacksExact`, `RemovedIsNotCalled`, `SidesAgree`, `CollectedIsQuiet`, `SourceFollows` |
| `binary_layout` | is what is read what was written? | `RoundTrip`, `NeverThrows` |
| `story_runner` | do states, browsers, replay and results stay in step, whatever raises or dies? | `TornDownOnce`, `FreshUnlessTolerated`, `ReplayServesPage`, `DeviceLeftAsFound`, `EveryRunReported`, `StopsOnUnexpected` |
| `inspector_page` | do answers and commits that come late or early mislead a later call? | `AnswerIsOwn`, `PreciseWhenAlone`, `WakeupNotLost`, `ScriptAsAsked` |
| `tracing` | do traces stay apart and get stopped, although browsers crash and calls fail? | `ActiveIsStoppable`, `TraceExact`, `QuietBetweenStories` |
| `legion` | do the threads and machines agree, and does everything end? | `OneMachinePerTask`, `ConnectedHasMachine`, `OutputExact`, `ControllerEnds`, `EveryMachineFreed` |
| `test_dispatcher` | is every test that a device was reached for run, or reported, once, and does the run end? | `NoTestLost`, `LeavesWhenAllDone`, `VerdictButForUnreached`, `RunEnds` |

Three more runs end in a counterexample to a sentence of the repository's own
comments, and each has an entry under "findings":

- `late_sync_result`: a sync result posted from a worker after the instance was
  deleted dereferences the invalid weak pointer in `DispatchResult`; the header
  promises that nothing happens.
- `recording_overwritten`: while a page set is recorded, an error makes the runner
  throw away the state that had just noted to append to the archive; the fresh
  state starts the archive anew, and the pages recorded before are lost although
  `record_wpr` lists them. The comment in `_StopBrowser` says the archive must be
  continued, "not overwrite it".
- `tracing_not_recovered`: after an agent's Stop raised, the controller's list of
  agents and options is not cleared, so Start returns False, and stories run
  untraced, until a later Stop succeeds. The documentation says that "Start will
  succeed *always*"; the sentence has unsupported tracing systems in mind, but the
  word is not kept.

### Divergences no run shows

The models contain them; a change to a configuration brings them out.

- `_postBinaryMessage` without a callback puts `parseInt('')`, NaN, into an
  Int32Array. The message carries the identifier 0, and its result runs the page's
  first callback if that is still registered. `NoCrossTalk` fails when `Forms` of
  `bridge.cfg` has `"binaryPlain"`.
- Two script objects with one identifier, which the comments of `common_api.js`
  provide for, unsubscribe each other: `SidesAgree` and
  `CollectedIsQuiet` fail when `Endpoints` of `events.cfg` has two members.
- A page that closes deletes its event targets with their sources running, and no
  `StopEvent` is called although no listener is left (`event_target.h:24-27`):
  stopping the source is up to the destructor of the subclass. `CollectedIsQuiet`
  and the second half of `SourceFollows` are about the open page only.
- For a result that is no list, `DispatchResult` builds an error for the callback,
  then sends the original value, which is dropped: `AnsweredNotLost` and
  `AnsweredIsDelivered` are about lists only.
- A listener that removes itself makes the dispatch skip the next one (`Iterated`).
- `removeEventListener` with the function of `on[type]` leaves `on[type]` reading
  as that function, and setting it again returns early: the handler stays deaf.
- `Process.Wait` of legion returns when the child ended, while the reader may still
  have output to move: what `ReadStdout` returns then may be incomplete.
  `OutputExact` says that it is delayed and not lost.
- A navigation that failed may still commit, and then a later `WaitForNavigate`
  or legacy `Navigate` takes that commit for its own: `PreciseWhenAlone` and
  `ScriptAsAsked` are about calls that start alone.
- A request that adds the script on commit and is given up may still reach the tab:
  the client does not know of that script, never removes it, and later pages run
  it. `ScriptAsAsked` is about the time before the first failure.
- After an `exceptions.Error` the runner is meant to go on with a new state, but
  not after every one: `TimeoutException`, `LoginException` and
  `ProfilingException` are taken for failures of the story first
  (`user_story_runner.py:89-91`), and what `DidRunUserStory` raises is dropped
  (lines 111-116). The browser is then kept; `FreshUnlessTolerated` lists these ways
  as `Tolerated`.
- A legion machine registers before its server is bound (`run_task.py:37-42`), so
  that the first call after `WaitForConnection` may be refused, though the
  docstring of `TaskController` has the connection made by then
  (`task_controller.py:42-46`). `ConnectedHasMachine` says that the right machine
  is known, not that it listens.
- When no device of a collection can be reached, its tests are not reported at all.
  With no device reached, `RunTests` returns no results and exit code 0
  (`test_dispatcher.py:195-215`): without a runner there is no collection whose
  leftovers could be counted, though the message at line 205, "all devices are
  likely offline", and the error code for an empty list of tests
  (`test_dispatcher.py:308`, `testNoTests`) show that such a run was not meant to
  pass. `VerdictButForUnreached` states what is returned instead.
- If the SetUp of one runner raises, the other runners are never torn down: they
  are set up before the `try` (`StartAll`).

### Bounds, and why they are enough

The bounds are constants of the modules and stand in the guards.

- `bridge`: three calls over two pages and two posts per call: a first page makes
  calls and closes, a second reuses identifiers 0 and 1 while results of the first
  are under way. `bridge_store` has a fourth call and a second object, which tells
  an erased entry from a cleared store; construction and collection count as calls.
- `events`: two types and two functions, so that one listener can remove, replace
  or re-add another during a dispatch. `MaxAdds` = 3 bounds the callback
  identifiers: subscribe, unsubscribe and subscribe anew, with one to spare.
- `binary_layout`: lengths 0 to 6 cross the boundaries 0 and 4 of the padding.
- `story_runner`: the page sets have a local story before an archived one, a change
  of archive and a change of state class; the options cover both repeats, the
  failure limit, restarts, stops, recording, replay off and multi-tab. Two
  faults (`MaxFaults`) let a second one hit the handling of the first.
- `inspector_page`: three calls, two of which may time out, so that two late answers
  can meet the third; two scripts, so that one must be removed for the other; one
  subframe, which is the least that can be confused with the main frame.
- `tracing`: three browsers, two alive at a time: one may fail while the other goes
  on, and the third comes later. Three stories: one that goes wrong, the next,
  and one to see what it left. Two faults.
- `legion`: two machines race for one task, in six calls: create twice, connect,
  start, read and release. Two bytes of output, so that one may be read and one
  not. One idle round.
- `test_dispatcher`: two devices, three tests of which two form a group, one retry.
  Two devices are the least that race for the last test and lose the signal.

Scripts, pages and native code may stop at any time, a sync call may block for
ever, and the test tools' runs end, so the runs do not look for deadlock; what must go
on is stated as a liveness property instead.

### Fairness, and why the code justifies it

- Bridge: weak fairness of `ReceiveAny` (the page's event loop takes messages
  while the script is not blocked), `HandleMessage` and `RunTask` (the client's
  message loop) and `DeleteInstance` (the destructor has no loop that waits).
  Nothing obliges a script to call, native code to answer, an object to be
  collected, or a page to open or close. `AnsweredIsDelivered` has the premise
  `[]<>(waiting = NoCall)`: a blocked script receives nothing. The liveness
  properties excuse a call whose page closes and the crash of `late_sync_result`.
- Events: the native loop (`Handle`), listeners returning (`NextListener`,
  `EndLoop`) and the message listener.
- Legion: every thread runs, and a child ends (`ChildEnds`), since `Wait` has no
  time-out. Nothing obliges the controller to be killed, or a child to write.
  `EveryMachineFreed` holds although the controller may die: the idle thread
  sees to it.
- Dispatcher: every thread is scheduled and `RunTest` returns or raises, since
  the runners have time-outs of their own. The watchdog is *not* fair: `RunEnds`
  holds without its help.

The other models have safety properties only.

### Assumptions

About the SDK's surroundings:

- The host delivers messages in order, in each direction, and discards them
  with the page. One page is open at a time; an instance belongs to one page.
- Native code answers a sync call once. It may answer an asynchronous call any
  number of times, from any thread, with a value of any type.
- Scripts take a fresh identifier for each object they construct, except where
  several objects share one on purpose (`proxy`, `Endpoints`).
- Names in binary messages have characters below 256: others lose their upper
  byte when they are written to a Uint8Array.

About the test tools':

- Story runner: closing a browser, the constructor of the state and the forwarder
  do not raise by themselves; credentials and profiling raise nothing; a story with a
  startup URL is one whose browser is restarted; the replay process does not die.
- DevTools client: each navigation goes to a URL of its own; a legacy tab answers
  `Page.navigate` before it commits; blank pages commit nothing; enabling the Page
  domain is part of the start.
- Tracing: identifiers and ports are distinct; a browser answers requests in
  order; after a run is given up its browsers are closed and another run of the
  same process uses the same platform.
- Legion: passwords are distinct; a machine reaches the controller if it lives.
- Dispatcher: the last four digits of the devices' serials are distinct; a runner
  that never asks for a retry is one with `NumRetries` = 0; threads stop when
  `RunTests` is over; tearing down is one step, since its exceptions are swallowed.
  When tests are replicated, the leftovers of two devices carry no device in the
  code and collapse into one result; the model keeps them apart.

## 4. Proofs

All theorems are for any value of the constants that satisfies the `ASSUME`s of
the module: any number of objects, stories, devices, browsers, tasks, and any
bound. Each rests on an inductive invariant (`Init => IInv`, `IInv /\ [Next]_vars
=> IInv'`), with one lemma or step per action.

**Bridge** (`ExtensionBridgeProofs`): `TypeCorrect`, `SilenceAfterClose`,
`PromiseSettlesOnceHolds` and, if no binary message goes without a callback
(`"binaryPlain" \notin Forms`), `NoCrossTalkHolds` and `AnsweredNotLostHolds`. The
hypothesis is needed, as said above. `NoCrossTalk` is far from inductive: it says
nothing of the messages under way. `IInv` adds, beside `TypeOK`,

- `CarriersKnown`: whatever carries a call (a queue, an info, a task, the callback
  table) carries one that was made;
- `CountersAgree`: no call is of a page to come, no more callbacks were stored than
  calls made, and an instance that may post has its handler;
- `ChannelsOfOpenPage`: what is in the channels belongs to the open page, and they
  are empty when no page is open;
- `CarriedOnce`: a message is taken from the channel once, and a sync call has one
  carrier, since native code answers it once;
- `SyncBlocks`: a sync call of the open page that something still carries is the
  one the script waits for.

`NoCrossTalkHolds` needs `CallbacksOwned` besides: a carrier of the open page
with identifier i, whose callback is still in the table, finds its own call
there. It survives the reuse of identifiers because the table is emptied with
the page, and a result of an older page is stopped by the weak pointer before it
enters `to_js`. `PromiseSettlesOnceHolds` is strengthened by `OpenWhileListed`
(each callback in the table is of a call whose promise is open; it leaves the
table in the step that settles it), `AnsweredNotLostHolds` by `AnswerTravels`
(the list itself travels through task and channel) and `CallbackWaits` (the
callback of a call that is still carried is in the table or has run with its own
result).

Four more invariants are proved. `SyncStuckOnlyByStoreHolds` needs `WaitingKnown`: the
script waits for a sync call it made on the open page, and the messages of
constructors and of the garbage collector are never sync. The store's
(`StoreFollowsGCHolds`, `OwnerCallFindsObjectHolds`,
`NativeOutlivesPromisesHolds`) share `StoreInv`. `QueueOrder` says which
orders of construction and collection of one object the channel can hold, `OwnerServed`
that the calls of its owner come in between, `StoreTracks` and `StoreReset` what is in the store in terms of the script's objects and that
channel, and `PromiseRetains` that a pending promise of an owner's method keeps
its script object from being collected; the theorems are read off these.

`BridgeKeepsPromisesHolds` is the refinement: `Spec` implies the specification of
`RemoteCalls` under the mapping of `BridgeRefinement`, again if `"binaryPlain" \notin
Forms`: the identifier that such a message never had arrives as 0, the callback
of another call. The proof names the six things a step of the bridge can do
to the stages of the calls (`Makes`, `Takes`, `Refuses`, `Answers`, `Completes`, `Cuts`),
shows that each is a step of `RemoteCalls`, and that every action of the bridge
is one of them or leaves all stages alone (`Still`). What the stages need of the
state is `ProgressInv`: messages are in call order, what is in the channel
was neither refused nor answered, a result that comes back was posted, and an
answered sync call is still waited for. `RemoteCalls` states safety only; that every call
is answered in the end stays with TLC.

**Binary messages** (`BinaryMessageProofs`): `RoundTripHolds` and
`NeverThrowsHolds`, for strings of every length and every Int32 identifier.
`LayoutInv` says what the phase and the buffer are; the rest is arithmetic: every
field starts at a multiple of four after the end of the one before it, so a later
`Put` leaves the earlier fields alone, and the reader, which knows only lengths
read so far, arrives at the writer's offsets.

**Events** (`EventTargetProofs`): `TypeCorrect`, `CallbacksExactHolds`,
`RemovedIsNotCalledHolds` and, if one script object has the identifier of the
native object (`Endpoints = {Owner}`), `SidesAgreeHolds` and
`CollectedIsQuietHolds`. With several the last two are false, as said above, and
the last is about an open page. That the page is open is a premise of the chain of
messages below; `OnInstanceDestroyed` ends it with the tables and the channels.
`LoopSound` says that a dispatch whose array was given up has nothing left to
call: that array had one listener, which the loop called first. `Exact` adds to
`CallbacksExact` that an identifier in the table was handed out, so that a new
callback displaces none. For the agreement of the two sides, `Chain` describes the
messages under way about one event: they alternate, the first changes the native
map, the last leaves it as the script wants it; it survives an `Append` at one end
(`ChainAppend`) and a `Tail` at the other (`ChainTail`). `CollectedIsLast` and
`Exact` then give that the collection is the last message and finds no listener.

**Story runner** (`StoryRunnerProofs`): `TornDownOnceHolds` and
`FreshUnlessToleratedHolds`. `Torn` counts: every state but the one held was torn down
once. `Calm` says that no exception is on its way outside the handlers, and
`Suspects` follows a browser that met an error `Run` raises again: its state is on its way out
(`OnItsWayOut`), to the retry or to the end of the group, and never back to a
story. `TypeCorrect` and the other four properties of the run are proved with a second invariant,
`LInv`. `EveryRunReportedHolds` is a count: `Counted` gives, from the position in the
three loops alone, how often each story has run (`RunsBefore`), with one case for the
stories of the group that this round has reached, one for those it has not, and one
for the groups before and after; every step of the loops moves both sides alike
(`BeforeNext`, `BeforeOver`, `BeforeGroup`), and a run that a swallowed exception left
unfiled is still the current one (`Unfiled`). That the ends of a group exist
(`GroupStarts`, `GroupEnds`) comes from the well-foundedness of `<`, and the order of the results from
`Reached`. `StopsOnUnexpectedHolds`: a fatal outcome and the exception on its way are the same
until the run is filed (`Filling`). `ReplayServesPageHolds`: `Serving` says that what the
controller takes for active is what the server serves, unless a server did not start,
and then the run is over; so `UpdateReplay` may leave a server alone. `DeviceLeftAsFoundHolds`:
`Device` says that only the browser of the held state can be alive, and that without
one replay and the performance mode are off; closing that browser is then enough.

**Legion** (`LegionProofs`): `TypeCorrect`, `OneMachinePerTaskHolds`,
`ConnectedHasMachineHolds`, `OutputExactHolds`. `Once` says that what is registered,
or about to be, took its task from the expected ones; `Addressed` that the event of a
task, and the step of `OnConnect` that sets it, come after its connection; `Output`
balances what the child wrote against pipe, buffer, answer and what was received.

**DevTools client** (`InspectorPageProofs`): `TypeCorrect`, `AnswerIsOwnHolds`. `Own`
says of every answer and request on its way that its number is below the next
one, and that it belongs to the call that waits if it has that call's number.
`PreciseWhenAloneHolds`, `WakeupNotLostHolds` and `ScriptAsAskedHolds` rest on two
further parts. `GInv` holds whatever failed: a request is answered once (`Apart`), nothing
under way is of a call yet to come (`Dated`), a navigation does not begin before
`Page.navigate` is sent (`NotGone`), a legacy tab answers it before it commits (`AnswerFirst`,
about the order of the inbox), and while a Navigate called alone is under way every navigation
of the main frame is its own (`OwnNavigation`). `UInv` holds until a call fails: the
client collects frame identifiers exactly while `Page.navigate` is unanswered
(`Tracking`), what was seen so far is recorded where the wait will look for it
(`Told`), and the scripts of the tab are those the client knows of, less the one it is
exchanging (`ScriptsKnown`). After a failure they are false: the run shows leftovers of a call that
timed out.

**Tracing** (`TracingProofs`): `TypeCorrect`, `ActiveIsStoppableHolds`, from
`Stoppable`: an active agent is in the controller's list, a controller with a list
is running, and Start works on a running controller. `TraceExactHolds` and
`QuietBetweenStoriesHolds` rest on `TInv`, which follows the data of a story through
the system. `Orderly`: the socket of a browser that traces is empty, and the word
that a trace is complete is the last one in it. `Settling`: a backend that does not run has read
its socket to the end, and its browser traces only if a Start failed, which ends the
run. `TracedIsKnown`: a live browser that traces is one the next Stop will ask, or one
the last Stop failed on. `FreshExact`: what a browser traced since this story's Start is sealed in it
until Stop reaches it, then on its way (events of the backend, socket, unflushed
data, buffer: together the story's number and nothing else), then in the result. Without
`Orderly` a story's data could be left in the socket for the next story's trace.

**Dispatcher** (`TestDispatcherProofs`): `TypeCorrect`, `NoTestLostHolds` (`HandsEmpty`:
a thread holds a test only between `_pop` and the end of the loop's body, so that
taking one overwrites none) and `LeavesWhenAllDoneHolds`: `Counted` says that the
counter is the number of queued tests and of threads that have yet to call
`test_completed`, and `LeftAtZero` that it stays 0 once a thread saw it so.
`VerdictButForUnreachedHolds` rests on `VInv`. `Once` says that a test of a shard is in one
queued group, in one thread's hand or in one result, never in two of them: without it
a stale failure could outlive a pass. `GroupsLeft` keeps empty groups from being
queued, `RecordsHonest` that a failure is recorded after the last retry only,
`AllSetUp` that a device without a runner was unreachable once tests are run, and
`ReturnStands` that what `RunTests` returned stays true of the collections, since
every thread of a runner has ended.

**Only model-checked:** liveness (fairness and `ENABLED` are beyond the prover), and the
three properties that runs show violated. Every safety property of a passing run is
a theorem; the assumptions that narrow some of them (`"binaryPlain" \notin Forms`,
`Endpoints = {Owner}`) are said above. Type correctness is proved where a
theorem `TypeCorrect` says so.

## 5. What is not modelled, and why

- `Extension` (start, shutdown, permissions, runtime variables): its hazards
  (`g_extension`, the instance data that outlives its instance, a `CreateInstance`
  that returns null) depend on the order of the host's calls, which are not in
  this repository.
- The asynchronous `wrapArgs` of `addMethodWithPromise2`: it only delays the call;
  the message sent is the same. The replies to binary messages, whose buffers the
  extensions make. A listener that dispatches another event of the same object
  from inside a dispatch.
- The Android port of the SDK: the same protocol in another language and with
  another host.
- In telemetry: profiling, credentials, the interactive mode; the DevTools domains
  that are one request and one answer (memory, network, console, screenshots);
  the display tracing agent and startup tracing; metrics, timeline importers, values,
  output formatters and image processing, which are sequential functions of large data
  that sample files test well; platform back ends, profilers and power monitors,
  which start and read tools of the operating system.
- In legion: isolate and swarming, which create machines, and the methods that
  only read or write a machine's disk.
- In `pylib/`: the device utilities and the other runners, which wrap single adb
  commands.
- IDL and JSON compilers, JNI generator, build, toolchain and clang scripts: single
  threads without state from one run to the next, whose output is text.
- `base/`, `third_party/`, `net/third_party/`: vendored. `common/common.idl`,
  `common/picojson.h`, `common/utils.h`, GYP and GN files: no behaviour of their own.
