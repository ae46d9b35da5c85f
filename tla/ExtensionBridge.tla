-------------------------- MODULE ExtensionBridge --------------------------
(***************************************************************************)
(* The call bridge of the extension SDK: a script of a page calls into a   *)
(* native extension instance and gets its results back.                    *)
(*                                                                         *)
(*   common_api.js                      the script side: callback table,   *)
(*                                      binding objects, garbage collector *)
(*   xwalk_extension_function_handler   the native dispatcher and the way  *)
(*                                      of a result back to the script     *)
(*   binding_object_store               the native objects, by identifier  *)
(*   extension.cc (Instance)            the instance that owns the above   *)
(*                                                                         *)
(* The host (the Crosswalk runtime, not in this repository) carries        *)
(* messages in order in both directions and creates one instance per page. *)
(* The model has one page at a time; results that are still on their way   *)
(* when a page closes may arrive while a later page is open.               *)
(***************************************************************************)
EXTENDS Integers, Sequences, FiniteSets

CONSTANTS
    Objects,      \* identifiers of the binding objects scripts construct
    NoObject,     \* the target of a call that addresses no binding object
    Forms,        \* the forms of call the scripts use, out of AllForms
    Routes,       \* where their messages lead, out of AllRoutes
    MaxCalls,     \* bound on the messages scripts send, over all pages
    MaxPosts,     \* bound on the results native code posts
    MaxPages      \* bound on the pages opened

(***************************************************************************)
(* "promise"      a method made by _addMethodWithPromise and its variants  *)
(* "binary"       the same with an ArrayBuffer, _addBinaryMethodWithPromise*)
(* "callback"     _addMethod with a callback, internal.postMessage         *)
(* "plain"        the same without a callback                              *)
(* "binaryPlain"  _postBinaryMessage without a callback                    *)
(* "sync"         internal.sendSyncMessage                                 *)
(***************************************************************************)
PromiseForms == {"promise", "binary"}
CallbackForms == PromiseForms \cup {"callback"}
AllForms == CallbackForms \cup {"plain", "binaryPlain", "sync"}

(***************************************************************************)
(* A message that is not one of the store's own names a function of the    *)
(* extension's handler ("direct"), or one nobody registered, or (a sync    *)
(* message) carries the name alone.  A message for a binding object names  *)
(* a method the object registered, one it did not, or has arguments the    *)
(* store rejects.                                                          *)
(***************************************************************************)
DirectRoutes == {"direct", "unknownFunction", "noArguments"}
ObjectRoutes == {"method", "unknownMethod", "badArguments"}
AllRoutes == DirectRoutes \cup ObjectRoutes

NoCall == 0
NoCallback == -1

Calls == 1 .. MaxCalls
CallbackIds == 0 .. (MaxCalls - 1)

ASSUME FormsAssumption == Forms \subseteq AllForms
ASSUME RoutesAssumption == Routes \subseteq AllRoutes
ASSUME BoundsAssumption ==
    /\ MaxCalls \in Nat \ {0}
    /\ MaxPosts \in Nat
    /\ MaxPages \in Nat \ {0}
ASSUME ObjectsAssumption == NoObject \notin Objects

VARIABLES
    \* the script of the open page
    callback_id,         \* the next callback identifier
    callback_listeners,  \* identifier -> the call whose callback it is
    js_objects,          \* identifier -> "none", "alive", "collected"
    waiting,             \* the sync call the script is blocked in
    \* the host's channels, oldest message first
    to_native,
    to_js,
    \* the native side
    page,                \* how many instances were created
    xw_instance_,        \* the instance may use the host's interfaces
    handler,             \* the function handler of that instance exists
    objects_,            \* the identifiers with a native object
    infos,               \* the function infos native code still holds
    tasks,               \* results posted to the client's message loop
    crashed,             \* a null handler was dereferenced
    \* history
    calls,               \* what each call was
    refused,             \* the calls native code dropped, or answered false
    answered,            \* <<call, kind of result>> handed to PostResult
    received,            \* <<c, d>>: the callback of c got a result of d
    settlements,         \* how often the promise of a call was settled
    posts                \* how many results were posted

script == <<callback_id, callback_listeners, js_objects, waiting>>
channels == <<to_native, to_js>>
native == <<page, xw_instance_, handler, objects_, infos, tasks, crashed>>
history == <<calls, refused, answered, received, settlements, posts>>
vars == <<script, channels, native, history>>

Call == [obj  : Objects \cup {NoObject},
         form : AllForms,
         by   : {"owner", "proxy"},
         route: AllRoutes \cup {"construct", "collected"},
         page : 1 .. MaxPages]
Message == [call : Calls, cb : CallbackIds \cup {NoCallback}]
Result == [call : Calls, cb : CallbackIds \cup {NoCallback},
           result : {"list", "value"}]

-----------------------------------------------------------------------------
(* Decisions of the code, each with the form a plausible bug would give it. *)

\* wrapCallback: the identifier counter after a callback is stored.
NextCallbackId == callback_id + 1

\* The callback identifier a message carries.  A binary message writes
\* parseInt('') into an Int32Array when there is no callback: NaN becomes 0.
WireCallback(form) ==
    IF form \in CallbackForms THEN callback_id
    ELSE IF form = "binaryPlain" THEN 0 ELSE NoCallback

\* The listener table after the listener of cb ran.
ListenersKept(cb, outcome) == callback_listeners
ListenersAfter(cb, outcome) ==
    IF outcome = "done" THEN [callback_listeners EXCEPT ![cb] = NoCall]
                        ELSE callback_listeners

\* How a listener may end: its value is falsy, truthy, or it throws.  The
\* closure of sendMsg returns undefined unless a wrapper throws.
Outcomes(form) ==
    IF form \in PromiseForms THEN {"done", "throw"} ELSE {"done", "keep", "throw"}

\* The closure sendMsg registers keeps the object it was called on reachable.
NeverRetained(o) == FALSE
Retained(o) ==
    \E i \in CallbackIds :
        /\ callback_listeners[i] # NoCall
        /\ calls[callback_listeners[i]].obj = o
        /\ calls[callback_listeners[i]].by = "owner"
        /\ calls[callback_listeners[i]].form \in PromiseForms

\* The weak pointer bound into the result callback of call c.
AnyHandlerValid(c) == handler
HandlerValid(c) == handler /\ calls[c].page = page

\* Instance::PostMessage and its siblings look at xw_instance_ first.
AlwaysPosts == TRUE
CanPost == xw_instance_

\* OnJSObjectCollected erases the entry of the store.
StoreUnchanged(o) == objects_
StoreCleared(o) == {}
StoreWithout(o) == objects_ \ {o}

\* PostTask on the client's loop.
TaskForgotten(r) == tasks
PostTask(r) == Append(tasks, r)

\* HandleSyncMessage answers false when nothing was dispatched.
StillWaiting == waiting
AnsweredFalse == NoCall

-----------------------------------------------------------------------------
Init ==
    /\ callback_id = 0
    /\ callback_listeners = [i \in CallbackIds |-> NoCall]
    /\ js_objects = [o \in Objects |-> "none"]
    /\ waiting = NoCall
    /\ to_native = <<>>
    /\ to_js = <<>>
    /\ page = 0
    /\ xw_instance_ = FALSE
    /\ handler = FALSE
    /\ objects_ = {}
    /\ infos = {}
    /\ tasks = <<>>
    /\ crashed = FALSE
    /\ calls = <<>>
    /\ refused = {}
    /\ answered = {}
    /\ received = {}
    /\ settlements = [c \in Calls |-> 0]
    /\ posts = 0

\* Script runs on an open page, and not while a sync call blocks it.
ScriptRuns == xw_instance_ /\ waiting = NoCall /\ ~crashed

CanCall == ScriptRuns /\ Len(calls) < MaxCalls

\* A call is recorded and its message queued: the common tail of the
\* functions of common_api.js that post.
Send(o, form, by, route) ==
    LET c == Len(calls) + 1
    IN  /\ calls' = Append(calls, [obj |-> o, form |-> form, by |-> by,
                                   route |-> route, page |-> page])
        /\ to_native' = Append(to_native, [call |-> c, cb |-> WireCallback(form)])
        /\ IF form \in CallbackForms
           THEN /\ callback_listeners' = [callback_listeners EXCEPT ![callback_id] = c]
                /\ callback_id' = NextCallbackId
           ELSE UNCHANGED <<callback_listeners, callback_id>>
        /\ waiting' = IF form = "sync" THEN c ELSE waiting
        /\ UNCHANGED <<to_js, native, refused, answered, received, settlements, posts>>

\* A script makes an object with a fresh identifier and tells native code.
Construct(o) ==
    /\ CanCall
    /\ js_objects[o] = "none"
    /\ js_objects' = [js_objects EXCEPT ![o] = "alive"]
    /\ Send(o, "plain", "owner", "construct")

\* An object may be used while it lives; one that was given the identifier
\* of another (a proxy) lives on its own and owns nothing.
Usable(o, by) ==
    IF by = "owner" THEN js_objects[o] = "alive" ELSE js_objects[o] # "none"

CallObject(o, form, by, route) ==
    /\ CanCall
    /\ route \in Routes \cap ObjectRoutes
    /\ Usable(o, by)
    /\ Send(o, form, by, route)
    /\ UNCHANGED js_objects

CallFunction(form, route) ==
    /\ CanCall
    /\ form \notin PromiseForms \cup {"binaryPlain"}
    /\ route \in Routes \cap DirectRoutes
    /\ route = "noArguments" => form = "sync"
    /\ Send(NoObject, form, "proxy", route)
    /\ UNCHANGED js_objects

\* The lifecycle tracker of the original object runs its destructor.
Collect(o) ==
    /\ CanCall
    /\ js_objects[o] = "alive"
    /\ ~Retained(o)
    /\ js_objects' = [js_objects EXCEPT ![o] = "collected"]
    /\ Send(o, "plain", "owner", "collected")

\* The message listener of the page: the callback runs, once it is found.
Receive(outcome) ==
    /\ ScriptRuns
    /\ to_js # <<>>
    /\ LET m == Head(to_js)
           c == callback_listeners[m.cb]
       IN  IF c = NoCall
           THEN outcome = "done"
                /\ UNCHANGED <<callback_listeners, received, settlements>>
           ELSE /\ outcome \in Outcomes(calls[c].form)
                /\ callback_listeners' = ListenersAfter(m.cb, outcome)
                /\ received' = received \cup {<<c, m.call>>}
                /\ settlements' =
                     IF calls[c].form \in PromiseForms /\ outcome = "done"
                     THEN [settlements EXCEPT ![c] = @ + 1] ELSE settlements
    /\ to_js' = Tail(to_js)
    /\ UNCHANGED <<callback_id, js_objects, waiting, to_native, native, calls,
                   refused, answered, posts>>
-----------------------------------------------------------------------------
(* The native side takes the oldest message of the open page. *)

Dispatching == xw_instance_ /\ ~crashed /\ to_native # <<>>
Oldest == Head(to_native)
Asked == calls[Oldest.call]

Registered(c) ==
    \/ c.route = "direct"
    \/ c.route = "method" /\ c.obj \in objects_

\* The extension's constructor function adds the native object.
OnConstruct ==
    /\ Dispatching
    /\ Asked.route = "construct"
    /\ objects_' = objects_ \cup {Asked.obj}
    /\ to_native' = Tail(to_native)
    /\ UNCHANGED <<script, to_js, page, xw_instance_, handler, infos, tasks,
                   crashed, history>>

OnJSObjectCollected ==
    /\ Dispatching
    /\ Asked.route = "collected"
    /\ objects_' = StoreWithout(Asked.obj)
    /\ to_native' = Tail(to_native)
    /\ UNCHANGED <<script, to_js, page, xw_instance_, handler, infos, tasks,
                   crashed, history>>

\* HandleFunction finds the function, in the extension's handler or in the
\* object's, and hands it an info with the callback identifier bound in.
RunFunction ==
    /\ Dispatching
    /\ Registered(Asked)
    /\ infos' = infos \cup {Oldest}
    /\ to_native' = Tail(to_native)
    /\ UNCHANGED <<script, to_js, page, xw_instance_, handler, objects_, tasks,
                   crashed, history>>

\* The store drops what it cannot deliver, and a sync message as well.
DropForObject ==
    /\ Dispatching
    /\ Asked.route \in ObjectRoutes
    /\ ~Registered(Asked)
    /\ refused' = refused \cup {Oldest.call}
    /\ to_native' = Tail(to_native)
    /\ UNCHANGED <<script, to_js, native, calls, answered, received, settlements, posts>>

\* HandleMessage and HandleBinaryMessage only warn of a function nobody
\* registered; HandleSyncMessage answers false.
DropForHandler ==
    /\ Dispatching
    /\ Asked.route \in {"unknownFunction", "noArguments"}
    /\ refused' = refused \cup {Oldest.call}
    /\ to_native' = Tail(to_native)
    /\ waiting' = IF Asked.form = "sync" THEN AnsweredFalse ELSE waiting
    /\ UNCHANGED <<callback_id, callback_listeners, js_objects, to_js, native,
                   calls, answered, received, settlements, posts>>

-----------------------------------------------------------------------------
(* Results. *)

\* DispatchResult on the client's thread.  A reply needs the handler, and
\* only the asynchronous branch looks whether it still exists.
DispatchResult(r) ==
    IF calls[r.call].form = "sync"
    THEN /\ crashed' = ~HandlerValid(r.call)
         /\ IF HandlerValid(r.call) /\ CanPost
            THEN /\ waiting' = NoCall
                 /\ received' = received \cup {<<waiting, r.call>>}
            ELSE UNCHANGED <<waiting, received>>
         /\ UNCHANGED to_js
    ELSE /\ to_js' = IF /\ r.cb # NoCallback
                        /\ r.result = "list"
                        /\ HandlerValid(r.call)
                        /\ CanPost
                     THEN Append(to_js, [call |-> r.call, cb |-> r.cb])
                     ELSE to_js
         /\ UNCHANGED <<crashed, waiting, received>>

\* Native code may keep the info of an asynchronous call and post again; it
\* answers a sync call once.
Post(i, result) ==
    /\ ~crashed
    /\ posts < MaxPosts
    /\ posts' = posts + 1
    /\ answered' = answered \cup {<<i.call, result>>}
    /\ infos' = IF calls[i.call].form = "sync" THEN infos \ {i} ELSE infos
    /\ UNCHANGED <<callback_id, callback_listeners, js_objects, to_native, page,
                   xw_instance_, handler, objects_, calls, refused, settlements>>

PostResultOnClient(i, result) ==
    /\ Post(i, result)
    /\ DispatchResult([call |-> i.call, cb |-> i.cb, result |-> result])
    /\ UNCHANGED tasks

PostResultOnWorker(i, result) ==
    /\ Post(i, result)
    /\ tasks' = PostTask([call |-> i.call, cb |-> i.cb, result |-> result])
    /\ UNCHANGED <<waiting, to_js, crashed, received>>

\* The client's loop runs the oldest task, not while a destructor runs on it.
RunTask ==
    /\ ~crashed
    /\ tasks # <<>>
    /\ handler = xw_instance_
    /\ DispatchResult(Head(tasks))
    /\ tasks' = Tail(tasks)
    /\ UNCHANGED <<callback_id, callback_listeners, js_objects, to_native, page,
                   xw_instance_, handler, objects_, infos, calls, refused,
                   answered, settlements, posts>>

-----------------------------------------------------------------------------
(* The instance. *)

\* A new page: common_api.js starts afresh, a handler and a store are made.
OnInstanceCreated ==
    /\ ~crashed
    /\ ~handler
    /\ page < MaxPages
    /\ page' = page + 1
    /\ xw_instance_' = TRUE
    /\ handler' = TRUE
    /\ UNCHANGED <<script, channels, objects_, infos, tasks, crashed, history>>

\* The page is gone and its channels with it; the instance is about to be
\* deleted, and what its destructors post is ignored.
OnInstanceDestroyed ==
    /\ ~crashed
    /\ xw_instance_
    /\ xw_instance_' = FALSE
    /\ callback_id' = 0
    /\ callback_listeners' = [i \in CallbackIds |-> NoCall]
    /\ js_objects' = [o \in Objects |-> "none"]
    /\ waiting' = NoCall
    /\ to_native' = <<>>
    /\ to_js' = <<>>
    /\ UNCHANGED <<page, handler, objects_, infos, tasks, crashed, history>>

\* The destructor ends: the store deleted its objects, and the weak pointers
\* to the handler are no longer valid.
DeleteInstance ==
    /\ ~crashed
    /\ handler
    /\ ~xw_instance_
    /\ handler' = FALSE
    /\ objects_' = {}
    /\ UNCHANGED <<script, channels, page, xw_instance_, infos, tasks, crashed, history>>

-----------------------------------------------------------------------------
CallFromScript ==
    \/ \E o \in Objects : Construct(o) \/ Collect(o)
    \/ \E o \in Objects, form \in Forms, by \in {"owner", "proxy"}, route \in Routes :
          CallObject(o, form, by, route)
    \/ \E form \in Forms, route \in Routes : CallFunction(form, route)

ReceiveAny == \E outcome \in {"done", "keep", "throw"} : Receive(outcome)

HandleMessage ==
    OnConstruct \/ OnJSObjectCollected \/ RunFunction \/ DropForObject \/ DropForHandler

PostResult ==
    \E i \in infos, result \in {"list", "value"} :
        PostResultOnClient(i, result) \/ PostResultOnWorker(i, result)

Next ==
    \/ CallFromScript
    \/ ReceiveAny
    \/ HandleMessage
    \/ PostResult
    \/ RunTask
    \/ OnInstanceCreated
    \/ OnInstanceDestroyed
    \/ DeleteInstance

Spec == Init /\ [][Next]_vars

\* The script returns to its event loop, the native loop takes messages and
\* tasks in turn, and a destructor ends.  Nothing obliges a script to call,
\* native code to answer, or a page to open or close.
Fairness ==
    /\ WF_vars(ReceiveAny)
    /\ WF_vars(HandleMessage)
    /\ WF_vars(RunTask)
    /\ WF_vars(DeleteInstance)

FairSpec == Spec /\ Fairness
-----------------------------------------------------------------------------
(* Properties. *)

OfOpenPage(c) == xw_instance_ /\ c \in 1 .. Len(calls) /\ calls[c].page = page
InTransit(s, c) == \E i \in 1 .. Len(s) : s[i].call = c
Held(c) == \E i \in infos : i.call = c
Delivered(c) == <<c, c>> \in received
HasCallback(c) == calls[c].form \in CallbackForms

\* The state is well formed; wrapCallback has handed out every identifier
\* that is in use, and none from callback_id on.
TypeOK ==
    /\ callback_id \in 0 .. MaxCalls
    /\ callback_listeners \in [CallbackIds -> Calls \cup {NoCall}]
    /\ \A i \in CallbackIds : callback_listeners[i] # NoCall => i < callback_id
    /\ js_objects \in [Objects -> {"none", "alive", "collected"}]
    /\ waiting \in Calls \cup {NoCall}
    /\ to_native \in Seq(Message)
    /\ to_js \in Seq([call : Calls, cb : CallbackIds])
    /\ page \in 0 .. MaxPages
    /\ xw_instance_ \in BOOLEAN
    /\ handler \in BOOLEAN
    /\ objects_ \subseteq Objects
    /\ infos \subseteq Message
    /\ tasks \in Seq(Result)
    /\ crashed \in BOOLEAN
    /\ calls \in Seq(Call)
    /\ Len(calls) \leq MaxCalls
    /\ refused \subseteq Calls
    /\ answered \subseteq Calls \X {"list", "value"}
    /\ received \subseteq Calls \X Calls
    /\ settlements \in [Calls -> Nat]
    /\ posts \in 0 .. MaxPosts

\* A callback, or a blocked sync call, only ever gets a result of the call it
\* was given to: identifiers restart with every page and results of an older
\* page are still posted by worker threads (wrapCallback, DispatchResult).
NoCrossTalk == \A r \in received : r[1] = r[2]

\* However often native code posts, and whether or not a wrapper threw the
\* first time, a promise is settled once (sendMsg, the message listener).
PromiseSettlesOnce == \A c \in Calls : settlements[c] \leq 1

\* The store follows the script's garbage collector: it holds a native object
\* from the message of its construction to that of its collection
\* (registerLifecycleTracker, OnJSObjectCollected).
StoreFollowsGC ==
    xw_instance_ =>
        \A o \in Objects :
            LET Pending(r) == \E i \in 1 .. Len(to_native) :
                                 /\ calls[to_native[i].call].obj = o
                                 /\ calls[to_native[i].call].route = r
            IN  o \in objects_ <=> \/ js_objects[o] = "alive" /\ ~Pending("construct")
                                  \/ /\ js_objects[o] = "collected"
                                     /\ Pending("collected")
                                     /\ ~Pending("construct")

\* A method of the original object always finds the native object, also when
\* the script drops the object right after the call: the store drops such a
\* call only for a wrong name or wrong arguments.
OwnerCallFindsObject ==
    \A c \in refused :
        calls[c].by = "owner" => calls[c].route \in {"unknownMethod", "badArguments"}

\* While a promise of an object's own method is pending, the native object
\* lives: the callback keeps the script's object reachable, so nothing native
\* code does for that call runs after the object was deleted.
NativeOutlivesPromises ==
    \A i \in CallbackIds :
        LET c == callback_listeners[i]
        IN  /\ c # NoCall
            /\ calls[c].form \in PromiseForms
            /\ calls[c].by = "owner"
            /\ ~InTransit(to_native, c)
            => calls[c].obj \in objects_

\* A list that native code posted for a call of the open page is on its way or
\* has run the callback, whatever thread it came from (DispatchResult).
AnsweredNotLost ==
    \A a \in answered :
        LET c == a[1]
        IN  /\ a[2] = "list"
            /\ OfOpenPage(c)
            /\ HasCallback(c)
            => Delivered(c) \/ InTransit(tasks, c) \/ InTransit(to_js, c)

\* A script blocked in a sync call is waiting for native code that has the
\* call, or for a call the store dropped without an answer: the handler
\* itself answers what it does not dispatch (HandleSyncMessage).
SyncStuckOnlyByStore ==
    waiting # NoCall =>
        \/ InTransit(to_native, waiting) \/ Held(waiting) \/ InTransit(tasks, waiting)
        \/ waiting \in refused /\ calls[waiting].route \in ObjectRoutes

\* Nothing is handed to the host for an instance that is being deleted or is
\* gone: the channels of a closed page stay empty (Instance::PostMessage).
ClosedInstanceIsSilent ==
    ~xw_instance_ => to_js = <<>> /\ to_native = <<>> /\ waiting = NoCall

\* A list posted for a call with a callback reaches the callback, unless the
\* page closes, or the script stays blocked in a sync call for ever.
AnsweredIsDelivered ==
    []<>(waiting = NoCall) =>
        \A c \in Calls :
            (/\ <<c, "list">> \in answered
             /\ OfOpenPage(c)
             /\ HasCallback(c)) ~> (Delivered(c) \/ ~OfOpenPage(c) \/ crashed)

\* The native object of a collected object is deleted in the end.
CollectedIsFreed ==
    \A o \in Objects :
        js_objects[o] = "collected" ~> (o \notin objects_ \/ crashed)

\* What xwalk_extension_function_handler.h promises of PostResult: nothing is
\* done when the instance does not exist any more.
LateResultIsHarmless == ~crashed
=============================================================================
