---------------------------- MODULE EventTarget ----------------------------
(***************************************************************************)
(* Events: the EventTarget of common_api.js, which keeps the listeners of  *)
(* a script, and the EventTarget of event_target.cc, which starts and      *)
(* stops the source of an event as the script gains and loses listeners.   *)
(*                                                                         *)
(* The two sides talk over the bridge (module ExtensionBridge), of which   *)
(* this module keeps what matters here: messages arrive in order, and a    *)
(* result finds its callback by identifier or not at all.  One native      *)
(* object; its identifier is used by one script object, or by several (a   *)
(* proxy has the same predefined identifier).  Listeners run one after     *)
(* another and may themselves add and remove listeners.  The page may      *)
(* close at any time; one page and its instance are modelled.              *)
(***************************************************************************)
EXTENDS Integers, Sequences, FiniteSets

CONSTANTS
    Endpoints,  \* the script objects with the identifier of the native object
    Owner,      \* the one whose life the native object shares
    Types,      \* the events declared with _addEvent
    Functions,  \* the functions scripts use as listeners
    Nothing,    \* no listener: null
    MaxAdds,    \* bound on the callback identifiers handed out
    MaxEvents   \* bound on the events dispatched

ASSUME EndpointsAssumption == Owner \in Endpoints
ASSUME FunctionsAssumption == Nothing \notin Functions \cup Types
ASSUME EventBoundsAssumption == MaxAdds \in Nat \ {0} /\ MaxEvents \in Nat

NoId == -1
Ids == 0 .. (MaxAdds - 1)
NoLoop == [on |-> FALSE]

VARIABLES
    js,        \* the script's tables, see JsType
    loop,      \* the dispatch in progress, or NoLoop
    open,      \* the page is open, and its instance exists
    alive,     \* the original script object was not collected
    to_native, \* messages to the native object
    to_js,     \* the callback identifiers of events under way
    exists,    \* the native object exists
    events_,   \* the native map: type -> callback identifier, or NoId
    source,    \* the types whose source StartEvent started
    \* history
    stale,     \* a listener was called after it was removed
    events     \* how many events were dispatched

vars == <<js, loop, open, alive, to_native, to_js, exists, events_, source, stale, events>>

JsType ==
    [listeners   : [Endpoints -> [Types -> Seq(Functions)]],
     listener_id : [Endpoints -> [Types -> Ids \cup {NoId}]],
     handler     : [Endpoints -> [Types -> Functions \cup {Nothing}]],
     callbacks   : [Ids -> (Endpoints \X Types) \cup {<<>>}],
     next_id     : 0 .. MaxAdds,
     sent        : Seq([op : {"add"}, type : Types, id : Ids]
                         \cup [op : {"remove"}, type : Types, id : {NoId}])]

Members(seq) == {seq[i] : i \in 1 .. Len(seq)}

\* listeners.splice(listeners.indexOf(f), 1)
IndexOf(seq, f) == CHOOSE i \in 1 .. Len(seq) : seq[i] = f
Spliced(seq, f) ==
    [i \in 1 .. Len(seq) - 1 |-> IF i < IndexOf(seq, f) THEN seq[i] ELSE seq[i + 1]]

-----------------------------------------------------------------------------
(* The script's side.  An operation maps the tables to the tables after it; *)
(* "sent" collects the messages it posts.                                   *)

\* A listener is pushed once.
PushNew(array, f) == IF f \in Members(array) THEN array ELSE Append(array, f)

\* addEventListener: the array of a type exists while it has a listener, and
\* only the first listener is announced to the native object.
AddListener(s, e, t, f) ==
    IF f = Nothing THEN s
    ELSE IF s.listeners[e][t] # <<>>
    THEN [s EXCEPT !.listeners[e][t] = PushNew(@, f)]
    ELSE [s EXCEPT !.listeners[e][t] = <<f>>,
                   !.listener_id[e][t] = s.next_id,
                   !.callbacks[s.next_id] = <<e, t>>,
                   !.next_id = @ + 1,
                   !.sent = Append(@, [op |-> "add", type |-> t, id |-> s.next_id])]

\* A removal that forgets the callback table, and one that forgets to tell.
LeakCallback(callbacks, i) == callbacks
DropCallback(callbacks, i) == [callbacks EXCEPT ![i] = <<>>]
KeepQuiet(sent, t) == sent
TellRemoved(sent, t) == Append(sent, [op |-> "remove", type |-> t, id |-> NoId])

\* removeEventListener: with the last listener go the array, the callback and
\* the native subscription.
RemoveListener(s, e, t, f) ==
    IF f = Nothing \/ f \notin Members(s.listeners[e][t]) THEN s
    ELSE IF Len(s.listeners[e][t]) = 1
    THEN [s EXCEPT !.listeners[e][t] = <<>>,
                   !.callbacks = DropCallback(@, s.listener_id[e][t]),
                   !.listener_id[e][t] = NoId,
                   !.sent = TellRemoved(@, t)]
    ELSE [s EXCEPT !.listeners[e][t] = Spliced(@, f)]

\* The setter of on[type].
SetHandler(s, e, t, f) ==
    IF s.handler[e][t] = f THEN s
    ELSE LET removed == RemoveListener(s, e, t, s.handler[e][t])
         IN  AddListener([removed EXCEPT !.handler[e][t] = f], e, t, f)

\* The array a dispatch iterates over: the table's own (not a copy), until
\* its last listener is removed and a later one starts a new array.
Snapshot(l) == l.array
Iterated(l) == IF l.live THEN js.listeners[l.e][l.t] ELSE l.array

\* What it does to a dispatch in progress that the array of <<e, t>> changes.
LoopAfter(l, e, t, before, after) ==
    IF l.on /\ l.e = e /\ l.t = t
    THEN [l EXCEPT !.removed = @ \cup (Members(before) \ Members(after)),
                   !.array = IF l.live /\ after = <<>> THEN before ELSE @,
                   !.live = @ /\ after # <<>>]
    ELSE l

Usable(e) == open /\ (e # Owner \/ alive)

\* A piece of script runs one of the operations.  A setter that removes the
\* last listener goes through an empty table before it adds the new one.
Operate(e, t, between, after) ==
    /\ Usable(e)
    /\ after # js
    /\ js' = [after EXCEPT !.sent = <<>>]
    /\ to_native' = to_native \o after.sent
    /\ loop' = LoopAfter(LoopAfter(loop, e, t, js.listeners[e][t], between.listeners[e][t]),
                         e, t, between.listeners[e][t], after.listeners[e][t])
    /\ UNCHANGED <<open, alive, to_js, exists, events_, source, stale, events>>

Add(e, t, f) ==
    /\ js.next_id < MaxAdds
    /\ Operate(e, t, js, AddListener(js, e, t, f))

Remove(e, t, f) == Operate(e, t, js, RemoveListener(js, e, t, f))

Set(e, t, f) ==
    /\ js.next_id < MaxAdds
    /\ js.handler[e][t] # f
    /\ Operate(e, t, RemoveListener(js, e, t, js.handler[e][t]), SetHandler(js, e, t, f))

\* A dispatch calls the first listener; the loop enumerates the indices the
\* array has now.
StartLoop(e, t) ==
    LET array == js.listeners[e][t]
    IN  loop' = IF array = <<>> THEN NoLoop
                ELSE [on |-> TRUE, e |-> e, t |-> t, next |-> 2,
                      count |-> Len(array), array |-> array, live |-> TRUE,
                      removed |-> {}]

\* dispatchEvent, called by a script.
DispatchFromScript(e, t) ==
    /\ Usable(e)
    /\ ~loop.on
    /\ events < MaxEvents
    /\ events' = events + 1
    /\ StartLoop(e, t)
    /\ UNCHANGED <<js, open, alive, to_native, to_js, exists, events_, source, stale>>

\* An event of the native object reaches the page, and its callback is called
\* if the identifier still names one.
DispatchFromExtension ==
    /\ ~loop.on
    /\ to_js # <<>>
    /\ LET target == js.callbacks[Head(to_js)]
       IN  IF target = <<>> THEN loop' = loop
                            ELSE StartLoop(target[1], target[2])
    /\ to_js' = Tail(to_js)
    /\ UNCHANGED <<js, open, alive, to_native, exists, events_, source, stale, events>>

\* The listener that runs returns, and the next one is called.
NextListener ==
    /\ loop.on
    /\ loop.next \leq loop.count
    /\ loop.next \leq Len(Iterated(loop))
    /\ LET f == Iterated(loop)[loop.next]
       IN  /\ loop' = [loop EXCEPT !.next = @ + 1]
           /\ stale' = (stale \/ f \in loop.removed \ Members(js.listeners[loop.e][loop.t]))
    /\ UNCHANGED <<js, open, alive, to_native, to_js, exists, events_, source, events>>

\* The last listener returns.
EndLoop ==
    /\ loop.on
    /\ loop.next > loop.count \/ loop.next > Len(Iterated(loop))
    /\ loop' = NoLoop
    /\ UNCHANGED <<js, open, alive, to_native, to_js, exists, events_, source,
                   stale, events>>

\* A listener throws, and the dispatch with it.
ListenerThrows ==
    /\ loop.on
    /\ loop' = NoLoop
    /\ UNCHANGED <<js, open, alive, to_native, to_js, exists, events_, source, stale, events>>

\* The closure of makeCallbackListener keeps the object reachable.
NotReachable == FALSE
Reachable == \E i \in Ids : js.callbacks[i] # <<>> /\ js.callbacks[i][1] = Owner

\* The original object is collected.
Collect ==
    /\ Usable(Owner)
    /\ ~loop.on
    /\ ~Reachable
    /\ alive' = FALSE
    /\ to_native' = Append(to_native, [op |-> "collected", type |-> Nothing, id |-> NoId])
    /\ UNCHANGED <<js, loop, open, to_js, exists, events_, source, stale, events>>

-----------------------------------------------------------------------------
(* The native side. *)

Message == Head(to_native)
Handling(op) ==
    /\ to_native # <<>>
    /\ Message.op = op
    /\ to_native' = Tail(to_native)
    /\ UNCHANGED <<js, loop, open, alive, to_js, stale, events>>

OnAddEventListener ==
    /\ Handling("add")
    /\ UNCHANGED exists
    /\ IF exists /\ events_[Message.type] = NoId
       THEN /\ events_' = [events_ EXCEPT ![Message.type] = Message.id]
            /\ source' = source \cup {Message.type}
       ELSE UNCHANGED <<events_, source>>

OnRemoveEventListener ==
    /\ Handling("remove")
    /\ UNCHANGED exists
    /\ IF exists /\ events_[Message.type] # NoId
       THEN /\ events_' = [events_ EXCEPT ![Message.type] = NoId]
            /\ source' = source \ {Message.type}
       ELSE UNCHANGED <<events_, source>>

\* The object is deleted, with its map and without a StopEvent.
Delete ==
    /\ exists' = FALSE
    /\ events_' = [t \in Types |-> NoId]
    /\ UNCHANGED source

\* The store deletes the object of a script object that was collected.
OnJSObjectCollected == Handling("collected") /\ Delete

\* DispatchEvent: the source has something to tell; it may also try when the
\* event is not active, which does nothing.
DispatchEvent(t) ==
    /\ exists
    /\ events < MaxEvents
    /\ events' = events + 1
    /\ to_js' = IF events_[t] = NoId THEN to_js ELSE Append(to_js, events_[t])
    /\ UNCHANGED <<js, loop, open, alive, to_native, exists, events_, source, stale>>

NoTables ==
    [listeners   |-> [e \in Endpoints |-> [t \in Types |-> <<>>]],
     listener_id |-> [e \in Endpoints |-> [t \in Types |-> NoId]],
     handler     |-> [e \in Endpoints |-> [t \in Types |-> Nothing]],
     callbacks   |-> [i \in Ids |-> <<>>],
     next_id     |-> 0,
     sent        |-> <<>>]

\* The page closes: its script and its channels are gone, and the instance is
\* deleted, with its store and every object in it.
OnInstanceDestroyed ==
    /\ open
    /\ open' = FALSE
    /\ js' = NoTables
    /\ loop' = NoLoop
    /\ to_native' = <<>>
    /\ to_js' = <<>>
    /\ Delete
    /\ UNCHANGED <<alive, stale, events>>

-----------------------------------------------------------------------------
Init ==
    /\ js = NoTables
    /\ loop = NoLoop
    /\ open = TRUE
    /\ alive = TRUE
    /\ to_native = <<>>
    /\ to_js = <<>>
    /\ exists = TRUE
    /\ events_ = [t \in Types |-> NoId]
    /\ source = {}
    /\ stale = FALSE
    /\ events = 0

OperateAny ==
    \E e \in Endpoints, t \in Types :
        \/ \E f \in Functions : Add(e, t, f) \/ Remove(e, t, f)
        \/ \E f \in Functions \cup {Nothing} : Set(e, t, f)

Handle == OnAddEventListener \/ OnRemoveEventListener \/ OnJSObjectCollected

Next ==
    \/ OperateAny
    \/ \E e \in Endpoints, t \in Types : DispatchFromScript(e, t)
    \/ DispatchFromExtension
    \/ NextListener
    \/ EndLoop
    \/ ListenerThrows
    \/ Collect
    \/ Handle
    \/ OnInstanceDestroyed
    \/ \E t \in Types : DispatchEvent(t)

Spec == Init /\ [][Next]_vars

\* The native loop takes the messages of an open page; listeners return.
FairSpec == Spec /\ WF_vars(Handle) /\ WF_vars(NextListener \/ EndLoop)
                 /\ WF_vars(DispatchFromExtension)

-----------------------------------------------------------------------------
(* Properties. *)

Subscribed(t) == \E e \in Endpoints : js.listeners[e][t] # <<>>
About(t) == {i \in 1 .. Len(to_native) : to_native[i].type = t}

LoopType ==
    [on : {TRUE}, e : Endpoints, t : Types, next : Nat, count : Nat,
     array : Seq(Functions), live : BOOLEAN, removed : SUBSET Functions]
Messages ==
    [op : {"add"}, type : Types, id : Ids] \cup [op : {"remove"}, type : Types, id : {NoId}]
        \cup [op : {"collected"}, type : {Nothing}, id : {NoId}]

TypeOK ==
    /\ js \in JsType /\ js.sent = <<>>
    /\ loop \in LoopType \cup {NoLoop}
    /\ {open, alive, exists, stale} \subseteq BOOLEAN
    /\ to_native \in Seq(Messages)
    /\ to_js \in Seq(Ids)
    /\ events_ \in [Types -> Ids \cup {NoId}]
    /\ source \subseteq Types
    /\ events \in Nat
    /\ \A e \in Endpoints, t \in Types : \A i, j \in 1 .. Len(js.listeners[e][t]) :
          js.listeners[e][t][i] = js.listeners[e][t][j] => i = j

\* The native object ends up where the script is: its map, with the messages
\* under way applied, has a type exactly when the script has a listener, so an
\* event is started by the first listener and stopped with the last
\* (event_target.h, addEventListener and removeEventListener).
SidesAgree ==
    \A t \in Types :
        Subscribed(t) <=>
            IF About(t) = {} THEN events_[t] # NoId
            ELSE LET last == CHOOSE i \in About(t) : \A j \in About(t) : j \leq i
                 IN  to_native[last].op = "add"

\* The callback table has exactly the callbacks of the subscriptions of the
\* script: none leaks, none is lost, and an event of an older subscription of
\* the same type finds no callback (makeCallbackListener, removeCallback).
CallbacksExact ==
    /\ \A i \in Ids : js.callbacks[i] # <<>> =>
          LET e == js.callbacks[i][1]  t == js.callbacks[i][2]
          IN  js.listener_id[e][t] = i
    /\ \A e \in Endpoints, t \in Types :
          IF js.listeners[e][t] = <<>> THEN js.listener_id[e][t] = NoId
          ELSE js.listener_id[e][t] # NoId /\ js.callbacks[js.listener_id[e][t]] = <<e, t>>

\* A listener that was removed while an event is dispatched is not called any
\* more, although the loop goes on over an array that changes under it.
RemovedIsNotCalled == ~stale

\* A native object that is deleted while its page is open, which happens when
\* its script object was collected, has no source running: the collector waits
\* for the listeners, and the removal is ahead of the collection
\* (BindingObjectStore::OnJSObjectCollected).  A page that closes gives no such
\* promise: ~EventTarget stops nothing, whatever source runs is left running.
CollectedIsQuiet == open /\ ~exists => source = {}

\* The source of an event follows the script in the end, while the page is open
\* (OnAddEventListener, OnRemoveEventListener).
SourceFollows ==
    \A t \in Types :
        /\ Subscribed(t) ~> (t \in source \/ ~Subscribed(t))
        /\ ~Subscribed(t) ~> (t \notin source \/ Subscribed(t) \/ ~open)
=============================================================================
