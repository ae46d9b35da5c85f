--------------------------- MODULE InspectorPageProofs ---------------------------
(***************************************************************************)
(* Proofs about InspectorPage, for every set of scripts and every bound:   *)
(* the types, that a call takes no answer but its own, and that one that   *)
(* waits for a navigation ends with its own and hears of it in time.       *)
(***************************************************************************)
EXTENDS InspectorPage, SequenceTheorems, TLAPS

Inboxes == Seq(Message)
Requests == Seq(Request)
Answers == [type : {"answer"}, id : Nat, of : Calls, frame : Frames \cup {None}]

WsTyped == ws \in [open : BOOLEAN, next : Nat, inbox : Inboxes]
TabTyped == tab \in [modern : BOOLEAN, alive : BOOLEAN, requests : Requests, owed : Inboxes,
                     loading : 0 .. MaxCalls, shown : Nat, subs : Nat, scripts : SUBSET Scripts,
                     ran : SUBSET Scripts]
PageTyped == page \in PageType /\ (page.frames # {} => page.tracking)
CallTyped == call \in CallType /\ (call.step # "idle" => call.of \in Calls /\ call.of = history.calls)
HistoryTyped == history \in HistoryType
Owed == \A i \in DOMAIN tab.owed : tab.owed[i] \in Answers

Types == WsTyped /\ TabTyped /\ PageTyped /\ CallTyped /\ HistoryTyped /\ Owed

(* An answer, or a request, that carries the identifier waited for belongs *)
(* to the call that waits.                                                 *)
Fits(m) == m.id < ws.next /\ (call.step \in Sync /\ m.id = call.id => m.of = call.of)
FitsNext(m) == m.id < ws'.next /\ (call'.step \in Sync /\ m.id = call'.id => m.of = call'.of)
Own ==
    /\ \A i \in DOMAIN ws.inbox : ws.inbox[i].type = "answer" => Fits(ws.inbox[i])
    /\ \A i \in DOMAIN tab.owed : Fits(tab.owed[i])
    /\ \A i \in DOMAIN tab.requests : Fits(tab.requests[i])

IInv == Types /\ Own /\ AnswerIsOwn

-----------------------------------------------------------------------------
(* Records, one field at a time. *)

LEMMA TypesImply == Types => TypeOK
BY DEF Types, TypeOK, WsTyped, TabTyped, PageTyped, CallTyped, HistoryTyped, WsType, TabType,
       Inboxes, Requests

LEMMA InboxSet ==
    ASSUME WsTyped, NEW q \in Inboxes
    PROVE  LET w == [ws EXCEPT !.inbox = q]
           IN  w \in [open : BOOLEAN, next : Nat, inbox : Inboxes]
               /\ w.inbox = q /\ w.next = ws.next /\ w.open = ws.open
BY DEF WsTyped

LEMMA RequestsSet ==
    ASSUME TabTyped, NEW q \in Requests
    PROVE  LET t == [tab EXCEPT !.requests = q]
           IN  t \in [modern : BOOLEAN, alive : BOOLEAN, requests : Requests, owed : Inboxes,
                      loading : 0 .. MaxCalls, shown : Nat, subs : Nat, scripts : SUBSET Scripts,
                      ran : SUBSET Scripts]
               /\ t.requests = q /\ t.owed = tab.owed
BY DEF TabTyped

LEMMA OnlyStepSet ==
    ASSUME call \in CallType, NEW s \in Sync \cup {"idle", "wait"}
    PROVE  LET c == [call EXCEPT !.step = s]
           IN  c \in CallType /\ c.step = s /\ c.id = call.id /\ c.of = call.of
BY DEF CallType, Sync

LEMMA LateSet ==
    ASSUME call \in CallType
    PROVE  LET c == [call EXCEPT !.late = TRUE]
           IN  c \in CallType /\ c.step = call.step /\ c.id = call.id /\ c.of = call.of
BY DEF CallType, Sync

(* What notifications and the navigation do to the page.                   *)
LEMMA PageAfter ==
    ASSUME PageTyped, NEW f \in Frames, NEW u \in 0 .. MaxCalls, page' = OnNotification(page, f, u)
    PROVE  PageTyped'
<1>1. CASE page.tracking /\ page.frameId = f
  BY <1>1 DEF PageTyped, PageType, OnNotification, Over, NotTracking
<1>2. CASE page.tracking /\ page.frameId # f
  BY <1>2 DEF PageTyped, PageType, OnNotification
<1>3. CASE ~page.tracking /\ f = "main" /\ page.url = u
  <2>1. MaxCalls \in Nat /\ 0 \in 0 .. MaxCalls
    BY BoundsAssumption
  <2>2. page' = [page EXCEPT !.url = 0, !.pending = FALSE] /\ page \in PageType
    BY <1>3 DEF PageTyped, OnNotification, Over
  <2> QED BY <1>3, <2>1, <2>2 DEF PageTyped, PageType
<1>4. CASE ~page.tracking /\ ~(f = "main" /\ page.url = u)
  BY <1>4 DEF PageTyped, PageType, OnNotification, Over
<1> QED BY <1>1, <1>2, <1>3, <1>4

LEMMA Tracks ==
    ASSUME PageTyped, NEW p \in PageType
    PROVE  StartsTracking(p) \in PageType /\ StartsTracking(p).tracking /\ StartsTracking(p).frames = {}
BY DEF PageType, StartsTracking

(* The first message of the inbox. *)
LEMMA First ==
    ASSUME WsTyped, ws.inbox # <<>>
    PROVE  /\ Head(ws.inbox) \in Message /\ Head(ws.inbox) = ws.inbox[1] /\ 1 \in DOMAIN ws.inbox
           /\ Tail(ws.inbox) \in Inboxes
           /\ \A i \in DOMAIN Tail(ws.inbox) :
                 i + 1 \in DOMAIN ws.inbox /\ Tail(ws.inbox)[i] = ws.inbox[i + 1]
<1>1. ws.inbox \in Seq(Message)
  BY DEF WsTyped, Inboxes
<1> HIDE DEF WsTyped
<1> DEFINE q == ws.inbox
<1>2. q \in Seq(Message) /\ q # <<>>
  BY <1>1
<1> HIDE DEF q
<1>3. /\ Head(q) \in Message /\ Head(q) = q[1] /\ 1 \in DOMAIN q
      /\ Tail(q) \in Seq(Message)
      /\ \A i \in DOMAIN Tail(q) : i + 1 \in DOMAIN q /\ Tail(q)[i] = q[i + 1]
  BY <1>2
<1> QED BY <1>3 DEF q, Inboxes

LEMMA AnswerType ==
    ASSUME NEW m \in Message, m.type = "answer"
    PROVE  m \in Answers
BY DEF Message, Answers

(* A message is taken from the inbox. *)
LEMMA Taken ==
    ASSUME WsTyped, ws.inbox # <<>>, ws' = Received
    PROVE  /\ WsTyped' /\ ws'.next = ws.next
           /\ \A i \in DOMAIN ws'.inbox : \E j \in DOMAIN ws.inbox : ws'.inbox[i] = ws.inbox[j]
<1> DEFINE q == Tail(ws.inbox)
<1>1. q \in Inboxes /\ ws' = [ws EXCEPT !.inbox = q]
  BY First DEF Received
<1>2. \A i \in DOMAIN q : \E j \in DOMAIN ws.inbox : q[i] = ws.inbox[j]
  BY First
<1> HIDE DEF q
<1> QED BY <1>1, <1>2, InboxSet DEF WsTyped

-----------------------------------------------------------------------------
(* What keeps the invariant. *)

(* No identifier is given out, and nothing new is awaited.                 *)
LEMMA OwnKept ==
    ASSUME Own, ws'.next = ws.next,
           \A i \in DOMAIN ws'.inbox : \E j \in DOMAIN ws.inbox : ws'.inbox[i] = ws.inbox[j],
           UNCHANGED tab,
           call'.step \in Sync => call.step \in Sync /\ call'.id = call.id /\ call'.of = call.of
    PROVE  Own'
BY DEF Own, Fits

(* A request goes out under the next identifier.                           *)
LEMMA OwnSent ==
    ASSUME Types, Own, ws'.next = ws.next + 1,
           \A i \in DOMAIN ws'.inbox : \E j \in DOMAIN ws.inbox : ws'.inbox[i] = ws.inbox[j],
           NEW r \in Request, r.id = ws.next, r.of = call'.of,
           tab'.requests = Append(tab.requests, r), tab'.owed = tab.owed,
           call'.id = ws.next
    PROVE  Own'
<1>1. ws.next \in Nat
  BY DEF Types, WsTyped
<1>2. \A m : m.id \in Nat /\ Fits(m) => FitsNext(m)
  BY <1>1 DEF Fits, FitsNext
<1>3. \A i \in DOMAIN ws'.inbox : ws'.inbox[i].type = "answer" => FitsNext(ws'.inbox[i])
  <2>1. \A j \in DOMAIN ws.inbox : ws.inbox[j] \in Message
    BY DEF Types, WsTyped, Inboxes
  <2>2. \A j \in DOMAIN ws.inbox : ws.inbox[j].type = "answer" => ws.inbox[j].id \in Nat
    BY <2>1, AnswerType DEF Answers
  <2> QED BY <1>2, <2>2 DEF Own
<1>4. \A i \in DOMAIN tab'.owed : FitsNext(tab'.owed[i])
  <2>1. \A i \in DOMAIN tab.owed : tab.owed[i].id \in Nat
    BY DEF Types, Owed, Answers
  <2> QED BY <1>2, <2>1 DEF Own
<1>5. \A i \in DOMAIN tab'.requests : FitsNext(tab'.requests[i])
  <2>1. tab.requests \in Seq(Request)
    BY DEF Types, TabTyped, Requests
  <2>2. \A i \in DOMAIN tab'.requests :
           tab'.requests[i] = r \/ (i \in DOMAIN tab.requests /\ tab'.requests[i] = tab.requests[i])
    BY <2>1
  <2>3. \A i \in DOMAIN tab.requests : tab.requests[i].id \in Nat
    <3>1. \A x \in Request : x.id \in Nat
      BY DEF Request
    <3> QED BY <2>1, <3>1
  <2>4. FitsNext(r)
    BY <1>1 DEF FitsNext
  <2> QED BY <1>2, <2>2, <2>3, <2>4 DEF Own
<1> QED BY <1>3, <1>4, <1>5 DEF Own, Fits, FitsNext

(* The tab moves its answers and requests along.                           *)
LEMMA OwnMoved ==
    ASSUME Own, ws'.next = ws.next, UNCHANGED call,
           \A i \in DOMAIN ws'.inbox : ws'.inbox[i].type = "answer" =>
              \/ \E j \in DOMAIN ws.inbox : ws'.inbox[i] = ws.inbox[j]
              \/ Fits(ws'.inbox[i]),
           \A i \in DOMAIN tab'.owed : Fits(tab'.owed[i]),
           \A i \in DOMAIN tab'.requests : \E j \in DOMAIN tab.requests :
              tab'.requests[i] = tab.requests[j]
    PROVE  Own'
BY DEF Own, Fits

LEMMA EndedOwn ==
    ASSUME CallTyped, NEW outcome, NEW taken, End(outcome, taken), taken = 0 \/ taken = call.of
    PROVE  /\ AnswerIsOwn' /\ call' \in CallType /\ call'.step = "idle"
<1>1. result'.taken = taken /\ result'.of = call.of
  BY DEF End
<1>2. call' = [call EXCEPT !.step = "idle"]
  BY DEF End
<1> QED BY <1>1, <1>2, OnlyStepSet DEF AnswerIsOwn, CallTyped

LEMMA SameResult ==
    ASSUME AnswerIsOwn, UNCHANGED result
    PROVE  AnswerIsOwn'
BY DEF AnswerIsOwn

-----------------------------------------------------------------------------
(* The calls of the client. *)

LEMMA InitInv == Init => IInv
<1> SUFFICES ASSUME Init PROVE IInv
  OBVIOUS
<1>1. WsTyped /\ Owed /\ Own /\ AnswerIsOwn
  BY DEF Init, WsTyped, Inboxes, Owed, Own, AnswerIsOwn
<1>2. TabTyped
  BY BoundsAssumption DEF Init, TabTyped, Inboxes, Requests
<1>3. PageTyped
  BY BoundsAssumption DEF Init, PageTyped, PageType
<1>4. CallTyped
  BY BoundsAssumption DEF Init, CallTyped, CallType, Kinds
<1>5. HistoryTyped
  BY BoundsAssumption DEF Init, HistoryTyped, HistoryType
<1> QED BY <1>1, <1>2, <1>3, <1>4, <1>5 DEF IInv, Types

LEMMA Entered ==
    ASSUME Types, NEW kind \in Kinds, NEW step \in Sync \cup {"wait"},
           NEW script \in Scripts \cup {None}, Enter(kind, step, script)
    PROVE  /\ HistoryTyped' /\ CallTyped' /\ call'.step = step /\ call'.id = ws.next
           /\ call'.of \in Calls /\ UNCHANGED result
<1> DEFINE n == history.calls + 1
           a == Alone
<1>1. n \in Calls /\ n \in 0 .. MaxCalls /\ ws.next \in Nat /\ history.seen \subseteq Calls
  BY BoundsAssumption DEF Types, WsTyped, HistoryTyped, HistoryType, Enter, Calls
<1>2. a \in BOOLEAN
  BY DEF Alone
<1>3. /\ history' = [history EXCEPT !.calls = n] /\ UNCHANGED result
      /\ call' = [kind |-> kind, of |-> n, step |-> step, id |-> ws.next, late |-> FALSE,
                  script |-> script, alone |-> a, before |-> history.seen]
  BY DEF Types, HistoryTyped, HistoryType, Enter
<1> HIDE DEF n, a
<1>4. HistoryTyped' /\ history'.calls = n
  BY <1>1, <1>3 DEF Types, HistoryTyped, HistoryType
<1>5. call' \in CallType
  BY <1>1, <1>2, <1>3 DEF CallType, Sync
<1> QED BY <1>1, <1>3, <1>4, <1>5 DEF CallTyped

LEMMA Sent ==
    ASSUME Types, Own, NEW method \in Sync \cup {"click"}, NEW script \in Scripts \cup {None},
           Send(method, script), method = "add" => script # None,
           call'.of \in Calls, call'.id = ws.next
    PROVE  WsTyped' /\ TabTyped' /\ Owed' /\ Own'
<1> DEFINE r == [id |-> ws.next, of |-> call'.of, method |-> method, script |-> script]
           q == Append(tab.requests, r)
           n == ws.next + 1
<1>1. r \in Request /\ n \in Nat /\ r.id = ws.next /\ r.of = call'.of
  BY DEF Types, WsTyped, Request
<1>2. ws' = [ws EXCEPT !.next = n] /\ tab' = [tab EXCEPT !.requests = q]
  BY DEF Send, Types, WsTyped, TabTyped
<1>3. q \in Requests
  <2>1. tab.requests \in Seq(Request)
    BY DEF Types, TabTyped, Requests
  <2> HIDE DEF r
  <2> QED BY <1>1, <2>1 DEF Requests
<1> HIDE DEF r, n
<1>4. WsTyped' /\ ws'.next = n /\ ws'.inbox = ws.inbox
  BY <1>1, <1>2 DEF Types, WsTyped
<1>5. TabTyped' /\ tab'.requests = q /\ tab'.owed = tab.owed
  <2> HIDE DEF q
  <2> QED BY <1>2, <1>3, RequestsSet DEF Types, TabTyped
<1>6. Own'
  BY <1>1, <1>4, <1>5, OwnSent DEF n
<1> QED BY <1>4, <1>5, <1>6 DEF Types, Owed

LEMMA NavigateInv ==
    ASSUME IInv, NEW script \in Scripts \cup {None}, Navigate(script)
    PROVE  IInv'
<1> DEFINE step == FirstStep(script)
           sent == IF step = "remove" THEN page.script ELSE script
<1>1. /\ step \in Sync /\ "navigate" \in Kinds /\ sent \in Scripts \cup {None}
      /\ step = "add" => sent # None
  BY DEF FirstStep, Sync, Kinds, IInv, Types, PageTyped, PageType
<1>2. /\ Enter("navigate", step, script) /\ Send(step, sent)
      /\ page' = IF step = "go" THEN StartsTracking(page) ELSE page
  BY DEF Navigate
<1> HIDE DEF step, sent
<1>3. /\ HistoryTyped' /\ CallTyped' /\ call'.of \in Calls /\ call'.id = ws.next /\ UNCHANGED result
  BY <1>1, <1>2, Entered DEF IInv
<1>4. WsTyped' /\ TabTyped' /\ Owed' /\ Own'
  BY <1>1, <1>2, <1>3, Sent DEF IInv
<1>5. PageTyped'
  BY <1>2, Tracks DEF IInv, Types, PageTyped
<1> QED BY <1>3, <1>4, <1>5, SameResult DEF IInv, Types

LEMMA EvaluateInv ==
    ASSUME IInv, NEW kind \in {"evaluate", "click"}, Evaluate(kind)
    PROVE  IInv'
<1>1. kind \in Kinds /\ "evaluate" \in Sync /\ kind \in Sync \cup {"click"} /\ kind # "add"
  BY DEF Kinds, Sync
<1>2. Enter(kind, "evaluate", None) /\ Send(kind, None) /\ UNCHANGED page
  BY DEF Evaluate
<1>3. HistoryTyped' /\ CallTyped' /\ call'.of \in Calls /\ call'.id = ws.next /\ UNCHANGED result
  BY <1>1, <1>2, Entered DEF IInv
<1>4. WsTyped' /\ TabTyped' /\ Owed' /\ Own'
  BY <1>1, <1>2, <1>3, Sent DEF IInv
<1> QED BY <1>2, <1>3, <1>4, SameResult DEF IInv, Types, PageTyped

LEMMA WaitInv ==
    ASSUME IInv, WaitForNavigate
    PROVE  IInv'
<1>1. Enter("wait", "wait", None) /\ page' = [page EXCEPT !.pending = TRUE] /\ UNCHANGED <<ws, tab>>
  BY DEF WaitForNavigate
<1>2. "wait" \in Kinds /\ "wait" \in Sync \cup {"wait"}
  BY DEF Kinds
<1>3. HistoryTyped' /\ CallTyped' /\ call'.step = "wait" /\ UNCHANGED result
  BY <1>1, <1>2, Entered DEF IInv
<1>4. PageTyped'
  BY <1>1 DEF IInv, Types, PageTyped, PageType
<1>5. Own'
  BY <1>1, <1>3, OwnKept DEF IInv, Sync
<1> QED BY <1>1, <1>3, <1>4, <1>5, SameResult DEF IInv, Types, WsTyped, TabTyped, Owed

-----------------------------------------------------------------------------
(* What arrives while a call waits. *)

LEMMA ArrivedFirst ==
    ASSUME IInv, NEW type, Arrived(type)
    PROVE  /\ ws.inbox # <<>> /\ Head(ws.inbox) \in Message /\ Head(ws.inbox).type = type
           /\ call.step # "idle" /\ call.of \in Calls
           /\ type = "answer" => Head(ws.inbox) \in Answers /\ Fits(Head(ws.inbox))
<1>1. ws.inbox # <<>> /\ Head(ws.inbox).type = type /\ call.step # "idle"
  BY DEF Arrived, Waiting
<1>2. Head(ws.inbox) \in Message /\ Head(ws.inbox) = ws.inbox[1] /\ 1 \in DOMAIN ws.inbox
  BY <1>1, First DEF IInv, Types
<1>3. type = "answer" => Head(ws.inbox) \in Answers /\ Fits(Head(ws.inbox))
  BY <1>1, <1>2, AnswerType DEF IInv, Own
<1> QED BY <1>1, <1>2, <1>3 DEF IInv, Types, CallTyped

LEMMA Looped ==
    ASSUME IInv, NEW after, Loop(after), history'.calls = history.calls
    PROVE  /\ CallTyped' /\ AnswerIsOwn'
           /\ call'.step \in Sync => call.step \in Sync /\ call'.id = call.id /\ call'.of = call.of
<1>1. CASE UNCHANGED <<call, result>>
  BY <1>1, SameResult DEF IInv, Types, CallTyped
<1>2. CASE \E outcome : End(outcome, 0)
  <2>1. AnswerIsOwn' /\ call' \in CallType /\ call'.step = "idle"
    BY <1>2, EndedOwn DEF IInv, Types
  <2> QED BY <2>1 DEF CallTyped, Sync
<1> QED BY <1>1, <1>2 DEF Loop, NotYet

LEMMA NavigatedInv ==
    ASSUME IInv, ReceiveNavigated
    PROVE  IInv'
<1> DEFINE m == Head(ws.inbox)
           seen == IF m.frame = "main" THEN history.seen \cup {m.of} ELSE history.seen
<1>1. /\ Arrived("navigated") /\ page' = OnNotification(page, m.frame, m.of)
      /\ history' = [history EXCEPT !.seen = seen] /\ Loop(page') /\ ws' = Received /\ UNCHANGED tab
  BY DEF ReceiveNavigated, IInv, Types, HistoryTyped, HistoryType
<1>2. ws.inbox # <<>> /\ m \in Message /\ m.type = "navigated"
  BY <1>1, ArrivedFirst
<1>3. m.frame \in Frames /\ m.of \in 0 .. MaxCalls /\ (m.frame = "main" => m.of \in Calls)
  BY <1>2, BoundsAssumption DEF Message, Frames, Calls
<1>4. seen \subseteq Calls
  BY <1>3 DEF IInv, Types, HistoryTyped, HistoryType
<1> HIDE DEF m, seen
<1>5. HistoryTyped' /\ history'.calls = history.calls
  BY <1>1, <1>4 DEF IInv, Types, HistoryTyped, HistoryType
<1>6. PageTyped'
  BY <1>1, <1>3, PageAfter DEF IInv, Types
<1>7. /\ CallTyped' /\ AnswerIsOwn'
      /\ call'.step \in Sync => call.step \in Sync /\ call'.id = call.id /\ call'.of = call.of
  BY <1>1, <1>5, Looped
<1>8. WsTyped' /\ Own'
  BY <1>1, <1>2, <1>7, Taken, OwnKept DEF IInv, Types
<1> QED BY <1>1, <1>5, <1>6, <1>7, <1>8 DEF IInv, Types, TabTyped, Owed

LEMMA OtherInv ==
    ASSUME IInv, ReceiveOther
    PROVE  IInv'
<1>1. Arrived("answer") /\ Loop(page) /\ ws' = Received /\ UNCHANGED <<history, page, tab>>
  BY DEF ReceiveOther
<1>2. ws.inbox # <<>>
  BY <1>1, ArrivedFirst
<1>3. /\ CallTyped' /\ AnswerIsOwn'
      /\ call'.step \in Sync => call.step \in Sync /\ call'.id = call.id /\ call'.of = call.of
  BY <1>1, Looped
<1>4. WsTyped' /\ Own'
  BY <1>1, <1>2, <1>3, Taken, OwnKept DEF IInv, Types
<1> QED BY <1>1, <1>3, <1>4 DEF IInv, Types, TabTyped, Owed, PageTyped, HistoryTyped

(* The call raises. *)
LEMMA Raised ==
    ASSUME IInv, NEW outcome, End(outcome, 0), UNCHANGED <<page, tab>>, HistoryTyped',
           WsTyped', ws'.next = ws.next,
           \A i \in DOMAIN ws'.inbox : \E j \in DOMAIN ws.inbox : ws'.inbox[i] = ws.inbox[j]
    PROVE  IInv'
<1>1. AnswerIsOwn' /\ call' \in CallType /\ call'.step = "idle"
  BY EndedOwn DEF IInv, Types
<1>2. CallTyped' /\ Own'
  BY <1>1, OwnKept DEF IInv, CallTyped, Sync
<1> QED BY <1>1, <1>2 DEF IInv, Types, TabTyped, Owed, PageTyped

LEMMA CrashedInv ==
    ASSUME IInv, ReceiveCrashed
    PROVE  IInv'
<1>1. /\ Arrived("crashed") /\ history' = [history EXCEPT !.failed = TRUE]
      /\ End("crashed", 0) /\ ws' = [Received EXCEPT !.open = FALSE] /\ UNCHANGED <<page, tab>>
  BY DEF ReceiveCrashed
<1>2. HistoryTyped'
  BY <1>1 DEF IInv, Types, HistoryTyped, HistoryType
<1> DEFINE q == Tail(ws.inbox)
<1>3. q \in Inboxes /\ \A i \in DOMAIN q : \E j \in DOMAIN ws.inbox : q[i] = ws.inbox[j]
  BY <1>1, ArrivedFirst, First DEF IInv, Types
<1>4. ws' = [ws EXCEPT !.inbox = q, !.open = FALSE]
  BY <1>1 DEF Received, IInv, Types, WsTyped
<1> HIDE DEF q
<1>5. WsTyped' /\ ws'.next = ws.next /\ ws'.inbox = q
  BY <1>3, <1>4 DEF IInv, Types, WsTyped
<1> QED BY <1>1, <1>2, <1>3, <1>5, Raised

LEMMA TimeoutInv ==
    ASSUME IInv, Timeout
    PROVE  IInv'
<1> DEFINE n == history.timeouts + 1
           open == ~call.late
<1>1. /\ history' = [history EXCEPT !.timeouts = n, !.failed = TRUE]
      /\ \E outcome : End(outcome, 0)
      /\ ws' = [ws EXCEPT !.open = open] /\ UNCHANGED <<page, tab>>
  BY DEF Timeout, IInv, Types, HistoryTyped, HistoryType
<1>2. n \in Nat /\ open \in BOOLEAN
  BY DEF IInv, Types, HistoryTyped, HistoryType
<1> HIDE DEF n, open
<1>3. HistoryTyped'
  BY <1>1, <1>2 DEF IInv, Types, HistoryTyped, HistoryType
<1>4. WsTyped' /\ ws'.next = ws.next /\ ws'.inbox = ws.inbox
  BY <1>1, <1>2 DEF IInv, Types, WsTyped
<1> QED BY <1>1, <1>3, <1>4, Raised

LEMMA TimeIsUpInv ==
    ASSUME IInv, TimeIsUp
    PROVE  IInv'
<1> DEFINE n == history.timeouts + 1
<1>1. /\ history' = [history EXCEPT !.timeouts = n, !.failed = TRUE]
      /\ call' = [call EXCEPT !.late = TRUE] /\ UNCHANGED <<ws, page, tab, result>>
  BY DEF TimeIsUp, IInv, Types, HistoryTyped, HistoryType
<1>2. n \in Nat
  BY DEF IInv, Types, HistoryTyped, HistoryType
<1> HIDE DEF n
<1>3. HistoryTyped' /\ history'.calls = history.calls
  BY <1>1, <1>2 DEF IInv, Types, HistoryTyped, HistoryType
<1>4. call' \in CallType /\ call'.step = call.step /\ call'.id = call.id /\ call'.of = call.of
  BY <1>1, LateSet DEF IInv, Types, CallTyped
<1>5. CallTyped' /\ Own'
  BY <1>1, <1>3, <1>4, OwnKept DEF IInv, Types, CallTyped
<1> QED BY <1>1, <1>3, <1>5, SameResult DEF IInv, Types, WsTyped, TabTyped, Owed, PageTyped

(* The answer that was awaited, and what goes out next.                    *)
LEMMA AnsweredOwn ==
    ASSUME IInv, NEW step \in Sync, Answered(step)
    PROVE  /\ ws.inbox # <<>> /\ Head(ws.inbox) \in Answers /\ Head(ws.inbox).of = call.of
           /\ call.of \in Calls /\ UNCHANGED history
<1>1. Arrived("answer") /\ call.step = step /\ Head(ws.inbox).id = call.id /\ UNCHANGED history
  BY DEF Answered, Matches
<1>2. Head(ws.inbox) \in Answers /\ Fits(Head(ws.inbox)) /\ ws.inbox # <<>> /\ call.of \in Calls
  BY <1>1, ArrivedFirst
<1> QED BY <1>1, <1>2 DEF Fits

LEMMA Proceeded ==
    ASSUME IInv, NEW step \in Sync, NEW script \in Scripts \cup {None}, Proceed(step, script),
           step = "add" => script # None,
           call.of \in Calls, call.step # "idle", ws.inbox # <<>>, UNCHANGED history
    PROVE  WsTyped' /\ TabTyped' /\ CallTyped' /\ Owed' /\ Own' /\ AnswerIsOwn'
<1> DEFINE r == [id |-> ws.next, of |-> call.of, method |-> step, script |-> script]
           q == Append(tab.requests, r)
           n == ws.next + 1
           rest == Tail(ws.inbox)
<1>1. r \in Request /\ n \in Nat /\ r.id = ws.next /\ r.of = call.of /\ ws.next \in Nat
  BY DEF IInv, Types, WsTyped, Request
<1>2. /\ ws' = [ws EXCEPT !.inbox = rest, !.next = n] /\ tab' = [tab EXCEPT !.requests = q]
      /\ call' = [call EXCEPT !.step = step, !.id = ws.next] /\ UNCHANGED result
  BY DEF Proceed, Received, IInv, Types, WsTyped, TabTyped
<1>3. rest \in Inboxes /\ \A i \in DOMAIN rest : \E j \in DOMAIN ws.inbox : rest[i] = ws.inbox[j]
  BY First DEF IInv, Types
<1>4. q \in Requests
  <2>1. tab.requests \in Seq(Request)
    BY DEF IInv, Types, TabTyped, Requests
  <2> HIDE DEF r
  <2> QED BY <1>1, <2>1 DEF Requests
<1> HIDE DEF r, n, rest
<1>5. WsTyped' /\ ws'.next = n /\ ws'.inbox = rest
  BY <1>1, <1>2, <1>3 DEF IInv, Types, WsTyped
<1>6. TabTyped' /\ tab'.requests = q /\ tab'.owed = tab.owed
  <2> HIDE DEF q
  <2> QED BY <1>2, <1>4, RequestsSet DEF IInv, Types, TabTyped
<1>7. call' \in CallType /\ call'.id = ws.next /\ call'.of = call.of
  BY <1>1, <1>2 DEF IInv, Types, CallTyped, CallType
<1>8. CallTyped'
  BY <1>7 DEF IInv, Types, CallTyped
<1>9. Own'
  BY <1>1, <1>3, <1>5, <1>6, <1>7, OwnSent DEF n, IInv
<1> QED BY <1>2, <1>5, <1>6, <1>8, <1>9, SameResult DEF IInv, Types, Owed

LEMMA ScriptInv ==
    ASSUME IInv, ScriptRemoved \/ ScriptAdded
    PROVE  IInv'
<1>1. /\ call.step \in Sync /\ call.step # "idle"
      /\ ws.inbox # <<>> /\ call.of \in Calls /\ UNCHANGED history
  BY AnsweredOwn DEF ScriptRemoved, ScriptAdded, Answered, Sync
<1>2. \E step \in Sync, script \in Scripts \cup {None} :
         Proceed(step, script) /\ (step = "add" => script # None)
  BY DEF ScriptRemoved, ScriptAdded, Sync, IInv, Types, CallTyped, CallType
<1>3. WsTyped' /\ TabTyped' /\ CallTyped' /\ Owed' /\ Own' /\ AnswerIsOwn'
  BY <1>1, <1>2, Proceeded
<1>4. PageTyped'
  <2>1. /\ call.script \in Scripts \cup {None} /\ page \in PageType
        /\ None \in Scripts \cup {None}
    BY DEF IInv, Types, CallTyped, CallType, PageTyped
  <2>2. \A x \in Scripts \cup {None} : [page EXCEPT !.script = x] \in PageType
    BY <2>1 DEF PageType
  <2>3. CASE page' = [page EXCEPT !.script = None]
    BY <2>2, <2>3 DEF IInv, Types, PageTyped, PageType
  <2>4. CASE \E x \in Scripts \cup {None} : page' = StartsTracking([page EXCEPT !.script = x])
    BY <2>2, <2>4, Tracks DEF IInv, Types, PageTyped
  <2> QED BY <2>1, <2>3, <2>4 DEF ScriptRemoved, ScriptAdded
<1> QED BY <1>1, <1>3, <1>4 DEF IInv, Types, HistoryTyped

LEMMA EvaluateAnsweredInv ==
    ASSUME IInv, EvaluateAnswered
    PROVE  IInv'
<1>1. /\ Answered("evaluate") /\ End("ok", Head(ws.inbox).of) /\ ws' = Received
      /\ UNCHANGED <<page, tab>>
  BY DEF EvaluateAnswered
<1>2. ws.inbox # <<>> /\ Head(ws.inbox).of = call.of /\ UNCHANGED history
  BY <1>1, AnsweredOwn DEF Sync
<1>3. AnswerIsOwn' /\ call' \in CallType /\ call'.step = "idle"
  BY <1>1, <1>2, EndedOwn DEF IInv, Types
<1>4. CallTyped'
  BY <1>3 DEF CallTyped
<1>5. WsTyped' /\ Own'
  BY <1>1, <1>2, <1>3, Taken, OwnKept DEF IInv, Types, Sync
<1> QED BY <1>1, <1>2, <1>3, <1>4, <1>5 DEF IInv, Types, TabTyped, Owed, PageTyped, HistoryTyped

LEMMA NavigateAnsweredInv ==
    ASSUME IInv, NavigateAnswered
    PROVE  IInv'
<1> DEFINE frame == Head(ws.inbox).frame
<1>1. Answered("go") /\ ws' = Received /\ UNCHANGED tab
  BY DEF NavigateAnswered
<1>2. /\ ws.inbox # <<>> /\ Head(ws.inbox).of = call.of /\ UNCHANGED history
      /\ frame \in Frames \cup {None} /\ call.of \in Calls
  BY <1>1, AnsweredOwn DEF Sync, Answers
<1>3. /\ WsTyped' /\ ws'.next = ws.next
      /\ \A i \in DOMAIN ws'.inbox : \E j \in DOMAIN ws.inbox : ws'.inbox[i] = ws.inbox[j]
  BY <1>1, <1>2, Taken DEF IInv, Types
<1>4. CASE frame # None /\ AlreadyOver(frame)
  <2>1. page' = NotTracking(page) /\ End("ok", Head(ws.inbox).of)
    BY <1>4 DEF NavigateAnswered
  <2>2. AnswerIsOwn' /\ call' \in CallType /\ call'.step = "idle"
    BY <1>2, <2>1, EndedOwn DEF IInv, Types
  <2>3. PageTyped'
    BY <2>1 DEF IInv, Types, PageTyped, PageType, NotTracking
  <2>4. CallTyped' /\ Own'
    BY <1>1, <1>3, <2>2, OwnKept DEF IInv, CallTyped, Sync
  <2> QED BY <1>1, <1>2, <1>3, <2>2, <2>3, <2>4 DEF IInv, Types, TabTyped, Owed, HistoryTyped
<1>5. CASE ~(frame # None /\ AlreadyOver(frame))
  <2>1. /\ call' = [call EXCEPT !.step = "wait"] /\ UNCHANGED result
        /\ page' = IF frame # None
                   THEN [page EXCEPT !.frameId = frame, !.pending = TRUE]
                   ELSE [NotTracking(page) EXCEPT !.url = call.of, !.pending = TRUE]
    BY <1>5 DEF NavigateAnswered
  <2>2. call' \in CallType /\ call'.step = "wait" /\ call'.of = call.of
    BY <2>1, OnlyStepSet DEF IInv, Types, CallTyped
  <2> HIDE DEF frame
  <2>3. PageTyped'
    <3>1. page \in PageType /\ call.of \in 0 .. MaxCalls
      BY <1>2 DEF IInv, Types, PageTyped, Calls
    <3>2. CASE frame # None
      BY <1>2, <2>1, <3>1, <3>2 DEF IInv, Types, PageTyped, PageType
    <3>3. CASE frame = None
      <4>1. page' = [page EXCEPT !.tracking = FALSE, !.frames = {}, !.url = call.of, !.pending = TRUE]
        BY <2>1, <3>3 DEF NotTracking
      <4> QED BY <3>1, <4>1 DEF PageTyped, PageType
    <3> QED BY <3>2, <3>3
  <2>4. CallTyped' /\ Own'
    <3>1. call.of = history.calls
      BY <1>1 DEF IInv, Types, CallTyped, Answered, Arrived, Waiting
    <3> QED BY <1>1, <1>2, <1>3, <2>2, <3>1, OwnKept DEF IInv, CallTyped, Sync
  <2> QED BY <1>1, <1>2, <1>3, <2>1, <2>3, <2>4, SameResult
          DEF IInv, Types, TabTyped, Owed, HistoryTyped
<1> QED BY <1>4, <1>5

-----------------------------------------------------------------------------
(* The tab. *)

(* The first request, and what is left when it is taken.                   *)
LEMMA FirstRequest ==
    ASSUME TabTyped, tab.requests # <<>>
    PROVE  /\ Head(tab.requests) \in Request /\ Tail(tab.requests) \in Requests
           /\ 1 \in DOMAIN tab.requests /\ Head(tab.requests) = tab.requests[1]
           /\ \A i \in DOMAIN Tail(tab.requests) :
                 \E j \in DOMAIN tab.requests : Tail(tab.requests)[i] = tab.requests[j]
<1> DEFINE q == tab.requests
<1>1. q \in Seq(Request) /\ q # <<>>
  BY DEF TabTyped, Requests
<1> HIDE DEF q
<1>2. /\ Head(q) \in Request /\ Head(q) = q[1] /\ 1 \in DOMAIN q /\ Tail(q) \in Seq(Request)
      /\ \A i \in DOMAIN Tail(q) : i + 1 \in DOMAIN q /\ Tail(q)[i] = q[i + 1]
  BY <1>1
<1>3. \A i \in DOMAIN Tail(q) : \E j \in DOMAIN q : Tail(q)[i] = q[j]
  BY <1>2
<1> QED BY <1>2, <1>3 DEF q, Requests

(* A message the tab pushes. *)
LEMMA Pushed ==
    ASSUME WsTyped, NEW m \in Message, Push(m)
    PROVE  /\ WsTyped' /\ ws'.next = ws.next
           /\ \A i \in DOMAIN ws'.inbox :
                 ws'.inbox[i] = m \/ \E j \in DOMAIN ws.inbox : ws'.inbox[i] = ws.inbox[j]
<1> DEFINE q == Append(ws.inbox, m)
           old == ws.inbox
<1>1. old \in Seq(Message)
  BY DEF WsTyped, Inboxes
<1> HIDE DEF old
<1>2. /\ Append(old, m) \in Seq(Message)
      /\ \A i \in DOMAIN Append(old, m) :
            Append(old, m)[i] = m \/ (i \in DOMAIN old /\ Append(old, m)[i] = old[i])
  BY <1>1
<1>3. /\ q \in Inboxes
      /\ \A i \in DOMAIN q : q[i] = m \/ \E j \in DOMAIN ws.inbox : q[i] = ws.inbox[j]
  BY <1>2 DEF old, Inboxes
<1>4. ws' = [ws EXCEPT !.inbox = q]
  BY DEF Push, WsTyped
<1> HIDE DEF q
<1> QED BY <1>3, <1>4, InboxSet DEF WsTyped

(* The rest of the state stays.                                            *)
LEMMA ByTabInv ==
    ASSUME IInv, UNCHANGED <<page, call, result, history>>, WsTyped', TabTyped', Owed', Own'
    PROVE  IInv'
BY SameResult DEF IInv, Types, PageTyped, CallTyped, HistoryTyped

LEMMA AnswerMade ==
    ASSUME NEW r \in Request, NEW frame \in Frames \cup {None}
    PROVE  LET a == AnswerTo(r, frame)
           IN  a \in Answers /\ a \in Message /\ a.id = r.id /\ a.of = r.of
BY DEF AnswerTo, Answers, Message, Request

LEMMA TabAnswersInv ==
    ASSUME IInv, TabAnswers
    PROVE  IInv'
<1> DEFINE r == Head(tab.requests)
           q == Tail(tab.requests)
<1>1. tab.requests # <<>> /\ tab.owed = <<>> /\ UNCHANGED <<page, call, result, history>>
  BY DEF TabAnswers, ByTab
<1>2. /\ r \in Request /\ q \in Requests /\ Fits(r)
      /\ \A i \in DOMAIN q : \E j \in DOMAIN tab.requests : q[i] = tab.requests[j]
  BY <1>1, FirstRequest DEF IInv, Types, Own
<1>3. /\ r.of \in Calls /\ r.of \in 0 .. MaxCalls /\ r.script \in Scripts \cup {None}
      /\ r.method \in Sync \cup {"click"}
  BY <1>2, BoundsAssumption DEF Request, Calls
<1>4. PICK sender \in Frames \cup {None} :
         \/ /\ Push(AnswerTo(r, sender))
            /\ \/ \E l \in 0 .. MaxCalls :
                     tab' = [tab EXCEPT !.requests = q, !.scripts = TabScripts(r), !.loading = l]
               \/ tab' = [tab EXCEPT !.requests = q, !.loading = r.of]
         \/ /\ tab' = [tab EXCEPT !.requests = q, !.loading = r.of, !.owed = <<AnswerTo(r, sender)>>]
            /\ UNCHANGED ws
  <2>1. CASE /\ r.method # "go" /\ Push(AnswerTo(r, None))
             /\ tab' = [tab EXCEPT !.requests = q, !.scripts = TabScripts(r),
                                  !.loading = IF r.method = "click" THEN r.of ELSE @]
    <3> DEFINE l == IF r.method = "click" THEN r.of ELSE tab.loading
    <3>1. l \in 0 .. MaxCalls
      BY <1>3 DEF IInv, Types, TabTyped
    <3>2. tab' = [tab EXCEPT !.requests = q, !.scripts = TabScripts(r), !.loading = l]
      BY <2>1 DEF IInv, Types, TabTyped
    <3> HIDE DEF l, q, r
    <3> QED BY <2>1, <3>1, <3>2
  <2>2. CASE /\ r.method = "go" /\ Push(AnswerTo(r, IF tab.modern THEN "main" ELSE None))
             /\ tab' = [tab EXCEPT !.requests = q, !.loading = r.of]
    <3> DEFINE frame == IF tab.modern THEN "main" ELSE None
    <3>1. frame \in Frames \cup {None}
      BY DEF Frames
    <3> HIDE DEF frame, q, r
    <3>2. Push(AnswerTo(r, frame))
      BY <2>2 DEF frame
    <3> QED BY <2>2, <3>1, <3>2
  <2>3. CASE /\ tab' = [tab EXCEPT !.requests = q, !.loading = r.of, !.owed = <<AnswerTo(r, "main")>>]
             /\ UNCHANGED ws
    <3>1. "main" \in Frames \cup {None}
      BY DEF Frames
    <3> HIDE DEF q, r
    <3> QED BY <2>3, <3>1
  <2> QED BY <2>1, <2>2, <2>3 DEF TabAnswers
<1> DEFINE a == AnswerTo(r, sender)
<1>5. a \in Answers /\ a \in Message /\ a.id = r.id /\ a.of = r.of
  BY <1>2, AnswerMade
<1>6. Fits(a)
  BY <1>2, <1>5 DEF Fits
<1>7. TabScripts(r) \subseteq Scripts
  <2>1. r.method = "add" => r.script \in Scripts
    BY <1>2 DEF Request
  <2> QED BY <1>3, <2>1 DEF TabScripts, IInv, Types, TabTyped
<1> HIDE DEF a, r, q
<1>8. TabTyped' /\ tab'.requests = q /\ (tab'.owed = tab.owed \/ tab'.owed = <<a>>)
  <2> DEFINE s == TabScripts(r)
             o == <<a>>
  <2>1. s \subseteq Scripts /\ o \in Inboxes
    BY <1>5, <1>7 DEF Inboxes
  <2> HIDE DEF s, o
  <2>2. \/ \E l \in 0 .. MaxCalls :
              tab' = [tab EXCEPT !.requests = q, !.scripts = s, !.loading = l]
        \/ tab' = [tab EXCEPT !.requests = q, !.loading = r.of]
        \/ tab' = [tab EXCEPT !.requests = q, !.loading = r.of, !.owed = o]
    BY <1>4 DEF s, o, a
  <2>3. tab \in [modern : BOOLEAN, alive : BOOLEAN, requests : Requests, owed : Inboxes,
                  loading : 0 .. MaxCalls, shown : Nat, subs : Nat, scripts : SUBSET Scripts,
                  ran : SUBSET Scripts]
    BY DEF IInv, Types, TabTyped
  <2>4. CASE \E l \in 0 .. MaxCalls :
               tab' = [tab EXCEPT !.requests = q, !.scripts = s, !.loading = l]
    BY <1>2, <2>1, <2>3, <2>4 DEF TabTyped
  <2>5. CASE tab' = [tab EXCEPT !.requests = q, !.loading = r.of]
    BY <1>2, <1>3, <2>3, <2>5 DEF TabTyped
  <2>6. CASE tab' = [tab EXCEPT !.requests = q, !.loading = r.of, !.owed = o]
    <3>1. TabTyped' /\ tab'.requests = q /\ tab'.owed = o
      BY <1>2, <1>3, <2>1, <2>3, <2>6 DEF TabTyped
    <3> QED BY <3>1 DEF o
  <2> QED BY <2>2, <2>4, <2>5, <2>6
<1>9. Owed' /\ \A i \in DOMAIN tab'.owed : Fits(tab'.owed[i])
  BY <1>1, <1>5, <1>6, <1>8 DEF Owed
<1>10. /\ WsTyped' /\ ws'.next = ws.next
       /\ \A i \in DOMAIN ws'.inbox :
             ws'.inbox[i] = a \/ \E j \in DOMAIN ws.inbox : ws'.inbox[i] = ws.inbox[j]
  BY <1>4, <1>5, Pushed DEF IInv, Types, WsTyped, a
<1>11. Own'
  BY <1>1, <1>2, <1>6, <1>8, <1>9, <1>10, OwnMoved DEF IInv
<1> QED BY <1>1, <1>8, <1>9, <1>10, <1>11, ByTabInv

LEMMA AnswersLateInv ==
    ASSUME IInv, TabAnswersLate
    PROVE  IInv'
<1> DEFINE a == Head(tab.owed)
<1>1. /\ tab.owed # <<>> /\ Push(a) /\ tab' = [tab EXCEPT !.owed = <<>>]
      /\ UNCHANGED <<page, call, result, history>>
  BY DEF TabAnswersLate, ByTab
<1>2. a \in Answers /\ Fits(a)
  <2>1. tab.owed \in Seq(Message)
    BY DEF IInv, Types, TabTyped, Inboxes
  <2>2. a = tab.owed[1] /\ 1 \in DOMAIN tab.owed
    BY <1>1, <2>1
  <2> QED BY <2>2 DEF IInv, Types, Owed, Own
<1>3. a \in Message
  BY <1>2 DEF Answers, Message
<1> HIDE DEF a
<1>4. /\ WsTyped' /\ ws'.next = ws.next
      /\ \A i \in DOMAIN ws'.inbox :
            ws'.inbox[i] = a \/ \E j \in DOMAIN ws.inbox : ws'.inbox[i] = ws.inbox[j]
  BY <1>1, <1>3, Pushed DEF IInv, Types
<1>5. TabTyped' /\ tab'.owed = <<>> /\ tab'.requests = tab.requests
  <2> DEFINE o == <<>>
  <2>1. o \in Inboxes
    BY DEF Inboxes
  <2>2. tab' = [tab EXCEPT !.owed = o]
    BY <1>1
  <2> HIDE DEF o
  <2> QED BY <2>1, <2>2 DEF IInv, Types, TabTyped, o
<1>6. Owed'
  BY <1>5 DEF Owed
<1>7. Own'
  BY <1>1, <1>2, <1>4, <1>5, OwnMoved DEF IInv
<1> QED BY <1>1, <1>4, <1>5, <1>6, <1>7, ByTabInv

(* The tab's own messages are no answers. *)
LEMMA NewsInv ==
    ASSUME IInv, NEW m \in Message, m.type # "answer", Push(m),
           UNCHANGED <<page, call, result, history>>,
           TabTyped', tab'.owed = tab.owed, tab'.requests = tab.requests
    PROVE  IInv'
<1>1. /\ WsTyped' /\ ws'.next = ws.next
      /\ \A i \in DOMAIN ws'.inbox :
            ws'.inbox[i] = m \/ \E j \in DOMAIN ws.inbox : ws'.inbox[i] = ws.inbox[j]
  BY Pushed DEF IInv, Types
<1>2. Own'
  BY <1>1 DEF IInv, Own, Fits
<1>3. Owed'
  BY DEF IInv, Types, Owed
<1> QED BY <1>1, <1>2, <1>3, ByTabInv

LEMMA TabNewsInv ==
    ASSUME IInv, TabCommits \/ SubframeCommits \/ TabCrashes
    PROVE  IInv'
<1>1. CASE TabCommits
  <2> DEFINE m == [type |-> "navigated", frame |-> "main", of |-> tab.loading]
             n == tab.shown + 1
  <2>1. m \in Message /\ m.type # "answer"
    BY <1>1 DEF TabCommits, IInv, Types, TabTyped, Message, Calls
  <2>2. /\ Push(m) /\ UNCHANGED <<page, call, result, history>>
        /\ tab' = [tab EXCEPT !.loading = 0, !.shown = n, !.ran = tab.scripts]
    BY <1>1 DEF TabCommits, ByTab, IInv, Types, TabTyped
  <2>3. n \in Nat /\ 0 \in 0 .. MaxCalls
    BY BoundsAssumption DEF IInv, Types, TabTyped
  <2> HIDE DEF n, m
  <2>4. TabTyped' /\ tab'.owed = tab.owed /\ tab'.requests = tab.requests
    BY <2>2, <2>3 DEF IInv, Types, TabTyped
  <2> QED BY <2>1, <2>2, <2>4, NewsInv
<1>2. CASE SubframeCommits
  <2> DEFINE m == [type |-> "navigated", frame |-> "sub", of |-> 0]
             n == tab.subs + 1
  <2>1. m \in Message /\ m.type # "answer"
    BY DEF Message
  <2>2. /\ Push(m) /\ UNCHANGED <<page, call, result, history>>
        /\ tab' = [tab EXCEPT !.subs = n]
    BY <1>2 DEF SubframeCommits, ByTab, IInv, Types, TabTyped
  <2>3. n \in Nat
    BY DEF IInv, Types, TabTyped
  <2> HIDE DEF n, m
  <2>4. TabTyped' /\ tab'.owed = tab.owed /\ tab'.requests = tab.requests
    BY <2>2, <2>3 DEF IInv, Types, TabTyped
  <2> QED BY <2>1, <2>2, <2>4, NewsInv
<1>3. CASE TabCrashes
  <2> DEFINE m == [type |-> "crashed"]
  <2>1. m \in Message /\ m.type # "answer"
    BY DEF Message
  <2>2. /\ Push(m) /\ UNCHANGED <<page, call, result, history>>
        /\ tab' = [tab EXCEPT !.alive = FALSE]
    BY <1>3 DEF TabCrashes, ByTab
  <2> HIDE DEF m
  <2>3. TabTyped' /\ tab'.owed = tab.owed /\ tab'.requests = tab.requests
    BY <2>2 DEF IInv, Types, TabTyped
  <2> QED BY <2>1, <2>2, <2>3, NewsInv
<1> QED BY <1>1, <1>2, <1>3

LEMMA StutterInv ==
    ASSUME IInv, UNCHANGED vars
    PROVE  IInv'
<1>1. Own'
  BY OwnKept DEF vars, IInv
<1> QED BY <1>1, SameResult DEF vars, IInv, Types, WsTyped, TabTyped, PageTyped, CallTyped,
           HistoryTyped, Owed

-----------------------------------------------------------------------------
(* The theorems. *)

\* The invariant of InspectorPage and the socket it shares with the tab.
THEOREM Invariance == Spec => []IInv
<1>1. IInv /\ [Next]_vars => IInv'
  <2> SUFFICES ASSUME IInv, [Next]_vars PROVE IInv'
    OBVIOUS
  <2>1. CASE Client
    BY <2>1, NavigateInv, EvaluateInv, WaitInv DEF Client
  <2>2. CASE Receive
    BY <2>2, NavigatedInv, OtherInv, CrashedInv, ScriptInv, NavigateAnsweredInv,
       EvaluateAnsweredInv DEF Receive
  <2>3. CASE Tab
    BY <2>3, TabAnswersInv, AnswersLateInv, TabNewsInv DEF Tab
  <2> QED BY <2>1, <2>2, <2>3, TimeoutInv, TimeIsUpInv, StutterInv DEF Next
<1> QED BY <1>1, InitInv, PTL DEF Spec

\* Every variable keeps its type; in particular InspectorPage collects frame
\* identifiers only while it is waiting for the answer of Page.navigate.
THEOREM TypeCorrect == Spec => []TypeOK
<1>1. IInv => TypeOK
  BY TypesImply DEF IInv
<1> QED BY <1>1, Invariance, PTL

\* SyncRequest hands a call the answer of its own request and no other, with
\* any number of answers to calls that timed out arriving first.
THEOREM AnswerIsOwnHolds == Spec => []AnswerIsOwn
<1>1. IInv => AnswerIsOwn
  BY DEF IInv
<1> QED BY <1>1, Invariance, PTL

-----------------------------------------------------------------------------
(* What a call has seen of the navigations it waits for. *)

(* What is under way between the tab and the client. *)
In(q) == {q[i] : i \in DOMAIN q}
Main(m) == m.type = "navigated" /\ m.frame = "main"
Asked == In(tab.requests)
Coming == {m \in In(ws.inbox) : m.type = "answer"} \cup In(tab.owed)
News == {m.of : m \in {x \in In(ws.inbox) : Main(x)}}

(* A request is answered once, under a number of its own. *)
Apart ==
    /\ \A i, j \in DOMAIN tab.requests : tab.requests[i].id = tab.requests[j].id => i = j
    /\ \A r \in Asked, a \in Coming : r.id # a.id

(* Nothing is of a call yet to come, and a call knows what was seen before it. *)
Origins == {r.of : r \in Asked} \cup News \cup {tab.loading} \cup history.seen
Dated ==
    /\ \A n \in Origins : n \leq history.calls
    /\ call.step # "idle" => call.of \notin call.before

(* A wait is for a navigation that is not over, never for a subframe's. *)
Preparing == {"remove", "add"}
Setting == {"remove", "add", "go"}
Waits ==
    /\ call.step = "wait" => page.pending /\ call.kind \in {"navigate", "wait"}
    /\ call.step \in Setting => call.kind = "navigate"
    /\ call.step = "evaluate" => call.kind \in {"evaluate", "click"}
    /\ page.frameId \in {None, "main"}

(* The requests of the call that waits, and their answers. *)
Asks ==
    \A r \in Asked : call.step \in Setting =>
        /\ r.id = call.id => r.method = call.step
        /\ r.of = call.of /\ r.method \in {"go", "click"} => call.step = "go" /\ r.id = call.id
Answering ==
    /\ \A a \in Coming :
          /\ a.frame \in {None, "main"}
          /\ a.id = call.id /\ call.step = "go" => a.frame = IF tab.modern THEN "main" ELSE None
    /\ tab.owed # <<>> => tab.modern

(* A navigation does not begin before Page.navigate is sent ... *)
NotGone ==
    call.step \in Preparing => call.of \notin history.seen \cup News \cup {tab.loading}

(* ... and a legacy tab answers that before the navigation commits. *)
AnswerAt(i) == ws.inbox[i].type = "answer" /\ ws.inbox[i].id = call.id
NewsAt(j) == Main(ws.inbox[j]) /\ ws.inbox[j].of = call.of
AnswerFirst ==
    call.step = "go" /\ ~tab.modern =>
        /\ call.of \notin history.seen
        /\ tab.loading = call.of => \E i \in DOMAIN ws.inbox : AnswerAt(i)
        /\ \A j \in DOMAIN ws.inbox :
              NewsAt(j) => \E i \in DOMAIN ws.inbox : i < j /\ AnswerAt(i)

(* While a Navigate that was called alone is under way, whatever navigates *)
(* the main frame is its own.                                              *)
Navigating == call.step # "idle" /\ call.kind = "navigate" /\ call.alone
OwnNavigation ==
    Navigating =>
        /\ \A r \in Asked : r.of = call.of
        /\ News \subseteq {call.of}
        /\ tab.loading \in {0, call.of}
        /\ call.step = "go" /\ "main" \in page.frames => call.of \in history.seen

GInv == Apart /\ Dated /\ Waits /\ Asks /\ Answering /\ NotGone /\ AnswerFirst /\ OwnNavigation

(* As long as no call failed: InspectorPage follows what its call follows, *)
Unfailed == ~history.failed
Tracking ==
    /\ ~call.late
    /\ call.step = "go" <=> page.tracking /\ page.frameId = None
    /\ page.tracking /\ call.step = "wait" => call.kind = "navigate"
    /\ page.frameId = "main" => page.tracking /\ call.step = "wait" /\ "main" \notin page.frames

(* ... every news of a navigation is told to the call that waits for it, *)
Told ==
    /\ call.step = "wait" /\ call.kind = "wait" => history.seen \subseteq call.before
    /\ call.step = "wait" /\ call.kind = "navigate" => call.of \notin history.seen
    /\ call.step = "go" /\ call.of \in history.seen => "main" \in page.frames

(* ... the requests under way are those of the call, or clicks, *)
OwnRequests ==
    \A r \in Asked : r.method # "click" =>
        /\ call.step = r.method /\ r.id = call.id
        /\ r.method = "add" => r.script = call.script
        /\ r.method = "remove" => r.script = page.script

(* ... the scripts of the tab are those that InspectorPage knows of, *)
Asking == \E r \in Asked : r.id = call.id
Just(script) == {script} \ {None}
ScriptsKnown ==
    /\ call.step = "remove" => page.script # None /\ tab.scripts = IF Asking THEN {page.script} ELSE {}
    /\ call.step = "add" =>
          page.script = None /\ call.script # None /\ tab.scripts = IF Asking THEN {} ELSE {call.script}
    /\ call.step \notin Preparing => tab.scripts = Just(page.script)
    /\ call.step = "go" \/ (call.step = "wait" /\ call.kind = "navigate") => page.script = call.script

(* ... and those ran as the call's own navigation committed. *)
RanOwn ==
    Navigating /\ (call.of \in history.seen \/ News # {}) => tab.ran = Just(call.script)

UInv == Unfailed => Tracking /\ Told /\ OwnRequests /\ ScriptsKnown /\ RanOwn

-----------------------------------------------------------------------------
(* Lemmas on what is under way. *)

LEMMA InAppend ==
    ASSUME NEW S, NEW q \in Seq(S), NEW x \in S
    PROVE  In(Append(q, x)) = In(q) \cup {x}
<1> DEFINE a == Append(q, x)
<1>1. DOMAIN a = DOMAIN q \cup {Len(q) + 1} /\ a[Len(q) + 1] = x /\ \A i \in DOMAIN q : a[i] = q[i]
  OBVIOUS
<1> HIDE DEF a
<1>2. In(a) = In(q) \cup {x}
  BY <1>1 DEF In
<1> QED BY <1>2 DEF a

LEMMA InTail ==
    ASSUME NEW S, NEW q \in Seq(S), q # <<>>
    PROVE  In(q) = {Head(q)} \cup In(Tail(q))
<1> DEFINE t == Tail(q)
           h == Head(q)
<1>1. /\ 1 \in DOMAIN q /\ h = q[1]
      /\ \A i \in DOMAIN t : i + 1 \in DOMAIN q /\ t[i] = q[i + 1]
      /\ \A i \in DOMAIN q : i # 1 => i - 1 \in DOMAIN t /\ t[i - 1] = q[i]
  OBVIOUS
<1> HIDE DEF t, h
<1>2. In(q) \subseteq {h} \cup In(t)
  BY <1>1 DEF In
<1>3. h \in In(q) /\ In(t) \subseteq In(q)
  BY <1>1 DEF In
<1>4. In(q) = {h} \cup In(t)
  BY <1>2, <1>3
<1> QED BY <1>4 DEF h, t

(* The inbox and the requests are of their types, and known to Own. *)
LEMMA Views ==
    ASSUME IInv
    PROVE  /\ In(ws.inbox) \subseteq Message /\ Asked \subseteq Request /\ Coming \subseteq Answers
           /\ News \subseteq Calls /\ (\A m \in Coming : Fits(m)) /\ (\A r \in Asked : Fits(r))
<1>1. \A i \in DOMAIN ws.inbox : ws.inbox[i] \in Message
  BY DEF IInv, Types, WsTyped, Inboxes
<1>2. \A i \in DOMAIN tab.requests : tab.requests[i] \in Request
  BY DEF IInv, Types, TabTyped, Requests
<1>3. In(ws.inbox) \subseteq Message /\ Asked \subseteq Request
  BY <1>1, <1>2 DEF Asked, In
<1>4. Coming \subseteq Answers /\ \A m \in Coming : Fits(m)
  <2>1. \A m \in In(ws.inbox) : m.type = "answer" => Fits(m)
    BY DEF IInv, Own, In
  <2>2. \A m \in In(tab.owed) : Fits(m) /\ m \in Answers
    BY DEF IInv, Types, Own, Owed, In
  <2> QED BY <1>3, <2>1, <2>2, AnswerType DEF Coming
<1>5. News \subseteq Calls
  <2>1. \A m \in Message : Main(m) => m.of \in Calls
    BY DEF Message, Main
  <2> QED BY <1>3, <2>1 DEF News
<1>6. \A r \in Asked : Fits(r)
  BY DEF IInv, Own, Asked, In
<1> QED BY <1>3, <1>4, <1>5, <1>6

LEMMA ViewsInit ==
    ASSUME ws.inbox = <<>>, tab.owed = <<>>, tab.requests = <<>>
    PROVE  Asked = {} /\ Coming = {} /\ News = {} /\ DOMAIN ws.inbox = {} /\ DOMAIN tab.requests = {}
<1>1. In(<<>>) = {} /\ DOMAIN <<>> = {}
  BY DEF In
<1> QED BY <1>1 DEF Asked, Coming, News

(* A message is taken: it is one of those that were under way. *)
LEMMA TakeViews ==
    ASSUME IInv, ws.inbox # <<>>, ws'.inbox = Tail(ws.inbox), tab'.owed = tab.owed
    PROVE  /\ Head(ws.inbox) \in In(ws.inbox)
           /\ In(ws'.inbox) \subseteq In(ws.inbox)
           /\ Coming' \subseteq Coming /\ News' \subseteq News
           /\ Head(ws.inbox).type = "answer" => Head(ws.inbox) \in Coming
           /\ Main(Head(ws.inbox)) => Head(ws.inbox).of \in News
<1>1. ws.inbox \in Seq(Message)
  BY DEF IInv, Types, WsTyped, Inboxes
<1>2. In(ws.inbox) = {Head(ws.inbox)} \cup In(Tail(ws.inbox))
  BY <1>1, InTail
<1> DEFINE old == In(ws.inbox)
           new == In(Tail(ws.inbox))
           head == Head(ws.inbox)
<1>3. In(ws'.inbox) = new
  BY DEF In
<1>4. old = {head} \cup new /\ In(ws.inbox)' = new /\ In(tab.owed)' = In(tab.owed)
  BY <1>2, <1>3 DEF In
<1> HIDE DEF old, new, head
<1>5. Coming = {m \in old : m.type = "answer"} \cup In(tab.owed)
      /\ Coming' = {m \in new : m.type = "answer"} \cup In(tab.owed)
  BY <1>4 DEF Coming, old
<1>6. News = {m.of : m \in {x \in old : Main(x)}} /\ News' = {m.of : m \in {x \in new : Main(x)}}
  BY <1>4 DEF News, old, Main
<1>7. /\ head \in old /\ new \subseteq old /\ Coming' \subseteq Coming /\ News' \subseteq News
      /\ head.type = "answer" => head \in Coming
      /\ Main(head) => head.of \in News
  BY <1>4, <1>5, <1>6
<1> QED BY <1>3, <1>7 DEF old, head

(* A message is pushed. *)
LEMMA PushViews ==
    ASSUME IInv, NEW m \in Message, ws'.inbox = Append(ws.inbox, m)
    PROVE  /\ Coming' = {x \in In(ws.inbox) : x.type = "answer"}
                          \cup (IF m.type = "answer" THEN {m} ELSE {}) \cup In(tab'.owed)
           /\ News' = News \cup (IF Main(m) THEN {m.of} ELSE {})
<1>1. ws.inbox \in Seq(Message)
  BY DEF IInv, Types, WsTyped, Inboxes
<1> DEFINE old == In(ws.inbox)
           new == In(Append(ws.inbox, m))
<1>2. new = old \cup {m}
  BY <1>1, InAppend
<1>3. In(ws.inbox)' = new /\ In(tab.owed)' = In(tab'.owed)
  BY DEF In
<1> HIDE DEF old, new
<1>4. Coming' = {x \in new : x.type = "answer"} \cup In(tab'.owed)
  BY <1>3 DEF Coming
<1>5. News = {x.of : x \in {y \in old : Main(y)}} /\ News' = {x.of : x \in {y \in new : Main(y)}}
  BY <1>3 DEF News, old, Main
<1>6. CASE m.type = "answer"
  <2>1. ~Main(m)
    BY <1>6 DEF Main
  <2> QED BY <1>2, <1>4, <1>5, <1>6, <2>1 DEF old
<1>7. CASE m.type # "answer"
  BY <1>2, <1>4, <1>5, <1>7 DEF old
<1> QED BY <1>6, <1>7

LEMMA SameViews ==
    ASSUME ws'.inbox = ws.inbox, tab'.owed = tab.owed
    PROVE  Coming' = Coming /\ News' = News
BY DEF Coming, News, In, Main

(* A request is taken by the tab. *)
LEMMA ServeViews ==
    ASSUME IInv, Apart, tab.requests # <<>>, tab'.requests = Tail(tab.requests)
    PROVE  /\ Asked' \subseteq Asked /\ Asked = Asked' \cup {Head(tab.requests)}
           /\ \A r \in Asked' : r.id # Head(tab.requests).id
           /\ \A i, j \in DOMAIN tab'.requests : tab'.requests[i].id = tab'.requests[j].id => i = j
<1> DEFINE q == tab.requests
           t == Tail(q)
           h == Head(q)
<1>1. q \in Seq(Request) /\ q # <<>>
  BY DEF IInv, Types, TabTyped, Requests
<1>2. In(q) = {h} \cup In(t)
  BY <1>1, InTail
<1>3. Asked = In(q) /\ Asked' = In(t) /\ tab'.requests = t
  BY DEF Asked, In
<1>4. \A i, j \in DOMAIN q : q[i].id = q[j].id => i = j
  BY DEF Apart
<1> HIDE DEF q
<1>5. /\ 1 \in DOMAIN q /\ h = q[1]
      /\ \A i \in DOMAIN t : i \in Nat /\ i # 0 /\ i + 1 \in DOMAIN q /\ t[i] = q[i + 1]
  BY <1>1
<1> HIDE DEF t, h
<1>6. \A i, j \in DOMAIN t : t[i].id = t[j].id => i = j
  <2> SUFFICES ASSUME NEW i \in DOMAIN t, NEW j \in DOMAIN t, t[i].id = t[j].id PROVE i = j
    OBVIOUS
  <2>1. q[i + 1].id = q[j + 1].id
    BY <1>5
  <2>2. i + 1 = j + 1
    BY <1>4, <1>5, <2>1
  <2> QED BY <1>5, <2>2
<1>7. \A r \in In(t) : r.id # h.id
  <2> SUFFICES ASSUME NEW i \in DOMAIN t PROVE t[i].id # h.id
    BY DEF In
  <2>1. t[i].id = h.id => i + 1 = 1
    BY <1>4, <1>5
  <2>2. i \in Nat /\ i # 0
    BY <1>5
  <2> QED BY <2>1, <2>2
<1>8. Asked' \subseteq Asked /\ Asked = Asked' \cup {h} /\ \A r \in Asked' : r.id # h.id
  BY <1>2, <1>3, <1>7
<1> QED BY <1>3, <1>6, <1>8 DEF h, q

(* A request is sent. *)
LEMMA SendViews ==
    ASSUME IInv, Apart, NEW r \in Request, r.id = ws.next, tab'.requests = Append(tab.requests, r),
           Coming' \subseteq Coming
    PROVE  Asked' = Asked \cup {r} /\ Apart'
<1> DEFINE q == tab.requests
           a == Append(q, r)
<1>1. q \in Seq(Request) /\ ws.next \in Nat
  BY DEF IInv, Types, TabTyped, Requests, WsTyped
<1>2. In(a) = In(q) \cup {r}
  BY <1>1, InAppend
<1>3. Asked = In(q) /\ Asked' = In(a) /\ tab'.requests = a
  BY DEF Asked, In
<1>4. (\A x \in Asked : x.id \in Nat /\ x.id # ws.next) /\ (\A x \in Coming : x.id # ws.next)
  <2>1. (\A x \in Asked : x.id < ws.next /\ x.id \in Nat) /\ \A x \in Coming : x.id < ws.next /\ x.id \in Nat
    BY Views DEF Fits, Request, Answers
  <2> QED BY <1>1, <2>1
<1>5. \A i, j \in DOMAIN q : q[i].id = q[j].id => i = j
  BY DEF Apart
<1>6. \A i \in DOMAIN q : q[i].id # ws.next
  BY <1>4 DEF Asked, In
<1> HIDE DEF q
<1>7. DOMAIN a = DOMAIN q \cup {Len(q) + 1} /\ a[Len(q) + 1] = r /\ \A i \in DOMAIN q : a[i] = q[i]
  BY <1>1
<1> HIDE DEF a
<1>8. \A i, j \in DOMAIN a : a[i].id = a[j].id => i = j
  BY <1>5, <1>6, <1>7
<1>9. \A x \in Asked', y \in Coming' : x.id # y.id
  BY <1>2, <1>3, <1>4 DEF Apart
<1> QED BY <1>2, <1>3, <1>8, <1>9 DEF Apart

-----------------------------------------------------------------------------
(* What each action does, field by field. *)

(* The tab but for its requests; what the client remembers. *)
SameRest ==
    /\ tab'.modern = tab.modern /\ tab'.owed = tab.owed /\ tab'.loading = tab.loading
    /\ tab'.scripts = tab.scripts /\ tab'.ran = tab.ran
SameHistory == history'.calls = history.calls /\ history'.seen = history.seen /\ history'.failed = history.failed

(* The new call and its first request. *)
Opened(kind, step, script) ==
    /\ call.step = "idle" /\ call'.kind = kind /\ call'.of = history.calls + 1 /\ call'.step = step
    /\ call'.id = ws.next /\ call'.late = FALSE /\ call'.script = script
    /\ call'.alone = Alone /\ call'.before = history.seen
    /\ history'.calls = history.calls + 1 /\ history'.seen = history.seen
    /\ history'.failed = history.failed /\ UNCHANGED result

Posted(method, script) ==
    LET r == [id |-> ws.next, of |-> call'.of, method |-> method, script |-> script]
    IN  r \in Request /\ tab'.requests = Append(tab.requests, r) /\ SameRest

LEMMA EnterDoes ==
    ASSUME IInv, NEW kind \in Kinds, NEW step, NEW script, Enter(kind, step, script)
    PROVE  Opened(kind, step, script)
<1> PICK h \in HistoryType : h = history
  BY DEF IInv, Types, HistoryTyped
<1> DEFINE a == Alone
<1>1. /\ history' = [h EXCEPT !.calls = h.calls + 1] /\ UNCHANGED result /\ call.step = "idle"
      /\ call' = [kind |-> kind, of |-> h.calls + 1, step |-> step, id |-> ws.next, late |-> FALSE,
                  script |-> script, alone |-> a, before |-> h.seen]
  BY DEF Enter, HistoryType
<1> HIDE DEF a
<1>2. history'.calls = h.calls + 1 /\ history'.seen = h.seen /\ history'.failed = h.failed
  BY <1>1 DEF HistoryType
<1>3. /\ call'.kind = kind /\ call'.of = h.calls + 1 /\ call'.step = step /\ call'.id = ws.next
      /\ call'.late = FALSE /\ call'.script = script /\ call'.alone = a /\ call'.before = h.seen
  BY <1>1
<1> QED BY <1>1, <1>2, <1>3 DEF Opened, a

LEMMA RequestsAfter ==
    ASSUME IInv, NEW q, tab' = [tab EXCEPT !.requests = q]
    PROVE  tab'.requests = q /\ SameRest
<1> PICK t \in TabType : t = tab
  BY DEF IInv, Types, TabTyped, TabType, Requests, Inboxes
<1> QED BY DEF TabType, SameRest

LEMMA SendDoes ==
    ASSUME IInv, NEW method \in Sync \cup {"click"}, NEW script \in Scripts \cup {None},
           Send(method, script), method = "add" => script # None, call'.of \in Calls
    PROVE  Posted(method, script) /\ ws'.inbox = ws.inbox
<1> DEFINE r == [id |-> ws.next, of |-> call'.of, method |-> method, script |-> script]
           q == Append(tab.requests, r)
<1>1. r \in Request
  BY DEF IInv, Types, WsTyped, Request
<1> PICK w \in [open : BOOLEAN, next : Nat, inbox : Inboxes] : w = ws
  BY DEF IInv, Types, WsTyped
<1>2. ws'.inbox = ws.inbox
  BY DEF Send
<1>3. tab' = [tab EXCEPT !.requests = q]
  BY DEF Send
<1> HIDE DEF q, r
<1>4. tab'.requests = q /\ SameRest
  BY <1>3, RequestsAfter
<1> QED BY <1>1, <1>2, <1>4 DEF Posted, q, r

LEMMA NavigateDoes ==
    ASSUME IInv, NEW script \in Scripts \cup {None}, Navigate(script)
    PROVE  LET step == FirstStep(script)
               sent == IF step = "remove" THEN page.script ELSE script
           IN  /\ Opened("navigate", step, script) /\ Posted(step, sent) /\ ws'.inbox = ws.inbox
               /\ page' = IF step = "go" THEN StartsTracking(page) ELSE page
<1> DEFINE step == FirstStep(script)
           sent == IF step = "remove" THEN page.script ELSE script
<1>1. /\ step \in Sync /\ "navigate" \in Kinds /\ sent \in Scripts \cup {None}
      /\ step = "add" => sent # None
  BY DEF FirstStep, Sync, Kinds, IInv, Types, PageTyped, PageType
<1>2. /\ Enter("navigate", step, script) /\ Send(step, sent)
      /\ page' = IF step = "go" THEN StartsTracking(page) ELSE page
  BY DEF Navigate
<1> HIDE DEF step, sent
<1>3. Opened("navigate", step, script)
  BY <1>1, <1>2, EnterDoes
<1>4. call'.of \in Calls
  BY <1>1, <1>2, Entered DEF IInv
<1>5. Posted(step, sent) /\ ws'.inbox = ws.inbox
  BY <1>1, <1>2, <1>4, SendDoes
<1> QED BY <1>2, <1>3, <1>5 DEF step, sent

LEMMA EvaluateDoes ==
    ASSUME IInv, NEW kind \in {"evaluate", "click"}, Evaluate(kind)
    PROVE  Opened(kind, "evaluate", None) /\ Posted(kind, None) /\ ws'.inbox = ws.inbox /\ UNCHANGED page
<1>1. kind \in Kinds /\ "evaluate" \in Sync /\ kind \in Sync \cup {"click"} /\ kind # "add"
  BY DEF Kinds, Sync
<1>2. Enter(kind, "evaluate", None) /\ Send(kind, None) /\ UNCHANGED page
  BY DEF Evaluate
<1>3. call'.of \in Calls
  BY <1>1, <1>2, Entered DEF IInv
<1> QED BY <1>1, <1>2, <1>3, EnterDoes, SendDoes

LEMMA WaitDoes ==
    ASSUME IInv, WaitForNavigate
    PROVE  /\ Opened("wait", "wait", None) /\ UNCHANGED <<ws, tab>>
           /\ page' = [page EXCEPT !.pending = TRUE]
<1>1. "wait" \in Kinds
  BY DEF Kinds
<1> QED BY <1>1, EnterDoes DEF WaitForNavigate

(* The call ends, or stays as it is. *)
Ends(outcome) ==
    /\ call'.step = "idle" /\ call'.late = call.late
    /\ result'.kind = call.kind /\ result'.of = call.of /\ result'.outcome = outcome
    /\ result'.step = call.step /\ result'.alone = call.alone /\ result'.fresh = ~history.failed
    /\ result'.new = history'.seen \ call.before /\ result'.asked = call.script
    /\ result'.ran = tab.ran

SameNavigation == call'.kind = call.kind /\ call'.of = call.of /\ call'.id = call.id
                  /\ call'.alone = call.alone /\ call'.before = call.before /\ call'.script = call.script

LEMMA EndDoes ==
    ASSUME IInv, NEW outcome, NEW taken, End(outcome, taken)
    PROVE  Ends(outcome) /\ SameNavigation
<1> PICK c \in CallType : c = call
  BY DEF IInv, Types, CallTyped
<1>1. call' = [c EXCEPT !.step = "idle"]
  BY DEF End
<1>2. call'.step = "idle" /\ call'.late = call.late /\ SameNavigation
  BY <1>1 DEF CallType, SameNavigation
<1>3. /\ result'.kind = call.kind /\ result'.of = call.of /\ result'.outcome = outcome
      /\ result'.step = call.step /\ result'.alone = call.alone /\ result'.fresh = ~history.failed
      /\ result'.new = history'.seen \ call.before /\ result'.asked = call.script
      /\ result'.ran = tab.ran
  BY DEF End
<1> QED BY <1>2, <1>3 DEF Ends

LEMMA ReceivedDoes ==
    ASSUME IInv, ws' = Received
    PROVE  ws'.inbox = Tail(ws.inbox)
<1> PICK w \in [open : BOOLEAN, next : Nat, inbox : Inboxes] : w = ws
  BY DEF IInv, Types, WsTyped
<1> QED BY DEF Received

LEMMA LoopDoes ==
    ASSUME IInv, NEW after, Loop(after)
    PROVE  \/ UNCHANGED <<call, result>> /\ (call.step = "wait" => after.pending /\ ~call.late)
           \/ /\ call.step = "wait" /\ SameNavigation
              /\ Ends("ok") \/ (Ends("expired") /\ call.late)
              /\ Ends("ok") => ~after.pending
<1>1. CASE call.step = "wait" /\ (~after.pending \/ call.late)
  <2>1. End(IF after.pending THEN "expired" ELSE "ok", 0)
    BY <1>1 DEF Loop
  <2>2. CASE after.pending
    <3>1. Ends("expired") /\ SameNavigation
      BY <2>1, <2>2, EndDoes
    <3> QED BY <1>1, <2>2, <3>1 DEF Ends
  <2>3. CASE ~after.pending
    BY <1>1, <2>1, <2>3, EndDoes
  <2> QED BY <2>2, <2>3
<1>2. CASE ~(call.step = "wait" /\ (~after.pending \/ call.late))
  BY <1>2 DEF Loop, NotYet
<1> QED BY <1>1, <1>2

LEMMA SameTabRest ==
    ASSUME UNCHANGED tab
    PROVE  SameRest /\ Asked' = Asked /\ tab'.requests = tab.requests
BY DEF SameRest, Asked, In

LEMMA NavigatedDoes ==
    ASSUME IInv, ReceiveNavigated
    PROVE  LET m == Head(ws.inbox)
           IN  /\ ws.inbox # <<>> /\ call.step # "idle" /\ m \in Message /\ m.type = "navigated"
               /\ page' = OnNotification(page, m.frame, m.of) /\ m.frame \in Frames
               /\ history'.seen = (IF m.frame = "main" THEN history.seen \cup {m.of} ELSE history.seen)
               /\ history'.calls = history.calls /\ history'.failed = history.failed
               /\ ws'.inbox = Tail(ws.inbox) /\ Loop(page') /\ UNCHANGED tab
<1> DEFINE m == Head(ws.inbox)
           seen == IF m.frame = "main" THEN history.seen \cup {m.of} ELSE history.seen
<1> PICK h \in HistoryType : h = history
  BY DEF IInv, Types, HistoryTyped
<1>1. /\ Arrived("navigated") /\ page' = OnNotification(page, m.frame, m.of)
      /\ history' = [h EXCEPT !.seen = seen] /\ Loop(page') /\ ws' = Received /\ UNCHANGED tab
  BY DEF ReceiveNavigated, HistoryType
<1>2. ws.inbox # <<>> /\ m \in Message /\ m.type = "navigated" /\ call.step # "idle"
  BY <1>1, ArrivedFirst
<1>3. m.frame \in Frames
  BY <1>2 DEF Message, Frames
<1>4. ws'.inbox = Tail(ws.inbox)
  BY <1>1, ReceivedDoes
<1> HIDE DEF m, seen
<1>5. history'.seen = seen /\ history'.calls = h.calls /\ history'.failed = h.failed
  BY <1>1 DEF HistoryType
<1> QED BY <1>1, <1>2, <1>3, <1>4, <1>5 DEF m, seen

LEMMA OtherDoes ==
    ASSUME IInv, ReceiveOther
    PROVE  /\ ws.inbox # <<>> /\ Head(ws.inbox).type = "answer" /\ call.step # "idle"
           /\ call.step \in Sync => Head(ws.inbox).id # call.id
           /\ ws'.inbox = Tail(ws.inbox) /\ Loop(page) /\ UNCHANGED <<history, page, tab>>
<1>1. /\ Arrived("answer") /\ Loop(page) /\ ws' = Received /\ UNCHANGED <<history, page, tab>>
      /\ call.step \in Sync => Head(ws.inbox).id # call.id
  BY DEF ReceiveOther, Matches
<1> QED BY <1>1, ArrivedFirst, ReceivedDoes

(* A call fails. *)
Fails ==
    /\ history'.seen = history.seen /\ history'.calls = history.calls /\ history'.failed = TRUE
    /\ UNCHANGED <<page, tab>>

LEMMA FailedAfter ==
    ASSUME IInv, NEW n, history' = [history EXCEPT !.timeouts = n, !.failed = TRUE]
    PROVE  history'.seen = history.seen /\ history'.calls = history.calls /\ history'.failed = TRUE
<1> PICK h \in HistoryType : h = history
  BY DEF IInv, Types, HistoryTyped
<1> QED BY DEF HistoryType

LEMMA CrashedDoes ==
    ASSUME IInv, ReceiveCrashed
    PROVE  /\ Fails /\ Ends("crashed") /\ SameNavigation
           /\ ws.inbox # <<>> /\ ws'.inbox = Tail(ws.inbox)
<1>1. /\ Arrived("crashed") /\ history' = [history EXCEPT !.failed = TRUE]
      /\ End("crashed", 0) /\ ws' = [Received EXCEPT !.open = FALSE] /\ UNCHANGED <<page, tab>>
  BY DEF ReceiveCrashed
<1> PICK h \in HistoryType : h = history
  BY DEF IInv, Types, HistoryTyped
<1>2. history'.seen = h.seen /\ history'.calls = h.calls /\ history'.failed = TRUE
  BY <1>1 DEF HistoryType
<1> PICK w \in [open : BOOLEAN, next : Nat, inbox : Inboxes] : w = ws
  BY DEF IInv, Types, WsTyped
<1>3. ws'.inbox = Tail(w.inbox)
  BY <1>1 DEF Received
<1>4. Ends("crashed") /\ SameNavigation
  BY <1>1, EndDoes
<1>5. ws.inbox # <<>>
  BY <1>1 DEF Arrived
<1> QED BY <1>1, <1>2, <1>3, <1>4, <1>5 DEF Fails

LEMMA TimeoutDoes ==
    ASSUME IInv, Timeout
    PROVE  /\ Fails /\ SameNavigation /\ ws'.inbox = ws.inbox
           /\ Ends("timeout") \/ Ends("crashed")
<1> DEFINE n == history.timeouts + 1
           outcome == IF call.late THEN "crashed" ELSE "timeout"
           open == ~call.late
<1>1. /\ history' = [history EXCEPT !.timeouts = n, !.failed = TRUE]
      /\ End(outcome, 0) /\ ws' = [ws EXCEPT !.open = open] /\ UNCHANGED <<page, tab>>
  BY DEF Timeout, IInv, Types, HistoryTyped, HistoryType
<1> PICK w \in [open : BOOLEAN, next : Nat, inbox : Inboxes] : w = ws
  BY DEF IInv, Types, WsTyped
<1> HIDE DEF n, open
<1>2. ws'.inbox = ws.inbox
  BY <1>1
<1>3. Ends(outcome) /\ SameNavigation
  BY <1>1, EndDoes
<1>4. outcome \in {"timeout", "crashed"}
  OBVIOUS
<1>5. Fails
  BY <1>1, FailedAfter DEF Fails
<1> QED BY <1>2, <1>3, <1>4, <1>5

LEMMA TimeIsUpDoes ==
    ASSUME IInv, TimeIsUp
    PROVE  /\ Fails /\ SameNavigation /\ UNCHANGED <<ws, result>>
           /\ call'.step = call.step
<1> DEFINE n == history.timeouts + 1
<1>1. /\ history' = [history EXCEPT !.timeouts = n, !.failed = TRUE]
      /\ call' = [call EXCEPT !.late = TRUE] /\ UNCHANGED <<ws, page, tab, result>>
  BY DEF TimeIsUp, IInv, Types, HistoryTyped, HistoryType
<1> HIDE DEF n
<1> PICK c \in CallType : c = call
  BY DEF IInv, Types, CallTyped
<1>2. call'.step = call.step /\ SameNavigation
  BY <1>1 DEF CallType, SameNavigation
<1> QED BY <1>1, <1>2, FailedAfter DEF Fails

(* An answer that is waited for. *)
LEMMA AnsweredDoes ==
    ASSUME IInv, NEW step \in Sync, Answered(step)
    PROVE  /\ ws.inbox # <<>> /\ Head(ws.inbox).type = "answer" /\ Head(ws.inbox).id = call.id
           /\ call.step = step /\ UNCHANGED history
BY DEF Answered, Arrived, Matches

Resumed(step) == /\ call'.step = step /\ call'.kind = call.kind /\ call'.of = call.of
                 /\ call'.alone = call.alone /\ call'.before = call.before
                 /\ call'.script = call.script /\ call'.late = call.late

LEMMA ProceedDoes ==
    ASSUME IInv, NEW old \in Sync, Answered(old), NEW step \in {"add", "go"},
           NEW script \in Scripts \cup {None}, Proceed(step, script), step = "add" => script # None
    PROVE  /\ Resumed(step) /\ call'.id = ws.next /\ Posted(step, script)
           /\ ws'.inbox = Tail(ws.inbox) /\ UNCHANGED result
<1> DEFINE r == [id |-> ws.next, of |-> call.of, method |-> step, script |-> script]
           q == Append(tab.requests, r)
           n == ws.next
<1>1. /\ call' = [call EXCEPT !.step = step, !.id = n]
      /\ ws' = [Received EXCEPT !.next = n + 1]
      /\ tab' = [tab EXCEPT !.requests = q] /\ UNCHANGED result
  BY DEF Proceed, Received, IInv, Types, WsTyped
<1> PICK c \in CallType : c = call
  BY DEF IInv, Types, CallTyped
<1> PICK w \in [open : BOOLEAN, next : Nat, inbox : Inboxes] : w = ws
  BY DEF IInv, Types, WsTyped
<1>2. ws'.inbox = Tail(w.inbox)
  BY <1>1 DEF Received
<1>3. r \in Request
  <2>1. call.of \in Calls
    BY AnsweredOwn
  <2> QED BY <2>1 DEF IInv, Types, WsTyped, Request, Sync
<1> HIDE DEF q, n
<1>4. Resumed(step) /\ call'.id = n
  BY <1>1 DEF CallType, Resumed
<1> HIDE DEF r
<1>5. tab'.requests = q /\ SameRest
  BY <1>1, RequestsAfter
<1>6. call'.of = call.of
  BY <1>4 DEF Resumed
<1>7. Posted(step, script)
  BY <1>3, <1>5, <1>6 DEF Posted, q, r
<1> QED BY <1>1, <1>2, <1>4, <1>7 DEF n

LEMMA RemovedDoes ==
    ASSUME IInv, ScriptRemoved
    PROVE  LET step == IF call.script = None THEN "go" ELSE "add"
               p == [page EXCEPT !.script = None]
           IN  /\ Answered("remove") /\ Resumed(step) /\ call'.id = ws.next
               /\ Posted(step, call.script) /\ ws'.inbox = Tail(ws.inbox) /\ UNCHANGED result
               /\ page' = IF step = "go" THEN StartsTracking(p) ELSE p
<1>1. Answered("remove") /\ "remove" \in Sync /\ call.script \in Scripts \cup {None}
      /\ None \in Scripts \cup {None}
  BY DEF ScriptRemoved, Sync, IInv, Types, CallTyped, CallType
<1>2. CASE call.script = None
  <2>1. page' = StartsTracking([page EXCEPT !.script = None]) /\ Proceed("go", None)
    BY <1>2 DEF ScriptRemoved
  <2>2. /\ Resumed("go") /\ call'.id = ws.next /\ Posted("go", None)
        /\ ws'.inbox = Tail(ws.inbox) /\ UNCHANGED result
    BY <1>1, <2>1, ProceedDoes
  <2> QED BY <1>1, <1>2, <2>1, <2>2
<1>3. CASE call.script # None
  <2>1. page' = [page EXCEPT !.script = None] /\ Proceed("add", call.script)
    BY <1>3 DEF ScriptRemoved
  <2>2. /\ Resumed("add") /\ call'.id = ws.next /\ Posted("add", call.script)
        /\ ws'.inbox = Tail(ws.inbox) /\ UNCHANGED result
    BY <1>1, <1>3, <2>1, ProceedDoes
  <2> QED BY <1>1, <1>3, <2>1, <2>2
<1> QED BY <1>2, <1>3

LEMMA AddedDoes ==
    ASSUME IInv, ScriptAdded
    PROVE  /\ Answered("add") /\ Resumed("go") /\ call'.id = ws.next
           /\ Posted("go", None) /\ ws'.inbox = Tail(ws.inbox) /\ UNCHANGED result
           /\ page' = StartsTracking([page EXCEPT !.script = call.script])
<1>1. Answered("add") /\ "add" \in Sync /\ Proceed("go", None) /\ None \in Scripts \cup {None}
      /\ page' = StartsTracking([page EXCEPT !.script = call.script])
  BY DEF ScriptAdded, Sync
<1>2. /\ Resumed("go") /\ call'.id = ws.next
      /\ Posted("go", None) /\ ws'.inbox = Tail(ws.inbox) /\ UNCHANGED result
  BY <1>1, ProceedDoes
<1> QED BY <1>1, <1>2

LEMMA GoneDoes ==
    ASSUME IInv, NavigateAnswered
    PROVE  LET frame == Head(ws.inbox).frame
           IN  /\ Answered("go") /\ ws'.inbox = Tail(ws.inbox) /\ UNCHANGED tab
               /\ \/ /\ frame # None /\ page.tracking /\ frame \in page.frames
                     /\ page' = NotTracking(page) /\ Ends("ok") /\ SameNavigation
                  \/ /\ ~(frame # None /\ page.tracking /\ frame \in page.frames)
                     /\ page' = IF frame # None
                                THEN [page EXCEPT !.frameId = frame, !.pending = TRUE]
                                ELSE [NotTracking(page) EXCEPT !.url = call.of, !.pending = TRUE]
                     /\ SameNavigation /\ call'.late = call.late /\ call'.step = "wait" /\ UNCHANGED result
<1> DEFINE frame == Head(ws.inbox).frame
           over == frame # None /\ page.tracking /\ frame \in page.frames
<1>1. Answered("go") /\ ws' = Received /\ UNCHANGED tab
  BY DEF NavigateAnswered
<1>2. ws'.inbox = Tail(ws.inbox)
  BY <1>1, ReceivedDoes
<1>3. CASE over
  <2>1. page' = NotTracking(page) /\ End("ok", Head(ws.inbox).of)
    BY <1>3 DEF NavigateAnswered, AlreadyOver
  <2>2. Ends("ok") /\ SameNavigation
    BY <2>1, EndDoes
  <2> QED BY <1>1, <1>2, <1>3, <2>1, <2>2
<1>4. CASE ~over
  <2>1. /\ call' = [call EXCEPT !.step = "wait"] /\ UNCHANGED result
        /\ page' = IF frame # None
                   THEN [page EXCEPT !.frameId = frame, !.pending = TRUE]
                   ELSE [NotTracking(page) EXCEPT !.url = call.of, !.pending = TRUE]
    BY <1>4 DEF NavigateAnswered, AlreadyOver
  <2> PICK c \in CallType : c = call
    BY DEF IInv, Types, CallTyped
  <2>2. SameNavigation /\ call'.late = call.late /\ call'.step = "wait"
    BY <2>1 DEF CallType, SameNavigation
  <2> QED BY <1>1, <1>2, <1>4, <2>1, <2>2
<1> QED BY <1>3, <1>4

LEMMA EvaluatedDoes ==
    ASSUME IInv, EvaluateAnswered
    PROVE  /\ Answered("evaluate") /\ Ends("ok") /\ SameNavigation
           /\ ws'.inbox = Tail(ws.inbox) /\ UNCHANGED <<page, tab>>
<1>1. /\ Answered("evaluate") /\ End("ok", Head(ws.inbox).of) /\ ws' = Received
      /\ UNCHANGED <<page, tab>>
  BY DEF EvaluateAnswered
<1> QED BY <1>1, EndDoes, ReceivedDoes

LEMMA PushDoes ==
    ASSUME IInv, NEW m, Push(m)
    PROVE  ws'.inbox = Append(ws.inbox, m)
<1> PICK w \in [open : BOOLEAN, next : Nat, inbox : Inboxes] : w = ws
  BY DEF IInv, Types, WsTyped
<1> QED BY DEF Push

(* The answer to the first request is pushed, or owed. *)
LEMMA AnswersDoes ==
    ASSUME IInv, Apart, TabAnswers
    PROVE  LET r == Head(tab.requests)
               a == AnswerTo(r, IF r.method = "go" /\ tab.modern THEN "main" ELSE None)
           IN  /\ UNCHANGED <<page, call, result, history>>
               /\ r \in Asked /\ a.type = "answer" /\ a.id = r.id
               /\ a.frame = IF r.method = "go" /\ tab.modern THEN "main" ELSE None
               /\ tab'.modern = tab.modern /\ tab'.ran = tab.ran
               /\ tab'.requests = Tail(tab.requests) /\ tab.requests # <<>>
               /\ tab'.scripts = TabScripts(r)
               /\ tab'.loading = IF r.method \in {"go", "click"} THEN r.of ELSE tab.loading
               /\ tab'.owed # <<>> => tab.modern
               /\ Coming' = Coming \cup {a} /\ News' = News
               /\ ~tab.modern => ws'.inbox = Append(ws.inbox, a)
<1> DEFINE r == Head(tab.requests)
           q == Tail(tab.requests)
           frame == IF r.method = "go" /\ tab.modern THEN "main" ELSE None
           a == AnswerTo(r, frame)
           o == <<a>>
           s == TabScripts(r)
<1>1. /\ UNCHANGED <<page, call, result, history>> /\ tab.requests # <<>> /\ tab.owed = <<>>
  BY DEF TabAnswers, ByTab
<1>2. r \in Request /\ r \in Asked /\ r.method \in Sync \cup {"click"}
  <2>1. r \in Request /\ 1 \in DOMAIN tab.requests /\ r = tab.requests[1]
    BY <1>1, FirstRequest DEF IInv, Types
  <2> QED BY <2>1 DEF Asked, In, Request
<1>3. a \in Message /\ a.type = "answer" /\ a.id = r.id /\ a.frame = frame
  <2>1. frame \in Frames \cup {None}
    BY DEF Frames
  <2> HIDE DEF r, frame
  <2>2. a \in Answers /\ a \in Message /\ a.id = r.id
    BY <1>2, <2>1, AnswerMade
  <2>3. a.type = "answer" /\ a.frame = frame
    BY DEF AnswerTo
  <2> QED BY <2>2, <2>3
<1> DEFINE l == IF r.method \in {"go", "click"} THEN r.of ELSE tab.loading
<1>4. \/ /\ Push(a) /\ tab' = [tab EXCEPT !.requests = q, !.scripts = s, !.loading = l]
      \/ /\ tab' = [tab EXCEPT !.requests = q, !.scripts = s, !.loading = l, !.owed = o]
         /\ tab.modern /\ UNCHANGED ws
  <2>0. PICK t \in TabType : t = tab
    BY DEF IInv, Types, TabTyped, TabType, Requests, Inboxes
  <2>00. /\ t.loading = tab.loading /\ t.scripts = tab.scripts /\ t.owed = tab.owed
         /\ t.requests = tab.requests
    BY <2>0
  <2>1. CASE /\ r.method # "go" /\ Push(AnswerTo(r, None))
             /\ tab' = [tab EXCEPT !.requests = q, !.scripts = s,
                                  !.loading = IF r.method = "click" THEN r.of ELSE @]
    <3>1. frame = None /\ l = IF r.method = "click" THEN r.of ELSE tab.loading
      BY <2>1
    <3>2. tab' = [tab EXCEPT !.requests = q, !.scripts = s, !.loading = l]
      BY <2>1, <3>1
    <3> QED BY <2>1, <3>1, <3>2
  <2>2. CASE /\ r.method = "go" /\ Push(AnswerTo(r, IF tab.modern THEN "main" ELSE None))
             /\ tab' = [tab EXCEPT !.requests = q, !.loading = r.of]
    <3>1. l = r.of /\ s = tab.scripts /\ a = AnswerTo(r, IF tab.modern THEN "main" ELSE None)
      BY <2>2 DEF TabScripts
    <3> HIDE DEF l, s, q, r, a
    <3>2. tab' = [t EXCEPT !.requests = q, !.loading = l]
      BY <2>0, <2>2, <3>1
    <3>3. [t EXCEPT !.requests = q, !.loading = l] = [t EXCEPT !.requests = q, !.scripts = s, !.loading = l]
      BY <2>00, <3>1 DEF TabType
    <3> QED BY <2>0, <2>2, <3>1, <3>2, <3>3
  <2>3. CASE /\ r.method = "go" /\ tab.modern
             /\ tab' = [tab EXCEPT !.requests = q, !.loading = r.of, !.owed = <<AnswerTo(r, "main")>>]
             /\ UNCHANGED ws
    <3>1. l = r.of /\ s = tab.scripts /\ o = <<AnswerTo(r, "main")>>
      BY <2>3 DEF TabScripts
    <3> HIDE DEF l, s, q, r, a, o
    <3>2. tab' = [t EXCEPT !.requests = q, !.loading = l, !.owed = o]
      BY <2>0, <2>3, <3>1
    <3>3. [t EXCEPT !.requests = q, !.loading = l, !.owed = o]
            = [t EXCEPT !.requests = q, !.scripts = s, !.loading = l, !.owed = o]
      BY <2>00, <3>1 DEF TabType
    <3> QED BY <2>0, <2>3, <3>2, <3>3
  <2> HIDE DEF l, a, o, frame
  <2> QED BY <2>1, <2>2, <2>3 DEF TabAnswers
<1> HIDE DEF r, q, frame, a, s, l
<1> PICK t \in TabType : t = tab
  BY DEF IInv, Types, TabTyped, TabType, Requests, Inboxes
<1>5. /\ tab'.modern = t.modern /\ tab'.ran = t.ran /\ tab'.requests = q
      /\ tab'.scripts = s /\ tab'.loading = l
  <2> HIDE DEF o
  <2>1. \/ tab' = [t EXCEPT !.requests = q, !.scripts = s, !.loading = l]
        \/ tab' = [t EXCEPT !.requests = q, !.scripts = s, !.loading = l, !.owed = o]
    BY <1>4
  <2> QED BY <2>1 DEF TabType
<1>6. \/ ws'.inbox = Append(ws.inbox, a) /\ tab'.owed = <<>>
      \/ ws'.inbox = ws.inbox /\ tab'.owed = <<a>> /\ tab.modern
  <2>1. CASE Push(a) /\ tab' = [t EXCEPT !.requests = q, !.scripts = s, !.loading = l]
    <3>1. tab'.owed = t.owed
      BY <2>1 DEF TabType
    <3> QED BY <1>1, <2>1, <3>1, PushDoes
  <2>2. CASE /\ tab' = [t EXCEPT !.requests = q, !.scripts = s, !.loading = l, !.owed = o]
             /\ tab.modern /\ UNCHANGED ws
    <3> HIDE DEF o
    <3>1. tab'.owed = o
      BY <2>2 DEF TabType
    <3> QED BY <2>2, <3>1 DEF o
  <2> QED BY <1>4, <2>1, <2>2
<1>7. Coming' = Coming \cup {a} /\ News' = News
  <2>1. In(<<>>) = {} /\ In(<<a>>) = {a}
    BY DEF In
  <2>2. Coming = {x \in In(ws.inbox) : x.type = "answer"}
    BY <1>1, <2>1 DEF Coming
  <2>3. CASE ws'.inbox = Append(ws.inbox, a) /\ tab'.owed = <<>>
    <3>1. ~Main(a)
      BY <1>3 DEF Main
    <3>2. /\ Coming' = {x \in In(ws.inbox) : x.type = "answer"} \cup {a} \cup In(tab'.owed)
          /\ News' = News
      BY <1>3, <2>3, <3>1, PushViews
    <3> QED BY <2>1, <2>2, <2>3, <3>2
  <2>4. CASE ws'.inbox = ws.inbox /\ tab'.owed = <<a>>
    <3>1. Coming' = {x \in In(ws.inbox) : x.type = "answer"} \cup In(tab'.owed) /\ News' = News
      BY <2>4 DEF Coming, News, In, Main
    <3> QED BY <2>1, <2>2, <2>4, <3>1
  <2> QED BY <1>6, <2>3, <2>4
<1> QED BY <1>1, <1>2, <1>3, <1>5, <1>6, <1>7 DEF r, q, frame, a, s, l

LEMMA LateDoes ==
    ASSUME IInv, TabAnswersLate
    PROVE  /\ UNCHANGED <<page, call, result, history>>
           /\ tab'.modern = tab.modern /\ tab'.ran = tab.ran /\ tab'.requests = tab.requests
           /\ tab'.scripts = tab.scripts /\ tab'.loading = tab.loading /\ tab'.owed = <<>>
           /\ Coming' \subseteq Coming /\ News' = News /\ Asked' = Asked
           /\ tab.owed # <<>> /\ \E m : ws'.inbox = Append(ws.inbox, m)
<1> DEFINE a == Head(tab.owed)
           o == <<>>
<1>1. /\ tab.owed # <<>> /\ Push(a) /\ tab' = [tab EXCEPT !.owed = o]
      /\ UNCHANGED <<page, call, result, history>>
  BY DEF TabAnswersLate, ByTab
<1> PICK t \in TabType : t = tab
  BY DEF IInv, Types, TabTyped, TabType, Requests, Inboxes
<1> HIDE DEF o
<1>2. /\ tab'.modern = t.modern /\ tab'.ran = t.ran /\ tab'.requests = t.requests
      /\ tab'.scripts = t.scripts /\ tab'.loading = t.loading /\ tab'.owed = o
  BY <1>1 DEF TabType
<1>3. a \in Answers /\ a \in In(tab.owed)
  <2>1. tab.owed \in Seq(Message)
    BY DEF IInv, Types, TabTyped, Inboxes
  <2>2. a = tab.owed[1] /\ 1 \in DOMAIN tab.owed
    BY <1>1, <2>1
  <2> QED BY <2>2 DEF IInv, Types, Owed, In
<1>4. a \in Message /\ a.type = "answer" /\ ~Main(a)
  BY <1>3 DEF Answers, Message, Main
<1> HIDE DEF a
<1>5. ws'.inbox = Append(ws.inbox, a)
  BY <1>1, PushDoes
<1>6. Coming' = {x \in In(ws.inbox) : x.type = "answer"} \cup {a} \cup In(tab'.owed) /\ News' = News
  BY <1>4, <1>5, PushViews
<1>7. In(tab'.owed) = {}
  BY <1>2 DEF In, o
<1>8. Coming' \subseteq Coming
  BY <1>3, <1>6, <1>7 DEF Coming
<1>9. Asked' = Asked
  BY <1>2 DEF Asked, In
<1> QED BY <1>1, <1>2, <1>5, <1>6, <1>8, <1>9 DEF o

LEMMA CommitsDoes ==
    ASSUME IInv, TabCommits
    PROVE  /\ UNCHANGED <<page, call, result, history>>
           /\ tab'.modern = tab.modern /\ tab'.requests = tab.requests /\ tab'.owed = tab.owed
           /\ tab'.scripts = tab.scripts /\ tab'.loading = 0 /\ tab'.ran = tab.scripts
           /\ Coming' = Coming /\ News' = News \cup {tab.loading} /\ Asked' = Asked
           /\ tab.loading # 0
           /\ \E m : Main(m) /\ m.of = tab.loading /\ ws'.inbox = Append(ws.inbox, m)
<1> DEFINE m == [type |-> "navigated", frame |-> "main", of |-> tab.loading]
           n == tab.shown + 1
<1>1. /\ Push(m) /\ UNCHANGED <<page, call, result, history>> /\ tab.loading # 0
      /\ tab' = [tab EXCEPT !.loading = 0, !.shown = n, !.ran = tab.scripts]
  BY DEF TabCommits, ByTab, IInv, Types, TabTyped
<1>2. m \in Message /\ Main(m) /\ m.of = tab.loading /\ m.type # "answer"
  BY <1>1 DEF TabCommits, IInv, Types, TabTyped, Message, Calls, Main
<1> PICK t \in TabType : t = tab
  BY DEF IInv, Types, TabTyped, TabType, Requests, Inboxes
<1> HIDE DEF n, m
<1>3. /\ tab'.modern = t.modern /\ tab'.requests = t.requests /\ tab'.owed = t.owed
      /\ tab'.scripts = t.scripts /\ tab'.loading = 0 /\ tab'.ran = t.scripts
  BY <1>1 DEF TabType
<1>4. ws'.inbox = Append(ws.inbox, m)
  BY <1>1, PushDoes
<1>5. /\ Coming' = {x \in In(ws.inbox) : x.type = "answer"} \cup In(tab'.owed)
      /\ News' = News \cup {m.of}
  BY <1>2, <1>4, PushViews
<1>6. Coming' = Coming /\ Asked' = Asked
  BY <1>3, <1>5 DEF Coming, Asked, In
<1> QED BY <1>1, <1>2, <1>3, <1>4, <1>5, <1>6

(* News of a subframe, or of a crash. *)
LEMMA OtherNewsDoes ==
    ASSUME IInv, SubframeCommits \/ TabCrashes
    PROVE  /\ UNCHANGED <<page, call, result, history>> /\ SameRest /\ tab'.requests = tab.requests
           /\ Coming' = Coming /\ News' = News /\ Asked' = Asked
           /\ \E m : ~Main(m) /\ ws'.inbox = Append(ws.inbox, m)
<1> PICK t \in TabType : t = tab
  BY DEF IInv, Types, TabTyped, TabType, Requests, Inboxes
<1>1. /\ UNCHANGED <<page, call, result, history>>
      /\ \E m \in Message : m.type # "answer" /\ ~Main(m) /\ Push(m)
      /\ tab'.requests = t.requests
      /\ tab'.modern = t.modern /\ tab'.owed = t.owed /\ tab'.loading = t.loading
      /\ tab'.scripts = t.scripts /\ tab'.ran = t.ran
  <2>1. CASE SubframeCommits
    <3> DEFINE m == [type |-> "navigated", frame |-> "sub", of |-> 0]
               n == tab.subs + 1
    <3>1. m \in Message /\ m.type # "answer" /\ ~Main(m)
      BY DEF Message, Main
    <3>2. /\ Push(m) /\ UNCHANGED <<page, call, result, history>>
          /\ tab' = [t EXCEPT !.subs = n]
      BY <2>1 DEF SubframeCommits, ByTab, TabType
    <3> HIDE DEF n, m
    <3>3. /\ tab'.requests = t.requests
          /\ tab'.modern = t.modern /\ tab'.owed = t.owed /\ tab'.loading = t.loading
          /\ tab'.scripts = t.scripts /\ tab'.ran = t.ran
      BY <3>2 DEF TabType
    <3> QED BY <3>1, <3>2, <3>3
  <2>2. CASE TabCrashes
    <3> DEFINE m == [type |-> "crashed"]
    <3>1. m \in Message /\ m.type # "answer" /\ ~Main(m)
      BY DEF Message, Main
    <3>2. /\ Push(m) /\ UNCHANGED <<page, call, result, history>>
          /\ tab' = [t EXCEPT !.alive = FALSE]
      BY <2>2 DEF TabCrashes, ByTab
    <3> HIDE DEF m
    <3>3. /\ tab'.requests = t.requests
          /\ tab'.modern = t.modern /\ tab'.owed = t.owed /\ tab'.loading = t.loading
          /\ tab'.scripts = t.scripts /\ tab'.ran = t.ran
      BY <3>2 DEF TabType
    <3> QED BY <3>1, <3>2, <3>3
  <2> QED BY <2>1, <2>2
<1>2. PICK m \in Message : m.type # "answer" /\ ~Main(m) /\ Push(m)
  BY <1>1
<1>3. ws'.inbox = Append(ws.inbox, m)
  BY <1>2, PushDoes
<1>4. /\ Coming' = {x \in In(ws.inbox) : x.type = "answer"} \cup In(tab'.owed)
      /\ News' = News
  BY <1>2, <1>3, PushViews
<1>5. Coming' = Coming /\ Asked' = Asked
  BY <1>1, <1>4 DEF Coming, Asked, In
<1> QED BY <1>1, <1>2, <1>3, <1>4, <1>5 DEF SameRest

-----------------------------------------------------------------------------
(* What keeps each part. *)

(* The call goes on as it was, or is over. *)
Still == call'.step = "idle" \/ (call'.step = call.step /\ SameNavigation)

LEMMA ApartKept ==
    ASSUME Apart, tab'.requests = tab.requests, Coming' \subseteq Coming
    PROVE  Apart'
<1>1. Asked' = Asked
  BY DEF Asked, In
<1> QED BY <1>1 DEF Apart

LEMMA DatedKept ==
    ASSUME IInv, Dated, Origins' \subseteq Origins \cup {0}, history'.calls = history.calls,
           call'.step # "idle" => call.step # "idle" /\ call'.of = call.of /\ call'.before = call.before
    PROVE  Dated'
<1>1. history.calls \in Nat
  BY BoundsAssumption DEF IInv, Types, HistoryTyped, HistoryType
<1>2. 0 \leq history.calls
  BY <1>1
<1> QED BY <1>2 DEF Dated

LEMMA AsksKept ==
    ASSUME Asks, Asked' \subseteq Asked,
           call'.step \in Setting => call'.step = call.step /\ call'.id = call.id /\ call'.of = call.of
    PROVE  Asks'
BY DEF Asks

LEMMA AnsweringKept ==
    ASSUME Answering, Coming' \subseteq Coming, tab'.modern = tab.modern,
           tab'.owed # <<>> => tab.modern,
           call'.step = "go" => call.step = "go" /\ call'.id = call.id
    PROVE  Answering'
<1>1. \A a \in Coming' :
          /\ a.frame \in {None, "main"}
          /\ a.id = call'.id /\ call'.step = "go" => a.frame = IF tab.modern THEN "main" ELSE None
  BY DEF Answering
<1> QED BY <1>1 DEF Answering

LEMMA NotGoneKept ==
    ASSUME IInv, NotGone,
           history'.seen \cup News' \cup {tab'.loading} \subseteq history.seen \cup News \cup {tab.loading, 0},
           call'.step \in Preparing => call'.step = call.step /\ call'.of = call.of
    PROVE  NotGone'
<1>1. call.step \in Preparing => call.of # 0
  BY DEF IInv, Types, CallTyped, Calls, Preparing
<1> QED BY <1>1 DEF NotGone

LEMMA OwnNavigationKept ==
    ASSUME IInv, OwnNavigation, Still, Asked' \subseteq Asked,
           News' \subseteq News \cup ({tab.loading} \ {0}), tab'.loading \in {tab.loading, 0} \cup {r.of : r \in Asked},
           call'.step = "go" /\ "main" \in page'.frames => call'.of \in history'.seen \/ ("main" \in page.frames /\ history.seen \subseteq history'.seen)
    PROVE  OwnNavigation'
<1> SUFFICES ASSUME Navigating' PROVE OwnNavigation!2'
  BY DEF OwnNavigation
<1>1. Navigating /\ call'.of = call.of /\ call'.step = call.step
  BY DEF Navigating, Still, SameNavigation
<1>2. /\ \A r \in Asked : r.of = call.of
      /\ News \subseteq {call.of}
      /\ tab.loading \in {0, call.of}
      /\ call.step = "go" /\ "main" \in page.frames => call.of \in history.seen
  BY <1>1 DEF OwnNavigation
<1>3. \A r \in Asked' : r.of = call'.of
  BY <1>1, <1>2
<1>4. News' \subseteq {call'.of} /\ tab'.loading \in {0, call'.of}
  BY <1>1, <1>2
<1>5. call'.step = "go" /\ "main" \in page'.frames => call'.of \in history'.seen
  BY <1>1, <1>2
<1> QED BY <1>3, <1>4, <1>5

(* The order of the answer and the news of a legacy tab. *)
LEMMA AnswerFirstTail ==
    ASSUME IInv, AnswerFirst, Still, ws.inbox # <<>>, ws'.inbox = Tail(ws.inbox), tab'.modern = tab.modern,
           tab'.loading = tab.loading,
           history'.seen \subseteq history.seen \cup (IF Main(Head(ws.inbox)) THEN {Head(ws.inbox).of} ELSE {}),
           call'.step = "go" /\ Head(ws.inbox).type = "answer" => Head(ws.inbox).id # call.id
    PROVE  AnswerFirst'
<1> SUFFICES ASSUME call'.step = "go", ~tab'.modern PROVE AnswerFirst!2'
  BY DEF AnswerFirst
<1> DEFINE q == ws.inbox
           t == Tail(q)
<1>1. q \in Seq(Message) /\ q # <<>>
  BY DEF IInv, Types, WsTyped, Inboxes
<1>2. call'.of = call.of /\ call'.id = call.id /\ call.step = "go"
  BY DEF Still, SameNavigation
<1>3. ws'.inbox = t
  OBVIOUS
<1>4. /\ call.of \notin history.seen
      /\ tab.loading = call.of => \E i \in DOMAIN q : AnswerAt(i)
      /\ \A j \in DOMAIN q : NewsAt(j) => \E i \in DOMAIN q : i < j /\ AnswerAt(i)
  BY <1>2 DEF AnswerFirst
<1>5. (\A i : AnswerAt(i) <=> q[i].type = "answer" /\ q[i].id = call.id)
      /\ (\A i : NewsAt(i) <=> Main(q[i]) /\ q[i].of = call.of)
  BY DEF AnswerAt, NewsAt
<1>6. (\A i : AnswerAt(i)' <=> t[i].type = "answer" /\ t[i].id = call.id)
      /\ (\A i : NewsAt(i)' <=> Main(t[i]) /\ t[i].of = call.of)
  BY <1>2 DEF AnswerAt, NewsAt, Main
<1> HIDE DEF q
<1>7. /\ 1 \in DOMAIN q /\ Head(q) = q[1] /\ \A i \in DOMAIN q : i \in Nat /\ i >= 1
      /\ \A i \in DOMAIN t : i \in Nat /\ i + 1 \in DOMAIN q /\ t[i] = q[i + 1]
      /\ \A i \in DOMAIN q : i # 1 => i - 1 \in DOMAIN t /\ t[i - 1] = q[i]
  BY <1>1
<1>8. ~AnswerAt(1)
  BY <1>5, <1>7 DEF q
<1>9. ~NewsAt(1)
  BY <1>4, <1>7
<1> HIDE DEF t
<1>10. \A i \in DOMAIN q : AnswerAt(i) => i # 1 /\ i - 1 \in DOMAIN t /\ AnswerAt(i - 1)'
  BY <1>5, <1>6, <1>7, <1>8
<1>11. \A j \in DOMAIN t : NewsAt(j)' => NewsAt(j + 1)
  BY <1>5, <1>6, <1>7
<1>12. call.of \notin history'.seen
  BY <1>4, <1>5, <1>7, <1>9 DEF q
<1>13. tab.loading = call.of => \E i \in DOMAIN t : AnswerAt(i)'
  BY <1>4, <1>10
<1>14. \A j \in DOMAIN t : NewsAt(j)' => \E i \in DOMAIN t : i < j /\ AnswerAt(i)'
  <2> SUFFICES ASSUME NEW j \in DOMAIN t, NewsAt(j)' PROVE \E i \in DOMAIN t : i < j /\ AnswerAt(i)'
    OBVIOUS
  <2>1. j + 1 \in DOMAIN q /\ NewsAt(j + 1) /\ j \in Nat
    BY <1>7, <1>11
  <2>2. PICK i \in DOMAIN q : i < j + 1 /\ AnswerAt(i)
    BY <1>4, <2>1
  <2>3. i - 1 \in DOMAIN t /\ AnswerAt(i - 1)' /\ i \in Nat
    BY <1>7, <1>10, <2>2
  <2>4. i - 1 < j
    BY <2>1, <2>2, <2>3
  <2> QED BY <2>3, <2>4
<1> QED BY <1>2, <1>3, <1>12, <1>13, <1>14

LEMMA AnswerFirstAppend ==
    ASSUME IInv, AnswerFirst, UNCHANGED <<call, history>>, tab'.modern = tab.modern,
           NEW m, ws'.inbox = Append(ws.inbox, m), call.of \in Calls,
           Main(m) => m.of = tab.loading,
           \/ tab'.loading \in {0, tab.loading}
           \/ tab'.loading # call.of
           \/ m.type = "answer" /\ m.id = call.id
    PROVE  AnswerFirst'
<1> SUFFICES ASSUME call.step = "go", ~tab.modern PROVE AnswerFirst!2'
  BY DEF AnswerFirst
<1> DEFINE q == ws.inbox
           a == Append(q, m)
           n == Len(q) + 1
<1>1. q \in Seq(Message)
  BY DEF IInv, Types, WsTyped, Inboxes
<1>2. /\ call.of \notin history.seen
      /\ tab.loading = call.of => \E i \in DOMAIN q : AnswerAt(i)
      /\ \A j \in DOMAIN q : NewsAt(j) => \E i \in DOMAIN q : i < j /\ AnswerAt(i)
  BY DEF AnswerFirst
<1>3. (\A i : AnswerAt(i) <=> q[i].type = "answer" /\ q[i].id = call.id)
      /\ (\A i : NewsAt(i) <=> Main(q[i]) /\ q[i].of = call.of)
  BY DEF AnswerAt, NewsAt
<1>4. (\A i : AnswerAt(i)' <=> a[i].type = "answer" /\ a[i].id = call.id)
      /\ (\A i : NewsAt(i)' <=> Main(a[i]) /\ a[i].of = call.of)
  BY DEF AnswerAt, NewsAt, Main
<1>5. ws'.inbox = a
  OBVIOUS
<1> HIDE DEF q
<1>6. /\ DOMAIN a = DOMAIN q \cup {n} /\ a[n] = m /\ n \in DOMAIN a
      /\ \A i \in DOMAIN q : a[i] = q[i] /\ i < n
  BY <1>1
<1> HIDE DEF a, n
<1>7. \A i \in DOMAIN q : i \in DOMAIN a /\ i < n /\ (AnswerAt(i)' <=> AnswerAt(i)) /\ (NewsAt(i)' <=> NewsAt(i))
  BY <1>3, <1>4, <1>6
<1>8. call.of # 0
  BY DEF Calls
<1>9. tab'.loading = call.of => \E i \in DOMAIN a : AnswerAt(i)'
  BY <1>2, <1>4, <1>6, <1>7, <1>8
<1>10. \A j \in DOMAIN a : NewsAt(j)' => \E i \in DOMAIN a : i < j /\ AnswerAt(i)'
  <2> SUFFICES ASSUME NEW j \in DOMAIN a, NewsAt(j)' PROVE \E i \in DOMAIN a : i < j /\ AnswerAt(i)'
    OBVIOUS
  <2>1. CASE j \in DOMAIN q
    BY <1>2, <1>7, <2>1
  <2>2. CASE j = n
    <3>1. tab.loading = call.of
      BY <1>4, <1>6, <2>2
    <3> QED BY <1>2, <1>7, <2>2, <3>1
  <2> QED BY <1>6, <2>1, <2>2
<1> QED BY <1>2, <1>5, <1>9, <1>10

LEMMA AnswerFirstSame ==
    ASSUME AnswerFirst, ws'.inbox = ws.inbox, tab'.modern = tab.modern, tab'.loading = tab.loading,
           history'.seen = history.seen, Still
    PROVE  AnswerFirst'
<1> SUFFICES ASSUME call'.step = "go", ~tab'.modern PROVE AnswerFirst!2'
  BY DEF AnswerFirst
<1>1. call'.of = call.of /\ call'.id = call.id /\ call.step = "go"
  BY DEF Still, SameNavigation
<1>2. AnswerFirst!2
  BY <1>1 DEF AnswerFirst
<1>3. \A i : (AnswerAt(i)' <=> AnswerAt(i)) /\ (NewsAt(i)' <=> NewsAt(i))
  BY <1>1 DEF AnswerAt, NewsAt, Main
<1> QED BY <1>1, <1>2, <1>3

LEMMA AnswerFirstElse ==
    ASSUME call'.step # "go" \/ tab'.modern
    PROVE  AnswerFirst'
BY DEF AnswerFirst

-----------------------------------------------------------------------------
(* Every action keeps the invariant of the navigations. *)

(* A message is read, and no request is sent for it. *)
LEMMA ReadG ==
    ASSUME IInv, GInv, Still, ws.inbox # <<>>, ws'.inbox = Tail(ws.inbox), UNCHANGED tab,
           call.step # "idle", history'.calls = history.calls,
           history'.seen = history.seen \cup (IF Main(Head(ws.inbox)) THEN {Head(ws.inbox).of} ELSE {}),
           call'.step = "go" /\ Head(ws.inbox).type = "answer" => Head(ws.inbox).id # call.id,
           call'.step = "wait" => page'.pending, page'.frameId \in {None, "main"},
           "main" \in page'.frames => "main" \in page.frames \/ Main(Head(ws.inbox))
    PROVE  GInv'
<1>1. /\ Coming' \subseteq Coming /\ News' \subseteq News /\ Asked' = Asked
      /\ Main(Head(ws.inbox)) => Head(ws.inbox).of \in News
  BY TakeViews, SameTabRest
<1>2. history'.seen \subseteq history.seen \cup News
  BY <1>1
<1>3. Apart'
  BY <1>1, ApartKept DEF GInv
<1>4. Dated'
  <2>1. Origins' \subseteq Origins \cup {0}
    BY <1>1, <1>2 DEF Origins
  <2> QED BY <2>1, DatedKept DEF GInv, Still, SameNavigation
<1>5. Waits'
  BY DEF GInv, Waits, Still, SameNavigation, Setting
<1>6. Asks'
  BY <1>1, AsksKept DEF GInv, Still, SameNavigation, Setting
<1>7. Answering'
  <2>1. tab'.owed # <<>> => tab.modern
    BY DEF GInv, Answering
  <2> QED BY <1>1, <2>1, AnsweringKept DEF GInv, Still, SameNavigation
<1>8. NotGone'
  BY <1>1, <1>2, NotGoneKept DEF GInv, Still, SameNavigation, Preparing
<1>9. AnswerFirst'
  BY AnswerFirstTail DEF GInv
<1>10. OwnNavigation'
  <2>1. Navigating' => Navigating /\ call'.of = call.of /\ News \subseteq {call.of}
    BY DEF Navigating, Still, SameNavigation, GInv, OwnNavigation
  <2>2. CASE ~Navigating'
    BY <2>2 DEF OwnNavigation
  <2>3. CASE Navigating'
    <3>1. Main(Head(ws.inbox)) => call'.of \in history'.seen
      BY <1>1, <2>1, <2>3
    <3>2. "main" \in page'.frames => call'.of \in history'.seen \/ ("main" \in page.frames /\ history.seen \subseteq history'.seen)
      BY <3>1
    <3> QED BY <1>1, <3>2, OwnNavigationKept DEF GInv
  <2> QED BY <2>2, <2>3
<1> QED BY <1>3, <1>4, <1>5, <1>6, <1>7, <1>8, <1>9, <1>10 DEF GInv

(* What a notification does to the page. *)
LEMMA NotedPage ==
    ASSUME IInv, GInv, NEW f \in Frames, NEW u, page' = OnNotification(page, f, u)
    PROVE  /\ page'.frameId \in {None, "main"}
           /\ "main" \in page'.frames => "main" \in page.frames \/ f = "main"
           /\ page.pending /\ ~page'.pending => f = "main"
<1> PICK p \in PageType : p = page
  BY DEF IInv, Types, PageTyped
<1>1. p.frameId \in {None, "main"} /\ p.frameId # None => p.frameId = "main"
  BY DEF GInv, Waits
<1>2. f \in {"main", "sub"} /\ None = "none"
  BY DEF Frames, None
<1>3. CASE p.tracking /\ p.frameId = f
  <2>1. page' = [p EXCEPT !.frameId = None, !.tracking = FALSE, !.frames = {}, !.pending = FALSE]
    BY <1>3 DEF OnNotification, Over, NotTracking
  <2>2. page'.frameId = None /\ page'.frames = {}
    BY <2>1 DEF PageType
  <2>3. f = "main"
    BY <1>2, <1>3 DEF GInv, Waits
  <2> QED BY <2>2, <2>3
<1>4. CASE p.tracking /\ p.frameId # f
  <2>1. page' = [p EXCEPT !.frames = p.frames \cup {f}]
    BY <1>4 DEF OnNotification
  <2>2. page'.frameId = p.frameId /\ page'.frames = p.frames \cup {f} /\ page'.pending = p.pending
    BY <2>1 DEF PageType
  <2> QED BY <2>2 DEF GInv, Waits
<1>5. CASE ~p.tracking
  <2>1. \/ page' = [p EXCEPT !.url = 0, !.pending = FALSE] /\ f = "main"
        \/ page' = [p EXCEPT !.pending = FALSE] /\ f = "main"
        \/ page' = p
    BY <1>5 DEF OnNotification, Over
  <2>2. /\ page'.frameId = p.frameId /\ page'.frames = p.frames
        /\ page'.pending = p.pending \/ f = "main"
    BY <2>1 DEF PageType
  <2> QED BY <2>2 DEF GInv, Waits
<1> QED BY <1>3, <1>4, <1>5

LEMMA LoopStill ==
    ASSUME IInv, NEW after, Loop(after)
    PROVE  Still /\ (call'.step = "wait" => after.pending)
BY LoopDoes DEF Still, Ends, SameNavigation

LEMMA NavigatedG ==
    ASSUME IInv, GInv, ReceiveNavigated
    PROVE  GInv'
<1> DEFINE m == Head(ws.inbox)
<1>1. /\ ws.inbox # <<>> /\ call.step # "idle" /\ m \in Message /\ m.type = "navigated"
      /\ page' = OnNotification(page, m.frame, m.of) /\ m.frame \in Frames
      /\ history'.seen = (IF m.frame = "main" THEN history.seen \cup {m.of} ELSE history.seen)
      /\ history'.calls = history.calls /\ history'.failed = history.failed
      /\ ws'.inbox = Tail(ws.inbox) /\ Loop(page') /\ UNCHANGED tab
  BY NavigatedDoes
<1>2. Still /\ (call'.step = "wait" => page'.pending)
  BY <1>1, LoopStill
<1>3. page'.frameId \in {None, "main"} /\ ("main" \in page'.frames => "main" \in page.frames \/ m.frame = "main")
  <2> DEFINE f == m.frame
             u == m.of
  <2> HIDE DEF m
  <2>1. f \in Frames /\ page' = OnNotification(page, f, u)
    BY <1>1
  <2> HIDE DEF f, u
  <2>2. page'.frameId \in {None, "main"} /\ ("main" \in page'.frames => "main" \in page.frames \/ f = "main")
    BY <2>1, NotedPage
  <2> QED BY <2>2 DEF f
<1>4. Main(m) <=> m.frame = "main"
  BY <1>1 DEF Main
<1>5. history'.seen = history.seen \cup (IF Main(m) THEN {m.of} ELSE {})
  BY <1>1, <1>4
<1>6. m.type # "answer"
  BY <1>1
<1> QED BY <1>1, <1>2, <1>3, <1>4, <1>5, <1>6, ReadG

LEMMA OtherG ==
    ASSUME IInv, GInv, ReceiveOther
    PROVE  GInv'
<1>1. /\ ws.inbox # <<>> /\ Head(ws.inbox).type = "answer" /\ call.step # "idle"
      /\ call.step \in Sync => Head(ws.inbox).id # call.id
      /\ ws'.inbox = Tail(ws.inbox) /\ Loop(page) /\ UNCHANGED <<history, page, tab>>
  BY OtherDoes
<1>2. Still /\ (call'.step = "wait" => page'.pending)
  BY <1>1, LoopStill
<1>3. ~Main(Head(ws.inbox))
  BY <1>1 DEF Main
<1>4. call'.step = "go" => Head(ws.inbox).id # call.id
  BY <1>1, <1>2 DEF Still, Sync
<1>5. page'.frameId \in {None, "main"}
  BY <1>1 DEF GInv, Waits
<1> QED BY <1>1, <1>2, <1>3, <1>4, <1>5, ReadG

LEMMA CrashedG ==
    ASSUME IInv, GInv, ReceiveCrashed
    PROVE  GInv'
<1>1. /\ Fails /\ Ends("crashed") /\ SameNavigation /\ ws.inbox # <<>> /\ ws'.inbox = Tail(ws.inbox)
  BY CrashedDoes
<1>2. ~Main(Head(ws.inbox)) /\ call.step # "idle"
  BY DEF ReceiveCrashed, Arrived, Waiting, Main
<1>3. Still /\ call'.step = "idle" /\ history'.calls = history.calls
      /\ history'.seen = history.seen /\ UNCHANGED <<page, tab>>
  BY <1>1 DEF Still, Ends, Fails
<1>4. page'.frameId \in {None, "main"}
  BY <1>3 DEF GInv, Waits
<1> QED BY <1>1, <1>2, <1>3, <1>4, ReadG

LEMMA EvaluatedG ==
    ASSUME IInv, GInv, EvaluateAnswered
    PROVE  GInv'
<1>1. /\ Answered("evaluate") /\ Ends("ok") /\ SameNavigation
      /\ ws'.inbox = Tail(ws.inbox) /\ UNCHANGED <<page, tab>>
  BY EvaluatedDoes
<1>2. /\ ws.inbox # <<>> /\ Head(ws.inbox).type = "answer" /\ call.step = "evaluate" /\ UNCHANGED history
  BY <1>1, AnsweredDoes DEF Sync
<1>3. ~Main(Head(ws.inbox)) /\ Still /\ call'.step = "idle"
  BY <1>1, <1>2 DEF Main, Still, Ends
<1>4. page'.frameId \in {None, "main"}
  BY <1>1 DEF GInv, Waits
<1> QED BY <1>1, <1>2, <1>3, <1>4, ReadG

(* Nothing is read: the time of a call is up. *)
LEMMA QuietG ==
    ASSUME IInv, GInv, Still, ws'.inbox = ws.inbox, UNCHANGED <<page, tab>>,
           history'.seen = history.seen, history'.calls = history.calls
    PROVE  GInv'
<1>1. Coming' = Coming /\ News' = News /\ Asked' = Asked
  BY SameViews, SameTabRest
<1>2. Apart'
  BY <1>1, ApartKept DEF GInv
<1>3. Dated'
  <2>1. Origins' \subseteq Origins \cup {0}
    BY <1>1 DEF Origins
  <2> QED BY <2>1, DatedKept DEF GInv, Still, SameNavigation
<1>4. Waits'
  BY DEF GInv, Waits, Still, SameNavigation, Setting
<1>5. Asks'
  BY <1>1, AsksKept DEF GInv, Still, SameNavigation, Setting
<1>6. Answering'
  <2>1. tab'.owed # <<>> => tab.modern
    BY DEF GInv, Answering
  <2> QED BY <1>1, <2>1, AnsweringKept DEF GInv, Still, SameNavigation
<1>7. NotGone'
  BY <1>1, NotGoneKept DEF GInv, Still, SameNavigation, Preparing
<1>8. AnswerFirst'
  BY AnswerFirstSame DEF GInv
<1>9. OwnNavigation'
  BY <1>1, OwnNavigationKept DEF GInv
<1> QED BY <1>2, <1>3, <1>4, <1>5, <1>6, <1>7, <1>8, <1>9 DEF GInv

LEMMA TimedOutG ==
    ASSUME IInv, GInv, Timeout \/ TimeIsUp
    PROVE  GInv'
<1>1. CASE Timeout
  <2>1. Fails /\ SameNavigation /\ ws'.inbox = ws.inbox /\ call'.step = "idle"
    BY <1>1, TimeoutDoes DEF Ends
  <2> QED BY <2>1, QuietG DEF Still, Fails
<1>2. CASE TimeIsUp
  <2>1. Fails /\ SameNavigation /\ ws'.inbox = ws.inbox /\ call'.step = call.step
    BY <1>2, TimeIsUpDoes
  <2> QED BY <2>1, QuietG DEF Still, Fails
<1> QED BY <1>1, <1>2

LEMMA StutterG ==
    ASSUME IInv, GInv, UNCHANGED vars
    PROVE  GInv'
BY QuietG DEF vars, Still, SameNavigation

(* A new call, and a number not yet given out. *)
LEMMA Numbers ==
    ASSUME IInv
    PROVE  history.calls \in Nat /\ Origins \subseteq Nat
<1>1. history.calls \in Nat /\ tab.loading \in Nat /\ history.seen \subseteq Nat
  BY BoundsAssumption DEF IInv, Types, HistoryTyped, HistoryType, TabTyped, Calls
<1>2. News \subseteq Nat /\ \A r \in Asked : r.of \in Nat
  BY Views DEF Request, Calls
<1> QED BY <1>1, <1>2 DEF Origins

LEMMA Unused ==
    ASSUME IInv, GInv
    PROVE  /\ \A m \in Asked : m.id # ws.next
           /\ \A m \in Coming : m.id # ws.next
           /\ \A n \in Origins : n # history.calls + 1
<1>1. history.calls \in Nat /\ ws.next \in Nat /\ Origins \subseteq Nat
  BY Numbers DEF IInv, Types, WsTyped
<1>2. \A m \in Asked : m.id < ws.next /\ m.id \in Nat
  BY Views DEF Fits, Request
<1>3. \A m \in Coming : m.id < ws.next /\ m.id \in Nat
  BY Views DEF Fits, Answers
<1>4. \A n \in Origins : n # history.calls + 1
  BY <1>1 DEF GInv, Dated
<1> QED BY <1>1, <1>2, <1>3, <1>4

LEMMA AloneMeans ==
    ASSUME IInv, Alone
    PROVE  Asked = {} /\ News = {} /\ tab.loading = 0
<1>1. tab.loading = 0 /\ tab.requests = <<>> /\ \A x \in In(ws.inbox) : x.type = "answer"
  BY DEF Alone, In
<1>2. News = {}
  BY <1>1 DEF News, Main
<1>3. Asked = {}
  BY <1>1 DEF Asked, In
<1> QED BY <1>1, <1>2, <1>3

LEMMA OpenedG ==
    ASSUME IInv, GInv, NEW kind, NEW step \in Sync, NEW script, Opened(kind, step, script),
           NEW method, NEW sent, Posted(method, sent), ws'.inbox = ws.inbox,
           step \in Setting => method = step /\ kind = "navigate",
           step = "evaluate" => kind \in {"evaluate", "click"},
           page'.frameId = page.frameId, step = "go" => page'.frames = {}
    PROVE  GInv'
<1> DEFINE r == [id |-> ws.next, of |-> call'.of, method |-> method, script |-> sent]
           n == history.calls + 1
<1>1. /\ r \in Request /\ r.id = ws.next /\ r.of = n /\ r.method = method
      /\ tab'.requests = Append(tab.requests, r) /\ SameRest
  BY DEF Posted, Opened
<1>2. /\ call'.kind = kind /\ call'.of = n /\ call'.step = step /\ call'.id = ws.next
      /\ call'.alone = Alone /\ call'.before = history.seen
      /\ history'.calls = n /\ history'.seen = history.seen
  BY DEF Opened
<1> HIDE DEF r
<1>3. Coming' = Coming /\ News' = News
  BY <1>1, SameViews DEF SameRest
<1>4. Asked' = Asked \cup {r} /\ Apart'
  BY <1>1, <1>3, SendViews DEF GInv
<1>5. /\ \A m \in Asked : m.id # ws.next
      /\ \A m \in Coming : m.id # ws.next
      /\ \A o \in Origins : o # n
  BY Unused
<1>6. history.calls \in Nat /\ n = history.calls + 1 /\ Origins \subseteq Nat
  BY Numbers
<1>7. Dated'
  <2>1. Origins' = Origins \cup {n}
    BY <1>1, <1>2, <1>3, <1>4 DEF Origins, SameRest
  <2>2. \A o \in Origins : o \leq history.calls
    BY DEF GInv, Dated
  <2> HIDE DEF n
  <2>3. \A o \in Origins \cup {n} : o \leq n
    <3>1. n \in Nat /\ history.calls < n
      BY <1>6
    <3> QED BY <1>6, <2>2, <3>1
  <2>4. n \notin history.seen
    BY <1>5 DEF Origins
  <2> QED BY <1>2, <2>1, <2>3, <2>4 DEF Dated
<1> HIDE DEF n
<1>8. Waits'
  BY <1>2 DEF GInv, Waits, Sync
<1>9. Asks'
  <2> SUFFICES ASSUME NEW x \in Asked', call'.step \in Setting
      PROVE /\ x.id = call'.id => x.method = call'.step
            /\ x.of = call'.of /\ x.method \in {"go", "click"} => call'.step = "go" /\ x.id = call'.id
    BY DEF Asks
  <2>1. CASE x = r
    BY <1>1, <1>2, <2>1 DEF Setting
  <2>2. CASE x \in Asked
    <3>1. x.of \in Origins
      BY <2>2 DEF Origins
    <3> QED BY <1>2, <1>5, <2>2, <3>1
  <2> QED BY <1>4, <2>1, <2>2
<1>10. Answering'
  <2>1. \A a \in Coming' : a.frame \in {None, "main"} /\ a.id # call'.id
    BY <1>2, <1>3, <1>5 DEF GInv, Answering
  <2>2. tab'.owed # <<>> => tab'.modern
    BY <1>1 DEF GInv, Answering, SameRest
  <2> QED BY <2>1, <2>2 DEF Answering
<1>11. n \notin history'.seen \cup News' \cup {tab'.loading}
  BY <1>1, <1>2, <1>3, <1>5 DEF Origins, SameRest
<1>12. NotGone'
  BY <1>2, <1>11 DEF NotGone
<1>13. AnswerFirst'
  <2>1. \A j \in DOMAIN ws'.inbox : ~NewsAt(j)'
    <3>1. \A j \in DOMAIN ws'.inbox : Main(ws'.inbox[j]) => ws'.inbox[j].of \in News'
      BY DEF News, In, Main
    <3>2. \A j \in DOMAIN ws'.inbox : NewsAt(j)' => Main(ws'.inbox[j]) /\ ws'.inbox[j].of = n
      BY <1>2 DEF NewsAt, Main
    <3> QED BY <1>11, <3>1, <3>2
  <2> QED BY <1>2, <1>11, <2>1 DEF AnswerFirst
<1>14. OwnNavigation'
  <2> SUFFICES ASSUME Navigating' PROVE OwnNavigation!2'
    BY DEF OwnNavigation
  <2>1. Alone
    BY <1>2 DEF Navigating
  <2>2. Asked' = {r} /\ News' = {} /\ tab'.loading = 0
    BY <1>1, <1>3, <1>4, <2>1, AloneMeans DEF SameRest
  <2>3. "main" \in page'.frames => call'.step # "go"
    BY <1>2
  <2> QED BY <1>1, <1>2, <2>2, <2>3
<1> QED BY <1>4, <1>7, <1>8, <1>9, <1>10, <1>12, <1>13, <1>14 DEF GInv

LEMMA FramesKept ==
    ASSUME IInv
    PROVE  /\ StartsTracking(page).frameId = page.frameId /\ StartsTracking(page).frames = {}
           /\ StartsTracking(page).tracking /\ StartsTracking(page).script = page.script
<1> PICK p \in PageType : p = page
  BY DEF IInv, Types, PageTyped
<1> QED BY DEF PageType, StartsTracking

LEMMA NavigateG ==
    ASSUME IInv, GInv, NEW script \in Scripts \cup {None}, Navigate(script)
    PROVE  GInv'
<1> DEFINE step == FirstStep(script)
           sent == IF step = "remove" THEN page.script ELSE script
<1>1. /\ Opened("navigate", step, script) /\ Posted(step, sent) /\ ws'.inbox = ws.inbox
      /\ page' = IF step = "go" THEN StartsTracking(page) ELSE page
  BY NavigateDoes
<1>2. step \in Sync /\ step # "evaluate"
  BY DEF FirstStep, Sync
<1> HIDE DEF step, sent
<1>3. page'.frameId = page.frameId /\ (step = "go" => page'.frames = {})
  BY <1>1, FramesKept
<1> QED BY <1>1, <1>2, <1>3, OpenedG

LEMMA EvaluateG ==
    ASSUME IInv, GInv, NEW kind \in {"evaluate", "click"}, Evaluate(kind)
    PROVE  GInv'
<1>1. Opened(kind, "evaluate", None) /\ Posted(kind, None) /\ ws'.inbox = ws.inbox /\ UNCHANGED page
  BY EvaluateDoes
<1>2. "evaluate" \in Sync /\ "evaluate" \notin Setting
  BY DEF Sync, Setting
<1> QED BY <1>1, <1>2, OpenedG

LEMMA WaitG ==
    ASSUME IInv, GInv, WaitForNavigate
    PROVE  GInv'
<1> DEFINE n == history.calls + 1
<1> PICK p \in PageType : p = page
  BY DEF IInv, Types, PageTyped
<1>1. /\ Opened("wait", "wait", None) /\ UNCHANGED <<ws, tab>>
      /\ page' = [p EXCEPT !.pending = TRUE]
  BY WaitDoes
<1>2. /\ call'.kind = "wait" /\ call'.of = n /\ call'.step = "wait" /\ call'.id = ws.next
      /\ call'.before = history.seen /\ history'.calls = n /\ history'.seen = history.seen
  BY <1>1 DEF Opened
<1>3. page'.pending /\ page'.frameId = p.frameId
  BY <1>1 DEF PageType
<1>4. Coming' = Coming /\ News' = News /\ Asked' = Asked
  BY <1>1, SameViews, SameTabRest
<1>5. Apart'
  BY <1>1, <1>4, ApartKept DEF GInv
<1>6. Dated'
  <2>1. Origins' = Origins
    BY <1>1, <1>2, <1>4 DEF Origins
  <2>2. \A o \in Origins : o \leq history.calls /\ o # n
    BY Unused DEF GInv, Dated
  <2>3. history.calls \in Nat /\ Origins \subseteq Nat
    BY Numbers
  <2>4. \A o \in Origins : o \leq n
    BY <2>2, <2>3
  <2>5. n \notin history.seen
    BY <2>2 DEF Origins
  <2> HIDE DEF n
  <2> QED BY <1>2, <2>1, <2>4, <2>5 DEF Dated
<1> HIDE DEF n
<1>7. Waits'
  BY <1>2, <1>3 DEF GInv, Waits, Setting
<1>8. Asks' /\ NotGone' /\ AnswerFirst'
  BY <1>2 DEF Asks, NotGone, AnswerFirst, Setting, Preparing
<1>9. Answering'
  BY <1>1, <1>2, <1>4 DEF GInv, Answering
<1>10. OwnNavigation'
  BY <1>2 DEF OwnNavigation, Navigating
<1> QED BY <1>5, <1>6, <1>7, <1>8, <1>9, <1>10 DEF GInv

(* An answer is read, and the next request of the call goes out. *)
LEMMA ProceedG ==
    ASSUME IInv, GInv, NEW old \in Preparing, Answered(old), NEW step \in {"add", "go"}, NEW sent,
           Resumed(step), call'.id = ws.next, Posted(step, sent), ws'.inbox = Tail(ws.inbox),
           page'.frameId = page.frameId, step = "go" => page'.frames = {}
    PROVE  GInv'
<1> DEFINE r == [id |-> ws.next, of |-> call'.of, method |-> step, script |-> sent]
<1>1. /\ call'.step = step /\ call'.of = call.of /\ call'.kind = call.kind
      /\ call'.alone = call.alone /\ call'.before = call.before
  BY DEF Resumed
<1>2. /\ r \in Request /\ r.id = ws.next /\ r.of = call.of /\ r.method = step
      /\ tab'.requests = Append(tab.requests, r) /\ SameRest
  BY <1>1 DEF Posted
<1> HIDE DEF r
<1>3. /\ ws.inbox # <<>> /\ call.step = old /\ UNCHANGED history /\ old \in {"remove", "add"}
  BY AnsweredDoes DEF Preparing, Sync
<1>4. Coming' \subseteq Coming /\ News' \subseteq News
  BY <1>2, <1>3, TakeViews DEF SameRest
<1>5. Asked' = Asked \cup {r} /\ Apart'
  BY <1>2, <1>4, SendViews DEF GInv
<1>6. /\ \A m \in Asked : m.id # ws.next
      /\ \A m \in Coming : m.id # ws.next
  BY Unused
<1>7. Dated'
  <2>1. Origins' \subseteq Origins \cup {call.of}
    BY <1>2, <1>3, <1>4, <1>5 DEF Origins, SameRest
  <2>2. call.of = history.calls /\ history.calls \in Nat
    BY <1>3, BoundsAssumption DEF IInv, Types, CallTyped, HistoryTyped, HistoryType
  <2>3. call.of \leq history.calls
    BY <2>2
  <2>4. (\A o \in Origins : o \leq history.calls) /\ call.of \notin call.before
    BY <1>3 DEF GInv, Dated
  <2>5. \A o \in Origins' : o \leq history'.calls
    BY <1>3, <2>1, <2>3, <2>4
  <2> QED BY <1>1, <2>4, <2>5 DEF Dated
<1>8. Waits'
  BY <1>1, <1>3 DEF GInv, Waits, Setting
<1>9. Asks'
  <2> SUFFICES ASSUME NEW x \in Asked', call'.step \in Setting
      PROVE /\ x.id = call'.id => x.method = call'.step
            /\ x.of = call'.of /\ x.method \in {"go", "click"} => call'.step = "go" /\ x.id = call'.id
    BY DEF Asks
  <2>1. CASE x = r
    BY <1>1, <1>2, <2>1
  <2>2. CASE x \in Asked
    <3>1. ~(x.of = call.of /\ x.method \in {"go", "click"})
      BY <1>3, <2>2 DEF GInv, Asks, Setting
    <3> QED BY <1>1, <1>6, <2>2, <3>1
  <2> QED BY <1>5, <2>1, <2>2
<1>10. Answering'
  <2>1. \A a \in Coming' : a.frame \in {None, "main"} /\ a.id # call'.id
    BY <1>4, <1>6 DEF GInv, Answering
  <2>2. tab'.owed # <<>> => tab'.modern
    BY <1>2 DEF GInv, Answering, SameRest
  <2> QED BY <2>1, <2>2 DEF Answering
<1>11. call.of \notin history'.seen \cup News' \cup {tab'.loading}
  BY <1>2, <1>3, <1>4 DEF GInv, NotGone, SameRest, Preparing
<1>12. NotGone'
  BY <1>1, <1>11 DEF NotGone
<1>13. AnswerFirst'
  <2>1. \A j \in DOMAIN ws'.inbox : ~NewsAt(j)'
    <3>1. \A j \in DOMAIN ws'.inbox : Main(ws'.inbox[j]) => ws'.inbox[j].of \in News'
      BY DEF News, In, Main
    <3>2. \A j \in DOMAIN ws'.inbox : NewsAt(j)' => Main(ws'.inbox[j]) /\ ws'.inbox[j].of = call.of
      BY <1>1 DEF NewsAt, Main
    <3> QED BY <1>11, <3>1, <3>2
  <2> QED BY <1>1, <1>11, <2>1 DEF AnswerFirst
<1>14. OwnNavigation'
  <2> SUFFICES ASSUME Navigating' PROVE OwnNavigation!2'
    BY DEF OwnNavigation
  <2>1. Navigating
    BY <1>1, <1>3 DEF Navigating
  <2>2. (\A x \in Asked : x.of = call.of) /\ News \subseteq {call.of} /\ tab.loading \in {0, call.of}
    BY <2>1 DEF GInv, OwnNavigation
  <2>3. "main" \in page'.frames => call'.step # "go"
    BY <1>1
  <2> QED BY <1>1, <1>2, <1>4, <1>5, <2>2, <2>3 DEF SameRest
<1> QED BY <1>5, <1>7, <1>8, <1>9, <1>10, <1>12, <1>13, <1>14 DEF GInv

(* The page, with a script or none in its memory. *)
LEMMA ScriptPage ==
    ASSUME IInv, NEW s
    PROVE  LET p == [page EXCEPT !.script = s]
           IN  /\ p.frameId = page.frameId /\ p.script = s /\ p.tracking = page.tracking
               /\ p.frames = page.frames /\ p.pending = page.pending
               /\ StartsTracking(p).frameId = page.frameId /\ StartsTracking(p).frames = {}
               /\ StartsTracking(p).tracking /\ StartsTracking(p).script = s
<1> PICK p \in PageType : p = page
  BY DEF IInv, Types, PageTyped
<1> QED BY DEF PageType, StartsTracking

LEMMA ScriptG ==
    ASSUME IInv, GInv, ScriptRemoved \/ ScriptAdded
    PROVE  GInv'
<1>1. CASE ScriptRemoved
  <2> DEFINE step == IF call.script = None THEN "go" ELSE "add"
             p == [page EXCEPT !.script = None]
  <2>1. /\ Answered("remove") /\ Resumed(step) /\ call'.id = ws.next
        /\ Posted(step, call.script) /\ ws'.inbox = Tail(ws.inbox) /\ UNCHANGED result
        /\ page' = IF step = "go" THEN StartsTracking(p) ELSE p
    BY <1>1, RemovedDoes
  <2>2. step \in {"add", "go"} /\ "remove" \in Preparing
    BY DEF Preparing
  <2>3. page'.frameId = page.frameId /\ (step = "go" => page'.frames = {})
    BY <2>1, ScriptPage
  <2> HIDE DEF step, p
  <2> QED BY <2>1, <2>2, <2>3, ProceedG
<1>2. CASE ScriptAdded
  <2>1. /\ Answered("add") /\ Resumed("go") /\ call'.id = ws.next
        /\ Posted("go", None) /\ ws'.inbox = Tail(ws.inbox) /\ UNCHANGED result
        /\ page' = StartsTracking([page EXCEPT !.script = call.script])
    BY <1>2, AddedDoes
  <2>2. "go" \in {"add", "go"} /\ "add" \in Preparing
    BY DEF Preparing
  <2>3. page'.frameId = page.frameId /\ page'.frames = {}
    BY <2>1, ScriptPage
  <2> QED BY <2>1, <2>2, <2>3, ProceedG
<1> QED BY <1>1, <1>2

(* Page.navigate is answered. *)
LEMMA NotTrackingPage ==
    ASSUME IInv
    PROVE  /\ NotTracking(page).frameId = page.frameId /\ NotTracking(page).frames = {}
           /\ NotTracking(page).pending = page.pending /\ NotTracking(page).script = page.script
           /\ ~NotTracking(page).tracking
<1> PICK p \in PageType : p = page
  BY DEF IInv, Types, PageTyped
<1> QED BY DEF PageType, NotTracking

LEMMA AwaitedPage ==
    ASSUME IInv, NEW f, page' = IF f # None
                                THEN [page EXCEPT !.frameId = f, !.pending = TRUE]
                                ELSE [NotTracking(page) EXCEPT !.url = call.of, !.pending = TRUE]
    PROVE  /\ page'.pending /\ page'.script = page.script
           /\ f # None => page'.frameId = f /\ page'.tracking = page.tracking /\ page'.frames = page.frames
           /\ f = None => page'.frameId = page.frameId /\ ~page'.tracking /\ page'.frames = {}
<1> PICK p \in PageType : p = page
  BY DEF IInv, Types, PageTyped
<1>1. CASE f # None
  <2>1. page' = [p EXCEPT !.frameId = f, !.pending = TRUE]
    BY <1>1
  <2> QED BY <1>1, <2>1 DEF PageType
<1>2. CASE f = None
  <2>1. page' = [p EXCEPT !.tracking = FALSE, !.frames = {}, !.url = call.of, !.pending = TRUE]
    BY <1>2 DEF NotTracking
  <2> QED BY <1>2, <2>1 DEF PageType
<1> QED BY <1>1, <1>2

LEMMA GoneG ==
    ASSUME IInv, GInv, NavigateAnswered
    PROVE  GInv'
<1> DEFINE f == Head(ws.inbox).frame
<1>1. /\ Answered("go") /\ ws'.inbox = Tail(ws.inbox) /\ UNCHANGED tab
      /\ \/ page' = NotTracking(page) /\ Ends("ok") /\ SameNavigation
         \/ /\ page' = IF f # None
                       THEN [page EXCEPT !.frameId = f, !.pending = TRUE]
                       ELSE [NotTracking(page) EXCEPT !.url = call.of, !.pending = TRUE]
            /\ SameNavigation /\ call'.step = "wait"
  BY GoneDoes
<1>2. /\ ws.inbox # <<>> /\ Head(ws.inbox).type = "answer" /\ call.step = "go" /\ UNCHANGED history
  BY <1>1, AnsweredDoes DEF Sync
<1>3. Coming' \subseteq Coming /\ News' \subseteq News /\ Asked' = Asked /\ Head(ws.inbox) \in Coming
  BY <1>1, <1>2, TakeViews, SameTabRest
<1>4. f \in {None, "main"}
  BY <1>3 DEF GInv, Answering
<1> HIDE DEF f
<1>5. CASE page' = NotTracking(page) /\ Ends("ok") /\ SameNavigation
  <2>1. ~Main(Head(ws.inbox)) /\ Still /\ call'.step = "idle"
    BY <1>2, <1>5 DEF Main, Still, Ends
  <2>2. page'.frameId = page.frameId /\ page'.frames = {}
    BY <1>5, NotTrackingPage
  <2>3. page'.frameId \in {None, "main"}
    BY <2>2 DEF GInv, Waits
  <2> QED BY <1>1, <1>2, <2>1, <2>2, <2>3, ReadG
<1>6. CASE /\ page' = IF f # None
                      THEN [page EXCEPT !.frameId = f, !.pending = TRUE]
                      ELSE [NotTracking(page) EXCEPT !.url = call.of, !.pending = TRUE]
           /\ SameNavigation /\ call'.step = "wait"
  <2>1. page'.pending /\ page'.frameId \in {None, "main"}
    BY <1>4, <1>6, AwaitedPage DEF GInv, Waits
  <2>2. Apart'
    BY <1>1, <1>3, ApartKept DEF GInv
  <2>3. Dated'
    <3>1. Origins' \subseteq Origins \cup {0}
      BY <1>1, <1>2, <1>3 DEF Origins
    <3> QED BY <1>2, <1>6, <3>1, DatedKept DEF GInv, SameNavigation
  <2>4. Waits'
    <3>1. call.kind = "navigate"
      BY <1>2 DEF GInv, Waits, Setting
    <3> QED BY <1>6, <2>1, <3>1 DEF Waits, SameNavigation, Setting
  <2>5. Asks' /\ NotGone' /\ AnswerFirst'
    BY <1>6 DEF Asks, NotGone, AnswerFirst, Setting, Preparing
  <2>6. Answering'
    BY <1>1, <1>3, <1>6 DEF GInv, Answering
  <2>7. OwnNavigation'
    <3> SUFFICES ASSUME Navigating' PROVE OwnNavigation!2'
      BY DEF OwnNavigation
    <3>1. Navigating /\ call'.of = call.of
      BY <1>2, <1>6 DEF Navigating, SameNavigation
    <3> QED BY <1>1, <1>3, <1>6, <3>1 DEF GInv, OwnNavigation
  <2> QED BY <2>2, <2>3, <2>4, <2>5, <2>6, <2>7 DEF GInv
<1> QED BY <1>1, <1>5, <1>6

(* The tab takes a request and answers it. *)
LEMMA AnswersG ==
    ASSUME IInv, GInv, TabAnswers
    PROVE  GInv'
<1> DEFINE r == Head(tab.requests)
           f == IF r.method = "go" /\ tab.modern THEN "main" ELSE None
           a == AnswerTo(r, f)
<1>1. /\ UNCHANGED <<page, call, result, history>>
      /\ r \in Asked /\ a.type = "answer" /\ a.id = r.id
      /\ a.frame = f
      /\ tab'.modern = tab.modern /\ tab'.ran = tab.ran
      /\ tab'.requests = Tail(tab.requests) /\ tab.requests # <<>>
      /\ tab'.loading = (IF r.method \in {"go", "click"} THEN r.of ELSE tab.loading)
      /\ tab'.owed # <<>> => tab.modern
      /\ Coming' = Coming \cup {a} /\ News' = News
      /\ ~tab.modern => ws'.inbox = Append(ws.inbox, a)
  BY AnswersDoes DEF GInv
<1>2. /\ Asked' \subseteq Asked
      /\ \A x \in Asked' : x.id # r.id
      /\ \A i, j \in DOMAIN tab'.requests : tab'.requests[i].id = tab'.requests[j].id => i = j
  BY <1>1, ServeViews DEF GInv
<1>3. f \in {None, "main"} /\ (r.method = "go" => f = IF tab.modern THEN "main" ELSE None)
  OBVIOUS
<1> HIDE DEF r, f, a
<1>4. call.step \in Setting =>
        /\ r.id = call.id => r.method = call.step
        /\ r.of = call.of /\ r.method \in {"go", "click"} => call.step = "go" /\ r.id = call.id
  BY <1>1 DEF GInv, Asks
<1>5. Apart'
  <2>1. \A x \in Asked', y \in Coming' : x.id # y.id
    BY <1>1, <1>2 DEF GInv, Apart
  <2> QED BY <1>2, <2>1 DEF Apart
<1>6. Dated'
  <2>1. Origins' \subseteq Origins \cup {0}
    BY <1>1, <1>2 DEF Origins
  <2> QED BY <1>1, <2>1, DatedKept DEF GInv
<1>7. Waits'
  BY <1>1 DEF GInv, Waits
<1>8. Asks'
  BY <1>1, <1>2, AsksKept DEF GInv
<1>9. Answering'
  <2> SUFFICES ASSUME NEW x \in Coming'
      PROVE /\ x.frame \in {None, "main"}
            /\ x.id = call'.id /\ call'.step = "go" => x.frame = IF tab'.modern THEN "main" ELSE None
    BY <1>1 DEF Answering
  <2>1. CASE x \in Coming
    BY <1>1, <2>1 DEF GInv, Answering
  <2>2. CASE x = a
    BY <1>1, <1>3, <1>4, <2>2 DEF Setting
  <2> QED BY <1>1, <2>1, <2>2
<1>10. NotGone'
  <2>1. call.step \in Preparing => tab'.loading # call.of
    BY <1>1, <1>4 DEF GInv, NotGone, Preparing, Setting
  <2> QED BY <1>1, <2>1 DEF GInv, NotGone
<1>11. AnswerFirst'
  <2>1. CASE tab.modern \/ call.step # "go"
    BY <1>1, <2>1, AnswerFirstElse
  <2>2. CASE ~tab.modern /\ call.step = "go"
    <3>1. call.of \in Calls
      BY <2>2 DEF IInv, Types, CallTyped
    <3>2. \/ tab'.loading \in {0, tab.loading}
          \/ tab'.loading # call.of
          \/ a.type = "answer" /\ a.id = call.id
      BY <1>1, <1>4, <2>2 DEF Setting
    <3>3. ~Main(a)
      BY <1>1 DEF Main
    <3> QED BY <1>1, <2>2, <3>1, <3>2, <3>3, AnswerFirstAppend DEF GInv
  <2> QED BY <2>1, <2>2
<1>12. OwnNavigation'
  BY <1>1, <1>2, OwnNavigationKept DEF GInv, Still, SameNavigation
<1> QED BY <1>5, <1>6, <1>7, <1>8, <1>9, <1>10, <1>11, <1>12 DEF GInv

(* The tab pushes a message. *)
LEMMA PushG ==
    ASSUME IInv, GInv, UNCHANGED <<page, call, result, history>>, tab'.modern = tab.modern,
           tab'.requests = tab.requests, tab'.owed # <<>> => tab.modern,
           Coming' \subseteq Coming, Asked' = Asked,
           News' \subseteq News \cup ({tab.loading} \ {0}), tab'.loading \in {tab.loading, 0},
           NEW m, ws'.inbox = Append(ws.inbox, m), Main(m) => m.of = tab.loading
    PROVE  GInv'
<1>1. Apart'
  BY ApartKept DEF GInv
<1>2. Dated'
  <2>1. Origins' \subseteq Origins \cup {0}
    BY DEF Origins
  <2> QED BY <2>1, DatedKept DEF GInv
<1>3. Waits' /\ Asks'
  BY DEF GInv, Waits, Asks
<1>4. Answering'
  BY AnsweringKept DEF GInv
<1>5. NotGone'
  BY NotGoneKept DEF GInv
<1>6. AnswerFirst'
  <2>1. CASE call.step # "go"
    BY <2>1, AnswerFirstElse
  <2>2. CASE call.step = "go"
    <3>1. call.of \in Calls
      BY <2>2 DEF IInv, Types, CallTyped
    <3> QED BY <3>1, AnswerFirstAppend DEF GInv
  <2> QED BY <2>1, <2>2
<1>7. OwnNavigation'
  BY OwnNavigationKept DEF GInv, Still, SameNavigation
<1> QED BY <1>1, <1>2, <1>3, <1>4, <1>5, <1>6, <1>7 DEF GInv

LEMMA TabG ==
    ASSUME IInv, GInv, TabAnswersLate \/ TabCommits \/ SubframeCommits \/ TabCrashes
    PROVE  GInv'
<1>1. CASE TabAnswersLate
  <2>1. /\ UNCHANGED <<page, call, result, history>>
        /\ tab'.modern = tab.modern /\ tab'.requests = tab.requests
        /\ tab'.loading = tab.loading /\ tab'.owed = <<>>
        /\ Coming' \subseteq Coming /\ News' = News /\ Asked' = Asked /\ tab.owed # <<>>
    BY <1>1, LateDoes
  <2>2. ws'.inbox = Append(ws.inbox, Head(tab.owed)) /\ ~Main(Head(tab.owed))
    <3>1. Push(Head(tab.owed)) /\ tab.owed # <<>>
      BY <1>1 DEF TabAnswersLate
    <3>2. tab.owed \in Seq(Message)
      BY DEF IInv, Types, TabTyped, Inboxes
    <3>3. Head(tab.owed) = tab.owed[1] /\ 1 \in DOMAIN tab.owed
      BY <3>1, <3>2
    <3>4. Head(tab.owed) \in Answers
      BY <3>3 DEF IInv, Types, Owed
    <3> QED BY <3>1, <3>4, PushDoes DEF Answers, Main
  <2> QED BY <2>1, <2>2, PushG
<1>2. CASE TabCommits
  <2>1. /\ UNCHANGED <<page, call, result, history>>
        /\ tab'.modern = tab.modern /\ tab'.requests = tab.requests /\ tab'.owed = tab.owed
        /\ tab'.loading = 0 /\ tab.loading # 0
        /\ Coming' = Coming /\ News' = News \cup {tab.loading} /\ Asked' = Asked
        /\ \E m : Main(m) /\ m.of = tab.loading /\ ws'.inbox = Append(ws.inbox, m)
    BY <1>2, CommitsDoes
  <2>2. PICK m : Main(m) /\ m.of = tab.loading /\ ws'.inbox = Append(ws.inbox, m)
    BY <2>1
  <2>3. tab'.owed # <<>> => tab.modern
    BY <2>1 DEF GInv, Answering
  <2> QED BY <2>1, <2>2, <2>3, PushG
<1>3. CASE SubframeCommits \/ TabCrashes
  <2>1. /\ UNCHANGED <<page, call, result, history>> /\ SameRest /\ tab'.requests = tab.requests
        /\ Coming' = Coming /\ News' = News /\ Asked' = Asked
        /\ \E m : ~Main(m) /\ ws'.inbox = Append(ws.inbox, m)
    BY <1>3, OtherNewsDoes
  <2>2. PICK m : ~Main(m) /\ ws'.inbox = Append(ws.inbox, m)
    BY <2>1
  <2>3. tab'.owed # <<>> => tab.modern
    BY <2>1 DEF GInv, Answering, SameRest
  <2> QED BY <2>1, <2>2, <2>3, PushG DEF SameRest
<1> QED BY <1>1, <1>2, <1>3

LEMMA InitG == Init => GInv
<1> SUFFICES ASSUME Init PROVE GInv
  OBVIOUS
<1>1. /\ ws.inbox = <<>> /\ tab.owed = <<>> /\ tab.requests = <<>> /\ tab.loading = 0
      /\ call.step = "idle" /\ page.frameId = None
      /\ history.seen = {} /\ history.calls = 0
  BY DEF Init
<1>2. Asked = {} /\ Coming = {} /\ News = {} /\ DOMAIN ws.inbox = {} /\ DOMAIN tab.requests = {}
  BY <1>1, ViewsInit
<1>3. Apart /\ Dated
  BY <1>1, <1>2 DEF Apart, Dated, Origins
<1>4. Waits /\ Asks /\ Answering /\ NotGone /\ AnswerFirst
  BY <1>1, <1>2 DEF Waits, Asks, Answering, NotGone, AnswerFirst, Setting, Preparing
<1>5. OwnNavigation
  BY <1>1 DEF OwnNavigation, Navigating
<1> QED BY <1>3, <1>4, <1>5 DEF GInv

LEMMA NextG ==
    ASSUME IInv, GInv, [Next]_vars
    PROVE  GInv'
<1>1. CASE Client
  BY <1>1, NavigateG, EvaluateG, WaitG DEF Client
<1>2. CASE Receive
  BY <1>2, NavigatedG, OtherG, CrashedG, ScriptG, GoneG, EvaluatedG DEF Receive
<1>3. CASE Tab
  BY <1>3, AnswersG, TabG DEF Tab
<1> QED BY <1>1, <1>2, <1>3, TimedOutG, StutterG DEF Next

-----------------------------------------------------------------------------
(* As long as no call failed. *)

UParts == Tracking /\ Told /\ OwnRequests /\ ScriptsKnown /\ RanOwn

(* What a notification does to the page, in full. *)
LEMMA NotedFully ==
    ASSUME IInv, NEW f \in Frames, NEW u, page' = OnNotification(page, f, u)
    PROVE  /\ page'.script = page.script
           /\ page.tracking /\ page.frameId = f =>
                 page'.frameId = None /\ ~page'.tracking /\ page'.frames = {} /\ ~page'.pending
           /\ page.tracking /\ page.frameId # f =>
                 /\ page'.frameId = page.frameId /\ page'.tracking
                 /\ page'.frames = page.frames \cup {f} /\ page'.pending = page.pending
           /\ ~page.tracking =>
                 /\ page'.frameId = page.frameId /\ ~page'.tracking /\ page'.frames = page.frames
                 /\ f = "main" => ~page'.pending
                 /\ f # "main" => page'.pending = page.pending
<1> PICK p \in PageType : p = page
  BY DEF IInv, Types, PageTyped
<1>1. CASE p.tracking /\ p.frameId = f
  <2>1. page' = [p EXCEPT !.frameId = None, !.tracking = FALSE, !.frames = {}, !.pending = FALSE]
    BY <1>1 DEF OnNotification, Over, NotTracking
  <2> QED BY <1>1, <2>1 DEF PageType
<1>2. CASE p.tracking /\ p.frameId # f
  <2>1. page' = [p EXCEPT !.frames = p.frames \cup {f}]
    BY <1>2 DEF OnNotification
  <2> QED BY <1>2, <2>1 DEF PageType
<1>3. CASE ~p.tracking /\ f = "main"
  <2>1. \/ page' = [p EXCEPT !.url = 0, !.pending = FALSE]
        \/ page' = [p EXCEPT !.pending = FALSE]
    BY <1>3 DEF OnNotification, Over
  <2>2. /\ page'.frameId = p.frameId /\ page'.tracking = p.tracking /\ page'.frames = p.frames
        /\ page'.script = p.script /\ ~page'.pending
    BY <2>1 DEF PageType
  <2> QED BY <1>3, <2>2
<1>4. CASE ~p.tracking /\ f # "main"
  <2>1. page' = p
    BY <1>4 DEF OnNotification
  <2> QED BY <1>4, <2>1
<1> QED BY <1>1, <1>2, <1>3, <1>4

LEMMA NavigatedU ==
    ASSUME IInv, GInv, UParts, ReceiveNavigated
    PROVE  UParts' /\ history'.failed = history.failed
<1> DEFINE m == Head(ws.inbox)
           f == m.frame
           u == m.of
<1>1. /\ ws.inbox # <<>> /\ m \in Message /\ m.type = "navigated"
      /\ page' = OnNotification(page, f, u) /\ f \in Frames
      /\ history'.seen = (IF f = "main" THEN history.seen \cup {u} ELSE history.seen)
      /\ history'.failed = history.failed
      /\ ws'.inbox = Tail(ws.inbox) /\ Loop(page') /\ UNCHANGED tab
  BY NavigatedDoes
<1>2. News' \subseteq News /\ Asked' = Asked /\ (f = "main" => u \in News)
  <2>1. f = "main" => Main(m)
    BY <1>1 DEF Main
  <2> QED BY <1>1, <2>1, TakeViews, SameTabRest
<1> HIDE DEF f, u, m
<1>3. f \in {"main", "sub"} /\ None = "none"
  BY <1>1 DEF Frames, None
<1>4. /\ page'.script = page.script
      /\ page.tracking /\ page.frameId = f =>
            page'.frameId = None /\ ~page'.tracking /\ page'.frames = {} /\ ~page'.pending
      /\ page.tracking /\ page.frameId # f =>
            /\ page'.frameId = page.frameId /\ page'.tracking
            /\ page'.frames = page.frames \cup {f} /\ page'.pending = page.pending
      /\ ~page.tracking =>
            /\ page'.frameId = page.frameId /\ ~page'.tracking /\ page'.frames = page.frames
            /\ f = "main" => ~page'.pending
            /\ f # "main" => page'.pending = page.pending
  BY <1>1, NotedFully
<1>5. ~call.late /\ page.frameId \in {None, "main"} /\ (call.step = "wait" => page.pending)
  BY DEF UParts, Tracking, GInv, Waits
<1>6. \/ UNCHANGED call /\ (call.step = "wait" => page'.pending)
      \/ call.step = "wait" /\ call'.step = "idle" /\ SameNavigation /\ ~call'.late /\ ~page'.pending
  BY <1>1, <1>5, LoopDoes DEF Ends
<1>7. call.step = "wait" /\ page'.pending => f = "sub"
  BY <1>3, <1>4, <1>5 DEF UParts, Tracking
<1>8. Tracking'
  <2>1. CASE UNCHANGED call /\ (call.step = "wait" => page'.pending)
    BY <1>3, <1>4, <1>5, <1>7, <2>1 DEF UParts, Tracking
  <2>2. CASE call.step = "wait" /\ call'.step = "idle" /\ SameNavigation /\ ~call'.late /\ ~page'.pending
    <3>1. ~page'.tracking /\ page'.frameId # "main"
      BY <1>3, <1>4, <1>5, <2>2 DEF UParts, Tracking
    <3> QED BY <2>2, <3>1 DEF Tracking
  <2> QED BY <1>6, <2>1, <2>2
<1>9. Told'
  <2>1. CASE UNCHANGED call /\ (call.step = "wait" => page'.pending)
    <3>1. call.step = "wait" => history'.seen = history.seen
      BY <1>1, <1>3, <1>7, <2>1
    <3>2. call.step = "go" => page'.frames = page.frames \cup {f}
      BY <1>1, <1>3, <1>4 DEF UParts, Tracking
    <3> QED BY <1>1, <2>1, <3>1, <3>2 DEF UParts, Told
  <2>2. CASE call'.step = "idle"
    BY <2>2 DEF Told
  <2> QED BY <1>6, <2>1, <2>2
<1>10. OwnRequests'
  <2>1. \A r \in Asked : r.method # "click" => call.step = r.method /\ r.method \in Sync
    BY Views DEF UParts, OwnRequests, Request
  <2>2. \A r \in Asked : r.method # "click" => call.step # "wait"
    BY <2>1 DEF Sync
  <2> QED BY <1>2, <1>4, <1>6, <2>2 DEF UParts, OwnRequests
<1>11. ScriptsKnown'
  <2>1. Asking' <=> \E r \in Asked : r.id = call'.id
    BY <1>2 DEF Asking
  <2>2. CASE UNCHANGED call
    <3>1. Asking' <=> Asking
      BY <2>1, <2>2 DEF Asking
    <3> QED BY <1>1, <1>4, <2>2, <3>1 DEF UParts, ScriptsKnown
  <2>3. CASE call.step = "wait" /\ call'.step = "idle"
    <3>1. tab.scripts = Just(page.script)
      BY <2>3 DEF UParts, ScriptsKnown, Preparing
    <3> QED BY <1>1, <1>4, <2>3, <3>1 DEF ScriptsKnown, Just
  <2> QED BY <1>6, <2>2, <2>3
<1>12. RanOwn'
  <2>1. CASE UNCHANGED call
    BY <1>1, <1>2, <2>1 DEF UParts, RanOwn, Navigating, Just
  <2>2. CASE call'.step = "idle"
    BY <2>2 DEF RanOwn, Navigating
  <2> QED BY <1>6, <2>1, <2>2
<1> QED BY <1>1, <1>8, <1>9, <1>10, <1>11, <1>12 DEF UParts

(* The call does not notice. *)
LEMMA UKept ==
    ASSUME UParts, UNCHANGED <<page, call, history>>, Asked' = Asked, News' \subseteq News,
           tab'.scripts = tab.scripts, tab'.ran = tab.ran
    PROVE  UParts'
<1>1. Tracking' /\ Told'
  BY DEF UParts, Tracking, Told
<1>2. OwnRequests'
  BY DEF UParts, OwnRequests
<1>3. ScriptsKnown'
  <2>1. Asking' <=> Asking
    BY DEF Asking
  <2> QED BY <2>1 DEF UParts, ScriptsKnown, Just
<1>4. RanOwn'
  BY DEF UParts, RanOwn, Navigating, Just
<1> QED BY <1>1, <1>2, <1>3, <1>4 DEF UParts

LEMMA OtherU ==
    ASSUME IInv, GInv, UParts, ReceiveOther
    PROVE  UParts'
<1>1. /\ ws.inbox # <<>>
      /\ ws'.inbox = Tail(ws.inbox) /\ Loop(page) /\ UNCHANGED <<history, page, tab>>
  BY OtherDoes
<1>2. ~call.late /\ (call.step = "wait" => page.pending)
  BY DEF UParts, Tracking, GInv, Waits
<1>3. UNCHANGED call
  BY <1>1, <1>2, LoopDoes
<1>4. News' \subseteq News /\ Asked' = Asked
  BY <1>1, TakeViews, SameTabRest
<1> QED BY <1>1, <1>3, <1>4, UKept

LEMMA NewsU ==
    ASSUME IInv, UParts, TabAnswersLate \/ SubframeCommits \/ TabCrashes
    PROVE  UParts'
BY LateDoes, OtherNewsDoes, UKept DEF SameRest

LEMMA StutterU ==
    ASSUME UParts, UNCHANGED vars
    PROVE  UParts'
<1>1. Asked' = Asked /\ News' = News
  BY DEF vars, Asked, News, In, Main
<1> QED BY <1>1, UKept DEF vars

(* A new call begins with no more than clicks under way. *)
LEMMA IdleMeans ==
    ASSUME IInv, GInv, UParts, call.step = "idle"
    PROVE  /\ ~page.tracking /\ page.frameId = None
           /\ \A r \in Asked : r.method = "click"
           /\ tab.scripts = Just(page.script)
<1>1. None # "main"
  BY DEF None
<1>2. ~page.tracking /\ page.frameId = None
  BY <1>1 DEF UParts, Tracking, GInv, Waits
<1>3. \A r \in Asked : r.method # "click" => r.method \in Sync /\ call.step = r.method
  BY Views DEF UParts, OwnRequests, Request
<1>4. \A r \in Asked : r.method = "click"
  BY <1>3 DEF Sync
<1>5. tab.scripts = Just(page.script)
  BY DEF UParts, ScriptsKnown, Preparing
<1> QED BY <1>2, <1>4, <1>5

LEMMA OpenedU ==
    ASSUME IInv, GInv, UParts, NEW kind, NEW step \in Sync, NEW script, Opened(kind, step, script),
           NEW method, NEW sent, Posted(method, sent), ws'.inbox = ws.inbox,
           method \in {step, "click"}, method = "add" => sent = script,
           method = "remove" => sent = page.script,
           page'.frameId = page.frameId, page'.script = page.script,
           step = "go" <=> page'.tracking,
           step = "remove" => page.script # None,
           step = "add" => page.script = None /\ script # None,
           step = "go" => page.script = script
    PROVE  UParts'
<1> DEFINE r == [id |-> ws.next, of |-> call'.of, method |-> method, script |-> sent]
           n == history.calls + 1
<1>1. /\ r \in Request /\ r.id = ws.next /\ r.of = n /\ r.method = method /\ r.script = sent
      /\ tab'.requests = Append(tab.requests, r) /\ SameRest
  BY DEF Posted, Opened
<1>2. /\ call.step = "idle" /\ call'.kind = kind /\ call'.of = n /\ call'.step = step /\ call'.id = ws.next
      /\ call'.alone = Alone /\ call'.script = script /\ call'.late = FALSE
      /\ history'.seen = history.seen
  BY DEF Opened
<1> HIDE DEF r
<1>3. Coming' = Coming /\ News' = News
  BY <1>1, SameViews DEF SameRest
<1>4. Asked' = Asked \cup {r}
  BY <1>1, <1>3, SendViews DEF GInv
<1>5. /\ ~page.tracking /\ page.frameId = None
      /\ \A x \in Asked : x.method = "click"
      /\ tab.scripts = Just(page.script)
  BY <1>2, IdleMeans
<1>6. n \notin history.seen
  BY Unused DEF Origins
<1> HIDE DEF n
<1>7. step \in {"remove", "add", "go", "evaluate"} /\ None # "main"
  BY DEF Sync, None
<1>8. Tracking'
  BY <1>2, <1>5, <1>7 DEF Tracking
<1>9. Told'
  BY <1>2, <1>6, <1>7 DEF Told
<1>10. OwnRequests'
  <2> SUFFICES ASSUME NEW x \in Asked', x.method # "click"
      PROVE /\ call'.step = x.method /\ x.id = call'.id
            /\ x.method = "add" => x.script = call'.script
            /\ x.method = "remove" => x.script = page'.script
    BY DEF OwnRequests
  <2>1. x = r
    BY <1>4, <1>5
  <2> QED BY <1>1, <1>2, <2>1
<1>11. ScriptsKnown'
  <2>1. Asking'
    BY <1>1, <1>2, <1>4 DEF Asking
  <2>2. tab'.scripts = {page.script} \ {None}
    BY <1>1, <1>5 DEF SameRest, Just
  <2> QED BY <1>2, <1>7, <2>1, <2>2 DEF ScriptsKnown, Preparing, Just
<1>12. RanOwn'
  <2> SUFFICES ASSUME Navigating' PROVE call'.of \notin history'.seen /\ News' = {}
    BY DEF RanOwn
  <2>1. Alone
    BY <1>2 DEF Navigating
  <2> QED BY <1>2, <1>3, <1>6, <2>1, AloneMeans
<1> QED BY <1>8, <1>9, <1>10, <1>11, <1>12 DEF UParts

LEMMA NavigateU ==
    ASSUME IInv, GInv, UParts, NEW script \in Scripts \cup {None}, Navigate(script)
    PROVE  UParts'
<1> DEFINE step == FirstStep(script)
           sent == IF step = "remove" THEN page.script ELSE script
<1>1. /\ Opened("navigate", step, script) /\ Posted(step, sent) /\ ws'.inbox = ws.inbox
      /\ page' = IF step = "go" THEN StartsTracking(page) ELSE page
  BY NavigateDoes
<1>2. /\ step \in Sync /\ step # "evaluate"
      /\ step = "remove" => page.script # None
      /\ step = "add" => page.script = None /\ script # None
      /\ step = "go" => page.script = script
  BY DEF FirstStep, Sync
<1>3. (step = "add" => sent = script) /\ (step = "remove" => sent = page.script)
  OBVIOUS
<1> HIDE DEF step, sent
<1>4. call.step = "idle"
  BY <1>1 DEF Opened
<1>5. ~page.tracking
  BY <1>4, IdleMeans
<1>6. page'.frameId = page.frameId /\ page'.script = page.script /\ (step = "go" <=> page'.tracking)
  BY <1>1, <1>5, FramesKept
<1> QED BY <1>1, <1>2, <1>3, <1>6, OpenedU

LEMMA EvaluateU ==
    ASSUME IInv, GInv, UParts, NEW kind \in {"evaluate", "click"}, Evaluate(kind)
    PROVE  UParts'
<1>1. Opened(kind, "evaluate", None) /\ Posted(kind, None) /\ ws'.inbox = ws.inbox /\ UNCHANGED page
  BY EvaluateDoes
<1>2. "evaluate" \in Sync /\ kind \in {"evaluate", "click"} /\ kind # "add" /\ kind # "remove"
  BY DEF Sync
<1>3. call.step = "idle"
  BY <1>1 DEF Opened
<1>4. ~page'.tracking
  BY <1>1, <1>3, IdleMeans
<1> QED BY <1>1, <1>2, <1>4, OpenedU

LEMMA WaitU ==
    ASSUME IInv, GInv, UParts, WaitForNavigate
    PROVE  UParts'
<1> PICK p \in PageType : p = page
  BY DEF IInv, Types, PageTyped
<1>1. /\ Opened("wait", "wait", None) /\ UNCHANGED <<ws, tab>>
      /\ page' = [p EXCEPT !.pending = TRUE]
  BY WaitDoes
<1>2. /\ call.step = "idle" /\ call'.kind = "wait" /\ call'.step = "wait"
      /\ call'.before = history.seen /\ history'.seen = history.seen /\ ~call'.late
  BY <1>1 DEF Opened
<1>3. page'.frameId = page.frameId /\ page'.tracking = page.tracking /\ page'.script = page.script
  BY <1>1 DEF PageType
<1>4. /\ ~page.tracking /\ page.frameId = None
      /\ \A r \in Asked : r.method = "click"
      /\ tab.scripts = Just(page.script)
  BY <1>2, IdleMeans
<1>5. Asked' = Asked
  BY <1>1, SameTabRest
<1>6. Tracking' /\ Told'
  BY <1>2, <1>3, <1>4 DEF Tracking, Told, None
<1>7. OwnRequests'
  BY <1>4, <1>5 DEF OwnRequests
<1>8. ScriptsKnown'
  BY <1>1, <1>2, <1>3, <1>4 DEF ScriptsKnown, Preparing, Just
<1>9. RanOwn'
  BY <1>2 DEF RanOwn, Navigating
<1> QED BY <1>6, <1>7, <1>8, <1>9 DEF UParts

(* Its answer in hand, a call has no request under way. *)
LEMMA AnswerInHand ==
    ASSUME IInv, GInv, UParts, NEW step \in Sync, Answered(step), UNCHANGED tab \/ SameRest,
           ws'.inbox = Tail(ws.inbox)
    PROVE  /\ ~Asking /\ (\A r \in Asked : r.method = "click")
           /\ Head(ws.inbox) \in Coming /\ News' \subseteq News /\ Coming' \subseteq Coming
           /\ call.step = step /\ UNCHANGED history
<1>1. /\ ws.inbox # <<>> /\ Head(ws.inbox).type = "answer" /\ Head(ws.inbox).id = call.id
      /\ call.step = step /\ UNCHANGED history
  BY AnsweredDoes
<1>2. Head(ws.inbox) \in Coming /\ News' \subseteq News /\ Coming' \subseteq Coming
  BY <1>1, TakeViews DEF SameRest
<1>3. \A r \in Asked : r.id # call.id
  BY <1>1, <1>2 DEF GInv, Apart
<1>4. \A r \in Asked : r.method = "click"
  BY <1>3 DEF UParts, OwnRequests
<1> QED BY <1>1, <1>2, <1>3, <1>4 DEF Asking

LEMMA ProceedU ==
    ASSUME IInv, GInv, UParts, NEW old \in Preparing, Answered(old), NEW step \in {"add", "go"}, NEW sent,
           Resumed(step), call'.id = ws.next, Posted(step, sent), ws'.inbox = Tail(ws.inbox),
           page'.frameId = page.frameId, step = "go" <=> page'.tracking,
           step = "add" => sent = call.script /\ call.script # None /\ page'.script = None,
           step = "go" => page'.script = call.script,
           tab.scripts = Just(page'.script)
    PROVE  UParts'
<1> DEFINE r == [id |-> ws.next, of |-> call'.of, method |-> step, script |-> sent]
<1>1. /\ call'.step = step /\ call'.of = call.of /\ call'.kind = call.kind /\ call'.late = call.late
      /\ call'.alone = call.alone /\ call'.before = call.before /\ call'.script = call.script
  BY DEF Resumed
<1>2. /\ r \in Request /\ r.id = ws.next /\ r.method = step /\ r.script = sent
      /\ tab'.requests = Append(tab.requests, r) /\ SameRest
  BY DEF Posted
<1> HIDE DEF r
<1>3. old \in Sync /\ old \in {"remove", "add"}
  BY DEF Preparing, Sync
<1>4. /\ \A x \in Asked : x.method = "click"
      /\ News' \subseteq News /\ Coming' \subseteq Coming
      /\ call.step = old /\ UNCHANGED history
  BY <1>2, <1>3, AnswerInHand
<1>5. Asked' = Asked \cup {r}
  BY <1>2, <1>4, SendViews DEF GInv
<1>6. call.of \notin history.seen \cup News
  BY <1>3, <1>4 DEF GInv, NotGone, Preparing
<1>7. page.frameId = None
  BY <1>3, <1>4 DEF UParts, Tracking, GInv, Waits
<1>8. Tracking'
  BY <1>1, <1>7 DEF UParts, Tracking, None
<1>9. Told'
  BY <1>1, <1>4, <1>6 DEF Told
<1>10. OwnRequests'
  <2> SUFFICES ASSUME NEW x \in Asked', x.method # "click"
      PROVE /\ call'.step = x.method /\ x.id = call'.id
            /\ x.method = "add" => x.script = call'.script
            /\ x.method = "remove" => x.script = page'.script
    BY DEF OwnRequests
  <2>1. x = r
    BY <1>4, <1>5
  <2> QED BY <1>1, <1>2, <2>1
<1>11. ScriptsKnown'
  <2>1. Asking'
    BY <1>2, <1>5 DEF Asking
  <2>2. tab'.scripts = {page'.script} \ {None}
    BY <1>2 DEF SameRest, Just
  <2> QED BY <1>1, <2>1, <2>2 DEF ScriptsKnown, Preparing, Just
<1>12. RanOwn'
  <2> SUFFICES ASSUME Navigating' PROVE call'.of \notin history'.seen /\ News' = {}
    BY DEF RanOwn
  <2>1. Navigating
    BY <1>1, <1>3, <1>4 DEF Navigating
  <2>2. News \subseteq {call.of}
    BY <2>1 DEF GInv, OwnNavigation
  <2> QED BY <1>1, <1>4, <1>6, <2>2
<1> QED BY <1>8, <1>9, <1>10, <1>11, <1>12 DEF UParts

LEMMA ScriptU ==
    ASSUME IInv, GInv, UParts, ScriptRemoved \/ ScriptAdded
    PROVE  UParts' /\ UNCHANGED history
<1>1. CASE ScriptRemoved
  <2> DEFINE step == IF call.script = None THEN "go" ELSE "add"
             p == [page EXCEPT !.script = None]
  <2>1. /\ Answered("remove") /\ Resumed(step) /\ call'.id = ws.next
        /\ Posted(step, call.script) /\ ws'.inbox = Tail(ws.inbox) /\ UNCHANGED result
        /\ page' = IF step = "go" THEN StartsTracking(p) ELSE p
    BY <1>1, RemovedDoes
  <2>2. /\ step \in {"add", "go"} /\ "remove" \in Preparing /\ "remove" \in Sync
        /\ step = "go" <=> call.script = None
    BY DEF Preparing, Sync
  <2>3. /\ page'.frameId = page.frameId /\ page'.script = None
        /\ step = "go" => page'.tracking
        /\ step # "go" => page'.tracking = page.tracking
    BY <2>1, ScriptPage
  <2> HIDE DEF step, p
  <2>4. SameRest
    BY <2>1 DEF Posted
  <2>5. ~Asking /\ call.step = "remove" /\ UNCHANGED history
    BY <2>1, <2>2, <2>4, AnswerInHand
  <2>6. ~page.tracking
    BY <2>5 DEF UParts, Tracking, GInv, Waits
  <2>7. tab.scripts = {} /\ Just(page'.script) = {}
    BY <2>3, <2>5 DEF UParts, ScriptsKnown, Just
  <2>8. UParts'
    BY <2>1, <2>2, <2>3, <2>6, <2>7, ProceedU
  <2> QED BY <2>5, <2>8
<1>2. CASE ScriptAdded
  <2>1. /\ Answered("add") /\ Resumed("go") /\ call'.id = ws.next
        /\ Posted("go", None) /\ ws'.inbox = Tail(ws.inbox) /\ UNCHANGED result
        /\ page' = StartsTracking([page EXCEPT !.script = call.script])
    BY <1>2, AddedDoes
  <2>2. "go" \in {"add", "go"} /\ "add" \in Preparing /\ "add" \in Sync
    BY DEF Preparing, Sync
  <2>3. page'.frameId = page.frameId /\ page'.script = call.script /\ page'.tracking
    BY <2>1, ScriptPage
  <2>4. SameRest
    BY <2>1 DEF Posted
  <2>5. ~Asking /\ call.step = "add" /\ UNCHANGED history
    BY <2>1, <2>2, <2>4, AnswerInHand
  <2>6. tab.scripts = {call.script} /\ call.script # None
    BY <2>5 DEF UParts, ScriptsKnown
  <2>7. tab.scripts = Just(page'.script)
    BY <2>3, <2>6 DEF Just
  <2>8. UParts'
    BY <2>1, <2>2, <2>3, <2>7, ProceedU
  <2> QED BY <2>5, <2>8
<1> QED BY <1>1, <1>2

LEMMA EvaluatedU ==
    ASSUME IInv, GInv, UParts, EvaluateAnswered
    PROVE  UParts' /\ UNCHANGED history
<1>1. /\ Answered("evaluate") /\ Ends("ok") /\ SameNavigation
      /\ ws'.inbox = Tail(ws.inbox) /\ UNCHANGED <<page, tab>>
  BY EvaluatedDoes
<1>2. /\ \A r \in Asked : r.method = "click"
      /\ call.step = "evaluate" /\ UNCHANGED history
  BY <1>1, AnswerInHand DEF Sync
<1>3. Asked' = Asked /\ call'.step = "idle" /\ call'.late = call.late
  BY <1>1, SameTabRest DEF Ends
<1>4. Tracking'
  BY <1>1, <1>2, <1>3 DEF UParts, Tracking, GInv, Waits
<1>5. Told' /\ RanOwn' /\ OwnRequests'
  BY <1>2, <1>3 DEF Told, RanOwn, Navigating, OwnRequests
<1>6. ScriptsKnown'
  BY <1>1, <1>2, <1>3 DEF UParts, ScriptsKnown, Preparing, Just
<1> QED BY <1>2, <1>4, <1>5, <1>6 DEF UParts

LEMMA GoneU ==
    ASSUME IInv, GInv, UParts, NavigateAnswered
    PROVE  UParts' /\ UNCHANGED history
<1> DEFINE f == Head(ws.inbox).frame
<1>1. /\ Answered("go") /\ ws'.inbox = Tail(ws.inbox) /\ UNCHANGED tab
      /\ \/ page' = NotTracking(page) /\ Ends("ok") /\ SameNavigation
         \/ /\ ~(f # None /\ page.tracking /\ f \in page.frames)
            /\ page' = IF f # None
                       THEN [page EXCEPT !.frameId = f, !.pending = TRUE]
                       ELSE [NotTracking(page) EXCEPT !.url = call.of, !.pending = TRUE]
            /\ SameNavigation /\ call'.late = call.late /\ call'.step = "wait"
  BY GoneDoes
<1>2. /\ \A r \in Asked : r.method = "click"
      /\ Head(ws.inbox) \in Coming /\ News' \subseteq News
      /\ call.step = "go" /\ UNCHANGED history
  BY <1>1, AnswerInHand DEF Sync
<1>3. Head(ws.inbox).id = call.id
  BY <1>1, AnsweredDoes DEF Sync
<1>4. f = IF tab.modern THEN "main" ELSE None
  BY <1>2, <1>3 DEF GInv, Answering
<1>5. /\ page.tracking /\ page.frameId = None /\ call.kind = "navigate"
      /\ tab.scripts = Just(page.script) /\ page.script = call.script
      /\ call.of \in history.seen => "main" \in page.frames
      /\ ~tab.modern => call.of \notin history.seen
      /\ ~call.late
  BY <1>2 DEF UParts, Tracking, GInv, Waits, Setting, ScriptsKnown, Told, AnswerFirst, Preparing
<1>6. Asked' = Asked
  BY <1>1, SameTabRest
<1>7. None # "main"
  BY DEF None
<1> HIDE DEF f
<1>8. CASE page' = NotTracking(page) /\ Ends("ok") /\ SameNavigation
  <2>1. page'.frameId = None /\ ~page'.tracking /\ page'.script = page.script
    BY <1>5, <1>8, NotTrackingPage
  <2>2. call'.step = "idle" /\ ~call'.late
    BY <1>5, <1>8 DEF Ends
  <2>3. Tracking' /\ Told' /\ RanOwn'
    BY <1>7, <2>1, <2>2 DEF Tracking, Told, RanOwn, Navigating
  <2>4. OwnRequests'
    BY <1>2, <1>6 DEF OwnRequests
  <2>5. ScriptsKnown'
    BY <1>1, <1>5, <2>1, <2>2 DEF ScriptsKnown, Preparing, Just
  <2> QED BY <1>2, <2>3, <2>4, <2>5 DEF UParts
<1>9. CASE /\ ~(f # None /\ page.tracking /\ f \in page.frames)
           /\ page' = IF f # None
                      THEN [page EXCEPT !.frameId = f, !.pending = TRUE]
                      ELSE [NotTracking(page) EXCEPT !.url = call.of, !.pending = TRUE]
           /\ SameNavigation /\ call'.late = call.late /\ call'.step = "wait"
  <2>1. /\ page'.script = page.script
        /\ f # None => page'.frameId = f /\ page'.tracking = page.tracking /\ page'.frames = page.frames
        /\ f = None => page'.frameId = page.frameId /\ ~page'.tracking /\ page'.frames = {}
    BY <1>9, AwaitedPage
  <2>2. /\ call'.kind = "navigate" /\ call'.of = call.of /\ call'.script = call.script
        /\ call'.alone = call.alone /\ call'.step = "wait" /\ ~call'.late
    BY <1>5, <1>9 DEF SameNavigation
  <2>3. call.of \notin history.seen
    BY <1>4, <1>5, <1>7, <1>9
  <2>4. Tracking'
    BY <1>4, <1>5, <1>7, <1>9, <2>1, <2>2 DEF Tracking
  <2>5. Told'
    BY <1>2, <2>2, <2>3 DEF Told
  <2>6. OwnRequests'
    BY <1>2, <1>6 DEF OwnRequests
  <2>7. ScriptsKnown'
    BY <1>1, <1>5, <2>1, <2>2 DEF ScriptsKnown, Preparing, Just
  <2>8. RanOwn'
    <3>1. Navigating' => Navigating
      BY <1>2, <1>5, <2>2 DEF Navigating
    <3> QED BY <1>1, <1>2, <2>2, <3>1 DEF UParts, RanOwn, Just
  <2> QED BY <1>2, <2>4, <2>5, <2>6, <2>7, <2>8 DEF UParts
<1> QED BY <1>1, <1>8, <1>9

LEMMA AnswersU ==
    ASSUME IInv, GInv, UParts, TabAnswers
    PROVE  UParts'
<1> DEFINE r == Head(tab.requests)
           s == TabScripts(r)
<1>1. /\ UNCHANGED <<page, call, result, history>>
      /\ r \in Asked /\ tab'.ran = tab.ran
      /\ tab'.requests = Tail(tab.requests) /\ tab.requests # <<>>
      /\ tab'.scripts = s /\ News' = News
  BY AnswersDoes DEF GInv
<1>2. /\ Asked' \subseteq Asked /\ Asked = Asked' \cup {r}
      /\ \A x \in Asked' : x.id # r.id
  BY <1>1, ServeViews DEF GInv
<1>3. s = IF r.method = "add" THEN tab.scripts \cup {r.script}
          ELSE IF r.method = "remove" THEN tab.scripts \ {r.script}
          ELSE tab.scripts
  BY DEF TabScripts
<1> HIDE DEF r, s
<1>4. r.method # "click" => call.step = r.method /\ r.id = call.id
      /\ (r.method = "add" => r.script = call.script)
      /\ (r.method = "remove" => r.script = page.script)
  BY <1>1 DEF UParts, OwnRequests
<1>5. call.step \in Setting /\ r.id = call.id => r.method = call.step
  BY <1>1 DEF GInv, Asks
<1>6. Tracking' /\ Told'
  BY <1>1 DEF UParts, Tracking, Told
<1>7. OwnRequests'
  BY <1>1, <1>2 DEF UParts, OwnRequests
<1>8. ScriptsKnown'
  <2>1. CASE r.id = call.id
    <3>1. Asking /\ ~Asking'
      BY <1>1, <1>2, <2>1 DEF Asking
    <3>2. CASE call.step = "remove"
      <4>1. tab.scripts = {page.script} /\ r.method = "remove" /\ page.script # None
        BY <1>5, <3>1, <3>2 , <2>1 DEF UParts, ScriptsKnown, Setting
      <4>2. tab'.scripts = {}
        BY <1>1, <1>3, <1>4, <4>1
      <4> QED BY <1>1, <3>1, <3>2, <4>1, <4>2 DEF ScriptsKnown, Preparing
    <3>3. CASE call.step = "add"
      <4>1. tab.scripts = {} /\ r.method = "add" /\ page.script = None /\ call.script # None
        BY <1>5, <3>1, <3>3 , <2>1 DEF UParts, ScriptsKnown, Setting
      <4>2. tab'.scripts = {call.script}
        BY <1>1, <1>3, <1>4, <4>1
      <4> QED BY <1>1, <3>1, <3>3, <4>1, <4>2 DEF ScriptsKnown, Preparing
    <3>4. CASE call.step \notin Preparing
      <4>1. tab'.scripts = tab.scripts
        BY <1>1, <1>3, <1>4, <3>4 DEF Preparing
      <4> QED BY <1>1, <3>4, <4>1 DEF UParts, ScriptsKnown, Preparing, Just
    <3> QED BY <3>2, <3>3, <3>4 DEF Preparing
  <2>2. CASE r.id # call.id
    <3>1. Asking' <=> Asking
      BY <1>1, <1>2, <2>2 DEF Asking
    <3>2. tab'.scripts = tab.scripts
      BY <1>1, <1>3, <1>4, <2>2
    <3> QED BY <1>1, <3>1, <3>2 DEF UParts, ScriptsKnown, Just
  <2> QED BY <2>1, <2>2
<1>9. RanOwn'
  BY <1>1 DEF UParts, RanOwn, Navigating, Just
<1> QED BY <1>6, <1>7, <1>8, <1>9 DEF UParts

LEMMA CommitsU ==
    ASSUME IInv, GInv, UParts, TabCommits
    PROVE  UParts'
<1>1. /\ UNCHANGED <<page, call, result, history>>
      /\ tab'.scripts = tab.scripts /\ tab'.ran = tab.scripts /\ tab.loading # 0
      /\ Asked' = Asked
  BY CommitsDoes
<1>2. Tracking' /\ Told' /\ OwnRequests'
  BY <1>1 DEF UParts, Tracking, Told, OwnRequests
<1>3. ScriptsKnown'
  <2>1. Asking' <=> Asking
    BY <1>1 DEF Asking
  <2> QED BY <1>1, <2>1 DEF UParts, ScriptsKnown, Just
<1>4. RanOwn'
  <2> SUFFICES ASSUME Navigating PROVE tab.scripts = Just(call.script)
    BY <1>1 DEF RanOwn, Navigating, Just
  <2>1. tab.loading = call.of
    BY <1>1 DEF GInv, OwnNavigation
  <2>2. call.step \notin Preparing /\ call.step # "evaluate" /\ call.step # "idle" /\ call.kind = "navigate"
    BY <2>1 DEF GInv, NotGone, Waits, Navigating
  <2>3. call.step \in {"go", "wait"}
    BY <2>2 DEF IInv, Types, CallTyped, CallType, Sync, Preparing
  <2> QED BY <2>2, <2>3 DEF UParts, ScriptsKnown, Preparing
<1> QED BY <1>2, <1>3, <1>4 DEF UParts

LEMMA InitU == Init => UInv
<1> SUFFICES ASSUME Init PROVE UParts
  BY DEF UInv, UParts
<1>1. /\ ws.inbox = <<>> /\ tab.owed = <<>> /\ tab.requests = <<>> /\ tab.scripts = {}
      /\ call.step = "idle" /\ ~call.late /\ page.frameId = None /\ ~page.tracking /\ page.script = None
  BY DEF Init
<1>2. Asked = {} /\ News = {}
  BY <1>1, ViewsInit
<1>3. Tracking /\ Told /\ OwnRequests
  BY <1>1, <1>2 DEF Tracking, Told, OwnRequests, None
<1>4. ScriptsKnown /\ RanOwn
  BY <1>1 DEF ScriptsKnown, RanOwn, Navigating, Preparing, Just
<1> QED BY <1>3, <1>4 DEF UParts

LEMMA NextU ==
    ASSUME IInv, GInv, UInv, [Next]_vars
    PROVE  UInv'
<1>1. CASE history'.failed
  BY <1>1 DEF UInv, Unfailed
<1>2. CASE ReceiveCrashed \/ Timeout \/ TimeIsUp
  BY <1>2, CrashedDoes, TimeoutDoes, TimeIsUpDoes, <1>1 DEF Fails
<1>3. CASE history.failed
  <2>1. history'.failed
    <3>1. CASE Client
      BY <1>3, <3>1, NavigateDoes, EvaluateDoes, WaitDoes DEF Client, Opened
    <3>2. CASE ReceiveNavigated \/ ReceiveOther \/ ReceiveCrashed
      BY <1>3, <3>2, NavigatedDoes, OtherDoes, CrashedDoes DEF Fails
    <3>3. CASE ScriptRemoved \/ ScriptAdded \/ NavigateAnswered \/ EvaluateAnswered
      BY <1>3, <3>3 DEF ScriptRemoved, ScriptAdded, NavigateAnswered, EvaluateAnswered, Answered
    <3>4. CASE Timeout \/ TimeIsUp
      BY <3>4, TimeoutDoes, TimeIsUpDoes DEF Fails
    <3>5. CASE Tab
      BY <1>3, <3>5 DEF Tab, TabAnswers, TabAnswersLate, TabCommits, SubframeCommits, TabCrashes
    <3> QED BY <1>3, <3>1, <3>2, <3>3, <3>4, <3>5 DEF Next, Receive, vars
  <2> QED BY <1>1, <2>1
<1>4. CASE UParts /\ ~(ReceiveCrashed \/ Timeout \/ TimeIsUp)
  <2> SUFFICES UParts'
    BY DEF UInv, UParts
  <2>1. CASE Client
    BY <1>4, <2>1, NavigateU, EvaluateU, WaitU DEF Client
  <2>2. CASE Receive
    BY <1>4, <2>2, NavigatedU, OtherU, ScriptU, GoneU, EvaluatedU DEF Receive
  <2>3. CASE Tab
    BY <1>4, <2>3, AnswersU, CommitsU, NewsU DEF Tab
  <2> QED BY <1>4, <2>1, <2>2, <2>3, StutterU DEF Next
<1> QED BY <1>2, <1>3, <1>4 DEF UInv, UParts, Unfailed

-----------------------------------------------------------------------------
(* How a call ends, and what it then has seen. *)

SawItsOwn ==
    call.kind = "navigate" /\ call.alone =>
        /\ call.of \in history'.seen \ call.before
        /\ Navigating /\ (call.of \in history.seen \/ News # {})

Ending ==
    \/ UNCHANGED result
    \/ Ends("crashed")
    \/ Ends("timeout") /\ history'.seen = history.seen
    \/ Ends("expired") /\ call.late
    \/ Ends("ok") /\ SawItsOwn

LEMMA HowItEnds ==
    ASSUME IInv, GInv, [Next]_vars
    PROVE  Ending
<1>1. CASE Client
  BY <1>1, NavigateDoes, EvaluateDoes, WaitDoes DEF Client, Opened, Ending
<1>2. CASE ReceiveNavigated
  <2> DEFINE m == Head(ws.inbox)
  <2>1. /\ ws.inbox # <<>> /\ call.step # "idle" /\ m \in Message /\ m.type = "navigated"
        /\ page' = OnNotification(page, m.frame, m.of) /\ m.frame \in Frames
        /\ history'.seen = (IF m.frame = "main" THEN history.seen \cup {m.of} ELSE history.seen)
        /\ ws'.inbox = Tail(ws.inbox) /\ Loop(page') /\ UNCHANGED tab
    BY <1>2, NavigatedDoes
  <2>2. \/ UNCHANGED result
        \/ Ends("expired") /\ call.late
        \/ Ends("ok") /\ call.step = "wait" /\ ~page'.pending
    BY <2>1, LoopDoes
  <2>3. CASE call.step = "wait" /\ call.kind = "navigate" /\ call.alone /\ ~page'.pending
    <3>1. page.pending
      BY <2>3 DEF GInv, Waits
    <3>2. m.frame = "main"
      <4> DEFINE f == m.frame
                 u == m.of
      <4> HIDE DEF m
      <4>1. f \in Frames /\ page' = OnNotification(page, f, u)
        BY <2>1
      <4> HIDE DEF f, u
      <4>2. f = "main"
        BY <2>3, <3>1, <4>1, NotedPage
      <4> QED BY <4>2 DEF f
    <3>3. m.of \in News
      <4>1. Main(m)
        BY <2>1, <3>2 DEF Main
      <4> QED BY <2>1, <4>1, TakeViews
    <3>4. m.of = call.of /\ call.of \notin call.before
      BY <2>3, <3>3 DEF GInv, OwnNavigation, Navigating, Dated
    <3> QED BY <2>1, <2>2, <2>3, <3>2, <3>3, <3>4 DEF Ending, SawItsOwn, Navigating
  <2>4. CASE ~(call.kind = "navigate" /\ call.alone)
    BY <2>2, <2>4 DEF Ending, SawItsOwn
  <2> QED BY <2>2, <2>3, <2>4 DEF Ending
<1>3. CASE ReceiveOther
  <2>1. Loop(page) /\ UNCHANGED page
    BY <1>3, OtherDoes
  <2>2. \/ UNCHANGED result
        \/ Ends("expired") /\ call.late
        \/ Ends("ok") /\ call.step = "wait" /\ ~page.pending
    BY <2>1, LoopDoes
  <2>3. call.step = "wait" => page.pending
    BY DEF GInv, Waits
  <2> QED BY <2>2, <2>3 DEF Ending
<1>4. CASE ReceiveCrashed
  BY <1>4, CrashedDoes DEF Ending
<1>5. CASE ScriptRemoved \/ ScriptAdded
  BY <1>5, RemovedDoes, AddedDoes DEF Ending
<1>6. CASE NavigateAnswered
  <2> DEFINE f == Head(ws.inbox).frame
  <2>1. /\ Answered("go") /\ ws'.inbox = Tail(ws.inbox) /\ UNCHANGED tab
        /\ \/ f # None /\ f \in page.frames /\ Ends("ok")
           \/ UNCHANGED result
    BY <1>6, GoneDoes
  <2>2. /\ ws.inbox # <<>> /\ Head(ws.inbox).type = "answer" /\ call.step = "go" /\ UNCHANGED history
    BY <2>1, AnsweredDoes DEF Sync
  <2>3. Head(ws.inbox) \in Coming
    BY <2>1, <2>2, TakeViews
  <2>4. f # None => f = "main"
    BY <2>3 DEF GInv, Answering
  <2>5. "main" \in page.frames /\ call.kind = "navigate" /\ call.alone
           => call.of \in history.seen /\ call.of \notin call.before
    BY <2>2 DEF GInv, OwnNavigation, Navigating, Dated
  <2> HIDE DEF f
  <2> QED BY <2>1, <2>2, <2>4, <2>5 DEF Ending, SawItsOwn, Navigating
<1>7. CASE EvaluateAnswered
  <2>1. Answered("evaluate") /\ Ends("ok")
    BY <1>7, EvaluatedDoes
  <2>2. call.step = "evaluate"
    BY <2>1 DEF Answered
  <2>3. call.kind # "navigate"
    BY <2>2 DEF GInv, Waits
  <2> QED BY <2>1, <2>3 DEF Ending, SawItsOwn
<1>8. CASE Timeout
  BY <1>8, TimeoutDoes DEF Ending, Fails
<1>9. CASE TimeIsUp
  BY <1>9, TimeIsUpDoes DEF Ending
<1>10. CASE Tab
  BY <1>10 DEF Ending, Tab, ByTab, TabAnswers, TabAnswersLate, TabCommits, SubframeCommits, TabCrashes
<1> QED BY <1>1, <1>2, <1>3, <1>4, <1>5, <1>6, <1>7, <1>8, <1>9, <1>10 DEF Next, Receive, vars, Ending

(* The three properties, of the last call that ended. *)
Results == PreciseWhenAlone /\ WakeupNotLost /\ ScriptAsAsked

LEMMA NextResults ==
    ASSUME IInv, GInv, UInv, Results, [Next]_vars
    PROVE  Results'
<1>1. CASE UNCHANGED result
  BY <1>1 DEF Results, PreciseWhenAlone, WakeupNotLost, ScriptAsAsked
<1>2. CASE Ends("crashed")
  BY <1>2 DEF Ends, Results, PreciseWhenAlone, WakeupNotLost, ScriptAsAsked
<1>3. CASE Ends("timeout") /\ history'.seen = history.seen
  <2>1. /\ result'.kind = call.kind /\ result'.of = call.of /\ result'.outcome = "timeout"
        /\ result'.step = call.step /\ result'.fresh = ~history.failed
        /\ result'.new = history.seen \ call.before
    BY <1>3 DEF Ends
  <2>2. ~history.failed => Told
    BY DEF UInv, Unfailed
  <2>3. WakeupNotLost'
    BY <2>1, <2>2 DEF WakeupNotLost, Told
  <2> QED BY <2>1, <2>3 DEF Results, PreciseWhenAlone, ScriptAsAsked
<1>4. CASE Ends("expired") /\ call.late
  <2>1. result'.outcome = "expired" /\ result'.fresh = ~history.failed
    BY <1>4 DEF Ends
  <2>2. history.failed
    BY <1>4 DEF UInv, Unfailed, Tracking
  <2> QED BY <2>1, <2>2 DEF Results, PreciseWhenAlone, WakeupNotLost, ScriptAsAsked
<1>5. CASE Ends("ok") /\ SawItsOwn
  <2>1. /\ result'.kind = call.kind /\ result'.of = call.of /\ result'.outcome = "ok"
        /\ result'.alone = call.alone /\ result'.fresh = ~history.failed
        /\ result'.new = history'.seen \ call.before /\ result'.asked = call.script
        /\ result'.ran = tab.ran
    BY <1>5 DEF Ends
  <2>2. PreciseWhenAlone'
    BY <1>5, <2>1 DEF PreciseWhenAlone, SawItsOwn
  <2>3. WakeupNotLost'
    BY <2>1 DEF WakeupNotLost
  <2>4. ScriptAsAsked'
    <3>1. ~history.failed => RanOwn
      BY DEF UInv, Unfailed
    <3> QED BY <1>5, <2>1, <3>1 DEF ScriptAsAsked, SawItsOwn, RanOwn, Just
  <2> QED BY <2>2, <2>3, <2>4 DEF Results
<1> QED BY <1>1, <1>2, <1>3, <1>4, <1>5, HowItEnds DEF Ending

(* The inductive invariant of the navigations: what the requests, answers  *)
(* and notifications under way say of the call that waits for them.        *)
THEOREM NavigationInvariance == Spec => [](IInv /\ GInv /\ UInv /\ Results)
<1>1. Init => GInv /\ UInv /\ Results
  <2>1. Init => Results
    BY DEF Init, Results, PreciseWhenAlone, WakeupNotLost, ScriptAsAsked
  <2> QED BY <2>1, InitG, InitU
<1>2. IInv /\ GInv /\ UInv /\ Results /\ [Next]_vars => GInv' /\ UInv' /\ Results'
  BY NextG, NextU, NextResults
<1> QED BY <1>1, <1>2, Invariance, PTL DEF Spec

(* A Navigate called while nothing else navigates, if it returns, has seen *)
(* its own navigation commit: no subframe, no answer to an older call and  *)
(* no leftover of _navigated_frame_ids ends it early (_OnNotification,     *)
(* Navigate), whatever timed out before.                                   *)
THEOREM PreciseWhenAloneHolds == Spec => []PreciseWhenAlone
<1>1. Results => PreciseWhenAlone
  BY DEF Results
<1> QED BY <1>1, NavigationInvariance, PTL

(* Before the first failure, a call that gives up waiting was never told   *)
(* that what it waited for had happened, between its request, the answer   *)
(* and the wait (Navigate, WaitForNavigate).                               *)
THEOREM WakeupNotLostHolds == Spec => []WakeupNotLost
<1>1. Results => WakeupNotLost
  BY DEF Results
<1> QED BY <1>1, NavigationInvariance, PTL

(* Before the first failure, the document that a Navigate waited for ran   *)
(* the script it asked for and no other, although scripts are exchanged by *)
(* two requests (_SetScriptToEvaluateOnCommit).                            *)
THEOREM ScriptAsAskedHolds == Spec => []ScriptAsAsked
<1>1. Results => ScriptAsAsked
  BY DEF Results
<1> QED BY <1>1, NavigationInvariance, PTL
=============================================================================
