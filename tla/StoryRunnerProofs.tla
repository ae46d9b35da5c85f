-------------------------- MODULE StoryRunnerProofs --------------------------
(***************************************************************************)
(* Proofs about StoryRunner, for every page set, options, expectations and *)
(* bound.  IInv is about the state that is held: each is torn down once,   *)
(* and no story runs in a browser an earlier story met an exception in, but *)
(* for those Run tolerates.  LInv is about the rest: which runs have been  *)
(* filed, what replay serves, and what is left of the browsers.            *)
(***************************************************************************)
EXTENDS StoryRunner, SequenceTheorems, FiniteSetTheorems, WellFoundedInduction, TLAPS

(* As much of the types as the two properties need. *)
StateType == [id : Nat \ {0}, browser : Nat, append_to_existing_wpr : BOOLEAN]
BrowsersType == [created : Nat, alive : SUBSET Nat, running : SUBSET Nat, perf : BOOLEAN]
HistoryType == [created : Nat, torn : Seq(Nat), lost : SUBSET Nat, met : SUBSET (Nat \X Manners),
                leaked : BOOLEAN, swallowed : BOOLEAN]

Types ==
    /\ state \in StateType \cup {NoState}
    /\ browsers \in BrowsersType
    /\ history \in HistoryType

(* Every state but the one that is held has been torn down once. *)
Torn ==
    /\ Len(history.torn) = history.created
    /\ state.id \in 0 .. history.created
    /\ \A i \in 1 .. history.created : history.torn[i] = IF state.id = i THEN 0 ELSE 1

(* Between StartPage and FinishPage there is a state, and none in the end. *)
InPage == {"will_run", "reuse", "create", "expectation", "run", "did_run", "did_page"}
Held == (pc \in InPage => state # NoState) /\ (pc = "done" => state = NoState)

(* Outside the handlers no exception is on its way. *)
Calm == pc \in {"page", "will_run", "reuse", "create", "expectation", "run", "next"} => raised = "none"

(* A state whose browser met an error is on its way out: the error travels *)
(* to the retry, or ends the run.                                          *)
OnItsWayOut ==
    \/ pc \in {"did_run", "did_page"} /\ raised \in {"error", "fatal"}
    \/ pc = "teardown" /\ raised = "fatal"
Suspects ==
    /\ history.met \subseteq (0 .. browsers.created) \X Manners
    /\ <<0, "error">> \notin history.met
    /\ state # NoState =>
         /\ state.browser \in 0 .. browsers.created
         /\ <<state.browser, "error">> \in history.met => OnItsWayOut
         /\ pc \in {"reuse", "expectation", "run"} => state.browser # 0

IInv == Types /\ Torn /\ Held /\ Calm /\ Suspects

-----------------------------------------------------------------------------
(* The operators. *)

LEMMA StateCases ==
    ASSUME Types
    PROVE  /\ state # NoState <=> state \in StateType
           /\ state = NoState <=> state.id = 0
BY DEF Types, StateType, NoState

(* Closing a browser and dropping it from the state changes nothing the    *)
(* invariant says of the state, but that the browser is gone.              *)
LEMMA Stopped ==
    ASSUME Types, state # NoState
    PROVE  /\ StateStopped \in StateType
           /\ StateStopped.id = state.id /\ StateStopped.browser = 0
<1>1. state \in StateType
  BY StateCases
<1>2. CASE state.browser = NoBrowser
  BY <1>1, <1>2 DEF StateStopped, NoBrowser
<1>3. CASE state.browser # NoBrowser
  <2>1. StateStopped = [state EXCEPT !.browser = NoBrowser, !.append_to_existing_wpr = TRUE]
    BY <1>3 DEF StateStopped
  <2> QED BY <1>1, <2>1 DEF StateType, NoBrowser
<1> QED BY <1>2, <1>3

LEMMA Closed ==
    ASSUME Types, NEW b
    PROVE  BrowsersAfterClose(b) \in BrowsersType /\ BrowsersAfterClose(b).created = browsers.created
<1>1. CASE b \notin browsers.alive
  BY <1>1 DEF BrowsersAfterClose, Types, BrowsersType
<1>2. CASE b \in browsers.alive
  <2> DEFINE perf == browsers.perf /\ Cardinality(browsers.running) > 1
  <2>1. perf \in BOOLEAN
    OBVIOUS
  <2>2. BrowsersAfterClose(b) = [browsers EXCEPT !.alive = @ \ {b}, !.running = @ \ {b}, !.perf = perf]
    BY <1>2 DEF BrowsersAfterClose, Types, BrowsersType
  <2> HIDE DEF perf
  <2> QED BY <2>1, <2>2 DEF Types, BrowsersType
<1> QED BY <1>1, <1>2

(* What is written down of an exception touches nothing else.              *)
LEMMA MetAdds ==
    ASSUME history \in HistoryType, NEW b \in Nat, NEW how
    PROVE  /\ Met(b, how) \in HistoryType
           /\ Met(b, how).torn = history.torn /\ Met(b, how).created = history.created
           /\ Met(b, how).lost = history.lost /\ Met(b, how).leaked = history.leaked
           /\ Met(b, how).swallowed = history.swallowed
           /\ Met(b, how).met = IF how \in Manners THEN history.met \cup {<<b, how>>} ELSE history.met
<1>1. CASE how \in Manners
  <2> DEFINE m == history.met \cup {<<b, how>>}
  <2>1. m \in SUBSET (Nat \X Manners)
    BY <1>1 DEF HistoryType
  <2>2. Met(b, how) = [history EXCEPT !.met = m]
    BY <1>1 DEF Met, HistoryType
  <2> HIDE DEF m
  <2>3. /\ Met(b, how) \in HistoryType
        /\ Met(b, how).torn = history.torn /\ Met(b, how).created = history.created
        /\ Met(b, how).lost = history.lost /\ Met(b, how).leaked = history.leaked
        /\ Met(b, how).swallowed = history.swallowed /\ Met(b, how).met = m
    BY <2>1, <2>2 DEF HistoryType
  <2> QED BY <1>1, <2>3 DEF m
<1>2. CASE how \notin Manners
  BY <1>2 DEF Met
<1> QED BY <1>1, <1>2

(* What a finally clause writes down of an exception it drops.             *)
LEMMA Swallowed ==
    ASSUME Types, NEW h \in HistoryType,
           history' = h \/ history' = [h EXCEPT !.swallowed = @ \/ raised = "none"]
    PROVE  /\ history' \in HistoryType /\ history'.torn = h.torn /\ history'.created = h.created
           /\ history'.met = h.met /\ history'.lost = h.lost /\ history'.leaked = h.leaked
<1> DEFINE w == h.swallowed \/ raised = "none"
<1>1. w \in BOOLEAN
  OBVIOUS
<1>2. history' = h \/ history' = [h EXCEPT !.swallowed = w]
  BY DEF HistoryType
<1> HIDE DEF w
<1> QED BY <1>1, <1>2 DEF HistoryType

LEMMA Dropped ==
    ASSUME Types, state \in StateType, DidRunUserStory
    PROVE  /\ history' \in HistoryType /\ history'.torn = history.torn
           /\ history'.created = history.created
           /\ history'.lost = history.lost /\ history'.leaked = history.leaked
           /\ \/ history'.met = history.met
              \/ history'.met = history.met \cup {<<state.browser, "dropped">>}
<1> DEFINE h == Met(state.browser, "dropped")
<1>1. history' = history \/ history' = [h EXCEPT !.swallowed = @ \/ raised = "none"]
  BY DEF DidRunUserStory
<1>2. state.browser \in Nat
  BY DEF StateType
<1>3. /\ h \in HistoryType /\ h.torn = history.torn /\ h.created = history.created
      /\ h.lost = history.lost /\ h.leaked = history.leaked
      /\ h.met = history.met \cup {<<state.browser, "dropped">>}
  BY <1>2, MetAdds DEF Types, Manners
<1> HIDE DEF h
<1> QED BY <1>1, <1>3, Swallowed DEF Types

LEMMA TornDownTorn ==
    ASSUME Types, Torn, state # NoState
    PROVE  /\ TornDown(history) \in HistoryType
           /\ TornDown(history).created = history.created
           /\ TornDown(history).met = history.met
           /\ Len(TornDown(history).torn) = history.created
           /\ \A i \in 1 .. history.created : TornDown(history).torn[i] = 1
<1> DEFINE t == [history.torn EXCEPT ![state.id] = @ + 1]
<1>1. state.id \in 1 .. history.created
  BY StateCases DEF Torn, Types, StateType, HistoryType
<1>2. history.torn \in Seq(Nat) /\ DOMAIN history.torn = 1 .. history.created
  BY DEF Types, HistoryType, Torn
<1>3. t \in Seq(Nat) /\ Len(t) = history.created
  BY <1>1, <1>2 DEF Types, HistoryType
<1>4. \A i \in 1 .. history.created : t[i] = 1
  BY <1>1, <1>2 DEF Torn
<1>5. TornDown(history) = [history EXCEPT !.torn = t]
  BY DEF TornDown, Types, HistoryType
<1> HIDE DEF t
<1> QED BY <1>3, <1>4, <1>5 DEF Types, HistoryType

(* Steps that neither create nor tear down a state. *)
LEMMA TornKept ==
    ASSUME Torn, history'.torn = history.torn, history'.created = history.created,
           state'.id = state.id
    PROVE  Torn'
BY DEF Torn

-----------------------------------------------------------------------------
(* The steps. *)

LEMMA InitInv == Init => IInv
<1> SUFFICES ASSUME Init PROVE IInv
  OBVIOUS
<1>1. Types
  BY DEF Init, Types, HistoryType, BrowsersType
<1>2. Torn
  BY DEF Init, Torn, NoState
<1>3. Held /\ Calm /\ Suspects
  BY DEF Init, Held, Calm, Suspects, InPage
<1> QED BY <1>1, <1>2, <1>3 DEF IInv

LEMMA StartPageInv == IInv /\ StartPage => IInv'
<1> SUFFICES ASSUME Types, Torn, Held, Calm, Suspects, StartPage PROVE IInv'
  BY DEF IInv
<1>1. /\ pc = "page" /\ browsers' = browsers /\ pc' \in {"teardown", "will_run", "did_page"}
      /\ pc' = "will_run" => raised' = raised
  BY DEF StartPage
<1>2. CASE state # NoState
  <2>1. state' = state /\ history' = history
    BY <1>2 DEF StartPage
  <2>2. Types' /\ Torn'
    BY <1>1, <2>1, TornKept DEF Types
  <2>3. Held' /\ Calm'
    BY <1>1, <1>2, <2>1 DEF Held, Calm
  <2>4. Suspects'
    BY <1>1, <1>2, <2>1 DEF Suspects, OnItsWayOut
  <2> QED BY <2>2, <2>3, <2>4 DEF IInv
<1>3. CASE state = NoState
  <2> DEFINE n == history.created
             t == [i \in 1 .. n + 1 |-> IF i \in DOMAIN history.torn THEN history.torn[i] ELSE 0]
  <2>1. state' = NewState /\ history' = [history EXCEPT !.created = n + 1, !.torn = t]
    BY <1>3 DEF StartPage, Types, HistoryType
  <2>2. n \in Nat /\ history.torn \in Seq(Nat) /\ DOMAIN history.torn = 1 .. n
    BY DEF Types, HistoryType, Torn
  <2>3. t \in Seq(Nat) /\ Len(t) = n + 1
    BY <2>2
  <2>4. /\ state' \in StateType /\ state'.id = n + 1 /\ state'.browser = 0
    BY <2>1, <2>2 DEF NewState, StateType, NoBrowser
  <2>5. \A i \in 1 .. n + 1 : t[i] = IF n + 1 = i THEN 0 ELSE 1
    <3>1. \A i \in 1 .. n : history.torn[i] = 1
      BY <1>3, <2>2 DEF Torn, NoState
    <3> QED BY <2>2, <3>1
  <2>6. /\ history' \in HistoryType /\ history'.created = n + 1 /\ history'.torn = t
        /\ history'.met = history.met
    <3> DEFINE m == n + 1
               S == Seq(Nat)
    <3> HIDE DEF t, n
    <3>1. m \in Nat /\ t \in Seq(Nat)
      BY <2>2, <2>3
    <3>2. history' = [history EXCEPT !.created = m, !.torn = t]
      BY <2>1
    <3>3. /\ history \in HistoryType /\ t \in S
          /\ HistoryType = [created : Nat, torn : S, lost : SUBSET Nat,
                            met : SUBSET (Nat \X Manners), leaked : BOOLEAN, swallowed : BOOLEAN]
      BY <3>1 DEF Types, HistoryType
    <3> HIDE DEF m, S
    <3>4. /\ history' \in HistoryType /\ history'.created = m /\ history'.torn = t
          /\ history'.met = history.met
      BY <3>1, <3>2, <3>3
    <3> QED BY <3>4 DEF m
  <2> HIDE DEF t, n
  <2>7. Types' /\ Torn'
    <3>1. n + 1 \in 0 .. n + 1
      BY <2>2 DEF n
    <3> QED BY <1>1, <2>3, <2>4, <2>5, <2>6, <3>1 DEF Types, Torn
  <2>8. state' # NoState
    BY <2>4 DEF StateType, NoState
  <2>9. Held' /\ Calm'
    BY <1>1, <2>8 DEF Held, Calm
  <2>10. Suspects'
    BY <1>1, <2>4, <2>6 DEF Suspects, Types, BrowsersType
  <2> QED BY <2>7, <2>9, <2>10 DEF IInv
<1> QED BY <1>2, <1>3

LEMMA WillRunInv == IInv /\ WillRunUserStory => IInv'
<1> SUFFICES ASSUME Types, Torn, Held, Calm, Suspects, WillRunUserStory PROVE IInv'
  BY DEF IInv
<1>1. /\ pc = "will_run" /\ pc' \in {"create", "reuse"} /\ raised' = raised /\ history' = history
      /\ pc' = "reuse" => state'.browser # 0
      /\ state' = StateStopped \/ state' = state
      /\ browsers' = BrowsersAfterClose(state.browser) \/ browsers' = browsers
  BY DEF WillRunUserStory, NoBrowser
<1>2. state \in StateType /\ state # NoState
  BY <1>1, StateCases DEF Held, InPage
<1>3. /\ state' \in StateType /\ state'.id = state.id /\ state'.browser \in {0, state.browser}
  BY <1>1, <1>2, Stopped
<1>4. browsers' \in BrowsersType /\ browsers'.created = browsers.created
  BY <1>1, Closed DEF Types
<1>5. state' # NoState
  BY <1>3 DEF StateType, NoState
<1>6. Types' /\ Torn'
  BY <1>1, <1>3, <1>4, TornKept DEF Types
<1>7. Held' /\ Calm'
  BY <1>1, <1>5 DEF Held, Calm
<1>8. <<state.browser, "error">> \notin history.met /\ <<0, "error">> \notin history.met
  BY <1>1, <1>2 DEF Suspects, OnItsWayOut, Types, BrowsersType
<1>9. Suspects'
  BY <1>1, <1>2, <1>3, <1>4, <1>8 DEF Suspects, Types, BrowsersType
<1> QED BY <1>6, <1>7, <1>9 DEF IInv

(* What a step inside the handlers does, when it keeps the state. *)
LEMMA InHandlers ==
    ASSUME IInv, state \in StateType, pc \in InPage,
           state' \in StateType, state'.id = state.id,
           browsers' \in BrowsersType, history' \in HistoryType,
           history'.torn = history.torn, history'.created = history.created,
           pc' \in InPage, raised' = "none" \/ pc' \in {"did_run", "did_page"}
    PROVE  Types' /\ Torn' /\ Held' /\ Calm'
<1>1. state' # NoState
  BY DEF StateType, NoState
<1>2. Types' /\ Torn'
  BY TornKept DEF Types, IInv
<1>3. Held' /\ Calm'
  BY <1>1 DEF Held, Calm, InPage
<1> QED BY <1>2, <1>3

LEMMA ReuseInv == IInv /\ ReuseBrowser => IInv'
<1> SUFFICES ASSUME IInv, ReuseBrowser PROVE IInv'
  OBVIOUS
<1>1. pc = "reuse" /\ state' = state /\ browsers' = browsers /\ raised = "none"
  BY DEF ReuseBrowser, IInv, Calm
<1>2. state \in StateType /\ state # NoState
  BY <1>1, StateCases DEF IInv, Held, InPage
<1>3. \/ pc' = "expectation" /\ raised' = raised
      \/ pc' = "did_run" /\ raised' \in {"none", "error", "fatal"}
  BY DEF ReuseBrowser, BrowserRaises, StoryEnds, Passed
<1>4. \/ history' = history
      \/ history' = Met(state.browser, "expected")
      \/ history' = Met(state.browser, "error") /\ raised' = "error" /\ pc' = "did_run"
  BY DEF ReuseBrowser, BrowserRaises, StoryEnds, Passed
<1>5. /\ history' \in HistoryType /\ history'.torn = history.torn
      /\ history'.created = history.created
      /\ \/ history'.met = history.met
         \/ history'.met = history.met \cup {<<state.browser, "expected">>}
         \/ /\ raised' = "error" /\ pc' = "did_run"
            /\ history'.met = history.met \cup {<<state.browser, "error">>}
  <2>1. history \in HistoryType /\ state.browser \in Nat
    BY <1>2 DEF IInv, Types, StateType
  <2>2. \A how \in {"expected", "error"} :
           LET h == Met(state.browser, how)
           IN  /\ h \in HistoryType /\ h.torn = history.torn /\ h.created = history.created
               /\ h.met = history.met \cup {<<state.browser, how>>}
    BY <2>1, MetAdds DEF Manners
  <2> QED BY <1>4, <2>1, <2>2
<1>6. Types' /\ Torn' /\ Held' /\ Calm'
  <2>1. pc' \in InPage /\ (raised' = "none" \/ pc' \in {"did_run", "did_page"}) /\ pc \in InPage
    BY <1>1, <1>3 DEF InPage
  <2>2. state' \in StateType /\ state'.id = state.id /\ browsers' \in BrowsersType
    BY <1>1, <1>2 DEF IInv, Types
  <2> QED BY <1>2, <1>5, <2>1, <2>2, InHandlers
<1>7. Suspects'
  <2>1. /\ <<state.browser, "error">> \notin history.met /\ state.browser \in 0 .. browsers.created
        /\ state.browser # 0 /\ <<0, "error">> \notin history.met
        /\ history.met \subseteq (0 .. browsers.created) \X Manners
    BY <1>1, <1>2 DEF IInv, Suspects, OnItsWayOut
  <2>2. /\ history'.met \subseteq (0 .. browsers.created) \X Manners
        /\ <<0, "error">> \notin history'.met
    BY <1>5, <2>1 DEF Manners
  <2>3. <<state.browser, "error">> \in history'.met => raised' = "error" /\ pc' = "did_run"
    BY <1>5, <2>1
  <2> QED BY <1>1, <2>1, <2>2, <2>3 DEF Suspects, OnItsWayOut
<1> QED BY <1>6, <1>7 DEF IInv

LEMMA CreateInv == IInv /\ CreateBrowser => IInv'
<1> SUFFICES ASSUME IInv, CreateBrowser PROVE IInv'
  OBVIOUS
<1> DEFINE b == browsers.created + 1
<1>1. pc = "create" /\ raised = "none"
  BY DEF CreateBrowser, IInv, Calm
<1>2. state \in StateType /\ state # NoState /\ pc \in InPage
  BY <1>1, StateCases DEF IInv, Held, InPage
<1>3. b \in Nat /\ b > browsers.created /\ browsers.created \in Nat
  BY DEF IInv, Types, BrowsersType
<1>4. /\ <<state.browser, "error">> \notin history.met /\ state.browser \in 0 .. browsers.created
      /\ history.met \subseteq (0 .. browsers.created) \X Manners
      /\ <<0, "error">> \notin history.met
  BY <1>1, <1>2 DEF IInv, Suspects, OnItsWayOut
<1>5. CASE /\ state' = state /\ pc' = "did_run" /\ raised' \in {"none", "error", "fatal"}
           /\ browsers' = [browsers EXCEPT !.created = b, !.perf = TRUE]
           /\ history' = [history EXCEPT !.lost = @ \cup {b}]
  <2>1. /\ browsers' \in BrowsersType /\ browsers'.created = b
        /\ history' \in HistoryType /\ history'.torn = history.torn
        /\ history'.created = history.created /\ history'.met = history.met
    BY <1>3, <1>5 DEF IInv, Types, BrowsersType, HistoryType
  <2>2. Types' /\ Torn' /\ Held' /\ Calm'
    BY <1>2, <1>5, <2>1, InHandlers DEF InPage
  <2>3. Suspects'
    BY <1>3, <1>4, <1>5, <2>1 DEF Suspects
  <2> QED BY <2>2, <2>3 DEF IInv
<1>6. CASE /\ state' = [state EXCEPT !.browser = b]
           /\ browsers' = [created |-> b, perf |-> TRUE, alive |-> browsers.alive \cup {b},
                           running |-> browsers.running \cup {b}]
           /\ \/ pc' = "expectation" /\ raised' = raised /\ history' = history
              \/ pc' = "did_run" /\ raised' = "none" /\ history' = Met(b, "expected")
              \/ pc' = "did_run" /\ raised' = "error" /\ history' = Met(b, "error")
  <2>1. state' \in StateType /\ state'.id = state.id /\ state'.browser = b
    BY <1>2, <1>3, <1>6 DEF StateType
  <2>2. browsers' \in BrowsersType /\ browsers'.created = b
    BY <1>3, <1>6 DEF IInv, Types, BrowsersType
  <2>3. /\ history' \in HistoryType /\ history'.torn = history.torn
        /\ history'.created = history.created
        /\ \/ history'.met = history.met \/ history'.met = history.met \cup {<<b, "expected">>}
           \/ /\ history'.met = history.met \cup {<<b, "error">>}
              /\ raised' = "error" /\ pc' = "did_run"
    <3>1. history \in HistoryType /\ b \in Nat
      BY <1>3 DEF IInv, Types
    <3> HIDE DEF b
    <3>2. \A how \in {"expected", "error"} :
             LET h == Met(b, how)
             IN  /\ h \in HistoryType /\ h.torn = history.torn /\ h.created = history.created
                 /\ h.met = history.met \cup {<<b, how>>}
      BY <3>1, MetAdds DEF Manners
    <3> QED BY <1>6, <3>1, <3>2
  <2>4. Types' /\ Torn' /\ Held' /\ Calm'
    BY <1>1, <1>2, <1>6, <2>1, <2>2, <2>3, InHandlers DEF InPage
  <2>5. b # 0 /\ b \in 0 .. b /\ b \notin 0 .. browsers.created /\ 0 .. browsers.created \subseteq 0 .. b
    BY <1>3
  <2> HIDE DEF b
  <2>6. <<b, "error">> \notin history.met
    BY <1>4, <2>5
  <2>7. history'.met \subseteq (0 .. b) \X Manners /\ <<0, "error">> \notin history'.met
    BY <1>4, <2>3, <2>5 DEF Manners
  <2>8. <<b, "error">> \in history'.met => raised' = "error" /\ pc' = "did_run"
    BY <2>3, <2>6
  <2>9. Suspects'
    BY <2>1, <2>2, <2>5, <2>7, <2>8 DEF Suspects, OnItsWayOut
  <2> QED BY <2>4, <2>9 DEF IInv
<1>7. QED
  <2>1. \A kind : StoryEnds(kind) => pc' = "did_run" /\ raised' = Passed(kind)
    BY DEF StoryEnds
  <2>2. /\ Passed("fatal") = "fatal" /\ Passed("expected") = "none" /\ Passed("error") = "error"
    BY DEF Passed
  <2> HIDE DEF b
  <2>3. \/ /\ StoryEnds("fatal") /\ state' = state
           /\ browsers' = [browsers EXCEPT !.created = b, !.perf = TRUE]
           /\ history' = [history EXCEPT !.lost = @ \cup {b}]
        \/ /\ browsers' = [browsers EXCEPT !.created = b, !.perf = TRUE]
           /\ history' = [history EXCEPT !.lost = @ \cup {b}]
           /\ \E kind \in {"expected", "error"} : BrowserRaises(kind)
           /\ state' = state
        \/ /\ browsers' = [created |-> b, perf |-> TRUE, alive |-> browsers.alive \cup {b},
                           running |-> browsers.running \cup {b}]
           /\ state' = [state EXCEPT !.browser = b]
           /\ \/ pc' = "expectation" /\ raised' = raised /\ history' = history
              \/ \E kind \in {"expected", "error"} : BrowserRaises(kind) /\ history' = Met(b, kind)
    BY DEF CreateBrowser, b
  <2> QED BY <1>5, <1>6, <2>1, <2>2, <2>3 DEF BrowserRaises, b

LEMMA GetExpectationInv == IInv /\ GetExpectation => IInv'
<1> SUFFICES ASSUME IInv, GetExpectation PROVE IInv'
  OBVIOUS
<1>1. /\ pc = "expectation" /\ raised = "none" /\ raised' = raised /\ pc' \in {"did_run", "run"}
      /\ state' = state /\ browsers' = browsers /\ history' = history
  BY DEF GetExpectation, IInv, Calm
<1>2. state \in StateType /\ state # NoState /\ pc \in InPage /\ pc' \in InPage
  BY <1>1, StateCases DEF IInv, Held, InPage
<1>3. Types' /\ Torn' /\ Held' /\ Calm'
  BY <1>1, <1>2, InHandlers DEF IInv, Types
<1>4. <<state.browser, "error">> \notin history.met /\ state.browser # 0
  BY <1>1, <1>2 DEF IInv, Suspects, OnItsWayOut
<1>5. Suspects'
  BY <1>1, <1>4 DEF IInv, Suspects
<1> QED BY <1>3, <1>5 DEF IInv

(* An error of the story is raised again, as it is or as a fatal one.      *)
LEMMA RunUserStoryInv == IInv /\ RunUserStory => IInv'
<1> SUFFICES ASSUME IInv, RunUserStory PROVE IInv'
  OBVIOUS
<1>1. pc = "run" /\ state' = state /\ browsers' = browsers
  BY DEF RunUserStory
<1>2. state \in StateType /\ state # NoState /\ pc \in InPage
  BY <1>1, StateCases DEF IInv, Held, InPage
<1>3. PICK outcome : /\ \E kind \in Rethrown(outcome) : StoryEnds(kind)
                     /\ history' = Met(state.browser, outcome)
  BY DEF RunUserStory
<1>4. pc' = "did_run" /\ (outcome = "error" => raised' \in {"error", "fatal"})
  BY <1>3 DEF Rethrown, StoryEnds, Passed
<1>5. /\ history' \in HistoryType /\ history'.torn = history.torn
      /\ history'.created = history.created
      /\ history'.met = IF outcome \in Manners THEN history.met \cup {<<state.browser, outcome>>}
                        ELSE history.met
  <2>1. history \in HistoryType /\ state.browser \in Nat
    BY <1>2 DEF IInv, Types, StateType
  <2> QED BY <1>3, <2>1, MetAdds
<1>6. Types' /\ Torn' /\ Held' /\ Calm'
  <2>1. pc' \in InPage /\ pc' \in {"did_run", "did_page"}
    BY <1>4 DEF InPage
  <2>2. state' \in StateType /\ state'.id = state.id /\ browsers' \in BrowsersType
    BY <1>1, <1>2 DEF IInv, Types
  <2> QED BY <1>2, <1>5, <2>1, <2>2, InHandlers
<1>7. Suspects'
  <2>1. /\ <<state.browser, "error">> \notin history.met /\ state.browser \in 0 .. browsers.created
        /\ state.browser # 0 /\ <<0, "error">> \notin history.met
        /\ history.met \subseteq (0 .. browsers.created) \X Manners
    BY <1>1, <1>2 DEF IInv, Suspects, OnItsWayOut
  <2>2. /\ history'.met \subseteq (0 .. browsers.created) \X Manners
        /\ <<0, "error">> \notin history'.met
    BY <1>5, <2>1
  <2>3. <<state.browser, "error">> \in history'.met => outcome = "error"
    BY <1>5, <2>1
  <2> QED BY <1>1, <1>4, <2>1, <2>2, <2>3 DEF Suspects, OnItsWayOut
<1> QED BY <1>6, <1>7 DEF IInv

(* Whatever the finally clause does, the exception travels on.             *)
LEMMA DidRunInv == IInv /\ DidRunUserStory => IInv'
<1> SUFFICES ASSUME IInv, DidRunUserStory PROVE IInv'
  OBVIOUS
<1>1. /\ pc = "did_run" /\ pc' = "did_page" /\ raised' = raised
      /\ state' = StateStopped \/ state' = state
      /\ browsers' = BrowsersAfterClose(state.browser) \/ browsers' = browsers
  BY DEF DidRunUserStory, StopBrowser
<1>2. state \in StateType /\ state # NoState /\ pc \in InPage /\ pc' \in InPage
  BY <1>1, StateCases DEF IInv, Held, InPage
<1>3. state' \in StateType /\ state'.id = state.id /\ state'.browser \in {0, state.browser}
  BY <1>1, <1>2, Stopped DEF IInv
<1>4. browsers' \in BrowsersType /\ browsers'.created = browsers.created
  BY <1>1, Closed DEF IInv, Types
<1>5. /\ history' \in HistoryType /\ history'.torn = history.torn
      /\ history'.created = history.created
      /\ \/ history'.met = history.met
         \/ history'.met = history.met \cup {<<state.browser, "dropped">>}
  BY <1>2, Dropped DEF IInv
<1>6. Types' /\ Torn' /\ Held' /\ Calm'
  BY <1>1, <1>2, <1>3, <1>4, <1>5, InHandlers
<1>7. Suspects'
  <2>1. /\ 0 \in 0 .. browsers.created /\ state.browser \in 0 .. browsers.created
        /\ history.met \subseteq (0 .. browsers.created) \X Manners
        /\ <<0, "error">> \notin history.met
    BY <1>2 DEF IInv, Suspects, Types, BrowsersType
  <2>2. <<state.browser, "error">> \in history.met => raised \in {"error", "fatal"}
    BY <1>1, <1>2 DEF IInv, Suspects, OnItsWayOut
  <2>3. /\ history'.met \subseteq (0 .. browsers.created) \X Manners
        /\ \A c : <<c, "error">> \in history'.met <=> <<c, "error">> \in history.met
    BY <1>5, <2>1 DEF Manners
  <2>4. state'.browser \in 0 .. browsers.created
    BY <1>3, <2>1
  <2>5. <<state'.browser, "error">> \in history'.met => raised \in {"error", "fatal"}
    BY <1>3, <2>1, <2>2, <2>3
  <2> QED BY <1>1, <1>2, <1>4, <2>1, <2>3, <2>4, <2>5 DEF Suspects, OnItsWayOut
<1> QED BY <1>6, <1>7 DEF IInv

(* What holds once the state is torn down.                                 *)
LEMMA AfterTearDown ==
    ASSUME IInv, state # NoState, state' = NoState, NEW h,
           h = TornDown(history),
           history' \in HistoryType, history'.created = h.created,
           history'.torn = h.torn, history'.met = h.met,
           browsers' \in BrowsersType, browsers'.created = browsers.created
    PROVE  Types' /\ Torn' /\ Suspects'
<1>1. /\ h.created = history.created /\ h.met = history.met
      /\ Len(h.torn) = history.created
      /\ \A i \in 1 .. history.created : h.torn[i] = 1
  BY TornDownTorn DEF IInv
<1>2. Types'
  BY DEF Types
<1>3. Torn'
  BY <1>1 DEF Torn, NoState, HistoryType
<1>4. Suspects'
  BY <1>1 DEF IInv, Suspects
<1> QED BY <1>2, <1>3, <1>4

LEMMA FinishPageInv == IInv /\ FinishPage => IInv'
<1> SUFFICES ASSUME IInv, FinishPage PROVE IInv'
  OBVIOUS
<1>1. pc = "did_page" /\ pc' = IF raised' = "none" THEN "next" ELSE "teardown"
  BY DEF FinishPage
<1>2. state \in StateType /\ state # NoState
  BY <1>1, StateCases DEF IInv, Held, InPage
<1>3. Held' /\ Calm'
  BY <1>1 DEF Held, Calm, InPage
<1>4. CASE raised = "error"
  <2>1. RetryAfterError
    BY <1>4 DEF FinishPage
  <2>2. state' = NoState
    BY <2>1 DEF RetryAfterError, Forget
  <2>3. browsers' \in BrowsersType /\ browsers'.created = browsers.created
    BY <2>1, Closed DEF RetryAfterError, IInv, Types
  <2>4. TornDown(history) \in HistoryType
    BY <1>2, TornDownTorn DEF IInv
  <2>5. history' = TornDown(history) \/ history' = [TornDown(history) EXCEPT !.leaked = TRUE]
    BY <2>1 DEF RetryAfterError
  <2>6. /\ history' \in HistoryType /\ history'.created = TornDown(history).created
        /\ history'.torn = TornDown(history).torn /\ history'.met = TornDown(history).met
    <3> DEFINE h == TornDown(history)
    <3> HIDE DEF h
    <3>1. h \in HistoryType /\ (history' = h \/ history' = [h EXCEPT !.leaked = TRUE])
      BY <2>4, <2>5 DEF h
    <3> QED BY <3>1 DEF h, HistoryType
  <2>7. Types' /\ Torn' /\ Suspects'
    BY <1>2, <2>2, <2>3, <2>6, AfterTearDown
  <2> QED BY <1>3, <2>7 DEF IInv
<1>5. CASE raised # "error"
  <2>1. /\ state' = state /\ browsers' = browsers /\ raised' = raised
        /\ history' = history \/ history' = [history EXCEPT !.swallowed = @ \/ raised = "none"]
    BY <1>5 DEF FinishPage
  <2>2. history' \in HistoryType /\ history'.torn = history.torn
        /\ history'.created = history.created /\ history'.met = history.met
    BY <2>1, Swallowed DEF IInv, Types
  <2>3. Types' /\ Torn'
    BY <2>1, <2>2, TornKept DEF IInv, Types
  <2>4. <<state.browser, "error">> \in history.met => raised = "fatal"
    BY <1>1, <1>2, <1>5 DEF IInv, Suspects, OnItsWayOut
  <2>5. Suspects'
    BY <1>1, <1>2, <2>1, <2>2, <2>4 DEF IInv, Suspects, OnItsWayOut
  <2> QED BY <1>3, <2>3, <2>5 DEF IInv
<1> QED BY <1>4, <1>5

LEMMA NextStoryInv == IInv /\ NextStory => IInv'
<1> SUFFICES ASSUME IInv, NextStory PROVE IInv'
  OBVIOUS
<1>1. /\ pc = "next" /\ state' = state /\ browsers' = browsers /\ history' = history
      /\ pc' \in {"page", "teardown"} /\ (raised' = raised \/ pc' = "teardown")
  BY DEF NextStory
<1>2. Types' /\ Torn'
  BY <1>1, TornKept DEF IInv, Types
<1>3. Held' /\ Calm'
  BY <1>1 DEF IInv, Held, Calm, InPage
<1>4. Suspects'
  BY <1>1 DEF IInv, Suspects, OnItsWayOut
<1> QED BY <1>2, <1>3, <1>4 DEF IInv

LEMMA TearDownGroupInv == IInv /\ TearDownGroup => IInv'
<1> SUFFICES ASSUME IInv, TearDownGroup PROVE IInv'
  OBVIOUS
<1>1. /\ pc = "teardown" /\ state' = NoState /\ raised' = raised
      /\ (pc' = "page" /\ raised = "none") \/ pc' = "done"
  BY DEF TearDownGroup
<1>2. Held' /\ Calm'
  BY <1>1 DEF Held, Calm, InPage
<1>3. CASE state = NoState
  <2>1. browsers' = browsers /\ history' = history
    BY <1>3 DEF TearDownGroup
  <2>2. Types' /\ Torn'
    BY <1>1, <1>3, <2>1, TornKept DEF IInv, Types
  <2>3. Suspects'
    BY <1>1, <2>1 DEF IInv, Suspects
  <2> QED BY <1>2, <2>2, <2>3 DEF IInv
<1>4. CASE state # NoState
  <2> DEFINE h == TornDown(history)
             w == h.swallowed \/ raised \in {"none", "too_many_failures"}
  <2>1. browsers' \in BrowsersType /\ browsers'.created = browsers.created
    BY <1>4, Closed DEF TearDownGroup, IInv, Types
  <2>2. h \in HistoryType
    BY <1>4, TornDownTorn DEF IInv
  <2>3. history' = h \/ history' = [h EXCEPT !.leaked = TRUE, !.swallowed = w]
    BY <1>4, <2>2 DEF TearDownGroup, HistoryType
  <2>4. w \in BOOLEAN
    OBVIOUS
  <2>5. /\ history' \in HistoryType /\ history'.created = h.created
        /\ history'.torn = h.torn /\ history'.met = h.met
    <3> HIDE DEF h, w
    <3> QED BY <2>2, <2>3, <2>4 DEF HistoryType
  <2>6. Types' /\ Torn' /\ Suspects'
    BY <1>1, <1>4, <2>1, <2>5, AfterTearDown
  <2> QED BY <1>2, <2>6 DEF IInv
<1> QED BY <1>3, <1>4

LEMMA BrowserDiesInv == IInv /\ BrowserDies => IInv'
<1> SUFFICES ASSUME IInv, BrowserDies PROVE IInv'
  OBVIOUS
<1>1. PICK b \in browsers.alive :
         /\ browsers' = [browsers EXCEPT !.alive = @ \ {b}]
         /\ history' = [history EXCEPT !.lost = @ \cup {b}]
  BY DEF BrowserDies
<1>2. state' = state /\ pc' = pc /\ raised' = raised
  BY DEF BrowserDies
<1>3. /\ browsers' \in BrowsersType /\ browsers'.created = browsers.created
      /\ history' \in HistoryType /\ history'.torn = history.torn
      /\ history'.created = history.created /\ history'.met = history.met
  <2>1. b \in Nat
    BY DEF IInv, Types, BrowsersType
  <2> QED BY <1>1, <2>1 DEF IInv, Types, BrowsersType, HistoryType
<1>4. Types' /\ Torn'
  BY <1>2, <1>3, TornKept DEF IInv, Types
<1>5. Held' /\ Calm'
  BY <1>2 DEF IInv, Held, Calm
<1>6. Suspects'
  BY <1>2, <1>3 DEF IInv, Suspects, OnItsWayOut
<1> QED BY <1>4, <1>5, <1>6 DEF IInv

LEMMA Stutter == IInv /\ UNCHANGED vars => IInv'
BY DEF vars, IInv, Types, Torn, Held, Calm, Suspects, OnItsWayOut

LEMMA Preserved == IInv /\ [Next]_vars => IInv'
BY StartPageInv, WillRunInv, ReuseInv, CreateInv, GetExpectationInv, RunUserStoryInv,
   DidRunInv, FinishPageInv, NextStoryInv, TearDownGroupInv, BrowserDiesInv, Stutter
   DEF Next

-----------------------------------------------------------------------------
(* The state that is held. *)

\* The inductive invariant: the runner of user_story_runner.Run and the state
\* it holds, at every step between two handlers.
THEOREM Invariance == Spec => []IInv
BY InitInv, Preserved, PTL DEF Spec

\* Each SharedPageState is torn down exactly once, by the retry or by the
\* finally clause of its group (user_story_runner.py:229-259).
THEOREM TornDownOnceHolds == Spec => []TornDownOnce
<1>1. IInv => TornDownOnce
  <2> SUFFICES ASSUME IInv PROVE TornDownOnce
    OBVIOUS
  <2>1. \A i \in Created : history.torn[i] = IF state.id = i THEN 0 ELSE 1
    BY DEF IInv, Torn, Created
  <2>2. pc = "done" => \A i \in Created : state.id # i
    BY DEF IInv, Held, NoState, Created, Types, HistoryType
  <2> QED BY <2>1, <2>2 DEF TornDownOnce
<1> QED BY <1>1, Invariance, PTL

\* Of the exceptions an earlier story met in the browser a story runs in, Run
\* tolerates every one: the four of user_story_runner.py:87-89 and what the
\* finally clause of DidRunUserStory drops (107-116).  Any other
\* exceptions.Error has a retry with a state of its own (224-232).
THEOREM FreshUnlessToleratedHolds == Spec => []FreshUnlessTolerated
<1>1. IInv => FreshUnlessTolerated
  <2> SUFFICES ASSUME IInv, pc = "run", NEW how \in Manners, <<state.browser, how>> \in history.met
               PROVE  how \in Tolerated
    BY DEF FreshUnlessTolerated
  <2>1. <<state.browser, "error">> \notin history.met
    BY DEF IInv, Suspects, OnItsWayOut, Held, InPage
  <2> QED BY <2>1 DEF Manners, Tolerated
<1> QED BY <1>1, Invariance, PTL

-----------------------------------------------------------------------------
(* The loops: where Run is in the page set, and the runs it has filed. *)

(* The types of what the loops keep.                                       *)
Places == {"page", "will_run", "reuse", "create", "expectation", "run", "did_run",
           "did_page", "next", "teardown", "done"}
Position ==
    /\ stories \in PageSets /\ options \in OptionSets
    /\ pc \in Places
    /\ at \in [round : 1 .. options.pageset_repeat, story : 1 .. Len(stories),
               page : 1 .. options.page_repeat]
    /\ raised \in {"none", "error", "fatal", "interrupt", "too_many_failures"}
    /\ expectation \in Expectations \cup {"none"}
    /\ faults \in 0 .. MaxFaults

LEMMA Static ==
    ASSUME stories \in PageSets, options \in OptionSets
    PROVE  /\ Len(stories) \in Nat \ {0} /\ DOMAIN stories = 1 .. Len(stories)
           /\ options.pageset_repeat \in Nat \ {0} /\ options.page_repeat \in Nat \ {0}
           /\ options.wpr_mode \in {"off", "replay", "record"}
BY PageSetsAssumption, OptionsAssumption

(* Groups: neighbours of one class.                                        *)
LEMMA GroupSplit ==
    ASSUME NEW i \in Nat, NEW j \in i .. Len(stories), NEW k \in j .. Len(stories),
           Len(stories) \in Nat
    PROVE  SameGroup(i, k) <=> SameGroup(i, j) /\ SameGroup(j, k)
<1>1. ASSUME SameGroup(i, k) PROVE SameGroup(i, j) /\ SameGroup(j, k)
  BY <1>1 DEF SameGroup
<1>2. ASSUME SameGroup(i, j), SameGroup(j, k) PROVE SameGroup(i, k)
  <2>1. stories[j].class = stories[i].class
    BY <1>2 DEF SameGroup
  <2> QED BY <1>2, <2>1 DEF SameGroup
<1> QED BY <1>1, <1>2

LEMMA GroupOfOne ==
    ASSUME NEW i \in Nat
    PROVE  SameGroup(i, i)
BY DEF SameGroup

LEMMA Least ==
    ASSUME NEW S, S \subseteq Nat, S # {}
    PROVE  \E x \in S : \A y \in S : x <= y
<1> DEFINE R == OpToRel(<, Nat)
<1>1. IsWellFoundedOn(R, Nat)
  BY NatLessThanWellFounded
<1>2. \A x, y \in Nat : y < x => <<y, x>> \in R
  BY DEF OpToRel
<1> HIDE DEF R
<1>3. PICK x \in S : \A y \in S : ~ (<<y, x>> \in R)
  BY <1>1, WFMin
<1>4. ASSUME NEW y \in S PROVE x <= y
  <2>1. x \in Nat /\ y \in Nat
    OBVIOUS
  <2>2. ~ (y < x)
    BY <1>2, <1>3, <2>1
  <2> QED BY <2>1, <2>2
<1> QED BY <1>4

LEMMA Greatest ==
    ASSUME NEW n \in Nat, NEW S, S \subseteq 0 .. n, S # {}
    PROVE  \E x \in S : \A y \in S : y <= x
<1> DEFINE D == {n - x : x \in S}
<1>1. D \subseteq Nat /\ D # {}
  <2>1. \A x \in S : n - x \in Nat
    OBVIOUS
  <2> QED BY <2>1
<1>2. PICK d \in D : \A e \in D : d <= e
  <2> HIDE DEF D
  <2> QED BY <1>1, Least
<1>3. PICK x \in S : d = n - x
  OBVIOUS
<1>4. \A y \in S : n - x <= n - y
  BY <1>2, <1>3
<1> QED BY <1>4

(* StoriesGroupedByStateClass: the two ends of the group of a story.       *)
LEMMA GroupStarts ==
    ASSUME NEW j \in 1 .. Len(stories), Len(stories) \in Nat
    PROVE  /\ FirstOfGroup(j) \in 1 .. j /\ SameGroup(FirstOfGroup(j), j)
           /\ \A k \in 1 .. j : SameGroup(k, j) => FirstOfGroup(j) <= k
<1> DEFINE S == {i \in 1 .. j : SameGroup(i, j)}
<1>1. S \subseteq Nat /\ S # {}
  BY GroupOfOne
<1>2. \E i \in S : \A k \in S : i <= k
  <2> HIDE DEF S
  <2> QED BY <1>1, Least
<1>3. \E i \in 1 .. j : SameGroup(i, j) /\ \A k \in 1 .. j : SameGroup(k, j) => i <= k
  BY <1>2
<1> QED BY <1>3 DEF FirstOfGroup

LEMMA GroupEnds ==
    ASSUME NEW i \in 1 .. Len(stories), Len(stories) \in Nat
    PROVE  /\ LastOfGroup(i) \in i .. Len(stories) /\ SameGroup(i, LastOfGroup(i))
           /\ \A k \in i .. Len(stories) : SameGroup(i, k) => k <= LastOfGroup(i)
<1> DEFINE S == {j \in i .. Len(stories) : SameGroup(i, j)}
<1>1. S \subseteq 0 .. Len(stories) /\ S # {}
  BY GroupOfOne
<1>2. \E j \in S : \A k \in S : k <= j
  <2> HIDE DEF S
  <2> QED BY <1>1, Greatest
<1>3. \E j \in i .. Len(stories) :
         SameGroup(i, j) /\ \A k \in i .. Len(stories) : SameGroup(i, k) => k <= j
  BY <1>2
<1> QED BY <1>3 DEF LastOfGroup

(* Where the loops go: the next repetition, story, round or group, or out. *)
LEMMA NextStoryDoes ==
    ASSUME Position, NextStory
    PROVE  /\ pc = "next" /\ UNCHANGED <<stories, options, expectation, results, faults, history>>
           /\ UNCHANGED <<state, replay, browsers, recorded>>
           /\ \/ /\ pc' = "page" /\ raised' = raised
                 /\ \/ /\ at.page < options.page_repeat
                       /\ at' = [round |-> at.round, story |-> at.story, page |-> at.page + 1]
                    \/ /\ at.page = options.page_repeat /\ at.story < LastOfGroup(at.story)
                       /\ at' = [round |-> at.round, story |-> at.story + 1, page |-> 1]
                    \/ /\ at.page = options.page_repeat /\ at.story = LastOfGroup(at.story)
                       /\ at.round < options.pageset_repeat
                       /\ at' = [round |-> at.round + 1, story |-> FirstOfGroup(at.story),
                                 page |-> 1]
              \/ pc' = "teardown" /\ raised' = "too_many_failures" /\ at' = at
              \/ /\ pc' = "teardown" /\ raised' = raised /\ at' = at
                 /\ at.page = options.page_repeat /\ at.story = LastOfGroup(at.story)
                 /\ at.round = options.pageset_repeat
BY DEF NextStory, Position

LEMMA TearDownGroupDoes ==
    ASSUME Position, TearDownGroup
    PROVE  /\ pc = "teardown"
           /\ UNCHANGED <<stories, options, raised, expectation, results, recorded>>
           /\ \/ /\ raised = "none" /\ at.story < Len(stories) /\ pc' = "page"
                 /\ at' = [round |-> 1, story |-> at.story + 1, page |-> 1]
              \/ /\ ~(raised = "none" /\ at.story < Len(stories)) /\ pc' = "done" /\ at' = at
BY DEF TearDownGroup

LEMMA FaultCounted ==
    ASSUME faults \in 0 .. MaxFaults, Fault \/ NoFault
    PROVE  faults' \in 0 .. MaxFaults
BY OptionsAssumption DEF Fault, NoFault

LEMMA PositionKept == Position /\ [Next]_vars => Position'
<1> SUFFICES ASSUME Position, [Next]_vars PROVE Position'
  OBVIOUS
<1>s. /\ Len(stories) \in Nat \ {0} /\ options.pageset_repeat \in Nat \ {0}
      /\ options.page_repeat \in Nat \ {0}
  BY Static DEF Position
<1>1. stories' \in PageSets /\ options' \in OptionSets /\ stories' = stories /\ options' = options
  BY DEF Position, Next, vars, StartPage, WillRunUserStory, ReuseBrowser, CreateBrowser,
         GetExpectation, RunUserStory, DidRunUserStory, FinishPage, NextStory, TearDownGroup,
         BrowserDies
<1>2. CASE NextStory
  <2>1. at' \in [round : 1 .. options.pageset_repeat, story : 1 .. Len(stories),
                 page : 1 .. options.page_repeat]
    <3>1. /\ LastOfGroup(at.story) \in at.story .. Len(stories)
          /\ FirstOfGroup(at.story) \in 1 .. at.story
      BY <1>s, GroupStarts, GroupEnds DEF Position
    <3> QED BY <1>s, <1>2, <3>1, NextStoryDoes DEF Position
  <2>2. /\ pc' \in Places /\ raised' \in {"none", "error", "fatal", "interrupt", "too_many_failures"}
        /\ expectation' = expectation /\ faults' = faults
    BY <1>2, NextStoryDoes DEF Position, Places
  <2> QED BY <1>1, <2>1, <2>2 DEF Position
<1>3. CASE TearDownGroup
  <2>1. /\ at' \in [round : 1 .. options.pageset_repeat, story : 1 .. Len(stories),
                    page : 1 .. options.page_repeat]
        /\ pc' \in Places /\ raised' = raised /\ expectation' = expectation
    BY <1>s, <1>3, TearDownGroupDoes DEF Position, Places
  <2>2. faults' \in 0 .. MaxFaults
    BY <1>3, FaultCounted DEF TearDownGroup, Position
  <2> QED BY <1>1, <2>1, <2>2 DEF Position
<1>4. CASE ~NextStory /\ ~TearDownGroup
  <2>0. \A kind : Passed(kind) \in {"none", "error", "fatal", "interrupt"}
    BY DEF Passed
  <2>1. at' = at
    BY <1>4 DEF Next, vars, StartPage, WillRunUserStory, ReuseBrowser, CreateBrowser,
         GetExpectation, RunUserStory, DidRunUserStory, FinishPage, BrowserDies
  <2>2. expectation' \in Expectations \cup {"none"}
    BY <1>4 DEF Position, Next, vars, StartPage, WillRunUserStory, ReuseBrowser, CreateBrowser,
         GetExpectation, RunUserStory, DidRunUserStory, FinishPage, BrowserDies
  <2>3. pc' \in Places
    BY <1>4 DEF Position, Places, Next, vars, StartPage, WillRunUserStory, ReuseBrowser,
         CreateBrowser, GetExpectation, RunUserStory, DidRunUserStory, FinishPage, BrowserDies,
         BrowserRaises, StoryEnds
  <2>4. raised' \in {"none", "error", "fatal", "interrupt", "too_many_failures"}
    BY <1>4, <2>0 DEF Position, Next, vars, StartPage, WillRunUserStory, ReuseBrowser,
         CreateBrowser, GetExpectation, RunUserStory, DidRunUserStory, FinishPage, BrowserDies,
         BrowserRaises, StoryEnds, RetryAfterError
  <2>5. faults' = faults \/ Fault
    BY <1>4 DEF Next, vars, StartPage, WillRunUserStory, ReuseBrowser,
         CreateBrowser, GetExpectation, RunUserStory, DidRunUserStory, FinishPage, BrowserDies,
         BrowserRaises, RetryAfterError, NoFault
  <2>6. faults' \in 0 .. MaxFaults
    BY <2>5, FaultCounted DEF Position, NoFault
  <2> QED BY <1>1, <2>1, <2>2, <2>3, <2>4, <2>6 DEF Position
<1> QED BY <1>2, <1>3, <1>4

(* The run a story belongs to is opened by StartPage, gets its outcome     *)
(* with the exception that ends the story, and is filed by FinishPage.     *)
Kinds == {"none", "expected", "error", "unsupported", "fatal", "interrupt"}
Fatal == {"fatal", "interrupt"}
BeforeStory == {"will_run", "reuse", "create", "expectation", "run"}
FiledTypes == results \in [current : Runs \cup {NoRun}, runs : Seq(Runs)]
Filling ==
    /\ pc \in InPage => results.current # NoRun
    /\ pc \in InPage \cup {"next"} /\ results.current # NoRun => results.current.story = at.story
    /\ pc \in BeforeStory => results.current.outcome = "none"
    /\ pc \in {"did_run", "did_page"} /\ results.current.outcome \in Fatal
         => raised = results.current.outcome

(* What a step does to the run that is filled in.                          *)
Opening ==
    /\ pc = "page" /\ results.current = NoRun /\ UNCHANGED at
    /\ results' = [results EXCEPT !.current =
                      [story |-> at.story, values |-> {}, outcome |-> "none"]]
    /\ \/ pc' = "will_run" /\ UNCHANGED raised
       \/ pc' = "did_page" /\ raised' = "fatal"
Refusing ==
    /\ pc = "page" /\ results.current # NoRun /\ UNCHANGED <<at, results>>
    /\ pc' = "teardown" /\ raised' = "fatal"
Ending == pc \in BeforeStory /\ UNCHANGED at /\ \E kind \in Kinds : StoryEnds(kind)
Skipping ==
    /\ pc = "expectation" /\ pc' = "did_run" /\ UNCHANGED <<at, raised>>
    /\ results' = [results EXCEPT !.current.values = @ \cup {"skip"}]
AfterPage == pc = "did_page" /\ UNCHANGED at /\ pc' = IF raised' = "none" THEN "next" ELSE "teardown"
Closing ==
    /\ AfterPage /\ RunFiled
    /\ IF raised = "error" THEN raised' \in {"none", "fatal"} ELSE raised' = raised
Leaving ==
    /\ AfterPage /\ raised # "error" /\ UNCHANGED <<raised, results>>
    /\ history' = [history EXCEPT !.swallowed = @ \/ raised = "none"]
Going ==
    /\ UNCHANGED <<at, raised, results>>
    /\ \/ pc \in BeforeStory /\ pc' \in BeforeStory
       \/ pc = "did_run" /\ pc' = "did_page"
       \/ pc' = pc

LEMMA KindsRaised ==
    /\ \A kind : BrowserRaises(kind) => kind \in Kinds /\ StoryEnds(kind)
    /\ \A b : \A outcome \in Outcomes(b) : Rethrown(outcome) \subseteq Kinds
BY DEF BrowserRaises, Kinds, Outcomes, Rethrown

LEMMA RunSteps ==
    ASSUME [Next]_vars
    PROVE  /\ stories' = stories /\ options' = options
           /\ \/ Opening \/ Refusing \/ Ending \/ Skipping \/ Closing \/ Leaving \/ Going
              \/ NextStory \/ TearDownGroup
<1>1. ASSUME StartPage PROVE stories' = stories /\ options' = options /\ (Opening \/ Refusing)
  BY <1>1 DEF StartPage, Opening, Refusing
<1>2. ASSUME WillRunUserStory \/ BrowserDies \/ UNCHANGED vars
      PROVE  stories' = stories /\ options' = options /\ Going
  BY <1>2 DEF WillRunUserStory, BrowserDies, vars, Going, BeforeStory
<1>3. ASSUME ReuseBrowser PROVE stories' = stories /\ options' = options /\ (Ending \/ Going)
  <2>1. /\ stories' = stories /\ options' = options /\ at' = at /\ pc = "reuse"
        /\ \/ pc' = "expectation" /\ raised' = raised /\ results' = results
           \/ \E kind : BrowserRaises(kind)
           \/ StoryEnds("fatal")
    BY <1>3 DEF ReuseBrowser
  <2> QED BY <2>1, KindsRaised DEF Ending, Going, BeforeStory, Kinds
<1>4. ASSUME CreateBrowser PROVE stories' = stories /\ options' = options /\ (Ending \/ Going)
  <2>1. /\ stories' = stories /\ options' = options /\ at' = at /\ pc = "create"
        /\ \/ pc' = "expectation" /\ raised' = raised /\ results' = results
           \/ \E kind : BrowserRaises(kind)
           \/ StoryEnds("fatal")
    BY <1>4 DEF CreateBrowser
  <2> QED BY <2>1, KindsRaised DEF Ending, Going, BeforeStory, Kinds
<1>5. ASSUME GetExpectation PROVE stories' = stories /\ options' = options /\ (Skipping \/ Going)
  BY <1>5 DEF GetExpectation, Skipping, Going, BeforeStory
<1>6. ASSUME RunUserStory PROVE stories' = stories /\ options' = options /\ Ending
  BY <1>6, KindsRaised DEF RunUserStory, Ending, BeforeStory
<1>7. ASSUME DidRunUserStory PROVE stories' = stories /\ options' = options /\ Going
  BY <1>7 DEF DidRunUserStory, Going
<1>8. ASSUME FinishPage PROVE stories' = stories /\ options' = options /\ (Closing \/ Leaving)
  BY <1>8 DEF FinishPage, RetryAfterError, Closing, Leaving, AfterPage
<1>9. ASSUME NextStory \/ TearDownGroup PROVE stories' = stories /\ options' = options
  BY <1>9 DEF NextStory, TearDownGroup
<1> QED BY <1>1, <1>2, <1>3, <1>4, <1>5, <1>6, <1>7, <1>8, <1>9 DEF Next

LEMMA RunType ==
    ASSUME FiledTypes
    PROVE  /\ results.current # NoRun => results.current \in Runs
           /\ \A run \in Runs : run # NoRun
           /\ results.runs \in Seq(Runs)
BY DEF FiledTypes, Runs, NoRun

(* Filling in the run, field by field.                                     *)
LEMMA RunFilledIn ==
    ASSUME NEW S, NEW V, NEW K, NEW Q, NEW c \in [story : S, values : V, outcome : K],
           NEW r \in [current : {c}, runs : Q], NEW v, NEW k
    PROVE  /\ [r EXCEPT !.current.values = v]
                = [current |-> [story |-> c.story, values |-> v, outcome |-> c.outcome],
                   runs |-> r.runs]
           /\ [r EXCEPT !.current.values = v, !.current.outcome = k]
                = [current |-> [story |-> c.story, values |-> v, outcome |-> k],
                   runs |-> r.runs]
<1>1. /\ r = [current |-> c, runs |-> r.runs]
      /\ c = [story |-> c.story, values |-> c.values, outcome |-> c.outcome]
  OBVIOUS
<1>2. r.current = c
  OBVIOUS
<1>3. [r EXCEPT !.current.values = v] = [r EXCEPT !.current = [c EXCEPT !.values = v]]
  BY <1>2
<1>4. [r EXCEPT !.current.values = v, !.current.outcome = k]
        = [r EXCEPT !.current = [c EXCEPT !.values = v, !.outcome = k]]
  BY <1>2
<1>5. \A d : [r EXCEPT !.current = d] = [current |-> d, runs |-> r.runs]
  BY <1>1
<1>6. [c EXCEPT !.values = v] = [story |-> c.story, values |-> v, outcome |-> c.outcome]
  OBVIOUS
<1>7. [c EXCEPT !.values = v, !.outcome = k] = [story |-> c.story, values |-> v, outcome |-> k]
  <2> DEFINE d == [c EXCEPT !.values = v]
  <2>1. [c EXCEPT !.values = v, !.outcome = k] = [d EXCEPT !.outcome = k]
    OBVIOUS
  <2>2. d = [story |-> c.story, values |-> v, outcome |-> c.outcome]
    BY <1>6
  <2> HIDE DEF d
  <2>3. [d EXCEPT !.outcome = k] = [story |-> c.story, values |-> v, outcome |-> k]
    BY <2>2
  <2> QED BY <2>1, <2>3
<1> QED BY <1>3, <1>4, <1>5, <1>6, <1>7

LEMMA EndingDoes ==
    ASSUME FiledTypes, results.current # NoRun, NEW kind \in Kinds, StoryEnds(kind)
    PROVE  /\ results' \in [current : Runs, runs : Seq(Runs)] /\ results'.runs = results.runs
           /\ results'.current.story = results.current.story
           /\ results'.current.outcome = kind /\ raised' = Passed(kind) /\ pc' = "did_run"
<1> DEFINE v == results.current.values \cup ValuesFor(kind, expectation)
           c == results.current
<1>1. ValuesFor(kind, expectation) \subseteq {"failure", "skip"}
  BY DEF ValuesFor
<1>2. c \in Runs /\ c.values \subseteq {"failure", "skip"}
  BY RunType DEF Runs
<1>3. v \in SUBSET {"failure", "skip"}
  BY <1>1, <1>2
<1>4. results' = [results EXCEPT !.current.values = v, !.current.outcome = kind]
  BY DEF StoryEnds, FiledTypes
<1>5. c \in [story : 1 .. Len(stories), values : SUBSET {"failure", "skip"}, outcome : Kinds]
  BY <1>2 DEF Runs, Kinds
<1>6. results \in [current : {c}, runs : Seq(Runs)]
  BY DEF FiledTypes
<1> HIDE DEF v, c
<1>7. results' = [current |-> [story |-> c.story, values |-> v, outcome |-> kind],
                  runs |-> results.runs]
  BY <1>4, <1>5, <1>6, RunFilledIn
<1>8. [story |-> c.story, values |-> v, outcome |-> kind] \in Runs
  BY <1>3, <1>5 DEF Runs, Kinds
<1>9. results.runs \in Seq(Runs)
  BY <1>6
<1>10. raised' = Passed(kind) /\ pc' = "did_run"
  BY DEF StoryEnds
<1>11. results'.current.story = c.story
  BY <1>7
<1>12. results'.current.story = results.current.story
  BY <1>11 DEF c
<1> QED BY <1>7, <1>8, <1>9, <1>10, <1>12

LEMMA SkippingDoes ==
    ASSUME FiledTypes, results.current # NoRun, Skipping
    PROVE  /\ results' \in [current : Runs, runs : Seq(Runs)] /\ results'.runs = results.runs
           /\ results'.current.story = results.current.story
           /\ results'.current.outcome = results.current.outcome
<1> DEFINE c == results.current
           d == [story |-> c.story, values |-> c.values \cup {"skip"}, outcome |-> c.outcome]
<1>1. c \in Runs
  BY RunType
<1>2. c \in [story : 1 .. Len(stories), values : SUBSET {"failure", "skip"}, outcome : Kinds]
  BY <1>1 DEF Runs, Kinds
<1>3. results \in [current : {c}, runs : Seq(Runs)]
  BY DEF FiledTypes
<1>4. results' = [results EXCEPT !.current.values = c.values \cup {"skip"}]
  BY DEF Skipping, FiledTypes
<1>5. d \in Runs /\ d.story = c.story /\ d.outcome = c.outcome
  BY <1>1 DEF Runs
<1>6. results' = [current |-> d, runs |-> results.runs]
  <2> DEFINE v == c.values \cup {"skip"}
  <2>1. results' = [results EXCEPT !.current.values = v]
    BY <1>4
  <2> HIDE DEF v, c
  <2>2. results' = [current |-> [story |-> c.story, values |-> v, outcome |-> c.outcome],
                    runs |-> results.runs]
    BY <2>1, <1>2, <1>3, RunFilledIn
  <2> QED BY <2>2 DEF v
<1>7. results.runs \in Seq(Runs)
  BY <1>3
<1> HIDE DEF d
<1> QED BY <1>5, <1>6, <1>7

LEMMA OpeningDoes ==
    ASSUME Position, FiledTypes, Opening
    PROVE  /\ results' \in [current : Runs, runs : Seq(Runs)] /\ results'.runs = results.runs
           /\ results'.current.story = at.story /\ results'.current.outcome = "none"
<1> DEFINE d == [story |-> at.story, values |-> {}, outcome |-> "none"]
<1>1. d \in Runs /\ d.story = at.story /\ d.outcome = "none"
  BY DEF Runs, Position
<1>2. results' = [results EXCEPT !.current = d]
  BY DEF Opening
<1> HIDE DEF d
<1> QED BY <1>1, <1>2 DEF FiledTypes

LEMMA ClosingDoes ==
    ASSUME FiledTypes, results.current # NoRun, RunFiled
    PROVE  /\ results' \in [current : {NoRun}, runs : Seq(Runs)]
           /\ results'.runs = Append(results.runs, results.current) /\ results'.current = NoRun
<1>1. results.current \in Runs /\ results.runs \in Seq(Runs)
  BY RunType
<1> QED BY <1>1 DEF RunFiled

LEMMA FillingKept == Position /\ FiledTypes /\ Filling /\ [Next]_vars => FiledTypes' /\ Filling'
<1> SUFFICES ASSUME Position, FiledTypes, Filling, [Next]_vars PROVE FiledTypes' /\ Filling'
  OBVIOUS
<1>1. Runs' = Runs
  BY RunSteps DEF Runs
<1>2. ASSUME results' \in [current : Runs, runs : Seq(Runs)]
      PROVE  FiledTypes' /\ results'.current # NoRun
  <2>1. results'.current # NoRun
    BY <1>2, RunType
  <2> QED BY <1>1, <1>2, <2>1 DEF FiledTypes
<1>3. CASE Opening
  <2>1. at' = at /\ (pc' = "will_run" \/ pc' = "did_page")
    BY <1>3 DEF Opening
  <2> QED BY <1>2, <1>3, <2>1, OpeningDoes DEF Filling, Fatal
<1>4. CASE Refusing
  BY <1>1, <1>4 DEF Refusing, FiledTypes, Filling, InPage, BeforeStory
<1>5. CASE Ending
  <2>1. PICK kind \in Kinds : StoryEnds(kind)
    BY <1>5 DEF Ending
  <2>2. pc \in BeforeStory /\ at' = at /\ results.current # NoRun /\ results.current.story = at.story
    BY <1>5 DEF Ending, Filling, InPage, BeforeStory
  <2>3. kind \in Fatal => Passed(kind) = kind
    BY DEF Fatal, Passed
  <2>4. "did_run" \notin BeforeStory
    BY DEF BeforeStory
  <2> QED BY <1>2, <2>1, <2>2, <2>3, <2>4, EndingDoes DEF Filling
<1>6. CASE Skipping
  <2>1. /\ pc = "expectation" /\ pc' = "did_run" /\ at' = at
        /\ results.current # NoRun /\ results.current.story = at.story
        /\ results.current.outcome = "none"
    BY <1>6 DEF Skipping, Filling, InPage, BeforeStory
  <2> QED BY <1>2, <1>6, <2>1, SkippingDoes DEF Filling, BeforeStory, Fatal
<1>7. CASE Closing
  <2>1. results.current # NoRun /\ pc' \in {"next", "teardown"} /\ RunFiled
    BY <1>7 DEF Closing, AfterPage, Filling, InPage
  <2>2. FiledTypes' /\ results'.current = NoRun
    BY <1>1, <2>1, ClosingDoes DEF FiledTypes
  <2> QED BY <2>1, <2>2 DEF Filling, InPage, BeforeStory
<1>8. CASE Leaving
  BY <1>1, <1>8 DEF Leaving, AfterPage, FiledTypes, Filling, InPage, BeforeStory
<1>9. CASE Going
  BY <1>1, <1>9 DEF Going, FiledTypes, Filling, InPage, BeforeStory
<1>10. CASE NextStory
  BY <1>1, <1>10, NextStoryDoes DEF FiledTypes, Filling, InPage, BeforeStory
<1>11. CASE TearDownGroup
  BY <1>1, <1>11, TearDownGroupDoes DEF FiledTypes, Filling, InPage, BeforeStory
<1> QED BY <1>3, <1>4, <1>5, <1>6, <1>7, <1>8, <1>9, <1>10, <1>11, RunSteps

(* A filed run with a fatal outcome leaves its exception on the way out.   *)
Stopping ==
    \A k \in DOMAIN results.runs :
        results.runs[k].outcome \in Fatal =>
            k = Len(results.runs) /\ pc \in {"teardown", "done"} /\ raised \in Fatal

LEMMA Appended ==
    ASSUME NEW S, NEW s \in Seq(S), NEW x \in S
    PROVE  /\ Append(s, x) \in Seq(S) /\ Len(Append(s, x)) = Len(s) + 1 /\ Len(s) \in Nat
           /\ DOMAIN Append(s, x) = 1 .. Len(s) + 1 /\ DOMAIN s = 1 .. Len(s)
           /\ \A k \in 1 .. Len(s) : Append(s, x)[k] = s[k]
           /\ Append(s, x)[Len(s) + 1] = x
OBVIOUS

(* Only FinishPage files a run.                                            *)
LEMMA FiledOnlyByClosing ==
    ASSUME Position, FiledTypes, Filling, [Next]_vars, ~Closing
    PROVE  results'.runs = results.runs
<1>1. ASSUME Ending PROVE results'.runs = results.runs
  <2>1. results.current # NoRun
    BY <1>1 DEF Ending, Filling, InPage, BeforeStory
  <2> QED BY <1>1, <2>1, EndingDoes DEF Ending
<1>2. ASSUME Skipping PROVE results'.runs = results.runs
  <2>1. results.current # NoRun
    BY <1>2 DEF Skipping, Filling, InPage
  <2> QED BY <1>2, <2>1, SkippingDoes
<1>3. ASSUME Refusing \/ Leaving \/ Going PROVE results'.runs = results.runs
  BY <1>3 DEF Refusing, Leaving, Going
<1>4. ASSUME NextStory \/ TearDownGroup PROVE results'.runs = results.runs
  BY <1>4, NextStoryDoes, TearDownGroupDoes
<1> QED BY <1>1, <1>2, <1>3, <1>4, RunSteps, OpeningDoes

LEMMA StoppingKept ==
    Position /\ FiledTypes /\ Filling /\ Stopping /\ [Next]_vars => Stopping'
<1> SUFFICES ASSUME Position, FiledTypes, Filling, Stopping, [Next]_vars PROVE Stopping'
  OBVIOUS
<1>1. CASE Closing
  <2>1. results.current # NoRun /\ pc = "did_page"
    BY <1>1 DEF Closing, AfterPage, Filling, InPage
  <2>2. results'.runs = Append(results.runs, results.current)
    BY <1>1, <2>1, ClosingDoes DEF Closing
  <2>3. results.current \in Runs /\ results.runs \in Seq(Runs)
    BY <2>1, RunType
  <2>4. ASSUME results.current.outcome \in Fatal PROVE pc' = "teardown" /\ raised' \in Fatal
    BY <1>1, <2>1, <2>4 DEF Closing, AfterPage, Filling, Fatal
  <2>5. \A k \in 1 .. Len(results.runs) : results.runs[k].outcome \notin Fatal
    BY <2>1, <2>3 DEF Stopping
  <2> QED BY <2>2, <2>3, <2>4, <2>5, Appended DEF Stopping
<1>2. CASE ~Closing
  <2>1. results'.runs = results.runs
    BY <1>2, FiledOnlyByClosing
  <2>2. ASSUME pc \in {"teardown", "done"}, raised \in Fatal
        PROVE  pc' \in {"teardown", "done"} /\ raised' \in Fatal
    <3>1. Going \/ TearDownGroup
      BY <1>2, <2>2, RunSteps, NextStoryDoes
         DEF Opening, Refusing, Ending, Skipping, Leaving, AfterPage, BeforeStory
    <3>2. raised # "none"
      BY <2>2 DEF Fatal
    <3> QED BY <2>2, <3>1, <3>2, TearDownGroupDoes DEF Going, BeforeStory
  <2> QED BY <2>1, <2>2 DEF Stopping
<1> QED BY <1>1, <1>2

(* The stories run so far come before the present one, or are in its group. *)
Reached(i) == i <= at.story \/ SameGroup(at.story, i)
Ordered ==
    /\ \A k \in DOMAIN results.runs : Reached(results.runs[k].story)
    /\ \A k, l \in DOMAIN results.runs :
          k < l => \/ results.runs[k].story <= results.runs[l].story
                   \/ SameGroup(results.runs[l].story, results.runs[k].story)

LEMMA ReachedKept ==
    ASSUME Position, [Next]_vars, NEW i \in 1 .. Len(stories), Reached(i)
    PROVE  i <= at'.story \/ SameGroup(at'.story, i)
<1> DEFINE s == at.story
           n == Len(stories)
<1>1. n \in Nat /\ s \in 1 .. n
  BY Static DEF Position
<1>2. CASE at' = at
  BY <1>2 DEF Reached
<1>3. CASE at'.story = s
  BY <1>3 DEF Reached
<1>4. CASE at'.story = s + 1 /\ s + 1 <= n
  <2>1. CASE i <= s + 1
    BY <1>1, <1>4, <2>1
  <2>2. CASE i > s + 1
    <3>1. SameGroup(s, i)
      BY <1>1, <2>2 DEF Reached
    <3> QED BY <1>1, <1>4, <2>2, <3>1, GroupSplit
  <2> QED BY <1>1, <2>1, <2>2
<1>5. CASE at'.story = FirstOfGroup(s) /\ s = LastOfGroup(s)
  <2> DEFINE g == FirstOfGroup(s)
  <2>1. g \in 1 .. s /\ SameGroup(g, s)
    BY <1>1, GroupStarts
  <2>2. i <= s
    BY <1>1, <1>5, GroupEnds DEF Reached
  <2> HIDE DEF g, s
  <2>3. CASE i > g
    BY <1>1, <2>1, <2>2, <2>3, GroupSplit, <1>5 DEF g
  <2> QED BY <1>1, <1>5, <2>1, <2>3 DEF g
<1>6. at' = at \/ NextStory \/ TearDownGroup
  BY RunSteps DEF Opening, Refusing, Ending, Skipping, Closing, Leaving, AfterPage, Going
<1>7. ASSUME NextStory
      PROVE  \/ at' = at \/ at'.story = s
             \/ at'.story = s + 1 /\ s < LastOfGroup(s)
             \/ at'.story = FirstOfGroup(s) /\ s = LastOfGroup(s)
  BY <1>7, NextStoryDoes
<1>8. LastOfGroup(s) \in s .. n
  BY <1>1, GroupEnds
<1>9. ASSUME TearDownGroup PROVE at' = at \/ (at'.story = s + 1 /\ s < n)
  BY <1>9, TearDownGroupDoes
<1> HIDE DEF s, n
<1> QED BY <1>1, <1>2, <1>3, <1>4, <1>5, <1>6, <1>7, <1>8, <1>9

LEMMA OrderedKept ==
    Position /\ FiledTypes /\ Filling /\ Ordered /\ [Next]_vars => Ordered'
<1> SUFFICES ASSUME Position, FiledTypes, Filling, Ordered, [Next]_vars PROVE Ordered'
  OBVIOUS
<1> DEFINE Past(i) == i <= at'.story \/ SameGroup(at'.story, i)
           Before(i, j) == i <= j \/ SameGroup(j, i)
<1>1. /\ \A k \in DOMAIN results.runs : Reached(results.runs[k].story)
      /\ \A k, l \in DOMAIN results.runs :
            k < l => Before(results.runs[k].story, results.runs[l].story)
  BY DEF Ordered
<1>2. \A k \in DOMAIN results.runs : results.runs[k].story \in 1 .. Len(stories)
  <2>1. results.runs \in Seq(Runs)
    BY RunType
  <2>2. \A k \in DOMAIN results.runs : results.runs[k] \in Runs
    BY <2>1
  <2>3. \A run \in Runs : run.story \in 1 .. Len(stories)
    BY DEF Runs
  <2> QED BY <2>2, <2>3
<1>3. \A k \in DOMAIN results.runs : Past(results.runs[k].story)
  BY <1>1, <1>2, ReachedKept
<1>4. /\ \A k \in DOMAIN results'.runs : Past(results'.runs[k].story)
      /\ \A k, l \in DOMAIN results'.runs :
            k < l => Before(results'.runs[k].story, results'.runs[l].story)
  <2>1. CASE Closing
    <3>1. results.current # NoRun /\ results.current.story = at.story /\ at' = at
      BY <2>1 DEF Closing, AfterPage, Filling, InPage
    <3>2. results'.runs = Append(results.runs, results.current)
      BY <2>1, <3>1, ClosingDoes DEF Closing
    <3>3. results.current \in Runs /\ results.runs \in Seq(Runs)
      BY <3>1, RunType
    <3> DEFINE r == results.runs
               q == results'.runs
               n == Len(r)
    <3>4. /\ n \in Nat /\ DOMAIN q = 1 .. n + 1 /\ DOMAIN r = 1 .. n
          /\ \A k \in 1 .. n : q[k] = r[k]
          /\ q[n + 1].story = at.story
      BY <3>1, <3>2, <3>3, Appended
    <3>5. Past(at.story) /\ \A k \in 1 .. n : Before(r[k].story, at.story)
      <4>1. at.story \in Nat
        BY Static DEF Position
      <4> QED BY <1>1, <3>1, <3>4, <4>1 DEF Reached
    <3>6. \A k \in 1 .. n : Past(r[k].story)
      BY <1>3, <3>4
    <3>7. \A k, l \in 1 .. n : k < l => Before(r[k].story, r[l].story)
      BY <1>1, <3>4
    <3> HIDE DEF r, q, n, Past, Before
    <3>8. \A k \in 1 .. n + 1 : k \in 1 .. n \/ k = n + 1
      BY <3>4
    <3>9. \A k \in 1 .. n + 1 : Past(q[k].story)
      BY <3>4, <3>5, <3>6, <3>8
    <3>10. ASSUME NEW k \in 1 .. n + 1, NEW l \in 1 .. n + 1, k < l
           PROVE  Before(q[k].story, q[l].story)
      <4>1. k \in 1 .. n /\ (l \in 1 .. n \/ l = n + 1)
        BY <3>4, <3>10
      <4> QED BY <3>4, <3>5, <3>7, <3>10, <4>1
    <3> QED BY <3>4, <3>9, <3>10 DEF q
  <2>2. CASE ~Closing
    <3>1. results'.runs = results.runs
      BY <2>2, FiledOnlyByClosing
    <3> QED BY <1>1, <1>3, <3>1
  <2> QED BY <2>1, <2>2
<1> QED BY <1>4, RunSteps DEF Ordered, Reached, SameGroup

(* How often story i has run when the present run starts.                  *)
Planned == options.pageset_repeat * options.page_repeat
RunsBefore(i) ==
    IF i < at.story
    THEN IF SameGroup(i, at.story) THEN at.round * options.page_repeat ELSE Planned
    ELSE IF i = at.story
    THEN (at.round - 1) * options.page_repeat + at.page - 1
    ELSE IF SameGroup(at.story, i) THEN (at.round - 1) * options.page_repeat ELSE 0
Now(i) == IF i = at.story THEN 1 ELSE 0
RunsWhenOver(i) == IF i <= at.story THEN Planned ELSE 0

(* The run that a swallowed exception left unfiled.                        *)
Unfiled(i) == IF results.current # NoRun /\ results.current.story = i THEN 1 ELSE 0
Counted ==
    /\ pc \in InPage \/ (pc = "page" /\ results.current = NoRun) =>
         \A i \in 1 .. Len(stories) : RunsOf(i) = RunsBefore(i)
    /\ raised = "none" /\ pc = "next" =>
         \A i \in 1 .. Len(stories) : RunsOf(i) + Unfiled(i) = RunsBefore(i) + Now(i)
    /\ raised = "none" /\ pc = "teardown" =>
         /\ \A i \in 1 .. Len(stories) : RunsOf(i) + Unfiled(i) = RunsWhenOver(i)
         /\ at.story = LastOfGroup(at.story)
    /\ raised = "none" /\ pc = "done" =>
         \A i \in 1 .. Len(stories) : RunsOf(i) + Unfiled(i) = Planned
    /\ raised = "none" /\ pc \in {"next", "teardown", "done"} /\ results.current # NoRun
         => history.swallowed

LEMMA RunsOfIsNat ==
    ASSUME FiledTypes, NEW i
    PROVE  RunsOf(i) \in Nat /\ IsFiniteSet({k \in DOMAIN results.runs : results.runs[k].story = i})
<1> DEFINE K == {k \in DOMAIN results.runs : results.runs[k].story = i}
<1>1. results.runs \in Seq(Runs)
  BY RunType
<1>2. DOMAIN results.runs = 1 .. Len(results.runs) /\ Len(results.runs) \in Nat
  BY <1>1
<1>3. IsFiniteSet(1 .. Len(results.runs))
  BY <1>2, FS_Interval
<1>4. K \subseteq 1 .. Len(results.runs)
  BY <1>2
<1> HIDE DEF K
<1>5. IsFiniteSet(K) /\ Cardinality(K) \in Nat
  BY <1>3, <1>4, FS_Subset, FS_CardinalityType
<1> QED BY <1>5 DEF RunsOf, K

LEMMA RunsOfKept ==
    ASSUME results'.runs = results.runs
    PROVE  \A i : RunsOf(i)' = RunsOf(i)
BY DEF RunsOf

(* Filing a run counts for its story.                                      *)
LEMMA RunsOfFiled ==
    ASSUME FiledTypes, results.current # NoRun, RunFiled, NEW i
    PROVE  RunsOf(i)' = RunsOf(i) + Unfiled(i)
<1> DEFINE r == results.runs
           q == results'.runs
           n == Len(r)
           K == {k \in DOMAIN r : r[k].story = i}
           L == {k \in DOMAIN q : q[k].story = i}
<1>1. /\ n \in Nat /\ DOMAIN q = 1 .. n + 1 /\ DOMAIN r = 1 .. n
      /\ \A k \in 1 .. n : q[k] = r[k]
      /\ q[n + 1] = results.current
  BY RunType, ClosingDoes, Appended
<1>2. RunsOf(i) = Cardinality(K) /\ RunsOf(i)' = Cardinality(L)
  BY DEF RunsOf
<1>3. IsFiniteSet(K) /\ Cardinality(K) \in Nat
  BY RunsOfIsNat DEF RunsOf
<1>4. n + 1 \notin K
  BY <1>1
<1>5. CASE results.current.story = i
  <2>1. L = K \cup {n + 1}
    BY <1>1, <1>5
  <2> HIDE DEF K, L, n
  <2>2. Cardinality(L) = Cardinality(K) + 1
    BY <2>1, <1>3, <1>4, FS_AddElement
  <2> QED BY <1>2, <1>5, <2>2 DEF Unfiled
<1>6. CASE results.current.story # i
  <2>1. L = K
    BY <1>1, <1>6
  <2> HIDE DEF K, L
  <2> QED BY <1>2, <1>3, <1>6, <2>1 DEF Unfiled
<1> QED BY <1>5, <1>6

LEMMA Times ==
    ASSUME NEW r \in Nat, NEW q \in Nat
    PROVE  r * q \in Nat /\ (r + 1) * q = r * q + q /\ 1 * q = q /\ 0 * q = 0
OBVIOUS

(* The next run of a group is due once every run before it is done.        *)
LEMMA BeforeNext ==
    ASSUME Position, NextStory, pc' = "page", NEW i \in 1 .. Len(stories)
    PROVE  RunsBefore(i)' = RunsBefore(i) + Now(i)
<1> DEFINE s == at.story
           n == Len(stories)
           q == options.page_repeat
           t == at.round
           p == at.page
           Was(u, v, w) ==
             IF i < u THEN IF SameGroup(i, u) THEN v * q ELSE Planned
             ELSE IF i = u THEN (v - 1) * q + w - 1
             ELSE IF SameGroup(u, i) THEN (v - 1) * q ELSE 0
<1>1. n \in Nat /\ s \in 1 .. n /\ q \in Nat \ {0} /\ t \in Nat \ {0} /\ p \in 1 .. q
  BY Static DEF Position
<1>2. stories' = stories /\ options' = options
  BY NextStoryDoes
<1>3. RunsBefore(i) = Was(s, t, p) /\ RunsBefore(i)' = Was(at'.story, at'.round, at'.page)
  BY <1>2 DEF RunsBefore, SameGroup, Planned
<1>4. Now(i) = IF i = s THEN 1 ELSE 0
  BY DEF Now
<1>5. (t - 1) * q \in Nat /\ t * q = (t - 1) * q + q /\ ((t + 1) - 1) * q = t * q
  <2> DEFINE u == t - 1
             v == (t + 1) - 1
  <2>1. u \in Nat /\ u + 1 = t /\ v = t
    BY <1>1
  <2> HIDE DEF u, v
  <2>2. u * q \in Nat /\ (u + 1) * q = u * q + q
    BY <1>1, <2>1, Times
  <2>3. t * q = u * q + q /\ v * q = t * q
    BY <2>1, <2>2
  <2> QED BY <2>2, <2>3 DEF u, v
<1>6. Planned \in Int
  BY Static DEF Position, Planned
<1>7. CASE at' = [round |-> t, story |-> s, page |-> p + 1]
  <2>1. at'.story = s /\ at'.round = t /\ at'.page = p + 1
    BY <1>7
  <2>2. Was(s, t, p + 1) = Was(s, t, p) + Now(i)
    <3> DEFINE a == (t - 1) * q
               b == t * q
    <3>1. a \in Nat /\ b \in Nat
      BY <1>1, <1>5
    <3>2. /\ Was(s, t, p) = IF i < s THEN IF SameGroup(i, s) THEN b ELSE Planned
                            ELSE IF i = s THEN a + p - 1 ELSE IF SameGroup(s, i) THEN a ELSE 0
          /\ Was(s, t, p + 1) = IF i < s THEN IF SameGroup(i, s) THEN b ELSE Planned
                            ELSE IF i = s THEN a + (p + 1) - 1 ELSE IF SameGroup(s, i) THEN a ELSE 0
      OBVIOUS
    <3> HIDE DEF a, b, Was
    <3> QED BY <1>1, <1>4, <1>6, <3>1, <3>2
  <2> QED BY <1>3, <2>1, <2>2
<1>8. CASE /\ p = q /\ s < LastOfGroup(s)
           /\ at' = [round |-> t, story |-> s + 1, page |-> 1]
  <2>1. at'.story = s + 1 /\ at'.round = t /\ at'.page = 1
    BY <1>8
  <2>2. s + 1 \in 1 .. n /\ SameGroup(s, s + 1)
    <3>1. LastOfGroup(s) \in s .. n /\ SameGroup(s, LastOfGroup(s))
      BY <1>1, GroupEnds
    <3>2. s + 1 \in s .. n /\ LastOfGroup(s) \in s + 1 .. n
      BY <1>1, <1>8, <3>1
    <3> HIDE DEF s, n
    <3> QED BY <1>1, <3>1, <3>2, GroupSplit DEF n
  <2>3. ASSUME i < s PROVE SameGroup(i, s + 1) <=> SameGroup(i, s)
    BY <1>1, <2>2, <2>3, GroupSplit
  <2>4. ASSUME i > s + 1 PROVE SameGroup(s + 1, i) <=> SameGroup(s, i)
    BY <1>1, <2>2, <2>4, GroupSplit
  <2>5. Was(s + 1, t, 1) = Was(s, t, p) + Now(i)
    <3> DEFINE a == (t - 1) * q
               b == t * q
    <3>1. a \in Nat /\ b = a + q
      BY <1>1, <1>5
    <3>2. /\ Was(s, t, p) = IF i < s THEN IF SameGroup(i, s) THEN b ELSE Planned
                            ELSE IF i = s THEN a + p - 1 ELSE IF SameGroup(s, i) THEN a ELSE 0
          /\ Was(s + 1, t, 1) = IF i < s + 1 THEN IF SameGroup(i, s + 1) THEN b ELSE Planned
                            ELSE IF i = s + 1 THEN a + 1 - 1
                            ELSE IF SameGroup(s + 1, i) THEN a ELSE 0
      OBVIOUS
    <3> HIDE DEF a, b, Was
    <3>3. CASE i < s
      BY <1>1, <1>4, <1>6, <2>3, <3>1, <3>2, <3>3
    <3>4. CASE i = s
      BY <1>1, <1>4, <1>8, <2>2, <3>1, <3>2, <3>4
    <3>5. CASE i = s + 1
      BY <1>1, <1>4, <2>2, <3>1, <3>2, <3>5
    <3>6. CASE i > s + 1
      BY <1>1, <1>4, <2>4, <3>1, <3>2, <3>6
    <3> QED BY <1>1, <3>3, <3>4, <3>5, <3>6
  <2> QED BY <1>3, <2>1, <2>5
<1>9. CASE /\ p = q /\ s = LastOfGroup(s)
           /\ at' = [round |-> t + 1, story |-> FirstOfGroup(s), page |-> 1]
  <2> DEFINE g == FirstOfGroup(s)
  <2>1. at'.story = g /\ at'.round = t + 1 /\ at'.page = 1
    BY <1>9
  <2>2. /\ g \in 1 .. s /\ SameGroup(g, s)
        /\ \A k \in 1 .. s : SameGroup(k, s) => g <= k
    BY <1>1, GroupStarts
  <2>3. \A k \in s .. n : SameGroup(s, k) => k <= s
    BY <1>1, <1>9, GroupEnds
  <2> HIDE DEF g
  <2>4. ASSUME i < g PROVE ~SameGroup(i, s) /\ ~SameGroup(i, g)
    BY <1>1, <2>2, <2>4, GroupSplit
  <2>5. ASSUME i >= g, i <= s PROVE SameGroup(i, s) /\ SameGroup(g, i)
    BY <1>1, <2>2, <2>5, GroupSplit
  <2>6. ASSUME i > s PROVE ~SameGroup(s, i) /\ ~SameGroup(g, i)
    BY <1>1, <2>2, <2>3, <2>6, GroupSplit
  <2>7. Was(g, t + 1, 1) = Was(s, t, p) + Now(i)
    <3> DEFINE a == (t - 1) * q
               b == t * q
               c == (t + 1) * q
    <3>1. a \in Nat /\ b = a + q /\ ((t + 1) - 1) * q = b
      BY <1>1, <1>5
    <3>2. /\ Was(s, t, p) = IF i < s THEN IF SameGroup(i, s) THEN b ELSE Planned
                            ELSE IF i = s THEN a + p - 1 ELSE IF SameGroup(s, i) THEN a ELSE 0
          /\ Was(g, t + 1, 1) = IF i < g THEN IF SameGroup(i, g) THEN c ELSE Planned
                            ELSE IF i = g THEN b + 1 - 1
                            ELSE IF SameGroup(g, i) THEN b ELSE 0
      BY <3>1
    <3> HIDE DEF a, b, c, Was
    <3>3. CASE i < g
      BY <1>1, <1>4, <1>6, <2>2, <2>4, <3>1, <3>2, <3>3
    <3>4. CASE i >= g /\ i < s
      BY <1>1, <1>4, <2>2, <2>5, <3>1, <3>2, <3>4
    <3>5. CASE i = s
      BY <1>1, <1>4, <1>9, <2>2, <2>5, <3>1, <3>2, <3>5
    <3>6. CASE i > s
      BY <1>1, <1>4, <2>2, <2>6, <3>1, <3>2, <3>6
    <3> QED BY <1>1, <2>2, <3>3, <3>4, <3>5, <3>6
  <2> QED BY <1>3, <2>1, <2>7 DEF g
<1> QED BY <1>7, <1>8, <1>9, NextStoryDoes

(* After its last round a group is done, and nothing of the next has run.  *)
LEMMA BeforeOver ==
    ASSUME Position, NextStory, pc' = "teardown", raised' = raised, raised = "none",
           NEW i \in 1 .. Len(stories)
    PROVE  RunsBefore(i) + Now(i) = RunsWhenOver(i) /\ at.story = LastOfGroup(at.story)
<1> DEFINE s == at.story
           n == Len(stories)
           q == options.page_repeat
           t == at.round
           a == (t - 1) * q
<1>1. n \in Nat /\ s \in 1 .. n /\ q \in Nat \ {0} /\ t \in Nat \ {0}
  BY Static DEF Position
<1>2. at.page = q /\ s = LastOfGroup(s) /\ t = options.pageset_repeat
  BY NextStoryDoes
<1>3. a \in Nat /\ Planned = a + q
  <2> DEFINE u == t - 1
  <2>1. u \in Nat /\ u + 1 = t
    BY <1>1
  <2> HIDE DEF u
  <2>2. u * q \in Nat /\ (u + 1) * q = u * q + q
    BY <1>1, <2>1, Times
  <2>3. t * q = u * q + q
    BY <2>1, <2>2
  <2> QED BY <1>2, <2>2, <2>3 DEF u, Planned
<1>4. i > s => ~SameGroup(s, i)
  BY <1>1, <1>2, GroupEnds
<1>5. RunsBefore(i) = IF i < s THEN Planned ELSE IF i = s THEN a + q - 1
                      ELSE IF SameGroup(s, i) THEN a ELSE 0
  BY <1>2 DEF RunsBefore, Planned
<1> HIDE DEF a
<1>6. RunsBefore(i) + Now(i) = RunsWhenOver(i)
  BY <1>1, <1>3, <1>4, <1>5 DEF Now, RunsWhenOver
<1> QED BY <1>2, <1>6

LEMMA BeforeGroup ==
    ASSUME Position, TearDownGroup, pc' = "page", at.story = LastOfGroup(at.story),
           NEW i \in 1 .. Len(stories)
    PROVE  RunsBefore(i)' = RunsWhenOver(i)
<1> DEFINE s == at.story
           n == Len(stories)
           q == options.page_repeat
<1>1. n \in Nat /\ s \in 1 .. n /\ q \in Nat \ {0}
  BY Static DEF Position
<1>2. /\ stories' = stories /\ options' = options /\ s < n
      /\ at' = [round |-> 1, story |-> s + 1, page |-> 1]
  BY TearDownGroupDoes
<1>3. RunsBefore(i)' =
        IF i < s + 1 THEN IF SameGroup(i, s + 1) THEN 1 * q ELSE Planned
        ELSE IF i = s + 1 THEN (1 - 1) * q + 1 - 1
        ELSE IF SameGroup(s + 1, i) THEN (1 - 1) * q ELSE 0
  BY <1>2 DEF RunsBefore, Planned, SameGroup
<1>4. (1 - 1) * q = 0
  BY <1>1, Times
<1>5. i < s + 1 => ~SameGroup(i, s + 1)
  <2>1. ~SameGroup(s, s + 1)
    <3>1. s + 1 \in s .. n /\ ~(s + 1 <= s)
      BY <1>1, <1>2
    <3> QED BY <1>1, <3>1, GroupEnds
  <2>2. ASSUME i < s + 1, SameGroup(i, s + 1) PROVE SameGroup(s, s + 1)
    <3>1. i \in Nat /\ s \in i .. n /\ s + 1 \in s .. n
      BY <1>1, <1>2, <2>2
    <3> QED BY <1>1, <2>2, <3>1, GroupSplit
  <2> QED BY <2>1, <2>2
<1>6. RunsBefore(i)' = IF i < s + 1 THEN Planned ELSE 0
  BY <1>1, <1>3, <1>4, <1>5
<1> QED BY <1>1, <1>6 DEF RunsWhenOver

(* A swallowed exception stays on record.                                  *)
LEMMA SwallowedKept ==
    ASSUME IInv, history.swallowed, NextStory \/ TearDownGroup \/ BrowserDies \/ UNCHANGED vars
    PROVE  history'.swallowed
<1>1. history \in HistoryType
  BY DEF IInv, Types
<1>2. CASE NextStory \/ UNCHANGED vars
  BY <1>2 DEF NextStory, vars
<1>3. CASE BrowserDies
  BY <1>1, <1>3 DEF BrowserDies, HistoryType
<1>4. CASE TearDownGroup
  <2>1. CASE state = NoState
    BY <1>4, <2>1 DEF TearDownGroup
  <2>2. CASE state # NoState
    <3> DEFINE h == TornDown(history)
               w == h.swallowed \/ raised \in {"none", "too_many_failures"}
    <3>1. h \in HistoryType
      BY <2>2, TornDownTorn DEF IInv
    <3>2. h.swallowed
      BY <1>1 DEF TornDown, HistoryType
    <3>3. history' = h \/ history' = [h EXCEPT !.leaked = TRUE, !.swallowed = w]
      BY <1>4, <2>2, <3>1 DEF TearDownGroup, HistoryType
    <3>4. w
      BY <3>2
    <3> HIDE DEF h, w
    <3> QED BY <3>1, <3>2, <3>3, <3>4 DEF HistoryType
  <2> QED BY <2>1, <2>2
<1> QED BY <1>2, <1>3, <1>4

LEMMA OverSteps ==
    ASSUME Going, [Next]_vars, pc \in {"next", "teardown", "done"}
    PROVE  NextStory \/ TearDownGroup \/ BrowserDies \/ UNCHANGED vars
BY DEF Going, Next, StartPage, WillRunUserStory, ReuseBrowser, CreateBrowser, GetExpectation,
       RunUserStory, DidRunUserStory, FinishPage

LEMMA CountedKept ==
    IInv /\ Position /\ FiledTypes /\ Filling /\ Counted /\ [Next]_vars => Counted'
<1> SUFFICES ASSUME IInv, Position, FiledTypes, Filling, Counted, [Next]_vars PROVE Counted'
  OBVIOUS
<1> DEFINE N == 1 .. Len(stories)
<1>s. Len(stories)' = Len(stories) /\ N' = N
  BY RunSteps
<1>n. \A i : RunsOf(i) \in Nat
  BY RunsOfIsNat
<1>1. CASE Opening \/ Ending \/ Skipping \/ (Going /\ pc \in InPage \cup {"page"})
  <2>1. ~Closing /\ at' = at
    BY <1>1 DEF Opening, Ending, Skipping, Going, Closing, AfterPage, BeforeStory, StoryEnds, InPage
  <2>2. \A i : RunsOf(i)' = RunsOf(i)
    BY <2>1, FiledOnlyByClosing, RunsOfKept
  <2>3. \A i : RunsBefore(i)' = RunsBefore(i)
    BY <2>1, RunSteps DEF RunsBefore, SameGroup, Planned
  <2>4. pc' \in InPage \/ (pc' = "page" /\ results'.current = results.current /\ pc = "page")
    BY <1>1 DEF Opening, Ending, Skipping, Going, BeforeStory, StoryEnds, InPage
  <2>5. pc \in InPage \/ (pc = "page" /\ (results.current = NoRun \/ pc' = "page"))
    BY <1>1 DEF Opening, Ending, Skipping, Going, BeforeStory, InPage
  <2>6. "page" \notin InPage /\ "next" \notin InPage /\ "teardown" \notin InPage /\ "done" \notin InPage
    BY DEF InPage
  <2> HIDE DEF N
  <2>7. pc' \in InPage \/ (pc' = "page" /\ results'.current = NoRun) =>
           \A i \in N : RunsOf(i)' = RunsBefore(i)'
    BY <2>2, <2>3, <2>4, <2>5, <2>6 DEF Counted, N
  <2>8. pc' \notin {"next", "teardown", "done"}
    BY <2>4, <2>6
  <2> QED BY <1>s, <2>7, <2>8 DEF Counted, N
<1>2. CASE Refusing
  BY <1>2 DEF Refusing, Counted, InPage
<1>3. CASE Closing
  <2>1. results.current # NoRun /\ results.current.story = at.story /\ pc \in InPage /\ RunFiled
    BY <1>3 DEF Closing, AfterPage, Filling, InPage
  <2>2. at' = at /\ (pc' = "next" \/ (pc' = "teardown" /\ raised' # "none"))
    BY <1>3 DEF Closing, AfterPage
  <2>3. results'.current = NoRun
    BY <2>1, ClosingDoes
  <2>4. ASSUME NEW i \in N PROVE RunsOf(i)' + Unfiled(i)' = RunsBefore(i)' + Now(i)'
    <3>1. RunsOf(i)' = RunsOf(i) + Unfiled(i) /\ Unfiled(i) = Now(i)
      BY <2>1, RunsOfFiled DEF Unfiled, Now
    <3>2. RunsBefore(i)' = RunsBefore(i) /\ Now(i)' = Now(i)
      BY <2>2, RunSteps DEF RunsBefore, SameGroup, Planned, Now
    <3>3. RunsOf(i) = RunsBefore(i)
      BY <2>1 DEF Counted
    <3>4. Unfiled(i)' = 0 /\ Now(i) \in Nat /\ RunsOf(i) \in Nat
      BY <1>n, <2>3 DEF Unfiled, Now
    <3> QED BY <3>1, <3>2, <3>3, <3>4
  <2> QED BY <1>s, <2>2, <2>3, <2>4 DEF Counted, InPage
<1>4. CASE Leaving
  <2>1. results.current # NoRun /\ results.current.story = at.story /\ pc \in InPage
    BY <1>4 DEF Leaving, AfterPage, Filling, InPage
  <2>2. /\ at' = at /\ results' = results /\ raised' = raised
        /\ pc' = "next" \/ (pc' = "teardown" /\ raised' # "none")
    BY <1>4 DEF Leaving, AfterPage
  <2>3. raised = "none" => history'.swallowed
    BY <1>4 DEF Leaving, IInv, Types, HistoryType
  <2>4. ASSUME NEW i \in N PROVE RunsOf(i)' + Unfiled(i)' = RunsBefore(i)' + Now(i)'
    <3>1. RunsOf(i)' = RunsOf(i) /\ Unfiled(i)' = Now(i)
      BY <2>1, <2>2 DEF Unfiled, Now, RunsOf
    <3>2. RunsBefore(i)' = RunsBefore(i) /\ Now(i)' = Now(i)
      BY <2>2, RunSteps DEF RunsBefore, SameGroup, Planned, Now
    <3>3. RunsOf(i) = RunsBefore(i)
      BY <2>1 DEF Counted
    <3> QED BY <3>1, <3>2, <3>3
  <2> QED BY <1>s, <2>2, <2>3, <2>4 DEF Counted, InPage
<1>5. CASE Going /\ pc \in {"next", "teardown", "done"}
  <2>1. pc' = pc /\ at' = at /\ raised' = raised /\ results' = results
    BY <1>5 DEF Going, BeforeStory
  <2>2. history.swallowed => history'.swallowed
    BY <1>5, OverSteps, SwallowedKept
  <2>3. /\ \A i : RunsOf(i)' = RunsOf(i) /\ Unfiled(i)' = Unfiled(i) /\ Now(i)' = Now(i)
        /\ \A i : RunsBefore(i)' = RunsBefore(i) /\ RunsWhenOver(i)' = RunsWhenOver(i)
        /\ Planned' = Planned /\ (LastOfGroup(at.story))' = LastOfGroup(at.story)
    BY <2>1, RunSteps
       DEF RunsOf, Unfiled, Now, RunsBefore, RunsWhenOver, Planned, SameGroup, LastOfGroup
  <2> QED BY <1>s, <1>5, <2>1, <2>2, <2>3 DEF Counted, InPage
<1>6. CASE NextStory
  <2>1. /\ pc = "next" /\ results' = results /\ history' = history
        /\ \/ pc' = "page" \/ (pc' = "teardown" /\ raised' = raised /\ at' = at)
           \/ pc' = "teardown" /\ raised' # "none"
    BY <1>6, NextStoryDoes
  <2>2. raised = "none"
    BY <2>1 DEF IInv, Calm
  <2>3. \A i : RunsOf(i)' = RunsOf(i) /\ Unfiled(i)' = Unfiled(i)
    BY <2>1 DEF RunsOf, Unfiled
  <2>4. \A i \in N : RunsOf(i) + Unfiled(i) = RunsBefore(i) + Now(i)
    BY <2>1, <2>2 DEF Counted
  <2>5. CASE pc' = "page"
    <3>1. ASSUME results.current = NoRun, NEW i \in N PROVE RunsOf(i)' = RunsBefore(i)'
      <4>1. Unfiled(i) = 0 /\ RunsOf(i) \in Nat
        BY <1>n, <3>1 DEF Unfiled
      <4> QED BY <1>6, <2>3, <2>4, <2>5, <4>1, BeforeNext
    <3> QED BY <1>s, <2>1, <2>5, <3>1 DEF Counted, InPage
  <2>6. CASE pc' = "teardown" /\ raised' = raised /\ at' = at
    <3>1. \A i \in N : RunsOf(i)' + Unfiled(i)' = RunsWhenOver(i)
      BY <1>6, <2>2, <2>3, <2>4, <2>6, BeforeOver
    <3>2. at.story = LastOfGroup(at.story)
      <4>1. at.story \in N
        BY DEF Position
      <4> QED BY <1>6, <2>2, <2>6, <4>1, BeforeOver
    <3>3. \A i : RunsWhenOver(i)' = RunsWhenOver(i)
      BY <2>6, RunSteps DEF RunsWhenOver, Planned
    <3>4. (at.story = LastOfGroup(at.story))'
      BY <2>6, <3>2, RunSteps DEF LastOfGroup, SameGroup
    <3>5. results'.current # NoRun => history'.swallowed
      BY <2>1, <2>2 DEF Counted
    <3> QED BY <1>s, <2>6, <3>1, <3>3, <3>4, <3>5 DEF Counted, InPage
  <2>7. CASE pc' = "teardown" /\ raised' # "none"
    BY <2>7 DEF Counted, InPage
  <2> QED BY <2>1, <2>5, <2>6, <2>7
<1>7. CASE TearDownGroup
  <2>1. /\ pc = "teardown" /\ results' = results /\ raised' = raised
        /\ \/ raised = "none" /\ pc' = "page"
           \/ ~(raised = "none" /\ at.story < Len(stories)) /\ pc' = "done"
    BY <1>7, TearDownGroupDoes
  <2>2. \A i : RunsOf(i)' = RunsOf(i) /\ Unfiled(i)' = Unfiled(i)
    BY <2>1 DEF RunsOf, Unfiled
  <2>3. raised = "none" =>
           /\ \A i \in N : RunsOf(i) + Unfiled(i) = RunsWhenOver(i)
           /\ at.story = LastOfGroup(at.story)
    BY <2>1 DEF Counted
  <2>4. CASE raised = "none" /\ pc' = "page"
    <3>1. ASSUME results.current = NoRun, NEW i \in N PROVE RunsOf(i)' = RunsBefore(i)'
      <4>1. Unfiled(i) = 0 /\ RunsOf(i) \in Nat
        BY <1>n, <3>1 DEF Unfiled
      <4> QED BY <1>7, <2>2, <2>3, <2>4, <4>1, BeforeGroup
    <3> QED BY <1>s, <2>1, <2>4, <3>1 DEF Counted, InPage
  <2>5. CASE ~(raised = "none" /\ at.story < Len(stories)) /\ pc' = "done"
    <3>1. ASSUME raised = "none", NEW i \in N PROVE RunsOf(i)' + Unfiled(i)' = Planned'
      <4>1. i <= at.story
        BY <2>5, <3>1, Static DEF Position
      <4>2. Planned' = Planned
        BY RunSteps DEF Planned
      <4> QED BY <2>2, <2>3, <3>1, <4>1, <4>2 DEF RunsWhenOver
    <3>2. raised = "none" /\ results.current # NoRun => history'.swallowed
      BY <1>7, <2>1, SwallowedKept DEF Counted
    <3> QED BY <1>s, <2>1, <2>5, <3>1, <3>2 DEF Counted, InPage
  <2> QED BY <2>1, <2>4, <2>5
<1>8. Going => pc \in InPage \cup {"page"} \/ pc \in {"next", "teardown", "done"}
  BY DEF Position, Places, InPage
<1> QED BY <1>1, <1>2, <1>3, <1>4, <1>5, <1>6, <1>7, <1>8, RunSteps

-----------------------------------------------------------------------------
(* What replay serves while a story runs. *)

(* The replay server, as the network controller keeps it.                  *)
ReplayType == [pending : Args, active : Args, server : Args, forwarder : BOOLEAN]

LEMMA ReplayFields ==
    ASSUME NEW r \in ReplayType
    PROVE  /\ ServerStarted(r) \in ReplayType
           /\ ServerStarted(r).server = r.pending /\ ServerStarted(r).active = r.pending
           /\ ServerFailed(r) \in ReplayType
BY DEF ServerStarted, ServerFailed, ReplayType, Args, NoArgs

LEMMA ReplayStops ==
    ASSUME replay \in ReplayType
    PROVE  /\ ReplayOnlyStopped \in ReplayType /\ ReplayOnlyStopped.pending = replay.pending
           /\ ReplayStopped \in ReplayType /\ ReplayStopped.pending = replay.pending
           /\ ReplayStopped.server = NoArgs /\ ~ReplayStopped.forwarder
           /\ replay.active = replay.server => ReplayStopped.active = NoArgs
<1> DEFINE a == IF replay.server = NoArgs THEN replay.active ELSE NoArgs
           r == ReplayOnlyStopped
<1>1. NoArgs \in Args
  BY DEF Args
<1>2. a \in Args /\ (replay.active = replay.server => a = NoArgs)
  BY <1>1 DEF ReplayType
<1>3. r = [replay EXCEPT !.server = NoArgs, !.active = a]
  BY DEF ReplayOnlyStopped, ReplayType
<1>4. ReplayStopped = [r EXCEPT !.forwarder = FALSE]
  BY DEF ReplayStopped
<1> HIDE DEF a
<1>5. /\ r \in ReplayType /\ r.pending = replay.pending
      /\ r.server = NoArgs /\ r.active = a
  BY <1>1, <1>2, <1>3 DEF ReplayType
<1> HIDE DEF r
<1>6. /\ ReplayStopped \in ReplayType /\ ReplayStopped.pending = r.pending
      /\ ReplayStopped.server = r.server /\ ReplayStopped.active = r.active
      /\ ~ReplayStopped.forwarder
  BY <1>4, <1>5 DEF ReplayType
<1> QED BY <1>2, <1>5, <1>6 DEF r

LEMMA ReplayCloses ==
    ASSUME replay \in ReplayType, NEW b
    PROVE  /\ ReplayAfterClose(b) \in ReplayType
           /\ replay.active = replay.server
                => ReplayAfterClose(b).active = ReplayAfterClose(b).server
BY ReplayStops DEF ReplayAfterClose

LEMMA ArchiveKnown ==
    ASSUME Position, NEW r \in ReplayType, NEW s
    PROVE  /\ WithReplayArgs(r, s, ArchiveOf(Story)) \in ReplayType
           /\ WithReplayArgs(r, s, ArchiveOf(Story)).server = r.server
           /\ WithReplayArgs(r, s, ArchiveOf(Story)).active = r.active
           /\ WithReplayArgs(r, s, ArchiveOf(Story)).forwarder = r.forwarder
           /\ ArchiveOf(Story) # NoArchive =>
                WithReplayArgs(r, s, ArchiveOf(Story)).pending
                  = [archive |-> ArchiveOf(Story), mode |-> WprMode(s)]
<1> DEFINE A == {"recording"} \cup {q.archive : q \in UNION {Items(p) : p \in PageSets}}
           M == {"off", "replay", "record", "append"}
           p == [archive |-> ArchiveOf(Story), mode |-> WprMode(s)]
<1>1. Story \in UNION {Items(t) : t \in PageSets}
  <2>1. at.story \in DOMAIN stories /\ stories \in PageSets
    BY Static DEF Position
  <2>2. Story \in Items(stories)
    BY <2>1 DEF Story, Items
  <2> QED BY <2>1, <2>2
<1>2. ArchiveOf(Story) \in A
  BY <1>1 DEF ArchiveOf
<1>3. WprMode(s) \in M
  BY Static DEF Position, WprMode
<1>4. p \in Args
  <2> HIDE DEF A
  <2>1. p \in [archive : A, mode : M]
    BY <1>2, <1>3
  <2> QED BY <2>1 DEF Args, A
<1> HIDE DEF p
<1>5. WithReplayArgs(r, s, ArchiveOf(Story))
        = IF ArchiveOf(Story) = NoArchive THEN r ELSE [r EXCEPT !.pending = p]
  BY DEF WithReplayArgs, p
<1> QED BY <1>4, <1>5 DEF ReplayType, p

(* What the server serves is what UpdateReplay takes for active, unless it *)
(* did not start; then the run is over.                                    *)
Wanted == options.wpr_mode # "off" /\ ArchiveOf(Story) # NoArchive
Fits(args) ==
    /\ args.archive = ArchiveOf(Story)
    /\ args.mode \in (IF options.wpr_mode = "record" THEN {"record", "append"} ELSE {"replay"})
GoneWrong == raised = "fatal" /\ pc \in {"did_run", "did_page", "teardown", "done"}
Serving ==
    /\ replay \in ReplayType
    /\ replay.active = replay.server \/ GoneWrong
    /\ pc \in {"reuse", "create"} /\ Wanted => Fits(replay.pending)
    /\ pc \in {"expectation", "run"} /\ Wanted => Fits(replay.server)

(* UpdateReplay leaves a server alone only if it serves what was asked for. *)
LEMMA UpToDateServes ==
    ASSUME Position, Wanted, Fits(replay.pending), UpToDate, replay.active = replay.server
    PROVE  Fits(replay.server)
<1>1. replay.pending # NoArgs /\ replay.pending.mode # "off"
  BY DEF Wanted, Fits, NoArgs
<1>2. replay.pending = replay.server
  BY <1>1 DEF UpToDate
<1> QED BY <1>2

LEMMA ServingKept == IInv /\ Position /\ Serving /\ [Next]_vars => Serving'
<1> SUFFICES ASSUME IInv, Position, Serving, [Next]_vars PROVE Serving'
  OBVIOUS
<1>t. replay \in ReplayType
  BY DEF Serving
<1>w. ASSUME at' = at
      PROVE  /\ ArchiveOf(Story)' = ArchiveOf(Story) /\ options' = options
             /\ Wanted' <=> Wanted
  BY <1>w, RunSteps DEF ArchiveOf, Story, Wanted
<1>1. CASE StartPage
  <2>1. replay' = replay /\ pc = "page" /\ pc' \in {"will_run", "did_page", "teardown"}
    BY <1>1 DEF StartPage
  <2> QED BY <1>t, <2>1 DEF Serving, GoneWrong
<1>2. CASE WillRunUserStory
  <2> DEFINE r == IF options.restart THEN ReplayAfterClose(state.browser) ELSE replay
  <2>1. /\ pc = "will_run" /\ pc' \in {"reuse", "create"} /\ at' = at
        /\ replay' = WithReplayArgs(r, state', ArchiveOf(Story))
    BY <1>2 DEF WillRunUserStory
  <2>2. replay.active = replay.server
    BY <2>1 DEF Serving, GoneWrong
  <2>3. r \in ReplayType /\ r.active = r.server
    BY <1>t, <2>2, ReplayCloses
  <2> HIDE DEF r
  <2>4. /\ replay' \in ReplayType /\ replay'.active = replay'.server
        /\ ArchiveOf(Story) # NoArchive =>
             replay'.pending = [archive |-> ArchiveOf(Story), mode |-> WprMode(state')]
    BY <2>1, <2>3, ArchiveKnown
  <2>5. Wanted => WprMode(state') \in (IF options.wpr_mode = "record" THEN {"record", "append"}
                                       ELSE {"replay"})
    BY Static DEF Wanted, WprMode, Position
  <2>6. Wanted' => Fits(replay.pending)'
    BY <1>w, <2>1, <2>4, <2>5 DEF Fits, Wanted
  <2> QED BY <2>1, <2>4, <2>6 DEF Serving
<1>3. CASE ReuseBrowser \/ CreateBrowser
  <2>1. /\ at' = at /\ pc \in {"reuse", "create"}
        /\ pc' = "expectation" \/ pc' = "did_run"
    BY <1>3, KindsRaised DEF ReuseBrowser, CreateBrowser, StoryEnds
  <2>2. replay.active = replay.server /\ (Wanted => Fits(replay.pending))
    BY <2>1 DEF Serving, GoneWrong
  <2>3. \/ UpToDate /\ replay' = replay
        \/ ~UpToDate /\ replay' = replay /\ pc' = "did_run"
        \/ ~UpToDate /\ replay' = ServerStarted(ReplayOnlyStopped)
        \/ ~UpToDate /\ replay' = ServerStarted(ReplayStopped)
        \/ replay' \in {ServerFailed(ReplayOnlyStopped), ServerFailed(ReplayStopped)}
           /\ pc' = "did_run" /\ raised' = "fatal"
    <3>1. StoryEnds("fatal") => pc' = "did_run" /\ raised' = "fatal"
      BY DEF StoryEnds, Passed
    <3>2. CASE ReuseBrowser
      BY <3>1, <3>2 DEF ReuseBrowser
    <3>3. CASE CreateBrowser
      BY <3>1, <3>3 DEF CreateBrowser
    <3> QED BY <1>3, <3>2, <3>3
  <2>4. CASE UpToDate /\ replay' = replay
    <3>1. Wanted => Fits(replay.server)
      BY <2>2, <2>4, UpToDateServes
    <3>2. Wanted' => Fits(replay.server)'
      BY <1>w, <2>1, <2>4, <3>1 DEF Fits
    <3> QED BY <1>t, <2>1, <2>2, <2>4, <3>2 DEF Serving
  <2>5. CASE replay' = replay /\ pc' = "did_run"
    BY <1>t, <2>2, <2>5 DEF Serving
  <2>6. CASE replay' = ServerStarted(ReplayOnlyStopped) \/ replay' = ServerStarted(ReplayStopped)
    <3>1. /\ replay' \in ReplayType /\ replay'.server = replay.pending
          /\ replay'.active = replay.pending
      BY <1>t, <2>6, ReplayStops, ReplayFields
    <3>2. Wanted' => Fits(replay.server)'
      BY <1>w, <2>1, <2>2, <3>1 DEF Fits
    <3> QED BY <2>1, <3>1, <3>2 DEF Serving
  <2>7. CASE /\ replay' \in {ServerFailed(ReplayOnlyStopped), ServerFailed(ReplayStopped)}
             /\ pc' = "did_run" /\ raised' = "fatal"
    BY <1>t, <2>7, ReplayStops, ReplayFields DEF Serving, GoneWrong
  <2> QED BY <2>3, <2>4, <2>5, <2>6, <2>7
<1>4. CASE GetExpectation \/ RunUserStory
  <2>1. /\ at' = at /\ replay' = replay /\ pc' \in {"did_run", "run"}
        /\ pc = "expectation" \/ (pc = "run" /\ pc' = "did_run")
    BY <1>4 DEF GetExpectation, RunUserStory, StoryEnds
  <2>2. replay.active = replay.server /\ (Wanted => Fits(replay.server))
    BY <2>1 DEF Serving, GoneWrong
  <2>3. Wanted' => Fits(replay.server)'
    BY <1>w, <2>1, <2>2 DEF Fits
  <2> QED BY <1>t, <2>1, <2>2, <2>3 DEF Serving
<1>5. CASE DidRunUserStory \/ FinishPage \/ TearDownGroup
  <2>1. replay' = replay \/ replay' = ReplayAfterClose(state.browser)
    BY <1>5 DEF DidRunUserStory, StopBrowser, FinishPage, RetryAfterError, TearDownGroup
  <2>2. pc \in {"did_run", "did_page", "teardown"}
        /\ pc' \in {"did_page", "next", "teardown", "page", "done"}
    BY <1>5 DEF DidRunUserStory, FinishPage, TearDownGroup
  <2>3. GoneWrong => GoneWrong'
    <3>1. ASSUME DidRunUserStory PROVE raised' = raised /\ pc' = "did_page"
      BY <3>1 DEF DidRunUserStory
    <3>2. ASSUME FinishPage, raised = "fatal" PROVE raised' = raised /\ pc' = "teardown"
      BY <3>2 DEF FinishPage
    <3>3. ASSUME TearDownGroup, raised = "fatal" PROVE raised' = raised /\ pc' = "done"
      BY <3>3 DEF TearDownGroup
    <3> QED BY <1>5, <3>1, <3>2, <3>3 DEF GoneWrong
  <2>4. replay.active = replay.server \/ GoneWrong
    BY DEF Serving
  <2> QED BY <1>t, <2>1, <2>2, <2>3, <2>4, ReplayCloses DEF Serving
<1>6. CASE NextStory
  <2>1. replay' = replay /\ pc = "next" /\ pc' \in {"page", "teardown"}
    BY <1>6, NextStoryDoes
  <2> QED BY <1>t, <2>1 DEF Serving, GoneWrong
<1>7. CASE BrowserDies \/ UNCHANGED vars
  <2>1. replay' = replay /\ pc' = pc /\ at' = at /\ raised' = raised
    BY <1>7 DEF BrowserDies, vars
  <2>2. (Fits(replay.server)' <=> Fits(replay.server)) /\ (Fits(replay.pending)' <=> Fits(replay.pending))
    BY <1>w, <2>1 DEF Fits
  <2> QED BY <1>t, <1>w, <2>1, <2>2 DEF Serving, GoneWrong
<1> QED BY <1>1, <1>2, <1>3, <1>4, <1>5, <1>6, <1>7 DEF Next

-----------------------------------------------------------------------------
(* What is left of the browsers and on the device. *)

(* Only a browser that dies or does not start is lost, and only a teardown *)
(* that raises leaks.                                                      *)
LEMMA HistoryKeptApart ==
    ASSUME IInv, [Next]_vars
    PROVE  /\ ~CreateBrowser /\ ~BrowserDies => history'.lost = history.lost
           /\ ~FinishPage /\ ~TearDownGroup => history'.leaked = history.leaked
           /\ FinishPage \/ TearDownGroup => (history.leaked => history'.leaked)
<1>t. history \in HistoryType /\ Types /\ Torn
  BY DEF IInv, Types
<1>1. ASSUME StartPage PROVE history'.lost = history.lost /\ history'.leaked = history.leaked
  BY <1>t, <1>1 DEF StartPage, HistoryType
<1>2. ASSUME WillRunUserStory \/ GetExpectation \/ NextStory \/ UNCHANGED vars
      PROVE  history'.lost = history.lost /\ history'.leaked = history.leaked
  BY <1>2 DEF WillRunUserStory, GetExpectation, NextStory, vars
<1>3. ASSUME ReuseBrowser \/ RunUserStory
      PROVE  history'.lost = history.lost /\ history'.leaked = history.leaked
  <2>1. history' = history \/ \E how : history' = Met(state.browser, how)
    BY <1>3 DEF ReuseBrowser, RunUserStory
  <2>2. state \in StateType
    BY <1>t, <1>3, StateCases DEF IInv, Held, InPage, ReuseBrowser, RunUserStory
  <2>3. state.browser \in Nat
    BY <2>2 DEF StateType
  <2>4. \A how : /\ Met(state.browser, how).lost = history.lost
                 /\ Met(state.browser, how).leaked = history.leaked
    BY <1>t, <2>3, MetAdds
  <2> QED BY <2>1, <2>4
<1>4. ASSUME CreateBrowser PROVE history'.leaked = history.leaked
  <2> DEFINE b == browsers.created + 1
  <2>1. \/ history' = history \/ history' = [history EXCEPT !.lost = @ \cup {b}]
        \/ \E how : history' = Met(b, how)
    BY <1>4 DEF CreateBrowser
  <2>2. b \in Nat
    BY <1>t DEF Types, BrowsersType
  <2> HIDE DEF b
  <2>3. CASE history' = [history EXCEPT !.lost = @ \cup {b}]
    BY <1>t, <2>3 DEF HistoryType
  <2> QED BY <1>t, <2>1, <2>2, <2>3, MetAdds
<1>5. ASSUME DidRunUserStory PROVE history'.lost = history.lost /\ history'.leaked = history.leaked
  <2>1. state \in StateType
    BY <1>t, <1>5, StateCases DEF IInv, Held, InPage, DidRunUserStory
  <2> QED BY <1>t, <1>5, <2>1, Dropped
<1>6. ASSUME BrowserDies PROVE history'.leaked = history.leaked
  BY <1>t, <1>6 DEF BrowserDies, HistoryType
<1>7. ASSUME FinishPage \/ TearDownGroup
      PROVE  history'.lost = history.lost /\ (history.leaked => history'.leaked)
  <2> DEFINE h == TornDown(history)
  <2>1. h.lost = history.lost /\ h.leaked = history.leaked
    BY <1>t DEF TornDown, HistoryType
  <2>2. state # NoState => h \in HistoryType
    BY <1>t, TornDownTorn
  <2>3. CASE history' = history
    BY <2>3
  <2>4. CASE \E w : history' = [history EXCEPT !.swallowed = w]
    BY <1>t, <2>4 DEF HistoryType
  <2>5. CASE /\ state # NoState
             /\ history' = h \/ history' = [h EXCEPT !.leaked = TRUE]
                \/ \E w : history' = [h EXCEPT !.leaked = TRUE, !.swallowed = w]
    <3> HIDE DEF h
    <3> QED BY <2>1, <2>2, <2>5 DEF HistoryType
  <2>6. ASSUME TearDownGroup
        PROVE  \/ history' = history
               \/ /\ state # NoState
                  /\ history' = h \/ \E w : history' = [h EXCEPT !.leaked = TRUE, !.swallowed = w]
    <3>1. ASSUME state # NoState
          PROVE  [h EXCEPT !.leaked = TRUE, !.swallowed = @ \/ raised \in {"none", "too_many_failures"}]
                 = [h EXCEPT !.leaked = TRUE,
                             !.swallowed = h.swallowed \/ raised \in {"none", "too_many_failures"}]
      <4> HIDE DEF h
      <4> QED BY <2>2, <3>1 DEF HistoryType
    <3> QED BY <2>6, <3>1 DEF TearDownGroup
  <2>7. ASSUME FinishPage
        PROVE  \/ history' = history \/ \E w : history' = [history EXCEPT !.swallowed = w]
               \/ /\ state # NoState
                  /\ history' = h \/ history' = [h EXCEPT !.leaked = TRUE]
    <3>1. pc = "did_page"
      BY <2>7 DEF FinishPage
    <3>2. state # NoState
      BY <3>1 DEF IInv, Held, InPage
    <3> QED BY <1>t, <2>7, <3>2 DEF FinishPage, RetryAfterError, HistoryType
  <2> QED BY <1>7, <2>3, <2>4, <2>5, <2>6, <2>7
<1> QED BY <1>1, <1>2, <1>3, <1>4, <1>5, <1>6, <1>7 DEF Next

(* The device: only the browser of the state lives, unless a teardown      *)
(* raised; and while no browser was lost, replay and the performance mode  *)
(* are on for that browser only.                                           *)
Known == browsers.alive \cup browsers.running \cup history.lost \subseteq 1 .. browsers.created
BrowserHeld == state # NoState /\ state.browser # NoBrowser
Clear ==
    /\ browsers.alive = {}
    /\ history.lost = {} => /\ browsers.running = {} /\ ~browsers.perf
                            /\ replay.server = NoArgs /\ ~replay.forwarder
Device ==
    /\ pc = "create" => state.browser = NoBrowser
    /\ ~history.leaked =>
         IF BrowserHeld
         THEN /\ browsers.alive \subseteq {state.browser}
              /\ history.lost = {} => browsers.alive = {state.browser} /\ browsers.running = {state.browser}
         ELSE Clear

(* What closing the browser of the state leaves.                           *)
LEMMA ClosedFields ==
    ASSUME Types, NEW b
    PROVE  IF b \notin browsers.alive THEN BrowsersAfterClose(b) = browsers
           ELSE /\ BrowsersAfterClose(b).alive = browsers.alive \ {b}
                /\ BrowsersAfterClose(b).running = browsers.running \ {b}
                /\ BrowsersAfterClose(b).perf <=> browsers.perf /\ Cardinality(browsers.running) > 1
<1> DEFINE perf == browsers.perf /\ Cardinality(browsers.running) > 1
<1>1. CASE b \in browsers.alive
  <2>1. BrowsersAfterClose(b) = [browsers EXCEPT !.alive = @ \ {b}, !.running = @ \ {b}, !.perf = perf]
    BY <1>1 DEF BrowsersAfterClose, Types, BrowsersType
  <2>2. browsers \in BrowsersType /\ perf \in BOOLEAN
    BY DEF Types
  <2> HIDE DEF perf
  <2>3. /\ BrowsersAfterClose(b).alive = browsers.alive \ {b}
        /\ BrowsersAfterClose(b).running = browsers.running \ {b}
        /\ BrowsersAfterClose(b).perf = perf
    BY <2>1, <2>2 DEF BrowsersType
  <2> QED BY <1>1, <2>3 DEF perf
<1>2. CASE b \notin browsers.alive
  BY <1>2 DEF BrowsersAfterClose
<1> QED BY <1>1, <1>2

LEMMA DeviceClears ==
    ASSUME IInv, Known, Device, replay \in ReplayType, state # NoState, ~history.leaked,
           NEW B, B = BrowsersAfterClose(state.browser),
           NEW R, R = ReplayAfterClose(state.browser)
    PROVE  /\ B.alive = {}
           /\ history.lost = {} =>
                B.running = {} /\ ~B.perf /\ R.server = NoArgs /\ ~R.forwarder
<1>t. Types /\ browsers.created \in Nat
  BY DEF IInv, Types, BrowsersType
<1>1. CASE ~BrowserHeld
  <2>1. state.browser = 0 /\ Clear
    BY <1>1 DEF BrowserHeld, Device, NoBrowser
  <2>2. state.browser \notin browsers.alive
    BY <2>1 DEF Clear
  <2>3. B = browsers /\ R = replay
    BY <1>t, <2>2 DEF BrowsersAfterClose, ReplayAfterClose
  <2> QED BY <2>1, <2>3 DEF Clear
<1>2. CASE BrowserHeld
  <2>1. /\ browsers.alive \subseteq {state.browser}
        /\ history.lost = {} => browsers.alive = {state.browser} /\ browsers.running = {state.browser}
    BY <1>2 DEF Device
  <2>2. CASE state.browser \in browsers.alive
    <3>1. /\ B.alive = browsers.alive \ {state.browser}
          /\ B.running = browsers.running \ {state.browser}
          /\ B.perf <=> browsers.perf /\ Cardinality(browsers.running) > 1
      BY <1>t, <2>2, ClosedFields
    <3>2. R.server = NoArgs /\ ~R.forwarder
      BY <2>2, ReplayStops DEF ReplayAfterClose
    <3>3. Cardinality({state.browser}) = 1
      BY FS_Singleton
    <3> QED BY <2>1, <3>1, <3>2, <3>3
  <2>3. CASE state.browser \notin browsers.alive
    BY <1>t, <2>1, <2>3, ClosedFields
  <2> QED BY <2>2, <2>3
<1> QED BY <1>1, <1>2

LEMMA KnownKept == IInv /\ Known /\ [Next]_vars => Known'
<1> SUFFICES ASSUME IInv, Known, [Next]_vars PROVE Known'
  OBVIOUS
<1> DEFINE b == browsers.created + 1
<1>t. /\ Types /\ browsers \in BrowsersType /\ history \in HistoryType
      /\ browsers.created \in Nat /\ b \in Nat
  BY DEF IInv, Types, BrowsersType
<1>1. CASE CreateBrowser
  <2>1. \/ /\ browsers' = [browsers EXCEPT !.created = b, !.perf = TRUE]
           /\ history' = [history EXCEPT !.lost = @ \cup {b}]
        \/ /\ browsers' = [created |-> b, perf |-> TRUE, alive |-> browsers.alive \cup {b},
                           running |-> browsers.running \cup {b}]
           /\ history' = history \/ history' \in {Met(b, "expected"), Met(b, "error")}
    BY <1>1 DEF CreateBrowser
  <2>2. /\ browsers'.created = b /\ browsers'.alive \subseteq browsers.alive \cup {b}
        /\ browsers'.running \subseteq browsers.running \cup {b}
        /\ history'.lost \subseteq history.lost \cup {b}
    <3> HIDE DEF b
    <3>1. CASE /\ browsers' = [browsers EXCEPT !.created = b, !.perf = TRUE]
               /\ history' = [history EXCEPT !.lost = @ \cup {b}]
      <4>1. /\ browsers'.created = b /\ browsers'.alive = browsers.alive
            /\ browsers'.running = browsers.running
        BY <1>t, <3>1 DEF BrowsersType
      <4>2. history'.lost = history.lost \cup {b}
        BY <1>t, <3>1 DEF HistoryType
      <4> QED BY <4>1, <4>2
    <3>2. CASE /\ browsers' = [created |-> b, perf |-> TRUE, alive |-> browsers.alive \cup {b},
                               running |-> browsers.running \cup {b}]
               /\ history' = history \/ history' \in {Met(b, "expected"), Met(b, "error")}
      <4>1. history'.lost = history.lost
        <5>1. \A how : Met(b, how).lost = history.lost
          BY <1>t, MetAdds
        <5> QED BY <3>2, <5>1
      <4> QED BY <3>2, <4>1
    <3> QED BY <2>1, <3>1, <3>2
  <2>3. 1 .. browsers.created \subseteq 1 .. b /\ b \in 1 .. b
    BY <1>t
  <2> HIDE DEF b
  <2> QED BY <2>2, <2>3 DEF Known
<1>2. CASE BrowserDies
  <2>1. PICK d \in browsers.alive :
           /\ browsers' = [browsers EXCEPT !.alive = @ \ {d}]
           /\ history' = [history EXCEPT !.lost = @ \cup {d}]
    BY <1>2 DEF BrowserDies
  <2>2. /\ browsers'.created = browsers.created /\ browsers'.alive \subseteq browsers.alive
        /\ browsers'.running = browsers.running /\ history'.lost = history.lost \cup {d}
    BY <1>t, <2>1 DEF BrowsersType, HistoryType
  <2> QED BY <2>2 DEF Known
<1>3. CASE ~CreateBrowser /\ ~BrowserDies
  <2>1. browsers' = browsers \/ browsers' = BrowsersAfterClose(state.browser)
    BY <1>3 DEF Next, vars, StartPage, WillRunUserStory, ReuseBrowser, GetExpectation, RunUserStory,
                DidRunUserStory, StopBrowser, FinishPage, RetryAfterError, NextStory, TearDownGroup
  <2>2. /\ browsers'.created = browsers.created /\ browsers'.alive \subseteq browsers.alive
        /\ browsers'.running \subseteq browsers.running
    BY <1>t, <2>1, Closed, ClosedFields
  <2>3. history'.lost = history.lost
    BY <1>3, HistoryKeptApart
  <2> QED BY <2>2, <2>3 DEF Known
<1> QED BY <1>1, <1>2, <1>3

LEMMA DeviceKept ==
    IInv /\ Position /\ Known /\ replay \in ReplayType /\ Device /\ [Next]_vars => Device'
<1> SUFFICES ASSUME IInv, Position, Known, replay \in ReplayType, Device, [Next]_vars PROVE Device'
  OBVIOUS
<1> DEFINE b == browsers.created + 1
<1>t. /\ Types /\ browsers \in BrowsersType /\ history \in HistoryType
      /\ browsers.created \in Nat /\ b \in Nat /\ b # 0
  BY DEF IInv, Types, BrowsersType
(* The steps that leave the browser and the device as they were.           *)
<1>1. ASSUME pc' # "create", UNCHANGED <<state, browsers>>,
             history'.lost = history.lost, history'.leaked = history.leaked,
             BrowserHeld \/ (replay'.server = replay.server /\ replay'.forwarder = replay.forwarder)
      PROVE  Device'
  BY <1>1 DEF Device, BrowserHeld, Clear
(* The steps that close the browser of the state and drop it.              *)
<1>2. ASSUME pc' # "create" \/ state'.browser = NoBrowser, state # NoState,
             state' = NoState \/ state'.browser = NoBrowser,
             browsers' = BrowsersAfterClose(state.browser),
             replay'.server = ReplayAfterClose(state.browser).server,
             replay'.forwarder = ReplayAfterClose(state.browser).forwarder,
             history'.lost = history.lost, history'.leaked = history.leaked
      PROVE  Device'
  <2>1. ~BrowserHeld'
    BY <1>2 DEF BrowserHeld
  <2>2. ~history.leaked => Clear'
    BY <1>2, DeviceClears DEF Clear
  <2> QED BY <1>2, <2>1, <2>2 DEF Device
<1>3. CASE StartPage
  <2>1. /\ browsers' = browsers /\ replay' = replay /\ pc' # "create"
        /\ history'.lost = history.lost /\ history'.leaked = history.leaked
    BY <1>3, HistoryKeptApart DEF StartPage, CreateBrowser, BrowserDies, FinishPage, TearDownGroup
  <2>2. CASE state # NoState
    <3>1. state' = state
      BY <1>3, <2>2 DEF StartPage
    <3> QED BY <1>1, <2>1, <3>1
  <2>3. CASE state = NoState
    <3>1. state' = NewState
      BY <1>3, <2>3 DEF StartPage
    <3>2. ~BrowserHeld /\ ~BrowserHeld'
      BY <2>3, <3>1 DEF BrowserHeld, NewState
    <3> QED BY <2>1, <3>2 DEF Device, Clear
  <2> QED BY <2>2, <2>3
<1>4. CASE WillRunUserStory
  <2> DEFINE r == IF options.restart THEN ReplayAfterClose(state.browser) ELSE replay
  <2>1. /\ pc = "will_run" /\ history' = history
        /\ pc' = IF state'.browser = NoBrowser THEN "create" ELSE "reuse"
        /\ replay' = WithReplayArgs(r, state', ArchiveOf(Story))
    BY <1>4 DEF WillRunUserStory
  <2>2. state # NoState
    BY <2>1 DEF IInv, Held, InPage
  <2>3. r \in ReplayType
    BY ReplayCloses
  <2>4. replay'.server = r.server /\ replay'.forwarder = r.forwarder
    <3> HIDE DEF r
    <3> QED BY <2>1, <2>3, ArchiveKnown
  <2>5. CASE options.restart
    <3>1. state' = StateStopped /\ browsers' = BrowsersAfterClose(state.browser)
      BY <1>4, <2>5 DEF WillRunUserStory
    <3>2. state'.browser = NoBrowser
      BY <1>t, <2>2, <3>1, Stopped DEF NoBrowser
    <3> QED BY <1>2, <2>1, <2>2, <2>4, <2>5, <3>1, <3>2
  <2>6. CASE ~options.restart
    <3>1. state' = state /\ browsers' = browsers
      BY <1>4, <2>6 DEF WillRunUserStory
    <3>2. (pc = "create" => state.browser = NoBrowser)'
      BY <2>1
    <3> QED BY <2>1, <2>4, <2>6, <3>1, <3>2 DEF Device, BrowserHeld, Clear
  <2> QED BY <2>5, <2>6
<1>5. CASE ReuseBrowser
  <2>1. /\ pc = "reuse" /\ state' = state /\ browsers' = browsers
        /\ pc' = "expectation" \/ pc' = "did_run"
        /\ history'.lost = history.lost /\ history'.leaked = history.leaked
    BY <1>5, KindsRaised, HistoryKeptApart
       DEF ReuseBrowser, StoryEnds, CreateBrowser, BrowserDies, FinishPage, TearDownGroup
  <2>2. BrowserHeld
    BY <2>1 DEF IInv, Held, InPage, Suspects, BrowserHeld, NoBrowser
  <2> QED BY <1>1, <2>1, <2>2
<1>6. CASE CreateBrowser
  <2>1. /\ pc = "create" /\ history'.leaked = history.leaked
        /\ pc' = "expectation" \/ pc' = "did_run"
    BY <1>6, KindsRaised, HistoryKeptApart DEF CreateBrowser, StoryEnds, FinishPage, TearDownGroup
  <2>2. state # NoState /\ state \in StateType /\ state.browser = NoBrowser /\ ~BrowserHeld
    BY <1>t, <2>1, StateCases DEF Device, BrowserHeld, IInv, Held, InPage
  <2>3. ~history.leaked => Clear
    BY <2>2 DEF Device
  <2>4. \/ /\ state' = state
           /\ browsers' = [browsers EXCEPT !.created = b, !.perf = TRUE]
           /\ history' = [history EXCEPT !.lost = @ \cup {b}]
        \/ /\ state' = [state EXCEPT !.browser = b]
           /\ browsers' = [created |-> b, perf |-> TRUE, alive |-> browsers.alive \cup {b},
                           running |-> browsers.running \cup {b}]
           /\ history' = history \/ history' \in {Met(b, "expected"), Met(b, "error")}
    BY <1>6 DEF CreateBrowser
  <2> HIDE DEF b
  <2>5. CASE /\ state' = state
             /\ browsers' = [browsers EXCEPT !.created = b, !.perf = TRUE]
             /\ history' = [history EXCEPT !.lost = @ \cup {b}]
    <3>1. browsers'.alive = browsers.alive /\ history'.lost # {}
      BY <1>t, <2>5 DEF BrowsersType, HistoryType
    <3>2. ~BrowserHeld'
      BY <2>2, <2>5 DEF BrowserHeld
    <3> QED BY <2>1, <2>3, <3>1, <3>2 DEF Device, Clear
  <2>6. CASE /\ state' = [state EXCEPT !.browser = b]
             /\ browsers' = [created |-> b, perf |-> TRUE, alive |-> browsers.alive \cup {b},
                             running |-> browsers.running \cup {b}]
             /\ history' = history \/ history' \in {Met(b, "expected"), Met(b, "error")}
    <3>1. state'.browser = b /\ BrowserHeld'
      <4>1. state'.browser = b /\ state'.id = state.id /\ state.id # 0
        BY <2>2, <2>6 DEF StateType
      <4> QED BY <1>t, <4>1 DEF BrowserHeld, NoBrowser, NoState
    <3>2. history'.lost = history.lost
      <4>1. \A how : Met(b, how).lost = history.lost
        BY <1>t, MetAdds
      <4> QED BY <2>6, <4>1
    <3>3. browsers'.alive = browsers.alive \cup {b} /\ browsers'.running = browsers.running \cup {b}
      BY <2>6
    <3> QED BY <2>1, <2>3, <3>1, <3>2, <3>3 DEF Device, Clear
  <2> QED BY <2>4, <2>5, <2>6
<1>7. CASE GetExpectation \/ RunUserStory \/ NextStory
  <2>1. /\ state' = state /\ browsers' = browsers /\ replay' = replay
        /\ pc' \in {"run", "did_run", "page", "teardown"} /\ pc \in {"expectation", "run", "next"}
    <3>1. ASSUME GetExpectation \/ RunUserStory
          PROVE  /\ state' = state /\ browsers' = browsers /\ replay' = replay
                 /\ pc' \in {"run", "did_run"} /\ pc \in {"expectation", "run"}
      BY <3>1 DEF GetExpectation, RunUserStory, StoryEnds
    <3> QED BY <1>7, <3>1, NextStoryDoes
  <2>2. history'.lost = history.lost /\ history'.leaked = history.leaked
    <3>1. ~CreateBrowser /\ ~BrowserDies /\ ~FinishPage /\ ~TearDownGroup
      <4>1. browsers' = browsers /\ pc \notin {"create", "did_page", "teardown"}
        BY <2>1
      <4>2. ~BrowserDies
        BY <1>t, <4>1 DEF BrowserDies, BrowsersType
      <4> QED BY <4>1, <4>2 DEF CreateBrowser, FinishPage, TearDownGroup
    <3> QED BY <3>1, HistoryKeptApart
  <2> QED BY <1>1, <2>1, <2>2
<1>11. CASE UNCHANGED vars
  BY <1>11 DEF vars, Device, BrowserHeld, Clear
<1>8. CASE DidRunUserStory
  <2>1. /\ pc = "did_run" /\ pc' = "did_page"
        /\ history'.lost = history.lost /\ history'.leaked = history.leaked
        /\ StopBrowser \/ UNCHANGED <<state, replay, browsers>>
    BY <1>8, HistoryKeptApart DEF DidRunUserStory, CreateBrowser, BrowserDies, FinishPage,
       TearDownGroup
  <2>2. state # NoState
    BY <2>1 DEF IInv, Held, InPage
  <2>3. CASE StopBrowser
    <3>1. /\ state' = StateStopped /\ browsers' = BrowsersAfterClose(state.browser)
          /\ replay' = ReplayAfterClose(state.browser)
      BY <2>3 DEF StopBrowser
    <3>2. state'.browser = NoBrowser
      BY <1>t, <2>2, <3>1, Stopped DEF NoBrowser
    <3> QED BY <1>2, <2>1, <2>2, <3>1, <3>2
  <2>4. CASE UNCHANGED <<state, replay, browsers>>
    BY <1>1, <2>1, <2>4
  <2> QED BY <2>1, <2>3, <2>4
<1>9. CASE FinishPage \/ TearDownGroup
  <2>0. /\ pc' # "create" /\ (state # NoState \/ TearDownGroup)
        /\ history'.lost = history.lost /\ (history.leaked => history'.leaked)
    <3>1. pc' # "create" /\ ~CreateBrowser /\ ~BrowserDies
      BY <1>9 DEF FinishPage, TearDownGroup, CreateBrowser, BrowserDies, RetryAfterError
    <3>2. ASSUME FinishPage PROVE state # NoState
      BY <3>2 DEF FinishPage, IInv, Held, InPage
    <3> QED BY <1>9, <3>1, <3>2, HistoryKeptApart
  <2>1. CASE history'.leaked
    BY <2>0, <2>1 DEF Device
  <2>2. CASE ~history'.leaked
    <3>1. \/ UNCHANGED <<state, replay, browsers>>
          \/ /\ state # NoState /\ state' = NoState
             /\ replay' = ReplayAfterClose(state.browser)
             /\ browsers' = BrowsersAfterClose(state.browser)
          \/ state # NoState /\ history' = [TornDown(history) EXCEPT !.leaked = TRUE]
          \/ state # NoState /\ \E w : history' = [TornDown(history) EXCEPT !.leaked = TRUE, !.swallowed = w]
      <4>1. CASE FinishPage
        BY <2>0, <4>1 DEF FinishPage, RetryAfterError, Forget, TearDownGroup
      <4>2. CASE TearDownGroup
        <5> DEFINE h == TornDown(history)
        <5>1. ASSUME state # NoState
              PROVE  [h EXCEPT !.leaked = TRUE,
                               !.swallowed = @ \/ raised \in {"none", "too_many_failures"}]
                     = [h EXCEPT !.leaked = TRUE,
                               !.swallowed = h.swallowed \/ raised \in {"none", "too_many_failures"}]
          <6>1. h \in HistoryType
            BY <5>1, TornDownTorn DEF IInv
          <6> HIDE DEF h
          <6> QED BY <6>1 DEF HistoryType
        <5> QED BY <4>2, <5>1 DEF TearDownGroup
      <4> QED BY <1>9, <4>1, <4>2
    <3>2. ASSUME state # NoState,
                 \/ history' = [TornDown(history) EXCEPT !.leaked = TRUE]
                 \/ \E w : history' = [TornDown(history) EXCEPT !.leaked = TRUE, !.swallowed = w]
          PROVE  history'.leaked
      <4> DEFINE h == TornDown(history)
      <4>1. h \in HistoryType
        BY <3>2, TornDownTorn DEF IInv
      <4> HIDE DEF h
      <4>2. \/ history' = [h EXCEPT !.leaked = TRUE]
            \/ \E w : history' = [h EXCEPT !.leaked = TRUE, !.swallowed = w]
        BY <3>2 DEF h
      <4> QED BY <4>1, <4>2 DEF HistoryType
    <3>3. history'.leaked = history.leaked
      <4>1. history'.leaked \in BOOLEAN /\ history.leaked \in BOOLEAN
        <5>1. IInv'
          BY Preserved
        <5> QED BY <1>t, <5>1 DEF IInv, Types, HistoryType
      <4> QED BY <2>0, <2>2, <4>1
    <3>4. CASE UNCHANGED <<state, replay, browsers>>
      BY <1>1, <2>0, <3>3, <3>4
    <3>5. CASE /\ state # NoState /\ state' = NoState
               /\ replay' = ReplayAfterClose(state.browser)
               /\ browsers' = BrowsersAfterClose(state.browser)
      BY <1>2, <2>0, <3>3, <3>5
    <3> QED BY <2>2, <3>1, <3>2, <3>4, <3>5
  <2> QED BY <2>1, <2>2
<1>10. CASE BrowserDies
  <2>1. PICK d \in browsers.alive :
           /\ browsers' = [browsers EXCEPT !.alive = @ \ {d}]
           /\ history' = [history EXCEPT !.lost = @ \cup {d}]
    BY <1>10 DEF BrowserDies
  <2>2. state' = state /\ pc' = pc /\ replay' = replay
    BY <1>10 DEF BrowserDies
  <2>3. /\ browsers'.alive = browsers.alive \ {d} /\ d \in history'.lost
        /\ history'.leaked = history.leaked
    BY <1>t, <2>1 DEF BrowsersType, HistoryType
  <2> QED BY <2>2, <2>3 DEF Device, BrowserHeld, Clear
<1> QED BY <1>3, <1>4, <1>5, <1>6, <1>7, <1>8, <1>9, <1>10, <1>11 DEF Next

-----------------------------------------------------------------------------
(* The theorems about the loops. *)

LEMMA RecordedKept ==
    Position /\ recorded \subseteq 1 .. Len(stories) /\ [Next]_vars
      => recorded' \subseteq 1 .. Len(stories')
<1> SUFFICES ASSUME Position, recorded \subseteq 1 .. Len(stories), [Next]_vars
             PROVE  recorded' \subseteq 1 .. Len(stories')
  OBVIOUS
<1>1. recorded' \subseteq recorded \cup {at.story}
  BY DEF Next, vars, StartPage, WillRunUserStory, ReuseBrowser, CreateBrowser, GetExpectation,
         RunUserStory, DidRunUserStory, FinishPage, NextStory, TearDownGroup, BrowserDies,
         ArchiveAfterStart
<1>2. at.story \in 1 .. Len(stories)
  BY DEF Position
<1> QED BY <1>1, <1>2, RunSteps

(* What the loops, the results, the replay server and the device keep.     *)
LInv ==
    /\ Position /\ recorded \subseteq 1 .. Len(stories)
    /\ FiledTypes /\ Filling /\ Stopping /\ Ordered /\ Counted
    /\ Serving /\ Known /\ Device

LEMMA InitLoops == Init => LInv
<1> SUFFICES ASSUME Init PROVE LInv
  OBVIOUS
<1>1. Position /\ recorded \subseteq 1 .. Len(stories)
  BY Static, OptionsAssumption DEF Init, Position, Places
<1>2. FiledTypes /\ Filling
  BY DEF Init, FiledTypes, Filling, InPage, BeforeStory
<1>3. results.runs = <<>> /\ DOMAIN results.runs = {}
  BY DEF Init
<1>4. Stopping /\ Ordered
  BY <1>3 DEF Stopping, Ordered
<1>5. Counted
  <2>1. pc = "page" /\ raised = "none" /\ at = [round |-> 1, story |-> 1, page |-> 1]
    BY DEF Init
  <2>2. ASSUME NEW i \in 1 .. Len(stories) PROVE RunsOf(i) = RunsBefore(i)
    <3>1. RunsOf(i) = 0
      BY <1>3, FS_EmptySet DEF RunsOf
    <3>2. options.page_repeat \in Nat /\ i \in Nat /\ i >= 1
      BY <1>1, Static DEF Position
    <3>3. (1 - 1) * options.page_repeat = 0
      BY <3>2, Times
    <3> QED BY <2>1, <3>1, <3>2, <3>3 DEF RunsBefore
  <2> QED BY <2>1, <2>2 DEF Counted
<1>6. Serving
  BY DEF Init, Serving, ReplayType, Args
<1>7. Known /\ Device
  BY DEF Init, Known, Device, BrowserHeld, Clear
<1> QED BY <1>1, <1>2, <1>4, <1>5, <1>6, <1>7 DEF LInv

\* The second inductive invariant: how far user_story_runner.Run is in the
\* page set and what it has filed, what Web Page Replay serves, and what is
\* left of the browsers.
THEOREM LoopsInvariance == Spec => [](IInv /\ LInv)
<1>1. IInv /\ LInv /\ [Next]_vars => LInv'
  <2> SUFFICES ASSUME IInv, LInv, [Next]_vars PROVE LInv'
    OBVIOUS
  <2>1. Position' /\ recorded' \subseteq 1 .. Len(stories')
    BY PositionKept, RecordedKept DEF LInv
  <2>2. FiledTypes' /\ Filling' /\ Stopping' /\ Ordered' /\ Counted'
    BY FillingKept, StoppingKept, OrderedKept, CountedKept DEF LInv
  <2>3. Serving' /\ Known' /\ Device'
    BY ServingKept, KnownKept, DeviceKept DEF LInv, Serving
  <2> QED BY <2>1, <2>2, <2>3 DEF LInv
<1> QED BY <1>1, InitInv, InitLoops, Preserved, PTL DEF Spec

\* The types of the state of the runner and of the classes it drives.
THEOREM TypeCorrect == Spec => []TypeOK
<1>1. IInv /\ LInv => TypeOK
  <2> SUFFICES ASSUME IInv, LInv PROVE TypeOK
    OBVIOUS
  <2>1. browsers \in [created : Nat, alive : SUBSET (1 .. browsers.created),
                      running : SUBSET (1 .. browsers.created), perf : BOOLEAN]
    BY DEF IInv, LInv, Types, BrowsersType, Known
  <2>2. history \in [created : Nat, torn : [Created -> Nat],
                     lost : SUBSET (1 .. browsers.created),
                     met : SUBSET ((0 .. browsers.created) \X Manners),
                     leaked : BOOLEAN, swallowed : BOOLEAN]
    <3>1. history \in HistoryType /\ browsers.created \in Nat
      BY DEF IInv, Types, BrowsersType
    <3>2. history.torn \in [Created -> Nat]
      <4>1. history.torn \in Seq(Nat) /\ Len(history.torn) = history.created
        BY <3>1 DEF IInv, Torn, HistoryType
      <4> QED BY <4>1 DEF Created
    <3>3. history.lost \subseteq 1 .. browsers.created /\ history.met \subseteq (0 .. browsers.created) \X Manners
      BY <3>1 DEF IInv, LInv, Known, Suspects
    <3> QED BY <3>1, <3>2, <3>3 DEF HistoryType
  <2>3. state \in [id : Created, browser : 0 .. browsers.created,
                   append_to_existing_wpr : BOOLEAN] \cup {NoState}
    <3>1. CASE state = NoState
      BY <3>1
    <3>2. CASE state # NoState
      <4>1. state \in StateType /\ state.id \in Created
        BY <3>2, StateCases DEF IInv, Torn, Types, StateType, HistoryType, Created
      <4>2. state.browser \in 0 .. browsers.created
        BY <3>2 DEF IInv, Suspects
      <4> QED BY <4>1, <4>2 DEF StateType
    <3> QED BY <3>1, <3>2
  <2>4. /\ stories \in PageSets /\ options \in OptionSets
        /\ pc \in Places /\ raised \in {"none", "error", "fatal", "interrupt", "too_many_failures"}
        /\ at \in [round : 1 .. options.pageset_repeat, story : 1 .. Len(stories),
                   page : 1 .. options.page_repeat]
        /\ expectation \in Expectations \cup {"none"} /\ faults \in 0 .. MaxFaults
    BY DEF LInv, Position
  <2>5. replay \in ReplayType /\ FiledTypes /\ recorded \subseteq 1 .. Len(stories)
    BY DEF LInv, Serving
  <2> QED BY <2>1, <2>2, <2>3, <2>4, <2>5 DEF TypeOK, Places, ReplayType, FiledTypes
<1> QED BY <1>1, LoopsInvariance, PTL

\* A story that ends with an exception the runner cannot go on after is the
\* last one run: user_story_runner.py:98-102 raises it again, and no clause of
\* Run catches it.
THEOREM StopsOnUnexpectedHolds == Spec => []StopsOnUnexpected
<1>1. LInv => StopsOnUnexpected
  BY DEF LInv, Stopping, StopsOnUnexpected, Fatal
<1> QED BY <1>1, LoopsInvariance, PTL

\* While a story with an archive runs, the replay server serves that archive
\* in the mode asked for: UpdateReplay starts it, or leaves it alone because
\* it serves it already.
THEOREM ReplayServesPageHolds == Spec => []ReplayServesPage
<1>1. LInv => ReplayServesPage
  BY DEF LInv, Serving, Wanted, Fits, ReplayServesPage
<1> QED BY <1>1, LoopsInvariance, PTL

\* When Run is over and no teardown raised, no browser is left alive, and if
\* none was lost, replay is stopped and the performance mode off: closing the
\* one browser the state holds does all that.
THEOREM DeviceLeftAsFoundHolds == Spec => []DeviceLeftAsFound
<1>1. IInv /\ LInv => DeviceLeftAsFound
  <2> SUFFICES ASSUME IInv, LInv, pc = "done", ~history.leaked
               PROVE  /\ browsers.alive = {}
                      /\ history.lost = {} =>
                           /\ replay.server = NoArgs /\ ~replay.forwarder
                           /\ browsers.running = {} /\ ~browsers.perf
    BY DEF DeviceLeftAsFound
  <2>1. ~BrowserHeld
    BY DEF IInv, Held, BrowserHeld
  <2> QED BY <2>1 DEF LInv, Device, Clear
<1> QED BY <1>1, LoopsInvariance, PTL

\* A run that ends without an exception has filed every repetition of every
\* story, group by group, but for the one a swallowed exception kept from
\* being filed.
THEOREM EveryRunReportedHolds == Spec => []EveryRunReported
<1>1. LInv => EveryRunReported
  <2> SUFFICES ASSUME LInv PROVE EveryRunReported
    OBVIOUS
  <2>1. ASSUME pc = "done", raised = "none", NEW i \in 1 .. Len(stories)
        PROVE  \/ RunsOf(i) = options.pageset_repeat * options.page_repeat
               \/ /\ history.swallowed /\ results.current # NoRun /\ results.current.story = i
                  /\ RunsOf(i) = options.pageset_repeat * options.page_repeat - 1
    <3>1. /\ RunsOf(i) + Unfiled(i) = Planned /\ RunsOf(i) \in Nat
          /\ results.current # NoRun => history.swallowed
      BY <2>1, RunsOfIsNat DEF LInv, Counted
    <3>2. CASE Unfiled(i) = 0
      BY <3>1, <3>2 DEF Planned
    <3>3. CASE Unfiled(i) # 0
      <4>1. Unfiled(i) = 1 /\ results.current # NoRun /\ results.current.story = i
        BY <3>3 DEF Unfiled
      <4>2. RunsOf(i) = Planned - 1
        BY <3>1, <4>1
      <4> QED BY <3>1, <4>1, <4>2 DEF Planned
    <3> QED BY <3>2, <3>3
  <2>2. \A k, l \in DOMAIN results.runs :
           k < l => \/ results.runs[k].story <= results.runs[l].story
                    \/ SameGroup(results.runs[l].story, results.runs[k].story)
    BY DEF LInv, Ordered
  <2> QED BY <2>1, <2>2 DEF EveryRunReported
<1> QED BY <1>1, LoopsInvariance, PTL
=============================================================================
