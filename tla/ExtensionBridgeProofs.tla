----------------------- MODULE ExtensionBridgeProofs -----------------------
(***************************************************************************)
(* Proofs about ExtensionBridge, for every set of objects, forms and routes*)
(* and every bound; the last section proves that it implements RemoteCalls.*)
(***************************************************************************)
EXTENDS BridgeRefinement, TLAPS

\* The records that carry a call on its way are about calls that were made.
CarriersKnown ==
    /\ \A i \in 1 .. Len(to_native) : to_native[i].call \in 1 .. Len(calls)
    /\ \A i \in 1 .. Len(to_js) : to_js[i].call \in 1 .. Len(calls)
    /\ \A i \in 1 .. Len(tasks) : tasks[i].call \in 1 .. Len(calls)
    /\ \A i \in infos : i.call \in 1 .. Len(calls)
    /\ \A i \in CallbackIds : callback_listeners[i] \in 0 .. Len(calls)

\* The counters and flags go together, and no call is of a page to come.
CountersAgree ==
    /\ callback_id \leq Len(calls)
    /\ xw_instance_ => handler
    /\ handler => page # 0
    /\ \A c \in 1 .. Len(calls) :
          /\ calls[c].page \leq page
          /\ calls[c].route \in {"construct", "collected"} => calls[c].obj \in Objects

\* The channels belong to the open page.
ChannelsOfOpenPage ==
    /\ ~xw_instance_ => to_js = <<>> /\ to_native = <<>> /\ waiting = NoCall
    /\ \A i \in 1 .. Len(to_native) : calls[to_native[i].call].page = page
    /\ \A i \in 1 .. Len(to_js) : calls[to_js[i].call].page = page

\* A call is taken from the channel once, and a sync call has one carrier.
CarriedOnce ==
    /\ \A i, j \in 1 .. Len(to_native) :
          to_native[i].call = to_native[j].call => i = j
    /\ \A i \in 1 .. Len(to_native) :
          /\ \A k \in infos : k.call # to_native[i].call
          /\ \A j \in 1 .. Len(tasks) : tasks[j].call # to_native[i].call
    /\ \A k, l \in infos : k.call = l.call => k = l
    /\ \A j \in 1 .. Len(tasks) :
          calls[tasks[j].call].form = "sync" =>
             /\ \A k \in infos : k.call # tasks[j].call
             /\ \A i \in 1 .. Len(tasks) : tasks[i].call = tasks[j].call => i = j

\* The script waits for the sync call of its page that is on its way.
BlocksScript(c) == calls[c].form = "sync" /\ calls[c].page = page /\ xw_instance_
SyncBlocks ==
    /\ \A i \in 1 .. Len(to_native) :
          BlocksScript(to_native[i].call) => waiting = to_native[i].call
    /\ \A k \in infos : BlocksScript(k.call) => waiting = k.call
    /\ \A i \in 1 .. Len(tasks) :
          BlocksScript(tasks[i].call) => waiting = tasks[i].call

IInv ==
    /\ TypeOK
    /\ CarriersKnown
    /\ CountersAgree
    /\ ChannelsOfOpenPage
    /\ CarriedOnce
    /\ SyncBlocks

\* A callback identifier on its way was handed out on the open page, and names
\* the callback of the call it came with, or no callback any more.
OwnCallback(m) ==
    m.cb # NoCallback /\ calls[m.call].page = page /\ xw_instance_ =>
        /\ m.cb < callback_id
        /\ callback_listeners[m.cb] \in {NoCall, m.call}

CallbacksOwned ==
    /\ \A i \in 1 .. Len(to_native) : OwnCallback(to_native[i])
    /\ \A i \in 1 .. Len(to_js) : OwnCallback(to_js[i])
    /\ \A i \in 1 .. Len(tasks) : OwnCallback(tasks[i])
    /\ \A k \in infos : OwnCallback(k)
-----------------------------------------------------------------------------
(* IInv is inductive: one lemma per handler. *)

\* What a queue holds after a message is put behind it, and after the oldest
\* one is taken.
LEMMA AppendFacts ==
    ASSUME NEW S, NEW s \in Seq(S), NEW x \in S
    PROVE  /\ Append(s, x) \in Seq(S)
           /\ Len(Append(s, x)) = Len(s) + 1
           /\ \A j \in 1 .. Len(Append(s, x)) :
                 \/ j \in 1 .. Len(s) /\ Append(s, x)[j] = s[j]
                 \/ j = Len(s) + 1 /\ Append(s, x)[j] = x
           /\ \A j \in 1 .. Len(s) : j \in 1 .. Len(Append(s, x)) /\ Append(s, x)[j] = s[j]
  OBVIOUS

LEMMA TailFacts ==
    ASSUME NEW S, NEW s \in Seq(S), s # <<>>
    PROVE  /\ Tail(s) \in Seq(S)
           /\ 1 \in 1 .. Len(s) /\ Head(s) = s[1] /\ Head(s) \in S
           /\ Len(Tail(s)) = Len(s) - 1
           /\ \A j \in 1 .. Len(Tail(s)) :
                 j + 1 \in 1 .. Len(s) /\ Tail(s)[j] = s[j + 1] /\ j + 1 # 1
           /\ \A j \in 1 .. Len(s) :
                 j # 1 => j - 1 \in 1 .. Len(Tail(s)) /\ Tail(s)[j - 1] = s[j]
  OBVIOUS

USE BoundsAssumption, FormsAssumption, ObjectsAssumption
    DEF Calls, CallbackIds, NoCall, NoCallback

\* A fresh process: nothing is carried, nobody waits.
LEMMA InitInv == Init => IInv
  <1> SUFFICES ASSUME Init
               PROVE  IInv
    OBVIOUS
  <1>1. /\ to_native = <<>> /\ to_js = <<>> /\ tasks = <<>> /\ infos = {}
        /\ calls = <<>> /\ page = 0 /\ waiting = NoCall /\ callback_id = 0
        /\ xw_instance_ = FALSE /\ handler = FALSE
        /\ callback_listeners = [i \in CallbackIds |-> NoCall]
    BY DEF Init
  <1>2. TypeOK
    <2>1. /\ callback_id \in 0 .. MaxCalls
          /\ callback_listeners \in [CallbackIds -> Calls \cup {NoCall}]
          /\ js_objects \in [Objects -> {"none", "alive", "collected"}]
          /\ settlements \in [Calls -> Nat]
      BY DEF Init
    <2>2. /\ to_native \in Seq(Message) /\ to_js \in Seq([call : Calls, cb : CallbackIds])
          /\ tasks \in Seq(Result) /\ calls \in Seq(Call)
          /\ Len(calls) \leq MaxCalls
      BY <1>1
    <2>3. /\ waiting \in Calls \cup {NoCall} /\ page \in 0 .. MaxPages
          /\ infos \subseteq Message
      BY <1>1
    <2>6. xw_instance_ \in BOOLEAN /\ handler \in BOOLEAN
      BY <1>1
    <2>5. \A i \in CallbackIds : callback_listeners[i] # NoCall => i < callback_id
      BY <1>1
    <2>4. /\ objects_ \subseteq Objects /\ crashed \in BOOLEAN /\ refused \subseteq Calls
          /\ answered \subseteq Calls \X {"list", "value"}
          /\ received \subseteq Calls \X Calls
          /\ posts \in 0 .. MaxPosts
      BY DEF Init
    <2> QED
      BY <2>1, <2>2, <2>3, <2>4, <2>5, <2>6 DEF TypeOK
  <1>3. CarriersKnown
    BY <1>1 DEF CarriersKnown
  <1>4. CountersAgree
    BY <1>1 DEF CountersAgree
  <1>5. ChannelsOfOpenPage
    BY <1>1 DEF ChannelsOfOpenPage
  <1>6. CarriedOnce
    BY <1>1 DEF CarriedOnce
  <1>7. SyncBlocks
    BY <1>1 DEF SyncBlocks
  <1> QED
    BY <1>2, <1>3, <1>4, <1>5, <1>6, <1>7 DEF IInv

\* Every function of common_api.js that posts a message.
LEMMA SendInv ==
    ASSUME IInv, CanCall,
           NEW o \in Objects \cup {NoObject}, NEW form \in AllForms,
           NEW by \in {"owner", "proxy"},
           NEW route \in AllRoutes \cup {"construct", "collected"},
           route \in {"construct", "collected"} => o \in Objects,
           Send(o, form, by, route),
           js_objects' \in [Objects -> {"none", "alive", "collected"}]
    PROVE  IInv'
  <1> DEFINE c == Len(calls) + 1
             r == [obj |-> o, form |-> form, by |-> by, route |-> route, page |-> page]
             m == [call |-> c, cb |-> WireCallback(form)]
  <1>1. calls \in Seq(Call) /\ to_native \in Seq(Message)
    BY DEF IInv, TypeOK
  <1>2. Len(calls) \in Nat /\ Len(to_native) \in Nat
    BY <1>1
  <1>3. Len(calls) < MaxCalls /\ xw_instance_ /\ waiting = NoCall
    BY DEF CanCall, ScriptRuns
  <1>4. page \in 1 .. MaxPages
    BY <1>3 DEF IInv, TypeOK, CountersAgree
  <1>5. callback_id \in Nat /\ callback_id \leq Len(calls)
    BY DEF IInv, TypeOK, CountersAgree
  <1>6. m \in Message /\ r \in Call
    BY <1>2, <1>3, <1>4, <1>5 DEF Message, Call, WireCallback
  <1>7. c = Len(calls) + 1 /\ m.call = c
    OBVIOUS
  <1>8. r.form = form /\ r.page = page /\ r.route = route /\ r.obj = o
    OBVIOUS
  <1>9. calls' = Append(calls, r) /\ to_native' = Append(to_native, m)
    BY DEF Send
  <1>10. waiting' = IF form = "sync" THEN c ELSE waiting
    BY DEF Send
  <1>11. UNCHANGED <<to_js, page, xw_instance_, handler, objects_, infos, tasks,
                     crashed, refused, answered, received, settlements, posts>>
    BY DEF Send, native
  <1>12. /\ callback_id' \in 0 .. MaxCalls
         /\ callback_id' \leq c
         /\ callback_listeners' \in [CallbackIds -> Calls \cup {NoCall}]
         /\ \A i \in CallbackIds : callback_listeners'[i] # NoCall => i < callback_id'
         /\ \A i \in CallbackIds : callback_listeners'[i] \in {callback_listeners[i], c}
    <2>1. /\ callback_listeners \in [CallbackIds -> Calls \cup {NoCall}]
          /\ \A i \in CallbackIds : callback_listeners[i] # NoCall => i < callback_id
      BY DEF IInv, TypeOK
    <2>2. CASE form \in CallbackForms
      <3>1. /\ callback_listeners' = [callback_listeners EXCEPT ![callback_id] = c]
            /\ callback_id' = callback_id + 1
        BY <2>2 DEF Send, NextCallbackId
      <3> HIDE DEF c
      <3> QED
        BY <1>2, <1>3, <1>5, <1>7, <2>1, <3>1
    <2>3. CASE form \notin CallbackForms
      <3>1. UNCHANGED <<callback_listeners, callback_id>>
        BY <2>3 DEF Send
      <3> QED
        BY <1>2, <1>3, <1>5, <2>1, <3>1
    <2> QED
      BY <2>2, <2>3
  <1> HIDE DEF c, m, r
  <1>13. calls' \in Seq(Call) /\ Len(calls') = c
    BY <1>1, <1>6, <1>7, <1>9
  <1>14. calls'[c] = r /\ \A d \in 1 .. Len(calls) : calls'[d] = calls[d]
    BY <1>1, <1>6, <1>7, <1>9
  <1>15. to_native' \in Seq(Message)
    BY <1>1, <1>6, <1>9
  <1>16. \A i \in 1 .. Len(to_native') :
           \/ i \in 1 .. Len(to_native) /\ to_native'[i] = to_native[i]
           \/ i = Len(to_native) + 1 /\ to_native'[i] = m
    BY <1>1, <1>6, <1>9
  <1>17. CarriersKnown /\ CarriedOnce /\ SyncBlocks /\ ChannelsOfOpenPage /\ CountersAgree
    BY DEF IInv
  <1>18. TypeOK'
    <2>1. TypeOK
      BY DEF IInv
    <2>2. waiting' \in Calls \cup {NoCall}
      BY <1>2, <1>3, <1>7, <1>10
    <2>3. Len(calls') \leq MaxCalls
      BY <1>2, <1>3, <1>7, <1>13
    <2>4. /\ to_js' \in Seq([call : Calls, cb : CallbackIds])
          /\ page' \in 0 .. MaxPages
          /\ xw_instance_' \in BOOLEAN
          /\ handler' \in BOOLEAN
          /\ objects_' \subseteq Objects
          /\ infos' \subseteq Message
          /\ tasks' \in Seq(Result)
          /\ crashed' \in BOOLEAN
          /\ refused' \subseteq Calls
          /\ answered' \subseteq Calls \X {"list", "value"}
          /\ received' \subseteq Calls \X Calls
          /\ settlements' \in [Calls -> Nat]
          /\ posts' \in 0 .. MaxPosts
      BY <1>11, <2>1 DEF TypeOK
    <2> QED
      BY <1>12, <1>13, <1>15, <2>2, <2>3, <2>4 DEF TypeOK
  <1>19. CarriersKnown'
    <2>1. \A i \in 1 .. Len(to_native') : to_native'[i].call \in 1 .. Len(calls')
      BY <1>2, <1>7, <1>13, <1>16, <1>17 DEF CarriersKnown
    <2>2. \A i \in CallbackIds : callback_listeners'[i] \in 0 .. Len(calls')
      <3>1. \A i \in CallbackIds : callback_listeners[i] \in 0 .. Len(calls)
        BY <1>17 DEF CarriersKnown
      <3>2. \A i \in CallbackIds : callback_listeners'[i] \in {callback_listeners[i], c}
        BY <1>12
      <3> QED
        BY <1>2, <1>7, <1>13, <3>1, <3>2
    <2>3. \A d \in 1 .. Len(calls) : d \in 1 .. Len(calls')
      BY <1>2, <1>7, <1>13
    <2> QED
      BY <1>11, <1>17, <2>1, <2>2, <2>3 DEF CarriersKnown
  <1>20. CountersAgree'
    <2>1. \A d \in 1 .. Len(calls') :
             /\ calls'[d].page \leq page'
             /\ calls'[d].route \in {"construct", "collected"} => calls'[d].obj \in Objects
      BY <1>2, <1>4, <1>7, <1>8, <1>11, <1>13, <1>14, <1>17 DEF CountersAgree
    <2> QED
      BY <1>11, <1>12, <1>13, <1>17, <2>1 DEF CountersAgree
  <1>21. ChannelsOfOpenPage'
    <2>1. \A i \in 1 .. Len(to_native') : calls'[to_native'[i].call].page = page
      BY <1>7, <1>8, <1>14, <1>16, <1>17 DEF CarriersKnown, ChannelsOfOpenPage
    <2>2. \A i \in 1 .. Len(to_js) : calls'[to_js[i].call].page = page
      BY <1>14, <1>17 DEF CarriersKnown, ChannelsOfOpenPage
    <2> QED
      BY <1>3, <1>11, <2>1, <2>2 DEF ChannelsOfOpenPage
  <1>22. CarriedOnce'
    <2>1. \A i, j \in 1 .. Len(to_native') :
            to_native'[i].call = to_native'[j].call => i = j
      <3>1. \A i \in 1 .. Len(to_native) : to_native[i].call # m.call
        BY <1>2, <1>7, <1>17 DEF CarriersKnown
      <3>2. \A i, j \in 1 .. Len(to_native) :
              to_native[i].call = to_native[j].call => i = j
        BY <1>17 DEF CarriedOnce
      <3> QED
        BY <1>16, <3>1, <3>2
    <2>2. \A i \in 1 .. Len(to_native') :
            /\ \A k \in infos : k.call # to_native'[i].call
            /\ \A j \in 1 .. Len(tasks) : tasks[j].call # to_native'[i].call
      BY <1>2, <1>7, <1>16, <1>17 DEF CarriersKnown, CarriedOnce
    <2>3. \A j \in 1 .. Len(tasks) : calls'[tasks[j].call] = calls[tasks[j].call]
      BY <1>14, <1>17 DEF CarriersKnown
    <2> QED
      BY <1>11, <1>17, <2>1, <2>2, <2>3 DEF CarriedOnce
  <1>23. SyncBlocks'
    <2>1. \A d \in 1 .. Len(calls) : BlocksScript(d)' <=> BlocksScript(d)
      BY <1>11, <1>14 DEF BlocksScript
    <2>2. \A d \in 1 .. Len(calls) : d # waiting
      BY <1>2, <1>3
    <2>3. calls'[c].form = "sync" => waiting' = c
      BY <1>8, <1>10, <1>14
    <2>4. \A i \in 1 .. Len(to_native') :
            BlocksScript(to_native[i].call)' => waiting' = to_native'[i].call
      <3>1. \A i \in 1 .. Len(to_native) : ~(BlocksScript(to_native[i].call))
        BY <1>17, <2>2 DEF CarriersKnown, SyncBlocks
      <3>2. \A i \in 1 .. Len(to_native) : calls'[to_native[i].call] = calls[to_native[i].call]
        BY <1>14, <1>17 DEF CarriersKnown
      <3> QED
        BY <1>7, <1>11, <1>16, <2>3, <3>1, <3>2 DEF BlocksScript
    <2>5. \A k \in infos : ~BlocksScript(k.call)'
      BY <1>17, <2>1, <2>2 DEF CarriersKnown, SyncBlocks
    <2>6. \A i \in 1 .. Len(tasks) : ~(BlocksScript(tasks[i].call)')
      BY <1>11, <1>17, <2>1, <2>2 DEF CarriersKnown, SyncBlocks
    <2> QED
      BY <1>11, <2>4, <2>5, <2>6 DEF SyncBlocks
  <1> QED
    BY <1>18, <1>19, <1>20, <1>21, <1>22, <1>23 DEF IInv

\* What is left in the channel after native code took the oldest message.
LEMMA TakenFacts ==
    ASSUME IInv, Dispatching, to_native' = Tail(to_native)
    PROVE  /\ Oldest \in Message
           /\ Oldest.call \in 1 .. Len(calls)
           /\ calls[Oldest.call].page = page
           /\ \E i \in 1 .. Len(to_native) : Oldest = to_native[i]
           /\ to_native' \in Seq(Message)
           /\ \A i \in 1 .. Len(to_native') :
                 /\ i + 1 \in 1 .. Len(to_native)
                 /\ to_native'[i] = to_native[i + 1]
                 /\ to_native'[i].call # Oldest.call
           /\ \A k \in infos : k.call # Oldest.call
           /\ \A j \in 1 .. Len(tasks) : tasks[j].call # Oldest.call
  <1>1. to_native \in Seq(Message) /\ to_native # <<>>
    BY DEF IInv, TypeOK, Dispatching
  <1>2. /\ Oldest = to_native[1]
        /\ 1 \in 1 .. Len(to_native)
        /\ Oldest \in Message
        /\ to_native' \in Seq(Message)
    BY <1>1 DEF Oldest
  <1>3. \A i \in 1 .. Len(to_native') :
          /\ i + 1 \in 1 .. Len(to_native)
          /\ to_native'[i] = to_native[i + 1]
          /\ i + 1 # 1
    BY <1>1
  <1>4. /\ Oldest.call \in 1 .. Len(calls)
        /\ calls[Oldest.call].page = page
    BY <1>2 DEF IInv, CarriersKnown, ChannelsOfOpenPage
  <1>5. CarriedOnce
    BY DEF IInv
  <1>6. \A i \in 1 .. Len(to_native') : to_native'[i].call # Oldest.call
    BY <1>2, <1>3, <1>5 DEF CarriedOnce
  <1> QED
    BY <1>2, <1>3, <1>4, <1>5, <1>6 DEF CarriedOnce

\* The handlers of the native side, each of which takes the oldest message.
LEMMA TakenInv ==
    ASSUME IInv, Dispatching, to_native' = Tail(to_native),
           UNCHANGED <<callback_id, callback_listeners, js_objects, to_js, page,
                       xw_instance_, handler, tasks, crashed, calls, answered,
                       received, settlements, posts>>,
           objects_' \subseteq Objects,
           refused' \subseteq Calls,
           \/ infos' = infos \cup {Oldest} /\ waiting' = waiting
           \/ infos' = infos /\ waiting' = waiting
           \/ infos' = infos /\ waiting' = NoCall /\ Asked.form = "sync"
    PROVE  IInv'
  <1>1. Oldest \in Message /\ to_native' \in Seq(Message)
    BY TakenFacts
  <1>2. Oldest.call \in 1 .. Len(calls)
    BY TakenFacts
  <1>3. calls[Oldest.call].page = page /\ xw_instance_
    BY TakenFacts DEF Dispatching
  <1>4. \E i \in 1 .. Len(to_native) : Oldest = to_native[i]
    BY TakenFacts
  <1>5. \A i \in 1 .. Len(to_native') :
          i + 1 \in 1 .. Len(to_native) /\ to_native'[i] = to_native[i + 1]
    BY TakenFacts
  <1>6. \A i \in 1 .. Len(to_native') : to_native'[i].call # Oldest.call
    BY TakenFacts
  <1>7. /\ \A k \in infos : k.call # Oldest.call
        /\ \A j \in 1 .. Len(tasks) : tasks[j].call # Oldest.call
    BY TakenFacts
  <1>8. infos' \subseteq infos \cup {Oldest}
    OBVIOUS
  <1>9. CarriersKnown /\ CarriedOnce /\ SyncBlocks /\ ChannelsOfOpenPage /\ CountersAgree
    BY DEF IInv
  <1>10. TypeOK'
    BY <1>1, <1>8 DEF IInv, TypeOK
  <1>11. CarriersKnown'
    <2>1. \A i \in 1 .. Len(to_native') : to_native'[i].call \in 1 .. Len(calls)
      BY <1>5, <1>9 DEF CarriersKnown
    <2>2. \A k \in infos' : k.call \in 1 .. Len(calls)
      BY <1>2, <1>8, <1>9 DEF CarriersKnown
    <2> QED
      BY <1>9, <2>1, <2>2 DEF CarriersKnown
  <1>12. CountersAgree'
    BY <1>9 DEF CountersAgree
  <1>13. ChannelsOfOpenPage'
    <2>1. \A i \in 1 .. Len(to_native') : calls[to_native'[i].call].page = page
      BY <1>5, <1>9 DEF ChannelsOfOpenPage
    <2> QED
      BY <1>3, <1>9, <2>1 DEF ChannelsOfOpenPage
  <1>14. CarriedOnce'
    <2>1. \A i, j \in 1 .. Len(to_native') :
            to_native'[i].call = to_native'[j].call => i = j
      <3> SUFFICES ASSUME NEW i \in 1 .. Len(to_native'), NEW j \in 1 .. Len(to_native'),
                          to_native'[i].call = to_native'[j].call
                   PROVE  i = j
        OBVIOUS
      <3>1. i + 1 = j + 1
        BY <1>5, <1>9 DEF CarriedOnce
      <3> QED
        BY <3>1
    <2>2. \A i \in 1 .. Len(to_native') :
            /\ \A k \in infos' : k.call # to_native'[i].call
            /\ \A j \in 1 .. Len(tasks) : tasks[j].call # to_native'[i].call
      BY <1>5, <1>6, <1>8, <1>9 DEF CarriedOnce
    <2>3. \A k, l \in infos' : k.call = l.call => k = l
      BY <1>7, <1>8, <1>9 DEF CarriedOnce
    <2>4. \A j \in 1 .. Len(tasks) :
            calls[tasks[j].call].form = "sync" =>
               /\ \A k \in infos' : k.call # tasks[j].call
               /\ \A i \in 1 .. Len(tasks) : tasks[i].call = tasks[j].call => i = j
      BY <1>7, <1>8, <1>9 DEF CarriedOnce
    <2> QED
      BY <2>1, <2>2, <2>3, <2>4 DEF CarriedOnce
  <1>15. SyncBlocks'
    <2>1. \A d : BlocksScript(d)' <=> BlocksScript(d)
      BY DEF BlocksScript
    <2>2. CASE waiting' = waiting
      <3>1. \A i \in 1 .. Len(to_native') :
              BlocksScript(to_native'[i].call) => waiting = to_native'[i].call
        BY <1>5, <1>9 DEF SyncBlocks
      <3>2. \A k \in infos' : BlocksScript(k.call) => waiting = k.call
        BY <1>4, <1>8, <1>9 DEF SyncBlocks
      <3> QED
        BY <1>9, <2>1, <2>2, <3>1, <3>2 DEF SyncBlocks
    <2>3. CASE infos' = infos /\ waiting' = NoCall /\ Asked.form = "sync"
      <3>1. waiting = Oldest.call
        BY <1>3, <1>4, <1>9, <2>3 DEF SyncBlocks, BlocksScript, Asked
      <3>2. \A i \in 1 .. Len(to_native') : ~BlocksScript(to_native'[i].call)
        BY <1>5, <1>6, <1>9, <3>1 DEF SyncBlocks
      <3>3. \A k \in infos' : ~BlocksScript(k.call)
        BY <1>7, <1>9, <2>3, <3>1 DEF SyncBlocks
      <3>4. \A j \in 1 .. Len(tasks) : ~BlocksScript(tasks[j].call)
        BY <1>7, <1>9, <3>1 DEF SyncBlocks
      <3> QED
        BY <2>1, <3>2, <3>3, <3>4 DEF SyncBlocks
    <2> QED
      BY <2>2, <2>3
  <1> QED
    BY <1>10, <1>11, <1>12, <1>13, <1>14, <1>15 DEF IInv

\* A result that arrives on the client's thread, posted there or by a task.
LEMMA DispatchInv ==
    ASSUME IInv, NEW r \in Result, DispatchResult(r),
           r.call \in 1 .. Len(calls),
           BlocksScript(r.call) => waiting = r.call,
           calls[r.call].form = "sync" =>
              /\ \A k \in infos' : k.call # r.call
              /\ \A j \in 1 .. Len(tasks') : tasks'[j].call # r.call
              /\ \A j \in 1 .. Len(to_native) : to_native[j].call # r.call,
           infos' \subseteq infos,
           tasks' \in Seq(Result),
           NEW d \in {0, 1},
           \A j \in 1 .. Len(tasks') :
              j + d \in 1 .. Len(tasks) /\ tasks'[j] = tasks[j + d],
           UNCHANGED <<callback_id, callback_listeners, js_objects, to_native, page,
                       xw_instance_, handler, objects_, calls, refused, settlements>>,
           answered' \subseteq Calls \X {"list", "value"},
           posts' \in 0 .. MaxPosts
    PROVE  IInv' /\ received' \subseteq received \cup {<<r.call, r.call>>}
  <1>1. CarriersKnown /\ CarriedOnce /\ SyncBlocks /\ ChannelsOfOpenPage /\ CountersAgree
    BY DEF IInv
  <1>2. r.call \in Calls /\ r.cb \in CallbackIds \cup {NoCallback}
    BY DEF Result
  <1>3. to_js \in Seq([call : Calls, cb : CallbackIds]) /\ Len(to_js) \in Nat
    BY DEF IInv, TypeOK
  <1>4. /\ crashed' \in BOOLEAN
        /\ \/ waiting' = waiting /\ received' = received
           \/ /\ calls[r.call].form = "sync"
              /\ waiting = r.call
              /\ waiting' = NoCall
              /\ received' = received \cup {<<r.call, r.call>>}
    <2>1. crashed \in BOOLEAN /\ handler \in BOOLEAN
      BY DEF IInv, TypeOK
    <2>2. CASE calls[r.call].form = "sync"
      BY <2>1, <2>2 DEF DispatchResult, HandlerValid, CanPost, BlocksScript
    <2>3. CASE calls[r.call].form # "sync"
      BY <2>1, <2>3 DEF DispatchResult
    <2> QED
      BY <2>2, <2>3
  <1>5. /\ to_js' \in Seq([call : Calls, cb : CallbackIds])
        /\ \A j \in 1 .. Len(to_js') : calls[to_js'[j].call].page = page
        /\ \A j \in 1 .. Len(to_js') : to_js'[j].call \in 1 .. Len(calls)
        /\ ~xw_instance_ => to_js' = to_js
    <2>1. /\ \A j \in 1 .. Len(to_js) : calls[to_js[j].call].page = page
          /\ \A j \in 1 .. Len(to_js) : to_js[j].call \in 1 .. Len(calls)
      BY <1>1 DEF ChannelsOfOpenPage, CarriersKnown
    <2>2. CASE to_js' = to_js
      BY <1>3, <2>1, <2>2
    <2>3. CASE to_js' # to_js
      <3> DEFINE m == [call |-> r.call, cb |-> r.cb]
      <3>1. /\ to_js' = Append(to_js, m)
            /\ r.cb # NoCallback
            /\ calls[r.call].page = page
            /\ xw_instance_
        BY <2>3 DEF DispatchResult, HandlerValid, CanPost
      <3>2. m \in [call : Calls, cb : CallbackIds] /\ m.call = r.call
        BY <1>2, <3>1
      <3> HIDE DEF m
      <3>3. to_js' \in Seq([call : Calls, cb : CallbackIds])
        BY <1>3, <3>1, <3>2
      <3>4. \A j \in 1 .. Len(to_js') :
              \/ j \in 1 .. Len(to_js) /\ to_js'[j] = to_js[j]
              \/ to_js'[j] = m
        <4> DEFINE S == [call : Calls, cb : CallbackIds]
        <4>1. to_js \in Seq(S) /\ m \in S
          BY <1>3, <3>2
        <4> HIDE DEF S
        <4> QED
          BY <3>1, <4>1, AppendFacts
      <3> QED
        BY <2>1, <3>1, <3>2, <3>3, <3>4
    <2> QED
      BY <2>2, <2>3
  <1>6. TypeOK'
    <2>1. received \subseteq Calls \X Calls /\ waiting \in Calls \cup {NoCall}
      BY DEF IInv, TypeOK
    <2>2. received' \subseteq Calls \X Calls /\ waiting' \in Calls \cup {NoCall}
      BY <1>2, <1>4, <2>1
    <2> QED
      BY <1>4, <1>5, <2>2 DEF IInv, TypeOK
  <1>7. CarriersKnown'
    <2>1. \A j \in 1 .. Len(tasks') : tasks'[j].call \in 1 .. Len(calls)
      BY <1>1 DEF CarriersKnown
    <2>2. \A k \in infos' : k.call \in 1 .. Len(calls)
      BY <1>1 DEF CarriersKnown
    <2> QED
      BY <1>1, <1>5, <2>1, <2>2 DEF CarriersKnown
  <1>8. CountersAgree'
    BY <1>1 DEF CountersAgree
  <1>9. ChannelsOfOpenPage'
    <2>1. waiting = NoCall => waiting' = NoCall
      BY <1>4
    <2> QED
      BY <1>1, <1>5, <2>1 DEF ChannelsOfOpenPage
  <1>10. CarriedOnce'
    <2>1. \A i \in 1 .. Len(to_native) :
            /\ \A k \in infos' : k.call # to_native[i].call
            /\ \A j \in 1 .. Len(tasks') : tasks'[j].call # to_native[i].call
      <3>1. \A i \in 1 .. Len(to_native), k \in infos' : k.call # to_native[i].call
        BY <1>1 DEF CarriedOnce
      <3>2. ASSUME NEW i \in 1 .. Len(to_native), NEW j \in 1 .. Len(tasks')
            PROVE  tasks'[j].call # to_native[i].call
        <4>1. PICK l \in 1 .. Len(tasks) : tasks'[j] = tasks[l]
          OBVIOUS
        <4>2. tasks[l].call # to_native[i].call
          BY <1>1 DEF CarriedOnce
        <4> QED
          BY <4>1, <4>2
      <3> QED
        BY <3>1, <3>2
    <2>2. \A j \in 1 .. Len(tasks') :
            calls[tasks'[j].call].form = "sync" =>
               /\ \A k \in infos' : k.call # tasks'[j].call
               /\ \A i \in 1 .. Len(tasks') : tasks'[i].call = tasks'[j].call => i = j
      <3> SUFFICES ASSUME NEW j \in 1 .. Len(tasks'),
                          calls[tasks'[j].call].form = "sync"
                   PROVE  /\ \A k \in infos' : k.call # tasks'[j].call
                          /\ \A i \in 1 .. Len(tasks') :
                                tasks'[i].call = tasks'[j].call => i = j
        OBVIOUS
      <3>0. j + d \in 1 .. Len(tasks) /\ tasks'[j] = tasks[j + d]
        OBVIOUS
      <3>1. /\ \A k \in infos : k.call # tasks'[j].call
            /\ \A i \in 1 .. Len(tasks) : tasks[i].call = tasks'[j].call => i = j + d
        BY <1>1, <3>0 DEF CarriedOnce
      <3>2. ASSUME NEW i \in 1 .. Len(tasks'), tasks'[i].call = tasks'[j].call
            PROVE  i = j
        <4>1. i + d = j + d
          BY <3>1, <3>2
        <4> QED
          BY <4>1
      <3> QED
        BY <3>1, <3>2
    <2> QED
      BY <1>1, <2>1, <2>2 DEF CarriedOnce
  <1>11. SyncBlocks'
    <2>1. \A e : BlocksScript(e)' <=> BlocksScript(e)
      BY DEF BlocksScript
    <2>2. /\ \A i \in 1 .. Len(to_native) :
               BlocksScript(to_native[i].call) => waiting = to_native[i].call
          /\ \A k \in infos' : BlocksScript(k.call) => waiting = k.call
          /\ \A j \in 1 .. Len(tasks') :
               BlocksScript(tasks'[j].call) => waiting = tasks'[j].call
      BY <1>1 DEF SyncBlocks
    <2>3. CASE waiting' = waiting
      BY <2>1, <2>2, <2>3 DEF SyncBlocks
    <2>4. CASE calls[r.call].form = "sync" /\ waiting = r.call
      BY <2>1, <2>2, <2>4 DEF SyncBlocks
    <2> QED
      BY <1>4, <2>3, <2>4
  <1> QED
    BY <1>4, <1>6, <1>7, <1>8, <1>9, <1>10, <1>11 DEF IInv

\* What posting a result leaves behind, whichever thread posts it.
LEMMA PostFacts ==
    ASSUME IInv, NEW i \in infos, NEW result \in {"list", "value"}, Post(i, result)
    PROVE  /\ i \in Message /\ i.call \in 1 .. Len(calls)
           /\ BlocksScript(i.call) => waiting = i.call
           /\ infos' \subseteq infos
           /\ calls[i.call].form = "sync" =>
                /\ \A k \in infos' : k.call # i.call
                /\ \A j \in 1 .. Len(tasks) : tasks[j].call # i.call
           /\ \A j \in 1 .. Len(to_native) : to_native[j].call # i.call
           /\ answered' \subseteq Calls \X {"list", "value"}
           /\ posts' \in 0 .. MaxPosts
           /\ UNCHANGED <<callback_id, callback_listeners, js_objects, to_native, page,
                          xw_instance_, handler, objects_, calls, refused, settlements>>
  <1>1. CarriersKnown /\ CarriedOnce /\ SyncBlocks
    BY DEF IInv
  <1>2. i \in Message /\ i.call \in Calls /\ i.call \in 1 .. Len(calls)
    BY <1>1 DEF IInv, TypeOK, CarriersKnown, Message
  <1>3. BlocksScript(i.call) => waiting = i.call
    BY <1>1 DEF SyncBlocks
  <1>4. infos' \subseteq infos
    BY DEF Post
  <1>5. \A j \in 1 .. Len(to_native) : to_native[j].call # i.call
    BY <1>1 DEF CarriedOnce
  <1>6. ASSUME calls[i.call].form = "sync"
        PROVE  /\ \A k \in infos' : k.call # i.call
               /\ \A j \in 1 .. Len(tasks) : tasks[j].call # i.call
    <2>1. infos' = infos \ {i}
      BY <1>6 DEF Post
    <2>2. \A k \in infos : k.call = i.call => k = i
      BY <1>1 DEF CarriedOnce
    <2>3. \A j \in 1 .. Len(tasks) : tasks[j].call # i.call
      BY <1>1, <1>6 DEF CarriedOnce
    <2> QED
      BY <2>1, <2>2, <2>3
  <1>7. answered' \subseteq Calls \X {"list", "value"} /\ posts' \in 0 .. MaxPosts
    BY <1>2 DEF Post, IInv, TypeOK
  <1>8. UNCHANGED <<callback_id, callback_listeners, js_objects, to_native, page,
                    xw_instance_, handler, objects_, calls, refused, settlements>>
    BY DEF Post
  <1> QED
    BY <1>2, <1>3, <1>4, <1>5, <1>6, <1>7, <1>8

\* PostResult on the client's thread: the result is dispatched at once.
LEMMA PostOnClientInv ==
    ASSUME IInv, NEW i \in infos, NEW result \in {"list", "value"},
           PostResultOnClient(i, result)
    PROVE  IInv' /\ received' \subseteq received \cup {<<i.call, i.call>>}
  <1> DEFINE r == [call |-> i.call, cb |-> i.cb, result |-> result]
  <1>1. Post(i, result) /\ DispatchResult(r) /\ tasks' = tasks
    BY DEF PostResultOnClient
  <1>2. r.call = i.call
    OBVIOUS
  <1>3. i \in Message
    BY <1>1, PostFacts
  <1>4. r \in Result
    BY <1>3 DEF Message, Result
  <1> HIDE DEF r
  <1>5. tasks \in Seq(Result)
    BY DEF IInv, TypeOK
  <1>6. \A j \in 1 .. Len(tasks) : j + 0 \in 1 .. Len(tasks) /\ tasks[j] = tasks[j + 0]
    BY <1>5
  <1> QED
    BY <1>1, <1>2, <1>4, <1>5, <1>6, PostFacts, DispatchInv

\* The client's loop dispatches the oldest result a worker posted.
LEMMA RunTaskInv ==
    ASSUME IInv, RunTask
    PROVE  /\ IInv'
           /\ \E c \in 1 .. Len(calls) : received' \subseteq received \cup {<<c, c>>}
  <1> DEFINE r == Head(tasks)
  <1>1. tasks \in Seq(Result) /\ tasks # <<>> /\ tasks' = Tail(tasks) /\ DispatchResult(r)
    BY DEF RunTask, IInv, TypeOK
  <1>2. /\ r = tasks[1]
        /\ 1 \in 1 .. Len(tasks)
        /\ r \in Result
        /\ tasks' \in Seq(Result)
        /\ \A j \in 1 .. Len(tasks') :
              j + 1 \in 1 .. Len(tasks) /\ tasks'[j] = tasks[j + 1] /\ j + 1 # 1
    BY <1>1
  <1> HIDE DEF r
  <1>3. CarriersKnown /\ CarriedOnce /\ SyncBlocks
    BY DEF IInv
  <1>4. r.call \in 1 .. Len(calls) /\ (BlocksScript(r.call) => waiting = r.call)
    BY <1>2, <1>3 DEF CarriersKnown, SyncBlocks
  <1>5. /\ infos' = infos
        /\ answered' = answered /\ posts' = posts
        /\ UNCHANGED <<callback_id, callback_listeners, js_objects, to_native, page,
                       xw_instance_, handler, objects_, calls, refused, settlements>>
    BY DEF RunTask
  <1>6. ASSUME calls[r.call].form = "sync"
        PROVE  /\ \A k \in infos' : k.call # r.call
               /\ \A j \in 1 .. Len(tasks') : tasks'[j].call # r.call
               /\ \A j \in 1 .. Len(to_native) : to_native[j].call # r.call
    <2>1. /\ \A k \in infos : k.call # tasks[1].call
          /\ \A i \in 1 .. Len(tasks) : tasks[i].call = tasks[1].call => i = 1
      BY <1>2, <1>3, <1>6 DEF CarriedOnce
    <2>2. \A j \in 1 .. Len(to_native) : tasks[1].call # to_native[j].call
      BY <1>2, <1>3 DEF CarriedOnce
    <2>3. \A j \in 1 .. Len(tasks') : tasks'[j].call # r.call
      BY <1>2, <2>1
    <2> QED
      BY <1>2, <1>5, <2>1, <2>2, <2>3
  <1>7. answered' \subseteq Calls \X {"list", "value"} /\ posts' \in 0 .. MaxPosts
    BY <1>5 DEF IInv, TypeOK
  <1>8. IInv' /\ received' \subseteq received \cup {<<r.call, r.call>>}
    BY <1>1, <1>2, <1>4, <1>5, <1>6, <1>7, DispatchInv
  <1> QED
    BY <1>4, <1>8

\* PostResult on another thread: the result joins the client's loop.
LEMMA PostOnWorkerInv ==
    ASSUME IInv, NEW i \in infos, NEW result \in {"list", "value"},
           PostResultOnWorker(i, result)
    PROVE  IInv'
  <1> DEFINE r == [call |-> i.call, cb |-> i.cb, result |-> result]
  <1>1. /\ Post(i, result)
        /\ tasks' = Append(tasks, r)
        /\ UNCHANGED <<waiting, to_js, crashed, received>>
    BY DEF PostResultOnWorker, PostTask
  <1>2. r.call = i.call
    OBVIOUS
  <1>3. i \in Message /\ i.call \in 1 .. Len(calls) /\ (BlocksScript(i.call) => waiting = i.call)
    BY <1>1, PostFacts
  <1>4. r \in Result
    BY <1>3 DEF Message, Result
  <1> HIDE DEF r
  <1>5. tasks \in Seq(Result) /\ Len(tasks) \in Nat
    BY DEF IInv, TypeOK
  <1>6. /\ tasks' \in Seq(Result)
        /\ \A j \in 1 .. Len(tasks') :
              \/ j \in 1 .. Len(tasks) /\ tasks'[j] = tasks[j]
              \/ j = Len(tasks) + 1 /\ tasks'[j] = r
    BY <1>1, <1>4, <1>5
  <1>7. infos' \subseteq infos
    BY <1>1, PostFacts
  <1>8. calls[i.call].form = "sync" =>
          /\ \A k \in infos' : k.call # i.call
          /\ \A j \in 1 .. Len(tasks) : tasks[j].call # i.call
    BY <1>1, PostFacts
  <1>9. \A j \in 1 .. Len(to_native) : to_native[j].call # i.call
    BY <1>1, PostFacts
  <1>10. /\ answered' \subseteq Calls \X {"list", "value"}
         /\ posts' \in 0 .. MaxPosts
         /\ UNCHANGED <<callback_id, callback_listeners, js_objects, to_native, page,
                        xw_instance_, handler, objects_, calls, refused, settlements>>
    BY <1>1, PostFacts
  <1>11. CarriersKnown /\ CarriedOnce /\ SyncBlocks /\ ChannelsOfOpenPage /\ CountersAgree
    BY DEF IInv
  <1>12. TypeOK'
    BY <1>1, <1>6, <1>7, <1>10 DEF IInv, TypeOK
  <1>13. CarriersKnown'
    <2>1. \A j \in 1 .. Len(tasks') : tasks'[j].call \in 1 .. Len(calls)
      BY <1>2, <1>3, <1>6, <1>11 DEF CarriersKnown
    <2> QED
      BY <1>1, <1>7, <1>10, <1>11, <2>1 DEF CarriersKnown
  <1>14. CountersAgree'
    BY <1>10, <1>11 DEF CountersAgree
  <1>15. ChannelsOfOpenPage'
    BY <1>1, <1>10, <1>11 DEF ChannelsOfOpenPage
  <1>16. CarriedOnce'
    <2>1. \A j \in 1 .. Len(to_native) :
            /\ \A k \in infos' : k.call # to_native[j].call
            /\ \A l \in 1 .. Len(tasks') : tasks'[l].call # to_native[j].call
      BY <1>2, <1>6, <1>7, <1>9, <1>11 DEF CarriedOnce
    <2>2. \A j \in 1 .. Len(tasks') :
            calls[tasks'[j].call].form = "sync" =>
               /\ \A k \in infos' : k.call # tasks'[j].call
               /\ \A l \in 1 .. Len(tasks') : tasks'[l].call = tasks'[j].call => l = j
      <3> SUFFICES ASSUME NEW j \in 1 .. Len(tasks'),
                          calls[tasks'[j].call].form = "sync"
                   PROVE  /\ \A k \in infos' : k.call # tasks'[j].call
                          /\ \A l \in 1 .. Len(tasks') :
                                tasks'[l].call = tasks'[j].call => l = j
        OBVIOUS
      <3>1. CASE j \in 1 .. Len(tasks) /\ tasks'[j] = tasks[j]
        <4>1. /\ \A k \in infos : k.call # tasks'[j].call
              /\ \A l \in 1 .. Len(tasks) : tasks[l].call = tasks'[j].call => l = j
          BY <1>11, <3>1 DEF CarriedOnce
        <4>2. tasks'[j].call # r.call
          BY <1>2, <1>8, <3>1
        <4> QED
          BY <1>6, <1>7, <4>1, <4>2
      <3>2. CASE j = Len(tasks) + 1 /\ tasks'[j] = r
        <4>1. /\ \A k \in infos' : k.call # r.call
              /\ \A l \in 1 .. Len(tasks) : tasks[l].call # r.call
          BY <1>2, <1>8, <3>2
        <4> QED
          BY <1>6, <3>2, <4>1
      <3> QED
        BY <1>6, <3>1, <3>2
    <2> QED
      BY <1>7, <1>10, <1>11, <2>1, <2>2 DEF CarriedOnce
  <1>17. SyncBlocks'
    <2>1. \A e : BlocksScript(e)' <=> BlocksScript(e)
      BY <1>10 DEF BlocksScript
    <2>2. \A j \in 1 .. Len(tasks') :
            BlocksScript(tasks'[j].call) => waiting = tasks'[j].call
      BY <1>2, <1>3, <1>6, <1>11 DEF SyncBlocks
    <2> QED
      BY <1>1, <1>7, <1>10, <1>11, <2>1, <2>2 DEF SyncBlocks
  <1> QED
    BY <1>12, <1>13, <1>14, <1>15, <1>16, <1>17 DEF IInv

\* The message listener of the page.
LEMMA ReceiveInv ==
    ASSUME IInv, NEW outcome \in {"done", "keep", "throw"}, Receive(outcome)
    PROVE  IInv'
  <1> DEFINE m == Head(to_js)
             c == callback_listeners[m.cb]
  <1>1. /\ to_js \in Seq([call : Calls, cb : CallbackIds])
        /\ to_js # <<>>
        /\ to_js' = Tail(to_js)
    BY DEF IInv, TypeOK, Receive
  <1>2. /\ m \in [call : Calls, cb : CallbackIds]
        /\ to_js' \in Seq([call : Calls, cb : CallbackIds])
        /\ \A j \in 1 .. Len(to_js') :
              j + 1 \in 1 .. Len(to_js) /\ to_js'[j] = to_js[j + 1]
    <2> DEFINE S == [call : Calls, cb : CallbackIds]
    <2>1. to_js \in Seq(S) /\ to_js # <<>> /\ to_js' = Tail(to_js)
      BY <1>1
    <2> HIDE DEF S
    <2>2. /\ m \in S
          /\ to_js' \in Seq(S)
          /\ \A j \in 1 .. Len(to_js') :
                j + 1 \in 1 .. Len(to_js) /\ to_js'[j] = to_js[j + 1]
      BY <2>1
    <2> QED
      BY <2>2 DEF S
  <1>3. UNCHANGED <<callback_id, js_objects, waiting, to_native, page, xw_instance_,
                    handler, objects_, infos, tasks, crashed, calls, refused,
                    answered, posts>>
    BY DEF Receive, native
  <1>4. CarriersKnown /\ CarriedOnce /\ SyncBlocks /\ ChannelsOfOpenPage /\ CountersAgree
    BY DEF IInv
  <1>5. /\ callback_listeners \in [CallbackIds -> Calls \cup {NoCall}]
        /\ \A i \in CallbackIds : callback_listeners[i] # NoCall => i < callback_id
        /\ settlements \in [Calls -> Nat]
        /\ received \subseteq Calls \X Calls
    BY DEF IInv, TypeOK
  <1>6. /\ callback_listeners' \in [CallbackIds -> Calls \cup {NoCall}]
        /\ \A i \in CallbackIds : callback_listeners'[i] \in {callback_listeners[i], NoCall}
    BY <1>2, <1>5 DEF Receive, ListenersAfter
  <1>7. settlements' \in [Calls -> Nat] /\ received' \subseteq Calls \X Calls
    <2>1. m.cb \in CallbackIds /\ m.call \in Calls /\ c \in Calls \cup {NoCall}
      BY <1>2, <1>5
    <2>2. CASE c = NoCall
      BY <1>5, <2>2 DEF Receive
    <2>3. CASE c # NoCall
      <3>1. received' = received \cup {<<c, m.call>>}
        BY <2>3 DEF Receive
      <3>2. \/ settlements' = settlements
            \/ settlements' = [settlements EXCEPT ![c] = @ + 1]
        BY <2>3 DEF Receive
      <3> HIDE DEF c, m
      <3>3. received' \subseteq Calls \X Calls
        BY <1>5, <2>1, <2>3, <3>1
      <3>4. settlements' \in [Calls -> Nat]
        BY <1>5, <2>1, <2>3, <3>2
      <3> QED
        BY <3>3, <3>4
    <2> QED
      BY <2>2, <2>3
  <1> HIDE DEF c, m
  <1>8. TypeOK'
    <2>1. \A i \in CallbackIds : callback_listeners'[i] # NoCall => i < callback_id
      BY <1>5, <1>6
    <2> QED
      BY <1>2, <1>3, <1>6, <1>7, <2>1 DEF IInv, TypeOK
  <1>9. CarriersKnown'
    <2>1. \A j \in 1 .. Len(to_js') : to_js'[j].call \in 1 .. Len(calls)
      BY <1>2, <1>4 DEF CarriersKnown
    <2>2. \A i \in CallbackIds : callback_listeners'[i] \in 0 .. Len(calls)
      <3>1. Len(calls) \in Nat
        BY DEF IInv, TypeOK
      <3> QED
        BY <1>4, <1>6, <3>1 DEF CarriersKnown
    <2>3. /\ \A j \in 1 .. Len(to_native) : to_native[j].call \in 1 .. Len(calls)
          /\ \A j \in 1 .. Len(tasks) : tasks[j].call \in 1 .. Len(calls)
          /\ \A k \in infos : k.call \in 1 .. Len(calls)
      BY <1>4 DEF CarriersKnown
    <2> QED
      BY <1>3, <2>1, <2>2, <2>3 DEF CarriersKnown
  <1>10. CountersAgree'
    BY <1>3, <1>4 DEF CountersAgree
  <1>11. ChannelsOfOpenPage'
    <2>1. \A j \in 1 .. Len(to_js') : calls[to_js'[j].call].page = page
      BY <1>2, <1>4 DEF ChannelsOfOpenPage
    <2>2. xw_instance_
      BY DEF Receive, ScriptRuns
    <2> QED
      BY <1>3, <1>4, <2>1, <2>2 DEF ChannelsOfOpenPage
  <1>12. CarriedOnce'
    BY <1>3, <1>4 DEF CarriedOnce
  <1>13. SyncBlocks'
    BY <1>3, <1>4 DEF SyncBlocks, BlocksScript
  <1> QED
    BY <1>8, <1>9, <1>10, <1>11, <1>12, <1>13 DEF IInv

\* The handlers of the native side keep the invariant, one by one.
LEMMA HandleMessageInv ==
    ASSUME IInv, HandleMessage
    PROVE  IInv' /\ received' = received
  <1>1. /\ objects_ \subseteq Objects /\ refused \subseteq Calls
        /\ Len(calls) \in Nat /\ Len(calls) \leq MaxCalls
    BY DEF IInv, TypeOK
  <1>2. ASSUME Dispatching, to_native' = Tail(to_native)
        PROVE  Oldest.call \in 1 .. Len(calls)
    BY <1>2, TakenFacts
  <1>3. CASE OnConstruct
    <2>1. Dispatching /\ to_native' = Tail(to_native)
      BY <1>3 DEF OnConstruct
    <2>2. Asked.obj \in Objects
      BY <1>2, <1>3, <2>1 DEF OnConstruct, Asked, IInv, CountersAgree
    <2> QED
      BY <1>1, <1>3, <2>1, <2>2, TakenInv DEF OnConstruct, script, history
  <1>4. CASE OnJSObjectCollected
    BY <1>1, <1>4, TakenInv DEF OnJSObjectCollected, StoreWithout, script, history
  <1>5. CASE RunFunction
    BY <1>1, <1>5, TakenInv DEF RunFunction, script, history
  <1>6. CASE DropForObject
    <2>1. Dispatching /\ to_native' = Tail(to_native)
      BY <1>6 DEF DropForObject
    <2>2. Oldest.call \in Calls
      BY <1>1, <1>2, <2>1
    <2> QED
      BY <1>1, <1>6, <2>1, <2>2, TakenInv DEF DropForObject, script, native
  <1>7. CASE DropForHandler
    <2>1. Dispatching /\ to_native' = Tail(to_native)
      BY <1>7 DEF DropForHandler
    <2>2. Oldest.call \in Calls
      BY <1>1, <1>2, <2>1
    <2> QED
      BY <1>1, <1>7, <2>1, <2>2, TakenInv DEF DropForHandler, AnsweredFalse, native
  <1> QED
    BY <1>3, <1>4, <1>5, <1>6, <1>7 DEF HandleMessage

\* A script's calls, the construction and the collection of an object.
LEMMA CallInv ==
    ASSUME IInv, CallFromScript
    PROVE  IInv'
  <1>1. js_objects \in [Objects -> {"none", "alive", "collected"}]
    BY DEF IInv, TypeOK
  <1>2. ASSUME NEW o \in Objects, Construct(o)
        PROVE  IInv'
    BY <1>1, <1>2, SendInv DEF Construct, AllForms
  <1>3. ASSUME NEW o \in Objects, Collect(o)
        PROVE  IInv'
    BY <1>1, <1>3, SendInv DEF Collect, AllForms
  <1>4. ASSUME NEW o \in Objects, NEW form \in Forms, NEW by \in {"owner", "proxy"},
               NEW route \in Routes, CallObject(o, form, by, route)
        PROVE  IInv'
    <2>1. form \in AllForms /\ route \in AllRoutes /\ route \notin {"construct", "collected"}
      BY <1>4 DEF CallObject, ObjectRoutes, AllRoutes
    <2> QED
      BY <1>1, <1>4, <2>1, SendInv DEF CallObject
  <1>5. ASSUME NEW form \in Forms, NEW route \in Routes, CallFunction(form, route)
        PROVE  IInv'
    <2>1. form \in AllForms /\ route \in AllRoutes /\ route \notin {"construct", "collected"}
      BY <1>5 DEF CallFunction, DirectRoutes, AllRoutes
    <2> QED
      BY <1>1, <1>5, <2>1, SendInv DEF CallFunction
  <1> QED
    BY <1>2, <1>3, <1>4, <1>5 DEF CallFromScript

\* The creation and the deletion of the instance.
LEMMA InstanceInv ==
    ASSUME IInv, OnInstanceCreated \/ OnInstanceDestroyed \/ DeleteInstance
    PROVE  IInv' /\ received' = received
  <1>1. CarriersKnown /\ CarriedOnce /\ SyncBlocks /\ ChannelsOfOpenPage /\ CountersAgree
    BY DEF IInv
  <1>2. Len(calls) \in Nat /\ page \in Nat
    BY DEF IInv, TypeOK
  <1>3. calls \in Seq(Call)
    BY DEF IInv, TypeOK
  <1>4. CASE OnInstanceCreated
    <2>1. /\ page' = page + 1 /\ xw_instance_' = TRUE /\ handler' = TRUE
          /\ page < MaxPages /\ ~xw_instance_
          /\ UNCHANGED <<callback_id, callback_listeners, js_objects, waiting, to_native,
                         to_js, objects_, infos, tasks, crashed, calls, refused,
                         answered, received, settlements, posts>>
      BY <1>1, <1>4 DEF OnInstanceCreated, script, channels, history, CountersAgree
    <2>2. to_js = <<>> /\ to_native = <<>> /\ Len(to_js) = 0 /\ Len(to_native) = 0
      BY <1>1, <2>1 DEF ChannelsOfOpenPage
    <2>3. TypeOK'
      BY <1>2, <2>1 DEF IInv, TypeOK
    <2>4. \A c \in 1 .. Len(calls) : calls[c].page \in Nat /\ calls[c].page # page'
      <3>1. \A c \in 1 .. Len(calls) : calls[c] \in Call
        BY <1>3
      <3>2. \A c \in 1 .. Len(calls) : calls[c].page \in 1 .. MaxPages
        BY <3>1 DEF Call
      <3>3. \A c \in 1 .. Len(calls) : calls[c].page \leq page
        BY <1>1 DEF CountersAgree
      <3> QED
        BY <1>2, <2>1, <3>2, <3>3
    <2>5. CountersAgree'
      BY <1>1, <1>2, <2>1, <2>4 DEF CountersAgree
    <2>6. CarriersKnown' /\ CarriedOnce' /\ ChannelsOfOpenPage'
      BY <1>1, <2>1, <2>2 DEF CarriersKnown, CarriedOnce, ChannelsOfOpenPage
    <2>7. \A c \in 1 .. Len(calls) : ~BlocksScript(c)'
      BY <2>1, <2>4 DEF BlocksScript
    <2>8. SyncBlocks'
      BY <1>1, <2>1, <2>2, <2>7 DEF CarriersKnown, SyncBlocks
    <2> QED
      BY <2>1, <2>3, <2>5, <2>6, <2>8 DEF IInv
  <1>5. CASE OnInstanceDestroyed
    <2>1. /\ xw_instance_' = FALSE /\ callback_id' = 0
          /\ callback_listeners' = [i \in CallbackIds |-> NoCall]
          /\ js_objects' = [o \in Objects |-> "none"]
          /\ waiting' = NoCall /\ to_native' = <<>> /\ to_js' = <<>>
          /\ UNCHANGED <<page, handler, objects_, infos, tasks, crashed, calls,
                         refused, answered, received, settlements, posts>>
      BY <1>5 DEF OnInstanceDestroyed, history
    <2>2. TypeOK'
      <3>1. callback_listeners' \in [CallbackIds -> Calls \cup {NoCall}]
        BY <2>1
      <3>2. \A i \in CallbackIds : callback_listeners'[i] = NoCall
        BY <2>1
      <3>3. to_native' \in Seq(Message) /\ to_js' \in Seq([call : Calls, cb : CallbackIds])
        BY <2>1
      <3>4. js_objects' \in [Objects -> {"none", "alive", "collected"}]
        BY <2>1
      <3>5. callback_id' \in 0 .. MaxCalls /\ waiting' \in Calls \cup {NoCall}
        BY <2>1
      <3>6. UNCHANGED <<page, handler, objects_, infos, tasks, crashed, calls,
                        refused, answered, received, settlements, posts>>
        BY <2>1
      <3>7. xw_instance_' \in BOOLEAN
        BY <2>1
      <3> QED
        BY <3>1, <3>2, <3>3, <3>4, <3>5, <3>6, <3>7 DEF IInv, TypeOK
    <2>3. CarriersKnown' /\ CarriedOnce' /\ ChannelsOfOpenPage' /\ CountersAgree'
      BY <1>1, <1>2, <2>1
         DEF CarriersKnown, CarriedOnce, ChannelsOfOpenPage, CountersAgree
    <2>4. SyncBlocks'
      BY <2>1 DEF SyncBlocks, BlocksScript
    <2> QED
      BY <2>1, <2>2, <2>3, <2>4 DEF IInv
  <1>6. CASE DeleteInstance
    <2>1. /\ handler' = FALSE /\ ~xw_instance_ /\ objects_' = {}
          /\ UNCHANGED <<callback_id, callback_listeners, js_objects, waiting, to_native,
                         to_js, page, xw_instance_, infos, tasks, crashed, calls,
                         refused, answered, received, settlements, posts>>
      BY <1>6 DEF DeleteInstance, script, channels, history
    <2>2. TypeOK'
      BY <2>1 DEF IInv, TypeOK
    <2>3. CarriersKnown' /\ CarriedOnce' /\ ChannelsOfOpenPage' /\ CountersAgree'
      BY <1>1, <2>1 DEF CarriersKnown, CarriedOnce, ChannelsOfOpenPage, CountersAgree
    <2>4. SyncBlocks'
      BY <1>1, <2>1 DEF SyncBlocks, BlocksScript
    <2> QED
      BY <2>1, <2>2, <2>3, <2>4 DEF IInv
  <1> QED
    BY <1>4, <1>5, <1>6

\* A step that leaves the bridge alone.
LEMMA StutterInv == IInv /\ UNCHANGED vars => IInv'
  <1> SUFFICES ASSUME IInv, UNCHANGED vars
               PROVE  IInv'
    OBVIOUS
  <1> USE DEF vars, script, channels, native, history
  <1>1. TypeOK'
    BY DEF IInv, TypeOK
  <1>2. CarriersKnown' /\ CountersAgree'
    BY DEF IInv, CarriersKnown, CountersAgree
  <1>3. ChannelsOfOpenPage' /\ CarriedOnce'
    BY DEF IInv, ChannelsOfOpenPage, CarriedOnce
  <1>4. SyncBlocks'
    BY DEF IInv, SyncBlocks, BlocksScript
  <1> QED
    BY <1>1, <1>2, <1>3, <1>4 DEF IInv

\* Every step of the bridge keeps the invariant.
LEMMA NextInv == IInv /\ [Next]_vars => IInv'
  <1> SUFFICES ASSUME IInv, [Next]_vars
               PROVE  IInv'
    OBVIOUS
  <1>1. CASE CallFromScript
    BY <1>1, CallInv
  <1>2. CASE ReceiveAny
    BY <1>2, ReceiveInv DEF ReceiveAny
  <1>3. CASE HandleMessage
    BY <1>3, HandleMessageInv
  <1>4. CASE PostResult
    BY <1>4, PostOnClientInv, PostOnWorkerInv DEF PostResult
  <1>5. CASE RunTask
    BY <1>5, RunTaskInv
  <1>6. CASE OnInstanceCreated \/ OnInstanceDestroyed \/ DeleteInstance
    BY <1>6, InstanceInv
  <1>7. CASE UNCHANGED vars
    BY <1>7, StutterInv
  <1> QED
    BY <1>1, <1>2, <1>3, <1>4, <1>5, <1>6, <1>7 DEF Next

\* The inductive invariant holds of every behaviour: the carriers of a call
\* are unique, belong to its page, and a sync carrier is the one that the
\* script is blocked for.
THEOREM Invariance == Spec => []IInv
  BY InitInv, NextInv, PTL DEF Spec

\* The state of the bridge stays well formed, and the identifiers in the
\* callback table were all handed out by wrapCallback.
THEOREM TypeCorrect == Spec => []TypeOK
  <1>1. IInv => TypeOK
    BY DEF IInv
  <1> QED
    BY <1>1, Invariance, PTL

\* Nothing is handed to the host for an instance that is being deleted or is
\* gone, whatever the native threads still post (Instance::PostMessage).
THEOREM SilenceAfterClose == Spec => []ClosedInstanceIsSilent
  <1>1. IInv => ClosedInstanceIsSilent
    BY DEF IInv, ChannelsOfOpenPage, ClosedInstanceIsSilent
  <1> QED
    BY <1>1, Invariance, PTL
-----------------------------------------------------------------------------
(* No cross talk. *)

\* Without new calls or a change of page, a callback stays owned while other
\* callbacks come off the table.
LEMMA OwnedStays ==
    ASSUME UNCHANGED <<callback_id, calls, page, xw_instance_>>,
           \A i \in CallbackIds : callback_listeners'[i] \in {callback_listeners[i], NoCall},
           NEW m, m.cb \in CallbackIds \cup {NoCallback}, OwnCallback(m)
    PROVE  OwnCallback(m)'
  BY DEF OwnCallback

\* The identifiers carried are well formed.
LEMMA CarriedIds ==
    ASSUME IInv
    PROVE  /\ \A i \in 1 .. Len(to_native) : to_native[i].cb \in CallbackIds \cup {NoCallback}
           /\ \A i \in 1 .. Len(to_js) : to_js[i].cb \in CallbackIds \cup {NoCallback}
           /\ \A i \in 1 .. Len(tasks) : tasks[i].cb \in CallbackIds \cup {NoCallback}
           /\ \A k \in infos : k.cb \in CallbackIds \cup {NoCallback}
  <1>1. /\ \A i \in 1 .. Len(to_native) : to_native[i] \in Message
        /\ \A i \in 1 .. Len(to_js) : to_js[i] \in [call : Calls, cb : CallbackIds]
        /\ \A i \in 1 .. Len(tasks) : tasks[i] \in Result
        /\ \A k \in infos : k \in Message
    <2> DEFINE S == [call : Calls, cb : CallbackIds]
    <2>1. /\ to_native \in Seq(Message) /\ to_js \in Seq(S)
          /\ tasks \in Seq(Result) /\ infos \subseteq Message
      BY DEF IInv, TypeOK
    <2> HIDE DEF S
    <2>2. \A i \in 1 .. Len(to_js) : to_js[i] \in S
      BY <2>1
    <2> QED
      BY <2>1, <2>2 DEF S
  <1> QED
    BY <1>1 DEF Message, Result

\* A message carries the identifier its callback was just stored under.
LEMMA SendOwned ==
    ASSUME IInv, CallbacksOwned, CanCall,
           NEW o, NEW form, NEW by, NEW route, form # "binaryPlain",
           Send(o, form, by, route)
    PROVE  CallbacksOwned'
  <1> DEFINE c == Len(calls) + 1
             m == [call |-> c, cb |-> WireCallback(form)]
             r == [obj |-> o, form |-> form, by |-> by, route |-> route, page |-> page]
  <1>1. /\ calls' = Append(calls, r)
        /\ to_native' = Append(to_native, m)
        /\ UNCHANGED <<to_js, page, xw_instance_, infos, tasks>>
    BY DEF Send, native
  <1>2. calls \in Seq(Call) /\ to_native \in Seq(Message) /\ Len(calls) \in Nat
    BY DEF IInv, TypeOK
  <1>3. \A d \in 1 .. Len(calls) : calls'[d] = calls[d]
    <2> HIDE DEF r
    <2> QED
      BY <1>1, <1>2
  <1>4. \A i \in 1 .. Len(to_native') :
          \/ i \in 1 .. Len(to_native) /\ to_native'[i] = to_native[i]
          \/ to_native'[i] = m
    <2> HIDE DEF m
    <2> QED
      BY <1>1, <1>2
  <1>5. /\ callback_listeners \in [CallbackIds -> Calls \cup {NoCall}]
        /\ callback_id \in Nat /\ callback_id \in CallbackIds
    BY <1>2 DEF IInv, TypeOK, CountersAgree, CanCall
  <1>6. /\ \A i \in CallbackIds : i < callback_id =>
              i < callback_id' /\ callback_listeners'[i] = callback_listeners[i]
        /\ m.cb # NoCallback => m.cb < callback_id' /\ callback_listeners'[m.cb] = m.call
    <2>1. CASE form \in CallbackForms
      <3>1. /\ callback_listeners' = [callback_listeners EXCEPT ![callback_id] = c]
            /\ callback_id' = callback_id + 1
        BY <2>1 DEF Send, NextCallbackId
      <3>2. m.cb = callback_id /\ m.call = c
        BY <2>1 DEF WireCallback
      <3> HIDE DEF m, c
      <3> QED
        BY <1>5, <3>1, <3>2
    <2>2. CASE form \notin CallbackForms
      BY <1>5, <2>2 DEF Send, WireCallback
    <2> QED
      BY <2>1, <2>2
  <1> HIDE DEF c, m, r
  <1>7. ASSUME NEW n, n.call \in 1 .. Len(calls),
               n.cb \in CallbackIds \cup {NoCallback}, OwnCallback(n)
        PROVE  OwnCallback(n)'
    BY <1>1, <1>3, <1>6, <1>7 DEF OwnCallback
  <1>8. CarriersKnown
    BY DEF IInv
  <1>9. \A i \in 1 .. Len(to_native') : OwnCallback(to_native[i])'
    <2> SUFFICES ASSUME NEW i \in 1 .. Len(to_native')
                 PROVE  OwnCallback(to_native[i])'
      OBVIOUS
    <2>1. CASE i \in 1 .. Len(to_native) /\ to_native'[i] = to_native[i]
      <3>1. OwnCallback(to_native[i])
        BY <2>1 DEF CallbacksOwned
      <3>2. /\ to_native[i].call \in 1 .. Len(calls)
            /\ to_native[i].cb \in CallbackIds \cup {NoCallback}
        BY <1>8, <2>1, CarriedIds DEF CarriersKnown
      <3>3. PICK n : n = to_native[i]
        OBVIOUS
      <3>4. n.call \in 1 .. Len(calls) /\ n.cb \in CallbackIds \cup {NoCallback} /\ OwnCallback(n)
        BY <3>1, <3>2, <3>3 DEF OwnCallback
      <3>5. OwnCallback(n)'
        BY <1>7, <3>4
      <3> QED
        BY <2>1, <3>3, <3>5 DEF OwnCallback
    <2>2. CASE to_native'[i] = m
      BY <1>6, <2>2 DEF OwnCallback
    <2> QED
      BY <1>4, <2>1, <2>2
  <1>10. \A i \in 1 .. Len(to_js) : OwnCallback(to_js[i])'
    <2> SUFFICES ASSUME NEW i \in 1 .. Len(to_js)
                 PROVE  OwnCallback(to_js[i])'
      OBVIOUS
    <2>1. PICK n : n = to_js[i]
      OBVIOUS
    <2>2. /\ n.call \in 1 .. Len(calls)
          /\ n.cb \in CallbackIds \cup {NoCallback}
      BY <1>8, <2>1, CarriedIds DEF CarriersKnown
    <2>3. OwnCallback(n)
      BY <2>1 DEF CallbacksOwned, OwnCallback
    <2>4. OwnCallback(n)'
      BY <1>7, <2>2, <2>3
    <2> QED
      BY <1>1, <2>1, <2>4 DEF OwnCallback
  <1>11. \A i \in 1 .. Len(tasks) : OwnCallback(tasks[i])'
    <2> SUFFICES ASSUME NEW i \in 1 .. Len(tasks)
                 PROVE  OwnCallback(tasks[i])'
      OBVIOUS
    <2>1. PICK n : n = tasks[i]
      OBVIOUS
    <2>2. /\ n.call \in 1 .. Len(calls)
          /\ n.cb \in CallbackIds \cup {NoCallback}
      BY <1>8, <2>1, CarriedIds DEF CarriersKnown
    <2>3. OwnCallback(n)
      BY <2>1 DEF CallbacksOwned, OwnCallback
    <2>4. OwnCallback(n)'
      BY <1>7, <2>2, <2>3
    <2> QED
      BY <1>1, <2>1, <2>4 DEF OwnCallback
  <1>12. \A k \in infos : OwnCallback(k)'
    BY <1>7, <1>8, CarriedIds DEF CallbacksOwned, CarriersKnown
  <1> QED
    BY <1>1, <1>9, <1>10, <1>11, <1>12 DEF CallbacksOwned

\* Native code takes a message: what it holds it took from the channel.
LEMMA TakenOwned ==
    ASSUME IInv, CallbacksOwned, HandleMessage
    PROVE  CallbacksOwned'
  <1>1. /\ Dispatching
        /\ to_native' = Tail(to_native)
        /\ infos' \subseteq infos \cup {Oldest}
        /\ UNCHANGED <<callback_id, callback_listeners, to_js, tasks, page,
                       xw_instance_, calls>>
    BY DEF HandleMessage, OnConstruct, OnJSObjectCollected, RunFunction,
           DropForObject, DropForHandler, script, native, history
  <1>2. /\ \E i \in 1 .. Len(to_native) : Oldest = to_native[i]
        /\ \A i \in 1 .. Len(to_native') :
              i + 1 \in 1 .. Len(to_native) /\ to_native'[i] = to_native[i + 1]
    BY <1>1, TakenFacts
  <1>3. ASSUME NEW n PROVE OwnCallback(n)' <=> OwnCallback(n)
    BY <1>1 DEF OwnCallback
  <1>4. \A i \in 1 .. Len(to_native') : OwnCallback(to_native'[i])
    BY <1>2 DEF CallbacksOwned
  <1>5. \A k \in infos' : OwnCallback(k)
    BY <1>1, <1>2 DEF CallbacksOwned
  <1> QED
    BY <1>1, <1>4, <1>5 DEF CallbacksOwned, OwnCallback

\* A result posted, or run, carries the identifier of the info it answers.
LEMMA DispatchOwned ==
    ASSUME IInv, NEW r \in Result, DispatchResult(r), OwnCallback(r),
           \A i \in 1 .. Len(to_js) : OwnCallback(to_js[i])
    PROVE  \A i \in 1 .. Len(to_js') : OwnCallback(to_js'[i])
  <1> DEFINE m == [call |-> r.call, cb |-> r.cb]
  <1>1. to_js' = to_js \/ to_js' = Append(to_js, m)
    BY DEF DispatchResult
  <1>2. OwnCallback(m)
    BY DEF OwnCallback
  <1>3. Len(to_js) \in Nat /\ to_js \in Seq([call : Calls, cb : CallbackIds])
    BY DEF IInv, TypeOK
  <1> HIDE DEF m
  <1>4. CASE to_js' = Append(to_js, m)
    <2>1. \A i \in 1 .. Len(to_js') :
            \/ i \in 1 .. Len(to_js) /\ to_js'[i] = to_js[i]
            \/ to_js'[i] = m
      BY <1>3, <1>4
    <2> QED
      BY <1>2, <2>1
  <1> QED
    BY <1>1, <1>4

\* A result carries the identifier of its info, through the loop and the channel.
LEMMA ResultOwned ==
    ASSUME IInv, CallbacksOwned, PostResult \/ RunTask
    PROVE  CallbacksOwned'
  <1>1. /\ infos' \subseteq infos
        /\ UNCHANGED <<callback_id, callback_listeners, to_native, page, xw_instance_, calls>>
    BY DEF PostResult, PostResultOnClient, PostResultOnWorker, Post, RunTask
  <1>2. tasks \in Seq(Result) /\ Len(tasks) \in Nat
    BY DEF IInv, TypeOK
  <1>3. /\ \A i \in 1 .. Len(to_js') : OwnCallback(to_js'[i])
        /\ \A i \in 1 .. Len(tasks') : OwnCallback(tasks'[i])
    <2>1. ASSUME NEW i \in infos, NEW result \in {"list", "value"}, Post(i, result)
          PROVE  LET r == [call |-> i.call, cb |-> i.cb, result |-> result]
                 IN  r \in Result /\ OwnCallback(r)
      <3>1. i \in Message /\ OwnCallback(i)
        BY <2>1, PostFacts DEF CallbacksOwned
      <3> QED
        BY <3>1 DEF Message, Result, OwnCallback
    <2>2. ASSUME NEW i \in infos, NEW result \in {"list", "value"},
                 PostResultOnClient(i, result)
          PROVE  /\ \A j \in 1 .. Len(to_js') : OwnCallback(to_js'[j])
                 /\ \A j \in 1 .. Len(tasks') : OwnCallback(tasks'[j])
      <3> DEFINE r == [call |-> i.call, cb |-> i.cb, result |-> result]
      <3>1. r \in Result /\ OwnCallback(r) /\ DispatchResult(r) /\ tasks' = tasks
        BY <2>1, <2>2 DEF PostResultOnClient
      <3> HIDE DEF r
      <3> QED
        BY <3>1, DispatchOwned DEF CallbacksOwned
    <2>3. ASSUME NEW i \in infos, NEW result \in {"list", "value"},
                 PostResultOnWorker(i, result)
          PROVE  /\ \A j \in 1 .. Len(to_js') : OwnCallback(to_js'[j])
                 /\ \A j \in 1 .. Len(tasks') : OwnCallback(tasks'[j])
      <3> DEFINE r == [call |-> i.call, cb |-> i.cb, result |-> result]
      <3>1. r \in Result /\ OwnCallback(r) /\ tasks' = Append(tasks, r) /\ to_js' = to_js
        BY <2>1, <2>3 DEF PostResultOnWorker, PostTask
      <3> HIDE DEF r
      <3>2. \A j \in 1 .. Len(tasks') :
              \/ j \in 1 .. Len(tasks) /\ tasks'[j] = tasks[j]
              \/ tasks'[j] = r
        BY <1>2, <3>1
      <3> QED
        BY <3>1, <3>2 DEF CallbacksOwned
    <2>4. CASE RunTask
      <3> DEFINE r == Head(tasks)
      <3>1. DispatchResult(r) /\ tasks' = Tail(tasks) /\ tasks # <<>>
        BY <2>4 DEF RunTask
      <3>2. /\ r \in Result /\ r = tasks[1] /\ 1 \in 1 .. Len(tasks)
            /\ \A j \in 1 .. Len(tasks') :
                  j + 1 \in 1 .. Len(tasks) /\ tasks'[j] = tasks[j + 1]
        BY <1>2, <3>1
      <3> HIDE DEF r
      <3>3. OwnCallback(r) /\ \A j \in 1 .. Len(tasks') : OwnCallback(tasks'[j])
        BY <3>2 DEF CallbacksOwned
      <3> QED
        BY <3>1, <3>2, <3>3, DispatchOwned DEF CallbacksOwned
    <2> QED
      BY <2>2, <2>3, <2>4 DEF PostResult
  <1>4. \A k \in infos' : OwnCallback(k)
    BY <1>1 DEF CallbacksOwned
  <1> QED
    BY <1>1, <1>3, <1>4 DEF CallbacksOwned, OwnCallback

\* A callback that runs may leave the table; no identifier gets another one.
LEMMA ReceiveOwned ==
    ASSUME IInv, CallbacksOwned, NEW outcome \in {"done", "keep", "throw"}, Receive(outcome)
    PROVE  CallbacksOwned'
  <1>1. /\ to_js' = Tail(to_js) /\ to_js # <<>>
        /\ UNCHANGED <<callback_id, to_native, infos, tasks, page, xw_instance_, calls>>
    BY DEF Receive, native
  <1>2. \A i \in CallbackIds : callback_listeners'[i] \in {callback_listeners[i], NoCall}
    <2>1. callback_listeners \in [CallbackIds -> Calls \cup {NoCall}]
      BY DEF IInv, TypeOK
    <2> QED
      BY <2>1 DEF Receive, ListenersAfter
  <1>3. ASSUME NEW n, n.cb \in CallbackIds \cup {NoCallback}, OwnCallback(n)
        PROVE  OwnCallback(n)'
    BY <1>1, <1>2, <1>3, OwnedStays
  <1>4. \A i \in 1 .. Len(to_js') :
          i + 1 \in 1 .. Len(to_js) /\ to_js'[i] = to_js[i + 1]
    <2> DEFINE S == [call : Calls, cb : CallbackIds]
    <2>1. to_js \in Seq(S)
      BY DEF IInv, TypeOK
    <2> HIDE DEF S
    <2> QED
      BY <1>1, <2>1
  <1>5. \A i \in 1 .. Len(to_js') : OwnCallback(to_js[i])'
    BY <1>1, <1>2, <1>4, CarriedIds DEF CallbacksOwned, OwnCallback
  <1>6. /\ \A i \in 1 .. Len(to_native) : OwnCallback(to_native[i])'
        /\ \A i \in 1 .. Len(tasks) : OwnCallback(tasks[i])'
    BY <1>1, <1>2, CarriedIds DEF CallbacksOwned, OwnCallback
  <1>7. \A k \in infos : OwnCallback(k)'
    BY <1>3, CarriedIds DEF CallbacksOwned
  <1> QED
    BY <1>1, <1>5, <1>6, <1>7 DEF CallbacksOwned

\* A page that closes or opens leaves nothing that is about its callbacks.
LEMMA InstanceOwned ==
    ASSUME IInv, CallbacksOwned,
           OnInstanceCreated \/ OnInstanceDestroyed \/ DeleteInstance
    PROVE  CallbacksOwned'
  <1>1. /\ CarriersKnown /\ IInv'
        /\ UNCHANGED <<infos, tasks, calls>>
    BY InstanceInv
       DEF IInv, OnInstanceCreated, OnInstanceDestroyed, DeleteInstance, history
  <1>2. CASE OnInstanceCreated
    <2>1. /\ page' = page + 1
          /\ UNCHANGED <<to_native, to_js>>
      BY <1>2 DEF OnInstanceCreated, channels
    <2>2. \A c \in 1 .. Len(calls) : calls'[c].page # page'
      <3>1. \A c \in 1 .. Len(calls) : calls[c].page \leq page
        BY DEF IInv, CountersAgree
      <3>2. page \in Nat /\ calls \in Seq(Call)
        BY DEF IInv, TypeOK
      <3>3. \A c \in 1 .. Len(calls) : calls[c] \in Call
        BY <3>2
      <3>4. \A c \in 1 .. Len(calls) : calls[c].page \in 1 .. MaxPages
        BY <3>3 DEF Call
      <3> QED
        BY <1>1, <2>1, <3>1, <3>2, <3>4
    <2> QED
      BY <1>1, <2>1, <2>2 DEF CallbacksOwned, OwnCallback, CarriersKnown
  <1>3. CASE OnInstanceDestroyed \/ DeleteInstance
    <2>1. /\ ~xw_instance_'
          /\ to_native' = <<>> /\ to_js' = <<>>
      BY <1>1, <1>3 DEF OnInstanceDestroyed, DeleteInstance, IInv, ChannelsOfOpenPage
    <2> QED
      BY <1>1, <2>1 DEF CallbacksOwned, OwnCallback
  <1> QED
    BY <1>2, <1>3

\* Every call of a script, where each binary message has a callback.
LEMMA CallOwned ==
    ASSUME IInv, CallbacksOwned, CallFromScript, "binaryPlain" \notin Forms
    PROVE  CallbacksOwned'
  <1>1. ASSUME NEW o \in Objects, Construct(o) \/ Collect(o)
        PROVE  CallbacksOwned'
    BY <1>1, SendOwned DEF Construct, Collect
  <1>2. ASSUME NEW o \in Objects, NEW form \in Forms, NEW by \in {"owner", "proxy"},
               NEW route \in Routes, CallObject(o, form, by, route)
        PROVE  CallbacksOwned'
    BY <1>2, SendOwned DEF CallObject
  <1>3. ASSUME NEW form \in Forms, NEW route \in Routes, CallFunction(form, route)
        PROVE  CallbacksOwned'
    BY <1>3, SendOwned DEF CallFunction
  <1> QED
    BY <1>1, <1>2, <1>3 DEF CallFromScript

\* Every step keeps the identifiers with their calls.
LEMMA NextOwned ==
    ASSUME "binaryPlain" \notin Forms
    PROVE  IInv /\ CallbacksOwned /\ [Next]_vars => CallbacksOwned'
  <1> SUFFICES ASSUME IInv, CallbacksOwned, [Next]_vars
               PROVE  CallbacksOwned'
    OBVIOUS
  <1>1. CASE CallFromScript
    BY <1>1, CallOwned
  <1>2. CASE ReceiveAny
    BY <1>2, ReceiveOwned DEF ReceiveAny
  <1>3. CASE HandleMessage
    BY <1>3, TakenOwned
  <1>4. CASE PostResult \/ RunTask
    BY <1>4, ResultOwned
  <1>5. CASE OnInstanceCreated \/ OnInstanceDestroyed \/ DeleteInstance
    BY <1>5, InstanceOwned
  <1>6. CASE UNCHANGED vars
    BY <1>6 DEF vars, script, channels, native, history, CallbacksOwned, OwnCallback
  <1> QED
    BY <1>1, <1>2, <1>3, <1>4, <1>5, <1>6 DEF Next

\* A callback runs with results of its own call only.
LEMMA ReceivedOwn ==
    ASSUME IInv, CallbacksOwned, NoCrossTalk, [Next]_vars
    PROVE  NoCrossTalk'
  <1>1. CASE ReceiveAny
    <2> PICK outcome \in {"done", "keep", "throw"} : Receive(outcome)
      BY <1>1 DEF ReceiveAny
    <2> DEFINE m == Head(to_js)
               c == callback_listeners[m.cb]
    <2>1. to_js # <<>> /\ xw_instance_
      BY DEF Receive, ScriptRuns
    <2>2. m = to_js[1] /\ 1 \in 1 .. Len(to_js) /\ m \in [call : Calls, cb : CallbackIds]
      <3> DEFINE S == [call : Calls, cb : CallbackIds]
      <3>1. to_js \in Seq(S)
        BY DEF IInv, TypeOK
      <3> HIDE DEF S
      <3>2. m = to_js[1] /\ 1 \in 1 .. Len(to_js) /\ m \in S
        BY <2>1, <3>1
      <3> QED
        BY <3>2 DEF S
    <2>3. OwnCallback(m) /\ calls[m.call].page = page
      BY <2>2 DEF CallbacksOwned, IInv, ChannelsOfOpenPage
    <2>4. c \in {NoCall, m.call}
      BY <2>1, <2>2, <2>3 DEF OwnCallback
    <2>5. received' = received \/ (c # NoCall /\ received' = received \cup {<<c, m.call>>})
      BY DEF Receive
    <2> QED
      BY <2>4, <2>5 DEF NoCrossTalk
  <1>2. CASE PostResult
    <2>1. ASSUME NEW i \in infos, NEW result \in {"list", "value"},
                 PostResultOnClient(i, result)
          PROVE  NoCrossTalk'
      BY <2>1, PostOnClientInv DEF NoCrossTalk
    <2>2. ASSUME NEW i \in infos, NEW result \in {"list", "value"},
                 PostResultOnWorker(i, result)
          PROVE  NoCrossTalk'
      BY <2>2 DEF PostResultOnWorker, NoCrossTalk
    <2> QED
      BY <1>2, <2>1, <2>2 DEF PostResult
  <1>3. CASE RunTask
    BY <1>3, RunTaskInv DEF NoCrossTalk
  <1>4. CASE \/ CallFromScript \/ HandleMessage \/ OnInstanceCreated
             \/ OnInstanceDestroyed \/ DeleteInstance \/ UNCHANGED vars
    <2>1. received' = received
      <3>1. CASE CallFromScript
        BY <3>1 DEF CallFromScript, Construct, Collect, CallObject, CallFunction, Send
      <3>2. CASE HandleMessage
        BY <3>2, HandleMessageInv
      <3>3. CASE OnInstanceCreated \/ OnInstanceDestroyed \/ DeleteInstance
        BY <3>3, InstanceInv
      <3>4. CASE UNCHANGED vars
        BY <3>4 DEF vars, history
      <3> QED
        BY <1>4, <3>1, <3>2, <3>3, <3>4
    <2> QED
      BY <2>1 DEF NoCrossTalk
  <1> QED
    BY <1>1, <1>2, <1>3, <1>4 DEF Next

\* A callback, or a blocked sync call, only gets results of its own call,
\* although every page hands out the same identifiers again and the results
\* of older pages are still on their way; provided that scripts give every
\* binary message a callback.
THEOREM NoCrossTalkHolds ==
    ASSUME "binaryPlain" \notin Forms
    PROVE  Spec => []NoCrossTalk
  <1>1. Init => CallbacksOwned /\ NoCrossTalk
    BY DEF Init, CallbacksOwned, NoCrossTalk
  <1>2. IInv /\ CallbacksOwned /\ NoCrossTalk /\ [Next]_vars => CallbacksOwned' /\ NoCrossTalk'
    BY NextOwned, ReceivedOwn
  <1> QED
    BY <1>1, <1>2, Invariance, PTL DEF Spec
-----------------------------------------------------------------------------
\* Every callback in the table belongs to one call, whose promise is open.
OpenWhileListed ==
    /\ \A c \in Calls : settlements[c] \in {0, 1}
    /\ \A c \in Calls : c > Len(calls) => settlements[c] = 0
    /\ \A i \in CallbackIds :
          callback_listeners[i] # NoCall => settlements[callback_listeners[i]] = 0
    /\ \A i, j \in CallbackIds :
          callback_listeners[i] # NoCall /\ callback_listeners[i] = callback_listeners[j]
          => i = j

\* A new callback is that of a new call.
LEMMA SendKeepsOpen ==
    ASSUME IInv, OpenWhileListed, CanCall,
           NEW o, NEW form, NEW by, NEW route, Send(o, form, by, route)
    PROVE  OpenWhileListed'
  <1> DEFINE c == Len(calls) + 1
  <1>1. /\ calls \in Seq(Call) /\ Len(calls) \in Nat /\ Len(calls) < MaxCalls
        /\ callback_listeners \in [CallbackIds -> Calls \cup {NoCall}]
        /\ \A i \in CallbackIds : callback_listeners[i] \in 0 .. Len(calls)
    BY DEF IInv, TypeOK, CarriersKnown, CanCall
  <1>2. c \in Calls /\ c # NoCall /\ settlements[c] = 0
    BY <1>1 DEF OpenWhileListed
  <1>3. Len(calls') = c /\ settlements' = settlements
    BY <1>1 DEF Send
  <1>4. \/ callback_listeners' = callback_listeners
        \/ callback_listeners' = [callback_listeners EXCEPT ![callback_id] = c]
    BY DEF Send
  <1>5. \A i \in CallbackIds :
          \/ callback_listeners'[i] = callback_listeners[i]
          \/ i = callback_id /\ callback_listeners'[i] = c
    BY <1>1, <1>4
  <1> HIDE DEF c
  <1>6. \A i \in CallbackIds : callback_listeners[i] # c
    BY <1>1 DEF c
  <1>7. \A d \in Calls : d > Len(calls') => settlements'[d] = 0
    BY <1>1, <1>3 DEF OpenWhileListed, c
  <1>8. \A i \in CallbackIds :
          callback_listeners'[i] # NoCall => settlements'[callback_listeners'[i]] = 0
    BY <1>2, <1>3, <1>5 DEF OpenWhileListed
  <1>9. ASSUME NEW i \in CallbackIds, NEW j \in CallbackIds,
               callback_listeners'[i] # NoCall,
               callback_listeners'[i] = callback_listeners'[j]
        PROVE  i = j
    BY <1>5, <1>6, <1>9 DEF OpenWhileListed
  <1> QED
    BY <1>3, <1>7, <1>8, <1>9 DEF OpenWhileListed

\* A promise is settled as its callback leaves the table.
LEMMA ReceiveKeepsOpen ==
    ASSUME IInv, OpenWhileListed, NEW outcome \in {"done", "keep", "throw"}, Receive(outcome)
    PROVE  OpenWhileListed'
  <1> DEFINE m == Head(to_js)
             c == callback_listeners[m.cb]
  <1>1. /\ callback_listeners \in [CallbackIds -> Calls \cup {NoCall}]
        /\ settlements \in [Calls -> Nat]
        /\ \A i \in CallbackIds : callback_listeners[i] \in 0 .. Len(calls)
        /\ calls \in Seq(Call) /\ Len(calls) \in Nat
    BY DEF IInv, TypeOK, CarriersKnown
  <1>2. m.cb \in CallbackIds
    <2> DEFINE S == [call : Calls, cb : CallbackIds]
    <2>1. to_js \in Seq(S) /\ to_js # <<>>
      BY DEF IInv, TypeOK, Receive
    <2> HIDE DEF S
    <2>2. m \in S
      BY <2>1
    <2> QED
      BY <2>2 DEF S
  <1>3. calls' = calls
    BY DEF Receive
  <1>4. CASE UNCHANGED <<callback_listeners, settlements>>
    BY <1>3, <1>4 DEF OpenWhileListed
  <1>5. CASE c # NoCall /\ outcome # "done"
    <2>1. UNCHANGED <<callback_listeners, settlements>>
      BY <1>5 DEF Receive, ListenersAfter
    <2> QED
      BY <1>3, <2>1 DEF OpenWhileListed
  <1>6. CASE c # NoCall /\ outcome = "done"
    <2>1. callback_listeners' = [callback_listeners EXCEPT ![m.cb] = NoCall]
      BY <1>6 DEF Receive, ListenersAfter
    <2>2. settlements' = settlements \/ settlements' = [settlements EXCEPT ![c] = @ + 1]
      BY <1>6 DEF Receive
    <2>3. c \in Calls /\ c \leq Len(calls) /\ settlements[c] = 0
      BY <1>1, <1>2, <1>6 DEF OpenWhileListed
    <2>4. \A i \in CallbackIds :
            callback_listeners'[i] # NoCall =>
               i # m.cb /\ callback_listeners'[i] = callback_listeners[i]
      BY <1>1, <2>1
    <2>5. \A d \in Calls : settlements'[d] = settlements[d] \/ (d = c /\ settlements'[d] = 1)
      BY <1>1, <2>2, <2>3
    <2> HIDE DEF m, c
    <2>6. \A i \in CallbackIds : callback_listeners'[i] # NoCall => callback_listeners[i] # c
      BY <1>2, <1>6, <2>4 DEF OpenWhileListed, c
    <2>7. \A i \in CallbackIds :
            callback_listeners'[i] # NoCall => settlements'[callback_listeners'[i]] = 0
      <3> SUFFICES ASSUME NEW i \in CallbackIds, callback_listeners'[i] # NoCall
                   PROVE  settlements'[callback_listeners'[i]] = 0
        OBVIOUS
      <3>1. callback_listeners'[i] = callback_listeners[i] /\ callback_listeners[i] # c
        BY <2>4, <2>6
      <3>2. callback_listeners[i] \in Calls /\ settlements[callback_listeners[i]] = 0
        BY <1>1, <3>1 DEF OpenWhileListed
      <3> QED
        BY <2>5, <3>1, <3>2
    <2>8. \A d \in Calls : settlements'[d] \in {0, 1} /\ (d > Len(calls) => settlements'[d] = 0)
      BY <1>1, <2>3, <2>5 DEF OpenWhileListed
    <2>9. \A i, j \in CallbackIds :
            callback_listeners'[i] # NoCall /\ callback_listeners'[i] = callback_listeners'[j]
            => i = j
      BY <2>4 DEF OpenWhileListed
    <2> QED
      BY <1>3, <2>7, <2>8, <2>9 DEF OpenWhileListed
  <1> QED
    BY <1>4, <1>5, <1>6 DEF Receive

\* No step settles a promise whose callback has left the table.
LEMMA NextKeepsOpen == IInv /\ OpenWhileListed /\ [Next]_vars => OpenWhileListed'
  <1> SUFFICES ASSUME IInv, OpenWhileListed, [Next]_vars
               PROVE  OpenWhileListed'
    OBVIOUS
  <1>1. CASE CallFromScript
    BY <1>1, SendKeepsOpen DEF CallFromScript, Construct, Collect, CallObject, CallFunction
  <1>2. CASE ReceiveAny
    BY <1>2, ReceiveKeepsOpen DEF ReceiveAny
  <1>3. CASE HandleMessage
    <2>1. UNCHANGED <<callback_listeners, settlements, calls>>
      BY <1>3 DEF HandleMessage, OnConstruct, OnJSObjectCollected, RunFunction,
                  DropForObject, DropForHandler, script, history
    <2> QED
      BY <2>1 DEF OpenWhileListed
  <1>4. CASE PostResult \/ RunTask
    <2>1. UNCHANGED <<callback_listeners, settlements, calls>>
      BY <1>4 DEF PostResult, PostResultOnClient, PostResultOnWorker, Post, RunTask
    <2> QED
      BY <2>1 DEF OpenWhileListed
  <1>5. CASE OnInstanceCreated \/ DeleteInstance \/ UNCHANGED vars
    <2>1. UNCHANGED <<callback_listeners, settlements, calls>>
      BY <1>5 DEF OnInstanceCreated, DeleteInstance, vars, script, history
    <2> QED
      BY <2>1 DEF OpenWhileListed
  <1>6. CASE OnInstanceDestroyed
    <2>1. /\ callback_listeners' = [i \in CallbackIds |-> NoCall]
          /\ UNCHANGED <<settlements, calls>>
      BY <1>6 DEF OnInstanceDestroyed, history
    <2> QED
      BY <2>1 DEF OpenWhileListed
  <1> QED
    BY <1>1, <1>2, <1>3, <1>4, <1>5, <1>6 DEF Next

\* However often native code posts a result for a call, from whatever thread,
\* and whether or not a wrapper threw the first time, its promise is settled
\* at most once: the callback of sendMsg leaves the table as it settles.
THEOREM PromiseSettlesOnceHolds == Spec => []PromiseSettlesOnce
  <1>1. Init => OpenWhileListed
    BY DEF Init, OpenWhileListed
  <1>2. OpenWhileListed => PromiseSettlesOnce
    BY DEF OpenWhileListed, PromiseSettlesOnce
  <1> QED
    BY <1>1, <1>2, NextKeepsOpen, Invariance, PTL DEF Spec
-----------------------------------------------------------------------------
(* No answer is lost. *)

\* Something carries call c with the callback identifier id.
Carries(c, id) ==
    \/ \E i \in 1 .. Len(to_native) : to_native[i].call = c /\ to_native[i].cb = id
    \/ \E i \in 1 .. Len(to_js) : to_js[i].call = c /\ to_js[i].cb = id
    \/ \E i \in 1 .. Len(tasks) : tasks[i].call = c /\ tasks[i].cb = id
    \/ \E k \in infos : k.call = c /\ k.cb = id

\* A call with a callback is carried with an identifier, and its callback has
\* left the table only by getting the result of that call.
CallbackWaits ==
    \A c \in Calls, id \in CallbackIds \cup {NoCallback} :
        Carries(c, id) /\ HasCallback(c) =>
            /\ id # NoCallback
            /\ OfOpenPage(c) /\ callback_listeners[id] = NoCall => Delivered(c)

\* AnsweredNotLost, where a task must hold the list itself and not only some
\* result of the same call.
ListTask(c) == \E i \in 1 .. Len(tasks) : tasks[i].call = c /\ tasks[i].result = "list"
AnswerTravels ==
    \A a \in answered :
        LET c == a[1]
        IN  /\ c \in 1 .. Len(calls)
            /\ a[2] = "list" /\ OfOpenPage(c) /\ HasCallback(c)
               => Delivered(c) \/ ListTask(c) \/ InTransit(to_js, c)

\* What is carried is a call that was made, with a well-formed identifier.
LEMMA CarriesKnown ==
    ASSUME IInv, NEW c, NEW id, Carries(c, id)
    PROVE  c \in 1 .. Len(calls) /\ c \in Calls /\ id \in CallbackIds \cup {NoCallback}
  <1>1. c \in 1 .. Len(calls) /\ id \in CallbackIds \cup {NoCallback}
    BY CarriedIds DEF Carries, IInv, CarriersKnown
  <1>2. Len(calls) \in Nat /\ Len(calls) \leq MaxCalls
    BY DEF IInv, TypeOK
  <1> QED
    BY <1>1, <1>2

\* A carried identifier of the open page names its own callback, if any.
LEMMA CarriesOwn ==
    ASSUME IInv, CallbacksOwned, NEW c, NEW id, Carries(c, id),
           id # NoCallback, OfOpenPage(c)
    PROVE  callback_listeners[id] \in {NoCall, c}
  BY DEF Carries, CallbacksOwned, OwnCallback, OfOpenPage

\* Native code takes a message over with its identifier.
LEMMA TakenCarries ==
    ASSUME IInv, HandleMessage, NEW c, NEW id, Carries(c, id)'
    PROVE  Carries(c, id)
  <1>1. /\ Dispatching
        /\ to_native' = Tail(to_native)
        /\ infos' \subseteq infos \cup {Oldest}
        /\ UNCHANGED <<to_js, tasks>>
    BY DEF HandleMessage, OnConstruct, OnJSObjectCollected, RunFunction,
           DropForObject, DropForHandler, native
  <1>2. /\ \E i \in 1 .. Len(to_native) : Oldest = to_native[i]
        /\ \A i \in 1 .. Len(to_native') :
              \E j \in 1 .. Len(to_native) : to_native'[i] = to_native[j]
    BY <1>1, TakenFacts
  <1> QED
    BY <1>1, <1>2 DEF Carries

\* The script takes a result out of the channel.
LEMMA ReceiveCarries ==
    ASSUME IInv, NEW outcome, Receive(outcome), NEW c, NEW id, Carries(c, id)'
    PROVE  Carries(c, id)
  <1> DEFINE S == [call : Calls, cb : CallbackIds]
  <1>1. /\ to_js' = Tail(to_js) /\ to_js # <<>> /\ to_js \in Seq(S)
        /\ UNCHANGED <<to_native, tasks, infos>>
    BY DEF Receive, native, IInv, TypeOK
  <1> HIDE DEF S
  <1>2. \A i \in 1 .. Len(to_js') :
          i + 1 \in 1 .. Len(to_js) /\ to_js'[i] = to_js[i + 1]
    BY <1>1
  <1> QED
    BY <1>1, <1>2 DEF Carries

\* A result that is dispatched is carried on with its identifier, and a list
\* for a callback of the open page is not dropped.
LEMMA DispatchCarries ==
    ASSUME IInv, NEW r \in Result, DispatchResult(r)
    PROVE  /\ \A i \in 1 .. Len(to_js') :
                 \/ i \in 1 .. Len(to_js) /\ to_js'[i] = to_js[i]
                 \/ to_js'[i].call = r.call /\ to_js'[i].cb = r.cb
           /\ \A c : InTransit(to_js, c) => InTransit(to_js', c)
           /\ /\ r.result = "list" /\ r.cb # NoCallback
              /\ OfOpenPage(r.call) /\ HasCallback(r.call)
              => InTransit(to_js', r.call)
  <1> DEFINE m == [call |-> r.call, cb |-> r.cb]
  <1>1. to_js \in Seq([call : Calls, cb : CallbackIds]) /\ Len(to_js) \in Nat
    BY DEF IInv, TypeOK
  <1>2. to_js' = to_js \/ to_js' = Append(to_js, m)
    BY DEF DispatchResult
  <1>3. m.call = r.call /\ m.cb = r.cb
    OBVIOUS
  <1>4. /\ r.result = "list" /\ r.cb # NoCallback
        /\ OfOpenPage(r.call) /\ HasCallback(r.call)
        => to_js' = Append(to_js, m)
    BY DEF DispatchResult, OfOpenPage, HasCallback, CallbackForms, PromiseForms,
           HandlerValid, CanPost, IInv, CountersAgree
  <1> HIDE DEF m
  <1>5. CASE to_js' = Append(to_js, m)
    <2>1. /\ Len(to_js') = Len(to_js) + 1
          /\ to_js'[Len(to_js) + 1] = m
          /\ \A i \in 1 .. Len(to_js) : to_js'[i] = to_js[i]
          /\ \A i \in 1 .. Len(to_js') : i \in 1 .. Len(to_js) \/ i = Len(to_js) + 1
      BY <1>1, <1>5
    <2>2. Len(to_js) + 1 \in 1 .. Len(to_js') /\ 1 .. Len(to_js) \subseteq 1 .. Len(to_js')
      BY <1>1, <2>1
    <2> QED
      BY <1>3, <2>1, <2>2 DEF InTransit
  <1>6. CASE to_js' = to_js /\ to_js' # Append(to_js, m)
    BY <1>4, <1>6 DEF InTransit
  <1> QED
    BY <1>2, <1>5, <1>6

\* A result posted, or run, goes on with the identifier of its info; a task
\* that leaves the loop is in the channel, if the script can use it.
LEMMA ResultCarries ==
    ASSUME IInv, PostResult \/ RunTask
    PROVE  /\ \A c, id : Carries(c, id)' => Carries(c, id)
           /\ \A c : InTransit(to_js, c) => InTransit(to_js', c)
           /\ \A a \in answered' : a \in answered
                \/ \E k \in infos : a[1] = k.call /\ (a[2] = "list" =>
                      \/ ListTask(k.call)'
                      \/ (k.cb # NoCallback /\ OfOpenPage(k.call) /\ HasCallback(k.call)
                          => InTransit(to_js', k.call)))
           /\ \A c : ListTask(c) => \/ ListTask(c)'
                                    \/ \E id : Carries(c, id)
                                         /\ (id # NoCallback /\ OfOpenPage(c) /\ HasCallback(c)
                                             => InTransit(to_js', c))
  <1>1. /\ tasks \in Seq(Result) /\ Len(tasks) \in Nat
        /\ to_native' = to_native /\ infos' \subseteq infos
    <2>1. tasks \in Seq(Result)
      BY DEF IInv, TypeOK
    <2>2. to_native' = to_native /\ infos' \subseteq infos
      BY DEF PostResult, PostResultOnClient, PostResultOnWorker, Post, RunTask
    <2> QED
      BY <2>1, <2>2
  <1>2. ASSUME NEW k \in infos, NEW result \in {"list", "value"}, Post(k, result)
        PROVE  /\ [call |-> k.call, cb |-> k.cb, result |-> result] \in Result
               /\ answered' = answered \cup {<<k.call, result>>}
    BY <1>2, PostFacts DEF Message, Result, Post
  <1>3. ASSUME NEW k \in infos, NEW result \in {"list", "value"},
               PostResultOnClient(k, result)
        PROVE  /\ \A c, id : Carries(c, id)' => Carries(c, id)
               /\ \A c : InTransit(to_js, c) => InTransit(to_js', c)
               /\ tasks' = tasks
               /\ answered' = answered \cup {<<k.call, result>>}
               /\ result = "list" /\ k.cb # NoCallback /\ OfOpenPage(k.call)
                  /\ HasCallback(k.call) => InTransit(to_js', k.call)
    <2> DEFINE r == [call |-> k.call, cb |-> k.cb, result |-> result]
    <2>1. /\ r \in Result /\ DispatchResult(r) /\ tasks' = tasks
          /\ r.call = k.call /\ r.cb = k.cb /\ r.result = result
          /\ answered' = answered \cup {<<k.call, result>>}
      BY <1>2, <1>3 DEF PostResultOnClient
    <2> HIDE DEF r
    <2>2. /\ \A i \in 1 .. Len(to_js') :
                 \/ i \in 1 .. Len(to_js) /\ to_js'[i] = to_js[i]
                 \/ to_js'[i].call = r.call /\ to_js'[i].cb = r.cb
          /\ \A c : InTransit(to_js, c) => InTransit(to_js', c)
          /\ /\ r.result = "list" /\ r.cb # NoCallback
             /\ OfOpenPage(r.call) /\ HasCallback(r.call)
             => InTransit(to_js', r.call)
      BY <2>1, DispatchCarries
    <2>3. \A c, id : Carries(c, id)' => Carries(c, id)
      BY <1>1, <2>1, <2>2 DEF Carries
    <2> QED
      BY <2>1, <2>2, <2>3
  <1>4. ASSUME NEW k \in infos, NEW result \in {"list", "value"},
               PostResultOnWorker(k, result)
        PROVE  /\ \A c, id : Carries(c, id)' => Carries(c, id)
               /\ to_js' = to_js
               /\ answered' = answered \cup {<<k.call, result>>}
               /\ \A c : ListTask(c) => ListTask(c)'
               /\ result = "list" => ListTask(k.call)'
    <2> DEFINE r == [call |-> k.call, cb |-> k.cb, result |-> result]
    <2>1. /\ r \in Result /\ tasks' = Append(tasks, r) /\ to_js' = to_js
          /\ r.call = k.call /\ r.cb = k.cb /\ r.result = result
          /\ answered' = answered \cup {<<k.call, result>>}
      BY <1>2, <1>4 DEF PostResultOnWorker, PostTask
    <2> HIDE DEF r
    <2>2. /\ \A i \in 1 .. Len(tasks) : i \in 1 .. Len(tasks') /\ tasks'[i] = tasks[i]
          /\ Len(tasks) + 1 \in 1 .. Len(tasks') /\ tasks'[Len(tasks) + 1] = r
          /\ \A i \in 1 .. Len(tasks') : i \in 1 .. Len(tasks) \/ i = Len(tasks) + 1
      BY <1>1, <2>1
    <2>3. \A c, id : Carries(c, id)' => Carries(c, id)
      BY <1>1, <2>1, <2>2 DEF Carries
    <2> QED
      BY <2>1, <2>2, <2>3 DEF ListTask
  <1>5. CASE RunTask
    <2> DEFINE r == Head(tasks)
    <2>1. DispatchResult(r) /\ tasks' = Tail(tasks) /\ tasks # <<>> /\ answered' = answered
      BY <1>5 DEF RunTask
    <2>2. /\ r \in Result /\ r = tasks[1] /\ 1 \in 1 .. Len(tasks)
          /\ \A j \in 1 .. Len(tasks') :
                j + 1 \in 1 .. Len(tasks) /\ tasks'[j] = tasks[j + 1]
          /\ \A j \in 1 .. Len(tasks) : j = 1 \/ j - 1 \in 1 .. Len(tasks')
      BY <1>1, <2>1
    <2> HIDE DEF r
    <2>3. /\ \A i \in 1 .. Len(to_js') :
                 \/ i \in 1 .. Len(to_js) /\ to_js'[i] = to_js[i]
                 \/ to_js'[i].call = r.call /\ to_js'[i].cb = r.cb
          /\ \A c : InTransit(to_js, c) => InTransit(to_js', c)
          /\ /\ r.result = "list" /\ r.cb # NoCallback
             /\ OfOpenPage(r.call) /\ HasCallback(r.call)
             => InTransit(to_js', r.call)
      BY <2>1, <2>2, DispatchCarries
    <2>4. \A c, id : Carries(c, id)' => Carries(c, id)
      BY <1>1, <2>2, <2>3 DEF Carries
    <2>5. Carries(r.call, r.cb)
      BY <2>2 DEF Carries
    <2>6. \A j \in 1 .. Len(tasks) : j = 1 \/ tasks[j] = tasks'[j - 1]
      <3> SUFFICES ASSUME NEW j \in 1 .. Len(tasks), j # 1
                   PROVE  tasks[j] = tasks'[j - 1]
        OBVIOUS
      <3>1. j - 1 \in 1 .. Len(tasks') /\ (j - 1) + 1 = j
        BY <1>1, <2>2
      <3> QED
        BY <2>2, <3>1
    <2>7. ASSUME NEW c, ListTask(c)
          PROVE  ListTask(c)' \/ (r.call = c /\ r.result = "list")
      BY <2>2, <2>6, <2>7 DEF ListTask
    <2> QED
      BY <2>1, <2>3, <2>4, <2>5, <2>7
  <1>6. CASE PostResult
    <2>1. PICK k \in infos, result \in {"list", "value"} :
             PostResultOnClient(k, result) \/ PostResultOnWorker(k, result)
      BY <1>6 DEF PostResult
    <2>2. CASE PostResultOnClient(k, result)
      BY <1>3, <2>2 DEF ListTask
    <2>3. CASE PostResultOnWorker(k, result)
      BY <1>4, <2>3
    <2> QED
      BY <2>1, <2>2, <2>3
  <1> QED
    BY <1>5, <1>6

\* A new message carries the identifier under which its callback was stored.
LEMMA SendAnswers ==
    ASSUME IInv, CallbackWaits, AnswerTravels, CanCall,
           NEW o, NEW form, NEW by, NEW route, form # "binaryPlain",
           Send(o, form, by, route)
    PROVE  CallbackWaits' /\ AnswerTravels'
  <1> DEFINE n == Len(calls) + 1
             m == [call |-> n, cb |-> WireCallback(form)]
             r == [obj |-> o, form |-> form, by |-> by, route |-> route, page |-> page]
  <1>1. /\ calls \in Seq(Call) /\ to_native \in Seq(Message)
        /\ Len(calls) \in Nat /\ Len(to_native) \in Nat /\ Len(calls) < MaxCalls
        /\ callback_listeners \in [CallbackIds -> Calls \cup {NoCall}]
        /\ callback_id \in Nat /\ callback_id \leq Len(calls)
    BY DEF IInv, TypeOK, CountersAgree, CanCall
  <1>2. /\ calls' = Append(calls, r) /\ to_native' = Append(to_native, m)
        /\ UNCHANGED <<to_js, tasks, infos, answered, received, page, xw_instance_>>
        /\ callback_listeners' =
              IF form \in CallbackForms
              THEN [callback_listeners EXCEPT ![callback_id] = n]
              ELSE callback_listeners
    BY DEF Send, native
  <1>3. /\ \A c \in 1 .. Len(calls) : calls'[c] = calls[c]
        /\ calls'[n] = r /\ Len(calls') = n
    BY <1>1, <1>2
  <1>4. /\ \A i \in 1 .. Len(to_native') :
              \/ i \in 1 .. Len(to_native) /\ to_native'[i] = to_native[i]
              \/ to_native'[i] = m
    BY <1>1, <1>2
  <1>5. m.call = n /\ m.cb = WireCallback(form) /\ r.form = form
    OBVIOUS
  <1>6. n \in Calls /\ n # NoCall /\ callback_id \in CallbackIds
    BY <1>1
  <1>7. \A id \in CallbackIds : callback_listeners'[id] = NoCall => callback_listeners[id] = NoCall
    BY <1>1, <1>2, <1>6
  <1>8. form \in CallbackForms => callback_listeners'[callback_id] = n
    BY <1>1, <1>2, <1>6
  <1> HIDE DEF n, m, r
  <1>9. CallbackWaits'
    <2> SUFFICES ASSUME NEW c \in Calls, NEW id \in CallbackIds \cup {NoCallback},
                        Carries(c, id)', HasCallback(c)'
                 PROVE  /\ id # NoCallback
                        /\ (OfOpenPage(c) /\ callback_listeners[id] = NoCall => Delivered(c))'
      BY DEF CallbackWaits
    <2>1. Carries(c, id) \/ (c = n /\ id = WireCallback(form))
      BY <1>2, <1>4, <1>5 DEF Carries
    <2>2. CASE Carries(c, id)
      <3>1. c \in 1 .. Len(calls)
        BY <2>2, CarriesKnown
      <3>2. HasCallback(c) /\ (OfOpenPage(c)' => OfOpenPage(c))
        BY <1>2, <1>3, <3>1 DEF HasCallback, OfOpenPage
      <3>3. /\ id # NoCallback
            /\ OfOpenPage(c) /\ callback_listeners[id] = NoCall => Delivered(c)
        BY <2>2, <3>2 DEF CallbackWaits
      <3> QED
        BY <1>2, <1>7, <3>2, <3>3 DEF Delivered
    <2>3. CASE c = n /\ id = WireCallback(form)
      <3>1. form \in CallbackForms
        BY <1>3, <1>5, <2>3 DEF HasCallback
      <3>2. id = callback_id
        BY <2>3, <3>1 DEF WireCallback
      <3> QED
        BY <1>1, <1>6, <1>8, <3>1, <3>2
    <2> QED
      BY <2>1, <2>2, <2>3
  <1>10. AnswerTravels'
    <2> SUFFICES ASSUME NEW a \in answered
                 PROVE  /\ a[1] \in 1 .. Len(calls')
                        /\ (a[2] = "list" /\ OfOpenPage(a[1]) /\ HasCallback(a[1])
                            => Delivered(a[1]) \/ ListTask(a[1]) \/ InTransit(to_js, a[1]))'
      BY <1>2 DEF AnswerTravels
    <2>1. a[1] \in 1 .. Len(calls) /\ a[1] \in 1 .. Len(calls')
      BY <1>1, <1>3 DEF AnswerTravels, n
    <2>2. (OfOpenPage(a[1])' => OfOpenPage(a[1])) /\ (HasCallback(a[1])' => HasCallback(a[1]))
      BY <1>2, <1>3, <2>1 DEF HasCallback, OfOpenPage
    <2> QED
      BY <1>2, <2>1, <2>2 DEF AnswerTravels, Delivered, ListTask, InTransit
  <1> QED
    BY <1>9, <1>10

\* A result leaves the channel and runs its callback, unless that has run.
LEMMA ReceiveAnswers ==
    ASSUME IInv, CallbacksOwned, CallbackWaits, AnswerTravels,
           NEW outcome \in {"done", "keep", "throw"}, Receive(outcome)
    PROVE  CallbackWaits' /\ AnswerTravels'
  <1> DEFINE m == Head(to_js)
             f == callback_listeners[m.cb]
             S == [call : Calls, cb : CallbackIds]
  <1>1. /\ to_js \in Seq(S) /\ to_js # <<>> /\ to_js' = Tail(to_js)
        /\ callback_listeners \in [CallbackIds -> Calls \cup {NoCall}]
        /\ UNCHANGED <<calls, tasks, answered, page, xw_instance_>>
        /\ xw_instance_
    BY DEF Receive, ScriptRuns, native, IInv, TypeOK
  <1>2. /\ \/ f = NoCall /\ UNCHANGED <<callback_listeners, received>>
           \/ /\ f # NoCall
              /\ received' = received \cup {<<f, m.call>>}
              /\ \/ callback_listeners' = callback_listeners
                 \/ callback_listeners' = [callback_listeners EXCEPT ![m.cb] = NoCall]
    BY DEF Receive, ListenersAfter
  <1> HIDE DEF S
  <1>3. /\ m \in S /\ m = to_js[1] /\ 1 \in 1 .. Len(to_js) /\ Len(to_js) \in Nat
        /\ \A i \in 1 .. Len(to_js) :
              i = 1 \/ (i - 1 \in 1 .. Len(to_js') /\ to_js'[i - 1] = to_js[i])
    BY <1>1
  <1>4. m.call \in Calls /\ m.cb \in CallbackIds /\ m.cb # NoCallback
    BY <1>3 DEF S
  <1>5. Carries(m.call, m.cb)
    BY <1>3 DEF Carries
  <1>6. OfOpenPage(m.call)
    BY <1>1, <1>3, <1>5, CarriesKnown DEF OfOpenPage, IInv, ChannelsOfOpenPage
  <1>7. f \in {NoCall, m.call}
    BY <1>4, <1>5, <1>6, CarriesOwn
  <1> HIDE DEF m, f
  <1>8. \A id \in CallbackIds :
           \/ callback_listeners'[id] = callback_listeners[id]
           \/ id = m.cb /\ f # NoCall
    BY <1>1, <1>2
  <1>9. received \subseteq received' /\ (f # NoCall => <<m.call, m.call>> \in received')
    BY <1>2, <1>7
  <1>10. HasCallback(m.call) => <<m.call, m.call>> \in received'
    <2>1. HasCallback(m.call) /\ f = NoCall => <<m.call, m.call>> \in received
      BY <1>4, <1>5, <1>6 DEF CallbackWaits, Delivered, f
    <2> QED
      BY <1>9, <2>1
  <1>11. CallbackWaits'
    <2> SUFFICES ASSUME NEW c \in Calls, NEW id \in CallbackIds \cup {NoCallback},
                        Carries(c, id)', HasCallback(c)
                 PROVE  /\ id # NoCallback
                        /\ OfOpenPage(c) /\ callback_listeners'[id] = NoCall => Delivered(c)'
      BY <1>1 DEF CallbackWaits, HasCallback, OfOpenPage
    <2>1. Carries(c, id)
      BY ReceiveCarries
    <2>2. /\ id # NoCallback
          /\ OfOpenPage(c) /\ callback_listeners[id] = NoCall => Delivered(c)
      BY <2>1 DEF CallbackWaits
    <2>3. CASE callback_listeners'[id] = callback_listeners[id]
      BY <1>9, <2>2, <2>3 DEF Delivered
    <2>4. CASE id = m.cb /\ f # NoCall
      <3>1. OfOpenPage(c) => f \in {NoCall, c}
        BY <2>1, <2>2, <2>4, CarriesOwn DEF f
      <3>2. OfOpenPage(c) => c = m.call
        BY <1>7, <2>4, <3>1
      <3> QED
        BY <1>9, <2>2, <2>4, <3>2 DEF Delivered
    <2> QED
      BY <1>8, <2>2, <2>3, <2>4
  <1>12. AnswerTravels'
    <2> SUFFICES ASSUME NEW a \in answered
                 PROVE  /\ a[1] \in 1 .. Len(calls)
                        /\ a[2] = "list" /\ OfOpenPage(a[1]) /\ HasCallback(a[1])
                           => Delivered(a[1])' \/ ListTask(a[1]) \/ InTransit(to_js', a[1])
      BY <1>1 DEF AnswerTravels, HasCallback, OfOpenPage, ListTask
    <2>1. InTransit(to_js, a[1]) => InTransit(to_js', a[1]) \/ a[1] = m.call
      BY <1>3 DEF InTransit
    <2>2. Delivered(a[1]) => Delivered(a[1])'
      BY <1>9 DEF Delivered
    <2>3. a[1] = m.call /\ HasCallback(a[1]) => Delivered(a[1])'
      BY <1>10 DEF Delivered
    <2> QED
      BY <2>1, <2>2, <2>3 DEF AnswerTravels
  <1> QED
    BY <1>11, <1>12

\* What native code does to a call keeps its callback and its answer.
LEMMA NativeAnswers ==
    ASSUME IInv, CallbackWaits, AnswerTravels, HandleMessage \/ PostResult \/ RunTask
    PROVE  CallbackWaits' /\ AnswerTravels'
  <1>1. UNCHANGED <<callback_listeners, calls, page, xw_instance_>>
    BY DEF HandleMessage, OnConstruct, OnJSObjectCollected, RunFunction, DropForObject,
           DropForHandler, PostResult, PostResultOnClient, PostResultOnWorker, Post,
           RunTask, script, native, history
  <1>2. received \subseteq received'
    <2>1. CASE HandleMessage
      BY <2>1, HandleMessageInv
    <2>2. CASE PostResult \/ RunTask
      BY <2>2 DEF PostResult, PostResultOnClient, PostResultOnWorker, RunTask, DispatchResult
    <2> QED
      BY <2>1, <2>2
  <1>3. \A c, id : Carries(c, id)' => Carries(c, id)
    BY TakenCarries, ResultCarries
  <1>4. CallbackWaits'
    BY <1>1, <1>2, <1>3 DEF CallbackWaits, HasCallback, OfOpenPage, Delivered
  <1>5. CASE HandleMessage
    <2>1. UNCHANGED <<to_js, tasks, answered>>
      BY <1>5 DEF HandleMessage, OnConstruct, OnJSObjectCollected, RunFunction,
                  DropForObject, DropForHandler, history, native
    <2> QED
      BY <1>1, <1>2, <1>4, <2>1
         DEF AnswerTravels, HasCallback, OfOpenPage, Delivered, ListTask, InTransit
  <1>6. CASE PostResult \/ RunTask
    <2> SUFFICES ASSUME NEW a \in answered'
                 PROVE  /\ a[1] \in 1 .. Len(calls)
                        /\ a[2] = "list" /\ OfOpenPage(a[1]) /\ HasCallback(a[1])
                           => Delivered(a[1])' \/ ListTask(a[1])' \/ InTransit(to_js', a[1])
      BY <1>1, <1>4 DEF AnswerTravels, HasCallback, OfOpenPage, InTransit
    <2>1. CASE a \in answered
      <3>1. a[1] \in 1 .. Len(calls)
        BY <2>1 DEF AnswerTravels
      <3>2. Delivered(a[1]) => Delivered(a[1])'
        BY <1>2 DEF Delivered
      <3>3. ASSUME ListTask(a[1]), OfOpenPage(a[1]), HasCallback(a[1])
            PROVE  ListTask(a[1])' \/ InTransit(to_js', a[1])
        <4>1. CASE \E id : Carries(a[1], id)
                    /\ (id # NoCallback /\ OfOpenPage(a[1]) /\ HasCallback(a[1])
                        => InTransit(to_js', a[1]))
          BY <3>3, <4>1, CarriesKnown DEF CallbackWaits
        <4> QED
          BY <1>6, <3>3, <4>1, ResultCarries
      <3> QED
        BY <1>6, <2>1, <3>1, <3>2, <3>3, ResultCarries DEF AnswerTravels
    <2>2. CASE \E k \in infos : a[1] = k.call /\ (a[2] = "list" =>
                  \/ ListTask(k.call)'
                  \/ (k.cb # NoCallback /\ OfOpenPage(k.call) /\ HasCallback(k.call)
                      => InTransit(to_js', k.call)))
      <3> PICK k \in infos : a[1] = k.call /\ (a[2] = "list" =>
                  \/ ListTask(k.call)'
                  \/ (k.cb # NoCallback /\ OfOpenPage(k.call) /\ HasCallback(k.call)
                      => InTransit(to_js', k.call)))
        BY <2>2
      <3>1. Carries(k.call, k.cb)
        BY DEF Carries
      <3>2. k.call \in 1 .. Len(calls) /\ (HasCallback(k.call) => k.cb # NoCallback)
        BY <3>1, CarriesKnown DEF CallbackWaits
      <3>3. ListTask(k.call)' => ListTask(a[1])'
        BY DEF ListTask
      <3> QED
        BY <3>2, <3>3
    <2> QED
      BY <1>6, <2>1, <2>2, ResultCarries
  <1> QED
    BY <1>4, <1>5, <1>6

\* A page that opens or closes leaves no call of the open page behind.
LEMMA InstanceAnswers ==
    ASSUME IInv, CallbackWaits, AnswerTravels,
           OnInstanceCreated \/ OnInstanceDestroyed \/ DeleteInstance
    PROVE  CallbackWaits' /\ AnswerTravels'
  <1>1. /\ UNCHANGED <<tasks, infos, calls, answered, received>>
        /\ \/ UNCHANGED <<to_native, to_js, callback_listeners>>
           \/ to_native' = <<>> /\ to_js' = <<>>
    BY DEF OnInstanceCreated, OnInstanceDestroyed, DeleteInstance, history, script, channels
  <1>2. \A c : OfOpenPage(c)' => FALSE
    <2>1. CASE OnInstanceCreated
      <3>1. page' = page + 1 /\ page \in Nat /\ calls' = calls
        BY <2>1 DEF OnInstanceCreated, history, IInv, TypeOK
      <3>2. \A c \in 1 .. Len(calls) : calls[c].page \leq page
        BY DEF IInv, CountersAgree
      <3> QED
        BY <3>1, <3>2 DEF OfOpenPage
    <2>2. CASE OnInstanceDestroyed \/ DeleteInstance
      <3>1. ~xw_instance_'
        BY <2>2 DEF OnInstanceDestroyed, DeleteInstance
      <3> QED
        BY <3>1 DEF OfOpenPage
    <2> QED
      BY <2>1, <2>2
  <1>3. \A c, id : Carries(c, id)' => Carries(c, id)
    BY <1>1 DEF Carries
  <1> QED
    BY <1>1, <1>2, <1>3 DEF CallbackWaits, AnswerTravels, HasCallback

\* Every step keeps the callbacks and the answers of the open page.
LEMMA NextAnswers ==
    ASSUME "binaryPlain" \notin Forms
    PROVE  /\ IInv /\ CallbacksOwned /\ CallbackWaits /\ AnswerTravels /\ [Next]_vars
           => CallbackWaits' /\ AnswerTravels'
  <1> SUFFICES ASSUME IInv, CallbacksOwned, CallbackWaits, AnswerTravels, [Next]_vars
               PROVE  CallbackWaits' /\ AnswerTravels'
    OBVIOUS
  <1>1. CASE CallFromScript
    BY <1>1, SendAnswers DEF CallFromScript, Construct, Collect, CallObject, CallFunction
  <1>2. CASE ReceiveAny
    BY <1>2, ReceiveAnswers DEF ReceiveAny
  <1>3. CASE HandleMessage \/ PostResult \/ RunTask
    BY <1>3, NativeAnswers
  <1>4. CASE OnInstanceCreated \/ OnInstanceDestroyed \/ DeleteInstance
    BY <1>4, InstanceAnswers
  <1>5. CASE UNCHANGED vars
    BY <1>5 DEF vars, script, channels, native, history, CallbackWaits, AnswerTravels,
                Carries, HasCallback, OfOpenPage, Delivered, ListTask, InTransit
  <1> QED
    BY <1>1, <1>2, <1>3, <1>4, <1>5 DEF Next

\* A list native code posts for a call of the open page, from any thread and
\* at any moment, is on its way to the callback or has run it: the loop, the
\* weak pointer and the identifiers lose none; provided that scripts give
\* every binary message a callback.
THEOREM AnsweredNotLostHolds ==
    ASSUME "binaryPlain" \notin Forms
    PROVE  Spec => []AnsweredNotLost
  <1>1. Init => CallbacksOwned /\ CallbackWaits /\ AnswerTravels
    BY DEF Init, CallbacksOwned, CallbackWaits, AnswerTravels, Carries
  <1>2. IInv /\ CallbacksOwned /\ CallbackWaits /\ AnswerTravels /\ [Next]_vars
        => CallbacksOwned' /\ CallbackWaits' /\ AnswerTravels'
    BY NextOwned, NextAnswers
  <1>3. AnswerTravels => AnsweredNotLost
    BY DEF AnswerTravels, AnsweredNotLost, ListTask, InTransit
  <1> QED
    BY <1>1, <1>2, <1>3, Invariance, PTL DEF Spec

-----------------------------------------------------------------------------
(* A blocked script. *)

\* The script of the open page waits for a sync call it made, and the messages
\* the lifecycle tracker and the constructors send are no sync calls.
WaitingKnown ==
    /\ waiting # NoCall =>
          /\ waiting \in 1 .. Len(calls)
          /\ calls[waiting].form = "sync" /\ calls[waiting].page = page
          /\ xw_instance_
    /\ \A c \in 1 .. Len(calls) :
          calls[c].route \in {"construct", "collected"} => calls[c].form = "plain"

StuckInv == WaitingKnown /\ SyncStuckOnlyByStore

\* Calls of a script that is not blocked, of which the last may block it.
LEMMA SendWaits ==
    ASSUME IInv, StuckInv, CanCall, NEW o, NEW form, NEW by, NEW route,
           route \in {"construct", "collected"} => form = "plain",
           Send(o, form, by, route)
    PROVE  StuckInv'
  <1> DEFINE c == Len(calls) + 1
             m == [call |-> c, cb |-> WireCallback(form)]
             r == [obj |-> o, form |-> form, by |-> by, route |-> route, page |-> page]
  <1>1. /\ calls' = Append(calls, r) /\ to_native' = Append(to_native, m)
        /\ waiting' = IF form = "sync" THEN c ELSE waiting
        /\ UNCHANGED <<page, xw_instance_>>
    BY DEF Send, native
  <1>2. calls \in Seq(Call) /\ to_native \in Seq(Message) /\ Len(calls) \in Nat
    BY DEF IInv, TypeOK
  <1>3. waiting = NoCall /\ xw_instance_
    BY DEF CanCall, ScriptRuns
  <1>4. /\ Len(calls') = c /\ c \in 1 .. Len(calls') /\ calls'[c] = r
        /\ \A d \in 1 .. Len(calls') : d = c \/ (d \in 1 .. Len(calls) /\ calls'[d] = calls[d])
    <2> HIDE DEF r
    <2>1. calls' = Append(calls, r) /\ calls \in Seq(Call) /\ c = Len(calls) + 1
      BY <1>1, <1>2
    <2>2. Len(calls') = c /\ calls'[c] = r /\ \A d \in 1 .. Len(calls) : calls'[d] = calls[d]
      BY <2>1
    <2> HIDE DEF c
    <2> QED
      BY <1>2, <2>1, <2>2
  <1>5. Len(to_native') \in 1 .. Len(to_native') /\ to_native'[Len(to_native')] = m
    <2> HIDE DEF m
    <2> QED
      BY <1>1, <1>2
  <1>6. WaitingKnown'
    <2>1. \A d \in 1 .. Len(calls') :
            calls'[d].route \in {"construct", "collected"} => calls'[d].form = "plain"
      BY <1>4 DEF StuckInv, WaitingKnown
    <2>2. waiting' # NoCall => waiting' = c /\ form = "sync"
      BY <1>1, <1>3
    <2>3. c \in 1 .. Len(calls') /\ calls'[c].form = form /\ calls'[c].page = page'
      BY <1>1, <1>4
    <2> QED
      BY <1>1, <1>3, <2>1, <2>2, <2>3 DEF WaitingKnown
  <1>7. SyncStuckOnlyByStore'
    <2>1. waiting' # NoCall => waiting' = m.call
      BY <1>1, <1>3
    <2> QED
      BY <1>5, <2>1 DEF SyncStuckOnlyByStore, InTransit
  <1> QED
    BY <1>6, <1>7 DEF StuckInv

\* Native code takes the oldest message: it keeps the sync call the script
\* waits for, answers it, or the store drops it.
LEMMA TakenWaits ==
    ASSUME IInv, StuckInv, HandleMessage
    PROVE  StuckInv'
  <1>1. /\ Dispatching /\ to_native' = Tail(to_native)
        /\ UNCHANGED <<calls, tasks, page, xw_instance_>>
        /\ infos \subseteq infos' /\ refused \subseteq refused'
        /\ waiting' \in {waiting, NoCall}
    BY DEF HandleMessage, OnConstruct, OnJSObjectCollected, RunFunction, DropForObject,
           DropForHandler, history, script, native, AnsweredFalse
  <1>2. WaitingKnown'
    BY <1>1 DEF StuckInv, WaitingKnown
  <1>3. ASSUME waiting' # NoCall
        PROVE  \/ InTransit(to_native, waiting)' \/ Held(waiting)' \/ InTransit(tasks, waiting)'
               \/ waiting' \in refused' /\ calls'[waiting'].route \in ObjectRoutes
    <2>1. waiting' = waiting /\ waiting # NoCall
      BY <1>1, <1>3
    <2>2. /\ waiting \in 1 .. Len(calls) /\ calls[waiting].form = "sync"
          /\ calls[waiting].route \notin {"construct", "collected"}
      BY <2>1 DEF StuckInv, WaitingKnown
    <2>3. CASE Oldest.call = waiting
      <3>1. CASE OnConstruct \/ OnJSObjectCollected
        BY <2>2, <2>3, <3>1 DEF OnConstruct, OnJSObjectCollected, Asked
      <3>2. CASE RunFunction
        <4>1. Oldest \in infos'
          BY <3>2 DEF RunFunction
        <4> QED
          BY <2>1, <2>3, <4>1 DEF Held
      <3>3. CASE DropForObject
        BY <1>1, <2>1, <2>3, <3>3 DEF DropForObject, Asked
      <3>4. CASE DropForHandler
        BY <1>3, <2>2, <2>3, <3>4 DEF DropForHandler, Asked, AnsweredFalse
      <3> QED
        BY <3>1, <3>2, <3>3, <3>4 DEF HandleMessage
    <2>4. CASE Oldest.call # waiting
      <3>1. CASE InTransit(to_native, waiting)
        <4>1. PICK i \in 1 .. Len(to_native) : to_native[i].call = waiting
          BY <3>1 DEF InTransit
        <4>2. to_native \in Seq(Message) /\ to_native # <<>>
          BY <1>1 DEF IInv, TypeOK, Dispatching
        <4>3. i # 1
          BY <2>4, <4>1, <4>2 DEF Oldest
        <4>4. i - 1 \in 1 .. Len(to_native') /\ to_native'[i - 1] = to_native[i]
          BY <1>1, <4>2, <4>3, TailFacts
        <4> QED
          BY <2>1, <4>1, <4>4 DEF InTransit
      <3>2. CASE Held(waiting)
        BY <1>1, <2>1, <3>2 DEF Held
      <3>3. CASE InTransit(tasks, waiting)
        BY <1>1, <2>1, <3>3 DEF InTransit
      <3>4. CASE waiting \in refused /\ calls[waiting].route \in ObjectRoutes
        BY <1>1, <2>1, <3>4
      <3> QED
        BY <2>1, <3>1, <3>2, <3>3, <3>4 DEF StuckInv, SyncStuckOnlyByStore
    <2> QED
      BY <2>3, <2>4
  <1> QED
    BY <1>2, <1>3 DEF StuckInv, SyncStuckOnlyByStore

\* A result for the call the script waits for ends the wait, one for another
\* call leaves it alone.
LEMMA DispatchWaits ==
    ASSUME IInv, StuckInv, NEW r, DispatchResult(r)
    PROVE  /\ waiting' = waiting \/ waiting' = NoCall
           /\ r.call = waiting /\ waiting # NoCall => waiting' = NoCall
  <1>1. waiting' \in {waiting, NoCall}
    BY DEF DispatchResult
  <1>2. ASSUME r.call = waiting, waiting # NoCall
        PROVE  waiting' = NoCall
    <2>1. calls[r.call].form = "sync" /\ calls[r.call].page = page /\ xw_instance_
      BY <1>2 DEF StuckInv, WaitingKnown
    <2>2. handler
      BY <2>1 DEF IInv, CountersAgree
    <2> QED
      BY <2>1, <2>2 DEF DispatchResult, HandlerValid, CanPost
  <1> QED
    BY <1>1, <1>2

LEMMA ResultWaits ==
    ASSUME IInv, StuckInv, PostResult \/ RunTask
    PROVE  StuckInv'
  <1>1. /\ UNCHANGED <<calls, to_native, page, xw_instance_, refused>>
        /\ waiting' \in {waiting, NoCall}
    <2>1. CASE RunTask
      BY <2>1 DEF RunTask, DispatchResult
    <2>2. CASE PostResult
      BY <2>2 DEF PostResult, PostResultOnClient, PostResultOnWorker, Post, DispatchResult
    <2> QED
      BY <2>1, <2>2
  <1>2. WaitingKnown'
    BY <1>1 DEF StuckInv, WaitingKnown
  <1>3. ASSUME waiting' # NoCall
        PROVE  \/ InTransit(to_native, waiting)' \/ Held(waiting)' \/ InTransit(tasks, waiting)'
               \/ waiting' \in refused' /\ calls'[waiting'].route \in ObjectRoutes
    <2>1. waiting' = waiting /\ waiting # NoCall
      BY <1>1, <1>3
    <2>2. tasks \in Seq(Result)
      BY DEF IInv, TypeOK
    <2>3. CASE InTransit(to_native, waiting)
      BY <1>1, <2>1, <2>3 DEF InTransit
    <2>4. CASE waiting \in refused /\ calls[waiting].route \in ObjectRoutes
      BY <1>1, <2>1, <2>4
    <2>5. CASE Held(waiting)
      <3>1. PICK k \in infos : k.call = waiting
        BY <2>5 DEF Held
      <3>2. CASE k \in infos'
        BY <2>1, <3>1, <3>2 DEF Held
      <3>3. CASE k \notin infos'
        <4>1. ~RunTask
          BY <3>1, <3>3 DEF RunTask
        <4>2. PICK i \in infos, result \in {"list", "value"} :
                PostResultOnClient(i, result) \/ PostResultOnWorker(i, result)
          BY <4>1 DEF PostResult
        <4>3. i = k
          BY <3>1, <3>3, <4>2 DEF PostResultOnClient, PostResultOnWorker, Post
        <4> DEFINE r == [call |-> i.call, cb |-> i.cb, result |-> result]
        <4>4. r.call = waiting
          BY <3>1, <4>3
        <4>5. CASE PostResultOnClient(i, result)
          <5>1. DispatchResult(r)
            BY <4>5 DEF PostResultOnClient
          <5> HIDE DEF r
          <5> QED
            BY <1>3, <2>1, <4>4, <5>1, DispatchWaits
        <4>6. CASE PostResultOnWorker(i, result)
          <5>1. tasks' = Append(tasks, r)
            BY <4>6 DEF PostResultOnWorker, PostTask
          <5> HIDE DEF r
          <5>2. Len(tasks) + 1 \in 1 .. Len(tasks') /\ tasks'[Len(tasks) + 1] = r
            BY <2>2, <5>1
          <5> QED
            BY <2>1, <4>4, <5>2 DEF InTransit
        <4> QED
          BY <4>2, <4>5, <4>6
      <3> QED
        BY <3>2, <3>3
    <2>6. CASE InTransit(tasks, waiting)
      <3>1. PICK j \in 1 .. Len(tasks) : tasks[j].call = waiting
        BY <2>6 DEF InTransit
      <3>2. CASE tasks' = tasks
        BY <2>1, <2>6, <3>2 DEF InTransit
      <3>3. CASE RunTask
        <4>1. tasks # <<>> /\ tasks' = Tail(tasks) /\ DispatchResult(Head(tasks))
          BY <3>3 DEF RunTask
        <4>2. Head(tasks).call # waiting
          BY <1>3, <2>1, <4>1, DispatchWaits
        <4>3. j # 1
          BY <2>2, <3>1, <4>1, <4>2
        <4>4. j - 1 \in 1 .. Len(tasks') /\ tasks'[j - 1] = tasks[j]
          BY <2>2, <4>1, <4>3, TailFacts
        <4> QED
          BY <2>1, <3>1, <4>4 DEF InTransit
      <3>4. CASE PostResult /\ tasks' # tasks
        <4>1. PICK i \in infos, result \in {"list", "value"} : PostResultOnWorker(i, result)
          BY <3>4 DEF PostResult, PostResultOnClient
        <4> DEFINE r == [call |-> i.call, cb |-> i.cb, result |-> result]
        <4>2. tasks' = Append(tasks, r)
          BY <4>1 DEF PostResultOnWorker, PostTask
        <4> HIDE DEF r
        <4>3. j \in 1 .. Len(tasks') /\ tasks'[j] = tasks[j]
          BY <2>2, <4>2
        <4> QED
          BY <2>1, <3>1, <4>3 DEF InTransit
      <3> QED
        BY <3>2, <3>3, <3>4
    <2> QED
      BY <2>1, <2>3, <2>4, <2>5, <2>6 DEF StuckInv, SyncStuckOnlyByStore
  <1> QED
    BY <1>2, <1>3 DEF StuckInv, SyncStuckOnlyByStore

\* Every step of the bridge keeps a blocked script accounted for.
LEMMA NextStuck == IInv /\ StuckInv /\ [Next]_vars => StuckInv'
  <1> SUFFICES ASSUME IInv, StuckInv, [Next]_vars
               PROVE  StuckInv'
    OBVIOUS
  <1>1. CASE CallFromScript
    <2>1. ASSUME NEW o \in Objects, Construct(o) \/ Collect(o)
          PROVE  StuckInv'
      BY <2>1, SendWaits DEF Construct, Collect
    <2>2. ASSUME NEW o \in Objects, NEW form \in Forms, NEW by \in {"owner", "proxy"},
                 NEW route \in Routes, CallObject(o, form, by, route)
          PROVE  StuckInv'
      <3>1. route \notin {"construct", "collected"}
        BY <2>2 DEF CallObject, ObjectRoutes
      <3> QED
        BY <2>2, <3>1, SendWaits DEF CallObject
    <2>3. ASSUME NEW form \in Forms, NEW route \in Routes, CallFunction(form, route)
          PROVE  StuckInv'
      <3>1. route \notin {"construct", "collected"}
        BY <2>3 DEF CallFunction, DirectRoutes
      <3> QED
        BY <2>3, <3>1, SendWaits DEF CallFunction
    <2> QED
      BY <1>1, <2>1, <2>2, <2>3 DEF CallFromScript
  <1>2. CASE ReceiveAny
    <2>1. waiting = NoCall /\ UNCHANGED <<waiting, calls>>
      BY <1>2 DEF ReceiveAny, Receive, ScriptRuns
    <2> QED
      BY <2>1 DEF StuckInv, WaitingKnown, SyncStuckOnlyByStore
  <1>3. CASE HandleMessage
    BY <1>3, TakenWaits
  <1>4. CASE PostResult \/ RunTask
    BY <1>4, ResultWaits
  <1>5. CASE OnInstanceCreated \/ OnInstanceDestroyed \/ DeleteInstance
    <2>1. waiting' = NoCall /\ calls' = calls
      BY <1>5 DEF OnInstanceCreated, OnInstanceDestroyed, DeleteInstance, script, history,
                  IInv, CountersAgree, ChannelsOfOpenPage
    <2> QED
      BY <2>1 DEF StuckInv, WaitingKnown, SyncStuckOnlyByStore
  <1>6. CASE UNCHANGED vars
    <2>1. UNCHANGED <<waiting, to_native, infos, tasks, refused, calls, page, xw_instance_>>
      BY <1>6 DEF vars, script, channels, native, history
    <2> QED
      BY <2>1 DEF StuckInv, WaitingKnown, SyncStuckOnlyByStore, InTransit, Held
  <1> QED
    BY <1>1, <1>2, <1>3, <1>4, <1>5, <1>6 DEF Next

\* A script blocked in a sync call waits for an answer that native code still
\* has in its hands, or for a call the store dropped without one: no thread and
\* no end of a page loses the answer (HandleSyncMessage, DispatchResult).
THEOREM SyncStuckOnlyByStoreHolds == Spec => []SyncStuckOnlyByStore
  <1>1. Init => StuckInv
    BY DEF Init, StuckInv, WaitingKnown, SyncStuckOnlyByStore
  <1>2. StuckInv => SyncStuckOnlyByStore
    BY DEF StuckInv
  <1> QED
    BY <1>1, <1>2, NextStuck, Invariance, PTL DEF Spec

-----------------------------------------------------------------------------
(* The store and the script's garbage collector. *)

Places == Nat \ {0}

\* The message at a place of the channel is the one of an object's
\* construction, or of its collection.
Sent(i, o, route) ==
    /\ i \in 1 .. Len(to_native)
    /\ calls[to_native[i].call].obj = o
    /\ calls[to_native[i].call].route = route

\* It is a call of a method of the original object.
OwnerAsks(i, o) ==
    /\ i \in 1 .. Len(to_native)
    /\ calls[to_native[i].call].obj = o
    /\ calls[to_native[i].call].by = "owner"
    /\ calls[to_native[i].call].route \in ObjectRoutes

\* An object is constructed once and collected once, in this order.
QueueOrder ==
    \A o \in Objects : \A i, j \in Places :
        /\ Sent(i, o, "construct") =>
              /\ js_objects[o] # "none" /\ o \notin objects_
              /\ Sent(j, o, "construct") => i = j
              /\ Sent(j, o, "collected") => i < j
        /\ Sent(i, o, "collected") =>
              /\ js_objects[o] = "collected"
              /\ Sent(j, o, "collected") => i = j

Constructing(o) == \E i \in Places : Sent(i, o, "construct")
Collecting(o) == \E i \in Places : Sent(i, o, "collected")

\* The store holds what was constructed and not collected.
StoreTracks ==
    xw_instance_ =>
        \A o \in Objects :
            /\ js_objects[o] = "none" => o \notin objects_
            /\ js_objects[o] = "alive" => o \in objects_ \/ Constructing(o)
            /\ js_objects[o] = "collected" =>
                  /\ o \in objects_ \/ Constructing(o) => Collecting(o)
                  /\ Collecting(o) => o \in objects_ \/ Constructing(o)

\* Between two pages there are no objects.
StoreReset ==
    /\ ~xw_instance_ => \A o \in Objects : js_objects[o] = "none"
    /\ ~handler => objects_ = {}

\* A method of the original object is called between its construction and its
\* collection.
OwnerServed ==
    \A o \in Objects : \A i \in Places :
        OwnerAsks(i, o) =>
            /\ js_objects[o] # "none"
            /\ \A j \in Places : Sent(j, o, "collected") => i < j
            /\ o \in objects_ \/ \E j \in Places : j < i /\ Sent(j, o, "construct")

\* Only methods of an object are called on behalf of its owner.
CallKinds ==
    \A c \in 1 .. Len(calls) :
        /\ calls[c].by = "owner" => calls[c].route \in ObjectRoutes \cup {"construct", "collected"}
        /\ calls[c].route \in ObjectRoutes => calls[c].obj \in Objects
        /\ calls[c].route \in {"construct", "collected"} => calls[c].form = "plain"

\* The object of a pending promise lives, and was constructed before.
OwnersPromise(c) == c # NoCall /\ calls[c].form \in PromiseForms /\ calls[c].by = "owner"
Follows(j, c) == \E k \in 1 .. Len(to_native) : j < k /\ to_native[k].call = c
Retains(c) ==
    /\ calls[c].obj \in Objects
    /\ js_objects[calls[c].obj] = "alive"
    /\ \A j \in Places : Sent(j, calls[c].obj, "construct") => Follows(j, c)

PromiseRetains ==
    \A n \in CallbackIds :
        OwnersPromise(callback_listeners[n]) => Retains(callback_listeners[n])

\* Native code only drops calls that were made.
RefusedKnown == \A c \in refused : c \in 1 .. Len(calls)

StoreInv ==
    /\ QueueOrder
    /\ StoreTracks
    /\ StoreReset
    /\ OwnerServed
    /\ CallKinds
    /\ PromiseRetains
    /\ RefusedKnown
    /\ OwnerCallFindsObject

\* With the channel of a closed page nothing is sent.
LEMMA NothingSent ==
    ASSUME to_native = <<>>, NEW i, NEW o
    PROVE  ~Sent(i, o, "construct") /\ ~Sent(i, o, "collected") /\ ~OwnerAsks(i, o)
  BY DEF Sent, OwnerAsks

\* What a step that sends nothing and takes nothing leaves as it is.
LEMMA StoreStays ==
    ASSUME IInv, StoreInv,
           UNCHANGED <<js_objects, to_native, objects_, calls, refused, xw_instance_, handler>>,
           \A n \in CallbackIds : callback_listeners'[n] \in {callback_listeners[n], NoCall}
    PROVE  StoreInv'
  <1>1. /\ \A i, o, route : Sent(i, o, route)' <=> Sent(i, o, route)
        /\ \A i, o : OwnerAsks(i, o)' <=> OwnerAsks(i, o)
    BY DEF Sent, OwnerAsks
  <1>2. \A o : (Constructing(o)' <=> Constructing(o)) /\ (Collecting(o)' <=> Collecting(o))
    BY <1>1 DEF Constructing, Collecting
  <1>3. QueueOrder'
    BY <1>1 DEF StoreInv, QueueOrder
  <1>4. StoreTracks'
    BY <1>2 DEF StoreInv, StoreTracks
  <1>5. StoreReset' /\ CallKinds' /\ RefusedKnown' /\ OwnerCallFindsObject'
    BY DEF StoreInv, StoreReset, CallKinds, RefusedKnown, OwnerCallFindsObject
  <1>6. OwnerServed'
    BY <1>1 DEF StoreInv, OwnerServed
  <1>7. PromiseRetains'
    <2>1. ASSUME NEW c
          PROVE  (OwnersPromise(c)' <=> OwnersPromise(c)) /\ (Retains(c) => Retains(c)')
      BY <1>1 DEF OwnersPromise, Retains, Follows
    <2> SUFFICES ASSUME NEW n \in CallbackIds, OwnersPromise(callback_listeners[n])'
                 PROVE  Retains(callback_listeners[n])'
      BY DEF PromiseRetains
    <2>2. PICK c : c = callback_listeners'[n]
      OBVIOUS
    <2>3. OwnersPromise(c)'
      BY <2>2 DEF OwnersPromise
    <2>4. callback_listeners[n] = c
      BY <2>2, <2>3 DEF OwnersPromise
    <2>5. OwnersPromise(c) /\ (OwnersPromise(c) => Retains(c))
      BY <2>1, <2>3, <2>4 DEF StoreInv, PromiseRetains, OwnersPromise, Retains, Follows
    <2>6. Retains(c)'
      BY <2>1, <2>5
    <2> QED
      BY <2>2, <2>6 DEF Retains, Follows
  <1> QED
    BY <1>3, <1>4, <1>5, <1>6, <1>7 DEF StoreInv

\* A message is put behind those in the channel.
LEMMA SendPlaces ==
    ASSUME IInv, CanCall, NEW o, NEW form, NEW by, NEW route, Send(o, form, by, route),
           NEW n, n = Len(to_native) + 1, NEW p, NEW i \in Places, NEW rt
    PROVE  /\ Sent(i, p, rt)' <=> Sent(i, p, rt) \/ (i = n /\ p = o /\ rt = route)
           /\ OwnerAsks(i, p)' <=> \/ OwnerAsks(i, p)
                                   \/ i = n /\ p = o /\ by = "owner" /\ route \in ObjectRoutes
           /\ Sent(i, p, rt) => i < n
           /\ OwnerAsks(i, p) => i < n
           /\ n \in Places
  <1> DEFINE c == Len(calls) + 1
             m == [call |-> c, cb |-> WireCallback(form)]
             r == [obj |-> o, form |-> form, by |-> by, route |-> route, page |-> page]
  <1>1. calls' = Append(calls, r) /\ to_native' = Append(to_native, m)
    BY DEF Send
  <1>2. calls \in Seq(Call) /\ to_native \in Seq(Message) /\ CarriersKnown
    BY DEF IInv, TypeOK
  <1>3. calls'[c] = r /\ \A d \in 1 .. Len(calls) : calls'[d] = calls[d]
    <2> HIDE DEF r
    <2> QED
      BY <1>1, <1>2
  <1>4. /\ n \in Places /\ to_native'[n] = m /\ m.call = c
        /\ \A j \in Places : j \in 1 .. Len(to_native') <=> j = n \/ j \in 1 .. Len(to_native)
        /\ \A j \in 1 .. Len(to_native) : j # n /\ to_native'[j] = to_native[j]
    <2>1. m.call = c
      OBVIOUS
    <2> HIDE DEF m
    <2>2. Len(to_native') = n /\ Len(to_native) \in Nat
      BY <1>1, <1>2
    <2>3. \A j \in 1 .. Len(to_native) : j # n /\ to_native'[j] = to_native[j]
      BY <1>1, <1>2
    <2>4. to_native'[n] = m
      BY <1>1, <1>2
    <2> QED
      BY <2>1, <2>2, <2>3, <2>4 DEF Places
  <1>5. \A j \in 1 .. Len(to_native) : calls'[to_native'[j].call] = calls[to_native[j].call]
    BY <1>2, <1>3, <1>4 DEF CarriersKnown
  <1>6. r.obj = o /\ r.by = by /\ r.route = route
    OBVIOUS
  <1>7. i \in 1 .. Len(to_native) => i < n
    BY <1>2
  <1>8. (Sent(i, p, rt) => i < n) /\ (OwnerAsks(i, p) => i < n)
    BY <1>7 DEF Sent, OwnerAsks
  <1>9. CASE i = n
    <2>1. /\ i \in 1 .. Len(to_native') /\ i \notin 1 .. Len(to_native)
          /\ calls'[to_native'[i].call] = r
      BY <1>3, <1>4, <1>9
    <2> HIDE DEF r
    <2>2. ~Sent(i, p, rt) /\ ~OwnerAsks(i, p)
      BY <2>1 DEF Sent, OwnerAsks
    <2>3. Sent(i, p, rt)' <=> p = o /\ rt = route
      BY <1>6, <2>1 DEF Sent
    <2>4. OwnerAsks(i, p)' <=> p = o /\ by = "owner" /\ route \in ObjectRoutes
      BY <1>6, <2>1 DEF OwnerAsks
    <2> QED
      BY <1>4, <1>8, <1>9, <2>2, <2>3, <2>4
  <1>10. CASE i # n
    <2>1. i \in 1 .. Len(to_native') <=> i \in 1 .. Len(to_native)
      BY <1>4, <1>10
    <2>2. Sent(i, p, rt)' <=> Sent(i, p, rt)
      BY <1>5, <2>1 DEF Sent
    <2>3. OwnerAsks(i, p)' <=> OwnerAsks(i, p)
      BY <1>5, <2>1 DEF OwnerAsks
    <2> QED
      BY <1>4, <1>8, <1>10, <2>2, <2>3
  <1> QED
    BY <1>9, <1>10

\* What a call does to the objects: it constructs one, collects one that no
\* pending promise needs, or calls a method of one, or none.
SendKind(o, form, by, route) ==
    \/ /\ route = "construct" /\ form = "plain" /\ by = "owner" /\ o \in Objects
       /\ js_objects[o] = "none"
       /\ js_objects' = [js_objects EXCEPT ![o] = "alive"]
    \/ /\ route = "collected" /\ form = "plain" /\ by = "owner" /\ o \in Objects
       /\ js_objects[o] = "alive" /\ ~Retained(o)
       /\ js_objects' = [js_objects EXCEPT ![o] = "collected"]
    \/ /\ route \in ObjectRoutes /\ o \in Objects
       /\ by = "owner" => js_objects[o] = "alive"
       /\ js_objects' = js_objects
    \/ /\ route \in DirectRoutes /\ by = "proxy"
       /\ js_objects' = js_objects

LEMMA SendOrder ==
    ASSUME IInv, StoreInv, CanCall, NEW o, NEW form, NEW by, NEW route,
           Send(o, form, by, route), SendKind(o, form, by, route)
    PROVE  QueueOrder'
  <1> DEFINE n == Len(to_native) + 1
  <1>1. ASSUME NEW p, NEW i \in Places, NEW rt
        PROVE  /\ Sent(i, p, rt)' <=> Sent(i, p, rt) \/ (i = n /\ p = o /\ rt = route)
               /\ Sent(i, p, rt) => i < n
               /\ n \in Places
    <2>1. /\ Sent(i, p, rt)' <=> Sent(i, p, rt) \/ (i = n /\ p = o /\ rt = route)
          /\ OwnerAsks(i, p)' <=> \/ OwnerAsks(i, p)
                                  \/ i = n /\ p = o /\ by = "owner" /\ route \in ObjectRoutes
          /\ Sent(i, p, rt) => i < n
          /\ OwnerAsks(i, p) => i < n
          /\ n \in Places
      BY SendPlaces
    <2> QED
      BY <2>1
  <1> HIDE DEF n
  <1>2. objects_' = objects_ /\ xw_instance_ /\ js_objects \in [Objects -> {"none", "alive", "collected"}]
    BY DEF Send, native, CanCall, ScriptRuns, IInv, TypeOK
  <1>3. /\ route = "construct" => /\ js_objects[o] = "none" /\ o \in Objects
                                  /\ js_objects'[o] = "alive"
        /\ route = "collected" => /\ js_objects[o] = "alive" /\ o \in Objects
                                  /\ js_objects'[o] = "collected"
        /\ \A p \in Objects : js_objects[p] # "none" => js_objects'[p] # "none"
        /\ \A p \in Objects : js_objects[p] = "collected" => js_objects'[p] = "collected"
    BY <1>2 DEF SendKind, ObjectRoutes, DirectRoutes
  <1>4. route \in {"construct", "collected"} =>
            /\ \A j \in Places : ~Sent(j, o, "collected")
            /\ route = "construct" => /\ \A j \in Places : ~Sent(j, o, "construct")
                                      /\ o \notin objects_
    BY <1>2, <1>3 DEF StoreInv, QueueOrder, StoreTracks
  <1> SUFFICES ASSUME NEW p \in Objects, NEW i \in Places, NEW j \in Places
               PROVE  /\ Sent(i, p, "construct")' =>
                            /\ js_objects'[p] # "none" /\ p \notin objects_
                            /\ Sent(j, p, "construct")' => i = j
                            /\ Sent(j, p, "collected")' => i < j
                      /\ Sent(i, p, "collected")' =>
                            /\ js_objects'[p] = "collected"
                            /\ Sent(j, p, "collected")' => i = j
    BY <1>2 DEF QueueOrder
  <1>5. /\ Sent(i, p, "construct") =>
              /\ js_objects[p] # "none" /\ p \notin objects_
              /\ Sent(j, p, "construct") => i = j
              /\ Sent(j, p, "collected") => i < j
        /\ Sent(i, p, "collected") =>
              /\ js_objects[p] = "collected"
              /\ Sent(j, p, "collected") => i = j
    BY DEF StoreInv, QueueOrder
  <1>6. /\ \A k \in Places : Sent(k, p, "construct")' <=>
               Sent(k, p, "construct") \/ (k = n /\ p = o /\ route = "construct")
        /\ \A k \in Places : Sent(k, p, "collected")' <=>
               Sent(k, p, "collected") \/ (k = n /\ p = o /\ route = "collected")
        /\ \A k \in Places : Sent(k, p, "construct") => k < n
    BY <1>1
  <1>7. ASSUME Sent(i, p, "construct")'
        PROVE  /\ js_objects'[p] # "none" /\ p \notin objects_
               /\ Sent(j, p, "construct")' => i = j
               /\ Sent(j, p, "collected")' => i < j
    <2>1. CASE Sent(i, p, "construct")
      BY <1>3, <1>4, <1>5, <1>6, <2>1
    <2>2. CASE ~Sent(i, p, "construct")
      <3>1. i = n /\ p = o /\ route = "construct"
        BY <1>6, <1>7, <2>2
      <3>2. "construct" # "collected" /\ "alive" # "none"
        OBVIOUS
      <3> QED
        BY <1>3, <1>4, <1>6, <3>1, <3>2
    <2> QED
      BY <2>1, <2>2
  <1>8. ASSUME Sent(i, p, "collected")'
        PROVE  /\ js_objects'[p] = "collected"
               /\ Sent(j, p, "collected")' => i = j
    <2>1. CASE Sent(i, p, "collected")
      BY <1>3, <1>4, <1>5, <1>6, <2>1
    <2>2. CASE ~Sent(i, p, "collected")
      <3>1. i = n /\ p = o /\ route = "collected"
        BY <1>6, <1>8, <2>2
      <3> QED
        BY <1>3, <1>4, <1>6, <3>1
    <2> QED
      BY <2>1, <2>2
  <1> QED
    BY <1>7, <1>8

LEMMA SendTracks ==
    ASSUME IInv, StoreInv, CanCall, NEW o, NEW form, NEW by, NEW route,
           Send(o, form, by, route), SendKind(o, form, by, route)
    PROVE  StoreTracks' /\ StoreReset' /\ OwnerServed'
  <1> DEFINE n == Len(to_native) + 1
  <1>1. ASSUME NEW p, NEW i \in Places, NEW rt
        PROVE  /\ Sent(i, p, rt)' <=> Sent(i, p, rt) \/ (i = n /\ p = o /\ rt = route)
               /\ OwnerAsks(i, p)' <=> \/ OwnerAsks(i, p)
                                       \/ i = n /\ p = o /\ by = "owner" /\ route \in ObjectRoutes
               /\ Sent(i, p, rt) => i < n
               /\ OwnerAsks(i, p) => i < n
               /\ n \in Places
    BY SendPlaces
  <1> HIDE DEF n
  <1>2. /\ objects_' = objects_ /\ xw_instance_ /\ xw_instance_' = xw_instance_
        /\ handler' = handler /\ js_objects \in [Objects -> {"none", "alive", "collected"}]
    BY DEF Send, native, CanCall, ScriptRuns, IInv, TypeOK
  <1>3. StoreReset'
    BY <1>2 DEF StoreInv, StoreReset, IInv, CountersAgree
  <1>4. ASSUME NEW p \in Objects
        PROVE  /\ Constructing(p)' <=> Constructing(p) \/ (p = o /\ route = "construct")
               /\ Collecting(p)' <=> Collecting(p) \/ (p = o /\ route = "collected")
    <2>1. n \in Places
      <3>1. 1 \in Places
        BY DEF Places
      <3> QED
        BY <1>1, <3>1
    <2> QED
      BY <1>1, <2>1 DEF Constructing, Collecting
  <1>5. ASSUME NEW p \in Objects
        PROVE  /\ js_objects'[p] = "none" => p \notin objects_
               /\ js_objects'[p] = "alive" => p \in objects_ \/ Constructing(p)'
               /\ js_objects'[p] = "collected" =>
                     /\ p \in objects_ \/ Constructing(p)' => Collecting(p)'
                     /\ Collecting(p)' => p \in objects_ \/ Constructing(p)'
    <2>1. /\ js_objects[p] = "none" => p \notin objects_
          /\ js_objects[p] = "alive" => p \in objects_ \/ Constructing(p)
          /\ js_objects[p] = "collected" =>
                /\ p \in objects_ \/ Constructing(p) => Collecting(p)
                /\ Collecting(p) => p \in objects_ \/ Constructing(p)
      BY <1>2 DEF StoreInv, StoreTracks
    <2>2. CASE p = o /\ route = "construct"
      <3>1. js_objects'[p] = "alive"
        BY <1>2, <2>2 DEF SendKind, ObjectRoutes, DirectRoutes
      <3> QED
        BY <1>4, <2>2, <3>1
    <2>3. CASE p = o /\ route = "collected"
      <3>1. js_objects[p] = "alive" /\ js_objects'[p] = "collected"
        BY <1>2, <2>3 DEF SendKind, ObjectRoutes, DirectRoutes
      <3> QED
        BY <1>4, <2>1, <2>3, <3>1
    <2>4. CASE ~(p = o /\ route \in {"construct", "collected"})
      <3>1. js_objects'[p] = js_objects[p]
        BY <1>2, <2>4 DEF SendKind
      <3>2. (Constructing(p)' <=> Constructing(p)) /\ (Collecting(p)' <=> Collecting(p))
        BY <1>4, <2>4
      <3> QED
        BY <2>1, <3>1, <3>2
    <2> QED
      BY <2>2, <2>3, <2>4
  <1>6. StoreTracks'
    BY <1>2, <1>5 DEF StoreTracks
  <1>7. ASSUME NEW p \in Objects, NEW i \in Places, OwnerAsks(i, p)'
        PROVE  /\ js_objects'[p] # "none"
               /\ \A j \in Places : Sent(j, p, "collected")' => i < j
               /\ p \in objects_ \/ \E j \in Places : j < i /\ Sent(j, p, "construct")'
    <2>1. CASE OwnerAsks(i, p)
      <3>1. /\ js_objects[p] # "none"
            /\ \A j \in Places : Sent(j, p, "collected") => i < j
            /\ p \in objects_ \/ \E j \in Places : j < i /\ Sent(j, p, "construct")
            /\ i < n
        BY <1>1, <2>1 DEF StoreInv, OwnerServed
      <3>2. js_objects'[p] # "none"
        BY <1>2, <3>1 DEF SendKind
      <3> QED
        BY <1>1, <3>1, <3>2
    <2>2. CASE ~OwnerAsks(i, p)
      <3>1. i = n /\ p = o /\ by = "owner" /\ route \in ObjectRoutes
        BY <1>1, <1>7, <2>2
      <3>2. js_objects'[p] = "alive" /\ js_objects[p] = "alive" /\ route \notin {"construct", "collected"}
        BY <1>2, <3>1 DEF SendKind, ObjectRoutes, DirectRoutes
      <3>3. \A j \in Places : ~Sent(j, p, "collected")
        BY <3>2 DEF StoreInv, QueueOrder
      <3>4. p \in objects_ \/ \E j \in Places : Sent(j, p, "construct")
        BY <1>2, <3>2 DEF StoreInv, StoreTracks, Constructing
      <3> QED
        BY <1>1, <3>1, <3>2, <3>3, <3>4
    <2> QED
      BY <2>1, <2>2
  <1>8. OwnerServed'
    BY <1>2, <1>7 DEF OwnerServed
  <1> QED
    BY <1>3, <1>6, <1>8

\* The listener of a promise, and what a message that was put behind the others
\* means to it.
LEMMA SendRetains ==
    ASSUME IInv, StoreInv, CanCall, NEW o, NEW form, NEW by, NEW route,
           Send(o, form, by, route), SendKind(o, form, by, route)
    PROVE  CallKinds' /\ PromiseRetains' /\ RefusedKnown' /\ OwnerCallFindsObject'
  <1>0. PICK c : c = Len(calls) + 1
    OBVIOUS
  <1> DEFINE n == Len(to_native) + 1
             m == [call |-> c, cb |-> WireCallback(form)]
             r == [obj |-> o, form |-> form, by |-> by, route |-> route, page |-> page]
  <1>1. /\ calls' = Append(calls, r) /\ to_native' = Append(to_native, m)
        /\ refused' = refused
    BY <1>0 DEF Send
  <1>2. /\ calls \in Seq(Call) /\ to_native \in Seq(Message) /\ refused \subseteq Calls
        /\ js_objects \in [Objects -> {"none", "alive", "collected"}]
        /\ callback_id \in 0 .. MaxCalls
        /\ callback_listeners \in [CallbackIds -> Calls \cup {NoCall}]
    BY DEF IInv, TypeOK
  <1>3. /\ Len(calls') = c /\ c \in Nat /\ calls'[c] = r
        /\ \A d \in 1 .. Len(calls) : calls'[d] = calls[d]
        /\ \A d \in 1 .. Len(calls') : d = c \/ d \in 1 .. Len(calls)
    <2> HIDE DEF r
    <2>1. Len(calls') = c /\ Len(calls) \in Nat
      BY <1>0, <1>1, <1>2
    <2>2. calls'[c] = r /\ \A d \in 1 .. Len(calls) : calls'[d] = calls[d]
      BY <1>0, <1>1, <1>2
    <2> QED
      BY <1>0, <2>1, <2>2
  <1>4. /\ to_native'[n] = m /\ m.call = c /\ n \in 1 .. Len(to_native') /\ n \in Nat
        /\ \A j \in 1 .. Len(to_native) : j \in 1 .. Len(to_native') /\ to_native'[j] = to_native[j]
    <2>1. m.call = c
      OBVIOUS
    <2> HIDE DEF m
    <2> QED
      BY <1>1, <1>2, <2>1
  <1>5. r.obj = o /\ r.form = form /\ r.by = by /\ r.route = route
    OBVIOUS
  <1>6. ASSUME NEW p, NEW i \in Places, NEW rt
        PROVE  /\ Sent(i, p, rt)' <=> Sent(i, p, rt) \/ (i = n /\ p = o /\ rt = route)
               /\ OwnerAsks(i, p)' <=> \/ OwnerAsks(i, p)
                                       \/ i = n /\ p = o /\ by = "owner" /\ route \in ObjectRoutes
               /\ Sent(i, p, rt) => i < n
               /\ OwnerAsks(i, p) => i < n
               /\ n \in Places
    BY SendPlaces
  <1> HIDE DEF r, m, n
  <1>7. CallKinds'
    <2>1. /\ by = "owner" => route \in ObjectRoutes \cup {"construct", "collected"}
          /\ route \in ObjectRoutes => o \in Objects
          /\ route \in {"construct", "collected"} => form = "plain"
      BY DEF SendKind, ObjectRoutes, DirectRoutes
    <2> SUFFICES ASSUME NEW d \in 1 .. Len(calls')
                 PROVE  /\ calls'[d].by = "owner"
                              => calls'[d].route \in ObjectRoutes \cup {"construct", "collected"}
                        /\ calls'[d].route \in ObjectRoutes => calls'[d].obj \in Objects
                        /\ calls'[d].route \in {"construct", "collected"} => calls'[d].form = "plain"
      BY DEF CallKinds
    <2>2. CASE d = c
      BY <1>3, <1>5, <2>1, <2>2
    <2>3. CASE d \in 1 .. Len(calls)
      BY <1>3, <2>3 DEF StoreInv, CallKinds
    <2> QED
      BY <1>3, <2>2, <2>3
  <1>8. RefusedKnown' /\ OwnerCallFindsObject'
    <2>1. \A d \in refused : d \in 1 .. Len(calls)
      BY DEF StoreInv, RefusedKnown
    <2> QED
      BY <1>1, <1>3, <2>1 DEF StoreInv, RefusedKnown, OwnerCallFindsObject
  <1>9. ASSUME NEW d \in 1 .. Len(calls), OwnersPromise(d), Retains(d),
               \E i \in CallbackIds : callback_listeners[i] = d
        PROVE  Retains(d)'
    <2>1. calls'[d] = calls[d]
      BY <1>3
    <2>0. PICK p : p = calls[d].obj
      OBVIOUS
    <2>2. p \in Objects /\ js_objects[p] = "alive"
      BY <1>9, <2>0 DEF Retains
    <2>3. Retained(p)
      BY <1>9, <2>0 DEF Retained, OwnersPromise
    <2>4. js_objects'[p] = "alive" /\ ~(p = o /\ route = "construct")
      BY <1>2, <2>2, <2>3 DEF SendKind, ObjectRoutes, DirectRoutes
    <2>5. ASSUME NEW j \in Places, Sent(j, p, "construct")'
          PROVE  Follows(j, d)'
      <3>1. Sent(j, p, "construct")
        <4>1. Sent(j, p, "construct")' => Sent(j, p, "construct") \/ (j = n /\ p = o /\ "construct" = route)
          BY <1>6
        <4> QED
          BY <2>4, <2>5, <4>1
      <3>2. PICK k \in 1 .. Len(to_native) : j < k /\ to_native[k].call = d
        BY <1>9, <2>0, <3>1 DEF Retains, Follows
      <3> QED
        BY <1>4, <3>2 DEF Follows
    <2> QED
      BY <2>0, <2>1, <2>2, <2>4, <2>5 DEF Retains
  <1>10. OwnersPromise(c)' => Retains(c)'
    <2> SUFFICES ASSUME OwnersPromise(c)'
                 PROVE  Retains(c)'
      OBVIOUS
    <2>1. form \in PromiseForms /\ by = "owner"
      BY <1>3, <1>5 DEF OwnersPromise
    <2>2. o \in Objects /\ js_objects'[o] = "alive" /\ route \in ObjectRoutes
      BY <2>1 DEF SendKind, PromiseForms
    <2>3. ASSUME NEW j \in Places, Sent(j, o, "construct")'
          PROVE  Follows(j, c)'
      <3>1. Sent(j, o, "construct")
        BY <1>6, <2>2, <2>3 DEF ObjectRoutes
      <3>2. j < n
        BY <1>6, <3>1
      <3> QED
        BY <1>4, <3>2 DEF Follows
    <2> QED
      BY <1>3, <1>5, <2>2, <2>3 DEF Retains
  <1>11. PromiseRetains'
    <2> SUFFICES ASSUME NEW i \in CallbackIds, OwnersPromise(callback_listeners[i])'
                 PROVE  Retains(callback_listeners[i])'
      BY DEF PromiseRetains
    <2>1. callback_listeners'[i] \in {callback_listeners[i], c}
      BY <1>0, <1>2 DEF Send
    <2>2. CASE callback_listeners'[i] = c
      <3>1. OwnersPromise(c)'
        BY <2>2 DEF OwnersPromise
      <3>2. Retains(c)'
        BY <1>10, <3>1
      <3> QED
        BY <2>2, <3>2 DEF Retains, Follows
    <2>3. CASE callback_listeners'[i] = callback_listeners[i]
      <3>1. PICK d : d = callback_listeners[i]
        OBVIOUS
      <3>2. OwnersPromise(d)' /\ d # NoCall
        BY <2>3, <3>1 DEF OwnersPromise
      <3>3. d \in 1 .. Len(calls)
        BY <1>2, <3>1, <3>2 DEF IInv, CarriersKnown
      <3>4. OwnersPromise(d)
        BY <1>3, <3>2, <3>3 DEF OwnersPromise
      <3>5. Retains(d)
        BY <3>1, <3>4 DEF StoreInv, PromiseRetains, OwnersPromise, Retains, Follows
      <3>6. Retains(d)'
        BY <1>9, <3>1, <3>3, <3>4, <3>5
      <3> QED
        BY <2>3, <3>1, <3>6 DEF Retains, Follows
    <2> QED
      BY <2>1, <2>2, <2>3
  <1> QED
    BY <1>7, <1>8, <1>11

LEMMA SendStore ==
    ASSUME IInv, StoreInv, CanCall, NEW o, NEW form, NEW by, NEW route,
           Send(o, form, by, route), SendKind(o, form, by, route)
    PROVE  StoreInv'
  BY SendOrder, SendTracks, SendRetains DEF StoreInv

\* Native code takes the message at the first place.
LEMMA TakenPlaces ==
    ASSUME IInv, Dispatching, to_native' = Tail(to_native), calls' = calls
    PROVE  /\ \A p, rt : Sent(1, p, rt) <=> p = Asked.obj /\ rt = Asked.route
           /\ \A p : OwnerAsks(1, p) <=>
                 p = Asked.obj /\ Asked.by = "owner" /\ Asked.route \in ObjectRoutes
           /\ \A i \in Places : \A p, rt : Sent(i, p, rt)' <=> Sent(i + 1, p, rt)
           /\ \A i \in Places : \A p : OwnerAsks(i, p)' <=> OwnerAsks(i + 1, p)
           /\ \A i \in Places : i + 1 \in Places /\ i + 1 # 1
           /\ \A i \in Places : i # 1 => i - 1 \in Places /\ (i - 1) + 1 = i
           /\ 1 \in Places
  <1>1. to_native \in Seq(Message) /\ to_native # <<>>
    BY DEF IInv, TypeOK, Dispatching
  <1>2. 1 \in 1 .. Len(to_native) /\ to_native[1] = Oldest
    BY <1>1 DEF Oldest
  <1>3. ASSUME NEW i \in Places
        PROVE  /\ i \in 1 .. Len(to_native') <=> i + 1 \in 1 .. Len(to_native)
               /\ i \in 1 .. Len(to_native') => to_native'[i] = to_native[i + 1]
    <2>1. Len(to_native') = Len(to_native) - 1 /\ Len(to_native) \in Nat
      BY <1>1
    <2>2. i \in Nat /\ i \geq 1
      BY DEF Places
    <2> QED
      BY <1>1, <2>1, <2>2, TailFacts
  <1>4. /\ \A p, rt : Sent(1, p, rt) <=> p = Asked.obj /\ rt = Asked.route
        /\ \A p : OwnerAsks(1, p) <=>
              p = Asked.obj /\ Asked.by = "owner" /\ Asked.route \in ObjectRoutes
    BY <1>2 DEF Sent, OwnerAsks, Asked
  <1>5. \A i \in Places : \A p, rt : Sent(i, p, rt)' <=> Sent(i + 1, p, rt)
    BY <1>3 DEF Sent
  <1>6. \A i \in Places : \A p : OwnerAsks(i, p)' <=> OwnerAsks(i + 1, p)
    BY <1>3 DEF OwnerAsks
  <1>7. /\ \A i \in Places : i + 1 \in Places /\ i + 1 # 1
        /\ \A i \in Places : i # 1 => i - 1 \in Places /\ (i - 1) + 1 = i
        /\ 1 \in Places
    BY DEF Places
  <1> QED
    BY <1>4, <1>5, <1>6, <1>7

\* What native code does with the message it takes.
LEMMA TakenKind ==
    ASSUME IInv, StoreInv, HandleMessage
    PROVE  /\ Dispatching /\ to_native' = Tail(to_native)
           /\ UNCHANGED <<js_objects, callback_listeners, calls, xw_instance_, handler>>
           /\ \/ Asked.route = "construct" /\ objects_' = objects_ \cup {Asked.obj}
              \/ Asked.route = "collected" /\ objects_' = objects_ \ {Asked.obj}
              \/ Asked.route \notin {"construct", "collected"} /\ objects_' = objects_
           /\ \/ refused' = refused
              \/ /\ refused' = refused \cup {Oldest.call}
                 /\ Asked.by = "owner" => Asked.route \in {"unknownMethod", "badArguments"}
  <1>1. CASE OnConstruct \/ OnJSObjectCollected
    BY <1>1 DEF OnConstruct, OnJSObjectCollected, StoreWithout, script, history
  <1>2. CASE RunFunction
    <2>1. Asked.route \in {"direct", "method"}
      BY <1>2 DEF RunFunction, Registered
    <2> QED
      BY <1>2, <2>1 DEF RunFunction, script, history
  <1>3. CASE DropForObject
    <2>1. /\ Dispatching /\ to_native' = Tail(to_native) /\ Asked.route \in ObjectRoutes
          /\ ~Registered(Asked) /\ refused' = refused \cup {Oldest.call}
          /\ UNCHANGED <<js_objects, callback_listeners, calls, xw_instance_, handler, objects_>>
      BY <1>3 DEF DropForObject, script, native
    <2>2. ASSUME Asked.by = "owner", Asked.route = "method"
          PROVE  FALSE
      <3>1. OwnerAsks(1, Asked.obj) /\ 1 \in Places
        BY <2>1, <2>2, TakenPlaces DEF ObjectRoutes
      <3>2. Asked.obj \in Objects
        <4>1. Oldest.call \in 1 .. Len(calls)
          BY <2>1, TakenFacts
        <4> QED
          BY <2>1, <4>1 DEF StoreInv, CallKinds, Asked
      <3>3. Asked.obj \in objects_ \/ \E j \in Places : j < 1
        BY <3>1, <3>2 DEF StoreInv, OwnerServed
      <3>4. ~\E j \in Places : j < 1
        BY DEF Places
      <3> QED
        BY <2>1, <2>2, <3>3, <3>4 DEF Registered
    <2> QED
      BY <2>1, <2>2 DEF ObjectRoutes
  <1>4. CASE DropForHandler
    <2>1. /\ Dispatching /\ to_native' = Tail(to_native)
          /\ Asked.route \in {"unknownFunction", "noArguments"}
          /\ refused' = refused \cup {Oldest.call}
          /\ UNCHANGED <<js_objects, callback_listeners, calls, xw_instance_, handler, objects_>>
      BY <1>4 DEF DropForHandler, native
    <2>2. Asked.by # "owner"
      <3>1. Oldest.call \in 1 .. Len(calls)
        BY <2>1, TakenFacts
      <3> QED
        BY <2>1, <3>1 DEF StoreInv, CallKinds, Asked, ObjectRoutes
    <2> QED
      BY <2>1, <2>2
  <1> QED
    BY <1>1, <1>2, <1>3, <1>4 DEF HandleMessage

LEMMA TakenStore ==
    ASSUME IInv, StoreInv, HandleMessage
    PROVE  StoreInv'
  <1>1. /\ Dispatching /\ to_native' = Tail(to_native)
        /\ UNCHANGED <<js_objects, callback_listeners, calls, xw_instance_, handler>>
    BY TakenKind
  <1>2. PICK x, rt : x = Asked.obj /\ rt = Asked.route
    OBVIOUS
  <1>3. /\ \/ rt = "construct" /\ objects_' = objects_ \cup {x}
           \/ rt = "collected" /\ objects_' = objects_ \ {x}
           \/ rt \notin {"construct", "collected"} /\ objects_' = objects_
        /\ rt = "construct" \/ rt = "collected" => x \in Objects
    <2>1. Oldest.call \in 1 .. Len(calls) /\ CountersAgree
      BY <1>1, TakenFacts DEF IInv
    <2> QED
      BY <1>2, <2>1, TakenKind DEF CountersAgree, Asked
  <1>4. /\ \A p, r : Sent(1, p, r) <=> p = x /\ r = rt
        /\ \A i \in Places : \A p, r : Sent(i, p, r)' <=> Sent(i + 1, p, r)
        /\ \A i \in Places : \A p : OwnerAsks(i, p)' <=> OwnerAsks(i + 1, p)
        /\ \A i \in Places : i + 1 \in Places /\ i + 1 # 1
        /\ \A i \in Places : i # 1 => i - 1 \in Places /\ (i - 1) + 1 = i
        /\ 1 \in Places
    BY <1>1, <1>2, TakenPlaces
  <1>5. \A p \in Objects : p # x => (p \in objects_' <=> p \in objects_)
    BY <1>3
  <1>6. \A i \in Places : 1 \leq i /\ i \in Int
    BY DEF Places
  <1>7. QueueOrder'
    <2> SUFFICES ASSUME NEW p \in Objects, NEW i \in Places, NEW j \in Places
                 PROVE  /\ Sent(i, p, "construct")' =>
                              /\ js_objects[p] # "none" /\ p \notin objects_'
                              /\ Sent(j, p, "construct")' => i = j
                              /\ Sent(j, p, "collected")' => i < j
                        /\ Sent(i, p, "collected")' =>
                              /\ js_objects[p] = "collected"
                              /\ Sent(j, p, "collected")' => i = j
      BY <1>1 DEF QueueOrder
    <2>1. \A a, b \in Places :
             /\ Sent(a, p, "construct") =>
                   /\ js_objects[p] # "none" /\ p \notin objects_
                   /\ Sent(b, p, "construct") => a = b
                   /\ Sent(b, p, "collected") => a < b
             /\ Sent(a, p, "collected") =>
                   /\ js_objects[p] = "collected"
                   /\ Sent(b, p, "collected") => a = b
      BY DEF StoreInv, QueueOrder
    <2>2. /\ \A r : Sent(i, p, r)' <=> Sent(i + 1, p, r)
          /\ \A r : Sent(j, p, r)' <=> Sent(j + 1, p, r)
          /\ i + 1 \in Places /\ j + 1 \in Places /\ i + 1 # 1
      BY <1>4
    <2>3. Sent(i + 1, p, "construct") => p \notin objects_'
      <3>1. CASE rt = "construct" /\ p = x
        <4>1. ~Sent(i + 1, p, "construct")
          BY <1>4, <2>1, <2>2, <3>1
        <4> QED
          BY <4>1
      <3>2. CASE ~(rt = "construct" /\ p = x)
        BY <1>3, <2>1, <2>2, <3>2
      <3> QED
        BY <3>1, <3>2
    <2>4. /\ Sent(i + 1, p, "construct") /\ Sent(j + 1, p, "construct") => i + 1 = j + 1
          /\ Sent(i + 1, p, "construct") /\ Sent(j + 1, p, "collected") => i + 1 < j + 1
          /\ Sent(i + 1, p, "collected") /\ Sent(j + 1, p, "collected") => i + 1 = j + 1
          /\ Sent(i + 1, p, "construct") => js_objects[p] # "none"
          /\ Sent(i + 1, p, "collected") => js_objects[p] = "collected"
      BY <2>1, <2>2
    <2>5. (i + 1 = j + 1 => i = j) /\ (i + 1 < j + 1 => i < j)
      BY <1>6
    <2> QED
      BY <2>2, <2>3, <2>4, <2>5
  <1>8. ASSUME NEW p \in Objects
        PROVE  /\ Constructing(p)' <=> \E i \in Places : i # 1 /\ Sent(i, p, "construct")
               /\ Collecting(p)' <=> \E i \in Places : i # 1 /\ Sent(i, p, "collected")
    BY <1>4 DEF Constructing, Collecting
  <1>9. StoreTracks'
    <2> SUFFICES ASSUME xw_instance_, NEW p \in Objects
                 PROVE  /\ js_objects[p] = "none" => p \notin objects_'
                        /\ js_objects[p] = "alive" => p \in objects_' \/ Constructing(p)'
                        /\ js_objects[p] = "collected" =>
                              /\ p \in objects_' \/ Constructing(p)' => Collecting(p)'
                              /\ Collecting(p)' => p \in objects_' \/ Constructing(p)'
      BY <1>1 DEF StoreTracks
    <2>1. /\ js_objects[p] = "none" => p \notin objects_
          /\ js_objects[p] = "alive" => p \in objects_ \/ Constructing(p)
          /\ js_objects[p] = "collected" =>
                /\ p \in objects_ \/ Constructing(p) => Collecting(p)
                /\ Collecting(p) => p \in objects_ \/ Constructing(p)
      BY DEF StoreInv, StoreTracks
    <2>2. \A a, b \in Places :
             /\ Sent(a, p, "construct") =>
                   /\ js_objects[p] # "none"
                   /\ Sent(b, p, "construct") => a = b
                   /\ Sent(b, p, "collected") => a < b
             /\ Sent(a, p, "collected") =>
                   /\ js_objects[p] = "collected"
                   /\ Sent(b, p, "collected") => a = b
      BY DEF StoreInv, QueueOrder
    <2>3. CASE p = x /\ rt = "construct"
      <3>1. Sent(1, p, "construct") /\ Constructing(p) /\ js_objects[p] # "none"
        BY <1>4, <2>2, <2>3 DEF Constructing
      <3>2. p \in objects_'
        BY <1>3, <2>3
      <3>3. Collecting(p) => Collecting(p)'
        BY <1>4, <1>8, <2>3 DEF Collecting
      <3> QED
        BY <2>1, <3>1, <3>2, <3>3
    <2>4. CASE p = x /\ rt = "collected"
      <3>1. Sent(1, p, "collected") /\ js_objects[p] = "collected"
        BY <1>4, <2>2, <2>4
      <3>2. p \notin objects_'
        BY <1>3, <2>4
      <3>3. ~Constructing(p)'
        <4>1. \A a \in Places : ~(a < 1)
          BY <1>6
        <4> QED
          BY <1>4, <1>8, <2>2, <3>1, <4>1
      <3>4. ~Collecting(p)'
        BY <1>4, <1>8, <2>2, <3>1
      <3> QED
        BY <3>1, <3>2, <3>3, <3>4
    <2>5. CASE ~(p = x /\ rt \in {"construct", "collected"})
      <3>1. ~Sent(1, p, "construct") /\ ~Sent(1, p, "collected")
        BY <1>4, <2>5
      <3>2. (Constructing(p)' <=> Constructing(p)) /\ (Collecting(p)' <=> Collecting(p))
        BY <1>8, <3>1 DEF Constructing, Collecting
      <3>3. p \in objects_' <=> p \in objects_
        BY <1>3, <2>5
      <3> QED
        BY <2>1, <3>2, <3>3
    <2> QED
      BY <2>3, <2>4, <2>5
  <1>10. StoreReset'
    BY <1>1 DEF StoreInv, StoreReset, Dispatching, IInv, CountersAgree
  <1>11. OwnerServed'
    <2> SUFFICES ASSUME NEW p \in Objects, NEW i \in Places, OwnerAsks(i, p)'
                 PROVE  /\ js_objects[p] # "none"
                        /\ \A j \in Places : Sent(j, p, "collected")' => i < j
                        /\ p \in objects_' \/ \E j \in Places : j < i /\ Sent(j, p, "construct")'
      BY <1>1 DEF OwnerServed
    <2>1. OwnerAsks(i + 1, p) /\ i + 1 \in Places
      BY <1>4
    <2>2. /\ js_objects[p] # "none"
          /\ \A j \in Places : Sent(j, p, "collected") => i + 1 < j
          /\ p \in objects_ \/ \E j \in Places : j < i + 1 /\ Sent(j, p, "construct")
      BY <2>1 DEF StoreInv, OwnerServed
    <2>3. ASSUME NEW j \in Places, Sent(j, p, "collected")'
          PROVE  i < j
      <3>1. i + 1 < j + 1
        BY <1>4, <2>2, <2>3
      <3> QED
        BY <1>6, <3>1
    <2>4. p \in objects_' \/ \E j \in Places : j < i /\ Sent(j, p, "construct")'
      <3>1. CASE p \in objects_
        <4>1. ~(p = x /\ rt = "collected")
          <5>1. ASSUME p = x, rt = "collected"
                PROVE  FALSE
            <6>1. i + 1 < 1
              BY <1>4, <2>2, <5>1
            <6> QED
              BY <1>6, <6>1
          <5> QED
            BY <5>1
        <4> QED
          BY <1>3, <3>1, <4>1
      <3>2. CASE p \notin objects_
        <4>1. PICK j \in Places : j < i + 1 /\ Sent(j, p, "construct")
          BY <2>2, <3>2
        <4>2. CASE j = 1
          BY <1>3, <1>4, <4>1, <4>2
        <4>3. CASE j # 1
          <5>1. j - 1 \in Places /\ Sent(j - 1, p, "construct")'
            BY <1>4, <4>1, <4>3
          <5>2. j - 1 < i
            BY <1>6, <4>1
          <5> QED
            BY <5>1, <5>2
        <4> QED
          BY <4>2, <4>3
      <3> QED
        BY <3>1, <3>2
    <2> QED
      BY <2>2, <2>3, <2>4
  <1>12. CallKinds' /\ RefusedKnown' /\ OwnerCallFindsObject'
    <2>1. Oldest.call \in 1 .. Len(calls) /\ Asked = calls[Oldest.call]
      BY <1>1, TakenFacts DEF Asked
    <2>2. \/ refused' = refused
          \/ /\ refused' = refused \cup {Oldest.call}
             /\ Asked.by = "owner" => Asked.route \in {"unknownMethod", "badArguments"}
      BY TakenKind
    <2> QED
      BY <1>1, <2>1, <2>2 DEF StoreInv, CallKinds, RefusedKnown, OwnerCallFindsObject
  <1>13. PromiseRetains'
    <2> SUFFICES ASSUME NEW n \in CallbackIds, OwnersPromise(callback_listeners[n])'
                 PROVE  Retains(callback_listeners[n])'
      BY DEF PromiseRetains
    <2>1. PICK c : c = callback_listeners[n]
      OBVIOUS
    <2>2. OwnersPromise(callback_listeners[n])
      BY <1>1 DEF OwnersPromise
    <2>3. Retains(c)
      BY <2>1, <2>2 DEF StoreInv, PromiseRetains, OwnersPromise, Retains, Follows
    <2>4. ASSUME NEW j \in Places, Sent(j, calls[c].obj, "construct")'
          PROVE  Follows(j, c)'
      <3>1. PICK p : p = calls[c].obj
        OBVIOUS
      <3>2. Sent(j, p, "construct")'
        BY <1>1, <2>4, <3>1 DEF Sent
      <3>3. Sent(j + 1, p, "construct") /\ j + 1 \in Places
        BY <1>4, <3>2
      <3>4. PICK k \in 1 .. Len(to_native) : j + 1 < k /\ to_native[k].call = c
        BY <2>3, <3>1, <3>3 DEF Retains, Follows
      <3>5. to_native \in Seq(Message) /\ to_native # <<>>
        BY <1>1 DEF IInv, TypeOK, Dispatching
      <3>6. k # 1 /\ j < k - 1
        BY <1>6, <3>4
      <3>7. k - 1 \in 1 .. Len(to_native') /\ to_native'[k - 1] = to_native[k]
        BY <1>1, <3>4, <3>5, <3>6, TailFacts
      <3> QED
        BY <3>4, <3>6, <3>7 DEF Follows
    <2>5. Retains(c)'
      BY <1>1, <2>3, <2>4 DEF Retains
    <2> QED
      BY <1>1, <2>1, <2>5 DEF Retains, Follows
  <1> QED
    BY <1>7, <1>9, <1>10, <1>11, <1>12, <1>13 DEF StoreInv

\* Every call of a script is of one of the four kinds.
LEMMA CallStore ==
    ASSUME IInv, StoreInv, CallFromScript
    PROVE  StoreInv'
  <1>1. ASSUME NEW o \in Objects, Construct(o)
        PROVE  StoreInv'
    <2>1. SendKind(o, "plain", "owner", "construct")
      BY <1>1 DEF Construct, SendKind
    <2> QED
      BY <1>1, <2>1, SendStore DEF Construct
  <1>2. ASSUME NEW o \in Objects, Collect(o)
        PROVE  StoreInv'
    <2>1. SendKind(o, "plain", "owner", "collected")
      BY <1>2 DEF Collect, SendKind
    <2> QED
      BY <1>2, <2>1, SendStore DEF Collect
  <1>3. ASSUME NEW o \in Objects, NEW form \in Forms, NEW by \in {"owner", "proxy"},
               NEW route \in Routes, CallObject(o, form, by, route)
        PROVE  StoreInv'
    <2>1. SendKind(o, form, by, route)
      BY <1>3 DEF CallObject, SendKind, Usable
    <2> QED
      BY <1>3, <2>1, SendStore DEF CallObject
  <1>4. ASSUME NEW form \in Forms, NEW route \in Routes, CallFunction(form, route)
        PROVE  StoreInv'
    <2>1. SendKind(NoObject, form, "proxy", route)
      BY <1>4 DEF CallFunction, SendKind
    <2> QED
      BY <1>4, <2>1, SendStore DEF CallFunction
  <1> QED
    BY <1>1, <1>2, <1>3, <1>4 DEF CallFromScript

\* A new page starts with an empty store and no objects; the end of a page
\* forgets the objects, and the destructor empties the store.
LEMMA InstanceStore ==
    ASSUME IInv, StoreInv, OnInstanceCreated \/ OnInstanceDestroyed \/ DeleteInstance
    PROVE  StoreInv'
  <1>1. /\ to_native' = <<>> /\ (\A o \in Objects : js_objects'[o] = "none")
        /\ calls' = calls /\ refused' = refused
        /\ xw_instance_' => objects_' = {}
        /\ ~handler' => objects_' = {}
        /\ \A n \in CallbackIds : callback_listeners'[n] \in {callback_listeners[n], NoCall}
    BY DEF OnInstanceCreated, OnInstanceDestroyed, DeleteInstance, StoreInv, StoreReset,
           IInv, TypeOK, CountersAgree, ChannelsOfOpenPage, script, channels, history
  <1>2. \A i, o : ~Sent(i, o, "construct")' /\ ~Sent(i, o, "collected")' /\ ~OwnerAsks(i, o)'
    BY <1>1 DEF Sent, OwnerAsks
  <1>3. QueueOrder' /\ OwnerServed'
    BY <1>2 DEF QueueOrder, OwnerServed
  <1>4. StoreTracks' /\ StoreReset'
    BY <1>1 DEF StoreTracks, StoreReset
  <1>5. CallKinds' /\ RefusedKnown' /\ OwnerCallFindsObject'
    BY <1>1 DEF StoreInv, CallKinds, RefusedKnown, OwnerCallFindsObject
  <1>6. PromiseRetains'
    <2> SUFFICES ASSUME NEW n \in CallbackIds, OwnersPromise(callback_listeners[n])'
                 PROVE  FALSE
      BY DEF PromiseRetains
    <2>1. callback_listeners'[n] = callback_listeners[n]
      BY <1>1 DEF OwnersPromise
    <2>2. OwnersPromise(callback_listeners[n])
      BY <1>1, <2>1 DEF OwnersPromise
    <2>3. \E o \in Objects : js_objects[o] = "alive"
      BY <2>2 DEF StoreInv, PromiseRetains, Retains
    <2>4. xw_instance_
      BY <2>3 DEF StoreInv, StoreReset
    <2>5. callback_listeners' = [i \in CallbackIds |-> NoCall]
      BY <2>4 DEF OnInstanceCreated, OnInstanceDestroyed, DeleteInstance, IInv, CountersAgree
    <2> QED
      BY <2>5 DEF OwnersPromise
  <1> QED
    BY <1>3, <1>4, <1>5, <1>6 DEF StoreInv

\* Every step of the bridge keeps the store in step with the script's objects.
LEMMA NextStore == IInv /\ StoreInv /\ [Next]_vars => StoreInv'
  <1> SUFFICES ASSUME IInv, StoreInv, [Next]_vars
               PROVE  StoreInv'
    OBVIOUS
  <1>1. CASE CallFromScript
    BY <1>1, CallStore
  <1>2. CASE ReceiveAny
    <2>1. /\ UNCHANGED <<js_objects, to_native, objects_, calls, refused, xw_instance_, handler>>
          /\ \/ callback_listeners' = callback_listeners
             \/ \E i : callback_listeners' = [callback_listeners EXCEPT ![i] = NoCall]
      BY <1>2 DEF ReceiveAny, Receive, ListenersAfter, native
    <2>2. callback_listeners \in [CallbackIds -> Calls \cup {NoCall}]
      BY DEF IInv, TypeOK
    <2>3. \A n \in CallbackIds : callback_listeners'[n] \in {callback_listeners[n], NoCall}
      BY <2>1, <2>2
    <2> QED
      BY <2>1, <2>3, StoreStays
  <1>3. CASE HandleMessage
    BY <1>3, TakenStore
  <1>4. CASE PostResult \/ RunTask
    <2>1. UNCHANGED <<callback_listeners, js_objects, to_native, objects_, calls, refused,
                      xw_instance_, handler>>
      BY <1>4 DEF PostResult, PostResultOnClient, PostResultOnWorker, Post, RunTask
    <2> QED
      BY <2>1, StoreStays
  <1>5. CASE OnInstanceCreated \/ OnInstanceDestroyed \/ DeleteInstance
    BY <1>5, InstanceStore
  <1>6. CASE UNCHANGED vars
    <2>1. UNCHANGED <<callback_listeners, js_objects, to_native, objects_, calls, refused,
                      xw_instance_, handler>>
      BY <1>6 DEF vars, script, channels, native, history
    <2> QED
      BY <2>1, StoreStays
  <1> QED
    BY <1>1, <1>2, <1>3, <1>4, <1>5, <1>6 DEF Next

LEMMA StoreInvariance == Spec => []StoreInv
  <1>1. Init => StoreInv
    <2> SUFFICES ASSUME Init
                 PROVE  StoreInv
      OBVIOUS
    <2>1. /\ to_native = <<>> /\ objects_ = {} /\ refused = {} /\ calls = <<>>
          /\ js_objects = [o \in Objects |-> "none"] /\ xw_instance_ = FALSE
          /\ callback_listeners = [i \in CallbackIds |-> NoCall]
      BY DEF Init
    <2>2. QueueOrder /\ OwnerServed
      BY <2>1, NothingSent DEF QueueOrder, OwnerServed
    <2>3. StoreTracks /\ StoreReset /\ CallKinds /\ RefusedKnown /\ OwnerCallFindsObject
      BY <2>1 DEF StoreTracks, StoreReset, CallKinds, RefusedKnown, OwnerCallFindsObject
    <2>4. PromiseRetains
      BY <2>1 DEF PromiseRetains, OwnersPromise
    <2> QED
      BY <2>2, <2>3, <2>4 DEF StoreInv
  <1> QED
    BY <1>1, NextStore, Invariance, PTL DEF Spec

\* The store holds a native object exactly from the message of its construction
\* to that of its collection, for any number of objects, calls and pages
\* (registerLifecycleTracker, OnJSObjectCollected).
THEOREM StoreFollowsGCHolds == Spec => []StoreFollowsGC
  <1>1. StoreInv /\ IInv => StoreFollowsGC
    <2> SUFFICES ASSUME StoreInv, IInv, xw_instance_, NEW o \in Objects
                 PROVE  LET Pending(r) == \E i \in 1 .. Len(to_native) :
                                             /\ calls[to_native[i].call].obj = o
                                             /\ calls[to_native[i].call].route = r
                        IN  o \in objects_ <=> \/ js_objects[o] = "alive" /\ ~Pending("construct")
                                               \/ /\ js_objects[o] = "collected"
                                                  /\ Pending("collected")
                                                  /\ ~Pending("construct")
      BY DEF StoreFollowsGC
    <2>1. \A i \in 1 .. Len(to_native) : i \in Places
      BY DEF Places
    <2>2. /\ Constructing(o) <=> \E i \in 1 .. Len(to_native) :
                /\ calls[to_native[i].call].obj = o /\ calls[to_native[i].call].route = "construct"
          /\ Collecting(o) <=> \E i \in 1 .. Len(to_native) :
                /\ calls[to_native[i].call].obj = o /\ calls[to_native[i].call].route = "collected"
      BY <2>1 DEF Constructing, Collecting, Sent
    <2>3. Constructing(o) => js_objects[o] # "none" /\ o \notin objects_
      BY DEF StoreInv, QueueOrder, Constructing
    <2>4. /\ js_objects[o] = "none" => o \notin objects_
          /\ js_objects[o] = "alive" => o \in objects_ \/ Constructing(o)
          /\ js_objects[o] = "collected" =>
                /\ o \in objects_ \/ Constructing(o) => Collecting(o)
                /\ Collecting(o) => o \in objects_ \/ Constructing(o)
      BY DEF StoreInv, StoreTracks
    <2>5. js_objects[o] \in {"none", "alive", "collected"}
      BY DEF IInv, TypeOK
    <2> QED
      BY <2>2, <2>3, <2>4, <2>5
  <1> QED
    BY <1>1, StoreInvariance, Invariance, PTL

\* A method of the original object always finds the native object, in whatever
\* order the script constructs, calls and drops its objects
\* (BindingObjectStore::OnPostMessageToObject).
THEOREM OwnerCallFindsObjectHolds == Spec => []OwnerCallFindsObject
  <1>1. StoreInv => OwnerCallFindsObject
    BY DEF StoreInv
  <1> QED
    BY <1>1, StoreInvariance, PTL

\* While a promise of an object's own method is pending, its native object
\* lives (sendMsg, registerLifecycleTracker).
THEOREM NativeOutlivesPromisesHolds == Spec => []NativeOutlivesPromises
  <1>1. StoreInv /\ IInv => NativeOutlivesPromises
    <2> SUFFICES ASSUME StoreInv, IInv, NEW i \in CallbackIds, NEW c, c = callback_listeners[i],
                        c # NoCall, calls[c].form \in PromiseForms, calls[c].by = "owner",
                        ~InTransit(to_native, c)
                 PROVE  calls[c].obj \in objects_
      BY DEF NativeOutlivesPromises
    <2>1. OwnersPromise(callback_listeners[i])
      BY DEF OwnersPromise
    <2>2. Retains(c)
      BY <2>1 DEF StoreInv, PromiseRetains, Retains, Follows
    <2>3. ~Constructing(calls[c].obj)
      BY <2>2 DEF Retains, Follows, Constructing, InTransit
    <2>4. calls[c].obj \in Objects /\ js_objects[calls[c].obj] = "alive"
      BY <2>2 DEF Retains
    <2>5. xw_instance_
      BY <2>4 DEF StoreInv, StoreReset
    <2> QED
      BY <2>3, <2>4, <2>5 DEF StoreInv, StoreTracks
  <1> QED
    BY <1>1, StoreInvariance, Invariance, PTL

-----------------------------------------------------------------------------
(* The bridge implements RemoteCalls. *)

\* The channel keeps the order of the calls.
InCallOrder ==
    \A i, j \in 1 .. Len(to_native) : i < j => to_native[i].call < to_native[j].call

\* What happened, happened to calls that were made.
HistoryKnown ==
    /\ \A c \in refused : c \in 1 .. Len(calls)
    /\ \A c, x : <<c, x>> \in answered => c \in 1 .. Len(calls)
    /\ \A c, d : <<c, d>> \in received => c \in 1 .. Len(calls) /\ d \in 1 .. Len(calls)

\* Nothing has happened to a call that is still in the channel, and no call
\* that got further was refused.
Untouched(c) ==
    /\ c \notin refused
    /\ \A x : <<c, x>> \notin answered
    /\ ~Delivered(c)

UntouchedInChannel == \A i \in 1 .. Len(to_native) : Untouched(to_native[i].call)

CarriedNotRefused ==
    /\ \A k \in infos : k.call \notin refused
    /\ \A j \in 1 .. Len(tasks) : tasks[j].call \notin refused
    /\ \A j \in 1 .. Len(to_js) : to_js[j].call \notin refused

\* A result on its way was posted, and a sync call native code holds is not
\* answered yet.
ResultsPosted ==
    /\ \A j \in 1 .. Len(tasks) : <<tasks[j].call, tasks[j].result>> \in answered
    /\ \A j \in 1 .. Len(to_js) : <<to_js[j].call, "list">> \in answered
    /\ \A k \in infos : calls[k.call].form = "sync" => \A x : <<k.call, x>> \notin answered

\* The script does not wait for a call that has ended.
WaitsForResult == waiting # NoCall => ~Delivered(waiting)

ProgressInv ==
    /\ InCallOrder
    /\ HistoryKnown
    /\ UntouchedInChannel
    /\ CarriedNotRefused
    /\ ResultsPosted
    /\ WaitsForResult

\* Every call of a script records the call and puts its message in the channel.
LEMMA ScriptSends ==
    ASSUME CallFromScript
    PROVE  /\ CanCall
           /\ \E o, form, by, route : Send(o, form, by, route)
  BY DEF CallFromScript, Construct, Collect, CallObject, CallFunction

LEMMA SendFacts ==
    ASSUME IInv, CanCall, NEW o, NEW form, NEW by, NEW route, Send(o, form, by, route)
    PROVE  LET c == Len(calls) + 1
               n == Len(to_native) + 1
           IN  /\ waiting = NoCall /\ xw_instance_
               /\ c \in Calls /\ Len(calls') = c
               /\ \A d \in 1 .. Len(calls) : calls'[d] = calls[d]
               /\ calls'[c].form = form /\ calls'[c].page = page
               /\ Len(to_native') = n
               /\ \A i \in 1 .. Len(to_native) : to_native'[i] = to_native[i]
               /\ to_native'[n].call = c
               /\ waiting' = IF form = "sync" THEN c ELSE NoCall
               /\ UNCHANGED <<to_js, page, xw_instance_, infos, tasks, refused,
                              answered, received>>
  <1> DEFINE c == Len(calls) + 1
             n == Len(to_native) + 1
             m == [call |-> c, cb |-> WireCallback(form)]
             r == [obj |-> o, form |-> form, by |-> by, route |-> route, page |-> page]
  <1>1. /\ calls' = Append(calls, r) /\ to_native' = Append(to_native, m)
        /\ waiting' = IF form = "sync" THEN c ELSE waiting
        /\ UNCHANGED <<to_js, page, xw_instance_, infos, tasks, refused, answered, received>>
    BY DEF Send, native
  <1>2. /\ calls \in Seq(Call) /\ to_native \in Seq(Message) /\ Len(calls) \in Nat
        /\ Len(calls) \leq MaxCalls
    BY DEF IInv, TypeOK
  <1>3. waiting = NoCall /\ xw_instance_ /\ c \in Calls
    BY <1>2 DEF CanCall, ScriptRuns
  <1>4. /\ Len(calls') = c /\ calls'[c] = r
        /\ \A d \in 1 .. Len(calls) : calls'[d] = calls[d]
    <2> HIDE DEF r
    <2> QED
      BY <1>1, <1>2
  <1>5. /\ Len(to_native') = n /\ to_native'[n] = m
        /\ \A i \in 1 .. Len(to_native) : to_native'[i] = to_native[i]
    <2> HIDE DEF m
    <2> QED
      BY <1>1, <1>2
  <1>6. calls'[c].form = form /\ calls'[c].page = page /\ to_native'[n].call = c
    BY <1>4, <1>5
  <1> QED
    BY <1>1, <1>3, <1>4, <1>5, <1>6

\* A call that is made has no history.
LEMMA SendProgress ==
    ASSUME IInv, ProgressInv, CallFromScript
    PROVE  ProgressInv'
  <1>1. PICK o, form, by, route : CanCall /\ Send(o, form, by, route)
    BY ScriptSends
  <1> DEFINE c == Len(calls) + 1
             n == Len(to_native) + 1
  <1>2. /\ waiting = NoCall /\ xw_instance_
        /\ c \in Calls /\ Len(calls') = c
        /\ \A d \in 1 .. Len(calls) : calls'[d] = calls[d]
        /\ Len(to_native') = n
        /\ \A i \in 1 .. Len(to_native) : to_native'[i] = to_native[i]
        /\ to_native'[n].call = c
        /\ waiting' = IF form = "sync" THEN c ELSE NoCall
        /\ UNCHANGED <<to_js, page, xw_instance_, infos, tasks, refused, answered, received>>
    BY <1>1, SendFacts
  <1>3. /\ Len(calls) \in Nat /\ Len(to_native) \in Nat
        /\ \A i \in 1 .. Len(to_native) : to_native[i].call \in 1 .. Len(calls)
        /\ \A k \in infos : k.call \in 1 .. Len(calls)
    BY DEF IInv, TypeOK, CarriersKnown
  <1>4. \A i \in 1 .. Len(to_native') :
          \/ i \in 1 .. Len(to_native) /\ to_native'[i] = to_native[i]
          \/ i = n /\ to_native'[i].call = c
    BY <1>2, <1>3
  <1>5. \A d \in 1 .. Len(calls) : d \in 1 .. Len(calls') /\ d < c
    BY <1>2, <1>3
  <1>6. c \notin 1 .. Len(calls)
    BY <1>3
  <1>7. Untouched(c)
    <2>1. HistoryKnown
      BY DEF ProgressInv
    <2> HIDE DEF c
    <2> QED
      BY <1>6, <2>1 DEF HistoryKnown, Untouched, Delivered
  <1>8. \A d : Untouched(d) <=> Untouched(d)'
    BY <1>2 DEF Untouched, Delivered
  <1>9. InCallOrder'
    <2> SUFFICES ASSUME NEW i \in 1 .. Len(to_native'), NEW j \in 1 .. Len(to_native'), i < j
                 PROVE  to_native'[i].call < to_native'[j].call
      BY DEF InCallOrder
    <2>1. i \in 1 .. Len(to_native) /\ to_native'[i] = to_native[i]
      BY <1>2, <1>3
    <2>2. CASE j \in 1 .. Len(to_native)
      BY <1>2, <2>1, <2>2 DEF ProgressInv, InCallOrder
    <2>3. CASE to_native'[j].call = c
      BY <1>3, <1>5, <2>1, <2>3
    <2> QED
      BY <1>4, <2>2, <2>3
  <1> HIDE DEF c, n
  <1>10. HistoryKnown'
    BY <1>2, <1>5 DEF ProgressInv, HistoryKnown
  <1>11. UntouchedInChannel'
    BY <1>4, <1>7, <1>8 DEF ProgressInv, UntouchedInChannel
  <1>12. CarriedNotRefused'
    BY <1>2 DEF ProgressInv, CarriedNotRefused
  <1>13. ResultsPosted'
    BY <1>2, <1>3 DEF ProgressInv, ResultsPosted
  <1>14. WaitsForResult'
    BY <1>2, <1>7 DEF WaitsForResult, Untouched, Delivered
  <1> QED
    BY <1>9, <1>10, <1>11, <1>12, <1>13, <1>14 DEF ProgressInv

\* Native code takes a call nothing has happened to, and may refuse it.
LEMMA TakenProgress ==
    ASSUME IInv, ProgressInv, HandleMessage
    PROVE  ProgressInv'
  <1>1. /\ Dispatching /\ to_native' = Tail(to_native)
        /\ infos' \in {infos, infos \cup {Oldest}}
        /\ refused' \in {refused, refused \cup {Oldest.call}}
        /\ infos' = infos \/ refused' = refused
        /\ waiting' \in {waiting, NoCall}
        /\ UNCHANGED <<to_js, tasks, page, xw_instance_, calls, answered, received>>
    BY DEF HandleMessage, OnConstruct, OnJSObjectCollected, RunFunction,
           DropForObject, DropForHandler, script, native, history, AnsweredFalse
  <1>2. /\ Oldest.call \in 1 .. Len(calls)
        /\ \E i \in 1 .. Len(to_native) : Oldest = to_native[i]
        /\ \A i \in 1 .. Len(to_native') :
              /\ i + 1 \in 1 .. Len(to_native)
              /\ to_native'[i] = to_native[i + 1]
              /\ to_native'[i].call # Oldest.call
        /\ \A k \in infos : k.call # Oldest.call
        /\ \A j \in 1 .. Len(tasks) : tasks[j].call # Oldest.call
    BY <1>1, TakenFacts
  <1>3. Untouched(Oldest.call)
    BY <1>2 DEF ProgressInv, UntouchedInChannel
  <1>4. \A i, j \in 1 .. Len(to_native') : i < j => i + 1 < j + 1
    BY DEF IInv, TypeOK
  <1>5. InCallOrder'
    BY <1>2, <1>4 DEF ProgressInv, InCallOrder
  <1>6. HistoryKnown'
    BY <1>1, <1>2 DEF ProgressInv, HistoryKnown
  <1>7. UntouchedInChannel'
    <2> SUFFICES ASSUME NEW i \in 1 .. Len(to_native')
                 PROVE  Untouched(to_native[i].call)'
      BY DEF UntouchedInChannel
    <2>1. Untouched(to_native[i + 1].call)
      BY <1>2 DEF ProgressInv, UntouchedInChannel
    <2>2. PICK d : d = to_native[i + 1].call
      OBVIOUS
    <2>3. Untouched(d) /\ d # Oldest.call /\ to_native'[i].call = d
      BY <1>2, <2>1, <2>2
    <2> QED
      BY <1>1, <2>3 DEF Untouched, Delivered
  <1>8. CarriedNotRefused'
    <2>1. \A j \in 1 .. Len(to_js) : to_js[j].call # Oldest.call
      BY <1>3 DEF ProgressInv, ResultsPosted, Untouched
    <2> QED
      BY <1>1, <1>2, <1>3, <2>1 DEF ProgressInv, CarriedNotRefused, Untouched
  <1>9. ResultsPosted'
    BY <1>1, <1>3 DEF ProgressInv, ResultsPosted, Untouched
  <1>10. WaitsForResult'
    BY <1>1 DEF ProgressInv, WaitsForResult, Delivered
  <1> QED
    BY <1>5, <1>6, <1>7, <1>8, <1>9, <1>10 DEF ProgressInv

\* The callback runs for an answer that was posted.
LEMMA ReceiveProgress ==
    ASSUME IInv, ProgressInv, NEW outcome, Receive(outcome)
    PROVE  ProgressInv'
  <1>1. /\ waiting = NoCall /\ to_js # <<>> /\ to_js' = Tail(to_js)
        /\ UNCHANGED <<waiting, to_native, page, xw_instance_, infos, tasks, calls,
                       refused, answered>>
        /\ LET m == Head(to_js)
               c == callback_listeners[m.cb]
           IN  \/ received' = received
               \/ c # NoCall /\ received' = received \cup {<<c, m.call>>}
    BY DEF Receive, ScriptRuns, native
  <1> DEFINE S == [call : Calls, cb : CallbackIds]
  <1>2. to_js \in Seq(S)
    BY DEF IInv, TypeOK
  <1>3. /\ Head(to_js) = to_js[1] /\ 1 \in 1 .. Len(to_js) /\ Head(to_js) \in S
        /\ \A j \in 1 .. Len(to_js') : j + 1 \in 1 .. Len(to_js) /\ to_js'[j] = to_js[j + 1]
    <2> HIDE DEF S
    <2> QED
      BY <1>1, <1>2, TailFacts
  <1>4. PICK m \in S : m = Head(to_js)
    BY <1>3
  <1>5. /\ m.call \in 1 .. Len(calls) /\ <<m.call, "list">> \in answered
        /\ callback_listeners[m.cb] \in 0 .. Len(calls)
    BY <1>3, <1>4 DEF IInv, CarriersKnown, ProgressInv, ResultsPosted
  <1>6. \A c, d : <<c, d>> \in received' =>
          <<c, d>> \in received \/ (d = m.call /\ c \in 1 .. Len(calls))
    BY <1>1, <1>4, <1>5
  <1> HIDE DEF S
  <1>7. InCallOrder'
    BY <1>1 DEF ProgressInv, InCallOrder
  <1>8. HistoryKnown'
    BY <1>1, <1>5, <1>6 DEF ProgressInv, HistoryKnown
  <1>9. UntouchedInChannel'
    BY <1>1, <1>5, <1>6 DEF ProgressInv, UntouchedInChannel, Untouched, Delivered
  <1>10. CarriedNotRefused'
    BY <1>1, <1>3 DEF ProgressInv, CarriedNotRefused
  <1>11. ResultsPosted'
    BY <1>1, <1>3 DEF ProgressInv, ResultsPosted
  <1>12. WaitsForResult'
    BY <1>1 DEF WaitsForResult
  <1> QED
    BY <1>7, <1>8, <1>9, <1>10, <1>11, <1>12 DEF ProgressInv

\* What dispatching a result does: it answers the blocked script, or it may
\* put a list into the channel.
LEMMA DispatchFacts ==
    ASSUME IInv, NEW r, r.call \in 1 .. Len(calls), DispatchResult(r),
           BlocksScript(r.call) => waiting = r.call
    PROVE  /\ \A j \in 1 .. Len(to_js') :
                 \/ j \in 1 .. Len(to_js) /\ to_js'[j] = to_js[j]
                 \/ to_js'[j].call = r.call /\ r.result = "list"
           /\ calls[r.call].form = "sync" /\ OfOpenPage(r.call) =>
                 /\ waiting = r.call /\ waiting' = NoCall
                 /\ received' = received \cup {<<r.call, r.call>>}
           /\ ~(calls[r.call].form = "sync" /\ OfOpenPage(r.call)) =>
                 waiting' = waiting /\ received' = received
  <1>1. \A j \in 1 .. Len(to_js') :
          \/ j \in 1 .. Len(to_js) /\ to_js'[j] = to_js[j]
          \/ to_js'[j].call = r.call /\ r.result = "list"
    <2> DEFINE m == [call |-> r.call, cb |-> r.cb]
    <2>1. \/ to_js' = to_js
          \/ to_js' = Append(to_js, m) /\ r.result = "list"
      BY DEF DispatchResult
    <2>2. m.call = r.call
      OBVIOUS
    <2>3. Len(to_js) \in Nat /\ to_js \in Seq([call : Calls, cb : CallbackIds])
      BY DEF IInv, TypeOK
    <2> HIDE DEF m
    <2>4. CASE to_js' = Append(to_js, m)
      <3>1. \A j \in 1 .. Len(to_js') :
              \/ j \in 1 .. Len(to_js) /\ to_js'[j] = to_js[j]
              \/ to_js'[j] = m
        BY <2>3, <2>4
      <3>2. CASE to_js' = to_js
        BY <3>2
      <3>3. CASE r.result = "list"
        BY <2>2, <3>1, <3>3
      <3> QED
        BY <2>1, <3>2, <3>3
    <2> QED
      BY <2>1, <2>4
  <1>2. xw_instance_ => handler
    BY DEF IInv, CountersAgree
  <1>3. ASSUME calls[r.call].form = "sync", OfOpenPage(r.call)
        PROVE  /\ waiting = r.call /\ waiting' = NoCall
               /\ received' = received \cup {<<r.call, r.call>>}
    <2>1. waiting = r.call /\ HandlerValid(r.call) /\ CanPost
      BY <1>2, <1>3 DEF BlocksScript, OfOpenPage, HandlerValid, CanPost
    <2> QED
      BY <1>3, <2>1 DEF DispatchResult
  <1>4. ASSUME ~(calls[r.call].form = "sync" /\ OfOpenPage(r.call))
        PROVE  waiting' = waiting /\ received' = received
    BY <1>4 DEF DispatchResult, OfOpenPage, HandlerValid, CanPost
  <1> QED
    BY <1>1, <1>3, <1>4

\* A step about the result of one call keeps the calls' progress.
LEMMA ResultKeeps ==
    ASSUME IInv, ProgressInv, NEW c \in 1 .. Len(calls),
           \A i \in 1 .. Len(to_native) : to_native[i].call # c,
           UNCHANGED <<to_native, calls, refused>>,
           infos' \subseteq infos,
           answered \subseteq answered',
           \A d, x : <<d, x>> \in answered' => <<d, x>> \in answered \/ d = c,
           calls[c].form = "sync" => \A k \in infos' : k.call # c,
           \A j \in 1 .. Len(tasks') :
              <<tasks'[j].call, tasks'[j].result>> \in answered' /\ tasks'[j].call \notin refused,
           \A j \in 1 .. Len(to_js') :
              <<to_js'[j].call, "list">> \in answered' /\ to_js'[j].call \notin refused,
           \/ waiting' = waiting /\ received' = received
           \/ waiting' = NoCall /\ received' = received \cup {<<c, c>>}
    PROVE  ProgressInv'
  <1>1. InCallOrder'
    BY DEF ProgressInv, InCallOrder
  <1>2. \A d, e : <<d, e>> \in received' => <<d, e>> \in received \/ (d = c /\ e = c)
    OBVIOUS
  <1>3. HistoryKnown'
    BY <1>2 DEF ProgressInv, HistoryKnown
  <1>4. UntouchedInChannel'
    BY <1>2 DEF ProgressInv, UntouchedInChannel, Untouched, Delivered
  <1>5. CarriedNotRefused'
    BY DEF ProgressInv, CarriedNotRefused
  <1>6. ResultsPosted'
    BY DEF ProgressInv, ResultsPosted
  <1>7. WaitsForResult'
    BY DEF ProgressInv, WaitsForResult, Delivered
  <1> QED
    BY <1>1, <1>3, <1>4, <1>5, <1>6, <1>7 DEF ProgressInv

\* What a result posted for a call does to the history, whichever thread posts.
LEMMA PostedFacts ==
    ASSUME IInv, ProgressInv, NEW i \in infos, NEW result \in {"list", "value"},
           Post(i, result)
    PROVE  /\ i.call \in 1 .. Len(calls) /\ i.call \notin refused
           /\ \A j \in 1 .. Len(to_native) : to_native[j].call # i.call
           /\ UNCHANGED <<to_native, calls, refused, page, xw_instance_>>
           /\ infos' \subseteq infos
           /\ answered' = answered \cup {<<i.call, result>>}
           /\ BlocksScript(i.call) => waiting = i.call
           /\ calls[i.call].form = "sync" =>
                 /\ \A k \in infos' : k.call # i.call
                 /\ \A x : <<i.call, x>> \notin answered
  <1>1. i.call \notin refused
    BY DEF ProgressInv, CarriedNotRefused
  <1>2. calls[i.call].form = "sync" => \A x : <<i.call, x>> \notin answered
    BY DEF ProgressInv, ResultsPosted
  <1>3. answered' = answered \cup {<<i.call, result>>}
    BY DEF Post
  <1>4. calls[i.call].form = "sync" => \A k \in infos' : k.call # i.call
    BY PostFacts
  <1> QED
    BY <1>1, <1>2, <1>3, <1>4, PostFacts

LEMMA PostOnClientProgress ==
    ASSUME IInv, ProgressInv, NEW i \in infos, NEW result \in {"list", "value"},
           PostResultOnClient(i, result)
    PROVE  ProgressInv'
  <1> DEFINE r == [call |-> i.call, cb |-> i.cb, result |-> result]
  <1>1. Post(i, result) /\ DispatchResult(r) /\ tasks' = tasks
    BY DEF PostResultOnClient
  <1>2. PICK c : c = i.call
    OBVIOUS
  <1>3. /\ c \in 1 .. Len(calls) /\ c \notin refused
        /\ \A j \in 1 .. Len(to_native) : to_native[j].call # c
        /\ UNCHANGED <<to_native, calls, refused>>
        /\ infos' \subseteq infos
        /\ answered' = answered \cup {<<c, result>>}
        /\ BlocksScript(c) => waiting = c
        /\ calls[c].form = "sync" => \A k \in infos' : k.call # c
    BY <1>1, <1>2, PostedFacts
  <1>4. r.call = c /\ r.result = result
    BY <1>2
  <1> HIDE DEF r
  <1>5. /\ \A j \in 1 .. Len(to_js') :
              \/ j \in 1 .. Len(to_js) /\ to_js'[j] = to_js[j]
              \/ to_js'[j].call = c /\ result = "list"
        /\ \/ waiting' = waiting /\ received' = received
           \/ waiting' = NoCall /\ received' = received \cup {<<c, c>>}
    BY <1>1, <1>3, <1>4, DispatchFacts
  <1>6. \A d, x : <<d, x>> \in answered' => <<d, x>> \in answered \/ d = c
    BY <1>3
  <1>7. \A j \in 1 .. Len(tasks') :
          <<tasks'[j].call, tasks'[j].result>> \in answered' /\ tasks'[j].call \notin refused
    BY <1>1, <1>3 DEF ProgressInv, ResultsPosted, CarriedNotRefused
  <1>8. \A j \in 1 .. Len(to_js') :
          <<to_js'[j].call, "list">> \in answered' /\ to_js'[j].call \notin refused
    BY <1>3, <1>5 DEF ProgressInv, ResultsPosted, CarriedNotRefused
  <1>9. answered \subseteq answered'
    BY <1>3
  <1> QED
    BY <1>3, <1>5, <1>6, <1>7, <1>8, <1>9, ResultKeeps

LEMMA PostOnWorkerProgress ==
    ASSUME IInv, ProgressInv, NEW i \in infos, NEW result \in {"list", "value"},
           PostResultOnWorker(i, result)
    PROVE  ProgressInv'
  <1> DEFINE r == [call |-> i.call, cb |-> i.cb, result |-> result]
  <1>1. /\ Post(i, result) /\ tasks' = Append(tasks, r)
        /\ UNCHANGED <<waiting, to_js, received>>
    BY DEF PostResultOnWorker, PostTask
  <1>2. PICK c : c = i.call
    OBVIOUS
  <1>3. /\ c \in 1 .. Len(calls) /\ c \notin refused
        /\ \A j \in 1 .. Len(to_native) : to_native[j].call # c
        /\ UNCHANGED <<to_native, calls, refused>>
        /\ infos' \subseteq infos
        /\ answered' = answered \cup {<<c, result>>}
        /\ calls[c].form = "sync" => \A k \in infos' : k.call # c
    BY <1>1, <1>2, PostedFacts
  <1>4. r.call = c /\ r.result = result
    BY <1>2
  <1>5. tasks \in Seq(Result) /\ Len(tasks) \in Nat
    BY DEF IInv, TypeOK
  <1> HIDE DEF r
  <1>6. \A j \in 1 .. Len(tasks') :
          \/ j \in 1 .. Len(tasks) /\ tasks'[j] = tasks[j]
          \/ tasks'[j] = r
    BY <1>1, <1>5
  <1>7. \A d, x : <<d, x>> \in answered' => <<d, x>> \in answered \/ d = c
    BY <1>3
  <1>8. \A j \in 1 .. Len(tasks') :
          <<tasks'[j].call, tasks'[j].result>> \in answered' /\ tasks'[j].call \notin refused
    BY <1>3, <1>4, <1>6 DEF ProgressInv, ResultsPosted, CarriedNotRefused
  <1>9. \A j \in 1 .. Len(to_js') :
          <<to_js'[j].call, "list">> \in answered' /\ to_js'[j].call \notin refused
    BY <1>1, <1>3 DEF ProgressInv, ResultsPosted, CarriedNotRefused
  <1>10. answered \subseteq answered'
    BY <1>3
  <1> QED
    BY <1>1, <1>3, <1>7, <1>8, <1>9, <1>10, ResultKeeps

\* The loop's oldest task is a result that was posted for a call native code
\* no longer refuses; for a sync call nobody else has one.
LEMMA TaskFacts ==
    ASSUME IInv, ProgressInv, RunTask
    PROVE  \E r \in Result :
              /\ DispatchResult(r)
              /\ r.call \in 1 .. Len(calls) /\ r.call \notin refused
              /\ <<r.call, r.result>> \in answered
              /\ \A j \in 1 .. Len(to_native) : to_native[j].call # r.call
              /\ BlocksScript(r.call) => waiting = r.call
              /\ calls[r.call].form = "sync" => \A k \in infos : k.call # r.call
              /\ \A j \in 1 .. Len(tasks') :
                    j + 1 \in 1 .. Len(tasks) /\ tasks'[j] = tasks[j + 1]
              /\ UNCHANGED <<to_native, calls, refused, infos, answered, page, xw_instance_>>
  <1>1. /\ tasks # <<>> /\ tasks' = Tail(tasks) /\ DispatchResult(Head(tasks))
        /\ UNCHANGED <<to_native, calls, refused, infos, answered, page, xw_instance_>>
    BY DEF RunTask
  <1>2. tasks \in Seq(Result)
    BY DEF IInv, TypeOK
  <1>3. /\ Head(tasks) \in Result /\ Head(tasks) = tasks[1] /\ 1 \in 1 .. Len(tasks)
        /\ \A j \in 1 .. Len(tasks') :
              j + 1 \in 1 .. Len(tasks) /\ tasks'[j] = tasks[j + 1]
    BY <1>1, <1>2, TailFacts
  <1>4. PICK r \in Result : r = Head(tasks)
    BY <1>3
  <1>5. r = tasks[1] /\ 1 \in 1 .. Len(tasks) /\ DispatchResult(r)
    BY <1>1, <1>3, <1>4
  <1>6. CarriersKnown /\ CarriedOnce /\ SyncBlocks
    BY DEF IInv
  <1>7. r.call \in 1 .. Len(calls)
    BY <1>5, <1>6 DEF CarriersKnown
  <1>8. r.call \notin refused /\ <<r.call, r.result>> \in answered
    BY <1>5 DEF ProgressInv, CarriedNotRefused, ResultsPosted
  <1>9. /\ \A j \in 1 .. Len(to_native) : to_native[j].call # r.call
        /\ calls[r.call].form = "sync" => \A k \in infos : k.call # r.call
    BY <1>5, <1>6 DEF CarriedOnce
  <1>10. BlocksScript(r.call) => waiting = r.call
    BY <1>5, <1>6 DEF SyncBlocks
  <1> QED
    BY <1>1, <1>3, <1>5, <1>7, <1>8, <1>9, <1>10

LEMMA TaskProgress ==
    ASSUME IInv, ProgressInv, RunTask
    PROVE  ProgressInv'
  <1>1. PICK r \in Result :
              /\ DispatchResult(r)
              /\ r.call \in 1 .. Len(calls) /\ r.call \notin refused
              /\ <<r.call, r.result>> \in answered
              /\ \A j \in 1 .. Len(to_native) : to_native[j].call # r.call
              /\ BlocksScript(r.call) => waiting = r.call
              /\ calls[r.call].form = "sync" => \A k \in infos : k.call # r.call
              /\ \A j \in 1 .. Len(tasks') :
                    j + 1 \in 1 .. Len(tasks) /\ tasks'[j] = tasks[j + 1]
              /\ UNCHANGED <<to_native, calls, refused, infos, answered>>
    BY TaskFacts
  <1>2. /\ \A j \in 1 .. Len(to_js') :
              \/ j \in 1 .. Len(to_js) /\ to_js'[j] = to_js[j]
              \/ to_js'[j].call = r.call /\ r.result = "list"
        /\ \/ waiting' = waiting /\ received' = received
           \/ waiting' = NoCall /\ received' = received \cup {<<r.call, r.call>>}
    BY <1>1, DispatchFacts
  <1>3. \A j \in 1 .. Len(tasks') :
          <<tasks'[j].call, tasks'[j].result>> \in answered' /\ tasks'[j].call \notin refused
    BY <1>1 DEF ProgressInv, ResultsPosted, CarriedNotRefused
  <1>4. \A j \in 1 .. Len(to_js') :
          <<to_js'[j].call, "list">> \in answered' /\ to_js'[j].call \notin refused
    BY <1>1, <1>2 DEF ProgressInv, ResultsPosted, CarriedNotRefused
  <1>5. PICK c : c = r.call
    OBVIOUS
  <1> QED
    BY <1>1, <1>2, <1>3, <1>4, <1>5, ResultKeeps

\* Every step of the bridge keeps the progress of the calls.
LEMMA NextProgress == IInv /\ ProgressInv /\ [Next]_vars => ProgressInv'
  <1> SUFFICES ASSUME IInv, ProgressInv, [Next]_vars
               PROVE  ProgressInv'
    OBVIOUS
  <1>1. CASE CallFromScript
    BY <1>1, SendProgress
  <1>2. CASE ReceiveAny
    BY <1>2, ReceiveProgress DEF ReceiveAny
  <1>3. CASE HandleMessage
    BY <1>3, TakenProgress
  <1>4. CASE PostResult
    BY <1>4, PostOnClientProgress, PostOnWorkerProgress DEF PostResult
  <1>5. CASE RunTask
    BY <1>5, TaskProgress
  <1>6. CASE \/ OnInstanceCreated \/ OnInstanceDestroyed \/ DeleteInstance
             \/ UNCHANGED vars
    <2>1. /\ to_native' \in {to_native, <<>>} /\ to_js' \in {to_js, <<>>}
          /\ waiting' \in {waiting, NoCall}
          /\ UNCHANGED <<infos, tasks, calls, refused, answered, received>>
      BY <1>6 DEF OnInstanceCreated, OnInstanceDestroyed, DeleteInstance, vars, script,
                  channels, native, history
    <2>2. /\ \A i \in 1 .. Len(to_native') : i \in 1 .. Len(to_native) /\ to_native'[i] = to_native[i]
          /\ \A i \in 1 .. Len(to_js') : i \in 1 .. Len(to_js) /\ to_js'[i] = to_js[i]
      BY <2>1
    <2>3. InCallOrder' /\ HistoryKnown'
      BY <2>1, <2>2 DEF ProgressInv, InCallOrder, HistoryKnown
    <2>4. UntouchedInChannel' /\ CarriedNotRefused'
      BY <2>1, <2>2 DEF ProgressInv, UntouchedInChannel, Untouched, Delivered, CarriedNotRefused
    <2>5. ResultsPosted' /\ WaitsForResult'
      BY <2>1, <2>2 DEF ProgressInv, ResultsPosted, WaitsForResult, Delivered
    <2> QED
      BY <2>3, <2>4, <2>5 DEF ProgressInv
  <1> QED
    BY <1>1, <1>2, <1>3, <1>4, <1>5, <1>6 DEF Next

\* What the script and native code do to the stage of one call, or of none.
Moves(c, s) ==
    \A d \in Calls : StageOf(d)' = IF d = c THEN s ELSE StageOf(d)
Still == \A d \in Calls : StageOf(d)' = StageOf(d)

\* A call stays at its stage while the tables say the same of it.
LEMMA StageStays ==
    ASSUME NEW d,
           (d > Len(calls))' <=> d > Len(calls),
           Delivered(d)' <=> Delivered(d),
           (d \in refused)' <=> d \in refused,
           OfOpenPage(d)' <=> OfOpenPage(d),
           HasAnswer(d)' <=> HasAnswer(d),
           InTransit(to_native, d)' <=> InTransit(to_native, d)
    PROVE  StageOf(d)' = StageOf(d)
  BY DEF StageOf

\* Steps of RemoteCalls, said of the stages of the bridge.
LEMMA Stutters ==
    ASSUME Still, waiting' = waiting
    PROVE  UNCHANGED <<[c \in Calls |-> StageOf(c)], waiting>>
  BY DEF Still

LEMMA Makes ==
    ASSUME NEW c \in Calls, StageOf(c) = "unmade",
           \A d \in Calls : d < c => StageOf(d) # "unmade",
           waiting = NoCall, waiting' \in {NoCall, c}, Moves(c, "made")
    PROVE  Abstract!Next
  <1>1. Abstract!Make(c)
    BY DEF Abstract!Make, Moves
  <1> QED
    BY <1>1 DEF Abstract!Next

LEMMA Takes ==
    ASSUME NEW c \in Calls, StageOf(c) = "made",
           \A d \in Calls : d < c => StageOf(d) # "made",
           waiting' = waiting, Moves(c, "taken")
    PROVE  Abstract!Next
  <1>1. Abstract!Take(c)
    BY DEF Abstract!Take, Abstract!Oldest, Moves
  <1> QED
    BY <1>1 DEF Abstract!Next

LEMMA Refuses ==
    ASSUME NEW c \in Calls, StageOf(c) = "made",
           \A d \in Calls : d < c => StageOf(d) # "made",
           waiting' = waiting \/ (waiting = c /\ waiting' = NoCall),
           Moves(c, "refused")
    PROVE  Abstract!Next
  <1>1. Abstract!Refuse(c)
    BY DEF Abstract!Refuse, Abstract!Oldest, Moves
  <1> QED
    BY <1>1 DEF Abstract!Next

LEMMA Answers ==
    ASSUME NEW c \in Calls, StageOf(c) = "taken", waiting' = waiting, Moves(c, "answered")
    PROVE  Abstract!Next
  <1>1. Abstract!Answer(c)
    BY DEF Abstract!Answer, Moves
  <1> QED
    BY <1>1 DEF Abstract!Next

LEMMA Completes ==
    ASSUME NEW c \in Calls,
           \/ StageOf(c) = "answered" /\ waiting \in {NoCall, c}
           \/ StageOf(c) = "taken" /\ waiting = c,
           waiting' = NoCall, Moves(c, "completed")
    PROVE  Abstract!Next
  <1>1. Abstract!Complete(c)
    BY DEF Abstract!Complete, Moves
  <1> QED
    BY <1>1 DEF Abstract!Next

LEMMA Cuts ==
    ASSUME waiting' = NoCall,
           \A d \in Calls : StageOf(d)' = IF StageOf(d) \in Abstract!Open THEN "cut" ELSE StageOf(d)
    PROVE  Abstract!Next
  <1>1. Abstract!Cut
    BY DEF Abstract!Cut
  <1> QED
    BY <1>1 DEF Abstract!Next

\* A call of a script is the next call to be made.
LEMMA SendMakes ==
    ASSUME IInv, ProgressInv, CallFromScript
    PROVE  Abstract!Next
  <1>1. PICK o, form, by, route : CanCall /\ Send(o, form, by, route)
    BY ScriptSends
  <1>2. PICK c : c = Len(calls) + 1
    OBVIOUS
  <1>3. PICK n : n = Len(to_native) + 1
    OBVIOUS
  <1>4. /\ waiting = NoCall /\ xw_instance_
        /\ c \in Calls /\ Len(calls') = c
        /\ \A d \in 1 .. Len(calls) : calls'[d] = calls[d]
        /\ calls'[c].page = page
        /\ Len(to_native') = n
        /\ \A i \in 1 .. Len(to_native) : to_native'[i] = to_native[i]
        /\ to_native'[n].call = c
        /\ waiting' \in {NoCall, c}
        /\ UNCHANGED <<page, xw_instance_, refused, answered, received>>
    BY <1>1, <1>2, <1>3, SendFacts
  <1>5. /\ Len(calls) \in Nat /\ Len(to_native) \in Nat
        /\ \A i \in 1 .. Len(to_native) : to_native[i].call \in 1 .. Len(calls)
    BY DEF IInv, TypeOK, CarriersKnown
  <1>6. /\ n \in 1 .. Len(to_native')
        /\ \A i \in 1 .. Len(to_native) : i \in 1 .. Len(to_native')
        /\ \A i \in 1 .. Len(to_native') : i \in 1 .. Len(to_native) \/ i = n
    BY <1>3, <1>4, <1>5
  <1>7. Untouched(c)
    <2>1. c \notin 1 .. Len(calls)
      BY <1>2, <1>5
    <2> QED
      BY <2>1 DEF ProgressInv, HistoryKnown, Untouched, Delivered
  <1>8. StageOf(c)' = "made"
    <2>1. InTransit(to_native, c)'
      BY <1>4, <1>6 DEF InTransit
    <2>2. ~(c > Len(calls)') /\ OfOpenPage(c)'
      BY <1>4 DEF OfOpenPage
    <2>3. ~Delivered(c)' /\ c \notin refused' /\ ~HasAnswer(c)'
      BY <1>4, <1>7 DEF Untouched, Delivered, HasAnswer
    <2> QED
      BY <2>1, <2>2, <2>3 DEF StageOf
  <1>9. ASSUME NEW d \in Calls, d # c
        PROVE  StageOf(d)' = StageOf(d)
    <2>1. CASE d \in 1 .. Len(calls)
      <3>1. ~(d > Len(calls)) /\ ~(d > Len(calls))' /\ d \in 1 .. Len(calls')
        BY <1>2, <1>4, <1>5, <2>1
      <3>2. calls'[d] = calls[d]
        BY <1>4, <2>1
      <3>3. OfOpenPage(d)' <=> OfOpenPage(d)
        BY <1>4, <2>1, <3>1, <3>2 DEF OfOpenPage
      <3>4. /\ HasAnswer(d)' <=> HasAnswer(d)
            /\ Delivered(d)' <=> Delivered(d)
            /\ (d \in refused)' <=> d \in refused
        BY <1>4, <3>2 DEF HasAnswer, Delivered
      <3>5. InTransit(to_native, d)' <=> InTransit(to_native, d)
        BY <1>4, <1>6, <1>9 DEF InTransit
      <3> QED
        BY <3>1, <3>3, <3>4, <3>5, StageStays
    <2>2. CASE d \notin 1 .. Len(calls)
      <3>1. d > Len(calls) /\ (d > Len(calls))'
        BY <1>2, <1>4, <1>5, <1>9, <2>2
      <3> QED
        BY <3>1 DEF StageOf
    <2> QED
      BY <2>1, <2>2
  <1>10. StageOf(c) = "unmade" /\ \A d \in Calls : d < c => StageOf(d) # "unmade"
    BY <1>2, <1>5 DEF StageOf
  <1>11. Moves(c, "made")
    BY <1>8, <1>9 DEF Moves
  <1> QED
    BY <1>4, <1>10, <1>11, Makes

\* Native code takes, or refuses, the oldest call that was made.
LEMMA TakenMoves ==
    ASSUME IInv, ProgressInv, HandleMessage
    PROVE  Abstract!Next
  <1>1. /\ Dispatching /\ to_native' = Tail(to_native)
        /\ UNCHANGED <<page, xw_instance_, calls, answered, received>>
        /\ \/ refused' = refused /\ waiting' = waiting
           \/ /\ refused' = refused \cup {Oldest.call}
              /\ \/ waiting' = waiting
                 \/ calls[Oldest.call].form = "sync" /\ waiting' = NoCall
    BY DEF HandleMessage, OnConstruct, OnJSObjectCollected, RunFunction,
           DropForObject, DropForHandler, script, native, history, AnsweredFalse, Asked
  <1>2. PICK c : c = Oldest.call
    OBVIOUS
  <1>3. /\ c \in 1 .. Len(calls) /\ calls[c].page = page
        /\ \A i \in 1 .. Len(to_native') :
              /\ i + 1 \in 1 .. Len(to_native)
              /\ to_native'[i] = to_native[i + 1]
              /\ to_native'[i].call # c
    BY <1>1, <1>2, TakenFacts
  <1>4. to_native \in Seq(Message) /\ to_native # <<>>
    BY <1>1 DEF IInv, TypeOK, Dispatching
  <1>5. /\ 1 \in 1 .. Len(to_native) /\ to_native[1].call = c
        /\ \A j \in 1 .. Len(to_native) :
              j # 1 => j - 1 \in 1 .. Len(to_native') /\ to_native'[j - 1] = to_native[j]
    BY <1>1, <1>2, <1>4, TailFacts DEF Oldest
  <1>6. \A d : d # c => (InTransit(to_native, d)' <=> InTransit(to_native, d))
    <2> SUFFICES ASSUME NEW d, d # c
                 PROVE  InTransit(to_native, d)' <=> InTransit(to_native, d)
      OBVIOUS
    <2>1. ASSUME InTransit(to_native, d)'
          PROVE  InTransit(to_native, d)
      BY <1>3, <2>1 DEF InTransit
    <2>2. ASSUME InTransit(to_native, d)
          PROVE  InTransit(to_native, d)'
      <3>1. PICK j \in 1 .. Len(to_native) : to_native[j].call = d
        BY <2>2 DEF InTransit
      <3>2. j # 1
        BY <1>5, <3>1
      <3> QED
        BY <1>5, <3>1, <3>2 DEF InTransit
    <2> QED
      BY <2>1, <2>2
  <1>7. c \in Calls /\ ~(c > Len(calls)) /\ OfOpenPage(c)
    BY <1>1, <1>3 DEF OfOpenPage, Dispatching, IInv, TypeOK
  <1>8. Untouched(c) /\ ~HasAnswer(c) /\ ~HasAnswer(c)'
    <2>1. Untouched(c)
      BY <1>5 DEF ProgressInv, UntouchedInChannel
    <2> QED
      BY <1>1, <2>1 DEF Untouched, HasAnswer
  <1>9. StageOf(c) = "made"
    BY <1>5, <1>7, <1>8 DEF StageOf, Untouched, InTransit
  <1>10. \A d \in Calls : d < c => StageOf(d) # "made"
    <2> SUFFICES ASSUME NEW d \in Calls, d < c, InTransit(to_native, d)
                 PROVE  FALSE
      BY DEF StageOf
    <2>1. PICK j \in 1 .. Len(to_native) : to_native[j].call = d
      BY DEF InTransit
    <2>2. j # 1 /\ 1 < j
      BY <1>4, <1>5, <1>7, <2>1
    <2>3. c < d
      BY <1>5, <2>1, <2>2 DEF ProgressInv, InCallOrder
    <2> QED
      BY <1>7, <2>3
  <1>11. ASSUME NEW d \in Calls, d # c
         PROVE  StageOf(d)' = StageOf(d)
    <2>1. (d \in refused)' <=> d \in refused
      BY <1>1, <1>2, <1>11
    <2>2. /\ (d > Len(calls))' <=> d > Len(calls)
          /\ Delivered(d)' <=> Delivered(d)
          /\ OfOpenPage(d)' <=> OfOpenPage(d)
          /\ HasAnswer(d)' <=> HasAnswer(d)
      BY <1>1 DEF Delivered, OfOpenPage, HasAnswer
    <2> QED
      BY <1>6, <1>11, <2>1, <2>2, StageStays
  <1>12. ~Delivered(c)' /\ OfOpenPage(c)' /\ ~(c > Len(calls))'
    BY <1>1, <1>7, <1>8 DEF Delivered, OfOpenPage, Untouched
  <1>13. CASE refused' = refused /\ waiting' = waiting
    <2>1. ~InTransit(to_native, c)'
      BY <1>3 DEF InTransit
    <2>2. StageOf(c)' = "taken"
      BY <1>8, <1>12, <1>13, <2>1 DEF StageOf, Untouched
    <2>3. Moves(c, "taken")
      BY <1>11, <2>2 DEF Moves
    <2> QED
      BY <1>7, <1>9, <1>10, <1>13, <2>3, Takes
  <1>14. CASE /\ refused' = refused \cup {Oldest.call}
              /\ \/ waiting' = waiting
                 \/ calls[Oldest.call].form = "sync" /\ waiting' = NoCall
    <2>1. c \in refused'
      BY <1>2, <1>14
    <2>2. StageOf(c)' = "refused"
      BY <1>12, <2>1 DEF StageOf
    <2>3. Moves(c, "refused")
      BY <1>11, <2>2 DEF Moves
    <2>4. calls[c].form = "sync" => waiting = c
      BY <1>1, <1>3, <1>5 DEF IInv, SyncBlocks, BlocksScript, Dispatching
    <2>5. waiting' = waiting \/ (waiting = c /\ waiting' = NoCall)
      BY <1>2, <1>14, <2>4
    <2> QED
      BY <1>7, <1>9, <1>10, <2>3, <2>5, Refuses
  <1> QED
    BY <1>1, <1>13, <1>14

\* A result is about one call.
LEMMA OthersStay ==
    ASSUME UNCHANGED <<calls, refused, page, xw_instance_, to_native>>, NEW c,
           \A d, x : d # c => (<<d, x>> \in answered' <=> <<d, x>> \in answered),
           \A d, e : d # c => (<<d, e>> \in received' <=> <<d, e>> \in received)
    PROVE  \A d \in Calls : d # c => StageOf(d)' = StageOf(d)
  <1> SUFFICES ASSUME NEW d \in Calls, d # c
               PROVE  StageOf(d)' = StageOf(d)
    OBVIOUS
  <1>1. /\ (d > Len(calls))' <=> d > Len(calls)
        /\ (d \in refused)' <=> d \in refused
        /\ OfOpenPage(d)' <=> OfOpenPage(d)
        /\ InTransit(to_native, d)' <=> InTransit(to_native, d)
    BY DEF OfOpenPage, InTransit
  <1>2. Delivered(d)' <=> Delivered(d)
    BY DEF Delivered
  <1>3. HasAnswer(d)' <=> HasAnswer(d)
    BY DEF HasAnswer
  <1> QED
    BY <1>1, <1>2, <1>3, StageStays

\* The callback that runs completes a call that was answered, or was completed
\* before.
LEMMA ReceiveMoves ==
    ASSUME IInv, ProgressInv, CallbacksOwned, NEW outcome \in {"done", "keep", "throw"},
           Receive(outcome)
    PROVE  Abstract!Next \/ (Still /\ waiting' = waiting)
  <1>1. /\ waiting = NoCall /\ waiting' = NoCall /\ xw_instance_ /\ to_js # <<>>
        /\ UNCHANGED <<to_native, page, xw_instance_, calls, refused, answered>>
        /\ LET m == Head(to_js)
               c == callback_listeners[m.cb]
           IN  \/ received' = received
               \/ c # NoCall /\ received' = received \cup {<<c, m.call>>}
    BY DEF Receive, ScriptRuns, native
  <1> DEFINE S == [call : Calls, cb : CallbackIds]
  <1>2. to_js \in Seq(S)
    BY DEF IInv, TypeOK
  <1>3. Head(to_js) = to_js[1] /\ 1 \in 1 .. Len(to_js) /\ Head(to_js) \in S
    <2> HIDE DEF S
    <2> QED
      BY <1>1, <1>2, TailFacts
  <1>4. PICK m \in S : m = Head(to_js)
    BY <1>3
  <1>5. PICK c : c = m.call
    OBVIOUS
  <1>6. /\ c \in 1 .. Len(calls) /\ calls[c].page = page
        /\ <<c, "list">> \in answered /\ c \notin refused
    BY <1>3, <1>4, <1>5
       DEF IInv, CarriersKnown, ChannelsOfOpenPage, ProgressInv, ResultsPosted, CarriedNotRefused
  <1>7. OwnCallback(m) /\ m.cb # NoCallback
    BY <1>3, <1>4 DEF CallbacksOwned, OwnCallback
  <1>8. received' = received \/ received' = received \cup {<<c, c>>}
    BY <1>1, <1>4, <1>5, <1>6, <1>7 DEF OwnCallback
  <1>9. \A d \in Calls : d # c => StageOf(d)' = StageOf(d)
    <2>1. \A d, e : d # c => (<<d, e>> \in received' <=> <<d, e>> \in received)
      BY <1>8
    <2> QED
      BY <1>1, <2>1, OthersStay
  <1>10. c \in Calls /\ ~(c > Len(calls)) /\ OfOpenPage(c) /\ HasAnswer(c)
    BY <1>1, <1>6 DEF OfOpenPage, HasAnswer, IInv, TypeOK
  <1>11. CASE Delivered(c)' <=> Delivered(c)
    <2>1. /\ (c > Len(calls))' <=> c > Len(calls)
          /\ (c \in refused)' <=> c \in refused
          /\ OfOpenPage(c)' <=> OfOpenPage(c)
          /\ HasAnswer(c)' <=> HasAnswer(c)
          /\ InTransit(to_native, c)' <=> InTransit(to_native, c)
      BY <1>1 DEF OfOpenPage, HasAnswer, InTransit
    <2>2. StageOf(c)' = StageOf(c)
      BY <1>11, <2>1, StageStays
    <2>3. Still
      BY <1>9, <2>2 DEF Still
    <2> QED
      BY <1>1, <2>3
  <1>12. CASE ~Delivered(c) /\ Delivered(c)'
    <2>1. StageOf(c) = "answered"
      BY <1>6, <1>10, <1>12 DEF StageOf
    <2>2. StageOf(c)' = "completed"
      BY <1>1, <1>10, <1>12 DEF StageOf
    <2>3. Moves(c, "completed")
      BY <1>9, <2>2 DEF Moves
    <2> QED
      BY <1>1, <1>10, <2>1, <2>3, Completes
  <1>13. Delivered(c) => Delivered(c)'
    BY <1>8 DEF Delivered
  <1> QED
    BY <1>11, <1>12, <1>13

\* A result that is posted, but does not reach the script in the same step.
LEMMA PostMoves ==
    ASSUME IInv, ProgressInv, NEW i \in infos, NEW result \in {"list", "value"},
           Post(i, result), waiting' = waiting, received' = received
    PROVE  Abstract!Next \/ (Still /\ waiting' = waiting)
  <1>1. PICK c : c = i.call
    OBVIOUS
  <1>2. /\ c \in 1 .. Len(calls) /\ c \notin refused
        /\ \A j \in 1 .. Len(to_native) : to_native[j].call # c
        /\ UNCHANGED <<to_native, calls, refused, page, xw_instance_>>
        /\ answered' = answered \cup {<<c, result>>}
    BY <1>1, PostedFacts
  <1>3. \A d \in Calls : d # c => StageOf(d)' = StageOf(d)
    <2>1. \A d, x : d # c => (<<d, x>> \in answered' <=> <<d, x>> \in answered)
      BY <1>2
    <2>2. \A d, e : <<d, e>> \in received' <=> <<d, e>> \in received
      OBVIOUS
    <2> QED
      BY <1>2, <2>1, <2>2, OthersStay
  <1>4. c \in Calls /\ ~(c > Len(calls)) /\ ~(c > Len(calls))'
    BY <1>2 DEF IInv, TypeOK
  <1>5. /\ OfOpenPage(c)' <=> OfOpenPage(c)
        /\ Delivered(c)' <=> Delivered(c)
        /\ (c \in refused)' <=> c \in refused
        /\ InTransit(to_native, c)' <=> InTransit(to_native, c)
        /\ ~InTransit(to_native, c)
    BY <1>2 DEF OfOpenPage, Delivered, InTransit
  <1>6. CASE Delivered(c) \/ ~OfOpenPage(c) \/ (HasAnswer(c)' <=> HasAnswer(c))
    <2>1. StageOf(c)' = StageOf(c)
      BY <1>2, <1>4, <1>5, <1>6 DEF StageOf
    <2>2. Still
      BY <1>3, <2>1 DEF Still
    <2> QED
      BY <2>2
  <1>7. CASE ~Delivered(c) /\ OfOpenPage(c) /\ ~HasAnswer(c) /\ HasAnswer(c)'
    <2>1. StageOf(c) = "taken" /\ StageOf(c)' = "answered"
      BY <1>2, <1>4, <1>5, <1>7 DEF StageOf
    <2>2. Moves(c, "answered")
      BY <1>3, <2>1 DEF Moves
    <2> QED
      BY <1>4, <2>1, <2>2, Answers
  <1>8. HasAnswer(c) => HasAnswer(c)'
    BY <1>2 DEF HasAnswer
  <1> QED
    BY <1>6, <1>7, <1>8

\* The answer to the call that blocks the script, posted on the client's thread.
LEMMA PostOnClientMoves ==
    ASSUME IInv, ProgressInv, NEW i \in infos, NEW result \in {"list", "value"},
           PostResultOnClient(i, result)
    PROVE  Abstract!Next \/ (Still /\ waiting' = waiting)
  <1> DEFINE r == [call |-> i.call, cb |-> i.cb, result |-> result]
  <1>1. Post(i, result) /\ DispatchResult(r)
    BY DEF PostResultOnClient
  <1>2. PICK c : c = i.call
    OBVIOUS
  <1>3. /\ c \in 1 .. Len(calls) /\ c \notin refused
        /\ \A j \in 1 .. Len(to_native) : to_native[j].call # c
        /\ UNCHANGED <<to_native, calls, refused, page, xw_instance_>>
        /\ answered' = answered \cup {<<c, result>>}
        /\ BlocksScript(c) => waiting = c
        /\ calls[c].form = "sync" => \A x : <<c, x>> \notin answered
    BY <1>1, <1>2, PostedFacts
  <1>4. r.call = c
    BY <1>2
  <1> HIDE DEF r
  <1>5. /\ calls[c].form = "sync" /\ OfOpenPage(c) =>
              waiting = c /\ waiting' = NoCall /\ received' = received \cup {<<c, c>>}
        /\ ~(calls[c].form = "sync" /\ OfOpenPage(c)) =>
              waiting' = waiting /\ received' = received
    BY <1>1, <1>3, <1>4, DispatchFacts
  <1>6. CASE ~(calls[c].form = "sync" /\ OfOpenPage(c))
    BY <1>1, <1>5, <1>6, PostMoves
  <1>7. CASE calls[c].form = "sync" /\ OfOpenPage(c)
    <2>1. waiting = c /\ waiting' = NoCall /\ received' = received \cup {<<c, c>>}
      BY <1>5, <1>7
    <2>2. c \in Calls /\ c # NoCall /\ ~(c > Len(calls)) /\ ~(c > Len(calls))'
      BY <1>3 DEF IInv, TypeOK
    <2>3. ~Delivered(c)
      BY <2>1, <2>2 DEF ProgressInv, WaitsForResult
    <2>4. StageOf(c) = "taken"
      BY <1>3, <1>7, <2>2, <2>3 DEF StageOf, HasAnswer, InTransit
    <2>5. StageOf(c)' = "completed"
      BY <2>1, <2>2 DEF StageOf, Delivered
    <2>6. \A d \in Calls : d # c => StageOf(d)' = StageOf(d)
      <3>1. /\ \A d, x : d # c => (<<d, x>> \in answered' <=> <<d, x>> \in answered)
            /\ \A d, e : d # c => (<<d, e>> \in received' <=> <<d, e>> \in received)
        BY <1>3, <2>1
      <3> QED
        BY <1>3, <3>1, OthersStay
    <2>7. Moves(c, "completed")
      BY <2>5, <2>6 DEF Moves
    <2> QED
      BY <2>1, <2>2, <2>4, <2>7, Completes
  <1> QED
    BY <1>6, <1>7

\* The same when the client's loop runs the task a worker posted.
LEMMA TaskMoves ==
    ASSUME IInv, ProgressInv, RunTask
    PROVE  Abstract!Next \/ (Still /\ waiting' = waiting)
  <1>1. PICK r \in Result :
              /\ DispatchResult(r)
              /\ r.call \in 1 .. Len(calls) /\ r.call \notin refused
              /\ <<r.call, r.result>> \in answered
              /\ BlocksScript(r.call) => waiting = r.call
              /\ UNCHANGED <<to_native, calls, refused, answered, page, xw_instance_>>
    BY TaskFacts
  <1>2. PICK c : c = r.call
    OBVIOUS
  <1>3. /\ calls[c].form = "sync" /\ OfOpenPage(c) =>
              waiting = c /\ waiting' = NoCall /\ received' = received \cup {<<c, c>>}
        /\ ~(calls[c].form = "sync" /\ OfOpenPage(c)) =>
              waiting' = waiting /\ received' = received
    BY <1>1, <1>2, DispatchFacts
  <1>4. \A d \in Calls : d # c => StageOf(d)' = StageOf(d)
    <2>1. \A d, e : d # c => (<<d, e>> \in received' <=> <<d, e>> \in received)
      BY <1>3
    <2> QED
      BY <1>1, <2>1, OthersStay
  <1>5. CASE ~(calls[c].form = "sync" /\ OfOpenPage(c))
    <2>1. waiting' = waiting /\ received' = received
      BY <1>3, <1>5
    <2>2. /\ (c > Len(calls))' <=> c > Len(calls)
          /\ (c \in refused)' <=> c \in refused
          /\ OfOpenPage(c)' <=> OfOpenPage(c)
          /\ HasAnswer(c)' <=> HasAnswer(c)
          /\ InTransit(to_native, c)' <=> InTransit(to_native, c)
          /\ Delivered(c)' <=> Delivered(c)
      BY <1>1, <2>1 DEF OfOpenPage, HasAnswer, InTransit, Delivered
    <2>3. StageOf(c)' = StageOf(c)
      BY <2>2, StageStays
    <2>4. Still
      BY <1>4, <2>3 DEF Still
    <2> QED
      BY <2>1, <2>4
  <1>6. CASE calls[c].form = "sync" /\ OfOpenPage(c)
    <2>1. waiting = c /\ waiting' = NoCall /\ received' = received \cup {<<c, c>>}
      BY <1>3, <1>6
    <2>2. c \in Calls /\ c # NoCall /\ ~(c > Len(calls)) /\ ~(c > Len(calls))'
      BY <1>1, <1>2 DEF IInv, TypeOK
    <2>3. ~Delivered(c)
      BY <2>1, <2>2 DEF ProgressInv, WaitsForResult
    <2>4. HasAnswer(c)
      BY <1>1, <1>2, <1>6 DEF HasAnswer, Result
    <2>5. StageOf(c) = "answered"
      BY <1>1, <1>2, <1>6, <2>2, <2>3, <2>4 DEF StageOf
    <2>6. StageOf(c)' = "completed"
      BY <2>1, <2>2 DEF StageOf, Delivered
    <2>7. Moves(c, "completed")
      BY <1>4, <2>6 DEF Moves
    <2> QED
      BY <2>1, <2>2, <2>5, <2>7, Completes
  <1> QED
    BY <1>5, <1>6

\* The end of a page cuts its calls; a new page and the end of the destructor
\* say nothing about calls.
LEMMA InstanceMoves ==
    ASSUME IInv, OnInstanceCreated \/ OnInstanceDestroyed \/ DeleteInstance
    PROVE  Abstract!Next \/ (Still /\ waiting' = waiting)
  <1>1. UNCHANGED <<calls, refused, answered, received>>
    BY DEF OnInstanceCreated, OnInstanceDestroyed, DeleteInstance, history
  <1>2. \A d : /\ (d > Len(calls))' <=> d > Len(calls)
               /\ (d \in refused)' <=> d \in refused
               /\ HasAnswer(d)' <=> HasAnswer(d)
               /\ Delivered(d)' <=> Delivered(d)
    BY <1>1 DEF HasAnswer, Delivered
  <1>3. CASE OnInstanceCreated
    <2>1. /\ page' = page + 1 /\ ~handler
          /\ UNCHANGED <<waiting, to_native>>
      BY <1>3 DEF OnInstanceCreated, script, channels
    <2>2. \A d \in 1 .. Len(calls) : calls[d].page \in Nat /\ calls[d].page \leq page
      <3>1. calls \in Seq(Call)
        BY DEF IInv, TypeOK
      <3>2. \A d \in 1 .. Len(calls) : calls[d] \in Call
        BY <3>1
      <3> QED
        BY <3>2 DEF IInv, CountersAgree, Call
    <2>3. page \in Nat
      BY DEF IInv, TypeOK
    <2>4. \A d : ~OfOpenPage(d) /\ ~OfOpenPage(d)'
      BY <1>1, <2>1, <2>2, <2>3 DEF OfOpenPage, IInv, CountersAgree
    <2>5. \A d \in Calls : StageOf(d)' = StageOf(d)
      BY <1>2, <2>1, <2>4, StageStays DEF InTransit
    <2> QED
      BY <2>1, <2>5 DEF Still
  <1>4. CASE OnInstanceDestroyed
    <2>1. waiting' = NoCall /\ ~xw_instance_'
      BY <1>4 DEF OnInstanceDestroyed
    <2>2. \A d : ~OfOpenPage(d)'
      BY <2>1 DEF OfOpenPage
    <2>3. \A d \in Calls :
            StageOf(d)' = IF StageOf(d) \in Abstract!Open THEN "cut" ELSE StageOf(d)
      BY <1>2, <2>2 DEF StageOf, Abstract!Open
    <2> QED
      BY <2>1, <2>3, Cuts
  <1>5. CASE DeleteInstance
    <2>1. UNCHANGED <<page, xw_instance_, to_native, waiting>>
      BY <1>5 DEF DeleteInstance, script, channels
    <2>2. \A d \in Calls : StageOf(d)' = StageOf(d)
      BY <1>1, <1>2, <2>1, StageStays DEF InTransit, OfOpenPage
    <2> QED
      BY <2>1, <2>2 DEF Still
  <1> QED
    BY <1>3, <1>4, <1>5

\* Every step of the bridge is a step of RemoteCalls, or none.
LEMMA NextMoves ==
    ASSUME IInv, ProgressInv, CallbacksOwned, [Next]_vars
    PROVE  [Abstract!Next]_<<[c \in Calls |-> StageOf(c)], waiting>>
  <1>1. Abstract!Next \/ (Still /\ waiting' = waiting)
    <2>1. CASE CallFromScript
      BY <2>1, SendMakes
    <2>2. CASE ReceiveAny
      BY <2>2, ReceiveMoves DEF ReceiveAny
    <2>3. CASE HandleMessage
      BY <2>3, TakenMoves
    <2>4. CASE PostResult
      <3>1. ASSUME NEW i \in infos, NEW result \in {"list", "value"},
                   PostResultOnWorker(i, result)
            PROVE  Abstract!Next \/ (Still /\ waiting' = waiting)
        <4>1. Post(i, result) /\ waiting' = waiting /\ received' = received
          BY <3>1 DEF PostResultOnWorker
        <4> QED
          BY <4>1, PostMoves
      <3> QED
        BY <2>4, <3>1, PostOnClientMoves DEF PostResult
    <2>5. CASE RunTask
      BY <2>5, TaskMoves
    <2>6. CASE OnInstanceCreated \/ OnInstanceDestroyed \/ DeleteInstance
      BY <2>6, InstanceMoves
    <2>7. CASE UNCHANGED vars
      <3>1. /\ UNCHANGED <<calls, refused, answered, received, page, xw_instance_, to_native>>
            /\ waiting' = waiting
        BY <2>7 DEF vars, script, channels, native, history
      <3>2. \A d \in Calls : StageOf(d)' = StageOf(d)
        BY <3>1, StageStays DEF Delivered, OfOpenPage, HasAnswer, InTransit
      <3> QED
        BY <3>1, <3>2 DEF Still
    <2> QED
      BY <2>1, <2>2, <2>3, <2>4, <2>5, <2>6, <2>7 DEF Next
  <1> QED
    BY <1>1, Stutters

\* The bridge keeps the promises of RemoteCalls to the scripts, for any number
\* of calls, pages, threads and results: calls are taken in the order they were
\* made, a call is completed at most once, by its own answer and never after it
\* was refused or its page ended, and a blocked script does nothing else;
\* provided that scripts give every binary message a callback.
THEOREM BridgeKeepsPromisesHolds ==
    ASSUME "binaryPlain" \notin Forms
    PROVE  Spec => BridgeKeepsPromises
  <1>1. Init => CallbacksOwned /\ ProgressInv
    <2> SUFFICES ASSUME Init
                 PROVE  CallbacksOwned /\ ProgressInv
      OBVIOUS
    <2>1. /\ to_native = <<>> /\ to_js = <<>> /\ tasks = <<>> /\ infos = {}
          /\ refused = {} /\ answered = {} /\ received = {} /\ waiting = NoCall
      BY DEF Init
    <2>2. CallbacksOwned
      BY <2>1 DEF CallbacksOwned
    <2>3. InCallOrder /\ HistoryKnown /\ UntouchedInChannel
      BY <2>1 DEF InCallOrder, HistoryKnown, UntouchedInChannel
    <2>4. CarriedNotRefused /\ ResultsPosted /\ WaitsForResult
      BY <2>1 DEF CarriedNotRefused, ResultsPosted, WaitsForResult
    <2> QED
      BY <2>2, <2>3, <2>4 DEF ProgressInv
  <1>2. Init => Abstract!Init
    BY DEF Init, Abstract!Init, StageOf
  <1>3. IInv /\ CallbacksOwned /\ ProgressInv /\ [Next]_vars
            => /\ CallbacksOwned' /\ ProgressInv'
               /\ [Abstract!Next]_<<[c \in Calls |-> StageOf(c)], waiting>>
    BY NextOwned, NextProgress, NextMoves
  <1> QED
    BY <1>1, <1>2, <1>3, Invariance, PTL DEF Spec, BridgeKeepsPromises, Abstract!Spec
=============================================================================
