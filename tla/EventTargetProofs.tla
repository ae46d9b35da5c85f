------------------------- MODULE EventTargetProofs -------------------------
(***************************************************************************)
(* Proofs about EventTarget.  For any scripts, events and listeners: the   *)
(* types, the exactness of the callback table, and that no dispatch calls  *)
(* a listener that was removed.  When one script object has the identifier *)
(* of the native object: that the two sides agree on what is subscribed,   *)
(* and that a collection deletes the native object when its source is      *)
(* quiet.                                                                  *)
(***************************************************************************)
EXTENDS EventTarget, SequenceTheorems, TLAPS

USE EndpointsAssumption, FunctionsAssumption, EventBoundsAssumption

Distinct(seq) == \A i, j \in 1 .. Len(seq) : seq[i] = seq[j] => i = j

(* The tables between two operations of a script, and within one. *)
NoDuplicates(s) == \A e \in Endpoints, t \in Types : Distinct(s.listeners[e][t])

-----------------------------------------------------------------------------
(* The array of listeners. *)

LEMMA IndexOfMember ==
    ASSUME NEW S, NEW seq \in Seq(S), NEW f \in Members(seq)
    PROVE  IndexOf(seq, f) \in 1 .. Len(seq) /\ seq[IndexOf(seq, f)] = f
BY DEF IndexOf, Members

LEMMA SplicedType ==
    ASSUME NEW S, NEW seq \in Seq(S), NEW f \in Members(seq), Distinct(seq)
    PROVE  /\ Spliced(seq, f) \in Seq(S)
           /\ Len(Spliced(seq, f)) = Len(seq) - 1
           /\ Distinct(Spliced(seq, f))
<1> DEFINE k == IndexOf(seq, f)
           r == Spliced(seq, f)
<1>1. k \in 1 .. Len(seq)
  BY IndexOfMember
<1>2. Len(seq) \in Nat /\ seq \in [1 .. Len(seq) -> S]
  OBVIOUS
<1>3. r = [i \in 1 .. Len(seq) - 1 |-> IF i < k THEN seq[i] ELSE seq[i + 1]]
  BY DEF Spliced
<1> HIDE DEF k, r
<1>4. r \in [1 .. Len(seq) - 1 -> S]
  BY <1>1, <1>2, <1>3
<1>5. Len(seq) - 1 \in Nat
  BY <1>1, <1>2
<1>6. r \in Seq(S) /\ Len(r) = Len(seq) - 1
  BY <1>4, <1>5, IsASeq
<1>7. ASSUME NEW i \in 1 .. Len(r), NEW j \in 1 .. Len(r), r[i] = r[j]
      PROVE  i = j
  <2>1. i \in 1 .. Len(seq) /\ j \in 1 .. Len(seq) /\ i + 1 \in 1 .. Len(seq) /\ j + 1 \in 1 .. Len(seq)
    BY <1>2, <1>5, <1>6
  <2>2. r[i] = (IF i < k THEN seq[i] ELSE seq[i + 1]) /\ r[j] = (IF j < k THEN seq[j] ELSE seq[j + 1])
    BY <1>3, <1>6
  <2>3. \A a, b \in 1 .. Len(seq) : seq[a] = seq[b] => a = b
    BY DEF Distinct
  <2>4. CASE i < k /\ j < k
    BY <1>7, <2>1, <2>2, <2>3, <2>4
  <2>5. CASE i < k /\ ~(j < k)
    <3>1. seq[i] = seq[j + 1]
      BY <1>7, <2>2, <2>5
    <3>2. i = j + 1
      BY <3>1, <2>1, <2>3
    <3> QED BY <3>2, <2>5, <1>1, <2>1
  <2>6. CASE ~(i < k) /\ j < k
    <3>1. seq[i + 1] = seq[j]
      BY <1>7, <2>2, <2>6
    <3>2. i + 1 = j
      BY <3>1, <2>1, <2>3
    <3> QED BY <3>2, <2>6, <1>1, <2>1
  <2>7. CASE ~(i < k) /\ ~(j < k)
    <3>1. seq[i + 1] = seq[j + 1]
      BY <1>7, <2>2, <2>7
    <3>2. i + 1 = j + 1
      BY <3>1, <2>1, <2>3
    <3> QED BY <3>2, <2>1
  <2> QED BY <2>4, <2>5, <2>6, <2>7
<1> QED BY <1>6, <1>7 DEF Distinct, r

LEMMA PushNewType ==
    ASSUME NEW S, NEW seq \in Seq(S), NEW f \in S, Distinct(seq)
    PROVE  /\ PushNew(seq, f) \in Seq(S)
           /\ Distinct(PushNew(seq, f))
           /\ Len(PushNew(seq, f)) \geq Len(seq)
<1>1. CASE f \in Members(seq)
  BY <1>1 DEF PushNew
<1>2. CASE f \notin Members(seq)
  <2>1. PushNew(seq, f) = Append(seq, f)
    BY <1>2 DEF PushNew
  <2>2. \A i \in 1 .. Len(seq) : seq[i] # f
    BY <1>2 DEF Members
  <2>3. Distinct(Append(seq, f))
    BY <2>2 DEF Distinct
  <2> QED BY <2>1, <2>3
<1> QED BY <1>1, <1>2

LEMMA MembersType ==
    ASSUME NEW S, NEW seq \in Seq(S)
    PROVE  Members(seq) \subseteq S /\ (Members(seq) = {} <=> seq = <<>>)
           /\ (Len(seq) = 1 => seq # <<>>)
<1>1. \A i \in 1 .. Len(seq) : seq[i] \in S
  OBVIOUS
<1>2. Members(seq) \subseteq S
  BY <1>1 DEF Members
<1>3. ASSUME seq # <<>> PROVE Members(seq) # {}
  <2>1. 1 \in 1 .. Len(seq)
    BY <1>3
  <2> QED BY <2>1 DEF Members
<1>4. Len(<<>>) = 0
  OBVIOUS
<1>5. seq = <<>> => Members(seq) = {}
  BY <1>4 DEF Members
<1> QED BY <1>2, <1>3, <1>4, <1>5
-----------------------------------------------------------------------------
(* What an operation does to each of the tables. *)

AddsArray(s, e, t, f, r) ==
    /\ r = [listeners |-> r.listeners, listener_id |-> r.listener_id,
            handler |-> r.handler, callbacks |-> r.callbacks,
            next_id |-> r.next_id, sent |-> r.sent]
    /\ r.listeners = [s.listeners EXCEPT ![e][t] = <<f>>]
    /\ r.listener_id = [s.listener_id EXCEPT ![e][t] = s.next_id]
    /\ r.handler = s.handler
    /\ r.callbacks = [s.callbacks EXCEPT ![s.next_id] = <<e, t>>]
    /\ r.next_id = s.next_id + 1
    /\ r.sent = Append(s.sent, [op |-> "add", type |-> t, id |-> s.next_id])

LEMMA FirstListener ==
    ASSUME NEW s \in JsType, NEW e \in Endpoints, NEW t \in Types, NEW f \in Functions,
           s.listeners[e][t] = <<>>
    PROVE  AddsArray(s, e, t, f, AddListener(s, e, t, f))
<1>1. f # Nothing
  OBVIOUS
<1> QED BY <1>1 DEF AddsArray, AddListener, JsType

AddsElement(s, e, t, f, r) ==
    \/ r = s
    \/ /\ f # Nothing
       /\ s.listeners[e][t] # <<>>
       /\ r = [s EXCEPT !.listeners[e][t] = PushNew(s.listeners[e][t], f)]

LEMMA OtherListener ==
    ASSUME NEW s \in JsType, NEW e \in Endpoints, NEW t \in Types, NEW f,
           f = Nothing \/ s.listeners[e][t] # <<>>
    PROVE  AddsElement(s, e, t, f, AddListener(s, e, t, f))
BY DEF AddsElement, AddListener, JsType

RemovesArray(s, e, t, f, r) ==
    /\ r = [listeners |-> r.listeners, listener_id |-> r.listener_id,
            handler |-> r.handler, callbacks |-> r.callbacks,
            next_id |-> r.next_id, sent |-> r.sent]
    /\ r.listeners = [s.listeners EXCEPT ![e][t] = <<>>]
    /\ r.listener_id = [s.listener_id EXCEPT ![e][t] = NoId]
    /\ r.handler = s.handler
    /\ r.callbacks = [s.callbacks EXCEPT ![s.listener_id[e][t]] = <<>>]
    /\ r.next_id = s.next_id
    /\ r.sent = Append(s.sent, [op |-> "remove", type |-> t, id |-> NoId])

LEMMA LastRemoved ==
    ASSUME NEW s \in JsType, NEW e \in Endpoints, NEW t \in Types, NEW f,
           f # Nothing, f \in Members(s.listeners[e][t]), Len(s.listeners[e][t]) = 1
    PROVE  RemovesArray(s, e, t, f, RemoveListener(s, e, t, f))
BY DEF RemovesArray, RemoveListener, JsType, DropCallback, TellRemoved

RemovesElement(s, e, t, f, r) ==
    \/ r = s
    \/ /\ f \in Members(s.listeners[e][t])
       /\ Len(s.listeners[e][t]) # 1
       /\ r = [s EXCEPT !.listeners[e][t] = Spliced(s.listeners[e][t], f)]

LEMMA OtherRemoved ==
    ASSUME NEW s \in JsType, NEW e \in Endpoints, NEW t \in Types, NEW f,
           ~(f # Nothing /\ f \in Members(s.listeners[e][t]) /\ Len(s.listeners[e][t]) = 1)
    PROVE  RemovesElement(s, e, t, f, RemoveListener(s, e, t, f))
BY DEF RemovesElement, RemoveListener, JsType

LEMMA NewArrayType ==
    ASSUME NEW s \in JsType, NEW e \in Endpoints, NEW t \in Types,
           NEW array \in Seq(Functions), NoDuplicates(s), Distinct(array)
    PROVE  LET r == [s EXCEPT !.listeners[e][t] = array] IN
           r \in JsType /\ NoDuplicates(r)
<1> DEFINE r == [s EXCEPT !.listeners[e][t] = array]
<1>1. r \in JsType
  BY DEF JsType
<1>2. \A e2 \in Endpoints, t2 \in Types :
          r.listeners[e2][t2] = IF e2 = e /\ t2 = t THEN array ELSE s.listeners[e2][t2]
  BY DEF JsType
<1> QED BY <1>1, <1>2 DEF NoDuplicates

LEMMA AddType ==
    ASSUME NEW s \in JsType, NoDuplicates(s), s.next_id < MaxAdds,
           NEW e \in Endpoints, NEW t \in Types, NEW f \in Functions \cup {Nothing}
    PROVE  AddListener(s, e, t, f) \in JsType /\ NoDuplicates(AddListener(s, e, t, f))
<1> DEFINE r == AddListener(s, e, t, f)
<1>1. s.listeners[e][t] \in Seq(Functions) /\ Distinct(s.listeners[e][t])
  BY DEF JsType, NoDuplicates
<1>2. CASE f # Nothing /\ s.listeners[e][t] = <<>>
  <2>0. f \in Functions /\ s.listeners[e][t] = <<>>
    BY <1>2
  <2>10. AddsArray(s, e, t, f, r)
    BY <2>0, FirstListener
  <2> HIDE DEF r
  <2>1. s.next_id \in Ids /\ s.next_id + 1 \in 0 .. MaxAdds
    BY DEF JsType, Ids
  <2>2. r.listeners \in [Endpoints -> [Types -> Seq(Functions)]]
    BY <2>0, <2>10 DEF AddsArray, JsType
  <2>3. r.listener_id \in [Endpoints -> [Types -> Ids \cup {NoId}]]
    BY <2>1, <2>10 DEF AddsArray, JsType
  <2>4. r.callbacks \in [Ids -> (Endpoints \X Types) \cup {<<>>}]
    BY <2>1, <2>10 DEF AddsArray, JsType
  <2>5. r.sent \in Seq([op : {"add"}, type : Types, id : Ids]
                         \cup [op : {"remove"}, type : Types, id : {NoId}])
    BY <2>1, <2>10 DEF AddsArray, JsType
  <2>6. r = [listeners |-> r.listeners, listener_id |-> r.listener_id,
             handler |-> r.handler, callbacks |-> r.callbacks,
             next_id |-> r.next_id, sent |-> r.sent]
        /\ r.handler = s.handler /\ r.next_id = s.next_id + 1
    BY <2>10 DEF AddsArray
  <2>7. r \in JsType
    BY <2>1, <2>2, <2>3, <2>4, <2>5, <2>6 DEF JsType
  <2>8. \A e2 \in Endpoints, t2 \in Types :
            r.listeners[e2][t2] = IF e2 = e /\ t2 = t THEN <<f>> ELSE s.listeners[e2][t2]
    BY <2>0, <2>10 DEF AddsArray, JsType
  <2>9. Distinct(<<f>>)
    BY DEF Distinct
  <2>11. NoDuplicates(r)
    BY <2>8, <2>9 DEF NoDuplicates
  <2> QED BY <2>7, <2>11 DEF r
<1>3. CASE ~(f # Nothing /\ s.listeners[e][t] = <<>>)
  <2>1. \/ r = s
        \/ /\ f # Nothing
           /\ s.listeners[e][t] # <<>>
           /\ r = [s EXCEPT !.listeners[e][t] = PushNew(s.listeners[e][t], f)]
    BY <1>3, OtherListener DEF AddsElement
  <2>2. CASE r = s
    BY <2>2
  <2>3. CASE f # Nothing /\ r = [s EXCEPT !.listeners[e][t] = PushNew(s.listeners[e][t], f)]
    <3>1. PushNew(s.listeners[e][t], f) \in Seq(Functions)
          /\ Distinct(PushNew(s.listeners[e][t], f))
      BY <1>1, <2>3, PushNewType
    <3> DEFINE array == PushNew(s.listeners[e][t], f)
    <3>2. array \in Seq(Functions) /\ Distinct(array) /\ r = [s EXCEPT !.listeners[e][t] = array]
      BY <2>3, <3>1
    <3> HIDE DEF array, r
    <3>3. [s EXCEPT !.listeners[e][t] = array] \in JsType /\ NoDuplicates([s EXCEPT !.listeners[e][t] = array])
      BY <1>1, <3>2, NewArrayType
    <3> QED BY <3>2, <3>3 DEF r
  <2> QED BY <2>1, <2>2, <2>3
<1> QED BY <1>2, <1>3

LEMMA RemoveType ==
    ASSUME NEW s \in JsType, NoDuplicates(s),
           NEW e \in Endpoints, NEW t \in Types, NEW f \in Functions \cup {Nothing}
    PROVE  RemoveListener(s, e, t, f) \in JsType /\ NoDuplicates(RemoveListener(s, e, t, f))
           /\ RemoveListener(s, e, t, f).next_id = s.next_id
<1> DEFINE r == RemoveListener(s, e, t, f)
<1>1. s.listeners[e][t] \in Seq(Functions) /\ Distinct(s.listeners[e][t])
  BY DEF JsType, NoDuplicates
<1>2. CASE f # Nothing /\ f \in Members(s.listeners[e][t]) /\ Len(s.listeners[e][t]) = 1
  <2>10. RemovesArray(s, e, t, f, r)
    BY <1>2, LastRemoved
  <2> HIDE DEF r
  <2>1. s.listener_id[e][t] \in Ids \cup {NoId}
    BY DEF JsType
  <2>2. r.listeners \in [Endpoints -> [Types -> Seq(Functions)]]
    BY <2>1, <2>10 DEF RemovesArray, JsType
  <2>3. r.listener_id \in [Endpoints -> [Types -> Ids \cup {NoId}]]
    BY <2>1, <2>10 DEF RemovesArray, JsType
  <2>4. r.callbacks \in [Ids -> (Endpoints \X Types) \cup {<<>>}]
    BY <2>1, <2>10 DEF RemovesArray, JsType
  <2>5. r.sent \in Seq([op : {"add"}, type : Types, id : Ids]
                         \cup [op : {"remove"}, type : Types, id : {NoId}])
    BY <2>1, <2>10 DEF RemovesArray, JsType
  <2>6. r = [listeners |-> r.listeners, listener_id |-> r.listener_id,
             handler |-> r.handler, callbacks |-> r.callbacks,
             next_id |-> r.next_id, sent |-> r.sent]
        /\ r.handler = s.handler /\ r.next_id = s.next_id
    BY <2>10 DEF RemovesArray
  <2>7. r \in JsType
    BY <2>2, <2>3, <2>4, <2>5, <2>6 DEF JsType
  <2>8. \A e2 \in Endpoints, t2 \in Types :
            r.listeners[e2][t2] = IF e2 = e /\ t2 = t THEN <<>> ELSE s.listeners[e2][t2]
    BY <2>1, <2>10 DEF RemovesArray, JsType
  <2>9. Distinct(<<>>)
    BY DEF Distinct
  <2>11. NoDuplicates(r)
    BY <2>8, <2>9 DEF NoDuplicates
  <2> QED BY <2>6, <2>7, <2>11 DEF r
<1>3. CASE ~(f # Nothing /\ f \in Members(s.listeners[e][t]) /\ Len(s.listeners[e][t]) = 1)
  <2>1. \/ r = s
        \/ /\ f \in Members(s.listeners[e][t])
           /\ r = [s EXCEPT !.listeners[e][t] = Spliced(s.listeners[e][t], f)]
    BY <1>3, OtherRemoved DEF RemovesElement
  <2>2. CASE r = s
    BY <2>2
  <2>3. CASE f \in Members(s.listeners[e][t])
             /\ r = [s EXCEPT !.listeners[e][t] = Spliced(s.listeners[e][t], f)]
    <3>1. Spliced(s.listeners[e][t], f) \in Seq(Functions)
          /\ Distinct(Spliced(s.listeners[e][t], f))
      BY <1>1, <2>3, SplicedType
    <3>2. r.next_id = s.next_id
      BY <2>3 DEF JsType
    <3> QED BY <2>3, <3>1, <3>2, NewArrayType
  <2> QED BY <2>1, <2>2, <2>3
<1> QED BY <1>2, <1>3
LEMMA SetType ==
    ASSUME NEW s \in JsType, NoDuplicates(s), s.next_id < MaxAdds,
           NEW e \in Endpoints, NEW t \in Types, NEW f \in Functions \cup {Nothing}
    PROVE  SetHandler(s, e, t, f) \in JsType /\ NoDuplicates(SetHandler(s, e, t, f))
<1> DEFINE r == RemoveListener(s, e, t, s.handler[e][t])
           h == [r EXCEPT !.handler[e][t] = f]
<1>1. s.handler[e][t] \in Functions \cup {Nothing}
  BY DEF JsType
<1>2. r \in JsType /\ NoDuplicates(r) /\ r.next_id = s.next_id
  BY <1>1, RemoveType
<1>3. h \in JsType /\ NoDuplicates(h) /\ h.next_id = s.next_id
  <2> HIDE DEF r
  <2> QED BY <1>2 DEF JsType, NoDuplicates
<1>4. AddListener(h, e, t, f) \in JsType /\ NoDuplicates(AddListener(h, e, t, f))
  <2> HIDE DEF h
  <2> QED BY <1>3, AddType
<1> QED BY <1>4 DEF SetHandler

-----------------------------------------------------------------------------
(* The dispatch in progress. *)

(* A loop whose array was given up has nothing left to call: the array had *)
(* one listener, which the loop called first.                              *)
LoopSound(l) == l.on => l.next \geq 2 /\ (~l.live => Len(l.array) \leq 1)

LEMMA LoopAfterType ==
    ASSUME NEW l \in LoopType \cup {NoLoop}, NEW e, NEW t,
           NEW before \in Seq(Functions), NEW after \in Seq(Functions),
           LoopSound(l), after = <<>> => Len(before) \leq 1
    PROVE  /\ LoopAfter(l, e, t, before, after) \in LoopType \cup {NoLoop}
           /\ LoopSound(LoopAfter(l, e, t, before, after))
<1>1. Members(before) \subseteq Functions
  BY MembersType
<1>2. CASE l.on
  <2>1. l \in LoopType
    BY <1>2 DEF NoLoop
  <2> DEFINE a == IF l.live /\ after = <<>> THEN before ELSE l.array
             v == l.live /\ after # <<>>
             m == l.removed \cup (Members(before) \ Members(after))
  <2>2. a \in Seq(Functions) /\ v \in BOOLEAN /\ m \in SUBSET Functions
    BY <1>1, <2>1 DEF LoopType
  <2>3. [l EXCEPT !.removed = m, !.array = a, !.live = v] \in LoopType
    <3> HIDE DEF a, v, m
    <3> QED BY <2>1, <2>2 DEF LoopType
  <2>4. LoopSound([l EXCEPT !.removed = m, !.array = a, !.live = v])
    BY <2>1 DEF LoopType, LoopSound
  <2> QED BY <2>3, <2>4 DEF LoopAfter
<1>3. CASE ~l.on
  BY <1>3 DEF LoopAfter
<1> QED BY <1>2, <1>3

LEMMA EmptiedArray ==
    ASSUME NEW s \in JsType, NoDuplicates(s),
           NEW e \in Endpoints, NEW t \in Types, NEW f \in Functions \cup {Nothing}
    PROVE  /\ AddListener(s, e, t, f).listeners[e][t] = <<>> => s.listeners[e][t] = <<>>
           /\ RemoveListener(s, e, t, f).listeners[e][t] = <<>> =>
                  Len(s.listeners[e][t]) \leq 1
<1>0. s.listeners[e][t] \in Seq(Functions) /\ Distinct(s.listeners[e][t])
  BY DEF JsType, NoDuplicates
<1>1. ASSUME s.listeners[e][t] # <<>>
      PROVE  AddListener(s, e, t, f).listeners[e][t] # <<>>
  <2>1. AddsElement(s, e, t, f, AddListener(s, e, t, f))
    BY <1>1, OtherListener
  <2>2. f # Nothing => Len(PushNew(s.listeners[e][t], f)) \geq Len(s.listeners[e][t])
    BY <1>0, PushNewType
  <2>3. Len(s.listeners[e][t]) > 0
    BY <1>0, <1>1
  <2>4. f # Nothing => PushNew(s.listeners[e][t], f) # <<>>
    BY <2>2, <2>3
  <2> QED BY <1>1, <2>1, <2>4 DEF AddsElement, JsType
<1>2. ASSUME ~(Len(s.listeners[e][t]) \leq 1)
      PROVE  RemoveListener(s, e, t, f).listeners[e][t] # <<>>
  <2>1. RemovesElement(s, e, t, f, RemoveListener(s, e, t, f))
    <3>1. Len(s.listeners[e][t]) # 1
      <4>1. ASSUME Len(s.listeners[e][t]) = 1 PROVE FALSE
        BY <1>2, <4>1
      <4> QED BY <4>1
    <3> QED BY <3>1, OtherRemoved
  <2>2. f \in Members(s.listeners[e][t]) =>
            Len(Spliced(s.listeners[e][t], f)) = Len(s.listeners[e][t]) - 1
    BY <1>0, SplicedType
  <2>3. f \in Members(s.listeners[e][t]) => Spliced(s.listeners[e][t], f) # <<>>
    BY <1>0, <1>2, <2>2
  <2>4. s.listeners[e][t] # <<>>
    BY <1>2
  <2> QED BY <2>1, <2>3, <2>4 DEF RemovesElement, JsType
<1> QED BY <1>1, <1>2
-----------------------------------------------------------------------------
(* The types, and that a dispatch calls no listener that was removed: what *)
(* is left of an array that was given up is behind the loop.               *)

DispatchInv == TypeOK /\ LoopSound(loop) /\ ~stale

LEMMA TypeDuplicates == TypeOK => js \in JsType /\ NoDuplicates(js)
BY DEF TypeOK, NoDuplicates, Distinct

LEMMA OperateType ==
    ASSUME DispatchInv, NEW e \in Endpoints, NEW t \in Types,
           NEW between \in JsType, NEW after \in JsType, NoDuplicates(after),
           between.listeners[e][t] = <<>> => Len(js.listeners[e][t]) \leq 1,
           after.listeners[e][t] = <<>> => Len(between.listeners[e][t]) \leq 1,
           Operate(e, t, between, after)
    PROVE  DispatchInv'
<1> USE DEF DispatchInv
<1>1. js' \in JsType /\ js'.sent = <<>> /\ js'.listeners = after.listeners
  <2>1. js' = [after EXCEPT !.sent = <<>>]
    BY DEF Operate
  <2>2. js' = [listeners |-> after.listeners, listener_id |-> after.listener_id,
               handler |-> after.handler, callbacks |-> after.callbacks,
               next_id |-> after.next_id, sent |-> <<>>]
    BY <2>1 DEF JsType
  <2> QED BY <2>2 DEF JsType
<1>2. to_native' \in Seq(Messages)
  <2>1. after.sent \in Seq(Messages)
    BY DEF JsType, Messages
  <2>2. to_native \in Seq(Messages)
    BY DEF TypeOK
  <2> QED BY <2>1, <2>2 DEF Operate
<1>3. loop' \in LoopType \cup {NoLoop} /\ LoopSound(loop')
  <2>1. js.listeners[e][t] \in Seq(Functions) /\ between.listeners[e][t] \in Seq(Functions)
        /\ after.listeners[e][t] \in Seq(Functions)
    BY DEF TypeOK, JsType
  <2> DEFINE l == LoopAfter(loop, e, t, js.listeners[e][t], between.listeners[e][t])
  <2>2. l \in LoopType \cup {NoLoop} /\ LoopSound(l)
    BY <2>1, LoopAfterType DEF TypeOK
  <2>3. loop' = LoopAfter(l, e, t, between.listeners[e][t], after.listeners[e][t])
    BY DEF Operate
  <2> HIDE DEF l
  <2> QED BY <2>1, <2>2, <2>3, LoopAfterType
<1>4. \A e2 \in Endpoints, t2 \in Types : \A i, j \in 1 .. Len(js'.listeners[e2][t2]) :
          js'.listeners[e2][t2][i] = js'.listeners[e2][t2][j] => i = j
  BY <1>1 DEF NoDuplicates, Distinct
<1> QED BY <1>1, <1>2, <1>3, <1>4 DEF Operate, TypeOK

LEMMA StartLoopType ==
    ASSUME TypeOK, NEW e \in Endpoints, NEW t \in Types, StartLoop(e, t)
    PROVE  loop' \in LoopType \cup {NoLoop} /\ LoopSound(loop')
<1>1. js.listeners[e][t] \in Seq(Functions)
  BY DEF TypeOK, JsType
<1> QED BY <1>1 DEF StartLoop, LoopType, NoLoop, LoopSound

LEMMA OperateAnyType == DispatchInv /\ OperateAny => DispatchInv'
<1> SUFFICES ASSUME DispatchInv, OperateAny PROVE DispatchInv'
  OBVIOUS
<1>0. js \in JsType /\ NoDuplicates(js)
  BY TypeDuplicates DEF DispatchInv
<1>1. ASSUME NEW e \in Endpoints, NEW t \in Types, NEW f \in Functions, Add(e, t, f)
      PROVE  DispatchInv'
  <2>1. js.next_id < MaxAdds /\ Operate(e, t, js, AddListener(js, e, t, f))
    BY <1>1 DEF Add
  <2>2. AddListener(js, e, t, f) \in JsType /\ NoDuplicates(AddListener(js, e, t, f))
    BY <1>0, <2>1, AddType
  <2>3. AddListener(js, e, t, f).listeners[e][t] = <<>> => js.listeners[e][t] = <<>>
    BY <1>0, EmptiedArray
  <2> QED BY <1>0, <2>1, <2>2, <2>3, OperateType
<1>2. ASSUME NEW e \in Endpoints, NEW t \in Types, NEW f \in Functions, Remove(e, t, f)
      PROVE  DispatchInv'
  <2>1. Operate(e, t, js, RemoveListener(js, e, t, f))
    BY <1>2 DEF Remove
  <2>2. RemoveListener(js, e, t, f) \in JsType /\ NoDuplicates(RemoveListener(js, e, t, f))
    BY <1>0, RemoveType
  <2>3. RemoveListener(js, e, t, f).listeners[e][t] = <<>> => Len(js.listeners[e][t]) \leq 1
    BY <1>0, EmptiedArray
  <2>4. js.listeners[e][t] = <<>> => Len(js.listeners[e][t]) \leq 1
    OBVIOUS
  <2> QED BY <1>0, <2>1, <2>2, <2>3, <2>4, OperateType
<1>3. ASSUME NEW e \in Endpoints, NEW t \in Types, NEW f \in Functions \cup {Nothing},
             Set(e, t, f)
      PROVE  DispatchInv'
  <2> DEFINE r == RemoveListener(js, e, t, js.handler[e][t])
             h == [r EXCEPT !.handler[e][t] = f]
  <2>1. js.next_id < MaxAdds /\ js.handler[e][t] # f
        /\ Operate(e, t, r, SetHandler(js, e, t, f))
    BY <1>3 DEF Set
  <2>2. js.handler[e][t] \in Functions \cup {Nothing}
    BY <1>0 DEF JsType
  <2>3. r \in JsType /\ NoDuplicates(r)
    BY <1>0, <2>2, RemoveType
  <2>4. SetHandler(js, e, t, f) \in JsType /\ NoDuplicates(SetHandler(js, e, t, f))
    BY <1>0, <2>1, SetType
  <2>5. r.listeners[e][t] = <<>> => Len(js.listeners[e][t]) \leq 1
    BY <1>0, <2>2, EmptiedArray
  <2>6. SetHandler(js, e, t, f) = AddListener(h, e, t, f)
    BY <2>1 DEF SetHandler
  <2>7. h \in JsType /\ NoDuplicates(h) /\ h.listeners = r.listeners
    <3> HIDE DEF r
    <3> QED BY <2>3 DEF JsType, NoDuplicates
  <2>8. AddListener(h, e, t, f).listeners[e][t] = <<>> => h.listeners[e][t] = <<>>
    <3> HIDE DEF h
    <3> QED BY <2>7, EmptiedArray
  <2>9. SetHandler(js, e, t, f).listeners[e][t] = <<>> => Len(r.listeners[e][t]) \leq 1
    <3>1. h.listeners[e][t] = r.listeners[e][t]
      BY <2>7
    <3> HIDE DEF r, h
    <3>2. SetHandler(js, e, t, f).listeners[e][t] = <<>> => r.listeners[e][t] = <<>>
      BY <2>6, <2>8, <3>1
    <3>3. r.listeners[e][t] = <<>> => Len(r.listeners[e][t]) \leq 1
      OBVIOUS
    <3> QED BY <3>2, <3>3
  <2> HIDE DEF r, h
  <2> QED BY <2>1, <2>3, <2>4, <2>5, <2>9, OperateType
<1> QED BY <1>1, <1>2, <1>3 DEF OperateAny

LEMMA NoTablesType ==
    /\ NoTables \in JsType /\ NoTables.sent = <<>>
    /\ \A e \in Endpoints, t \in Types :
          NoTables.listeners[e][t] = <<>> /\ Len(NoTables.listeners[e][t]) = 0
BY DEF NoTables, JsType

LEMMA InitDispatch == Init => DispatchInv
<1> SUFFICES ASSUME Init PROVE DispatchInv
  OBVIOUS
<1>1. js \in JsType /\ js.sent = <<>>
  BY NoTablesType DEF Init
<1>2. \A e \in Endpoints, t \in Types : Len(js.listeners[e][t]) = 0
  BY NoTablesType DEF Init
<1>3. LoopSound(loop) /\ loop \in LoopType \cup {NoLoop}
  BY DEF Init, LoopSound, NoLoop
<1>4. to_native \in Seq(Messages) /\ to_js \in Seq(Ids)
  BY DEF Init
<1>5. events_ \in [Types -> Ids \cup {NoId}] /\ source \subseteq Types /\ events \in Nat
  BY DEF Init
<1>6. {open, alive, exists, stale} \subseteq BOOLEAN /\ ~stale
  BY DEF Init
<1>7. \A e \in Endpoints, t \in Types : \A i, j \in 1 .. Len(js.listeners[e][t]) :
          js.listeners[e][t][i] = js.listeners[e][t][j] => i = j
  BY <1>2
<1> QED BY <1>1, <1>3, <1>4, <1>5, <1>6, <1>7 DEF DispatchInv, TypeOK

LEMMA NextDispatch == DispatchInv /\ [Next]_vars => DispatchInv'
<1> SUFFICES ASSUME DispatchInv, [Next]_vars PROVE DispatchInv'
  OBVIOUS
<1> USE DEF DispatchInv
<1>1. CASE OperateAny
  BY <1>1, OperateAnyType
<1>2. ASSUME NEW e \in Endpoints, NEW t \in Types, DispatchFromScript(e, t)
      PROVE  DispatchInv'
  BY <1>2, StartLoopType DEF DispatchFromScript, TypeOK
<1>3. CASE DispatchFromExtension
  <2> DEFINE target == js.callbacks[Head(to_js)]
  <2>1. Head(to_js) \in Ids /\ Tail(to_js) \in Seq(Ids)
    BY <1>3 DEF DispatchFromExtension, TypeOK
  <2>2. target = <<>> \/ (target[1] \in Endpoints /\ target[2] \in Types)
    BY <2>1 DEF TypeOK, JsType
  <2>3. loop' \in LoopType \cup {NoLoop} /\ LoopSound(loop')
    <3>1. CASE target = <<>>
      BY <1>3, <3>1 DEF DispatchFromExtension, TypeOK
    <3>2. CASE target # <<>>
      <4>1. StartLoop(target[1], target[2])
        BY <1>3, <3>2 DEF DispatchFromExtension
      <4> QED BY <2>2, <3>2, <4>1, StartLoopType
    <3> QED BY <3>1, <3>2
  <2> QED BY <1>3, <2>1, <2>3 DEF DispatchFromExtension, TypeOK
<1>4. CASE NextListener
  <2>1. loop \in LoopType
    BY <1>4 DEF NextListener, TypeOK, NoLoop
  <2>2. loop' \in LoopType /\ LoopSound(loop')
    <3>1. loop' = [loop EXCEPT !.next = loop.next + 1]
      BY <1>4 DEF NextListener
    <3>2. loop.next \geq 2 /\ (~loop.live => Len(loop.array) \leq 1) /\ loop.next \in Nat
      BY <2>1 DEF LoopType, LoopSound
    <3>3. loop.on /\ loop' = [on |-> TRUE, e |-> loop.e, t |-> loop.t,
                            next |-> loop.next + 1, count |-> loop.count,
                            array |-> loop.array, live |-> loop.live,
                            removed |-> loop.removed]
      BY <2>1, <3>1 DEF LoopType
    <3>4. loop' \in LoopType
      BY <2>1, <3>2, <3>3 DEF LoopType
    <3>5. LoopSound(loop')
      BY <3>2, <3>3 DEF LoopSound
    <3> QED BY <3>4, <3>5
  <2>3. loop.live
    BY <1>4, <2>1 DEF NextListener, LoopType, LoopSound, Iterated
  <2>4. Iterated(loop) = js.listeners[loop.e][loop.t]
    BY <2>3 DEF Iterated
  <2>5. js.listeners[loop.e][loop.t] \in Seq(Functions)
    BY <2>1 DEF TypeOK, JsType, LoopType
  <2>6. Iterated(loop)[loop.next] \in Members(js.listeners[loop.e][loop.t])
    <3>1. loop.next \in 1 .. Len(Iterated(loop))
      BY <1>4, <2>1, <2>4, <2>5 DEF NextListener, LoopType, LoopSound
    <3> QED BY <3>1, <2>4 DEF Members
  <2>7. stale' = FALSE
    BY <1>4, <2>6 DEF NextListener, TypeOK
  <2> QED BY <1>4, <2>2, <2>7 DEF NextListener, TypeOK
<1>5. CASE EndLoop \/ ListenerThrows
  BY <1>5 DEF EndLoop, ListenerThrows, TypeOK, LoopSound, NoLoop
<1>6. CASE Collect
  <2>1. [op |-> "collected", type |-> Nothing, id |-> NoId] \in Messages
    BY DEF Messages
  <2>2. to_native' \in Seq(Messages)
    <3>1. to_native \in Seq(Messages)
      BY DEF TypeOK
    <3>2. to_native' = Append(to_native, [op |-> "collected", type |-> Nothing, id |-> NoId])
      BY <1>6 DEF Collect
    <3> HIDE DEF DispatchInv
    <3> QED BY <2>1, <3>1, <3>2
  <2> QED BY <1>6, <2>2 DEF Collect, TypeOK
<1>7. CASE Handle
  <2>1. PICK op : Handling(op) /\ Message.op = op /\ to_native # <<>>
    BY <1>7 DEF Handle, Handling, OnAddEventListener, OnRemoveEventListener, OnJSObjectCollected
  <2>2. Message \in Messages /\ Tail(to_native) \in Seq(Messages)
    BY <2>1 DEF Message, TypeOK
  <2>3. /\ exists' \in BOOLEAN
        /\ events_' \in [Types -> Ids \cup {NoId}]
        /\ source' \subseteq Types
    <3>1. CASE OnAddEventListener
      <4>1. Message.op = "add" /\ Message.type \in Types /\ Message.id \in Ids
        BY <2>2, <3>1 DEF Messages, OnAddEventListener, Handling
      <4> QED BY <3>1, <4>1 DEF OnAddEventListener, TypeOK
    <3>2. CASE OnRemoveEventListener
      <4>1. Message.type \in Types
        BY <2>2, <3>2 DEF Messages, OnRemoveEventListener, Handling
      <4> QED BY <3>2, <4>1 DEF OnRemoveEventListener, TypeOK
    <3>3. CASE OnJSObjectCollected
      BY <3>3 DEF OnJSObjectCollected, Delete, TypeOK
    <3> QED BY <1>7, <3>1, <3>2, <3>3 DEF Handle
  <2> QED BY <2>1, <2>2, <2>3 DEF Handling, TypeOK
<1>8. ASSUME NEW t \in Types, DispatchEvent(t) PROVE DispatchInv'
  <2>1. events_[t] \in Ids \cup {NoId}
    BY DEF TypeOK
  <2>2. to_js' \in Seq(Ids)
    BY <1>8, <2>1 DEF DispatchEvent, TypeOK
  <2> QED BY <1>8, <2>2 DEF DispatchEvent, TypeOK
<1>9. CASE UNCHANGED vars
  BY <1>9 DEF vars, TypeOK
<1>10. CASE OnInstanceDestroyed
  <2>1. js' \in JsType /\ js'.sent = <<>> /\ loop' = NoLoop
        /\ \A e \in Endpoints, t \in Types : Len(js'.listeners[e][t]) = 0
    BY <1>10, NoTablesType DEF OnInstanceDestroyed
  <2>2. /\ {open', alive', exists', stale'} \subseteq BOOLEAN /\ ~stale'
        /\ events_' \in [Types -> Ids \cup {NoId}]
        /\ source' \subseteq Types /\ events' \in Nat
    BY <1>10 DEF OnInstanceDestroyed, Delete, TypeOK
  <2>3. to_native' \in Seq(Messages) /\ to_js' \in Seq(Ids)
    BY <1>10 DEF OnInstanceDestroyed
  <2>4. LoopSound(loop)'
    BY <2>1 DEF LoopSound, NoLoop
  <2>5. \A e \in Endpoints, t \in Types : \A i, j \in 1 .. Len(js'.listeners[e][t]) :
            js'.listeners[e][t][i] = js'.listeners[e][t][j] => i = j
    BY <2>1
  <2> QED BY <2>1, <2>2, <2>3, <2>4, <2>5 DEF TypeOK
<1> QED BY <1>1, <1>2, <1>3, <1>4, <1>5, <1>6, <1>7, <1>8, <1>9, <1>10 DEF Next

LEMMA DispatchSound == Spec => []DispatchInv
BY InitDispatch, NextDispatch, PTL DEF Spec

\* The tables, the messages under way and the native map have their types,
\* and no listener is twice in an array (addEventListener, removeEventListener).
THEOREM TypeCorrect == Spec => []TypeOK
<1>1. DispatchInv => TypeOK
  BY DEF DispatchInv
<1> QED BY <1>1, DispatchSound, PTL

\* A dispatch in progress never calls a listener that was removed, although it
\* iterates over the array that addEventListener and removeEventListener change.
THEOREM RemovedIsNotCalledHolds == Spec => []RemovedIsNotCalled
<1>1. DispatchInv => RemovedIsNotCalled
  BY DEF DispatchInv, RemovedIsNotCalled
<1> QED BY <1>1, DispatchSound, PTL
-----------------------------------------------------------------------------
(* The callback table.  Exact says of any tables what CallbacksExact says   *)
(* of those of the script, and that an identifier is used after it was      *)
(* handed out: otherwise a new callback could displace one.                 *)

Exact(s) ==
    /\ \A i \in Ids : s.callbacks[i] # <<>> =>
          /\ s.listener_id[s.callbacks[i][1]][s.callbacks[i][2]] = i
          /\ i < s.next_id
    /\ \A e \in Endpoints, t \in Types :
          IF s.listeners[e][t] = <<>> THEN s.listener_id[e][t] = NoId
          ELSE /\ s.listener_id[e][t] # NoId
               /\ s.callbacks[s.listener_id[e][t]] = <<e, t>>

LEMMA ExactIsEnough == ASSUME js \in JsType, Exact(js) PROVE CallbacksExact
BY DEF Exact, CallbacksExact

LEMMA NewArrayExact ==
    ASSUME NEW s \in JsType, Exact(s), NEW e \in Endpoints, NEW t \in Types,
           NEW array, array # <<>>, s.listeners[e][t] # <<>>
    PROVE  Exact([s EXCEPT !.listeners[e][t] = array])
<1> DEFINE r == [s EXCEPT !.listeners[e][t] = array]
<1>1. r.callbacks = s.callbacks /\ r.listener_id = s.listener_id /\ r.next_id = s.next_id
  BY DEF JsType
<1>2. \A e2 \in Endpoints, t2 \in Types :
          r.listeners[e2][t2] = IF e2 = e /\ t2 = t THEN array ELSE s.listeners[e2][t2]
  BY DEF JsType
<1> HIDE DEF r
<1>3. Exact(r)
  BY <1>1, <1>2 DEF Exact
<1> QED BY <1>3 DEF r

LEMMA AddExact ==
    ASSUME NEW s \in JsType, NoDuplicates(s), Exact(s), s.next_id < MaxAdds,
           NEW e \in Endpoints, NEW t \in Types, NEW f \in Functions \cup {Nothing}
    PROVE  Exact(AddListener(s, e, t, f))
<1> DEFINE r == AddListener(s, e, t, f)
<1>1. CASE f # Nothing /\ s.listeners[e][t] = <<>>
  <2>0. f \in Functions /\ s.listeners[e][t] = <<>>
    BY <1>1
  <2>1. AddsArray(s, e, t, f, r)
    BY <2>0, FirstListener
  <2> HIDE DEF r
  <2> DEFINE n == s.next_id
  <2>2. n \in Ids /\ n # NoId
    BY DEF JsType, Ids, NoId
  <2>3. \A e2 \in Endpoints, t2 \in Types :
            /\ r.listeners[e2][t2] = IF e2 = e /\ t2 = t THEN <<f>> ELSE s.listeners[e2][t2]
            /\ r.listener_id[e2][t2] = IF e2 = e /\ t2 = t THEN n ELSE s.listener_id[e2][t2]
    BY <2>1 DEF AddsArray, JsType
  <2>4. \A i \in Ids : r.callbacks[i] = IF i = n THEN <<e, t>> ELSE s.callbacks[i]
    BY <2>1 DEF AddsArray, JsType
  <2>5. r.next_id = n + 1 /\ n \in Int
    BY <2>1 DEF AddsArray, JsType
  <2>6. \A i \in Ids : s.callbacks[i] # <<>> => i # n
    BY <2>2 DEF Exact, Ids
  <2> HIDE DEF n
  <2>7. ASSUME NEW i \in Ids, r.callbacks[i] # <<>>
        PROVE  r.listener_id[r.callbacks[i][1]][r.callbacks[i][2]] = i /\ i < r.next_id
    <3>1. CASE i = n
      <4>1. r.callbacks[i] = <<e, t>>
        BY <2>4, <3>1
      <4>2. r.callbacks[i][1] = e /\ r.callbacks[i][2] = t
        BY <4>1
      <4> QED BY <2>3, <2>5, <3>1, <4>2
    <3>2. CASE i # n
      <4>1. r.callbacks[i] = s.callbacks[i] /\ s.callbacks[i] # <<>>
        BY <2>4, <2>7, <3>2
      <4>2. s.callbacks[i] \in Endpoints \X Types
        BY <4>1 DEF JsType
      <4>3. PICK e2 \in Endpoints, t2 \in Types :
                s.callbacks[i][1] = e2 /\ s.callbacks[i][2] = t2
        BY <4>2
      <4>4. s.listener_id[e2][t2] = i /\ i < n
        BY <4>1, <4>3 DEF Exact, n
      <4>5. s.listener_id[e][t] = NoId /\ NoId \notin Ids
        BY <2>0 DEF Exact, NoId, Ids
      <4>6. ~(e2 = e /\ t2 = t)
        BY <4>4, <4>5
      <4>7. r.listener_id[e2][t2] = i
        BY <2>3, <4>4, <4>6
      <4>8. i < r.next_id
        BY <2>5, <4>4 DEF Ids
      <4> QED BY <4>1, <4>3, <4>7, <4>8
    <3> QED BY <3>1, <3>2
  <2>8. ASSUME NEW e2 \in Endpoints, NEW t2 \in Types
        PROVE  IF r.listeners[e2][t2] = <<>> THEN r.listener_id[e2][t2] = NoId
               ELSE /\ r.listener_id[e2][t2] # NoId
                    /\ r.callbacks[r.listener_id[e2][t2]] = <<e2, t2>>
    <3>1. CASE e2 = e /\ t2 = t
      <4>1. r.listeners[e2][t2] # <<>> /\ r.listener_id[e2][t2] = n
        BY <2>3, <3>1
      <4> QED BY <2>2, <2>4, <3>1, <4>1
    <3>2. CASE ~(e2 = e /\ t2 = t)
      <4>1. r.listeners[e2][t2] = s.listeners[e2][t2] /\ r.listener_id[e2][t2] = s.listener_id[e2][t2]
        BY <2>3, <3>2
      <4>2. CASE s.listeners[e2][t2] = <<>>
        BY <4>1, <4>2 DEF Exact
      <4>3. CASE s.listeners[e2][t2] # <<>>
        <5>1. /\ s.listener_id[e2][t2] # NoId
              /\ s.callbacks[s.listener_id[e2][t2]] = <<e2, t2>>
          BY <4>3 DEF Exact
        <5>2. s.listener_id[e2][t2] \in Ids
          BY <5>1 DEF JsType
        <5>3. s.callbacks[s.listener_id[e2][t2]] # <<>>
          BY <5>1
        <5> QED BY <2>4, <2>6, <4>1, <4>3, <5>1, <5>2, <5>3
      <4> QED BY <4>2, <4>3
    <3> QED BY <3>1, <3>2
  <2>9. Exact(r)
    BY <2>7, <2>8 DEF Exact
  <2> QED BY <2>9 DEF r
<1>2. CASE ~(f # Nothing /\ s.listeners[e][t] = <<>>)
  <2>1. AddsElement(s, e, t, f, r)
    BY <1>2, OtherListener
  <2>2. r = s \/ (f # Nothing /\ s.listeners[e][t] # <<>>
                  /\ r = [s EXCEPT !.listeners[e][t] = PushNew(s.listeners[e][t], f)])
    BY <2>1 DEF AddsElement
  <2>3. ASSUME f # Nothing, s.listeners[e][t] # <<>>
        PROVE  Exact([s EXCEPT !.listeners[e][t] = PushNew(s.listeners[e][t], f)])
    <3>1. s.listeners[e][t] \in Seq(Functions) /\ Distinct(s.listeners[e][t])
      BY DEF JsType, NoDuplicates
    <3>2. PushNew(s.listeners[e][t], f) # <<>>
      BY <2>3, <3>1, PushNewType
    <3> QED BY <2>3, <3>2, NewArrayExact
  <2> QED BY <2>2, <2>3
<1> QED BY <1>1, <1>2

LEMMA RemoveExact ==
    ASSUME NEW s \in JsType, NoDuplicates(s), Exact(s),
           NEW e \in Endpoints, NEW t \in Types, NEW f \in Functions \cup {Nothing}
    PROVE  Exact(RemoveListener(s, e, t, f))
<1> DEFINE r == RemoveListener(s, e, t, f)
<1>0. s.listeners[e][t] \in Seq(Functions) /\ Distinct(s.listeners[e][t])
  BY DEF JsType, NoDuplicates
<1>1. CASE f # Nothing /\ f \in Members(s.listeners[e][t]) /\ Len(s.listeners[e][t]) = 1
  <2>1. RemovesArray(s, e, t, f, r)
    BY <1>1, LastRemoved
  <2> HIDE DEF r
  <2> DEFINE n == s.listener_id[e][t]
  <2>2. s.listeners[e][t] # <<>>
    BY <1>0, <1>1, MembersType
  <2>3. n \in Ids /\ s.callbacks[n] = <<e, t>>
    BY <2>2 DEF JsType, Exact
  <2>4. \A e2 \in Endpoints, t2 \in Types :
            /\ r.listeners[e2][t2] = IF e2 = e /\ t2 = t THEN <<>> ELSE s.listeners[e2][t2]
            /\ r.listener_id[e2][t2] = IF e2 = e /\ t2 = t THEN NoId ELSE s.listener_id[e2][t2]
    BY <2>1 DEF RemovesArray, JsType
  <2>5. \A i \in Ids : r.callbacks[i] = IF i = n THEN <<>> ELSE s.callbacks[i]
    BY <2>1, <2>3 DEF RemovesArray, JsType
  <2>6. r.next_id = s.next_id
    BY <2>1 DEF RemovesArray
  <2>7. ASSUME NEW i \in Ids, r.callbacks[i] # <<>>
        PROVE  r.listener_id[r.callbacks[i][1]][r.callbacks[i][2]] = i /\ i < r.next_id
    <3>1. i # n /\ r.callbacks[i] = s.callbacks[i] /\ s.callbacks[i] # <<>>
      BY <2>5, <2>7
    <3>2. s.callbacks[i] \in Endpoints \X Types
      BY <3>1 DEF JsType
    <3>3. PICK e2 \in Endpoints, t2 \in Types :
              s.callbacks[i][1] = e2 /\ s.callbacks[i][2] = t2
      BY <3>2
    <3>4. s.listener_id[e2][t2] = i /\ i < s.next_id
      BY <3>1, <3>3 DEF Exact
    <3>5. ~(e2 = e /\ t2 = t)
      BY <3>1, <3>4
    <3> QED BY <2>4, <2>6, <3>1, <3>3, <3>4, <3>5
  <2>8. ASSUME NEW e2 \in Endpoints, NEW t2 \in Types
        PROVE  IF r.listeners[e2][t2] = <<>> THEN r.listener_id[e2][t2] = NoId
               ELSE /\ r.listener_id[e2][t2] # NoId
                    /\ r.callbacks[r.listener_id[e2][t2]] = <<e2, t2>>
    <3>1. CASE e2 = e /\ t2 = t
      BY <2>4, <3>1
    <3>2. CASE ~(e2 = e /\ t2 = t)
      <4>1. r.listeners[e2][t2] = s.listeners[e2][t2] /\ r.listener_id[e2][t2] = s.listener_id[e2][t2]
        BY <2>4, <3>2
      <4>2. CASE s.listeners[e2][t2] = <<>>
        BY <4>1, <4>2 DEF Exact
      <4>3. CASE s.listeners[e2][t2] # <<>>
        <5>1. /\ s.listener_id[e2][t2] # NoId
              /\ s.callbacks[s.listener_id[e2][t2]] = <<e2, t2>>
          BY <4>3 DEF Exact
        <5>2. s.listener_id[e2][t2] \in Ids
          BY <5>1 DEF JsType
        <5>3. <<e2, t2>> # <<e, t>>
          BY <3>2
        <5>4. s.listener_id[e2][t2] # n
          BY <2>3, <5>1, <5>3
        <5> QED BY <2>5, <4>1, <4>3, <5>1, <5>2, <5>4
      <4> QED BY <4>2, <4>3
    <3> QED BY <3>1, <3>2
  <2>9. Exact(r)
    BY <2>7, <2>8 DEF Exact
  <2> QED BY <2>9 DEF r
<1>2. CASE ~(f # Nothing /\ f \in Members(s.listeners[e][t]) /\ Len(s.listeners[e][t]) = 1)
  <2>1. RemovesElement(s, e, t, f, r)
    BY <1>2, OtherRemoved
  <2>2. r = s \/ (f \in Members(s.listeners[e][t]) /\ Len(s.listeners[e][t]) # 1
                  /\ r = [s EXCEPT !.listeners[e][t] = Spliced(s.listeners[e][t], f)])
    BY <2>1 DEF RemovesElement
  <2>3. ASSUME f \in Members(s.listeners[e][t]), Len(s.listeners[e][t]) # 1
        PROVE  Exact([s EXCEPT !.listeners[e][t] = Spliced(s.listeners[e][t], f)])
    <3>1. s.listeners[e][t] # <<>>
      BY <1>0, <2>3, MembersType
    <3>2. Spliced(s.listeners[e][t], f) # <<>>
      <4> DEFINE array == s.listeners[e][t]
                 less == Spliced(array, f)
      <4>1. less \in Seq(Functions) /\ Len(less) = Len(array) - 1
        BY <1>0, <2>3, SplicedType
      <4>2. array \in Seq(Functions) /\ array # <<>> /\ Len(array) # 1
        BY <1>0, <2>3, <3>1
      <4> HIDE DEF array, less
      <4>3. less # <<>>
        BY <4>1, <4>2
      <4> QED BY <4>3 DEF array, less
    <3> QED BY <3>1, <3>2, NewArrayExact
  <2> QED BY <2>2, <2>3
<1> QED BY <1>1, <1>2

LEMMA SetExact ==
    ASSUME NEW s \in JsType, NoDuplicates(s), Exact(s), s.next_id < MaxAdds,
           NEW e \in Endpoints, NEW t \in Types, NEW f \in Functions \cup {Nothing}
    PROVE  Exact(SetHandler(s, e, t, f))
<1> DEFINE r == RemoveListener(s, e, t, s.handler[e][t])
           h == [r EXCEPT !.handler[e][t] = f]
<1>1. s.handler[e][t] \in Functions \cup {Nothing}
  BY DEF JsType
<1>2. r \in JsType /\ NoDuplicates(r) /\ r.next_id = s.next_id /\ Exact(r)
  BY <1>1, RemoveType, RemoveExact
<1>3. h \in JsType /\ NoDuplicates(h) /\ h.next_id = s.next_id /\ Exact(h)
  <2> HIDE DEF r
  <2>1. h \in JsType /\ h.next_id = s.next_id /\ h.listeners = r.listeners
        /\ h.listener_id = r.listener_id /\ h.callbacks = r.callbacks
    BY <1>2 DEF JsType
  <2> HIDE DEF h
  <2> QED BY <1>2, <2>1 DEF NoDuplicates, Exact
<1>4. Exact(AddListener(h, e, t, f))
  <2> HIDE DEF h
  <2> QED BY <1>3, AddExact
<1> QED BY <1>4 DEF SetHandler

LEMMA OperateExact ==
    ASSUME NEW e, NEW t, NEW between, NEW after \in JsType, Exact(after),
           Operate(e, t, between, after)
    PROVE  Exact(js')
<1>1. js' = [after EXCEPT !.sent = <<>>]
  BY DEF Operate
<1> QED BY <1>1 DEF JsType, Exact

LEMMA NoTablesExact == Exact(NoTables)
BY DEF NoTables, Exact

LEMMA NextExact == DispatchInv /\ Exact(js) /\ [Next]_vars => Exact(js')
<1> SUFFICES ASSUME DispatchInv, Exact(js), [Next]_vars PROVE Exact(js')
  OBVIOUS
<1>0. js \in JsType /\ NoDuplicates(js)
  BY TypeDuplicates DEF DispatchInv
<1>1. ASSUME NEW e \in Endpoints, NEW t \in Types, NEW f \in Functions, Add(e, t, f)
      PROVE  Exact(js')
  BY <1>0, <1>1, AddType, AddExact, OperateExact DEF Add
<1>2. ASSUME NEW e \in Endpoints, NEW t \in Types, NEW f \in Functions, Remove(e, t, f)
      PROVE  Exact(js')
  BY <1>0, <1>2, RemoveType, RemoveExact, OperateExact DEF Remove
<1>3. ASSUME NEW e \in Endpoints, NEW t \in Types, NEW f \in Functions \cup {Nothing},
             Set(e, t, f)
      PROVE  Exact(js')
  BY <1>0, <1>3, SetType, SetExact, OperateExact DEF Set
<1>4. CASE UNCHANGED js
  BY <1>4
<1>5. CASE OnInstanceDestroyed
  BY <1>5, NoTablesExact DEF OnInstanceDestroyed
<1> QED BY <1>1, <1>2, <1>3, <1>4, <1>5
    DEF Next, OperateAny, DispatchFromScript, DispatchFromExtension, NextListener, EndLoop,
        ListenerThrows, Collect, Handle, Handling, OnAddEventListener, OnRemoveEventListener,
        OnJSObjectCollected, DispatchEvent, vars

LEMMA AlwaysExact == Spec => [](DispatchInv /\ Exact(js))
<1>1. Init => Exact(js)
  BY NoTablesExact DEF Init
<1>2. DispatchInv /\ Exact(js) /\ [Next]_vars => Exact(js)'
  BY NextExact DEF Exact
<1> QED BY <1>1, <1>2, InitDispatch, NextDispatch, PTL DEF Spec

\* The callbacks in the table are those of the subscriptions the script has,
\* whatever it adds, removes and sets (makeCallbackListener, removeCallback).
THEOREM CallbacksExactHolds == Spec => []CallbacksExact
<1>1. DispatchInv /\ Exact(js) => CallbacksExact
  BY ExactIsEnough, TypeDuplicates DEF DispatchInv
<1> QED BY <1>1, AlwaysExact, PTL
-----------------------------------------------------------------------------
(* The messages under way about one event.  Chain relates the queue q to    *)
(* where the native map is (on) and to where the script is (want): the      *)
(* messages of the event alternate, the first one changes the map, and the  *)
(* last one leaves it as the script wants it.                               *)

Silent(q, t) == \A i \in 1 .. Len(q) : q[i].type # t
IsFirst(q, t, i) == q[i].type = t /\ \A k \in 1 .. i - 1 : q[k].type # t
IsLast(q, t, i) == q[i].type = t /\ \A k \in 1 .. Len(q) : q[k].type = t => k \leq i
Consecutive(q, t, i, j) ==
    i < j /\ q[i].type = t /\ q[j].type = t /\ \A k \in i + 1 .. j - 1 : q[k].type # t

Chain(q, t, on, want) ==
    /\ Silent(q, t) => (on <=> want)
    /\ ~Silent(q, t) => \E i \in 1 .. Len(q) : IsLast(q, t, i) /\ (q[i].op = "add" <=> want)
    /\ \A i \in 1 .. Len(q) : IsFirst(q, t, i) => (q[i].op = "add" <=> ~on)
    /\ \A i, j \in 1 .. Len(q) :
           Consecutive(q, t, i, j) => (q[i].op = "add" <=> q[j].op # "add")

LEMMA ChainAppend ==
    ASSUME NEW q \in Seq(Messages), NEW m \in Messages, NEW t,
           NEW on \in BOOLEAN, NEW want \in BOOLEAN, NEW now \in BOOLEAN,
           Chain(q, t, on, want), now <=> ~want,
           m.type = t, m.op = "add" <=> now
    PROVE  Chain(Append(q, m), t, on, now)
<1> DEFINE r == Append(q, m)
           n == Len(q) + 1
<1>1. Len(q) \in Nat /\ Len(r) = n /\ n \in 1 .. Len(r) /\ r[n] = m
      /\ \A i \in 1 .. Len(q) : r[i] = q[i] /\ i \in 1 .. Len(r)
  OBVIOUS
<1>2. \A i \in 1 .. Len(r) : i # n => i \in 1 .. Len(q)
  BY <1>1
<1> HIDE DEF r
<1>3. ~Silent(r, t)
  BY <1>1 DEF Silent
<1>4. IsLast(r, t, n) /\ (r[n].op = "add" <=> now)
  BY <1>1 DEF IsLast
<1>5. ASSUME NEW i \in 1 .. Len(r), IsFirst(r, t, i)
      PROVE  r[i].op = "add" <=> ~on
  <2>1. CASE i = n
    <3>1. Silent(q, t)
      BY <1>1, <1>5, <2>1 DEF IsFirst, Silent
    <3> QED BY <1>1, <2>1, <3>1 DEF Chain
  <2>2. CASE i # n
    <3>1. i \in 1 .. Len(q) /\ \A k \in 1 .. i - 1 : k \in 1 .. Len(q)
      BY <1>1, <1>2, <2>2
    <3>2. IsFirst(q, t, i)
      BY <1>1, <1>5, <3>1 DEF IsFirst
    <3> QED BY <1>1, <3>1, <3>2 DEF Chain
  <2> QED BY <2>1, <2>2
<1>6. ASSUME NEW i \in 1 .. Len(r), NEW j \in 1 .. Len(r), Consecutive(r, t, i, j)
      PROVE  r[i].op = "add" <=> r[j].op # "add"
  <2>0. i \in 1 .. Len(q) /\ i < j
    BY <1>1, <1>6 DEF Consecutive
  <2>1. CASE j = n
    <3>1. ~Silent(q, t)
      BY <1>1, <1>6, <2>0 DEF Consecutive, Silent
    <3>2. PICK l \in 1 .. Len(q) : IsLast(q, t, l) /\ (q[l].op = "add" <=> want)
      BY <3>1 DEF Chain
    <3>3. i \leq l
      BY <1>1, <1>6, <2>0, <3>2 DEF Consecutive, IsLast
    <3>4. ~(i < l)
      BY <1>1, <1>6, <2>0, <2>1, <3>2 DEF Consecutive, IsLast
    <3>5. i = l
      BY <3>3, <3>4, <2>0
    <3> QED BY <1>1, <2>0, <2>1, <3>2, <3>5
  <2>2. CASE j # n
    <3>1. j \in 1 .. Len(q) /\ \A k \in i + 1 .. j - 1 : k \in 1 .. Len(q)
      BY <1>1, <1>2, <2>0, <2>2
    <3>2. Consecutive(q, t, i, j)
      BY <1>1, <1>6, <2>0, <3>1 DEF Consecutive
    <3> QED BY <1>1, <2>0, <3>1, <3>2 DEF Chain
  <2> QED BY <2>1, <2>2
<1>7. Chain(r, t, on, now)
  BY <1>1, <1>3, <1>4, <1>5, <1>6 DEF Chain
<1> QED BY <1>7 DEF r

LEMMA ChainAppendOther ==
    ASSUME NEW q \in Seq(Messages), NEW m \in Messages, NEW t,
           NEW on \in BOOLEAN, NEW want \in BOOLEAN, Chain(q, t, on, want),
           m.type # t
    PROVE  Chain(Append(q, m), t, on, want)
<1> DEFINE r == Append(q, m)
           n == Len(q) + 1
<1>1. Len(q) \in Nat /\ Len(r) = n /\ n \in 1 .. Len(r) /\ r[n] = m
      /\ \A i \in 1 .. Len(q) : r[i] = q[i] /\ i \in 1 .. Len(r)
  OBVIOUS
<1>2. \A i \in 1 .. Len(r) : i # n => i \in 1 .. Len(q)
  BY <1>1
<1>3. \A i \in 1 .. Len(r) : r[i].type = t => i \in 1 .. Len(q)
  BY <1>1, <1>2
<1> HIDE DEF r
<1>4. Silent(r, t) <=> Silent(q, t)
  BY <1>1, <1>3 DEF Silent
<1>5. ASSUME NEW i \in 1 .. Len(q), IsLast(q, t, i)
      PROVE  IsLast(r, t, i)
  BY <1>1, <1>3, <1>5 DEF IsLast
<1>6. ASSUME NEW i \in 1 .. Len(r), IsFirst(r, t, i)
      PROVE  r[i].op = "add" <=> ~on
  <2>1. i \in 1 .. Len(q) /\ \A k \in 1 .. i - 1 : k \in 1 .. Len(q)
    BY <1>1, <1>3, <1>6 DEF IsFirst
  <2>2. IsFirst(q, t, i)
    BY <1>1, <1>6, <2>1 DEF IsFirst
  <2> QED BY <1>1, <2>1, <2>2 DEF Chain
<1>7. ASSUME NEW i \in 1 .. Len(r), NEW j \in 1 .. Len(r), Consecutive(r, t, i, j)
      PROVE  r[i].op = "add" <=> r[j].op # "add"
  <2>1. i \in 1 .. Len(q) /\ j \in 1 .. Len(q) /\ \A k \in i + 1 .. j - 1 : k \in 1 .. Len(q)
    BY <1>1, <1>3, <1>7 DEF Consecutive
  <2>2. Consecutive(q, t, i, j)
    BY <1>1, <1>7, <2>1 DEF Consecutive
  <2> QED BY <1>1, <2>1, <2>2 DEF Chain
<1>8. Chain(r, t, on, want)
  BY <1>1, <1>4, <1>5, <1>6, <1>7 DEF Chain
<1> QED BY <1>8 DEF r

LEMMA ChainTail ==
    ASSUME NEW q \in Seq(Messages), q # <<>>, NEW t,
           NEW on \in BOOLEAN, NEW want \in BOOLEAN, Chain(q, t, on, want)
    PROVE  IF Head(q).type = t
           THEN (Head(q).op = "add" <=> ~on) /\ Chain(Tail(q), t, ~on, want)
           ELSE Chain(Tail(q), t, on, want)
<1> DEFINE r == Tail(q)
<1>1. Len(q) \in Nat /\ Len(r) = Len(q) - 1 /\ Head(q) = q[1] /\ 1 \in 1 .. Len(q)
      /\ \A i \in 1 .. Len(r) : r[i] = q[i + 1] /\ i + 1 \in 1 .. Len(q)
  OBVIOUS
<1>2. \A i \in 1 .. Len(q) : i # 1 => i - 1 \in 1 .. Len(r) /\ r[i - 1] = q[i]
  BY <1>1
<1> HIDE DEF r
<1>3. ASSUME NEW i \in 1 .. Len(r), NEW j \in 1 .. Len(r), Consecutive(r, t, i, j)
      PROVE  r[i].op = "add" <=> r[j].op # "add"
  <2>1. \A k \in (i + 1) + 1 .. (j + 1) - 1 : k - 1 \in i + 1 .. j - 1 /\ k \in 1 .. Len(q) /\ k # 1
    BY <1>1
  <2>2. Consecutive(q, t, i + 1, j + 1)
    BY <1>1, <1>2, <1>3, <2>1 DEF Consecutive
  <2> QED BY <1>1, <2>2 DEF Chain
<1>4. ASSUME NEW l \in 1 .. Len(q), l # 1, IsLast(q, t, l)
      PROVE  IsLast(r, t, l - 1) /\ l - 1 \in 1 .. Len(r) /\ r[l - 1].op = q[l].op
  BY <1>1, <1>2, <1>4 DEF IsLast
<1>5. CASE q[1].type = t
  <2>1. IsFirst(q, t, 1)
    BY <1>5 DEF IsFirst
  <2>2. q[1].op = "add" <=> ~on
    BY <1>1, <2>1 DEF Chain
  <2>3. ~Silent(q, t)
    BY <1>1, <1>5 DEF Silent
  <2>4. PICK l \in 1 .. Len(q) : IsLast(q, t, l) /\ (q[l].op = "add" <=> want)
    BY <2>3 DEF Chain
  <2>5. CASE l = 1
    <3>1. Silent(r, t)
      BY <1>1, <2>4, <2>5 DEF Silent, IsLast
    <3>2. ~on <=> want
      BY <2>2, <2>4, <2>5
    <3>3. \A i \in 1 .. Len(r) : ~IsFirst(r, t, i)
      BY <3>1 DEF Silent, IsFirst
    <3>4. Chain(r, t, ~on, want)
      BY <1>3, <3>1, <3>2, <3>3 DEF Chain
    <3> QED BY <1>1, <1>5, <2>2, <3>4 DEF r
  <2>6. CASE l # 1
    <3>1. IsLast(r, t, l - 1) /\ l - 1 \in 1 .. Len(r) /\ (r[l - 1].op = "add" <=> want)
      BY <1>4, <2>4, <2>6
    <3>2. ~Silent(r, t)
      BY <3>1 DEF Silent, IsLast
    <3>3. ASSUME NEW i \in 1 .. Len(r), IsFirst(r, t, i)
          PROVE  r[i].op = "add" <=> on
      <4>1. \A k \in 1 + 1 .. (i + 1) - 1 : k - 1 \in 1 .. i - 1 /\ k \in 1 .. Len(q) /\ k # 1
        BY <1>1
      <4>2. Consecutive(q, t, 1, i + 1)
        <5>1. ASSUME NEW k \in 1 + 1 .. (i + 1) - 1 PROVE q[k].type # t
          <6>1. k - 1 \in 1 .. i - 1 /\ r[k - 1] = q[k]
            BY <1>2, <4>1
          <6> QED BY <3>3, <6>1 DEF IsFirst
        <5>2. q[i + 1].type = t /\ 1 < i + 1
          BY <1>1, <3>3 DEF IsFirst
        <5> QED BY <1>5, <5>1, <5>2 DEF Consecutive
      <4>3. q[1].op = "add" <=> q[i + 1].op # "add"
        BY <1>1, <4>2 DEF Chain
      <4> QED BY <1>1, <2>2, <4>3
    <3>4. Chain(r, t, ~on, want)
      BY <1>3, <3>1, <3>2, <3>3 DEF Chain
    <3> QED BY <1>1, <1>5, <2>2, <3>4 DEF r
  <2> QED BY <2>5, <2>6
<1>6. CASE q[1].type # t
  <2>1. Silent(r, t) <=> Silent(q, t)
    BY <1>1, <1>2, <1>6 DEF Silent
  <2>2. ASSUME ~Silent(r, t)
        PROVE  \E i \in 1 .. Len(r) : IsLast(r, t, i) /\ (r[i].op = "add" <=> want)
    <3>1. PICK l \in 1 .. Len(q) : IsLast(q, t, l) /\ (q[l].op = "add" <=> want)
      BY <2>1, <2>2 DEF Chain
    <3>2. l # 1
      BY <1>6, <3>1 DEF IsLast
    <3> QED BY <1>4, <3>1, <3>2
  <2>3. ASSUME NEW i \in 1 .. Len(r), IsFirst(r, t, i)
        PROVE  r[i].op = "add" <=> ~on
    <3>1. \A k \in 1 .. (i + 1) - 1 : k = 1 \/ (k - 1 \in 1 .. i - 1 /\ k \in 1 .. Len(q) /\ k # 1)
      BY <1>1
    <3>2. IsFirst(q, t, i + 1)
      BY <1>1, <1>2, <1>6, <2>3, <3>1 DEF IsFirst
    <3> QED BY <1>1, <3>2 DEF Chain
  <2>4. Chain(r, t, on, want)
    BY <1>3, <2>1, <2>2, <2>3 DEF Chain
  <2> QED BY <1>1, <1>6, <2>4 DEF r
<1> QED BY <1>5, <1>6
-----------------------------------------------------------------------------
(* One script object has the identifier.  Toward says that the queue, with  *)
(* what the operation under way posted, takes the native map m to where the *)
(* tables are.                                                              *)

Toward(q, m, s) ==
    \A t \in Types : Chain(q \o s.sent, t, m[t] # NoId, s.listeners[Owner][t] # <<>>)

LEMMA ConcatAppend ==
    ASSUME NEW q \in Seq(Messages), NEW sent \in Seq(Messages), NEW m \in Messages
    PROVE  q \o Append(sent, m) = Append(q \o sent, m) /\ q \o sent \in Seq(Messages)
<1> DEFINE l == q \o Append(sent, m)
           r == Append(q \o sent, m)
<1>1. l \in Seq(Messages) /\ r \in Seq(Messages) /\ q \o sent \in Seq(Messages)
  OBVIOUS
<1>2. Len(l) = Len(r)
  OBVIOUS
<1>3. \A i \in 1 .. Len(l) : l[i] = r[i]
  OBVIOUS
<1> QED BY <1>1, <1>2, <1>3, SeqEqual

LEMMA NewMessage ==
    ASSUME NEW q \in Seq(Messages), NEW m, NEW s \in JsType, NEW r \in JsType,
           NEW t \in Types, NEW msg \in Messages,
           Toward(q, m, s), r.sent = Append(s.sent, msg), msg.type = t,
           msg.op = "add" <=> s.listeners[Owner][t] = <<>>,
           r.listeners[Owner][t] = <<>> <=> s.listeners[Owner][t] # <<>>,
           \A t2 \in Types : t2 # t => r.listeners[Owner][t2] = s.listeners[Owner][t2]
    PROVE  Toward(q, m, r)
<1>1. s.sent \in Seq(Messages)
  BY DEF JsType, Messages
<1>2. q \o r.sent = Append(q \o s.sent, msg) /\ q \o s.sent \in Seq(Messages)
  BY <1>1, ConcatAppend
<1>3. ASSUME NEW t2 \in Types
      PROVE  Chain(q \o r.sent, t2, m[t2] # NoId, r.listeners[Owner][t2] # <<>>)
  <2> DEFINE on == m[t2] # NoId
             want == s.listeners[Owner][t2] # <<>>
  <2>1. on \in BOOLEAN /\ want \in BOOLEAN
    OBVIOUS
  <2>2. Chain(q \o s.sent, t2, on, want)
    BY DEF Toward
  <2>3. CASE t2 = t
    <3> DEFINE now == r.listeners[Owner][t2] # <<>>
    <3>1. msg.type = t2 /\ now \in BOOLEAN /\ (now <=> ~want) /\ (msg.op = "add" <=> now)
      <4>1. msg.type = t2 /\ now \in BOOLEAN
        BY <2>3
      <4>2. now <=> s.listeners[Owner][t2] = <<>>
        BY <2>3
      <4>3. want <=> ~(s.listeners[Owner][t2] = <<>>)
        OBVIOUS
      <4>4. msg.op = "add" <=> s.listeners[Owner][t2] = <<>>
        BY <2>3
      <4> HIDE DEF now, want
      <4> QED BY <4>1, <4>2, <4>3, <4>4
    <3>2. Chain(Append(q \o s.sent, msg), t2, on, now)
      <4> DEFINE before == q \o s.sent
      <4>1. before \in Seq(Messages) /\ Chain(before, t2, on, want)
        BY <1>2, <2>2
      <4> HIDE DEF on, want, now, before
      <4>2. Chain(Append(before, msg), t2, on, now)
        BY <2>1, <3>1, <4>1, ChainAppend
      <4> QED BY <4>2 DEF before
    <3> QED BY <1>2, <3>2
  <2>4. CASE t2 # t
    <3>1. Chain(Append(q \o s.sent, msg), t2, on, want)
      <4>1. msg.type # t2
        BY <2>4
      <4> HIDE DEF on, want
      <4> QED BY <1>2, <2>1, <2>2, <4>1, ChainAppendOther
    <3>2. r.listeners[Owner][t2] = s.listeners[Owner][t2]
      BY <2>4
    <3> QED BY <1>2, <3>1, <3>2
  <2> QED BY <2>3, <2>4
<1> QED BY <1>3 DEF Toward

LEMMA SameMessages ==
    ASSUME NEW q, NEW m, NEW s, NEW r, Toward(q, m, s), r.sent = s.sent,
           \A t \in Types : r.listeners[Owner][t] = <<>> <=> s.listeners[Owner][t] = <<>>
    PROVE  Toward(q, m, r)
<1>1. ASSUME NEW t \in Types
      PROVE  Chain(q \o r.sent, t, m[t] # NoId, r.listeners[Owner][t] # <<>>)
  <2>1. (r.listeners[Owner][t] # <<>>) = (s.listeners[Owner][t] # <<>>)
    OBVIOUS
  <2>2. Chain(q \o s.sent, t, m[t] # NoId, s.listeners[Owner][t] # <<>>)
    BY DEF Toward
  <2> QED BY <2>1, <2>2
<1> QED BY <1>1 DEF Toward

LEMMA AddToward ==
    ASSUME NEW q \in Seq(Messages), NEW m, NEW s \in JsType, NoDuplicates(s),
           s.next_id < MaxAdds, Toward(q, m, s),
           NEW t \in Types, NEW f \in Functions \cup {Nothing}
    PROVE  Toward(q, m, AddListener(s, Owner, t, f))
<1> DEFINE r == AddListener(s, Owner, t, f)
<1>0. r \in JsType
  BY AddType
<1>1. CASE f # Nothing /\ s.listeners[Owner][t] = <<>>
  <2>1. AddsArray(s, Owner, t, f, r)
    <3>1. f \in Functions
      BY <1>1
    <3> QED BY <1>1, <3>1, FirstListener
  <2> HIDE DEF r
  <2> DEFINE msg == [op |-> "add", type |-> t, id |-> s.next_id]
  <2>2. msg \in Messages /\ msg.type = t /\ msg.op = "add"
    BY DEF JsType, Messages, Ids
  <2>3. r.sent = Append(s.sent, msg)
    BY <2>1 DEF AddsArray
  <2>4. \A t2 \in Types :
            r.listeners[Owner][t2] = IF t2 = t THEN <<f>> ELSE s.listeners[Owner][t2]
    BY <2>1 DEF AddsArray, JsType
  <2>5. r.listeners[Owner][t] # <<>>
    <3>1. <<f>> # <<>>
      OBVIOUS
    <3>2. r.listeners[Owner][t] = <<f>>
      BY <2>4
    <3> QED BY <3>1, <3>2
  <2> HIDE DEF msg
  <2>6. Toward(q, m, r)
    BY <1>0, <1>1, <2>2, <2>3, <2>4, <2>5, NewMessage
  <2> QED BY <2>6 DEF r
<1>2. CASE ~(f # Nothing /\ s.listeners[Owner][t] = <<>>)
  <2>1. AddsElement(s, Owner, t, f, r)
    BY <1>2, OtherListener
  <2>2. r.sent = s.sent
    BY <2>1 DEF AddsElement, JsType
  <2>3. s.listeners[Owner][t] # <<>> => r.listeners[Owner][t] # <<>>
    BY EmptiedArray
  <2>4. \A t2 \in Types : t2 # t => r.listeners[Owner][t2] = s.listeners[Owner][t2]
    BY <2>1 DEF AddsElement, JsType
  <2>5. s.listeners[Owner][t] = <<>> => r = s
    BY <2>1 DEF AddsElement
  <2> HIDE DEF r
  <2>6. Toward(q, m, r)
    BY <2>2, <2>3, <2>4, <2>5, SameMessages
  <2> QED BY <2>6 DEF r
<1> QED BY <1>1, <1>2

LEMMA RemoveToward ==
    ASSUME NEW q \in Seq(Messages), NEW m, NEW s \in JsType, NoDuplicates(s),
           Toward(q, m, s), NEW t \in Types, NEW f \in Functions \cup {Nothing}
    PROVE  Toward(q, m, RemoveListener(s, Owner, t, f))
<1> DEFINE r == RemoveListener(s, Owner, t, f)
<1>0. r \in JsType /\ s.listeners[Owner][t] \in Seq(Functions) /\ Distinct(s.listeners[Owner][t])
  <2>1. r \in JsType
    BY RemoveType
  <2>2. s.listeners[Owner][t] \in Seq(Functions) /\ Distinct(s.listeners[Owner][t])
    BY DEF JsType, NoDuplicates
  <2> QED BY <2>1, <2>2
<1>1. CASE f # Nothing /\ f \in Members(s.listeners[Owner][t]) /\ Len(s.listeners[Owner][t]) = 1
  <2>1. RemovesArray(s, Owner, t, f, r)
    BY <1>1, LastRemoved
  <2>2. s.listeners[Owner][t] # <<>>
    BY <1>0, <1>1, MembersType
  <2> HIDE DEF r
  <2> DEFINE msg == [op |-> "remove", type |-> t, id |-> NoId]
  <2>3. msg \in Messages /\ msg.type = t /\ msg.op # "add"
    BY DEF Messages
  <2>4. r.sent = Append(s.sent, msg)
    BY <2>1 DEF RemovesArray
  <2>5. \A t2 \in Types :
            r.listeners[Owner][t2] = IF t2 = t THEN <<>> ELSE s.listeners[Owner][t2]
    BY <2>1 DEF RemovesArray, JsType
  <2> HIDE DEF msg
  <2>6. Toward(q, m, r)
    BY <1>0, <2>2, <2>3, <2>4, <2>5, NewMessage
  <2> QED BY <2>6 DEF r
<1>2. CASE ~(f # Nothing /\ f \in Members(s.listeners[Owner][t]) /\ Len(s.listeners[Owner][t]) = 1)
  <2>1. RemovesElement(s, Owner, t, f, r)
    BY <1>2, OtherRemoved
  <2>2. r.sent = s.sent
    BY <2>1 DEF RemovesElement, JsType
  <2>3. \A t2 \in Types : t2 # t => r.listeners[Owner][t2] = s.listeners[Owner][t2]
    BY <2>1 DEF RemovesElement, JsType
  <2>4. r.listeners[Owner][t] = <<>> <=> s.listeners[Owner][t] = <<>>
    <3>1. CASE r = s
      BY <3>1
    <3>2. CASE r # s
      <4>1. f \in Members(s.listeners[Owner][t]) /\ Len(s.listeners[Owner][t]) # 1
        BY <2>1, <3>2 DEF RemovesElement
      <4>2. s.listeners[Owner][t] # <<>>
        BY <1>0, <4>1, MembersType
      <4>3. ~(Len(s.listeners[Owner][t]) \leq 1)
        <5> DEFINE array == s.listeners[Owner][t]
        <5>1. array \in Seq(Functions) /\ array # <<>> /\ Len(array) # 1
          BY <1>0, <4>1, <4>2
        <5> HIDE DEF array
        <5>2. ASSUME Len(array) \leq 1 PROVE FALSE
          <6>1. Len(array) = 0
            <7> DEFINE n == Len(array)
            <7>1. n \in Nat /\ n # 1 /\ n \leq 1
              BY <5>1, <5>2
            <7> HIDE DEF n
            <7>2. n = 0
              BY <7>1
            <7> QED BY <7>2 DEF n
          <6> QED BY <5>1, <6>1
        <5> QED BY <5>2 DEF array
      <4> QED BY <4>2, <4>3, EmptiedArray
    <3> QED BY <3>1, <3>2
  <2> HIDE DEF r
  <2>5. Toward(q, m, r)
    BY <2>2, <2>3, <2>4, SameMessages
  <2> QED BY <2>5 DEF r
<1> QED BY <1>1, <1>2

LEMMA SetToward ==
    ASSUME NEW q \in Seq(Messages), NEW m, NEW s \in JsType, NoDuplicates(s),
           s.next_id < MaxAdds, Toward(q, m, s),
           NEW t \in Types, NEW f \in Functions \cup {Nothing}
    PROVE  Toward(q, m, SetHandler(s, Owner, t, f))
<1> DEFINE r == RemoveListener(s, Owner, t, s.handler[Owner][t])
           h == [r EXCEPT !.handler[Owner][t] = f]
<1>1. s.handler[Owner][t] \in Functions \cup {Nothing}
  BY DEF JsType
<1>2. r \in JsType /\ NoDuplicates(r) /\ r.next_id = s.next_id /\ Toward(q, m, r)
  BY <1>1, RemoveType, RemoveToward
<1>3. h \in JsType /\ NoDuplicates(h) /\ h.next_id = s.next_id /\ Toward(q, m, h)
  <2> HIDE DEF r
  <2>1. h \in JsType /\ h.next_id = s.next_id /\ h.listeners = r.listeners /\ h.sent = r.sent
    BY <1>2 DEF JsType
  <2> HIDE DEF h
  <2> QED BY <1>2, <2>1, SameMessages DEF NoDuplicates
<1>4. Toward(q, m, AddListener(h, Owner, t, f))
  <2> HIDE DEF h
  <2> QED BY <1>3, AddToward
<1> QED BY <1>4 DEF SetHandler
-----------------------------------------------------------------------------
(* The life of the native object. *)

CollectedIsLast ==
    \A i \in 1 .. Len(to_native) :
        to_native[i].op = "collected" => ~alive /\ i = Len(to_native)

AgreeInv ==
    /\ Toward(to_native, events_, js)
    /\ CollectedIsLast
    /\ ~alive => \A t \in Types : js.listeners[Owner][t] = <<>>
    /\ ~exists => ~(open /\ alive) /\ to_native = <<>> /\ \A t \in Types : events_[t] = NoId
    /\ exists => open
    /\ open => source = {t \in Types : events_[t] # NoId}

IInv == DispatchInv /\ Exact(js) /\ AgreeInv

LEMMA OperateAgree ==
    ASSUME IInv, Endpoints = {Owner}, NEW t, NEW between, NEW after \in JsType,
           Toward(to_native, events_, after), Operate(Owner, t, between, after)
    PROVE  AgreeInv'
<1> USE DEF IInv, AgreeInv
<1>1. open /\ alive /\ exists /\ UNCHANGED <<open, alive, exists, events_, source>>
  BY DEF Operate, Usable, DispatchInv, TypeOK
<1>2. js' = [after EXCEPT !.sent = <<>>] /\ to_native' = to_native \o after.sent
  BY DEF Operate
<1>3. js'.sent = <<>> /\ js'.listeners = after.listeners
  BY <1>2 DEF JsType
<1>4. to_native \in Seq(Messages) /\ after.sent \in Seq(Messages)
      /\ \A i \in 1 .. Len(after.sent) : after.sent[i].op # "collected"
  <2>1. to_native \in Seq(Messages)
    BY DEF DispatchInv, TypeOK
  <2>2. after.sent \in Seq(Messages)
    BY DEF JsType, Messages
  <2>3. after.sent \in Seq([op : {"add"}, type : Types, id : Ids]
                              \cup [op : {"remove"}, type : Types, id : {NoId}])
    BY DEF JsType
  <2>4. \A i \in 1 .. Len(after.sent) : after.sent[i].op # "collected"
    BY <2>3
  <2> QED BY <2>1, <2>2, <2>4
<1>5. to_native' \o js'.sent = to_native \o after.sent
  <2>1. to_native' \in Seq(Messages)
    BY <1>2, <1>4
  <2> QED BY <1>2, <1>3, <2>1, ConcatEmptySeq
<1>6. Toward(to_native', events_', js')
  <2>1. \A t2 \in Types : Chain(to_native \o after.sent, t2, events_[t2] # NoId,
                                after.listeners[Owner][t2] # <<>>)
    BY DEF Toward
  <2> QED BY <1>1, <1>3, <1>5, <2>1 DEF Toward
<1>7. CollectedIsLast'
  <2>1. ASSUME NEW i \in 1 .. Len(to_native'), to_native'[i].op = "collected" PROVE FALSE
    <3>1. CASE i \in 1 .. Len(to_native)
      BY <1>1, <1>2, <1>4, <2>1, <3>1 DEF CollectedIsLast
    <3>2. CASE i \notin 1 .. Len(to_native)
      <4> DEFINE q == to_native
                 m == after.sent
      <4>1. q \in Seq(Messages) /\ m \in Seq(Messages) /\ i \in 1 .. Len(q \o m)
            /\ i \notin 1 .. Len(q) /\ (q \o m)[i].op = "collected"
        BY <1>2, <1>4, <2>1, <3>2
      <4> HIDE DEF q, m
      <4>2. i - Len(q) \in 1 .. Len(m) /\ (q \o m)[i] = m[i - Len(q)]
        BY <4>1
      <4>3. m[i - Len(q)].op = "collected"
        BY <4>1, <4>2
      <4> QED BY <1>4, <4>2, <4>3 DEF m
    <3> QED BY <3>1, <3>2
  <2> QED BY <2>1 DEF CollectedIsLast
<1>8. Toward(to_native, events_, js)' /\ source' = {t2 \in Types : events_'[t2] # NoId}
  BY <1>1, <1>6 DEF Toward
<1> QED BY <1>1, <1>7, <1>8

LEMMA HeadAgree ==
    ASSUME IInv, NEW op, Handling(op)
    PROVE  /\ exists /\ open
           /\ \A t \in Types :
                  IF Message.type = t
                  THEN /\ Message.op = "add" <=> events_[t] = NoId
                       /\ Chain(to_native', t, ~(events_[t] # NoId), js'.listeners[Owner][t] # <<>>)
                  ELSE Chain(to_native', t, events_[t] # NoId, js'.listeners[Owner][t] # <<>>)
           /\ CollectedIsLast'
           /\ js' = js /\ open' = open /\ alive' = alive
           /\ to_native' \in Seq(Messages) /\ js'.sent = <<>>
<1> USE DEF IInv, AgreeInv
<1>1. to_native # <<>> /\ Message = Head(to_native) /\ to_native' = Tail(to_native)
      /\ js' = js /\ open' = open /\ alive' = alive
  BY DEF Handling, Message
<1>2. exists /\ open
  BY <1>1
<1>3. to_native \in Seq(Messages) /\ js.sent = <<>>
  BY DEF DispatchInv, TypeOK
<1>4. to_native \o js.sent = to_native
  BY <1>3, ConcatEmptySeq
<1>5. ASSUME NEW t \in Types
      PROVE  IF Message.type = t
             THEN /\ Message.op = "add" <=> events_[t] = NoId
                  /\ Chain(to_native', t, ~(events_[t] # NoId), js'.listeners[Owner][t] # <<>>)
             ELSE Chain(to_native', t, events_[t] # NoId, js'.listeners[Owner][t] # <<>>)
  <2> DEFINE on == events_[t] # NoId
             want == js.listeners[Owner][t] # <<>>
  <2>1. Chain(to_native, t, on, want) /\ on \in BOOLEAN /\ want \in BOOLEAN
    BY <1>4 DEF Toward
  <2>2. IF Head(to_native).type = t
        THEN (Head(to_native).op = "add" <=> ~on) /\ Chain(Tail(to_native), t, ~on, want)
        ELSE Chain(Tail(to_native), t, on, want)
    <3> HIDE DEF on, want
    <3> QED BY <1>1, <1>3, <2>1, ChainTail
  <2> QED BY <1>1, <2>2
<1>6. CollectedIsLast'
  <2> DEFINE q == to_native
             r == Tail(to_native)
  <2>1. q \in Seq(Messages) /\ q # <<>>
    BY <1>1, <1>3
  <2>2. Len(r) = Len(q) - 1 /\ \A i \in 1 .. Len(r) : r[i] = q[i + 1] /\ i + 1 \in 1 .. Len(q)
    <3> HIDE DEF q, IInv
    <3> QED BY <2>1 DEF q
  <2>3. Len(q) \in Nat
    BY <2>1
  <2>4. ASSUME NEW i \in 1 .. Len(r), r[i].op = "collected"
        PROVE  ~alive /\ i = Len(r)
    <3>1. i + 1 \in 1 .. Len(q) /\ q[i + 1].op = "collected"
      BY <2>2, <2>4
    <3>2. ~alive /\ i + 1 = Len(q)
      BY <3>1 DEF CollectedIsLast
    <3> QED BY <2>2, <2>3, <3>2
  <2> HIDE DEF r
  <2>5. to_native' = r
    BY <1>1 DEF r
  <2> QED BY <1>1, <2>4, <2>5 DEF CollectedIsLast
<1> QED BY <1>1, <1>2, <1>3, <1>5, <1>6
LEMMA InitAgree == Init => AgreeInv
<1> SUFFICES ASSUME Init PROVE AgreeInv
  OBVIOUS
<1>1. to_native \o js.sent = <<>>
  BY NoTablesType DEF Init
<1>2. \A t \in Types : js.listeners[Owner][t] = <<>> /\ events_[t] = NoId
  BY NoTablesType DEF Init
<1>3. \A t \in Types : Chain(<<>>, t, FALSE, FALSE)
  BY DEF Chain, Silent
<1>4. Toward(to_native, events_, js)
  <2> SUFFICES ASSUME NEW t \in Types
               PROVE  Chain(to_native \o js.sent, t, events_[t] # NoId,
                            js.listeners[Owner][t] # <<>>)
    BY DEF Toward
  <2>1. (events_[t] # NoId) = FALSE /\ (js.listeners[Owner][t] # <<>>) = FALSE
    BY <1>2
  <2> QED BY <1>1, <1>3, <2>1
<1> QED BY <1>2, <1>4 DEF Init, AgreeInv, CollectedIsLast

LEMMA CollectAgree == IInv /\ Collect => AgreeInv'
<1> SUFFICES ASSUME IInv, Collect PROVE AgreeInv'
  OBVIOUS
<1> USE DEF IInv, AgreeInv
<1> DEFINE m == [op |-> "collected", type |-> Nothing, id |-> NoId]
<1>1. open /\ alive /\ ~Reachable /\ alive' = FALSE /\ to_native' = Append(to_native, m)
      /\ UNCHANGED <<js, open, exists, events_, source>>
  BY DEF Collect, Usable
<1>2. to_native \in Seq(Messages) /\ js.sent = <<>> /\ m \in Messages /\ js \in JsType
  BY DEF DispatchInv, TypeOK, Messages
<1>3. \A t \in Types : js.listeners[Owner][t] = <<>>
  <2> SUFFICES ASSUME NEW t \in Types, js.listeners[Owner][t] # <<>> PROVE FALSE
    OBVIOUS
  <2> DEFINE i == js.listener_id[Owner][t]
  <2>1. i # NoId /\ js.callbacks[i] = <<Owner, t>>
    BY DEF Exact
  <2>2. i \in Ids
    BY <1>2, <2>1 DEF JsType
  <2>3. js.callbacks[i] # <<>> /\ js.callbacks[i][1] = Owner
    BY <2>1
  <2> QED BY <1>1, <2>2, <2>3 DEF Reachable
<1>4. exists
  BY <1>1
<1>5. CollectedIsLast'
  <2>1. \A i \in 1 .. Len(to_native) : to_native[i].op # "collected"
    BY <1>1 DEF CollectedIsLast
  <2>2. Len(to_native') = Len(to_native) + 1 /\ Len(to_native) \in Nat
        /\ \A i \in 1 .. Len(to_native) : to_native'[i] = to_native[i]
    <3> HIDE DEF m, IInv
    <3> QED BY <1>1, <1>2
  <2>3. \A i \in 1 .. Len(to_native') : i = Len(to_native') \/ i \in 1 .. Len(to_native)
    BY <2>2
  <2> QED BY <1>1, <2>1, <2>2, <2>3 DEF CollectedIsLast
<1>6. Toward(to_native, events_, js)'
  <2> SUFFICES ASSUME NEW t \in Types
               PROVE  Chain(to_native' \o js'.sent, t, events_'[t] # NoId,
                            js'.listeners[Owner][t] # <<>>)
    BY DEF Toward
  <2> DEFINE on == events_[t] # NoId
             want == js.listeners[Owner][t] # <<>>
  <2>1. to_native \o js.sent = to_native
    BY <1>2, ConcatEmptySeq
  <2>2. Chain(to_native, t, on, want) /\ on \in BOOLEAN /\ want \in BOOLEAN
    BY <2>1 DEF Toward
  <2>3. m.type # t
    OBVIOUS
  <2>4. Chain(Append(to_native, m), t, on, want)
    <3> HIDE DEF on, want, m
    <3> QED BY <1>2, <2>2, <2>3, ChainAppendOther
  <2>5. to_native' \o js'.sent = Append(to_native, m)
    <3>1. Append(to_native, m) \in Seq(Messages)
      <4> HIDE DEF m, IInv
      <4> QED BY <1>2
    <3> QED BY <1>1, <1>2, <3>1, ConcatEmptySeq
  <2> QED BY <1>1, <2>4, <2>5
<1> QED BY <1>1, <1>3, <1>4, <1>5, <1>6

LEMMA TowardAfter ==
    ASSUME to_native' \in Seq(Messages), js'.sent = <<>>,
           \A t \in Types :
               Chain(to_native', t, events_'[t] # NoId, js'.listeners[Owner][t] # <<>>)
    PROVE  Toward(to_native, events_, js)'
<1>1. to_native' \o js'.sent = to_native'
  BY ConcatEmptySeq
<1> QED BY <1>1 DEF Toward

LEMMA HandleAgree == IInv /\ Handle => AgreeInv'
<1> SUFFICES ASSUME IInv, Handle PROVE AgreeInv'
  OBVIOUS
<1> DEFINE type == Message.type
<1>0. PICK op : Handling(op) /\ Message.op = op /\ to_native # <<>>
  BY DEF Handle, Handling, OnAddEventListener, OnRemoveEventListener, OnJSObjectCollected
<1>1. /\ exists /\ open
      /\ \A t \in Types :
             IF type = t
             THEN /\ Message.op = "add" <=> events_[t] = NoId
                  /\ Chain(to_native', t, ~(events_[t] # NoId), js'.listeners[Owner][t] # <<>>)
             ELSE Chain(to_native', t, events_[t] # NoId, js'.listeners[Owner][t] # <<>>)
      /\ CollectedIsLast'
      /\ js' = js /\ open' = open /\ alive' = alive
      /\ to_native' \in Seq(Messages) /\ js'.sent = <<>>
  BY <1>0, HeadAgree
<1>2. Message \in Messages
  BY <1>0 DEF IInv, DispatchInv, TypeOK, Message
<1>3. events_ \in [Types -> Ids \cup {NoId}] /\ source = {t \in Types : events_[t] # NoId}
      /\ (~alive => \A t \in Types : js.listeners[Owner][t] = <<>>)
  BY <1>1 DEF IInv, DispatchInv, TypeOK, AgreeInv
<1>4. CASE OnAddEventListener
  <2>1. Message.op = "add" /\ type \in Types /\ Message.id \in Ids /\ Message.id # NoId
    BY <1>2, <1>4 DEF Messages, OnAddEventListener, Handling, Ids, NoId
  <2>2. events_[type] = NoId
    BY <1>1, <2>1
  <2>3. events_' = [events_ EXCEPT ![type] = Message.id] /\ source' = source \cup {type}
        /\ exists' = exists
    BY <1>1, <1>4, <2>2 DEF OnAddEventListener
  <2>4. \A t \in Types : (events_'[t] # NoId) = IF t = type THEN TRUE ELSE events_[t] # NoId
    BY <1>3, <2>1, <2>3
  <2>5. source' = {t \in Types : events_'[t] # NoId}
    BY <1>3, <2>1, <2>3, <2>4
  <2>6. \A t \in Types : Chain(to_native', t, events_'[t] # NoId, js'.listeners[Owner][t] # <<>>)
    <3> SUFFICES ASSUME NEW t \in Types
                 PROVE  Chain(to_native', t, events_'[t] # NoId, js'.listeners[Owner][t] # <<>>)
      OBVIOUS
    <3>1. CASE t = type
      <4>1. (events_'[t] # NoId) = ~(events_[t] # NoId)
        BY <2>2, <2>4, <3>1
      <4>2. Chain(to_native', t, ~(events_[t] # NoId), js'.listeners[Owner][t] # <<>>)
        BY <1>1, <3>1
      <4> QED BY <4>1, <4>2
    <3>2. CASE t # type
      <4>1. (events_'[t] # NoId) = (events_[t] # NoId)
        BY <2>4, <3>2
      <4>2. Chain(to_native', t, events_[t] # NoId, js'.listeners[Owner][t] # <<>>)
        BY <1>1, <3>2
      <4> QED BY <4>1, <4>2
    <3> QED BY <3>1, <3>2
  <2>7. Toward(to_native, events_, js)'
    BY <1>1, <2>6, TowardAfter
  <2> QED BY <1>1, <1>3, <2>3, <2>5, <2>7 DEF AgreeInv
<1>5. CASE OnRemoveEventListener
  <2>1. Message.op = "remove" /\ type \in Types
    BY <1>2, <1>5 DEF Messages, OnRemoveEventListener, Handling
  <2>2. events_[type] # NoId
    BY <1>1, <2>1
  <2>3. events_' = [events_ EXCEPT ![type] = NoId] /\ source' = source \ {type}
        /\ exists' = exists
    BY <1>1, <1>5, <2>2 DEF OnRemoveEventListener
  <2>4. \A t \in Types : (events_'[t] # NoId) = IF t = type THEN FALSE ELSE events_[t] # NoId
    BY <1>3, <2>1, <2>3
  <2>5. source' = {t \in Types : events_'[t] # NoId}
    BY <1>3, <2>1, <2>3, <2>4
  <2>6. \A t \in Types : Chain(to_native', t, events_'[t] # NoId, js'.listeners[Owner][t] # <<>>)
    <3> SUFFICES ASSUME NEW t \in Types
                 PROVE  Chain(to_native', t, events_'[t] # NoId, js'.listeners[Owner][t] # <<>>)
      OBVIOUS
    <3>1. CASE t = type
      <4>1. (events_'[t] # NoId) = ~(events_[t] # NoId)
        BY <2>2, <2>4, <3>1
      <4>2. Chain(to_native', t, ~(events_[t] # NoId), js'.listeners[Owner][t] # <<>>)
        BY <1>1, <3>1
      <4> QED BY <4>1, <4>2
    <3>2. CASE t # type
      <4>1. (events_'[t] # NoId) = (events_[t] # NoId)
        BY <2>4, <3>2
      <4>2. Chain(to_native', t, events_[t] # NoId, js'.listeners[Owner][t] # <<>>)
        BY <1>1, <3>2
      <4> QED BY <4>1, <4>2
    <3> QED BY <3>1, <3>2
  <2>7. Toward(to_native, events_, js)'
    BY <1>1, <2>6, TowardAfter
  <2> QED BY <1>1, <1>3, <2>3, <2>5, <2>7 DEF AgreeInv
<1>6. CASE OnJSObjectCollected
  <2>1. Message.op = "collected" /\ type = Nothing
    BY <1>2, <1>6 DEF Messages, OnJSObjectCollected, Handling
  <2>2. exists' = FALSE /\ events_' = [t \in Types |-> NoId] /\ source' = source
    BY <1>6 DEF OnJSObjectCollected, Delete
  <2>3. ~alive /\ to_native' = <<>>
    <3>1. to_native \in Seq(Messages) /\ Message = to_native[1] /\ to_native' = Tail(to_native)
      BY <1>0 DEF IInv, DispatchInv, TypeOK, Handling, Message
    <3>2. 1 \in 1 .. Len(to_native)
      BY <1>0, <3>1
    <3>3. ~alive /\ Len(to_native) = 1
      BY <2>1, <3>1, <3>2 DEF IInv, AgreeInv, CollectedIsLast
    <3>4. Len(Tail(to_native)) = 0
      BY <1>0, <3>1, <3>3
    <3> QED BY <1>1, <3>1, <3>3, <3>4
  <2>4. \A t \in Types : js'.listeners[Owner][t] = <<>>
    BY <1>1, <1>3, <2>3
  <2>5. \A t \in Types : events_[t] = NoId
    <3> SUFFICES ASSUME NEW t \in Types PROVE events_[t] = NoId
      OBVIOUS
    <3>1. type # t
      BY <2>1
    <3>2. Chain(to_native', t, events_[t] # NoId, js'.listeners[Owner][t] # <<>>)
      BY <1>1, <3>1
    <3>3. Silent(to_native', t)
      BY <2>3 DEF Silent
    <3> QED BY <2>4, <3>2, <3>3 DEF Chain
  <2>6. \A t \in Types : events_'[t] = NoId
    BY <2>2
  <2>7. \A t \in Types : Chain(to_native', t, events_'[t] # NoId, js'.listeners[Owner][t] # <<>>)
    <3> SUFFICES ASSUME NEW t \in Types
                 PROVE  Chain(to_native', t, events_'[t] # NoId, js'.listeners[Owner][t] # <<>>)
      OBVIOUS
    <3>1. (events_'[t] # NoId) = (events_[t] # NoId)
      BY <2>5, <2>6
    <3>2. type # t
      BY <2>1
    <3>3. Chain(to_native', t, events_[t] # NoId, js'.listeners[Owner][t] # <<>>)
      BY <1>1, <3>2
    <3> QED BY <3>1, <3>3
  <2>8. Toward(to_native, events_, js)'
    BY <1>1, <2>7, TowardAfter
  <2>9. source' = {t \in Types : events_'[t] # NoId}
    BY <1>3, <2>2, <2>5, <2>6
  <2> QED BY <1>1, <1>3, <2>2, <2>3, <2>6, <2>8, <2>9 DEF AgreeInv
<1> QED BY <1>4, <1>5, <1>6 DEF Handle

LEMMA CloseAgree == IInv /\ OnInstanceDestroyed => AgreeInv'
<1> SUFFICES ASSUME IInv, OnInstanceDestroyed PROVE AgreeInv'
  OBVIOUS
<1>1. to_native' = <<>> /\ js' = NoTables /\ open' = FALSE /\ exists' = FALSE
      /\ \A t \in Types : events_'[t] = NoId
  BY DEF OnInstanceDestroyed, Delete
<1>2. js'.sent = <<>> /\ \A t \in Types : js'.listeners[Owner][t] = <<>>
  BY <1>1, NoTablesType
<1>3. \A t \in Types : Chain(to_native', t, events_'[t] # NoId, js'.listeners[Owner][t] # <<>>)
  <2> SUFFICES ASSUME NEW t \in Types
               PROVE  Chain(to_native', t, events_'[t] # NoId, js'.listeners[Owner][t] # <<>>)
    OBVIOUS
  <2>1. (events_'[t] # NoId) = FALSE /\ (js'.listeners[Owner][t] # <<>>) = FALSE
    BY <1>1, <1>2
  <2>2. Chain(<<>>, t, FALSE, FALSE)
    BY DEF Chain, Silent
  <2> QED BY <1>1, <2>1, <2>2
<1>4. Toward(to_native, events_, js)'
  BY <1>1, <1>2, <1>3, TowardAfter
<1>5. CollectedIsLast'
  BY <1>1 DEF CollectedIsLast
<1> QED BY <1>1, <1>2, <1>4, <1>5 DEF AgreeInv

LEMMA NextAgree == Endpoints = {Owner} /\ IInv /\ [Next]_vars => AgreeInv'
<1> SUFFICES ASSUME Endpoints = {Owner}, IInv, [Next]_vars PROVE AgreeInv'
  OBVIOUS
<1>0. /\ js \in JsType /\ NoDuplicates(js) /\ to_native \in Seq(Messages)
      /\ Toward(to_native, events_, js)
  BY TypeDuplicates DEF IInv, DispatchInv, TypeOK, AgreeInv
<1>1. ASSUME NEW t \in Types, NEW f \in Functions, Add(Owner, t, f)
      PROVE  AgreeInv'
  <2>1. js.next_id < MaxAdds /\ Operate(Owner, t, js, AddListener(js, Owner, t, f))
    BY <1>1 DEF Add
  <2> QED BY <1>0, <2>1, AddType, AddToward, OperateAgree
<1>2. ASSUME NEW t \in Types, NEW f \in Functions, Remove(Owner, t, f)
      PROVE  AgreeInv'
  <2>1. Operate(Owner, t, js, RemoveListener(js, Owner, t, f))
    BY <1>2 DEF Remove
  <2> QED BY <1>0, <2>1, RemoveType, RemoveToward, OperateAgree
<1>3. ASSUME NEW t \in Types, NEW f \in Functions \cup {Nothing}, Set(Owner, t, f)
      PROVE  AgreeInv'
  <2>1. js.next_id < MaxAdds
        /\ Operate(Owner, t, RemoveListener(js, Owner, t, js.handler[Owner][t]),
                   SetHandler(js, Owner, t, f))
    BY <1>3 DEF Set
  <2> QED BY <1>0, <2>1, SetType, SetToward, OperateAgree
<1>4. CASE Collect
  BY <1>4, CollectAgree
<1>5. CASE Handle
  BY <1>5, HandleAgree
<1>6. CASE UNCHANGED <<js, open, alive, to_native, exists, events_, source>>
  BY <1>6 DEF IInv, AgreeInv, Toward, CollectedIsLast
<1>7. OperateAny => AgreeInv'
  BY <1>1, <1>2, <1>3 DEF OperateAny
<1>8. CASE \E e \in Endpoints, t \in Types : DispatchFromScript(e, t)
  BY <1>6, <1>8 DEF DispatchFromScript
<1>9. CASE DispatchFromExtension \/ NextListener \/ EndLoop \/ ListenerThrows
  BY <1>6, <1>9 DEF DispatchFromExtension, NextListener, EndLoop, ListenerThrows
<1>10. CASE \E t \in Types : DispatchEvent(t)
  BY <1>6, <1>10 DEF DispatchEvent
<1>11. CASE UNCHANGED vars
  BY <1>6, <1>11 DEF vars
<1>12. CASE OnInstanceDestroyed
  BY <1>12, CloseAgree
<1> QED BY <1>4, <1>5, <1>7, <1>8, <1>9, <1>10, <1>11, <1>12 DEF Next

LEMMA AlwaysAgree == Endpoints = {Owner} /\ Spec => []IInv
<1> SUFFICES ASSUME Endpoints = {Owner} PROVE Spec => []IInv
  OBVIOUS
<1>1. Init => IInv
  <2>1. Init => Exact(js)
    BY NoTablesExact DEF Init
  <2> QED BY <2>1, InitDispatch, InitAgree DEF IInv
<1>2. IInv /\ [Next]_vars => IInv'
  BY NextDispatch, NextExact, NextAgree DEF IInv, Exact
<1> QED BY <1>1, <1>2, PTL DEF Spec

LEMMA AgreeIsEnough ==
    ASSUME Endpoints = {Owner}, IInv
    PROVE  SidesAgree
<1> SUFFICES ASSUME NEW t \in Types
             PROVE  Subscribed(t) <=>
                        IF About(t) = {} THEN events_[t] # NoId
                        ELSE LET last == CHOOSE i \in About(t) : \A j \in About(t) : j \leq i
                             IN  to_native[last].op = "add"
  BY DEF SidesAgree
<1>1. to_native \in Seq(Messages) /\ js.sent = <<>>
  BY DEF IInv, DispatchInv, TypeOK
<1>2. to_native \o js.sent = to_native
  BY <1>1, ConcatEmptySeq
<1>3. Chain(to_native, t, events_[t] # NoId, js.listeners[Owner][t] # <<>>)
  BY <1>2 DEF IInv, AgreeInv, Toward
<1>4. Subscribed(t) <=> js.listeners[Owner][t] # <<>>
  BY DEF Subscribed
<1>5. CASE About(t) = {}
  <2>1. Silent(to_native, t)
    BY <1>5 DEF About, Silent
  <2> QED BY <1>3, <1>4, <1>5, <2>1 DEF Chain
<1>6. CASE About(t) # {}
  <2>1. ~Silent(to_native, t)
    BY <1>6 DEF About, Silent
  <2>2. PICK i \in 1 .. Len(to_native) :
            IsLast(to_native, t, i) /\ (to_native[i].op = "add" <=> js.listeners[Owner][t] # <<>>)
    BY <1>3, <2>1 DEF Chain
  <2>3. i \in About(t) /\ \A j \in About(t) : j \leq i
    BY <2>2 DEF About, IsLast
  <2> DEFINE last == CHOOSE l \in About(t) : \A j \in About(t) : j \leq l
  <2>4. last \in About(t) /\ \A j \in About(t) : j \leq last
    BY <2>3
  <2>5. About(t) \subseteq Int
    BY DEF About
  <2>6. last = i
    BY <2>3, <2>4, <2>5
  <2> QED BY <1>4, <1>6, <2>2, <2>6
<1> QED BY <1>5, <1>6

\* The script and the native object agree on what is subscribed, up to the
\* messages under way, for any number of events, listeners and operations
\* (addEventListener, removeEventListener; event_target.cc).
THEOREM SidesAgreeHolds == Endpoints = {Owner} /\ Spec => []SidesAgree
<1> SUFFICES ASSUME Endpoints = {Owner} PROVE Spec => []SidesAgree
  OBVIOUS
<1>1. IInv => SidesAgree
  BY AgreeIsEnough
<1> QED BY <1>1, AlwaysAgree, PTL

\* While the page is open the native object is deleted only when no source
\* runs: the collector finds the script object after its last listener went,
\* and the message that tells of it is behind the one that removed the listener.
\* Of an object deleted with its page nothing is claimed (OnInstanceDestroyed).
THEOREM CollectedIsQuietHolds == Endpoints = {Owner} /\ Spec => []CollectedIsQuiet
<1> SUFFICES ASSUME Endpoints = {Owner} PROVE Spec => []CollectedIsQuiet
  OBVIOUS
<1>1. IInv => CollectedIsQuiet
  BY DEF IInv, AgreeInv, CollectedIsQuiet
<1> QED BY <1>1, AlwaysAgree, PTL
=============================================================================
