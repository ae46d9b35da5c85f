------------------------- MODULE TestDispatcherProofs -------------------------
(***************************************************************************)
(* Proofs about TestDispatcher, for any number of devices, tests, groups   *)
(* and retries: the types, and with them the bound on the tries of a test; *)
(* that no test is lost, no thread leaves early, and the verdict is true.  *)
(***************************************************************************)
EXTENDS TestDispatcher, FiniteSetTheorems, TLAPS

USE DevicesAssumption, RetriesAssumption

(* The queue of a collection, and the thread of a device, stay what they   *)
(* are under an update.                                                    *)
LEMMA HomeType == ASSUME shard \in BOOLEAN, NEW d \in Devices PROVE Home(d) \in Homes
BY DEF Home, Homes

LEMMA AddedType ==
    ASSUME NEW c \in CollType, NEW test \in TestType
    PROVE  Added(c, test) \in CollType
BY DEF Added, CollType

LEMMA PoppedType ==
    ASSUME NEW c \in CollType, c.queue # <<>>
    PROVE  Popped(c) \in CollType /\ Head(c.queue) \in TestType
<1> DEFINE q == c.queue
<1>1. q \in Seq(TestType) /\ q # <<>>
  BY DEF CollType
<1>2. Tail(q) \in Seq(TestType) /\ Head(q) \in TestType
  <2> HIDE DEF q
  <2> QED BY <1>1
<1> QED BY <1>2 DEF Popped, CollType

LEMMA CompletedType ==
    ASSUME NEW c \in CollType
    PROVE  Completed(c) \in CollType /\ AwaitMore(c) \in CollType
<1> DEFINE b == c.in_progress = 1 \/ c.signalled
<1>1. b \in BOOLEAN
  OBVIOUS
<1>2. Completed(c) = [queue |-> c.queue, in_progress |-> c.in_progress - 1, signalled |-> b]
  BY DEF Completed
<1> HIDE DEF b
<1>3. Completed(c) \in CollType
  BY <1>1, <1>2 DEF CollType
<1>4. AwaitMore(c) \in CollType
  BY DEF AwaitMore, CollType
<1> QED BY <1>3, <1>4

LEMMA OutcomeType ==
    ASSUME shard \in BOOLEAN, NEW d \in Devices, NEW names \in SUBSET Tests,
           NEW passed \in BOOLEAN, NEW tries \in 1 .. NumRetries + 1
    PROVE  Outcome(d, names, passed, tries) \subseteq ResultType
BY DEF Outcome, ResultType, Home

LEMMA RunningType ==
    ASSUME runners \in Seq(Devices)
    PROVE  Running \subseteq Devices
BY DEF Running

LEMMA LeftoversType ==
    ASSUME TypeOK
    PROVE  Leftovers \subseteq [home : Devices \cup {Shared}, test : SUBSET Tests]
<1> SUFFICES ASSUME NEW u \in Leftovers
             PROVE  u \in [home : Devices \cup {Shared}, test : SUBSET Tests]
  OBVIOUS
<1>1. PICK h \in Used : u \in {[home |-> h, test |-> t.group] :
                                 t \in {coll[h].queue[i] : i \in DOMAIN coll[h].queue}}
  BY DEF Leftovers
<1>2. PICK i \in DOMAIN coll[h].queue : u = [home |-> h, test |-> coll[h].queue[i].group]
  BY <1>1
<1>3. PICK d \in Devices : h = Home(d)
  BY <1>1, RunningType DEF Used, TypeOK
<1>4. h \in Homes /\ h \in Devices \cup {Shared}
  BY <1>3, HomeType DEF Home, TypeOK
<1>5. coll[h].queue \in Seq(TestType)
  BY <1>4 DEF TypeOK, CollType
<1>6. coll[h].queue[i] \in TestType
  BY <1>5, <1>2
<1> QED BY <1>2, <1>4, <1>6 DEF TestType

-----------------------------------------------------------------------------
(* The types. *)

LEMMA InitType == Init => TypeOK
<1> SUFFICES ASSUME Init PROVE TypeOK
  OBVIOUS
<1>1. PICK q \in Orders :
          coll = [h \in Homes |-> [queue |-> [i \in DOMAIN q |-> Test(q[i], 0)],
                                   in_progress |-> Cardinality(Groups),
                                   signalled |-> Groups # {}]]
  BY DEF Init
<1>2. Cardinality(Groups) \in Nat
  BY FS_CardinalityType, GroupsAssumption
<1>3. DOMAIN q = 1 .. Cardinality(Groups) /\ \A i \in DOMAIN q : q[i] \in SUBSET Tests
  BY GroupsAssumption DEF Orders
<1>4. \A g \in SUBSET Tests : Test(g, 0) \in TestType
  BY DEF Test, TestType
<1>5. [i \in DOMAIN q |-> Test(q[i], 0)] \in [1 .. Cardinality(Groups) -> TestType]
  BY <1>3, <1>4
<1>6. [i \in DOMAIN q |-> Test(q[i], 0)] \in Seq(TestType)
  BY <1>5, <1>2
<1>7. coll \in [Homes -> CollType]
  BY <1>1, <1>2, <1>6 DEF CollType
<1>8. thread \in [Devices -> ThreadType]
  BY DEF Init, ThreadType, NoTest, Test, TestType
<1>9. main \in MainType
  BY DEF Init, MainType
<1> QED BY <1>7, <1>8, <1>9 DEF Init, TypeOK

LEMMA NextType == TypeOK /\ [Next]_vars => TypeOK'
<1> SUFFICES ASSUME TypeOK, [Next]_vars PROVE TypeOK'
  OBVIOUS
<1> USE DEF TypeOK
<1>1. ASSUME NEW d \in Devices, SetUp(d) PROVE TypeOK'
  <2>1. thread' \in [Devices -> ThreadType]
    BY <1>1 DEF SetUp, Goes, ThreadType
  <2>2. runners' \in Seq(Devices)
    BY <1>1 DEF SetUp
  <2> QED BY <1>1, <2>1, <2>2 DEF SetUp, Homes
<1>2. ASSUME StartAll PROVE TypeOK'
  <2>1. thread' \in [Devices -> ThreadType]
    BY <1>2 DEF StartAll, ThreadType
  <2>2. main' \in MainType
    BY <1>2 DEF StartAll, MainType
  <2> QED BY <1>2, <2>1, <2>2 DEF StartAll, Homes
<1>3. ASSUME NEW d \in Devices, Wake(d) PROVE TypeOK'
  BY <1>3 DEF Wake, Goes, ThreadType, Homes
<1>4. ASSUME NEW d \in Devices, Pop(d) PROVE TypeOK'
  <2> DEFINE c == coll[Home(d)]
  <2>1. c \in CollType
    BY HomeType
  <2>2. CASE AllHandled(c) /\ Goes(d, "done") /\ UNCHANGED coll
    BY <1>4, <2>2 DEF Pop, Goes, ThreadType, Homes
  <2>3. CASE /\ ~AllHandled(c) /\ c.queue # <<>>
             /\ thread' = [thread EXCEPT ![d].pc = "running", ![d].test = Head(c.queue)]
             /\ Collect(d, Popped(c))
    <3>1. Popped(c) \in CollType /\ Head(c.queue) \in TestType
      BY <2>1, <2>3, PoppedType
    <3>2. thread' \in [Devices -> ThreadType]
      <4>1. PICK t \in TestType : thread' = [thread EXCEPT ![d].pc = "running", ![d].test = t]
        BY <2>3, <3>1
      <4>2. [thread[d] EXCEPT !.pc = "running", !.test = t] \in ThreadType
        BY <4>1 DEF ThreadType, Holding
      <4> QED BY <4>1, <4>2
    <3>3. coll' \in [Homes -> CollType]
      BY <2>3, <3>1 DEF Collect
    <3> QED BY <1>4, <3>2, <3>3 DEF Pop, Homes
  <2>4. CASE ~AllHandled(c) /\ c.queue = <<>> /\ Goes(d, "waiting") /\ Collect(d, AwaitMore(c))
    <3>1. coll' \in [Homes -> CollType]
      BY <2>1, <2>4, CompletedType DEF Collect
    <3>2. thread' \in [Devices -> ThreadType]
      BY <2>4 DEF Goes, ThreadType
    <3> QED BY <1>4, <3>1, <3>2 DEF Pop, Homes
  <2> QED BY <1>4, <2>2, <2>3, <2>4 DEF Pop
<1>5. ASSUME NEW d \in Devices, RunTest(d) PROVE TypeOK'
  <2> DEFINE tries == thread[d].test.tries + 1
             group == thread[d].test.group
  <2>1. group \in SUBSET Tests /\ tries \in 1 .. NumRetries + 1
    BY DEF ThreadType, TestType
  <2>2. PICK passed \in SUBSET group :
          LET retry == group \ passed
          IN  IF retry # {} /\ MayRetry(tries)
              THEN /\ results' = results \cup Outcome(d, passed, TRUE, tries)
                   /\ thread' = [thread EXCEPT ![d].pc = "retrying", ![d].test = Test(retry, tries)]
              ELSE /\ results' = results \cup Outcome(d, passed, TRUE, tries)
                                         \cup Outcome(d, retry, FALSE, tries)
                   /\ thread' = [thread EXCEPT ![d].pc = "completing", ![d].test = NoTest]
    BY <1>5 DEF RunTest
  <2> HIDE DEF tries, group
  <2>3. /\ Outcome(d, passed, TRUE, tries) \subseteq ResultType
        /\ Outcome(d, group \ passed, FALSE, tries) \subseteq ResultType
    BY <2>1, <2>2, OutcomeType
  <2>4. results' \subseteq ResultType
    BY <2>2, <2>3
  <2>5. thread' \in [Devices -> ThreadType]
    <3>1. MayRetry(tries) => Test(group \ passed, tries) \in TestType
      BY <2>1 DEF MayRetry, Test, TestType
    <3>2. NoTest \in TestType
      BY DEF NoTest, Test, TestType
    <3>3. CASE group \ passed # {} /\ MayRetry(tries)
      <4>1. thread' = [thread EXCEPT ![d].pc = "retrying", ![d].test = Test(group \ passed, tries)]
        BY <2>2, <3>3
      <4>2. Test(group \ passed, tries) \in TestType
        BY <3>1, <3>3
      <4>3. "retrying" \in Holding
        BY DEF Holding
      <4> DEFINE T == Test(group \ passed, tries)
      <4>4. T \in TestType /\ thread' = [thread EXCEPT ![d].pc = "retrying", ![d].test = T]
        BY <4>1, <4>2
      <4>5. thread \in [Devices -> ThreadType]
        OBVIOUS
      <4> HIDE DEF T
      <4>6. [thread[d] EXCEPT !.pc = "retrying", !.test = T] \in ThreadType
        BY <4>3, <4>4, <4>5 DEF ThreadType
      <4> QED BY <4>4, <4>5, <4>6
    <3>4. CASE ~(group \ passed # {} /\ MayRetry(tries))
      <4>1. thread' = [thread EXCEPT ![d].pc = "completing", ![d].test = NoTest]
        BY <2>2, <3>4
      <4> QED BY <3>2, <4>1 DEF ThreadType
    <3> QED BY <3>3, <3>4
  <2> QED BY <1>5, <2>4, <2>5 DEF RunTest, Homes, ResultType
<1>6. ASSUME NEW d \in Devices, Raise(d) PROVE TypeOK'
  <2>1. PICK e \in Errors : thread' = [thread EXCEPT ![d].pc = "raising", ![d].err = e]
    BY <1>6 DEF Raise
  <2>2. [thread[d] EXCEPT !.pc = "raising", !.err = e] \in ThreadType
    <3>1. "raising" \in Holding
      BY DEF Holding
    <3>2. thread[d] \in ThreadType
      OBVIOUS
    <3> QED BY <2>1, <3>1, <3>2 DEF ThreadType
  <2>3. thread' \in [Devices -> ThreadType]
    BY <2>1, <2>2
  <2> QED BY <1>6, <2>3 DEF Raise, Homes
<1>7. ASSUME NEW d \in Devices, Add(d) PROVE TypeOK'
  <2>1. coll[Home(d)] \in CollType /\ thread[d].test \in TestType
    BY HomeType DEF ThreadType
  <2>2. coll' \in [Homes -> CollType]
    BY <1>7, <2>1, AddedType DEF Add, Collect, HandedBack
  <2>3. thread' \in [Devices -> ThreadType]
    <3>1. NoTest \in TestType
      BY DEF NoTest, Test, TestType
    <3>2. thread' = [thread EXCEPT ![d].pc = "completing", ![d].test = NoTest]
      BY <1>7 DEF Add
    <3> QED BY <3>1, <3>2 DEF ThreadType
  <2> QED BY <1>7, <2>2, <2>3 DEF Add, Homes
<1>8. ASSUME NEW d \in Devices, TestCompleted(d) PROVE TypeOK'
  <2>1. coll' \in [Homes -> CollType]
    BY <1>8, HomeType, CompletedType DEF TestCompleted, Collect
  <2>2. PICK pc \in {"waiting", "raised"} : thread' = [thread EXCEPT ![d].pc = pc]
    BY <1>8 DEF TestCompleted, Goes
  <2>3. thread' \in [Devices -> ThreadType]
    BY <2>2 DEF ThreadType
  <2> QED BY <1>8, <2>1, <2>3 DEF TestCompleted, Homes
<1>9. ASSUME TimeOut \/ TearDownRunners PROVE TypeOK'
  <2>1. main' \in MainType
    BY <1>9 DEF TimeOut, TearDownRunners, MainType
  <2> QED BY <1>9, <2>1 DEF TimeOut, TearDownRunners, Homes
<1>10. ASSUME JoinAll PROVE TypeOK'
  <2>1. DidRunPass \in BOOLEAN
    BY DEF DidRunPass
  <2>2. main' \in MainType
    BY <1>10, <2>1, LeftoversType DEF JoinAll, MainType
  <2> QED BY <1>10, <2>2 DEF JoinAll, Homes
<1>11. CASE UNCHANGED vars
  BY <1>11 DEF vars, Homes
<1> QED BY <1>1, <1>2, <1>3, <1>4, <1>5, <1>6, <1>7, <1>8, <1>9, <1>10, <1>11 DEF Next, Device, Main

(* Every variable keeps its type; in particular a test that waits for a    *)
(* thread has been run at most NumRetries times, whatever was raised and   *)
(* whoever took it (_RunTestsFromQueue).                                   *)
THEOREM TypeCorrect == Spec => []TypeOK
BY InitType, NextType, PTL DEF Spec

-----------------------------------------------------------------------------
(* No test is lost. *)

Queued(h, t) == \E i \in DOMAIN coll[h].queue : t \in coll[h].queue[i].group
Held(h, t) == \E d \in Devices : Home(d) = h /\ t \in thread[d].test.group
Known(h, t) == \E r \in results : r.home = h /\ r.test = t

(* Before the threads start none of them has a test, and later only those  *)
(* between _pop and the end of the loop's body have one: what _pop assigns *)
(* overwrites nothing.                                                     *)
NotStarted == main.pc = "setup" =>
    \A d \in Devices : thread[d].pc \in {"setup", "ready", "absent", "failed"}
HandsEmpty == \A d \in Devices : thread[d].pc \notin Holding => thread[d].test.group = {}

IInv == TypeOK /\ NotStarted /\ HandsEmpty /\ NoTestLost

LEMMA Places == NoTestLost <=> \A h \in Homes, t \in Tests : Queued(h, t) \/ Held(h, t) \/ Known(h, t)
BY DEF NoTestLost, Queued, Held, Known

LEMMA AddedQueue ==
    ASSUME NEW c \in CollType, NEW test \in TestType, NEW t
    PROVE  /\ t \in test.group => \E i \in DOMAIN Added(c, test).queue : t \in Added(c, test).queue[i].group
           /\ (\E i \in DOMAIN c.queue : t \in c.queue[i].group)
              => \E i \in DOMAIN Added(c, test).queue : t \in Added(c, test).queue[i].group
<1> DEFINE q == c.queue
<1>1. q \in Seq(TestType) /\ Added(c, test).queue = Append(q, test)
  BY DEF CollType, Added
<1> HIDE DEF q
<1>2. /\ DOMAIN Append(q, test) = 1 .. Len(q) + 1
      /\ Append(q, test)[Len(q) + 1] = test
      /\ \A i \in DOMAIN q : i \in 1 .. Len(q) + 1 /\ Append(q, test)[i] = q[i]
  BY <1>1
<1>3. Len(q) + 1 \in 1 .. Len(q) + 1
  BY <1>1
<1> QED BY <1>1, <1>2, <1>3 DEF q

LEMMA PoppedQueue ==
    ASSUME NEW c \in CollType, c.queue # <<>>, NEW t,
           \E i \in DOMAIN c.queue : t \in c.queue[i].group
    PROVE  \/ t \in Head(c.queue).group
           \/ \E i \in DOMAIN Popped(c).queue : t \in Popped(c).queue[i].group
<1> DEFINE q == c.queue
<1>1. q \in Seq(TestType) /\ Popped(c).queue = Tail(q) /\ q # <<>>
  BY DEF CollType, Popped
<1>2. PICK i \in DOMAIN q : t \in q[i].group
  OBVIOUS
<1> HIDE DEF q
<1>3. CASE i = 1
  BY <1>1, <1>2, <1>3 DEF q
<1>4. CASE i # 1
  <2>1. i - 1 \in DOMAIN Tail(q) /\ Tail(q)[i - 1] = q[i]
    BY <1>1, <1>2, <1>4
  <2> QED BY <1>1, <1>2, <2>1 DEF q
<1> QED BY <1>3, <1>4

(* A step that moves no test. *)
LEMMA Unmoved ==
    ASSUME NoTestLost, shard' = shard, results \subseteq results',
           \A h \in Homes : coll'[h].queue = coll[h].queue,
           \A d \in Devices : thread'[d].test.group = thread[d].test.group
    PROVE  NoTestLost'
<1>1. Homes' = Homes /\ \A d \in Devices : Home(d)' = Home(d)
  BY DEF Homes, Home
<1> QED BY <1>1 DEF NoTestLost

LEMMA InitPlaced == Init => NotStarted /\ HandsEmpty /\ NoTestLost
<1> SUFFICES ASSUME Init PROVE NotStarted /\ HandsEmpty /\ NoTestLost
  OBVIOUS
<1>1. NotStarted /\ HandsEmpty
  BY DEF Init, NotStarted, HandsEmpty, NoTest, Test
<1>2. PICK q \in Orders :
          coll = [h \in Homes |-> [queue |-> [i \in DOMAIN q |-> Test(q[i], 0)],
                                   in_progress |-> Cardinality(Groups),
                                   signalled |-> Groups # {}]]
  BY DEF Init
<1>3. ASSUME NEW h \in Homes, NEW t \in Tests PROVE Queued(h, t)
  <2>1. PICK g \in Groups : t \in g
    BY GroupsAssumption
  <2>2. PICK i \in DOMAIN q : q[i] = g
    BY DEF Orders
  <2>3. coll[h].queue = [k \in DOMAIN q |-> Test(q[k], 0)]
    BY <1>2
  <2>4. i \in DOMAIN coll[h].queue /\ coll[h].queue[i].group = g
    BY <2>2, <2>3 DEF Test
  <2> QED BY <2>1, <2>4 DEF Queued
<1> QED BY <1>1, <1>3, Places

LEMMA NextPlaced == IInv /\ [Next]_vars => (NotStarted /\ HandsEmpty /\ NoTestLost)'
<1> SUFFICES ASSUME IInv, [Next]_vars PROVE (NotStarted /\ HandsEmpty /\ NoTestLost)'
  OBVIOUS
<1> USE DEF IInv
<1>0. TypeOK /\ TypeOK'
  BY NextType
<1>1. ASSUME NEW d \in Devices, SetUp(d) PROVE (NotStarted /\ HandsEmpty /\ NoTestLost)'
  <2>1. main' = main /\ UNCHANGED <<shard, coll, results>>
    BY <1>1 DEF SetUp
  <2>2. PICK pc \in {"ready", "absent", "failed"} : thread' = [thread EXCEPT ![d].pc = pc]
    BY <1>1 DEF SetUp, Goes
  <2>3. ASSUME NEW e \in Devices
        PROVE  thread'[e].test = thread[e].test /\ thread'[e].pc \in {thread[e].pc, pc}
    BY <1>0, <2>2 DEF TypeOK, ThreadType
  <2>4. NotStarted'
    BY <2>1, <2>3 DEF NotStarted
  <2>5. HandsEmpty'
    <3>1. thread[d].pc \notin Holding
      BY <1>1 DEF SetUp, Holding
    <3>2. ASSUME NEW e \in Devices, thread'[e].pc \notin Holding PROVE thread[e].pc \notin Holding
      <4>1. CASE e = d
        BY <3>1, <4>1
      <4>2. CASE e # d
        <5>1. thread'[e] = thread[e]
          BY <1>0, <2>2, <4>2 DEF TypeOK
        <5> QED BY <3>2, <5>1
      <4> QED BY <4>1, <4>2
    <3> QED BY <2>3, <3>2 DEF HandsEmpty
  <2>6. NoTestLost'
    BY <2>1, <2>3, Unmoved
  <2> QED BY <2>4, <2>5, <2>6
<1>2. ASSUME StartAll PROVE (NotStarted /\ HandsEmpty /\ NoTestLost)'
  <2>1. \A e \in Devices : thread[e].test.group = {} /\ thread'[e].test.group = {}
    <3>1. \A e \in Devices : thread[e].test.group = {}
      BY <1>2 DEF StartAll, NotStarted, HandsEmpty, Holding
    <3>2. \A e \in Devices : thread'[e].test = thread[e].test
      BY <1>0, <1>2 DEF StartAll, TypeOK, ThreadType
    <3> QED BY <3>1, <3>2
  <2>2. (NotStarted /\ HandsEmpty)'
    BY <1>0, <1>2, <2>1 DEF StartAll, NotStarted, HandsEmpty, TypeOK, MainType
  <2>3. NoTestLost'
    BY <1>2, <2>1, Unmoved DEF StartAll
  <2> QED BY <2>2, <2>3
<1>3. ASSUME NEW d \in Devices, Wake(d) PROVE (NotStarted /\ HandsEmpty /\ NoTestLost)'
  <2>1. (NotStarted /\ HandsEmpty)'
    BY <1>0, <1>3 DEF Wake, Goes, NotStarted, HandsEmpty, Holding, TypeOK, ThreadType
  <2>2. NoTestLost'
    BY <1>0, <1>3, Unmoved DEF Wake, Goes, TypeOK, ThreadType
  <2> QED BY <2>1, <2>2
<1>4. ASSUME NEW d \in Devices, Pop(d) PROVE (NotStarted /\ HandsEmpty /\ NoTestLost)'
  <2> DEFINE c == coll[Home(d)]
  <2>1. c \in CollType /\ Home(d) \in Homes /\ shard' = shard /\ results' = results
    BY <1>0, <1>4, HomeType DEF Pop, TypeOK
  <2>2. thread[d].test.group = {} /\ thread[d].pc = "popping"
    BY <1>4 DEF Pop, HandsEmpty, Holding
  <2>3. CASE AllHandled(c) /\ Goes(d, "done") /\ UNCHANGED coll
    <3>1. (NotStarted /\ HandsEmpty)'
      BY <1>0, <1>4, <2>2, <2>3 DEF Pop, Goes, NotStarted, HandsEmpty, Holding, TypeOK, ThreadType
    <3>2. NoTestLost'
      BY <1>0, <2>1, <2>3, Unmoved DEF Goes, TypeOK, ThreadType
    <3> QED BY <3>1, <3>2
  <2>4. CASE /\ ~AllHandled(c) /\ c.queue # <<>>
             /\ thread' = [thread EXCEPT ![d].pc = "running", ![d].test = Head(c.queue)]
             /\ Collect(d, Popped(c))
    <3>1. /\ thread'[d].test = Head(c.queue) /\ thread'[d].pc = "running"
          /\ \A e \in Devices \ {d} : thread'[e] = thread[e]
      BY <1>0, <2>4 DEF TypeOK, ThreadType
    <3>2. (NotStarted /\ HandsEmpty)'
      BY <1>4, <2>2, <3>1 DEF Pop, NotStarted, HandsEmpty, Holding
    <3>3. coll'[Home(d)] = Popped(c) /\ \A h \in Homes \ {Home(d)} : coll'[h] = coll[h]
      BY <1>0, <2>1, <2>4 DEF Collect, TypeOK
    <3>4. Homes' = Homes /\ \A e \in Devices : Home(e)' = Home(e)
      BY <2>1 DEF Homes, Home
    <3>5. ASSUME NEW h \in Homes, NEW t \in Tests PROVE (Queued(h, t) \/ Held(h, t) \/ Known(h, t))'
      <4>1. CASE Queued(h, t) /\ h = Home(d)
        <5>1. t \in Head(c.queue).group \/ \E i \in DOMAIN Popped(c).queue : t \in Popped(c).queue[i].group
          BY <2>1, <2>4, <4>1, PoppedQueue DEF Queued
        <5> QED BY <3>1, <3>3, <3>4, <4>1, <5>1 DEF Queued, Held
      <4>2. CASE Queued(h, t) /\ h # Home(d)
        BY <3>3, <4>2 DEF Queued
      <4>3. CASE Held(h, t)
        BY <2>2, <3>1, <3>4, <4>3 DEF Held
      <4>4. CASE Known(h, t)
        BY <2>1, <4>4 DEF Known
      <4> QED BY <4>1, <4>2, <4>3, <4>4, Places
    <3> QED BY <3>2, <3>4, <3>5 DEF NoTestLost, Queued, Held, Known
  <2>5. CASE ~AllHandled(c) /\ c.queue = <<>> /\ Goes(d, "waiting") /\ Collect(d, AwaitMore(c))
    <3>1. (NotStarted /\ HandsEmpty)'
      BY <1>0, <1>4, <2>2, <2>5 DEF Pop, Goes, NotStarted, HandsEmpty, Holding, TypeOK, ThreadType
    <3>2. \A h \in Homes : coll'[h].queue = coll[h].queue
      BY <1>0, <2>1, <2>5 DEF Collect, AwaitMore, TypeOK, CollType
    <3>3. NoTestLost'
      BY <1>0, <2>1, <2>5, <3>2, Unmoved DEF Goes, TypeOK, ThreadType
    <3> QED BY <3>1, <3>3
  <2> QED BY <1>4, <2>3, <2>4, <2>5 DEF Pop
<1>5. ASSUME NEW d \in Devices, RunTest(d) PROVE (NotStarted /\ HandsEmpty /\ NoTestLost)'
  <2> DEFINE tries == thread[d].test.tries + 1
             group == thread[d].test.group
  <2>1. PICK passed \in SUBSET group :
          LET retry == group \ passed
          IN  IF retry # {} /\ MayRetry(tries)
              THEN /\ results' = results \cup Outcome(d, passed, TRUE, tries)
                   /\ thread' = [thread EXCEPT ![d].pc = "retrying", ![d].test = Test(retry, tries)]
              ELSE /\ results' = results \cup Outcome(d, passed, TRUE, tries)
                                         \cup Outcome(d, retry, FALSE, tries)
                   /\ thread' = [thread EXCEPT ![d].pc = "completing", ![d].test = NoTest]
    BY <1>5 DEF RunTest
  <2>2. thread[d].pc = "running" /\ UNCHANGED <<shard, coll, main>>
    BY <1>5 DEF RunTest
  <2> HIDE DEF tries
  <2>3. \A e \in Devices \ {d} : thread'[e] = thread[e]
    BY <1>0, <2>1 DEF TypeOK
  <2>4. \/ /\ thread'[d].pc = "retrying" /\ thread'[d].test.group = group \ passed
           /\ results' = results \cup Outcome(d, passed, TRUE, tries)
        \/ /\ thread'[d].pc = "completing" /\ thread'[d].test.group = {}
           /\ results' = results \cup Outcome(d, passed, TRUE, tries)
                                 \cup Outcome(d, group \ passed, FALSE, tries)
    <3>1. CASE group \ passed # {} /\ MayRetry(tries)
      <4>1. /\ thread' = [thread EXCEPT ![d].pc = "retrying", ![d].test = Test(group \ passed, tries)]
            /\ results' = results \cup Outcome(d, passed, TRUE, tries)
        BY <2>1, <3>1
      <4> QED BY <1>0, <4>1 DEF TypeOK, ThreadType, Test
    <3>2. CASE ~(group \ passed # {} /\ MayRetry(tries))
      <4>1. /\ thread' = [thread EXCEPT ![d].pc = "completing", ![d].test = NoTest]
            /\ results' = results \cup Outcome(d, passed, TRUE, tries)
                                  \cup Outcome(d, group \ passed, FALSE, tries)
        BY <2>1, <3>2
      <4> QED BY <1>0, <4>1 DEF TypeOK, ThreadType, NoTest, Test
    <3> QED BY <3>1, <3>2
  <2>5. (NotStarted /\ HandsEmpty)'
    <3>1. main.pc # "setup"
      BY <2>2 DEF NotStarted
    <3>2. thread'[d].pc \notin Holding => thread'[d].test.group = {}
      BY <2>4 DEF Holding
    <3> QED BY <2>2, <2>3, <3>1, <3>2 DEF NotStarted, HandsEmpty, Holding
  <2>6. Homes' = Homes /\ \A e \in Devices : Home(e)' = Home(e)
    BY <2>2 DEF Homes, Home
  <2>7. ASSUME NEW t \in group PROVE (Held(Home(d), t) \/ Known(Home(d), t))'
    <3>1. CASE t \in passed
      <4>1. [home |-> Home(d), test |-> t, passed |-> TRUE, tries |-> tries] \in results'
        BY <2>4, <3>1 DEF Outcome
      <4> QED BY <2>6, <4>1 DEF Known
    <3>2. CASE t \notin passed /\ thread'[d].test.group = group \ passed
      BY <2>6, <3>2 DEF Held
    <3>3. CASE /\ t \notin passed
               /\ results' = results \cup Outcome(d, passed, TRUE, tries)
                                     \cup Outcome(d, group \ passed, FALSE, tries)
      <4>1. [home |-> Home(d), test |-> t, passed |-> FALSE, tries |-> tries] \in results'
        BY <3>3 DEF Outcome
      <4> QED BY <2>6, <4>1 DEF Known
    <3> QED BY <2>4, <3>1, <3>2, <3>3
  <2>8. ASSUME NEW h \in Homes, NEW t \in Tests PROVE (Queued(h, t) \/ Held(h, t) \/ Known(h, t))'
    <3>1. CASE Queued(h, t)
      BY <2>2, <3>1 DEF Queued
    <3>2. CASE Held(h, t)
      <4>1. PICK e \in Devices : Home(e) = h /\ t \in thread[e].test.group
        BY <3>2 DEF Held
      <4>2. CASE e = d
        BY <2>6, <2>7, <4>1, <4>2 DEF Held, Known
      <4>3. CASE e # d
        BY <2>3, <2>6, <4>1, <4>3 DEF Held
      <4> QED BY <4>2, <4>3
    <3>3. CASE Known(h, t)
      BY <2>4, <3>3 DEF Known
    <3> QED BY <3>1, <3>2, <3>3, Places
  <2> QED BY <2>5, <2>6, <2>8 DEF NoTestLost, Queued, Held, Known
<1>6. ASSUME NEW d \in Devices, Raise(d) PROVE (NotStarted /\ HandsEmpty /\ NoTestLost)'
  <2>1. PICK e \in Errors : thread' = [thread EXCEPT ![d].pc = "raising", ![d].err = e]
    BY <1>6 DEF Raise
  <2>2. (NotStarted /\ HandsEmpty)'
    BY <1>0, <1>6, <2>1 DEF Raise, NotStarted, HandsEmpty, Holding, TypeOK, ThreadType
  <2>3. \A f \in Devices : thread'[f].test.group = thread[f].test.group
    BY <1>0, <2>1 DEF TypeOK, ThreadType
  <2>4. NoTestLost'
    BY <1>6, <2>3, Unmoved DEF Raise
  <2> QED BY <2>2, <2>4
<1>7. ASSUME NEW d \in Devices, Add(d) PROVE (NotStarted /\ HandsEmpty /\ NoTestLost)'
  <2> DEFINE c == coll[Home(d)]
             test == thread[d].test
  <2>1. c \in CollType /\ test \in TestType /\ Home(d) \in Homes
    BY <1>0, HomeType DEF TypeOK, ThreadType
  <2>2. /\ thread' = [thread EXCEPT ![d].pc = "completing", ![d].test = NoTest]
        /\ coll' = [coll EXCEPT ![Home(d)] = Added(c, test)]
        /\ UNCHANGED <<shard, results, main>> /\ thread[d].pc \in {"retrying", "raising"}
    BY <1>7 DEF Add, Collect, HandedBack
  <2>3. /\ thread'[d].test.group = {} /\ \A e \in Devices \ {d} : thread'[e] = thread[e]
        /\ coll'[Home(d)] = Added(c, test) /\ \A h \in Homes \ {Home(d)} : coll'[h] = coll[h]
    BY <1>0, <2>1, <2>2 DEF TypeOK, ThreadType, NoTest, Test
  <2>4. (NotStarted /\ HandsEmpty)'
    BY <2>2, <2>3 DEF NotStarted, HandsEmpty
  <2>5. Homes' = Homes /\ \A e \in Devices : Home(e)' = Home(e)
    BY <2>2 DEF Homes, Home
  <2>6. ASSUME NEW h \in Homes, NEW t \in Tests PROVE (Queued(h, t) \/ Held(h, t) \/ Known(h, t))'
    <3>1. CASE Queued(h, t) /\ h = Home(d)
      BY <2>1, <2>3, <3>1, AddedQueue DEF Queued
    <3>2. CASE Queued(h, t) /\ h # Home(d)
      BY <2>3, <3>2 DEF Queued
    <3>3. CASE Held(h, t)
      <4>1. PICK e \in Devices : Home(e) = h /\ t \in thread[e].test.group
        BY <3>3 DEF Held
      <4>2. CASE e = d
        BY <2>1, <2>3, <4>1, <4>2, AddedQueue DEF Queued
      <4>3. CASE e # d
        BY <2>3, <2>5, <4>1, <4>3 DEF Held
      <4> QED BY <4>2, <4>3
    <3>4. CASE Known(h, t)
      BY <2>2, <3>4 DEF Known
    <3> QED BY <3>1, <3>2, <3>3, <3>4, Places
  <2> QED BY <2>4, <2>5, <2>6 DEF NoTestLost, Queued, Held, Known
<1>8. ASSUME NEW d \in Devices, TestCompleted(d) PROVE (NotStarted /\ HandsEmpty /\ NoTestLost)'
  <2>1. (NotStarted /\ HandsEmpty)'
    BY <1>0, <1>8 DEF TestCompleted, Goes, NotStarted, HandsEmpty, Holding, TypeOK, ThreadType
  <2>2. \A h \in Homes : coll'[h].queue = coll[h].queue
    BY <1>0, <1>8, HomeType DEF TestCompleted, Collect, Completed, TypeOK, CollType
  <2>3. NoTestLost'
    BY <1>0, <1>8, <2>2, Unmoved DEF TestCompleted, Goes, TypeOK, ThreadType
  <2> QED BY <2>1, <2>3
<1>9. ASSUME TimeOut \/ JoinAll \/ TearDownRunners PROVE (NotStarted /\ HandsEmpty /\ NoTestLost)'
  <2>1. main'.pc # "setup"
    <3>1. CASE TimeOut
      BY <1>0, <3>1 DEF TimeOut, TypeOK, MainType
    <3>2. CASE JoinAll
      <4>1. Aborts => main' = [main EXCEPT !.pc = "teardown", !.how = "raised"]
        BY <3>2 DEF JoinAll
      <4>2. ~Aborts => main'.pc = "teardown"
        BY <3>2 DEF JoinAll
      <4> QED BY <1>0, <4>1, <4>2 DEF TypeOK, MainType
    <3>3. CASE TearDownRunners
      BY <1>0, <3>3 DEF TearDownRunners, TypeOK, MainType
    <3> QED BY <1>9, <3>1, <3>2, <3>3
  <2>2. UNCHANGED <<shard, coll, thread, results>>
    BY <1>9 DEF TimeOut, JoinAll, TearDownRunners
  <2>3. NoTestLost'
    BY <2>2, Unmoved
  <2> QED BY <2>1, <2>2, <2>3 DEF NotStarted, HandsEmpty
<1>10. CASE UNCHANGED vars
  <2>1. NoTestLost'
    BY <1>10, Unmoved DEF vars
  <2> QED BY <1>10, <2>1 DEF vars, NotStarted, HandsEmpty
<1> QED BY <1>1, <1>2, <1>3, <1>4, <1>5, <1>6, <1>7, <1>8, <1>9, <1>10 DEF Next, Device, Main

(* Whatever runners raise, tests fail and threads do, no test is lost: it  *)
(* is in the queue of its collection, with a thread, or has its result     *)
(* (_RunTestsFromQueue hands back what it does not record).                *)
THEOREM NoTestLostHolds == Spec => []NoTestLost
<1>1. Init => IInv
  BY InitType, InitPlaced DEF IInv
<1>2. IInv /\ [Next]_vars => IInv'
  BY NextType, NextPlaced DEF IInv
<1>3. IInv => NoTestLost
  BY DEF IInv
<1> QED BY <1>1, <1>2, <1>3, PTL DEF Spec

-----------------------------------------------------------------------------
(* No thread leaves early. *)

Busy(h) == {d \in Devices : Home(d) = h /\ thread[d].pc \in Holding \cup {"completing"}}

(* What _tests_in_progress counts: the tests in the queue, and the threads *)
(* that have yet to call test_completed.  A thread that left saw it at 0,  *)
(* and nobody is there to change it again.                                 *)
Counted == \A h \in Homes : coll[h].in_progress = Len(coll[h].queue) + Cardinality(Busy(h))
LeftAtZero == \A d \in Devices : thread[d].pc = "done" => coll[Home(d)].in_progress = 0

CInv == TypeOK /\ NotStarted /\ Counted /\ LeftAtZero

LEMMA BusyFinite ==
    ASSUME NEW h
    PROVE  IsFiniteSet(Busy(h)) /\ Cardinality(Busy(h)) \in Nat
<1>1. Busy(h) \subseteq Devices
  BY DEF Busy
<1> QED BY <1>1, FS_Subset, FS_CardinalityType

LEMMA BusyCounts ==
    ASSUME TypeOK, Counted, NEW d \in Devices, d \in Busy(Home(d))
    PROVE  coll[Home(d)].in_progress > 0
<1>1. Home(d) \in Homes
  BY HomeType DEF TypeOK
<1>2. Cardinality(Busy(Home(d))) # 0
  BY BusyFinite, FS_EmptySet
<1>3. Len(coll[Home(d)].queue) \in Nat
  BY <1>1 DEF TypeOK, CollType
<1> QED BY <1>1, <1>2, <1>3, BusyFinite DEF Counted

(* A step that leaves the collections alone and lets no thread become busy,*)
(* stop being busy, or leave.                                              *)
LEMMA Uncounted ==
    ASSUME TypeOK, Counted, LeftAtZero, shard' = shard,
           \A h \in Homes : /\ coll'[h].in_progress = coll[h].in_progress
                            /\ coll'[h].queue = coll[h].queue,
           \A d \in Devices : /\ thread'[d].pc \in Holding \cup {"completing"}
                                  <=> thread[d].pc \in Holding \cup {"completing"}
                              /\ thread'[d].pc = "done" => thread[d].pc = "done"
    PROVE  (Counted /\ LeftAtZero)'
<1>1. Homes' = Homes /\ \A e \in Devices : Home(e)' = Home(e) /\ Home(e) \in Homes
  BY DEF Homes, Home, TypeOK
<1>2. ASSUME NEW h \in Homes PROVE Busy(h)' = Busy(h)
  BY <1>1 DEF Busy
<1>3. Counted'
  BY <1>1, <1>2 DEF Counted
<1>4. LeftAtZero'
  BY <1>1 DEF LeftAtZero
<1> QED BY <1>3, <1>4

LEMMA InitCounted == Init => Counted /\ LeftAtZero
<1> SUFFICES ASSUME Init PROVE Counted /\ LeftAtZero
  OBVIOUS
<1>1. LeftAtZero
  BY DEF Init, LeftAtZero
<1>2. ASSUME NEW h \in Homes PROVE coll[h].in_progress = Len(coll[h].queue) + Cardinality(Busy(h))
  <2>1. PICK q \in Orders :
          coll = [k \in Homes |-> [queue |-> [i \in DOMAIN q |-> Test(q[i], 0)],
                                   in_progress |-> Cardinality(Groups),
                                   signalled |-> Groups # {}]]
    BY DEF Init
  <2>2. Cardinality(Groups) \in Nat
    BY FS_CardinalityType, GroupsAssumption
  <2>3. Busy(h) = {}
    BY DEF Init, Busy, Holding
  <2>4. Len(coll[h].queue) = Cardinality(Groups)
    <3>1. coll[h].queue = [i \in 1 .. Cardinality(Groups) |-> Test(q[i], 0)]
      BY <2>1 DEF Orders
    <3> QED BY <2>2, <3>1
  <2> QED BY <2>1, <2>2, <2>3, <2>4, FS_EmptySet
<1> QED BY <1>1, <1>2 DEF Counted

LEMMA NextCounted == CInv /\ NotStarted' /\ [Next]_vars => (Counted /\ LeftAtZero)'
<1> SUFFICES ASSUME CInv, NotStarted', [Next]_vars PROVE (Counted /\ LeftAtZero)'
  OBVIOUS
<1> USE DEF CInv
<1>0. TypeOK /\ TypeOK'
  BY NextType
<1>1. ASSUME NEW d \in Devices, SetUp(d) \/ Wake(d) PROVE (Counted /\ LeftAtZero)'
  BY <1>0, <1>1, Uncounted DEF SetUp, Wake, Goes, Holding, TypeOK, ThreadType
<1>2. ASSUME StartAll PROVE (Counted /\ LeftAtZero)'
  <2>1. \A e \in Devices :
           /\ thread[e].pc \in {"setup", "ready", "absent", "failed"}
           /\ thread'[e].pc \in {"setup", "ready", "absent", "failed", "waiting"}
    BY <1>0, <1>2 DEF StartAll, NotStarted, TypeOK, ThreadType
  <2> QED BY <1>0, <1>2, <2>1, Uncounted DEF StartAll, Holding
<1>3. ASSUME NEW d \in Devices, Pop(d) PROVE (Counted /\ LeftAtZero)'
  <2> DEFINE c == coll[Home(d)]
  <2>1. /\ c \in CollType /\ Home(d) \in Homes /\ shard' = shard
        /\ thread[d].pc = "popping"
    BY <1>0, <1>3, HomeType DEF Pop, TypeOK
  <2>2. Homes' = Homes /\ \A e \in Devices : Home(e)' = Home(e)
    BY <2>1 DEF Homes, Home
  <2>3. CASE AllHandled(c) /\ Goes(d, "done") /\ UNCHANGED coll
    <3>1. /\ thread'[d].pc = "done"
          /\ \A e \in Devices \ {d} : thread'[e].pc = thread[e].pc
      BY <1>0, <2>3 DEF Goes, TypeOK, ThreadType
    <3>2. \A h \in Homes : Busy(h)' = Busy(h)
      BY <2>1, <2>2, <3>1 DEF Busy, Holding
    <3>3. Counted'
      BY <2>2, <2>3, <3>2 DEF Counted
    <3>4. LeftAtZero'
      BY <2>2, <2>3, <3>1 DEF LeftAtZero, AllHandled
    <3> QED BY <3>3, <3>4
  <2>4. CASE /\ ~AllHandled(c) /\ c.queue # <<>>
             /\ thread' = [thread EXCEPT ![d].pc = "running", ![d].test = Head(c.queue)]
             /\ Collect(d, Popped(c))
    <3>1. /\ thread'[d].pc = "running"
          /\ \A e \in Devices \ {d} : thread'[e] = thread[e]
          /\ coll'[Home(d)] = Popped(c) /\ \A h \in Homes \ {Home(d)} : coll'[h] = coll[h]
      BY <1>0, <2>1, <2>4 DEF TypeOK, ThreadType, Collect
    <3>2. Popped(c).in_progress = c.in_progress /\ Len(Popped(c).queue) = Len(c.queue) - 1
      BY <2>1, <2>4 DEF Popped, CollType
    <3>3. Len(c.queue) \in Nat
      BY <2>1 DEF CollType
    <3>4. /\ d \notin Busy(Home(d))
          /\ \A h \in Homes : Busy(h)' = IF h = Home(d) THEN Busy(h) \cup {d} ELSE Busy(h)
      BY <2>1, <2>2, <3>1 DEF Busy, Holding
    <3>5. Cardinality(Busy(Home(d)) \cup {d}) = Cardinality(Busy(Home(d))) + 1
      BY <3>4, BusyFinite, FS_AddElement
    <3>6. Counted'
      <4>1. ASSUME NEW h \in Homes
            PROVE  coll'[h].in_progress = Len(coll'[h].queue) + Cardinality(Busy(h)')
        <5>1. CASE h = Home(d)
          <6>1. coll'[h].in_progress = c.in_progress /\ Len(coll'[h].queue) = Len(c.queue) - 1
            BY <3>1, <3>2, <5>1
          <6>2. Cardinality(Busy(h)') = Cardinality(Busy(h)) + 1
            BY <3>4, <3>5, <5>1
          <6>3. c.in_progress = Len(c.queue) + Cardinality(Busy(h)) /\ Cardinality(Busy(h)) \in Nat
            BY <5>1, BusyFinite DEF Counted
          <6> HIDE DEF c
          <6> QED BY <3>3, <6>1, <6>2, <6>3
        <5>2. CASE h # Home(d)
          BY <3>1, <3>4, <5>2 DEF Counted
        <5> QED BY <5>1, <5>2
      <4> QED BY <2>2, <4>1 DEF Counted
    <3>7. LeftAtZero'
      BY <2>1, <2>2, <2>4, <3>1, <3>2, HomeType DEF LeftAtZero, AllHandled, TypeOK
    <3> QED BY <3>6, <3>7
  <2>5. CASE ~AllHandled(c) /\ c.queue = <<>> /\ Goes(d, "waiting") /\ Collect(d, AwaitMore(c))
    <3>1. \A h \in Homes : /\ coll'[h].in_progress = coll[h].in_progress
                           /\ coll'[h].queue = coll[h].queue
      BY <1>0, <2>1, <2>5 DEF Collect, AwaitMore, TypeOK, CollType
    <3>2. /\ thread'[d].pc = "waiting" /\ \A e \in Devices \ {d} : thread'[e].pc = thread[e].pc
      BY <1>0, <2>5 DEF Goes, TypeOK, ThreadType
    <3> QED BY <1>0, <2>1, <3>1, <3>2, Uncounted DEF Holding
  <2> QED BY <1>3, <2>3, <2>4, <2>5 DEF Pop
<1>4. ASSUME NEW d \in Devices, RunTest(d) PROVE (Counted /\ LeftAtZero)'
  <2>1. /\ thread[d].pc = "running" /\ UNCHANGED <<shard, coll>>
        /\ thread'[d].pc \in {"retrying", "completing"}
        /\ \A e \in Devices \ {d} : thread'[e] = thread[e]
    <3>1. \E t : \E pc \in {"retrying", "completing"} :
             thread' = [thread EXCEPT ![d].pc = pc, ![d].test = t]
      <4> DEFINE Ran(t, pc) == thread' = [thread EXCEPT ![d].pc = pc, ![d].test = t]
      <4>1. \E passed : \/ Ran(Test(thread[d].test.group \ passed, thread[d].test.tries + 1), "retrying")
                        \/ Ran(NoTest, "completing")
        BY <1>4 DEF RunTest
      <4> HIDE DEF Ran
      <4>2. \E t : \E pc \in {"retrying", "completing"} : Ran(t, pc)
        BY <4>1
      <4> QED BY <4>2 DEF Ran
    <3> QED BY <1>0, <1>4, <3>1 DEF RunTest, TypeOK, ThreadType
  <2> QED BY <1>0, <2>1, Uncounted DEF Holding
<1>5. ASSUME NEW d \in Devices, Raise(d) PROVE (Counted /\ LeftAtZero)'
  <2>1. PICK e \in Errors : thread' = [thread EXCEPT ![d].pc = "raising", ![d].err = e]
    BY <1>5 DEF Raise
  <2>2. /\ thread[d].pc = "running" /\ UNCHANGED <<shard, coll>> /\ thread'[d].pc = "raising"
        /\ \A f \in Devices \ {d} : thread'[f] = thread[f]
    BY <1>0, <1>5, <2>1 DEF Raise, TypeOK, ThreadType
  <2> QED BY <1>0, <2>2, Uncounted DEF Holding
<1>6. ASSUME NEW d \in Devices, Add(d) PROVE (Counted /\ LeftAtZero)'
  <2> DEFINE c == coll[Home(d)]
             test == thread[d].test
  <2>1. c \in CollType /\ test \in TestType /\ Home(d) \in Homes
    BY <1>0, HomeType DEF TypeOK, ThreadType
  <2>2. /\ thread' = [thread EXCEPT ![d].pc = "completing", ![d].test = NoTest]
        /\ coll' = [coll EXCEPT ![Home(d)] = Added(c, test)]
        /\ shard' = shard /\ thread[d].pc \in {"retrying", "raising"}
    BY <1>6 DEF Add, Collect, HandedBack
  <2>3. /\ thread'[d].pc = "completing" /\ \A e \in Devices \ {d} : thread'[e] = thread[e]
        /\ coll'[Home(d)] = Added(c, test) /\ \A h \in Homes \ {Home(d)} : coll'[h] = coll[h]
    BY <1>0, <2>1, <2>2 DEF TypeOK, ThreadType
  <2>4. Homes' = Homes /\ \A e \in Devices : Home(e)' = Home(e)
    BY <2>2 DEF Homes, Home
  <2>5. d \in Busy(Home(d)) /\ \A h \in Homes : Busy(h)' = Busy(h)
    BY <2>2, <2>3, <2>4 DEF Busy, Holding
  <2>6. /\ Added(c, test).in_progress = c.in_progress + 1
        /\ Len(Added(c, test).queue) = Len(c.queue) + 1 /\ Len(c.queue) \in Nat
    BY <2>1 DEF Added, CollType
  <2>7. Counted'
    <3>1. ASSUME NEW h \in Homes
          PROVE  coll'[h].in_progress = Len(coll'[h].queue) + Cardinality(Busy(h)')
      <4>1. CASE h = Home(d)
        <5>1. coll'[h].in_progress = c.in_progress + 1 /\ Len(coll'[h].queue) = Len(c.queue) + 1
          BY <2>3, <2>6, <4>1
        <5>2. c.in_progress = Len(c.queue) + Cardinality(Busy(h)) /\ Cardinality(Busy(h)) \in Nat
          BY <4>1, BusyFinite DEF Counted
        <5> HIDE DEF c
        <5> QED BY <2>5, <2>6, <5>1, <5>2
      <4>2. CASE h # Home(d)
        BY <2>3, <2>5, <4>2 DEF Counted
      <4> QED BY <4>1, <4>2
    <3> QED BY <2>4, <3>1 DEF Counted
  <2>8. ASSUME NEW e \in Devices, thread'[e].pc = "done" PROVE coll'[Home(e)].in_progress = 0
    <3>1. e # d /\ thread[e].pc = "done"
      BY <2>3, <2>8
    <3>2. coll[Home(e)].in_progress = 0
      BY <3>1 DEF LeftAtZero
    <3>3. Home(e) # Home(d)
      BY <1>0, <2>5, <3>2, BusyCounts
    <3> QED BY <1>0, <2>3, <3>2, <3>3, HomeType DEF TypeOK
  <2> QED BY <2>4, <2>7, <2>8 DEF LeftAtZero
<1>7. ASSUME NEW d \in Devices, TestCompleted(d) PROVE (Counted /\ LeftAtZero)'
  <2> DEFINE c == coll[Home(d)]
  <2>1. c \in CollType /\ Home(d) \in Homes
    BY <1>0, HomeType DEF TypeOK
  <2>2. /\ coll' = [coll EXCEPT ![Home(d)] = Completed(c)]
        /\ shard' = shard /\ thread[d].pc = "completing"
        /\ thread'[d].pc \in {"waiting", "raised"}
        /\ \A e \in Devices \ {d} : thread'[e] = thread[e]
    BY <1>0, <1>7 DEF TestCompleted, Collect, Goes, TypeOK, ThreadType
  <2>3. coll'[Home(d)] = Completed(c) /\ \A h \in Homes \ {Home(d)} : coll'[h] = coll[h]
    BY <1>0, <2>1, <2>2 DEF TypeOK
  <2>4. Homes' = Homes /\ \A e \in Devices : Home(e)' = Home(e)
    BY <2>2 DEF Homes, Home
  <2>5. /\ d \in Busy(Home(d))
        /\ \A h \in Homes : Busy(h)' = IF h = Home(d) THEN Busy(h) \ {d} ELSE Busy(h)
    BY <2>2, <2>4 DEF Busy, Holding
  <2>6. Cardinality(Busy(Home(d)) \ {d}) = Cardinality(Busy(Home(d))) - 1
    BY <2>5, BusyFinite, FS_RemoveElement
  <2>7. /\ Completed(c).in_progress = c.in_progress - 1
        /\ Completed(c).queue = c.queue /\ Len(c.queue) \in Nat
    BY <2>1 DEF Completed, CollType
  <2>8. Counted'
    <3>1. ASSUME NEW h \in Homes
          PROVE  coll'[h].in_progress = Len(coll'[h].queue) + Cardinality(Busy(h)')
      <4>1. CASE h = Home(d)
        <5>1. coll'[h].in_progress = c.in_progress - 1 /\ Len(coll'[h].queue) = Len(c.queue)
          <6>1. coll'[h] = Completed(c)
            BY <2>3, <4>1
          <6> HIDE DEF c
          <6> QED BY <2>7, <6>1
        <5>2. Cardinality(Busy(h)') = Cardinality(Busy(h)) - 1
          BY <2>5, <2>6, <4>1
        <5>3. c.in_progress = Len(c.queue) + Cardinality(Busy(h)) /\ Cardinality(Busy(h)) \in Nat
          BY <4>1, BusyFinite DEF Counted
        <5> HIDE DEF c
        <5> QED BY <2>7, <5>1, <5>2, <5>3
      <4>2. CASE h # Home(d)
        BY <2>3, <2>5, <4>2 DEF Counted
      <4> QED BY <4>1, <4>2
    <3> QED BY <2>4, <3>1 DEF Counted
  <2>9. ASSUME NEW e \in Devices, thread'[e].pc = "done" PROVE coll'[Home(e)].in_progress = 0
    <3>1. e # d /\ thread[e].pc = "done"
      BY <2>2, <2>9
    <3>2. coll[Home(e)].in_progress = 0
      BY <3>1 DEF LeftAtZero
    <3>3. Home(e) # Home(d)
      BY <1>0, <2>5, <3>2, BusyCounts
    <3> QED BY <1>0, <2>3, <3>2, <3>3, HomeType DEF TypeOK
  <2> QED BY <2>4, <2>8, <2>9 DEF LeftAtZero
<1>8. ASSUME TimeOut \/ JoinAll \/ TearDownRunners \/ UNCHANGED vars PROVE (Counted /\ LeftAtZero)'
  <2>1. UNCHANGED <<shard, coll, thread>>
    BY <1>8 DEF TimeOut, JoinAll, TearDownRunners, vars
  <2> QED BY <1>0, <2>1, Uncounted
<1> QED BY <1>1, <1>2, <1>3, <1>4, <1>5, <1>6, <1>7, <1>8 DEF Next, Device, Main

(* A thread that leaves leaves nothing behind: the queue is empty, and no  *)
(* other thread has a test it could still hand back (_pop and              *)
(* test_completed, under whatever interleaving of the threads).            *)
THEOREM LeavesWhenAllDoneHolds == Spec => []LeavesWhenAllDone
<1>1. Init => IInv /\ CInv
  BY InitType, InitPlaced, InitCounted DEF IInv, CInv
<1>2. IInv /\ CInv /\ [Next]_vars => (IInv /\ CInv)'
  BY NextType, NextPlaced, NextCounted DEF IInv, CInv
<1>3. CInv => LeavesWhenAllDone
  <2> SUFFICES ASSUME CInv, NEW d \in Devices, thread[d].pc = "done"
               PROVE  /\ coll[Home(d)].queue = <<>>
                      /\ \A e \in Devices : Home(e) = Home(d) => thread[e].pc \notin Holding
    BY DEF LeavesWhenAllDone
  <2>1. Home(d) \in Homes /\ coll[Home(d)].queue \in Seq(TestType)
    BY HomeType DEF CInv, TypeOK, CollType
  <2>2. 0 = Len(coll[Home(d)].queue) + Cardinality(Busy(Home(d)))
    BY <2>1 DEF CInv, Counted, LeftAtZero
  <2>3. Len(coll[Home(d)].queue) = 0 /\ Cardinality(Busy(Home(d))) = 0
    BY <2>1, <2>2, BusyFinite
  <2>4. Busy(Home(d)) = {}
    BY <2>3, BusyFinite, FS_EmptySet
  <2> QED BY <2>1, <2>3, <2>4 DEF Busy
<1> QED BY <1>1, <1>2, <1>3, PTL DEF Spec

-----------------------------------------------------------------------------
(* The verdict. *)

(* Where a test of a collection can be. *)
InQueue(h, t, i) == i \in DOMAIN coll[h].queue /\ t \in coll[h].queue[i].group
InHand(h, t, d) == d \in Devices /\ Home(d) = h /\ t \in thread[d].test.group
InResults(h, t, r) == r \in results /\ r.home = h /\ r.test = t

(* It is in one place only. *)
Once(h, t) ==
    /\ \A i, j : InQueue(h, t, i) /\ InQueue(h, t, j) => i = j
    /\ \A d, e : InHand(h, t, d) /\ InHand(h, t, e) => d = e
    /\ \A r, s : InResults(h, t, r) /\ InResults(h, t, s) => r = s
    /\ \A i : InQueue(h, t, i) => /\ \A d : ~InHand(h, t, d)
                                  /\ \A r : ~InResults(h, t, r)
    /\ \A d : InHand(h, t, d) => \A r : ~InResults(h, t, r)

EachOnce == \A h \in Homes, t \in Tests : Once(h, t)

(* No group that is still to run is empty. *)
GroupsLeft ==
    /\ \A h \in Homes : \A i \in DOMAIN coll[h].queue : coll[h].queue[i].group # {}
    /\ \A d \in Devices : thread[d].pc \in Holding => thread[d].test.group # {}

(* Only runners' threads run tests, and a failure is recorded after the    *)
(* last retry.                                                             *)
RunnersRun == \A d \in Devices : thread[d].pc \notin {"setup", "absent", "failed"} => d \in Running
RecordsHonest ==
    \A r \in results : r.home \in Used /\ (~r.passed => r.tries = NumRetries + 1)

(* Once RunTests has its result, no thread can change what it is about.    *)
ReturnStands ==
    /\ main.pc \in {"setup", "running"} => main.how = None
    /\ main.how = "returned" =>
          /\ \A d \in Running : Ended(d)
          /\ main.unknown = Leftovers
          /\ main.pass <=> DidRunPass

(* Tests are run only when every SetUp has ended without an exception      *)
(* other than that of an unreachable device.                               *)
AllSetUp ==
    main.pc = "running" \/ main.how = "returned" =>
        \A d \in Devices : thread[d].pc \notin {"setup", "failed"}

VInv == EachOnce /\ GroupsLeft /\ RunnersRun /\ RecordsHonest /\ ReturnStands /\ AllSetUp

(* The three ways a test moves, and none.                                  *)
LEMMA OnceStays ==
    ASSUME NEW h, NEW t, Once(h, t),
           \A i : InQueue(h, t, i)' => InQueue(h, t, i),
           \A d : InHand(h, t, d)' => InHand(h, t, d),
           \A r : InResults(h, t, r)' => InResults(h, t, r)
    PROVE  Once(h, t)'
BY DEF Once

LEMMA OncePopped ==
    ASSUME NEW h, NEW t, NEW d, Once(h, t),
           \A i : InQueue(h, t, i)' => i \in Nat \ {0} /\ InQueue(h, t, i + 1),
           \A e : InHand(h, t, e)' => InHand(h, t, e) \/ (e = d /\ InQueue(h, t, 1)),
           \A r : InResults(h, t, r)' => InResults(h, t, r)
    PROVE  Once(h, t)'
<1>1. \A i, j : InQueue(h, t, i)' /\ InQueue(h, t, j)' => i = j
  BY DEF Once
<1>2. \A e, f : InHand(h, t, e)' /\ InHand(h, t, f)' => e = f
  BY DEF Once
<1>3. \A r, s : InResults(h, t, r)' /\ InResults(h, t, s)' => r = s
  BY DEF Once
<1>4. \A i : InQueue(h, t, i)' => /\ \A e : ~InHand(h, t, e)'
                                  /\ \A r : ~InResults(h, t, r)'
  BY DEF Once
<1>5. \A e : InHand(h, t, e)' => \A r : ~InResults(h, t, r)'
  BY DEF Once
<1> QED BY <1>1, <1>2, <1>3, <1>4, <1>5 DEF Once

LEMMA OnceRecorded ==
    ASSUME NEW h, NEW t, NEW d, NEW n, Once(h, t),
           \A i : InQueue(h, t, i)' => InQueue(h, t, i),
           \A e : InHand(h, t, e)' => InHand(h, t, e),
           \A r : InResults(h, t, r)' =>
              InResults(h, t, r) \/ (r = n /\ InHand(h, t, d) /\ ~InHand(h, t, d)')
    PROVE  Once(h, t)'
<1>1. \A e, f : InHand(h, t, e)' /\ InHand(h, t, f)' => e = f
  BY DEF Once
<1>2. \A r, s : InResults(h, t, r)' /\ InResults(h, t, s)' => r = s
  BY DEF Once
<1>3. \A i : InQueue(h, t, i)' => /\ \A e : ~InHand(h, t, e)'
                                  /\ \A r : ~InResults(h, t, r)'
  BY DEF Once
<1>4. \A e : InHand(h, t, e)' => \A r : ~InResults(h, t, r)'
  BY DEF Once
<1>5. \A i, j : InQueue(h, t, i)' /\ InQueue(h, t, j)' => i = j
  BY DEF Once
<1> QED BY <1>1, <1>2, <1>3, <1>4, <1>5 DEF Once

LEMMA OnceAdded ==
    ASSUME NEW h, NEW t, NEW d, NEW n, Once(h, t),
           \A i : InQueue(h, t, i)' => InQueue(h, t, i) \/ (i = n /\ InHand(h, t, d)),
           \A e : InHand(h, t, e)' => InHand(h, t, e) /\ e # d,
           \A r : InResults(h, t, r)' => InResults(h, t, r)
    PROVE  Once(h, t)'
<1>1. \A i, j : InQueue(h, t, i)' /\ InQueue(h, t, j)' => i = j
  BY DEF Once
<1>2. \A e, f : InHand(h, t, e)' /\ InHand(h, t, f)' => e = f
  BY DEF Once
<1>3. \A r, s : InResults(h, t, r)' /\ InResults(h, t, s)' => r = s
  BY DEF Once
<1>4. \A i : InQueue(h, t, i)' => /\ \A e : ~InHand(h, t, e)'
                                  /\ \A r : ~InResults(h, t, r)'
  BY DEF Once
<1>5. \A e : InHand(h, t, e)' => \A r : ~InResults(h, t, r)'
  BY DEF Once
<1> QED BY <1>1, <1>2, <1>3, <1>4, <1>5 DEF Once

(* A step that moves no test, or only drops some from where they are.      *)
LEMMA OnceUnmoved ==
    ASSUME EachOnce, shard' = shard, results' = results,
           \A h \in Homes : coll'[h].queue = coll[h].queue,
           \A d \in Devices : thread'[d].test.group = thread[d].test.group
    PROVE  EachOnce'
<1>1. Homes' = Homes /\ \A d \in Devices : Home(d)' = Home(d)
  BY DEF Homes, Home
<1>2. ASSUME NEW h \in Homes, NEW t \in Tests PROVE Once(h, t)'
  <2>1. Once(h, t)
    BY DEF EachOnce
  <2>2. /\ \A i : InQueue(h, t, i)' => InQueue(h, t, i)
        /\ \A d : InHand(h, t, d)' => InHand(h, t, d)
        /\ \A r : InResults(h, t, r)' => InResults(h, t, r)
    BY <1>1 DEF InQueue, InHand, InResults
  <2> QED BY <2>1, <2>2, OnceStays
<1> QED BY <1>1, <1>2 DEF EachOnce

(* At first every test is in one group, and every group at one place.      *)
LEMMA OrdersInjective ==
    ASSUME NEW q \in Orders
    PROVE  /\ DOMAIN q = 1 .. Cardinality(Groups)
           /\ \A i, j \in DOMAIN q : q[i] = q[j] => i = j
<1> DEFINE S == 1 .. Cardinality(Groups)
<1>1. IsFiniteSet(Groups) /\ Cardinality(Groups) \in Nat
  BY FS_CardinalityType, GroupsAssumption
<1>2. q \in [S -> Groups] /\ \A g \in Groups : \E i \in S : q[i] = g
  BY DEF Orders
<1>3. IsFiniteSet(S) /\ Cardinality(S) = Cardinality(Groups)
  <2>1. /\ IsFiniteSet(1 .. Cardinality(Groups))
        /\ Cardinality(1 .. Cardinality(Groups)) =
              IF 1 > Cardinality(Groups) THEN 0 ELSE Cardinality(Groups) - 1 + 1
    BY <1>1, FS_Interval
  <2> QED BY <1>1, <2>1
<1> HIDE DEF S
<1>4. q \in Surjection(S, Groups)
  BY <1>2 DEF Surjection
<1>5. q \in Injection(S, Groups)
  BY <1>3, <1>4, FS_SurjSameCardinalityImpliesInj
<1> QED BY <1>2, <1>5 DEF Injection, IsInjective, S

LEMMA InitVerdict == Init => VInv
<1> SUFFICES ASSUME Init PROVE VInv
  OBVIOUS
<1>1. PICK q \in Orders :
          coll = [h \in Homes |-> [queue |-> [i \in DOMAIN q |-> Test(q[i], 0)],
                                   in_progress |-> Cardinality(Groups),
                                   signalled |-> Groups # {}]]
  BY DEF Init
<1>2. /\ \A i, j \in DOMAIN q : q[i] = q[j] => i = j
      /\ \A i \in DOMAIN q : q[i] \in Groups
  BY OrdersInjective DEF Orders
<1>3. ASSUME NEW h \in Homes
      PROVE  /\ DOMAIN coll[h].queue = DOMAIN q
             /\ \A i \in DOMAIN q : coll[h].queue[i].group = q[i]
  <2>1. coll[h].queue = [k \in DOMAIN q |-> Test(q[k], 0)]
    BY <1>1
  <2> QED BY <2>1 DEF Test
<1>4. /\ \A d \in Devices : thread[d].test.group = {} /\ thread[d].pc = "setup"
      /\ results = {} /\ main.pc = "setup" /\ main.how = None
  BY DEF Init, NoTest, Test
<1>5. ASSUME NEW h \in Homes, NEW t \in Tests PROVE Once(h, t)
  <2>1. \A d, r : ~InHand(h, t, d) /\ ~InResults(h, t, r)
    BY <1>4 DEF InHand, InResults
  <2>2. ASSUME NEW i, NEW j, InQueue(h, t, i), InQueue(h, t, j) PROVE i = j
    <3>1. i \in DOMAIN q /\ j \in DOMAIN q /\ t \in q[i] /\ t \in q[j]
      BY <1>3, <2>2 DEF InQueue
    <3>2. q[i] = q[j]
      BY <1>2, <3>1, GroupsAssumption
    <3> QED BY <1>2, <3>1, <3>2
  <2> QED BY <2>1, <2>2 DEF Once
<1>6. GroupsLeft
  <2>1. ASSUME NEW i \in DOMAIN q PROVE q[i] # {}
    <3>1. q[i] \in Groups /\ {} \notin Groups
      BY <1>2, GroupsAssumption
    <3> QED BY <3>1
  <2>2. \A h \in Homes : \A i \in DOMAIN coll[h].queue : coll[h].queue[i].group # {}
    BY <1>3, <2>1
  <2> QED BY <1>4, <2>2 DEF GroupsLeft, Holding
<1>7. RunnersRun /\ RecordsHonest
  BY <1>4 DEF RunnersRun, RecordsHonest
<1>8. ReturnStands /\ AllSetUp
  BY <1>4 DEF ReturnStands, AllSetUp, None
<1> QED BY <1>5, <1>6, <1>7, <1>8 DEF VInv, EachOnce

(* Every test stays in one place.                                          *)
LEMMA NextOnce == IInv /\ EachOnce /\ [Next]_vars => EachOnce'
<1> SUFFICES ASSUME IInv, EachOnce, [Next]_vars PROVE EachOnce'
  OBVIOUS
<1>0. TypeOK /\ HandsEmpty /\ NotStarted
  BY DEF IInv
<1>1. ASSUME NEW d \in Devices, SetUp(d) \/ Wake(d) \/ Raise(d) PROVE EachOnce'
  <2>1. \A e \in Devices : thread'[e].test.group = thread[e].test.group
    <3>1. \/ \E pc : thread' = [thread EXCEPT ![d].pc = pc]
          \/ \E e : thread' = [thread EXCEPT ![d].pc = "raising", ![d].err = e]
      BY <1>1 DEF SetUp, Wake, Raise, Goes
    <3> QED BY <1>0, <3>1 DEF TypeOK, ThreadType
  <2>2. UNCHANGED <<shard, coll, results>>
    BY <1>1 DEF SetUp, Wake, Raise
  <2> QED BY <2>1, <2>2, OnceUnmoved
<1>2. ASSUME StartAll PROVE EachOnce'
  <2>1. \A e \in Devices : thread'[e].test.group = thread[e].test.group
    BY <1>0, <1>2 DEF StartAll, TypeOK, ThreadType
  <2> QED BY <1>2, <2>1, OnceUnmoved DEF StartAll
<1>3. ASSUME NEW d \in Devices, Pop(d) PROVE EachOnce'
  <2> DEFINE c == coll[Home(d)]
             q == c.queue
  <2>1. c \in CollType /\ Home(d) \in Homes /\ shard' = shard /\ results' = results
    BY <1>0, <1>3, HomeType DEF Pop, TypeOK
  <2>2. thread[d].test.group = {}
    BY <1>0, <1>3 DEF Pop, HandsEmpty, Holding
  <2>3. CASE AllHandled(c) /\ Goes(d, "done") /\ UNCHANGED coll
    BY <1>0, <2>1, <2>3, OnceUnmoved DEF Goes, TypeOK, ThreadType
  <2>4. CASE /\ ~AllHandled(c) /\ c.queue # <<>>
             /\ thread' = [thread EXCEPT ![d].pc = "running", ![d].test = Head(c.queue)]
             /\ Collect(d, Popped(c))
    <3>1. /\ thread'[d].test = Head(q)
          /\ \A e \in Devices \ {d} : thread'[e] = thread[e]
      BY <1>0, <2>4 DEF TypeOK, ThreadType
    <3>2. coll'[Home(d)].queue = Tail(q) /\ \A h \in Homes \ {Home(d)} : coll'[h] = coll[h]
      BY <1>0, <2>1, <2>4 DEF Collect, TypeOK, Popped, CollType
    <3>3. Homes' = Homes /\ \A e \in Devices : Home(e)' = Home(e)
      BY <2>1 DEF Homes, Home
    <3>4. q \in Seq(TestType) /\ q # <<>>
      BY <2>1, <2>4 DEF CollType
    <3> HIDE DEF q
    <3>5. /\ 1 \in DOMAIN q /\ Head(q) = q[1]
          /\ \A i \in DOMAIN Tail(q) :
                i \in Nat \ {0} /\ i + 1 \in DOMAIN q /\ Tail(q)[i] = q[i + 1]
      BY <3>4
    <3>6. ASSUME NEW h \in Homes, NEW t \in Tests PROVE Once(h, t)'
      <4>1. Once(h, t)
        BY DEF EachOnce
      <4>2. \A r : InResults(h, t, r)' => InResults(h, t, r)
        BY <2>1 DEF InResults
      <4>3. CASE h = Home(d)
        <5>1. \A i : InQueue(h, t, i)' => i \in Nat \ {0} /\ InQueue(h, t, i + 1)
          BY <3>2, <3>5, <4>3 DEF InQueue, q
        <5>2. \A e : InHand(h, t, e)' => InHand(h, t, e) \/ (e = d /\ InQueue(h, t, 1))
          BY <3>1, <3>3, <3>5, <4>3 DEF InHand, InQueue, q
        <5> QED BY <4>1, <4>2, <5>1, <5>2, OncePopped
      <4>4. CASE h # Home(d)
        <5>1. \A i : InQueue(h, t, i)' => InQueue(h, t, i)
          BY <3>2, <4>4 DEF InQueue
        <5>2. \A e : InHand(h, t, e)' => InHand(h, t, e)
          BY <3>1, <3>3, <4>4 DEF InHand
        <5> QED BY <4>1, <4>2, <5>1, <5>2, OnceStays
      <4> QED BY <4>3, <4>4
    <3> QED BY <3>3, <3>6 DEF EachOnce
  <2>5. CASE ~AllHandled(c) /\ c.queue = <<>> /\ Goes(d, "waiting") /\ Collect(d, AwaitMore(c))
    <3>1. \A h \in Homes : coll'[h].queue = coll[h].queue
      BY <1>0, <2>1, <2>5 DEF Collect, AwaitMore, TypeOK, CollType
    <3> QED BY <1>0, <2>1, <2>5, <3>1, OnceUnmoved DEF Goes, TypeOK, ThreadType
  <2> QED BY <1>3, <2>3, <2>4, <2>5 DEF Pop
<1>4. ASSUME NEW d \in Devices, RunTest(d) PROVE EachOnce'
  <2>1. PICK tries : tries = thread[d].test.tries + 1
    OBVIOUS
  <2>2. PICK group : group = thread[d].test.group
    OBVIOUS
  <2>3. PICK passed \in SUBSET group :
          LET retry == group \ passed
          IN  IF retry # {} /\ MayRetry(tries)
              THEN /\ results' = results \cup Outcome(d, passed, TRUE, tries)
                   /\ thread' = [thread EXCEPT ![d].pc = "retrying", ![d].test = Test(retry, tries)]
              ELSE /\ results' = results \cup Outcome(d, passed, TRUE, tries)
                                         \cup Outcome(d, retry, FALSE, tries)
                   /\ thread' = [thread EXCEPT ![d].pc = "completing", ![d].test = NoTest]
    BY <1>4, <2>1, <2>2 DEF RunTest
  <2>4. UNCHANGED <<shard, coll>> /\ \A e \in Devices \ {d} : thread'[e] = thread[e]
    BY <1>0, <1>4, <2>3 DEF RunTest, TypeOK
  <2>5. Homes' = Homes /\ \A e \in Devices : Home(e)' = Home(e)
    BY <2>4 DEF Homes, Home
  <2>6. \/ /\ thread'[d].test.group = group \ passed
           /\ results' = results \cup Outcome(d, passed, TRUE, tries)
        \/ /\ thread'[d].test.group = {}
           /\ results' = results \cup Outcome(d, passed, TRUE, tries)
                                 \cup Outcome(d, group \ passed, FALSE, tries)
    <3>1. CASE group \ passed # {} /\ MayRetry(tries)
      <4>1. /\ thread' = [thread EXCEPT ![d].pc = "retrying", ![d].test = Test(group \ passed, tries)]
            /\ results' = results \cup Outcome(d, passed, TRUE, tries)
        BY <2>3, <3>1
      <4> QED BY <1>0, <4>1 DEF TypeOK, ThreadType, Test
    <3>2. CASE ~(group \ passed # {} /\ MayRetry(tries))
      <4>1. /\ thread' = [thread EXCEPT ![d].pc = "completing", ![d].test = NoTest]
            /\ results' = results \cup Outcome(d, passed, TRUE, tries)
                                  \cup Outcome(d, group \ passed, FALSE, tries)
        BY <2>3, <3>2
      <4> QED BY <1>0, <4>1 DEF TypeOK, ThreadType, NoTest, Test
    <3> QED BY <3>1, <3>2
  <2>7. ASSUME NEW h \in Homes, NEW t \in Tests PROVE Once(h, t)'
    <3>1. Once(h, t)
      BY DEF EachOnce
    <3>2. \A i : InQueue(h, t, i)' => InQueue(h, t, i)
      BY <2>4 DEF InQueue
    <3>3. thread'[d].test.group \subseteq group
      BY <2>6
    <3>4. \A e : InHand(h, t, e)' => InHand(h, t, e)
      BY <2>2, <2>4, <2>5, <3>3 DEF InHand
    <3>5. PICK n : n = [home |-> Home(d), test |-> t, passed |-> t \in passed, tries |-> tries]
      OBVIOUS
    <3>6. ASSUME NEW r, InResults(h, t, r)', ~InResults(h, t, r)
          PROVE  /\ r = n /\ h = Home(d) /\ t \in group /\ t \notin thread'[d].test.group
      <4>1. r \in results' /\ r \notin results /\ r.home = h /\ r.test = t
        BY <3>6 DEF InResults
      <4>2. CASE r \in Outcome(d, passed, TRUE, tries)
        <5>1. r = [home |-> Home(d), test |-> t, passed |-> TRUE, tries |-> tries]
              /\ t \in passed /\ h = Home(d)
          BY <4>1, <4>2 DEF Outcome
        <5>2. t \in group /\ t \notin thread'[d].test.group
          BY <2>2, <2>6, <5>1
        <5>3. (t \in passed) = TRUE
          BY <5>1
        <5> QED BY <3>5, <5>1, <5>2, <5>3
      <4>3. CASE r \in Outcome(d, group \ passed, FALSE, tries) /\ thread'[d].test.group = {}
        <5>1. r = [home |-> Home(d), test |-> t, passed |-> FALSE, tries |-> tries]
              /\ t \in group \ passed /\ h = Home(d)
          BY <4>1, <4>3 DEF Outcome
        <5>2. (t \in passed) = FALSE
          BY <5>1
        <5> QED BY <3>5, <4>3, <5>1, <5>2
      <4> QED BY <2>6, <4>1, <4>2, <4>3
    <3>7. \A r : InResults(h, t, r)' =>
             InResults(h, t, r) \/ (r = n /\ InHand(h, t, d) /\ ~InHand(h, t, d)')
      BY <2>2, <2>5, <3>6 DEF InHand
    <3> QED BY <3>1, <3>2, <3>4, <3>7, OnceRecorded
  <2> QED BY <2>5, <2>7 DEF EachOnce
<1>5. ASSUME NEW d \in Devices, Add(d) PROVE EachOnce'
  <2> DEFINE c == coll[Home(d)]
             q == c.queue
  <2>1. PICK test : test = thread[d].test
    OBVIOUS
  <2>2. c \in CollType /\ test \in TestType /\ Home(d) \in Homes
    BY <1>0, <2>1, HomeType DEF TypeOK, ThreadType
  <2>3. /\ thread' = [thread EXCEPT ![d].pc = "completing", ![d].test = NoTest]
        /\ coll' = [coll EXCEPT ![Home(d)] = Added(c, test)]
        /\ UNCHANGED <<shard, results>>
    BY <1>5, <2>1 DEF Add, Collect, HandedBack
  <2>4. /\ thread'[d].test.group = {} /\ \A e \in Devices \ {d} : thread'[e] = thread[e]
        /\ coll'[Home(d)].queue = Append(q, test)
        /\ \A h \in Homes \ {Home(d)} : coll'[h] = coll[h]
    BY <1>0, <2>2, <2>3 DEF TypeOK, ThreadType, NoTest, Test, Added
  <2>5. Homes' = Homes /\ \A e \in Devices : Home(e)' = Home(e)
    BY <2>3 DEF Homes, Home
  <2>6. q \in Seq(TestType)
    BY <2>2 DEF CollType
  <2> HIDE DEF q
  <2>7. PICK n : n = Len(q) + 1
    OBVIOUS
  <2>8. \A i \in DOMAIN Append(q, test) :
          \/ i \in DOMAIN q /\ Append(q, test)[i] = q[i]
          \/ i = n /\ Append(q, test)[i] = test
    BY <2>2, <2>6, <2>7
  <2>9. ASSUME NEW h \in Homes, NEW t \in Tests PROVE Once(h, t)'
    <3>1. Once(h, t)
      BY DEF EachOnce
    <3>2. \A r : InResults(h, t, r)' => InResults(h, t, r)
      BY <2>3 DEF InResults
    <3>3. \A e : InHand(h, t, e)' => InHand(h, t, e) /\ e # d
      BY <2>4, <2>5 DEF InHand
    <3>4. \A i : InQueue(h, t, i)' => InQueue(h, t, i) \/ (i = n /\ InHand(h, t, d))
      <4>1. CASE h = Home(d)
        BY <2>1, <2>4, <2>8, <4>1 DEF InQueue, InHand, q
      <4>2. CASE h # Home(d)
        BY <2>4, <4>2 DEF InQueue
      <4> QED BY <4>1, <4>2
    <3> QED BY <3>1, <3>2, <3>3, <3>4, OnceAdded
  <2> QED BY <2>5, <2>9 DEF EachOnce
<1>6. ASSUME NEW d \in Devices, TestCompleted(d) PROVE EachOnce'
  <2>1. \A h \in Homes : coll'[h].queue = coll[h].queue
    BY <1>0, <1>6, HomeType DEF TestCompleted, Collect, Completed, TypeOK, CollType
  <2> QED BY <1>0, <1>6, <2>1, OnceUnmoved DEF TestCompleted, Goes, TypeOK, ThreadType
<1>7. CASE TimeOut \/ JoinAll \/ TearDownRunners \/ UNCHANGED vars
  <2>1. UNCHANGED <<shard, coll, thread, results>>
    BY <1>7 DEF TimeOut, JoinAll, TearDownRunners, vars
  <2> QED BY <2>1, OnceUnmoved
<1> QED BY <1>1, <1>2, <1>3, <1>4, <1>5, <1>6, <1>7 DEF Next, Device, Main

(* A group that is to be tried again holds what did not pass.              *)
LEMMA NextGroups == IInv /\ GroupsLeft /\ [Next]_vars => GroupsLeft'
<1> SUFFICES ASSUME IInv, GroupsLeft, [Next]_vars PROVE GroupsLeft'
  OBVIOUS
<1>0. TypeOK /\ NotStarted
  BY DEF IInv
<1>1. shard' = shard /\ Homes' = Homes
  <2>1. shard' = shard
    BY DEF Next, Main, Device, SetUp, StartAll, Wake, Pop, RunTest, Raise, Add, TestCompleted,
           TimeOut, JoinAll, TearDownRunners, vars
  <2> QED BY <2>1 DEF Homes
<1>2. ASSUME NEW d \in Devices, SetUp(d) \/ Wake(d) \/ Raise(d) PROVE GroupsLeft'
  <2>1. coll' = coll
    BY <1>2 DEF SetUp, Wake, Raise
  <2>2. \A e \in Devices : /\ thread'[e].test = thread[e].test
                           /\ thread'[e].pc \in Holding => thread[e].pc \in Holding
    <3>1. CASE SetUp(d)
      BY <1>0, <3>1 DEF SetUp, Goes, Holding, TypeOK, ThreadType
    <3>2. CASE Wake(d)
      BY <1>0, <3>2 DEF Wake, Goes, Holding, TypeOK, ThreadType
    <3>3. CASE Raise(d)
      BY <1>0, <3>3 DEF Raise, Holding, TypeOK, ThreadType
    <3> QED BY <1>2, <3>1, <3>2, <3>3
  <2> QED BY <1>1, <2>1, <2>2 DEF GroupsLeft
<1>3. CASE StartAll
  <2>1. coll' = coll
    BY <1>3 DEF StartAll
  <2>2. \A e \in Devices : /\ thread'[e].test = thread[e].test
                           /\ thread'[e].pc \in Holding => thread[e].pc \in Holding
    BY <1>0, <1>3 DEF StartAll, Holding, TypeOK, ThreadType
  <2> QED BY <1>1, <2>1, <2>2 DEF GroupsLeft
<1>4. ASSUME NEW d \in Devices, Pop(d) PROVE GroupsLeft'
  <2> DEFINE c == coll[Home(d)]
             q == c.queue
  <2>1. c \in CollType /\ Home(d) \in Homes
    BY <1>0, HomeType DEF TypeOK
  <2>2. CASE AllHandled(c) /\ Goes(d, "done") /\ UNCHANGED coll
    <3>1. \A e \in Devices : /\ thread'[e].test = thread[e].test
                             /\ thread'[e].pc \in Holding => thread[e].pc \in Holding
      BY <1>0, <2>2 DEF Goes, Holding, TypeOK, ThreadType
    <3> QED BY <1>1, <2>2, <3>1 DEF GroupsLeft
  <2>3. CASE /\ ~AllHandled(c) /\ c.queue # <<>>
             /\ thread' = [thread EXCEPT ![d].pc = "running", ![d].test = Head(c.queue)]
             /\ Collect(d, Popped(c))
    <3>1. /\ thread'[d].test = Head(q)
          /\ \A e \in Devices \ {d} : thread'[e] = thread[e]
      BY <1>0, <2>3 DEF TypeOK, ThreadType
    <3>2. coll'[Home(d)].queue = Tail(q) /\ \A h \in Homes \ {Home(d)} : coll'[h] = coll[h]
      BY <1>0, <2>1, <2>3 DEF Collect, TypeOK, Popped, CollType
    <3>3. \A i \in DOMAIN q : q[i].group # {}
      BY <2>1 DEF GroupsLeft
    <3>4. q \in Seq(TestType) /\ q # <<>>
      BY <2>1, <2>3 DEF CollType
    <3> HIDE DEF q
    <3>5. /\ 1 \in DOMAIN q /\ Head(q) = q[1]
          /\ \A i \in DOMAIN Tail(q) : i + 1 \in DOMAIN q /\ Tail(q)[i] = q[i + 1]
      BY <3>4
    <3>6. thread'[d].test.group # {}
      BY <3>1, <3>3, <3>5
    <3>7. \A i \in DOMAIN Tail(q) : Tail(q)[i].group # {}
      BY <3>3, <3>5
    <3>8. \A h \in Homes : \A i \in DOMAIN coll'[h].queue : coll'[h].queue[i].group # {}
      BY <3>2, <3>7 DEF GroupsLeft
    <3>9. \A e \in Devices : thread'[e].pc \in Holding => thread'[e].test.group # {}
      BY <3>1, <3>6 DEF GroupsLeft
    <3> QED BY <1>1, <3>8, <3>9 DEF GroupsLeft
  <2>4. CASE ~AllHandled(c) /\ c.queue = <<>> /\ Goes(d, "waiting") /\ Collect(d, AwaitMore(c))
    <3>1. \A h \in Homes : coll'[h].queue = coll[h].queue
      BY <1>0, <2>1, <2>4 DEF Collect, AwaitMore, TypeOK, CollType
    <3>2. \A e \in Devices : /\ thread'[e].test = thread[e].test
                             /\ thread'[e].pc \in Holding => thread[e].pc \in Holding
      BY <1>0, <2>4 DEF Goes, Holding, TypeOK, ThreadType
    <3> QED BY <1>1, <3>1, <3>2 DEF GroupsLeft
  <2> QED BY <1>4, <2>2, <2>3, <2>4 DEF Pop
<1>5. ASSUME NEW d \in Devices, RunTest(d) PROVE GroupsLeft'
  <2>1. PICK retry, tries :
          \/ retry # {} /\ thread' = [thread EXCEPT ![d].pc = "retrying", ![d].test = Test(retry, tries)]
          \/ thread' = [thread EXCEPT ![d].pc = "completing", ![d].test = NoTest]
    BY <1>5 DEF RunTest
  <2>2. coll' = coll /\ \A e \in Devices \ {d} : thread'[e] = thread[e]
    BY <1>0, <1>5, <2>1 DEF RunTest, TypeOK
  <2>3. \/ thread'[d].test.group = retry /\ retry # {}
        \/ thread'[d].pc = "completing"
    BY <1>0, <2>1 DEF TypeOK, ThreadType, Test
  <2> QED BY <1>1, <2>2, <2>3 DEF GroupsLeft, Holding
<1>6. ASSUME NEW d \in Devices, Add(d) PROVE GroupsLeft'
  <2> DEFINE c == coll[Home(d)]
             q == c.queue
  <2>1. PICK test : test = thread[d].test
    OBVIOUS
  <2>2. c \in CollType /\ test \in TestType /\ Home(d) \in Homes /\ test.group # {}
    BY <1>0, <1>6, <2>1, HomeType DEF TypeOK, ThreadType, Add, GroupsLeft, Holding
  <2>3. /\ thread' = [thread EXCEPT ![d].pc = "completing", ![d].test = NoTest]
        /\ coll' = [coll EXCEPT ![Home(d)] = Added(c, test)]
    BY <1>6, <2>1 DEF Add, Collect, HandedBack
  <2>4. /\ thread'[d].pc = "completing" /\ \A e \in Devices \ {d} : thread'[e] = thread[e]
        /\ coll'[Home(d)].queue = Append(q, test)
        /\ \A h \in Homes \ {Home(d)} : coll'[h] = coll[h]
    BY <1>0, <2>2, <2>3 DEF TypeOK, ThreadType, Added
  <2>5. q \in Seq(TestType) /\ \A i \in DOMAIN q : q[i].group # {}
    BY <2>2 DEF CollType, GroupsLeft
  <2> HIDE DEF q
  <2>6. \A i \in DOMAIN Append(q, test) :
          \/ i \in DOMAIN q /\ Append(q, test)[i] = q[i]
          \/ Append(q, test)[i] = test
    BY <2>2, <2>5
  <2>7. \A i \in DOMAIN Append(q, test) : Append(q, test)[i].group # {}
    BY <2>2, <2>5, <2>6
  <2> QED BY <1>1, <2>4, <2>7 DEF GroupsLeft, Holding
<1>7. ASSUME NEW d \in Devices, TestCompleted(d) PROVE GroupsLeft'
  <2>1. \A h \in Homes : coll'[h].queue = coll[h].queue
    BY <1>0, <1>7, HomeType DEF TestCompleted, Collect, Completed, TypeOK, CollType
  <2>2. \A e \in Devices : /\ thread'[e].test = thread[e].test
                           /\ thread'[e].pc \in Holding => thread[e].pc \in Holding
    BY <1>0, <1>7 DEF TestCompleted, Goes, Holding, TypeOK, ThreadType
  <2> QED BY <1>1, <2>1, <2>2 DEF GroupsLeft
<1>8. CASE TimeOut \/ JoinAll \/ TearDownRunners \/ UNCHANGED vars
  <2>1. UNCHANGED <<coll, thread>>
    BY <1>8 DEF TimeOut, JoinAll, TearDownRunners, vars
  <2> QED BY <1>1, <2>1 DEF GroupsLeft
<1> QED BY <1>2, <1>3, <1>4, <1>5, <1>6, <1>7, <1>8 DEF Next, Device, Main

(* Runners are only added, and only their threads start.                   *)
LEMMA NextRunners ==
    IInv /\ RunnersRun /\ [Next]_vars =>
        /\ RunnersRun' /\ Running \subseteq Running'
        /\ main.pc # "setup" => runners' = runners
<1> SUFFICES ASSUME IInv, RunnersRun, [Next]_vars
             PROVE  /\ RunnersRun' /\ Running \subseteq Running'
                    /\ main.pc # "setup" => runners' = runners
  OBVIOUS
<1>0. TypeOK
  BY DEF IInv
<1>1. ASSUME NEW d \in Devices, SetUp(d)
      PROVE  RunnersRun' /\ Running \subseteq Running' /\ main.pc = "setup"
  <2>1. \A e \in Devices \ {d} : thread'[e] = thread[e]
    BY <1>0, <1>1 DEF SetUp, Goes, TypeOK
  <2>2. \/ runners' = runners /\ thread'[d].pc \in {"absent", "failed"}
        \/ runners' = Append(runners, d)
    BY <1>0, <1>1 DEF SetUp, Goes, TypeOK, ThreadType
  <2>3. runners \in Seq(Devices)
    BY <1>0 DEF TypeOK
  <2>4. CASE runners' = Append(runners, d)
    <3>1. /\ \A i \in DOMAIN runners : i \in DOMAIN runners' /\ runners'[i] = runners[i]
          /\ Len(runners) + 1 \in DOMAIN runners' /\ runners'[Len(runners) + 1] = d
      BY <2>3, <2>4
    <3>2. Running \subseteq Running' /\ d \in Running'
      BY <3>1 DEF Running
    <3> QED BY <1>1, <2>1, <3>2 DEF RunnersRun, SetUp
  <2>5. CASE runners' = runners /\ thread'[d].pc \in {"absent", "failed"}
    <3>1. Running' = Running
      BY <2>5 DEF Running
    <3> QED BY <1>1, <2>1, <2>5, <3>1 DEF RunnersRun, SetUp
  <2> QED BY <2>2, <2>4, <2>5
<1>2. ASSUME runners' = runners,
             \A e \in Devices : \/ thread'[e].pc = thread[e].pc
                                \/ thread[e].pc \notin {"setup", "absent", "failed"}
                                \/ e \in Running
      PROVE  RunnersRun' /\ Running \subseteq Running'
  <2>1. Running' = Running
    BY <1>2 DEF Running
  <2> QED BY <1>2, <2>1 DEF RunnersRun
<1>3. CASE StartAll
  <2>1. \A e \in Devices : thread'[e].pc = thread[e].pc \/ e \in Running
    BY <1>0, <1>3 DEF StartAll, TypeOK, ThreadType
  <2> QED BY <1>2, <1>3, <2>1 DEF StartAll
<1>4. ASSUME NEW d \in Devices, Wake(d) \/ Pop(d) \/ RunTest(d) \/ Raise(d) \/ Add(d) \/ TestCompleted(d)
      PROVE  RunnersRun' /\ Running \subseteq Running' /\ runners' = runners
  <2>1. thread[d].pc \notin {"setup", "absent", "failed"} /\ runners' = runners
    BY <1>4 DEF Wake, Pop, RunTest, Raise, Add, TestCompleted
  <2>2. \A e \in Devices \ {d} : thread'[e] = thread[e]
    <3>1. CASE Wake(d) \/ Pop(d) \/ TestCompleted(d)
      BY <1>0, <3>1 DEF Wake, Pop, TestCompleted, Goes, TypeOK
    <3>2. CASE RunTest(d)
      BY <1>0, <3>2 DEF RunTest, TypeOK
    <3>3. CASE Raise(d) \/ Add(d)
      BY <1>0, <3>3 DEF Raise, Add, TypeOK
    <3> QED BY <1>4, <3>1, <3>2, <3>3
  <2> QED BY <1>2, <2>1, <2>2
<1>5. CASE TimeOut \/ JoinAll \/ TearDownRunners \/ UNCHANGED vars
  <2>1. UNCHANGED <<thread, runners>>
    BY <1>5 DEF TimeOut, JoinAll, TearDownRunners, vars
  <2> QED BY <1>2, <2>1
<1> QED BY <1>1, <1>3, <1>4, <1>5 DEF Next, Device, Main, StartAll

(* A failure is recorded when the tries are used up.                       *)
LEMMA NextRecords ==
    IInv /\ RunnersRun /\ RecordsHonest /\ [Next]_vars => RecordsHonest'
<1> SUFFICES ASSUME IInv, RunnersRun, RecordsHonest, [Next]_vars PROVE RecordsHonest'
  OBVIOUS
<1>0. TypeOK
  BY DEF IInv
<1>1. shard' = shard
  BY DEF Next, Main, Device, SetUp, StartAll, Wake, Pop, RunTest, Raise, Add, TestCompleted,
         TimeOut, JoinAll, TearDownRunners, vars
<1>2. Used \subseteq Used'
  <2>1. Running \subseteq Running'
    BY NextRunners
  <2> QED BY <1>1, <2>1 DEF Used, Home
<1>3. CASE results' = results
  BY <1>2, <1>3 DEF RecordsHonest
<1>4. ASSUME NEW d \in Devices, RunTest(d) PROVE RecordsHonest'
  <2>1. PICK tries : tries = thread[d].test.tries + 1
    OBVIOUS
  <2>2. PICK passed, retry :
          /\ results' \subseteq results \cup Outcome(d, passed, TRUE, tries)
                                        \cup Outcome(d, retry, FALSE, tries)
          /\ \/ results' = results \cup Outcome(d, passed, TRUE, tries)
             \/ retry = {}
             \/ ~MayRetry(tries)
    BY <1>4, <2>1 DEF RunTest
  <2>3. Home(d) \in Used
    BY <1>4 DEF RunTest, RunnersRun, Used
  <2>4. tries \in 1 .. NumRetries + 1
    BY <1>0, <2>1 DEF TypeOK, ThreadType, TestType
  <2> SUFFICES ASSUME NEW r \in results'
               PROVE  r.home \in Used' /\ (~r.passed => r.tries = NumRetries + 1)
    BY DEF RecordsHonest
  <2>5. CASE r \in results
    BY <1>2, <2>5 DEF RecordsHonest
  <2>6. CASE r \in Outcome(d, passed, TRUE, tries)
    BY <1>2, <2>3, <2>6 DEF Outcome
  <2>7. CASE r \in Outcome(d, retry, FALSE, tries) /\ ~MayRetry(tries)
    <3>1. r.home = Home(d) /\ r.tries = tries
      BY <2>7 DEF Outcome
    <3>2. tries = NumRetries + 1
      BY <2>4, <2>7 DEF MayRetry
    <3> QED BY <1>2, <2>3, <3>1, <3>2
  <2>8. retry = {} => Outcome(d, retry, FALSE, tries) = {}
    BY DEF Outcome
  <2> QED BY <2>2, <2>5, <2>6, <2>7, <2>8
<1>5. results' = results \/ \E d \in Devices : RunTest(d)
  BY DEF Next, Main, Device, SetUp, StartAll, Wake, Pop, Raise, Add, TestCompleted,
         TimeOut, JoinAll, TearDownRunners, vars
<1> QED BY <1>3, <1>4, <1>5

(* The result of RunTests is about threads that have ended.                *)
LEMMA NextReturn ==
    IInv /\ RunnersRun /\ ReturnStands /\ [Next]_vars => ReturnStands'
<1> SUFFICES ASSUME IInv, RunnersRun, ReturnStands, [Next]_vars PROVE ReturnStands'
  OBVIOUS
<1>0. TypeOK /\ main \in MainType
  BY DEF IInv, TypeOK
<1>1. ASSUME NEW d \in Devices, Device(d) PROVE ReturnStands'
  <2>1. main' = main
    BY <1>1 DEF Device, SetUp, Wake, Pop, RunTest, Raise, Add, TestCompleted
  <2>2. main.how # "returned"
    <3>1. CASE SetUp(d)
      BY <3>1 DEF SetUp, ReturnStands, None
    <3>2. CASE ~SetUp(d)
      <4>1. thread[d].pc \notin {"setup", "absent", "failed", "done", "raised"}
        BY <1>1, <3>2 DEF Device, Wake, Pop, RunTest, Raise, Add, TestCompleted
      <4>2. d \in Running /\ ~Ended(d)
        BY <4>1 DEF RunnersRun, Ended
      <4> QED BY <4>2 DEF ReturnStands
    <3> QED BY <3>1, <3>2
  <2> QED BY <2>1, <2>2 DEF ReturnStands
<1>2. CASE StartAll
  <2>1. main.how = None /\ ((main'.how = "raised" /\ main'.pc = "over") \/ main'.how = None)
    BY <1>0, <1>2 DEF StartAll, ReturnStands, MainType
  <2> QED BY <2>1 DEF ReturnStands, None
<1>3. CASE TimeOut
  <2>1. main'.how = "timeout" /\ main'.pc \in {"over", "teardown"}
    BY <1>0, <1>3 DEF TimeOut, MainType
  <2> QED BY <2>1 DEF ReturnStands
<1>4. CASE JoinAll
  <2>1. UNCHANGED <<shard, coll, thread, runners, results>>
    BY <1>4 DEF JoinAll
  <2>2. CASE Aborts
    <3>1. main'.how = "raised" /\ main'.pc = "teardown"
      BY <1>0, <1>4, <2>2 DEF JoinAll, MainType
    <3> QED BY <3>1 DEF ReturnStands
  <2>3. CASE ~Aborts
    <3>1. /\ main'.pc = "teardown" /\ main'.how = "returned"
          /\ main'.unknown = Leftovers /\ (main'.pass <=> DidRunPass)
          /\ \A d \in Running : Ended(d)
      BY <1>4, <2>3 DEF JoinAll
    <3>2. Running' = Running /\ \A d \in Running : Ended(d)'
      BY <2>1, <3>1 DEF Running, Ended
    <3>3. Leftovers' = Leftovers /\ (DidRunPass' <=> DidRunPass)
      BY <2>1, <3>2 DEF Leftovers, DidRunPass, Used, Home
    <3> QED BY <3>1, <3>2, <3>3 DEF ReturnStands
  <2> QED BY <2>2, <2>3
<1>5. CASE TearDownRunners
  <2>1. /\ UNCHANGED <<shard, coll, thread, runners, results>>
        /\ main'.pc = "over" /\ main'.how = main.how
        /\ main'.unknown = main.unknown /\ main'.pass = main.pass
    BY <1>0, <1>5 DEF TearDownRunners, MainType
  <2>2. Running' = Running /\ Leftovers' = Leftovers /\ (DidRunPass' <=> DidRunPass)
    BY <2>1 DEF Running, Leftovers, DidRunPass, Used, Home
  <2> QED BY <2>1, <2>2 DEF ReturnStands, Ended
<1>6. CASE UNCHANGED vars
  <2>1. Running' = Running /\ Leftovers' = Leftovers /\ (DidRunPass' <=> DidRunPass)
    BY <1>6 DEF vars, Running, Leftovers, DidRunPass, Used, Home
  <2> QED BY <1>6, <2>1 DEF vars, ReturnStands, Ended
<1> QED BY <1>1, <1>2, <1>3, <1>4, <1>5, <1>6 DEF Next, Main

(* No SetUp is left or fails once the tests are run.                       *)
LEMMA NextSetUp ==
    IInv /\ ReturnStands /\ AllSetUp /\ [Next]_vars => AllSetUp'
<1> SUFFICES ASSUME IInv, ReturnStands, AllSetUp, [Next]_vars PROVE AllSetUp'
  OBVIOUS
<1>0. TypeOK /\ main \in MainType
  BY DEF IInv, TypeOK
<1>1. ASSUME NEW d \in Devices, SetUp(d) PROVE AllSetUp'
  BY <1>1 DEF SetUp, ReturnStands, AllSetUp, None
<1>2. CASE StartAll
  <2>1. main.how = None
    BY <1>2 DEF StartAll, ReturnStands
  <2>2. CASE \E d \in Devices : thread[d].pc = "failed"
    <3>1. main'.pc = "over" /\ main'.how = "raised"
      BY <1>0, <1>2, <2>2 DEF StartAll, MainType
    <3> QED BY <3>1 DEF AllSetUp
  <2>3. CASE ~ \E d \in Devices : thread[d].pc = "failed"
    <3>1. \A e \in Devices : thread'[e].pc = "waiting" \/ thread'[e].pc = thread[e].pc
      BY <1>0, <1>2, <2>3 DEF StartAll, TypeOK, ThreadType
    <3>2. \A e \in Devices : thread[e].pc \notin {"setup", "failed"}
      BY <1>2, <2>3 DEF StartAll
    <3> QED BY <3>1, <3>2 DEF AllSetUp
  <2> QED BY <2>2, <2>3
<1>3. ASSUME NEW d \in Devices, Wake(d) \/ Pop(d) \/ RunTest(d) \/ Raise(d) \/ Add(d) \/ TestCompleted(d)
      PROVE  AllSetUp'
  <2>1. main' = main
    BY <1>3 DEF Wake, Pop, RunTest, Raise, Add, TestCompleted
  <2>2. thread'[d].pc \notin {"setup", "failed"} /\ \A e \in Devices \ {d} : thread'[e] = thread[e]
    <3>1. CASE Wake(d) \/ Pop(d) \/ TestCompleted(d)
      BY <1>0, <3>1 DEF Wake, Pop, TestCompleted, Goes, TypeOK, ThreadType
    <3>2. CASE RunTest(d)
      <4>1. PICK test :
              \/ thread' = [thread EXCEPT ![d].pc = "retrying", ![d].test = test]
              \/ thread' = [thread EXCEPT ![d].pc = "completing", ![d].test = NoTest]
        BY <3>2 DEF RunTest
      <4> QED BY <1>0, <4>1 DEF TypeOK, ThreadType
    <3>3. CASE Raise(d) \/ Add(d)
      BY <1>0, <3>3 DEF Raise, Add, TypeOK, ThreadType
    <3> QED BY <1>3, <3>1, <3>2, <3>3
  <2> QED BY <2>1, <2>2 DEF AllSetUp
<1>4. CASE TimeOut
  <2>1. main'.how = "timeout" /\ main'.pc \in {"over", "teardown"}
    BY <1>0, <1>4 DEF TimeOut, MainType
  <2> QED BY <2>1 DEF AllSetUp
<1>5. CASE JoinAll
  BY <1>5 DEF JoinAll, AllSetUp
<1>6. CASE TearDownRunners \/ UNCHANGED vars
  <2>1. /\ UNCHANGED thread
        /\ main'.how = main.how /\ (main'.pc = "over" \/ main'.pc = main.pc)
    BY <1>0, <1>6 DEF TearDownRunners, vars, MainType
  <2> QED BY <2>1 DEF AllSetUp
<1> QED BY <1>1, <1>2, <1>3, <1>4, <1>5, <1>6 DEF Next, Device, Main

(* What is true when RunTests returns.                                     *)
LEMMA ReturnedHonest ==
    ASSUME IInv, CInv, LeavesWhenAllDone, VInv
    PROVE  VerdictButForUnreached
<1> SUFFICES ASSUME main.how = "returned"
             PROVE  /\ \A h \in Homes, t \in Tests :
                          Cardinality(Reported(h, t)) = IF Unreached(h) THEN 0 ELSE 1
                    /\ \A u \in main.unknown, d \in Running : Home(d) = u.home => thread[d].pc = "raised"
                    /\ \A r \in results : ~r.passed => r.tries = NumRetries + 1
                    /\ main.pass <=> \A h \in Homes, t \in Tests :
                          Unreached(h) \/ \E r \in results : r.home = h /\ r.test = t /\ r.passed
  BY DEF VerdictButForUnreached
<1>0. TypeOK /\ Running \subseteq Devices
  BY RunningType DEF IInv, TypeOK
<1>1. /\ \A d \in Running : Ended(d)
      /\ main.unknown = Leftovers
      /\ main.pass <=> DidRunPass
  BY DEF VInv, ReturnStands
<1>2. Used \subseteq Homes
  BY <1>0, HomeType DEF Used, TypeOK
<1>3. \A h, u : u \in main.unknown /\ u.home = h =>
          /\ h \in Used
          /\ \E i \in DOMAIN coll[h].queue : u = [home |-> h, test |-> coll[h].queue[i].group]
  BY <1>1 DEF Leftovers
<1>4. \A h \in Used : \A i \in DOMAIN coll[h].queue :
          [home |-> h, test |-> coll[h].queue[i].group] \in main.unknown
  BY <1>1 DEF Leftovers
<1>5. \A d \in Devices : thread[d].test.group = {}
  <2> SUFFICES ASSUME NEW d \in Devices, thread[d].pc \in Holding PROVE FALSE
    BY DEF IInv, HandsEmpty
  <2>1. d \in Running
    BY DEF VInv, RunnersRun, Holding
  <2> QED BY <1>1, <2>1 DEF Ended, Holding
<1>6. ASSUME NEW h \in Used, NEW t \in Tests PROVE \E x : Reported(h, t) = {x}
  <2>1. h \in Homes /\ Once(h, t)
    BY <1>2 DEF VInv, EachOnce
  <2>2. (\E i : InQueue(h, t, i)) \/ (\E r : InResults(h, t, r))
    <3>1. Queued(h, t) \/ Held(h, t) \/ Known(h, t)
      BY <2>1, Places DEF IInv
    <3>2. ~Held(h, t)
      BY <1>5 DEF Held
    <3> QED BY <3>1, <3>2 DEF Queued, Known, InQueue, InResults
  <2>3. \A x : x \in Reported(h, t) <=>
           \/ InResults(h, t, x)
           \/ \E i : InQueue(h, t, i) /\ x = [home |-> h, test |-> coll[h].queue[i].group]
    <3>1. \A x : (x \in main.unknown /\ x.home = h /\ t \in x.test) <=>
             \E i : InQueue(h, t, i) /\ x = [home |-> h, test |-> coll[h].queue[i].group]
      BY <1>3, <1>4 DEF InQueue
    <3> QED BY <3>1 DEF Reported, InResults
  <2>4. CASE \E i : InQueue(h, t, i)
    <3>1. PICK i : InQueue(h, t, i)
      BY <2>4
    <3>2. /\ \A j : InQueue(h, t, j) => j = i
          /\ \A r : ~InResults(h, t, r)
      BY <2>1, <3>1 DEF Once
    <3>3. PICK y : y = [home |-> h, test |-> coll[h].queue[i].group]
      OBVIOUS
    <3>4. \A x : x \in Reported(h, t) <=> x = y
      BY <2>3, <3>1, <3>2, <3>3
    <3>5. Reported(h, t) = {y}
      BY <3>4
    <3> QED BY <3>5
  <2>5. CASE \E r : InResults(h, t, r)
    <3>1. PICK r : InResults(h, t, r)
      BY <2>5
    <3>2. /\ \A s : InResults(h, t, s) => s = r
          /\ \A i : ~InQueue(h, t, i)
      BY <2>1, <3>1 DEF Once
    <3>3. \A x : x \in Reported(h, t) <=> x = r
      BY <2>3, <3>1, <3>2
    <3> QED BY <3>3
  <2> QED BY <2>2, <2>4, <2>5
<1>7. \A r \in results : r.home \in Used /\ (~r.passed => r.tries = NumRetries + 1)
  BY DEF VInv, RecordsHonest
<1>8. \A h \in Homes : h \in Used <=> ~Unreached(h)
  <2>1. \A d \in Devices : d \in Running <=> thread[d].pc # "absent"
    BY <1>1 DEF VInv, AllSetUp, RunnersRun, Ended
  <2> QED BY <1>0, <2>1 DEF Used, Unreached
<1>9. \A h \in Homes, t \in Tests :
          Cardinality(Reported(h, t)) = IF Unreached(h) THEN 0 ELSE 1
  <2> SUFFICES ASSUME NEW h \in Homes, NEW t \in Tests
               PROVE  Cardinality(Reported(h, t)) = IF Unreached(h) THEN 0 ELSE 1
    OBVIOUS
  <2>1. CASE Unreached(h)
    <3>1. h \notin Used
      BY <1>8, <2>1
    <3>2. Reported(h, t) = {}
      BY <1>3, <1>7, <3>1 DEF Reported
    <3> QED BY <2>1, <3>2, FS_EmptySet
  <2>2. CASE ~Unreached(h)
    <3>1. PICK x : Reported(h, t) = {x}
      BY <1>6, <1>8, <2>2
    <3>2. Cardinality({x}) = 1
      BY FS_Singleton
    <3> QED BY <2>2, <3>1, <3>2
  <2> QED BY <2>1, <2>2
<1>10. \A u \in main.unknown, d \in Running : Home(d) = u.home => thread[d].pc = "raised"
  <2> SUFFICES ASSUME NEW u \in main.unknown, NEW d \in Running, Home(d) = u.home,
                      thread[d].pc = "done"
               PROVE  FALSE
    BY <1>1 DEF Ended
  <2>1. coll[Home(d)].queue = <<>>
    BY <1>0 DEF LeavesWhenAllDone
  <2>2. \E i \in DOMAIN coll[Home(d)].queue : TRUE
    BY <1>3
  <2> QED BY <2>1, <2>2
<1>11. ASSUME DidRunPass, NEW h \in Used, NEW t \in Tests
       PROVE  \E r \in results : r.home = h /\ r.test = t /\ r.passed
  <2>1. PICK x : x \in Reported(h, t)
    BY <1>6
  <2> QED BY <1>1, <1>11, <2>1 DEF Reported, DidRunPass
<1>12. ASSUME \A h \in Used, t \in Tests :
                 \E r \in results : r.home = h /\ r.test = t /\ r.passed
       PROVE  DidRunPass
  <2>0. ASSUME NEW h \in Used, NEW t \in Tests, NEW x \in Reported(h, t)
        PROVE  x \in results /\ x.passed
    <3>1. PICK r \in results : r.home = h /\ r.test = t /\ r.passed
      BY <1>12
    <3>2. r \in Reported(h, t)
      BY <3>1 DEF Reported
    <3>3. \E y : Reported(h, t) = {y}
      BY <1>6
    <3> QED BY <3>1, <3>2, <3>3
  <2>1. ASSUME NEW r \in results PROVE r.passed
    <3>1. r.home \in Used /\ r.test \in Tests
      BY <1>0, <1>7 DEF TypeOK, ResultType
    <3>2. r \in Reported(r.home, r.test)
      BY DEF Reported
    <3> QED BY <2>0, <3>1, <3>2
  <2>2. ASSUME NEW u \in Leftovers PROVE FALSE
    <3>1. PICK h \in Used : \E i \in DOMAIN coll[h].queue :
            u = [home |-> h, test |-> coll[h].queue[i].group]
      BY DEF Leftovers
    <3>2. PICK i \in DOMAIN coll[h].queue : u = [home |-> h, test |-> coll[h].queue[i].group]
      BY <3>1
    <3>3. coll[h].queue[i].group # {} /\ coll[h].queue[i].group \subseteq Tests
      <4>1. h \in Homes
        BY <1>2
      <4>2. coll[h].queue \in Seq(TestType)
        BY <1>0, <4>1 DEF TypeOK, CollType
      <4>3. coll[h].queue[i] \in TestType
        BY <4>2
      <4> QED BY <4>1, <4>3 DEF VInv, GroupsLeft, TestType
    <3>4. PICK t \in Tests : t \in coll[h].queue[i].group
      BY <3>3
    <3>5. u \in Reported(h, t)
      BY <1>1, <3>2, <3>4 DEF Reported
    <3>6. u \in results
      BY <2>0, <3>5
    <3>7. "passed" \in DOMAIN u
      BY <1>0, <3>6 DEF TypeOK, ResultType
    <3>8. "passed" \notin DOMAIN u
      BY <3>2
    <3> QED BY <3>7, <3>8
  <2> QED BY <2>1, <2>2 DEF DidRunPass
<1>13. main.pass <=> \A h \in Homes, t \in Tests :
          Unreached(h) \/ \E r \in results : r.home = h /\ r.test = t /\ r.passed
  BY <1>1, <1>2, <1>11, <1>12, <1>8
<1> QED BY <1>9, <1>10, <1>7, <1>13

(* Whatever threads raise and in whichever order they end, RunTests        *)
(* reports every test of a collection that some device was reached for     *)
(* once: unknown only if all the collection's runners were given up, and   *)
(* failed only after its retries.  It reports nothing of the others, and   *)
(* passes if and only if each test of the former passed: with no device    *)
(* reached it passes with nothing run (_RunAllTests, _RunTestsFromQueue).  *)
THEOREM VerdictButForUnreachedHolds == Spec => []VerdictButForUnreached
<1>1. Init => IInv /\ CInv /\ VInv
  BY InitType, InitPlaced, InitCounted, InitVerdict DEF IInv, CInv
<1>2. IInv /\ CInv /\ VInv /\ [Next]_vars => (IInv /\ CInv /\ VInv)'
  <2>1. IInv /\ CInv /\ [Next]_vars => (IInv /\ CInv)'
    BY NextType, NextPlaced, NextCounted DEF IInv, CInv
  <2>2. IInv /\ VInv /\ [Next]_vars => VInv'
    BY NextOnce, NextGroups, NextRunners, NextRecords, NextReturn, NextSetUp DEF VInv
  <2> QED BY <2>1, <2>2
<1> QED BY <1>1, <1>2, ReturnedHonest, LeavesWhenAllDoneHolds, PTL DEF Spec
=============================================================================
