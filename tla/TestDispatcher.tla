---------------------------- MODULE TestDispatcher ----------------------------
(***************************************************************************)
(* The dispatcher of build/android/pylib/base: RunTests sets up one runner *)
(* per device, and each runs in a thread of its own, taking tests from a   *)
(* TestCollection until all of them have been handled.  To shard, all the  *)
(* threads share one collection; to replicate, each has its own.  A test   *)
(* that fails is handed back to be tried again, and so is the test of a    *)
(* thread that is given up because of an exception.                        *)
(*                                                                         *)
(* What a thread does under the collection's lock is one step.  A test is  *)
(* a group of test names that run together; a retry is the group of those  *)
(* that did not pass (gtest; the instrumentation runner's groups are       *)
(* single).  A runner that never asks for a retry is one with NumRetries 0.*)
(***************************************************************************)
EXTENDS Integers, Sequences, FiniteSets

CONSTANTS
    Devices,    \* the attached devices
    Tests,      \* the names of the tests
    Groups,     \* the tests as ApplyMaxPerRun groups them
    NumRetries  \* num_retries

Shared == "shared"
None == "none"

ASSUME DevicesAssumption == IsFiniteSet(Devices) /\ Shared \notin Devices
ASSUME GroupsAssumption ==
    /\ IsFiniteSet(Groups) /\ Groups \subseteq SUBSET Tests
    /\ \A t \in Tests : \E g \in Groups : t \in g
    /\ {} \notin Groups
    /\ \A g, h \in Groups : g # h => g \cap h = {}
ASSUME RetriesAssumption == NumRetries \in Nat

VARIABLES
    shard,    \* whether the tests are sharded or replicated
    coll,     \* each TestCollection: [queue, in_progress, signalled]
    thread,   \* the thread of each device: [pc, test, err]
    runners,  \* the runners, in the order their SetUp ended
    results,  \* out_results: [home, test, passed, tries]
    main      \* the thread that called RunTests, see MainType

vars == <<shard, coll, thread, runners, results, main>>

Homes == IF shard THEN {Shared} ELSE Devices
Home(d) == IF shard THEN Shared ELSE d

Errors == {"unreachable", "other"}
Test(group, tries) == [group |-> group, tries |-> tries]
NoTest == Test({}, 0)

Running == {runners[i] : i \in DOMAIN runners}
Holding == {"running", "retrying", "raising"}
Ended(d) == thread[d].pc \in {"done", "raised"}
Alive(d) == main.pc # "over" /\ thread[d].pc \notin {"done", "raised"}

-----------------------------------------------------------------------------
(* TestCollection, under its lock.  A decision of the code may be preceded *)
(* by the form a plausible bug would give it.                              *)

(* _pop looks at what is in progress, not at what is in the queue. *)
QueueEmpty(c) == c.queue = <<>>
AllHandled(c) == c.in_progress = 0

Popped(c) == [c EXCEPT !.queue = Tail(@)]
AwaitMore(c) == [c EXCEPT !.signalled = FALSE]

Added(c, test) ==
    [queue |-> Append(c.queue, test), in_progress |-> c.in_progress + 1, signalled |-> TRUE]

CompletedQuietly(c) == [c EXCEPT !.in_progress = @ - 1]
Completed(c) ==
    [queue |-> c.queue, in_progress |-> c.in_progress - 1,
     signalled |-> c.in_progress = 1 \/ c.signalled]

Goes(d, pc) == thread' = [thread EXCEPT ![d].pc = pc]
Collect(d, c) == coll' = [coll EXCEPT ![Home(d)] = c]

-----------------------------------------------------------------------------
(* _CreateRunners: one thread per device. *)

SetUp(d) ==
    /\ main.pc = "setup" /\ thread[d].pc = "setup"
    /\ \/ Goes(d, "ready") /\ runners' = Append(runners, d)
       \/ Goes(d, "absent") /\ UNCHANGED runners     \* unreachable: no runner
       \/ Goes(d, "failed") /\ UNCHANGED runners     \* any other exception
    /\ UNCHANGED <<shard, coll, results, main>>

(* The exception of a SetUp is raised before there is anything to run, and *)
(* outside the try statement that tears runners down.                      *)
StartAll ==
    /\ main.pc = "setup"
    /\ \A d \in Devices : thread[d].pc # "setup"
    /\ IF \E d \in Devices : thread[d].pc = "failed"
       THEN main' = [main EXCEPT !.pc = "over", !.how = "raised"] /\ UNCHANGED thread
       ELSE /\ main' = [main EXCEPT !.pc = "running"]
            /\ thread' = [d \in Devices |->
                             IF d \in Running THEN [thread[d] EXCEPT !.pc = "waiting"] ELSE thread[d]]
    /\ UNCHANGED <<shard, coll, runners, results>>

-----------------------------------------------------------------------------
(* _RunTestsFromQueue, in the thread of a device. *)

(* _pop: the event is awaited outside the lock. *)
Wake(d) ==
    /\ Alive(d) /\ thread[d].pc = "waiting"
    /\ coll[Home(d)].signalled
    /\ Goes(d, "popping")
    /\ UNCHANGED <<shard, coll, runners, results, main>>

Pop(d) ==
    /\ Alive(d) /\ thread[d].pc = "popping"
    /\ LET c == coll[Home(d)] IN
       \/ AllHandled(c) /\ Goes(d, "done") /\ UNCHANGED coll
       \/ /\ ~AllHandled(c) /\ c.queue # <<>>
          /\ thread' = [thread EXCEPT ![d].pc = "running", ![d].test = Head(c.queue)]
          /\ Collect(d, Popped(c))
       \/ ~AllHandled(c) /\ c.queue = <<>> /\ Goes(d, "waiting") /\ Collect(d, AwaitMore(c))
    /\ UNCHANGED <<shard, runners, results, main>>

MayRetry(tries) == tries <= NumRetries
Outcome(d, names, passed, tries) ==
    {[home |-> Home(d), test |-> t, passed |-> passed, tries |-> tries] : t \in names}

(* The device is attached and RunTest returns: what passed is recorded, the *)
(* rest is recorded or will be tried again.                                 *)
RunTest(d) ==
    /\ Alive(d) /\ thread[d].pc = "running"
    /\ \E passed \in SUBSET thread[d].test.group :
          LET tries == thread[d].test.tries + 1
              retry == thread[d].test.group \ passed
          IN  IF retry # {} /\ MayRetry(tries)
              THEN /\ results' = results \cup Outcome(d, passed, TRUE, tries)
                   /\ thread' = [thread EXCEPT ![d].pc = "retrying", ![d].test = Test(retry, tries)]
              ELSE /\ results' = results \cup Outcome(d, passed, TRUE, tries)
                                         \cup Outcome(d, retry, FALSE, tries)
                   /\ thread' = [thread EXCEPT ![d].pc = "completing", ![d].test = NoTest]
    /\ UNCHANGED <<shard, coll, runners, main>>

(* The device is not attached, or RunTest raises. *)
Raise(d) ==
    /\ Alive(d) /\ thread[d].pc = "running"
    /\ \E e \in Errors : thread' = [thread EXCEPT ![d].pc = "raising", ![d].err = e]
    /\ UNCHANGED <<shard, coll, runners, results, main>>

(* A test to retry, or one an exception interrupted, goes to the end of the *)
(* queue before the one that was popped is marked as completed.             *)
KeepsOut(c, test) == [c EXCEPT !.signalled = TRUE]
HandedBack(c, test) == Added(c, test)

Add(d) ==
    /\ Alive(d) /\ thread[d].pc \in {"retrying", "raising"}
    /\ Collect(d, HandedBack(coll[Home(d)], thread[d].test))
    /\ thread' = [thread EXCEPT ![d].pc = "completing", ![d].test = NoTest]
    /\ UNCHANGED <<shard, runners, results, main>>

TestCompleted(d) ==
    /\ Alive(d) /\ thread[d].pc = "completing"
    /\ Collect(d, Completed(coll[Home(d)]))
    /\ Goes(d, IF thread[d].err = None THEN "waiting" ELSE "raised")
    /\ UNCHANGED <<shard, runners, results, main>>

-----------------------------------------------------------------------------
(* _RunAllTests and RunTests, in the main thread. *)

(* JoinAll gives up when no thread has taken a test for too long, unless    *)
(* there is none to join: those that run go on while the runners are torn   *)
(* down, and one that has just ended counts as alive until it is joined.    *)
TimeOut ==
    /\ \/ main.pc = "setup" /\ Devices # {}
       \/ main.pc = "running" /\ runners # <<>>
    /\ main' = [main EXCEPT !.pc = IF @ = "setup" THEN "over" ELSE "teardown", !.how = "timeout"]
    /\ UNCHANGED <<shard, coll, thread, runners, results>>

(* Of the exceptions of several threads the first runner's is raised again *)
(* and the others are lost.                                                *)
Raised == {i \in DOMAIN runners : thread[runners[i]].err # None}
Aborts == \E i \in Raised :
              thread[runners[i]].err = "other" /\ \A j \in Raised : i \leq j

Used == {Home(d) : d \in Running}
NoLeftovers == {}
Leftovers ==
    UNION {{[home |-> h, test |-> t.group] : t \in {coll[h].queue[i] : i \in DOMAIN coll[h].queue}}
             : h \in Used}

(* Without a runner there is no result, and so nothing that did not pass. *)
DidRunPass == Leftovers = {} /\ \A r \in results : r.passed

JoinAll ==
    /\ main.pc = "running"
    /\ \A d \in Running : Ended(d)
    /\ main' = IF Aborts
               THEN [main EXCEPT !.pc = "teardown", !.how = "raised"]
               ELSE [pc |-> "teardown", how |-> "returned", pass |-> DidRunPass, unknown |-> Leftovers]
    /\ UNCHANGED <<shard, coll, thread, runners, results>>

TearDownRunners ==
    /\ main.pc = "teardown"
    /\ main' = [main EXCEPT !.pc = "over"]
    /\ UNCHANGED <<shard, coll, thread, runners, results>>

-----------------------------------------------------------------------------
TestType == [group : SUBSET Tests, tries : 0 .. NumRetries]
CollType == [queue : Seq(TestType), in_progress : Int, signalled : BOOLEAN]
ThreadType ==
    [pc : {"setup", "absent", "failed", "ready", "waiting", "popping", "completing", "done", "raised"}
              \cup Holding,
     test : TestType, err : Errors \cup {None}]
ResultType == [home : Devices \cup {Shared}, test : Tests, passed : BOOLEAN, tries : 1 .. NumRetries + 1]
MainType ==
    [pc : {"setup", "running", "teardown", "over"},
     how : {None, "raised", "timeout", "returned"}, pass : BOOLEAN,
     unknown : SUBSET [home : Devices \cup {Shared}, test : SUBSET Tests]]

Orders == {q \in [1 .. Cardinality(Groups) -> Groups] : \A g \in Groups : \E i \in DOMAIN q : q[i] = g}

Init ==
    /\ shard \in BOOLEAN
    /\ \E q \in Orders :
          coll = [h \in Homes |-> [queue |-> [i \in DOMAIN q |-> Test(q[i], 0)],
                                   in_progress |-> Cardinality(Groups),
                                   signalled |-> Groups # {}]]
    /\ thread = [d \in Devices |-> [pc |-> "setup", test |-> NoTest, err |-> None]]
    /\ runners = <<>>
    /\ results = {}
    /\ main = [pc |-> "setup", how |-> None, pass |-> FALSE, unknown |-> {}]

Device(d) == SetUp(d) \/ Wake(d) \/ Pop(d) \/ RunTest(d) \/ Raise(d) \/ Add(d) \/ TestCompleted(d)
Main == StartAll \/ JoinAll \/ TearDownRunners

Next == Main \/ TimeOut \/ \E d \in Devices : Device(d)

Spec == Init /\ [][Next]_vars

(* Every thread is scheduled, and a RunTest ends: runners have time-outs of *)
(* their own.                                                               *)
FairSpec == Spec /\ WF_vars(Main) /\ \A d \in Devices : WF_vars(Device(d))

-----------------------------------------------------------------------------
(* Properties. *)

TypeOK ==
    /\ shard \in BOOLEAN
    /\ coll \in [Homes -> CollType]
    /\ thread \in [Devices -> ThreadType]
    /\ runners \in Seq(Devices)
    /\ results \subseteq ResultType
    /\ main \in MainType

(* Whatever fails, a test is in the queue, with a thread, or recorded: a   *)
(* retry keeps the tests that did not pass, and the test of a thread that  *)
(* is given up goes back (_RunTestsFromQueue).                             *)
NoTestLost ==
    \A h \in Homes, t \in Tests :
        \/ \E i \in DOMAIN coll[h].queue : t \in coll[h].queue[i].group
        \/ \E d \in Devices : Home(d) = h /\ t \in thread[d].test.group
        \/ \E r \in results : r.home = h /\ r.test = t

(* A thread leaves a collection only when nobody will put a test back into *)
(* it any more (_pop: "all tests have been handled").                      *)
LeavesWhenAllDone ==
    \A d \in Devices : thread[d].pc = "done" =>
        /\ coll[Home(d)].queue = <<>>
        /\ \A e \in Devices : Home(e) = Home(d) => thread[e].pc \notin Holding

(* What RunTests returns.  A test of a collection that some device was     *)
(* reached for is recorded once or reported unknown: unknown only if all   *)
(* runners of the collection were given up, failed only after its retries. *)
(* A collection none of whose devices could be reached has no runner and is *)
(* not reported at all, and it does not keep the run from passing: the run *)
(* passes if every result there is did.  So when no device is reached      *)
(* nothing is run and the run passes (_SetUp, _RunAllTests).               *)
Reported(h, t) == {r \in results : r.home = h /\ r.test = t}
                     \cup {u \in main.unknown : u.home = h /\ t \in u.test}
Unreached(h) == \A d \in Devices : Home(d) = h => thread[d].pc = "absent"
VerdictButForUnreached ==
    main.how = "returned" =>
        /\ \A h \in Homes, t \in Tests :
              Cardinality(Reported(h, t)) = IF Unreached(h) THEN 0 ELSE 1
        /\ \A u \in main.unknown, d \in Running : Home(d) = u.home => thread[d].pc = "raised"
        /\ \A r \in results : ~r.passed => r.tries = NumRetries + 1
        /\ main.pass <=> \A h \in Homes, t \in Tests :
              Unreached(h) \/ \E r \in results : r.home = h /\ r.test = t /\ r.passed

(* The run ends: no thread waits for ever for an event that nobody sets. *)
RunEnds == <>(main.pc = "over")
=============================================================================
