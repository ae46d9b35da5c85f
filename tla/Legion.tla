------------------------------- MODULE Legion -------------------------------
(***************************************************************************)
(* Legion: a test controller that borrows machines.  Create asks the       *)
(* swarm for a machine; run_task there registers with the controller's     *)
(* registration server under a one-time password, then serves XML-RPC      *)
(* until it is told to Quit or was idle for too long.                      *)
(*                                                                         *)
(* The actors: the controller's main thread, which runs the test and then  *)
(* releases its tasks; the thread of the registration server; and on each  *)
(* machine the thread that serves, the idle thread, the child process the  *)
(* test started and the thread that reads its output.  Both servers handle *)
(* one request at a time, and a call blocks the main thread, so that there *)
(* is one call at most.                                                    *)
(***************************************************************************)
EXTENDS Integers, Sequences, FiniteSets

CONSTANTS
    Tasks,      \* the TaskControllers of the test
    Machines,   \* machines the swarm can give
    MaxCalls,   \* bound on the calls and waits of the test
    MaxOutput,  \* bound on what a child writes
    IdleTicks   \* idle_timeout_secs, in rounds of the idle thread

None == "none"
ASSUME NoneAssumption == None \notin Tasks \cup Machines
ASSUME BoundsAssumption ==
    MaxCalls \in Nat /\ MaxOutput \in Nat /\ IdleTicks \in Nat \ {0}

VARIABLES
    main,         \* the controller's main thread, see MainType
    tasks,        \* [connected, rpc, event, seen] of each TaskController
    expected,     \* the tasks whose password was not used: _expected_tasks
    registration, \* [serving, stopping, queue, machine, step]
    machines,     \* see MachineType
    call,         \* the call the main thread is in, or NoCall
    history       \* what calls did, see TypeOK

vars == <<main, tasks, expected, registration, machines, call, history>>

Kinds == {"start", "read", "wait", "kill", "quit"}
NoCall == [machine |-> None]

MainType == [pc : {"test", "connecting", "calling", "shutdown", "releasing", "exited"},
             task : Tasks \cup {None},   \* of the wait or the call in progress
             back : {"test", "releasing"},
             left : SUBSET Tasks,        \* what ReleaseAllTasks has not seen
             calls : 0 .. MaxCalls]
MachineType == [task : Tasks \cup {None},
                stage : {"absent", "started", "registering", "registered", "serving",
                         "stopped", "exited"},
                child : {"none", "running", "ended"},
                written : 0 .. MaxOutput, pipe : 0 .. MaxOutput, stdout : 0 .. MaxOutput,
                rpc_received : BOOLEAN, shutdown_requested : BOOLEAN,
                left : 0 .. IdleTicks]

-----------------------------------------------------------------------------
(* The main thread: the test. *)

InTest == main.pc = "test"
Counted == main.calls < MaxCalls

\* TaskController.Create: a machine is started for the task, again if the
\* test asks again.
Create(t, m) ==
    /\ InTest /\ Counted
    /\ machines[m].stage = "absent"
    /\ tasks' = [tasks EXCEPT ![t].event = FALSE, ![t].seen = FALSE]
    /\ machines' = [machines EXCEPT ![m].task = t, ![m].stage = "started"]
    /\ main' = [main EXCEPT !.calls = @ + 1]
    /\ UNCHANGED <<expected, registration, call, history>>

\* WaitForConnection.
WaitForConnection(t) ==
    /\ InTest /\ Counted /\ ~tasks[t].seen
    /\ main' = [main EXCEPT !.pc = "connecting", !.task = t, !.calls = @ + 1]
    /\ UNCHANGED <<tasks, expected, registration, machines, call, history>>
Connected ==
    /\ main.pc = "connecting" /\ tasks[main.task].event
    /\ main' = [main EXCEPT !.pc = "test", !.task = None]
    /\ tasks' = [tasks EXCEPT ![main.task].seen = TRUE]
    /\ UNCHANGED <<expected, registration, machines, call, history>>

\* An exception in the test, ConnectionTimeoutError here: it handles it, or
\* RunController does, after which TearDown ran.
TestRaises == main' \in {[main EXCEPT !.pc = "test", !.task = None],
                         [main EXCEPT !.pc = "shutdown", !.task = None]}
ConnectionTimeout ==
    /\ main.pc = "connecting"
    /\ TestRaises
    /\ UNCHANGED <<tasks, expected, registration, machines, call, history>>

\* A call reaches a machine whose socket listens, which it does from the
\* time it serves until its process exits.
Listening(m) == machines[m].stage \in {"serving", "stopped"}
CallMachine(kind, m, t, back) ==
    /\ call' = [machine |-> m, kind |-> kind, value |-> 0,
                stage |-> IF Listening(m) THEN "sent" ELSE "failed"]
    /\ main' = [main EXCEPT !.pc = "calling", !.task = t, !.back = back,
                    !.calls = IF back = "test" THEN @ + 1 ELSE @,
                    !.left = @ \ {t}]

\* A method of the task's rpc, which a test uses once the task is connected.
CallMethod(t, kind) ==
    /\ InTest /\ Counted /\ tasks[t].seen /\ tasks[t].rpc # None
    /\ LET child == machines[tasks[t].rpc].child
       IN  (kind = "start") = (child = "none")
    /\ CallMachine(kind, tasks[t].rpc, t, "test")
    /\ UNCHANGED <<tasks, expected, registration, machines, history>>

\* TaskController.Release: called by the test, or by ReleaseAllTasks.
Release(t, back) ==
    IF tasks[t].rpc # None /\ tasks[t].connected
    THEN CallMachine("quit", tasks[t].rpc, t, back)
    ELSE /\ main' = [main EXCEPT !.left = @ \ {t},
                         !.calls = IF back = "test" THEN @ + 1 ELSE @]
         /\ UNCHANGED call
TestReleases(t) ==
    /\ InTest /\ Counted /\ Release(t, "test")
    /\ UNCHANGED <<tasks, expected, registration, machines, history>>

\* Release forgets the machine whether or not Quit reached it.
Released(t) == [tasks EXCEPT ![t].rpc = None, ![t].connected = FALSE, ![t].seen = FALSE]

\* The call returns to the main thread.
CallReturns ==
    /\ main.pc = "calling" /\ call.stage = "answered"
    /\ call' = NoCall
    /\ main' = [main EXCEPT !.pc = main.back, !.task = None]
    /\ tasks' = IF call.kind = "quit" THEN Released(main.task) ELSE tasks
    /\ history' = [history EXCEPT !.received[call.machine] = @ + call.value,
                       !.released = IF call.kind = "quit" THEN @ \cup {main.task} ELSE @]
    /\ UNCHANGED <<expected, registration, machines>>
CallFails ==
    /\ main.pc = "calling" /\ call.stage = "failed"
    /\ call' = NoCall
    /\ IF call.kind = "quit"
       THEN /\ main' = [main EXCEPT !.pc = main.back, !.task = None]
            /\ tasks' = Released(main.task)
            /\ history' = [history EXCEPT !.released = @ \cup {main.task}]
       ELSE TestRaises /\ UNCHANGED <<tasks, history>>
    /\ UNCHANGED <<expected, registration, machines>>

(* RunController after the test. *)
TestEnds ==
    /\ InTest
    /\ main' = [main EXCEPT !.pc = "shutdown"]
    /\ UNCHANGED <<tasks, expected, registration, machines, call, history>>

\* TaskRegistrationServer.Shutdown waits for the request being handled; the
\* socket stays open and keeps accepting.
RequestShutdown ==
    /\ main.pc = "shutdown" /\ ~registration.stopping
    /\ registration' = [registration EXCEPT !.stopping = TRUE]
    /\ UNCHANGED <<main, tasks, expected, machines, call, history>>
ShutdownReturns ==
    /\ main.pc = "shutdown" /\ ~registration.serving
    /\ main' = [main EXCEPT !.pc = "releasing", !.left = Tasks]
    /\ UNCHANGED <<tasks, expected, registration, machines, call, history>>
ReleaseNext ==
    /\ main.pc = "releasing" /\ main.left # {}
    /\ \E t \in main.left : Release(t, "releasing")
    /\ UNCHANGED <<tasks, expected, registration, machines, history>>

\* The controller's process ends, or is killed: what waits for its
\* registration server fails, and a machine finishes the call it got.
Abandoned(m) == machines[m].stage = "registering"
Exit ==
    /\ main' = [main EXCEPT !.pc = "exited", !.task = None]
    /\ registration' = [registration EXCEPT !.serving = FALSE, !.queue = <<>>, !.machine = None]
    /\ machines' = [m \in Machines |->
                       IF Abandoned(m) THEN [machines[m] EXCEPT !.stage = "exited"]
                       ELSE machines[m]]
    /\ UNCHANGED <<tasks, expected, call, history>>
ControllerExits == main.pc = "releasing" /\ main.left = {} /\ Exit
ControllerKilled == main.pc # "exited" /\ Exit

-----------------------------------------------------------------------------
(* The registration server. *)

\* run_task connects: the request waits while the socket is open, also when
\* the server no longer serves it.
Connect(m) ==
    /\ machines[m].stage = "started"
    /\ IF main.pc = "exited"
       THEN /\ machines' = [machines EXCEPT ![m].stage = "exited"]
            /\ UNCHANGED registration
       ELSE /\ machines' = [machines EXCEPT ![m].stage = "registering"]
            /\ registration' = [registration EXCEPT !.queue = Append(@, m)]
    /\ UNCHANGED <<main, tasks, expected, call, history>>

Registering == registration.machine # None
RegisteringTask == machines[registration.machine].task
TakeRequest ==
    /\ registration.serving /\ ~registration.stopping /\ ~Registering
    /\ registration.queue # <<>>
    /\ registration' = [registration EXCEPT !.queue = Tail(@), !.machine = Head(registration.queue),
                                            !.step = "otp"]
    /\ UNCHANGED <<main, tasks, expected, machines, call, history>>

\* _RegisterTaskRPC: a password that is not expected is a fault, which ends
\* run_task; otherwise it is taken and OnConnect called.
UsedTwice(e, t) == e
UsedOnce(e, t) == e \ {t}
CheckOtp ==
    /\ Registering /\ registration.step = "otp"
    /\ IF RegisteringTask \in expected
       THEN /\ expected' = UsedOnce(expected, RegisteringTask)
            /\ registration' = [registration EXCEPT !.step = "connected"]
            /\ UNCHANGED machines
       ELSE /\ registration' = [registration EXCEPT !.machine = None]
            /\ machines' = [machines EXCEPT ![registration.machine].stage = "exited"]
            /\ UNCHANGED expected
    /\ UNCHANGED <<main, tasks, call, history>>

\* OnConnect, in the registration server's thread: the main thread may run
\* between any two of its assignments.
StepsEventFirst == <<"connected", "event", "rpc", "reply">>
Steps == <<"connected", "rpc", "event", "reply">>
StepAfter(step) == LET i == CHOOSE i \in 1 .. 3 : Steps[i] = step IN Steps[i + 1]
OnConnect ==
    /\ Registering /\ registration.step \in {"connected", "rpc", "event"}
    /\ LET t == RegisteringTask
       IN  tasks' = CASE registration.step = "connected" -> [tasks EXCEPT ![t].connected = TRUE]
                      [] registration.step = "rpc" -> [tasks EXCEPT ![t].rpc = registration.machine]
                      [] OTHER -> [tasks EXCEPT ![t].event = TRUE]
    /\ registration' = [registration EXCEPT !.step = StepAfter(@)]
    /\ UNCHANGED <<main, expected, machines, call, history>>
ReplyRegistered ==
    /\ Registering /\ registration.step = "reply"
    /\ machines' = [machines EXCEPT ![registration.machine].stage = "registered"]
    /\ registration' = [registration EXCEPT !.machine = None]
    /\ history' = [history EXCEPT !.registered = @ \cup {registration.machine}]
    /\ UNCHANGED <<main, tasks, expected, call>>
RegistrationStops ==
    /\ registration.serving /\ registration.stopping /\ ~Registering
    /\ registration' = [registration EXCEPT !.serving = FALSE]
    /\ UNCHANGED <<main, tasks, expected, machines, call, history>>

-----------------------------------------------------------------------------
(* A machine. *)

\* serve_forever starts the idle thread.
Serve(m) ==
    /\ machines[m].stage = "registered"
    /\ machines' = [machines EXCEPT ![m].stage = "serving", ![m].left = IdleTicks]
    /\ UNCHANGED <<main, tasks, expected, registration, call, history>>

Pending(m, stage) == call.machine = m /\ call.stage = stage
TakeCall(m) ==
    /\ machines[m].stage = "serving" /\ Pending(m, "sent")
    /\ call' = [call EXCEPT !.stage = "handling"]
    /\ machines' = [machines EXCEPT ![m].rpc_received = TRUE]
    /\ UNCHANGED <<main, tasks, expected, registration, history>>

\* The methods: Process and Start, ReadStdout, Wait, Kill, Quit.
NotFlushed(d) == d
Flushed(d) == [d EXCEPT !.stdout = 0]
Finished(d) == d.child # "running"
ShutdownInHandler(kind, d) == kind # "quit" /\ (kind = "wait" => Finished(d))
CanAnswer(kind, d) == kind = "wait" => Finished(d)
Answer(m) ==
    /\ Pending(m, "handling")
    /\ CanAnswer(call.kind, machines[m])
    /\ call' = [call EXCEPT !.stage = "answered",
                    !.value = IF call.kind = "read" THEN machines[m].stdout ELSE 0]
    /\ machines' = [machines EXCEPT ![m] =
          CASE call.kind = "start" -> [@ EXCEPT !.child = "running"]
            [] call.kind = "read"  -> Flushed(@)
            [] call.kind = "kill"  -> [@ EXCEPT !.child = "ended"]
            [] call.kind = "quit"  -> [@ EXCEPT !.shutdown_requested = TRUE]
            [] OTHER -> @]
    /\ UNCHANGED <<main, tasks, expected, registration, history>>

\* _CheckForIdleQuit, one round: time is up, or the idle time starts again
\* if a call was received since the last round.
HeardForever(d) == [d EXCEPT !.left = IdleTicks]
Heard(d) == [d EXCEPT !.left = IdleTicks, !.rpc_received = FALSE]
OneRoundLess(d) == [d EXCEPT !.left = @ - 1]
IdleRound(m) ==
    /\ machines[m].stage = "serving" /\ ~machines[m].shutdown_requested
    /\ machines' = [machines EXCEPT ![m] =
          IF @.left = 0 THEN [@ EXCEPT !.shutdown_requested = TRUE]
          ELSE IF @.rpc_received THEN Heard(@)
          ELSE OneRoundLess(@)]
    /\ UNCHANGED <<main, tasks, expected, registration, call, history>>

\* The server stops between two requests; a call that comes now waits until
\* the process is gone, which it is when its child is and the reader is done.
StopServing(m) ==
    /\ machines[m].stage = "serving" /\ machines[m].shutdown_requested
    /\ ~Pending(m, "handling")
    /\ machines' = [machines EXCEPT ![m].stage = "stopped"]
    /\ UNCHANGED <<main, tasks, expected, registration, call, history>>
MachineExits(m) ==
    /\ machines[m].stage = "stopped"
    /\ Finished(machines[m]) /\ machines[m].pipe = 0
    /\ machines' = [machines EXCEPT ![m].stage = "exited"]
    /\ call' = IF Pending(m, "sent") THEN [call EXCEPT !.stage = "failed"] ELSE call
    /\ UNCHANGED <<main, tasks, expected, registration, history>>

\* The child writes and ends; _reader moves what it wrote.
ChildWrites(m) ==
    /\ machines[m].child = "running" /\ machines[m].written < MaxOutput
    /\ machines' = [machines EXCEPT ![m].written = @ + 1, ![m].pipe = @ + 1]
    /\ UNCHANGED <<main, tasks, expected, registration, call, history>>
ChildEnds(m) ==
    /\ machines[m].child = "running"
    /\ machines' = [machines EXCEPT ![m].child = "ended"]
    /\ UNCHANGED <<main, tasks, expected, registration, call, history>>
Reader(m) ==
    /\ machines[m].pipe > 0
    /\ machines' = [machines EXCEPT ![m].pipe = @ - 1, ![m].stdout = @ + 1]
    /\ UNCHANGED <<main, tasks, expected, registration, call, history>>

-----------------------------------------------------------------------------
Init ==
    /\ main = [pc |-> "test", task |-> None, back |-> "test", left |-> {}, calls |-> 0]
    /\ tasks = [t \in Tasks |-> [connected |-> FALSE, rpc |-> None, event |-> FALSE,
                                 seen |-> FALSE]]
    /\ expected = Tasks
    /\ registration = [serving |-> TRUE, stopping |-> FALSE, queue |-> <<>>,
                       machine |-> None, step |-> "otp"]
    /\ machines = [m \in Machines |->
          [task |-> None, stage |-> "absent", child |-> "none", written |-> 0, pipe |-> 0,
           stdout |-> 0, rpc_received |-> FALSE, shutdown_requested |-> FALSE, left |-> IdleTicks]]
    /\ call = NoCall
    /\ history = [registered |-> {}, released |-> {}, received |-> [m \in Machines |-> 0]]

MainThread ==
    \/ \E t \in Tasks : \/ \E m \in Machines : Create(t, m)
                        \/ WaitForConnection(t)
                        \/ TestReleases(t)
                        \/ \E kind \in Kinds \ {"quit"} : CallMethod(t, kind)
    \/ Connected \/ ConnectionTimeout \/ CallReturns \/ CallFails
    \/ TestEnds \/ RequestShutdown \/ ShutdownReturns \/ ReleaseNext \/ ControllerExits
RegistrationThread ==
    TakeRequest \/ CheckOtp \/ OnConnect \/ ReplyRegistered \/ RegistrationStops
ServerThread(m) ==
    Connect(m) \/ Serve(m) \/ TakeCall(m) \/ Answer(m) \/ StopServing(m) \/ MachineExits(m)

Next ==
    \/ MainThread \/ ControllerKilled \/ RegistrationThread
    \/ \E m \in Machines : \/ ServerThread(m) \/ IdleRound(m)
                           \/ ChildWrites(m) \/ ChildEnds(m) \/ Reader(m)

Spec == Init /\ [][Next]_vars

\* Every thread runs, a test ends, and so does a child: Wait has no timeout.
\* Nothing obliges the controller to be killed or a child to write.
Fairness ==
    /\ WF_vars(MainThread) /\ WF_vars(RegistrationThread)
    /\ \A m \in Machines : /\ WF_vars(ServerThread(m)) /\ WF_vars(IdleRound(m))
                           /\ WF_vars(ChildEnds(m)) /\ WF_vars(Reader(m))
FairSpec == Spec /\ Fairness
-----------------------------------------------------------------------------
(* Properties. *)

TypeOK ==
    /\ main \in MainType
    /\ tasks \in [Tasks -> [connected : BOOLEAN, rpc : Machines \cup {None},
                            event : BOOLEAN, seen : BOOLEAN]]
    /\ expected \subseteq Tasks
    /\ registration \in [serving : BOOLEAN, stopping : BOOLEAN, queue : Seq(Machines),
                         machine : Machines \cup {None},
                         step : {"otp", "connected", "rpc", "event", "reply"}]
    /\ machines \in [Machines -> MachineType]
    /\ call = NoCall \/ call \in [machine : Machines, kind : Kinds, value : 0 .. MaxOutput,
                                  stage : {"sent", "handling", "answered", "failed"}]
    /\ history \in [registered : SUBSET Machines, released : SUBSET Tasks,
                    received : [Machines -> 0 .. MaxOutput]]

\* However often the test creates a task, one machine at most registers for
\* it, and that machine is the one its rpc calls.
OneMachinePerTask ==
    /\ \A m, n \in history.registered : machines[m].task = machines[n].task => m = n
    /\ \A t \in Tasks : tasks[t].rpc # None => machines[tasks[t].rpc].task = t

\* When WaitForConnection has returned, the task's rpc addresses a machine that
\* asked to register for it, unless the task was released while it connected:
\* OnConnect sets the event last.  Not that the machine can be called: it
\* registers before its server listens, so that a first call may be refused.
ConnectedHasMachine ==
    \A t \in Tasks : tasks[t].seen /\ t \notin history.released =>
        /\ tasks[t].rpc # None
        /\ machines[tasks[t].rpc].task = t
        /\ machines[tasks[t].rpc].stage \notin {"absent", "started"}

\* Nothing a child wrote is lost or read twice, by the reader thread or by
\* calls of ReadStdout while it runs.
OutputExact ==
    \A m \in Machines :
        LET answering == IF call.machine = m /\ call.stage = "answered" THEN call.value ELSE 0
        IN  machines[m].written = machines[m].pipe + machines[m].stdout + answering
                                    + history.received[m]

\* RunController always ends: no call, registration or shutdown blocks its
\* main thread for ever, if the children end.
ControllerEnds == <>(main.pc = "exited")

\* A machine that was created is given back: it is told to quit, or its
\* registration fails, or the idle thread sees to it, also when the
\* controller was killed or Quit was refused; provided that its child ends.
EveryMachineFreed ==
    \A m \in Machines : machines[m].stage # "absent" ~> machines[m].stage = "exited"
=============================================================================
