----------------------------- MODULE LegionProofs -----------------------------
(***************************************************************************)
(* Proofs about Legion, for every set of tasks and machines and every      *)
(* bound.                                                                  *)
(***************************************************************************)
EXTENDS Legion, TLAPS

TaskType == [connected : BOOLEAN, rpc : Machines \cup {None}, event : BOOLEAN, seen : BOOLEAN]
CallType == [machine : Machines, kind : Kinds, value : 0 .. MaxOutput,
             stage : {"sent", "handling", "answered", "failed"}]
Queues == Seq(Machines)
RegistrationType == [serving : BOOLEAN, stopping : BOOLEAN, queue : Queues,
                     machine : Machines \cup {None},
                     step : {"otp", "connected", "rpc", "event", "reply"}]
HistoryType == [registered : SUBSET Machines, released : SUBSET Tasks,
                received : [Machines -> 0 .. MaxOutput]]

LEMMA TypeParts ==
    TypeOK <=> /\ main \in MainType /\ tasks \in [Tasks -> TaskType] /\ expected \subseteq Tasks
               /\ registration \in RegistrationType /\ machines \in [Machines -> MachineType]
               /\ call \in CallType \cup {NoCall} /\ history \in HistoryType
BY DEF TypeOK, TaskType, CallType, RegistrationType, HistoryType, Queues

LEMMA TypesNext ==
    ASSUME main' \in MainType, tasks' \in [Tasks -> TaskType], expected' \subseteq Tasks,
           registration' \in RegistrationType, machines' \in [Machines -> MachineType],
           call' \in CallType \cup {NoCall}, history' \in HistoryType
    PROVE  TypeOK'
BY DEF TypeOK, TaskType, CallType, RegistrationType, HistoryType, Queues

(* The main thread: where it is, of which task, and one step counted.      *)
LEMMA CountedStep ==
    ASSUME TypeOK, Counted
    PROVE  main.calls + 1 \in 0 .. MaxCalls
BY TypeParts, BoundsAssumption DEF Counted, MainType

-----------------------------------------------------------------------------
(* One machine. *)

(* What every step keeps of a machine that has asked to register.          *)
Early == {"absent", "started"}
Kept(d, r) == d.stage \notin Early => r.stage \notin Early /\ r.task = d.task
SameOutput(d, r) == r.written = d.written /\ r.pipe = d.pipe /\ r.stdout = d.stdout

Stages == {"started", "registering", "registered", "serving", "stopped", "exited"}

LEMMA StageSet ==
    ASSUME NEW d \in MachineType, NEW s \in Stages
    PROVE  LET r == [d EXCEPT !.stage = s]
           IN  /\ r \in MachineType /\ SameOutput(d, r) /\ r.stage = s /\ r.task = d.task
               /\ s # "started" => Kept(d, r)
BY DEF MachineType, Stages, Kept, SameOutput, Early

LEMMA LeftSet ==
    ASSUME NEW d \in MachineType, NEW n \in 0 .. IdleTicks
    PROVE  LET r == [d EXCEPT !.left = n]
           IN  r \in MachineType /\ Kept(d, r) /\ SameOutput(d, r)
BY DEF MachineType, Kept, SameOutput

LEMMA ReceivedSet ==
    ASSUME NEW d \in MachineType, NEW b \in BOOLEAN
    PROVE  LET r == [d EXCEPT !.rpc_received = b]
           IN  r \in MachineType /\ Kept(d, r) /\ SameOutput(d, r)
BY DEF MachineType, Kept, SameOutput

LEMMA RequestedSet ==
    ASSUME NEW d \in MachineType
    PROVE  LET r == [d EXCEPT !.shutdown_requested = TRUE]
           IN  r \in MachineType /\ Kept(d, r) /\ SameOutput(d, r)
BY DEF MachineType, Kept, SameOutput

LEMMA ChildSet ==
    ASSUME NEW d \in MachineType, NEW c \in {"running", "ended"}
    PROVE  LET r == [d EXCEPT !.child = c]
           IN  r \in MachineType /\ Kept(d, r) /\ SameOutput(d, r)
BY DEF MachineType, Kept, SameOutput

LEMMA TaskSet ==
    ASSUME NEW d \in MachineType, NEW t \in Tasks
    PROVE  LET r == [d EXCEPT !.task = t]
           IN  r \in MachineType /\ SameOutput(d, r) /\ r.task = t /\ r.stage = d.stage
BY DEF MachineType, SameOutput

(* The machine m becomes r, the others stay.                               *)
LEMMA OneMachine ==
    ASSUME machines \in [Machines -> MachineType], NEW m \in Machines, NEW r \in MachineType,
           Kept(machines[m], r), machines' = [machines EXCEPT ![m] = r]
    PROVE  /\ machines' \in [Machines -> MachineType]
           /\ machines'[m] = r
           /\ \A n \in Machines \ {m} : machines'[n] = machines[n]
           /\ \A n \in Machines : Kept(machines[n], machines'[n])
           /\ SameOutput(machines[m], r) => \A n \in Machines : SameOutput(machines[n], machines'[n])
BY DEF Kept, SameOutput

LEMMA SameMachines ==
    ASSUME machines' = machines
    PROVE  \A n \in Machines : Kept(machines[n], machines'[n]) /\ SameOutput(machines[n], machines'[n])
BY DEF Kept, SameOutput

-----------------------------------------------------------------------------
(* The invariant. *)

(* A password is used once: what is registered, or about to be, took its   *)
(* task from the expected ones.                                            *)
Taken(t) == t \notin expected /\ \A n \in history.registered : machines[n].task # t
Once ==
    /\ \A i \in DOMAIN registration.queue : machines[registration.queue[i]].stage \notin Early
    /\ Registering =>
         /\ machines[registration.machine].stage \notin Early
         /\ registration.step # "otp" => RegisteringTask \in Tasks /\ Taken(RegisteringTask)
    /\ \A n \in history.registered :
         machines[n].stage \notin Early /\ machines[n].task \notin expected
    /\ \A m, n \in history.registered : machines[m].task = machines[n].task => m = n
    /\ \A t \in Tasks : tasks[t].rpc # None =>
         machines[tasks[t].rpc].stage \notin Early /\ machines[tasks[t].rpc].task = t

(* The main thread is in a call exactly while it is calling.               *)
Calls ==
    /\ main.pc \in {"test", "connecting", "shutdown", "releasing"} => call = NoCall
    /\ main.pc = "calling" => call \in CallType
    /\ main.pc \in {"calling", "connecting"} => main.task \in Tasks

Answering(m) == IF call.machine = m /\ call.stage = "answered" THEN call.value ELSE 0
Output ==
    \A m \in Machines :
        machines[m].written = machines[m].pipe + machines[m].stdout + Answering(m)
                                + history.received[m]

(* The event of a task is set after its rpc.                               *)
Addressed ==
    /\ \A t \in Tasks : (tasks[t].event \/ tasks[t].seen) /\ t \notin history.released =>
                           tasks[t].rpc # None
    /\ Registering /\ registration.step \in {"event", "reply"} /\ RegisteringTask \notin history.released
         => tasks[RegisteringTask].rpc # None

IInv == TypeOK /\ Once /\ Calls /\ Output /\ Addressed

(* What keeps each part. *)
LEMMA OnceKept ==
    ASSUME TypeOK, Once,
           \A n \in Machines : Kept(machines[n], machines'[n]),
           expected' = expected, history'.registered = history.registered,
           registration'.machine = registration.machine, registration'.step = registration.step,
           \A i \in DOMAIN registration'.queue :
              machines'[registration'.queue[i]].stage \notin Early,
           \A t \in Tasks : tasks'[t].rpc \in {None, tasks[t].rpc}
    PROVE  Once'
<1> USE TypeParts
<1>1. /\ registration.machine \in Machines \cup {None} /\ history.registered \subseteq Machines
      /\ \A t \in Tasks : tasks[t].rpc \in Machines \cup {None}
  BY DEF RegistrationType, HistoryType, TaskType
<1>2. Registering' => Registering /\ RegisteringTask' = RegisteringTask /\ Taken(RegisteringTask)' = Taken(RegisteringTask)
  BY <1>1 DEF Once, Registering, RegisteringTask, Taken, Kept
<1> QED BY <1>1, <1>2 DEF Once, Registering, RegisteringTask, Taken, Kept

LEMMA OutputKept ==
    ASSUME TypeOK, Output, \A n \in Machines : SameOutput(machines[n], machines'[n]),
           history'.received = history.received, \A n \in Machines : Answering(n)' = Answering(n)
    PROVE  Output'
BY DEF Output, SameOutput

LEMMA AddressedKept ==
    ASSUME TypeOK, Once, Addressed,
           \A n \in Machines : Kept(machines[n], machines'[n]),
           history'.released = history.released,
           registration'.machine = registration.machine, registration'.step = registration.step,
           \A t \in Tasks : /\ tasks'[t].rpc = tasks[t].rpc
                            /\ tasks'[t].event \/ tasks'[t].seen => tasks[t].event \/ tasks[t].seen
    PROVE  Addressed'
<1>1. /\ registration.machine \in Machines \cup {None}
  BY TypeParts DEF RegistrationType
<1>2. Registering' => Registering /\ RegisteringTask' = RegisteringTask
  BY <1>1 DEF Once, Registering, RegisteringTask, Kept
<1> QED BY <1>2 DEF Addressed, Once, Registering

(* What keeps the queue. *)
LEMMA QueueKept ==
    ASSUME TypeOK, Once, registration'.queue = registration.queue,
           \A n \in Machines : Kept(machines[n], machines'[n])
    PROVE  \A i \in DOMAIN registration'.queue : machines'[registration'.queue[i]].stage \notin Early
<1>1. \A i \in DOMAIN registration.queue : registration.queue[i] \in Machines
  BY TypeParts DEF RegistrationType, Queues
<1> QED BY <1>1 DEF Once, Kept

(* Steps of the main thread that leave machines and registration alone.    *)
LEMMA MainKept ==
    ASSUME IInv, UNCHANGED <<expected, machines, history>>,
           registration'.queue = registration.queue, registration'.machine = registration.machine,
           registration'.step = registration.step,
           \A n \in Machines : Answering(n)' = Answering(n),
           \A t \in Tasks : /\ tasks'[t].rpc = tasks[t].rpc
                            /\ tasks'[t].event \/ tasks'[t].seen => tasks[t].event \/ tasks[t].seen
    PROVE  Once' /\ Output' /\ Addressed'
<1>1. TypeOK /\ Once /\ Output /\ Addressed
  BY DEF IInv
<1>2. \A n \in Machines : Kept(machines[n], machines'[n]) /\ SameOutput(machines[n], machines'[n])
  BY SameMachines
<1>3. Once'
  BY <1>1, <1>2, OnceKept, QueueKept
<1>4. Output' /\ Addressed'
  BY <1>1, <1>2, OutputKept, AddressedKept
<1> QED BY <1>3, <1>4

-----------------------------------------------------------------------------
(* The steps. *)

LEMMA InitInv == Init => IInv
<1> SUFFICES ASSUME Init PROVE IInv
  OBVIOUS
<1>1. IdleTicks \in 0 .. IdleTicks /\ 0 \in 0 .. MaxOutput /\ 0 \in 0 .. MaxCalls
  BY BoundsAssumption
<1>2. main \in MainType /\ tasks \in [Tasks -> TaskType] /\ expected \subseteq Tasks
  BY <1>1 DEF Init, MainType, TaskType
<1>3. registration \in RegistrationType /\ call \in CallType \cup {NoCall}
  BY DEF Init, RegistrationType, Queues
<1>4. machines \in [Machines -> MachineType]
  BY <1>1 DEF Init, MachineType
<1>5. history \in HistoryType
  BY <1>1 DEF Init, HistoryType
<1>6. TypeOK
  BY <1>2, <1>3, <1>4, <1>5, TypeParts
<1>7. Once /\ Calls /\ Addressed
  BY DEF Init, Once, Calls, Addressed, Registering
<1>8. Output
  BY NoneAssumption DEF Init, Output, Answering, NoCall
<1> QED BY <1>6, <1>7, <1>8 DEF IInv

LEMMA CreateInv ==
    ASSUME IInv, NEW t \in Tasks, NEW m \in Machines, Create(t, m)
    PROVE  IInv'
<1> DEFINE d == machines[m]
           e == [d EXCEPT !.task = t]
           r == [e EXCEPT !.stage = "started"]
<1>1. /\ d \in MachineType /\ d.stage = "absent" /\ "started" \in Stages
      /\ machines \in [Machines -> MachineType]
  BY TypeParts DEF IInv, Create, Stages
<1>2. e \in MachineType /\ SameOutput(d, e)
  BY <1>1, TaskSet
<1> HIDE DEF e
<1>3. r \in MachineType /\ r.stage = "started" /\ SameOutput(d, r)
  BY <1>1, <1>2, StageSet DEF SameOutput
<1>4. Kept(d, r)
  BY <1>1 DEF Kept, Early
<1>5. machines' = [machines EXCEPT ![m] = r]
  BY <1>1 DEF Create, e
<1> HIDE DEF r
<1>6. /\ machines' \in [Machines -> MachineType]
      /\ \A n \in Machines : Kept(machines[n], machines'[n]) /\ SameOutput(machines[n], machines'[n])
  BY <1>1, <1>3, <1>4, <1>5, OneMachine
<1>7. /\ tasks' \in [Tasks -> TaskType]
      /\ \A u \in Tasks : /\ tasks'[u].rpc = tasks[u].rpc
                          /\ tasks'[u].event \/ tasks'[u].seen => tasks[u].event \/ tasks[u].seen
  <2>1. tasks \in [Tasks -> TaskType] /\ tasks' = [tasks EXCEPT ![t].event = FALSE, ![t].seen = FALSE]
    BY TypeParts DEF IInv, Create
  <2>2. tasks' \in [Tasks -> TaskType]
    BY <2>1 DEF TaskType
  <2>3. ASSUME NEW u \in Tasks
        PROVE  /\ tasks'[u].rpc = tasks[u].rpc
               /\ tasks'[u].event \/ tasks'[u].seen => tasks[u].event \/ tasks[u].seen
    <3>1. CASE u = t
      BY <2>1, <3>1 DEF TaskType
    <3>2. CASE u # t
      <4>1. tasks'[u] = tasks[u]
        BY <2>1, <3>2
      <4> QED BY <4>1
    <3> QED BY <3>1, <3>2
  <2> QED BY <2>2, <2>3
<1>8. main' \in MainType /\ main'.pc = main.pc /\ main'.task = main.task
  <2> DEFINE n == main.calls + 1
  <2>1. n \in 0 .. MaxCalls
    BY CountedStep DEF IInv, Create
  <2>2. main' = [main EXCEPT !.calls = n] /\ main \in MainType
    BY TypeParts DEF IInv, Create, MainType
  <2> HIDE DEF n
  <2> QED BY <2>1, <2>2 DEF MainType
<1>9. UNCHANGED <<expected, registration, call, history>>
  BY DEF Create
<1>10. TypeOK'
  BY <1>6, <1>7, <1>8, <1>9, TypeParts, TypesNext DEF IInv
<1>11. Once' /\ Addressed'
  BY <1>6, <1>7, <1>9, OnceKept, AddressedKept, QueueKept DEF IInv
<1>12. Output'
  BY <1>6, <1>9, OutputKept DEF IInv, Answering
<1>13. Calls'
  BY <1>8, <1>9 DEF IInv, Calls
<1> QED BY <1>10, <1>11, <1>12, <1>13 DEF IInv

(* Steps of the test that only move the main thread.                       *)
LEMMA WaitInv ==
    ASSUME IInv, NEW t \in Tasks, WaitForConnection(t)
    PROVE  IInv'
<1>1. main' \in MainType /\ main'.pc = "connecting" /\ main'.task = t /\ main.pc = "test"
  <2> DEFINE n == main.calls + 1
  <2>1. n \in 0 .. MaxCalls /\ main.pc = "test"
    BY CountedStep DEF IInv, WaitForConnection, InTest
  <2>2. main' = [main EXCEPT !.pc = "connecting", !.task = t, !.calls = n] /\ main \in MainType
    BY TypeParts DEF IInv, WaitForConnection, MainType
  <2> HIDE DEF n
  <2> QED BY <2>1, <2>2 DEF MainType
<1>2. UNCHANGED <<tasks, expected, registration, machines, call, history>>
  BY DEF WaitForConnection
<1>3. TypeOK' /\ Calls'
  BY <1>1, <1>2, TypeParts, TypesNext DEF IInv, Calls
<1>4. Once' /\ Output' /\ Addressed'
  BY <1>2, MainKept DEF Answering
<1> QED BY <1>3, <1>4 DEF IInv

LEMMA ConnectedInv ==
    ASSUME IInv, Connected
    PROVE  IInv'
<1>1. main' \in MainType /\ main'.pc = "test" /\ main.pc = "connecting" /\ main.task \in Tasks
  BY TypeParts DEF IInv, Connected, MainType, Calls
<1>2. UNCHANGED <<expected, registration, machines, call, history>>
  BY DEF Connected
<1>3. /\ tasks' \in [Tasks -> TaskType]
      /\ \A u \in Tasks : /\ tasks'[u].rpc = tasks[u].rpc
                          /\ tasks'[u].event \/ tasks'[u].seen => tasks[u].event \/ tasks[u].seen
  BY <1>1, TypeParts DEF IInv, Connected, TaskType
<1>4. TypeOK' /\ Calls'
  BY <1>1, <1>2, <1>3, TypeParts, TypesNext DEF IInv, Calls
<1>5. Once' /\ Output' /\ Addressed'
  BY <1>2, <1>3, MainKept DEF Answering
<1> QED BY <1>4, <1>5 DEF IInv

LEMMA Raises ==
    ASSUME TypeOK, TestRaises
    PROVE  main' \in MainType /\ main'.pc \in {"test", "shutdown"}
BY TypeParts DEF TestRaises, MainType

LEMMA TimeoutInv ==
    ASSUME IInv, ConnectionTimeout
    PROVE  IInv'
<1>1. main' \in MainType /\ main'.pc \in {"test", "shutdown"} /\ main.pc = "connecting"
  BY Raises DEF IInv, ConnectionTimeout
<1>2. UNCHANGED <<tasks, expected, registration, machines, call, history>>
  BY DEF ConnectionTimeout
<1>3. TypeOK' /\ Calls'
  BY <1>1, <1>2, TypeParts, TypesNext DEF IInv, Calls
<1>4. Once' /\ Output' /\ Addressed'
  BY <1>2, MainKept DEF Answering
<1> QED BY <1>3, <1>4 DEF IInv

(* A call that is made has not been answered.                              *)
LEMMA CallMade ==
    ASSUME IInv, NEW kind \in Kinds, NEW m \in Machines, NEW t \in Tasks,
           NEW back \in {"test", "releasing"}, back = "test" => Counted,
           call = NoCall, CallMachine(kind, m, t, back)
    PROVE  /\ main' \in MainType /\ main'.pc = "calling" /\ main'.task = t
           /\ call' \in CallType
           /\ \A n \in Machines : Answering(n)' = Answering(n)
<1>1. main' \in MainType /\ main'.pc = "calling" /\ main'.task = t
  <2> DEFINE n == IF back = "test" THEN main.calls + 1 ELSE main.calls
  <2>1. main \in MainType
    BY TypeParts DEF IInv
  <2>2. n \in 0 .. MaxCalls
    BY <2>1, CountedStep DEF IInv, MainType
  <2>3. main' = [main EXCEPT !.pc = "calling", !.task = t, !.back = back, !.calls = n,
                             !.left = @ \ {t}]
    BY <2>1 DEF CallMachine, MainType
  <2> HIDE DEF n
  <2> QED BY <2>1, <2>2, <2>3 DEF MainType
<1>2. call' \in CallType /\ call'.stage \in {"sent", "failed"}
  BY BoundsAssumption DEF CallMachine, CallType
<1>3. \A n \in Machines : Answering(n)' = Answering(n)
  BY <1>2, NoneAssumption DEF Answering, NoCall
<1> QED BY <1>1, <1>2, <1>3

LEMMA CallMethodInv ==
    ASSUME IInv, NEW t \in Tasks, NEW kind \in Kinds, CallMethod(t, kind)
    PROVE  IInv'
<1>1. /\ main.pc = "test" /\ Counted /\ tasks[t].rpc \in Machines
      /\ CallMachine(kind, tasks[t].rpc, t, "test")
      /\ UNCHANGED <<tasks, expected, registration, machines, history>>
  BY TypeParts DEF IInv, CallMethod, InTest, TaskType
<1>2. /\ main' \in MainType /\ main'.pc = "calling" /\ main'.task = t /\ call' \in CallType
      /\ \A n \in Machines : Answering(n)' = Answering(n)
  BY <1>1, CallMade DEF IInv, Calls
<1>3. TypeOK' /\ Calls'
  BY <1>1, <1>2, TypeParts, TypesNext DEF IInv, Calls
<1>4. Once' /\ Output' /\ Addressed'
  BY <1>1, <1>2, MainKept
<1> QED BY <1>3, <1>4 DEF IInv

LEMMA ReleaseInv ==
    ASSUME IInv, NEW t \in Tasks, NEW back \in {"test", "releasing"}, main.pc = back,
           back = "test" => Counted, Release(t, back),
           UNCHANGED <<tasks, expected, registration, machines, history>>
    PROVE  IInv'
<1>1. call = NoCall
  BY DEF IInv, Calls
<1>2. /\ main' \in MainType /\ call' \in CallType \cup {NoCall}
      /\ \A n \in Machines : Answering(n)' = Answering(n)
      /\ \/ main'.pc = "calling" /\ call' \in CallType /\ main'.task = t
         \/ main'.pc = back /\ call' = NoCall
  <2>1. CASE tasks[t].rpc # None /\ tasks[t].connected
    <3>1. tasks[t].rpc \in Machines /\ "quit" \in Kinds /\ CallMachine("quit", tasks[t].rpc, t, back)
      BY <2>1, TypeParts DEF IInv, Release, TaskType, Kinds
    <3> QED BY <1>1, <3>1, CallMade
  <2>2. CASE ~(tasks[t].rpc # None /\ tasks[t].connected)
    <3>1. call' = call /\ \A n \in Machines : Answering(n)' = Answering(n)
      BY <2>2 DEF Release, Answering
    <3>2. main' \in MainType /\ main'.pc = back
      <4> DEFINE n == IF back = "test" THEN main.calls + 1 ELSE main.calls
      <4>1. main \in MainType
        BY TypeParts DEF IInv
      <4>2. n \in 0 .. MaxCalls
        BY <4>1, CountedStep DEF IInv, MainType
      <4>3. main' = [main EXCEPT !.left = @ \ {t}, !.calls = n]
        BY <2>2, <4>1 DEF Release, MainType
      <4> HIDE DEF n
      <4> QED BY <4>1, <4>2, <4>3 DEF MainType
    <3> QED BY <1>1, <3>1, <3>2
  <2> QED BY <2>1, <2>2
<1>3. TypeOK' /\ Calls'
  BY <1>2, TypeParts, TypesNext DEF IInv, Calls
<1>4. Once' /\ Output' /\ Addressed'
  BY <1>2, MainKept
<1> QED BY <1>3, <1>4 DEF IInv

(* Forgetting the machine of a task that is released.                      *)
LEMMA Forgotten ==
    ASSUME IInv, NEW t \in Tasks, tasks' = Released(t)
    PROVE  /\ tasks' \in [Tasks -> TaskType]
           /\ tasks'[t].rpc = None
           /\ \A u \in Tasks \ {t} : tasks'[u] = tasks[u]
BY TypeParts DEF IInv, Released, TaskType

LEMMA AddressedAfterRelease ==
    ASSUME IInv, NEW t \in Tasks, tasks' = Released(t),
           UNCHANGED <<expected, registration, machines>>,
           history'.registered = history.registered,
           history'.released = history.released \cup {t}
    PROVE  Once' /\ Addressed'
<1>1. \A u \in Tasks : tasks'[u].rpc \in {None, tasks[u].rpc}
  BY Forgotten
<1>2. \A n \in Machines : Kept(machines[n], machines'[n])
  BY SameMachines
<1>3. Once'
  BY <1>1, <1>2, OnceKept, QueueKept DEF IInv
<1>4. \A u \in Tasks : u \notin history'.released => tasks'[u] = tasks[u] /\ u \notin history.released
  BY Forgotten
<1>5. Addressed'
  <2>1. Registering' = Registering /\ RegisteringTask' = RegisteringTask
    BY DEF Registering, RegisteringTask
  <2>2. Registering /\ registration.step # "otp" => RegisteringTask \in Tasks
    BY DEF IInv, Once
  <2> QED BY <1>4, <2>1, <2>2 DEF IInv, Addressed
<1> QED BY <1>3, <1>5

LEMMA CallReturnsInv ==
    ASSUME IInv, CallReturns
    PROVE  IInv'
<1>1. /\ main.pc = "calling" /\ main.task \in Tasks /\ call \in CallType
      /\ call.stage = "answered" /\ call.machine \in Machines
      /\ call' = NoCall /\ UNCHANGED <<expected, registration, machines>>
  BY DEF CallReturns, IInv, Calls, CallType
<1>2. main' \in MainType /\ main'.pc \in {"test", "releasing"}
  BY TypeParts DEF IInv, CallReturns, MainType
<1> DEFINE c == call.machine
           n == history.received[c] + call.value
           R == [history.received EXCEPT ![c] = n]
           released == IF call.kind = "quit" THEN history.released \cup {main.task} ELSE history.released
<1>3. history' = [history EXCEPT !.received = R, !.released = released]
  BY TypeParts DEF IInv, CallReturns, HistoryType
<1>4. /\ history \in HistoryType /\ released \subseteq Tasks
  BY <1>1, TypeParts DEF IInv, HistoryType
<1>5. n \in 0 .. MaxOutput
  <2>1. /\ machines[c].written = machines[c].pipe + machines[c].stdout + call.value + history.received[c]
        /\ machines[c].written \in 0 .. MaxOutput /\ machines[c].pipe \in 0 .. MaxOutput
        /\ machines[c].stdout \in 0 .. MaxOutput /\ call.value \in 0 .. MaxOutput
        /\ history.received[c] \in 0 .. MaxOutput
    BY <1>1, TypeParts DEF IInv, Output, Answering, MachineType, CallType, HistoryType
  <2> QED BY <2>1, BoundsAssumption
<1>6. R \in [Machines -> 0 .. MaxOutput] /\ R[c] = n
      /\ \A m \in Machines \ {c} : R[m] = history.received[m]
  BY <1>1, <1>4, <1>5 DEF HistoryType
<1>7. /\ history' \in HistoryType /\ history'.received = R /\ history'.released = released
      /\ history'.registered = history.registered
  <2> HIDE DEF R, released
  <2> QED BY <1>3, <1>4, <1>6 DEF HistoryType
<1>8. tasks' \in [Tasks -> TaskType] /\ Once' /\ Addressed'
  <2>1. CASE call.kind = "quit"
    <3>1. tasks' = Released(main.task) /\ history'.released = history.released \cup {main.task}
      BY <1>7, <2>1 DEF CallReturns
    <3> QED BY <1>1, <1>7, <3>1, Forgotten, AddressedAfterRelease
  <2>2. CASE call.kind # "quit"
    <3>1. tasks' = tasks /\ history'.released = history.released
      BY <1>7, <2>2 DEF CallReturns
    <3>2. \A m \in Machines : Kept(machines[m], machines'[m])
      BY <1>1, SameMachines
    <3> QED BY <1>1, <1>7, <3>1, <3>2, OnceKept, AddressedKept, QueueKept, TypeParts DEF IInv
  <2> QED BY <2>1, <2>2
<1>9. Output'
  <2>1. \A m \in Machines : Answering(m)' = 0
    BY <1>1, NoneAssumption DEF Answering, NoCall
  <2>2. \A m \in Machines \ {c} : Answering(m) = 0
    BY DEF Answering
  <2>3. Answering(c) = call.value
    BY <1>1 DEF Answering
  <2>4. /\ call.value \in Int
        /\ \A m \in Machines : machines[m].pipe \in Int /\ machines[m].stdout \in Int
                                /\ history.received[m] \in Int
    BY <1>1, TypeParts DEF IInv, MachineType, CallType, HistoryType
  <2>5. \A m \in Machines : machines[m].written = machines[m].pipe + machines[m].stdout
                                + Answering(m) + history.received[m]
    BY DEF IInv, Output
  <2>6. \A m \in Machines : machines'[m] = machines[m] /\ history'.received[m] = R[m]
    BY <1>1, <1>7
  <2> HIDE DEF R, c
  <2>7. \A m \in Machines : machines'[m].written = machines'[m].pipe + machines'[m].stdout
                                + Answering(m)' + history'.received[m]
    <3> TAKE m \in Machines
    <3>1. CASE m = c
      BY <1>6, <2>1, <2>3, <2>4, <2>5, <2>6, <3>1
    <3>2. CASE m # c
      BY <1>6, <2>1, <2>2, <2>4, <2>5, <2>6, <3>2
    <3> QED BY <3>1, <3>2
  <2> QED BY <2>7 DEF Output
<1>10. TypeOK' /\ Calls'
  BY <1>1, <1>2, <1>7, <1>8, TypeParts, TypesNext DEF IInv, Calls
<1> QED BY <1>8, <1>9, <1>10 DEF IInv

LEMMA CallFailsInv ==
    ASSUME IInv, CallFails
    PROVE  IInv'
<1>1. /\ main.pc = "calling" /\ main.task \in Tasks /\ call \in CallType /\ call.stage = "failed"
      /\ call' = NoCall /\ UNCHANGED <<expected, registration, machines>>
  BY DEF CallFails, IInv, Calls
<1>2. \A m \in Machines : Answering(m)' = Answering(m)
  BY <1>1, NoneAssumption DEF Answering, NoCall
<1>3. CASE call.kind = "quit"
  <2>1. main' \in MainType /\ main'.pc \in {"test", "releasing"}
    BY <1>3, TypeParts DEF IInv, CallFails, MainType
  <2>2. /\ tasks' = Released(main.task)
        /\ history' = [history EXCEPT !.released = @ \cup {main.task}]
    BY <1>3 DEF CallFails
  <2>3. /\ history' \in HistoryType /\ history'.registered = history.registered
        /\ history'.released = history.released \cup {main.task}
        /\ history'.received = history.received
    BY <1>1, <2>2, TypeParts DEF IInv, HistoryType
  <2>4. Once' /\ Addressed' /\ tasks' \in [Tasks -> TaskType]
    BY <1>1, <2>2, <2>3, Forgotten, AddressedAfterRelease
  <2>5. Output'
    BY <1>1, <1>2, <2>3, OutputKept, SameMachines DEF IInv
  <2>6. TypeOK' /\ Calls'
    BY <1>1, <2>1, <2>3, <2>4, TypeParts, TypesNext DEF IInv, Calls
  <2> QED BY <2>4, <2>5, <2>6 DEF IInv
<1>4. CASE call.kind # "quit"
  <2>1. main' \in MainType /\ main'.pc \in {"test", "shutdown"} /\ UNCHANGED <<tasks, history>>
    BY <1>4, Raises DEF IInv, CallFails
  <2>2. TypeOK' /\ Calls'
    BY <1>1, <2>1, TypeParts, TypesNext DEF IInv, Calls
  <2>3. Once' /\ Output' /\ Addressed'
    BY <1>1, <1>2, <2>1, MainKept
  <2> QED BY <2>2, <2>3 DEF IInv
<1> QED BY <1>3, <1>4

(* RunController after the test.                                           *)
LEMMA MainMovesInv ==
    ASSUME IInv, TestEnds \/ RequestShutdown \/ ShutdownReturns
    PROVE  IInv'
<1>1. /\ main' \in MainType /\ main'.pc \in {"shutdown", "releasing"} /\ call = NoCall
      /\ registration' \in RegistrationType /\ registration'.queue = registration.queue
      /\ registration'.machine = registration.machine /\ registration'.step = registration.step
      /\ UNCHANGED <<tasks, expected, machines, call, history>>
  <2>1. CASE TestEnds
    BY <2>1, TypeParts DEF IInv, TestEnds, InTest, MainType, Calls
  <2>2. CASE RequestShutdown
    BY <2>2, TypeParts DEF IInv, RequestShutdown, RegistrationType, Calls
  <2>3. CASE ShutdownReturns
    BY <2>3, TypeParts DEF IInv, ShutdownReturns, MainType, Calls
  <2> QED BY <2>1, <2>2, <2>3
<1>2. TypeOK' /\ Calls'
  BY <1>1, TypeParts, TypesNext DEF IInv, Calls
<1>3. Once' /\ Output' /\ Addressed'
  BY <1>1, MainKept DEF Answering
<1> QED BY <1>2, <1>3 DEF IInv

(* The machines whose registration is cut off exit.                        *)
LEMMA ExitInv ==
    ASSUME IInv, Exit
    PROVE  IInv'
<1>1. /\ UNCHANGED <<tasks, expected, call, history>>
      /\ registration'.machine = None /\ registration'.queue = <<>>
  BY TypeParts DEF IInv, Exit, RegistrationType
<1>2. main' \in MainType /\ main'.pc = "exited"
  BY TypeParts DEF IInv, Exit, MainType
<1>3. registration' \in RegistrationType
  <2>1. <<>> \in Queues
    BY DEF Queues
  <2> QED BY <2>1, TypeParts DEF IInv, Exit, RegistrationType
<1>4. /\ machines' \in [Machines -> MachineType]
      /\ \A m \in Machines : Kept(machines[m], machines'[m]) /\ SameOutput(machines[m], machines'[m])
  <2>1. \A m \in Machines :
           LET r == IF Abandoned(m) THEN [machines[m] EXCEPT !.stage = "exited"] ELSE machines[m]
           IN  r \in MachineType /\ Kept(machines[m], r) /\ SameOutput(machines[m], r)
    <3> TAKE m \in Machines
    <3>1. machines[m] \in MachineType /\ "exited" \in Stages
      BY TypeParts DEF IInv, Stages
    <3>2. CASE Abandoned(m)
      BY <3>1, <3>2, StageSet
    <3>3. CASE ~Abandoned(m)
      BY <3>1, <3>3 DEF Kept, SameOutput
    <3> QED BY <3>2, <3>3
  <2> QED BY <2>1 DEF Exit
<1>5. TypeOK' /\ Calls'
  BY <1>1, <1>2, <1>3, <1>4, TypeParts, TypesNext DEF IInv, Calls
<1>6. Output'
  BY <1>1, <1>4, OutputKept DEF IInv, Answering
<1>7. Once'
  <2>1. /\ history.registered \subseteq Machines
        /\ \A t \in Tasks : tasks[t].rpc \in Machines \cup {None}
    BY TypeParts DEF IInv, HistoryType, TaskType
  <2> QED BY <1>1, <1>4, <2>1 DEF IInv, Once, Kept, Registering
<1>8. Addressed'
  BY <1>1 DEF IInv, Addressed, Registering
<1> QED BY <1>5, <1>6, <1>7, <1>8 DEF IInv

-----------------------------------------------------------------------------
(* The steps of the registration server. *)

LEMMA TakeRequestInv ==
    ASSUME IInv, TakeRequest
    PROVE  IInv'
<1> DEFINE q == registration.queue
<1>1. /\ UNCHANGED <<main, tasks, expected, machines, call, history>>
      /\ registration \in RegistrationType /\ q \in Seq(Machines) /\ q # <<>>
      /\ registration' = [registration EXCEPT !.queue = Tail(q), !.machine = Head(q), !.step = "otp"]
  BY TypeParts DEF IInv, TakeRequest, RegistrationType, Queues
<1>2. /\ Head(q) \in Machines /\ Tail(q) \in Queues /\ Head(q) = q[1] /\ 1 \in DOMAIN q
      /\ \A i \in DOMAIN Tail(q) : i + 1 \in DOMAIN q /\ Tail(q)[i] = q[i + 1]
  BY <1>1 DEF Queues
<1>3. /\ registration' \in RegistrationType /\ registration'.queue = Tail(q)
      /\ registration'.machine = Head(q) /\ registration'.step = "otp"
  <2> DEFINE hd == Head(q)
             tl == Tail(q)
  <2>1. hd \in Machines /\ tl \in Queues
    BY <1>2
  <2>2. registration' = [registration EXCEPT !.queue = tl, !.machine = hd, !.step = "otp"]
    BY <1>1
  <2> HIDE DEF hd, tl
  <2> QED BY <1>1, <2>1, <2>2 DEF RegistrationType, hd, tl
<1>4. TypeOK' /\ Calls'
  BY <1>1, <1>3, TypeParts, TypesNext DEF IInv, Calls
<1>5. Once'
  <2>1. \A i \in DOMAIN q : machines[q[i]].stage \notin Early
    BY DEF IInv, Once
  <2>2. \A i \in DOMAIN registration'.queue : machines'[registration'.queue[i]].stage \notin Early
    BY <1>1, <1>2, <1>3, <2>1
  <2>3. machines'[registration'.machine].stage \notin Early
    BY <1>1, <1>2, <1>3, <2>1
  <2> HIDE DEF q
  <2> QED BY <1>1, <1>3, <2>2, <2>3 DEF IInv, Once, Registering
<1>6. Output' /\ Addressed'
  BY <1>1, <1>3 DEF IInv, Output, Addressed, Answering, Registering
<1> QED BY <1>4, <1>5, <1>6 DEF IInv

(* The machine that registers. *)
LEMMA RegisteringType ==
    ASSUME IInv, Registering
    PROVE  registration.machine \in Machines /\ registration \in RegistrationType
BY TypeParts DEF IInv, Registering, RegistrationType

LEMMA CheckOtpInv ==
    ASSUME IInv, CheckOtp
    PROVE  IInv'
<1> DEFINE m == registration.machine
           t == RegisteringTask
<1>1. /\ UNCHANGED <<main, tasks, call, history>> /\ m \in Machines
      /\ registration \in RegistrationType /\ registration.step = "otp" /\ Registering
      /\ machines[m].stage \notin Early /\ t = machines[m].task
  BY RegisteringType DEF IInv, CheckOtp, Once, RegisteringTask
<1>2. CASE t \in expected
  <2>1. /\ expected' = expected \ {t} /\ UNCHANGED machines
        /\ registration' = [registration EXCEPT !.step = "connected"]
    BY <1>2 DEF CheckOtp, UsedOnce
  <2>2. /\ registration' \in RegistrationType /\ registration'.step = "connected"
        /\ registration'.machine = m /\ registration'.queue = registration.queue
    BY <1>1, <2>1 DEF RegistrationType
  <2>3. TypeOK' /\ Calls'
    BY <1>1, <2>1, <2>2, TypeParts, TypesNext DEF IInv, Calls
  <2>4. t \in Tasks /\ \A n \in history.registered : machines[n].task # t
    BY <1>2, TypeParts DEF IInv, Once
  <2>5. Once'
    <3>1. RegisteringTask' = t /\ Taken(RegisteringTask)'
      BY <1>1, <2>1, <2>2, <2>4 DEF Taken, RegisteringTask
    <3> QED BY <1>1, <2>1, <2>2, <2>4, <3>1 DEF IInv, Once, Registering
  <2>6. Output' /\ Addressed'
    BY <1>1, <2>1, <2>2 DEF IInv, Output, Addressed, Answering, Registering
  <2> QED BY <2>3, <2>5, <2>6 DEF IInv
<1>3. CASE t \notin expected
  <2> DEFINE r == [machines[m] EXCEPT !.stage = "exited"]
  <2>1. /\ UNCHANGED expected /\ machines' = [machines EXCEPT ![m] = r]
        /\ registration' = [registration EXCEPT !.machine = None]
    BY <1>3 DEF CheckOtp
  <2>2. /\ registration' \in RegistrationType /\ registration'.machine = None
        /\ registration'.queue = registration.queue
    BY <1>1, <2>1 DEF RegistrationType
  <2>3. machines \in [Machines -> MachineType] /\ "exited" \in Stages
    BY TypeParts DEF IInv, Stages
  <2>4. r \in MachineType /\ Kept(machines[m], r) /\ SameOutput(machines[m], r)
    BY <1>1, <2>3, StageSet
  <2> HIDE DEF r
  <2>5. /\ machines' \in [Machines -> MachineType]
        /\ \A n \in Machines : Kept(machines[n], machines'[n]) /\ SameOutput(machines[n], machines'[n])
    BY <1>1, <2>1, <2>3, <2>4, OneMachine
  <2>6. TypeOK' /\ Calls'
    BY <1>1, <2>1, <2>2, <2>5, TypeParts, TypesNext DEF IInv, Calls
  <2>7. Once'
    <3>1. /\ history.registered \subseteq Machines
          /\ \A u \in Tasks : tasks[u].rpc \in Machines \cup {None}
      BY TypeParts DEF IInv, HistoryType, TaskType
    <3>2. \A i \in DOMAIN registration'.queue : machines'[registration'.queue[i]].stage \notin Early
      BY <2>2, <2>5, QueueKept DEF IInv
    <3> QED BY <1>1, <2>1, <2>2, <2>5, <3>1, <3>2 DEF IInv, Once, Kept, Registering
  <2>8. Output' /\ Addressed'
    BY <1>1, <2>2, <2>5, OutputKept DEF IInv, Addressed, Answering, Registering
  <2> QED BY <2>6, <2>7, <2>8 DEF IInv
<1> QED BY <1>2, <1>3

LEMMA StepAfters ==
    /\ StepAfter("connected") = "rpc" /\ StepAfter("rpc") = "event" /\ StepAfter("event") = "reply"
<1>1. \A s \in {"connected", "rpc", "event"} : \E i \in 1 .. 3 : Steps[i] = s
  <2>1. Steps[1] = "connected" /\ Steps[2] = "rpc" /\ Steps[3] = "event" /\ Steps[4] = "reply"
    BY DEF Steps
  <2> QED BY <2>1
<1>2. \A i \in 1 .. 3 : i = 1 \/ i = 2 \/ i = 3
  OBVIOUS
<1>3. \A i \in 1 .. 3 : /\ Steps[i] = "connected" => i = 1
                        /\ Steps[i] = "rpc" => i = 2
                        /\ Steps[i] = "event" => i = 3
  BY <1>2 DEF Steps
<1>4. (CHOOSE i \in 1 .. 3 : Steps[i] = "connected") = 1
  BY <1>1, <1>3
<1>5. (CHOOSE i \in 1 .. 3 : Steps[i] = "rpc") = 2
  BY <1>1, <1>3
<1>6. (CHOOSE i \in 1 .. 3 : Steps[i] = "event") = 3
  BY <1>1, <1>3
<1> QED BY <1>4, <1>5, <1>6 DEF StepAfter, Steps

LEMMA OnConnectInv ==
    ASSUME IInv, OnConnect
    PROVE  IInv'
<1> DEFINE m == registration.machine
           t == RegisteringTask
<1>1. /\ UNCHANGED <<main, expected, machines, call, history>> /\ m \in Machines
      /\ registration \in RegistrationType /\ Registering
      /\ registration.step \in {"connected", "rpc", "event"}
      /\ machines[m].stage \notin Early /\ t = machines[m].task /\ t \in Tasks /\ Taken(t)
  BY RegisteringType DEF IInv, OnConnect, Once, RegisteringTask
<1>2. \/ registration.step = "connected" /\ tasks' = [tasks EXCEPT ![t].connected = TRUE]
      \/ registration.step = "rpc" /\ tasks' = [tasks EXCEPT ![t].rpc = m]
      \/ registration.step = "event" /\ tasks' = [tasks EXCEPT ![t].event = TRUE]
  BY <1>1 DEF OnConnect
<1>3. /\ tasks' \in [Tasks -> TaskType]
      /\ \A u \in Tasks : /\ tasks'[u].rpc = IF u = t /\ registration.step = "rpc" THEN m ELSE tasks[u].rpc
                          /\ tasks'[u].seen = tasks[u].seen
                          /\ tasks'[u].event = (tasks[u].event \/ (u = t /\ registration.step = "event"))
  <2>1. tasks \in [Tasks -> TaskType]
    BY TypeParts DEF IInv
  <2> HIDE DEF t, m
  <2>2. CASE registration.step = "connected" /\ tasks' = [tasks EXCEPT ![t].connected = TRUE]
    <3>1. [tasks[t] EXCEPT !.connected = TRUE] \in TaskType
      BY <1>1, <2>1 DEF TaskType
    <3>2. tasks' \in [Tasks -> TaskType]
      BY <2>1, <2>2, <3>1
    <3>3. ASSUME NEW u \in Tasks
          PROVE  /\ tasks'[u].rpc = IF u = t /\ registration.step = "rpc" THEN m ELSE tasks[u].rpc
                 /\ tasks'[u].seen = tasks[u].seen
                 /\ tasks'[u].event = (tasks[u].event \/ (u = t /\ registration.step = "event"))
      <4>1. tasks[u] \in TaskType
        BY <2>1
      <4>2. CASE u # t
        <5>1. tasks'[u] = tasks[u] /\ tasks[u].event \in BOOLEAN
          BY <2>2, <4>1, <4>2 DEF TaskType
        <5> QED BY <4>2, <5>1
      <4>3. CASE u = t
        <5>1. tasks'[u] = [tasks[t] EXCEPT !.connected = TRUE]
          BY <1>1, <2>1, <2>2, <4>3
        <5>2. /\ tasks'[u].rpc = tasks[t].rpc /\ tasks'[u].seen = tasks[t].seen
              /\ tasks'[u].event = tasks[t].event /\ tasks[t].event \in BOOLEAN
          BY <4>1, <4>3, <5>1 DEF TaskType
        <5> QED BY <2>2, <4>3, <5>2
      <4> QED BY <4>2, <4>3
    <3> QED BY <3>2, <3>3
  <2>3. CASE registration.step = "rpc" /\ tasks' = [tasks EXCEPT ![t].rpc = m]
    <3>1. [tasks[t] EXCEPT !.rpc = m] \in TaskType
      BY <1>1, <2>1 DEF TaskType
    <3>2. tasks' \in [Tasks -> TaskType]
      BY <2>1, <2>3, <3>1
    <3>3. ASSUME NEW u \in Tasks
          PROVE  /\ tasks'[u].rpc = IF u = t /\ registration.step = "rpc" THEN m ELSE tasks[u].rpc
                 /\ tasks'[u].seen = tasks[u].seen
                 /\ tasks'[u].event = (tasks[u].event \/ (u = t /\ registration.step = "event"))
      <4>1. tasks[u] \in TaskType
        BY <2>1
      <4>2. CASE u # t
        <5>1. tasks'[u] = tasks[u] /\ tasks[u].event \in BOOLEAN
          BY <2>3, <4>1, <4>2 DEF TaskType
        <5> QED BY <4>2, <5>1
      <4>3. CASE u = t
        <5>1. tasks'[u] = [tasks[t] EXCEPT !.rpc = m]
          BY <1>1, <2>1, <2>3, <4>3
        <5>2. /\ tasks'[u].rpc = m /\ tasks'[u].seen = tasks[t].seen
              /\ tasks'[u].event = tasks[t].event /\ tasks[t].event \in BOOLEAN
          BY <4>1, <4>3, <5>1 DEF TaskType
        <5> QED BY <2>3, <4>3, <5>2
      <4> QED BY <4>2, <4>3
    <3> QED BY <3>2, <3>3
  <2>4. CASE registration.step = "event" /\ tasks' = [tasks EXCEPT ![t].event = TRUE]
    <3>1. [tasks[t] EXCEPT !.event = TRUE] \in TaskType
      BY <1>1, <2>1 DEF TaskType
    <3>2. tasks' \in [Tasks -> TaskType]
      BY <2>1, <2>4, <3>1
    <3>3. ASSUME NEW u \in Tasks
          PROVE  /\ tasks'[u].rpc = IF u = t /\ registration.step = "rpc" THEN m ELSE tasks[u].rpc
                 /\ tasks'[u].seen = tasks[u].seen
                 /\ tasks'[u].event = (tasks[u].event \/ (u = t /\ registration.step = "event"))
      <4>1. tasks[u] \in TaskType
        BY <2>1
      <4>2. CASE u # t
        <5>1. tasks'[u] = tasks[u] /\ tasks[u].event \in BOOLEAN
          BY <2>4, <4>1, <4>2 DEF TaskType
        <5> QED BY <4>2, <5>1
      <4>3. CASE u = t
        <5>1. tasks'[u] = [tasks[t] EXCEPT !.event = TRUE]
          BY <1>1, <2>1, <2>4, <4>3
        <5>2. /\ tasks'[u].rpc = tasks[t].rpc /\ tasks'[u].seen = tasks[t].seen
              /\ tasks'[u].event = TRUE /\ tasks[t].event \in BOOLEAN
          BY <4>1, <4>3, <5>1 DEF TaskType
        <5> QED BY <2>4, <4>3, <5>2
      <4> QED BY <4>2, <4>3
    <3> QED BY <3>2, <3>3
  <2> QED BY <1>2, <2>2, <2>3, <2>4
<1>4. /\ registration' \in RegistrationType /\ registration'.machine = m
      /\ registration'.queue = registration.queue
      /\ registration'.step = StepAfter(registration.step)
  <2> DEFINE s == StepAfter(registration.step)
  <2>1. s \in {"rpc", "event", "reply"}
    BY <1>1, StepAfters
  <2>2. registration' = [registration EXCEPT !.step = s]
    BY <1>1 DEF OnConnect, RegistrationType
  <2> HIDE DEF s
  <2> QED BY <1>1, <2>1, <2>2 DEF RegistrationType, s
<1>5. TypeOK' /\ Calls'
  BY <1>1, <1>3, <1>4, TypeParts, TypesNext DEF IInv, Calls
<1>6. RegisteringTask' = t /\ Registering' = Registering /\ Taken(RegisteringTask)'
  BY <1>1, <1>4 DEF Taken, RegisteringTask, Registering
<1>7. Once'
  BY <1>1, <1>3, <1>4, <1>6 DEF IInv, Once
<1>8. Output'
  BY <1>1 DEF IInv, Output, Answering
<1>9. Addressed'
  <2>1. m # None
    BY <1>1, NoneAssumption
  <2>2. \A u \in Tasks : tasks[u].rpc # None => tasks'[u].rpc # None
    BY <1>3, <2>1
  <2>3. registration.step = "event" /\ t \notin history.released => tasks[t].rpc # None
    BY <1>1 DEF IInv, Addressed
  <2>4. registration'.step \in {"event", "reply"} => registration.step \in {"rpc", "event"}
    BY <1>1, <1>4, StepAfters
  <2>5. registration'.step \in {"event", "reply"} /\ t \notin history.released => tasks'[t].rpc # None
    BY <1>1, <1>3, <2>1, <2>2, <2>3, <2>4
  <2>6. \A u \in Tasks : (tasks'[u].event \/ tasks'[u].seen) /\ u \notin history.released
                            => tasks'[u].rpc # None
    BY <1>3, <2>2, <2>3 DEF IInv, Addressed
  <2> QED BY <1>1, <1>6, <2>5, <2>6 DEF Addressed
<1> QED BY <1>5, <1>7, <1>8, <1>9 DEF IInv

LEMMA ReplyInv ==
    ASSUME IInv, ReplyRegistered
    PROVE  IInv'
<1> DEFINE m == registration.machine
           r == [machines[m] EXCEPT !.stage = "registered"]
<1>1. /\ UNCHANGED <<main, tasks, expected, call>> /\ m \in Machines
      /\ registration \in RegistrationType /\ Registering
      /\ registration.step = "reply" /\ machines[m].stage \notin Early
      /\ Taken(machines[m].task)
      /\ registration' = [registration EXCEPT !.machine = None]
      /\ history' = [history EXCEPT !.registered = @ \cup {m}]
      /\ machines' = [machines EXCEPT ![m] = r]
  BY RegisteringType DEF IInv, ReplyRegistered, Once, RegisteringTask
<1>2. /\ registration' \in RegistrationType /\ registration'.machine = None
      /\ registration'.queue = registration.queue
  BY <1>1 DEF RegistrationType
<1>3. machines \in [Machines -> MachineType] /\ "registered" \in Stages
  BY TypeParts DEF IInv, Stages
<1>4. r \in MachineType /\ Kept(machines[m], r) /\ SameOutput(machines[m], r)
  BY <1>1, <1>3, StageSet
<1>5. /\ machines' \in [Machines -> MachineType]
      /\ \A n \in Machines : Kept(machines[n], machines'[n]) /\ SameOutput(machines[n], machines'[n])
  <2> HIDE DEF r
  <2> QED BY <1>1, <1>3, <1>4, OneMachine
<1>6. /\ history' \in HistoryType /\ history'.registered = history.registered \cup {m}
      /\ history'.released = history.released /\ history'.received = history.received
  <2>1. history \in HistoryType
    BY TypeParts DEF IInv
  <2> QED BY <1>1, <2>1 DEF HistoryType
<1> HIDE DEF r, m
<1>7. TypeOK' /\ Calls'
  BY <1>1, <1>2, <1>5, <1>6, TypeParts, TypesNext DEF IInv, Calls
<1>8. Once'
  <2>1. /\ history.registered \subseteq Machines
        /\ \A u \in Tasks : tasks[u].rpc \in Machines \cup {None}
    BY TypeParts DEF IInv, HistoryType, TaskType
  <2>2. \A i \in DOMAIN registration'.queue : machines'[registration'.queue[i]].stage \notin Early
    BY <1>2, <1>5, QueueKept DEF IInv
  <2>3. \A n \in history'.registered :
           /\ machines[n].stage \notin Early /\ machines[n].task \notin expected
           /\ machines'[n].stage \notin Early /\ machines'[n].task = machines[n].task
    BY <1>1, <1>5, <1>6, <2>1 DEF IInv, Once, Kept, Taken
  <2>4. \A k, n \in history'.registered : machines[k].task = machines[n].task => k = n
    BY <1>1, <1>6 DEF IInv, Once, Taken
  <2>5. \A u \in Tasks : tasks[u].rpc # None =>
           machines'[tasks[u].rpc].stage \notin Early /\ machines'[tasks[u].rpc].task = u
    BY <1>5, <2>1 DEF IInv, Once, Kept
  <2> QED BY <1>1, <1>2, <2>2, <2>3, <2>4, <2>5 DEF Once, Registering
<1>9. Output' /\ Addressed'
  BY <1>1, <1>2, <1>5, <1>6, OutputKept DEF IInv, Addressed, Answering, Registering
<1> QED BY <1>7, <1>8, <1>9 DEF IInv

LEMMA StopsInv ==
    ASSUME IInv, RegistrationStops
    PROVE  IInv'
<1>1. /\ UNCHANGED <<main, tasks, expected, machines, call, history>>
      /\ registration' = [registration EXCEPT !.serving = FALSE]
      /\ registration \in RegistrationType
  BY TypeParts DEF IInv, RegistrationStops
<1>2. /\ registration' \in RegistrationType /\ registration'.queue = registration.queue
      /\ registration'.machine = registration.machine /\ registration'.step = registration.step
  BY <1>1 DEF RegistrationType
<1>3. TypeOK' /\ Calls'
  BY <1>1, <1>2, TypeParts, TypesNext DEF IInv, Calls
<1>4. Once' /\ Output' /\ Addressed'
  BY <1>1, <1>2, MainKept DEF Answering
<1> QED BY <1>3, <1>4 DEF IInv

-----------------------------------------------------------------------------
(* The steps of a machine. *)

(* A step that changes the machine m, and maybe the queue or the call.     *)
LEMMA MachineStep ==
    ASSUME IInv, NEW m \in Machines, NEW r \in MachineType, Kept(machines[m], r),
           machines' = [machines EXCEPT ![m] = r],
           UNCHANGED <<main, tasks, expected>>,
           history'.registered = history.registered, history'.released = history.released,
           history' \in HistoryType,
           registration' \in RegistrationType,
           registration'.machine = registration.machine, registration'.step = registration.step,
           \A i \in DOMAIN registration'.queue :
              machines'[registration'.queue[i]].stage \notin Early,
           call' \in CallType \cup {NoCall}, call \in CallType => call' \in CallType,
           call = NoCall => call' = NoCall
    PROVE  TypeOK' /\ Once' /\ Calls' /\ Addressed'
<1>1. machines \in [Machines -> MachineType]
  BY TypeParts DEF IInv
<1>2. /\ machines' \in [Machines -> MachineType]
      /\ \A n \in Machines : Kept(machines[n], machines'[n])
  BY <1>1, OneMachine
<1>3. TypeOK' /\ Calls'
  BY <1>2, TypeParts, TypesNext DEF IInv, Calls
<1>4. Once' /\ Addressed'
  BY <1>2, OnceKept, AddressedKept DEF IInv
<1> QED BY <1>3, <1>4

(* A step that leaves registration and output alone, too.                  *)
LEMMA QuietStep ==
    ASSUME IInv, NEW m \in Machines, NEW r \in MachineType, Kept(machines[m], r),
           SameOutput(machines[m], r), machines' = [machines EXCEPT ![m] = r],
           UNCHANGED <<main, tasks, expected, registration, history>>,
           call' \in CallType \cup {NoCall}, call \in CallType => call' \in CallType,
           call = NoCall => call' = NoCall,
           \A n \in Machines : Answering(n)' = Answering(n)
    PROVE  IInv'
<1>1. /\ machines \in [Machines -> MachineType] /\ history \in HistoryType
      /\ registration \in RegistrationType
  BY TypeParts DEF IInv
<1>2. \A n \in Machines : Kept(machines[n], machines'[n]) /\ SameOutput(machines[n], machines'[n])
  BY <1>1, OneMachine
<1>3. \A i \in DOMAIN registration'.queue : machines'[registration'.queue[i]].stage \notin Early
  BY <1>2, QueueKept DEF IInv
<1>4. TypeOK' /\ Once' /\ Calls' /\ Addressed'
  BY <1>1, <1>3, MachineStep
<1>5. Output'
  BY <1>2, OutputKept DEF IInv
<1> QED BY <1>4, <1>5 DEF IInv

LEMMA ConnectInv ==
    ASSUME IInv, NEW m \in Machines, Connect(m)
    PROVE  IInv'
<1>1. /\ machines \in [Machines -> MachineType] /\ machines[m].stage = "started"
      /\ call \in CallType \cup {NoCall} /\ history \in HistoryType
      /\ registration \in RegistrationType /\ registration.queue \in Seq(Machines)
      /\ UNCHANGED <<main, tasks, expected, call, history>>
  BY TypeParts DEF IInv, Connect, RegistrationType, Queues
<1>2. PICK s \in {"exited", "registering"} :
         /\ machines' = [machines EXCEPT ![m].stage = s]
         /\ \/ registration' = registration
            \/ registration' = [registration EXCEPT !.queue = Append(@, m)]
  BY DEF Connect
<1> DEFINE r == [machines[m] EXCEPT !.stage = s]
           q == Append(registration.queue, m)
<1>3. /\ machines' = [machines EXCEPT ![m] = r]
      /\ r \in MachineType /\ Kept(machines[m], r) /\ SameOutput(machines[m], r)
  BY <1>1, <1>2, StageSet DEF Stages
<1> HIDE DEF r
<1>4. \A n \in Machines : Kept(machines[n], machines'[n]) /\ SameOutput(machines[n], machines'[n])
  BY <1>1, <1>3, OneMachine
<1>5. CASE registration' = registration
  BY <1>1, <1>3, <1>5, QuietStep DEF Answering
<1>6. CASE registration' = [registration EXCEPT !.queue = Append(@, m)]
  <2>1. q \in Queues
    BY <1>1 DEF Queues
  <2>2. \A i \in DOMAIN q : q[i] = m \/ (i \in DOMAIN registration.queue /\ q[i] = registration.queue[i])
    BY <1>1
  <2>3. registration' = [registration EXCEPT !.queue = q]
    BY <1>1, <1>6 DEF RegistrationType
  <2> HIDE DEF q
  <2>4. /\ registration' \in RegistrationType /\ registration'.queue = q
        /\ registration'.machine = registration.machine /\ registration'.step = registration.step
    BY <1>1, <2>1, <2>3 DEF RegistrationType
  <2>5. \A i \in DOMAIN registration.queue :
           /\ registration.queue[i] \in Machines
           /\ machines[registration.queue[i]].stage \notin Early
    BY <1>1 DEF IInv, Once
  <2>6. \A i \in DOMAIN registration'.queue : machines'[registration'.queue[i]].stage \notin Early
    <3>1. machines'[m] = r /\ r.stage \notin Early
      <4>1. r.stage = s
        BY <1>1, <1>2, StageSet DEF Stages, r
      <4> QED BY <1>1, <1>2, <1>3, <4>1 DEF Early
    <3> QED BY <1>1, <1>4, <2>2, <2>4, <2>5, <3>1 DEF Kept
  <2>7. TypeOK' /\ Once' /\ Calls' /\ Addressed'
    BY <1>1, <1>3, <2>4, <2>6, MachineStep
  <2>8. Output'
    BY <1>1, <1>4, OutputKept DEF IInv, Answering
  <2> QED BY <2>7, <2>8 DEF IInv
<1> QED BY <1>2, <1>5, <1>6

LEMMA ServeInv ==
    ASSUME IInv, NEW m \in Machines, Serve(m)
    PROVE  IInv'
<1> DEFINE e == [machines[m] EXCEPT !.stage = "serving"]
           r == [e EXCEPT !.left = IdleTicks]
<1>1. /\ machines \in [Machines -> MachineType] /\ call \in CallType \cup {NoCall}
      /\ "serving" \in Stages /\ IdleTicks \in 0 .. IdleTicks
      /\ UNCHANGED <<main, tasks, expected, registration, call, history>>
  BY TypeParts, BoundsAssumption DEF IInv, Serve, Stages
<1>2. e \in MachineType /\ Kept(machines[m], e) /\ SameOutput(machines[m], e)
  BY <1>1, StageSet
<1>3. machines' = [machines EXCEPT ![m] = r]
  BY <1>1 DEF Serve
<1> HIDE DEF e
<1>4. r \in MachineType /\ Kept(e, r) /\ SameOutput(e, r)
  BY <1>1, <1>2, LeftSet
<1>5. Kept(machines[m], r) /\ SameOutput(machines[m], r)
  BY <1>2, <1>4 DEF Kept, SameOutput
<1> HIDE DEF r
<1> QED BY <1>1, <1>3, <1>4, <1>5, QuietStep DEF Answering

LEMMA TakeCallInv ==
    ASSUME IInv, NEW m \in Machines, TakeCall(m)
    PROVE  IInv'
<1> DEFINE r == [machines[m] EXCEPT !.rpc_received = TRUE]
<1>1. /\ machines \in [Machines -> MachineType] /\ call \in CallType \cup {NoCall}
      /\ call.machine = m /\ call.stage = "sent"
      /\ call' = [call EXCEPT !.stage = "handling"] /\ machines' = [machines EXCEPT ![m] = r]
      /\ UNCHANGED <<main, tasks, expected, registration, history>>
  BY TypeParts DEF IInv, TakeCall, Pending
<1>2. r \in MachineType /\ Kept(machines[m], r) /\ SameOutput(machines[m], r)
  BY <1>1, ReceivedSet
<1> HIDE DEF r
<1>3. call \in CallType /\ call # NoCall
  BY <1>1, NoneAssumption DEF NoCall
<1>4. call' \in CallType /\ \A n \in Machines : Answering(n)' = Answering(n)
  BY <1>1, <1>3 DEF CallType, Answering
<1> QED BY <1>1, <1>2, <1>3, <1>4, QuietStep

LEMMA IdleRoundInv ==
    ASSUME IInv, NEW m \in Machines, IdleRound(m)
    PROVE  IInv'
<1>1. /\ machines \in [Machines -> MachineType] /\ machines[m] \in MachineType
      /\ call \in CallType \cup {NoCall}
      /\ UNCHANGED <<main, tasks, expected, registration, call, history>>
  BY TypeParts DEF IInv, IdleRound
<1>2. PICK r : /\ machines' = [machines EXCEPT ![m] = r]
               /\ \/ r = [machines[m] EXCEPT !.shutdown_requested = TRUE]
                  \/ r = [machines[m] EXCEPT !.left = IdleTicks, !.rpc_received = FALSE]
                  \/ machines[m].left # 0 /\ r = [machines[m] EXCEPT !.left = @ - 1]
  <2>1. CASE machines[m].left = 0
    BY <1>1, <2>1 DEF IdleRound
  <2>2. CASE machines[m].left # 0 /\ machines[m].rpc_received
    BY <1>1, <2>2 DEF IdleRound, Heard
  <2>3. CASE machines[m].left # 0 /\ ~machines[m].rpc_received
    BY <1>1, <2>3 DEF IdleRound, OneRoundLess
  <2> QED BY <2>1, <2>2, <2>3
<1>3. r \in MachineType /\ Kept(machines[m], r) /\ SameOutput(machines[m], r)
  <2>1. CASE r = [machines[m] EXCEPT !.shutdown_requested = TRUE]
    BY <1>1, <2>1, RequestedSet
  <2>2. CASE r = [machines[m] EXCEPT !.left = IdleTicks, !.rpc_received = FALSE]
    <3> DEFINE e == [machines[m] EXCEPT !.left = IdleTicks]
    <3>1. IdleTicks \in 0 .. IdleTicks /\ r = [e EXCEPT !.rpc_received = FALSE]
      BY <2>2, BoundsAssumption
    <3>2. e \in MachineType /\ Kept(machines[m], e) /\ SameOutput(machines[m], e)
      BY <1>1, <3>1, LeftSet
    <3> HIDE DEF e
    <3>3. r \in MachineType /\ Kept(e, r) /\ SameOutput(e, r)
      BY <3>1, <3>2, ReceivedSet
    <3> QED BY <3>2, <3>3 DEF Kept, SameOutput
  <2>3. CASE machines[m].left # 0 /\ r = [machines[m] EXCEPT !.left = @ - 1]
    <3> DEFINE n == machines[m].left - 1
    <3>1. n \in 0 .. IdleTicks
      BY <1>1, <2>3, BoundsAssumption DEF MachineType
    <3>2. r = [machines[m] EXCEPT !.left = n]
      BY <1>1, <2>3 DEF MachineType
    <3> HIDE DEF n
    <3> QED BY <1>1, <3>1, <3>2, LeftSet
  <2> QED BY <1>2, <2>1, <2>2, <2>3
<1> QED BY <1>1, <1>2, <1>3, QuietStep DEF Answering

LEMMA StopServingInv ==
    ASSUME IInv, NEW m \in Machines, StopServing(m)
    PROVE  IInv'
<1> DEFINE r == [machines[m] EXCEPT !.stage = "stopped"]
<1>1. /\ machines \in [Machines -> MachineType] /\ "stopped" \in Stages
      /\ call \in CallType \cup {NoCall} /\ machines' = [machines EXCEPT ![m] = r]
      /\ UNCHANGED <<main, tasks, expected, registration, call, history>>
  BY TypeParts DEF IInv, StopServing, Stages
<1>2. r \in MachineType /\ Kept(machines[m], r) /\ SameOutput(machines[m], r)
  BY <1>1, StageSet
<1> HIDE DEF r
<1> QED BY <1>1, <1>2, QuietStep DEF Answering

LEMMA MachineExitsInv ==
    ASSUME IInv, NEW m \in Machines, MachineExits(m)
    PROVE  IInv'
<1> DEFINE r == [machines[m] EXCEPT !.stage = "exited"]
<1>1. /\ machines \in [Machines -> MachineType] /\ "exited" \in Stages
      /\ call \in CallType \cup {NoCall} /\ machines' = [machines EXCEPT ![m] = r]
      /\ call' = call \/ (Pending(m, "sent") /\ call' = [call EXCEPT !.stage = "failed"])
      /\ UNCHANGED <<main, tasks, expected, registration, history>>
  BY TypeParts DEF IInv, MachineExits, Stages
<1>2. r \in MachineType /\ Kept(machines[m], r) /\ SameOutput(machines[m], r)
  BY <1>1, StageSet
<1> HIDE DEF r
<1>3. /\ call \in CallType => call' \in CallType
      /\ call = NoCall => call' = NoCall
      /\ \A n \in Machines : Answering(n)' = Answering(n)
  <2>1. CASE call' = call
    BY <2>1 DEF Answering
  <2>2. CASE Pending(m, "sent") /\ call' = [call EXCEPT !.stage = "failed"]
    <3>1. call \in CallType /\ call # NoCall
      BY <1>1, <2>2, NoneAssumption DEF Pending, NoCall
    <3> QED BY <2>2, <3>1 DEF CallType, Pending, Answering
  <2> QED BY <1>1, <2>1, <2>2
<1> QED BY <1>1, <1>2, <1>3, QuietStep

LEMMA ChildEndsInv ==
    ASSUME IInv, NEW m \in Machines, ChildEnds(m)
    PROVE  IInv'
<1> DEFINE r == [machines[m] EXCEPT !.child = "ended"]
<1>1. /\ machines \in [Machines -> MachineType] /\ call \in CallType \cup {NoCall}
      /\ machines' = [machines EXCEPT ![m] = r]
      /\ UNCHANGED <<main, tasks, expected, registration, call, history>>
  BY TypeParts DEF IInv, ChildEnds
<1>2. r \in MachineType /\ Kept(machines[m], r) /\ SameOutput(machines[m], r)
  BY <1>1, ChildSet
<1> HIDE DEF r
<1> QED BY <1>1, <1>2, QuietStep DEF Answering

(* The output of one machine moves.                                        *)
LEMMA OutputMoves ==
    ASSUME IInv, NEW m \in Machines, NEW r \in MachineType, Kept(machines[m], r),
           machines' = [machines EXCEPT ![m] = r],
           UNCHANGED <<main, tasks, expected, registration, history>>,
           call' \in CallType \cup {NoCall}, call \in CallType => call' \in CallType,
           call = NoCall => call' = NoCall,
           \A n \in Machines \ {m} : Answering(n)' = Answering(n),
           r.written - r.pipe - r.stdout - Answering(m)'
             = machines[m].written - machines[m].pipe - machines[m].stdout - Answering(m),
           Answering(m) \in Int, Answering(m)' \in Int
    PROVE  IInv'
<1>1. /\ machines \in [Machines -> MachineType] /\ history \in HistoryType
      /\ registration \in RegistrationType
  BY TypeParts DEF IInv
<1>2. /\ machines'[m] = r /\ \A n \in Machines \ {m} : machines'[n] = machines[n]
      /\ \A n \in Machines : Kept(machines[n], machines'[n])
  BY <1>1, OneMachine
<1>3. \A i \in DOMAIN registration'.queue : machines'[registration'.queue[i]].stage \notin Early
  BY <1>2, QueueKept DEF IInv
<1>4. TypeOK' /\ Once' /\ Calls' /\ Addressed'
  BY <1>1, <1>3, MachineStep
<1>5. /\ machines[m].written \in Int /\ machines[m].pipe \in Int /\ machines[m].stdout \in Int
      /\ r.written \in Int /\ r.pipe \in Int /\ r.stdout \in Int /\ history.received[m] \in Int
  BY <1>1 DEF MachineType, HistoryType
<1>6. r.written = r.pipe + r.stdout + Answering(m)' + history.received[m]
  <2>1. machines[m].written = machines[m].pipe + machines[m].stdout + Answering(m) + history.received[m]
    BY DEF IInv, Output
  <2> QED BY <1>5, <2>1
<1>7. Output'
  BY <1>2, <1>6 DEF IInv, Output
<1> QED BY <1>4, <1>7 DEF IInv

LEMMA AnsweringType ==
    ASSUME TypeOK, NEW m \in Machines
    PROVE  Answering(m) \in 0 .. MaxOutput
BY TypeParts, BoundsAssumption, NoneAssumption DEF Answering, CallType, NoCall

LEMMA ChildWritesInv ==
    ASSUME IInv, NEW m \in Machines, ChildWrites(m)
    PROVE  IInv'
<1> DEFINE d == machines[m]
           w == d.written + 1
           p == d.pipe + 1
           r == [d EXCEPT !.written = w, !.pipe = p, !.stdout = d.stdout]
<1>1. /\ machines \in [Machines -> MachineType] /\ call \in CallType \cup {NoCall}
      /\ d \in MachineType /\ history.received[m] \in 0 .. MaxOutput
      /\ d.written < MaxOutput
      /\ UNCHANGED <<main, tasks, expected, registration, call, history>>
  BY TypeParts DEF IInv, ChildWrites, HistoryType
<1>2. d.written \in Nat /\ d.pipe \in Nat /\ d.stdout \in 0 .. MaxOutput /\ Answering(m) \in Nat
  BY <1>1, AnsweringType, BoundsAssumption DEF MachineType, IInv
<1>3. w \in 0 .. MaxOutput /\ p \in 0 .. MaxOutput
  BY <1>1, <1>2, BoundsAssumption DEF IInv, Output
<1>4. machines' = [machines EXCEPT ![m] = r]
  BY <1>1 DEF ChildWrites, MachineType
<1>5. Answering(m)' = Answering(m) /\ \A n \in Machines : Answering(n)' = Answering(n)
  BY <1>1 DEF Answering
<1>6. /\ r \in MachineType /\ Kept(d, r) /\ r.written = w /\ r.pipe = p /\ r.stdout = d.stdout
  <2> HIDE DEF w, p, d
  <2> QED BY <1>1, <1>2, <1>3 DEF MachineType, Kept
<1>7. r.written - r.pipe - r.stdout - Answering(m)' = d.written - d.pipe - d.stdout - Answering(m)
  BY <1>2, <1>5, <1>6
<1> HIDE DEF r
<1>8. Answering(m) \in Int
  BY <1>2
<1> QED BY <1>1, <1>4, <1>5, <1>6, <1>7, <1>8, OutputMoves

LEMMA ReaderInv ==
    ASSUME IInv, NEW m \in Machines, Reader(m)
    PROVE  IInv'
<1> DEFINE d == machines[m]
           s == d.stdout + 1
           p == d.pipe - 1
           r == [d EXCEPT !.written = d.written, !.pipe = p, !.stdout = s]
<1>1. /\ machines \in [Machines -> MachineType] /\ call \in CallType \cup {NoCall}
      /\ d \in MachineType /\ history.received[m] \in 0 .. MaxOutput
      /\ d.pipe > 0
      /\ UNCHANGED <<main, tasks, expected, registration, call, history>>
  BY TypeParts DEF IInv, Reader, HistoryType
<1>2. d.written \in 0 .. MaxOutput /\ d.pipe \in 0 .. MaxOutput /\ d.stdout \in Nat /\ Answering(m) \in Nat
  BY <1>1, AnsweringType, BoundsAssumption DEF MachineType, IInv
<1>3. s \in 0 .. MaxOutput /\ p \in 0 .. MaxOutput
  BY <1>1, <1>2, BoundsAssumption DEF IInv, Output
<1>4. machines' = [machines EXCEPT ![m] = r]
  BY <1>1 DEF Reader, MachineType
<1>5. Answering(m)' = Answering(m) /\ \A n \in Machines : Answering(n)' = Answering(n)
  BY <1>1 DEF Answering
<1>6. /\ r \in MachineType /\ Kept(d, r) /\ r.written = d.written /\ r.pipe = p /\ r.stdout = s
  <2> HIDE DEF s, p, d
  <2> QED BY <1>1, <1>2, <1>3 DEF MachineType, Kept
<1>7. r.written - r.pipe - r.stdout - Answering(m)' = d.written - d.pipe - d.stdout - Answering(m)
  BY <1>2, <1>5, <1>6, BoundsAssumption
<1> HIDE DEF r
<1>8. Answering(m) \in Int
  BY <1>2
<1> QED BY <1>1, <1>4, <1>5, <1>6, <1>7, <1>8, OutputMoves

(* A method answers: ReadStdout hands the output to the call.              *)
LEMMA AnswerInv ==
    ASSUME IInv, NEW m \in Machines, Answer(m)
    PROVE  IInv'
<1> DEFINE d == machines[m]
           v == IF call.kind = "read" THEN d.stdout ELSE 0
<1>1. /\ machines \in [Machines -> MachineType] /\ d \in MachineType
      /\ call \in CallType \cup {NoCall} /\ call.machine = m /\ call.stage = "handling"
      /\ call' = [call EXCEPT !.stage = "answered", !.value = v]
      /\ UNCHANGED <<main, tasks, expected, registration, history>>
  BY TypeParts DEF IInv, Answer, Pending
<1>2. call \in CallType /\ call # NoCall
  BY <1>1, NoneAssumption DEF NoCall
<1>3. v \in 0 .. MaxOutput
  BY <1>1, BoundsAssumption DEF MachineType
<1>4. /\ call' \in CallType /\ Answering(m)' = v /\ Answering(m) = 0
      /\ \A n \in Machines \ {m} : Answering(n)' = Answering(n)
  <2> HIDE DEF v
  <2> QED BY <1>1, <1>2, <1>3 DEF CallType, Answering
<1>5. PICK r : /\ machines' = [machines EXCEPT ![m] = r]
               /\ \/ call.kind = "start" /\ r = [d EXCEPT !.child = "running"]
                  \/ call.kind = "read" /\ r = [d EXCEPT !.stdout = 0]
                  \/ call.kind = "kill" /\ r = [d EXCEPT !.child = "ended"]
                  \/ call.kind = "quit" /\ r = [d EXCEPT !.shutdown_requested = TRUE]
                  \/ call.kind = "wait" /\ r = d
  <2>1. call.kind \in Kinds
    BY <1>2 DEF CallType
  <2>2. machines' = [machines EXCEPT ![m] =
            CASE call.kind = "start" -> [d EXCEPT !.child = "running"]
              [] call.kind = "read"  -> Flushed(d)
              [] call.kind = "kill"  -> [d EXCEPT !.child = "ended"]
              [] call.kind = "quit"  -> [d EXCEPT !.shutdown_requested = TRUE]
              [] OTHER -> d]
    BY <1>1 DEF Answer
  <2> QED BY <2>1, <2>2 DEF Kinds, Flushed
<1>6. CASE call.kind # "read"
  <2>1. r \in MachineType /\ Kept(d, r) /\ SameOutput(d, r)
    <3>1. Kept(d, d) /\ SameOutput(d, d)
      BY DEF Kept, SameOutput
    <3> QED BY <1>1, <1>5, <1>6, <3>1, ChildSet, RequestedSet
  <2>2. \A n \in Machines : Answering(n)' = Answering(n)
    BY <1>4, <1>6
  <2> QED BY <1>1, <1>2, <1>4, <1>5, <2>1, <2>2, QuietStep
<1>7. CASE call.kind = "read"
  <2>1. r = [d EXCEPT !.stdout = 0] /\ v = d.stdout
    BY <1>5, <1>7
  <2>2. /\ r \in MachineType /\ Kept(d, r) /\ r.written = d.written /\ r.pipe = d.pipe /\ r.stdout = 0
    BY <1>1, <2>1, BoundsAssumption DEF MachineType, Kept
  <2>3. d.written \in Int /\ d.pipe \in Int /\ d.stdout \in Int
    BY <1>1 DEF MachineType
  <2>4. r.written - r.pipe - r.stdout - Answering(m)' = d.written - d.pipe - d.stdout - Answering(m)
    BY <1>4, <2>1, <2>2, <2>3
  <2>5. Answering(m) \in Int /\ Answering(m)' \in Int
    BY <1>4, <2>1, <2>3
  <2> HIDE DEF v
  <2> QED BY <1>1, <1>2, <1>4, <1>5, <2>2, <2>4, <2>5, OutputMoves
<1> QED BY <1>6, <1>7

LEMMA StutterInv ==
    ASSUME IInv, UNCHANGED vars
    PROVE  IInv'
<1>1. TypeOK' /\ Calls'
  BY TypeParts, TypesNext DEF vars, IInv, Calls
<1>2. Once' /\ Output' /\ Addressed'
  BY MainKept DEF vars, Answering
<1> QED BY <1>1, <1>2 DEF IInv

-----------------------------------------------------------------------------
(* The theorems. *)

\* The invariant of the controller, the registration server and the machines.
THEOREM Invariance == Spec => []IInv
<1>1. IInv /\ [Next]_vars => IInv'
  <2> SUFFICES ASSUME IInv, [Next]_vars PROVE IInv'
    OBVIOUS
  <2>1. CASE MainThread
    <3>1. CASE TestEnds \/ RequestShutdown \/ ShutdownReturns
      BY <3>1, MainMovesInv
    <3>2. CASE \E t \in Tasks : TestReleases(t)
      BY <3>2, ReleaseInv DEF TestReleases, InTest
    <3>3. CASE ReleaseNext
      BY <3>3, ReleaseInv, TypeParts DEF ReleaseNext, IInv, MainType
    <3>4. CASE ControllerExits
      BY <3>4, ExitInv DEF ControllerExits
    <3>5. CASE Connected \/ ConnectionTimeout \/ CallReturns \/ CallFails
      BY <3>5, ConnectedInv, TimeoutInv, CallReturnsInv, CallFailsInv
    <3>6. CASE \E t \in Tasks : \/ \E m \in Machines : Create(t, m)
                                \/ WaitForConnection(t)
                                \/ \E kind \in Kinds \ {"quit"} : CallMethod(t, kind)
      BY <3>6, CreateInv, WaitInv, CallMethodInv
    <3> QED BY <2>1, <3>1, <3>2, <3>3, <3>4, <3>5, <3>6 DEF MainThread
  <2>2. CASE ControllerKilled
    BY <2>2, ExitInv DEF ControllerKilled
  <2>3. CASE RegistrationThread
    BY <2>3, TakeRequestInv, CheckOtpInv, OnConnectInv, ReplyInv, StopsInv DEF RegistrationThread
  <2>4. ASSUME NEW m \in Machines, ServerThread(m) PROVE IInv'
    BY <2>4, ConnectInv, ServeInv, TakeCallInv, AnswerInv, StopServingInv, MachineExitsInv
       DEF ServerThread
  <2>5. ASSUME NEW m \in Machines, IdleRound(m) \/ ChildWrites(m) \/ ChildEnds(m) \/ Reader(m)
        PROVE IInv'
    BY <2>5, IdleRoundInv, ChildWritesInv, ChildEndsInv, ReaderInv
  <2> QED BY <2>1, <2>2, <2>3, <2>4, <2>5, StutterInv DEF Next
<1> QED BY <1>1, InitInv, PTL DEF Spec

\* Every variable keeps its type: the counts of output stay within what the
\* child wrote, whatever the threads' order.
THEOREM TypeCorrect == Spec => []TypeOK
<1>1. IInv => TypeOK
  BY DEF IInv
<1> QED BY <1>1, Invariance, PTL

\* A one-time password is used once (_RegisterTaskRPC), so that one machine
\* at most registers for a task and rpc calls that machine.
THEOREM OneMachinePerTaskHolds == Spec => []OneMachinePerTask
<1>1. IInv => OneMachinePerTask
  BY DEF IInv, Once, OneMachinePerTask
<1> QED BY <1>1, Invariance, PTL

\* OnConnect sets the event last (task_controller.py:209-213): the rpc of a task
\* that was seen connected and not released addresses a machine that asked to
\* register for it.  Whether that machine listens yet is another matter.
THEOREM ConnectedHasMachineHolds == Spec => []ConnectedHasMachine
<1>1. IInv => ConnectedHasMachine
  BY DEF IInv, Once, Addressed, ConnectedHasMachine, Early
<1> QED BY <1>1, Invariance, PTL

\* The reader thread and ReadStdout neither lose nor repeat what a child wrote.
THEOREM OutputExactHolds == Spec => []OutputExact
<1>1. IInv => OutputExact
  BY DEF IInv, Output, OutputExact, Answering
<1> QED BY <1>1, Invariance, PTL
=============================================================================
