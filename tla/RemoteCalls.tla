---------------------------- MODULE RemoteCalls ----------------------------
(***************************************************************************)
(* What the call bridge promises the scripts of the pages, without saying  *)
(* how: no identifiers, tables, queues, threads or pointers.               *)
(*                                                                         *)
(* A call is made, taken by native code in the order of the calls, and     *)
(* then refused, or answered and completed; the end of its page cuts it    *)
(* short wherever it is.  A call is completed by its own answer, at most   *)
(* once, and never after it was refused or cut.  A script that made a      *)
(* blocking call does nothing else until that call ends.                   *)
(***************************************************************************)
EXTENDS Naturals

CONSTANTS Calls,  \* the calls, numbered in the order they are made
          Nobody  \* no call blocks the script

VARIABLES stage,    \* how far each call has come
          blocking  \* the call that blocks the script

\* A call is "unmade", "made", "taken", "answered", "completed", "refused" or
\* "cut"; from these stages it may still be completed.
Open == {"made", "taken", "answered"}

Init ==
    /\ stage = [c \in Calls |-> "unmade"]
    /\ blocking = Nobody

\* The next call in order.
Make(c) ==
    /\ stage[c] = "unmade"
    /\ \A d \in Calls : d < c => stage[d] # "unmade"
    /\ blocking = Nobody
    /\ stage' = [stage EXCEPT ![c] = "made"]
    /\ blocking' \in {Nobody, c}

Oldest(c) == stage[c] = "made" /\ \A d \in Calls : d < c => stage[d] # "made"

Take(c) ==
    /\ Oldest(c)
    /\ stage' = [stage EXCEPT ![c] = "taken"]
    /\ UNCHANGED blocking

\* A blocking call that is refused may be ended, or leave the script blocked.
Refuse(c) ==
    /\ Oldest(c)
    /\ stage' = [stage EXCEPT ![c] = "refused"]
    /\ blocking' \in IF blocking = c THEN {c, Nobody} ELSE {blocking}

Answer(c) ==
    /\ stage[c] = "taken"
    /\ stage' = [stage EXCEPT ![c] = "answered"]
    /\ UNCHANGED blocking

\* The answer to a blocking call may reach the script in the same step.
Complete(c) ==
    /\ \/ stage[c] = "answered" /\ blocking \in {Nobody, c}
       \/ stage[c] = "taken" /\ blocking = c
    /\ stage' = [stage EXCEPT ![c] = "completed"]
    /\ blocking' = Nobody

\* The page ends, and with it everything the script waits for.
Cut ==
    /\ stage' = [c \in Calls |-> IF stage[c] \in Open THEN "cut" ELSE stage[c]]
    /\ blocking' = Nobody

Next ==
    \/ \E c \in Calls : Make(c) \/ Take(c) \/ Refuse(c) \/ Answer(c) \/ Complete(c)
    \/ Cut

Spec == Init /\ [][Next]_<<stage, blocking>>
=============================================================================
