------------------------- MODULE LockActionPromise -------------------------
(***************************************************************************)
(* What the client promises to the callers of lock_action and of           *)
(* set_advanced_config, whatever happens on the radio: the device performs *)
(* a call a bounded number of times, a call returns once, and a good       *)
(* status is the status of that call.  LockAction implements it.           *)
(***************************************************************************)
EXTENDS Naturals

CONSTANTS
    Calls,          \* the calls of one client, in the order they get the lock
    MaxExecutions   \* how often the device may perform one call

VARIABLES
    result,     \* per call: "new", "called", or how it returned
    executed,   \* per call: how often the device has performed it
    finished,   \* calls whose completion the device has reported
    doubtful    \* calls that began while the link could still bring the
                \* status of an earlier call

vars == <<result, executed, finished, doubtful>>

Returns == {"accepted", "complete", "error"}

Init ==
    /\ result = [c \in Calls |-> "new"]
    /\ executed = [c \in Calls |-> 0]
    /\ finished = {}
    /\ doubtful = {}

\* Calls are serialized: the next one begins when all before it have returned.
Begin(c) ==
    /\ result[c] = "new"
    /\ \A d \in Calls : d < c => result[d] \in Returns
    /\ result' = [result EXCEPT ![c] = "called"]
    /\ doubtful' \in {doubtful, doubtful \cup {c}}
    /\ UNCHANGED <<executed, finished>>

\* Also after the call has returned an error: the request may still arrive.
Execute(c) ==
    /\ result[c] # "new"
    /\ executed[c] < MaxExecutions
    /\ executed' = [executed EXCEPT ![c] = @ + 1]
    /\ finished' \in {finished, finished \cup {c}}
    /\ UNCHANGED <<result, doubtful>>

Finish(c) ==
    /\ executed[c] > 0
    /\ finished' = finished \cup {c}
    /\ UNCHANGED <<result, executed, doubtful>>

Return(c) ==
    /\ result[c] = "called"
    /\ \E r \in Returns :
          /\ r = "accepted" => executed[c] > 0 \/ c \in doubtful
          /\ r = "complete" => c \in finished \/ c \in doubtful
          /\ result' = [result EXCEPT ![c] = r]
    /\ UNCHANGED <<executed, finished, doubtful>>

Next == \E c \in Calls : Begin(c) \/ Execute(c) \/ Finish(c) \/ Return(c)

Spec == Init /\ [][Next]_vars

=============================================================================
