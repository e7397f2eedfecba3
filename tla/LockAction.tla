----------------------------- MODULE LockAction -----------------------------
(***************************************************************************)
(* lock_action of NukiOpenerClient (nuki/client.py) and the other calls    *)
(* whose answer is a STATUS message (set_advanced_config,                  *)
(* verify_security_pin), with the Opener at the other end: challenge and   *)
(* single-use nonce, replay after dead air, the second round after         *)
(* K_BAD_NONCE, ACCEPTED and COMPLETE, and the completion queue.           *)
(*                                                                         *)
(* Calls are serialized by the operation lock; NukiClient models the lock, *)
(* connecting and disconnecting, which are single steps here.              *)
(***************************************************************************)
EXTENDS Naturals, Sequences

CONSTANTS
    NumCalls,         \* bound: calls made
    RequestAttempts,  \* REQUEST_ATTEMPTS
    QueueCap,         \* how many items of the completion queue admit a status
    MaxNonces,        \* bound: challenges the Opener generates
    MaxNotifications  \* bound: notifications on their way at a time

ASSUME NumCallsAssumption == NumCalls \in Nat
ASSUME AttemptsAssumption == RequestAttempts \in Nat \ {0}
ASSUME QueueCapAssumption == QueueCap \in Nat
ASSUME NoncesAssumption == MaxNonces \in Nat
ASSUME NotificationsAssumption == MaxNotifications \in Nat

Calls == 1 .. NumCalls

\* "strike" waits for completion, "toggle" (RTO, continuous mode) does not;
\* "setting" is a request answered by one status.
Kinds == {"strike", "toggle", "setting"}

VARIABLES
    \* the client
    call,        \* the running, or else the latest, call
    kind,        \* its kind
    phase,       \* "idle", or what the call awaits
    round,       \* nonce_attempt
    attempt,     \* loop variable of _request
    nonce,       \* the challenge the action was built with
    pending,     \* _pending and the state of its future
    response,    \* what the future was resolved with
    completion,  \* _completion, empty while it is None
    result,      \* per call: "new", "called", or how it returned
    doubtful,    \* history: calls begun on a link with an earlier status to come
    \* the radio
    link, toDevice, toClient,
    \* the Opener
    deviceNonce, \* the challenge it would accept, 0 when consumed
    lastNonce,   \* the latest challenge it generated
    running,     \* accepted actions whose end it will report on this link
    executed,    \* per call: how often it has performed the action
    finished     \* calls it has reported COMPLETE for

client == <<call, kind, phase, round, attempt, nonce, result, doubtful>>
opener == <<deviceNonce, lastNonce, executed, finished>>
vars == <<client, pending, response, completion, link, toDevice, toClient,
          running, opener>>

-----------------------------------------------------------------------------
(* Messages.  The wire carries no call and, in a STATUS, no command: "call" *)
(* is history, and the client never looks at it.                           *)

Message(k, n, c) == [kind |-> k, nonce |-> n, call |-> c]
NoMessage == Message("none", 0, 0)
Lost == Message("lost", 0, 0)     \* the None that _on_disconnect queues

Statuses == {"accepted", "complete"}
Errors == {"bad_nonce", "refused", "failed"}

\* _completion is not None: from before the action is sent until it ends.
Armed == phase \in {"action", "completion"} /\ kind # "setting"

\* A new link is established and the message written, or that fails.
Reconnect(m) ==
    /\ toClient' = <<>>
    /\ running' = {}
    /\ \/ link' = "up" /\ toDevice' = m /\ pending' = "waiting"
       \/ link' = "down" /\ toDevice' = NoMessage /\ pending' = "failed"

\* _request_once up to its wait, on the warm link if there is one.  One request
\* is on its way at a time: an earlier one was handled, or is lost by now.
Send(m) ==
    /\ response' = NoMessage
    /\ \/ /\ link = "up"
          /\ toDevice' = m
          /\ pending' = "waiting"
          /\ UNCHANGED <<link, toClient, running>>
       \/ link = "down" /\ Reconnect(m)

ChallengeRequest == Message("challenge_request", 0, call)
ActionRequest(n) ==
    Message(IF kind = "setting" THEN "setting" ELSE "action", n, call)

-----------------------------------------------------------------------------
(* The client.                                                             *)

Init ==
    /\ call = 0 /\ kind = "toggle" /\ phase = "idle"
    /\ round = 0 /\ attempt = 0 /\ nonce = 0
    /\ pending = "none" /\ response = NoMessage /\ completion = <<>>
    /\ result = [c \in Calls |-> "new"]
    /\ doubtful = {}
    /\ link = "down" /\ toDevice = NoMessage /\ toClient = <<>>
    /\ deviceNonce = 0 /\ lastNonce = 0 /\ running = {}
    /\ executed = [c \in Calls |-> 0]
    /\ finished = {}

\* The operation lock is taken and _request_challenge sends.
Begin ==
    /\ phase = "idle"
    /\ call < NumCalls
    /\ call' = call + 1
    /\ kind' \in Kinds
    /\ phase' = "challenge"
    /\ result' = [result EXCEPT ![call + 1] = "called"]
    /\ doubtful' = IF link = "up" /\ (running # {} \/ toClient # <<>> \/ toDevice # NoMessage)
                     THEN doubtful \cup {call + 1} ELSE doubtful
    /\ Send(Message("challenge_request", 0, call + 1))
    /\ UNCHANGED <<round, attempt, nonce, completion, opener>>

\* The call returns or raises; its `finally` clauses run.
Return(r) ==
    /\ phase' = "idle"
    /\ result' = [result EXCEPT ![call] = r]
    /\ round' = 0 /\ attempt' = 0 /\ nonce' = 0
    /\ pending' = "none" /\ response' = NoMessage /\ completion' = <<>>
    /\ UNCHANGED <<call, kind, doubtful, link, toDevice, toClient, running, opener>>

\* Mutants of SecondRound: as many rounds as it takes; for settings too.
AnotherRound ==
    /\ kind # "setting"
    /\ round' = 1
    /\ phase' = "challenge"
    /\ attempt' = 0 /\ nonce' = 0
    /\ completion' = <<>>
    /\ Send(ChallengeRequest)
    /\ UNCHANGED <<call, kind, result, doubtful, opener>>

SecondRoundForAll ==
    /\ round = 0
    /\ round' = 1
    /\ phase' = "challenge"
    /\ attempt' = 0 /\ nonce' = 0
    /\ completion' = <<>>
    /\ Send(ChallengeRequest)
    /\ UNCHANGED <<call, kind, result, doubtful, opener>>

\* `continue` after K_BAD_NONCE in the first of the two rounds.
SecondRound ==
    /\ round = 0
    /\ kind # "setting"
    /\ round' = 1
    /\ phase' = "challenge"
    /\ attempt' = 0 /\ nonce' = 0
    /\ completion' = <<>>
    /\ Send(ChallengeRequest)
    /\ UNCHANGED <<call, kind, result, doubtful, opener>>

RaiseError(e) ==
    \/ e = "bad_nonce" /\ SecondRound
    \/ (e # "bad_nonce" \/ round > 0 \/ kind = "setting") /\ Return("error")

\* An error report in answer to the challenge request is not caught.
ChallengeRaises ==
    /\ phase = "challenge" /\ pending = "raised"
    /\ Return("error")

\* The challenge is there: arm the completion queue and send the action.
ChallengeArrives ==
    /\ phase = "challenge" /\ pending = "answered"
    /\ phase' = "action"
    /\ nonce' = response.nonce
    /\ attempt' = 0
    /\ completion' = <<>>
    /\ Send(ActionRequest(response.nonce))
    /\ UNCHANGED <<call, kind, round, result, doubtful, opener>>

ActionRaises ==
    /\ phase = "action" /\ pending = "raised"
    /\ RaiseError(response.kind)

\* The first STATUS: an accepted strike goes on to wait for its completion; a
\* setting must be answered COMPLETE.
ActionAnswered ==
    /\ phase = "action" /\ pending = "answered"
    /\ \/ /\ kind = "strike" /\ response.kind = "accepted"
          /\ phase' = "completion"
          /\ pending' = "none" /\ response' = NoMessage
          /\ attempt' = 0
          /\ UNCHANGED <<call, kind, round, nonce, result, doubtful, completion,
                         link, toDevice, toClient, running, opener>>
       \/ /\ ~(kind = "strike" /\ response.kind = "accepted")
          /\ Return(IF kind = "setting" /\ response.kind # "complete"
                      THEN "error" ELSE response.kind)

\* A mutant of LastAttempt: one attempt too many.
LastAttemptTooLate == attempt = RequestAttempts

LastAttempt == attempt + 1 = RequestAttempts

\* The watchdog expired, the link dropped or could not be established:
\* disconnect, sleep and replay the same message, or raise.  The disconnect
\* reaches _on_disconnect while the completion queue is armed.
AttemptFails ==
    /\ phase \in {"challenge", "action"}
    /\ \/ /\ ~LastAttempt
          /\ attempt' = attempt + 1
          /\ Reconnect(IF phase = "action" THEN ActionRequest(nonce) ELSE ChallengeRequest)
          /\ response' = NoMessage
          /\ completion' = IF Armed /\ link = "up" THEN Append(completion, Lost)
                                                   ELSE completion
          /\ UNCHANGED <<call, kind, phase, round, nonce, result, doubtful, opener>>
       \/ LastAttempt /\ Return("error")

\* _wait_for_completion takes the next item of the queue.
TakeCompletion ==
    /\ phase = "completion"
    /\ completion # <<>>
    /\ LET item == Head(completion) IN
         \/ item.kind = "lost" /\ Return("accepted")
         \/ item.kind \in Errors /\ RaiseError(item.kind)
         \/ item.kind = "complete" /\ Return("complete")
         \/ /\ item.kind = "accepted"
            /\ completion' = Tail(completion)
            /\ UNCHANGED <<client, pending, response, link, toDevice, toClient,
                           running, opener>>

\* A mutant of CompletionTimeout: only the loss of the link ends the wait.
CompletionTimeoutWithLink ==
    /\ phase = "completion" /\ link = "down"
    /\ Return("accepted")

CompletionTimeout ==
    /\ phase = "completion"
    /\ Return("accepted")

\* _handle_message, for the next notification on the link.
HandleMessage ==
    /\ toClient # <<>>
    /\ toClient' = Tail(toClient)
    /\ LET m == Head(toClient)
           waiting == pending = "waiting"
           expected == \/ phase = "challenge" /\ m.kind = "challenge"
                       \/ phase = "action" /\ m.kind \in Statuses
       IN \/ /\ waiting /\ m.kind \in Errors
             /\ pending' = "raised" /\ response' = m
             /\ UNCHANGED completion
          \/ /\ waiting /\ expected
             /\ pending' = "answered" /\ response' = m
             /\ UNCHANGED completion
          \/ /\ m.kind \in Errors /\ ~waiting
             /\ completion' = IF Armed THEN Append(completion, m) ELSE completion
             /\ UNCHANGED <<pending, response>>
          \/ /\ m.kind \in Statuses /\ ~(waiting /\ expected)
             /\ completion' = IF Armed /\ Len(completion) < QueueCap
                                THEN Append(completion, m) ELSE completion
             /\ UNCHANGED <<pending, response>>
          \/ /\ m.kind = "challenge" /\ ~(waiting /\ expected)
             /\ UNCHANGED <<pending, response, completion>>
    /\ UNCHANGED <<client, link, toDevice, running, opener>>

\* The idle timer of the client closes the warm link.
IdleDisconnect ==
    /\ phase = "idle" /\ link = "up"
    /\ link' = "down"
    /\ toDevice' = NoMessage /\ toClient' = <<>> /\ running' = {}
    /\ UNCHANGED <<client, pending, response, completion, opener>>

-----------------------------------------------------------------------------
(* The radio and the Opener.                                               *)

LinkDrops ==
    /\ phase # "idle" /\ link = "up"
    /\ link' = "down"
    /\ toDevice' = NoMessage /\ toClient' = <<>> /\ running' = {}
    /\ pending' = IF pending = "waiting" THEN "failed" ELSE pending
    /\ completion' = IF Armed THEN Append(completion, Lost) ELSE completion
    /\ UNCHANGED <<client, response, opener>>

\* "The connection goes deaf": what is on its way is lost, the link stays.
DeadAir ==
    /\ link = "up"
    /\ toDevice # NoMessage \/ toClient # <<>>
    /\ \/ toDevice' = NoMessage /\ UNCHANGED toClient
       \/ toClient' = <<>> /\ UNCHANGED toDevice
    /\ UNCHANGED <<client, pending, response, completion, link, running, opener>>

Notify(m) ==
    /\ Len(toClient) < MaxNotifications
    /\ toClient' = Append(toClient, m)

OpenerChallenge ==
    /\ toDevice.kind = "challenge_request"
    /\ lastNonce < MaxNonces
    /\ toDevice' = NoMessage
    /\ lastNonce' = lastNonce + 1
    /\ deviceNonce' = lastNonce + 1
    /\ Notify(Message("challenge", lastNonce + 1, toDevice.call))
    /\ UNCHANGED <<client, pending, response, completion, link, running,
                   executed, finished>>

\* Each nonce is good for one command: the Opener refuses it, performs a lock
\* action and reports its end later, or applies a setting at once.
OpenerPerforms(c) ==
    /\ executed' = [executed EXCEPT ![c] = @ + 1]
    /\ \/ /\ toDevice.kind = "action"
          /\ Notify(Message("accepted", 0, c))
          /\ running' = running \cup {c}
          /\ UNCHANGED finished
       \/ /\ toDevice.kind = "setting"
          /\ Notify(Message("complete", 0, c))
          /\ finished' = finished \cup {c}
          /\ UNCHANGED running

OpenerAction ==
    /\ toDevice.kind \in {"action", "setting"}
    /\ toDevice' = NoMessage
    /\ \/ /\ toDevice.nonce # deviceNonce
          /\ Notify(Message("bad_nonce", 0, toDevice.call))
          /\ UNCHANGED <<deviceNonce, running, executed, finished>>
       \/ /\ toDevice.nonce = deviceNonce
          /\ deviceNonce' = 0
          /\ \/ /\ Notify(Message("refused", 0, toDevice.call))
                /\ UNCHANGED <<running, executed, finished>>
             \/ OpenerPerforms(toDevice.call)
    /\ UNCHANGED <<client, pending, response, completion, link, lastNonce>>

\* The feedback sequence ends, or the action fails.
OpenerFinishes(c) ==
    /\ c \in running
    /\ running' = running \ {c}
    /\ \/ Notify(Message("complete", 0, c)) /\ finished' = finished \cup {c}
       \/ Notify(Message("failed", 0, c)) /\ UNCHANGED finished
    /\ UNCHANGED <<client, pending, response, completion, link, toDevice,
                   deviceNonce, lastNonce, executed>>

\* Some firmware repeats ACCEPTED.
OpenerRepeatsAccepted(c) ==
    /\ c \in running
    /\ Notify(Message("accepted", 0, c))
    /\ UNCHANGED <<client, pending, response, completion, link, toDevice,
                   running, opener>>

-----------------------------------------------------------------------------
ClientStep ==
    \/ ChallengeRaises \/ ChallengeArrives
    \/ ActionRaises \/ ActionAnswered
    \/ AttemptFails
    \/ TakeCompletion

Next ==
    \/ Begin
    \/ ClientStep
    \/ CompletionTimeout
    \/ HandleMessage
    \/ IdleDisconnect
    \/ LinkDrops
    \/ DeadAir
    \/ OpenerChallenge \/ OpenerAction
    \/ \E c \in Calls : OpenerFinishes(c) \/ OpenerRepeatsAccepted(c)

Spec == Init /\ [][Next]_vars

\* The watchdogs of asyncio.timeout fire; nothing is asked of the radio.
FairSpec == Spec /\ WF_vars(ClientStep) /\ WF_vars(CompletionTimeout)

-----------------------------------------------------------------------------
(* Properties.                                                             *)

MessageKinds ==
    {"none", "lost", "challenge_request", "action", "setting", "challenge"}
        \cup Statuses \cup Errors

Messages == [kind : MessageKinds, nonce : Nat, call : Nat]

TypeOK ==
    /\ call \in 0 .. NumCalls /\ kind \in Kinds
    /\ phase \in {"idle", "challenge", "action", "completion"}
    /\ round \in 0 .. 1
    /\ attempt \in 0 .. RequestAttempts - 1
    /\ nonce \in Nat
    /\ pending \in {"none", "waiting", "answered", "raised", "failed"}
    /\ response \in Messages
    /\ completion \in Seq(Messages)
    /\ result \in [Calls -> {"new", "called", "accepted", "complete", "error"}]
    /\ doubtful \subseteq Calls
    /\ link \in {"up", "down"}
    /\ toDevice \in Messages
    /\ toClient \in Seq(Messages)
    /\ deviceNonce \in Nat /\ lastNonce \in Nat
    /\ running \subseteq Calls /\ finished \subseteq Calls
    /\ executed \in [Calls -> Nat]

\* Whatever is lost, late or replayed, a call is performed at most twice (two
\* rounds, client.py:498), a good status means that the Opener performed this
\* call, and COMPLETE that it finished it, unless the call began on a warm link
\* that still had an earlier status to bring.
Promise == INSTANCE LockActionPromise WITH MaxExecutions <- 2

PromiseKept == Promise!Spec

\* A setting has one round, so replaying it never applies it twice
\* (client.py:323-325, which is right for these requests).
SettingAppliedOnce ==
    phase # "idle" /\ kind = "setting" => executed[call] <= 1

\* lock_action returns or raises (client.py:483-558): attempts, rounds and the
\* wait for completion are all bounded.
CallReturns == phase # "idle" ~> phase = "idle"

\* "Nuki's challenge nonces are single-use, so a command the device already
\* executed is rejected rather than executed twice" (client.py:323-325).
NeverExecutedTwice == \A c \in Calls : executed[c] <= 1

\* "a stale status can never be taken for a later action's completion"
\* (client.py:147-148): COMPLETE is returned for calls that did complete.
CompletionIsOwn ==
    \A c \in Calls : result[c] = "complete" => c \in finished

=============================================================================
