----------------------------- MODULE NukiClient -----------------------------
(***************************************************************************)
(* The connection lifecycle of NukiOpenerClient (nuki/client.py): the      *)
(* operation lock, the single pending command, on-demand connecting, the   *)
(* bounded retry, the idle disconnect timer and the task it starts, and    *)
(* disconnect() called from outside by unload or by Home Assistant's stop. *)
(*                                                                         *)
(* The program is one asyncio event loop: a coroutine runs from one await  *)
(* to the next without interruption.  An action is one such run; between   *)
(* two actions the loop may run another task, a timer or a callback of     *)
(* bleak.  What a request carries is the business of LockAction and of     *)
(* the device; here an operation is a number of requests.                  *)
(***************************************************************************)
EXTENDS Naturals, FiniteSets

CONSTANTS
    Tasks,             \* coroutines that call the client's operations
    Links,             \* identities of BLE links, reused once a link is gone
    NoTask, NoLink,
    RequestAttempts,   \* REQUEST_ATTEMPTS
    MaxRequests,       \* bound: requests one operation sends, at most
    StopAllowed        \* whether unload or stop may call disconnect()

ASSUME TasksAssumption == NoTask \notin Tasks
ASSUME LinksAssumption == NoLink \notin Links
ASSUME AttemptsAssumption == RequestAttempts \in Nat \ {0}
ASSUME RequestsAssumption == MaxRequests \in Nat \ {0}
ASSUME StopAssumption == StopAllowed \in BOOLEAN

VARIABLES
    pc,             \* where each task is suspended
    holder,         \* the task that holds _operation_lock
    attempt,        \* _request: the loop variable of the running request
    requests,       \* requests the running operation has left, this one included
    pending,        \* _pending: "none", or the state of its future
    client,         \* _client: the link it wraps, dead or alive
    using,          \* the link the running await depends on
    link,           \* what each BLE link is doing
    timer,          \* _disconnect_timer is armed
    disconnectTask, \* _disconnect_task is created but has not run its first step
    stopped         \* unload or stop has called disconnect()

vars == <<pc, holder, attempt, requests, pending, client, using, link, timer,
          disconnectTask, stopped>>

-----------------------------------------------------------------------------
(* Links.  A link is "free" when it does not exist, "up" when connected,   *)
(* "closing" while client.disconnect() is awaited, and "stuck" when that   *)
(* call failed and disconnect() suppressed the error: the radio link stays *)
(* connected and nothing refers to it any more.                            *)

LinkStates == {"free", "up", "closing", "stuck"}

Connected == client # NoLink /\ link[client] = "up"    \* is_connected

\* disconnect(), up to its await.
Disconnect ==
    /\ timer' = FALSE
    /\ client' = NoLink
    /\ link' = IF Connected THEN [link EXCEPT ![client] = "closing"] ELSE link

\* _on_disconnect: it does not look at which client was disconnected.
OnDisconnect ==
    pending' = IF pending = "waiting" THEN "failed" ELSE pending

-----------------------------------------------------------------------------
(* One request.  Where a task can be:                                      *)
(*   idle, waiting        outside, and queueing for _operation_lock        *)
(*   establish, subscribe awaiting in connect()                            *)
(*   unsubscribe          awaiting disconnect() after a failed subscribe   *)
(*   write, await         awaiting write_gatt_char, and the response       *)
(*   closing, sleep       awaiting disconnect() and sleep before a retry   *)
(*   completion           awaiting the final status of a lock action       *)
(*   crash                unwinding with an error that is not a NukiError  *)

Requesting == {"establish", "subscribe", "unsubscribe", "write", "await"}

Holding == Requesting \cup {"closing", "sleep", "completion", "crash"}

PCs == Holding \cup {"idle", "waiting"}

Goto(t, place) == pc' = [pc EXCEPT ![t] = place]

\* A mutant of Send: connect() returns at once and leaves the timer armed.
SendKeepingTimer(t) ==
    /\ pending' = "waiting"
    /\ \/ Connected /\ Goto(t, "write") /\ using' = client /\ UNCHANGED timer
       \/ ~Connected /\ Goto(t, "establish") /\ using' = NoLink /\ timer' = FALSE
    /\ UNCHANGED <<client, link>>

\* _request_once up to its first await: register the pending command, then
\* connect(), which cancels the timer and returns at once on a live link.
Send(t) ==
    /\ pending' = "waiting"
    /\ timer' = FALSE
    /\ \/ Connected /\ Goto(t, "write") /\ using' = client
       \/ ~Connected /\ Goto(t, "establish") /\ using' = NoLink
    /\ UNCHANGED <<client, link>>

\* The operation's next _request; the `finally` of the one before has reset
\* _pending in the same run.
NextRequest(t) ==
    /\ requests > 1
    /\ requests' = requests - 1
    /\ attempt' = 0
    /\ Send(t)
    /\ UNCHANGED <<holder, disconnectTask, stopped>>

\* Mutants of Finish: no _schedule_disconnect; no reset of _pending.
FinishUnscheduled(t) ==
    /\ Goto(t, "idle") /\ holder' = NoTask
    /\ attempt' = 0 /\ requests' = 0 /\ pending' = "none" /\ using' = NoLink
    /\ UNCHANGED <<client, link, timer, disconnectTask, stopped>>

FinishKeepingPending(t) ==
    /\ Goto(t, "idle") /\ holder' = NoTask
    /\ attempt' = 0 /\ requests' = 0 /\ using' = NoLink /\ timer' = Connected
    /\ UNCHANGED <<client, link, pending, disconnectTask, stopped>>

\* The operation returns or raises: _schedule_disconnect, then the lock.
Finish(t) ==
    /\ Goto(t, "idle")
    /\ holder' = NoTask
    /\ attempt' = 0
    /\ requests' = 0
    /\ pending' = "none"
    /\ using' = NoLink
    /\ timer' = Connected
    /\ UNCHANGED <<client, link, disconnectTask, stopped>>

\* A mutant of LastAttempt: one attempt too many.
LastAttemptTooLate == attempt = RequestAttempts

LastAttempt == attempt + 1 = RequestAttempts

\* A NukiConnectionError leaves _request_once: go round the loop of _request,
\* whose next round starts with disconnect(), or give up.
AttemptFails(t) ==
    \/ /\ ~LastAttempt
       /\ attempt' = attempt + 1
       /\ pending' = "none"
       /\ Disconnect
       /\ \/ Connected /\ Goto(t, "closing") /\ using' = client
          \/ ~Connected /\ Goto(t, "sleep") /\ using' = NoLink
       /\ UNCHANGED <<holder, requests, disconnectTask, stopped>>
    \/ LastAttempt /\ Finish(t)

-----------------------------------------------------------------------------
(* Tasks.                                                                  *)

Init ==
    /\ pc = [t \in Tasks |-> "idle"]
    /\ holder = NoTask
    /\ attempt = 0
    /\ requests = 0
    /\ pending = "none"
    /\ client = NoLink
    /\ using = NoLink
    /\ link = [l \in Links |-> "free"]
    /\ timer = FALSE
    /\ disconnectTask = FALSE
    /\ stopped = FALSE

\* An operation is called; after unload no entity is left to call one.
Call(t) ==
    /\ pc[t] = "idle"
    /\ ~stopped
    /\ Goto(t, "waiting")
    /\ UNCHANGED <<holder, attempt, requests, pending, client, using, link,
                   timer, disconnectTask, stopped>>

\* `async with self._operation_lock` is entered; the first request begins.
Start(t) ==
    /\ pc[t] = "waiting"
    /\ holder = NoTask
    /\ holder' = t
    /\ requests' \in 1 .. MaxRequests
    /\ attempt' = 0
    /\ pending = "none"
    /\ Send(t)
    /\ UNCHANGED <<disconnectTask, stopped>>

\* The getter finds no BLEDevice, or establish_connection raises.
EstablishFails(t) ==
    /\ pc[t] = "establish"
    /\ AttemptFails(t)

EstablishOk(t) ==
    /\ pc[t] = "establish"
    /\ \E l \in Links :
          /\ link[l] = "free"
          /\ link' = [link EXCEPT ![l] = "up"]
          /\ client' = l
          /\ using' = l
    /\ Goto(t, "subscribe")
    /\ UNCHANGED <<holder, attempt, requests, pending, timer, disconnectTask, stopped>>

\* Both start_notify calls return.  If disconnect() has run in the meantime,
\* _client is None: `self._client.start_notify` or `assert self._client is not
\* None` raises, and `_request` does not catch that.
SubscribeOk(t) ==
    /\ pc[t] = "subscribe"
    /\ \/ /\ client # NoLink
          /\ link[using] # "free"
          /\ Goto(t, "write")
          /\ UNCHANGED pending
       \/ /\ client = NoLink
          /\ Goto(t, "crash")
          /\ pending' = "none"
    /\ UNCHANGED <<holder, attempt, requests, client, using, link, timer,
                   disconnectTask, stopped>>

\* start_notify raises: `await self.disconnect()`, which awaits only when there
\* is a connected client left, then NukiConnectionError.
SubscribeFails(t) ==
    /\ pc[t] = "subscribe"
    /\ Disconnect
    /\ using' = client
    /\ Goto(t, "unsubscribe")
    /\ UNCHANGED <<holder, attempt, requests, pending, disconnectTask, stopped>>

UnsubscribeDone(t) ==
    /\ pc[t] = "unsubscribe"
    /\ using # NoLink => link[using] # "closing"
    /\ AttemptFails(t)

WriteOk(t) ==
    /\ pc[t] = "write"
    /\ link[using] # "free"
    /\ Goto(t, "await")
    /\ UNCHANGED <<holder, attempt, requests, pending, client, using, link,
                   timer, disconnectTask, stopped>>

\* write_gatt_char raises, perhaps although the device got the message.
WriteFails(t) ==
    /\ pc[t] = "write"
    /\ AttemptFails(t)

\* The link dropped while waiting, or nothing came in time.  The watchdog may
\* cancel the wait in the iteration that also brings the response, so it can
\* win whatever the future holds.
AwaitFails(t) ==
    /\ pc[t] = "await"
    /\ AttemptFails(t)

\* An error report, an undecodable notification or a response that does not
\* parse: not retried, except that a lock action whose nonce is refused starts
\* over with its next request.
AwaitRaises(t) ==
    /\ pc[t] = "await"
    /\ pending \in {"raised", "answered"}
    /\ Finish(t) \/ (pending = "raised" /\ NextRequest(t))

\* The response is there: the operation returns, sends its next request, or
\* waits for the completion of the lock action it was.
AwaitOk(t) ==
    /\ pc[t] = "await"
    /\ pending = "answered"
    /\ \/ Finish(t)
       \/ NextRequest(t)
       \/ /\ Goto(t, "completion")
          /\ pending' = "none"
          /\ UNCHANGED <<holder, attempt, requests, client, using, link, timer,
                         disconnectTask, stopped>>

\* _wait_for_completion returns or raises.
CompletionEnds(t) ==
    /\ pc[t] = "completion"
    /\ Finish(t) \/ NextRequest(t)

\* disconnect() returns, having suppressed an error; sleep(RETRY_DELAY).
ClosingDone(t) ==
    /\ pc[t] = "closing"
    /\ link[using] # "closing"
    /\ Goto(t, "sleep")
    /\ using' = NoLink
    /\ UNCHANGED <<holder, attempt, requests, pending, client, link, timer,
                   disconnectTask, stopped>>

\* A mutant of Retry: the attempts start over.
RetryFromScratch(t) ==
    /\ pc[t] = "sleep"
    /\ pending = "none"
    /\ Send(t)
    /\ attempt' = 0
    /\ UNCHANGED <<holder, requests, disconnectTask, stopped>>

Retry(t) ==
    /\ pc[t] = "sleep"
    /\ pending = "none"
    /\ Send(t)
    /\ UNCHANGED <<holder, attempt, requests, disconnectTask, stopped>>

CrashEnds(t) ==
    /\ pc[t] = "crash"
    /\ Finish(t)

\* The task is cancelled at its await: every `finally` runs.  A cancelled
\* client.disconnect() may still take effect, so its link stays "closing".
Cancel(t) ==
    \/ /\ pc[t] = "waiting"
       /\ Goto(t, "idle")
       /\ UNCHANGED <<holder, attempt, requests, pending, client, using, link,
                      timer, disconnectTask, stopped>>
    \/ /\ pc[t] \in Holding \ {"crash"}
       /\ Finish(t)

\* The holder resumes from an await.  Each of these needs an I/O event or a
\* timer of a later loop iteration, and by then a disconnect task that was
\* created has run its first step.
Resume(t) ==
    /\ ~disconnectTask
    /\ \/ EstablishOk(t) \/ EstablishFails(t)
       \/ SubscribeOk(t) \/ SubscribeFails(t) \/ UnsubscribeDone(t)
       \/ WriteOk(t) \/ WriteFails(t)
       \/ AwaitOk(t) \/ AwaitFails(t) \/ AwaitRaises(t)
       \/ CompletionEnds(t)
       \/ ClosingDone(t) \/ Retry(t)
       \/ CrashEnds(t)

-----------------------------------------------------------------------------
(* The event loop and bleak.                                               *)

\* _on_notification resolves the pending future, whatever its task awaits: the response, the
\* write, or still the connection, with a message of an earlier request.
Notification ==
    /\ pending = "waiting"
    /\ \E l \in Links : link[l] # "free"
    /\ pending' \in {"answered", "raised"}
    /\ UNCHANGED <<pc, holder, attempt, requests, client, using, link, timer,
                   disconnectTask, stopped>>

\* A mutant of IdleDisconnect: the task is not kept and never runs.
IdleDisconnectForgotten ==
    /\ timer
    /\ holder = NoTask /\ pending # "waiting"
    /\ timer' = FALSE
    /\ UNCHANGED <<pc, holder, attempt, requests, pending, client, using, link,
                   disconnectTask, stopped>>

\* _idle_disconnect.  A timer armed when the lock was released does not expire
\* in the iteration that hands the lock to a waiter.  The early return for a
\* busy client is not here: TimerOnlyWhenIdle shows that it is never taken.
IdleDisconnect ==
    /\ timer
    /\ ~ \E t \in Tasks : holder = NoTask /\ pc[t] = "waiting"
    /\ holder = NoTask /\ pending # "waiting"
    /\ timer' = FALSE
    /\ disconnectTask' = TRUE
    /\ UNCHANGED <<pc, holder, attempt, requests, pending, client, using, link, stopped>>

\* The first step of the task _idle_disconnect created.
DisconnectTaskRuns ==
    /\ disconnectTask
    /\ disconnectTask' = FALSE
    /\ Disconnect
    /\ UNCHANGED <<pc, holder, attempt, requests, pending, using, stopped>>

\* async_unload_entry, or the listener for EVENT_HOMEASSISTANT_STOP.
Stop ==
    /\ StopAllowed
    /\ ~stopped
    /\ stopped' = TRUE
    /\ Disconnect
    /\ UNCHANGED <<pc, holder, attempt, requests, pending, using, disconnectTask>>

\* A mutant of LinkDrops: the callback also clears _client.
LinkDropsClearsClient(l) ==
    /\ link[l] \in {"up", "stuck"}
    /\ link' = [link EXCEPT ![l] = "free"]
    /\ OnDisconnect
    /\ client' = NoLink
    /\ UNCHANGED <<pc, holder, attempt, requests, using, timer, disconnectTask, stopped>>

\* The radio link is lost, or the device closes it.
LinkDrops(l) ==
    /\ link[l] \in {"up", "stuck"}
    /\ link' = [link EXCEPT ![l] = "free"]
    /\ OnDisconnect
    /\ UNCHANGED <<pc, holder, attempt, requests, client, using, timer,
                   disconnectTask, stopped>>

LinkCloses(l) ==
    /\ link[l] = "closing"
    /\ link' = [link EXCEPT ![l] = "free"]
    /\ OnDisconnect
    /\ UNCHANGED <<pc, holder, attempt, requests, client, using, timer,
                   disconnectTask, stopped>>

\* client.disconnect() raises BleakError or TimeoutError, which is suppressed.
CloseFails(l) ==
    /\ link[l] = "closing"
    /\ link' = [link EXCEPT ![l] = "stuck"]
    /\ UNCHANGED <<pc, holder, attempt, requests, pending, client, using, timer,
                   disconnectTask, stopped>>

-----------------------------------------------------------------------------
Next ==
    \/ \E t \in Tasks : Call(t) \/ Start(t) \/ Resume(t) \/ Cancel(t)
    \/ Notification
    \/ IdleDisconnect
    \/ DisconnectTaskRuns
    \/ Stop
    \/ \E l \in Links : LinkDrops(l) \/ LinkCloses(l) \/ CloseFails(l)

\* asyncio runs what is ready; every await of bleak and every sleep ends, with
\* an error if need be; asyncio.Lock is first come, first served, so a task
\* that waits for it gets it (strong fairness, as the lock comes and goes).
Fairness ==
    /\ \A t \in Tasks : SF_vars(Start(t)) /\ WF_vars(Resume(t))
    /\ WF_vars(IdleDisconnect)
    /\ WF_vars(DisconnectTaskRuns)
    /\ \A l \in Links : WF_vars(LinkCloses(l) \/ CloseFails(l))

Spec == Init /\ [][Next]_vars

FairSpec == Spec /\ Fairness

-----------------------------------------------------------------------------
(* Properties.                                                             *)

TypeOK ==
    /\ pc \in [Tasks -> PCs]
    /\ holder \in Tasks \cup {NoTask}
    /\ attempt \in 0 .. RequestAttempts - 1
    /\ requests \in 0 .. MaxRequests
    /\ pending \in {"none", "waiting", "answered", "raised", "failed"}
    /\ client \in Links \cup {NoLink}
    /\ using \in Links \cup {NoLink}
    /\ link \in [Links -> LinkStates]
    /\ timer \in BOOLEAN
    /\ disconnectTask \in BOOLEAN
    /\ stopped \in BOOLEAN

\* A connected link is the one _client refers to, and when no operation is
\* running the idle timer, or the task it created, is there to close it: no
\* error path, retry, cancellation or unload leaves a link open for good and
\* the Opener unreachable for the Nuki app (client.py:420-421, 467-468 and the
\* other `finally: self._schedule_disconnect()`).
NoLeakedLink ==
    \A l \in Links : link[l] = "up" =>
        /\ client = l
        /\ holder = NoTask => timer \/ disconnectTask

\* _pending belongs to the operation that holds the lock, for as long as its
\* request runs: "another command is already in flight" (client.py:356) is
\* never raised, whatever fails or is cancelled in between.
OneCommandInFlight ==
    pending # "none" <=> holder # NoTask /\ pc[holder] \in Requesting

\* The idle timer is never armed while an operation runs, so the check
\* _idle_disconnect makes (client.py:227-230) never has to return early.
TimerOnlyWhenIdle == timer => holder = NoTask

\* Before unload, connect() never finds that its client was taken away while it
\* subscribed, although the idle disconnect task may run next to an operation:
\* no AttributeError (client.py:190, 192) and no failed assertion (306).
ClientPresent == ~stopped => \A t \in Tasks : pc[t] # "crash"

\* Every call of an operation returns or raises (client.py:312-371: the
\* retries are bounded, and so is every wait).
OperationEnds == \A t \in Tasks : pc[t] # "idle" ~> pc[t] = "idle"

\* A link that is up while nothing uses it is closed, unless an operation uses
\* it again (client.py:217-231): the Opener does not advertise while connected.
IdleLinkCloses ==
    \A l \in Links : (link[l] = "up" /\ holder = NoTask)
                        ~> (link[l] # "up" \/ holder # NoTask)

\* After unload or stop, in-flight operations may still reconnect, but in the
\* end no link is up.
EventuallyDisconnected ==
    stopped ~> [](\A l \in Links : link[l] # "up")

=============================================================================
