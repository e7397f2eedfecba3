------------------------------- MODULE Polling -------------------------------
(***************************************************************************)
(* When the Opener's state is read: NukiOpenerCoordinator (coordinator.py) *)
(* hears its beacons and polls when one signals a change or the last poll  *)
(* is old; an entity's action reads it again at once (entity.py); and      *)
(* NukiOpenerDevice.update (nuki/device.py) serializes both.               *)
(*                                                                         *)
(* The Opener advertises only while nobody is connected, and its beacon is *)
(* flagged until it has answered a request for its state.  The Debouncer   *)
(* and the bluetooth coordinator are Home Assistant's.  What update() does *)
(* with the state is RingDetection and OpenerSettings.                     *)
(***************************************************************************)
EXTENDS Naturals, FiniteSets

CONSTANTS
    MaxVersion,  \* bound: changes of the Opener's state
    MaxActions   \* bound: actions of entities

ASSUME BoundsAssumption == {MaxVersion, MaxActions} \subseteq Nat

Tasks == {"poll", "action"}
NoTask == "none"

VARIABLES
    \* the Opener
    version,   \* its state: how often it has changed
    flag,      \* the beacon is odd
    link,
    \* NukiOpenerDevice
    state,     \* state, as last read or pushed
    pending,   \* _poll_pending
    signal,    \* _adv_signaled_change
    battery,   \* "none", "fresh", or "old": read longer ago than its interval
    lock,      \* _update_lock
    \* the coordinator
    running,   \* hass.state is running
    polled,    \* a poll has ended, so that its age is known
    due,       \* that age is over the fallback interval
    timer,     \* the Debouncer's cooldown
    atEnd,     \* and its _execute_at_end_of_timer
    shown,     \* the state the entities have rendered
    \* tasks
    pc,
    captured,  \* local of update(): adv_signaled_change
    answer,    \* the state the Opener has answered
    actions,   \* actions left
    outcome,   \* the state an action left the Opener in
    \* history
    heard,     \* a flagged beacon was heard since a state was read
    stale,     \* an update() took for its own a signal an earlier one has used
    promised   \* the state entities must show: of the last action that was read back

opener == <<version, flag, link>>
device == <<state, pending, signal, battery, lock>>
coordinator == <<running, polled, due, timer, atEnd, shown>>
tasks == <<pc, captured, answer, actions, outcome>>
history == <<heard, stale, promised>>
vars == <<opener, device, coordinator, tasks, history>>

Goto(t, place) == pc' = [pc EXCEPT ![t] = place]
Idle(t) == pc[t] = "idle"

-----------------------------------------------------------------------------
(* Beacons and polls.                                                      *)

\* A poll only for a flagged beacon.
NeedsPollOnlyFlagged(connectable, wanted) == running /\ connectable /\ wanted

\* poll_needed, and the coordinator's own reasons.
NeedsPoll(connectable, wanted) == running /\ connectable /\ (due \/ wanted)

\* Debouncer: one call at a time, and one more at the end of the cooldown.
SchedulePoll ==
    IF timer THEN atEnd' = TRUE /\ UNCHANGED pc
    ELSE /\ IF Idle("poll") THEN Goto("poll", "update") ELSE UNCHANGED pc
         /\ UNCHANGED atEnd

\* handle_advertisement, of a device that has read a state.
HandleAdvertisement ==
    /\ pending' = (pending \/ flag)
    /\ signal' = IF flag THEN TRUE ELSE signal
    /\ heard' = (heard \/ flag)

\* A beacon is heard: the device takes it, the entities render, and perhaps there is a poll.
Beacon(connectable) ==
    /\ ~link
    /\ HandleAdvertisement
    /\ shown' = state
    /\ IF NeedsPoll(connectable, pending') THEN SchedulePoll ELSE UNCHANGED <<pc, atEnd>>
    /\ UNCHANGED <<opener, state, battery, lock, running, polled, due, timer, captured, answer,
                   actions, outcome, stale, promised>>

CooldownEnds ==
    /\ timer /\ timer' = FALSE /\ atEnd' = FALSE
    /\ IF atEnd /\ Idle("poll") THEN Goto("poll", "update") ELSE UNCHANGED pc
    /\ UNCHANGED <<opener, device, running, polled, due, shown, captured, answer, actions, outcome,
                   history>>

FallbackElapses ==
    /\ polled /\ ~due /\ due' = TRUE
    /\ UNCHANGED <<opener, device, running, polled, timer, atEnd, shown, tasks, history>>

HassStarts ==
    /\ ~running /\ running' = TRUE
    /\ UNCHANGED <<opener, device, polled, due, timer, atEnd, shown, tasks, history>>

-----------------------------------------------------------------------------
(* update().                                                               *)

\* update() that does not wait for its turn.
EnterUpdateUnlocked(t) ==
    /\ pc[t] = "update"
    /\ lock' = t /\ captured' = [captured EXCEPT ![t] = signal]
    /\ Goto(t, "get")
    /\ UNCHANGED <<opener, state, pending, signal, battery, coordinator, answer, actions, outcome,
                   history>>

\* update() that takes the poll for done before it has read the state.
EnterUpdateClearing(t) ==
    /\ pc[t] = "update" /\ lock = NoTask
    /\ lock' = t /\ captured' = [captured EXCEPT ![t] = signal]
    /\ pending' = FALSE /\ Goto(t, "get")
    /\ UNCHANGED <<opener, state, signal, battery, coordinator, answer, actions, outcome, history>>

EnterUpdate(t) ==
    /\ pc[t] = "update" /\ lock = NoTask
    /\ lock' = t /\ captured' = [captured EXCEPT ![t] = signal]
    /\ Goto(t, "get")
    /\ UNCHANGED <<opener, state, pending, signal, battery, coordinator, answer, actions, outcome,
                   history>>

\* get_state: the client is connected, and the Opener answers.
OpenerAnswers(t) ==
    /\ pc[t] = "get" /\ Goto(t, "answered")
    /\ link' = TRUE /\ flag' = FALSE
    /\ answer' = [answer EXCEPT ![t] = version]
    /\ UNCHANGED <<version, device, coordinator, captured, actions, outcome, history>>

\* The poll is done, but its signal is kept.
ClearPendingOnly == pending' = FALSE /\ UNCHANGED signal

ClearFlags == pending' = FALSE /\ signal' = FALSE

\* What a task does when its update() has ended, by exception or not.
EndUpdate(t, ok) ==
    /\ lock' = NoTask /\ Goto(t, "idle")
    /\ IF t = "poll"
       THEN /\ polled' = TRUE /\ due' = FALSE /\ timer' = TRUE
            /\ shown' = IF ok THEN state' ELSE shown
            /\ UNCHANGED <<promised, outcome>>
       ELSE /\ shown' = state'
            /\ promised' = IF ok THEN outcome ELSE promised
            /\ UNCHANGED <<polled, due, timer, outcome>>

GetFails(t) ==
    /\ pc[t] \in {"get", "answered"}
    /\ link' \in {FALSE, link}
    /\ UNCHANGED <<state, pending, signal>>
    /\ EndUpdate(t, FALSE)
    /\ UNCHANGED <<version, flag, battery, running, atEnd, captured, answer, actions, heard, stale>>

\* A state that is read: the flags are cleared, and the transition looks at the captured one.
Resume(t) ==
    /\ pc[t] = "answered" /\ Goto(t, "read")
    /\ state' = answer[t]
    /\ ClearFlags
    /\ stale' = (stale \/ (captured[t] /\ ~heard))
    /\ heard' = FALSE
    /\ UNCHANGED <<opener, battery, lock, coordinator, captured, answer, actions, outcome, promised>>

\* _should_refresh_battery; a failure to read it is caught.
ReadBattery(t) ==
    /\ pc[t] = "read"
    /\ battery' \in IF battery = "fresh" THEN {battery} ELSE {battery, "fresh"}
    /\ UNCHANGED state
    /\ EndUpdate(t, TRUE)
    /\ UNCHANGED <<opener, pending, signal, running, atEnd, captured, answer, actions, heard, stale>>

\* The configuration cannot be read: update() raises with the state stored.
ReadConfigFails(t) ==
    /\ pc[t] = "read"
    /\ UNCHANGED state
    /\ EndUpdate(t, FALSE)
    /\ UNCHANGED <<opener, pending, signal, battery, running, atEnd, captured, answer, actions,
                   heard, stale>>

BatteryAges ==
    /\ battery = "fresh" /\ battery' = "old"
    /\ UNCHANGED <<opener, state, pending, signal, lock, coordinator, tasks, history>>

-----------------------------------------------------------------------------
(* Actions of entities.                                                    *)

Act ==
    /\ Idle("action") /\ actions > 0
    /\ actions' = actions - 1 /\ Goto("action", "acting")
    /\ UNCHANGED <<opener, device, coordinator, captured, answer, outcome, history>>

\* A refresh that takes an update() which is running for its own.
ActionDoneUnlessPolling ==
    /\ pc["action"] = "acting" /\ version < MaxVersion
    /\ version' = version + 1 /\ flag' = TRUE /\ link' = TRUE
    /\ outcome' = version + 1
    /\ IF lock = NoTask THEN Goto("action", "update") /\ UNCHANGED <<shown, promised>>
       ELSE Goto("action", "idle") /\ shown' = state /\ promised' = version + 1
    /\ UNCHANGED <<device, running, polled, due, timer, atEnd, captured, answer, actions,
                   heard, stale>>

\* execute_lock_action succeeds, and async_refresh_after_action begins.
ActionDone ==
    /\ pc["action"] = "acting" /\ version < MaxVersion
    /\ version' = version + 1 /\ flag' = TRUE /\ link' = TRUE
    /\ outcome' = version + 1
    /\ Goto("action", "update")
    /\ UNCHANGED <<device, coordinator, captured, answer, actions, history>>

ActionFails ==
    /\ pc["action"] = "acting" /\ Goto("action", "idle")
    /\ shown' = state
    /\ UNCHANGED <<opener, device, running, polled, due, timer, atEnd, captured, answer, actions,
                   outcome, history>>

-----------------------------------------------------------------------------
(* The Opener.                                                             *)

OpenerChanges ==
    /\ version < MaxVersion /\ version' = version + 1 /\ flag' = TRUE
    /\ UNCHANGED <<link, device, coordinator, tasks, history>>

\* It may push its state to a client that is connected; _on_unsolicited_state.
Push ==
    /\ link /\ state' = version /\ shown' = version
    /\ UNCHANGED <<opener, pending, signal, battery, lock, running, polled, due, timer, atEnd,
                   tasks, history>>

\* The client closes a link nothing uses.
IdleDisconnect ==
    /\ link /\ lock = NoTask /\ pc["action"] # "acting"
    /\ link' = FALSE
    /\ UNCHANGED <<version, flag, device, coordinator, tasks, history>>

\* Set up: the first update() has read a state.
Init ==
    /\ version = 0 /\ flag \in BOOLEAN /\ link = TRUE
    /\ state = 0 /\ pending = FALSE /\ signal = FALSE /\ battery \in {"none", "fresh"}
    /\ lock = NoTask /\ running \in BOOLEAN /\ polled = FALSE /\ due = FALSE
    /\ timer = FALSE /\ atEnd = FALSE /\ shown = 0
    /\ pc = [t \in Tasks |-> "idle"] /\ captured = [t \in Tasks |-> FALSE]
    /\ answer = [t \in Tasks |-> 0] /\ actions = MaxActions /\ outcome = 0
    /\ heard = FALSE /\ stale = FALSE /\ promised = 0

Step(t) == EnterUpdate(t) \/ ReadBattery(t)

Next ==
    \/ \E c \in BOOLEAN : Beacon(c)
    \/ CooldownEnds \/ FallbackElapses \/ HassStarts
    \/ \E t \in Tasks : Step(t) \/ OpenerAnswers(t) \/ Resume(t) \/ GetFails(t) \/ ReadConfigFails(t)
    \/ Act \/ ActionDone \/ ActionFails
    \/ OpenerChanges \/ Push \/ IdleDisconnect \/ BatteryAges

Spec == Init /\ [][Next]_vars

\* Tasks run, timers fire, an idle link is closed, beacons are heard whenever the Opener may
\* send them for long enough, and a radio that is tried again and again works in the end.
FairSpec ==
    /\ Spec
    /\ WF_vars(CooldownEnds) /\ WF_vars(FallbackElapses) /\ WF_vars(HassStarts)
    /\ WF_vars(IdleDisconnect) /\ SF_vars(Beacon(TRUE))
    /\ WF_vars(ActionDone \/ ActionFails)
    /\ \A t \in Tasks :
         /\ WF_vars(EnterUpdate(t)) /\ WF_vars(ReadBattery(t) \/ ReadConfigFails(t))
         /\ SF_vars(OpenerAnswers(t)) /\ SF_vars(Resume(t))

-----------------------------------------------------------------------------
(* Properties.                                                             *)

TypeOK ==
    /\ {version, state, shown, outcome, promised} \subseteq 0 .. MaxVersion
    /\ {flag, link, pending, signal, running, polled, due, timer, atEnd, heard, stale} \subseteq BOOLEAN
    /\ lock \in Tasks \cup {NoTask} /\ actions \in 0 .. MaxActions
    /\ \A t \in Tasks :
         /\ pc[t] \in {"idle", "acting", "update", "get", "answered", "read"}
         /\ (pc[t] \in {"get", "answered", "read"}) = (lock = t)

\* A flagged beacon is acted upon: until a state has been read, every further beacon, flagged or
\* not, asks for the poll, whatever polls have failed since (device.py:102-113, 126-129).
FlaggedBeaconIsKept == heard => pending

\* A signal is evidence of one update() only: the transition never looks at a flag that was set
\* before the state it compares with was read, although two updates may wait for the lock with
\* the flag set (device.py:123-131).
SignalIsCurrent == ~stale

\* After an action whose refresh has worked the entities show a state at least as new as what the
\* action left, also when a poll that began before the action ends last (coordinator.py:72-85,
\* device.py:117-129).
ActionShown == shown >= promised

\* Once a poll has been made, every change is read in the end, by a flagged beacon, a poll that
\* is tried again, or the fallback (coordinator.py:87-110).
ChangeIsFetched == \A v \in 1 .. MaxVersion : (polled /\ version >= v) ~> (state >= v)
=============================================================================
