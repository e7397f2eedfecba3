---------------------------- MODULE EntryLifecycle ----------------------------
(***************************************************************************)
(* The config entry once the flow has made it: its setup, unloading and    *)
(* removal (__init__.py), the options flow (config_flow.py), and the       *)
(* doorbell entities, one of which owns a preference (switch.py) that the  *)
(* other obeys (event.py).                                                 *)
(*                                                                         *)
(* Each setup makes a client of its own, and the operations of an earlier  *)
(* client may still run: a request in flight at the disconnect of an       *)
(* unload is retried, and connects again.  An operation is one request     *)
(* here; NukiClient and LockAction have the rest of it.                    *)
(***************************************************************************)
EXTENDS Pairing, FiniteSets

CONSTANTS
    Clients,      \* clients that live at once
    Pins,         \* the security PINs a user may type
    Pin,          \* the Opener's
    MaxOptions,   \* bound: options flows
    MaxChoices    \* bound: uses of the doorbell-notifications switch

ASSUME ClientsAssumption ==
    IsFiniteSet(Clients) /\ None \notin Clients /\ Clients \cap {"app", "orphan", "pairing"} = {}
ASSUME PinAssumption == Pin \in Pins /\ None \notin Pins
ASSUME LifecycleBoundsAssumption == {MaxOptions, MaxChoices} \subseteq Nat

VARIABLES
    state,       \* ConfigEntry.state: "none", "not_loaded", "setup", "retry", "loaded", "unload",
                 \* "removed"
    known,       \* the Opener knows the credentials of the entry
    stage,       \* where setup or unload is: "update", "platforms", "disconnect", "on_unload"
    client,      \* the client of the last setup, None once it is unloaded
    op,          \* per client: the attempt of the operation that runs, 0 if none does
    timer,       \* clients whose idle-disconnect timer is armed
    started,     \* the coordinator listens and polls
    listening,   \* the options listener is registered
    reloads,     \* reloads under way or waiting
    leaving,     \* the entry is being removed
    options,     \* the stored PIN, or None
    in_effect,   \* security_pin of the device, None once the Opener has refused it
    checking,    \* options flow: the PIN whose check runs, and its client, or None
    unnoticed,   \* options changed in a setup that had read them
    added,       \* doorbell entities that are there: "event", "switch"
    doorbell_notifications_enabled,
    last_state,  \* what RestoreEntity has of the switch: None, "on", "off", "unavailable"
    choice,      \* the user's last choice
    used         \* options flows and choices so far

clientVars == <<client, op, timer>>
entryVars == <<state, stage, started, listening, reloads, leaving>>
optionVars == <<options, in_effect, checking, unnoticed>>
doorbellVars == <<added, doorbell_notifications_enabled, last_state, choice>>
vars == <<pairingVars, clientVars, entryVars, optionVars, doorbellVars, known, used>>
\* What the flow leaves is of no use to its entry.
paired == <<air, opener, flowVars, known>>

Running == {c \in Clients : op[c] > 0}

-----------------------------------------------------------------------------
(* Operations of a client, with their retries.                             *)

Start(c) == op' = [op EXCEPT ![c] = 1]

\* establish_connection; connect() cancels the timer.
Connect(c) ==
    /\ c \in Running /\ CanConnect
    /\ holder' = c /\ timer' = timer \ {c}
    /\ UNCHANGED <<present, budget, paired, client, op, entryVars, optionVars,
                   doorbellVars, used>>

\* The attempt fails, with the link lost, an answer late, or no link to be had: another one, or
\* the end of the operation, whose _schedule_disconnect arms no timer without a link.
AttemptFailed(c) ==
    /\ c \in Running /\ op[c] < Attempts
    /\ op' = [op EXCEPT ![c] = @ + 1] /\ Disconnect(c) /\ timer' = timer \ {c}
    /\ UNCHANGED <<present, paired, client, entryVars, optionVars, doorbellVars, used>>

\* An end that arms no timer.
EndedUntimed(c) == op' = [op EXCEPT ![c] = 0] /\ timer' = timer \ {c}

\* Ends that leave the link, with the timer armed; and the options flow that waited for this one.
Ended(c) ==
    /\ op' = [op EXCEPT ![c] = 0]
    /\ timer' = IF holder = c THEN timer \cup {c} ELSE timer \ {c}

Idle(c) == timer' = timer \ {c} /\ Disconnect(c)

\* _idle_disconnect.
TimerFires(c) ==
    /\ c \in timer /\ c \notin Running
    /\ Idle(c)
    /\ UNCHANGED <<present, paired, client, op, entryVars, optionVars, doorbellVars, used>>

\* An operation of an entry that is there: a poll, an action of an entity.
Operate ==
    /\ started /\ present /\ client \notin Running
    /\ Start(client) /\ timer' = timer \ {client}
    /\ UNCHANGED <<radio, paired, client, entryVars, optionVars, doorbellVars, used>>

\* Whether the operation that ends is the update of async_setup_entry or the check of a PIN.
OfSetup(c) == state = "setup" /\ stage = "update" /\ c = client
OfCheck(c) == checking # None /\ checking.client = c

\* _detect_ring_from_log of an update(): a PIN the Opener refuses is forgotten.  (A wrong one is
\* kept while the log is not read, or cannot be for another reason.)
PinRefused == in_effect # Pin /\ in_effect' = None

\* An answered operation; the Opener answers those whose key it knows.  It may be the poll of the
\* entry's device, or an operation of a device of before.
OperationDone(c) ==
    /\ c \in Running /\ ~OfSetup(c) /\ ~OfCheck(c) /\ holder = c
    /\ Ended(c)
    /\ UNCHANGED in_effect \/ (c = client /\ PinRefused)
    /\ UNCHANGED <<radio, paired, client, entryVars, options, checking, unnoticed, doorbellVars,
                   used>>

OperationFails(c) ==
    /\ c \in Running /\ ~OfSetup(c) /\ ~OfCheck(c) /\ op[c] = Attempts
    /\ Ended(c)
    /\ UNCHANGED <<radio, paired, client, entryVars, optionVars, doorbellVars, used>>

-----------------------------------------------------------------------------
(* Setup.                                                                  *)

\* A waiting reload of an entry that is not loaded is just a setup.
ReloadRuns == reloads' = IF state = "retry" /\ reloads > 0 THEN reloads - 1 ELSE reloads

\* async_setup_entry of an Opener that is not there.
SetupAbsent ==
    /\ state \in {"not_loaded", "retry"} /\ ~leaving /\ ~present
    /\ state' = "retry" /\ ReloadRuns
    /\ UNCHANGED <<radio, paired, clientVars, stage, started, listening, leaving, optionVars,
                   doorbellVars, used>>

\* Up to the first update(): a client and a device, with the options of now.
Setup(c) ==
    /\ state \in {"not_loaded", "retry"} /\ ~leaving /\ present
    /\ c \notin Running \cup timer \cup {holder}
    /\ c = CHOOSE free \in Clients : free \notin Running \cup timer \cup {holder}
    /\ IF holder \in Clients \cup {"orphan"} THEN CloseStale ELSE UNCHANGED holder
    /\ state' = "setup" /\ stage' = "update" /\ ReloadRuns
    /\ client' = c /\ Start(c)
    /\ in_effect' = options /\ unnoticed' = FALSE
    /\ doorbell_notifications_enabled' = TRUE
    /\ UNCHANGED <<present, budget, paired, timer, started, listening, leaving, options, checking,
                   added, last_state, choice, used>>

\* The first update() has worked, whatever the Opener said to the PIN; the coordinator starts.
SetupUpdated ==
    /\ OfSetup(client) /\ holder = client /\ known
    /\ Ended(client)
    /\ stage' = "platforms" /\ started' = TRUE
    /\ UNCHANGED in_effect \/ PinRefused
    /\ UNCHANGED <<radio, paired, client, state, listening, reloads, leaving, options, checking,
                   unnoticed, doorbellVars, used>>

\* A failed setup that leaves its link to the idle timer.
SetupFailsUnclosed ==
    /\ OfSetup(client) /\ (op[client] = Attempts \/ holder = client)
    /\ state' = "retry"
    /\ Ended(client)
    /\ UNCHANGED <<radio, paired, client, stage, started, listening, reloads, leaving, optionVars,
                   doorbellVars, used>>

\* It has failed for good, or the Opener answered an error, or it is cancelled: client.disconnect().
SetupFails ==
    /\ OfSetup(client) /\ (op[client] = Attempts \/ holder = client)
    /\ state' = "retry"
    /\ op' = [op EXCEPT ![client] = 0] /\ Idle(client)
    /\ UNCHANGED <<present, paired, client, stage, started, listening, reloads, leaving, optionVars,
                   doorbellVars, used>>

AddEvent ==
    /\ state = "setup" /\ stage = "platforms" /\ "event" \notin added
    /\ added' = added \cup {"event"}
    /\ UNCHANGED <<radio, paired, clientVars, entryVars, optionVars, doorbell_notifications_enabled,
                   last_state, choice, used>>

\* A switch that is shown without its state of before.
AddSwitchUnrestored ==
    /\ state = "setup" /\ stage = "platforms" /\ "switch" \notin added
    /\ added' = added \cup {"switch"}
    /\ UNCHANGED <<radio, paired, clientVars, entryVars, optionVars, doorbell_notifications_enabled,
                   last_state, choice, used>>

\* async_added_to_hass of the switch: its last state, or the default.
AddSwitch ==
    /\ state = "setup" /\ stage = "platforms" /\ "switch" \notin added
    /\ added' = added \cup {"switch"}
    /\ doorbell_notifications_enabled' =
         IF last_state = None THEN doorbell_notifications_enabled ELSE last_state = "on"
    /\ UNCHANGED <<radio, paired, clientVars, entryVars, optionVars, last_state, choice, used>>

\* A setup that does not register the options listener again.
SetupDoneUnheard ==
    /\ state = "setup" /\ stage = "platforms" /\ added = {"event", "switch"}
    /\ state' = "loaded"
    /\ UNCHANGED <<radio, paired, clientVars, stage, started, listening, reloads, leaving,
                   optionVars, doorbellVars, used>>

\* The options listener is registered last.
SetupDone ==
    /\ state = "setup" /\ stage = "platforms" /\ added = {"event", "switch"}
    /\ state' = "loaded" /\ listening' = TRUE
    /\ UNCHANGED <<radio, paired, clientVars, stage, started, reloads, leaving, optionVars,
                   doorbellVars, used>>

-----------------------------------------------------------------------------
(* Unloading: for a reload, or because the entry is removed.   *)

\* What is written of the switch, and kept when it is removed.
Written ==
    CASE "switch" \notin added -> last_state
      [] ~present -> "unavailable"
      [] OTHER -> IF doorbell_notifications_enabled THEN "on" ELSE "off"

\* async_unload_platforms.
UnloadPlatforms ==
    /\ state = "loaded" /\ state' = "unload" /\ stage' = "disconnect"
    /\ added' = {} /\ last_state' = Written
    /\ UNCHANGED <<radio, paired, clientVars, started, listening, optionVars,
                   doorbell_notifications_enabled, choice, used>>

Reload == reloads > 0 /\ reloads' = reloads - 1 /\ UnloadPlatforms /\ UNCHANGED leaving
Leave == leaving' = TRUE /\ UnloadPlatforms /\ UNCHANGED reloads

\* client.disconnect(); an operation that runs fails its attempt and goes on with the next.
UnloadDisconnect ==
    /\ state = "unload" /\ stage = "disconnect"
    /\ stage' = "on_unload" /\ Idle(client)
    /\ UNCHANGED <<present, paired, client, op, state, started, listening, reloads,
                   leaving, optionVars, doorbellVars, used>>

\* The client, the device and the coordinator are the entry's no more.
Forget ==
    /\ client' = None /\ stage' = "update" /\ in_effect' = None /\ unnoticed' = FALSE
    /\ doorbell_notifications_enabled' = TRUE

\* What entry.async_on_unload collected.
Unloaded ==
    /\ state = "unload" /\ stage = "on_unload"
    /\ state' = "not_loaded" /\ started' = FALSE /\ listening' = FALSE
    /\ Forget
    /\ UNCHANGED <<radio, paired, op, timer, reloads, leaving, options, checking, added, last_state,
                   choice, used>>

\* async_remove_entry: the sweep connects, if it can, and takes the link back with it.
Remove ==
    /\ state \in {"not_loaded", "retry"} /\ state' = "removed" /\ leaving' = TRUE
    /\ \/ present /\ holder \in {None, "orphan"} /\ holder' = None
       \/ UNCHANGED holder
    /\ UNCHANGED <<present, budget, paired, clientVars, stage, started, listening, reloads,
                   optionVars, doorbellVars, used>>

\* A stop and a start of Home Assistant, when it is idle: its links end with it.
Restart ==
    /\ state = "loaded"
    /\ state' = "not_loaded" /\ last_state' = Written /\ added' = {} /\ Forget
    /\ holder' = IF holder \in Clients THEN None ELSE holder
    /\ op' = [c \in Clients |-> 0] /\ timer' = {} /\ checking' = None
    /\ started' = FALSE /\ listening' = FALSE /\ reloads' = 0
    /\ UNCHANGED <<present, budget, paired, leaving, options, choice, used>>

-----------------------------------------------------------------------------
(* The options flow.                                                       *)

\* The new options are stored; a listener that does not know of them, or the reload it starts.
Store(pin) ==
    /\ options' = pin
    /\ reloads' = IF listening /\ pin # options THEN reloads + 1 ELSE reloads
    /\ unnoticed' = (unnoticed \/ (state = "setup" /\ pin # options))
    /\ UNCHANGED <<state, stage, started, listening, leaving, in_effect>>

Submitted(pin) == pin # options /\ used.options < MaxOptions /\ used' = [used EXCEPT !.options = @ + 1]

\* No PIN, or an entry that is not loaded and cannot check it.
SubmitUnchecked(pin) ==
    /\ state \in {"not_loaded", "setup", "retry", "loaded", "unload"} /\ checking = None
    /\ pin = None \/ state # "loaded"
    /\ Submitted(pin) /\ Store(pin) /\ UNCHANGED checking
    /\ UNCHANGED <<radio, paired, clientVars, doorbellVars>>

\* _async_verify_pin, on the client that is the entry's now.
SubmitPin(pin) ==
    /\ state = "loaded" /\ checking = None /\ pin # None /\ client \notin Running
    /\ Submitted(pin) /\ checking' = [pin |-> pin, client |-> client]
    /\ Start(client) /\ timer' = timer \ {client}
    /\ UNCHANGED <<radio, paired, client, entryVars, options, in_effect, unnoticed,
                   doorbellVars>>

Checked ==
    /\ checking # None /\ holder = checking.client
    /\ Ended(checking.client) /\ checking' = None
    /\ IF checking.pin = Pin THEN Store(checking.pin)
       ELSE UNCHANGED <<entryVars, options, in_effect, unnoticed>>
    /\ UNCHANGED <<radio, paired, client, doorbellVars, used>>

CheckFails ==
    /\ checking # None /\ op[checking.client] = Attempts
    /\ Ended(checking.client) /\ checking' = None
    /\ UNCHANGED <<radio, paired, client, entryVars, options, in_effect, unnoticed,
                   doorbellVars, used>>

-----------------------------------------------------------------------------
(* The doorbell entities.                                                  *)

\* async_turn_on, async_turn_off, where they change something.
Turn(on) ==
    /\ on # doorbell_notifications_enabled
    /\ "switch" \in added /\ present /\ used.choices < MaxChoices
    /\ doorbell_notifications_enabled' = on /\ choice' = on
    /\ used' = [used EXCEPT !.choices = @ + 1]
    /\ UNCHANGED <<radio, paired, clientVars, entryVars, optionVars, added, last_state>>

\* _async_handle_ring: what happens to a ring the device finds now.
RingSurfaces == "event" \in added /\ doorbell_notifications_enabled

-----------------------------------------------------------------------------
\* The flow ends with an entry.  Of its pairing only counts now whether the Opener knows it.
EntryExists ==
    /\ flow = "created" /\ state = "none" /\ state' = "not_loaded"
    /\ known' = (credentials \in authorized)
    /\ pairing_mode' = FALSE /\ session' = None /\ challenges' = 0 /\ authorized' = {}
    /\ error' = None /\ key' = 0 /\ credentials' = None /\ at' = "connect" /\ challenge' = 0
    /\ budget' = MaxDrops
    /\ UNCHANGED <<present, holder, air, flow, step, attempt, clientVars, stage, started, listening,
                   reloads, leaving, optionVars, doorbellVars, used>>

\* The radio loses a client's link.
ClientLinkDrops ==
    /\ holder \in Clients /\ budget > 0
    /\ holder' = None /\ budget' = budget - 1
    /\ UNCHANGED <<present, paired, clientVars, entryVars, optionVars, doorbellVars,
                   used>>

Init ==
    /\ PairingInit
    /\ state = "none" /\ known = FALSE /\ stage = "update" /\ client = None
    /\ op = [c \in Clients |-> 0] /\ timer = {}
    /\ started = FALSE /\ listening = FALSE /\ reloads = 0 /\ leaving = FALSE
    /\ options = None /\ in_effect = None /\ checking = None /\ unnoticed = FALSE
    /\ added = {} /\ doorbell_notifications_enabled = TRUE
    /\ last_state = None /\ choice = TRUE
    /\ used = [options |-> 0, choices |-> 0]

\* What Home Assistant does with the entry, and what a client does.
EntryTask ==
    \/ EntryExists \/ AddEvent \/ AddSwitch \/ SetupDone
    \/ Reload \/ UnloadDisconnect \/ Unloaded

ClientTask(c) ==
    \/ TimerFires(c) \/ AttemptFailed(c) \/ OperationDone(c) \/ OperationFails(c)
    \/ c = client /\ (SetupUpdated \/ SetupFails)
    \/ OfCheck(c) /\ (Checked \/ CheckFails)

Retry == SetupAbsent \/ \E c \in Clients : Setup(c)

Next ==
    \/ PairingNext /\ UNCHANGED <<clientVars, entryVars, optionVars, doorbellVars, known, used>>
    \/ EntryTask \/ Retry \/ Operate \/ Leave \/ Remove \/ Restart
    \/ ClientLinkDrops
    \/ \E c \in Clients : ClientTask(c) \/ Connect(c)
    \/ \E pin \in Pins \cup {None} : SubmitUnchecked(pin) \/ SubmitPin(pin)
    \/ \E on \in BOOLEAN : Turn(on)

Spec == Init /\ [][Next]_vars

\* Tasks run, timers expire, setups are retried; a connection that can be made again and again
\* is made in the end, and an Opener that can be asked again and again answers.
FairSpec ==
    /\ Spec
    /\ WF_vars(EntryTask) /\ WF_vars(Retry)
    /\ \A c \in Clients : WF_vars(ClientTask(c))
    /\ SF_vars(SetupUpdated) /\ SF_vars(\E c \in Clients : OfSetup(c) /\ Connect(c))

-----------------------------------------------------------------------------
(* Properties.                                                             *)

\* A link is in the hands of something that will close it: a pairing that runs, or a client with
\* an operation or an armed timer; and a client that setup gave up has none of these
\* (__init__.py:69-77, client.py:615-623).
NoLinkLeft ==
    /\ holder = "pairing" => flow = "pairing" /\ step > 0
    /\ holder \in Clients => holder \in Running \cup timer
    /\ (state = "retry" /\ client # None) => holder # client /\ client \notin Running \cup timer

\* The device has the PIN that is stored, or none if it is one that the Opener refused.
Taken == in_effect = options \/ (in_effect = None /\ options # Pin)

\* The device of a loaded entry works with the stored PIN, and has lost it only if the PIN was
\* wrong, unless a reload is waiting or the options changed in the setup that had already read
\* them: no late poll of an earlier device, and no PIN that was stored unchecked before, disables
\* the log for a PIN that is right (__init__.py:66, 88-94, device.py:281-284).
OptionsInEffect == (state = "loaded" /\ reloads = 0 /\ ~unnoticed) => Taken

\* A ring the user wants silenced does not surface, over reloads and restarts, once the switch
\* is there (switch.py:149-164, event.py:40-48).
RingsSilenced == (RingSurfaces /\ "switch" \in added) => choice

\* "The state is restored across restarts" (switch.py:140).
PreferenceRestored == "switch" \in added => doorbell_notifications_enabled = choice

\* An entry the Opener knows gets loaded when nothing else takes the Opener's link, whatever the
\* clients of earlier setups still do (__init__.py:47-128).
Reachable == present /\ holder \notin {"app", "orphan"}
EntryLoads ==
    <>[](known /\ Reachable /\ ~leaving)
        => []<>(state = "loaded")
=============================================================================
