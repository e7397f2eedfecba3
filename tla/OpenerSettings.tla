--------------------------- MODULE OpenerSettings ---------------------------
(***************************************************************************)
(* What NukiOpenerDevice (nuki/device.py) knows of the Opener's            *)
(* configuration: update() reads it again when the counter of its changes  *)
(* moves, and change_advanced_config changes it for the switches and the   *)
(* number entity, while the Nuki app changes it too.                       *)
(*                                                                         *)
(* update() holds its lock across the client operations it awaits; a       *)
(* change does not take that lock, and holds nothing between its fetch and *)
(* its store.  Rings are RingDetection.                                    *)
(***************************************************************************)
EXTENDS Naturals, FiniteSets

CONSTANTS
    Tasks,        \* polls, refreshes after an action, service calls of entities
    NoTask,
    Bits,         \* flags of the doorbell suppression mask
    Sounds,       \* sound levels
    NoSound,      \* of no configuration
    MaxCount      \* bound: changes of the Opener's configuration

ASSUME TasksAssumption == NoTask \notin Tasks
ASSUME SoundsAssumption == NoSound \notin Sounds
ASSUME MaxCountAssumption == MaxCount \in Nat

VARIABLES
    \* the Opener
    count,      \* config_update_count
    settings,   \* the advanced configuration
    \* NukiOpenerDevice
    state,      \* state.config_update_count, as last read or pushed
    config,     \* config: the count at which it was read
    advanced,   \* advanced_config
    pin,        \* security_pin is not None
    ready,      \* the first update() succeeded: entities and polls exist
    updateLock, \* _update_lock
    \* tasks
    pc,
    previous,   \* local of the running update()
    answer,     \* the count the Opener has answered to the running update()
    change,     \* per task: the change change_advanced_config makes
    current,    \* per task: the configuration it has fetched
    \* history
    disturbed,  \* tasks that fetched a configuration which changed since
    advancedAt, \* the count at which advanced was the Opener's configuration
    outcome,    \* of the latest update(), if no state was pushed since it began
    missed      \* a counter came by push, or a read of the configuration failed,
                \* and the configuration has not been read since

opener == <<count, settings>>
device == <<state, config, advanced, advancedAt, pin, ready>>
update == <<updateLock, previous, answer, outcome>>
writers == <<change, current, disturbed>>
vars == <<opener, device, pc, update, writers, missed>>

Settings == [mask : SUBSET Bits, sound : Sounds]
NoSettings == [mask |-> {}, sound |-> NoSound]
NoCount == MaxCount + 1
Counts == 0 .. NoCount
NoChange == [kind |-> "none"]

Goto(t, place) == pc' = [pc EXCEPT ![t] = place]

-----------------------------------------------------------------------------
Init ==
    /\ count = 0
    /\ \E s \in Sounds : settings = [mask |-> {}, sound |-> s]
    /\ state = NoCount /\ config = NoCount /\ advanced = NoSettings
    /\ advancedAt = NoCount
    /\ pin \in BOOLEAN /\ ready = FALSE
    /\ pc = [t \in Tasks |-> "idle"]
    /\ updateLock = NoTask /\ previous = NoCount /\ answer = NoCount
    /\ change = [t \in Tasks |-> NoChange]
    /\ current = [t \in Tasks |-> NoSettings]
    /\ disturbed = {} /\ outcome = "none" /\ missed = FALSE

-----------------------------------------------------------------------------
(* update().                                                               *)

\* async_setup_entry calls the first one, alone.
CallUpdate(t) ==
    /\ pc[t] = "idle"
    /\ ready \/ \A u \in Tasks : pc[u] = "idle"
    /\ Goto(t, "lock")
    /\ UNCHANGED <<opener, device, update, writers, missed>>

\* `async with self._update_lock`, up to `await self.client.get_state()`.
BeginUpdate(t) ==
    /\ pc[t] = "lock"
    /\ updateLock = NoTask
    /\ updateLock' = t
    /\ previous' = state
    /\ outcome' = "running"
    /\ Goto(t, "state")
    /\ UNCHANGED <<opener, device, answer, writers, missed>>

\* A mutant of LeaveUpdate: an error leaves the lock taken.
LeaveUpdateLocked(t, how) ==
    /\ Goto(t, "idle")
    /\ outcome' = IF outcome = "running" THEN how ELSE "none"
    /\ updateLock' = IF how = "failed" THEN updateLock ELSE NoTask
    /\ previous' = NoCount /\ answer' = NoCount

\* It releases the lock; how it ended says something of the state unless a
\* push replaced that.
LeaveUpdate(t, how) ==
    /\ Goto(t, "idle")
    /\ outcome' = IF outcome = "running" THEN how ELSE "none"
    /\ updateLock' = NoTask /\ previous' = NoCount /\ answer' = NoCount

StateAnswered(t) ==
    /\ pc[t] = "state"
    /\ answer' = count
    /\ Goto(t, "resume")
    /\ UNCHANGED <<opener, device, updateLock, previous, outcome, writers, missed>>

\* The end of an update(): the log may refuse the PIN, which is then forgotten
\* (RingDetection).
Complete(t) ==
    /\ LeaveUpdate(t, "ok")
    /\ ready' = TRUE
    /\ pin' \in {pin, FALSE}

\* A mutant of ConfigDue: the counter is not looked at.
ConfigDueOnce == config = NoCount

\* The configuration is read when it never was, or when the counter differs
\* from the one in the state before.
ConfigDue ==
    \/ config = NoCount
    \/ previous # NoCount /\ previous # answer

\* get_state returns: the state replaces whatever was pushed meanwhile.
StateRead(t) ==
    /\ pc[t] = "resume"
    /\ state' = answer
    /\ \/ ConfigDue /\ Goto(t, "config") /\ UNCHANGED <<update, pin, ready>>
       \/ ~ConfigDue /\ Complete(t)
    /\ UNCHANGED <<opener, config, advanced, advancedAt, writers, missed>>

ConfigRead(t) ==
    /\ pc[t] = "config"
    /\ config' = count
    /\ missed' = FALSE
    /\ Goto(t, "advanced")
    /\ UNCHANGED <<opener, state, advanced, advancedAt, pin, ready, update, writers>>

AdvancedConfigRead(t) ==
    /\ pc[t] = "advanced"
    /\ advanced' = settings /\ advancedAt' = count
    /\ Complete(t)
    /\ UNCHANGED <<opener, state, config, writers, missed>>

\* A client operation raises, and update() with it.  If it is the first, the
\* setup gives up and another starts with a new device.
UpdateFails(t) ==
    /\ pc[t] \in {"state", "config", "advanced"}
    /\ LeaveUpdate(t, "failed")
    /\ \/ /\ ready
          /\ missed' = (missed \/ pc[t] # "state")
          /\ UNCHANGED device
       \/ /\ ~ready
          /\ state' = NoCount /\ config' = NoCount
          /\ missed' = FALSE
          /\ UNCHANGED <<advanced, advancedAt, pin, ready>>
    /\ UNCHANGED <<opener, writers>>

-----------------------------------------------------------------------------
(* change_advanced_config, called by the switches and by the number.       *)

Change(t, new) ==
    /\ pc[t] = "idle"
    /\ ready /\ pin
    /\ change' = [change EXCEPT ![t] = new]
    /\ Goto(t, "fetch")
    /\ UNCHANGED <<opener, device, update, current, disturbed, missed>>

\* NukiOpenerSuppressionSwitch._async_set_bit computes the new mask from the
\* configuration the integration has cached, and asks for the whole mask.
SetBit(t) ==
    \E b \in Bits :
       \E mask \in {advanced.mask \cup {b}, advanced.mask \ {b}} :
          Change(t, [kind |-> "mask", bit |-> b, mask |-> mask])

\* NukiOpenerSoundVolume.async_set_native_value.
SetSound(t) ==
    \E s \in Sounds : Change(t, [kind |-> "sound", sound |-> s])

\* dataclasses.replace(current, **changes).
Updated(t) ==
    IF change[t].kind = "mask" THEN [current[t] EXCEPT !.mask = change[t].mask]
                               ELSE [current[t] EXCEPT !.sound = change[t].sound]

\* The Opener takes over a configuration and counts the change; who else has
\* fetched one no longer has the latest.
Store(t, new) ==
    /\ count < MaxCount
    /\ count' = count + 1
    /\ settings' = new
    /\ disturbed' = {u \in Tasks \ {t} : pc[u] = "store"}

EndChange(t) ==
    /\ Goto(t, "idle")
    /\ change' = [change EXCEPT ![t] = NoChange]
    /\ current' = [current EXCEPT ![t] = NoSettings]

\* A mutant of SettingsFetched: the cached configuration is changed.
SettingsFromCache(t) ==
    /\ pc[t] = "fetch"
    /\ pin
    /\ current' = [current EXCEPT ![t] = advanced]
    /\ Goto(t, "store")
    /\ UNCHANGED <<opener, device, update, change, disturbed, missed>>

\* get_advanced_config returns; set_advanced_config is called.  If the PIN was
\* forgotten in the meantime, building its message raises.
SettingsFetched(t) ==
    /\ pc[t] = "fetch"
    /\ \/ /\ pin
          /\ current' = [current EXCEPT ![t] = settings]
          /\ Goto(t, "store")
          /\ UNCHANGED change
       \/ ~pin /\ EndChange(t)
    /\ UNCHANGED <<opener, device, update, disturbed, missed>>

\* set_advanced_config returns.
SettingsStored(t) ==
    /\ pc[t] = "store"
    /\ Store(t, Updated(t))
    /\ advanced' = Updated(t) /\ advancedAt' = count'
    /\ EndChange(t)
    /\ UNCHANGED <<state, config, pin, ready, update, missed>>

\* It raises, before the Opener stored anything or (the answer was lost, the
\* replay refused) after.
ChangeFails(t) ==
    /\ pc[t] \in {"fetch", "store"}
    /\ \/ UNCHANGED opener /\ disturbed' = disturbed \ {t}
       \/ pc[t] = "store" /\ Store(t, Updated(t))
    /\ EndChange(t)
    /\ UNCHANGED <<device, update, missed>>

-----------------------------------------------------------------------------
(* The Opener and the Nuki app.                                            *)

AppChangesSettings ==
    /\ \E new \in Settings \ {settings} : Store(NoTask, new)
    /\ UNCHANGED <<device, pc, update, change, current, missed>>

\* _on_unsolicited_state: the link is up, in an operation or still warm.
StatePushed ==
    /\ state' = count
    /\ outcome' = "none"
    /\ missed' = (missed \/ state \notin {NoCount, count})
    /\ UNCHANGED <<opener, config, advanced, advancedAt, pin, ready, pc,
                   updateLock, previous, answer, writers>>

-----------------------------------------------------------------------------
UpdateStep(t) ==
    \/ StateAnswered(t) \/ StateRead(t) \/ ConfigRead(t) \/ AdvancedConfigRead(t)
    \/ UpdateFails(t)

Next ==
    \/ \E t \in Tasks :
          \/ CallUpdate(t) \/ BeginUpdate(t) \/ UpdateStep(t)
          \/ SetBit(t) \/ SetSound(t)
          \/ SettingsFetched(t) \/ SettingsStored(t) \/ ChangeFails(t)
    \/ AppChangesSettings \/ StatePushed

Spec == Init /\ [][Next]_vars

\* Every client operation ends (NukiClient), and asyncio.Lock serves its
\* waiters in turn.
FairSpec == Spec /\ \A t \in Tasks : SF_vars(BeginUpdate(t)) /\ WF_vars(UpdateStep(t))

-----------------------------------------------------------------------------
(* Properties.                                                             *)

Updating == {"state", "resume", "config", "advanced"}

TypeOK ==
    /\ count \in 0 .. MaxCount /\ settings \in Settings
    /\ state \in Counts /\ config \in Counts
    /\ advanced \in Settings \cup {NoSettings} /\ advancedAt \in Counts
    /\ pin \in BOOLEAN /\ (ready => advanced # NoSettings)
    /\ pc \in [Tasks -> Updating \cup {"idle", "lock", "fetch", "store"}]
    /\ \A t \in Tasks : pc[t] \in Updating <=> updateLock = t
    /\ previous \in Counts /\ answer \in Counts
    /\ current \in [Tasks -> Settings \cup {NoSettings}]
    /\ \A t \in Tasks : pc[t] \in {"fetch", "store"} <=> change[t] # NoChange
    /\ disturbed \subseteq Tasks

\* Both configurations were read, and no earlier than the state last read.
ConfigFresh ==
    /\ config # NoCount /\ config >= state
    /\ advancedAt # NoCount /\ advancedAt >= state

\* After an update that succeeded, the configurations are as recent as the
\* counter in the state (device.py:133-139), unless a push brought the counter
\* or an earlier read of a configuration failed, whatever updates, pushes and
\* changes overlapped.
ConfigFollowsCount == outcome = "ok" /\ ~missed => ConfigFresh

\* A switch changes its own flag only, the number the sound only.
KeepsOthers(t) ==
    CASE change[t].kind = "mask" ->
           /\ settings'.sound = settings.sound
           /\ \A b \in Bits \ {change[t].bit} : b \in settings'.mask <=> b \in settings.mask
      [] change[t].kind = "sound" -> settings'.mask = settings.mask
      [] OTHER -> FALSE

Stores(t) == pc[t] = "store" /\ pc'[t] = "idle" /\ count' # count

\* As long as nobody changes the configuration between the fetch and the store
\* (device.py:191-193), the sound and the mask do not overwrite each other:
\* what was changed before the fetch survives, whatever is cached.
UndisturbedChangeKeepsOthers ==
    [][\A t \in Tasks :
          Stores(t) /\ t \notin disturbed =>
            IF change[t].kind = "mask" THEN settings'.sound = settings.sound
                                       ELSE settings'.mask = settings.mask]_vars

\* "concurrent changes made in the Nuki app are never overwritten"
\* (device.py:186-187, README.md:106-108).
AppChangesAreKept ==
    [][\A t \in Tasks : Stores(t) => KeepsOthers(t)]_vars

\* Every update() ends (device.py:117-149), however many wait for the lock.
UpdateEnds ==
    \A t \in Tasks : pc[t] \in Updating \cup {"lock"} ~> pc[t] = "idle"

=============================================================================
