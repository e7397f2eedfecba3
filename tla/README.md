# Nuki Opener BLE integration: specification

TLA+ models of `custom_components/nuki_opener_ble`, a Home Assistant integration
that talks to a Nuki Opener (an intercom actuator) over Bluetooth, often through
proxies. The models are checked by TLC on small instances; the safety of the
connection lifecycle, of lock actions (with the refinement of what callers are promised),
log reads, rings, settings, polling, pairing and the entry's lifecycle, and what happens to
messages as bytes, is proved with TLAPS for every value of their constants.

Paths in this file are relative to `src/custom_components/nuki_opener_ble`.

## Inventory

| Part | State | Operations | Interacts with |
| --- | --- | --- | --- |
| `NukiOpenerClient`, `nuki/client.py` | `_client`, `_operation_lock`, `_connect_lock`, `_pending`, `_completion`, `_disconnect_timer`, `_disconnect_task`, `_expected_disconnect`, two reassemblers, `credentials` | `connect`, `disconnect`, one method per request, `lock_action`, `set_advanced_config`, `pair` | bleak (callbacks on notification and on disconnect), the event loop (timer, task), `state_callback` of the device |
| framing, `nuki/protocol.py`, `nuki/crc.py` | the receive buffer | `feed`, `reset`, encode, decode | the client |
| bodies, `nuki/messages.py`, `nuki/const.py`, `nuki/errors.py` | none | parse, build | client, device |
| `nuki/crypto.py` | none | key exchange, encryption | client, framing |
| `NukiOpenerDevice`, `nuki/device.py` | `state`, `config`, `advanced_config`, `battery`, `security_pin`, `last_ring`, `_poll_pending`, `_adv_signaled_change`, `_last_log_index`, `_suppress_rings_until`, `_update_lock` | `update`, `execute_lock_action`, `change_advanced_config`, `handle_advertisement`, ring callbacks | client, coordinator, entities |
| advertisements and polling, `nuki/advertisement.py`, `coordinator.py` | last poll, `rssi`, notifications preference | `_needs_poll`, poll, refresh after an action | Home Assistant's Bluetooth manager, device |
| entry lifecycle, `__init__.py` | the entry, its listeners | setup, unload, reload on new options, removal sweep | client, coordinator |
| `config_flow.py` | the flow | discovery, pairing, manual credentials, options with PIN check | client, a running entry |
| entities: `lock.py`, `switch.py`, `number.py`, `button.py`, `event.py`, `sensor.py`, `binary_sensor.py`, `entity.py` | views of the device | lock actions, setting changes, ring events | device, coordinator |

What is hard here. Everything runs on one asyncio loop, so a coroutine is only
interrupted at its awaits, but there are many of them: under the operation lock
(client), under the update lock (device) and under none (`disconnect` from unload,
`change_advanced_config` between its two operations). Timers, the disconnect task
and bleak's callbacks run in between. The radio loses messages without losing the
link ("dead air"), drops the link, and brings late messages on a link kept warm for
the next operation. Requests are replayed; commands must not be performed twice.
The Nuki app and the Opener's own buttons change the state behind the integration,
and states reach it by poll and by push.

What makes each part correct:

* client, lifecycle: one command in flight; no link left open without something
  that will close it; every operation ends; nothing closes a link in use.
* client, lock actions: a call is performed a bounded number of times, and the
  status it returns is its own.
* rings: each ring is announced once, in order, and none that was there before.
* configuration: what is shown is as new as the state's counter; a change made here
  does not undo one made elsewhere.
* log reads: a read returns entries of its own answer and never misses some silently.
* framing and bodies: however a message is cut or damaged, it is read as it was sent or
  refused; what is written back changes only what was asked for.
* pairing: an entry is only made with credentials the Opener has stored.
* polling: a change of the state is fetched in the end, by beacon, retry or fallback;
  after an action nothing older than its outcome is shown.
* entry: no link outlives what would close it; the stored options are the ones in
  effect; an entry that can be loaded is loaded.

## Modules

| Module | Models | Runs |
| --- | --- | --- |
| `NukiClient` | the connection lifecycle, `nuki/client.py` 127-371 and the wrappers of its operations; unload and stop in `__init__.py` | `client` |
| `NukiClientProofs` | its inductive invariant and theorems | TLAPS |
| `LockAction` | `lock_action`, `_wait_for_completion`, `_handle_message`, the settings requests, and the Opener | `lock_action`, and two violations |
| `LockActionPromise` | what callers are promised; implemented by `LockAction` | property `PromiseKept` |
| `LockActionProofs` | the inductive invariant of `LockAction`, its theorems and the refinement | TLAPS |
| `LogReading` | `get_log_entries`, the encrypted reassembler, `_on_notification`, retries | `log_reads` |
| `LogReadingProofs` | its inductive invariant and theorems | TLAPS |
| `Crc16`, `Messages`, `WireFormat` | `nuki/crc.py`, `nuki/messages.py`, the plain half of `nuki/protocol.py`, byte by byte | `wire` |
| `WireFormatProofs` | the invariants and theorems of `WireFormat` | TLAPS |
| `RingDetection` | `update` as far as rings, the detectors, the strike's suppression, `nuki/device.py` 74-345 | `rings` |
| `RingDetectionProofs` | its inductive invariant and theorems | TLAPS |
| `OpenerSettings` | `update` as far as the configuration, `change_advanced_config`, and its callers in `switch.py` and `number.py` | `settings`, and a violation |
| `OpenerSettingsProofs` | its inductive invariant and theorems | TLAPS |
| `Polling` | `coordinator.py`, `nuki/advertisement.py` as far as the flag, the locking and the flags of `update`, the refresh after an action in `entity.py` | `polling` |
| `PollingProofs` | its inductive invariant and theorems | TLAPS |
| `Pairing` | `_pair` and the pairing steps of `config_flow.py`, with the Opener | `entry`, as a part of the next |
| `EntryLifecycle` | `__init__.py`, the options flow, the doorbell switch and event entity; extends `Pairing` | `entry`, and a violation |
| `EntryLifecycleProofs` | what pairing preserves; the inductive invariant and theorems of both | TLAPS |
| `MC...` | the instances TLC checks | |

Each module has the part of the system it is about in full and the others in short.
`NukiClient` has every await of a connection but no contents; `LockAction` and
`LogReading` have contents and hold a link that goes up and down; `RingDetection`,
`OpenerSettings` and `Polling` see a client operation as an answer that is given in one
step and used in a later one, or a failure; `EntryLifecycle` has several clients, each
with operations of one request, because its questions are about whose link it is.

Some operators are faulty variants of the definition that follows them, and say in their
comment what is wrong with them. They are used nowhere; with the definition replaced by such a
variant, its run must fail, which shows that the property depends on the code.

### NukiClient

`pc[t]` says at which await each calling task is suspended; `holder` is the owner of
`_operation_lock` (the connect lock is only ever taken under it and is not modelled
apart). `pending` is `_pending` with the state of its future, `client` and `link` are
`_client` and the BLE links, `timer` and `disconnectTask` the two stages of the idle
disconnect. One action is one run between awaits, so a failed attempt that ends the
request, the `finally` clauses, `_schedule_disconnect` and the release of the lock
are a single step (`AttemptFails`, `Finish`), as in the code. An operation is a
number of requests, because `lock_action` and the settings send two or more.

`Resume` waits for a created disconnect task to take its first step: the task is
ready at once, whereas every await that `Resume` ends needs an event of a later
iteration of the loop. Getting the lock (`Start`) does not: the task may then close the
warm link under an operation that has just begun, which recovers with its retry. A timer armed
in the run that hands over the lock cannot expire in that iteration, hence the guard on waiters in `IdleDisconnect`.

A link whose `disconnect()` failed is `stuck`: connected, with nothing referring to
it. It is not counted as leaked; the code suppresses that error and offers the
removal sweep.

### LockAction and LockActionPromise

The client's side is `lock_action` step by step: challenge, arming of the completion
queue, sending, the watchdog with its replay of the same bytes, the second round
after `K_BAD_NONCE`, the wait for COMPLETE. `set_advanced_config` and
`verify_security_pin` are calls of the kind `setting`, with one round and no queue.
The Opener, which is not in the repository, generates nonces that are good once,
refuses or performs, reports ACCEPTED at once and COMPLETE or an error later, and may
repeat ACCEPTED; it does so as `client.py` and its comments expect. `HandleMessage`
has every branch of `_handle_message` that concerns these messages. Each message
carries the call it belongs to as history, which the client never reads.

`LockActionPromise` is the caller's view: a call begins when all before it have
returned, is performed at most twice, and returns once; ACCEPTED means that it was
performed and COMPLETE that it finished, unless it began while the link could still
bring an earlier status (`doubtful`). `LockAction` implements it under the identity
mapping of the four variables they share.

### RingDetection

`update()` runs from the update lock to the answer of `get_state`, and from there to
the log and its answer. The Opener answers `get_state` in one step and the task resumes in a
later one, so a push in between is overwritten by an older state, as in the code. It answers
the read of the log in one step too, and `LogRead` uses the entries in a later one, when the
log may have grown. That an answer is never used after a newer one is due to the update lock:
without it (`BeginUpdateUnlocked`) the older answer takes `_last_log_index` back and entries
ring a second time. The operation lock of the client, which puts the answers themselves in
order, is `NukiClient`'s and is not needed for this. Of a state only the
lock state, continuous mode and the trigger matter; the trigger is manual exactly
when the bell opened it, so the model keeps the log entry of that ring there. The
beacon's flag is any value, since a beacon may come or stay away at any time. A log
entry is a ring, a strike, or the echo of the strike before it. Time is two booleans:
whether the suppression window is open, and whether `last_ring` is under 30 s old.

A first `update()` that fails ends the setup, and a later setup has a new device;
polls, refreshes and actions start after one that succeeded (`ready`).

### OpenerSettings

The Opener has a configuration and the counter of its changes; the device has the
counter of the last state, the counter at which it read each configuration, and the
cached one. A switch computes its mask from the cache when the user flips it, then
fetches and stores; the number stores its own field. A store whose answer is lost
fails although the Opener applied it. The name and mode fields of the basic
configuration, which this integration never writes, are only represented by the
counter.

### LogReading

The stream is a sequence of units of about 20 bytes, each a piece of a message; the
length of a message is in the unit that completes its header. What `feed` takes for a
length when the head of the buffer is in the middle of a message is `noise`, any of a few
numbers that stays the same through a behaviour; decryption is symbolic, so a piece that
is not exactly one message cannot be decrypted. `Notification` is `_on_notification` with
everything it calls: the overflow, the messages taken from the buffer, the drop of all of
them when one is bad, and `_handle_message` for each otherwise. The requests are
`_request` with `REQUEST_ATTEMPTS` attempts, each on what `connect` and `disconnect` leave
of the link and the buffer. The answer to a read carries the read it belongs to as history.
A link may be warm from a lock action whose COMPLETE, a STATUS, is still to come; it ends
a read early, and `NothingMissedSilently` leaves exactly that case out.

### Crc16, Messages and WireFormat

These work on real bytes. `Messages` has the layout of every message the client parses as
a table of fields with offset, length, kind and the payload length from which it is
there, which is what the parsers of `nuki/messages.py` spell out; the write-back of the
advanced configuration, and the two payloads that hold a name. `WireFormat` frames pairing
messages with their checksum, cuts the stream, damages it, and reassembles it
(`MessageReassembler.feed` without credentials, `decode_plain`); or it hands a body of some
length and pattern to a parser; or it changes settings in a configuration, one after
another. Builders that only concatenate fixed fields are left out.

The Opener frames a message with its checksum or, as `nuki/crc.py` 39-40 reports of some
firmware, with zeroes. `Checksum` is a constant of `WireFormat`: the reassembler asks nothing
of it but that it is a number of two bytes. `MCWireFormat` gives it `crc16`, whose table is
checked against the division it stands for. `SizesAssumption` says of the Opener's messages
that those of a type the client knows have the size it expects (`_PLAIN_MESSAGE_SIZES`), and
that one of another type is not empty and has no beginning that looks like a message, which
`_expected_size` takes for granted where it scans for the end of such a message.
`BufferAssumption` says that all but a byte of a message fits `_MAX_BUFFER` together with an
indication, so that what overflows is not a stream of such messages.

### Polling

`version` counts the changes of the Opener's state, so that "newer" is "greater". A beacon
is flagged until `get_state` is answered, and can be heard only while no link is up.
`_poll_pending`, `_adv_signaled_change` and the local `adv_signaled_change` are `pending`,
`signal` and `captured`. The poll and the refresh after an action are two tasks that share
the update lock. Home Assistant's debouncer is its cooldown and the call at its end; the
fallback interval is a boolean that becomes true some time after a poll; `battery` is the
same for the battery's. `HandleAdvertisement` is the device's part of a beacon.

### Pairing and EntryLifecycle

A key is a number, fresh for each `pair`; an authenticator is right when its key and its
challenge are those of the Opener's session. That session, pairing mode and the single
link are external: they follow what `client.py` expects and what `tests/nuki/fake_device.py`
does, with the choices a test device does not have (the session may or may not outlive its
link; pairing mode may end at any time; the app may take the link and pair). Each of the
five requests is written, answered or not, and retried as `_request` does; every way out
goes through `PairingEnds`, the flow's handling of the error, and except for the first
connection through `FinishPairing`, which has the `finally` of `pair` before it. The checks of
what the Opener sends at the end (its authenticator, its last status) may fail, as may the
search for the pairing characteristic.

`EntryLifecycle` starts where the flow ends. `state` is Home Assistant's state of the entry,
`stage` the await at which setup or unload is. Several clients exist, since an operation of
an unloaded client may go on with its retry next to the client of the next setup; `holder`
says whose link the Opener has, and "orphan" is a link whose closing failed. An options flow
checks the PIN with an operation on the client that is the entry's at the time, if the entry is
loaded, and stores it unchecked if not. `in_effect` is the `security_pin` of the entry's device:
the first update and every later one may read the log with it, and when the Opener refuses it
the device drops it (`PinRefused`) while it stays stored. The switch's last state is what Home
Assistant writes for it, "unavailable" while the Opener is out of sight.

## Runs

| Run | Shows | Bounds |
| --- | --- | --- |
| `client` | `TypeOK`, `NoLeakedLink`, `OneCommandInFlight`, `TimerOnlyWhenIdle`, `ClientPresent`; `OperationEnds`, `IdleLinkCloses`, `EventuallyDisconnected` | 3 callers, 2 links, 3 attempts, 2 requests each |
| `lock_action` | `TypeOK`, `PromiseKept` (refinement), `SettingAppliedOnce`, `CallReturns` | 2 calls, 2 attempts, 6 nonces, 2 notifications under way |
| `lock_action_executed_twice` | a violation: one call, two executions | as above, 4 nonces |
| `lock_action_stale_status` | a violation: an earlier COMPLETE answers a later call | as above, 4 nonces |
| `log_reads` | `TypeOK`, `ReadReturnsOwnEntries`, `NothingMissedSilently`, `WholeStreamIsReadable`; `ReadEnds` | 2 reads of 2 entries, log of 3, 2 attempts, 1 indication and 1 link lost |
| `wire` | `FramesArriveWhole`, `DamageIsNoticed`, `ChecksumIsTheRemainder`, `FirmwareMayGrow`, `WriteBackKeepsOthers`, `NamesKeepTheirPlace` | 2 messages, indications of 3, 20 and 200 bytes, one burst of damage, bodies of 0 to 28, 46 to 58, 70 to 73 and 82 to 85 bytes in 4 patterns, names up to 33 characters of 1 to 4 bytes, 2 changes |
| `rings` | `TypeOK`, `LogRingsFireOnceInOrder`, `TransitionRingsFireOnce` | 2 tasks, 3 log entries, 2 read at a time |
| `settings` | `TypeOK`, `ConfigFollowsCount`, `UndisturbedChangeKeepsOthers`, `UpdateEnds` | 2 tasks, 2 changes, 1 flag, 2 sound levels |
| `settings_overwritten` | a violation: a switch takes back a flag set in the app | 2 flags |
| `polling` | `TypeOK`, `FlaggedBeaconIsKept`, `SignalIsCurrent`, `ActionShown`; `ChangeIsFetched` | 2 changes, 2 actions |
| `entry` | `CredentialsWork`, `NoLinkLeft`, `OptionsInEffect`, `RingsSilenced`; `EntryLoads` | 2 clients, 2 pairings of 2 attempts, 1 link lost or left behind before the entry exists and 1 after, 2 PINs, 2 options flows, 1 use of the switch |
| `preference_lost` | a violation: a reload while the Opener is out of sight turns notifications off | 1 use of the switch |

Why the bounds suffice. Client: three callers give a holder, one that waits and one
that arrives; two links give an old one that is closing or stuck and a new one; three
attempts are the code's own `REQUEST_ATTEMPTS`; with two requests an operation both
continues on a link and ends. The proofs remove these bounds for safety. Lock
actions: an interference is between one call and the next; two attempts give a first
sending and a replay, and two rounds of two attempts need at most four nonces per
call, so six let one call use all of its own. The queue's capacity is 1 rather than 4, so that it does
overflow with two notifications under way. Rings: the baseline and two new entries
are what an order needs, and a read of two of three entries loses one; a strike is begun while
the log has room for it and its echo, so that rings of the bell can follow. Settings: one
change that is missed and one that overwrites it. Log reads: an indication of two units
holds part of a message and one of eight several, the buffer of 12 does overflow, and a
second read meets what the first has left on the link. Wire: the lengths of bodies are
around those the parsers ask for, and take a state past its last optional field and a log entry
into its details; the proofs remove this bound and those of the stream.
33 characters overflow every name field, and names of two to four bytes are cut inside a
character. Polling: one change can come between an answer and its use, with another after
it. Entry: a client of the last setup and one of the present, a change of the options
while the first is applied; a failed pairing and one that follows it.

Deadlock is not checked where the model may stop: the client after unload, lock actions,
log reads, pairing messages and polling because calls, changes or losses are bounded,
the entry after its removal.

### Fairness

* `NukiClient`: every await ends (bleak's calls have timeouts or fail; the watchdog of
  `_request_once`; `asyncio.sleep`), so `Resume` is weakly fair; `asyncio.Lock` wakes
  waiters in order, so `Start` is strongly fair; timers and created tasks run. Nothing
  is asked of the radio: a link need not come up, and no answer need arrive.
* `LockAction`: the client's own steps and the timeout of the wait. Nothing is asked of
  the Opener or the radio.
* `LogReading`: the client's task runs and its timeouts expire. Nothing is asked of the
  Opener or the radio, so `ReadEnds` rests on the retries alone.
* `Polling`: tasks run and timers fire, idle links are closed (`NukiClient!IdleLinkCloses`),
  Home Assistant finishes starting. Strongly fair, hence assumptions on the world: a
  beacon is heard if the Opener may send one again and again, and a read that is tried again and
  again works.
* `EntryLifecycle`: Home Assistant's tasks and the clients' steps run; setup is retried
  as Home Assistant does after `ConfigEntryNotReady`. Strongly fair: the connection of
  the setup and the Opener's answer to it. `EntryLoads` assumes besides that from some time on the
  Opener is in sight and no app or orphaned link occupies it.
* `OpenerSettings`: client operations end, which `NukiClient!OperationEnds` shows, and
  the update lock is first come, first served.

## Findings

Four statements of the code's own comments or documents are violated; each is a run with
the shortest behaviour as its trace, and is described in `PROJECT.json` with the quoted
line.

* `lock_action_executed_twice`: when only ACCEPTED was lost, the replay is refused for its
  nonce, and the second round performs the action again.
* `lock_action_stale_status`: a late COMPLETE on the warm link answers a later call.
* `settings_overwritten`: a switch undoes a change made in the app.
* `preference_lost`: the doorbell-notifications preference becomes off by a reload or
  restart while the Opener is out of sight.

Known behaviours that the models reach and the properties allow: the idle task may close
a link in use (the operation recovers by its retry); unload during connecting makes
`assert self._client is not None` fail, so that the operation ends with another error than
a `NukiError`; a retry's own disconnect leaves a marker that ends the wait for completion,
which is then reported as accepted; with two rings since the last read of the log, the
debounce may drop one and announce the other twice; a push may hide a changed counter from
the next `update`, so that the configuration is not read again until it changes once more;
a COMPLETE that comes while a log read is pending ends it with fewer entries; options stored
during a setup that has read them already wait for some later reload, since the listener is
registered last, in spite of its "Reload the entry when options change" (`__init__.py` 93); a
PIN stored while the entry is not loaded is not verified, and when it is wrong its first use
makes the device drop it while the option keeps it, in spite of the repository's README
(105-106), "The PIN is verified against the device when you save it". Each is a
hazard in `PROJECT.json`, at its line.

## Proofs

`NukiClientProofs` proves, for any sets of tasks and links and any positive numbers of
attempts and requests, that `TypeOK`, `NoLeakedLink`, `OneCommandInFlight`,
`TimerOnlyWhenIdle` and `ClientPresent` are invariants of `Spec`. It assumes only what
the constants' assumptions in `NukiClient` say: `NoTask` and `NoLink` are no task and
no link, the numbers are positive naturals.

None of the last four is inductive alone. The invariant that is, `IndInv`, joins them
with three facts: the holder of the lock is exactly the task that is somewhere between
acquiring and releasing it (`LockOwner`); while a link is being established there is no
connected one, so that the new link cannot orphan an old (`NoneWhileEstablishing`); and
while a task subscribes, the client is there and no disconnect task is under way,
unless unload has come (`ClientWhileSubscribing`). That last fact is why the race of
the idle task does no worse than cost a retry: the task has run before any await of the
operation ends, so a connecting operation never meets it half-way.

The argument follows the actions. Most of them end in `Finish`, in `Send` or in
`AttemptFails`, so each of these has a lemma saying that it preserves `IndInv`; the
actions of the loop and of bleak that touch the link or the timer are one lemma more.

`PollingProofs` proves, for any number of changes and actions (`BoundsAssumption`: both are
naturals), that `TypeOK`, `FlaggedBeaconIsKept`, `SignalIsCurrent` and `ActionShown` are
invariants of `Spec`. Its invariant `IndInv` adds to them

* `LockOwner`: the update lock is held by exactly the task that is reading, which makes
  the two tasks' reads exclude each other;
* `CurrentSignals`: the device's signal was set by a beacon since the last read, and so
  was the copy of the task that holds the lock. It is what two updates that both wait for
  the lock with the flag set need: the second captures the flag only after the first has
  cleared it, because capture comes after the lock;
* `NewEnough`: what is stored, and what a refresh of an action has been answered, is as
  new as what was promised or will be. A poll that began before the action may hold an
  older answer, but then the refresh waits for its lock, and reads after it.

A task's update ends in four ways that share `EndUpdate`; the lemma `EndKeeps` treats it
once, given that the state is not set back.

`LockActionProofs` proves, for any number of calls (`NumCalls` and `RequestAttempts`
positive, the queue's capacity and the bounds naturals), `TypeOK`, `SettingAppliedOnce` and
`PromiseKept`, the last step by step: each action of `LockAction` is an action of
`LockActionPromise` or leaves its four variables alone. What the step of a return needs is
that a status the client acts on is a true one:

* `Serial`: calls come one after the other: those before the latest have returned, those
  after it were never made;
* `Rounds` and `Spent`: a round has one nonce, the Opener takes it at most once, and once it
  is taken no copy of the request under way is good. So a call is performed at most once in
  each round, and a setting, which has one round, once;
* `Notifications` and `Received`: a status on the air, in the future or in the completion
  queue is of a call that was performed (COMPLETE: finished), and of the latest call unless
  that call is `doubtful`.

`LogReadingProofs` proves, for messages, indications and a buffer of any size, any number of
reads, attempts, losses and lost links, and whatever is read as a length where none is,
`TypeOK`, `ReadReturnsOwnEntries`, `NothingMissedSilently` and `WholeStreamIsReadable`. The
constants' assumptions are that sizes are positive, that bounds are naturals, that the log has
room at the start, and that all but a unit of a message and an indication fit the buffer
together (`BufferAssumption`; the code has 4096 bytes for messages of less than a hundred);
only the last of the theorems needs that one. The invariant is about the sequence `Stream`,
what the reassembler holds and after it what is under way:

* `Sound`, `InSequence`, `Fresh`: units are of messages the Opener has sent, entries of a read
  come newest first, and a challenge under way is newer than any that the client, its answer
  or a request has;
* `Own`, `AnsweredOnce`: the Opener takes a challenge once and only its last, and a new one
  comes behind all that it has answered. So when a read has its challenge, nothing of an
  earlier read is left in the stream and no request of one is good, although such requests
  may still be under way: this is why what is collected is of the read itself (`Collected`);
* `Whole`: as long as none of the answer was lost, it goes on in the stream exactly where what
  is collected ends, one unit after another. It holds for any hole that was there before;
* `Readable`: a stream without a hole is a sequence of whole messages.

All but the last two survive any loss, because what a loss leaves is a subsequence (`Thin`).
A notification is an induction over the rounds of `feed` and then over the messages
(`FeedKeeps`, `HandledIsHeld`, `HandledIsWhole`): each round moves one message out of the
stream. The loops are functions on an interval of numbers, which is why they can be reasoned
about: that such a function exists and what holds at its end follows by an induction stated for
sets, `InductionOverSets`, which is proved from the pigeonhole principle.

`RingDetectionProofs` proves, for any set of tasks and any bounds, `TypeOK`,
`LogRingsFireOnceInOrder` and `TransitionRingsFireOnce`. For the log, what was fired is no
newer than the newest entry used, and what is fired next is newer (`FiredIsRead`), since an
answer that is still to be used is no older than the one used last (`HasRead`). For the
transition one has to know why a strike that was announced is not seen again (`SeenOnce`):
while the Opener still shows it, so do the cached state and every state from which an update
under way starts, and no answer on its way is older (`AnswersAge`).

`OpenerSettingsProofs` proves, for any set of tasks, flags and sound levels, `TypeOK`,
`ConfigFollowsCount` and the action property `UndisturbedChangeKeepsOthers`. `update` compares
the counter it has read with the one before, not with the one at which it read the
configuration. That suffices because no counter is ahead of the Opener's (`NoneAhead`), one
update reads state and both configurations in turn (`ReadInTurn`), and what is cached is as
recent as the state from which an update under way starts (`Fresh`), unless the histories say
why not. `Undisturbed` says that what a change has fetched is still what the Opener has,
unless somebody has changed it since.

`WireFormatProofs` proves four properties of bytes, for bytes of any value.

* `FramesArriveWhole`, for any messages, sizes of indications, numbers of messages and any
  checksum function that satisfy the assumptions above. The argument has a stream `T` that
  holds all that was ever sent, and the positions `e` at which its messages end. The
  invariant is that the buffer, and after it what is on the wire, is what `T` has after the
  last message that was heard (`Between`), and that no complete message stays in the buffer.
  `HeadOfBuffer` says why `feed` cuts right: whatever follows, the message at the head of
  the buffer is found as soon as all of it is there and never before, by the table of sizes
  or by the scan. So each round of the loop takes the next message of the stream
  (`TakeKeepsRound`), and the rounds do not run out before the complete messages do, because
  a message has at least five bytes (`LoopTakes`). The buffer never overflows, because what
  it keeps is less than a message.
* `FirmwareMayGrow`, for payloads of any bytes and any length: each field of each layout ends
  before what the parser has asked for.
* `WriteBackKeepsOthers`, for any bytes the Opener has stored, any levels and any number of
  changes: each member of the structure is serialized where it was parsed. What is proved of
  the bits is arithmetic: adding or subtracting a power of two where that bit is off or on
  changes no other bit of a byte.
* `NamesKeepTheirPlace`, for characters of any number of bytes, none of them zero.

For the loop, the characters of a name and the bytes of a payload the induction is again the
one stated for sets, `InductionOverSets`.

In `EntryLifecycleProofs`, `CredentialsWork` is proved for any positive number of attempts from
`PairingInv`: the air carries the request of the flow's step with the flow's key, or its
answer (`OnAir`), and at the last step an answer that is no error comes from an Opener that
has authorized that key. No action of the lifecycle disturbs the flow, so the entry has it
over its whole life. The module also proves `NoLinkLeft`, `OptionsInEffect` and `RingsSilenced`
for any finite set of clients, from

* `Staged`: what setup and unload have done so far, at each point of them;
* `LinksHeld`: a client that has the link has an operation or a timer that will close it,
  and one that setup gave up has neither link nor timer;
* `OptionsRead`: from the moment that setup reads them, the options it has read are the
  stored ones, or the Opener has refused them, or a reload is due;
* `DoorbellKept`: the switch is on only by choice, and so is what it will be restored from
  while there is none.

Theorems of `EntryLifecycle` assume that its clients are none of the other holders of the
link (`None`, the app, an orphan, the pairing flow), that `Pin` is one of `Pins` and that
`None` is not.

Only model-checked:

* every liveness property, which is out of the provers' reach;
* `DamageIsNoticed` and `ChecksumIsTheRemainder`: which bursts the polynomial notices, and
  that the table computes its remainder, are facts of arithmetic modulo two on the contents
  of a table of 256 numbers, and of an induction over it, which the provers have no theory
  for. TLC checks them on the enumerated messages.

## Not modelled

* Sensors, diagnostics, the properties of entities: read-only views.
* Discovery and the choice of a device in the config flow, which fill in an address; texts,
  translations, logging.
* Builders that concatenate fixed fields, names of enumeration members.
* The choice of the lock's action by state and options, a pure function.
* The primitives of cryptography, which are PyNaCl's: keys and authenticators are symbolic.
* Real time: windows and intervals (suppression, debounce, fallback, battery) are booleans
  that may change at any time, so how long they last is not a question the models answer.
* A platform whose own setup raises; Home Assistant's Bluetooth manager and debouncer beyond
  what the coordinator relies on.

## Plan

1. Composition: `OpenerSettings`, `RingDetection` and `Polling` over the abstract promise of
   the client instead of answers of their own.
2. Two entries of two Openers in one Home Assistant, which share adapters.
