--------------------------- MODULE RingDetection ---------------------------
(***************************************************************************)
(* How NukiOpenerDevice (nuki/device.py) finds doorbell rings: from two    *)
(* consecutive states, read by update() or pushed, and from the activity   *)
(* log; and how it ignores those its own electric strike causes.           *)
(*                                                                         *)
(* Several tasks call update(), which holds its own lock across the client *)
(* operations it awaits; everything else runs meanwhile.  The Opener       *)
(* answers get_state, and get_log_entries, in one step and the task        *)
(* resumes with the answer in a later one.  What update() reads between    *)
(* the state and the log (the configuration, the battery) is               *)
(* OpenerSettings; here it may fail.                                       *)
(***************************************************************************)
EXTENDS Naturals, Sequences, FiniteSets

CONSTANTS
    Tasks,      \* polls, refreshes after an action, actions
    NoTask,
    LogCount,   \* log entries read at a time
    MaxLog      \* bound: log entries the Opener writes

ASSUME TasksAssumption == NoTask \notin Tasks
ASSUME LogCountAssumption == LogCount \in Nat \ {0}
ASSUME MaxLogAssumption == MaxLog \in Nat

VARIABLES
    \* the Opener
    mode,       \* lock state, continuous mode, and the ring that opened it
    log,        \* the activity log: "ring", "strike", or "echo", a doorbell
                \* entry within the active window of the strike before it
    \* NukiOpenerDevice
    state,      \* state, as last read or pushed; of the trigger, which is only
                \* looked at when the state is read, nothing is kept
    pin,        \* security_pin is not None
    lastLog,    \* _last_log_index, 0 for None
    suppressed, \* time.monotonic() < _suppress_rings_until
    lastRing,   \* who detected last_ring, if that is under 30 s ago
    ready,      \* the first update() succeeded: entities and polls exist
    updateLock, \* _update_lock
    \* tasks
    pc,
    previous,   \* per task: local of its update()
    answer,     \* per task: the state the Opener has answered to its update()
    read,       \* per task: the newest log entry that it has answered, 0 for none
    \* history
    fired,      \* log entries a ring was fired for by the log, in that order
    firedByState, \* and by the transition of the state
    baseline    \* the newest entry at the first read of the log

opener == <<mode, log>>
detector == <<pin, lastLog, suppressed, lastRing, ready>>
history == <<fired, firedByState, baseline>>
update == <<updateLock, previous, answer, read>>
vars == <<opener, state, detector, pc, update, history>>

States == [lock : {"locked", "rto", "open"}, cm : BOOLEAN]
NoState == [lock |-> "none", cm |-> FALSE]

\* ring is the log entry of the ring that made it open, 0 when something else
\* did: the trigger is manual exactly when it is a ring.
Modes == [lock : {"locked", "rto", "open"}, cm : BOOLEAN, ring : 0 .. MaxLog]
NoAnswer == [lock |-> "none", cm |-> FALSE, ring |-> 0]

Kept(m) == [lock |-> m.lock, cm |-> m.cm]

Goto(t, place) == pc' = [pc EXCEPT ![t] = place]

-----------------------------------------------------------------------------
(* The detector's operators.                                               *)

\* The strong signals of _detect_ring_from_transition: the strike has fired
\* with a manual trigger.
RingSeen(before, now) ==
    /\ before # NoState
    /\ now.lock = "open" /\ now.ring # 0
    /\ \/ now.cm /\ before.lock # "open"
       \/ before.lock = "rto"

\* The weak one, for a state the beacon flagged as changed, without the log.
WeakSignal(before, now) ==
    /\ ~pin
    /\ before.lock = "locked" /\ now.lock = "locked" /\ before.cm = now.cm

\* _fire_ring: an event is ignored, taken for one already fired, or fired.
Debounced(by) == lastRing \notin {"none", by}

Detected(by) == lastRing' = IF suppressed THEN lastRing ELSE by

\* The indices of the entries get_log_entries(count=LogCount) returns when n is the newest.
Entries(n) == {i \in 1 .. n : i + LogCount > n}

\* _is_strike_echo, which looks for the strike among the same entries.
IsStrikeEcho(i, n) == log[i] = "echo" /\ i - 1 \in Entries(n)

NewRings(n) ==
    {i \in Entries(n) : i > lastLog /\ log[i] \in {"ring", "echo"} /\ ~IsStrikeEcho(i, n)}

Increasing(s) == \A i \in 1 .. Len(s) : \A j \in 1 .. i - 1 : s[j] < s[i]

\* sorted(): the one sequence of all the indices in S in which they increase.
InOrder(S) == {s \in [1 .. Cardinality(S) -> S] : Increasing(s)}

\* Fired in order: once the log has detected one, no other is taken for the
\* ring the transition has fired.
FiredFromLog(rings) ==
    IF suppressed \/ rings = <<>> THEN <<>>
    ELSE IF Debounced("log") THEN Tail(rings)
    ELSE rings

-----------------------------------------------------------------------------
Init ==
    /\ mode = [lock |-> "locked", cm |-> FALSE, ring |-> 0]
    /\ log = <<>>
    /\ state = NoState
    /\ pin \in BOOLEAN
    /\ lastLog = 0
    /\ suppressed = FALSE
    /\ lastRing = "none" /\ ready = FALSE
    /\ pc = [t \in Tasks |-> "idle"]
    /\ updateLock = NoTask 
    /\ previous = [t \in Tasks |-> NoState]
    /\ answer = [t \in Tasks |-> NoAnswer]
    /\ read = [t \in Tasks |-> 0]
    /\ fired = <<>> /\ firedByState = <<>> /\ baseline = 0

-----------------------------------------------------------------------------
(* update().                                                               *)

\* A mutant of BeginUpdate: updates are not serialized.
BeginUpdateUnlocked(t) ==
    /\ pc[t] = "idle"
    /\ updateLock' = t
    /\ previous' = [previous EXCEPT ![t] = state]
    /\ Goto(t, "state")
    /\ UNCHANGED <<opener, state, detector, answer, read, history>>

\* `async with self._update_lock`, up to `await self.client.get_state()`.  A task
\* that waits for the lock has not read anything and is idle here.
BeginUpdate(t) ==
    /\ pc[t] = "idle"
    /\ updateLock = NoTask
    /\ updateLock' = t
    /\ previous' = [previous EXCEPT ![t] = state]
    /\ Goto(t, "state")
    /\ UNCHANGED <<opener, state, detector, answer, read, history>>

\* The locals are not read again.
Forget(t) ==
    /\ previous' = [previous EXCEPT ![t] = NoState]
    /\ answer' = [answer EXCEPT ![t] = NoAnswer]
    /\ read' = [read EXCEPT ![t] = 0]

LeaveUpdate(t) ==
    /\ Goto(t, "idle")
    /\ updateLock' = NoTask
    /\ Forget(t)

StateAnswered(t) ==
    /\ pc[t] = "state"
    /\ answer' = [answer EXCEPT ![t] = mode]
    /\ Goto(t, "resume")
    /\ UNCHANGED <<opener, state, detector, updateLock, previous, read, history>>

\* The beacon may have flagged a change when the update began.
FlaggedWithoutChange(t) ==
    \E flagged \in BOOLEAN : flagged /\ WeakSignal(previous[t], answer[t])

\* get_state returns: the state replaces whatever was pushed meanwhile.
StateRead(t) ==
    /\ pc[t] = "resume"
    /\ state' = Kept(answer[t])
    /\ \/ /\ RingSeen(previous[t], answer[t])
          /\ Detected("transition")
          /\ firedByState' = IF suppressed \/ Debounced("transition") THEN firedByState
                             ELSE Append(firedByState, answer[t].ring)
       \/ /\ ~RingSeen(previous[t], answer[t]) /\ FlaggedWithoutChange(t)
          /\ Detected("transition")
          /\ UNCHANGED firedByState
       \/ /\ ~RingSeen(previous[t], answer[t])
          /\ UNCHANGED <<lastRing, firedByState>>
    /\ Goto(t, "log")
    /\ Forget(t)
    /\ UNCHANGED <<opener, pin, lastLog, suppressed, ready, updateLock, fired, baseline>>

\* get_state raises, or a read of the configuration after it.  If it is the
\* first update(), the setup gives up and another starts with a new device.
UpdateFails(t) ==
    /\ pc[t] \in {"state", "log"}
    /\ LeaveUpdate(t)
    /\ state' = IF ready THEN state ELSE NoState
    /\ UNCHANGED <<opener, detector, history>>

LogAnswered(t) ==
    /\ pc[t] = "log" /\ pin
    /\ read' = [read EXCEPT ![t] = Len(log)]
    /\ Goto(t, "entries")
    /\ UNCHANGED <<opener, state, detector, updateLock, previous, answer, history>>

\* _detect_ring_from_log with the entries: the first read only sets the baseline.
LogRead(t) ==
    /\ pc[t] = "entries"
    /\ LeaveUpdate(t)
    /\ ready' = TRUE
    /\ \/ read[t] = 0 /\ UNCHANGED <<lastLog, lastRing, fired, baseline>>
       \/ /\ read[t] # 0 /\ lastLog = 0
          /\ lastLog' = read[t]
          /\ baseline' = read[t]
          /\ UNCHANGED <<lastRing, fired>>
       \/ /\ read[t] # 0 /\ lastLog # 0
          /\ lastLog' = read[t]
          /\ \E rings \in InOrder(NewRings(read[t])) : fired' = fired \o FiredFromLog(rings)
          /\ IF NewRings(read[t]) # {} THEN Detected("log") ELSE UNCHANGED lastRing
          /\ UNCHANGED baseline
    /\ UNCHANGED <<opener, state, pin, suppressed, firedByState>>

NoLogRead(t) ==
    /\ pc[t] = "log" /\ ~pin
    /\ LeaveUpdate(t)
    /\ ready' = TRUE
    /\ UNCHANGED <<opener, state, pin, lastLog, suppressed, lastRing, history>>

\* The PIN is refused and forgotten, or the log could not be read.
LogReadFails(t) ==
    /\ pc[t] \in {"log", "entries"} /\ pin
    /\ LeaveUpdate(t)
    /\ ready' = TRUE
    /\ pin' \in BOOLEAN
    /\ UNCHANGED <<opener, state, lastLog, suppressed, lastRing, history>>

-----------------------------------------------------------------------------
(* execute_lock_action, for the electric strike.  MaxLog bounds it: it is  *)
(* begun, and logged, while there is room for what it may write.           *)

BeginStrike(t) ==
    /\ pc[t] = "idle" /\ ready /\ Len(log) + 1 < MaxLog
    /\ suppressed' = TRUE
    /\ Goto(t, "strike")
    /\ UNCHANGED <<opener, state, pin, lastLog, lastRing, ready, update, history>>

\* lock_action returns after the relatch; the window starts again.
StrikeReturns(t) ==
    /\ pc[t] = "strike"
    /\ Len(log) + 1 < MaxLog
    /\ log' \in {log \o <<"strike">>, log \o <<"strike", "echo">>}
    /\ suppressed' = TRUE
    /\ Goto(t, "idle")
    /\ UNCHANGED <<mode, state, pin, lastLog, lastRing, ready, update, history>>

\* lock_action raises, whether or not the strike was fired.
StrikeFails(t) ==
    /\ pc[t] = "strike"
    /\ \/ UNCHANGED log
       \/ Len(log) + 1 < MaxLog /\ log' = Append(log, "strike")
    /\ Goto(t, "idle")
    /\ UNCHANGED <<mode, state, detector, update, history>>

-----------------------------------------------------------------------------
(* The Opener, and time.                                                   *)

\* Someone arms or disarms RTO or continuous mode, or the strike releases.
ModeChanges ==
    /\ mode' \in
         CASE mode.lock = "locked" -> {[mode EXCEPT !.lock = "rto"], [mode EXCEPT !.cm = ~mode.cm]}
           [] mode.lock = "rto" -> {[mode EXCEPT !.lock = "locked"]}
           [] OTHER -> {[mode EXCEPT !.lock = "locked", !.ring = 0]}
    /\ UNCHANGED <<log, state, detector, pc, update, history>>

\* A ring is logged, and opens the door when RTO or continuous mode is on.
BellRings ==
    /\ Len(log) < MaxLog
    /\ log' = Append(log, "ring")
    /\ mode' = IF mode.lock = "rto" \/ (mode.lock = "locked" /\ mode.cm)
                 THEN [mode EXCEPT !.lock = "open", !.ring = Len(log')] ELSE mode
    /\ UNCHANGED <<state, detector, pc, update, history>>

\* _on_unsolicited_state: the link is up, in an operation or still warm.
StatePushed ==
    /\ state' = Kept(mode)
    /\ UNCHANGED <<opener, detector, pc, update, history>>

SuppressionEnds ==
    /\ suppressed
    /\ suppressed' = FALSE
    /\ UNCHANGED <<opener, state, pin, lastLog, lastRing, ready, pc, update, history>>

\* 30 s have passed since last_ring.
RingAges ==
    /\ lastRing # "none"
    /\ lastRing' = "none"
    /\ UNCHANGED <<opener, state, pin, lastLog, suppressed, ready, pc, update, history>>

-----------------------------------------------------------------------------
UpdateStep(t) ==
    \/ StateAnswered(t) \/ StateRead(t) \/ UpdateFails(t)
    \/ LogAnswered(t) \/ LogRead(t) \/ NoLogRead(t) \/ LogReadFails(t)

Next ==
    \/ \E t \in Tasks :
          \/ BeginUpdate(t) \/ UpdateStep(t)
          \/ BeginStrike(t) \/ StrikeReturns(t) \/ StrikeFails(t)
    \/ ModeChanges \/ BellRings \/ StatePushed
    \/ SuppressionEnds \/ RingAges

Spec == Init /\ [][Next]_vars

-----------------------------------------------------------------------------
(* Properties.                                                             *)

Updating == {"state", "resume", "log", "entries"}

TypeOK ==
    /\ mode \in Modes
    /\ log \in Seq({"ring", "strike", "echo"}) /\ Len(log) <= MaxLog
    /\ state \in States \cup {NoState}
    /\ pin \in BOOLEAN /\ ready \in BOOLEAN /\ (ready => state # NoState)
    /\ lastLog \in 0 .. Len(log) /\ suppressed \in BOOLEAN
    /\ lastRing \in {"none", "transition", "log"}
    /\ pc \in [Tasks -> Updating \cup {"idle", "strike"}]
    /\ \A t \in Tasks : pc[t] \in Updating <=> updateLock = t
    /\ previous \in [Tasks -> States \cup {NoState}]
    /\ answer \in [Tasks -> Modes \cup {NoAnswer}]
    /\ read \in [Tasks -> 0 .. Len(log)]
    /\ fired \in Seq(1 .. MaxLog) /\ firedByState \in Seq(1 .. MaxLog)

\* A log entry rings the bell at most once and in order, and the entries that
\* were there at the first read never do, although polls and refreshes overlap
\* and the log grows between its answer and its use: "interleaved log reads
\* would double-fire rings" (device.py:120-121), as an old answer used after a
\* newer one takes _last_log_index back.
LogRingsFireOnceInOrder ==
    /\ Increasing(fired)
    /\ \A i \in 1 .. Len(fired) : fired[i] > baseline

\* The strike a ring has triggered is announced at most once by the states read
\* before and after it (device.py:237-274), although pushed states replace the
\* one read and a read one replaces a newer one pushed during the read.
TransitionRingsFireOnce == Increasing(firedByState)

=============================================================================
