------------------------------ MODULE Messages ------------------------------
(***************************************************************************)
(* The bodies of the messages (nuki/messages.py): where each field is in a *)
(* payload, what its bytes are read as, and how the client's own payloads  *)
(* are put together.                                                       *)
(*                                                                         *)
(* The value of a field is a sequence of bytes, little end first for an    *)
(* integer: <<>> is None, and <<Missing>> what reading past the end of the *)
(* payload gives.  A member of an enumeration is its number, known or not  *)
(* (const.py, _TolerantEnum).                                              *)
(***************************************************************************)
EXTENDS Integers, Sequences, SequencesExt

Byte == 0 .. 255
None == <<>>
Missing == 256

-----------------------------------------------------------------------------
(* Reading.                                                                *)

\* payload[from:to], which Python cuts at the end of the payload
Slice(payload, from, to) ==
    SubSeq(payload, from + 1, IF to < Len(payload) THEN to ELSE Len(payload))

Two(b, i) == b[i] + 256 * b[i + 1]
Leap(year) == year % 4 = 0 /\ (year % 100 # 0 \/ year % 400 = 0)
DaysIn(year, month) ==
    CASE month = 2 -> IF Leap(year) THEN 29 ELSE 28
      [] month \in {4, 6, 9, 11} -> 30
      [] OTHER -> 31

\* _parse_datetime; the Opener sends zeroes when its clock was never set.
IsDate(b) ==
    /\ Two(b, 1) \in 1 .. 9999
    /\ b[3] \in 1 .. 12
    /\ b[4] \in 1 .. DaysIn(Two(b, 1), b[3])
    /\ b[5] < 24 /\ b[6] < 60 /\ b[7] < 60

Strip(name) == SubSeq(name, 1, SelectLastInSeq(name, LAMBDA byte : byte # 0))

ReadAs(kind, b) ==
    CASE kind = "bool" -> <<IF b[1] # 0 THEN 1 ELSE 0>>
      [] kind = "bit0" -> <<b[1] % 2>>
      [] kind = "bit1" -> <<(b[1] \div 2) % 2>>
      [] kind = "date" -> IF IsDate(b) THEN b ELSE None
      [] kind = "name" -> Strip(b)
      [] kind = "raw" -> b

\* A field of n bytes at an offset, which is read if the payload has `needs` bytes.
Field(from, n, kind) == [from |-> from, n |-> n, kind |-> kind, needs |-> 0]
Raw(from, n) == Field(from, n, "raw")
\* A flag of which only the lowest bit counts, as in a state.
FlagAsBit(from) == Field(from, 1, "bit0")
Flag(from) == Field(from, 1, "bool")
If(needs, field) == [field EXCEPT !.needs = needs]

Read(field, payload) ==
    IF Len(payload) < field.needs THEN None
    ELSE IF Len(payload) < field.from + field.n THEN <<Missing>>
    ELSE ReadAs(field.kind, Slice(payload, field.from, field.from + field.n))

-----------------------------------------------------------------------------
(* The messages the Opener sends: the size _require asks for, the fields.  *)

OpenerState == [size |-> 13, fields |-> [
    nuki_state |-> Raw(0, 1), lock_state |-> Raw(1, 1), trigger |-> Raw(2, 1),
    current_time |-> Field(3, 7, "date"), timezone_offset_minutes |-> Raw(10, 2),
    battery_critical |-> Field(12, 1, "bit0"),
    config_update_count |-> If(14, Raw(13, 1)), ring_to_open_timer |-> If(15, Raw(14, 1)),
    last_lock_action |-> If(16, Raw(15, 1)),
    last_lock_action_trigger |-> If(17, Raw(16, 1)),
    last_lock_action_completion_status |-> If(18, Raw(17, 1)),
    door_sensor_state |-> If(19, Raw(18, 1))]]

OpenerConfig == [size |-> 72, fields |-> [
    nuki_id |-> Raw(0, 4), name |-> Field(4, 32, "name"), latitude |-> Raw(36, 4),
    longitude |-> Raw(40, 4), capabilities |-> Raw(44, 1), pairing_enabled |-> Flag(45),
    button_enabled |-> Flag(46), led_enabled |-> Flag(47),
    current_time |-> Field(48, 7, "date"), timezone_offset_minutes |-> Raw(55, 2),
    dst_mode |-> Raw(57, 1), has_fob |-> Flag(58), fob_action_1 |-> Raw(59, 1),
    fob_action_2 |-> Raw(60, 1), fob_action_3 |-> Raw(61, 1), operating_mode |-> Raw(62, 1),
    advertising_mode |-> Raw(63, 1), has_keypad |-> Flag(64), firmware_version |-> Raw(65, 3),
    hardware_revision |-> Raw(68, 2), timezone_id |-> Raw(70, 2)]]

BatteryReport == [size |-> 17, fields |-> [
    battery_drain |-> Raw(0, 2), battery_voltage_mv |-> Raw(2, 2),
    battery_critical |-> Field(4, 1, "bit0"), lock_action |-> Raw(5, 1),
    start_voltage_mv |-> Raw(6, 2), lowest_voltage_mv |-> Raw(8, 2),
    lock_distance |-> Raw(10, 2), start_temperature |-> Raw(12, 1),
    max_turn_current |-> Raw(13, 2), battery_resistance |-> Raw(15, 2)]]

ErrorReport == [size |-> 3, fields |-> [error_code |-> Raw(0, 1), command |-> Raw(1, 2)]]

LogEntryCount == [size |-> 3, fields |-> [logging_enabled |-> Flag(0), count |-> Raw(1, 2)]]

AuthorizationId == [size |-> 84, fields |-> [
    authenticator |-> Raw(0, 32), auth_id |-> Raw(32, 4), uuid |-> Raw(36, 16),
    nonce |-> Raw(52, 32)]]

Status == [size |-> 1, fields |-> [status |-> Raw(0, 1)]]
Challenge == [size |-> 32, fields |-> [nonce |-> Raw(0, 32)]]
PublicKey == [size |-> 32, fields |-> [key |-> Raw(0, 32)]]

\* The details of a ring, in an entry long enough to have them.
Doorbell(needs) == [
    ring_to_open_activated |-> If(needs, Field(48, 1, "bit0")),
    continuous_mode_activated |-> If(needs, Field(48, 1, "bit1")),
    source |-> If(needs, Raw(49, 1)), geofence_active |-> If(needs, Flag(50)),
    doorbell_suppressed |-> If(needs, Flag(51)), sound_id |-> If(needs, Raw(52, 1)),
    completion_status |-> If(needs, Raw(53, 1)), code_id |-> If(needs, Raw(54, 2))]

LogEntryHeader == [size |-> 48, fields |-> [
    index |-> Raw(0, 4), timestamp |-> Field(4, 7, "date"), auth_id |-> Raw(11, 4),
    name |-> Field(15, 32, "name"), type |-> Raw(47, 1)]]

DoorbellRecognition == 6

\* The fields of two tables.
Both(fields, more) ==
    [name \in DOMAIN fields \cup DOMAIN more |->
        IF name \in DOMAIN fields THEN fields[name] ELSE more[name]]

\* A ring has its details; `data`, the rest of any entry, is not a field here.
LogEntry(payload) ==
    [size |-> 48, fields |-> Both(LogEntryHeader.fields,
        IF payload[48] = DoorbellRecognition THEN Doorbell(48 + 8) ELSE <<>>)]

AdvancedConfig == [size |-> 25, fields |-> [
    intercom_id |-> Raw(0, 2), bus_mode_switch |-> Raw(2, 1),
    short_circuit_duration_ms |-> Raw(3, 2), electric_strike_delay_ms |-> Raw(5, 2),
    random_electric_strike_delay |-> Flag(7), electric_strike_duration_ms |-> Raw(8, 2),
    disable_rto_after_ring |-> Flag(10), rto_timeout_minutes |-> Raw(11, 1),
    doorbell_suppression |-> Raw(12, 1), doorbell_suppression_duration_ms |-> Raw(13, 2),
    sound_ring |-> Raw(15, 1), sound_open |-> Raw(16, 1), sound_rto |-> Raw(17, 1),
    sound_cm |-> Raw(18, 1), sound_confirmation |-> Raw(19, 1), sound_level |-> Raw(20, 1),
    single_button_press_action |-> Raw(21, 1), double_button_press_action |-> Raw(22, 1),
    battery_type |-> Raw(23, 1), automatic_battery_type_detection |-> Flag(24)]]

Layout(kind, payload) ==
    CASE kind = "OPENER_STATES" -> OpenerState
      [] kind = "CONFIG" -> OpenerConfig
      [] kind = "ADVANCED_CONFIG" -> AdvancedConfig
      [] kind = "BATTERY_REPORT" -> BatteryReport
      [] kind = "ERROR_REPORT" -> ErrorReport
      [] kind = "LOG_ENTRY" -> IF Len(payload) < 48 THEN LogEntryHeader ELSE LogEntry(payload)
      [] kind = "LOG_ENTRY_COUNT" -> LogEntryCount
      [] kind = "AUTHORIZATION_ID" -> AuthorizationId
      [] kind = "STATUS" -> Status
      [] kind = "CHALLENGE" -> Challenge
      [] kind = "PUBLIC_KEY" -> PublicKey

\* _require that lets a payload pass which is one byte short.
RequireAlmost(payload, size) == Len(payload) >= size - 1
Require(payload, size) == Len(payload) >= size

Accepts(kind, payload) == Require(payload, Layout(kind, payload).size)

Parse(kind, payload) ==
    LET fields == Layout(kind, payload).fields
    IN  [name \in DOMAIN fields |-> Read(fields[name], payload)]

-----------------------------------------------------------------------------
(* Writing.                                                                *)

\* struct.pack: the members' bytes one after another, without padding.
serialize(c) ==
    c.intercom_id \o c.bus_mode_switch \o c.short_circuit_duration_ms
        \o c.electric_strike_delay_ms \o c.random_electric_strike_delay
        \o c.electric_strike_duration_ms \o c.disable_rto_after_ring \o c.rto_timeout_minutes
        \o c.doorbell_suppression \o c.doorbell_suppression_duration_ms
        \o c.sound_ring \o c.sound_open \o c.sound_rto \o c.sound_cm
        \o c.sound_confirmation \o c.sound_level \o c.single_button_press_action
        \o c.double_button_press_action \o c.battery_type
        \o c.automatic_battery_type_detection

\* A name is a sequence of characters, a character the sequence of its bytes in UTF-8.
Utf8(name) == FlattenSeq(name)
Zeros(n) == [i \in 1 .. n |-> 0]
Padded(bytes, length) == bytes \o Zeros(length - Len(bytes))

\* encode_name that cuts off characters instead of bytes.
encode_name_by_character(name, length) ==
    LET bytes == Utf8(Slice(name, 0, length))
    IN  IF Len(bytes) < length THEN Padded(bytes, length) ELSE bytes

encode_name(name, length) == Padded(Slice(Utf8(name), 0, length), length)

build_lock_action(action, app_id, flags, name_suffix, challenge) ==
    <<action>> \o app_id \o <<flags>>
        \o (IF name_suffix = <<>> THEN <<>> ELSE encode_name(name_suffix, 20)) \o challenge

build_authorization_data(authenticator, client_type, app_id, name, client_nonce) ==
    authenticator \o <<client_type>> \o app_id \o encode_name(name, 32) \o client_nonce

build_set_advanced_config(config, challenge, pin) == serialize(config) \o challenge \o pin
=============================================================================
