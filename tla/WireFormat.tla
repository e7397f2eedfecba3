----------------------------- MODULE WireFormat -----------------------------
(***************************************************************************)
(* Messages as bytes.  While pairing, the Opener's messages reach the      *)
(* client unencrypted, cut into indications: MessageReassembler.feed and   *)
(* decode_plain (nuki/protocol.py) take them apart again.  Afterwards the  *)
(* client parses what decode_encrypted returns, and writes back an         *)
(* advanced configuration it has changed (nuki/messages.py).               *)
(***************************************************************************)
EXTENDS Messages, FiniteSets

CONSTANTS
    Checksum(_),      \* crc16 (Crc16)
    PairingMessages,  \* messages the Opener may send while pairing
    Indications,      \* sizes of the indications the radio cuts the stream into
    MaxBuffer,        \* _MAX_BUFFER
    Payloads,         \* bodies of messages
    Names,            \* names, each a sequence of characters, which are sequences of bytes
    Authenticator, AppId, Nonce,  \* what is around a name in a payload
    Levels,           \* sound levels
    MaxMessages,      \* bound: messages of one pairing
    MaxChanges        \* bound: changes of the advanced configuration

VARIABLES
    \* pairing
    sent,      \* the messages the Opener has framed
    wire,      \* the bytes of the stream not yet indicated
    buffer,    \* MessageReassembler._buffer
    heard,     \* what decode_plain made of the messages that were complete
    spoiled,   \* some bytes of the stream were changed
    \* after pairing
    body,      \* the body last decrypted: its kind and bytes
    built,     \* the last payload built with a name in it
    advanced,  \* the Opener's advanced configuration, <<>> before it was fetched
    change     \* the latest change of it

pairing == <<sent, wire, buffer, heard, spoiled>>
bodies == <<body, built>>
settings == <<advanced, change>>
vars == <<pairing, bodies, settings>>

-----------------------------------------------------------------------------
(* Framing.                                                                *)

\* Numbers of two bytes.
Word == 0 .. 65535

append_crc(data) == data \o <<Checksum(data) % 256, Checksum(data) \div 256>>

\* A received checksum of zero is taken, whatever the data.
Received(message) == message[Len(message) - 1] + 256 * message[Len(message)]
Data(message) == SubSeq(message, 1, Len(message) - 2)

verify_crc(message) ==
    /\ Len(message) >= 3
    /\ Received(message) \in {0, Checksum(Data(message))}

Plain(m) == <<m.command % 256, m.command \div 256>> \o m.payload
encode_plain(m) == append_crc(Plain(m))
\* A message as the Opener may frame it; some firmware leaves the checksum out.
Frames(m) == {encode_plain(m), Plain(m) \o <<0, 0>>}

CommandOf(message) == message[1] + 256 * message[2]

\* decode_plain does not raise; the variant takes any message long enough.
DecodableUnchecked(message) == Len(message) >= 4
Decodable(message) == Len(message) >= 4 /\ verify_crc(message)

\* `unchecked`: the message has no checksum.
decode_plain(message) ==
    [command |-> CommandOf(message), payload |-> Slice(message, 2, Len(message) - 2),
     unchecked |-> Received(message) = 0]

\* _PLAIN_MESSAGE_SIZES
PlainSizes == [command \in {3, 4, 7, 14, 18} |->
    CASE command \in {3, 4} -> 36 [] command = 7 -> 88 [] command = 14 -> 5 [] command = 18 -> 7]

\* The size of the message at the head of the buffer, 0 if it cannot be told yet.
ExpectedSize(buf) ==
    IF Len(buf) < 2 THEN 0
    ELSE IF CommandOf(buf) \in DOMAIN PlainSizes THEN PlainSizes[CommandOf(buf)]
    ELSE LET End(e) == verify_crc(SubSeq(buf, 1, e))
         IN  IF \A e \in 5 .. Len(buf) : ~End(e) THEN 0
             ELSE CHOOSE e \in 5 .. Len(buf) : End(e) /\ \A f \in 5 .. e - 1 : ~End(f)

\* Whether a message is complete at the head of a buffer, wrong by one byte.
CompleteTooLate(buf, size) == size > 0 /\ Len(buf) > size
Complete(buf, size) == size > 0 /\ Len(buf) >= size

\* A round of the loop of feed(), which takes a complete message from the buffer.
TakeMessage(fed) ==
    LET size == ExpectedSize(fed.rest)
    IN  IF ~Complete(fed.rest, size) THEN fed
        ELSE [rest |-> SubSeq(fed.rest, size + 1, Len(fed.rest)),
              raw |-> Append(fed.raw, SubSeq(fed.rest, 1, size))]

\* The loop: each message has five bytes at least.
TakeMessages(buf) ==
    LET fed[i \in 0 .. Len(buf) \div 5] ==
            IF i = 0 THEN [rest |-> buf, raw |-> <<>>] ELSE TakeMessage(fed[i - 1])
    IN  fed[Len(buf) \div 5]

ASSUME PairingAssumption == PairingMessages \subseteq [command : Word, payload : Seq(Byte)]
ASSUME ChecksumAssumption == \A m \in PairingMessages : Checksum(Plain(m)) \in Word
\* A message of a type the client knows has the size it expects; one of a type it does not know
\* has something to say, and none of its beginnings looks like a message.
ASSUME SizesAssumption ==
    \A m \in PairingMessages :
        IF m.command \in DOMAIN PlainSizes THEN Len(m.payload) + 4 = PlainSizes[m.command]
        ELSE /\ m.payload # <<>>
             /\ \A message \in Frames(m), e \in 5 .. Len(m.payload) + 3 :
                   ~verify_crc(SubSeq(message, 1, e))
\* All but a byte of a message, and an indication, fit the buffer.
ASSUME BufferAssumption ==
    /\ MaxBuffer \in Nat /\ Indications \subseteq Nat \ {0}
    /\ \A m \in PairingMessages, n \in Indications : Len(m.payload) + 3 + n <= MaxBuffer

NotPairing == sent = <<>>

Send(m, message) ==
    /\ Len(sent) < MaxMessages /\ ~spoiled
    /\ body.kind = "none" /\ built.kind = "none" /\ change.field = "none"
    /\ sent' = Append(sent, m)
    /\ wire' = wire \o message
    /\ UNCHANGED <<buffer, heard, spoiled, bodies, settings>>

Flip(byte, bit) == IF (byte \div bit) % 2 = 1 THEN byte - bit ELSE byte + bit

\* One burst of at most 16 bits, in the only message of the stream: a bit, and none or all of
\* those of the next byte.
Spoil(at, bit, all) ==
    /\ ~spoiled /\ Len(sent) = 1 /\ buffer = <<>> /\ at < Len(wire)
    /\ wire' = [wire EXCEPT ![at] = Flip(@, bit), ![at + 1] = IF all THEN 255 - @ ELSE @]
    /\ spoiled' = TRUE
    /\ UNCHANGED <<sent, buffer, heard, bodies, settings>>

\* An indication: feed(), which gives up when the buffer overflows, and decode_plain of each
\* message that is complete; if one cannot be decoded, none is heard.
Indicate(n) ==
    /\ wire # <<>>
    /\ LET filled == buffer \o Slice(wire, 0, n)
           fed == TakeMessages(filled)
           overflow == Len(filled) > MaxBuffer
           bad == \E i \in DOMAIN fed.raw : ~Decodable(fed.raw[i])
       IN  /\ buffer' = IF overflow THEN <<>> ELSE fed.rest
           /\ heard' = IF overflow \/ bad THEN heard
                       ELSE heard \o [i \in DOMAIN fed.raw |-> decode_plain(fed.raw[i])]
    /\ wire' = Slice(wire, n, Len(wire))
    /\ UNCHANGED <<sent, spoiled, bodies, settings>>

-----------------------------------------------------------------------------
(* Bodies.                                                                 *)

ASSUME BodiesAssumption ==
    /\ Payloads \subseteq Seq(Byte) /\ Levels \subseteq Byte
    /\ \A name \in Names : name \in Seq(Seq(Byte \ {0}))
    /\ {Authenticator, AppId, Nonce} \subseteq Seq(Byte)
    /\ Len(Authenticator) = 32 /\ Len(AppId) = 4 /\ Len(Nonce) = 32

Kinds == {"OPENER_STATES", "CONFIG", "ADVANCED_CONFIG", "BATTERY_REPORT", "ERROR_REPORT",
          "LOG_ENTRY", "LOG_ENTRY_COUNT", "AUTHORIZATION_ID", "STATUS", "CHALLENGE", "PUBLIC_KEY"}

\* A body has been decrypted.
Decrypted(kind, payload) ==
    /\ NotPairing /\ change.field = "none" /\ built.kind = "none" /\ body.kind = "none"
    /\ body' = [kind |-> kind, bytes |-> payload]
    /\ UNCHANGED <<built, settings, pairing>>

\* pair() and lock_action() put a name into a payload.
BuildAuthorization(name) ==
    /\ NotPairing /\ change.field = "none" /\ body.kind = "none" /\ built.kind = "none"
    /\ built' = [kind |-> "AUTHORIZATION_DATA", name |-> name,
                 bytes |-> build_authorization_data(Authenticator, 1, AppId, name, Nonce)]
    /\ UNCHANGED <<body, settings, pairing>>

BuildLockAction(name) ==
    /\ NotPairing /\ change.field = "none" /\ body.kind = "none" /\ built.kind = "none"
    /\ built' = [kind |-> "LOCK_ACTION", name |-> name,
                 bytes |-> build_lock_action(3, AppId, 0, name, Nonce)]
    /\ UNCHANGED <<body, settings, pairing>>

\* switch.py, _async_set_bit; one bit of the mask.
HasBit(mask, bit) == (mask \div bit) % 2 = 1
SetBit(mask, bit, enabled) == IF HasBit(mask, bit) = enabled THEN mask ELSE Flip(mask, bit)

\* The value a switch or the volume gives to its field; `bit` is the switch's.
Changes(current) ==
    {[field |-> "sound_level", value |-> <<level>>, bit |-> 0] : level \in Levels}
        \cup {[field |-> "doorbell_suppression", bit |-> bit,
               value |-> <<SetBit(current.doorbell_suppression[1], bit, on)>>] :
                bit \in {1, 2, 4}, on \in BOOLEAN}

\* change_advanced_config: what was fetched, with one field replaced, is written, and the
\* Opener stores the bytes before the challenge.  A switch starts from the mask in the cache,
\* which is the fetched one here: nobody else changes it, as others do in OpenerSettings.
WriteBack ==
    /\ NotPairing /\ body.kind = "none" /\ built.kind = "none"
    /\ change.count < MaxChanges
    /\ \E fetched \in IF advanced = <<>> THEN Payloads ELSE {advanced} :
         /\ Accepts("ADVANCED_CONFIG", fetched)
         /\ LET current == Parse("ADVANCED_CONFIG", fetched)
            IN  \E c \in Changes(current) :
                  LET message == build_set_advanced_config([current EXCEPT ![c.field] = c.value],
                                                           Nonce, <<57, 48>>)
                  IN  /\ advanced' = Slice(message, 0, Len(message) - 34)
                      /\ change' = [field |-> c.field, value |-> c.value, bit |-> c.bit,
                                    before |-> fetched, count |-> change.count + 1]
    /\ UNCHANGED <<bodies, pairing>>

Init ==
    /\ sent = <<>> /\ wire = <<>> /\ buffer = <<>> /\ heard = <<>> /\ spoiled = FALSE
    /\ body = [kind |-> "none", bytes |-> <<>>]
    /\ built = [kind |-> "none", name |-> <<>>, bytes |-> <<>>]
    /\ advanced = <<>>
    /\ change = [field |-> "none", value |-> <<>>, bit |-> 0, before |-> <<>>, count |-> 0]

Next ==
    \/ \E m \in PairingMessages : \E message \in Frames(m) : Send(m, message)
    \/ \E at \in DOMAIN wire, bit \in {1, 128}, all \in BOOLEAN : Spoil(at, bit, all)
    \/ \E n \in Indications : Indicate(n)
    \/ \E kind \in Kinds, payload \in Payloads : Decrypted(kind, payload)
    \/ \E name \in Names : BuildAuthorization(name) \/ BuildLockAction(name)
    \/ WriteBack

Spec == Init /\ [][Next]_vars

-----------------------------------------------------------------------------
(* Properties.                                                             *)

\* However the radio cuts the stream, the messages come out as they were framed, in order,
\* and nothing is left over (protocol.py:93-119).
FramesArriveWhole ==
    ~spoiled =>
        /\ Len(heard) <= Len(sent)
        /\ \A i \in DOMAIN heard :
             heard[i].command = sent[i].command /\ heard[i].payload = sent[i].payload
        /\ wire = <<>> => buffer = <<>> /\ Len(heard) = Len(sent)

\* A message some bytes of which were changed (one burst of 16 bits) is never taken for
\* another, unless its checksum was made zero (protocol.py:59-65, crc.py:35-45).
DamageIsNoticed ==
    \A i \in DOMAIN heard :
        heard[i].unchecked \/
            [command |-> heard[i].command, payload |-> heard[i].payload] \in ToSet(sent)

\* A payload the parser accepts, of whatever length, is never read past its end; the bytes a
\* newer firmware appends change no field that was there without them (messages.py:3-5).
FirmwareMayGrow ==
    (body.kind # "none" /\ Accepts(body.kind, body.bytes)) =>
        LET fields == Layout(body.kind, body.bytes).fields
            values == Parse(body.kind, body.bytes)
        IN  \A name \in DOMAIN fields :
                /\ values[name] # <<Missing>>
                /\ \A n \in 0 .. Len(body.bytes) :
                     LET older == Slice(body.bytes, 0, n)
                     IN  (Accepts(body.kind, older) /\ n >= fields[name].needs) =>
                             Parse(body.kind, older)[name] = values[name]

\* Writing a configuration back changes the field that was asked for and no other: what the
\* Opener stores differs in the bytes of that field only, but for a flag it held as another
\* number than one; and in a mask, the bit of the switch (device.py:183-194,
\* messages.py:173-178, switch.py:190-196).
WriteBackKeepsOthers ==
    change.field # "none" =>
        LET old == Parse("ADVANCED_CONFIG", change.before)
            place == AdvancedConfig.fields[change.field]
        IN  /\ Len(advanced) = 25
            /\ Parse("ADVANCED_CONFIG", advanced) = [old EXCEPT ![change.field] = change.value]
            /\ \A i \in 1 .. 25 :
                 \/ advanced[i] = change.before[i]
                 \/ i - 1 \in place.from .. place.from + place.n - 1
                 \/ change.before[i] > 1 /\ advanced[i] = 1
            /\ change.bit # 0 =>
                 \A bit \in {1, 2, 4, 8, 16, 32, 64, 128} \ {change.bit} :
                     HasBit(change.value[1], bit) = HasBit(old.doorbell_suppression[1], bit)

\* A name of any characters keeps its field, so that what follows it is where the Opener
\* looks for it, and what of the name fits is there (messages.py:54-57, 462-492).
NamesKeepTheirPlace ==
    /\ built.kind = "AUTHORIZATION_DATA" =>
        /\ Len(built.bytes) = 101 /\ Slice(built.bytes, 69, 101) = Nonce
        /\ IsPrefix(Strip(Slice(built.bytes, 37, 69)), Utf8(built.name))
        /\ Len(Utf8(built.name)) <= 32 => Strip(Slice(built.bytes, 37, 69)) = Utf8(built.name)
    /\ built.kind = "LOCK_ACTION" =>
        LET size == IF built.name = <<>> THEN 38 ELSE 58
        IN  Len(built.bytes) = size /\ Slice(built.bytes, size - 32, size) = Nonce
=============================================================================
