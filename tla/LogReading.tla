----------------------------- MODULE LogReading -----------------------------
(***************************************************************************)
(* Reads of the Opener's log (NukiOpenerClient.get_log_entries), on the    *)
(* stream of indications an encrypted connection is: the reassembler       *)
(* (nuki/protocol.py), the dispatch of what it returns                     *)
(* (_on_notification, _handle_message), and the requests with their        *)
(* retries.  A read is two requests, a challenge and the entries; the      *)
(* second is answered with LOG_ENTRY messages, newest first, and a STATUS. *)
(*                                                                         *)
(* A message is a sequence of units of about 20 bytes; its length is in    *)
(* the unit that completes the header.  The operation lock makes reads one *)
(* at a time.  What connects and disconnects otherwise is NukiClient.      *)
(***************************************************************************)
EXTENDS Naturals, Sequences, FiniteSets

CONSTANTS
    Header,       \* units of the header: nonce, authorization, length
    MaxBuffer,    \* _MAX_BUFFER, in units
    Noise,        \* lengths that bytes which are no length may be taken for
    Indications,  \* units in an indication
    Attempts,     \* REQUEST_ATTEMPTS
    Count,        \* entries asked for
    MaxReads,     \* bound: reads
    MaxLosses,    \* bound: indications lost on a link that stays up
    MaxDrops,     \* bound: links lost
    MaxLog        \* bound: entries in the Opener's log

ASSUME SizesAssumption == {Header, MaxBuffer, Attempts} \subseteq Nat \ {0}
ASSUME NoiseAssumption == Noise \subseteq Nat
ASSUME IndicationsAssumption == Indications \subseteq Nat \ {0}
\* All but a unit of a message, and an indication, fit the buffer.
ASSUME BufferAssumption == \A n \in Indications : Header + 1 + n <= MaxBuffer
ASSUME BoundsAssumption == {Count, MaxReads, MaxLosses, MaxDrops, MaxLog} \subseteq Nat
\* At the start the log has room for an entry.
ASSUME LogAssumption == MaxLog # 0

VARIABLES
    \* the radio
    link,        \* a link is up
    wire,        \* units under way to the client
    requests,    \* requests under way to the Opener
    budget,      \* losses and drops left
    \* the Opener
    log,         \* the newest entry
    nonce,       \* the challenge it will accept, 0 if none
    challenges,  \* challenges it has issued
    owed,        \* the STATUS of an earlier lock action is still to come on this link
    \* NukiOpenerClient
    buffer,      \* MessageReassembler._buffer
    noise,       \* the length read where none is
    read,        \* reads begun
    step,        \* "idle", or the request of the read: "challenge", "log"
    at,          \* where that request is: "issue", "write", "wait"
    attempt,     \* its attempt
    answer,      \* the result of _pending.future
    aggregated,  \* _pending.aggregated
    challenge,   \* local of get_log_entries
    result,      \* per read: how it ended
    \* history
    hole,        \* an indication of this link was lost
    garbled,     \* a message of this link could not be decrypted
    served,      \* per read: the entries the Opener answered
    excused      \* reads some of whose messages were lost

radio == <<link, wire, requests, budget, hole>>
opener == <<log, nonce, challenges, owed, served>>
stream == <<buffer, noise, garbled>>
future == <<answer, aggregated>>
reader == <<read, step, at, attempt, challenge, result>>
vars == <<radio, opener, stream, future, reader, excused>>

Reads == 1 .. MaxReads
Unread == [ended |-> FALSE, ok |-> FALSE, by |-> 0, entries |-> <<>>]
Raised == [Unread EXCEPT !.ended = TRUE]
NoAnswer == [is |-> "none", by |-> 0, nonce |-> 0]

-----------------------------------------------------------------------------
(* Messages as units, and the reassembler.                                 *)

\* `read`: whose answer it is, 0 for an earlier lock action; the client cannot tell.
Message(kind, r, n) == [kind |-> kind, read |-> r, n |-> n]
Size(m) == Header + IF m.kind \in {"CHALLENGE", "LOG_ENTRY"} THEN 2 ELSE 1
Units(m) == [i \in 1 .. Size(m) |-> [of |-> m, at |-> i]]

\* _expected_size: whatever is where the length should be is taken for it.
SizeAtHead(buf) ==
    IF buf[Header].at = Header THEN Size(buf[Header].of) ELSE Header + noise
Complete(buf) == Len(buf) >= Header /\ Len(buf) >= SizeAtHead(buf)

\* decode_encrypted: only a message as it was encrypted can be decrypted.
Decodable(raw) == raw = Units(raw[1].of)

\* A round of the loop of feed(), which takes a complete message from the buffer.
TakeMessage(fed) ==
    IF ~Complete(fed.rest) THEN fed
    ELSE LET size == SizeAtHead(fed.rest)
         IN  [rest |-> SubSeq(fed.rest, size + 1, Len(fed.rest)),
              raw |-> Append(fed.raw, SubSeq(fed.rest, 1, size))]

\* The loop: each message has a unit at least.
TakeMessages(buf) ==
    LET fed[i \in 0 .. Len(buf)] ==
            IF i = 0 THEN [rest |-> buf, raw |-> <<>>] ELSE TakeMessage(fed[i - 1])
    IN  fed[Len(buf)]

-----------------------------------------------------------------------------
(* The client: what arrives.                                               *)

Pending == step # "idle" /\ at # "issue"
Expected == IF step = "challenge" THEN "CHALLENGE" ELSE "STATUS"

\* _handle_message on the pending command f; what it does not want is ignored, or is for the
\* state callback or a completion (LockAction, RingDetection).
Handle(f, m) ==
    IF ~Pending \/ f.answer.is # "none" THEN f
    ELSE CASE m.kind = "ERROR_REPORT" -> [f EXCEPT !.answer = [NoAnswer EXCEPT !.is = "error"]]
           [] m.kind = Expected ->
                [f EXCEPT !.answer = [is |-> "ok", by |-> m.read, nonce |-> m.n]]
           [] m.kind = "LOG_ENTRY" /\ step = "log" -> [f EXCEPT !.aggregated = Append(@, m.n)]
           [] OTHER -> f

\* The messages of a notification, one after another.
HandleAll(f, raws) ==
    LET handled[i \in 0 .. Len(raws)] ==
            IF i = 0 THEN f ELSE Handle(handled[i - 1], raws[i][1].of)
    IN  handled[Len(raws)]

\* An undecodable notification that is only dropped.
FailQuietly == UNCHANGED future

\* An undecodable notification is dropped, and ends the pending command with it.
FailPending ==
    /\ answer' = IF Pending /\ answer.is = "none" THEN [NoAnswer EXCEPT !.is = "error"] ELSE answer
    /\ UNCHANGED aggregated

\* _on_notification: one indication; one message that cannot be decoded drops the others too.
Notification(n) ==
    /\ link /\ wire # <<>>
    /\ LET size == IF n < Len(wire) THEN n ELSE Len(wire)
           filled == buffer \o SubSeq(wire, 1, size)
           fed == TakeMessages(filled)
           bad == \E i \in DOMAIN fed.raw : ~Decodable(fed.raw[i])
           handled == HandleAll([answer |-> answer, aggregated |-> aggregated], fed.raw)
       IN  /\ wire' = SubSeq(wire, size + 1, Len(wire))
           /\ buffer' = IF Len(filled) > MaxBuffer THEN <<>> ELSE fed.rest
           /\ IF Len(filled) > MaxBuffer \/ bad
              THEN garbled' = TRUE /\ FailPending
              ELSE /\ answer' = handled.answer /\ aggregated' = handled.aggregated
                   /\ UNCHANGED garbled
    /\ UNCHANGED <<link, requests, budget, hole, opener, noise, reader, excused>>

-----------------------------------------------------------------------------
(* The client: get_log_entries and its requests.                           *)

\* A closed link whose last indications are still delivered.
LinkDownLingering == link' = FALSE /\ requests' = <<>> /\ owed' = FALSE /\ UNCHANGED wire

\* The link is closed or lost, and what was under way on it with it.
LinkDown ==
    /\ link' = FALSE /\ wire' = <<>> /\ requests' = <<>>
    /\ owed' = FALSE

GoTo(request) == step' = request /\ at' = "issue" /\ attempt' = 1
End(how) == result' = [result EXCEPT ![read] = how] /\ GoTo("idle")

Begin ==
    /\ step = "idle" /\ read < MaxReads
    /\ read' = read + 1 /\ GoTo("challenge")
    /\ UNCHANGED <<radio, opener, stream, future, challenge, result, excused>>

\* A new command that takes over what the last attempt collected.
IssueKeeping ==
    /\ step # "idle" /\ at = "issue"
    /\ at' = "write" /\ answer' = NoAnswer /\ UNCHANGED aggregated
    /\ UNCHANGED <<radio, opener, stream, read, step, attempt, challenge, result, excused>>

\* _request_once: a new pending command; messages are for it before it is written.
Issue ==
    /\ step # "idle" /\ at = "issue"
    /\ at' = "write" /\ answer' = NoAnswer /\ aggregated' = <<>>
    /\ UNCHANGED <<radio, opener, stream, read, step, attempt, challenge, result, excused>>

\* The retry of _request, after disconnect(), or its last error.
AttemptFails ==
    IF attempt < Attempts
    THEN /\ attempt' = attempt + 1 /\ at' = "issue"
         /\ LinkDown /\ UNCHANGED <<budget, hole, step, result>>
    ELSE /\ End(Raised) /\ UNCHANGED <<radio, owed>>

Unchanged == UNCHANGED <<log, nonce, challenges, served, stream, future, read, challenge, excused>>

\* A connect() that leaves the reassembler as it was.
NewStreamUnreset == garbled' = FALSE /\ hole' = FALSE /\ UNCHANGED buffer

\* connect(): the reassembler starts anew.
NewStream == buffer' = <<>> /\ garbled' = FALSE /\ hole' = FALSE

Write ==
    /\ step # "idle" /\ at = "write"
    /\ at' = "wait"
    /\ requests' = Append(requests, [kind |-> step, read |-> read, nonce |-> challenge])
    /\ IF link THEN UNCHANGED <<link, hole, stream>>
       ELSE link' = TRUE /\ NewStream /\ UNCHANGED noise
    /\ UNCHANGED <<wire, budget, opener, future, read, step, attempt, challenge, result, excused>>

ConnectFails ==
    /\ step # "idle" /\ at = "write" /\ ~link
    /\ AttemptFails /\ Unchanged

\* A timeout of the first attempt only.
TimesOutOnce ==
    /\ step # "idle" /\ at = "wait" /\ answer.is = "none" /\ attempt = 1
    /\ AttemptFails /\ Unchanged

TimesOut ==
    /\ step # "idle" /\ at = "wait" /\ answer.is = "none"
    /\ AttemptFails /\ Unchanged

\* The future is done: the link was lost, a message was bad, or the answer is there.
LinkWasLost ==
    /\ step # "idle" /\ at = "wait" /\ answer.is = "lost"
    /\ AttemptFails /\ Unchanged

Raise ==
    /\ step # "idle" /\ at = "wait" /\ answer.is = "error"
    /\ End(Raised)
    /\ UNCHANGED <<radio, opener, stream, future, read, challenge, excused>>

ChallengeArrived ==
    /\ step = "challenge" /\ at = "wait" /\ answer.is = "ok"
    /\ challenge' = answer.nonce /\ GoTo("log")
    /\ UNCHANGED <<radio, opener, stream, future, read, result, excused>>

Return ==
    /\ step = "log" /\ at = "wait" /\ answer.is = "ok"
    /\ End([ended |-> TRUE, ok |-> TRUE, by |-> answer.by, entries |-> aggregated])
    /\ UNCHANGED <<radio, opener, stream, future, read, challenge, excused>>

\* _schedule_disconnect: a link nothing uses is closed.
IdleDisconnect ==
    /\ link /\ step = "idle"
    /\ LinkDown
    /\ UNCHANGED <<budget, hole, log, nonce, challenges, served, stream, future, reader, excused>>

-----------------------------------------------------------------------------
(* The radio and the Opener.                                               *)

\* _on_disconnect: the pending command ends with the link.
LinkDrops ==
    /\ link /\ budget.drops > 0
    /\ LinkDown /\ budget' = [budget EXCEPT !.drops = @ - 1]
    /\ answer' = IF Pending /\ answer.is = "none" THEN [NoAnswer EXCEPT !.is = "lost"] ELSE answer
    /\ UNCHANGED <<hole, log, nonce, challenges, served, stream, aggregated, reader, excused>>

\* An indication is lost, and the link stays up.
Lose(n) ==
    /\ link /\ n <= Len(wire) /\ budget.losses > 0
    /\ wire' = SubSeq(wire, n + 1, Len(wire))
    /\ budget' = [budget EXCEPT !.losses = @ - 1] /\ hole' = TRUE
    /\ excused' = excused \cup {wire[i].of.read : i \in 1 .. n}
    /\ UNCHANGED <<link, requests, opener, stream, future, reader>>

\* Messages leave one after another.
Sent(messages) ==
    LET sent[i \in 0 .. Len(messages)] ==
            IF i = 0 THEN <<>> ELSE sent[i - 1] \o Units(messages[i])
    IN  sent[Len(messages)]

Send(messages) == wire' = wire \o Sent(messages)

\* The newest entries, newest first.
Newest == [i \in 1 .. (IF Count < log THEN Count ELSE log) |-> log + 1 - i]

\* A challenge is good for one request.
OpenerAnswers ==
    /\ link /\ requests # <<>>
    /\ LET q == Head(requests)
       IN  \/ /\ q.kind = "challenge"
              /\ challenges' = challenges + 1 /\ nonce' = challenges + 1
              /\ Send(<<Message("CHALLENGE", q.read, challenges + 1)>>)
              /\ UNCHANGED served
           \/ /\ q.kind = "log" /\ q.nonce = nonce
              /\ nonce' = 0 /\ served' = [served EXCEPT ![q.read] = Newest]
              /\ Send([i \in DOMAIN Newest |-> Message("LOG_ENTRY", q.read, Newest[i])]
                        \o <<Message("STATUS", q.read, 0)>>)
              /\ UNCHANGED challenges
           \/ /\ q.kind = "log" /\ q.nonce # nonce
              /\ Send(<<Message("ERROR_REPORT", q.read, 0)>>)
              /\ UNCHANGED <<nonce, challenges, served>>
    /\ requests' = Tail(requests)
    /\ UNCHANGED <<link, budget, hole, log, owed, stream, future, reader, excused>>

\* The COMPLETE of a lock action that had returned at ACCEPTED.
ActionCompletes ==
    /\ link /\ owed /\ owed' = FALSE
    /\ Send(<<Message("STATUS", 0, 0)>>)
    /\ UNCHANGED <<link, requests, budget, hole, log, nonce, challenges, served, stream, future,
                   reader, excused>>

LogGrows ==
    /\ log < MaxLog /\ log' = log + 1
    /\ UNCHANGED <<radio, nonce, challenges, owed, served, stream, future, reader, excused>>

-----------------------------------------------------------------------------
\* At the start the link may be warm from a lock action, whose end is not reported yet.
Init ==
    /\ link \in BOOLEAN /\ owed \in {FALSE, link}
    /\ wire = <<>> /\ requests = <<>> /\ hole = FALSE
    /\ budget = [losses |-> MaxLosses, drops |-> MaxDrops]
    /\ log = MaxLog - 1 /\ nonce = 0 /\ challenges = 0 /\ served = [r \in Reads |-> <<>>]
    /\ buffer = <<>> /\ noise \in Noise /\ garbled = FALSE
    /\ read = 0 /\ step = "idle" /\ at = "issue" /\ attempt = 1
    /\ answer = NoAnswer /\ aggregated = <<>> /\ challenge = 0
    /\ result = [r \in Reads |-> Unread] /\ excused = {}

Client ==
    \/ Issue \/ Write \/ ConnectFails \/ TimesOut \/ LinkWasLost \/ Raise \/ ChallengeArrived
    \/ Return

Next ==
    \/ Client \/ Begin \/ IdleDisconnect \/ OpenerAnswers \/ ActionCompletes \/ LogGrows
    \/ LinkDrops
    \/ \E n \in Indications : Notification(n) \/ Lose(n)

Spec == Init /\ [][Next]_vars

\* The client's task runs and its timeouts expire; nothing else need ever happen.
FairSpec == Spec /\ WF_vars(Client)

-----------------------------------------------------------------------------
(* Properties.                                                             *)

\* What a sequence has.
Elements(s) == {s[i] : i \in DOMAIN s}

TypeOK ==
    /\ link \in BOOLEAN /\ hole \in BOOLEAN /\ garbled \in BOOLEAN /\ owed \in BOOLEAN
    /\ Len(buffer) <= MaxBuffer /\ ~Complete(buffer)
    /\ step \in {"idle", "challenge", "log"} /\ at \in {"issue", "write", "wait"}
    /\ read \in 0 .. MaxReads /\ attempt \in 1 .. Attempts
    /\ answer.is \in {"none", "ok", "error", "lost"}
    /\ challenge \in 0 .. challenges /\ nonce \in 0 .. challenges
    /\ ~link => wire = <<>> /\ requests = <<>>

\* What a read returns is of the Opener's answer to this read, in its order, each entry once,
\* although the rest of an earlier read's answer may still be under way on the link, and may
\* arrive when a new command is pending (client.py:265-279, 389-406, 578-599).
ReadReturnsOwnEntries ==
    \A r \in Reads : result[r].ok =>
        /\ result[r].by \in {0, r}
        /\ Elements(result[r].entries) \subseteq Elements(served[r])
        /\ \A i, j \in DOMAIN result[r].entries :
             i < j => result[r].entries[i] > result[r].entries[j]

\* A read that succeeds returns the whole answer, unless messages of it were lost on the air or
\* its end was the late STATUS of a lock action: what a hole in the stream does to the messages
\* of a later read makes it fail (client.py:240-256, protocol.py:93-119).
NothingMissedSilently ==
    \A r \in Reads :
        (result[r].ok /\ result[r].by = r /\ r \notin excused) => result[r].entries = served[r]

\* Every message of a link on which nothing was lost can be decrypted: the stream of a new link
\* begins at a message, whatever the last one left in the buffer (client.py:170-171).
WholeStreamIsReadable == garbled => hole

\* A read ends, with entries or an exception, however the Opener and the radio behave
\* (client.py:312-371).
ReadEnds == \A r \in Reads : (read = r) ~> result[r].ended
=============================================================================
