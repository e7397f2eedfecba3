-------------------------- MODULE LockActionProofs --------------------------
(***************************************************************************)
(* LockAction implements LockActionPromise, and applies a setting once, for *)
(* any number of calls, attempts, nonces and notifications.                *)
(*                                                                         *)
(* Two arguments meet in the inductive invariant.  How often a call can be  *)
(* performed is counted in nonces: a round has one, and once the Opener has *)
(* taken it no copy of the request under way is good (Rounds, Spent).  What *)
(* a status means is carried along with it, from the Opener over the radio  *)
(* and through the future or the completion queue: each is of this call, or *)
(* the call began on a link that still had one to bring (Truthful, Good).   *)
(***************************************************************************)
EXTENDS LockAction, SequenceTheorems, TLAPS

\* Calls before the latest have returned, those after it were never made.
Serial ==
    /\ phase # "idle" => call > 0
    /\ \A c \in Calls :
         /\ c < call => result[c] \in Promise!Returns
         /\ c > call => result[c] = "new" /\ executed[c] = 0
         /\ c = call => IF phase = "idle" THEN result[c] \in Promise!Returns
                                          ELSE result[c] = "called"

\* The Opener accepts a nonce it has generated last, and once.
InFlight == toDevice.kind \in {"action", "setting"}
Usable(n) == n = deviceNonce

\* A round has one nonce, and the request under way is of the latest call.
Rounds ==
    /\ deviceNonce <= lastNonce
    /\ phase = "challenge" => executed[call] <= round /\ ~InFlight
    /\ phase \in {"action", "completion"} =>
         /\ nonce \in 1 .. lastNonce
         /\ executed[call] <= round + 1
         /\ Usable(nonce) => executed[call] <= round
         /\ InFlight => toDevice.nonce = nonce
    /\ InFlight =>
         /\ call > 0 /\ toDevice.call = call
         /\ toDevice.nonce \in 1 .. lastNonce
         /\ Usable(toDevice.nonce) => executed[call] <= 1
    /\ kind = "setting" \/ phase = "idle" => round = 0

\* Two rounds, at most, for each call.
Spent == \A c \in Calls : executed[c] <= 2

\* The call a status can be of: the latest, or an earlier one if the latest is doubtful.
Answers(c) == c \in Calls /\ (c = call \/ call \in doubtful)

\* What a notification says is so.
Truthful(m) ==
    /\ m.kind = "challenge" => m.nonce \in 1 .. lastNonce
    /\ m.kind = "accepted" => Answers(m.call) /\ executed[m.call] > 0
    /\ m.kind = "complete" => Answers(m.call) /\ m.call \in finished

Notifications ==
    /\ \A i \in 1 .. Len(toClient) : Truthful(toClient[i])
    /\ \A c \in running : Answers(c) /\ executed[c] > 0

\* The status the latest call may return.
Good(status) ==
    \/ call \in doubtful
    \/ status = "accepted" /\ executed[call] > 0
    \/ status = "complete" /\ call \in finished

\* What has reached the call: the result of its future, and the completion queue.
Received ==
    /\ pending \in {"answered", "raised", "waiting", "failed"} => phase \in {"challenge", "action"}
    /\ pending = "raised" => response.kind \in Errors
    /\ pending = "answered" /\ phase = "challenge" => response.nonce \in 1 .. lastNonce
    /\ pending = "answered" /\ phase = "action" =>
         response.kind \in Statuses /\ Good(response.kind)
    /\ phase = "completion" => Good("accepted")
    /\ phase \in {"idle", "challenge"} => completion = <<>>
    /\ \A i \in 1 .. Len(completion) : completion[i].kind = "complete" => Good("complete")

IndInv ==
    /\ TypeOK /\ Serial
    /\ Rounds /\ Spent
    /\ Notifications /\ Received

USE NumCallsAssumption, AttemptsAssumption, QueueCapAssumption, NoncesAssumption,
    NotificationsAssumption DEF Calls

-----------------------------------------------------------------------------
(* Messages, and what sending one leaves.                                  *)

LEMMA MessageType ==
    ASSUME NEW k \in MessageKinds, NEW n \in Nat, NEW c \in Nat
    PROVE  Message(k, n, c) \in Messages
  BY DEF Message, Messages

LEMMA StartingValues ==
    /\ NoMessage \in Messages /\ Lost \in Messages
    /\ <<>> \in Seq(Messages) /\ 0 \in 0 .. RequestAttempts - 1
  BY MessageType DEF NoMessage, Lost, MessageKinds

\* A request goes out or does not; what else was on its way stays, or is lost with its link.
LEMMA SendEffect ==
    ASSUME NEW m \in Messages, TypeOK, Send(m) \/ (Reconnect(m) /\ response' = NoMessage)
    PROVE  /\ pending' \in {"waiting", "failed"} /\ response' = NoMessage
           /\ link' \in {"up", "down"} /\ toDevice' \in {m, NoMessage}
           /\ \/ toClient' = toClient /\ running' = running
              \/ toClient' = <<>> /\ running' = {}
           /\ link = "down" => toClient' = <<>> /\ running' = {}
           /\ toDevice' \in Messages /\ toClient' \in Seq(Messages) /\ running' \subseteq Calls
  BY StartingValues DEF Send, Reconnect, TypeOK

\* What is true of the latest call stays true while it is the latest.
LEMMA TruthStays ==
    ASSUME TypeOK, UNCHANGED <<call, doubtful>>, lastNonce' \in Nat, lastNonce <= lastNonce',
           finished \subseteq finished',
           \A c \in Calls : executed[c] > 0 => executed'[c] > 0,
           NEW m \in Messages, Truthful(m)
    PROVE  Truthful(m)'
  BY DEF Truthful, Answers, Messages, TypeOK

\* An item is queued: a COMPLETE only if the call may return it.
LEMMA QueueKeeps ==
    ASSUME TypeOK, Received, NEW m \in Messages,
           m.kind = "complete" => Good("complete"),
           completion' = completion \/ completion' = Append(completion, m)
    PROVE  /\ completion' \in Seq(Messages)
           /\ \A i \in 1 .. Len(completion') : completion'[i].kind = "complete" => Good("complete")
<1>1. CASE completion' = Append(completion, m)
  <2>1. /\ completion' \in Seq(Messages) /\ Len(completion') = Len(completion) + 1
        /\ \A i \in 1 .. Len(completion) : completion'[i] = completion[i]
        /\ completion'[Len(completion) + 1] = m
    BY <1>1, AppendProperties DEF TypeOK
  <2>2. Len(completion) \in Nat /\ completion \in Seq(Messages)
    BY DEF TypeOK
  <2> QED  BY <2>1, <2>2 DEF Received, Good
<1>2. CASE completion' = completion
  BY <1>2 DEF Received, TypeOK
<1> QED  BY <1>1, <1>2

-----------------------------------------------------------------------------
(* The inductive invariant.                                                *)

LEMMA InitIndInv == Init => IndInv
<1> SUFFICES ASSUME Init PROVE IndInv
  OBVIOUS
<1> USE DEF Init
<1>1. TypeOK
  BY StartingValues DEF TypeOK, Kinds
<1>2. Serial
  BY DEF Serial
<1>3. Rounds /\ Spent
  BY DEF Rounds, Spent, InFlight, NoMessage, Message, Usable
<1>4. Notifications /\ Received
  BY DEF Notifications, Received, Good
<1> QED  BY <1>1, <1>2, <1>3, <1>4 DEF IndInv

\* Every return keeps the invariant.
LEMMA ReturnKeeps ==
    ASSUME IndInv, phase # "idle", NEW r \in {"accepted", "complete", "error"}, Return(r)
    PROVE  IndInv'
<1> USE DEF IndInv, Return
<1>1. call \in Calls
  BY DEF Serial, TypeOK
<1>2. TypeOK'
  <2>1. result' \in [Calls -> {"new", "called", "accepted", "complete", "error"}]
    BY DEF TypeOK
  <2>2. response' \in Messages /\ completion' \in Seq(Messages)
    BY StartingValues
  <2>3. attempt' \in 0 .. RequestAttempts - 1
    OBVIOUS
  <2> QED  BY <2>1, <2>2, <2>3 DEF TypeOK, opener
<1>3. Serial'
  BY <1>1 DEF Serial, TypeOK, opener, Promise!Returns
<1>4. Rounds' /\ Spent'
  BY <1>1 DEF Rounds, Spent, InFlight, Usable, opener, TypeOK
<1>5. Notifications'
  BY DEF Notifications, Truthful, Answers, opener
<1>6. Received'
  BY DEF Received
<1> QED  BY <1>2, <1>3, <1>4, <1>5, <1>6

\* A first or second round that begins with a request for a challenge.
LEMMA SecondRoundKeeps ==
    ASSUME IndInv, phase \in {"action", "completion"}, SecondRound
    PROVE  IndInv'
<1> USE DEF IndInv, SecondRound
<1>1. call \in Calls /\ ChallengeRequest \in Messages
  BY MessageType DEF Serial, TypeOK, ChallengeRequest, MessageKinds
<1>2. /\ pending' \in {"waiting", "failed"} /\ response' = NoMessage
      /\ link' \in {"up", "down"} /\ toDevice' \in {ChallengeRequest, NoMessage}
      /\ \/ toClient' = toClient /\ running' = running
         \/ toClient' = <<>> /\ running' = {}
      /\ toDevice' \in Messages /\ toClient' \in Seq(Messages) /\ running' \subseteq Calls
  BY <1>1, SendEffect
<1>3. TypeOK'
  BY <1>1, <1>2, StartingValues DEF TypeOK, opener
<1>4. Serial'
  BY DEF Serial, opener
<1>5. Rounds' /\ Spent'
  BY <1>1, <1>2 DEF Rounds, Spent, InFlight, Usable, opener, ChallengeRequest, NoMessage, Message,
     TypeOK
<1>6. Notifications'
  BY <1>2 DEF Notifications, Truthful, Answers, opener
<1>7. Received'
  BY <1>2 DEF Received
<1> QED  BY <1>3, <1>4, <1>5, <1>6, <1>7

LEMMA RaiseErrorKeeps ==
    ASSUME IndInv, phase \in {"action", "completion"}, NEW e, RaiseError(e)
    PROVE  IndInv'
  BY ReturnKeeps, SecondRoundKeeps DEF RaiseError

LEMMA BeginKeeps == ASSUME IndInv, Begin PROVE IndInv'
<1> USE DEF IndInv, Begin
<1> DEFINE request == Message("challenge_request", 0, call + 1)
<1>1. call' \in Calls /\ request \in Messages
  BY MessageType DEF TypeOK, MessageKinds
<1>2. /\ pending' \in {"waiting", "failed"} /\ response' = NoMessage
      /\ link' \in {"up", "down"} /\ toDevice' \in {request, NoMessage}
      /\ \/ toClient' = toClient /\ running' = running
         \/ toClient' = <<>> /\ running' = {}
      /\ link = "down" => toClient' = <<>> /\ running' = {}
      /\ toDevice' \in Messages /\ toClient' \in Seq(Messages) /\ running' \subseteq Calls
  BY <1>1, SendEffect
<1>3. TypeOK'
  BY <1>1, <1>2, StartingValues DEF TypeOK, opener
<1>4. Serial'
  <2>1. \A c \in Calls : c < call' => result'[c] = result[c] /\ result[c] \in Promise!Returns
    BY DEF Serial, TypeOK
  <2>2. \A c \in Calls : c > call' => result'[c] = "new" /\ executed'[c] = 0
    BY DEF Serial, TypeOK, opener
  <2>3. result'[call'] = "called" /\ phase' # "idle" /\ call' > 0
    BY <1>1 DEF TypeOK
  <2> QED  BY <2>1, <2>2, <2>3 DEF Serial
<1>5. Rounds' /\ Spent'
  <2>1. executed'[call'] = 0 /\ round' >= 0
    BY <1>1 DEF Serial, TypeOK, opener
  <2>2. ~InFlight'
    BY <1>2 DEF InFlight, NoMessage, Message
  <2>3. round' = 0
    BY DEF TypeOK, Rounds
  <2> QED  BY <2>1, <2>2, <2>3 DEF Rounds, Spent, opener
<1>6. Notifications'
  <2>1. CASE toClient' = <<>> /\ running' = {}
    BY <2>1 DEF Notifications
  <2>2. CASE toClient' = toClient /\ running' = running /\ call' \in doubtful'
    BY <1>1, <2>2 DEF Notifications, Truthful, Answers, opener
  <2> QED  BY <1>2, <2>1, <2>2 DEF TypeOK
<1>7. Received'
  BY <1>2 DEF Received
<1> QED  BY <1>3, <1>4, <1>5, <1>6, <1>7

LEMMA ChallengeArrivesKeeps == ASSUME IndInv, ChallengeArrives PROVE IndInv'
<1> USE DEF IndInv, ChallengeArrives
<1> DEFINE request == ActionRequest(response.nonce)
<1>1. call \in Calls /\ response.nonce \in 1 .. lastNonce /\ request \in Messages
  BY MessageType DEF Serial, Received, TypeOK, ActionRequest, MessageKinds
<1>2. /\ pending' \in {"waiting", "failed"} /\ response' = NoMessage
      /\ link' \in {"up", "down"} /\ toDevice' \in {request, NoMessage}
      /\ \/ toClient' = toClient /\ running' = running
         \/ toClient' = <<>> /\ running' = {}
      /\ toDevice' \in Messages /\ toClient' \in Seq(Messages) /\ running' \subseteq Calls
  BY <1>1, SendEffect
<1>3. TypeOK'
  BY <1>1, <1>2, StartingValues DEF TypeOK, opener
<1>4. Serial'
  BY DEF Serial, opener
<1>5. Rounds' /\ Spent'
  <2>1. InFlight' => toDevice'.call = call /\ toDevice'.nonce = response.nonce
    BY <1>2 DEF InFlight, ActionRequest, NoMessage, Message
  <2> QED  BY <1>1, <2>1 DEF Rounds, Spent, Usable, opener, TypeOK
<1>6. Notifications'
  BY <1>2 DEF Notifications, Truthful, Answers, opener
<1>7. Received'
  BY <1>2 DEF Received
<1> QED  BY <1>3, <1>4, <1>5, <1>6, <1>7

LEMMA ActionAnsweredKeeps == ASSUME IndInv, ActionAnswered PROVE IndInv'
<1> USE DEF ActionAnswered
<1>1. CASE kind = "strike" /\ response.kind = "accepted" /\ phase' = "completion"
  <2> USE <1>1 DEF IndInv
  <2>1. TypeOK'
    BY StartingValues DEF TypeOK, opener
  <2>2. Serial' /\ Spent'
    BY DEF Serial, Spent, opener
  <2>3. Rounds'
    BY DEF Rounds, InFlight, Usable, opener
  <2>4. Notifications' /\ Received'
    BY DEF Notifications, Truthful, Answers, Received, Good, opener
  <2> QED  BY <2>1, <2>2, <2>3, <2>4
<1>2. CASE ~(kind = "strike" /\ response.kind = "accepted")
  <2>1. response.kind \in Statuses
    BY DEF IndInv, Received
  <2> QED  BY <1>2, <2>1, ReturnKeeps DEF Statuses
<1> QED  BY <1>1, <1>2

LEMMA AttemptFailsKeeps == ASSUME IndInv, AttemptFails PROVE IndInv'
<1> DEFINE request == IF phase = "action" THEN ActionRequest(nonce) ELSE ChallengeRequest
<1>1. CASE Return("error")
  BY <1>1, ReturnKeeps DEF AttemptFails
<1>2. CASE /\ ~LastAttempt
           /\ attempt' = attempt + 1
           /\ Reconnect(request)
           /\ response' = NoMessage
           /\ completion' = IF Armed /\ link = "up" THEN Append(completion, Lost) ELSE completion
           /\ UNCHANGED <<call, kind, phase, round, nonce, result, doubtful, opener>>
  <2> USE <1>2 DEF IndInv
  <2>1. phase \in {"challenge", "action"} /\ call \in Calls /\ request \in Messages
    BY MessageType DEF AttemptFails, Serial, TypeOK, ActionRequest, ChallengeRequest, MessageKinds
  <2>2. /\ pending' \in {"waiting", "failed"} /\ response' = NoMessage
        /\ link' \in {"up", "down"} /\ toDevice' \in {request, NoMessage}
        /\ \/ toClient' = toClient /\ running' = running
           \/ toClient' = <<>> /\ running' = {}
        /\ toDevice' \in Messages /\ toClient' \in Seq(Messages) /\ running' \subseteq Calls
    BY <2>1, SendEffect
  <2>3. Lost \in Messages /\ completion \in Seq(Messages) /\ Lost.kind = "lost"
    BY StartingValues DEF TypeOK, Lost, Message
  <2>4. /\ completion' \in Seq(Messages)
        /\ \A i \in 1 .. Len(completion') : completion'[i].kind = "complete" => Good("complete")
    BY <2>3, QueueKeeps
  <2>5. TypeOK'
    <3>1. attempt' \in 0 .. RequestAttempts - 1
      BY DEF TypeOK, LastAttempt
    <3> QED  BY <2>2, <2>4, <3>1, StartingValues DEF TypeOK, opener
  <2>6. Serial' /\ Spent'
    BY DEF Serial, Spent, opener
  <2>7. Rounds'
    <3>1. InFlight' => phase = "action" /\ toDevice' = ActionRequest(nonce)
      BY <2>1, <2>2 DEF InFlight, ChallengeRequest, NoMessage, Message
    <3> QED
      BY <2>1, <3>1 DEF Rounds, Usable, opener, ActionRequest, Message, TypeOK
  <2>8. Notifications'
    <3>1. CASE toClient' = <<>> /\ running' = {}
      BY <3>1 DEF Notifications
    <3>2. CASE toClient' = toClient /\ running' = running
      BY <3>2 DEF Notifications, Truthful, Answers, opener
    <3> QED  BY <2>2, <3>1, <3>2
  <2>9. Received'
    BY <2>1, <2>2, <2>4 DEF Received, Good, Armed, opener
  <2> QED  BY <2>5, <2>6, <2>7, <2>8, <2>9
<1> QED  BY <1>1, <1>2 DEF AttemptFails

LEMMA TakeCompletionKeeps == ASSUME IndInv, TakeCompletion PROVE IndInv'
<1> USE DEF TakeCompletion
<1>1. CASE Return("accepted") \/ Return("complete") \/ RaiseError(Head(completion).kind)
  BY <1>1, ReturnKeeps, RaiseErrorKeeps
<1>2. CASE /\ completion' = Tail(completion)
           /\ UNCHANGED <<client, pending, response, link, toDevice, toClient, running, opener>>
  <2> USE <1>2 DEF IndInv, client, opener
  <2>1. completion' \in Seq(Messages) /\ Len(completion') = Len(completion) - 1
        /\ \A i \in 1 .. Len(completion') : completion'[i] = completion[i + 1]
    BY DEF TypeOK
  <2>2. TypeOK' /\ Serial' /\ Rounds' /\ Spent'
    BY <2>1 DEF TypeOK, Serial, Rounds, Spent, InFlight, Usable
  <2>3. Notifications'
    BY DEF Notifications, Truthful, Answers
  <2>4. Received'
    BY <2>1 DEF Received, Good, TypeOK
  <2> QED  BY <2>2, <2>3, <2>4
<1> QED  BY <1>1, <1>2

LEMMA HandleMessageKeeps == ASSUME IndInv, HandleMessage PROVE IndInv'
<1> USE DEF IndInv, HandleMessage, client, opener
<1> DEFINE m == Head(toClient)
<1>1. /\ m \in Messages /\ toClient' \in Seq(Messages)
      /\ m = toClient[1] /\ Len(toClient) > 0
      /\ Len(toClient') = Len(toClient) - 1
      /\ \A i \in 1 .. Len(toClient') : toClient'[i] = toClient[i + 1]
  BY HeadTailProperties DEF TypeOK
<1>2. Truthful(m)
  BY <1>1 DEF Notifications, TypeOK
<1>3. /\ pending' \in {pending, "answered", "raised"} /\ response' \in {response, m}
      /\ pending' # pending => pending = "waiting" /\ response' = m
      /\ pending' = pending => response' = response
      /\ pending' = "raised" /\ pending # "raised" => m.kind \in Errors
      /\ pending' = "answered" /\ pending # "answered" =>
            \/ phase = "challenge" /\ m.kind = "challenge"
            \/ phase = "action" /\ m.kind \in Statuses
  OBVIOUS
<1>4. completion' = completion \/ (Armed /\ completion' = Append(completion, m))
  OBVIOUS
<1>5. /\ completion' \in Seq(Messages)
      /\ \A i \in 1 .. Len(completion') : completion'[i].kind = "complete" => Good("complete")
  <2>1. m.kind = "complete" => Good("complete")
    BY <1>2 DEF Truthful, Answers, Good
  <2> QED  BY <1>1, <1>4, <2>1, QueueKeeps
<1>6. TypeOK'
  BY <1>1, <1>3, <1>5 DEF TypeOK
<1>7. Serial' /\ Rounds' /\ Spent'
  BY DEF Serial, Rounds, Spent, InFlight, Usable
<1>8. Notifications'
  <2>1. \A i \in 1 .. Len(toClient') : Truthful(toClient[i + 1])
    BY <1>1 DEF Notifications, TypeOK
  <2>2. \A i \in 1 .. Len(toClient') : Truthful(toClient[i])'
    BY <1>1, <2>1 DEF Truthful, Answers
  <2> QED  BY <2>2 DEF Notifications, Answers
<1>9. Received'
  <2>1. pending' = "answered" /\ phase = "challenge" => response'.nonce \in 1 .. lastNonce
    BY <1>2, <1>3 DEF Received, Truthful, Statuses
  <2>2. pending' = "answered" /\ phase = "action" => response'.kind \in Statuses /\ Good(response'.kind)
    BY <1>2, <1>3 DEF Received, Truthful, Statuses, Good, Answers
  <2> QED  BY <1>3, <1>4, <1>5, <2>1, <2>2 DEF Received, Good, Armed
<1> QED  BY <1>6, <1>7, <1>8, <1>9

\* The link goes: nothing is on its way any more.
LEMMA LinkLossKeeps == ASSUME IndInv, IdleDisconnect \/ LinkDrops PROVE IndInv'
<1> USE DEF IndInv, IdleDisconnect, LinkDrops, client, opener
<1>1. /\ toDevice' = NoMessage /\ toClient' = <<>> /\ running' = {} /\ link' = "down"
      /\ response' = response
      /\ pending' \in {pending, "failed"} /\ (pending' # pending => pending = "waiting")
      /\ completion' = completion \/ (Armed /\ completion' = Append(completion, Lost))
      /\ UNCHANGED <<client, opener>>
  OBVIOUS
<1>2. /\ completion' \in Seq(Messages)
      /\ \A i \in 1 .. Len(completion') : completion'[i].kind = "complete" => Good("complete")
  <2>1. Lost \in Messages /\ Lost.kind = "lost"
    BY StartingValues DEF Lost, Message
  <2> QED  BY <1>1, <2>1, QueueKeeps
<1>3. TypeOK'
  BY <1>1, <1>2, StartingValues DEF TypeOK
<1>4. Serial' /\ Spent'
  BY <1>1 DEF Serial, Spent
<1>5. Rounds'
  BY <1>1 DEF Rounds, InFlight, Usable, NoMessage, Message
<1>6. Notifications'
  BY <1>1 DEF Notifications
<1>7. Received'
  BY <1>1, <1>2 DEF Received, Good, Armed
<1> QED  BY <1>3, <1>4, <1>5, <1>6, <1>7

LEMMA DeadAirKeeps == ASSUME IndInv, DeadAir PROVE IndInv'
<1> USE DEF IndInv, DeadAir, client, opener
<1>1. TypeOK' /\ Serial' /\ Spent'
  BY StartingValues DEF TypeOK, Serial, Spent
<1>2. Rounds'
  BY DEF Rounds, InFlight, Usable, NoMessage, Message
<1>3. Notifications'
  BY DEF Notifications, Truthful, Answers
<1>4. Received'
  BY DEF Received, Good
<1> QED  BY <1>1, <1>2, <1>3, <1>4

\* The Opener notifies: the message is added to those that are true.
LEMMA NotifyKeeps ==
    ASSUME TypeOK, Notifications, NEW m \in Messages, Notify(m), Truthful(m)',
           UNCHANGED <<call, doubtful>>, lastNonce' \in Nat, lastNonce <= lastNonce',
           finished \subseteq finished',
           \A c \in Calls : executed[c] > 0 => executed'[c] > 0
    PROVE  /\ toClient' \in Seq(Messages)
           /\ \A i \in 1 .. Len(toClient') : Truthful(toClient[i])'
<1>1. /\ toClient' \in Seq(Messages) /\ Len(toClient') = Len(toClient) + 1
      /\ \A i \in 1 .. Len(toClient) : toClient'[i] = toClient[i]
      /\ toClient'[Len(toClient) + 1] = m
  BY AppendProperties DEF TypeOK, Notify
<1>2. \A i \in 1 .. Len(toClient) : Truthful(toClient[i]) /\ toClient[i] \in Messages
  BY DEF Notifications, TypeOK
<1>3. ASSUME NEW i \in 1 .. Len(toClient) PROVE Truthful(toClient[i])'
  <2>1. PICK n \in Messages : n = toClient[i] /\ Truthful(n)
    BY <1>2
  <2>2. Truthful(n)'
    BY <2>1, TruthStays
  <2>3. toClient'[i] = n
    BY <1>1, <2>1
  <2> QED  BY <2>2, <2>3 DEF Truthful, Answers
<1>4. ASSUME NEW i \in Nat, i = Len(toClient) + 1 PROVE Truthful(toClient[i])'
  <2>1. toClient'[i] = m
    BY <1>1, <1>4
  <2> QED  BY <2>1 DEF Truthful, Answers
<1>5. \A i \in 1 .. Len(toClient') :
         i \in 1 .. Len(toClient) \/ (i \in Nat /\ i = Len(toClient) + 1)
  BY <1>1 DEF TypeOK
<1> QED  BY <1>1, <1>3, <1>4, <1>5, Zenon

LEMMA OpenerChallengeKeeps == ASSUME IndInv, OpenerChallenge PROVE IndInv'
<1> USE DEF IndInv, OpenerChallenge, client
<1>1. PICK m \in Messages : m = Message("challenge", lastNonce + 1, toDevice.call)
  BY MessageType DEF TypeOK, Messages, MessageKinds
<1>2. Truthful(m)'
  BY <1>1 DEF Truthful, Message, TypeOK
<1>3. /\ toClient' \in Seq(Messages)
      /\ \A i \in 1 .. Len(toClient') : Truthful(toClient[i])'
  <2>1. /\ Notify(m) /\ lastNonce' \in Nat /\ lastNonce <= lastNonce'
        /\ UNCHANGED <<call, doubtful, finished, executed>>
    BY <1>1 DEF TypeOK
  <2> QED  BY <1>2, <2>1, NotifyKeeps
<1>4. TypeOK' /\ Serial' /\ Spent'
  BY <1>3, StartingValues DEF TypeOK, Serial, Spent
<1>5. Rounds'
  BY DEF Rounds, InFlight, Usable, NoMessage, Message, TypeOK
<1>6. Notifications'
  BY <1>3 DEF Notifications, Answers
<1>7. Received'
  BY DEF Received, Good, TypeOK
<1> QED  BY <1>4, <1>5, <1>6, <1>7

\* The Opener performs a call once more, and says so.
LEMMA OpenerPerformsKeeps ==
    ASSUME IndInv, InFlight, toDevice.nonce = deviceNonce, OpenerPerforms(toDevice.call),
           toDevice' = NoMessage, deviceNonce' = 0,
           UNCHANGED <<client, pending, response, completion, link, lastNonce>>
    PROVE  IndInv'
<1> USE DEF IndInv, client
<1>1. call \in Calls /\ toDevice.call = call
  BY DEF Rounds, TypeOK
<1>2. executed' = [executed EXCEPT ![call] = @ + 1]
  BY <1>1 DEF OpenerPerforms
<1>3. /\ executed' \in [Calls -> Nat] /\ executed'[call] = executed[call] + 1
      /\ \A c \in Calls : c # call => executed'[c] = executed[c]
  BY <1>1, <1>2 DEF TypeOK
<1>4. /\ finished' \subseteq Calls /\ finished \subseteq finished'
      /\ running' \subseteq running \cup {call}
      /\ \E m \in Messages : Notify(m) /\ Truthful(m)'
  <2>1. CASE Notify(Message("accepted", 0, call)) /\ running' = running \cup {call} /\ UNCHANGED finished
    <3>1. Message("accepted", 0, call) \in Messages
      BY <1>1, MessageType DEF MessageKinds, Statuses
    <3>2. Truthful(Message("accepted", 0, call))'
      BY <1>1, <1>3 DEF Truthful, Answers, Message, TypeOK
    <3> QED  BY <2>1, <3>1, <3>2 DEF TypeOK
  <2>2. CASE /\ Notify(Message("complete", 0, call))
             /\ finished' = finished \cup {call} /\ UNCHANGED running
    <3>1. Message("complete", 0, call) \in Messages
      BY <1>1, MessageType DEF MessageKinds, Statuses
    <3>2. Truthful(Message("complete", 0, call))'
      BY <1>1, <2>2 DEF Truthful, Answers, Message
    <3> QED  BY <1>1, <2>2, <3>1, <3>2 DEF TypeOK
  <2> QED  BY <1>1, <2>1, <2>2 DEF OpenerPerforms
<1>5. /\ toClient' \in Seq(Messages)
      /\ \A i \in 1 .. Len(toClient') : Truthful(toClient[i])'
  <2>1. PICK m \in Messages : Notify(m) /\ Truthful(m)'
    BY <1>4
  <2>2. lastNonce' \in Nat /\ lastNonce <= lastNonce'
    BY DEF TypeOK
  <2>3. ASSUME NEW c \in Calls, executed[c] > 0 PROVE executed'[c] > 0
    <3>1. executed[c] \in Nat /\ (executed'[c] = executed[c] \/ executed'[c] = executed[c] + 1)
      BY <1>1, <1>3 DEF TypeOK
    <3> QED  BY <2>3, <3>1
  <2> QED  BY <1>4, <2>1, <2>2, <2>3, NotifyKeeps
<1>6. TypeOK'
  BY <1>1, <1>3, <1>4, <1>5, StartingValues DEF TypeOK
<1>7. Serial'
  BY <1>1, <1>3 DEF Serial, TypeOK
<1>8. Rounds'
  <2>1. phase # "challenge"
    BY DEF Rounds
  <2>2. phase \in {"action", "completion"} => nonce = deviceNonce /\ executed[call] <= round
    BY DEF Rounds, Usable
  <2>3. ~InFlight'
    BY DEF InFlight, NoMessage, Message
  <2> QED  BY <1>1, <1>3, <2>1, <2>2, <2>3 DEF Rounds, Usable, TypeOK
<1>9. Spent'
  <2>1. executed[call] <= 1 /\ executed[call] \in Nat
    BY <1>1 DEF Rounds, Usable, TypeOK
  <2> QED  BY <1>1, <1>3, <2>1 DEF Spent
<1>10. Notifications'
  BY <1>1, <1>3, <1>4, <1>5 DEF Notifications, Answers, TypeOK
<1>11. Received'
  BY <1>1, <1>3, <1>4 DEF Received, Good, TypeOK
<1> QED  BY <1>6, <1>7, <1>8, <1>9, <1>10, <1>11

LEMMA OpenerActionKeeps == ASSUME IndInv, OpenerAction PROVE IndInv'
<1>1. CASE OpenerPerforms(toDevice.call) /\ toDevice.nonce = deviceNonce /\ deviceNonce' = 0
  BY <1>1, OpenerPerformsKeeps DEF OpenerAction, InFlight
<1>2. CASE /\ \E k \in {"bad_nonce", "refused"} : Notify(Message(k, 0, toDevice.call))
           /\ deviceNonce' \in {0, deviceNonce}
           /\ UNCHANGED <<running, executed, finished>>
  <2> USE <1>2 DEF IndInv, client
  <2>1. toDevice' = NoMessage /\ UNCHANGED <<client, pending, response, completion, link, lastNonce>>
    BY DEF OpenerAction
  <2>2. PICK k \in {"bad_nonce", "refused"} : Notify(Message(k, 0, toDevice.call))
    OBVIOUS
  <2>3. PICK m \in Messages : m = Message(k, 0, toDevice.call)
    BY MessageType DEF TypeOK, Messages, MessageKinds, Errors
  <2>4. Truthful(m)'
    BY <2>3 DEF Truthful, Message
  <2>5. /\ toClient' \in Seq(Messages)
        /\ \A i \in 1 .. Len(toClient') : Truthful(toClient[i])'
    <3>1. Notify(m) /\ lastNonce' \in Nat /\ lastNonce <= lastNonce'
      BY <2>1, <2>2, <2>3 DEF TypeOK
    <3>2. UNCHANGED <<call, doubtful, finished, executed>>
      BY <2>1
    <3> QED  BY <2>4, <3>1, <3>2, NotifyKeeps
  <2>6. TypeOK' /\ Serial' /\ Spent'
    BY <2>1, <2>5, StartingValues DEF TypeOK, Serial, Spent
  <2>7. Rounds'
    BY <2>1 DEF Rounds, InFlight, Usable, NoMessage, Message, TypeOK
  <2>8. Notifications' /\ Received'
    BY <2>1, <2>5 DEF Notifications, Answers, Received, Good
  <2> QED  BY <2>6, <2>7, <2>8
<1> QED  BY <1>1, <1>2 DEF OpenerAction

LEMMA OpenerReportsKeeps ==
    ASSUME IndInv, NEW c \in Calls, OpenerFinishes(c) \/ OpenerRepeatsAccepted(c)
    PROVE  IndInv'
<1> USE DEF IndInv, OpenerFinishes, OpenerRepeatsAccepted, client, opener
<1>1. /\ finished' \in {finished, finished \cup {c}} /\ running' \subseteq running
      /\ UNCHANGED <<client, pending, response, completion, link, toDevice, deviceNonce, lastNonce,
                     executed>>
  OBVIOUS
<1>2. PICK k \in {"complete", "failed", "accepted"} :
         Notify(Message(k, 0, c)) /\ (k = "complete" => c \in finished')
  OBVIOUS
<1>3. PICK m \in Messages : m = Message(k, 0, c)
  BY MessageType DEF MessageKinds, Statuses, Errors
<1>4. Truthful(m)'
  BY <1>1, <1>2, <1>3 DEF Truthful, Message, Notifications, Answers
<1>5. /\ toClient' \in Seq(Messages)
      /\ \A i \in 1 .. Len(toClient') : Truthful(toClient[i])'
  <2>1. Notify(m) /\ lastNonce' \in Nat /\ lastNonce <= lastNonce' /\ finished \subseteq finished'
    BY <1>1, <1>2, <1>3 DEF TypeOK
  <2>2. UNCHANGED <<call, doubtful, executed>>
    BY <1>1
  <2> QED  BY <1>4, <2>1, <2>2, NotifyKeeps
<1>6. TypeOK' /\ Serial' /\ Spent'
  BY <1>1, <1>5 DEF TypeOK, Serial, Spent
<1>7. Rounds'
  BY <1>1 DEF Rounds, InFlight, Usable
<1>8. Notifications' /\ Received'
  BY <1>1, <1>5 DEF Notifications, Answers, Received, Good
<1> QED  BY <1>6, <1>7, <1>8

LEMMA NextIndInv == IndInv /\ [Next]_vars => IndInv'
<1> SUFFICES ASSUME IndInv, [Next]_vars PROVE IndInv'
  OBVIOUS
<1>1. CASE Begin
  BY <1>1, BeginKeeps
<1>2. CASE ChallengeRaises \/ CompletionTimeout
  BY <1>2, ReturnKeeps DEF ChallengeRaises, CompletionTimeout
<1>3. CASE ChallengeArrives
  BY <1>3, ChallengeArrivesKeeps
<1>4. CASE ActionRaises
  BY <1>4, RaiseErrorKeeps DEF ActionRaises
<1>5. CASE ActionAnswered
  BY <1>5, ActionAnsweredKeeps
<1>6. CASE AttemptFails
  BY <1>6, AttemptFailsKeeps
<1>7. CASE TakeCompletion
  BY <1>7, TakeCompletionKeeps
<1>8. CASE HandleMessage
  BY <1>8, HandleMessageKeeps
<1>9. CASE IdleDisconnect \/ LinkDrops
  BY <1>9, LinkLossKeeps
<1>10. CASE DeadAir
  BY <1>10, DeadAirKeeps
<1>11. CASE OpenerChallenge
  BY <1>11, OpenerChallengeKeeps
<1>12. CASE OpenerAction
  BY <1>12, OpenerActionKeeps
<1>13. CASE \E c \in Calls : OpenerFinishes(c) \/ OpenerRepeatsAccepted(c)
  BY <1>13, OpenerReportsKeeps
<1>14. CASE UNCHANGED vars
  <2> USE <1>14 DEF vars, client, opener, IndInv
  <2>1. TypeOK' /\ Serial' /\ Spent' /\ Rounds'
    BY DEF TypeOK, Serial, Spent, Rounds, InFlight, Usable
  <2>2. Notifications' /\ Received'
    BY DEF Notifications, Truthful, Answers, Received, Good
  <2> QED  BY <2>1, <2>2
<1> QED
  BY <1>1, <1>2, <1>3, <1>4, <1>5, <1>6, <1>7, <1>8, <1>9, <1>10, <1>11, <1>12, <1>13, <1>14
  DEF Next, ClientStep

\* The inductive invariant holds throughout.
THEOREM Invariance == Spec => []IndInv
  BY InitIndInv, NextIndInv, PTL DEF Spec

\* Whatever is lost, late or replayed, every variable has its type.
THEOREM LockActionTypeCorrect == Spec => []TypeOK
  BY Invariance, PTL DEF IndInv

\* However often its request is replayed, a setting is applied at most once
\* (set_advanced_config, client.py:323-325): it has a single round.
THEOREM SettingsAreAppliedOnce == Spec => []SettingAppliedOnce
<1>1. IndInv => SettingAppliedOnce
  <2> SUFFICES ASSUME IndInv, phase # "idle", kind = "setting" PROVE executed[call] <= 1
    BY DEF SettingAppliedOnce
  <2>1. call \in Calls /\ executed[call] \in Nat /\ round = 0
    BY DEF IndInv, TypeOK, Serial, Rounds
  <2>2. executed[call] <= round + 1
    BY <2>1 DEF IndInv, TypeOK, Rounds
  <2> QED  BY <2>1, <2>2
<1> QED  BY <1>1, Invariance, PTL

-----------------------------------------------------------------------------
(* The refinement: every step is one of the promise's, or changes none of  *)
(* what the callers and the Opener see.                                    *)

LEMMA InitPromise == Init => Promise!Init
  BY DEF Init, Promise!Init

\* A return is one the promise allows.
LEMMA ReturnPromised ==
    ASSUME IndInv, phase # "idle", NEW r \in {"accepted", "complete", "error"}, Return(r),
           r \in Statuses => Good(r)
    PROVE  Promise!Next
<1>1. call \in Calls /\ result[call] = "called"
  BY DEF IndInv, TypeOK, Serial
<1>2. Promise!Return(call)
  BY <1>1 DEF Return, opener, Good, Statuses, Promise!Return, Promise!Returns
<1> QED  BY <1>1, <1>2 DEF Promise!Next

LEMMA RaiseErrorPromised ==
    ASSUME IndInv, phase \in {"action", "completion"}, NEW e, RaiseError(e)
    PROVE  Promise!Next \/ UNCHANGED Promise!vars
<1>1. CASE SecondRound
  BY <1>1 DEF SecondRound, opener, Promise!vars
<1>2. CASE Return("error")
  BY <1>2, ReturnPromised DEF Statuses
<1> QED  BY <1>1, <1>2 DEF RaiseError

LEMMA BeginPromised == ASSUME IndInv, Begin PROVE Promise!Next
<1>1. call + 1 \in Calls /\ phase = "idle"
  BY DEF IndInv, TypeOK, Begin
<1>2. /\ result[call + 1] = "new"
      /\ \A d \in Calls : d < call + 1 => result[d] \in Promise!Returns
  BY <1>1 DEF IndInv, TypeOK, Serial
<1>3. Promise!Begin(call + 1)
  BY <1>2 DEF Begin, opener, Promise!Begin
<1> QED  BY <1>1, <1>3 DEF Promise!Next

LEMMA ActionAnsweredPromised ==
    ASSUME IndInv, ActionAnswered PROVE Promise!Next \/ UNCHANGED Promise!vars
<1>1. CASE phase' = "completion"
  BY <1>1 DEF ActionAnswered, Return, opener, Promise!vars
<1>2. CASE Return(IF kind = "setting" /\ response.kind # "complete"
                    THEN "error" ELSE response.kind)
  <2>1. response.kind \in Statuses /\ Good(response.kind) /\ phase # "idle"
    BY DEF IndInv, ActionAnswered, Received
  <2>2. CASE Return("error")
    BY <2>1, <2>2, ReturnPromised DEF Statuses
  <2>3. CASE Return(response.kind)
    BY <2>1, <2>3, ReturnPromised DEF Statuses
  <2> QED  BY <1>2, <2>2, <2>3
<1> QED  BY <1>1, <1>2 DEF ActionAnswered

\* The wait for completion ends: what it returns is so.
LEMMA TakeCompletionPromised ==
    ASSUME IndInv, TakeCompletion PROVE Promise!Next \/ UNCHANGED Promise!vars
<1>1. phase = "completion" /\ Good("accepted") /\ completion # <<>>
  BY DEF IndInv, Received, TakeCompletion
<1>2. Head(completion).kind = "complete" => Good("complete")
  BY <1>1 DEF IndInv, TypeOK, Received
<1>3. CASE Return("accepted")
  BY <1>1, <1>3, ReturnPromised
<1>4. CASE Return("complete") /\ Head(completion).kind = "complete"
  BY <1>1, <1>2, <1>4, ReturnPromised
<1>5. CASE RaiseError(Head(completion).kind)
  BY <1>1, <1>5, RaiseErrorPromised
<1>6. CASE UNCHANGED <<client, running, opener>>
  BY <1>6 DEF client, opener, Promise!vars
<1> QED  BY <1>3, <1>4, <1>5, <1>6 DEF TakeCompletion

\* The Opener performs the call for the first or for the second time.
LEMMA OpenerActionPromised ==
    ASSUME IndInv, OpenerAction PROVE Promise!Next \/ UNCHANGED Promise!vars
<1>1. CASE UNCHANGED <<executed, finished>>
  BY <1>1 DEF OpenerAction, client, Promise!vars
<1>2. CASE toDevice.nonce = deviceNonce /\ OpenerPerforms(toDevice.call)
  <2>1. toDevice.call = call /\ call \in Calls /\ executed[call] \in Nat /\ executed[call] <= 1
    BY <1>2 DEF OpenerAction, IndInv, Rounds, InFlight, Usable, TypeOK
  <2>2. result[call] # "new"
    BY <2>1 DEF IndInv, Serial, Promise!Returns
  <2>3. Promise!Execute(call)
    BY <1>2, <2>1, <2>2 DEF OpenerAction, OpenerPerforms, client, Promise!Execute
  <2> QED  BY <2>1, <2>3 DEF Promise!Next
<1> QED  BY <1>1, <1>2 DEF OpenerAction

LEMMA OpenerFinishesPromised ==
    ASSUME IndInv, NEW c \in Calls, OpenerFinishes(c)
    PROVE  Promise!Next \/ UNCHANGED Promise!vars
<1>1. CASE finished' = finished
  BY <1>1 DEF OpenerFinishes, client, Promise!vars
<1>2. CASE finished' = finished \cup {c}
  <2>1. Promise!Finish(c)
    BY <1>2 DEF OpenerFinishes, IndInv, Notifications, client, Promise!Finish
  <2> QED  BY <2>1 DEF Promise!Next
<1> QED  BY <1>1, <1>2 DEF OpenerFinishes

LEMMA NextPromised == IndInv /\ [Next]_vars => [Promise!Next]_Promise!vars
<1> SUFFICES ASSUME IndInv, [Next]_vars PROVE Promise!Next \/ UNCHANGED Promise!vars
  OBVIOUS
<1>1. CASE Begin
  BY <1>1, BeginPromised
<1>2. CASE ChallengeRaises
  BY <1>2, ReturnPromised DEF ChallengeRaises, Statuses
<1>3. CASE CompletionTimeout
  BY <1>3, ReturnPromised DEF CompletionTimeout, IndInv, Received
<1>4. CASE ActionRaises
  BY <1>4, RaiseErrorPromised DEF ActionRaises
<1>5. CASE ActionAnswered
  BY <1>5, ActionAnsweredPromised
<1>6. CASE AttemptFails
  <2>1. CASE Return("error")
    BY <1>6, <2>1, ReturnPromised DEF AttemptFails, Statuses
  <2>2. CASE UNCHANGED <<result, doubtful, opener>>
    BY <2>2 DEF opener, Promise!vars
  <2> QED  BY <1>6, <2>1, <2>2 DEF AttemptFails
<1>7. CASE TakeCompletion
  BY <1>7, TakeCompletionPromised
<1>8. CASE OpenerAction
  BY <1>8, OpenerActionPromised
<1>9. CASE \E c \in Calls : OpenerFinishes(c)
  BY <1>9, OpenerFinishesPromised
<1>10. CASE \/ ChallengeArrives \/ HandleMessage \/ IdleDisconnect \/ LinkDrops \/ DeadAir
            \/ OpenerChallenge \/ (\E c \in Calls : OpenerRepeatsAccepted(c)) \/ UNCHANGED vars
  BY <1>10 DEF ChallengeArrives, HandleMessage, IdleDisconnect, LinkDrops, DeadAir, OpenerChallenge,
     OpenerRepeatsAccepted, vars, client, opener, Promise!vars
<1> QED
  BY <1>1, <1>2, <1>3, <1>4, <1>5, <1>6, <1>7, <1>8, <1>9, <1>10 DEF Next, ClientStep

\* lock_action keeps its promise (client.py:483-558): a call is performed at
\* most twice, returns once, and a good status is of this call, unless it began
\* on a link that still had an earlier one to bring.
THEOREM ImplementsPromise == Spec => PromiseKept
  BY InitPromise, NextPromised, Invariance, PTL DEF Spec, PromiseKept, Promise!Spec

=============================================================================
