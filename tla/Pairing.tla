------------------------------- MODULE Pairing -------------------------------
(***************************************************************************)
(* The config flow that makes an entry: its pairing step                   *)
(* (config_flow.py) and the handshake behind it (NukiOpenerClient.pair,    *)
(* nuki/client.py), with an Opener that keeps a pairing session, ends      *)
(* pairing mode by itself or for the Nuki app, and takes one link at a     *)
(* time.  Entry lifecycles extend this module.                             *)
(*                                                                         *)
(* Keys are numbers: a fresh one for each pair(), 0 for the app's.  An     *)
(* authenticator is the key and the challenge it is computed from, so it   *)
(* is right when both are the session's (nuki/crypto.py).                  *)
(***************************************************************************)
EXTENDS Naturals

CONSTANTS
    Attempts,     \* REQUEST_ATTEMPTS
    MaxPairs,     \* bound: submissions of the pairing step
    MaxDrops,     \* bound: links lost, answers lost and link closings that fail
    None          \* nothing

ASSUME NoneAssumption == None \notin {"app", "orphan", "pairing", "on", "off", "unavailable"}
ASSUME AttemptsAssumption == Attempts \in Nat \ {0}
ASSUME PairingBoundsAssumption == {MaxPairs, MaxDrops} \subseteq Nat

VARIABLES
    \* the radio and the Opener
    present,     \* a connectable path to the Opener is known
    holder,      \* whose link it has: None, "app", "orphan", "pairing", or an entry's client
    air,         \* the pairing message under way, or its answer, or None
    budget,      \* drops left
    pairing_mode,
    session,     \* the Opener's: the client key, and the challenge it expects
    challenges,  \* challenges it has issued
    authorized,  \* keys of its authorizations
    \* the config flow and its client
    flow,        \* "menu", "pair" (the form), "pairing", "created"
    error,       \* errors["base"]
    key,         \* pairs begun: the key of the last
    step,        \* the request of _pair it is at, 0 before and after
    at,          \* where that request is: "connect", "write", "wait"
    attempt,     \* its attempt
    challenge,   \* local of _pair
    credentials  \* of the entry: the key, None while there is none

radio == <<present, holder, budget>>
opener == <<pairing_mode, session, challenges, authorized>>
flowVars == <<flow, error, key, step, at, attempt, challenge, credentials>>
pairingVars == <<radio, air, opener, flowVars>>

\* The requests of _pair, in order.
Steps == <<"REQUEST_DATA", "PUBLIC_KEY", "AUTHORIZATION_AUTHENTICATOR", "AUTHORIZATION_DATA",
           "AUTHORIZATION_ID_CONFIRMATION">>
Last == 5

-----------------------------------------------------------------------------
(* The radio.                                                              *)

\* A link is closed; if that fails, the error is suppressed and the link stays behind.
LinkCloses ==
    \/ holder' = None /\ UNCHANGED budget
    \/ budget > 0 /\ holder' = "orphan" /\ budget' = budget - 1

\* client.disconnect() of the client c.
Disconnect(c) == IF holder # c THEN UNCHANGED <<holder, budget>> ELSE LinkCloses

\* close_stale_connections_by_address: a link of a local adapter, not one of a proxy.
CloseStale == holder' = None \/ holder' = holder

\* The session may survive the link it was opened on, or not.
LinkEnds == session' \in {session, None} /\ air' = None

-----------------------------------------------------------------------------
(* The flow's client.                                                      *)

\* How async_step_pair takes the end of pair().
PairingEnds(how, made) ==
    /\ LinkEnds
    /\ step' = 0 /\ attempt' = 1
    /\ flow' = IF made = None THEN "pair" ELSE "created"
    /\ error' = how /\ credentials' = made
    /\ UNCHANGED <<present, pairing_mode, challenges, authorized, key, at, challenge>>

\* With the finally of pair().
FinishPairing(how, made) == Disconnect("pairing") /\ PairingEnds(how, made)

ChooseMethod ==
    /\ flow = "menu" /\ flow' = "pair"
    /\ UNCHANGED <<radio, air, opener, error, key, step, at, attempt, challenge, credentials>>

\* async_step_manual: credentials that are well formed are taken as they are.
EnterCredentials(k) ==
    /\ flow = "menu"
    /\ flow' = "created" /\ credentials' = k
    /\ UNCHANGED <<radio, air, opener, error, key, step, at, attempt, challenge>>

\* async_step_pair with input, and _async_pair.
SubmitAbsent ==
    /\ flow = "pair" /\ ~present
    /\ error' = "cannot_connect"
    /\ UNCHANGED <<radio, air, opener, flow, key, step, at, attempt, challenge, credentials>>

Submit ==
    /\ flow = "pair" /\ present /\ key < MaxPairs
    /\ IF holder = "orphan" THEN CloseStale ELSE UNCHANGED holder
    /\ flow' = "pairing" /\ error' = None
    /\ key' = key + 1 /\ step' = 1 /\ at' = "connect" /\ attempt' = 1
    /\ UNCHANGED <<present, budget, air, opener, challenge, credentials>>

CanConnect == present /\ holder = None

\* _pair: the first connect() is not retried, and may find no pairing characteristic.
PairConnect ==
    /\ flow = "pairing" /\ at = "connect"
    /\ \/ /\ CanConnect /\ holder' = "pairing" /\ at' = "write"
          /\ UNCHANGED <<present, budget, air, opener, flow, error, key, step, attempt, challenge,
                         credentials>>
       \/ CanConnect /\ LinkCloses /\ PairingEnds("pairing_failed", None)
       \/ ~CanConnect /\ FinishPairing("cannot_connect", None)

\* A request is written; _write connects again when the link is down.
Write ==
    /\ flow = "pairing" /\ at = "write"
    /\ holder = "pairing" \/ CanConnect
    /\ holder' = "pairing" /\ at' = "wait"
    /\ air' = [request |-> Steps[step], key |-> key, challenge |-> challenge]
    /\ UNCHANGED <<present, budget, opener, flow, error, key, step, attempt, challenge, credentials>>

\* _request: another attempt on a new link, with the same message, or the last error.
AttemptFails ==
    IF attempt < Attempts
    THEN /\ attempt' = attempt + 1 /\ at' = "write"
         /\ Disconnect("pairing") /\ LinkEnds
         /\ UNCHANGED <<present, pairing_mode, challenges, authorized, flow, error, key, step,
                        challenge, credentials>>
    ELSE FinishPairing("cannot_connect", None)

WriteFails == flow = "pairing" /\ at = "write" /\ holder # "pairing" /\ ~CanConnect /\ AttemptFails

\* The answer does not come: it was lost, the link was, or the Opener is late.
NoAnswer ==
    /\ flow = "pairing" /\ at = "wait"
    /\ AttemptFails

\* An indication that cannot be decoded ends the pending command.
Undecodable ==
    /\ flow = "pairing" /\ at = "wait" /\ holder = "pairing" /\ budget > 0
    /\ FinishPairing("pairing_failed", None)

\* pair() that is content with the Authorization-ID.
AnswerUnconfirmed ==
    /\ flow = "pairing" /\ at = "wait" /\ air # None /\ "answer" \in DOMAIN air
    /\ IF air.answer = "ERROR_REPORT"
       THEN FinishPairing(IF air.code = "P_NOT_PAIRING" THEN "not_in_pairing_mode"
                          ELSE "pairing_failed", None)
       ELSE IF step >= Last - 1 THEN FinishPairing(None, key)
       ELSE /\ step' = step + 1 /\ at' = "write" /\ attempt' = 1
            /\ challenge' = IF air.answer = "PUBLIC_KEY" THEN challenge ELSE air.challenge
            /\ air' = None
            /\ UNCHANGED <<radio, opener, flow, error, key, credentials>>

\* _pair takes the answer of a request and goes on to the next; after the last it is done.  It
\* refuses an Authorization-ID whose authenticator is wrong, and a status that is not COMPLETE.
Answer ==
    /\ flow = "pairing" /\ at = "wait" /\ air # None /\ "answer" \in DOMAIN air
    /\ IF air.answer = "ERROR_REPORT"
       THEN FinishPairing(IF air.code = "P_NOT_PAIRING" THEN "not_in_pairing_mode"
                          ELSE "pairing_failed", None)
       ELSE \/ step >= Last - 1 /\ FinishPairing("pairing_failed", None)
            \/ step = Last /\ FinishPairing(None, key)
            \/ /\ step # Last /\ step' = step + 1 /\ at' = "write" /\ attempt' = 1
               /\ challenge' = IF air.answer = "PUBLIC_KEY" THEN challenge ELSE air.challenge
               /\ air' = None
               /\ UNCHANGED <<radio, opener, flow, error, key, credentials>>

-----------------------------------------------------------------------------
(* The Opener.                                                             *)

Reply(a, c) == air' = [answer |-> a, challenge |-> c, code |-> None]
Refuse(code) ==
    /\ air' = [answer |-> "ERROR_REPORT", challenge |-> 0, code |-> code]
    /\ UNCHANGED opener

\* What the Opener does with the message it received.
Serve(m) ==
    LET fresh == challenges + 1
        right == session # None /\ m.key = session.key /\ m.challenge = session.challenge
    IN  CASE m.request = "REQUEST_DATA" ->
               IF pairing_mode THEN Reply("PUBLIC_KEY", 0) /\ UNCHANGED opener
               ELSE Refuse("P_NOT_PAIRING")
          [] m.request = "PUBLIC_KEY" ->
               /\ session' = [key |-> m.key, challenge |-> fresh] /\ challenges' = fresh
               /\ Reply("CHALLENGE", fresh) /\ UNCHANGED <<pairing_mode, authorized>>
          [] m.request \in {"AUTHORIZATION_AUTHENTICATOR", "AUTHORIZATION_DATA"} ->
               IF right
               THEN /\ session' = [session EXCEPT !.challenge = fresh] /\ challenges' = fresh
                    /\ Reply(IF m.request = "AUTHORIZATION_DATA" THEN "AUTHORIZATION_ID"
                             ELSE "CHALLENGE", fresh)
                    /\ UNCHANGED <<pairing_mode, authorized>>
               ELSE Refuse("P_BAD_AUTHENTICATOR")
          [] m.request = "AUTHORIZATION_ID_CONFIRMATION" ->
               IF right
               THEN /\ pairing_mode' = FALSE /\ authorized' = authorized \cup {m.key}
                    /\ Reply("STATUS", 0) /\ session' \in {session, None} /\ UNCHANGED challenges
               ELSE Refuse("P_BAD_AUTHENTICATOR")

OpenerServes ==
    /\ holder = "pairing" /\ air # None /\ "request" \in DOMAIN air
    /\ Serve(air)
    /\ UNCHANGED <<radio, flowVars>>

\* Its button is held for five seconds; or pairing mode ends by itself.
PairingMode ==
    /\ flow # "created" /\ pairing_mode' = ~pairing_mode
    /\ UNCHANGED <<radio, air, session, challenges, authorized, flowVars>>

\* The Nuki app takes the link while it is free, may pair, and leaves.  It does to the entry
\* that is made what an Opener out of sight does.
AppConnects ==
    /\ flow # "created" /\ holder = None /\ holder' = "app"
    /\ \/ UNCHANGED <<session, pairing_mode>>
       \/ pairing_mode /\ pairing_mode' = FALSE /\ session' = [key |-> 0, challenge |-> 0]
    /\ UNCHANGED <<present, budget, air, challenges, authorized, flowVars>>

AppLeaves ==
    /\ holder = "app" /\ holder' = None
    /\ UNCHANGED <<present, budget, air, opener, flowVars>>

\* The proxy that holds a link nobody uses is restarted.
OrphanEnds ==
    /\ holder = "orphan" /\ holder' = None
    /\ UNCHANGED <<present, budget, air, opener, flowVars>>

LinkDrops ==
    /\ holder = "pairing" /\ budget > 0
    /\ holder' = None /\ budget' = budget - 1 /\ LinkEnds
    /\ UNCHANGED <<present, pairing_mode, challenges, authorized, flowVars>>

\* Advertisements stop reaching any connectable adapter, or reach one again.
Presence ==
    /\ present' = ~present
    /\ UNCHANGED <<holder, budget, air, opener, flowVars>>

-----------------------------------------------------------------------------
PairingInit ==
    /\ present \in BOOLEAN /\ holder = None /\ air = None /\ budget = MaxDrops
    /\ pairing_mode \in BOOLEAN /\ session = None /\ challenges = 0 /\ authorized = {0}
    /\ flow = "menu" /\ error = None /\ key = 0 /\ step = 0 /\ at = "connect" /\ attempt = 1
    /\ challenge = 0 /\ credentials = None

PairClient == PairConnect \/ Write \/ WriteFails \/ NoAnswer \/ Undecodable \/ Answer

Surroundings == AppConnects \/ AppLeaves \/ OrphanEnds \/ Presence

PairingNext ==
    \/ ChooseMethod \/ SubmitAbsent \/ Submit \/ EnterCredentials(MaxPairs + 1)
    \/ PairClient \/ OpenerServes \/ PairingMode \/ LinkDrops \/ Surroundings

-----------------------------------------------------------------------------
(* Properties.                                                             *)

\* An entry that pairing made has credentials the Opener knows, although its pairing may have
\* lost links and answers, sent messages again, or met the app on the way (client.py:601-696,
\* config_flow.py:162-218).
CredentialsWork == (credentials # None /\ key > 0) => credentials \in authorized
=============================================================================
