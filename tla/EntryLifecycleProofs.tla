------------------------- MODULE EntryLifecycleProofs -------------------------
(***************************************************************************)
(* The credentials of an entry that pairing made, its links, options and   *)
(* silenced rings over its life, for any number of pairings, attempts,     *)
(* lost links, clients, options flows and uses of the switch.              *)
(*                                                                         *)
(* Pairing.  The confirmation is the last request, and its answer is only  *)
(* taken while it is on the air.  So the invariant says what the air       *)
(* carries: the request of the step that the flow is at, with its key, or  *)
(* the answer to that request; and at the last step any answer that is not *)
(* an error is given by an Opener that has authorized the key.             *)
(*                                                                         *)
(* The entry.  What setup and unload have done so far depends on where     *)
(* they are, and Staged says what: it is what the other parts lean on.     *)
(* LinksHeld is what NoLinkLeft says of the clients.  OptionsRead has the  *)
(* entry while it is set up, too, with the PIN that setup read.            *)
(* DoorbellKept has what is written of the switch while there is none, to  *)
(* be restored from.                                                       *)
(***************************************************************************)
EXTENDS EntryLifecycle, TLAPS

-----------------------------------------------------------------------------
(* Pairing.                                                                *)

\* The message under way is of the request that the flow waits for.
OnAir ==
    air # None =>
       /\ flow = "pairing" /\ at = "wait"
       /\ \/ /\ DOMAIN air = {"request", "key", "challenge"}
             /\ air.request = Steps[step] /\ air.key = key
          \/ /\ DOMAIN air = {"answer", "challenge", "code"}
             /\ air.answer # "ERROR_REPORT" /\ step = Last => key \in authorized

\* Where the flow is.
FlowAt ==
    /\ key \in Nat
    /\ flow = "menu" => key = 0
    /\ flow = "pairing" => step \in 1 .. Last
    /\ flow # "created" => credentials = None
    /\ holder = "pairing" => flow = "pairing"

PairingInv == FlowAt /\ OnAir /\ CredentialsWork

USE NoneAssumption, AttemptsAssumption, PairingBoundsAssumption DEF Last

-----------------------------------------------------------------------------
LEMMA StepsAreStrings ==
    ASSUME NEW i \in 1 .. Last
    PROVE  /\ Steps[i] \in {"REQUEST_DATA", "PUBLIC_KEY", "AUTHORIZATION_AUTHENTICATOR",
                            "AUTHORIZATION_DATA", "AUTHORIZATION_ID_CONFIRMATION"}
           /\ Steps[i] = "AUTHORIZATION_ID_CONFIRMATION" <=> i = Last
<1>1. i \in {1, 2, 3, 4, 5}
  OBVIOUS
<1> QED  BY <1>1 DEF Steps

\* Whoever disconnects has no link any more.
LEMMA DisconnectFrees ==
    ASSUME NEW c, c \notin {None, "orphan"}, Disconnect(c)
    PROVE  holder' # c /\ holder' \in {holder, None, "orphan"}
  BY DEF Disconnect, LinkCloses

LEMMA PairingInitInv == PairingInit => PairingInv
  BY DEF PairingInit, PairingInv, FlowAt, OnAir, CredentialsWork

\* However pair() ends, an entry is only made with a key that the Opener has authorized.
LEMMA PairingEndsKeeps ==
    ASSUME PairingInv, NEW how, NEW made, PairingEnds(how, made), holder' # "pairing",
           made = None \/ (made = key /\ key \in authorized)
    PROVE  PairingInv'
<1> USE DEF PairingInv, PairingEnds
<1>1. FlowAt'
  BY DEF FlowAt
<1>2. OnAir' /\ CredentialsWork'
  BY DEF LinkEnds, OnAir, CredentialsWork
<1> QED  BY <1>1, <1>2

LEMMA FinishPairingKeeps ==
    ASSUME PairingInv, NEW how, NEW made, FinishPairing(how, made),
           made = None \/ (made = key /\ key \in authorized)
    PROVE  PairingInv'
<1>1. holder' # "pairing"
  BY DisconnectFrees DEF FinishPairing
<1> QED  BY <1>1, PairingEndsKeeps DEF FinishPairing

LEMMA AttemptFailsKeeps ==
    ASSUME PairingInv, flow = "pairing", AttemptFails
    PROVE  PairingInv'
<1>1. CASE FinishPairing("cannot_connect", None)
  BY <1>1, FinishPairingKeeps
<1>2. CASE /\ at' = "write" /\ Disconnect("pairing") /\ LinkEnds
           /\ UNCHANGED <<authorized, flow, key, step, credentials>>
  BY <1>2, DisconnectFrees DEF PairingInv, FlowAt, OnAir, CredentialsWork, LinkEnds
<1> QED  BY <1>1, <1>2 DEF AttemptFails

LEMMA AnswerKeeps == ASSUME PairingInv, Answer PROVE PairingInv'
<1> USE DEF Answer
<1>1. CASE \E how : FinishPairing(how, None)
  BY <1>1, FinishPairingKeeps
<1>2. CASE air.answer # "ERROR_REPORT" /\ step = Last /\ FinishPairing(None, key)
  <2>1. key \in authorized
    BY <1>2 DEF PairingInv, OnAir
  <2> QED  BY <1>2, <2>1, FinishPairingKeeps
<1>3. CASE /\ step # Last /\ step' = step + 1 /\ at' = "write" /\ air' = None
           /\ UNCHANGED <<radio, opener, flow, error, key, credentials>>
  BY <1>3 DEF PairingInv, FlowAt, OnAir, CredentialsWork, radio, opener
<1> QED  BY <1>1, <1>2, <1>3

\* A confirmation is answered with a STATUS by an Opener that has just authorized its key.
LEMMA OpenerServesKeeps == ASSUME PairingInv, OpenerServes PROVE PairingInv'
<1> USE DEF PairingInv, OpenerServes
<1>1. UNCHANGED <<radio, flowVars>> /\ air # None /\ flow = "pairing" /\ step \in 1 .. Last
  BY DEF OnAir, FlowAt
<1>2. air.request = Steps[step] /\ air.key = key
  BY <1>1 DEF OnAir
<1>3. /\ authorized \subseteq authorized'
      /\ DOMAIN air' = {"answer", "challenge", "code"}
      /\ air'.answer # "ERROR_REPORT" /\ step = Last => key \in authorized'
  <2> DEFINE right == session # None /\ air.key = session.key /\ air.challenge = session.challenge
  <2>1. CASE air.request = "REQUEST_DATA"
    BY <1>1, <1>2, <2>1, StepsAreStrings DEF Serve, Reply, Refuse, opener
  <2>2. CASE air.request = "PUBLIC_KEY"
    BY <1>1, <1>2, <2>2, StepsAreStrings DEF Serve, Reply
  <2>3. CASE air.request \in {"AUTHORIZATION_AUTHENTICATOR", "AUTHORIZATION_DATA"}
    BY <1>1, <1>2, <2>3, StepsAreStrings DEF Serve, Reply, Refuse, opener
  <2>4. CASE air.request = "AUTHORIZATION_ID_CONFIRMATION"
    BY <1>1, <1>2, <2>4 DEF Serve, Reply, Refuse, opener
  <2> QED  BY <1>1, <1>2, <2>1, <2>2, <2>3, <2>4, StepsAreStrings
<1>4. FlowAt' /\ OnAir' /\ CredentialsWork'
  BY <1>1, <1>3 DEF FlowAt, OnAir, CredentialsWork, radio, flowVars
<1> QED  BY <1>4

LEMMA PairingStepKeeps == ASSUME PairingInv, PairingNext PROVE PairingInv'
<1> USE DEF PairingInv, radio, opener, flowVars
<1>1. CASE ChooseMethod \/ SubmitAbsent \/ Submit \/ EnterCredentials(MaxPairs + 1)
  BY <1>1 DEF ChooseMethod, SubmitAbsent, Submit, EnterCredentials, CloseStale, FlowAt, OnAir,
     CredentialsWork
<1>2. CASE PairConnect
  <2>1. CASE FinishPairing("cannot_connect", None)
    BY <2>1, FinishPairingKeeps
  <2>2. CASE LinkCloses /\ PairingEnds("pairing_failed", None)
    BY <2>2, PairingEndsKeeps DEF LinkCloses
  <2>3. CASE /\ holder' = "pairing" /\ at' = "write"
             /\ UNCHANGED <<air, opener, flow, key, step, credentials>>
    BY <1>2, <2>3 DEF PairConnect, FlowAt, OnAir, CredentialsWork
  <2> QED  BY <1>2, <2>1, <2>2, <2>3 DEF PairConnect
<1>3. CASE Write
  <2>1. air' = [request |-> Steps[step], key |-> key, challenge |-> challenge]
    BY <1>3 DEF Write
  <2>2. OnAir'
    BY <1>3, <2>1 DEF Write, OnAir
  <2> QED  BY <1>3, <2>2 DEF Write, FlowAt, CredentialsWork
<1>4. CASE WriteFails \/ NoAnswer
  BY <1>4, AttemptFailsKeeps DEF WriteFails, NoAnswer
<1>5. CASE Undecodable
  BY <1>5, FinishPairingKeeps DEF Undecodable
<1>6. CASE Answer
  BY <1>6, AnswerKeeps
<1>7. CASE OpenerServes
  BY <1>7, OpenerServesKeeps
<1>8. CASE PairingMode \/ LinkDrops
  BY <1>8 DEF PairingMode, LinkDrops, LinkEnds, FlowAt, OnAir, CredentialsWork
<1>9. CASE Surroundings
  BY <1>9 DEF Surroundings, AppConnects, AppLeaves, OrphanEnds, Presence, FlowAt, OnAir,
     CredentialsWork
<1> QED
  BY <1>1, <1>2, <1>3, <1>4, <1>5, <1>6, <1>7, <1>8, <1>9 DEF PairingNext, PairClient

\* An entry that pairing made has credentials the Opener knows, whatever was lost and sent again.
THEOREM PairedCredentialsWork ==
    PairingInit /\ [][PairingNext]_pairingVars => []CredentialsWork
<1>1. PairingInv /\ UNCHANGED pairingVars => PairingInv'
  BY DEF PairingInv, FlowAt, OnAir, CredentialsWork, pairingVars, radio, opener, flowVars
<1>2. PairingInv => CredentialsWork
  BY DEF PairingInv
<1> QED  BY <1>1, <1>2, PairingInitInv, PairingStepKeeps, PTL

-----------------------------------------------------------------------------
(* The entry.                                                              *)

EntryTypes ==
    /\ op \in [Clients -> Nat] /\ timer \subseteq Clients
    /\ client \in Clients \cup {None}
    /\ reloads \in Nat
    /\ checking # None => checking.client \in Clients

\* What is there at each point of setup and unload.
Staged ==
    /\ (state \notin {"setup", "loaded", "unload"} \/ (state = "setup" /\ stage = "update"))
         => ~started /\ added = {}
    /\ state = "unload" => added = {}
    /\ state \in {"none", "not_loaded"} => client = None
    /\ state \in {"setup", "loaded", "unload"} => client # None
    /\ state = "loaded" => listening

\* Whoever has the link will close it, and a client that setup gave up has none.
LinksHeld ==
    /\ holder \in Clients => holder \in Running \cup timer
    /\ (state = "retry" /\ client # None) => holder # client /\ client \notin Running \cup timer

\* From the moment that setup reads the options.
OptionsRead ==
    (state \in {"setup", "loaded"} /\ ~unnoticed /\ (state = "loaded" => reloads = 0)) => Taken

\* The switch, and while there is none what it will be restored from.
DoorbellKept ==
    IF "switch" \in added THEN doorbell_notifications_enabled => choice
    ELSE last_state \in {None, "on"} => choice

EntryInv == PairingInv /\ EntryTypes /\ Staged /\ LinksHeld /\ OptionsRead /\ DoorbellKept

USE ClientsAssumption, PinAssumption, LifecycleBoundsAssumption
USE DEF radio, paired, clientVars, entryVars, optionVars, doorbellVars

-----------------------------------------------------------------------------
\* What may happen, an action at a time; of the pairing, what it has to do with an entry.
PairingSteps ==
    PairingNext /\ UNCHANGED <<clientVars, entryVars, optionVars, doorbellVars, known, used>>

LEMMA PairingTakesNoClientLink ==
    ASSUME PairingNext
    PROVE  holder' \in {holder, None, "app", "orphan", "pairing"}
<1>1. ASSUME NEW how, NEW made, FinishPairing(how, made)
      PROVE  holder' \in {holder, None, "orphan"}
  BY <1>1 DEF FinishPairing, Disconnect, LinkCloses
<1>2. AttemptFails => holder' \in {holder, None, "orphan"}
  BY <1>1 DEF AttemptFails, Disconnect, LinkCloses
<1>3. CASE ChooseMethod \/ SubmitAbsent \/ Submit \/ EnterCredentials(MaxPairs + 1)
  BY <1>3 DEF ChooseMethod, SubmitAbsent, Submit, EnterCredentials, CloseStale
<1>4. CASE PairClient
  BY <1>1, <1>2, <1>4 DEF PairClient, PairConnect, Write, WriteFails, NoAnswer, Undecodable,
     Answer, LinkCloses
<1>5. CASE OpenerServes \/ PairingMode \/ LinkDrops \/ Surroundings
  BY <1>5 DEF OpenerServes, PairingMode, LinkDrops, Surroundings, AppConnects, AppLeaves,
     OrphanEnds, Presence
<1> QED  BY <1>3, <1>4, <1>5 DEF PairingNext

LEMMA EntryInitInv == Init => EntryInv
  BY PairingInitInv DEF Init, PairingInit, EntryInv, EntryTypes, Staged, LinksHeld, OptionsRead,
     Taken, DoorbellKept

-----------------------------------------------------------------------------
\* The entry and its clients take no part in the pairing, and none of them has its link.
LEMMA PairingInvKept == ASSUME EntryInv, Next PROVE PairingInv'
<1> USE DEF EntryInv
<1>1. CASE PairingSteps
  BY <1>1, PairingStepKeeps DEF PairingSteps
<1>2. CASE EntryExists
  BY <1>2 DEF EntryExists, PairingInv, FlowAt, OnAir, CredentialsWork
<1>3. CASE UNCHANGED paired /\ (holder' = holder \/ holder' # "pairing")
  BY <1>3 DEF PairingInv, FlowAt, OnAir, CredentialsWork, opener, flowVars
<1>4. ASSUME NEW c \in Clients, Connect(c) \/ ClientTask(c)
      PROVE  UNCHANGED paired /\ (holder' = holder \/ holder' # "pairing")
  <2>1. CASE Connect(c)
    BY <2>1 DEF Connect
  <2>2. CASE TimerFires(c) \/ AttemptFailed(c) \/ (c = client /\ SetupFails)
    BY <2>2 DEF TimerFires, AttemptFailed, SetupFails, Idle, Disconnect, LinkCloses
  <2>3. CASE OperationDone(c) \/ OperationFails(c) \/ SetupUpdated
    BY <2>3 DEF OperationDone, OperationFails, SetupUpdated
  <2>4. CASE Checked \/ CheckFails
    BY <2>4 DEF Checked, CheckFails
  <2> QED  BY <1>4, <2>1, <2>2, <2>3, <2>4 DEF ClientTask
<1>5. CASE \E c \in Clients : Connect(c) \/ ClientTask(c)
  BY <1>3, <1>4, <1>5
<1>6. CASE AddEvent \/ AddSwitch \/ SetupDone \/ Reload \/ Leave \/ UnloadDisconnect \/ Unloaded
  BY <1>3, <1>6 DEF AddEvent, AddSwitch, SetupDone, Reload, Leave, UnloadPlatforms,
     UnloadDisconnect, Unloaded, Idle, Disconnect, LinkCloses
<1>7. CASE Retry \/ Operate \/ Remove \/ Restart \/ ClientLinkDrops
  BY <1>3, <1>7 DEF Retry, SetupAbsent, Setup, CloseStale, Operate, Remove, Restart,
     ClientLinkDrops
<1>8. CASE \E pin \in Pins \cup {None} : SubmitUnchecked(pin) \/ SubmitPin(pin)
  BY <1>3, <1>8 DEF SubmitUnchecked, SubmitPin
<1>9. CASE \E on \in BOOLEAN : Turn(on)
  BY <1>3, <1>9 DEF Turn
<1> QED
  BY <1>1, <1>2, <1>5, <1>6, <1>7, <1>8, <1>9 DEF Next, EntryTask, PairingSteps

LEMMA EntryTypesKept == ASSUME EntryInv, Next PROVE EntryTypes'
<1> USE DEF EntryInv, EntryTypes
<1>1. CASE PairingSteps \/ ClientLinkDrops \/ EntryExists \/ \E on \in BOOLEAN : Turn(on)
  BY <1>1 DEF PairingSteps, ClientLinkDrops, EntryExists, Turn
<1>2. CASE AddEvent \/ AddSwitch \/ SetupDone \/ Reload \/ Leave \/ UnloadDisconnect \/ Unloaded
  BY <1>2 DEF AddEvent, AddSwitch, SetupDone, Reload, Leave, UnloadPlatforms, UnloadDisconnect,
     Idle, Unloaded, Forget
<1>3. CASE Retry
  BY <1>3 DEF Retry, SetupAbsent, Setup, Start, ReloadRuns
<1>4. CASE Operate \/ Remove \/ Restart
  BY <1>4 DEF Operate, Start, Remove, Restart, Forget
<1>5. ASSUME NEW c \in Clients, Connect(c) \/ ClientTask(c)
      PROVE  EntryTypes'
  <2>1. CASE Connect(c) \/ TimerFires(c) \/ AttemptFailed(c)
    BY <2>1 DEF Connect, TimerFires, AttemptFailed, Idle, Running
  <2>2. CASE OperationDone(c) \/ OperationFails(c) \/ (c = client /\ (SetupUpdated \/ SetupFails))
    BY <2>2 DEF OperationDone, OperationFails, SetupUpdated, SetupFails, Ended, Idle
  <2>3. CASE OfCheck(c) /\ (Checked \/ CheckFails)
    BY <2>3 DEF OfCheck, Checked, CheckFails, Ended, Store
  <2> QED  BY <1>5, <2>1, <2>2, <2>3 DEF ClientTask
<1>6. CASE \E pin \in Pins \cup {None} : SubmitUnchecked(pin) \/ SubmitPin(pin)
  <2>1. CASE \E pin : SubmitUnchecked(pin)
    BY <2>1 DEF SubmitUnchecked, Store
  <2>2. CASE \E pin : SubmitPin(pin)
    BY <2>2 DEF SubmitPin, Start, Staged
  <2> QED  BY <1>6, <2>1, <2>2
<1> QED
  BY <1>1, <1>2, <1>3, <1>4, <1>5, <1>6 DEF Next, EntryTask, PairingSteps

\* Only setup and unload change what is there.
LEMMA StagedKept == ASSUME EntryInv, Next PROVE Staged'
<1> USE DEF EntryInv, Staged
<1>1. CASE UNCHANGED <<state, stage, started, added, client, listening>>
  BY <1>1
<1>2. CASE PairingSteps \/ ClientLinkDrops \/ Operate \/ \E on \in BOOLEAN : Turn(on)
  BY <1>1, <1>2 DEF PairingSteps, ClientLinkDrops, Operate, Turn
<1>3. CASE EntryExists \/ Remove \/ Restart
  BY <1>3 DEF EntryExists, Remove, Restart, Forget
<1>4. CASE Retry
  BY <1>4 DEF Retry, SetupAbsent, Setup
<1>5. CASE AddEvent \/ AddSwitch \/ SetupDone
  BY <1>5 DEF AddEvent, AddSwitch, SetupDone
<1>6. CASE Reload \/ Leave \/ UnloadDisconnect \/ Unloaded
  BY <1>6 DEF Reload, Leave, UnloadPlatforms, UnloadDisconnect, Unloaded, Forget
<1>7. ASSUME NEW c \in Clients, Connect(c) \/ ClientTask(c)
      PROVE  Staged'
  <2>1. CASE Connect(c) \/ TimerFires(c) \/ AttemptFailed(c) \/ OperationDone(c)
             \/ OperationFails(c)
    BY <1>1, <2>1 DEF Connect, TimerFires, AttemptFailed, OperationDone, OperationFails
  <2>2. CASE SetupUpdated \/ SetupFails
    BY <2>2 DEF SetupUpdated, SetupFails, OfSetup
  <2>3. CASE Checked \/ CheckFails
    BY <1>1, <2>3 DEF Checked, CheckFails, Store
  <2> QED  BY <1>7, <2>1, <2>2, <2>3 DEF ClientTask
<1>8. CASE \E pin \in Pins \cup {None} : SubmitUnchecked(pin) \/ SubmitPin(pin)
  BY <1>1, <1>8 DEF SubmitUnchecked, SubmitPin, Store
<1> QED
  BY <1>2, <1>3, <1>4, <1>5, <1>6, <1>7, <1>8 DEF Next, EntryTask, PairingSteps

-----------------------------------------------------------------------------
\* Ends of an operation leave the link to the timer, the others to nobody.
LEMMA LinksHeldKept == ASSUME EntryInv, Next PROVE LinksHeld'
<1> USE DEF EntryInv, EntryTypes, LinksHeld, Running
<1>1. CASE /\ UNCHANGED <<clientVars, state>>
           /\ holder' \in {holder, None, "app", "orphan", "pairing"}
  BY <1>1
<1>2. CASE PairingSteps
  BY <1>1, <1>2, PairingTakesNoClientLink DEF PairingSteps
<1>3. CASE ClientLinkDrops \/ AddEvent \/ AddSwitch \/ \E on \in BOOLEAN : Turn(on)
  BY <1>1, <1>3 DEF ClientLinkDrops, AddEvent, AddSwitch, Turn
<1>4. CASE EntryExists \/ SetupDone \/ Reload \/ Leave \/ Unloaded \/ Remove \/ Restart
  BY <1>4 DEF EntryExists, SetupDone, Reload, Leave, UnloadPlatforms, Unloaded, Remove, Restart
<1>5. CASE UnloadDisconnect
  BY <1>5 DEF UnloadDisconnect, Idle, Disconnect, LinkCloses
<1>6. CASE Retry
  <2>1. CASE SetupAbsent
    BY <2>1 DEF SetupAbsent, Staged
  <2>2. ASSUME NEW c \in Clients, Setup(c) PROVE LinksHeld'
    BY <2>2 DEF Setup, CloseStale, Start
  <2> QED  BY <1>6, <2>1, <2>2 DEF Retry
<1>7. CASE Operate
  BY <1>7 DEF Operate, Start, Staged
<1>8. ASSUME NEW c \in Clients, Connect(c) \/ ClientTask(c)
      PROVE  LinksHeld'
  <2>1. CASE Connect(c)
    BY <2>1 DEF Connect
  <2>2. CASE TimerFires(c) \/ AttemptFailed(c)
    BY <2>2 DEF TimerFires, AttemptFailed, Idle, Disconnect, LinkCloses
  <2>3. CASE OperationDone(c) \/ OperationFails(c)
    BY <2>3 DEF OperationDone, OperationFails, Ended
  <2>4. CASE c = client /\ SetupUpdated
    BY <2>4 DEF SetupUpdated, OfSetup, Ended
  <2>5. CASE c = client /\ SetupFails
    BY <2>5 DEF SetupFails, Idle, Disconnect, LinkCloses
  <2>6. CASE OfCheck(c) /\ (Checked \/ CheckFails)
    BY <2>6 DEF OfCheck, Checked, CheckFails, Ended, Store
  <2> QED  BY <1>8, <2>1, <2>2, <2>3, <2>4, <2>5, <2>6 DEF ClientTask
<1>9. CASE \E pin \in Pins \cup {None} : SubmitUnchecked(pin) \/ SubmitPin(pin)
  BY <1>9 DEF SubmitUnchecked, SubmitPin, Store, Start
<1> QED
  BY <1>2, <1>3, <1>4, <1>5, <1>6, <1>7, <1>8, <1>9 DEF Next, EntryTask, PairingSteps

-----------------------------------------------------------------------------
\* Options that change are noticed by the listener of a loaded entry, or unnoticed says so.
LEMMA StoreKeepsOptionsRead ==
    ASSUME EntryInv, NEW pin, Store(pin)
    PROVE  OptionsRead'
<1> USE DEF EntryInv, OptionsRead, Taken
<1>1. CASE pin = options
  <2>1. UNCHANGED <<state, reloads, options, in_effect>> /\ (unnoticed' <=> unnoticed)
    BY <1>1, Zenon DEF Store
  <2> QED  BY <2>1
<1>2. CASE pin # options /\ state = "setup"
  <2>1. unnoticed'
    BY <1>2, Zenon DEF Store
  <2> QED  BY <2>1
<1>3. CASE pin # options /\ state = "loaded"
  BY <1>3 DEF EntryTypes, Staged, Store
<1> QED  BY <1>1, <1>2, <1>3 DEF Store

\* A PIN is forgotten only if it is wrong.
LEMMA RefusalKeepsOptionsRead ==
    ASSUME EntryInv, PinRefused, UNCHANGED <<options, unnoticed, state, reloads>>
    PROVE  OptionsRead'
  BY DEF EntryInv, OptionsRead, Taken, PinRefused

LEMMA OptionsReadKept == ASSUME EntryInv, Next PROVE OptionsRead'
<1> USE DEF EntryInv, OptionsRead, Taken
<1>1. CASE UNCHANGED <<options, in_effect, unnoticed, state, reloads>>
  BY <1>1
<1>2. CASE PairingSteps \/ ClientLinkDrops \/ Operate \/ \E on \in BOOLEAN : Turn(on)
  BY <1>1, <1>2 DEF PairingSteps, ClientLinkDrops, Operate, Turn
<1>3. CASE state' \notin {"setup", "loaded"}
  BY <1>3
<1>4. CASE EntryExists \/ Reload \/ Leave \/ UnloadDisconnect \/ Unloaded \/ Remove \/ Restart
  BY <1>3, <1>4 DEF EntryExists, Reload, Leave, UnloadPlatforms, UnloadDisconnect, Unloaded,
     Remove, Restart
<1>5. CASE Retry
  BY <1>5 DEF Retry, SetupAbsent, Setup
<1>6. CASE AddEvent \/ AddSwitch \/ SetupDone
  BY <1>6 DEF AddEvent, AddSwitch, SetupDone
<1>7. ASSUME NEW c \in Clients, Connect(c) \/ ClientTask(c)
      PROVE  OptionsRead'
  <2>1. CASE Connect(c) \/ TimerFires(c) \/ AttemptFailed(c) \/ OperationFails(c) \/ CheckFails
    BY <1>1, <2>1 DEF Connect, TimerFires, AttemptFailed, OperationFails, CheckFails
  <2>4. CASE OperationDone(c) \/ SetupUpdated
    BY <1>1, <2>4, RefusalKeepsOptionsRead DEF OperationDone, SetupUpdated
  <2>2. CASE SetupFails
    BY <1>3, <2>2 DEF SetupFails
  <2>3. CASE Checked
    BY <1>1, <2>3, StoreKeepsOptionsRead DEF Checked
  <2> QED  BY <1>7, <2>1, <2>2, <2>3, <2>4 DEF ClientTask
<1>8. CASE \E pin \in Pins \cup {None} : SubmitUnchecked(pin) \/ SubmitPin(pin)
  <2>1. ASSUME NEW pin \in Pins \cup {None}, SubmitUnchecked(pin) \/ SubmitPin(pin)
        PROVE  Store(pin) \/ UNCHANGED <<options, in_effect, unnoticed, state, reloads>>
    BY <2>1 DEF SubmitUnchecked, SubmitPin
  <2> QED  BY <1>1, <1>8, <2>1, StoreKeepsOptionsRead
<1> QED
  BY <1>2, <1>4, <1>5, <1>6, <1>7, <1>8 DEF Next, EntryTask, PairingSteps

-----------------------------------------------------------------------------
\* What is written of a switch can be restored from: "on" only if the user wants the rings.
LEMMA WrittenKeepsChoice ==
    ASSUME EntryInv, Written \in {None, "on"}
    PROVE  choice
  BY DEF EntryInv, DoorbellKept, Written

LEMMA DoorbellKeptKept == ASSUME EntryInv, Next PROVE DoorbellKept'
<1> USE DEF EntryInv, DoorbellKept
<1>1. CASE UNCHANGED doorbellVars
  BY <1>1
<1>2. CASE PairingSteps \/ ClientLinkDrops \/ Operate \/ EntryExists \/ SetupDone \/ Remove
  BY <1>1, <1>2 DEF PairingSteps, ClientLinkDrops, Operate, EntryExists, SetupDone, Remove
<1>3. CASE Retry
  BY <1>3 DEF Retry, SetupAbsent, Setup, Staged
<1>4. CASE AddEvent \/ AddSwitch
  <2>1. CASE AddEvent
    BY <2>1 DEF AddEvent
  <2>2. CASE AddSwitch
    <3>1. /\ "switch" \notin added /\ "switch" \in added' /\ choice' = choice
          /\ doorbell_notifications_enabled' =
               IF last_state = None THEN doorbell_notifications_enabled ELSE last_state = "on"
      BY <2>2 DEF AddSwitch
    <3>2. CASE last_state = None
      BY <3>1, <3>2
    <3>3. CASE last_state # None
      <4>1. doorbell_notifications_enabled' <=> last_state = "on"
        BY <3>1, <3>3, Zenon
      <4> QED  BY <3>1, <4>1
    <3> QED  BY <3>2, <3>3
  <2> QED  BY <1>4, <2>1, <2>2
<1>5. CASE Reload \/ Leave \/ Restart
  <2>1. added' = {} /\ last_state' = Written /\ choice' = choice
    BY <1>5 DEF Reload, Leave, UnloadPlatforms, Restart
  <2> QED  BY <2>1, WrittenKeepsChoice
<1>6. CASE UnloadDisconnect \/ Unloaded
  BY <1>6 DEF UnloadDisconnect, Unloaded, Forget, Staged
<1>7. ASSUME NEW c \in Clients, Connect(c) \/ ClientTask(c)
      PROVE  UNCHANGED doorbellVars
  <2>1. CASE \/ Connect(c) \/ TimerFires(c) \/ AttemptFailed(c) \/ OperationDone(c)
             \/ OperationFails(c) \/ SetupUpdated \/ SetupFails
    BY <2>1 DEF Connect, TimerFires, AttemptFailed, OperationDone, OperationFails, SetupUpdated,
       SetupFails
  <2>2. CASE Checked \/ CheckFails
    BY <2>2 DEF Checked, CheckFails
  <2> QED  BY <1>7, <2>1, <2>2 DEF ClientTask
<1>8. CASE \E pin \in Pins \cup {None} : SubmitUnchecked(pin) \/ SubmitPin(pin)
  BY <1>1, <1>8 DEF SubmitUnchecked, SubmitPin
<1>9. CASE \E on \in BOOLEAN : Turn(on)
  BY <1>9 DEF Turn
<1> QED
  BY <1>1, <1>2, <1>3, <1>4, <1>5, <1>6, <1>7, <1>8, <1>9 DEF Next, EntryTask, PairingSteps

-----------------------------------------------------------------------------
\* The invariant of entries holds over every life of one.
THEOREM EntryInvariance == Spec => []EntryInv
<1>1. EntryInv /\ UNCHANGED vars => EntryInv'
  BY DEF EntryInv, PairingInv, FlowAt, OnAir, CredentialsWork, EntryTypes, Staged, LinksHeld,
     OptionsRead, Taken, DoorbellKept, Running, vars, pairingVars, opener, flowVars
<1>2. EntryInv /\ Next => EntryInv'
  BY PairingInvKept, EntryTypesKept, StagedKept, LinksHeldKept, OptionsReadKept,
     DoorbellKeptKept DEF EntryInv
<1> QED  BY <1>1, <1>2, EntryInitInv, PTL DEF Spec

\* The credentials of a pairing work, also while the Opener's surroundings go on as they do
\* over the life of an entry (client.py:601-696).
THEOREM EntryCredentialsWork == Spec => []CredentialsWork
<1>1. EntryInv => CredentialsWork
  BY DEF EntryInv, PairingInv
<1> QED  BY <1>1, EntryInvariance, PTL

\* A link of the Opener always has someone who will close it, and the client of a failed setup
\* has none (__init__.py:69-77, client.py:615-623).
THEOREM LinksAreNotLeft == Spec => []NoLinkLeft
<1>1. EntryInv => NoLinkLeft
  BY DEF EntryInv, PairingInv, FlowAt, LinksHeld, NoLinkLeft
<1> QED  BY <1>1, EntryInvariance, PTL

\* A loaded entry works with the PIN that is stored, or without one if the Opener has refused
\* it, unless it is about to be reloaded or its setup missed the change (__init__.py:66, 88-94,
\* device.py:281-284).
THEOREM StoredOptionsAreInEffect == Spec => []OptionsInEffect
<1>1. EntryInv => OptionsInEffect
  BY DEF EntryInv, OptionsRead, OptionsInEffect
<1> QED  BY <1>1, EntryInvariance, PTL

\* A ring the user has silenced stays so, over reloads, removals and restarts
\* (switch.py:149-164, event.py:40-48).
THEOREM SilencedRingsStaySilent == Spec => []RingsSilenced
<1>1. EntryInv => RingsSilenced
  BY DEF EntryInv, DoorbellKept, RingsSilenced, RingSurfaces
<1> QED  BY <1>1, EntryInvariance, PTL

=============================================================================
