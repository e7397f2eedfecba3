-------------------------- MODULE NukiClientProofs --------------------------
(***************************************************************************)
(* The safety invariants of NukiClient hold for any number of tasks, links *)
(* and attempts.                                                           *)
(*                                                                         *)
(* NoLeakedLink is not inductive: that establishing a link leaks no other  *)
(* needs that there is no connected client while connect() awaits, that    *)
(* returning arms the timer needs that the one who returns holds the lock, *)
(* and so on.  IndInv adds those facts.                                    *)
(***************************************************************************)
EXTENDS NukiClient, TLAPS

\* A task is inside an operation iff it holds the operation lock.
LockOwner == \A t \in Tasks : pc[t] \in Holding <=> holder = t

\* connect() goes to the radio only when there is no connected client.
NoneWhileEstablishing == \A t \in Tasks : pc[t] = "establish" => ~Connected

\* While an operation subscribes, nothing but unload can take its client away.
ClientWhileSubscribing ==
    \A t \in Tasks : pc[t] = "subscribe" =>
        ~disconnectTask /\ (stopped \/ client # NoLink)

IndInv ==
    /\ TypeOK
    /\ LockOwner
    /\ OneCommandInFlight
    /\ TimerOnlyWhenIdle
    /\ NoLeakedLink
    /\ NoneWhileEstablishing
    /\ ClientWhileSubscribing
    /\ ClientPresent

USE TasksAssumption, LinksAssumption, AttemptsAssumption, RequestsAssumption,
    StopAssumption

-----------------------------------------------------------------------------
(* What the shared pieces of the actions preserve, for the lock's holder.  *)

\* Every way an operation can end keeps the invariant.
LEMMA FinishKeeps ==
    ASSUME IndInv, NEW t \in Tasks, holder = t, Finish(t)
    PROVE  IndInv'
<1> USE DEF IndInv, Finish, Goto
<1>1. TypeOK'
  BY DEF TypeOK, PCs, Holding, Requesting, Connected
<1>2. LockOwner'
  BY DEF TypeOK, LockOwner, Holding, Requesting
<1>3. OneCommandInFlight' /\ TimerOnlyWhenIdle'
  BY DEF OneCommandInFlight, TimerOnlyWhenIdle
<1>4. NoLeakedLink'
  BY DEF TypeOK, NoLeakedLink, Connected
<1>5. NoneWhileEstablishing' /\ ClientWhileSubscribing' /\ ClientPresent'
  BY DEF TypeOK, NoneWhileEstablishing, ClientWhileSubscribing,
         ClientPresent, Connected
<1> QED  BY <1>1, <1>2, <1>3, <1>4, <1>5


\* disconnect() leaves no link up: the connected one is the client's.
LEMMA DisconnectClears ==
    ASSUME TypeOK, NoLeakedLink, Disconnect
    PROVE  /\ link' \in [Links -> LinkStates]
           /\ \A l \in Links : link'[l] # "up"
           /\ client' = NoLink
           /\ timer' = FALSE
  BY DEF TypeOK, NoLeakedLink, Disconnect, Connected, LinkStates

\* Sending a request, as the operation's first, next or repeated one.
LEMMA SendKeeps ==
    ASSUME IndInv, NEW t \in Tasks, Send(t),
           \/ holder = t
           \/ holder = NoTask /\ pc[t] = "waiting",
           holder' = t,
           attempt' \in 0 .. RequestAttempts - 1,
           requests' \in 0 .. MaxRequests,
           UNCHANGED <<disconnectTask, stopped>>
    PROVE  IndInv'
<1> USE DEF IndInv, Send, Goto
<1>1. TypeOK'
  BY DEF TypeOK, PCs, Holding, Requesting, Connected
<1>2. LockOwner'
  BY DEF TypeOK, LockOwner, Holding, Requesting
<1>3. OneCommandInFlight' /\ TimerOnlyWhenIdle'
  BY DEF TypeOK, OneCommandInFlight, TimerOnlyWhenIdle, Requesting
<1>4. NoLeakedLink'
  BY DEF TypeOK, NoLeakedLink
<1>5. NoneWhileEstablishing'
  BY DEF TypeOK, NoneWhileEstablishing, Connected, LockOwner, Holding, Requesting
<1>6. ClientWhileSubscribing' /\ ClientPresent'
  BY DEF TypeOK, ClientWhileSubscribing, ClientPresent
<1> QED  BY <1>1, <1>2, <1>3, <1>4, <1>5, <1>6

\* A failed attempt either starts over, having disconnected, or gives up.
LEMMA AttemptFailsKeeps ==
    ASSUME IndInv, NEW t \in Tasks, holder = t, AttemptFails(t)
    PROVE  IndInv'
<1>1. CASE Finish(t)
  BY <1>1, FinishKeeps
<1>2. CASE /\ ~LastAttempt
           /\ attempt' = attempt + 1
           /\ pending' = "none"
           /\ Disconnect
           /\ \/ Connected /\ Goto(t, "closing") /\ using' = client
              \/ ~Connected /\ Goto(t, "sleep") /\ using' = NoLink
           /\ UNCHANGED <<holder, requests, disconnectTask, stopped>>
  <2> USE <1>2 DEF IndInv, Goto
  <2>1. /\ link' \in [Links -> LinkStates]
        /\ \A l \in Links : link'[l] # "up"
        /\ client' = NoLink
        /\ timer' = FALSE
    BY DisconnectClears
  <2>2. TypeOK'
    <3>1. attempt' \in 0 .. RequestAttempts - 1
      BY AttemptsAssumption DEF TypeOK, LastAttempt
    <3>2. pc' \in [Tasks -> PCs]
      BY DEF TypeOK, PCs, Holding
    <3>3. using' \in Links \cup {NoLink}
      BY DEF TypeOK
    <3> QED  BY <2>1, <3>1, <3>2, <3>3 DEF TypeOK
  <2>3. LockOwner'
    BY DEF TypeOK, LockOwner, Holding, Requesting
  <2>4. OneCommandInFlight' /\ TimerOnlyWhenIdle'
    BY <2>1 DEF TypeOK, OneCommandInFlight, TimerOnlyWhenIdle, Requesting
  <2>5. NoLeakedLink' /\ NoneWhileEstablishing'
    BY <2>1 DEF NoLeakedLink, NoneWhileEstablishing, Connected
  <2>6. ClientWhileSubscribing' /\ ClientPresent'
    BY DEF TypeOK, LockOwner, Holding, Requesting, ClientWhileSubscribing, ClientPresent
  <2> QED  BY <2>2, <2>3, <2>4, <2>5, <2>6
<1> QED  BY <1>1, <1>2 DEF AttemptFails

-----------------------------------------------------------------------------
(* Initially, and for each action.                                         *)

LEMMA InitIndInv == Init => IndInv
<1> SUFFICES ASSUME Init PROVE IndInv
  OBVIOUS
<1> USE DEF Init
<1>1. TypeOK
  <2>1. attempt \in 0 .. RequestAttempts - 1 /\ requests \in 0 .. MaxRequests
    OBVIOUS
  <2>2. pc \in [Tasks -> PCs]
    BY DEF PCs
  <2>3. link \in [Links -> LinkStates]
    BY DEF LinkStates
  <2> QED  BY <2>1, <2>2, <2>3 DEF TypeOK
<1>2. LockOwner
  BY DEF LockOwner, Holding, Requesting
<1>3. OneCommandInFlight /\ TimerOnlyWhenIdle /\ NoLeakedLink
  BY DEF OneCommandInFlight, TimerOnlyWhenIdle, NoLeakedLink
<1>4. NoneWhileEstablishing /\ ClientWhileSubscribing /\ ClientPresent
  BY DEF NoneWhileEstablishing, ClientWhileSubscribing, ClientPresent
<1> QED  BY <1>1, <1>2, <1>3, <1>4 DEF IndInv

\* Steps of the holder that end an attempt, the operation, or begin a request.
LEMMA NextRequestKeeps ==
    ASSUME IndInv, NEW t \in Tasks, holder = t, NextRequest(t)
    PROVE  IndInv'
<1>1. /\ attempt' \in 0 .. RequestAttempts - 1
      /\ requests' \in 0 .. MaxRequests
  BY DEF NextRequest, IndInv, TypeOK
<1> QED  BY <1>1, SendKeeps DEF NextRequest

LEMMA ResumeKeeps ==
    ASSUME IndInv, NEW t \in Tasks, Resume(t)
    PROVE  IndInv'
<1>1. pc[t] \in Holding => holder = t
  BY DEF IndInv, LockOwner
<1>2. CASE EstablishOk(t)
  <2> USE <1>2 DEF IndInv, EstablishOk, Goto
  <2>1. holder = t /\ ~Connected /\ ~disconnectTask
    BY <1>1 DEF Holding, Requesting, NoneWhileEstablishing, Resume
  <2>2. PICK l \in Links : /\ link[l] = "free"
                           /\ link' = [link EXCEPT ![l] = "up"]
                           /\ client' = l
                           /\ using' = l
    OBVIOUS
  <2>3. TypeOK'
    BY <2>2 DEF TypeOK, PCs, Holding, Requesting, LinkStates
  <2>4. LockOwner' /\ OneCommandInFlight' /\ TimerOnlyWhenIdle'
    BY <2>1 DEF TypeOK, LockOwner, OneCommandInFlight, TimerOnlyWhenIdle,
                Holding, Requesting
  <2>5. NoLeakedLink'
    BY <2>1, <2>2 DEF TypeOK, NoLeakedLink, Connected
  <2>6. NoneWhileEstablishing'
    BY <2>1 DEF TypeOK, NoneWhileEstablishing, LockOwner, Holding, Requesting
  <2>7. ClientWhileSubscribing' /\ ClientPresent'
    BY <2>1, <2>2 DEF TypeOK, ClientWhileSubscribing, ClientPresent
  <2> QED  BY <2>3, <2>4, <2>5, <2>6, <2>7
<1>3. CASE SubscribeOk(t)
  <2> USE <1>3 DEF IndInv, SubscribeOk, Goto
  <2>1. holder = t
    BY <1>1 DEF Holding, Requesting
  <2>2. TypeOK'
    BY DEF TypeOK, PCs, Holding, Requesting
  <2>3. LockOwner' /\ OneCommandInFlight' /\ TimerOnlyWhenIdle'
    BY <2>1 DEF TypeOK, LockOwner, OneCommandInFlight, TimerOnlyWhenIdle,
                Holding, Requesting
  <2>4. NoLeakedLink' /\ NoneWhileEstablishing'
    BY DEF TypeOK, NoLeakedLink, NoneWhileEstablishing, Connected
  <2>5. ClientWhileSubscribing' /\ ClientPresent'
    BY DEF TypeOK, ClientWhileSubscribing, ClientPresent
  <2> QED  BY <2>2, <2>3, <2>4, <2>5
<1>4. CASE SubscribeFails(t)
  <2> USE <1>4 DEF IndInv, SubscribeFails, Goto
  <2>1. holder = t
    BY <1>1 DEF Holding, Requesting
  <2>2. /\ link' \in [Links -> LinkStates]
        /\ \A l \in Links : link'[l] # "up"
        /\ client' = NoLink
        /\ timer' = FALSE
    BY DisconnectClears
  <2>3. TypeOK'
    BY <2>2 DEF TypeOK, PCs, Holding, Requesting
  <2>4. LockOwner' /\ OneCommandInFlight' /\ TimerOnlyWhenIdle'
    BY <2>1, <2>2 DEF TypeOK, LockOwner, OneCommandInFlight, TimerOnlyWhenIdle,
                Holding, Requesting
  <2>5. NoLeakedLink' /\ NoneWhileEstablishing'
    BY <2>2 DEF NoLeakedLink, NoneWhileEstablishing, Connected
  <2>6. ClientWhileSubscribing' /\ ClientPresent'
    BY <2>1 DEF TypeOK, LockOwner, Holding, Requesting, ClientWhileSubscribing,
                ClientPresent
  <2> QED  BY <2>3, <2>4, <2>5, <2>6
<1>5. CASE WriteOk(t)
  BY <1>1, <1>5 DEF IndInv, WriteOk, Goto, TypeOK, PCs, Holding, Requesting,
     LockOwner, OneCommandInFlight, TimerOnlyWhenIdle, NoLeakedLink, Connected,
     NoneWhileEstablishing, ClientWhileSubscribing, ClientPresent
<1>6. CASE ClosingDone(t)
  BY <1>1, <1>6 DEF IndInv, ClosingDone, Goto, TypeOK, PCs, Holding, Requesting,
     LockOwner, OneCommandInFlight, TimerOnlyWhenIdle, NoLeakedLink, Connected,
     NoneWhileEstablishing, ClientWhileSubscribing, ClientPresent
<1>7. CASE AwaitOk(t)
  <2>1. holder = t
    BY <1>1, <1>7 DEF AwaitOk, Holding, Requesting
  <2>2. CASE Finish(t)
    BY <2>1, <2>2, FinishKeeps
  <2>3. CASE NextRequest(t)
    BY <2>1, <2>3, NextRequestKeeps
  <2>4. CASE /\ Goto(t, "completion")
             /\ pending' = "none"
             /\ UNCHANGED <<holder, attempt, requests, client, using, link, timer,
                            disconnectTask, stopped>>
    BY <2>1, <2>4 DEF IndInv, Goto, TypeOK, PCs, Holding, Requesting,
       LockOwner, OneCommandInFlight, TimerOnlyWhenIdle, NoLeakedLink, Connected,
       NoneWhileEstablishing, ClientWhileSubscribing, ClientPresent
  <2> QED  BY <1>7, <2>2, <2>3, <2>4 DEF AwaitOk
<1>8. CASE EstablishFails(t) \/ UnsubscribeDone(t) \/ WriteFails(t) \/ AwaitFails(t)
  <2>1. holder = t /\ AttemptFails(t)
    BY <1>1, <1>8 DEF EstablishFails, UnsubscribeDone, WriteFails, AwaitFails,
       Holding, Requesting
  <2> QED  BY <2>1, AttemptFailsKeeps
<1>9. CASE AwaitRaises(t) \/ CompletionEnds(t) \/ CrashEnds(t)
  <2>1. holder = t /\ (Finish(t) \/ NextRequest(t))
    BY <1>1, <1>9 DEF AwaitRaises, CompletionEnds, CrashEnds, Holding, Requesting
  <2> QED  BY <2>1, FinishKeeps, NextRequestKeeps
<1>10. CASE Retry(t)
  <2>1. holder = t /\ Send(t) /\ UNCHANGED <<holder, attempt, requests, disconnectTask, stopped>>
    BY <1>1, <1>10 DEF Retry, Holding
  <2>2. attempt' \in 0 .. RequestAttempts - 1 /\ requests' \in 0 .. MaxRequests
    BY <2>1 DEF IndInv, TypeOK
  <2> QED  BY <2>1, <2>2, SendKeeps
<1> QED  BY <1>2, <1>3, <1>4, <1>5, <1>6, <1>7, <1>8, <1>9, <1>10 DEF Resume

LEMMA CancelKeeps ==
    ASSUME IndInv, NEW t \in Tasks, Cancel(t)
    PROVE  IndInv'
<1>1. CASE pc[t] \in Holding \ {"crash"} /\ Finish(t)
  <2>1. holder = t
    BY <1>1 DEF IndInv, LockOwner
  <2> QED  BY <1>1, <2>1, FinishKeeps
<1>2. CASE /\ pc[t] = "waiting"
           /\ Goto(t, "idle")
           /\ UNCHANGED <<holder, attempt, requests, pending, client, using, link,
                          timer, disconnectTask, stopped>>
  BY <1>2 DEF IndInv, Goto, TypeOK, PCs, Holding, Requesting,
     LockOwner, OneCommandInFlight, TimerOnlyWhenIdle, NoLeakedLink, Connected,
     NoneWhileEstablishing, ClientWhileSubscribing, ClientPresent
<1> QED  BY <1>1, <1>2 DEF Cancel

\* The idle disconnect task and unload both run disconnect() beside the holder.
LEMMA OutsideDisconnectKeeps ==
    ASSUME IndInv, DisconnectTaskRuns \/ Stop
    PROVE  IndInv'
<1> USE DEF IndInv
<1>1. Disconnect /\ UNCHANGED <<pc, holder, attempt, requests, pending, using>>
  BY DEF DisconnectTaskRuns, Stop
<1>2. /\ link' \in [Links -> LinkStates]
      /\ \A l \in Links : link'[l] # "up"
      /\ client' = NoLink
      /\ timer' = FALSE
  BY <1>1, DisconnectClears
<1>3. /\ disconnectTask' \in BOOLEAN /\ stopped' \in BOOLEAN
      /\ disconnectTask' => disconnectTask
      /\ stopped => stopped'
      /\ disconnectTask \/ stopped'
  <2>1. CASE DisconnectTaskRuns
    BY <2>1 DEF TypeOK, DisconnectTaskRuns
  <2>2. CASE Stop
    BY <2>2 DEF TypeOK, Stop
  <2> QED  BY <2>1, <2>2
<1>4. TypeOK'
  BY <1>1, <1>2, <1>3 DEF TypeOK
<1>5. LockOwner' /\ OneCommandInFlight' /\ TimerOnlyWhenIdle'
  BY <1>1, <1>2 DEF LockOwner, OneCommandInFlight, TimerOnlyWhenIdle
<1>6. NoLeakedLink' /\ NoneWhileEstablishing'
  BY <1>2 DEF NoLeakedLink, NoneWhileEstablishing, Connected
<1>7. ClientWhileSubscribing' /\ ClientPresent'
  BY <1>1, <1>3 DEF ClientWhileSubscribing, ClientPresent
<1> QED  BY <1>4, <1>5, <1>6, <1>7

LEMMA StepKeeps == IndInv /\ [Next]_vars => IndInv'
<1> SUFFICES ASSUME IndInv, [Next]_vars PROVE IndInv'
  OBVIOUS
<1>1. ASSUME NEW t \in Tasks, Call(t) PROVE IndInv'
  BY <1>1 DEF IndInv, Call, Goto, TypeOK, PCs, Holding, Requesting, LockOwner,
     OneCommandInFlight, TimerOnlyWhenIdle, NoLeakedLink, Connected,
     NoneWhileEstablishing, ClientWhileSubscribing, ClientPresent
<1>2. ASSUME NEW t \in Tasks, Start(t) PROVE IndInv'
  <2>1. attempt' \in 0 .. RequestAttempts - 1 /\ requests' \in 0 .. MaxRequests
    BY <1>2 DEF Start
  <2> QED  BY <1>2, <2>1, SendKeeps DEF Start
<1>3. ASSUME NEW t \in Tasks, Resume(t) PROVE IndInv'
  BY <1>3, ResumeKeeps
<1>4. ASSUME NEW t \in Tasks, Cancel(t) PROVE IndInv'
  BY <1>4, CancelKeeps
<1>5. CASE Notification
  BY <1>5 DEF IndInv, Notification, TypeOK, LockOwner, Requesting,
     OneCommandInFlight, TimerOnlyWhenIdle, NoLeakedLink, Connected,
     NoneWhileEstablishing, ClientWhileSubscribing, ClientPresent
<1>6. CASE IdleDisconnect
  <2>1. \A t \in Tasks : pc[t] \notin Holding
    BY <1>6 DEF IndInv, IdleDisconnect, LockOwner
  <2> QED
    BY <1>6, <2>1 DEF IndInv, IdleDisconnect, TypeOK, Holding, Requesting, LockOwner,
       OneCommandInFlight, TimerOnlyWhenIdle, NoLeakedLink, Connected,
       NoneWhileEstablishing, ClientWhileSubscribing, ClientPresent
<1>7. CASE DisconnectTaskRuns \/ Stop
  BY <1>7, OutsideDisconnectKeeps
<1>8. ASSUME NEW l \in Links, LinkDrops(l) \/ LinkCloses(l) \/ CloseFails(l)
      PROVE  IndInv'
  <2> USE <1>8 DEF IndInv, LinkDrops, LinkCloses, CloseFails
  <2>1. /\ link' \in [Links -> LinkStates]
        /\ \A k \in Links : link'[k] = "up" => link[k] = "up"
        /\ \A k \in Links : link[k] = "up" /\ k # l => link'[k] = "up"
    BY DEF TypeOK, LinkStates
  <2>2. TypeOK' /\ LockOwner' /\ TimerOnlyWhenIdle'
    BY <2>1 DEF TypeOK, LockOwner, TimerOnlyWhenIdle, OnDisconnect
  <2>3. OneCommandInFlight'
    BY DEF OneCommandInFlight, OnDisconnect
  <2>4. NoLeakedLink'
    BY <2>1 DEF NoLeakedLink
  <2>5. NoneWhileEstablishing' /\ ClientWhileSubscribing' /\ ClientPresent'
    BY <2>1 DEF TypeOK, NoneWhileEstablishing, ClientWhileSubscribing,
                ClientPresent, Connected
  <2> QED  BY <2>2, <2>3, <2>4, <2>5
<1>9. CASE UNCHANGED vars
  BY <1>9 DEF vars, IndInv, TypeOK, LockOwner,
     OneCommandInFlight, TimerOnlyWhenIdle, NoLeakedLink, Connected,
     NoneWhileEstablishing, ClientWhileSubscribing, ClientPresent
<1> QED  BY <1>1, <1>2, <1>3, <1>4, <1>5, <1>6, <1>7, <1>8, <1>9 DEF Next

-----------------------------------------------------------------------------
(* The theorems.                                                           *)

\* IndInv holds in every state of every behaviour.
THEOREM IndInvHolds == Spec => []IndInv
  BY InitIndInv, StepKeeps, PTL DEF Spec

\* The client's state is always well formed: the attempt counter of _request
\* stays below REQUEST_ATTEMPTS (client.py:328).
THEOREM TypeCorrect == Spec => []TypeOK
<1>1. IndInv => TypeOK
  BY DEF IndInv
<1> QED  BY <1>1, IndInvHolds, PTL

\* No error path, retry, cancellation, idle disconnect or unload leaves a
\* connected link that nothing will close (client.py:198-231).
THEOREM NoLinkIsLeaked == Spec => []NoLeakedLink
<1>1. IndInv => NoLeakedLink
  BY DEF IndInv
<1> QED  BY <1>1, IndInvHolds, PTL

\* "another command is already in flight" (client.py:355-356) is never raised.
THEOREM OneCommand == Spec => []OneCommandInFlight
<1>1. IndInv => OneCommandInFlight
  BY DEF IndInv
<1> QED  BY <1>1, IndInvHolds, PTL

\* _idle_disconnect never finds the client busy (client.py:224-230).
THEOREM TimerIdle == Spec => []TimerOnlyWhenIdle
<1>1. IndInv => TimerOnlyWhenIdle
  BY DEF IndInv
<1> QED  BY <1>1, IndInvHolds, PTL

\* Until unload calls disconnect(), the assertion of _write (client.py:306)
\* never fails, although idle disconnects run beside operations.
THEOREM ClientIsPresent == Spec => []ClientPresent
<1>1. IndInv => ClientPresent
  BY DEF IndInv
<1> QED  BY <1>1, IndInvHolds, PTL

=============================================================================
