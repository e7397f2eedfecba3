---------------------------- MODULE PollingProofs ----------------------------
(***************************************************************************)
(* The safety invariants of Polling hold for any number of changes and     *)
(* actions.                                                                *)
(*                                                                         *)
(* SignalIsCurrent and ActionShown are not inductive.  The first needs     *)
(* that a signal, and one captured by the holder of the update lock, is of *)
(* a beacon since the last state: CurrentSignals.  The second needs what   *)
(* an update() has in its hands to be new enough: NewEnough.  Both rest on *)
(* the update lock: LockOwner, a part of TypeOK, makes the captures and    *)
(* answers those of one task at a time.                                    *)
(***************************************************************************)
EXTENDS Polling, TLAPS

PCs == {"idle", "acting", "update", "get", "answered", "read"}

Types ==
    /\ {version, state, shown, outcome, promised} \subseteq 0 .. MaxVersion
    /\ {flag, link, pending, signal, running, polled, due, timer, atEnd, heard, stale} \subseteq BOOLEAN
    /\ lock \in Tasks \cup {NoTask} /\ actions \in 0 .. MaxActions
    /\ pc \in [Tasks -> PCs]
    /\ captured \in [Tasks -> BOOLEAN] /\ answer \in [Tasks -> 0 .. MaxVersion]
    /\ battery \in {"none", "fresh", "old"}

\* A task reads the Opener's state iff it has the update lock.
LockOwner == \A t \in Tasks : (pc[t] \in {"get", "answered", "read"}) = (lock = t)

\* Signals, those an update() has captured too, are of beacons since the last state.
CurrentSignals ==
    /\ signal => heard
    /\ \A t \in Tasks : (pc[t] \in {"get", "answered"} /\ captured[t]) => heard

\* What an update() has read, or is about to store, is not older than what it must show.
NewEnough ==
    /\ promised <= state /\ promised <= version /\ outcome <= version
    /\ \A t \in Tasks : pc[t] = "answered" => promised <= answer[t]
    /\ pc["action"] = "answered" => outcome <= answer["action"]
    /\ pc["action"] = "read" => outcome <= state

IndInv ==
    /\ Types /\ LockOwner
    /\ FlaggedBeaconIsKept
    /\ CurrentSignals /\ SignalIsCurrent
    /\ NewEnough /\ ActionShown

USE BoundsAssumption DEF Tasks, NoTask

-----------------------------------------------------------------------------

\* An update() that ends keeps the invariant, when what it leaves to the caller does.
LEMMA EndKeeps ==
    ASSUME IndInv, NEW t \in Tasks, NEW ok \in BOOLEAN, EndUpdate(t, ok), lock = t,
           ok => pc[t] = "read",
           link' \in BOOLEAN, battery' \in {"none", "fresh", "old"},
           UNCHANGED <<version, flag, state, pending, signal, running, atEnd, captured, answer,
                       actions, heard, stale>>
    PROVE  IndInv'
<1> USE DEF IndInv
<1>1. pc' = [pc EXCEPT ![t] = "idle"] /\ lock' = NoTask
  BY DEF EndUpdate, Goto
<1>2. Types'
  BY <1>1 DEF Types, EndUpdate, PCs
<1>3. LockOwner'
  BY <1>1 DEF Types, LockOwner
<1>4. FlaggedBeaconIsKept' /\ SignalIsCurrent'
  BY DEF FlaggedBeaconIsKept, SignalIsCurrent
<1>5. CurrentSignals'
  BY <1>1 DEF Types, CurrentSignals
<1>6. outcome' = outcome /\ promised' \in {promised, IF t = "action" /\ ok THEN outcome ELSE promised}
  BY DEF EndUpdate
<1>7. NewEnough'
  BY <1>1, <1>6 DEF Types, LockOwner, NewEnough
<1>8. ActionShown'
  BY <1>1, <1>6 DEF Types, NewEnough, ActionShown, EndUpdate
<1> QED  BY <1>2, <1>3, <1>4, <1>5, <1>7, <1>8

\* Initially all of it holds.
THEOREM InitIndInv == Init => IndInv
<1> SUFFICES ASSUME Init PROVE IndInv
  OBVIOUS
<1> USE DEF Init
<1>1. Types
  <2>1. {version, state, shown, outcome, promised} \subseteq 0 .. MaxVersion /\ actions \in 0 .. MaxActions
    OBVIOUS
  <2>2. {flag, link, pending, signal, running, polled, due, timer, atEnd, heard, stale} \subseteq BOOLEAN
    BY Zenon
  <2>3. lock \in Tasks \cup {NoTask} /\ battery \in {"none", "fresh", "old"}
    OBVIOUS
  <2>4. pc \in [Tasks -> PCs] /\ captured \in [Tasks -> BOOLEAN] /\ answer \in [Tasks -> 0 .. MaxVersion]
    BY DEF PCs
  <2> QED  BY <2>1, <2>2, <2>3, <2>4 DEF Types
<1>2. LockOwner
  BY DEF LockOwner
<1>3. FlaggedBeaconIsKept /\ CurrentSignals /\ SignalIsCurrent
  BY DEF FlaggedBeaconIsKept, CurrentSignals, SignalIsCurrent
<1>4. NewEnough /\ ActionShown
  BY DEF NewEnough, ActionShown
<1> QED  BY <1>1, <1>2, <1>3, <1>4 DEF IndInv

\* Every step keeps it.
THEOREM NextIndInv == IndInv /\ [Next]_vars => IndInv'
<1> SUFFICES ASSUME IndInv, [Next]_vars PROVE IndInv'
  OBVIOUS
<1> USE DEF IndInv
<1>1. ASSUME NEW c \in BOOLEAN, Beacon(c) PROVE IndInv'
  <2> USE <1>1 DEF Beacon, HandleAdvertisement
  <2>1. pc' = pc \/ (pc["poll"] = "idle" /\ pc' = [pc EXCEPT !["poll"] = "update"])
    <3>1. pc' = pc \/ (Idle("poll") /\ Goto("poll", "update"))
      BY Zenon DEF SchedulePoll
    <3> QED  BY <3>1 DEF Idle, Goto
  <2>2. atEnd' \in BOOLEAN
    BY DEF SchedulePoll, Types
  <2>3. Types'
    BY <2>1, <2>2 DEF Types, PCs, opener
  <2>4. LockOwner'
    BY <2>1 DEF Types, LockOwner
  <2>5. FlaggedBeaconIsKept' /\ SignalIsCurrent'
    BY DEF FlaggedBeaconIsKept, SignalIsCurrent
  <2>6. CurrentSignals'
    BY <2>1 DEF Types, CurrentSignals
  <2>7. NewEnough' /\ ActionShown'
    BY <2>1 DEF Types, NewEnough, ActionShown, opener
  <2> QED  BY <2>3, <2>4, <2>5, <2>6, <2>7
<1>2. CASE CooldownEnds
  <2> USE <1>2 DEF CooldownEnds, opener, device, history
  <2>1. pc' = pc \/ (pc["poll"] = "idle" /\ pc' = [pc EXCEPT !["poll"] = "update"])
    <3>1. pc' = pc \/ (Idle("poll") /\ Goto("poll", "update"))
      BY Zenon
    <3> QED  BY <3>1 DEF Idle, Goto
  <2>2. Types'
    BY <2>1 DEF Types, PCs
  <2>3. LockOwner'
    BY <2>1 DEF Types, LockOwner
  <2>4. FlaggedBeaconIsKept' /\ SignalIsCurrent' /\ CurrentSignals'
    BY <2>1 DEF Types, FlaggedBeaconIsKept, SignalIsCurrent, CurrentSignals
  <2>5. NewEnough' /\ ActionShown'
    BY <2>1 DEF Types, NewEnough, ActionShown
  <2> QED  BY <2>2, <2>3, <2>4, <2>5
<1>3. CASE FallbackElapses \/ HassStarts \/ IdleDisconnect \/ BatteryAges
  BY <1>3 DEF FallbackElapses, HassStarts, IdleDisconnect, BatteryAges, opener, device, coordinator,
     tasks, history, Types, LockOwner, FlaggedBeaconIsKept, CurrentSignals, SignalIsCurrent,
     NewEnough, ActionShown
<1>4. ASSUME NEW t \in Tasks, EnterUpdate(t) PROVE IndInv'
  <2> USE <1>4 DEF EnterUpdate, Goto, opener, coordinator, history
  <2>1. Types'
    BY DEF Types, PCs
  <2>2. LockOwner'
    BY DEF Types, LockOwner
  <2>3. FlaggedBeaconIsKept' /\ SignalIsCurrent' /\ CurrentSignals'
    BY DEF Types, FlaggedBeaconIsKept, SignalIsCurrent, CurrentSignals
  <2>4. NewEnough' /\ ActionShown'
    BY DEF Types, NewEnough, ActionShown
  <2> QED  BY <2>1, <2>2, <2>3, <2>4
<1>5. ASSUME NEW t \in Tasks, OpenerAnswers(t) PROVE IndInv'
  <2> USE <1>5 DEF OpenerAnswers, Goto, device, coordinator, history
  <2>1. Types'
    BY DEF Types, PCs
  <2>2. LockOwner'
    BY DEF Types, LockOwner
  <2>3. FlaggedBeaconIsKept' /\ SignalIsCurrent' /\ CurrentSignals'
    BY DEF Types, FlaggedBeaconIsKept, SignalIsCurrent, CurrentSignals
  <2>4. NewEnough' /\ ActionShown'
    BY DEF Types, NewEnough, ActionShown
  <2> QED  BY <2>1, <2>2, <2>3, <2>4
<1>6. ASSUME NEW t \in Tasks, Resume(t) PROVE IndInv'
  <2> USE <1>6 DEF Resume, ClearFlags, Goto, opener, coordinator
  <2>1. Types'
    BY DEF Types, PCs
  <2>2. LockOwner'
    BY DEF Types, LockOwner
  <2>3. FlaggedBeaconIsKept' /\ SignalIsCurrent'
    BY DEF Types, FlaggedBeaconIsKept, SignalIsCurrent, CurrentSignals
  <2>4. CurrentSignals'
    BY DEF Types, LockOwner, CurrentSignals
  <2>5. NewEnough' /\ ActionShown'
    BY DEF Types, LockOwner, NewEnough, ActionShown
  <2> QED  BY <2>1, <2>2, <2>3, <2>4, <2>5
<1>7. ASSUME NEW t \in Tasks, GetFails(t) PROVE IndInv'
  <2>1. lock = t /\ link' \in BOOLEAN
    BY <1>7 DEF GetFails, LockOwner, Types
  <2> QED  BY <1>7, <2>1, EndKeeps DEF GetFails, Types
<1>8. ASSUME NEW t \in Tasks, ReadBattery(t) PROVE IndInv'
  <2>1. lock = t /\ battery' \in {"none", "fresh", "old"}
    BY <1>8 DEF ReadBattery, LockOwner, Types
  <2> QED  BY <1>8, <2>1, EndKeeps DEF ReadBattery, opener, Types
<1>9. ASSUME NEW t \in Tasks, ReadConfigFails(t) PROVE IndInv'
  <2>1. lock = t
    BY <1>9 DEF ReadConfigFails, LockOwner, Types
  <2> QED  BY <1>9, <2>1, EndKeeps DEF ReadConfigFails, opener, Types
<1>10. CASE Act \/ ActionFails
  <2> USE <1>10 DEF Act, ActionFails, Goto, Idle, opener, device, coordinator, history
  <2>1. Types'
    BY DEF Types, PCs
  <2>2. LockOwner'
    BY DEF Types, LockOwner
  <2>3. FlaggedBeaconIsKept' /\ SignalIsCurrent' /\ CurrentSignals'
    BY DEF Types, FlaggedBeaconIsKept, SignalIsCurrent, CurrentSignals
  <2>4. NewEnough' /\ ActionShown'
    BY DEF Types, NewEnough, ActionShown
  <2> QED  BY <2>1, <2>2, <2>3, <2>4
<1>11. CASE ActionDone
  <2> USE <1>11 DEF ActionDone, Goto, device, coordinator, history
  <2>1. Types'
    BY DEF Types, PCs
  <2>2. LockOwner'
    BY DEF Types, LockOwner
  <2>3. FlaggedBeaconIsKept' /\ SignalIsCurrent' /\ CurrentSignals'
    BY DEF Types, FlaggedBeaconIsKept, SignalIsCurrent, CurrentSignals
  <2>4. NewEnough' /\ ActionShown'
    BY DEF Types, NewEnough, ActionShown
  <2> QED  BY <2>1, <2>2, <2>3, <2>4
<1>12. CASE OpenerChanges
  BY <1>12 DEF OpenerChanges, device, coordinator, tasks, history, Types, LockOwner,
     FlaggedBeaconIsKept, CurrentSignals, SignalIsCurrent, NewEnough, ActionShown
<1>13. CASE Push
  BY <1>13 DEF Push, opener, tasks, history, Types, LockOwner,
     FlaggedBeaconIsKept, CurrentSignals, SignalIsCurrent, NewEnough, ActionShown
<1>14. CASE UNCHANGED vars
  BY <1>14 DEF vars, opener, device, coordinator, tasks, history, Types, LockOwner,
     FlaggedBeaconIsKept, CurrentSignals, SignalIsCurrent, NewEnough, ActionShown
<1> QED
  BY <1>1, <1>2, <1>3, <1>4, <1>5, <1>6, <1>7, <1>8, <1>9, <1>10, <1>11, <1>12, <1>13, <1>14
  DEF Next, Step

\* The inductive invariant holds throughout.
THEOREM Invariance == Spec => []IndInv
  BY InitIndInv, NextIndInv, PTL DEF Spec

-----------------------------------------------------------------------------
(* What the runs check holds for all bounds.                               *)

\* State, flags and tasks stay what they are declared to be, and the update lock's holder is the
\* task that reads (device.py:123-149).
THEOREM PollingTypeCorrect == Spec => []TypeOK
<1>1. IndInv => TypeOK
  BY DEF IndInv, Types, LockOwner, TypeOK, PCs
<1> QED  BY <1>1, Invariance, PTL

\* A flagged beacon is acted upon, whatever polls fail.
THEOREM BeaconsAreKept == Spec => []FlaggedBeaconIsKept
<1>1. IndInv => FlaggedBeaconIsKept
  BY DEF IndInv
<1> QED  BY <1>1, Invariance, PTL

\* No update() uses a signal that an earlier one has used.
THEOREM SignalsAreCurrent == Spec => []SignalIsCurrent
<1>1. IndInv => SignalIsCurrent
  BY DEF IndInv
<1> QED  BY <1>1, Invariance, PTL

\* What an action left is shown once its refresh has worked.
THEOREM ActionsAreShown == Spec => []ActionShown
<1>1. IndInv => ActionShown
  BY DEF IndInv
<1> QED  BY <1>1, Invariance, PTL
=============================================================================
