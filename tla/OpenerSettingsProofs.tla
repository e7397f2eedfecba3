------------------------ MODULE OpenerSettingsProofs ------------------------
(***************************************************************************)
(* The cached configurations follow the counter of the Opener, and an      *)
(* undisturbed change keeps what it does not mean to change, for any       *)
(* number of tasks, flags, sounds and changes.                             *)
(*                                                                         *)
(* update() compares the counter it has read with the one before, not with *)
(* the one at which it read the configuration.  That is enough because the *)
(* cached configurations are as recent as the state from which an update   *)
(* under way starts (FreshSince), unless one of the histories says why not. *)
(***************************************************************************)
EXTENDS OpenerSettings, TLAPS

Changes ==
    [kind : {"mask"}, bit : Bits, mask : SUBSET Bits] \cup [kind : {"sound"}, sound : Sounds]

\* What a change asks for, and what it has fetched.
Requests ==
    /\ change \in [Tasks -> Changes \cup {NoChange}]
    /\ \A t \in Tasks : pc[t] = "store" => current[t] \in Settings

\* No counter that was seen is ahead of the Opener's.
Behind(n) == n # NoCount => n <= count

NoneAhead ==
    /\ Behind(state) /\ Behind(previous) /\ Behind(config) /\ Behind(advancedAt)
    /\ \A t \in Tasks : pc[t] = "resume" => answer \in 0 .. count

\* The configuration is read after the state, and both configurations in turn.
ReadInTurn ==
    /\ state = NoCount => config = NoCount
    /\ config # NoCount => ready \/ \E t \in Tasks : pc[t] = "advanced"
    /\ \A t \in Tasks :
         /\ pc[t] \in {"state", "resume"} /\ previous = NoCount => config = NoCount
         /\ pc[t] = "config" => state # NoCount
         /\ pc[t] = "advanced" => config # NoCount

\* Both configurations, as far as they have been read by now, are no older than n.
FreshSince(n) ==
    ~missed /\ config # NoCount =>
       /\ (\A t \in Tasks : pc[t] # "config") => config >= n
       /\ (\A t \in Tasks : pc[t] \notin {"config", "advanced"}) =>
            advancedAt # NoCount /\ advancedAt >= n

Fresh ==
    /\ FreshSince(state)
    /\ \A t \in Tasks : pc[t] \in {"state", "resume"} => FreshSince(previous)

\* An update that ended well has read a configuration, and no other has begun.
EndedWell == outcome = "ok" => updateLock = NoTask /\ config # NoCount

\* What was fetched is still the Opener's, unless somebody changed it since.
Undisturbed ==
    \A t \in Tasks : pc[t] = "store" /\ t \notin disturbed => current[t] = settings

IndInv ==
    /\ TypeOK /\ Requests
    /\ NoneAhead /\ ReadInTurn
    /\ Fresh /\ EndedWell
    /\ Undisturbed

USE TasksAssumption, SoundsAssumption, MaxCountAssumption

-----------------------------------------------------------------------------
(* Configurations.                                                         *)

LEMMA NoSettingsIsNone == NoSettings \notin Settings /\ NoChange \notin Changes
  BY DEF NoSettings, Settings, NoChange, Changes

\* A change keeps the part of the fetched configuration that it does not mean.
LEMMA UpdatedIsSettings ==
    ASSUME NEW t \in Tasks, current[t] \in Settings, change[t] \in Changes
    PROVE  /\ Updated(t) \in Settings
           /\ IF change[t].kind = "mask" THEN Updated(t).sound = current[t].sound
                                         ELSE Updated(t).mask = current[t].mask
<1>1. CASE change[t] \in [kind : {"mask"}, bit : Bits, mask : SUBSET Bits]
  BY <1>1 DEF Updated, Settings
<1>2. CASE change[t] \in [kind : {"sound"}, sound : Sounds]
  BY <1>2 DEF Updated, Settings
<1> QED  BY <1>1, <1>2 DEF Changes

\* The update that leaves held the lock: none is under way then.
LEMMA LeavingFrees ==
    ASSUME TypeOK, NEW t \in Tasks, pc[t] \in Updating, Goto(t, "idle"), updateLock' = NoTask
    PROVE  /\ pc' \in [Tasks -> Updating \cup {"idle", "lock", "fetch", "store"}]
           /\ \A u \in Tasks : pc'[u] \notin Updating
           /\ \A u \in Tasks : pc'[u] \in Updating <=> updateLock' = u
           /\ \A u \in Tasks : pc'[u] \in {"fetch", "store"} <=> pc[u] \in {"fetch", "store"}
           /\ \A u \in Tasks : pc'[u] = "store" <=> pc[u] = "store"
  BY DEF TypeOK, Goto, Updating

\* A step inside update() is its owner's, and no other update is under way.
LEMMA StayingHolds ==
    ASSUME TypeOK, NEW t \in Tasks, pc[t] \in Updating, NEW p \in Updating, Goto(t, p),
           updateLock' = updateLock
    PROVE  /\ pc' \in [Tasks -> Updating \cup {"idle", "lock", "fetch", "store"}]
           /\ pc'[t] = p /\ \A u \in Tasks : u # t => pc'[u] = pc[u] /\ pc'[u] \notin Updating
           /\ \A u \in Tasks : pc'[u] \in Updating <=> updateLock' = u
           /\ \A u \in Tasks : pc'[u] \in {"fetch", "store"} <=> pc[u] \in {"fetch", "store"}
           /\ \A u \in Tasks : pc'[u] = "store" <=> pc[u] = "store"
  BY DEF TypeOK, Goto, Updating

-----------------------------------------------------------------------------
(* The inductive invariant.                                                *)

LEMMA InitIndInv == Init => IndInv
<1> SUFFICES ASSUME Init PROVE IndInv
  OBVIOUS
<1>1. TypeOK
  <2>1. settings \in Settings /\ advanced \in Settings \cup {NoSettings}
    BY DEF Init, Settings
  <2>2. /\ count \in 0 .. MaxCount
        /\ state \in Counts /\ config \in Counts /\ advancedAt \in Counts
        /\ previous \in Counts /\ answer \in Counts
    BY DEF Init, Counts, NoCount
  <2>3. pin \in BOOLEAN /\ (ready => advanced # NoSettings)
    BY Zenon DEF Init
  <2>4. /\ pc \in [Tasks -> Updating \cup {"idle", "lock", "fetch", "store"}]
        /\ \A t \in Tasks : pc[t] \in Updating <=> updateLock = t
        /\ \A t \in Tasks : pc[t] \in {"fetch", "store"} <=> change[t] # NoChange
        /\ current \in [Tasks -> Settings \cup {NoSettings}]
        /\ disturbed \subseteq Tasks
    BY DEF Init, Updating
  <2> QED  BY <2>1, <2>2, <2>3, <2>4, Zenon DEF TypeOK
<1>2. Requests /\ Undisturbed /\ EndedWell
  BY DEF Init, Requests, Undisturbed, EndedWell
<1>3. NoneAhead /\ ReadInTurn /\ Fresh
  BY DEF Init, NoneAhead, Behind, ReadInTurn, Fresh, FreshSince
<1> QED  BY <1>1, <1>2, <1>3 DEF IndInv

LEMMA CallUpdateKeeps ==
    ASSUME IndInv, NEW t \in Tasks, CallUpdate(t) PROVE IndInv'
<1> USE DEF IndInv, CallUpdate, Goto, opener, device, update, writers
<1>1. TypeOK'
  BY DEF TypeOK, Updating
<1>2. Requests' /\ Undisturbed' /\ EndedWell'
  BY DEF TypeOK, Requests, Undisturbed, EndedWell
<1>3. NoneAhead' /\ ReadInTurn' /\ Fresh'
  BY DEF TypeOK, NoneAhead, Behind, ReadInTurn, Fresh, FreshSince
<1> QED  BY <1>1, <1>2, <1>3

\* It starts from the state that the configurations are no older than.
LEMMA BeginUpdateKeeps ==
    ASSUME IndInv, NEW t \in Tasks, BeginUpdate(t) PROVE IndInv'
<1> USE DEF IndInv, BeginUpdate, Goto, opener, device, writers
<1>1. TypeOK'
  BY DEF TypeOK, Updating
<1>2. Requests' /\ Undisturbed' /\ EndedWell'
  BY DEF TypeOK, Requests, Undisturbed, EndedWell
<1>3. \A u \in Tasks : pc[u] \notin Updating /\ (u # t => pc'[u] = pc[u]) /\ pc'[t] = "state"
  BY DEF TypeOK
<1>4. NoneAhead'
  BY <1>3 DEF NoneAhead, Behind
<1>5. ReadInTurn'
  BY <1>3 DEF ReadInTurn, Updating
<1>6. Fresh'
  BY <1>3 DEF Fresh, FreshSince, Updating
<1> QED  BY <1>1, <1>2, <1>4, <1>5, <1>6

LEMMA StateAnsweredKeeps ==
    ASSUME IndInv, NEW t \in Tasks, StateAnswered(t) PROVE IndInv'
<1> USE DEF IndInv, StateAnswered, opener, device, writers
<1>1. /\ pc' \in [Tasks -> Updating \cup {"idle", "lock", "fetch", "store"}]
      /\ pc'[t] = "resume" /\ \A u \in Tasks : u # t => pc'[u] = pc[u] /\ pc'[u] \notin Updating
      /\ \A u \in Tasks : pc'[u] \in Updating <=> updateLock' = u
      /\ \A u \in Tasks : pc'[u] \in {"fetch", "store"} <=> pc[u] \in {"fetch", "store"}
      /\ \A u \in Tasks : pc'[u] = "store" <=> pc[u] = "store"
  BY StayingHolds DEF Updating
<1>2. TypeOK'
  BY <1>1 DEF TypeOK, Counts, NoCount
<1>3. Requests' /\ Undisturbed' /\ EndedWell'
  BY <1>1 DEF Requests, Undisturbed, EndedWell
<1>4. NoneAhead'
  BY <1>1 DEF NoneAhead, Behind, TypeOK, Updating
<1>5. ReadInTurn' /\ Fresh'
  BY <1>1 DEF ReadInTurn, Fresh, FreshSince, Updating
<1> QED  BY <1>2, <1>3, <1>4, <1>5

\* An update ends well: the configurations are as recent as the state.
LEMMA CompleteKeeps ==
    ASSUME IndInv, NEW t \in Tasks, pc[t] \in {"resume", "advanced"}, Complete(t),
           config # NoCount, state' \in 0 .. count, advanced' # NoSettings,
           advanced' \in Settings \cup {NoSettings},
           advancedAt' \in Counts, Behind(advancedAt)',
           ~missed => config >= state' /\ advancedAt' # NoCount /\ advancedAt' >= state',
           UNCHANGED <<opener, config, writers, missed>>
    PROVE  IndInv'
<1> USE DEF IndInv, opener, writers
<1>1. /\ pc' \in [Tasks -> Updating \cup {"idle", "lock", "fetch", "store"}]
      /\ \A u \in Tasks : pc'[u] \notin Updating
      /\ \A u \in Tasks : pc'[u] \in Updating <=> updateLock' = u
      /\ \A u \in Tasks : pc'[u] \in {"fetch", "store"} <=> pc[u] \in {"fetch", "store"}
      /\ \A u \in Tasks : pc'[u] = "store" <=> pc[u] = "store"
  BY LeavingFrees DEF Complete, LeaveUpdate, Updating
<1>2. /\ previous' = NoCount /\ answer' = NoCount /\ updateLock' = NoTask
      /\ ready' = TRUE /\ pin' \in BOOLEAN
  BY DEF Complete, LeaveUpdate, TypeOK
<1>3. TypeOK'
  <2>1. state' \in Counts /\ NoCount \in Counts
    BY DEF TypeOK, Counts, NoCount
  <2> QED  BY <1>1, <1>2, <2>1 DEF TypeOK
<1>4. Requests' /\ Undisturbed' /\ EndedWell'
  BY <1>1, <1>2 DEF Requests, Undisturbed, EndedWell
<1>5. NoneAhead'
  BY <1>1, <1>2 DEF NoneAhead, Behind, TypeOK, Updating
<1>6. ReadInTurn'
  BY <1>1, <1>2 DEF ReadInTurn, TypeOK, NoCount, Updating
<1>7. Fresh'
  BY <1>1 DEF Fresh, FreshSince, Updating
<1> QED  BY <1>3, <1>4, <1>5, <1>6, <1>7

LEMMA StateReadKeeps ==
    ASSUME IndInv, NEW t \in Tasks, StateRead(t) PROVE IndInv'
<1> USE DEF IndInv, StateRead
<1>1. answer \in 0 .. count /\ answer \in Counts /\ answer # NoCount /\ pc[t] = "resume"
  BY DEF NoneAhead, TypeOK, Counts, NoCount
<1>2. CASE ConfigDue /\ Goto(t, "config") /\ UNCHANGED <<update, pin, ready>>
  <2> USE <1>2 DEF opener, update, writers
  <2>1. /\ pc' \in [Tasks -> Updating \cup {"idle", "lock", "fetch", "store"}]
        /\ pc'[t] = "config" /\ \A u \in Tasks : u # t => pc'[u] = pc[u] /\ pc'[u] \notin Updating
        /\ \A u \in Tasks : pc'[u] \in Updating <=> updateLock' = u
        /\ \A u \in Tasks : pc'[u] \in {"fetch", "store"} <=> pc[u] \in {"fetch", "store"}
        /\ \A u \in Tasks : pc'[u] = "store" <=> pc[u] = "store"
    BY StayingHolds DEF Updating
  <2>2. TypeOK'
    BY <1>1, <2>1 DEF TypeOK
  <2>3. Requests' /\ Undisturbed' /\ EndedWell'
    BY <2>1 DEF Requests, Undisturbed, EndedWell
  <2>4. NoneAhead'
    BY <1>1, <2>1 DEF NoneAhead, Behind, TypeOK, Updating
  <2>5. ReadInTurn'
    <3>1. \A u \in Tasks : pc[u] # "advanced"
      BY <1>1 DEF TypeOK, Updating
    <3> QED  BY <1>1, <2>1, <3>1 DEF ReadInTurn, Updating
  <2>6. Fresh'
    BY <2>1 DEF Fresh, FreshSince, Updating
  <2> QED  BY <2>2, <2>3, <2>4, <2>5, <2>6
<1>3. CASE ~ConfigDue /\ Complete(t)
  <2>1. config # NoCount /\ previous = answer
    BY <1>1, <1>3 DEF ConfigDue, ReadInTurn
  <2>2. \A u \in Tasks : pc[u] \notin {"config", "advanced"}
    BY <1>1 DEF TypeOK, Updating
  <2>3. ready /\ advanced # NoSettings /\ advanced \in Settings \cup {NoSettings}
    BY <2>1, <2>2 DEF ReadInTurn, TypeOK
  <2>4. ~missed => config >= answer /\ advancedAt # NoCount /\ advancedAt >= answer
    BY <1>1, <2>1, <2>2 DEF Fresh, FreshSince
  <2>5. advancedAt \in Counts /\ Behind(advancedAt)'
    BY DEF NoneAhead, Behind, TypeOK, opener
  <2> QED  BY <1>1, <1>3, <2>1, <2>3, <2>4, <2>5, CompleteKeeps
<1> QED  BY <1>2, <1>3

LEMMA ConfigReadKeeps ==
    ASSUME IndInv, NEW t \in Tasks, ConfigRead(t) PROVE IndInv'
<1> USE DEF IndInv, ConfigRead, opener, update, writers
<1>1. /\ pc' \in [Tasks -> Updating \cup {"idle", "lock", "fetch", "store"}]
      /\ pc'[t] = "advanced" /\ \A u \in Tasks : u # t => pc'[u] = pc[u] /\ pc'[u] \notin Updating
      /\ \A u \in Tasks : pc'[u] \in Updating <=> updateLock' = u
      /\ \A u \in Tasks : pc'[u] \in {"fetch", "store"} <=> pc[u] \in {"fetch", "store"}
      /\ \A u \in Tasks : pc'[u] = "store" <=> pc[u] = "store"
  BY StayingHolds DEF Updating
<1>2. count \in Counts /\ count # NoCount /\ state # NoCount
  BY DEF TypeOK, Counts, NoCount, ReadInTurn
<1>3. TypeOK'
  BY <1>1, <1>2 DEF TypeOK
<1>4. Requests' /\ Undisturbed' /\ EndedWell'
  BY <1>1, <1>2 DEF Requests, Undisturbed, EndedWell
<1>5. NoneAhead'
  BY <1>1, <1>2 DEF NoneAhead, Behind, TypeOK, Updating
<1>6. ReadInTurn'
  BY <1>1, <1>2 DEF ReadInTurn, Updating
<1>7. Fresh'
  <2>1. count >= state
    BY <1>2 DEF NoneAhead, Behind, TypeOK, Counts
  <2> QED  BY <1>1, <2>1 DEF Fresh, FreshSince, Updating
<1> QED  BY <1>3, <1>4, <1>5, <1>6, <1>7

LEMMA AdvancedConfigReadKeeps ==
    ASSUME IndInv, NEW t \in Tasks, AdvancedConfigRead(t) PROVE IndInv'
<1> USE DEF IndInv, AdvancedConfigRead
<1>1. config # NoCount /\ state # NoCount /\ state \in 0 .. count
  BY DEF ReadInTurn, NoneAhead, Behind, TypeOK, Counts, NoCount
<1>2. count \in Counts /\ count # NoCount /\ advanced' # NoSettings /\ advanced' \in Settings
  BY NoSettingsIsNone DEF TypeOK, Counts, NoCount
<1>3. ~missed => config >= state
  <2>1. \A u \in Tasks : pc[u] # "config"
    BY DEF TypeOK, Updating
  <2> QED  BY <1>1, <2>1 DEF Fresh, FreshSince
<1>4. Behind(advancedAt)'
  BY DEF Behind, opener, TypeOK
<1>5. count >= state
  BY <1>1 DEF TypeOK
<1> QED  BY <1>1, <1>2, <1>3, <1>4, <1>5, CompleteKeeps

LEMMA UpdateFailsKeeps ==
    ASSUME IndInv, NEW t \in Tasks, UpdateFails(t) PROVE IndInv'
<1> USE DEF IndInv, opener, device, writers
<1>1. /\ pc' \in [Tasks -> Updating \cup {"idle", "lock", "fetch", "store"}]
      /\ \A u \in Tasks : pc'[u] \notin Updating
      /\ \A u \in Tasks : pc'[u] \in Updating <=> updateLock' = u
      /\ \A u \in Tasks : pc'[u] \in {"fetch", "store"} <=> pc[u] \in {"fetch", "store"}
      /\ \A u \in Tasks : pc'[u] = "store" <=> pc[u] = "store"
  BY LeavingFrees DEF UpdateFails, LeaveUpdate, Updating
<1>2. /\ previous' = NoCount /\ answer' = NoCount /\ updateLock' = NoTask
      /\ pc[t] \in {"state", "config", "advanced"}
      /\ UNCHANGED <<opener, writers, advanced, advancedAt, pin, ready>>
  BY DEF UpdateFails, LeaveUpdate
<1>3. outcome' # "ok"
  BY DEF UpdateFails, LeaveUpdate
<1>4. NoCount \in Counts
  BY DEF Counts, NoCount
<1>5. \/ /\ ready /\ UNCHANGED device
         /\ missed' = (missed \/ pc[t] # "state")
      \/ ~ready /\ state' = NoCount /\ config' = NoCount
  BY DEF UpdateFails
<1>6. TypeOK'
  BY <1>1, <1>2, <1>4, <1>5 DEF TypeOK
<1>7. Requests' /\ Undisturbed' /\ EndedWell'
  BY <1>1, <1>2, <1>3 DEF Requests, Undisturbed, EndedWell
<1>8. NoneAhead'
  BY <1>1, <1>2, <1>5 DEF NoneAhead, Behind, Updating
<1>9. ReadInTurn'
  BY <1>1, <1>2, <1>5 DEF ReadInTurn, Updating
<1>10. Fresh'
  <2>1. CASE ready /\ UNCHANGED device /\ missed' = (missed \/ pc[t] # "state")
    <3>1. pc[t] = "state" => \A u \in Tasks : pc[u] \notin {"config", "advanced"}
      BY DEF TypeOK, Updating
    <3>2. CASE pc[t] = "state"
      BY <1>1, <2>1, <3>1, <3>2 DEF Fresh, FreshSince, Updating
    <3>3. CASE pc[t] # "state"
      BY <1>1, <2>1, <3>3 DEF Fresh, FreshSince, Updating
    <3> QED  BY <3>2, <3>3
  <2>2. CASE config' = NoCount
    BY <1>1, <2>2 DEF Fresh, FreshSince, Updating
  <2> QED  BY <1>5, <2>1, <2>2
<1> QED  BY <1>6, <1>7, <1>8, <1>9, <1>10

LEMMA ChangeKeeps ==
    ASSUME IndInv, NEW t \in Tasks, SetBit(t) \/ SetSound(t) PROVE IndInv'
<1> USE DEF IndInv, Goto, opener, device, update
<1>1. PICK new \in Changes : Change(t, new)
  <2>1. CASE SetSound(t)
    BY <2>1 DEF SetSound, Changes
  <2>2. CASE SetBit(t)
    <3>1. PICK b \in Bits : \E mask \in {advanced.mask \cup {b}, advanced.mask \ {b}} :
             Change(t, [kind |-> "mask", bit |-> b, mask |-> mask])
      BY <2>2 DEF SetBit
    <3>2. advanced.mask \subseteq Bits
      BY DEF TypeOK, Settings, NoSettings
    <3> QED  BY <3>1, <3>2 DEF Changes
  <2> QED  BY <2>1, <2>2
<1> USE <1>1 DEF Change
<1>2. new # NoChange
  BY NoSettingsIsNone
<1>3. TypeOK'
  <2>1. \A u \in Tasks : pc'[u] \in {"fetch", "store"} <=> change'[u] # NoChange
    BY <1>2 DEF TypeOK, Requests
  <2>2. /\ pc' \in [Tasks -> Updating \cup {"idle", "lock", "fetch", "store"}]
        /\ \A u \in Tasks : pc'[u] \in Updating <=> updateLock' = u
    BY DEF TypeOK, Updating
  <2> QED  BY <2>1, <2>2 DEF TypeOK
<1>4. Requests' /\ Undisturbed' /\ EndedWell'
  BY DEF TypeOK, Requests, Undisturbed, EndedWell
<1>5. NoneAhead' /\ ReadInTurn' /\ Fresh'
  BY DEF TypeOK, NoneAhead, Behind, ReadInTurn, Fresh, FreshSince
<1> QED  BY <1>3, <1>4, <1>5

\* A change ends: it never was, nor held up, an update.
LEMMA ChangeLeaves ==
    ASSUME TypeOK, Requests, NEW t \in Tasks, pc[t] \in {"fetch", "store"}, EndChange(t),
           UNCHANGED updateLock
    PROVE  /\ pc' \in [Tasks -> Updating \cup {"idle", "lock", "fetch", "store"}]
           /\ current' \in [Tasks -> Settings \cup {NoSettings}]
           /\ pc'[t] = "idle" /\ pc[t] \notin Updating
           /\ \A u \in Tasks : u # t => pc'[u] = pc[u] /\ current'[u] = current[u]
           /\ \A u \in Tasks : pc'[u] \in Updating <=> updateLock' = u
           /\ \A u \in Tasks : pc'[u] \in {"fetch", "store"} <=> change'[u] # NoChange
           /\ Requests'
  BY DEF TypeOK, Requests, EndChange, Goto, Updating

LEMMA SettingsFetchedKeeps ==
    ASSUME IndInv, NEW t \in Tasks, SettingsFetched(t) PROVE IndInv'
<1> USE DEF IndInv, SettingsFetched, opener, device, update
<1>1. CASE ~pin /\ EndChange(t)
  <2>1. /\ pc' \in [Tasks -> Updating \cup {"idle", "lock", "fetch", "store"}]
        /\ current' \in [Tasks -> Settings \cup {NoSettings}]
        /\ pc'[t] = "idle" /\ pc[t] \notin Updating
        /\ \A u \in Tasks : u # t => pc'[u] = pc[u] /\ current'[u] = current[u]
        /\ \A u \in Tasks : pc'[u] \in Updating <=> updateLock' = u
        /\ \A u \in Tasks : pc'[u] \in {"fetch", "store"} <=> change'[u] # NoChange
        /\ Requests'
    BY <1>1, ChangeLeaves
  <2>2. TypeOK'
    BY <1>1, <2>1 DEF TypeOK
  <2>3. Undisturbed' /\ EndedWell'
    BY <1>1, <2>1 DEF Undisturbed, EndedWell
  <2>4. NoneAhead' /\ ReadInTurn' /\ Fresh'
    BY <1>1, <2>1 DEF NoneAhead, Behind, ReadInTurn, Fresh, FreshSince, Updating
  <2> QED  BY <2>1, <2>2, <2>3, <2>4
<1>2. CASE /\ current' = [current EXCEPT ![t] = settings]
           /\ Goto(t, "store") /\ UNCHANGED change
  <2> USE <1>2 DEF Goto
  <2>1. TypeOK'
    BY DEF TypeOK, Updating
  <2>2. Requests' /\ Undisturbed' /\ EndedWell'
    BY DEF TypeOK, Requests, Undisturbed, EndedWell
  <2>3. NoneAhead' /\ ReadInTurn' /\ Fresh'
    BY DEF TypeOK, NoneAhead, Behind, ReadInTurn, Fresh, FreshSince
  <2> QED  BY <2>1, <2>2, <2>3
<1> QED  BY <1>1, <1>2

\* The Opener stores: whoever has fetched a configuration is disturbed.
LEMMA StoreKeeps ==
    ASSUME IndInv, NEW t, NEW new \in Settings, Store(t, new)
    PROVE  /\ count' \in 0 .. MaxCount /\ count' = count + 1 /\ settings' \in Settings
           /\ disturbed' \subseteq Tasks
           /\ \A u \in Tasks : u # t /\ pc[u] = "store" => u \in disturbed'
           /\ \A n \in Counts : n # NoCount /\ n <= count => n <= count'
  BY DEF IndInv, TypeOK, Store, Counts

LEMMA EndOfChangeKeeps ==
    ASSUME IndInv, NEW t \in Tasks, SettingsStored(t) \/ ChangeFails(t) PROVE IndInv'
<1> USE DEF IndInv, update
<1>1. /\ EndChange(t) /\ pc[t] \in {"fetch", "store"}
      /\ UNCHANGED <<state, config, pin, ready, update, missed>>
  BY DEF SettingsStored, ChangeFails, device
<1>2. /\ pc' \in [Tasks -> Updating \cup {"idle", "lock", "fetch", "store"}]
      /\ current' \in [Tasks -> Settings \cup {NoSettings}]
      /\ pc'[t] = "idle" /\ pc[t] \notin Updating
      /\ \A u \in Tasks : u # t => pc'[u] = pc[u] /\ current'[u] = current[u]
      /\ \A u \in Tasks : pc'[u] \in Updating <=> updateLock' = u
      /\ \A u \in Tasks : pc'[u] \in {"fetch", "store"} <=> change'[u] # NoChange
      /\ Requests'
  BY <1>1, ChangeLeaves
<1>3. EndedWell' /\ ReadInTurn'
  BY <1>1, <1>2 DEF EndedWell, ReadInTurn, Updating
<1>4. CASE UNCHANGED <<opener, advanced, advancedAt>> /\ disturbed' = disturbed \ {t}
  <2> USE <1>4 DEF opener
  <2>1. TypeOK'
    BY <1>1, <1>2 DEF TypeOK
  <2>2. Undisturbed'
    BY <1>2 DEF Undisturbed
  <2>3. NoneAhead' /\ Fresh'
    BY <1>1, <1>2 DEF NoneAhead, Behind, Fresh, FreshSince, Updating
  <2> QED  BY <1>2, <1>3, <2>1, <2>2, <2>3
<1>5. CASE /\ pc[t] = "store" /\ Store(t, Updated(t))
           /\ \/ UNCHANGED <<advanced, advancedAt>>
              \/ advanced' = Updated(t) /\ advancedAt' = count'
  <2>1. PICK new \in Settings : new = Updated(t)
    <3>1. current[t] \in Settings /\ change[t] \in Changes
      BY <1>5 DEF Requests, TypeOK
    <3> QED  BY <3>1, UpdatedIsSettings
  <2>2. /\ count' \in 0 .. MaxCount /\ count' = count + 1 /\ settings' \in Settings
        /\ disturbed' \subseteq Tasks
        /\ \A u \in Tasks : u # t /\ pc[u] = "store" => u \in disturbed'
        /\ \A n \in Counts : n # NoCount /\ n <= count => n <= count'
    BY <1>5, <2>1, StoreKeeps
  <2>3. /\ advanced' \in Settings \cup {NoSettings} /\ (ready => advanced' # NoSettings)
        /\ advancedAt' \in Counts /\ (advancedAt' = advancedAt \/ advancedAt' = count')
    BY <1>5, <2>1, <2>2, NoSettingsIsNone DEF TypeOK, Counts, NoCount
  <2>4. TypeOK'
    BY <1>1, <1>2, <2>2, <2>3 DEF TypeOK
  <2>5. Undisturbed'
    BY <1>2, <2>2 DEF Undisturbed
  <2>6. NoneAhead'
    BY <1>1, <1>2, <2>2, <2>3 DEF NoneAhead, Behind, TypeOK, Updating
  <2>7. Fresh'
    <3>1. count' # NoCount /\ (advancedAt' = advancedAt \/ (advancedAt' # NoCount /\ advancedAt' > count))
      BY <2>2, <2>3 DEF TypeOK, NoCount
    <3>2. state = NoCount => config = NoCount
      BY DEF ReadInTurn
    <3>3. state # NoCount => state <= count
      BY DEF NoneAhead, Behind
    <3>4. previous # NoCount => previous <= count
      BY DEF NoneAhead, Behind
    <3>5. \A u \in Tasks : pc[u] \in {"state", "resume"} /\ previous = NoCount => config = NoCount
      BY DEF ReadInTurn
    <3>6. /\ state \in Nat /\ previous \in Nat /\ count \in Nat
          /\ advancedAt \in Nat /\ advancedAt' \in Nat
      BY <2>3 DEF TypeOK, Counts, NoCount
    <3>7. FreshSince(state)'
      BY <1>1, <1>2, <3>1, <3>2, <3>3, <3>6 DEF Fresh, FreshSince, Updating
    <3>8. ASSUME NEW u \in Tasks, pc'[u] \in {"state", "resume"} PROVE FreshSince(previous)'
      <4>1. pc[u] \in {"state", "resume"}
        BY <1>2, <3>8
      <4> QED
        BY <1>1, <1>2, <3>1, <3>4, <3>5, <3>6, <4>1 DEF Fresh, FreshSince, Updating
    <3> QED  BY <3>7, <3>8 DEF Fresh
  <2> QED  BY <1>2, <1>3, <2>4, <2>5, <2>6, <2>7
<1> QED  BY <1>4, <1>5 DEF SettingsStored, ChangeFails, device

LEMMA AppChangesSettingsKeeps == ASSUME IndInv, AppChangesSettings PROVE IndInv'
<1> USE DEF IndInv, AppChangesSettings, device, update
<1>1. PICK new \in Settings : Store(NoTask, new)
  OBVIOUS
<1>2. /\ count' \in 0 .. MaxCount /\ count' = count + 1 /\ settings' \in Settings
      /\ disturbed' \subseteq Tasks
      /\ \A u \in Tasks : u # NoTask /\ pc[u] = "store" => u \in disturbed'
      /\ \A n \in Counts : n # NoCount /\ n <= count => n <= count'
  BY <1>1, StoreKeeps
<1>3. TypeOK'
  BY <1>2 DEF TypeOK
<1>4. Requests' /\ Undisturbed' /\ EndedWell'
  BY <1>2 DEF Requests, Undisturbed, EndedWell
<1>5. NoneAhead'
  BY <1>2 DEF NoneAhead, Behind, TypeOK
<1>6. ReadInTurn' /\ Fresh'
  BY <1>2 DEF ReadInTurn, Fresh, FreshSince
<1> QED  BY <1>3, <1>4, <1>5, <1>6

\* A push that brings another counter is remembered.
LEMMA StatePushedKeeps == ASSUME IndInv, StatePushed PROVE IndInv'
<1> USE DEF IndInv, StatePushed, opener, writers
<1>1. count \in Counts /\ count # NoCount
  BY DEF TypeOK, Counts, NoCount
<1>2. TypeOK'
  BY <1>1 DEF TypeOK
<1>3. Requests' /\ Undisturbed' /\ EndedWell'
  BY DEF Requests, Undisturbed, EndedWell
<1>4. NoneAhead' /\ ReadInTurn'
  BY <1>1 DEF NoneAhead, Behind, ReadInTurn, TypeOK
<1>5. Fresh'
  <2>1. CASE state \in {NoCount, count}
    BY <2>1 DEF Fresh, FreshSince, ReadInTurn
  <2>2. CASE state \notin {NoCount, count}
    BY <2>2 DEF Fresh, FreshSince
  <2> QED  BY <2>1, <2>2
<1> QED  BY <1>2, <1>3, <1>4, <1>5

LEMMA NextIndInv == IndInv /\ [Next]_vars => IndInv'
<1> SUFFICES ASSUME IndInv, [Next]_vars PROVE IndInv'
  OBVIOUS
<1>1. ASSUME NEW t \in Tasks, CallUpdate(t) \/ BeginUpdate(t) \/ UpdateStep(t) PROVE IndInv'
  BY <1>1, CallUpdateKeeps, BeginUpdateKeeps, StateAnsweredKeeps, StateReadKeeps, ConfigReadKeeps,
     AdvancedConfigReadKeeps, UpdateFailsKeeps
  DEF UpdateStep
<1>2. ASSUME NEW t \in Tasks,
             \/ SetBit(t) \/ SetSound(t)
             \/ SettingsFetched(t) \/ SettingsStored(t) \/ ChangeFails(t)
      PROVE  IndInv'
  BY <1>2, ChangeKeeps, SettingsFetchedKeeps, EndOfChangeKeeps
<1>3. CASE AppChangesSettings \/ StatePushed
  BY <1>3, AppChangesSettingsKeeps, StatePushedKeeps
<1>4. CASE UNCHANGED vars
  <2> USE <1>4 DEF vars, opener, device, update, writers, IndInv
  <2>1. TypeOK'
    BY DEF TypeOK
  <2>2. Requests' /\ Undisturbed' /\ EndedWell'
    BY DEF Requests, Undisturbed, EndedWell
  <2>3. NoneAhead' /\ ReadInTurn' /\ Fresh'
    BY DEF NoneAhead, Behind, ReadInTurn, Fresh, FreshSince
  <2> QED  BY <2>1, <2>2, <2>3
<1> QED  BY <1>1, <1>2, <1>3, <1>4 DEF Next

LEMMA Invariance == Spec => []IndInv
  BY InitIndInv, NextIndInv, PTL DEF Spec

-----------------------------------------------------------------------------
\* Every variable keeps its type, a task is inside update() iff it holds the update lock, and
\* entities only exist once the advanced configuration is known.
THEOREM SettingsTypeCorrect == Spec => []TypeOK
  BY Invariance, PTL DEF IndInv

\* After an update() that succeeded, the cached configurations are as recent as the counter in the
\* state (device.py:133-139), whatever overlapped, unless a push brought the counter or an earlier
\* read of a configuration failed.
THEOREM CacheFollowsCount == Spec => []ConfigFollowsCount
<1>1. IndInv => ConfigFollowsCount
  <2> SUFFICES ASSUME IndInv, outcome = "ok", ~missed PROVE ConfigFresh
    BY DEF ConfigFollowsCount
  <2>1. config # NoCount /\ updateLock = NoTask
    BY DEF IndInv, EndedWell
  <2>2. \A t \in Tasks : pc[t] \notin {"config", "advanced"}
    BY <2>1 DEF IndInv, TypeOK, Updating
  <2> QED  BY <2>1, <2>2 DEF IndInv, Fresh, FreshSince, ConfigFresh
<1> QED  BY <1>1, Invariance, PTL

\* Only the end of a task's own change is a step in which it stores.
LEMMA StoresItsOwn ==
    ASSUME IndInv, [Next]_vars, NEW t \in Tasks, Stores(t)
    PROVE  Store(t, Updated(t))
<1> USE DEF Stores
<1>1. pc[t] = "store" /\ pc'[t] = "idle" /\ pc \in [Tasks -> Updating \cup {"idle", "lock", "fetch", "store"}]
  BY DEF IndInv, TypeOK
<1>2. ASSUME NEW u \in Tasks, SettingsStored(u) \/ ChangeFails(u) PROVE Store(t, Updated(t))
  <2>1. EndChange(u)
    BY <1>2 DEF SettingsStored, ChangeFails
  <2>2. u = t
    BY <1>1, <2>1 DEF EndChange, Goto
  <2> QED  BY <1>2, <2>2 DEF SettingsStored, ChangeFails, opener
<1>3. CASE count' = count
  BY <1>3
<1>4. CASE pc' = pc
  BY <1>1, <1>4
<1>5. ASSUME NEW u \in Tasks,
             \/ CallUpdate(u) \/ BeginUpdate(u) \/ UpdateStep(u)
             \/ SetBit(u) \/ SetSound(u) \/ SettingsFetched(u)
      PROVE  count' = count
  BY <1>5 DEF CallUpdate, BeginUpdate, UpdateStep, StateAnswered, StateRead, ConfigRead,
     AdvancedConfigRead, UpdateFails, SetBit, SetSound, Change, SettingsFetched, opener
<1> QED  BY <1>2, <1>3, <1>4, <1>5 DEF Next, AppChangesSettings, StatePushed, vars, opener

\* As long as nobody changes the configuration between the fetch and the store (device.py:191-193),
\* the sound and the mask do not overwrite each other.
THEOREM UndisturbedChangesKeepOthers == Spec => UndisturbedChangeKeepsOthers
<1>1. IndInv /\ [Next]_vars =>
        \A t \in Tasks :
          Stores(t) /\ t \notin disturbed =>
            IF change[t].kind = "mask" THEN settings'.sound = settings.sound
                                       ELSE settings'.mask = settings.mask
  <2> SUFFICES ASSUME IndInv, [Next]_vars, NEW t \in Tasks, Stores(t), t \notin disturbed
               PROVE  IF change[t].kind = "mask" THEN settings'.sound = settings.sound
                                                 ELSE settings'.mask = settings.mask
    OBVIOUS
  <2>1. settings' = Updated(t)
    BY StoresItsOwn DEF Store
  <2>2. current[t] = settings /\ current[t] \in Settings /\ change[t] \in Changes
    BY DEF IndInv, Stores, Undisturbed, Requests, TypeOK
  <2> QED  BY <2>1, <2>2, UpdatedIsSettings
<1> QED  BY <1>1, Invariance, PTL DEF Spec, UndisturbedChangeKeepsOthers

=============================================================================
