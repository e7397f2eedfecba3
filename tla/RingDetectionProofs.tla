------------------------ MODULE RingDetectionProofs ------------------------
(***************************************************************************)
(* Neither detector fires twice for a ring, for any number of tasks, log   *)
(* entries, and entries read at a time.                                    *)
(*                                                                         *)
(* For the log, what was fired is no newer than the newest entry read, and *)
(* what is fired next is newer (FiredIsRead): an answer not used yet is no *)
(* older than the one used last (HasRead).  For the transition of the      *)
(* state, one has to know why a strike that was announced is not seen      *)
(* again (SeenOnce): while the Opener still shows it, the state kept shows *)
(* it too, and so does every state from which an update under way starts;  *)
(* an answer on its way is no older than any ring announced.               *)
(***************************************************************************)
EXTENDS RingDetection, SequenceTheorems, FiniteSetTheorems, TLAPS

\* The strike of a ring is released before the next one can be shown.
ShownRing ==
    /\ mode.ring <= Len(log)
    /\ mode.ring # 0 <=> mode.lock = "open"

\* What an update has read when it goes on.
HasRead ==
    \A t \in Tasks :
       /\ pc[t] = "resume" => answer[t] \in Modes /\ answer[t].ring <= Len(log)
       /\ pc[t] \in {"log", "entries"} => state # NoState
       /\ pc[t] = "entries" => lastLog <= read[t]

FiredIsRead ==
    /\ baseline \in 0 .. lastLog
    /\ \A i \in 1 .. Len(fired) : baseline < fired[i] /\ fired[i] <= lastLog

\* No ring can be seen in the step from this state to one with the strike released.
OpenOrUnknown(s) == s = NoState \/ s.lock = "open"

\* Where a ring the transition has announced is still shown, or answered, it is seen no more.
SeenOnce ==
    \A i \in 1 .. Len(firedByState) :
       /\ firedByState[i] <= Len(log)
       /\ mode.ring # 0 => firedByState[i] <= mode.ring
       /\ firedByState[i] = mode.ring =>
            /\ OpenOrUnknown(state)
            /\ \A t \in Tasks :
                 /\ pc[t] \in {"state", "resume"} => OpenOrUnknown(previous[t])
                 /\ pc[t] = "resume" => answer[t].lock = "open"
       /\ \A t \in Tasks : pc[t] = "resume" /\ answer[t].ring # 0 =>
            /\ firedByState[i] <= answer[t].ring
            /\ firedByState[i] = answer[t].ring => OpenOrUnknown(previous[t])

\* The Opener may have moved on since it answered, but never back.
AnswersAge ==
    \A t \in Tasks : pc[t] = "resume" /\ mode.ring # 0 => answer[t].ring <= mode.ring

IndInv ==
    /\ TypeOK /\ ShownRing /\ HasRead
    /\ FiredIsRead /\ LogRingsFireOnceInOrder
    /\ SeenOnce /\ AnswersAge /\ TransitionRingsFireOnce

USE TasksAssumption, LogCountAssumption, MaxLogAssumption

-----------------------------------------------------------------------------
(* Increasing sequences.                                                   *)

LEMMA IncreasingJoin ==
    ASSUME NEW s \in Seq(Nat), NEW u \in Seq(Nat), Increasing(s), Increasing(u),
           \A i \in 1 .. Len(s) : \A j \in 1 .. Len(u) : s[i] < u[j]
    PROVE  Increasing(s \o u)
<1>1. /\ Len(s \o u) = Len(s) + Len(u)
      /\ \A i \in 1 .. Len(s) + Len(u) : (s \o u)[i] = IF i <= Len(s) THEN s[i] ELSE u[i - Len(s)]
  BY ConcatProperties
<1> SUFFICES ASSUME NEW i \in 1 .. Len(s) + Len(u), NEW j \in 1 .. i - 1
             PROVE  (s \o u)[j] < (s \o u)[i]
  BY <1>1 DEF Increasing
<1>2. j \in 1 .. Len(s) + Len(u) /\ Len(s) \in Nat /\ Len(u) \in Nat
  OBVIOUS
<1>3. CASE i <= Len(s)
  BY <1>1, <1>2, <1>3 DEF Increasing
<1>4. CASE i > Len(s) /\ j <= Len(s)
  <2>1. i - Len(s) \in 1 .. Len(u) /\ j \in 1 .. Len(s)
    BY <1>2, <1>4
  <2> QED  BY <1>1, <1>2, <1>4, <2>1
<1>5. CASE i > Len(s) /\ j > Len(s)
  <2>1. i - Len(s) \in 1 .. Len(u) /\ j - Len(s) \in 1 .. (i - Len(s)) - 1
    BY <1>2, <1>5
  <2>2. u[j - Len(s)] < u[i - Len(s)]
    BY <2>1 DEF Increasing
  <2> QED  BY <1>1, <1>2, <1>5, <2>2
<1> QED  BY <1>2, <1>3, <1>4, <1>5

LEMMA IncreasingAppend ==
    ASSUME NEW s \in Seq(Nat), NEW n \in Nat, Increasing(s), \A i \in 1 .. Len(s) : s[i] < n
    PROVE  Increasing(Append(s, n))
<1>1. <<n>> \in Seq(Nat) /\ Increasing(<<n>>) /\ Append(s, n) = s \o <<n>>
  BY AppendIsConcat DEF Increasing
<1>2. \A i \in 1 .. Len(s) : \A j \in 1 .. Len(<<n>>) : s[i] < <<n>>[j]
  OBVIOUS
<1> QED  BY <1>1, <1>2, IncreasingJoin

LEMMA IncreasingTail ==
    ASSUME NEW s \in Seq(Nat), s # <<>>, Increasing(s)
    PROVE  Increasing(Tail(s))
<1>1. /\ Tail(s) \in Seq(Nat) /\ Len(Tail(s)) = Len(s) - 1
      /\ \A i \in 1 .. Len(Tail(s)) : Tail(s)[i] = s[i + 1]
  BY HeadTailProperties
<1> SUFFICES ASSUME NEW i \in 1 .. Len(Tail(s)), NEW j \in 1 .. i - 1
             PROVE  Tail(s)[j] < Tail(s)[i]
  BY DEF Increasing
<1>2. i + 1 \in 1 .. Len(s) /\ j + 1 \in 1 .. (i + 1) - 1 /\ j \in 1 .. Len(Tail(s))
  BY <1>1
<1> QED  BY <1>1, <1>2 DEF Increasing

\* What the log detector fires are new entries, in the order of the log.
LEMMA FiredFromLogIsNew ==
    ASSUME TypeOK, NEW n \in 0 .. Len(log), NEW rings \in InOrder(NewRings(n))
    PROVE  /\ FiredFromLog(rings) \in Seq(lastLog + 1 .. n)
           /\ Increasing(FiredFromLog(rings))
<1> DEFINE New == lastLog + 1 .. n
<1>1. NewRings(n) \subseteq New /\ NewRings(n) \subseteq 1 .. n /\ n \in Nat
  BY DEF NewRings, Entries, TypeOK
<1>2. Cardinality(NewRings(n)) \in Nat
  <2>1. IsFiniteSet(1 .. n)
    BY <1>1, FS_Interval
  <2> QED  BY <1>1, <2>1, FS_Subset, FS_CardinalityType
<1>3. rings \in Seq(NewRings(n)) /\ Increasing(rings)
  BY <1>2, IsASeq DEF InOrder
<1>4. rings \in Seq(New) /\ New \subseteq Nat
  <2>1. New \subseteq Nat
    BY DEF TypeOK
  <2> QED  BY <1>1, <1>3, <2>1, SeqMonotonic
<1>5. rings \in Seq(Nat)
  BY <1>4, SeqMonotonic
<1>6. CASE FiredFromLog(rings) = <<>>
  BY <1>6 DEF Increasing
<1>7. CASE rings # <<>> /\ FiredFromLog(rings) = Tail(rings)
  <2>1. Tail(rings) \in Seq(New)
    BY <1>4, <1>7, HeadTailProperties
  <2> QED  BY <1>3, <1>5, <1>7, <2>1, IncreasingTail
<1>8. CASE FiredFromLog(rings) = rings
  BY <1>3, <1>4, <1>8
<1> QED  BY <1>6, <1>7, <1>8 DEF FiredFromLog

-----------------------------------------------------------------------------
(* The inductive invariant.                                                *)

LEMMA InitIndInv == Init => IndInv
<1> SUFFICES ASSUME Init PROVE IndInv
  OBVIOUS
<1> USE DEF Init
<1>1. TypeOK
  <2>1. mode \in Modes /\ log \in Seq({"ring", "strike", "echo"}) /\ Len(log) = 0
    BY DEF Modes
  <2>2. fired \in Seq(1 .. MaxLog) /\ firedByState \in Seq(1 .. MaxLog)
    OBVIOUS
  <2>3. /\ pc \in [Tasks -> Updating \cup {"idle", "strike"}]
        /\ \A t \in Tasks : pc[t] \in Updating <=> updateLock = t
    BY DEF Updating
  <2>4. /\ previous \in [Tasks -> States \cup {NoState}]
        /\ answer \in [Tasks -> Modes \cup {NoAnswer}]
        /\ read \in [Tasks -> 0 .. Len(log)]
    BY <2>1
  <2>5. pin \in BOOLEAN /\ ready \in BOOLEAN /\ ~ready /\ suppressed \in BOOLEAN
    BY Zenon
  <2>6. /\ Len(log) <= MaxLog /\ lastLog \in 0 .. Len(log)
        /\ state \in States \cup {NoState} /\ lastRing \in {"none", "transition", "log"}
    BY <2>1
  <2> HIDE DEF Init
  <2> QED  BY <2>1, <2>2, <2>3, <2>4, <2>5, <2>6, Zenon DEF TypeOK
<1>2. ShownRing /\ HasRead /\ FiredIsRead /\ SeenOnce /\ AnswersAge
  BY DEF ShownRing, HasRead, FiredIsRead, SeenOnce, AnswersAge
<1>3. LogRingsFireOnceInOrder /\ TransitionRingsFireOnce
  BY DEF LogRingsFireOnceInOrder, TransitionRingsFireOnce, Increasing
<1> QED  BY <1>1, <1>2, <1>3 DEF IndInv

LEMMA BeginUpdateKeeps ==
    ASSUME IndInv, NEW t \in Tasks, BeginUpdate(t) PROVE IndInv'
<1> USE DEF IndInv, BeginUpdate, Goto, opener, detector, history
<1>1. TypeOK'
  BY DEF TypeOK, Updating
<1>2. ShownRing' /\ HasRead' /\ AnswersAge'
  BY DEF TypeOK, ShownRing, HasRead, AnswersAge
<1>3. FiredIsRead' /\ LogRingsFireOnceInOrder' /\ TransitionRingsFireOnce'
  BY DEF FiredIsRead, LogRingsFireOnceInOrder, TransitionRingsFireOnce
<1>4. SeenOnce'
  BY DEF TypeOK, SeenOnce, OpenOrUnknown
<1> QED  BY <1>1, <1>2, <1>3, <1>4

LEMMA StateAnsweredKeeps ==
    ASSUME IndInv, NEW t \in Tasks, StateAnswered(t) PROVE IndInv'
<1> USE DEF IndInv, StateAnswered, Goto, opener, detector, history
<1>1. TypeOK'
  BY DEF TypeOK, Updating
<1>2. /\ answer' = [answer EXCEPT ![t] = mode] /\ answer'[t] = mode
      /\ \A u \in Tasks : u # t => answer'[u] = answer[u] /\ pc'[u] = pc[u]
  BY DEF TypeOK
<1>3. ShownRing' /\ HasRead' /\ AnswersAge'
  <2>1. mode \in Modes /\ mode.ring \in Nat
    BY DEF TypeOK, Modes
  <2>2. HasRead'
    BY <1>2, <2>1 DEF TypeOK, ShownRing, HasRead
  <2> QED  BY <1>2, <2>1, <2>2 DEF ShownRing, AnswersAge
<1>4. FiredIsRead' /\ LogRingsFireOnceInOrder' /\ TransitionRingsFireOnce'
  BY DEF FiredIsRead, LogRingsFireOnceInOrder, TransitionRingsFireOnce
<1>5. SeenOnce'
  BY <1>2 DEF TypeOK, SeenOnce, OpenOrUnknown, ShownRing
<1> QED  BY <1>1, <1>3, <1>4, <1>5

\* A ring is announced only if no earlier update or push has shown its strike.
LEMMA StateReadKeeps ==
    ASSUME IndInv, NEW t \in Tasks, StateRead(t) PROVE IndInv'
<1> USE DEF IndInv, StateRead, Goto, Forget, opener, history
<1>1. /\ state' = Kept(answer[t]) /\ state' \in States /\ state' # NoState
      /\ answer[t] \in Modes /\ state'.lock = answer[t].lock /\ answer[t].ring <= Len(log)
  BY DEF TypeOK, HasRead, Kept, Modes, States, NoState
<1>2. pc' = [pc EXCEPT ![t] = "log"] /\ \A u \in Tasks : pc'[u] \notin {"state", "resume"}
  BY DEF TypeOK, Updating
<1>3. /\ firedByState' \in Seq(1 .. MaxLog) /\ TransitionRingsFireOnce'
      /\ \A i \in 1 .. Len(firedByState') :
           \/ i \in 1 .. Len(firedByState) /\ firedByState'[i] = firedByState[i]
           \/ RingSeen(previous[t], answer[t]) /\ firedByState'[i] = answer[t].ring
  <2>1. CASE firedByState' = firedByState
    BY <2>1 DEF TypeOK, TransitionRingsFireOnce
  <2>2. CASE /\ RingSeen(previous[t], answer[t])
             /\ firedByState' = Append(firedByState, answer[t].ring)
    <3>1. answer[t].ring \in 1 .. MaxLog /\ firedByState \in Seq(Nat)
      BY <1>1, <2>2, SeqMonotonic DEF RingSeen, Modes, TypeOK
    <3>2. \A i \in 1 .. Len(firedByState) : firedByState[i] < answer[t].ring
      BY <2>2, <3>1 DEF RingSeen, SeenOnce, OpenOrUnknown, TypeOK
    <3>3. TransitionRingsFireOnce'
      <4>1. Increasing(firedByState)
        BY DEF TransitionRingsFireOnce
      <4>2. Increasing(Append(firedByState, answer[t].ring))
        <5> HIDE DEF IndInv, StateRead
        <5> QED  BY <3>1, <3>2, <4>1, IncreasingAppend
      <4> QED  BY <2>2, <4>2 DEF TransitionRingsFireOnce
    <3>4. /\ firedByState' \in Seq(1 .. MaxLog) /\ Len(firedByState') = Len(firedByState) + 1
          /\ \A i \in 1 .. Len(firedByState) : firedByState'[i] = firedByState[i]
          /\ firedByState'[Len(firedByState) + 1] = answer[t].ring
      BY <2>2, <3>1, AppendProperties DEF TypeOK
    <3>5. \A i \in 1 .. Len(firedByState') :
             i \in 1 .. Len(firedByState) \/ i = Len(firedByState) + 1
      BY <3>1, <3>4
    <3> QED  BY <2>2, <3>3, <3>4, <3>5
  <2> QED  BY <2>1, <2>2
<1>4. TypeOK'
  BY <1>1, <1>3 DEF TypeOK, Updating, Detected
<1>5. ShownRing' /\ HasRead' /\ AnswersAge'
  BY <1>1, <1>2 DEF TypeOK, ShownRing, HasRead, AnswersAge
<1>6. FiredIsRead' /\ LogRingsFireOnceInOrder'
  BY DEF FiredIsRead, LogRingsFireOnceInOrder
<1>7. SeenOnce'
  <2> SUFFICES ASSUME NEW i \in 1 .. Len(firedByState')
               PROVE  /\ firedByState'[i] <= Len(log)
                      /\ mode.ring # 0 => firedByState'[i] <= mode.ring
                      /\ firedByState'[i] = mode.ring => OpenOrUnknown(state')
    BY <1>2 DEF SeenOnce, OpenOrUnknown
  <2>1. CASE i \in 1 .. Len(firedByState) /\ firedByState'[i] = firedByState[i]
    BY <1>1, <2>1 DEF SeenOnce, OpenOrUnknown
  <2>2. CASE RingSeen(previous[t], answer[t]) /\ firedByState'[i] = answer[t].ring
    BY <1>1, <2>2 DEF RingSeen, AnswersAge, OpenOrUnknown
  <2> QED  BY <1>3, <2>1, <2>2
<1> QED  BY <1>3, <1>4, <1>5, <1>6, <1>7

\* What the log has now is no older than what was used of it before.
LEMMA LogAnsweredKeeps ==
    ASSUME IndInv, NEW t \in Tasks, LogAnswered(t) PROVE IndInv'
<1> USE DEF IndInv, LogAnswered, Goto, opener, detector, history
<1>1. TypeOK'
  BY DEF TypeOK, Updating
<1>2. /\ read'[t] = Len(log) /\ pc'[t] = "entries"
      /\ \A u \in Tasks : u # t => read'[u] = read[u] /\ pc'[u] = pc[u]
  BY DEF TypeOK
<1>3. ShownRing' /\ HasRead' /\ AnswersAge'
  BY <1>2 DEF TypeOK, ShownRing, HasRead, AnswersAge
<1>4. FiredIsRead' /\ LogRingsFireOnceInOrder' /\ TransitionRingsFireOnce'
  BY DEF FiredIsRead, LogRingsFireOnceInOrder, TransitionRingsFireOnce
<1>5. SeenOnce'
  BY <1>2 DEF TypeOK, SeenOnce, OpenOrUnknown
<1> QED  BY <1>1, <1>3, <1>4, <1>5

\* An update that ends leaves nothing behind that a ring could be seen in.
LEMMA UpdateFailsKeeps ==
    ASSUME IndInv, NEW t \in Tasks, UpdateFails(t) PROVE IndInv'
<1> USE DEF IndInv, UpdateFails, LeaveUpdate, Goto, Forget, opener, detector, history
<1>1. state' \in {state, NoState} /\ (ready => state' = state)
      /\ \A u \in Tasks : pc'[u] \notin Updating
  BY DEF TypeOK, Updating
<1>2. TypeOK'
  BY <1>1 DEF TypeOK, Updating
<1>3. ShownRing' /\ HasRead' /\ AnswersAge'
  BY <1>1 DEF ShownRing, HasRead, AnswersAge, Updating
<1>4. FiredIsRead' /\ LogRingsFireOnceInOrder' /\ TransitionRingsFireOnce'
  BY DEF FiredIsRead, LogRingsFireOnceInOrder, TransitionRingsFireOnce
<1>5. SeenOnce'
  BY <1>1 DEF SeenOnce, OpenOrUnknown, Updating
<1> QED  BY <1>2, <1>3, <1>4, <1>5

LEMMA EndOfUpdateKeeps ==
    ASSUME IndInv, NEW t \in Tasks, LogRead(t) \/ NoLogRead(t) \/ LogReadFails(t)
    PROVE  IndInv'
<1> USE DEF IndInv, LogRead, NoLogRead, LogReadFails, LeaveUpdate, Goto, Forget, opener
<1>1. /\ pc[t] \in {"log", "entries"} /\ state # NoState /\ updateLock = t
      /\ UNCHANGED <<mode, log, state, suppressed, firedByState>>
      /\ \A u \in Tasks : pc'[u] \notin Updating
  <2>1. pc[t] \in {"log", "entries"} /\ LeaveUpdate(t)
        /\ UNCHANGED <<mode, log, state, suppressed, firedByState>>
    BY DEF history
  <2>2. state # NoState /\ updateLock = t
    BY <2>1 DEF HasRead, TypeOK, Updating
  <2>3. \A u \in Tasks : pc'[u] = IF u = t THEN "idle" ELSE pc[u]
    BY <2>1 DEF TypeOK
  <2>4. \A u \in Tasks : u # t => pc[u] \notin Updating
    BY <2>2 DEF TypeOK
  <2>5. "idle" \notin Updating
    BY DEF Updating
  <2> QED  BY <2>1, <2>2, <2>3, <2>4, <2>5
<1>2. ShownRing' /\ HasRead' /\ AnswersAge' /\ SeenOnce' /\ TransitionRingsFireOnce'
  BY <1>1 DEF ShownRing, HasRead, AnswersAge, SeenOnce, OpenOrUnknown, Updating,
     TransitionRingsFireOnce
<1>6. /\ pin' \in BOOLEAN /\ ready' \in BOOLEAN
      /\ pc' \in [Tasks -> Updating \cup {"idle", "strike"}]
      /\ \A u \in Tasks : pc'[u] \in Updating <=> updateLock' = u
      /\ previous' \in [Tasks -> States \cup {NoState}]
      /\ answer' \in [Tasks -> Modes \cup {NoAnswer}]
      /\ read' \in [Tasks -> 0 .. Len(log)]
  <2>1. LeaveUpdate(t)
    OBVIOUS
  <2>2. pin' \in BOOLEAN /\ ready' \in BOOLEAN
    <3>1. CASE LogRead(t)
      BY <3>1, Zenon DEF TypeOK
    <3>2. CASE NoLogRead(t)
      BY <3>2, Zenon DEF TypeOK
    <3>3. CASE LogReadFails(t)
      BY <3>3, Zenon DEF TypeOK
    <3> QED  BY <3>1, <3>2, <3>3
  <2> HIDE DEF LogRead, NoLogRead, LogReadFails
  <2>3. pc' \in [Tasks -> Updating \cup {"idle", "strike"}]
    BY <2>1 DEF TypeOK
  <2>4. \A u \in Tasks : pc'[u] \in Updating <=> updateLock' = u
    BY <1>1, <2>1
  <2>5. /\ previous' \in [Tasks -> States \cup {NoState}]
        /\ answer' \in [Tasks -> Modes \cup {NoAnswer}]
    BY <2>1 DEF TypeOK
  <2>6. read' \in [Tasks -> 0 .. Len(log)]
    <3>1. 0 \in 0 .. Len(log)
      BY DEF TypeOK
    <3> QED  BY <2>1, <3>1 DEF TypeOK
  <2> QED  BY <2>2, <2>3, <2>4, <2>5, <2>6
<1>7. LogRead(t) => /\ read[t] \in 0 .. Len(log) /\ lastLog <= read[t]
                    /\ read[t] \in Nat /\ Len(log) \in Nat
  BY DEF TypeOK, HasRead
<1>3. CASE UNCHANGED <<fired, lastLog, baseline, lastRing>>
  <2>1. TypeOK'
    BY <1>1, <1>6, <1>3 DEF TypeOK
  <2>2. FiredIsRead' /\ LogRingsFireOnceInOrder'
    BY <1>3 DEF FiredIsRead, LogRingsFireOnceInOrder
  <2> QED  BY <1>2, <2>1, <2>2
<1>4. CASE LogRead(t) /\ read[t] # 0 /\ lastLog = 0
  <2>1. lastLog' = read[t] /\ baseline' = read[t] /\ UNCHANGED <<fired, lastRing>>
    BY <1>4 DEF TypeOK
  <2>2. fired = <<>>
    <3>1. 1 \notin 1 .. Len(fired)
      BY <1>4 DEF FiredIsRead, TypeOK
    <3> QED  BY <3>1, EmptySeq DEF TypeOK
  <2>3. TypeOK'
    BY <1>1, <1>4, <1>6, <1>7, <2>1 DEF TypeOK
  <2>4. FiredIsRead' /\ LogRingsFireOnceInOrder'
    BY <1>4, <1>7, <2>1, <2>2 DEF FiredIsRead, LogRingsFireOnceInOrder, TypeOK, Increasing
  <2> QED  BY <1>2, <2>3, <2>4
<1>5. CASE LogRead(t) /\ read[t] # 0 /\ lastLog # 0
  <2>1. /\ lastLog' = read[t] /\ UNCHANGED baseline
        /\ lastRing' \in {lastRing, "log"}
    BY <1>5 DEF Detected
  <2>2. PICK rings \in InOrder(NewRings(read[t])) : fired' = fired \o FiredFromLog(rings)
    BY <1>5
  <2>3. PICK now : /\ now = FiredFromLog(rings)
                   /\ now \in Seq(lastLog + 1 .. read[t]) /\ Increasing(now)
    BY <1>5, <1>7, FiredFromLogIsNew
  <2>11. PICK New : New = lastLog + 1 .. read[t]
    OBVIOUS
  <2>4. New \subseteq Nat /\ New \subseteq 1 .. MaxLog /\ lastLog \in Nat
    BY <1>5, <1>7, <2>11 DEF TypeOK
  <2>5. /\ now \in Seq(Nat) /\ now \in Seq(1 .. MaxLog)
        /\ fired \in Seq(Nat) /\ fired \in Seq(1 .. MaxLog)
        /\ Len(now) \in Nat /\ Len(fired) \in Nat
        /\ \A i \in 1 .. Len(fired) : fired[i] \in Nat
        /\ \A i \in 1 .. Len(now) : now[i] \in New
    <3>1. now \in Seq(New)
      BY <2>3, <2>11
    <3>2. fired \in Seq(1 .. MaxLog) /\ 1 .. MaxLog \subseteq Nat
      BY DEF TypeOK
    <3> QED  BY <2>4, <3>1, <3>2, SeqMonotonic, ElementOfSeq, LenProperties
  <2>6. /\ fired' \in Seq(1 .. MaxLog) /\ Len(fired') = Len(fired) + Len(now)
        /\ \A i \in 1 .. Len(fired) + Len(now) :
             fired'[i] = IF i <= Len(fired) THEN fired[i] ELSE now[i - Len(fired)]
    BY <2>2, <2>3, <2>5, ConcatProperties
  <2>7. Increasing(fired')
    <3>1. \A i \in 1 .. Len(fired) : \A j \in 1 .. Len(now) : fired[i] < now[j]
      <4>1. \A n \in New : lastLog < n
        BY <2>4, <2>11
      <4>2. \A i \in 1 .. Len(fired) : fired[i] <= lastLog /\ fired[i] \in Nat
        BY <2>5 DEF FiredIsRead
      <4>3. \A m \in Nat : \A n \in New : m <= lastLog /\ lastLog < n => m < n
        BY <2>4
      <4> QED  BY <2>5, <4>1, <4>2, <4>3
    <3> QED  BY <2>2, <2>3, <2>5, <3>1, IncreasingJoin DEF LogRingsFireOnceInOrder
  <2>8. ASSUME NEW i \in 1 .. Len(fired') PROVE baseline < fired'[i] /\ fired'[i] <= read[t]
    <3>1. CASE i <= Len(fired)
      <4>1. i \in 1 .. Len(fired) /\ fired'[i] = fired[i]
        BY <2>5, <2>6, <3>1
      <4>2. lastLog <= read[t] /\ read[t] \in Nat /\ fired[i] \in Nat
        BY <1>5, <1>7, <2>5, <4>1
      <4>3. baseline < fired[i] /\ fired[i] <= lastLog
        BY <4>1 DEF FiredIsRead
      <4> QED  BY <2>4, <4>1, <4>2, <4>3
    <3>2. CASE i > Len(fired)
      <4>1. i - Len(fired) \in 1 .. Len(now)
        BY <2>5, <2>6, <3>2
      <4>2. fired'[i] \in New
        <5>1. fired'[i] = now[i - Len(fired)]
          BY <2>5, <2>6, <3>2
        <5> QED  BY <2>5, <4>1, <5>1
      <4> QED  BY <1>5, <1>7, <2>11, <4>2 DEF FiredIsRead, TypeOK
    <3>3. i <= Len(fired) \/ i > Len(fired)
      BY <2>5, <2>6
    <3> QED  BY <3>1, <3>2, <3>3
  <2>9. TypeOK'
    BY <1>1, <1>5, <1>6, <1>7, <2>1, <2>6 DEF TypeOK
  <2>10. FiredIsRead' /\ LogRingsFireOnceInOrder'
    <3>1. baseline \in 0 .. read[t]
      BY <1>5, <1>7, <2>4 DEF FiredIsRead
    <3>2. \A i \in 1 .. Len(fired') : baseline' < fired'[i] /\ fired'[i] <= lastLog'
      BY <2>1, <2>8
    <3> HIDE DEF IndInv, LogRead, NoLogRead, LogReadFails
    <3> QED  BY <2>1, <2>7, <3>1, <3>2 DEF FiredIsRead, LogRingsFireOnceInOrder
  <2> QED  BY <1>2, <2>9, <2>10
<1> QED  BY <1>3, <1>4, <1>5 DEF history

\* The log grows: what was fired is in it, and what comes is newer.
LEMMA StrikeKeeps ==
    ASSUME IndInv, NEW t \in Tasks, BeginStrike(t) \/ StrikeReturns(t) \/ StrikeFails(t)
    PROVE  IndInv'
<1> USE DEF IndInv, BeginStrike, StrikeReturns, StrikeFails, Goto, detector, update, history
<1>1. /\ log' \in Seq({"ring", "strike", "echo"}) /\ Len(log') \in Len(log) .. MaxLog
      /\ suppressed' \in BOOLEAN
      /\ UNCHANGED <<mode, state, pin, lastLog, lastRing, ready, update, history>>
  <2>1. log \in Seq({"ring", "strike", "echo"}) /\ Len(log) \in Nat /\ Len(log) <= MaxLog
    BY DEF TypeOK
  <2> DEFINE Grown(l) == l \in Seq({"ring", "strike", "echo"}) /\ Len(l) \in Len(log) .. MaxLog
  <2>2. Grown(log)
    BY <2>1
  <2>3. Len(log) < MaxLog => Grown(Append(log, "strike")) /\ Grown(log \o <<"strike">>)
    BY <2>1
  <2>4. Len(log) + 1 < MaxLog => Grown(log \o <<"strike", "echo">>)
    BY <2>1
  <2>5. Grown(log')
    <3>1. CASE log' = log
      BY <2>2, <3>1
    <3>2. CASE log' = Append(log, "strike") /\ Len(log) + 1 < MaxLog
      BY <2>3, <3>2
    <3>3. CASE log' \in {log \o <<"strike">>, log \o <<"strike", "echo">>} /\ Len(log) + 1 < MaxLog
      <4>1. Len(log) < MaxLog
        BY <2>1, <3>3
      <4>2. CASE log' = log \o <<"strike">>
        BY <2>3, <4>1, <4>2
      <4>3. CASE log' = log \o <<"strike", "echo">>
        BY <2>4, <3>3, <4>3
      <4> QED  BY <3>3, <4>2, <4>3
    <3> HIDE DEF Grown
    <3> QED  BY <3>1, <3>2, <3>3 DEF opener
  <2>6. suppressed' \in BOOLEAN
    BY DEF TypeOK
  <2>7. UNCHANGED <<mode, state, pin, lastLog, lastRing, ready, update, history>>
    BY DEF opener
  <2> QED  BY <2>5, <2>6, <2>7
<1>2. \E place \in {"idle", "strike"} : pc' = [pc EXCEPT ![t] = place]
  OBVIOUS
<1>3. pc[t] \notin Updating
  BY DEF Updating
<1>4. \A u \in Tasks : (pc'[u] \in Updating <=> pc[u] \in Updating)
                       /\ (pc[u] \in Updating => pc'[u] = pc[u])
  BY <1>2, <1>3 DEF TypeOK, Updating
<1>5. TypeOK'
  <2>1. pc' \in [Tasks -> Updating \cup {"idle", "strike"}]
    BY <1>2 DEF TypeOK
  <2> QED  BY <1>1, <1>4, <2>1 DEF TypeOK
<1>6. ShownRing' /\ HasRead' /\ AnswersAge'
  BY <1>1, <1>4 DEF TypeOK, ShownRing, HasRead, AnswersAge, Modes, Updating
<1>7. FiredIsRead' /\ LogRingsFireOnceInOrder' /\ TransitionRingsFireOnce'
  BY <1>1 DEF FiredIsRead, LogRingsFireOnceInOrder, TransitionRingsFireOnce
<1>8. SeenOnce'
  BY <1>1, <1>4 DEF TypeOK, SeenOnce, OpenOrUnknown, Updating
<1> QED  BY <1>5, <1>6, <1>7, <1>8

LEMMA ModeChangesKeeps == ASSUME IndInv, ModeChanges PROVE IndInv'
<1> USE DEF IndInv, ModeChanges, detector, update, history
<1>1. mode' \in Modes /\ mode'.ring = 0 /\ mode'.lock # "open"
  <2>1. mode \in Modes /\ 0 \in 0 .. MaxLog /\ (mode.lock # "open" => mode.ring = 0)
    BY DEF TypeOK, ShownRing
  <2>2. CASE mode.lock = "locked"
    BY <2>1, <2>2 DEF Modes
  <2>3. CASE mode.lock = "rto"
    BY <2>1, <2>3 DEF Modes
  <2>4. CASE mode.lock = "open"
    BY <2>1, <2>4 DEF Modes
  <2> QED  BY <2>1, <2>2, <2>3, <2>4 DEF Modes
<1>2. TypeOK'
  BY <1>1 DEF TypeOK
<1>3. ShownRing' /\ HasRead' /\ AnswersAge'
  BY <1>1 DEF TypeOK, ShownRing, HasRead, AnswersAge
<1>4. FiredIsRead' /\ LogRingsFireOnceInOrder' /\ TransitionRingsFireOnce'
  BY DEF FiredIsRead, LogRingsFireOnceInOrder, TransitionRingsFireOnce
<1>5. SeenOnce'
  BY <1>1 DEF TypeOK, SeenOnce, OpenOrUnknown
<1> QED  BY <1>2, <1>3, <1>4, <1>5

\* A ring is newer than whatever was announced or answered.
LEMMA BellRingsKeeps == ASSUME IndInv, BellRings PROVE IndInv'
<1> USE DEF IndInv, BellRings, detector, update, history
<1>1. /\ log' \in Seq({"ring", "strike", "echo"}) /\ Len(log') = Len(log) + 1
      /\ Len(log) \in Nat /\ Len(log') <= MaxLog
  BY DEF TypeOK
<1>2. /\ mode' \in Modes
      /\ mode' = mode \/ (mode'.ring = Len(log) + 1 /\ mode'.lock = "open")
  <2>1. mode \in Modes /\ Len(log) + 1 \in 0 .. MaxLog
    BY <1>1 DEF TypeOK
  <2>2. mode' = mode \/ mode' = [mode EXCEPT !.lock = "open", !.ring = Len(log) + 1]
    BY <1>1
  <2> QED  BY <2>1, <2>2 DEF Modes
<1>3. TypeOK'
  BY <1>1, <1>2 DEF TypeOK
<1>4. ShownRing' /\ HasRead' /\ AnswersAge'
  BY <1>1, <1>2 DEF TypeOK, ShownRing, HasRead, AnswersAge, Modes
<1>5. FiredIsRead' /\ LogRingsFireOnceInOrder' /\ TransitionRingsFireOnce'
  BY DEF FiredIsRead, LogRingsFireOnceInOrder, TransitionRingsFireOnce
<1>6. SeenOnce'
  <2>1. \A i \in 1 .. Len(firedByState) : firedByState[i] \in Nat
    BY DEF TypeOK
  <2> QED  BY <1>1, <1>2, <2>1 DEF SeenOnce, OpenOrUnknown
<1> QED  BY <1>3, <1>4, <1>5, <1>6

LEMMA StatePushedKeeps == ASSUME IndInv, StatePushed PROVE IndInv'
<1> USE DEF IndInv, StatePushed, opener, detector, update, history
<1>1. state' \in States /\ state' # NoState /\ state'.lock = mode.lock
  BY DEF TypeOK, Modes, States, NoState, Kept
<1>2. TypeOK'
  BY <1>1 DEF TypeOK
<1>3. ShownRing' /\ HasRead' /\ AnswersAge'
  BY <1>1 DEF ShownRing, HasRead, AnswersAge
<1>4. FiredIsRead' /\ LogRingsFireOnceInOrder' /\ TransitionRingsFireOnce'
  BY DEF FiredIsRead, LogRingsFireOnceInOrder, TransitionRingsFireOnce
<1>5. SeenOnce'
  BY <1>1 DEF TypeOK, SeenOnce, OpenOrUnknown, ShownRing
<1> QED  BY <1>2, <1>3, <1>4, <1>5

LEMMA TimeKeeps ==
    ASSUME IndInv, SuppressionEnds \/ RingAges \/ UNCHANGED vars PROVE IndInv'
<1> USE DEF IndInv, SuppressionEnds, RingAges, vars, opener, detector, update, history
<1>1. TypeOK'
  <2>1. suppressed' \in BOOLEAN /\ lastRing' \in {"none", "transition", "log"}
    BY DEF TypeOK
  <2>2. UNCHANGED <<opener, state, pin, lastLog, ready, pc, update, history>>
    OBVIOUS
  <2> QED  BY <2>1, <2>2 DEF TypeOK
<1>2. ShownRing' /\ HasRead' /\ AnswersAge' /\ SeenOnce'
  BY DEF ShownRing, HasRead, AnswersAge, SeenOnce, OpenOrUnknown
<1>3. FiredIsRead' /\ LogRingsFireOnceInOrder' /\ TransitionRingsFireOnce'
  BY DEF FiredIsRead, LogRingsFireOnceInOrder, TransitionRingsFireOnce
<1> QED  BY <1>1, <1>2, <1>3

LEMMA NextIndInv == IndInv /\ [Next]_vars => IndInv'
<1> SUFFICES ASSUME IndInv, [Next]_vars PROVE IndInv'
  OBVIOUS
<1>1. ASSUME NEW t \in Tasks, BeginUpdate(t) \/ UpdateStep(t) PROVE IndInv'
  BY <1>1, BeginUpdateKeeps, StateAnsweredKeeps, StateReadKeeps, UpdateFailsKeeps,
     LogAnsweredKeeps, EndOfUpdateKeeps DEF UpdateStep
<1>2. ASSUME NEW t \in Tasks, BeginStrike(t) \/ StrikeReturns(t) \/ StrikeFails(t) PROVE IndInv'
  BY <1>2, StrikeKeeps
<1>3. CASE ModeChanges \/ BellRings \/ StatePushed
  BY <1>3, ModeChangesKeeps, BellRingsKeeps, StatePushedKeeps
<1>4. CASE SuppressionEnds \/ RingAges \/ UNCHANGED vars
  BY <1>4, TimeKeeps
<1> QED  BY <1>1, <1>2, <1>3, <1>4 DEF Next

LEMMA Invariance == Spec => []IndInv
  BY InitIndInv, NextIndInv, PTL DEF Spec

-----------------------------------------------------------------------------
\* Every variable keeps its type, entities only exist once a state is known, and a task is inside
\* update() iff it holds the update lock.
THEOREM RingTypeCorrect == Spec => []TypeOK
  BY Invariance, PTL DEF IndInv

\* A log entry rings the bell at most once and in order, and the entries that were there at the
\* first read never do (device.py:276-322), however updates overlap.
THEOREM LogNeverRingsTwice == Spec => []LogRingsFireOnceInOrder
  BY Invariance, PTL DEF IndInv

\* The strike a ring has triggered is announced at most once by the states read before and after
\* it (device.py:237-274), whatever is pushed meanwhile.
THEOREM TransitionNeverRingsTwice == Spec => []TransitionRingsFireOnce
  BY Invariance, PTL DEF IndInv

=============================================================================
