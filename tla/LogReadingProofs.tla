--------------------------- MODULE LogReadingProofs ---------------------------
(***************************************************************************)
(* What reads of the log return, for any sizes of messages, indications    *)
(* and buffer, any number of reads, attempts, losses and lost links, and   *)
(* whatever the client takes for a length where there is none.             *)
(*                                                                         *)
(* The invariant is about one sequence, Stream: what the reassembler holds *)
(* and after it what is under way on the link.  Its parts say what a unit  *)
(* of Stream may be of (Sound), in what order units are (InSequence), that *)
(* a challenge under way is newer than any the client or a request has     *)
(* (Fresh), and that behind a new challenge nothing is left of the answers *)
(* to earlier reads (Own, AnsweredOnce).  These survive any loss, since    *)
(* what a loss leaves is thinner and nothing else (Thin).  Whole says that *)
(* the answer to the read goes on in Stream where what has been collected  *)
(* ends, as long as none of it was lost; Readable that messages follow one *)
(* another in Stream unless there is a hole.                               *)
(*                                                                         *)
(* The loops of the model are functions on an interval; that they exist,   *)
(* and that an invariant of their rounds holds at the end, is by induction *)
(* over sets of numbers (InductionOverSets).                               *)
(***************************************************************************)
EXTENDS LogReading, FiniteSetTheorems, SequenceTheorems, TLAPS

Kinds == {"CHALLENGE", "LOG_ENTRY", "STATUS", "ERROR_REPORT"}
Messages == [kind : Kinds, read : 0 .. MaxReads, n : Nat]
AllUnits == {u \in [of : Messages, at : Nat \ {0}] : u.at <= Size(u.of)}
Futures == [answer : [is : {"none", "ok", "error", "lost"}, by : 0 .. MaxReads, nonce : Nat],
            aggregated : Seq(Nat)]

\* What is under way on the link, and what the pending command has.
Stream == IF link THEN buffer \o wire ELSE <<>>
Future == [answer |-> answer, aggregated |-> aggregated]

Is(u, kind) == u.of.kind = kind
\* The units of the answer to a request of the log.
IsAnswer(u) == Is(u, "LOG_ENTRY") \/ (Is(u, "STATUS") /\ u.of.read # 0)

\* A request of the log that the Opener will answer, if it is the next.
Alive(q) == q.kind = "log" /\ q.nonce = nonce
LogAsked == step = "log" /\ at # "issue"

Types ==
    /\ link \in BOOLEAN /\ hole \in BOOLEAN /\ garbled \in BOOLEAN /\ owed \in BOOLEAN
    /\ wire \in Seq(AllUnits) /\ buffer \in Seq(AllUnits) /\ noise \in Nat
    /\ Len(buffer) <= MaxBuffer /\ ~Complete(buffer)
    /\ requests \in Seq([kind : {"challenge", "log"}, read : Reads, nonce : Nat])
    /\ budget \in [losses : Nat, drops : Nat]
    /\ log \in Nat /\ nonce \in Nat /\ challenges \in Nat
    /\ served \in [Reads -> Seq(Nat)]
    /\ read \in 0 .. MaxReads /\ step \in {"idle", "challenge", "log"}
    /\ at \in {"issue", "write", "wait"} /\ attempt \in 1 .. Attempts
    /\ Future \in Futures /\ challenge \in Nat
    /\ result \in [Reads -> [ended : BOOLEAN, ok : BOOLEAN, by : 0 .. MaxReads, entries : Seq(Nat)]]
    /\ ~link => wire = <<>> /\ requests = <<>>
    /\ step # "idle" => read # 0
    /\ step = "idle" => at = "issue"

\* The challenge the Opener will accept is the last it has issued.
Nonces ==
    /\ nonce \in {0, challenges} /\ challenge <= challenges
    /\ step = "log" => challenge # 0
    /\ \A i \in DOMAIN requests :
         /\ requests[i].read <= read
         /\ requests[i].kind = "log" => requests[i].nonce \in 1 .. challenges

\* Units are of messages the Opener has sent.
Sound(p) ==
    \A i \in DOMAIN p :
       /\ Is(p[i], "CHALLENGE") => p[i].of.n \in 1 .. challenges
       /\ p[i].of.read <= read
       /\ Is(p[i], "LOG_ENTRY") =>
            p[i].of.read # 0 /\ p[i].of.n \in Elements(served[p[i].of.read])

\* Entries come newest first, challenges oldest first, and no unit twice; and challenges after
\* the answers to the requests they were not asked for.
InSequence(p) ==
    \A i, j \in DOMAIN p : i < j =>
       /\ Is(p[i], "LOG_ENTRY") /\ Is(p[j], "LOG_ENTRY") /\ p[i].of.read = p[j].of.read =>
            p[i].of.n > p[j].of.n \/ (p[i].of = p[j].of /\ p[i].at < p[j].at)
       /\ Is(p[i], "CHALLENGE") /\ Is(p[j], "CHALLENGE") =>
            p[i].of.n < p[j].of.n \/ (p[i].of = p[j].of /\ p[i].at < p[j].at)
       /\ Is(p[i], "CHALLENGE") => ~IsAnswer(p[j])

\* A challenge under way is newer than what anybody has.
Fresh(f, p) ==
    \A i \in DOMAIN p : Is(p[i], "CHALLENGE") =>
       /\ p[i].of.n > challenge
       /\ (step = "challenge" /\ at # "issue" /\ f.answer.is = "ok") => p[i].of.n > f.answer.nonce
       /\ \A j \in DOMAIN requests : requests[j].kind = "log" => p[i].of.n > requests[j].nonce

\* With a new challenge nothing is left of the answers to earlier reads.
Clear(p) ==
    /\ \A i \in DOMAIN p : ~IsAnswer(p[i])
    /\ \A i \in DOMAIN requests : ~Alive(requests[i])

Own(f, p) ==
    /\ (step = "challenge" /\ at # "issue" /\ f.answer.is = "ok") =>
         Clear(p) /\ f.answer.nonce \in 1 .. challenges
    /\ (step = "log" /\ at # "wait") => Clear(p)
    /\ step = "log" =>
         /\ \A i \in DOMAIN p : IsAnswer(p[i]) => p[i].of.read = read
         /\ \A i \in DOMAIN requests : Alive(requests[i]) => requests[i].read = read
    /\ LogAsked /\ f.answer.is = "ok" => f.answer.by \in {0, read}

Descending(s) == \A i, j \in DOMAIN s : i < j => s[i] > s[j]

\* What has been collected.
Collected(f, p) ==
    LogAsked =>
       /\ Elements(f.aggregated) \subseteq Elements(served[read]) /\ Descending(f.aggregated)
       /\ \A i \in DOMAIN p, k \in DOMAIN f.aggregated :
            Is(p[i], "LOG_ENTRY") => p[i].of.n < f.aggregated[k]

\* What only an answered request of a read can have left behind.
Answered(r, f, p) ==
    \/ \E i \in DOMAIN p : IsAnswer(p[i]) /\ p[i].of.read = r
    \/ result[r].entries # <<>> \/ (result[r].ok /\ result[r].by = r)
    \/ r = read /\ LogAsked /\ (f.aggregated # <<>> \/ (f.answer.is = "ok" /\ f.answer.by = r))

\* A request is answered once.
AnsweredOnce(f, p) ==
    \A r \in Reads : Answered(r, f, p) =>
       /\ \A i \in DOMAIN requests : requests[i].read = r => ~Alive(requests[i])
       /\ r = read /\ step = "log" => challenge # nonce

\* The messages of an answer.
Part(r, k) ==
    IF k < Len(served[r]) THEN Message("LOG_ENTRY", r, served[r][k + 1])
    ELSE Message("STATUS", r, 0)

\* As long as none of it is lost, the rest of the answer is in the stream, one unit after another.
Rest(f, p) ==
    /\ Len(f.aggregated) <= Len(served[read])
    /\ \A k \in DOMAIN f.aggregated : f.aggregated[k] = served[read][k]
    /\ \A i \in DOMAIN p : IsAnswer(p[i]) =>
         /\ (\A j \in 1 .. i - 1 : ~IsAnswer(p[j])) =>
              p[i] = [of |-> Part(read, Len(f.aggregated)), at |-> 1]
         /\ p[i].at < Size(p[i].of) =>
              i < Len(p) /\ p[i + 1] = [of |-> p[i].of, at |-> p[i].at + 1]
         /\ \A k \in DOMAIN served[read] :
              p[i] = [of |-> Part(read, k - 1), at |-> Size(p[i].of)] =>
                 i < Len(p) /\ p[i + 1] = [of |-> Part(read, k), at |-> 1]

Whole(f, p) ==
    LogAsked /\ read \notin excused =>
       /\ (f.answer.is = "none" /\ \E i \in DOMAIN p : Is(p[i], "STATUS") /\ p[i].of.read = read)
            => Rest(f, p)
       /\ (f.answer.is = "ok" /\ f.answer.by = read) => f.aggregated = served[read]

\* Messages follow one another.
Aligned(p) ==
    p # <<>> =>
       /\ p[1].at = 1 /\ p[Len(p)].at = Size(p[Len(p)].of)
       /\ \A i \in 1 .. Len(p) - 1 :
            IF p[i].at < Size(p[i].of) THEN p[i + 1] = [of |-> p[i].of, at |-> p[i].at + 1]
            ELSE p[i + 1].at = 1

Readable(p) == ~hole => ~garbled /\ Aligned(p)

\* What reads have returned, and what they were answered.
Results ==
    \A r \in Reads :
       /\ Descending(served[r])
       /\ r > read \/ (r = read /\ step # "idle") => result[r] = Unread
       /\ Elements(result[r].entries) \subseteq Elements(served[r]) /\ Descending(result[r].entries)
       /\ result[r].ok => result[r].by \in {0, r}
       /\ (result[r].ok /\ result[r].by = r /\ r \notin excused) => result[r].entries = served[r]

StreamInv(f, p) ==
    /\ Sound(p) /\ InSequence(p) /\ Fresh(f, p) /\ Own(f, p) /\ Collected(f, p)
    /\ AnsweredOnce(f, p) /\ Whole(f, p)

IndInv == Types /\ Nonces /\ Results /\ StreamInv(Future, Stream) /\ Readable(Stream)

-----------------------------------------------------------------------------
\* Induction over the naturals, for sets: were x outside T, the numbers outside T up to x would
\* map, each to the one before it, into one less of them.
LEMMA InductionOverSets ==
    ASSUME NEW T, 0 \in T, \A n \in Nat : n \in T => n + 1 \in T
    PROVE  Nat \subseteq T
<1>1. ASSUME NEW x \in Nat, x \notin T
      PROVE  FALSE
  <2> DEFINE V == {n \in 0 .. x : n \notin T}
             f == [n \in V |-> n - 1]
  <2>1. IsFiniteSet(V) /\ x \in V
    <3>1. IsFiniteSet(0 .. x)
      BY FS_Interval
    <3> QED  BY <1>1, <3>1, FS_Subset
  <2>2. \A n \in V : n - 1 \in V \ {x}
    <3> TAKE n \in V
    <3>1. n # 0 /\ n - 1 \in Nat /\ n - 1 \notin T /\ n - 1 # x
      OBVIOUS
    <3> QED  BY <3>1
  <2>3. f \in [V -> V \ {x}] /\ \A m, n \in V : f[m] = f[n] => m = n
    BY <2>2
  <2> HIDE DEF V, f
  <2>4. IsFiniteSet(V \ {x}) /\ Cardinality(V \ {x}) = Cardinality(V) - 1
    BY <2>1, FS_RemoveElement
  <2>5. Cardinality(V) \in Nat
    BY <2>1, FS_CardinalityType
  <2>6. Cardinality(V \ {x}) < Cardinality(V)
    BY <2>4, <2>5
  <2>7. PICK m, n \in V : m # n /\ f[m] = f[n]
    BY <2>1, <2>3, <2>4, <2>6, FS_PigeonHole, ZenonT(30)
  <2> QED  BY <2>3, <2>7
<1> QED  BY <1>1

LEMMA JoiningUnits ==
    ASSUME NEW b \in Seq(AllUnits), NEW x \in Seq(AllUnits), NEW u \in Seq(AllUnits)
    PROVE  (b \o x) \o u = b \o (x \o u)
  OBVIOUS

-----------------------------------------------------------------------------
(* Messages and units.                                                     *)

USE SizesAssumption, NoiseAssumption, IndicationsAssumption, BoundsAssumption

LEMMA SizeOfMessage ==
    ASSUME NEW m
    PROVE  Size(m) \in {Header + 1, Header + 2} /\ Size(m) \in Nat /\ Size(m) > Header
  BY DEF Size

LEMMA UnitsOfMessage ==
    ASSUME NEW m \in Messages
    PROVE  /\ Units(m) \in Seq(AllUnits) /\ Len(Units(m)) = Size(m)
           /\ \A i \in 1 .. Size(m) : Units(m)[i] = [of |-> m, at |-> i]
<1>1. \A i \in 1 .. Size(m) : [of |-> m, at |-> i] \in AllUnits
  BY SizeOfMessage DEF AllUnits
<1> QED  BY <1>1, SizeOfMessage, SMTT(30) DEF Units

-----------------------------------------------------------------------------
(* The loops.                                                              *)

\* The rounds of the loop of feed().
Rounds(fed, buf) ==
    fed = [i \in 0 .. Len(buf) |->
             IF i = 0 THEN [rest |-> buf, raw |-> <<>>] ELSE TakeMessage(fed[i - 1])]

LEMMA FeedHasRounds ==
    ASSUME NEW buf \in Seq(AllUnits)
    PROVE  \E fed : Rounds(fed, buf) /\ TakeMessages(buf) = fed[Len(buf)]
<1> DEFINE start == [rest |-> buf, raw |-> <<>>]
           Loop(g, n) ==
             g = [i \in 0 .. n |-> IF i = 0 THEN start ELSE TakeMessage(g[i - 1])]
           T == {n \in Nat : \E g : Loop(g, n)}
<1>1. 0 \in T
  <2>1. Loop([i \in 0 .. 0 |-> start], 0)
    OBVIOUS
  <2> QED  BY <2>1
<1>2. ASSUME NEW n \in Nat, n \in T
      PROVE  n + 1 \in T
  <2>1. PICK g : Loop(g, n)
    BY <1>2
  <2> DEFINE h == [i \in 0 .. n + 1 |-> IF i <= n THEN g[i] ELSE TakeMessage(g[n])]
  <2>2. ASSUME NEW i \in 0 .. n + 1
        PROVE  h[i] = IF i = 0 THEN start ELSE TakeMessage(h[i - 1])
    <3>1. CASE i = 0
      BY <2>1, <3>1
    <3>2. CASE i \in 1 .. n
      BY <2>1, <3>2
    <3>3. CASE i = n + 1
      BY <3>3
    <3> QED  BY <3>1, <3>2, <3>3
  <2>3. Loop(h, n + 1)
    BY <2>2
  <2>4. n + 1 \in Nat
    OBVIOUS
  <2> HIDE DEF Loop, h
  <2> QED  BY <2>3, <2>4
<1>3. Len(buf) \in T
  <2>1. Len(buf) \in Nat
    OBVIOUS
  <2> HIDE DEF T
  <2>2. Nat \subseteq T
    BY <1>1, <1>2, InductionOverSets
  <2> QED  BY <2>1, <2>2
<1>4. PICK g : Loop(g, Len(buf))
  BY <1>3
<1> DEFINE fed[i \in 0 .. Len(buf)] == IF i = 0 THEN start ELSE TakeMessage(fed[i - 1])
<1>5. Rounds(fed, buf)
  BY <1>4, Zenon DEF Rounds
<1>6. TakeMessages(buf) = fed[Len(buf)]
  BY DEF TakeMessages
<1> HIDE DEF fed
<1> QED  BY <1>5, <1>6

\* The messages of a notification, in turn.
Turns(handled, f, raws) ==
    handled = [i \in 0 .. Len(raws) |->
                 IF i = 0 THEN f ELSE Handle(handled[i - 1], raws[i][1].of)]

LEMMA HandleAllHasTurns ==
    ASSUME NEW f, NEW raws \in Seq(Seq(AllUnits))
    PROVE  \E handled : Turns(handled, f, raws) /\ HandleAll(f, raws) = handled[Len(raws)]
<1> DEFINE Loop(g, n) ==
             g = [i \in 0 .. n |-> IF i = 0 THEN f ELSE Handle(g[i - 1], raws[i][1].of)]
           T == {n \in Nat : \E g : Loop(g, n)}
<1>1. 0 \in T
  <2>1. Loop([i \in 0 .. 0 |-> f], 0)
    OBVIOUS
  <2> QED  BY <2>1
<1>2. ASSUME NEW n \in Nat, n \in T
      PROVE  n + 1 \in T
  <2>1. PICK g : Loop(g, n)
    BY <1>2
  <2> DEFINE h == [i \in 0 .. n + 1 |-> IF i <= n THEN g[i] ELSE Handle(g[n], raws[i][1].of)]
  <2>2. ASSUME NEW i \in 0 .. n + 1
        PROVE  h[i] = IF i = 0 THEN f ELSE Handle(h[i - 1], raws[i][1].of)
    <3>1. CASE i = 0
      BY <2>1, <3>1
    <3>2. CASE i \in 1 .. n
      BY <2>1, <3>2
    <3>3. CASE i = n + 1
      <4>1. h[i] = Handle(g[n], raws[i][1].of)
        BY <3>3
      <4>2. i - 1 = n /\ h[n] = g[n] /\ i # 0
        BY <3>3
      <4> HIDE DEF h
      <4> QED  BY <4>1, <4>2
    <3> QED  BY <3>1, <3>2, <3>3
  <2>3. Loop(h, n + 1)
    BY <2>2
  <2>4. n + 1 \in Nat
    OBVIOUS
  <2> HIDE DEF Loop, h
  <2> QED  BY <2>3, <2>4
<1>3. Len(raws) \in T
  <2>1. Len(raws) \in Nat
    OBVIOUS
  <2> HIDE DEF T
  <2>2. Nat \subseteq T
    BY <1>1, <1>2, InductionOverSets
  <2> QED  BY <2>1, <2>2
<1>4. PICK g : Loop(g, Len(raws))
  BY <1>3
<1> DEFINE handled[i \in 0 .. Len(raws)] ==
             IF i = 0 THEN f ELSE Handle(handled[i - 1], raws[i][1].of)
<1>5. Turns(handled, f, raws)
  BY <1>4, Zenon DEF Turns
<1>6. HandleAll(f, raws) = handled[Len(raws)]
  BY DEF HandleAll
<1> HIDE DEF handled
<1> QED  BY <1>5, <1>6

LEMMA HandleNone ==
    ASSUME NEW f
    PROVE  HandleAll(f, <<>>) = f
<1> DEFINE none == <<>>
<1>1. none \in Seq(Seq(AllUnits)) /\ Len(none) = 0
  OBVIOUS
<1> HIDE DEF none
<1>2. PICK h : Turns(h, f, none) /\ HandleAll(f, none) = h[0]
  BY <1>1, HandleAllHasTurns
<1>3. h[0] = f
  BY <1>1, <1>2 DEF Turns
<1> QED  BY <1>2, <1>3 DEF none

LEMMA HandleOneMore ==
    ASSUME NEW f, NEW raws \in Seq(Seq(AllUnits)), NEW x \in Seq(AllUnits)
    PROVE  HandleAll(f, Append(raws, x)) = Handle(HandleAll(f, raws), x[1].of)
<1> DEFINE more == Append(raws, x)
           n == Len(raws)
<1>1. PICK g : Turns(g, f, raws) /\ HandleAll(f, raws) = g[n]
  BY HandleAllHasTurns
<1>2. more \in Seq(Seq(AllUnits)) /\ Len(more) = n + 1 /\ n \in Nat
      /\ more[n + 1] = x /\ \A i \in 1 .. n : more[i] = raws[i]
  OBVIOUS
<1>3. PICK h : Turns(h, f, more) /\ HandleAll(f, more) = h[n + 1]
  BY <1>2, HandleAllHasTurns
<1> DEFINE T == {i \in Nat : i <= n => g[i] = h[i]}
<1> HIDE DEF more, n
<1>4. g[0] = h[0]
  BY <1>1, <1>2, <1>3 DEF Turns, n
<1>10. \A i \in 1 .. n : g[i] = Handle(g[i - 1], raws[i][1].of)
  <2> TAKE i \in 1 .. n
  <2>1. i \in 0 .. Len(raws) /\ i # 0
    BY <1>2 DEF n
  <2> QED  BY <1>1, <2>1 DEF Turns
<1>11. \A i \in 1 .. n : h[i] = Handle(h[i - 1], raws[i][1].of)
  <2> TAKE i \in 1 .. n
  <2>1. i \in 0 .. n + 1 /\ i # 0 /\ more[i] = raws[i]
    BY <1>2
  <2> QED  BY <1>2, <1>3, <2>1 DEF Turns
<1>5. 0 \in T
  BY <1>4
<1>6. ASSUME NEW i \in Nat, i \in T PROVE i + 1 \in T
  <2>1. CASE i + 1 <= n
    <3>1. i + 1 \in 1 .. n /\ (i + 1) - 1 = i /\ g[i] = h[i]
      BY <1>2, <1>6, <2>1
    <3>2. g[i + 1] = h[i + 1]
      BY <1>10, <1>11, <3>1
    <3> QED  BY <3>2
  <2>2. CASE ~(i + 1 <= n)
    BY <2>2
  <2> QED  BY <2>1, <2>2
<1>7. n \in T
  <2> HIDE DEF T
  <2>1. Nat \subseteq T
    BY <1>5, <1>6, InductionOverSets
  <2> QED  BY <1>2, <2>1
<1>8. g[n] = h[n]
  BY <1>2, <1>7
<1>9. h[n + 1] = Handle(h[n], x[1].of)
  BY <1>2, <1>3, SMTT(30) DEF Turns
<1> QED  BY <1>1, <1>3, <1>8, <1>9 DEF more

-----------------------------------------------------------------------------
(* What is taken from a stream, or lost, leaves the invariant of the rest.   *)

\* q has some of the units of p, in their order.
Thin(q, p) ==
    \E e \in [DOMAIN q -> DOMAIN p] :
       \A i \in DOMAIN q : q[i] = p[e[i]] /\ \A j \in DOMAIN q : i < j => e[i] < e[j]

\* q is what is left of p after its first n units.
Left(q, p, n) ==
    /\ n \in 0 .. Len(p) /\ Len(q) = Len(p) - n
    /\ \A i \in 1 .. Len(q) : q[i] = p[i + n]

\* A stream without what Whole says of it, which losses may disturb.
Held(f, p) ==
    /\ Sound(p) /\ InSequence(p) /\ Fresh(f, p) /\ Own(f, p) /\ Collected(f, p)
    /\ AnsweredOnce(f, p)

LEMMA LeftIsThin ==
    ASSUME NEW p \in Seq(AllUnits), NEW q \in Seq(AllUnits), NEW n, Left(q, p, n)
    PROVE  Thin(q, p)
<1> DEFINE e == [i \in DOMAIN q |-> i + n]
<1>1. n \in Nat /\ DOMAIN q = 1 .. Len(q) /\ DOMAIN p = 1 .. Len(p) /\ Len(q) = Len(p) - n
  BY DEF Left
<1>2. e \in [DOMAIN q -> DOMAIN p]
  BY <1>1, SMTT(30)
<1>3. \A i, j \in 1 .. Len(q) : i < j => i + n < j + n
  <2>1. n \in Nat /\ Len(q) \in Nat
    BY <1>1
  <2> QED  BY <2>1
<1>4. \A i \in DOMAIN q : e[i] = i + n
  OBVIOUS
<1> HIDE DEF e
<1>5. \A i \in DOMAIN q : q[i] = p[e[i]]
  BY <1>1, <1>4, Zenon DEF Left
<1>6. \A i, j \in DOMAIN q : i < j => e[i] < e[j]
  BY <1>1, <1>3, <1>4, Zenon
<1> QED  BY <1>2, <1>5, <1>6, Zenon DEF Thin

LEMMA ThinKeeps ==
    ASSUME NEW f, NEW p, NEW q, Thin(q, p), Held(f, p)
    PROVE  Held(f, q)
<1> USE DEF Held
<1>1. PICK e \in [DOMAIN q -> DOMAIN p] :
        \A i \in DOMAIN q : q[i] = p[e[i]] /\ \A j \in DOMAIN q : i < j => e[i] < e[j]
  BY DEF Thin
<1>2. \A i \in DOMAIN q : e[i] \in DOMAIN p /\ q[i] = p[e[i]]
  BY <1>1
<1>3. \A i, j \in DOMAIN q : i < j => e[i] < e[j]
  BY <1>1
<1>4. Sound(q)
  BY <1>2 DEF Sound
<1>5. InSequence(q)
  BY <1>2, <1>3 DEF InSequence
<1>6. Fresh(f, q)
  BY <1>2 DEF Fresh
<1>7. Clear(p) => Clear(q)
  BY <1>2 DEF Clear
<1>8. Own(f, q)
  BY <1>2, <1>7 DEF Own
<1>9. Collected(f, q)
  BY <1>2 DEF Collected
<1>10. \A r \in Reads : Answered(r, f, q) => Answered(r, f, p)
  BY <1>2 DEF Answered
<1>11. AnsweredOnce(f, q)
  BY <1>10 DEF AnsweredOnce
<1> QED  BY <1>4, <1>5, <1>6, <1>8, <1>9, <1>11

-----------------------------------------------------------------------------
(* A message that is taken.                                                *)

\* The stream begins with the message m.
Begins(p, m) == Size(m) <= Len(p) /\ \A i \in 1 .. Size(m) : p[i] = [of |-> m, at |-> i]

LEMMA FirstUnits ==
    ASSUME NEW p \in Seq(AllUnits), NEW q \in Seq(AllUnits), NEW m \in Messages,
           Begins(p, m), Left(q, p, Size(m))
    PROVE  /\ 1 \in DOMAIN p /\ p[1] = [of |-> m, at |-> 1]
           /\ Size(m) \in DOMAIN p /\ p[Size(m)] = [of |-> m, at |-> Size(m)]
           /\ \A i \in DOMAIN q : /\ i + Size(m) \in DOMAIN p /\ q[i] = p[i + Size(m)]
                                  /\ Size(m) < i + Size(m) /\ 1 < i + Size(m)
                                  /\ ~(q[i].of = m /\ Size(m) < q[i].at)
<1>1. Size(m) \in Nat /\ Size(m) >= 1 /\ DOMAIN p = 1 .. Len(p) /\ DOMAIN q = 1 .. Len(q)
  BY SizeOfMessage
<1>2. \A i \in DOMAIN q : q[i] \in AllUnits
  OBVIOUS
<1>3. \A i \in DOMAIN q : q[i].at \in Nat /\ q[i].at <= Size(q[i].of)
  BY <1>2 DEF AllUnits
<1>4. \A i \in DOMAIN q : ~(q[i].of = m /\ Size(m) < q[i].at)
  BY <1>1, <1>3
<1>5. 1 \in DOMAIN p /\ p[1] = [of |-> m, at |-> 1]
  BY <1>1 DEF Begins
<1>6. Size(m) \in DOMAIN p /\ p[Size(m)] = [of |-> m, at |-> Size(m)]
  <2> DEFINE n == Size(m)
  <2>1. n <= Len(p) /\ \A i \in 1 .. n : p[i] = [of |-> m, at |-> i]
    BY DEF Begins
  <2>2. n \in Nat /\ n >= 1 /\ Len(p) \in Nat
    BY <1>1
  <2> HIDE DEF n
  <2>4. n \in 1 .. n /\ n \in 1 .. Len(p)
    BY <2>1, <2>2
  <2>3. n \in DOMAIN p /\ p[n] = [of |-> m, at |-> n]
    BY <1>1, <2>1, <2>4, Zenon
  <2> QED  BY <2>3 DEF n
<1>7. \A i \in DOMAIN q : /\ i + Size(m) \in DOMAIN p /\ q[i] = p[i + Size(m)]
                          /\ Size(m) < i + Size(m) /\ 1 < i + Size(m)
  <2> DEFINE n == Size(m)
  <2> HIDE DEF n
  <2>1. n \in Nat /\ n >= 1 /\ Left(q, p, n)
    BY <1>1 DEF n
  <2>2. \A i \in DOMAIN q : i + n \in DOMAIN p /\ q[i] = p[i + n] /\ n < i + n /\ 1 < i + n
    BY <1>1, <2>1, SMTT(30) DEF Left
  <2> QED  BY <2>2 DEF n
<1> QED  BY <1>4, <1>5, <1>6, <1>7

\* The end of a command leaves nothing to say of its answer but how it ended.
LEMMA EndKeepsHeld ==
    ASSUME NEW f, NEW g, NEW p, Held(f, p), g.aggregated = f.aggregated, g.answer.is # "ok"
    PROVE  Held(g, p)
<1> USE DEF Held
<1>1. Sound(p) /\ InSequence(p) /\ Fresh(g, p) /\ Own(g, p) /\ Collected(g, p)
  BY DEF Fresh, Own, Collected
<1>2. \A r \in Reads : Answered(r, g, p) => Answered(r, f, p)
  BY DEF Answered
<1>3. AnsweredOnce(g, p)
  BY <1>2 DEF AnsweredOnce
<1> QED  BY <1>1, <1>3

LEMMA ChallengeKeepsHeld ==
    ASSUME Types, Nonces, NEW f \in Futures, NEW g \in Futures, NEW m \in Messages,
           NEW p \in Seq(AllUnits), NEW q \in Seq(AllUnits),
           Begins(p, m), Left(q, p, Size(m)), Held(f, p),
           step = "challenge", m.kind = "CHALLENGE",
           g.answer = [is |-> "ok", by |-> m.read, nonce |-> m.n], g.aggregated = f.aggregated
    PROVE  Held(g, q)
<1>1. Held(f, q)
  BY LeftIsThin, ThinKeeps
<1> DEFINE s == Size(m)
<1>11. /\ 1 \in DOMAIN p /\ p[1] = [of |-> m, at |-> 1]
       /\ s \in DOMAIN p /\ p[s] = [of |-> m, at |-> s]
       /\ \A i \in DOMAIN q : /\ i + s \in DOMAIN p /\ q[i] = p[i + s] /\ s < i + s /\ 1 < i + s
                              /\ ~(q[i].of = m /\ s < q[i].at)
  BY FirstUnits
<1> HIDE DEF s
<1>2. m.n \in 1 .. challenges
  BY <1>11 DEF Held, Sound, Is
<1>3. ASSUME NEW i \in DOMAIN q, Is(q[i], "CHALLENGE")
      PROVE  q[i].of.n > m.n
  <2>1. p[s].of = m /\ p[s].at = s /\ q[i] = p[i + s]
    BY <1>11
  <2>5. s \in DOMAIN p /\ i + s \in DOMAIN p /\ s < i + s
    BY <1>11
  <2>6. Is(p[s], "CHALLENGE") /\ Is(p[i + s], "CHALLENGE")
    BY <1>3, <2>1 DEF Is
  <2>7. p[s].of.n < p[i + s].of.n \/ (p[s].of = p[i + s].of /\ p[s].at < p[i + s].at)
    BY <2>5, <2>6 DEF Held, InSequence
  <2>2. m.n < q[i].of.n \/ (m = q[i].of /\ s < q[i].at)
    BY <2>1, <2>7
  <2>3. m.n < q[i].of.n
    BY <1>11, <2>2
  <2>4. q[i].of.n \in Nat /\ m.n \in Nat
    BY SMTT(30) DEF AllUnits, Messages
  <2> QED  BY <2>3, <2>4
<1>4. \A i \in DOMAIN q : ~IsAnswer(q[i])
  BY <1>11 DEF Held, InSequence, Is
<1>5. ASSUME NEW i \in DOMAIN requests, Alive(requests[i])
      PROVE  FALSE
  <2>1. m.n > requests[i].nonce /\ requests[i].nonce \in 1 .. challenges
    BY <1>5, <1>11 DEF Held, Fresh, Is, Alive, Nonces
  <2>2. requests[i].nonce = nonce /\ nonce \in {0, challenges}
    BY <1>5 DEF Alive, Nonces
  <2>3. challenges \in Nat
    BY DEF Types
  <2> QED  BY <1>2, <2>1, <2>2, <2>3
<1>6. Fresh(g, q)
  BY <1>1, <1>3 DEF Held, Fresh
<1>7. Own(g, q)
  BY <1>2, <1>4, <1>5 DEF Own, Clear, LogAsked
<1>8. Collected(g, q)
  BY DEF Collected, LogAsked
<1>9. \A r \in Reads : Answered(r, g, q) => Answered(r, f, q)
  BY DEF Answered, LogAsked
<1>10. AnsweredOnce(g, q)
  BY <1>1, <1>9 DEF Held, AnsweredOnce
<1> QED  BY <1>1, <1>6, <1>7, <1>8, <1>10 DEF Held

LEMMA StatusKeepsHeld ==
    ASSUME Types, NEW f \in Futures, NEW g \in Futures, NEW m \in Messages,
           NEW p \in Seq(AllUnits), NEW q \in Seq(AllUnits),
           Begins(p, m), Left(q, p, Size(m)), Held(f, p),
           LogAsked, m.kind = "STATUS",
           g.answer = [is |-> "ok", by |-> m.read, nonce |-> m.n], g.aggregated = f.aggregated
    PROVE  Held(g, q)
<1>1. Held(f, q)
  BY LeftIsThin, ThinKeeps
<1>6. 1 \in DOMAIN p /\ p[1] = [of |-> m, at |-> 1]
  BY FirstUnits
<1>7. IsAnswer(p[1]) <=> m.read # 0
  BY <1>6 DEF IsAnswer, Is
<1>2. m.read # 0 => m.read = read
  BY <1>6, <1>7 DEF Held, Own, LogAsked
<1>3. Fresh(g, q) /\ Own(g, q) /\ Collected(g, q)
  BY <1>1, <1>2 DEF Held, Fresh, Own, Collected, LogAsked
<1>4. ASSUME NEW r \in Reads, Answered(r, g, q)
      PROVE  Answered(r, f, q) \/ Answered(r, f, p)
  <2>1. CASE r = read /\ g.answer.by = r
    <3>1. m.read = r /\ r # 0
      BY <2>1 DEF Reads
    <3>2. IsAnswer(p[1]) /\ p[1].of.read = r /\ 1 \in DOMAIN p
      BY <3>1, <1>6, <1>7
    <3> QED  BY <3>2 DEF Answered
  <2>2. CASE ~(r = read /\ g.answer.by = r)
    BY <1>4, <2>2 DEF Answered
  <2> QED  BY <2>1, <2>2
<1>5. AnsweredOnce(g, q)
  BY <1>1, <1>4 DEF Held, AnsweredOnce
<1> QED  BY <1>1, <1>3, <1>5 DEF Held

\* x is y with n at the end.
Extends(x, y, n) ==
    /\ DOMAIN x = 1 .. Len(y) + 1 /\ DOMAIN y = 1 .. Len(y)
    /\ Len(y) \in Nat /\ Len(x) = Len(y) + 1
    /\ x[Len(y) + 1] = n
    /\ \A k \in DOMAIN y : x[k] = y[k] /\ y[k] \in Nat

LEMMA OneMore ==
    ASSUME NEW x \in Seq(Nat), NEW n \in Nat
    PROVE  Append(x, n) \in Seq(Nat) /\ Extends(Append(x, n), x, n)
  BY DEF Extends

LEMMA Collecting ==
    ASSUME NEW f \in Futures, NEW s \in Seq(Nat)
    PROVE  [f EXCEPT !.aggregated = s] \in Futures
<1> DEFINE Answers == [is : {"none", "ok", "error", "lost"}, by : 0 .. MaxReads, nonce : Nat]
<1>1. PICK a \in Answers, t \in Seq(Nat) : f = [answer |-> a, aggregated |-> t]
  BY DEF Futures
<1>2. Futures = [answer : Answers, aggregated : Seq(Nat)]
  BY DEF Futures
<1> HIDE DEF Answers
<1>3. [f EXCEPT !.aggregated = s] = [answer |-> a, aggregated |-> s]
  BY <1>1
<1> QED  BY <1>1, <1>2, <1>3

LEMMA Answering ==
    ASSUME NEW f \in Futures, NEW is \in {"none", "ok", "error", "lost"},
           NEW by \in 0 .. MaxReads, NEW n \in Nat
    PROVE  [f EXCEPT !.answer = [is |-> is, by |-> by, nonce |-> n]] \in Futures
<1> DEFINE Answers == [is : {"none", "ok", "error", "lost"}, by : 0 .. MaxReads, nonce : Nat]
           x == [is |-> is, by |-> by, nonce |-> n]
<1>1. PICK a \in Answers, t \in Seq(Nat) : f = [answer |-> a, aggregated |-> t]
  BY DEF Futures
<1>2. x \in Answers
  OBVIOUS
<1>4. Futures = [answer : Answers, aggregated : Seq(Nat)]
  BY DEF Futures
<1> HIDE DEF Answers, x
<1>3. [f EXCEPT !.answer = x] = [answer |-> x, aggregated |-> t]
  BY <1>1
<1>5. [f EXCEPT !.answer = x] \in Futures
  BY <1>1, <1>2, <1>3, <1>4
<1> QED  BY <1>5 DEF x

LEMMA EntryKeepsHeld ==
    ASSUME Types, NEW f \in Futures, NEW g \in Futures, NEW m \in Messages,
           NEW p \in Seq(AllUnits), NEW q \in Seq(AllUnits),
           Begins(p, m), Left(q, p, Size(m)), Held(f, p),
           LogAsked, m.kind = "LOG_ENTRY", f.answer.is = "none",
           g.answer = f.answer, Extends(g.aggregated, f.aggregated, m.n)
    PROVE  Held(g, q)
<1> DEFINE s == Size(m)
           old == f.aggregated
           new == g.aggregated
<1>1. Held(f, q)
  BY LeftIsThin, ThinKeeps
<1>2. /\ 1 \in DOMAIN p /\ p[1] = [of |-> m, at |-> 1]
      /\ s \in DOMAIN p /\ p[s] = [of |-> m, at |-> s]
      /\ \A i \in DOMAIN q : /\ i + s \in DOMAIN p /\ q[i] = p[i + s] /\ s < i + s /\ 1 < i + s
                             /\ ~(q[i].of = m /\ s < q[i].at)
  BY FirstUnits
<1> HIDE DEF s
<1>3. IsAnswer(p[1]) /\ Is(p[1], "LOG_ENTRY") /\ p[1].of = m
  BY <1>2 DEF IsAnswer, Is
<1>4. m.read = read
  BY <1>2, <1>3 DEF Held, Own, LogAsked
<1>5. m.read # 0 /\ m.n \in Elements(served[read])
  BY <1>2, <1>3, <1>4 DEF Held, Sound
<1>6. old \in Seq(Nat) /\ m.n \in Nat
  BY DEF Futures, Messages
<1>7. /\ DOMAIN new = 1 .. Len(old) + 1 /\ DOMAIN old = 1 .. Len(old) /\ Len(old) \in Nat
      /\ new[Len(old) + 1] = m.n
      /\ \A k \in DOMAIN old : new[k] = old[k] /\ old[k] \in Nat
  BY DEF Extends
<1>8. \A k \in DOMAIN old : m.n < old[k]
  BY <1>2, <1>3 DEF Held, Collected
<1>9. \A k \in DOMAIN new : k \in DOMAIN old \/ k = Len(old) + 1
  BY <1>7
<1>10. Elements(new) \subseteq Elements(served[read])
  <2>1. \A k \in DOMAIN old : old[k] \in Elements(served[read])
    BY DEF Held, Collected, Elements
  <2>2. \A k \in DOMAIN new : new[k] \in Elements(served[read])
    BY <1>5, <1>7, <1>9, <2>1
  <2> QED  BY <2>2 DEF Elements
<1>11. Descending(new)
  <2>1. \A i, j \in DOMAIN old : i < j => old[i] > old[j]
    BY DEF Held, Collected, Descending
  <2>2. ASSUME NEW i \in DOMAIN new, NEW j \in DOMAIN new, i < j
        PROVE  new[i] > new[j]
    <3>1. i \in DOMAIN old
      BY <1>7, <2>2
    <3>2. CASE j \in DOMAIN old
      BY <1>7, <2>1, <2>2, <3>1, <3>2
    <3>3. CASE j = Len(old) + 1
      BY <1>6, <1>7, <1>8, <3>1, <3>3
    <3> QED  BY <1>9, <3>2, <3>3
  <2> QED  BY <2>2 DEF Descending
<1>12. ASSUME NEW i \in DOMAIN q, NEW k \in DOMAIN new, Is(q[i], "LOG_ENTRY")
       PROVE  q[i].of.n < new[k]
  <2>1. CASE k \in DOMAIN old
    BY <1>1, <1>7, <1>12, <2>1 DEF Held, Collected
  <2>2. CASE k = Len(old) + 1
    <3>1. q[i].of.read = read
      BY <1>1, <1>12 DEF Held, Own, IsAnswer, LogAsked
    <3>2. s \in DOMAIN p /\ i + s \in DOMAIN p /\ s < i + s
      BY <1>2
    <3>3. /\ Is(p[s], "LOG_ENTRY") /\ Is(p[i + s], "LOG_ENTRY")
          /\ p[s].of.read = p[i + s].of.read
      BY <1>2, <1>4, <1>12, <3>1 DEF Is
    <3>4. p[s].of.n > p[i + s].of.n \/ (p[s].of = p[i + s].of /\ p[s].at < p[i + s].at)
      BY <3>2, <3>3 DEF Held, InSequence
    <3>5. m.n > q[i].of.n \/ (m = q[i].of /\ s < q[i].at)
      BY <1>2, <3>4
    <3>6. m.n > q[i].of.n
      BY <1>2, <3>5
    <3>7. q[i].of.n \in Nat
      BY SMTT(30) DEF AllUnits, Messages
    <3> QED  BY <1>6, <1>7, <2>2, <3>6, <3>7
  <2> QED  BY <1>9, <2>1, <2>2
<1>13. Fresh(g, q) /\ Own(g, q)
  BY <1>1 DEF Held, Fresh, Own
<1>14. Collected(g, q)
  BY <1>10, <1>11, <1>12 DEF Collected
<1>15. ASSUME NEW r \in Reads, Answered(r, g, q)
       PROVE  Answered(r, f, q) \/ Answered(r, f, p)
  <2>1. CASE r = read
    BY <1>2, <1>3, <1>4, <2>1 DEF Answered
  <2>2. CASE r # read
    BY <1>15, <2>2 DEF Answered
  <2> QED  BY <2>1, <2>2
<1>16. AnsweredOnce(g, q)
  BY <1>1, <1>15 DEF Held, AnsweredOnce
<1> QED  BY <1>1, <1>13, <1>14, <1>16 DEF Held

\* Whatever message is next, what _handle_message does with it.
LEMMA HandledIsHeld ==
    ASSUME Types, Nonces, NEW f \in Futures, NEW m \in Messages,
           NEW p \in Seq(AllUnits), NEW q \in Seq(AllUnits),
           Begins(p, m), Left(q, p, Size(m)), Held(f, p)
    PROVE  Held(Handle(f, m), q) /\ Handle(f, m) \in Futures
<1> DEFINE g == Handle(f, m)
<1>1. Held(f, q)
  BY LeftIsThin, ThinKeeps
<1>2. /\ f.answer.is \in {"none", "ok", "error", "lost"} /\ f.aggregated \in Seq(Nat)
      /\ m.kind \in Kinds /\ m.read \in 0 .. MaxReads /\ m.n \in Nat
      /\ f = [answer |-> f.answer, aggregated |-> f.aggregated]
  BY DEF Futures, Messages
<1>3. CASE g = f
  BY <1>1, <1>3
<1>4. CASE g = [f EXCEPT !.answer = [NoAnswer EXCEPT !.is = "error"]]
  <2>1. g.aggregated = f.aggregated /\ g.answer = [is |-> "error", by |-> 0, nonce |-> 0]
    BY <1>2, <1>4 DEF NoAnswer
  <2>2. g \in Futures
    <3>1. [f EXCEPT !.answer = [is |-> "error", by |-> 0, nonce |-> 0]] \in Futures
      BY Answering
    <3>2. [NoAnswer EXCEPT !.is = "error"] = [is |-> "error", by |-> 0, nonce |-> 0]
      BY DEF NoAnswer
    <3> QED  BY <1>4, <3>1, <3>2
  <2> QED  BY <1>1, <2>1, <2>2, EndKeepsHeld
<1>5. CASE /\ Pending /\ m.kind = Expected /\ f.answer.is = "none"
           /\ g = [f EXCEPT !.answer = [is |-> "ok", by |-> m.read, nonce |-> m.n]]
  <2>1. /\ g.aggregated = f.aggregated
        /\ g.answer = [is |-> "ok", by |-> m.read, nonce |-> m.n]
    BY <1>2, <1>5
  <2>2. g \in Futures
    <3>1. [f EXCEPT !.answer = [is |-> "ok", by |-> m.read, nonce |-> m.n]] \in Futures
      BY <1>2, Answering
    <3> QED  BY <1>5, <3>1
  <2>3. CASE step = "challenge"
    <3>1. m.kind = "CHALLENGE"
      BY <1>5, <2>3 DEF Expected
    <3> HIDE DEF g
    <3>2. Held(g, q)
      BY <2>1, <2>2, <2>3, <3>1, ChallengeKeepsHeld
    <3> QED  BY <2>2, <3>2 DEF g
  <2>4. CASE step # "challenge"
    <3>1. m.kind = "STATUS" /\ LogAsked
      BY <1>5, <2>4 DEF Expected, Pending, LogAsked, Types
    <3> HIDE DEF g
    <3>2. Held(g, q)
      BY <2>1, <2>2, <3>1, StatusKeepsHeld
    <3> QED  BY <2>2, <3>2 DEF g
  <2> QED  BY <2>3, <2>4
<1>6. CASE /\ Pending /\ f.answer.is = "none" /\ m.kind = "LOG_ENTRY" /\ step = "log"
           /\ g = [f EXCEPT !.aggregated = Append(@, m.n)]
  <2>1. g.answer = f.answer
    BY <1>2, <1>6
  <2>5. Extends(g.aggregated, f.aggregated, m.n)
    <3>1. g.aggregated = Append(f.aggregated, m.n)
      BY <1>2, <1>6
    <3>2. Extends(Append(f.aggregated, m.n), f.aggregated, m.n)
      BY <1>2, OneMore
    <3> QED  BY <3>1, <3>2
  <2>2. g \in Futures
    <3>1. Append(f.aggregated, m.n) \in Seq(Nat)
      BY <1>2, OneMore
    <3>2. [f EXCEPT !.aggregated = Append(f.aggregated, m.n)] \in Futures
      BY <3>1, Collecting
    <3> QED  BY <1>6, <3>2
  <2>3. LogAsked
    BY <1>6 DEF Pending, LogAsked
  <2> HIDE DEF g
  <2>4. Held(g, q)
    BY <1>6, <2>1, <2>2, <2>3, <2>5, EntryKeepsHeld
  <2> QED  BY <2>2, <2>4 DEF g
<1> QED  BY <1>3, <1>4, <1>5, <1>6 DEF Handle

-----------------------------------------------------------------------------
(* The rest of an answer.                                                  *)

\* q has some of the units of p, in their order, and among them the units of all answers.
Kept(q, p) ==
    \E e \in [DOMAIN q -> DOMAIN p] :
       /\ \A i \in DOMAIN q : q[i] = p[e[i]] /\ \A j \in DOMAIN q : i < j => e[i] < e[j]
       /\ \A i \in DOMAIN p : IsAnswer(p[i]) => \E j \in DOMAIN q : e[j] = i

LEMMA KeptKeepsRest ==
    ASSUME NEW f, NEW p \in Seq(AllUnits), NEW q \in Seq(AllUnits), Kept(q, p),
           read # 0, Rest(f, p)
    PROVE  Rest(f, q)
<1>1. PICK e \in [DOMAIN q -> DOMAIN p] :
        /\ \A i \in DOMAIN q : q[i] = p[e[i]] /\ \A j \in DOMAIN q : i < j => e[i] < e[j]
        /\ \A i \in DOMAIN p : IsAnswer(p[i]) => \E j \in DOMAIN q : e[j] = i
  BY DEF Kept
<1>2. \A i \in DOMAIN q : e[i] \in DOMAIN p /\ q[i] = p[e[i]] /\ e[i] \in Nat /\ e[i] >= 1
  BY <1>1
<1>3. \A i, j \in DOMAIN q : i < j <=> e[i] < e[j]
  <2>1. \A i, j \in DOMAIN q : i < j => e[i] < e[j]
    BY <1>1
  <2>2. \A i, j \in DOMAIN q : i < j \/ i = j \/ j < i
    OBVIOUS
  <2>3. ASSUME NEW i \in DOMAIN q, NEW j \in DOMAIN q, e[i] < e[j]
        PROVE  i < j
    <3>1. PICK a, b : a = e[i] /\ b = e[j]
      OBVIOUS
    <3>2. a \in Nat /\ b \in Nat /\ a < b
      BY <1>2, <2>3, <3>1
    <3>3. ~(b < a) /\ a # b
      BY <3>2
    <3>4. i # j /\ ~(j < i)
      BY <2>1, <3>1, <3>3, Zenon
    <3> QED  BY <2>2, <3>4, Zenon
  <2> QED  BY <2>1, <2>3, Zenon
<1>4. ASSUME NEW i \in DOMAIN q, e[i] < Len(p), IsAnswer(p[e[i] + 1])
      PROVE  i < Len(q) /\ p[e[i] + 1] = q[i + 1]
  <2>1. e[i] + 1 \in DOMAIN p
    BY <1>2, <1>4
  <2>2. PICK j \in DOMAIN q : e[j] = e[i] + 1
    BY <1>1, <1>4, <2>1
  <2>3. i < j /\ j <= Len(q) /\ i \in Nat /\ j \in Nat
    BY <1>2, <1>3, <2>2, SMTT(30)
  <2>4. i + 1 \in DOMAIN q
    BY <2>3, SMTT(30)
  <2>5. j = i + 1
    <3>1. SUFFICES ASSUME i + 1 < j PROVE FALSE
      BY <2>3, SMTT(30)
    <3>2. i < i + 1
      BY <2>3
    <3>3. e[i] < e[i + 1] /\ e[i + 1] < e[j]
      BY <1>3, <2>4, <3>1, <3>2, Zenon
    <3>4. PICK a, b : a = e[i] /\ b = e[i + 1]
      OBVIOUS
    <3>5. a \in Nat /\ b \in Nat
      BY <1>2, <2>4, <3>4
    <3>6. a < b /\ b < a + 1
      BY <2>2, <3>3, <3>4
    <3> QED  BY <3>5, <3>6
  <2>6. i < Len(q)
    <3>1. Len(q) \in Nat
      OBVIOUS
    <3> QED  BY <2>3, <3>1
  <2>7. q[j] = p[e[j]]
    BY <1>2, Zenon
  <2>8. p[e[i] + 1] = q[j]
    BY <2>2, <2>7, Zenon
  <2> QED  BY <2>5, <2>6, <2>8, Zenon
<1>5. ASSUME NEW i \in DOMAIN q, \A j \in 1 .. i - 1 : ~IsAnswer(q[j])
      PROVE  \A j \in 1 .. e[i] - 1 : ~IsAnswer(p[j])
  <2> SUFFICES ASSUME NEW j \in 1 .. e[i] - 1, IsAnswer(p[j]) PROVE FALSE
    OBVIOUS
  <2>1. j \in DOMAIN p /\ j < e[i]
    BY <1>2
  <2>2. PICK k \in DOMAIN q : e[k] = j
    BY <1>1, <2>1
  <2>3. k < i /\ k \in 1 .. i - 1 /\ q[k] = p[j]
    BY <1>2, <1>3, <2>1, <2>2, SMTT(30)
  <2> QED  BY <1>5, <2>3
<1>6. \A k : IsAnswer([of |-> Part(read, k), at |-> 1])
  BY DEF IsAnswer, Is, Part, Message
<1>7. ASSUME NEW i \in DOMAIN q, IsAnswer(q[i])
      PROVE  /\ (\A j \in 1 .. i - 1 : ~IsAnswer(q[j])) =>
                  q[i] = [of |-> Part(read, Len(f.aggregated)), at |-> 1]
             /\ q[i].at < Size(q[i].of) =>
                  i < Len(q) /\ q[i + 1] = [of |-> q[i].of, at |-> q[i].at + 1]
             /\ \A k \in DOMAIN served[read] :
                  q[i] = [of |-> Part(read, k - 1), at |-> Size(q[i].of)] =>
                     i < Len(q) /\ q[i + 1] = [of |-> Part(read, k), at |-> 1]
  <2> DEFINE x == e[i]
  <2>1. x \in DOMAIN p /\ q[i] = p[x] /\ IsAnswer(p[x])
    BY <1>2, <1>7
  <2>2. x < Len(p) /\ IsAnswer(p[x + 1]) => i < Len(q) /\ p[x + 1] = q[i + 1]
    BY <1>4
  <2>3. (\A j \in 1 .. i - 1 : ~IsAnswer(q[j])) => \A j \in 1 .. x - 1 : ~IsAnswer(p[j])
    BY <1>5
  <2> HIDE DEF x
  <2>4. /\ (\A j \in 1 .. x - 1 : ~IsAnswer(p[j])) =>
             p[x] = [of |-> Part(read, Len(f.aggregated)), at |-> 1]
        /\ p[x].at < Size(p[x].of) =>
             x < Len(p) /\ p[x + 1] = [of |-> p[x].of, at |-> p[x].at + 1]
        /\ \A k \in DOMAIN served[read] :
             p[x] = [of |-> Part(read, k - 1), at |-> Size(p[x].of)] =>
                x < Len(p) /\ p[x + 1] = [of |-> Part(read, k), at |-> 1]
    BY <2>1, Zenon DEF Rest
  <2>5. IsAnswer([of |-> p[x].of, at |-> p[x].at + 1])
    BY <2>1 DEF IsAnswer, Is
  <2> QED  BY <1>6, <2>1, <2>2, <2>3, <2>4, <2>5, Zenon
<1> QED  BY <1>7, Zenon DEF Rest

\* A message that is no answer leaves all of them.
LEMMA LeftIsKept ==
    ASSUME NEW p \in Seq(AllUnits), NEW q \in Seq(AllUnits), NEW m \in Messages,
           Begins(p, m), Left(q, p, Size(m)), ~IsAnswer([of |-> m, at |-> 1])
    PROVE  Kept(q, p)
<1> DEFINE s == Size(m)
           e == [i \in DOMAIN q |-> i + s]
<1>1. s \in Nat /\ s >= 1 /\ Left(q, p, s)
  BY SizeOfMessage
<1>2. \A j \in 1 .. s : p[j].of = m
  <2>1. \A j \in 1 .. s : p[j] = [of |-> m, at |-> j]
    BY Zenon DEF Begins
  <2> HIDE DEF s
  <2> TAKE j \in 1 .. s
  <2>2. p[j] = [of |-> m, at |-> j]
    BY <2>1
  <2>3. [of |-> m, at |-> j].of = m
    OBVIOUS
  <2> QED  BY <2>2, <2>3
<1>3. \A j \in 1 .. s : ~IsAnswer(p[j])
  BY <1>2 DEF IsAnswer, Is
<1> HIDE DEF s
<1>4. Len(q) = Len(p) - s /\ DOMAIN q = 1 .. Len(q) /\ DOMAIN p = 1 .. Len(p)
      /\ Len(p) \in Nat /\ Len(q) \in Nat
  BY <1>1, SMTT(30) DEF Left
<1>5. e \in [DOMAIN q -> DOMAIN p]
  BY <1>1, <1>4, SMTT(30)
<1>6. \A i \in DOMAIN q : q[i] = p[e[i]] /\ \A j \in DOMAIN q : i < j => e[i] < e[j]
  BY <1>1, <1>4, SMTT(30) DEF Left
<1>7. ASSUME NEW i \in DOMAIN p, IsAnswer(p[i])
      PROVE  \E j \in DOMAIN q : e[j] = i
  <2>1. i > s
    BY <1>1, <1>3, <1>4, <1>7
  <2>2. i - s \in DOMAIN q /\ e[i - s] = i
    BY <1>1, <1>4, <2>1, SMTT(30)
  <2> QED  BY <2>2
<1> HIDE DEF e
<1> QED  BY <1>5, <1>6, <1>7, Zenon DEF Kept

\* An entry is taken: the next of the answer is first now.
LEMMA EntryKeepsRest ==
    ASSUME Types, NEW f \in Futures, NEW m \in Messages,
           NEW p \in Seq(AllUnits), NEW q \in Seq(AllUnits),
           Begins(p, m), Left(q, p, Size(m)), read \in Reads, Rest(f, p),
           m.kind = "LOG_ENTRY", NEW g \in Futures, Extends(g.aggregated, f.aggregated, m.n)
    PROVE  Rest(g, q)
<1> DEFINE s == Size(m)
           old == f.aggregated
           new == g.aggregated
           sent == served[read]
           next == Len(old) + 1
<1>1. /\ 1 \in DOMAIN p /\ p[1] = [of |-> m, at |-> 1]
      /\ s \in DOMAIN p /\ p[s] = [of |-> m, at |-> s]
      /\ \A i \in DOMAIN q : i + s \in DOMAIN p /\ q[i] = p[i + s]
  BY FirstUnits
<1>2. s \in Nat /\ s >= 1 /\ Left(q, p, s)
  BY SizeOfMessage
<1>3. old \in Seq(Nat) /\ m.n \in Nat /\ sent \in Seq(Nat)
  BY DEF Futures, Messages, Types
<1>4. /\ Len(new) = next /\ DOMAIN new = 1 .. next /\ DOMAIN old = 1 .. Len(old)
      /\ Len(old) \in Nat /\ new[next] = m.n
      /\ \A k \in DOMAIN old : new[k] = old[k]
  BY DEF Extends
<1>5. Len(old) <= Len(sent) /\ \A k \in DOMAIN old : old[k] = sent[k]
  BY DEF Rest
<1>6. IsAnswer(p[1]) /\ IsAnswer(p[s])
  BY <1>1 DEF IsAnswer, Is
<1>7. p[1] = [of |-> Part(read, Len(old)), at |-> 1]
  <2>1. \A j \in 1 .. 1 - 1 : ~IsAnswer(p[j])
    OBVIOUS
  <2> QED  BY <1>1, <1>6, <2>1, Zenon DEF Rest
<1>8. m = Part(read, Len(old))
  BY <1>1, <1>7
<1>9. Len(old) < Len(sent) /\ m.n = sent[next]
  BY <1>3, <1>4, <1>8 DEF Part, Message
<1>10. next \in DOMAIN sent /\ next - 1 = Len(old)
  BY <1>3, <1>4, <1>9
<1>11. s < Len(p) /\ p[s + 1] = [of |-> Part(read, next), at |-> 1]
  <2>1. p[s] = [of |-> Part(read, next - 1), at |-> Size(p[s].of)]
    BY <1>1, <1>8, <1>10
  <2> QED  BY <1>1, <1>6, <1>10, <2>1, Zenon DEF Rest
<1>12. 1 \in DOMAIN q /\ q[1] = [of |-> Part(read, next), at |-> 1]
  BY <1>2, <1>11, SMTT(30) DEF Left
<1>17. \A k : IsAnswer([of |-> Part(read, k), at |-> 1])
  BY DEF IsAnswer, Is, Part, Message, Reads
<1>13. IsAnswer(q[1])
  BY <1>12, <1>17, Zenon
<1>18. next = Len(old) + 1
  OBVIOUS
<1>19. /\ Len(q) = Len(p) - s /\ Len(q) \in Nat /\ Len(p) \in Nat
       /\ \A i \in DOMAIN q : i \in Nat /\ i <= Len(q)
       /\ \A i \in Nat : i > 0 /\ i <= Len(q) => i \in DOMAIN q
  BY <1>2 DEF Left
<1> HIDE DEF s, old, new, next
<1>14. \A k \in DOMAIN new : new[k] = sent[k]
  <2> TAKE k \in DOMAIN new
  <2>1. k \in DOMAIN old \/ k = next
    BY <1>4, <1>18
  <2> QED  BY <1>4, <1>5, <1>9, <2>1
<1>15. ASSUME NEW i \in DOMAIN q, IsAnswer(q[i])
       PROVE  /\ (\A j \in 1 .. i - 1 : ~IsAnswer(q[j])) =>
                   q[i] = [of |-> Part(read, Len(new)), at |-> 1]
              /\ q[i].at < Size(q[i].of) =>
                   i < Len(q) /\ q[i + 1] = [of |-> q[i].of, at |-> q[i].at + 1]
              /\ \A k \in DOMAIN sent :
                   q[i] = [of |-> Part(read, k - 1), at |-> Size(q[i].of)] =>
                      i < Len(q) /\ q[i + 1] = [of |-> Part(read, k), at |-> 1]
  <2> DEFINE x == i + s
  <2>3. x \in DOMAIN p /\ q[i] = p[x] /\ IsAnswer(p[x])
    BY <1>1, <1>15
  <2>4. ASSUME x < Len(p)
        PROVE  i < Len(q) /\ p[x + 1] = q[i + 1]
    <3>1. i \in Nat /\ i <= Len(q)
      BY <1>19
    <3>3. i + s < Len(p)
      BY <2>4
    <3>6. s \in Nat
      BY <1>2
    <3>7. PICK l, k : l = Len(q) /\ k = Len(p)
      OBVIOUS
    <3>8. l \in Nat /\ k \in Nat /\ l = k - s /\ i + s < k
      BY <1>19, <3>3, <3>7, Zenon
    <3>9. i < l /\ (i + 1) + s = (i + s) + 1
      BY <3>1, <3>6, <3>8
    <3>4. i < Len(q) /\ (i + 1) + s = x + 1
      BY <3>7, <3>9
    <3>5. i + 1 \in DOMAIN q
      BY <1>19, <3>1, <3>4
    <3>2. i < Len(q) /\ i + 1 \in DOMAIN q /\ (i + 1) + s = x + 1
      BY <3>4, <3>5
    <3> QED  BY <1>1, <3>2
  <2> HIDE DEF x
  <2>5. /\ p[x].at < Size(p[x].of) =>
             x < Len(p) /\ p[x + 1] = [of |-> p[x].of, at |-> p[x].at + 1]
        /\ \A k \in DOMAIN sent :
             p[x] = [of |-> Part(read, k - 1), at |-> Size(p[x].of)] =>
                x < Len(p) /\ p[x + 1] = [of |-> Part(read, k), at |-> 1]
    BY <2>3, Zenon DEF Rest
  <2>6. /\ q[i].at < Size(q[i].of) =>
             i < Len(q) /\ q[i + 1] = [of |-> q[i].of, at |-> q[i].at + 1]
        /\ \A k \in DOMAIN sent :
             q[i] = [of |-> Part(read, k - 1), at |-> Size(q[i].of)] =>
                i < Len(q) /\ q[i + 1] = [of |-> Part(read, k), at |-> 1]
    BY <2>3, <2>4, <2>5, Zenon
  <2>7. (\A j \in 1 .. i - 1 : ~IsAnswer(q[j])) =>
           q[i] = [of |-> Part(read, Len(new)), at |-> 1]
    <3>1. i \in Nat /\ i >= 1
      OBVIOUS
    <3>2. i > 1 => 1 \in 1 .. i - 1
      BY <3>1
    <3> QED  BY <1>4, <1>12, <1>13, <3>1, <3>2, SMTT(30)
  <2> QED  BY <2>6, <2>7
<1>16. Len(new) <= Len(sent)
  BY <1>4, <1>3, <1>9 DEF next
<1> QED  BY <1>14, <1>15, <1>16, Zenon DEF Rest, new

LEMMA SameEntries ==
    ASSUME NEW s \in Seq(Nat), NEW t \in Seq(Nat), Len(s) <= Len(t), Len(s) >= Len(t),
           \A k \in DOMAIN s : s[k] = t[k]
    PROVE  s = t
  OBVIOUS

\* Whatever message is next, the rest of an answer of which nothing was lost is complete.
LEMMA HandledIsWhole ==
    ASSUME Types, NEW f \in Futures, NEW m \in Messages,
           NEW p \in Seq(AllUnits), NEW q \in Seq(AllUnits),
           Begins(p, m), Left(q, p, Size(m)), Whole(f, p), Handle(f, m) \in Futures
    PROVE  Whole(Handle(f, m), q)
<1>2. /\ 1 \in DOMAIN p /\ p[1] = [of |-> m, at |-> 1]
      /\ \A i \in DOMAIN q : q[i] \in {p[j] : j \in DOMAIN p}
  <2> DEFINE s == Size(m)
  <2>1. /\ 1 \in DOMAIN p /\ p[1] = [of |-> m, at |-> 1]
        /\ s \in DOMAIN p /\ p[s] = [of |-> m, at |-> s]
        /\ \A i \in DOMAIN q : i + s \in DOMAIN p /\ q[i] = p[i + s]
    BY FirstUnits
  <2> HIDE DEF s
  <2> QED  BY <2>1
<1> DEFINE g == Handle(f, m)
           Ends(u) == \E i \in DOMAIN u : Is(u[i], "STATUS") /\ u[i].of.read = read
<1> SUFFICES ASSUME LogAsked, read \notin excused
             PROVE  /\ g.answer.is = "none" /\ Ends(q) => Rest(g, q)
                    /\ g.answer.is = "ok" /\ g.answer.by = read => g.aggregated = served[read]
  BY DEF Whole
<1>1. read \in Reads /\ read # 0 /\ step = "log" /\ Pending /\ Expected = "STATUS"
  BY SMTT(30) DEF LogAsked, Types, Reads, Pending, Expected
<1>3. Ends(q) => Ends(p)
  BY <1>2
<1>4. /\ f.answer.is = "none" /\ Ends(p) => Rest(f, p)
      /\ f.answer.is = "ok" /\ f.answer.by = read => f.aggregated = served[read]
  BY DEF Whole
<1>5. f = [answer |-> f.answer, aggregated |-> f.aggregated] /\ f.aggregated \in Seq(Nat)
      /\ m.kind \in Kinds /\ served[read] \in Seq(Nat) /\ m.n \in Nat
  BY <1>1 DEF Futures, Messages, Types
<1> HIDE DEF Ends
<1>6. CASE f.answer.is # "none"
  <2>1. g = f
    BY <1>6 DEF Handle
  <2> HIDE DEF g
  <2> QED  BY <1>4, <1>6, <2>1
<1>7. CASE f.answer.is = "none" /\ m.kind = "ERROR_REPORT"
  <2>1. g = [f EXCEPT !.answer = [NoAnswer EXCEPT !.is = "error"]]
    BY <1>1, <1>7 DEF Handle
  <2>2. g.answer.is = "error"
    BY <1>5, <2>1 DEF NoAnswer
  <2> HIDE DEF g
  <2> QED  BY <2>2
<1>8. CASE f.answer.is = "none" /\ m.kind = "STATUS"
  <2>1. g = [f EXCEPT !.answer = [is |-> "ok", by |-> m.read, nonce |-> m.n]]
    BY <1>1, <1>8 DEF Handle
  <2>2. g.answer.is = "ok" /\ g.answer.by = m.read /\ g.aggregated = f.aggregated
    BY <1>5, <2>1
  <2>3. ASSUME m.read = read
        PROVE  f.aggregated = served[read]
    <3>1. p[1].of = m
      BY <1>2
    <3>2. Ends(p)
      BY <1>2, <1>8, <2>3, <3>1, Zenon DEF Ends, Is
    <3>3. Rest(f, p)
      BY <1>4, <1>8, <3>2
    <3>4. IsAnswer(p[1]) /\ \A j \in 1 .. 1 - 1 : ~IsAnswer(p[j])
      BY <1>1, <1>8, <2>3, <3>1 DEF IsAnswer, Is
    <3>5. p[1] = [of |-> Part(read, Len(f.aggregated)), at |-> 1]
      BY <1>2, <3>3, <3>4, Zenon DEF Rest
    <3>6. m = Part(read, Len(f.aggregated))
      BY <1>2, <3>5
    <3>7. Len(f.aggregated) >= Len(served[read])
      BY <1>5, <1>8, <3>6 DEF Part, Message
    <3>8. Len(f.aggregated) <= Len(served[read])
          /\ \A k \in DOMAIN f.aggregated : f.aggregated[k] = served[read][k]
      BY <3>3, Zenon DEF Rest
    <3>9. Len(f.aggregated) \in Nat /\ Len(served[read]) \in Nat
      BY <1>5
    <3> QED  BY <1>5, <3>7, <3>8, <3>9, SameEntries
  <2> HIDE DEF g
  <2> QED  BY <2>2, <2>3
<1>9. CASE f.answer.is = "none" /\ m.kind = "LOG_ENTRY"
  <2>1. g = [f EXCEPT !.aggregated = Append(@, m.n)]
    BY <1>1, <1>9 DEF Handle
  <2>2. g.aggregated = Append(f.aggregated, m.n) /\ g.answer = f.answer
    BY <1>5, <2>1
  <2>3. Extends(g.aggregated, f.aggregated, m.n)
    BY <1>5, <2>2, OneMore
  <2>4. g \in Futures
    OBVIOUS
  <2> HIDE DEF g
  <2>5. Rest(f, p) => Rest(g, q)
    BY <1>1, <1>9, <2>3, <2>4, EntryKeepsRest
  <2> QED  BY <1>3, <1>4, <1>9, <2>2, <2>5
<1>10. CASE f.answer.is = "none" /\ m.kind = "CHALLENGE"
  <2>1. g = f
    BY <1>1, <1>10 DEF Handle
  <2>2. ~IsAnswer([of |-> m, at |-> 1])
    BY <1>10 DEF IsAnswer, Is
  <2>3. Kept(q, p)
    BY <2>2, LeftIsKept
  <2>4. Rest(f, p) => Rest(f, q)
    BY <1>1, <2>3, KeptKeepsRest
  <2> HIDE DEF g
  <2> QED  BY <1>3, <1>4, <1>10, <2>1, <2>4
<1> QED  BY <1>5, <1>6, <1>7, <1>8, <1>9, <1>10 DEF Kinds

-----------------------------------------------------------------------------
(* A stream that begins at a message.                                      *)

LEMMA BeforeLast ==
    ASSUME NEW n \in Nat, NEW i \in Nat, 1 <= i, i <= n, i # n
    PROVE  i \in 1 .. n - 1
  OBVIOUS

LEMMA AlignedBegins ==
    ASSUME NEW p \in Seq(AllUnits), p # <<>>, Aligned(p)
    PROVE  p[1].of \in Messages /\ Begins(p, p[1].of)
<1> DEFINE m == p[1].of
           s == Size(m)
           T == {j \in Nat : j < s => j + 1 <= Len(p) /\ p[j + 1] = [of |-> m, at |-> j + 1]}
<1>1. Len(p) \in Nat /\ Len(p) >= 1 /\ DOMAIN p = 1 .. Len(p)
  OBVIOUS
<1>2. \A i \in 1 .. Len(p) :
         p[i] = [of |-> p[i].of, at |-> p[i].at] /\ p[i].at \in Nat /\ p[i].of \in Messages
  BY <1>1 DEF AllUnits
<1>3. m \in Messages /\ p[1] = [of |-> m, at |-> 1]
  BY <1>1, <1>2 DEF Aligned
<1>4. s \in Nat /\ s >= 1
  BY SizeOfMessage
<1>5. p[Len(p)].at = Size(p[Len(p)].of)
  BY DEF Aligned
<1>6. \A i \in 1 .. Len(p) - 1 :
         p[i].at < Size(p[i].of) => p[i + 1] = [of |-> p[i].of, at |-> p[i].at + 1]
  BY DEF Aligned
<1>7. 0 \in T
  BY <1>1, <1>3
<1>8. ASSUME NEW j \in Nat, j \in T
      PROVE  j + 1 \in T
  <2> SUFFICES ASSUME j + 1 < s
               PROVE  (j + 1) + 1 <= Len(p) /\ p[(j + 1) + 1] = [of |-> m, at |-> (j + 1) + 1]
    BY DEF T
  <2>1. j + 1 <= Len(p) /\ p[j + 1] = [of |-> m, at |-> j + 1]
    BY <1>4, <1>8 DEF T
  <2>6. j + 1 < Size(m)
    OBVIOUS
  <2> HIDE DEF s
  <2>2. p[j + 1].of = m /\ p[j + 1].at = j + 1
    BY <2>1
  <2>3. j + 1 # Len(p)
    <3>1. SUFFICES ASSUME j + 1 = Len(p) PROVE FALSE
      OBVIOUS
    <3>2. j + 1 = Size(m)
      BY <1>5, <2>2, <3>1
    <3> QED  BY <2>6, <3>2
  <2>7. j + 1 <= Len(p) /\ j + 1 \in Nat /\ j + 1 >= 1
    BY <2>1
  <2>4. j + 1 \in 1 .. Len(p) - 1
    <3>1. Len(p) \in Nat
      BY <1>1
    <3> QED  BY <2>3, <2>7, <3>1, BeforeLast
  <2>5. p[(j + 1) + 1] = [of |-> m, at |-> (j + 1) + 1]
    BY <1>6, <2>2, <2>4, <2>6
  <2> QED  BY <1>1, <2>4, <2>5
<1>9. Nat \subseteq T
  <2> HIDE DEF T
  <2> QED  BY <1>7, <1>8, InductionOverSets
<1>10. \A i \in 1 .. s : i <= Len(p) /\ p[i] = [of |-> m, at |-> i]
  <2> TAKE i \in 1 .. s
  <2>1. i - 1 \in Nat /\ i - 1 < s /\ (i - 1) + 1 = i
    BY <1>4
  <2>2. i - 1 \in T
    BY <1>9, <2>1
  <2> QED  BY <2>1, <2>2
<1>11. s <= Len(p)
  <2>1. s \in 1 .. s
    BY <1>4
  <2> HIDE DEF s
  <2> QED  BY <1>10, <2>1
<1> QED  BY <1>3, <1>10, <1>11, Zenon DEF Begins

LEMMA AlignedLeft ==
    ASSUME NEW p \in Seq(AllUnits), NEW q \in Seq(AllUnits), p # <<>>, Aligned(p),
           Left(q, p, Size(p[1].of))
    PROVE  Aligned(q)
<1> DEFINE m == p[1].of
           s == Size(m)
<1> SUFFICES ASSUME q # <<>> PROVE Aligned(q)
  BY DEF Aligned
<1>1. s \in Nat /\ s >= 1 /\ Left(q, p, s)
  BY SizeOfMessage
<1>2. s \in DOMAIN p /\ p[s] = [of |-> m, at |-> s]
  <2>1. m \in Messages /\ Begins(p, m)
    BY AlignedBegins
  <2> HIDE DEF m
  <2>2. /\ 1 \in DOMAIN p /\ p[1] = [of |-> m, at |-> 1]
        /\ s \in DOMAIN p /\ p[s] = [of |-> m, at |-> s]
        /\ \A i \in DOMAIN q : i + s \in DOMAIN p /\ q[i] = p[i + s]
    BY <1>1, <2>1, FirstUnits
  <2> QED  BY <2>2
<1>3. p[s].at = Size(p[s].of)
  <2>1. p[s].of = m /\ p[s].at = s
    BY <1>2
  <2> QED  BY <2>1
<1> HIDE DEF s
<1>4. /\ Len(q) = Len(p) - s /\ Len(q) \in Nat /\ Len(p) \in Nat /\ Len(q) >= 1
      /\ \A i \in 1 .. Len(q) : q[i] = p[i + s]
  BY <1>1 DEF Left
<1>5. /\ p[Len(p)].at = Size(p[Len(p)].of)
      /\ \A i \in 1 .. Len(p) - 1 :
            IF p[i].at < Size(p[i].of) THEN p[i + 1] = [of |-> p[i].of, at |-> p[i].at + 1]
            ELSE p[i + 1].at = 1
  BY DEF Aligned
<1>6. q[1].at = 1
  <2>1. s \in 1 .. Len(p) - 1 /\ ~(p[s].at < Size(p[s].of))
    BY <1>1, <1>2, <1>3, <1>4, SizeOfMessage, SMTT(30)
  <2>2. p[s + 1].at = 1
    BY <1>5, <2>1
  <2>3. 1 \in 1 .. Len(q) /\ 1 + s = s + 1
    BY <1>1, <1>4
  <2> QED  BY <1>4, <2>2, <2>3
<1>7. q[Len(q)].at = Size(q[Len(q)].of)
  <2>1. Len(q) \in 1 .. Len(q) /\ Len(q) + s = Len(p)
    BY <1>1, <1>4
  <2>2. q[Len(q)] = p[Len(p)]
    BY <1>4, <2>1
  <2> QED  BY <1>5, <2>2
<1>8. ASSUME NEW i \in 1 .. Len(q) - 1
      PROVE  IF q[i].at < Size(q[i].of) THEN q[i + 1] = [of |-> q[i].of, at |-> q[i].at + 1]
             ELSE q[i + 1].at = 1
  <2>4. i \in Nat /\ i >= 1 /\ i <= Len(q) - 1
    BY <1>4
  <2>1. /\ i \in 1 .. Len(q) /\ i + 1 \in 1 .. Len(q) /\ i + s \in 1 .. Len(p) - 1
        /\ (i + 1) + s = (i + s) + 1
    BY <1>1, <1>4, <2>4
  <2>5. q[i] = p[i + s]
    BY <1>4, <2>1
  <2>6. q[i + 1] = p[(i + 1) + s]
    BY <1>4, <2>1
  <2>2. q[i] = p[i + s] /\ q[i + 1] = p[(i + s) + 1]
    BY <2>1, <2>5, <2>6
  <2>3. IF p[i + s].at < Size(p[i + s].of)
        THEN p[(i + s) + 1] = [of |-> p[i + s].of, at |-> p[i + s].at + 1]
        ELSE p[(i + s) + 1].at = 1
    BY <1>5, <2>1
  <2> QED  BY <2>2, <2>3
<1> QED  BY <1>6, <1>7, <1>8 DEF Aligned

-----------------------------------------------------------------------------
(* Taking messages from the buffer.                                        *)

LEMMA JoinedUnits ==
    ASSUME NEW r \in Seq(AllUnits), NEW w \in Seq(AllUnits)
    PROVE  /\ r \o w \in Seq(AllUnits) /\ Len(r \o w) = Len(r) + Len(w)
           /\ \A j \in 1 .. Len(r) : (r \o w)[j] = r[j]
           /\ \A j \in 1 .. Len(w) : (r \o w)[Len(r) + j] = w[j]
           /\ Len(r) \in Nat /\ Len(w) \in Nat
  OBVIOUS

LEMMA SameUnits ==
    ASSUME NEW r \in Seq(AllUnits), NEW w \in Seq(AllUnits), Len(r) = Len(w),
           \A j \in 1 .. Len(r) : r[j] = w[j]
    PROVE  r = w
  OBVIOUS

LEMMA CutUnits ==
    ASSUME NEW r \in Seq(AllUnits), NEW n \in 1 .. Len(r)
    PROVE  /\ SubSeq(r, 1, n) \in Seq(AllUnits) /\ Len(SubSeq(r, 1, n)) = n
           /\ \A j \in 1 .. n : SubSeq(r, 1, n)[j] = r[j]
           /\ SubSeq(r, n + 1, Len(r)) \in Seq(AllUnits)
           /\ Len(SubSeq(r, n + 1, Len(r))) = Len(r) - n
           /\ \A j \in 1 .. Len(r) - n : SubSeq(r, n + 1, Len(r))[j] = r[j + n]
<1>1. Len(r) \in Nat /\ n \in Nat /\ 1 <= n /\ n <= Len(r)
  OBVIOUS
<1>2. /\ SubSeq(r, 1, n) \in Seq(AllUnits) /\ Len(SubSeq(r, 1, n)) = n
      /\ \A j \in 1 .. n : SubSeq(r, 1, n)[j] = r[j]
  BY <1>1, SubSeqProperties
<1>3. /\ SubSeq(r, n + 1, Len(r)) \in Seq(AllUnits)
      /\ Len(SubSeq(r, n + 1, Len(r))) = Len(r) - n
      /\ \A j \in 1 .. Len(r) - n : SubSeq(r, n + 1, Len(r))[j] = r[j + n]
  BY <1>1, SubSeqProperties
<1> QED  BY <1>2, <1>3

\* What is left of the buffer, and of the stream with it.
LEMMA CutLeft ==
    ASSUME NEW r \in Seq(AllUnits), NEW w \in Seq(AllUnits), NEW n \in 1 .. Len(r)
    PROVE  Left(SubSeq(r, n + 1, Len(r)) \o w, r \o w, n)
<1> DEFINE u == SubSeq(r, n + 1, Len(r))
<1>1. /\ u \in Seq(AllUnits) /\ Len(u) = Len(r) - n
      /\ \A j \in 1 .. Len(r) - n : u[j] = r[j + n]
  BY CutUnits
<1>2. Len(r) \in Nat /\ Len(w) \in Nat /\ n \in Nat /\ 1 <= n /\ n <= Len(r)
  OBVIOUS
<1> HIDE DEF u
<1>3. Len(u \o w) = Len(u) + Len(w) /\ Len(r \o w) = Len(r) + Len(w)
  BY <1>1, JoinedUnits
<1>4. ASSUME NEW i \in 1 .. Len(u \o w)
      PROVE  (u \o w)[i] = (r \o w)[i + n]
  <2>1. CASE i <= Len(u)
    <3>1. i \in 1 .. Len(u) /\ i \in 1 .. Len(r) - n /\ i + n \in 1 .. Len(r)
      BY <1>1, <1>2, <2>1
    <3>2. (u \o w)[i] = u[i] /\ (r \o w)[i + n] = r[i + n]
      BY <1>1, <3>1, JoinedUnits, ZenonT(30)
    <3> QED  BY <1>1, <3>1, <3>2
  <2>2. CASE i > Len(u)
    <3> DEFINE j == i - Len(u)
    <3>1. j \in 1 .. Len(w) /\ i = Len(u) + j /\ i + n = Len(r) + j
      BY <1>1, <1>2, <1>3, <2>2
    <3> HIDE DEF j
    <3>2. (u \o w)[Len(u) + j] = w[j] /\ (r \o w)[Len(r) + j] = w[j]
      BY <1>1, <3>1, JoinedUnits, ZenonT(30)
    <3> QED  BY <3>1, <3>2
  <2>3. i <= Len(u) \/ i > Len(u)
    BY <1>1, <1>2
  <2> QED  BY <2>1, <2>2, <2>3
<1>5. n \in 0 .. Len(r \o w) /\ Len(u \o w) = Len(r \o w) - n
  BY <1>1, <1>2, <1>3
<1> QED  BY <1>4, <1>5 DEF Left, u

LEMMA LeftOfLeft ==
    ASSUME NEW p, NEW q, NEW u, NEW m, NEW n, Len(p) \in Nat, Len(q) \in Nat, Len(u) \in Nat,
           Left(q, p, n), Left(u, q, m)
    PROVE  Left(u, p, n + m)
<1>1. m \in Nat /\ n \in Nat /\ n + m <= Len(p) /\ Len(u) = Len(p) - (n + m)
  BY DEF Left
<1>2. ASSUME NEW i \in 1 .. Len(u)
      PROVE  u[i] = p[i + (n + m)]
  <2>1. i + m \in 1 .. Len(q) /\ (i + m) + n = i + (n + m)
    BY <1>1 DEF Left
  <2> QED  BY <2>1 DEF Left
<1>3. n + m \in 0 .. Len(p)
  BY <1>1
<1> QED  BY <1>1, <1>2, <1>3, Zenon DEF Left

\* What feed() has after i rounds, with w still under way.
FedInv(fed, i, buf, w, f) ==
    /\ fed.rest \in Seq(AllUnits) /\ fed.raw \in Seq(Seq(AllUnits))
    /\ Len(fed.rest) <= Len(buf)
    /\ Complete(fed.rest) => Len(fed.rest) + i <= Len(buf)
    /\ \E n : Left(fed.rest \o w, buf \o w, n)
    /\ Aligned(buf \o w) =>
         Aligned(fed.rest \o w) /\ \A k \in DOMAIN fed.raw : Decodable(fed.raw[k])
    /\ (\A k \in DOMAIN fed.raw : Decodable(fed.raw[k])) =>
         /\ HandleAll(f, fed.raw) \in Futures
         /\ StreamInv(HandleAll(f, fed.raw), fed.rest \o w)

\* A message that can be decoded is one that the stream begins with.
LEMMA DecodableBegins ==
    ASSUME NEW r \in Seq(AllUnits), NEW w \in Seq(AllUnits), NEW n \in 1 .. Len(r),
           NEW x, x = SubSeq(r, 1, n), Decodable(x)
    PROVE  x[1].of \in Messages /\ n = Size(x[1].of) /\ Begins(r \o w, x[1].of)
<1> DEFINE m == x[1].of
<1>1. /\ x \in Seq(AllUnits) /\ Len(x) = n /\ \A j \in 1 .. n : x[j] = r[j]
  BY CutUnits
<1>2. Len(r) \in Nat /\ n \in Nat /\ 1 <= n /\ n <= Len(r) /\ Len(w) \in Nat
  OBVIOUS
<1>3. m \in Messages
  <2>1. x[1] \in AllUnits
    BY <1>1, <1>2
  <2> QED  BY <2>1 DEF AllUnits
<1>4. x = Units(m)
  BY DEF Decodable
<1> HIDE DEF m
<1>5. Len(Units(m)) = Size(m) /\ \A j \in 1 .. Size(m) : Units(m)[j] = [of |-> m, at |-> j]
  BY <1>3, UnitsOfMessage
<1>6. n = Size(m) /\ \A j \in 1 .. n : r[j] = [of |-> m, at |-> j]
  BY <1>1, <1>4, <1>5
<1>7. Len(r \o w) = Len(r) + Len(w) /\ \A j \in 1 .. Len(r) : (r \o w)[j] = r[j]
  BY JoinedUnits
<1>8. \A j \in 1 .. n : (r \o w)[j] = [of |-> m, at |-> j]
  BY <1>2, <1>6, <1>7
<1>9. n <= Len(r \o w)
  BY <1>2, <1>7
<1>10. Begins(r \o w, m)
  BY <1>6, <1>8, <1>9, Zenon DEF Begins
<1> QED  BY <1>3, <1>6, <1>10 DEF m

\* A complete message at the head of a stream that begins at a message is one that was sent.
LEMMA AlignedIsDecodable ==
    ASSUME NEW r \in Seq(AllUnits), NEW w \in Seq(AllUnits), Aligned(r \o w),
           Len(r) >= Header
    PROVE  /\ SizeAtHead(r) = Size(r[1].of) /\ r[1] = (r \o w)[1] /\ r \o w # <<>>
           /\ Len(r) >= SizeAtHead(r) => Decodable(SubSeq(r, 1, SizeAtHead(r)))
<1> DEFINE p == r \o w
           m == p[1].of
           s == Size(m)
<1>1. Header \in Nat /\ Header >= 1 /\ Len(r) \in Nat /\ Len(w) \in Nat
  OBVIOUS
<1>2. p \in Seq(AllUnits) /\ Len(p) = Len(r) + Len(w) /\ \A j \in 1 .. Len(r) : p[j] = r[j]
  BY JoinedUnits
<1>3. r[1] = p[1] /\ p # <<>> /\ Len(p) >= 1
  BY <1>1, <1>2
<1>4. m \in Messages /\ Begins(p, m)
  BY <1>2, <1>3, AlignedBegins
<1>5. s \in Nat /\ s > Header
  BY SizeOfMessage
<1> HIDE DEF p
<1>6. s <= Len(p) /\ \A j \in 1 .. s : p[j] = [of |-> m, at |-> j]
  BY <1>4, Zenon DEF Begins
<1> HIDE DEF m, s
<1>7. r[Header] = [of |-> m, at |-> Header]
  <2>1. Header \in 1 .. s /\ Header \in 1 .. Len(r)
    BY <1>1, <1>5
  <2> QED  BY <1>2, <1>6, <2>1
<1>8. SizeAtHead(r) = s
  BY <1>7 DEF SizeAtHead, s
<1>9. ASSUME Len(r) >= s
      PROVE  Decodable(SubSeq(r, 1, s))
  <2> DEFINE x == SubSeq(r, 1, s)
  <2>1. s \in 1 .. Len(r)
    BY <1>1, <1>5, <1>9
  <2>2. x \in Seq(AllUnits) /\ Len(x) = s /\ \A j \in 1 .. s : x[j] = r[j]
    BY <2>1, CutUnits
  <2> HIDE DEF x
  <2>3. Units(m) \in Seq(AllUnits) /\ Len(Units(m)) = s
        /\ \A j \in 1 .. s : Units(m)[j] = [of |-> m, at |-> j]
    BY <1>4, UnitsOfMessage DEF s
  <2>4. \A j \in 1 .. s : x[j] = Units(m)[j]
    <3> TAKE j \in 1 .. s
    <3>1. j \in 1 .. Len(r)
      BY <1>5, <2>1
    <3>2. x[j] = p[j]
      BY <1>2, <2>2, <3>1
    <3> QED  BY <1>6, <2>3, <3>2
  <2>5. x = Units(m)
    BY <2>2, <2>3, <2>4, SameUnits
  <2>6. x[1].of = m
    <3>1. 1 \in 1 .. s
      BY <1>1, <1>5
    <3>2. x[1] = [of |-> m, at |-> 1]
      BY <2>3, <2>5, <3>1
    <3> QED  BY <3>2
  <2> QED  BY <2>5, <2>6 DEF Decodable, x
<1> QED  BY <1>3, <1>8, <1>9 DEF p, m, s

LEMMA LessIsLeft ==
    ASSUME NEW a \in Nat, NEW b \in Nat, NEW n \in Nat, NEW i \in Nat, n >= 1, a <= b, a + i <= b
    PROVE  a - n <= b /\ (a - n) + (i + 1) <= b
  OBVIOUS

LEMMA OneMoreRaw ==
    ASSUME NEW raws \in Seq(Seq(AllUnits)), NEW x \in Seq(AllUnits)
    PROVE  /\ Append(raws, x) \in Seq(Seq(AllUnits))
           /\ DOMAIN Append(raws, x) = 1 .. Len(raws) + 1
           /\ DOMAIN raws = 1 .. Len(raws) /\ Len(raws) \in Nat
           /\ Append(raws, x)[Len(raws) + 1] = x
           /\ \A k \in DOMAIN raws : Append(raws, x)[k] = raws[k]
  BY SMTT(30)

LEMMA TakeKeeps ==
    ASSUME Types, Nonces, NEW f \in Futures, NEW buf \in Seq(AllUnits), NEW w \in Seq(AllUnits),
           NEW fed, NEW i \in Nat, FedInv(fed, i, buf, w, f)
    PROVE  FedInv(TakeMessage(fed), i + 1, buf, w, f)
<1>1. CASE ~Complete(fed.rest)
  <2>1. TakeMessage(fed) = fed
    BY <1>1 DEF TakeMessage
  <2> QED  BY <1>1, <2>1 DEF FedInv
<1>2. CASE Complete(fed.rest)
  <2> DEFINE r == fed.rest
             n == SizeAtHead(r)
             x == SubSeq(r, 1, n)
             u == SubSeq(r, n + 1, Len(r))
             raw == Append(fed.raw, x)
             new == TakeMessage(fed)
  <2>1. new = [rest |-> u, raw |-> raw]
    BY <1>2 DEF TakeMessage
  <2>2. r \in Seq(AllUnits) /\ fed.raw \in Seq(Seq(AllUnits)) /\ Len(r) \in Nat /\ Len(buf) \in Nat
        /\ Len(w) \in Nat
    BY SMTT(30) DEF FedInv
  <2>3. n \in 1 .. Len(r) /\ Len(r) >= Header /\ Len(r) >= n
    <3>1. Len(r) >= Header /\ Len(r) >= n
      BY <1>2 DEF Complete
    <3>2. noise \in Nat
      BY DEF Types
    <3>3. n = Size(r[Header].of) \/ n = Header + noise
      BY DEF SizeAtHead
    <3> HIDE DEF n, r
    <3>4. n \in Nat /\ n >= 1
      BY <3>2, <3>3, SizeOfMessage
    <3> QED  BY <2>2, <3>1, <3>4
  <2> HIDE DEF n, r
  <2>4. /\ x \in Seq(AllUnits) /\ u \in Seq(AllUnits) /\ Len(u) = Len(r) - n /\ Len(u) \in Nat
        /\ Left(u \o w, r \o w, n)
    BY <2>2, <2>3, CutUnits, CutLeft, SMTT(30)
  <2>5. /\ r \o w \in Seq(AllUnits) /\ u \o w \in Seq(AllUnits) /\ buf \o w \in Seq(AllUnits)
        /\ Len(r \o w) \in Nat /\ Len(u \o w) \in Nat /\ Len(buf \o w) \in Nat
    BY <2>2, <2>4, JoinedUnits
  <2>6. /\ raw \in Seq(Seq(AllUnits)) /\ DOMAIN raw = 1 .. Len(fed.raw) + 1
        /\ DOMAIN fed.raw = 1 .. Len(fed.raw) /\ Len(fed.raw) \in Nat
        /\ raw[Len(fed.raw) + 1] = x /\ \A k \in DOMAIN fed.raw : raw[k] = fed.raw[k]
    BY <2>2, <2>4, OneMoreRaw
  <2> HIDE DEF x, u, raw, new
  <2>7. (\A k \in DOMAIN raw : Decodable(raw[k])) <=>
           Decodable(x) /\ \A k \in DOMAIN fed.raw : Decodable(fed.raw[k])
    <3>1. \A g \in Nat : /\ \A k \in 1 .. g + 1 : k \in 1 .. g \/ k = g + 1
                         /\ \A k \in 1 .. g : k \in 1 .. g + 1
                         /\ g + 1 \in 1 .. g + 1
      OBVIOUS
    <3>2. /\ \A k \in DOMAIN raw : k \in DOMAIN fed.raw \/ k = Len(fed.raw) + 1
          /\ \A k \in DOMAIN fed.raw : k \in DOMAIN raw
          /\ Len(fed.raw) + 1 \in DOMAIN raw
      BY <2>6, <3>1, Zenon
    <3> QED  BY <2>6, <3>1, <3>2
  <2>8. ASSUME Aligned(buf \o w)
        PROVE  Aligned(u \o w) /\ \A k \in DOMAIN raw : Decodable(raw[k])
    <3>1. Aligned(r \o w) /\ \A k \in DOMAIN fed.raw : Decodable(fed.raw[k])
      BY <2>8 DEF FedInv, r
    <3>2. /\ n = Size(r[1].of) /\ r[1] = (r \o w)[1] /\ r \o w # <<>>
          /\ Len(r) >= n => Decodable(x)
      BY <2>2, <2>3, <3>1, AlignedIsDecodable DEF n, x
    <3>3. Left(u \o w, r \o w, Size((r \o w)[1].of))
      BY <2>4, <3>2
    <3>4. Aligned(u \o w)
      BY <2>5, <3>1, <3>2, <3>3, AlignedLeft
    <3> QED  BY <2>3, <2>7, <3>1, <3>2, <3>4
  <2>9. ASSUME \A k \in DOMAIN raw : Decodable(raw[k])
        PROVE  HandleAll(f, raw) \in Futures /\ StreamInv(HandleAll(f, raw), u \o w)
    <3> DEFINE g == HandleAll(f, fed.raw)
               m == x[1].of
               p == r \o w
               q == u \o w
    <3>1. Decodable(x) /\ \A k \in DOMAIN fed.raw : Decodable(fed.raw[k])
      BY <2>7, <2>9
    <3>2. g \in Futures /\ StreamInv(g, p)
      BY <3>1 DEF FedInv, r
    <3>3. m \in Messages /\ n = Size(m) /\ Begins(p, m)
      BY <2>2, <2>3, <3>1, DecodableBegins DEF x
    <3>4. HandleAll(f, raw) = Handle(g, m)
      BY <2>2, <2>4, HandleOneMore DEF raw
    <3>5. Left(q, p, Size(m))
      BY <2>4, <3>3
    <3>6. p \in Seq(AllUnits) /\ q \in Seq(AllUnits)
      BY <2>5
    <3> HIDE DEF g, m, p, q
    <3>7. Held(g, p) /\ Whole(g, p)
      BY <3>2 DEF StreamInv, Held
    <3>8. Held(Handle(g, m), q) /\ Handle(g, m) \in Futures
      BY <3>2, <3>3, <3>5, <3>6, <3>7, HandledIsHeld
    <3>9. Whole(Handle(g, m), q)
      BY <3>2, <3>3, <3>5, <3>6, <3>7, <3>8, HandledIsWhole
    <3>10. Handle(g, m) \in Futures /\ StreamInv(Handle(g, m), q)
      BY <3>8, <3>9 DEF StreamInv, Held
    <3> QED  BY <3>4, <3>10 DEF q
  <2>10. \E k : Left(u \o w, buf \o w, k)
    <3>1. PICK k : Left(r \o w, buf \o w, k)
      BY DEF FedInv, r
    <3>2. Left(u \o w, buf \o w, k + n)
      BY <2>4, <2>5, <3>1, LeftOfLeft
    <3> QED  BY <3>2
  <2>11. Len(u) <= Len(buf) /\ Len(u) + (i + 1) <= Len(buf)
    <3>1. Len(r) <= Len(buf) /\ Len(r) + i <= Len(buf)
      BY <1>2 DEF FedInv, r
    <3>2. n \in Nat /\ n >= 1
      BY <2>3
    <3>3. Len(r) - n <= Len(buf) /\ (Len(r) - n) + (i + 1) <= Len(buf)
      BY <2>2, <3>1, <3>2, LessIsLeft
    <3> QED  BY <2>4, <3>3
  <2>12. FedInv([rest |-> u, raw |-> raw], i + 1, buf, w, f)
    BY <2>4, <2>6, <2>8, <2>9, <2>10, <2>11, Zenon DEF FedInv
  <2> QED  BY <2>1, <2>12 DEF new
<1> QED  BY <1>1, <1>2

LEMMA NothingTaken ==
    ASSUME NEW f \in Futures, NEW buf \in Seq(AllUnits), NEW w \in Seq(AllUnits),
           StreamInv(f, buf \o w)
    PROVE  FedInv([rest |-> buf, raw |-> <<>>], 0, buf, w, f)
<1>1. <<>> \in Seq(Seq(AllUnits)) /\ DOMAIN <<>> = {}
  OBVIOUS
<1>2. Len(buf) \in Nat /\ buf \o w \in Seq(AllUnits)
  BY JoinedUnits
<1>3. Left(buf \o w, buf \o w, 0)
  <2> DEFINE p == buf \o w
  <2> HIDE DEF p
  <2>1. p \in Seq(AllUnits)
    BY <1>2 DEF p
  <2>2. Left(p, p, 0)
    BY <2>1 DEF Left
  <2> QED  BY <2>2 DEF p
<1>4. HandleAll(f, <<>>) = f
  BY HandleNone
<1> DEFINE start == [rest |-> buf, raw |-> <<>>]
<1>5. start.rest = buf /\ start.raw = <<>>
  OBVIOUS
<1> HIDE DEF start
<1>6. Len(buf) <= Len(buf) /\ Len(buf) + 0 <= Len(buf)
  BY <1>2
<1>7. FedInv(start, 0, buf, w, f)
  BY <1>1, <1>3, <1>4, <1>5, <1>6 DEF FedInv
<1> QED  BY <1>7 DEF start

\* What feed() takes from the buffer, as long as it can be decoded, keeps the invariant; what it
\* leaves is no complete message.
LEMMA FeedKeeps ==
    ASSUME Types, Nonces, NEW f \in Futures, NEW buf \in Seq(AllUnits), NEW w \in Seq(AllUnits),
           StreamInv(f, buf \o w)
    PROVE  /\ FedInv(TakeMessages(buf), Len(buf), buf, w, f)
           /\ ~Complete(TakeMessages(buf).rest)
<1>1. PICK fed : Rounds(fed, buf) /\ TakeMessages(buf) = fed[Len(buf)]
  BY FeedHasRounds
<1>2. Len(buf) \in Nat
  OBVIOUS
<1>3. fed[0] = [rest |-> buf, raw |-> <<>>]
  BY <1>1, <1>2 DEF Rounds
<1>4. ASSUME NEW i \in Nat, i + 1 <= Len(buf)
      PROVE  fed[i + 1] = TakeMessage(fed[i])
  <2>1. i + 1 \in 0 .. Len(buf) /\ i + 1 # 0 /\ (i + 1) - 1 = i
    BY <1>2, <1>4
  <2> QED  BY <1>1, <2>1 DEF Rounds
<1> DEFINE T == {i \in Nat : i <= Len(buf) => FedInv(fed[i], i, buf, w, f)}
<1>5. 0 \in T
  BY <1>3, NothingTaken
<1>6. ASSUME NEW i \in Nat, i \in T
      PROVE  i + 1 \in T
  <2>1. ASSUME i + 1 <= Len(buf)
        PROVE  FedInv(fed[i + 1], i + 1, buf, w, f)
    <3>1. i <= Len(buf)
      BY <1>2, <2>1
    <3>2. FedInv(fed[i], i, buf, w, f)
      BY <1>6, <3>1
    <3>3. FedInv(TakeMessage(fed[i]), i + 1, buf, w, f)
      BY <3>2, TakeKeeps
    <3>4. fed[i + 1] = TakeMessage(fed[i])
      BY <1>4, <2>1
    <3> QED  BY <3>3, <3>4
  <2> QED  BY <2>1
<1>7. FedInv(fed[Len(buf)], Len(buf), buf, w, f)
  <2> HIDE DEF T
  <2>1. Len(buf) \in T
    BY <1>2, <1>5, <1>6, InductionOverSets
  <2> QED  BY <1>2, <2>1 DEF T
<1>8. ~Complete(fed[Len(buf)].rest)
  <2> DEFINE r == fed[Len(buf)].rest
  <2> SUFFICES ASSUME Complete(r) PROVE FALSE
    OBVIOUS
  <2> HIDE DEF r
  <2>1. Len(r) + Len(buf) <= Len(buf) /\ r \in Seq(AllUnits)
    BY <1>7 DEF FedInv, r
  <2>2. Len(r) >= Header /\ Header \in Nat /\ Header >= 1
    BY DEF Complete
  <2> QED  BY <1>2, <2>1, <2>2
<1> QED  BY <1>1, <1>7, <1>8

-----------------------------------------------------------------------------
(* Steps.                                                                  *)

\* What a part of the invariant depends on besides the stream and the future.
context == <<requests, nonce, challenges, served, read, step, at, challenge, result, excused>>

LEMMA HeldStays ==
    ASSUME NEW f, NEW p, Held(f, p), Future' = f, Stream' = p,
           UNCHANGED <<nonce, challenges, served, read, step, at, challenge, result>>,
           \A i \in DOMAIN requests' : \E j \in DOMAIN requests : requests'[i] = requests[j]
    PROVE  Held(Future, Stream)'
<1> USE DEF Held
<1>6. \A i \in DOMAIN requests' : \E j \in DOMAIN requests : requests'[i] = requests[j]
  OBVIOUS
<1>1. Sound(Stream)' /\ InSequence(Stream)'
  BY DEF Sound, InSequence
<1>2. Fresh(Future, Stream)'
  BY <1>6 DEF Fresh
<1>3. Own(Future, Stream)'
  BY <1>6 DEF Own, Clear, Alive, LogAsked
<1>4. Collected(Future, Stream)'
  BY DEF Collected, LogAsked
<1>5. AnsweredOnce(Future, Stream)'
  BY <1>6 DEF AnsweredOnce, Answered, Alive, LogAsked
<1> QED  BY <1>1, <1>2, <1>3, <1>4, <1>5 DEF Held

LEMMA WholeStays ==
    ASSUME NEW f, NEW p, Whole(f, p), Future' = f, Stream' = p,
           UNCHANGED <<served, read, step, at>>, excused \subseteq excused'
    PROVE  Whole(Future, Stream)'
  BY SMTT(30) DEF Whole, LogAsked, Rest, Part

LEMMA ContextKeeps ==
    ASSUME NEW f, NEW p, StreamInv(f, p), UNCHANGED context, Future' = f, Stream' = p
    PROVE  StreamInv(Future, Stream)'
<1>1. Held(Future, Stream)'
  BY HeldStays DEF context, StreamInv, Held
<1>2. Whole(Future, Stream)'
  BY WholeStays DEF context, StreamInv
<1> QED  BY <1>1, <1>2 DEF StreamInv, Held

\* A buffer with less than a message takes an indication.
LEMMA IndicationFits ==
    ASSUME Types, NEW n \in Indications, NEW size \in 1 .. Len(wire), size <= n,
           Aligned(buffer \o wire)
    PROVE  Len(buffer) + size <= MaxBuffer
<1>1. buffer \in Seq(AllUnits) /\ wire \in Seq(AllUnits) /\ ~Complete(buffer)
  BY DEF Types
<1>2. Len(buffer) \in Nat /\ Len(wire) \in Nat /\ Header \in Nat /\ n \in Nat /\ MaxBuffer \in Nat
  BY <1>1
<1>3. CASE Len(buffer) >= Header
  <2>1. SizeAtHead(buffer) = Size(buffer[1].of)
    BY <1>1, <1>3, AlignedIsDecodable
  <2>2. Len(buffer) < SizeAtHead(buffer)
    BY <1>1, <1>2, <1>3, <2>1, SizeOfMessage DEF Complete
  <2>3. Len(buffer) <= Header + 1
    BY <1>2, <2>1, <2>2, SizeOfMessage, SMTT(30)
  <2> QED  BY <1>2, <2>3, BufferAssumption
<1>4. CASE Len(buffer) < Header
  BY <1>2, <1>4, BufferAssumption
<1> QED  BY <1>2, <1>3, <1>4

LEMMA ArrivingUnits ==
    ASSUME NEW b \in Seq(AllUnits), NEW w \in Seq(AllUnits), NEW n \in 1 .. Len(w)
    PROVE  /\ b \o SubSeq(w, 1, n) \in Seq(AllUnits) /\ SubSeq(w, n + 1, Len(w)) \in Seq(AllUnits)
           /\ (b \o SubSeq(w, 1, n)) \o SubSeq(w, n + 1, Len(w)) = b \o w
           /\ Len(b \o SubSeq(w, 1, n)) = Len(b) + n
<1> DEFINE x == SubSeq(w, 1, n)
           u == SubSeq(w, n + 1, Len(w))
<1>1. /\ x \in Seq(AllUnits) /\ Len(x) = n /\ \A j \in 1 .. n : x[j] = w[j]
      /\ u \in Seq(AllUnits) /\ Len(u) = Len(w) - n /\ \A j \in 1 .. Len(w) - n : u[j] = w[j + n]
  BY CutUnits
<1>2. Len(w) \in Nat /\ n \in Nat /\ 1 <= n /\ n <= Len(w)
  OBVIOUS
<1> HIDE DEF x, u
<1>3. x \o u = w
  <2>1. x \o u \in Seq(AllUnits) /\ Len(x \o u) = Len(w)
    BY <1>1, <1>2, JoinedUnits, SMTT(30)
  <2>2. \A j \in 1 .. Len(w) : (x \o u)[j] = w[j]
    <3> TAKE j \in 1 .. Len(w)
    <3>1. CASE j <= n
      <4>1. j \in 1 .. n /\ j \in 1 .. Len(x)
        BY <1>1, <1>2, <3>1
      <4>2. (x \o u)[j] = x[j]
        BY <1>1, <4>1, JoinedUnits
      <4> QED  BY <1>1, <4>1, <4>2
    <3>2. CASE j > n
      <4> DEFINE k == j - n
      <4>1. k \in 1 .. Len(u) /\ k \in 1 .. Len(w) - n /\ j = Len(x) + k /\ j = k + n
        BY <1>1, <1>2, <3>2
      <4> HIDE DEF k
      <4>2. (x \o u)[Len(x) + k] = u[k]
        BY <1>1, <4>1, JoinedUnits, ZenonT(30)
      <4> QED  BY <1>1, <4>1, <4>2
    <3>3. j <= n \/ j > n
      BY <1>2
    <3> QED  BY <3>1, <3>2, <3>3
  <2> QED  BY <2>1, <2>2, SameUnits
<1>4. (b \o x) \o u = b \o w
  <2>1. (b \o x) \o u = b \o (x \o u)
    BY <1>1, JoiningUnits, ZenonT(30)
  <2> QED  BY <1>3, <2>1
<1>5. b \o x \in Seq(AllUnits) /\ Len(b \o x) = Len(b) + n
  BY <1>1, JoinedUnits
<1> QED  BY <1>1, <1>4, <1>5 DEF x, u

LEMMA RecordOfFuture ==
    ASSUME NEW f \in Futures
    PROVE  f = [answer |-> f.answer, aggregated |-> f.aggregated]
  BY DEF Futures

LEMMA LeftOver ==
    ASSUME NEW r \in Seq(AllUnits), NEW w \in Seq(AllUnits)
    PROVE  Left(<<>> \o w, r \o w, Len(r))
<1>1. <<>> \o w = w /\ Len(r) \in Nat /\ Len(w) \in Nat
  BY ConcatEmptySeq
<1>2. Len(r \o w) = Len(r) + Len(w) /\ \A j \in 1 .. Len(w) : (r \o w)[Len(r) + j] = w[j]
  BY JoinedUnits
<1>3. \A j \in 1 .. Len(w) : w[j] = (r \o w)[j + Len(r)]
  BY <1>1, <1>2
<1>4. Len(r) \in 0 .. Len(r \o w) /\ Len(w) = Len(r \o w) - Len(r)
  BY <1>1, <1>2
<1> QED  BY <1>1, <1>3, <1>4 DEF Left

LEMMA NotificationKeeps ==
    ASSUME IndInv, NEW n \in Indications, Notification(n)
    PROVE  IndInv'
<1> DEFINE size == IF n < Len(wire) THEN n ELSE Len(wire)
           filled == buffer \o SubSeq(wire, 1, size)
           w == SubSeq(wire, size + 1, Len(wire))
           fed == TakeMessages(filled)
           bad == \E i \in DOMAIN fed.raw : ~Decodable(fed.raw[i])
           handled == HandleAll(Future, fed.raw)
           dropped == Len(filled) > MaxBuffer \/ bad
<1>1. /\ link /\ wire # <<>> /\ wire' = w
      /\ buffer' = IF Len(filled) > MaxBuffer THEN <<>> ELSE fed.rest
      /\ dropped => garbled' = TRUE /\ FailPending
      /\ ~dropped => /\ answer' = handled.answer /\ aggregated' = handled.aggregated
                     /\ UNCHANGED garbled
      /\ UNCHANGED <<link, requests, budget, hole, opener, noise, reader, excused>>
  BY DEF Notification, Future
<1>2. /\ Types /\ Nonces /\ Results /\ StreamInv(Future, Stream) /\ Readable(Stream)
      /\ buffer \in Seq(AllUnits) /\ wire \in Seq(AllUnits) /\ Future \in Futures
      /\ Len(buffer) <= MaxBuffer /\ hole \in BOOLEAN
  BY DEF IndInv, Types
<1>3. size \in 1 .. Len(wire) /\ size <= n
  <2>1. n \in Nat /\ n >= 1 /\ Len(wire) \in Nat /\ Len(wire) >= 1
    BY <1>1, <1>2
  <2> QED  BY <2>1
<1> HIDE DEF size
<1>4. /\ filled \in Seq(AllUnits) /\ w \in Seq(AllUnits) /\ filled \o w = Stream
      /\ Len(filled) = Len(buffer) + size
  BY <1>1, <1>2, <1>3, ArrivingUnits DEF Stream
<1> HIDE DEF w, filled
<1>5. FedInv(fed, Len(filled), filled, w, Future) /\ ~Complete(fed.rest)
  BY <1>2, <1>4, FeedKeeps
<1> HIDE DEF fed
<1>6. PICK q : q = Stream' /\ q = buffer' \o w
  BY <1>1 DEF Stream
<1>7. PICK g : g = Future' /\ g = [answer |-> answer', aggregated |-> aggregated']
  BY DEF Future
<1>8. UNCHANGED context /\ UNCHANGED <<link, requests, budget, hole, log, owed, noise, attempt>>
  BY <1>1 DEF context, opener, reader
<1>9. ASSUME buffer' \in Seq(AllUnits), Len(buffer') <= MaxBuffer, ~Complete(buffer'), g \in Futures
      PROVE  Types'
  <2>1. Complete(buffer)' <=> Complete(buffer')
    BY <1>8 DEF Complete, SizeAtHead
  <2>2. garbled' \in BOOLEAN
    BY <1>1, <1>2 DEF Types
  <2>3. Future' \in Futures /\ wire' \in Seq(AllUnits) /\ link'
    BY <1>1, <1>4, <1>7, <1>9
  <2>4. /\ link' = link /\ hole' = hole /\ owed' = owed /\ noise' = noise /\ requests' = requests
        /\ budget' = budget /\ log' = log /\ nonce' = nonce /\ challenges' = challenges
        /\ served' = served /\ read' = read /\ step' = step /\ at' = at /\ attempt' = attempt
        /\ challenge' = challenge /\ result' = result
    BY <1>1, <1>8 DEF context
  <2> QED  BY <1>2, <1>9, <2>1, <2>2, <2>3, <2>4 DEF Types
<1>10. Nonces'
  BY <1>2, <1>8 DEF Nonces, context
<1>11. Results'
  BY <1>2, <1>8 DEF Results, context
<1>12. CASE ~dropped
  <2>1. /\ fed.rest \in Seq(AllUnits) /\ Len(fed.rest) <= Len(filled) /\ ~Complete(fed.rest)
        /\ handled \in Futures /\ StreamInv(handled, fed.rest \o w)
        /\ Aligned(filled \o w) => Aligned(fed.rest \o w)
    BY <1>5, <1>12 DEF FedInv
  <2>2. buffer' = fed.rest /\ Len(buffer') <= MaxBuffer
    <3>1. Len(filled) \in Nat /\ MaxBuffer \in Nat /\ Len(fed.rest) \in Nat
      BY <1>4, <2>1
    <3> QED  BY <1>1, <1>12, <2>1, <3>1
  <2>3. g = handled
    BY <1>1, <1>7, <1>12, <2>1, RecordOfFuture
  <2>4. Types'
    BY <1>9, <2>1, <2>2, <2>3
  <2>5. StreamInv(Future, Stream)'
    BY <1>6, <1>7, <1>8, <2>1, <2>2, <2>3, ContextKeeps
  <2>6. Readable(Stream)'
    BY <1>1, <1>2, <1>4, <1>6, <1>8, <1>12, <2>1, <2>2 DEF Readable
  <2> QED  BY <1>10, <1>11, <2>4, <2>5, <2>6 DEF IndInv
<1>13. CASE dropped
  <2>1. hole
    <3>1. SUFFICES ASSUME ~hole PROVE FALSE
      BY <1>2
    <3>2. Aligned(filled \o w) /\ Aligned(buffer \o wire)
      BY <1>1, <1>2, <1>4, <3>1 DEF Readable, Stream
    <3>3. ~bad
      BY <1>5, <3>2 DEF FedInv
    <3>4. Len(filled) <= MaxBuffer
      BY <1>2, <1>3, <1>4, <3>2, IndicationFits
    <3>5. Len(filled) \in Nat /\ MaxBuffer \in Nat
      BY <1>4
    <3> QED  BY <1>13, <3>3, <3>4, <3>5
  <2>2. /\ buffer' \in Seq(AllUnits) /\ Len(buffer') <= MaxBuffer /\ ~Complete(buffer')
        /\ \E k : Left(buffer' \o w, filled \o w, k)
    <3>1. CASE Len(filled) > MaxBuffer
      <4>1. buffer' = <<>>
        BY <1>1, <3>1
      <4>2. <<>> \in Seq(AllUnits) /\ Len(<<>>) <= MaxBuffer /\ ~Complete(<<>>)
        BY DEF Complete
      <4>3. Left(<<>> \o w, filled \o w, Len(filled))
        BY <1>4, LeftOver
      <4> QED  BY <4>1, <4>2, <4>3
    <3>2. CASE ~(Len(filled) > MaxBuffer)
      <4>1. /\ fed.rest \in Seq(AllUnits) /\ Len(fed.rest) <= Len(filled) /\ ~Complete(fed.rest)
            /\ \E k : Left(fed.rest \o w, filled \o w, k)
        BY <1>5 DEF FedInv
      <4>2. Len(filled) \in Nat /\ MaxBuffer \in Nat /\ Len(fed.rest) \in Nat
        BY <1>4, <4>1
      <4> QED  BY <1>1, <3>2, <4>1, <4>2
    <3> QED  BY <3>1, <3>2
  <2>3. /\ aggregated' = aggregated
        /\ \/ answer' = answer /\ (~Pending \/ answer.is # "none")
           \/ answer' = [is |-> "error", by |-> 0, nonce |-> 0]
    BY <1>1, <1>13 DEF FailPending, NoAnswer
  <2>4. g \in Futures
    <3>1. 0 \in 0 .. MaxReads /\ 0 \in Nat
      OBVIOUS
    <3> QED  BY <1>2, <1>7, <2>3, <3>1 DEF Future, Futures
  <2>5. Types'
    BY <1>9, <2>2, <2>4
  <2>6. Held(Future, filled \o w) /\ Whole(Future, filled \o w)
    BY <1>2, <1>4 DEF StreamInv, Held
  <2>7. Held(Future, q)
    <3>1. q \in Seq(AllUnits) /\ filled \o w \in Seq(AllUnits)
      BY <1>4, <1>6, <2>2, JoinedUnits
    <3> QED  BY <1>6, <2>2, <2>6, <3>1, LeftIsThin, ThinKeeps
  <2>8. Held(g, q)
    <3>1. CASE answer' = answer
      <4>1. g = Future
        BY <1>7, <2>3, <3>1 DEF Future
      <4> QED  BY <2>7, <4>1
    <3>2. CASE answer' = [is |-> "error", by |-> 0, nonce |-> 0]
      <4>1. g.aggregated = Future.aggregated /\ g.answer.is # "ok"
        BY <1>7, <2>3, <3>2 DEF Future
      <4> QED  BY <2>7, <4>1, EndKeepsHeld
    <3> QED  BY <2>3, <3>1, <3>2
  <2>9. Whole(g, q)
    <3>1. LogAsked => Pending
      BY DEF LogAsked, Pending
    <3>2. LogAsked => g.answer.is # "none"
      BY <1>7, <2>3, <3>1
    <3>3. g.answer.is = "ok" => g = Future
      BY <1>7, <2>3 DEF Future
    <3> QED  BY <2>6, <3>2, <3>3 DEF Whole
  <2>10. StreamInv(Future, Stream)'
    <3>1. StreamInv(g, q)
      BY <2>8, <2>9 DEF StreamInv, Held
    <3> QED  BY <1>6, <1>7, <1>8, <3>1, ContextKeeps
  <2>11. Readable(Stream)'
    BY <1>8, <2>1 DEF Readable
  <2> QED  BY <1>10, <1>11, <2>5, <2>10, <2>11 DEF IndInv
<1> QED  BY <1>12, <1>13

\* An indication is lost in the middle of the stream.
LEMMA GapThins ==
    ASSUME NEW p, NEW q, NEW b \in Nat, NEW w \in Nat, NEW n \in Nat, 1 <= n, n <= w,
           DOMAIN q = 1 .. b + (w - n), DOMAIN p = 1 .. b + w,
           \A i \in 1 .. b : q[i] = p[i],
           \A i \in 1 .. w - n : q[b + i] = p[b + (i + n)]
    PROVE  /\ Thin(q, p)
           /\ (\A i \in 1 .. n : ~IsAnswer(p[b + i])) => Kept(q, p)
<1> DEFINE e == [i \in DOMAIN q |-> IF i <= b THEN i ELSE i + n]
<1>1. e \in [DOMAIN q -> DOMAIN p]
  OBVIOUS
<1>2. \A i \in DOMAIN q : \A j \in DOMAIN q : i < j => e[i] < e[j]
  OBVIOUS
<1>3. ASSUME NEW i \in DOMAIN q
      PROVE  q[i] = p[e[i]]
  <2>1. CASE i <= b
    BY <2>1
  <2>2. CASE i > b
    <3>1. e[i] = i + n /\ i \in Nat /\ i <= b + (w - n)
      BY <2>2
    <3> DEFINE k == i - b
    <3>2. k \in 1 .. w - n /\ b + k = i /\ b + (k + n) = i + n
      BY <2>2, <3>1, SMTT(30)
    <3> HIDE DEF k, e
    <3>3. q[b + k] = p[b + (k + n)]
      BY <3>2
    <3> QED  BY <3>1, <3>2, <3>3, Zenon
  <2>3. i \in Nat
    OBVIOUS
  <2> QED  BY <2>1, <2>2, <2>3
<1>4. ASSUME \A i \in 1 .. n : ~IsAnswer(p[b + i]), NEW i \in DOMAIN p, IsAnswer(p[i])
      PROVE  \E j \in DOMAIN q : e[j] = i
  <2>1. CASE i <= b
    BY <2>1
  <2>2. CASE i > b
    <3>1. i - b \in Nat /\ i - b >= 1 /\ b + (i - b) = i
      BY <2>2, SMTT(30)
    <3>2. ~(i - b \in 1 .. n)
      BY <1>4, <3>1
    <3>3. i \in Nat /\ i <= b + w /\ i - b > n
      BY <3>1, <3>2, SMTT(30)
    <3> DEFINE j == i - n
    <3>4. j \in 1 .. b + (w - n) /\ j > b /\ j + n = i
      BY <3>3, SMTT(30)
    <3> HIDE DEF j
    <3>5. e[j] = i
      BY <3>4
    <3> QED  BY <3>4, <3>5
  <2> QED  BY <2>1, <2>2
<1> HIDE DEF e
<1>5. Thin(q, p)
  BY <1>1, <1>2, <1>3, Zenon DEF Thin
<1>6. (\A i \in 1 .. n : ~IsAnswer(p[b + i])) => Kept(q, p)
  BY <1>1, <1>2, <1>3, <1>4, Zenon DEF Kept
<1> QED  BY <1>5, <1>6

LEMMA LossThins ==
    ASSUME NEW b \in Seq(AllUnits), NEW w \in Seq(AllUnits), NEW n \in 1 .. Len(w)
    PROVE  LET q == b \o SubSeq(w, n + 1, Len(w))
               p == b \o w
           IN  /\ q \in Seq(AllUnits) /\ p \in Seq(AllUnits) /\ Thin(q, p)
               /\ (\A i \in 1 .. n : ~IsAnswer(w[i])) => Kept(q, p)
<1> DEFINE u == SubSeq(w, n + 1, Len(w))
           q == b \o u
           p == b \o w
<1>1. u \in Seq(AllUnits) /\ Len(u) = Len(w) - n /\ \A j \in 1 .. Len(w) - n : u[j] = w[j + n]
  BY CutUnits
<1>2. Len(w) \in Nat /\ n \in Nat /\ 1 <= n /\ n <= Len(w) /\ Len(b) \in Nat
  OBVIOUS
<1> HIDE DEF u
<1>3. /\ q \in Seq(AllUnits) /\ Len(q) = Len(b) + Len(u)
      /\ \A j \in 1 .. Len(b) : q[j] = b[j]
      /\ \A j \in 1 .. Len(u) : q[Len(b) + j] = u[j]
  BY <1>1, JoinedUnits
<1>4. /\ p \in Seq(AllUnits) /\ Len(p) = Len(b) + Len(w)
      /\ \A j \in 1 .. Len(b) : p[j] = b[j]
      /\ \A j \in 1 .. Len(w) : p[Len(b) + j] = w[j]
  BY JoinedUnits
<1> HIDE DEF q, p
<1>5. DOMAIN q = 1 .. Len(b) + (Len(w) - n) /\ DOMAIN p = 1 .. Len(b) + Len(w)
  <2>1. DOMAIN q = 1 .. Len(q) /\ DOMAIN p = 1 .. Len(p)
    BY <1>3, <1>4
  <2> QED  BY <1>1, <1>3, <1>4, <2>1, Zenon
<1>6. \A i \in 1 .. Len(b) : q[i] = p[i]
  BY <1>3, <1>4
<1>7. ASSUME NEW i \in 1 .. Len(w) - n
      PROVE  q[Len(b) + i] = p[Len(b) + (i + n)]
  <2>1. i + n \in 1 .. Len(w) /\ i \in 1 .. Len(u)
    BY <1>1, <1>2
  <2> QED  BY <1>1, <1>3, <1>4, <2>1
<1>8. Thin(q, p) /\ ((\A i \in 1 .. n : ~IsAnswer(p[Len(b) + i])) => Kept(q, p))
  BY <1>2, <1>5, <1>6, <1>7, GapThins
<1>9. \A i \in 1 .. n : p[Len(b) + i] = w[i]
  BY <1>2, <1>4, SMTT(30)
<1> QED  BY <1>3, <1>4, <1>8, <1>9 DEF q, p, u

LEMMA LoseKeeps ==
    ASSUME IndInv, NEW n \in Indications, Lose(n)
    PROVE  IndInv'
<1> DEFINE w == SubSeq(wire, n + 1, Len(wire))
<1>1. /\ link /\ n <= Len(wire) /\ wire' = w /\ hole' = TRUE /\ budget.losses > 0
      /\ budget' = [budget EXCEPT !.losses = @ - 1]
      /\ excused' = excused \cup {wire[i].of.read : i \in 1 .. n}
      /\ UNCHANGED <<link, requests, opener, stream, future, reader>>
  BY DEF Lose
<1>2. /\ Types /\ Nonces /\ Results /\ Held(Future, Stream) /\ Whole(Future, Stream)
      /\ buffer \in Seq(AllUnits) /\ wire \in Seq(AllUnits)
  BY DEF IndInv, Types, StreamInv, Held
<1>3. n \in 1 .. Len(wire)
  <2>1. n \in Nat /\ n >= 1 /\ Len(wire) \in Nat
    BY <1>2
  <2> QED  BY <1>1, <2>1
<1>4. w \in Seq(AllUnits)
  BY <1>2, <1>3, CutUnits
<1> DEFINE p == buffer \o wire
           q == buffer \o w
<1>5. /\ q \in Seq(AllUnits) /\ p \in Seq(AllUnits) /\ Thin(q, p)
      /\ (\A i \in 1 .. n : ~IsAnswer(wire[i])) => Kept(q, p)
  BY <1>2, <1>3, LossThins
<1>6. Stream = p /\ Stream' = q
  BY <1>1 DEF Stream, stream
<1>7. Future' = Future
  BY <1>1 DEF Future, future
<1>8. \A i \in 1 .. n : i \in 1 .. Len(wire) /\ Len(buffer) + i \in DOMAIN p
                        /\ p[Len(buffer) + i] = wire[i]
  <2>1. Len(p) = Len(buffer) + Len(wire) /\ DOMAIN p = 1 .. Len(p)
        /\ \A j \in 1 .. Len(wire) : p[Len(buffer) + j] = wire[j]
    BY <1>2, <1>5, JoinedUnits
  <2>2. Len(buffer) \in Nat /\ Len(wire) \in Nat /\ n \in Nat /\ n <= Len(wire)
    BY <1>2, <1>3
  <2> HIDE DEF p
  <2> TAKE i \in 1 .. n
  <2>3. i \in 1 .. Len(wire)
    BY <2>2
  <2> QED  BY <2>1, <2>2, <2>3, SMTT(30)
<1>9. PICK x : x = Stream'
  OBVIOUS
<1>10. PICK f : f = Future
  OBVIOUS
<1> HIDE DEF w, p, q
<1>11. UNCHANGED <<requests, nonce, challenges, served, read, step, at, challenge, result>>
       /\ UNCHANGED <<link, buffer, log, owed, noise, garbled, attempt>>
  BY <1>1 DEF opener, stream, reader
<1>12. Held(Future, Stream)'
  <2>1. Held(f, x)
    BY <1>2, <1>5, <1>6, <1>9, <1>10, ThinKeeps
  <2> QED  BY <1>7, <1>9, <1>10, <1>11, <2>1, HeldStays
<1>13. Whole(Future, Stream)'
  <2> SUFFICES ASSUME LogAsked, read \notin excused'
               PROVE  /\ (f.answer.is = "none"
                            /\ \E i \in DOMAIN x : Is(x[i], "STATUS") /\ x[i].of.read = read)
                          => Rest(f, x)
                      /\ f.answer.is = "ok" /\ f.answer.by = read => f.aggregated = served[read]
    BY <1>7, <1>9, <1>10, <1>11 DEF Whole, LogAsked, Rest, Part
  <2>1. read \notin excused /\ \A i \in 1 .. n : wire[i].of.read # read
    BY <1>1
  <2>2. step = "log" /\ read # 0
    BY <1>2 DEF LogAsked, Types
  <2>3. \A i \in DOMAIN p : IsAnswer(p[i]) => p[i].of.read = read
    BY <1>2, <1>6, <2>2 DEF Held, Own
  <2>4. \A i \in 1 .. n : ~IsAnswer(wire[i])
    BY <1>8, <2>1, <2>3
  <2>5. Kept(q, p)
    BY <1>5, <2>4
  <2>6. Rest(f, p) => Rest(f, q)
    BY <1>5, <2>2, <2>5, KeptKeepsRest
  <2>7. (\E i \in DOMAIN q : Is(q[i], "STATUS") /\ q[i].of.read = read)
          => \E i \in DOMAIN p : Is(p[i], "STATUS") /\ p[i].of.read = read
    BY <1>5 DEF Thin
  <2>8. q = x
    BY <1>6, <1>9
  <2> QED  BY <1>2, <1>6, <1>10, <2>1, <2>6, <2>7, <2>8 DEF Whole
<1>14. Types'
  <2>1. budget' \in [losses : Nat, drops : Nat]
    <3>1. budget \in [losses : Nat, drops : Nat]
      BY <1>2 DEF Types
    <3>2. budget.losses - 1 \in Nat
      BY <1>1, <3>1
    <3> QED  BY <1>1, <3>1, <3>2
  <2>2. ~Complete(buffer)'
    BY <1>2, <1>11 DEF Complete, SizeAtHead, Types
  <2>3. /\ wire' \in Seq(AllUnits) /\ hole' \in BOOLEAN /\ link' /\ Future' \in Futures
    BY <1>1, <1>2, <1>4, <1>7 DEF Types
  <2> QED  BY <1>2, <1>11, <2>1, <2>2, <2>3 DEF Types
<1>15. Nonces'
  BY <1>2, <1>11 DEF Nonces
<1>16. Results'
  BY <1>1, <1>2, <1>11 DEF Results
<1>17. Readable(Stream)'
  BY <1>1 DEF Readable
<1> QED  BY <1>12, <1>13, <1>14, <1>15, <1>16, <1>17 DEF IndInv, StreamInv, Held

-----------------------------------------------------------------------------
(* Steps of the client.                                                    *)

LEMMA ThinEnds ==
    ASSUME NEW p \in Seq(AllUnits)
    PROVE  Thin(p, p) /\ Thin(<<>>, p)
<1>1. Left(p, p, 0)
  BY DEF Left
<1>2. <<>> \in Seq(AllUnits) /\ Left(<<>>, p, Len(p))
  BY DEF Left
<1> QED  BY <1>1, <1>2, LeftIsThin

\* The stream is what it was, or nothing, and no command is pending.
LEMMA NotAskedKeeps ==
    ASSUME NEW f, NEW p, NEW x, Held(f, p), Thin(x, p), Stream' = x,
           UNCHANGED <<nonce, challenges, served>>, requests' \in {requests, <<>>},
           at' = "issue",
           \A i \in DOMAIN x : /\ x[i].of.read <= read'
                               /\ Is(x[i], "CHALLENGE") => x[i].of.n > challenge',
           step' = "log" => Clear(x)' /\ read' \in Reads /\ result'[read'] = Unread,
           \A r \in Reads : (result'[r].entries # <<>> \/ (result'[r].ok /\ result'[r].by = r))
                               => Answered(r, f, p)
    PROVE  StreamInv(Future, Stream)'
<1>1. Held(f, x)
  BY ThinKeeps
<1>2. PICK g : g = Future'
  OBVIOUS
<1>3. \A i \in DOMAIN requests' : i \in DOMAIN requests /\ requests'[i] = requests[i]
  BY DEF Held
<1>4. Sound(x)' /\ InSequence(x)'
  BY <1>1 DEF Held, Sound, InSequence
<1>5. Fresh(g, x)'
  BY <1>1, <1>3 DEF Held, Fresh
<1>6. Own(g, x)'
  BY DEF Own, Clear, LogAsked
<1>7. Collected(g, x)' /\ Whole(g, x)'
  BY DEF Collected, Whole, LogAsked
<1>8. AnsweredOnce(g, x)'
  <2> SUFFICES ASSUME NEW r \in Reads, Answered(r, g, x)'
               PROVE  /\ \A i \in DOMAIN requests' : requests'[i].read = r => ~Alive(requests[i])'
                      /\ r = read' /\ step' = "log" => challenge' # nonce'
    BY DEF AnsweredOnce
  <2>1. \/ \E i \in DOMAIN x : IsAnswer(x[i]) /\ x[i].of.read = r
        \/ result'[r].entries # <<>> \/ (result'[r].ok /\ result'[r].by = r)
    BY DEF Answered, LogAsked
  <2>2. Answered(r, f, x) \/ Answered(r, f, p)
    BY <2>1 DEF Answered
  <2>3. \A i \in DOMAIN requests : requests[i].read = r => ~Alive(requests[i])
    BY <1>1, <2>2 DEF Held, AnsweredOnce
  <2>4. \A i \in DOMAIN requests' : requests'[i].read = r => ~Alive(requests[i])'
    BY <1>3, <2>3 DEF Alive
  <2>5. ~(r = read' /\ step' = "log")
    BY <2>1 DEF Clear, Unread
  <2> QED  BY <2>4, <2>5
<1> QED  BY <1>2, <1>4, <1>5, <1>6, <1>7, <1>8 DEF StreamInv

LEMMA StaysIncomplete ==
    ASSUME ~Complete(buffer), UNCHANGED <<buffer, noise>>
    PROVE  (~Complete(buffer))'
  BY DEF Complete, SizeAtHead

LEMMA ReadHasBegun == ASSUME Types, step # "idle" PROVE read \in Reads
<1>1. read \in 0 .. MaxReads /\ read # 0
  BY DEF Types
<1> QED  BY <1>1 DEF Reads

\* A read that ends, in any way.
LEMMA EndKeeps ==
    ASSUME IndInv, step # "idle", NEW how, End(how),
           UNCHANGED <<radio, opener, stream, future, read, challenge, excused>>,
           how \in [ended : BOOLEAN, ok : BOOLEAN, by : 0 .. MaxReads, entries : Seq(Nat)],
           Elements(how.entries) \subseteq Elements(served[read]), Descending(how.entries),
           how.ok => how.by \in {0, read},
           (how.ok /\ how.by = read /\ read \notin excused) => how.entries = served[read],
           (how.entries # <<>> \/ (how.ok /\ how.by = read)) => Answered(read, Future, Stream)
    PROVE  IndInv'
<1>1. /\ Types /\ Nonces /\ Results /\ StreamInv(Future, Stream) /\ Readable(Stream)
      /\ read \in Reads /\ attempt \in 1 .. Attempts
  BY ReadHasBegun DEF IndInv, Types
<1>2. /\ step' = "idle" /\ at' = "issue" /\ attempt' = 1
      /\ result' = [result EXCEPT ![read] = how]
  BY DEF End, GoTo
<1>3. /\ UNCHANGED <<link, wire, requests, budget, hole, log, nonce, challenges, owed, served>>
      /\ UNCHANGED <<buffer, noise, garbled, answer, aggregated, read, challenge, excused>>
  BY DEF radio, opener, stream, future
<1>4. Stream' = Stream /\ Future' = Future
  BY <1>3 DEF Stream, Future
<1>5. \A r \in Reads : result'[r] = IF r = read THEN how ELSE result[r]
  BY <1>1, <1>2 DEF Types
<1>6. Types'
  <2>1. result' \in [Reads -> [ended : BOOLEAN, ok : BOOLEAN, by : 0 .. MaxReads,
                               entries : Seq(Nat)]]
    BY <1>1, <1>2 DEF Types
  <2>2. 1 \in 1 .. Attempts
    BY SizesAssumption
  <2>3. (~Complete(buffer))'
    BY <1>1, <1>3, StaysIncomplete DEF Types
  <2> QED  BY <1>1, <1>2, <1>3, <1>4, <2>1, <2>2, <2>3 DEF Types
<1>7. Nonces'
  BY <1>1, <1>2, <1>3 DEF Nonces
<1>8. Results'
  <2> SUFFICES ASSUME NEW r \in Reads
               PROVE  /\ Descending(served[r])
                      /\ r > read => result'[r] = Unread
                      /\ Elements(result'[r].entries) \subseteq Elements(served[r])
                      /\ Descending(result'[r].entries)
                      /\ result'[r].ok => result'[r].by \in {0, r}
                      /\ (result'[r].ok /\ result'[r].by = r /\ r \notin excused)
                           => result'[r].entries = served[r]
    BY <1>2, <1>3 DEF Results
  <2>1. CASE r = read
    <3>1. Descending(served[r]) /\ ~(r > read)
      BY <1>1, <2>1 DEF Results, Reads
    <3>2. result'[r] = how
      BY <1>5, <2>1
    <3> QED  BY <2>1, <3>1, <3>2
  <2>2. CASE r # read
    BY <1>1, <1>5, <2>2 DEF Results
  <2> QED  BY <2>1, <2>2
<1>9. StreamInv(Future, Stream)'
  <2>1. PICK p : p = Stream
    OBVIOUS
  <2>2. PICK f : f = Future
    OBVIOUS
  <2>3. Held(f, p)
    BY <1>1, <2>1, <2>2 DEF StreamInv, Held
  <2>4. p \in Seq(AllUnits)
    <3>1. buffer \o wire \in Seq(AllUnits) /\ <<>> \in Seq(AllUnits)
      BY <1>1, JoinedUnits DEF Types
    <3> QED  BY <2>1, <3>1 DEF Stream
  <2>5. Thin(p, p)
    BY <2>4, ThinEnds
  <2>6. ASSUME NEW r \in Reads,
               result'[r].entries # <<>> \/ (result'[r].ok /\ result'[r].by = r)
        PROVE  Answered(r, f, p)
    <3>1. CASE r = read
      BY <1>5, <2>1, <2>2, <2>6, <3>1
    <3>2. CASE r # read
      BY <1>5, <2>6, <3>2 DEF Answered
    <3> QED  BY <3>1, <3>2
  <2>7. \A i \in DOMAIN p : /\ p[i].of.read <= read'
                            /\ Is(p[i], "CHALLENGE") => p[i].of.n > challenge'
    BY <1>3, <2>3 DEF Held, Sound, Fresh
  <2>8. Stream' = p
    BY <1>4, <2>1
  <2> QED  BY <1>2, <1>3, <2>3, <2>5, <2>6, <2>7, <2>8, NotAskedKeeps
<1>10. Readable(Stream)'
  <2>1. PICK p : p = Stream
    OBVIOUS
  <2> QED  BY <1>1, <1>3, <1>4, <2>1 DEF Readable
<1> QED  BY <1>6, <1>7, <1>8, <1>9, <1>10 DEF IndInv

\* The stream as a constant, and the parts of the invariant it is in.
LEMMA StreamOf ==
    ASSUME IndInv
    PROVE  /\ Stream \in Seq(AllUnits) /\ Held(Future, Stream) /\ Whole(Future, Stream)
           /\ Thin(Stream, Stream) /\ Thin(<<>>, Stream)
<1>1. buffer \o wire \in Seq(AllUnits) /\ <<>> \in Seq(AllUnits)
  BY JoinedUnits DEF IndInv, Types
<1>2. Stream \in Seq(AllUnits)
  BY <1>1 DEF Stream
<1>3. Held(Future, Stream) /\ Whole(Future, Stream)
  BY DEF IndInv, StreamInv, Held
<1> QED  BY <1>2, <1>3, ThinEnds

LEMMA RecordOfRaised ==
    /\ Raised \in [ended : BOOLEAN, ok : BOOLEAN, by : 0 .. MaxReads, entries : Seq(Nat)]
    /\ ~Raised.ok /\ Raised.entries = <<>>
<1>1. Unread \in [ended : BOOLEAN, ok : BOOLEAN, by : 0 .. MaxReads, entries : Seq(Nat)]
  <2>1. <<>> \in Seq(Nat) /\ 0 \in 0 .. MaxReads
    OBVIOUS
  <2> QED  BY <2>1 DEF Unread
<1>2. ~Unread.ok /\ Unread.entries = <<>>
  BY DEF Unread
<1> QED  BY <1>1, <1>2 DEF Raised

LEMMA RaisedKeeps ==
    ASSUME IndInv, step # "idle", End(Raised),
           UNCHANGED <<radio, opener, stream, future, read, challenge, excused>>
    PROVE  IndInv'
<1>1. /\ Raised \in [ended : BOOLEAN, ok : BOOLEAN, by : 0 .. MaxReads, entries : Seq(Nat)]
      /\ ~Raised.ok /\ Raised.entries = <<>>
  BY RecordOfRaised
<1>3. Elements(<<>>) = {} /\ Descending(<<>>)
  BY DEF Elements, Descending
<1> QED  BY <1>1, <1>3, EndKeeps

LEMMA ReturnKeeps == ASSUME IndInv, Return PROVE IndInv'
<1> DEFINE how == [ended |-> TRUE, ok |-> TRUE, by |-> answer.by, entries |-> aggregated]
<1>1. /\ step = "log" /\ at = "wait" /\ answer.is = "ok" /\ End(how)
      /\ UNCHANGED <<radio, opener, stream, future, read, challenge, excused>>
  BY DEF Return
<1>2. Future.answer = answer /\ Future.aggregated = aggregated
  BY DEF Future
<1>3. LogAsked
  BY <1>1 DEF LogAsked
<1>4. answer.by \in 0 .. MaxReads /\ aggregated \in Seq(Nat)
  <2>1. Future \in Futures
    BY DEF IndInv, Types
  <2> QED  BY <1>2, <2>1 DEF Futures
<1>5. Held(Future, Stream) /\ Whole(Future, Stream)
  BY StreamOf
<1>6. Elements(aggregated) \subseteq Elements(served[read]) /\ Descending(aggregated)
  BY <1>2, <1>3, <1>5 DEF Held, Collected
<1>7. answer.by \in {0, read}
  BY <1>1, <1>2, <1>3, <1>5 DEF Held, Own
<1>8. answer.by = read /\ read \notin excused => aggregated = served[read]
  BY <1>1, <1>2, <1>3, <1>5 DEF Whole
<1>9. aggregated # <<>> \/ answer.by = read => Answered(read, Future, Stream)
  BY <1>1, <1>2, <1>3 DEF Answered
<1> QED  BY <1>1, <1>4, <1>6, <1>7, <1>8, <1>9, EndKeeps

\* The link is gone, and the command, if any, begins its next attempt.
LEMMA RetryKeeps ==
    ASSUME IndInv, LinkDown, at' = "issue", attempt' \in 1 .. Attempts,
           budget' \in [losses : Nat, drops : Nat],
           UNCHANGED <<hole, log, nonce, challenges, served, stream, future, read, step,
                       challenge, result, excused>>
    PROVE  IndInv'
<1>1. /\ Types /\ Nonces /\ Results /\ Readable(Stream)
      /\ Held(Future, Stream) /\ Thin(<<>>, Stream)
  BY StreamOf DEF IndInv
<1>2. link' = FALSE /\ wire' = <<>> /\ requests' = <<>> /\ owed' = FALSE
  BY DEF LinkDown
<1>3. UNCHANGED <<buffer, noise, garbled, answer, aggregated>>
  BY DEF stream, future
<1>4. Stream' = <<>> /\ Future' = Future
  BY <1>2, <1>3 DEF Stream, Future
<1>5. /\ <<>> \in Seq(AllUnits)
      /\ <<>> \in Seq([kind : {"challenge", "log"}, read : Reads, nonce : Nat])
      /\ DOMAIN <<>> = {}
  OBVIOUS
<1>6. Types'
  <2>1. (~Complete(buffer))'
    BY <1>1, <1>3, StaysIncomplete DEF Types
  <2> QED  BY <1>1, <1>2, <1>3, <1>4, <1>5, <2>1 DEF Types
<1>7. Nonces'
  BY <1>1, <1>2, <1>5 DEF Nonces
<1>8. Results'
  BY <1>1 DEF Results
<1>9. StreamInv(Future, Stream)'
  <2>1. PICK p : p = Stream
    OBVIOUS
  <2>2. PICK f : f = Future
    OBVIOUS
  <2>3. Clear(<<>>)'
    BY <1>2, <1>5 DEF Clear
  <2>4. step' = "log" => read' \in Reads /\ result'[read'] = Unread
    <3>1. step = "log" => read \in Reads
      BY <1>1, ReadHasBegun
    <3> QED  BY <1>1, <3>1 DEF Results
  <2>5. \A r \in Reads : (result'[r].entries # <<>> \/ (result'[r].ok /\ result'[r].by = r))
                            => Answered(r, f, p)
    BY DEF Answered
  <2> QED  BY <1>1, <1>2, <1>4, <1>5, <2>1, <2>2, <2>3, <2>4, <2>5, NotAskedKeeps
<1>10. Readable(Stream)'
  BY <1>1, <1>3, <1>4 DEF Readable, Aligned
<1> QED  BY <1>6, <1>7, <1>8, <1>9, <1>10 DEF IndInv

LEMMA AttemptFailsKeeps ==
    ASSUME IndInv, step # "idle", AttemptFails, Unchanged
    PROVE  IndInv'
<1>1. UNCHANGED <<log, nonce, challenges, served, stream, future, read, challenge, excused>>
  BY DEF Unchanged
<1>2. CASE attempt < Attempts
  <2>1. /\ attempt' = attempt + 1 /\ at' = "issue" /\ LinkDown
        /\ UNCHANGED <<budget, hole, step, result>>
    BY <1>2 DEF AttemptFails
  <2>2. attempt \in 1 .. Attempts /\ budget \in [losses : Nat, drops : Nat]
    BY DEF IndInv, Types
  <2>3. attempt + 1 \in 1 .. Attempts
    BY <1>2, <2>2
  <2> QED  BY <1>1, <2>1, <2>2, <2>3, RetryKeeps
<1>3. CASE ~(attempt < Attempts)
  <2>1. End(Raised) /\ UNCHANGED <<radio, owed>>
    BY <1>3 DEF AttemptFails
  <2> QED  BY <1>1, <2>1, RaisedKeeps DEF opener
<1> QED  BY <1>2, <1>3

LEMMA IdleDisconnectKeeps == ASSUME IndInv, IdleDisconnect PROVE IndInv'
<1>1. /\ step = "idle" /\ LinkDown
      /\ UNCHANGED <<budget, hole, log, nonce, challenges, served, stream, future, reader, excused>>
  BY DEF IdleDisconnect
<1>2. at = "issue" /\ attempt \in 1 .. Attempts /\ budget \in [losses : Nat, drops : Nat]
  BY <1>1 DEF IndInv, Types
<1> QED  BY <1>1, <1>2, RetryKeeps DEF reader

LEMMA LinkDropsKeeps == ASSUME IndInv, LinkDrops PROVE IndInv'
<1>1. /\ Types /\ Nonces /\ Results /\ Readable(Stream)
      /\ Held(Future, Stream) /\ Whole(Future, Stream) /\ Thin(<<>>, Stream)
  BY StreamOf DEF IndInv
<1>2. /\ link' = FALSE /\ wire' = <<>> /\ requests' = <<>> /\ owed' = FALSE
      /\ budget.drops > 0 /\ budget' = [budget EXCEPT !.drops = @ - 1]
  BY DEF LinkDrops, LinkDown
<1>3. /\ UNCHANGED <<hole, log, nonce, challenges, served, buffer, noise, garbled, aggregated>>
      /\ UNCHANGED <<read, step, at, attempt, challenge, result, excused>>
  BY DEF LinkDrops, stream, reader
<1>4. \/ answer' = answer /\ (~Pending \/ answer.is # "none")
      \/ answer' = [is |-> "lost", by |-> 0, nonce |-> 0]
  BY DEF LinkDrops, NoAnswer
<1>5. Stream' = <<>>
  BY <1>2 DEF Stream
<1>6. PICK f, g, p : f = Future /\ g = Future' /\ p = Stream
  OBVIOUS
<1>7. g.aggregated = f.aggregated /\ (g = f \/ g.answer.is = "lost")
  BY <1>3, <1>4, <1>6 DEF Future
<1>8. g \in Futures
  <2>1. 0 \in 0 .. MaxReads /\ 0 \in Nat
    OBVIOUS
  <2>2. Future \in Futures
    BY <1>1 DEF Types
  <2> QED  BY <1>3, <1>4, <1>6, <2>1, <2>2 DEF Future, Futures
<1>9. /\ <<>> \in Seq(AllUnits)
      /\ <<>> \in Seq([kind : {"challenge", "log"}, read : Reads, nonce : Nat])
      /\ DOMAIN <<>> = {}
  OBVIOUS
<1>10. Types'
  <2>1. (~Complete(buffer))'
    BY <1>1, <1>3, StaysIncomplete DEF Types
  <2>2. budget' \in [losses : Nat, drops : Nat]
    <3>1. budget \in [losses : Nat, drops : Nat]
      BY <1>1 DEF Types
    <3>2. budget.drops - 1 \in Nat
      BY <1>2, <3>1
    <3> QED  BY <1>2, <3>1, <3>2
  <2> QED  BY <1>1, <1>2, <1>3, <1>6, <1>8, <1>9, <2>1, <2>2 DEF Types
<1>11. Nonces'
  BY <1>1, <1>2, <1>3, <1>9 DEF Nonces
<1>12. Results'
  BY <1>1, <1>3 DEF Results
<1>13. Held(Future, Stream)'
  <2>1. Held(f, <<>>)
    BY <1>1, <1>6, ThinKeeps
  <2>2. Held(g, <<>>)
    BY <1>7, <2>1, EndKeepsHeld
  <2> QED  BY <1>2, <1>3, <1>5, <1>6, <2>2, HeldStays
<1>14. Whole(Future, Stream)'
  <2>1. Whole(g, <<>>)
    BY <1>1, <1>6, <1>7, <1>9 DEF Whole
  <2> QED  BY <1>3, <1>5, <1>6, <2>1, WholeStays
<1>15. Readable(Stream)'
  BY <1>1, <1>3, <1>5 DEF Readable, Aligned
<1> QED  BY <1>10, <1>11, <1>12, <1>13, <1>14, <1>15 DEF IndInv, StreamInv, Held

LEMMA ElementsOfSequence ==
    ASSUME NEW S, NEW s \in Seq(S)
    PROVE  \A i \in DOMAIN s : s[i] \in S
  OBVIOUS

LEMMA BeginKeeps == ASSUME IndInv, Begin PROVE IndInv'
<1>1. /\ Types /\ Nonces /\ Results /\ Readable(Stream)
      /\ Held(Future, Stream) /\ Thin(Stream, Stream) /\ Stream \in Seq(AllUnits)
  BY StreamOf DEF IndInv
<1>2. /\ step = "idle" /\ read < MaxReads /\ read' = read + 1
      /\ step' = "challenge" /\ at' = "issue" /\ attempt' = 1
      /\ UNCHANGED <<link, wire, requests, budget, hole, log, nonce, challenges, owed, served>>
      /\ UNCHANGED <<buffer, noise, garbled, answer, aggregated, challenge, result, excused>>
  BY DEF Begin, GoTo, radio, opener, stream, future
<1>3. read \in Nat /\ read' \in 1 .. MaxReads /\ read' # 0
  <2>1. read \in 0 .. MaxReads /\ MaxReads \in Nat
    BY <1>1 DEF Types
  <2> QED  BY <1>2, <2>1
<1>4. Stream' = Stream /\ Future' = Future
  BY <1>2 DEF Stream, Future
<1>5. Types'
  <2>1. 1 \in 1 .. Attempts /\ read' \in 0 .. MaxReads
    BY <1>3, SizesAssumption
  <2>2. (~Complete(buffer))'
    BY <1>1, <1>2, StaysIncomplete DEF Types
  <2> QED  BY <1>1, <1>2, <1>3, <1>4, <2>1, <2>2 DEF Types
<1>6. Nonces'
  <2>1. \A i \in DOMAIN requests : requests[i].read \in Nat
    <3> DEFINE S == [kind : {"challenge", "log"}, read : Reads, nonce : Nat]
    <3>1. requests \in Seq(S)
      BY <1>1 DEF Types
    <3>2. \A q \in S : q.read \in Nat
      BY DEF Reads
    <3> HIDE DEF S
    <3>3. \A i \in DOMAIN requests : requests[i] \in S
      BY <3>1, ElementsOfSequence
    <3> QED  BY <3>2, <3>3
  <2>2. \A i \in DOMAIN requests : requests[i].read <= read'
    BY <1>1, <1>2, <1>3, <2>1 DEF Nonces
  <2> QED  BY <1>1, <1>2, <2>2 DEF Nonces
<1>7. Results'
  <2>1. \A r \in Reads : r >= read' => r > read
    BY <1>2, <1>3 DEF Reads
  <2>2. \A r \in Reads : r > read' \/ r = read' => r >= read'
    BY <1>3 DEF Reads
  <2> QED  BY <1>1, <1>2, <2>1, <2>2 DEF Results
<1>8. StreamInv(Future, Stream)'
  <2>1. PICK f, p : f = Future /\ p = Stream
    OBVIOUS
  <2>2. ASSUME NEW i \in DOMAIN p
        PROVE  p[i].of.read <= read' /\ (Is(p[i], "CHALLENGE") => p[i].of.n > challenge')
    <3>1. p[i].of.read \in Nat
      <4>1. p[i] \in AllUnits
        BY <1>1, <2>1
      <4> QED  BY <4>1 DEF AllUnits, Messages
    <3>2. p[i].of.read <= read
      BY <1>1, <2>1 DEF Held, Sound
    <3>3. Is(p[i], "CHALLENGE") => p[i].of.n > challenge'
      BY <1>1, <1>2, <2>1 DEF Held, Fresh
    <3> QED  BY <1>2, <1>3, <3>1, <3>2, <3>3
  <2>3. \A r \in Reads : (result'[r].entries # <<>> \/ (result'[r].ok /\ result'[r].by = r))
                            => Answered(r, f, p)
    BY <1>2 DEF Answered
  <2>4. Stream' = p /\ requests' \in {requests, <<>>} /\ ~(step' = "log")
    BY <1>2, <1>4, <2>1
  <2> QED  BY <1>1, <1>2, <2>1, <2>2, <2>3, <2>4, NotAskedKeeps
<1>9. Readable(Stream)'
  <2>1. PICK p : p = Stream
    OBVIOUS
  <2> QED  BY <1>1, <1>2, <1>4, <2>1 DEF Readable
<1> QED  BY <1>5, <1>6, <1>7, <1>8, <1>9 DEF IndInv

LEMMA ChallengeArrivedKeeps == ASSUME IndInv, ChallengeArrived PROVE IndInv'
<1>1. /\ Types /\ Nonces /\ Results /\ Readable(Stream)
      /\ Held(Future, Stream) /\ Thin(Stream, Stream)
  BY StreamOf DEF IndInv
<1>2. /\ step = "challenge" /\ at = "wait" /\ answer.is = "ok" /\ challenge' = answer.nonce
      /\ step' = "log" /\ at' = "issue" /\ attempt' = 1
      /\ UNCHANGED <<link, wire, requests, budget, hole, log, nonce, challenges, owed, served>>
      /\ UNCHANGED <<buffer, noise, garbled, answer, aggregated, read, result, excused>>
  BY DEF ChallengeArrived, GoTo, radio, opener, stream, future
<1>3. Stream' = Stream /\ Future' = Future /\ Future.answer = answer
  BY <1>2 DEF Stream, Future
<1>4. Clear(Stream) /\ answer.nonce \in 1 .. challenges
  BY <1>1, <1>2, <1>3 DEF Held, Own
<1>5. challenges \in Nat
  BY <1>1 DEF Types
<1>6. challenge' \in Nat /\ challenge' <= challenges /\ challenge' # 0
  BY <1>2, <1>4, <1>5
<1>7. Types'
  <2>1. 1 \in 1 .. Attempts
    BY SizesAssumption
  <2>2. (~Complete(buffer))'
    BY <1>1, <1>2, StaysIncomplete DEF Types
  <2> QED  BY <1>1, <1>2, <1>3, <1>6, <2>1, <2>2 DEF Types
<1>8. Nonces'
  BY <1>1, <1>2, <1>6 DEF Nonces
<1>9. Results'
  BY <1>1, <1>2 DEF Results
<1>10. StreamInv(Future, Stream)'
  <2>1. PICK f, p : f = Future /\ p = Stream
    OBVIOUS
  <2>2. \A i \in DOMAIN p : /\ p[i].of.read <= read'
                            /\ Is(p[i], "CHALLENGE") => p[i].of.n > challenge'
    BY <1>1, <1>2, <1>3, <2>1 DEF Held, Sound, Fresh
  <2>3. Clear(p)'
    BY <1>2, <1>4, <2>1 DEF Clear, Alive
  <2>4. read' \in Reads /\ result'[read'] = Unread
    <3>1. read \in Reads
      BY <1>1, <1>2, ReadHasBegun
    <3> QED  BY <1>1, <1>2, <3>1 DEF Results
  <2>5. \A r \in Reads : (result'[r].entries # <<>> \/ (result'[r].ok /\ result'[r].by = r))
                            => Answered(r, f, p)
    BY <1>2 DEF Answered
  <2>6. Stream' = p /\ requests' \in {requests, <<>>}
    BY <1>2, <1>3, <2>1
  <2> QED  BY <1>1, <1>2, <2>1, <2>2, <2>3, <2>4, <2>5, <2>6, NotAskedKeeps
<1>11. Readable(Stream)'
  <2>1. PICK p : p = Stream
    OBVIOUS
  <2> QED  BY <1>1, <1>2, <1>3, <2>1 DEF Readable
<1> QED  BY <1>7, <1>8, <1>9, <1>10, <1>11 DEF IndInv

LEMMA IssueKeeps == ASSUME IndInv, Issue PROVE IndInv'
<1>1. /\ Types /\ Nonces /\ Results /\ Readable(Stream)
      /\ Held(Future, Stream) /\ Thin(Stream, Stream)
  BY StreamOf DEF IndInv
<1>2. /\ step # "idle" /\ at = "issue" /\ at' = "write"
      /\ answer' = NoAnswer /\ aggregated' = <<>>
      /\ UNCHANGED <<link, wire, requests, budget, hole, log, nonce, challenges, owed, served>>
      /\ UNCHANGED <<buffer, noise, garbled, read, step, attempt, challenge, result, excused>>
  BY DEF Issue, radio, opener, stream
<1>3. Stream' = Stream
  BY <1>2 DEF Stream
<1>4. PICK f, g, p : f = Future /\ g = Future' /\ p = Stream
  OBVIOUS
<1>5. g.aggregated = <<>> /\ g.answer.is = "none"
  BY <1>2, <1>4 DEF Future, NoAnswer
<1>6. g \in Futures
  <2>1. 0 \in 0 .. MaxReads /\ 0 \in Nat /\ <<>> \in Seq(Nat)
    OBVIOUS
  <2> QED  BY <1>2, <1>4, <2>1 DEF Future, Futures, NoAnswer
<1>7. Types'
  <2>1. (~Complete(buffer))'
    BY <1>1, <1>2, StaysIncomplete DEF Types
  <2> QED  BY <1>1, <1>2, <1>4, <1>6, <2>1 DEF Types
<1>8. Nonces'
  BY <1>1, <1>2 DEF Nonces
<1>9. Results'
  BY <1>1, <1>2 DEF Results
<1>10. step = "log" => Clear(p)
  BY <1>1, <1>2, <1>4 DEF Held, Own
<1>11. Held(Future, Stream)'
  <2>1. Held(f, p)
    BY <1>1, <1>4
  <2>2. Sound(p)' /\ InSequence(p)'
    BY <1>2, <2>1 DEF Held, Sound, InSequence
  <2>3. Fresh(g, p)'
    BY <1>2, <1>5, <2>1 DEF Held, Fresh
  <2>4. Own(g, p)'
    <3>1. step = "log" => Clear(p)'
      BY <1>2, <1>10 DEF Clear, Alive
    <3> QED  BY <1>2, <1>5, <3>1 DEF Own, Clear, LogAsked
  <2>5. Collected(g, p)'
    BY <1>5 DEF Collected, Elements, Descending
  <2>6. AnsweredOnce(g, p)'
    <3>1. \A r \in Reads : Answered(r, g, p)' => Answered(r, f, p)
      BY <1>2, <1>5 DEF Answered
    <3> QED  BY <1>2, <2>1, <3>1 DEF Held, AnsweredOnce, Alive
  <2> QED  BY <1>3, <1>4, <2>2, <2>3, <2>4, <2>5, <2>6 DEF Held
<1>12. Whole(Future, Stream)'
  <2>1. Whole(g, p)'
    <3>1. step = "log" => \A i \in DOMAIN p : ~(Is(p[i], "STATUS") /\ p[i].of.read = read)
      <4>1. step = "log" => read # 0
        BY <1>1 DEF Types
      <4> QED  BY <1>10, <4>1 DEF Clear, IsAnswer
    <3> QED  BY <1>2, <1>5, <3>1 DEF Whole, LogAsked
  <2> QED  BY <1>3, <1>4, <2>1
<1>13. Readable(Stream)'
  BY <1>1, <1>2, <1>3, <1>4 DEF Readable
<1> QED  BY <1>7, <1>8, <1>9, <1>11, <1>12, <1>13 DEF IndInv, StreamInv, Held

LEMMA AppendedRequest ==
    ASSUME NEW S, NEW s \in Seq(S), NEW e \in S
    PROVE  /\ Append(s, e) \in Seq(S)
           /\ \A i \in DOMAIN Append(s, e) : Append(s, e)[i] = e
                \/ (i \in DOMAIN s /\ Append(s, e)[i] = s[i])
  OBVIOUS

LEMMA WriteKeeps == ASSUME IndInv, Write PROVE IndInv'
<1> DEFINE q == [kind |-> step, read |-> read, nonce |-> challenge]
<1>1. /\ Types /\ Nonces /\ Results /\ Readable(Stream)
      /\ Held(Future, Stream) /\ Whole(Future, Stream) /\ Thin(Stream, Stream)
  BY StreamOf DEF IndInv
<1>2. /\ step # "idle" /\ at = "write" /\ at' = "wait" /\ requests' = Append(requests, q)
      /\ UNCHANGED <<wire, budget, log, nonce, challenges, owed, served, answer, aggregated>>
      /\ UNCHANGED <<noise, read, step, attempt, challenge, result, excused>>
      /\ IF link THEN UNCHANGED <<link, hole, buffer, garbled>>
         ELSE link' = TRUE /\ buffer' = <<>> /\ garbled' = FALSE /\ hole' = FALSE
  BY DEF Write, NewStream, opener, future, stream
<1>3. Future' = Future
  BY <1>2 DEF Future
<1>4. Stream' = Stream
  <2>1. CASE link
    BY <1>2, <2>1 DEF Stream
  <2>2. CASE ~link
    <3>1. wire' = <<>> /\ buffer' = <<>> /\ link'
      BY <1>1, <1>2, <2>2 DEF Types
    <3>2. <<>> \o <<>> = <<>>
      OBVIOUS
    <3> QED  BY <2>2, <3>1, <3>2 DEF Stream
  <2> QED  BY <2>1, <2>2
<1>5. read \in Reads
  BY <1>1, <1>2, ReadHasBegun
<1>6. /\ requests' \in Seq([kind : {"challenge", "log"}, read : Reads, nonce : Nat])
      /\ \A i \in DOMAIN requests' : requests'[i] = q
           \/ (i \in DOMAIN requests /\ requests'[i] = requests[i])
  <2> DEFINE S == [kind : {"challenge", "log"}, read : Reads, nonce : Nat]
  <2>1. requests \in Seq(S) /\ q \in S
    BY <1>1, <1>2, <1>5 DEF Types
  <2> HIDE DEF S, q
  <2>2. /\ Append(requests, q) \in Seq(S)
        /\ \A i \in DOMAIN Append(requests, q) : Append(requests, q)[i] = q
             \/ (i \in DOMAIN requests /\ Append(requests, q)[i] = requests[i])
    BY <2>1, AppendedRequest
  <2> QED  BY <1>2, <2>2 DEF S
<1>7. q.kind = step /\ q.read = read /\ q.nonce = challenge
  OBVIOUS
<1> HIDE DEF q
<1>8. Types'
  <2>1. /\ buffer' \in Seq(AllUnits) /\ Len(buffer') <= MaxBuffer /\ (~Complete(buffer))'
        /\ link' = TRUE /\ hole' \in BOOLEAN /\ garbled' \in BOOLEAN
    <3>1. CASE link
      <4>1. (~Complete(buffer))'
        BY <1>1, <1>2, <3>1, StaysIncomplete DEF Types
      <4> QED  BY <1>1, <1>2, <3>1, <4>1 DEF Types
    <3>2. CASE ~link
      <4>1. <<>> \in Seq(AllUnits) /\ Len(<<>>) <= MaxBuffer /\ ~(Len(<<>>) >= Header)
        BY SizesAssumption
      <4>2. buffer' = <<>> /\ link' = TRUE /\ hole' = FALSE /\ garbled' = FALSE
        BY <1>2, <3>2
      <4>3. (~Complete(buffer))'
        BY <4>1, <4>2 DEF Complete
      <4> QED  BY <4>1, <4>2, <4>3
    <3> QED  BY <3>1, <3>2
  <2> QED  BY <1>1, <1>2, <1>3, <1>6, <2>1 DEF Types
<1>9. Nonces'
  <2>1. step = "log" => challenge \in 1 .. challenges
    BY <1>1 DEF Types, Nonces
  <2>2. \A i \in DOMAIN requests' :
           /\ requests'[i].read <= read
           /\ requests'[i].kind = "log" => requests'[i].nonce \in 1 .. challenges
    <3>1. read <= read
      BY <1>5 DEF Reads
    <3> QED  BY <1>1, <1>6, <1>7, <2>1, <3>1 DEF Nonces
  <2> QED  BY <1>1, <1>2, <2>2 DEF Nonces
<1>10. Results'
  BY <1>1, <1>2 DEF Results
<1>11. PICK f, p : f = Future /\ p = Stream
  OBVIOUS
<1>12. Held(Future, Stream)'
  <2>1. Held(f, p)
    BY <1>1, <1>11
  <2>2. Sound(p)' /\ InSequence(p)'
    BY <1>2, <2>1 DEF Held, Sound, InSequence
  <2>3. Fresh(f, p)'
    <3>1. \A i \in DOMAIN p : Is(p[i], "CHALLENGE") =>
             \A j \in DOMAIN requests' : requests'[j].kind = "log" => p[i].of.n > requests'[j].nonce
      BY <1>6, <1>7, <2>1 DEF Held, Fresh
    <3> QED  BY <1>2, <2>1, <3>1 DEF Held, Fresh
  <2>4. Own(f, p)'
    <3>1. step = "challenge" => (Clear(p) => Clear(p)')
      BY <1>2, <1>6, <1>7 DEF Clear, Alive
    <3>2. step = "log" =>
            \A i \in DOMAIN requests' : Alive(requests[i])' => requests'[i].read = read
      BY <1>2, <1>6, <1>7, <2>1 DEF Held, Own, Alive
    <3> QED  BY <1>2, <2>1, <3>1, <3>2 DEF Held, Own, LogAsked
  <2>5. Collected(f, p)'
    BY <1>2, <2>1 DEF Held, Collected, LogAsked
  <2>6. AnsweredOnce(f, p)'
    <3> SUFFICES ASSUME NEW r \in Reads, Answered(r, f, p)'
                 PROVE  /\ \A i \in DOMAIN requests' : requests'[i].read = r => ~Alive(requests[i])'
                        /\ r = read /\ step = "log" => challenge # nonce
      BY <1>2 DEF AnsweredOnce
    <3>1. Answered(r, f, p)
      BY <1>2 DEF Answered, LogAsked
    <3>2. /\ \A i \in DOMAIN requests : requests[i].read = r => ~Alive(requests[i])
          /\ r = read /\ step = "log" => challenge # nonce
      BY <2>1, <3>1 DEF Held, AnsweredOnce
    <3>3. ASSUME NEW i \in DOMAIN requests', requests'[i].read = r
          PROVE  ~Alive(requests[i])'
      <4>1. CASE requests'[i] = q
        BY <1>2, <1>7, <3>2, <3>3, <4>1 DEF Alive
      <4>2. CASE i \in DOMAIN requests /\ requests'[i] = requests[i]
        BY <1>2, <3>2, <3>3, <4>2 DEF Alive
      <4> QED  BY <1>6, <4>1, <4>2
    <3> QED  BY <3>2, <3>3
  <2> QED  BY <1>3, <1>4, <1>11, <2>2, <2>3, <2>4, <2>5, <2>6 DEF Held
<1>13. Whole(Future, Stream)'
  <2>1. Whole(f, p)'
    BY <1>1, <1>2, <1>11 DEF Whole, LogAsked, Rest, Part
  <2> QED  BY <1>3, <1>4, <1>11, <2>1
<1>14. Readable(Stream)'
  <2>1. CASE link
    BY <1>1, <1>2, <1>4, <1>11, <2>1 DEF Readable
  <2>2. CASE ~link
    <3>1. p = <<>> /\ garbled' = FALSE
      BY <1>2, <1>11, <2>2 DEF Stream
    <3> QED  BY <1>4, <1>11, <3>1 DEF Readable, Aligned
  <2> QED  BY <2>1, <2>2
<1> QED  BY <1>8, <1>9, <1>10, <1>12, <1>13, <1>14 DEF IndInv, StreamInv, Held

LEMMA LogGrowsKeeps == ASSUME IndInv, LogGrows PROVE IndInv'
<1>1. /\ Types /\ Nonces /\ Results /\ Readable(Stream) /\ StreamInv(Future, Stream)
  BY DEF IndInv
<1>2. /\ log' = log + 1
      /\ UNCHANGED <<link, wire, requests, budget, hole, owed, buffer, noise, garbled>>
      /\ UNCHANGED <<answer, aggregated, attempt>> /\ UNCHANGED context
  BY DEF LogGrows, radio, stream, future, reader, context
<1>3. Stream' = Stream /\ Future' = Future
  BY <1>2 DEF Stream, Future
<1>4. PICK f, p : f = Future /\ p = Stream
  OBVIOUS
<1>5. Types'
  <2>1. (~Complete(buffer))'
    BY <1>1, <1>2, StaysIncomplete DEF Types
  <2>2. log' \in Nat
    BY <1>1, <1>2 DEF Types
  <2> QED  BY <1>1, <1>2, <1>3, <2>1, <2>2 DEF Types, context
<1>6. Nonces' /\ Results'
  BY <1>1, <1>2 DEF Nonces, Results, context
<1>7. StreamInv(Future, Stream)'
  BY <1>1, <1>2, <1>3, <1>4, ContextKeeps
<1>8. Readable(Stream)'
  BY <1>1, <1>2, <1>3, <1>4 DEF Readable
<1> QED  BY <1>5, <1>6, <1>7, <1>8 DEF IndInv

-----------------------------------------------------------------------------
(* What the Opener sends.                                                  *)

\* The units s are those of the first k of the messages, unit i being of message c[i].
Sends(s, c, messages, k) ==
    /\ s \in Seq(AllUnits) /\ c \in [1 .. Len(s) -> 1 .. k]
    /\ \A i \in 1 .. Len(s) :
         /\ s[i].of = messages[c[i]]
         /\ \A j \in 1 .. Len(s) : i < j => c[i] < c[j] \/ (c[i] = c[j] /\ s[i].at < s[j].at)
         /\ s[i].at < Size(s[i].of) =>
              i < Len(s) /\ s[i + 1] = [of |-> s[i].of, at |-> s[i].at + 1]
         /\ s[i].at = Size(s[i].of) =>
              IF i = Len(s) THEN c[i] = k
              ELSE c[i] < k /\ s[i + 1] = [of |-> messages[c[i] + 1], at |-> 1]
    /\ k = 0 => s = <<>>
    /\ k > 0 => s # <<>> /\ s[1] = [of |-> messages[1], at |-> 1]

LEMMA FirstOrSecondPart ==
    ASSUME NEW a \in Nat, NEW b \in Nat, NEW i \in 1 .. a + b
    PROVE  i \in 1 .. a \/ \E x \in 1 .. b : i = a + x
<1>1. CASE i <= a
  BY <1>1
<1>2. CASE i > a
  <2>1. i - a \in 1 .. b /\ i = a + (i - a)
    BY <1>2
  <2> QED  BY <2>1
<1>3. i \in Nat
  OBVIOUS
<1> QED  BY <1>1, <1>2, <1>3

LEMMA NextSends ==
    ASSUME NEW messages \in Seq(Messages), NEW k \in Nat, k + 1 <= Len(messages),
           NEW s, NEW c, Sends(s, c, messages, k)
    PROVE  \E d : Sends(s \o Units(messages[k + 1]), d, messages, k + 1)
<1> DEFINE m == messages[k + 1]
           u == Units(m)
           z == Size(m)
           l == Len(s)
           t == s \o u
<1>1. m \in Messages
  <2>1. k + 1 \in 1 .. Len(messages)
    OBVIOUS
  <2> QED  BY <2>1
<1>2. u \in Seq(AllUnits) /\ Len(u) = z /\ \A x \in 1 .. z : u[x] = [of |-> m, at |-> x]
  BY <1>1, UnitsOfMessage
<1>3. z \in Nat /\ z >= 1
  <2>1. Size(m) \in Nat /\ Size(m) > Header /\ Header \in Nat
    BY SizeOfMessage
  <2> QED  BY <2>1
<1>4. /\ s \in Seq(AllUnits) /\ l \in Nat /\ c \in [1 .. l -> 1 .. k]
      /\ k = 0 => s = <<>>
      /\ k > 0 => s # <<>> /\ s[1] = [of |-> messages[1], at |-> 1]
  BY DEF Sends
<1>5. \A i \in 1 .. l :
        /\ s[i].of = messages[c[i]]
        /\ \A j \in 1 .. l : i < j => c[i] < c[j] \/ (c[i] = c[j] /\ s[i].at < s[j].at)
        /\ s[i].at < Size(s[i].of) => i < l /\ s[i + 1] = [of |-> s[i].of, at |-> s[i].at + 1]
        /\ s[i].at = Size(s[i].of) =>
             IF i = l THEN c[i] = k
             ELSE c[i] < k /\ s[i + 1] = [of |-> messages[c[i] + 1], at |-> 1]
  BY DEF Sends
<1>6. (l = 0 <=> s = <<>>) /\ (k = 0 => l = 0) /\ (k > 0 => l >= 1)
  BY <1>4
<1> HIDE DEF u
<1>13. /\ t \in Seq(AllUnits) /\ Len(t) = Len(s) + Len(u)
       /\ \A i \in 1 .. Len(s) : t[i] = s[i]
       /\ \A x \in 1 .. Len(u) : t[Len(s) + x] = u[x]
  BY <1>2, <1>4, JoinedUnits, ZenonT(30)
<1> HIDE DEF t, m, z
<1>7. /\ t \in Seq(AllUnits) /\ Len(t) = l + z
      /\ \A i \in 1 .. l : t[i] = s[i]
      /\ \A x \in 1 .. z : t[l + x] = [of |-> m, at |-> x]
  BY <1>2, <1>13
<1> DEFINE d == [i \in 1 .. l + z |-> IF i <= l THEN c[i] ELSE k + 1]
<1>14. l \in Nat /\ z \in Nat /\ z >= 1 /\ 1 \in 1 .. z /\ z \in 1 .. z
  BY <1>3, <1>4
<1> HIDE DEF l
<1>8. /\ \A i \in 1 .. l : d[i] = c[i] /\ d[i] \in 1 .. k /\ i \in 1 .. l + z
      /\ \A x \in 1 .. z : d[l + x] = k + 1 /\ l + x \in 1 .. l + z
  <2>1. ASSUME NEW i \in 1 .. l
        PROVE  d[i] = c[i] /\ c[i] \in 1 .. k /\ i \in 1 .. l + z
    <3>1. i \in 1 .. l + z /\ i <= l
      BY <1>3, <1>4, SMTT(30)
    <3> QED  BY <1>4, <3>1
  <2>2. ASSUME NEW x \in 1 .. z
        PROVE  d[l + x] = k + 1 /\ l + x \in 1 .. l + z
    <3>1. l + x \in 1 .. l + z /\ ~(l + x <= l)
      BY <1>3, <1>4
    <3> QED  BY <3>1
  <2> QED  BY <2>1, <2>2
<1>9. d \in [1 .. l + z -> 1 .. k + 1]
  <2>1. \A i \in 1 .. l + z : (i <= l => i \in 1 .. l) /\ k + 1 \in 1 .. k + 1
    BY <1>3, <1>4
  <2>2. \A i \in 1 .. l : c[i] \in 1 .. k + 1
    BY <1>4, SMTT(30)
  <2> QED  BY <2>1, <2>2
<1> HIDE DEF d
<1>10. ASSUME NEW i \in 1 .. l + z
       PROVE  /\ t[i].of = messages[d[i]]
              /\ \A j \in 1 .. l + z : i < j => d[i] < d[j] \/ (d[i] = d[j] /\ t[i].at < t[j].at)
              /\ t[i].at < Size(t[i].of) =>
                   i < l + z /\ t[i + 1] = [of |-> t[i].of, at |-> t[i].at + 1]
              /\ t[i].at = Size(t[i].of) =>
                   IF i = l + z THEN d[i] = k + 1
                   ELSE d[i] < k + 1 /\ t[i + 1] = [of |-> messages[d[i] + 1], at |-> 1]
  <2>1. CASE i \in 1 .. l
    <3>1. t[i] = s[i] /\ d[i] = c[i] /\ d[i] \in 1 .. k
      BY <1>7, <1>8, <2>1
    <3>2. ASSUME NEW j \in 1 .. l + z, i < j
          PROVE  d[i] < d[j] \/ (d[i] = d[j] /\ t[i].at < t[j].at)
      <4>1. CASE j \in 1 .. l
        BY <1>5, <1>7, <1>8, <2>1, <3>1, <3>2, <4>1
      <4>2. ASSUME NEW x \in 1 .. z, j = l + x
            PROVE  d[i] < d[j]
        BY <1>8, <3>1, <4>2, SMTT(30)
      <4> QED  BY <1>3, <1>4, <4>1, <4>2, FirstOrSecondPart
    <3>3. t[i].at < Size(t[i].of) =>
            i < l + z /\ t[i + 1] = [of |-> t[i].of, at |-> t[i].at + 1]
      <4>1. i < l => i + 1 \in 1 .. l /\ i < l + z
        BY <1>14, <2>1
      <4> QED  BY <1>5, <1>7, <2>1, <3>1, <4>1
    <3>4. t[i].at = Size(t[i].of) =>
            i # l + z /\ d[i] < k + 1 /\ t[i + 1] = [of |-> messages[d[i] + 1], at |-> 1]
      <4>1. i # l + z /\ d[i] < k + 1
        BY <1>14, <2>1, <3>1, SMTT(30)
      <4>2. CASE i = l
        <5>1. t[l + 1] = [of |-> m, at |-> 1]
          BY <1>7, <1>14
        <5>2. t[i].at = Size(t[i].of) => d[i] = k
          BY <1>5, <2>1, <3>1, <4>2
        <5>3. t[i + 1] = [of |-> messages[k + 1], at |-> 1]
          BY <4>2, <5>1 DEF m
        <5> QED  BY <4>1, <5>2, <5>3
      <4>3. CASE i # l
        <5>1. i + 1 \in 1 .. l
          BY <1>14, <2>1, <4>3
        <5> QED  BY <1>5, <1>7, <2>1, <3>1, <4>1, <4>3, <5>1, ZenonT(30)
      <4> QED  BY <4>2, <4>3
    <3> QED  BY <1>5, <2>1, <3>1, <3>2, <3>3, <3>4
  <2>2. ASSUME NEW x \in 1 .. z, i = l + x
        PROVE  /\ t[i].of = messages[d[i]]
               /\ \A j \in 1 .. l + z : i < j => d[i] = d[j] /\ t[i].at < t[j].at
               /\ t[i].at < Size(t[i].of) =>
                    i < l + z /\ t[i + 1] = [of |-> t[i].of, at |-> t[i].at + 1]
               /\ t[i].at = Size(t[i].of) => i = l + z /\ d[i] = k + 1
    <3>1. t[i] = [of |-> m, at |-> x] /\ d[i] = k + 1
      BY <1>7, <1>8, <2>2
    <3>2. Size(t[i].of) = z /\ t[i].at = x /\ t[i].of = m
      BY <3>1 DEF z
    <3>3. ASSUME NEW j \in 1 .. l + z, i < j
          PROVE  d[i] = d[j] /\ t[i].at < t[j].at
      <4>1. j \notin 1 .. l
        BY <1>14, <2>2, <3>3
      <4>2. PICK y \in 1 .. z : j = l + y
        <5>1. l \in Nat /\ z \in Nat
          BY <1>14
        <5>2. j \in 1 .. l \/ \E y \in 1 .. z : j = l + y
          BY <5>1, FirstOrSecondPart
        <5> QED  BY <4>1, <5>2
      <4>3. t[j] = [of |-> m, at |-> y] /\ d[j] = k + 1
        BY <1>7, <1>8, <4>2
      <4>4. x < y
        BY <1>14, <2>2, <3>3, <4>2
      <4> QED  BY <3>1, <3>2, <4>3, <4>4
    <3>4. ASSUME x < z
          PROVE  i < l + z /\ t[i + 1] = [of |-> m, at |-> x + 1]
      <4>1. x + 1 \in 1 .. z /\ i + 1 = l + (x + 1) /\ i < l + z
        BY <1>14, <2>2, <3>4
      <4>2. t[l + (x + 1)] = [of |-> m, at |-> x + 1]
        BY <1>7, <4>1
      <4> QED  BY <4>1, <4>2
    <3>5. x = z => i = l + z
      BY <2>2
    <3>6. t[i].of = messages[d[i]]
      BY <3>1, <3>2 DEF m
    <3> QED  BY <3>1, <3>2, <3>3, <3>4, <3>5, <3>6
  <2>3. i \in 1 .. l \/ \E x \in 1 .. z : i = l + x
    BY <1>3, <1>4, FirstOrSecondPart
  <2>4. CASE \E x \in 1 .. z : i = l + x
    BY <2>2, <2>4
  <2> QED  BY <2>1, <2>3, <2>4
<1>11. t # <<>> /\ t[1] = [of |-> messages[1], at |-> 1]
  <2>1. Len(t) >= 1
    BY <1>3, <1>4, <1>7
  <2>2. CASE k = 0
    <3>1. l = 0 /\ m = messages[1] /\ 0 + 1 = 1
      BY <1>6, <2>2 DEF m
    <3>2. t[l + 1] = [of |-> m, at |-> 1]
      BY <1>7, <1>14
    <3> QED  BY <2>1, <3>1, <3>2
  <2>3. CASE k > 0
    <3>1. 1 \in 1 .. l
      BY <1>6, <1>14, <2>3
    <3> QED  BY <1>4, <1>7, <2>1, <2>3, <3>1, SMTT(30)
  <2> QED  BY <2>2, <2>3
<1>12. Sends(t, d, messages, k + 1)
  <2>1. k + 1 # 0
    OBVIOUS
  <2> QED  BY <1>7, <1>9, <1>10, <1>11, <2>1, SMTT(30) DEF Sends
<1> QED  BY <1>12 DEF t, u, m

\* The messages that leave, in turn.
Leaving(sent, messages) ==
    sent = [i \in 0 .. Len(messages) |->
              IF i = 0 THEN <<>> ELSE sent[i - 1] \o Units(messages[i])]

LEMMA SentInTurn ==
    ASSUME NEW messages \in Seq(Messages)
    PROVE  \E sent : Leaving(sent, messages) /\ Sent(messages) = sent[Len(messages)]
<1> DEFINE Loop(g, n) ==
             g = [i \in 0 .. n |-> IF i = 0 THEN <<>> ELSE g[i - 1] \o Units(messages[i])]
           T == {n \in Nat : \E g : Loop(g, n)}
<1>1. 0 \in T
  <2>1. Loop([i \in 0 .. 0 |-> <<>>], 0)
    OBVIOUS
  <2> QED  BY <2>1
<1>2. ASSUME NEW n \in Nat, n \in T
      PROVE  n + 1 \in T
  <2>1. PICK g : Loop(g, n)
    BY <1>2
  <2> DEFINE h == [i \in 0 .. n + 1 |-> IF i <= n THEN g[i] ELSE g[n] \o Units(messages[i])]
  <2>2. ASSUME NEW i \in 0 .. n + 1
        PROVE  h[i] = IF i = 0 THEN <<>> ELSE h[i - 1] \o Units(messages[i])
    <3>1. CASE i = 0
      BY <2>1, <3>1
    <3>2. CASE i \in 1 .. n
      <4>1. g[i] = g[i - 1] \o Units(messages[i])
        BY <2>1, <3>2
      <4>2. h[i] = g[i] /\ h[i - 1] = g[i - 1] /\ i # 0
        BY <3>2
      <4> HIDE DEF h, Loop
      <4> QED  BY <4>1, <4>2
    <3>3. CASE i = n + 1
      <4>3. ~(i <= n) /\ i \in 0 .. n + 1
        BY <3>3
      <4>1. h[i] = g[n] \o Units(messages[i])
        BY <4>3, Zenon
      <4>2. i - 1 = n /\ h[n] = g[n] /\ i # 0
        BY <3>3
      <4> HIDE DEF h
      <4> QED  BY <4>1, <4>2
    <3>4. i = 0 \/ i \in 1 .. n \/ i = n + 1
      OBVIOUS
    <3> QED  BY <3>1, <3>2, <3>3, <3>4
  <2>3. Loop(h, n + 1)
    BY <2>2, Zenon
  <2>4. n + 1 \in Nat
    OBVIOUS
  <2> HIDE DEF Loop, h
  <2> QED  BY <2>3, <2>4
<1>3. Len(messages) \in T
  <2>1. Len(messages) \in Nat
    OBVIOUS
  <2> HIDE DEF T
  <2>2. Nat \subseteq T
    BY <1>1, <1>2, InductionOverSets
  <2> QED  BY <2>1, <2>2
<1>4. PICK g : Loop(g, Len(messages))
  BY <1>3
<1> DEFINE sent[i \in 0 .. Len(messages)] ==
             IF i = 0 THEN <<>> ELSE sent[i - 1] \o Units(messages[i])
<1>5. Leaving(sent, messages)
  BY <1>4, Zenon DEF Leaving
<1>6. Sent(messages) = sent[Len(messages)]
  BY DEF Sent
<1> HIDE DEF sent
<1> QED  BY <1>5, <1>6

\* What is sent is all of the messages, one after another.
LEMMA SentUnits ==
    ASSUME NEW messages \in Seq(Messages)
    PROVE  \E c : Sends(Sent(messages), c, messages, Len(messages))
<1>1. PICK sent : Leaving(sent, messages) /\ Sent(messages) = sent[Len(messages)]
  BY SentInTurn
<1>2. Len(messages) \in Nat
  OBVIOUS
<1>3. sent[0] = <<>>
  BY <1>1, <1>2 DEF Leaving
<1>4. ASSUME NEW i \in Nat, i + 1 <= Len(messages)
      PROVE  sent[i + 1] = sent[i] \o Units(messages[i + 1])
  <2>1. i + 1 \in 0 .. Len(messages) /\ i + 1 # 0 /\ (i + 1) - 1 = i
    BY <1>2, <1>4
  <2> QED  BY <1>1, <2>1 DEF Leaving
<1> DEFINE T == {i \in Nat : i <= Len(messages) => \E c : Sends(sent[i], c, messages, i)}
<1>5. 0 \in T
  <2>1. <<>> \in Seq(AllUnits) /\ Len(<<>>) = 0 /\ <<>> \in [1 .. 0 -> 1 .. 0]
    OBVIOUS
  <2>2. Sends(<<>>, <<>>, messages, 0)
    BY <2>1 DEF Sends
  <2> QED  BY <1>3, <2>2
<1>6. ASSUME NEW i \in Nat, i \in T
      PROVE  i + 1 \in T
  <2>1. ASSUME i + 1 <= Len(messages)
        PROVE  \E c : Sends(sent[i + 1], c, messages, i + 1)
    <3>1. i <= Len(messages)
      BY <1>2, <2>1
    <3>2. PICK c : Sends(sent[i], c, messages, i)
      BY <1>6, <3>1
    <3>3. \E d : Sends(sent[i] \o Units(messages[i + 1]), d, messages, i + 1)
      BY <2>1, <3>2, NextSends
    <3>4. sent[i + 1] = sent[i] \o Units(messages[i + 1])
      BY <1>4, <2>1
    <3> QED  BY <3>3, <3>4
  <2> QED  BY <2>1
<1> HIDE DEF T
<1>7. Len(messages) \in T
  BY <1>2, <1>5, <1>6, InductionOverSets
<1> QED  BY <1>1, <1>2, <1>7 DEF T

\* An answer in the middle of nothing else begins and ends with a message.
LEMMA SentAligned ==
    ASSUME NEW s, NEW c, NEW messages, NEW k, Sends(s, c, messages, k), k > 0
    PROVE  Aligned(s) /\ s # <<>> /\ s[1].at = 1
<1>1. s \in Seq(AllUnits) /\ s # <<>> /\ s[1].at = 1
  BY DEF Sends
<1>2. \A i \in 1 .. Len(s) :
        /\ s[i].at < Size(s[i].of) => i < Len(s) /\ s[i + 1] = [of |-> s[i].of, at |-> s[i].at + 1]
        /\ s[i].at = Size(s[i].of) => i = Len(s) \/ s[i + 1] = [of |-> messages[c[i] + 1], at |-> 1]
  BY DEF Sends
<1>3. \A i \in 1 .. Len(s) : s[i].at < Size(s[i].of) \/ s[i].at = Size(s[i].of)
  <2> TAKE i \in 1 .. Len(s)
  <2>1. s[i] \in AllUnits
    BY <1>1
  <2>2. s[i].at \in Nat /\ s[i].at <= Size(s[i].of)
    BY <2>1 DEF AllUnits
  <2>3. Size(s[i].of) \in Nat
    BY SizeOfMessage
  <2> QED  BY <2>2, <2>3
<1>4. Len(s) \in Nat /\ Len(s) >= 1
  BY <1>1
<1>5. s[Len(s)].at = Size(s[Len(s)].of)
  <2>1. Len(s) \in 1 .. Len(s) /\ ~(Len(s) < Len(s))
    BY <1>4
  <2> QED  BY <1>2, <1>3, <2>1
<1>6. \A i \in 1 .. Len(s) - 1 :
        IF s[i].at < Size(s[i].of) THEN s[i + 1] = [of |-> s[i].of, at |-> s[i].at + 1]
        ELSE s[i + 1].at = 1
  <2> TAKE i \in 1 .. Len(s) - 1
  <2>1. i \in 1 .. Len(s) /\ i # Len(s)
    BY <1>4
  <2>2. CASE s[i].at < Size(s[i].of)
    BY <1>2, <2>1, <2>2
  <2>3. CASE ~(s[i].at < Size(s[i].of))
    <3>1. s[i + 1] = [of |-> messages[c[i] + 1], at |-> 1]
      BY <1>2, <1>3, <2>1, <2>3
    <3> QED  BY <2>3, <3>1
  <2> QED  BY <2>2, <2>3
<1> QED  BY <1>1, <1>5, <1>6 DEF Aligned

LEMMA AlignedJoined ==
    ASSUME NEW p \in Seq(AllUnits), NEW s \in Seq(AllUnits), Aligned(p), Aligned(s), s # <<>>
    PROVE  Aligned(p \o s)
<1> DEFINE t == p \o s
           l == Len(p)
           z == Len(s)
<1>1. /\ Len(t) = l + z /\ l \in Nat /\ z \in Nat
      /\ \A i \in 1 .. l : t[i] = p[i]
      /\ \A x \in 1 .. z : t[l + x] = s[x]
  BY JoinedUnits
<1>2. l \in Nat /\ z \in Nat /\ z >= 1 /\ 1 \in 1 .. z /\ z \in 1 .. z
  OBVIOUS
<1>3. /\ s[1].at = 1 /\ s[z].at = Size(s[z].of)
      /\ \A i \in 1 .. z - 1 :
            IF s[i].at < Size(s[i].of) THEN s[i + 1] = [of |-> s[i].of, at |-> s[i].at + 1]
            ELSE s[i + 1].at = 1
  BY DEF Aligned
<1>4. l > 0 =>
        /\ p[1].at = 1 /\ p[l].at = Size(p[l].of)
        /\ \A i \in 1 .. l - 1 :
              IF p[i].at < Size(p[i].of) THEN p[i + 1] = [of |-> p[i].of, at |-> p[i].at + 1]
              ELSE p[i + 1].at = 1
  <2>1. l > 0 => p # <<>>
    OBVIOUS
  <2> QED  BY <2>1 DEF Aligned
<1> HIDE DEF t, l, z
<1>5. t[1].at = 1
  <2>1. CASE l = 0
    BY <1>1, <1>2, <1>3, <2>1
  <2>2. CASE l > 0
    <3>1. 1 \in 1 .. l
      BY <1>2, <2>2
    <3> QED  BY <1>1, <1>4, <2>2, <3>1
  <2> QED  BY <1>2, <2>1, <2>2
<1>6. t[Len(t)].at = Size(t[Len(t)].of)
  BY <1>1, <1>2, <1>3
<1>7. ASSUME NEW i \in 1 .. l + z - 1
      PROVE  IF t[i].at < Size(t[i].of) THEN t[i + 1] = [of |-> t[i].of, at |-> t[i].at + 1]
             ELSE t[i + 1].at = 1
  <2>1. CASE i \in 1 .. l - 1
    <3>1. i \in 1 .. l /\ i + 1 \in 1 .. l /\ l > 0
      BY <1>2, <2>1
    <3> QED  BY <1>1, <1>4, <2>1, <3>1
  <2>2. CASE i = l
    <3>1. l \in 1 .. l /\ l > 0
      BY <1>2, <2>2
    <3>2. t[l] = p[l] /\ t[l + 1] = s[1]
      BY <1>1, <1>2, <3>1
    <3>3. Size(p[l].of) \in Nat
      BY SizeOfMessage
    <3>4. ~(p[l].at < Size(p[l].of))
      BY <1>4, <3>1, <3>3
    <3> QED  BY <1>3, <2>2, <3>2, <3>4
  <2>3. ASSUME NEW x \in 1 .. z, i = l + x
        PROVE  IF t[i].at < Size(t[i].of) THEN t[i + 1] = [of |-> t[i].of, at |-> t[i].at + 1]
               ELSE t[i + 1].at = 1
    <3>1. x \in 1 .. z - 1 /\ x + 1 \in 1 .. z /\ i + 1 = l + (x + 1)
      BY <1>2, <2>3
    <3>2. t[i] = s[x] /\ t[i + 1] = s[x + 1]
      BY <1>1, <2>3, <3>1
    <3> QED  BY <1>3, <3>1, <3>2
  <2>4. i \in 1 .. l + z /\ (i \in 1 .. l => i \in 1 .. l - 1 \/ i = l)
    BY <1>2
  <2>5. i \in 1 .. l \/ \E x \in 1 .. z : i = l + x
    BY <1>2, <2>4, FirstOrSecondPart
  <2> QED  BY <2>1, <2>2, <2>3, <2>4, <2>5
<1>8. Len(t) - 1 = l + z - 1
  BY <1>1
<1>9. Aligned(t)
  BY <1>5, <1>6, <1>7, <1>8, Zenon DEF Aligned
<1> QED  BY <1>9 DEF t

-----------------------------------------------------------------------------
(* Steps of the Opener.                                                    *)

LEMMA SentOne ==
    ASSUME NEW m \in Messages
    PROVE  /\ Sent(<<m>>) \in Seq(AllUnits) /\ Aligned(Sent(<<m>>)) /\ Sent(<<m>>) # <<>>
           /\ \A i \in DOMAIN Sent(<<m>>) :
                 /\ Sent(<<m>>)[i].of = m
                 /\ \A j \in DOMAIN Sent(<<m>>) : i < j => Sent(<<m>>)[i].at < Sent(<<m>>)[j].at
<1> DEFINE messages == <<m>>
           s == Sent(messages)
<1>1. messages \in Seq(Messages) /\ Len(messages) = 1 /\ messages[1] = m
  OBVIOUS
<1> HIDE DEF messages
<1>2. PICK c : Sends(s, c, messages, 1)
  BY <1>1, SentUnits
<1>3. Aligned(s) /\ s # <<>>
  BY <1>2, SentAligned
<1> HIDE DEF s
<1>4. s \in Seq(AllUnits) /\ c \in [1 .. Len(s) -> 1 .. 1]
  BY <1>2 DEF Sends
<1>5. DOMAIN s = 1 .. Len(s) /\ \A i \in 1 .. Len(s) : c[i] = 1
  BY <1>4
<1>6. \A i \in DOMAIN s : /\ s[i].of = m
                          /\ \A j \in DOMAIN s : i < j => s[i].at < s[j].at
  <2>1. \A i \in 1 .. Len(s) :
          /\ s[i].of = messages[c[i]]
          /\ \A j \in 1 .. Len(s) : i < j => c[i] < c[j] \/ s[i].at < s[j].at
    BY <1>2 DEF Sends
  <2>2. ~(1 < 1)
    OBVIOUS
  <2> QED  BY <1>1, <1>5, <2>1, <2>2
<1> QED  BY <1>3, <1>4, <1>6 DEF s, messages

LEMMA MoreUnits ==
    ASSUME NEW p \in Seq(AllUnits), NEW s \in Seq(AllUnits)
    PROVE  /\ p \o s \in Seq(AllUnits)
           /\ \A i \in DOMAIN p : i \in DOMAIN (p \o s) /\ (p \o s)[i] = p[i]
           /\ \A i \in DOMAIN (p \o s) : i \in DOMAIN p \/
                \E x \in DOMAIN s : /\ i = Len(p) + x /\ (p \o s)[i] = s[x]
                                    /\ \A j \in DOMAIN p : j < i
<1> DEFINE t == p \o s
           l == Len(p)
           z == Len(s)
<1>1. /\ t \in Seq(AllUnits) /\ Len(t) = l + z /\ l \in Nat /\ z \in Nat
      /\ \A i \in 1 .. l : t[i] = p[i]
      /\ \A x \in 1 .. z : t[l + x] = s[x]
  BY JoinedUnits
<1>2. DOMAIN t = 1 .. Len(t) /\ DOMAIN p = 1 .. l /\ DOMAIN s = 1 .. z
  BY <1>1
<1>3. l \in Nat /\ z \in Nat /\ Len(t) = l + z
  BY <1>1
<1> HIDE DEF t, l, z
<1>4. \A i \in DOMAIN p : i \in DOMAIN t
  BY <1>2, <1>3
<1>5. \A i \in DOMAIN t : i \in DOMAIN p \/
        \E x \in DOMAIN s : i = l + x /\ t[i] = s[x] /\ \A j \in DOMAIN p : j < i
  <2> TAKE i \in DOMAIN t
  <2>1. i \in 1 .. l \/ \E x \in 1 .. z : i = l + x
    BY <1>2, <1>3, FirstOrSecondPart, SMTT(30)
  <2>2. ASSUME NEW x \in 1 .. z, i = l + x
        PROVE  t[i] = s[x] /\ \A j \in DOMAIN p : j < i
    <3>1. \A j \in 1 .. l : j < l + x
      BY <1>3, SMTT(30)
    <3> QED  BY <1>1, <1>2, <2>2, <3>1
  <2> QED  BY <1>2, <2>1, <2>2
<1> QED  BY <1>1, <1>2, <1>4, <1>5 DEF t, l, z

\* A unit that no read will take for a part of its answer.
Quiet(u) == Is(u, "ERROR_REPORT") \/ (Is(u, "STATUS") /\ u.of.read = 0)

LEMMA QuietKeepsHeld ==
    ASSUME NEW f, NEW p \in Seq(AllUnits), NEW s \in Seq(AllUnits), Held(f, p),
           \A x \in DOMAIN s : Quiet(s[x]) /\ s[x].of.read <= read
    PROVE  Held(f, p \o s)
<1> DEFINE t == p \o s
<1>1. /\ \A i \in DOMAIN p : i \in DOMAIN t /\ t[i] = p[i]
      /\ \A i \in DOMAIN t : i \in DOMAIN p \/
           \E x \in DOMAIN s : i = Len(p) + x /\ t[i] = s[x] /\ \A j \in DOMAIN p : j < i
  BY MoreUnits
<1> HIDE DEF t
<1>2. \A i \in DOMAIN t : \/ i \in DOMAIN p /\ t[i] = p[i]
                          \/ ~Is(t[i], "CHALLENGE") /\ ~Is(t[i], "LOG_ENTRY") /\ ~IsAnswer(t[i])
                               /\ t[i].of.read <= read
  BY <1>1, SMTT(30) DEF Quiet, Is, IsAnswer
<1>3. Sound(t)
  BY <1>2 DEF Held, Sound
<1>4. InSequence(t)
  BY <1>2 DEF Held, InSequence
<1>5. Fresh(f, t) /\ Collected(f, t)
  BY <1>2 DEF Held, Fresh, Collected
<1>6. Clear(p) => Clear(t)
  BY <1>2 DEF Clear
<1>7. Own(f, t)
  BY <1>2, <1>6 DEF Held, Own
<1>8. \A r \in Reads : Answered(r, f, t) => Answered(r, f, p)
  BY <1>2 DEF Answered
<1>9. AnsweredOnce(f, t)
  BY <1>8 DEF Held, AnsweredOnce
<1> QED  BY <1>3, <1>4, <1>5, <1>7, <1>9 DEF Held, t

LEMMA MoreKeepsWhole ==
    ASSUME Types, NEW f, NEW p \in Seq(AllUnits), NEW s \in Seq(AllUnits), Whole(f, p),
           \A x \in DOMAIN s : ~IsAnswer(s[x])
    PROVE  Whole(f, p \o s)
<1> DEFINE t == p \o s
<1>1. /\ t \in Seq(AllUnits)
      /\ \A i \in DOMAIN p : i \in DOMAIN t /\ t[i] = p[i]
      /\ \A i \in DOMAIN t : i \in DOMAIN p \/
           \E x \in DOMAIN s : i = Len(p) + x /\ t[i] = s[x] /\ \A j \in DOMAIN p : j < i
  BY MoreUnits
<1>2. DOMAIN p = 1 .. Len(p) /\ DOMAIN t = 1 .. Len(t) /\ Len(p) \in Nat /\ Len(t) \in Nat
  BY <1>1
<1> HIDE DEF t
<1>3. \A i \in DOMAIN t : IsAnswer(t[i]) => i \in DOMAIN p /\ t[i] = p[i]
  BY <1>1
<1>4. LogAsked => read # 0
  BY DEF Types, LogAsked
<1>5. ASSUME Rest(f, p)
      PROVE  Rest(f, t)
  <2>1. /\ Len(f.aggregated) <= Len(served[read])
        /\ \A k \in DOMAIN f.aggregated : f.aggregated[k] = served[read][k]
    BY <1>5 DEF Rest
  <2>2. ASSUME NEW i \in DOMAIN t, IsAnswer(t[i])
        PROVE  /\ (\A j \in 1 .. i - 1 : ~IsAnswer(t[j])) =>
                     t[i] = [of |-> Part(read, Len(f.aggregated)), at |-> 1]
               /\ t[i].at < Size(t[i].of) =>
                     i < Len(t) /\ t[i + 1] = [of |-> t[i].of, at |-> t[i].at + 1]
               /\ \A k \in DOMAIN served[read] :
                     t[i] = [of |-> Part(read, k - 1), at |-> Size(t[i].of)] =>
                        i < Len(t) /\ t[i + 1] = [of |-> Part(read, k), at |-> 1]
    <3>1. i \in DOMAIN p /\ t[i] = p[i] /\ IsAnswer(p[i])
      BY <1>3, <2>2
    <3>2. /\ (\A j \in 1 .. i - 1 : ~IsAnswer(p[j])) =>
                p[i] = [of |-> Part(read, Len(f.aggregated)), at |-> 1]
          /\ p[i].at < Size(p[i].of) =>
                i < Len(p) /\ p[i + 1] = [of |-> p[i].of, at |-> p[i].at + 1]
          /\ \A k \in DOMAIN served[read] :
                p[i] = [of |-> Part(read, k - 1), at |-> Size(p[i].of)] =>
                   i < Len(p) /\ p[i + 1] = [of |-> Part(read, k), at |-> 1]
      BY <1>5, <3>1, Zenon DEF Rest
    <3>3. \A j \in 1 .. i - 1 : j \in DOMAIN p
      BY <1>2, <3>1
    <3>4. \A j \in 1 .. i - 1 : t[j] = p[j]
      BY <1>1, <3>3
    <3>5. i < Len(p) => i + 1 \in DOMAIN p
      BY <1>2, <3>1
    <3>6. i < Len(p) => t[i + 1] = p[i + 1] /\ i + 1 \in DOMAIN t
      BY <1>1, <3>5
    <3>7. i < Len(p) => i < Len(t)
      BY <1>2, <3>1, <3>6
    <3> QED  BY <3>1, <3>2, <3>4, <3>6, <3>7
  <2> QED  BY <2>1, <2>2, Zenon DEF Rest
<1>6. LogAsked => ((\E i \in DOMAIN t : Is(t[i], "STATUS") /\ t[i].of.read = read)
                     => \E i \in DOMAIN p : Is(p[i], "STATUS") /\ p[i].of.read = read)
  BY <1>3, <1>4 DEF IsAnswer
<1>7. Whole(f, t)
  BY <1>5, <1>6 DEF Whole
<1> QED  BY <1>7 DEF t

LEMMA HeadOfRequests ==
    ASSUME NEW S, NEW s \in Seq(S), s # <<>>
    PROVE  /\ Tail(s) \in Seq(S) /\ Head(s) \in S /\ 1 \in DOMAIN s /\ Head(s) = s[1]
           /\ \A i \in DOMAIN Tail(s) : \E j \in DOMAIN s : Tail(s)[i] = s[j]
<1>1. /\ Tail(s) \in Seq(S) /\ Head(s) = s[1] /\ Len(Tail(s)) = Len(s) - 1 /\ Len(s) \in Nat
      /\ Len(s) >= 1 /\ \A i \in 1 .. Len(Tail(s)) : Tail(s)[i] = s[i + 1]
  BY HeadTailProperties
<1>2. DOMAIN Tail(s) = 1 .. Len(Tail(s)) /\ DOMAIN s = 1 .. Len(s)
  BY <1>1
<1>3. \A i \in 1 .. Len(Tail(s)) : i + 1 \in 1 .. Len(s)
  BY <1>1
<1> QED  BY <1>1, <1>2, <1>3

LEMMA SentStream ==
    ASSUME Types, link, link' = link, buffer' = buffer, NEW s \in Seq(AllUnits), wire' = wire \o s
    PROVE  Stream' = Stream \o s /\ wire' \in Seq(AllUnits)
<1>1. buffer \in Seq(AllUnits) /\ wire \in Seq(AllUnits)
  BY DEF Types
<1>2. (buffer \o wire) \o s = buffer \o (wire \o s)
  BY <1>1, JoiningUnits, ZenonT(30)
<1>3. wire \o s \in Seq(AllUnits)
  BY <1>1, JoinedUnits
<1>4. Stream = buffer \o wire
  BY DEF Stream
<1>5. Stream' = buffer \o (wire \o s)
  BY DEF Stream
<1> QED  BY <1>2, <1>3, <1>4, <1>5

\* Whatever is sent, once it is clear what the invariant says of its contents.
LEMMA SendKeeps ==
    ASSUME IndInv, link, NEW s \in Seq(AllUnits), wire' = wire \o s, Aligned(s), s # <<>>,
           UNCHANGED <<link, budget, hole, log, stream, future, reader, excused>>,
           requests' \in Seq([kind : {"challenge", "log"}, read : Reads, nonce : Nat]),
           owed' \in BOOLEAN, nonce' \in Nat, challenges' \in Nat, served' \in [Reads -> Seq(Nat)]
    PROVE  /\ Types' /\ Readable(Stream)' /\ Stream' = Stream \o s /\ Future' = Future
           /\ Stream \in Seq(AllUnits) /\ Held(Future, Stream) /\ Whole(Future, Stream)
<1>1. /\ Types /\ Readable(Stream) /\ Stream \in Seq(AllUnits)
      /\ Held(Future, Stream) /\ Whole(Future, Stream)
  BY StreamOf DEF IndInv
<1>2. /\ UNCHANGED <<buffer, noise, garbled, answer, aggregated, read, step, at, attempt>>
      /\ UNCHANGED <<challenge, result>>
  BY DEF stream, future, reader
<1>3. Stream' = Stream \o s /\ wire' \in Seq(AllUnits)
  BY <1>1, <1>2, SentStream
<1>4. Future' = Future
  BY <1>2 DEF Future
<1>5. Types'
  <2>1. (~Complete(buffer))'
    BY <1>1, <1>2, StaysIncomplete DEF Types
  <2> QED  BY <1>1, <1>2, <1>3, <1>4, <2>1 DEF Types
<1>6. Readable(Stream)'
  <2>1. PICK p : p = Stream
    OBVIOUS
  <2>2. Aligned(p) => Aligned(p \o s)
    BY <1>1, <2>1, AlignedJoined
  <2>3. PICK t : t = p \o s
    OBVIOUS
  <2>4. Stream' = t
    BY <1>3, <2>1, <2>3
  <2> QED  BY <1>1, <1>2, <2>1, <2>2, <2>3, <2>4 DEF Readable
<1> QED  BY <1>1, <1>3, <1>4, <1>5, <1>6

\* A message that no read will take for a part of its answer.
LEMMA QuietSendKeeps ==
    ASSUME IndInv, link, NEW m \in Messages, Send(<<m>>),
           m.kind = "ERROR_REPORT" \/ (m.kind = "STATUS" /\ m.read = 0), m.read <= read,
           UNCHANGED <<link, budget, hole, log, nonce, challenges, served, stream, future, reader,
                       excused>>,
           requests' \in Seq([kind : {"challenge", "log"}, read : Reads, nonce : Nat]),
           \A i \in DOMAIN requests' : \E j \in DOMAIN requests : requests'[i] = requests[j],
           owed' \in BOOLEAN
    PROVE  IndInv'
<1> DEFINE s == Sent(<<m>>)
<1>1. /\ s \in Seq(AllUnits) /\ Aligned(s) /\ s # <<>>
      /\ \A i \in DOMAIN s : s[i].of = m
  BY SentOne
<1>2. wire' = wire \o s
  BY DEF Send
<1> HIDE DEF s
<1>3. nonce' \in Nat /\ challenges' \in Nat /\ served' \in [Reads -> Seq(Nat)]
  BY DEF IndInv, Types
<1>4. /\ Types' /\ Readable(Stream)' /\ Stream' = Stream \o s /\ Future' = Future
      /\ Stream \in Seq(AllUnits) /\ Held(Future, Stream) /\ Whole(Future, Stream)
  BY <1>1, <1>2, <1>3, SendKeeps
<1>5. UNCHANGED <<read, step, at, attempt, challenge, result>>
  BY DEF reader
<1>6. Types /\ Nonces /\ Results
  BY DEF IndInv
<1>7. Nonces'
  BY <1>5, <1>6 DEF Nonces
<1>8. Results'
  BY <1>5, <1>6 DEF Results
<1>9. PICK f, p, t : f = Future /\ p = Stream /\ t = p \o s
  OBVIOUS
<1>10. Stream' = t /\ Future' = f
  BY <1>4, <1>9
<1>11. \A i \in DOMAIN s : Quiet(s[i]) /\ s[i].of.read <= read
  BY <1>1 DEF Quiet, Is
<1>12. Held(Future, Stream)'
  <2>1. Held(f, t)
    BY <1>1, <1>4, <1>9, <1>11, QuietKeepsHeld
  <2> QED  BY <1>5, <1>10, <2>1, HeldStays
<1>13. Whole(Future, Stream)'
  <2>1. \A i \in DOMAIN s : ~IsAnswer(s[i])
    BY <1>11 DEF Quiet, IsAnswer, Is
  <2>2. Whole(f, t)
    BY <1>1, <1>4, <1>6, <1>9, <2>1, MoreKeepsWhole
  <2> QED  BY <1>5, <1>10, <2>2, WholeStays
<1> QED  BY <1>4, <1>7, <1>8, <1>12, <1>13 DEF IndInv, StreamInv, Held

LEMMA ActionCompletesKeeps == ASSUME IndInv, ActionCompletes PROVE IndInv'
<1> DEFINE m == Message("STATUS", 0, 0)
<1>1. /\ link /\ owed' = FALSE /\ Send(<<m>>)
      /\ UNCHANGED <<link, requests, budget, hole, log, nonce, challenges, served, stream, future,
                     reader, excused>>
  BY DEF ActionCompletes
<1>2. m \in Messages /\ m.kind = "STATUS" /\ m.read = 0
  <2>1. 0 \in 0 .. MaxReads
    OBVIOUS
  <2> QED  BY <2>1 DEF Message, Messages, Kinds
<1>3. m.read <= read
  <2>1. read \in 0 .. MaxReads
    BY DEF IndInv, Types
  <2> QED  BY <1>2, <2>1
<1>4. requests' \in Seq([kind : {"challenge", "log"}, read : Reads, nonce : Nat])
  BY <1>1 DEF IndInv, Types
<1> HIDE DEF m
<1> QED  BY <1>1, <1>2, <1>3, <1>4, QuietSendKeeps

\* The request that the Opener answers, and those it leaves.
LEMMA RequestTaken ==
    ASSUME Types, Nonces, requests # <<>>, requests' = Tail(requests)
    PROVE  LET q == Head(requests)
           IN  /\ q \in [kind : {"challenge", "log"}, read : Reads, nonce : Nat]
               /\ q.read <= read /\ (q.kind = "log" => q.nonce \in 1 .. challenges)
               /\ \E j \in DOMAIN requests : q = requests[j]
               /\ requests' \in Seq([kind : {"challenge", "log"}, read : Reads, nonce : Nat])
               /\ \A i \in DOMAIN requests' : \E j \in DOMAIN requests : requests'[i] = requests[j]
<1> DEFINE S == [kind : {"challenge", "log"}, read : Reads, nonce : Nat]
<1>1. requests \in Seq(S)
  BY DEF Types
<1> HIDE DEF S
<1>2. /\ Tail(requests) \in Seq(S) /\ Head(requests) \in S
      /\ 1 \in DOMAIN requests /\ Head(requests) = requests[1]
      /\ \A i \in DOMAIN Tail(requests) : \E j \in DOMAIN requests : Tail(requests)[i] = requests[j]
  BY <1>1, HeadOfRequests
<1>3. /\ Head(requests).read <= read
      /\ Head(requests).kind = "log" => Head(requests).nonce \in 1 .. challenges
  BY <1>2 DEF Nonces
<1> QED  BY <1>2, <1>3 DEF S

\* A request whose challenge is not the Opener's is refused.
LEMMA RefusalKeeps ==
    ASSUME IndInv, link, requests # <<>>, requests' = Tail(requests),
           Send(<<Message("ERROR_REPORT", Head(requests).read, 0)>>),
           UNCHANGED <<nonce, challenges, served>>,
           UNCHANGED <<link, budget, hole, log, owed, stream, future, reader, excused>>
    PROVE  IndInv'
<1> DEFINE q == Head(requests)
           m == Message("ERROR_REPORT", q.read, 0)
<1>1. /\ q.read \in Reads /\ q.read <= read
      /\ requests' \in Seq([kind : {"challenge", "log"}, read : Reads, nonce : Nat])
      /\ \A i \in DOMAIN requests' : \E j \in DOMAIN requests : requests'[i] = requests[j]
  BY RequestTaken DEF IndInv
<1> HIDE DEF q
<1>2. m \in Messages /\ m.kind = "ERROR_REPORT" /\ m.read = q.read
  <2>1. q.read \in 0 .. MaxReads
    BY <1>1, SMTT(30) DEF Reads
  <2> QED  BY <2>1 DEF Message, Messages, Kinds
<1>3. Send(<<m>>)
  BY DEF q
<1>4. owed' \in BOOLEAN
  BY DEF IndInv, Types
<1> HIDE DEF m
<1> QED  BY <1>1, <1>2, <1>3, <1>4, QuietSendKeeps

LEMMA MorePairs ==
    ASSUME NEW p \in Seq(AllUnits), NEW s \in Seq(AllUnits)
    PROVE  \A i, j \in DOMAIN (p \o s) : i < j =>
              \/ i \in DOMAIN p /\ j \in DOMAIN p
              \/ i \in DOMAIN p /\ \E y \in DOMAIN s : (p \o s)[j] = s[y]
              \/ \E x, y \in DOMAIN s : x < y /\ (p \o s)[i] = s[x] /\ (p \o s)[j] = s[y]
<1> DEFINE t == p \o s
           l == Len(p)
<1>1. \A i \in DOMAIN t : i \in DOMAIN p \/
         \E x \in DOMAIN s : i = l + x /\ t[i] = s[x] /\ \A j \in DOMAIN p : j < i
  BY MoreUnits
<1>2. l \in Nat /\ DOMAIN p \subseteq Nat /\ DOMAIN s \subseteq Nat
  OBVIOUS
<1> HIDE DEF t, l
<1>3. ASSUME NEW i \in DOMAIN t, NEW j \in DOMAIN t, i < j
      PROVE  \/ i \in DOMAIN p /\ j \in DOMAIN p
             \/ i \in DOMAIN p /\ \E y \in DOMAIN s : t[j] = s[y]
             \/ \E x, y \in DOMAIN s : x < y /\ t[i] = s[x] /\ t[j] = s[y]
  <2>1. CASE i \in DOMAIN p
    BY <1>1, <2>1
  <2>2. ASSUME NEW x \in DOMAIN s, i = l + x, t[i] = s[x], \A k \in DOMAIN p : k < i
        PROVE  \E y \in DOMAIN s : x < y /\ t[j] = s[y]
    <3>1. j \notin DOMAIN p
      <4> SUFFICES ASSUME j \in DOMAIN p PROVE FALSE
        OBVIOUS
      <4>1. j < l + x /\ l + x < j /\ j \in Nat /\ x \in Nat
        BY <1>2, <1>3, <2>2
      <4> QED  BY <1>2, <4>1, SMTT(30)
    <3>2. PICK y \in DOMAIN s : j = l + y /\ t[j] = s[y]
      BY <1>1, <3>1
    <3>3. l + x < l + y /\ x \in Nat /\ y \in Nat
      BY <1>2, <1>3, <2>2, <3>2
    <3>4. x < y
      BY <1>2, <3>3
    <3> QED  BY <3>2, <3>4
  <2> QED  BY <1>1, <2>1, <2>2
<1> QED  BY <1>3 DEF t

\* t has the units of p, and then those of s.
Joined(p, s, t) ==
    /\ \A i \in DOMAIN p : i \in DOMAIN t /\ t[i] = p[i]
    /\ \A i \in DOMAIN t : i \in DOMAIN p \/ \E x \in DOMAIN s : t[i] = s[x]
    /\ \A i, j \in DOMAIN t : i < j =>
         \/ i \in DOMAIN p /\ j \in DOMAIN p
         \/ i \in DOMAIN p /\ \E y \in DOMAIN s : t[j] = s[y]
         \/ \E x, y \in DOMAIN s : x < y /\ t[i] = s[x] /\ t[j] = s[y]

LEMMA JoinedPairs ==
    ASSUME NEW p \in Seq(AllUnits), NEW s \in Seq(AllUnits)
    PROVE  Joined(p, s, p \o s)
<1> DEFINE v == p \o s
<1>1. /\ \A i \in DOMAIN p : i \in DOMAIN v /\ v[i] = p[i]
      /\ \A i \in DOMAIN v : i \in DOMAIN p \/
           \E x \in DOMAIN s : i = Len(p) + x /\ v[i] = s[x] /\ \A j \in DOMAIN p : j < i
  BY MoreUnits
<1>2. \A i, j \in DOMAIN v : i < j =>
         \/ i \in DOMAIN p /\ j \in DOMAIN p
         \/ i \in DOMAIN p /\ \E y \in DOMAIN s : v[j] = s[y]
         \/ \E x, y \in DOMAIN s : x < y /\ v[i] = s[x] /\ v[j] = s[y]
  BY MorePairs
<1> HIDE DEF v
<1>3. \A i \in DOMAIN v : i \in DOMAIN p \/ \E x \in DOMAIN s : v[i] = s[x]
  BY <1>1
<1>4. Joined(p, s, v)
  BY <1>1, <1>2, <1>3 DEF Joined
<1> QED  BY <1>4 DEF v

\* A challenge is newer than all before it, and ends what the last one was good for.
LEMMA ChallengeSendKeeps ==
    ASSUME IndInv, link, requests # <<>>, requests' = Tail(requests),
           challenges' = challenges + 1, nonce' = challenges + 1, UNCHANGED served,
           Send(<<Message("CHALLENGE", Head(requests).read, challenges + 1)>>),
           UNCHANGED <<link, budget, hole, log, owed, stream, future, reader, excused>>
    PROVE  IndInv'
<1> DEFINE q == Head(requests)
           m == Message("CHALLENGE", q.read, challenges + 1)
           s == Sent(<<m>>)
<1>1. /\ q.read \in Reads /\ q.read <= read
      /\ requests' \in Seq([kind : {"challenge", "log"}, read : Reads, nonce : Nat])
      /\ \A i \in DOMAIN requests' : \E j \in DOMAIN requests : requests'[i] = requests[j]
  BY RequestTaken DEF IndInv
<1>2. wire' = wire \o s
  BY DEF Send
<1> HIDE DEF q
<1>3. Types /\ Nonces /\ Results
  BY DEF IndInv
<1>4. challenges \in Nat /\ challenge \in Nat /\ challenge <= challenges
  BY <1>3 DEF Types, Nonces
<1>5. /\ challenges + 1 \in Nat /\ challenges + 1 \in 1 .. challenges + 1
      /\ challenges + 1 > challenge /\ challenge <= challenges + 1 /\ challenge # challenges + 1
      /\ \A n \in 1 .. challenges : /\ n < challenges + 1 /\ challenges + 1 > n
                                    /\ n \in 1 .. challenges + 1 /\ n # challenges + 1
  BY <1>4
<1>6. m \in Messages /\ m.kind = "CHALLENGE" /\ m.read = q.read /\ m.n = challenges + 1
  <2>1. q.read \in 0 .. MaxReads
    BY <1>1, SMTT(30) DEF Reads
  <2> QED  BY <1>5, <2>1 DEF Message, Messages, Kinds
<1> HIDE DEF m
<1>7. /\ s \in Seq(AllUnits) /\ Aligned(s) /\ s # <<>>
      /\ \A i \in DOMAIN s : s[i].of = m /\ \A j \in DOMAIN s : i < j => s[i].at < s[j].at
  BY <1>6, SentOne
<1> HIDE DEF s
<1>8. nonce' \in Nat /\ challenges' \in Nat /\ served' \in [Reads -> Seq(Nat)] /\ owed' \in BOOLEAN
  BY <1>3, <1>5 DEF Types
<1>9. /\ Types' /\ Readable(Stream)' /\ Stream' = Stream \o s /\ Future' = Future
      /\ Stream \in Seq(AllUnits) /\ Held(Future, Stream) /\ Whole(Future, Stream)
  BY <1>1, <1>2, <1>7, <1>8, SendKeeps
<1>10. UNCHANGED <<read, step, at, attempt, challenge, result, excused>>
  BY DEF reader
<1>11. \A i \in DOMAIN requests' :
          /\ requests'[i].read <= read
          /\ requests'[i].kind = "log" => requests'[i].nonce \in 1 .. challenges
          /\ ~Alive(requests[i])'
  <2>1. \A i \in DOMAIN requests' :
           /\ requests'[i].read <= read
           /\ requests'[i].kind = "log" => requests'[i].nonce \in 1 .. challenges
    BY <1>1, <1>3 DEF Nonces
  <2> QED  BY <1>5, <2>1 DEF Alive
<1>12. Nonces'
  BY <1>3, <1>5, <1>10, <1>11 DEF Nonces
<1>13. Results'
  BY <1>3, <1>10 DEF Results
<1>14. PICK f, p, t : f = Future /\ p = Stream /\ t = p \o s
  OBVIOUS
<1>15. Stream' = t /\ Future' = f /\ p \in Seq(AllUnits) /\ Held(f, p) /\ Whole(f, p)
  BY <1>9, <1>14
<1>16. /\ \A i \in DOMAIN t : (i \in DOMAIN p /\ t[i] = p[i]) \/ t[i].of = m
       /\ \A i, j \in DOMAIN t : i < j =>
            \/ i \in DOMAIN p /\ j \in DOMAIN p /\ t[i] = p[i] /\ t[j] = p[j]
            \/ i \in DOMAIN p /\ t[i] = p[i] /\ t[j].of = m
            \/ t[i].of = m /\ t[j].of = m /\ t[i].at < t[j].at
  <2>1. Joined(p, s, t)
    BY <1>7, <1>14, <1>15, JoinedPairs
  <2> QED  BY <1>7, <2>1 DEF Joined
<1>17. \A u : u.of = m => Is(u, "CHALLENGE") /\ ~Is(u, "LOG_ENTRY") /\ ~IsAnswer(u)
  BY <1>6 DEF Is, IsAnswer
<1>18. Held(Future, Stream)'
  <2>1. Sound(t)'
    BY <1>1, <1>5, <1>6, <1>10, <1>15, <1>16, <1>17 DEF Held, Sound
  <2>2. InSequence(t)'
    <3>1. \A i \in DOMAIN p : Is(p[i], "CHALLENGE") => p[i].of.n < challenges + 1
      BY <1>5, <1>15 DEF Held, Sound
    <3>2. ASSUME NEW i \in DOMAIN t, NEW j \in DOMAIN t, i < j
          PROVE  /\ Is(t[i], "LOG_ENTRY") /\ Is(t[j], "LOG_ENTRY") /\ t[i].of.read = t[j].of.read =>
                      t[i].of.n > t[j].of.n \/ (t[i].of = t[j].of /\ t[i].at < t[j].at)
                 /\ Is(t[i], "CHALLENGE") /\ Is(t[j], "CHALLENGE") =>
                      t[i].of.n < t[j].of.n \/ (t[i].of = t[j].of /\ t[i].at < t[j].at)
                 /\ Is(t[i], "CHALLENGE") => ~IsAnswer(t[j])
      <4>1. CASE i \in DOMAIN p /\ j \in DOMAIN p /\ t[i] = p[i] /\ t[j] = p[j]
        BY <1>15, <3>2, <4>1 DEF Held, InSequence
      <4>2. CASE i \in DOMAIN p /\ t[i] = p[i] /\ t[j].of = m
        BY <1>6, <1>17, <3>1, <4>2
      <4>3. CASE t[i].of = m /\ t[j].of = m /\ t[i].at < t[j].at
        BY <1>17, <4>3
      <4> QED  BY <1>16, <3>2, <4>1, <4>2, <4>3
    <3> QED  BY <3>2 DEF InSequence
  <2>3. Fresh(f, t)'
    <3>1. (step = "challenge" /\ at # "issue" /\ f.answer.is = "ok")
            => challenges + 1 > f.answer.nonce
      BY <1>5, <1>15 DEF Held, Own
    <3>2. \A j \in DOMAIN requests' : requests'[j].kind = "log"
                                        => challenges + 1 > requests'[j].nonce
      BY <1>5, <1>11
    <3>3. ASSUME NEW i \in DOMAIN t, Is(t[i], "CHALLENGE")
          PROVE  /\ t[i].of.n > challenge
                 /\ (step = "challenge" /\ at # "issue" /\ f.answer.is = "ok")
                      => t[i].of.n > f.answer.nonce
                 /\ \A j \in DOMAIN requests' : requests'[j].kind = "log"
                                                => t[i].of.n > requests'[j].nonce
      <4>1. CASE i \in DOMAIN p /\ t[i] = p[i]
        BY <1>1, <1>15, <3>3, <4>1 DEF Held, Fresh
      <4>2. CASE t[i].of = m
        BY <1>5, <1>6, <3>1, <3>2, <4>2
      <4> QED  BY <1>16, <4>1, <4>2
    <3> QED  BY <1>10, <3>3 DEF Fresh
  <2>4. Own(f, t)'
    <3>1. Clear(p) => Clear(t)'
      BY <1>11, <1>16, <1>17 DEF Clear
    <3>2. (step = "challenge" /\ at # "issue" /\ f.answer.is = "ok")
            => Clear(p) /\ f.answer.nonce \in 1 .. challenges + 1
      BY <1>5, <1>15 DEF Held, Own
    <3> QED  BY <1>10, <1>11, <1>15, <1>16, <1>17, <3>1, <3>2 DEF Held, Own, LogAsked
  <2>5. Collected(f, t)'
    BY <1>10, <1>15, <1>16, <1>17 DEF Held, Collected, LogAsked
  <2>6. AnsweredOnce(f, t)'
    BY <1>5, <1>10, <1>11 DEF AnsweredOnce
  <2> QED  BY <1>15, <2>1, <2>2, <2>3, <2>4, <2>5, <2>6 DEF Held
<1>19. Whole(Future, Stream)'
  <2>1. \A i \in DOMAIN s : ~IsAnswer(s[i])
    BY <1>7, <1>17
  <2>2. Whole(f, t)
    BY <1>3, <1>7, <1>14, <1>15, <2>1, MoreKeepsWhole
  <2> QED  BY <1>10, <1>15, <2>2, WholeStays
<1> QED  BY <1>9, <1>12, <1>13, <1>18, <1>19 DEF IndInv, StreamInv, Held

\* The message k + 1 of an answer with the entries e.
PartOf(e, r, k) ==
    IF k < Len(e) THEN Message("LOG_ENTRY", r, e[k + 1]) ELSE Message("STATUS", r, 0)

LEMMA NewestEntries ==
    ASSUME log \in Nat
    PROVE  Newest \in Seq(Nat) /\ Descending(Newest)
<1> DEFINE z == IF Count < log THEN Count ELSE log
<1>1. z \in Nat /\ z <= log
  OBVIOUS
<1>2. Newest = [i \in 1 .. z |-> log + 1 - i]
  BY DEF Newest
<1> HIDE DEF z
<1>3. \A i \in 1 .. z : log + 1 - i \in Nat
  BY <1>1
<1>4. \A i, j \in 1 .. z : i < j => log + 1 - i > log + 1 - j
  BY <1>1
<1>5. Newest \in Seq(Nat)
  BY <1>1, <1>2, <1>3
<1>6. Descending(Newest)
  BY <1>2, <1>4 DEF Descending
<1> QED  BY <1>5, <1>6

\* The messages of an answer.
Reply(r, e) ==
    [i \in DOMAIN e |-> Message("LOG_ENTRY", r, e[i])] \o <<Message("STATUS", r, 0)>>

LEMMA AnswerMessages ==
    ASSUME NEW r \in Reads, NEW e \in Seq(Nat)
    PROVE  /\ Reply(r, e) \in Seq(Messages) /\ Len(Reply(r, e)) = Len(e) + 1
           /\ \A i \in 1 .. Len(Reply(r, e)) : Reply(r, e)[i] = PartOf(e, r, i - 1)
<1> DEFINE ms == Reply(r, e)
<1> HIDE DEF ms
<1> DEFINE a == [i \in DOMAIN e |-> Message("LOG_ENTRY", r, e[i])]
           z == Message("STATUS", r, 0)
           l == Len(e)
<1>1. r \in 0 .. MaxReads
  BY DEF Reads
<1>2. l \in Nat /\ DOMAIN e = 1 .. l /\ \A i \in 1 .. l : e[i] \in Nat
  OBVIOUS
<1>3. z \in Messages /\ \A n \in Nat : Message("LOG_ENTRY", r, n) \in Messages
  BY <1>1 DEF Message, Messages, Kinds
<1> HIDE DEF z
<1>4. a = [i \in 1 .. l |-> Message("LOG_ENTRY", r, e[i])]
  BY <1>2
<1>5. \A i \in 1 .. l : Message("LOG_ENTRY", r, e[i]) \in Messages
  BY <1>2, <1>3
<1> HIDE DEF a, l
<1>6. /\ a \in [1 .. l -> Messages] /\ l \in Nat
      /\ \A i \in 1 .. l : a[i] = Message("LOG_ENTRY", r, e[i])
  BY <1>2, <1>4, <1>5
<1> DEFINE S == Messages
<1> HIDE DEF S
<1>7. a \in Seq(S) /\ Len(a) = l
  BY <1>6 DEF S
<1>8. ms = Append(a, z)
  <2>1. a \o <<z>> = Append(a, z)
    BY <1>3, <1>7 DEF S
  <2> QED  BY <2>1 DEF a, z, ms, Reply
<1>9. /\ ms \in Seq(S) /\ Len(ms) = l + 1
      /\ \A i \in 1 .. l : ms[i] = a[i]
      /\ ms[l + 1] = z
  <2>1. z \in S
    BY <1>3 DEF S
  <2>2. /\ Append(a, z) \in Seq(S) /\ Len(Append(a, z)) = Len(a) + 1
        /\ \A i \in 1 .. Len(a) : Append(a, z)[i] = a[i]
        /\ Append(a, z)[Len(a) + 1] = z
    BY <1>7, <2>1, AppendProperties
  <2> DEFINE b == Append(a, z)
  <2> HIDE DEF b
  <2>3. /\ b \in Seq(S) /\ Len(b) = Len(a) + 1
        /\ \A i \in 1 .. Len(a) : b[i] = a[i]
        /\ b[Len(a) + 1] = z /\ ms = b
    BY <1>8, <2>2 DEF b
  <2> QED  BY <1>7, <2>3, Zenon
<1>10. ASSUME NEW i \in 1 .. l + 1
       PROVE  ms[i] = PartOf(e, r, i - 1)
  <2>1. CASE i \in 1 .. l
    <3>1. i - 1 < l /\ (i - 1) + 1 = i
      BY <1>6, <2>1
    <3> QED  BY <1>6, <1>9, <2>1, <3>1 DEF PartOf, l
  <2>2. CASE i = l + 1
    <3>1. ~(i - 1 < l)
      BY <1>6, <2>2
    <3> QED  BY <1>9, <2>2, <3>1 DEF PartOf, l, z
  <2>3. i \in 1 .. l \/ i = l + 1
    BY <1>6
  <2> QED  BY <2>1, <2>2, <2>3
<1>11. /\ ms \in Seq(Messages) /\ Len(ms) = Len(e) + 1
       /\ \A i \in 1 .. Len(ms) : ms[i] = PartOf(e, r, i - 1)
  BY <1>9, <1>10 DEF l, S
<1> QED  BY <1>11, Zenon DEF ms

\* No two messages of an answer are the same.
LEMMA PartsDiffer ==
    ASSUME NEW e \in Seq(Nat), Descending(e), NEW r,
           NEW j \in 0 .. Len(e), NEW k \in 0 .. Len(e), PartOf(e, r, j) = PartOf(e, r, k)
    PROVE  j = k
<1> DEFINE l == Len(e)
<1>1. l \in Nat /\ DOMAIN e = 1 .. l /\ j \in 0 .. l /\ k \in 0 .. l
  OBVIOUS
<1>2. \A i \in 0 .. l : /\ PartOf(e, r, i).kind = IF i < l THEN "LOG_ENTRY" ELSE "STATUS"
                        /\ i < l => PartOf(e, r, i).n = e[i + 1]
  BY DEF PartOf, Message
<1>3. \A i \in 1 .. l : e[i] \in Nat
  BY SMTT(30)
<1> HIDE DEF l
<1>4. \A a, b \in 1 .. l : a < b => e[a] # e[b]
  <2> TAKE a, b \in 1 .. l
  <2>1. a < b => e[a] > e[b]
    BY <1>1 DEF Descending
  <2> QED  BY <1>3, <2>1
<1>5. CASE j < l /\ k < l
  <2>1. j + 1 \in 1 .. l /\ k + 1 \in 1 .. l
    BY <1>1, <1>5, SMTT(30)
  <2>2. e[j + 1] = e[k + 1]
    <3>1. PartOf(e, r, j).n = e[j + 1] /\ PartOf(e, r, k).n = e[k + 1]
      BY <1>1, <1>2, <1>5, Zenon
    <3> QED  BY <3>1, Zenon
  <2>3. ~(j + 1 < k + 1) /\ ~(k + 1 < j + 1)
    BY <1>4, <2>1, <2>2
  <2> QED  BY <1>1, <2>3
<1>6. CASE ~(j < l) /\ ~(k < l)
  BY <1>1, <1>6
<1>7. j < l <=> k < l
  BY <1>1, <1>2
<1> QED  BY <1>5, <1>6, <1>7

\* The units of the answer with the entries e.
AnswerOf(s, r, e) ==
    /\ s[1] = [of |-> PartOf(e, r, 0), at |-> 1]
    /\ \A i \in DOMAIN s :
         /\ s[i].of.read = r /\ IsAnswer(s[i]) /\ ~Is(s[i], "CHALLENGE")
         /\ Is(s[i], "LOG_ENTRY") => s[i].of.n \in Elements(e)
         /\ s[i].at < Size(s[i].of) =>
              i < Len(s) /\ s[i + 1] = [of |-> s[i].of, at |-> s[i].at + 1]
         /\ \A k \in DOMAIN e : s[i] = [of |-> PartOf(e, r, k - 1), at |-> Size(s[i].of)] =>
              i < Len(s) /\ s[i + 1] = [of |-> PartOf(e, r, k), at |-> 1]
         /\ \A j \in DOMAIN s : i < j /\ Is(s[i], "LOG_ENTRY") /\ Is(s[j], "LOG_ENTRY") =>
              s[i].of.n > s[j].of.n \/ (s[i].of = s[j].of /\ s[i].at < s[j].at)

LEMMA AnswerUnits ==
    ASSUME NEW r \in Reads, NEW e \in Seq(Nat), Descending(e), NEW ms \in Seq(Messages),
           Len(ms) = Len(e) + 1, \A i \in 1 .. Len(ms) : ms[i] = PartOf(e, r, i - 1),
           NEW s, NEW c, Sends(s, c, ms, Len(ms))
    PROVE  AnswerOf(s, r, e)
<1> DEFINE l == Len(e)
<1>1. /\ l \in Nat /\ DOMAIN e = 1 .. l /\ Len(ms) = l + 1 /\ Len(ms) > 0
      /\ DOMAIN s = 1 .. Len(s) /\ Len(s) \in Nat
      /\ \A i \in DOMAIN s : c[i] \in 1 .. l + 1
  BY DEF Sends
<1>2. \A i \in 1 .. l : e[i] \in Elements(e) /\ e[i] \in Nat
  <2>1. \A i \in DOMAIN e : e[i] \in Elements(e)
    BY Zenon DEF Elements
  <2>2. \A i \in DOMAIN e : e[i] \in Nat
    OBVIOUS
  <2> QED  BY <1>1, <2>1, <2>2, Zenon
<1>3. \A k \in 0 .. l : PartOf(e, r, k) =
         IF k < l THEN Message("LOG_ENTRY", r, e[k + 1]) ELSE Message("STATUS", r, 0)
  BY DEF PartOf
<1>4. s[1] = [of |-> PartOf(e, r, 0), at |-> 1]
  <2>1. s[1] = [of |-> ms[1], at |-> 1]
    BY <1>1, Zenon DEF Sends
  <2>2. 1 \in 1 .. Len(ms) /\ 1 - 1 = 0
    BY <1>1
  <2> QED  BY <2>1, <2>2
<1> HIDE DEF l
<1>5. ASSUME NEW i \in DOMAIN s
      PROVE  /\ c[i] \in 1 .. l + 1 /\ s[i].of = PartOf(e, r, c[i] - 1)
             /\ s[i].of.read = r /\ IsAnswer(s[i]) /\ ~Is(s[i], "CHALLENGE")
             /\ Is(s[i], "LOG_ENTRY") => c[i] \in 1 .. l /\ s[i].of.n = e[c[i]]
  <2>1. s[i].of = ms[c[i]]
    BY <1>1, Zenon DEF Sends
  <2>2. c[i] \in 1 .. l + 1
    BY <1>1
  <2>3. ms[c[i]] = PartOf(e, r, c[i] - 1)
    BY <1>1, <2>2
  <2>4. PICK x : x = c[i]
    OBVIOUS
  <2>5. x - 1 \in 0 .. l /\ (x - 1) + 1 = x /\ (x - 1 < l => x \in 1 .. l)
    <3>1. l \in Nat /\ x \in 1 .. l + 1
      BY <1>1, <2>2, <2>4
    <3> QED  BY <3>1
  <2>6. s[i].of = IF x - 1 < l THEN Message("LOG_ENTRY", r, e[x]) ELSE Message("STATUS", r, 0)
    BY <1>3, <2>1, <2>3, <2>4, <2>5, Zenon
  <2>7. r # 0
    BY DEF Reads
  <2>8. CASE x - 1 < l
    <3>1. s[i].of = [kind |-> "LOG_ENTRY", read |-> r, n |-> e[x]]
      BY <2>6, <2>8, Zenon DEF Message
    <3>2. /\ s[i].of.read = r /\ IsAnswer(s[i]) /\ ~Is(s[i], "CHALLENGE")
          /\ x \in 1 .. l /\ s[i].of.n = e[x]
      BY <2>5, <2>8, <3>1 DEF Is, IsAnswer
    <3> QED  BY <2>1, <2>2, <2>3, <2>4, <3>2, Zenon
  <2>9. CASE ~(x - 1 < l)
    <3>1. s[i].of = [kind |-> "STATUS", read |-> r, n |-> 0]
      BY <2>6, <2>9, Zenon DEF Message
    <3>2. /\ s[i].of.read = r /\ IsAnswer(s[i]) /\ ~Is(s[i], "CHALLENGE")
          /\ ~Is(s[i], "LOG_ENTRY")
      BY <2>7, <3>1 DEF Is, IsAnswer
    <3> QED  BY <2>1, <2>2, <2>3, <2>4, <3>2, Zenon
  <2> QED  BY <2>8, <2>9, Zenon
<1>6. ASSUME NEW i \in DOMAIN s
      PROVE  /\ Is(s[i], "LOG_ENTRY") => s[i].of.n \in Elements(e)
             /\ s[i].at < Size(s[i].of) =>
                  i < Len(s) /\ s[i + 1] = [of |-> s[i].of, at |-> s[i].at + 1]
  <2>1. s[i].at < Size(s[i].of) =>
          i < Len(s) /\ s[i + 1] = [of |-> s[i].of, at |-> s[i].at + 1]
    BY <1>1, Zenon DEF Sends
  <2> QED  BY <1>2, <1>5, <2>1
<1>7. ASSUME NEW i \in DOMAIN s, NEW k \in DOMAIN e,
             s[i] = [of |-> PartOf(e, r, k - 1), at |-> Size(s[i].of)]
      PROVE  i < Len(s) /\ s[i + 1] = [of |-> PartOf(e, r, k), at |-> 1]
  <2>1. c[i] - 1 = k - 1
    <3>1. c[i] - 1 \in 0 .. l /\ k - 1 \in 0 .. l
      <4>1. PICK x : x = c[i]
        OBVIOUS
      <4>2. x \in 1 .. l + 1 /\ k \in 1 .. l /\ l \in Nat
        BY <1>1, <1>5, <4>1
      <4>3. x - 1 \in 0 .. l /\ k - 1 \in 0 .. l
        BY <4>2, SMTT(30)
      <4> QED  BY <4>1, <4>3
    <3>2. PartOf(e, r, c[i] - 1) = PartOf(e, r, k - 1)
      <4>1. s[i].of = PartOf(e, r, k - 1)
        BY <1>7
      <4> QED  BY <1>5, <4>1
    <3> QED  BY <3>1, <3>2, PartsDiffer DEF l
  <2>2. c[i] = k /\ k < l + 1 /\ k + 1 \in 1 .. l + 1 /\ (k + 1) - 1 = k
    <3>1. PICK x : x = c[i]
      OBVIOUS
    <3>2. x \in 1 .. l + 1 /\ k \in 1 .. l /\ l \in Nat /\ x - 1 = k - 1
      BY <1>1, <1>5, <2>1, <3>1
    <3>3. x = k
      <4>1. x \in Nat /\ k \in Nat /\ x - 1 = k - 1
        BY <3>2
      <4> QED  BY <4>1
    <3>4. l \in Nat /\ k \in 1 .. l
      BY <3>2
    <3>5. k < l + 1 /\ k + 1 \in 1 .. l + 1 /\ (k + 1) - 1 = k
      BY <3>4, SMTT(30)
    <3> QED  BY <3>1, <3>3, <3>5
  <2>3. s[i].at = Size(s[i].of)
    BY <1>7
  <2>4. IF i = Len(s) THEN c[i] = Len(ms)
        ELSE c[i] < Len(ms) /\ s[i + 1] = [of |-> ms[c[i] + 1], at |-> 1]
    BY <1>1, <2>3, Zenon DEF Sends
  <2>5. i # Len(s)
    BY <1>1, <2>2, <2>4
  <2>6. i < Len(s)
    BY <1>1, <2>5, SMTT(30)
  <2>7. ms[k + 1] = PartOf(e, r, k)
    BY <1>1, <2>2
  <2> QED  BY <2>2, <2>4, <2>5, <2>6, <2>7
<1>8. ASSUME NEW i \in DOMAIN s, NEW j \in DOMAIN s, i < j,
             Is(s[i], "LOG_ENTRY"), Is(s[j], "LOG_ENTRY")
      PROVE  s[i].of.n > s[j].of.n \/ (s[i].of = s[j].of /\ s[i].at < s[j].at)
  <2>1. c[i] < c[j] \/ (c[i] = c[j] /\ s[i].at < s[j].at)
    BY <1>1, <1>8, Zenon DEF Sends
  <2>2. CASE c[i] < c[j]
    <3>1. c[i] \in DOMAIN e /\ c[j] \in DOMAIN e /\ s[i].of.n = e[c[i]] /\ s[j].of.n = e[c[j]]
      BY <1>1, <1>5, <1>8
    <3> QED  BY <2>2, <3>1 DEF Descending
  <2>3. CASE c[i] = c[j] /\ s[i].at < s[j].at
    BY <1>5, <2>3
  <2> QED  BY <2>1, <2>2, <2>3
<1> QED  BY <1>4, <1>5, <1>6, <1>7, <1>8, Zenon DEF AnswerOf

LEMMA AnswerIsRest ==
    ASSUME NEW f, NEW p \in Seq(AllUnits), NEW s \in Seq(AllUnits), s # <<>>,
           NEW e \in Seq(Nat), NEW r, AnswerOf(s, r, e), read' = r, served'[r] = e,
           \A i \in DOMAIN p : ~IsAnswer(p[i]), f.aggregated = <<>>
    PROVE  Rest(f, p \o s)'
<1> DEFINE t == p \o s
           l == Len(p)
           z == Len(s)
<1>1. /\ t \in Seq(AllUnits) /\ Len(t) = l + z /\ l \in Nat /\ z \in Nat
      /\ \A i \in 1 .. l : t[i] = p[i]
      /\ \A x \in 1 .. z : t[l + x] = s[x]
  BY JoinedUnits
<1>2. DOMAIN t = 1 .. Len(t) /\ DOMAIN p = 1 .. l /\ DOMAIN s = 1 .. z /\ 1 \in 1 .. z
  BY <1>1
<1>3. l \in Nat /\ z \in Nat /\ Len(t) = l + z
  BY <1>1
<1>4. Len(f.aggregated) = 0 /\ DOMAIN f.aggregated = {}
  OBVIOUS
<1>5. Len(e) \in Nat
  OBVIOUS
<1>6. \A i \in DOMAIN t : i \in DOMAIN p \/ \E x \in DOMAIN s : i = l + x
  BY MoreUnits
<1> HIDE DEF t, l, z
<1>7. ASSUME NEW i \in DOMAIN t, IsAnswer(t[i])
      PROVE  /\ (\A j \in 1 .. i - 1 : ~IsAnswer(t[j])) =>
                   t[i] = [of |-> PartOf(e, r, 0), at |-> 1]
             /\ t[i].at < Size(t[i].of) =>
                   i < Len(t) /\ t[i + 1] = [of |-> t[i].of, at |-> t[i].at + 1]
             /\ \A k \in DOMAIN e : t[i] = [of |-> PartOf(e, r, k - 1), at |-> Size(t[i].of)] =>
                   i < Len(t) /\ t[i + 1] = [of |-> PartOf(e, r, k), at |-> 1]
  <2>1. PICK x \in 1 .. z : i = l + x
    <3>1. i \notin 1 .. l
      BY <1>1, <1>2, <1>7
    <3> QED  BY <1>2, <1>6, <3>1, Zenon
  <2>2. t[i] = s[x]
    BY <1>1, <2>1
  <2>3. x < z => i < Len(t) /\ t[i + 1] = s[x + 1]
    <3>1. x < z => x + 1 \in 1 .. z /\ l + x < l + z /\ (l + x) + 1 = l + (x + 1)
      BY <1>3, <2>1
    <3>2. x < z => t[l + (x + 1)] = s[x + 1]
      BY <1>1, <3>1
    <3> QED  BY <1>3, <2>1, <3>1, <3>2
  <2>4. /\ s[1] = [of |-> PartOf(e, r, 0), at |-> 1] /\ IsAnswer(s[1])
        /\ s[x].at < Size(s[x].of) => x < z /\ s[x + 1] = [of |-> s[x].of, at |-> s[x].at + 1]
        /\ \A k \in DOMAIN e : s[x] = [of |-> PartOf(e, r, k - 1), at |-> Size(s[x].of)] =>
              x < z /\ s[x + 1] = [of |-> PartOf(e, r, k), at |-> 1]
    BY <1>2, Zenon DEF AnswerOf, z
  <2>5. (\A j \in 1 .. i - 1 : ~IsAnswer(t[j])) => x = 1
    <3> SUFFICES ASSUME x # 1 PROVE \E j \in 1 .. i - 1 : IsAnswer(t[j])
      OBVIOUS
    <3>1. l + 1 \in 1 .. (l + x) - 1
      <4>1. l \in Nat /\ x \in Nat /\ x >= 1 /\ x # 1
        BY <1>3
      <4> QED  BY <4>1, SMTT(30)
    <3>2. t[l + 1] = s[1]
      BY <1>1, <1>2
    <3> QED  BY <2>1, <2>4, <3>1, <3>2
  <2> QED  BY <2>2, <2>3, <2>4, <2>5
<1>8. Rest(f, t)'
  <2>1. Len(f.aggregated) <= Len(e)
    BY <1>4, <1>5
  <2>2. \A k \in DOMAIN f.aggregated : f.aggregated[k] = e[k]
    BY <1>4
  <2>3. Rest(f, t)' <=>
          /\ Len(f.aggregated) <= Len(e)
          /\ \A k \in DOMAIN f.aggregated : f.aggregated[k] = e[k]
          /\ \A i \in DOMAIN t : IsAnswer(t[i]) =>
               /\ (\A j \in 1 .. i - 1 : ~IsAnswer(t[j])) =>
                    t[i] = [of |-> PartOf(e, r, Len(f.aggregated)), at |-> 1]
               /\ t[i].at < Size(t[i].of) =>
                    i < Len(t) /\ t[i + 1] = [of |-> t[i].of, at |-> t[i].at + 1]
               /\ \A k \in DOMAIN e :
                    t[i] = [of |-> PartOf(e, r, k - 1), at |-> Size(t[i].of)] =>
                       i < Len(t) /\ t[i + 1] = [of |-> PartOf(e, r, k), at |-> 1]
    BY SMTT(30) DEF Rest, Part, PartOf, IsAnswer, Is
  <2> QED  BY <1>7, <2>1, <2>2, <2>3, Zenon
<1> QED  BY <1>8 DEF t

\* The entries go out, and no other request is good any more.
LEMMA LogSendKeeps ==
    ASSUME IndInv, link, requests # <<>>, requests' = Tail(requests), UNCHANGED challenges,
           Head(requests).kind = "log", Head(requests).nonce = nonce,
           nonce' = 0, served' = [served EXCEPT ![Head(requests).read] = Newest],
           Send([i \in DOMAIN Newest |-> Message("LOG_ENTRY", Head(requests).read, Newest[i])]
                  \o <<Message("STATUS", Head(requests).read, 0)>>),
           UNCHANGED <<link, budget, hole, log, owed, stream, future, reader, excused>>
    PROVE  IndInv'
<1>1. PICK q, r, e, ms :
        q = Head(requests) /\ r = q.read /\ e = Newest /\ ms = Reply(r, e)
  OBVIOUS
<1>2. Types /\ Nonces /\ Results
  BY DEF IndInv
<1>3. /\ q \in [kind : {"challenge", "log"}, read : Reads, nonce : Nat] /\ r \in Reads
      /\ r <= read /\ q.kind = "log" /\ q.nonce = nonce /\ nonce \in 1 .. challenges
      /\ \E j \in DOMAIN requests : q = requests[j]
      /\ requests' \in Seq([kind : {"challenge", "log"}, read : Reads, nonce : Nat])
      /\ \A i \in DOMAIN requests' : \E j \in DOMAIN requests : requests'[i] = requests[j]
  BY <1>1, <1>2, RequestTaken
<1>4. e \in Seq(Nat) /\ Descending(e)
  BY <1>1, <1>2, NewestEntries DEF Types
<1> DEFINE s == Sent(ms)
<1>5. /\ ms \in Seq(Messages) /\ Len(ms) = Len(e) + 1
      /\ \A i \in 1 .. Len(ms) : ms[i] = PartOf(e, r, i - 1)
  <2>1. r \in Reads
    BY <1>3
  <2>2. e \in Seq(Nat)
    BY <1>4
  <2>3. /\ Reply(r, e) \in Seq(Messages) /\ Len(Reply(r, e)) = Len(e) + 1
        /\ \A i \in 1 .. Len(Reply(r, e)) : Reply(r, e)[i] = PartOf(e, r, i - 1)
    BY <2>1, <2>2, AnswerMessages, Zenon
  <2>4. ms = Reply(r, e)
    BY <1>1
  <2> QED  BY <2>3, <2>4, Zenon
<1>6. wire' = wire \o s
  BY <1>1, Zenon DEF Send, Reply
<1>7. PICK c : Sends(s, c, ms, Len(ms))
  BY <1>5, SentUnits
<1> HIDE DEF s
<1>8. s \in Seq(AllUnits) /\ Aligned(s) /\ s # <<>> /\ AnswerOf(s, r, e)
  <2>1. Len(ms) > 0
    BY <1>4, <1>5
  <2>2. s \in Seq(AllUnits)
    BY <1>7, Zenon DEF Sends
  <2>3. Aligned(s) /\ s # <<>>
    BY <1>7, <2>1, SentAligned
  <2>4. AnswerOf(s, r, e)
    BY <1>3, <1>4, <1>5, <1>7, AnswerUnits, Zenon
  <2> QED  BY <2>2, <2>3, <2>4
<1>9. served' = [served EXCEPT ![r] = e]
  BY <1>1
<1>10. /\ served' \in [Reads -> Seq(Nat)] /\ served'[r] = e
       /\ \A x \in Reads : x # r => served'[x] = served[x]
  <2> DEFINE S == Seq(Nat)
  <2>1. e \in S /\ served \in [Reads -> S] /\ r \in Reads
    BY <1>2, <1>3, <1>4 DEF Types
  <2> HIDE DEF S
  <2>2. served' \in [Reads -> S] /\ served'[r] = e
    BY <1>9, <2>1
  <2>3. \A x \in Reads : x # r => served'[x] = served[x]
    BY <1>9, <2>1
  <2> QED  BY <2>2, <2>3 DEF S
<1>11. nonce' \in Nat /\ challenges' \in Nat /\ owed' \in BOOLEAN
  BY <1>2 DEF Types
<1>12. /\ Types' /\ Readable(Stream)' /\ Stream' = Stream \o s /\ Future' = Future
       /\ Stream \in Seq(AllUnits) /\ Held(Future, Stream)
  BY <1>3, <1>6, <1>8, <1>10, <1>11, SendKeeps
<1>13. UNCHANGED <<read, step, at, attempt, challenge, result, excused>>
  BY DEF reader
<1>14. PICK f, p, t : f = Future /\ p = Stream /\ t = p \o s
  OBVIOUS
<1>15. Stream' = t /\ Future' = f /\ p \in Seq(AllUnits) /\ Held(f, p)
  BY <1>12, <1>14
<1>16. PICK j \in DOMAIN requests : requests[j] = q /\ Alive(requests[j])
  BY <1>3 DEF Alive
<1>17. Joined(p, s, t)
  BY <1>8, <1>14, <1>15, JoinedPairs
\* The request was not answered before, and its challenge is the last.
<1>18. ~Answered(r, f, p)
  BY <1>1, <1>3, <1>15, <1>16 DEF Held, AnsweredOnce
<1>19. /\ \A i \in DOMAIN p : IsAnswer(p[i]) => p[i].of.read # r
       /\ result[r].entries = <<>> /\ ~(result[r].ok /\ result[r].by = r)
       /\ r = read /\ LogAsked => f.aggregated = <<>> /\ ~(f.answer.is = "ok" /\ f.answer.by = r)
  BY <1>18, Zenon DEF Answered
<1>20. \A i \in DOMAIN p : ~Is(p[i], "CHALLENGE")
  <2> SUFFICES ASSUME NEW i \in DOMAIN p, Is(p[i], "CHALLENGE") PROVE FALSE
    OBVIOUS
  <2>1. p[i].of.n > nonce /\ p[i].of.n \in 1 .. challenges
    BY <1>3, <1>15, <1>16, ZenonT(30) DEF Held, Fresh, Sound
  <2>2. nonce = challenges /\ challenges \in Nat
    BY <1>2, <1>3 DEF Nonces, Types
  <2> QED  BY <2>1, <2>2
<1>21. ~Clear(p)
  BY <1>16 DEF Clear
<1>22. /\ ~(step = "challenge" /\ at # "issue" /\ f.answer.is = "ok")
       /\ ~(step = "log" /\ at # "wait")
       /\ step = "log" => r = read /\ \A i \in DOMAIN p : ~IsAnswer(p[i])
  <2>1. /\ ~(step = "challenge" /\ at # "issue" /\ f.answer.is = "ok")
        /\ ~(step = "log" /\ at # "wait")
    BY <1>15, <1>21 DEF Held, Own
  <2>2. step = "log" => r = read
    BY <1>1, <1>15, <1>16 DEF Held, Own
  <2>3. step = "log" => \A i \in DOMAIN p : IsAnswer(p[i]) => p[i].of.read = read
    BY <1>15 DEF Held, Own
  <2> QED  BY <1>19, <2>1, <2>2, <2>3
<1>23. \A i \in DOMAIN requests' : ~Alive(requests[i])'
  <2> SUFFICES ASSUME NEW i \in DOMAIN requests', requests'[i].kind = "log",
                      requests'[i].nonce = 0
               PROVE  FALSE
    BY DEF Alive
  <2>1. requests'[i].nonce \in 1 .. challenges
    BY <1>2, <1>3 DEF Nonces
  <2> QED  BY <2>1
<1>24. Nonces'
  <2>1. \A i \in DOMAIN requests' :
           /\ requests'[i].read <= read
           /\ requests'[i].kind = "log" => requests'[i].nonce \in 1 .. challenges
    <3> TAKE i \in DOMAIN requests'
    <3>1. PICK k \in DOMAIN requests : requests'[i] = requests[k]
      BY <1>3
    <3>2. /\ requests[k].read <= read
          /\ requests[k].kind = "log" => requests[k].nonce \in 1 .. challenges
      BY <1>2, Zenon DEF Nonces
    <3> QED  BY <3>1, <3>2, Zenon
  <2>2. /\ nonce' \in {0, challenges} /\ challenge <= challenges
        /\ step = "log" => challenge # 0
    BY <1>2 DEF Nonces
  <2> QED  BY <1>13, <2>1, <2>2 DEF Nonces
<1>25. Results'
  <2> SUFFICES ASSUME NEW x \in Reads
               PROVE  /\ Descending(served'[x])
                      /\ x > read \/ (x = read /\ step # "idle") => result[x] = Unread
                      /\ Elements(result[x].entries) \subseteq Elements(served'[x])
                      /\ Descending(result[x].entries)
                      /\ result[x].ok => result[x].by \in {0, x}
                      /\ (result[x].ok /\ result[x].by = x /\ x \notin excused)
                           => result[x].entries = served'[x]
    BY <1>13 DEF Results
  <2>1. CASE x # r
    BY <1>2, <1>10, <2>1 DEF Results
  <2>2. CASE x = r
    <3>1. Elements(<<>>) = {} /\ Descending(<<>>)
      BY DEF Elements, Descending
    <3> QED  BY <1>2, <1>4, <1>10, <1>19, <2>2, <3>1 DEF Results
  <2> QED  BY <2>1, <2>2
<1>26. \A i \in DOMAIN t :
          \/ i \in DOMAIN p /\ t[i] = p[i]
          \/ t[i].of.read = r /\ IsAnswer(t[i]) /\ ~Is(t[i], "CHALLENGE")
             /\ (Is(t[i], "LOG_ENTRY") => t[i].of.n \in Elements(e))
  <2> TAKE i \in DOMAIN t
  <2>1. i \in DOMAIN p => t[i] = p[i]
    BY <1>17, Zenon DEF Joined
  <2>2. ASSUME NEW x \in DOMAIN s, t[i] = s[x]
        PROVE  /\ t[i].of.read = r /\ IsAnswer(t[i]) /\ ~Is(t[i], "CHALLENGE")
               /\ Is(t[i], "LOG_ENTRY") => t[i].of.n \in Elements(e)
    <3>1. /\ s[x].of.read = r /\ IsAnswer(s[x]) /\ ~Is(s[x], "CHALLENGE")
          /\ Is(s[x], "LOG_ENTRY") => s[x].of.n \in Elements(e)
      BY <1>8, Zenon DEF AnswerOf
    <3> QED  BY <2>2, <3>1, Zenon
  <2>3. i \in DOMAIN p \/ \E x \in DOMAIN s : t[i] = s[x]
    BY <1>17, Zenon DEF Joined
  <2> QED  BY <2>1, <2>2, <2>3, Zenon
<1>27. \A i \in DOMAIN t : ~Is(t[i], "CHALLENGE")
  BY <1>20, <1>26
<1>28. Held(Future, Stream)'
  <2>1. Sound(t)'
    <3> SUFFICES ASSUME NEW i \in DOMAIN t
                 PROVE  /\ t[i].of.read <= read
                        /\ Is(t[i], "LOG_ENTRY") =>
                             t[i].of.read # 0 /\ t[i].of.n \in Elements(served'[t[i].of.read])
      BY <1>13, <1>27 DEF Sound, Is, Elements
    <3>1. CASE i \in DOMAIN p /\ t[i] = p[i]
      <4>1. /\ p[i].of.read <= read
            /\ Is(p[i], "LOG_ENTRY") =>
                 p[i].of.read # 0 /\ p[i].of.n \in Elements(served[p[i].of.read])
        BY <1>15, <3>1 DEF Held, Sound
      <4>2. p[i].of.read \in 0 .. MaxReads
        BY <1>15, <3>1 DEF AllUnits, Messages
      <4>3. Is(p[i], "LOG_ENTRY") => p[i].of.read # r /\ p[i].of.read \in Reads
        BY <1>19, <3>1, <4>1, <4>2 DEF IsAnswer, Reads
      <4> QED  BY <1>10, <3>1, <4>1, <4>3
    <3>2. CASE t[i].of.read = r /\ (Is(t[i], "LOG_ENTRY") => t[i].of.n \in Elements(e))
      <4>1. r # 0
        BY <1>3 DEF Reads
      <4> QED  BY <1>3, <1>10, <3>2, <4>1
    <3> QED  BY <1>26, <3>1, <3>2
  <2>2. InSequence(t)'
    <3>1. ASSUME NEW i \in DOMAIN t, NEW k \in DOMAIN t, i < k,
                 Is(t[i], "LOG_ENTRY"), Is(t[k], "LOG_ENTRY"), t[i].of.read = t[k].of.read
          PROVE  t[i].of.n > t[k].of.n \/ (t[i].of = t[k].of /\ t[i].at < t[k].at)
      <4>1. CASE i \in DOMAIN p /\ k \in DOMAIN p
        <5>1. t[i] = p[i] /\ t[k] = p[k]
          BY <1>17, <4>1 DEF Joined
        <5> QED  BY <1>15, <3>1, <4>1, <5>1 DEF Held, InSequence
      <4>2. ASSUME i \in DOMAIN p, NEW y \in DOMAIN s, t[k] = s[y]
            PROVE  FALSE
        <5>1. t[i] = p[i] /\ t[k].of.read = r
          BY <1>8, <1>17, <4>2 DEF Joined, AnswerOf
        <5> QED  BY <1>19, <3>1, <4>2, <5>1 DEF IsAnswer
      <4>3. ASSUME NEW x \in DOMAIN s, NEW y \in DOMAIN s, x < y, t[i] = s[x], t[k] = s[y]
            PROVE  t[i].of.n > t[k].of.n \/ (t[i].of = t[k].of /\ t[i].at < t[k].at)
        <5>1. Is(s[x], "LOG_ENTRY") /\ Is(s[y], "LOG_ENTRY")
          BY <3>1, <4>3
        <5>2. s[x].of.n > s[y].of.n \/ (s[x].of = s[y].of /\ s[x].at < s[y].at)
          BY <1>8, <4>3, <5>1, Zenon DEF AnswerOf
        <5> QED  BY <4>3, <5>2
      <4>4. \/ i \in DOMAIN p /\ k \in DOMAIN p
            \/ i \in DOMAIN p /\ \E y \in DOMAIN s : t[k] = s[y]
            \/ \E x, y \in DOMAIN s : x < y /\ t[i] = s[x] /\ t[k] = s[y]
        BY <1>17, <3>1, Zenon DEF Joined
      <4> QED  BY <4>1, <4>2, <4>3, <4>4
    <3> QED  BY <1>27, <3>1 DEF InSequence
  <2>3. Fresh(f, t)'
    BY <1>27 DEF Fresh, Is
  <2>4. Own(f, t)'
    <3>1. step = "log" => \A i \in DOMAIN t : IsAnswer(t[i]) => t[i].of.read = read
      BY <1>22, <1>26
    <3>2. LogAsked /\ f.answer.is = "ok" => f.answer.by \in {0, read}
      BY <1>15 DEF Held, Own
    <3> QED  BY <1>13, <1>22, <1>23, <3>1, <3>2 DEF Own, LogAsked
  <2>5. Collected(f, t)'
    <3>1. LogAsked => f.aggregated = <<>>
      BY <1>19, <1>22 DEF LogAsked
    <3>2. Elements(<<>>) = {} /\ Descending(<<>>) /\ DOMAIN <<>> = {}
      BY DEF Elements, Descending
    <3> QED  BY <1>13, <3>1, <3>2 DEF Collected, LogAsked
  <2>6. AnsweredOnce(f, t)'
    <3>1. step = "log" => challenge # 0
      BY <1>2 DEF Nonces
    <3> QED  BY <1>13, <1>23, <3>1 DEF AnsweredOnce
  <2> QED  BY <1>15, <2>1, <2>2, <2>3, <2>4, <2>5, <2>6 DEF Held
<1>29. Whole(Future, Stream)'
  <2>1. ASSUME LogAsked
        PROVE  Rest(f, t)'
    <3>1. r = read /\ f.aggregated = <<>> /\ \A i \in DOMAIN p : ~IsAnswer(p[i])
      BY <1>19, <1>22, <2>1 DEF LogAsked
    <3>2. read' = r
      BY <1>13, <3>1
    <3> QED  BY <1>4, <1>8, <1>10, <1>14, <1>15, <3>1, <3>2, AnswerIsRest
  <2>2. LogAsked => ~(f.answer.is = "ok" /\ f.answer.by = read)
    BY <1>19, <1>22 DEF LogAsked
  <2>3. LogAsked' <=> LogAsked
    BY <1>13 DEF LogAsked
  <2>4. Whole(f, t)'
    BY <1>13, <2>1, <2>2, <2>3 DEF Whole
  <2> QED  BY <1>15, <2>4
<1> QED  BY <1>12, <1>24, <1>25, <1>28, <1>29 DEF IndInv, StreamInv, Held

LEMMA OpenerAnswersKeeps == ASSUME IndInv, OpenerAnswers PROVE IndInv'
<1>1. /\ link /\ requests # <<>> /\ requests' = Tail(requests)
      /\ UNCHANGED <<link, budget, hole, log, owed, stream, future, reader, excused>>
  BY DEF OpenerAnswers
<1>2. CASE /\ challenges' = challenges + 1 /\ nonce' = challenges + 1
           /\ Send(<<Message("CHALLENGE", Head(requests).read, challenges + 1)>>)
           /\ UNCHANGED served
  BY <1>1, <1>2, ChallengeSendKeeps
<1>3. CASE /\ Head(requests).kind = "log" /\ Head(requests).nonce = nonce
           /\ nonce' = 0 /\ served' = [served EXCEPT ![Head(requests).read] = Newest]
           /\ Send([i \in DOMAIN Newest |-> Message("LOG_ENTRY", Head(requests).read, Newest[i])]
                     \o <<Message("STATUS", Head(requests).read, 0)>>)
           /\ UNCHANGED challenges
  BY <1>1, <1>3, LogSendKeeps
<1>4. CASE /\ Send(<<Message("ERROR_REPORT", Head(requests).read, 0)>>)
           /\ UNCHANGED <<nonce, challenges, served>>
  BY <1>1, <1>4, RefusalKeeps
<1> QED  BY <1>2, <1>3, <1>4, Zenon DEF OpenerAnswers

-----------------------------------------------------------------------------
(* The invariant and the theorems.                                         *)

LEMMA InitIndInv == ASSUME Init PROVE IndInv
<1> USE DEF Init
<1>1. <<>> \in Seq(AllUnits) /\ <<>> \in Seq(Nat) /\ Len(<<>>) = 0 /\ DOMAIN <<>> = {}
      /\ <<>> \in Seq([kind : {"challenge", "log"}, read : Reads, nonce : Nat])
      /\ <<>> \o <<>> = <<>>
  OBVIOUS
<1>2. MaxBuffer \in Nat /\ Header \in Nat /\ Header # 0 /\ Attempts \in Nat /\ Attempts # 0
      /\ MaxReads \in Nat /\ MaxLosses \in Nat /\ MaxDrops \in Nat
      /\ MaxLog \in Nat /\ MaxLog # 0
  BY LogAssumption DEF SizesAssumption, BoundsAssumption, LogAssumption
<1>3. Future = [answer |-> NoAnswer, aggregated |-> <<>>] /\ Stream = <<>>
  BY <1>1 DEF Future, Stream
<1>4. Elements(<<>>) = {} /\ Descending(<<>>)
  BY <1>1 DEF Elements, Descending
<1>5. Types
  <2>1. Future \in Futures
    BY <1>1, <1>2, <1>3 DEF Futures, NoAnswer
  <2>2. ~Complete(buffer)
    BY <1>1, <1>2 DEF Complete
  <2>3. Unread \in [ended : BOOLEAN, ok : BOOLEAN, by : 0 .. MaxReads, entries : Seq(Nat)]
    BY <1>1, <1>2 DEF Unread
  <2>4. budget \in [losses : Nat, drops : Nat] /\ log \in Nat /\ noise \in Nat
    BY <1>2 DEF NoiseAssumption
  <2>5. 1 \in 1 .. Attempts /\ 0 \in 0 .. MaxReads /\ 0 <= MaxBuffer
    BY <1>2
  <2>6. served \in [Reads -> Seq(Nat)]
    BY <1>1
  <2> QED  BY <1>1, <2>1, <2>2, <2>3, <2>4, <2>5, <2>6 DEF Types
<1>6. Nonces
  BY <1>1 DEF Nonces
<1>7. Results
  BY <1>4 DEF Results, Unread
<1>8. StreamInv(Future, Stream)
  <2>1. \A r \in Reads : ~Answered(r, Future, Stream)
    BY <1>1, <1>3 DEF Answered, LogAsked, Unread
  <2>2. AnsweredOnce(Future, Stream)
    BY <2>1 DEF AnsweredOnce
  <2>3. Sound(Stream) /\ InSequence(Stream) /\ Fresh(Future, Stream)
    BY <1>1, <1>3 DEF Sound, InSequence, Fresh
  <2> QED  BY <2>2, <2>3 DEF StreamInv, Own, Collected, Whole, LogAsked
<1>9. Readable(Stream)
  BY <1>3 DEF Readable, Aligned
<1> QED  BY <1>5, <1>6, <1>7, <1>8, <1>9 DEF IndInv

LEMMA ClientKeeps == ASSUME IndInv, Client PROVE IndInv'
<1>1. ASSUME ConnectFails \/ TimesOut \/ LinkWasLost
      PROVE  IndInv'
  <2>1. step # "idle" /\ AttemptFails /\ Unchanged
    BY <1>1, Zenon DEF ConnectFails, TimesOut, LinkWasLost
  <2> QED  BY <2>1, AttemptFailsKeeps
<1>2. CASE Raise
  BY <1>2, RaisedKeeps DEF Raise
<1> QED  BY <1>1, <1>2, IssueKeeps, WriteKeeps, ChallengeArrivedKeeps, ReturnKeeps, Zenon
         DEF Client

LEMMA NextIndInv == ASSUME IndInv, [Next]_vars PROVE IndInv'
<1>1. CASE UNCHANGED vars
  <2>1. UNCHANGED <<radio, opener, stream, future, reader, excused>>
    BY <1>1 DEF vars
  <2>2. /\ UNCHANGED <<link, wire, requests, budget, hole, log, nonce, challenges, owed, served>>
        /\ UNCHANGED <<buffer, noise, garbled, answer, aggregated>>
        /\ UNCHANGED <<read, step, at, attempt, challenge, result, excused>>
    BY <2>1 DEF radio, opener, stream, future, reader
  <2>3. Future' = Future /\ Stream' = Stream
    BY <2>2 DEF Future, Stream
  <2>4. PICK f, p : f = Future /\ p = Stream
    OBVIOUS
  <2>5. StreamInv(Future, Stream)'
    BY <2>2, <2>3, <2>4, ContextKeeps DEF IndInv, context
  <2>6. Types'
    <3>1. (~Complete(buffer))'
      BY <2>2, StaysIncomplete DEF IndInv, Types
    <3> QED  BY <2>2, <2>3, <3>1 DEF IndInv, Types
  <2>7. Nonces' /\ Results' /\ Readable(Stream)'
    BY <2>2, <2>3 DEF IndInv, Nonces, Results, Readable
  <2> QED  BY <2>5, <2>6, <2>7 DEF IndInv
<1>2. CASE \E n \in Indications : Notification(n) \/ Lose(n)
  BY <1>2, NotificationKeeps, LoseKeeps
<1> QED  BY <1>1, <1>2, ClientKeeps, BeginKeeps, IdleDisconnectKeeps, OpenerAnswersKeeps,
            ActionCompletesKeeps, LogGrowsKeeps, LinkDropsKeeps, Zenon DEF Next

LEMMA IndInvHolds == Spec => []IndInv
<1>1. Init => IndInv
  BY InitIndInv
<1>2. IndInv /\ [Next]_vars => IndInv'
  BY NextIndInv
<1> QED  BY <1>1, <1>2, PTL DEF Spec

\* The buffer keeps to its limit and never keeps a complete message, a read is where
\* get_log_entries and _request can be, nothing is under way without a link, and no challenge is
\* newer than the last that the Opener issued (protocol.py:93-119, client.py:312-406).
THEOREM LogReadingTypes == Spec => []TypeOK
<1>1. IndInv => TypeOK
  <2> SUFFICES ASSUME IndInv PROVE TypeOK
    OBVIOUS
  <2>1. Types /\ Nonces
    BY DEF IndInv
  <2>2. answer.is \in {"none", "ok", "error", "lost"}
    BY <2>1 DEF Types, Future, Futures
  <2>3. challenge \in 0 .. challenges /\ nonce \in 0 .. challenges
    BY <2>1 DEF Types, Nonces
  <2> QED  BY <2>1, <2>2, <2>3, Zenon DEF Types, TypeOK
<1> QED  BY <1>1, IndInvHolds, PTL

\* What a read returns is of the Opener's answer to this read, in its order and each entry once,
\* however many reads, attempts, losses and lost links there are, and however the units of the
\* messages fall into indications (client.py:265-279, 389-406, 578-599).
THEOREM ReadsReturnTheirOwnEntries == Spec => []ReadReturnsOwnEntries
<1>1. IndInv => ReadReturnsOwnEntries
  BY DEF IndInv, Results, ReadReturnsOwnEntries, Descending
<1> QED  BY <1>1, IndInvHolds, PTL

\* A read that ends with its own STATUS has every entry of its answer, unless one of its
\* messages was lost on the air: a hole that an earlier loss made in the stream is noticed,
\* never filled with silence (client.py:240-256, protocol.py:93-119).
THEOREM NoEntryMissedSilently == Spec => []NothingMissedSilently
<1>1. IndInv => NothingMissedSilently
  BY DEF IndInv, Results, NothingMissedSilently
<1> QED  BY <1>1, IndInvHolds, PTL

\* On a link on which no indication was lost, every message is decrypted: the reassembler never
\* loses its place, and its buffer never overflows (client.py:170-171, protocol.py:93-119).
THEOREM WholeStreamsAreReadable == Spec => []WholeStreamIsReadable
<1>1. IndInv => WholeStreamIsReadable
  BY DEF IndInv, Readable, WholeStreamIsReadable
<1> QED  BY <1>1, IndInvHolds, PTL
=============================================================================
