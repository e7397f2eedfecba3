--------------------------- MODULE WireFormatProofs ---------------------------
(***************************************************************************)
(* Messages as bytes, for bytes of any value: the layouts of the bodies,   *)
(* the write-back of the configuration, names, and the stream of a         *)
(* pairing, each with its invariant and its theorem.                       *)
(***************************************************************************)
EXTENDS WireFormat, FiniteSetTheorems, TLAPS

-----------------------------------------------------------------------------
(* Numbers.                                                                *)

\* Induction over the naturals, for sets: were x outside T, the numbers outside T up to x would
\* map, each to the one before it, into one less of them.
LEMMA InductionOverSets ==
    ASSUME NEW T, 0 \in T, \A n \in Nat : n \in T => n + 1 \in T
    PROVE  Nat \subseteq T
<1>1. ASSUME NEW x \in Nat, x \notin T
      PROVE  FALSE
  <2> DEFINE V == {n \in 0 .. x : n \notin T}
             f == [n \in V |-> n - 1]
  <2>1. IsFiniteSet(V) /\ x \in V
    <3>1. IsFiniteSet(0 .. x)
      BY FS_Interval
    <3> QED  BY <1>1, <3>1, FS_Subset
  <2>2. \A n \in V : n - 1 \in V \ {x}
    <3> TAKE n \in V
    <3>1. n # 0 /\ n - 1 \in Nat /\ n - 1 \notin T /\ n - 1 # x
      OBVIOUS
    <3> QED  BY <3>1
  <2>3. f \in [V -> V \ {x}] /\ \A m, n \in V : f[m] = f[n] => m = n
    BY <2>2
  <2> HIDE DEF V, f
  <2>4. IsFiniteSet(V \ {x}) /\ Cardinality(V \ {x}) = Cardinality(V) - 1
    BY <2>1, FS_RemoveElement
  <2>5. Cardinality(V) \in Nat
    BY <2>1, FS_CardinalityType
  <2>6. Cardinality(V \ {x}) < Cardinality(V)
    BY <2>4, <2>5
  <2>7. PICK m, n \in V : m # n /\ f[m] = f[n]
    BY <2>1, <2>3, <2>4, <2>6, FS_PigeonHole, ZenonT(30)
  <2> QED  BY <2>3, <2>7
<1> QED  BY <1>1

LEMMA GreatestExists ==
    ASSUME NEW n \in Nat, NEW I, I \subseteq 1 .. n, I # {}
    PROVE  Max(I) \in I /\ \A i \in I : i <= Max(I)
<1> DEFINE T == {k \in Nat : \A J \in SUBSET (1 .. k) :
                   J # {} => \E m \in J : \A i \in J : m >= i}
<1>1. 0 \in T
  <2>1. 1 .. 0 = {}
    OBVIOUS
  <2> QED  BY <2>1
<1>2. ASSUME NEW k \in Nat, k \in T
      PROVE  k + 1 \in T
  <2> SUFFICES ASSUME NEW J \in SUBSET (1 .. k + 1), J # {}
               PROVE  \E m \in J : \A i \in J : m >= i
    OBVIOUS
  <2>1. CASE k + 1 \in J
    BY <2>1
  <2>2. CASE k + 1 \notin J
    <3>1. J \in SUBSET (1 .. k)
      BY <2>2
    <3> QED  BY <1>2, <3>1
  <2> QED  BY <2>1, <2>2
<1> HIDE DEF T
<1>3. n \in T
  BY <1>1, <1>2, InductionOverSets
<1>4. \E m \in I : \A i \in I : m >= i
  BY <1>3 DEF T
<1>5. Max(I) \in I /\ \A i \in I : Max(I) >= i
  BY <1>4 DEF Max
<1> QED  BY <1>5

-----------------------------------------------------------------------------
(* Reading a body.                                                         *)

\* A field of a payload that is accepted lies within it, or is only read if it does.
Fits(f, size) ==
    /\ f.from \in Nat /\ f.n \in Nat \ {0} /\ f.needs \in Nat
    /\ f.kind \in {"raw", "bool", "bit0", "bit1", "date", "name"}
    /\ f.from + f.n <= size \/ f.from + f.n <= f.needs

LEMMA SliceOfBytes ==
    ASSUME NEW payload \in Seq(Byte), NEW from \in Nat, NEW to \in Nat,
           from <= to, to <= Len(payload)
    PROVE  /\ Slice(payload, from, to) \in Seq(Byte)
           /\ Len(Slice(payload, from, to)) = to - from
           /\ \A i \in 1 .. to - from : Slice(payload, from, to)[i] = payload[from + i]
<1>1. Slice(payload, from, to) = SubSeq(payload, from + 1, to)
  BY DEF Slice
<1> QED  BY <1>1

\* What a payload has in a slice, it has there when bytes are appended.
LEMMA SliceOfOlder ==
    ASSUME NEW payload \in Seq(Byte), NEW n \in 0 .. Len(payload), NEW from \in Nat, NEW to \in Nat,
           from <= to, to <= n
    PROVE  Slice(Slice(payload, 0, n), from, to) = Slice(payload, from, to)
<1> DEFINE older == Slice(payload, 0, n)
<1>0. Len(payload) \in Nat /\ n \in Nat /\ n <= Len(payload) /\ 0 \in Nat /\ 0 <= n /\ n - 0 = n
  OBVIOUS
<1>1. /\ older \in Seq(Byte) /\ Len(older) = n
      /\ \A i \in 1 .. n : older[i] = payload[0 + i]
  BY <1>0, SliceOfBytes
<1> HIDE DEF older
<1>2. /\ Slice(older, from, to) \in Seq(Byte) /\ Len(Slice(older, from, to)) = to - from
      /\ \A i \in 1 .. to - from : Slice(older, from, to)[i] = older[from + i]
  <2>1. to <= Len(older)
    BY <1>1
  <2> QED  BY <1>1, <2>1, SliceOfBytes
<1>3. /\ Slice(payload, from, to) \in Seq(Byte) /\ Len(Slice(payload, from, to)) = to - from
      /\ \A i \in 1 .. to - from : Slice(payload, from, to)[i] = payload[from + i]
  <2>1. to <= Len(payload)
    BY <1>0
  <2> QED  BY <2>1, SliceOfBytes
<1>4. \A i \in 1 .. to - from : Slice(older, from, to)[i] = Slice(payload, from, to)[i]
  <2> TAKE i \in 1 .. to - from
  <2>1. from + i \in 1 .. n /\ 0 + (from + i) = from + i
    OBVIOUS
  <2> QED  BY <1>1, <1>2, <1>3, <2>1
<1> QED  BY <1>2, <1>3, <1>4 DEF older

LEMMA StripOfBytes ==
    ASSUME NEW b \in Seq(Byte)
    PROVE  \E n \in 0 .. Len(b) : Strip(b) = SubSeq(b, 1, n) /\ (n # 0 => b[n] # 0)
                                  /\ \A i \in n + 1 .. Len(b) : b[i] = 0
<1> DEFINE I == {i \in 1 .. Len(b) : b[i] # 0}
           last == IF I # {} THEN Max(I) ELSE 0
<1>1. Strip(b) = SubSeq(b, 1, last)
  BY DEF Strip, SelectLastInSeq
<1>2. Len(b) \in Nat /\ I \subseteq 1 .. Len(b)
  OBVIOUS
<1>3. I # {} => last \in I /\ \A i \in I : i <= last
  BY <1>2, GreatestExists
<1>4. last \in 0 .. Len(b) /\ (last # 0 => b[last] # 0)
  BY <1>2, <1>3
<1>5. \A i \in last + 1 .. Len(b) : b[i] = 0
  BY <1>2, <1>3, <1>4
<1> QED  BY <1>1, <1>4, <1>5

\* What a field is read as is no marker of a missing byte.
LEMMA ReadAsIsNotMissing ==
    ASSUME NEW b \in Seq(Byte), Len(b) > 0,
           NEW kind \in {"raw", "bool", "bit0", "bit1", "date", "name"}
    PROVE  ReadAs(kind, b) # <<Missing>>
<1>1. \A s \in Seq(Byte) : s # <<Missing>>
  <2> SUFFICES ASSUME NEW s \in Seq(Byte), s = <<Missing>> PROVE FALSE
    OBVIOUS
  <2>1. Len(s) = 1 /\ s[1] = 256
    BY DEF Missing
  <2>2. s[1] \in Byte
    BY <2>1
  <2> QED  BY <2>1, <2>2 DEF Byte
<1>2. b[1] \in Byte
  OBVIOUS
<1>3. CASE kind = "raw"
  BY <1>1, <1>3 DEF ReadAs
<1>4. CASE kind = "bool"
  <2>1. ReadAs(kind, b)[1] \in {0, 1}
    BY <1>4 DEF ReadAs
  <2> QED  BY <2>1 DEF Missing
<1>5. CASE kind \in {"bit0", "bit1"}
  <2>1. PICK a \in Nat : a = b[1]
    BY <1>2 DEF Byte
  <2>2. a % 2 \in {0, 1} /\ (a \div 2) \in Nat /\ (a \div 2) % 2 \in {0, 1}
    OBVIOUS
  <2>3. ReadAs(kind, b)[1] = a % 2 \/ ReadAs(kind, b)[1] = (a \div 2) % 2
    BY <1>5, <2>1 DEF ReadAs
  <2> QED  BY <2>2, <2>3 DEF Missing
<1>6. CASE kind = "date"
  <2>1. ReadAs(kind, b) \in {b, <<>>}
    BY <1>6 DEF ReadAs, None
  <2>2. <<>> \in Seq(Byte)
    OBVIOUS
  <2> QED  BY <1>1, <2>1, <2>2
<1>7. CASE kind = "name"
  <2>1. Strip(b) \in Seq(Byte)
    <3>1. PICK n \in 0 .. Len(b) : Strip(b) = SubSeq(b, 1, n)
      BY StripOfBytes
    <3> QED  BY <3>1
  <2> QED  BY <1>1, <1>7, <2>1 DEF ReadAs
<1> QED  BY <1>3, <1>4, <1>5, <1>6, <1>7

\* A field of an accepted payload is not read past its end.
LEMMA ReadIsNotMissing ==
    ASSUME NEW payload \in Seq(Byte), NEW size \in Nat, Len(payload) >= size,
           NEW f, Fits(f, size)
    PROVE  Read(f, payload) # <<Missing>>
<1>1. CASE Len(payload) < f.needs
  <2>1. Read(f, payload) = <<>>
    BY <1>1 DEF Read, None
  <2> QED  BY <2>1
<1>2. CASE ~(Len(payload) < f.needs)
  <2> DEFINE b == Slice(payload, f.from, f.from + f.n)
  <2>1. /\ f.from \in Nat /\ f.from + f.n \in Nat /\ f.from <= f.from + f.n
        /\ f.from + f.n <= Len(payload) /\ (f.from + f.n) - f.from > 0
    BY <1>2 DEF Fits
  <2>2. b \in Seq(Byte) /\ Len(b) > 0
    BY <2>1, SliceOfBytes
  <2>3. Read(f, payload) = ReadAs(f.kind, b)
    BY <1>2, <2>1 DEF Read
  <2> HIDE DEF b
  <2> QED  BY <2>2, <2>3, ReadAsIsNotMissing DEF Fits
<1> QED  BY <1>1, <1>2

\* Bytes that are appended change no field that was read without them.
LEMMA ReadOfOlder ==
    ASSUME NEW payload \in Seq(Byte), NEW n \in 0 .. Len(payload), NEW size \in Nat,
           Len(Slice(payload, 0, n)) >= size, NEW f, Fits(f, size), n >= f.needs
    PROVE  Read(f, Slice(payload, 0, n)) = Read(f, payload)
<1>0. Len(payload) \in Nat /\ n \in Nat /\ n <= Len(payload) /\ 0 \in Nat /\ 0 <= n /\ n - 0 = n
  OBVIOUS
<1>1. Len(Slice(payload, 0, n)) = n
  BY <1>0, SliceOfBytes
<1>4. /\ f.from \in Nat /\ f.n \in Nat /\ f.needs \in Nat
      /\ f.from + f.n <= size \/ f.from + f.n <= f.needs
  BY DEF Fits
<1>5. f.from + f.n <= n
  BY <1>0, <1>1, <1>4
<1>2. /\ f.from \in Nat /\ f.from + f.n \in Nat /\ f.from <= f.from + f.n
      /\ f.from + f.n <= n /\ ~(n < f.from + f.n) /\ ~(Len(payload) < f.from + f.n)
      /\ ~(n < f.needs) /\ ~(Len(payload) < f.needs)
  BY <1>0, <1>4, <1>5
<1>3. Slice(Slice(payload, 0, n), f.from, f.from + f.n) = Slice(payload, f.from, f.from + f.n)
  BY <1>2, SliceOfOlder
<1> QED  BY <1>1, <1>2, <1>3 DEF Read

LayoutFits(layout) ==
    layout.size \in Nat /\ \A name \in DOMAIN layout.fields : Fits(layout.fields[name], layout.size)

LEMMA FixedLayoutsFit ==
    ASSUME NEW layout \in {OpenerState, OpenerConfig, AdvancedConfig, BatteryReport, ErrorReport,
                           LogEntryHeader, LogEntryCount, AuthorizationId, Status, Challenge,
                           PublicKey}
    PROVE  LayoutFits(layout)
<1> USE DEF LayoutFits, Fits, Raw, Field, Flag, If
<1>1. CASE layout = OpenerState
  BY <1>1 DEF OpenerState
<1>2. CASE layout = OpenerConfig
  BY <1>2 DEF OpenerConfig
<1>3. CASE layout = AdvancedConfig
  BY <1>3 DEF AdvancedConfig
<1>4. CASE layout = BatteryReport
  BY <1>4 DEF BatteryReport
<1>5. CASE layout = ErrorReport
  BY <1>5 DEF ErrorReport
<1>6. CASE layout = LogEntryHeader
  BY <1>6 DEF LogEntryHeader
<1>7. CASE layout = LogEntryCount
  BY <1>7 DEF LogEntryCount
<1>8. CASE layout = AuthorizationId
  BY <1>8 DEF AuthorizationId
<1>9. CASE layout \in {Status, Challenge, PublicKey}
  BY <1>9 DEF Status, Challenge, PublicKey
<1> QED  BY <1>1, <1>2, <1>3, <1>4, <1>5, <1>6, <1>7, <1>8, <1>9

\* The details of a ring lie within the entries that are long enough.
LEMMA LogEntryFits ==
    ASSUME NEW payload
    PROVE  LayoutFits(LogEntry(payload))
<1> DEFINE header == LogEntryHeader.fields
           details == Doorbell(48 + 8)
           all == IF payload[48] = DoorbellRecognition THEN details ELSE <<>>
<1>1. LogEntry(payload) = [size |-> 48, fields |-> Both(header, all)]
  BY DEF LogEntry
<1>2. \A name \in DOMAIN details : Fits(details[name], 48)
  BY DEF Doorbell, Fits, If, Raw, Flag, Field
<1>3. \A name \in DOMAIN header : Fits(header[name], 48)
  BY FixedLayoutsFit DEF LayoutFits, LogEntryHeader
<1> HIDE DEF details, header
<1>4. \A name \in DOMAIN all : name \in DOMAIN details /\ all[name] = details[name]
  OBVIOUS
<1>5. /\ DOMAIN Both(header, all) = DOMAIN header \cup DOMAIN all
      /\ \A name \in DOMAIN header : Both(header, all)[name] = header[name]
      /\ \A name \in DOMAIN all : name \notin DOMAIN header => Both(header, all)[name] = all[name]
  BY DEF Both
<1> HIDE DEF all
<1> QED  BY <1>1, <1>2, <1>3, <1>4, <1>5 DEF LayoutFits

LEMMA LayoutsFit ==
    ASSUME NEW kind \in Kinds, NEW payload
    PROVE  LayoutFits(Layout(kind, payload))
<1>1. Layout(kind, payload) = LogEntry(payload) \/
      Layout(kind, payload) \in {OpenerState, OpenerConfig, AdvancedConfig, BatteryReport,
          ErrorReport, LogEntryHeader, LogEntryCount, AuthorizationId, Status, Challenge, PublicKey}
  BY DEF Layout, Kinds
<1> QED  BY <1>1, FixedLayoutsFit, LogEntryFits

\* The fields of a body are the same when bytes are appended: what it is, is said before its
\* 49th byte.
LEMMA LayoutOfOlder ==
    ASSUME NEW kind \in Kinds, NEW payload \in Seq(Byte), NEW n \in 0 .. Len(payload),
           Accepts(kind, Slice(payload, 0, n))
    PROVE  Layout(kind, Slice(payload, 0, n)) = Layout(kind, payload)
<1> DEFINE older == Slice(payload, 0, n)
<1>1. Len(payload) \in Nat /\ n \in Nat /\ n <= Len(payload) /\ 0 \in Nat /\ 0 <= n /\ n - 0 = n
  OBVIOUS
<1>2. Len(older) = n /\ \A i \in 1 .. n : older[i] = payload[0 + i]
  BY <1>1, SliceOfBytes
<1> HIDE DEF older
<1>3. CASE kind = "LOG_ENTRY"
  <2>1. n >= 48
    <3>1. LogEntryHeader.size = 48
      BY DEF LogEntryHeader
    <3>2. n < 48 => Layout(kind, older) = LogEntryHeader
      BY <1>2, <1>3 DEF Layout
    <3>3. n >= Layout(kind, older).size
      BY <1>2 DEF Accepts, Require, older
    <3> QED  BY <1>1, <3>1, <3>2, <3>3
  <2>2. older[48] = payload[48]
    BY <1>1, <1>2, <2>1
  <2>3. LogEntry(older) = LogEntry(payload)
    BY <2>2 DEF LogEntry
  <2>4. ~(Len(older) < 48) /\ ~(Len(payload) < 48)
    BY <1>1, <1>2, <2>1
  <2>5. Layout(kind, older) = Layout(kind, payload)
    BY <1>3, <2>3, <2>4 DEF Layout
  <2> QED  BY <2>5 DEF older
<1>4. CASE kind # "LOG_ENTRY"
  <2>1. Layout(kind, older) = Layout(kind, payload)
    BY <1>4 DEF Layout, Kinds
  <2> QED  BY <2>1 DEF older
<1> QED  BY <1>3, <1>4

LEMMA BodiesMayGrow ==
    ASSUME NEW kind \in Kinds, NEW payload \in Seq(Byte), Accepts(kind, payload),
           NEW name \in DOMAIN Layout(kind, payload).fields
    PROVE  /\ Parse(kind, payload)[name] # <<Missing>>
           /\ \A n \in 0 .. Len(payload) :
                /\ Accepts(kind, Slice(payload, 0, n))
                /\ n >= Layout(kind, payload).fields[name].needs
                => Parse(kind, Slice(payload, 0, n))[name] = Parse(kind, payload)[name]
<1> DEFINE layout == Layout(kind, payload)
           f == layout.fields[name]
<1>1. layout.size \in Nat /\ Fits(f, layout.size) /\ Len(payload) >= layout.size
  BY LayoutsFit DEF LayoutFits, Accepts, Require
<1>2. Parse(kind, payload)[name] = Read(f, payload)
  BY DEF Parse
<1>3. Parse(kind, payload)[name] # <<Missing>>
  BY <1>1, <1>2, ReadIsNotMissing
<1>4. ASSUME NEW n \in 0 .. Len(payload), Accepts(kind, Slice(payload, 0, n)), n >= f.needs
      PROVE  Parse(kind, Slice(payload, 0, n))[name] = Parse(kind, payload)[name]
  <2> DEFINE older == Slice(payload, 0, n)
  <2>1. Layout(kind, older) = layout
    BY <1>4, LayoutOfOlder
  <2>2. Len(older) >= layout.size
    BY <1>4, <2>1 DEF Accepts, Require
  <2>3. Parse(kind, older)[name] = Read(f, older)
    BY <2>1 DEF Parse
  <2>4. Read(f, older) = Read(f, payload)
    BY <1>1, <1>4, <2>2, ReadOfOlder
  <2> QED  BY <1>2, <2>3, <2>4
<1> QED  BY <1>3, <1>4

-----------------------------------------------------------------------------
(* What is decrypted.                                                      *)

BodyInv ==
    body.kind = "none" \/ (body.kind \in Kinds /\ body.bytes \in Seq(Byte))

LEMMA BodyInvHolds == Spec => []BodyInv
<1>1. Init => BodyInv
  BY DEF Init, BodyInv
<1>2. BodyInv /\ [Next]_vars => BodyInv'
  <2> SUFFICES ASSUME BodyInv, [Next]_vars PROVE BodyInv'
    OBVIOUS
  <2>1. ASSUME NEW m \in PairingMessages, NEW message \in Frames(m), Send(m, message)
        PROVE  BodyInv'
    BY <2>1 DEF Send, bodies, BodyInv
  <2>2. ASSUME NEW at \in DOMAIN wire, NEW bit \in {1, 128}, NEW all \in BOOLEAN,
               Spoil(at, bit, all)
        PROVE  BodyInv'
    BY <2>2 DEF Spoil, bodies, BodyInv
  <2>3. ASSUME NEW n \in Indications, Indicate(n)
        PROVE  BodyInv'
    BY <2>3 DEF Indicate, bodies, BodyInv
  <2>4. ASSUME NEW kind \in Kinds, NEW payload \in Payloads, Decrypted(kind, payload)
        PROVE  BodyInv'
    BY <2>4, BodiesAssumption DEF Decrypted, BodyInv
  <2>5. ASSUME NEW name \in Names, BuildAuthorization(name) \/ BuildLockAction(name)
        PROVE  BodyInv'
    BY <2>5 DEF BuildAuthorization, BuildLockAction, BodyInv
  <2>6. CASE WriteBack
    BY <2>6 DEF WriteBack, bodies, BodyInv
  <2>7. CASE UNCHANGED vars
    BY <2>7 DEF vars, bodies, BodyInv
  <2> QED  BY <2>1, <2>2, <2>3, <2>4, <2>5, <2>6, <2>7 DEF Next
<1> QED  BY <1>1, <1>2, PTL DEF Spec

\* No message of any length is read past its end, and a field that was read from the beginning
\* of a message is read the same from all of it: a firmware may append fields (messages.py:3-5,
\* 60-62).
THEOREM FirmwareMayAppend == Spec => []FirmwareMayGrow
<1>1. BodyInv => FirmwareMayGrow
  <2> SUFFICES ASSUME BodyInv, body.kind # "none", Accepts(body.kind, body.bytes),
                      NEW name \in DOMAIN Layout(body.kind, body.bytes).fields
               PROVE  /\ Parse(body.kind, body.bytes)[name] # <<Missing>>
                      /\ \A n \in 0 .. Len(body.bytes) :
                           /\ Accepts(body.kind, Slice(body.bytes, 0, n))
                           /\ n >= Layout(body.kind, body.bytes).fields[name].needs
                           => Parse(body.kind, Slice(body.bytes, 0, n))[name]
                                = Parse(body.kind, body.bytes)[name]
    BY DEF FirmwareMayGrow
  <2> QED  BY BodiesMayGrow DEF BodyInv
<1> QED  BY <1>1, BodyInvHolds, PTL

-----------------------------------------------------------------------------
(* Writing a configuration back.                                           *)

\* A switch changes its bit of a mask and no other.
LEMMA SetBitKeepsOthers ==
    ASSUME NEW mask \in Byte, NEW bit \in {1, 2, 4}, NEW on \in BOOLEAN
    PROVE  /\ SetBit(mask, bit, on) \in Byte
           /\ \A other \in {1, 2, 4, 8, 16, 32, 64, 128} \ {bit} :
                HasBit(SetBit(mask, bit, on), other) = HasBit(mask, other)
<1> USE DEF Byte
<1> DEFINE Kept == \A other \in {1, 2, 4, 8, 16, 32, 64, 128} \ {bit} :
                      HasBit(SetBit(mask, bit, on), other) = HasBit(mask, other)
<1>1. CASE HasBit(mask, bit) = on
  BY <1>1 DEF SetBit
<1>2. CASE HasBit(mask, bit) # on /\ HasBit(mask, bit)
  <2>1. SetBit(mask, bit, on) = mask - bit
    BY <1>2 DEF SetBit, HasBit, Flip
  <2>2. (mask \div bit) % 2 = 1
    BY <1>2 DEF HasBit
  <2>3. CASE bit = 1
    BY <2>1, <2>2, <2>3, SMTT(30) DEF HasBit
  <2>4. CASE bit = 2
    BY <2>1, <2>2, <2>4, SMTT(30) DEF HasBit
  <2>5. CASE bit = 4
    BY <2>1, <2>2, <2>5, SMTT(30) DEF HasBit
  <2> QED  BY <2>3, <2>4, <2>5
<1>3. CASE HasBit(mask, bit) # on /\ ~HasBit(mask, bit)
  <2>1. SetBit(mask, bit, on) = mask + bit
    BY <1>3 DEF SetBit, HasBit, Flip
  <2>2. (mask \div bit) % 2 # 1
    BY <1>3 DEF HasBit
  <2>3. CASE bit = 1
    BY <2>1, <2>2, <2>3, SMTT(30) DEF HasBit
  <2>4. CASE bit = 2
    BY <2>1, <2>2, <2>4, SMTT(30) DEF HasBit
  <2>5. CASE bit = 4
    BY <2>1, <2>2, <2>5, SMTT(30) DEF HasBit
  <2> QED  BY <2>3, <2>4, <2>5
<1> QED  BY <1>1, <1>2, <1>3

\* Bytes one after another; the prover knows too much of the length of a \o.
LEMMA Join ==
    ASSUME NEW s \in Seq(Byte), NEW t \in Seq(Byte)
    PROVE  \E u \in Seq(Byte) :
             /\ u = s \o t /\ Len(u) = Len(s) + Len(t)
             /\ \A i \in 1 .. Len(s) : u[i] = s[i]
             /\ \A i \in 1 .. Len(t) : u[Len(s) + i] = t[i]
<1>1. /\ s \o t \in Seq(Byte) /\ Len(s \o t) = Len(s) + Len(t)
      /\ \A i \in 1 .. Len(s) : (s \o t)[i] = s[i]
      /\ \A i \in 1 .. Len(t) : (s \o t)[Len(s) + i] = t[i]
  OBVIOUS
<1> QED  BY <1>1

Place == AdvancedConfig.fields

\* Where the fields are.
LEMMA Places ==
    /\ DOMAIN Place = {"intercom_id", "bus_mode_switch", "short_circuit_duration_ms",
         "electric_strike_delay_ms", "random_electric_strike_delay",
         "electric_strike_duration_ms", "disable_rto_after_ring", "rto_timeout_minutes",
         "doorbell_suppression", "doorbell_suppression_duration_ms", "sound_ring", "sound_open",
         "sound_rto", "sound_cm", "sound_confirmation", "sound_level",
         "single_button_press_action", "double_button_press_action", "battery_type",
         "automatic_battery_type_detection"}
    /\ \A name \in DOMAIN Place :
         /\ Place[name].from \in 0 .. 24 /\ Place[name].n \in 1 .. 2
         /\ Place[name].from + Place[name].n <= 25 /\ Place[name].needs = 0
         /\ Place[name].kind = "raw" \/ (Place[name].kind = "bool" /\ Place[name].n = 1)
BY DEF Place, AdvancedConfig, Raw, Flag, Field

\* The fields of a configuration, each of as many bytes as it has in a message.
Sized(c) ==
    \A name \in DOMAIN Place : c[name] \in Seq(Byte) /\ Len(c[name]) = Place[name].n

\* A beginning of a message of k bytes in which the fields D are in their places.
Placed(s, k, c, D) ==
    /\ s \in Seq(Byte) /\ Len(s) = k /\ D \subseteq DOMAIN Place
    /\ \A name \in D :
         /\ Place[name].from + Place[name].n <= k
         /\ \A i \in 1 .. Place[name].n : s[Place[name].from + i] = c[name][i]

LEMMA PlacesBounded ==
    ASSUME NEW name \in DOMAIN Place
    PROVE  /\ Place[name].from \in Nat /\ Place[name].n \in Nat /\ Place[name].n > 0
           /\ Place[name].from + Place[name].n <= 25 /\ Place[name].needs = 0
           /\ Place[name].kind = "raw" \/ (Place[name].kind = "bool" /\ Place[name].n = 1)
<1>1. /\ Place[name].from \in 0 .. 24 /\ Place[name].n \in 1 .. 2
      /\ Place[name].from + Place[name].n <= 25 /\ Place[name].needs = 0
      /\ Place[name].kind = "raw" \/ (Place[name].kind = "bool" /\ Place[name].n = 1)
  BY Places
<1> QED  BY <1>1

LEMMA PlaceNext ==
    ASSUME NEW c, Sized(c), NEW s, NEW k \in Nat, NEW D, Placed(s, k, c, D),
           NEW name \in DOMAIN Place, Place[name].from = k
    PROVE  Placed(s \o c[name], k + Place[name].n, c, D \cup {name})
<1> DEFINE f == c[name]
           n == Place[name].n
           t == s \o f
<1>1. s \in Seq(Byte) /\ Len(s) = k /\ f \in Seq(Byte) /\ Len(f) = n /\ n \in Nat
  BY PlacesBounded DEF Placed, Sized
<1> HIDE DEF f, n
<1>2. /\ t \in Seq(Byte) /\ Len(t) = k + n
      /\ \A i \in 1 .. k : t[i] = s[i]
      /\ \A i \in 1 .. n : t[k + i] = f[i]
  <2>1. /\ t \in Seq(Byte) /\ Len(t) = Len(s) + Len(f)
        /\ \A i \in 1 .. Len(s) : t[i] = s[i]
        /\ \A i \in 1 .. Len(f) : t[Len(s) + i] = f[i]
    BY <1>1 DEF t
  <2> HIDE DEF t
  <2> QED  BY <1>1, <2>1
<1> HIDE DEF t
<1>3. ASSUME NEW other \in D
      PROVE  /\ Place[other].from + Place[other].n <= k + n
             /\ \A i \in 1 .. Place[other].n : t[Place[other].from + i] = c[other][i]
  <2>0. other \in DOMAIN Place
    BY DEF Placed
  <2>1. Place[other].from \in Nat /\ Place[other].n \in Nat
    BY <2>0, PlacesBounded
  <2>2. /\ Place[other].from + Place[other].n <= k
        /\ \A i \in 1 .. Place[other].n : s[Place[other].from + i] = c[other][i]
    BY <1>3 DEF Placed
  <2>3. ASSUME NEW i \in 1 .. Place[other].n
        PROVE  t[Place[other].from + i] = c[other][i]
    <3>1. Place[other].from + i \in 1 .. k
      BY <2>1, <2>2
    <3> QED  BY <1>2, <2>2, <3>1
  <2>4. Place[other].from + Place[other].n <= k + n
    BY <1>1, <2>1, <2>2
  <2> QED  BY <2>3, <2>4
<1>4. /\ Place[name].from + Place[name].n <= k + n
      /\ \A i \in 1 .. Place[name].n : t[Place[name].from + i] = c[name][i]
  BY <1>1, <1>2 DEF f, n
<1>5. Placed(t, k + n, c, D \cup {name})
  BY <1>2, <1>3, <1>4 DEF Placed
<1> QED  BY <1>5 DEF t, f, n

LEMMA SerializePlaces ==
    ASSUME NEW c, Sized(c)
    PROVE  Placed(serialize(c), 25, c, DOMAIN Place)
<1> DEFINE s1 == c["intercom_id"]
           s2 == s1 \o c["bus_mode_switch"]
           s3 == s2 \o c["short_circuit_duration_ms"]
           s4 == s3 \o c["electric_strike_delay_ms"]
           s5 == s4 \o c["random_electric_strike_delay"]
           s6 == s5 \o c["electric_strike_duration_ms"]
           s7 == s6 \o c["disable_rto_after_ring"]
           s8 == s7 \o c["rto_timeout_minutes"]
           s9 == s8 \o c["doorbell_suppression"]
           s10 == s9 \o c["doorbell_suppression_duration_ms"]
           s11 == s10 \o c["sound_ring"]
           s12 == s11 \o c["sound_open"]
           s13 == s12 \o c["sound_rto"]
           s14 == s13 \o c["sound_cm"]
           s15 == s14 \o c["sound_confirmation"]
           s16 == s15 \o c["sound_level"]
           s17 == s16 \o c["single_button_press_action"]
           s18 == s17 \o c["double_button_press_action"]
           s19 == s18 \o c["battery_type"]
           s20 == s19 \o c["automatic_battery_type_detection"]
           D1 == {"intercom_id"}
           D2 == D1 \cup {"bus_mode_switch"}
           D3 == D2 \cup {"short_circuit_duration_ms"}
           D4 == D3 \cup {"electric_strike_delay_ms"}
           D5 == D4 \cup {"random_electric_strike_delay"}
           D6 == D5 \cup {"electric_strike_duration_ms"}
           D7 == D6 \cup {"disable_rto_after_ring"}
           D8 == D7 \cup {"rto_timeout_minutes"}
           D9 == D8 \cup {"doorbell_suppression"}
           D10 == D9 \cup {"doorbell_suppression_duration_ms"}
           D11 == D10 \cup {"sound_ring"}
           D12 == D11 \cup {"sound_open"}
           D13 == D12 \cup {"sound_rto"}
           D14 == D13 \cup {"sound_cm"}
           D15 == D14 \cup {"sound_confirmation"}
           D16 == D15 \cup {"sound_level"}
           D17 == D16 \cup {"single_button_press_action"}
           D18 == D17 \cup {"double_button_press_action"}
           D19 == D18 \cup {"battery_type"}
           D20 == D19 \cup {"automatic_battery_type_detection"}
<1>0. D20 = DOMAIN Place
  BY Places
<1>1. Placed(s1, 2, c, D1)
  <2>1. "intercom_id" \in DOMAIN Place /\ Place["intercom_id"].from = 0
        /\ Place["intercom_id"].n = 2
    BY Places DEF Place, AdvancedConfig, Raw, Field
  <2>2. c["intercom_id"] \in Seq(Byte) /\ Len(c["intercom_id"]) = 2
    BY <2>1 DEF Sized
  <2> QED  BY <2>1, <2>2 DEF Placed
<1> HIDE DEF s1, D1
<1>2. Placed(s2, 3, c, D2)
  <2>1. /\ "bus_mode_switch" \in DOMAIN Place
        /\ Place["bus_mode_switch"].from = 2
        /\ Place["bus_mode_switch"].n = 1
    BY Places DEF Place, AdvancedConfig, Raw, Field
  <2>2. 2 \in Nat /\ 2 + 1 = 3
    OBVIOUS
  <2> QED  BY <1>1, <2>1, <2>2, PlaceNext
<1> HIDE DEF s2, D2
<1>3. Placed(s3, 5, c, D3)
  <2>1. /\ "short_circuit_duration_ms" \in DOMAIN Place
        /\ Place["short_circuit_duration_ms"].from = 3
        /\ Place["short_circuit_duration_ms"].n = 2
    BY Places DEF Place, AdvancedConfig, Raw, Field
  <2>2. 3 \in Nat /\ 3 + 2 = 5
    OBVIOUS
  <2> QED  BY <1>2, <2>1, <2>2, PlaceNext
<1> HIDE DEF s3, D3
<1>4. Placed(s4, 7, c, D4)
  <2>1. /\ "electric_strike_delay_ms" \in DOMAIN Place
        /\ Place["electric_strike_delay_ms"].from = 5
        /\ Place["electric_strike_delay_ms"].n = 2
    BY Places DEF Place, AdvancedConfig, Raw, Field
  <2>2. 5 \in Nat /\ 5 + 2 = 7
    OBVIOUS
  <2> QED  BY <1>3, <2>1, <2>2, PlaceNext
<1> HIDE DEF s4, D4
<1>5. Placed(s5, 8, c, D5)
  <2>1. /\ "random_electric_strike_delay" \in DOMAIN Place
        /\ Place["random_electric_strike_delay"].from = 7
        /\ Place["random_electric_strike_delay"].n = 1
    BY Places DEF Place, AdvancedConfig, Flag, Field
  <2>2. 7 \in Nat /\ 7 + 1 = 8
    OBVIOUS
  <2> QED  BY <1>4, <2>1, <2>2, PlaceNext
<1> HIDE DEF s5, D5
<1>6. Placed(s6, 10, c, D6)
  <2>1. /\ "electric_strike_duration_ms" \in DOMAIN Place
        /\ Place["electric_strike_duration_ms"].from = 8
        /\ Place["electric_strike_duration_ms"].n = 2
    BY Places DEF Place, AdvancedConfig, Raw, Field
  <2>2. 8 \in Nat /\ 8 + 2 = 10
    OBVIOUS
  <2> QED  BY <1>5, <2>1, <2>2, PlaceNext
<1> HIDE DEF s6, D6
<1>7. Placed(s7, 11, c, D7)
  <2>1. /\ "disable_rto_after_ring" \in DOMAIN Place
        /\ Place["disable_rto_after_ring"].from = 10
        /\ Place["disable_rto_after_ring"].n = 1
    BY Places DEF Place, AdvancedConfig, Flag, Field
  <2>2. 10 \in Nat /\ 10 + 1 = 11
    OBVIOUS
  <2> QED  BY <1>6, <2>1, <2>2, PlaceNext
<1> HIDE DEF s7, D7
<1>8. Placed(s8, 12, c, D8)
  <2>1. /\ "rto_timeout_minutes" \in DOMAIN Place
        /\ Place["rto_timeout_minutes"].from = 11
        /\ Place["rto_timeout_minutes"].n = 1
    BY Places DEF Place, AdvancedConfig, Raw, Field
  <2>2. 11 \in Nat /\ 11 + 1 = 12
    OBVIOUS
  <2> QED  BY <1>7, <2>1, <2>2, PlaceNext
<1> HIDE DEF s8, D8
<1>9. Placed(s9, 13, c, D9)
  <2>1. /\ "doorbell_suppression" \in DOMAIN Place
        /\ Place["doorbell_suppression"].from = 12
        /\ Place["doorbell_suppression"].n = 1
    BY Places DEF Place, AdvancedConfig, Raw, Field
  <2>2. 12 \in Nat /\ 12 + 1 = 13
    OBVIOUS
  <2> QED  BY <1>8, <2>1, <2>2, PlaceNext
<1> HIDE DEF s9, D9
<1>10. Placed(s10, 15, c, D10)
  <2>1. /\ "doorbell_suppression_duration_ms" \in DOMAIN Place
        /\ Place["doorbell_suppression_duration_ms"].from = 13
        /\ Place["doorbell_suppression_duration_ms"].n = 2
    BY Places DEF Place, AdvancedConfig, Raw, Field
  <2>2. 13 \in Nat /\ 13 + 2 = 15
    OBVIOUS
  <2> QED  BY <1>9, <2>1, <2>2, PlaceNext
<1> HIDE DEF s10, D10
<1>11. Placed(s11, 16, c, D11)
  <2>1. /\ "sound_ring" \in DOMAIN Place
        /\ Place["sound_ring"].from = 15
        /\ Place["sound_ring"].n = 1
    BY Places DEF Place, AdvancedConfig, Raw, Field
  <2>2. 15 \in Nat /\ 15 + 1 = 16
    OBVIOUS
  <2> QED  BY <1>10, <2>1, <2>2, PlaceNext
<1> HIDE DEF s11, D11
<1>12. Placed(s12, 17, c, D12)
  <2>1. /\ "sound_open" \in DOMAIN Place
        /\ Place["sound_open"].from = 16
        /\ Place["sound_open"].n = 1
    BY Places DEF Place, AdvancedConfig, Raw, Field
  <2>2. 16 \in Nat /\ 16 + 1 = 17
    OBVIOUS
  <2> QED  BY <1>11, <2>1, <2>2, PlaceNext
<1> HIDE DEF s12, D12
<1>13. Placed(s13, 18, c, D13)
  <2>1. /\ "sound_rto" \in DOMAIN Place
        /\ Place["sound_rto"].from = 17
        /\ Place["sound_rto"].n = 1
    BY Places DEF Place, AdvancedConfig, Raw, Field
  <2>2. 17 \in Nat /\ 17 + 1 = 18
    OBVIOUS
  <2> QED  BY <1>12, <2>1, <2>2, PlaceNext
<1> HIDE DEF s13, D13
<1>14. Placed(s14, 19, c, D14)
  <2>1. /\ "sound_cm" \in DOMAIN Place
        /\ Place["sound_cm"].from = 18
        /\ Place["sound_cm"].n = 1
    BY Places DEF Place, AdvancedConfig, Raw, Field
  <2>2. 18 \in Nat /\ 18 + 1 = 19
    OBVIOUS
  <2> QED  BY <1>13, <2>1, <2>2, PlaceNext
<1> HIDE DEF s14, D14
<1>15. Placed(s15, 20, c, D15)
  <2>1. /\ "sound_confirmation" \in DOMAIN Place
        /\ Place["sound_confirmation"].from = 19
        /\ Place["sound_confirmation"].n = 1
    BY Places DEF Place, AdvancedConfig, Raw, Field
  <2>2. 19 \in Nat /\ 19 + 1 = 20
    OBVIOUS
  <2> QED  BY <1>14, <2>1, <2>2, PlaceNext
<1> HIDE DEF s15, D15
<1>16. Placed(s16, 21, c, D16)
  <2>1. /\ "sound_level" \in DOMAIN Place
        /\ Place["sound_level"].from = 20
        /\ Place["sound_level"].n = 1
    BY Places DEF Place, AdvancedConfig, Raw, Field
  <2>2. 20 \in Nat /\ 20 + 1 = 21
    OBVIOUS
  <2> QED  BY <1>15, <2>1, <2>2, PlaceNext
<1> HIDE DEF s16, D16
<1>17. Placed(s17, 22, c, D17)
  <2>1. /\ "single_button_press_action" \in DOMAIN Place
        /\ Place["single_button_press_action"].from = 21
        /\ Place["single_button_press_action"].n = 1
    BY Places DEF Place, AdvancedConfig, Raw, Field
  <2>2. 21 \in Nat /\ 21 + 1 = 22
    OBVIOUS
  <2> QED  BY <1>16, <2>1, <2>2, PlaceNext
<1> HIDE DEF s17, D17
<1>13a. Placed(s18, 23, c, D18)
  <2>1. /\ "double_button_press_action" \in DOMAIN Place
        /\ Place["double_button_press_action"].from = 22
        /\ Place["double_button_press_action"].n = 1
    BY Places DEF Place, AdvancedConfig, Raw, Field
  <2>2. 22 \in Nat /\ 22 + 1 = 23
    OBVIOUS
  <2> QED  BY <1>17, <2>1, <2>2, PlaceNext
<1> HIDE DEF s18, D18
<1>19. Placed(s19, 24, c, D19)
  <2>1. /\ "battery_type" \in DOMAIN Place
        /\ Place["battery_type"].from = 23
        /\ Place["battery_type"].n = 1
    BY Places DEF Place, AdvancedConfig, Raw, Field
  <2>2. 23 \in Nat /\ 23 + 1 = 24
    OBVIOUS
  <2> QED  BY <1>13a, <2>1, <2>2, PlaceNext
<1> HIDE DEF s19, D19
<1>20. Placed(s20, 25, c, D20)
  <2>1. /\ "automatic_battery_type_detection" \in DOMAIN Place
        /\ Place["automatic_battery_type_detection"].from = 24
        /\ Place["automatic_battery_type_detection"].n = 1
    BY Places DEF Place, AdvancedConfig, Flag, Field
  <2>2. 24 \in Nat /\ 24 + 1 = 25
    OBVIOUS
  <2> QED  BY <1>19, <2>1, <2>2, PlaceNext
<1> HIDE DEF s20, D20
<1> QED  BY <1>0, <1>20 DEF serialize, s1, s2, s3, s4, s5, s6, s7, s8, s9, s10, s11, s12,
    s13, s14, s15, s16, s17, s18, s19, s20

\* Every byte of the message is one of a field.
LEMMA PlacesCover ==
    ASSUME NEW i \in 1 .. 25
    PROVE  \E name \in DOMAIN Place : \E j \in 1 .. Place[name].n : i = Place[name].from + j
<1>1. \A name \in DOMAIN Place : Place[name].from \in Nat /\ Place[name].n \in Nat
  BY PlacesBounded
<1> DEFINE Has(name, from, n) ==
              name \in DOMAIN Place /\ Place[name].from = from /\ Place[name].n = n
<1>2. /\ Has("intercom_id", 0, 2) /\ Has("bus_mode_switch", 2, 1)
      /\ Has("short_circuit_duration_ms", 3, 2) /\ Has("electric_strike_delay_ms", 5, 2)
      /\ Has("random_electric_strike_delay", 7, 1) /\ Has("electric_strike_duration_ms", 8, 2)
      /\ Has("disable_rto_after_ring", 10, 1) /\ Has("rto_timeout_minutes", 11, 1)
      /\ Has("doorbell_suppression", 12, 1) /\ Has("doorbell_suppression_duration_ms", 13, 2)
      /\ Has("sound_ring", 15, 1) /\ Has("sound_open", 16, 1) /\ Has("sound_rto", 17, 1)
      /\ Has("sound_cm", 18, 1) /\ Has("sound_confirmation", 19, 1) /\ Has("sound_level", 20, 1)
      /\ Has("single_button_press_action", 21, 1) /\ Has("double_button_press_action", 22, 1)
      /\ Has("battery_type", 23, 1) /\ Has("automatic_battery_type_detection", 24, 1)
  BY DEF Place, AdvancedConfig, Raw, Flag, Field
<1>3. \A name, from, n : (Has(name, from, n) /\ n \in {1, 2} /\ from \in Nat) =>
        /\ i = from + 1 =>
             \E m \in DOMAIN Place : \E j \in 1 .. Place[m].n : i = Place[m].from + j
        /\ (n = 2 /\ i = from + 2) =>
             \E m \in DOMAIN Place : \E j \in 1 .. Place[m].n : i = Place[m].from + j
  <2> TAKE name, from, n
  <2> HAVE Has(name, from, n) /\ n \in {1, 2} /\ from \in Nat
  <2>1. 1 \in 1 .. Place[name].n /\ (n = 2 => 2 \in 1 .. Place[name].n)
    OBVIOUS
  <2> QED  BY <2>1
<1> HIDE DEF Has
<1>4. i \in {1, 2, 3, 4, 5, 6, 7, 8, 9, 10, 11, 12, 13, 14, 15, 16, 17, 18, 19, 20, 21, 22, 23,
             24, 25}
  OBVIOUS
<1> QED  BY <1>2, <1>3, <1>4, SMTT(60)

\* What a field of a configuration is parsed to: its bytes, or for a flag, zero or one.
ParsedTo(value, name, payload) ==
    /\ value \in Seq(Byte) /\ Len(value) = Place[name].n
    /\ Place[name].kind = "raw" =>
         \A i \in 1 .. Place[name].n : value[i] = payload[Place[name].from + i]
    /\ Place[name].kind = "bool" => value = <<IF payload[Place[name].from + 1] # 0 THEN 1 ELSE 0>>

LEMMA ParsedConfig ==
    ASSUME NEW payload \in Seq(Byte), Len(payload) >= 25
    PROVE  /\ DOMAIN Parse("ADVANCED_CONFIG", payload) = DOMAIN Place
           /\ \A name \in DOMAIN Place :
                ParsedTo(Parse("ADVANCED_CONFIG", payload)[name], name, payload)
<1>1. Layout("ADVANCED_CONFIG", payload).fields = Place
  BY DEF Layout, Place
<1>2. DOMAIN Parse("ADVANCED_CONFIG", payload) = DOMAIN Place
  BY <1>1 DEF Parse
<1>3. ASSUME NEW name \in DOMAIN Place
      PROVE  ParsedTo(Parse("ADVANCED_CONFIG", payload)[name], name, payload)
  <2> DEFINE f == Place[name]
             b == Slice(payload, f.from, f.from + f.n)
             value == Parse("ADVANCED_CONFIG", payload)[name]
  <2>1. /\ f.from \in Nat /\ f.n \in Nat /\ f.n > 0 /\ f.from + f.n <= 25 /\ f.needs = 0
        /\ f.kind = "raw" \/ (f.kind = "bool" /\ f.n = 1)
    BY PlacesBounded
  <2>2. value = Read(f, payload)
    BY <1>1 DEF Parse
  <2> HIDE DEF f, value
  <2>3. /\ f.from + f.n \in Nat /\ f.from <= f.from + f.n /\ f.from + f.n <= Len(payload)
        /\ (f.from + f.n) - f.from = f.n /\ ~(Len(payload) < f.needs)
        /\ ~(Len(payload) < f.from + f.n)
    BY <2>1
  <2>4. value = ReadAs(f.kind, b)
    BY <2>2, <2>3 DEF Read
  <2>5. b \in Seq(Byte) /\ Len(b) = f.n /\ \A i \in 1 .. f.n : b[i] = payload[f.from + i]
    <3> DEFINE to == f.from + f.n
    <3>1. to \in Nat /\ f.from \in Nat /\ f.from <= to /\ to <= Len(payload) /\ to - f.from = f.n
      BY <2>1, <2>3
    <3> HIDE DEF to
    <3>2. /\ Slice(payload, f.from, to) \in Seq(Byte)
          /\ Len(Slice(payload, f.from, to)) = to - f.from
          /\ \A i \in 1 .. to - f.from : Slice(payload, f.from, to)[i] = payload[f.from + i]
      BY <3>1, SliceOfBytes
    <3> QED  BY <3>1, <3>2, Zenon DEF to
  <2> HIDE DEF b
  <2>6. CASE f.kind = "raw"
    <3>1. value = b
      BY <2>4, <2>6 DEF ReadAs
    <3> QED  BY <2>5, <2>6, <3>1 DEF f, value, ParsedTo
  <2>7. CASE f.kind = "bool"
    <3>1. f.n = 1
      BY <2>1, <2>7
    <3>2. value = <<IF b[1] # 0 THEN 1 ELSE 0>> /\ b[1] = payload[f.from + 1]
      BY <2>4, <2>5, <2>7, <3>1 DEF ReadAs
    <3>3. value \in Seq(Byte) /\ Len(value) = 1
      BY <3>2 DEF Byte
    <3> QED  BY <2>7, <3>1, <3>2, <3>3 DEF f, value, ParsedTo
  <2> QED  BY <2>1, <2>6, <2>7
<1> QED  BY <1>2, <1>3

\* What a change of a configuration is.
ChangeOf(c, old) ==
    /\ c.field \in DOMAIN Place /\ Place[c.field].kind = "raw" /\ Place[c.field].n = 1
    /\ c.value \in Seq(Byte) /\ Len(c.value) = 1
    /\ c.bit # 0 =>
         \A bit \in {1, 2, 4, 8, 16, 32, 64, 128} \ {c.bit} :
             HasBit(c.value[1], bit) = HasBit(old.doorbell_suppression[1], bit)

LEMMA ChangesKeepBits ==
    ASSUME NEW old, old.doorbell_suppression \in Seq(Byte), Len(old.doorbell_suppression) = 1,
           NEW c \in Changes(old)
    PROVE  ChangeOf(c, old)
<1>1. /\ "sound_level" \in DOMAIN Place /\ Place["sound_level"].kind = "raw"
      /\ Place["sound_level"].n = 1
  BY DEF Place, AdvancedConfig, Raw, Field
<1>2. /\ "doorbell_suppression" \in DOMAIN Place /\ Place["doorbell_suppression"].kind = "raw"
      /\ Place["doorbell_suppression"].n = 1
  BY DEF Place, AdvancedConfig, Raw, Field
<1>3. CASE \E level \in Levels : c = [field |-> "sound_level", value |-> <<level>>, bit |-> 0]
  <2>1. PICK level \in Byte : c = [field |-> "sound_level", value |-> <<level>>, bit |-> 0]
    BY <1>3, BodiesAssumption
  <2> QED  BY <1>1, <2>1 DEF ChangeOf
<1>4. CASE \E bit \in {1, 2, 4}, on \in BOOLEAN :
             c = [field |-> "doorbell_suppression", bit |-> bit,
                  value |-> <<SetBit(old.doorbell_suppression[1], bit, on)>>]
  <2>1. PICK bit \in {1, 2, 4}, on \in BOOLEAN :
           c = [field |-> "doorbell_suppression", bit |-> bit,
                value |-> <<SetBit(old.doorbell_suppression[1], bit, on)>>]
    BY <1>4
  <2>2. old.doorbell_suppression[1] \in Byte
    OBVIOUS
  <2> DEFINE mask == SetBit(old.doorbell_suppression[1], bit, on)
  <2>3. /\ mask \in Byte
        /\ \A other \in {1, 2, 4, 8, 16, 32, 64, 128} \ {bit} :
             HasBit(mask, other) = HasBit(old.doorbell_suppression[1], other)
    BY <2>2, SetBitKeepsOthers
  <2>4. c.field = "doorbell_suppression" /\ c.value = <<mask>> /\ c.bit = bit
    BY <2>1
  <2> HIDE DEF mask
  <2>5. c.value \in Seq(Byte) /\ Len(c.value) = 1 /\ c.value[1] = mask
    BY <2>3, <2>4
  <2> QED  BY <1>2, <2>3, <2>4, <2>5 DEF ChangeOf
<1> QED  BY <1>3, <1>4 DEF Changes

\* What is written differs from what there was before in the field that was changed.
Keeps(before, c, written) ==
    /\ written \in Seq(Byte) /\ Len(written) = 25
    /\ Parse("ADVANCED_CONFIG", written)
         = [Parse("ADVANCED_CONFIG", before) EXCEPT ![c.field] = c.value]
    /\ \A i \in 1 .. 25 :
         \/ written[i] = before[i]
         \/ i - 1 \in Place[c.field].from .. Place[c.field].from + Place[c.field].n - 1
         \/ before[i] > 1 /\ written[i] = 1

\* A configuration is written as it is parsed, and so is one with a field changed.
LEMMA WrittenBack ==
    ASSUME NEW before \in Seq(Byte), Len(before) >= 25,
           NEW c, ChangeOf(c, Parse("ADVANCED_CONFIG", before))
    PROVE  Keeps(before, c, serialize([Parse("ADVANCED_CONFIG", before)
                                         EXCEPT ![c.field] = c.value]))
<1> DEFINE old == Parse("ADVANCED_CONFIG", before)
           new == [old EXCEPT ![c.field] = c.value]
           written == serialize(new)
           again == Parse("ADVANCED_CONFIG", written)
<1>1. DOMAIN old = DOMAIN Place /\ \A name \in DOMAIN Place : ParsedTo(old[name], name, before)
  BY ParsedConfig
<1>2. /\ c.field \in DOMAIN Place /\ Place[c.field].kind = "raw" /\ Place[c.field].n = 1
      /\ c.value \in Seq(Byte) /\ Len(c.value) = 1
  BY DEF ChangeOf
<1>3. DOMAIN new = DOMAIN Place /\ new[c.field] = c.value
      /\ \A name \in DOMAIN Place : name # c.field => new[name] = old[name]
  BY <1>1, <1>2
<1>5. old = [name \in DOMAIN old |-> old[name]] /\ new = [name \in DOMAIN new |-> new[name]]
      /\ again = [name \in DOMAIN again |-> again[name]]
  BY DEF Parse
<1> HIDE DEF old, new, written, again
<1>6. Sized(new)
  BY <1>1, <1>2, <1>3 DEF Sized, ParsedTo
<1>7. Placed(written, 25, new, DOMAIN Place)
  BY <1>6, SerializePlaces DEF written
<1>8. written \in Seq(Byte) /\ Len(written) = 25
  BY <1>7 DEF Placed
<1>9. /\ DOMAIN again = DOMAIN Place
      /\ \A name \in DOMAIN Place : ParsedTo(again[name], name, written)
  <2>1. /\ DOMAIN Parse("ADVANCED_CONFIG", written) = DOMAIN Place
        /\ \A name \in DOMAIN Place :
             ParsedTo(Parse("ADVANCED_CONFIG", written)[name], name, written)
    <3>1. Len(written) >= 25
      BY <1>8
    <3> QED  BY <1>8, <3>1, ParsedConfig
  <2> QED  BY <2>1, Zenon DEF again
<1>10. ASSUME NEW name \in DOMAIN Place
       PROVE  again[name] = new[name]
  <2>1. /\ Place[name].from \in Nat /\ Place[name].n \in Nat
        /\ Place[name].kind = "raw" \/ (Place[name].kind = "bool" /\ Place[name].n = 1)
    BY PlacesBounded
  <2>2. \A i \in 1 .. Place[name].n : written[Place[name].from + i] = new[name][i]
    BY <1>7 DEF Placed
  <2>3. /\ new[name] \in Seq(Byte) /\ Len(new[name]) = Place[name].n
        /\ again[name] \in Seq(Byte) /\ Len(again[name]) = Place[name].n
    BY <1>6, <1>9 DEF Sized, ParsedTo
  <2>4. CASE Place[name].kind = "raw"
    <3>1. \A i \in 1 .. Place[name].n : again[name][i] = written[Place[name].from + i]
      BY <1>9, <2>4 DEF ParsedTo
    <3>2. \A i \in 1 .. Place[name].n : again[name][i] = new[name][i]
      BY <2>2, <3>1
    <3> QED  BY <2>3, <3>2
  <2>5. CASE Place[name].kind = "bool"
    <3>1. name # c.field /\ Place[name].n = 1
      BY <1>2, <2>1, <2>5
    <3>2. new[name] = <<IF before[Place[name].from + 1] # 0 THEN 1 ELSE 0>>
      BY <1>1, <1>3, <2>5, <3>1 DEF ParsedTo
    <3>3. again[name] = <<IF written[Place[name].from + 1] # 0 THEN 1 ELSE 0>>
      BY <1>9, <2>5 DEF ParsedTo
    <3>4. written[Place[name].from + 1] = new[name][1]
      BY <2>2, <3>1
    <3>5. new[name][1] \in {0, 1} /\ new[name] = <<new[name][1]>>
      BY <3>2
    <3> QED  BY <3>3, <3>4, <3>5
  <2> QED  BY <2>1, <2>4, <2>5
<1>11. again = new
  BY <1>3, <1>5, <1>9, <1>10
<1>12. ASSUME NEW i \in 1 .. 25,
              i - 1 \notin Place[c.field].from .. Place[c.field].from + Place[c.field].n - 1
       PROVE  written[i] = before[i] \/ (before[i] > 1 /\ written[i] = 1)
  <2>1. PICK name \in DOMAIN Place : \E j \in 1 .. Place[name].n : i = Place[name].from + j
    BY PlacesCover
  <2>2. PICK j \in 1 .. Place[name].n : i = Place[name].from + j
    BY <2>1
  <2>3. /\ Place[name].from \in Nat /\ Place[name].n \in Nat
        /\ Place[name].kind = "raw" \/ (Place[name].kind = "bool" /\ Place[name].n = 1)
    BY PlacesBounded
  <2>4. name # c.field
    BY <1>12, <2>2, <2>3
  <2>5. written[i] = old[name][j]
    BY <1>3, <1>7, <2>2, <2>4 DEF Placed
  <2>6. CASE Place[name].kind = "raw"
    BY <1>1, <2>2, <2>5, <2>6 DEF ParsedTo
  <2>7. CASE Place[name].kind = "bool"
    <3>1. j = 1
      BY <2>3, <2>7
    <3>2. written[i] = IF before[i] # 0 THEN 1 ELSE 0
      BY <1>1, <2>2, <2>5, <2>7, <3>1 DEF ParsedTo
    <3>3. \A b \in Byte : b = 0 \/ b = 1 \/ b > 1
      BY DEF Byte
    <3>4. before[i] \in Byte
      OBVIOUS
    <3>5. CASE before[i] > 1
      <4>1. before[i] # 0
        BY <3>5
      <4> QED  BY <3>2, <3>5, <4>1
    <3>6. CASE before[i] \in {0, 1}
      BY <3>2, <3>6
    <3> QED  BY <3>3, <3>4, <3>5, <3>6
  <2> QED  BY <2>3, <2>6, <2>7
<1> QED  BY <1>8, <1>11, <1>12 DEF old, new, written, again, Keeps

\* What is before the challenge and the PIN.
LEMMA BeforeChallenge ==
    ASSUME NEW config, serialize(config) \in Seq(Byte), Len(serialize(config)) = 25
    PROVE  LET message == build_set_advanced_config(config, Nonce, <<57, 48>>)
           IN  Slice(message, 0, Len(message) - 34) = serialize(config)
<1> DEFINE s == serialize(config)
           pin == <<57, 48>>
           message == s \o Nonce \o pin
<1>1. Nonce \in Seq(Byte) /\ Len(Nonce) = 32 /\ pin \in Seq(Byte) /\ Len(pin) = 2
  BY BodiesAssumption DEF Byte
<1>2. s \in Seq(Byte) /\ Len(s) = 25
  OBVIOUS
<1> HIDE DEF s, pin
<1>3. message \in Seq(Byte) /\ Len(message) = 59 /\ \A i \in 1 .. 25 : message[i] = s[i]
  <2>1. PICK t \in Seq(Byte) :
          t = s \o Nonce /\ Len(t) = Len(s) + Len(Nonce) /\ \A i \in 1 .. Len(s) : t[i] = s[i]
    BY <1>1, <1>2, Join, Zenon
  <2>2. PICK u \in Seq(Byte) :
          u = t \o pin /\ Len(u) = Len(t) + Len(pin) /\ \A i \in 1 .. Len(t) : u[i] = t[i]
    BY <1>1, Join, Zenon
  <2>3. /\ Len(t) = Len(s) + Len(Nonce) /\ \A i \in 1 .. Len(s) : t[i] = s[i]
        /\ Len(u) = Len(t) + Len(pin) /\ \A i \in 1 .. Len(t) : u[i] = t[i]
    BY <2>1, <2>2, Zenon
  <2>4. message = u
    BY <2>1, <2>2, Zenon
  <2>5. Len(u) = 59 /\ \A i \in 1 .. 25 : u[i] = s[i]
    BY <1>1, <1>2, <2>3
  <2> QED  BY <2>4, <2>5
<1> HIDE DEF message
<1>4. Slice(message, 0, 25) = SubSeq(message, 1, 25)
  BY <1>3 DEF Slice
<1>5. SubSeq(message, 1, 25) = s
  BY <1>2, <1>3
<1>6. build_set_advanced_config(config, Nonce, <<57, 48>>) = message /\ Len(message) - 34 = 25
  BY <1>3 DEF build_set_advanced_config, message, s, pin
<1> QED  BY <1>4, <1>5, <1>6 DEF s

SettingsInv ==
    /\ advanced = <<>> \/ advanced \in Seq(Byte)
    /\ change.field # "none" =>
         /\ change.before \in Seq(Byte) /\ Len(change.before) >= 25
         /\ ChangeOf(change, Parse("ADVANCED_CONFIG", change.before))
         /\ Keeps(change.before, change, advanced)

LEMMA WriteBackStep ==
    ASSUME SettingsInv, WriteBack
    PROVE  SettingsInv'
<1>1. PICK fetched \in IF advanced = <<>> THEN Payloads ELSE {advanced} :
         /\ Accepts("ADVANCED_CONFIG", fetched)
         /\ \E c \in Changes(Parse("ADVANCED_CONFIG", fetched)) :
              LET config == [Parse("ADVANCED_CONFIG", fetched) EXCEPT ![c.field] = c.value]
                  message == build_set_advanced_config(config, Nonce, <<57, 48>>)
              IN  /\ advanced' = Slice(message, 0, Len(message) - 34)
                  /\ change' = [field |-> c.field, value |-> c.value, bit |-> c.bit,
                                before |-> fetched, count |-> change.count + 1]
  BY DEF WriteBack
<1> DEFINE old == Parse("ADVANCED_CONFIG", fetched)
<1>2. fetched \in Seq(Byte)
  BY BodiesAssumption DEF SettingsInv
<1>3. Len(fetched) >= 25
  <2>1. Layout("ADVANCED_CONFIG", fetched).size = 25
    BY DEF Layout, AdvancedConfig
  <2> QED  BY <1>1, <2>1 DEF Accepts, Require
<1>4. PICK c \in Changes(old) :
        LET config == [old EXCEPT ![c.field] = c.value]
            message == build_set_advanced_config(config, Nonce, <<57, 48>>)
        IN  /\ advanced' = Slice(message, 0, Len(message) - 34)
            /\ change' = [field |-> c.field, value |-> c.value, bit |-> c.bit,
                          before |-> fetched, count |-> change.count + 1]
  BY <1>1
<1> DEFINE config == [old EXCEPT ![c.field] = c.value]
<1>5. ChangeOf(c, old)
  <2>1. "doorbell_suppression" \in DOMAIN Place /\ Place["doorbell_suppression"].n = 1
    BY DEF Place, AdvancedConfig, Raw, Field
  <2>2. old.doorbell_suppression \in Seq(Byte) /\ Len(old.doorbell_suppression) = 1
    BY <1>2, <1>3, <2>1, ParsedConfig DEF ParsedTo
  <2> HIDE DEF old
  <2> QED  BY <2>2, ChangesKeepBits
<1>6. Keeps(fetched, c, serialize(config))
  BY <1>2, <1>3, <1>5, WrittenBack
<1>7. advanced' = serialize(config)
  <2>1. serialize(config) \in Seq(Byte) /\ Len(serialize(config)) = 25
    BY <1>6 DEF Keeps
  <2> HIDE DEF config
  <2>2. LET message == build_set_advanced_config(config, Nonce, <<57, 48>>)
        IN  Slice(message, 0, Len(message) - 34) = serialize(config)
    BY <2>1, BeforeChallenge
  <2> QED  BY <1>4, <2>2 DEF config
<1>8. /\ change'.field = c.field /\ change'.value = c.value /\ change'.bit = c.bit
      /\ change'.before = fetched
  BY <1>4
<1> HIDE DEF config, old
<1>9. ChangeOf(change', Parse("ADVANCED_CONFIG", change'.before))
  BY <1>5, <1>8 DEF ChangeOf, old
<1>10. Keeps(change'.before, change', advanced')
  BY <1>6, <1>7, <1>8 DEF Keeps
<1>11. advanced' \in Seq(Byte)
  BY <1>6, <1>7 DEF Keeps
<1> QED  BY <1>2, <1>3, <1>8, <1>9, <1>10, <1>11 DEF SettingsInv

LEMMA SettingsInvHolds == Spec => []SettingsInv
<1>1. Init => SettingsInv
  BY DEF Init, SettingsInv
<1>2. SettingsInv /\ [Next]_vars => SettingsInv'
  <2> SUFFICES ASSUME SettingsInv, [Next]_vars PROVE SettingsInv'
    OBVIOUS
  <2>1. CASE UNCHANGED settings
    BY <2>1 DEF settings, SettingsInv
  <2>2. ASSUME NEW m \in PairingMessages, NEW message \in Frames(m), Send(m, message)
        PROVE  UNCHANGED settings
    BY <2>2 DEF Send
  <2>3. ASSUME NEW at \in DOMAIN wire, NEW bit \in {1, 128}, NEW all \in BOOLEAN,
               Spoil(at, bit, all)
        PROVE  UNCHANGED settings
    BY <2>3 DEF Spoil
  <2>4. ASSUME NEW n \in Indications, Indicate(n)
        PROVE  UNCHANGED settings
    BY <2>4 DEF Indicate
  <2>5. ASSUME NEW kind \in Kinds, NEW payload \in Payloads, Decrypted(kind, payload)
        PROVE  UNCHANGED settings
    BY <2>5 DEF Decrypted
  <2>6. ASSUME NEW name \in Names, BuildAuthorization(name) \/ BuildLockAction(name)
        PROVE  UNCHANGED settings
    BY <2>6 DEF BuildAuthorization, BuildLockAction
  <2>7. CASE WriteBack
    BY <2>7, WriteBackStep
  <2>8. CASE UNCHANGED vars
    BY <2>1, <2>8 DEF vars
  <2> QED  BY <2>1, <2>2, <2>3, <2>4, <2>5, <2>6, <2>7, <2>8 DEF Next
<1> QED  BY <1>1, <1>2, PTL DEF Spec

\* A setting that is changed is stored without a change to another: whatever the Opener sent,
\* what is written back differs from it in the bytes of that setting, and for a switch of a
\* mask in its bit, but for flags that were neither zero nor one (device.py:183-194,
\* messages.py:215-265, switch.py:190-196).
THEOREM SettingsAreKept == Spec => []WriteBackKeepsOthers
<1>1. SettingsInv => WriteBackKeepsOthers
  BY DEF SettingsInv, WriteBackKeepsOthers, Keeps, ChangeOf, Place
<1> QED  BY <1>1, SettingsInvHolds, PTL

-----------------------------------------------------------------------------
(* Names.                                                                  *)

\* The bytes of a name have no zero among them.
NonZero == Byte \ {0}

LEMMA FlattenHasSteps ==
    ASSUME NEW name \in Seq(Seq(NonZero)), Len(name) # 0
    PROVE  \E f : /\ f = [i \in 1 .. Len(name) |->
                            IF i = 1 THEN name[i] ELSE f[i - 1] \o name[i]]
                  /\ FlattenSeq(name) = f[Len(name)]
<1> DEFINE Steps(g, n) == g = [i \in 1 .. n |-> IF i = 1 THEN name[i] ELSE g[i - 1] \o name[i]]
           T == {n \in Nat : \E g : Steps(g, n)}
<1>1. 0 \in T
  <2>1. Steps([i \in 1 .. 0 |-> i], 0)
    OBVIOUS
  <2> QED  BY <2>1
<1>2. ASSUME NEW n \in Nat, n \in T
      PROVE  n + 1 \in T
  <2>1. PICK g : Steps(g, n)
    BY <1>2
  <2> DEFINE last == IF n = 0 THEN name[n + 1] ELSE g[n] \o name[n + 1]
             h == [i \in 1 .. n + 1 |-> IF i <= n THEN g[i] ELSE last]
  <2>2. ASSUME NEW i \in 1 .. n + 1
        PROVE  h[i] = IF i = 1 THEN name[i] ELSE h[i - 1] \o name[i]
    <3>1. CASE i \in 1 .. n
      <4>1. \A j \in 1 .. n : g[j] = IF j = 1 THEN name[j] ELSE g[j - 1] \o name[j]
        BY <2>1, Zenon
      <4>2. h[i] = g[i] /\ (i # 1 => h[i - 1] = g[i - 1])
        BY <3>1
      <4> HIDE DEF h
      <4> QED  BY <3>1, <4>1, <4>2
    <3>2. CASE i = n + 1
      <4>1. h[i] = last /\ i - 1 = n /\ (n # 0 => h[n] = g[n]) /\ (i = 1 <=> n = 0)
        BY <3>2
      <4> HIDE DEF h
      <4> QED  BY <3>2, <4>1
    <3> QED  BY <3>1, <3>2
  <2>3. h = [i \in 1 .. n + 1 |-> IF i = 1 THEN name[i] ELSE h[i - 1] \o name[i]]
    <3>1. h = [i \in 1 .. n + 1 |-> h[i]]
      BY Zenon
    <3> HIDE DEF h
    <3> QED  BY <2>2, <3>1, Zenon
  <2>4. n + 1 \in Nat
    OBVIOUS
  <2> HIDE DEF h
  <2> QED  BY <2>3, <2>4
<1>3. Len(name) \in T
  <2>1. Len(name) \in Nat
    OBVIOUS
  <2> HIDE DEF T
  <2>2. Nat \subseteq T
    BY <1>1, <1>2, InductionOverSets
  <2> QED  BY <2>1, <2>2
<1>4. PICK g : Steps(g, Len(name))
  BY <1>3
<1> DEFINE flatten[i \in 1 .. Len(name)] ==
             IF i = 1 THEN name[i] ELSE flatten[i - 1] \o name[i]
<1>5. flatten = [i \in 1 .. Len(name) |-> IF i = 1 THEN name[i] ELSE flatten[i - 1] \o name[i]]
  BY <1>4, Zenon
<1>6. FlattenSeq(name) = flatten[Len(name)]
  BY DEF FlattenSeq
<1> HIDE DEF flatten
<1> QED  BY <1>5, <1>6

LEMMA Utf8OfName ==
    ASSUME NEW name \in Seq(Seq(NonZero))
    PROVE  Utf8(name) \in Seq(NonZero)
<1>1. CASE Len(name) = 0
  <2>1. Utf8(name) = name /\ name = <<>>
    BY <1>1 DEF Utf8, FlattenSeq
  <2> QED  BY <2>1
<1>2. CASE Len(name) # 0
  <2>1. PICK f : /\ f = [i \in 1 .. Len(name) |->
                           IF i = 1 THEN name[i] ELSE f[i - 1] \o name[i]]
                 /\ FlattenSeq(name) = f[Len(name)]
    BY <1>2, FlattenHasSteps
  <2>2. \A i \in 1 .. Len(name) : f[i] = IF i = 1 THEN name[i] ELSE f[i - 1] \o name[i]
    BY <2>1, Zenon
  <2>3. Len(name) \in Nat /\ \A i \in 1 .. Len(name) : name[i] \in Seq(NonZero)
    OBVIOUS
  <2> DEFINE T == {n \in Nat : n \in 1 .. Len(name) => f[n] \in Seq(NonZero)}
  <2>4. 0 \in T
    OBVIOUS
  <2>5. ASSUME NEW n \in Nat, n \in T
        PROVE  n + 1 \in T
    <3> SUFFICES ASSUME n + 1 \in 1 .. Len(name)
                 PROVE  f[n + 1] \in Seq(NonZero)
      OBVIOUS
    <3>1. CASE n = 0
      BY <2>2, <2>3, <3>1
    <3>2. CASE n # 0
      <4>1. n \in 1 .. Len(name) /\ (n + 1) - 1 = n /\ n + 1 # 1
        BY <2>3, <3>2
      <4>2. f[n] \in Seq(NonZero) /\ name[n + 1] \in Seq(NonZero)
        BY <2>3, <2>5, <4>1
      <4>3. f[n + 1] = f[n] \o name[n + 1]
        BY <2>2, <4>1
      <4> HIDE DEF T
      <4> QED  BY <4>2, <4>3
    <3> QED  BY <3>1, <3>2
  <2> HIDE DEF T
  <2>6. Len(name) \in T
    BY <2>3, <2>4, <2>5, InductionOverSets
  <2>7. Len(name) \in 1 .. Len(name)
    BY <1>2, <2>3
  <2> QED  BY <2>1, <2>6, <2>7 DEF T, Utf8
<1> QED  BY <1>1, <1>2

\* A name as it is sent: as many bytes as its field has, and what is not padding are the bytes
\* of the name that fit.
LEMMA EncodedName ==
    ASSUME NEW name, Utf8(name) \in Seq(NonZero), NEW length \in Nat
    PROVE  LET e == encode_name(name, length)
           IN  /\ e \in Seq(Byte) /\ Len(e) = length
               /\ IsPrefix(Strip(e), Utf8(name))
               /\ Len(Utf8(name)) <= length => Strip(e) = Utf8(name)
<1> DEFINE utf == Utf8(name)
           k == IF length < Len(utf) THEN length ELSE Len(utf)
           cut == Slice(utf, 0, length)
           zeros == Zeros(length - Len(cut))
           e == cut \o zeros
<1>1. utf \in Seq(NonZero) /\ Len(utf) \in Nat /\ \A i \in 1 .. Len(utf) : utf[i] \in NonZero
  OBVIOUS
<1>2. e = encode_name(name, length)
  BY DEF encode_name, Padded
<1> HIDE DEF utf
<1>3. k \in Nat /\ k <= Len(utf) /\ k <= length /\ (Len(utf) <= length => k = Len(utf))
  BY <1>1
<1>4. cut = SubSeq(utf, 1, k)
  BY DEF Slice
<1> HIDE DEF k, cut
<1>5. cut \in Seq(Byte) /\ Len(cut) = k /\ \A i \in 1 .. k : cut[i] = utf[i]
  BY <1>1, <1>3, <1>4 DEF NonZero
<1>6. zeros \in Seq(Byte) /\ Len(zeros) = length - k /\ \A i \in 1 .. length - k : zeros[i] = 0
  <2>1. length - k \in Nat /\ 0 \in Byte
    BY <1>3 DEF Byte
  <2> QED  BY <1>5, <2>1 DEF Zeros
<1> HIDE DEF zeros
<1>7. PICK u \in Seq(Byte) :
        /\ u = e /\ Len(u) = Len(cut) + Len(zeros)
        /\ \A i \in 1 .. Len(cut) : u[i] = cut[i]
        /\ \A i \in 1 .. Len(zeros) : u[Len(cut) + i] = zeros[i]
  BY <1>5, <1>6, Join, Zenon
<1>8. /\ Len(u) = Len(cut) + Len(zeros) /\ \A i \in 1 .. Len(cut) : u[i] = cut[i]
      /\ \A i \in 1 .. Len(zeros) : u[Len(cut) + i] = zeros[i]
  BY <1>7, Zenon
<1>9. u = e
  BY <1>7, Zenon
<1> HIDE DEF e
<1>10. /\ Len(u) = length /\ \A i \in 1 .. k : u[i] = utf[i]
       /\ \A i \in 1 .. length - k : u[k + i] = 0
  <2>1. Len(u) = length
    BY <1>3, <1>5, <1>6, <1>8
  <2>2. \A i \in 1 .. k : u[i] = utf[i]
    BY <1>5, <1>8
  <2>3. \A i \in 1 .. length - k : u[k + i] = 0
    BY <1>5, <1>6, <1>8
  <2> QED  BY <2>1, <2>2, <2>3
<1>11. \A i \in 1 .. k : u[i] # 0
  <2> TAKE i \in 1 .. k
  <2>1. utf[i] \in NonZero
    BY <1>1, <1>3
  <2> QED  BY <1>10, <2>1 DEF NonZero
<1>12. \A i \in k + 1 .. length : u[i] = 0
  <2> TAKE i \in k + 1 .. length
  <2>1. i - k \in 1 .. length - k /\ k + (i - k) = i
    BY <1>3
  <2> QED  BY <1>10, <2>1
<1>13. Strip(u) = SubSeq(u, 1, k)
  <2>1. PICK n \in 0 .. Len(u) : /\ Strip(u) = SubSeq(u, 1, n) /\ (n # 0 => u[n] # 0)
                                 /\ \A i \in n + 1 .. Len(u) : u[i] = 0
    BY StripOfBytes
  <2>2. n <= k
    <3>1. n > k => n \in k + 1 .. length
      BY <1>3, <1>10
    <3> QED  BY <1>3, <1>12, <2>1, <3>1
  <2>3. k <= n
    <3>1. n < k => k \in n + 1 .. Len(u) /\ k \in 1 .. k
      BY <1>3, <1>10
    <3> QED  BY <1>3, <1>11, <2>1, <3>1
  <2>4. n = k
    BY <1>3, <2>2, <2>3
  <2> QED  BY <2>1, <2>4
<1>14. SubSeq(u, 1, k) = SubSeq(utf, 1, k) /\ Len(SubSeq(utf, 1, k)) = k
  BY <1>1, <1>3, <1>10
<1>15. IsPrefix(Strip(u), utf)
  <2>1. SubSeq(SubSeq(utf, 1, k), 1, k) = SubSeq(utf, 1, k)
    BY <1>1, <1>3
  <2> QED  BY <1>3, <1>13, <1>14, <2>1 DEF IsPrefix
<1>16. Len(utf) <= length => Strip(u) = utf
  <2>1. SubSeq(utf, 1, Len(utf)) = utf
    BY <1>1
  <2> QED  BY <1>3, <1>13, <1>14, <2>1
<1> QED  BY <1>2, <1>9, <1>10, <1>15, <1>16 DEF utf

\* u is s with another piece, t, appended: what is where.
Joined(u, s, t) ==
    /\ u \in Seq(Byte) /\ Len(u) = Len(s) + Len(t)
    /\ Slice(u, Len(s), Len(u)) = t
    /\ \A a, b \in Nat : a <= b /\ b <= Len(s) => Slice(u, a, b) = Slice(s, a, b)

LEMMA SlicesOfJoin ==
    ASSUME NEW s \in Seq(Byte), NEW t \in Seq(Byte)
    PROVE  Joined(s \o t, s, t)
<1>1. PICK u \in Seq(Byte) :
        /\ u = s \o t /\ Len(u) = Len(s) + Len(t)
        /\ \A i \in 1 .. Len(s) : u[i] = s[i]
        /\ \A i \in 1 .. Len(t) : u[Len(s) + i] = t[i]
  BY Join, Zenon
<1>2. /\ Len(u) = Len(s) + Len(t) /\ \A i \in 1 .. Len(s) : u[i] = s[i]
      /\ \A i \in 1 .. Len(t) : u[Len(s) + i] = t[i]
  BY <1>1, Zenon
<1>3. Len(s) \in Nat /\ Len(t) \in Nat /\ Len(u) \in Nat
  OBVIOUS
<1>4. Slice(u, Len(s), Len(u)) = t
  <2>1. Len(s) <= Len(u) /\ Len(u) <= Len(u) /\ Len(u) - Len(s) = Len(t)
    BY <1>2, <1>3
  <2>2. /\ Slice(u, Len(s), Len(u)) \in Seq(Byte)
        /\ Len(Slice(u, Len(s), Len(u))) = Len(u) - Len(s)
        /\ \A i \in 1 .. Len(u) - Len(s) : Slice(u, Len(s), Len(u))[i] = u[Len(s) + i]
    BY <1>3, <2>1, SliceOfBytes
  <2> QED  BY <1>2, <2>1, <2>2
<1>5. ASSUME NEW a \in Nat, NEW b \in Nat, a <= b, b <= Len(s)
      PROVE  Slice(u, a, b) = Slice(s, a, b)
  <2>1. b <= Len(u) /\ b <= Len(s)
    BY <1>2, <1>3, <1>5
  <2>2. /\ Slice(u, a, b) \in Seq(Byte) /\ Len(Slice(u, a, b)) = b - a
        /\ \A i \in 1 .. b - a : Slice(u, a, b)[i] = u[a + i]
    BY <1>5, <2>1, SliceOfBytes
  <2>3. /\ Slice(s, a, b) \in Seq(Byte) /\ Len(Slice(s, a, b)) = b - a
        /\ \A i \in 1 .. b - a : Slice(s, a, b)[i] = s[a + i]
    BY <1>5, <2>1, SliceOfBytes
  <2>4. \A i \in 1 .. b - a : a + i \in 1 .. Len(s)
    BY <1>3, <1>5
  <2>5. \A i \in 1 .. b - a : Slice(u, a, b)[i] = Slice(s, a, b)[i]
    BY <1>2, <2>2, <2>3, <2>4
  <2> QED  BY <2>2, <2>3, <2>5
<1>6. Joined(u, s, t)
  BY <1>2, <1>4, <1>5, Zenon DEF Joined
<1> QED  BY <1>1, <1>6, Zenon

\* A message of five pieces: where the last two are.
Pieces(x, p, q, r, s, t) ==
    \E m, n :
        /\ m = Len(p) + Len(q) + Len(r) /\ n = m + Len(s) /\ Len(x) = n + Len(t)
        /\ Slice(x, m, n) = s /\ Slice(x, n, Len(x)) = t

LEMMA FivePieces ==
    ASSUME NEW p \in Seq(Byte), NEW q \in Seq(Byte), NEW r \in Seq(Byte), NEW s \in Seq(Byte),
           NEW t \in Seq(Byte)
    PROVE  Pieces(p \o q \o r \o s \o t, p, q, r, s, t)
<1> DEFINE u == p \o q
           v == u \o r
           w == v \o s
           x == w \o t
<1>1. Joined(u, p, q)
  BY SlicesOfJoin
<1> HIDE DEF u
<1>2. Joined(v, u, r)
  BY <1>1, SlicesOfJoin DEF Joined
<1> HIDE DEF v
<1>3. Joined(w, v, s)
  BY <1>2, SlicesOfJoin DEF Joined
<1> HIDE DEF w
<1>4. Joined(x, w, t)
  BY <1>3, SlicesOfJoin DEF Joined
<1> HIDE DEF x
<1>5. x = p \o q \o r \o s \o t
  BY Zenon DEF u, v, w, x
<1>6. /\ Len(u) = Len(p) + Len(q) /\ Len(v) = Len(u) + Len(r) /\ Len(w) = Len(v) + Len(s)
      /\ Len(x) = Len(w) + Len(t)
  BY <1>1, <1>2, <1>3, <1>4, Zenon DEF Joined
<1>7. /\ u \in Seq(Byte) /\ v \in Seq(Byte) /\ w \in Seq(Byte) /\ x \in Seq(Byte)
  BY <1>1, <1>2, <1>3, <1>4, Zenon DEF Joined
<1>8. /\ Len(v) \in Nat /\ Len(w) \in Nat /\ Len(v) <= Len(w) /\ Len(w) <= Len(w)
      /\ Len(v) = Len(p) + Len(q) + Len(r)
  BY <1>6, <1>7
<1>9. Slice(w, Len(v), Len(w)) = s
  BY <1>3, Zenon DEF Joined
<1>10. Slice(x, Len(v), Len(w)) = s /\ Slice(x, Len(w), Len(x)) = t
  BY <1>4, <1>8, <1>9, Zenon DEF Joined
<1>11. Pieces(x, p, q, r, s, t)
  BY <1>6, <1>8, <1>10, Zenon DEF Pieces
<1> QED  BY <1>5, <1>11, Zenon

\* What follows a name of any length is in its place.
AuthorizationAt(bytes, name) ==
    /\ Len(bytes) = 101 /\ Slice(bytes, 69, 101) = Nonce
    /\ Slice(bytes, 37, 69) = encode_name(name, 32)

LockActionAt(bytes, name) ==
    LET size == IF name = <<>> THEN 38 ELSE 58
    IN  Len(bytes) = size /\ Slice(bytes, size - 32, size) = Nonce

LEMMA AuthorizationPlaces ==
    ASSUME NEW name, Utf8(name) \in Seq(NonZero)
    PROVE  AuthorizationAt(build_authorization_data(Authenticator, 1, AppId, name, Nonce), name)
<1> DEFINE e == encode_name(name, 32)
           type == <<1>>
<1>1. e \in Seq(Byte) /\ Len(e) = 32
  <2>1. 32 \in Nat
    OBVIOUS
  <2> QED  BY <2>1, EncodedName, Zenon
<1>2. /\ Authenticator \in Seq(Byte) /\ Len(Authenticator) = 32
      /\ type \in Seq(Byte) /\ Len(type) = 1
      /\ AppId \in Seq(Byte) /\ Len(AppId) = 4 /\ Nonce \in Seq(Byte) /\ Len(Nonce) = 32
  BY BodiesAssumption DEF Byte
<1>3. build_authorization_data(Authenticator, 1, AppId, name, Nonce)
        = Authenticator \o type \o AppId \o e \o Nonce
  BY Zenon DEF build_authorization_data
<1> HIDE DEF e, type
<1> DEFINE x == Authenticator \o type \o AppId \o e \o Nonce
<1>0. Pieces(x, Authenticator, type, AppId, e, Nonce)
  BY <1>1, <1>2, FivePieces
<1> HIDE DEF x
<1>4. PICK m, n :
        /\ m = Len(Authenticator) + Len(type) + Len(AppId) /\ n = m + Len(e)
        /\ Len(x) = n + Len(Nonce)
        /\ Slice(x, m, n) = e /\ Slice(x, n, Len(x)) = Nonce
  BY <1>0, Zenon DEF Pieces
<1>5. /\ m = Len(Authenticator) + Len(type) + Len(AppId) /\ n = m + Len(e)
      /\ Len(x) = n + Len(Nonce)
  BY <1>4, Zenon
<1>6. m = 37 /\ n = 69 /\ Len(x) = 101
  BY <1>1, <1>2, <1>5
<1>7. x = build_authorization_data(Authenticator, 1, AppId, name, Nonce)
  BY <1>3, Zenon DEF x
<1>8. Len(x) = 101 /\ Slice(x, 69, 101) = Nonce /\ Slice(x, 37, 69) = e
  BY <1>4, <1>6, Zenon
<1> QED  BY <1>7, <1>8, Zenon DEF e, AuthorizationAt

LEMMA LockActionPlaces ==
    ASSUME NEW name, Utf8(name) \in Seq(NonZero)
    PROVE  LockActionAt(build_lock_action(3, AppId, 0, name, Nonce), name)
<1> DEFINE e == IF name = <<>> THEN <<>> ELSE encode_name(name, 20)
           n == IF name = <<>> THEN 0 ELSE 20
           action == <<3>>
           flags == <<0>>
<1>1. e \in Seq(Byte) /\ Len(e) = n
  <2>1. CASE name = <<>>
    BY <2>1
  <2>2. CASE name # <<>>
    <3>1. 20 \in Nat
      OBVIOUS
    <3>2. encode_name(name, 20) \in Seq(Byte) /\ Len(encode_name(name, 20)) = 20
      BY <3>1, EncodedName, Zenon
    <3> QED  BY <2>2, <3>2
  <2> QED  BY <2>1, <2>2
<1>2. /\ action \in Seq(Byte) /\ Len(action) = 1 /\ flags \in Seq(Byte) /\ Len(flags) = 1
      /\ AppId \in Seq(Byte) /\ Len(AppId) = 4 /\ Nonce \in Seq(Byte) /\ Len(Nonce) = 32
  BY BodiesAssumption DEF Byte
<1>3. build_lock_action(3, AppId, 0, name, Nonce) = action \o AppId \o flags \o e \o Nonce
  BY Zenon DEF build_lock_action
<1> HIDE DEF e, action, flags
<1> DEFINE size == IF name = <<>> THEN 38 ELSE 58
<1> DEFINE x == action \o AppId \o flags \o e \o Nonce
<1>0. Pieces(x, action, AppId, flags, e, Nonce)
  BY <1>1, <1>2, FivePieces
<1> HIDE DEF x
<1>4. PICK m, k :
        /\ m = Len(action) + Len(AppId) + Len(flags) /\ k = m + Len(e)
        /\ Len(x) = k + Len(Nonce)
        /\ Slice(x, m, k) = e /\ Slice(x, k, Len(x)) = Nonce
  BY <1>0, Zenon DEF Pieces
<1>5. /\ m = Len(action) + Len(AppId) + Len(flags) /\ k = m + Len(e)
      /\ Len(x) = k + Len(Nonce)
  BY <1>4, Zenon
<1>6. k = size - 32 /\ Len(x) = size
  BY <1>1, <1>2, <1>5
<1>7. x = build_lock_action(3, AppId, 0, name, Nonce)
  BY <1>3, Zenon DEF x
<1>8. Len(x) = size /\ Slice(x, size - 32, size) = Nonce
  BY <1>4, <1>6, Zenon
<1> QED  BY <1>7, <1>8, Zenon DEF LockActionAt

NameInv ==
    \/ built.kind = "none"
    \/ /\ built.kind = "AUTHORIZATION_DATA" /\ built.name \in Names
       /\ built.bytes = build_authorization_data(Authenticator, 1, AppId, built.name, Nonce)
    \/ /\ built.kind = "LOCK_ACTION" /\ built.name \in Names
       /\ built.bytes = build_lock_action(3, AppId, 0, built.name, Nonce)

LEMMA NameInvHolds == Spec => []NameInv
<1>1. Init => NameInv
  BY DEF Init, NameInv
<1>2. NameInv /\ [Next]_vars => NameInv'
  <2> SUFFICES ASSUME NameInv, [Next]_vars PROVE NameInv'
    OBVIOUS
  <2>1. CASE UNCHANGED built
    BY <2>1 DEF NameInv
  <2>2. ASSUME NEW m \in PairingMessages, NEW message \in Frames(m), Send(m, message)
        PROVE  UNCHANGED built
    BY <2>2 DEF Send, bodies
  <2>3. ASSUME NEW at \in DOMAIN wire, NEW bit \in {1, 128}, NEW all \in BOOLEAN,
               Spoil(at, bit, all)
        PROVE  UNCHANGED built
    BY <2>3 DEF Spoil, bodies
  <2>4. ASSUME NEW n \in Indications, Indicate(n)
        PROVE  UNCHANGED built
    BY <2>4 DEF Indicate, bodies
  <2>5. ASSUME NEW kind \in Kinds, NEW payload \in Payloads, Decrypted(kind, payload)
        PROVE  UNCHANGED built
    BY <2>5 DEF Decrypted
  <2>6. ASSUME NEW name \in Names, BuildAuthorization(name)
        PROVE  NameInv'
    BY <2>6 DEF BuildAuthorization, NameInv
  <2>7. ASSUME NEW name \in Names, BuildLockAction(name)
        PROVE  NameInv'
    BY <2>7 DEF BuildLockAction, NameInv
  <2>8. CASE WriteBack
    BY <2>1, <2>8 DEF WriteBack, bodies
  <2>9. CASE UNCHANGED vars
    BY <2>1, <2>9 DEF vars, bodies
  <2> QED  BY <2>1, <2>2, <2>3, <2>4, <2>5, <2>6, <2>7, <2>8, <2>9 DEF Next
<1> QED  BY <1>1, <1>2, PTL DEF Spec

\* A name of any characters, of any length, moves nothing in a payload it is put into: what
\* follows is in its place, and of the name there is what fits (messages.py:54-57, 462-492).
THEOREM NamesAreCut == Spec => []NamesKeepTheirPlace
<1>1. ASSUME NEW name \in Names
      PROVE  Utf8(name) \in Seq(NonZero)
  BY BodiesAssumption, Utf8OfName DEF NonZero
<1>2. NameInv => NamesKeepTheirPlace
  <2> SUFFICES ASSUME NameInv
               PROVE  NamesKeepTheirPlace
    OBVIOUS
  <2>1. CASE built.kind = "AUTHORIZATION_DATA"
    <3>1. /\ built.name \in Names
          /\ built.bytes = build_authorization_data(Authenticator, 1, AppId, built.name, Nonce)
      BY <2>1 DEF NameInv
    <3>2. AuthorizationAt(built.bytes, built.name)
      BY <1>1, <3>1, AuthorizationPlaces
    <3>3. /\ IsPrefix(Strip(encode_name(built.name, 32)), Utf8(built.name))
          /\ Len(Utf8(built.name)) <= 32 => Strip(encode_name(built.name, 32)) = Utf8(built.name)
      <4>1. 32 \in Nat
        OBVIOUS
      <4> QED  BY <1>1, <3>1, <4>1, EncodedName, Zenon
    <3>4. built.kind # "LOCK_ACTION"
      BY <2>1
    <3> QED  BY <3>2, <3>3, <3>4, Zenon DEF NamesKeepTheirPlace, AuthorizationAt
  <2>2. CASE built.kind = "LOCK_ACTION"
    <3>1. /\ built.name \in Names
          /\ built.bytes = build_lock_action(3, AppId, 0, built.name, Nonce)
      BY <2>2 DEF NameInv
    <3>2. LockActionAt(built.bytes, built.name)
      BY <1>1, <3>1, LockActionPlaces
    <3>3. built.kind # "AUTHORIZATION_DATA"
      BY <2>2
    <3> QED  BY <3>2, <3>3, Zenon DEF NamesKeepTheirPlace, LockActionAt
  <2>3. CASE built.kind = "none"
    BY <2>3 DEF NamesKeepTheirPlace
  <2> QED  BY <2>1, <2>2, <2>3 DEF NameInv
<1> QED  BY <1>2, NameInvHolds, PTL

-----------------------------------------------------------------------------
(* A message in the stream.                                                *)

LEMMA LittleEndian ==
    ASSUME NEW a \in Word
    PROVE  a % 256 \in Byte /\ a \div 256 \in Byte /\ (a % 256) + 256 * (a \div 256) = a
BY DEF Byte, Word

LEMMA PlainOfMessage ==
    ASSUME NEW m \in PairingMessages
    PROVE  /\ Plain(m) \in Seq(Byte) /\ Len(Plain(m)) = Len(m.payload) + 2
           /\ m.payload \in Seq(Byte) /\ m.command \in Word
           /\ CommandOf(Plain(m)) = m.command
           /\ \A i \in 1 .. Len(m.payload) : Plain(m)[2 + i] = m.payload[i]
<1> DEFINE head == <<m.command % 256, m.command \div 256>>
<1>1. m.payload \in Seq(Byte) /\ m.command \in Word
  BY PairingAssumption
<1>2. head[1] \in Byte /\ head[2] \in Byte /\ head[1] + 256 * head[2] = m.command
  BY <1>1, LittleEndian
<1>3. head \in Seq(Byte) /\ Len(head) = 2
  <2>1. m.command % 256 \in Byte /\ m.command \div 256 \in Byte
    BY <1>1, LittleEndian
  <2> QED  BY <2>1
<1> HIDE DEF head
<1>4. PICK u \in Seq(Byte) :
        /\ u = head \o m.payload /\ Len(u) = Len(head) + Len(m.payload)
        /\ \A i \in 1 .. Len(head) : u[i] = head[i]
        /\ \A i \in 1 .. Len(m.payload) : u[Len(head) + i] = m.payload[i]
  BY <1>1, <1>3, Join, Zenon
<1>5. /\ Len(u) = Len(head) + Len(m.payload)
      /\ \A i \in 1 .. Len(head) : u[i] = head[i]
      /\ \A i \in 1 .. Len(m.payload) : u[Len(head) + i] = m.payload[i]
  BY <1>4, Zenon
<1>6. u = Plain(m)
  BY <1>4, Zenon DEF Plain, head
<1>7. /\ Len(u) = Len(m.payload) + 2 /\ u[1] = head[1] /\ u[2] = head[2]
      /\ \A i \in 1 .. Len(m.payload) : u[2 + i] = m.payload[i]
  <2>1. Len(m.payload) \in Nat
    BY <1>1
  <2>2. \A i \in 1 .. 2 : u[i] = head[i]
    BY <1>3, <1>5
  <2> QED  BY <1>3, <1>5, <2>1, <2>2
<1>8. CommandOf(u) = m.command
  BY <1>2, <1>7 DEF CommandOf
<1> QED  BY <1>1, <1>6, <1>7, <1>8

\* What the client makes of a message as it may be framed.
LEMMA FrameOfMessage ==
    ASSUME NEW m \in PairingMessages, NEW message \in Frames(m)
    PROVE  /\ message \in Seq(Byte) /\ Len(message) = Len(m.payload) + 4
           /\ m.payload \in Seq(Byte) /\ m.command \in Word
           /\ verify_crc(message) /\ CommandOf(message) = m.command
           /\ Slice(message, 2, Len(message) - 2) = m.payload
<1> DEFINE data == Plain(m)
           c == Checksum(data)
<1>1. /\ data \in Seq(Byte) /\ Len(data) = Len(m.payload) + 2
      /\ m.payload \in Seq(Byte) /\ m.command \in Word
      /\ CommandOf(data) = m.command
      /\ \A i \in 1 .. Len(m.payload) : data[2 + i] = m.payload[i]
  BY PlainOfMessage
<1>2. c \in Word
  BY ChecksumAssumption
<1>3. PICK t \in {<<c % 256, c \div 256>>, <<0, 0>>} : message = data \o t
  BY DEF Frames, encode_plain, append_crc
<1>4. t \in Seq(Byte) /\ Len(t) = 2 /\ t[1] + 256 * t[2] \in {0, c}
  <2>1. CASE t = <<0, 0>>
    BY <2>1 DEF Byte
  <2>2. CASE t = <<c % 256, c \div 256>>
    <3>1. c % 256 \in Byte /\ c \div 256 \in Byte /\ (c % 256) + 256 * (c \div 256) = c
      BY <1>2, LittleEndian
    <3> HIDE DEF c
    <3> QED  BY <2>2, <3>1
  <2> QED  BY <2>1, <2>2
<1> HIDE DEF data, c
<1>5. PICK u \in Seq(Byte) :
        /\ u = data \o t /\ Len(u) = Len(data) + Len(t)
        /\ \A i \in 1 .. Len(data) : u[i] = data[i]
        /\ \A i \in 1 .. Len(t) : u[Len(data) + i] = t[i]
  BY <1>1, <1>4, Join, Zenon
<1>6. /\ Len(u) = Len(data) + Len(t)
      /\ \A i \in 1 .. Len(data) : u[i] = data[i]
      /\ \A i \in 1 .. Len(t) : u[Len(data) + i] = t[i]
  BY <1>5, Zenon
<1>7. u = message
  BY <1>3, <1>5, Zenon
<1>8. Len(m.payload) \in Nat
  BY <1>1
<1>9. /\ Len(u) = Len(m.payload) + 4
      /\ \A i \in 1 .. Len(m.payload) + 2 : u[i] = data[i]
      /\ u[Len(m.payload) + 3] = t[1] /\ u[Len(m.payload) + 4] = t[2]
  <2>1. Len(u) = Len(m.payload) + 4
    BY <1>1, <1>4, <1>6, <1>8
  <2>2. \A i \in 1 .. Len(m.payload) + 2 : u[i] = data[i]
    BY <1>1, <1>6
  <2>3. \A i \in 1 .. 2 : u[(Len(m.payload) + 2) + i] = t[i]
    BY <1>1, <1>4, <1>6
  <2>4. /\ (Len(m.payload) + 2) + 1 = Len(m.payload) + 3
        /\ (Len(m.payload) + 2) + 2 = Len(m.payload) + 4
    BY <1>8
  <2> QED  BY <2>1, <2>2, <2>3, <2>4
<1>10. Data(u) = data
  <2>1. Len(u) - 2 = Len(m.payload) + 2
    BY <1>8, <1>9
  <2>2. SubSeq(u, 1, Len(m.payload) + 2) = data
    BY <1>1, <1>8, <1>9
  <2> QED  BY <2>1, <2>2 DEF Data
<1>11. Received(u) \in {0, c}
  <2>1. Len(u) - 1 = Len(m.payload) + 3
    BY <1>8, <1>9
  <2> QED  BY <1>4, <1>9, <2>1 DEF Received
<1>12. verify_crc(u)
  <2>1. c = Checksum(Data(u))
    BY <1>10, Zenon DEF c
  <2>2. Len(u) >= 3
    BY <1>8, <1>9
  <2> QED  BY <1>11, <2>1, <2>2, Zenon DEF verify_crc
<1>13. CommandOf(u) = m.command
  BY <1>1, <1>8, <1>9 DEF CommandOf
<1>14. Slice(u, 2, Len(u) - 2) = m.payload
  <2> DEFINE to == Len(u) - 2
             p == Slice(u, 2, to)
  <2>1. to \in Nat /\ 2 \in Nat /\ 2 <= to /\ to <= Len(u) /\ to - 2 = Len(m.payload)
    BY <1>8, <1>9
  <2> HIDE DEF to
  <2>2. p \in Seq(Byte) /\ Len(p) = Len(m.payload) /\ \A i \in 1 .. Len(m.payload) : p[i] = u[2 + i]
    <3>1. p \in Seq(Byte) /\ Len(p) = to - 2 /\ \A i \in 1 .. to - 2 : p[i] = u[2 + i]
      BY <2>1, SliceOfBytes
    <3> HIDE DEF p
    <3> QED  BY <2>1, <3>1, Zenon
  <2> HIDE DEF p
  <2>3. \A i \in 1 .. Len(m.payload) : p[i] = m.payload[i]
    <3> TAKE i \in 1 .. Len(m.payload)
    <3>1. 2 + i \in 1 .. Len(m.payload) + 2
      BY <1>8
    <3> QED  BY <1>1, <1>9, <2>2, <3>1
  <2>4. p = m.payload
    <3>1. \A q, r \in Seq(Byte) : (Len(q) = Len(r) /\ \A i \in 1 .. Len(r) : q[i] = r[i]) => q = r
      OBVIOUS
    <3> QED  BY <1>1, <2>2, <2>3, <3>1, Zenon
  <2> QED  BY <2>4 DEF p, to
<1> QED  BY <1>1, <1>7, <1>9, <1>12, <1>13, <1>14

\* A buffer and a message begin alike, as far as both go.
Alike(buf, message) == \A i \in 1 .. Len(buf) : i <= Len(message) => buf[i] = message[i]

\* A message is found at the head of a buffer once all of it is there, and not before.
LEMMA HeadOfBuffer ==
    ASSUME NEW buf \in Seq(Byte), NEW m \in PairingMessages, NEW message \in Frames(m),
           Alike(buf, message)
    PROVE  /\ Len(message) >= 5
           /\ Len(buf) >= Len(message) => ExpectedSize(buf) = Len(message)
           /\ Len(buf) < Len(message) => ~Complete(buf, ExpectedSize(buf))
<1>1. /\ message \in Seq(Byte) /\ Len(message) = Len(m.payload) + 4 /\ m.payload \in Seq(Byte)
      /\ verify_crc(message) /\ CommandOf(message) = m.command
  BY FrameOfMessage
<1>2. /\ Len(buf) \in Nat /\ Len(message) \in Nat /\ Len(m.payload) \in Nat
      /\ \A i \in 1 .. Len(buf) : i <= Len(message) => buf[i] = message[i]
  BY <1>1 DEF Alike
<1>3. \A command \in DOMAIN PlainSizes : PlainSizes[command] \in {5, 7, 36, 88}
  BY DEF PlainSizes
<1>4. Len(message) >= 5
  <2>1. CASE m.command \in DOMAIN PlainSizes
    <3>1. Len(m.payload) + 4 = PlainSizes[m.command]
      BY <2>1, SizesAssumption, Zenon
    <3>2. Len(m.payload) + 4 \in {5, 7, 36, 88}
      BY <1>3, <2>1, <3>1, Zenon
    <3> QED  BY <1>1, <3>2
  <2>2. CASE m.command \notin DOMAIN PlainSizes
    <3>1. m.payload # <<>>
      BY <2>2, SizesAssumption, Zenon
    <3>2. Len(m.payload) # 0
      BY <1>1, <3>1
    <3> QED  BY <1>1, <1>2, <3>2
  <2> QED  BY <2>1, <2>2
<1>5. CASE Len(buf) < 2
  <2>1. ExpectedSize(buf) = 0
    BY <1>5 DEF ExpectedSize
  <2>2. ~Complete(buf, 0)
    BY DEF Complete
  <2> QED  BY <1>2, <1>4, <1>5, <2>1, <2>2
<1>6. CASE ~(Len(buf) < 2)
  <2>1. CommandOf(buf) = m.command
    <3>1. buf[1] = message[1] /\ buf[2] = message[2]
      BY <1>2, <1>4, <1>6
    <3> QED  BY <1>1, <3>1 DEF CommandOf
  <2>2. CASE m.command \in DOMAIN PlainSizes
    <3>1. ExpectedSize(buf) = PlainSizes[m.command]
      BY <1>6, <2>1, <2>2, Zenon DEF ExpectedSize
    <3>2. ExpectedSize(buf) = Len(message)
      BY <1>1, <2>2, <3>1, SizesAssumption, Zenon
    <3> QED  BY <1>2, <1>4, <3>2 DEF Complete
  <2>3. CASE m.command \notin DOMAIN PlainSizes
    <3> DEFINE End(e) == verify_crc(SubSeq(buf, 1, e))
    <3>1. ExpectedSize(buf) =
            IF \A e \in 5 .. Len(buf) : ~End(e) THEN 0
            ELSE CHOOSE e \in 5 .. Len(buf) : End(e) /\ \A f \in 5 .. e - 1 : ~End(f)
      BY <1>6, <2>1, <2>3, Zenon DEF ExpectedSize
    <3>2. ASSUME NEW e \in 5 .. Len(buf), e <= Len(message)
          PROVE  SubSeq(buf, 1, e) = SubSeq(message, 1, e)
      <4>1. \A i \in 1 .. e : buf[i] = message[i]
        BY <1>2, <3>2
      <4>2. e \in Nat /\ e <= Len(buf)
        BY <1>2
      <4> QED  BY <1>1, <3>2, <4>1, <4>2
    <3>3. ASSUME NEW e \in 5 .. Len(buf), e < Len(message)
          PROVE  ~End(e)
      <4>1. e \in 5 .. Len(m.payload) + 3 /\ e <= Len(message)
        BY <1>1, <1>2, <3>3
      <4>2. ~verify_crc(SubSeq(message, 1, e))
        BY <2>3, <4>1, SizesAssumption, Zenon
      <4> QED  BY <3>2, <4>1, <4>2, Zenon
    <3>4. CASE Len(buf) < Len(message)
      <4>1. \A e \in 5 .. Len(buf) : ~End(e)
        <5> TAKE e \in 5 .. Len(buf)
        <5>1. e < Len(message)
          BY <1>2, <3>4
        <5> QED  BY <3>3, <5>1, Zenon
      <4>2. ExpectedSize(buf) = 0
        BY <3>1, <4>1, Zenon
      <4>3. ~Complete(buf, 0)
        BY DEF Complete
      <4> QED  BY <1>2, <1>4, <3>4, <4>2, <4>3
    <3>5. CASE Len(buf) >= Len(message)
      <4> DEFINE size == Len(message)
                 Least(e) == End(e) /\ \A f \in 5 .. e - 1 : ~End(f)
      <4>1. size \in 5 .. Len(buf) /\ size <= Len(message)
        BY <1>2, <1>4, <3>5
      <4>2. End(size)
        <5>1. SubSeq(message, 1, size) = message
          BY <1>1
        <5> QED  BY <1>1, <3>2, <4>1, <5>1, Zenon
      <4>3. \A f \in 5 .. size - 1 : ~End(f)
        <5> TAKE f \in 5 .. size - 1
        <5>1. f \in 5 .. Len(buf) /\ f < Len(message)
          BY <1>2, <3>5
        <5> QED  BY <3>3, <5>1, Zenon
      <4>4. ASSUME NEW e \in 5 .. Len(buf), Least(e)
            PROVE  e = size
        <5>1. ~(e < size)
          BY <3>3, <4>4, Zenon
        <5>2. ~(e > size)
          <6>1. e > size => size \in 5 .. e - 1
            BY <1>2, <1>4
          <6> QED  BY <4>2, <4>4, <6>1, Zenon
        <5> HIDE DEF Least
        <5> QED  BY <1>2, <5>1, <5>2
      <4>5. Least(size)
        BY <4>2, <4>3
      <4>6. (CHOOSE e \in 5 .. Len(buf) : Least(e)) = size
        <5> HIDE DEF Least, size
        <5> QED  BY <4>1, <4>4, <4>5, Zenon
      <4>7. ExpectedSize(buf) = size
        BY <3>1, <4>1, <4>2, <4>6, Zenon
      <4> HIDE DEF End, Least
      <4> QED  BY <1>2, <1>4, <3>5, <4>7
    <3> HIDE DEF End
    <3> QED  BY <1>2, <3>4, <3>5
  <2> QED  BY <2>2, <2>3
<1> QED  BY <1>4, <1>5, <1>6

-----------------------------------------------------------------------------
(* The stream: T holds all that was sent while pairing, msgs, the j-th of  *)
(* them ending at e[j].                                                    *)

Streamed(T, e, msgs) ==
    /\ T \in Seq(Byte) /\ e \in [0 .. Len(msgs) -> Nat]
    /\ e[0] = 0 /\ e[Len(msgs)] = Len(T)
    /\ \A j \in 0 .. Len(msgs) : e[j] <= Len(T)
    /\ \A j \in 1 .. Len(msgs) : \E message \in Frames(msgs[j]) :
         /\ e[j] = e[j - 1] + Len(message)
         /\ \A i \in 1 .. Len(message) : T[e[j - 1] + i] = message[i]

\* What the stream has after its first a bytes.
At(T, a, s) == a + Len(s) <= Len(T) /\ \A i \in 1 .. Len(s) : s[i] = T[a + i]

\* `message` is the next of the stream, and is found at the head of buf once it is all there.
NextIs(T, a, b, buf, message) ==
    /\ message \in Seq(Byte) /\ Len(message) >= 5 /\ b = a + Len(message)
    /\ \A i \in 1 .. Len(message) : T[a + i] = message[i]
    /\ Len(buf) >= Len(message) => ExpectedSize(buf) = Len(message)
    /\ Len(buf) < Len(message) => ~Complete(buf, ExpectedSize(buf))

LEMMA HeadOfStream ==
    ASSUME NEW T, NEW e, NEW msgs \in Seq(PairingMessages), Streamed(T, e, msgs),
           NEW j \in 0 .. Len(msgs), NEW buf \in Seq(Byte), At(T, e[j], buf), j # Len(msgs)
    PROVE  \E message \in Frames(msgs[j + 1]) : NextIs(T, e[j], e[j + 1], buf, message)
<1>1. j + 1 \in 1 .. Len(msgs) /\ (j + 1) - 1 = j /\ msgs[j + 1] \in PairingMessages
  OBVIOUS
<1>2. PICK message \in Frames(msgs[j + 1]) :
        /\ e[j + 1] = e[j] + Len(message)
        /\ \A i \in 1 .. Len(message) : T[e[j] + i] = message[i]
  BY <1>1 DEF Streamed
<1>3. message \in Seq(Byte)
  BY <1>1, FrameOfMessage
<1>4. Alike(buf, message)
  <2> SUFFICES ASSUME NEW i \in 1 .. Len(buf), i <= Len(message)
               PROVE  buf[i] = message[i]
    BY DEF Alike
  <2>1. i \in 1 .. Len(message)
    BY <1>3
  <2> QED  BY <1>2, <2>1 DEF At
<1>5. /\ Len(message) >= 5
      /\ Len(buf) >= Len(message) => ExpectedSize(buf) = Len(message)
      /\ Len(buf) < Len(message) => ~Complete(buf, ExpectedSize(buf))
  BY <1>1, <1>4, HeadOfBuffer
<1> QED  BY <1>2, <1>3, <1>5, Zenon DEF NextIs

LEMMA EndOfStream ==
    ASSUME NEW T, NEW e, NEW msgs \in Seq(PairingMessages), Streamed(T, e, msgs),
           NEW buf \in Seq(Byte), At(T, e[Len(msgs)], buf)
    PROVE  Len(buf) = 0 /\ ~Complete(buf, ExpectedSize(buf))
<1>1. Len(buf) = 0
  <2>1. Len(T) + Len(buf) <= Len(T) /\ Len(T) \in Nat
    BY DEF At, Streamed
  <2> QED  BY <2>1
<1>2. ExpectedSize(buf) = 0
  BY <1>1 DEF ExpectedSize
<1>3. ~Complete(buf, 0)
  BY DEF Complete
<1> QED  BY <1>1, <1>2, <1>3, Zenon

-----------------------------------------------------------------------------
(* The loop of feed().                                                     *)

Rounds(fed, buf) ==
    fed = [i \in 0 .. Len(buf) \div 5 |->
             IF i = 0 THEN [rest |-> buf, raw |-> <<>>] ELSE TakeMessage(fed[i - 1])]

LEMMA LoopHasRounds ==
    ASSUME NEW buf \in Seq(Byte)
    PROVE  \E fed : Rounds(fed, buf) /\ TakeMessages(buf) = fed[Len(buf) \div 5]
<1> DEFINE start == [rest |-> buf, raw |-> <<>>]
           Loop(g, n) ==
             g = [i \in 0 .. n |-> IF i = 0 THEN start ELSE TakeMessage(g[i - 1])]
           Reached == {n \in Nat : \E g : Loop(g, n)}
<1>1. 0 \in Reached
  <2>1. Loop([i \in 0 .. 0 |-> start], 0)
    OBVIOUS
  <2> QED  BY <2>1
<1>2. ASSUME NEW n \in Nat, n \in Reached
      PROVE  n + 1 \in Reached
  <2>1. PICK g : Loop(g, n)
    BY <1>2
  <2> DEFINE h == [i \in 0 .. n + 1 |-> IF i <= n THEN g[i] ELSE TakeMessage(g[n])]
  <2>2. ASSUME NEW i \in 0 .. n + 1
        PROVE  h[i] = IF i = 0 THEN start ELSE TakeMessage(h[i - 1])
    <3>1. CASE i = 0
      BY <2>1, <3>1
    <3>2. CASE i \in 1 .. n
      BY <2>1, <3>2
    <3>3. CASE i = n + 1
      BY <3>3
    <3> QED  BY <3>1, <3>2, <3>3
  <2>3. Loop(h, n + 1)
    BY <2>2
  <2>4. n + 1 \in Nat
    OBVIOUS
  <2> HIDE DEF Loop, h
  <2> QED  BY <2>3, <2>4
<1>3. Len(buf) \div 5 \in Reached
  <2>1. Len(buf) \div 5 \in Nat
    OBVIOUS
  <2> HIDE DEF Reached
  <2>2. Nat \subseteq Reached
    BY <1>1, <1>2, InductionOverSets
  <2> QED  BY <2>1, <2>2
<1>4. PICK g : Loop(g, Len(buf) \div 5)
  BY <1>3
<1> DEFINE fed[i \in 0 .. Len(buf) \div 5] ==
             IF i = 0 THEN start ELSE TakeMessage(fed[i - 1])
<1>5. Rounds(fed, buf)
  BY <1>4, Zenon DEF Rounds
<1>6. TakeMessages(buf) = fed[Len(buf) \div 5]
  BY DEF TakeMessages
<1> HIDE DEF fed
<1> QED  BY <1>5, <1>6

\* A round of it: the messages that were taken are the next of the stream, after the first k,
\* and the rest of the buffer follows them.
Round(fed, T, e, msgs, k, end) ==
    /\ fed.raw \in Seq(Seq(Byte)) /\ fed.rest \in Seq(Byte)
    /\ k + Len(fed.raw) <= Len(msgs)
    /\ \A x \in 1 .. Len(fed.raw) : fed.raw[x] \in Frames(msgs[k + x])
    /\ e[k + Len(fed.raw)] + Len(fed.rest) = end
    /\ At(T, e[k + Len(fed.raw)], fed.rest)

LEMMA TakeKeepsRound ==
    ASSUME NEW T, NEW e, NEW msgs \in Seq(PairingMessages), Streamed(T, e, msgs),
           NEW k \in 0 .. Len(msgs), NEW end \in Nat, NEW fed, Round(fed, T, e, msgs, k, end),
           Complete(fed.rest, ExpectedSize(fed.rest))
    PROVE  /\ Round(TakeMessage(fed), T, e, msgs, k, end)
           /\ Len(TakeMessage(fed).rest) + 5 <= Len(fed.rest)
<1> DEFINE j == k + Len(fed.raw)
           rest == fed.rest
<1>1. /\ Len(fed.raw) \in Nat /\ Len(msgs) \in Nat /\ Len(rest) \in Nat /\ j \in 0 .. Len(msgs)
      /\ fed.raw \in Seq(Seq(Byte)) /\ rest \in Seq(Byte)
  BY DEF Round
<1>2. At(T, e[j], rest) /\ e[j] + Len(rest) = end /\ e[j] \in Nat
  BY <1>1 DEF Round, Streamed
<1>3. j # Len(msgs)
  BY <1>1, <1>2, EndOfStream
<1>4. PICK message \in Frames(msgs[j + 1]) : NextIs(T, e[j], e[j + 1], rest, message)
  BY <1>1, <1>2, <1>3, HeadOfStream
<1>5. /\ message \in Seq(Byte) /\ Len(message) >= 5 /\ e[j + 1] = e[j] + Len(message)
      /\ \A i \in 1 .. Len(message) : T[e[j] + i] = message[i]
      /\ Len(rest) >= Len(message) /\ ExpectedSize(rest) = Len(message)
  <2>1. message \in Seq(Byte) /\ (Len(rest) >= Len(message) \/ Len(rest) < Len(message))
    BY <1>1, <1>4 DEF NextIs
  <2> QED  BY <1>4, <2>1 DEF NextIs
<1> DEFINE n == Len(message)
           new == [rest |-> SubSeq(rest, n + 1, Len(rest)),
                   raw |-> Append(fed.raw, SubSeq(rest, 1, n))]
<1>6. TakeMessage(fed) = new
  BY <1>5 DEF TakeMessage
<1>7. n \in Nat /\ n >= 5 /\ n <= Len(rest)
  BY <1>5
<1>8. SubSeq(rest, 1, n) = message
  <2>1. \A i \in 1 .. n : rest[i] = message[i]
    BY <1>2, <1>5, <1>7 DEF At
  <2> QED  BY <1>1, <1>5, <1>7, <2>1
<1>9. /\ new.rest \in Seq(Byte) /\ Len(new.rest) = Len(rest) - n
      /\ \A i \in 1 .. Len(rest) - n : new.rest[i] = rest[n + i]
  BY <1>1, <1>7
<1>10. new.raw = Append(fed.raw, message)
  BY <1>8
<1> HIDE DEF new
<1>11. /\ new.raw \in Seq(Seq(Byte)) /\ Len(new.raw) = Len(fed.raw) + 1
       /\ \A x \in 1 .. Len(fed.raw) : new.raw[x] = fed.raw[x]
       /\ new.raw[Len(fed.raw) + 1] = message
  BY <1>1, <1>5, <1>10
<1>12. k + Len(new.raw) = j + 1 /\ j + 1 <= Len(msgs)
  BY <1>1, <1>3, <1>11
<1>13. \A x \in 1 .. Len(new.raw) : new.raw[x] \in Frames(msgs[k + x])
  <2> TAKE x \in 1 .. Len(new.raw)
  <2>1. CASE x \in 1 .. Len(fed.raw)
    BY <1>11, <2>1 DEF Round
  <2>2. CASE x = Len(fed.raw) + 1
    <3>1. k + x = j + 1
      BY <1>1, <2>2
    <3> QED  BY <1>4, <1>11, <2>2, <3>1, Zenon
  <2>3. Len(new.raw) = Len(fed.raw) + 1 /\ Len(fed.raw) \in Nat
    BY <1>1, <1>11, Zenon
  <2>4. x \in 1 .. Len(fed.raw) \/ x = Len(fed.raw) + 1
    BY <2>3
  <2> QED  BY <2>1, <2>2, <2>4, Zenon
<1> DEFINE p == e[j]
           q == e[j + 1]
<1>13a. p \in Nat /\ q = p + n /\ p + Len(rest) = end
  BY <1>2, <1>5, Zenon
<1> HIDE DEF p, q, n
<1>14. q + Len(new.rest) = end
  <2>1. Len(new.rest) = Len(rest) - n
    BY <1>9, Zenon
  <2>2. \A a, b, c \in Nat : (q = p + a /\ p + b = end /\ c = b - a) => q + c = end
    BY <1>13a
  <2>3. Len(new.rest) \in Nat
    BY <1>9
  <2> QED  BY <1>1, <1>7, <1>13a, <2>1, <2>2, <2>3, Zenon
<1>15. At(T, q, new.rest)
  <2>0. p + Len(rest) <= Len(T) /\ \A i \in 1 .. Len(rest) : rest[i] = T[p + i]
    BY <1>2, Zenon DEF At, p
  <2>1. q + Len(new.rest) <= Len(T)
    BY <1>14, <1>13a, <2>0
  <2>2. ASSUME NEW i \in 1 .. Len(new.rest)
        PROVE  new.rest[i] = T[q + i]
    <3>1. n + i \in 1 .. Len(rest) /\ p + (n + i) = q + i
      BY <1>1, <1>7, <1>9, <1>13a
    <3>2. new.rest[i] = rest[n + i]
      BY <1>9
    <3>3. rest[n + i] = T[p + (n + i)]
      BY <2>0, <3>1
    <3> QED  BY <3>1, <3>2, <3>3
  <2> QED  BY <2>1, <2>2 DEF At
<1>16. Round(new, T, e, msgs, k, end)
  <2>1. k + Len(new.raw) <= Len(msgs)
    BY <1>12
  <2> QED  BY <1>9, <1>11, <1>12, <1>13, <1>14, <1>15, <2>1, Zenon DEF Round, q
<1>17. Len(new.rest) + 5 <= Len(rest)
  BY <1>1, <1>7, <1>9
<1> QED  BY <1>6, <1>16, <1>17, Zenon

\* The loop takes all the messages that are complete.
LEMMA LoopTakes ==
    ASSUME NEW T, NEW e, NEW msgs \in Seq(PairingMessages), Streamed(T, e, msgs),
           NEW k \in 0 .. Len(msgs), NEW buf \in Seq(Byte), At(T, e[k], buf)
    PROVE  LET fed == TakeMessages(buf)
           IN  /\ Round(fed, T, e, msgs, k, e[k] + Len(buf))
               /\ ~Complete(fed.rest, ExpectedSize(fed.rest))
<1> DEFINE end == e[k] + Len(buf)
           n == Len(buf) \div 5
           R(f) == Round(f, T, e, msgs, k, end)
           C(f) == Complete(f.rest, ExpectedSize(f.rest))
<1>1. e[k] \in Nat /\ Len(buf) \in Nat /\ end \in Nat /\ n \in Nat /\ 5 * n + 5 > Len(buf)
  <2>1. e[k] \in Nat
    BY DEF Streamed
  <2>2. \A b \in Nat : b \div 5 \in Nat /\ 5 * (b \div 5) + 5 > b
    OBVIOUS
  <2> QED  BY <2>1, <2>2
<1>2. PICK fed : Rounds(fed, buf) /\ TakeMessages(buf) = fed[n]
  BY LoopHasRounds
<1>3. /\ fed[0] = [rest |-> buf, raw |-> <<>>]
      /\ \A i \in 0 .. n : i # 0 => fed[i] = TakeMessage(fed[i - 1])
  <2>1. fed = [i \in 0 .. n |-> IF i = 0 THEN [rest |-> buf, raw |-> <<>>]
                                 ELSE TakeMessage(fed[i - 1])]
    BY <1>2, Zenon DEF Rounds
  <2>2. 0 \in 0 .. n
    BY <1>1
  <2> HIDE DEF n
  <2> QED  BY <2>1, <2>2, Zenon
<1> HIDE DEF end, n
<1>4. ASSUME NEW f, R(f), C(f)
      PROVE  R(TakeMessage(f)) /\ Len(TakeMessage(f).rest) + 5 <= Len(f.rest)
  BY <1>1, <1>4, TakeKeepsRound
<1>5. ASSUME NEW f, ~C(f)
      PROVE  TakeMessage(f) = f
  BY <1>5 DEF TakeMessage
<1>6. ASSUME NEW f, R(f)
      PROVE  Len(f.rest) \in Nat
  BY <1>6 DEF Round
<1> DEFINE Reached == {i \in Nat : i <= n =>
                         R(fed[i]) /\ (C(fed[i]) => 5 * i + Len(fed[i].rest) <= Len(buf))}
<1>7. 0 \in Reached
  <2>1. R(fed[0])
    <3>1. /\ fed[0].raw = <<>> /\ fed[0].rest = buf /\ Len(fed[0].raw) = 0 /\ k + 0 = k
          /\ fed[0].raw \in Seq(Seq(Byte)) /\ k <= Len(msgs)
      BY <1>3
    <3> QED  BY <3>1 DEF Round, end
  <2>2. 5 * 0 + Len(fed[0].rest) <= Len(buf)
    BY <1>1, <1>3
  <2> QED  BY <2>1, <2>2
<1> HIDE DEF R, C
<1>8. ASSUME NEW i \in Nat, i \in Reached
      PROVE  i + 1 \in Reached
  <2>0. i + 1 \in Nat
    OBVIOUS
  <2> SUFFICES ASSUME i + 1 <= n
               PROVE  /\ R(fed[i + 1])
                      /\ C(fed[i + 1]) => 5 * (i + 1) + Len(fed[i + 1].rest) <= Len(buf)
    BY <2>0, Zenon
  <2>1. R(fed[i]) /\ (C(fed[i]) => 5 * i + Len(fed[i].rest) <= Len(buf))
    <3>1. i <= n
      BY <1>1
    <3> QED  BY <1>8, <3>1, Zenon
  <2>2. fed[i + 1] = TakeMessage(fed[i])
    <3>1. i + 1 \in 0 .. n /\ i + 1 # 0 /\ (i + 1) - 1 = i
      BY <1>1
    <3> QED  BY <1>3, <3>1
  <2>3. CASE C(fed[i])
    <3>1. R(fed[i + 1]) /\ Len(fed[i + 1].rest) + 5 <= Len(fed[i].rest)
      BY <1>4, <2>1, <2>2, <2>3
    <3>2. Len(fed[i].rest) \in Nat /\ Len(fed[i + 1].rest) \in Nat
      BY <1>6, <2>1, <3>1
    <3>3. 5 * i + Len(fed[i].rest) <= Len(buf)
      BY <2>1, <2>3
    <3>4. \A a, b \in Nat : (b + 5 <= a /\ 5 * i + a <= Len(buf)) => 5 * (i + 1) + b <= Len(buf)
      BY <1>1
    <3> QED  BY <3>1, <3>2, <3>3, <3>4, Zenon
  <2>4. CASE ~C(fed[i])
    <3>1. fed[i + 1] = fed[i]
      BY <1>5, <2>2, <2>4
    <3> QED  BY <2>1, <2>4, <3>1
  <2> QED  BY <2>3, <2>4
<1>9. n \in Reached
  <2> HIDE DEF Reached
  <2>1. Nat \subseteq Reached
    BY <1>7, <1>8, InductionOverSets
  <2> QED  BY <1>1, <2>1
<1>10. R(fed[n]) /\ (C(fed[n]) => 5 * n + Len(fed[n].rest) <= Len(buf))
  <2>1. n <= n
    BY <1>1
  <2> QED  BY <1>9, <2>1, Zenon
<1>11. ~C(fed[n])
  <2> SUFFICES ASSUME C(fed[n]) PROVE FALSE
    OBVIOUS
  <2>1. R(TakeMessage(fed[n])) /\ Len(TakeMessage(fed[n]).rest) + 5 <= Len(fed[n].rest)
    BY <1>4, <1>10
  <2>2. Len(fed[n].rest) \in Nat /\ Len(TakeMessage(fed[n]).rest) \in Nat
    BY <1>6, <1>10, <2>1
  <2>3. 5 * n + Len(fed[n].rest) <= Len(buf)
    BY <1>10
  <2>4. \A a, b \in Nat : ~(b + 5 <= a /\ 5 * n + a <= Len(buf))
    BY <1>1
  <2> QED  BY <2>1, <2>2, <2>3, <2>4, Zenon
<1> QED  BY <1>2, <1>10, <1>11, Zenon DEF R, C, end

-----------------------------------------------------------------------------
(* Pairing.                                                                *)

HeardMessages == [command : Word, payload : Seq(Byte), unchecked : BOOLEAN]

\* What is between what was heard and the end of the stream is in the buffer and on the wire.
Between(T, e, msgs, k, buf, rest) ==
    /\ Streamed(T, e, msgs) /\ k <= Len(msgs)
    /\ e[k] + Len(buf) + Len(rest) = Len(T)
    /\ At(T, e[k], buf) /\ At(T, e[k] + Len(buf), rest)

FramingInv ==
    ~spoiled =>
        /\ sent \in Seq(PairingMessages) /\ heard \in Seq(HeardMessages)
        /\ buffer \in Seq(Byte) /\ wire \in Seq(Byte)
        /\ ~Complete(buffer, ExpectedSize(buffer))
        /\ \A i \in 1 .. Len(heard) :
             heard[i].command = sent[i].command /\ heard[i].payload = sent[i].payload
        /\ \E T, e : Between(T, e, sent, Len(heard), buffer, wire)

LEMMA FramingInit == Init => FramingInv
<1> SUFFICES ASSUME Init PROVE FramingInv
  OBVIOUS
<1> DEFINE e == [j \in 0 .. 0 |-> 0]
<1>1. sent = <<>> /\ heard = <<>> /\ buffer = <<>> /\ wire = <<>>
  BY DEF Init
<1>2. Streamed(<<>>, e, <<>>)
  BY DEF Streamed
<1>3. Between(<<>>, e, sent, Len(heard), buffer, wire)
  <2>1. e[0] = 0
    OBVIOUS
  <2> HIDE DEF e
  <2> QED  BY <1>1, <1>2, <2>1 DEF Between, At
<1>4. ExpectedSize(<<>>) = 0
  BY DEF ExpectedSize
<1>5. ~Complete(buffer, ExpectedSize(buffer))
  BY <1>1, <1>4 DEF Complete
<1> HIDE DEF e
<1> QED  BY <1>1, <1>3, <1>5 DEF FramingInv

\* One more message is sent.
Grows(T, e, msgs, m, message) ==
    \E f : /\ Streamed(T \o message, f, Append(msgs, m))
           /\ \A j \in 0 .. Len(msgs) : f[j] = e[j]

LEMMA StreamGrows ==
    ASSUME NEW T, NEW e, NEW msgs \in Seq(PairingMessages), Streamed(T, e, msgs),
           NEW m \in PairingMessages, NEW message \in Frames(m)
    PROVE  Grows(T, e, msgs, m, message)
<1> DEFINE n == Len(msgs)
           f == [j \in 0 .. n + 1 |-> IF j <= n THEN e[j] ELSE Len(T) + Len(message)]
           more == Append(msgs, m)
<1>1. /\ T \in Seq(Byte) /\ e \in [0 .. n -> Nat] /\ e[0] = 0 /\ e[n] = Len(T)
      /\ \A j \in 0 .. n : e[j] <= Len(T)
      /\ \A j \in 1 .. n : \E was \in Frames(msgs[j]) :
           /\ e[j] = e[j - 1] + Len(was)
           /\ \A i \in 1 .. Len(was) : T[e[j - 1] + i] = was[i]
  BY DEF Streamed
<1>2. message \in Seq(Byte) /\ Len(message) \in Nat /\ n \in Nat /\ Len(T) \in Nat
  BY <1>1, FrameOfMessage
<1>3. PICK U \in Seq(Byte) :
        /\ U = T \o message /\ Len(U) = Len(T) + Len(message)
        /\ \A i \in 1 .. Len(T) : U[i] = T[i]
        /\ \A i \in 1 .. Len(message) : U[Len(T) + i] = message[i]
  BY <1>1, <1>2, Join, Zenon
<1>4. /\ Len(U) = Len(T) + Len(message)
      /\ \A i \in 1 .. Len(T) : U[i] = T[i]
      /\ \A i \in 1 .. Len(message) : U[Len(T) + i] = message[i]
  BY <1>3, Zenon
<1>5. /\ more \in Seq(PairingMessages) /\ Len(more) = n + 1 /\ more[n + 1] = m
      /\ \A j \in 1 .. n : more[j] = msgs[j]
  OBVIOUS
<1>6. /\ \A j \in 0 .. n : f[j] = e[j]
      /\ f[n + 1] = Len(T) + Len(message) /\ f \in [0 .. n + 1 -> Nat]
  BY <1>1, <1>2
<1> HIDE DEF f, more, n
<1>7. f[0] = 0 /\ f[n + 1] = Len(U) /\ \A j \in 0 .. n + 1 : f[j] <= Len(U)
  <2>1. 0 \in 0 .. n
    BY <1>2
  <2>2. \A j \in 0 .. n + 1 : j \in 0 .. n \/ j = n + 1
    BY <1>2
  <2>3. f[0] = 0
    BY <1>1, <1>6, <2>1, Zenon
  <2>4. f[n + 1] = Len(U)
    BY <1>4, <1>6, Zenon
  <2>5. ASSUME NEW j \in 0 .. n
        PROVE  f[j] <= Len(U)
    <3>1. e[j] \in Nat
      BY <1>1, Zenon
    <3>2. e[j] <= Len(T)
      BY <1>1, Zenon
    <3>3. \A a \in Nat : a <= Len(T) => a <= Len(U)
      BY <1>2, <1>4
    <3> QED  BY <1>6, <3>1, <3>2, <3>3, Zenon
  <2>6. Len(U) <= Len(U)
    BY <1>2, <1>4
  <2>7. \A j \in 0 .. n + 1 : f[j] <= Len(U)
    BY <2>2, <2>4, <2>5, <2>6, Zenon
  <2> QED  BY <2>3, <2>4, <2>7, Zenon
<1>8. ASSUME NEW j \in 1 .. n + 1
      PROVE  \E was \in Frames(more[j]) :
               /\ f[j] = f[j - 1] + Len(was)
               /\ \A i \in 1 .. Len(was) : U[f[j - 1] + i] = was[i]
  <2>1. CASE j \in 1 .. n
    <3>1. PICK was \in Frames(msgs[j]) :
            /\ e[j] = e[j - 1] + Len(was)
            /\ \A i \in 1 .. Len(was) : T[e[j - 1] + i] = was[i]
      BY <1>1, <2>1
    <3>2. /\ j - 1 \in 0 .. n /\ j \in 0 .. n /\ msgs[j] \in PairingMessages
          /\ more[j] = msgs[j]
      BY <1>2, <1>5, <2>1 DEF n
    <3>3. f[j] = e[j] /\ f[j - 1] = e[j - 1] /\ e[j] <= Len(T) /\ e[j - 1] \in Nat
      BY <1>1, <1>6, <3>2
    <3>4. was \in Seq(Byte)
      BY <3>2, FrameOfMessage
    <3>5. ASSUME NEW i \in 1 .. Len(was)
          PROVE  U[e[j - 1] + i] = was[i]
      <4>1. e[j - 1] + i \in 1 .. Len(T)
        BY <1>2, <3>1, <3>3, <3>4
      <4> QED  BY <1>4, <3>1, <4>1
    <3>6. was \in Frames(more[j])
      BY <3>1, <3>2, Zenon
    <3>7. f[j] = f[j - 1] + Len(was)
      BY <3>1, <3>3, Zenon
    <3>8. \A i \in 1 .. Len(was) : U[f[j - 1] + i] = was[i]
      BY <3>3, <3>5, Zenon
    <3> QED  BY <3>6, <3>7, <3>8, Zenon
  <2>2. CASE j = n + 1
    <3>1. j - 1 = n /\ n \in 0 .. n
      BY <1>2, <2>2
    <3>2. f[j - 1] = Len(T) /\ f[j] = Len(T) + Len(message) /\ more[j] = m
      BY <1>1, <1>5, <1>6, <2>2, <3>1
    <3>3. message \in Frames(more[j])
      BY <3>2, Zenon
    <3>4. f[j] = f[j - 1] + Len(message)
      BY <3>2, Zenon
    <3>5. \A i \in 1 .. Len(message) : U[f[j - 1] + i] = message[i]
      BY <1>4, <3>2, Zenon
    <3> QED  BY <3>3, <3>4, <3>5, Zenon
  <2>3. j \in 1 .. n \/ j = n + 1
    BY <1>2
  <2> QED  BY <2>1, <2>2, <2>3, Zenon
<1>9. Streamed(U, f, more)
  BY <1>5, <1>6, <1>7, <1>8, Zenon DEF Streamed
<1>10. \A j \in 0 .. Len(msgs) : f[j] = e[j]
  BY <1>6 DEF n
<1>11. Streamed(T \o message, f, Append(msgs, m))
  BY <1>3, <1>9, Zenon DEF more
<1> QED  BY <1>10, <1>11, Zenon DEF Grows

LEMMA AtJoin ==
    ASSUME NEW T \in Seq(Byte), NEW a \in Nat, NEW s \in Seq(Byte), NEW t \in Seq(Byte),
           At(T, a, s), At(T, a + Len(s), t)
    PROVE  At(T, a, s \o t)
<1>1. PICK u \in Seq(Byte) :
        /\ u = s \o t /\ Len(u) = Len(s) + Len(t)
        /\ \A i \in 1 .. Len(s) : u[i] = s[i]
        /\ \A i \in 1 .. Len(t) : u[Len(s) + i] = t[i]
  BY Join, Zenon
<1>2. /\ Len(u) = Len(s) + Len(t)
      /\ \A i \in 1 .. Len(s) : u[i] = s[i]
      /\ \A i \in 1 .. Len(t) : u[Len(s) + i] = t[i]
  BY <1>1, Zenon
<1>3. /\ Len(s) \in Nat /\ Len(t) \in Nat /\ Len(T) \in Nat
  OBVIOUS
<1>4. /\ (a + Len(s)) + Len(t) <= Len(T) /\ \A i \in 1 .. Len(s) : s[i] = T[a + i]
      /\ \A i \in 1 .. Len(t) : t[i] = T[(a + Len(s)) + i]
  BY Zenon DEF At
<1>5. a + Len(u) <= Len(T)
  BY <1>2, <1>3, <1>4
<1>6. ASSUME NEW i \in 1 .. Len(u)
      PROVE  u[i] = T[a + i]
  <2>1. CASE i \in 1 .. Len(s)
    BY <1>2, <1>4, <2>1
  <2>2. CASE i \notin 1 .. Len(s)
    <3> DEFINE j == i - Len(s)
    <3>1. j \in 1 .. Len(t) /\ Len(s) + j = i /\ (a + Len(s)) + j = a + i
      BY <1>2, <1>3, <2>2
    <3> HIDE DEF j
    <3> QED  BY <1>2, <1>4, <3>1
  <2> QED  BY <2>1, <2>2
<1>7. At(T, a, u)
  BY <1>5, <1>6, Zenon DEF At
<1> QED  BY <1>1, <1>7, Zenon

\* The stream grows at its end.
LEMMA AtGrows ==
    ASSUME NEW T \in Seq(Byte), NEW a \in Nat, NEW s \in Seq(Byte), NEW t \in Seq(Byte), At(T, a, s)
    PROVE  At(T \o t, a, s)
<1>1. PICK u \in Seq(Byte) :
        /\ u = T \o t /\ Len(u) = Len(T) + Len(t)
        /\ \A i \in 1 .. Len(T) : u[i] = T[i]
        /\ \A i \in 1 .. Len(t) : u[Len(T) + i] = t[i]
  BY Join, Zenon
<1>2. Len(u) = Len(T) + Len(t) /\ \A i \in 1 .. Len(T) : u[i] = T[i]
  BY <1>1, Zenon
<1>3. /\ Len(s) \in Nat /\ Len(t) \in Nat /\ Len(T) \in Nat
  OBVIOUS
<1>4. a + Len(s) <= Len(T) /\ \A i \in 1 .. Len(s) : s[i] = T[a + i]
  BY Zenon DEF At
<1>5. a + Len(s) <= Len(u)
  BY <1>2, <1>3, <1>4
<1>6. ASSUME NEW i \in 1 .. Len(s)
      PROVE  s[i] = u[a + i]
  <2>1. a + i \in 1 .. Len(T)
    BY <1>3, <1>4
  <2> QED  BY <1>2, <1>4, <2>1
<1>7. At(u, a, s)
  BY <1>5, <1>6, Zenon DEF At
<1> QED  BY <1>1, <1>7, Zenon

\* What is appended is at the end of the stream.
LEMMA AtEnd ==
    ASSUME NEW T \in Seq(Byte), NEW t \in Seq(Byte), NEW a, a = Len(T)
    PROVE  At(T \o t, a, t)
<1>1. PICK u \in Seq(Byte) :
        /\ u = T \o t /\ Len(u) = Len(T) + Len(t)
        /\ \A i \in 1 .. Len(T) : u[i] = T[i]
        /\ \A i \in 1 .. Len(t) : u[Len(T) + i] = t[i]
  BY Join, Zenon
<1>2. Len(u) = Len(T) + Len(t) /\ \A i \in 1 .. Len(t) : u[Len(T) + i] = t[i]
  BY <1>1, Zenon
<1>3. a + Len(t) <= Len(u)
  BY <1>2
<1>4. At(u, a, t)
  BY <1>2, <1>3, Zenon DEF At
<1> QED  BY <1>1, <1>4, Zenon

LEMMA SendStep ==
    ASSUME FramingInv, NEW m \in PairingMessages, NEW message \in Frames(m), Send(m, message)
    PROVE  FramingInv'
<1>1. /\ ~spoiled /\ spoiled' = spoiled /\ sent' = Append(sent, m) /\ wire' = wire \o message
      /\ buffer' = buffer /\ heard' = heard
  BY DEF Send, bodies, settings
<1>2. /\ sent \in Seq(PairingMessages) /\ heard \in Seq(HeardMessages)
      /\ buffer \in Seq(Byte) /\ wire \in Seq(Byte)
      /\ ~Complete(buffer, ExpectedSize(buffer))
      /\ \A i \in 1 .. Len(heard) :
           heard[i].command = sent[i].command /\ heard[i].payload = sent[i].payload
  BY <1>1, Zenon DEF FramingInv
<1>3. PICK T, e : Between(T, e, sent, Len(heard), buffer, wire)
  BY <1>1, Zenon DEF FramingInv
<1> DEFINE k == Len(heard)
           n == Len(sent)
           b == Len(buffer)
           w == Len(wire)
<1>4. k \in Nat /\ n \in Nat /\ k <= n /\ k \in 0 .. n /\ b \in Nat /\ w \in Nat
  BY <1>2, <1>3 DEF Between
<1>5. /\ Streamed(T, e, sent) /\ T \in Seq(Byte) /\ e \in [0 .. n -> Nat]
      /\ e[k] + b + w = Len(T) /\ At(T, e[k], buffer) /\ At(T, e[k] + b, wire)
  BY <1>3, Zenon DEF Between, Streamed
<1>6. message \in Seq(Byte)
  BY FrameOfMessage
<1>7. PICK f : /\ Streamed(T \o message, f, Append(sent, m))
               /\ \A j \in 0 .. Len(sent) : f[j] = e[j]
  <2>1. Grows(T, e, sent, m, message)
    BY <1>2, <1>5, StreamGrows
  <2> QED  BY <2>1, Zenon DEF Grows
<1>8. f[k] = e[k] /\ e[k] \in Nat
  BY <1>4, <1>5, <1>7
<1> DEFINE a == e[k]
<1>9. a \in Nat /\ a + b \in Nat /\ (a + b) + w = Len(T)
  BY <1>4, <1>5, <1>8
<1> HIDE DEF a
<1>10. PICK U \in Seq(Byte) :
        /\ U = T \o message /\ Len(U) = Len(T) + Len(message)
  BY <1>5, <1>6, Join, Zenon
<1>11. PICK v \in Seq(Byte) :
        /\ v = wire \o message /\ Len(v) = w + Len(message)
  BY <1>2, <1>6, Join, Zenon
<1>12. At(U, a, buffer)
  BY <1>2, <1>5, <1>6, <1>9, <1>10, AtGrows, Zenon DEF a
<1>13. At(U, a + b, v)
  <2>1. At(U, a + b, wire)
    BY <1>2, <1>5, <1>6, <1>9, <1>10, AtGrows, Zenon DEF a
  <2>2. At(U, (a + b) + w, message)
    BY <1>5, <1>6, <1>9, <1>10, AtEnd, Zenon
  <2> QED  BY <1>2, <1>6, <1>9, <1>10, <1>11, <2>1, <2>2, AtJoin, Zenon
<1>14. a + b + Len(v) = Len(U)
  <2>1. Len(U) = Len(T) + Len(message) /\ Len(v) = w + Len(message)
    BY <1>10, <1>11, Zenon
  <2>2. Len(T) \in Nat /\ Len(message) \in Nat
    BY <1>5, <1>6
  <2>3. \A x, y \in Nat : (x = w + Len(message) /\ y = Len(T) + Len(message)) => a + b + x = y
    BY <1>4, <1>9, <2>2
  <2>4. Len(v) \in Nat /\ Len(U) \in Nat
    OBVIOUS
  <2> QED  BY <2>1, <2>3, <2>4, Zenon
<1>15. /\ Append(sent, m) \in Seq(PairingMessages) /\ Len(Append(sent, m)) = n + 1
       /\ \A i \in 1 .. n : Append(sent, m)[i] = sent[i]
  BY <1>2
<1>16. k <= Len(Append(sent, m))
  BY <1>4, <1>15
<1>17. Between(U, f, sent', Len(heard'), buffer', wire')
  <2>1. wire' = v /\ f[k] = a /\ Streamed(U, f, sent')
    BY <1>1, <1>7, <1>8, <1>10, <1>11, Zenon DEF a
  <2> QED  BY <1>1, <1>12, <1>13, <1>14, <1>16, <2>1, Zenon DEF Between
<1>19. \A i \in 1 .. Len(heard') :
         heard'[i].command = sent'[i].command /\ heard'[i].payload = sent'[i].payload
  <2>1. \A i \in 1 .. k : i \in 1 .. n
    BY <1>4
  <2> QED  BY <1>1, <1>2, <1>15, <2>1, Zenon
<1>20. wire' \in Seq(Byte)
  BY <1>1, <1>11, Zenon
<1> QED  BY <1>1, <1>2, <1>15, <1>17, <1>19, <1>20, Zenon DEF FramingInv, Complete, ExpectedSize

\* An indication is the head of what is on the wire.
LEMMA CutOfWire ==
    ASSUME NEW T \in Seq(Byte), NEW a \in Nat, NEW s \in Seq(Byte), At(T, a, s), NEW n \in Nat
    PROVE  \E first, last \in Seq(Byte) :
             /\ first = Slice(s, 0, n) /\ last = Slice(s, n, Len(s))
             /\ Len(first) <= n /\ Len(first) + Len(last) = Len(s)
             /\ At(T, a, first) /\ At(T, a + Len(first), last)
<1> DEFINE c == IF n < Len(s) THEN n ELSE Len(s)
           first == Slice(s, 0, n)
           last == Slice(s, n, Len(s))
<1>1. Len(s) \in Nat /\ Len(T) \in Nat /\ c \in Nat /\ c <= n /\ c <= Len(s)
  OBVIOUS
<1>2. first = SubSeq(s, 1, c)
  BY DEF Slice
<1>3. last = SubSeq(s, n + 1, Len(s))
  BY DEF Slice
<1>4. /\ first \in Seq(Byte) /\ Len(first) = c /\ \A i \in 1 .. c : first[i] = s[i]
  <2> HIDE DEF c, first
  <2> QED  BY <1>1, <1>2
<1>5. /\ last \in Seq(Byte) /\ Len(last) = Len(s) - c
      /\ \A i \in 1 .. Len(s) - c : last[i] = s[c + i]
  <2>1. CASE n < Len(s)
    <3>1. c = n
      BY <2>1
    <3> HIDE DEF c, last
    <3> QED  BY <1>1, <1>3, <2>1, <3>1
  <2>2. CASE ~(n < Len(s))
    <3>1. c = Len(s)
      BY <2>2
    <3> HIDE DEF c, last
    <3>2. last \in Seq(Byte) /\ Len(last) = 0
      BY <1>1, <1>3, <2>2
    <3> QED  BY <1>1, <3>1, <3>2
  <2> QED  BY <2>1, <2>2
<1> HIDE DEF c, first, last
<1>6. a + Len(s) <= Len(T) /\ \A i \in 1 .. Len(s) : s[i] = T[a + i]
  BY Zenon DEF At
<1>7. At(T, a, first)
  <2>1. a + Len(first) <= Len(T)
    BY <1>1, <1>4, <1>6
  <2>2. \A i \in 1 .. Len(first) : first[i] = T[a + i]
    BY <1>1, <1>4, <1>6
  <2> QED  BY <2>1, <2>2, Zenon DEF At
<1>8. At(T, a + Len(first), last)
  <2>1. (a + Len(first)) + Len(last) <= Len(T)
    BY <1>1, <1>4, <1>5, <1>6
  <2>2. ASSUME NEW i \in 1 .. Len(last)
        PROVE  last[i] = T[(a + Len(first)) + i]
    <3>1. i \in 1 .. Len(s) - c /\ c + i \in 1 .. Len(s) /\ (a + Len(first)) + i = a + (c + i)
      BY <1>1, <1>4, <1>5
    <3> QED  BY <1>5, <1>6, <3>1, Zenon
  <2> QED  BY <2>1, <2>2, Zenon DEF At
<1>9. Len(first) <= n /\ Len(first) + Len(last) = Len(s)
  BY <1>1, <1>4, <1>5
<1> QED  BY <1>4, <1>5, <1>7, <1>8, <1>9, Zenon DEF first, last

\* An indication: the buffer has room for it, the messages that are complete are the next that
\* were sent, and what is left is where the stream goes on.
GoesOn(T, e, msgs, k, buf, rest, n) ==
    \E filled, fed :
        /\ filled \in Seq(Byte) /\ filled = buf \o Slice(rest, 0, n) /\ fed = TakeMessages(filled)
        /\ Len(filled) <= MaxBuffer
        /\ fed.raw \in Seq(Seq(Byte)) /\ fed.rest \in Seq(Byte)
        /\ ~Complete(fed.rest, ExpectedSize(fed.rest))
        /\ \A x \in 1 .. Len(fed.raw) : fed.raw[x] \in Frames(msgs[k + x])
        /\ Slice(rest, n, Len(rest)) \in Seq(Byte)
        /\ Between(T, e, msgs, k + Len(fed.raw), fed.rest, Slice(rest, n, Len(rest)))

LEMMA FeedGoesOn ==
    ASSUME NEW T, NEW e, NEW msgs \in Seq(PairingMessages), NEW k \in Nat,
           NEW buf \in Seq(Byte), NEW rest \in Seq(Byte), Between(T, e, msgs, k, buf, rest),
           rest # <<>>, ~Complete(buf, ExpectedSize(buf)), NEW n \in Indications
    PROVE  GoesOn(T, e, msgs, k, buf, rest, n)
<1> DEFINE b == Len(buf)
           a == e[k]
<1>1. /\ n \in Nat /\ b \in Nat /\ Len(rest) \in Nat /\ Len(rest) # 0 /\ Len(msgs) \in Nat
      /\ MaxBuffer \in Nat
  BY BufferAssumption
<1>2. /\ Streamed(T, e, msgs) /\ T \in Seq(Byte) /\ k <= Len(msgs)
      /\ a + b + Len(rest) = Len(T) /\ At(T, a, buf) /\ At(T, a + b, rest)
  BY Zenon DEF Between, Streamed
<1>3. k \in 0 .. Len(msgs)
  BY <1>1, <1>2
<1>4. a \in Nat /\ Len(T) \in Nat /\ a + b \in Nat
  <2>1. a \in Nat
    BY <1>2, <1>3, Zenon DEF Streamed
  <2>2. Len(T) \in Nat
    BY <1>2
  <2> HIDE DEF a
  <2> QED  BY <1>1, <2>1, <2>2
<1>5. PICK first, last \in Seq(Byte) :
        /\ first = Slice(rest, 0, n) /\ last = Slice(rest, n, Len(rest))
        /\ Len(first) <= n /\ Len(first) + Len(last) = Len(rest)
        /\ At(T, a + b, first) /\ At(T, (a + b) + Len(first), last)
  BY <1>1, <1>2, <1>4, CutOfWire
<1>6. PICK filled \in Seq(Byte) : filled = buf \o first /\ Len(filled) = b + Len(first)
  BY Join, Zenon
<1>7. /\ Len(first) \in Nat /\ Len(last) \in Nat /\ Len(first) <= n
      /\ Len(first) + Len(last) = Len(rest)
  BY <1>5
<1>8. Len(filled) = b + Len(first) /\ Len(filled) \in Nat
  BY <1>6
<1>9. At(T, a, filled)
  BY <1>2, <1>4, <1>5, <1>6, AtJoin, Zenon
<1> DEFINE fed == TakeMessages(filled)
<1>10. /\ Round(fed, T, e, msgs, k, a + Len(filled))
       /\ ~Complete(fed.rest, ExpectedSize(fed.rest))
  BY <1>2, <1>3, <1>9, LoopTakes
<1> HIDE DEF fed
<1>11. Len(filled) <= MaxBuffer
  <2>1. k # Len(msgs)
    <3> SUFFICES ASSUME k = Len(msgs) PROVE FALSE
      OBVIOUS
    <3>1. a = Len(T)
      BY <1>2 DEF Streamed
    <3> HIDE DEF a, b
    <3> QED  BY <1>1, <1>2, <1>4, <3>1
  <2>2. PICK message \in Frames(msgs[k + 1]) : NextIs(T, e[k], e[k + 1], buf, message)
    BY <1>2, <1>3, <2>1, HeadOfStream
  <2>3. k + 1 \in 1 .. Len(msgs) /\ msgs[k + 1] \in PairingMessages
    BY <1>3, <2>1
  <2>4. Len(message) = Len(msgs[k + 1].payload) + 4 /\ Len(msgs[k + 1].payload) \in Nat
    BY <2>3, FrameOfMessage
  <2>5. ~(b >= Len(message))
    <3>1. b >= Len(message) => ExpectedSize(buf) = Len(message) /\ Len(message) >= 5
      BY <2>2, Zenon DEF NextIs
    <3>2. \A x \in Nat : x >= 5 => x > 0
      OBVIOUS
    <3>3. Len(message) \in Nat
      BY <2>4
    <3> QED  BY <3>1, <3>2, <3>3, Zenon DEF Complete
  <2>6. Len(msgs[k + 1].payload) + 3 + n <= MaxBuffer
    BY <2>3, BufferAssumption, Zenon
  <2> DEFINE l == Len(msgs[k + 1].payload)
  <2>7. l \in Nat /\ ~(b >= l + 4) /\ l + 3 + n <= MaxBuffer
    BY <2>4, <2>5, <2>6, Zenon
  <2> HIDE DEF l, b
  <2> QED  BY <1>1, <1>7, <1>8, <2>7
<1> DEFINE r == Len(fed.raw)
<1>12. /\ fed.raw \in Seq(Seq(Byte)) /\ fed.rest \in Seq(Byte) /\ k + r <= Len(msgs)
       /\ \A x \in 1 .. r : fed.raw[x] \in Frames(msgs[k + x])
       /\ e[k + r] + Len(fed.rest) = a + Len(filled) /\ At(T, e[k + r], fed.rest)
  BY <1>10, Zenon DEF Round
<1>13. Between(T, e, msgs, k + r, fed.rest, last)
  <2>1. k + r \in 0 .. Len(msgs) /\ Len(fed.rest) \in Nat
    BY <1>1, <1>12
  <2> DEFINE q == e[k + r]
  <2>2. q \in Nat
    BY <1>2, <2>1 DEF Streamed
  <2>3. q + Len(fed.rest) = a + Len(filled) /\ At(T, q, fed.rest)
    BY <1>12, Zenon
  <2> DEFINE d == Len(fed.rest)
             g == Len(filled)
  <2>3a. d \in Nat /\ q + d = a + g /\ g = b + Len(first)
    BY <1>8, <2>1, <2>3, Zenon
  <2> HIDE DEF q, d, g, a, b
  <2>4. q + d = (a + b) + Len(first)
    BY <1>1, <1>2, <1>4, <1>7, <2>2, <2>3a
  <2>5. q + d + Len(last) = Len(T)
    <3>1. \A x, y, z \in Nat : (x + y) + z = x + (y + z)
      OBVIOUS
    <3>2. ((a + b) + Len(first)) + Len(last) = (a + b) + (Len(first) + Len(last))
      BY <1>4, <1>7, <3>1, Zenon
    <3>3. a + b + Len(rest) = Len(T)
      BY <1>2, Zenon
    <3> QED  BY <1>7, <2>4, <3>2, <3>3, Zenon
  <2>6. At(T, q + d, last)
    BY <1>5, <2>4, Zenon
  <2> QED  BY <1>2, <1>12, <2>3, <2>5, <2>6, Zenon DEF Between, q, d
<1> QED  BY <1>5, <1>6, <1>10, <1>11, <1>12, <1>13, Zenon DEF GoesOn, fed

\* decode_plain of a message that was framed.
LEMMA DecodedMessage ==
    ASSUME NEW m \in PairingMessages, NEW message \in Frames(m)
    PROVE  /\ Decodable(message) /\ decode_plain(message) \in HeardMessages
           /\ decode_plain(message).command = m.command
           /\ decode_plain(message).payload = m.payload
<1>1. /\ message \in Seq(Byte) /\ Len(message) = Len(m.payload) + 4
      /\ m.payload \in Seq(Byte) /\ m.command \in Word
      /\ verify_crc(message) /\ CommandOf(message) = m.command
      /\ Slice(message, 2, Len(message) - 2) = m.payload
  BY FrameOfMessage
<1>2. Len(message) >= 4
  BY <1>1
<1>3. decode_plain(message) = [command |-> m.command, payload |-> m.payload,
                               unchecked |-> Received(message) = 0]
  BY <1>1, Zenon DEF decode_plain
<1>4. (Received(message) = 0) \in BOOLEAN
  BY Zenon
<1> DEFINE u == Received(message) = 0
           h == [command |-> m.command, payload |-> m.payload, unchecked |-> u]
<1>5. u \in BOOLEAN
  BY <1>4
<1> HIDE DEF u
<1>6. h \in HeardMessages /\ h.command = m.command /\ h.payload = m.payload
  BY <1>1, <1>5 DEF HeardMessages
<1> HIDE DEF h
<1>7. decode_plain(message) = h
  BY <1>3 DEF h, u
<1> QED  BY <1>1, <1>2, <1>6, <1>7, Zenon DEF Decodable

LEMMA HeardGrows ==
    ASSUME NEW old \in Seq(HeardMessages), NEW new \in Seq(HeardMessages)
    PROVE  /\ old \o new \in Seq(HeardMessages) /\ Len(old \o new) = Len(old) + Len(new)
           /\ \A i \in 1 .. Len(old) : (old \o new)[i] = old[i]
           /\ \A i \in 1 .. Len(new) : (old \o new)[Len(old) + i] = new[i]
  OBVIOUS

LEMMA IndicateStep ==
    ASSUME FramingInv, NEW n \in Indications, Indicate(n)
    PROVE  FramingInv'
<1> SUFFICES ASSUME ~spoiled
             PROVE  FramingInv'
  BY Zenon DEF FramingInv, Indicate
<1>1. /\ sent \in Seq(PairingMessages) /\ heard \in Seq(HeardMessages)
      /\ buffer \in Seq(Byte) /\ wire \in Seq(Byte)
      /\ ~Complete(buffer, ExpectedSize(buffer))
      /\ \A i \in 1 .. Len(heard) :
           heard[i].command = sent[i].command /\ heard[i].payload = sent[i].payload
  BY Zenon DEF FramingInv
<1>2. PICK T, e : Between(T, e, sent, Len(heard), buffer, wire)
  BY Zenon DEF FramingInv
<1> DEFINE k == Len(heard)
<1>3. k \in Nat /\ wire # <<>>
  BY <1>1 DEF Indicate
<1>4. PICK filled, fed :
        /\ filled \in Seq(Byte) /\ filled = buffer \o Slice(wire, 0, n)
        /\ fed = TakeMessages(filled)
        /\ Len(filled) <= MaxBuffer
        /\ fed.raw \in Seq(Seq(Byte)) /\ fed.rest \in Seq(Byte)
        /\ ~Complete(fed.rest, ExpectedSize(fed.rest))
        /\ \A x \in 1 .. Len(fed.raw) : fed.raw[x] \in Frames(sent[k + x])
        /\ Slice(wire, n, Len(wire)) \in Seq(Byte)
        /\ Between(T, e, sent, k + Len(fed.raw), fed.rest, Slice(wire, n, Len(wire)))
  <2>1. GoesOn(T, e, sent, k, buffer, wire, n)
    BY <1>1, <1>2, <1>3, FeedGoesOn
  <2> QED  BY <2>1, Zenon DEF GoesOn
<1> DEFINE r == Len(fed.raw)
           new == [i \in DOMAIN fed.raw |-> decode_plain(fed.raw[i])]
<1>5. ~(Len(filled) > MaxBuffer)
  BY <1>4, BufferAssumption
<1>6. r \in Nat /\ DOMAIN fed.raw = 1 .. r /\ Len(sent) \in Nat /\ k + r <= Len(sent)
  <2>1. k + r <= Len(sent)
    BY <1>4, Zenon DEF Between
  <2>2. fed.raw \in Seq(Seq(Byte))
    BY <1>4, Zenon
  <2> QED  BY <1>1, <2>1, <2>2
<1>7. ASSUME NEW x \in 1 .. r
      PROVE  /\ Decodable(fed.raw[x]) /\ decode_plain(fed.raw[x]) \in HeardMessages
             /\ decode_plain(fed.raw[x]).command = sent[k + x].command
             /\ decode_plain(fed.raw[x]).payload = sent[k + x].payload
  <2>1. k + x \in 1 .. Len(sent)
    BY <1>3, <1>6
  <2>2. sent[k + x] \in PairingMessages
    BY <1>1, <2>1
  <2>3. fed.raw[x] \in Frames(sent[k + x])
    BY <1>4, Zenon
  <2> QED  BY <2>2, <2>3, DecodedMessage, Zenon
<1>8. ~\E i \in DOMAIN fed.raw : ~Decodable(fed.raw[i])
  BY <1>6, <1>7, Zenon
<1>9. /\ buffer' = fed.rest /\ heard' = heard \o new
      /\ wire' = Slice(wire, n, Len(wire)) /\ sent' = sent /\ spoiled' = spoiled
  <2>1. /\ filled = buffer \o Slice(wire, 0, n) /\ fed = TakeMessages(filled)
    BY <1>4, Zenon
  <2> QED  BY <1>5, <1>8, <2>1, Zenon DEF Indicate
<1>10. new \in Seq(HeardMessages) /\ Len(new) = r
  <2>1. \A x \in 1 .. r : decode_plain(fed.raw[x]) \in HeardMessages
    BY <1>7, Zenon
  <2>2. new = [i \in 1 .. r |-> decode_plain(fed.raw[i])]
    BY <1>6, Zenon
  <2> HIDE DEF r, new
  <2> QED  BY <1>6, <2>1, <2>2
<1>11. \A x \in 1 .. r : new[x] = decode_plain(fed.raw[x])
  BY <1>6, Zenon
<1> HIDE DEF new, r
<1>12. /\ heard' \in Seq(HeardMessages) /\ Len(heard') = k + r
       /\ \A i \in 1 .. k : heard'[i] = heard[i]
       /\ \A i \in 1 .. r : heard'[k + i] = new[i]
  BY <1>1, <1>9, <1>10, HeardGrows, Zenon
<1>13. ASSUME NEW i \in 1 .. Len(heard')
       PROVE  heard'[i].command = sent'[i].command /\ heard'[i].payload = sent'[i].payload
  <2>1. CASE i \in 1 .. k
    BY <1>1, <1>9, <1>12, <2>1, Zenon
  <2>2. CASE i \notin 1 .. k
    <3> DEFINE x == i - k
    <3>1. x \in 1 .. r /\ k + x = i
      <4>1. i \in 1 .. k + r
        BY <1>12
      <4> HIDE DEF k
      <4> QED  BY <1>3, <1>6, <2>2, <4>1
    <3> HIDE DEF x
    <3> QED  BY <1>7, <1>9, <1>11, <1>12, <3>1, Zenon
  <2> QED  BY <2>1, <2>2
<1>14. Between(T, e, sent', Len(heard'), buffer', wire')
  BY <1>4, <1>9, <1>12, Zenon DEF r
<1>15. /\ buffer' \in Seq(Byte) /\ wire' \in Seq(Byte)
       /\ ~Complete(buffer', ExpectedSize(buffer'))
  BY <1>4, <1>9, Zenon
<1> QED  BY <1>1, <1>9, <1>12, <1>13, <1>14, <1>15, Zenon DEF FramingInv

\* The stream, when all of it has been indicated, was heard to its end.
LEMMA FramingInvHolds == Spec => []FramingInv
<1>1. Init => FramingInv
  BY FramingInit
<1>2. FramingInv /\ [Next]_vars => FramingInv'
  <2> SUFFICES ASSUME FramingInv, [Next]_vars
               PROVE  FramingInv'
    OBVIOUS
  <2>1. CASE \E m \in PairingMessages : \E message \in Frames(m) : Send(m, message)
    BY <2>1, SendStep
  <2>2. CASE \E n \in Indications : Indicate(n)
    BY <2>2, IndicateStep
  <2>3. CASE \E at \in DOMAIN wire, bit \in {1, 128}, all \in BOOLEAN : Spoil(at, bit, all)
    BY <2>3, Zenon DEF FramingInv, Spoil
  <2>4. ASSUME UNCHANGED pairing
        PROVE  FramingInv'
    <3>1. /\ sent' = sent /\ wire' = wire /\ buffer' = buffer /\ heard' = heard
          /\ spoiled' = spoiled
      BY <2>4 DEF pairing
    <3> QED  BY <3>1, Zenon DEF FramingInv, Complete, ExpectedSize
  <2>5. CASE \E kind \in Kinds, payload \in Payloads : Decrypted(kind, payload)
    BY <2>4, <2>5, Zenon DEF Decrypted
  <2>6. CASE \E name \in Names : BuildAuthorization(name) \/ BuildLockAction(name)
    BY <2>4, <2>6, Zenon DEF BuildAuthorization, BuildLockAction
  <2>7. CASE WriteBack
    BY <2>4, <2>7, Zenon DEF WriteBack
  <2>8. CASE UNCHANGED vars
    BY <2>4, <2>8 DEF vars
  <2> QED  BY <2>1, <2>2, <2>3, <2>5, <2>6, <2>7, <2>8 DEF Next
<1> QED  BY <1>1, <1>2, PTL DEF Spec

LEMMA FramingImplies == FramingInv => FramesArriveWhole
<1> SUFFICES ASSUME FramingInv, ~spoiled
             PROVE  /\ Len(heard) <= Len(sent)
                    /\ \A i \in DOMAIN heard :
                         heard[i].command = sent[i].command /\ heard[i].payload = sent[i].payload
                    /\ wire = <<>> => buffer = <<>> /\ Len(heard) = Len(sent)
  BY Zenon DEF FramesArriveWhole
<1>1. /\ sent \in Seq(PairingMessages) /\ heard \in Seq(HeardMessages)
      /\ buffer \in Seq(Byte) /\ wire \in Seq(Byte)
      /\ ~Complete(buffer, ExpectedSize(buffer))
      /\ \A i \in 1 .. Len(heard) :
           heard[i].command = sent[i].command /\ heard[i].payload = sent[i].payload
  BY Zenon DEF FramingInv
<1>2. PICK T, e : Between(T, e, sent, Len(heard), buffer, wire)
  BY Zenon DEF FramingInv
<1> DEFINE k == Len(heard)
<1>3. /\ Streamed(T, e, sent) /\ k <= Len(sent)
      /\ e[k] + Len(buffer) + Len(wire) = Len(T) /\ At(T, e[k], buffer)
  BY <1>2, Zenon DEF Between
<1>4. DOMAIN heard = 1 .. k /\ k \in 0 .. Len(sent)
  BY <1>1, <1>3
<1>5. ASSUME wire = <<>>
      PROVE  buffer = <<>> /\ k = Len(sent)
  <2> DEFINE a == e[k]
             b == Len(buffer)
             t == Len(T)
  <2>1. a \in Nat /\ b \in Nat /\ t \in Nat /\ a + b = t
    <3>1. e \in [0 .. Len(sent) -> Nat] /\ T \in Seq(Byte) /\ Len(wire) = 0
      BY <1>3, <1>5 DEF Streamed
    <3>2. a \in Nat
      BY <1>4, <3>1, Zenon
    <3>3. b \in Nat /\ t \in Nat
      BY <1>1, <3>1
    <3>4. a + b + 0 = t
      BY <1>3, <3>1, Zenon
    <3> HIDE DEF a, b, t
    <3> QED  BY <3>2, <3>3, <3>4
  <2>2. k = Len(sent)
    <3> SUFFICES ASSUME k # Len(sent) PROVE FALSE
      OBVIOUS
    <3>1. PICK message \in Frames(sent[k + 1]) : NextIs(T, e[k], e[k + 1], buffer, message)
      BY <1>1, <1>3, <1>4, HeadOfStream
    <3> DEFINE l == Len(message)
    <3>2. /\ e[k + 1] = a + l /\ l >= 5 /\ message \in Seq(Byte)
          /\ b >= l => ExpectedSize(buffer) = l
      BY <3>1, Zenon DEF NextIs
    <3>3. a + l <= t
      <4>1. k + 1 \in 0 .. Len(sent)
        BY <1>1, <1>4
      <4> QED  BY <1>3, <3>2, <4>1, Zenon DEF Streamed
    <3>4. l \in Nat
      BY <3>2
    <3>5. b >= l /\ l > 0
      <4> HIDE DEF a, b, t, l
      <4> QED  BY <2>1, <3>2, <3>3, <3>4
    <3> QED  BY <1>1, <3>2, <3>5, Zenon DEF Complete
  <2>3. Len(buffer) = 0
    BY <1>1, <1>3, <2>2, EndOfStream
  <2> QED  BY <1>1, <2>2, <2>3
<1> QED  BY <1>1, <1>3, <1>4, <1>5, Zenon

\* The messages of a pairing come out as they were framed, in order, and whole, however long the
\* stream is and however the radio cuts it, as long as it changes no byte; nothing is left over
\* (protocol.py:93-119).
THEOREM StreamIsTakenApart == Spec => []FramesArriveWhole
  BY FramingInvHolds, FramingImplies, PTL
=============================================================================
