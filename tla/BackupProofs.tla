---------------------------- MODULE BackupProofs ----------------------------
(***************************************************************************)
(* For every form, of any length and content: postdecode and urldecode     *)
(* stay inside what was read, although they cut the buffer they search and *)
(* overwrite the string they read; and the session they come to is the one *)
(* the form names, decoded once.                                           *)
(***************************************************************************)
EXTENDS Backup, SeqLemmas

\* What the proofs need of the constants.
LEMMA Numbers ==
  /\ Archive \in Nat /\ Headers \in Nat /\ StdioSize \in Nat /\ Headers <= StdioSize
  /\ PipeSize \in Nat \ {0} /\ ReadSize \in Nat \ {0}
BY Zenon, BackupAssumption

\* The bytes.
LEMMA Bytes ==
  /\ {"=", "&", "%", "+", " "} \subseteq Others /\ NUL \notin Others
  /\ Hex \subseteq Others \ {"%"} /\ HexByte \in [Hex \X Hex -> Others \cup {NUL}]
  /\ Forms \subseteq Seq(Others \cup {NUL})
BY Zenon, BackupAssumption

\* The parts of the type invariant.
BufferType ==
  /\ data \in Forms /\ buf \in Seq(Others \cup {NUL}) /\ Len(buf) = Len(data) + 1
  /\ buf[Len(buf)] = NUL
PlaceType ==
  /\ pc \in {"start", "scan", "found", "decode", "access", "pipe", "fork", "relay", "denied", "exited"}
  /\ i \in 1..Len(buf) + 1 /\ p \in 1..Len(buf) + 1 /\ value \in 0..Len(buf)
  /\ pc \in {"found", "decode", "access"} => value > 0
  /\ c \in 1..Len(buf) /\ (pc = "decode" => c <= i /\ i <= Len(buf))
RelayType ==
  /\ fds \subseteq {"read", "write"} /\ child \in {"none", "running", "ended"}
  /\ written \in 0..Archive /\ taken \in 0..written
  /\ held \in 0..StdioSize /\ left \in Nat

\* Together they are TypeOK.
LEMMA TypeParts == TypeOK <=> BufferType /\ PlaceType /\ RelayType
BY DEF TypeOK, BufferType, PlaceType, RelayType

\* It holds once the form is read.
LEMMA InitType == Init => TypeOK
<1> SUFFICES ASSUME Init PROVE BufferType /\ PlaceType /\ RelayType
  BY TypeParts
<1>1. data \in Seq(Others \cup {NUL}) /\ data \in Forms  BY Bytes DEF Init
<1>2. BufferType  BY <1>1, AppendProperties DEF Init, BufferType
<1>3. Len(data) \in Nat  BY <1>1, LenProperties
<1>4. PlaceType  BY <1>2, <1>3 DEF Init, PlaceType, BufferType
<1>5. RelayType
  <2>1. 0 \in 0..StdioSize /\ 0 \in 0..Archive  BY Numbers
  <2> QED  BY <2>1 DEF Init, RelayType
<1> QED  BY <1>2, <1>4, <1>5

\* Overwriting a byte other than the terminator, or that with a NUL, keeps the
\* buffer a string.
LEMMA Overwritten ==
  ASSUME BufferType, NEW n \in 1..Len(buf), NEW b \in Others \cup {NUL},
         n < Len(buf) \/ b = NUL, buf' = [buf EXCEPT ![n] = b], data' = data
  PROVE  BufferType' /\ Len(buf') = Len(buf)
<1>1. Len(buf) \in Nat  BY LenProperties DEF BufferType
<1>2. buf' \in Seq(Others \cup {NUL}) /\ Len(buf') = Len(buf)
  BY ExceptSeq DEF BufferType
<1>3. buf'[Len(buf)] = NUL  BY <1>1 DEF BufferType
<1> QED  BY <1>2, <1>3 DEF BufferType

\* A byte that is not NUL has the terminator behind it.
LEMMA NotLast ==
  ASSUME BufferType, NEW n \in 1..Len(buf), buf[n] # NUL
  PROVE  n < Len(buf) /\ buf[n] \in Others
<1>1. Len(buf) \in Nat  BY LenProperties DEF BufferType
<1>2. buf[n] \in Others \cup {NUL}  BY ElementOfSeq DEF BufferType
<1> QED  BY <1>1, <1>2 DEF BufferType

\* The two searches and the decoder stay inside the buffer.
LEMMA ScanStep ==
  ASSUME BufferType, PlaceType, Start \/ ScanEquals \/ ScanPairEnd \/ ScanByte \/ ScanEnd
  PROVE  BufferType' /\ PlaceType'
<1>0. Len(buf) \in Nat /\ NUL \notin Others /\ {"=", "&"} \subseteq Others
  BY LenProperties, Bytes DEF BufferType
<1>1. CASE Start  BY <1>1 DEF Start, scan, BufferType, PlaceType
<1>2. CASE ScanEquals
  <2>1. i \in 1..Len(buf) /\ i < Len(buf)  BY <1>0, <1>2, NotLast DEF ScanEquals, PlaceType
  <2>2. BufferType' /\ Len(buf') = Len(buf)  BY <1>2, <2>1, Overwritten DEF ScanEquals
  <2>3. /\ pc = "scan" /\ i' = i + 1 /\ value' \in {i + 1, value} /\ UNCHANGED <<pc, p, c>>
    BY <1>2 DEF ScanEquals
  <2> QED  BY <1>0, <2>1, <2>2, <2>3 DEF PlaceType
<1>3. CASE ScanPairEnd
  <2>1. i \in 1..Len(buf)  BY <1>0, <1>3 DEF ScanPairEnd, PlaceType
  <2>2. BufferType' /\ Len(buf') = Len(buf)  BY <1>3, <2>1, Overwritten DEF ScanPairEnd
  <2>3. /\ pc = "scan" /\ i' = i + 1 /\ p' = i + 1 /\ UNCHANGED <<value, c>>
        /\ pc' = IF value # 0 THEN "found" ELSE pc
    BY <1>3 DEF ScanPairEnd
  <2> QED  BY <1>0, <2>1, <2>2, <2>3 DEF PlaceType
<1>4. CASE ScanByte  BY <1>0, <1>4 DEF ScanByte, BufferType, PlaceType
<1>5. CASE ScanEnd  BY <1>0, <1>5 DEF ScanEnd, scan, BufferType, PlaceType
<1> QED  BY <1>1, <1>2, <1>3, <1>4, <1>5

\* What the decoder's steps look at and write.  (Zenon: the other prover cannot
\* take the bytes "%" and " ".)
LEMMA DecodesByte ==
  ASSUME DecodeByte
  PROVE  /\ pc = "decode" /\ buf[i] # NUL /\ i' = i + 1 /\ c' = c + 1
         /\ UNCHANGED <<data, pc, p, value>>
         /\ \E b \in {buf[i]} \cup Others : buf' = [buf EXCEPT ![c] = b]
<1>1. " " \in Others  BY Zenon, Bytes
<1> QED  BY <1>1, Zenon DEF DecodeByte

LEMMA DecodesEscape ==
  ASSUME DecodeEscape
  PROVE  /\ pc = "decode" /\ buf[i] \in Others /\ buf[i + 1] \in Hex /\ buf[i + 2] \in Hex
         /\ i' = i + 3 /\ c' = c + 1 /\ UNCHANGED <<data, pc, p, value>>
         /\ buf' = [buf EXCEPT ![c] = HexByte[<<buf[i + 1], buf[i + 2]>>]]
<1>1. "%" \in Others  BY Zenon, Bytes
<1> QED  BY <1>1, Zenon DEF DecodeEscape, IsEscape

\* The writer stays behind the reader, which stops at the terminator.
LEMMA DecodeStep ==
  ASSUME BufferType, PlaceType, DecodeByte \/ DecodeEscape \/ DecodeFails \/ DecodeEnd
  PROVE  BufferType' /\ PlaceType'
<1>0. Len(buf) \in Nat /\ NUL \notin Others /\ Hex \subseteq Others
  <2>1. NUL \notin Others /\ Hex \subseteq Others  BY Zenon, Bytes
  <2> QED  BY <2>1, LenProperties DEF BufferType
<1>a. pc = "decode" => i \in 1..Len(buf) /\ c \in 1..i  BY <1>0 DEF PlaceType
<1>1. CASE DecodeByte
  <2>1. PICK b \in {buf[i]} \cup Others : buf' = [buf EXCEPT ![c] = b]  BY <1>1, DecodesByte
  <2>2. /\ pc = "decode" /\ buf[i] # NUL /\ i' = i + 1 /\ c' = c + 1
        /\ UNCHANGED <<data, pc, p, value>>
    BY <1>1, DecodesByte
  <2>3. i < Len(buf) /\ buf[i] \in Others  BY <1>a, <2>2, NotLast
  <2>4. c \in 1..Len(buf) /\ c < Len(buf) /\ b \in Others \cup {NUL}  BY <1>0, <1>a, <2>2, <2>3
  <2>5. BufferType' /\ Len(buf') = Len(buf)  BY <2>1, <2>2, <2>4, Overwritten
  <2> QED  BY <1>0, <1>a, <2>2, <2>3, <2>5 DEF PlaceType
<1>2. CASE DecodeEscape
  <2>1. /\ pc = "decode" /\ buf[i] \in Others /\ buf[i + 1] \in Hex /\ buf[i + 2] \in Hex
        /\ i' = i + 3 /\ c' = c + 1 /\ UNCHANGED <<data, pc, p, value>>
    BY <1>2, DecodesEscape
  <2>2. i < Len(buf) /\ i + 1 \in 1..Len(buf)  BY <1>0, <1>a, <2>1, NotLast
  <2>3. i + 1 < Len(buf) /\ i + 2 \in 1..Len(buf)
    <3>1. buf[i + 1] # NUL  BY <1>0, <2>1
    <3>2. i + 1 < Len(buf)  BY <2>2, <3>1, NotLast
    <3> QED  BY <1>0, <1>a, <2>1, <3>2
  <2>4. i + 2 < Len(buf)
    <3>1. buf[i + 2] # NUL  BY <1>0, <2>1
    <3> QED  BY <2>3, <3>1, NotLast
  <2>5. HexByte[<<buf[i + 1], buf[i + 2]>>] \in Others \cup {NUL}
    <3>1. HexByte \in [Hex \X Hex -> Others \cup {NUL}]  BY Zenon, Bytes
    <3> QED  BY <2>1, <3>1
  <2>6. c \in 1..Len(buf) /\ c < Len(buf)  BY <1>0, <1>a, <2>1, <2>2
  <2>7. BufferType' /\ Len(buf') = Len(buf)  BY <1>2, <2>1, <2>5, <2>6, Overwritten, DecodesEscape
  <2> QED  BY <1>0, <1>a, <2>1, <2>4, <2>6, <2>7 DEF PlaceType
<1>3. CASE DecodeFails
  <2>1. pc' = "denied" /\ UNCHANGED <<data, buf, scan>>  BY <1>3, Zenon DEF DecodeFails
  <2> QED  BY <2>1 DEF scan, BufferType, PlaceType
<1>4. CASE DecodeEnd
  <2>1. c \in 1..Len(buf)  BY DEF PlaceType
  <2>2. BufferType' /\ Len(buf') = Len(buf)  BY <1>4, <2>1, Overwritten DEF DecodeEnd
  <2> QED  BY <1>4, <2>2 DEF DecodeEnd, scan, PlaceType
<1> QED  BY <1>1, <1>2, <1>3, <1>4

\* The form's buffer and places do not change once it is decoded.
LEMMA ProgramStep ==
  ASSUME BufferType, PlaceType,
         Access \/ Pipe \/ Fork \/ Fail \/ Relay \/ ChildWrites \/ ChildEnds \/ UNCHANGED vars
  PROVE  BufferType' /\ PlaceType'
<1> USE DEF scan, BufferType, PlaceType
<1>1. CASE Access \/ Pipe \/ Fork \/ Fail  BY <1>1 DEF Access, Pipe, Fork, Fail
<1>2. CASE Relay  BY <1>2 DEF Relay
<1>3. CASE ChildWrites \/ ChildEnds \/ UNCHANGED vars  BY <1>3 DEF ChildWrites, ChildEnds, vars
<1> QED  BY <1>1, <1>2, <1>3

\* Nor does the archive before.
LEMMA RelayStep ==
  ASSUME RelayType, [Next]_vars
  PROVE  RelayType'
<1>0. Archive \in Nat /\ StdioSize \in Nat /\ Headers \in 0..StdioSize /\ ReadSize \in Nat
  BY Numbers
<1> USE DEF RelayType, relay
<1>1. CASE Decode \/ Access \/ UNCHANGED vars
  <2>1. UNCHANGED <<fds, relay>>
    <3>1. DecodeByte \/ DecodeEscape \/ DecodeFails \/ DecodeEnd => UNCHANGED <<fds, relay>>
      BY Zenon DEF DecodeByte, DecodeEscape, DecodeFails, DecodeEnd
    <3> QED
      BY <1>1, <3>1 DEF Decode, Start, ScanEquals, ScanPairEnd, ScanByte, ScanEnd, Access, vars
  <2> QED  BY <2>1
<1>2. CASE Pipe \/ Fail  BY <1>2 DEF Pipe, Fail
<1>3. CASE Fork  BY <1>0, <1>3 DEF Fork
<1>4. CASE Relay
  <2>1. PICK n \in 0..ReadSize :
          /\ n <= written - taken /\ taken' = taken + n
          /\ fds' = IF n = 0 THEN {} ELSE fds
          /\ held' \in IF n = 0 THEN {0} ELSE 0..StdioSize
          /\ left' = left + held + n - held' /\ left' >= left
    BY <1>4 DEF Relay
  <2>2. held' \in 0..StdioSize /\ held \in 0..StdioSize  BY <1>0, <2>1
  <2>3. written \in 0..Archive /\ taken \in 0..written /\ left \in Nat  OBVIOUS
  <2>4. taken' \in 0..written  BY <1>0, <2>1, <2>3
  <2>5. left' \in Nat
    <3>1. left' = left + held + n - held' /\ left' >= left  BY <2>1
    <3>2. left' \in Int  BY <1>0, <2>2, <2>3, <3>1
    <3> QED  BY <2>3, <3>1, <3>2
  <2>6. fds' \subseteq {"read", "write"} /\ UNCHANGED <<child, written>>  BY <1>4, <2>1 DEF Relay
  <2> QED  BY <2>2, <2>3, <2>4, <2>5, <2>6
<1>5. CASE ChildWrites
  <2>1. written' = written + 1 /\ written < Archive /\ UNCHANGED <<fds, child, taken, held, left>>
    BY <1>5 DEF ChildWrites
  <2>2. written \in 0..Archive /\ taken \in 0..written  OBVIOUS
  <2>3. written' \in 0..Archive /\ taken' \in 0..written'  BY <1>0, <2>1, <2>2
  <2> QED  BY <2>1, <2>3
<1>6. CASE ChildEnds  BY <1>6 DEF ChildEnds
<1> QED  BY <1>1, <1>2, <1>3, <1>4, <1>5, <1>6 DEF Next, Program

\* Together.
LEMMA TypeStep == TypeOK /\ [Next]_vars => TypeOK'
<1> SUFFICES ASSUME BufferType, PlaceType, RelayType, [Next]_vars
             PROVE  BufferType' /\ PlaceType' /\ RelayType'
  BY TypeParts DEF TypeOK, BufferType, PlaceType, RelayType
<1>1. BufferType' /\ PlaceType'
  BY ScanStep, DecodeStep, ProgramStep DEF Next, Program, Decode
<1> QED  BY <1>1, RelayStep

\* No form makes the decoder read or write past the end of what was read, or
\* leaves the buffer without a terminator behind it.
THEOREM TypeCorrect == Spec => []TypeOK
BY InitType, TypeStep, PTL DEF Spec

---------------------------------------------------------------------------
(* The reference decoder.  Its bytes "%", "+" and " " have names here,     *)
(* because only Zenon can take them.                                       *)

AnyByte == Others \cup {NUL}
Percent(b) == b = "%"
Plain(b) == IF b = "+" THEN " " ELSE b

\* The byte that the text at a place stands for, and how much of it that takes.
Escape(s, k) == Percent(s[k]) /\ Escaped(s, k)
Taken(s, k) == IF Escape(s, k) THEN 3 ELSE 1
ByteAt(s, k) == IF Escape(s, k) THEN HexByte[<<s[k + 1], s[k + 2]>>] ELSE Plain(s[k])
Fine(s, k) == Percent(s[k]) => Escaped(s, k)

\* Functions from each place to what the text is from there on.
Decodes(f, s) ==
  /\ f[Len(s) + 1] = <<>>
  /\ \A k \in 1..Len(s) : f[k] = <<ByteAt(s, k)>> \o f[k + Taken(s, k)]
Judges(g, s) ==
  /\ g[Len(s) + 1]
  /\ \A k \in 1..Len(s) : g[k] <=> Fine(s, k) /\ g[k + Taken(s, k)]

\* A place's byte is one, and it ends inside the text.
LEMMA PlaceIn ==
  ASSUME NEW s \in Seq(AnyByte), NEW k \in 1..Len(s)
  PROVE  ByteAt(s, k) \in AnyByte /\ Taken(s, k) \in 1..Len(s) + 1 - k
<1>0. Len(s) \in Nat /\ s[k] \in AnyByte  BY LenProperties, ElementOfSeq
<1>1. Plain(s[k]) \in AnyByte
  <2>1. " " \in Others  BY Zenon, Bytes
  <2> QED  BY <1>0, <2>1, Zenon DEF Plain, AnyByte
<1>2. CASE Escape(s, k)
  <2>1. k + 2 <= Len(s) /\ s[k + 1] \in Hex /\ s[k + 2] \in Hex  BY <1>2 DEF Escape, Escaped
  <2>2. HexByte \in [Hex \X Hex -> AnyByte]  BY Zenon, Bytes DEF AnyByte
  <2>3. HexByte[<<s[k + 1], s[k + 2]>>] \in AnyByte  BY <2>1, <2>2
  <2> QED  BY <1>0, <1>2, <2>1, <2>3 DEF ByteAt, Taken
<1>3. CASE ~Escape(s, k)  BY <1>0, <1>1, <1>3 DEF ByteAt, Taken
<1> QED  BY <1>2, <1>3

\* Both functions exist.
LEMMA DecoderExists ==
  ASSUME NEW s \in Seq(AnyByte)
  PROVE  \E f \in [1..Len(s) + 1 -> Seq(AnyByte)] : Decodes(f, s)
<1> DEFINE n == Len(s)
           V == Seq(AnyByte)
           z == <<>>
           h == [k \in 1..n |-> [v \in V |-> <<ByteAt(s, k)>> \o v]]
           to == [k \in 1..n |-> k + Taken(s, k)]
<1>1. n \in Nat  BY LenProperties
<1>2. Ascends(to, n)
  <2>1. ASSUME NEW k \in 1..n PROVE to[k] \in k + 1..n + 1
    <3>1. Taken(s, k) \in 1..n + 1 - k  BY PlaceIn
    <3> QED  BY <1>1, <3>1
  <2> QED  BY <2>1 DEF Ascends
<1>3. h \in [1..n -> [V -> V]]
  <2>1. ASSUME NEW k \in 1..n, NEW v \in V PROVE <<ByteAt(s, k)>> \o v \in V
    <3> DEFINE b == ByteAt(s, k)
    <3>1. b \in AnyByte  BY PlaceIn
    <3> HIDE DEF b
    <3>2. <<b>> \in Seq(AnyByte)  BY <3>1
    <3>3. <<b>> \o v \in Seq(AnyByte)  BY <3>2, ConcatProperties
    <3> QED  BY <3>3 DEF b
  <2> QED  BY <2>1
<1>4. z \in V  OBVIOUS
<1> HIDE DEF h, to, z, V, n
<1>5. PICK f \in [1..n + 1 -> V] : Leads(f, n, z, h, to)  BY <1>1, <1>2, <1>3, <1>4, RecursionUp
<1>6. f[n + 1] = <<>>  BY <1>5 DEF Leads, z
<1>7. ASSUME NEW k \in 1..n PROVE f[k] = <<ByteAt(s, k)>> \o f[k + Taken(s, k)]
  <2>1. to[k] = k + Taken(s, k)  BY DEF to
  <2>2. to[k] \in 1..n + 1  BY <1>1, <1>2 DEF Ascends
  <2>3. h[k][f[to[k]]] = <<ByteAt(s, k)>> \o f[to[k]]  BY <2>2 DEF h
  <2> QED  BY <1>5, <2>1, <2>3 DEF Leads
<1>8. Decodes(f, s)  BY <1>6, <1>7 DEF Decodes, n
<1> QED  BY <1>8 DEF n, V

LEMMA JudgeExists ==
  ASSUME NEW s \in Seq(AnyByte)
  PROVE  \E g \in [1..Len(s) + 1 -> BOOLEAN] : Judges(g, s)
<1> DEFINE n == Len(s)
           V == BOOLEAN
           h == [k \in 1..n |-> [v \in V |-> Fine(s, k) /\ v]]
           to == [k \in 1..n |-> k + Taken(s, k)]
<1>1. n \in Nat  BY LenProperties
<1>2. Ascends(to, n)
  <2>1. ASSUME NEW k \in 1..n PROVE to[k] \in k + 1..n + 1
    <3>1. Taken(s, k) \in 1..n + 1 - k  BY PlaceIn
    <3> QED  BY <1>1, <3>1
  <2> QED  BY <2>1 DEF Ascends
<1>3. h \in [1..n -> [V -> V]]  OBVIOUS
<1> HIDE DEF h, to, n
<1>4. PICK g \in [1..n + 1 -> V] : Leads(g, n, TRUE, h, to)
  <2>1. TRUE \in V  OBVIOUS
  <2> HIDE DEF V
  <2> QED  BY <1>1, <1>2, <1>3, <2>1, RecursionUp
<1>5. g[n + 1]  BY <1>4 DEF Leads
<1>6. ASSUME NEW k \in 1..n PROVE g[k] <=> Fine(s, k) /\ g[k + Taken(s, k)]
  <2>1. to[k] = k + Taken(s, k)  BY DEF to
  <2>2. to[k] \in 1..n + 1  BY <1>1, <1>2 DEF Ascends
  <2>3. h[k][g[to[k]]] <=> Fine(s, k) /\ g[to[k]]  BY <2>2 DEF h
  <2>4. g[k] = h[k][g[to[k]]]  BY <1>4 DEF Leads
  <2> QED  BY <2>1, <2>3, <2>4
<1>7. Judges(g, s)  BY <1>5, <1>6 DEF Judges, n
<1> QED  BY <1>7 DEF n

\* The reference's functions are of these kinds.
LEMMA DecodedIs ==
  ASSUME NEW s \in Seq(AnyByte)
  PROVE  \E f \in [1..Len(s) + 1 -> Seq(AnyByte)] : Decodes(f, s) /\ Decoded(s) = f[1]
<1> DEFINE n == Len(s)
           Is(f) == f = [k \in 1..Len(s) + 1 |->
                           CASE k > Len(s) -> <<>>
                             [] Percent(s[k]) /\ Escaped(s, k) ->
                                  <<HexByte[<<s[k + 1], s[k + 2]>>]>> \o f[k + 3]
                             [] OTHER -> <<Plain(s[k])>> \o f[k + 1]]
           v == CHOOSE f : Is(f)
<1>1. Decoded(s) = v[1]  BY Zenon DEF Decoded, Percent, Plain
<1>2. n \in Nat  BY LenProperties
<1>3. \A f : Is(f) => Decodes(f, s)
  <2> SUFFICES ASSUME NEW f, Is(f) PROVE Decodes(f, s)
    OBVIOUS
  <2>1. f[n + 1] = <<>>
    <3>1. n + 1 \in 1..n + 1 /\ n + 1 > n /\ ~Escaped(s, n + 1)  BY <1>2 DEF Escaped
    <3> QED  BY <3>1
  <2>2. ASSUME NEW k \in 1..n PROVE f[k] = <<ByteAt(s, k)>> \o f[k + Taken(s, k)]
    <3>1. k \in 1..n + 1 /\ ~ (k > n)  BY <1>2
    <3>2. CASE Escape(s, k)
      <4>1. f[k] = <<HexByte[<<s[k + 1], s[k + 2]>>]>> \o f[k + 3]  BY <3>1, <3>2 DEF Escape
      <4> HIDE DEF Is
      <4> QED  BY <3>2, <4>1 DEF ByteAt, Taken
    <3>3. CASE ~Escape(s, k)
      <4>1. f[k] = <<Plain(s[k])>> \o f[k + 1]  BY <3>1, <3>3 DEF Escape
      <4> HIDE DEF Is
      <4> QED  BY <3>3, <4>1 DEF ByteAt, Taken
    <3> QED  BY <3>2, <3>3
  <2> HIDE DEF Is
  <2> QED  BY <2>1, <2>2 DEF Decodes
<1>4. PICK f \in [1..n + 1 -> Seq(AnyByte)] : Decodes(f, s)  BY DecoderExists
<1>5. Is(f)
  <2>1. ASSUME NEW k \in 1..n + 1
        PROVE  f[k] = CASE k > n -> <<>>
                        [] Percent(s[k]) /\ Escaped(s, k) ->
                             <<HexByte[<<s[k + 1], s[k + 2]>>]>> \o f[k + 3]
                        [] OTHER -> <<Plain(s[k])>> \o f[k + 1]
    <3>1. CASE k = n + 1
      <4>1. ~Escaped(s, k) /\ k > n  BY <1>2, <3>1 DEF Escaped
      <4> QED  BY <1>4, <3>1, <4>1 DEF Decodes
    <3>2. CASE k # n + 1
      <4>1. k \in 1..n /\ ~ (k > n)  BY <1>2, <3>2
      <4>2. f[k] = <<ByteAt(s, k)>> \o f[k + Taken(s, k)]  BY <1>4, <4>1 DEF Decodes
      <4>3. CASE Escape(s, k)
        <5>1. f[k] = <<HexByte[<<s[k + 1], s[k + 2]>>]>> \o f[k + 3]
          BY <4>2, <4>3 DEF ByteAt, Taken
        <5> QED  BY <4>1, <4>3, <5>1 DEF Escape
      <4>4. CASE ~Escape(s, k)
        <5>1. f[k] = <<Plain(s[k])>> \o f[k + 1]  BY <4>2, <4>4 DEF ByteAt, Taken
        <5> QED  BY <4>1, <4>4, <5>1 DEF Escape
      <4> QED  BY <4>3, <4>4
    <3> QED  BY <3>1, <3>2
  <2> QED  BY <2>1
<1>6. Is(v)
  <2> HIDE DEF Is
  <2> QED  BY <1>5
<1> HIDE DEF v
<1>7. v = [k \in 1..n + 1 |-> v[k]]  BY <1>6
<1> HIDE DEF Is
<1>8. Decodes(v, s)  BY <1>3, <1>6
<1> HIDE DEF v
<1> DEFINE Odd == {m \in 0..n : v[n + 1 - m] \notin Seq(AnyByte)}
<1>9. Odd = {}
  <2> SUFFICES ASSUME Odd # {} PROVE FALSE
    OBVIOUS
  <2>1. PICK m \in Odd : \A l \in Odd : m <= l
    <3>1. Odd \subseteq Nat  OBVIOUS
    <3> HIDE DEF Odd
    <3> QED  BY <3>1, LeastOf
  <2>2. m \in 0..n /\ v[n + 1 - m] \notin Seq(AnyByte)  OBVIOUS
  <2>3. m # 0
    <3>1. <<>> \in Seq(AnyByte) /\ n + 1 - 0 = n + 1  BY <1>2
    <3> QED  BY <1>8, <2>2, <3>1 DEF Decodes
  <2>4. PICK k \in 1..n : k = n + 1 - m  BY <1>2, <2>2, <2>3
  <2> DEFINE b == ByteAt(s, k)
             t == Taken(s, k)
             r == v[k + t]
  <2>5. b \in AnyByte /\ t \in 1..n + 1 - k  BY PlaceIn
  <2>6. v[k] = <<b>> \o r  BY <1>8 DEF Decodes
  <2>7. r \in Seq(AnyByte)
    <3> HIDE DEF b, t
    <3>1. m - t \in 0..n /\ m - t < m /\ k + t = n + 1 - (m - t)  BY <1>2, <2>2, <2>4, <2>5
    <3>2. m - t \notin Odd
      <4> HIDE DEF Odd
      <4> QED  BY <2>1, <2>2, <3>1
    <3> QED  BY <3>1, <3>2
  <2> HIDE DEF b, t, r
  <2>8. <<b>> \in Seq(AnyByte)  BY <2>5
  <2>9. <<b>> \o r \in Seq(AnyByte)  BY <2>7, <2>8, ConcatProperties
  <2> QED  BY <2>2, <2>4, <2>6, <2>9
<1>10. v \in [1..n + 1 -> Seq(AnyByte)]
  <2>1. ASSUME NEW k \in 1..n + 1 PROVE v[k] \in Seq(AnyByte)
    <3>0. n + 1 - k \in 0..n  BY <1>2
    <3>1. PICK m \in 0..n : m = n + 1 - k  BY <3>0
    <3>2. n + 1 - m = k  BY <1>2, <3>1
    <3> QED  BY <1>9, <3>2
  <2> QED  BY <1>7, <2>1
<1> QED  BY <1>1, <1>8, <1>10

LEMMA DecodableIs ==
  ASSUME NEW s \in Seq(AnyByte)
  PROVE  \E g : Judges(g, s) /\ (Decodable(s) <=> g[1])
<1> DEFINE n == Len(s)
           Is(g) == g = [k \in 1..Len(s) + 1 |->
                           k > Len(s) \/ IF Percent(s[k]) THEN Escaped(s, k) /\ g[k + 3] ELSE g[k + 1]]
           v == CHOOSE g : Is(g)
<1>1. Decodable(s) <=> v[1]  BY Zenon DEF Decodable, Percent
<1>2. n \in Nat  BY LenProperties
<1>3. PICK g \in [1..n + 1 -> BOOLEAN] : Judges(g, s)  BY JudgeExists
<1>4. Is(g)
  <2>1. ASSUME NEW k \in 1..n + 1
        PROVE  g[k] <=> k > n \/ IF Percent(s[k]) THEN Escaped(s, k) /\ g[k + 3] ELSE g[k + 1]
    <3>1. CASE k = n + 1  BY <1>2, <1>3, <3>1 DEF Judges
    <3>2. CASE k # n + 1
      <4>1. k \in 1..n /\ ~ (k > n)  BY <1>2, <3>2
      <4>2. g[k] <=> Fine(s, k) /\ g[k + Taken(s, k)]  BY <1>3, <4>1 DEF Judges
      <4> QED  BY <4>1, <4>2 DEF Fine, Taken, Escape
    <3> QED  BY <3>1, <3>2
  <2> QED  BY <2>1
<1>5. Is(v)
  <2> HIDE DEF Is
  <2> QED  BY <1>4
<1> HIDE DEF v
<1>6. ASSUME NEW k \in 1..n + 1
      PROVE  v[k] <=> k > n \/ IF Percent(s[k]) THEN Escaped(s, k) /\ v[k + 3] ELSE v[k + 1]
  BY <1>5
<1> HIDE DEF Is
<1>7. v[n + 1]
  <2>1. n + 1 \in 1..n + 1 /\ n + 1 > n  BY <1>2
  <2> QED  BY <1>6, <2>1
<1>8. ASSUME NEW k \in 1..n PROVE v[k] <=> Fine(s, k) /\ v[k + Taken(s, k)]
  <2>1. k \in 1..n + 1 /\ ~ (k > n)  BY <1>2
  <2>2. v[k] <=> IF Percent(s[k]) THEN Escaped(s, k) /\ v[k + 3] ELSE v[k + 1]  BY <1>6, <2>1
  <2> QED  BY <2>2 DEF Fine, Taken, Escape
<1>9. Judges(v, s)  BY <1>7, <1>8 DEF Judges
<1> QED  BY <1>1, <1>9
---------------------------------------------------------------------------
(* What the invariant says of each stage.                                  *)

Sep == {"&", NUL}

\* The first '=' of data[q..m-1] comes right after the key.
Keyed(q, m) ==
  \E e \in q .. m - 1 :
    /\ data[e] = "=" /\ \A k \in q .. e - 1 : data[k] # "="
    /\ SubSeq(data, q, e - 1) = Key

\* While the pairs are looked at: what was cut, that p begins a pair with no
\* other end before i, that no earlier pair has the key, and that value is
\* where the text of this one begins, if it has.
ScanInv ==
  pc \in {"start", "scan"} =>
    /\ \A k \in 1..Len(data) :
         buf[k] = IF k < i /\ data[k] \in {"=", "&"} THEN NUL ELSE data[k]
    /\ p <= i /\ (p \in 2..Len(data) + 1 => data[p - 1] \in Sep)
    /\ \A k \in p .. i - 1 : k \in 1..Len(data) /\ data[k] \notin Sep
    /\ \A q \in Named : p <= q
    /\ value = 0 => ~Keyed(p, i)
    /\ value # 0 => /\ Keyed(p, i) /\ value \in p + 1 .. i /\ data[value - 1] = "="
                    /\ \A k \in value .. i - 1 : data[k] # "="

\* From place m on the text is still in the buffer, and the byte behind it is NUL.
Reading(m) ==
  /\ Named # {} /\ Text \in Seq(Others) /\ value >= 1 /\ value + Len(Text) <= Len(buf)
  /\ m \in value .. value + Len(Text) /\ buf[value + Len(Text)] = NUL
  /\ \A k \in m .. value + Len(Text) - 1 : buf[k] = Text[k - value + 1]

FoundInv == pc = "found" => Reading(value)

\* While it is decoded: what is written, followed by what is still to come, is
\* the whole, and no '%' without its digits was met.
DecodeInv ==
  pc = "decode" =>
    /\ Reading(i) /\ value <= c /\ c <= i
    /\ \E f \in [1..Len(Text) + 1 -> Seq(AnyByte)] :
         /\ Decodes(f, Text) /\ Decoded(Text) = f[1]
         /\ SubSeq(buf, value, c - 1) \o f[i - value + 1] = f[1]
    /\ \E g : /\ Judges(g, Text) /\ (Decodable(Text) <=> g[1])
              /\ g[1] <=> g[i - value + 1]
---------------------------------------------------------------------------
(* The pairs of the form.                                                  *)

\* The pair at a place ends at the next '&', NUL or at the form's end.
LEMMA PairIs ==
  ASSUME data \in Seq(AnyByte), NEW q \in 1..Len(data), NEW e \in q..Len(data) + 1,
         \A k \in q .. e - 1 : data[k] \notin Sep,
         e = Len(data) + 1 \/ data[e] \in Sep
  PROVE  PairAt(q) = SubSeq(data, q, e - 1)
<1> DEFINE n == Len(data)
           r == From(data, q)
           m == e - q
           t == SubSeq(r, 1, m)
<1>1. n \in Nat  BY LenProperties
<1>2. r \in Seq(AnyByte) /\ Len(r) = n - q + 1 /\ \A k \in 1 .. n - q + 1 : r[k] = data[q + k - 1]
  BY <1>1, RestProperties
<1>3. PairAt(q) = UpTo(r, Sep)  BY DEF PairAt, Sep
<1> HIDE DEF r, n
<1>4. m \in 0 .. Len(r) /\ Len(r) \in Nat  BY <1>1, <1>2 DEF n
<1>5. \A k \in 1 .. m : r[k] \notin Sep
  <2> SUFFICES ASSUME NEW k \in 1 .. m PROVE r[k] \notin Sep
    OBVIOUS
  <2>1. q + k - 1 \in q .. e - 1 /\ k \in 1 .. n - q + 1  BY <1>1 DEF n
  <2> QED  BY <1>2, <2>1
<1>6. m = Len(r) \/ r[m + 1] \in Sep
  <2>1. CASE e = n + 1  BY <1>1, <1>2, <2>1
  <2>2. CASE e # n + 1
    <3>1. m + 1 \in 1 .. n - q + 1 /\ q + (m + 1) - 1 = e  BY <1>1, <2>2 DEF n
    <3>2. data[e] \in Sep  BY <2>2 DEF n
    <3> QED  BY <1>2, <3>1, <3>2
  <2> QED  BY <2>1, <2>2
<1> HIDE DEF m
<1>7. UpTo(r, Sep) = t  BY <1>2, <1>4, <1>5, <1>6, UpToIs
<1>8. t \in Seq(AnyByte) /\ Len(t) = m - 1 + 1 /\ \A k \in 1 .. m - 1 + 1 : t[k] = r[1 + k - 1]
  BY <1>2, <1>4, PieceProperties
<1> HIDE DEF t
<1>9. t = SubSeq(data, q, e - 1)
  <2>0. m = e - q  BY DEF m
  <2>1. e - 1 \in Nat /\ e - 1 <= n /\ q <= (e - 1) + 1 /\ (e - 1) - q + 1 = m - 1 + 1
    BY <1>1, <2>0 DEF n
  <2>2. \A k \in 1 .. (e - 1) - q + 1 : t[k] = data[q + k - 1]
    <3> SUFFICES ASSUME NEW k \in 1 .. m PROVE t[k] = data[q + k - 1]
      BY <2>0
    <3>1. t[k] = r[k] /\ k \in 1 .. n - q + 1  BY <1>2, <1>4, <1>8
    <3> QED  BY <1>2, <3>1
  <2>3. Len(t) = (e - 1) - q + 1  BY <1>8, <2>1
  <2> QED  BY <1>8, <2>1, <2>2, <2>3, IsPiece DEF n
<1> QED  BY <1>3, <1>7, <1>9

\* A piece of the form or the buffer, byte by byte.
LEMMA FormPiece ==
  ASSUME NEW w \in Seq(AnyByte), NEW q \in 1..Len(w) + 1, NEW e \in q..Len(w) + 1
  PROVE  /\ SubSeq(w, q, e - 1) \in Seq(AnyByte) /\ Len(SubSeq(w, q, e - 1)) = e - q
         /\ \A k \in 1 .. e - q : SubSeq(w, q, e - 1)[k] = w[q + k - 1]
<1>1. Len(w) \in Nat  BY LenProperties
<1>2. e - 1 \in Nat /\ e - 1 <= Len(w) /\ q <= (e - 1) + 1 /\ (e - 1) - q + 1 = e - q  BY <1>1
<1> QED  BY <1>2, PieceProperties

\* A piece of a piece.
LEMMA PieceOfPiece ==
  ASSUME NEW w \in Seq(AnyByte), NEW q \in 1..Len(w) + 1, NEW e \in q..Len(w) + 1,
         NEW a \in q..e, NEW b \in a..e
  PROVE  SubSeq(SubSeq(w, q, e - 1), a - q + 1, b - q) = SubSeq(w, a, b - 1)
<1> DEFINE s == SubSeq(w, q, e - 1)
           m == a - q + 1
           l == b - q
           t == SubSeq(s, m, l)
<1>0. Len(w) \in Nat  BY LenProperties
<1>1. s \in Seq(AnyByte) /\ Len(s) = e - q /\ \A k \in 1 .. e - q : s[k] = w[q + k - 1]
  BY FormPiece
<1> HIDE DEF s
<1>2. m \in Nat \ {0} /\ l \in Nat /\ l <= Len(s) /\ m <= l + 1 /\ l - m + 1 = b - a  BY <1>0, <1>1
<1>3. t \in Seq(AnyByte) /\ Len(t) = l - m + 1 /\ \A k \in 1 .. l - m + 1 : t[k] = s[m + k - 1]
  <2> HIDE DEF m, l
  <2> QED  BY <1>1, <1>2, PieceProperties
<1> HIDE DEF t
<1>4. \A k \in 1 .. b - a : t[k] = w[a + k - 1]
  <2> SUFFICES ASSUME NEW k \in 1 .. b - a PROVE t[k] = w[a + k - 1]
    OBVIOUS
  <2>1. k \in 1 .. l - m + 1 /\ m + k - 1 \in 1 .. e - q /\ q + (m + k - 1) - 1 = a + k - 1
    BY <1>0, <1>2
  <2> HIDE DEF m, l
  <2> QED  BY <1>1, <1>3, <2>1
<1>5. b - 1 \in Nat /\ b - 1 <= Len(w) /\ a <= (b - 1) + 1 /\ (b - 1) - a + 1 = b - a  BY <1>0
<1>6. Len(t) = (b - 1) - a + 1 /\ \A k \in 1 .. (b - 1) - a + 1 : t[k] = w[a + k - 1]
  BY <1>2, <1>3, <1>4, <1>5
<1>7. a \in Nat \ {0}  BY <1>0
<1>8. t = SubSeq(w, a, b - 1)  BY <1>3, <1>5, <1>6, <1>7, IsPiece
<1> QED  BY <1>8 DEF t, s

\* Whether the pair has the key.
LEMMA NamedIs ==
  ASSUME data \in Seq(AnyByte), NEW q \in Pairs, NEW e \in q..Len(data) + 1,
         \A k \in q .. e - 1 : data[k] \notin Sep,
         e = Len(data) + 1 \/ data[e] \in Sep
  PROVE  q \in Named <=> Keyed(q, e)
<1> DEFINE s == SubSeq(data, q, e - 1)
<1>0. Len(data) \in Nat /\ q \in 1..Len(data) /\ q \in 1..Len(data) + 1  BY LenProperties DEF Pairs
<1>1. PairAt(q) = s  BY <1>0, PairIs
<1>2. s \in Seq(AnyByte) /\ Len(s) = e - q /\ \A k \in 1 .. e - q : s[k] = data[q + k - 1]
  BY <1>0, FormPiece
<1> DEFINE stops == {"="}
<1>3. q \in Named <=> "=" \in ToSet(s) /\ UpTo(s, stops) = Key  BY <1>1 DEF Named
<1>4. ASSUME NEW a \in q..e
      PROVE  SubSeq(s, 1, a - q) = SubSeq(data, q, a - 1)
  <2>1. q \in q..e /\ q - q + 1 = 1  BY <1>0
  <2>2. SubSeq(SubSeq(data, q, e - 1), q - q + 1, a - q) = SubSeq(data, q, a - 1)
    BY <1>0, <2>1, PieceOfPiece
  <2> QED  BY <2>1, <2>2
<1> HIDE DEF s
<1>5. ASSUME "=" \in ToSet(s), UpTo(s, stops) = Key
      PROVE  Keyed(q, e)
  <2>1. PICK m \in 0 .. Len(s) :
          /\ UpTo(s, stops) = SubSeq(s, 1, m)
          /\ \A k \in 1 .. m : s[k] \notin stops
          /\ m = Len(s) \/ s[m + 1] \in stops
    <3> HIDE DEF stops
    <3> QED  BY <1>2, UpToProperties
  <2>2. m # Len(s)
    <3>1. PICK k \in 1..Len(s) : s[k] = "="  BY <1>2, <1>5, LenProperties DEF ToSet
    <3> QED  BY <2>1, <3>1
  <2>3. PICK a \in q .. e - 1 : a = q + m
    <3>1. q + m \in q .. e - 1  BY <1>0, <1>2, <2>1, <2>2
    <3> QED  BY <3>1
  <2>4. data[a] = "="
    <3>1. m + 1 \in 1 .. e - q /\ q + (m + 1) - 1 = a  BY <1>0, <1>2, <2>1, <2>2, <2>3
    <3>2. s[m + 1] = data[a]  BY <1>2, <3>1
    <3> QED  BY <2>1, <2>2, <3>2
  <2>5. ASSUME NEW k \in q .. a - 1 PROVE data[k] # "="
    <3>1. PICK l \in 1 .. m : l = k - q + 1
      <4>1. k - q + 1 \in 1 .. m  BY <1>0, <2>3
      <4> QED  BY <4>1
    <3>2. l \in 1 .. e - q /\ q + l - 1 = k  BY <1>0, <1>2, <3>1
    <3>3. s[l] = data[k]  BY <1>2, <3>2
    <3> QED  BY <2>1, <3>3
  <2>6. SubSeq(data, q, a - 1) = Key
    <3>1. a \in q..e /\ a - q = m  BY <1>0, <2>1, <2>3
    <3>2. SubSeq(s, 1, m) = SubSeq(data, q, a - 1)  BY <1>4, <3>1
    <3> QED  BY <1>5, <2>1, <3>2
  <2> QED  BY <2>4, <2>5, <2>6 DEF Keyed
<1>6. ASSUME Keyed(q, e)
      PROVE  "=" \in ToSet(s) /\ UpTo(s, stops) = Key
  <2>1. PICK a \in q .. e - 1 :
          /\ data[a] = "=" /\ \A k \in q .. a - 1 : data[k] # "="
          /\ SubSeq(data, q, a - 1) = Key
    BY <1>6 DEF Keyed
  <2>2. PICK m \in 0 .. Len(s) : m = a - q
    <3>1. a - q \in 0 .. Len(s)  BY <1>0, <1>2
    <3> QED  BY <3>1
  <2>3. m + 1 \in 1 .. e - q /\ q + (m + 1) - 1 = a /\ m + 1 \in 1..Len(s)  BY <1>0, <1>2, <2>2
  <2>4. s[m + 1] = "="  BY <1>2, <2>1, <2>3
  <2>5. ASSUME NEW k \in 1 .. m PROVE s[k] \notin stops
    <3>1. k \in 1 .. e - q /\ q + k - 1 \in q .. a - 1  BY <1>0, <1>2, <2>2
    <3> QED  BY <1>2, <2>1, <3>1
  <2>6. UpTo(s, stops) = SubSeq(s, 1, m)
    <3>1. s[m + 1] \in stops  BY <2>4
    <3> HIDE DEF stops
    <3> QED  BY <1>2, <2>5, <3>1, UpToIs
  <2>7. a \in q..e /\ a - q = m  BY <1>0, <2>2
  <2>8. SubSeq(s, 1, m) = Key  BY <1>4, <2>1, <2>7
  <2>9. "=" \in ToSet(s)  BY <1>2, <2>3, <2>4, LenProperties DEF ToSet
  <2> QED  BY <2>6, <2>8, <2>9
<1> QED  BY <1>3, <1>5, <1>6

\* Its text.
LEMMA TextIs ==
  ASSUME data \in Seq(AnyByte), NEW q \in Named, \A l \in Named : q <= l,
         NEW e \in q..Len(data) + 1, PairAt(q) = SubSeq(data, q, e - 1),
         NEW v \in q + 1 .. e, data[v - 1] = "=", \A k \in v .. e - 1 : data[k] # "="
  PROVE  Text = SubSeq(data, v, e - 1)
<1> DEFINE s == SubSeq(data, q, e - 1)
           I == {k \in 1..Len(s) : s[k] = "="}
           m == IF I # {} THEN Max(I) ELSE 0
           first == CHOOSE k \in Named : \A l \in Named : k <= l
<1>0. Named \subseteq 1..Len(data) /\ Len(data) \in Nat  BY LenProperties DEF Named, Pairs
<1>1. first = q
  <2>1. first \in Named /\ \A l \in Named : first <= l  OBVIOUS
  <2> HIDE DEF first
  <2> QED  BY <1>0, <2>1
<1>2. q \in 1..Len(data) + 1  BY <1>0
<1>3. s \in Seq(AnyByte) /\ Len(s) = e - q /\ \A k \in 1 .. e - q : s[k] = data[q + k - 1]
  BY <1>2, FormPiece
<1>4. Text = From(s, m + 1)
  <2>1. SelectLastInSeq(s, LAMBDA b : b = "=") = m  BY DEF SelectLastInSeq
  <2> HIDE DEF m, first
  <2> QED  BY <1>1, <2>1 DEF Text, first
<1> HIDE DEF s
<1>5. /\ m \in 0 .. Len(s) /\ (m = 0 <=> I = {}) /\ (m # 0 => m \in I) /\ \A k \in I : k <= m
  <2>1. Len(s) \in Nat /\ I \subseteq 1..Len(s)  BY <1>3, LenProperties
  <2> HIDE DEF I
  <2> QED  BY <2>1, LastPlace
<1> HIDE DEF m
<1>6. PICK a \in 1 .. e - q : a = v - q
  <2>1. v - q \in 1 .. e - q  BY <1>0
  <2> QED  BY <2>1
<1>7. a \in I
  <2>1. q + a - 1 = v - 1  BY <1>0, <1>6
  <2> QED  BY <1>3, <1>6, <2>1
<1>8. m = a
  <2>1. m \in I /\ a <= m  BY <1>5, <1>7
  <2>2. m \in 1 .. e - q /\ s[m] = "="  BY <1>3, <2>1
  <2>3. data[q + m - 1] = "="  BY <1>3, <2>2
  <2>4. ~ (m > a)
    <3> SUFFICES ASSUME m > a PROVE FALSE
      OBVIOUS
    <3>1. q + m - 1 \in v .. e - 1  BY <1>0, <1>6, <2>2
    <3> QED  BY <2>3, <3>1
  <2> QED  BY <1>6, <2>1, <2>2, <2>4
<1>9. From(s, m + 1) = SubSeq(s, v - q + 1, e - q)
  <2>1. m + 1 = v - q + 1 /\ Len(s) = e - q  BY <1>3, <1>6, <1>8
  <2> QED  BY <2>1 DEF From
<1>10. v \in q..e /\ e \in v..e  BY <1>0
<1>11. SubSeq(s, v - q + 1, e - q) = SubSeq(data, v, e - 1)  BY <1>2, <1>10, PieceOfPiece DEF s
<1> QED  BY <1>4, <1>9, <1>11
---------------------------------------------------------------------------
(* The steps that look for the key.                                        *)

\* Form and buffer as sequences of bytes.
LEMMA FormType ==
  ASSUME BufferType
  PROVE  /\ data \in Seq(AnyByte) /\ buf \in Seq(AnyByte)
         /\ Len(data) \in Nat /\ Len(buf) = Len(data) + 1 /\ buf[Len(data) + 1] = NUL
<1>1. data \in Seq(AnyByte) /\ buf \in Seq(AnyByte)  BY Bytes DEF BufferType, AnyByte
<1> QED  BY <1>1, LenProperties DEF BufferType

LEMMA Letters == NUL \notin Others /\ {"=", "&"} \subseteq Others
BY Bytes

\* What the form's definitions say does not change with the program's steps.
LEMMA SameForm ==
  ASSUME data' = data
  PROVE  Named' = Named /\ Text' = Text /\ \A q, m : Keyed(q, m)' <=> Keyed(q, m)
<1>1. Pairs' = Pairs /\ \A k : PairAt(k)' = PairAt(k)  BY DEF Pairs, PairAt
<1>2. Named' = Named  BY <1>1 DEF Named
<1>3. \A q, m : Keyed(q, m)' <=> Keyed(q, m)  BY DEF Keyed
<1>4. Text' = Text  BY DEF Text, PairAt, Named, Pairs, SelectLastInSeq
<1> QED  BY <1>2, <1>3, <1>4

\* The first '=' between two places decides.
LEMMA KeyedAt ==
  ASSUME NEW q \in Nat, NEW m \in Nat, NEW e \in q .. m - 1,
         data[e] = "=", \A k \in q .. e - 1 : data[k] # "="
  PROVE  Keyed(q, m) <=> SubSeq(data, q, e - 1) = Key
<1>1. ASSUME NEW a \in q .. m - 1, data[a] = "=", \A k \in q .. a - 1 : data[k] # "="
      PROVE  a = e
  <2>1. ~ (a < e)
    <3> SUFFICES ASSUME a < e PROVE FALSE
      OBVIOUS
    <3>1. a \in q .. e - 1  OBVIOUS
    <3> QED  BY <1>1, <3>1
  <2>2. ~ (e < a)
    <3> SUFFICES ASSUME e < a PROVE FALSE
      OBVIOUS
    <3>1. e \in q .. a - 1  OBVIOUS
    <3> QED  BY <1>1, <3>1
  <2> QED  BY <2>1, <2>2
<1>2. Keyed(q, m) => SubSeq(data, q, e - 1) = Key
  <2> SUFFICES ASSUME Keyed(q, m) PROVE SubSeq(data, q, e - 1) = Key
    OBVIOUS
  <2>1. PICK a \in q .. m - 1 :
          /\ data[a] = "=" /\ \A k \in q .. a - 1 : data[k] # "="
          /\ SubSeq(data, q, a - 1) = Key
    BY DEF Keyed
  <2> QED  BY <1>1, <2>1
<1>3. SubSeq(data, q, e - 1) = Key => Keyed(q, m)  BY DEF Keyed
<1> QED  BY <1>2, <1>3

\* Between two places of which the later holds a '=' there is a first one.
LEMMA FirstEquals ==
  ASSUME NEW q \in Nat, NEW m \in Nat, q <= m, data[m] = "="
  PROVE  \E e \in q..m : data[e] = "=" /\ \A k \in q .. e - 1 : data[k] # "="
<1> DEFINE I == {k \in q..m : data[k] = "="}
<1>1. I \subseteq Nat /\ I # {}
  <2>1. m \in I  OBVIOUS
  <2> QED  BY <2>1
<1>2. PICK e \in I : \A k \in I : e <= k
  <2> HIDE DEF I
  <2> QED  BY <1>1, LeastOf
<1>3. e \in q..m /\ data[e] = "="  OBVIOUS
<1>4. ASSUME NEW k \in q .. e - 1 PROVE data[k] # "="
  <2>1. k \in q..m /\ k < e  BY <1>3
  <2>2. k \notin I
    <3> HIDE DEF I
    <3> QED  BY <1>2, <1>3, <2>1
  <2> QED  BY <2>1, <2>2
<1> QED  BY <1>3, <1>4

\* A string in a buffer goes up to its NUL.
LEMMA StringAt ==
  ASSUME NEW w \in Seq(AnyByte), NEW m \in 1..Len(w), NEW e \in m..Len(w),
         w[e] = NUL, \A k \in m .. e - 1 : w[k] # NUL
  PROVE  CString(From(w, m)) = SubSeq(w, m, e - 1)
<1> DEFINE r == From(w, m)
           l == e - m
           stops == {NUL}
<1>0. Len(w) \in Nat  BY LenProperties
<1>1. r \in Seq(AnyByte) /\ Len(r) = Len(w) - m + 1 /\ \A k \in 1 .. Len(w) - m + 1 : r[k] = w[m + k - 1]
  <2>1. m \in Nat \ {0} /\ m <= Len(w) + 1  BY <1>0
  <2> QED  BY <2>1, RestProperties
<1>2. l \in 0 .. Len(r) /\ Len(r) \in Nat /\ l + 1 \in 1 .. Len(w) - m + 1 /\ m + (l + 1) - 1 = e
  BY <1>0, <1>1
<1>3. r[l + 1] \in stops  BY <1>1, <1>2
<1>4. \A k \in 1 .. l : r[k] \notin stops
  <2> SUFFICES ASSUME NEW k \in 1 .. l PROVE r[k] \notin stops
    OBVIOUS
  <2>1. k \in 1 .. Len(w) - m + 1 /\ m + k - 1 \in m .. e - 1  BY <1>0
  <2> QED  BY <1>1, <2>1
<1>5. r = SubSeq(w, m, (Len(w) + 1) - 1)
  <2>1. (Len(w) + 1) - 1 = Len(w)  BY <1>0
  <2> QED  BY <2>1 DEF From
<1>6. SubSeq(SubSeq(w, m, (Len(w) + 1) - 1), m - m + 1, e - m) = SubSeq(w, m, e - 1)
  <2> DEFINE h == Len(w) + 1
  <2>1. m \in 1..Len(w) + 1 /\ h \in m..Len(w) + 1 /\ m \in m..h /\ e \in m..h  BY <1>0
  <2> HIDE DEF h
  <2>2. SubSeq(SubSeq(w, m, h - 1), m - m + 1, e - m) = SubSeq(w, m, e - 1)  BY <2>1, PieceOfPiece
  <2> QED  BY <2>2 DEF h
<1>7. m - m + 1 = 1  OBVIOUS
<1>8. SubSeq(r, 1, l) = SubSeq(w, m, e - 1)  BY <1>5, <1>6, <1>7
<1> HIDE DEF r, l, stops
<1>9. UpTo(r, stops) = SubSeq(r, 1, l)  BY <1>1, <1>2, <1>3, <1>4, UpToIs
<1> QED  BY <1>8, <1>9 DEF CString, r, stops

\* Pieces with the same bytes are the same.
LEMMA SamePiece ==
  ASSUME NEW w \in Seq(AnyByte), NEW v \in Seq(AnyByte), NEW m \in Nat \ {0}, NEW e \in Nat,
         m <= e, e <= Len(w) + 1, e <= Len(v) + 1, \A k \in m .. e - 1 : w[k] = v[k]
  PROVE  SubSeq(w, m, e - 1) = SubSeq(v, m, e - 1)
<1>0. Len(w) \in Nat /\ Len(v) \in Nat  BY LenProperties
<1> DEFINE x == SubSeq(w, m, e - 1)
           y == SubSeq(v, m, e - 1)
<1>1. m \in 1..Len(w) + 1 /\ e \in m..Len(w) + 1 /\ m \in 1..Len(v) + 1 /\ e \in m..Len(v) + 1
  BY <1>0
<1>2. x \in Seq(AnyByte) /\ Len(x) = e - m /\ \A k \in 1 .. e - m : x[k] = w[m + k - 1]
  BY <1>1, FormPiece
<1>3. y \in Seq(AnyByte) /\ Len(y) = e - m /\ \A k \in 1 .. e - m : y[k] = v[m + k - 1]
  BY <1>1, FormPiece
<1> HIDE DEF x, y
<1>4. \A k \in 1 .. Len(x) : x[k] = y[k]
  <2> SUFFICES ASSUME NEW k \in 1 .. e - m PROVE x[k] = y[k]
    BY <1>2
  <2>1. m + k - 1 \in m .. e - 1  OBVIOUS
  <2> QED  BY <1>2, <1>3, <2>1
<1>5. x = y  BY <1>2, <1>3, <1>4, SeqEqual
<1> QED  BY <1>5 DEF x, y
\* What the first three stages know of the buffer.
LEMMA ScanFacts ==
  ASSUME BufferType, PlaceType, ScanInv, pc = "scan"
  PROVE  /\ i \in Nat /\ p \in 1..i /\ value \in Nat
         /\ i <= Len(buf) => p \in 1..Len(data) + 1 /\ i \in 1..Len(data) + 1
         /\ \A k \in p .. i - 1 : k \in 1..Len(data) /\ data[k] \notin Sep
         /\ \A k \in 1..Len(data) : k >= i => buf[k] = data[k]
BY FormType DEF PlaceType, ScanInv

\* A '=': the bytes since p up to the first one are the key or not, and the
\* string at p in the buffer ends there.
LEMMA ScanEqualsStep ==
  ASSUME BufferType, PlaceType, ScanInv, ScanEquals
  PROVE  ScanInv'
<1> DEFINE n == Len(data)
<1>1. /\ pc = "scan" /\ i <= Len(buf) /\ buf[i] = "=" /\ buf' = [buf EXCEPT ![i] = NUL]
      /\ i' = i + 1 /\ UNCHANGED <<data, pc, p>>
      /\ value' = IF CString(From(buf', p)) = Key THEN i + 1 ELSE value
  BY DEF ScanEquals
<1>2. /\ data \in Seq(AnyByte) /\ buf \in Seq(AnyByte) /\ n \in Nat /\ Len(buf) = n + 1
      /\ buf[n + 1] = NUL
  BY FormType
<1>3. /\ i \in Nat /\ p \in 1..i /\ value \in Nat /\ p \in 1..n + 1 /\ i \in 1..n + 1
      /\ \A k \in p .. i - 1 : k \in 1..n /\ data[k] \notin Sep
      /\ \A k \in 1..n : k >= i => buf[k] = data[k]
  BY <1>1, ScanFacts
<1>4. "=" # "&" /\ "=" # NUL /\ "&" # NUL  BY Letters
<1>5. i \in 1..n /\ data[i] = "="
  <2>1. i # n + 1  BY <1>1, <1>2, <1>4
  <2>2. i \in 1..n  BY <1>2, <1>3, <2>1
  <2> QED  BY <1>1, <1>3, <2>2
<1>6. PICK e \in p..i : data[e] = "=" /\ \A k \in p .. e - 1 : data[k] # "="
  <2>1. p \in Nat /\ i \in Nat /\ p <= i  BY <1>3
  <2> QED  BY <1>5, <2>1, FirstEquals
<1>7. /\ buf' \in Seq(AnyByte) /\ Len(buf') = n + 1 /\ buf'[i] = NUL
      /\ \A k \in 1..n + 1 : k # i => buf'[k] = buf[k]
  <2>1. NUL \in AnyByte /\ i \in 1..Len(buf)  BY <1>2, <1>3 DEF AnyByte
  <2>2. buf' \in Seq(AnyByte) /\ Len(buf') = Len(buf)  BY <1>1, <1>2, <2>1, ExceptSeq
  <2> QED  BY <1>1, <1>2, <2>1, <2>2
<1>8. \A k \in 1..n : buf[k] = IF k < i /\ data[k] \in {"=", "&"} THEN NUL ELSE data[k]
  BY <1>1 DEF ScanInv
<1>9. CString(From(buf', p)) = SubSeq(data, p, e - 1)
  <2>1. ASSUME NEW k \in p .. e - 1 PROVE k \in 1..n /\ buf'[k] = data[k] /\ buf'[k] # NUL
    <3>1. k \in p .. i - 1 /\ k < i  BY <1>3, <1>6
    <3>2. k \in 1..n /\ data[k] \notin Sep /\ data[k] # "="  BY <1>3, <1>6, <3>1
    <3>3. buf'[k] = buf[k] /\ buf[k] = data[k]  BY <1>7, <1>8, <3>1, <3>2 DEF Sep
    <3> QED  BY <3>2, <3>3 DEF Sep
  <2>2. e \in 1..n /\ buf'[e] = NUL
    <3>1. CASE e = i  BY <1>5, <1>7, <3>1
    <3>2. CASE e # i
      <4>1. e \in p .. i - 1 /\ e < i  BY <1>3, <1>6, <3>2
      <4>2. e \in 1..n  BY <1>3, <4>1
      <4> QED  BY <1>6, <1>7, <1>8, <3>2, <4>1, <4>2
    <3> QED  BY <3>1, <3>2
  <2> DEFINE w == buf'
  <2>3. w \in Seq(AnyByte) /\ p \in 1..Len(w) /\ e \in p..Len(w) /\ w[e] = NUL
    BY <1>2, <1>3, <1>6, <1>7, <2>2
  <2>4. \A k \in p .. e - 1 : w[k] # NUL /\ w[k] = data[k]  BY <2>1
  <2>5. p \in Nat \ {0} /\ e \in Nat /\ p <= e /\ e <= Len(w) + 1 /\ e <= Len(data) + 1
    BY <1>2, <1>3, <1>7, <2>2, <1>6
  <2> HIDE DEF w
  <2>6. CString(From(w, p)) = SubSeq(w, p, e - 1)  BY <2>3, <2>4, StringAt
  <2>7. SubSeq(w, p, e - 1) = SubSeq(data, p, e - 1)  BY <1>2, <2>3, <2>4, <2>5, SamePiece
  <2> QED  BY <2>6, <2>7 DEF w
<1> DEFINE m == i + 1
<1>10. Keyed(p, m) <=> SubSeq(data, p, e - 1) = Key
  <2>1. p \in Nat /\ m \in Nat /\ e \in p .. m - 1  BY <1>3, <1>6
  <2> HIDE DEF m
  <2> QED  BY <1>6, <2>1, KeyedAt
<1>11. Keyed(p, i) => Keyed(p, m)
  <2> SUFFICES ASSUME Keyed(p, i) PROVE Keyed(p, m)
    OBVIOUS
  <2>1. PICK a \in p .. i - 1 :
          /\ data[a] = "=" /\ \A k \in p .. a - 1 : data[k] # "="
          /\ SubSeq(data, p, a - 1) = Key
    BY DEF Keyed
  <2>2. a \in p .. m - 1  BY <1>3
  <2> QED  BY <2>1, <2>2 DEF Keyed
<1>12. value' = (IF Keyed(p, m) THEN m ELSE value)  BY <1>1, <1>9, <1>10
<1>13. (value = 0 => ~Keyed(p, i)) /\ (value # 0 => Keyed(p, i))  BY <1>1 DEF ScanInv
<1>14. m \in Nat /\ m # 0 /\ m = i + 1 /\ m \in p + 1 .. m /\ m - 1 = i  BY <1>3
<1>15. Named' = Named /\ \A k \in Named : p <= k  BY <1>1, SameForm DEF ScanInv
<1> HIDE DEF m
<1>16. i' = m /\ p' = p /\ data' = data /\ pc' = "scan"  BY <1>1, <1>14
<1>17. (Keyed(p, i))' <=> Keyed(p, m)  BY <1>16 DEF Keyed
<1>18. \A k \in 1..Len(data') :
         buf'[k] = IF k < i' /\ data'[k] \in {"=", "&"} THEN NUL ELSE data'[k]
  <2> SUFFICES ASSUME NEW k \in 1..n
               PROVE  buf'[k] = IF k < m /\ data[k] \in {"=", "&"} THEN NUL ELSE data[k]
    BY <1>16
  <2>1. CASE k = i  BY <1>5, <1>7, <1>14, <2>1
  <2>2. CASE k # i
    <3>1. buf'[k] = buf[k] /\ (k < m <=> k < i)  BY <1>2, <1>3, <1>7, <1>14, <2>2
    <3> QED  BY <1>8, <3>1
  <2> QED  BY <2>1, <2>2
<1>19. p' <= i' /\ (p' \in 2..Len(data') + 1 => data'[p' - 1] \in Sep)
  <2>1. p <= m  BY <1>3, <1>14
  <2>2. p \in 2..n + 1 => data[p - 1] \in Sep  BY <1>1 DEF ScanInv
  <2> QED  BY <1>16, <2>1, <2>2
<1>20. \A k \in p' .. i' - 1 : k \in 1..Len(data') /\ data'[k] \notin Sep
  <2> SUFFICES ASSUME NEW k \in p..i PROVE k \in 1..n /\ data[k] \notin Sep
    BY <1>14, <1>16
  <2>1. CASE k = i  BY <1>4, <1>5, <2>1 DEF Sep
  <2>2. CASE k # i
    <3>1. k \in p .. i - 1  BY <1>3, <2>2
    <3> QED  BY <1>3, <3>1
  <2> QED  BY <2>1, <2>2
<1>21. CASE Keyed(p, m)
  <2>1. value' = m  BY <1>12, <1>21
  <2>2. data'[value' - 1] = "=" /\ value' \in p' + 1 .. i' /\ value' # 0  BY <1>5, <1>14, <1>16, <2>1
  <2>3. \A k \in value' .. i' - 1 : data'[k] # "="  BY <1>14, <1>16, <2>1
  <2> QED  BY <1>15, <1>16, <1>17, <1>18, <1>19, <1>20, <1>21, <2>2, <2>3 DEF ScanInv
<1>22. CASE ~Keyed(p, m)
  <2>1. value' = 0  BY <1>11, <1>12, <1>13, <1>22
  <2> QED  BY <1>15, <1>16, <1>17, <1>18, <1>19, <1>20, <1>22, <2>1 DEF ScanInv
<1> QED  BY <1>21, <1>22
\* Another byte changes nothing but i.
LEMMA ScanByteStep ==
  ASSUME BufferType, PlaceType, ScanInv, ScanByte
  PROVE  ScanInv'
<1> DEFINE n == Len(data)
           m == i + 1
<1>1. /\ pc = "scan" /\ i <= Len(buf) /\ buf[i] \notin {"=", "&", NUL}
      /\ i' = m /\ UNCHANGED <<data, buf, pc, p, value>>
  BY DEF ScanByte
<1>2. n \in Nat /\ Len(buf) = n + 1 /\ buf[n + 1] = NUL  BY FormType
<1>3. /\ i \in Nat /\ p \in 1..i /\ value \in Nat /\ i \in 1..n + 1
      /\ \A k \in p .. i - 1 : k \in 1..n /\ data[k] \notin Sep
      /\ \A k \in 1..n : k >= i => buf[k] = data[k]
  BY <1>1, ScanFacts
<1>4. i \in 1..n /\ data[i] \notin {"=", "&", NUL}
  <2>1. i # n + 1  BY <1>1, <1>2
  <2>2. i \in 1..n  BY <1>2, <1>3, <2>1
  <2> QED  BY <1>1, <1>3, <2>2
<1>5. Keyed(p, m) <=> Keyed(p, i)
  <2>1. ASSUME NEW e \in p .. m - 1, data[e] = "=" PROVE e \in p .. i - 1
    <3>1. e # i  BY <1>4, <2>1
    <3> QED  BY <1>3, <3>1
  <2>2. ASSUME NEW e \in p .. i - 1 PROVE e \in p .. m - 1  BY <1>3
  <2> QED  BY <2>1, <2>2 DEF Keyed
<1>6. m \in Nat /\ m = i + 1  BY <1>3
<1> HIDE DEF m
<1>7. (Keyed(p, i))' <=> Keyed(p, m)  BY <1>1 DEF Keyed
<1>8. Named' = Named  BY <1>1, SameForm
<1>9. \A k \in 1..n : buf[k] = IF k < m /\ data[k] \in {"=", "&"} THEN NUL ELSE data[k]
  <2> SUFFICES ASSUME NEW k \in 1..n
               PROVE  buf[k] = IF k < m /\ data[k] \in {"=", "&"} THEN NUL ELSE data[k]
    OBVIOUS
  <2>1. CASE k = i  BY <1>3, <1>4, <2>1
  <2>2. CASE k # i
    <3>1. k < m <=> k < i  BY <1>2, <1>3, <1>6, <2>2
    <3> QED  BY <1>1, <3>1 DEF ScanInv
  <2> QED  BY <2>1, <2>2
<1>10. \A k \in p .. m - 1 : k \in 1..n /\ data[k] \notin Sep
  <2> SUFFICES ASSUME NEW k \in p .. m - 1 PROVE k \in 1..n /\ data[k] \notin Sep
    OBVIOUS
  <2>1. CASE k = i  BY <1>4, <2>1 DEF Sep
  <2>2. CASE k # i
    <3>1. k \in p .. i - 1  BY <1>3, <1>6, <2>2
    <3> QED  BY <1>3, <3>1
  <2> QED  BY <2>1, <2>2
<1>11. p <= m  BY <1>3, <1>6
<1>12. /\ p \in 2..n + 1 => data[p - 1] \in Sep
       /\ \A q \in Named : p <= q
       /\ value = 0 => ~Keyed(p, i)
       /\ value # 0 => /\ Keyed(p, i) /\ value \in p + 1 .. i /\ data[value - 1] = "="
                       /\ \A k \in value .. i - 1 : data[k] # "="
  BY <1>1 DEF ScanInv
<1>13. value # 0 => value \in p + 1 .. m /\ \A k \in value .. m - 1 : data[k] # "="
  <2> SUFFICES ASSUME value # 0
               PROVE  value \in p + 1 .. m /\ \A k \in value .. m - 1 : data[k] # "="
    OBVIOUS
  <2>1. value \in p + 1 .. m  BY <1>3, <1>6, <1>12
  <2>2. ASSUME NEW k \in value .. m - 1 PROVE data[k] # "="
    <3>1. CASE k = i  BY <1>4, <3>1
    <3>2. CASE k # i
      <4>1. k \in value .. i - 1  BY <1>3, <1>6, <3>2
      <4> QED  BY <1>12, <4>1
    <3> QED  BY <3>1, <3>2
  <2> QED  BY <2>1, <2>2
<1> QED  BY <1>1, <1>5, <1>7, <1>8, <1>9, <1>10, <1>11, <1>12, <1>13 DEF ScanInv

\* The end of a pair that has not the key.
LEMMA NextPair ==
  ASSUME BufferType, PlaceType, ScanInv, ScanPairEnd, value = 0
  PROVE  ScanInv' /\ pc' = "scan"
<1> DEFINE n == Len(data)
           m == i + 1
<1>1. /\ pc = "scan" /\ i <= Len(buf) /\ buf[i] \in Sep /\ buf' = [buf EXCEPT ![i] = NUL]
      /\ i' = m /\ p' = m /\ UNCHANGED <<data, pc, value>>
  BY DEF ScanPairEnd, Sep
<1>2. n \in Nat /\ Len(buf) = n + 1 /\ data \in Seq(AnyByte) /\ buf \in Seq(AnyByte)  BY FormType
<1>3. /\ i \in Nat /\ p \in 1..i /\ p \in 1..n + 1 /\ i \in 1..n + 1
      /\ \A k \in p .. i - 1 : k \in 1..n /\ data[k] \notin Sep
      /\ \A k \in 1..n : k >= i => buf[k] = data[k]
  BY <1>1, ScanFacts
<1>4. /\ \A k \in 1..n : buf[k] = IF k < i /\ data[k] \in {"=", "&"} THEN NUL ELSE data[k]
      /\ \A q \in Named : p <= q
      /\ ~Keyed(p, i)
  BY <1>1 DEF ScanInv
<1>5. i = n + 1 \/ data[i] \in Sep
  <2>1. CASE i # n + 1
    <3>1. i \in 1..n  BY <1>2, <1>3, <2>1
    <3> QED  BY <1>1, <1>3, <3>1
  <2> QED  BY <2>1
<1>6. m \in Nat /\ m = i + 1  BY <1>3
<1>7. ASSUME NEW q \in Named PROVE m <= q
  <2>1. q \in Pairs /\ q \in 1..n /\ p <= q  BY <1>4 DEF Named, Pairs
  <2>2. q # p
    <3> SUFFICES ASSUME q = p PROVE FALSE
      OBVIOUS
    <3>1. p \in Pairs /\ i \in p..Len(data) + 1  BY <1>3, <2>1
    <3>2. p \in Named <=> Keyed(p, i)  BY <1>2, <1>3, <1>5, <3>1, NamedIs
    <3> QED  BY <1>4, <3>2
  <2>3. ~ (q <= i)
    <3> SUFFICES ASSUME q <= i PROVE FALSE
      OBVIOUS
    <3>1. q - 1 \in p .. i - 1 /\ q # 1  BY <1>3, <2>1, <2>2
    <3>2. data[q - 1] \notin Sep  BY <1>3, <3>1
    <3>3. data[q - 1] \in Sep  BY <2>1, <3>1 DEF Pairs, Sep
    <3> QED  BY <3>2, <3>3
  <2> QED  BY <1>3, <1>6, <2>1, <2>3
<1> HIDE DEF m
<1>8. \A k \in 1..n : buf'[k] = IF k < m /\ data[k] \in {"=", "&"} THEN NUL ELSE data[k]
  <2> SUFFICES ASSUME NEW k \in 1..n
               PROVE  buf'[k] = IF k < m /\ data[k] \in {"=", "&"} THEN NUL ELSE data[k]
    OBVIOUS
  <2>0. i \in DOMAIN buf /\ k \in DOMAIN buf  BY <1>2, <1>3, LenProperties
  <2>1. CASE k = i
    <3>1. buf'[k] = NUL  BY <1>1, <2>0, <2>1
    <3>2. data[k] \in Sep /\ k < m  BY <1>2, <1>3, <1>5, <1>6, <2>1
    <3> QED  BY <3>1, <3>2 DEF Sep
  <2>2. CASE k # i
    <3>1. buf'[k] = buf[k] /\ (k < m <=> k < i)  BY <1>1, <1>2, <1>3, <1>6, <2>0, <2>2
    <3> QED  BY <1>4, <3>1
  <2> QED  BY <2>1, <2>2
<1>9. m \in 2..n + 1 => data[m - 1] \in Sep
  <2> SUFFICES ASSUME m \in 2..n + 1 PROVE data[m - 1] \in Sep
    OBVIOUS
  <2>1. m - 1 = i /\ i # n + 1  BY <1>2, <1>3, <1>6
  <2> QED  BY <1>5, <2>1
<1>10. ~ (Keyed(p, i))'
  <2>1. \A e \in p' .. i' - 1 : FALSE  BY <1>1, <1>6
  <2> QED  BY <2>1 DEF Keyed
<1>11. Named' = Named  BY <1>1, SameForm
<1>12. \A k \in m .. m - 1 : FALSE  BY <1>6
<1>13. m <= m  BY <1>6
<1> QED  BY <1>1, <1>7, <1>8, <1>9, <1>10, <1>11, <1>12, <1>13 DEF ScanInv
\* The end of the pair that has the key: the text behind its last '=' is still
\* in the buffer, and ends with a NUL.
LEMMA FoundPair ==
  ASSUME BufferType, PlaceType, ScanInv, ScanPairEnd, value # 0
  PROVE  FoundInv' /\ pc' = "found"
<1> DEFINE n == Len(data)
<1>1. /\ pc = "scan" /\ i <= Len(buf) /\ buf[i] \in Sep /\ buf' = [buf EXCEPT ![i] = NUL]
      /\ UNCHANGED <<data, value>> /\ pc' = "found"
  BY DEF ScanPairEnd, Sep
<1>2. n \in Nat /\ Len(buf) = n + 1 /\ data \in Seq(AnyByte) /\ buf \in Seq(AnyByte)  BY FormType
<1>3. /\ i \in Nat /\ p \in 1..i /\ p \in 1..n + 1 /\ i \in 1..n + 1
      /\ \A k \in p .. i - 1 : k \in 1..n /\ data[k] \notin Sep
      /\ \A k \in 1..n : k >= i => buf[k] = data[k]
  BY <1>1, ScanFacts
<1>4. /\ \A k \in 1..n : buf[k] = IF k < i /\ data[k] \in {"=", "&"} THEN NUL ELSE data[k]
      /\ \A q \in Named : p <= q
      /\ p \in 2..n + 1 => data[p - 1] \in Sep
      /\ Keyed(p, i) /\ value \in p + 1 .. i /\ data[value - 1] = "="
      /\ \A k \in value .. i - 1 : data[k] # "="
  BY <1>1 DEF ScanInv
<1>5. i = n + 1 \/ data[i] \in Sep
  <2>1. CASE i # n + 1
    <3>1. i \in 1..n  BY <1>2, <1>3, <2>1
    <3> QED  BY <1>1, <1>3, <3>1
  <2> QED  BY <2>1
<1>6. p \in Pairs /\ p \in 1..n /\ i \in p..n + 1
  <2>1. p \in 1..n /\ i \in p..n + 1  BY <1>2, <1>3, <1>4
  <2>2. p # 1 => p \in 2..n + 1  BY <1>2, <2>1
  <2>3. p = 1 \/ data[p - 1] \in {"&", NUL}  BY <1>4, <2>2 DEF Sep
  <2> QED  BY <2>1, <2>3 DEF Pairs
<1>7. p \in Named  BY <1>2, <1>3, <1>4, <1>5, <1>6, NamedIs
<1>8. PairAt(p) = SubSeq(data, p, i - 1)  BY <1>2, <1>3, <1>5, <1>6, PairIs
<1>9. Text = SubSeq(data, value, i - 1)  BY <1>2, <1>4, <1>6, <1>7, <1>8, TextIs
<1>10. value \in 1..n + 1 /\ i \in value..n + 1 /\ value \in Nat  BY <1>2, <1>3, <1>4
<1>11. /\ Text \in Seq(AnyByte) /\ Len(Text) = i - value
       /\ \A k \in 1 .. i - value : Text[k] = data[value + k - 1]
  BY <1>2, <1>9, <1>10, FormPiece
<1> DEFINE L == Len(Text)
<1>12. L \in Nat /\ value + L = i  BY <1>2, <1>10, <1>11
<1>13. Text \in Seq(Others)
  <2>1. ASSUME NEW k \in 1..L PROVE Text[k] \in Others
    <3>1. k \in 1 .. i - value /\ value + k - 1 \in p .. i - 1  BY <1>3, <1>4, <1>11, <1>12
    <3>2. data[value + k - 1] # NUL  BY <1>3, <3>1 DEF Sep
    <3>3. Text[k] \in AnyByte  BY <1>11, <1>12, ElementOfSeq
    <3> QED  BY <1>11, <3>1, <3>2, <3>3 DEF AnyByte
  <2>2. Text = [k \in 1..L |-> Text[k]]  BY <1>11, <1>12, SeqDef
  <2> QED  BY <1>12, <2>1, <2>2, IsASeq
<1>14. Len(buf') = n + 1 /\ buf'[i] = NUL /\ \A k \in 1..n + 1 : k # i => buf'[k] = buf[k]
  <2>1. NUL \in AnyByte /\ i \in 1..Len(buf)  BY <1>2, <1>3 DEF AnyByte
  <2>2. buf' \in Seq(AnyByte) /\ Len(buf') = Len(buf)  BY <1>1, <1>2, <2>1, ExceptSeq
  <2> QED  BY <1>1, <1>2, <2>1, <2>2
<1>15. ASSUME NEW k \in value .. value + L - 1 PROVE buf'[k] = Text[k - value + 1]
  <2>1. k \in value .. i - 1 /\ k \in p .. i - 1 /\ k # i  BY <1>3, <1>4, <1>12
  <2>2. data[k] \notin Sep /\ data[k] # "=" /\ k \in 1..n  BY <1>3, <1>4, <2>1
  <2>3. buf'[k] = data[k]  BY <1>2, <1>4, <1>14, <2>1, <2>2 DEF Sep
  <2>4. PICK l \in 1 .. i - value : l = k - value + 1
    <3>1. k - value + 1 \in 1 .. i - value  BY <1>10, <2>1
    <3> QED  BY <3>1
  <2>5. value + l - 1 = k  BY <1>10, <2>4
  <2> QED  BY <1>11, <2>3, <2>4, <2>5
<1>16. Named' = Named /\ Text' = Text  BY <1>1, SameForm
<1> DEFINE last == value + L
<1>17. value >= 1 /\ last <= n + 1 /\ value \in value .. last /\ buf'[last] = NUL
  BY <1>10, <1>12, <1>14
<1>18. Reading(value)'
  <2> SUFFICES /\ Named # {} /\ Text \in Seq(Others) /\ value >= 1 /\ value + Len(Text) <= Len(buf')
               /\ value \in value .. value + Len(Text) /\ buf'[value + Len(Text)] = NUL
               /\ \A k \in value .. value + Len(Text) - 1 : buf'[k] = Text[k - value + 1]
    BY <1>1, <1>16 DEF Reading
  <2> QED  BY <1>7, <1>13, <1>14, <1>15, <1>17
<1> QED  BY <1>1, <1>18 DEF FoundInv

\* Decoding starts with nothing written and everything still to come.
LEMMA StartDecoding ==
  ASSUME BufferType, PlaceType, FoundInv, ScanEnd
  PROVE  DecodeInv' /\ pc' \in {"decode", "denied"}
<1>1. CASE pc = "scan"  BY <1>1 DEF ScanEnd, DecodeInv
<1>2. CASE pc # "scan"
  <2>1. pc = "found" /\ pc' = "decode" /\ i' = value /\ c' = value /\ UNCHANGED <<data, buf, value>>
    BY <1>2 DEF ScanEnd
  <2>2. Reading(value)  BY <2>1 DEF FoundInv
  <2>3. Text' = Text /\ Named' = Named  BY <2>1, SameForm
  <2>4. Reading(i)'
    <3>1. (Reading(i))' <=> Reading(value)  BY <2>1, <2>3 DEF Reading
    <3> QED  BY <2>2, <3>1
  <2>5. Text \in Seq(AnyByte) /\ value \in Nat
    <3>1. Text \in Seq(Others) /\ value \in Nat  BY <2>2 DEF Reading, PlaceType
    <3> QED  BY <3>1 DEF AnyByte
  <2>6. PICK f \in [1..Len(Text) + 1 -> Seq(AnyByte)] : Decodes(f, Text) /\ Decoded(Text) = f[1]
    BY <2>5, DecodedIs
  <2>7. PICK g : Judges(g, Text) /\ (Decodable(Text) <=> g[1])  BY <2>5, DecodableIs
  <2>8. SubSeq(buf, value, value - 1) \o f[1] = f[1]
    <3>1. SubSeq(buf, value, value - 1) = <<>>  BY <2>5, SubSeqEmpty
    <3>2. f[1] \in Seq(AnyByte)
      <4>1. 1 \in 1..Len(Text) + 1  BY <2>5, LenProperties
      <4> QED  BY <4>1
    <3> QED  BY <3>1, <3>2, ConcatEmptySeq
  <2>9. i' - value' + 1 = 1 /\ c' - 1 = value - 1 /\ value' = value /\ buf' = buf /\ value <= value
    BY <2>1, <2>5
  <2>10. SubSeq(buf', value', c' - 1) \o f[i' - value' + 1] = f[1]  BY <2>8, <2>9
  <2>11. g[1] <=> g[i' - value' + 1]  BY <2>9
  <2> QED  BY <2>1, <2>3, <2>4, <2>6, <2>7, <2>9, <2>10, <2>11 DEF DecodeInv
<1> QED  BY <1>1, <1>2
---------------------------------------------------------------------------
(* The steps that decode.                                                  *)

\* What the text still in the buffer tells of the places.
LEMMA TextPlaces ==
  ASSUME BufferType, PlaceType, DecodeInv, pc = "decode"
  PROVE  /\ Text \in Seq(AnyByte) /\ Text \in Seq(Others) /\ Len(Text) \in Nat
         /\ value \in 1..c /\ c \in 1..i /\ i \in value .. value + Len(Text)
         /\ value + Len(Text) <= Len(buf) /\ buf[value + Len(Text)] = NUL
         /\ \A k \in i .. value + Len(Text) - 1 : buf[k] = Text[k - value + 1] /\ buf[k] # NUL
<1>1. /\ Reading(i) /\ value <= c /\ c <= i /\ value \in Nat /\ c \in Nat /\ i \in Nat
  BY FormType DEF DecodeInv, PlaceType
<1>2. Text \in Seq(Others) /\ Text \in Seq(AnyByte) /\ Len(Text) \in Nat
  BY <1>1, LenProperties DEF Reading, AnyByte
<1>3. ASSUME NEW k \in i .. value + Len(Text) - 1
      PROVE  buf[k] = Text[k - value + 1] /\ buf[k] # NUL
  <2>1. buf[k] = Text[k - value + 1]  BY <1>1 DEF Reading
  <2>2. k - value + 1 \in 1..Len(Text)  BY <1>1, <1>2 DEF Reading
  <2>3. Text[k - value + 1] \in Others  BY <1>2, <2>2, ElementOfSeq
  <2> QED  BY <2>1, <2>3, Letters
<1> QED  BY <1>1, <1>2, <1>3 DEF Reading

\* One byte of the text decoded as the reference does.
LEMMA DecodeOne ==
  ASSUME BufferType, PlaceType, DecodeInv, pc = "decode", i < value + Len(Text),
         NEW k, k = i - value + 1, Fine(Text, k),
         i' = i + Taken(Text, k), c' = c + 1, buf' = [buf EXCEPT ![c] = ByteAt(Text, k)],
         UNCHANGED <<data, pc, value>>
  PROVE  DecodeInv'
<1> DEFINE L == Len(Text)
           b == ByteAt(Text, k)
           t == Taken(Text, k)
           last == value + L
           w == SubSeq(buf, value, c - 1)
<1>1. /\ Text \in Seq(AnyByte) /\ Text \in Seq(Others) /\ L \in Nat
      /\ value \in 1..c /\ c \in 1..i /\ i \in value .. last /\ last <= Len(buf) /\ buf[last] = NUL
      /\ \A l \in i .. last - 1 : buf[l] = Text[l - value + 1]
  BY TextPlaces
<1>2. buf \in Seq(AnyByte) /\ Len(buf) \in Nat  BY FormType, LenProperties
<1>3. value \in Nat /\ c \in Nat /\ i \in Nat /\ last \in Nat /\ i < last /\ last = value + L
  BY <1>1
<1>4. k \in 1..L /\ b \in AnyByte /\ t \in 1..L + 1 - k
  <2>1. k \in 1..L  BY <1>1, <1>3
  <2> QED  BY <1>1, <2>1, PlaceIn
<1>5. Text' = Text /\ Named' = Named  BY SameForm
<1> HIDE DEF last, b, t, L
<1> DEFINE m == i + t
           d == c + 1
<1>6. m \in Nat /\ m \in i + 1 .. last /\ m - value + 1 = k + t /\ d - 1 = c /\ d <= m /\ value <= d
  BY <1>1, <1>3, <1>4
<1>7. i' = m /\ c' = d /\ buf' = [buf EXCEPT ![c] = b]  BY DEF t, b
<1> HIDE DEF m, d
<1> DEFINE bb == buf'
<1>8. /\ bb \in Seq(AnyByte) /\ Len(bb) = Len(buf) /\ bb[c] = b
      /\ \A l \in 1..Len(buf) : l # c => bb[l] = buf[l]
  <2>1. c \in 1..Len(buf)  BY <1>1, <1>2, <1>3
  <2>2. bb \in Seq(AnyByte) /\ Len(bb) = Len(buf)  BY <1>2, <1>4, <1>7, <2>1, ExceptSeq
  <2> QED  BY <1>2, <1>7, <2>1, <2>2
<1> HIDE DEF bb
<1>9. Reading(i)'
  <2>0. last # c /\ last \in 1..Len(buf) /\ last <= Len(buf) /\ buf[last] = NUL
    <3>1. last <= Len(buf) /\ buf[last] = NUL /\ c \in 1..i  BY <1>1
    <3> QED  BY <1>2, <1>3, <3>1
  <2>1. bb[last] = NUL  BY <1>8, <2>0
  <2>2. ASSUME NEW l \in m .. last - 1 PROVE bb[l] = Text[l - value + 1]
    <3>1. l \in i .. last - 1 /\ l # c /\ l \in 1..Len(buf)  BY <1>1, <1>2, <1>3, <1>6
    <3> QED  BY <1>1, <1>8, <3>1
  <2>3. Named # {} /\ value >= 1  BY <1>1, <1>3 DEF DecodeInv, Reading
  <2>4. m \in value .. last /\ last <= Len(bb)
    <3>1. m \in i + 1 .. last /\ value <= i  BY <1>1, <1>3, <1>6
    <3> QED  BY <1>3, <1>8, <2>0, <3>1
  <2>5. /\ Named # {} /\ Text \in Seq(Others) /\ value >= 1 /\ value + L <= Len(bb)
        /\ m \in value .. value + L /\ bb[value + L] = NUL
        /\ \A l \in m .. value + L - 1 : bb[l] = Text[l - value + 1]
    BY <1>1, <1>3, <2>1, <2>2, <2>3, <2>4
  <2> QED  BY <1>5, <1>7, <2>5 DEF Reading, L, bb
<1>10. w \in Seq(AnyByte) /\ SubSeq(bb, value, c) = w \o <<b>>
  <2>1. value \in Nat \ {0} /\ value <= c /\ c <= Len(buf) /\ c - 1 \in Nat /\ c - 1 < Len(bb)
        /\ value <= (c - 1) + 1 /\ (c - 1) + 1 = c /\ c <= Len(buf) + 1 /\ c <= Len(bb) + 1
    BY <1>1, <1>2, <1>3, <1>8
  <2>2. \A l \in value .. c - 1 : buf[l] = bb[l]
    <3> SUFFICES ASSUME NEW l \in value .. c - 1 PROVE buf[l] = bb[l]
      OBVIOUS
    <3>1. l \in 1..Len(buf) /\ l # c  BY <1>1, <1>2, <1>3
    <3> QED  BY <1>8, <3>1
  <2>3. SubSeq(buf, value, c - 1) = SubSeq(bb, value, c - 1)
    BY <1>2, <1>3, <1>8, <2>1, <2>2, SamePiece
  <2>4. w \in Seq(AnyByte)
    <3>1. value \in 1..Len(buf) + 1 /\ c \in value..Len(buf) + 1  BY <1>1, <1>2, <1>3
    <3> QED  BY <1>2, <3>1, FormPiece
  <2> DEFINE h == c - 1
  <2>5. h \in Nat /\ h < Len(bb) /\ value <= h + 1 /\ h + 1 = c  BY <2>1
  <2> HIDE DEF h
  <2>6. SubSeq(bb, value, h + 1) = Append(SubSeq(bb, value, h), bb[h + 1])
    BY <1>8, <2>1, <2>5, PieceGrows
  <2>7. SubSeq(bb, value, c) = Append(w, b)  BY <1>8, <2>3, <2>5, <2>6 DEF h
  <2> HIDE DEF w
  <2>8. Append(w, b) = w \o <<b>>  BY <1>4, <2>4, AppendIsConcat
  <2> QED  BY <2>4, <2>7, <2>8
<1> HIDE DEF w
<1>11. \E f \in [1..L + 1 -> Seq(AnyByte)] :
         /\ Decodes(f, Text) /\ Decoded(Text) = f[1]
         /\ SubSeq(bb, value, c) \o f[k + t] = f[1]
  <2>1. PICK f \in [1..L + 1 -> Seq(AnyByte)] :
          /\ Decodes(f, Text) /\ Decoded(Text) = f[1] /\ w \o f[k] = f[1]
    BY DEF DecodeInv, L, w
  <2> DEFINE r == f[k + t]
             x == <<b>>
             wx == w \o x
             xr == x \o r
  <2>2. f[k] = xr  BY <1>4, <2>1 DEF Decodes, b, t, L
  <2>3. r \in Seq(AnyByte)
    <3>1. k + t \in 1..L + 1  BY <1>1, <1>4
    <3> QED  BY <3>1
  <2>4. x \in Seq(AnyByte)  BY <1>4
  <2> HIDE DEF x, r
  <2>5. w \o xr = wx \o r  BY <1>10, <2>3, <2>4, PutBehind
  <2>6. SubSeq(bb, value, c) = wx  BY <1>10 DEF x
  <2>7. SubSeq(bb, value, c) \o r = f[1]  BY <2>1, <2>2, <2>5, <2>6
  <2> QED  BY <2>1, <2>7 DEF r
<1>12. \E g : /\ Judges(g, Text) /\ (Decodable(Text) <=> g[1])
              /\ g[1] <=> g[k + t]
  <2>1. PICK g : /\ Judges(g, Text) /\ (Decodable(Text) <=> g[1]) /\ (g[1] <=> g[k])
    BY DEF DecodeInv
  <2>2. g[k] <=> g[k + t]  BY <1>4, <2>1 DEF Judges, t, L
  <2> QED  BY <2>1, <2>2
<1>13. i' - value' + 1 = k + t /\ c' - 1 = c /\ value' = value /\ c' <= i' /\ value' <= c' /\ buf' = bb
  BY <1>6, <1>7 DEF bb
<1>14. \E f \in [1..L + 1 -> Seq(AnyByte)] :
         /\ Decodes(f, Text) /\ Decoded(Text) = f[1]
         /\ SubSeq(buf', value', c' - 1) \o f[i' - value' + 1] = f[1]
  BY <1>11, <1>13
<1>15. \E g : /\ Judges(g, Text) /\ (Decodable(Text) <=> g[1])
              /\ g[1] <=> g[i' - value' + 1]
  BY <1>12, <1>13
<1> QED  BY <1>5, <1>9, <1>13, <1>14, <1>15 DEF DecodeInv, L
\* DecodeByte and DecodeEscape are such steps.
LEMMA DecodeByteStep ==
  ASSUME BufferType, PlaceType, DecodeInv, DecodeByte
  PROVE  DecodeInv'
<1>1. /\ pc = "decode" /\ buf[i] # NUL /\ ~Percent(buf[i]) /\ buf' = [buf EXCEPT ![c] = Plain(buf[i])]
      /\ i' = i + 1 /\ c' = c + 1 /\ UNCHANGED <<data, pc, value>>
  BY Zenon DEF DecodeByte, Percent, Plain
<1>2. /\ Len(Text) \in Nat /\ value \in 1..c /\ c \in 1..i /\ i \in value .. value + Len(Text)
      /\ buf[value + Len(Text)] = NUL
      /\ \A l \in i .. value + Len(Text) - 1 : buf[l] = Text[l - value + 1]
  BY <1>1, TextPlaces
<1>3. value \in Nat /\ i \in Nat  BY <1>1, FormType DEF PlaceType
<1>4. i < value + Len(Text)  BY <1>1, <1>2, <1>3
<1> DEFINE k == i - value + 1
<1>5. buf[i] = Text[k]
  <2>1. i \in i .. value + Len(Text) - 1  BY <1>2, <1>3, <1>4
  <2> QED  BY <1>2, <2>1
<1> HIDE DEF k
<1>6. ~Escape(Text, k) /\ Fine(Text, k)  BY <1>1, <1>5 DEF Escape, Fine
<1>7. Taken(Text, k) = 1 /\ ByteAt(Text, k) = Plain(buf[i])  BY <1>5, <1>6 DEF Taken, ByteAt
<1> QED  BY <1>1, <1>4, <1>6, <1>7, DecodeOne DEF k

LEMMA DecodeEscapeStep ==
  ASSUME BufferType, PlaceType, DecodeInv, DecodeEscape
  PROVE  DecodeInv'
<1>1. /\ pc = "decode" /\ Percent(buf[i]) /\ buf[i] # NUL /\ buf[i + 1] \in Hex /\ buf[i + 2] \in Hex
      /\ buf' = [buf EXCEPT ![c] = HexByte[<<buf[i + 1], buf[i + 2]>>]]
      /\ i' = i + 3 /\ c' = c + 1 /\ UNCHANGED <<data, pc, value>>
  <2>1. "%" # NUL  BY Zenon, Bytes
  <2> QED  BY <2>1, Zenon DEF DecodeEscape, IsEscape, Percent
<1>2. /\ Len(Text) \in Nat /\ value \in 1..c /\ c \in 1..i /\ i \in value .. value + Len(Text)
      /\ buf[value + Len(Text)] = NUL
      /\ \A l \in i .. value + Len(Text) - 1 : buf[l] = Text[l - value + 1]
  BY <1>1, TextPlaces
<1>3. value \in Nat /\ i \in Nat  BY <1>1, FormType DEF PlaceType
<1>4. NUL \notin Hex
  <2>1. NUL \notin Others /\ Hex \subseteq Others  BY Zenon, Bytes
  <2> QED  BY <2>1
<1> DEFINE last == value + Len(Text)
           k == i - value + 1
<1>5. last \in Nat /\ i <= last /\ buf[last] = NUL  BY <1>2, <1>3
<1>6. i # last /\ i + 1 # last /\ i + 2 # last  BY <1>1, <1>4, <1>5
<1>7. i + 2 < last  BY <1>3, <1>5, <1>6
<1>8. buf[i] = Text[k] /\ buf[i + 1] = Text[k + 1] /\ buf[i + 2] = Text[k + 2]
  <2>1. \A l \in i .. last - 1 : buf[l] = Text[l - value + 1]  BY <1>2
  <2>2. i \in i .. last - 1 /\ i + 1 \in i .. last - 1 /\ i + 2 \in i .. last - 1  BY <1>3, <1>5, <1>7
  <2>3. (i + 1) - value + 1 = k + 1 /\ (i + 2) - value + 1 = k + 2  BY <1>3
  <2> HIDE DEF last
  <2>4. buf[i] = Text[i - value + 1] /\ buf[i + 1] = Text[(i + 1) - value + 1]
        /\ buf[i + 2] = Text[(i + 2) - value + 1]
    BY <2>1, <2>2
  <2> QED  BY <2>3, <2>4
<1>9. k + 2 <= Len(Text) /\ i < value + Len(Text)  BY <1>2, <1>3, <1>7
<1> HIDE DEF k, last
<1>10. Escape(Text, k) /\ Fine(Text, k)  BY <1>1, <1>8, <1>9 DEF Escape, Escaped, Fine
<1>11. Taken(Text, k) = 3 /\ ByteAt(Text, k) = HexByte[<<buf[i + 1], buf[i + 2]>>]
  BY <1>8, <1>10 DEF Taken, ByteAt
<1> QED  BY <1>1, <1>9, <1>10, <1>11, DecodeOne DEF k

\* A NUL is only met at the text's end: then all is written, and with the NUL
\* behind it, it is the session asked about.
LEMMA DecodeEndStep ==
  ASSUME BufferType, PlaceType, DecodeInv, DecodeEnd
  PROVE  SessionAsSent'
<1> DEFINE L == Len(Text)
           bb == buf'
           w == SubSeq(buf, value, c - 1)
<1>1. pc = "decode" /\ buf[i] = NUL /\ buf' = [buf EXCEPT ![c] = NUL] /\ UNCHANGED <<data, value>>
  BY DEF DecodeEnd, scan
<1>2. /\ Text \in Seq(AnyByte) /\ L \in Nat
      /\ value \in 1..c /\ c \in 1..i /\ i \in value .. value + L /\ value + L <= Len(buf)
      /\ \A l \in i .. value + L - 1 : buf[l] # NUL
  BY <1>1, TextPlaces
<1>3. buf \in Seq(AnyByte) /\ Len(buf) \in Nat /\ value \in Nat /\ c \in Nat /\ i \in Nat
  BY <1>1, FormType, LenProperties DEF PlaceType
<1>4. i = value + L
  <2> SUFFICES ASSUME i # value + L PROVE FALSE
    OBVIOUS
  <2>1. i \in i .. value + L - 1  BY <1>2, <1>3
  <2> QED  BY <1>1, <1>2, <2>1
<1>5. i - value + 1 = L + 1  BY <1>2, <1>3, <1>4
<1>6. Decoded(Text) = w
  <2>1. PICK f \in [1..L + 1 -> Seq(AnyByte)] :
          Decodes(f, Text) /\ Decoded(Text) = f[1] /\ w \o f[i - value + 1] = f[1]
    BY <1>1 DEF DecodeInv
  <2>2. f[L + 1] = <<>>  BY <2>1 DEF Decodes
  <2>3. w \in Seq(AnyByte)
    <3>1. value \in 1..Len(buf) + 1 /\ c \in value..Len(buf) + 1  BY <1>2, <1>3
    <3> QED  BY <1>3, <3>1, FormPiece
  <2> HIDE DEF w
  <2>4. w \o <<>> = w  BY <2>3, ConcatEmptySeq
  <2> QED  BY <1>5, <2>1, <2>2, <2>4
<1>7. Decodable(Text)
  <2>1. PICK g : Judges(g, Text) /\ (Decodable(Text) <=> g[1]) /\ (g[1] <=> g[i - value + 1])
    BY <1>1 DEF DecodeInv
  <2> QED  BY <1>5, <2>1 DEF Judges
<1>8. Named # {}  BY <1>1 DEF DecodeInv, Reading
<1>9. /\ bb \in Seq(AnyByte) /\ Len(bb) = Len(buf) /\ bb[c] = NUL
      /\ \A l \in 1..Len(buf) : l # c => bb[l] = buf[l]
  <2>1. c \in 1..Len(buf) /\ NUL \in AnyByte  BY <1>2, <1>3 DEF AnyByte
  <2>2. bb \in Seq(AnyByte) /\ Len(bb) = Len(buf)  BY <1>1, <1>3, <2>1, ExceptSeq
  <2> QED  BY <1>1, <1>3, <2>1, <2>2
<1> HIDE DEF bb
<1> DEFINE I == {k \in value..c : bb[k] = NUL}
<1>10. PICK e \in I : \A k \in I : e <= k
  <2>1. I \subseteq Nat /\ c \in I  BY <1>2, <1>3, <1>9
  <2> HIDE DEF I
  <2> QED  BY <2>1, LeastOf
<1>11. e \in value..c /\ bb[e] = NUL  OBVIOUS
<1>12. ASSUME NEW k \in value .. e - 1 PROVE bb[k] # NUL /\ bb[k] = buf[k]
  <2>1. k \in value..c /\ k < e /\ k # c /\ k \in 1..Len(buf)  BY <1>2, <1>3, <1>11
  <2>2. k \notin I
    <3> HIDE DEF I
    <3> QED  BY <1>3, <1>10, <1>11, <2>1
  <2> QED  BY <1>9, <2>1, <2>2
<1> HIDE DEF I
<1>13. CString(From(bb, value)) = SubSeq(bb, value, e - 1)
  <2>1. value \in 1..Len(bb) /\ e \in value..Len(bb)  BY <1>2, <1>3, <1>9, <1>11
  <2> QED  BY <1>9, <1>11, <1>12, <2>1, StringAt
<1>14. SubSeq(bb, value, e - 1) = SubSeq(buf, value, e - 1)
  <2>1. /\ value \in Nat \ {0} /\ e \in Nat /\ value <= e /\ e <= Len(bb) + 1 /\ e <= Len(buf) + 1
    BY <1>2, <1>3, <1>9, <1>11
  <2> QED  BY <1>3, <1>9, <1>12, <2>1, SamePiece
<1>15. CString(w) = SubSeq(buf, value, e - 1)
  <2> DEFINE n == e - value
             stops == {NUL}
  <2>1. value \in 1..Len(buf) + 1 /\ c \in value..Len(buf) + 1 /\ value \in value..c /\ e \in value..c
    BY <1>2, <1>3, <1>11
  <2>2. w \in Seq(AnyByte) /\ Len(w) = c - value /\ \A k \in 1 .. c - value : w[k] = buf[value + k - 1]
    BY <1>3, <2>1, FormPiece
  <2>3. SubSeq(SubSeq(buf, value, c - 1), value - value + 1, e - value) = SubSeq(buf, value, e - 1)
    BY <1>3, <2>1, PieceOfPiece
  <2>4. SubSeq(w, 1, n) = SubSeq(buf, value, e - 1)
    <3>1. value - value + 1 = 1  BY <1>3
    <3> QED  BY <2>3, <3>1
  <2> HIDE DEF w
  <2>5. n \in 0 .. Len(w) /\ Len(w) \in Nat  BY <1>3, <1>11, <2>2
  <2>6. \A k \in 1 .. n : w[k] \notin stops
    <3> SUFFICES ASSUME NEW k \in 1 .. n PROVE w[k] \notin stops
      OBVIOUS
    <3>1. k \in 1 .. c - value /\ value + k - 1 \in value .. e - 1  BY <1>3, <1>11
    <3>2. w[k] = buf[value + k - 1] /\ buf[value + k - 1] # NUL  BY <1>12, <2>2, <3>1
    <3> QED  BY <3>2
  <2>7. n = Len(w) \/ w[n + 1] \in stops
    <3>1. CASE e = c  BY <2>2, <3>1
    <3>2. CASE e # c
      <4>1. n + 1 \in 1 .. c - value /\ value + (n + 1) - 1 = e /\ e \in 1..Len(buf)
        BY <1>2, <1>3, <1>11, <3>2
      <4>2. w[n + 1] = buf[e]  BY <2>2, <4>1
      <4>3. buf[e] = NUL  BY <1>9, <1>11, <3>2, <4>1
      <4> QED  BY <4>2, <4>3
    <3> QED  BY <3>1, <3>2
  <2> HIDE DEF n, stops
  <2>8. UpTo(w, stops) = SubSeq(w, 1, n)  BY <2>2, <2>5, <2>6, <2>7, UpToIs
  <2> QED  BY <2>4, <2>8 DEF CString, stops
<1>16. CString(From(bb, value)) = CString(Decoded(Text))  BY <1>6, <1>13, <1>14, <1>15
<1>17. Text' = Text /\ Named' = Named  BY <1>1, SameForm
<1>18. Session' = CString(From(bb, value))  BY <1>1 DEF Session, bb
<1> QED  BY <1>7, <1>8, <1>16, <1>17, <1>18 DEF SessionAsSent
---------------------------------------------------------------------------
(* The invariant.                                                          *)

IInv == TypeOK /\ ScanInv /\ FoundInv /\ DecodeInv /\ SessionAsSent

LEMMA InitIInv == Init => IInv
<1> SUFFICES ASSUME Init PROVE ScanInv /\ FoundInv /\ DecodeInv /\ SessionAsSent
  BY InitType DEF IInv
<1> DEFINE n == Len(data)
<1>1. data \in Seq(AnyByte) /\ n \in Nat
  <2>1. Forms \subseteq Seq(AnyByte)  BY Zenon, Bytes DEF AnyByte
  <2> QED  BY <2>1, LenProperties DEF Init
<1>2. pc = "start" /\ i = 1 /\ p = 1 /\ value = 0 /\ buf = Append(data, NUL)  BY DEF Init
<1>3. \A k \in 1..n : buf[k] = data[k]
  <2>1. NUL \in AnyByte  BY DEF AnyByte
  <2> QED  BY <1>1, <1>2, <2>1, AppendProperties
<1>4. \A q \in Named : 1 <= q  BY <1>1 DEF Named, Pairs
<1>5. ~Keyed(1, 1)  BY DEF Keyed
<1> QED  BY <1>1, <1>2, <1>3, <1>4, <1>5 DEF ScanInv, FoundInv, DecodeInv, SessionAsSent

\* Outside their stages the four say nothing.
LEMMA Elsewhere ==
  /\ pc' \notin {"start", "scan"} => ScanInv'
  /\ pc' # "found" => FoundInv'
  /\ pc' # "decode" => DecodeInv'
  /\ pc' # "access" => SessionAsSent'
BY DEF ScanInv, FoundInv, DecodeInv, SessionAsSent

\* Steps that leave the form, the buffer and the places in it alone.
LEMMA Untouched ==
  ASSUME UNCHANGED <<data, buf, scan>>
  PROVE  /\ pc \in {"start", "scan"} /\ ScanInv => ScanInv'
         /\ pc = pc' /\ ScanInv /\ FoundInv /\ DecodeInv /\ SessionAsSent =>
              ScanInv' /\ FoundInv' /\ DecodeInv' /\ SessionAsSent'
<1>1. data' = data /\ buf' = buf /\ i' = i /\ p' = p /\ value' = value /\ c' = c  BY DEF scan
<1>2. Named' = Named /\ Text' = Text  BY <1>1, SameForm
<1>3. (Keyed(p, i))' <=> Keyed(p, i)  BY <1>1 DEF Keyed
<1>4. pc \in {"start", "scan"} /\ ScanInv => ScanInv'  BY <1>1, <1>2, <1>3 DEF ScanInv
<1>5. (Reading(value))' <=> Reading(value)  BY <1>1, <1>2 DEF Reading
<1>6. (Reading(i))' <=> Reading(i)  BY <1>1, <1>2 DEF Reading
<1>7. pc' = pc /\ FoundInv => FoundInv'  BY <1>5 DEF FoundInv
<1>8. pc' = pc /\ DecodeInv => DecodeInv'  BY <1>1, <1>2, <1>6 DEF DecodeInv
<1>9. Session' = Session  BY <1>1 DEF Session
<1>10. pc' = pc /\ SessionAsSent => SessionAsSent'  BY <1>2, <1>9 DEF SessionAsSent
<1>11. pc' = pc /\ ScanInv => ScanInv'  BY <1>4, Elsewhere
<1> QED  BY <1>4, <1>7, <1>8, <1>10, <1>11

\* The steps up to the session.
LEMMA DecodeKeeps ==
  ASSUME IInv, Decode
  PROVE  ScanInv' /\ FoundInv' /\ DecodeInv' /\ SessionAsSent'
<1>0. BufferType /\ PlaceType /\ ScanInv /\ FoundInv /\ DecodeInv /\ SessionAsSent
  BY TypeParts DEF IInv
<1>1. CASE Start
  <2>1. pc = "start" /\ pc' \in {"scan", "denied"} /\ UNCHANGED <<data, buf, scan>>
    BY <1>1 DEF Start
  <2> QED  BY <1>0, <2>1, Elsewhere, Untouched
<1>2. CASE ScanEquals
  <2>1. pc' = "scan"  BY <1>2 DEF ScanEquals
  <2> QED  BY <1>0, <1>2, <2>1, Elsewhere, ScanEqualsStep
<1>3. CASE ScanPairEnd
  <2>1. CASE value = 0  BY <1>0, <1>3, <2>1, Elsewhere, NextPair
  <2>2. CASE value # 0  BY <1>0, <1>3, <2>2, Elsewhere, FoundPair
  <2> QED  BY <2>1, <2>2
<1>4. CASE ScanByte
  <2>1. pc' = "scan"  BY <1>4 DEF ScanByte
  <2> QED  BY <1>0, <1>4, <2>1, Elsewhere, ScanByteStep
<1>5. CASE ScanEnd  BY <1>0, <1>5, Elsewhere, StartDecoding
<1>6. CASE DecodeByte
  <2>1. pc' = "decode"  BY <1>6, DecodesByte
  <2> QED  BY <1>0, <1>6, <2>1, Elsewhere, DecodeByteStep
<1>7. CASE DecodeEscape
  <2>1. pc' = "decode"  BY <1>7, DecodesEscape
  <2> QED  BY <1>0, <1>7, <2>1, Elsewhere, DecodeEscapeStep
<1>8. CASE DecodeFails
  <2>1. pc' = "denied"  BY <1>8, Zenon DEF DecodeFails
  <2> QED  BY <2>1, Elsewhere
<1>9. CASE DecodeEnd
  <2>1. pc' = "access"  BY <1>9 DEF DecodeEnd
  <2> QED  BY <1>0, <1>9, <2>1, Elsewhere, DecodeEndStep
<1> QED  BY <1>1, <1>2, <1>3, <1>4, <1>5, <1>6, <1>7, <1>8, <1>9 DEF Decode

\* After it nothing reads the form again.
LEMMA OthersKeep ==
  ASSUME IInv, Access \/ Pipe \/ Fork \/ Fail \/ Relay \/ ChildWrites \/ ChildEnds \/ UNCHANGED vars
  PROVE  ScanInv' /\ FoundInv' /\ DecodeInv' /\ SessionAsSent'
<1> DEFINE Stages == {"start", "scan", "found", "decode", "access"}
<1>0. ScanInv /\ FoundInv /\ DecodeInv /\ SessionAsSent  BY DEF IInv
<1>1. CASE Access \/ Pipe \/ Fork \/ Fail
  <2>1. pc' \notin Stages  BY <1>1 DEF Access, Pipe, Fork, Fail
  <2> QED  BY <2>1, Elsewhere
<1>2. CASE Relay
  <2>1. pc' \notin Stages  BY <1>2 DEF Relay
  <2> QED  BY <2>1, Elsewhere
<1>3. CASE ChildWrites \/ ChildEnds \/ UNCHANGED vars
  <2>1. pc = pc' /\ UNCHANGED <<data, buf, scan>>  BY <1>3 DEF ChildWrites, ChildEnds, vars
  <2> QED  BY <1>0, <2>1, Untouched
<1> QED  BY <1>1, <1>2, <1>3

\* The session ubus is asked about is the one the form names, decoded once.
THEOREM SessionIsSent == Spec => []SessionAsSent
<1>1. IInv /\ [Next]_vars => IInv'
  <2> SUFFICES ASSUME IInv, [Next]_vars PROVE IInv'
    OBVIOUS
  <2>1. TypeOK'  BY TypeStep DEF IInv
  <2>2. ScanInv' /\ FoundInv' /\ DecodeInv' /\ SessionAsSent'
    BY DecodeKeeps, OthersKeep DEF Next, Program
  <2> QED  BY <2>1, <2>2 DEF IInv
<1>2. IInv => SessionAsSent  BY DEF IInv
<1> QED  BY <1>1, <1>2, InitIInv, PTL DEF Spec
=============================================================================
