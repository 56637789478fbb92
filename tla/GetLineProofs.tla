---------------------------- MODULE GetLineProofs ----------------------------
(***************************************************************************)
(* For every buffer size and every stream: httpd_get_line stays inside the *)
(* caller's buffer and returns the next line of the stream, and the loop   *)
(* around it implements module LineStream.                                 *)
(***************************************************************************)
EXTENDS GetLine, SeqLemmas

\* What the type invariant says of the read positions.
LEMMA Positions ==
  ASSUME TypeOK
  PROVE  /\ Len(sent) \in Nat /\ pos \in Nat /\ start \in Nat
         /\ start <= pos /\ pos <= Len(sent)
         /\ \A j \in 1 .. Len(sent) : sent[j] \in Byte
         /\ Len(buf) \in Nat
<1>1. sent \in Seq(Byte) /\ pos \in 0..Len(sent) /\ start \in 0..pos
  BY DEF TypeOK
<1>2. Len(sent) \in Nat  BY <1>1, LenProperties
<1>3. \A j \in 1 .. Len(sent) : sent[j] \in Byte  BY <1>1, ElementOfSeq
<1>4. Len(buf) \in Nat  BY LenProperties DEF TypeOK
<1> QED  BY <1>1, <1>2, <1>3, <1>4

\* Storing a byte at a place the loop test allows keeps the buffer's type.
LEMMA StoreType ==
  ASSUME TypeOK, NEW b \in {LF} \cup Other, Len(buf) < Size - 1, Store(b)
  PROVE  /\ buf' \in Seq({LF} \cup Other) /\ Len(buf') = Len(buf) + 1
         /\ Len(buf') <= Size - 1 /\ pc' \in Locations
<1>1. buf \in Seq({LF} \cup Other)  BY DEF TypeOK
<1>2. /\ buf' = Append(buf, b) /\ pc' \in Locations
  BY DEF Store, Locations
<1>3. buf' \in Seq({LF} \cup Other) /\ Len(buf') = Len(buf) + 1
  BY <1>1, <1>2, AppendProperties
<1>4. Len(buf) \in Nat  BY Positions
<1> QED  BY <1>2, <1>3, <1>4, LineAssumption

\* The next line stays the next line while more bytes arrive.
LEMMA NextLineArrive ==
  ASSUME TypeOK, NEW b \in Byte, ~eof, sent' = Append(sent, b),
         UNCHANGED <<eof, start, buf, pos>>, LS!IsNextLine(buf, pos)
  PROVE  LS!IsNextLine(buf, pos)'
<1>0. /\ Len(sent) \in Nat /\ pos \in Nat /\ start \in Nat
      /\ start <= pos /\ pos <= Len(sent)
      /\ sent \in Seq(Byte)
  BY Positions DEF TypeOK
<1>1. /\ sent' \in Seq(Byte) /\ Len(sent') = Len(sent) + 1
      /\ \A i \in 1 .. Len(sent) : sent'[i] = sent[i]
  BY AppendProperties DEF TypeOK
<1>2. \A n \in start .. Len(sent) : SubSeq(sent', start+1, n) = SubSeq(sent, start+1, n)
  BY PieceOfAppend, <1>0 DEF TypeOK
<1>3. \A n \in start .. Len(sent) : LS!Plain(start+1, n) => LS!Plain(start+1, n)'
  BY <1>1, <1>0 DEF LS!Plain, LS!IsEnd
<1>4. CASE LS!EndsWithLF(buf, pos)
  <2>1. PICK k \in start+1 .. Len(sent) :
           /\ k - start < Size /\ LS!Plain(start+1, k-1) /\ sent[k] = LF
           /\ buf = Append(SubSeq(sent, start+1, k-1), LF) /\ pos = k
    BY <1>4 DEF LS!EndsWithLF
  <2>2. k \in Nat /\ k \in 1 .. pos /\ k \in start+1 .. Len(sent') /\ k-1 \in start .. pos
    BY <1>0, <1>1, <2>1
  <2>3. sent'[k] = LF /\ LS!Plain(start+1, k-1)'
        /\ buf' = Append(SubSeq(sent', start+1, k-1), LF)
    BY <1>0, <1>1, <1>2, <1>3, <2>1, <2>2
  <2>4. LS!EndsWithLF(buf, pos)'
    BY <2>1, <2>2, <2>3 DEF LS!EndsWithLF
  <2> QED  BY <2>4 DEF LS!IsNextLine
<1>5. CASE LS!EndsWithCR(buf, pos)
  <2>1. PICK k \in start+1 .. Len(sent) :
           /\ k - start < Size /\ LS!Plain(start+1, k-1) /\ sent[k] = CR
           /\ buf = Append(SubSeq(sent, start+1, k-1), LF)
           /\ \/ k < Len(sent) /\ sent[k+1] = LF /\ pos = k + 1
              \/ k < Len(sent) /\ sent[k+1] # LF /\ pos = k
              \/ k = Len(sent) /\ eof /\ pos = k
    BY <1>5 DEF LS!EndsWithCR
  <2>2. k \in Nat /\ k < Len(sent) /\ k + 1 \in 1 .. Len(sent) /\ k \in 1 .. Len(sent)
        /\ k \in start+1 .. Len(sent') /\ k < Len(sent') /\ k-1 \in start .. Len(sent)
    BY <1>0, <1>1, <2>1
  <2>3. sent'[k] = CR /\ LS!Plain(start+1, k-1)'
        /\ buf' = Append(SubSeq(sent', start+1, k-1), LF)
    BY <1>0, <1>1, <1>2, <1>3, <2>1, <2>2
  <2>4. \/ sent'[k+1] = LF /\ pos' = k + 1
        \/ sent'[k+1] # LF /\ pos' = k
    BY <1>0, <1>1, <2>1, <2>2
  <2>5. LS!EndsWithCR(buf, pos)'
    BY <2>1, <2>2, <2>3, <2>4 DEF LS!EndsWithCR
  <2> QED  BY <2>5 DEF LS!IsNextLine
<1>6. CASE LS!FillsBuffer(buf, pos)
  <2>1. LS!FillsBuffer(buf, pos)'
    BY <1>1, <1>2, <1>3, <1>6, <1>0 DEF LS!FillsBuffer
  <2> QED  BY <2>1 DEF LS!IsNextLine
<1>7. CASE LS!CutByEnd(buf, pos)
  BY <1>7 DEF LS!CutByEnd
<1> QED  BY <1>4, <1>5, <1>6, <1>7 DEF LS!IsNextLine

\* It stays so when the client closes the connection.
LEMMA NextLineShut ==
  ASSUME TypeOK, ~eof, eof', UNCHANGED <<sent, start, buf, pos>>,
         LS!IsNextLine(buf, pos)
  PROVE  LS!IsNextLine(buf, pos)'
<1>1. LS!EndsWithLF(buf, pos) => LS!EndsWithLF(buf, pos)'
  BY DEF LS!EndsWithLF, LS!Plain
<1>2. LS!EndsWithCR(buf, pos) => LS!EndsWithCR(buf, pos)'
  BY DEF LS!EndsWithCR, LS!Plain
<1>3. LS!FillsBuffer(buf, pos) => LS!FillsBuffer(buf, pos)'
  BY DEF LS!FillsBuffer, LS!Plain
<1>4. ~LS!CutByEnd(buf, pos)  BY DEF LS!CutByEnd
<1> QED  BY <1>1, <1>2, <1>3, <1>4 DEF LS!IsNextLine

\* And when the bytes behind it are lost with the connection.
LEMMA NextLineReset ==
  ASSUME TypeOK, NEW n \in pos .. Len(sent), sent' = SubSeq(sent, 1, n),
         eof' = TRUE, UNCHANGED <<start, buf, pos>>, LS!IsNextLine(buf, pos)
  PROVE  LS!IsNextLine(buf, pos)'
<1>0. /\ Len(sent) \in Nat /\ pos \in Nat /\ start \in Nat
      /\ start <= pos /\ pos <= Len(sent)
      /\ sent \in Seq(Byte) /\ n \in Nat /\ pos <= n /\ n <= Len(sent)
  BY Positions DEF TypeOK
<1>1. /\ Len(sent') = n /\ \A i \in 1 .. n : sent'[i] = sent[i]
      /\ \A m \in start .. n : SubSeq(sent', start+1, m) = SubSeq(sent, start+1, m)
  <2>1. /\ SubSeq(sent, 1, n) \in Seq(Byte) /\ Len(SubSeq(sent, 1, n)) = n
        /\ \A i \in 1 .. n : SubSeq(sent, 1, n)[i] = sent[i]
    <3>1. 1 \in Nat \ {0} /\ 0 \in Nat /\ 0 <= n /\ 1 <= 0 + 1  BY <1>0
    <3> QED  BY <3>1, PieceOfPrefix, <1>0 DEF TypeOK
  <2>2. \A m \in start .. n :
           SubSeq(SubSeq(sent, 1, n), start+1, m) = SubSeq(sent, start+1, m)
    BY PieceOfPrefix, <1>0 DEF TypeOK
  <2> QED  BY <2>1, <2>2
<1>2. \A m \in start .. n : LS!Plain(start+1, m) => LS!Plain(start+1, m)'
  BY <1>1, <1>0 DEF LS!Plain, LS!IsEnd
<1>3. CASE LS!EndsWithLF(buf, pos)
  <2>1. PICK k \in start+1 .. Len(sent) :
           /\ k - start < Size /\ LS!Plain(start+1, k-1) /\ sent[k] = LF
           /\ buf = Append(SubSeq(sent, start+1, k-1), LF) /\ pos = k
    BY <1>3 DEF LS!EndsWithLF
  <2>2. k \in Nat /\ k \in 1 .. pos /\ k \in start+1 .. Len(sent') /\ k-1 \in start .. pos
    BY <1>0, <1>1, <2>1
  <2>3. sent'[k] = LF /\ LS!Plain(start+1, k-1)'
        /\ buf' = Append(SubSeq(sent', start+1, k-1), LF)
    BY <1>0, <1>1, <1>2, <2>1, <2>2
  <2>4. LS!EndsWithLF(buf, pos)'
    BY <2>1, <2>2, <2>3 DEF LS!EndsWithLF
  <2> QED  BY <2>4 DEF LS!IsNextLine
<1>4. CASE LS!EndsWithCR(buf, pos)
  <2>1. PICK k \in start+1 .. Len(sent) :
           /\ k - start < Size /\ LS!Plain(start+1, k-1) /\ sent[k] = CR
           /\ buf = Append(SubSeq(sent, start+1, k-1), LF)
           /\ \/ k < Len(sent) /\ sent[k+1] = LF /\ pos = k + 1
              \/ k < Len(sent) /\ sent[k+1] # LF /\ pos = k
              \/ k = Len(sent) /\ eof /\ pos = k
    BY <1>4 DEF LS!EndsWithCR
  <2>2. k \in Nat /\ k <= pos /\ k \in 1 .. pos /\ k \in start+1 .. Len(sent')
    BY <1>1, <2>1, <1>0
  <2>3. sent'[k] = CR /\ LS!Plain(start+1, k-1)'
        /\ buf' = Append(SubSeq(sent', start+1, k-1), LF)
    BY <1>1, <1>2, <2>1, <2>2, <1>0
  <2>4. \/ k < Len(sent') /\ sent'[k+1] = LF /\ pos' = k + 1
        \/ k < Len(sent') /\ sent'[k+1] # LF /\ pos' = k
        \/ k = Len(sent') /\ eof' /\ pos' = k
    <3>1. CASE k + 1 <= n
      <4>1. k + 1 \in 1 .. n /\ k < Len(sent)  BY <1>0, <2>2, <3>1
      <4>2. sent'[k+1] = sent[k+1] /\ k < Len(sent')  BY <1>1, <4>1, <2>2
      <4> QED  BY <1>0, <2>1, <2>2, <4>1, <4>2
    <3>2. CASE n < k + 1
      <4>1. k = n /\ pos = k  BY <1>0, <2>1, <2>2, <3>2
      <4> QED  BY <1>1, <4>1
    <3>3. k + 1 <= n \/ n < k + 1  BY <1>0, <2>2
    <3> QED  BY <3>1, <3>2, <3>3
  <2>5. LS!EndsWithCR(buf, pos)'
    BY <2>1, <2>2, <2>3, <2>4 DEF LS!EndsWithCR
  <2> QED  BY <2>5 DEF LS!IsNextLine
<1>5. CASE LS!FillsBuffer(buf, pos)
  <2>1. LS!FillsBuffer(buf, pos)'
    BY <1>1, <1>2, <1>5, <1>0 DEF LS!FillsBuffer
  <2> QED  BY <2>1 DEF LS!IsNextLine
<1>6. CASE LS!CutByEnd(buf, pos)
  <2>1. pos = Len(sent) /\ n = pos  BY <1>0, <1>6 DEF LS!CutByEnd
  <2>2. LS!CutByEnd(buf, pos)'
    BY <1>1, <1>2, <1>6, <2>1, <1>0 DEF LS!CutByEnd
  <2> QED  BY <2>2 DEF LS!IsNextLine
<1> QED  BY <1>3, <1>4, <1>5, <1>6 DEF LS!IsNextLine

\* A carriage return ends a line, whatever comes after it: the newline stored
\* for it always fits.
LEMMA StoreCRLine ==
  ASSUME IInv, pc \in {"peek", "skip"}, Store(LF),
         UNCHANGED <<sent, eof, start, lines>>,
         \/ pos < Len(sent) /\ sent[pos+1] = LF /\ pos' = pos + 1
         \/ pos < Len(sent) /\ sent[pos+1] # LF /\ pos' = pos
         \/ pos = Len(sent) /\ eof /\ pos' = pos
  PROVE  IInv'
<1>0. /\ Len(sent) \in Nat /\ pos \in Nat /\ start \in Nat
      /\ start <= pos /\ pos <= Len(sent)
  BY Positions DEF IInv
<1>1. /\ start < pos /\ sent[pos] = CR
      /\ buf = SubSeq(sent, start+1, pos-1) /\ LS!Plain(start+1, pos-1)
      /\ pos - start < Size
  BY DEF IInv, InCall
<1>2. Len(buf) = pos - 1 - start
  <2>1. Len(buf) = (pos - 1) - (start + 1) + 1
    BY <1>0, <1>1, PieceProperties DEF IInv, TypeOK
  <2> QED  BY <1>0, <2>1
<1>3. Len(buf) < Size - 1  BY <1>0, <1>1, <1>2, LineAssumption
<1>4. /\ buf' \in Seq({LF} \cup Other) /\ Len(buf') <= Size - 1 /\ pc' \in Locations
  BY <1>3, StoreType DEF IInv
<1>5. pc' = "return" /\ buf' = Append(buf, LF)
  BY DEF Store
<1>6. pos' \in 0..Len(sent) /\ start \in 0..pos'
  BY <1>0
<1>7. LS!EndsWithCR(buf, pos)'
  <2>1. PICK k \in Nat : k = pos  BY <1>0
  <2>2. k \in start+1 .. Len(sent) /\ k - start < Size  BY <1>0, <1>1, <2>1
  <2>3. LS!Plain(start+1, k-1)'
    BY <1>1, <2>1 DEF LS!Plain
  <2> QED  BY <1>1, <1>5, <2>1, <2>2, <2>3 DEF LS!EndsWithCR
<1>8. TypeOK'
  BY <1>4, <1>6 DEF TypeOK, IInv
<1>9. InCall'
  BY <1>5, <1>7 DEF InCall, LS!IsNextLine
<1> QED  BY <1>8, <1>9 DEF IInv

\* The invariant holds initially: the buffer is empty.
THEOREM IInvInit == Init => IInv
<1> SUFFICES ASSUME Init PROVE IInv
  OBVIOUS
<1>1. TypeOK
  <2>1. /\ sent \in Seq(Byte) /\ buf \in Seq({LF} \cup Other)
        /\ lines \in Seq(Seq({LF} \cup Other)) /\ Len(sent) = 0 /\ Len(buf) = 0
    BY EmptySeq DEF Init
  <2>2. Len(buf) <= Size - 1 /\ pos \in 0..Len(sent) /\ start \in 0..pos
    BY <2>1, LineAssumption DEF Init
  <2> QED  BY <2>1, <2>2 DEF Init, TypeOK, Locations
<1>2. InCall
  <2>1. SubSeq(sent, start+1, pos) = <<>>  BY SubSeqEmpty DEF Init
  <2> QED  BY <2>1, LineAssumption DEF Init, InCall, LS!Plain
<1> QED  BY <1>1, <1>2 DEF IInv

\* Every step of the client and of the server keeps it.
THEOREM IInvStep == IInv /\ [Next]_vars => IInv'
<1> SUFFICES ASSUME IInv, [Next]_vars PROVE IInv'
  OBVIOUS
<1>0. /\ Len(sent) \in Nat /\ pos \in Nat /\ start \in Nat
      /\ start <= pos /\ pos <= Len(sent)
      /\ \A j \in 1 .. Len(sent) : sent[j] \in Byte
      /\ Len(buf) \in Nat
  BY Positions DEF IInv
<1>1. ASSUME NEW b \in Byte, Send(b) PROVE IInv'
  <2>1. /\ sent' \in Seq(Byte) /\ Len(sent') = Len(sent) + 1
        /\ \A i \in 1 .. Len(sent) : sent'[i] = sent[i]
    BY <1>1, AppendProperties DEF Send, IInv, TypeOK
  <2>2. TypeOK'
    BY <1>0, <1>1, <2>1 DEF TypeOK, IInv, Send
  <2>3. \A n \in start .. Len(sent) :
           SubSeq(sent', start+1, n) = SubSeq(sent, start+1, n)
    BY <1>0, <1>1, PieceOfAppend DEF IInv, TypeOK, Send
  <2>4. \A n \in start .. Len(sent) : LS!Plain(start+1, n) => LS!Plain(start+1, n)'
    BY <1>0, <1>1, <2>1 DEF LS!Plain, LS!IsEnd, Send
  <2>5. (pc = "recv" =>
           /\ buf = SubSeq(sent, start+1, pos) /\ LS!Plain(start+1, pos)
           /\ pos - start < Size - 1)'
    BY <1>0, <1>1, <2>3, <2>4 DEF IInv, InCall, Send
  <2>6. (pc \in {"peek", "skip"} =>
           /\ start < pos /\ sent[pos] = CR
           /\ buf = SubSeq(sent, start+1, pos-1) /\ LS!Plain(start+1, pos-1)
           /\ pos - start < Size)'
    <3> SUFFICES ASSUME pc \in {"peek", "skip"}
                 PROVE  /\ start < pos /\ sent'[pos] = CR
                        /\ buf = SubSeq(sent', start+1, pos-1)
                        /\ LS!Plain(start+1, pos-1)'
                        /\ pos - start < Size
      BY <1>1 DEF Send, LS!Plain
    <3>1. /\ start < pos /\ sent[pos] = CR
          /\ buf = SubSeq(sent, start+1, pos-1) /\ LS!Plain(start+1, pos-1)
          /\ pos - start < Size
      BY DEF IInv, InCall
    <3>2. pos - 1 \in start .. Len(sent) /\ pos \in 1 .. Len(sent)  BY <1>0, <3>1
    <3> QED  BY <1>1, <2>1, <2>3, <2>4, <3>1, <3>2 DEF Send
  <2>7. (pc = "skip" => IF pos < Len(sent) THEN sent[pos+1] = LF ELSE eof)'
    BY <1>0, <1>1, <2>1 DEF IInv, InCall, Send
  <2>8. (pc = "return" => LS!IsNextLine(buf, pos))'
    BY <1>1, NextLineArrive DEF IInv, InCall, Send
  <2> QED  BY <2>2, <2>5, <2>6, <2>7, <2>8 DEF IInv, InCall
<1>2. CASE Close
  <2>1. TypeOK'  BY <1>2 DEF Close, IInv, TypeOK
  <2>2. (pc = "return" => LS!IsNextLine(buf, pos))'
    BY <1>2, NextLineShut DEF IInv, InCall, Close
  <2>3. \A n : LS!Plain(start+1, n)' <=> LS!Plain(start+1, n)
    BY <1>2 DEF Close, LS!Plain
  <2> QED  BY <1>2, <2>1, <2>2, <2>3 DEF IInv, InCall, Close
<1>3. CASE Break
  <2>. PICK n \in pos .. Len(sent) : sent' = SubSeq(sent, 1, n)
    BY <1>3 DEF Break
  <2>0. n \in Nat /\ pos <= n /\ n <= Len(sent)  BY <1>0
  <2>1. /\ sent' \in Seq(Byte) /\ Len(sent') = n
        /\ \A i \in 1 .. n : sent'[i] = sent[i]
    <3>1. 1 \in Nat \ {0} /\ 0 \in Nat /\ 0 <= n /\ 1 <= 0 + 1  BY <2>0
    <3> QED  BY <1>0, <1>3, <2>0, <3>1, PieceOfPrefix DEF Break, IInv, TypeOK
  <2>2. TypeOK'  BY <1>0, <1>3, <2>0, <2>1 DEF TypeOK, IInv, Break
  <2>3. \A m \in start .. n :
           SubSeq(sent', start+1, m) = SubSeq(sent, start+1, m)
    BY <1>0, <1>3, <2>0, PieceOfPrefix DEF IInv, TypeOK, Break
  <2>4. \A m \in start .. n : LS!Plain(start+1, m) => LS!Plain(start+1, m)'
    BY <1>0, <1>3, <2>0, <2>1 DEF LS!Plain, LS!IsEnd, Break
  <2>5. (pc = "recv" =>
           /\ buf = SubSeq(sent, start+1, pos) /\ LS!Plain(start+1, pos)
           /\ pos - start < Size - 1)'
    BY <1>0, <1>3, <2>0, <2>3, <2>4 DEF IInv, InCall, Break
  <2>6. (pc \in {"peek", "skip"} =>
           /\ start < pos /\ sent[pos] = CR
           /\ buf = SubSeq(sent, start+1, pos-1) /\ LS!Plain(start+1, pos-1)
           /\ pos - start < Size)'
    <3> SUFFICES ASSUME pc \in {"peek", "skip"}
                 PROVE  /\ start < pos /\ sent'[pos] = CR
                        /\ buf = SubSeq(sent', start+1, pos-1)
                        /\ LS!Plain(start+1, pos-1)'
                        /\ pos - start < Size
      BY <1>3 DEF Break, LS!Plain
    <3>1. /\ start < pos /\ sent[pos] = CR
          /\ buf = SubSeq(sent, start+1, pos-1) /\ LS!Plain(start+1, pos-1)
          /\ pos - start < Size
      BY DEF IInv, InCall
    <3>2. pos - 1 \in start .. n /\ pos \in 1 .. n  BY <1>0, <2>0, <3>1
    <3> QED  BY <1>3, <2>1, <2>3, <2>4, <3>1, <3>2 DEF Break
  <2>7. (pc = "skip" => IF pos < Len(sent) THEN sent[pos+1] = LF ELSE eof)'
    <3>1. pos < n => n \in Nat /\ pos + 1 \in 1 .. n /\ pos < Len(sent)
      BY <1>0, <2>0
    <3>2. pc = "skip" => IF pos < Len(sent) THEN sent[pos+1] = LF ELSE eof
      BY DEF IInv, InCall
    <3>3. pos < n => sent'[pos+1] = sent[pos+1]  BY <2>1, <3>1
    <3>4. pc' = pc /\ pos' = pos /\ eof'  BY <1>3 DEF Break
    <3> QED  BY <2>1, <3>1, <3>2, <3>3, <3>4
  <2>8. (pc = "return" => LS!IsNextLine(buf, pos))'
    BY <1>3, NextLineReset DEF IInv, InCall, Break
  <2> QED  BY <2>2, <2>5, <2>6, <2>7, <2>8 DEF IInv, InCall
<1>4. CASE RecvByte
  <2>1. /\ buf = SubSeq(sent, start+1, pos) /\ LS!Plain(start+1, pos)
        /\ pos - start < Size - 1 /\ pos < Len(sent) /\ pos' = pos + 1
        /\ UNCHANGED <<sent, eof, start, lines>>
    BY <1>4 DEF IInv, InCall, RecvByte
  <2>2. Len(buf) = pos - start
    <3>1. Len(buf) = pos - (start + 1) + 1
      BY <1>0, <2>1, PieceProperties DEF IInv, TypeOK
    <3> QED  BY <1>0, <3>1
  <2>3. \A n : LS!Plain(start+1, n)' <=> LS!Plain(start+1, n)
    BY <2>1 DEF LS!Plain
  <2>4. pos + 1 \in 1 .. Len(sent) /\ sent[pos+1] \in Byte  BY <1>0, <2>1
  <2>5. pos' \in 0..Len(sent) /\ start \in 0..pos'  BY <1>0, <2>1
  <2>6. CASE sent[pos+1] = CR
    <3>1. pc' = "peek" /\ buf' = buf  BY <1>4, <2>6 DEF RecvByte
    <3>2. TypeOK'  BY <2>1, <2>5, <3>1 DEF IInv, TypeOK, Locations
    <3>3. pos' - 1 = pos /\ start < pos' /\ pos' - start < Size
      BY <1>0, <2>1, LineAssumption
    <3>4. InCall'
      BY <2>1, <2>3, <2>6, <3>1, <3>3 DEF InCall
    <3> QED  BY <3>2, <3>4 DEF IInv
  <2>7. CASE sent[pos+1] # CR
    <3> DEFINE b == sent[pos+1]
    <3>1. b \in {LF} \cup Other /\ Store(b)
      BY <1>4, <2>4, <2>7 DEF RecvByte, Byte
    <3>2. Len(buf) < Size - 1  BY <2>1, <2>2
    <3>3. /\ buf' \in Seq({LF} \cup Other) /\ Len(buf') <= Size - 1 /\ pc' \in Locations
      BY <3>1, <3>2, StoreType DEF IInv
    <3>4. TypeOK'  BY <2>1, <2>5, <3>3 DEF IInv, TypeOK
    <3>5. buf' = Append(SubSeq(sent, start+1, pos), b)
      BY <2>1, <3>1 DEF Store
    <3>6. buf' = SubSeq(sent, start+1, pos+1)
      BY <1>0, <2>1, <3>5, PieceGrows DEF IInv, TypeOK
    <3>7. CASE b = LF
      <4>1. pc' = "return"  BY <3>1, <3>7 DEF Store
      <4>2. /\ pos + 1 \in start+1 .. Len(sent) /\ (pos + 1) - start < Size
            /\ (pos + 1) - 1 = pos
        BY <1>0, <2>1, LineAssumption
      <4>3. LS!EndsWithLF(buf, pos)'
        BY <2>1, <2>3, <3>5, <3>7, <4>2 DEF LS!EndsWithLF
      <4>4. InCall'  BY <4>1, <4>3 DEF InCall, LS!IsNextLine
      <4> QED  BY <3>4, <4>4 DEF IInv
    <3>8. CASE b # LF
      <4>1. LS!Plain(start+1, pos+1)
        <5> SUFFICES ASSUME NEW j \in start+1 .. pos+1
                     PROVE  ~LS!IsEnd(sent[j])
          BY DEF LS!Plain
        <5>1. CASE j = pos + 1
          BY <2>7, <3>8, <5>1 DEF LS!IsEnd
        <5>2. CASE j \in start+1 .. pos
          BY <2>1, <5>2 DEF LS!Plain
        <5> QED  BY <1>0, <5>1, <5>2
      <4>2. CASE Len(buf) + 1 < Size - 1
        <5>1. pc' = "recv"  BY <3>1, <3>8, <4>2 DEF Store
        <5>2. pos' - start < Size - 1  BY <1>0, <2>1, <2>2, <4>2
        <5>3. InCall'  BY <2>1, <2>3, <3>6, <4>1, <5>1, <5>2 DEF InCall
        <5> QED  BY <3>4, <5>3 DEF IInv
      <4>3. CASE ~(Len(buf) + 1 < Size - 1)
        <5>1. pc' = "return"  BY <3>1, <4>3 DEF Store
        <5>2. start + Size - 1 = pos + 1
          BY <1>0, <2>1, <2>2, <4>3, LineAssumption
        <5>3. LS!FillsBuffer(buf, pos)'
          BY <1>0, <2>1, <2>3, <3>6, <4>1, <5>2 DEF LS!FillsBuffer
        <5>4. InCall'  BY <5>1, <5>3 DEF InCall, LS!IsNextLine
        <5> QED  BY <3>4, <5>4 DEF IInv
      <4> QED  BY <4>2, <4>3
    <3> QED  BY <3>7, <3>8
  <2> QED  BY <2>6, <2>7
<1>5. CASE RecvEnd
  <2>1. TypeOK'  BY <1>5 DEF RecvEnd, IInv, TypeOK, Locations
  <2>2. /\ buf = SubSeq(sent, start+1, pos) /\ LS!Plain(start+1, pos)
        /\ pos - start < Size - 1 /\ pos = Len(sent) /\ eof
    BY <1>5 DEF IInv, InCall, RecvEnd
  <2>3. LS!CutByEnd(buf, pos)'
    BY <1>0, <1>5, <2>2 DEF RecvEnd, LS!CutByEnd, LS!Plain
  <2>4. InCall'  BY <1>5, <2>3 DEF RecvEnd, InCall, LS!IsNextLine
  <2> QED  BY <2>1, <2>4 DEF IInv
<1>6. CASE Peek
  <2>1. CASE pos < Len(sent) /\ sent[pos+1] = LF
    <3>1. pc' = "skip" /\ UNCHANGED <<sent, eof, pos, start, buf, lines>>
      BY <1>6, <2>1 DEF Peek
    <3>2. TypeOK'  BY <3>1 DEF IInv, TypeOK, Locations
    <3>3. \A n : LS!Plain(start+1, n)' <=> LS!Plain(start+1, n)
      BY <3>1 DEF LS!Plain
    <3>4. InCall'  BY <1>6, <2>1, <3>1, <3>3 DEF IInv, InCall, Peek
    <3> QED  BY <3>2, <3>4 DEF IInv
  <2>2. CASE ~(pos < Len(sent) /\ sent[pos+1] = LF)
    <3>1. /\ pc \in {"peek", "skip"} /\ Store(LF)
          /\ \/ pos < Len(sent) /\ sent[pos+1] # LF /\ pos' = pos
             \/ pos = Len(sent) /\ eof /\ pos' = pos
      BY <1>0, <1>6, <2>2 DEF Peek
    <3>2. UNCHANGED <<sent, eof, start, lines>>  BY <1>6 DEF Peek
    <3> QED  BY <3>1, <3>2, StoreCRLine
  <2> QED  BY <2>1, <2>2
<1>7. CASE SkipLF
  <2>1. /\ pc \in {"peek", "skip"} /\ Store(LF)
        /\ \/ pos < Len(sent) /\ sent[pos+1] = LF /\ pos' = pos + 1
           \/ pos = Len(sent) /\ eof /\ pos' = pos
    BY <1>0, <1>7 DEF SkipLF, IInv, InCall
  <2>2. UNCHANGED <<sent, eof, start, lines>>  BY <1>7 DEF SkipLF
  <2> QED  BY <2>1, <2>2, StoreCRLine
<1>8. CASE Return
  <2>1. /\ UNCHANGED <<sent, eof, pos>> /\ start' = pos /\ buf' = <<>>
        /\ lines' = Append(lines, buf) /\ pc' \in {"idle", "recv"}
    BY <1>8 DEF Return
  <2>2. lines' \in Seq(Seq({LF} \cup Other))
    BY <2>1, AppendProperties DEF IInv, TypeOK
  <2>3. TypeOK'
    BY <1>0, <2>1, <2>2, LineAssumption, EmptySeq DEF IInv, TypeOK, Locations
  <2>4. SubSeq(sent, pos+1, pos) = <<>>  BY <1>0, SubSeqEmpty
  <2>5. InCall'
    BY <1>0, <2>1, <2>4, LineAssumption DEF InCall, LS!Plain
  <2> QED  BY <2>3, <2>5 DEF IInv
<1>9. CASE UNCHANGED vars
  <2>1. TypeOK'  BY <1>9 DEF vars, IInv, TypeOK
  <2>2. \A n : LS!Plain(start+1, n)' <=> LS!Plain(start+1, n)
    BY <1>9 DEF vars, LS!Plain
  <2>3. LS!IsNextLine(buf, pos)' <=> LS!IsNextLine(buf, pos)
    BY <1>9 DEF vars, LS!IsNextLine, LS!EndsWithLF, LS!EndsWithCR,
                LS!FillsBuffer, LS!CutByEnd, LS!Plain
  <2>4. InCall'  BY <1>9, <2>2, <2>3 DEF vars, IInv, InCall
  <2> QED  BY <2>1, <2>4 DEF IInv
<1> QED
  BY <1>1, <1>2, <1>3, <1>4, <1>5, <1>6, <1>7, <1>8, <1>9
  DEF Next, Client, Server

\* httpd_get_line never writes past its caller's buffer, and every variable
\* keeps its type, for every buffer size, every stream and every interleaving
\* of the client's steps with the server's reads.
THEOREM TypeCorrect == Spec => []TypeOK
<1>1. IInv => TypeOK  BY DEF IInv
<1> QED  BY <1>1, IInvInit, IInvStep, PTL DEF Spec

\* A call of httpd_get_line always holds the unterminated bytes it consumed,
\* and when its loop ends it holds the next line of the stream.
THEOREM ReturnsNextLine == Spec => []InCall
<1>1. IInv => InCall  BY DEF IInv
<1> QED  BY <1>1, IInvInit, IInvStep, PTL DEF Spec

\* A returned line is one of the pieces LineStream delivers.
LEMMA LineIsCandidate ==
  ASSUME IInv, LS!IsNextLine(buf, pos)
  PROVE  buf \in LS!Candidates /\ pos \in start .. Len(sent)
<1>0. /\ Len(sent) \in Nat /\ pos \in Nat /\ start \in Nat
      /\ start <= pos /\ pos <= Len(sent)
  BY Positions DEF IInv
<1>1. CASE LS!EndsWithLF(buf, pos) \/ LS!EndsWithCR(buf, pos)
  <2>1. PICK k \in start+1 .. Len(sent) : buf = Append(SubSeq(sent, start+1, k-1), LF)
    BY <1>1 DEF LS!EndsWithLF, LS!EndsWithCR
  <2>2. k - 1 \in start .. Len(sent)  BY <1>0, <2>1
  <2>3. SubSeq(sent, start+1, k-1) \in LS!Pieces  BY <2>2 DEF LS!Pieces
  <2>4. buf \in LS!Candidates  BY <2>1, <2>3, Zenon DEF LS!Candidates
  <2> QED  BY <1>0, <2>4
<1>2. CASE LS!FillsBuffer(buf, pos) \/ LS!CutByEnd(buf, pos)
  <2>1. \/ buf = SubSeq(sent, start+1, start+Size-1) /\ start+Size-1 \in start .. Len(sent)
        \/ buf = SubSeq(sent, start+1, Len(sent)) /\ Len(sent) \in start .. Len(sent)
    BY <1>0, <1>2, LineAssumption DEF LS!FillsBuffer, LS!CutByEnd
  <2>2. buf \in LS!Pieces  BY <2>1 DEF LS!Pieces
  <2> QED  BY <1>0, <2>2 DEF LS!Candidates
<1> QED  BY <1>1, <1>2 DEF LS!IsNextLine

\* The byte-by-byte reader implements the line stream: a step of the reader
\* is a delivered line when a call returns, and a stutter at every other step.
THEOREM GetLineRefines == Spec => Refines
<1>1. Init => LS!Init
  BY DEF Init, LS!Init
<1>2. IInv /\ [Next]_vars => [LS!Next]_(LS!lsVars)
  <2> SUFFICES ASSUME IInv, [Next]_vars
               PROVE  LS!Next \/ UNCHANGED LS!lsVars
    OBVIOUS
  <2>0. /\ Len(sent) \in Nat /\ pos \in Nat /\ start \in Nat
        /\ start <= pos /\ pos <= Len(sent)
    BY Positions DEF IInv
  <2>1. ASSUME NEW b \in Byte, Send(b) PROVE LS!Next
    BY <2>1 DEF Send, LS!Arrive, LS!Next, Byte, LS!Byte
  <2>2. CASE Close
    BY <2>2 DEF Close, LS!Shut, LS!Next
  <2>3. CASE Break
    <3>1. PICK n \in pos .. Len(sent) : sent' = SubSeq(sent, 1, n)
      BY <2>3 DEF Break
    <3>2. n \in start .. Len(sent)  BY <2>0, <3>1
    <3>3. LS!Reset  BY <2>3, <3>1, <3>2 DEF Break, LS!Reset
    <3> QED  BY <3>3 DEF LS!Next
  <2>4. CASE RecvByte
    BY <2>4 DEF RecvByte, Store, LS!lsVars
  <2>5. CASE RecvEnd
    BY <2>5 DEF RecvEnd, LS!lsVars
  <2>6. CASE Peek
    BY <2>6 DEF Peek, Store, LS!lsVars
  <2>7. CASE SkipLF
    BY <2>7 DEF SkipLF, Store, LS!lsVars
  <2>8. CASE Return
    <3>1. LS!IsNextLine(buf, pos)  BY <2>8 DEF IInv, InCall, Return
    <3>2. buf \in LS!Candidates /\ pos \in start .. Len(sent)
      BY <3>1, LineIsCandidate
    <3>3. /\ pc # "idle" /\ UNCHANGED <<sent, eof>>
          /\ lines' = Append(lines, buf) /\ start' = pos
          /\ (pc' = "idle") = (buf \in {<<>>, <<LF>>})
      BY <2>8 DEF Return
    <3>4. LS!Deliver  BY <3>1, <3>2, <3>3 DEF LS!Deliver
    <3> QED  BY <3>4 DEF LS!Next
  <2>9. CASE UNCHANGED vars
    BY <2>9 DEF vars, LS!lsVars
  <2> QED
    BY <2>1, <2>2, <2>3, <2>4, <2>5, <2>6, <2>7, <2>8, <2>9
    DEF Next, Client, Server
<1> QED  BY <1>1, <1>2, IInvInit, IInvStep, PTL DEF Spec, LS!Spec, Refines

---------------------------------------------------------------------------
(* Where the caller's loop ends.                                           *)

\* What comes before the current call's first byte: nothing, a whole
\* terminator, a line that filled the buffer, or the end of the stream.
Before ==
  \/ start = 0
  \/ start > 0 /\ sent[start] = LF
  \/ start > 0 /\ sent[start] = CR /\ (IF start < Len(sent) THEN sent[start+1] # LF ELSE eof)
  \/ lines # <<>> /\ Len(lines[Len(lines)]) = Size - 1
  \/ eof /\ start = Len(sent)

LoopInv == IInv /\ Before /\ HeaderLoopEnd

\* A line that has been returned is followed by the next one's first byte.
LEMMA BeforeReturn == IInv /\ Return => Before'
<1> SUFFICES ASSUME IInv, Return PROVE Before'
  OBVIOUS
<1>0. /\ Len(sent) \in Nat /\ pos \in Nat /\ start \in Nat
      /\ start <= pos /\ pos <= Len(sent)
  BY Positions DEF IInv
<1>1. /\ lines' = Append(lines, buf) /\ start' = pos /\ UNCHANGED <<sent, eof>>
      /\ LS!IsNextLine(buf, pos)
  BY DEF Return, IInv, InCall
<1>2. CASE LS!EndsWithLF(buf, pos)
  BY <1>0, <1>1, <1>2 DEF LS!EndsWithLF, Before
<1>3. CASE LS!EndsWithCR(buf, pos)
  BY <1>0, <1>1, <1>3 DEF LS!EndsWithCR, Before
<1>4. CASE LS!FillsBuffer(buf, pos)
  <2>1. Len(buf) = Size - 1
    <3>1. PICK e \in Nat : e = start + Size - 1
      BY <1>0, LineAssumption
    <3>2. /\ start + 1 \in Nat \ {0} /\ e <= Len(sent) /\ start + 1 <= e + 1
          /\ buf = SubSeq(sent, start + 1, e)
      BY <1>0, <1>4, <3>1, LineAssumption DEF LS!FillsBuffer
    <3>3. Len(buf) = e - (start + 1) + 1
      BY <3>2, PieceProperties DEF IInv, TypeOK
    <3> QED  BY <1>0, <3>1, <3>3, LineAssumption
  <2>2. /\ Len(lines') = Len(lines) + 1 /\ lines'[Len(lines) + 1] = buf /\ Len(lines) \in Nat
        /\ lines' \in Seq(Seq({LF} \cup Other))
    BY <1>1, AppendProperties, LenProperties DEF IInv, TypeOK
  <2>3. lines' # <<>>  BY <2>2, EmptySeq
  <2> QED  BY <2>1, <2>2, <2>3 DEF Before
<1>5. CASE LS!CutByEnd(buf, pos)
  BY <1>1, <1>5 DEF LS!CutByEnd, Before
<1> QED  BY <1>1, <1>2, <1>3, <1>4, <1>5 DEF LS!IsNextLine

\* The client's steps leave what has been consumed as it is.
LEMMA ClientKeeps ==
  ASSUME IInv, Client
  PROVE  /\ UNCHANGED <<pos, start, lines, pc>> /\ (eof => eof')
         /\ Len(sent') \in Nat /\ pos <= Len(sent') /\ (eof => Len(sent') <= Len(sent))
         /\ \A i \in 1 .. pos : sent'[i] = sent[i]
         /\ \A i \in 1 .. Len(sent) : i \in 1 .. Len(sent') => sent'[i] = sent[i]
         /\ Len(sent') < Len(sent) => eof'
<1>0. /\ Len(sent) \in Nat /\ pos \in Nat /\ start \in Nat
      /\ start <= pos /\ pos <= Len(sent)
  BY Positions DEF IInv
<1>1. ASSUME NEW b \in Byte, Send(b)
      PROVE  /\ Len(sent') = Len(sent) + 1 /\ ~eof
             /\ \A i \in 1 .. Len(sent) : sent'[i] = sent[i]
             /\ UNCHANGED <<eof, pos, start, lines, pc>>
  BY <1>1, AppendProperties DEF Send, IInv, TypeOK
<1>2. ASSUME Break
      PROVE  \E n \in pos .. Len(sent) : /\ Len(sent') = n /\ eof'
                                         /\ \A i \in 1 .. n : sent'[i] = sent[i]
                                         /\ UNCHANGED <<pos, start, lines, pc>>
  <2>1. PICK n \in pos .. Len(sent) : sent' = SubSeq(sent, 1, n)
    BY <1>2 DEF Break
  <2>2. n \in Nat /\ n <= Len(sent) /\ 1 \in Nat \ {0} /\ 0 \in Nat /\ 0 <= n /\ 1 <= 0 + 1
    BY <1>0, <2>1
  <2>3. Len(sent') = n /\ \A i \in 1 .. n : sent'[i] = sent[i]
    BY <2>1, <2>2, PieceOfPrefix DEF IInv, TypeOK
  <2> QED  BY <1>2, <2>3 DEF Break
<1>3. CASE \E b \in Byte : Send(b)  BY <1>0, <1>1, <1>3
<1>4. CASE Close  BY <1>0, <1>4 DEF Close
<1>5. CASE Break  BY <1>0, <1>2, <1>5
<1> QED  BY <1>3, <1>4, <1>5 DEF Client

\* An empty line ends where a call returns it right after a terminator.
LEMMA EmptyLineReturned ==
  ASSUME IInv, Before, Return, pc' = "idle"
  PROVE  HeaderLoopEnd'
<1>0. /\ Len(sent) \in Nat /\ pos \in Nat /\ start \in Nat
      /\ start <= pos /\ pos <= Len(sent)
  BY Positions DEF IInv
<1>1. /\ lines' = Append(lines, buf) /\ UNCHANGED <<sent, eof, pos>>
      /\ LS!IsNextLine(buf, pos) /\ buf \in {<<>>, <<LF>>}
  BY DEF Return, IInv, InCall
<1>2. CASE lines # <<>> /\ Len(lines[Len(lines)]) = Size - 1
  <2>1. /\ Len(lines') = Len(lines) + 1 /\ Len(lines) \in Nat /\ Len(lines) > 0
        /\ \A i \in 1 .. Len(lines) : lines'[i] = lines[i]
    BY <1>1, <1>2, AppendProperties, LenProperties, EmptySeq DEF IInv, TypeOK
  <2> QED  BY <1>2, <2>1 DEF HeaderLoopEnd
<1>3. CASE LS!CutByEnd(buf, pos)
  BY <1>1, <1>3 DEF LS!CutByEnd, HeaderLoopEnd
<1>4. ~LS!FillsBuffer(buf, pos)
  <2> SUFFICES ASSUME LS!FillsBuffer(buf, pos) PROVE FALSE
    OBVIOUS
  <2>1. PICK e \in Nat : e = start + Size - 1
    BY <1>0, LineAssumption
  <2>2. /\ start + 1 \in Nat \ {0} /\ e <= Len(sent) /\ start + 1 <= e + 1
        /\ buf = SubSeq(sent, start + 1, e)
    BY <1>0, <2>1, LineAssumption DEF LS!FillsBuffer
  <2>3. Len(buf) >= 1 /\ buf[1] = sent[start + 1]
    <3>1. /\ Len(buf) = e - (start + 1) + 1
          /\ \A i \in 1 .. e - (start + 1) + 1 : buf[i] = sent[start + 1 + i - 1]
      BY <2>2, PieceProperties DEF IInv, TypeOK
    <3>2. 1 \in 1 .. e - (start + 1) + 1  BY <1>0, <2>1, LineAssumption
    <3> QED  BY <1>0, <2>1, <3>1, <3>2, LineAssumption
  <2>4. buf = <<LF>>  BY <1>1, <2>3
  <2> QED  BY <1>0, <2>3, <2>4, LineAssumption DEF LS!FillsBuffer, LS!Plain, LS!IsEnd
<1>5. CASE ~(lines # <<>> /\ Len(lines[Len(lines)]) = Size - 1)
           /\ (LS!EndsWithLF(buf, pos) \/ LS!EndsWithCR(buf, pos))
  <2>1. PICK k \in start+1 .. Len(sent) :
           /\ buf = Append(SubSeq(sent, start+1, k-1), LF)
           /\ \/ sent[k] = LF /\ pos = k
              \/ sent[k] = CR /\ pos = k
              \/ sent[k] = CR /\ k < Len(sent) /\ sent[k+1] = LF /\ pos = k + 1
    BY <1>5 DEF LS!EndsWithLF, LS!EndsWithCR
  <2>2. k = start + 1
    <3>1. /\ start + 1 \in Nat \ {0} /\ k - 1 \in Nat /\ k - 1 <= Len(sent) /\ start + 1 <= k - 1 + 1
      BY <1>0, <2>1
    <3>2. /\ SubSeq(sent, start+1, k-1) \in Seq(Byte)
          /\ Len(SubSeq(sent, start+1, k-1)) = k - 1 - (start + 1) + 1
      BY <3>1, PieceProperties DEF IInv, TypeOK
    <3>3. Len(buf) = k - 1 - (start + 1) + 1 + 1
      BY <2>1, <3>2, AppendProperties DEF Byte
    <3>4. Len(buf) \in {0, 1}  BY <1>1
    <3> QED  BY <1>0, <2>1, <3>3, <3>4
  <2>3. start > 0 => sent[start] = LF \/ (sent[start] = CR /\ sent[start+1] # LF)
    BY <1>0, <1>5, <2>1, <2>2 DEF Before
  <2>4. EmptyLineEndsAt(pos)
    <3>1. CASE pos = k /\ sent[k] = LF
      BY <1>0, <2>2, <2>3, <3>1, LineAssumption DEF EmptyLineEndsAt, IsEnd
    <3>2. CASE pos = k /\ sent[k] = CR
      BY <1>0, <2>2, <2>3, <3>2, LineAssumption DEF EmptyLineEndsAt, IsEnd
    <3>3. CASE pos = k + 1 /\ sent[k] = CR /\ sent[k+1] = LF
      BY <1>0, <2>2, <2>3, <3>3, LineAssumption DEF EmptyLineEndsAt, IsEnd
    <3> QED  BY <2>1, <3>1, <3>2, <3>3
  <2>5. EmptyLineEndsAt(pos)'  BY <1>1, <2>4 DEF EmptyLineEndsAt
  <2> QED  BY <2>5 DEF HeaderLoopEnd
<1> QED  BY <1>1, <1>2, <1>3, <1>4, <1>5 DEF LS!IsNextLine

\* The caller's loop ends at an empty line, at the end of the stream, or at
\* the terminator of a line whose bytes before it filled the buffer exactly.
THEOREM LoopEndsAtHeaders == Spec => []HeaderLoopEnd
<1>1. Init => LoopInv
  BY IInvInit DEF Init, LoopInv, Before, HeaderLoopEnd
<1>2. LoopInv /\ [Next]_vars => LoopInv'
  <2> SUFFICES ASSUME LoopInv, [Next]_vars PROVE Before' /\ HeaderLoopEnd'
    BY IInvStep DEF LoopInv
  <2>0. /\ Len(sent) \in Nat /\ pos \in Nat /\ start \in Nat
        /\ start <= pos /\ pos <= Len(sent) /\ IInv
    BY Positions DEF IInv, LoopInv
  <2>1. CASE Client
    <3>1. /\ UNCHANGED <<pos, start, lines, pc>> /\ (eof => eof')
          /\ Len(sent') \in Nat /\ pos <= Len(sent') /\ (eof => Len(sent') <= Len(sent))
          /\ \A i \in 1 .. pos : sent'[i] = sent[i]
          /\ \A i \in 1 .. Len(sent) : i \in 1 .. Len(sent') => sent'[i] = sent[i]
          /\ Len(sent') < Len(sent) => eof'
      BY <2>0, <2>1, ClientKeeps
    <3>2. Before'  BY <2>0, <3>1 DEF LoopInv, Before
    <3>3. EmptyLineEndsAt(pos) => EmptyLineEndsAt(pos)'
      BY <2>0, <3>1 DEF EmptyLineEndsAt, IsEnd
    <3>4. HeaderLoopEnd'  BY <2>0, <3>1, <3>3 DEF LoopInv, HeaderLoopEnd
    <3> QED  BY <3>2, <3>4
  <2>2. CASE RecvByte \/ RecvEnd \/ Peek \/ SkipLF
    <3>1. UNCHANGED <<sent, eof, start, lines>> /\ pc' # "idle"
      BY <2>2 DEF RecvByte, RecvEnd, Peek, SkipLF, Store
    <3> QED  BY <3>1 DEF LoopInv, Before, HeaderLoopEnd
  <2>3. CASE Return
    <3>1. Before'  BY <2>0, <2>3, BeforeReturn
    <3>2. HeaderLoopEnd'
      BY <2>0, <2>3, EmptyLineReturned DEF LoopInv, HeaderLoopEnd
    <3> QED  BY <3>1, <3>2
  <2>4. CASE UNCHANGED vars
    BY <2>4 DEF vars, LoopInv, Before, HeaderLoopEnd, EmptyLineEndsAt
  <2> QED  BY <2>1, <2>2, <2>3, <2>4 DEF Next, Server
<1>3. LoopInv => HeaderLoopEnd  BY DEF LoopInv
<1> QED  BY <1>1, <1>2, <1>3, PTL DEF Spec
=============================================================================
