------------------------- MODULE RequestHeadProofs -------------------------
(***************************************************************************)
(* For every request line and every header line that fits the buffer, of   *)
(* any bytes and any length, and whatever the sizes of the arrays: the     *)
(* loops stay inside their arrays, the path, the query and the choice of a *)
(* script are what the line's second word says, and the Content-Length is  *)
(* the number the last such line holds.                                    *)
(***************************************************************************)
EXTENDS RequestHead, SeqLemmas

---------------------------------------------------------------------------
(* What the proofs need of the constants.                                  *)

Space == {LF, Blank}

LEMMA Sizes ==
  /\ BufSize \in Nat /\ MethodSize \in Nat /\ UrlSize \in Nat /\ EnvSize \in Nat /\ EnvName \in Nat
  /\ 2 < MethodSize /\ MethodSize < BufSize /\ 1 < UrlSize /\ UrlSize < BufSize
  /\ EnvName < EnvSize /\ MaxHeaders \in Nat
BY Zenon, RequestAssumption

LEMMA Letters ==
  /\ NUL \notin Space /\ GET \notin Space /\ POST \notin Space
  /\ GET # NUL /\ POST # NUL /\ GET # POST
  /\ Space \subseteq Byte /\ NUL \in Byte /\ GET \in Byte /\ POST \in Byte
BY Zenon, RequestAssumption DEF Space, Byte

\* The blanks are IsSpace's.
LEMMA Spaces == \A b : IsSpace(b) <=> b \in Space
BY DEF IsSpace, Space

---------------------------------------------------------------------------
(* Strings in the buffers.                                                 *)

\* What is before the first NUL.
LEMMA CStringIs ==
  ASSUME NEW s \in Seq(Byte), NEW n \in 0 .. Len(s),
         \A k \in 1 .. n : s[k] # NUL, n = Len(s) \/ s[n + 1] = NUL
  PROVE  /\ CString(s) = SubSeq(s, 1, n) /\ CString(s) \in Seq(Byte) /\ Len(CString(s)) = n
         /\ \A k \in 1 .. n : CString(s)[k] = s[k]
<1>0. Len(s) \in Nat  BY LenProperties
<1>1. (\A k \in 1 .. n : s[k] \notin {NUL}) /\ (n = Len(s) \/ s[n + 1] \in {NUL})  OBVIOUS
<1>2. UpTo(s, {NUL}) = SubSeq(s, 1, n)  BY <1>1, UpToIs
<1> DEFINE t == SubSeq(s, 1, n)
<1>3. t \in Seq(Byte) /\ Len(t) = n - 1 + 1 /\ \A i \in 1 .. n - 1 + 1 : t[i] = s[1 + i - 1]
  BY <1>0, PieceProperties
<1>4. CString(s) = t  BY <1>2 DEF CString
<1> HIDE DEF t
<1>5. CString(s) \in Seq(Byte) /\ Len(CString(s)) = n /\ \A k \in 1 .. n : CString(s)[k] = s[k]
  BY <1>3, <1>4
<1> QED  BY <1>4, <1>5 DEF t

\* Every sequence of bytes has such a place.
LEMMA CStringOf ==
  ASSUME NEW s \in Seq(Byte)
  PROVE  \E n \in 0 .. Len(s) :
           /\ \A k \in 1 .. n : s[k] # NUL
           /\ n = Len(s) \/ s[n + 1] = NUL
           /\ CString(s) \in Seq(Byte) /\ Len(CString(s)) = n
           /\ \A k \in 1 .. n : CString(s)[k] = s[k]
<1>1. PICK n \in 0 .. Len(s) :
        /\ UpTo(s, {NUL}) = SubSeq(s, 1, n)
        /\ \A k \in 1 .. n : s[k] \notin {NUL}
        /\ n = Len(s) \/ s[n + 1] \in {NUL}
  BY UpToProperties
<1>2. (\A k \in 1 .. n : s[k] # NUL) /\ (n = Len(s) \/ s[n + 1] = NUL)  BY <1>1
<1> QED  BY <1>2, CStringIs

\* The buffer is a sequence of bytes.
BufType == buf \in [1..BufSize -> Byte]

LEMMA BufString == BufType => buf \in Seq(Byte) /\ Len(buf) = BufSize
BY Sizes, IsASeq, LenProperties DEF BufType

\* The request line in it: where it ends there are NULs only.
End == Len(CString(buf))
LineKept ==
  /\ End \in 0 .. BufSize - 1
  /\ \A k \in 1 .. End : buf[k] # NUL
  /\ \A k \in End + 1 .. BufSize : buf[k] = NUL

LEMMA LineIs ==
  ASSUME BufType, NEW n \in 0 .. BufSize - 1,
         \A k \in 1 .. n : buf[k] # NUL, \A k \in n + 1 .. BufSize : buf[k] = NUL
  PROVE  LineKept /\ End = n
<1>1. buf \in Seq(Byte) /\ Len(buf) = BufSize  BY BufString
<1>2. n \in 0 .. Len(buf) /\ buf[n + 1] = NUL  BY <1>1, Sizes
<1>3. End = n  BY <1>1, <1>2, CStringIs DEF End
<1> QED  BY <1>3 DEF LineKept

\* The text of the line has its bytes.
LEMMA TextIs ==
  ASSUME BufType, LineKept
  PROVE  /\ CString(buf) \in Seq(Byte) /\ Len(CString(buf)) = End
         /\ \A k \in 1 .. End : CString(buf)[k] = buf[k]
<1>1. buf \in Seq(Byte) /\ Len(buf) = BufSize  BY BufString
<1> QED  BY <1>1, CStringOf DEF End

---------------------------------------------------------------------------
(* The request line's words.  The first is one byte long, the places up to *)
(* s are blank as far as the line goes.                                    *)

FirstWord == 1 <= End /\ ~IsSpace(buf[1]) /\ (End = 1 \/ IsSpace(buf[2]))
Skipped(s) == s \in 1 .. BufSize - 1 /\ \A k \in 2 .. s : k <= End => IsSpace(buf[k])

\* What follows the first word.
LEMMA RestIs ==
  ASSUME BufType, LineKept, FirstWord
  PROVE  LET rest == From(CString(buf), Len(UpTo(CString(buf), {LF, Blank})) + 1) IN
         /\ rest \in Seq(Byte) /\ Len(rest) = End - 1
         /\ \A k \in 1 .. End - 1 : rest[k] = buf[k + 1]
<1> DEFINE text == CString(buf)
<1>1. text \in Seq(Byte) /\ Len(text) = End /\ \A k \in 1 .. End : text[k] = buf[k]  BY TextIs
<1>2. End \in Nat /\ 1 <= End  BY Sizes DEF LineKept, FirstWord
<1> HIDE DEF text
<1>3. UpTo(text, Space) = SubSeq(text, 1, 1)
  <2>1. 1 \in 0 .. Len(text)  BY <1>1, <1>2
  <2>2. \A k \in 1 .. 1 : text[k] \notin Space  BY <1>1, <1>2, Spaces DEF FirstWord
  <2>3. 1 = Len(text) \/ text[1 + 1] \in Space  BY <1>1, <1>2, Spaces DEF FirstWord
  <2> QED  BY <1>1, <2>1, <2>2, <2>3, UpToIs
<1>4. Len(UpTo(text, Space)) = 1  BY <1>1, <1>2, <1>3, PieceProperties
<1>5. PICK m \in Nat \ {0} : m = 2  OBVIOUS
<1>6. /\ From(text, 2) \in Seq(Byte) /\ Len(From(text, 2)) = End - 1
      /\ \A k \in 1 .. End - 1 : From(text, 2)[k] = buf[k + 1]
  <2>1. m <= Len(text) + 1  BY <1>1, <1>2, <1>5
  <2>2. /\ From(text, m) \in Seq(Byte) /\ Len(From(text, m)) = Len(text) - m + 1
        /\ \A k \in 1 .. Len(text) - m + 1 : From(text, m)[k] = text[m + k - 1]
    BY <1>1, <2>1, RestProperties
  <2> QED  BY <1>1, <1>2, <1>5, <2>2
<1>7. From(text, Len(UpTo(text, {LF, Blank})) + 1) = From(text, 2)
  <2>1. UpTo(text, {LF, Blank}) = UpTo(text, Space)  BY DEF Space
  <2>2. Len(UpTo(text, {LF, Blank})) + 1 = 1 + 1  BY <1>4, <2>1
  <2> QED  BY <2>2
<1> QED  BY <1>6, <1>7 DEF text

\* A line without a second word.
LEMMA NoWord ==
  ASSUME BufType, LineKept, FirstWord, NEW s, Skipped(s), s >= End
  PROVE  SecondWord = <<>>
<1> DEFINE rest == From(CString(buf), Len(UpTo(CString(buf), {LF, Blank})) + 1)
           I == {i \in 1..Len(rest) : ~IsSpace(rest[i])}
<1>1. Len(rest) = End - 1 /\ \A k \in 1 .. End - 1 : rest[k] = buf[k + 1]  BY RestIs
<1>2. End \in Nat /\ 1 <= End /\ s \in Nat  BY Sizes DEF LineKept, FirstWord, Skipped
<1>3. I = {}
  <2> SUFFICES ASSUME NEW k \in 1..Len(rest) PROVE IsSpace(rest[k])
    OBVIOUS
  <2> HIDE DEF rest
  <2>1. k \in 1 .. End - 1 /\ k + 1 \in 2 .. s /\ k + 1 <= End  BY <1>1, <1>2
  <2> QED  BY <1>1, <2>1 DEF Skipped
<1>4. SelectInSeq(rest, LAMBDA b : ~IsSpace(b)) = 0  BY <1>3 DEF SelectInSeq
<1>5. Len(<<>>) < UrlSize  BY Sizes
<1> HIDE DEF rest
<1> QED  BY <1>4, <1>5 DEF SecondWord, rest

\* The second word, as far as url has room for it.
LEMMA WordIs ==
  ASSUME BufType, LineKept, FirstWord, NEW s, Skipped(s), s < End, ~IsSpace(buf[s + 1]),
         NEW e \in s + 1 .. End, \A k \in s + 1 .. e : ~IsSpace(buf[k]),
         e = End \/ IsSpace(buf[e + 1])
  PROVE  SecondWord = SubSeq(buf, s + 1, IF e - s < UrlSize THEN e ELSE s + UrlSize - 1)
<1> DEFINE rest == From(CString(buf), Len(UpTo(CString(buf), {LF, Blank})) + 1)
           I == {i \in 1..Len(rest) : ~IsSpace(rest[i])}
           n == SelectInSeq(rest, LAMBDA b : ~IsSpace(b))
           tail == From(rest, s)
           w == UpTo(tail, {LF, Blank})
<1>1. rest \in Seq(Byte) /\ Len(rest) = End - 1 /\ \A k \in 1 .. End - 1 : rest[k] = buf[k + 1]
  BY RestIs
<1>2. End \in Nat /\ 1 <= End /\ s \in Nat /\ 1 <= s /\ End < BufSize
  BY Sizes DEF LineKept, FirstWord, Skipped
<1>0. buf \in Seq(Byte) /\ Len(buf) = BufSize  BY BufString
<1> HIDE DEF rest
<1>3. n = s
  <2>1. n = IF I # {} THEN Min(I) ELSE 0  BY DEF SelectInSeq
  <2>2. I \subseteq 1 .. End - 1  BY <1>1
  <2>3. s \in I
    <3>1. s \in 1 .. End - 1  BY <1>2
    <3> QED  BY <1>1, <3>1
  <2>4. \A k \in I : k >= s
    <3> SUFFICES ASSUME NEW k \in I, k < s PROVE FALSE
      BY <1>2, <2>2
    <3>1. k \in 1 .. End - 1 /\ k + 1 \in 2 .. s /\ k + 1 <= End  BY <1>2, <2>2
    <3> QED  BY <1>1, <3>1 DEF Skipped
  <2> HIDE DEF I, n
  <2>5. End - 1 \in Nat  BY <1>2
  <2>6. /\ n \in 0 .. End - 1 /\ (n = 0 <=> I = {})
        /\ n # 0 => n \in I
        /\ \A k \in I : n <= k
    BY <2>1, <2>2, <2>5, FirstPlace
  <2>7. n \in I  BY <2>3, <2>6
  <2>8. n <= s /\ n >= s  BY <2>3, <2>4, <2>6, <2>7
  <2> QED  BY <1>2, <2>6, <2>8
<1>4. /\ tail \in Seq(Byte) /\ Len(tail) = End - s
      /\ \A k \in 1 .. End - s : tail[k] = buf[s + k]
  <2>1. /\ tail \in Seq(Byte) /\ Len(tail) = Len(rest) - s + 1
        /\ \A k \in 1 .. Len(rest) - s + 1 : tail[k] = rest[s + k - 1]
    BY <1>1, <1>2, RestProperties
  <2> HIDE DEF tail
  <2>2. \A k \in 1 .. End - s : tail[k] = buf[s + k]
    <3> TAKE k \in 1 .. End - s
    <3>1. s + k - 1 \in 1 .. End - 1 /\ k \in 1 .. Len(rest) - s + 1 /\ (s + k - 1) + 1 = s + k
      BY <1>1, <1>2
    <3> QED  BY <1>1, <2>1, <3>1
  <2> QED  BY <1>1, <1>2, <2>1, <2>2
<1>5. w = SubSeq(tail, 1, e - s)
  <2>1. e - s \in 0 .. Len(tail)  BY <1>2, <1>4
  <2>2. \A k \in 1 .. e - s : tail[k] \notin Space
    <3> TAKE k \in 1 .. e - s
    <3>1. s + k \in s + 1 .. e /\ k \in 1 .. End - s  BY <1>2
    <3> QED  BY <1>4, <3>1, Spaces
  <2>3. e - s = Len(tail) \/ tail[e - s + 1] \in Space
    <3>1. CASE e = End  BY <1>4, <3>1
    <3>2. CASE e # End
      <4>1. e - s + 1 \in 1 .. End - s /\ s + (e - s + 1) = e + 1  BY <1>2, <3>2
      <4> QED  BY <1>4, <3>2, <4>1, Spaces
    <3> QED  BY <3>1, <3>2
  <2> HIDE DEF tail
  <2>4. UpTo(tail, Space) = SubSeq(tail, 1, e - s)  BY <1>4, <2>1, <2>2, <2>3, UpToIs
  <2> QED  BY <2>4 DEF Space
<1> HIDE DEF tail
<1>6. w \in Seq(Byte) /\ Len(w) = e - s /\ \A k \in 1 .. e - s : w[k] = buf[s + k]
  <2> DEFINE t == SubSeq(tail, 1, e - s)
  <2>1. t \in Seq(Byte) /\ Len(t) = e - s - 1 + 1 /\ \A k \in 1 .. e - s - 1 + 1 : t[k] = tail[1 + k - 1]
    BY <1>2, <1>4, PieceProperties
  <2>2. w = t  BY <1>5
  <2> HIDE DEF t, w
  <2> QED  BY <1>2, <1>4, <2>1, <2>2
<1>7. SecondWord = IF Len(w) < UrlSize THEN w ELSE SubSeq(w, 1, UrlSize - 1)
  <2>1. n # 0  BY <1>2, <1>3
  <2> QED  BY <1>3, <2>1 DEF SecondWord, rest, tail
<1> HIDE DEF w
<1>8. CASE e - s < UrlSize
  <2>1. SecondWord = w  BY <1>6, <1>7, <1>8
  <2>2. Len(w) = e - (s + 1) + 1 /\ \A k \in 1 .. e - (s + 1) + 1 : w[k] = buf[s + 1 + k - 1]
    BY <1>2, <1>6
  <2>3. s + 1 \in Nat \ {0} /\ e \in Nat /\ e <= Len(buf) /\ s + 1 <= e + 1  BY <1>0, <1>2
  <2>4. w = SubSeq(buf, s + 1, e)  BY <1>0, <1>6, <2>2, <2>3, IsPiece
  <2> QED  BY <1>8, <2>1, <2>4
<1>9. CASE e - s >= UrlSize
  <2>1. SecondWord = SubSeq(w, 1, UrlSize - 1)  BY <1>2, <1>6, <1>7, <1>9, Sizes
  <2> DEFINE t == SubSeq(w, 1, UrlSize - 1)
             f == s + UrlSize - 1
  <2>2. t \in Seq(Byte) /\ Len(t) = UrlSize - 1 - 1 + 1 /\ \A k \in 1 .. UrlSize - 1 - 1 + 1 : t[k] = w[1 + k - 1]
    BY <1>2, <1>6, <1>9, Sizes, PieceProperties
  <2>3. s + 1 \in Nat \ {0} /\ f \in Nat /\ f <= Len(buf) /\ s + 1 <= f + 1  BY <1>0, <1>2, <1>9, Sizes
  <2> HIDE DEF t
  <2>4. Len(t) = f - (s + 1) + 1 /\ \A k \in 1 .. f - (s + 1) + 1 : t[k] = buf[s + 1 + k - 1]
    BY <1>2, <1>6, <1>9, <2>2, Sizes
  <2> HIDE DEF f
  <2>5. t = SubSeq(buf, s + 1, f)  BY <1>0, <2>2, <2>3, <2>4, IsPiece
  <2> QED  BY <1>2, <1>9, <2>1, <2>5, Sizes DEF t, f
<1> QED  BY <1>2, <1>8, <1>9, Sizes

\* What the loop over the URL has copied: the line's bytes from s on.
UrlStart == j - Len(url)
UrlAt ==
  /\ url \in Seq(Byte) /\ Len(url) < UrlSize /\ j \in Nat /\ j <= BufSize
  /\ Skipped(UrlStart) /\ (UrlStart >= End \/ ~IsSpace(buf[UrlStart + 1]))
  /\ \A k \in 1 .. Len(url) : url[k] = buf[UrlStart + k] /\ ~IsSpace(url[k])
UrlStops == Len(url) = UrlSize - 1 \/ j = BufSize \/ IsSpace(buf[j + 1])

\* It is a string that ends where the copy or the line does.
LEMMA UrlText ==
  ASSUME BufType, LineKept, UrlAt, NEW m, UrlStart <= m, m <= End, m \in Nat,
         m = j \/ (m = End /\ m < j)
  PROVE  CString(url) = SubSeq(buf, UrlStart + 1, m)
<1> DEFINE s == UrlStart
<1>0. buf \in Seq(Byte) /\ Len(buf) = BufSize  BY BufString
<1>1. /\ End \in Nat /\ End < BufSize /\ s \in Nat /\ 1 <= s /\ j = s + Len(url) /\ j \in Nat
      /\ url \in Seq(Byte) /\ Len(url) \in Nat /\ \A k \in 1 .. Len(url) : url[k] = buf[s + k]
  BY Sizes, LenProperties DEF LineKept, UrlAt, Skipped, UrlStart
<1> HIDE DEF s
<1>2. m - s \in 0 .. Len(url)  BY <1>1 DEF s
<1>3. \A k \in 1 .. m - s : url[k] # NUL
  <2> TAKE k \in 1 .. m - s
  <2>1. k \in 1 .. Len(url) /\ s + k \in 1 .. End  BY <1>1, <1>2 DEF s
  <2> QED  BY <1>1, <2>1 DEF LineKept
<1>4. m - s = Len(url) \/ url[m - s + 1] = NUL
  <2>1. CASE m = j  BY <1>1, <2>1
  <2>2. CASE m = End /\ m < j
    <3>1. m - s + 1 \in 1 .. Len(url) /\ s + (m - s + 1) = End + 1 /\ End + 1 \in End + 1 .. BufSize
      BY <1>1, <1>2, <2>2, Sizes DEF s
    <3> QED  BY <1>1, <3>1 DEF LineKept
  <2> QED  BY <2>1, <2>2
<1> DEFINE t == CString(url)
<1>5. t \in Seq(Byte) /\ Len(t) = m - s /\ \A k \in 1 .. m - s : t[k] = url[k]
  BY <1>1, <1>2, <1>3, <1>4, CStringIs
<1> HIDE DEF t
<1>6. s + 1 \in Nat \ {0} /\ m \in Nat /\ m <= Len(buf) /\ s + 1 <= m + 1  BY <1>0, <1>1 DEF s
<1>7. Len(t) = m - (s + 1) + 1 /\ \A k \in 1 .. m - (s + 1) + 1 : t[k] = buf[s + 1 + k - 1]
  <2>1. m - (s + 1) + 1 = m - s  BY <1>1
  <2>2. ASSUME NEW k \in 1 .. m - s PROVE t[k] = buf[s + 1 + k - 1]
    <3>1. k \in 1 .. Len(url) /\ s + 1 + k - 1 = s + k  BY <1>1, <1>2
    <3> QED  BY <1>1, <1>5, <3>1
  <2> QED  BY <1>5, <2>1, <2>2
<1>8. t = SubSeq(buf, s + 1, m)  BY <1>0, <1>5, <1>6, <1>7, IsPiece
<1> QED  BY <1>8 DEF t, s

\* A word ends somewhere.
LEMMA WordEnds ==
  ASSUME LineKept, NEW s \in Nat, s < End, ~IsSpace(buf[s + 1])
  PROVE  \E e \in s + 1 .. End :
           /\ \A k \in s + 1 .. e : ~IsSpace(buf[k])
           /\ e = End \/ IsSpace(buf[e + 1])
<1> DEFINE I == {k \in s + 1 .. End + 1 : k = End + 1 \/ IsSpace(buf[k])}
<1>1. End \in Nat  BY Sizes DEF LineKept
<1>2. I \subseteq Nat /\ End + 1 \in I  BY <1>1
<1>3. PICK m \in I : \A k \in I : m <= k  BY <1>2, LeastOf
<1>4. m \in s + 1 .. End + 1 /\ m # s + 1  BY <1>1, <1>3
<1>5. ASSUME NEW k \in s + 1 .. m - 1 PROVE ~IsSpace(buf[k])
  <2>1. k \in s + 1 .. End + 1 /\ k < m  BY <1>1, <1>4
  <2> QED  BY <1>1, <1>3, <1>4, <2>1
<1>6. m - 1 = End \/ IsSpace(buf[m - 1 + 1])  BY <1>1, <1>3, <1>4
<1>7. m - 1 \in s + 1 .. End  BY <1>1, <1>4
<1> QED  BY <1>5, <1>6, <1>7

\* When the loop stops, url is the line's second word.
LEMMA UrlIsWord ==
  ASSUME BufType, LineKept, FirstWord, UrlAt, UrlStops
  PROVE  CString(url) = SecondWord
<1> DEFINE s == UrlStart
<1>1. /\ End \in Nat /\ End < BufSize /\ s \in Nat /\ 1 <= s /\ j = s + Len(url) /\ j \in Nat
      /\ url \in Seq(Byte) /\ Len(url) \in Nat /\ s < BufSize
      /\ \A k \in 1 .. Len(url) : url[k] = buf[s + k] /\ ~IsSpace(url[k])
  BY Sizes, LenProperties DEF LineKept, UrlAt, Skipped, UrlStart
<1>2. Skipped(s) /\ (s >= End \/ ~IsSpace(buf[s + 1])) /\ Len(url) < UrlSize  BY DEF UrlAt
<1> HIDE DEF s
<1>3. \A k \in s + 1 .. j : ~IsSpace(buf[k])
  <2> TAKE k \in s + 1 .. j
  <2>1. k - s \in 1 .. Len(url) /\ s + (k - s) = k  BY <1>1
  <2> QED  BY <1>1, <2>1
<1>4. CASE s >= End
  <2>1. SecondWord = <<>>  BY <1>2, <1>4, NoWord
  <2>2. 0 = Len(url) \/ url[0 + 1] = NUL
    <3> SUFFICES ASSUME Len(url) # 0 PROVE url[1] = NUL
      OBVIOUS
    <3>1. 1 \in 1 .. Len(url) /\ s + 1 \in End + 1 .. BufSize  BY <1>1, <1>4, Sizes
    <3> QED  BY <1>1, <3>1 DEF LineKept
  <2>3. 0 \in 0 .. Len(url) /\ \A k \in 1 .. 0 : url[k] # NUL  BY <1>1
  <2>4. CString(url) = SubSeq(url, 1, 0)  BY <1>1, <2>2, <2>3, CStringIs
  <2> QED  BY <2>1, <2>4, SubSeqEmpty
<1>5. CASE s < End /\ j <= End
  <2>1. CString(url) = SubSeq(buf, s + 1, j)  BY <1>1, <1>5, UrlText DEF s
  <2>2. ~IsSpace(buf[s + 1])  BY <1>1, <1>2, <1>5
  <2>3. CASE IsSpace(buf[j + 1])
    <3>1. j # s  BY <2>2, <2>3
    <3>2. j \in s + 1 .. End /\ j - s < UrlSize  BY <1>1, <1>2, <1>5, <3>1
    <3>3. SecondWord = SubSeq(buf, s + 1, IF j - s < UrlSize THEN j ELSE s + UrlSize - 1)
      BY <1>2, <1>3, <1>5, <2>2, <2>3, <3>2, WordIs
    <3> QED  BY <2>1, <3>2, <3>3
  <2>4. CASE ~IsSpace(buf[j + 1])
    <3>1. Len(url) = UrlSize - 1  BY <1>1, <1>5, <2>4, Sizes DEF UrlStops
    <3>2. PICK e \in s + 1 .. End :
            /\ \A k \in s + 1 .. e : ~IsSpace(buf[k])
            /\ e = End \/ IsSpace(buf[e + 1])
      BY <1>1, <1>5, <2>2, WordEnds
    <3>3. e >= j
      <4> SUFFICES ASSUME e < j PROVE FALSE
        BY <1>1
      <4>1. e + 1 \in s + 1 .. j /\ e # End  BY <1>1, <1>5
      <4> QED  BY <1>3, <3>2, <4>1
    <3>4. SecondWord = SubSeq(buf, s + 1, IF e - s < UrlSize THEN e ELSE s + UrlSize - 1)
      BY <1>2, <1>5, <2>2, <3>2, WordIs
    <3>5. (IF e - s < UrlSize THEN e ELSE s + UrlSize - 1) = j  BY <1>1, <3>1, <3>3, Sizes
    <3> QED  BY <2>1, <3>4, <3>5
  <2> QED  BY <2>3, <2>4
<1>6. CASE s < End /\ j > End
  <2>1. CString(url) = SubSeq(buf, s + 1, End)  BY <1>1, <1>6, UrlText DEF s
  <2>2. ~IsSpace(buf[s + 1])  BY <1>1, <1>2, <1>6
  <2>3. End \in s + 1 .. End /\ End - s < UrlSize /\ \A k \in s + 1 .. End : ~IsSpace(buf[k])
    <3>1. End \in s + 1 .. End  BY <1>1, <1>6
    <3>2. End - s < UrlSize  BY <1>1, <1>2, <1>6, Sizes
    <3>3. ASSUME NEW k \in s + 1 .. End PROVE ~IsSpace(buf[k])
      <4>1. k \in s + 1 .. j  BY <1>1, <1>6
      <4> QED  BY <1>3, <4>1
    <3> QED  BY <3>1, <3>2, <3>3
  <2>4. SecondWord = SubSeq(buf, s + 1, IF End - s < UrlSize THEN End ELSE s + UrlSize - 1)
    BY <1>2, <1>6, <2>2, <2>3, WordIs
  <2> QED  BY <2>1, <2>3, <2>4
<1> QED  BY <1>1, <1>4, <1>5, <1>6

---------------------------------------------------------------------------
(* The query and the suffix.                                               *)

\* Cutting at the first '?' is taking what is up to it; without one nothing is
\* cut and no query is left.
LEMMA CutIs ==
  ASSUME NEW u \in Seq(Byte), NEW n, n = SelectInSeq(u, LAMBDA b : b = "?")
  PROVE  /\ n \in 0 .. Len(u) /\ (n # 0 <=> "?" \in ToSet(u))
         /\ n # 0 => /\ SubSeq(u, 1, n - 1) = UpTo(u, {"?"})
                     /\ UpTo(u, {"?"}) \in Seq(Byte) /\ Len(UpTo(u, {"?"})) = n - 1
         /\ n = 0 => UpTo(u, {"?"}) = u /\ From(u, Len(u) + 2) = <<>>
<1> DEFINE I == {i \in 1..Len(u) : u[i] = "?"}
           mark == "?"
<1>0. Len(u) \in Nat  BY LenProperties
<1>1. n = IF I # {} THEN Min(I) ELSE 0  BY DEF SelectInSeq
<1>2. I \subseteq 1 .. Len(u)  OBVIOUS
<1>3. SelectInSeq(u, LAMBDA b : b \in {"?"}) = n
  <2>1. {i \in 1..Len(u) : u[i] \in {"?"}} = I  OBVIOUS
  <2> QED  BY <1>1, <2>1 DEF SelectInSeq
<1>4. UpTo(u, {"?"}) = IF n = 0 THEN u ELSE SubSeq(u, 1, n - 1)  BY <1>3 DEF UpTo
<1>5. I # {} <=> "?" \in ToSet(u)
  <2>1. ToSet(u) = {u[i] : i \in 1..Len(u)}
    <3>1. DOMAIN u = 1..Len(u)  BY LenProperties
    <3> QED  BY <3>1 DEF ToSet
  <2> QED  BY <2>1
<1> HIDE DEF I
<1>6. n \in 0 .. Len(u) /\ (n = 0 <=> I = {})  BY <1>0, <1>1, <1>2, FirstPlace
<1>7. ASSUME n # 0 PROVE SubSeq(u, 1, n - 1) \in Seq(Byte) /\ Len(SubSeq(u, 1, n - 1)) = n - 1
  <2>1. n - 1 \in Nat /\ n - 1 <= Len(u) /\ 1 <= n - 1 + 1 /\ n - 1 - 1 + 1 = n - 1  BY <1>0, <1>6, <1>7
  <2> QED  BY <2>1, PieceProperties
<1>8. From(u, Len(u) + 2) = <<>>
  <2>1. Len(u) + 2 \in Nat /\ Len(u) + 2 > Len(u)  BY <1>0
  <2> QED  BY <2>1, NoRest
<1> QED  BY <1>4, <1>5, <1>6, <1>7, <1>8

\* One sequence ends another exactly when it has the same bytes at its end.
LEMMA SuffixMeans ==
  ASSUME NEW s \in Seq(Byte), NEW t \in Seq(Byte)
  PROVE  IsSuffix(s, t) <=>
           /\ Len(s) <= Len(t)
           /\ \A k \in 1 .. Len(s) : s[k] = t[Len(t) - Len(s) + k]
<1>0. Len(s) \in Nat /\ Len(t) \in Nat  BY LenProperties
<1> DEFINE r == Reverse(s)
           v == Reverse(t)
<1>1. r \in Seq(Byte) /\ Len(r) = Len(s) /\ \A i \in 1 .. Len(s) : r[i] = s[Len(s) - i + 1]
  <2>1. \A i \in 1 .. Len(s) : Len(s) - i + 1 \in 1 .. Len(s)  BY <1>0
  <2>2. \A i \in 1 .. Len(s) : s[Len(s) - i + 1] \in Byte  BY <2>1, ElementOfSeq
  <2>3. r = [i \in 1 .. Len(s) |-> s[Len(s) - i + 1]]  BY DEF Reverse
  <2>4. [i \in 1 .. Len(s) |-> s[Len(s) - i + 1]] \in Seq(Byte)  BY <1>0, <2>2, IsASeq
  <2> HIDE DEF r
  <2> QED  BY <1>0, <2>3, <2>4, LenProperties
<1>2. v \in Seq(Byte) /\ Len(v) = Len(t) /\ \A i \in 1 .. Len(t) : v[i] = t[Len(t) - i + 1]
  <2>1. \A i \in 1 .. Len(t) : Len(t) - i + 1 \in 1 .. Len(t)  BY <1>0
  <2>2. \A i \in 1 .. Len(t) : t[Len(t) - i + 1] \in Byte  BY <2>1, ElementOfSeq
  <2>3. v = [i \in 1 .. Len(t) |-> t[Len(t) - i + 1]]  BY DEF Reverse
  <2>4. [i \in 1 .. Len(t) |-> t[Len(t) - i + 1]] \in Seq(Byte)  BY <1>0, <2>2, IsASeq
  <2> HIDE DEF v
  <2> QED  BY <1>0, <2>3, <2>4, LenProperties
<1>3. IsSuffix(s, t) <=> Len(r) <= Len(v) /\ SubSeq(r, 1, Len(r)) = SubSeq(v, 1, Len(r))
  BY DEF IsSuffix, IsPrefix
<1> HIDE DEF r, v
<1>4. CASE Len(s) > Len(t)  BY <1>0, <1>1, <1>2, <1>3, <1>4
<1>5. CASE Len(s) <= Len(t)
  <2>1. SubSeq(r, 1, Len(r)) = r  BY <1>1, SubSeqFull
  <2> DEFINE w == SubSeq(v, 1, Len(s))
  <2>2. w \in Seq(Byte) /\ Len(w) = Len(s) /\ \A i \in 1 .. Len(s) : w[i] = v[i]
    <3>1. /\ w \in Seq(Byte) /\ Len(w) = Len(s) - 1 + 1
          /\ \A i \in 1 .. Len(s) - 1 + 1 : w[i] = v[1 + i - 1]
      BY <1>0, <1>2, <1>5, PieceProperties
    <3> HIDE DEF w
    <3> QED  BY <1>0, <3>1
  <2>3. IsSuffix(s, t) <=> r = w  BY <1>0, <1>1, <1>2, <1>3, <1>5, <2>1
  <2> HIDE DEF w
  <2>4. r = w <=> \A i \in 1 .. Len(s) : r[i] = w[i]
    <3>1. r = w => \A i \in 1 .. Len(s) : r[i] = w[i]  OBVIOUS
    <3>2. (\A i \in 1 .. Len(s) : r[i] = w[i]) => r = w  BY <1>1, <2>2, SeqEqual
    <3> QED  BY <3>1, <3>2
  <2>5. (\A i \in 1 .. Len(s) : r[i] = w[i])
        <=> \A k \in 1 .. Len(s) : s[k] = t[Len(t) - Len(s) + k]
    <3>1. ASSUME \A i \in 1 .. Len(s) : r[i] = w[i], NEW k \in 1 .. Len(s)
          PROVE  s[k] = t[Len(t) - Len(s) + k]
      <4> DEFINE i == Len(s) - k + 1
      <4>1. /\ i \in 1 .. Len(s) /\ i \in 1 .. Len(t) /\ Len(s) - i + 1 = k
            /\ Len(t) - i + 1 = Len(t) - Len(s) + k
        BY <1>0, <1>5
      <4> HIDE DEF i
      <4>2. r[i] = w[i]  BY <3>1, <4>1
      <4> QED  BY <1>1, <1>2, <2>2, <4>1, <4>2
    <3>2. ASSUME \A k \in 1 .. Len(s) : s[k] = t[Len(t) - Len(s) + k], NEW i \in 1 .. Len(s)
          PROVE  r[i] = w[i]
      <4> DEFINE k == Len(s) - i + 1
      <4>1. /\ k \in 1 .. Len(s) /\ i \in 1 .. Len(t)
            /\ Len(t) - i + 1 = Len(t) - Len(s) + k
        BY <1>0, <1>5
      <4>2. r[i] = s[k] /\ w[i] = t[Len(t) - i + 1]  BY <1>1, <1>2, <2>2, <4>1
      <4> HIDE DEF k
      <4>3. s[k] = t[Len(t) - Len(s) + k]  BY <3>2, <4>1
      <4> QED  BY <4>1, <4>2, <4>3
    <3> QED  BY <3>1, <3>2
  <2> QED  BY <1>5, <2>3, <2>4, <2>5
<1> QED  BY <1>0, <1>4, <1>5

\* The bytes a path or a URL is searched for.
LEMMA Marks == {"?", "/", ".", "-"} \subseteq Byte /\ DOMAIN Digit \subseteq Byte \ Space
<1>1. {"?", "/", ".", "-"} \subseteq Others /\ DOMAIN Digit \subseteq Others /\ Others \cap Space = {}
  BY Zenon, RequestAssumption DEF Space
<1>2. Others \subseteq Byte  BY DEF Byte
<1> QED  BY Zenon, <1>1, <1>2

\* A suffix with a dot before it.
LEMMA Dotted ==
  ASSUME NEW x \in Seq(Byte), NEW y, y = <<".">> \o x
  PROVE  /\ y \in Seq(Byte) /\ Len(y) = Len(x) + 1 /\ y[1] = "."
         /\ \A k \in 1 .. Len(x) : y[k + 1] = x[k]
<1> DEFINE dot == <<".">>
<1>1. dot \in Seq(Byte) /\ Len(dot) = 1 /\ dot[1] = "."
  <2>1. "." \in Byte  BY Marks
  <2> QED  BY <2>1
<1>2. Len(x) \in Nat  BY LenProperties
<1>3. y = dot \o x  OBVIOUS
<1> HIDE DEF dot
<1>4. /\ y \in Seq(Byte) /\ Len(y) = Len(dot) + Len(x)
      /\ \A i \in 1..Len(dot) + Len(x) : y[i] = IF i <= Len(dot) THEN dot[i] ELSE x[i - Len(dot)]
  BY <1>1, <1>3, ConcatProperties
<1>5. y[1] = "."  BY <1>1, <1>2, <1>4
<1>6. ASSUME NEW k \in 1 .. Len(x) PROVE y[k + 1] = x[k]
  <2>1. k + 1 \in 1..Len(dot) + Len(x) /\ ~ (k + 1 <= Len(dot)) /\ k + 1 - Len(dot) = k  BY <1>1, <1>2
  <2> QED  BY <1>4, <2>1
<1> QED  BY <1>1, <1>2, <1>4, <1>5, <1>6

\* httpd_file_suffix gives x exactly when the path ends in a dot and x, and x
\* has no dot of its own.
LEMMA SuffixIs ==
  ASSUME NEW p \in Seq(Byte), NEW x \in Seq(Byte), x # <<>>
  PROVE  Suffix(p) = x <=> IsSuffix(<<".">> \o x, p) /\ "." \notin ToSet(x)
<1> DEFINE I == {i \in 1..Len(p) : p[i] = "."}
           n == SelectLastInSeq(p, LAMBDA b : b = ".")
           y == <<".">> \o x
<1>0. Len(p) \in Nat /\ Len(x) \in Nat /\ Len(x) > 0
  BY LenProperties, EmptySeq
<1>1. n = IF I # {} THEN Max(I) ELSE 0  BY DEF SelectLastInSeq
<1>2. I \subseteq 1 .. Len(p)  OBVIOUS
<1>3. Suffix(p) = IF n = 0 THEN <<>> ELSE From(p, n + 1)  BY DEF Suffix
<1>4. y \in Seq(Byte) /\ Len(y) = Len(x) + 1 /\ y[1] = "." /\ \A k \in 1 .. Len(x) : y[k + 1] = x[k]
  BY Dotted
<1>5. "." \in ToSet(x) <=> \E k \in 1 .. Len(x) : x[k] = "."
  <2>1. DOMAIN x = 1..Len(x)  BY LenProperties
  <2> QED  BY <2>1 DEF ToSet
<1> HIDE DEF n, y
<1>6. /\ n \in 0 .. Len(p) /\ (n = 0 <=> I = {})
      /\ n # 0 => n \in I
      /\ \A k \in I : k <= n
  <2> HIDE DEF I
  <2> QED  BY <1>0, <1>1, <1>2, LastPlace
<1>7. IsSuffix(y, p) <=>
        Len(y) <= Len(p) /\ \A k \in 1 .. Len(y) : y[k] = p[Len(p) - Len(y) + k]
  BY <1>4, SuffixMeans
<1>8. ASSUME Suffix(p) = x PROVE IsSuffix(y, p) /\ "." \notin ToSet(x)
  <2>1. n # 0 /\ x = From(p, n + 1)  BY <1>3, <1>8
  <2>2. n \in 1 .. Len(p) /\ p[n] = "."  BY <1>6, <2>1
  <2>3. Len(x) = Len(p) - n /\ \A k \in 1 .. Len(p) - n : x[k] = p[n + k]
    <3>1. PICK m \in Nat \ {0} : m = n + 1 /\ m <= Len(p) + 1  BY <1>0, <2>2
    <3>2. Len(x) = Len(p) - m + 1 /\ \A k \in 1 .. Len(p) - m + 1 : x[k] = p[m + k - 1]
      BY <2>1, <3>1, RestProperties
    <3>3. Len(p) - m + 1 = Len(p) - n /\ \A k \in 1 .. Len(p) - n : m + k - 1 = n + k
      BY <1>0, <2>2, <3>1
    <3> QED  BY <3>2, <3>3
  <2>4. ASSUME NEW k \in 1 .. Len(y) PROVE y[k] = p[Len(p) - Len(y) + k]
    <3>1. Len(p) - Len(y) + k = n - 1 + k  BY <1>0, <1>4, <2>2, <2>3
    <3>2. CASE k = 1
      <4>1. n - 1 + k = n  BY <2>2, <3>2
      <4> QED  BY <1>4, <2>2, <3>1, <3>2, <4>1
    <3>3. CASE k # 1
      <4>1. k - 1 \in 1 .. Len(x) /\ (k - 1) + 1 = k /\ n + (k - 1) = n - 1 + k  BY <1>0, <1>4, <2>2, <3>3
      <4>2. y[k] = x[k - 1] /\ x[k - 1] = p[n + (k - 1)]
        <5>1. y[(k - 1) + 1] = x[k - 1]  BY <1>4, <4>1
        <5>2. k - 1 \in 1 .. Len(p) - n  BY <2>3, <4>1
        <5>3. x[k - 1] = p[n + (k - 1)]  BY <2>3, <5>2
        <5> QED  BY <4>1, <5>1, <5>3
      <4> QED  BY <3>1, <4>1, <4>2
    <3> QED  BY <3>2, <3>3
  <2>5. IsSuffix(y, p)  BY <1>0, <1>4, <1>7, <2>2, <2>3, <2>4
  <2>6. ASSUME NEW k \in 1 .. Len(x), x[k] = "." PROVE FALSE
    <3>1. n + k \in 1 .. Len(p) /\ k \in 1 .. Len(p) - n /\ n + k > n  BY <1>0, <2>2, <2>3
    <3>2. p[n + k] = "."  BY <2>3, <2>6, <3>1
    <3>3. n + k <= n  BY <1>6, <3>1, <3>2
    <3> QED  BY <2>2, <3>1, <3>3
  <2> QED  BY <1>5, <2>5, <2>6
<1>9. ASSUME IsSuffix(y, p), "." \notin ToSet(x) PROVE Suffix(p) = x
  <2>1. Len(y) <= Len(p) /\ \A k \in 1 .. Len(y) : y[k] = p[Len(p) - Len(y) + k]  BY <1>7, <1>9
  <2> DEFINE m == Len(p) - Len(x)
  <2>2. m \in 1 .. Len(p) /\ m = Len(p) - Len(y) + 1  BY <1>0, <1>4, <2>1
  <2>3. p[m] = "."
    <3>1. 1 \in 1 .. Len(y)  BY <1>0, <1>4
    <3> QED  BY <1>4, <2>1, <2>2, <3>1
  <2>4. ASSUME NEW k \in 1 .. Len(x) PROVE p[m + k] = x[k]
    <3>1. k + 1 \in 1 .. Len(y) /\ Len(p) - Len(y) + (k + 1) = m + k  BY <1>0, <1>4
    <3>2. y[k + 1] = p[Len(p) - Len(y) + (k + 1)]  BY <2>1, <3>1
    <3> QED  BY <1>4, <3>1, <3>2
  <2> HIDE DEF m
  <2>5. m \in I  BY <2>2, <2>3
  <2>6. ASSUME NEW i \in I, i > m PROVE FALSE
    <3>1. i - m \in 1 .. Len(x) /\ m + (i - m) = i  BY <1>0, <2>2, <2>6 DEF m
    <3>2. x[i - m] = "."  BY <2>4, <3>1
    <3> QED  BY <1>5, <1>9, <3>1, <3>2
  <2>7. n = m
    <3>1. n # 0 /\ m <= n  BY <1>6, <2>5
    <3>2. n \in I  BY <1>6, <3>1
    <3>3. ~ (n > m)  BY <2>6, <3>2
    <3> QED  BY <1>6, <2>2, <3>1, <3>3
  <2>8. x = SubSeq(p, m + 1, Len(p))
    <3>1. m + 1 \in Nat \ {0} /\ Len(p) \in Nat /\ m + 1 <= Len(p) + 1 /\ Len(x) = Len(p) - (m + 1) + 1
      BY <1>0, <2>2 DEF m
    <3>2. ASSUME NEW i \in 1 .. Len(p) - (m + 1) + 1 PROVE x[i] = p[m + 1 + i - 1]
      <4>1. i \in 1 .. Len(x) /\ m + 1 + i - 1 = m + i  BY <2>2, <3>1
      <4> QED  BY <2>4, <4>1
    <3> QED  BY <3>1, <3>2, IsPiece
  <2> QED  BY <1>3, <2>2, <2>7, <2>8 DEF From
<1> QED  BY <1>8, <1>9 DEF y

\* The table's entries.
LEMMA Types ==
  /\ Len(MimeTypes) \in Nat /\ DOMAIN MimeTypes = 1 .. Len(MimeTypes)
  /\ \A n \in 1 .. Len(MimeTypes) : MimeTypes[n][1] \in Seq(Byte) /\ MimeTypes[n][1] # <<>>
<1> DEFINE Entry == (Seq(Byte) \ {<<>>}) \X STRING
<1>1. MimeTypes \in Seq(Entry)  BY Zenon, RequestAssumption
<1> HIDE DEF Entry
<1>2. Len(MimeTypes) \in Nat /\ DOMAIN MimeTypes = 1 .. Len(MimeTypes)  BY <1>1, LenProperties
<1>3. \A n \in 1 .. Len(MimeTypes) : MimeTypes[n] \in Entry  BY <1>1, ElementOfSeq
<1>4. \A e \in Entry : e[1] \in Seq(Byte) /\ e[1] # <<>>  BY DEF Entry
<1> QED  BY <1>2, <1>3, <1>4

\* A path's suffix is a sequence of bytes.
LEMMA SuffixType == \A p \in Seq(Byte) : Suffix(p) \in Seq(Byte)
<1> TAKE p \in Seq(Byte)
<1> DEFINE I == {i \in 1..Len(p) : p[i] = "."}
           n == SelectLastInSeq(p, LAMBDA b : b = ".")
<1>0. Len(p) \in Nat  BY LenProperties
<1>1. n = IF I # {} THEN Max(I) ELSE 0  BY DEF SelectLastInSeq
<1>2. I \subseteq 1 .. Len(p)  OBVIOUS
<1>3. Suffix(p) = IF n = 0 THEN <<>> ELSE From(p, n + 1)  BY DEF Suffix
<1> HIDE DEF n, I
<1>4. n \in 0 .. Len(p)  BY <1>0, <1>1, <1>2, LastPlace
<1>5. From(p, n + 1) \in Seq(Byte)
  <2>1. n + 1 \in Nat \ {0} /\ n + 1 <= Len(p) + 1  BY <1>0, <1>4
  <2> QED  BY <2>1, RestProperties
<1> QED  BY <1>3, <1>5

\* A path is a script's when the first entry of the table with its suffix says
\* so.
LEMMA CgiTypeMeans ==
  ASSUME NEW p \in Seq(Byte)
  PROVE  IsMimeTypeCgi(p) <=>
           \E n \in DOMAIN MimeTypes :
             /\ MimeTypes[n][2] = "cgi" /\ IsSuffix(<<".">> \o MimeTypes[n][1], p)
             /\ "." \notin ToSet(MimeTypes[n][1])
             /\ \A m \in 1..(n - 1) : MimeTypes[m][1] # MimeTypes[n][1]
<1> DEFINE I == {i \in 1..Len(MimeTypes) : MimeTypes[i][1] = Suffix(p)}
           f == SelectInSeq(MimeTypes, LAMBDA m : m[1] = Suffix(p))
<1>1. f = IF I # {} THEN Min(I) ELSE 0  BY DEF SelectInSeq
<1>2. I \subseteq 1 .. Len(MimeTypes)  OBVIOUS
<1>3. IsMimeTypeCgi(p) <=> f # 0 /\ MimeTypes[f][2] = "cgi"
  BY DEF IsMimeTypeCgi, ContentType
<1> HIDE DEF f
<1>4. /\ f \in 0 .. Len(MimeTypes) /\ (f = 0 <=> I = {})
      /\ f # 0 => f \in I
      /\ \A k \in I : f <= k
  <2> HIDE DEF I
  <2> QED  BY <1>1, <1>2, Types, FirstPlace
<1>5. \A n \in 1 .. Len(MimeTypes) :
        Suffix(p) = MimeTypes[n][1]
        <=> IsSuffix(<<".">> \o MimeTypes[n][1], p) /\ "." \notin ToSet(MimeTypes[n][1])
  BY Types, SuffixIs
<1>6. ASSUME f # 0, MimeTypes[f][2] = "cgi"
      PROVE  \E n \in DOMAIN MimeTypes :
               /\ MimeTypes[n][2] = "cgi" /\ IsSuffix(<<".">> \o MimeTypes[n][1], p)
               /\ "." \notin ToSet(MimeTypes[n][1])
               /\ \A m \in 1..(n - 1) : MimeTypes[m][1] # MimeTypes[n][1]
  <2>1. f \in 1 .. Len(MimeTypes) /\ MimeTypes[f][1] = Suffix(p)  BY <1>4, <1>6
  <2>2. ASSUME NEW m \in 1..(f - 1), MimeTypes[m][1] = MimeTypes[f][1] PROVE FALSE
    <3>1. m \in I /\ m < f  BY <2>1, <2>2, Types
    <3> QED  BY <1>4, <2>1, <3>1
  <2>3. f \in DOMAIN MimeTypes  BY <2>1, Types
  <2> QED  BY <1>5, <1>6, <2>1, <2>2, <2>3
<1>7. ASSUME NEW n \in DOMAIN MimeTypes,
             MimeTypes[n][2] = "cgi", IsSuffix(<<".">> \o MimeTypes[n][1], p),
             "." \notin ToSet(MimeTypes[n][1]),
             \A m \in 1..(n - 1) : MimeTypes[m][1] # MimeTypes[n][1]
      PROVE  f # 0 /\ MimeTypes[f][2] = "cgi"
  <2>1. n \in 1 .. Len(MimeTypes)  BY Types
  <2>2. n \in I  BY <1>5, <1>7, <2>1
  <2>3. f # 0 /\ f <= n /\ f \in I  BY <1>4, <2>2
  <2>4. ~ (f < n)
    <3> SUFFICES ASSUME f < n PROVE FALSE
      OBVIOUS
    <3>1. f \in 1..(n - 1)  BY <1>4, <2>1, <2>3
    <3> QED  BY <1>7, <2>2, <2>3, <3>1
  <2>5. f = n  BY <1>4, <2>1, <2>3, <2>4
  <2> QED  BY <1>7, <2>3, <2>5
<1> QED  BY <1>3, <1>6, <1>7

---------------------------------------------------------------------------
(* The inductive invariant for the request line: what each loop has done   *)
(* of the line when control is at its place.                               *)

Early == {"method", "unimplemented", "blanks", "url", "query", "path", "stat"}
IsGet == CString(method) = <<GET>>
Asked == "?" \in ToSet(SecondWord)

LineInv == pc \in Early => LineKept
MethodInv ==
  /\ pc = "method" => j = Len(method) /\ \A k \in 1 .. j : method[k] = buf[k] /\ ~IsSpace(buf[k])
  /\ pc \in {"method", "blanks"} => url = <<>>
  /\ pc \in {"method", "blanks", "url", "query"} => query = <<>>
  /\ pc \in {"blanks", "url", "query"} => FirstWord /\ (IsGet => ~isCgi)
  /\ pc \in {"headers", "bad_request"} => CString(method) = <<POST>>
UrlInv ==
  /\ pc = "blanks" => Skipped(j)
  /\ pc \in {"url", "query"} => UrlAt
  /\ pc = "query" => UrlStops
PathIs ==
  path = IF FileName = Alias THEN AliasPath
         ELSE Base \o FileName \o (IF Last(Base \o FileName) = "/" THEN Index ELSE <<>>)
TargetInv ==
  /\ pc \in {"path", "stat"} =>
       /\ SecondWord \in Seq(Byte) /\ Len(SecondWord) < UrlSize
       /\ url = FileName /\ query = From(SecondWord, Len(FileName) + 2)
       /\ Len(url) + Len(query) < UrlSize /\ (query # <<>> => Len(url) + Len(query) + 1 < UrlSize)
  /\ pc = "path" => (IsGet => (isCgi <=> Asked))
  /\ pc = "stat" => PathIs /\ (IsGet => (isCgi <=> Asked \/ FileName = Alias))

\* Where the buffer and the method stay, everything said of them stays.
LEMMA SameLine ==
  ASSUME buf' = buf
  PROVE  /\ BufType' = BufType /\ End' = End /\ LineKept' = LineKept /\ FirstWord' = FirstWord
         /\ SecondWord' = SecondWord /\ Asked' = Asked
         /\ \A s : Skipped(s)' = Skipped(s)
<1>1. End' = End  BY DEF End
<1>2. SecondWord' = SecondWord  BY DEF SecondWord, SelectInSeq
<1> QED  BY <1>1, <1>2 DEF BufType, LineKept, FirstWord, Asked, Skipped

LEMMA SameName ==
  ASSUME buf' = buf, method' = method
  PROVE  IsGet' = IsGet /\ FileName' = FileName
BY SameLine DEF IsGet, FileName

\* When the method is read and known, the line's first word is one byte and the
\* loop stopped behind it, unless the line ends there.
LEMMA MethodRead ==
  ASSUME BufType, LineKept, method \in Seq(Byte), Len(method) < MethodSize,
         \A k \in 1 .. Len(method) : method[k] = buf[k] /\ ~IsSpace(buf[k]),
         IsSpace(buf[Len(method) + 1]) \/ Len(method) >= MethodSize - 1,
         CString(method) \in {<<GET>>, <<POST>>}
  PROVE  FirstWord /\ Skipped(Len(method))
<1>1. PICK n \in 0 .. Len(method) :
        /\ \A k \in 1 .. n : method[k] # NUL
        /\ n = Len(method) \/ method[n + 1] = NUL
        /\ Len(CString(method)) = n
  BY CStringOf
<1>2. n = 1
  <2>1. Len(<<GET>>) = 1 /\ Len(<<POST>>) = 1  OBVIOUS
  <2>2. Len(CString(method)) = 1  BY Zenon, <2>1
  <2> QED  BY <1>1, <2>2
<1>3. /\ Len(method) \in Nat /\ 1 <= Len(method) /\ End \in Nat /\ End < BufSize
      /\ Len(method) < BufSize
  BY <1>1, <1>2, LenProperties, Sizes DEF LineKept
<1>4. buf[1] # NUL /\ ~IsSpace(buf[1])  BY <1>1, <1>2, <1>3
<1>5. 1 <= End
  <2> SUFFICES ASSUME End = 0 PROVE FALSE
    BY <1>3
  <2>1. 1 \in End + 1 .. BufSize  BY <1>3, Sizes
  <2> QED  BY <1>4, <2>1 DEF LineKept
<1>6. CASE Len(method) = 1
  <2>1. IsSpace(buf[2])  BY <1>6, Sizes
  <2> QED  BY <1>3, <1>4, <1>5, <1>6, <2>1, Sizes DEF FirstWord, Skipped
<1>7. CASE Len(method) > 1
  <2>1. buf[2] = NUL  BY <1>1, <1>2, <1>3, <1>7
  <2>2. End = 1
    <3> SUFFICES ASSUME End > 1 PROVE FALSE
      BY <1>3, <1>5
    <3>1. 2 \in 1 .. End  BY <1>3
    <3> QED  BY <2>1, <3>1 DEF LineKept
  <2>3. Len(method) \in 1 .. BufSize - 1  BY <1>3, Sizes
  <2>4. \A k \in 2 .. Len(method) : ~ (k <= End)  BY <2>2
  <2> QED  BY <1>4, <2>2, <2>3, <2>4 DEF FirstWord, Skipped
<1> QED  BY <1>3, <1>6, <1>7

---------------------------------------------------------------------------
(* Numbers.                                                                *)

\* The recursion over the digits defines a function, and numbers of their kind.
LEMMA NumberType ==
  ASSUME NEW ds, Len(ds) \in Nat, \A k \in 1 .. Len(ds) : Digit[ds[k]] \in Nat
  PROVE  Number(ds) \in Nat /\ (Len(ds) = 0 => Number(ds) = 0)
<1> DEFINE n == Len(ds)
           To(f, m) == \A k \in 0 .. m : f[k] = IF k = 0 THEN 0 ELSE 10 * f[k - 1] + Digit[ds[k]]
           Bad == {m \in 0 .. n : ~ \E f \in [0 .. m -> Nat] : To(f, m)}
<1>1. Bad = {}
  <2> SUFFICES ASSUME Bad # {} PROVE FALSE
    OBVIOUS
  <2>1. Bad \subseteq Nat  OBVIOUS
  <2>2. PICK m \in Bad : \A k \in Bad : m <= k
    <3> HIDE DEF Bad
    <3> QED  BY <2>1, LeastOf
  <2>3. m \in 0 .. n /\ ~ \E f \in [0 .. m -> Nat] : To(f, m)  OBVIOUS
  <2>4. CASE m = 0
    <3> DEFINE f == [k \in 0 .. 0 |-> 0]
    <3>1. f \in [0 .. 0 -> Nat] /\ To(f, 0)  OBVIOUS
    <3> QED  BY <2>3, <2>4, <3>1
  <2>5. CASE m # 0
    <3>1. m - 1 \in 0 .. n /\ m - 1 < m /\ m \in 1 .. n  BY <2>3, <2>5
    <3>2. m - 1 \notin Bad
      <4> HIDE DEF Bad
      <4> QED  BY <2>2, <2>3, <3>1
    <3>3. PICK f \in [0 .. m - 1 -> Nat] : To(f, m - 1)  BY <3>1, <3>2
    <3> DEFINE d == Digit[ds[m]]
               g == [k \in 0 .. m |-> IF k = m THEN 10 * f[m - 1] + d ELSE f[k]]
    <3>4. d \in Nat /\ f[m - 1] \in Nat  BY <3>1
    <3>5. g \in [0 .. m -> Nat]
      <4>1. ASSUME NEW k \in 0 .. m PROVE (IF k = m THEN 10 * f[m - 1] + d ELSE f[k]) \in Nat
        <5> HIDE DEF d
        <5>1. CASE k = m  BY <3>4, <5>1
        <5>2. CASE k # m
          <6>1. k \in 0 .. m - 1  BY <3>1, <5>2
          <6> QED  BY <5>2, <6>1
        <5> QED  BY <5>1, <5>2
      <4> QED  BY <4>1
    <3>6. ASSUME NEW k \in 0 .. m PROVE g[k] = IF k = 0 THEN 0 ELSE 10 * g[k - 1] + Digit[ds[k]]
      <4>1. CASE k = m
        <5>1. g[k] = 10 * f[m - 1] + d  BY <4>1
        <5>2. m - 1 \in 0 .. m /\ m - 1 # m  BY <3>1
        <5>3. g[m - 1] = f[m - 1]  BY <5>2
        <5> QED  BY <2>5, <4>1, <5>1, <5>3
      <4>2. CASE k # m
        <5>1. k \in 0 .. m - 1  BY <3>1, <4>2
        <5>2. g[k] = f[k]  BY <4>2
        <5>3. f[k] = IF k = 0 THEN 0 ELSE 10 * f[k - 1] + Digit[ds[k]]  BY <3>3, <5>1
        <5>4. ASSUME k # 0 PROVE g[k - 1] = f[k - 1]
          <6>1. k - 1 \in 0 .. m /\ k - 1 # m  BY <3>1, <5>1, <5>4
          <6> QED  BY <6>1
        <5> HIDE DEF g
        <5> QED  BY <5>2, <5>3, <5>4
      <4> QED  BY <4>1, <4>2
    <3>7. To(g, m)  BY <3>6
    <3> HIDE DEF g, To
    <3> QED  BY <2>3, <3>5, <3>7
  <2> QED  BY <2>4, <2>5
<1>2. PICK f \in [0 .. n -> Nat] : To(f, n)
  <2>1. n \in 0 .. n  OBVIOUS
  <2>2. n \notin Bad
    <3> HIDE DEF Bad
    <3> QED  BY <1>1
  <2> QED  BY <2>1, <2>2
<1> DEFINE Is(h) == h = [k \in 0 .. n |-> IF k = 0 THEN 0 ELSE 10 * h[k - 1] + Digit[ds[k]]]
           v == CHOOSE h : Is(h)
<1>3. Is(f)  BY <1>2
<1>4. Is(v)
  <2> HIDE DEF Is
  <2> QED  BY <1>3
<1>5. Number(ds) = v[n]  BY DEF Number
<1> HIDE DEF v
<1>6. To(v, n)  BY <1>4
<1> DEFINE Odd == {k \in 0 .. n : v[k] \notin Nat}
<1>7. Odd = {}
  <2> SUFFICES ASSUME Odd # {} PROVE FALSE
    OBVIOUS
  <2>1. Odd \subseteq Nat  OBVIOUS
  <2>2. PICK k \in Odd : \A l \in Odd : k <= l
    <3> HIDE DEF Odd
    <3> QED  BY <2>1, LeastOf
  <2>3. k \in 0 .. n /\ v[k] \notin Nat  OBVIOUS
  <2>4. v[k] = IF k = 0 THEN 0 ELSE 10 * v[k - 1] + Digit[ds[k]]  BY <1>6, <2>3
  <2>5. CASE k = 0  BY <2>3, <2>4, <2>5
  <2>6. CASE k # 0
    <3>1. k - 1 \in 0 .. n /\ k - 1 < k /\ k \in 1 .. n  BY <2>3, <2>6
    <3>2. k - 1 \notin Odd  BY <2>2, <3>1
    <3> DEFINE x == v[k - 1]
               d == Digit[ds[k]]
    <3>3. x \in Nat  BY <3>1, <3>2
    <3>4. d \in Nat  BY <3>1
    <3>5. v[k] = 10 * x + d  BY <2>4, <2>6
    <3> HIDE DEF x, d
    <3>6. 10 * x + d \in Nat  BY <3>3, <3>4
    <3> QED  BY <2>3, <3>5, <3>6
  <2> QED  BY <2>5, <2>6
<1>8. v[n] \in Nat  BY <1>7
<1>9. n = 0 => v[n] = 0  BY <1>6
<1> QED  BY <1>5, <1>8, <1>9

\* The digits' values; a digit is neither blank nor the end of a string.
LEMMA Digits ==
  /\ \A b \in DOMAIN Digit : Digit[b] \in Nat
  /\ DOMAIN Digit \subseteq Byte /\ NUL \notin DOMAIN Digit /\ LF \notin DOMAIN Digit
  /\ \A b \in DOMAIN Digit : ~IsSpace(b)
<1>1. \A b \in DOMAIN Digit : Digit[b] \in 0..9  BY Zenon, RequestAssumption
<1>2. DOMAIN Digit \subseteq Others /\ Others \cap {NUL, LF, Blank, GET, POST} = {}
  BY Zenon, RequestAssumption
<1>3. NUL \notin DOMAIN Digit /\ LF \notin DOMAIN Digit /\ Blank \notin DOMAIN Digit  BY Zenon, <1>2
<1>4. \A b \in DOMAIN Digit : ~IsSpace(b)  BY <1>3 DEF IsSpace
<1>5. \A b \in DOMAIN Digit : Digit[b] \in Nat  BY <1>1
<1> QED  BY <1>3, <1>4, <1>5, Marks

\* A string of n blanks, and one whose first byte that is not blank is at a and
\* whose digits reach e.
BlankTo(s, n) == n \in 0 .. Len(s) /\ (\A k \in 1 .. n : IsSpace(s[k])) /\ (n = Len(s) \/ s[n + 1] = NUL)
DigitsFrom(s, a) == IF s[a] = "-" THEN a + 1 ELSE a
NumberIn(s, a, e) ==
  /\ a \in 1 .. Len(s) /\ (\A k \in 1 .. a - 1 : IsSpace(s[k])) /\ ~IsSpace(s[a]) /\ s[a] # NUL
  /\ e \in DigitsFrom(s, a) - 1 .. Len(s)
  /\ \A k \in DigitsFrom(s, a) .. e : s[k] \in DOMAIN Digit
  /\ e = Len(s) \/ s[e + 1] \notin DOMAIN Digit

\* Every string is of one of these kinds.
LEMMA AtoiForm ==
  ASSUME NEW s \in Seq(Byte)
  PROVE  (\E n \in Nat : BlankTo(s, n)) \/ (\E a \in Nat, e \in Nat : NumberIn(s, a, e))
<1>1. PICK m \in 0 .. Len(s) : (\A k \in 1 .. m : s[k] # NUL) /\ (m = Len(s) \/ s[m + 1] = NUL)
  BY CStringOf
<1>2. Len(s) \in Nat /\ m \in Nat  BY LenProperties
<1> DEFINE I == {k \in 1 .. m : ~IsSpace(s[k])}
<1>3. CASE I = {}
  <2>1. \A k \in 1 .. m : IsSpace(s[k])  BY <1>3
  <2> QED  BY <1>1, <1>2, <2>1 DEF BlankTo
<1>4. CASE I # {}
  <2>1. I \subseteq Nat  OBVIOUS
  <2>2. PICK a \in I : \A k \in I : a <= k
    <3> HIDE DEF I
    <3> QED  BY <1>4, <2>1, LeastOf
  <2>3. a \in 1 .. m /\ ~IsSpace(s[a]) /\ s[a] # NUL  BY <1>1
  <2>4. ASSUME NEW k \in 1 .. a - 1 PROVE IsSpace(s[k])
    <3>1. k \in 1 .. m /\ ~ (a <= k)  BY <2>3
    <3> QED  BY <2>2, <3>1
  <2> DEFINE b == DigitsFrom(s, a)
             J == {k \in b .. m + 1 : k = m + 1 \/ s[k] \notin DOMAIN Digit}
  <2>5. b \in a .. a + 1  BY <2>3 DEF DigitsFrom
  <2> HIDE DEF b
  <2>6. J \subseteq Nat /\ m + 1 \in J  BY <2>3, <2>5
  <2>7. PICK f \in J : \A k \in J : f <= k
    <3> HIDE DEF J
    <3> QED  BY <2>6, LeastOf
  <2>8. f \in b .. m + 1 /\ (f = m + 1 \/ s[f] \notin DOMAIN Digit)  OBVIOUS
  <2>9. ASSUME NEW k \in b .. f - 1 PROVE s[k] \in DOMAIN Digit
    <3>1. k \in b .. m + 1 /\ ~ (f <= k) /\ k # m + 1  BY <2>3, <2>5, <2>8
    <3> QED  BY <2>7, <3>1
  <2>10. f - 1 \in b - 1 .. Len(s) /\ f - 1 \in Nat  BY <1>2, <2>3, <2>5, <2>8
  <2>11. f - 1 = Len(s) \/ s[f - 1 + 1] \notin DOMAIN Digit
    <3>1. f - 1 + 1 = f  BY <2>3, <2>5, <2>8
    <3>2. CASE f = m + 1
      <4>1. m = Len(s) \/ s[f] = NUL  BY <1>1, <3>2
      <4> QED  BY <1>2, <3>1, <3>2, <4>1, Digits
    <3> QED  BY <2>8, <3>1, <3>2
  <2>12. a \in 1 .. Len(s) /\ a \in Nat  BY <1>2, <2>3
  <2>13. NumberIn(s, a, f - 1)  BY <2>3, <2>4, <2>9, <2>10, <2>11, <2>12 DEF NumberIn, b
  <2> QED  BY <2>10, <2>12, <2>13
<1> QED  BY <1>3, <1>4

\* Blanks are no number.
LEMMA AtoiBlank ==
  ASSUME NEW s \in Seq(Byte), NEW n, BlankTo(s, n)
  PROVE  atoi(s) = 0
<1> DEFINE t == CString(s)
           I == {i \in 1..Len(t) : ~IsSpace(t[i])}
           first == SelectInSeq(t, LAMBDA b : ~IsSpace(b))
           ds == UpTo(<<>>, Byte \ DOMAIN Digit)
<1>1. \A k \in 1 .. n : s[k] # NUL  BY Letters, Spaces DEF BlankTo
<1>2. Len(t) = n /\ \A k \in 1 .. n : t[k] = s[k]  BY <1>1, CStringIs DEF BlankTo
<1>3. I = {}
  <2> HIDE DEF t
  <2> QED  BY <1>2 DEF BlankTo
<1>4. first = 0  BY <1>3 DEF SelectInSeq
<1>5. ds = <<>>
  <2>1. <<>> \in Seq(Byte) /\ Len(<<>>) = 0  OBVIOUS
  <2>2. 0 \in 0 .. Len(<<>>) /\ (\A k \in 1 .. 0 : <<>>[k] \notin Byte \ DOMAIN Digit) /\ 0 = Len(<<>>)
    BY <2>1
  <2>3. ds = SubSeq(<<>>, 1, 0)  BY <2>1, <2>2, UpToIs
  <2> QED  BY <2>3, SubSeqEmpty
<1>6. Number(<<>>) = 0  BY NumberType
<1>7. atoi(s) = Number(ds)
  <2> HIDE DEF t, ds
  <2> QED  BY <1>4 DEF atoi, t, ds
<1> QED  BY <1>5, <1>6, <1>7

\* A number is that of its digits, with its sign.
LEMMA AtoiNumber ==
  ASSUME NEW s \in Seq(Byte), NEW a, NEW e, NumberIn(s, a, e)
  PROVE  /\ Number(SubSeq(s, DigitsFrom(s, a), e)) \in Nat
         /\ atoi(s) = IF s[a] = "-" THEN -Number(SubSeq(s, DigitsFrom(s, a), e))
                      ELSE Number(SubSeq(s, DigitsFrom(s, a), e))
<1> DEFINE b == DigitsFrom(s, a)
           t == CString(s)
           I == {i \in 1..Len(t) : ~IsSpace(t[i])}
           first == SelectInSeq(t, LAMBDA x : ~IsSpace(x))
           u == From(t, first)
           neg == s[a] = "-"
           z == IF neg THEN Tail(u) ELSE u
           stops == Byte \ DOMAIN Digit
           ds == UpTo(z, stops)
<1>1. /\ Len(s) \in Nat /\ a \in 1 .. Len(s) /\ ~IsSpace(s[a]) /\ s[a] # NUL
      /\ b \in {a, a + 1} /\ (b = a + 1 <=> neg)
      /\ \A k \in 1 .. a - 1 : IsSpace(s[k])
  BY LenProperties DEF NumberIn, DigitsFrom
<1>2. /\ e \in b - 1 .. Len(s) /\ (\A k \in b .. e : s[k] \in DOMAIN Digit)
      /\ e = Len(s) \/ s[e + 1] \notin DOMAIN Digit
  BY DEF NumberIn
<1> HIDE DEF b
<1>3. PICK m \in 0 .. Len(s) :
        /\ \A k \in 1 .. m : s[k] # NUL
        /\ m = Len(s) \/ s[m + 1] = NUL
        /\ t \in Seq(Byte) /\ Len(t) = m /\ \A k \in 1 .. m : t[k] = s[k]
  BY CStringOf
<1> HIDE DEF t
<1>4. \A k \in 1 .. e : s[k] # NUL
  <2> TAKE k \in 1 .. e
  <2>1. CASE k \in 1 .. a - 1  BY <1>1, <2>1, Letters, Spaces
  <2>2. CASE k = a  BY <1>1, <2>2
  <2>3. CASE k \in b .. e  BY <1>2, <2>3, Digits
  <2> QED  BY <1>1, <1>2, <2>1, <2>2, <2>3
<1>5. m >= e /\ m >= a
  <2>1. ~ (m < e)
    <3> SUFFICES ASSUME m < e PROVE FALSE
      OBVIOUS
    <3>1. m + 1 \in 1 .. e /\ m # Len(s)  BY <1>1, <1>2
    <3> QED  BY <1>3, <1>4, <3>1
  <2>2. ~ (m < a)
    <3> SUFFICES ASSUME m < a PROVE FALSE
      OBVIOUS
    <3>1. CASE m + 1 = a  BY <1>1, <1>3, <3>1
    <3>2. CASE m + 1 < a
      <4>1. m + 1 \in 1 .. a - 1 /\ m # Len(s)  BY <1>1, <3>2
      <4> QED  BY <1>1, <1>3, <4>1, Letters, Spaces
    <3> QED  BY <1>1, <3>1, <3>2
  <2> QED  BY <1>1, <1>2, <2>1, <2>2
<1>6. first = a
  <2>1. first = IF I # {} THEN Min(I) ELSE 0  BY DEF SelectInSeq
  <2>2. I \subseteq 1 .. m  BY <1>3
  <2>3. a \in I  BY <1>1, <1>3, <1>5
  <2>4. ASSUME NEW k \in I PROVE ~ (k < a)
    <3> SUFFICES ASSUME k < a PROVE FALSE
      OBVIOUS
    <3>1. k \in 1 .. a - 1 /\ k \in 1 .. m  BY <1>1, <2>2
    <3> QED  BY <1>1, <1>3, <3>1
  <2> HIDE DEF I, first
  <2>5. m \in Nat  BY <1>1
  <2>6. /\ first \in 0 .. m /\ (first = 0 <=> I = {})
        /\ first # 0 => first \in I
        /\ \A k \in I : first <= k
    BY <2>1, <2>2, <2>5, FirstPlace
  <2>7. first \in I /\ first <= a  BY <2>3, <2>6
  <2>8. ~ (first < a)  BY <2>4, <2>7
  <2> QED  BY <1>1, <2>6, <2>7, <2>8
<1> HIDE DEF first
<1>7. /\ u \in Seq(Byte) /\ Len(u) = m - a + 1 /\ Len(u) >= 1
      /\ \A k \in 1 .. m - a + 1 : u[k] = s[a + k - 1]
  <2>1. a \in Nat \ {0} /\ a <= Len(t) + 1  BY <1>1, <1>3, <1>5
  <2>2. /\ u \in Seq(Byte) /\ Len(u) = Len(t) - a + 1
        /\ \A k \in 1 .. Len(t) - a + 1 : u[k] = t[a + k - 1]
    BY <1>3, <1>6, <2>1, RestProperties
  <2> HIDE DEF u
  <2>3. ASSUME NEW k \in 1 .. m - a + 1 PROVE u[k] = s[a + k - 1]
    <3>1. a + k - 1 \in 1 .. m  BY <1>1, <1>3, <1>5
    <3> QED  BY <1>3, <2>2, <3>1
  <2> QED  BY <1>1, <1>3, <1>5, <2>2, <2>3
<1> HIDE DEF u
<1>8. u # <<>> /\ u[1] = s[a]
  <2>1. 1 \in 1 .. m - a + 1 /\ a + 1 - 1 = a  BY <1>1, <1>5
  <2> QED  BY <1>7, <2>1
<1>9. /\ z \in Seq(Byte) /\ Len(z) = m - b + 1
      /\ \A k \in 1 .. m - b + 1 : z[k] = s[b + k - 1]
  <2>1. CASE neg
    <3>1. /\ Tail(u) \in Seq(Byte) /\ Len(Tail(u)) = Len(u) - 1
          /\ \A k \in 1 .. Len(u) - 1 : Tail(u)[k] = u[k + 1]
      BY <1>7, <1>8, HeadTailProperties
    <3>2. z = Tail(u) /\ b = a + 1  BY <1>1, <2>1
    <3> HIDE DEF z
    <3>3. ASSUME NEW k \in 1 .. m - b + 1 PROVE z[k] = s[b + k - 1]
      <4>1. k \in 1 .. Len(u) - 1 /\ k + 1 \in 1 .. m - a + 1 /\ a + (k + 1) - 1 = b + k - 1
        BY <1>1, <1>5, <1>7, <3>2
      <4>2. z[k] = u[k + 1] /\ u[k + 1] = s[a + (k + 1) - 1]  BY <1>7, <3>1, <3>2, <4>1
      <4> QED  BY <4>1, <4>2
    <3>4. Len(z) = m - b + 1  BY <1>1, <1>7, <3>1, <3>2
    <3> QED  BY <3>1, <3>2, <3>3, <3>4
  <2>2. CASE ~neg
    <3>1. z = u /\ b = a  BY <1>1, <2>2
    <3> QED  BY <1>7, <3>1
  <2> QED  BY <2>1, <2>2
<1>10. u # <<>> /\ u[1] = "-" <=> neg  BY <1>8
<1> HIDE DEF z
<1>11. ds = SubSeq(z, 1, e - b + 1)
  <2>1. e - b + 1 \in 0 .. Len(z)  BY <1>1, <1>2, <1>5, <1>9
  <2>2. ASSUME NEW k \in 1 .. e - b + 1 PROVE z[k] \notin stops
    <3>1. b + k - 1 \in b .. e /\ k \in 1 .. m - b + 1  BY <1>1, <1>2, <1>5
    <3> QED  BY <1>2, <1>9, <3>1
  <2>3. e - b + 1 = Len(z) \/ z[e - b + 1 + 1] \in stops
    <3>1. CASE m = e  BY <1>9, <3>1
    <3>2. CASE m # e
      <4>1. e + 1 \in 1 .. Len(s) /\ e - b + 1 + 1 \in 1 .. m - b + 1 /\ b + (e - b + 1 + 1) - 1 = e + 1
        BY <1>1, <1>2, <1>5, <3>2
      <4>2. s[e + 1] \in Byte /\ s[e + 1] \notin DOMAIN Digit
        <5>1. e # Len(s)  BY <1>1, <1>2, <1>5, <3>2
        <5> QED  BY <1>2, <4>1, <5>1, ElementOfSeq
      <4>3. z[e - b + 1 + 1] = s[b + (e - b + 1 + 1) - 1]  BY <1>9, <4>1
      <4> QED  BY <4>1, <4>2, <4>3
    <3> QED  BY <3>1, <3>2
  <2> HIDE DEF stops
  <2> QED  BY <1>9, <2>1, <2>2, <2>3, UpToIs
<1>12. ds = SubSeq(s, b, e) /\ Len(ds) = e - b + 1 /\ \A k \in 1 .. e - b + 1 : ds[k] = s[b + k - 1]
  <2>0. PICK q \in Nat : q = e - b + 1 /\ q <= Len(z)  BY <1>1, <1>2, <1>5, <1>9
  <2> DEFINE w == SubSeq(z, 1, q)
  <2>1. /\ w \in Seq(Byte) /\ Len(w) = q - 1 + 1
        /\ \A k \in 1 .. q - 1 + 1 : w[k] = z[1 + k - 1]
    BY <1>9, <2>0, PieceProperties
  <2> HIDE DEF w
  <2>2. Len(w) = e - b + 1 /\ \A k \in 1 .. e - b + 1 : w[k] = s[b + k - 1]
    <3>1. Len(w) = e - b + 1  BY <1>1, <1>2, <2>0, <2>1
    <3>2. ASSUME NEW k \in 1 .. e - b + 1 PROVE w[k] = s[b + k - 1]
      <4>1. k \in 1 .. q - 1 + 1 /\ 1 + k - 1 = k /\ k \in 1 .. m - b + 1
        BY <1>1, <1>2, <1>5, <2>0
      <4> QED  BY <1>9, <2>1, <4>1
    <3> QED  BY <3>1, <3>2
  <2>3. b \in Nat \ {0} /\ e \in Nat /\ e <= Len(s) /\ b <= e + 1  BY <1>1, <1>2
  <2>4. w = SubSeq(s, b, e)  BY <2>1, <2>2, <2>3, IsPiece
  <2>5. ds = w  BY <1>11, <2>0 DEF w
  <2> QED  BY <2>2, <2>4, <2>5
<1> HIDE DEF ds
<1>13. Number(ds) \in Nat
  <2>1. Len(ds) \in Nat  BY <1>1, <1>2, <1>12
  <2>2. ASSUME NEW k \in 1 .. Len(ds) PROVE Digit[ds[k]] \in Nat
    <3>1. b + k - 1 \in b .. e /\ k \in 1 .. e - b + 1  BY <1>1, <1>2, <1>12
    <3>2. ds[k] \in DOMAIN Digit  BY <1>2, <1>12, <3>1
    <3> QED  BY <3>2, Digits
  <2> QED  BY <2>1, <2>2, NumberType
<1>14. atoi(s) = IF neg THEN -Number(ds) ELSE Number(ds)
  <2>1. first # 0  BY <1>1, <1>6
  <2> HIDE DEF neg
  <2> QED  BY <1>10, <2>1 DEF atoi, t, first, u, z, ds, stops
<1> QED  BY <1>12, <1>13, <1>14 DEF b

\* Every string has a number.
LEMMA AtoiType ==
  ASSUME NEW s \in Seq(Byte)
  PROVE  atoi(s) \in Int
<1>1. CASE \E n \in Nat : BlankTo(s, n)  BY <1>1, AtoiBlank
<1>2. CASE \E a \in Nat, e \in Nat : NumberIn(s, a, e)
  <2>1. PICK a \in Nat, e \in Nat : NumberIn(s, a, e)  BY <1>2
  <2> DEFINE x == Number(SubSeq(s, DigitsFrom(s, a), e))
  <2>2. x \in Nat /\ atoi(s) = IF s[a] = "-" THEN -x ELSE x  BY <2>1, AtoiNumber
  <2> HIDE DEF x
  <2>3. x \in Int /\ -x \in Int  BY <2>2
  <2> QED  BY <2>2, <2>3
<1> QED  BY <1>1, <1>2, AtoiForm

\* Blanks before a text, and what ends the string behind it or a newline, do
\* not change its number.
LEMMA AtoiSame ==
  ASSUME NEW t \in Seq(Byte), NEW r \in Seq(Byte), NEW d \in Nat,
         Len(t) + d <= Len(r),
         \A k \in 1 .. d : IsSpace(r[k]), \A k \in 1 .. Len(t) : r[k + d] = t[k],
         NEW f \in {Len(t) + d, Len(t) + d + 1}, f <= Len(r),
         f = Len(t) + d + 1 => r[f] = LF,
         f = Len(r) \/ r[f + 1] = NUL
  PROVE  atoi(r) = atoi(t)
<1>1. Len(t) \in Nat /\ Len(r) \in Nat /\ f \in Nat  BY LenProperties
<1>2. IsSpace(LF)  BY DEF IsSpace
<1>3. CASE \E n \in Nat : BlankTo(t, n)
  <2>1. PICK n \in Nat : BlankTo(t, n)  BY <1>3
  <2>2. n \in 0 .. Len(t) /\ (\A k \in 1 .. n : IsSpace(t[k])) /\ (n = Len(t) \/ t[n + 1] = NUL)
    BY <2>1 DEF BlankTo
  <2>3. ASSUME NEW k \in 1 .. n + d PROVE IsSpace(r[k])
    <3>1. CASE k <= d  BY <3>1
    <3>2. CASE k > d
      <4>1. k - d \in 1 .. n /\ k - d \in 1 .. Len(t) /\ (k - d) + d = k  BY <1>1, <2>2, <3>2
      <4>2. r[(k - d) + d] = t[k - d]  BY <4>1
      <4> QED  BY <2>2, <4>1, <4>2
    <3> QED  BY <3>1, <3>2
  <2>4. \E m \in Nat : BlankTo(r, m)
    <3>1. CASE n < Len(t)
      <4>1. n + 1 \in 1 .. Len(t) /\ (n + 1) + d = n + d + 1 /\ n + d \in 0 .. Len(r) /\ n # Len(t)
        BY <1>1, <2>2, <3>1
      <4>2. r[(n + 1) + d] = t[n + 1]  BY <4>1
      <4>3. r[n + d + 1] = NUL  BY <2>2, <4>1, <4>2
      <4>4. BlankTo(r, n + d)  BY <2>3, <4>1, <4>3 DEF BlankTo
      <4> QED  BY <4>1, <4>4
    <3>2. CASE n = Len(t)
      <4>1. f \in 0 .. Len(r)  BY <1>1
      <4>2. ASSUME NEW k \in 1 .. f PROVE IsSpace(r[k])
        <5>1. k \in 1 .. n + d \/ (k = f /\ f = Len(t) + d + 1)  BY <1>1, <3>2
        <5> QED  BY <1>2, <2>3, <5>1
      <4>3. BlankTo(r, f)  BY <4>1, <4>2 DEF BlankTo
      <4> QED  BY <1>1, <4>3
    <3> QED  BY <1>1, <2>2, <3>1, <3>2
  <2> QED  BY <2>1, <2>4, AtoiBlank
<1>4. CASE \E a \in Nat, e \in Nat : NumberIn(t, a, e)
  <2>1. PICK a \in Nat, e \in Nat : NumberIn(t, a, e)  BY <1>4
  <2> DEFINE b == DigitsFrom(t, a)
  <2>2. /\ a \in 1 .. Len(t) /\ (\A k \in 1 .. a - 1 : IsSpace(t[k])) /\ ~IsSpace(t[a]) /\ t[a] # NUL
        /\ e \in b - 1 .. Len(t) /\ (\A k \in b .. e : t[k] \in DOMAIN Digit)
        /\ e = Len(t) \/ t[e + 1] \notin DOMAIN Digit
    BY <2>1 DEF NumberIn
  <2>3. r[a + d] = t[a]  BY <2>2
  <2>4. b \in {a, a + 1} /\ DigitsFrom(r, a + d) = b + d
    <3>1. a + d + 1 = a + 1 + d  BY <2>2
    <3> QED  BY <2>3, <3>1 DEF DigitsFrom
  <2> HIDE DEF b
  <2>5. ASSUME NEW k \in 1 .. a + d - 1 PROVE IsSpace(r[k])
    <3>1. CASE k <= d  BY <3>1
    <3>2. CASE k > d
      <4>1. k - d \in 1 .. a - 1 /\ k - d \in 1 .. Len(t) /\ (k - d) + d = k  BY <1>1, <2>2, <3>2
      <4>2. r[(k - d) + d] = t[k - d]  BY <4>1
      <4> QED  BY <2>2, <4>1, <4>2
    <3> QED  BY <3>1, <3>2
  <2>6. ASSUME NEW k \in b + d .. e + d PROVE r[k] = t[k - d] /\ r[k] \in DOMAIN Digit
    <3>1. k - d \in b .. e /\ k - d \in 1 .. Len(t) /\ (k - d) + d = k  BY <1>1, <2>2, <2>4
    <3>2. r[(k - d) + d] = t[k - d]  BY <3>1
    <3> QED  BY <2>2, <3>1, <3>2
  <2>7. e + d = Len(r) \/ r[e + d + 1] \notin DOMAIN Digit
    <3>1. CASE e = Len(t)
      <4>1. CASE f = Len(t) + d  BY <1>1, <3>1, <4>1, Digits
      <4>2. CASE f = Len(t) + d + 1
        <5>1. e + d + 1 = f  BY <1>1, <3>1, <4>2
        <5> QED  BY <4>2, <5>1, Digits
      <4> QED  BY <4>1, <4>2
    <3>2. CASE e # Len(t)
      <4>1. e + 1 \in 1 .. Len(t) /\ (e + 1) + d = e + d + 1  BY <1>1, <2>2, <2>4, <3>2
      <4>2. r[(e + 1) + d] = t[e + 1]  BY <4>1
      <4> QED  BY <2>2, <3>2, <4>1, <4>2
    <3> QED  BY <3>1, <3>2
  <2>8. NumberIn(r, a + d, e + d)
    <3>1. a + d \in 1 .. Len(r) /\ e + d \in b + d - 1 .. Len(r)  BY <1>1, <2>2, <2>4
    <3>2. ~IsSpace(r[a + d]) /\ r[a + d] # NUL  BY <2>2, <2>3
    <3>3. \A k \in b + d .. e + d : r[k] \in DOMAIN Digit  BY <2>6
    <3>4. \A k \in 1 .. a + d - 1 : IsSpace(r[k])  BY <2>5
    <3> QED  BY <2>4, <2>7, <3>1, <3>2, <3>3, <3>4 DEF NumberIn
  <2>9. SubSeq(r, b + d, e + d) = SubSeq(t, b, e)
    <3> DEFINE w == SubSeq(r, b + d, e + d)
    <3>1. PICK g \in Nat \ {0}, h \in Nat : g = b + d /\ h = e + d /\ h <= Len(r) /\ g <= h + 1
      BY <1>1, <2>2, <2>4
    <3>2. /\ SubSeq(r, g, h) \in Seq(Byte) /\ Len(SubSeq(r, g, h)) = h - g + 1
          /\ \A k \in 1 .. h - g + 1 : SubSeq(r, g, h)[k] = r[g + k - 1]
      BY <3>1, PieceProperties
    <3>3. w \in Seq(Byte) /\ Len(w) = h - g + 1 /\ \A k \in 1 .. h - g + 1 : w[k] = r[g + k - 1]
      BY <3>1, <3>2
    <3> HIDE DEF w
    <3>4. Len(w) = e - b + 1  BY <2>2, <2>4, <3>1, <3>3
    <3>5. ASSUME NEW k \in 1 .. e - b + 1 PROVE w[k] = t[b + k - 1]
      <4>1. k \in 1 .. h - g + 1 /\ g + k - 1 \in b + d .. e + d /\ (g + k - 1) - d = b + k - 1
        BY <1>1, <2>2, <2>4, <3>1
      <4>2. r[g + k - 1] = t[(g + k - 1) - d]  BY <2>6, <4>1
      <4> QED  BY <3>3, <4>1, <4>2
    <3>6. b \in Nat \ {0} /\ e \in Nat /\ e <= Len(t) /\ b <= e + 1  BY <1>1, <2>2, <2>4
    <3>7. w = SubSeq(t, b, e)  BY <3>3, <3>4, <3>5, <3>6, IsPiece
    <3> QED  BY <3>7 DEF w
  <2> DEFINE x == Number(SubSeq(t, b, e))
  <2>10. atoi(t) = IF t[a] = "-" THEN -x ELSE x  BY <2>1, AtoiNumber DEF b
  <2>11. atoi(r) = IF r[a + d] = "-" THEN -x ELSE x
    <3>1. atoi(r) = IF r[a + d] = "-" THEN -Number(SubSeq(r, DigitsFrom(r, a + d), e + d))
                    ELSE Number(SubSeq(r, DigitsFrom(r, a + d), e + d))
      BY <2>8, AtoiNumber
    <3> QED  BY <2>4, <2>9, <3>1
  <2> HIDE DEF x
  <2> QED  BY <2>3, <2>10, <2>11
<1> QED  BY <1>3, <1>4, AtoiForm

---------------------------------------------------------------------------
(* A header line in the buffer.                                            *)

N == Len(Name)
Arrays == [1..BufSize -> Byte]

\* An array of bytes is a sequence of them.
LEMMA ArrayString == \A b \in Arrays : b \in Seq(Byte) /\ Len(b) = BufSize
<1> TAKE b \in Arrays
<1>1. b = [i \in 1..BufSize |-> b[i]] /\ \A i \in 1..BufSize : b[i] \in Byte  BY DEF Arrays
<1>2. [i \in 1..BufSize |-> b[i]] \in Seq(Byte)  BY <1>1, Sizes, IsASeq
<1>3. b \in Seq(Byte)  BY <1>1, <1>2
<1>4. DOMAIN b = 1..BufSize  BY DEF Arrays
<1>5. Len(b) \in Nat /\ DOMAIN b = 1..Len(b)  BY <1>3, LenProperties
<1>6. Len(b) = BufSize  BY <1>4, <1>5, Sizes
<1> QED  BY <1>3, <1>6

\* The name, and what a header line may be.
LEMMA NameType ==
  /\ Name \in Seq(Byte) /\ N \in Nat /\ 1 <= N /\ N + 1 < BufSize
  /\ \A k \in 1 .. N : Name[k] \in Byte /\ Name[k] # NUL /\ Name[k] # POST
<1>1. Name \in Seq(Others) /\ Name # <<>> /\ N + 1 < BufSize  BY Zenon, RequestAssumption DEF N
<1>2. Others \subseteq Byte  BY DEF Byte
<1>3. NUL \notin Others /\ POST \notin Others
  <2>1. Others \cap {NUL, LF, Blank, GET, POST} = {}  BY Zenon, RequestAssumption
  <2> QED  BY Zenon, <2>1
<1>4. N \in Nat /\ N # 0  BY <1>1, LenProperties, EmptySeq DEF N
<1>5. \A k \in 1 .. N : Name[k] \in Others  BY <1>1, ElementOfSeq DEF N
<1>6. Name \in Seq(Byte)  BY <1>1, <1>2
<1> QED  BY <1>1, <1>2, <1>3, <1>4, <1>5, <1>6

LEMMA HeaderType ==
  ASSUME NEW h \in Headers
  PROVE  /\ h.name \in BOOLEAN /\ h.value \in Seq(Byte) /\ h.cut \in BOOLEAN
         /\ Len(h.value) \in Nat /\ Len(h.value) + N + 1 < BufSize
<1>1. Headers \subseteq Header /\ \A g \in Headers : Len(g.value) + Len(Name) + 1 < BufSize
  BY Zenon, RequestAssumption
<1>2. h \in [name : BOOLEAN, value : Seq(Byte), cut : BOOLEAN]  BY <1>1 DEF Header
<1>3. h.value \in Seq(Byte)  BY <1>2
<1> QED  BY <1>1, <1>2, <1>3, LenProperties DEF N

\* Its bytes.
LEMMA BytesOf ==
  ASSUME NEW h \in Headers
  PROVE  LET v == h.value  B == Bytes(h)  n == IF h.name THEN N ELSE 1  c == IF h.cut THEN 0 ELSE 1 IN
         /\ B \in Seq(Byte) /\ Len(B) = n + Len(v) + c /\ Len(B) < BufSize
         /\ h.name => \A k \in 1 .. N : B[k] = Name[k]
         /\ ~h.name => B[1] = POST
         /\ \A k \in 1 .. Len(v) : B[n + k] = v[k]
         /\ ~h.cut => B[n + Len(v) + 1] = LF
<1> DEFINE v == h.value
           B == Bytes(h)
           n == IF h.name THEN N ELSE 1
           c == IF h.cut THEN 0 ELSE 1
           first == IF h.name THEN Name ELSE <<POST>>
           last == IF h.cut THEN <<>> ELSE <<LF>>
           fv == first \o v
<1>1. v \in Seq(Byte) /\ Len(v) \in Nat /\ Len(v) + N + 1 < BufSize /\ N \in Nat /\ 1 <= N
  BY HeaderType, NameType
<1>2. first \in Seq(Byte) /\ Len(first) = n /\ n \in Nat /\ 1 <= n /\ n <= N
  <2>1. <<POST>> \in Seq(Byte) /\ Len(<<POST>>) = 1
    <3>1. POST \in Byte  BY Letters
    <3> QED  BY <3>1
  <2>2. Name \in Seq(Byte) /\ Len(Name) = N  BY NameType DEF N
  <2> QED  BY <1>1, <2>1, <2>2
<1>3. last \in Seq(Byte) /\ Len(last) = c /\ c \in 0 .. 1 /\ (~h.cut => c = 1 /\ last[1] = LF)
  <2>1. LF \in Byte  BY Letters DEF Space
  <2>2. <<LF>> \in Seq(Byte) /\ Len(<<LF>>) = 1 /\ <<LF>>[1] = LF  BY <2>1
  <2>3. <<>> \in Seq(Byte) /\ Len(<<>>) = 0  OBVIOUS
  <2> QED  BY <2>2, <2>3
<1>4. h.name => \A k \in 1 .. N : first[k] = Name[k]  OBVIOUS
<1>5. ~h.name => first[1] = POST  OBVIOUS
<1>6. B = fv \o last  BY DEF Bytes
<1> HIDE DEF v, n, c, first, last
<1>7. /\ fv \in Seq(Byte) /\ Len(fv) = Len(first) + Len(v)
      /\ \A i \in 1..Len(first) + Len(v) : fv[i] = IF i <= Len(first) THEN first[i] ELSE v[i - Len(first)]
  BY <1>1, <1>2, ConcatProperties
<1> HIDE DEF fv, B
<1>8. /\ B \in Seq(Byte) /\ Len(B) = Len(fv) + Len(last)
      /\ \A i \in 1..Len(fv) + Len(last) : B[i] = IF i <= Len(fv) THEN fv[i] ELSE last[i - Len(fv)]
  BY <1>3, <1>6, <1>7, ConcatProperties
<1>9. Len(B) = n + Len(v) + c /\ Len(B) < BufSize  BY <1>1, <1>2, <1>3, <1>7, <1>8, NameType, Sizes
<1>10. ASSUME NEW k \in 1 .. n PROVE B[k] = first[k]
  <2>1. k \in 1..Len(first) + Len(v) /\ k \in 1..Len(fv) + Len(last) /\ k <= Len(fv) /\ k <= Len(first)
    BY <1>1, <1>2, <1>3, <1>7
  <2> QED  BY <1>7, <1>8, <2>1
<1>11. ASSUME NEW k \in 1 .. Len(v) PROVE B[n + k] = v[k]
  <2>1. PICK q \in Nat : q = n + k  BY <1>2
  <2>2. q \in 1..Len(first) + Len(v) /\ ~ (q <= Len(first)) /\ q - Len(first) = k  BY <1>1, <1>2, <2>1
  <2>3. q \in 1..Len(fv) + Len(last) /\ q <= Len(fv)  BY <1>1, <1>2, <1>3, <1>7, <2>1
  <2>4. fv[q] = v[k]  BY <1>7, <2>2
  <2>5. B[q] = fv[q]  BY <1>8, <2>3
  <2> QED  BY <2>1, <2>4, <2>5
<1>12. ASSUME ~h.cut PROVE B[n + Len(v) + 1] = LF
  <2>1. /\ n + Len(v) + 1 \in 1..Len(fv) + Len(last) /\ ~ (n + Len(v) + 1 <= Len(fv))
        /\ n + Len(v) + 1 - Len(fv) = 1
    BY <1>1, <1>2, <1>3, <1>7, <1>12
  <2> QED  BY <1>3, <1>8, <1>12, <2>1
<1>13. h.name => \A k \in 1 .. N : B[k] = Name[k]
  <2> SUFFICES ASSUME h.name, NEW k \in 1 .. N PROVE B[k] = Name[k]
    OBVIOUS
  <2>1. n = N  BY DEF n
  <2> QED  BY <1>4, <1>10, <2>1
<1>14. ~h.name => B[1] = POST
  <2>1. 1 \in 1 .. n  BY <1>2
  <2> QED  BY <1>5, <1>10, <2>1
<1> QED  BY <1>8, <1>9, <1>11, <1>12, <1>13, <1>14 DEF v, n, c, B

\* What a line leaves in the array, the byte behind the name cut off.
LEMMA StoredLine ==
  ASSUME NEW line \in Seq(Byte), Len(line) < BufSize, NEW old \in Arrays
  PROVE  /\ Stored(line, old) \in Arrays
         /\ \A k \in 1 .. Len(line) : Stored(line, old)[k] = line[k]
         /\ Stored(line, old)[Len(line) + 1] = NUL
<1>1. Len(line) \in Nat  BY LenProperties
<1>2. ASSUME NEW k \in 1..BufSize
      PROVE  (IF k <= Len(line) THEN line[k] ELSE IF k = Len(line) + 1 THEN NUL ELSE old[k]) \in Byte
  <2>1. old[k] \in Byte  BY DEF Arrays
  <2>2. k <= Len(line) => line[k] \in Byte
    <3>1. k <= Len(line) => k \in 1 .. Len(line)  BY <1>1, Sizes
    <3> QED  BY <3>1, ElementOfSeq
  <2> QED  BY <2>1, <2>2, Letters
<1>3. Stored(line, old) \in Arrays  BY <1>2 DEF Stored, Arrays
<1>4. ASSUME NEW k \in 1 .. Len(line) PROVE Stored(line, old)[k] = line[k]
  <2>1. k \in 1..BufSize /\ k <= Len(line)  BY <1>1, Sizes
  <2> QED  BY <2>1 DEF Stored
<1>5. Stored(line, old)[Len(line) + 1] = NUL
  <2>1. Len(line) + 1 \in 1..BufSize /\ ~ (Len(line) + 1 <= Len(line))  BY <1>1, Sizes
  <2> QED  BY <2>1 DEF Stored
<1> QED  BY <1>3, <1>4, <1>5

\* The value of what follows the name: its number, but for the byte behind the
\* name, which is cut off.
Value(v) == IF v = <<>> THEN 0 ELSE IF v[1] = Blank THEN atoi(v) ELSE atoi(Tail(v))

LEMMA CutByte ==
  ASSUME NEW v \in Seq(Byte), v # <<>>
  PROVE  /\ Tail(v) \in Seq(Byte) /\ Len(Tail(v)) = Len(v) - 1 /\ Len(v) \in Nat \ {0}
         /\ \A k \in 1 .. Len(v) - 1 : Tail(v)[k] = v[k + 1]
         /\ Value(v) = atoi(Tail(v))
<1> DEFINE t == Tail(v)
<1>1. t \in Seq(Byte) /\ Len(t) = Len(v) - 1 /\ \A k \in 1 .. Len(v) - 1 : t[k] = v[k + 1]
  BY HeadTailProperties
<1>2. Len(v) \in Nat \ {0}  BY LenProperties, EmptySeq
<1> HIDE DEF t
<1>3. v[1] = Blank => atoi(v) = atoi(t)
  <2> SUFFICES ASSUME v[1] = Blank PROVE atoi(v) = atoi(t)
    OBVIOUS
  <2>1. \A k \in 1 .. 1 : IsSpace(v[k])  BY DEF IsSpace
  <2>2. \A k \in 1 .. Len(t) : v[k + 1] = t[k]  BY <1>1, <1>2
  <2>3. PICK d \in Nat : d = 1  OBVIOUS
  <2>4. PICK f \in {Len(t) + d, Len(t) + d + 1} : f = Len(v)  BY <1>1, <1>2, <2>3
  <2>5. f # Len(t) + d + 1 /\ Len(t) + d <= Len(v)  BY <1>1, <1>2, <2>3, <2>4
  <2> QED  BY <1>1, <2>1, <2>2, <2>3, <2>4, <2>5, AtoiSame
<1>4. Value(v) = atoi(t)  BY <1>3 DEF Value, t
<1> QED  BY <1>1, <1>2, <1>4 DEF t

\* What the loop makes of a line over any earlier one: it knows the name, and
\* reads the number behind it, unless the stream ended on the name.
LEMMA HeaderRead ==
  ASSUME NEW h \in Headers, NEW old \in Arrays,
         NEW b, b = [Stored(Bytes(h), old) EXCEPT ![N + 1] = NUL]
  PROVE  /\ b \in Arrays /\ (CString(b) = Name <=> h.name) /\ atoi(From(b, N + 2)) \in Int
         /\ h.name /\ ~ (h.cut /\ h.value = <<>>) => atoi(From(b, N + 2)) = Value(h.value)
<1> DEFINE v == h.value
           line == Bytes(h)
           s == Stored(line, old)
           n == IF h.name THEN N ELSE 1
           c == IF h.cut THEN 0 ELSE 1
           r == From(b, N + 2)
<1>1. v \in Seq(Byte) /\ Len(v) \in Nat /\ N \in Nat /\ 1 <= N /\ N + 1 < BufSize /\ BufSize \in Nat
  BY HeaderType, NameType, Sizes
<1>2. /\ line \in Seq(Byte) /\ Len(line) = n + Len(v) + c /\ Len(line) < BufSize
      /\ h.name => \A k \in 1 .. N : line[k] = Name[k]
      /\ ~h.name => line[1] = POST
      /\ \A k \in 1 .. Len(v) : line[n + k] = v[k]
      /\ ~h.cut => line[n + Len(v) + 1] = LF
  BY BytesOf
<1>3. n \in {1, N} /\ (h.name => n = N) /\ c \in 0 .. 1 /\ (c = 0 <=> h.cut)  BY HeaderType
<1> HIDE DEF v, line, n, c
<1>4. s \in Arrays /\ (\A k \in 1 .. Len(line) : s[k] = line[k]) /\ s[Len(line) + 1] = NUL
  BY <1>2, StoredLine
<1>5. Len(line) \in Nat /\ Len(line) >= 1  BY <1>1, <1>2, <1>3
<1>6. b \in Arrays /\ b[N + 1] = NUL /\ \A k \in 1 .. BufSize : k # N + 1 => b[k] = s[k]
  <2>1. b = [s EXCEPT ![N + 1] = NUL]  BY DEF line
  <2> HIDE DEF s
  <2>2. N + 1 \in 1..BufSize /\ NUL \in Byte  BY <1>1, Letters
  <2> QED  BY <1>4, <2>1, <2>2 DEF Arrays
<1> HIDE DEF s
<1>7. b \in Seq(Byte) /\ Len(b) = BufSize  BY <1>6, ArrayString
<1>8. ASSUME NEW k \in 1 .. Len(line), k # N + 1 PROVE b[k] = line[k]
  <2>1. k \in 1 .. BufSize  BY <1>1, <1>2, <1>5
  <2> QED  BY <1>4, <1>6, <1>8, <2>1
<1>9. b[Len(line) + 1] = NUL
  <2>1. Len(line) + 1 \in 1 .. BufSize  BY <1>1, <1>2, <1>5
  <2> QED  BY <1>4, <1>6, <2>1
<1>10. ASSUME h.name PROVE CString(b) = Name
  <2>1. ASSUME NEW k \in 1 .. N PROVE b[k] = Name[k]
    <3>1. k \in 1 .. Len(line) /\ k # N + 1  BY <1>1, <1>2, <1>3, <1>10
    <3> QED  BY <1>2, <1>8, <1>10, <3>1
  <2>2. \A k \in 1 .. N : b[k] # NUL  BY <2>1, NameType
  <2>3. N \in 0 .. Len(b)  BY <1>1, <1>7
  <2> DEFINE t == CString(b)
  <2>4. t \in Seq(Byte) /\ Len(t) = N /\ \A k \in 1 .. N : t[k] = b[k]
    BY <1>6, <1>7, <2>2, <2>3, CStringIs
  <2> HIDE DEF t
  <2>5. Name \in Seq(Byte) /\ Len(Name) = N  BY NameType DEF N
  <2>6. t = Name  BY <2>1, <2>4, <2>5, SeqEqual
  <2> QED  BY <2>6 DEF t
<1>11. ASSUME ~h.name PROVE CString(b) # Name
  <2>1. b[1] = POST
    <3>1. 1 \in 1 .. Len(line) /\ 1 # N + 1  BY <1>1, <1>5
    <3> QED  BY <1>2, <1>8, <1>11, <3>1
  <2>2. PICK m \in 0 .. Len(b) :
          /\ m = Len(b) \/ b[m + 1] = NUL
          /\ \A k \in 1 .. m : CString(b)[k] = b[k]
    BY <1>7, CStringOf
  <2>3. m # 0  BY <1>1, <1>7, <2>1, <2>2, Letters
  <2>4. CString(b)[1] = POST
    <3>1. 1 \in 1 .. m  BY <1>1, <1>7, <2>3
    <3> QED  BY <2>1, <2>2, <3>1
  <2>5. Name[1] # POST  BY <1>1, NameType
  <2> QED  BY <2>4, <2>5
<1>12. /\ r \in Seq(Byte) /\ Len(r) = BufSize - N - 1
       /\ \A k \in 1 .. BufSize - N - 1 : r[k] = b[N + 1 + k]
  <2>1. PICK m \in Nat \ {0} : m = N + 2 /\ m <= Len(b) + 1  BY <1>1, <1>7
  <2>2. /\ From(b, m) \in Seq(Byte) /\ Len(From(b, m)) = Len(b) - m + 1
        /\ \A k \in 1 .. Len(b) - m + 1 : From(b, m)[k] = b[m + k - 1]
    BY <1>7, <2>1, RestProperties
  <2>3. r = From(b, m)  BY <2>1
  <2>4. Len(b) - m + 1 = BufSize - N - 1 /\ \A k \in 1 .. BufSize - N - 1 : m + k - 1 = N + 1 + k
    BY <1>1, <1>7, <2>1
  <2> HIDE DEF r
  <2> QED  BY <2>2, <2>3, <2>4
<1> HIDE DEF r
<1>13. ASSUME h.name, v = <<>>, ~h.cut PROVE atoi(r) = 0
  <2>1. Len(line) = N + 1  BY <1>1, <1>2, <1>3, <1>13
  <2>2. 1 \in 1 .. BufSize - N - 1 /\ N + 1 + 1 = Len(line) + 1  BY <1>1, <2>1
  <2>3. r[0 + 1] = NUL  BY <1>9, <1>12, <2>2
  <2>4. BlankTo(r, 0)  BY <1>1, <1>12, <2>3 DEF BlankTo
  <2> QED  BY <1>12, <2>4, AtoiBlank
<1>14. ASSUME h.name, v # <<>> PROVE atoi(r) = Value(v)
  <2> DEFINE t == Tail(v)
  <2>1. /\ t \in Seq(Byte) /\ Len(t) = Len(v) - 1 /\ Len(v) \in Nat \ {0}
        /\ \A k \in 1 .. Len(v) - 1 : t[k] = v[k + 1]
        /\ Value(v) = atoi(t)
    BY <1>1, <1>14, CutByte
  <2> HIDE DEF t
  <2>2. n = N  BY <1>3, <1>14
  <2>3. ASSUME NEW k \in 1 .. Len(t) PROVE r[k] = t[k]
    <3>1. /\ k \in 1 .. BufSize - N - 1 /\ k + 1 \in 1 .. Len(v) /\ N + (k + 1) = N + 1 + k
          /\ N + 1 + k \in 1 .. Len(line) /\ N + 1 + k # N + 1
      BY <1>1, <1>2, <1>3, <2>1, <2>2
    <3>2. r[k] = b[N + 1 + k]  BY <1>12, <3>1
    <3>3. b[N + 1 + k] = line[N + 1 + k]  BY <1>8, <3>1
    <3>4. line[N + 1 + k] = v[k + 1]
      <4>1. line[N + (k + 1)] = v[k + 1]  BY <1>2, <2>2, <3>1
      <4> QED  BY <3>1, <4>1
    <3>5. k \in 1 .. Len(v) - 1  BY <2>1
    <3> QED  BY <2>1, <3>2, <3>3, <3>4, <3>5
  <2>4. PICK d \in Nat : d = 0  OBVIOUS
  <2>5. PICK f \in {Len(t) + d, Len(t) + d + 1} : f = Len(t) + c
    BY <1>3, <2>1, <2>4
  <2>6. f \in Nat /\ f <= Len(r) /\ N + 1 + f = Len(line) /\ f + 1 \in 1 .. BufSize - N - 1
    BY <1>1, <1>2, <1>3, <1>12, <2>1, <2>2, <2>5
  <2>7. ASSUME f = Len(t) + d + 1 PROVE r[f] = LF
    <3>1. /\ c = 1 /\ f = Len(v) /\ f \in 1 .. BufSize - N - 1 /\ N + 1 + f = N + Len(v) + 1
          /\ N + 1 + f \in 1 .. Len(line) /\ N + 1 + f # N + 1
      BY <1>1, <1>3, <1>5, <2>1, <2>4, <2>5, <2>6, <2>7
    <3>2. r[f] = b[N + 1 + f]  BY <1>12, <3>1
    <3>3. b[N + 1 + f] = line[N + 1 + f]  BY <1>8, <3>1
    <3>4. line[N + Len(v) + 1] = LF  BY <1>2, <1>3, <2>2, <3>1
    <3> QED  BY <3>1, <3>2, <3>3, <3>4
  <2>8. r[f + 1] = NUL
    <3>1. PICK g \in Nat : g = f + 1  BY <2>6
    <3>2. N + 1 + g = Len(line) + 1 /\ g \in 1 .. BufSize - N - 1  BY <1>1, <2>6, <3>1
    <3>3. r[g] = b[N + 1 + g]  BY <1>12, <3>2
    <3> QED  BY <1>9, <3>1, <3>2, <3>3
  <2>9. \A k \in 1 .. d : IsSpace(r[k])  BY <2>4
  <2>10. \A k \in 1 .. Len(t) : r[k + d] = t[k]  BY <2>1, <2>3, <2>4
  <2>11. Len(t) + d <= Len(r)  BY <1>3, <2>1, <2>4, <2>5, <2>6
  <2>12. atoi(r) = atoi(t)  BY <1>12, <2>1, <2>6, <2>7, <2>8, <2>9, <2>10, <2>11, AtoiSame
  <2> QED  BY <2>1, <2>12
<1>15. atoi(r) \in Int  BY <1>12, AtoiType
<1>16. h.name /\ ~ (h.cut /\ v = <<>>) => atoi(r) = Value(v)  BY <1>13, <1>14 DEF Value
<1> QED  BY <1>6, <1>10, <1>11, <1>15, <1>16 DEF r, v

---------------------------------------------------------------------------
(* The inductive invariant for the header lines.                           *)

\* The number the last line with the name holds, -1 without one.
NamedIn(ls) == {n \in DOMAIN ls : ls[n].name}
SentIn(ls) ==
  IF NamedIn(ls) = {} THEN -1
  ELSE Value(ls[CHOOSE n \in NamedIn(ls) : \A m \in NamedIn(ls) : m <= n].value)
Stale == Ended /\ Last(lines).name /\ Last(lines).value = <<>>

LengthInv ==
  /\ pc \in Early => length = -1 /\ lines = <<>>
  /\ ~Stale => length = SentIn(lines)

LEMMA NoneSent == SentIn(<<>>) = -1
BY DEF SentIn, NamedIn

\* A line with the name decides, another one leaves it as it was.
LEMMA SentGrows ==
  ASSUME NEW ls \in Seq(Headers), NEW h \in Headers
  PROVE  SentIn(Append(ls, h)) = IF h.name THEN Value(h.value) ELSE SentIn(ls)
<1> DEFINE t == Append(ls, h)
<1>1. /\ t \in Seq(Headers) /\ Len(t) = Len(ls) + 1
      /\ \A k \in 1 .. Len(ls) : t[k] = ls[k]
      /\ t[Len(ls) + 1] = h
  BY AppendProperties
<1>2. Len(ls) \in Nat /\ DOMAIN ls = 1 .. Len(ls) /\ DOMAIN t = 1 .. Len(ls) + 1
  BY <1>1, LenProperties
<1> HIDE DEF t
<1>3. CASE h.name
  <2> DEFINE p == Len(ls) + 1
             c == CHOOSE n \in NamedIn(t) : \A m \in NamedIn(t) : m <= n
  <2>1. p \in NamedIn(t) /\ \A m \in NamedIn(t) : m <= p  BY <1>1, <1>2, <1>3 DEF NamedIn
  <2>2. c \in NamedIn(t) /\ \A m \in NamedIn(t) : m <= c  BY <2>1
  <2> HIDE DEF c
  <2>3. c = p
    <3>1. c \in 1 .. Len(ls) + 1 /\ c <= p /\ p <= c  BY <1>2, <2>1, <2>2 DEF NamedIn
    <3> QED  BY <1>2, <3>1
  <2>4. SentIn(t) = Value(t[c].value)  BY <2>1 DEF SentIn, c
  <2> QED  BY <1>1, <1>3, <2>3, <2>4 DEF t
<1>4. CASE ~h.name
  <2>1. NamedIn(t) = NamedIn(ls)
    <3>1. ASSUME NEW n PROVE n \in NamedIn(t) <=> n \in NamedIn(ls)
      <4>1. CASE n \in 1 .. Len(ls)
        <5>1. t[n] = ls[n] /\ n \in DOMAIN t /\ n \in DOMAIN ls  BY <1>1, <1>2, <4>1
        <5> QED  BY <5>1 DEF NamedIn
      <4>2. CASE n \notin 1 .. Len(ls)
        <5>1. n \notin NamedIn(ls)  BY <1>2, <4>2 DEF NamedIn
        <5>2. n \in DOMAIN t => n = Len(ls) + 1  BY <1>2, <4>2
        <5> QED  BY <1>1, <1>4, <5>1, <5>2 DEF NamedIn
      <4> QED  BY <4>1, <4>2
    <3> QED  BY <3>1
  <2>2. CASE NamedIn(ls) = {}  BY <1>4, <2>1, <2>2 DEF SentIn, t
  <2>3. CASE NamedIn(ls) # {}
    <3> DEFINE c == CHOOSE n \in NamedIn(ls) : \A m \in NamedIn(ls) : m <= n
    <3>1. c \in NamedIn(ls)
      <4>1. NamedIn(ls) \subseteq 1 .. Len(ls)  BY <1>2 DEF NamedIn
      <4>2. PICK g \in NamedIn(ls) : \A m \in NamedIn(ls) : m <= g  BY <1>2, <2>3, <4>1, MaxOf
      <4> QED  BY <4>2
    <3>2. c \in 1 .. Len(ls)  BY <1>2, <3>1 DEF NamedIn
    <3>3. SentIn(ls) = Value(ls[c].value)  BY <2>3 DEF SentIn
    <3>4. SentIn(t) = Value(t[c].value)  BY <2>1, <2>3 DEF SentIn
    <3> HIDE DEF c
    <3>5. t[c] = ls[c]  BY <1>1, <3>2
    <3> QED  BY <1>4, <3>3, <3>4, <3>5 DEF t
  <2> QED  BY <2>2, <2>3
<1> QED  BY <1>3, <1>4, HeaderType

---------------------------------------------------------------------------
(* Every action keeps both.                                                *)

Zeros == [k \in 1..BufSize |-> NUL]

IInv ==
  TypeOK /\ LineInv /\ MethodInv /\ UrlInv /\ TargetInv /\ RunsAsScript /\ LengthInv

LEMMA ZerosType == Zeros \in Arrays
BY Letters DEF Zeros, Arrays

LEMMA InitIInv == Init => IInv
<1> SUFFICES ASSUME Init PROVE IInv
  OBVIOUS
<1>1. PICK l \in RequestLines : buf = Stored(l, Zeros)  BY DEF Init, Zeros
<1>2. l \in Seq(Byte \ {NUL}) /\ Len(l) < BufSize
  <2>1. RequestLines \subseteq Seq(Byte \ {NUL}) /\ \A k \in RequestLines : Len(k) < BufSize
    BY Zenon, RequestAssumption
  <2> QED  BY <2>1
<1>3. l \in Seq(Byte) /\ Len(l) \in Nat /\ \A k \in 1 .. Len(l) : l[k] # NUL
  <2>1. \A k \in 1 .. Len(l) : l[k] \in Byte \ {NUL}  BY <1>2, ElementOfSeq
  <2> QED  BY <1>2, <2>1, LenProperties
<1>4. buf \in Arrays /\ \A k \in 1 .. Len(l) : buf[k] = l[k]
  BY <1>1, <1>2, <1>3, ZerosType, StoredLine
<1>5. ASSUME NEW k \in Len(l) + 1 .. BufSize PROVE buf[k] = NUL
  <2>1. k \in 1..BufSize /\ ~ (k <= Len(l))  BY <1>3
  <2> QED  BY <1>1, <2>1 DEF Stored, Zeros
<1>6. LineKept
  <2>1. Len(l) \in 0 .. BufSize - 1  BY <1>2, <1>3, Sizes
  <2>2. \A k \in 1 .. Len(l) : buf[k] # NUL  BY <1>3, <1>4
  <2>3. BufType  BY <1>4 DEF BufType, Arrays
  <2> QED  BY <1>5, <2>1, <2>2, <2>3, LineIs
<1>7. /\ pc = "method" /\ j = 0 /\ method = <<>> /\ url = <<>> /\ query = <<>> /\ path = <<>>
      /\ isCgi = FALSE /\ st = "unknown" /\ length = -1 /\ lines = <<>>
  BY DEF Init
<1>8. TypeOK
  <2>1. buf \in [1..BufSize -> Byte]  BY <1>4 DEF Arrays
  <2>2. <<>> \in Seq(Byte) /\ <<>> \in Seq(Headers) /\ Len(<<>>) = 0  OBVIOUS
  <2>3. 0 < MethodSize /\ 0 < UrlSize /\ 0 \in 0..BufSize /\ 0 < BufSize /\ 0 <= MaxHeaders  BY Sizes
  <2>4. method \in Seq(Byte) /\ Len(method) < MethodSize /\ url \in Seq(Byte) /\ Len(url) < UrlSize
    BY <1>7, <2>2, <2>3
  <2>5. j \in 0..BufSize /\ j < BufSize /\ pc \in Places /\ ~ (pc = "url")  BY <1>7, <2>3 DEF Places
  <2>6. query \in Seq(Byte) /\ path \in Seq(Byte) /\ isCgi \in BOOLEAN /\ st = "unknown"  BY <1>7, <2>2
  <2>7. length \in Int /\ lines \in Seq(Headers) /\ Len(lines) <= MaxHeaders  BY <1>7, <2>2, <2>3
  <2> QED  BY <2>1, <2>4, <2>5, <2>6, <2>7 DEF TypeOK
<1>9. LineInv  BY <1>6 DEF LineInv
<1>10. MethodInv  BY <1>7 DEF MethodInv
<1>11. UrlInv /\ TargetInv /\ RunsAsScript  BY <1>7 DEF UrlInv, TargetInv, RunsAsScript
<1>12. LengthInv  BY <1>7, NoneSent DEF LengthInv
<1> QED  BY <1>8, <1>9, <1>10, <1>11, <1>12 DEF IInv

\* While the request line is read, the lines of the header are none.
LEMMA SameHeaders ==
  ASSUME LengthInv, pc \in Early, UNCHANGED <<length, lines>>
  PROVE  LengthInv'
BY DEF LengthInv, Stale, Ended

LEMMA MethodByteStep == IInv /\ MethodByte => IInv'
<1> SUFFICES ASSUME IInv, MethodByte PROVE IInv'
  OBVIOUS
<1> USE DEF IInv
<1>1. /\ pc = "method" /\ BufType /\ LineKept /\ UNCHANGED <<buf, url, query, path, st, length, lines>>
      /\ j = Len(method) /\ \A k \in 1 .. Len(method) : method[k] = buf[k] /\ ~IsSpace(buf[k])
      /\ url = <<>> /\ query = <<>> /\ method \in Seq(Byte) /\ Len(method) < MethodSize
      /\ j \in 0..BufSize /\ j < BufSize
  BY DEF MethodByte, BufType, TypeOK, LineInv, MethodInv, Early
<1>2. PICK b \in Byte :
        /\ b = buf[j + 1]
        /\ IF ~IsSpace(b) /\ Len(method) < MethodSize - 1
           THEN method' = Append(method, b) /\ j' = j + 1 /\ UNCHANGED <<pc, isCgi>>
           ELSE /\ pc' = IF CString(method) \in {<<GET>>, <<POST>>} THEN "blanks" ELSE "unimplemented"
                /\ isCgi' = (CString(method) = <<POST>>) /\ UNCHANGED <<method, j>>
  BY <1>1 DEF MethodByte, Reads
<1>3. LengthInv'  BY <1>1, SameHeaders DEF Early
<1>4. LineKept'  BY <1>1, SameLine
<1>5. LineInv'  BY <1>4 DEF LineInv
<1>6. pc' \in {"method", "blanks", "unimplemented"}  BY <1>1, <1>2
<1>7. TargetInv' /\ RunsAsScript'  BY <1>6 DEF TargetInv, RunsAsScript
<1>8. CASE ~IsSpace(b) /\ Len(method) < MethodSize - 1
  <2>1. method' = Append(method, b) /\ j' = j + 1 /\ pc' = "method" /\ isCgi' = isCgi  BY <1>1, <1>2, <1>8
  <2>2. /\ method' \in Seq(Byte) /\ Len(method') = Len(method) + 1
        /\ \A k \in 1 .. Len(method) : method'[k] = method[k]
        /\ method'[Len(method) + 1] = b
    BY <1>1, <2>1, AppendProperties
  <2>3. Len(method) \in Nat /\ Len(method') < MethodSize /\ j' \in 0..BufSize /\ j' < BufSize
    BY <1>1, <1>8, <2>1, <2>2, Sizes
  <2>4. TypeOK'  BY <1>1, <2>1, <2>2, <2>3 DEF TypeOK
  <2>5. ASSUME NEW k \in 1 .. j' PROVE method'[k] = buf[k] /\ ~IsSpace(buf[k])
    <3>1. CASE k \in 1 .. Len(method)  BY <1>1, <2>2, <3>1
    <3>2. CASE k = Len(method) + 1  BY <1>1, <1>2, <1>8, <2>2, <3>2
    <3> QED  BY <1>1, <2>1, <2>3, <3>1, <3>2
  <2>6. MethodInv'  BY <1>1, <2>1, <2>2, <2>5 DEF MethodInv
  <2>7. UrlInv'  BY <2>1 DEF UrlInv
  <2> QED  BY <1>3, <1>5, <1>7, <2>4, <2>6, <2>7
<1>9. CASE ~ (~IsSpace(b) /\ Len(method) < MethodSize - 1)
  <2>1. /\ pc' = IF CString(method) \in {<<GET>>, <<POST>>} THEN "blanks" ELSE "unimplemented"
        /\ isCgi' = (CString(method) = <<POST>>) /\ UNCHANGED <<method, j>>
    BY <1>2, <1>9
  <2>2. TypeOK'  BY <1>1, <1>6, <2>1 DEF TypeOK, Places
  <2>3. IsSpace(buf[Len(method) + 1]) \/ Len(method) >= MethodSize - 1
    <3>1. Len(method) \in Nat  BY <1>1, LenProperties
    <3> QED  BY <1>1, <1>2, <1>9, <3>1, Sizes
  <2>4. pc' = "blanks" => FirstWord /\ Skipped(Len(method))  BY <1>1, <2>1, <2>3, MethodRead
  <2>5. IsGet' => ~isCgi'
    <3>1. <<GET>> # <<POST>>  BY Letters
    <3> QED  BY <2>1, <3>1 DEF IsGet
  <2>6. MethodInv'  BY <1>1, <1>6, <2>1, <2>4, <2>5, SameLine DEF MethodInv
  <2>7. UrlInv'
    <3>1. pc' = "blanks" => Skipped(j)'  BY <1>1, <2>1, <2>4, SameLine
    <3> QED  BY <1>6, <2>1, <3>1 DEF UrlInv
  <2> QED  BY <1>3, <1>5, <1>7, <2>2, <2>6, <2>7
<1> QED  BY <1>8, <1>9

LEMMA SkipBlankStep == IInv /\ SkipBlank => IInv'
<1> SUFFICES ASSUME IInv, SkipBlank PROVE IInv'
  OBVIOUS
<1> USE DEF IInv
<1>1. /\ pc = "blanks" /\ BufType /\ LineKept /\ UNCHANGED <<buf, method, url, target, length, lines>>
      /\ url = <<>> /\ query = <<>> /\ FirstWord /\ (IsGet => ~isCgi) /\ Skipped(j)
      /\ j \in 0..BufSize /\ j < BufSize
  BY DEF SkipBlank, BufType, TypeOK, LineInv, MethodInv, UrlInv, Early
<1>2. PICK b \in Byte :
        /\ b = buf[j + 1]
        /\ IF IsSpace(b) /\ j < BufSize THEN j' = j + 1 /\ UNCHANGED pc
           ELSE pc' = "url" /\ UNCHANGED j
  BY <1>1 DEF SkipBlank, Reads
<1>3. /\ LengthInv' /\ LineKept' /\ (IsGet' => ~isCgi') /\ FirstWord'
      /\ query' = <<>> /\ url' = <<>> /\ \A s : Skipped(s)' = Skipped(s)
  BY <1>1, SameHeaders, SameLine, SameName DEF Early, target
<1>4. LineInv'  BY <1>3 DEF LineInv
<1>5. pc' \in {"blanks", "url"}  BY <1>1, <1>2
<1>6. TargetInv' /\ RunsAsScript'  BY <1>5 DEF TargetInv, RunsAsScript
<1>7. MethodInv'  BY <1>3, <1>5 DEF MethodInv
<1>8. CASE IsSpace(b)
  <2>1. j' = j + 1 /\ pc' = "blanks"  BY <1>1, <1>2, <1>8
  <2>2. j + 1 \in 1 .. BufSize - 1
    <3>1. j \in Nat /\ j + 1 <= BufSize /\ BufSize \in Nat  BY <1>1, Sizes
    <3>2. buf[BufSize] = NUL  BY <1>1, <3>1, Sizes DEF LineKept
    <3>3. j + 1 # BufSize  BY <1>2, <1>8, <3>2, Letters, Spaces
    <3> QED  BY <3>1, <3>3
  <2>3. Skipped(j + 1)
    <3>1. ASSUME NEW k \in 2 .. j + 1, k <= End PROVE IsSpace(buf[k])
      <4>1. CASE k = j + 1  BY <1>2, <1>8, <4>1
      <4>2. CASE k \in 2 .. j  BY <1>1, <3>1, <4>2 DEF Skipped
      <4> QED  BY <1>1, <4>1, <4>2
    <3> QED  BY <2>2, <3>1 DEF Skipped
  <2>4. UrlInv'  BY <1>3, <2>1, <2>3 DEF UrlInv
  <2>5. j' \in 0..BufSize /\ j' < BufSize  BY <2>1, <2>2, Sizes
  <2>6. TypeOK'  BY <1>1, <2>1, <2>5 DEF TypeOK, Places, target
  <2> QED  BY <1>3, <1>4, <1>6, <1>7, <2>4, <2>6
<1>9. CASE ~IsSpace(b)
  <2>1. j' = j /\ pc' = "url"  BY <1>2, <1>9
  <2>2. UrlAt'
    <3>1. Len(url') = 0 /\ url' \in Seq(Byte) /\ UrlStart' = j  BY <1>1, <1>3, <2>1 DEF UrlStart
    <3>2. ~IsSpace(buf[j + 1]) /\ j \in Nat /\ j <= BufSize  BY <1>1, <1>2, <1>9, Sizes
    <3> QED  BY <1>1, <1>3, <2>1, <3>1, <3>2, Sizes DEF UrlAt
  <2>3. UrlInv'  BY <2>1, <2>2 DEF UrlInv
  <2>4. TypeOK'  BY <1>1, <2>1 DEF TypeOK, Places, target
  <2> QED  BY <1>3, <1>4, <1>6, <1>7, <2>3, <2>4
<1> QED  BY <1>8, <1>9

LEMMA UrlByteStep == IInv /\ UrlByte => IInv'
<1> SUFFICES ASSUME IInv, UrlByte PROVE IInv'
  OBVIOUS
<1> USE DEF IInv
<1>1. /\ pc = "url" /\ BufType /\ LineKept /\ UNCHANGED <<buf, method, target, length, lines>>
      /\ query = <<>> /\ FirstWord /\ (IsGet => ~isCgi) /\ UrlAt
      /\ j \in 0..BufSize /\ url \in Seq(Byte) /\ Len(url) < UrlSize
  BY DEF UrlByte, BufType, TypeOK, LineInv, MethodInv, UrlInv, Early
<1>2. PICK b \in Byte :
        /\ Reads(j, b)
        /\ IF ~IsSpace(b) /\ Len(url) < UrlSize - 1 /\ j < BufSize
           THEN url' = Append(url, b) /\ j' = j + 1 /\ UNCHANGED pc
           ELSE pc' = "query" /\ UNCHANGED <<url, j>>
  BY DEF UrlByte
<1>3. /\ LengthInv' /\ LineKept' /\ (IsGet' => ~isCgi') /\ FirstWord' /\ End' = End
      /\ query' = <<>> /\ \A s : Skipped(s)' = Skipped(s)
  BY <1>1, SameHeaders, SameLine, SameName DEF Early, target
<1>4. LineInv'  BY <1>3 DEF LineInv
<1>5. pc' \in {"url", "query"}  BY <1>1, <1>2
<1>6. TargetInv' /\ RunsAsScript'  BY <1>5 DEF TargetInv, RunsAsScript
<1>7. MethodInv'  BY <1>3, <1>5 DEF MethodInv
<1>8. Len(url) \in Nat /\ j \in Nat /\ BufSize \in Nat /\ UrlSize \in Nat  BY <1>1, LenProperties, Sizes
<1>9. CASE ~IsSpace(b) /\ Len(url) < UrlSize - 1 /\ j < BufSize
  <2>1. url' = Append(url, b) /\ j' = j + 1 /\ pc' = "url" /\ b = buf[j + 1]
    BY <1>1, <1>2, <1>9 DEF Reads
  <2>2. /\ url' \in Seq(Byte) /\ Len(url') = Len(url) + 1
        /\ \A k \in 1 .. Len(url) : url'[k] = url[k]
        /\ url'[Len(url) + 1] = b
    BY <1>1, <2>1, AppendProperties
  <2>3. UrlStart' = UrlStart  BY <1>8, <2>1, <2>2 DEF UrlStart
  <2>4. ASSUME NEW k \in 1 .. Len(url') PROVE url'[k] = buf[UrlStart + k] /\ ~IsSpace(url'[k])
    <3>1. CASE k \in 1 .. Len(url)  BY <1>1, <2>2, <3>1 DEF UrlAt
    <3>2. CASE k = Len(url) + 1
      <4>1. UrlStart + k = j + 1  BY <1>8, <3>2 DEF UrlStart
      <4> QED  BY <1>9, <2>1, <2>2, <3>2, <4>1
    <3> QED  BY <1>8, <2>2, <3>1, <3>2
  <2>5. Len(url') < UrlSize /\ j' \in Nat /\ j' <= BufSize /\ j' \in 0..BufSize  BY <1>8, <1>9, <2>1, <2>2
  <2>6. UrlAt'  BY <1>1, <1>3, <2>2, <2>3, <2>4, <2>5 DEF UrlAt
  <2>7. UrlInv'  BY <2>1, <2>6 DEF UrlInv
  <2>8. ASSUME j' = BufSize PROVE NUL \in ToSet(url')
    <3>1. buf[BufSize] = NUL  BY <1>1, <1>8, Sizes DEF LineKept
    <3>2. url'[Len(url')] = NUL  BY <2>1, <2>2, <2>8, <3>1
    <3>3. Len(url') \in DOMAIN url'  BY <1>8, <2>2, LenProperties
    <3> QED  BY <3>2, <3>3 DEF ToSet
  <2>9. TypeOK'  BY <1>1, <2>1, <2>2, <2>5, <2>8 DEF TypeOK, Places, target
  <2> QED  BY <1>3, <1>4, <1>6, <1>7, <2>7, <2>9
<1>10. CASE ~ (~IsSpace(b) /\ Len(url) < UrlSize - 1 /\ j < BufSize)
  <2>1. pc' = "query" /\ url' = url /\ j' = j  BY <1>2, <1>10
  <2>2. UrlStops
    <3>1. IsSpace(b) /\ j < BufSize => IsSpace(buf[j + 1])  BY <1>2 DEF Reads
    <3> QED  BY <1>1, <1>8, <1>10, <3>1 DEF UrlStops
  <2>3. UrlAt' /\ UrlStops'  BY <1>1, <1>3, <2>1, <2>2 DEF UrlAt, UrlStops, UrlStart
  <2>4. UrlInv'  BY <2>1, <2>3 DEF UrlInv
  <2>5. TypeOK'  BY <1>1, <2>1 DEF TypeOK, Places, target
  <2> QED  BY <1>3, <1>4, <1>6, <1>7, <2>4, <2>5
<1> QED  BY <1>9, <1>10

LEMMA CutQueryStep == IInv /\ CutQuery => IInv'
<1> SUFFICES ASSUME IInv, CutQuery PROVE IInv'
  OBVIOUS
<1> USE DEF IInv
<1> DEFINE u == CString(url)
           n == SelectInSeq(u, LAMBDA b : b = "?")
<1>1. /\ pc = "query" /\ pc' = "path" /\ BufType /\ LineKept
      /\ UNCHANGED <<buf, j, method, path, st, length, lines>>
      /\ query = <<>> /\ FirstWord /\ (IsGet => ~isCgi) /\ UrlAt /\ UrlStops
      /\ url \in Seq(Byte) /\ Len(url) < UrlSize /\ isCgi \in BOOLEAN
  BY DEF CutQuery, BufType, TypeOK, LineInv, MethodInv, UrlInv, Early
<1>2. IF IsGet /\ n # 0
      THEN url' = SubSeq(u, 1, n - 1) /\ query' = From(u, n + 1) /\ isCgi' = TRUE
      ELSE url' = u /\ UNCHANGED <<query, isCgi>>
  BY DEF CutQuery, IsGet
<1>3. /\ LengthInv' /\ LineKept' /\ IsGet' = IsGet /\ FileName' = FileName
      /\ SecondWord' = SecondWord /\ Asked' = Asked
  BY <1>1, SameHeaders, SameLine, SameName DEF Early
<1>4. u = SecondWord  BY <1>1, UrlIsWord
<1>5. u \in Seq(Byte) /\ Len(u) \in Nat /\ Len(u) < UrlSize
  <2>1. PICK m \in 0 .. Len(url) : u \in Seq(Byte) /\ Len(u) = m  BY <1>1, CStringOf
  <2>2. Len(url) \in Nat  BY <1>1, LenProperties
  <2> HIDE DEF u
  <2> QED  BY <1>1, <2>1, <2>2, Sizes
<1>6. /\ n \in 0 .. Len(u) /\ (n # 0 <=> "?" \in ToSet(u))
      /\ n # 0 => /\ SubSeq(u, 1, n - 1) = UpTo(u, {"?"})
                  /\ UpTo(u, {"?"}) \in Seq(Byte) /\ Len(UpTo(u, {"?"})) = n - 1
      /\ n = 0 => UpTo(u, {"?"}) = u /\ From(u, Len(u) + 2) = <<>>
  <2> HIDE DEF u
  <2> QED  BY <1>5, CutIs
<1>7. Asked <=> n # 0  BY <1>4, <1>6 DEF Asked
<1>8. FileName = IF IsGet THEN UpTo(u, {"?"}) ELSE u  BY <1>4 DEF FileName, IsGet
<1> HIDE DEF u, n
<1>9. /\ url' = FileName /\ query' = From(u, Len(FileName) + 2)
      /\ url' \in Seq(Byte) /\ query' \in Seq(Byte) /\ isCgi' \in BOOLEAN
      /\ Len(url') + Len(query') < UrlSize /\ (query' # <<>> => Len(url') + Len(query') + 1 < UrlSize)
      /\ IsGet => (isCgi' <=> Asked)
  <2>1. CASE IsGet /\ n # 0
    <3>1. url' = FileName /\ Len(url') = n - 1 /\ url' \in Seq(Byte) /\ isCgi' = TRUE /\ query' = From(u, n + 1)
      BY <1>2, <1>6, <1>8, <2>1
    <3>2. Len(FileName) + 2 = n + 1  BY <1>5, <1>6, <3>1
    <3>3. PICK m \in Nat \ {0} : m = n + 1 /\ m <= Len(u) + 1  BY <1>5, <1>6
    <3>4. From(u, m) \in Seq(Byte) /\ Len(From(u, m)) = Len(u) - m + 1  BY <1>5, <3>3, RestProperties
    <3>5. query' \in Seq(Byte) /\ Len(query') = Len(u) - n  BY <1>5, <1>6, <3>1, <3>3, <3>4
    <3>6. Len(url') + Len(query') + 1 = Len(u)  BY <1>5, <1>6, <3>1, <3>5
    <3>7. Len(url') + Len(query') < UrlSize  BY <1>5, <1>6, <3>1, <3>5, Sizes
    <3> QED  BY <1>5, <1>7, <2>1, <3>1, <3>2, <3>5, <3>6, <3>7
  <2>2. CASE ~ (IsGet /\ n # 0)
    <3>1. url' = u /\ query' = <<>> /\ isCgi' = isCgi  BY <1>1, <1>2, <2>2
    <3>2. FileName = u  BY <1>6, <1>8, <2>2
    <3>3. From(u, Len(u) + 2) = <<>>
      <4>1. PICK m \in Nat : m = Len(u) + 2  BY <1>5
      <4>2. From(u, m) = <<>>  BY <1>5, <4>1, NoRest
      <4> QED  BY <4>1, <4>2
    <3>4. Len(query') = 0 /\ query' \in Seq(Byte)  BY <3>1
    <3>5. IsGet => ~Asked /\ ~isCgi'  BY <1>1, <1>7, <2>2, <3>1
    <3> QED  BY <1>1, <1>5, <3>1, <3>2, <3>3, <3>4, <3>5
  <2> QED  BY <2>1, <2>2
<1>10. TypeOK'
  <2>1. Len(url') < UrlSize
    <3>1. Len(url') \in Nat /\ Len(query') \in Nat  BY <1>9, LenProperties
    <3> QED  BY <1>9, <3>1, Sizes
  <2> QED  BY <1>1, <1>9, <2>1 DEF TypeOK, Places
<1>11. LineInv'  BY <1>3 DEF LineInv
<1>12. MethodInv' /\ UrlInv' /\ RunsAsScript'  BY <1>1 DEF MethodInv, UrlInv, RunsAsScript
<1>13. TargetInv'  BY <1>1, <1>3, <1>4, <1>5, <1>9 DEF TargetInv
<1> QED  BY <1>3, <1>10, <1>11, <1>12, <1>13

\* The configured paths.
LEMMA Configured ==
  /\ Base \in Seq(Byte) /\ Index \in Seq(Byte) /\ AliasPath \in Seq(Byte)
  /\ <<"/">> \in Seq(Byte)
<1>1. {Base, Index, Alias, AliasPath} \subseteq Seq(Byte)  BY Zenon, RequestAssumption
<1>2. "/" \in Byte  BY Marks
<1> QED  BY <1>1, <1>2

LEMMA MakePathStep == IInv /\ MakePath => IInv'
<1> SUFFICES ASSUME IInv, MakePath PROVE IInv'
  OBVIOUS
<1> USE DEF IInv
<1> DEFINE p == Base \o url
<1>1. /\ pc = "path" /\ pc' = "stat" /\ BufType /\ LineKept
      /\ UNCHANGED <<buf, word, query, st, length, lines>>
      /\ url \in Seq(Byte) /\ isCgi \in BOOLEAN
      /\ SecondWord \in Seq(Byte) /\ Len(SecondWord) < UrlSize
      /\ url = FileName /\ query = From(SecondWord, Len(FileName) + 2)
      /\ Len(url) + Len(query) < UrlSize /\ (query # <<>> => Len(url) + Len(query) + 1 < UrlSize)
      /\ IsGet => (isCgi <=> Asked)
  BY DEF MakePath, BufType, TypeOK, LineInv, TargetInv, Early
<1>2. IF url = Alias THEN path' = AliasPath /\ isCgi' = TRUE
      ELSE path' = (IF Last(p) = "/" THEN p \o Index ELSE p) /\ UNCHANGED isCgi
  BY DEF MakePath
<1>3. /\ LengthInv' /\ LineKept' /\ IsGet' = IsGet /\ FileName' = FileName
      /\ SecondWord' = SecondWord /\ Asked' = Asked
  BY <1>1, SameHeaders, SameLine, SameName DEF Early, word
<1>4. p \in Seq(Byte)  BY <1>1, Configured, ConcatProperties
<1> HIDE DEF p
<1>5. p \o Index \in Seq(Byte) /\ p \o <<>> = p  BY <1>4, Configured, ConcatProperties, ConcatEmptySeq
<1>6. path' \in Seq(Byte) /\ isCgi' \in BOOLEAN  BY <1>1, <1>2, <1>4, <1>5, Configured
<1>7. path' = IF FileName = Alias THEN AliasPath
              ELSE p \o (IF Last(p) = "/" THEN Index ELSE <<>>)
  BY <1>1, <1>2, <1>5
<1>8. PathIs'  BY <1>1, <1>3, <1>7 DEF PathIs, p
<1>9. IsGet => (isCgi' <=> Asked \/ FileName = Alias)  BY <1>1, <1>2
<1>10. TypeOK'  BY <1>1, <1>6 DEF TypeOK, Places, word
<1>11. LineInv'  BY <1>3 DEF LineInv
<1>12. MethodInv' /\ UrlInv' /\ RunsAsScript'  BY <1>1 DEF MethodInv, UrlInv, RunsAsScript
<1>13. TargetInv'  BY <1>1, <1>3, <1>8, <1>9 DEF TargetInv, word
<1> QED  BY <1>3, <1>10, <1>11, <1>12, <1>13

LEMMA StatStep == IInv /\ Stat => IInv'
<1> SUFFICES ASSUME IInv, Stat PROVE IInv'
  OBVIOUS
<1> USE DEF IInv
<1>1. /\ pc = "stat" /\ UNCHANGED <<buf, word, query, length, lines>>
      /\ st' \in {"missing", "file", "exec", "dir"}
      /\ path' = IF st' = "dir" THEN path \o <<"/">> \o Index ELSE path
      /\ isCgi' = (isCgi \/ (st' \in {"exec", "dir"} /\ IsMimeTypeCgi(path')))
      /\ pc' = IF CString(method) = <<POST>> /\ st' # "missing" THEN "headers" ELSE "done"
      /\ path \in Seq(Byte) /\ isCgi \in BOOLEAN
      /\ IsGet => (isCgi <=> Asked \/ FileName = Alias)
  BY DEF Stat, TypeOK, TargetInv
<1>2. LengthInv' /\ IsGet' = IsGet /\ FileName' = FileName /\ SecondWord' = SecondWord /\ Asked' = Asked
  BY <1>1, SameHeaders, SameLine, SameName DEF Early, word
<1>3. path' \in Seq(Byte)
  <2>1. path \o <<"/">> \in Seq(Byte)  BY <1>1, Configured, ConcatProperties
  <2>2. (path \o <<"/">>) \o Index \in Seq(Byte)  BY <2>1, Configured, ConcatProperties
  <2> QED  BY <1>1, <2>2
<1>4. isCgi' \in BOOLEAN  BY <1>1
<1>5. pc' \in {"headers", "done"} /\ (pc' = "headers" => CString(method') = <<POST>>)
  BY <1>1 DEF word
<1>6. TypeOK'  BY <1>1, <1>3, <1>4, <1>5 DEF TypeOK, Places, word
<1>7. LineInv' /\ MethodInv' /\ UrlInv' /\ TargetInv'
  BY <1>5 DEF LineInv, MethodInv, UrlInv, TargetInv, Early
<1>8. RunsAsScript'
  <2>1. IsMimeTypeCgi(path') <=>
          \E n \in DOMAIN MimeTypes :
            /\ MimeTypes[n][2] = "cgi" /\ IsSuffix(<<".">> \o MimeTypes[n][1], path')
            /\ "." \notin ToSet(MimeTypes[n][1])
            /\ \A m \in 1..(n - 1) : MimeTypes[m][1] # MimeTypes[n][1]
    BY <1>3, CgiTypeMeans
  <2>2. CString(method)' = <<GET>> => IsGet  BY <1>1 DEF IsGet, word
  <2>3. ("?" \in ToSet(SecondWord))' = Asked  BY <1>2 DEF Asked
  <2> QED  BY <1>1, <1>2, <2>1, <2>2, <2>3 DEF RunsAsScript
<1> QED  BY <1>2, <1>6, <1>7, <1>8

LEMMA HeaderLineStep == IInv /\ HeaderLine => IInv'
<1> SUFFICES ASSUME IInv, HeaderLine PROVE IInv'
  OBVIOUS
<1> USE DEF IInv
<1> DEFINE old == IF lines = <<>> THEN Zeros ELSE buf
<1>1. /\ pc = "headers" /\ ~Ended /\ Len(lines) < MaxHeaders /\ UNCHANGED <<pc, word, target>>
      /\ buf \in Arrays /\ length \in Int /\ lines \in Seq(Headers)
      /\ CString(method) = <<POST>>
  BY DEF HeaderLine, TypeOK, MethodInv, Arrays
<1>2. PICK h \in Headers :
        LET b == [Stored(Bytes(h), old) EXCEPT ![N + 1] = NUL] IN
        /\ buf' = b
        /\ length' = IF CString(b) = Name THEN atoi(From(b, N + 2)) ELSE length
        /\ lines' = Append(lines, h)
  BY DEF HeaderLine, N, Zeros
<1>3. old \in Arrays  BY <1>1, ZerosType
<1> HIDE DEF old
<1>4. /\ buf' \in Arrays /\ (CString(buf') = Name <=> h.name) /\ atoi(From(buf', N + 2)) \in Int
      /\ h.name /\ ~ (h.cut /\ h.value = <<>>) => atoi(From(buf', N + 2)) = Value(h.value)
  BY <1>2, <1>3, HeaderRead
<1>5. length' = IF h.name THEN atoi(From(buf', N + 2)) ELSE length  BY <1>2, <1>4
<1>6. /\ lines' \in Seq(Headers) /\ Len(lines') = Len(lines) + 1 /\ Len(lines') <= MaxHeaders
      /\ lines' # <<>> /\ Last(lines') = h
  <2>1. lines' = Append(lines, h)  BY <1>2
  <2>2. /\ Append(lines, h) \in Seq(Headers) /\ Len(Append(lines, h)) = Len(lines) + 1
        /\ Append(lines, h)[Len(lines) + 1] = h
    BY <1>1, AppendProperties
  <2>3. Len(lines) \in Nat  BY <1>1, LenProperties
  <2>4. lines' \in Seq(Headers) /\ Len(lines') = Len(lines) + 1 /\ lines'[Len(lines')] = h
    BY <2>1, <2>2
  <2>5. lines' # <<>>  BY <2>3, <2>4, EmptySeq
  <2> QED  BY <1>1, <2>3, <2>4, <2>5, Sizes DEF Last
<1>7. TypeOK'  BY <1>1, <1>4, <1>5, <1>6 DEF TypeOK, Arrays, word, target
<1>8. LineInv' /\ MethodInv' /\ UrlInv' /\ TargetInv' /\ RunsAsScript'
  BY <1>1 DEF LineInv, MethodInv, UrlInv, TargetInv, RunsAsScript, Early, word
<1>9. LengthInv'
  <2>1. pc' \notin Early  BY <1>1 DEF Early
  <2>2. length = SentIn(lines)  BY <1>1 DEF LengthInv, Stale
  <2>3. SentIn(lines') = IF h.name THEN Value(h.value) ELSE SentIn(lines)  BY <1>1, <1>2, SentGrows
  <2>4. Stale' <=> h.cut /\ h.name /\ h.value = <<>>  BY <1>6 DEF Stale, Ended
  <2>5. ~Stale' => length' = SentIn(lines')  BY <1>4, <1>5, <2>2, <2>3, <2>4
  <2> QED  BY <2>1, <2>5 DEF LengthInv
<1> QED  BY <1>7, <1>8, <1>9

LEMMA EndOfHeadersStep == IInv /\ EndOfHeaders => IInv'
<1> SUFFICES ASSUME IInv, EndOfHeaders PROVE IInv'
  OBVIOUS
<1> USE DEF IInv
<1>1. /\ pc = "headers" /\ pc' \in {"bad_request", "done"}
      /\ UNCHANGED <<buf, word, target, length, lines>> /\ CString(method) = <<POST>>
  BY DEF EndOfHeaders, MethodInv
<1>2. TypeOK'  BY <1>1 DEF TypeOK, Places, word, target
<1>3. LineInv' /\ MethodInv' /\ UrlInv' /\ TargetInv'
  BY <1>1 DEF LineInv, MethodInv, UrlInv, TargetInv, Early, word
<1>4. RunsAsScript'
  <2>1. <<GET>> # <<POST>>  BY Letters
  <2> QED  BY <1>1, <2>1 DEF RunsAsScript, word
<1>5. LengthInv'  BY <1>1 DEF LengthInv, Early, Stale, Ended
<1> QED  BY <1>2, <1>3, <1>4, <1>5

LEMMA StutterIInv == IInv /\ UNCHANGED vars => IInv'
<1> SUFFICES ASSUME IInv, UNCHANGED vars PROVE IInv'
  OBVIOUS
<1>1. UNCHANGED <<buf, pc, j, method, url, query, path, isCgi, st, length, lines>>
  BY DEF vars, word, target
<1>2. LineInv' = LineInv  BY <1>1, SameLine DEF LineInv
<1>3. MethodInv' = MethodInv  BY <1>1, SameLine, SameName DEF MethodInv
<1>4. UrlInv' = UrlInv  BY <1>1, SameLine DEF UrlInv, UrlAt, UrlStops, UrlStart
<1>5. TargetInv' = TargetInv
  <2>1. PathIs' = PathIs  BY <1>1, SameName DEF PathIs
  <2>2. SecondWord' = SecondWord /\ Asked' = Asked /\ FileName' = FileName /\ IsGet' = IsGet
    BY <1>1, SameLine, SameName
  <2> QED  BY <1>1, <2>1, <2>2 DEF TargetInv
<1>6. RunsAsScript' = RunsAsScript  BY <1>1, SameLine, SameName DEF RunsAsScript
<1>7. LengthInv' = LengthInv  BY <1>1 DEF LengthInv, Stale, Ended
<1>8. TypeOK' = TypeOK  BY <1>1 DEF TypeOK
<1> QED  BY <1>2, <1>3, <1>4, <1>5, <1>6, <1>7, <1>8 DEF IInv

LEMMA Invariance == Spec => []IInv
<1>1. IInv /\ [Next]_vars => IInv'
  BY MethodByteStep, SkipBlankStep, UrlByteStep, CutQueryStep, MakePathStep, StatStep,
     HeaderLineStep, EndOfHeadersStep, StutterIInv DEF Next
<1> QED  BY InitIInv, <1>1, PTL DEF Spec

---------------------------------------------------------------------------
(* What it gives.                                                          *)

\* The loops of httpd_accept_request and httpd_execute_cgi keep every variable
\* in its type and every index in its array, whatever the lines hold.
THEOREM TypeCorrect == Spec => []TypeOK
<1>1. IInv => TypeOK  BY DEF IInv
<1> QED  BY Invariance, <1>1, PTL

\* The path and the query come from the line's second word: httpd_accept_request
\* loses nothing of it that url has room for and adds nothing.
THEOREM PathIsOfLine == Spec => []PathOfLine
<1>1. IInv => PathOfLine  BY DEF IInv, TargetInv, PathIs, PathOfLine
<1> QED  BY Invariance, <1>1, PTL

\* A GET runs exactly the scripts it should: one with a query, the alias, or
\* what is executable and of a type httpd_content_type finds to be a script's.
THEOREM RunsScripts == Spec => []RunsAsScript
<1>1. IInv => RunsAsScript  BY DEF IInv
<1> QED  BY Invariance, <1>1, PTL

\* httpd_execute_cgi's query_env is too small only for a query that fills
\* nearly all of url.
THEOREM QueryFits == Spec => []EnvHoldsQuery
<1>1. IInv => EnvHoldsQuery
  <2> SUFFICES ASSUME IInv, pc = "stat", ~ (EnvName + Len(query) < EnvSize)
               PROVE  Len(url) + 1 < UrlSize - (EnvSize - EnvName)
    BY DEF EnvHoldsQuery
  <2>1. /\ url \in Seq(Byte) /\ query \in Seq(Byte)
        /\ query # <<>> => Len(url) + Len(query) + 1 < UrlSize
    BY DEF IInv, TypeOK, TargetInv
  <2>2. Len(url) \in Nat /\ Len(query) \in Nat  BY <2>1, LenProperties
  <2>3. Len(query) # 0  BY <2>2, Sizes
  <2>4. query # <<>>  BY <2>3
  <2> QED  BY <2>1, <2>2, <2>4, Sizes
<1> QED  BY Invariance, <1>1, PTL

\* The content_length httpd_execute_cgi goes by is the number of the last
\* Content-Length line, whatever the lines before it left in the buffer.
THEOREM LengthIsSent == Spec => []LengthAsSent
<1>1. IInv => LengthAsSent
  BY DEF IInv, LengthInv, Stale, SentIn, NamedIn, Value, LengthAsSent
<1> QED  BY Invariance, <1>1, PTL
=============================================================================
