------------------------------ MODULE SeqLemmas ------------------------------
(***************************************************************************)
(* Facts about the pieces of a byte stream that grows at its end and may   *)
(* be cut there, for the proofs of the modules that read from one.         *)
(***************************************************************************)
EXTENDS Pieces, SequenceTheorems, WellFoundedInduction, TLAPS

\* A piece of a stream is as long as its positions say, and holds its bytes.
LEMMA PieceProperties ==
  ASSUME NEW S, NEW s \in Seq(S), NEW m \in Nat \ {0}, NEW n \in Nat,
         n <= Len(s), m <= n + 1
  PROVE  /\ SubSeq(s, m, n) \in Seq(S)
         /\ Len(SubSeq(s, m, n)) = n - m + 1
         /\ \A i \in 1 .. n - m + 1 : SubSeq(s, m, n)[i] = s[m+i-1]
<1>1. \A i \in m .. n : s[i] \in S
  BY ElementOfSeq, LenProperties
<1> QED  BY <1>1, SubSeqProperties

\* Taking one more byte of the stream extends the piece by that byte.
LEMMA PieceGrows ==
  ASSUME NEW S, NEW s \in Seq(S), NEW m \in Nat \ {0}, NEW n \in Nat,
         n < Len(s), m <= n + 1
  PROVE  SubSeq(s, m, n+1) = Append(SubSeq(s, m, n), s[n+1])
<1>1. Len(s) \in Nat  BY LenProperties
<1>2. s[n+1] \in S  BY <1>1, ElementOfSeq
<1> DEFINE old == SubSeq(s, m, n)
           new == SubSeq(s, m, n+1)
<1>3. /\ old \in Seq(S) /\ Len(old) = n - m + 1
      /\ \A i \in 1 .. n - m + 1 : old[i] = s[m+i-1]
  BY <1>1, PieceProperties
<1>4. /\ new \in Seq(S) /\ Len(new) = n - m + 2
      /\ \A i \in 1 .. n - m + 2 : new[i] = s[m+i-1]
  <2>1. n + 1 \in Nat /\ n + 1 <= Len(s) /\ m <= (n + 1) + 1  BY <1>1
  <2>2. (n + 1) - m + 1 = n - m + 2  OBVIOUS
  <2> QED  BY <2>1, <2>2, PieceProperties
<1> HIDE DEF old, new
<1>5. /\ Append(old, s[n+1]) \in Seq(S)
      /\ Len(Append(old, s[n+1])) = n - m + 2
      /\ \A i \in 1 .. n - m + 1 : Append(old, s[n+1])[i] = old[i]
      /\ Append(old, s[n+1])[n - m + 2] = s[n+1]
  <2>1. Len(old) + 1 = n - m + 2  BY <1>3
  <2> QED  BY <1>2, <1>3, <2>1, AppendProperties
<1>6. \A i \in 1 .. Len(new) : new[i] = Append(old, s[n+1])[i]
  <2> SUFFICES ASSUME NEW i \in 1 .. n - m + 2
               PROVE  new[i] = Append(old, s[n+1])[i]
    BY <1>4
  <2>1. CASE i = n - m + 2  BY <1>4, <1>5, <2>1
  <2>2. CASE i \in 1 .. n - m + 1
    <3>1. i \in 1 .. n - m + 2  OBVIOUS
    <3> QED  BY <1>3, <1>4, <1>5, <2>2, <3>1
  <2>3. i = n - m + 2 \/ i \in 1 .. n - m + 1  OBVIOUS
  <2> QED  BY <2>1, <2>2, <2>3
<1>7. new = Append(old, s[n+1])  BY <1>4, <1>5, <1>6, SeqEqual
<1> QED  BY <1>7 DEF new, old

\* What arrives later does not change a piece that is already there.
LEMMA PieceOfAppend ==
  ASSUME NEW S, NEW s \in Seq(S), NEW b \in S, NEW m \in Nat \ {0}, NEW n \in Nat,
         n <= Len(s), m <= n + 1
  PROVE  SubSeq(Append(s, b), m, n) = SubSeq(s, m, n)
<1> DEFINE t == Append(s, b)
<1>1. Len(s) \in Nat  BY LenProperties
<1>2. /\ t \in Seq(S) /\ Len(t) = Len(s) + 1
      /\ \A i \in 1 .. Len(s) : t[i] = s[i]
  BY AppendProperties
<1> HIDE DEF t
<1>3. /\ SubSeq(s, m, n) \in Seq(S) /\ Len(SubSeq(s, m, n)) = n - m + 1
      /\ \A i \in 1 .. n - m + 1 : SubSeq(s, m, n)[i] = s[m+i-1]
  BY <1>1, PieceProperties
<1>4. /\ SubSeq(t, m, n) \in Seq(S) /\ Len(SubSeq(t, m, n)) = n - m + 1
      /\ \A i \in 1 .. n - m + 1 : SubSeq(t, m, n)[i] = t[m+i-1]
  <2>1. n <= Len(t)  BY <1>1, <1>2
  <2> QED  BY <1>2, <2>1, PieceProperties
<1>5. \A i \in 1 .. n - m + 1 : SubSeq(t, m, n)[i] = SubSeq(s, m, n)[i]
  <2> TAKE i \in 1 .. n - m + 1
  <2>1. m + i - 1 \in 1 .. Len(s)  BY <1>1
  <2> QED  BY <1>2, <1>3, <1>4, <2>1
<1>6. SubSeq(t, m, n) = SubSeq(s, m, n)
  BY <1>3, <1>4, <1>5, SeqEqual
<1> QED  BY <1>6 DEF t

\* Nor does a cut of the stream behind it.
LEMMA PieceOfPrefix ==
  ASSUME NEW S, NEW s \in Seq(S), NEW p \in Nat, p <= Len(s),
         NEW m \in Nat \ {0}, NEW n \in Nat, n <= p, m <= n + 1
  PROVE  /\ SubSeq(s, 1, p) \in Seq(S) /\ Len(SubSeq(s, 1, p)) = p
         /\ \A i \in 1 .. p : SubSeq(s, 1, p)[i] = s[i]
         /\ SubSeq(SubSeq(s, 1, p), m, n) = SubSeq(s, m, n)
<1> DEFINE t == SubSeq(s, 1, p)
<1>1. Len(s) \in Nat  BY LenProperties
<1>2. /\ t \in Seq(S) /\ Len(t) = p /\ \A i \in 1 .. p : t[i] = s[i]
  <2>1. /\ t \in Seq(S) /\ Len(t) = p - 1 + 1
        /\ \A i \in 1 .. p - 1 + 1 : t[i] = s[1+i-1]
    BY <1>1, PieceProperties
  <2> HIDE DEF t
  <2> QED  BY <2>1
<1> HIDE DEF t
<1>3. /\ SubSeq(s, m, n) \in Seq(S) /\ Len(SubSeq(s, m, n)) = n - m + 1
      /\ \A i \in 1 .. n - m + 1 : SubSeq(s, m, n)[i] = s[m+i-1]
  BY <1>1, PieceProperties
<1>4. /\ SubSeq(t, m, n) \in Seq(S) /\ Len(SubSeq(t, m, n)) = n - m + 1
      /\ \A i \in 1 .. n - m + 1 : SubSeq(t, m, n)[i] = t[m+i-1]
  BY <1>2, PieceProperties
<1>5. \A i \in 1 .. n - m + 1 : SubSeq(t, m, n)[i] = SubSeq(s, m, n)[i]
  <2> TAKE i \in 1 .. n - m + 1
  <2>1. m + i - 1 \in 1 .. p  OBVIOUS
  <2> QED  BY <1>2, <1>3, <1>4, <2>1
<1>6. SubSeq(t, m, n) = SubSeq(s, m, n)
  BY <1>3, <1>4, <1>5, SeqEqual
<1> QED  BY <1>2, <1>6 DEF t

\* Putting a piece behind the second of two is putting it behind both.  The
\* concatenations have names: nested ones are more than the provers match.
LEMMA PutBehind ==
  ASSUME NEW S, NEW s \in Seq(S), NEW t \in Seq(S), NEW r \in Seq(S),
         NEW st, st = s \o t, NEW tr, tr = t \o r
  PROVE  s \o tr = st \o r
<1>0. Len(s) \in Nat /\ Len(t) \in Nat /\ Len(r) \in Nat  BY LenProperties
<1>1. /\ st \in Seq(S) /\ Len(st) = Len(s) + Len(t)
      /\ \A i \in 1..Len(s) + Len(t) : st[i] = IF i <= Len(s) THEN s[i] ELSE t[i - Len(s)]
  BY ConcatProperties
<1>2. /\ tr \in Seq(S) /\ Len(tr) = Len(t) + Len(r)
      /\ \A i \in 1..Len(t) + Len(r) : tr[i] = IF i <= Len(t) THEN t[i] ELSE r[i - Len(t)]
  BY ConcatProperties
<1>3. /\ s \o tr \in Seq(S) /\ Len(s \o tr) = Len(s) + Len(tr)
      /\ \A i \in 1..Len(s) + Len(tr) : (s \o tr)[i] = IF i <= Len(s) THEN s[i] ELSE tr[i - Len(s)]
  BY <1>2, ConcatProperties
<1>4. /\ st \o r \in Seq(S) /\ Len(st \o r) = Len(st) + Len(r)
      /\ \A i \in 1..Len(st) + Len(r) : (st \o r)[i] = IF i <= Len(st) THEN st[i] ELSE r[i - Len(st)]
  BY <1>1, ConcatProperties
<1> DEFINE lhs == s \o tr
           rhs == st \o r
<1>5. Len(lhs) = Len(rhs) /\ Len(lhs) = Len(s) + Len(t) + Len(r)  BY <1>0, <1>1, <1>2, <1>3, <1>4
<1>6. ASSUME NEW i \in 1..Len(s) + Len(t) + Len(r) PROVE (s \o tr)[i] = (st \o r)[i]
  <2>1. CASE i <= Len(s)  BY <1>0, <1>1, <1>2, <1>3, <1>4, <2>1
  <2>2. CASE i > Len(s)
    <3>1. i - Len(s) \in 1..Len(t) + Len(r)  BY <1>0, <2>2
    <3> QED  BY <1>0, <1>1, <1>2, <1>3, <1>4, <2>2, <3>1
  <2> QED  BY <1>0, <2>1, <2>2
<1>7. lhs \in Seq(S) /\ rhs \in Seq(S)  BY <1>3, <1>4
<1>8. \A i \in 1..Len(lhs) : lhs[i] = rhs[i]  BY <1>5, <1>6
<1> HIDE DEF lhs, rhs
<1>9. lhs = rhs  BY <1>5, <1>7, <1>8, SeqEqual
<1> QED  BY <1>9 DEF lhs, rhs

---------------------------------------------------------------------------
(* Searches: a first or last place, and what C's string functions make of  *)
(* it.                                                                     *)

\* Among some numbers there is a least one.
LEMMA LeastOf ==
  ASSUME NEW I, I \subseteq Nat, I # {}
  PROVE  \E m \in I : \A k \in I : m <= k
<1>1. PICK m \in I : \A k \in I : ~ (<<k, m>> \in OpToRel(<, Nat))
  BY NatLessThanWellFounded, WFMin
<1>2. ASSUME NEW k \in I PROVE m <= k
  <2>1. ~ (k < m)  BY <1>1 DEF OpToRel
  <2> QED  BY <2>1
<1> QED  BY <1>2

\* Min is that number.
LEMMA MinOf ==
  ASSUME NEW I, I \subseteq Nat, I # {}
  PROVE  Min(I) \in I /\ \A k \in I : Min(I) <= k
BY LeastOf DEF Min

\* Among some numbers up to a bound there is a greatest one, which is Max.
LEMMA MaxOf ==
  ASSUME NEW n \in Nat, NEW I, I \subseteq 1..n, I # {}
  PROVE  Max(I) \in I /\ \A k \in I : k <= Max(I)
<1> DEFINE J == {n - k : k \in I}
<1>1. J \subseteq Nat /\ J # {}
  <2>1. ASSUME NEW k \in I PROVE n - k \in Nat  OBVIOUS
  <2>2. PICK k \in I : TRUE  OBVIOUS
  <2> QED  BY <2>1, <2>2
<1>2. PICK m \in J : \A k \in J : m <= k  BY <1>1, LeastOf
<1>3. PICK l \in I : m = n - l  OBVIOUS
<1>4. ASSUME NEW k \in I PROVE l >= k
  <2>1. n - k \in J  OBVIOUS
  <2>2. n - l <= n - k  BY <1>2, <1>3, <2>1
  <2> QED  BY <2>2
<1>5. \E x \in I : \A y \in I : x >= y  BY <1>4
<1>6. Max(I) \in I /\ \A y \in I : Max(I) >= y  BY <1>5 DEF Max
<1> QED  BY <1>6

\* A rest of a sequence.
LEMMA RestProperties ==
  ASSUME NEW S, NEW s \in Seq(S), NEW n \in Nat \ {0}, n <= Len(s) + 1
  PROVE  /\ From(s, n) \in Seq(S) /\ Len(From(s, n)) = Len(s) - n + 1
         /\ \A k \in 1 .. Len(s) - n + 1 : From(s, n)[k] = s[n + k - 1]
BY PieceProperties, LenProperties DEF From

\* Behind its end there is nothing.
LEMMA NoRest ==
  ASSUME NEW S, NEW s \in Seq(S), NEW n \in Nat, n > Len(s)
  PROVE  From(s, n) = <<>>
BY LenProperties, SubSeqEmpty DEF From

\* What comes before the first of some bytes.
LEMMA UpToProperties ==
  ASSUME NEW S, NEW s \in Seq(S), NEW stops
  PROVE  \E n \in 0 .. Len(s) :
           /\ UpTo(s, stops) = SubSeq(s, 1, n)
           /\ \A k \in 1 .. n : s[k] \notin stops
           /\ n = Len(s) \/ s[n + 1] \in stops
<1> DEFINE I == {i \in 1..Len(s) : s[i] \in stops}
<1>0. Len(s) \in Nat  BY LenProperties
<1>1. CASE I = {}
  <2>1. UpTo(s, stops) = s  BY <1>1 DEF UpTo, SelectInSeq
  <2>2. UpTo(s, stops) = SubSeq(s, 1, Len(s))  BY <2>1, SubSeqFull
  <2>3. \A k \in 1 .. Len(s) : s[k] \notin stops  BY <1>1
  <2>4. Len(s) \in 0 .. Len(s)  BY <1>0
  <2> QED  BY <2>2, <2>3, <2>4
<1>2. CASE I # {}
  <2>0. I \subseteq Nat  BY <1>0
  <2>1. Min(I) \in I /\ \A k \in I : Min(I) <= k
    <3> HIDE DEF I
    <3> QED  BY <1>2, <2>0, MinOf
  <2>2. Min(I) # 0  BY <2>1
  <2>3. UpTo(s, stops) = SubSeq(s, 1, Min(I) - 1)  BY <1>2, <2>2 DEF UpTo, SelectInSeq
  <2> DEFINE n == Min(I) - 1
  <2>4. n \in 0 .. Len(s) /\ n + 1 = Min(I)  BY <1>0, <2>1
  <2>5. s[n + 1] \in stops  BY <2>1, <2>4
  <2>6. ASSUME NEW k \in 1 .. n PROVE s[k] \notin stops
    <3>1. k \notin I  BY <2>1, <2>4
    <3> QED  BY <1>0, <2>4, <3>1
  <2>7. UpTo(s, stops) = SubSeq(s, 1, n)  BY <2>3
  <2> HIDE DEF n
  <2> QED  BY <2>4, <2>5, <2>6, <2>7
<1> QED  BY <1>1, <1>2

\* That is the only such piece.
LEMMA UpToIs ==
  ASSUME NEW S, NEW s \in Seq(S), NEW stops, NEW n \in 0 .. Len(s),
         \A k \in 1 .. n : s[k] \notin stops, n = Len(s) \/ s[n + 1] \in stops
  PROVE  UpTo(s, stops) = SubSeq(s, 1, n)
<1>0. Len(s) \in Nat  BY LenProperties
<1>1. PICK m \in 0 .. Len(s) :
        /\ UpTo(s, stops) = SubSeq(s, 1, m)
        /\ \A k \in 1 .. m : s[k] \notin stops
        /\ m = Len(s) \/ s[m + 1] \in stops
  BY UpToProperties
<1>2. ~ (m < n)
  <2> SUFFICES ASSUME m < n PROVE FALSE
    OBVIOUS
  <2>1. m + 1 \in 1 .. n /\ m # Len(s)  BY <1>0
  <2> QED  BY <1>1, <2>1
<1>3. ~ (n < m)
  <2> SUFFICES ASSUME n < m PROVE FALSE
    OBVIOUS
  <2>1. n + 1 \in 1 .. m /\ n # Len(s)  BY <1>0
  <2> QED  BY <1>1, <2>1
<1>4. m = n  BY <1>0, <1>2, <1>3
<1> QED  BY <1>1, <1>4

\* What a search from the left for some places finds.
LEMMA FirstPlace ==
  ASSUME NEW n \in Nat, NEW I, I \subseteq 1 .. n, NEW m, m = IF I # {} THEN Min(I) ELSE 0
  PROVE  /\ m \in 0 .. n /\ (m = 0 <=> I = {})
         /\ m # 0 => m \in I
         /\ \A k \in I : m <= k
<1>1. CASE I = {}  BY <1>1
<1>2. CASE I # {}
  <2>1. I \subseteq Nat  OBVIOUS
  <2>2. m \in I /\ \A k \in I : m <= k  BY <1>2, <2>1, MinOf
  <2> QED  BY <1>2, <2>2
<1> QED  BY <1>1, <1>2

\* And one from the right.
LEMMA LastPlace ==
  ASSUME NEW n \in Nat, NEW I, I \subseteq 1 .. n, NEW m, m = IF I # {} THEN Max(I) ELSE 0
  PROVE  /\ m \in 0 .. n /\ (m = 0 <=> I = {})
         /\ m # 0 => m \in I
         /\ \A k \in I : k <= m
<1>1. CASE I = {}  BY <1>1
<1>2. CASE I # {}
  <2>1. m \in I /\ \A k \in I : k <= m  BY <1>2, MaxOf
  <2> QED  BY <1>2, <2>1
<1> QED  BY <1>1, <1>2

\* A sequence that has a piece's length and bytes is the piece.
LEMMA IsPiece ==
  ASSUME NEW S, NEW s \in Seq(S), NEW m \in Nat \ {0}, NEW n \in Nat,
         n <= Len(s), m <= n + 1, NEW t \in Seq(S), Len(t) = n - m + 1,
         \A i \in 1 .. n - m + 1 : t[i] = s[m + i - 1]
  PROVE  t = SubSeq(s, m, n)
<1> DEFINE r == SubSeq(s, m, n)
<1>1. /\ r \in Seq(S) /\ Len(r) = n - m + 1
      /\ \A i \in 1 .. n - m + 1 : r[i] = s[m + i - 1]
  BY PieceProperties
<1> HIDE DEF r
<1>2. t = r  BY <1>1, SeqEqual
<1> QED  BY <1>2 DEF r

---------------------------------------------------------------------------
(* Recursion.  The library's induction theorems take an operator; a        *)
(* function does as well, and the least counterexample for the induction.  *)

\* back leads from each place of 1..n to a lower one; f follows h along it.
Descends(back, n) == \A k \in 1..n : back[k] \in 0 .. k - 1
Follows(f, n, z, h, back) == f[0] = z /\ \A k \in 1..n : f[k] = h[k][f[back[k]]]

\* A function may be defined by what it makes of its value at a lower place.
LEMMA Recursion ==
  ASSUME NEW n \in Nat, NEW V, NEW z \in V, NEW h \in [1..n -> [V -> V]],
         NEW back, Descends(back, n)
  PROVE  \E f \in [0..n -> V] : Follows(f, n, z, h, back)
<1> USE DEF Descends
<1> DEFINE Is(f, m) == f[0] = z /\ \A k \in 1..m : f[k] = h[k][f[back[k]]]
           Bad == {m \in 0..n : ~ \E f \in [0..m -> V] : Is(f, m)}
<1>1. Bad = {}
  <2> SUFFICES ASSUME Bad # {} PROVE FALSE
    OBVIOUS
  <2>1. PICK m \in Bad : \A k \in Bad : m <= k
    <3>1. Bad \subseteq Nat  OBVIOUS
    <3> HIDE DEF Bad
    <3> QED  BY <3>1, LeastOf
  <2>2. m \in 0..n /\ ~ \E f \in [0..m -> V] : Is(f, m)  OBVIOUS
  <2>3. CASE m = 0
    <3> DEFINE f == [k \in 0..0 |-> z]
    <3>1. f \in [0..0 -> V] /\ Is(f, 0)  OBVIOUS
    <3> QED  BY <2>2, <2>3, <3>1
  <2>4. CASE m # 0
    <3>1. m - 1 \in 0..n /\ m - 1 < m /\ m \in 1..n  BY <2>2, <2>4
    <3>2. m - 1 \notin Bad
      <4> HIDE DEF Bad
      <4> QED  BY <2>1, <2>2, <3>1
    <3>3. PICK f \in [0..m - 1 -> V] : Is(f, m - 1)  BY <3>1, <3>2
    <3> DEFINE v == h[m][f[back[m]]]
               g == [k \in 0..m |-> IF k = m THEN v ELSE f[k]]
    <3>4. v \in V
      <4>1. back[m] \in 0..m - 1 /\ h[m] \in [V -> V]  BY <3>1
      <4>2. f[back[m]] \in V  BY <4>1
      <4> QED  BY <4>1, <4>2
    <3>5. g \in [0..m -> V]
      <4>1. ASSUME NEW k \in 0..m PROVE (IF k = m THEN v ELSE f[k]) \in V
        <5> HIDE DEF v
        <5>1. k # m => k \in 0..m - 1  BY <3>1
        <5> QED  BY <3>4, <5>1
      <4> QED  BY <4>1
    <3>6. ASSUME NEW k \in 1..m PROVE g[k] = h[k][g[back[k]]]
      <4>1. back[k] \in 0..k - 1 /\ back[k] \in 0..m /\ back[k] # m  BY <3>1
      <4>2. g[back[k]] = f[back[k]]  BY <4>1
      <4>3. CASE k = m
        <5>1. g[k] = v  BY <4>3
        <5> QED  BY <4>2, <4>3, <5>1
      <4>4. CASE k # m
        <5>1. k \in 1..m - 1  BY <3>1, <4>4
        <5>2. f[k] = h[k][f[back[k]]]  BY <3>3, <5>1
        <5>3. g[k] = f[k]  BY <4>4
        <5> HIDE DEF g
        <5> QED  BY <4>2, <5>2, <5>3
      <4> QED  BY <4>3, <4>4
    <3>7. g[0] = z  BY <2>4, <3>1, <3>3
    <3> HIDE DEF g, v
    <3>8. Is(g, m)  BY <3>6, <3>7
    <3> HIDE DEF Is
    <3> QED  BY <2>2, <3>5, <3>8
  <2> QED  BY <2>3, <2>4
<1>2. n \in 0..n /\ n \notin Bad
  <2> HIDE DEF Bad
  <2> QED  BY <1>1
<1> QED  BY <1>2 DEF Follows

\* Or at a higher one.
Ascends(to, n) == \A k \in 1..n : to[k] \in k + 1 .. n + 1
Leads(f, n, z, h, to) == f[n + 1] = z /\ \A k \in 1..n : f[k] = h[k][f[to[k]]]

LEMMA RecursionUp ==
  ASSUME NEW n \in Nat, NEW V, NEW z \in V, NEW h \in [1..n -> [V -> V]],
         NEW to, Ascends(to, n)
  PROVE  \E f \in [1..n + 1 -> V] : Leads(f, n, z, h, to)
<1> DEFINE back == [m \in 1..n |-> n + 1 - to[n + 1 - m]]
           hh == [m \in 1..n |-> h[n + 1 - m]]
<1>1. ASSUME NEW m \in 1..n
      PROVE  /\ n + 1 - m \in 1..n /\ back[m] \in 0..m - 1
             /\ to[n + 1 - m] = n + 1 - back[m] /\ hh[m] \in [V -> V]
  <2>1. PICK k \in 1..n : k = n + 1 - m  OBVIOUS
  <2>2. to[k] \in k + 1..n + 1  BY DEF Ascends
  <2>3. back[m] = n + 1 - to[k] /\ hh[m] = h[k]  BY <2>1
  <2>4. n + 1 - to[k] \in 0..m - 1 /\ to[k] = n + 1 - (n + 1 - to[k])  BY <2>1, <2>2
  <2> QED  BY <2>1, <2>3, <2>4
<1>2. hh \in [1..n -> [V -> V]]
  <2>1. \A m \in 1..n : h[n + 1 - m] \in [V -> V]  BY <1>1
  <2> QED  BY <2>1
<1>3. Descends(back, n)  BY <1>1 DEF Descends
<1> HIDE DEF back, hh
<1>4. PICK f \in [0..n -> V] : Follows(f, n, z, hh, back)  BY <1>2, <1>3, Recursion
<1> DEFINE g == [k \in 1..n + 1 |-> f[n + 1 - k]]
<1>5. g \in [1..n + 1 -> V]
  <2>1. ASSUME NEW k \in 1..n + 1 PROVE f[n + 1 - k] \in V
    <3>1. n + 1 - k \in 0..n  OBVIOUS
    <3> QED  BY <3>1
  <2> QED  BY <2>1
<1>6. g[n + 1] = z
  <2>1. n + 1 \in 1..n + 1 /\ n + 1 - (n + 1) = 0  OBVIOUS
  <2>2. g[n + 1] = f[0]  BY <2>1
  <2> QED  BY <1>4, <2>2 DEF Follows
<1>7. ASSUME NEW k \in 1..n PROVE g[k] = h[k][g[to[k]]]
  <2>1. PICK m \in 1..n : m = n + 1 - k  OBVIOUS
  <2>2. n + 1 - m = k  BY <2>1
  <2>3. back[m] \in 0..m - 1 /\ to[k] = n + 1 - back[m]  BY <1>1, <2>2
  <2>4. g[k] = f[m]
    <3>1. k \in 1..n + 1  OBVIOUS
    <3> QED  BY <2>1, <3>1
  <2>5. to[k] \in 1..n + 1 /\ n + 1 - to[k] = back[m]  BY <2>3
  <2>6. g[to[k]] = f[back[m]]  BY <2>5
  <2>7. f[m] = hh[m][f[back[m]]]  BY <1>4 DEF Follows
  <2>8. hh[m] = h[k]  BY <2>2 DEF hh
  <2> HIDE DEF g
  <2> QED  BY <2>4, <2>6, <2>7, <2>8
<1> HIDE DEF g
<1>8. Leads(g, n, z, h, to)  BY <1>6, <1>7 DEF Leads
<1> QED  BY <1>5, <1>8

\* So are the pieces of a sequence put one behind the other.
LEMMA Flattened ==
  ASSUME NEW S, NEW s \in Seq(Seq(S)), s # <<>>
  PROVE  \E f \in [1..Len(s) -> Seq(S)] :
           /\ \A i \in 1..Len(s) : f[i] = IF i = 1 THEN s[i] ELSE f[i-1] \o s[i]
           /\ FlattenSeq(s) = f[Len(s)]
<1> DEFINE n == Len(s)
           V == Seq(S)
           h == [k \in 1..n |-> [v \in V |-> v \o s[k]]]
           back == [k \in 1..n |-> k - 1]
           Is(f) == f = [i \in 1..n |-> IF i = 1 THEN s[i] ELSE f[i-1] \o s[i]]
           flat == CHOOSE f : Is(f)
<1>1. n \in Nat /\ n # 0 /\ \A i \in 1..n : s[i] \in V  BY LenProperties, ElementOfSeq, EmptySeq
<1> HIDE DEF n
<1>2. h \in [1..n -> [V -> V]]
  <2>1. ASSUME NEW k \in 1..n, NEW v \in V PROVE v \o s[k] \in V  BY <1>1, ConcatProperties
  <2> QED  BY <2>1
<1>3. <<>> \in V /\ \A k \in 1..n : back[k] \in 0 .. k - 1  BY <1>1
<1>4. PICK f \in [0..n -> V] : f[0] = <<>> /\ \A k \in 1..n : f[k] = h[k][f[back[k]]]
  <2> DEFINE z == <<>>
  <2>1. n \in Nat  BY <1>1
  <2>2. z \in V /\ Descends(back, n)  BY <1>3 DEF Descends
  <2> HIDE DEF h, back, V, z
  <2>3. \E f \in [0..n -> V] : Follows(f, n, z, h, back)  BY <1>2, <2>1, <2>2, Recursion
  <2> QED  BY <2>3 DEF z, Follows
<1>5. ASSUME NEW k \in 1..n PROVE f[k] = f[k - 1] \o s[k] /\ f[k - 1] \in V /\ f[k] \in V
  <2>1. back[k] = k - 1 /\ k - 1 \in 0..n /\ k \in 0..n  BY <1>1
  <2>2. h[k][f[k - 1]] = f[k - 1] \o s[k]  BY <2>1
  <2> HIDE DEF h, back
  <2> QED  BY <1>4, <2>1, <2>2
<1> DEFINE g == [k \in 1..n |-> f[k]]
<1>6. g \in [1..n -> V] /\ \A i \in 1..n : g[i] = IF i = 1 THEN s[i] ELSE g[i-1] \o s[i]
  <2>1. g \in [1..n -> V]  BY <1>5
  <2>2. ASSUME NEW i \in 1..n PROVE g[i] = IF i = 1 THEN s[i] ELSE g[i-1] \o s[i]
    <3>1. CASE i = 1
      <4>1. f[i] = f[i - 1] \o s[i]  BY <1>5
      <4>2. i - 1 = 0  BY <3>1
      <4>3. f[i] = <<>> \o s[i]  BY <1>4, <4>1, <4>2
      <4>4. <<>> \o s[i] = s[i]  BY <1>1, ConcatEmptySeq
      <4>5. g[i] = f[i]  OBVIOUS
      <4> HIDE DEF g
      <4> QED  BY <3>1, <4>3, <4>4, <4>5
    <3>2. CASE i # 1
      <4>1. i - 1 \in 1..n  BY <1>1, <3>2
      <4> QED  BY <1>5, <3>2, <4>1
    <3> QED  BY <3>1, <3>2
  <2> QED  BY <2>1, <2>2
<1> HIDE DEF g
<1>7. Is(g)  BY <1>6
<1>8. Is(flat)
  <2> HIDE DEF Is
  <2> QED  BY <1>7
<1>9. FlattenSeq(s) = flat[n]  BY <1>1 DEF FlattenSeq, n
<1> HIDE DEF flat
<1>10. \A i \in 1..n : flat[i] = IF i = 1 THEN s[i] ELSE flat[i-1] \o s[i]  BY <1>8
<1> DEFINE Odd == {i \in 1..n : flat[i] # g[i]}
<1>11. Odd = {}
  <2> SUFFICES ASSUME Odd # {} PROVE FALSE
    OBVIOUS
  <2>1. PICK m \in Odd : \A k \in Odd : m <= k
    <3>1. Odd \subseteq Nat  OBVIOUS
    <3> HIDE DEF Odd
    <3> QED  BY <3>1, LeastOf
  <2>2. m \in 1..n /\ flat[m] # g[m]  OBVIOUS
  <2>3. m # 1  BY <1>6, <1>10, <2>2
  <2>4. m - 1 \in 1..n /\ m - 1 \notin Odd
    <3> HIDE DEF Odd
    <3> QED  BY <1>1, <2>1, <2>2, <2>3
  <2>5. flat[m - 1] = g[m - 1]  BY <2>4
  <2> QED  BY <1>6, <1>10, <2>2, <2>3, <2>5
<1>12. FlattenSeq(s) = g[n]
  <2>1. n \in 1..n  BY <1>1
  <2>2. flat[n] = g[n]  BY <1>11, <2>1
  <2> QED  BY <1>9, <2>2
<1> QED  BY <1>6, <1>12 DEF n

\* One more piece at the end.
LEMMA FlattenGrows ==
  ASSUME NEW S, NEW s \in Seq(Seq(S)), NEW x \in Seq(S)
  PROVE  /\ FlattenSeq(<<>>) = <<>>
         /\ FlattenSeq(s) \in Seq(S) /\ FlattenSeq(s \o <<x>>) = FlattenSeq(s) \o x
<1> DEFINE t == s \o <<x>>
           n == Len(s)
<1>0. FlattenSeq(<<>>) = <<>>  BY DEF FlattenSeq
<1>1. n \in Nat  BY LenProperties
<1>2. /\ t \in Seq(Seq(S)) /\ Len(t) = n + 1 /\ t # <<>> /\ t[n + 1] = x
      /\ \A i \in 1..n : t[i] = s[i]
  <2> DEFINE o == <<x>>
  <2>1. o \in Seq(Seq(S)) /\ Len(o) = 1 /\ o[1] = x  OBVIOUS
  <2> HIDE DEF o
  <2>2. /\ s \o o \in Seq(Seq(S)) /\ Len(s \o o) = Len(s) + Len(o)
        /\ \A i \in 1..Len(s) + Len(o) : (s \o o)[i] = IF i <= Len(s) THEN s[i] ELSE o[i - Len(s)]
    BY <2>1, ConcatProperties
  <2>3. t = s \o o  BY DEF o
  <2> HIDE DEF t
  <2>4. t[n + 1] = x
    <3>1. n + 1 \in 1..Len(s) + Len(o) /\ ~ (n + 1 <= Len(s)) /\ n + 1 - Len(s) = 1  BY <1>1, <2>1
    <3> QED  BY <2>1, <2>2, <2>3, <3>1
  <2>5. ASSUME NEW i \in 1..n PROVE t[i] = s[i]
    <3>1. i \in 1..Len(s) + Len(o) /\ i <= Len(s)  BY <1>1, <2>1
    <3> QED  BY <2>2, <2>3, <3>1
  <2>6. Len(t) = n + 1 /\ t \in Seq(Seq(S))  BY <2>1, <2>2, <2>3
  <2>7. t # <<>>  BY <1>1, <2>6, EmptySeq
  <2> QED  BY <2>4, <2>5, <2>6, <2>7
<1> HIDE DEF t, n
<1>3. PICK g \in [1..n + 1 -> Seq(S)] :
        /\ \A i \in 1..n + 1 : g[i] = IF i = 1 THEN t[i] ELSE g[i-1] \o t[i]
        /\ FlattenSeq(t) = g[n + 1]
  <2>1. PICK g \in [1..Len(t) -> Seq(S)] :
          /\ \A i \in 1..Len(t) : g[i] = IF i = 1 THEN t[i] ELSE g[i-1] \o t[i]
          /\ FlattenSeq(t) = g[Len(t)]
    BY <1>2, Flattened
  <2>2. Len(t) = n + 1  BY <1>2
  <2> QED  BY <2>1, <2>2
<1>4. CASE s = <<>>
  <2>1. n = 0  BY <1>4 DEF n
  <2>2. n + 1 = 1 /\ 1 \in 1..n + 1  BY <2>1
  <2>3. g[1] = t[1]  BY <1>3, <2>2
  <2>4. FlattenSeq(t) = x  BY <1>2, <1>3, <2>2, <2>3
  <2>5. <<>> \o x = x  BY ConcatEmptySeq
  <2>6. FlattenSeq(s) = <<>>  BY <1>0, <1>4
  <2> QED  BY <1>0, <2>4, <2>5, <2>6 DEF t
<1>5. CASE s # <<>>
  <2>1. PICK f \in [1..n -> Seq(S)] :
          /\ \A i \in 1..n : f[i] = IF i = 1 THEN s[i] ELSE f[i-1] \o s[i]
          /\ FlattenSeq(s) = f[n]
    BY <1>5, Flattened DEF n
  <2> DEFINE Odd == {i \in 1..n : f[i] # g[i]}
  <2>2. Odd = {}
    <3> SUFFICES ASSUME Odd # {} PROVE FALSE
      OBVIOUS
    <3>1. PICK m \in Odd : \A k \in Odd : m <= k
      <4>1. Odd \subseteq Nat  OBVIOUS
      <4> HIDE DEF Odd
      <4> QED  BY <4>1, LeastOf
    <3>2. m \in 1..n /\ f[m] # g[m] /\ m \in 1..n + 1  BY <1>1
    <3>3. m # 1  BY <1>2, <1>3, <2>1, <3>2
    <3>4. m - 1 \in 1..n /\ m - 1 \notin Odd
      <4> HIDE DEF Odd
      <4> QED  BY <1>1, <3>1, <3>2, <3>3
    <3>5. f[m - 1] = g[m - 1]  BY <3>4
    <3>6. f[m] = f[m - 1] \o s[m]  BY <2>1, <3>2, <3>3
    <3>7. g[m] = g[m - 1] \o t[m]  BY <1>3, <3>2, <3>3
    <3>8. t[m] = s[m]  BY <1>2, <3>2
    <3> QED  BY <3>2, <3>5, <3>6, <3>7, <3>8
  <2>3. n # 0  BY <1>5, EmptySeq DEF n
  <2>4. f[n] = g[n] /\ f[n] \in Seq(S)
    <3>1. n \in 1..n  BY <1>1, <2>3
    <3>2. f[n] \in Seq(S)  BY <3>1
    <3>3. f[n] = g[n]  BY <2>2, <3>1
    <3> QED  BY <3>2, <3>3
  <2>5. g[n + 1] = g[n] \o t[n + 1]
    <3>1. PICK m \in 1..n + 1 : m = n + 1  BY <1>1
    <3>2. m # 1 /\ m - 1 = n  BY <1>1, <2>3, <3>1
    <3>3. g[m] = g[m - 1] \o t[m]  BY <1>3, <3>2
    <3> QED  BY <3>1, <3>2, <3>3
  <2> QED  BY <1>0, <1>2, <1>3, <2>1, <2>4, <2>5 DEF t
<1> QED  BY <1>4, <1>5
=============================================================================
