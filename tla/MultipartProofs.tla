--------------------------- MODULE MultipartProofs ---------------------------
(***************************************************************************)
(* For every boundary without a CR, every body and every way to cut it     *)
(* into reads: the parser's indices stay in bounds, its callbacks come in  *)
(* PartCalls' order, and a part's data is reported byte for byte up to the *)
(* first delimiter.                                                        *)
(***************************************************************************)
EXTENDS Multipart, SeqLemmas

\* Bodies are sequences, and what lies before got can be looked at.
LEMMA BodyType ==
  ASSUME TypeOK
  PROVE  /\ body \in Seq(Byte) /\ Len(body) \in Nat /\ Boundary \in Seq(Byte)
         /\ Len(Boundary) \in Nat /\ Len(Boundary) > 0
         /\ pos \in Nat /\ got \in Nat /\ pos <= got /\ got <= Len(body)
         /\ pos < got => c \in Byte
<1>1. body \in Seq(Byte)  BY MultipartAssumption DEF TypeOK, PlaceType
<1>2. Len(body) \in Nat  BY <1>1, LenProperties
<1>3. pos \in Nat /\ got \in Nat /\ pos <= got /\ got <= Len(body)
  BY <1>2 DEF TypeOK, PlaceType
<1>4. ASSUME pos < got PROVE c \in Byte
  <2>1. pos + 1 \in 1..Len(body)  BY <1>2, <1>3, <1>4
  <2> QED  BY <1>1, <2>1, ElementOfSeq DEF c
<1>5. Boundary \in Seq(Byte \ {CR}) /\ Boundary # <<>>  BY MultipartAssumption
<1>6. Boundary \in Seq(Byte)  BY <1>5
<1>7. Len(Boundary) \in Nat /\ Len(Boundary) > 0  BY <1>5
<1> QED  BY <1>1, <1>2, <1>3, <1>4, <1>6, <1>7

\* A piece that ends at the parser's place, or with the byte at hand.
LEMMA PieceType ==
  ASSUME TypeOK, NEW m \in 1..pos + 1
  PROVE  /\ Piece(m, pos) \in Seq(Byte)
         /\ pos < got => Piece(m, pos + 1) \in Seq(Byte)
                          /\ Piece(m, pos + 1) = Piece(m, pos) \o <<c>>
<1>1. Piece(m, pos) \in Seq(Byte)
  BY BodyType, PieceProperties DEF Piece
<1>2. ASSUME pos < got
      PROVE  Piece(m, pos + 1) \in Seq(Byte) /\ Piece(m, pos + 1) = Piece(m, pos) \o <<c>>
  <2>1. pos + 1 <= Len(body) /\ m <= (pos + 1) + 1 /\ m \in Nat \ {0} /\ pos + 1 \in Nat
        /\ pos < Len(body) /\ m <= pos + 1
    BY <1>2, BodyType
  <2>2. Piece(m, pos + 1) \in Seq(Byte)  BY <2>1, BodyType, PieceProperties DEF Piece
  <2>3. Piece(m, pos + 1) = Append(Piece(m, pos), c)
    BY <2>1, BodyType, PieceGrows DEF Piece, c
  <2>4. c \in Byte  BY <1>2, BodyType
  <2> QED  BY <1>1, <2>2, <2>3, <2>4, AppendIsConcat
<1> QED  BY <1>1, <1>2

\* The held back bytes are bytes, as many as asked for.
LEMMA HeldType ==
  ASSUME TypeOK, NEW n \in 0..Len(Boundary) + 2
  PROVE  /\ lookbehind \in Seq(Byte) /\ Len(lookbehind) = Len(Boundary) + 2
         /\ Held(n) \in Seq(Byte) /\ Len(Held(n)) = n
         /\ \A k \in 1..n : Held(n)[k] = lookbehind[k]
<1>1. Len(Boundary) \in Nat  BY BodyType
<1>2. lookbehind \in Seq(Byte) /\ Len(lookbehind) = Len(Boundary) + 2
  BY <1>1 DEF TypeOK, ParserType
<1> QED  BY <1>1, <1>2, PieceProperties DEF Held

\* Writing the next byte to lookbehind holds back that byte as well.
LEMMA HeldGrows ==
  ASSUME TypeOK, NEW n \in 0..Len(Boundary) + 1, NEW x \in Byte,
         lookbehind' = [lookbehind EXCEPT ![n + 1] = x]
  PROVE  Held(n + 1)' = Held(n) \o <<x>>
<1>1. lookbehind \in Seq(Byte) /\ Len(lookbehind) = Len(Boundary) + 2
      /\ Len(Boundary) \in Nat
  BY HeldType, BodyType
<1>2. lookbehind' \in Seq(Byte) /\ Len(lookbehind') = Len(Boundary) + 2
      /\ \A k \in 1..Len(Boundary) + 2 : lookbehind'[k] = IF k = n + 1 THEN x ELSE lookbehind[k]
  BY <1>1, ExceptSeq
<1>3. SubSeq(lookbehind', 1, n + 1) = Append(SubSeq(lookbehind', 1, n), lookbehind'[n + 1])
  BY <1>1, <1>2, PieceGrows
<1>4. SubSeq(lookbehind', 1, n) = SubSeq(lookbehind, 1, n)
  <2>1. /\ SubSeq(lookbehind', 1, n) \in Seq(Byte) /\ Len(SubSeq(lookbehind', 1, n)) = n
        /\ \A k \in 1..n : SubSeq(lookbehind', 1, n)[k] = lookbehind'[k]
    BY <1>1, <1>2, PieceProperties
  <2>2. /\ SubSeq(lookbehind, 1, n) \in Seq(Byte) /\ Len(SubSeq(lookbehind, 1, n)) = n
        /\ \A k \in 1..n : SubSeq(lookbehind, 1, n)[k] = lookbehind[k]
    BY <1>1, PieceProperties
  <2>3. \A k \in 1..n : lookbehind'[k] = lookbehind[k]  BY <1>1, <1>2
  <2> QED  BY <2>1, <2>2, <2>3, SeqEqual
<1>5. lookbehind'[n + 1] = x  BY <1>1, <1>2
<1>6. SubSeq(lookbehind, 1, n) \in Seq(Byte)  BY <1>1, PieceProperties
<1> QED  BY <1>3, <1>4, <1>5, <1>6, AppendIsConcat DEF Held

---------------------------------------------------------------------------
(* Type correctness.                                                       *)

\* Places only move forward, and stay inside what was read.
LEMMA PlaceStep == TypeOK /\ [Next]_vars => PlaceType'
<1> SUFFICES ASSUME TypeOK, [Next]_vars PROVE PlaceType'
  OBVIOUS
<1>0. /\ Len(body) \in Nat /\ Len(Boundary) \in Nat /\ Len(Boundary) > 0 /\ pos \in Nat
      /\ got \in Nat /\ pos <= got /\ got <= Len(body)
  BY BodyType
<1> USE DEF reads, header, part, TypeOK, PlaceType
<1>1. CASE Read  BY <1>1, <1>0 DEF Read
<1>2. CASE Reject  BY <1>2, <1>0 DEF Reject
<1>3. CASE StartBoundary  BY <1>3, <1>0 DEF StartBoundary, At, Eat
<1>4. CASE HeadersEnd
  <2>1. FieldFrom \in 1..pos + 1  BY <1>0 DEF FieldFrom
  <2> QED  BY <1>4, <1>0, <2>1 DEF HeadersEnd, FieldGets, InField, At, Eat
<1>5. CASE FieldByte
  <2>1. FieldFrom \in 1..pos + 1  BY <1>0 DEF FieldFrom
  <2> QED  BY <1>5, <1>0, <2>1 DEF FieldByte, FieldGets, InField, At, Eat
<1>6. CASE FieldEnd
  <2>1. FieldFrom \in 1..pos + 1  BY <1>0 DEF FieldFrom
  <2> QED  BY <1>6, <1>0, <2>1 DEF FieldEnd, FieldGets, InField, At, Eat
<1>7. CASE HeadersDone  BY <1>7, <1>0 DEF HeadersDone, At, Eat
<1>8. CASE HeaderValueStart  BY <1>8, <1>0 DEF HeaderValueStart, At, Eat
<1>9. CASE HeaderValue
  <2>1. ValueFrom \in 1..pos + 1  BY <1>0 DEF ValueFrom
  <2> QED  BY <1>9, <1>0, <2>1 DEF HeaderValue, At, Eat
<1>10. CASE HeaderLineEnd  BY <1>10, <1>0 DEF HeaderLineEnd, At, Eat
<1>11. CASE PartDataStart  BY <1>11, <1>0 DEF PartDataStart, At, GoesOn
<1>12. CASE PartData  BY <1>12, <1>0 DEF PartData, At, Eat, Reports, GoesOn
<1>13. CASE PartDataCR  BY <1>13, <1>0 DEF PartDataCR, At, Eat, Reports, GoesOn
<1>14. CASE AlmostBoundary  BY <1>14, <1>0 DEF AlmostBoundary, At, Eat
<1>15. CASE NoLF  BY <1>15, <1>0 DEF NoLF, At, NotBoundary, Reports, GoesOn
<1>16. CASE NoBoundary  BY <1>16, <1>0 DEF NoBoundary, At, NotBoundary, Reports, GoesOn
<1>17. CASE PartBoundary  BY <1>17, <1>0 DEF PartBoundary, At, Eat, GoesOn
<1>18. CASE AlmostEnd  BY <1>18, <1>0 DEF AlmostEnd, At, Eat
<1>19. CASE FinalHyphen  BY <1>19, <1>0 DEF FinalHyphen, At, Eat
<1>20. CASE PartDataEnd  BY <1>20, <1>0 DEF PartDataEnd, At, Eat
<1>21. CASE Epilogue  BY <1>21, <1>0 DEF Epilogue, At, Eat
<1>22. CASE UNCHANGED vars  BY <1>22 DEF vars
<1> QED
  BY <1>1, <1>2, <1>3, <1>4, <1>5, <1>6, <1>7, <1>8, <1>9, <1>10, <1>11, <1>12, <1>13,
     <1>14, <1>15, <1>16, <1>17, <1>18, <1>19, <1>20, <1>21, <1>22 DEF Next

\* index stays inside the boundary and two bytes more.
LEMMA ParserStep == TypeOK /\ [Next]_vars => ParserType'
<1> SUFFICES ASSUME TypeOK, [Next]_vars PROVE ParserType'
  OBVIOUS
<1>0. /\ Len(body) \in Nat /\ Len(Boundary) \in Nat /\ Len(Boundary) > 0 /\ pos \in Nat
      /\ got \in Nat /\ pos <= got /\ got <= Len(body)
  BY BodyType
<1> USE DEF reads, header, part, TypeOK, ParserType, States, Calls!CallNames
<1>1. CASE Read  BY <1>1, <1>0 DEF Read
<1>2. CASE Reject  BY <1>2, <1>0 DEF Reject
<1>3. CASE StartBoundary  BY <1>3, <1>0 DEF StartBoundary, At, Eat
<1>4. CASE HeadersEnd  BY <1>4, <1>0 DEF HeadersEnd, InField, FieldGets, At, Eat
<1>5. CASE FieldByte  BY <1>5, <1>0 DEF FieldByte, InField, FieldGets, At, Eat
<1>6. CASE FieldEnd  BY <1>6, <1>0 DEF FieldEnd, InField, FieldGets, At, Eat
<1>7. CASE HeadersDone  BY <1>7, <1>0 DEF HeadersDone, At, Eat
<1>8. CASE HeaderValueStart  BY <1>8, <1>0 DEF HeaderValueStart, At, Eat
<1>9. CASE HeaderValue  BY <1>9, <1>0 DEF HeaderValue, At, Eat
<1>10. CASE HeaderLineEnd  BY <1>10, <1>0 DEF HeaderLineEnd, At, Eat
<1>11. CASE PartDataStart  BY <1>11, <1>0 DEF PartDataStart, At, GoesOn
<1>12. CASE PartData  BY <1>12, <1>0 DEF PartData, At, Eat, Reports, GoesOn
<1>13. CASE PartDataCR
  <2>1. lookbehind' \in [1..Len(Boundary) + 2 -> Byte]
    BY <1>13, MultipartAssumption DEF PartDataCR
  <2> QED  BY <1>13, <1>0, <2>1 DEF PartDataCR, At, Eat, Reports, GoesOn
<1>14. CASE AlmostBoundary
  <2>1. lookbehind' \in [1..Len(Boundary) + 2 -> Byte]
    BY <1>14, MultipartAssumption DEF AlmostBoundary
  <2> QED  BY <1>14, <1>0, <2>1 DEF AlmostBoundary, At, Eat
<1>15. CASE NoLF  BY <1>15, <1>0 DEF NoLF, At, NotBoundary, Reports, GoesOn
<1>16. CASE NoBoundary  BY <1>16, <1>0 DEF NoBoundary, At, NotBoundary, Reports, GoesOn
<1>17. CASE PartBoundary
  <2>1. c \in Byte  BY <1>17, BodyType DEF PartBoundary, At
  <2>2. lookbehind' \in [1..Len(Boundary) + 2 -> Byte]  BY <1>17, <2>1 DEF PartBoundary
  <2> QED  BY <1>17, <1>0, <2>2 DEF PartBoundary, At, Eat, GoesOn
<1>18. CASE AlmostEnd  BY <1>18, <1>0 DEF AlmostEnd, At, Eat
<1>19. CASE FinalHyphen  BY <1>19, <1>0 DEF FinalHyphen, At, Eat
<1>20. CASE PartDataEnd  BY <1>20, <1>0 DEF PartDataEnd, At, Eat
<1>21. CASE Epilogue  BY <1>21, <1>0 DEF Epilogue, At, Eat
<1>22. CASE UNCHANGED vars  BY <1>22 DEF vars
<1> QED
  BY <1>1, <1>2, <1>3, <1>4, <1>5, <1>6, <1>7, <1>8, <1>9, <1>10, <1>11, <1>12, <1>13,
     <1>14, <1>15, <1>16, <1>17, <1>18, <1>19, <1>20, <1>21, <1>22 DEF Next

\* Everything reported is made of bytes.
LEMMA TextStep == TypeOK /\ [Next]_vars => TextType'
<1> SUFFICES ASSUME TypeOK, [Next]_vars PROVE TextType'
  OBVIOUS
<1>0. /\ Len(body) \in Nat /\ Len(Boundary) \in Nat /\ Len(Boundary) > 0 /\ pos \in Nat
      /\ got \in Nat /\ pos <= got /\ got <= Len(body)
  BY BodyType
<1> USE DEF reads, header, part, TextType
<1>a. data \in Seq(Byte) /\ fields \in Seq(Seq(Byte)) /\ values \in Seq(Seq(Byte))
  BY DEF TypeOK
<1>b. index \in Nat /\ (state = "part_data_boundary" => index < Len(Boundary))
  BY <1>0 DEF TypeOK, ParserType
<1>c. FieldFrom \in 1..pos + 1 /\ ValueFrom \in 1..pos + 1 /\ mark \in 1..pos + 1
  BY <1>0 DEF TypeOK, PlaceType, FieldFrom, ValueFrom
<1>1. CASE Read  BY <1>1, <1>a DEF Read
<1>2. CASE Reject  BY <1>2, <1>a DEF Reject
<1>3. CASE StartBoundary  BY <1>3, <1>a DEF StartBoundary, At, Eat
<1>4. CASE HeadersEnd
  <2>1. fields' \in {<<>>, fields \o <<>>} /\ values' \in {<<>>, values} /\ data' = data
    BY <1>4 DEF HeadersEnd, FieldGets
  <2>2. fields \o <<>> \in Seq(Seq(Byte)) /\ <<>> \in Seq(Seq(Byte))
    BY <1>a, ConcatProperties
  <2>3. fields' \in Seq(Seq(Byte))  BY <2>1, <2>2
  <2>4. values' \in Seq(Seq(Byte))  BY <1>a, <2>1, <2>2
  <2> QED  BY <1>a, <2>1, <2>3, <2>4
<1>5. CASE FieldByte
  <2> DEFINE ps == IF IsLast /\ c # Hyphen THEN <<Piece(FieldFrom, pos + 1)>> ELSE <<>>
  <2>1. Piece(FieldFrom, pos + 1) \in Seq(Byte)
    BY <1>5, <1>c, PieceType DEF FieldByte, InField, At
  <2>2. ps \in Seq(Seq(Byte))  BY <2>1
  <2>3. fields' \in {ps, fields \o ps} /\ values' \in {<<>>, values} /\ data' = data
    BY <1>5 DEF FieldByte, FieldGets
  <2> HIDE DEF ps
  <2>4. fields \o ps \in Seq(Seq(Byte)) /\ <<>> \in Seq(Seq(Byte))
    BY <1>a, <2>2, ConcatProperties
  <2>5. fields' \in Seq(Seq(Byte))  BY <2>2, <2>3, <2>4
  <2>6. values' \in Seq(Seq(Byte))  BY <1>a, <2>3, <2>4
  <2> QED  BY <1>a, <2>3, <2>5, <2>6
<1>6. CASE FieldEnd
  <2> DEFINE ps == <<Piece(FieldFrom, pos)>>
  <2>1. Piece(FieldFrom, pos) \in Seq(Byte)  BY <1>c, PieceType
  <2>2. ps \in Seq(Seq(Byte))  BY <2>1
  <2>3. fields' \in {ps, fields \o ps} /\ values' \in {<<>>, values} /\ data' = data
    BY <1>6 DEF FieldEnd, FieldGets
  <2> HIDE DEF ps
  <2>4. fields \o ps \in Seq(Seq(Byte)) /\ <<>> \in Seq(Seq(Byte))
    BY <1>a, <2>2, ConcatProperties
  <2>5. fields' \in Seq(Seq(Byte))  BY <2>2, <2>3, <2>4
  <2>6. values' \in Seq(Seq(Byte))  BY <1>a, <2>3, <2>4
  <2> QED  BY <1>a, <2>3, <2>5, <2>6
<1>7. CASE HeadersDone  BY <1>7, <1>a DEF HeadersDone, At, Eat
<1>8. CASE HeaderValueStart  BY <1>8, <1>a DEF HeaderValueStart, At, Eat
<1>9. CASE HeaderValue
  <2> DEFINE ps == IF c = CR THEN <<Piece(ValueFrom, pos)>> ELSE <<>>
             qs == IF IsLast THEN <<Piece(ValueFrom, pos + 1)>> ELSE <<>>
  <2>1. Piece(ValueFrom, pos) \in Seq(Byte) /\ Piece(ValueFrom, pos + 1) \in Seq(Byte)
    BY <1>9, <1>c, PieceType DEF HeaderValue, At
  <2>2. ps \in Seq(Seq(Byte)) /\ qs \in Seq(Seq(Byte))  BY <2>1
  <2>3. values' = (values \o ps) \o qs /\ fields' = fields /\ data' = data
    BY <1>9 DEF HeaderValue
  <2> HIDE DEF ps, qs
  <2>4. values \o ps \in Seq(Seq(Byte))  BY <1>a, <2>2, ConcatProperties
  <2>5. (values \o ps) \o qs \in Seq(Seq(Byte))  BY <2>2, <2>4, ConcatProperties
  <2> QED  BY <1>a, <2>3, <2>5
<1>10. CASE HeaderLineEnd  BY <1>10, <1>a DEF HeaderLineEnd, At, Eat
<1>11. CASE PartDataStart  BY <1>11, <1>a DEF PartDataStart, At, GoesOn
<1>12. CASE PartData
  <2>1. Piece(mark, pos + 1) \in Seq(Byte)  BY <1>12, <1>c, PieceType DEF PartData, At
  <2>2. data \o Piece(mark, pos + 1) \in Seq(Byte)  BY <1>a, <2>1, ConcatProperties
  <2> QED  BY <1>12, <1>a, <2>2 DEF PartData, Reports
<1>13. CASE PartDataCR
  <2>1. Piece(mark, pos) \in Seq(Byte)  BY <1>c, PieceType
  <2>2. data \o Piece(mark, pos) \in Seq(Byte)  BY <1>a, <2>1, ConcatProperties
  <2> QED  BY <1>13, <1>a, <2>2 DEF PartDataCR, Reports
<1>14. CASE AlmostBoundary  BY <1>14, <1>a DEF AlmostBoundary, At, Eat
<1>15. CASE NoLF
  <2>1. Held(1) \in Seq(Byte)  BY <1>0, HeldType
  <2>2. data \o Held(1) \in Seq(Byte)  BY <1>a, <2>1, ConcatProperties
  <2> QED  BY <1>15, <1>a, <2>2 DEF NoLF, NotBoundary, Reports
<1>16. CASE NoBoundary
  <2>1. 2 + index \in 0..Len(Boundary) + 2  BY <1>16, <1>0, <1>b DEF NoBoundary, At
  <2>2. Held(2 + index) \in Seq(Byte)  BY <2>1, HeldType
  <2>3. data \o Held(2 + index) \in Seq(Byte)  BY <1>a, <2>2, ConcatProperties
  <2> QED  BY <1>16, <1>a, <2>3 DEF NoBoundary, NotBoundary, Reports
<1>17. CASE PartBoundary  BY <1>17, <1>a DEF PartBoundary, At, Eat, GoesOn
<1>18. CASE AlmostEnd  BY <1>18, <1>a DEF AlmostEnd, At, Eat
<1>19. CASE FinalHyphen  BY <1>19, <1>a DEF FinalHyphen, At, Eat
<1>20. CASE PartDataEnd  BY <1>20, <1>a DEF PartDataEnd, At, Eat
<1>21. CASE Epilogue  BY <1>21, <1>a DEF Epilogue, At, Eat
<1>22. CASE UNCHANGED vars  BY <1>22, <1>a DEF vars
<1> QED
  BY <1>1, <1>2, <1>3, <1>4, <1>5, <1>6, <1>7, <1>8, <1>9, <1>10, <1>11, <1>12, <1>13,
     <1>14, <1>15, <1>16, <1>17, <1>18, <1>19, <1>20, <1>21, <1>22 DEF Next

\* The parser starts with well-typed variables.
LEMMA InitType == Init => TypeOK
<1> SUFFICES ASSUME Init PROVE TypeOK
  OBVIOUS
<1>1. body \in Seq(Byte) /\ Len(body) \in Nat /\ Len(Boundary) \in Nat
  BY MultipartAssumption, LenProperties DEF Init
<1>2. PlaceType  BY <1>1 DEF Init, PlaceType
<1>3. ParserType
  BY <1>1, MultipartAssumption DEF Init, ParserType, States, Calls!CallNames
<1>4. TextType  BY DEF Init, TextType
<1> QED  BY <1>2, <1>3, <1>4 DEF TypeOK

\* For every boundary, body and split into reads, the parser's indices and
\* places stay inside the arrays they index.
THEOREM TypeCorrect == Spec => []TypeOK
<1>1. TypeOK /\ [Next]_vars => TypeOK'  BY PlaceStep, ParserStep, TextStep DEF TypeOK
<1> QED  BY InitType, <1>1, PTL DEF Spec

---------------------------------------------------------------------------
(* The order of the callbacks.                                             *)

\* The last callback possible in each state of the parser.
CalledFits ==
  /\ state = "start_boundary" => called = "none"
  /\ state = "header_field_start" => called \in {"none", "value", "end"}
  /\ state \in {"header_field", "headers_almost_done", "part_data_start"} =>
       called \in {"none", "field", "value", "end"}
  /\ state = "header_value_start" => called = "field"
  /\ state = "header_value" => called \in {"field", "value"}
  /\ state = "header_value_almost_done" => called = "value"
  /\ state = "part_data" => called \in {"complete", "data"}
  /\ state \in {"part_data_almost_boundary", "part_data_boundary"} => called = "data"
  /\ state \in {"part_data_almost_end", "part_data_end",
                "part_data_final_hyphen", "end"} => called = "end"

\* A sequence that one element and others were put behind has changed.
LEMMA LongerThanBefore ==
  ASSUME NEW S, NEW s \in Seq(S), NEW e \in S, NEW t \in Seq(S)
  PROVE  (s \o <<e>>) \o t # s
<1>1. <<e>> \in Seq(S) /\ Len(<<e>>) = 1  OBVIOUS
<1>2. s \o <<e>> \in Seq(S) /\ Len(s \o <<e>>) = Len(s) + 1
  BY <1>1, ConcatProperties
<1>3. Len((s \o <<e>>) \o t) = Len(s) + 1 + Len(t)  BY <1>2, ConcatProperties
<1>4. Len(s) \in Nat /\ Len(t) \in Nat  BY LenProperties
<1> QED  BY <1>3, <1>4

\* Every step that calls back follows the order, from a state that knows
\* what was called last, and the others call nothing.
LEMMA CallStep ==
  TypeOK /\ CalledFits /\ [Next]_vars => CalledFits' /\ [Calls!Next]_called
<1> SUFFICES ASSUME TypeOK, CalledFits, [Next]_vars
             PROVE  CalledFits' /\ [Calls!Next]_called
  OBVIOUS
<1> USE DEF CalledFits, Calls!Next, Calls!Field, Calls!Value, Calls!Complete,
            Calls!Data, Calls!End, At
<1>1. CASE Read  BY <1>1 DEF Read
<1>2. CASE Reject  BY <1>2 DEF Reject
<1>3. CASE StartBoundary  BY <1>3 DEF StartBoundary
<1>4. CASE HeadersEnd  BY <1>4 DEF HeadersEnd, InField, FieldGets
<1>5. CASE FieldByte  BY <1>5 DEF FieldByte, InField, FieldGets
<1>6. CASE FieldEnd  BY <1>6 DEF FieldEnd, InField, FieldGets
<1>7. CASE HeadersDone  BY <1>7 DEF HeadersDone
<1>8. CASE HeaderValueStart  BY <1>8 DEF HeaderValueStart
<1>9. CASE HeaderValue
  <2>1. c = CR => values' # values
    <3> SUFFICES ASSUME c = CR PROVE values' # values
      OBVIOUS
    <3> DEFINE qs == IF IsLast THEN <<Piece(ValueFrom, pos + 1)>> ELSE <<>>
    <3>1. ValueFrom \in 1..pos + 1  BY BodyType DEF TypeOK, PlaceType, ValueFrom
    <3>2. Piece(ValueFrom, pos) \in Seq(Byte) /\ Piece(ValueFrom, pos + 1) \in Seq(Byte)
      BY <1>9, <3>1, PieceType DEF HeaderValue
    <3>3. values' = (values \o <<Piece(ValueFrom, pos)>>) \o qs  BY <1>9 DEF HeaderValue
    <3>4. qs \in Seq(Seq(Byte)) /\ values \in Seq(Seq(Byte))  BY <3>2 DEF TypeOK, TextType
    <3> HIDE DEF qs
    <3> QED  BY <3>2, <3>3, <3>4, LongerThanBefore
  <2>2. called \in {"field", "value"} /\ called' \in {called, "value"}
        /\ (values' # values => called' = "value")
        /\ state' = IF c = CR THEN "header_value_almost_done" ELSE "header_value"
    BY <1>9 DEF HeaderValue
  <2> QED  BY <2>1, <2>2
<1>10. CASE HeaderLineEnd  BY <1>10 DEF HeaderLineEnd
<1>11. CASE PartDataStart  BY <1>11 DEF PartDataStart, GoesOn
<1>12. CASE PartData  BY <1>12 DEF PartData, Reports, GoesOn
<1>13. CASE PartDataCR  BY <1>13 DEF PartDataCR, Reports, GoesOn
<1>14. CASE AlmostBoundary  BY <1>14 DEF AlmostBoundary
<1>15. CASE NoLF  BY <1>15 DEF NoLF, NotBoundary, Reports, GoesOn
<1>16. CASE NoBoundary  BY <1>16 DEF NoBoundary, NotBoundary, Reports, GoesOn
<1>17. CASE PartBoundary  BY <1>17 DEF PartBoundary, GoesOn
<1>18. CASE AlmostEnd  BY <1>18 DEF AlmostEnd
<1>19. CASE FinalHyphen  BY <1>19 DEF FinalHyphen
<1>20. CASE PartDataEnd  BY <1>20 DEF PartDataEnd
<1>21. CASE Epilogue  BY <1>21 DEF Epilogue
<1>22. CASE UNCHANGED vars  BY <1>22 DEF vars
<1> QED
  BY <1>1, <1>2, <1>3, <1>4, <1>5, <1>6, <1>7, <1>8, <1>9, <1>10, <1>11, <1>12, <1>13,
     <1>14, <1>15, <1>16, <1>17, <1>18, <1>19, <1>20, <1>21, <1>22 DEF Next

\* For every boundary, body and split into reads, the callbacks come in
\* PartCalls' order, on which main_upload's callbacks rely.
THEOREM CallsInOrder == Spec => InOrder
<1>1. TypeOK /\ [Next]_vars => TypeOK'  BY PlaceStep, ParserStep, TextStep DEF TypeOK
<1>2. Init => CalledFits /\ Calls!Init  BY DEF Init, CalledFits, Calls!Init
<1> QED  BY InitType, <1>1, <1>2, CallStep, PTL DEF Spec, InOrder, Calls!Spec

---------------------------------------------------------------------------
(* What is reported of a part's data.                                      *)

\* The piece before the first byte of it is empty.
LEMMA NothingYet == TypeOK => Piece(pos + 1, pos) = <<>>
<1> SUFFICES ASSUME TypeOK PROVE Piece(pos + 1, pos) = <<>>
  OBVIOUS
<1>1. Piece(pos + 1, pos) \in Seq(Byte) /\ Len(Piece(pos + 1, pos)) = pos - (pos + 1) + 1
  BY BodyType, PieceProperties DEF Piece
<1>2. Len(Piece(pos + 1, pos)) = 0  BY <1>1, BodyType
<1> QED  BY <1>1, <1>2, EmptySeq

\* The byte at hand put behind what is unreported keeps the whole exact.
LEMMA OneMore ==
  ASSUME TypeOK, pos < got, NEW d \in Seq(Byte), NEW u \in Seq(Byte), NEW v
  PROVE  d \o u = Piece(begin + 1, pos) /\ v = u \o <<c>> =>
           d \o v = Piece(begin + 1, pos + 1)
<1> DEFINE w == Piece(begin + 1, pos)
           last == <<c>>
<1>1. begin + 1 \in 1..pos + 1  BY BodyType DEF TypeOK, PlaceType
<1>2. Piece(begin + 1, pos + 1) = w \o last  BY <1>1, PieceType
<1>3. last \in Seq(Byte)  BY BodyType
<1> HIDE DEF last, w
<1>4. w = d \o u /\ v = u \o last => d \o v = w \o last  BY <1>3, PutBehind
<1> QED  BY <1>2, <1>4 DEF last, w

\* Every byte parsed is reported or held back, in its order.
LEMMA DataStep == TypeOK /\ DataExact /\ [Next]_vars => DataExact'
<1> SUFFICES ASSUME TypeOK, DataExact, [Next]_vars PROVE DataExact'
  OBVIOUS
<1>0. /\ Len(body) \in Nat /\ Len(Boundary) \in Nat /\ Len(Boundary) > 0 /\ pos \in Nat
      /\ got \in Nat /\ pos <= got /\ got <= Len(body)
  BY BodyType
<1>a. data \in Seq(Byte) /\ begin \in 0..pos /\ mark \in 1..pos + 1
  BY <1>0 DEF TypeOK, PlaceType, TextType
<1>b. index \in 0..Len(Boundary) + 1 /\ (state = "part_data_boundary" => index < Len(Boundary))
  BY DEF TypeOK, ParserType
<1>c. Piece(mark, pos) \in Seq(Byte)
      /\ (pos < got => /\ Piece(mark, pos + 1) \in Seq(Byte)
                       /\ Piece(mark, pos + 1) = Piece(mark, pos) \o <<c>>)
  BY <1>0, <1>a, PieceType
<1>d. Piece(pos + 1, pos) = <<>>  BY NothingYet
<1> USE DEF reads, header, part, InData, At
<1> DEFINE Whole == Piece(begin + 1, pos)
           WholeNext == Piece(begin + 1, pos + 1)
\* The steps that leave the data's states alone.
<1>e. ASSUME ~(InData \/ state = "part_data_almost_end")'  PROVE DataExact'
  BY <1>e DEF DataExact
<1>1. CASE Read
  <2>1. CASE state = "part_data"
    <3>1. Unreported = <<>>  BY <1>0, <1>1, <2>1 DEF Read, Unreported
    <3>2. data = Whole  BY <1>a, <2>1, <3>1, ConcatEmptySeq DEF DataExact
    <3>3. data' = data /\ begin' = begin /\ pos' = pos /\ body' = body /\ mark' = pos + 1
          /\ state' = "part_data"
      BY <1>1, <2>1 DEF Read
    <3>4. Unreported' = <<>>  BY <1>d, <3>3 DEF Unreported, Piece
    <3>5. (data \o Unreported)' = data  BY <1>a, <3>3, <3>4, ConcatEmptySeq
    <3>6. Piece(begin + 1, pos)' = Whole  BY <3>3 DEF Piece
    <3> QED  BY <3>2, <3>5, <3>6 DEF DataExact
  <2>2. CASE state # "part_data"
    <3>1. UNCHANGED <<data, begin, pos, body, state, lookbehind, index>>  BY <1>1 DEF Read
    <3>2. Unreported' = Unreported  BY <2>2, <3>1 DEF Unreported, Held
    <3>3. Piece(begin + 1, pos)' = Whole  BY <3>1 DEF Piece
    <3> QED  BY <3>1, <3>2, <3>3 DEF DataExact
  <2> QED  BY <2>1, <2>2
<1>2. CASE Reject  BY <1>2, <1>e DEF Reject
<1>3. CASE StartBoundary  BY <1>3, <1>e DEF StartBoundary
<1>4. CASE HeadersEnd  BY <1>4, <1>e DEF HeadersEnd
<1>5. CASE FieldByte  BY <1>5, <1>e DEF FieldByte
<1>6. CASE FieldEnd  BY <1>6, <1>e DEF FieldEnd
<1>7. CASE HeadersDone  BY <1>7, <1>e DEF HeadersDone
<1>8. CASE HeaderValueStart  BY <1>8, <1>e DEF HeaderValueStart
<1>9. CASE HeaderValue  BY <1>9, <1>e DEF HeaderValue
<1>10. CASE HeaderLineEnd  BY <1>10, <1>e DEF HeaderLineEnd
<1>11. CASE PartDataStart
  <2>1. data' = <<>> /\ begin' = pos /\ pos' = pos /\ body' = body /\ mark' = pos + 1
        /\ state' \in {"part_data", "stopped"}
    BY <1>11 DEF PartDataStart, GoesOn
  <2>2. CASE state' = "part_data"
    <3>1. Unreported' = <<>>  BY <1>d, <2>1, <2>2 DEF Unreported, Piece
    <3>2. Piece(begin + 1, pos)' = <<>>  BY <1>d, <2>1 DEF Piece
    <3>3. (data \o Unreported)' = <<>>  BY <2>1, <3>1, ConcatEmptySeq
    <3> QED  BY <3>2, <3>3 DEF DataExact
  <2> QED  BY <1>e, <2>1, <2>2
<1>12. CASE PartData
  <2>1. pos < got /\ Unreported = Piece(mark, pos) /\ data \o Piece(mark, pos) = Whole
        /\ UNCHANGED <<body, got, mark, begin>> /\ pos' = pos + 1 /\ state = "part_data"
    BY <1>12 DEF PartData, Eat, DataExact, Unreported
  <2>2. data \o Piece(mark, pos + 1) = WholeNext  BY <1>a, <1>c, <2>1, OneMore
  <2>3. Piece(begin + 1, pos)' = WholeNext  BY <2>1 DEF Piece
  <2>4. CASE IsLast
    <3>1. data' = data \o Piece(mark, pos + 1) /\ state' \in {"part_data", "stopped"}
          /\ pos' = got'
      BY <1>12, <2>1, <2>4 DEF PartData, Reports, GoesOn, IsLast
    <3>2. CASE state' = "part_data"
      <4>1. Unreported' = <<>>  BY <1>0, <2>1, <3>1, <3>2 DEF Unreported
      <4>2. data' \in Seq(Byte)  BY <1>a, <1>c, <2>1, <3>1, ConcatProperties
      <4>3. (data \o Unreported)' = data'  BY <4>1, <4>2, ConcatEmptySeq
      <4> QED  BY <2>2, <2>3, <3>1, <4>3 DEF DataExact
    <3> QED  BY <1>e, <3>1, <3>2
  <2>5. CASE ~IsLast
    <3>1. data' = data /\ state' = "part_data" /\ pos' < got'
      BY <1>0, <1>12, <2>1, <2>5 DEF PartData, IsLast
    <3>2. Unreported' = Piece(mark, pos + 1)  BY <2>1, <3>1 DEF Unreported, Piece
    <3> QED  BY <2>2, <2>3, <3>1, <3>2 DEF DataExact
  <2> QED  BY <2>4, <2>5
<1>13. CASE PartDataCR
  <2>1. pos < got /\ Unreported = Piece(mark, pos) /\ data \o Piece(mark, pos) = Whole
        /\ UNCHANGED <<body, begin>> /\ pos' = pos + 1 /\ state = "part_data" /\ c = CR
        /\ lookbehind' = [lookbehind EXCEPT ![0 + 1] = CR]
        /\ data' = data \o Piece(mark, pos)
        /\ state' \in {"part_data_almost_boundary", "stopped"}
    BY <1>13 DEF PartDataCR, Eat, DataExact, Unreported, Reports, GoesOn
  <2>2. CASE state' = "part_data_almost_boundary"
    <3>1. SubSeq(lookbehind', 1, 1) = Held(0) \o <<c>>
      <4>1. 0 \in 0..Len(Boundary) + 1 /\ CR \in Byte  BY <1>0, MultipartAssumption
      <4>2. SubSeq(lookbehind', 1, 0 + 1) = Held(0) \o <<CR>>
        BY <2>1, <4>1, HeldGrows DEF Held
      <4> QED  BY <2>1, <4>2
    <3>2. Held(0) = <<>>  BY <1>0, HeldType, EmptySeq
    <3>3. Unreported' = <<>> \o <<c>>  BY <2>2, <3>1, <3>2 DEF Unreported, Held
    <3> DEFINE d == data \o Piece(mark, pos)
    <3>4. d \in Seq(Byte)  BY <1>a, <1>c, ConcatProperties
    <3> HIDE DEF d
    <3>5. d \o (<<>> \o <<c>>) = WholeNext
      <4>1. d \o <<>> = Whole  BY <2>1, <3>4, ConcatEmptySeq DEF d
      <4>2. <<>> \in Seq(Byte)  BY EmptySeq
      <4> QED  BY <2>1, <3>4, <4>1, <4>2, OneMore
    <3>6. Piece(begin + 1, pos)' = WholeNext  BY <2>1 DEF Piece
    <3> QED  BY <2>1, <3>3, <3>5, <3>6 DEF DataExact, d
  <2> QED  BY <1>e, <2>1, <2>2
<1>14. CASE AlmostBoundary
  <2>1. pos < got /\ Unreported = Held(1) /\ data \o Held(1) = Whole
        /\ UNCHANGED <<body, begin, data>> /\ pos' = pos + 1 /\ c = LF
        /\ lookbehind' = [lookbehind EXCEPT ![1 + 1] = LF]
        /\ state' = "part_data_boundary" /\ index' = 0
    BY <1>14 DEF AlmostBoundary, Eat, DataExact, Unreported
  <2>2. Held(1 + 1)' = Held(1) \o <<c>>
    <3>1. 1 \in 0..Len(Boundary) + 1 /\ LF \in Byte  BY <1>0, MultipartAssumption
    <3> QED  BY <2>1, <3>1, HeldGrows
  <2>3. Unreported' = Held(1) \o <<c>>  BY <2>1, <2>2 DEF Unreported, Held
  <2>4. Held(1) \in Seq(Byte)  BY <1>0, HeldType
  <2>5. data \o (Held(1) \o <<c>>) = WholeNext  BY <1>a, <2>1, <2>4, OneMore
  <2>6. Piece(begin + 1, pos)' = WholeNext  BY <2>1 DEF Piece
  <2> QED  BY <2>1, <2>3, <2>5, <2>6 DEF DataExact
<1>f. ASSUME NEW n \in 0..Len(Boundary) + 2, NotBoundary(n), pos < got,
             data \o Held(n) = Whole
      PROVE  DataExact'
  <2>1. data' = data \o Held(n) /\ UNCHANGED <<body, begin, pos, got>> /\ mark' = pos + 1
        /\ state' \in {"part_data", "stopped"}
    BY <1>f DEF NotBoundary, Reports, GoesOn
  <2>2. CASE state' = "part_data"
    <3>1. Unreported' = <<>>  BY <1>d, <1>f, <2>1, <2>2 DEF Unreported, Piece
    <3>2. data' \in Seq(Byte)  BY <1>a, <2>1, HeldType, ConcatProperties
    <3>3. (data \o Unreported)' = data'  BY <3>1, <3>2, ConcatEmptySeq
    <3>4. Piece(begin + 1, pos)' = Whole  BY <2>1 DEF Piece
    <3> QED  BY <1>f, <2>1, <3>3, <3>4 DEF DataExact
  <2> QED  BY <1>e, <2>1, <2>2
<1>15. CASE NoLF
  <2>1. NotBoundary(1) /\ pos < got /\ data \o Held(1) = Whole
    BY <1>15 DEF NoLF, DataExact, Unreported
  <2>2. 1 \in 0..Len(Boundary) + 2  BY <1>0
  <2> QED  BY <1>f, <2>1, <2>2
<1>16. CASE NoBoundary
  <2>1. NotBoundary(2 + index) /\ pos < got /\ data \o Held(2 + index) = Whole
    BY <1>16 DEF NoBoundary, DataExact, Unreported
  <2>2. 2 + index \in 0..Len(Boundary) + 2  BY <1>0, <1>b, <1>16 DEF NoBoundary
  <2> QED  BY <1>f, <2>1, <2>2
<1>17. CASE PartBoundary
  <2> DEFINE n == 2 + index
  <2>1. pos < got /\ data \o Held(n) = Whole
        /\ UNCHANGED <<body, begin, data>> /\ pos' = pos + 1
        /\ lookbehind' = [lookbehind EXCEPT ![n + 1] = c]
        /\ index' = index + 1
        /\ IF index + 1 = Len(Boundary) THEN state' \in {"part_data_almost_end", "stopped"}
                                        ELSE state' = "part_data_boundary"
    BY <1>17 DEF PartBoundary, Eat, DataExact, Unreported, GoesOn
  <2>2. n \in 0..Len(Boundary) + 1 /\ n \in 0..Len(Boundary) + 2
    BY <1>0, <1>b, <1>17 DEF PartBoundary
  <2>3. SubSeq(lookbehind', 1, n + 1) = Held(n) \o <<c>>
    BY <2>1, <2>2, BodyType, HeldGrows DEF Held
  <2>4. Held(n) \in Seq(Byte)  BY <2>2, HeldType
  <2>5. data \o (Held(n) \o <<c>>) = WholeNext  BY <1>a, <2>1, <2>4, OneMore
  <2>6. Piece(begin + 1, pos)' = WholeNext  BY <2>1 DEF Piece
  <2>7. CASE state' = "part_data_boundary"
    <3>1. 2 + index' = n + 1  BY <1>b, <2>1
    <3>2. Unreported' = Held(n) \o <<c>>  BY <2>3, <2>7, <3>1 DEF Unreported, Held
    <3> QED  BY <2>1, <2>5, <2>6, <3>2 DEF DataExact
  <2>8. CASE state' = "part_data_almost_end"
    <3>1. 2 + Len(Boundary) = n + 1  BY <1>0, <1>b, <2>1, <2>8
    <3>2. Unreported' = Held(n) \o <<c>>  BY <2>3, <2>8, <3>1 DEF Unreported, Held
    <3> QED  BY <2>1, <2>5, <2>6, <3>2 DEF DataExact
  <2> QED  BY <1>e, <2>1, <2>7, <2>8
<1>18. CASE AlmostEnd  BY <1>18, <1>e DEF AlmostEnd
<1>19. CASE FinalHyphen  BY <1>19, <1>e DEF FinalHyphen
<1>20. CASE PartDataEnd  BY <1>20, <1>e DEF PartDataEnd
<1>21. CASE Epilogue  BY <1>21, <1>e DEF Epilogue
<1>22. CASE UNCHANGED vars  BY <1>22 DEF vars, DataExact, Unreported, Piece, Held
<1> QED
  BY <1>1, <1>2, <1>3, <1>4, <1>5, <1>6, <1>7, <1>8, <1>9, <1>10, <1>11, <1>12, <1>13,
     <1>14, <1>15, <1>16, <1>17, <1>18, <1>19, <1>20, <1>21, <1>22 DEF Next

\* For every boundary, body and split into reads, what is reported of a
\* part's data are the bytes parsed so far, less those still held back.
THEOREM DataIsExact == Spec => []DataExact
<1>1. TypeOK /\ [Next]_vars => TypeOK'  BY PlaceStep, ParserStep, TextStep DEF TypeOK
<1>2. Init => DataExact  BY DEF Init, DataExact, InData
<1> QED  BY InitType, <1>1, <1>2, DataStep, PTL DEF Spec

---------------------------------------------------------------------------
(* Where a part's data ends.                                               *)

\* A delimiter starts with its only CR: this is why the parser, once a byte
\* does not fit, need not look for another start in the bytes held back.
LEMMA DelimiterBytes ==
  /\ Delimiter \in Seq(Byte) /\ Len(Delimiter) = Len(Boundary) + 2
  /\ Len(Boundary) \in Nat \ {0} /\ Delimiter[1] = CR /\ Delimiter[2] = LF
  /\ \A k \in 1..Len(Boundary) : Delimiter[k + 2] = Boundary[k]
  /\ \A k \in 2..Len(Boundary) + 2 : Delimiter[k] # CR
<1> DEFINE two == <<CR, LF>>
<1>1. Boundary \in Seq(Byte) /\ Len(Boundary) \in Nat \ {0} /\ CR \in Byte /\ LF \in Byte
      /\ CR # LF /\ \A k \in 1..Len(Boundary) : Boundary[k] # CR
  <2>1. Boundary \in Seq(Byte \ {CR}) /\ Boundary # <<>>  BY MultipartAssumption
  <2>2. Len(Boundary) \in Nat \ {0}  BY <2>1, EmptySeq
  <2>3. \A k \in 1..Len(Boundary) : Boundary[k] \in Byte \ {CR}  BY <2>1, ElementOfSeq
  <2> QED  BY <2>1, <2>2, <2>3, MultipartAssumption
<1>2. two \in Seq(Byte) /\ Len(two) = 2 /\ two[1] = CR /\ two[2] = LF  BY <1>1
<1> HIDE DEF two
<1> DEFINE both == two \o Boundary
<1>3. /\ both \in Seq(Byte) /\ Len(both) = Len(two) + Len(Boundary)
      /\ \A i \in 1..Len(two) + Len(Boundary) :
           both[i] = IF i <= Len(two) THEN two[i] ELSE Boundary[i - Len(two)]
  BY <1>1, <1>2, ConcatProperties
<1>4. Delimiter = both  BY DEF Delimiter, two
<1> HIDE DEF both
<1>5. Delimiter \in Seq(Byte) /\ Len(Delimiter) = Len(Boundary) + 2
      /\ \A i \in 1..2 + Len(Boundary) :
           Delimiter[i] = IF i <= 2 THEN two[i] ELSE Boundary[i - 2]
  BY <1>1, <1>2, <1>3, <1>4
<1>6. Delimiter[1] = CR /\ Delimiter[2] = LF  BY <1>1, <1>2, <1>5
<1>7. \A k \in 1..Len(Boundary) : Delimiter[k + 2] = Boundary[k]
  <2> TAKE k \in 1..Len(Boundary)
  <2>1. k + 2 \in 1..2 + Len(Boundary) /\ ~(k + 2 <= 2) /\ (k + 2) - 2 = k  BY <1>1
  <2> QED  BY <1>5, <2>1
<1>8. \A k \in 2..Len(Boundary) + 2 : Delimiter[k] # CR
  <2> TAKE k \in 2..Len(Boundary) + 2
  <2>1. CASE k = 2  BY <1>1, <1>6, <2>1
  <2>2. CASE k > 2
    <3>1. k - 2 \in 1..Len(Boundary) /\ (k - 2) + 2 = k  BY <1>1, <2>2
    <3> QED  BY <1>1, <1>7, <3>1
  <2> QED  BY <1>1, <2>1, <2>2
<1> QED  BY <1>1, <1>5, <1>6, <1>7, <1>8

\* Up to n, a byte was met that does not fit a delimiter that starts at q.
Fails(q, n) ==
  \E j \in q + 1..n : j - q + 1 <= Len(Boundary) + 2 /\ body[j] # Delimiter[j - q + 1]

\* Every delimiter that could start in the data up to m has failed.
NoneOpen(m, n) == \A q \in begin + 1..m : body[q] = CR => Fails(q, n)

\* Where the delimiter the parser is in the middle of starts.
Opens == pos - 1 - index

\* There is at most one delimiter open, and the parser is in it.
OneOpen ==
  /\ state = "part_data" => NoneOpen(pos, pos + 1)
  /\ state = "part_data_almost_boundary" =>
       pos > begin /\ body[pos] = CR /\ NoneOpen(pos - 1, pos)
  /\ state \in {"part_data_boundary", "part_data_almost_end"} =>
       /\ Opens > begin /\ NoneOpen(Opens - 1, Opens)
       /\ \A k \in 1..index + 2 : body[Opens + k - 1] = Delimiter[k]
  /\ state = "part_data_almost_end" => index = Len(Boundary)

\* What has failed stays failed.
LEMMA FailsOn ==
  ASSUME NEW m \in Int, NEW n \in Int, NEW l \in Int, n <= l, begin \in Nat, NoneOpen(m, n)
  PROVE  NoneOpen(m, l)
BY DEF NoneOpen, Fails

\* Each byte either fits the open delimiter, or closes it, and opens one only
\* if it is a CR.
LEMMA OpenStep == TypeOK /\ OneOpen /\ [Next]_vars => OneOpen'
<1> SUFFICES ASSUME TypeOK, OneOpen, [Next]_vars PROVE OneOpen'
  OBVIOUS
<1>0. /\ Len(body) \in Nat /\ Len(Boundary) \in Nat /\ Len(Boundary) > 0 /\ pos \in Nat
      /\ got \in Nat /\ pos <= got /\ got <= Len(body) /\ begin \in 0..pos
  BY BodyType DEF TypeOK, PlaceType
<1>b. index \in 0..Len(Boundary) + 1 /\ (state = "part_data_boundary" => index < Len(Boundary))
  BY DEF TypeOK, ParserType
<1> USE DEF reads, header, part, At
<1>e. ASSUME state' \notin {"part_data", "part_data_almost_boundary", "part_data_boundary",
                            "part_data_almost_end"}
      PROVE  OneOpen'
  BY <1>e DEF OneOpen
<1>1. CASE Read  BY <1>1 DEF Read, OneOpen, NoneOpen, Fails, Opens
<1>2. CASE Reject  BY <1>2, <1>e DEF Reject
<1>3. CASE StartBoundary  BY <1>3, <1>e DEF StartBoundary
<1>4. CASE HeadersEnd  BY <1>4, <1>e DEF HeadersEnd
<1>5. CASE FieldByte  BY <1>5, <1>e DEF FieldByte
<1>6. CASE FieldEnd  BY <1>6, <1>e DEF FieldEnd
<1>7. CASE HeadersDone  BY <1>7, <1>e DEF HeadersDone
<1>8. CASE HeaderValueStart  BY <1>8, <1>e DEF HeaderValueStart
<1>9. CASE HeaderValue  BY <1>9, <1>e DEF HeaderValue
<1>10. CASE HeaderLineEnd  BY <1>10, <1>e DEF HeaderLineEnd
<1>11. CASE PartDataStart
  <2>1. begin' = pos /\ pos' = pos /\ body' = body /\ state' \in {"part_data", "stopped"}
    BY <1>11 DEF PartDataStart, GoesOn
  <2>2. NoneOpen(pos, pos + 1)'  BY <1>0, <2>1 DEF NoneOpen
  <2> QED  BY <2>1, <2>2 DEF OneOpen
<1>12. CASE PartData
  <2>1. body' = body /\ begin' = begin /\ pos' = pos + 1 /\ c # CR /\ NoneOpen(pos, pos + 1)
        /\ state' \in {"part_data", "stopped"}
    BY <1>12 DEF PartData, Eat, GoesOn, OneOpen
  <2>2. NoneOpen(pos, pos + 2)  BY <1>0, <2>1, FailsOn
  <2>3. NoneOpen(pos + 1, pos + 2)  BY <1>0, <2>1, <2>2 DEF NoneOpen, c
  <2>4. NoneOpen(pos, pos + 1)'  BY <1>0, <2>1, <2>3 DEF NoneOpen, Fails
  <2> QED  BY <2>1, <2>4 DEF OneOpen
<1>13. CASE PartDataCR
  <2>1. body' = body /\ begin' = begin /\ pos' = pos + 1 /\ body[pos + 1] = CR
        /\ NoneOpen(pos, pos + 1) /\ state' \in {"part_data_almost_boundary", "stopped"}
    BY <1>13 DEF PartDataCR, Eat, GoesOn, OneOpen, c
  <2>2. pos' - 1 = pos /\ pos' > begin'  BY <1>0, <2>1
  <2>3. NoneOpen(pos - 1, pos)'  BY <2>1, <2>2 DEF NoneOpen, Fails
  <2>4. body'[pos'] = CR  BY <2>1
  <2> QED  BY <2>1, <2>2, <2>3, <2>4 DEF OneOpen
<1>14. CASE AlmostBoundary
  <2>1. body' = body /\ begin' = begin /\ pos' = pos + 1 /\ body[pos + 1] = LF
        /\ pos > begin /\ body[pos] = CR /\ NoneOpen(pos - 1, pos)
        /\ state' = "part_data_boundary" /\ index' = 0
    BY <1>14 DEF AlmostBoundary, Eat, OneOpen, c
  <2>2. Opens' = pos  BY <1>0, <2>1 DEF Opens
  <2>3. NoneOpen(Opens - 1, Opens)'  BY <2>1, <2>2 DEF NoneOpen, Fails
  <2>4. \A k \in 1..2 : body[pos + k - 1] = Delimiter[k]
    <3>1. body[pos + 1 - 1] = Delimiter[1] /\ body[pos + 2 - 1] = Delimiter[2]
      BY <1>0, <2>1, DelimiterBytes
    <3>2. \A k \in 1..2 : k = 1 \/ k = 2  OBVIOUS
    <3> QED  BY <3>1, <3>2
  <2>5. (\A k \in 1..index + 2 : body[Opens + k - 1] = Delimiter[k])'
    BY <2>1, <2>2, <2>4 DEF Delimiter
  <2> QED  BY <2>1, <2>2, <2>3, <2>5 DEF OneOpen
<1>f. ASSUME NEW n, NotBoundary(n), NoneOpen(pos, pos + 1)  PROVE OneOpen'
  <2>1. UNCHANGED <<body, begin, pos>> /\ state' \in {"part_data", "stopped"}
    BY <1>f DEF NotBoundary, GoesOn
  <2>2. NoneOpen(pos, pos + 1)'  BY <1>f, <2>1 DEF NoneOpen, Fails
  <2> QED  BY <2>1, <2>2 DEF OneOpen
<1>15. CASE NoLF
  <2>1. NotBoundary(1) /\ body[pos + 1] # LF /\ pos > begin /\ NoneOpen(pos - 1, pos)
    BY <1>15 DEF NoLF, OneOpen, c
  <2>2. NoneOpen(pos - 1, pos + 1)  BY <1>0, <2>1, FailsOn
  <2>3. Fails(pos, pos + 1)
    <3>1. pos + 1 \in pos + 1..pos + 1 /\ (pos + 1) - pos + 1 = 2 /\ 2 <= Len(Boundary) + 2
      BY <1>0
    <3> QED  BY <2>1, <3>1, DelimiterBytes DEF Fails
  <2>4. NoneOpen(pos, pos + 1)  BY <1>0, <2>2, <2>3 DEF NoneOpen
  <2> QED  BY <1>f, <2>1, <2>4
<1>16. CASE NoBoundary
  <2>1. NotBoundary(2 + index) /\ body[pos + 1] # Boundary[index + 1] /\ Opens > begin
        /\ NoneOpen(Opens - 1, Opens) /\ index \in 0..Len(Boundary) - 1
        /\ \A k \in 1..index + 2 : body[Opens + k - 1] = Delimiter[k]
    BY <1>0, <1>b, <1>16 DEF NoBoundary, OneOpen, c
  <2>2. Opens \in Int /\ Opens + index + 1 = pos /\ Opens <= pos + 1
    BY <1>0, <2>1 DEF Opens
  <2>3. NoneOpen(Opens - 1, pos + 1)  BY <1>0, <2>1, <2>2, FailsOn
  <2>4. Fails(Opens, pos + 1)
    <3>1. pos + 1 \in Opens + 1..pos + 1 /\ (pos + 1) - Opens + 1 = (index + 1) + 2
          /\ (index + 1) + 2 <= Len(Boundary) + 2 /\ index + 1 \in 1..Len(Boundary)
      BY <1>0, <2>1, <2>2
    <3>2. Delimiter[(index + 1) + 2] = Boundary[index + 1]  BY <3>1, DelimiterBytes
    <3> QED  BY <2>1, <3>1, <3>2 DEF Fails
  <2>5. ASSUME NEW q \in Opens + 1..pos  PROVE body[q] # CR
    <3>1. q - Opens + 1 \in 1..index + 2 /\ q - Opens + 1 \in 2..Len(Boundary) + 2
          /\ Opens + (q - Opens + 1) - 1 = q
      BY <1>0, <2>1, <2>2
    <3>2. body[q] = Delimiter[q - Opens + 1]  BY <2>1, <3>1
    <3> QED  BY <3>1, <3>2, DelimiterBytes
  <2>6. NoneOpen(pos, pos + 1)
    <3> SUFFICES ASSUME NEW q \in begin + 1..pos, body[q] = CR PROVE Fails(q, pos + 1)
      BY DEF NoneOpen
    <3>1. q \in begin + 1..Opens - 1 \/ q = Opens \/ q \in Opens + 1..pos
      BY <1>0, <2>2
    <3> QED  BY <2>3, <2>4, <2>5, <3>1 DEF NoneOpen
  <2> QED  BY <1>f, <2>1, <2>6
<1>17. CASE PartBoundary
  <2>1. body' = body /\ begin' = begin /\ pos' = pos + 1 /\ index' = index + 1
        /\ body[pos + 1] = Boundary[index + 1] /\ Opens > begin
        /\ NoneOpen(Opens - 1, Opens) /\ index \in 0..Len(Boundary) - 1
        /\ \A k \in 1..index + 2 : body[Opens + k - 1] = Delimiter[k]
        /\ IF index + 1 = Len(Boundary) THEN state' \in {"part_data_almost_end", "stopped"}
                                        ELSE state' = "part_data_boundary"
    BY <1>0, <1>b, <1>17 DEF PartBoundary, Eat, GoesOn, OneOpen, c
  <2>2. Opens' = Opens /\ Opens \in Int /\ Opens + index + 1 = pos
    <3>1. pos' - 1 - index' = pos - 1 - index /\ pos - 1 - index \in Int
      BY <1>0, <1>b, <2>1
    <3>2. (pos - 1 - index) + index + 1 = pos  BY <1>0, <1>b
    <3> QED  BY <3>1, <3>2 DEF Opens
  <2>3. NoneOpen(Opens - 1, Opens)'  BY <2>1, <2>2 DEF NoneOpen, Fails
  <2>4. ASSUME NEW k \in 1..(index + 1) + 2  PROVE body[Opens + k - 1] = Delimiter[k]
    <3>1. CASE k \in 1..index + 2  BY <2>1, <3>1
    <3>2. CASE k = (index + 1) + 2
      <4>1. Opens + k - 1 = pos + 1 /\ index + 1 \in 1..Len(Boundary)
        BY <1>0, <2>1, <2>2, <3>2
      <4> QED  BY <2>1, <3>2, <4>1, DelimiterBytes
    <3> QED  BY <2>1, <3>1, <3>2
  <2>5. (\A k \in 1..index + 2 : body[Opens + k - 1] = Delimiter[k])'
    BY <2>1, <2>2, <2>4 DEF Delimiter
  <2> QED  BY <1>0, <2>1, <2>2, <2>3, <2>5 DEF OneOpen
<1>18. CASE AlmostEnd  BY <1>18, <1>e DEF AlmostEnd
<1>19. CASE FinalHyphen  BY <1>19, <1>e DEF FinalHyphen
<1>20. CASE PartDataEnd  BY <1>20, <1>e DEF PartDataEnd
<1>21. CASE Epilogue  BY <1>21, <1>e DEF Epilogue
<1>22. CASE UNCHANGED vars  BY <1>22 DEF vars, OneOpen, NoneOpen, Fails, Opens
<1> QED
  BY <1>1, <1>2, <1>3, <1>4, <1>5, <1>6, <1>7, <1>8, <1>9, <1>10, <1>11, <1>12, <1>13,
     <1>14, <1>15, <1>16, <1>17, <1>18, <1>19, <1>20, <1>21, <1>22 DEF Next

\* A delimiter that ends in what is parsed has started in the data, with all
\* its bytes.
LEMMA EndsAtBytes ==
  ASSUME TypeOK, NEW k \in begin..pos
  PROVE  DelimiterEndsAt(k) <=>
           /\ k - begin >= Len(Boundary) + 2
           /\ \A i \in 1..Len(Boundary) + 2 :
                body[(k - (Len(Boundary) + 2) + 1) + i - 1] = Delimiter[i]
<1> DEFINE L == Len(Boundary) + 2
           q == k - L + 1
<1>1. /\ Len(body) \in Nat /\ pos \in Nat /\ pos <= Len(body) /\ begin \in 0..pos
      /\ Len(Boundary) \in Nat /\ Len(Delimiter) = L /\ Delimiter \in Seq(Byte)
      /\ body \in Seq(Byte)
  BY BodyType, DelimiterBytes DEF TypeOK, PlaceType
<1>2. CASE k - begin >= L
  <2>1. q \in Nat \ {0} /\ k \in Nat /\ k <= Len(body) /\ q <= k + 1 /\ k - q + 1 = L
    BY <1>1, <1>2
  <2> HIDE DEF q, L
  <2>2. /\ Piece(q, k) \in Seq(Byte) /\ Len(Piece(q, k)) = L
        /\ \A i \in 1..L : Piece(q, k)[i] = body[q + i - 1]
    BY <1>1, <2>1, PieceProperties DEF Piece
  <2>3. Piece(q, k) = Delimiter <=> \A i \in 1..L : body[q + i - 1] = Delimiter[i]
    BY <1>1, <2>2, SeqEqual
  <2>4. DelimiterEndsAt(k) <=> Piece(q, k) = Delimiter
    BY <1>1, <1>2 DEF DelimiterEndsAt, q
  <2> QED  BY <1>2, <2>3, <2>4 DEF q, L
<1>3. CASE ~(k - begin >= L)  BY <1>1, <1>3 DEF DelimiterEndsAt
<1> QED  BY <1>2, <1>3

\* A delimiter whose first byte has failed does not end.
LEMMA FailedNeverEnds ==
  ASSUME TypeOK, NEW k \in begin..pos, NEW m \in Int, NEW n \in Int, NoneOpen(m, n),
         k - (Len(Boundary) + 2) + 1 <= m
  PROVE  ~DelimiterEndsAt(k)
<1> DEFINE q == k - (Len(Boundary) + 2) + 1
<1>1. pos \in Nat /\ begin \in 0..pos /\ Len(Boundary) \in Nat /\ Len(Boundary) > 0
  BY BodyType DEF TypeOK, PlaceType
<1> SUFFICES ASSUME DelimiterEndsAt(k) PROVE FALSE
  OBVIOUS
<1>2. q \in begin + 1..m /\ \A i \in 1..Len(Boundary) + 2 : body[q + i - 1] = Delimiter[i]
  BY <1>1, EndsAtBytes
<1>3. q \in Int  BY <1>1
<1> HIDE DEF q
<1>4. body[q] = CR
  <2>1. body[q + 1 - 1] = Delimiter[1] /\ q + 1 - 1 = q  BY <1>1, <1>2, <1>3
  <2> QED  BY <2>1, DelimiterBytes
<1>5. PICK j \in q + 1..n : j - q + 1 <= Len(Boundary) + 2 /\ body[j] # Delimiter[j - q + 1]
  BY <1>2, <1>4 DEF NoneOpen, Fails
<1>6. j - q + 1 \in 1..Len(Boundary) + 2 /\ q + (j - q + 1) - 1 = j  BY <1>1, <1>3, <1>5
<1> QED  BY <1>2, <1>5, <1>6

\* With at most one delimiter open, none has ended before.
LEMMA OneOpenIsFirst == TypeOK /\ OneOpen => FirstDelimiter
<1> SUFFICES ASSUME TypeOK, OneOpen PROVE FirstDelimiter
  OBVIOUS
<1>0. pos \in Nat /\ begin \in 0..pos /\ Len(Boundary) \in Nat /\ Len(Boundary) > 0
      /\ index \in 0..Len(Boundary) + 1
      /\ (state = "part_data_boundary" => index < Len(Boundary))
  BY BodyType DEF TypeOK, PlaceType, ParserType
<1>1. ASSUME state = "part_data", NEW k \in begin..pos PROVE ~DelimiterEndsAt(k)
  BY <1>0, <1>1, FailedNeverEnds DEF OneOpen
<1>2. ASSUME state = "part_data_almost_boundary", NEW k \in begin..pos
      PROVE  ~DelimiterEndsAt(k)
  BY <1>0, <1>2, FailedNeverEnds DEF OneOpen
<1>3. ASSUME state = "part_data_boundary", NEW k \in begin..pos PROVE ~DelimiterEndsAt(k)
  BY <1>0, <1>3, FailedNeverEnds DEF OneOpen, Opens
<1>4. ASSUME state = "part_data_almost_end", NEW k \in begin..pos - 1
      PROVE  ~DelimiterEndsAt(k)
  BY <1>0, <1>4, FailedNeverEnds DEF OneOpen, Opens
<1>5. ASSUME state = "part_data_almost_end" PROVE DelimiterEndsAt(pos)
  <2>1. index = Len(Boundary) /\ Opens > begin
        /\ \A k \in 1..index + 2 : body[Opens + k - 1] = Delimiter[k]
    BY <1>5 DEF OneOpen
  <2>2. Opens = pos - (Len(Boundary) + 2) + 1  BY <1>0, <2>1 DEF Opens
  <2>3. pos - begin >= Len(Boundary) + 2 /\ pos \in begin..pos  BY <1>0, <2>1, <2>2
  <2> QED  BY <2>1, <2>2, <2>3, EndsAtBytes
<1> QED  BY <1>1, <1>2, <1>3, <1>4, <1>5 DEF FirstDelimiter, InData

\* For every boundary, body and split into reads, a part's data ends at the
\* first delimiter in it.
THEOREM EndsAtFirst == Spec => []FirstDelimiter
<1>1. TypeOK /\ [Next]_vars => TypeOK'  BY PlaceStep, ParserStep, TextStep DEF TypeOK
<1>2. Init => OneOpen  BY DEF Init, OneOpen
<1> QED  BY InitType, <1>1, <1>2, OpenStep, OneOpenIsFirst, PTL DEF Spec

---------------------------------------------------------------------------
(* What is reported of a header line.                                      *)

InHeader == {"header_field", "header_value_start", "header_value", "header_value_almost_done"}

\* How far the line is reported: at the end of a read up to the parser's place.
Upto == IF pos = got THEN pos ELSE mark - 1

\* In a name: a read's end in it is what splits it, and what loses a hyphen.
NameSoFar ==
  state = "header_field" =>
    /\ line < pos /\ line + 1 <= mark /\ values = <<>>
    /\ \A k \in line + 1 .. pos : body[k] # Colon
    /\ ~EndsIn(line + 1, pos) => fields = <<>> /\ mark = line + 1
    /\ (\A k \in line + 1 .. Upto : EndsIn(k, k) => body[k] # Hyphen) =>
         FlattenSeq(fields) = Piece(line + 1, Upto)

NameWhole ==
  state \in InHeader \ {"header_field"} =>
    /\ ColonAt \in line + 1 .. pos
    /\ ~EndsIn(line + 1, ColonAt - 1) => fields = <<Name>>
    /\ (\A k \in line + 1 .. ColonAt - 1 : EndsIn(k, k) => body[k] # Hyphen) =>
         FlattenSeq(fields) = Name

ValueSoFar ==
  /\ state = "header_value_start" =>
       values = <<>> /\ \A k \in ColonAt + 1 .. pos : body[k] = Blank
  /\ state = "header_value" =>
       /\ ValueAt \in ColonAt + 1 .. pos /\ ValueAt <= mark
       /\ ~EndsIn(ValueAt, pos) => values = <<>> /\ mark = ValueAt
       /\ FlattenSeq(values) = Piece(ValueAt, Upto)
  /\ state = "header_value_almost_done" =>
       /\ ValueAt \in ColonAt + 1 .. pos
       /\ ~EndsIn(ValueAt, pos) => values = <<Value>>
       /\ ~EndsIn(pos, pos) => FlattenSeq(values) = Value

HeaderInv == NameSoFar /\ NameWhole /\ ValueSoFar

\* The first byte of a set from a place on is where it is found.
LEMMA FirstIs ==
  ASSUME TypeOK, NEW k \in Nat, NEW S, NEW n \in k .. Len(body),
         body[n] \in S, \A m \in k .. n - 1 : body[m] \notin S
  PROVE  FirstFrom(k, S) = n
<1> DEFINE x == FirstFrom(k, S)
<1>1. /\ x \in k .. Len(body)
      /\ body[x] \in S /\ \A m \in k .. x - 1 : body[m] \notin S
  BY DEF FirstFrom
<1> HIDE DEF x
<1>2. Len(body) \in Nat  BY BodyType
<1>3. ~ (x < n)  BY <1>1, <1>2
<1>4. ~ (n < x)  BY <1>1, <1>2
<1> QED  BY <1>1, <1>2, <1>3, <1>4 DEF x

\* Reported pieces that meet make up the whole between them.
LEMMA PiecesMeet ==
  ASSUME TypeOK, NEW l \in Nat \ {0}, NEW m \in Nat, NEW n \in Nat,
         l <= m, m <= n + 1, n <= got
  PROVE  /\ Piece(l, m - 1) \o Piece(m, n) = Piece(l, n)
         /\ Piece(m, n) \in Seq(Byte) /\ Piece(m, m - 1) = <<>>
<1>1. body \in Seq(Byte) /\ Len(body) \in Nat /\ got \in Nat /\ got <= Len(body)  BY BodyType
<1>2. Piece(m, n) \in Seq(Byte)  BY <1>1, PieceProperties DEF Piece
<1>3. Piece(m, m - 1) = <<>>
  <2>1. PICK q \in Nat : q = m - 1  OBVIOUS
  <2>2. Len(Piece(m, q)) = 0 /\ Piece(m, q) \in Seq(Byte)  BY <1>1, <2>1, PieceProperties DEF Piece
  <2> QED  BY <2>1, <2>2, EmptySeq
<1>4. Piece(l, m - 1) \o Piece(m, n) = Piece(l, n)
  <2>1. PICK q \in Nat : q = m - 1 /\ q + 1 = m  OBVIOUS
  <2>2. q \in l - 1 .. n /\ l \in 1 .. Len(body) + 1 /\ n \in l - 1 .. Len(body)  BY <1>1, <2>1
  <2>3. SubSeq(body, l, q) \o SubSeq(body, q + 1, n) = SubSeq(body, l, n)
    BY <1>1, <2>2, ConcatAdjacentSubSeq
  <2> QED  BY <2>1, <2>3 DEF Piece
<1> QED  BY <1>2, <1>3, <1>4

\* One more piece of the header is put behind what was reported of it.
LEMMA OneMorePiece ==
  ASSUME TypeOK, NEW s \in Seq(Seq(Byte)), NEW l \in Nat \ {0}, NEW m \in Nat, NEW n \in Nat,
         l <= m, m <= n + 1, n <= got, FlattenSeq(s) = Piece(l, m - 1)
  PROVE  FlattenSeq(s \o <<Piece(m, n)>>) = Piece(l, n)
<1>1. Piece(m, n) \in Seq(Byte)  BY PiecesMeet
<1>2. FlattenSeq(s \o <<Piece(m, n)>>) = FlattenSeq(s) \o Piece(m, n)  BY <1>1, FlattenGrows
<1> QED  BY <1>2, PiecesMeet

\* Other steps say nothing of header lines.
LEMMA OutsideHeader == ASSUME state' \notin InHeader PROVE HeaderInv'
BY DEF HeaderInv, NameSoFar, NameWhole, ValueSoFar, InHeader

\* What lies behind the parser's place stays as it is.
LEMMA SameName ==
  ASSUME TypeOK, NameWhole, state \in InHeader \ {"header_field"},
         UNCHANGED <<body, line, fields>>, pos' \in Nat, pos <= pos',
         \/ UNCHANGED <<got, ends>>
         \/ got = pos /\ pos < got' /\ got' \in Nat /\ ends' = ends \cup {got}
  PROVE  NameWhole' /\ ColonAt' = ColonAt /\ ValueAt' = ValueAt
<1>1. ColonAt' = ColonAt  BY DEF ColonAt, FirstFrom
<1>2. ValueAt' = ValueAt  BY <1>1 DEF ValueAt, FirstFrom
<1>3. pos \in Nat /\ line \in Nat /\ got \in Nat /\ ColonAt \in line + 1 .. pos
  BY BodyType DEF NameWhole, TypeOK, PlaceType
<1>4. Name' = Name  BY <1>1 DEF Name, Piece
<1>5. EndsIn(line + 1, ColonAt - 1)' <=> EndsIn(line + 1, ColonAt - 1)
  BY <1>1, <1>3 DEF EndsIn
<1>6. ASSUME NEW k \in line + 1 .. ColonAt - 1 PROVE EndsIn(k, k)' <=> EndsIn(k, k)
  BY <1>3 DEF EndsIn
<1>7. ColonAt' \in line' + 1 .. pos'  BY <1>1, <1>3
<1> QED  BY <1>1, <1>2, <1>3, <1>4, <1>5, <1>6, <1>7 DEF NameWhole

\* A read that ends inside a header line is what ends in it from then on.
LEMMA HeaderRead == TypeOK /\ HeaderInv /\ Read => HeaderInv'
<1> SUFFICES ASSUME TypeOK, HeaderInv, Read PROVE HeaderInv'
  OBVIOUS
<1>1. /\ pos = got /\ ends' = ends \cup {got} /\ mark' = pos + 1
      /\ UNCHANGED <<body, pos, state, line, fields, values>>
      /\ pos \in Nat /\ got' \in Nat /\ pos < got' /\ line \in Nat /\ line <= pos
      /\ mark \in Nat /\ mark <= pos + 1
  BY BodyType DEF Read, header, TypeOK, PlaceType
<1>2. Upto = pos /\ Upto' = pos  BY <1>1 DEF Upto
<1>3. CASE state = "header_field"
  <2>1. NameSoFar  BY DEF HeaderInv
  <2>2. EndsIn(line + 1, pos)'
    <3>1. line < pos  BY <1>3, <2>1 DEF NameSoFar
    <3>2. line' + 1 <= pos /\ pos <= pos' /\ pos \in ends' \cup {got'}  BY <1>1, <3>1
    <3> QED  BY <3>2 DEF EndsIn
  <2>3. ASSUME NEW k \in line + 1 .. pos PROVE EndsIn(k, k)' <=> EndsIn(k, k)
    BY <1>1 DEF EndsIn
  <2>4. Piece(line + 1, Upto)' = Piece(line + 1, Upto)  BY <1>1, <1>2 DEF Piece
  <2>5. NameSoFar'  BY <1>1, <1>2, <1>3, <2>1, <2>2, <2>3, <2>4 DEF NameSoFar
  <2> QED  BY <1>1, <1>3, <2>5 DEF HeaderInv, NameWhole, ValueSoFar
<1>4. CASE state \in InHeader \ {"header_field"}
  <2>1. NameWhole' /\ ColonAt' = ColonAt /\ ValueAt' = ValueAt
    BY <1>1, <1>4, SameName DEF HeaderInv
  <2>2. NameSoFar'  BY <1>1, <1>4 DEF NameSoFar
  <2>3. ColonAt \in Nat /\ ValueSoFar  BY <1>1, <1>4 DEF HeaderInv, NameWhole
  <2>4. CASE state = "header_value_start"
    BY <1>1, <2>1, <2>2, <2>3, <2>4 DEF HeaderInv, ValueSoFar
  <2>5. CASE state = "header_value"
    <3>1. ValueAt \in ColonAt + 1 .. pos /\ FlattenSeq(values) = Piece(ValueAt, Upto)
      BY <2>3, <2>5 DEF ValueSoFar
    <3>2. EndsIn(ValueAt, pos)'  BY <1>1, <2>1, <2>3, <3>1 DEF EndsIn
    <3>3. Piece(ValueAt, Upto)' = Piece(ValueAt, Upto)  BY <1>1, <1>2, <2>1 DEF Piece
    <3>4. ValueSoFar'  BY <1>1, <2>1, <2>3, <2>5, <3>1, <3>2, <3>3 DEF ValueSoFar
    <3> QED  BY <2>1, <2>2, <3>4 DEF HeaderInv
  <2>6. CASE state = "header_value_almost_done"
    <3>1. ValueAt \in ColonAt + 1 .. pos  BY <2>3, <2>6 DEF ValueSoFar
    <3>2. EndsIn(ValueAt, pos)' /\ EndsIn(pos, pos)'  BY <1>1, <2>1, <2>3, <3>1 DEF EndsIn
    <3>3. ValueSoFar'  BY <1>1, <2>1, <2>6, <3>1, <3>2 DEF ValueSoFar
    <3> QED  BY <2>1, <2>2, <3>3 DEF HeaderInv
  <2> QED  BY <1>4, <2>4, <2>5, <2>6 DEF InHeader
<1> QED  BY <1>1, <1>3, <1>4, OutsideHeader DEF InHeader

\* A name's next byte: at the end of a read what is new of it is reported,
\* unless the byte is a hyphen.
LEMMA FieldByteHeader == TypeOK /\ HeaderInv /\ FieldByte => HeaderInv'
<1> SUFFICES ASSUME TypeOK, HeaderInv, FieldByte PROVE HeaderInv'
  OBVIOUS
<1> DEFINE p == Piece(FieldFrom, pos + 1)
           ps == IF IsLast /\ c # Hyphen THEN <<p>> ELSE <<>>
<1>1. /\ InField /\ pos < got /\ c = body[pos + 1] /\ c # Colon
      /\ state' = "header_field" /\ pos' = pos + 1
      /\ UNCHANGED <<body, got, ends>> /\ mark' = FieldFrom
      /\ pos \in Nat /\ got \in Nat /\ line \in Nat /\ line <= pos
      /\ mark \in Nat \ {0} /\ mark <= pos + 1 /\ fields \in Seq(Seq(Byte))
  BY MultipartAssumption, BodyType
  DEF FieldByte, FieldGets, InField, At, Eat, reads, TypeOK, PlaceType, TextType, c
<1>2. IF state = "header_field_start"
      THEN fields' = ps /\ line' = pos /\ values' = <<>>
      ELSE fields' = fields \o ps /\ UNCHANGED <<line, values>>
  BY DEF FieldByte, FieldGets
<1>3. NameWhole' /\ ValueSoFar'  BY <1>1 DEF NameWhole, ValueSoFar
<1>4. IsLast <=> pos + 1 = got  BY DEF IsLast
<1>5. Upto' = IF IsLast THEN pos + 1 ELSE FieldFrom - 1  BY <1>1, <1>4 DEF Upto
<1>6. FieldFrom \in Nat \ {0} /\ FieldFrom <= pos + 1  BY <1>1 DEF FieldFrom
<1>7. p \in Seq(Byte)
  <2>1. PICK n \in Nat : n = pos + 1 /\ n <= got /\ FieldFrom <= n + 1  BY <1>1, <1>6
  <2>2. Piece(FieldFrom, n) \in Seq(Byte)  BY <1>6, <2>1, PiecesMeet
  <2> QED  BY <2>1, <2>2
<1>8. ends \subseteq Nat  BY <1>1 DEF TypeOK, PlaceType
\* What was reported before, and where the line starts now.
<1> DEFINE old == IF state = "header_field_start" THEN <<>> ELSE fields
           l == line' + 1
<1>9. /\ old \in Seq(Seq(Byte)) /\ fields' = old \o ps /\ values' = <<>>
      /\ l \in Nat \ {0} /\ l <= FieldFrom /\ line' <= pos /\ line' \in Nat
      /\ \A k \in l .. pos : body[k] # Colon
      /\ ~EndsIn(l, pos) => old = <<>> /\ FieldFrom = l
      /\ (\A k \in l .. FieldFrom - 1 : EndsIn(k, k) => body[k] # Hyphen) =>
           FlattenSeq(old) = Piece(l, FieldFrom - 1)
  <2>1. CASE state = "header_field_start"
    <3>1. old = <<>> /\ line' = pos /\ FieldFrom = pos + 1 /\ l = pos + 1  BY <1>2, <2>1 DEF FieldFrom
    <3>2. ps \in Seq(Seq(Byte))
      <4> HIDE DEF p
      <4> QED  BY <1>7
    <3>3. <<>> \o ps = ps  BY <3>2, ConcatEmptySeq
    <3>4. Piece(pos + 1, pos) = <<>>  BY NothingYet
    <3>5. FlattenSeq(<<>>) = <<>>
      <4>1. <<>> \in Seq(Seq(Byte)) /\ <<>> \in Seq(Byte)  OBVIOUS
      <4> QED  BY <4>1, FlattenGrows
    <3>6. fields' = old \o ps /\ values' = <<>>  BY <1>2, <2>1, <3>1, <3>3
    <3> HIDE DEF ps, l
    <3> QED  BY <1>1, <3>1, <3>4, <3>5, <3>6
  <2>2. CASE state = "header_field"
    <3>1. /\ old = fields /\ FieldFrom = mark /\ line' = line /\ l = line + 1 /\ Upto = mark - 1
          /\ values' = values /\ fields' = fields \o ps
      BY <1>1, <1>2, <2>2 DEF FieldFrom, Upto
    <3>2. NameSoFar  BY DEF HeaderInv
    <3> HIDE DEF ps, l, old
    <3> QED  BY <1>1, <2>2, <3>1, <3>2 DEF NameSoFar
  <2> QED  BY <1>1, <2>1, <2>2 DEF InField, At
<1> HIDE DEF ps, l, old
<1>10. \A k \in l .. pos + 1 : body[k] # Colon
  <2>1. ASSUME NEW k \in l .. pos + 1 PROVE body[k] # Colon
    <3>1. k \in l .. pos \/ k = pos + 1  BY <1>1, <1>9
    <3> QED  BY <1>1, <1>9, <3>1
  <2> QED  BY <2>1
<1>11. ASSUME ~EndsIn(l, pos + 1) PROVE fields' = <<>> /\ FieldFrom = l
  <2>1. ~EndsIn(l, pos) /\ ~IsLast
    <3>1. \A k \in ends \cup {got} : k \in Nat /\ ~ (l <= k /\ k <= pos + 1)
      BY <1>1, <1>8, <1>11 DEF EndsIn
    <3>2. \A k \in ends \cup {got} : ~ (l <= k /\ k <= pos)  BY <1>1, <3>1
    <3>3. got # pos + 1
      <4>1. l <= pos + 1  BY <1>1, <1>6, <1>9
      <4> QED  BY <1>1, <3>1, <4>1
    <3> QED  BY <1>4, <3>2, <3>3 DEF EndsIn
  <2>2. ps = <<>>  BY <2>1 DEF ps
  <2>3. old = <<>> /\ FieldFrom = l  BY <1>9, <2>1
  <2> QED  BY <1>9, <2>2, <2>3, ConcatEmptySeq
<1>12. ASSUME \A k \in l .. Upto' : EndsIn(k, k) => body[k] # Hyphen
       PROVE  FlattenSeq(fields') = Piece(l, Upto')
  <2>1. FlattenSeq(old) = Piece(l, FieldFrom - 1)
    <3>1. \A k \in l .. FieldFrom - 1 : k \in l .. Upto'  BY <1>1, <1>5, <1>6, <1>9
    <3> QED  BY <1>9, <1>12, <3>1
  <2>2. CASE IsLast
    <3>1. pos + 1 \in l .. Upto'
      <4>1. Upto' = pos + 1 /\ l <= pos + 1  BY <1>1, <1>5, <1>6, <1>9, <2>2
      <4> QED  BY <1>1, <1>9, <4>1
    <3>2. EndsIn(pos + 1, pos + 1)  BY <1>1, <1>4, <2>2 DEF EndsIn
    <3>3. c # Hyphen  BY <1>1, <1>12, <3>1, <3>2
    <3>4. ps = <<p>>  BY <2>2, <3>3 DEF ps
    <3>5. FlattenSeq(old \o <<p>>) = Piece(l, pos + 1)
      <4>1. PICK n \in Nat : n = pos + 1  BY <1>1
      <4>2. n <= got /\ FieldFrom <= n + 1  BY <1>1, <1>6, <4>1
      <4>3. FlattenSeq(old \o <<Piece(FieldFrom, n)>>) = Piece(l, n)
        BY <1>6, <1>9, <2>1, <4>2, OneMorePiece
      <4> QED  BY <4>1, <4>3
    <3> HIDE DEF p
    <3> QED  BY <1>5, <1>9, <2>2, <3>4, <3>5
  <2>3. CASE ~IsLast
    <3>1. ps = <<>>  BY <2>3 DEF ps
    <3>2. fields' = old  BY <1>9, <3>1, ConcatEmptySeq
    <3> QED  BY <1>5, <2>1, <2>3, <3>2
  <2> QED  BY <2>2, <2>3
<1>13. NameSoFar'
  <2>1. \A m, n : EndsIn(m, n)' <=> EndsIn(m, n)  BY <1>1 DEF EndsIn
  <2>2. \A m, n : Piece(m, n)' = Piece(m, n)  BY <1>1 DEF Piece
  <2>3. ~EndsIn(line' + 1, pos + 1) => fields' = <<>> /\ mark' = line' + 1
    BY <1>1, <1>11 DEF l
  <2>4. (\A k \in line' + 1 .. Upto' : EndsIn(k, k) => body[k] # Hyphen) =>
          FlattenSeq(fields') = Piece(line' + 1, Upto')
    BY <1>12 DEF l
  <2>5. line' < pos' /\ line' + 1 <= mark' /\ values' = <<>>  BY <1>1, <1>9 DEF l
  <2>6. \A k \in line' + 1 .. pos + 1 : body[k] # Colon  BY <1>10 DEF l
  <2> QED  BY <1>1, <2>1, <2>2, <2>3, <2>4, <2>5, <2>6 DEF NameSoFar, EndsIn, Piece
<1> QED  BY <1>3, <1>13 DEF HeaderInv

\* The colon: the rest of the name is reported.
LEMMA FieldEndHeader == TypeOK /\ HeaderInv /\ FieldEnd => HeaderInv'
<1> SUFFICES ASSUME TypeOK, HeaderInv, FieldEnd PROVE HeaderInv'
  OBVIOUS
<1> DEFINE p == Piece(FieldFrom, pos)
           ps == <<p>>
<1>1. /\ InField /\ pos < got /\ c = body[pos + 1] /\ c = Colon
      /\ state' = "header_value_start" /\ pos' = pos + 1
      /\ UNCHANGED <<body, got, ends>>
      /\ pos \in Nat /\ got \in Nat /\ line \in Nat /\ line <= pos
      /\ mark \in Nat \ {0} /\ mark <= pos + 1 /\ fields \in Seq(Seq(Byte))
      /\ body \in Seq(Byte) /\ got <= Len(body) /\ Len(body) \in Nat
  BY MultipartAssumption, BodyType
  DEF FieldEnd, FieldGets, InField, At, Eat, reads, TypeOK, PlaceType, TextType, c
<1>2. IF state = "header_field_start"
      THEN fields' = ps /\ line' = pos /\ values' = <<>>
      ELSE fields' = fields \o ps /\ UNCHANGED <<line, values>>
  BY DEF FieldEnd, FieldGets
<1>3. NameSoFar'  BY <1>1 DEF NameSoFar
<1>4. FieldFrom \in Nat \ {0} /\ FieldFrom <= pos + 1  BY <1>1 DEF FieldFrom
<1>5. ps \in Seq(Seq(Byte)) /\ <<>> \o ps = ps
  <2>1. p \in Seq(Byte)
    <3>1. FieldFrom \in 1 .. pos + 1  BY <1>1, <1>4
    <3> QED  BY <3>1, PieceType
  <2> HIDE DEF p
  <2>2. ps \in Seq(Seq(Byte))  BY <2>1
  <2> QED  BY <2>2, ConcatEmptySeq
<1> DEFINE old == IF state = "header_field_start" THEN <<>> ELSE fields
           l == line' + 1
<1>6. /\ old \in Seq(Seq(Byte)) /\ fields' = old \o ps /\ values' = <<>>
      /\ l \in Nat \ {0} /\ l <= FieldFrom /\ line' <= pos /\ line' \in Nat
      /\ \A k \in l .. pos : body[k] # Colon
      /\ ~EndsIn(l, pos) => old = <<>> /\ FieldFrom = l
      /\ (\A k \in l .. FieldFrom - 1 : EndsIn(k, k) => body[k] # Hyphen) =>
           FlattenSeq(old) = Piece(l, FieldFrom - 1)
  <2>1. CASE state = "header_field_start"
    <3>1. old = <<>> /\ line' = pos /\ FieldFrom = pos + 1 /\ l = pos + 1  BY <1>2, <2>1 DEF FieldFrom
    <3>2. Piece(pos + 1, pos) = <<>>  BY NothingYet
    <3>3. FlattenSeq(<<>>) = <<>>
      <4>1. <<>> \in Seq(Seq(Byte)) /\ <<>> \in Seq(Byte)  OBVIOUS
      <4> QED  BY <4>1, FlattenGrows
    <3>4. fields' = old \o ps /\ values' = <<>>  BY <1>2, <1>5, <2>1, <3>1
    <3> HIDE DEF ps, l
    <3> QED  BY <1>1, <3>1, <3>2, <3>3, <3>4
  <2>2. CASE state = "header_field"
    <3> HIDE DEF ps
    <3>1. /\ old = fields /\ FieldFrom = mark /\ line' = line /\ l = line + 1 /\ Upto = mark - 1
          /\ values' = values /\ fields' = fields \o ps
      <4>1. ~ (state = "header_field_start") /\ pos # got  BY <1>1, <2>2
      <4> QED  BY <1>2, <4>1 DEF FieldFrom, Upto
    <3>2. NameSoFar  BY DEF HeaderInv
    <3> HIDE DEF ps, l, old
    <3> QED  BY <1>1, <2>2, <3>1, <3>2 DEF NameSoFar
  <2> QED  BY <1>1, <2>1, <2>2 DEF InField, At
<1> HIDE DEF l, old
<1>7. FirstFrom(l, {Colon}) = pos + 1
  <2>1. PICK n \in Nat : n = pos + 1  BY <1>1
  <2>2. n \in l .. Len(body) /\ body[n] \in {Colon}
    <3>1. l <= n /\ n <= Len(body)  BY <1>1, <1>4, <1>6, <2>1
    <3>2. body[n] = Colon  BY <1>1, <2>1
    <3>3. l \in Nat /\ Len(body) \in Nat  BY <1>1, <1>6
    <3> QED  BY <2>1, <3>1, <3>2, <3>3
  <2>3. \A m \in l .. n - 1 : body[m] \notin {Colon}  BY <1>1, <1>6, <2>1
  <2>4. FirstFrom(l, {Colon}) = n  BY <1>6, <2>2, <2>3, FirstIs
  <2> QED  BY <2>1, <2>4
<1>8. ColonAt' = pos + 1
  <2>1. ColonAt' = FirstFrom(l, {Colon})  BY <1>1 DEF ColonAt, FirstFrom, l
  <2> QED  BY <1>7, <2>1
<1>9. Name' = Piece(l, pos)
  <2>1. Name' = SubSeq(body, l, (pos + 1) - 1)  BY <1>1, <1>8 DEF Name, Piece, l
  <2>2. (pos + 1) - 1 = pos  BY <1>1
  <2> QED  BY <2>1, <2>2 DEF Piece
<1>10. ASSUME ~EndsIn(l, pos) PROVE fields' = <<Piece(l, pos)>>
  BY <1>5, <1>6, <1>10
<1>11. ASSUME \A k \in l .. pos : EndsIn(k, k) => body[k] # Hyphen
       PROVE  FlattenSeq(fields') = Piece(l, pos)
  <2>1. \A k \in l .. FieldFrom - 1 : k \in l .. pos  BY <1>1, <1>4, <1>6
  <2>2. FlattenSeq(old) = Piece(l, FieldFrom - 1)  BY <1>6, <1>11, <2>1
  <2>3. pos <= got  BY <1>1
  <2> QED  BY <1>1, <1>4, <1>6, <2>2, <2>3, OneMorePiece
<1>12. NameWhole'
  <2>1. \A m, n : EndsIn(m, n)' <=> EndsIn(m, n)  BY <1>1 DEF EndsIn
  <2>2. ColonAt' - 1 = pos  BY <1>1, <1>8
  <2>3. ~EndsIn(line' + 1, pos) => fields' = <<Name'>>  BY <1>9, <1>10 DEF l
  <2>4. (\A k \in line' + 1 .. pos : EndsIn(k, k) => body[k] # Hyphen) =>
          FlattenSeq(fields') = Name'
    BY <1>9, <1>11 DEF l
  <2>5. ColonAt' \in line' + 1 .. pos'
    <3>1. l <= pos + 1 /\ l \in Nat /\ pos + 1 \in Nat  BY <1>1, <1>4, <1>6
    <3>2. pos + 1 \in l .. pos + 1  BY <3>1
    <3>3. ColonAt' \in l .. pos'  BY <1>1, <1>8, <3>2
    <3> QED  BY <3>3 DEF l
  <2> QED  BY <1>1, <2>1, <2>2, <2>3, <2>4, <2>5 DEF NameWhole, EndsIn
<1>13. ValueSoFar'
  <2>1. \A k : k \notin ColonAt' + 1 .. pos'  BY <1>1, <1>8
  <2> QED  BY <1>1, <1>6, <2>1 DEF ValueSoFar
<1> QED  BY <1>3, <1>12, <1>13 DEF HeaderInv

\* The blanks before the value are none of it.
LEMMA ValueStartHeader == TypeOK /\ HeaderInv /\ HeaderValueStart => HeaderInv'
<1> SUFFICES ASSUME TypeOK, HeaderInv, HeaderValueStart PROVE HeaderInv'
  OBVIOUS
<1>1. /\ state = "header_value_start" /\ state' = state /\ pos' = pos + 1 /\ pos \in Nat
      /\ body[pos + 1] = Blank /\ UNCHANGED <<body, got, ends, line, fields, values>>
  BY BodyType DEF HeaderValueStart, At, Eat, reads, header, c
<1>2. NameWhole' /\ ColonAt' = ColonAt /\ ColonAt \in Nat
  <2>1. NameWhole /\ state \in InHeader \ {"header_field"} /\ pos' \in Nat /\ pos <= pos'
    BY <1>1 DEF HeaderInv, InHeader
  <2>2. ColonAt \in Nat
    <3>1. line \in Nat /\ ColonAt \in line + 1 .. pos
      BY <1>1, <2>1 DEF NameWhole, TypeOK, PlaceType
    <3> QED  BY <1>1, <3>1
  <2>3. NameWhole' /\ ColonAt' = ColonAt  BY <1>1, <2>1, SameName
  <2> QED  BY <2>2, <2>3
<1>3. values = <<>> /\ \A k \in ColonAt + 1 .. pos : body[k] = Blank
  BY <1>1 DEF HeaderInv, ValueSoFar
<1>4. ASSUME NEW k \in ColonAt + 1 .. pos + 1 PROVE body[k] = Blank
  <2>1. k \in ColonAt + 1 .. pos \/ k = pos + 1  BY <1>1, <1>2
  <2> QED  BY <1>1, <1>3, <2>1
<1>5. ValueSoFar'  BY <1>1, <1>2, <1>3, <1>4 DEF ValueSoFar
<1>6. NameSoFar'  BY <1>1 DEF NameSoFar
<1> QED  BY <1>2, <1>5, <1>6 DEF HeaderInv

\* A byte of the value: reported at the CR, and once more at the end of a read.
LEMMA ValueHeader == TypeOK /\ HeaderInv /\ HeaderValue => HeaderInv'
<1> SUFFICES ASSUME TypeOK, HeaderInv, HeaderValue PROVE HeaderInv'
  OBVIOUS
<1> DEFINE V == ValueAt
           F == ValueFrom
           p == Piece(F, pos)
           q == Piece(F, pos + 1)
           ps == IF c = CR THEN <<p>> ELSE <<>>
           qs == IF IsLast THEN <<q>> ELSE <<>>
<1>1. /\ state = "header_value" \/ (state = "header_value_start" /\ c # Blank)
      /\ pos < got /\ c = body[pos + 1] /\ c \in Byte /\ pos' = pos + 1
      /\ state' = IF c = CR THEN "header_value_almost_done" ELSE "header_value"
      /\ UNCHANGED <<body, got, ends, line, fields>> /\ mark' = F /\ values' = (values \o ps) \o qs
      /\ pos \in Nat /\ got \in Nat /\ mark \in Nat \ {0} /\ mark <= pos + 1
      /\ values \in Seq(Seq(Byte))
      /\ body \in Seq(Byte) /\ got <= Len(body) /\ Len(body) \in Nat
  BY BodyType DEF HeaderValue, At, Eat, reads, TypeOK, PlaceType, TextType, c
<1>2. NameSoFar'  BY <1>1 DEF NameSoFar
<1>3. NameWhole' /\ ColonAt' = ColonAt /\ V' = V /\ ColonAt \in Nat /\ ColonAt <= pos
  <2>1. NameWhole /\ state \in InHeader \ {"header_field"} /\ pos' \in Nat /\ pos <= pos'
    BY <1>1 DEF HeaderInv, InHeader
  <2>2. ColonAt \in Nat /\ ColonAt <= pos
    <3>1. line \in Nat /\ ColonAt \in line + 1 .. pos
      BY <1>1, <2>1 DEF NameWhole, TypeOK, PlaceType
    <3> QED  BY <1>1, <3>1
  <2>3. NameWhole' /\ ColonAt' = ColonAt /\ V' = V  BY <1>1, <2>1, SameName
  <2> QED  BY <2>2, <2>3
<1>4. ends \subseteq Nat  BY <1>1 DEF TypeOK, PlaceType
<1>5. IsLast <=> pos + 1 = got  BY DEF IsLast
\* What was reported before.
<1>6. /\ V \in Nat \ {0} /\ ColonAt + 1 <= V /\ V <= F /\ F \in Nat /\ F <= pos + 1
      /\ ~EndsIn(V, pos) => values = <<>> /\ F = V
      /\ FlattenSeq(values) = Piece(V, F - 1)
  <2>1. CASE state = "header_value_start"
    <3>1. values = <<>> /\ F = pos + 1 /\ c # Blank /\ \A k \in ColonAt + 1 .. pos : body[k] = Blank
      BY <1>1, <2>1 DEF HeaderInv, ValueSoFar, ValueFrom
    <3>2. V = pos + 1
      <4>1. PICK n \in Nat : n = pos + 1  BY <1>1
      <4>2. ColonAt + 1 <= n /\ n <= Len(body)  BY <1>1, <1>3, <4>1
      <4>3. body[n] \in Byte \ {Blank}  BY <1>1, <3>1, <4>1
      <4>4. \A m \in ColonAt + 1 .. n - 1 : body[m] \notin Byte \ {Blank}  BY <1>1, <3>1, <4>1
      <4>5. n \in ColonAt + 1 .. Len(body) /\ ColonAt + 1 \in Nat  BY <1>1, <1>3, <4>1, <4>2
      <4>6. FirstFrom(ColonAt + 1, Byte \ {Blank}) = n  BY <4>3, <4>4, <4>5, FirstIs
      <4> QED  BY <4>1, <4>6 DEF ValueAt
    <3>3. Piece(V, F - 1) = <<>>
      <4>1. F - 1 = pos  BY <1>1, <3>1
      <4> QED  BY <3>2, <4>1, NothingYet
    <3>4. FlattenSeq(values) = <<>>
      <4>1. <<>> \in Seq(Seq(Byte)) /\ <<>> \in Seq(Byte)  OBVIOUS
      <4> QED  BY <3>1, <4>1, FlattenGrows
    <3> HIDE DEF V, F
    <3> QED  BY <1>1, <1>3, <3>1, <3>2, <3>3, <3>4
  <2>2. CASE state = "header_value"
    <3>1. F = mark /\ Upto = mark - 1  BY <1>1, <2>2 DEF ValueFrom, Upto
    <3>2. /\ V \in ColonAt + 1 .. pos /\ V <= mark
          /\ ~EndsIn(V, pos) => values = <<>> /\ mark = V
          /\ FlattenSeq(values) = Piece(V, Upto)
      BY <2>2 DEF HeaderInv, ValueSoFar
    <3> HIDE DEF V, F
    <3> QED  BY <1>1, <1>3, <3>1, <3>2
  <2> QED  BY <1>1, <2>1, <2>2
<1> HIDE DEF V, F
<1>7. p \in Seq(Byte) /\ q \in Seq(Byte)
  <2>1. F \in 1 .. pos + 1  BY <1>1, <1>3, <1>6
  <2> QED  BY <1>1, <2>1, PieceType
<1>8. ps \in Seq(Seq(Byte)) /\ values \o ps \in Seq(Seq(Byte))
  <2>1. ps \in Seq(Seq(Byte))
    <3> HIDE DEF p
    <3> QED  BY <1>7
  <2> HIDE DEF ps
  <2> QED  BY <1>1, <2>1, ConcatProperties
<1> HIDE DEF ps, qs
<1>9. ASSUME ~EndsIn(V, pos + 1) PROVE ~EndsIn(V, pos) /\ ~IsLast /\ qs = <<>>
  <2>1. \A k \in ends \cup {got} : k \in Nat /\ ~ (V <= k /\ k <= pos + 1)
    BY <1>1, <1>4, <1>9 DEF EndsIn
  <2>2. \A k \in ends \cup {got} : ~ (V <= k /\ k <= pos)  BY <1>1, <2>1
  <2>3. got # pos + 1
    <3>1. V <= pos + 1  BY <1>1, <1>6
    <3> QED  BY <1>1, <2>1, <3>1
  <2> QED  BY <1>5, <2>2, <2>3 DEF EndsIn, qs
<1>10. \A m, n : EndsIn(m, n)' <=> EndsIn(m, n)  BY <1>1 DEF EndsIn
<1>11. V \in ColonAt + 1 .. pos + 1  BY <1>1, <1>3, <1>6
<1>12. CASE c = CR
  <2>1. state' = "header_value_almost_done" /\ ps = <<p>>  BY <1>1, <1>12 DEF ps
  <2>2. Value' = Piece(V, pos)
    <3>1. Value' = SubSeq(body, V, (pos + 1) - 1)  BY <1>1, <1>3 DEF Value, Piece, V
    <3>2. (pos + 1) - 1 = pos  BY <1>1
    <3> QED  BY <3>1, <3>2 DEF Piece
  <2>3. ASSUME ~EndsIn(V, pos + 1) PROVE values' = <<Value'>>
    <3>1. values = <<>> /\ F = V /\ qs = <<>>  BY <1>6, <1>9, <2>3
    <3>2. values' = (<<>> \o ps) \o <<>>  BY <1>1, <3>1
    <3>3. <<>> \o ps = ps /\ ps \o <<>> = ps  BY <1>8, ConcatEmptySeq
    <3> QED  BY <2>1, <2>2, <3>1, <3>2, <3>3
  <2>4. ASSUME ~EndsIn(pos + 1, pos + 1) PROVE FlattenSeq(values') = Value'
    <3>1. ~IsLast
      <4>1. got \in ends \cup {got}  OBVIOUS
      <4>2. ~ (pos + 1 <= got /\ got <= pos + 1)  BY <2>4, <4>1 DEF EndsIn
      <4> QED  BY <1>1, <1>5, <4>2
    <3>2. values' = values \o <<p>>
      <4>1. qs = <<>>  BY <3>1 DEF qs
      <4>2. (values \o ps) \o <<>> = values \o ps  BY <1>8, ConcatEmptySeq
      <4> QED  BY <1>1, <2>1, <4>1, <4>2
    <3>3. pos <= got  BY <1>1
    <3>4. FlattenSeq(values \o <<Piece(F, pos)>>) = Piece(V, pos)
      BY <1>1, <1>6, <3>3, OneMorePiece
    <3> QED  BY <2>2, <3>2, <3>4
  <2>5. ValueSoFar'
    <3>1. ~EndsIn(ValueAt', pos') => values' = <<Value'>>  BY <1>1, <1>3, <2>3 DEF V
    <3>2. ~EndsIn(pos', pos') => FlattenSeq(values') = Value'  BY <1>1, <2>4
    <3>3. ValueAt' \in ColonAt' + 1 .. pos'  BY <1>1, <1>3, <1>11 DEF V
    <3> QED  BY <1>10, <2>1, <3>1, <3>2, <3>3 DEF ValueSoFar, EndsIn
  <2> QED  BY <1>2, <1>3, <2>5 DEF HeaderInv
<1>13. CASE c # CR
  <2>1. state' = "header_value" /\ values' = values \o qs
    <3>1. ps = <<>>  BY <1>13 DEF ps
    <3> QED  BY <1>1, <1>13, <3>1, ConcatEmptySeq
  <2>2. ASSUME ~EndsIn(V, pos + 1) PROVE values' = <<>> /\ F = V
    <3>1. values = <<>> /\ F = V /\ qs = <<>>  BY <1>6, <1>9, <2>2
    <3> QED  BY <2>1, <3>1, ConcatEmptySeq
  <2>3. Upto' = IF IsLast THEN pos + 1 ELSE F - 1  BY <1>1, <1>5 DEF Upto
  <2>4. FlattenSeq(values') = Piece(V, Upto')
    <3>1. CASE IsLast
      <4>1. PICK n \in Nat : n = pos + 1  BY <1>1
      <4>2. n <= got /\ F <= n + 1  BY <1>1, <1>6, <4>1
      <4>3. FlattenSeq(values \o <<Piece(F, n)>>) = Piece(V, n)
        BY <1>1, <1>6, <4>2, OneMorePiece
      <4>4. qs = <<Piece(F, n)>> /\ Upto' = n  BY <2>3, <3>1, <4>1 DEF qs
      <4> QED  BY <2>1, <4>3, <4>4
    <3>2. CASE ~IsLast
      <4>1. qs = <<>> /\ Upto' = F - 1  BY <2>3, <3>2 DEF qs
      <4>2. values' = values  BY <1>1, <2>1, <4>1, ConcatEmptySeq
      <4> QED  BY <1>6, <4>1, <4>2
    <3> QED  BY <3>1, <3>2
  <2>5. ValueSoFar'
    <3>1. ~EndsIn(ValueAt', pos') => values' = <<>> /\ mark' = ValueAt'  BY <1>1, <1>3, <2>2 DEF V
    <3>2. FlattenSeq(values') = Piece(ValueAt', Upto')  BY <1>3, <2>4 DEF V
    <3>3. ValueAt' \in ColonAt' + 1 .. pos' /\ ValueAt' <= mark'  BY <1>1, <1>3, <1>6, <1>11 DEF V
    <3>4. \A m, n : Piece(m, n)' = Piece(m, n)  BY <1>1 DEF Piece
    <3> QED  BY <1>10, <2>1, <3>1, <3>2, <3>3, <3>4 DEF ValueSoFar, EndsIn, Piece
  <2> QED  BY <1>2, <1>3, <2>5 DEF HeaderInv
<1> QED  BY <1>12, <1>13

\* Every step keeps what is known of the header line it is in.
LEMMA HeaderStep == TypeOK /\ HeaderInv /\ [Next]_vars => HeaderInv'
<1> SUFFICES ASSUME TypeOK, HeaderInv, [Next]_vars PROVE HeaderInv'
  OBVIOUS
<1>1. CASE Read  BY <1>1, HeaderRead
<1>2. CASE FieldByte  BY <1>2, FieldByteHeader
<1>3. CASE FieldEnd  BY <1>3, FieldEndHeader
<1>4. CASE HeaderValueStart  BY <1>4, ValueStartHeader
<1>5. CASE HeaderValue  BY <1>5, ValueHeader
<1>6. CASE Reject \/ HeadersEnd \/ HeadersDone \/ HeaderLineEnd
  BY <1>6, OutsideHeader DEF Reject, HeadersEnd, HeadersDone, HeaderLineEnd, InHeader
<1>7. CASE StartBoundary \/ AlmostBoundary \/ AlmostEnd \/ FinalHyphen \/ PartDataEnd \/ Epilogue
  BY <1>7, OutsideHeader
  DEF StartBoundary, AlmostBoundary, AlmostEnd, FinalHyphen, PartDataEnd, Epilogue, At, InHeader
<1>8. CASE PartDataStart \/ PartData \/ PartDataCR \/ NoLF \/ NoBoundary \/ PartBoundary
  BY <1>8, OutsideHeader
  DEF PartDataStart, PartData, PartDataCR, NoLF, NoBoundary, NotBoundary, PartBoundary,
      GoesOn, At, InHeader
<1>9. CASE UNCHANGED vars
  <2>1. UNCHANGED <<body, got, ends, pos, mark, state, line, fields, values>>
    BY <1>9 DEF vars, reads, header
  <2> QED
    BY <2>1
    DEF HeaderInv, NameSoFar, NameWhole, ValueSoFar, Upto, ColonAt, ValueAt, Name, Value,
        FirstFrom, Piece, EndsIn
<1> QED  BY <1>1, <1>2, <1>3, <1>4, <1>5, <1>6, <1>7, <1>8, <1>9 DEF Next

\* For every body and split into reads: main_upload gets a header's name and
\* value whole, in one piece if no read ended inside, except for a hyphen's
\* piece and the value repeated at the CR.
THEOREM HeadersWhole == Spec => []HeaderWhole
<1>1. TypeOK /\ [Next]_vars => TypeOK'  BY PlaceStep, ParserStep, TextStep DEF TypeOK
<1>2. Init => HeaderInv
  BY DEF Init, HeaderInv, NameSoFar, NameWhole, ValueSoFar, InHeader
<1>3. HeaderInv => HeaderWhole
  <2> SUFFICES ASSUME HeaderInv, state = "header_value_almost_done"
               PROVE  /\ ~EndsIn(line + 1, ColonAt - 1) => fields = <<Name>>
                      /\ ~EndsIn(ValueAt, pos) => values = <<Value>>
                      /\ (\A k \in line + 1 .. ColonAt - 1 : EndsIn(k, k) => body[k] # Hyphen) =>
                           FlattenSeq(fields) = Name
                      /\ ~EndsIn(pos, pos) => FlattenSeq(values) = Value
    BY DEF HeaderWhole
  <2>1. /\ ~EndsIn(line + 1, ColonAt - 1) => fields = <<Name>>
        /\ (\A k \in line + 1 .. ColonAt - 1 : EndsIn(k, k) => body[k] # Hyphen) =>
             FlattenSeq(fields) = Name
    BY DEF HeaderInv, NameWhole, InHeader
  <2>2. /\ ~EndsIn(ValueAt, pos) => values = <<Value>>
        /\ ~EndsIn(pos, pos) => FlattenSeq(values) = Value
    BY DEF HeaderInv, ValueSoFar
  <2> QED  BY <2>1, <2>2, Zenon
<1> QED  BY InitType, <1>1, <1>2, <1>3, HeaderStep, PTL DEF Spec
=============================================================================
