---------------------------- MODULE UploadProofs ----------------------------
(***************************************************************************)
(* For file data of any length and parts in any order: cgi-upload touches  *)
(* the target only with a session that may upload, leaves all of the data  *)
(* there when it says "success" and no target when it says "failure".      *)
(***************************************************************************)
EXTENDS Upload, SequenceTheorems, TLAPS

InFile == {"copy", "chmod", "md5sum", "read_md5"}

\* The session is checked when its part ends, so one that is there belongs to
\* the part at hand or has been granted; and a file's data needs one.
Session ==
  /\ pc = "start" => called = "none" /\ sessionid = "none"
  /\ pc \in {"start", "parse"} /\ sessionid # "none" =>
       access = "granted" \/ (parttype = "sessionid" /\ called = "data")
  /\ pc \in {"start", "parse"} /\ parttype = "filedata" /\ called \in {"complete", "data"} =>
       sessionid # "none"
  /\ TargetNeedsSession

\* The target is open, or was, exactly from the end of the file's part on.
Target ==
  /\ pc \in {"start", "parse"} => target = "untouched" /\ filefd = "none"
  /\ pc \in InFile => target = "written" /\ filefd # "none"

\* How far the data has come from the parser to the target.
Flow ==
  /\ pc \in {"start", "parse"} => temp = Pieces(reported) /\ copied = 0 /\ content = <<>>
  /\ pc \in InFile => temp = Pieces(reported) /\ copied <= reported /\ content = Pieces(copied)
  /\ filedata => reported > 0
  /\ pc \in InFile => reported > 0
  /\ pc \in InFile \ {"copy"} => copied = reported \/ read_failed

Whole ==
  /\ target = "written" /\ content = Pieces(copied)
  /\ reported > 0 /\ (copied = reported \/ read_failed)

\* There is at most one response, and none before the program is done.
Answer ==
  \/ responses = <<>>
  \/ pc \in {"drain", "exited"} /\ responses = <<"failure">> /\ target # "written"
  \/ pc \in {"drain", "exited"} /\ responses = <<"success">> /\ Whole

IInv == TypeOK /\ Session /\ Target /\ Flow /\ Answer

\* The first n pieces, as a sequence.
LEMMA PiecesProperties ==
  ASSUME NEW n \in Nat
  PROVE  Pieces(n) \in Seq(1..n) /\ Len(Pieces(n)) = n /\ \A k \in 1..n : Pieces(n)[k] = k
BY DEF Pieces

\* Appending the next piece gives the first n + 1 pieces.
LEMMA PiecesGrow == ASSUME NEW n \in Nat PROVE Append(Pieces(n), n + 1) = Pieces(n + 1)
<1>1. Pieces(n) \in Seq(Nat) /\ Len(Pieces(n)) = n  BY DEF Pieces
<1>2. /\ Append(Pieces(n), n + 1) \in Seq(Nat) /\ Len(Append(Pieces(n), n + 1)) = n + 1
      /\ \A k \in 1..n : Append(Pieces(n), n + 1)[k] = Pieces(n)[k]
      /\ Append(Pieces(n), n + 1)[n + 1] = n + 1
  BY <1>1, AppendProperties
<1>3. Pieces(n + 1) \in Seq(Nat) /\ Len(Pieces(n + 1)) = n + 1  BY DEF Pieces
<1>4. \A k \in 1..n + 1 : Append(Pieces(n), n + 1)[k] = Pieces(n + 1)[k]
  BY <1>2 DEF Pieces
<1> QED  BY <1>2, <1>3, <1>4, SeqEqual

\* The inductive invariant holds when the program starts.
LEMMA InitIInv == Init => IInv
<1> SUFFICES ASSUME Init PROVE IInv
  OBVIOUS
<1>1. Pieces(0) = <<>>  BY DEF Pieces
<1> QED
  <2>1. ControlType /\ FlagType
    BY DEF Init, ControlType, FlagType, Calls!Init, Calls!CallNames, PartTypes
  <2>2. DataType  BY UploadAssumption DEF Init, DataType
  <2>3. Session /\ Target  BY DEF Init, Session, Target, TargetNeedsSession, InFile, Calls!Init
  <2>4. Flow /\ Answer  BY <1>1 DEF Init, Flow, Answer, InFile
  <2> QED  BY <2>1, <2>2, <2>3, <2>4 DEF IInv, TypeOK

\* The last of the parts a form name begins is one of the parts.
LEMMA LastOfIsPart == \A S \in Matches : S # {} => LastOf(S) \in PartTypes
<1> SUFFICES ASSUME NEW S \in Matches, S # {} PROVE LastOf(S) \in PartTypes
  OBVIOUS
<1> DEFINE IsLastOf(k) == Parts[k] \in S /\ \A j \in k+1..4 : Parts[j] \notin S
<1>1. \E k \in 1..4 : Parts[k] \in S
  BY DEF Matches
<1>2. \E k \in 1..4 : IsLastOf(k)
  <2>1. CASE Parts[4] \in S
    <3>1. IsLastOf(4)  BY <2>1
    <3> QED  BY <3>1
  <2>2. CASE Parts[4] \notin S /\ Parts[3] \in S
    <3>1. \A j \in 3+1..4 : j = 4  OBVIOUS
    <3>2. IsLastOf(3)  BY <2>2, <3>1
    <3> QED  BY <3>2
  <2>3. CASE Parts[4] \notin S /\ Parts[3] \notin S /\ Parts[2] \in S
    <3>1. \A j \in 2+1..4 : j = 3 \/ j = 4  OBVIOUS
    <3>2. IsLastOf(2)  BY <2>3, <3>1
    <3> QED  BY <3>2
  <2>4. CASE Parts[4] \notin S /\ Parts[3] \notin S /\ Parts[2] \notin S /\ Parts[1] \in S
    <3>1. \A j \in 1+1..4 : j = 2 \/ j = 3 \/ j = 4  OBVIOUS
    <3>2. IsLastOf(1)  BY <2>4, <3>1
    <3> QED  BY <3>2
  <2> QED  BY <1>1, <2>1, <2>2, <2>3, <2>4
<1>3. (CHOOSE k \in 1..4 : IsLastOf(k)) \in 1..4  BY <1>2
<1> QED  BY <1>3 DEF LastOf, PartTypes

\* One more response keeps the responses' type.
LEMMA RespondType ==
  ASSUME DataType, NEW r \in {"success", "failure"}
  PROVE  Append(responses, r) \in Seq({"success", "failure"})
BY DEF DataType

\* Every step keeps the types: control, flags and data in turn.
LEMMA ControlStep == IInv /\ [Next]_vars => ControlType'
<1> SUFFICES ASSUME IInv, [Next]_vars PROVE ControlType'
  OBVIOUS
<1> USE DEF fields, disk, IInv, TypeOK, ControlType, Calls!CallNames
<1>1. CASE InputEnds  BY <1>1 DEF InputEnds
<1>2. CASE Start  BY <1>2 DEF Start
<1>3. CASE HeaderField  BY <1>3 DEF HeaderField, Parsing, Calls!Field
<1>4. CASE HeaderValue
  <2>1. \A S \in Matches : S # {} => LastOf(S) \in PartTypes  BY LastOfIsPart
  <2>2. parttype' \in PartTypes  BY <1>4, <2>1 DEF HeaderValue
  <2> QED  BY <1>4, <2>2 DEF HeaderValue, Parsing, Calls!Value
<1>5. CASE DataBegin  BY <1>5 DEF DataBegin, Parsing, Calls!Complete, Fail
<1>6. CASE DataField  BY <1>6 DEF DataField, Parsing, Calls!Data
<1>7. CASE DataFile  BY <1>7 DEF DataFile, Parsing, Calls!Data, Fail
<1>8. CASE DataEnd
  <2>1. "unknown" \in PartTypes  BY DEF PartTypes
  <2> QED  BY <1>8, <2>1 DEF DataEnd, Parsing, Calls!End, Fail
<1>9. CASE FileEnd  BY <1>9 DEF FileEnd, Parsing, Calls!End, Fail
<1>10. CASE Copy  BY <1>10 DEF Copy, Fail
<1>11. CASE CopyEnd  BY <1>11 DEF CopyEnd
<1>12. CASE Chmod  BY <1>12 DEF Chmod, Fail
<1>13. CASE Md5sum  BY <1>13 DEF Md5sum, Succeed
<1>14. CASE ReadMd5  BY <1>14 DEF ReadMd5, Succeed
<1>15. CASE Drain  BY <1>15 DEF Drain
<1>16. CASE ParsingEnds  BY <1>16 DEF ParsingEnds
<1>17. CASE UNCHANGED vars  BY <1>17 DEF vars
<1> QED
  BY <1>1, <1>2, <1>3, <1>4, <1>5, <1>6, <1>7, <1>8, <1>9, <1>10, <1>11, <1>12,
     <1>13, <1>14, <1>15, <1>16, <1>17 DEF Next, ParserCalls, Program

\* The Boolean variables, which Zenon takes better.
LEMMA FlagStep == IInv /\ [Next]_vars => FlagType'
<1> SUFFICES ASSUME IInv, [Next]_vars PROVE FlagType'
  OBVIOUS
<1> USE DEF disk, IInv, TypeOK, FlagType
<1>1. CASE InputEnds  BY <1>1, Zenon DEF InputEnds
<1>2. CASE Start  BY <1>2, Zenon DEF Start
<1>3. CASE HeaderField  BY <1>3, Zenon DEF HeaderField
<1>4. CASE HeaderValue  BY <1>4, Zenon DEF HeaderValue
<1>5. CASE DataBegin  BY <1>5, Zenon DEF DataBegin
<1>6. CASE DataField  BY <1>6, Zenon DEF DataField
<1>7. CASE DataFile  BY <1>7, Zenon DEF DataFile
<1>8. CASE DataEnd  BY <1>8, Zenon DEF DataEnd
<1>9. CASE FileEnd  BY <1>9, Zenon DEF FileEnd
<1>10. CASE Copy  BY <1>10, Zenon DEF Copy
<1>11. CASE CopyEnd  BY <1>11, Zenon DEF CopyEnd
<1>12. CASE Chmod  BY <1>12, Zenon DEF Chmod
<1>13. CASE Md5sum  BY <1>13, Zenon DEF Md5sum
<1>14. CASE ReadMd5  BY <1>14, Zenon DEF ReadMd5
<1>15. CASE Drain  BY <1>15, Zenon DEF Drain
<1>16. CASE ParsingEnds  BY <1>16, Zenon DEF ParsingEnds
<1>17. CASE UNCHANGED vars  BY <1>17, Zenon DEF vars
<1> QED
  BY <1>1, <1>2, <1>3, <1>4, <1>5, <1>6, <1>7, <1>8, <1>9, <1>10, <1>11, <1>12,
     <1>13, <1>14, <1>15, <1>16, <1>17 DEF Next, ParserCalls, Program

\* The data, with what a piece or a response appends.
LEMMA DataTypeStep == IInv /\ [Next]_vars => DataType'
<1> SUFFICES ASSUME IInv, [Next]_vars PROVE DataType'
  OBVIOUS
<1> USE UploadAssumption DEF fields, disk, IInv, TypeOK, DataType
<1>1. CASE InputEnds  BY <1>1 DEF InputEnds
<1>2. CASE Start
  <2>1. <<"failure">> \in Seq({"success", "failure"})  OBVIOUS
  <2> QED  BY <1>2, <2>1 DEF Start
<1>3. CASE HeaderField  BY <1>3 DEF HeaderField
<1>4. CASE HeaderValue  BY <1>4 DEF HeaderValue
<1>5. CASE DataBegin  BY <1>5, RespondType DEF DataBegin, Fail
<1>6. CASE DataField  BY <1>6 DEF DataField
<1>7. CASE DataFile
  <2>1. UNCHANGED <<copied, content>>  BY <1>7 DEF DataFile
  <2>2. CASE UNCHANGED <<reported, temp, responses>>  BY <2>1, <2>2
  <2>3. CASE reported < MaxData /\ reported' = reported + 1 /\ UNCHANGED responses
             /\ temp' = Append(temp, reported + 1)
    <3>1. reported + 1 \in 1..MaxData  BY <2>3
    <3>2. temp' \in Seq(1..MaxData) /\ Len(temp') = Len(temp) + 1
      BY <2>3, <3>1, AppendProperties
    <3> QED  BY <2>1, <2>3, <3>2
  <2>4. CASE reported < MaxData /\ reported' = reported + 1 /\ UNCHANGED temp
             /\ responses' = Append(responses, "failure")
    BY <2>1, <2>4, RespondType
  <2> QED  BY <1>7, <2>2, <2>3, <2>4 DEF DataFile, Fail
<1>8. CASE DataEnd  BY <1>8, RespondType DEF DataEnd, Fail
<1>9. CASE FileEnd  BY <1>9, RespondType DEF FileEnd, Fail
<1>10. CASE Copy
  <2>1. copied + 1 \in 1..Len(temp) /\ temp[copied + 1] \in 1..MaxData
    BY <1>10, ElementOfSeq DEF Copy
  <2>2. Append(content, temp[copied + 1]) \in Seq(1..MaxData)
        /\ Len(Append(content, temp[copied + 1])) = Len(content) + 1
    BY <2>1, AppendProperties
  <2>3. copied < Len(temp) /\ copied' = copied + 1 /\ UNCHANGED <<reported, temp>>
    BY <1>10 DEF Copy
  <2>4. CASE content' = Append(content, temp[copied + 1]) /\ UNCHANGED responses
    BY <2>2, <2>3, <2>4
  <2>5. CASE UNCHANGED content /\ responses' = Append(responses, "failure")
    BY <2>3, <2>5, RespondType
  <2> QED  BY <1>10, <2>4, <2>5 DEF Copy, Fail
<1>11. CASE CopyEnd  BY <1>11 DEF CopyEnd
<1>12. CASE Chmod  BY <1>12, RespondType DEF Chmod, Fail
<1>13. CASE Md5sum  BY <1>13, RespondType DEF Md5sum, Succeed
<1>14. CASE ReadMd5  BY <1>14, RespondType DEF ReadMd5, Succeed
<1>15. CASE Drain  BY <1>15 DEF Drain
<1>16. CASE ParsingEnds  BY <1>16 DEF ParsingEnds
<1>17. CASE UNCHANGED vars  BY <1>17 DEF vars
<1> QED
  BY <1>1, <1>2, <1>3, <1>4, <1>5, <1>6, <1>7, <1>8, <1>9, <1>10, <1>11, <1>12,
     <1>13, <1>14, <1>15, <1>16, <1>17 DEF Next, ParserCalls, Program

\* Together, the type invariant.
LEMMA TypeStep == IInv /\ [Next]_vars => TypeOK'
BY ControlStep, FlagStep, DataTypeStep DEF TypeOK

\* A session is granted before any part but its own can follow.
LEMMA SessionStep == IInv /\ [Next]_vars => Session'
<1> SUFFICES ASSUME IInv, [Next]_vars PROVE Session'
  OBVIOUS
<1> USE DEF fields, disk, IInv, Session, Target, InFile, TargetNeedsSession
<1>1. CASE InputEnds  BY <1>1 DEF InputEnds
<1>2. CASE Start  BY <1>2 DEF Start
<1>3. CASE HeaderField  BY <1>3 DEF HeaderField, Parsing, Calls!Field
<1>4. CASE HeaderValue  BY <1>4 DEF HeaderValue, Parsing, Calls!Value
<1>5. CASE DataBegin  BY <1>5 DEF DataBegin, Parsing, Calls!Complete, Fail
<1>6. CASE DataField  BY <1>6 DEF DataField, Parsing, Calls!Data
<1>7. CASE DataFile  BY <1>7 DEF DataFile, Parsing, Calls!Data, Fail
<1>8. CASE DataEnd  BY <1>8 DEF DataEnd, Parsing, Calls!End, Fail
<1>9. CASE FileEnd  BY <1>9 DEF FileEnd, Parsing, Calls!End, Fail
<1>10. CASE Copy  BY <1>10 DEF Copy, Fail
<1>11. CASE CopyEnd  BY <1>11 DEF CopyEnd
<1>12. CASE Chmod  BY <1>12 DEF Chmod, Fail
<1>13. CASE Md5sum  BY <1>13 DEF Md5sum, Succeed
<1>14. CASE ReadMd5  BY <1>14 DEF ReadMd5, Succeed
<1>15. CASE Drain  BY <1>15 DEF Drain
<1>16. CASE ParsingEnds  BY <1>16 DEF ParsingEnds
<1>17. CASE UNCHANGED vars  BY <1>17 DEF vars
<1> QED
  BY <1>1, <1>2, <1>3, <1>4, <1>5, <1>6, <1>7, <1>8, <1>9, <1>10, <1>11, <1>12,
     <1>13, <1>14, <1>15, <1>16, <1>17 DEF Next, ParserCalls, Program

\* The target is opened at the end of the file's part and not before.
LEMMA TargetStep == IInv /\ [Next]_vars => Target'
<1> SUFFICES ASSUME IInv, [Next]_vars PROVE Target'
  OBVIOUS
<1> USE DEF fields, disk, IInv, Target, InFile
<1>1. CASE InputEnds  BY <1>1 DEF InputEnds
<1>2. CASE Start  BY <1>2 DEF Start
<1>3. CASE HeaderField  BY <1>3 DEF HeaderField, Parsing
<1>4. CASE HeaderValue  BY <1>4 DEF HeaderValue, Parsing
<1>5. CASE DataBegin  BY <1>5 DEF DataBegin, Parsing, Fail
<1>6. CASE DataField  BY <1>6 DEF DataField, Parsing
<1>7. CASE DataFile  BY <1>7 DEF DataFile, Parsing, Fail
<1>8. CASE DataEnd  BY <1>8 DEF DataEnd, Parsing, Fail
<1>9. CASE FileEnd  BY <1>9 DEF FileEnd, Parsing, Fail
<1>10. CASE Copy  BY <1>10 DEF Copy, Fail
<1>11. CASE CopyEnd  BY <1>11 DEF CopyEnd
<1>12. CASE Chmod  BY <1>12 DEF Chmod, Fail
<1>13. CASE Md5sum  BY <1>13 DEF Md5sum, Succeed
<1>14. CASE ReadMd5  BY <1>14 DEF ReadMd5, Succeed
<1>15. CASE Drain  BY <1>15 DEF Drain
<1>16. CASE ParsingEnds  BY <1>16 DEF ParsingEnds
<1>17. CASE UNCHANGED vars  BY <1>17 DEF vars
<1> QED
  BY <1>1, <1>2, <1>3, <1>4, <1>5, <1>6, <1>7, <1>8, <1>9, <1>10, <1>11, <1>12,
     <1>13, <1>14, <1>15, <1>16, <1>17 DEF Next, ParserCalls, Program

\* Every piece reported is written to the temporary file, and every piece read
\* back to the target, as the next one.
LEMMA FlowStep == IInv /\ [Next]_vars => Flow'
<1> SUFFICES ASSUME IInv, [Next]_vars PROVE Flow'
  OBVIOUS
<1> USE DEF fields, disk, IInv, TypeOK, DataType, Flow, InFile
<1>1. CASE InputEnds  BY <1>1 DEF InputEnds
<1>2. CASE Start  BY <1>2 DEF Start
<1>3. CASE HeaderField  BY <1>3 DEF HeaderField, Parsing
<1>4. CASE HeaderValue  BY <1>4 DEF HeaderValue, Parsing
<1>5. CASE DataBegin  BY <1>5 DEF DataBegin, Parsing, Fail
<1>6. CASE DataField  BY <1>6 DEF DataField, Parsing
<1>7. CASE DataFile
  <2>1. Append(Pieces(reported), reported + 1) = Pieces(reported + 1)  BY PiecesGrow
  <2> QED  BY <1>7, <2>1 DEF DataFile, Parsing, Fail
<1>8. CASE DataEnd  BY <1>8 DEF DataEnd, Parsing, Fail
<1>9. CASE FileEnd
  <2>1. Pieces(0) = <<>>  BY DEF Pieces
  <2> QED  BY <1>9, <2>1 DEF FileEnd, Parsing, Fail
<1>10. CASE Copy
  <2>1. temp = Pieces(reported) /\ content = Pieces(copied) /\ pc = "copy"  BY <1>10 DEF Copy
  <2>2. copied \in Nat /\ copied + 1 \in 1..reported /\ temp[copied + 1] = copied + 1
    BY <1>10, <2>1, PiecesProperties DEF Copy
  <2>3. Append(content, temp[copied + 1]) = Pieces(copied + 1)  BY <2>1, <2>2, PiecesGrow
  <2>4. copied' = copied + 1 /\ UNCHANGED <<reported, temp, filedata>>  BY <1>10 DEF Copy
  <2>5. CASE pc' = "copy" /\ content' = Append(content, temp[copied + 1])
    BY <2>1, <2>2, <2>3, <2>4, <2>5
  <2>6. CASE pc' = "drain"  BY <2>4, <2>6
  <2> QED  BY <1>10, <2>1, <2>5, <2>6 DEF Copy, Fail
<1>11. CASE CopyEnd
  <2>1. Len(temp) = reported  BY <1>11, PiecesProperties DEF CopyEnd
  <2> QED  BY <1>11, <2>1 DEF CopyEnd
<1>12. CASE Chmod  BY <1>12 DEF Chmod, Fail
<1>13. CASE Md5sum  BY <1>13 DEF Md5sum, Succeed
<1>14. CASE ReadMd5  BY <1>14 DEF ReadMd5, Succeed
<1>15. CASE Drain  BY <1>15 DEF Drain
<1>16. CASE ParsingEnds  BY <1>16 DEF ParsingEnds
<1>17. CASE UNCHANGED vars  BY <1>17 DEF vars
<1> QED
  BY <1>1, <1>2, <1>3, <1>4, <1>5, <1>6, <1>7, <1>8, <1>9, <1>10, <1>11, <1>12,
     <1>13, <1>14, <1>15, <1>16, <1>17 DEF Next, ParserCalls, Program

\* A response is written once, as the program gives up or is done.
LEMMA AnswerStep == IInv /\ [Next]_vars => Answer'
<1> SUFFICES ASSUME IInv, [Next]_vars PROVE Answer'
  OBVIOUS
<1> USE DEF fields, disk, IInv, Target, InFile, Answer, Whole
<1>1. CASE InputEnds  BY <1>1 DEF InputEnds
<1>2. CASE Start  BY <1>2 DEF Start
<1>3. CASE HeaderField  BY <1>3 DEF HeaderField, Parsing
<1>4. CASE HeaderValue  BY <1>4 DEF HeaderValue, Parsing
<1>5. CASE DataBegin  BY <1>5 DEF DataBegin, Parsing, Fail
<1>6. CASE DataField  BY <1>6 DEF DataField, Parsing
<1>7. CASE DataFile  BY <1>7 DEF DataFile, Parsing, Fail
<1>8. CASE DataEnd  BY <1>8 DEF DataEnd, Parsing, Fail
<1>9. CASE FileEnd  BY <1>9 DEF FileEnd, Parsing, Fail
<1>10. CASE Copy  BY <1>10 DEF Copy, Fail
<1>11. CASE CopyEnd  BY <1>11 DEF CopyEnd
<1>12. CASE Chmod  BY <1>12 DEF Chmod, Fail
<1>13. CASE Md5sum  BY <1>13 DEF Md5sum, Succeed, Flow
<1>14. CASE ReadMd5  BY <1>14 DEF ReadMd5, Succeed, Flow
<1>15. CASE Drain  BY <1>15 DEF Drain
<1>16. CASE ParsingEnds  BY <1>16 DEF ParsingEnds
<1>17. CASE UNCHANGED vars  BY <1>17 DEF vars
<1> QED
  BY <1>1, <1>2, <1>3, <1>4, <1>5, <1>6, <1>7, <1>8, <1>9, <1>10, <1>11, <1>12,
     <1>13, <1>14, <1>15, <1>16, <1>17 DEF Next, ParserCalls, Program

\* The inductive invariant holds at every step of cgi-upload.
THEOREM Inductive == Spec => []IInv
<1>1. IInv /\ [Next]_vars => IInv'
  <2> SUFFICES ASSUME IInv, [Next]_vars PROVE IInv'
    OBVIOUS
  <2>1. TypeOK' /\ Session'  BY TypeStep, SessionStep
  <2>2. Target' /\ Flow' /\ Answer'  BY TargetStep, FlowStep, AnswerStep
  <2> QED  BY <2>1, <2>2 DEF IInv
<1> QED  BY InitIInv, <1>1, PTL DEF Spec

\* Every variable keeps its type, for file data of any length.
THEOREM TypeCorrect == Spec => []TypeOK
<1>1. IInv => TypeOK  BY DEF IInv
<1> QED  BY Inductive, <1>1, PTL

\* The target is touched only after ubus granted the session this upload
\* gave, in whatever order session, name and file come.
THEOREM SessionFirst == Spec => []TargetNeedsSession
<1>1. IInv => TargetNeedsSession  BY DEF IInv, Session
<1> QED  BY Inductive, <1>1, PTL

\* "success" is said only of a target that holds the whole file, or what
\* could be read back of it.
THEOREM SuccessIsWhole == Spec => []SuccessMeansWhole
<1>1. IInv => SuccessMeansWhole
  BY DEF IInv, Answer, Whole, SuccessMeansWhole
<1> QED  BY Inductive, <1>1, PTL

\* "failure" is said only when no target is left behind.
THEOREM FailureLeavesNothing == Spec => []FailureRemoves
<1>1. IInv => FailureRemoves
  BY DEF IInv, Answer, Whole, FailureRemoves
<1> QED  BY Inductive, <1>1, PTL

\* The temporary file is open only while its part is under way or copied, and
\* no file is once there is a response.
Closed ==
  /\ pc = "start" => tempfd = "none"
  /\ pc = "parse" /\ tempfd = "open" => parttype = "filedata" /\ called \in {"complete", "data"}
  /\ pc \in InFile \ {"copy"} => tempfd # "open" /\ filefd # "open"
  /\ responses # <<>> => tempfd # "open" /\ filefd # "open"

\* Whatever ends the file's part closes the temporary file with it.
LEMMA ClosedStep == IInv /\ Closed /\ [Next]_vars => Closed'
<1> SUFFICES ASSUME IInv, Closed, [Next]_vars PROVE Closed'
  OBVIOUS
<1> USE DEF fields, disk, IInv, Target, InFile, Answer, Closed
<1>1. CASE InputEnds  BY <1>1 DEF InputEnds
<1>2. CASE Start  BY <1>2 DEF Start
<1>3. CASE HeaderField  BY <1>3 DEF HeaderField, Parsing, Calls!Field
<1>4. CASE HeaderValue  BY <1>4 DEF HeaderValue, Parsing, Calls!Value
<1>5. CASE DataBegin  BY <1>5 DEF DataBegin, Parsing, Fail, Calls!Complete
<1>6. CASE DataField  BY <1>6 DEF DataField, Parsing, Calls!Data
<1>7. CASE DataFile  BY <1>7 DEF DataFile, Parsing, Fail, Calls!Data
<1>8. CASE DataEnd  BY <1>8 DEF DataEnd, Parsing, Fail, Calls!End
<1>9. CASE FileEnd  BY <1>9 DEF FileEnd, Parsing, Fail, Calls!End
<1>10. CASE Copy  BY <1>10 DEF Copy, Fail
<1>11. CASE CopyEnd  BY <1>11 DEF CopyEnd
<1>12. CASE Chmod  BY <1>12 DEF Chmod, Fail
<1>13. CASE Md5sum  BY <1>13 DEF Md5sum, Succeed
<1>14. CASE ReadMd5  BY <1>14 DEF ReadMd5, Succeed
<1>15. CASE Drain  BY <1>15 DEF Drain
<1>16. CASE ParsingEnds  BY <1>16 DEF ParsingEnds
<1>17. CASE UNCHANGED vars  BY <1>17 DEF vars
<1> QED
  BY <1>1, <1>2, <1>3, <1>4, <1>5, <1>6, <1>7, <1>8, <1>9, <1>10, <1>11, <1>12,
     <1>13, <1>14, <1>15, <1>16, <1>17 DEF Next, ParserCalls, Program

\* A response is the program's last word: no other follows, and the target
\* and the descriptors are left alone.
THEOREM NothingFollows == Spec => ResponseIsLast
<1>1. Init => Closed  BY DEF Init, Closed, InFile
<1>2. IInv /\ Closed /\ [Next]_vars =>
       [responses # <<>> =>
          /\ tempfd # "open" /\ filefd # "open"
          /\ UNCHANGED <<responses, target, content, tempfd, filefd>>]_vars
  <2> SUFFICES ASSUME IInv, Closed, Next, responses # <<>>
               PROVE  /\ tempfd # "open" /\ filefd # "open"
                      /\ UNCHANGED <<responses, target, content, tempfd, filefd>>
    BY DEF vars, disk
  <2>1. pc \in {"drain", "exited"}  BY DEF IInv, Answer
  <2>2. InputEnds \/ Drain
    BY <2>1 DEF Next, ParserCalls, HeaderField, HeaderValue, DataBegin, DataField, DataFile,
       DataEnd, FileEnd, Parsing, Program, Start, Copy, CopyEnd, Chmod, Md5sum, ReadMd5, ParsingEnds
  <2> QED  BY <2>2 DEF Closed, InputEnds, Drain, disk
<1> QED  BY Inductive, ClosedStep, <1>1, <1>2, PTL DEF Spec, ResponseIsLast
=============================================================================
