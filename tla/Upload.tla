------------------------------- MODULE Upload -------------------------------
(***************************************************************************)
(* cgi-upload (main_upload and its callbacks, src/cgi/cgi-io/src/main.c):  *)
(* the parts of a form come in any order, in pieces; the file's data goes  *)
(* to a temporary file and, when its part ends, to the target, if by then  *)
(* a session with the right to upload and a file name have come.           *)
(*                                                                         *)
(* The parser is represented by the order of its calls, module PartCalls.  *)
(* Data.  Of a short field it matters whether a callback got it whole or   *)
(* only a piece of it.  The n-th piece of the file's data is the number n. *)
(***************************************************************************)
EXTENDS Naturals, Sequences

CONSTANT MaxData      \* bound: pieces of file data

ASSUME UploadAssumption == MaxData \in Nat

VARIABLES called,     \* the parser's last call, see PartCalls
          eof,        \* standard input has ended: read returns nothing more
          pc,         \* where the program is
          is_content_disposition, parttype, sessionid, filename, filedata,
          filemode, tempfd, filefd,     \* struct state
          access,     \* the last answer about a session
          reported,   \* pieces of file data the parser reported
          temp, copied,                 \* the temporary file; how much is copied
          target, content,              \* the target; what was written to it
          read_failed,\* a read of the temporary file failed
          checksum,   \* what md5sum's child puts into its pipe
          responses   \* the responses written to standard output

fields == <<sessionid, filename, filemode>>
disk == <<tempfd, filefd, temp, copied, target, content, read_failed>>
vars == <<called, eof, pc, is_content_disposition, parttype, fields, filedata,
          access, reported, disk, checksum, responses>>

Calls == INSTANCE PartCalls

Parts == <<"sessionid", "filename", "filemode", "filedata">>
PartTypes == {"unknown"} \cup {Parts[k] : k \in 1..4}

Init ==
  /\ Calls!Init /\ eof = FALSE /\ pc = "start"
  /\ is_content_disposition = FALSE /\ parttype = "unknown"
  /\ sessionid = "none" /\ filename = "none" /\ filemode = "none"
  /\ filedata = FALSE /\ access = "none" /\ reported = 0
  /\ tempfd = "none" /\ filefd = "none" /\ temp = <<>> /\ copied = 0
  /\ target = "untouched" /\ content = <<>> /\ read_failed = FALSE
  /\ checksum = "none" /\ responses = <<>>

InputEnds ==
  /\ ~eof /\ eof' = TRUE
  /\ UNCHANGED <<called, pc, is_content_disposition, parttype, fields, filedata,
                 access, reported, disk, checksum, responses>>

---------------------------------------------------------------------------
(* response(false, ...) returns -1: the callback that returns it stops the *)
(* parser.  It removes the target once that was opened; closing leaves     *)
(* st.filefd as it is, and what unlink returns is not looked at.           *)

Fail ==
  /\ responses' = Append(responses, "failure") /\ pc' = "drain"
  /\ target' \in IF filefd' = "none" THEN {target} ELSE {"removed", "left"}

\* Without a CONTENT_TYPE of multipart/form-data and a boundary the program
\* answers and ends at once, its input unread.  (st.filefd is still 0 then,
\* and unlink gets a null pointer, which it rejects.)
Start ==
  /\ pc = "start"
  /\ \/ pc' = "parse" /\ UNCHANGED responses
     \/ pc' = "exited" /\ responses' = <<"failure">>
  /\ UNCHANGED <<called, eof, is_content_disposition, parttype, fields, filedata,
                 access, reported, disk, checksum>>

Parsing == pc = "parse" /\ ~eof

\* A piece of a name counts as Content-Disposition if that begins with it.
HeaderField ==
  /\ Parsing /\ Calls!Field /\ is_content_disposition' \in BOOLEAN
  /\ UNCHANGED <<eof, pc, parttype, fields, filedata, access, reported, disk,
                 checksum, responses>>

\* A form name is compared up to its own length, so it names every part it
\* begins, and the last of them counts: "file" is filedata, and so is "".
Matches == {{}} \cup {{Parts[k]} : k \in 1..4}
           \cup {{Parts[k] : k \in 2..4}, {Parts[k] : k \in 1..4}}
LastOf(S) == Parts[CHOOSE k \in 1..4 : Parts[k] \in S /\ \A j \in k+1..4 : Parts[j] \notin S]

HeaderValue ==
  /\ Parsing /\ Calls!Value
  /\ \E S \in Matches :
       parttype' = IF is_content_disposition /\ S # {} THEN LastOf(S) ELSE parttype
  /\ UNCHANGED <<eof, pc, is_content_disposition, fields, filedata, access, reported,
                 disk, checksum, responses>>

DataBeginUnchecked ==
  /\ Parsing /\ Calls!Complete
  /\ IF parttype # "filedata" THEN UNCHANGED <<pc, tempfd, target, responses>>
     ELSE tempfd' = "open" /\ UNCHANGED <<pc, target, responses>>
  /\ UNCHANGED <<eof, is_content_disposition, parttype, fields, filedata, access, reported,
                 filefd, temp, copied, content, read_failed, checksum>>

\* data_begin_cb.
DataBegin ==
  /\ Parsing /\ Calls!Complete
  /\ \/ parttype # "filedata" /\ UNCHANGED <<pc, tempfd, target, responses>>
     \/ /\ parttype = "filedata" /\ sessionid # "none" /\ filename # "none"
        /\ tempfd' = "open" /\ UNCHANGED <<pc, target, responses>>
     \/ /\ parttype = "filedata"    \* no session, no name, or mkstemp fails
        /\ UNCHANGED <<tempfd, filefd>> /\ Fail
  /\ UNCHANGED <<eof, is_content_disposition, parttype, fields, filedata, access, reported,
                 filefd, temp, copied, content, read_failed, checksum>>

\* data_cb for a short field: the last piece is what stays.  Only a first
\* piece can be the whole, if no empty piece follows it.
DataField ==
  /\ Parsing /\ Calls!Data /\ parttype # "filedata"
  /\ \E p \in IF called = "complete" THEN {"whole", "piece"} ELSE {"piece"} :
       /\ sessionid' = IF parttype = "sessionid" THEN p ELSE sessionid
       /\ filename' = IF parttype = "filename" THEN p ELSE filename
       /\ filemode' = IF parttype = "filemode" THEN p ELSE filemode
  /\ UNCHANGED <<eof, pc, is_content_disposition, parttype, filedata, access, reported,
                 disk, checksum, responses>>

\* data_cb for the file's data.  A piece may be empty; a write may fail, or
\* write less, when nothing of the piece counts as written here.
DataFile ==
  /\ Parsing /\ Calls!Data /\ parttype = "filedata"
  /\ \/ UNCHANGED <<reported, temp, filedata, pc, tempfd, target, responses>>
     \/ /\ reported < MaxData /\ reported' = reported + 1
        /\ \/ /\ temp' = Append(temp, reported + 1) /\ filedata' = TRUE
              /\ UNCHANGED <<pc, tempfd, target, responses>>
           \/ tempfd' = "closed" /\ UNCHANGED <<filefd, temp, filedata>> /\ Fail
  /\ UNCHANGED <<eof, is_content_disposition, parttype, fields, access,
                 filefd, copied, content, read_failed, checksum>>

DataEndGoesOn ==
  /\ Parsing /\ Calls!End /\ parttype # "filedata"
  /\ access' \in IF parttype = "sessionid" THEN {"denied", "granted"} ELSE {access}
  /\ responses' = IF access' = "denied" THEN Append(responses, "failure") ELSE responses
  /\ parttype' = "unknown" /\ UNCHANGED <<pc, target>>
  /\ UNCHANGED <<eof, is_content_disposition, fields, filedata, reported, tempfd,
                 filefd, temp, copied, content, read_failed, checksum>>

\* data_end_cb.  A piece of a session id is none that ubus knows.
DataEnd ==
  /\ Parsing /\ Calls!End /\ parttype # "filedata"
  /\ \/ /\ parttype = "sessionid" /\ access' = "denied"
        /\ UNCHANGED <<filefd, parttype>> /\ Fail
     \/ /\ parttype = "sessionid" => sessionid = "whole"
        /\ access' = IF parttype = "sessionid" THEN "granted" ELSE access
        /\ parttype' = "unknown" /\ UNCHANGED <<pc, target, responses>>
  /\ UNCHANGED <<eof, is_content_disposition, fields, filedata, reported, tempfd,
                 filefd, temp, copied, content, read_failed, checksum>>

FileEndNoRewind ==
  /\ Parsing /\ Calls!End /\ parttype = "filedata"
  /\ \/ /\ filedata /\ pc' = "copy" /\ filefd' = "open" /\ target' = "written"
        /\ copied' = Len(temp) /\ UNCHANGED <<tempfd, responses>>
     \/ tempfd' = "closed" /\ UNCHANGED <<filefd, copied>> /\ Fail
  /\ UNCHANGED <<eof, is_content_disposition, parttype, fields, filedata, access, reported,
                 temp, content, read_failed, checksum>>

\* The end of the file's part: filecopy() up to the open of the target.
FileEnd ==
  /\ Parsing /\ Calls!End /\ parttype = "filedata"
  /\ \/ /\ filedata /\ pc' = "copy" /\ filefd' = "open" /\ target' = "written"
        /\ UNCHANGED <<tempfd, responses>>
     \/ tempfd' = "closed" /\ UNCHANGED filefd /\ Fail   \* no data; lseek, open fail
  /\ UNCHANGED <<eof, is_content_disposition, parttype, fields, filedata, access, reported,
                 temp, copied, content, read_failed, checksum>>

Copy ==
  /\ pc = "copy" /\ copied < Len(temp) /\ copied' = copied + 1
  /\ \/ /\ content' = Append(content, temp[copied + 1])
        /\ UNCHANGED <<pc, tempfd, filefd, target, responses>>
     \/ /\ tempfd' = "closed" /\ filefd' = "closed" /\ UNCHANGED content /\ Fail
  /\ UNCHANGED <<called, eof, is_content_disposition, parttype, fields, filedata, access,
                 reported, temp, read_failed, checksum>>

CopyEndRetries ==
  /\ pc = "copy"
  /\ \/ /\ copied = Len(temp) /\ pc' = "chmod" /\ tempfd' = "closed" /\ filefd' = "closed"
        /\ UNCHANGED read_failed
     \/ read_failed' = ~read_failed /\ UNCHANGED <<pc, tempfd, filefd>>
  /\ UNCHANGED <<called, eof, is_content_disposition, parttype, fields, filedata, access,
                 reported, temp, copied, target, content, checksum, responses>>

\* A read that fails ends the copy like the end of the file does.
CopyEnd ==
  /\ pc = "copy" /\ pc' = "chmod"
  /\ \/ copied = Len(temp) /\ UNCHANGED read_failed
     \/ read_failed' = TRUE
  /\ tempfd' = "closed" /\ filefd' = "closed"
  /\ UNCHANGED <<called, eof, is_content_disposition, parttype, fields, filedata, access,
                 reported, temp, copied, target, content, checksum, responses>>

ChmodForgetsTarget ==
  /\ pc = "chmod"
  /\ \/ pc' = "md5sum" /\ UNCHANGED responses
     \/ responses' = Append(responses, "failure") /\ pc' = "drain"
  /\ UNCHANGED <<called, eof, is_content_disposition, parttype, fields, filedata, access,
                 reported, disk, checksum>>

Chmod ==
  /\ pc = "chmod"
  /\ \/ pc' = "md5sum" /\ UNCHANGED <<target, responses>>
     \/ UNCHANGED filefd /\ Fail
  /\ UNCHANGED <<called, eof, is_content_disposition, parttype, fields, filedata, access,
                 reported, tempfd, filefd, temp, copied, content, read_failed, checksum>>

Succeed == responses' = Append(responses, "success") /\ pc' = "drain"

\* response(true, NULL).  Without stat, pipe or fork there is no checksum.
\* md5sum's child writes it; or, having failed to open the file, nothing; or,
\* when execl fails, it returns into the program and what it writes when it
\* exits is its copy of the response so far, the end added.
Md5sum ==
  /\ pc = "md5sum"
  /\ \/ Succeed /\ UNCHANGED checksum
     \/ pc' = "read_md5" /\ checksum' \in {"right", "response", "nothing"} /\ UNCHANGED responses
  /\ UNCHANGED <<called, eof, is_content_disposition, parttype, fields, filedata, access,
                 reported, disk>>

\* The parent has the pipe's writing end open itself: when the child wrote
\* nothing its read does not return.
ReadMd5 ==
  /\ pc = "read_md5" /\ checksum # "nothing" /\ Succeed
  /\ UNCHANGED <<called, eof, is_content_disposition, parttype, fields, filedata, access,
                 reported, disk, checksum>>

\* The parser rejects a byte, or the input is at its end.
ParsingEnds ==
  /\ pc = "parse" /\ pc' = "drain"
  /\ UNCHANGED <<called, eof, is_content_disposition, parttype, fields, filedata, access,
                 reported, disk, checksum, responses>>

\* What is left of the input is read; exiting closes the descriptors.
Drain ==
  /\ pc = "drain" /\ eof /\ pc' = "exited"
  /\ UNCHANGED <<called, eof, is_content_disposition, parttype, fields, filedata, access,
                 reported, disk, checksum, responses>>

ParserCalls ==
  HeaderField \/ HeaderValue \/ DataBegin \/ DataField \/ DataFile \/ DataEnd \/ FileEnd

\* The program's own steps, those the input's bytes do not decide.
Program ==
  \/ Start \/ Copy \/ CopyEnd \/ Chmod \/ Md5sum \/ ReadMd5 \/ Drain
  \/ eof /\ ParsingEnds

Next == InputEnds \/ ParserCalls \/ Program \/ ParsingEnds
Spec == Init /\ [][Next]_vars

\* The kernel schedules the process; nobody has to send it anything.
FairSpec == Spec /\ WF_vars(Program)

---------------------------------------------------------------------------
ControlType ==
  /\ called \in Calls!CallNames /\ parttype \in PartTypes
  /\ pc \in {"start", "parse", "copy", "chmod", "md5sum", "read_md5", "drain", "exited"}
  /\ sessionid \in {"none", "whole", "piece"} /\ filename \in {"none", "whole", "piece"}
  /\ filemode \in {"none", "whole", "piece"}
  /\ access \in {"none", "granted", "denied"}
  /\ tempfd \in {"none", "open", "closed"} /\ filefd \in {"none", "open", "closed"}
  /\ target \in {"untouched", "written", "removed", "left"}
  /\ checksum \in {"none", "right", "response", "nothing"}

FlagType ==
  /\ eof \in BOOLEAN /\ is_content_disposition \in BOOLEAN
  /\ filedata \in BOOLEAN /\ read_failed \in BOOLEAN

DataType ==
  /\ reported \in 0..MaxData /\ temp \in Seq(1..MaxData) /\ Len(temp) <= reported
  /\ copied \in 0..Len(temp) /\ content \in Seq(1..MaxData) /\ Len(content) <= copied
  /\ responses \in Seq({"success", "failure"})

\* Every variable keeps its type; never is more copied than was received.
TypeOK == ControlType /\ FlagType /\ DataType

\* In whatever order the parts come, the target is not touched unless the
\* session given with this upload has the right to.
TargetNeedsSession == target # "untouched" => access = "granted"

\* The first n pieces of the file's data.
Pieces(n) == [k \in 1..n |-> k]

\* After "success" the target holds all of the file's data, in order.  The
\* one exception is a failed read of the temporary file, after which it holds
\* the data up to there.
SuccessMeansWhole ==
  "success" \in {responses[k] : k \in 1..Len(responses)} =>
    /\ target = "written" /\ content = Pieces(copied)
    /\ reported > 0 /\ (copied = reported \/ read_failed)

\* After "failure" no target is left behind, unless unlink failed.
FailureRemoves ==
  "failure" \in {responses[k] : k \in 1..Len(responses)} => target # "written"

\* Nothing follows a response: no second one, no change to the target, and
\* the descriptors are closed.
ResponseIsLast ==
  [][responses # <<>> =>
       /\ tempfd # "open" /\ filefd # "open"
       /\ UNCHANGED <<responses, target, content, tempfd, filefd>>]_vars

\* Once its input has ended the program does, unless md5sum said nothing.
Ends == eof ~> (pc = "exited" \/ (pc = "read_md5" /\ checksum = "nothing"))
=============================================================================
