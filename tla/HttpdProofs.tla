---------------------------- MODULE HttpdProofs ----------------------------
(***************************************************************************)
(* For any number of clients, files, descriptors and threads: the server   *)
(* gives its descriptors back, sends files whole, cuts no answer, and, in  *)
(* one thread, leaves no answer without its end.  It keeps for every       *)
(* client of a CGI script the promise of CgiReply, whatever else it does,  *)
(* until it ends.  With descriptors enough (in one thread for the          *)
(* listener, a connection and a file; with threads for what the others     *)
(* that are handled can hold), every answer fits its request, and only the *)
(* known events end the server, whatever failed CGI calls have leaked.     *)
(***************************************************************************)
EXTENDS Httpd, FiniteSetTheorems, SequenceTheorems, TLAPS

---------------------------------------------------------------------------
(* Types.                                                                  *)

ClientType ==
  /\ req \in [Clients -> Requests] /\ fs \in [Targets -> Files \cup {Gone}]
  /\ peer \in [Clients -> {"none", "open", "shut", "reset"}]
  /\ sent \in [Clients -> 0..3] /\ read \in [Clients -> 0..3]
QueueType == queue \in Seq(Clients) /\ Len(queue) <= Backlog
ControlType ==
  /\ server \in {"running", "exited", "crashed", "killed"}
  /\ pc \in [Clients -> HandlerSteps] /\ cgi \in [Clients -> BOOLEAN]
  /\ threads \in 0..ThreadLimit
FdsType == fds \subseteq Descriptors /\ IsFiniteSet(fds) /\ HasFd(0)
StatusType == [Clients -> Seq({200, 400, 404, 500, 501})]
DataType ==
  /\ status \in StatusType
  /\ body \in [Clients -> Nat] /\ out \in [Clients -> Nat]
  /\ file \in [Clients -> Files \cup {Gone}]
ChildType ==
  /\ script \in [Clients -> {"none", "running", "ended"}]
  /\ copies \in [Clients -> SUBSET Descriptors]

Types == ClientType /\ QueueType /\ ControlType /\ FdsType /\ DataType /\ ChildType

\* The parts together are TypeOK.
LEMMA TypesAreTypeOK == Types => TypeOK
BY DEF Types, TypeOK, ClientType, QueueType, ControlType, FdsType, DataType, ChildType, StatusType

\* The types hold when the server starts.
LEMMA InitTypes == Init => Types
<1> SUFFICES ASSUME Init PROVE Types
  OBVIOUS
<1> USE HttpdAssumption DEF Init
<1>1. ClientType  BY DEF ClientType
<1>2. QueueType  BY DEF QueueType
<1>3. ControlType  BY DEF ControlType, HandlerSteps
<1>4. FdsType
  <2>1. IsFiniteSet({Listening}) /\ Cardinality({Listening}) = 1  BY FS_Singleton
  <2>2. Listening \in Descriptors  BY DEF Descriptors
  <2> QED  BY <2>1, <2>2 DEF FdsType, HasFd
<1>5. DataType  BY DEF DataType, StatusType
<1>6. ChildType  BY DEF ChildType
<1> QED  BY <1>1, <1>2, <1>3, <1>4, <1>5, <1>6 DEF Types

---------------------------------------------------------------------------
(* How the descriptors change.                                             *)

\* Closing descriptors keeps the limit.
LEMMA FdsShrink ==
  ASSUME FdsType, NEW S, S \subseteq fds
  PROVE  S \subseteq Descriptors /\ IsFiniteSet(S) /\ Cardinality(S) + 0 <= FdLimit
<1>1. IsFiniteSet(S) /\ Cardinality(S) <= Cardinality(fds)  BY FS_Subset DEF FdsType
<1>2. Cardinality(S) \in Nat /\ Cardinality(fds) \in Nat  BY <1>1, FS_CardinalityType DEF FdsType
<1> QED  BY <1>1, <1>2, HttpdAssumption DEF FdsType, HasFd

\* One more is opened when there is room for one.
LEMMA FdsGrow ==
  ASSUME FdsType, HasFd(1), NEW x \in Descriptors
  PROVE  /\ fds \cup {x} \subseteq Descriptors /\ IsFiniteSet(fds \cup {x})
         /\ Cardinality(fds \cup {x}) + 0 <= FdLimit
<1>1. Cardinality(fds) \in Nat  BY FS_CardinalityType DEF FdsType
<1>2. IsFiniteSet(fds \cup {x}) /\ Cardinality(fds \cup {x}) <= Cardinality(fds) + 1
  <2>1. /\ IsFiniteSet(fds \cup {x})
        /\ Cardinality(fds \cup {x}) = IF x \in fds THEN Cardinality(fds) ELSE Cardinality(fds) + 1
    BY FS_AddElement DEF FdsType
  <2> QED  BY <1>1, <2>1
<1>3. Cardinality(fds \cup {x}) \in Nat  BY <1>2, FS_CardinalityType
<1> QED  BY <1>1, <1>2, <1>3, HttpdAssumption DEF FdsType, HasFd

\* A pipe's two when there is room for two.
LEMMA FdsGrowByPipe ==
  ASSUME FdsType, HasFd(2), NEW x \in Descriptors, NEW y \in Descriptors
  PROVE  /\ fds \cup {x, y} \subseteq Descriptors /\ IsFiniteSet(fds \cup {x, y})
         /\ Cardinality(fds \cup {x, y}) + 0 <= FdLimit
<1>1. Cardinality(fds) \in Nat  BY FS_CardinalityType DEF FdsType
<1>2. /\ IsFiniteSet(fds \cup {x})
      /\ Cardinality(fds \cup {x}) = IF x \in fds THEN Cardinality(fds) ELSE Cardinality(fds) + 1
  BY FS_AddElement DEF FdsType
<1>3. Cardinality(fds \cup {x}) \in Nat  BY <1>2, FS_CardinalityType
<1>4. (fds \cup {x}) \cup {y} = fds \cup {x, y}  OBVIOUS
<1>5. /\ IsFiniteSet(fds \cup {x, y})
      /\ Cardinality(fds \cup {x, y}) = IF y \in fds \cup {x} THEN Cardinality(fds \cup {x})
                                        ELSE Cardinality(fds \cup {x}) + 1
  BY <1>2, <1>4, FS_AddElement
<1>6. Cardinality(fds \cup {x, y}) \in Nat  BY <1>5, FS_CardinalityType
<1>7. Cardinality(fds \cup {x, y}) <= Cardinality(fds) + 2  BY <1>1, <1>2, <1>3, <1>5
<1> QED  BY <1>1, <1>5, <1>6, <1>7, HttpdAssumption DEF FdsType, HasFd

\* Every connection's descriptors are descriptors.
LEMMA OwnDescriptors ==
  ASSUME NEW d \in Clients
  PROVE  Socket(d) \in Descriptors /\ Stream(d) \in Descriptors /\ AllPipeEnds(d) \subseteq Descriptors
BY DEF Descriptors
---------------------------------------------------------------------------
(* The invariant: what is so of each connection, given its handler's place. *)

CgiSteps ==
  {"cgi_headers", "send_400", "cgi_200", "pipe_out", "pipe_in", "fork", "send_500",
   "close_unused", "feed", "relay"}
Fresh ==
  {"none", "orphan", "line", "send_501", "stat", "headers", "headers_404", "send_404",
   "fopen", "send_404_null", "fclose_null", "send_200"}
Unanswered == (Fresh \ {"fclose_null"}) \cup {"cgi_headers", "send_400", "cgi_200"}

\* The answers, as names that hide the tuples they are from the provers.
One(code) == <<code>>
Both == <<200, 500>>
Final == {One(501), One(400), One(404), One(200), Both}

\* A script runs only while its handler is feeding or relaying.
CgiPlaces(d) ==
  /\ pc[d] \in CgiSteps => cgi[d]
  /\ cgi[d] => pc[d] \in CgiSteps \cup {"close", "done"}
  /\ script[d] # "none" => pc[d] \in {"close_unused", "feed", "relay", "close", "done"}
  /\ script[d] = "running" => pc[d] \in {"close_unused", "feed", "relay"}
  /\ copies[d] # {} => script[d] = "running"

\* Where each of its descriptors may be open.
Owned(d) ==
  /\ Socket(d) \in fds => pc[d] \notin {"none", "done"}
  /\ Stream(d) \in fds => pc[d] \in {"send_200", "cat", "fclose"}
  /\ \A fd \in AllPipeEnds(d) : fd \in fds =>
       \/ pc[d] \in {"pipe_in", "fork", "close_unused"}
       \/ pc[d] \in {"feed", "relay"} /\ fd \in PipeEnds(d)
       \/ pc[d] \in {"send_500", "close", "done"} /\ LeftPipes(d)

\* How far the file has come, and which status was sent, unless that was to a
\* connection already reset.
Progress(d) ==
  /\ pc[d] \in Fresh => out[d] = 0
  /\ pc[d] = "cat" => out[d] <= file[d].size
Content(d) ==
  peer[d] # "reset" =>
    /\ pc[d] \in Unanswered => status[d] = <<>>
    /\ pc[d] \in Fresh => body[d] = 0
    /\ pc[d] = "fclose_null" => status[d] = One(404)
    /\ pc[d] \in {"cat", "fclose"} => status[d] = One(200)
    /\ pc[d] = "cat" => body[d] = out[d]
    /\ pc[d] = "fclose" => body[d] = file[d].size
    /\ pc[d] \in {"pipe_out", "pipe_in", "fork", "send_500", "close_unused", "feed", "relay"} =>
         status[d] = One(200)
    /\ pc[d] \in {"close", "done"} =>
         /\ status[d] \in Final
         /\ status[d] = One(200) /\ ~cgi[d] => body[d] = file[d].size

\* Nothing of the request is unread or still to come.
Spoken(d) == Whole(d) <= read[d] \/ (peer[d] = "shut" /\ sent[d] <= read[d])

\* How far the request has been read.
Unread(d) ==
  /\ sent[d] <= Whole(d)
  /\ peer[d] # "reset" =>
       /\ pc[d] \in {"headers", "fopen", "send_404_null", "fclose_null", "send_200", "cat",
                     "fclose"} => ~Feeds(d)
       /\ pc[d] \in {"fopen", "send_404_null", "fclose_null", "send_200", "cat", "fclose",
                     "send_400", "relay"} => Spoken(d)
       /\ pc[d] \in {"send_404", "cgi_200", "pipe_out", "pipe_in", "fork", "send_500",
                     "close_unused", "feed"} => Spoken(d) \/ Feeds(d)
       /\ pc[d] \in {"close", "done"} =>
            \/ Spoken(d) \/ status[d] = One(501)
            \/ Feeds(d) /\ (status[d] = One(404) \/ status[d] = Both)

Local(d) == CgiPlaces(d) /\ Owned(d) /\ Progress(d) /\ Content(d) /\ Unread(d)

\* Each connection is in the queue once, before its handler starts.
Queued ==
  /\ \A d \in Clients : peer[d] = "none" =>
       pc[d] = "none" /\ \A k \in 1..Len(queue) : queue[k] # d
  /\ \A k \in 1..Len(queue) : pc[queue[k]] = "none"
  /\ \A k, l \in 1..Len(queue) : queue[k] = queue[l] => k = l

\* One thread handles one connection, so its script inherits no other.
Single ==
  ~MultiThread =>
    /\ \A d, e \in Clients : Handled(d) /\ Handled(e) => d = e
    /\ \A d \in Clients : pc[d] # "orphan"
    /\ \A d, e \in Clients : Socket(d) \in copies[e] => d = e

IInv == Types /\ Queued /\ Single /\ \A d \in Clients : Local(d)

\* The invariant holds when the server starts.
LEMMA InitIInv == Init => IInv
<1> SUFFICES ASSUME Init PROVE IInv
  OBVIOUS
<1>1. Types  BY InitTypes
<1>2. Queued  BY DEF Init, Queued
<1>3. Single  BY DEF Init, Single, Handled
<1>4. ASSUME NEW d \in Clients PROVE Local(d)
  <2> USE DEF Init
  <2>1. CgiPlaces(d)  BY DEF CgiPlaces, CgiSteps
  <2>2. Owned(d)
    <3>1. fds = {<<"listen", 0>>}  BY DEF Listening
    <3> QED  BY <3>1 DEF Owned, Socket, Stream, AllPipeEnds, PipeEnds, ScriptEnds
  <2>3. Progress(d) /\ Content(d)  BY DEF Progress, Content, Fresh, Unanswered
  <2>4. Unread(d)  BY DEF Unread, Whole
  <2> QED  BY <2>1, <2>2, <2>3, <2>4 DEF Local
<1> QED  BY <1>1, <1>2, <1>3, <1>4 DEF IInv

\* A connection's descriptors are of different kinds.
LEMMA OwnKinds ==
  ASSUME NEW d
  PROVE  /\ Socket(d) # Stream(d) /\ Socket(d) \notin AllPipeEnds(d) /\ Stream(d) \notin AllPipeEnds(d)
         /\ AllPipeEnds(d) = PipeEnds(d) \cup ScriptEnds(d) /\ PipeEnds(d) \cap ScriptEnds(d) = {}
         /\ {<<"out_r", d>>, <<"out_w", d>>} \subseteq AllPipeEnds(d)
         /\ {<<"in_r", d>>, <<"in_w", d>>} \subseteq AllPipeEnds(d)
BY DEF Socket, Stream, AllPipeEnds, PipeEnds, ScriptEnds

\* The answers a client may get, and how they grow.
LEMMA SecondAnswer == Append(<<200>>, 500) = <<200, 500>>
<1> DEFINE s == Append(<<200>>, 500)
           t == <<200, 500>>
<1>1. <<200>> \in Seq({200, 500}) /\ Len(<<200>>) = 1 /\ <<200>>[1] = 200  OBVIOUS
<1>2. t \in Seq({200, 500}) /\ Len(t) = 2 /\ t[1] = 200 /\ t[2] = 500  OBVIOUS
<1>3. s \in Seq({200, 500}) /\ Len(s) = 2 /\ s[1] = 200 /\ s[2] = 500
  BY <1>1, AppendProperties
<1> HIDE DEF s, t
<1>4. Len(s) = Len(t) /\ \A i \in 1..Len(s) : s[i] = t[i]  BY <1>2, <1>3
<1>5. s = t  BY <1>2, <1>3, <1>4, SeqEqual
<1> QED  BY <1>5 DEF s, t

\* So the 500 that follows a 200 makes both.
LEMMA GrownAnswer == \A s : s = One(200) => Append(s, 500) = Both
BY SecondAnswer DEF One, Both

\* No two of the answers are the same.
LEMMA AnswersDiffer ==
  /\ \A c : One(c) # <<>> /\ One(c) # Both
  /\ \A b, c : One(b) = One(c) => b = c
<1>1. \A c : One(c) # <<>> /\ One(c) # Both
  <2> SUFFICES ASSUME NEW c PROVE One(c) # <<>> /\ One(c) # Both
    OBVIOUS
  <2>1. Len(One(c)) = 1 /\ Len(<<>>) = 0 /\ Len(Both) = 2  BY DEF One, Both
  <2> QED  BY <2>1
<1>2. \A b, c : One(b) = One(c) => b = c
  <2> SUFFICES ASSUME NEW b, NEW c, One(b) = One(c) PROVE b = c
    OBVIOUS
  <2>1. One(b)[1] = b /\ One(c)[1] = c  BY DEF One
  <2> QED  BY <2>1
<1> QED  BY <1>1, <1>2

\* The answers a handler may end with.
LEMMA FinalAnswers ==
  One(501) \in Final /\ One(400) \in Final /\ One(404) \in Final /\ One(200) \in Final /\ Both \in Final
BY DEF Final

\* A file's size is a number.
LEMMA FileSize == \A f \in Files \cup {Gone} : f.size \in Nat
BY HttpdAssumption DEF File, Gone

\* Headers that were not there when the handler looked do not come later.
LEMMA MissedHeaders ==
  ASSUME ClientType, NEW d \in Clients, Missing(d, 2), peer[d] # "reset"
  PROVE  peer[d] = "shut" /\ sent[d] <= 2
BY DEF ClientType, Missing, Got

---------------------------------------------------------------------------
(* A handler's step leaves the other connections alone.                    *)

Own(d) == {Socket(d), Stream(d)} \cup AllPipeEnds(d)

Same(e) ==
  /\ pc'[e] = pc[e] /\ read'[e] = read[e] /\ cgi'[e] = cgi[e]
  /\ status'[e] = status[e] /\ body'[e] = body[e] /\ file'[e] = file[e] /\ out'[e] = out[e]
  /\ script'[e] = script[e] /\ copies'[e] = copies[e]

Moves(d) ==
  /\ UNCHANGED client
  /\ pc[d] \notin {"none", "orphan", "done"} /\ pc'[d] \notin {"none", "orphan"}
  /\ fds' \subseteq fds \cup (Own(d) \ {Socket(d)})
  /\ \A e \in Clients \ {d} : Same(e)

\* What every step of a handler has in common.
LEMMA HandlerMoves == ASSUME Types, NEW d \in Clients, Handler(d) PROVE Moves(d)
<1>0. ControlType /\ ClientType /\ DataType /\ ChildType  BY DEF Types
<1> USE DEF ControlType, ClientType, DataType, StatusType, ChildType, Moves, Same, At,
           client, process, handler, answer, source, child
<1>1. CASE GetRequestLine(d)  BY <1>0, <1>1 DEF GetRequestLine, ReadTo
<1>2. CASE Unimplemented(d)  BY <1>0, <1>2 DEF Unimplemented, Answer, Goto, Die
<1>3. CASE Stat(d)  BY <1>0, <1>3 DEF Stat, Goto
<1>4. CASE DiscardHeaders(d)  BY <1>0, <1>4 DEF DiscardHeaders, ReadTo
<1>5. CASE NotFound(d)  BY <1>0, <1>5 DEF NotFound, Answer, Goto, Die
<1>6. CASE Fopen(d)
  <2>1. {Stream(d)} \subseteq Own(d) \ {Socket(d)}  BY OwnKinds DEF Own
  <2>2. fds' \subseteq fds \cup (Own(d) \ {Socket(d)})  BY <2>1, <1>6 DEF Fopen, Goto
  <2> QED  BY <1>0, <2>2, <1>6 DEF Fopen, Goto
<1>7. CASE NotOpened(d)  BY <1>0, <1>7 DEF NotOpened, Answer, Goto, Die
<1>8. CASE FcloseNull(d)  BY <1>0, <1>8 DEF FcloseNull, Goto, Die
<1>9. CASE FileFound(d)  BY <1>0, <1>9 DEF FileFound, Answer, Goto, Die
<1>10. CASE Cat(d)  BY <1>0, <1>10 DEF Cat, Goto, Die
<1>11. CASE Fclose(d)  BY <1>0, <1>11 DEF Fclose, Goto
<1>12. CASE ReadCgiHeaders(d)  BY <1>0, <1>12 DEF ReadCgiHeaders, ReadTo
<1>13. CASE BadRequest(d)  BY <1>0, <1>13 DEF BadRequest, Answer, Goto, Die
<1>14. CASE CgiOk(d)  BY <1>0, <1>14 DEF CgiOk, Answer, Goto, Die
<1>15. CASE PipeOut(d)
  <2>1. {<<"out_r", d>>, <<"out_w", d>>} \subseteq Own(d) \ {Socket(d)}  BY OwnKinds DEF Own
  <2>2. fds' \subseteq fds \cup (Own(d) \ {Socket(d)})  BY <2>1, <1>15 DEF PipeOut, Pipe, Goto
  <2> QED  BY <1>0, <2>2, <1>15 DEF PipeOut, Pipe, Goto
<1>16. CASE PipeIn(d)
  <2>1. {<<"in_r", d>>, <<"in_w", d>>} \subseteq Own(d) \ {Socket(d)}  BY OwnKinds DEF Own
  <2>2. fds' \subseteq fds \cup (Own(d) \ {Socket(d)})  BY <2>1, <1>16 DEF PipeIn, Pipe, Goto
  <2> QED  BY <1>0, <2>2, <1>16 DEF PipeIn, Pipe, Goto
<1>17. CASE Fork(d)  BY <1>0, <1>17 DEF Fork, Goto
<1>18. CASE CannotExecute(d)  BY <1>0, <1>18 DEF CannotExecute, Answer, Goto, Die
<1>19. CASE CloseUnused(d)  BY <1>0, <1>19 DEF CloseUnused, Goto
<1>20. CASE Feed(d)  BY <1>0, <1>20 DEF Feed, ReadTo
<1>21. CASE FeedKilled(d)  BY <1>0, <1>21 DEF FeedKilled, Die
<1>22. CASE Relay(d)  BY <1>0, <1>22 DEF Relay, Die
<1>23. CASE CgiDone(d)  BY <1>0, <1>23 DEF CgiDone, Goto
<1>24. CASE Close(d)  BY <1>0, <1>24 DEF Close, Goto
<1> QED
  BY <1>1, <1>2, <1>3, <1>4, <1>5, <1>6, <1>7, <1>8, <1>9, <1>10, <1>11, <1>12,
     <1>13, <1>14, <1>15, <1>16, <1>17, <1>18, <1>19, <1>20, <1>21, <1>22, <1>23, <1>24 DEF Handler

\* Two connections have no descriptor in common.
LEMMA OwnDistinct == \A d, e \in Clients : d # e => Own(d) \cap Own(e) = {}
BY DEF Own, Socket, Stream, AllPipeEnds, PipeEnds, ScriptEnds

\* A connection whose handler does not move keeps its part of the invariant.
LEMMA SameLocal ==
  ASSUME NEW e \in Clients, Local(e), Same(e), req'[e] = req[e],
         sent'[e] <= Whole(e), Spoken(e) /\ peer'[e] # "reset" => Spoken(e)',
         peer'[e] # "reset" => peer[e] # "reset",
         \A fd \in Own(e) : fd \in fds' => fd \in fds
  PROVE  Local(e)'
<1> USE DEF Same
<1>1. CgiPlaces(e)'  BY DEF Local, CgiPlaces
<1>2. Owned(e)'  BY DEF Local, Owned, Own, LeftPipes
<1>3. Progress(e)' /\ Content(e)'  BY DEF Local, Progress, Content
<1>4. Whole(e)' = Whole(e) /\ Feeds(e)' = Feeds(e)  BY DEF Whole, Feeds
<1>5. Unread(e)'  BY <1>4 DEF Local, Unread
<1> QED  BY <1>1, <1>2, <1>3, <1>5 DEF Local

---------------------------------------------------------------------------
(* A handler's step keeps its own connection's part of the invariant.      *)

\* An answer that is a client's first goes out, or is lost with its connection.
FirstSent(d, from, code, to) ==
  /\ pc[d] = from /\ UNCHANGED <<req, peer, sent, read, cgi, body, out, file, script>>
  /\ \/ UNCHANGED <<pc, status>>
     \/ pc'[d] = to /\ (peer[d] # "reset" => status'[d] = One(code))

\* Sending to a client that got nothing yet sends it its first answer.
LEMMA SendsFirst ==
  ASSUME ControlType, DataType, NEW d \in Clients, NEW from, NEW code, NEW to,
         Answer(d, from, code, to), peer[d] # "reset" => status[d] = <<>>
  PROVE  FirstSent(d, from, code, to)
<1>1. /\ pc[d] = from /\ UNCHANGED <<req, peer, sent, read, cgi, body, out, file, script>>
      /\ \/ UNCHANGED <<pc, status>>
         \/ /\ pc' = [pc EXCEPT ![d] = to]
            /\ status' = IF peer[d] = "reset" THEN status
                         ELSE [status EXCEPT ![d] = Append(status[d], code)]
  BY DEF Answer, At, Goto, Die, client, handler, source, child
<1>2. ASSUME peer[d] # "reset", status' = [status EXCEPT ![d] = Append(status[d], code)]
      PROVE  status'[d] = One(code)
  <2>1. status'[d] = Append(<<>>, code)  BY <1>2 DEF DataType, StatusType
  <2> QED  BY <2>1 DEF One
<1>3. pc' = [pc EXCEPT ![d] = to] => pc'[d] = to  BY DEF ControlType
<1> QED  BY <1>1, <1>2, <1>3 DEF FirstSent

\* The answers that are first ones.
AnswersFirst(d) ==
  /\ Unimplemented(d) => FirstSent(d, "send_501", 501, "close")
  /\ NotFound(d) => FirstSent(d, "send_404", 404, "close")
  /\ NotOpened(d) => FirstSent(d, "send_404_null", 404, "fclose_null")
  /\ FileFound(d) => FirstSent(d, "send_200", 200, "cat")
  /\ BadRequest(d) => FirstSent(d, "send_400", 400, "close")
  /\ CgiOk(d) => FirstSent(d, "cgi_200", 200, "pipe_out")

\* Before these places no answer was sent.
LEMMA Answers ==
  ASSUME ControlType, DataType, NEW d \in Clients, Content(d)
  PROVE  AnswersFirst(d)
<1>1. pc[d] \in Unanswered /\ peer[d] # "reset" => status[d] = <<>>  BY DEF Content
<1>2. ASSUME NEW from \in Unanswered, NEW code, NEW to, Answer(d, from, code, to)
      PROVE  FirstSent(d, from, code, to)
  <2>1. pc[d] = from  BY <1>2 DEF Answer, At
  <2> QED  BY <1>1, <1>2, <2>1, SendsFirst
<1>3. {"send_501", "send_404", "send_404_null", "send_200", "send_400", "cgi_200"} \subseteq Unanswered
  BY DEF Unanswered, Fresh
<1> QED
  BY <1>2, <1>3 DEF AnswersFirst, Unimplemented, NotFound, NotOpened, FileFound, BadRequest, CgiOk

\* The 500 follows the 200.
LEMMA SendsSecond ==
  ASSUME ControlType, DataType, NEW d \in Clients, Content(d), CannotExecute(d)
  PROVE  /\ pc[d] = "send_500" /\ UNCHANGED <<req, peer, sent, read, cgi, body, file>>
         /\ \/ UNCHANGED <<pc, status>>
            \/ pc'[d] = "close" /\ (peer[d] # "reset" => status'[d] = Both)
<1>1. /\ pc[d] = "send_500" /\ UNCHANGED <<req, peer, sent, read, cgi, body, file>>
      /\ \/ UNCHANGED <<pc, status>>
         \/ /\ pc' = [pc EXCEPT ![d] = "close"]
            /\ status' = IF peer[d] = "reset" THEN status
                         ELSE [status EXCEPT ![d] = Append(status[d], 500)]
  BY DEF CannotExecute, Answer, At, Goto, Die, client, handler, source
<1>2. peer[d] # "reset" => status[d] = One(200)  BY <1>1 DEF Content
<1>3. ASSUME peer[d] # "reset", status' = [status EXCEPT ![d] = Append(status[d], 500)]
      PROVE  status'[d] = Both
  <2>1. status'[d] = Append(status[d], 500)  BY <1>3 DEF DataType, StatusType
  <2> QED  BY <1>2, <1>3, <2>1, GrownAnswer
<1>4. pc' = [pc EXCEPT ![d] = "close"] => pc'[d] = "close"  BY DEF ControlType
<1> QED  BY <1>1, <1>3, <1>4

\* The script's place.
LEMMA CgiPlacesStep ==
  ASSUME NEW d \in Clients, ControlType, DataType, ChildType, CgiPlaces(d), Handler(d)
  PROVE  CgiPlaces(d)'
<1> USE DEF ControlType, ChildType, CgiPlaces, CgiSteps, At,
           client, process, handler, answer, source, child
<1>1. CASE GetRequestLine(d)  BY <1>1 DEF GetRequestLine, ReadTo
<1>2. CASE Unimplemented(d)  BY <1>2 DEF Unimplemented, Answer, Goto, Die
<1>3. CASE Stat(d)  BY <1>3 DEF Stat, Goto, IsCgi
<1>4. CASE DiscardHeaders(d)  BY <1>4 DEF DiscardHeaders, ReadTo
<1>5. CASE NotFound(d)  BY <1>5 DEF NotFound, Answer, Goto, Die
<1>6. CASE Fopen(d)  BY <1>6 DEF Fopen, Goto
<1>7. CASE NotOpened(d)  BY <1>7 DEF NotOpened, Answer, Goto, Die
<1>8. CASE FcloseNull(d)  BY <1>8 DEF FcloseNull, Goto, Die
<1>9. CASE FileFound(d)  BY <1>9 DEF FileFound, Answer, Goto, Die
<1>10. CASE Cat(d)  BY <1>10 DEF Cat, Goto, Die
<1>11. CASE Fclose(d)  BY <1>11 DEF Fclose, Goto
<1>12. CASE ReadCgiHeaders(d)  BY <1>12 DEF ReadCgiHeaders, ReadTo
<1>13. CASE BadRequest(d)  BY <1>13 DEF BadRequest, Answer, Goto, Die
<1>14. CASE CgiOk(d)  BY <1>14 DEF CgiOk, Answer, Goto, Die
<1>15. CASE PipeOut(d)  BY <1>15 DEF PipeOut, Pipe, Goto
<1>16. CASE PipeIn(d)  BY <1>16 DEF PipeIn, Pipe, Goto
<1>17. CASE Fork(d)  BY <1>17 DEF Fork, Goto
<1>18. CASE CannotExecute(d)  BY <1>18 DEF CannotExecute, Answer, Goto, Die
<1>19. CASE CloseUnused(d)  BY <1>19 DEF CloseUnused, Goto
<1>20. CASE Feed(d)  BY <1>20 DEF Feed, ReadTo
<1>21. CASE FeedKilled(d)  BY <1>21 DEF FeedKilled, Die
<1>22. CASE Relay(d)  BY <1>22 DEF Relay, Die
<1>23. CASE CgiDone(d)  BY <1>23 DEF CgiDone, Goto
<1>24. CASE Close(d)  BY <1>24 DEF Close, Goto
<1> QED
  BY <1>1, <1>2, <1>3, <1>4, <1>5, <1>6, <1>7, <1>8, <1>9, <1>10, <1>11, <1>12,
     <1>13, <1>14, <1>15, <1>16, <1>17, <1>18, <1>19, <1>20, <1>21, <1>22, <1>23, <1>24 DEF Handler

\* Its descriptors.
LEMMA OwnedStep ==
  ASSUME NEW d \in Clients, ControlType, DataType, ChildType, CgiPlaces(d), Owned(d), Handler(d)
  PROVE  Owned(d)'
<1> USE DEF ControlType, ChildType, CgiPlaces, CgiSteps, Owned, LeftPipes, At,
           client, process, handler, answer, source, child
<1>1. CASE GetRequestLine(d)  BY <1>1, OwnKinds DEF GetRequestLine, ReadTo
<1>2. CASE Unimplemented(d)  BY <1>2 DEF Unimplemented, Answer, Goto, Die
<1>3. CASE Stat(d)  BY <1>3, OwnKinds DEF Stat, Goto
<1>4. CASE DiscardHeaders(d)  BY <1>4, OwnKinds DEF DiscardHeaders, ReadTo
<1>5. CASE NotFound(d)  BY <1>5 DEF NotFound, Answer, Goto, Die
<1>6. CASE Fopen(d)
  <2>1. pc[d] = "fopen" /\ cgi'[d] = cgi[d] /\ script'[d] = script[d]  BY <1>6 DEF Fopen
  <2>2. CASE fds' = fds \cup {Stream(d)} /\ pc'[d] = "send_200"
    BY <2>1, <2>2, OwnKinds
  <2>3. CASE fds' = fds /\ pc'[d] = "send_404_null"
    BY <2>1, <2>3, OwnKinds
  <2> QED  BY <1>6, <2>2, <2>3 DEF Fopen, Goto
<1>7. CASE NotOpened(d)  BY <1>7 DEF NotOpened, Answer, Goto, Die
<1>8. CASE FcloseNull(d)  BY <1>8, OwnKinds DEF FcloseNull, Goto, Die
<1>9. CASE FileFound(d)  BY <1>9 DEF FileFound, Answer, Goto, Die
<1>10. CASE Cat(d)  BY <1>10, OwnKinds DEF Cat, Goto, Die
<1>11. CASE Fclose(d)  BY <1>11, OwnKinds DEF Fclose, Goto
<1>12. CASE ReadCgiHeaders(d)  BY <1>12, OwnKinds DEF ReadCgiHeaders, ReadTo
<1>13. CASE BadRequest(d)  BY <1>13 DEF BadRequest, Answer, Goto, Die
<1>14. CASE CgiOk(d)  BY <1>14 DEF CgiOk, Answer, Goto, Die
<1>15. CASE PipeOut(d)  BY <1>15, OwnKinds DEF PipeOut, Pipe, Goto
<1>16. CASE PipeIn(d)  BY <1>16, OwnKinds DEF PipeIn, Pipe, Goto
<1>17. CASE Fork(d)  BY <1>17, OwnKinds DEF Fork, Goto
<1>18. CASE CannotExecute(d)  BY <1>18 DEF CannotExecute, Answer, Goto, Die
<1>19. CASE CloseUnused(d)  BY <1>19, OwnKinds DEF CloseUnused, Goto
<1>20. CASE Feed(d)  BY <1>20, OwnKinds DEF Feed, ReadTo
<1>21. CASE FeedKilled(d)  BY <1>21, OwnKinds DEF FeedKilled, Die
<1>22. CASE Relay(d)  BY <1>22, OwnKinds DEF Relay, Die
<1>23. CASE CgiDone(d)  BY <1>23, OwnKinds DEF CgiDone, Goto
<1>24. CASE Close(d)  BY <1>24, OwnKinds DEF Close, Goto
<1> QED
  BY <1>1, <1>2, <1>3, <1>4, <1>5, <1>6, <1>7, <1>8, <1>9, <1>10, <1>11, <1>12,
     <1>13, <1>14, <1>15, <1>16, <1>17, <1>18, <1>19, <1>20, <1>21, <1>22, <1>23, <1>24 DEF Handler

\* How far a file is read.
LEMMA ProgressStep ==
  ASSUME NEW d \in Clients, ControlType, ChildType, DataType, CgiPlaces(d), Progress(d), Handler(d)
  PROVE  Progress(d)'
<1> USE DEF ControlType, DataType, CgiPlaces, CgiSteps, Progress, Fresh, At,
           client, process, handler, answer, source, child
<1>1. CASE GetRequestLine(d)  BY <1>1 DEF GetRequestLine, ReadTo
<1>2. CASE Unimplemented(d)  BY <1>2 DEF Unimplemented, Answer, Goto, Die
<1>3. CASE Stat(d)  BY <1>3 DEF Stat, Goto
<1>4. CASE DiscardHeaders(d)  BY <1>4 DEF DiscardHeaders, ReadTo
<1>5. CASE NotFound(d)  BY <1>5 DEF NotFound, Answer, Goto, Die
<1>6. CASE Fopen(d)  BY <1>6 DEF Fopen, Goto
<1>7. CASE NotOpened(d)  BY <1>7 DEF NotOpened, Answer, Goto, Die
<1>8. CASE FcloseNull(d)  BY <1>8 DEF FcloseNull, Goto, Die
<1>9. CASE FileFound(d)  BY <1>9, FileSize DEF FileFound, Answer, Goto, Die
<1>10. CASE Cat(d)
  <2>0. /\ pc[d] = "cat" /\ UNCHANGED <<peer, cgi, status, file>>
        /\ file[d].size \in Nat /\ out[d] \in Nat /\ body[d] \in Nat
    BY <1>10, FileSize DEF Cat
  <2>1. CASE UNCHANGED <<pc, out, body>>  BY <2>0, <2>1
  <2>2. CASE pc'[d] = "cat" /\ out'[d] = out[d] + BufSize /\ BufSize <= file[d].size - out[d]
             /\ (peer[d] # "reset" => body'[d] = body[d] + BufSize)
    BY <2>0, <2>2, HttpdAssumption
  <2>3. CASE pc'[d] = "fclose" /\ out'[d] = file[d].size
             /\ (peer[d] # "reset" => body'[d] = body[d] + file[d].size - out[d])
    BY <2>0, <2>3, AnswersDiffer
  <2> QED  BY <1>10, <2>0, <2>1, <2>2, <2>3, HttpdAssumption DEF Cat, Goto
<1>11. CASE Fclose(d)  BY <1>11 DEF Fclose, Goto
<1>12. CASE ReadCgiHeaders(d)  BY <1>12 DEF ReadCgiHeaders, ReadTo
<1>13. CASE BadRequest(d)  BY <1>13 DEF BadRequest, Answer, Goto, Die
<1>14. CASE CgiOk(d)  BY <1>14 DEF CgiOk, Answer, Goto, Die
<1>15. CASE PipeOut(d)  BY <1>15 DEF PipeOut, Pipe, Goto
<1>16. CASE PipeIn(d)  BY <1>16 DEF PipeIn, Pipe, Goto
<1>17. CASE Fork(d)  BY <1>17 DEF Fork, Goto
<1>18. CASE CannotExecute(d)  BY <1>18 DEF CannotExecute, Answer, Goto, Die
<1>19. CASE CloseUnused(d)  BY <1>19 DEF CloseUnused, Goto
<1>20. CASE Feed(d)  BY <1>20 DEF Feed, ReadTo
<1>21. CASE FeedKilled(d)  BY <1>21 DEF FeedKilled, Die
<1>22. CASE Relay(d)  BY <1>22 DEF Relay, Die
<1>23. CASE CgiDone(d)  BY <1>23 DEF CgiDone, Goto
<1>24. CASE Close(d)  BY <1>24 DEF Close, Goto
<1> QED
  BY <1>1, <1>2, <1>3, <1>4, <1>5, <1>6, <1>7, <1>8, <1>9, <1>10, <1>11, <1>12,
     <1>13, <1>14, <1>15, <1>16, <1>17, <1>18, <1>19, <1>20, <1>21, <1>22, <1>23, <1>24 DEF Handler

\* What the client got.
LEMMA ContentStep ==
  ASSUME NEW d \in Clients, ControlType, ChildType, DataType, CgiPlaces(d), Progress(d),
         Content(d), Handler(d)
  PROVE  Content(d)'
<1>0. AnswersFirst(d)  BY Answers
<1> USE DEF ControlType, DataType, CgiPlaces, CgiSteps, Progress, Content, Unanswered, Fresh, At,
           client, process, handler, answer, source, child
<1>1. CASE GetRequestLine(d)
  <2>1. pc[d] \in Unanswered \cap Fresh /\ pc'[d] \in Unanswered /\ UNCHANGED <<peer, status, body>>
    BY <1>1 DEF GetRequestLine, ReadTo
  <2> QED  BY <2>1
<1>2. CASE Unimplemented(d)
  <2>1. One(501) \in Final /\ One(501) # One(200)  BY AnswersDiffer, FinalAnswers
  <2>2. FirstSent(d, "send_501", 501, "close")  BY <1>2, <1>0 DEF AnswersFirst
  <2>3. CASE UNCHANGED <<pc, status>>  BY <2>2, <2>3 DEF FirstSent
  <2>4. CASE pc'[d] = "close" /\ (peer[d] # "reset" => status'[d] = One(501))
    BY <2>1, <2>2, <2>4 DEF FirstSent
  <2> QED  BY <2>2, <2>3, <2>4 DEF FirstSent
<1>3. CASE Stat(d)  BY <1>3 DEF Stat, Goto
<1>4. CASE DiscardHeaders(d)  BY <1>4 DEF DiscardHeaders, ReadTo
<1>5. CASE NotFound(d)
  <2>1. One(404) \in Final /\ One(404) # One(200)  BY AnswersDiffer, FinalAnswers
  <2>2. FirstSent(d, "send_404", 404, "close")  BY <1>5, <1>0 DEF AnswersFirst
  <2>3. CASE UNCHANGED <<pc, status>>  BY <2>2, <2>3 DEF FirstSent
  <2>4. CASE pc'[d] = "close" /\ (peer[d] # "reset" => status'[d] = One(404))
    BY <2>1, <2>2, <2>4 DEF FirstSent
  <2> QED  BY <2>2, <2>3, <2>4 DEF FirstSent
<1>6. CASE Fopen(d)  BY <1>6 DEF Fopen, Goto
<1>7. CASE NotOpened(d)
  <2>1. One(404) \in Final /\ One(404) # One(200)  BY AnswersDiffer, FinalAnswers
  <2>2. FirstSent(d, "send_404_null", 404, "fclose_null")  BY <1>7, <1>0 DEF AnswersFirst
  <2>3. CASE UNCHANGED <<pc, status>>  BY <2>2, <2>3 DEF FirstSent
  <2>4. CASE pc'[d] = "fclose_null" /\ (peer[d] # "reset" => status'[d] = One(404))
    BY <2>1, <2>2, <2>4 DEF FirstSent
  <2> QED  BY <2>2, <2>3, <2>4 DEF FirstSent
<1>8. CASE FcloseNull(d)  BY <1>8, AnswersDiffer, FinalAnswers DEF FcloseNull, Goto, Die
<1>9. CASE FileFound(d)
  <2>1. One(200) \in Final  BY AnswersDiffer, FinalAnswers
  <2>2. FirstSent(d, "send_200", 200, "cat")  BY <1>9, <1>0 DEF AnswersFirst
  <2>3. CASE UNCHANGED <<pc, status>>  BY <2>2, <2>3 DEF FirstSent
  <2>4. CASE pc'[d] = "cat" /\ (peer[d] # "reset" => status'[d] = One(200))
    BY <2>1, <2>2, <2>4 DEF FirstSent
  <2> QED  BY <2>2, <2>3, <2>4 DEF FirstSent
<1>10. CASE Cat(d)
  <2>0. /\ pc[d] = "cat" /\ UNCHANGED <<peer, cgi, status, file>>
        /\ file[d].size \in Nat /\ out[d] \in Nat /\ body[d] \in Nat
    BY <1>10, FileSize DEF Cat
  <2>1. CASE UNCHANGED <<pc, out, body>>  BY <2>0, <2>1
  <2>2. CASE pc'[d] = "cat" /\ out'[d] = out[d] + BufSize /\ BufSize <= file[d].size - out[d]
             /\ (peer[d] # "reset" => body'[d] = body[d] + BufSize)
    BY <2>0, <2>2, HttpdAssumption
  <2>3. CASE pc'[d] = "fclose" /\ out'[d] = file[d].size
             /\ (peer[d] # "reset" => body'[d] = body[d] + file[d].size - out[d])
    BY <2>0, <2>3, AnswersDiffer
  <2> QED  BY <1>10, <2>0, <2>1, <2>2, <2>3, HttpdAssumption DEF Cat, Goto
<1>11. CASE Fclose(d)  BY <1>11, AnswersDiffer, FinalAnswers DEF Fclose, Goto
<1>12. CASE ReadCgiHeaders(d)  BY <1>12 DEF ReadCgiHeaders, ReadTo
<1>13. CASE BadRequest(d)
  <2>1. One(400) \in Final /\ One(400) # One(200)  BY AnswersDiffer, FinalAnswers
  <2>2. FirstSent(d, "send_400", 400, "close")  BY <1>13, <1>0 DEF AnswersFirst
  <2>3. CASE UNCHANGED <<pc, status>>  BY <2>2, <2>3 DEF FirstSent
  <2>4. CASE pc'[d] = "close" /\ (peer[d] # "reset" => status'[d] = One(400))
    BY <2>1, <2>2, <2>4 DEF FirstSent
  <2> QED  BY <2>2, <2>3, <2>4 DEF FirstSent
<1>14. CASE CgiOk(d)
  <2>1. One(200) \in Final  BY AnswersDiffer, FinalAnswers
  <2>2. FirstSent(d, "cgi_200", 200, "pipe_out")  BY <1>14, <1>0 DEF AnswersFirst
  <2>3. CASE UNCHANGED <<pc, status>>  BY <2>2, <2>3 DEF FirstSent
  <2>4. CASE pc'[d] = "pipe_out" /\ (peer[d] # "reset" => status'[d] = One(200))
    BY <2>1, <2>2, <2>4 DEF FirstSent
  <2> QED  BY <2>2, <2>3, <2>4 DEF FirstSent
<1>15. CASE PipeOut(d)  BY <1>15 DEF PipeOut, Pipe, Goto
<1>16. CASE PipeIn(d)  BY <1>16 DEF PipeIn, Pipe, Goto
<1>17. CASE Fork(d)  BY <1>17 DEF Fork, Goto
<1>18. CASE CannotExecute(d)
  <2>1. Both \in Final /\ Both # One(200)  BY AnswersDiffer, FinalAnswers
  <2> QED  BY <1>18, <2>1, SendsSecond
<1>19. CASE CloseUnused(d)  BY <1>19 DEF CloseUnused, Goto
<1>20. CASE Feed(d)  BY <1>20 DEF Feed, ReadTo
<1>21. CASE FeedKilled(d)  BY <1>21 DEF FeedKilled, Die
<1>22. CASE Relay(d)  BY <1>22 DEF Relay, Die
<1>23. CASE CgiDone(d)  BY <1>23, AnswersDiffer, FinalAnswers DEF CgiDone, Goto
<1>24. CASE Close(d)  BY <1>24 DEF Close, Goto
<1> QED
  BY <1>1, <1>2, <1>3, <1>4, <1>5, <1>6, <1>7, <1>8, <1>9, <1>10, <1>11, <1>12,
     <1>13, <1>14, <1>15, <1>16, <1>17, <1>18, <1>19, <1>20, <1>21, <1>22, <1>23, <1>24 DEF Handler

\* What is left unread.
LEMMA UnreadStep ==
  ASSUME NEW d \in Clients, ControlType, ClientType, ChildType, DataType, CgiPlaces(d),
         Content(d), Unread(d), Handler(d)
  PROVE  Unread(d)'
<1>0. AnswersFirst(d)  BY Answers
<1> USE DEF ControlType, DataType, ClientType, CgiPlaces, CgiSteps, Content, Unanswered, Fresh, Unread, Spoken, Whole,
           Feeds, Got, Missing, At,
           client, process, handler, answer, source, child
<1>1. CASE GetRequestLine(d)  BY <1>1 DEF GetRequestLine, ReadTo
<1>2. CASE Unimplemented(d)
  <2>1. One(501) \in Final /\ One(501) # One(200)  BY AnswersDiffer, FinalAnswers
  <2>2. FirstSent(d, "send_501", 501, "close")  BY <1>2, <1>0 DEF AnswersFirst
  <2>3. CASE UNCHANGED <<pc, status>>  BY <2>2, <2>3 DEF FirstSent
  <2>4. CASE pc'[d] = "close" /\ (peer[d] # "reset" => status'[d] = One(501))
    BY <2>1, <2>2, <2>4 DEF FirstSent
  <2> QED  BY <2>2, <2>3, <2>4 DEF FirstSent
<1>3. CASE Stat(d)  BY <1>3 DEF Stat, Goto, IsCgi
<1>4. CASE DiscardHeaders(d)  BY <1>4 DEF DiscardHeaders, ReadTo
<1>5. CASE NotFound(d)
  <2>1. One(404) \in Final /\ One(404) # One(200)  BY AnswersDiffer, FinalAnswers
  <2>2. FirstSent(d, "send_404", 404, "close")  BY <1>5, <1>0 DEF AnswersFirst
  <2>3. CASE UNCHANGED <<pc, status>>  BY <2>2, <2>3 DEF FirstSent
  <2>4. CASE pc'[d] = "close" /\ (peer[d] # "reset" => status'[d] = One(404))
    BY <2>1, <2>2, <2>4 DEF FirstSent
  <2> QED  BY <2>2, <2>3, <2>4 DEF FirstSent
<1>6. CASE Fopen(d)  BY <1>6 DEF Fopen, Goto
<1>7. CASE NotOpened(d)
  <2>1. One(404) \in Final /\ One(404) # One(200)  BY AnswersDiffer, FinalAnswers
  <2>2. FirstSent(d, "send_404_null", 404, "fclose_null")  BY <1>7, <1>0 DEF AnswersFirst
  <2>3. CASE UNCHANGED <<pc, status>>  BY <2>2, <2>3 DEF FirstSent
  <2>4. CASE pc'[d] = "fclose_null" /\ (peer[d] # "reset" => status'[d] = One(404))
    BY <2>1, <2>2, <2>4 DEF FirstSent
  <2> QED  BY <2>2, <2>3, <2>4 DEF FirstSent
<1>8. CASE FcloseNull(d)  BY <1>8 DEF FcloseNull, Goto, Die
<1>9. CASE FileFound(d)
  <2>1. One(200) \in Final  BY AnswersDiffer, FinalAnswers
  <2>2. FirstSent(d, "send_200", 200, "cat")  BY <1>9, <1>0 DEF AnswersFirst
  <2>3. CASE UNCHANGED <<pc, status>>  BY <2>2, <2>3 DEF FirstSent
  <2>4. CASE pc'[d] = "cat" /\ (peer[d] # "reset" => status'[d] = One(200))
    BY <2>1, <2>2, <2>4 DEF FirstSent
  <2> QED  BY <2>2, <2>3, <2>4 DEF FirstSent
<1>10. CASE Cat(d)  BY <1>10 DEF Cat, Goto, Die
<1>11. CASE Fclose(d)  BY <1>11 DEF Fclose, Goto
<1>12. CASE ReadCgiHeaders(d)
  <2>1. pc[d] = "cgi_headers" /\ UNCHANGED <<peer, sent, req, status>> /\ read'[d] = 2
    BY <1>12 DEF ReadCgiHeaders, ReadTo
  <2>2. CASE pc'[d] = "send_400" /\ req[d].method = "POST" /\ ~req[d].length  BY <2>1, <2>2
  <2>3. CASE pc'[d] = "cgi_200" /\ (Got(d, 2) \/ Missing(d, 2))  BY <2>1, <2>3
  <2>4. CASE pc'[d] = "send_400" /\ Missing(d, 2)
    <3>1. peer[d] # "reset" => peer'[d] = "shut" /\ sent'[d] <= 2
      BY <2>1, <2>4, MissedHeaders
    <3> QED  BY <2>1, <2>4, <3>1
  <2> QED  BY <1>12, <2>2, <2>3, <2>4 DEF ReadCgiHeaders, ReadTo
<1>13. CASE BadRequest(d)
  <2>1. One(400) \in Final /\ One(400) # One(200)  BY AnswersDiffer, FinalAnswers
  <2>2. FirstSent(d, "send_400", 400, "close")  BY <1>13, <1>0 DEF AnswersFirst
  <2>3. CASE UNCHANGED <<pc, status>>  BY <2>2, <2>3 DEF FirstSent
  <2>4. CASE pc'[d] = "close" /\ (peer[d] # "reset" => status'[d] = One(400))
    BY <2>1, <2>2, <2>4 DEF FirstSent
  <2> QED  BY <2>2, <2>3, <2>4 DEF FirstSent
<1>14. CASE CgiOk(d)
  <2>1. One(200) \in Final  BY AnswersDiffer, FinalAnswers
  <2>2. FirstSent(d, "cgi_200", 200, "pipe_out")  BY <1>14, <1>0 DEF AnswersFirst
  <2>3. CASE UNCHANGED <<pc, status>>  BY <2>2, <2>3 DEF FirstSent
  <2>4. CASE pc'[d] = "pipe_out" /\ (peer[d] # "reset" => status'[d] = One(200))
    BY <2>1, <2>2, <2>4 DEF FirstSent
  <2> QED  BY <2>2, <2>3, <2>4 DEF FirstSent
<1>15. CASE PipeOut(d)  BY <1>15 DEF PipeOut, Pipe, Goto
<1>16. CASE PipeIn(d)  BY <1>16 DEF PipeIn, Pipe, Goto
<1>17. CASE Fork(d)  BY <1>17 DEF Fork, Goto
<1>18. CASE CannotExecute(d)
  <2>1. Both \in Final /\ Both # One(200)  BY AnswersDiffer, FinalAnswers
  <2> QED  BY <1>18, <2>1, SendsSecond
<1>19. CASE CloseUnused(d)  BY <1>19 DEF CloseUnused, Goto
<1>20. CASE Feed(d)  BY <1>20 DEF Feed, ReadTo
<1>21. CASE FeedKilled(d)  BY <1>21 DEF FeedKilled, Die
<1>22. CASE Relay(d)  BY <1>22 DEF Relay, Die
<1>23. CASE CgiDone(d)  BY <1>23 DEF CgiDone, Goto
<1>24. CASE Close(d)  BY <1>24 DEF Close, Goto
<1> QED
  BY <1>1, <1>2, <1>3, <1>4, <1>5, <1>6, <1>7, <1>8, <1>9, <1>10, <1>11, <1>12,
     <1>13, <1>14, <1>15, <1>16, <1>17, <1>18, <1>19, <1>20, <1>21, <1>22, <1>23, <1>24 DEF Handler

---------------------------------------------------------------------------
(* The connections' parts under every step.                                *)

\* A handler's step keeps all connections' parts.
LEMMA HandlerLocal ==
  ASSUME Types, \A e \in Clients : Local(e), NEW d \in Clients, Handler(d)
  PROVE  \A e \in Clients : Local(e)'
<1>1. Local(d)'
  <2>1. ClientType /\ ControlType /\ DataType /\ ChildType  BY DEF Types
  <2>2. CgiPlaces(d) /\ Owned(d) /\ Progress(d) /\ Content(d) /\ Unread(d)  BY DEF Local
  <2> QED
    BY <2>1, <2>2, CgiPlacesStep, OwnedStep, ProgressStep, ContentStep, UnreadStep DEF Local
<1>2. ASSUME NEW e \in Clients, e # d PROVE Local(e)'
  <2>1. Moves(d)  BY HandlerMoves
  <2>2. Same(e) /\ UNCHANGED <<req, peer, sent>>  BY <1>2, <2>1 DEF Moves, client
  <2>3. \A fd \in Own(e) : fd \in fds' => fd \in fds  BY <1>2, <2>1, OwnDistinct DEF Moves
  <2>4. sent[e] <= Whole(e)  BY DEF Local, Unread
  <2>5. sent'[e] <= Whole(e) /\ (Spoken(e) => Spoken(e)')
    BY <2>2, <2>4 DEF Same, Spoken, Whole
  <2> QED  BY <2>2, <2>3, <2>5, SameLocal
<1> QED  BY <1>1, <1>2

\* So does whatever clients do.
LEMMA ClientLocal ==
  ASSUME Types, Queued, \A e \in Clients : Local(e),
         NEW d \in Clients, Connect(d) \/ SendMore(d) \/ StopSending(d)
  PROVE  \A e \in Clients : Local(e)'
<1> SUFFICES ASSUME NEW e \in Clients PROVE Local(e)'
  OBVIOUS
<1> USE DEF Connect, SendMore, StopSending
<1>1. Same(e) /\ req'[e] = req[e] /\ UNCHANGED fds
  BY DEF Same, process, handler, answer, source, child
<1>2. ClientType /\ sent[e] <= Whole(e)  BY DEF Types, Local, Unread
<1>3. sent'[e] <= Whole(e)  BY <1>2 DEF ClientType, Whole
<1>4. peer'[e] # "reset" => peer[e] # "reset"  BY <1>2 DEF ClientType
<1>5. Spoken(e) /\ peer'[e] # "reset" => Spoken(e)'
  BY <1>1, <1>2 DEF ClientType, Spoken, Whole, Same
<1>6. \A fd \in Own(e) : fd \in fds' => fd \in fds  BY <1>1
<1> QED  BY <1>1, <1>3, <1>4, <1>5, <1>6, SameLocal

\* So do the removal of a file and the end of the server in accept.
LEMMA IdleLocal ==
  ASSUME Types, \A e \in Clients : Local(e), (\E t \in Targets : Remove(t)) \/ AcceptFails
  PROVE  \A e \in Clients : Local(e)'
<1> SUFFICES ASSUME NEW e \in Clients PROVE Local(e)'
  OBVIOUS
<1>1. /\ Same(e) /\ req'[e] = req[e] /\ sent'[e] = sent[e] /\ peer'[e] = peer[e] /\ read'[e] = read[e]
      /\ \A fd \in Own(e) : fd \in fds' => fd \in fds
  BY DEF Remove, AcceptFails, Die, Same, client, process, handler, answer, source, child
<1>2. sent'[e] <= Whole(e)  BY <1>1 DEF Local, Unread
<1>3. Spoken(e) => Spoken(e)'  BY <1>1 DEF Spoken, Whole
<1> QED  BY <1>1, <1>2, <1>3, SameLocal

\* Accept starts the handler of the connection that waited longest.
LEMMA AcceptLocal ==
  ASSUME Types, Queued, \A e \in Clients : Local(e), Accept
  PROVE  \A e \in Clients : Local(e)'
<1>1. PICK d \in Clients : d = Head(queue) /\ pc[d] = "none"
  <2>1. queue \in Seq(Clients) /\ queue # <<>>  BY DEF Accept, CanAccept, Types, QueueType
  <2>2. Head(queue) = queue[1] /\ 1 \in 1..Len(queue) /\ Head(queue) \in Clients  BY <2>1
  <2> QED  BY <2>2 DEF Queued
<1>2. /\ pc' \in {[pc EXCEPT ![d] = "line"], [pc EXCEPT ![d] = "orphan"]}
      /\ fds' = fds \cup {Socket(d)} /\ UNCHANGED <<req, peer, sent, read, cgi, answer, source, child>>
  BY <1>1 DEF Accept
<1>3. ControlType /\ DataType /\ ChildType  BY DEF Types
<1>4. Local(d)'
  <2>1. pc'[d] \in {"line", "orphan"}  BY <1>1, <1>2, <1>3 DEF ControlType
  <2>2. CgiPlaces(d) /\ Owned(d) /\ Progress(d) /\ Content(d) /\ Unread(d)  BY <1>1 DEF Local
  <2>3. CgiPlaces(d)'
    BY <1>1, <1>2, <2>1, <2>2 DEF CgiPlaces, CgiSteps, child
  <2>4. Owned(d)'  BY <1>1, <1>2, <2>1, <2>2, OwnKinds DEF Owned, LeftPipes, child
  <2>5. Progress(d)' /\ Content(d)'
    BY <1>1, <1>2, <2>1, <2>2 DEF Progress, Content, Fresh, Unanswered, answer, source
  <2>6. Unread(d)'  BY <1>1, <1>2, <2>1, <2>2 DEF Unread, Whole
  <2> QED  BY <2>3, <2>4, <2>5, <2>6 DEF Local
<1>5. ASSUME NEW e \in Clients, e # d PROVE Local(e)'
  <2>1. Same(e)  BY <1>1, <1>2, <1>3, <1>5 DEF Same, ControlType, answer, source, child
  <2>2. \A fd \in Own(e) : fd \in fds' => fd \in fds
    BY <1>1, <1>2, <1>5, OwnDistinct DEF Own
  <2>3. sent'[e] <= Whole(e)  BY <1>2 DEF Local, Unread
  <2>4. Spoken(e) => Spoken(e)'  BY <1>2 DEF Spoken, Whole
  <2>5. req'[e] = req[e] /\ (peer'[e] # "reset" => peer[e] # "reset")  BY <1>2
  <2> QED  BY <2>1, <2>2, <2>3, <2>4, <2>5, SameLocal
<1> QED  BY <1>4, <1>5

\* So do the scripts' steps.
LEMMA ScriptLocal ==
  ASSUME Types, \A e \in Clients : Local(e), NEW d \in Clients, ScriptWrites(d) \/ ScriptExits(d)
  PROVE  \A e \in Clients : Local(e)'
<1> SUFFICES ASSUME NEW e \in Clients PROVE Local(e)'
  OBVIOUS
<1>1. UNCHANGED <<client, process, handler, cgi, answer, file>>
  BY DEF ScriptWrites, ScriptExits, source
<1>2. DataType /\ ChildType  BY DEF Types
<1>3. CgiPlaces(e) /\ Owned(e) /\ Progress(e) /\ Content(e) /\ Unread(e)  BY DEF Local
<1>4. /\ script[e] = "none" <=> script'[e] = "none"
      /\ script'[e] = "running" => script[e] = "running"
      /\ copies'[e] # {} => copies[e] # {} /\ script'[e] = "running"
      /\ script[e] # "running" => out'[e] = out[e]
  BY <1>2, <1>3 DEF ScriptWrites, ScriptExits, DataType, ChildType, child, source, CgiPlaces
<1>5. CgiPlaces(e)'  BY <1>1, <1>3, <1>4 DEF CgiPlaces, handler
<1>6. Owned(e)'  BY <1>1, <1>3, <1>4 DEF Owned, LeftPipes, process, handler
<1>7. Progress(e)'
  BY <1>1, <1>3, <1>4 DEF Progress, CgiPlaces, Fresh, handler
<1>8. Content(e)'
  BY <1>1, <1>3, <1>4 DEF Content, CgiPlaces, client, handler, answer
<1>9. Unread(e)'
  BY <1>1, <1>3 DEF Unread, Spoken, Whole, Feeds, client, handler, answer
<1> QED  BY <1>5, <1>6, <1>7, <1>8, <1>9 DEF Local

---------------------------------------------------------------------------
(* The types under every step.                                             *)

\* A step that opens nothing keeps the descriptors' limit.
LEMMA FdsClosed == ASSUME FdsType, fds' \subseteq fds PROVE FdsType'
BY FdsShrink DEF FdsType, HasFd

\* One that opens a descriptor within it keeps it.
LEMMA FdsOpened ==
  ASSUME FdsType, HasFd(1), NEW x \in Descriptors, fds' = fds \cup {x}
  PROVE  FdsType'
BY FdsGrow DEF FdsType, HasFd

\* So does one that makes a pipe within it.
LEMMA FdsPiped ==
  ASSUME FdsType, NEW d \in Clients, NEW x \in AllPipeEnds(d), NEW y \in AllPipeEnds(d),
         fds' = fds \/ (HasFd(2) /\ fds' = fds \cup {x, y})
  PROVE  FdsType'
<1>1. x \in Descriptors /\ y \in Descriptors  BY OwnDescriptors
<1> QED  BY <1>1, FdsGrowByPipe DEF FdsType, HasFd

\* Status codes are added to answers.
MayGrow(d) ==
  \A code \in {200, 400, 404, 500, 501} :
    [status EXCEPT ![d] = Append(status[d], code)] \in StatusType

\* Append keeps the answers sequences of codes.
LEMMA AnswerStatus == ASSUME DataType, NEW d \in Clients PROVE MayGrow(d)
<1> SUFFICES ASSUME NEW code \in {200, 400, 404, 500, 501}
             PROVE  [status EXCEPT ![d] = Append(status[d], code)] \in StatusType
  BY DEF MayGrow
<1>1. Append(status[d], code) \in Seq({200, 400, 404, 500, 501})
  BY AppendProperties DEF DataType, StatusType
<1> QED  BY <1>1 DEF DataType, StatusType

\* A handler goes from one of its places to another.
LEMMA HandlerControl ==
  ASSUME ClientType, ControlType,
         NEW d \in Clients, Handler(d)
  PROVE  ClientType' /\ ControlType'
<1> USE DEF ClientType, ControlType, HandlerSteps, At,
           client, process, handler, answer, source, child
<1>1. CASE GetRequestLine(d)  BY <1>1 DEF GetRequestLine, ReadTo
<1>2. CASE Unimplemented(d)  BY <1>2 DEF Unimplemented, Answer, Goto, Die
<1>3. CASE Stat(d)  BY <1>3 DEF Stat, Goto, IsCgi
<1>4. CASE DiscardHeaders(d)  BY <1>4 DEF DiscardHeaders, ReadTo
<1>5. CASE NotFound(d)  BY <1>5 DEF NotFound, Answer, Goto, Die
<1>6. CASE Fopen(d)  BY <1>6 DEF Fopen, Goto
<1>7. CASE NotOpened(d)  BY <1>7 DEF NotOpened, Answer, Goto, Die
<1>8. CASE FcloseNull(d)  BY <1>8 DEF FcloseNull, Goto, Die
<1>9. CASE FileFound(d)  BY <1>9 DEF FileFound, Answer, Goto, Die
<1>10. CASE Cat(d)  BY <1>10 DEF Cat, Goto, Die
<1>11. CASE Fclose(d)  BY <1>11 DEF Fclose, Goto
<1>12. CASE ReadCgiHeaders(d)  BY <1>12 DEF ReadCgiHeaders, ReadTo
<1>13. CASE BadRequest(d)  BY <1>13 DEF BadRequest, Answer, Goto, Die
<1>14. CASE CgiOk(d)  BY <1>14 DEF CgiOk, Answer, Goto, Die
<1>15. CASE PipeOut(d)  BY <1>15 DEF PipeOut, Pipe, Goto
<1>16. CASE PipeIn(d)  BY <1>16 DEF PipeIn, Pipe, Goto
<1>17. CASE Fork(d)  BY <1>17 DEF Fork, Goto
<1>18. CASE CannotExecute(d)  BY <1>18 DEF CannotExecute, Answer, Goto, Die
<1>19. CASE CloseUnused(d)  BY <1>19 DEF CloseUnused, Goto
<1>20. CASE Feed(d)  BY <1>20 DEF Feed, ReadTo
<1>21. CASE FeedKilled(d)  BY <1>21 DEF FeedKilled, Die
<1>22. CASE Relay(d)  BY <1>22 DEF Relay, Die
<1>23. CASE CgiDone(d)  BY <1>23 DEF CgiDone, Goto
<1>24. CASE Close(d)  BY <1>24 DEF Close, Goto
<1> QED
  BY <1>1, <1>2, <1>3, <1>4, <1>5, <1>6, <1>7, <1>8, <1>9, <1>10, <1>11, <1>12,
     <1>13, <1>14, <1>15, <1>16, <1>17, <1>18, <1>19, <1>20, <1>21, <1>22, <1>23, <1>24 DEF Handler

\* What it sends and reads keeps its types.
LEMMA HandlerData ==
  ASSUME ClientType, ControlType, DataType, ChildType, fds \subseteq Descriptors,
         NEW d \in Clients, Progress(d), Handler(d)
  PROVE  DataType' /\ ChildType'
<1>0. MayGrow(d)  BY AnswerStatus
<1> USE DEF DataType, ChildType, At,
           client, process, handler, answer, source, child
<1>1. CASE GetRequestLine(d)  BY <1>1 DEF GetRequestLine, ReadTo
<1>2. CASE Unimplemented(d)  BY <1>2, <1>0 DEF MayGrow, Unimplemented, Answer
<1>3. CASE Stat(d)  BY <1>3 DEF Stat, Goto
<1>4. CASE DiscardHeaders(d)  BY <1>4 DEF DiscardHeaders, ReadTo
<1>5. CASE NotFound(d)  BY <1>5, <1>0 DEF MayGrow, NotFound, Answer
<1>6. CASE Fopen(d)
  <2>1. fs[req[d].target] \in Files \cup {Gone}
    BY HttpdAssumption DEF ClientType, Request
  <2> QED  BY <1>6, <2>1 DEF Fopen, Goto
<1>7. CASE NotOpened(d)  BY <1>7, <1>0 DEF MayGrow, NotOpened, Answer
<1>8. CASE FcloseNull(d)  BY <1>8 DEF FcloseNull, Goto, Die
<1>9. CASE FileFound(d)  BY <1>9, <1>0 DEF MayGrow, FileFound, Answer
<1>10. CASE Cat(d)
  <2>1. file[d].size \in Nat /\ out[d] \in Nat /\ body[d] \in Nat /\ BufSize \in Nat
    BY <1>10, FileSize, HttpdAssumption
  <2>2. out[d] <= file[d].size  BY <1>10 DEF Cat, Progress
  <2>3. (IF file[d].size - out[d] < BufSize THEN file[d].size - out[d] ELSE BufSize) \in Nat
    BY <2>1, <2>2
  <2>4. body' \in [Clients -> Nat] /\ out' \in [Clients -> Nat]
    BY <1>10, <2>1, <2>3 DEF Cat
  <2> QED  BY <1>10, <2>4 DEF Cat
<1>11. CASE Fclose(d)  BY <1>11 DEF Fclose, Goto
<1>12. CASE ReadCgiHeaders(d)  BY <1>12 DEF ReadCgiHeaders, ReadTo
<1>13. CASE BadRequest(d)  BY <1>13, <1>0 DEF MayGrow, BadRequest, Answer
<1>14. CASE CgiOk(d)  BY <1>14, <1>0 DEF MayGrow, CgiOk, Answer
<1>15. CASE PipeOut(d)  BY <1>15 DEF PipeOut, Pipe, Goto
<1>16. CASE PipeIn(d)  BY <1>16 DEF PipeIn, Pipe, Goto
<1>17. CASE Fork(d)
  <2>1. fds \ PipeEnds(d) \in SUBSET Descriptors  OBVIOUS
  <2>2. ChildType'  BY <1>17, <2>1 DEF Fork
  <2> QED  BY <1>17, <2>2 DEF Fork
<1>18. CASE CannotExecute(d)  BY <1>18, <1>0 DEF MayGrow, CannotExecute, Answer
<1>19. CASE CloseUnused(d)  BY <1>19 DEF CloseUnused, Goto
<1>20. CASE Feed(d)  BY <1>20 DEF Feed, ReadTo
<1>21. CASE FeedKilled(d)  BY <1>21 DEF FeedKilled, Die
<1>22. CASE Relay(d)
  <2>1. body[d] + 1 \in Nat  OBVIOUS
  <2>2. body' \in [Clients -> Nat]  BY <1>22, <2>1 DEF Relay
  <2> QED  BY <1>22, <2>2 DEF Relay
<1>23. CASE CgiDone(d)  BY <1>23 DEF CgiDone, Goto
<1>24. CASE Close(d)  BY <1>24 DEF Close, Goto
<1> QED
  BY <1>1, <1>2, <1>3, <1>4, <1>5, <1>6, <1>7, <1>8, <1>9, <1>10, <1>11, <1>12,
     <1>13, <1>14, <1>15, <1>16, <1>17, <1>18, <1>19, <1>20, <1>21, <1>22, <1>23, <1>24 DEF Handler

\* It opens descriptors within the limit only.
LEMMA HandlerFds ==
  ASSUME FdsType,
         NEW d \in Clients, Handler(d)
  PROVE  FdsType'
<1> USE DEF At,
           client, process, handler, answer, source, child
<1>1. CASE GetRequestLine(d)  BY <1>1, FdsClosed DEF GetRequestLine, ReadTo
<1>2. CASE Unimplemented(d)  BY <1>2, FdsClosed DEF Unimplemented, Answer, Goto, Die
<1>3. CASE Stat(d)  BY <1>3, FdsClosed DEF Stat, Goto
<1>4. CASE DiscardHeaders(d)  BY <1>4, FdsClosed DEF DiscardHeaders, ReadTo
<1>5. CASE NotFound(d)  BY <1>5, FdsClosed DEF NotFound, Answer, Goto, Die
<1>6. CASE Fopen(d)
  <2>1. CASE UNCHANGED fds  BY <2>1, FdsClosed
  <2>2. CASE HasFd(1) /\ fds' = fds \cup {Stream(d)}
    BY <2>2, OwnDescriptors, FdsOpened
  <2> QED  BY <1>6, <2>1, <2>2 DEF Fopen
<1>7. CASE NotOpened(d)  BY <1>7, FdsClosed DEF NotOpened, Answer, Goto, Die
<1>8. CASE FcloseNull(d)  BY <1>8, FdsClosed DEF FcloseNull, Goto, Die
<1>9. CASE FileFound(d)  BY <1>9, FdsClosed DEF FileFound, Answer, Goto, Die
<1>10. CASE Cat(d)  BY <1>10, FdsClosed DEF Cat, Goto, Die
<1>11. CASE Fclose(d)  BY <1>11, FdsClosed DEF Fclose, Goto
<1>12. CASE ReadCgiHeaders(d)  BY <1>12, FdsClosed DEF ReadCgiHeaders, ReadTo
<1>13. CASE BadRequest(d)  BY <1>13, FdsClosed DEF BadRequest, Answer, Goto, Die
<1>14. CASE CgiOk(d)  BY <1>14, FdsClosed DEF CgiOk, Answer, Goto, Die
<1>15. CASE PipeOut(d)
  <2>1. fds' = fds \/ (HasFd(2) /\ fds' = fds \cup {<<"out_r", d>>, <<"out_w", d>>})
    BY <1>15 DEF PipeOut, Pipe
  <2> QED  BY <2>1, OwnKinds, FdsPiped
<1>16. CASE PipeIn(d)
  <2>1. fds' = fds \/ (HasFd(2) /\ fds' = fds \cup {<<"in_r", d>>, <<"in_w", d>>})
    BY <1>16 DEF PipeIn, Pipe
  <2> QED  BY <2>1, OwnKinds, FdsPiped
<1>17. CASE Fork(d)  BY <1>17, FdsClosed DEF Fork, Goto
<1>18. CASE CannotExecute(d)  BY <1>18, FdsClosed DEF CannotExecute, Answer, Goto, Die
<1>19. CASE CloseUnused(d)  BY <1>19, FdsClosed DEF CloseUnused, Goto
<1>20. CASE Feed(d)  BY <1>20, FdsClosed DEF Feed, ReadTo
<1>21. CASE FeedKilled(d)  BY <1>21, FdsClosed DEF FeedKilled, Die
<1>22. CASE Relay(d)  BY <1>22, FdsClosed DEF Relay, Die
<1>23. CASE CgiDone(d)  BY <1>23, FdsClosed DEF CgiDone, Goto
<1>24. CASE Close(d)  BY <1>24, FdsClosed DEF Close, Goto
<1> QED
  BY <1>1, <1>2, <1>3, <1>4, <1>5, <1>6, <1>7, <1>8, <1>9, <1>10, <1>11, <1>12,
     <1>13, <1>14, <1>15, <1>16, <1>17, <1>18, <1>19, <1>20, <1>21, <1>22, <1>23, <1>24 DEF Handler

\* So do all the other steps.
LEMMA OtherTypes ==
  ASSUME Types,
         \/ Environment \/ Main \/ UNCHANGED vars
         \/ \E d \in Clients : ScriptWrites(d) \/ ScriptExits(d)
  PROVE  Types'
<1>0. ClientType /\ QueueType /\ ControlType /\ FdsType /\ DataType /\ ChildType  BY DEF Types
<1>a. fds' \subseteq fds => FdsType'  BY <1>0, FdsClosed
<1> USE <1>0 DEF client, process, handler, answer, source, child
<1>1. ASSUME NEW d \in Clients, Connect(d) PROVE Types'
  <2>1. Append(queue, d) \in Seq(Clients) /\ Len(Append(queue, d)) = Len(queue) + 1
    BY AppendProperties DEF QueueType
  <2>2. QueueType'  BY <1>1, <2>1, LenProperties, HttpdAssumption DEF QueueType, Connect
  <2>3. ClientType'  BY <1>1 DEF ClientType, Connect
  <2> QED  BY <1>1, <1>a, <2>2, <2>3 DEF Connect, Types, ControlType, DataType, ChildType
<1>2. ASSUME NEW d \in Clients, SendMore(d) PROVE Types'
  <2>1. sent[d] \in 0..3 /\ sent[d] < 3  BY <1>2 DEF SendMore, Whole, ClientType
  <2>2. sent[d] + 1 \in 0..3  BY <2>1
  <2>3. ClientType'  BY <1>2, <2>2 DEF ClientType, SendMore
  <2> QED  BY <1>2, <1>a, <2>3 DEF SendMore, Types, QueueType, ControlType, DataType, ChildType
<1>3. ASSUME NEW d \in Clients, StopSending(d) PROVE Types'
  <2>1. ClientType'  BY <1>3 DEF ClientType, StopSending
  <2> QED  BY <1>3, <1>a, <2>1 DEF StopSending, Types, QueueType, ControlType, DataType, ChildType
<1>4. ASSUME NEW t \in Targets, Remove(t) PROVE Types'
  <2>1. ClientType'  BY <1>4 DEF ClientType, Remove
  <2> QED  BY <1>4, <1>a, <2>1 DEF Remove, Types, QueueType, ControlType, DataType, ChildType
<1>5. CASE Accept
  <2>1. Head(queue) \in Clients /\ Tail(queue) \in Seq(Clients) /\ Len(Tail(queue)) <= Backlog
    BY <1>5, HeadTailProperties, LenProperties, HttpdAssumption DEF Accept, CanAccept, QueueType
  <2>2. FdsType'  BY <1>5, <2>1, OwnDescriptors, FdsOpened DEF Accept
  <2>3. ClientType' /\ QueueType'  BY <1>5, <2>1 DEF Accept, ClientType, QueueType
  <2>4. threads' \in 0..ThreadLimit  BY <1>5, HttpdAssumption DEF Accept, ControlType
  <2>5. ControlType'  BY <1>5, <2>1, <2>4 DEF Accept, ControlType, HandlerSteps
  <2> QED  BY <1>5, <2>2, <2>3, <2>5 DEF Accept, Types, DataType, ChildType
<1>6. CASE AcceptFails
  <2>1. FdsType' /\ ControlType'  BY <1>6, <1>a DEF AcceptFails, Die, ControlType
  <2> QED  BY <1>6, <2>1 DEF AcceptFails, Types, ClientType, QueueType, DataType, ChildType
<1>7. ASSUME NEW d \in Clients, ScriptWrites(d) PROVE Types'
  <2>1. out[d] + 1 \in Nat  BY DEF DataType
  <2>2. DataType'  BY <1>7, <2>1 DEF DataType, ScriptWrites
  <2> QED  BY <1>7, <1>a, <2>2 DEF ScriptWrites, Types, ClientType, QueueType, ControlType, ChildType
<1>8. ASSUME NEW d \in Clients, ScriptExits(d) PROVE Types'
  <2>1. ChildType'  BY <1>8 DEF ChildType, ScriptExits
  <2> QED  BY <1>8, <1>a, <2>1 DEF ScriptExits, Types, ClientType, QueueType, ControlType, DataType
<1>9. CASE UNCHANGED vars
  BY <1>9, <1>a DEF vars, Types, ClientType, QueueType, ControlType, DataType, ChildType
<1> QED  BY <1>1, <1>2, <1>3, <1>4, <1>5, <1>6, <1>7, <1>8, <1>9 DEF Environment, Main

---------------------------------------------------------------------------
(* The queue and the single thread.                                        *)

\* Every step keeps the queue's part.
LEMMA QueuedStep ==
  ASSUME Types, Queued, [Next]_vars PROVE Queued'
<1>0. ControlType /\ queue \in Seq(Clients) /\ peer \in [Clients -> {"none", "open", "shut", "reset"}]
  BY DEF Types, QueueType, ClientType
<1>1. ASSUME UNCHANGED <<peer, queue>>, \A e \in Clients : pc[e] = "none" => pc'[e] = "none"
      PROVE  Queued'
  BY <1>0, <1>1 DEF Queued
<1>2. ASSUME NEW d \in Clients, Connect(d) PROVE Queued'
  <2>1. /\ peer[d] = "none" /\ peer' = [peer EXCEPT ![d] = "open"]
        /\ queue' = Append(queue, d) /\ UNCHANGED pc
    BY <1>2 DEF Connect, handler
  <2>2. /\ Len(queue') = Len(queue) + 1 /\ queue'[Len(queue) + 1] = d
        /\ \A k \in 1..Len(queue) : queue'[k] = queue[k]
    BY <1>0, <2>1, AppendProperties
  <2>3. Len(queue) \in Nat  BY <1>0, LenProperties
  <2>4. \A k \in 1..Len(queue) : queue[k] \in Clients  BY <1>0, ElementOfSeq
  <2>5. pc[d] = "none" /\ \A k \in 1..Len(queue) : queue[k] # d  BY <2>1 DEF Queued
  <2>6. \A k \in 1..Len(queue') : k \in 1..Len(queue) \/ k = Len(queue) + 1  BY <2>2, <2>3
  <2>7. ASSUME NEW e \in Clients, peer'[e] = "none"
        PROVE  pc'[e] = "none" /\ \A k \in 1..Len(queue') : queue'[k] # e
    <3>1. e # d /\ peer[e] = "none"  BY <1>0, <2>1, <2>7
    <3> QED  BY <2>1, <2>2, <2>6, <3>1 DEF Queued
  <2>8. \A k \in 1..Len(queue') : pc'[queue'[k]] = "none"
    BY <2>1, <2>2, <2>5, <2>6 DEF Queued
  <2>9. \A k, l \in 1..Len(queue') : queue'[k] = queue'[l] => k = l
    BY <2>2, <2>5, <2>6 DEF Queued
  <2> QED  BY <2>7, <2>8, <2>9 DEF Queued
<1>3. CASE Accept
  <2>1. PICK d \in Clients : d = Head(queue) /\ d = queue[1] /\ Len(queue) \in Nat \ {0}
    BY <1>0, <1>3, HeadTailProperties, LenProperties, ElementOfSeq DEF Accept, CanAccept
  <2>2. /\ UNCHANGED peer /\ queue' = Tail(queue)
        /\ \A e \in Clients : e # d => pc'[e] = pc[e]
    BY <1>0, <1>3, <2>1 DEF Accept, ControlType
  <2>3. Len(queue') = Len(queue) - 1 /\ \A k \in 1..Len(queue') : queue'[k] = queue[k + 1]
    BY <1>0, <1>3, <2>2, HeadTailProperties DEF Accept, CanAccept
  <2>4. \A k \in 1..Len(queue') : k + 1 \in 1..Len(queue) /\ k + 1 # 1  BY <2>1, <2>3
  <2>5. 1 \in 1..Len(queue)  BY <2>1
  <2>6. \A k \in 1..Len(queue') : queue'[k] \in Clients /\ queue'[k] # d
    BY <1>0, <2>1, <2>3, <2>4, <2>5, ElementOfSeq DEF Queued
  <2>7. \A e \in Clients : peer[e] = "none" => e # d  BY <2>1, <2>5 DEF Queued
  <2>8. ASSUME NEW e \in Clients, peer'[e] = "none"
        PROVE  pc'[e] = "none" /\ \A k \in 1..Len(queue') : queue'[k] # e
    BY <2>2, <2>3, <2>4, <2>7, <2>8 DEF Queued
  <2>9. \A k \in 1..Len(queue') : pc'[queue'[k]] = "none"
    BY <2>2, <2>3, <2>4, <2>6 DEF Queued
  <2>10. ASSUME NEW k \in 1..Len(queue'), NEW l \in 1..Len(queue'), queue'[k] = queue'[l]
         PROVE  k = l
    <3>1. queue[k + 1] = queue[l + 1] /\ k + 1 \in 1..Len(queue) /\ l + 1 \in 1..Len(queue)
      BY <2>3, <2>4, <2>10
    <3>2. k + 1 = l + 1  BY <3>1 DEF Queued
    <3> QED  BY <2>1, <2>3, <3>2
  <2> QED  BY <2>8, <2>9, <2>10 DEF Queued
<1>4. ASSUME NEW d \in Clients, SendMore(d) PROVE Queued'
  BY <1>1, <1>4 DEF SendMore, handler
<1>5. ASSUME NEW d \in Clients, StopSending(d) PROVE Queued'
  BY <1>0, <1>5 DEF Queued, StopSending, handler
<1>6. ASSUME NEW d \in Clients, Handler(d) PROVE Queued'
  BY <1>1, <1>6, HandlerMoves DEF Moves, Same, client
<1>7. CASE (\E t \in Targets : Remove(t)) \/ AcceptFails \/ UNCHANGED vars
  BY <1>1, <1>7 DEF Remove, AcceptFails, vars, client, handler
<1>8. ASSUME NEW d \in Clients, ScriptWrites(d) \/ ScriptExits(d) PROVE Queued'
  BY <1>1, <1>8 DEF ScriptWrites, ScriptExits, client, handler
<1> QED
  BY <1>2, <1>3, <1>4, <1>5, <1>6, <1>7, <1>8 DEF Next, Environment, Main

\* A script's process gets copies of open descriptors only.
LEMMA HandlerCopies ==
  ASSUME ChildType, NEW d \in Clients, Handler(d)
  PROVE  copies'[d] \subseteq copies[d] \cup fds
<1> USE DEF ChildType, child, At
<1>1. CASE GetRequestLine(d)  BY <1>1 DEF GetRequestLine
<1>2. CASE Unimplemented(d)  BY <1>2 DEF Unimplemented, Answer
<1>3. CASE Stat(d)  BY <1>3 DEF Stat
<1>4. CASE DiscardHeaders(d)  BY <1>4 DEF DiscardHeaders
<1>5. CASE NotFound(d)  BY <1>5 DEF NotFound, Answer
<1>6. CASE Fopen(d)  BY <1>6 DEF Fopen
<1>7. CASE NotOpened(d)  BY <1>7 DEF NotOpened, Answer
<1>8. CASE FcloseNull(d)  BY <1>8 DEF FcloseNull
<1>9. CASE FileFound(d)  BY <1>9 DEF FileFound, Answer
<1>10. CASE Cat(d)  BY <1>10 DEF Cat
<1>11. CASE Fclose(d)  BY <1>11 DEF Fclose
<1>12. CASE ReadCgiHeaders(d)  BY <1>12 DEF ReadCgiHeaders
<1>13. CASE BadRequest(d)  BY <1>13 DEF BadRequest, Answer
<1>14. CASE CgiOk(d)  BY <1>14 DEF CgiOk, Answer
<1>15. CASE PipeOut(d)  BY <1>15 DEF PipeOut, Pipe
<1>16. CASE PipeIn(d)  BY <1>16 DEF PipeIn, Pipe
<1>17. CASE Fork(d)  BY <1>17 DEF Fork
<1>18. CASE CannotExecute(d)  BY <1>18 DEF CannotExecute, Answer
<1>19. CASE CloseUnused(d)  BY <1>19 DEF CloseUnused
<1>20. CASE Feed(d)  BY <1>20 DEF Feed
<1>21. CASE FeedKilled(d)  BY <1>21 DEF FeedKilled
<1>22. CASE Relay(d)  BY <1>22 DEF Relay
<1>23. CASE CgiDone(d)  BY <1>23 DEF CgiDone
<1>24. CASE Close(d)  BY <1>24 DEF Close
<1> QED
  BY <1>1, <1>2, <1>3, <1>4, <1>5, <1>6, <1>7, <1>8, <1>9, <1>10, <1>11, <1>12,
     <1>13, <1>14, <1>15, <1>16, <1>17, <1>18, <1>19, <1>20, <1>21, <1>22, <1>23, <1>24 DEF Handler

\* With one thread every step keeps one handler at work.
LEMMA SingleStep ==
  ASSUME Types, Queued, Single, \A e \in Clients : Local(e), [Next]_vars
  PROVE  Single'
<1> SUFFICES ASSUME ~MultiThread
             PROVE  /\ \A d, e \in Clients : Handled(d)' /\ Handled(e)' => d = e
                    /\ \A d \in Clients : pc'[d] # "orphan"
                    /\ \A d, e \in Clients : Socket(d) \in copies'[e] => d = e
  BY DEF Single, Socket
<1>0. /\ ControlType /\ ChildType
      /\ \A d, e \in Clients : Handled(d) /\ Handled(e) => d = e
      /\ \A d \in Clients : pc[d] # "orphan"
      /\ \A d, e \in Clients : Socket(d) \in copies[e] => d = e
  BY DEF Types, Single
<1>1. ASSUME UNCHANGED <<pc, copies>> PROVE Single'
  BY <1>0, <1>1 DEF Single, Handled, Socket
<1>2. CASE Accept
  <2>1. PICK d \in Clients : d = Head(queue)
    BY <1>2, HeadTailProperties DEF Accept, CanAccept, Types, QueueType
  <2>2. pc' = [pc EXCEPT ![d] = "line"] /\ UNCHANGED copies /\ \A e \in Clients : ~Handled(e)
    BY <1>2, <2>1 DEF Accept, CanAccept, child
  <2> QED  BY <1>0, <2>2 DEF Handled, ControlType, Socket
<1>3. ASSUME NEW d \in Clients, Handler(d)
      PROVE  /\ \A e, f \in Clients : Handled(e)' /\ Handled(f)' => e = f
             /\ \A e \in Clients : pc'[e] # "orphan"
             /\ \A e, f \in Clients : Socket(e) \in copies'[f] => e = f
  <2>1. Moves(d)  BY <1>3, HandlerMoves
  <2>2. Handled(d) /\ pc'[d] # "orphan"  BY <2>1 DEF Moves, Handled
  <2>3. \A e \in Clients \ {d} : pc'[e] = pc[e] /\ copies'[e] = copies[e]
    BY <2>1 DEF Moves, Same
  <2>4. \A e \in Clients : Handled(e)' => Handled(e)  BY <2>2, <2>3 DEF Handled
  <2>5. ASSUME NEW e \in Clients, Socket(e) \in copies'[d] PROVE e = d
    <3>1. CASE Socket(e) \in copies[d]  BY <1>0, <3>1
    <3>2. CASE Socket(e) \in fds
      <4>1. pc[e] \notin {"none", "done"}  BY <3>2 DEF Local, Owned
      <4> QED  BY <1>0, <2>2, <4>1 DEF Handled
    <3>3. copies'[d] \subseteq copies[d] \cup fds
      BY <1>0, <1>3, HandlerCopies
    <3> QED  BY <2>5, <3>1, <3>2, <3>3
  <2> QED  BY <1>0, <2>2, <2>3, <2>4, <2>5
<1>4. ASSUME NEW d \in Clients, ScriptWrites(d) PROVE UNCHANGED <<pc, copies>>
  BY <1>4 DEF ScriptWrites, handler, child
<1>5. ASSUME NEW d \in Clients, ScriptExits(d)
      PROVE  UNCHANGED pc /\ \A e \in Clients : copies'[e] \subseteq copies[e]
  BY <1>0, <1>5 DEF ScriptExits, handler, ChildType
<1>6. CASE Environment \/ AcceptFails \/ UNCHANGED vars
  <2>1. UNCHANGED <<pc, copies>>
    BY <1>6 DEF Environment, Connect, SendMore, StopSending, Remove, AcceptFails, vars, handler, child
  <2> QED  BY <1>0, <2>1 DEF Handled
<1> QED  BY <1>0, <1>2, <1>3, <1>4, <1>5, <1>6 DEF Next, Main, Handled

---------------------------------------------------------------------------
(* The invariant is inductive, and the properties follow.                  *)

\* Every step keeps the invariant.
LEMMA StepIInv == IInv /\ [Next]_vars => IInv'
<1> SUFFICES ASSUME IInv, [Next]_vars PROVE IInv'
  OBVIOUS
<1>0. Types /\ Queued /\ Single /\ \A d \in Clients : Local(d)  BY DEF IInv
<1>1. Queued'  BY <1>0, QueuedStep
<1>2. Single'  BY <1>0, SingleStep
<1>3. ASSUME NEW d \in Clients, Handler(d) PROVE Types' /\ \A e \in Clients : Local(e)'
  <2>1. \A e \in Clients : Local(e)'  BY <1>0, <1>3, HandlerLocal
  <2>2. ClientType /\ QueueType /\ ControlType /\ DataType /\ ChildType /\ FdsType  BY <1>0 DEF Types
  <2>3. Progress(d) /\ fds \subseteq Descriptors  BY <1>0, <2>2 DEF Local, FdsType
  <2>4. ClientType' /\ ControlType'  BY <1>3, <2>2, HandlerControl
  <2>5. DataType' /\ ChildType'  BY <1>3, <2>2, <2>3, HandlerData
  <2>6. FdsType'  BY <1>3, <2>2, HandlerFds
  <2>7. UNCHANGED queue  BY <1>0, <1>3, HandlerMoves DEF Moves, client
  <2> QED  BY <2>1, <2>2, <2>4, <2>5, <2>6, <2>7 DEF Types, QueueType
<1>4. ASSUME UNCHANGED vars PROVE Types' /\ \A e \in Clients : Local(e)'
  <2>1. Types'  BY <1>0, <1>4, OtherTypes
  <2>2. ASSUME NEW d \in Clients PROVE Local(d)'
    <3>1. Same(d) /\ req'[d] = req[d] /\ sent'[d] = sent[d] /\ peer'[d] = peer[d] /\ UNCHANGED fds
      BY <1>4 DEF vars, Same, client, process, handler, answer, source, child
    <3>2. sent'[d] <= Whole(d) /\ (Spoken(d) => Spoken(d)')
      BY <1>0, <3>1 DEF Local, Unread, Spoken, Whole, Same
    <3> QED  BY <1>0, <3>1, <3>2, SameLocal
  <2> QED  BY <2>1, <2>2
<1>5. ASSUME Environment \/ Main \/ \E d \in Clients : ScriptWrites(d) \/ ScriptExits(d)
      PROVE  Types' /\ \A e \in Clients : Local(e)'
  <2>1. Types'  BY <1>0, <1>5, OtherTypes
  <2>2. \A d \in Clients : Local(d)'
    BY <1>0, <1>5, ClientLocal, IdleLocal, AcceptLocal, ScriptLocal DEF Environment, Main
  <2> QED  BY <2>1, <2>2
<1>6. Types' /\ \A d \in Clients : Local(d)'  BY <1>3, <1>4, <1>5 DEF Next
<1> QED  BY <1>1, <1>2, <1>6 DEF IInv

\* The invariant always holds.
LEMMA Invariant == Spec => []IInv
<1>1. Init => IInv  BY InitIInv
<1>2. IInv /\ [Next]_vars => IInv'  BY StepIInv
<1> QED  BY <1>1, <1>2, PTL DEF Spec

\* Every variable keeps its type, and the process its descriptor limit.
THEOREM TypeCorrect == Spec => []TypeOK
<1>1. IInv => TypeOK  BY TypesAreTypeOK DEF IInv
<1> QED  BY <1>1, Invariant, PTL

\* A handler that is done has given back its descriptors, but for the pipe
\* ends of a CGI call that got no process.
THEOREM FdsReturned == Spec => []DescriptorsReturned
<1>1. ASSUME IInv PROVE DescriptorsReturned
  <2> SUFFICES ASSUME NEW d \in Clients, pc[d] = "done",
                      NEW fd \in fds, fd[2] = d
               PROVE  LeftPipes(d) /\ fd \in AllPipeEnds(d)
    BY DEF DescriptorsReturned
  <2>1. Owned(d) /\ fds \subseteq Descriptors  BY <1>1 DEF IInv, Local, Types, FdsType
  <2>2. fd \in Own(d)
    BY <2>1, HttpdAssumption DEF Descriptors, Listening, Own, Socket, Stream, AllPipeEnds,
       PipeEnds, ScriptEnds
  <2>3. fd # Socket(d) /\ fd # Stream(d)  BY <2>1 DEF Owned
  <2>4. fd \in AllPipeEnds(d)  BY <2>2, <2>3 DEF Own
  <2> QED  BY <2>1, <2>4 DEF Owned
<1> QED  BY <1>1, Invariant, PTL

\* A file sent with 200 is sent whole.
THEOREM FilesWhole == Spec => []WholeFile
<1>1. ASSUME IInv PROVE WholeFile
  <2> SUFFICES ASSUME NEW d \in Clients, pc[d] \in {"fclose", "close", "done"},
                      status[d] = One(200), ~cgi[d], peer[d] # "reset"
               PROVE  body[d] = file[d].size
    BY DEF WholeFile, One
  <2>1. Content(d)  BY <1>1 DEF IInv, Local
  <2> QED  BY <2>1 DEF Content
<1> QED  BY <1>1, Invariant, PTL

\* No answer is cut, but after a 501 and after a body that was not run.
THEOREM AnswersReach == Spec => []AnswerNotCut
<1>1. ASSUME IInv PROVE AnswerNotCut
  <2> SUFFICES ASSUME NEW d \in Clients, pc[d] = "done", sent[d] > read[d], peer[d] # "reset"
               PROVE  \/ status[d] = <<501>>
                      \/ Feeds(d) /\ status[d] \in {<<404>>, <<200, 500>>}
    BY DEF AnswerNotCut
  <2>1. Unread(d) /\ sent[d] \in 0..3 /\ read[d] \in 0..3
    BY <1>1 DEF IInv, Local, Types, ClientType
  <2>2. ~Spoken(d)  BY <2>1 DEF Spoken, Unread, Whole
  <2>3. \/ status[d] = One(501)
        \/ Feeds(d) /\ (status[d] = One(404) \/ status[d] = Both)
    BY <2>1, <2>2 DEF Unread
  <2> QED  BY <2>3 DEF One, Both
<1> QED  BY <1>1, Invariant, PTL

\* Without threads every client of a finished handler sees its answer's end.
THEOREM EndsSeen == ~MultiThread => (Spec => []EndIsSeen)
<1> SUFFICES ASSUME ~MultiThread PROVE Spec => []EndIsSeen
  OBVIOUS
<1>1. IInv => EndIsSeen
  <2> SUFFICES ASSUME IInv, NEW d \in Clients, NEW e \in Clients, pc[d] = "done",
                      Socket(d) \in copies[e]
               PROVE  FALSE
    BY DEF EndIsSeen
  <2>1. d = e  BY DEF IInv, Single
  <2>2. CgiPlaces(d)  BY DEF IInv, Local
  <2>3. copies[d] = {}  BY <2>2 DEF CgiPlaces
  <2> QED  BY <2>1, <2>3
<1> QED  BY <1>1, Invariant, PTL

---------------------------------------------------------------------------
(* What the invariant lacks for CGI calls.                                 *)

\* Nothing was sent before a CGI call begins, nor written before its script.
Carried(d) ==
  /\ pc[d] \in {"none", "orphan", "line", "stat"} => status[d] = <<>> /\ body[d] = 0
  /\ pc[d] \in CgiSteps \ {"relay"} => body[d] = 0
  /\ pc[d] \in CgiSteps /\ script[d] = "none" => out[d] = 0

\* A server that has ended holds nothing.
Ended == server # "running" => fds = {}

CInv == IInv /\ Ended /\ \A d \in Clients : Carried(d)

\* It holds when the server starts.
LEMMA InitCInv == Init => CInv
BY InitIInv DEF Init, CInv, Ended, Carried, CgiSteps

\* A handler's step keeps it for its own connection.
LEMMA CarriedStep ==
  ASSUME NEW d \in Clients, ControlType, ChildType, DataType, CgiPlaces(d), Progress(d), Carried(d),
         Handler(d)
  PROVE  Carried(d)'
<1> USE DEF ControlType, ChildType, DataType, CgiPlaces, CgiSteps, Progress, Fresh, Carried, At,
           client, process, handler, answer, source, child
<1>1. CASE GetRequestLine(d)  BY <1>1 DEF GetRequestLine, ReadTo
<1>2. CASE Unimplemented(d)  BY <1>2 DEF Unimplemented, Answer, Goto, Die
<1>3. CASE Stat(d)  BY <1>3 DEF Stat, Goto, IsCgi
<1>4. CASE DiscardHeaders(d)  BY <1>4 DEF DiscardHeaders, ReadTo
<1>5. CASE NotFound(d)  BY <1>5 DEF NotFound, Answer, Goto, Die
<1>6. CASE Fopen(d)  BY <1>6 DEF Fopen, Goto
<1>7. CASE NotOpened(d)  BY <1>7 DEF NotOpened, Answer, Goto, Die
<1>8. CASE FcloseNull(d)  BY <1>8 DEF FcloseNull, Goto, Die
<1>9. CASE FileFound(d)  BY <1>9 DEF FileFound, Answer, Goto, Die
<1>10. CASE Cat(d)  BY <1>10 DEF Cat, Goto, Die
<1>11. CASE Fclose(d)  BY <1>11 DEF Fclose, Goto
<1>12. CASE ReadCgiHeaders(d)  BY <1>12 DEF ReadCgiHeaders, ReadTo
<1>13. CASE BadRequest(d)  BY <1>13 DEF BadRequest, Answer, Goto, Die
<1>14. CASE CgiOk(d)  BY <1>14 DEF CgiOk, Answer, Goto, Die
<1>15. CASE PipeOut(d)  BY <1>15 DEF PipeOut, Pipe, Goto
<1>16. CASE PipeIn(d)  BY <1>16 DEF PipeIn, Pipe, Goto
<1>17. CASE Fork(d)  BY <1>17 DEF Fork, Goto
<1>18. CASE CannotExecute(d)  BY <1>18 DEF CannotExecute, Answer, Goto, Die
<1>19. CASE CloseUnused(d)  BY <1>19 DEF CloseUnused, Goto
<1>20. CASE Feed(d)  BY <1>20 DEF Feed, ReadTo
<1>21. CASE FeedKilled(d)  BY <1>21 DEF FeedKilled, Die
<1>22. CASE Relay(d)  BY <1>22 DEF Relay, Die
<1>23. CASE CgiDone(d)  BY <1>23 DEF CgiDone, Goto
<1>24. CASE Close(d)  BY <1>24 DEF Close, Goto
<1> QED
  BY <1>1, <1>2, <1>3, <1>4, <1>5, <1>6, <1>7, <1>8, <1>9, <1>10, <1>11, <1>12,
     <1>13, <1>14, <1>15, <1>16, <1>17, <1>18, <1>19, <1>20, <1>21, <1>22, <1>23, <1>24 DEF Handler

\* A handler's steps are a running server's, and end it or let it run.
LEMMA HandlerRuns ==
  ASSUME NEW d \in Clients, Handler(d)
  PROVE  server = "running" /\ (server' = server \/ fds' = {})
<1> USE DEF At, Die, process
<1>1. CASE GetRequestLine(d)  BY <1>1 DEF GetRequestLine
<1>2. CASE Unimplemented(d)  BY <1>2 DEF Unimplemented, Answer
<1>3. CASE Stat(d)  BY <1>3 DEF Stat
<1>4. CASE DiscardHeaders(d)  BY <1>4 DEF DiscardHeaders
<1>5. CASE NotFound(d)  BY <1>5 DEF NotFound, Answer
<1>6. CASE Fopen(d)  BY <1>6 DEF Fopen
<1>7. CASE NotOpened(d)  BY <1>7 DEF NotOpened, Answer
<1>8. CASE FcloseNull(d)  BY <1>8 DEF FcloseNull
<1>9. CASE FileFound(d)  BY <1>9 DEF FileFound, Answer
<1>10. CASE Cat(d)  BY <1>10 DEF Cat
<1>11. CASE Fclose(d)  BY <1>11 DEF Fclose
<1>12. CASE ReadCgiHeaders(d)  BY <1>12 DEF ReadCgiHeaders
<1>13. CASE BadRequest(d)  BY <1>13 DEF BadRequest, Answer
<1>14. CASE CgiOk(d)  BY <1>14 DEF CgiOk, Answer
<1>15. CASE PipeOut(d)  BY <1>15 DEF PipeOut, Pipe
<1>16. CASE PipeIn(d)  BY <1>16 DEF PipeIn, Pipe
<1>17. CASE Fork(d)  BY <1>17 DEF Fork
<1>18. CASE CannotExecute(d)  BY <1>18 DEF CannotExecute, Answer
<1>19. CASE CloseUnused(d)  BY <1>19 DEF CloseUnused
<1>20. CASE Feed(d)  BY <1>20 DEF Feed
<1>21. CASE FeedKilled(d)  BY <1>21 DEF FeedKilled
<1>22. CASE Relay(d)  BY <1>22 DEF Relay
<1>23. CASE CgiDone(d)  BY <1>23 DEF CgiDone
<1>24. CASE Close(d)  BY <1>24 DEF Close
<1> QED
  BY <1>1, <1>2, <1>3, <1>4, <1>5, <1>6, <1>7, <1>8, <1>9, <1>10, <1>11, <1>12,
     <1>13, <1>14, <1>15, <1>16, <1>17, <1>18, <1>19, <1>20, <1>21, <1>22, <1>23, <1>24 DEF Handler

\* And every step keeps it for all.
LEMMA StepCInv == CInv /\ [Next]_vars => CInv'
<1> SUFFICES ASSUME CInv, [Next]_vars PROVE CInv'
  OBVIOUS
<1>0. /\ IInv /\ Ended /\ Types /\ Queued /\ \A d \in Clients : Local(d) /\ Carried(d)
      /\ ControlType /\ DataType /\ ChildType
  BY DEF CInv, IInv, Types
<1>1. IInv'  BY <1>0, StepIInv
<1>2. ASSUME NEW e \in Clients, Same(e), Carried(e) PROVE Carried(e)'
  BY <1>2 DEF Same, Carried
<1>3. ASSUME NEW d \in Clients, Handler(d) PROVE Ended' /\ \A e \in Clients : Carried(e)'
  <2>1. Carried(d)'  BY <1>0, <1>3, CarriedStep DEF Local
  <2>2. \A e \in Clients \ {d} : Carried(e)'  BY <1>0, <1>2, <1>3, HandlerMoves DEF Moves
  <2>3. server = "running"  BY <1>3, HandlerRuns
  <2>4. server' = server \/ fds' = {}  BY <1>3, HandlerRuns
  <2> QED  BY <2>1, <2>2, <2>3, <2>4 DEF Ended
<1>4. ASSUME Accept PROVE Ended' /\ \A e \in Clients : Carried(e)'
  <2>1. PICK d \in Clients : d = Head(queue) /\ pc[d] = "none"
    <3>1. queue \in Seq(Clients) /\ queue # <<>>  BY <1>0, <1>4 DEF Accept, CanAccept, Types, QueueType
    <3>2. Head(queue) = queue[1] /\ 1 \in 1..Len(queue) /\ Head(queue) \in Clients  BY <3>1
    <3> QED  BY <1>0, <3>2 DEF Queued
  <2>2. /\ pc' \in {[pc EXCEPT ![d] = "line"], [pc EXCEPT ![d] = "orphan"]}
        /\ server = "running" /\ UNCHANGED <<server, answer, source, child>>
    BY <1>4, <2>1 DEF Accept, CanAccept
  <2>3. pc'[d] \in {"line", "orphan"} /\ \A e \in Clients \ {d} : pc'[e] = pc[e]
    BY <1>0, <2>2 DEF ControlType
  <2>4. ASSUME NEW e \in Clients PROVE Carried(e)'
    BY <1>0, <2>1, <2>2, <2>3 DEF Carried, CgiSteps, answer, source, child
  <2> QED  BY <2>2, <2>4 DEF Ended
<1>5. ASSUME Environment \/ AcceptFails \/ UNCHANGED vars
      PROVE  Ended' /\ \A e \in Clients : Carried(e)'
  <2>1. /\ UNCHANGED <<pc, answer, source, child>>
        /\ UNCHANGED <<server, fds>> \/ fds' = {}
    BY <1>5 DEF Environment, Connect, SendMore, StopSending, Remove, AcceptFails, Die, vars,
                process, handler
  <2> QED  BY <1>0, <2>1 DEF Ended, Carried, answer, source, child
<1>6. ASSUME NEW d \in Clients, ScriptWrites(d) \/ ScriptExits(d)
      PROVE  Ended' /\ \A e \in Clients : Carried(e)'
  <2>1. /\ UNCHANGED <<server, fds, pc, status, body>> /\ script[d] # "none"
        /\ \A e \in Clients \ {d} : script'[e] = script[e] /\ out'[e] = out[e]
        /\ script'[d] # "none"
    BY <1>0, <1>6 DEF ScriptWrites, ScriptExits, process, handler, answer, source, child, ChildType,
                      DataType
  <2> QED  BY <1>0, <2>1 DEF Ended, Carried
<1> QED  BY <1>0, <1>1, <1>3, <1>4, <1>5, <1>6 DEF Next, Main, CInv

---------------------------------------------------------------------------
(* Steps that are none of a CGI call's.                                    *)

\* A connection nothing happens to, in a server that goes on or is through
\* with it.
LEMMA ReplySame ==
  ASSUME NEW e \in Clients, pc'[e] = pc[e], cgi'[e] = cgi[e], status'[e] = status[e],
         body'[e] = body[e], out'[e] = out[e], peer'[e] = peer[e],
         server' = server \/ ~cgi[e] \/ pc[e] \in {"close", "done"}
  PROVE  UNCHANGED Reply(e)!replyVars
<1>1. ReplyPhase(e)' = ReplyPhase(e)  BY DEF ReplyPhase
<1>2. ReplyStatus(e)' = ReplyStatus(e) /\ ReplyOutput(e)' = ReplyOutput(e)
  BY DEF ReplyStatus, ReplyOutput
<1>3. ReplySent(e)' = ReplySent(e)  BY DEF ReplySent
<1> QED  BY <1>1, <1>2, <1>3 DEF Reply!replyVars

\* One whose request runs no script.
LEMMA ReplyNone ==
  ASSUME NEW e \in Clients, ~cgi[e], ~cgi'[e], peer'[e] = peer[e]
  PROVE  UNCHANGED Reply(e)!replyVars
<1>1. ReplyPhase(e)' = ReplyPhase(e)  BY DEF ReplyPhase
<1>2. ReplyStatus(e)' = ReplyStatus(e) /\ ReplyOutput(e)' = ReplyOutput(e)
  BY DEF ReplyStatus, ReplyOutput
<1>3. ReplySent(e)' = ReplySent(e)  BY DEF ReplySent
<1> QED  BY <1>1, <1>2, <1>3 DEF Reply!replyVars

\* A client's step can only lose its connection.
LEMMA ReplyClient ==
  ASSUME NEW d \in Clients, NEW e \in Clients, peer \in [Clients -> {"none", "open", "shut", "reset"}],
         Connect(d) \/ SendMore(d) \/ StopSending(d)
  PROVE  Reply(e)!Next \/ UNCHANGED Reply(e)!replyVars
<1>1. /\ UNCHANGED <<pc, cgi, status, body, out, server>>
      /\ peer'[e] = "reset" \/ (peer[e] # "reset" /\ peer'[e] # "reset")
  BY DEF Connect, SendMore, StopSending, process, handler, answer, source
<1>2. /\ ReplyPhase(e)' = ReplyPhase(e) /\ ReplyStatus(e)' = ReplyStatus(e)
      /\ ReplyOutput(e)' = ReplyOutput(e) /\ ReplySent(e)' = ReplySent(e)
  BY <1>1 DEF ReplyPhase, ReplyStatus, ReplyOutput, ReplySent
<1>3. CASE peer'[e] = "reset"
  <2>1. Reply(e)!Lose  BY <1>2, <1>3 DEF Reply!Lose
  <2> QED  BY <2>1 DEF Reply!Next
<1>4. CASE peer[e] # "reset" /\ peer'[e] # "reset"  BY <1>2, <1>4 DEF Reply!replyVars
<1> QED  BY <1>1, <1>3, <1>4

---------------------------------------------------------------------------
(* A CGI call's own steps.                                                 *)

\* How what it sends grows.
LEMMA SentGrows ==
  ASSUME NEW d, body[d] \in Nat, cgi[d], cgi'[d], body'[d] = body[d] + 1
  PROVE  Len(ReplySent(d)) = body[d] /\ ReplySent(d)' = Append(ReplySent(d), body[d] + 1)
<1> DEFINE s == [n \in 1..body[d] |-> n]
           t == [n \in 1..body[d] + 1 |-> n]
<1>1. s \in Seq(Nat) /\ Len(s) = body[d] /\ \A n \in 1..Len(s) : s[n] = n  OBVIOUS
<1>2. t \in Seq(Nat) /\ Len(t) = body[d] + 1 /\ \A n \in 1..Len(t) : t[n] = n  OBVIOUS
<1> HIDE DEF s, t
<1>3. /\ Append(s, body[d] + 1) \in Seq(Nat) /\ Len(Append(s, body[d] + 1)) = body[d] + 1
      /\ Append(s, body[d] + 1)[body[d] + 1] = body[d] + 1
      /\ \A n \in 1..body[d] : Append(s, body[d] + 1)[n] = n
  BY <1>1, AppendProperties
<1>4. \A n \in 1..body[d] + 1 : n \in 1..body[d] \/ n = body[d] + 1  OBVIOUS
<1>5. \A n \in 1..Len(t) : Append(s, body[d] + 1)[n] = t[n]  BY <1>2, <1>3, <1>4
<1>6. t = Append(s, body[d] + 1)  BY <1>2, <1>3, <1>5, SeqEqual
<1>7. ReplySent(d) = s  BY DEF s, ReplySent
<1>8. ReplySent(d)' = [n \in 1..body'[d] |-> n]  BY DEF ReplySent
<1>9. ReplySent(d)' = t  BY <1>8 DEF t
<1> QED  BY <1>1, <1>6, <1>7, <1>9

\* The answers of a CGI call are the promised ones.
LEMMA ReplyAnswers ==
  ASSUME NEW d \in Clients, ControlType, DataType, CgiPlaces(d), Content(d), Carried(d),
         BadRequest(d) \/ CgiOk(d) \/ CannotExecute(d)
  PROVE  Reply(d)!Next \/ UNCHANGED Reply(d)!replyVars
<1>0. /\ cgi[d] /\ cgi'[d] = cgi[d] /\ server = "running" /\ peer'[d] = peer[d]
      /\ body'[d] = body[d] /\ out'[d] = out[d]
  BY DEF BadRequest, CgiOk, CannotExecute, Answer, At, CgiPlaces, CgiSteps, client, source
<1>1. ReplyOutput(d)' = ReplyOutput(d) /\ ReplySent(d)' = ReplySent(d)
  BY <1>0 DEF ReplyOutput, ReplySent
<1>2. ReplyPhase(d) = "open"
  BY <1>0 DEF ReplyPhase, BadRequest, CgiOk, CannotExecute, Answer, At
<1>3. CASE peer[d] = "reset"
  <2>1. status'[d] = status[d]  BY <1>3 DEF BadRequest, CgiOk, CannotExecute, Answer
  <2>2. ReplyStatus(d)' = ReplyStatus(d)  BY <1>0, <2>1 DEF ReplyStatus
  <2>3. ReplyPhase(d)' \in {"open", "closed", "dead"}  BY DEF ReplyPhase
  <2>4. CASE ReplyPhase(d)' = "open"  BY <1>0, <1>1, <1>2, <2>2, <2>4 DEF Reply!replyVars
  <2>5. CASE ReplyPhase(d)' # "open"
    <3>1. Reply(d)!Abandon  BY <1>0, <1>1, <1>2, <1>3, <2>2, <2>3, <2>5 DEF Reply!Abandon
    <3> QED  BY <3>1 DEF Reply!Next
  <2> QED  BY <2>4, <2>5
<1>4. ASSUME NEW from, NEW code, NEW to, Answer(d, from, code, to), peer[d] # "reset"
      PROVE  /\ pc[d] = from /\ pc'[d] = to /\ server' = "running"
             /\ status'[d] = Append(status[d], code)
  BY <1>4 DEF Answer, At, Goto, process, ControlType, DataType, StatusType
<1>5. CASE BadRequest(d) /\ peer[d] # "reset"
  <2>1. pc[d] = "send_400" /\ pc'[d] = "close" /\ status'[d] = Append(status[d], 400)
    BY <1>4, <1>5 DEF BadRequest
  <2>2. status[d] = <<>>  BY <1>5, <2>1 DEF Content, Unanswered
  <2>3. ReplyPhase(d)' = "closed"  BY <1>0, <2>1 DEF ReplyPhase
  <2>4. ReplyStatus(d) = <<>> /\ ReplyStatus(d)' = <<400>>  BY <1>0, <2>1, <2>2 DEF ReplyStatus
  <2>5. Reply(d)!Reject
    BY <1>0, <1>1, <1>2, <1>5, <2>3, <2>4 DEF Reply!Reject, Reply!Serving
  <2> QED  BY <2>5 DEF Reply!Next
<1>6. CASE CgiOk(d) /\ peer[d] # "reset"
  <2>1. pc[d] = "cgi_200" /\ pc'[d] = "pipe_out" /\ status'[d] = Append(status[d], 200) /\ server' = "running"
    BY <1>4, <1>6 DEF CgiOk
  <2>2. status[d] = <<>>  BY <1>6, <2>1 DEF Content, Unanswered
  <2>3. ReplyPhase(d)' = "open"  BY <1>0, <2>1 DEF ReplyPhase
  <2>4. ReplyStatus(d) = <<>> /\ ReplyStatus(d)' = <<200>>  BY <1>0, <2>1, <2>2 DEF ReplyStatus
  <2>5. Reply(d)!Accept
    BY <1>0, <1>1, <1>2, <1>6, <2>3, <2>4 DEF Reply!Accept, Reply!Serving
  <2> QED  BY <2>5 DEF Reply!Next
<1>7. CASE CannotExecute(d) /\ peer[d] # "reset"
  <2>1. pc[d] = "send_500" /\ pc'[d] = "close" /\ status'[d] = Append(status[d], 500)
    BY <1>4, <1>7 DEF CannotExecute
  <2>2. status[d] = <<200>>  BY <1>7, <2>1 DEF Content, One
  <2>3. ReplyPhase(d)' = "closed"  BY <1>0, <2>1 DEF ReplyPhase
  <2>4. ReplyStatus(d) = <<200>> /\ ReplyStatus(d)' = Append(ReplyStatus(d), 500)
    BY <1>0, <2>1, <2>2 DEF ReplyStatus
  <2>5. script[d] = "none" /\ out[d] = 0  BY <2>1 DEF CgiPlaces, CgiSteps, Carried, ChildType
  <2>6. ReplyOutput(d) = 0  BY <2>5 DEF ReplyOutput
  <2>7. Reply(d)!Fail
    BY <1>0, <1>1, <1>2, <1>7, <2>3, <2>4, <2>6 DEF Reply!Fail, Reply!Serving
  <2> QED  BY <2>7 DEF Reply!Next
<1> QED  BY <1>3, <1>5, <1>6, <1>7

\* So are the end of feeding, the output and the end of the call.
LEMMA ReplyRelays ==
  ASSUME NEW d \in Clients, ControlType, DataType, CgiPlaces(d), Content(d), Carried(d),
         FeedKilled(d) \/ Relay(d) \/ CgiDone(d)
  PROVE  Reply(d)!Next \/ UNCHANGED Reply(d)!replyVars
<1>0. /\ pc[d] \in {"feed", "relay"} /\ cgi[d] /\ cgi'[d] = cgi[d] /\ server = "running"
      /\ peer'[d] = peer[d] /\ status'[d] = status[d] /\ out'[d] = out[d]
      /\ body[d] \in Nat /\ out[d] \in Nat
  BY DEF FeedKilled, Relay, CgiDone, At, CgiPlaces, CgiSteps, client, source, answer, DataType
<1>1. ReplyOutput(d)' = ReplyOutput(d) /\ ReplyStatus(d)' = ReplyStatus(d) /\ ReplyOutput(d) = out[d]
  BY <1>0 DEF ReplyOutput, ReplyStatus
<1>2. ReplyPhase(d) = "open"  BY <1>0 DEF ReplyPhase
<1>3. peer[d] # "reset" => ReplyStatus(d) = <<200>>  BY <1>0 DEF ReplyStatus, Content, One
<1>4. CASE Relay(d) /\ peer[d] # "reset"
  <2>1. body'[d] = body[d] + 1 /\ body[d] < out[d] /\ UNCHANGED <<pc, server>>
    BY <1>4 DEF Relay, process, handler, DataType
  <2>2. Len(ReplySent(d)) = body[d] /\ ReplySent(d)' = Append(ReplySent(d), body[d] + 1)
    BY <1>0, <2>1, SentGrows
  <2>3. ReplyPhase(d)' = ReplyPhase(d)  BY <1>0, <2>1 DEF ReplyPhase
  <2>4. Reply(d)!Relay
    BY <1>0, <1>1, <1>2, <1>3, <1>4, <2>1, <2>2, <2>3 DEF Reply!Relay, Reply!Serving
  <2> QED  BY <2>4 DEF Reply!Next
<1>5. ~(Relay(d) /\ peer[d] # "reset") => body'[d] = body[d]
  BY DEF FeedKilled, Relay, CgiDone, answer
<1>6. body'[d] = body[d] => ReplySent(d)' = ReplySent(d)  BY <1>0 DEF ReplySent
<1>7. CASE peer[d] = "reset"
  <2>1. \/ pc'[d] = "close" \/ server' = "killed"
    BY <1>7 DEF FeedKilled, Relay, CgiDone, Die, Goto, ControlType
  <2>2. ReplyPhase(d)' \in {"closed", "dead"}  BY <1>0, <2>1 DEF ReplyPhase
  <2>3. Reply(d)!Abandon
    BY <1>0, <1>1, <1>2, <1>5, <1>6, <1>7, <2>2 DEF Reply!Abandon
  <2> QED  BY <2>3 DEF Reply!Next
<1>8. CASE FeedKilled(d) /\ peer[d] # "reset"
  <2>1. pc[d] = "feed" /\ pc' = pc /\ server' = "killed" /\ body[d] = 0
    BY <1>8 DEF FeedKilled, At, Die, handler, Carried, CgiSteps
  <2>2. ReplyPhase(d)' = "dead"  BY <1>0, <2>1 DEF ReplyPhase
  <2>3. ReplySent(d) = <<>>  BY <2>1 DEF ReplySent
  <2>4. ReplySent(d)' = ReplySent(d)  BY <1>5, <1>6, <1>8, <2>1 DEF FeedKilled, answer
  <2>5. Reply(d)!Die
    BY <1>0, <1>1, <1>2, <1>3, <1>8, <2>2, <2>3, <2>4 DEF Reply!Die, Reply!Serving
  <2> QED  BY <2>5 DEF Reply!Next
<1>9. CASE CgiDone(d) /\ peer[d] # "reset"
  <2>1. pc'[d] = "close" /\ body[d] = out[d] /\ body'[d] = body[d]
    BY <1>9 DEF CgiDone, Goto, ControlType, answer
  <2>2. ReplyPhase(d)' = "closed"  BY <1>0, <2>1 DEF ReplyPhase
  <2>3. Len(ReplySent(d)) = body[d]  BY <1>0 DEF ReplySent
  <2>4. Reply(d)!Finish
    BY <1>0, <1>1, <1>2, <1>3, <1>6, <1>9, <2>1, <2>2, <2>3 DEF Reply!Finish, Reply!Serving
  <2> QED  BY <2>4 DEF Reply!Next
<1> QED  BY <1>4, <1>7, <1>8, <1>9

\* The moment the request turns out to be one for a script, nothing was sent.
LEMMA ReplyBegins ==
  ASSUME NEW d \in Clients, ControlType, CgiPlaces(d), Progress(d), Carried(d), Stat(d)
  PROVE  UNCHANGED Reply(d)!replyVars
<1>1. /\ pc[d] = "stat" /\ ~cgi[d] /\ status[d] = <<>> /\ body[d] = 0 /\ out[d] = 0
      /\ UNCHANGED <<peer, server, status, body, out>>
  BY DEF Stat, At, CgiPlaces, CgiSteps, Carried, Progress, Fresh, client, process, answer, source
<1>2. server = "running" /\ pc'[d] \notin {"close", "done"}  BY DEF Stat, At, Goto, ControlType
<1>3. ReplyPhase(d) = "open" /\ ReplyPhase(d)' = "open"  BY <1>1, <1>2 DEF ReplyPhase
<1>4. ReplyStatus(d)' = ReplyStatus(d) /\ ReplyOutput(d)' = ReplyOutput(d)
  BY <1>1 DEF ReplyStatus, ReplyOutput
<1>5. ReplySent(d) = [n \in 1..0 |-> n] /\ ReplySent(d)' = [n \in 1..0 |-> n]  BY <1>1 DEF ReplySent
<1> QED  BY <1>1, <1>3, <1>4, <1>5 DEF Reply!replyVars

\* The system calls in between show nothing to the client.
LEMMA ReplySilent ==
  ASSUME NEW d \in Clients, ControlType, CgiPlaces(d),
         \/ ReadCgiHeaders(d) \/ PipeOut(d) \/ PipeIn(d) \/ Fork(d) \/ CloseUnused(d) \/ Feed(d) \/ Close(d)
  PROVE  UNCHANGED Reply(d)!replyVars
<1>1. UNCHANGED <<peer, server, cgi, status, body, out>>
  BY DEF ReadCgiHeaders, PipeOut, PipeIn, Pipe, Fork, CloseUnused, Feed, Close, client, process,
         answer, source
<1>2. pc[d] \in {"close", "done"} <=> pc'[d] \in {"close", "done"}
  BY DEF ReadCgiHeaders, PipeOut, PipeIn, Pipe, Fork, CloseUnused, Feed, Close, At, Goto, ReadTo,
         ControlType
<1>3. /\ ReplyPhase(d)' = ReplyPhase(d) /\ ReplyStatus(d)' = ReplyStatus(d)
      /\ ReplyOutput(d)' = ReplyOutput(d) /\ ReplySent(d)' = ReplySent(d)
  BY <1>1, <1>2 DEF ReplyPhase, ReplyStatus, ReplyOutput, ReplySent
<1> QED  BY <1>1, <1>3 DEF Reply!replyVars

\* Serving a file or an error is no CGI call's.
LEMMA ReplyFile ==
  ASSUME NEW d \in Clients, ControlType, CgiPlaces(d),
         \/ GetRequestLine(d) \/ Unimplemented(d) \/ DiscardHeaders(d) \/ NotFound(d)
         \/ Fopen(d) \/ NotOpened(d) \/ FcloseNull(d) \/ FileFound(d) \/ Cat(d) \/ Fclose(d)
  PROVE  UNCHANGED Reply(d)!replyVars
<1>1. UNCHANGED <<peer, cgi>>
  BY DEF GetRequestLine, Unimplemented, DiscardHeaders, NotFound, Fopen, NotOpened, FcloseNull,
         FileFound, Cat, Fclose, Answer, client
<1>2. pc[d] \notin CgiSteps \cup {"close", "done"}
  BY DEF GetRequestLine, Unimplemented, DiscardHeaders, NotFound, Fopen, NotOpened, FcloseNull,
         FileFound, Cat, Fclose, Answer, At, CgiSteps
<1>3. ~cgi[d]  BY <1>2 DEF CgiPlaces
<1> QED  BY <1>1, <1>3, ReplyNone

\* A script's byte is a step of its call.
LEMMA ReplyScript ==
  ASSUME CInv, NEW d \in Clients, NEW e \in Clients, ScriptWrites(d) \/ ScriptExits(d)
  PROVE  Reply(e)!Next \/ UNCHANGED Reply(e)!replyVars
<1>0. /\ UNCHANGED <<peer, pc, cgi, status, body, server>>
      /\ e # d \/ ScriptExits(d) => out'[e] = out[e]
      /\ DataType
  BY DEF ScriptWrites, ScriptExits, client, process, handler, answer, source, CInv, IInv, Types,
         DataType
<1>1. CASE e # d \/ ScriptExits(d)  BY <1>0, <1>1, ReplySame
<1>2. CASE e = d /\ ScriptWrites(d)
  <2>1. CgiPlaces(d) /\ Content(d) /\ Ended  BY DEF CInv, IInv, Local
  <2>2. pc[d] \in {"close_unused", "feed", "relay"} /\ fds # {}
    BY <1>2, <2>1 DEF ScriptWrites, CgiPlaces
  <2>3. cgi[d] /\ server = "running"  BY <2>1, <2>2 DEF CgiPlaces, CgiSteps, Ended
  <2>4. out'[d] = out[d] + 1  BY <1>0, <1>2 DEF ScriptWrites, DataType
  <2>5. /\ ReplyPhase(d) = "open" /\ ReplyPhase(d)' = "open" /\ ReplyStatus(d)' = ReplyStatus(d)
        /\ ReplySent(d)' = ReplySent(d) /\ ReplyOutput(d)' = ReplyOutput(d) + 1
    BY <1>0, <2>2, <2>3, <2>4 DEF ReplyPhase, ReplyStatus, ReplySent, ReplyOutput
  <2>6. peer[d] # "reset" => ReplyStatus(d) = <<200>>
    BY <2>1, <2>2, <2>3 DEF Content, One, ReplyStatus
  <2>7. Reply(d)!Produce  BY <1>0, <2>5, <2>6 DEF Reply!Produce
  <2> QED  BY <1>2, <2>7 DEF Reply!Next
<1> QED  BY <1>1, <1>2

---------------------------------------------------------------------------
(* Every step of the server is one of every call's, or none.               *)

\* What a step does to a call it is none of.
Aside(e) ==
  UNCHANGED Reply(e)!replyVars \/ (OtherThread(e) /\ Reply(e)!Cut)

\* A call under way when the server ends in a step that leaves it alone.
LEMMA ReplyCut ==
  ASSUME NEW e \in Clients, pc'[e] = pc[e], cgi'[e] = cgi[e], status'[e] = status[e],
         body'[e] = body[e], out'[e] = out[e], peer'[e] = peer[e],
         server = "running", server' # "running", cgi[e], pc[e] \notin {"close", "done"}
  PROVE  Reply(e)!Cut
<1>1. ReplyPhase(e) = "open" /\ ReplyPhase(e)' = "dead"  BY DEF ReplyPhase
<1>2. ReplyStatus(e)' = ReplyStatus(e) /\ ReplyOutput(e)' = ReplyOutput(e)
  BY DEF ReplyStatus, ReplyOutput
<1>3. ReplySent(e)' = ReplySent(e)  BY DEF ReplySent
<1> QED  BY <1>1, <1>2, <1>3 DEF Reply!Cut

\* In one thread, whoever is not the one handled has no call under way; with
\* threads the step can end the server in the middle of that call.
LEMMA ReplyOthers ==
  ASSUME CInv, NEW d \in Clients, Handler(d), NEW e \in Clients \ {d}
  PROVE  Aside(e)
<1>0. Types /\ Single /\ CgiPlaces(e)  BY DEF CInv, IInv, Local
<1>1. Moves(d) /\ server = "running"  BY <1>0, HandlerMoves, HandlerRuns
<1>2. Same(e) /\ peer'[e] = peer[e]  BY <1>1 DEF Moves, client
<1>3. CASE server' = server \/ ~cgi[e] \/ pc[e] \in {"close", "done"}
  BY <1>2, <1>3, ReplySame DEF Same, Aside
<1>4. CASE server' # server /\ cgi[e] /\ pc[e] \notin {"close", "done"}
  <2>1. Handled(d) /\ Handled(e)
    BY <1>0, <1>1, <1>4 DEF Moves, Handled, CgiPlaces, CgiSteps
  <2>2. OtherThread(e)  BY <1>0, <2>1 DEF Single, OtherThread
  <2>3. Reply(e)!Cut  BY <1>1, <1>2, <1>4, ReplyCut DEF Same
  <2> QED  BY <2>2, <2>3 DEF Aside
<1> QED  BY <1>3, <1>4

\* So a step of the server is a step of each call, or none, or cuts it off.
LEMMA ReplyStep ==
  ASSUME CInv, [Next]_vars, NEW e \in Clients
  PROVE  \/ Reply(e)!Next \/ UNCHANGED Reply(e)!replyVars
         \/ OtherThread(e) /\ Reply(e)!Cut
<1>0. /\ Types /\ ClientType /\ ControlType /\ DataType /\ ChildType
      /\ CgiPlaces(e) /\ Content(e) /\ Progress(e) /\ Carried(e)
  BY DEF CInv, IInv, Types, Local
<1>1. CASE Handler(e)
  BY <1>0, <1>1, ReplyAnswers, ReplyRelays, ReplyBegins, ReplySilent, ReplyFile DEF Handler
<1>2. ASSUME NEW d \in Clients \ {e}, Handler(d) PROVE Aside(e)
  BY <1>2, ReplyOthers
<1>3. ASSUME NEW d \in Clients, Connect(d) \/ SendMore(d) \/ StopSending(d)
      PROVE  Reply(e)!Next \/ UNCHANGED Reply(e)!replyVars
  BY <1>0, <1>3, ReplyClient DEF ClientType
<1>4. CASE Accept
  <2>1. PICK d \in Clients : d = Head(queue) /\ pc[d] = "none"
    <3>1. queue \in Seq(Clients) /\ queue # <<>>  BY <1>0, <1>4 DEF Accept, CanAccept, Types, QueueType
    <3>2. Head(queue) = queue[1] /\ 1 \in 1..Len(queue) /\ Head(queue) \in Clients  BY <3>1
    <3> QED  BY <3>2 DEF CInv, IInv, Queued
  <2>2. /\ UNCHANGED <<peer, cgi, status, body, out, server>>
        /\ \A c \in Clients \ {d} : pc'[c] = pc[c]
    BY <1>0, <1>4, <2>1 DEF Accept, answer, source, ControlType
  <2>3. CASE e = d
    <3>1. ~cgi[e]  BY <1>0, <2>1, <2>3 DEF CgiPlaces, CgiSteps
    <3> QED  BY <2>2, <3>1, ReplyNone
  <2>4. CASE e # d  BY <2>2, <2>4, ReplySame
  <2> QED  BY <2>3, <2>4
<1>5. ASSUME AcceptFails PROVE Aside(e)
  <2>1. UNCHANGED <<peer, pc, cgi, status, body, out>>
    BY <1>5 DEF AcceptFails, client, handler, answer, source
  <2>2. CASE ~cgi[e] \/ pc[e] \in {"close", "done"}  BY <2>1, <2>2, ReplySame DEF Aside
  <2>3. CASE cgi[e] /\ pc[e] \notin {"close", "done"}
    <3>1. Handled(e)  BY <1>0, <2>3 DEF Handled, CgiPlaces, CgiSteps
    <3>2. OtherThread(e)  BY <1>5, <3>1 DEF AcceptFails, CanAccept, OtherThread
    <3>3. server = "running" /\ server' # "running"  BY <1>5 DEF AcceptFails, CanAccept, Die
    <3>4. Reply(e)!Cut  BY <2>1, <2>3, <3>3, ReplyCut
    <3> QED  BY <3>2, <3>4 DEF Aside
  <2> QED  BY <2>2, <2>3
<1>6. CASE (\E t \in Targets : Remove(t)) \/ UNCHANGED vars
  <2>1. UNCHANGED <<peer, pc, cgi, status, body, out, server>>
    BY <1>6 DEF Remove, vars, client, process, handler, answer, source
  <2> QED  BY <2>1, ReplySame
<1>7. ASSUME NEW d \in Clients, ScriptWrites(d) \/ ScriptExits(d)
      PROVE  Reply(e)!Next \/ UNCHANGED Reply(e)!replyVars
  BY <1>7, ReplyScript
<1> QED  BY <1>1, <1>2, <1>3, <1>4, <1>5, <1>6, <1>7 DEF Next, Environment, Main, Aside

\* In both builds every CGI call of the server keeps CgiReply's promise, but
\* for a call that a step of another thread cuts off.
THEOREM CgiPromised == Spec => CgiAsPromised
<1>1. Init => CInv  BY InitCInv
<1>2. CInv /\ [Next]_vars => CInv'  BY StepCInv
<1>3. CInv /\ [Next]_vars =>
       [\A d \in Clients : \/ Reply(d)!Next \/ UNCHANGED Reply(d)!replyVars
                           \/ OtherThread(d) /\ Reply(d)!Cut]_vars
  BY ReplyStep
<1> QED  BY <1>1, <1>2, <1>3, PTL DEF Spec, CgiAsPromised

---------------------------------------------------------------------------
(* What the invariant lacks for the answers.                               *)

\* Where a file is served, and where it turned out not to be there.
Filing == {"headers", "fopen", "send_404_null", "fclose_null", "send_200", "cat", "fclose"}
Missing404 == {"headers_404", "send_404", "send_404_null", "fclose_null"}

\* Each answer has its reason, from the step that decides on it.
Fits(d) ==
  /\ status[d] \in {<<>>} \cup Final
  /\ pc[d] = "send_501" \/ status[d] = One(501) => req[d].method = "other" \/ peer[d] # "open"
  /\ pc[d] = "send_400" \/ status[d] = One(400) =>
       req[d].method = "POST" /\ (~req[d].length \/ peer[d] # "open")
  /\ pc[d] = "stat" => req[d].method # "other"
  /\ pc[d] \in Filing => req[d].method = "GET"
  /\ status[d] = One(200) => cgi[d] \/ req[d].method = "GET"
  /\ status[d] = Both => cgi[d]

\* A failed CGI call that is over, and may have left no descriptors for others.
Leaked(e) == pc[e] = "done" /\ LeftPipes(e)
NotThere(d) ==
  \/ fs[req[d].target].open = "absent"
  \/ req[d].method = "POST" /\ req[d].query
  \/ \E e \in Clients \ {d} : Leaked(e)
Missed(d) == pc[d] \in Missing404 \/ status[d] = One(404) => NotThere(d)

\* While the body is fed the script was there, with the reading end.
Fed(d) ==
  /\ pc[d] \in {"close_unused", "feed"} => script[d] # "none"
  /\ pc[d] = "feed" => Feeds(d)
  /\ script[d] = "running" => <<"in_r", d>> \in copies[d]
  /\ server = "running" /\ pc[d] = "fork" => <<"in_r", d>> \in fds

\* In one thread a connection under way has its socket, which its end gives
\* to the next.
Kept(d) == ~MultiThread /\ server = "running" /\ Handled(d) => Socket(d) \in fds
Room ==
  ~MultiThread /\ server = "running" /\ (\A d \in Clients : ~Handled(d)) => HasFd(1)

Death ==
  /\ server = "exited" => queue # <<>> /\ peer[Head(queue)] = "reset"
  /\ server = "crashed" => \E d \in Clients : pc[d] = "fclose_null"
  /\ server = "killed" =>
       \E d \in Clients : \/ peer[d] = "reset"
                          \/ cgi[d] /\ req[d].method = "POST" /\ script[d] = "ended"

Answering(d) == Fits(d) /\ Missed(d) /\ Fed(d) /\ Kept(d)
AInv == CInv /\ Room /\ Death /\ \A d \in Clients : Answering(d)

\* The connections that hold descriptors, and the one that is accepted next.
Busy ==
  {d \in Clients : \/ pc[d] \notin {"none", "done"} \/ Leaked(d)
                   \/ queue # <<>> /\ d = Head(queue)}

\* With threads there are descriptors enough when each but one of the busy
\* connections holds a socket and two pipes, that one its socket, and beside
\* the listener there is still one for a file.
Plenty(K) == FdLimit >= IF MultiThread THEN 5 * K - 2 ELSE 3
Crowd(K) == MultiThread => IsFiniteSet(Busy) /\ Cardinality(Busy) <= K

\* The invariant holds when the server starts.
LEMMA InitAInv == ASSUME NEW K \in Nat, Plenty(K), Init PROVE AInv
<1>1. CInv  BY InitCInv
<1>2. Room
  <2>1. fds = {Listening} /\ Cardinality({Listening}) = 1  BY FS_Singleton DEF Init
  <2> QED  BY <2>1, HttpdAssumption DEF Room, HasFd, Plenty
<1>3. Death  BY DEF Init, Death
<1>4. ASSUME NEW d \in Clients PROVE Answering(d)
  <2>1. pc[d] = "none" /\ status[d] = <<>> /\ script[d] = "none"  BY DEF Init
  <2>2. Both # <<>> /\ \A c : One(c) # <<>>  BY AnswersDiffer DEF Both
  <2>3. Fits(d)  BY <2>1, <2>2 DEF Fits, Filing
  <2>4. Missed(d)  BY <2>1, <2>2 DEF Missed, Missing404
  <2> QED  BY <2>1, <2>3, <2>4 DEF Answering, Fed, Kept, Handled
<1> QED  BY <1>1, <1>2, <1>3, <1>4 DEF AInv

---------------------------------------------------------------------------
(* With threads: counting the descriptors.                                 *)

\* A descriptor is a kind and a connection.
LEMMA OwnIsPair ==
  ASSUME NEW e, NEW fd \in Own(e)
  PROVE  /\ fd = <<fd[1], e>> /\ fd[2] = e
         /\ fd[1] \in {"socket", "file", "in_r", "in_w", "out_r", "out_w"}
         /\ fd[1] = "file" => fd = Stream(e)
         /\ fd[1] \notin {"socket", "file"} => fd \in AllPipeEnds(e)
BY DEF Own, Socket, Stream, AllPipeEnds, PipeEnds, ScriptEnds

\* Who holds a descriptor is busy.
LEMMA HoldersBusy ==
  ASSUME NEW e \in Clients, Owned(e), NEW fd \in fds, fd \in Own(e)
  PROVE  e \in Busy
BY DEF Owned, Own, Busy, Leaked

\* What one element adds to a set's size.
LEMMA OneMore ==
  ASSUME NEW S, NEW x, IsFiniteSet(S)
  PROVE  /\ IsFiniteSet(S \cup {x}) /\ Cardinality(S) \in Nat /\ Cardinality(S \cup {x}) \in Nat
         /\ Cardinality(S \cup {x}) <= Cardinality(S) + 1
<1>1. /\ IsFiniteSet(S \cup {x})
      /\ Cardinality(S \cup {x}) = IF x \in S THEN Cardinality(S) ELSE Cardinality(S) + 1
  BY FS_AddElement
<1>2. Cardinality(S) \in Nat /\ Cardinality(S \cup {x}) \in Nat  BY <1>1, FS_CardinalityType
<1> QED  BY <1>1, <1>2

\* The kinds a connection can hold at the same time: a file never beside pipes.
Kinds == {"socket", "in_r", "in_w", "out_r", "out_w"}
LEMMA FiveKinds == IsFiniteSet(Kinds) /\ Cardinality(Kinds) \in Nat /\ Cardinality(Kinds) <= 5
<1> DEFINE A == {"socket"}
           B == A \cup {"in_r"}
           C == B \cup {"in_w"}
           D == C \cup {"out_r"}
           E == D \cup {"out_w"}
<1>1. IsFiniteSet(A) /\ Cardinality(A) = 1  BY FS_Singleton
<1>2. /\ IsFiniteSet(B) /\ Cardinality(B) \in Nat /\ Cardinality(B) <= Cardinality(A) + 1
  <2> HIDE DEF A
  <2> QED  BY <1>1, OneMore
<1>3. /\ IsFiniteSet(C) /\ Cardinality(C) \in Nat /\ Cardinality(C) <= Cardinality(B) + 1
  <2> HIDE DEF B
  <2> QED  BY <1>2, OneMore
<1>4. /\ IsFiniteSet(D) /\ Cardinality(D) \in Nat /\ Cardinality(D) <= Cardinality(C) + 1
  <2> HIDE DEF C
  <2> QED  BY <1>3, OneMore
<1>5. /\ IsFiniteSet(E) /\ Cardinality(E) \in Nat /\ Cardinality(E) <= Cardinality(D) + 1
  <2> HIDE DEF D
  <2> QED  BY <1>4, OneMore
<1>6. Kinds = E  BY DEF Kinds
<1> HIDE DEF A, B, C, D, E
<1> QED  BY <1>1, <1>2, <1>3, <1>4, <1>5, <1>6

\* So a busy connection that holds no more than its socket finds one left.
LEMMA RoomInThreads ==
  ASSUME MultiThread, NEW K \in Nat, Plenty(K), Crowd(K), FdsType, \A e \in Clients : Owned(e),
         NEW d \in Busy, fds \cap Own(d) \subseteq {Socket(d)}
  PROVE  HasFd(1)
<1> DEFINE Others == Busy \ {d}
           S == fds \ {Listening, Socket(d)}
           T == Others \X Kinds
           Place(fd) == <<fd[2], IF fd[1] = "file" THEN "in_r" ELSE fd[1]>>
           f == [fd \in S |-> Place(fd)]
<1>0. /\ IsFiniteSet(Busy) /\ Cardinality(Busy) <= K /\ FdLimit >= 5 * K - 2
      /\ IsFiniteSet(fds) /\ fds \subseteq Descriptors /\ Cardinality(fds) \in Nat /\ FdLimit \in Nat
  BY FS_CardinalityType, HttpdAssumption DEF Crowd, Plenty, FdsType
<1>1. IsFiniteSet(T) /\ Cardinality(T) <= 5 * K - 5 /\ Cardinality(T) \in Nat
  <2>1. /\ IsFiniteSet(Others) /\ Cardinality(Others) = Cardinality(Busy) - 1
        /\ Cardinality(Others) \in Nat /\ Cardinality(Busy) \in Nat
    BY <1>0, FS_RemoveElement, FS_CardinalityType
  <2>2. IsFiniteSet(T) /\ Cardinality(T) = Cardinality(Others) * Cardinality(Kinds)
    BY <2>1, FiveKinds, FS_Product
  <2>3. Cardinality(Others) * Cardinality(Kinds) <= Cardinality(Others) * 5
    <3> DEFINE n == Cardinality(Others)
               k == Cardinality(Kinds)
    <3>1. n \in Nat /\ k \in Nat /\ k <= 5  BY <2>1, FiveKinds
    <3> HIDE DEF n, k
    <3>2. k \in {0, 1, 2, 3, 4, 5}  BY <3>1
    <3>3. n * k <= n * 5  BY <3>1, <3>2
    <3> QED  BY <3>3 DEF n, k
  <2>4. Cardinality(T) \in Nat  BY <2>2, FS_CardinalityType
  <2> QED  BY <1>0, <2>1, <2>2, <2>3, <2>4
<1>2. IsFiniteSet(S) /\ Cardinality(fds) <= Cardinality(S) + 2 /\ Cardinality(S) \in Nat
  <2>1. IsFiniteSet(S) /\ Cardinality(S) \in Nat  BY <1>0, FS_Difference, FS_CardinalityType
  <2>2. /\ IsFiniteSet(S \cup {Listening}) /\ Cardinality(S \cup {Listening}) \in Nat
        /\ Cardinality(S \cup {Listening}) <= Cardinality(S) + 1
    BY <2>1, OneMore
  <2>3. /\ IsFiniteSet((S \cup {Listening}) \cup {Socket(d)})
        /\ Cardinality((S \cup {Listening}) \cup {Socket(d)}) \in Nat
        /\ Cardinality((S \cup {Listening}) \cup {Socket(d)}) <= Cardinality(S \cup {Listening}) + 1
    BY <2>2, OneMore
  <2>4. fds \subseteq (S \cup {Listening}) \cup {Socket(d)}  OBVIOUS
  <2>5. Cardinality(fds) <= Cardinality((S \cup {Listening}) \cup {Socket(d)})
    BY <2>3, <2>4, FS_Subset
  <2> QED  BY <1>0, <2>1, <2>2, <2>3, <2>5
<1>3. ASSUME NEW fd \in S PROVE \E e \in Others : fd \in Own(e)
  <2>1. PICK e \in Clients : fd \in Own(e)  BY <1>0 DEF Descriptors, Own
  <2>2. e \in Busy /\ e # d  BY <2>1, HoldersBusy
  <2> QED  BY <2>1, <2>2
<1>4. f \in [S -> T]
  <2>1. ASSUME NEW fd \in S PROVE Place(fd) \in T
    <3>1. PICK e \in Others : fd \in Own(e)  BY <1>3
    <3>2. fd[2] = e /\ fd[1] \in {"socket", "file", "in_r", "in_w", "out_r", "out_w"}
      BY <3>1, OwnIsPair
    <3> QED  BY <3>1, <3>2 DEF Kinds
  <2> QED  BY <2>1
<1>5. ASSUME NEW x \in S, NEW y \in S, f[x] = f[y] PROVE x = y
  <2>1. PICK e \in Others : x \in Own(e)  BY <1>3
  <2>2. Place(x) = Place(y)  BY <1>5
  <2>3. PICK c \in Others : y \in Own(c)  BY <1>3
  <2>4. x[2] = e /\ y[2] = c  BY <2>1, <2>3, OwnIsPair
  <2>5. e = c /\ e \in Clients  BY <2>2, <2>4 DEF Busy
  <2>6. /\ x[1] = "file" => x = Stream(e)
        /\ x[1] \notin {"socket", "file"} => x \in AllPipeEnds(e)
        /\ y[1] = "file" => y = Stream(e)
        /\ y[1] \notin {"socket", "file"} => y \in AllPipeEnds(e)
        /\ x = <<x[1], e>> /\ y = <<y[1], e>>
    BY <2>1, <2>3, <2>5, OwnIsPair
  <2>7. CASE x[1] = y[1]  BY <2>6, <2>7
  <2>8. CASE x[1] # y[1]
    <3>1. \/ x = Stream(e) /\ y \in AllPipeEnds(e)
          \/ y = Stream(e) /\ x \in AllPipeEnds(e)
      BY <2>2, <2>6, <2>8
    <3>2. x \in fds /\ y \in fds /\ Owned(e)  BY <2>5
    <3> QED  BY <3>1, <3>2 DEF Owned
  <2> QED  BY <2>7, <2>8
<1> HIDE DEF f, S, T
<1>6. ~(Cardinality(T) < Cardinality(S))  BY <1>1, <1>2, <1>4, <1>5, FS_PigeonHole
<1> QED  BY <1>0, <1>1, <1>2, <1>6 DEF HasFd

---------------------------------------------------------------------------
(* A handler's step, for its own connection.                               *)

\* What a step that sends does: it adds its answer, or loses it.
Sent(d, from, code, to) ==
  /\ pc[d] = from /\ UNCHANGED <<req, peer, cgi>>
  /\ \/ UNCHANGED <<pc, status>>
     \/ pc'[d] = to /\ (status'[d] = status[d] \/ status'[d] = code)

\* To a client whose connection was reset nothing is sent.
LEMMA Unsent ==
  ASSUME NEW d, NEW from, NEW code, NEW to, Answer(d, from, code, to), peer[d] = "reset"
  PROVE  status' = status
BY DEF Answer

\* So each answer is sent or lost.
LEMMA AnswersSent ==
  ASSUME ControlType, DataType, NEW d \in Clients, Content(d)
  PROVE  /\ Unimplemented(d) => Sent(d, "send_501", One(501), "close")
         /\ NotFound(d) => Sent(d, "send_404", One(404), "close")
         /\ NotOpened(d) => Sent(d, "send_404_null", One(404), "fclose_null")
         /\ FileFound(d) => Sent(d, "send_200", One(200), "cat")
         /\ BadRequest(d) => Sent(d, "send_400", One(400), "close")
         /\ CgiOk(d) => Sent(d, "cgi_200", One(200), "pipe_out")
         /\ CannotExecute(d) => Sent(d, "send_500", Both, "close")
<1>1. AnswersFirst(d)  BY Answers
<1>2. Unimplemented(d) => Sent(d, "send_501", One(501), "close")
  BY <1>1, Unsent DEF AnswersFirst, FirstSent, Sent, Unimplemented
<1>3. NotFound(d) => Sent(d, "send_404", One(404), "close")
  BY <1>1, Unsent DEF AnswersFirst, FirstSent, Sent, NotFound
<1>4. NotOpened(d) => Sent(d, "send_404_null", One(404), "fclose_null")
  BY <1>1, Unsent DEF AnswersFirst, FirstSent, Sent, NotOpened
<1>5. FileFound(d) => Sent(d, "send_200", One(200), "cat")
  BY <1>1, Unsent DEF AnswersFirst, FirstSent, Sent, FileFound
<1>6. BadRequest(d) => Sent(d, "send_400", One(400), "close")
  BY <1>1, Unsent DEF AnswersFirst, FirstSent, Sent, BadRequest
<1>7. CgiOk(d) => Sent(d, "cgi_200", One(200), "pipe_out")
  BY <1>1, Unsent DEF AnswersFirst, FirstSent, Sent, CgiOk
<1>8. CannotExecute(d) => Sent(d, "send_500", Both, "close")
  <2>1. CannotExecute(d) => Answer(d, "send_500", 500, "close")  BY DEF CannotExecute
  <2> QED  BY <2>1, SendsSecond, Unsent DEF Sent
<1> QED  BY <1>2, <1>3, <1>4, <1>5, <1>6, <1>7, <1>8

\* Its answers keep their reasons.
LEMMA FitsStep ==
  ASSUME NEW d \in Clients, ClientType, ControlType, DataType, CgiPlaces(d), Content(d), Fits(d),
         Handler(d)
  PROVE  Fits(d)'
<1>0. /\ Unimplemented(d) => Sent(d, "send_501", One(501), "close")
      /\ NotFound(d) => Sent(d, "send_404", One(404), "close")
      /\ NotOpened(d) => Sent(d, "send_404_null", One(404), "fclose_null")
      /\ FileFound(d) => Sent(d, "send_200", One(200), "cat")
      /\ BadRequest(d) => Sent(d, "send_400", One(400), "close")
      /\ CgiOk(d) => Sent(d, "cgi_200", One(200), "pipe_out")
      /\ CannotExecute(d) => Sent(d, "send_500", Both, "close")
  BY AnswersSent
<1>a. \A b, c \in {200, 400, 404, 500, 501} : b # c => One(b) # One(c)  BY AnswersDiffer
<1>b. \A c \in {200, 400, 404, 500, 501} : One(c) # <<>> /\ One(c) # Both  BY AnswersDiffer
<1>c. Both # <<>>  BY DEF Both
<1> HIDE DEF Final
<1> USE DEF Sent, ControlType, CgiPlaces, CgiSteps, Fits, Filing, At, client, answer
<1>1. CASE GetRequestLine(d)
  <2>1. req[d].method \in {"GET", "POST", "other"}  BY HttpdAssumption DEF ClientType, Request
  <2> QED  BY <1>1, <2>1 DEF GetRequestLine, ReadTo, Missing
<1>2. CASE Unimplemented(d)  BY <1>2, <1>0, <1>a, <1>b, FinalAnswers
<1>3. CASE Stat(d)
  <2>1. req[d].method \in {"GET", "POST", "other"}  BY HttpdAssumption DEF ClientType, Request
  <2> QED  BY <1>3, <2>1 DEF Stat, Goto, IsCgi
<1>4. CASE DiscardHeaders(d)  BY <1>4 DEF DiscardHeaders, ReadTo
<1>5. CASE NotFound(d)  BY <1>5, <1>0, <1>a, <1>b, FinalAnswers
<1>6. CASE Fopen(d)  BY <1>6 DEF Fopen, Goto
<1>7. CASE NotOpened(d)  BY <1>7, <1>0, <1>a, <1>b, FinalAnswers
<1>8. CASE FcloseNull(d)  BY <1>8 DEF FcloseNull, Goto, Die, handler
<1>9. CASE FileFound(d)  BY <1>9, <1>0, <1>a, <1>b, FinalAnswers
<1>10. CASE Cat(d)  BY <1>10 DEF Cat, Goto, Die, handler
<1>11. CASE Fclose(d)  BY <1>11 DEF Fclose, Goto
<1>12. CASE ReadCgiHeaders(d)  BY <1>12 DEF ReadCgiHeaders, ReadTo, Missing
<1>13. CASE BadRequest(d)  BY <1>13, <1>0, <1>a, <1>b, FinalAnswers
<1>14. CASE CgiOk(d)  BY <1>14, <1>0, <1>a, <1>b, FinalAnswers
<1>15. CASE PipeOut(d)  BY <1>15 DEF PipeOut, Pipe, Goto
<1>16. CASE PipeIn(d)  BY <1>16 DEF PipeIn, Pipe, Goto
<1>17. CASE Fork(d)  BY <1>17 DEF Fork, Goto
<1>18. CASE CannotExecute(d)  BY <1>18, <1>0, <1>b, <1>c, FinalAnswers
<1>19. CASE CloseUnused(d)  BY <1>19 DEF CloseUnused, Goto
<1>20. CASE Feed(d)  BY <1>20 DEF Feed, ReadTo
<1>21. CASE FeedKilled(d)  BY <1>21 DEF FeedKilled, Die, handler
<1>22. CASE Relay(d)  BY <1>22 DEF Relay, Die, handler
<1>23. CASE CgiDone(d)  BY <1>23 DEF CgiDone, Goto
<1>24. CASE Close(d)  BY <1>24 DEF Close, Goto
<1> QED
  BY <1>1, <1>2, <1>3, <1>4, <1>5, <1>6, <1>7, <1>8, <1>9, <1>10, <1>11, <1>12,
     <1>13, <1>14, <1>15, <1>16, <1>17, <1>18, <1>19, <1>20, <1>21, <1>22, <1>23, <1>24 DEF Handler

\* With room for a file, none is left only when a failed CGI call left pipes,
\* and in one thread.
LEMMA NoRoomLeaked ==
  ASSUME NEW K \in Nat, Plenty(K), Crowd(K), FdsType, ControlType, Single,
         \A e \in Clients : Owned(e), NEW d \in Clients, pc[d] = "fopen", ~HasFd(1)
  PROVE  \E e \in Clients \ {d} : Leaked(e)
<1>0. ~MultiThread
  <2>1. d \in Busy  BY DEF Busy
  <2>2. fds \cap Own(d) \subseteq {Socket(d)}  BY DEF Owned, Own
  <2> QED  BY <2>1, <2>2, RoomInThreads
<1>1. ASSUME fds \subseteq {Listening, Socket(d)} PROVE FALSE
  <2> DEFINE A == {Listening}
             B == A \cup {Socket(d)}
  <2>1. IsFiniteSet(A) /\ Cardinality(A) = 1  BY FS_Singleton
  <2>2. fds \subseteq B  BY <1>1
  <2> HIDE DEF A
  <2>3. /\ IsFiniteSet(B) /\ Cardinality(B) \in Nat
        /\ Cardinality(B) <= Cardinality(A) + 1
    BY <2>1, OneMore
  <2> HIDE DEF B
  <2>4. Cardinality(fds) <= Cardinality(B)  BY <2>2, <2>3, FS_Subset
  <2>5. Cardinality(fds) \in Nat  BY FS_CardinalityType DEF FdsType
  <2>6. Cardinality(fds) <= 2  BY <2>1, <2>3, <2>4, <2>5
  <2> QED  BY <1>0, <2>5, <2>6, HttpdAssumption DEF HasFd, Plenty
<1>2. PICK fd \in fds : fd # Listening /\ fd # Socket(d)  BY <1>1
<1>3. PICK e \in Clients : fd \in Own(e)  BY <1>2 DEF FdsType, Descriptors, Own
<1>4. e # d  BY <1>2, <1>3 DEF Owned, Own
<1>5. pc[e] \in {"none", "done"}
  <2>1. Handled(d)  BY DEF Handled
  <2> QED  BY <1>0, <1>4, <2>1 DEF Single, Handled
<1>6. fd \in AllPipeEnds(e)  BY <1>2, <1>3, <1>5 DEF Owned, Own
<1> QED  BY <1>2, <1>4, <1>5, <1>6 DEF Owned, Leaked

\* A file that is not there does not come back, nor do leaked descriptors.
LEMMA NotThereStays ==
  ASSUME Types, Queued, \A e \in Clients : CgiPlaces(e), [Next]_vars, NEW d \in Clients, NotThere(d)
  PROVE  NotThere(d)'
<1>0. /\ ControlType /\ ChildType /\ req[d].target \in Targets
      /\ fs \in [Targets -> Files \cup {Gone}]
  BY HttpdAssumption DEF Types, ClientType, Request
<1>1. ASSUME UNCHANGED <<req, fs>>, \A e \in Clients : Leaked(e) => Leaked(e)'
      PROVE  NotThere(d)'
  BY <1>1 DEF NotThere
<1>2. ASSUME NEW e \in Clients, Handler(e) PROVE NotThere(d)'
  <2>1. Moves(e)  BY <1>2, HandlerMoves
  <2> QED  BY <1>1, <2>1 DEF Moves, Same, Leaked, LeftPipes, client
<1>3. CASE Accept
  <2>1. PICK e \in Clients : e = Head(queue) /\ pc[e] = "none"
    <3>1. queue \in Seq(Clients) /\ queue # <<>>  BY <1>3 DEF Accept, CanAccept, Types, QueueType
    <3>2. Head(queue) = queue[1] /\ 1 \in 1..Len(queue) /\ Head(queue) \in Clients  BY <3>1
    <3> QED  BY <3>2 DEF Queued
  <2>2. \A c \in Clients \ {e} : pc'[c] = pc[c]  BY <1>0, <1>3, <2>1 DEF Accept, ControlType
  <2> QED  BY <1>1, <1>3, <2>1, <2>2 DEF Accept, Leaked, LeftPipes, child
<1>4. ASSUME NEW t \in Targets, Remove(t) PROVE NotThere(d)'
  <2>1. UNCHANGED <<req, pc, cgi, script>> /\ fs' = [fs EXCEPT ![t] = Gone]
    BY <1>4 DEF Remove, handler, child
  <2>2. fs'[req[d].target] \in {Gone, fs[req[d].target]}  BY <1>0, <2>1
  <2> QED  BY <2>1, <2>2 DEF NotThere, Leaked, LeftPipes, Gone
<1>5. ASSUME NEW e \in Clients, Connect(e) \/ SendMore(e) \/ StopSending(e) PROVE NotThere(d)'
  BY <1>1, <1>5 DEF Connect, SendMore, StopSending, handler, child, Leaked, LeftPipes
<1>6. CASE AcceptFails \/ UNCHANGED vars
  BY <1>1, <1>6 DEF AcceptFails, vars, client, handler, child, Leaked, LeftPipes
<1>7. ASSUME NEW e \in Clients, ScriptWrites(e) \/ ScriptExits(e) PROVE NotThere(d)'
  <2>1. /\ UNCHANGED <<req, fs, pc, cgi>>
        /\ \A c \in Clients : script[c] = "none" => script'[c] = "none"
    BY <1>0, <1>7 DEF ScriptWrites, ScriptExits, client, handler, child, ChildType
  <2> QED  BY <1>1, <2>1 DEF Leaked, LeftPipes
<1> QED  BY <1>2, <1>3, <1>4, <1>5, <1>6, <1>7 DEF Next, Main, Environment

\* A 404 keeps its reason.
LEMMA MissedStep ==
  ASSUME NEW K \in Nat, Plenty(K), Crowd(K), Types, Queued, Single,
         \A e \in Clients : Local(e), NEW d \in Clients, Fits(d), Missed(d), Handler(d)
  PROVE  Missed(d)'
<1>0. /\ ControlType /\ DataType /\ ClientType /\ FdsType /\ CgiPlaces(d) /\ Content(d)
      /\ \A e \in Clients : Owned(e)
  BY DEF Types, Local
<1>1. NotThere(d) => NotThere(d)'
  <2>1. [Next]_vars  BY DEF Next
  <2> QED  BY <2>1, NotThereStays DEF Local
<1>2. CASE Stat(d)
  <2>1. ~Found(d) => NotThere(d)
    <3>1. fs[req[d].target] \in Files \cup {Gone}
      BY <1>0, HttpdAssumption DEF ClientType, Request
    <3>2. fs[req[d].target].stat = "missing" => fs[req[d].target].open = "absent"
      BY <3>1, HttpdAssumption DEF Gone
    <3> QED  BY <3>2 DEF Found, NotThere
  <2>2. status' = status /\ (Found(d) => pc'[d] \notin Missing404)
    BY <1>0, <1>2 DEF Stat, Goto, answer, ControlType, Missing404
  <2> QED  BY <1>1, <2>1, <2>2 DEF Missed
<1>3. CASE Fopen(d)
  <2>1. pc[d] = "fopen" /\ status' = status  BY <1>3 DEF Fopen, At, answer
  <2>2. CASE fs[req[d].target].open # "absent" /\ HasFd(1)
    <3>1. pc'[d] = "send_200"  BY <1>0, <1>3, <2>2 DEF Fopen, Goto, ControlType
    <3> QED  BY <1>1, <2>1, <3>1 DEF Missed, Missing404
  <2>3. CASE fs[req[d].target].open = "absent"  BY <1>1, <2>3 DEF Missed, NotThere
  <2>4. CASE ~HasFd(1)
    <3>1. \E e \in Clients \ {d} : Leaked(e)  BY <1>0, <2>1, <2>4, NoRoomLeaked
    <3> QED  BY <1>1, <3>1 DEF Missed, NotThere
  <2> QED  BY <2>2, <2>3, <2>4
<1>4. CASE Unimplemented(d) \/ NotFound(d) \/ NotOpened(d) \/ FileFound(d) \/ BadRequest(d)
           \/ CgiOk(d) \/ CannotExecute(d)
  <2>1. /\ Unimplemented(d) => Sent(d, "send_501", One(501), "close")
        /\ NotFound(d) => Sent(d, "send_404", One(404), "close")
        /\ NotOpened(d) => Sent(d, "send_404_null", One(404), "fclose_null")
        /\ FileFound(d) => Sent(d, "send_200", One(200), "cat")
        /\ BadRequest(d) => Sent(d, "send_400", One(400), "close")
        /\ CgiOk(d) => Sent(d, "cgi_200", One(200), "pipe_out")
        /\ CannotExecute(d) => Sent(d, "send_500", Both, "close")
    BY <1>0, AnswersSent
  <2>2. \A c \in {200, 400, 501} : One(c) # One(404)  BY AnswersDiffer
  <2>3. Both # One(404)  BY AnswersDiffer
  <2> QED  BY <1>1, <1>4, <2>1, <2>2, <2>3 DEF Sent, Missed, Missing404
<1>5. ASSUME \/ GetRequestLine(d) \/ DiscardHeaders(d) \/ FcloseNull(d) \/ Cat(d) \/ Fclose(d)
             \/ ReadCgiHeaders(d) \/ PipeOut(d) \/ PipeIn(d) \/ Fork(d) \/ CloseUnused(d) \/ Feed(d)
             \/ FeedKilled(d) \/ Relay(d) \/ CgiDone(d) \/ Close(d)
      PROVE  status' = status /\ (pc'[d] \in Missing404 => pc[d] \in Missing404)
  BY <1>0, <1>5 DEF GetRequestLine, DiscardHeaders, FcloseNull, Cat, Fclose, ReadCgiHeaders, PipeOut,
     PipeIn, Pipe, Fork, CloseUnused, Feed, FeedKilled, Relay, CgiDone, Close, At, Goto, ReadTo,
     handler, answer, ControlType, Missing404
<1> QED  BY <1>1, <1>2, <1>3, <1>4, <1>5 DEF Handler, Missed

\* The script being fed is there, with its end of the pipe.
LEMMA FedStep ==
  ASSUME NEW d \in Clients, ControlType, ChildType, CgiPlaces(d), Fed(d), Handler(d)
  PROVE  Fed(d)'
<1>1. CASE PipeIn(d)
  <2>1. /\ pc[d] = "pipe_in" /\ UNCHANGED <<req, script, copies>>
        /\ \/ fds' = fds \cup {<<"in_r", d>>, <<"in_w", d>>} /\ pc'[d] = "fork"
           \/ pc'[d] = "send_500"
    BY <1>1 DEF PipeIn, Pipe, Goto, At, client, child, ControlType
  <2> QED  BY <2>1 DEF Fed, CgiPlaces
<1>2. CASE Fork(d)
  <2>1. /\ pc[d] = "fork" /\ server = "running" /\ UNCHANGED <<req, fds>>
        /\ \/ /\ pc'[d] = "close_unused" /\ script'[d] = "running"
              /\ copies'[d] = fds \ PipeEnds(d)
           \/ pc'[d] = "send_500" /\ UNCHANGED <<script, copies>>
    BY <1>2 DEF Fork, Goto, At, client, child, process, ControlType, ChildType
  <2>2. <<"in_r", d>> \notin PipeEnds(d)  BY DEF PipeEnds
  <2> QED  BY <2>1, <2>2 DEF Fed, CgiPlaces
<1>3. ASSUME \/ GetRequestLine(d) \/ Unimplemented(d) \/ Stat(d) \/ DiscardHeaders(d)
             \/ NotFound(d) \/ Fopen(d) \/ NotOpened(d) \/ FcloseNull(d) \/ FileFound(d)
             \/ Cat(d) \/ Fclose(d) \/ ReadCgiHeaders(d) \/ BadRequest(d) \/ CgiOk(d)
             \/ PipeOut(d) \/ CannotExecute(d) \/ CloseUnused(d)
             \/ Feed(d) \/ FeedKilled(d) \/ Relay(d) \/ CgiDone(d) \/ Close(d)
      PROVE  /\ UNCHANGED <<req, script, copies>>
             /\ pc'[d] \notin {"close_unused", "fork"}
             /\ pc'[d] = "feed" => pc[d] = "feed" \/ (pc[d] = "close_unused" /\ Feeds(d))
  <2> USE DEF At, client, process, handler, answer, source, child, ControlType, Goto, ReadTo, Answer,
              Die
  <2>1. CASE GetRequestLine(d) \/ Unimplemented(d) \/ Stat(d) \/ DiscardHeaders(d) \/ NotFound(d)
    BY <2>1 DEF GetRequestLine, Unimplemented, Stat, DiscardHeaders, NotFound
  <2>2. CASE Fopen(d) \/ NotOpened(d) \/ FcloseNull(d) \/ FileFound(d) \/ Cat(d) \/ Fclose(d)
    BY <2>2 DEF Fopen, NotOpened, FcloseNull, FileFound, Cat, Fclose
  <2>3. CASE ReadCgiHeaders(d) \/ BadRequest(d) \/ CgiOk(d) \/ PipeOut(d) \/ CannotExecute(d)
    BY <2>3 DEF ReadCgiHeaders, BadRequest, CgiOk, PipeOut, Pipe, CannotExecute
  <2>4. CASE CloseUnused(d) \/ Feed(d) \/ FeedKilled(d) \/ Relay(d) \/ CgiDone(d) \/ Close(d)
    BY <2>4 DEF CloseUnused, Feed, FeedKilled, Relay, CgiDone, Close
  <2> QED  BY <1>3, <2>1, <2>2, <2>3, <2>4
<1>4. Feeds(d)' <=> (req'[d].method = "POST" /\ req'[d].length)  BY DEF Feeds
<1> QED  BY <1>1, <1>2, <1>3, <1>4 DEF Handler, Fed, Feeds

\* A step that lets the server run closes the socket last, and then the
\* connection is done.
LEMMA HandlerKeeps ==
  ASSUME NEW d \in Clients, ControlType, Handler(d), server' = "running"
  PROVE  /\ fds \ (Own(d) \ {Socket(d)}) \subseteq fds' \/ Close(d)
         /\ pc'[d] = "done" => Close(d)
<1> USE DEF At, process, handler, ControlType, Goto, ReadTo, Answer, Die
<1>1. CASE GetRequestLine(d) \/ Unimplemented(d) \/ Stat(d) \/ DiscardHeaders(d) \/ NotFound(d)
  BY <1>1 DEF GetRequestLine, Unimplemented, Stat, DiscardHeaders, NotFound
<1>2. CASE Fopen(d) \/ NotOpened(d) \/ FcloseNull(d) \/ FileFound(d) \/ Cat(d)
  BY <1>2 DEF Fopen, NotOpened, FcloseNull, FileFound, Cat
<1>3. CASE ReadCgiHeaders(d) \/ BadRequest(d) \/ CgiOk(d) \/ PipeOut(d) \/ PipeIn(d) \/ Fork(d)
  BY <1>3 DEF ReadCgiHeaders, BadRequest, CgiOk, PipeOut, PipeIn, Pipe, Fork
<1>4. CASE CannotExecute(d) \/ Feed(d) \/ FeedKilled(d) \/ Relay(d)
  BY <1>4 DEF CannotExecute, Feed, FeedKilled, Relay
<1>5. CASE Fclose(d) \/ CloseUnused(d) \/ CgiDone(d)
  <2>1. /\ Stream(d) \in Own(d) \ {Socket(d)} /\ ScriptEnds(d) \subseteq Own(d) \ {Socket(d)}
        /\ PipeEnds(d) \subseteq Own(d) \ {Socket(d)}
    BY OwnKinds DEF Own
  <2> QED  BY <1>5, <2>1 DEF Fclose, CloseUnused, CgiDone
<1> QED  BY <1>1, <1>2, <1>3, <1>4, <1>5 DEF Handler

\* In one thread, whoever is handled keeps its socket, and its close leaves
\* room for one.
LEMMA KeptStep ==
  ASSUME Types, Single, \A e \in Clients : Kept(e), NEW d \in Clients, Handler(d)
  PROVE  Room' /\ \A e \in Clients : Kept(e)'
<1> SUFFICES ASSUME ~MultiThread PROVE Room' /\ \A e \in Clients : Kept(e)'
  BY DEF Room, Kept
<1>0. ControlType /\ FdsType /\ Moves(d) /\ server = "running"  BY HandlerMoves, HandlerRuns DEF Types
<1>1. Handled(d) /\ \A e \in Clients \ {d} : ~Handled(e) /\ ~Handled(e)'
  BY <1>0 DEF Moves, Same, Handled, Single
<1>2. Socket(d) \in fds  BY <1>0, <1>1 DEF Kept
<1>3. ASSUME server' = "running", Handled(d)' PROVE Socket(d) \in fds'
  <2>1. pc'[d] # "done"  BY <1>3 DEF Handled
  <2>2. ~Close(d)  BY <1>0, <2>1 DEF Close, Goto, ControlType
  <2> QED  BY <1>0, <1>2, <1>3, <2>2, HandlerKeeps
<1>4. ASSUME server' = "running", ~Handled(d)' PROVE HasFd(1)'
  <2>1. pc'[d] = "done"  BY <1>0, <1>4 DEF Moves, Handled
  <2>2. fds' = fds \ {Socket(d)}  BY <1>0, <1>4, <2>1, HandlerKeeps DEF Close
  <2>3. Cardinality(fds') = Cardinality(fds) - 1 /\ Cardinality(fds) \in Nat
    BY <1>0, <1>2, <2>2, FS_RemoveElement, FS_CardinalityType DEF FdsType
  <2> QED  BY <1>0, <2>3, HttpdAssumption DEF FdsType, HasFd
<1> QED  BY <1>1, <1>3, <1>4 DEF Room, Kept

\* It ends the server only for the known reasons.
LEMMA HandlerDeath ==
  ASSUME Types, Death, NEW d \in Clients, CgiPlaces(d), Fed(d), Handler(d)
  PROVE  Death'
<1>0. Moves(d) /\ server = "running" /\ ControlType /\ ChildType
  BY HandlerMoves, HandlerRuns DEF Types
<1>1. CASE FeedKilled(d)
  <2>1. /\ pc[d] = "feed" /\ <<"in_r", d>> \notin copies[d] /\ server' = "killed"
        /\ UNCHANGED <<req, cgi, script>>
    BY <1>1 DEF FeedKilled, Held, At, Die, client, child
  <2>2. cgi[d] /\ req[d].method = "POST" /\ script[d] = "ended"
    BY <1>0, <2>1 DEF CgiPlaces, CgiSteps, Fed, Feeds, ChildType
  <2> QED  BY <2>1, <2>2 DEF Death
<1>2. CASE FcloseNull(d)
  <2>1. server' = server \/ (server' = "crashed" /\ pc'[d] = "fclose_null")
    BY <1>2 DEF FcloseNull, Die, At, handler
  <2> QED  BY <1>0, <2>1 DEF Death
<1>3. ASSUME ~FeedKilled(d), ~FcloseNull(d)
      PROVE  server' = "running" \/ (server' = "killed" /\ peer[d] = "reset")
  <2> USE DEF At, process, Answer, Die
  <2>1. CASE GetRequestLine(d) \/ Unimplemented(d) \/ Stat(d) \/ DiscardHeaders(d) \/ NotFound(d)
    BY <2>1 DEF GetRequestLine, Unimplemented, Stat, DiscardHeaders, NotFound
  <2>2. CASE Fopen(d) \/ NotOpened(d) \/ FileFound(d) \/ Cat(d) \/ Fclose(d)
    BY <2>2 DEF Fopen, NotOpened, FileFound, Cat, Fclose
  <2>3. CASE ReadCgiHeaders(d) \/ BadRequest(d) \/ CgiOk(d) \/ PipeOut(d) \/ PipeIn(d) \/ Fork(d)
    BY <2>3 DEF ReadCgiHeaders, BadRequest, CgiOk, PipeOut, PipeIn, Pipe, Fork
  <2>4. CASE CannotExecute(d) \/ CloseUnused(d) \/ Feed(d) \/ Relay(d) \/ CgiDone(d) \/ Close(d)
    BY <2>4 DEF CannotExecute, CloseUnused, Feed, Relay, CgiDone, Close
  <2> QED  BY <1>3, <2>1, <2>2, <2>3, <2>4 DEF Handler
<1> QED  BY <1>0, <1>1, <1>2, <1>3 DEF Death, Moves, client

---------------------------------------------------------------------------
(* Every step.                                                             *)

Justified(d) == Fits(d) /\ Missed(d) /\ Fed(d)

\* A connection whose handler does not move, but for its script's end.
LEMMA StillAnswering ==
  ASSUME NEW e \in Clients, Justified(e), NotThere(e) => NotThere(e)',
         pc'[e] = pc[e], status'[e] = status[e], cgi'[e] = cgi[e], req'[e] = req[e],
         peer'[e] = "open" => peer[e] = "open" \/ (pc[e] = "none" /\ status[e] = <<>>),
         script'[e] = "none" => script[e] = "none",
         script'[e] = "running" => script[e] = "running" /\ copies'[e] = copies[e],
         server' = "running" /\ pc[e] = "fork" =>
           server = "running" /\ (<<"in_r", e>> \in fds => <<"in_r", e>> \in fds')
  PROVE  Justified(e)'
<1>1. Fits(e)'
  <2>1. \A c : One(c) # <<>>  BY AnswersDiffer
  <2> QED  BY <2>1 DEF Justified, Fits
<1>2. Missed(e)'  BY DEF Justified, Missed
<1>3. Fed(e)'  BY DEF Justified, Fed, Feeds
<1> QED  BY <1>1, <1>2, <1>3 DEF Justified

\* A handler's step.
LEMMA HandlerAnswering ==
  ASSUME NEW K \in Nat, Plenty(K), Crowd(K), AInv, NEW d \in Clients, Handler(d)
  PROVE  Room' /\ Death' /\ \A e \in Clients : Answering(e)'
<1>0. /\ Types /\ Queued /\ Single /\ Death /\ \A e \in Clients : Local(e)
      /\ \A e \in Clients : Fits(e) /\ Missed(e) /\ Fed(e) /\ Kept(e)
      /\ ClientType /\ ControlType /\ DataType /\ ChildType
  BY DEF AInv, CInv, IInv, Types, Answering
<1>1. CgiPlaces(d) /\ Content(d)  BY <1>0 DEF Local
<1>2. Room' /\ \A e \in Clients : Kept(e)'  BY <1>0, KeptStep
<1>3. Death'  BY <1>0, <1>1, HandlerDeath
<1>4. Fits(d)' /\ Missed(d)' /\ Fed(d)'  BY <1>0, <1>1, FitsStep, MissedStep, FedStep
<1>5. ASSUME NEW e \in Clients \ {d} PROVE Fits(e)' /\ Missed(e)' /\ Fed(e)'
  <2>1. Moves(d)  BY <1>0, HandlerMoves
  <2>2. Same(e) /\ UNCHANGED <<req, peer>>  BY <2>1 DEF Moves, client
  <2>3. ASSUME server' = "running" PROVE <<"in_r", e>> \in fds => <<"in_r", e>> \in fds'
    <3>1. <<"in_r", e>> \in Own(e) /\ Socket(d) \in Own(d)
      BY DEF Own, AllPipeEnds, ScriptEnds
    <3>2. <<"in_r", e>> \notin Own(d)  BY <3>1, OwnDistinct
    <3>3. Close(d) => fds' = fds \ {Socket(d)}  BY DEF Close
    <3> QED  BY <1>0, <2>3, <3>1, <3>2, <3>3, HandlerKeeps
  <2>4. server = "running" /\ (NotThere(e) => NotThere(e)')
    <3>1. [Next]_vars  BY DEF Next
    <3> QED  BY <1>0, <3>1, NotThereStays, HandlerRuns DEF Local
  <2>5. Justified(e)'  BY <1>0, <2>2, <2>3, <2>4, StillAnswering DEF Justified, Same
  <2> QED  BY <2>5 DEF Justified
<1> QED  BY <1>2, <1>3, <1>4, <1>5 DEF Answering

\* Accept's step.
LEMMA AcceptAnswering ==
  ASSUME AInv, Accept
  PROVE  Room' /\ Death' /\ \A e \in Clients : Answering(e)'
<1>0. /\ Types /\ Queued /\ \A e \in Clients : CgiPlaces(e) /\ Carried(e)
      /\ \A e \in Clients : Fits(e) /\ Missed(e) /\ Fed(e) /\ Kept(e)
      /\ ControlType
  BY DEF AInv, CInv, IInv, Local, Types, Answering
<1>1. PICK d \in Clients : d = Head(queue) /\ pc[d] = "none"
  <2>1. queue \in Seq(Clients) /\ queue # <<>>  BY <1>0 DEF Accept, CanAccept, Types, QueueType
  <2>2. Head(queue) = queue[1] /\ 1 \in 1..Len(queue) /\ Head(queue) \in Clients  BY <2>1
  <2> QED  BY <1>0, <2>2 DEF Queued
<1>2. /\ \/ pc' = [pc EXCEPT ![d] = "line"]
         \/ MultiThread /\ pc' = [pc EXCEPT ![d] = "orphan"]
      /\ fds' = fds \cup {Socket(d)} /\ server = "running"
      /\ UNCHANGED <<req, peer, server, cgi, status, script, copies>>
      /\ MultiThread \/ \A e \in Clients : ~Handled(e)
  BY <1>1 DEF Accept, CanAccept, answer, child
<1>3. /\ pc'[d] = "line" \/ (MultiThread /\ pc'[d] = "orphan")
      /\ \A e \in Clients \ {d} : pc'[e] = pc[e]
  BY <1>0, <1>2 DEF ControlType
<1>4. Room' /\ Death'  BY <1>2, <1>3 DEF Room, Death, Handled
<1>5. Answering(d)'
  <2>1. status[d] = <<>> /\ script[d] = "none"
    BY <1>0, <1>1 DEF Carried, CgiPlaces
  <2>2. Both # <<>> /\ \A c : One(c) # <<>>  BY AnswersDiffer DEF Both
  <2>3. Fits(d)'  BY <1>2, <1>3, <2>1, <2>2 DEF Fits, Filing
  <2>4. Missed(d)'  BY <1>2, <1>3, <2>1, <2>2 DEF Missed, Missing404
  <2>5. Fed(d)' /\ Kept(d)'  BY <1>2, <1>3, <2>1 DEF Fed, Kept
  <2> QED  BY <2>3, <2>4, <2>5 DEF Answering
<1>6. ASSUME NEW e \in Clients \ {d} PROVE Answering(e)'
  <2>1. MultiThread \/ ~Handled(e)'  BY <1>2, <1>3 DEF Handled
  <2>3. NotThere(e) => NotThere(e)'
    <3>1. [Next]_vars  BY DEF Next, Main
    <3> QED  BY <1>0, <3>1, NotThereStays
  <2>4. Justified(e)'  BY <1>0, <1>2, <1>3, <2>3, StillAnswering DEF Justified
  <2> QED  BY <2>1, <2>4 DEF Justified, Answering, Kept
<1> QED  BY <1>4, <1>5, <1>6

\* What a step that is no handler's and accepts nothing may do.
Quiet ==
  /\ UNCHANGED <<req, pc, cgi, status>>
  /\ UNCHANGED <<server, fds>> \/ AcceptFails
  /\ \A e \in Clients :
       /\ peer'[e] = "open" => peer[e] \in {"open", "none"}
       /\ peer[e] = "reset" => peer'[e] = "reset"
       /\ script'[e] = "none" => script[e] = "none"
       /\ script[e] = "ended" => script'[e] = "ended"
       /\ script'[e] = "running" => script[e] = "running" /\ copies'[e] = copies[e]

\* The steps of clients, files and scripts, a failing accept, and stuttering.
LEMMA OtherAnswering ==
  ASSUME NEW K \in Nat, Plenty(K), Crowd(K), AInv,
         \/ Environment \/ AcceptFails \/ UNCHANGED vars
         \/ \E d \in Clients : ScriptWrites(d) \/ ScriptExits(d)
  PROVE  Room' /\ Death' /\ \A e \in Clients : Answering(e)'
<1>0. /\ Types /\ Queued /\ Room /\ Death /\ \A e \in Clients : CgiPlaces(e) /\ Carried(e)
      /\ \A e \in Clients : Fits(e) /\ Missed(e) /\ Fed(e) /\ Kept(e)
      /\ ClientType /\ ChildType /\ FdsType /\ queue \in Seq(Clients) /\ \A e \in Clients : Owned(e)
  BY DEF AInv, CInv, IInv, Local, Types, QueueType, Answering
<1>1. Quiet
  <2> USE <1>0 DEF Quiet, client, process, handler, answer, child, ClientType, ChildType
  <2>1. ASSUME NEW d \in Clients, Connect(d) \/ SendMore(d) \/ StopSending(d) PROVE Quiet
    BY <2>1 DEF Connect, SendMore, StopSending
  <2>2. CASE (\E t \in Targets : Remove(t)) \/ AcceptFails \/ UNCHANGED vars
    BY <2>2 DEF Remove, AcceptFails, vars
  <2>3. ASSUME NEW d \in Clients, ScriptWrites(d) \/ ScriptExits(d) PROVE Quiet
    BY <2>3 DEF ScriptWrites, ScriptExits
  <2> QED  BY <2>1, <2>2, <2>3 DEF Environment
<1>2. queue # <<>> => queue' # <<>> /\ Head(queue') = Head(queue)
  <2>1. UNCHANGED queue \/ \E d \in Clients : queue' = Append(queue, d)
    BY DEF Environment, Connect, SendMore, StopSending, Remove, AcceptFails, ScriptWrites,
           ScriptExits, vars, client
  <2> QED  BY <1>0, <2>1
<1>3. AcceptFails => server' = "exited" /\ queue # <<>> /\ peer[Head(queue)] = "reset"
  <2> SUFFICES ASSUME AcceptFails PROVE HasFd(1)
    BY DEF AcceptFails, CanAccept, Die
  <2>1. server = "running" /\ queue # <<>> /\ (MultiThread \/ \A e \in Clients : ~Handled(e))
    BY DEF AcceptFails, CanAccept
  <2>2. CASE ~MultiThread  BY <1>0, <2>1, <2>2 DEF Room
  <2>3. CASE MultiThread
    <3>1. Head(queue) = queue[1] /\ 1 \in 1..Len(queue) /\ Head(queue) \in Clients  BY <1>0, <2>1
    <3>2. PICK d \in Clients : d = Head(queue) /\ pc[d] = "none"  BY <1>0, <3>1 DEF Queued
    <3>3. d \in Busy  BY <2>1, <3>2 DEF Busy
    <3>4. fds \cap Own(d) \subseteq {Socket(d)}  BY <1>0, <3>2 DEF Owned, Own
    <3> QED  BY <1>0, <2>3, <3>3, <3>4, RoomInThreads
  <2> QED  BY <2>2, <2>3
<1>4. Room'  BY <1>0, <1>1, <1>3 DEF Quiet, Room, Handled, HasFd
<1>5. Death'
  <2>1. queue # <<>> => Head(queue) \in Clients  BY <1>0
  <2> QED  BY <1>0, <1>1, <1>2, <1>3, <2>1 DEF Quiet, Death
<1>6. ASSUME NEW e \in Clients PROVE Answering(e)'
  <2>1. peer[e] = "none" => pc[e] = "none" /\ status[e] = <<>>  BY <1>0 DEF Queued, Carried
  <2>2. NotThere(e) => NotThere(e)'
    <3>1. [Next]_vars  BY DEF Next, Main
    <3> QED  BY <1>0, <3>1, NotThereStays
  <2>3. server' = "running" => server = "running" /\ UNCHANGED fds  BY <1>1, <1>3 DEF Quiet
  <2>4. Justified(e)'  BY <1>0, <1>1, <2>1, <2>2, <2>3, StillAnswering DEF Quiet, Justified
  <2>5. Kept(e)'  BY <1>0, <1>1, <2>3 DEF Quiet, Kept, Handled
  <2> QED  BY <2>4, <2>5 DEF Justified, Answering
<1> QED  BY <1>4, <1>5, <1>6

\* So every step keeps the invariant.
LEMMA StepAInv ==
  ASSUME NEW K \in Nat, Plenty(K), Crowd(K), AInv, [Next]_vars PROVE AInv'
<1>1. CInv'  BY StepCInv DEF AInv
<1>2. Room' /\ Death' /\ \A e \in Clients : Answering(e)'
  BY HandlerAnswering, AcceptAnswering, OtherAnswering DEF Next, Main
<1> QED  BY <1>1, <1>2 DEF AInv

\* With descriptors enough it always holds.
LEMMA AnswerInvariant ==
  ASSUME NEW K \in Nat, Plenty(K) PROVE Spec /\ []Crowd(K) => []AInv
<1>1. Init => AInv  BY InitAInv
<1>2. Crowd(K) /\ AInv /\ [Next]_vars => AInv'  BY StepAInv
<1> QED  BY <1>1, <1>2, PTL DEF Spec

\* One thread needs three descriptors, whatever the number of connections.
LEMMA OneThread == ASSUME FdLimit >= 3, ~MultiThread PROVE Spec => []AInv
<1> SUFFICES ASSUME NEW K \in Nat PROVE Spec => []AInv
  OBVIOUS
<1>1. Plenty(K)  BY DEF Plenty
<1>2. Spec /\ []Crowd(K) => []AInv  BY <1>1, AnswerInvariant
<1>3. Crowd(K)  BY DEF Crowd
<1> QED  BY <1>2, <1>3, PTL

---------------------------------------------------------------------------
(* The properties.                                                         *)

\* The answer to each client is justified.
LEMMA AInvFits == AInv => AnswerFits
<1> SUFFICES ASSUME AInv, NEW d \in Clients
    PROVE  /\ status[d] \in {<<>>, One(200), Both, One(400), One(404), One(501)}
           /\ status[d] = One(501) => req[d].method = "other" \/ peer[d] # "open"
           /\ status[d] = One(400) =>
                req[d].method = "POST" /\ (~req[d].length \/ peer[d] # "open")
           /\ status[d] = One(404) =>
                \/ fs[req[d].target].open = "absent" \/ (req[d].method = "POST" /\ req[d].query)
                \/ \E e \in Clients \ {d} : LeftPipes(e)
           /\ status[d] \in {One(200), Both} /\ ~cgi[d] =>
                req[d].method = "GET" /\ status[d] = One(200)
  BY DEF AnswerFits, One, Both
<1>1. Fits(d) /\ Missed(d)  BY DEF AInv, Answering
<1> QED  BY <1>1 DEF Fits, Final, Missed, NotThere, Leaked

\* So is the server's end.
LEMMA AInvDeath == AInv => DiesOnlyOf
<1> SUFFICES ASSUME AInv PROVE DiesOnlyOf
  OBVIOUS
<1>1. ASSUME NEW d \in Clients, pc[d] = "fclose_null"
      PROVE  /\ ~cgi[d]
             /\ \/ fs[req[d].target].open = "absent"
                \/ \E e \in Clients \ {d} : LeftPipes(e)
  <2>1. CgiPlaces(d) /\ Fits(d) /\ Missed(d)  BY DEF AInv, CInv, IInv, Local, Answering
  <2>2. ~cgi[d] /\ req[d].method = "GET"  BY <1>1, <2>1 DEF CgiPlaces, CgiSteps, Fits, Filing
  <2> QED  BY <1>1, <2>1, <2>2 DEF Missed, Missing404, NotThere, Leaked
<1> QED  BY <1>1 DEF AInv, Death, DiesOnlyOf

\* In one thread every client gets at most one answer, and one its request
\* calls for: no 404 for a file that can be opened, but when failed CGI calls
\* have leaked the descriptors.
THEOREM AnswersFit == FdLimit >= 3 /\ ~MultiThread => (Spec => []AnswerFits)
<1> SUFFICES ASSUME FdLimit >= 3, ~MultiThread PROVE Spec => []AnswerFits
  OBVIOUS
<1>1. Spec => []AInv  BY OneThread
<1> QED  BY <1>1, AInvFits, PTL

\* In one thread nothing but the known events ends the server: leaked
\* descriptors never make accept fail.
THEOREM DeathsKnown == FdLimit >= 3 /\ ~MultiThread => (Spec => []DiesOnlyOf)
<1> SUFFICES ASSUME FdLimit >= 3, ~MultiThread PROVE Spec => []DiesOnlyOf
  OBVIOUS
<1>1. Spec => []AInv  BY OneThread
<1> QED  BY <1>1, AInvDeath, PTL

\* With threads the same is so while at most K connections at a time are
\* handled, next to be accepted, or have left descriptors behind, and the
\* process may have 5K - 2 of them.
THEOREM AnswersFitCrowd ==
  ASSUME NEW K \in Nat, FdLimit >= 5 * K - 2, MultiThread
  PROVE  Spec /\ []Crowd(K) => []AnswerFits
<1>1. Plenty(K)  BY DEF Plenty
<1>2. Spec /\ []Crowd(K) => []AInv  BY <1>1, AnswerInvariant
<1> QED  BY <1>2, AInvFits, PTL

\* And the server ends as in one thread.
THEOREM DeathsKnownCrowd ==
  ASSUME NEW K \in Nat, FdLimit >= 5 * K - 2, MultiThread
  PROVE  Spec /\ []Crowd(K) => []DiesOnlyOf
<1>1. Plenty(K)  BY DEF Plenty
<1>2. Spec /\ []Crowd(K) => []AInv  BY <1>1, AnswerInvariant
<1> QED  BY <1>2, AInvDeath, PTL

\* No more connections can be busy than there are clients.
LEMMA CrowdOfClients ==
  ASSUME IsFiniteSet(Clients) PROVE Crowd(Cardinality(Clients))
BY FS_Subset DEF Crowd, Busy

\* So descriptors for all clients at once are enough.
THEOREM AnswersFitThreads ==
  IsFiniteSet(Clients) /\ FdLimit >= 5 * Cardinality(Clients) - 2 /\ MultiThread =>
    (Spec => []AnswerFits) /\ (Spec => []DiesOnlyOf)
<1> SUFFICES ASSUME IsFiniteSet(Clients), MultiThread,
                    NEW K \in Nat, K = Cardinality(Clients), FdLimit >= 5 * K - 2
             PROVE  (Spec => []AnswerFits) /\ (Spec => []DiesOnlyOf)
  BY FS_CardinalityType
<1>1. Spec /\ []Crowd(K) => []AnswerFits  BY AnswersFitCrowd
<1>2. Spec /\ []Crowd(K) => []DiesOnlyOf  BY DeathsKnownCrowd
<1>3. Crowd(K)  BY CrowdOfClients
<1> QED  BY <1>1, <1>2, <1>3, PTL
=============================================================================
