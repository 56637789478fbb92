------------------------------- MODULE Httpd -------------------------------
(***************************************************************************)
(* The whole server (src/src/httpd.c): main accepts connections and calls  *)
(* httpd_accept_request for each, in the same thread or, when compiled     *)
(* with SERVER_MUTI_THREAD, in a thread of its own.  The handler reads the *)
(* request line, looks the file up, and serves the file, runs it as a CGI  *)
(* script or answers with an error.  Clients send their requests piecewise *)
(* or not at all, files disappear between the server's system calls, and   *)
(* the process has a limited number of descriptors.                        *)
(*                                                                         *)
(* Reading lines is module GetLine's subject, a CGI call's pipes and bytes *)
(* are module CgiExchange's: here a line is there or not, and a CGI call   *)
(* takes the steps module CgiReply allows it.                              *)
(***************************************************************************)
EXTENDS Integers, Sequences, FiniteSets

CONSTANTS Clients,
          Requests,      \* the requests clients make
          Targets,       \* the files requests name
          Files,         \* the states a file can be in
          MultiThread,   \* SERVER_MUTI_THREAD
          Backlog,       \* the argument of listen
          FdLimit,       \* descriptors the process may have open
          ThreadLimit,   \* threads it may have; none is joined or detached
          BufSize,       \* bytes httpd_cat_file reads at a time
          MaxOut         \* bound: bytes a script writes

(***************************************************************************)
(* stat: what stat says of the path.  open: what fopen and fread then make *)
(* of it ("broken": fread fails, as it does on a directory); for a         *)
(* directory this is index.html below it.  cgi: the path's suffix is one   *)
(* of a CGI script; exec: it has an execute bit.                           *)
(***************************************************************************)
File == [stat : {"missing", "file", "dir"}, open : {"ok", "absent", "broken"},
         cgi : BOOLEAN, exec : BOOLEAN, size : Nat]
Gone == [stat |-> "missing", open |-> "absent", cgi |-> FALSE, exec |-> FALSE, size |-> 0]

Request == [method : {"GET", "POST", "other"}, target : Targets,
            alias : BOOLEAN,     \* the URL is in ALIAS_URL
            query : BOOLEAN,     \* the URL has a '?'
            length : BOOLEAN,    \* there is a Content-Length header, and a body
            reads : BOOLEAN]     \* its client reads what it is sent

ASSUME HttpdAssumption ==
  /\ Requests \subseteq Request /\ Files \subseteq File
  /\ \A f \in Files : f.stat = "missing" => f.open = "absent"
  /\ MultiThread \in BOOLEAN
  /\ 0 \notin Clients
  /\ Backlog \in Nat \ {0} /\ FdLimit \in Nat \ {0} /\ ThreadLimit \in Nat
  /\ BufSize \in Nat \ {0} /\ MaxOut \in Nat

VARIABLES req,       \* the request the server makes of what each client sends
          fs,        \* the state of each file
          peer,      \* each client's connection: "none", "open", "shut", "reset"
          sent,      \* how much of its request it has sent: 0 nothing, 1 the
                     \* request line and perhaps some headers, 2 all headers,
                     \* 3 the body as well
          read,      \* how much of it, in the same pieces, the handler read
          queue,     \* connections established and not yet accepted
          server,    \* "running", "exited", "crashed", "killed"
          pc,        \* each connection's handler
          cgi,       \* the handler's is_cgi
          fds,       \* the server's open descriptors
          threads,   \* threads created
          status,    \* the status codes sent to each client
          body,      \* how many bytes of the file or of the output it was sent
          script,    \* its CGI script: "none", "running", "ended"
          file,      \* the file fopen opened
          out,       \* how many bytes fread returned or the script wrote
          copies     \* the descriptors the script's process has

client == <<req, fs, peer, sent, queue>>
handler == <<pc, read>>
process == <<server, fds, threads>>
answer == <<status, body>>
source == <<file, out>>
child == <<script, copies>>
vars == <<client, process, handler, cgi, answer, source, child>>

Listening == <<"listen", 0>>
Socket(d) == <<"socket", d>>
Stream(d) == <<"file", d>>
PipeEnds(d) == {<<"in_w", d>>, <<"out_r", d>>}
ScriptEnds(d) == {<<"in_r", d>>, <<"out_w", d>>}
AllPipeEnds(d) == PipeEnds(d) \cup ScriptEnds(d)

Descriptors ==
  {Listening} \cup UNION {{Socket(d), Stream(d)} \cup AllPipeEnds(d) : d \in Clients}

Init ==
  /\ req \in [Clients -> Requests] /\ fs \in [Targets -> Files]
  /\ peer = [d \in Clients |-> "none"] /\ sent = [d \in Clients |-> 0]
  /\ queue = <<>> /\ server = "running" /\ fds = {Listening} /\ threads = 0
  /\ pc = [d \in Clients |-> "none"] /\ read = [d \in Clients |-> 0] /\ cgi = [d \in Clients |-> FALSE]
  /\ status = [d \in Clients |-> <<>>] /\ body = [d \in Clients |-> 0]
  /\ file = [d \in Clients |-> Gone] /\ out = [d \in Clients |-> 0]
  /\ script = [d \in Clients |-> "none"] /\ copies = [d \in Clients |-> {}]

---------------------------------------------------------------------------
(* Clients and the file system.                                            *)

\* A descriptor is held by the server, or by a script that has a copy.
Held(fd) == fd \in fds \/ \E e \in Clients : fd \in copies[e]

\* The kernel completes a connection while the backlog has room, also when
\* only a script still holds the listening socket.
Connect(d) ==
  /\ Held(Listening) /\ peer[d] = "none" /\ Len(queue) < Backlog
  /\ peer' = [peer EXCEPT ![d] = "open"] /\ queue' = Append(queue, d)
  /\ UNCHANGED <<req, fs, sent, process, handler, cgi, answer, source, child>>

Whole(d) == IF req[d].method = "POST" /\ req[d].length THEN 3 ELSE 2

SendMore(d) ==
  /\ peer[d] = "open"
  /\ sent[d] < Whole(d) /\ sent' = [sent EXCEPT ![d] = @ + 1]
  /\ UNCHANGED <<req, fs, peer, queue, process, handler, cgi, answer, source, child>>

StopSending(d) ==
  /\ \/ peer[d] = "open" /\ peer' = [peer EXCEPT ![d] = "shut"]
     \/ peer[d] \in {"open", "shut"} /\ peer' = [peer EXCEPT ![d] = "reset"]
  /\ UNCHANGED <<req, fs, sent, queue, process, handler, cgi, answer, source, child>>

\* A file is removed, at any moment between two calls of the server.
Remove(t) ==
  /\ fs[t] # Gone /\ fs' = [fs EXCEPT ![t] = Gone]
  /\ UNCHANGED <<req, peer, sent, queue, process, handler, cgi, answer, source, child>>

Environment ==
  \/ \E d \in Clients : Connect(d) \/ SendMore(d) \/ StopSending(d)
  \/ \E t \in Targets : Remove(t)

---------------------------------------------------------------------------
(* main: the accept loop.                                                  *)

Die(how) == server' = how /\ fds' = {}

Handled(d) == pc[d] \notin {"none", "orphan", "done"}
CanAccept == server = "running" /\ queue # <<>> /\ (MultiThread \/ ~\E d \in Clients : Handled(d))
HasFd(n) == Cardinality(fds) + n <= FdLimit

Accept ==
  /\ CanAccept /\ HasFd(1)
  /\ queue' = Tail(queue) /\ fds' = fds \cup {Socket(Head(queue))}
  /\ \/ /\ ~MultiThread \/ threads < ThreadLimit
        /\ pc' = [pc EXCEPT ![Head(queue)] = "line"]
        /\ threads' = IF MultiThread THEN threads + 1 ELSE threads
     \/ /\ MultiThread                             \* pthread_create fails
        /\ pc' = [pc EXCEPT ![Head(queue)] = "orphan"] /\ UNCHANGED threads
  /\ UNCHANGED <<req, fs, peer, sent, server, read, cgi, answer, source, child>>

\* accept fails without a descriptor, and may on a connection already reset.
AcceptFails ==
  /\ CanAccept /\ (~HasFd(1) \/ peer[Head(queue)] = "reset")
  /\ Die("exited")
  /\ UNCHANGED <<client, threads, handler, cgi, answer, source, child>>

---------------------------------------------------------------------------
(* httpd_accept_request, one connection's handler.                         *)

At(d, from) == server = "running" /\ pc[d] = from
Goto(d, to) == pc' = [pc EXCEPT ![d] = to] /\ UNCHANGED read
ReadTo(d, n, to) == pc' = [pc EXCEPT ![d] = to] /\ read' = [read EXCEPT ![d] = n]

\* Status line and headers are sent.  On a reset connection send fails,
\* which is ignored, or raises SIGPIPE, which ends the process.
Answer(d, from, code, to) ==
  /\ At(d, from)
  /\ \/ /\ Goto(d, to) /\ UNCHANGED process
        /\ status' = IF peer[d] = "reset" THEN status
                     ELSE [status EXCEPT ![d] = Append(@, code)]
     \/ peer[d] = "reset" /\ Die("killed") /\ UNCHANGED <<threads, handler, status>>
  /\ UNCHANGED <<client, cgi, body, source, child>>

(***************************************************************************)
(* What the client sent can be read, also after it stopped sending; after  *)
(* a reset it may be lost.  With nothing to come recv returns at once.     *)
(***************************************************************************)
Got(d, n) == sent[d] >= n
Missing(d, n) == peer[d] = "reset" \/ (peer[d] = "shut" /\ ~Got(d, n))

(***************************************************************************)
(* A send to a client that does not read blocks once the socket's buffer   *)
(* is full; headers always fit in it, files and scripts' output need not.  *)
(***************************************************************************)
CanSend(d) == req[d].reads \/ peer[d] = "reset"

\* Nothing read leaves the method empty, which is neither GET nor POST.
GetRequestLine(d) ==
  /\ At(d, "line")
  /\ \/ Got(d, 1) /\ ReadTo(d, 1, IF req[d].method = "other" THEN "send_501" ELSE "stat")
     \/ Missing(d, 1) /\ ReadTo(d, 1, "send_501")
  /\ UNCHANGED <<client, process, cgi, answer, source, child>>

Unimplemented(d) == Answer(d, "send_501", 501, "close")

\* The query is cut off a GET's URL only: a POST's path still has it in it.
Found(d) ==
  /\ fs[req[d].target].stat # "missing"
  /\ ~(req[d].method = "POST" /\ req[d].query)

IsCgi(d) ==
  \/ req[d].method = "POST" \/ req[d].query \/ req[d].alias
  \/ fs[req[d].target].cgi /\ fs[req[d].target].exec

StatKeepsHeaders(d) ==
  /\ At(d, "stat")
  /\ IF Found(d)
     THEN /\ cgi' = [cgi EXCEPT ![d] = IsCgi(d)]
          /\ Goto(d, IF IsCgi(d) THEN "cgi_headers" ELSE "headers")
     ELSE Goto(d, "send_404") /\ UNCHANGED cgi
  /\ UNCHANGED <<client, process, answer, source, child>>

Stat(d) ==
  /\ At(d, "stat")
  /\ IF Found(d)
     THEN /\ cgi' = [cgi EXCEPT ![d] = IsCgi(d)]
          /\ Goto(d, IF IsCgi(d) THEN "cgi_headers" ELSE "headers")
     ELSE Goto(d, "headers_404") /\ UNCHANGED cgi
  /\ UNCHANGED <<client, process, answer, source, child>>

DiscardNeverEnds(d) ==
  /\ Got(d, 2)
  /\ \/ At(d, "headers") /\ ReadTo(d, 2, "fopen")
     \/ At(d, "headers_404") /\ ReadTo(d, 2, "send_404")
  /\ UNCHANGED <<client, process, cgi, answer, source, child>>

\* Read and discard the header lines, to the empty line or to the end.
DiscardHeaders(d) ==
  /\ Got(d, 2) \/ Missing(d, 2)
  /\ \/ At(d, "headers") /\ ReadTo(d, 2, "fopen")
     \/ At(d, "headers_404") /\ ReadTo(d, 2, "send_404")
  /\ UNCHANGED <<client, process, cgi, answer, source, child>>

NotFoundGoesOn(d) == Answer(d, "send_404", 404, "headers")
NotFound(d) == Answer(d, "send_404", 404, "close")

CloseForgotten(d) ==
  /\ At(d, "close") /\ Goto(d, "done")
  /\ UNCHANGED <<client, process, cgi, answer, source, child>>

Close(d) ==
  /\ At(d, "close") /\ Goto(d, "done") /\ fds' = fds \ {Socket(d)}
  /\ UNCHANGED <<client, server, threads, cgi, answer, source, child>>

---------------------------------------------------------------------------
(* httpd_serve_file and httpd_cat_file.                                    *)

Fopen(d) ==
  /\ At(d, "fopen")
  /\ IF fs[req[d].target].open # "absent" /\ HasFd(1)
     THEN /\ Goto(d, "send_200") /\ fds' = fds \cup {Stream(d)}
          /\ file' = [file EXCEPT ![d] = fs[req[d].target]]
     ELSE Goto(d, "send_404_null") /\ UNCHANGED <<fds, file>>
  /\ UNCHANGED <<client, server, threads, cgi, answer, out, child>>

NotOpened(d) == Answer(d, "send_404_null", 404, "fclose_null")

\* fclose(NULL) is undefined: the process crashes, or nothing happens.
FcloseNull(d) ==
  /\ At(d, "fclose_null")
  /\ \/ Die("crashed") /\ UNCHANGED handler
     \/ Goto(d, "close") /\ UNCHANGED <<server, fds>>
  /\ UNCHANGED <<client, threads, cgi, answer, source, child>>

FileFound(d) == Answer(d, "send_200", 200, "cat")

CatStopsShort(d) ==
  LET left == file[d].size - out[d]
      count == IF left < BufSize THEN left ELSE BufSize
  IN
  /\ At(d, "cat")
  /\ out' = [out EXCEPT ![d] = @ + count]
  /\ body' = IF peer[d] = "reset" THEN body ELSE [body EXCEPT ![d] = @ + count]
  /\ Goto(d, "fclose")
  /\ UNCHANGED <<client, process, cgi, status, file, child>>

(***************************************************************************)
(* One turn of the loop in httpd_cat_file; end of file shows only when a   *)
(* read comes up short.  On a broken stream it never shows: fread returns  *)
(* 0, the turn sends nothing, and the loop goes on for ever, a step that   *)
(* changes nothing here.                                                   *)
(***************************************************************************)
Cat(d) ==
  LET left == file[d].size - out[d]
      count == IF left < BufSize THEN left ELSE BufSize
  IN
  /\ At(d, "cat") /\ CanSend(d)
  /\ \/ /\ file[d].open = "ok"
        /\ out' = [out EXCEPT ![d] = @ + count]
        /\ body' = IF peer[d] = "reset" THEN body ELSE [body EXCEPT ![d] = @ + count]
        /\ Goto(d, IF count < BufSize THEN "fclose" ELSE "cat")
        /\ UNCHANGED process
     \/ peer[d] = "reset" /\ Die("killed") /\ UNCHANGED <<threads, handler, out, body>>
  /\ UNCHANGED <<client, cgi, status, file, child>>

Fclose(d) ==
  /\ At(d, "fclose") /\ Goto(d, "close") /\ fds' = fds \ {Stream(d)}
  /\ UNCHANGED <<client, server, threads, cgi, answer, source, child>>

---------------------------------------------------------------------------
(* httpd_execute_cgi, as far as the rest of the server notices it.         *)

\* Cut headers may still have the Content-Length line among them.
ReadCgiHeaders(d) ==
  /\ At(d, "cgi_headers")
  /\ \/ /\ Got(d, 2)
        /\ ReadTo(d, 2, IF req[d].method = "POST" /\ ~req[d].length
                        THEN "send_400" ELSE "cgi_200")
     \/ Missing(d, 2) /\ req[d].method = "POST" /\ ReadTo(d, 2, "send_400")
     \/ /\ Missing(d, 2) /\ req[d].method = "POST" => req[d].length
        /\ ReadTo(d, 2, "cgi_200")
  /\ UNCHANGED <<client, process, cgi, answer, source, child>>

BadRequest(d) == Answer(d, "send_400", 400, "close")
CgiOk(d) == Answer(d, "cgi_200", 200, "pipe_out")

\* When pipe or fork fails, the pipes made before stay open.
Pipe(d, from, ends, to) ==
  /\ At(d, from)
  /\ \/ HasFd(2) /\ fds' = fds \cup ends /\ Goto(d, to)
     \/ Goto(d, "send_500") /\ UNCHANGED fds
  /\ UNCHANGED <<client, server, threads, cgi, answer, source, child>>

PipeOut(d) == Pipe(d, "pipe_out", {<<"out_r", d>>, <<"out_w", d>>}, "pipe_in")
PipeIn(d) == Pipe(d, "pipe_in", {<<"in_r", d>>, <<"in_w", d>>}, "fork")

(***************************************************************************)
(* The script's process gets a copy of every descriptor open at the fork,  *)
(* also of those that belong to other threads' requests, and closes the    *)
(* server's ends of its own pipes only.                                    *)
(***************************************************************************)
Fork(d) ==
  /\ At(d, "fork")
  /\ \/ /\ Goto(d, "close_unused")
        /\ script' = [script EXCEPT ![d] = "running"]
        /\ copies' = [copies EXCEPT ![d] = fds \ PipeEnds(d)]
     \/ Goto(d, "send_500") /\ UNCHANGED child
  /\ UNCHANGED <<client, process, cgi, answer, source>>

Feeds(d) == req[d].method = "POST" /\ req[d].length

CloseUnusedForgets(d) ==
  /\ At(d, "close_unused") /\ Goto(d, IF Feeds(d) THEN "feed" ELSE "relay")
  /\ UNCHANGED <<client, process, cgi, answer, source, child>>

CloseUnusedFeedsAll(d) ==
  /\ At(d, "close_unused") /\ Goto(d, "feed") /\ fds' = fds \ ScriptEnds(d)
  /\ UNCHANGED <<client, server, threads, cgi, answer, source, child>>

CloseUnused(d) ==
  /\ At(d, "close_unused") /\ Goto(d, IF Feeds(d) THEN "feed" ELSE "relay")
  /\ fds' = fds \ ScriptEnds(d)
  /\ UNCHANGED <<client, server, threads, cgi, answer, source, child>>

\* The body is received and written to the script's input.
Feed(d) ==
  /\ At(d, "feed") /\ (Got(d, 3) \/ Missing(d, 3)) /\ ReadTo(d, 3, "relay")
  /\ UNCHANGED <<client, process, cgi, answer, source, child>>

\* A byte of it is written when nobody can read the input any more.
FeedKilled(d) ==
  /\ At(d, "feed") /\ ~Held(<<"in_r", d>>)
  /\ Die("killed")
  /\ UNCHANGED <<client, threads, handler, cgi, answer, source, child>>

CannotExecuteGoesOn(d) == Answer(d, "send_500", 500, "relay")
CannotExecute(d) == Answer(d, "send_500", 500, "close")

Relay(d) ==
  /\ At(d, "relay") /\ body[d] < out[d] /\ CanSend(d)
  /\ \/ peer[d] # "reset" /\ body' = [body EXCEPT ![d] = @ + 1] /\ UNCHANGED process
     \/ peer[d] = "reset" /\ Die("killed") /\ UNCHANGED <<threads, body>>
  /\ UNCHANGED <<client, handler, cgi, status, source, child>>

CgiDoneEarly(d) ==
  /\ At(d, "relay") /\ (body[d] = out[d] \/ peer[d] = "reset")
  /\ Goto(d, "close") /\ fds' = fds \ PipeEnds(d)
  /\ UNCHANGED <<client, server, threads, cgi, answer, source, child>>

\* The output ends when nobody can write to it any more; the wait for the
\* script's own process follows.
CgiDone(d) ==
  /\ At(d, "relay") /\ script[d] = "ended" /\ ~Held(<<"out_w", d>>)
  /\ (body[d] = out[d] \/ peer[d] = "reset")
  /\ Goto(d, "close") /\ fds' = fds \ PipeEnds(d)
  /\ UNCHANGED <<client, server, threads, cgi, answer, source, child>>

ScriptWrites(d) ==
  /\ script[d] = "running" /\ out[d] < MaxOut /\ <<"out_r", d>> \in fds
  /\ out' = [out EXCEPT ![d] = @ + 1]
  /\ UNCHANGED <<client, process, handler, cgi, answer, file, child>>

\* It may end at any moment, and at once when execl fails.
ScriptExits(d) ==
  /\ script[d] = "running" /\ script' = [script EXCEPT ![d] = "ended"]
  /\ copies' = [copies EXCEPT ![d] = {}]
  /\ UNCHANGED <<client, process, handler, cgi, answer, source>>

Handler(d) ==
  \/ GetRequestLine(d) \/ Unimplemented(d) \/ Stat(d) \/ DiscardHeaders(d)
  \/ NotFound(d) \/ Fopen(d) \/ NotOpened(d) \/ FcloseNull(d) \/ FileFound(d)
  \/ Cat(d) \/ Fclose(d) \/ ReadCgiHeaders(d) \/ BadRequest(d) \/ CgiOk(d)
  \/ PipeOut(d) \/ PipeIn(d) \/ Fork(d) \/ CannotExecute(d) \/ CloseUnused(d)
  \/ Feed(d) \/ FeedKilled(d) \/ Relay(d) \/ CgiDone(d) \/ Close(d)

Main == Accept \/ AcceptFails
Next ==
  \/ Environment \/ Main
  \/ \E d \in Clients : Handler(d) \/ ScriptWrites(d) \/ ScriptExits(d)

Spec == Init /\ [][Next]_vars

(***************************************************************************)
(* The main thread and every handler are scheduled by the kernel.  Nothing *)
(* is assumed of the clients, the scripts and the file system.             *)
(***************************************************************************)
FairSpec == Spec /\ WF_vars(Main) /\ \A d \in Clients : WF_vars(Handler(d))

\* The CGI call of connection d, as module CgiReply sees it.
ReplyPhase(d) ==
  IF ~cgi[d] THEN "open"
  ELSE IF pc[d] \in {"close", "done"} THEN "closed"
  ELSE IF server # "running" THEN "dead" ELSE "open"
ReplyStatus(d) == IF cgi[d] THEN status[d] ELSE <<>>
ReplyOutput(d) == IF cgi[d] THEN out[d] ELSE 0
ReplySent(d) == [n \in 1..(IF cgi[d] THEN body[d] ELSE 0) |-> n]

Reply(d) == INSTANCE CgiReply WITH
  phase <- ReplyPhase(d), lost <- (peer[d] = "reset"), status <- ReplyStatus(d),
  produced <- ReplyOutput(d), relayed <- ReplySent(d)

---------------------------------------------------------------------------
HandlerSteps ==
  {"none", "orphan", "line", "send_501", "stat", "headers", "headers_404",
   "send_404", "fopen", "send_404_null", "fclose_null", "send_200", "cat",
   "fclose", "cgi_headers", "send_400", "cgi_200", "pipe_out", "pipe_in",
   "fork", "send_500", "close_unused", "feed", "relay", "close", "done"}

\* Every variable keeps its type, and the process its descriptor limit.
TypeOK ==
  /\ req \in [Clients -> Requests] /\ fs \in [Targets -> Files \cup {Gone}]
  /\ peer \in [Clients -> {"none", "open", "shut", "reset"}]
  /\ sent \in [Clients -> 0..3] /\ read \in [Clients -> 0..3]
  /\ queue \in Seq(Clients) /\ Len(queue) <= Backlog
  /\ server \in {"running", "exited", "crashed", "killed"}
  /\ pc \in [Clients -> HandlerSteps] /\ cgi \in [Clients -> BOOLEAN]
  /\ fds \subseteq Descriptors
  /\ HasFd(0) /\ threads \in 0..ThreadLimit
  /\ status \in [Clients -> Seq({200, 400, 404, 500, 501})]
  /\ body \in [Clients -> Nat] /\ out \in [Clients -> Nat]
  /\ file \in [Clients -> Files \cup {Gone}]
  /\ script \in [Clients -> {"none", "running", "ended"}]
  /\ copies \in [Clients -> SUBSET Descriptors]

\* The CGI call of e failed, and may have left pipe ends open.
LeftPipes(e) == cgi[e] /\ script[e] = "none"

\* A client gets at most one answer, and the one its request and the file it
\* names call for, whatever happened to the file between stat and fopen: no
\* 404 for a file that is still there and can be opened, no file for a method that is not GET,
\* no 500 outside CGI.
AnswerFits ==
  \A d \in Clients :
    LET r == req[d]  f == fs[r.target] IN
    /\ status[d] \in {<<>>, <<200>>, <<200, 500>>, <<400>>, <<404>>, <<501>>}
    /\ status[d] = <<501>> => r.method = "other" \/ peer[d] # "open"
    /\ status[d] = <<400>> => r.method = "POST" /\ (~r.length \/ peer[d] # "open")
    /\ status[d] = <<404>> =>
         \/ f.open = "absent" \/ (r.method = "POST" /\ r.query)
         \/ \E e \in Clients \ {d} : LeftPipes(e)
    /\ status[d] \in {<<200>>, <<200, 500>>} /\ ~cgi[d] =>
         r.method = "GET" /\ status[d] = <<200>>

\* A file sent with 200 is sent whole, also when it is removed meanwhile and
\* when its size is a multiple of the buffer's.
WholeFile ==
  \A d \in Clients :
    pc[d] \in {"fclose", "close", "done"} /\ status[d] = <<200>> /\ ~cgi[d] /\ peer[d] # "reset"
      => body[d] = file[d].size

\* When a handler is done, none of its descriptors is open any more, but for
\* the pipe ends of a CGI call that got no process.
DescriptorsReturned ==
  \A d \in Clients : pc[d] = "done" =>
    \/ \A fd \in fds : fd[2] # d
    \/ /\ LeftPipes(d)
       /\ \A fd \in fds : fd[2] = d => fd \in AllPipeEnds(d)

\* An answer reaches its client whole: the connection is closed with
\* nothing unread or still to come, which would make TCP reset it and drop
\* what is on its way, except after a 501 and after a POST with a body that
\* was not run.
AnswerNotCut ==
  \A d \in Clients : pc[d] = "done" /\ sent[d] > read[d] /\ peer[d] # "reset" =>
    \/ status[d] = <<501>>
    \/ Feeds(d) /\ status[d] \in {<<404>>, <<200, 500>>}

\* When a handler is done its client sees the end of the answer: no script
\* still running has inherited the connection and keeps it open.
EndIsSeen ==
  \A d, e \in Clients : pc[d] = "done" => Socket(d) \notin copies[e]

\* What can end the server: accept on a connection that was reset (the
\* descriptors failed CGI calls leak never make accept fail), a file that
\* stat found and fopen cannot open, a connection reset while it is written
\* to, and a script that leaves its input unread.
DiesOnlyOf ==
  /\ server = "exited" => peer[Head(queue)] = "reset"
  /\ server = "crashed" =>
       \E d \in Clients : /\ pc[d] = "fclose_null" /\ ~cgi[d]
                          /\ \/ fs[req[d].target].open = "absent"
                             \/ \E e \in Clients \ {d} : LeftPipes(e)
  /\ server = "killed" =>
       \E d \in Clients : \/ peer[d] = "reset"
                          \/ cgi[d] /\ req[d].method = "POST" /\ script[d] = "ended"

\* The main thread, or the handler of another connection, takes a step.
OtherThread(d) == MultiThread /\ (AcceptFails \/ \E e \in Clients \ {d} : Handler(e))

\* Every CGI call keeps the promise of CgiReply to its client; with threads
\* it may also be cut off, but only by a step of another thread.
CgiAsPromised ==
  [][\A d \in Clients :
       \/ Reply(d)!Next \/ UNCHANGED Reply(d)!replyVars
       \/ OtherThread(d) /\ Reply(d)!Cut]_vars

Connected(d) == peer[d] # "none"
Willing(d) == CanSend(d) /\ (sent[d] = Whole(d) \/ peer[d] \in {"shut", "reset"})
Over(d) == pc[d] \in {"done", "orphan"} \/ server # "running"
ScriptsEnd == \A d \in Clients : []<>(script[d] # "running")

\* If every client that connects sends its request or stops sending, and
\* reads its answer, and every script ends, then every client that connects
\* is served, unless the server dies or is caught in httpd_cat_file on a
\* file it cannot read.
\* (Each state in brackets lasts once it is reached.)
EachServed ==
  ScriptsEnd /\ (\A d \in Clients : []<>(Connected(d) => Willing(d)))
  => \A d \in Clients :
       []<>(Connected(d) => Over(d) \/ \E e \in Clients : file[e].open = "broken")

\* With threads a client that sends its request and reads its answer is
\* served whatever the other clients do.  It waits for its own script, and
\* for another's only when that was forked between the calls of pipe and
\* close in this client's thread and so holds copies of its pipe ends.
OwnPace ==
  \A d \in Clients :
    []<>(\A e \in Clients : copies[e] \cap ScriptEnds(d) = {})
    => []<>(Connected(d) /\ Willing(d) => Over(d) \/ file[d].open = "broken")

\* "Report errors to client if they occur", as the comment on
\* httpd_serve_file says: a file that cannot be opened does not crash it.
OpenErrorReported == server # "crashed"
=============================================================================
