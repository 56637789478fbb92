---------------------------- MODULE CgiExchange ----------------------------
(***************************************************************************)
(* httpd_execute_cgi (src/src/httpd.c) after the request line: the server  *)
(* answers 200, makes two pipes, forks the script, feeds it the request's  *)
(* body byte by byte, relays what it writes byte by byte, and reaps it.    *)
(* Three parties run at once: the server, the script and the client.       *)
(*                                                                         *)
(* Data.  The n-th byte of the body, and the n-th byte the script writes,  *)
(* is the number n, so a byte that is lost, repeated or swapped shows.     *)
(* The byte 0 is the initial value of the server's variable c.             *)
(***************************************************************************)
EXTENDS Integers, Sequences

CONSTANTS Scripts,    \* what a script may do: sequences of the operations below
          PipeCap,    \* how many bytes a pipe holds
          MaxBody     \* bound: the bytes of the body, and the Content-Length

(***************************************************************************)
(* "body" reads CONTENT_LENGTH bytes from standard input, "all" reads      *)
(* until end of file, "out" writes one byte to standard output.  A script  *)
(* that ends after its last operation may also be one that crashed there.  *)
(***************************************************************************)
Ops == {"body", "all", "out"}

ASSUME CgiAssumption ==
  /\ Scripts \subseteq Seq(Ops)
  /\ PipeCap \in Nat \ {0} /\ MaxBody \in Nat

VARIABLES method, length,   \* the request's method and Content-Length header
          reads,            \* the client reads what it is sent
          script, op,       \* the script and its next operation; 0 before execl
          pc, cpc,          \* the server, the child process
          pfd, cfd,         \* the pipe ends each of them has open
          peer,             \* the client: "open", "shut" (it sends no more), "reset"
          arrived, received,\* body bytes that reached the socket, that recv took
          c,                \* the server's one-byte buffer
          fed, taken,       \* bytes written to the input pipe, read by the script
          written, pulled,  \* bytes written to the output pipe, read by the server
          status, relayed   \* status codes and script bytes sent to the client

request == <<method, length, reads, script>>
client == <<peer, arrived>>
input == <<fed, taken>>
output == <<written, pulled>>
reply == <<status, relayed>>
vars == <<request, op, pc, cpc, pfd, cfd, client, received, c, input, output, reply>>

Ends == {"in_r", "in_w", "out_r", "out_w"}
Methods == {"GET", "POST"}

ServerSteps == {"headers", "bad_request", "ok", "pipe_out", "pipe_in", "fork",
                "cannot_execute", "close_unused", "recv", "write", "read", "send",
                "close_ends", "wait", "returned", "killed"}
ChildSteps == {"none", "setup", "exec", "run", "exited", "reaped"}

\* -1 stands for no Content-Length header, -2 for a negative one.
Init ==
  /\ method \in Methods
  /\ length \in IF method = "POST" THEN -2..MaxBody ELSE {-1}
  /\ reads \in BOOLEAN /\ script \in Scripts /\ op = 0
  /\ pc = "headers" /\ cpc = "none" /\ pfd = {} /\ cfd = {}
  /\ peer = "open" /\ arrived = 0 /\ received = 0 /\ c = 0
  /\ fed = <<>> /\ taken = 0 /\ written = 0 /\ pulled = 0
  /\ status = <<>> /\ relayed = <<>>

---------------------------------------------------------------------------
(* The client.                                                             *)

Arrive ==
  /\ peer = "open" /\ arrived < MaxBody /\ arrived' = arrived + 1
  /\ UNCHANGED <<request, op, pc, cpc, pfd, cfd, peer, received, c, input, output, reply>>

Shut ==
  /\ peer = "open" /\ peer' = "shut"
  /\ UNCHANGED <<request, op, pc, cpc, pfd, cfd, arrived, received, c, input, output, reply>>

\* A reset may discard what the server has not yet received.
Reset ==
  /\ peer # "reset" /\ peer' = "reset" /\ arrived' \in received..arrived
  /\ UNCHANGED <<request, op, pc, cpc, pfd, cfd, received, c, input, output, reply>>

Client == Arrive \/ Shut \/ Reset

---------------------------------------------------------------------------
(* The server.                                                             *)

\* The header lines are read (module GetLine); a POST needs a Content-Length.
ReadHeaders ==
  /\ pc = "headers"
  /\ pc' = IF method = "POST" /\ length = -1 THEN "bad_request" ELSE "ok"
  /\ UNCHANGED <<request, op, cpc, pfd, cfd, client, received, c, input, output, reply>>

\* The results of send are not looked at: on a reset connection it fails ...
SendStatus(code) ==
  status' = IF peer = "reset" THEN status ELSE Append(status, code)

\* ... or raises SIGPIPE, which the server neither handles nor ignores.
Killed == pc' = "killed" /\ pfd' = {}

BadRequest ==
  /\ pc = "bad_request"
  /\ \/ pc' = "returned" /\ SendStatus(400) /\ UNCHANGED pfd
     \/ peer = "reset" /\ Killed /\ UNCHANGED status
  /\ UNCHANGED <<request, op, cpc, cfd, client, received, c, input, output, relayed>>

AnswerOk ==
  /\ pc = "ok"
  /\ \/ pc' = "pipe_out" /\ SendStatus(200) /\ UNCHANGED pfd
     \/ peer = "reset" /\ Killed /\ UNCHANGED status
  /\ UNCHANGED <<request, op, cpc, cfd, client, received, c, input, output, relayed>>

PipeOut ==
  /\ pc = "pipe_out"
  /\ \/ pc' = "pipe_in" /\ pfd' = pfd \cup {"out_r", "out_w"}
     \/ pc' = "cannot_execute" /\ UNCHANGED pfd
  /\ UNCHANGED <<request, op, cpc, cfd, client, received, c, input, output, reply>>

PipeIn ==
  /\ pc = "pipe_in"
  /\ \/ pc' = "fork" /\ pfd' = pfd \cup {"in_r", "in_w"}
     \/ pc' = "cannot_execute" /\ UNCHANGED pfd
  /\ UNCHANGED <<request, op, cpc, cfd, client, received, c, input, output, reply>>

\* The child has a copy of every open descriptor.
Fork ==
  /\ pc = "fork"
  /\ \/ pc' = "close_unused" /\ cpc' = "setup" /\ cfd' = pfd
     \/ pc' = "cannot_execute" /\ UNCHANGED <<cpc, cfd>>
  /\ UNCHANGED <<request, op, pfd, client, received, c, input, output, reply>>

\* The pipes that were made stay open.
CannotExecute ==
  /\ pc = "cannot_execute"
  /\ \/ pc' = "returned" /\ SendStatus(500) /\ UNCHANGED pfd
     \/ peer = "reset" /\ Killed /\ UNCHANGED status
  /\ UNCHANGED <<request, op, cpc, cfd, client, received, c, input, output, relayed>>

CloseUnusedForgotten ==
  /\ pc = "close_unused" /\ pfd' = pfd \ {"in_r"}
  /\ pc' = IF method = "POST" /\ length > 0 THEN "recv" ELSE "read"
  /\ UNCHANGED <<request, op, cpc, cfd, client, received, c, input, output, reply>>

CloseUnused ==
  /\ pc = "close_unused" /\ pfd' = pfd \ {"out_w", "in_r"}
  /\ pc' = IF method = "POST" /\ length > 0 THEN "recv" ELSE "read"
  /\ UNCHANGED <<request, op, cpc, cfd, client, received, c, input, output, reply>>

RecvPeeks ==
  /\ pc = "recv" /\ (received < arrived \/ peer # "open")
  /\ pc' = "write" /\ c' = IF received < arrived THEN received + 1 ELSE c
  /\ UNCHANGED <<request, op, cpc, pfd, cfd, client, received, input, output, reply>>

\* The result of recv is not looked at: with nothing to come c keeps its value.
Recv ==
  /\ pc = "recv" /\ (received < arrived \/ peer # "open")
  /\ pc' = "write"
  /\ IF received < arrived
     THEN received' = received + 1 /\ c' = received + 1
     ELSE UNCHANGED <<received, c>>
  /\ UNCHANGED <<request, op, cpc, pfd, cfd, client, input, output, reply>>

\* A full pipe blocks the write, a pipe nobody reads kills the writer.
Write ==
  /\ pc = "write"
  /\ \/ /\ "in_r" \in cfd /\ Len(fed) - taken < PipeCap
        /\ fed' = Append(fed, c)
        /\ pc' = IF Len(fed) + 1 < length THEN "recv" ELSE "read"
        /\ UNCHANGED pfd
     \/ "in_r" \notin pfd \cup cfd /\ Killed /\ UNCHANGED fed
  /\ UNCHANGED <<request, op, cpc, cfd, client, received, c, taken, output, reply>>

ReadSendsAtEnd ==
  /\ pc = "read"
  /\ \/ pulled < written /\ pulled' = pulled + 1 /\ c' = pulled + 1 /\ pc' = "send"
     \/ /\ pulled = written /\ "out_w" \notin pfd \cup cfd
        /\ pc' = "close_ends" /\ relayed' = Append(relayed, c) /\ UNCHANGED <<pulled, c>>
  /\ UNCHANGED <<request, op, cpc, pfd, cfd, client, received, input, written, status>>

ReadStopsEarly ==
  /\ pc = "read"
  /\ \/ pulled < written /\ pulled' = pulled + 1 /\ c' = pulled + 1 /\ pc' = "send"
     \/ pulled = written /\ written > 0 /\ pc' = "close_ends" /\ UNCHANGED <<pulled, c>>
  /\ UNCHANGED <<request, op, cpc, pfd, cfd, client, received, input, written, reply>>

\* read returns 0 once the pipe is empty and nobody has its writing end open.
Read ==
  /\ pc = "read"
  /\ \/ pulled < written /\ pulled' = pulled + 1 /\ c' = pulled + 1 /\ pc' = "send"
     \/ /\ pulled = written /\ "out_w" \notin pfd \cup cfd
        /\ pc' = "close_ends" /\ UNCHANGED <<pulled, c>>
  /\ UNCHANGED <<request, op, cpc, pfd, cfd, client, received, input, written, reply>>

\* Without a reader the socket's buffer fills up and send blocks; it always
\* has room for a status line.
SendByte ==
  /\ pc = "send" /\ (reads \/ peer = "reset")
  /\ \/ /\ pc' = "read" /\ UNCHANGED pfd
        /\ relayed' = IF peer = "reset" THEN relayed ELSE Append(relayed, c)
     \/ peer = "reset" /\ Killed /\ UNCHANGED relayed
  /\ UNCHANGED <<request, op, cpc, cfd, client, received, c, input, output, status>>

CloseOneEnd ==
  /\ pc = "close_ends" /\ pc' = "wait" /\ pfd' = pfd \ {"out_r"}
  /\ UNCHANGED <<request, op, cpc, cfd, client, received, c, input, output, reply>>

CloseEnds ==
  /\ pc = "close_ends" /\ pc' = "wait" /\ pfd' = pfd \ {"out_r", "in_w"}
  /\ UNCHANGED <<request, op, cpc, cfd, client, received, c, input, output, reply>>

Wait ==
  /\ pc = "wait" /\ cpc = "exited" /\ pc' = "returned" /\ cpc' = "reaped"
  /\ UNCHANGED <<request, op, pfd, cfd, client, received, c, input, output, reply>>

Server ==
  \/ ReadHeaders \/ BadRequest \/ AnswerOk \/ PipeOut \/ PipeIn \/ Fork
  \/ CannotExecute \/ CloseUnused \/ Recv \/ Write \/ Read \/ SendByte
  \/ CloseEnds \/ Wait

---------------------------------------------------------------------------
(* The child process: the server's code up to execl, then the script.      *)

SetupClosesReader ==
  /\ cpc = "setup" /\ cpc' = "exec" /\ cfd' = cfd \ {"out_r", "in_w", "in_r"}
  /\ UNCHANGED <<request, op, pc, pfd, client, received, c, input, output, reply>>

Setup ==
  /\ cpc = "setup" /\ cpc' = "exec" /\ cfd' = cfd \ {"out_r", "in_w"}
  /\ UNCHANGED <<request, op, pc, pfd, client, received, c, input, output, reply>>

\* When execl fails the child exits with status 0, having written nothing.
Exec ==
  /\ cpc = "exec"
  /\ \/ cpc' = "run" /\ op' = 1 /\ UNCHANGED cfd
     \/ cpc' = "exited" /\ cfd' = {} /\ UNCHANGED op
  /\ UNCHANGED <<request, pc, pfd, client, received, c, input, output, reply>>

Doing(o) == cpc = "run" /\ op \in 1..Len(script) /\ script[op] = o
BodyRead == taken >= length
InputEnd == taken = Len(fed) /\ "in_w" \notin pfd \cup cfd

ReadInput ==
  /\ Doing("all") \/ (Doing("body") /\ ~BodyRead)
  /\ taken < Len(fed) /\ taken' = taken + 1
  /\ UNCHANGED <<request, op, pc, cpc, pfd, cfd, client, received, c, fed, output, reply>>

StopReading ==
  /\ \/ (Doing("all") \/ Doing("body")) /\ InputEnd
     \/ Doing("body") /\ BodyRead
  /\ op' = op + 1
  /\ UNCHANGED <<request, pc, cpc, pfd, cfd, client, received, c, input, output, reply>>

\* The original pipe descriptors stay open beside the copies dup2 made, so
\* only its exit gives the script's ends up.
Exit == cpc' = "exited" /\ cfd' = {}

WriteOutput ==
  /\ Doing("out")
  /\ \/ /\ "out_r" \in pfd /\ written - pulled < PipeCap
        /\ written' = written + 1 /\ op' = op + 1 /\ UNCHANGED <<cpc, cfd>>
     \/ "out_r" \notin pfd \cup cfd /\ Exit /\ UNCHANGED <<written, op>>
  /\ UNCHANGED <<request, pc, pfd, client, received, c, input, pulled, reply>>

EndScript ==
  /\ cpc = "run" /\ op > Len(script) /\ Exit
  /\ UNCHANGED <<request, op, pc, pfd, client, received, c, input, output, reply>>

Child == Setup \/ Exec \/ ReadInput \/ StopReading \/ WriteOutput \/ EndScript

Next == Client \/ Server \/ Child
Spec == Init /\ [][Next]_vars

(***************************************************************************)
(* Both processes are scheduled by the kernel: neither stops for ever at a *)
(* step it can take.  Nothing is assumed of the client.                    *)
(***************************************************************************)
FairSpec == Spec /\ WF_vars(Server) /\ WF_vars(Child)

Reply == INSTANCE CgiReply WITH
  phase <- CASE pc = "returned" -> "closed" [] pc = "killed" -> "dead"
             [] OTHER -> "open",
  lost <- (peer = "reset"),
  produced <- written

---------------------------------------------------------------------------
ControlType ==
  /\ method \in Methods /\ length \in -2..MaxBody
  /\ reads \in BOOLEAN /\ script \in Scripts
  /\ op \in 0..Len(script)+1
  /\ pc \in ServerSteps /\ cpc \in ChildSteps
  /\ pfd \subseteq Ends /\ cfd \subseteq Ends
  /\ peer \in {"open", "shut", "reset"}

DataType ==
  /\ arrived \in 0..MaxBody /\ received \in 0..arrived /\ c \in Nat
  /\ fed \in Seq(Nat) /\ taken \in 0..Len(fed) /\ Len(fed) - taken <= PipeCap
  /\ written \in Nat /\ pulled \in 0..written /\ written - pulled <= PipeCap
  /\ status \in Seq({200, 400, 500}) /\ relayed \in Seq(Nat)

\* Every variable keeps its type, and no pipe holds more than it can.
TypeOK == ControlType /\ DataType

\* The script is fed the body the client sent, byte by byte and in order.
\* When the client stops before Content-Length bytes, and only then, the
\* rest is filled with repetitions of the last byte received (0 if none).
FedIsBody ==
  /\ \A n \in 1..Len(fed) : fed[n] = IF n <= received THEN n ELSE received
  /\ Len(fed) > received => peer # "open" /\ received = arrived

\* The client gets the script's output and nothing else, in order; a call
\* that returns after reaping the script has relayed all of it.
RelayFaithful ==
  /\ \A n \in 1..Len(relayed) : relayed[n] = n
  /\ pc = "returned" /\ cpc = "reaped" /\ peer # "reset" =>
       status = <<200>> /\ Len(relayed) = written

\* A call that forked returns with every pipe end closed and the child
\* reaped: serving CGI requests uses up neither descriptors nor processes.
NoLeak == pc = "returned" /\ cpc # "none" => pfd = {} /\ cfd = {} /\ cpc = "reaped"

\* Only a reset connection, or a child that ended with input left to read
\* before any of its output was relayed, kills the server.
KilledOnlyBy ==
  pc = "killed" =>
     \/ peer = "reset"
     \/ cpc = "exited" /\ method = "POST" /\ taken < length /\ pulled = 0

Ended == pc \in {"returned", "killed"}

\* Where the server waits: for the client's body or its reading, for room in
\* the input pipe, for output or its end, for the script to exit.
ServerWaits ==
  \/ pc = "recv" /\ received = arrived /\ peer = "open"
  \/ /\ pc = "write" /\ "in_r" \in pfd \cup cfd
     /\ "in_r" \in cfd => Len(fed) - taken >= PipeCap
  \/ pc = "read" /\ pulled = written /\ "out_w" \in pfd \cup cfd
  \/ pc = "send" /\ ~reads /\ peer # "reset"
  \/ pc = "wait" /\ cpc # "exited"

\* Where the script waits: for input or its end, for room in the output pipe.
ChildWaits ==
  \/ Doing("all") /\ taken = Len(fed) /\ ~InputEnd
  \/ Doing("body") /\ ~BodyRead /\ taken = Len(fed) /\ ~InputEnd
  \/ /\ Doing("out") /\ "out_r" \in pfd \cup cfd
     /\ "out_r" \in pfd => written - pulled >= PipeCap

NoChild == cpc \in {"none", "exited", "reaped"}

\* When the server waits and the child waits or is not there, one of four
\* waits explains it: the server waits for the rest of the body, or for the
\* client to read; the script waits for an end of file the server signals
\* only after the script's own output has ended; or both pipes are full and
\* each process waits for the other to read.
StallsKnown ==
  ServerWaits /\ (ChildWaits \/ NoChild) =>
     \/ pc = "recv" /\ peer = "open" /\ received = arrived
     \/ pc = "send" /\ ~reads /\ peer # "reset"
     \/ pc = "read" /\ Doing("all") /\ taken = Len(fed)
     \/ /\ pc = "write" /\ Len(fed) - taken = PipeCap
        /\ Doing("out") /\ written - pulled = PipeCap

\* A call that has not ended, and of which neither process can take a step,
\* is in one of those four waits.
OnlyKnownStalls ==
  /\ ~Ended /\ ~ENABLED Server => ServerWaits
  /\ ~ENABLED Child => ChildWaits \/ NoChild
  /\ StallsKnown

\* The script reads its body before it writes, and never to end of file.
ReadsFirst ==
  /\ script # <<>> /\ script[1] = "body"
  /\ \A k \in 1..Len(script) : script[k] # "all"

ClientDone == peer # "open" \/ arrived >= length

\* With such a script, and a client that sends its body or stops sending and
\* reads what it is sent, the call ends.
Completes == ReadsFirst /\ reads => (<>ClientDone => <>Ended)

\* The call keeps the promise CgiReply makes to the client.
Refines == Reply!Spec

\* "It is not obliged to read any of the data": a script that leaves its input
\* unread does not end the server, which only a client that resets may do.
ServerSurvives == pc = "killed" => peer = "reset"
=============================================================================
