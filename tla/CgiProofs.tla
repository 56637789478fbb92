------------------------------ MODULE CgiProofs ------------------------------
(***************************************************************************)
(* For every set of scripts, every pipe capacity and every body: what the  *)
(* script is fed, what the client gets, what a call leaves behind, what    *)
(* can kill the server or keep it waiting, and that httpd_execute_cgi      *)
(* implements CgiReply.                                                    *)
(***************************************************************************)
EXTENDS CgiExchange, SequenceTheorems, TLAPS

Forking == {"headers", "bad_request", "ok", "pipe_out", "pipe_in", "fork", "cannot_execute"}
Serving == {"close_unused", "recv", "write", "read", "send", "close_ends", "wait"}

\* Which pipe ends are open at each step of the two processes.
Ownership ==
  /\ pc \in {"headers", "bad_request", "ok", "pipe_out", "wait", "killed"} => pfd = {}
  /\ pc = "pipe_in" => pfd = {"out_r", "out_w"}
  /\ pc \in {"fork", "close_unused"} => pfd = Ends
  /\ pc \in {"recv", "write", "read", "send", "close_ends"} => pfd = {"out_r", "in_w"}
  /\ pc \in Forking => cpc = "none"
  /\ pc \in Serving => cpc \in {"setup", "exec", "run", "exited"}
  /\ pc \in {"close_ends", "wait"} => cpc = "exited" /\ pulled = written
  /\ pc = "returned" => cpc \in {"none", "reaped"}
  /\ cpc = "reaped" => pc = "returned" /\ pfd = {}
  /\ cpc \in {"none", "exited", "reaped"} => cfd = {}
  /\ cpc = "setup" => cfd = Ends
  /\ cpc \in {"exec", "run"} => cfd = {"in_r", "out_w"}
  /\ cpc = "run" => op >= 1

\* No more of the body can come, and what came has been received.
Dry == peer # "open" /\ received = arrived

\* How far the body has come from the client to the input pipe.
Feeding ==
  /\ FedIsBody
  /\ pc \in Forking \cup {"close_unused"} => fed = <<>> /\ received = 0 /\ c = 0
  /\ cpc = "none" => written = 0 /\ fed = <<>>
  /\ pc \in {"recv", "write"} =>
       method = "POST" /\ Len(fed) < length /\ c = received
  /\ pc = "recv" => Len(fed) = received \/ (Len(fed) >= received /\ Dry)
  /\ pc = "write" => Len(fed) + 1 = received \/ (Len(fed) >= received /\ Dry)

\* How far the output has come from the output pipe to the client.
Relaying ==
  /\ \A n \in 1..Len(relayed) : relayed[n] = n
  /\ pc \in Forking \cup {"close_unused", "recv", "write"} =>
       pulled = 0 /\ relayed = <<>>
  /\ pc = "send" => c = pulled /\ pulled > 0
  /\ peer # "reset" =>
       /\ pc \in {"headers", "bad_request", "ok"} => status = <<>>
       /\ pc \in (Forking \ {"headers", "bad_request", "ok"}) \cup Serving => status = <<200>>
       /\ pc = "send" => Len(relayed) = pulled - 1
       /\ pc \in {"read", "close_ends", "wait"} => Len(relayed) = pulled
  /\ RelayFaithful /\ KilledOnlyBy

IInv == TypeOK /\ Ownership /\ Feeding /\ Relaying

\* Ends are made, copied at fork and closed in step with the two processes.
LEMMA OwnershipStep == IInv /\ [Next]_vars => Ownership'
<1> SUFFICES ASSUME IInv, [Next]_vars PROVE Ownership'
  OBVIOUS
<1> USE DEF request, client, input, output, reply
<1>1. CASE Arrive
  BY <1>1 DEF Arrive, IInv, TypeOK, ControlType, DataType, Ownership, Forking, Serving, Ends
<1>2. CASE Shut
  BY <1>2 DEF Shut, IInv, TypeOK, ControlType, DataType, Ownership, Forking, Serving, Ends
<1>3. CASE Reset
  BY <1>3 DEF Reset, IInv, TypeOK, ControlType, DataType, Ownership, Forking, Serving, Ends
<1>4. CASE ReadHeaders
  BY <1>4 DEF ReadHeaders, IInv, TypeOK, ControlType, DataType, Ownership, Forking, Serving, Ends
<1>5. CASE BadRequest
  BY <1>5 DEF BadRequest, SendStatus, Killed, IInv, TypeOK, ControlType, DataType, Ownership, Forking, Serving, Ends
<1>6. CASE AnswerOk
  BY <1>6 DEF AnswerOk, SendStatus, Killed, IInv, TypeOK, ControlType, DataType, Ownership, Forking, Serving, Ends
<1>7. CASE PipeOut
  BY <1>7 DEF PipeOut, IInv, TypeOK, ControlType, DataType, Ownership, Forking, Serving, Ends
<1>8. CASE PipeIn
  BY <1>8 DEF PipeIn, IInv, TypeOK, ControlType, DataType, Ownership, Forking, Serving, Ends
<1>9. CASE Fork
  BY <1>9 DEF Fork, IInv, TypeOK, ControlType, DataType, Ownership, Forking, Serving, Ends
<1>10. CASE CannotExecute
  BY <1>10 DEF CannotExecute, SendStatus, Killed, IInv, TypeOK, ControlType, DataType, Ownership, Forking, Serving, Ends
<1>11. CASE CloseUnused
  BY <1>11 DEF CloseUnused, IInv, TypeOK, ControlType, DataType, Ownership, Forking, Serving, Ends
<1>12. CASE Recv
  BY <1>12 DEF Recv, IInv, TypeOK, ControlType, DataType, Ownership, Forking, Serving, Ends
<1>13. CASE Write
  BY <1>13 DEF Write, Killed, IInv, TypeOK, ControlType, DataType, Ownership, Forking, Serving, Ends
<1>14. CASE Read
  BY <1>14 DEF Read, IInv, TypeOK, ControlType, DataType, Ownership, Forking, Serving, Ends
<1>15. CASE SendByte
  BY <1>15 DEF SendByte, Killed, IInv, TypeOK, ControlType, DataType, Ownership, Forking, Serving, Ends
<1>16. CASE CloseEnds
  BY <1>16 DEF CloseEnds, IInv, TypeOK, ControlType, DataType, Ownership, Forking, Serving, Ends
<1>17. CASE Wait
  BY <1>17 DEF Wait, IInv, TypeOK, ControlType, DataType, Ownership, Forking, Serving, Ends
<1>18. CASE Setup
  BY <1>18 DEF Setup, IInv, TypeOK, ControlType, DataType, Ownership, Forking, Serving, Ends
<1>19. CASE Exec
  BY <1>19 DEF Exec, IInv, TypeOK, ControlType, DataType, Ownership, Forking, Serving, Ends
<1>20. CASE ReadInput
  BY <1>20 DEF ReadInput, Doing, BodyRead, IInv, TypeOK, ControlType, DataType, Ownership, Forking, Serving, Ends
<1>21. CASE StopReading
  BY <1>21 DEF StopReading, Doing, BodyRead, InputEnd, IInv, TypeOK, ControlType, DataType, Ownership, Forking, Serving, Ends
<1>22. CASE WriteOutput
  BY <1>22 DEF WriteOutput, Doing, Exit, IInv, TypeOK, ControlType, DataType, Ownership, Forking, Serving, Ends
<1>23. CASE EndScript
  BY <1>23 DEF EndScript, Exit, IInv, TypeOK, ControlType, DataType, Ownership, Forking, Serving, Ends
<1>24. CASE UNCHANGED vars
  BY <1>24 DEF vars, IInv, TypeOK, ControlType, DataType, Ownership, Forking, Serving, Ends
<1> QED
  BY <1>1, <1>2, <1>3, <1>4, <1>5, <1>6, <1>7, <1>8, <1>9, <1>10, <1>11, <1>12, <1>13, <1>14, <1>15, <1>16, <1>17, <1>18, <1>19, <1>20, <1>21, <1>22, <1>23, <1>24
  DEF Next, Client, Server, Child

\* Every step keeps the types of the control state.
LEMMA ControlStep == IInv /\ [Next]_vars => ControlType'
<1> SUFFICES ASSUME IInv, [Next]_vars PROVE ControlType'
  OBVIOUS
<1> USE DEF request, client, input, output, reply
<1>0. Len(script) \in Nat
  BY CgiAssumption, LenProperties DEF IInv, TypeOK, ControlType
<1>1. CASE Arrive
  BY <1>1, <1>0 DEF Arrive, IInv, TypeOK, ControlType, Ends, ServerSteps, ChildSteps
<1>2. CASE Shut
  BY <1>2, <1>0 DEF Shut, IInv, TypeOK, ControlType, Ends, ServerSteps, ChildSteps
<1>3. CASE Reset
  BY <1>3, <1>0 DEF Reset, IInv, TypeOK, ControlType, Ends, ServerSteps, ChildSteps
<1>4. CASE ReadHeaders
  BY <1>4, <1>0 DEF ReadHeaders, IInv, TypeOK, ControlType, Ends, ServerSteps, ChildSteps
<1>5. CASE BadRequest
  BY <1>5, <1>0 DEF BadRequest, SendStatus, Killed, IInv, TypeOK, ControlType, Ends, ServerSteps, ChildSteps
<1>6. CASE AnswerOk
  BY <1>6, <1>0 DEF AnswerOk, SendStatus, Killed, IInv, TypeOK, ControlType, Ends, ServerSteps, ChildSteps
<1>7. CASE PipeOut
  BY <1>7, <1>0 DEF PipeOut, IInv, TypeOK, ControlType, Ends, ServerSteps, ChildSteps
<1>8. CASE PipeIn
  BY <1>8, <1>0 DEF PipeIn, IInv, TypeOK, ControlType, Ends, ServerSteps, ChildSteps
<1>9. CASE Fork
  BY <1>9, <1>0 DEF Fork, IInv, TypeOK, ControlType, Ends, ServerSteps, ChildSteps
<1>10. CASE CannotExecute
  BY <1>10, <1>0 DEF CannotExecute, SendStatus, Killed, IInv, TypeOK, ControlType, Ends, ServerSteps, ChildSteps
<1>11. CASE CloseUnused
  BY <1>11, <1>0 DEF CloseUnused, IInv, TypeOK, ControlType, Ends, ServerSteps, ChildSteps
<1>12. CASE Recv
  BY <1>12, <1>0 DEF Recv, IInv, TypeOK, ControlType, Ends, ServerSteps, ChildSteps
<1>13. CASE Write
  BY <1>13, <1>0 DEF Write, Killed, IInv, TypeOK, ControlType, Ends, ServerSteps, ChildSteps
<1>14. CASE Read
  BY <1>14, <1>0 DEF Read, IInv, TypeOK, ControlType, Ends, ServerSteps, ChildSteps
<1>15. CASE SendByte
  BY <1>15, <1>0 DEF SendByte, Killed, IInv, TypeOK, ControlType, Ends, ServerSteps, ChildSteps
<1>16. CASE CloseEnds
  BY <1>16, <1>0 DEF CloseEnds, IInv, TypeOK, ControlType, Ends, ServerSteps, ChildSteps
<1>17. CASE Wait
  BY <1>17, <1>0 DEF Wait, IInv, TypeOK, ControlType, Ends, ServerSteps, ChildSteps
<1>18. CASE Setup
  BY <1>18, <1>0 DEF Setup, IInv, TypeOK, ControlType, Ends, ServerSteps, ChildSteps
<1>19. CASE Exec
  <2>1. op' \in {op, 1} /\ UNCHANGED script
    BY <1>19 DEF Exec
  <2>2. op' \in 0..Len(script')+1
    BY <1>0, <2>1 DEF IInv, TypeOK, ControlType
  <2> QED
    BY <1>19, <2>2 DEF Exec, IInv, TypeOK, ControlType, Ends, ServerSteps, ChildSteps
<1>20. CASE ReadInput
  BY <1>20, <1>0 DEF ReadInput, Doing, BodyRead, IInv, TypeOK, ControlType, Ends, ServerSteps, ChildSteps
<1>21. CASE StopReading
  BY <1>21, <1>0 DEF StopReading, Doing, BodyRead, InputEnd, IInv, TypeOK, ControlType, Ends, ServerSteps, ChildSteps
<1>22. CASE WriteOutput
  <2>1. op' \in {op, op + 1} /\ op \in 1..Len(script) /\ UNCHANGED script
    BY <1>22 DEF WriteOutput, Doing
  <2>2. op' \in 0..Len(script')+1
    BY <1>0, <2>1
  <2>3. UNCHANGED <<method, length, reads, script, pc, pfd, peer>>
    BY <1>22 DEF WriteOutput
  <2>4. cpc' \in ChildSteps /\ cfd' \subseteq Ends
    BY <1>22 DEF WriteOutput, Exit, ChildSteps, Ends, IInv, TypeOK, ControlType
  <2> QED
    BY <2>2, <2>3, <2>4 DEF IInv, TypeOK, ControlType
<1>23. CASE EndScript
  BY <1>23, <1>0 DEF EndScript, Exit, IInv, TypeOK, ControlType, Ends, ServerSteps, ChildSteps
<1>24. CASE UNCHANGED vars
  BY <1>24 DEF vars, IInv, TypeOK, ControlType, Ends, ServerSteps, ChildSteps
<1> QED
  BY <1>1, <1>2, <1>3, <1>4, <1>5, <1>6, <1>7, <1>8, <1>9, <1>10, <1>11, <1>12, <1>13, <1>14, <1>15, <1>16, <1>17, <1>18, <1>19, <1>20, <1>21, <1>22, <1>23, <1>24
  DEF Next, Client, Server, Child

\* Every step keeps the types of the data.
LEMMA DataStep == IInv /\ [Next]_vars => DataType'
<1> SUFFICES ASSUME IInv, [Next]_vars PROVE DataType'
  OBVIOUS
<1> USE DEF request, client, input, output, reply
<1>0. /\ Len(fed) \in Nat /\ Len(script) \in Nat
      /\ PipeCap \in Nat /\ MaxBody \in Nat
      /\ Append(fed, c) \in Seq(Nat) /\ Len(Append(fed, c)) = Len(fed) + 1
      /\ Append(relayed, c) \in Seq(Nat)
      /\ Append(status, 200) \in Seq({200, 400, 500})
      /\ Append(status, 400) \in Seq({200, 400, 500})
      /\ Append(status, 500) \in Seq({200, 400, 500})
  BY CgiAssumption, LenProperties, AppendProperties DEF IInv, TypeOK, ControlType, DataType
<1>1. CASE Arrive
  BY <1>1, <1>0 DEF Arrive, IInv, TypeOK, DataType
<1>2. CASE Shut
  BY <1>2, <1>0 DEF Shut, IInv, TypeOK, DataType
<1>3. CASE Reset
  BY <1>3, <1>0 DEF Reset, IInv, TypeOK, DataType
<1>4. CASE ReadHeaders
  BY <1>4, <1>0 DEF ReadHeaders, IInv, TypeOK, DataType
<1>5. CASE BadRequest
  <2>1. /\ UNCHANGED <<arrived, received, c, fed, taken, written, pulled, relayed>>
        /\ status' = status \/ status' = Append(status, 400)
    BY <1>5 DEF BadRequest, SendStatus
  <2>2. CASE status' = status
    BY <2>1, <2>2 DEF IInv, TypeOK, DataType
  <2>3. CASE status' = Append(status, 400)
    BY <1>0, <2>1, <2>3 DEF IInv, TypeOK, DataType
  <2> QED  BY <2>1, <2>2, <2>3
<1>6. CASE AnswerOk
  <2>1. /\ UNCHANGED <<arrived, received, c, fed, taken, written, pulled, relayed>>
        /\ status' = status \/ status' = Append(status, 200)
    BY <1>6 DEF AnswerOk, SendStatus
  <2>2. CASE status' = status
    BY <2>1, <2>2 DEF IInv, TypeOK, DataType
  <2>3. CASE status' = Append(status, 200)
    BY <1>0, <2>1, <2>3 DEF IInv, TypeOK, DataType
  <2> QED  BY <2>1, <2>2, <2>3
<1>7. CASE PipeOut
  BY <1>7, <1>0 DEF PipeOut, IInv, TypeOK, DataType
<1>8. CASE PipeIn
  BY <1>8, <1>0 DEF PipeIn, IInv, TypeOK, DataType
<1>9. CASE Fork
  BY <1>9, <1>0 DEF Fork, IInv, TypeOK, DataType
<1>10. CASE CannotExecute
  <2>1. /\ UNCHANGED <<arrived, received, c, fed, taken, written, pulled, relayed>>
        /\ status' = status \/ status' = Append(status, 500)
    BY <1>10 DEF CannotExecute, SendStatus
  <2>2. CASE status' = status
    BY <2>1, <2>2 DEF IInv, TypeOK, DataType
  <2>3. CASE status' = Append(status, 500)
    BY <1>0, <2>1, <2>3 DEF IInv, TypeOK, DataType
  <2> QED  BY <2>1, <2>2, <2>3
<1>11. CASE CloseUnused
  BY <1>11, <1>0 DEF CloseUnused, IInv, TypeOK, DataType
<1>12. CASE Recv
  BY <1>12, <1>0 DEF Recv, IInv, TypeOK, DataType
<1>13. CASE Write
  <2>1. /\ UNCHANGED <<arrived, received, c, taken, written, pulled, status, relayed>>
        /\ \/ fed' = fed
           \/ fed' = Append(fed, c) /\ Len(fed) - taken < PipeCap
    BY <1>13 DEF Write
  <2>2. fed' \in Seq(Nat) /\ taken \in 0..Len(fed') /\ Len(fed') - taken <= PipeCap
    <3>1. fed \in Seq(Nat) /\ taken \in 0..Len(fed) /\ Len(fed) - taken <= PipeCap
      BY DEF IInv, TypeOK, DataType
    <3>2. CASE fed' = fed  BY <3>1, <3>2
    <3>3. CASE fed' = Append(fed, c) /\ Len(fed) - taken < PipeCap
      BY <1>0, <3>1, <3>3
    <3> QED  BY <2>1, <3>2, <3>3
  <2> QED
    BY <2>1, <2>2 DEF IInv, TypeOK, DataType
<1>14. CASE Read
  BY <1>14, <1>0 DEF Read, IInv, TypeOK, DataType
<1>15. CASE SendByte
  BY <1>15, <1>0 DEF SendByte, Killed, IInv, TypeOK, DataType
<1>16. CASE CloseEnds
  BY <1>16, <1>0 DEF CloseEnds, IInv, TypeOK, DataType
<1>17. CASE Wait
  BY <1>17, <1>0 DEF Wait, IInv, TypeOK, DataType
<1>18. CASE Setup
  BY <1>18, <1>0 DEF Setup, IInv, TypeOK, DataType
<1>19. CASE Exec
  BY <1>19, <1>0 DEF Exec, IInv, TypeOK, DataType
<1>20. CASE ReadInput
  BY <1>20, <1>0 DEF ReadInput, Doing, BodyRead, IInv, TypeOK, DataType
<1>21. CASE StopReading
  BY <1>21, <1>0 DEF StopReading, Doing, BodyRead, InputEnd, IInv, TypeOK, DataType
<1>22. CASE WriteOutput
  BY <1>22, <1>0 DEF WriteOutput, Doing, Exit, IInv, TypeOK, DataType
<1>23. CASE EndScript
  BY <1>23, <1>0 DEF EndScript, Exit, IInv, TypeOK, DataType
<1>24. CASE UNCHANGED vars
  BY <1>24 DEF vars, IInv, TypeOK, DataType
<1> QED
  BY <1>1, <1>2, <1>3, <1>4, <1>5, <1>6, <1>7, <1>8, <1>9, <1>10, <1>11, <1>12, <1>13, <1>14, <1>15, <1>16, <1>17, <1>18, <1>19, <1>20, <1>21, <1>22, <1>23, <1>24
  DEF Next, Client, Server, Child

\* Every step keeps the body in order.
LEMMA FeedingStep == IInv /\ [Next]_vars => Feeding'
<1> SUFFICES ASSUME IInv, [Next]_vars PROVE Feeding'
  OBVIOUS
<1> USE DEF request, client, input, output, reply
<1>0. /\ Len(fed) \in Nat
      /\ \A x \in Nat : /\ Len(Append(fed, x)) = Len(fed) + 1
                        /\ \A n \in 1..Len(fed) : Append(fed, x)[n] = fed[n]
                        /\ Append(fed, x)[Len(fed)+1] = x
  BY LenProperties, AppendProperties DEF IInv, TypeOK, DataType
<1>1. CASE Arrive
  BY <1>1, <1>0 DEF Arrive, IInv, TypeOK, ControlType, DataType, Ownership, Feeding, FedIsBody, Dry, Forking, Serving
<1>2. CASE Shut
  BY <1>2, <1>0 DEF Shut, IInv, TypeOK, ControlType, DataType, Ownership, Feeding, FedIsBody, Dry, Forking, Serving
<1>3. CASE Reset
  BY <1>3, <1>0 DEF Reset, IInv, TypeOK, ControlType, DataType, Ownership, Feeding, FedIsBody, Dry, Forking, Serving
<1>4. CASE ReadHeaders
  BY <1>4, <1>0 DEF ReadHeaders, IInv, TypeOK, ControlType, DataType, Ownership, Feeding, FedIsBody, Dry, Forking, Serving
<1>5. CASE BadRequest
  BY <1>5, <1>0 DEF BadRequest, SendStatus, Killed, IInv, TypeOK, ControlType, DataType, Ownership, Feeding, FedIsBody, Dry, Forking, Serving
<1>6. CASE AnswerOk
  BY <1>6, <1>0 DEF AnswerOk, SendStatus, Killed, IInv, TypeOK, ControlType, DataType, Ownership, Feeding, FedIsBody, Dry, Forking, Serving
<1>7. CASE PipeOut
  BY <1>7, <1>0 DEF PipeOut, IInv, TypeOK, ControlType, DataType, Ownership, Feeding, FedIsBody, Dry, Forking, Serving
<1>8. CASE PipeIn
  BY <1>8, <1>0 DEF PipeIn, IInv, TypeOK, ControlType, DataType, Ownership, Feeding, FedIsBody, Dry, Forking, Serving
<1>9. CASE Fork
  BY <1>9, <1>0 DEF Fork, IInv, TypeOK, ControlType, DataType, Ownership, Feeding, FedIsBody, Dry, Forking, Serving
<1>10. CASE CannotExecute
  BY <1>10, <1>0 DEF CannotExecute, SendStatus, Killed, IInv, TypeOK, ControlType, DataType, Ownership, Feeding, FedIsBody, Dry, Forking, Serving
<1>11. CASE CloseUnused
  BY <1>11, <1>0 DEF CloseUnused, IInv, TypeOK, ControlType, DataType, Ownership, Feeding, FedIsBody, Dry, Forking, Serving
<1>12. CASE Recv
  BY <1>12, <1>0 DEF Recv, IInv, TypeOK, ControlType, DataType, Ownership, Feeding, FedIsBody, Dry, Forking, Serving
<1>13. CASE Write
  <2>1. CASE pc' = "killed" /\ UNCHANGED fed
    BY <1>13, <2>1 DEF Write, IInv, Ownership, Feeding, FedIsBody, Forking, Serving
  <2>2. CASE fed' = Append(fed, c) /\ pc' = IF Len(fed) + 1 < length THEN "recv" ELSE "read"
    <3>1. /\ c = received /\ c \in Nat /\ method = "POST" /\ FedIsBody
          /\ Len(fed) + 1 = received \/ (Len(fed) >= received /\ Dry)
          /\ UNCHANGED <<method, length, arrived, received, c, peer, cpc, written>>
      BY <1>13 DEF Write, IInv, Feeding, TypeOK, DataType
    <3>2. /\ Len(fed') = Len(fed) + 1 /\ fed'[Len(fed) + 1] = received
          /\ \A n \in 1..Len(fed) : fed'[n] = fed[n]
      BY <1>0, <2>2, <3>1
    <3>3. \A n \in 1..Len(fed') : fed'[n] = IF n <= received THEN n ELSE received
      <4> SUFFICES ASSUME NEW n \in 1..Len(fed) + 1
                   PROVE  fed'[n] = IF n <= received THEN n ELSE received
        BY <3>2
      <4>1. CASE n \in 1..Len(fed)  BY <3>1, <3>2, <4>1 DEF FedIsBody
      <4>2. CASE n = Len(fed) + 1  BY <1>0, <3>1, <3>2, <4>2
      <4> QED  BY <1>0, <4>1, <4>2
    <3>4. FedIsBody'
      BY <1>0, <3>1, <3>2, <3>3 DEF FedIsBody, Dry
    <3>5. cpc # "none" /\ pc' \in {"recv", "read"} /\ (pc' = "recv" => Len(fed') < length)
      BY <1>13, <2>2, <3>2 DEF Write, IInv, Ownership, Serving
    <3>6. Dry' <=> Dry  BY <3>1 DEF Dry
    <3>7. pc' = "recv" => Len(fed') = received \/ (Len(fed') >= received /\ Dry)
      BY <1>0, <3>1, <3>2
    <3> QED
      BY <3>1, <3>4, <3>5, <3>6, <3>7 DEF Feeding, Forking
  <2> QED  BY <1>13, <2>1, <2>2 DEF Write, Killed
<1>14. CASE Read
  BY <1>14, <1>0 DEF Read, IInv, TypeOK, ControlType, DataType, Ownership, Feeding, FedIsBody, Dry, Forking, Serving
<1>15. CASE SendByte
  BY <1>15, <1>0 DEF SendByte, Killed, IInv, TypeOK, ControlType, DataType, Ownership, Feeding, FedIsBody, Dry, Forking, Serving
<1>16. CASE CloseEnds
  BY <1>16, <1>0 DEF CloseEnds, IInv, TypeOK, ControlType, DataType, Ownership, Feeding, FedIsBody, Dry, Forking, Serving
<1>17. CASE Wait
  BY <1>17, <1>0 DEF Wait, IInv, TypeOK, ControlType, DataType, Ownership, Feeding, FedIsBody, Dry, Forking, Serving
<1>18. CASE Setup
  BY <1>18, <1>0 DEF Setup, IInv, TypeOK, ControlType, DataType, Ownership, Feeding, FedIsBody, Dry, Forking, Serving
<1>19. CASE Exec
  BY <1>19, <1>0 DEF Exec, IInv, TypeOK, ControlType, DataType, Ownership, Feeding, FedIsBody, Dry, Forking, Serving
<1>20. CASE ReadInput
  BY <1>20, <1>0 DEF ReadInput, Doing, BodyRead, IInv, TypeOK, ControlType, DataType, Ownership, Feeding, FedIsBody, Dry, Forking, Serving
<1>21. CASE StopReading
  BY <1>21, <1>0 DEF StopReading, Doing, BodyRead, InputEnd, IInv, TypeOK, ControlType, DataType, Ownership, Feeding, FedIsBody, Dry, Forking, Serving
<1>22. CASE WriteOutput
  BY <1>22, <1>0 DEF WriteOutput, Doing, Exit, IInv, TypeOK, ControlType, DataType, Ownership, Feeding, FedIsBody, Dry, Forking, Serving
<1>23. CASE EndScript
  BY <1>23, <1>0 DEF EndScript, Exit, IInv, TypeOK, ControlType, DataType, Ownership, Feeding, FedIsBody, Dry, Forking, Serving
<1>24. CASE UNCHANGED vars
  BY <1>24 DEF vars, IInv, TypeOK, ControlType, DataType, Ownership, Feeding, FedIsBody, Dry, Forking, Serving
<1> QED
  BY <1>1, <1>2, <1>3, <1>4, <1>5, <1>6, <1>7, <1>8, <1>9, <1>10, <1>11, <1>12, <1>13, <1>14, <1>15, <1>16, <1>17, <1>18, <1>19, <1>20, <1>21, <1>22, <1>23, <1>24
  DEF Next, Client, Server, Child

\* Every step keeps the output in order.
LEMMA RelayingStep == IInv /\ [Next]_vars => Relaying'
<1> SUFFICES ASSUME IInv, [Next]_vars PROVE Relaying'
  OBVIOUS
<1> USE DEF request, client, input, output, reply
<1>0. /\ Len(relayed) \in Nat /\ Len(fed) \in Nat
      /\ \A x \in Nat : /\ Len(Append(relayed, x)) = Len(relayed) + 1
                        /\ \A n \in 1..Len(relayed) : Append(relayed, x)[n] = relayed[n]
                        /\ Append(relayed, x)[Len(relayed)+1] = x
      /\ Append(<<>>, 200) = <<200>>
  BY LenProperties, AppendProperties DEF IInv, TypeOK, DataType
<1>1. CASE Arrive
  BY <1>1, <1>0 DEF Arrive, IInv, TypeOK, ControlType, DataType, Ownership, Feeding, Relaying, RelayFaithful, KilledOnlyBy, Forking, Serving, Ends
<1>2. CASE Shut
  BY <1>2, <1>0 DEF Shut, IInv, TypeOK, ControlType, DataType, Ownership, Feeding, Relaying, RelayFaithful, KilledOnlyBy, Forking, Serving, Ends
<1>3. CASE Reset
  BY <1>3, <1>0 DEF Reset, IInv, TypeOK, ControlType, DataType, Ownership, Feeding, Relaying, RelayFaithful, KilledOnlyBy, Forking, Serving, Ends
<1>4. CASE ReadHeaders
  BY <1>4, <1>0 DEF ReadHeaders, IInv, TypeOK, ControlType, DataType, Ownership, Feeding, Relaying, RelayFaithful, KilledOnlyBy, Forking, Serving, Ends
<1>5. CASE BadRequest
  BY <1>5, <1>0 DEF BadRequest, SendStatus, Killed, IInv, TypeOK, ControlType, DataType, Ownership, Feeding, Relaying, RelayFaithful, KilledOnlyBy, Forking, Serving, Ends
<1>6. CASE AnswerOk
  BY <1>6, <1>0 DEF AnswerOk, SendStatus, Killed, IInv, TypeOK, ControlType, DataType, Ownership, Feeding, Relaying, RelayFaithful, KilledOnlyBy, Forking, Serving, Ends
<1>7. CASE PipeOut
  BY <1>7, <1>0 DEF PipeOut, IInv, TypeOK, ControlType, DataType, Ownership, Feeding, Relaying, RelayFaithful, KilledOnlyBy, Forking, Serving, Ends
<1>8. CASE PipeIn
  BY <1>8, <1>0 DEF PipeIn, IInv, TypeOK, ControlType, DataType, Ownership, Feeding, Relaying, RelayFaithful, KilledOnlyBy, Forking, Serving, Ends
<1>9. CASE Fork
  BY <1>9, <1>0 DEF Fork, IInv, TypeOK, ControlType, DataType, Ownership, Feeding, Relaying, RelayFaithful, KilledOnlyBy, Forking, Serving, Ends
<1>10. CASE CannotExecute
  BY <1>10, <1>0 DEF CannotExecute, SendStatus, Killed, IInv, TypeOK, ControlType, DataType, Ownership, Feeding, Relaying, RelayFaithful, KilledOnlyBy, Forking, Serving, Ends
<1>11. CASE CloseUnused
  BY <1>11, <1>0 DEF CloseUnused, IInv, TypeOK, ControlType, DataType, Ownership, Feeding, Relaying, RelayFaithful, KilledOnlyBy, Forking, Serving, Ends
<1>12. CASE Recv
  BY <1>12, <1>0 DEF Recv, IInv, TypeOK, ControlType, DataType, Ownership, Feeding, Relaying, RelayFaithful, KilledOnlyBy, Forking, Serving, Ends
<1>13. CASE Write
  BY <1>13, <1>0 DEF Write, Killed, IInv, TypeOK, ControlType, DataType, Ownership, Feeding, Relaying, RelayFaithful, KilledOnlyBy, Forking, Serving, Ends
<1>14. CASE Read
  <2>1. /\ pulled \in Nat /\ written \in Nat /\ pulled <= written
        /\ UNCHANGED <<peer, relayed, status, written, cpc, method, length, taken>>
        /\ Relaying /\ pc = "read" /\ cpc # "reaped"
    BY <1>14 DEF Read, IInv, Ownership, TypeOK, DataType
  <2>2. CASE pulled' = pulled + 1 /\ c' = pulled + 1 /\ pc' = "send"
    BY <1>0, <2>1, <2>2 DEF Relaying, RelayFaithful, KilledOnlyBy, Forking, Serving
  <2>3. CASE pulled' = pulled /\ c' = c /\ pc' = "close_ends"
    BY <1>0, <2>1, <2>3 DEF Relaying, RelayFaithful, KilledOnlyBy, Forking, Serving
  <2> QED  BY <1>14, <2>2, <2>3 DEF Read
<1>15. CASE SendByte
  <2>1. /\ pulled \in Nat /\ pulled > 0 /\ c = pulled
        /\ UNCHANGED <<peer, pulled, c, status, written, cpc, method, length, taken>>
        /\ Relaying /\ pc = "send" /\ cpc # "reaped"
    BY <1>15 DEF SendByte, IInv, Ownership, Relaying, TypeOK, DataType
  <2>2. CASE peer = "reset" /\ UNCHANGED relayed /\ pc' \in {"read", "killed"}
    BY <2>1, <2>2 DEF Relaying, RelayFaithful, KilledOnlyBy, Forking, Serving
  <2>3. CASE peer # "reset" /\ relayed' = Append(relayed, c) /\ pc' = "read"
    <3>1. Len(relayed) = pulled - 1 /\ status = <<200>>
      BY <2>1, <2>3 DEF Relaying, Serving
    <3>2. /\ Len(relayed') = pulled /\ relayed'[pulled] = pulled
          /\ \A n \in 1..Len(relayed) : relayed'[n] = relayed[n]
      BY <1>0, <2>1, <2>3, <3>1
    <3>3. \A n \in 1..Len(relayed') : relayed'[n] = n
      <4> SUFFICES ASSUME NEW n \in 1..pulled PROVE relayed'[n] = n
        BY <3>2
      <4>1. CASE n \in 1..Len(relayed)  BY <2>1, <3>2, <4>1 DEF Relaying
      <4>2. CASE n = pulled  BY <3>2, <4>2
      <4> QED  BY <2>1, <3>1, <4>1, <4>2
    <3> QED
      BY <2>1, <2>3, <3>1, <3>2, <3>3 DEF Relaying, RelayFaithful, KilledOnlyBy, Forking, Serving
  <2> QED  BY <1>15, <2>2, <2>3 DEF SendByte, Killed
<1>16. CASE CloseEnds
  BY <1>16, <1>0 DEF CloseEnds, IInv, TypeOK, ControlType, DataType, Ownership, Feeding, Relaying, RelayFaithful, KilledOnlyBy, Forking, Serving, Ends
<1>17. CASE Wait
  BY <1>17, <1>0 DEF Wait, IInv, TypeOK, ControlType, DataType, Ownership, Feeding, Relaying, RelayFaithful, KilledOnlyBy, Forking, Serving, Ends
<1>18. CASE Setup
  BY <1>18, <1>0 DEF Setup, IInv, TypeOK, ControlType, DataType, Ownership, Feeding, Relaying, RelayFaithful, KilledOnlyBy, Forking, Serving, Ends
<1>19. CASE Exec
  BY <1>19, <1>0 DEF Exec, IInv, TypeOK, ControlType, DataType, Ownership, Feeding, Relaying, RelayFaithful, KilledOnlyBy, Forking, Serving, Ends
<1>20. CASE ReadInput
  BY <1>20, <1>0 DEF ReadInput, Doing, BodyRead, IInv, TypeOK, ControlType, DataType, Ownership, Feeding, Relaying, RelayFaithful, KilledOnlyBy, Forking, Serving, Ends
<1>21. CASE StopReading
  BY <1>21, <1>0 DEF StopReading, Doing, BodyRead, InputEnd, IInv, TypeOK, ControlType, DataType, Ownership, Feeding, Relaying, RelayFaithful, KilledOnlyBy, Forking, Serving, Ends
<1>22. CASE WriteOutput
  BY <1>22, <1>0 DEF WriteOutput, Doing, Exit, IInv, TypeOK, ControlType, DataType, Ownership, Feeding, Relaying, RelayFaithful, KilledOnlyBy, Forking, Serving, Ends
<1>23. CASE EndScript
  BY <1>23, <1>0 DEF EndScript, Exit, IInv, TypeOK, ControlType, DataType, Ownership, Feeding, Relaying, RelayFaithful, KilledOnlyBy, Forking, Serving, Ends
<1>24. CASE UNCHANGED vars
  BY <1>24 DEF vars, IInv, TypeOK, ControlType, DataType, Ownership, Feeding, Relaying, RelayFaithful, KilledOnlyBy, Forking, Serving, Ends
<1> QED
  BY <1>1, <1>2, <1>3, <1>4, <1>5, <1>6, <1>7, <1>8, <1>9, <1>10, <1>11, <1>12, <1>13, <1>14, <1>15, <1>16, <1>17, <1>18, <1>19, <1>20, <1>21, <1>22, <1>23, <1>24
  DEF Next, Client, Server, Child

\* The invariant holds initially: nothing is open, nothing was sent.
THEOREM IInvInit == Init => IInv
<1> SUFFICES ASSUME Init PROVE IInv
  OBVIOUS
<1>1. ControlType
  <2>1. Len(script) \in Nat  BY CgiAssumption, LenProperties DEF Init
  <2>2. length \in -2..MaxBody  BY CgiAssumption DEF Init, Methods
  <2> QED  BY <2>1, <2>2 DEF Init, ControlType, ServerSteps, ChildSteps, Ends
<1>2. DataType  BY CgiAssumption, EmptySeq DEF Init, DataType
<1>3. Len(fed) = 0 /\ Len(relayed) = 0  BY EmptySeq DEF Init
<1>4. Ownership  BY DEF Init, Ownership, Forking, Serving
<1>5. Feeding  BY <1>3 DEF Init, Feeding, FedIsBody, Forking
<1>6. Relaying
  BY <1>3 DEF Init, Relaying, RelayFaithful, KilledOnlyBy, Forking, Serving
<1> QED  BY <1>1, <1>2, <1>4, <1>5, <1>6 DEF IInv, TypeOK

\* Every step of the client, the server and the child keeps it.
THEOREM IInvStep == IInv /\ [Next]_vars => IInv'
BY OwnershipStep, ControlStep, DataStep, FeedingStep, RelayingStep DEF IInv, TypeOK

LEMMA Invariant == Spec => []IInv
BY IInvInit, IInvStep, PTL DEF Spec

\* Every variable keeps its type and no pipe is filled beyond its capacity.
THEOREM TypeCorrect == Spec => []TypeOK
<1>1. IInv => TypeOK  BY DEF IInv
<1> QED  BY <1>1, Invariant, PTL

\* Whatever the client does, the script is fed the body's bytes in order;
\* only a client that stops early makes the server repeat the last one.
THEOREM FeedsBody == Spec => []FedIsBody
<1>1. IInv => FedIsBody  BY DEF IInv, Feeding
<1> QED  BY <1>1, Invariant, PTL

\* Whatever the script does, the client gets its output in order and, from a
\* call that returns after reaping the script, gets all of it.
THEOREM RelaysOutput == Spec => []RelayFaithful
<1>1. IInv => RelayFaithful  BY DEF IInv, Relaying
<1> QED  BY <1>1, Invariant, PTL

\* A call that forked leaves no pipe end open and no child behind.
THEOREM LeavesNothing == Spec => []NoLeak
<1>1. IInv => NoLeak  BY DEF IInv, Ownership, NoLeak
<1> QED  BY <1>1, Invariant, PTL

\* A script that takes its whole body never kills the server.
THEOREM DiesOnlyOf == Spec => []KilledOnlyBy
<1>1. IInv => KilledOnlyBy  BY DEF IInv, Relaying
<1> QED  BY <1>1, Invariant, PTL

\* httpd_execute_cgi implements CgiReply: every step of the three parties is
\* a step of the reply the client sees, or is invisible to it.
LEMMA ReplyStep == IInv /\ [Next]_vars => [Reply!Next]_(Reply!replyVars)
<1> SUFFICES ASSUME IInv, [Next]_vars
             PROVE  Reply!Next \/ UNCHANGED Reply!replyVars
  OBVIOUS
<1> USE DEF request, client, input, output, reply
<1>0. /\ TypeOK /\ Ownership /\ Feeding /\ Relaying
      /\ Append(<<>>, 400) = <<400>> /\ Append(<<>>, 200) = <<200>>
  BY DEF IInv
<1>1. CASE Client
  <2>1. CASE Arrive  BY <2>1 DEF Arrive, Reply!replyVars
  <2>2. CASE Shut  BY <2>2 DEF Shut, Reply!replyVars
  <2>3. CASE Reset  BY <2>3 DEF Reset, Reply!Lose, Reply!Next
  <2> QED  BY <1>1, <2>1, <2>2, <2>3 DEF Client
<1>2. CASE ReadHeaders \/ PipeOut \/ PipeIn \/ Fork \/ CloseUnused \/ Recv \/ Read \/ CloseEnds
  BY <1>2 DEF ReadHeaders, PipeOut, PipeIn, Fork, CloseUnused, Recv, Read, CloseEnds,
              Reply!replyVars
<1>3. CASE BadRequest
  <2>1. CASE peer = "reset"
    BY <1>3, <2>1 DEF BadRequest, SendStatus, Killed, Reply!Abandon, Reply!Next
  <2>2. CASE peer # "reset"
    <3>1. Reply!Reject
      BY <1>0, <1>3, <2>2 DEF BadRequest, SendStatus, Relaying, Reply!Reject, Reply!Serving
    <3> QED  BY <3>1 DEF Reply!Next
  <2> QED  BY <2>1, <2>2
<1>4. CASE AnswerOk
  <2>1. CASE peer = "reset"
    BY <1>4, <2>1 DEF AnswerOk, SendStatus, Killed, Reply!Abandon, Reply!Next, Reply!replyVars
  <2>2. CASE peer # "reset"
    <3>1. Reply!Accept
      BY <1>0, <1>4, <2>2 DEF AnswerOk, SendStatus, Relaying, Reply!Accept, Reply!Serving
    <3> QED  BY <3>1 DEF Reply!Next
  <2> QED  BY <2>1, <2>2
<1>5. CASE CannotExecute
  <2>1. CASE peer = "reset"
    BY <1>5, <2>1 DEF CannotExecute, SendStatus, Killed, Reply!Abandon, Reply!Next
  <2>2. CASE peer # "reset"
    <3>1. status = <<200>> /\ written = 0
      BY <1>0, <1>5, <2>2
      DEF CannotExecute, Relaying, Feeding, Ownership, Forking, Serving
    <3>2. Reply!Fail
      BY <1>0, <1>5, <2>2, <3>1 DEF CannotExecute, SendStatus, Reply!Fail, Reply!Serving
    <3> QED  BY <3>2 DEF Reply!Next
  <2> QED  BY <2>1, <2>2
<1>6. CASE Write
  <2>1. CASE UNCHANGED fed /\ Killed /\ peer = "reset"
    BY <1>6, <2>1 DEF Write, Killed, Reply!Abandon, Reply!Next
  <2>2. CASE UNCHANGED fed /\ Killed /\ peer # "reset"
    <3>1. status = <<200>> /\ relayed = <<>>
      BY <1>0, <1>6, <2>2 DEF Write, Relaying, Forking, Serving
    <3>2. Reply!Die
      BY <1>6, <2>2, <3>1 DEF Write, Killed, Reply!Die, Reply!Serving
    <3> QED  BY <3>2 DEF Reply!Next
  <2>3. CASE pc' \in {"recv", "read"}
    BY <1>6, <2>3 DEF Write, Reply!replyVars
  <2> QED  BY <1>6, <2>1, <2>2, <2>3 DEF Write
<1>7. CASE SendByte
  <2>1. CASE peer = "reset"
    BY <1>7, <2>1 DEF SendByte, Killed, Reply!Abandon, Reply!Next, Reply!replyVars
  <2>2. CASE peer # "reset"
    <3>1. /\ status = <<200>> /\ Len(relayed) = pulled - 1 /\ c = pulled
          /\ pulled \in Nat /\ written \in Nat /\ pulled <= written
      BY <1>0, <1>7, <2>2 DEF SendByte, Relaying, Serving, TypeOK, DataType
    <3>2. Len(relayed) < written /\ c = Len(relayed) + 1  BY <3>1
    <3>3. Reply!Relay
      BY <1>7, <2>2, <3>1, <3>2 DEF SendByte, Reply!Relay, Reply!Serving
    <3> QED  BY <3>3 DEF Reply!Next
  <2> QED  BY <2>1, <2>2
<1>8. CASE Wait
  <2>1. CASE peer = "reset"
    BY <1>8, <2>1 DEF Wait, Reply!Abandon, Reply!Next
  <2>2. CASE peer # "reset"
    <3>1. status = <<200>> /\ Len(relayed) = written
      BY <1>0, <1>8, <2>2 DEF Wait, Relaying, Ownership, Serving
    <3>2. Reply!Finish
      BY <1>8, <2>2, <3>1 DEF Wait, Reply!Finish, Reply!Serving
    <3> QED  BY <3>2 DEF Reply!Next
  <2> QED  BY <2>1, <2>2
<1>9. CASE Setup \/ Exec \/ ReadInput \/ StopReading \/ EndScript
  BY <1>9 DEF Setup, Exec, ReadInput, StopReading, EndScript, Exit, Reply!replyVars
<1>10. CASE WriteOutput
  <2>1. CASE written' = written
    BY <1>10, <2>1 DEF WriteOutput, Reply!replyVars
  <2>2. CASE written' = written + 1 /\ "out_r" \in pfd
    <3>1. cpc = "run"  BY <1>10 DEF WriteOutput, Doing
    <3>2. pc \notin {"returned", "killed"} /\ (peer = "reset" \/ status = <<200>>)
      BY <1>0, <2>2, <3>1 DEF Ownership, Relaying, Forking, Serving, TypeOK, ControlType, ServerSteps
    <3>3. Reply!Produce
      BY <1>10, <2>2, <3>2 DEF WriteOutput, Reply!Produce
    <3> QED  BY <3>3 DEF Reply!Next
  <2> QED  BY <1>10, <2>1, <2>2 DEF WriteOutput
<1>11. CASE UNCHANGED vars
  BY <1>11 DEF vars, Reply!replyVars
<1> QED
  BY <1>1, <1>2, <1>3, <1>4, <1>5, <1>6, <1>7, <1>8, <1>9, <1>10, <1>11
  DEF Next, Server, Child

\* The client gets what CgiReply promises it.
THEOREM ExchangeRefines == Spec => Refines
<1>1. Init => Reply!Init
  BY DEF Init, Reply!Init
<1> QED  BY <1>1, ReplyStep, Invariant, PTL DEF Spec, Reply!Spec, Refines

\* The server reads output only after the whole body is in the input pipe.
Delivered ==
  /\ method # "POST" => length <= 0
  /\ pc \in {"read", "send"} => length <= Len(fed)

LEMMA DeliveredStep == IInv /\ Delivered /\ [Next]_vars => Delivered'
<1> SUFFICES ASSUME IInv, Delivered, [Next]_vars PROVE Delivered'
  OBVIOUS
<1> USE DEF request, client, input, output, reply
<1>1. UNCHANGED <<method, length>>
  BY DEF Next, Client, Server, Child, vars, Arrive, Shut, Reset, ReadHeaders, BadRequest,
         AnswerOk, PipeOut, PipeIn, Fork, CannotExecute, CloseUnused, Recv, Write, Read,
         SendByte, CloseEnds, Wait, Setup, Exec, ReadInput, StopReading, WriteOutput, EndScript
<1>2. length \in Int /\ Len(fed) \in Nat /\ Len(Append(fed, c)) = Len(fed) + 1
  BY CgiAssumption, LenProperties, AppendProperties DEF IInv, TypeOK, ControlType, DataType
<1>3. SUFFICES ASSUME pc' \in {"read", "send"} PROVE length <= Len(fed')
  BY <1>1 DEF Delivered
<1>4. CASE CloseUnused
  <2>1. ~(method = "POST" /\ length > 0)  BY <1>3, <1>4 DEF CloseUnused
  <2> QED  BY <1>2, <1>4, <2>1 DEF CloseUnused, Delivered
<1>5. CASE Write
  <2>1. fed' = Append(fed, c) /\ ~(Len(fed) + 1 < length)
    BY <1>3, <1>5 DEF Write, Killed
  <2> QED  BY <1>2, <2>1
<1>6. CASE ~CloseUnused /\ ~Write
  <2>1. pc \in {"read", "send"} /\ UNCHANGED fed
    BY <1>3, <1>6
    DEF Next, Client, Server, Child, vars, Arrive, Shut, Reset, ReadHeaders, BadRequest,
        AnswerOk, PipeOut, PipeIn, Fork, CannotExecute, Recv, Read, SendByte, CloseEnds,
        Wait, Setup, Exec, ReadInput, StopReading, WriteOutput, EndScript, Killed
  <2> QED  BY <2>1 DEF Delivered
<1> QED  BY <1>4, <1>5, <1>6

LEMMA DeliveredInvariant == Spec => []Delivered
<1>1. Init => Delivered
  BY DEF Init, Methods, Delivered
<1> QED  BY <1>1, DeliveredStep, Invariant, PTL DEF Spec

\* Each wait of the server leaves the script only the waits that are named.
LEMMA WaitsExplained == IInv /\ Delivered => StallsKnown
<1> SUFFICES ASSUME IInv, Delivered, ServerWaits, ChildWaits \/ NoChild,
                    ~(pc = "recv" /\ peer = "open" /\ received = arrived),
                    ~(pc = "send" /\ ~reads /\ peer # "reset")
             PROVE  \/ pc = "read" /\ Doing("all") /\ taken = Len(fed)
                    \/ /\ pc = "write" /\ Len(fed) - taken = PipeCap
                       /\ Doing("out") /\ written - pulled = PipeCap
  BY DEF StallsKnown
<1>0. /\ PipeCap \in Nat \ {0} /\ length \in Int
      /\ Len(fed) \in Nat /\ taken \in 0..Len(fed) /\ Len(fed) - taken <= PipeCap
      /\ written \in Nat /\ pulled \in 0..written /\ written - pulled <= PipeCap
  BY CgiAssumption, LenProperties DEF IInv, TypeOK, ControlType, DataType
<1>1. CASE pc = "read" /\ pulled = written /\ "out_w" \in pfd \cup cfd
  <2>1. pfd = {"out_r", "in_w"} /\ ~NoChild /\ length <= Len(fed)
    BY <1>1 DEF IInv, Ownership, NoChild, Delivered
  <2>2. ~(Doing("body") /\ ~BodyRead /\ taken = Len(fed))
    BY <1>0, <2>1 DEF BodyRead
  <2>3. ~(written - pulled >= PipeCap)  BY <1>0, <1>1
  <2> QED  BY <1>1, <2>1, <2>2, <2>3 DEF ChildWaits
<1>2. CASE /\ pc = "write" /\ "in_r" \in pfd \cup cfd
           /\ "in_r" \in cfd => Len(fed) - taken >= PipeCap
  <2>1. pfd = {"out_r", "in_w"} /\ ~NoChild /\ "in_r" \in cfd
    BY <1>2 DEF IInv, Ownership, NoChild
  <2>2. Len(fed) - taken = PipeCap /\ taken # Len(fed)  BY <1>0, <1>2, <2>1
  <2>3. Doing("out") /\ written - pulled >= PipeCap
    BY <2>1, <2>2 DEF ChildWaits
  <2> QED  BY <1>0, <1>2, <2>2, <2>3
<1>3. pc # "wait" \/ cpc = "exited"  BY DEF IInv, Ownership
<1> QED  BY <1>1, <1>2, <1>3 DEF ServerWaits

\* Whatever the script and the client do, a call stands still only where the
\* client, an input read to its end, or two full pipes make it.
THEOREM StallsAreKnown == Spec => []StallsKnown
BY WaitsExplained, Invariant, DeliveredInvariant, PTL
=============================================================================
