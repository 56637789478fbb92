------------------------------ MODULE CgiReply ------------------------------
(***************************************************************************)
(* What one CGI request promises its client, without the pipes and the     *)
(* processes behind it: a status line, then every byte the script          *)
(* produced, once, in order, and the call ends only when all of them are   *)
(* out.  A 500 comes only after the 200 and before any byte.  Once the     *)
(* connection is lost nothing more is sent, and the server may give up or  *)
(* be killed; it is killed otherwise only before the first byte is out.    *)
(* Module CgiExchange implements this module.                              *)
(***************************************************************************)
EXTENDS Naturals, Sequences

VARIABLES phase,      \* "open", then "closed" or "dead"
          lost,       \* the connection to the client was reset
          status,     \* the status codes sent to the client
          produced,   \* how many bytes the script wrote; the n-th byte is n
          relayed     \* the script's bytes sent to the client

replyVars == <<phase, lost, status, produced, relayed>>

Init ==
  phase = "open" /\ lost = FALSE /\ status = <<>> /\ produced = 0 /\ relayed = <<>>

Serving == phase = "open" /\ ~lost

Reject ==
  /\ Serving /\ status = <<>> /\ status' = <<400>> /\ phase' = "closed"
  /\ UNCHANGED <<lost, produced, relayed>>

Accept ==
  /\ Serving /\ status = <<>> /\ status' = <<200>>
  /\ UNCHANGED <<phase, lost, produced, relayed>>

Fail ==
  /\ Serving /\ status = <<200>> /\ produced = 0
  /\ status' = Append(status, 500) /\ phase' = "closed"
  /\ UNCHANGED <<lost, produced, relayed>>

Produce ==
  /\ phase = "open" /\ (lost \/ status = <<200>>) /\ produced' = produced + 1
  /\ UNCHANGED <<phase, lost, status, relayed>>

Relay ==
  /\ Serving /\ status = <<200>> /\ Len(relayed) < produced
  /\ relayed' = Append(relayed, Len(relayed) + 1)
  /\ UNCHANGED <<phase, lost, status, produced>>

Finish ==
  /\ Serving /\ status = <<200>> /\ Len(relayed) = produced /\ phase' = "closed"
  /\ UNCHANGED <<lost, status, produced, relayed>>

\* The write that feeds the script finds nobody to read it.
Die ==
  /\ Serving /\ status = <<200>> /\ relayed = <<>> /\ phase' = "dead"
  /\ UNCHANGED <<lost, status, produced, relayed>>

Lose == lost' = TRUE /\ UNCHANGED <<phase, status, produced, relayed>>

Abandon ==
  /\ phase = "open" /\ lost /\ phase' \in {"closed", "dead"}
  /\ UNCHANGED <<lost, status, produced, relayed>>

\* Another thread ends the process, at any point of the call.  CgiExchange
\* has no such thread; Httpd allows this step beside Next.
Cut ==
  /\ phase = "open" /\ phase' = "dead" /\ UNCHANGED <<lost, status, produced, relayed>>

Next ==
  \/ Reject \/ Accept \/ Fail \/ Produce \/ Relay \/ Finish \/ Die
  \/ Lose \/ Abandon

Spec == Init /\ [][Next]_replyVars
=============================================================================
