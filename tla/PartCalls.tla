----------------------------- MODULE PartCalls ------------------------------
(***************************************************************************)
(* The order in which multipart_parser_execute calls its user back, as the *)
(* callbacks of cgi-io's upload rely on it.  Every part has its headers,   *)
(* then headers_complete once, then data at least once, then one           *)
(* part_data_end; a header's name and value may come in several calls.     *)
(* Module Multipart implements this order, module Upload is driven by it.  *)
(***************************************************************************)

VARIABLE called   \* the last callback, "none" before the first

CallNames == {"none", "field", "value", "complete", "data", "end"}

Init == called = "none"

Field == called \in {"none", "field", "value", "end"} /\ called' = "field"

\* The colon of a header line always reports its name, if only an empty one.
Value == called \in {"field", "value"} /\ called' = "value"

Complete ==
  called \in {"none", "field", "value", "end"} /\ called' = "complete"

Data == called \in {"complete", "data"} /\ called' = "data"

\* A delimiter starts with a CR, and a CR reports the data before it.
End == called = "data" /\ called' = "end"

Next == Field \/ Value \/ Complete \/ Data \/ End
Spec == Init /\ [][Next]_called
=============================================================================
