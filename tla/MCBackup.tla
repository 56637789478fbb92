------------------------------ MODULE MCBackup ------------------------------
(* Forms of up to seven bytes, with one hexadecimal digit: "%00" stands    *)
(* for '%', so that decoding twice would show.                             *)
EXTENDS Backup

MCKey == <<"k">>
MCOthers == {"k", "=", "&", "%", "+", " ", "0"}
MCHex == {"0"}
MCHexByte == [x \in MCHex \X MCHex |-> "%"]
MCForms == BoundedSeq((MCOthers \ {" "}) \cup {NUL}, 5)
           \cup {<<"k", "=">> \o s : s \in BoundedSeq({"%", "0", "k", "="}, 5)}
MCSessions == {<<"0">>, <<"%">>, <<"%", "0">>, <<" ">>, <<"k", "0">>}
=============================================================================
