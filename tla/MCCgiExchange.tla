--------------------------- MODULE MCCgiExchange ---------------------------
(* The orders of reading and writing a script can choose between, with a   *)
(* pipe small enough for both processes to fill it.                        *)
EXTENDS CgiExchange
MCScripts == {<<>>, <<"out">>, <<"body", "out">>, <<"out", "body">>,
              <<"out", "out", "body", "out">>, <<"all", "out">>, <<"body", "out", "out">>}
=============================================================================
