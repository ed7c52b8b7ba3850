------------------------------- MODULE MCData -------------------------------
(***************************************************************************)
(* Bounds for Inputs: two triples of bytes and one byte, the bytes setting *)
(* and clearing every bit next to a boundary between characters; texts of  *)
(* characters that the patterns tell apart; up to three edited fields.     *)
(***************************************************************************)
EXTENDS Inputs

MCBytes == {0, 45, 210}
MCMaxBytes == 7
Ws == <<"/", "w">>
OtherPaths == {<<"w">>, <<"1">>, <<"0", "/">>}
MCAddressTexts == Texts({"wss", "tcp", "udps"}, {"h"}, {443, 6553, 65535, 65536}, {Ws, Root} \cup OtherPaths)
MCPaths == {Root, Ws, NoPath, <<"/", "1">>} \cup OtherPaths
MCCharacters == [target |-> {"/", "a", "?", "#"}, query |-> {"a", "2", "=", "&"},
                 escape |-> {"a", "2", "%", "&", "?"}]
MCMaxLength == [target |-> 6, query |-> 7, escape |-> 5]
MCDelays == {0, 1, 3, 8}
MCMaxDelays == 5
MCOrigins == {0, 2}
MCInterval == 3
MCMaxCompletions == 4

SmallNumbers == {Absent, Text, Number(0, -1), Number(0, 0), Number(0, 30), Number(1, 0), Number(1, 30)}
Pem == {"", "pem", "junk", "number"}
MCValues == [addr |-> {<<>>, <<"good">>, <<"good", "good">>, <<"bad">>},
             timeout |-> SmallNumbers, reconnect_interval |-> SmallNumbers,
             heartbeat_interval |-> SmallNumbers, ssl_type |-> SmallNumbers,
             response_size_limit |-> SmallNumbers,
             queue_limit |-> SmallNumbers \cup {Number(0, 1000), Number(0, 1001)},
             symbol |-> {Absent, Text}, verification |-> BOOLEAN, hostname |-> {"", "h"},
             password |-> {"", "secret", "number"}, private_key |-> Pem \cup {"locked"},
             rsa_private_key |-> Pem \cup {"locked"}, certificate |-> Pem,
             certificate_chain |-> Pem, tmp_dh |-> Pem, certificate_authority |-> Pem]
MCWorking == [ShippedFile EXCEPT !.certificate_authority = "pem"]
MCMaxEdits == 3
=============================================================================
