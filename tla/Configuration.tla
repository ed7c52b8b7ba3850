---------------------------- MODULE Configuration ----------------------------
(***************************************************************************)
(* What a program makes of the "biger" object of its configuration file    *)
(* before it has a client: HostAddressBook, SSLContext, WebsocketClient    *)
(* and ClientInterface parse and validate it, the TLS context and          *)
(* AddressBook are built from it.  Every refusal throws and main ends.     *)
(*                                                                         *)
(* A field is missing, a text, or a number high * 2^32 + low; reading a    *)
(* number as int32_t keeps low.                                            *)
(***************************************************************************)
EXTENDS Integers, SslContext

Absent == [kind |-> "absent", high |-> 0, low |-> 0]
Text == [kind |-> "text", high |-> 0, low |-> 0]
Number(h, l) == [kind |-> "number", high |-> h, low |-> l]

Readable(f) == f.kind # "text"
Int32(f, default) == IF f = Absent THEN default ELSE f.low
PositiveReal(f) == f = Absent \/ f.high > 0 \/ f.low > 0    \* the defaults are 1.0

\* addr: an array of texts that HostAddress parses; the book may stay empty.
BookAccepted(doc) == doc.addr \in Seq({"good"})

\* SSLContext: Parse and Validate.
SslAccepted(doc) ==
  LET type == Int32(doc.ssl_type, 0)
  IN /\ Readable(doc.ssl_type) /\ KeysReadable(doc)
     /\ type >= 0
     /\ doc.verification => doc.hostname # "" /\ type # 0

\* src/src/bgcli/cfg/bgcli.cfg, and rest_api's.
ShippedFile ==
  [addr |-> <<"good">>, timeout |-> Number(0, 5), heartbeat_interval |-> Number(0, 1), symbol |-> Text,
   reconnect_interval |-> Absent, queue_limit |-> Absent, response_size_limit |-> Absent,
   ssl_type |-> Absent, verification |-> FALSE, hostname |-> "", password |-> "",
   private_key |-> "", rsa_private_key |-> "", certificate |-> "", certificate_chain |-> "",
   tmp_dh |-> "", certificate_authority |-> ""]

Timeout(doc) == Int32(doc.timeout, 30)
Limit(doc) == Int32(doc.queue_limit, 0)
ResponseLimit(doc) == Int32(doc.response_size_limit, 0)
WebsocketReadable(doc) ==
  /\ Readable(doc.timeout) /\ Readable(doc.reconnect_interval)
  /\ Readable(doc.queue_limit) /\ Readable(doc.response_size_limit)

\* Mutant: the bounds are tested on the number in the file.
WebsocketAcceptedAsWritten(doc) ==
  /\ WebsocketReadable(doc)
  /\ doc.timeout = Absent \/ doc.timeout.high > 0 \/ doc.timeout.low > 0
  /\ PositiveReal(doc.reconnect_interval)
  /\ ResponseLimit(doc) >= 0
  /\ Limit(doc) \in 0 .. 1000

\* WebsocketClient: Parse and Validate.
WebsocketAccepted(doc) ==
  /\ WebsocketReadable(doc)
  /\ Timeout(doc) > 0
  /\ PositiveReal(doc.reconnect_interval)
  /\ ResponseLimit(doc) >= 0
  /\ Limit(doc) \in 0 .. 1000

\* ClientInterface: Parse and Validate; symbol has no default.
InterfaceAccepted(doc) ==
  /\ Readable(doc.heartbeat_interval)
  /\ doc.symbol = Text
  /\ PositiveReal(doc.heartbeat_interval)

\* The constructor of AddressBook.
BookNotEmpty(doc) == doc.addr # <<>>

\* The program gets its client.
Starts(doc) ==
  /\ BookAccepted(doc) /\ SslAccepted(doc) /\ WebsocketAccepted(doc)
  /\ InterfaceAccepted(doc)
  /\ ~Context(doc).failed
  /\ BookNotEmpty(doc)
=============================================================================
