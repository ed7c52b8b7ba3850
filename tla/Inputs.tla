------------------------------- MODULE Inputs --------------------------------
(***************************************************************************)
(* The parts that only compute, with all the inputs they may get, and the  *)
(* timer.  A behaviour is about one of them:                               *)
(*   data: bytes to encode, from the shortest that Encode is defined for;  *)
(*   address: once parsed, has its path replaced again and again;          *)
(*   target: of a url, grows by characters;                                *)
(*   query, escape: the same for ParseQuery and Unescape;                  *)
(*   doc: a configuration that starts a program, then some of its fields   *)
(*     edited;                                                             *)
(*   schedule: how long the handlers of a timer ran so far;                *)
(*   timer: BasicTimer itself.                                             *)
(***************************************************************************)
EXTENDS Base64, Url, Configuration, ExpiryPolicy, BasicTimer

CONSTANTS
  Bytes, MaxBytes,                \* the bytes of data
  AddressTexts, Paths,            \* the texts of the addresses, and new paths
  Characters, MaxLength,          \* for target, query and escape each
  Values, Working, MaxEdits,      \* of the configuration's fields; one to begin with
  Delays, MaxDelays, Origins, Interval,
  MaxCompletions

\* What Parse accepts of the texts; the others stop the program.
Addresses == {t \in AddressTexts : Parses(t)}

\* Bytes are unsigned char.  A new path may be any text.
ASSUME BytesAssumption == Bytes \subseteq Byte
ASSUME AddressAssumption == Addresses # {} /\ Paths \subseteq Seq(STRING)
ASSUME ScheduleAssumption == Delays \subseteq Nat /\ Origins \subseteq Nat /\ Interval \in Nat

\* The numbers of a configuration are integers.
Fields == DOMAIN Working
ASSUME DocAssumption ==
  /\ "ssl_type" \in Fields
  /\ \A v \in {Working.ssl_type} \cup Values.ssl_type : v.low \in Int

VARIABLES part, data, address, text, doc, delays    \* and those of BasicTimer

inputs == <<data, address, text, doc, delays>>

Some == Parse(CHOOSE t \in Addresses : TRUE)

InputsInit ==
  /\ part \in {"data", "address", "target", "query", "escape", "doc", "schedule", "timer"}
  /\ data \in IF part = "data" THEN [1 .. 2 -> Bytes] ELSE {<<0, 0>>}
  /\ address \in IF part = "address" THEN {Parse(t) : t \in Addresses} ELSE {Some}
  /\ text = IF part = "target" THEN Root ELSE <<>>
  /\ doc = Working
  /\ delays = <<>>
  /\ Init
  /\ part # "timer" => ~recursive /\ asked = "nothing"

Grow == /\ part = "data" /\ Len(data) < MaxBytes
        /\ \E b \in Bytes : data' = Append(data, b)
        /\ UNCHANGED <<address, text, doc, delays, vars>>

\* UrlPath edits the addresses of the book; the url goes to the log and the connection.
UrlPath == /\ part = "address"
           /\ \E p \in Paths : address' = SetPath(address, p)
           /\ UNCHANGED <<data, text, doc, delays, vars>>

Lengthen == /\ part \in DOMAIN Characters /\ Len(text) < MaxLength[part]
            /\ \E c \in Characters[part] : text' = Append(text, c)
            /\ UNCHANGED <<data, address, doc, delays, vars>>

Edit == /\ part = "doc" /\ Cardinality({f \in Fields : doc[f] # Working[f]}) < MaxEdits
        /\ \E f \in Fields : \E v \in Values[f] : doc' = [doc EXCEPT ![f] = v]
        /\ UNCHANGED <<data, address, text, delays, vars>>

Delay == /\ part = "schedule" /\ Len(delays) < MaxDelays
         /\ \E d \in Delays : delays' = Append(delays, d)
         /\ UNCHANGED <<data, address, text, doc, vars>>

Timed == /\ part = "timer" /\ Next /\ Len(completions') <= MaxCompletions
         /\ UNCHANGED inputs

InputsNext == (Grow \/ UrlPath \/ Lengthen \/ Edit \/ Delay \/ Timed) /\ UNCHANGED part
InputsSpec == InputsInit /\ [][InputsNext]_<<part, inputs, vars>>

-----------------------------------------------------------------------------

\* Encode is the standard encoding, for a server that decodes it, and Decode gives back
\* what was encoded, padded or not (Base64).
Base64AsStandard == Encode(data) = Standard(data) /\ Decode(Encode(data)) = data

\* The url of an address means that address exactly if its path begins with "/",
\* whatever paths it had before: an empty path comes back as "/", digits as another
\* port, and any other path not at all (HostAddress::Parse and Path).
UrlMeansAddress ==
  Parses(address.url) /\ Parse(address.url) = address <=> Rooted(address.path)

\* The two parsers agree on every text, those of the configuration and the urls made
\* from them, accepted or not: Url accepts those with a scheme that HostAddress accepts,
\* and finds the same protocol, host, port and path (Url::Parse, HostAddress::Parse).
ParsersAgree ==
  part = "address" =>
    \A t \in AddressTexts \cup {address.url} :
      /\ UrlParses(t) <=> t.scheme # Missing /\ Parses(t)
      /\ UrlParses(t) =>
           UrlParse(t) = [protocol |-> Parse(t).protocol, host |-> Parse(t).host,
                          port |-> Parse(t).port, target |-> Parse(t).path]

\* Whatever the target, exactly one reading of one pattern applies, and it is the
\* standard's (Url::ParseTarget).
TargetAsStandard == part = "target" => ParseTarget(text) = {StandardParts(text)}

\* A query of names and values is accepted, and gives each name its first value
\* (Url::ParseQuery).
QueryAsStandard ==
  part = "query" /\ WellFormedQuery(text) =>
    ParseQuery(text) = [accepted |-> TRUE, params |-> FirstValues(text)]

\* Unescape reads every text that is escaped, an escape at its end included, for what
\* it means, and refuses every other (Url::Unescape).
UnescapeAsStandard ==
  part = "escape" =>
    IF Escaped(text) THEN Unescape(text) = Meaning(text) ELSE NoByte \in ToSet(Unescape(text))

\* A program that starts has what WsClient assumes of it: an address, a timeout (it is
\* Monitored), a limit the queue can have, intervals; and TLS verification has a host
\* to verify (the four Validate functions after the conversions to int32_t).
StartsUsable ==
  Starts(doc) =>
    /\ Len(doc.addr) > 0
    /\ Timeout(doc) > 0
    /\ Limit(doc) \in 0 .. 1000
    /\ PositiveReal(doc.heartbeat_interval) /\ PositiveReal(doc.reconnect_interval)
    /\ doc.verification => doc.hostname # "" /\ Int32(doc.ssl_type, 0) > 0

Given == {f \in ToSet(KeyTexts) : doc[f] # ""}
Usable(f) == doc[f] = "pem" \/ (doc[f] = "locked" /\ doc.password = "secret")

\* The TLS context of a program that starts has all that the configuration gives, and
\* none fails for a key, a locked one with its password included, that OpenSSL can use
\* (Base::Init).  That the authority is given is a condition: see ShippedStarts.
ContextAsConfigured ==
  /\ Starts(doc) => Context(doc).loaded = Given
  /\ doc.certificate_authority # "" /\ (\A f \in Given : Usable(f)) => ~Context(doc).failed

\* The programs start with the configuration file shipped for them, without a
\* certificate authority (Client::Init then adds its own root certificate).
ShippedStarts == doc = ShippedFile => Starts(doc)

\* The handlers of a timer end when its policy says: at fixed points, which a late one
\* catches up with, or an interval after the one before (SetExpireTime, PutTimer).
ScheduleAsDefined ==
  \A k \in 1 .. Len(delays) :
    /\ \A origin \in Origins :
         EndsAtPoint(delays, origin, Interval)[k] = ByPoints(delays, origin, Interval, k)
    /\ EndsAfter(delays, Interval)[k] = ByIntervals(delays, Interval, k)
=============================================================================
