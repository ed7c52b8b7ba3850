---------------------------- MODULE HostAddress -----------------------------
(***************************************************************************)
(* A remote address of the configuration.  A text is what its regular      *)
(* expressions tell apart: a scheme, a host, a port and what stands behind *)
(* them, of which scheme, port and the last may be missing.  The last is   *)
(* in characters, for it need not be a path: digits are read as more of    *)
(* the port, and anything else but a "/" is no part of an address.         *)
(***************************************************************************)
EXTENDS Naturals, Sequences, FiniteSets

Missing == "missing"
NoPort == 1000000
NoPath == <<>>
Root == <<"/">>
Rooted(path) == path # NoPath /\ path[1] = "/"

\* Without a port, characters behind the host are the host's own up to the first "/".
Texts(schemes, hosts, ports, paths) ==
  {t \in [scheme : schemes \cup {Missing}, host : hosts, port : ports \cup {NoPort},
          path : paths \cup {NoPath}] :
     t.port = NoPort => t.path = NoPath \/ Rooted(t.path)}

Numerals == <<"0", "1", "2", "3", "4", "5", "6", "7", "8", "9">>
DigitValue(c) == CHOOSE v \in 0 .. 9 : Numerals[v + 1] = c
LeadingDigits(s) ==
  Cardinality({i \in 1 .. Len(s) : \A j \in 1 .. i : \E v \in 0 .. 9 : Numerals[v + 1] = s[j]})

\* The port of t is all the digits in its place, and the path what stands behind them.
PortRead(t) ==
  LET P[n \in 0 .. LeadingDigits(t.path)] ==
        IF n = 0 THEN t.port ELSE P[n - 1] * 10 + DigitValue(t.path[n])
  IN P[LeadingDigits(t.path)]
PathRead(t) ==
  IF t.port = NoPort THEN t.path
  ELSE SubSeq(t.path, LeadingDigits(t.path) + 1, Len(t.path))

\* Schemes whose port need not be given.
DefaultPort == [https |-> 443, wss |-> 443, http |-> 80, ws |-> 80,
                tcps |-> 0, tcp |-> 0, ssl |-> 0]

\* Whether Parse accepts t: the path begins with "/", a port fits unsigned short.
Parses(t) ==
  /\ PathRead(t) = NoPath \/ Rooted(PathRead(t))
  /\ IF t.port = NoPort THEN t.scheme \in DOMAIN DefaultPort ELSE PortRead(t) < 2^16

\* What Parse makes of a text it accepts.
Parse(t) ==
  [protocol |-> IF t.scheme = Missing THEN "tcp" ELSE t.scheme,
   host |-> t.host,
   port |-> IF t.port = NoPort THEN DefaultPort[t.scheme] ELSE PortRead(t),
   path |-> IF PathRead(t) = NoPath THEN Root ELSE PathRead(t),
   url |-> t]

\* Mutant: the url is put together without the port.
SetPathPortless(a, p) ==
  [a EXCEPT !.path = p,
            !.url = [scheme |-> a.protocol, host |-> a.host, port |-> NoPort, path |-> p]]

\* Path(p) puts the url together from the parts, with nothing between port and p.
SetPath(a, p) ==
  [a EXCEPT !.path = p,
            !.url = [scheme |-> a.protocol, host |-> a.host, port |-> a.port, path |-> p]]
=============================================================================
