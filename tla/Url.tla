--------------------------------- MODULE Url ---------------------------------
(***************************************************************************)
(* net::Url, a second parser of the texts HostAddress reads: it wants a    *)
(* scheme, and takes the path apart into path, query and fragment, and the *)
(* query into parameters.  Unescape is its percent-decoding.               *)
(***************************************************************************)
EXTENDS HostAddress, FiniteSetsExt, SequencesExt

\* Mutant: the port of a secure websocket was not brought over.
UrlPortNoWss(protocol) ==
  CASE protocol = "https" -> 443
    [] protocol \in {"http", "ws", "wss"} -> 80
    [] OTHER -> 0

\* The port of a scheme that needs none in the text.
UrlPort(protocol) ==
  CASE protocol \in {"https", "wss"} -> 443
    [] protocol \in {"http", "ws"} -> 80
    [] protocol \in {"tcps", "tcp", "ssl"} -> 0

UrlParses(t) ==
  /\ t.scheme # Missing
  /\ PathRead(t) = NoPath \/ Rooted(PathRead(t))
  /\ IF t.port # NoPort THEN PortRead(t) < 2^16
     ELSE t.scheme \in {"https", "wss", "http", "ws", "tcps", "tcp", "ssl"}

\* What Url makes of a text: protocol, host, port and target.
UrlParse(t) ==
  [protocol |-> t.scheme, host |-> t.host,
   port |-> IF t.port # NoPort THEN PortRead(t) ELSE UrlPort(t.scheme),
   target |-> IF PathRead(t) = NoPath THEN Root ELSE PathRead(t)]

-----------------------------------------------------------------------------
(* ParseTarget: four patterns, tried in turn *)

Without(s, chars) == \A i \in 1 .. Len(s) : s[i] \notin chars
Before(s, i) == SubSeq(s, 1, i - 1)
Behind(s, i) == SubSeq(s, i + 1, Len(s))
Parts(p, q, f) == [path |-> p, query |-> q, fragment |-> f]

PathOnly(s) == {Parts(s, <<>>, <<>>) : x \in {y \in {s} : Without(y, {"?", "#"})}}

\* Mutant: the query takes in the fragment.
PathQueryGreedy(s) ==
  {Parts(Before(s, i), Behind(s, i), <<>>) :
     i \in {j \in 1 .. Len(s) : s[j] = "?" /\ Without(Before(s, j), {"?", "#"})}}

PathQuery(s) ==
  {Parts(Before(s, i), Behind(s, i), <<>>) :
     i \in {j \in 1 .. Len(s) : /\ s[j] = "?" /\ Without(Before(s, j), {"?", "#"})
                                /\ Without(Behind(s, j), {"#"})}}

PathQueryFragment(s) ==
  {Parts(Before(s, ij[1]), SubSeq(s, ij[1] + 1, ij[2] - 1), Behind(s, ij[2])) :
     ij \in {kl \in (1 .. Len(s)) \X (1 .. Len(s)) :
               /\ kl[1] < kl[2] /\ s[kl[1]] = "?" /\ s[kl[2]] = "#"
               /\ Without(Before(s, kl[1]), {"?", "#"})
               /\ Without(SubSeq(s, kl[1] + 1, kl[2] - 1), {"#"})}}

PathFragment(s) ==
  {Parts(Before(s, i), <<>>, Behind(s, i)) :
     i \in {j \in 1 .. Len(s) : s[j] = "#" /\ Without(Before(s, j), {"?", "#"})}}

\* The parts of target s, as a set: more than one if a pattern matches in two ways,
\* none if no pattern matches.
ParseTarget(s) ==
  IF PathOnly(s) # {} THEN PathOnly(s)
  ELSE IF PathQuery(s) # {} THEN PathQuery(s)
  ELSE IF PathQueryFragment(s) # {} THEN PathQueryFragment(s)
  ELSE PathFragment(s)

-----------------------------------------------------------------------------
(* ParseQuery: one pattern for the whole, then split at "&", then at "=" *)

\* boost::split: what is between the occurrences of c.
Split(s, c) ==
  LET E[n \in 0 .. Len(s)] ==
        IF n = 0 THEN << <<>> >>
        ELSE IF s[n] = c THEN Append(E[n - 1], <<>>)
        ELSE [E[n - 1] EXCEPT ![Len(E[n - 1])] = Append(@, s[n])]
  IN E[Len(s)]

\* Where the pattern is behind one more character: before a name, in it, in a value,
\* or nowhere.  A name may hold "&", a value "=".
Matched(at, x) ==
  CASE at = "before" -> IF x = "=" THEN "nowhere" ELSE "name"
    [] at = "name" -> IF x = "=" THEN "value" ELSE "name"
    [] at = "value" -> IF x = "&" THEN "before" ELSE "value"
    [] at = "nowhere" -> "nowhere"

\* The pattern, a name without "=" and a value without "&" again and again, matches q.
QueryMatches(q) ==
  LET M[n \in 0 .. Len(q)] == IF n = 0 THEN "before" ELSE Matched(M[n - 1], q[n])
  IN M[Len(q)] = "value"

\* Mutant: the last of two parameters with one name is kept.
EmplacedOver(params, name, value) ==
  {p \in params : p.name # name} \cup {[name |-> name, value |-> value]}

\* std::map::emplace keeps the first of two with one name.
Emplaced(params, name, value) ==
  IF \E p \in params : p.name = name THEN params
  ELSE params \cup {[name |-> name, value |-> value]}

\* One entry; more than one "=" and it is dropped.
AddEntry(params, entry) ==
  LET pair == Split(entry, "=")
  IN IF Len(pair) = 2 THEN Emplaced(params, pair[1], pair[2])
     ELSE IF Len(pair) = 1 THEN Emplaced(params, pair[1], <<>>)
     ELSE params

AddEntries(entries) ==
  LET P[n \in 0 .. Len(entries)] == IF n = 0 THEN {} ELSE AddEntry(P[n - 1], entries[n])
  IN P[Len(entries)]

\* The parameters of query q; it throws unless accepted.
ParseQuery(q) == [accepted |-> q = <<>> \/ QueryMatches(q),
                  params |-> IF q = <<>> THEN {} ELSE AddEntries(Split(q, "&"))]

-----------------------------------------------------------------------------
(* Unescape *)

HexValue == [c \in {"0", "2", "F", "a"} |->
               CASE c = "0" -> 0 [] c = "2" -> 2 [] c = "F" -> 15 [] c = "a" -> 10]
Plain == {"-", "=", "&", "g"} \cup DOMAIN HexValue    \* marks, letters and digits

\* Mutant: an escape at the very end is one too many.
FitsInside(s, i) == i + 3 <= Len(s)

\* i + 3 <= in.size(), with i counted from 1.
Fits(s, i) == i + 2 <= Len(s)

Escape(s, i) == s[i] = "%" /\ Fits(s, i) /\ {s[i + 1], s[i + 2]} \subseteq DOMAIN HexValue

\* What character i is read for, or a byte that is none if it throws, and how many of
\* the characters behind it are not read for themselves.
NoByte == [invalid |-> TRUE]
Code(s, i) == [code |-> HexValue[s[i + 1]] * 16 + HexValue[s[i + 2]]]
Read(s, i) ==
  IF Escape(s, i) THEN [byte |-> Code(s, i), skip |-> 2]
  ELSE IF s[i] \in Plain THEN [byte |-> [char |-> s[i]], skip |-> 0]
  ELSE [byte |-> NoByte, skip |-> Len(s)]

Unescape(s) ==
  LET U[i \in 0 .. Len(s)] ==
        IF i = 0 THEN [out |-> <<>>, skip |-> 0]
        ELSE IF U[i - 1].skip > 0 THEN [U[i - 1] EXCEPT !.skip = @ - 1]
        ELSE [out |-> Append(U[i - 1].out, Read(s, i).byte), skip |-> Read(s, i).skip]
  IN U[Len(s)].out

-----------------------------------------------------------------------------
(* RFC 3986: the fragment begins behind the first "#", the query behind    *)
(* the first "?" before it.                                                *)

First(s, c) == Min({i \in 1 .. Len(s) : s[i] = c} \cup {Len(s) + 1})
StandardParts(s) ==
  LET f == First(s, "#")
      q == Min({First(s, "?"), f})
  IN Parts(Before(s, q), SubSeq(s, q + 1, f - 1), Behind(s, f))

\* A query all of whose entries are a name and a value, and the first value of each name.
WellFormedQuery(q) ==
  \A n \in DOMAIN Split(q, "&") :
    LET pair == Split(Split(q, "&")[n], "=") IN Len(pair) = 2 /\ pair[1] # <<>>
FirstValues(q) ==
  LET pairs == [n \in DOMAIN Split(q, "&") |-> Split(Split(q, "&")[n], "=")]
      first(n) == \A m \in 1 .. n - 1 : pairs[m][1] # pairs[n][1]
  IN {[name |-> pairs[n][1], value |-> pairs[n][2]] : n \in {k \in DOMAIN pairs : first(k)}}

\* A text is escaped if each "%" has two hexadecimal digits behind it and all else may
\* stand for itself; an escape then stands at each "%", and nowhere else.
Escaped(s) ==
  \A i \in 1 .. Len(s) :
    IF s[i] = "%" THEN \A d \in 1 .. 2 : i + d <= Len(s) /\ s[i + d] \in DOMAIN HexValue
    ELSE s[i] \in Plain
Inside(s, i) == \E d \in 1 .. 2 : i - d >= 1 /\ s[i - d] = "%"
Meaning(s) ==
  LET M[i \in 0 .. Len(s)] ==
        IF i = 0 THEN <<>>
        ELSE IF Inside(s, i) THEN M[i - 1]
        ELSE Append(M[i - 1], IF s[i] = "%" THEN Code(s, i) ELSE [char |-> s[i]])
  IN M[Len(s)]
=============================================================================
