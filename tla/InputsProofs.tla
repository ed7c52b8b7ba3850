---------------------------- MODULE InputsProofs -----------------------------
(***************************************************************************)
(* The parts that only compute are right for every input they may get.     *)
(***************************************************************************)
EXTENDS Inputs, HandlerQueueProofs, FiniteSetTheorems, TLAPS

\* f is the function that begins with a and goes on with step, up to N.
IsRecursive(f, N, a, step) ==
  f = [n \in 0 .. N |-> IF n = 0 THEN a ELSE step[<<n, f[n - 1]>>]]

\* There is one.
LEMMA Recursion ==
  ASSUME NEW N \in Nat, NEW S, NEW a \in S, NEW step \in [(1 .. N) \X S -> S]
  PROVE  \E f \in [0 .. N -> S] : IsRecursive(f, N, a, step)
<1> DEFINE T == {n \in 0 .. N : \E f \in [0 .. n -> S] : IsRecursive(f, n, a, step)}
<1>1. 0 \in T
  <2> DEFINE f == [n \in 0 .. 0 |-> a]
  <2>1. f \in [0 .. 0 -> S] /\ f = [n \in 0 .. 0 |-> IF n = 0 THEN a ELSE step[<<n, f[n - 1]>>]]
    OBVIOUS
  <2> HIDE DEF f
  <2> QED
    BY <2>1 DEF IsRecursive
<1>2. ASSUME NEW n \in 0 .. N - 1, n \in T PROVE n + 1 \in T
  <2>1. PICK f \in [0 .. n -> S] : f = [i \in 0 .. n |-> IF i = 0 THEN a ELSE step[<<i, f[i - 1]>>]]
    BY <1>2 DEF IsRecursive
  <2> DEFINE last == step[<<n + 1, f[n]>>]
             g == [i \in 0 .. n + 1 |-> IF i = n + 1 THEN last ELSE f[i]]
  <2>2. last \in S
    <3>1. f[n] \in S /\ n + 1 \in 1 .. N
      BY <1>2
    <3>2. <<n + 1, f[n]>> \in (1 .. N) \X S
      BY <3>1
    <3> QED
      BY <3>2
  <2>3. \A i \in 0 .. n : g[i] = f[i]
    OBVIOUS
  <2>4. g[n + 1] = last
    OBVIOUS
  <2>5. g \in [0 .. n + 1 -> S]
    BY <2>2
  <2>6. g = [i \in 0 .. n + 1 |-> g[i]]
    OBVIOUS
  <2> HIDE DEF g
  <2>7. \A i \in 0 .. n + 1 : g[i] = IF i = 0 THEN a ELSE step[<<i, g[i - 1]>>]
    <3> TAKE i \in 0 .. n + 1
    <3>1. CASE i = n + 1
      <4>1. i # 0 /\ i - 1 = n /\ g[i - 1] = f[n]
        BY <2>3, <3>1
      <4> QED
        BY <2>4, <3>1, <4>1
    <3>2. CASE i # n + 1
      <4>1. i \in 0 .. n /\ (i # 0 => i - 1 \in 0 .. n)
        BY <3>2
      <4>2. f[i] = IF i = 0 THEN a ELSE step[<<i, f[i - 1]>>]
        BY <2>1, <4>1
      <4> QED
        BY <2>3, <4>1, <4>2
    <3> QED
      BY <3>1, <3>2
  <2>8. IsRecursive(g, n + 1, a, step)
    BY <2>6, <2>7 DEF IsRecursive
  <2> QED
    BY <2>5, <2>8
<1> HIDE DEF T
<1>3. 0 .. N \subseteq T
  BY <1>1, <1>2, Induction
<1> QED
  BY <1>3 DEF T

-----------------------------------------------------------------------------
(* Addresses *)

\* Path changes two members of an address.
LEMMA SetPathParts ==
  ASSUME NEW P, NEW H, NEW O, NEW W, NEW U, NEW p,
         NEW a \in [protocol : P, host : H, port : O, path : W, url : U]
  PROVE  SetPath(a, p)
         = [protocol |-> a.protocol, host |-> a.host, port |-> a.port, path |-> p,
            url |-> [scheme |-> a.protocol, host |-> a.host, port |-> a.port, path |-> p]]
<1> DEFINE u == [scheme |-> a.protocol, host |-> a.host, port |-> a.port, path |-> p]
           b == [a EXCEPT !.path = p]
<1>1. SetPath(a, p) = [a EXCEPT !.path = p, !.url = u]
  BY DEF SetPath
<1> HIDE DEF u
<1>2. [a EXCEPT !.path = p, !.url = u] = [b EXCEPT !.url = u]
  OBVIOUS
<1>3. b = [protocol |-> a.protocol, host |-> a.host, port |-> a.port, path |-> p, url |-> a.url]
  OBVIOUS
<1>4. b \in [protocol : P, host : H, port : O, path : {p}, url : U]
  BY <1>3
<1> HIDE DEF b
<1>5. [b EXCEPT !.url = u]
      = [protocol |-> b.protocol, host |-> b.host, port |-> b.port, path |-> b.path, url |-> u]
  BY <1>4
<1>6. /\ b.protocol = a.protocol /\ b.host = a.host /\ b.port = a.port /\ b.path = p
  BY <1>3
<1>7. SetPath(a, p) = [b EXCEPT !.url = u]
  BY <1>1, <1>2, Zenon
<1> QED
  BY <1>5, <1>6, <1>7 DEF u

\* Nothing is read of a path that begins with "/" but itself, and of the port the same.
LEMMA RootedRead ==
  ASSUME NEW t, t.port # NoPort, t.path \in Seq(STRING), Rooted(t.path)
  PROVE  PortRead(t) = t.port /\ PathRead(t) = t.path
<1> DEFINE N == LeadingDigits(t.path)
           IsPorts(P) == P = [n \in 0 .. LeadingDigits(t.path) |->
                                IF n = 0 THEN t.port ELSE P[n - 1] * 10 + DigitValue(t.path[n])]
           ports == CHOOSE P : IsPorts(P)
<1>1. N = 0
  <2> DEFINE D == {i \in 1 .. Len(t.path) :
                     \A j \in 1 .. i : \E v \in 0 .. 9 : Numerals[v + 1] = t.path[j]}
  <2>1. \A v \in 0 .. 9 : Numerals[v + 1] # "/"
    BY DEF Numerals
  <2>2. t.path[1] = "/"
    BY DEF Rooted
  <2>3. D = {}
    <3> SUFFICES ASSUME NEW i \in D PROVE FALSE
      OBVIOUS
    <3>1. i \in 1 .. Len(t.path) /\ 1 \in 1 .. i
      OBVIOUS
    <3> QED
      BY <2>1, <2>2, <3>1
  <2>4. Cardinality(D) = 0
    BY <2>3, FS_EmptySet
  <2> QED
    BY <2>4 DEF LeadingDigits
<1>2. IsPorts([n \in 0 .. N |-> t.port])
  <2> HIDE DEF N
  <2>1. [n \in 0 .. N |-> t.port]
        = [n \in 0 .. N |-> IF n = 0 THEN t.port
                           ELSE [k \in 0 .. N |-> t.port][n - 1] * 10 + DigitValue(t.path[n])]
    BY <1>1
  <2> QED
    BY <2>1, Zenon DEF N
<1>3. IsPorts(ports)
  BY <1>2, Zenon
<1>4. PortRead(t) = ports[N]
  BY Zenon DEF PortRead
<1>5. ports[0] = t.port
  <2> HIDE DEF ports
  <2>1. ports = [n \in 0 .. N |-> IF n = 0 THEN t.port ELSE ports[n - 1] * 10 + DigitValue(t.path[n])]
    BY <1>3, Zenon
  <2> HIDE DEF N
  <2>2. 0 \in 0 .. N
    BY <1>1
  <2> QED
    BY <2>1, <2>2
<1>6. PortRead(t) = t.port
  BY <1>1, <1>4, <1>5, Zenon
<1>7. PathRead(t) = t.path
  BY <1>1 DEF PathRead
<1> QED
  BY <1>6, <1>7

\* What an address is made of, however it came about.
IsAddress(a) ==
  /\ \E P, H, O, W, U : a \in [protocol : P, host : H, port : O, path : W, url : U]
  /\ a.protocol # Missing
  /\ a.port # NoPort /\ a.port < 2^16

\* Parse makes an address of a text it accepts, whose path begins with "/".
LEMMA ParseIs ==
  ASSUME NEW t, Parses(t)
  PROVE  IsAddress(Parse(t)) /\ Rooted(Parse(t).path) /\ Parse(t).url = t
<1>1. Parse(t) \in [protocol : {Parse(t).protocol}, host : {Parse(t).host}, port : {Parse(t).port},
                    path : {Parse(t).path}, url : {Parse(t).url}]
  BY DEF Parse
<1>2. Parse(t).protocol # Missing
  BY DEF Parse, Missing
<1>3. Parse(t).port # NoPort /\ Parse(t).port < 2^16
  BY DEF Parse, Parses, DefaultPort, NoPort
<1>4. Rooted(Parse(t).path)
  <2>1. Rooted(Root)
    BY DEF Rooted, Root, NoPath
  <2> QED
    BY <2>1 DEF Parse, Parses
<1>5. Parse(t).url = t
  BY DEF Parse
<1> QED
  BY <1>1, <1>2, <1>3, <1>4, <1>5, Zenon DEF IsAddress

\* An address whose path is replaced is one still, and its url means it exactly if the
\* new path begins with "/".
LEMMA PathReplaced ==
  ASSUME NEW a, IsAddress(a), NEW p \in Seq(STRING)
  PROVE  /\ IsAddress(SetPath(a, p))
         /\ SetPath(a, p).path = p
         /\ Rooted(p) => /\ Parses(SetPath(a, p).url)
                         /\ Parse(SetPath(a, p).url) = SetPath(a, p)
<1> DEFINE b == SetPath(a, p)
           u == [scheme |-> a.protocol, host |-> a.host, port |-> a.port, path |-> p]
<1>1. b = [protocol |-> a.protocol, host |-> a.host, port |-> a.port, path |-> p, url |-> u]
  BY SetPathParts DEF IsAddress
<1>2. a.port # NoPort /\ a.port < 2^16 /\ a.protocol # Missing
  BY DEF IsAddress
<1> HIDE DEF b, u
<1>3. b.protocol = a.protocol /\ b.port = a.port /\ b.path = p /\ b.url = u
  BY <1>1
<1>4. IsAddress(b)
  <2>1. b \in [protocol : {a.protocol}, host : {a.host}, port : {a.port}, path : {p}, url : {u}]
    BY <1>1
  <2> QED
    BY <1>2, <1>3, <2>1, Zenon DEF IsAddress
<1>5. ASSUME Rooted(p) PROVE Parses(b.url) /\ Parse(b.url) = b
  <2>1. u.port = a.port /\ u.path = p /\ u.scheme = a.protocol /\ u.host = a.host
    BY DEF u
  <2>2. PortRead(u) = a.port /\ PathRead(u) = p
    BY <1>2, <1>5, <2>1, RootedRead
  <2>3. p # NoPath
    BY <1>5 DEF Rooted
  <2>4. Parses(u)
    BY <1>2, <1>5, <2>1, <2>2 DEF Parses
  <2>5. Parse(u) = b
    BY <1>1, <1>2, <2>1, <2>2, <2>3 DEF Parse
  <2> QED
    BY <1>3, <2>4, <2>5
<1> QED
  BY <1>3, <1>4, <1>5, Zenon DEF b

\* Url accepts what HostAddress accepts with a scheme, and finds the same in it.
LEMMA ParsersAgreeAlways ==
  ASSUME NEW t
  PROVE  /\ UrlParses(t) <=> t.scheme # Missing /\ Parses(t)
         /\ UrlParses(t) => UrlParse(t) = [protocol |-> Parse(t).protocol, host |-> Parse(t).host,
                                           port |-> Parse(t).port, target |-> Parse(t).path]
<1>1. UrlParses(t) <=> t.scheme # Missing /\ Parses(t)
  BY DEF UrlParses, Parses, DefaultPort
<1>2. ASSUME UrlParses(t)
      PROVE  UrlParse(t) = [protocol |-> Parse(t).protocol, host |-> Parse(t).host,
                            port |-> Parse(t).port, target |-> Parse(t).path]
  <2>1. t.scheme # Missing
    BY <1>2 DEF UrlParses
  <2>2. t.port = NoPort => UrlPort(t.scheme) = DefaultPort[t.scheme]
    BY <1>2 DEF UrlParses, UrlPort, DefaultPort
  <2> QED
    BY <2>1, <2>2 DEF UrlParse, Parse
<1> QED
  BY <1>1, <1>2

-----------------------------------------------------------------------------
(* Configuration *)

Contexts == [unlocks : BOOLEAN, loaded : SUBSET ToSet(KeyTexts), failed : BOOLEAN]

\* The first n of the texts that Base::Init reads.
FirstTexts(n) == {KeyTexts[i] : i \in 1 .. n}

\* The six texts, one after the other.
LEMMA Names ==
  /\ Len(KeyTexts) = 6 /\ ToSet(KeyTexts) = FirstTexts(6) /\ FirstTexts(0) = {}
  /\ \A n \in 0 .. 5 : FirstTexts(n + 1) = FirstTexts(n) \cup {KeyTexts[n + 1]}
  /\ \A n \in 1 .. 6 : KeyTexts[n] \in ToSet(KeyTexts)
<1>1. Len(KeyTexts) = 6 /\ DOMAIN KeyTexts = 1 .. 6
  BY DEF KeyTexts
<1>2. ToSet(KeyTexts) = FirstTexts(6)
  BY <1>1 DEF ToSet, FirstTexts
<1>3. FirstTexts(0) = {}
  BY DEF FirstTexts
<1>4. \A n \in 0 .. 5 : FirstTexts(n + 1) = FirstTexts(n) \cup {KeyTexts[n + 1]}
  BY DEF FirstTexts
<1>5. \A n \in 1 .. 6 : KeyTexts[n] \in ToSet(KeyTexts)
  BY <1>1 DEF ToSet
<1> QED
  BY <1>1, <1>2, <1>3, <1>4, <1>5

\* What one text does to a context.
LEMMA UseOne ==
  ASSUME NEW c \in Contexts, NEW config, NEW name \in ToSet(KeyTexts)
  PROVE  /\ Use(c, config, name) \in Contexts
         /\ Use(c, config, name).unlocks = c.unlocks
         /\ ~Use(c, config, name).failed =>
              /\ ~c.failed
              /\ Use(c, config, name).loaded = IF config[name] = "" THEN c.loaded ELSE c.loaded \cup {name}
         /\ ~c.failed /\ (config[name] = "" \/ Loads(config[name], c.unlocks)) => ~Use(c, config, name).failed
<1>1. CASE c.failed \/ config[name] = ""
  BY <1>1 DEF Use
<1>2. CASE ~(c.failed \/ config[name] = "") /\ Loads(config[name], c.unlocks)
  <2>1. Use(c, config, name) = [c EXCEPT !.loaded = @ \cup {name}]
    BY <1>2, Zenon DEF Use
  <2>2. c.loaded \cup {name} \in SUBSET ToSet(KeyTexts)
    BY DEF Contexts
  <2> QED
    BY <1>2, <2>1, <2>2 DEF Contexts
<1>3. CASE ~(c.failed \/ config[name] = "") /\ ~Loads(config[name], c.unlocks)
  <2>1. Use(c, config, name) = [c EXCEPT !.failed = TRUE]
    BY <1>3, Zenon DEF Use
  <2> QED
    BY <1>3, <2>1 DEF Contexts
<1> QED
  BY <1>1, <1>2, <1>3

\* What all of them do: none is left out unless one throws, and none throws that
\* OpenSSL can use.
LEMMA UseEvery ==
  ASSUME NEW c \in Contexts, ~c.failed, c.loaded = {}, NEW config
  PROVE  /\ UseAll(c, config) \in Contexts
         /\ ~UseAll(c, config).failed =>
              UseAll(c, config).loaded = {f \in ToSet(KeyTexts) : config[f] # ""}
         /\ (\A f \in ToSet(KeyTexts) : config[f] = "" \/ Loads(config[f], c.unlocks))
              => ~UseAll(c, config).failed
<1> DEFINE step == [x \in (1 .. 6) \X Contexts |-> Use(x[2], config, KeyTexts[x[1]])]
           IsUse(U) == U = [n \in 0 .. Len(KeyTexts) |->
                              IF n = 0 THEN c ELSE Use(U[n - 1], config, KeyTexts[n])]
           U == CHOOSE U : IsUse(U)
<1>1. \E V : IsUse(V)
  <2>1. step \in [(1 .. 6) \X Contexts -> Contexts]
    <3>1. \A x \in (1 .. 6) \X Contexts : x[2] \in Contexts /\ KeyTexts[x[1]] \in ToSet(KeyTexts)
      BY Names
    <3>2. \A x \in (1 .. 6) \X Contexts : Use(x[2], config, KeyTexts[x[1]]) \in Contexts
      BY <3>1, UseOne
    <3> QED
      BY <3>2
  <2>2. \A n \in 1 .. 6, d \in Contexts : step[<<n, d>>] = Use(d, config, KeyTexts[n])
    OBVIOUS
  <2> HIDE DEF step
  <2>3. PICK f \in [0 .. 6 -> Contexts] : IsRecursive(f, 6, c, step)
    BY <2>1, Recursion
  <2>4. \A n \in 0 .. 6 : f[n] = IF n = 0 THEN c ELSE step[<<n, f[n - 1]>>]
    BY <2>3 DEF IsRecursive
  <2>5. \A n \in 0 .. 6 : n # 0 => n \in 1 .. 6 /\ f[n - 1] \in Contexts
    OBVIOUS
  <2>6. \A n \in 0 .. 6 : f[n] = IF n = 0 THEN c ELSE Use(f[n - 1], config, KeyTexts[n])
    BY <2>2, <2>4, <2>5
  <2>7. f = [n \in 0 .. 6 |-> f[n]]
    OBVIOUS
  <2>8. IsUse(f)
    BY <2>6, <2>7, Names
  <2> QED
    BY <2>8
<1>2. IsUse(U)
  BY <1>1, Zenon
<1>3. UseAll(c, config) = U[6]
  <2>1. UseAll(c, config) = U[Len(KeyTexts)]
    BY Zenon DEF UseAll
  <2> QED
    BY <2>1, Names
<1> HIDE DEF U
<1>4. /\ U[0] = c
      /\ \A n \in 0 .. 5 : U[n + 1] = Use(U[n], config, KeyTexts[n + 1])
  BY <1>2, Names
<1> DEFINE Good(n) ==
             /\ U[n] \in Contexts
             /\ U[n].unlocks = c.unlocks
             /\ ~U[n].failed => U[n].loaded = {f \in FirstTexts(n) : config[f] # ""}
             /\ (\A f \in FirstTexts(n) : config[f] = "" \/ Loads(config[f], c.unlocks)) => ~U[n].failed
           T == {n \in 0 .. 6 : Good(n)}
<1>5. \A n : n \in T <=> n \in 0 .. 6 /\ Good(n)
  BY Zenon
<1>6. Good(0)
  BY <1>4, Names
<1> HIDE DEF T
<1>7. 0 \in T
  <2> HIDE DEF Good
  <2> QED
    BY <1>5, <1>6
<1>8. ASSUME NEW n \in 0 .. 6 - 1, n \in T PROVE n + 1 \in T
  <2> DEFINE d == U[n]
             name == KeyTexts[n + 1]
             e == Use(d, config, name)
  <2>1. Good(n)
    BY <1>8, <1>5, Zenon
  <2>2. n \in 0 .. 5 /\ n + 1 \in 1 .. 6
    OBVIOUS
  <2>3. name \in ToSet(KeyTexts) /\ FirstTexts(n + 1) = FirstTexts(n) \cup {name}
    BY <2>2, Names
  <2>4. U[n + 1] = e
    BY <1>4, <2>2
  <2>5. /\ e \in Contexts
        /\ e.unlocks = d.unlocks
        /\ ~e.failed => ~d.failed /\ e.loaded = IF config[name] = "" THEN d.loaded ELSE d.loaded \cup {name}
        /\ ~d.failed /\ (config[name] = "" \/ Loads(config[name], d.unlocks)) => ~e.failed
    BY <2>1, <2>3, UseOne
  <2> HIDE DEF d, e, name
  <2>6. /\ d.unlocks = c.unlocks
        /\ ~d.failed => d.loaded = {f \in FirstTexts(n) : config[f] # ""}
        /\ (\A f \in FirstTexts(n) : config[f] = "" \/ Loads(config[f], c.unlocks)) => ~d.failed
    BY <2>1 DEF d
  <2>7. ~e.failed => e.loaded = {f \in FirstTexts(n + 1) : config[f] # ""}
    BY <2>3, <2>5, <2>6
  <2>8. (\A f \in FirstTexts(n + 1) : config[f] = "" \/ Loads(config[f], c.unlocks)) => ~e.failed
    BY <2>3, <2>5, <2>6
  <2>9. Good(n + 1)
    BY <2>4, <2>5, <2>6, <2>7, <2>8
  <2> HIDE DEF Good
  <2> QED
    BY <1>5, <2>2, <2>9
<1>9. 0 .. 6 \subseteq T
  BY <1>7, <1>8, Induction
<1>10. Good(6)
  <2> HIDE DEF Good
  <2> QED
    BY <1>5, <1>9
<1> QED
  BY <1>3, <1>10, Names

\* The context of a configuration has all that it gives, or it failed; and what OpenSSL
\* can use does not make it fail.
LEMMA ContextAlways ==
  ASSUME NEW d
  PROVE  /\ ~Context(d).failed => Context(d).loaded = {f \in ToSet(KeyTexts) : d[f] # ""}
         /\ /\ d.certificate_authority # ""
            /\ \A f \in ToSet(KeyTexts) :
                 d[f] = "" \/ d[f] = "pem" \/ (d[f] = "locked" /\ d.password = "secret")
            => ~Context(d).failed
<1> DEFINE c == SetPassword(EmptyContext, d)
           b == UseAll(c, d)
<1>1. c \in Contexts /\ ~c.failed /\ c.loaded = {} /\ (d.password = "secret" => c.unlocks)
  <2>1. EmptyContext \in Contexts
    BY DEF EmptyContext, Contexts
  <2>2. c = [EmptyContext EXCEPT !.unlocks = EmptyContext.unlocks \/ d.password # ""]
    BY DEF SetPassword
  <2>3. /\ c \in Contexts /\ c.failed = EmptyContext.failed /\ c.loaded = EmptyContext.loaded
        /\ c.unlocks = (EmptyContext.unlocks \/ d.password # "")
    BY <2>1, <2>2 DEF Contexts
  <2>4. EmptyContext.failed = FALSE /\ EmptyContext.loaded = {}
    BY DEF EmptyContext
  <2>5. d.password = "secret" => d.password # ""
    OBVIOUS
  <2> QED
    BY <2>3, <2>4, <2>5
<1> HIDE DEF c
<1>2. /\ b \in Contexts
      /\ ~b.failed => b.loaded = {f \in ToSet(KeyTexts) : d[f] # ""}
      /\ (\A f \in ToSet(KeyTexts) : d[f] = "" \/ Loads(d[f], c.unlocks)) => ~b.failed
  BY <1>1, UseEvery
<1>3. Base(d) = b
  BY DEF Base, c
<1> HIDE DEF b
<1>4. Context(d) = IF b.failed \/ d.certificate_authority # "" THEN b ELSE [b EXCEPT !.failed = TRUE]
  BY <1>3 DEF Context, RootHanded, PointerSize, FirstRootLength
<1>5. CASE b.failed \/ d.certificate_authority # ""
  <2>1. Context(d) = b
    BY <1>4, <1>5
  <2> QED
    BY <1>1, <1>2, <2>1 DEF Loads
<1>6. CASE ~(b.failed \/ d.certificate_authority # "")
  <2>1. Context(d) = [b EXCEPT !.failed = TRUE]
    BY <1>4, <1>6
  <2>2. Context(d).failed
    BY <1>2, <2>1 DEF Contexts
  <2> QED
    BY <1>6, <2>2
<1> QED
  BY <1>5, <1>6

\* A configuration that starts a program is one it can run with.
LEMMA StartsAlways ==
  ASSUME NEW d, Starts(d), d.ssl_type.low \in Int
  PROVE  /\ Len(d.addr) > 0
         /\ Timeout(d) > 0
         /\ Limit(d) \in 0 .. 1000
         /\ PositiveReal(d.heartbeat_interval) /\ PositiveReal(d.reconnect_interval)
         /\ d.verification => d.hostname # "" /\ Int32(d.ssl_type, 0) > 0
<1>1. Len(d.addr) > 0
  <2>1. d.addr \in Seq({"good"}) /\ d.addr # <<>>
    BY DEF Starts, BookAccepted, BookNotEmpty
  <2> QED
    BY <2>1
<1>2. Timeout(d) > 0 /\ Limit(d) \in 0 .. 1000 /\ PositiveReal(d.reconnect_interval)
  BY Zenon DEF Starts, WebsocketAccepted
<1>3. PositiveReal(d.heartbeat_interval)
  BY Zenon DEF Starts, InterfaceAccepted
<1>4. ASSUME d.verification PROVE d.hostname # "" /\ Int32(d.ssl_type, 0) > 0
  <2> DEFINE n == Int32(d.ssl_type, 0)
  <2>1. n >= 0 /\ d.hostname # "" /\ n # 0
    BY <1>4, Zenon DEF Starts, SslAccepted
  <2>2. n \in Int
    BY DEF Int32
  <2> HIDE DEF n
  <2>3. n >= 0 /\ n # 0
    BY <2>1, Zenon
  <2>4. n > 0
    BY <2>2, <2>3
  <2> QED
    BY <2>1, <2>4, Zenon DEF n
<1> QED
  BY <1>1, <1>2, <1>3, <1>4

-----------------------------------------------------------------------------
(* Targets *)

\* Where c is first in s; behind its end if it is not in s.
LEMMA FirstIs ==
  ASSUME NEW C, NEW s \in Seq(C), NEW c
  PROVE  /\ First(s, c) \in 1 .. Len(s) + 1
         /\ \A i \in 1 .. First(s, c) - 1 : s[i] # c
         /\ First(s, c) # Len(s) + 1 => s[First(s, c)] = c
<1> DEFINE T == {i \in 1 .. Len(s) : s[i] = c} \cup {Len(s) + 1}
           f == First(s, c)
<1>1. Len(s) \in Nat
  OBVIOUS
<1>2. T \subseteq 1 .. Len(s) + 1 /\ T # {}
  BY <1>1
<1>3. \E x \in T : \A y \in T : x <= y
  <2>1. T \subseteq Nat
    BY <1>1, <1>2
  <2> QED
    BY <1>2, <2>1, Least
<1>4. f \in T /\ \A y \in T : f <= y
  BY <1>3, Zenon DEF First, Min
<1> HIDE DEF f
<1>5. \A i \in 1 .. f - 1 : i \notin T
  BY <1>1, <1>2, <1>4
<1>6. \A i \in 1 .. f - 1 : i \in 1 .. Len(s)
  BY <1>1, <1>2, <1>4
<1> QED
  BY <1>1, <1>2, <1>4, <1>5, <1>6 DEF f

\* The least of two numbers.
LEMMA LesserIs ==
  ASSUME NEW a \in Nat, NEW b \in Nat
  PROVE  Min({a, b}) = IF a <= b THEN a ELSE b
<1>1. \E x \in {a, b} : \A y \in {a, b} : x <= y
  OBVIOUS
<1>2. Min({a, b}) \in {a, b} /\ \A y \in {a, b} : Min({a, b}) <= y
  BY <1>1, Zenon DEF Min
<1> QED
  BY <1>2

\* A part of s is without chars if s is there.
LEMMA WithoutIn ==
  ASSUME NEW C, NEW s \in Seq(C), NEW a \in 1 .. Len(s) + 1, NEW b \in 0 .. Len(s), NEW chars
  PROVE  Without(SubSeq(s, a, b), chars) <=> \A i \in a .. b : s[i] \notin chars
<1>1. Len(s) \in Nat
  OBVIOUS
<1>2. CASE a <= b
  <2>1. /\ Len(SubSeq(s, a, b)) = b - a + 1
        /\ \A i \in 1 .. b - a + 1 : SubSeq(s, a, b)[i] = s[a + i - 1]
    BY <1>1, <1>2
  <2>2. \A i \in 1 .. b - a + 1 : a + i - 1 \in a .. b
    BY <1>1, <1>2
  <2>3. \A i \in a .. b : i - a + 1 \in 1 .. b - a + 1 /\ a + (i - a + 1) - 1 = i
    BY <1>1, <1>2
  <2> QED
    BY <2>1, <2>2, <2>3 DEF Without
<1>3. CASE ~(a <= b)
  <2>1. Len(SubSeq(s, a, b)) = 0
    BY <1>1, <1>3
  <2> QED
    BY <1>1, <1>3, <2>1 DEF Without
<1> QED
  BY <1>2, <1>3

\* A target is taken apart in one way, the standard's.
LEMMA TargetAlways ==
  ASSUME NEW C, NEW s \in Seq(C)
  PROVE  ParseTarget(s) = {StandardParts(s)}
<1> DEFINE N == Len(s)
           f == First(s, "#")
           h == First(s, "?")
           q == Min({h, f})
<1>1. N \in Nat
  OBVIOUS
<1>2. /\ f \in 1 .. N + 1 /\ (\A i \in 1 .. f - 1 : s[i] # "#") /\ (f # N + 1 => s[f] = "#")
      /\ h \in 1 .. N + 1 /\ (\A i \in 1 .. h - 1 : s[i] # "?") /\ (h # N + 1 => s[h] = "?")
  BY FirstIs
<1>3. StandardParts(s) = Parts(Before(s, q), SubSeq(s, q + 1, f - 1), Behind(s, f))
  BY DEF StandardParts
<1>4. q = IF h <= f THEN h ELSE f
  <2>1. h \in Nat /\ f \in Nat
    BY <1>1, <1>2
  <2> HIDE DEF h, f
  <2> QED
    BY <2>1, LesserIs
<1>5. \A chars : \A j \in 1 .. N + 1 :
        Without(Before(s, j), chars) <=> \A i \in 1 .. j - 1 : s[i] \notin chars
  <2> TAKE chars
  <2> TAKE j \in 1 .. N + 1
  <2>1. 1 \in 1 .. N + 1 /\ j - 1 \in 0 .. N
    BY <1>1
  <2> QED
    BY <2>1, WithoutIn DEF Before
<1>6. \A chars : \A j \in 1 .. N :
        Without(Behind(s, j), chars) <=> \A i \in j + 1 .. N : s[i] \notin chars
  <2> TAKE chars
  <2> TAKE j \in 1 .. N
  <2>1. j + 1 \in 1 .. N + 1 /\ N \in 0 .. N
    BY <1>1
  <2> QED
    BY <2>1, WithoutIn DEF Behind
<1>7. \A chars : \A k \in 1 .. N, l \in 1 .. N :
        Without(SubSeq(s, k + 1, l - 1), chars) <=> \A i \in k + 1 .. l - 1 : s[i] \notin chars
  <2> TAKE chars
  <2> TAKE k \in 1 .. N, l \in 1 .. N
  <2>1. k + 1 \in 1 .. N + 1 /\ l - 1 \in 0 .. N
    BY <1>1
  <2> QED
    BY <2>1, WithoutIn
<1>8. Without(s, {"?", "#"}) <=> h = N + 1 /\ f = N + 1
  <2>1. Without(s, {"?", "#"}) <=> \A i \in 1 .. N : s[i] # "?" /\ s[i] # "#"
    BY DEF Without
  <2> QED
    BY <1>1, <1>2, <2>1
<1> HIDE DEF N, f, h, q
\* Where the four patterns may split s.
<1>9. \A j \in 1 .. N : s[j] = "?" /\ Without(Before(s, j), {"?", "#"}) <=> j = h /\ h < f
  <2>1. "?" # "#"
    OBVIOUS
  <2> QED
    BY <1>1, <1>2, <1>5, <2>1
<1>10. \A j \in 1 .. N : s[j] = "#" /\ Without(Before(s, j), {"?", "#"}) <=> j = f /\ f < h
  <2>1. "?" # "#"
    OBVIOUS
  <2> QED
    BY <1>1, <1>2, <1>5, <2>1
<1>11. h < f => (Without(Behind(s, h), {"#"}) <=> f = N + 1)
  BY <1>1, <1>2, <1>6
<1>12. ASSUME h < f, NEW l \in 1 .. N
       PROVE  h < l /\ s[l] = "#" /\ Without(SubSeq(s, h + 1, l - 1), {"#"}) <=> l = f
  <2>1. h \in 1 .. N
    BY <1>1, <1>2, <1>12
  <2>2. Without(SubSeq(s, h + 1, l - 1), {"#"}) <=> \A i \in h + 1 .. l - 1 : s[i] # "#"
    BY <1>7, <2>1
  <2>3. ASSUME l = f PROVE h < l /\ s[l] = "#" /\ \A i \in h + 1 .. l - 1 : s[i] # "#"
    BY <1>1, <1>2, <1>12, <2>1, <2>3
  <2>4. ASSUME h < l, s[l] = "#", \A i \in h + 1 .. l - 1 : s[i] # "#" PROVE l = f
    <3>1. ~(l < f)
      BY <1>1, <1>2, <2>4
    <3>2. ASSUME f < l PROVE FALSE
      BY <1>1, <1>2, <1>12, <2>1, <2>4, <3>2
    <3> QED
      BY <1>1, <1>2, <3>1, <3>2
  <2> QED
    BY <2>2, <2>3, <2>4
\* So the pattern that applies is the one of the standard's first marks.
<1>13. ~Without(s, {"?", "#"}) => PathOnly(s) = {}
  BY DEF PathOnly
<1>14. ~(h < f) => PathQuery(s) = {} /\ PathQueryFragment(s) = {}
  BY <1>9 DEF PathQuery, PathQueryFragment, N
<1>15. CASE h = N + 1 /\ f = N + 1
  <2>1. PathOnly(s) = {Parts(s, <<>>, <<>>)}
    BY <1>8, <1>15 DEF PathOnly
  <2>2. q = N + 1
    BY <1>1, <1>4, <1>15
  <2>3. Before(s, q) = s
    BY <1>1, <2>2, SubSeqFull DEF Before, N
  <2>4. SubSeq(s, q + 1, f - 1) = <<>> /\ Behind(s, f) = <<>>
    BY <1>1, <1>15, <2>2, SubSeqEmpty DEF Behind, N
  <2> QED
    BY <1>3, <2>1, <2>3, <2>4 DEF ParseTarget
<1>16. CASE h < f /\ f = N + 1
  <2>1. PathOnly(s) = {}
    BY <1>1, <1>8, <1>13, <1>16
  <2>2. h \in 1 .. N /\ Without(Behind(s, h), {"#"})
    BY <1>1, <1>2, <1>11, <1>16
  <2>3. PathQuery(s) = {Parts(Before(s, h), Behind(s, h), <<>>)}
    <3>1. {j \in 1 .. Len(s) : /\ s[j] = "?" /\ Without(Before(s, j), {"?", "#"})
                              /\ Without(Behind(s, j), {"#"})} = {h}
      BY <1>9, <1>16, <2>2 DEF N
    <3> QED
      BY <3>1 DEF PathQuery
  <2>4. q = h /\ SubSeq(s, q + 1, f - 1) = Behind(s, h) /\ Behind(s, f) = <<>>
    <3>1. q = h
      BY <1>1, <1>2, <1>4, <1>16
    <3>2. f - 1 = N
      BY <1>1, <1>16
    <3>3. SubSeq(s, f + 1, N) = <<>>
      BY <1>1, <1>16, SubSeqEmpty
    <3> QED
      BY <3>1, <3>2, <3>3 DEF Behind, N
  <2> QED
    BY <1>3, <2>1, <2>3, <2>4 DEF ParseTarget
<1>17. CASE h < f /\ f # N + 1
  <2>1. PathOnly(s) = {}
    BY <1>1, <1>2, <1>8, <1>13, <1>17
  <2>2. h \in 1 .. N /\ f \in 1 .. N /\ ~Without(Behind(s, h), {"#"})
    BY <1>1, <1>2, <1>11, <1>17
  <2>3. PathQuery(s) = {}
    BY <1>9, <1>17, <2>2 DEF PathQuery, N
  <2>4. PathQueryFragment(s) = {Parts(Before(s, h), SubSeq(s, h + 1, f - 1), Behind(s, f))}
    <3> DEFINE K == {kl \in (1 .. Len(s)) \X (1 .. Len(s)) :
                       /\ kl[1] < kl[2] /\ s[kl[1]] = "?" /\ s[kl[2]] = "#"
                       /\ Without(Before(s, kl[1]), {"?", "#"})
                       /\ Without(SubSeq(s, kl[1] + 1, kl[2] - 1), {"#"})}
    <3>1. K = {<<h, f>>}
      <4>1. \A k \in 1 .. N, l \in 1 .. N :
              (/\ k < l /\ s[k] = "?" /\ s[l] = "#"
               /\ Without(Before(s, k), {"?", "#"})
               /\ Without(SubSeq(s, k + 1, l - 1), {"#"})) <=> k = h /\ l = f
        <5> TAKE k \in 1 .. N, l \in 1 .. N
        <5>1. s[k] = "?" /\ Without(Before(s, k), {"?", "#"}) <=> k = h
          BY <1>9, <1>17
        <5>2. h < l /\ s[l] = "#" /\ Without(SubSeq(s, h + 1, l - 1), {"#"}) <=> l = f
          BY <1>12, <1>17
        <5> QED
          BY <5>1, <5>2
      <4> QED
        BY <2>2, <4>1 DEF N
    <3>2. PathQueryFragment(s) = {Parts(Before(s, kl[1]), SubSeq(s, kl[1] + 1, kl[2] - 1),
                                        Behind(s, kl[2])) : kl \in K}
      BY Zenon DEF PathQueryFragment
    <3> HIDE DEF K
    <3> QED
      BY <3>1, <3>2
  <2>5. q = h
    BY <1>1, <1>2, <1>4, <1>17
  <2> QED
    BY <1>3, <2>1, <2>3, <2>4, <2>5 DEF ParseTarget
<1>18. CASE f < h
  <2>1. PathOnly(s) = {}
    BY <1>1, <1>2, <1>8, <1>13, <1>18
  <2>2. PathQuery(s) = {} /\ PathQueryFragment(s) = {}
    BY <1>1, <1>2, <1>14, <1>18
  <2>3. f \in 1 .. N
    BY <1>1, <1>2, <1>18
  <2>4. PathFragment(s) = {Parts(Before(s, f), <<>>, Behind(s, f))}
    <3>1. {j \in 1 .. Len(s) : s[j] = "#" /\ Without(Before(s, j), {"?", "#"})} = {f}
      BY <1>10, <1>18, <2>3 DEF N
    <3> QED
      BY <3>1 DEF PathFragment
  <2>5. q = f
    BY <1>1, <1>2, <1>4, <1>18
  <2>6. SubSeq(s, q + 1, f - 1) = <<>>
    BY <2>3, <2>5, SubSeqEmpty
  <2> QED
    BY <1>3, <2>1, <2>2, <2>4, <2>5, <2>6 DEF ParseTarget
<1> QED
  <2>1. h = f => h = N + 1
    BY <1>1, <1>2
  <2> QED
    BY <1>1, <1>2, <1>15, <1>16, <1>17, <1>18, <2>1

-----------------------------------------------------------------------------
(* Schedules *)

\* The recursive functions of ExpiryPolicy, equation by equation.
AreTotals(T, ds) ==
  /\ T[0] = 0
  /\ \A k \in 0 .. Len(ds) - 1 : T[k + 1] = T[k] + ds[k + 1]
  /\ \A k \in 0 .. Len(ds) : T[k] \in Nat

\* Total exists and is a number at each handler.
LEMMA TotalsAre ==
  ASSUME NEW ds \in Seq(Nat)
  PROVE  AreTotals(Total(ds), ds)
<1> DEFINE N == Len(ds)
           step == [x \in (1 .. N) \X Nat |-> x[2] + ds[x[1]]]
           IsTotal(T) == T = [k \in 0 .. Len(ds) |-> IF k = 0 THEN 0 ELSE T[k - 1] + ds[k]]
<1>1. N \in Nat /\ \A k \in 1 .. N : ds[k] \in Nat
  OBVIOUS
<1>2. PICK f \in [0 .. N -> Nat] : IsRecursive(f, N, 0, step)
  <2>1. step \in [(1 .. N) \X Nat -> Nat]
    BY <1>1
  <2> HIDE DEF step
  <2> QED
    BY <1>1, <2>1, Recursion
<1>3. \A k \in 0 .. N : f[k] = IF k = 0 THEN 0 ELSE f[k - 1] + ds[k]
  <2>1. \A k \in 1 .. N, e \in Nat : step[<<k, e>>] = e + ds[k]
    OBVIOUS
  <2>2. \A k \in 0 .. N : f[k] = IF k = 0 THEN 0 ELSE step[<<k, f[k - 1]>>]
    BY <1>2 DEF IsRecursive
  <2>3. \A k \in 0 .. N : k # 0 => k \in 1 .. N /\ f[k - 1] \in Nat
    <3>1. \A k \in 0 .. N : k # 0 => k \in 1 .. N /\ k - 1 \in 0 .. N
      BY <1>1
    <3> QED
      BY <3>1
  <2> HIDE DEF step
  <2> QED
    BY <2>1, <2>2, <2>3
<1>4. IsTotal(f)
  <2>1. f = [k \in 0 .. N |-> f[k]]
    OBVIOUS
  <2> QED
    BY <1>3, <2>1
<1>5. IsTotal(Total(ds))
  BY <1>4, Zenon DEF Total
<1> DEFINE T == Total(ds)
<1> HIDE DEF T
<1>6. \A k \in 0 .. N : T[k] = IF k = 0 THEN 0 ELSE T[k - 1] + ds[k]
  BY <1>5 DEF T
<1>7. T[0] = 0 /\ \A k \in 0 .. N - 1 : T[k + 1] = T[k] + ds[k + 1]
  BY <1>1, <1>6
<1>8. \A k \in 0 .. N : T[k] \in Nat
  <2> DEFINE S == {k \in 0 .. N : T[k] \in Nat}
  <2>1. 0 \in S
    BY <1>1, <1>7
  <2>2. ASSUME NEW k \in 0 .. N - 1, k \in S PROVE k + 1 \in S
    BY <1>1, <1>7, <2>2
  <2> HIDE DEF S
  <2>3. 0 .. N \subseteq S
    BY <1>1, <2>1, <2>2, Induction
  <2> QED
    BY <2>3 DEF S
<1> QED
  BY <1>7, <1>8 DEF AreTotals, T

ArePointEnds(E, ds, origin, interval) ==
  /\ E[0] = 0
  /\ \A k \in 0 .. Len(ds) - 1 :
       E[k + 1] = Over(DueAtPoint(k + 1, E[k], origin, interval), E[k]) + ds[k + 1]
  /\ \A k \in 0 .. Len(ds) : E[k] \in Nat

\* The ends at fixed points exist.
LEMMA PointEndsAre ==
  ASSUME NEW ds \in Seq(Nat), NEW origin \in Nat, NEW interval \in Nat
  PROVE  ArePointEnds(EndsAtPoint(ds, origin, interval), ds, origin, interval)
<1> DEFINE N == Len(ds)
           After(k, e) == Over(DueAtPoint(k, e, origin, interval), e) + ds[k]
           step == [x \in (1 .. N) \X Nat |-> After(x[1], x[2])]
           AreEnds(E) == E = [k \in 0 .. Len(ds) |->
                               IF k = 0 THEN 0
                               ELSE Over(DueAtPoint(k, E[k - 1], origin, interval), E[k - 1]) + ds[k]]
<1>1. N \in Nat /\ \A k \in 1 .. N : ds[k] \in Nat
  OBVIOUS
<1>2. \A k \in 1 .. N, e \in Nat : After(k, e) \in Nat
  <2> TAKE k \in 1 .. N, e \in Nat
  <2> DEFINE w == (k - 1) * interval
  <2>1. k - 1 \in Nat /\ w \in Nat
    BY <1>1
  <2> HIDE DEF w
  <2>2. DueAtPoint(k, e, origin, interval) = origin + w
    BY DEF DueAtPoint, w
  <2> QED
    BY <1>1, <2>1, <2>2 DEF Over
<1>3. PICK f \in [0 .. N -> Nat] : IsRecursive(f, N, 0, step)
  <2>1. step \in [(1 .. N) \X Nat -> Nat]
    <3> HIDE DEF After
    <3> QED
      BY <1>2
  <2> HIDE DEF step
  <2> QED
    BY <1>1, <2>1, Recursion
<1>4. \A k \in 0 .. N : f[k] = IF k = 0 THEN 0 ELSE After(k, f[k - 1])
  <2> HIDE DEF After
  <2>1. \A k \in 1 .. N, e \in Nat : step[<<k, e>>] = After(k, e)
    OBVIOUS
  <2>2. \A k \in 0 .. N : f[k] = IF k = 0 THEN 0 ELSE step[<<k, f[k - 1]>>]
    BY <1>3 DEF IsRecursive
  <2>3. \A k \in 0 .. N : k # 0 => k \in 1 .. N /\ f[k - 1] \in Nat
    <3>1. \A k \in 0 .. N : k # 0 => k \in 1 .. N /\ k - 1 \in 0 .. N
      BY <1>1
    <3> QED
      BY <3>1
  <2> HIDE DEF step
  <2> QED
    BY <2>1, <2>2, <2>3
<1>5. AreEnds(f)
  <2>1. f = [k \in 0 .. N |-> f[k]]
    OBVIOUS
  <2> QED
    BY <1>4, <2>1
<1> DEFINE E == EndsAtPoint(ds, origin, interval)
<1>6. AreEnds(E)
  BY <1>5, Zenon DEF EndsAtPoint
<1> HIDE DEF E
<1>7. \A k \in 0 .. N : E[k] = IF k = 0 THEN 0 ELSE After(k, E[k - 1])
  BY <1>6
<1> HIDE DEF After
<1>8. E[0] = 0 /\ \A k \in 0 .. N - 1 : E[k + 1] = After(k + 1, E[k])
  BY <1>1, <1>7
<1>9. \A k \in 0 .. N : E[k] \in Nat
  <2> DEFINE S == {k \in 0 .. N : E[k] \in Nat}
  <2>1. 0 \in S
    BY <1>1, <1>8
  <2>2. ASSUME NEW k \in 0 .. N - 1, k \in S PROVE k + 1 \in S
    <3>1. k + 1 \in 1 .. N /\ k + 1 \in 0 .. N /\ E[k] \in Nat
      BY <1>1, <2>2
    <3> QED
      BY <1>2, <1>8, <3>1
  <2> HIDE DEF S
  <2>3. 0 .. N \subseteq S
    BY <1>1, <2>1, <2>2, Induction
  <2> QED
    BY <2>3 DEF S
<1> QED
  BY <1>8, <1>9 DEF ArePointEnds, E, After

AreIntervalEnds(E, ds, interval) ==
  /\ E[0] = 0
  /\ \A k \in 0 .. Len(ds) - 1 :
       E[k + 1] = Over(DueAfter(E[k], interval), E[k]) + ds[k + 1]
  /\ \A k \in 0 .. Len(ds) : E[k] \in Nat

\* The ends an interval apart exist.
LEMMA IntervalEndsAre ==
  ASSUME NEW ds \in Seq(Nat), NEW interval \in Nat
  PROVE  AreIntervalEnds(EndsAfter(ds, interval), ds, interval)
<1> DEFINE N == Len(ds)
           After(k, e) == Over(DueAfter(e, interval), e) + ds[k]
           step == [x \in (1 .. N) \X Nat |-> After(x[1], x[2])]
           AreEnds(E) == E = [k \in 0 .. Len(ds) |->
                               IF k = 0 THEN 0
                               ELSE Over(DueAfter(E[k - 1], interval), E[k - 1]) + ds[k]]
<1>1. N \in Nat /\ \A k \in 1 .. N : ds[k] \in Nat
  OBVIOUS
<1>2. \A k \in 1 .. N, e \in Nat : After(k, e) \in Nat
  BY <1>1 DEF Over, DueAfter
<1>3. PICK f \in [0 .. N -> Nat] : IsRecursive(f, N, 0, step)
  <2>1. step \in [(1 .. N) \X Nat -> Nat]
    <3> HIDE DEF After
    <3> QED
      BY <1>2
  <2> HIDE DEF step
  <2> QED
    BY <1>1, <2>1, Recursion
<1>4. \A k \in 0 .. N : f[k] = IF k = 0 THEN 0 ELSE After(k, f[k - 1])
  <2> HIDE DEF After
  <2>1. \A k \in 1 .. N, e \in Nat : step[<<k, e>>] = After(k, e)
    OBVIOUS
  <2>2. \A k \in 0 .. N : f[k] = IF k = 0 THEN 0 ELSE step[<<k, f[k - 1]>>]
    BY <1>3 DEF IsRecursive
  <2>3. \A k \in 0 .. N : k # 0 => k \in 1 .. N /\ f[k - 1] \in Nat
    <3>1. \A k \in 0 .. N : k # 0 => k \in 1 .. N /\ k - 1 \in 0 .. N
      BY <1>1
    <3> QED
      BY <3>1
  <2> HIDE DEF step
  <2> QED
    BY <2>1, <2>2, <2>3
<1>5. AreEnds(f)
  <2>1. f = [k \in 0 .. N |-> f[k]]
    OBVIOUS
  <2> QED
    BY <1>4, <2>1
<1> DEFINE E == EndsAfter(ds, interval)
<1>6. AreEnds(E)
  BY <1>5, Zenon DEF EndsAfter
<1> HIDE DEF E
<1>7. \A k \in 0 .. N : E[k] = IF k = 0 THEN 0 ELSE After(k, E[k - 1])
  BY <1>6
<1> HIDE DEF After
<1>8. E[0] = 0 /\ \A k \in 0 .. N - 1 : E[k + 1] = After(k + 1, E[k])
  BY <1>1, <1>7
<1>9. \A k \in 0 .. N : E[k] \in Nat
  <2> DEFINE S == {k \in 0 .. N : E[k] \in Nat}
  <2>1. 0 \in S
    BY <1>1, <1>8
  <2>2. ASSUME NEW k \in 0 .. N - 1, k \in S PROVE k + 1 \in S
    <3>1. k + 1 \in 1 .. N /\ k + 1 \in 0 .. N /\ E[k] \in Nat
      BY <1>1, <2>2
    <3> QED
      BY <1>2, <1>8, <3>1
  <2> HIDE DEF S
  <2>3. 0 .. N \subseteq S
    BY <1>1, <2>1, <2>2, Induction
  <2> QED
    BY <2>3 DEF S
<1> QED
  BY <1>8, <1>9 DEF AreIntervalEnds, E, After

\* The greatest member of a set that has one.
LEMMA GreatestIs ==
  ASSUME NEW A, A \subseteq Int, NEW x \in A, \A y \in A : x >= y
  PROVE  Max(A) = x
<1>1. Max(A) \in A /\ \A y \in A : Max(A) >= y
  BY Zenon DEF Max
<1> DEFINE m == Max(A)
<1> HIDE DEF m
<1>2. m \in Int /\ x \in Int /\ m >= x /\ x >= m
  BY <1>1 DEF m
<1>3. m = x
  BY <1>2
<1> QED
  BY <1>3 DEF m

\* A wait is over neither before its time nor before now.
LEMMA OverIs ==
  ASSUME NEW due \in Nat, NEW at \in Nat
  PROVE  /\ Over(due, at) \in Nat /\ Over(due, at) >= due /\ Over(due, at) >= at
         /\ due > at => Over(due, at) = due
         /\ ~(due > at) => Over(due, at) = at
BY DEF Over

\* At points: the handler ends as late as the latest point allows, and what ran since.
LEMMA ByPointsAlways ==
  ASSUME NEW ds \in Seq(Nat), NEW origin \in Nat, NEW interval \in Nat, NEW k \in 1 .. Len(ds)
  PROVE  EndsAtPoint(ds, origin, interval)[k] = ByPoints(ds, origin, interval, k)
<1> DEFINE N == Len(ds)
           E == EndsAtPoint(ds, origin, interval)
           T == Total(ds)
           P(j) == origin + (j - 1) * interval
           A(n) == {P(j) + Delayed(ds, j, n) : j \in 1 .. n}
<1>1. N \in Nat /\ (\A n \in 1 .. N : ds[n] \in Nat) /\ 1 \in 1 .. N
  OBVIOUS
<1>2. ArePointEnds(E, ds, origin, interval)
  BY PointEndsAre
<1>3. AreTotals(T, ds)
  BY TotalsAre
<1>4. \A j \in 1 .. N : P(j) \in Nat
  <2> TAKE j \in 1 .. N
  <2> DEFINE w == (j - 1) * interval
  <2>1. w \in Nat
    BY <1>1
  <2> HIDE DEF w
  <2>2. P(j) = origin + w
    BY DEF w
  <2> QED
    BY <2>1, <2>2
<1>5. P(1) = origin
  OBVIOUS
<1> DEFINE Latest(n) == /\ \E j \in 1 .. n : E[n] = P(j) + (T[n] - T[j - 1])
                        /\ \A j \in 1 .. n : E[n] >= P(j) + (T[n] - T[j - 1])
           S == {n \in 0 .. N - 1 : Latest(n + 1)}
<1>6. \A n \in 0 .. N - 1 : E[n + 1] = Over(P(n + 1), E[n]) + ds[n + 1]
  <2> TAKE n \in 0 .. N - 1
  <2>1. E[n + 1] = Over(DueAtPoint(n + 1, E[n], origin, interval), E[n]) + ds[n + 1]
    BY <1>2 DEF ArePointEnds
  <2>2. DueAtPoint(n + 1, E[n], origin, interval) = P(n + 1)
    BY DEF DueAtPoint
  <2> QED
    BY <2>1, <2>2
<1>7. /\ E[0] = 0 /\ \A n \in 0 .. N : E[n] \in Nat
      /\ T[0] = 0 /\ \A n \in 0 .. N : T[n] \in Nat
      /\ \A n \in 0 .. N - 1 : T[n + 1] = T[n] + ds[n + 1]
  BY <1>2, <1>3 DEF ArePointEnds, AreTotals
<1> HIDE DEF N, E, T, P
<1>8. 0 \in S
  <2>1. E[1] = origin + ds[1] /\ T[1] = ds[1]
    <3>1. E[0 + 1] = Over(P(0 + 1), E[0]) + ds[0 + 1] /\ T[0 + 1] = T[0] + ds[0 + 1]
      BY <1>1, <1>6, <1>7
    <3> QED
      BY <1>1, <1>5, <1>7, <3>1 DEF Over
  <2>2. \A j \in 1 .. 0 + 1 : j = 1 /\ j - 1 = 0
    OBVIOUS
  <2>3. Latest(0 + 1)
    BY <1>1, <1>5, <1>7, <2>1, <2>2
  <2> QED
    BY <1>1, <2>3
<1>9. ASSUME NEW n \in 0 .. N - 1 - 1, n \in S PROVE n + 1 \in S
  <2> DEFINE m == n + 1
  <2>1. m \in 1 .. N - 1 /\ m + 1 \in 1 .. N /\ m \in 0 .. N - 1 /\ m + 1 \in 0 .. N /\ m \in 0 .. N
    BY <1>1
  <2>2. Latest(m)
    BY <1>9
  <2> HIDE DEF m
  <2> DEFINE o == Over(P(m + 1), E[m])
  <2>3. E[m + 1] = o + ds[m + 1] /\ T[m + 1] = T[m] + ds[m + 1]
    BY <1>6, <1>7, <2>1
  <2>4. E[m] \in Nat /\ T[m] \in Nat /\ ds[m + 1] \in Nat /\ P(m + 1) \in Nat
    BY <1>1, <1>4, <1>7, <2>1
  <2>5. \A j \in 1 .. m : P(j) \in Nat /\ T[j - 1] \in Nat
    <3>1. \A j \in 1 .. m : j \in 1 .. N /\ j - 1 \in 0 .. N
      BY <1>1, <2>1
    <3> QED
      BY <1>4, <1>7, <3>1
  <2>6. /\ o \in Nat /\ o >= P(m + 1) /\ o >= E[m]
        /\ P(m + 1) > E[m] => o = P(m + 1)
        /\ ~(P(m + 1) > E[m]) => o = E[m]
    BY <2>4, OverIs
  <2> HIDE DEF o
  <2>7. (m + 1) - 1 = m /\ m + 1 \in 1 .. m + 1 /\ \A j \in 1 .. m + 1 : j \in 1 .. m \/ j = m + 1
    BY <2>1
  <2>8. \A j \in 1 .. m : j \in 1 .. m + 1
    BY <2>1
  <2>9. \A j \in 1 .. m + 1 : E[m + 1] >= P(j) + (T[m + 1] - T[j - 1])
    <3> TAKE j \in 1 .. m + 1
    <3>1. CASE j \in 1 .. m
      <4>1. E[m] >= P(j) + (T[m] - T[j - 1])
        BY <2>2, <3>1
      <4>2. P(j) \in Nat /\ T[j - 1] \in Nat
        BY <2>5, <3>1
      <4> DEFINE p == P(j)
                 u == T[j - 1]
                 e == E[m]
                 t == T[m]
                 d == ds[m + 1]
      <4>3. /\ e >= p + (t - u) /\ o >= e
            /\ e \in Nat /\ p \in Nat /\ t \in Nat /\ u \in Nat /\ d \in Nat /\ o \in Nat
        BY <2>4, <2>6, <4>1, <4>2
      <4>4. o + d >= p + ((t + d) - u)
        <5> HIDE DEF p, u, e, t, d
        <5> QED
          BY <4>3
      <4> QED
        BY <2>3, <4>4
    <3>2. CASE j = m + 1
      <4>1. T[j - 1] = T[m]
        BY <2>7, <3>2
      <4>2. o + ds[m + 1] >= P(m + 1) + ((T[m] + ds[m + 1]) - T[m])
        BY <2>4, <2>6, SMTT(30)
      <4> QED
        BY <2>3, <3>2, <4>1, <4>2
    <3> QED
      BY <2>7, <3>1, <3>2
  <2>10. \E j \in 1 .. m + 1 : E[m + 1] = P(j) + (T[m + 1] - T[j - 1])
    <3>1. CASE P(m + 1) > E[m]
      <4>1. P(m + 1) + ds[m + 1] = P(m + 1) + ((T[m] + ds[m + 1]) - T[m])
        BY <2>4
      <4>2. E[m + 1] = P(m + 1) + (T[m + 1] - T[(m + 1) - 1])
        BY <2>3, <2>7, <2>6, <3>1, <4>1
      <4> QED
        BY <2>7, <4>2
    <3>2. CASE ~(P(m + 1) > E[m])
      <4>1. PICK j \in 1 .. m : E[m] = P(j) + (T[m] - T[j - 1])
        BY <2>2
      <4>2. P(j) \in Nat /\ T[j - 1] \in Nat
        BY <2>5
      <4> DEFINE p == P(j)
                 u == T[j - 1]
                 e == E[m]
                 t == T[m]
                 d == ds[m + 1]
      <4>3. /\ e = p + (t - u)
            /\ e \in Nat /\ p \in Nat /\ t \in Nat /\ u \in Nat /\ d \in Nat
        BY <2>4, <4>1, <4>2
      <4>4. e + d = p + ((t + d) - u)
        <5> HIDE DEF p, u, e, t, d
        <5> QED
          BY <4>3
      <4>5. E[m + 1] = P(j) + (T[m + 1] - T[j - 1])
        BY <2>3, <2>6, <3>2, <4>4
      <4> QED
        BY <2>8, <4>5
    <3> QED
      BY <3>1, <3>2
  <2>11. Latest(m + 1)
    BY <2>9, <2>10
  <2> QED
    BY <1>1, <2>11 DEF m
<1> HIDE DEF S
<1>10. 0 .. N - 1 \subseteq S
  <2>1. N - 1 \in Nat
    BY <1>1
  <2> QED
    BY <1>8, <1>9, <2>1, Induction
<1>11. Latest(k)
  <2>1. k - 1 \in 0 .. N - 1 /\ (k - 1) + 1 = k
    BY <1>1 DEF N
  <2> QED
    BY <1>10, <2>1 DEF S
<1>12. A(k) \subseteq Int /\ E[k] \in A(k) /\ \A y \in A(k) : E[k] >= y
  <2>1. \A j \in 1 .. k : Delayed(ds, j, k) = T[k] - T[j - 1]
    BY DEF Delayed, T
  <2>2. \A j \in 1 .. k : P(j) \in Nat /\ T[k] \in Nat /\ T[j - 1] \in Nat
    <3>1. \A j \in 1 .. k : j \in 1 .. N /\ j - 1 \in 0 .. N /\ k \in 0 .. N
      BY <1>1 DEF N
    <3> QED
      BY <1>4, <1>7, <3>1
  <2>3. A(k) = {P(j) + (T[k] - T[j - 1]) : j \in 1 .. k}
    BY <2>1
  <2> HIDE DEF A
  <2>4. \A j \in 1 .. k : P(j) + (T[k] - T[j - 1]) \in Int
    BY <2>2
  <2>5. A(k) \subseteq Int
    BY <2>3, <2>4
  <2>6. E[k] \in A(k)
    BY <1>11, <2>3
  <2>7. \A y \in A(k) : E[k] >= y
    BY <1>11, <2>3
  <2> QED
    BY <2>5, <2>6, <2>7
<1>13. Max(A(k)) = E[k]
  <2> HIDE DEF A
  <2> QED
    BY <1>12, GreatestIs
<1>14. ByPoints(ds, origin, interval, k) = Max(A(k))
  BY DEF ByPoints, P
<1> QED
  BY <1>13, <1>14 DEF E

\* After intervals: every handler adds its own time, and no wait is cut short.
LEMMA ByIntervalsAlways ==
  ASSUME NEW ds \in Seq(Nat), NEW interval \in Nat, NEW k \in 1 .. Len(ds)
  PROVE  EndsAfter(ds, interval)[k] = ByIntervals(ds, interval, k)
<1> DEFINE N == Len(ds)
           E == EndsAfter(ds, interval)
           T == Total(ds)
           S == {n \in 0 .. N : E[n] = n * interval + T[n]}
<1>1. N \in Nat /\ (\A n \in 1 .. N : ds[n] \in Nat) /\ k \in 0 .. N
  OBVIOUS
<1>2. AreIntervalEnds(E, ds, interval)
  BY IntervalEndsAre
<1>3. AreTotals(T, ds)
  BY TotalsAre
<1>4. /\ E[0] = 0 /\ \A n \in 0 .. N : E[n] \in Nat
      /\ T[0] = 0 /\ \A n \in 0 .. N : T[n] \in Nat
      /\ \A n \in 0 .. N - 1 : T[n + 1] = T[n] + ds[n + 1]
      /\ \A n \in 0 .. N - 1 : E[n + 1] = Over(DueAfter(E[n], interval), E[n]) + ds[n + 1]
  BY <1>2, <1>3 DEF AreIntervalEnds, AreTotals
<1> HIDE DEF N, E, T
<1>5. 0 \in S
  <2>1. 0 * interval = 0 /\ 0 \in 0 .. N
    BY <1>1
  <2>2. E[0] = 0 * interval + T[0]
    BY <1>4, <2>1
  <2> QED
    BY <2>1, <2>2
<1>6. ASSUME NEW n \in 0 .. N - 1, n \in S PROVE n + 1 \in S
  <2>1. n \in 0 .. N /\ n + 1 \in 0 .. N /\ n + 1 \in 1 .. N /\ n \in Nat
    BY <1>1
  <2> DEFINE w == n * interval
  <2>2. w \in Nat /\ (n + 1) * interval = w + interval
    BY <2>1
  <2>3. E[n] = w + T[n]
    BY <1>6
  <2> HIDE DEF w
  <2>4. E[n + 1] = (w + interval) + T[n + 1]
    <3>1. E[n] \in Nat /\ T[n] \in Nat /\ ds[n + 1] \in Nat
      BY <1>1, <1>4, <2>1
    <3>2. Over(E[n] + interval, E[n]) = E[n] + interval
      BY <3>1 DEF Over
    <3>3. E[n + 1] = Over(E[n] + interval, E[n]) + ds[n + 1] /\ T[n + 1] = T[n] + ds[n + 1]
      BY <1>4 DEF DueAfter
    <3>4. (w + T[n] + interval) + ds[n + 1] = (w + interval) + (T[n] + ds[n + 1])
      <4> DEFINE t == T[n]
                 d == ds[n + 1]
      <4>1. t \in Nat /\ d \in Nat /\ w \in Nat
        BY <2>2, <3>1
      <4> HIDE DEF t, d
      <4>2. (w + t + interval) + d = (w + interval) + (t + d)
        BY <4>1
      <4> QED
        BY <4>2 DEF t, d
    <3> QED
      BY <2>3, <3>2, <3>3, <3>4
  <2> QED
    BY <2>1, <2>2, <2>4
<1> HIDE DEF S
<1>7. 0 .. N \subseteq S
  BY <1>1, <1>5, <1>6, Induction
<1>8. E[k] = k * interval + T[k]
  BY <1>1, <1>7 DEF S
<1>9. ByIntervals(ds, interval, k) = k * interval + (T[k] - T[0])
  <2>1. 1 - 1 = 0
    OBVIOUS
  <2> QED
    BY <2>1 DEF ByIntervals, Delayed, T
<1> QED
  BY <1>1, <1>4, <1>8, <1>9 DEF E

-----------------------------------------------------------------------------
(* Escapes *)

\* Character i may stand there in an escaped text.
EscapedAt(s, i) ==
  IF s[i] = "%" THEN \A d \in 1 .. 2 : i + d <= Len(s) /\ s[i + d] \in DOMAIN HexValue
  ELSE s[i] \in Plain

\* How many characters behind the first i belong to an escape that began in them.
Ahead(s, i) ==
  IF i >= 1 /\ s[i] = "%" THEN 2
  ELSE IF i >= 2 /\ s[i - 1] = "%" THEN 1
  ELSE 0

\* What Unescape has before it looks at a character, and after it.
ReadOn(s, u, i) ==
  IF u.skip > 0 THEN [u EXCEPT !.skip = @ - 1]
  ELSE [out |-> Append(u.out, Read(s, i).byte), skip |-> Read(s, i).skip]
ReadBytes(s) == {Read(s, i).byte : i \in 1 .. Len(s)}
Readings(s) == [out : Seq(ReadBytes(s)), skip : Nat]
AreReadings(U, s) ==
  /\ U \in [0 .. Len(s) -> Readings(s)]
  /\ U[0] = [out |-> <<>>, skip |-> 0]
  /\ \A i \in 0 .. Len(s) - 1 : U[i + 1] = ReadOn(s, U[i], i + 1)
AreMeanings(M, s) ==
  /\ M[0] = <<>>
  /\ \A i \in 0 .. Len(s) - 1 :
       M[i + 1] = IF Inside(s, i + 1) THEN M[i]
                  ELSE Append(M[i], IF s[i + 1] = "%" THEN Code(s, i + 1) ELSE [char |-> s[i + 1]])

\* A character that may stand there is read for what it means, any other for no byte.
LEMMA ReadIs ==
  ASSUME NEW C, NEW s \in Seq(C), NEW i \in 1 .. Len(s)
  PROVE  /\ EscapedAt(s, i) /\ s[i] = "%" => Read(s, i) = [byte |-> Code(s, i), skip |-> 2]
         /\ EscapedAt(s, i) /\ s[i] # "%" => Read(s, i) = [byte |-> [char |-> s[i]], skip |-> 0]
         /\ ~EscapedAt(s, i) => Read(s, i) = [byte |-> NoByte, skip |-> Len(s)]
<1>1. Len(s) \in Nat /\ i \in Nat
  OBVIOUS
<1>2. "%" \notin Plain
  BY DEF Plain, HexValue
<1>3. Escape(s, i) <=> s[i] = "%" /\ EscapedAt(s, i)
  <2>1. (\A d \in 1 .. 2 : i + d <= Len(s) /\ s[i + d] \in DOMAIN HexValue)
        <=> /\ i + 1 <= Len(s) /\ s[i + 1] \in DOMAIN HexValue
            /\ i + 2 <= Len(s) /\ s[i + 2] \in DOMAIN HexValue
    <3>1. 1 .. 2 = {1, 2}
      OBVIOUS
    <3> QED
      BY <3>1, Zenon
  <2>2. i + 2 <= Len(s) => i + 1 <= Len(s)
    BY <1>1
  <2>3. {s[i + 1], s[i + 2]} \subseteq DOMAIN HexValue
        <=> s[i + 1] \in DOMAIN HexValue /\ s[i + 2] \in DOMAIN HexValue
    BY Zenon
  <2> QED
    BY <2>1, <2>2, <2>3, Zenon DEF Escape, EscapedAt, Fits
<1>4. s[i] # "%" => (EscapedAt(s, i) <=> s[i] \in Plain)
  BY Zenon DEF EscapedAt
<1> QED
  BY <1>2, <1>3, <1>4, Zenon DEF Read

\* Whether a character is inside an escape is told by those before it.
LEMMA InsideIs ==
  ASSUME NEW s, NEW i \in Nat
  PROVE  Inside(s, i + 1) <=> Ahead(s, i) > 0
<1>1. /\ 1 .. 2 = {1, 2} /\ (i + 1) - 1 = i /\ (i + 1) - 2 = i - 1
      /\ (i + 1) - 1 >= 1 <=> i >= 1
      /\ (i + 1) - 2 >= 1 <=> i >= 2
  OBVIOUS
<1>2. Inside(s, i + 1) <=> (i >= 1 /\ s[i] = "%") \/ (i >= 2 /\ s[i - 1] = "%")
  <2>1. Inside(s, i + 1) <=> (\/ (i + 1) - 1 >= 1 /\ s[(i + 1) - 1] = "%"
                              \/ (i + 1) - 2 >= 1 /\ s[(i + 1) - 2] = "%")
    BY <1>1, Zenon DEF Inside
  <2> QED
    BY <1>1, <2>1
<1> QED
  BY <1>2 DEF Ahead

\* Unescape's recursive function exists.
LEMMA ReadingsAre ==
  ASSUME NEW C, NEW s \in Seq(C)
  PROVE  \E U : AreReadings(U, s) /\ Unescape(s) = U[Len(s)].out
<1> DEFINE N == Len(s)
           S == Readings(s)
           a == [out |-> <<>>, skip |-> 0]
           step == [x \in (1 .. N) \X S |-> ReadOn(s, x[2], x[1])]
           IsU(U) == U = [i \in 0 .. Len(s) |->
                            IF i = 0 THEN [out |-> <<>>, skip |-> 0]
                            ELSE IF U[i - 1].skip > 0 THEN [U[i - 1] EXCEPT !.skip = @ - 1]
                            ELSE [out |-> Append(U[i - 1].out, Read(s, i).byte),
                                  skip |-> Read(s, i).skip]]
           V == CHOOSE U : IsU(U)
<1>1. N \in Nat /\ a \in S
  BY DEF Readings
<1>2. ASSUME NEW i \in 1 .. N, NEW u \in S PROVE ReadOn(s, u, i) \in S
  <2>1. Read(s, i).byte \in ReadBytes(s) /\ Read(s, i).skip \in Nat
    <3>1. Read(s, i).skip \in {2, 0, N}
      BY Zenon DEF Read
    <3> QED
      BY <1>1, <3>1 DEF ReadBytes
  <2> DEFINE b == Read(s, i).byte
             k == Read(s, i).skip
  <2>2. CASE u.skip > 0
    <3>1. [u EXCEPT !.skip = @ - 1] \in S
      BY <2>2 DEF Readings
    <3> QED
      BY <2>2, <3>1 DEF ReadOn
  <2>3. CASE ~(u.skip > 0)
    <3>1. ReadOn(s, u, i) = [out |-> Append(u.out, b), skip |-> k]
      BY <2>3 DEF ReadOn
    <3>2. b \in ReadBytes(s) /\ k \in Nat /\ u.out \in Seq(ReadBytes(s))
      BY <2>1 DEF Readings
    <3> HIDE DEF b, k
    <3>3. Append(u.out, b) \in Seq(ReadBytes(s))
      BY <3>2
    <3> QED
      BY <3>1, <3>2, <3>3 DEF Readings
  <2> QED
    BY <2>2, <2>3
<1>3. PICK f \in [0 .. N -> S] : IsRecursive(f, N, a, step)
  <2>1. step \in [(1 .. N) \X S -> S]
    BY <1>2
  <2> HIDE DEF step, S, a
  <2> QED
    BY <1>1, <2>1, Recursion
<1>4. \A i \in 0 .. N : f[i] = IF i = 0 THEN a ELSE ReadOn(s, f[i - 1], i)
  <2>1. \A i \in 1 .. N, u \in S : step[<<i, u>>] = ReadOn(s, u, i)
    OBVIOUS
  <2>2. \A i \in 0 .. N : f[i] = IF i = 0 THEN a ELSE step[<<i, f[i - 1]>>]
    BY <1>3 DEF IsRecursive
  <2>3. \A i \in 0 .. N : i # 0 => i \in 1 .. N /\ f[i - 1] \in S
    <3>1. \A i \in 0 .. N : i # 0 => i \in 1 .. N /\ i - 1 \in 0 .. N
      BY <1>1
    <3> QED
      BY <3>1
  <2> HIDE DEF step, S, a
  <2> QED
    BY <2>1, <2>2, <2>3
<1>5. IsU(f)
  <2>1. f = [i \in 0 .. N |-> f[i]]
    OBVIOUS
  <2>2. f = [i \in 0 .. N |-> IF i = 0 THEN a ELSE ReadOn(s, f[i - 1], i)]
    BY <1>4, <2>1
  <2> QED
    BY <2>2, Zenon DEF ReadOn
<1>6. IsU(V)
  BY <1>5, Zenon
<1>7. Unescape(s) = V[N].out
  BY Zenon DEF Unescape
<1> HIDE DEF V
<1>8. \A i \in 0 .. N : V[i] = IF i = 0 THEN a ELSE ReadOn(s, V[i - 1], i)
  BY <1>6 DEF ReadOn
<1>9. DOMAIN V = 0 .. N /\ V = [i \in 0 .. N |-> V[i]]
  BY <1>6
<1> HIDE DEF a
<1>10. V[0] = a /\ \A i \in 0 .. N - 1 : V[i + 1] = ReadOn(s, V[i], i + 1)
  BY <1>1, <1>8
<1> DEFINE T == {i \in 0 .. N : V[i] \in S}
<1>11. 0 \in T
  BY <1>1, <1>10
<1>12. ASSUME NEW i \in 0 .. N - 1, i \in T PROVE i + 1 \in T
  BY <1>1, <1>2, <1>10, <1>12
<1>13. 0 .. N \subseteq T
  <2> HIDE DEF T
  <2> QED
    BY <1>1, <1>11, <1>12, Induction
<1>14. V \in [0 .. N -> S]
  BY <1>9, <1>13
<1> QED
  BY <1>7, <1>10, <1>14 DEF AreReadings, a

\* So does that of Meaning.
LEMMA MeaningsAre ==
  ASSUME NEW C, NEW s \in Seq(C)
  PROVE  \E M : AreMeanings(M, s) /\ Meaning(s) = M[Len(s)]
<1> DEFINE N == Len(s)
           Meant(i) == IF s[i] = "%" THEN Code(s, i) ELSE [char |-> s[i]]
           S == Seq({Meant(i) : i \in 1 .. N})
           On(m, i) == IF Inside(s, i) THEN m ELSE Append(m, Meant(i))
           step == [x \in (1 .. N) \X S |-> On(x[2], x[1])]
           IsM(M) == M = [i \in 0 .. Len(s) |->
                            IF i = 0 THEN <<>>
                            ELSE IF Inside(s, i) THEN M[i - 1]
                            ELSE Append(M[i - 1], IF s[i] = "%" THEN Code(s, i) ELSE [char |-> s[i]])]
           V == CHOOSE M : IsM(M)
<1>1. N \in Nat /\ <<>> \in S
  OBVIOUS
<1>2. PICK f \in [0 .. N -> S] : IsRecursive(f, N, <<>>, step)
  <2>1. \A i \in 1 .. N, m \in S : On(m, i) \in S
    <3> TAKE i \in 1 .. N, m \in S
    <3>1. Meant(i) \in {Meant(j) : j \in 1 .. N}
      OBVIOUS
    <3> DEFINE B == {Meant(j) : j \in 1 .. N}
    <3>2. m \in Seq(B) /\ Meant(i) \in B
      BY <3>1
    <3> HIDE DEF B, Meant
    <3>3. Append(m, Meant(i)) \in Seq(B)
      BY <3>2
    <3> QED
      BY <3>2, <3>3 DEF B
  <2> HIDE DEF On, S
  <2>2. step \in [(1 .. N) \X S -> S]
    BY <2>1
  <2> HIDE DEF step
  <2> QED
    BY <1>1, <2>2, Recursion
<1>3. \A i \in 0 .. N : f[i] = IF i = 0 THEN <<>> ELSE On(f[i - 1], i)
  <2> HIDE DEF On, S
  <2>1. \A i \in 1 .. N, m \in S : step[<<i, m>>] = On(m, i)
    OBVIOUS
  <2>2. \A i \in 0 .. N : f[i] = IF i = 0 THEN <<>> ELSE step[<<i, f[i - 1]>>]
    BY <1>2 DEF IsRecursive
  <2>3. \A i \in 0 .. N : i # 0 => i \in 1 .. N /\ f[i - 1] \in S
    <3>1. \A i \in 0 .. N : i # 0 => i \in 1 .. N /\ i - 1 \in 0 .. N
      BY <1>1
    <3> QED
      BY <3>1
  <2> HIDE DEF step
  <2> QED
    BY <2>1, <2>2, <2>3
<1>4. IsM(f)
  <2>1. f = [i \in 0 .. N |-> f[i]]
    OBVIOUS
  <2>2. f = [i \in 0 .. N |-> IF i = 0 THEN <<>> ELSE On(f[i - 1], i)]
    <3> HIDE DEF On
    <3> QED
      BY <1>3, <2>1
  <2> QED
    BY <2>2, Zenon
<1>5. IsM(V)
  BY <1>4, Zenon
<1>6. Meaning(s) = V[N]
  BY Zenon DEF Meaning
<1> HIDE DEF V
<1>7. \A i \in 0 .. N : V[i] = IF i = 0 THEN <<>> ELSE On(V[i - 1], i)
  BY <1>5
<1> HIDE DEF On
<1>8. V[0] = <<>> /\ \A i \in 0 .. N - 1 : V[i + 1] = On(V[i], i + 1)
  BY <1>1, <1>7
<1> QED
  BY <1>6, <1>8, Zenon DEF AreMeanings, On

\* As long as all characters may stand there, what is read is what they mean, and what
\* is left to skip is what is left of an escape.
LEMMA ReadSoFar ==
  ASSUME NEW C, NEW s \in Seq(C), NEW U, NEW M, AreReadings(U, s), AreMeanings(M, s),
         NEW j \in 0 .. Len(s), \A i \in 1 .. j : EscapedAt(s, i)
  PROVE  \A i \in 0 .. j : U[i].out = M[i] /\ U[i].skip = Ahead(s, i)
<1> DEFINE N == Len(s)
           T == {i \in 0 .. j : U[i].out = M[i] /\ U[i].skip = Ahead(s, i)}
<1>1. N \in Nat /\ j \in Nat /\ j <= N
  OBVIOUS
<1>2. 0 \in T
  <2>1. U[0] = [out |-> <<>>, skip |-> 0] /\ M[0] = <<>>
    BY DEF AreReadings, AreMeanings
  <2>2. Ahead(s, 0) = 0
    BY DEF Ahead
  <2> QED
    BY <2>1, <2>2
<1>3. ASSUME NEW i \in 0 .. j - 1, i \in T PROVE i + 1 \in T
  <2>1. i \in 0 .. N - 1 /\ i + 1 \in 1 .. j /\ i + 1 \in 1 .. N /\ i + 1 \in 0 .. j /\ i \in Nat
    BY <1>1
  <2>2. U[i].out = M[i] /\ U[i].skip = Ahead(s, i)
    BY <1>3
  <2>3. /\ U[i + 1] = ReadOn(s, U[i], i + 1)
        /\ M[i + 1] = IF Inside(s, i + 1) THEN M[i]
                      ELSE Append(M[i], IF s[i + 1] = "%" THEN Code(s, i + 1) ELSE [char |-> s[i + 1]])
    BY <2>1 DEF AreReadings, AreMeanings
  <2>4. Inside(s, i + 1) <=> Ahead(s, i) > 0
    BY <2>1, InsideIs
  <2>5. U[i] \in Readings(s)
    BY <2>1 DEF AreReadings
  <2>6. CASE Ahead(s, i) > 0
    <3>1. s[i + 1] # "%"
      <4>1. \A k \in 1 .. j : s[k] = "%" => \A d \in 1 .. 2 : s[k + d] \in DOMAIN HexValue
        BY Zenon DEF EscapedAt
      <4>2. "%" \notin DOMAIN HexValue
        BY DEF HexValue
      <4>3. CASE i >= 1 /\ s[i] = "%"
        <5>1. i \in 1 .. j /\ 1 \in 1 .. 2
          BY <1>1, <2>1, <4>3
        <5> QED
          BY <4>1, <4>2, <4>3, <5>1, Zenon
      <4>4. CASE i >= 2 /\ s[i - 1] = "%"
        <5>1. i - 1 \in 1 .. j /\ 2 \in 1 .. 2 /\ (i - 1) + 2 = i + 1
          BY <1>1, <2>1, <4>4
        <5>2. s[(i - 1) + 2] \in DOMAIN HexValue
          BY <4>1, <4>4, <5>1, Zenon
        <5> QED
          BY <4>2, <5>1, <5>2, Zenon
      <4> QED
        BY <2>6, <4>3, <4>4 DEF Ahead
    <3>2. Ahead(s, i + 1) = Ahead(s, i) - 1
      BY <2>1, <2>6, <3>1 DEF Ahead
    <3>3. U[i + 1] = [U[i] EXCEPT !.skip = @ - 1]
      BY <2>2, <2>3, <2>6 DEF ReadOn
    <3>4. U[i + 1].out = U[i].out /\ U[i + 1].skip = U[i].skip - 1
      BY <2>5, <3>3 DEF Readings
    <3>5. M[i + 1] = M[i]
      BY <2>3, <2>4, <2>6
    <3> QED
      BY <2>1, <2>2, <3>2, <3>4, <3>5
  <2>7. CASE ~(Ahead(s, i) > 0)
    <3>1. EscapedAt(s, i + 1)
      BY <2>1
    <3>2. U[i + 1] = [out |-> Append(U[i].out, Read(s, i + 1).byte), skip |-> Read(s, i + 1).skip]
      BY <2>2, <2>3, <2>7 DEF ReadOn
    <3>3. M[i + 1] = Append(M[i], IF s[i + 1] = "%" THEN Code(s, i + 1) ELSE [char |-> s[i + 1]])
      BY <2>3, <2>4, <2>7
    <3>4. CASE s[i + 1] = "%"
      <4>1. Read(s, i + 1) = [byte |-> Code(s, i + 1), skip |-> 2]
        BY <2>1, <3>1, <3>4, ReadIs
      <4>2. Ahead(s, i + 1) = 2
        BY <2>1, <3>4 DEF Ahead
      <4>3. U[i + 1].out = M[i + 1] /\ U[i + 1].skip = 2
        BY <2>2, <3>2, <3>3, <3>4, <4>1
      <4> QED
        BY <2>1, <4>2, <4>3
    <3>5. CASE s[i + 1] # "%"
      <4>1. Read(s, i + 1) = [byte |-> [char |-> s[i + 1]], skip |-> 0]
        BY <2>1, <3>1, <3>5, ReadIs
      <4>2. Ahead(s, i + 1) = 0
        BY <2>1, <2>7, <3>5 DEF Ahead
      <4>3. U[i + 1].out = M[i + 1] /\ U[i + 1].skip = 0
        BY <2>2, <3>2, <3>3, <3>5, <4>1
      <4> QED
        BY <2>1, <4>2, <4>3
    <3> QED
      BY <3>4, <3>5
  <2> QED
    BY <2>6, <2>7
<1> HIDE DEF T
<1>4. 0 .. j \subseteq T
  BY <1>1, <1>2, <1>3, Induction
<1> QED
  BY <1>4 DEF T

\* Unescape reads a text that is escaped for what it means, and refuses every other.
LEMMA UnescapeAlways ==
  ASSUME NEW C, NEW s \in Seq(C)
  PROVE  IF Escaped(s) THEN Unescape(s) = Meaning(s) ELSE NoByte \in ToSet(Unescape(s))
<1> DEFINE N == Len(s)
<1>1. N \in Nat /\ N \in 0 .. N
  OBVIOUS
<1>2. PICK U : AreReadings(U, s) /\ Unescape(s) = U[N].out
  BY ReadingsAre
<1>3. PICK M : AreMeanings(M, s) /\ Meaning(s) = M[N]
  BY MeaningsAre
<1>4. Escaped(s) <=> \A i \in 1 .. N : EscapedAt(s, i)
  BY Zenon DEF Escaped, EscapedAt
<1>5. CASE Escaped(s)
  <2>1. U[N].out = M[N]
    BY <1>1, <1>2, <1>3, <1>4, <1>5, ReadSoFar
  <2> QED
    BY <1>2, <1>3, <1>5, <2>1
<1>6. CASE ~Escaped(s)
  <2> DEFINE bad == {i \in 1 .. N : ~EscapedAt(s, i)}
  <2>1. bad # {} /\ bad \subseteq Nat
    BY <1>4, <1>6
  <2>2. PICK j \in bad : \A i \in bad : j <= i
    <3> HIDE DEF bad
    <3> QED
      BY <2>1, Least
  <2>3. /\ j \in 1 .. N /\ j - 1 \in 0 .. N /\ j - 1 \in 0 .. N - 1 /\ (j - 1) + 1 = j
        /\ ~EscapedAt(s, j)
    BY <1>1
  <2>4. \A i \in 1 .. j - 1 : EscapedAt(s, i)
    <3> TAKE i \in 1 .. j - 1
    <3>1. i \in 1 .. N /\ ~(j <= i)
      BY <1>1, <2>3
    <3> QED
      BY <2>2, <3>1
  <2> HIDE DEF bad
  <2>5. U[j - 1].skip = Ahead(s, j - 1)
    <3>1. j - 1 \in 0 .. j - 1
      BY <2>3
    <3> QED
      BY <1>2, <1>3, <2>3, <2>4, <3>1, ReadSoFar
  <2>6. ~(Ahead(s, j - 1) > 0)
    <3> SUFFICES ASSUME Ahead(s, j - 1) > 0 PROVE FALSE
      OBVIOUS
    <3>1. \A k \in 1 .. j - 1 : s[k] = "%" => \A d \in 1 .. 2 : s[k + d] \in DOMAIN HexValue
      BY <2>4, Zenon DEF EscapedAt
    <3>2. s[j] \in DOMAIN HexValue
      <4>1. CASE j - 1 >= 1 /\ s[j - 1] = "%"
        <5>1. j - 1 \in 1 .. j - 1 /\ 1 \in 1 .. 2
          BY <2>3, <4>1
        <5>2. s[(j - 1) + 1] \in DOMAIN HexValue
          BY <3>1, <4>1, <5>1, Zenon
        <5> QED
          BY <2>3, <5>2, Zenon
      <4>2. CASE j - 1 >= 2 /\ s[(j - 1) - 1] = "%"
        <5>1. (j - 1) - 1 \in 1 .. j - 1 /\ 2 \in 1 .. 2 /\ ((j - 1) - 1) + 2 = j
          BY <2>3, <4>2
        <5>2. s[((j - 1) - 1) + 2] \in DOMAIN HexValue
          BY <3>1, <4>2, <5>1, Zenon
        <5> QED
          BY <5>1, <5>2, Zenon
      <4> QED
        BY <4>1, <4>2 DEF Ahead
    <3>3. s[j] # "%" /\ s[j] \in Plain
      BY <3>2 DEF HexValue, Plain
    <3> QED
      BY <2>3, <3>3, Zenon DEF EscapedAt
  <2>7. U[j] = [out |-> Append(U[j - 1].out, NoByte), skip |-> N]
    <3>1. U[j] = ReadOn(s, U[j - 1], j)
      <4>1. U[(j - 1) + 1] = ReadOn(s, U[j - 1], (j - 1) + 1)
        BY <1>2, <2>3 DEF AreReadings
      <4> QED
        BY <2>3, <4>1, Zenon
    <3>2. Read(s, j) = [byte |-> NoByte, skip |-> N]
      BY <2>3, ReadIs
    <3>3. ~(U[j - 1].skip > 0)
      BY <2>5, <2>6
    <3>4. U[j] = [out |-> Append(U[j - 1].out, Read(s, j).byte), skip |-> Read(s, j).skip]
      BY <3>1, <3>3, Zenon DEF ReadOn
    <3> QED
      BY <3>2, <3>4
  <2> DEFINE T == {i \in 0 .. N : i >= j => NoByte \in ToSet(U[i].out)}
  <2>8. 0 \in T
    BY <1>1, <2>3
  <2>9. ASSUME NEW i \in 0 .. N - 1, i \in T PROVE i + 1 \in T
    <3>1. i \in 0 .. N /\ i + 1 \in 0 .. N /\ i + 1 \in 1 .. N
      BY <1>1
    <3>2. U[i] \in Readings(s) /\ U[i + 1] = ReadOn(s, U[i], i + 1)
      BY <1>2, <3>1 DEF AreReadings
    <3>3. CASE i + 1 = j
      <4>1. U[j - 1] \in Readings(s) /\ U[j].out = Append(U[j - 1].out, NoByte)
        <5>1. U[j - 1] \in Readings(s)
          BY <1>2, <2>3 DEF AreReadings
        <5> QED
          BY <2>7, <5>1
      <4> DEFINE q == U[j - 1].out
      <4>2. q \in Seq(ReadBytes(s))
        BY <4>1 DEF Readings
      <4> HIDE DEF q
      <4>3. Append(q, NoByte)[Len(q) + 1] = NoByte /\ Len(q) + 1 \in DOMAIN Append(q, NoByte)
        BY <4>2
      <4>4. NoByte \in ToSet(Append(q, NoByte))
        BY <4>3, Zenon DEF ToSet
      <4> QED
        BY <3>1, <3>3, <4>1, <4>4 DEF q
    <3>4. CASE i + 1 > j
      <4>1. NoByte \in ToSet(U[i].out)
        BY <2>3, <2>9, <3>1, <3>4
      <4> DEFINE q == U[i].out
                 b == Read(s, i + 1).byte
      <4>2. q \in Seq(ReadBytes(s))
        BY <3>2 DEF Readings
      <4>3. U[i + 1].out \in {q, Append(q, b)}
        BY <3>2 DEF ReadOn, Readings
      <4>4. ToSet(q) \subseteq ToSet(Append(q, b))
        <5> HIDE DEF q, b
        <5>1. \A k \in DOMAIN q : k \in DOMAIN Append(q, b) /\ Append(q, b)[k] = q[k]
          BY <4>2
        <5> QED
          BY <5>1 DEF ToSet
      <4> HIDE DEF q, b
      <4>5. NoByte \in ToSet(U[i + 1].out)
        BY <4>1, <4>3, <4>4 DEF q
      <4> QED
        BY <3>1, <4>5
    <3>5. CASE i + 1 < j
      BY <3>1, <3>5, <2>3
    <3> QED
      BY <2>3, <3>1, <3>3, <3>4, <3>5
  <2> HIDE DEF T
  <2>10. 0 .. N \subseteq T
    BY <1>1, <2>8, <2>9, Induction
  <2>11. NoByte \in ToSet(U[N].out)
    BY <1>1, <2>3, <2>10 DEF T
  <2> QED
    BY <1>2, <1>6, <2>11
<1> QED
  BY <1>5, <1>6

-----------------------------------------------------------------------------
(* Base64 *)

\* Byte i, filled with zeros behind the data, and bit t of a byte, from the left.
ByteAt(d, i) == IF i <= Len(d) THEN d[i] ELSE 0
BitOf(x, t) == (x \div 2^(7 - t)) % 2
QuadrupleAt(d, k) == Quadruple(ByteAt(d, 3 * k + 1), ByteAt(d, 3 * k + 2), ByteAt(d, 3 * k + 3))

\* The eight bits of a byte.
LEMMA BitOfs ==
  ASSUME NEW x \in Byte
  PROVE  /\ BitOf(x, 0) = (x \div 128) % 2 /\ BitOf(x, 1) = (x \div 64) % 2
         /\ BitOf(x, 2) = (x \div 32) % 2 /\ BitOf(x, 3) = (x \div 16) % 2
         /\ BitOf(x, 4) = (x \div 8) % 2 /\ BitOf(x, 5) = (x \div 4) % 2
         /\ BitOf(x, 6) = (x \div 2) % 2 /\ BitOf(x, 7) = x % 2
<1>1. /\ 7 - 0 = 7 /\ 7 - 1 = 6 /\ 7 - 2 = 5 /\ 7 - 3 = 4
      /\ 7 - 4 = 3 /\ 7 - 5 = 2 /\ 7 - 6 = 1 /\ 7 - 7 = 0
  OBVIOUS
<1>2. 2^7 = 128 /\ 2^6 = 64 /\ 2^5 = 32 /\ 2^4 = 16 /\ 2^3 = 8 /\ 2^2 = 4 /\ 2^1 = 2 /\ 2^0 = 1
  OBVIOUS
<1>3. x \div 1 = x
  BY DEF Byte
<1> QED
  BY <1>1, <1>2, <1>3, Zenon DEF BitOf

\* What the bits of a byte add up to.
LEMMA BitsOfByte ==
  ASSUME NEW x \in Byte
  PROVE  /\ x \div 4 = BitOf(x, 0) * 32 + BitOf(x, 1) * 16 + BitOf(x, 2) * 8 + BitOf(x, 3) * 4
                       + BitOf(x, 4) * 2 + BitOf(x, 5)
         /\ (x % 4) * 16 = BitOf(x, 6) * 32 + BitOf(x, 7) * 16
         /\ x \div 16 = BitOf(x, 0) * 8 + BitOf(x, 1) * 4 + BitOf(x, 2) * 2 + BitOf(x, 3)
         /\ (x % 16) * 4 = BitOf(x, 4) * 32 + BitOf(x, 5) * 16 + BitOf(x, 6) * 8 + BitOf(x, 7) * 4
         /\ x \div 64 = BitOf(x, 0) * 2 + BitOf(x, 1)
         /\ x % 64 = BitOf(x, 2) * 32 + BitOf(x, 3) * 16 + BitOf(x, 4) * 8 + BitOf(x, 5) * 4
                     + BitOf(x, 6) * 2 + BitOf(x, 7)
         /\ \A t \in 0 .. 7 : BitOf(x, t) \in 0 .. 1
<1> DEFINE b0 == BitOf(x, 0)
           b1 == BitOf(x, 1)
           b2 == BitOf(x, 2)
           b3 == BitOf(x, 3)
           b4 == BitOf(x, 4)
           b5 == BitOf(x, 5)
           b6 == BitOf(x, 6)
           b7 == BitOf(x, 7)
<1>1. /\ b0 \in 0 .. 1 /\ b1 \in 0 .. 1 /\ b2 \in 0 .. 1 /\ b3 \in 0 .. 1
      /\ b4 \in 0 .. 1 /\ b5 \in 0 .. 1 /\ b6 \in 0 .. 1 /\ b7 \in 0 .. 1
  BY BitOfs DEF Byte
<1>2. \A t \in 0 .. 7 : BitOf(x, t) \in 0 .. 1
  <2>1. \A t \in 0 .. 7 : t = 0 \/ t = 1 \/ t = 2 \/ t = 3 \/ t = 4 \/ t = 5 \/ t = 6 \/ t = 7
    OBVIOUS
  <2> QED
    BY <1>1, <2>1, Zenon
<1>3. x = b0 * 128 + b1 * 64 + b2 * 32 + b3 * 16 + b4 * 8 + b5 * 4 + b6 * 2 + b7
  BY BitOfs DEF Byte
<1> HIDE DEF b0, b1, b2, b3, b4, b5, b6, b7
<1>4. x \div 4 = b0 * 32 + b1 * 16 + b2 * 8 + b3 * 4 + b4 * 2 + b5 /\ x % 4 = b6 * 2 + b7
  BY <1>1, <1>3
<1>5. x \div 16 = b0 * 8 + b1 * 4 + b2 * 2 + b3 /\ x % 16 = b4 * 8 + b5 * 4 + b6 * 2 + b7
  BY <1>1, <1>3
<1>6. /\ x \div 64 = b0 * 2 + b1
      /\ x % 64 = b2 * 32 + b3 * 16 + b4 * 8 + b5 * 4 + b6 * 2 + b7
  BY <1>1, <1>3
<1>7. (x % 4) * 16 = b6 * 32 + b7 * 16
  BY <1>1, <1>4
<1>8. (x % 16) * 4 = b4 * 32 + b5 * 16 + b6 * 8 + b7 * 4
  BY <1>1, <1>5
<1> QED
  BY <1>2, <1>4, <1>5, <1>6, <1>7, <1>8 DEF b0, b1, b2, b3, b4, b5, b6, b7

\* The bits of the data, byte by byte.
LEMMA BitIs ==
  ASSUME NEW d \in Seq(Byte), NEW i \in Nat, NEW t \in 0 .. 7
  PROVE  Bit(d, 8 * i + t) = BitOf(ByteAt(d, i + 1), t)
<1>1. Len(d) \in Nat
  OBVIOUS
<1>2. (8 * i + t) \div 8 = i /\ (8 * i + t) % 8 = t
  OBVIOUS
<1>3. 8 * i + t < 8 * Len(d) <=> i + 1 <= Len(d)
  BY <1>1
<1>4. CASE i + 1 <= Len(d)
  <2>1. Bit(d, 8 * i + t) = (d[i + 1] \div 2^(7 - t)) % 2
    BY <1>2, <1>3, <1>4, Zenon DEF Bit
  <2> QED
    BY <1>4, <2>1, Zenon DEF BitOf, ByteAt
<1>5. CASE ~(i + 1 <= Len(d))
  <2>1. Bit(d, 8 * i + t) = 0
    BY <1>3, <1>5, Zenon DEF Bit
  <2>2. BitOf(0, t) = 0
    <3>1. 0 \in Byte
      BY DEF Byte
    <3>2. \A u \in 0 .. 7 : u = 0 \/ u = 1 \/ u = 2 \/ u = 3 \/ u = 4 \/ u = 5 \/ u = 6 \/ u = 7
      OBVIOUS
    <3>3. /\ BitOf(0, 0) = 0 /\ BitOf(0, 1) = 0 /\ BitOf(0, 2) = 0 /\ BitOf(0, 3) = 0
          /\ BitOf(0, 4) = 0 /\ BitOf(0, 5) = 0 /\ BitOf(0, 6) = 0 /\ BitOf(0, 7) = 0
      BY <3>1, BitOfs
    <3> QED
      BY <3>2, <3>3
  <2> QED
    BY <1>5, <2>1, <2>2, Zenon DEF ByteAt
<1> QED
  BY <1>4, <1>5

\* Behind the data the bytes are zero.
LEMMA ByteAtIs == ASSUME NEW d \in Seq(Byte), NEW i \in Nat \ {0} PROVE ByteAt(d, i) \in Byte
<1>1. Len(d) \in Nat /\ (i <= Len(d) => i \in 1 .. Len(d))
  OBVIOUS
<1>2. 0 \in Byte
  BY DEF Byte
<1> QED
  BY <1>1, <1>2 DEF ByteAt

\* Four characters of the standard are those of three bytes.
LEMMA SextetsAre ==
  ASSUME NEW d \in Seq(Byte), NEW k \in Nat
  PROVE  \A r \in 0 .. 3 : Sextet(d, 4 * k + r) = QuadrupleAt(d, k)[r + 1]
<1> DEFINE x == ByteAt(d, 3 * k + 1)
           y == ByteAt(d, 3 * k + 2)
           z == ByteAt(d, 3 * k + 3)
           q == QuadrupleAt(d, k)
<1>1. x \in Byte /\ y \in Byte /\ z \in Byte
  BY ByteAtIs
<1>2. /\ q[1] = x \div 4 /\ q[2] = (x % 4) * 16 + y \div 16
      /\ q[3] = (y % 16) * 4 + z \div 64 /\ q[4] = z % 64
  BY DEF QuadrupleAt, Quadruple
<1>3. /\ \A t \in 0 .. 7 : Bit(d, 8 * (3 * k) + t) = BitOf(x, t)
      /\ \A t \in 0 .. 7 : Bit(d, 8 * (3 * k + 1) + t) = BitOf(y, t)
      /\ \A t \in 0 .. 7 : Bit(d, 8 * (3 * k + 2) + t) = BitOf(z, t)
  <2>1. 3 * k \in Nat /\ 3 * k + 1 \in Nat /\ 3 * k + 2 \in Nat
    OBVIOUS
  <2>2. (3 * k + 1) + 1 = 3 * k + 2 /\ (3 * k + 2) + 1 = 3 * k + 3
    OBVIOUS
  <2>3. \A i \in Nat, t \in 0 .. 7 : Bit(d, 8 * i + t) = BitOf(ByteAt(d, i + 1), t)
    BY BitIs, Zenon
  <2>4. \A t \in 0 .. 7 : Bit(d, 8 * (3 * k) + t) = BitOf(x, t)
    BY <2>1, <2>3, Zenon
  <2>5. \A t \in 0 .. 7 : Bit(d, 8 * (3 * k + 1) + t) = BitOf(y, t)
    BY <2>1, <2>2, <2>3, Zenon
  <2>6. \A t \in 0 .. 7 : Bit(d, 8 * (3 * k + 2) + t) = BitOf(z, t)
    BY <2>1, <2>2, <2>3, Zenon
  <2> QED
    BY <2>4, <2>5, <2>6, Zenon
<1> HIDE DEF x, y, z, q
<1>4. Sextet(d, 4 * k + 0) = q[1]
  <2> DEFINE m == 6 * (4 * k + 0)
  <2>1. /\ m = 8 * (3 * k) + 0 /\ m + 1 = 8 * (3 * k) + 1 /\ m + 2 = 8 * (3 * k) + 2
        /\ m + 3 = 8 * (3 * k) + 3 /\ m + 4 = 8 * (3 * k) + 4 /\ m + 5 = 8 * (3 * k) + 5
    OBVIOUS
  <2> HIDE DEF m
  <2>2. /\ Bit(d, m) = BitOf(x, 0) /\ Bit(d, m + 1) = BitOf(x, 1) /\ Bit(d, m + 2) = BitOf(x, 2)
        /\ Bit(d, m + 3) = BitOf(x, 3) /\ Bit(d, m + 4) = BitOf(x, 4) /\ Bit(d, m + 5) = BitOf(x, 5)
    BY <1>3, <2>1
  <2>3. Sextet(d, 4 * k + 0) = BitOf(x, 0) * 32 + BitOf(x, 1) * 16 + BitOf(x, 2) * 8
                               + BitOf(x, 3) * 4 + BitOf(x, 4) * 2 + BitOf(x, 5)
    BY <2>2, Zenon DEF Sextet, m
  <2> QED
    BY <1>1, <1>2, <2>3, BitsOfByte
<1>5. Sextet(d, 4 * k + 1) = q[2]
  <2> DEFINE m == 6 * (4 * k + 1)
  <2>1. /\ m = 8 * (3 * k) + 6 /\ m + 1 = 8 * (3 * k) + 7 /\ m + 2 = 8 * (3 * k + 1) + 0
        /\ m + 3 = 8 * (3 * k + 1) + 1 /\ m + 4 = 8 * (3 * k + 1) + 2 /\ m + 5 = 8 * (3 * k + 1) + 3
    OBVIOUS
  <2> HIDE DEF m
  <2>2. /\ Bit(d, m) = BitOf(x, 6) /\ Bit(d, m + 1) = BitOf(x, 7) /\ Bit(d, m + 2) = BitOf(y, 0)
        /\ Bit(d, m + 3) = BitOf(y, 1) /\ Bit(d, m + 4) = BitOf(y, 2) /\ Bit(d, m + 5) = BitOf(y, 3)
    BY <1>3, <2>1
  <2>3. Sextet(d, 4 * k + 1) = BitOf(x, 6) * 32 + BitOf(x, 7) * 16 + BitOf(y, 0) * 8
                               + BitOf(y, 1) * 4 + BitOf(y, 2) * 2 + BitOf(y, 3)
    BY <2>2, Zenon DEF Sextet, m
  <2>4. /\ BitOf(x, 6) \in 0 .. 1 /\ BitOf(x, 7) \in 0 .. 1 /\ BitOf(y, 0) \in 0 .. 1
        /\ BitOf(y, 1) \in 0 .. 1 /\ BitOf(y, 2) \in 0 .. 1 /\ BitOf(y, 3) \in 0 .. 1
        /\ (x % 4) * 16 = BitOf(x, 6) * 32 + BitOf(x, 7) * 16
        /\ y \div 16 = BitOf(y, 0) * 8 + BitOf(y, 1) * 4 + BitOf(y, 2) * 2 + BitOf(y, 3)
    BY <1>1, BitsOfByte
  <2>5. q[2] = (BitOf(x, 6) * 32 + BitOf(x, 7) * 16)
               + (BitOf(y, 0) * 8 + BitOf(y, 1) * 4 + BitOf(y, 2) * 2 + BitOf(y, 3))
    BY <1>2, <2>4, Zenon
  <2> QED
    BY <2>3, <2>4, <2>5, SMTT(30)
<1>6. Sextet(d, 4 * k + 2) = q[3]
  <2> DEFINE m == 6 * (4 * k + 2)
  <2>1. /\ m = 8 * (3 * k + 1) + 4 /\ m + 1 = 8 * (3 * k + 1) + 5 /\ m + 2 = 8 * (3 * k + 1) + 6
        /\ m + 3 = 8 * (3 * k + 1) + 7 /\ m + 4 = 8 * (3 * k + 2) + 0 /\ m + 5 = 8 * (3 * k + 2) + 1
    OBVIOUS
  <2> HIDE DEF m
  <2>2. /\ Bit(d, m) = BitOf(y, 4) /\ Bit(d, m + 1) = BitOf(y, 5) /\ Bit(d, m + 2) = BitOf(y, 6)
        /\ Bit(d, m + 3) = BitOf(y, 7) /\ Bit(d, m + 4) = BitOf(z, 0) /\ Bit(d, m + 5) = BitOf(z, 1)
    BY <1>3, <2>1
  <2>3. Sextet(d, 4 * k + 2) = BitOf(y, 4) * 32 + BitOf(y, 5) * 16 + BitOf(y, 6) * 8
                               + BitOf(y, 7) * 4 + BitOf(z, 0) * 2 + BitOf(z, 1)
    BY <2>2, Zenon DEF Sextet, m
  <2>4. /\ BitOf(y, 4) \in 0 .. 1 /\ BitOf(y, 5) \in 0 .. 1 /\ BitOf(y, 6) \in 0 .. 1
        /\ BitOf(y, 7) \in 0 .. 1 /\ BitOf(z, 0) \in 0 .. 1 /\ BitOf(z, 1) \in 0 .. 1
        /\ (y % 16) * 4 = BitOf(y, 4) * 32 + BitOf(y, 5) * 16 + BitOf(y, 6) * 8 + BitOf(y, 7) * 4
        /\ z \div 64 = BitOf(z, 0) * 2 + BitOf(z, 1)
    BY <1>1, BitsOfByte
  <2> QED
    BY <1>2, <2>3, <2>4
<1>7. Sextet(d, 4 * k + 3) = q[4]
  <2> DEFINE m == 6 * (4 * k + 3)
  <2>1. /\ m = 8 * (3 * k + 2) + 2 /\ m + 1 = 8 * (3 * k + 2) + 3 /\ m + 2 = 8 * (3 * k + 2) + 4
        /\ m + 3 = 8 * (3 * k + 2) + 5 /\ m + 4 = 8 * (3 * k + 2) + 6 /\ m + 5 = 8 * (3 * k + 2) + 7
    OBVIOUS
  <2> HIDE DEF m
  <2>2. /\ Bit(d, m) = BitOf(z, 2) /\ Bit(d, m + 1) = BitOf(z, 3) /\ Bit(d, m + 2) = BitOf(z, 4)
        /\ Bit(d, m + 3) = BitOf(z, 5) /\ Bit(d, m + 4) = BitOf(z, 6) /\ Bit(d, m + 5) = BitOf(z, 7)
    BY <1>3, <2>1
  <2>3. Sextet(d, 4 * k + 3) = BitOf(z, 2) * 32 + BitOf(z, 3) * 16 + BitOf(z, 4) * 8
                               + BitOf(z, 5) * 4 + BitOf(z, 6) * 2 + BitOf(z, 7)
    BY <2>2, Zenon DEF Sextet, m
  <2> QED
    BY <1>1, <1>2, <2>3, BitsOfByte
<1>8. \A r \in 0 .. 3 : r = 0 \/ r = 1 \/ r = 2 \/ r = 3
  OBVIOUS
<1>9. 0 + 1 = 1 /\ 1 + 1 = 2 /\ 2 + 1 = 3 /\ 3 + 1 = 4
  OBVIOUS
<1> QED
  BY <1>4, <1>5, <1>6, <1>7, <1>8, <1>9, Zenon DEF q

\* The characters of a quadruple.
LEMMA QuadrupleIs ==
  ASSUME NEW d \in Seq(Byte), NEW k \in Nat
  PROVE  LET x == ByteAt(d, 3 * k + 1)
             y == ByteAt(d, 3 * k + 2)
             z == ByteAt(d, 3 * k + 3)
         IN /\ QuadrupleAt(d, k)[1] = x \div 4 /\ QuadrupleAt(d, k)[2] = (x % 4) * 16 + y \div 16
            /\ QuadrupleAt(d, k)[3] = (y % 16) * 4 + z \div 64 /\ QuadrupleAt(d, k)[4] = z % 64
            /\ \A i \in 1 .. 4 : QuadrupleAt(d, k)[i] \in 0 .. 63
<1> DEFINE x == ByteAt(d, 3 * k + 1)
           y == ByteAt(d, 3 * k + 2)
           z == ByteAt(d, 3 * k + 3)
           q == QuadrupleAt(d, k)
<1>1. x \in 0 .. 255 /\ y \in 0 .. 255 /\ z \in 0 .. 255
  BY ByteAtIs DEF Byte
<1>2. /\ q[1] = x \div 4 /\ q[2] = (x % 4) * 16 + y \div 16
      /\ q[3] = (y % 16) * 4 + z \div 64 /\ q[4] = z % 64
  BY DEF QuadrupleAt, Quadruple
<1> HIDE DEF x, y, z, q
<1>3. q[1] \in 0 .. 63 /\ q[2] \in 0 .. 63 /\ q[3] \in 0 .. 63 /\ q[4] \in 0 .. 63
  BY <1>1, <1>2, SMTT(30)
<1>4. \A i \in 1 .. 4 : i = 1 \/ i = 2 \/ i = 3 \/ i = 4
  OBVIOUS
<1>5. \A i \in 1 .. 4 : q[i] \in 0 .. 63
  BY <1>3, <1>4, Zenon
<1> QED
  BY <1>2, <1>5, Zenon DEF x, y, z, q

\* Character j of the standard encoding.
StandardAt(d, j) ==
  IF 6 * (j - 1) >= 8 * Len(d) THEN Padding ELSE QuadrupleAt(d, (j - 1) \div 4)[((j - 1) % 4) + 1]

\* The standard, character by character.
LEMMA StandardIs ==
  ASSUME NEW d \in Seq(Byte)
  PROVE  Standard(d) = [j \in 1 .. 4 * ((Len(d) + 2) \div 3) |-> StandardAt(d, j)]
<1> DEFINE K == (Len(d) + 2) \div 3
<1>1. \A j \in 1 .. 4 * K : Sextet(d, j - 1) = QuadrupleAt(d, (j - 1) \div 4)[((j - 1) % 4) + 1]
  <2> TAKE j \in 1 .. 4 * K
  <2> DEFINE k == (j - 1) \div 4
             r == (j - 1) % 4
  <2>1. k \in Nat /\ r \in 0 .. 3 /\ j - 1 = 4 * k + r
    BY Z3
  <2> HIDE DEF k, r
  <2>2. Sextet(d, 4 * k + r) = QuadrupleAt(d, k)[r + 1]
    BY <2>1, SextetsAre
  <2> QED
    BY <2>1, <2>2, Zenon DEF k, r
<1> QED
  BY <1>1 DEF Standard, StandardAt

\* Two parts of the standard encoding make it.
LEMMA Joined ==
  ASSUME NEW d \in Seq(Byte), NEW b \in Seq(Nat), NEW r \in Seq(Nat),
         Len(b) + Len(r) = 4 * ((Len(d) + 2) \div 3),
         \A j \in 1 .. Len(b) : b[j] = StandardAt(d, j),
         \A i \in 1 .. Len(r) : r[i] = StandardAt(d, Len(b) + i)
  PROVE  b \o r = Standard(d)
<1> DEFINE e == b \o r
           L == Len(b) + Len(r)
<1>1. e \in Seq(Nat) /\ Len(e) = L
  BY ConcatProperties
<1>2. \A j \in 1 .. L : e[j] = IF j <= Len(b) THEN b[j] ELSE r[j - Len(b)]
  BY ConcatProperties
<1>3. Len(b) \in Nat /\ Len(r) \in Nat
  OBVIOUS
<1> HIDE DEF e, L
<1>4. \A j \in 1 .. L : e[j] = StandardAt(d, j)
  <2> TAKE j \in 1 .. L
  <2>1. CASE j <= Len(b)
    <3>1. j \in 1 .. Len(b)
      BY <1>3, <2>1 DEF L
    <3> QED
      BY <1>2, <2>1, <3>1
  <2>2. CASE ~(j <= Len(b))
    <3>1. j - Len(b) \in 1 .. Len(r) /\ Len(b) + (j - Len(b)) = j
      BY <1>3, <2>2 DEF L
    <3>2. r[j - Len(b)] = StandardAt(d, Len(b) + (j - Len(b)))
      BY <3>1
    <3>3. e[j] = r[j - Len(b)]
      BY <1>2, <2>2
    <3> QED
      BY <3>1, <3>2, <3>3
  <2> QED
    BY <2>1, <2>2
<1>5. e = [j \in 1 .. L |-> e[j]]
  BY <1>1
<1>6. e = [j \in 1 .. L |-> StandardAt(d, j)]
  BY <1>4, <1>5
<1>7. Standard(d) = [j \in 1 .. 4 * ((Len(d) + 2) \div 3) |-> StandardAt(d, j)]
  BY StandardIs
<1>8. L = 4 * ((Len(d) + 2) \div 3)
  BY DEF L
<1> QED
  BY <1>6, <1>7, <1>8, Zenon DEF e

\* Encode is the standard encoding.
LEMMA EncodeAlways ==
  ASSUME NEW d \in Seq(Byte), Len(d) >= 2
  PROVE  Encode(d) = Standard(d)
<1> DEFINE n == Len(d)
           T == Triples(n)
           K == (n + 2) \div 3
           m == 4 * T
           at(j) == 3 * ((j - 1) \div 4)
           body == [j \in 1 .. m |->
                      Quadruple(d[at(j) + 1], d[at(j) + 2], d[at(j) + 3])[((j - 1) % 4) + 1]]
           rest == EncodeRest(d)
           q == QuadrupleAt(d, T)
<1>1. n \in Nat /\ n >= 2 /\ \A i \in 1 .. n : d[i] \in 0 .. 255
  <2>1. \A i \in 1 .. n : d[i] \in Byte
    OBVIOUS
  <2> QED
    BY <2>1 DEF Byte
<1>2. Encode(d) = body \o rest
  BY DEF Encode
<1>3. T \in Nat /\ 3 * T <= n /\ n <= 3 * T + 2
  BY <1>1 DEF Triples, LoopEnds
<1>4. /\ n = 3 * T => K = T
      /\ n # 3 * T => K = T + 1
  BY <1>1, <1>3
<1> HIDE DEF T
<1>5. m \in Nat /\ m = 4 * T
  BY <1>3
<1>6. \A j \in 1 .. m : body[j] = StandardAt(d, j) /\ body[j] \in Nat
  <2> TAKE j \in 1 .. m
  <2> DEFINE k == (j - 1) \div 4
             r == (j - 1) % 4
  <2>1. /\ k \in Nat /\ r \in 0 .. 3 /\ j - 1 = 4 * k + r /\ r + 1 \in 1 .. 4
        /\ 3 * k + 3 <= 3 * T
    BY <1>3
  <2>2. body[j] = Quadruple(d[3 * k + 1], d[3 * k + 2], d[3 * k + 3])[r + 1]
    OBVIOUS
  <2> HIDE DEF k, r, body
  <2>3. ByteAt(d, 3 * k + 1) = d[3 * k + 1] /\ ByteAt(d, 3 * k + 2) = d[3 * k + 2]
        /\ ByteAt(d, 3 * k + 3) = d[3 * k + 3]
    BY <1>1, <1>3, <2>1 DEF ByteAt
  <2>4. ~(6 * (j - 1) >= 8 * n)
    BY <1>1, <1>3, <2>1
  <2>5. body[j] = QuadrupleAt(d, k)[r + 1]
    BY <2>2, <2>3, Zenon DEF QuadrupleAt
  <2>6. body[j] \in 0 .. 63
    BY <2>1, <2>5, QuadrupleIs
  <2>7. body[j] = StandardAt(d, j)
    BY <2>4, <2>5, Zenon DEF StandardAt, k, r
  <2>8. body[j] \in Nat
    <3>1. \A v : v \in 0 .. 63 => v \in Nat
      OBVIOUS
    <3> QED
      BY <2>6, <3>1, Zenon
  <2> QED
    BY <2>7, <2>8
<1>7. body \in Seq(Nat) /\ Len(body) = m
  <2>1. body \in [1 .. m -> Nat]
    BY <1>6
  <2> HIDE DEF body, m
  <2>2. body \in Seq(Nat)
    BY <1>5, <2>1, SeqDef
  <2> QED
    BY <1>5, <2>1, <2>2
<1> HIDE DEF body
<1>8. /\ q[1] = ByteAt(d, 3 * T + 1) \div 4
      /\ q[2] = (ByteAt(d, 3 * T + 1) % 4) * 16 + ByteAt(d, 3 * T + 2) \div 16
      /\ q[3] = (ByteAt(d, 3 * T + 2) % 16) * 4 + ByteAt(d, 3 * T + 3) \div 64
      /\ \A i \in 1 .. 4 : q[i] \in 0 .. 63
  BY <1>3, QuadrupleIs
<1>9. /\ \A i \in 1 .. 4 : ((m + i) - 1) \div 4 = T /\ (((m + i) - 1) % 4) + 1 = i
      /\ \A i \in 1 .. 4 : StandardAt(d, m + i) = IF 6 * ((m + i) - 1) >= 8 * n THEN Padding ELSE q[i]
  <2>1. \A i \in 1 .. 4 : ((m + i) - 1) \div 4 = T /\ (((m + i) - 1) % 4) + 1 = i
    BY <1>3
  <2>2. ASSUME NEW i \in 1 .. 4
        PROVE  StandardAt(d, m + i) = IF 6 * ((m + i) - 1) >= 8 * n THEN Padding ELSE q[i]
    <3> DEFINE k == ((m + i) - 1) \div 4
               r == (((m + i) - 1) % 4) + 1
    <3>1. StandardAt(d, m + i) = IF 6 * ((m + i) - 1) >= 8 * n THEN Padding ELSE QuadrupleAt(d, k)[r]
      BY Zenon DEF StandardAt
    <3>2. k = T /\ r = i
      BY <2>1
    <3> HIDE DEF k, r
    <3> QED
      BY <3>1, <3>2, Zenon
  <2> QED
    BY <2>1, <2>2
<1> HIDE DEF q, m
<1>10. CASE n = 3 * T
  <2>1. rest = <<>>
    BY <1>1, <1>10 DEF EncodeRest, T
  <2>2. <<>> \in Seq(Nat) /\ Len(<<>>) = 0 /\ 1 .. 0 = {}
    OBVIOUS
  <2>3. Len(body) + Len(<<>>) = 4 * K
    BY <1>3, <1>4, <1>5, <1>7, <1>10, <2>2
  <2> DEFINE last == <<>>
  <2>4. \A i \in 1 .. Len(last) : last[i] = StandardAt(d, m + i)
    OBVIOUS
  <2> HIDE DEF last
  <2>5. body \o last = Standard(d)
    BY <1>6, <1>7, <2>2, <2>3, <2>4, Joined DEF last
  <2> QED
    BY <1>2, <2>1, <2>5 DEF last
<1>11. CASE n = 3 * T + 1
  <2> DEFINE x == d[3 * T + 1]
             last == <<x \div 4, (x % 4) * 16, Padding, Padding>>
  <2>1. rest = last
    <3>1. ~(3 * Triples(n) >= n) /\ 3 * Triples(n) = n - 1
      BY <1>3, <1>11 DEF T
    <3> QED
      BY <3>1, Zenon DEF EncodeRest, T
  <2>2. x \in 0 .. 255 /\ ByteAt(d, 3 * T + 1) = x /\ ByteAt(d, 3 * T + 2) = 0
    BY <1>1, <1>3, <1>11 DEF ByteAt
  <2>3. last[1] = q[1] /\ last[2] = q[2] /\ last[3] = Padding /\ last[4] = Padding
    <3>1. q[1] = x \div 4 /\ q[2] = (x % 4) * 16 + 0 \div 16
      BY <1>8, <2>2, Zenon
    <3>2. last[1] = x \div 4 /\ last[2] = (x % 4) * 16 /\ last[3] = Padding /\ last[4] = Padding
      OBVIOUS
    <3>3. (x % 4) * 16 + 0 \div 16 = (x % 4) * 16
      <4> HIDE DEF x
      <4> QED
        BY <2>2
    <3> QED
      BY <3>1, <3>2, <3>3, Zenon
  <2>4. Len(last) = 4 /\ DOMAIN last = 1 .. 4
    OBVIOUS
  <2>5. last \in Seq(Nat)
    <3>1. x \div 4 \in Nat /\ (x % 4) * 16 \in Nat /\ Padding \in Nat
      <4> HIDE DEF x
      <4> QED
        BY <2>2 DEF Padding
    <3> QED
      BY <3>1
  <2> HIDE DEF last, x
  <2>6. /\ ~(6 * ((m + 1) - 1) >= 8 * n) /\ ~(6 * ((m + 2) - 1) >= 8 * n)
        /\ 6 * ((m + 3) - 1) >= 8 * n /\ 6 * ((m + 4) - 1) >= 8 * n
    BY <1>3, <1>5, <1>11
  <2>7. \A i \in 1 .. 4 : i = 1 \/ i = 2 \/ i = 3 \/ i = 4
    OBVIOUS
  <2>8. \A i \in 1 .. 4 : last[i] = StandardAt(d, m + i)
    BY <1>9, <2>3, <2>6, <2>7, Zenon
  <2>9. Len(body) + Len(last) = 4 * K
    BY <1>3, <1>4, <1>5, <1>7, <1>11, <2>4
  <2>10. body \o last = Standard(d)
    BY <1>6, <1>7, <2>4, <2>5, <2>8, <2>9, Joined
  <2> QED
    BY <1>2, <2>1, <2>10
<1>12. CASE n = 3 * T + 2
  <2> DEFINE x == d[3 * T + 1]
             y == d[3 * T + 2]
             last == <<x \div 4, (x % 4) * 16 + y \div 16, (y % 16) * 4, Padding>>
  <2>1. rest = last
    <3>1. ~(3 * Triples(n) >= n) /\ ~(3 * Triples(n) = n - 1)
      BY <1>3, <1>12 DEF T
    <3> QED
      BY <3>1, Zenon DEF EncodeRest, T
  <2>2. /\ x \in 0 .. 255 /\ ByteAt(d, 3 * T + 1) = x
        /\ y \in 0 .. 255 /\ ByteAt(d, 3 * T + 2) = y
        /\ ByteAt(d, 3 * T + 3) = 0
    BY <1>1, <1>3, <1>12 DEF ByteAt
  <2>3. last[1] = q[1] /\ last[2] = q[2] /\ last[3] = q[3] /\ last[4] = Padding
    <3>1. /\ q[1] = x \div 4 /\ q[2] = (x % 4) * 16 + y \div 16
          /\ q[3] = (y % 16) * 4 + 0 \div 64
      BY <1>8, <2>2, Zenon
    <3>2. /\ last[1] = x \div 4 /\ last[2] = (x % 4) * 16 + y \div 16
          /\ last[3] = (y % 16) * 4 /\ last[4] = Padding
      OBVIOUS
    <3>3. (y % 16) * 4 + 0 \div 64 = (y % 16) * 4
      <4> HIDE DEF y
      <4> QED
        BY <2>2
    <3> QED
      BY <3>1, <3>2, <3>3, Zenon
  <2>4. Len(last) = 4 /\ DOMAIN last = 1 .. 4
    OBVIOUS
  <2>5. last \in Seq(Nat)
    <3>1. /\ x \div 4 \in Nat /\ (x % 4) * 16 + y \div 16 \in Nat /\ (y % 16) * 4 \in Nat
          /\ Padding \in Nat
      <4> HIDE DEF x, y
      <4> QED
        BY <2>2 DEF Padding
    <3> QED
      BY <3>1
  <2> HIDE DEF last, x, y
  <2>6. /\ ~(6 * ((m + 1) - 1) >= 8 * n) /\ ~(6 * ((m + 2) - 1) >= 8 * n)
        /\ ~(6 * ((m + 3) - 1) >= 8 * n) /\ 6 * ((m + 4) - 1) >= 8 * n
    BY <1>3, <1>5, <1>12
  <2>7. \A i \in 1 .. 4 : i = 1 \/ i = 2 \/ i = 3 \/ i = 4
    OBVIOUS
  <2>8. \A i \in 1 .. 4 : last[i] = StandardAt(d, m + i)
    BY <1>9, <2>3, <2>6, <2>7, Zenon
  <2>9. Len(body) + Len(last) = 4 * K
    BY <1>3, <1>4, <1>5, <1>7, <1>12, <2>4
  <2>10. body \o last = Standard(d)
    BY <1>6, <1>7, <2>4, <2>5, <2>8, <2>9, Joined
  <2> QED
    BY <1>2, <2>1, <2>10
<1>13. n = 3 * T \/ n = 3 * T + 1 \/ n = 3 * T + 2
  BY <1>1, <1>3
<1> QED
  BY <1>10, <1>11, <1>12, <1>13

\* What is padded stands for no bits.
LEMMA ValuesAre ==
  ASSUME NEW d \in Seq(Byte), NEW k \in Nat, 3 * k + 1 <= Len(d), NEW r \in 0 .. 3
  PROVE  /\ Value(StandardAt(d, 4 * k + (r + 1))) = QuadrupleAt(d, k)[r + 1]
         /\ StandardAt(d, 4 * k + (r + 1)) \in 0 .. 64
         /\ StandardAt(d, 4 * k + (r + 1)) = Padding <=> 6 * (4 * k + r) >= 8 * Len(d)
<1> DEFINE j == 4 * k + (r + 1)
           n == Len(d)
           q == QuadrupleAt(d, k)
           padded == 6 * (4 * k + r) >= 8 * n
<1>1. j - 1 = 4 * k + r /\ (4 * k + r) \div 4 = k /\ (4 * k + r) % 4 = r /\ r + 1 \in 1 .. 4 /\ n \in Nat
  OBVIOUS
<1>2. StandardAt(d, j) = IF padded THEN Padding ELSE q[r + 1]
  BY <1>1, Zenon DEF StandardAt
<1>3. q[r + 1] \in 0 .. 63
  BY <1>1, QuadrupleIs
<1>4. ASSUME padded PROVE q[r + 1] = 0
  <2>1. \/ r = 2 /\ ~(3 * k + 2 <= n)
        \/ r = 3
    BY <1>1, <1>4
  <2>2. ~(3 * k + 3 <= n)
    BY <1>1, <1>4
  <2>3. /\ q[3] = (ByteAt(d, 3 * k + 2) % 16) * 4 + ByteAt(d, 3 * k + 3) \div 64
        /\ q[4] = ByteAt(d, 3 * k + 3) % 64
    BY QuadrupleIs
  <2> HIDE DEF q
  <2>4. 0 % 64 = 0 /\ (0 % 16) * 4 + 0 \div 64 = 0
    OBVIOUS
  <2>5. CASE r = 2 /\ ~(3 * k + 2 <= n)
    <3>1. ByteAt(d, 3 * k + 2) = 0 /\ ByteAt(d, 3 * k + 3) = 0
      BY <2>2, <2>5 DEF ByteAt
    <3>2. q[3] = 0
      BY <2>3, <2>4, <3>1, Zenon
    <3>3. r + 1 = 3
      BY <2>5
    <3> QED
      BY <3>2, <3>3, Zenon
  <2>6. CASE r = 3
    <3>1. ByteAt(d, 3 * k + 3) = 0
      BY <2>2 DEF ByteAt
    <3>2. q[4] = 0
      BY <2>3, <2>4, <3>1, Zenon
    <3>3. r + 1 = 4
      BY <2>6
    <3> QED
      BY <3>2, <3>3, Zenon
  <2> QED
    BY <2>1, <2>5, <2>6
<1> HIDE DEF q, padded, j
<1>5. CASE padded
  <2>1. StandardAt(d, j) = 64 /\ q[r + 1] = 0
    BY <1>2, <1>4, <1>5 DEF Padding
  <2> QED
    BY <1>5, <2>1 DEF Value, Padding, j, q, padded
<1>6. CASE ~padded
  <2> DEFINE v == q[r + 1]
  <2>1. StandardAt(d, j) = v /\ v \in 0 .. 63
    BY <1>2, <1>3, <1>6
  <2> HIDE DEF v
  <2>2. v \in 0 .. 64 /\ v # 64 /\ Value(v) = v
    BY <2>1 DEF Value, Padding
  <2> QED
    BY <1>6, <2>1, <2>2, Zenon DEF Padding, j, q, padded, v
<1> QED
  BY <1>5, <1>6

\* The 24 bits of four characters, in numbers.
LEMMA Shifted ==
  ASSUME NEW a \in Nat, NEW b \in Nat, NEW c \in Nat, NEW e \in Nat
  PROVE  a * 2^18 + b * 2^12 + c * 2^6 + e = a * 262144 + b * 4096 + c * 64 + e
<1>1. 2^18 = 262144 /\ 2^12 = 4096 /\ 2^6 = 64
  BY SMT
<1> QED
  BY <1>1, SMT

\* The 24 bits of the four characters of three bytes, and the bytes out of them.
Packed(x, y, z) ==
  (x \div 4) * 2^18 + ((x % 4) * 16 + y \div 16) * 2^12
  + ((y % 16) * 4 + z \div 64) * 2^6 + (z % 64)

Unpacked(t, b) == (t \div 2^(8 * (2 - b))) % 256

\* Three bytes are unpacked from the number they were packed into.
LEMMA ThreeBytes ==
  ASSUME NEW x \in Byte, NEW y \in Byte, NEW z \in Byte
  PROVE  /\ Unpacked(Packed(x, y, z), 0) = x
         /\ Unpacked(Packed(x, y, z), 1) = y
         /\ Unpacked(Packed(x, y, z), 2) = z
<1> DEFINE t == Packed(x, y, z)
           a == x \div 4
           b == x % 4
           c == y \div 16
           d == y % 16
           e == z \div 64
           f == z % 64
<1>1. x = 4 * a + b /\ a \in Nat /\ b \in Nat /\ x \in 0 .. 255
  BY SMT DEF Byte
<1>2. y = 16 * c + d /\ c \in Nat /\ d \in Nat /\ y \in 0 .. 255
  BY SMT DEF Byte
<1>3. z = 64 * e + f /\ e \in Nat /\ f \in Nat /\ z \in 0 .. 255
  BY SMT DEF Byte
<1>4. t = a * 2^18 + (b * 16 + c) * 2^12 + (d * 4 + e) * 2^6 + f
  BY Zenon DEF Packed
<1> HIDE DEF a, b, c, d, e, f, t
<1> DEFINE g == b * 16 + c
           h == d * 4 + e
<1>5. g \in Nat /\ h \in Nat
  BY <1>1, <1>2, <1>3, SMT
<1>6. t = a * 262144 + g * 4096 + h * 64 + f
  <2> HIDE DEF g, h
  <2>1. a * 2^18 + g * 2^12 + h * 2^6 + f = a * 262144 + g * 4096 + h * 64 + f
    BY <1>1, <1>3, <1>5, Shifted, SMT
  <2>2. t = a * 2^18 + g * 2^12 + h * 2^6 + f
    BY <1>4, Zenon DEF g, h
  <2> QED
    BY <2>1, <2>2, SMT
<1>7. t = x * 65536 + y * 256 + z
  BY <1>1, <1>2, <1>3, <1>6, SMT
<1>8. 8 * (2 - 0) = 16 /\ 8 * (2 - 1) = 8 /\ 8 * (2 - 2) = 0
  BY SMT
<1>9. 2^16 = 65536 /\ 2^8 = 256 /\ 2^0 = 1
  BY SMT
<1>10. (t \div 65536) % 256 = x /\ (t \div 256) % 256 = y /\ (t \div 1) % 256 = z
  BY <1>1, <1>2, <1>3, <1>7, SMT
<1> QED
  BY <1>8, <1>9, <1>10, SMT DEF t, Unpacked

\* Decode gives back what was encoded.
LEMMA DecodeAlways ==
  ASSUME NEW d \in Seq(Byte), Len(d) >= 1
  PROVE  Decode(Standard(d)) = d
<1> DEFINE n == Len(d)
           K == (n + 2) \div 3
           e == Standard(d)
<1>1. n \in Nat /\ n >= 1 /\ K \in Nat /\ K >= 1 /\ n <= 3 * K /\ 3 * K <= n + 2
  OBVIOUS
<1>2. e = [j \in 1 .. 4 * K |-> StandardAt(d, j)]
  BY StandardIs
<1> HIDE DEF K
<1>3. \A k \in 0 .. K - 1, r \in 0 .. 3 :
        /\ Value(e[4 * k + (r + 1)]) = QuadrupleAt(d, k)[r + 1]
        /\ e[4 * k + (r + 1)] \in 0 .. 64
        /\ e[4 * k + (r + 1)] = Padding <=> 6 * (4 * k + r) >= 8 * n
  <2> TAKE k \in 0 .. K - 1, r \in 0 .. 3
  <2>1. k \in Nat /\ 3 * k + 1 <= n /\ 4 * k + (r + 1) \in 1 .. 4 * K
    BY <1>1
  <2>2. e[4 * k + (r + 1)] = StandardAt(d, 4 * k + (r + 1))
    BY <1>2, <2>1
  <2> HIDE DEF e
  <2>3. /\ Value(StandardAt(d, 4 * k + (r + 1))) = QuadrupleAt(d, k)[r + 1]
        /\ StandardAt(d, 4 * k + (r + 1)) \in 0 .. 64
        /\ StandardAt(d, 4 * k + (r + 1)) = Padding <=> 6 * (4 * k + r) >= 8 * Len(d)
    BY <2>1, ValuesAre
  <2> QED
    BY <2>2, <2>3, Zenon
<1>4. Len(e) = 4 * K
  <2>1. \A j \in 1 .. 4 * K : e[j] \in Nat
    <3> TAKE j \in 1 .. 4 * K
    <3> DEFINE k == (j - 1) \div 4
               r == (j - 1) % 4
    <3>1. k \in 0 .. K - 1 /\ r \in 0 .. 3 /\ 4 * k + (r + 1) = j
      BY <1>1
    <3> HIDE DEF k, r, e
    <3>2. e[4 * k + (r + 1)] \in 0 .. 64
      BY <1>3, <3>1
    <3>3. \A v : v \in 0 .. 64 => v \in Nat
      OBVIOUS
    <3> QED
      BY <3>1, <3>2, <3>3, Zenon
  <2> DEFINE m == 4 * K
  <2>2. m \in Nat /\ e \in [1 .. m -> Nat]
    BY <1>1, <1>2, <2>1
  <2> HIDE DEF m, e
  <2>3. e \in Seq(Nat)
    BY <2>2, SeqDef
  <2> QED
    BY <2>2, <2>3 DEF m
<1> HIDE DEF e
<1>5. OutLen(e) = n
  <2> DEFINE k == K - 1
  <2>1. k \in 0 .. K - 1 /\ 4 * k + (3 + 1) = 4 * K /\ 4 * k + (2 + 1) = 4 * K - 1
    BY <1>1
  <2>2. e[4 * K] = Padding <=> 6 * (4 * k + 3) >= 8 * n
    <3>1. e[4 * k + (3 + 1)] = Padding <=> 6 * (4 * k + 3) >= 8 * n
      BY <1>3, <2>1
    <3> QED
      BY <2>1, <3>1, Zenon
  <2>3. e[4 * K - 1] = Padding <=> 6 * (4 * k + 2) >= 8 * n
    <3>1. e[4 * k + (2 + 1)] = Padding <=> 6 * (4 * k + 2) >= 8 * n
      BY <1>3, <2>1
    <3> QED
      BY <2>1, <3>1, Zenon
  <2>4. (4 * K) \div 4 = K
    BY <1>1
  <2>5. OutLen(e) = K * 3 - (IF e[4 * K] = Padding THEN 1 ELSE 0)
                          - (IF e[4 * K - 1] = Padding THEN 1 ELSE 0)
    BY <1>4, <2>4, Zenon DEF OutLen
  <2>6. OutLen(e) = K * 3 - (IF 6 * (4 * k + 3) >= 8 * n THEN 1 ELSE 0)
                          - (IF 6 * (4 * k + 2) >= 8 * n THEN 1 ELSE 0)
    BY <2>2, <2>3, <2>5
  <2> HIDE DEF k, n
  <2>7. CASE n = 3 * K
    <3>1. ~(6 * (4 * k + 3) >= 8 * n) /\ ~(6 * (4 * k + 2) >= 8 * n)
      BY <1>1, <2>7 DEF k
    <3> QED
      BY <1>1, <2>6, <2>7, <3>1
  <2>8. CASE n = 3 * K - 1
    <3>1. 6 * (4 * k + 3) >= 8 * n /\ ~(6 * (4 * k + 2) >= 8 * n)
      BY <1>1, <2>8 DEF k
    <3> QED
      BY <1>1, <2>6, <2>8, <3>1
  <2>9. CASE n = 3 * K - 2
    <3>1. 6 * (4 * k + 3) >= 8 * n /\ 6 * (4 * k + 2) >= 8 * n
      BY <1>1, <2>9 DEF k
    <3> QED
      BY <1>1, <2>6, <2>9, <3>1
  <2> QED
    BY <1>1, <2>7, <2>8, <2>9
<1>6. ASSUME NEW j \in 1 .. n
      PROVE  Unpacked(Triple(e, (j + 2) \div 3), (j - 1) % 3) = d[j]
  <2> DEFINE k == (j - 1) \div 3
             b == (j - 1) % 3
             x == ByteAt(d, 3 * k + 1)
             y == ByteAt(d, 3 * k + 2)
             z == ByteAt(d, 3 * k + 3)
  <2>1. /\ k \in 0 .. K - 1 /\ b \in 0 .. 2 /\ j = 3 * k + (b + 1) /\ (j + 2) \div 3 = k + 1
        /\ k \in Nat
    BY <1>1
  <2>2. x \in Byte /\ y \in Byte /\ z \in Byte
    <3> HIDE DEF k
    <3>1. /\ 3 * k + 1 \in Nat \ {0} /\ 3 * k + 2 \in Nat \ {0} /\ 3 * k + 3 \in Nat \ {0}
      BY <2>1
    <3> QED
      BY <3>1, ByteAtIs
  <2> HIDE DEF k, b
  <2>3. /\ Value(e[4 * k + (0 + 1)]) = x \div 4
        /\ Value(e[4 * k + (1 + 1)]) = (x % 4) * 16 + y \div 16
        /\ Value(e[4 * k + (2 + 1)]) = (y % 16) * 4 + z \div 64
        /\ Value(e[4 * k + (3 + 1)]) = z % 64
    <3> DEFINE q == QuadrupleAt(d, k)
    <3>1. /\ q[1] = x \div 4 /\ q[2] = (x % 4) * 16 + y \div 16
          /\ q[3] = (y % 16) * 4 + z \div 64 /\ q[4] = z % 64
      BY <2>1, QuadrupleIs
    <3> HIDE DEF q
    <3>2. \A r \in 0 .. 3 : Value(e[4 * k + (r + 1)]) = q[r + 1]
      BY <1>3, <2>1, Zenon DEF q
    <3>3. 0 \in 0 .. 3 /\ 1 \in 0 .. 3 /\ 2 \in 0 .. 3 /\ 3 \in 0 .. 3
      OBVIOUS
    <3>4. 0 + 1 = 1 /\ 1 + 1 = 2 /\ 2 + 1 = 3 /\ 3 + 1 = 4
      OBVIOUS
    <3>5. /\ Value(e[4 * k + (0 + 1)]) = q[0 + 1] /\ Value(e[4 * k + (1 + 1)]) = q[1 + 1]
          /\ Value(e[4 * k + (2 + 1)]) = q[2 + 1] /\ Value(e[4 * k + (3 + 1)]) = q[3 + 1]
      BY <3>2, <3>3, Zenon
    <3> QED
      BY <3>1, <3>4, <3>5, Zenon
  <2> DEFINE t == Packed(x, y, z)
  <2>4. Triple(e, k + 1) = t
    <3>1. /\ 4 * (k + 1) - 3 = 4 * k + (0 + 1) /\ 4 * (k + 1) - 2 = 4 * k + (1 + 1)
          /\ 4 * (k + 1) - 1 = 4 * k + (2 + 1) /\ 4 * (k + 1) = 4 * k + (3 + 1)
      BY <2>1
    <3> QED
      BY <2>3, <3>1, Zenon DEF Triple, Packed
  <2>5. Unpacked(t, 0) = x /\ Unpacked(t, 1) = y /\ Unpacked(t, 2) = z
    <3> HIDE DEF x, y, z
    <3> QED
      BY <2>2, ThreeBytes
  <2>6. ByteAt(d, j) = d[j]
    BY DEF ByteAt
  <2> HIDE DEF t
  <2>7. CASE b = 0
    <3>1. 3 * k + 1 = j
      BY <2>1, <2>7
    <3> QED
      BY <2>1, <2>4, <2>5, <2>6, <2>7, <3>1, Zenon DEF b
  <2>8. CASE b = 1
    <3>1. 3 * k + 2 = j
      BY <2>1, <2>8
    <3> QED
      BY <2>1, <2>4, <2>5, <2>6, <2>8, <3>1, Zenon DEF b
  <2>9. CASE b = 2
    <3>1. 3 * k + 3 = j
      BY <2>1, <2>9
    <3> QED
      BY <2>1, <2>4, <2>5, <2>6, <2>9, <3>1, Zenon DEF b
  <2> QED
    BY <2>1, <2>7, <2>8, <2>9
<1>7. Decode(e) = [j \in 1 .. n |-> d[j]]
  BY <1>5, <1>6, Zenon DEF Decode, Unpacked
<1>8. d = [j \in 1 .. n |-> d[j]]
  OBVIOUS
<1> QED
  BY <1>7, <1>8 DEF e

-----------------------------------------------------------------------------
(* Queries *)

\* What Split has before it looks at a character, and after it: an entry at least.
Splits(C) == Seq(Seq(C)) \ { <<>> }
SplitOn(z, x, c) ==
  IF x = c THEN Append(z, <<>>) ELSE [z EXCEPT ![Len(z)] = Append(@, x)]
AreSplits(E, s, c, C) ==
  /\ E \in [0 .. Len(s) -> Splits(C)]
  /\ E[0] = << <<>> >>
  /\ \A n \in 0 .. Len(s) - 1 : E[n + 1] = SplitOn(E[n], s[n + 1], c)
  /\ Split(s, c) = E[Len(s)]

\* One more character ends a part, or lengthens the last.
LEMMA SplitOne ==
  ASSUME NEW C, NEW z \in Splits(C), NEW x \in C, NEW c
  PROVE  /\ Len(z) \in Nat \ {0} /\ z \in Seq(Seq(C))
         /\ SplitOn(z, x, c) \in Splits(C)
         /\ x = c => /\ Len(SplitOn(z, x, c)) = Len(z) + 1
                     /\ \A i \in 1 .. Len(z) : SplitOn(z, x, c)[i] = z[i]
                     /\ SplitOn(z, x, c)[Len(z) + 1] = <<>>
         /\ x # c => /\ Len(SplitOn(z, x, c)) = Len(z)
                     /\ \A i \in 1 .. Len(z) - 1 : SplitOn(z, x, c)[i] = z[i]
                     /\ SplitOn(z, x, c)[Len(z)] = Append(z[Len(z)], x)
<1> DEFINE D == Seq(C)
           m == Len(z)
<1>1. z \in Seq(D) /\ z # <<>> /\ m \in Nat \ {0} /\ m \in 1 .. m
  BY DEF Splits
<1>2. <<>> \in D /\ z[m] \in D
  BY <1>1
<1>3. CASE x = c
  <2>1. SplitOn(z, x, c) = Append(z, <<>>)
    BY <1>3 DEF SplitOn
  <2> HIDE DEF D
  <2>2. Append(z, <<>>) \in Seq(D) /\ Append(z, <<>>) # <<>> /\ Len(Append(z, <<>>)) = m + 1
        /\ (\A i \in 1 .. m : Append(z, <<>>)[i] = z[i]) /\ Append(z, <<>>)[m + 1] = <<>>
    BY <1>1, <1>2, AppendProperties
  <2> QED
    BY <1>1, <1>3, <2>1, <2>2 DEF Splits, D
<1>4. CASE x # c
  <2> DEFINE last == Append(z[m], x)
  <2>1. SplitOn(z, x, c) = [z EXCEPT ![m] = last]
    BY <1>4 DEF SplitOn
  <2>2. last \in D
    BY <1>2
  <2> HIDE DEF D, last
  <2> DEFINE y == [z EXCEPT ![m] = last]
  <2>3. y \in Seq(D) /\ Len(y) = m /\ \A i \in 1 .. m : y[i] = IF i = m THEN last ELSE z[i]
    BY <1>1, <2>2, ExceptSeq
  <2> HIDE DEF y
  <2>4. y # <<>> /\ \A i \in 1 .. m - 1 : i \in 1 .. m /\ i # m
    BY <1>1, <2>3
  <2>5. SplitOn(z, x, c) = y
    BY <2>1 DEF y
  <2>6. y \in Splits(C) /\ z \in Seq(Seq(C))
    BY <1>1, <2>3, <2>4 DEF Splits, D
  <2>7. (\A i \in 1 .. m - 1 : y[i] = z[i]) /\ y[m] = last
    BY <1>1, <2>3, <2>4
  <2> QED
    BY <1>1, <1>4, <2>3, <2>5, <2>6, <2>7 DEF last
<1> QED
  BY <1>3, <1>4

\* Split's recursive function exists.
LEMMA SplitsAre ==
  ASSUME NEW C, NEW s \in Seq(C), NEW c
  PROVE  \E E : AreSplits(E, s, c, C)
<1> DEFINE N == Len(s)
           S == Splits(C)
           a == << <<>> >>
           step == [x \in (1 .. N) \X S |-> SplitOn(x[2], s[x[1]], c)]
           IsE(E) == E = [n \in 0 .. Len(s) |->
                            IF n = 0 THEN << <<>> >>
                            ELSE IF s[n] = c THEN Append(E[n - 1], <<>>)
                            ELSE [E[n - 1] EXCEPT ![Len(E[n - 1])] = Append(@, s[n])]]
           V == CHOOSE E : IsE(E)
<1>1. N \in Nat /\ a \in S /\ \A n \in 1 .. N : s[n] \in C
  BY DEF Splits
<1> HIDE DEF S
<1>2. ASSUME NEW n \in 1 .. N, NEW z \in S PROVE SplitOn(z, s[n], c) \in S
  BY <1>1, SplitOne DEF S
<1>3. PICK f \in [0 .. N -> S] : IsRecursive(f, N, a, step)
  <2>1. step \in [(1 .. N) \X S -> S]
    BY <1>2
  <2> HIDE DEF step, a
  <2> QED
    BY <1>1, <2>1, Recursion
<1>4. \A n \in 0 .. N : f[n] = IF n = 0 THEN a ELSE SplitOn(f[n - 1], s[n], c)
  <2>1. \A n \in 1 .. N, z \in S : step[<<n, z>>] = SplitOn(z, s[n], c)
    OBVIOUS
  <2>2. \A n \in 0 .. N : f[n] = IF n = 0 THEN a ELSE step[<<n, f[n - 1]>>]
    BY <1>3 DEF IsRecursive
  <2>3. \A n \in 0 .. N : n # 0 => n \in 1 .. N /\ f[n - 1] \in S
    <3>1. \A n \in 0 .. N : n # 0 => n \in 1 .. N /\ n - 1 \in 0 .. N
      BY <1>1
    <3> QED
      BY <3>1
  <2> HIDE DEF step, a
  <2> QED
    BY <2>1, <2>2, <2>3
<1>5. IsE(f)
  <2>1. f = [n \in 0 .. N |-> f[n]]
    OBVIOUS
  <2>2. f = [n \in 0 .. N |-> IF n = 0 THEN a ELSE SplitOn(f[n - 1], s[n], c)]
    BY <1>4, <2>1
  <2> QED
    BY <2>2, Zenon DEF SplitOn
<1>6. IsE(V)
  BY <1>5, Zenon
<1>7. Split(s, c) = V[N]
  BY Zenon DEF Split
<1> HIDE DEF V
<1>8. \A n \in 0 .. N : V[n] = IF n = 0 THEN a ELSE SplitOn(V[n - 1], s[n], c)
  BY <1>6 DEF SplitOn
<1>9. DOMAIN V = 0 .. N /\ V = [n \in 0 .. N |-> V[n]]
  BY <1>6
<1> HIDE DEF a
<1>10. V[0] = a /\ \A n \in 0 .. N - 1 : V[n + 1] = SplitOn(V[n], s[n + 1], c)
  BY <1>1, <1>8
<1> DEFINE T == {n \in 0 .. N : V[n] \in S}
<1>11. 0 \in T
  BY <1>1, <1>10
<1>12. ASSUME NEW n \in 0 .. N - 1, n \in T PROVE n + 1 \in T
  BY <1>1, <1>2, <1>10, <1>12
<1>13. 0 .. N \subseteq T
  <2> HIDE DEF T
  <2> QED
    BY <1>1, <1>11, <1>12, Induction
<1>14. V \in [0 .. N -> S]
  BY <1>9, <1>13
<1> QED
  BY <1>7, <1>10, <1>14 DEF AreSplits, a, S

\* An entry that is a name and a value begins with a name, and has a "=".
LEMMA PairsAre ==
  ASSUME NEW C, NEW x \in Seq(C)
  PROVE  /\ Split(x, "=") \in Splits(C)
         /\ Len(Split(x, "=")) = 2 /\ Split(x, "=")[1] # <<>>
              => x # <<>> /\ x[1] # "=" /\ \E i \in 1 .. Len(x) : x[i] = "="
<1> DEFINE N == Len(x)
<1>1. N \in Nat /\ N \in 0 .. N /\ \A n \in 1 .. N : x[n] \in C
  OBVIOUS
<1>2. PICK E : AreSplits(E, x, "=", C)
  BY SplitsAre
<1>3. /\ E[0] = << <<>> >> /\ Split(x, "=") = E[N]
      /\ \A n \in 0 .. N - 1 : E[n + 1] = SplitOn(E[n], x[n + 1], "=")
      /\ \A n \in 0 .. N : E[n] \in Splits(C)
  BY <1>2 DEF AreSplits
<1> DEFINE Good(n) == /\ (\A i \in 1 .. n : x[i] # "=") => Len(E[n]) = 1
                      /\ n >= 1 /\ x[1] = "=" => Len(E[n]) >= 2 /\ E[n][1] = <<>>
           T == {n \in 0 .. N : Good(n)}
<1>4. 0 \in T
  <2>1. Len(E[0]) = 1
    BY <1>3
  <2>2. Good(0)
    BY <2>1
  <2> QED
    BY <1>1, <2>2
<1>5. ASSUME NEW n \in 0 .. N - 1, n \in T PROVE n + 1 \in T
  <2> DEFINE z == E[n]
             y == E[n + 1]
             d == x[n + 1]
  <2>1. n \in 0 .. N /\ n + 1 \in 0 .. N /\ n + 1 \in 1 .. N /\ n \in Nat /\ d \in C
    BY <1>1
  <2>2. y = SplitOn(z, d, "=") /\ z \in Splits(C)
    BY <1>3, <2>1
  <2>3. /\ Len(z) \in Nat \ {0}
        /\ d = "=" => /\ Len(y) = Len(z) + 1
                      /\ \A i \in 1 .. Len(z) : y[i] = z[i]
                      /\ y[Len(z) + 1] = <<>>
        /\ d # "=" => /\ Len(y) = Len(z)
                      /\ \A i \in 1 .. Len(z) - 1 : y[i] = z[i]
    BY <2>1, <2>2, SplitOne
  <2>4. /\ (\A i \in 1 .. n : x[i] # "=") => Len(z) = 1
        /\ n >= 1 /\ x[1] = "=" => Len(z) >= 2 /\ z[1] = <<>>
    BY <1>5
  <2> HIDE DEF z, y
  <2>5. (\A i \in 1 .. n + 1 : x[i] # "=") => Len(y) = 1
    <3> SUFFICES ASSUME \A i \in 1 .. n + 1 : x[i] # "=" PROVE Len(y) = 1
      OBVIOUS
    <3>1. d # "=" /\ \A i \in 1 .. n : x[i] # "="
      BY <2>1
    <3> QED
      BY <2>3, <2>4, <3>1
  <2>6. x[1] = "=" => Len(y) >= 2 /\ y[1] = <<>>
    <3> SUFFICES ASSUME x[1] = "=" PROVE Len(y) >= 2 /\ y[1] = <<>>
      OBVIOUS
    <3>1. CASE n = 0
      <4>1. d = "=" /\ z = << <<>> >>
        BY <1>3, <3>1 DEF z
      <4>2. Len(z) = 1 /\ z[1] = <<>> /\ 1 \in 1 .. 1
        BY <4>1
      <4>3. Len(y) = 1 + 1 /\ y[1] = z[1]
        <5>1. Len(y) = Len(z) + 1 /\ \A i \in 1 .. Len(z) : y[i] = z[i]
          BY <2>3, <4>1, Zenon
        <5> QED
          BY <4>2, <5>1
      <4> QED
        BY <4>2, <4>3
    <3>2. CASE n >= 1
      <4>1. Len(z) >= 2 /\ z[1] = <<>>
        BY <2>4, <3>2
      <4>2. Len(y) >= 2
        BY <2>3, <4>1
      <4>3. y[1] = z[1]
        BY <2>3, <4>1
      <4> QED
        BY <4>1, <4>2, <4>3
    <3> QED
      BY <2>1, <3>1, <3>2
  <2>7. Good(n + 1)
    BY <2>5, <2>6 DEF y
  <2> QED
    BY <2>1, <2>7
<1> HIDE DEF T
<1>6. 0 .. N \subseteq T
  BY <1>1, <1>4, <1>5, Induction
<1>7. Good(N)
  BY <1>1, <1>6 DEF T
<1>8. ASSUME Len(E[N]) = 2, E[N][1] # <<>>
      PROVE  x # <<>> /\ x[1] # "=" /\ \E i \in 1 .. Len(x) : x[i] = "="
  <2>1. \E i \in 1 .. N : x[i] = "="
    BY <1>7, <1>8
  <2>2. N >= 1
    BY <1>1, <2>1
  <2> QED
    BY <1>7, <1>8, <2>1, <2>2
<1> QED
  BY <1>1, <1>3, <1>8

\* Where the pattern is behind an entry that it entered before the name.
ModeOf(x) ==
  IF x = <<>> THEN "before"
  ELSE IF x[1] = "=" THEN "nowhere"
  ELSE IF \A i \in 1 .. Len(x) : x[i] # "=" THEN "name"
  ELSE "value"
Modes == {"before", "name", "value", "nowhere"}

\* One more character of an entry is one more step of the pattern.
LEMMA ModeStep ==
  ASSUME NEW C, NEW x \in Seq(C), NEW d \in C, d # "&"
  PROVE  ModeOf(Append(x, d)) = Matched(ModeOf(x), d)
<1> DEFINE y == Append(x, d)
           N == Len(x)
<1>1. /\ N \in Nat /\ y # <<>> /\ Len(y) = N + 1
      /\ \A i \in 1 .. N : y[i] = x[i]
      /\ y[N + 1] = d
  BY AppendProperties
<1>2. x = <<>> <=> N = 0
  OBVIOUS
<1> HIDE DEF y, N
<1>3. CASE N = 0
  <2>1. y[1] = d /\ \A i \in 1 .. Len(y) : y[i] = d
    BY <1>1, <1>3
  <2>2. ModeOf(x) = "before"
    BY <1>2, <1>3 DEF ModeOf
  <2>3. 1 \in 1 .. Len(y)
    BY <1>1, <1>3
  <2>4. ModeOf(y) = IF d = "=" THEN "nowhere" ELSE "name"
    BY <1>1, <2>1, <2>3 DEF ModeOf
  <2> QED
    BY <2>2, <2>4 DEF Matched, y
<1>4. CASE N >= 1 /\ x[1] = "="
  <2>1. y[1] = "=" /\ ModeOf(x) = "nowhere"
    BY <1>1, <1>2, <1>4 DEF ModeOf
  <2> QED
    BY <1>1, <2>1 DEF ModeOf, Matched, y
<1>5. CASE N >= 1 /\ x[1] # "="
  <2>1. y[1] # "=" /\ x # <<>>
    BY <1>1, <1>2, <1>5
  <2>2. (\A i \in 1 .. Len(y) : y[i] # "=") <=> d # "=" /\ \A i \in 1 .. N : x[i] # "="
    <3>1. \A i : i \in 1 .. Len(y) <=> i \in 1 .. N \/ i = N + 1
      BY <1>1
    <3> QED
      BY <1>1, <3>1
  <2>3. ModeOf(x) = IF \A i \in 1 .. N : x[i] # "=" THEN "name" ELSE "value"
    BY <1>5, <2>1 DEF ModeOf, N
  <2>4. ModeOf(y) = IF \A i \in 1 .. Len(y) : y[i] # "=" THEN "name" ELSE "value"
    BY <1>1, <2>1 DEF ModeOf
  <2> QED
    BY <2>2, <2>3, <2>4 DEF Matched, y
<1> QED
  BY <1>1, <1>3, <1>4, <1>5

\* The recursive function of QueryMatches exists.
LEMMA ModesAre ==
  ASSUME NEW C, NEW q \in Seq(C)
  PROVE  \E M : /\ M[0] = "before"
                /\ \A n \in 0 .. Len(q) - 1 : M[n + 1] = Matched(M[n], q[n + 1])
                /\ QueryMatches(q) <=> M[Len(q)] = "value"
<1> DEFINE N == Len(q)
           step == [x \in (1 .. N) \X Modes |-> Matched(x[2], q[x[1]])]
           IsM(M) == M = [n \in 0 .. Len(q) |-> IF n = 0 THEN "before" ELSE Matched(M[n - 1], q[n])]
           V == CHOOSE M : IsM(M)
<1>1. N \in Nat /\ "before" \in Modes
  BY DEF Modes
<1>2. \A x : \A at \in Modes : Matched(at, x) \in Modes
  BY DEF Modes, Matched
<1>3. PICK f \in [0 .. N -> Modes] : IsRecursive(f, N, "before", step)
  <2>1. step \in [(1 .. N) \X Modes -> Modes]
    BY <1>2
  <2> HIDE DEF step
  <2> QED
    BY <1>1, <2>1, Recursion
<1>4. \A n \in 0 .. N : f[n] = IF n = 0 THEN "before" ELSE Matched(f[n - 1], q[n])
  <2>1. \A n \in 1 .. N, at \in Modes : step[<<n, at>>] = Matched(at, q[n])
    OBVIOUS
  <2>2. \A n \in 0 .. N : f[n] = IF n = 0 THEN "before" ELSE step[<<n, f[n - 1]>>]
    BY <1>3 DEF IsRecursive
  <2>3. \A n \in 0 .. N : n # 0 => n \in 1 .. N /\ f[n - 1] \in Modes
    <3>1. \A n \in 0 .. N : n # 0 => n \in 1 .. N /\ n - 1 \in 0 .. N
      BY <1>1
    <3> QED
      BY <3>1
  <2> HIDE DEF step
  <2> QED
    BY <2>1, <2>2, <2>3
<1>5. IsM(f)
  <2>1. f = [n \in 0 .. N |-> f[n]]
    OBVIOUS
  <2> QED
    BY <1>4, <2>1
<1>6. IsM(V)
  BY <1>5, Zenon
<1>7. QueryMatches(q) <=> V[N] = "value"
  BY Zenon DEF QueryMatches
<1> HIDE DEF V
<1>8. \A n \in 0 .. N : V[n] = IF n = 0 THEN "before" ELSE Matched(V[n - 1], q[n])
  BY <1>6
<1>9. V[0] = "before" /\ \A n \in 0 .. N - 1 : V[n + 1] = Matched(V[n], q[n + 1])
  BY <1>1, <1>8
<1> QED
  BY <1>7, <1>9

\* The pattern matches a query of names and values.
LEMMA MatchesAlways ==
  ASSUME NEW C, NEW q \in Seq(C), WellFormedQuery(q)
  PROVE  q # <<>> /\ QueryMatches(q)
<1> DEFINE N == Len(q)
<1>1. N \in Nat /\ N \in 0 .. N /\ \A n \in 1 .. N : q[n] \in C
  OBVIOUS
<1>2. PICK E : AreSplits(E, q, "&", C)
  BY SplitsAre
<1>3. /\ E[0] = << <<>> >> /\ Split(q, "&") = E[N]
      /\ \A n \in 0 .. N - 1 : E[n + 1] = SplitOn(E[n], q[n + 1], "&")
      /\ \A n \in 0 .. N : E[n] \in Splits(C)
  BY <1>2 DEF AreSplits
<1>4. PICK M : /\ M[0] = "before"
               /\ \A n \in 0 .. N - 1 : M[n + 1] = Matched(M[n], q[n + 1])
               /\ QueryMatches(q) <=> M[N] = "value"
  BY ModesAre
<1>5. \A i \in 1 .. Len(E[N]) : E[N][i] # <<>> /\ ModeOf(E[N][i]) = "value"
  <2> TAKE i \in 1 .. Len(E[N])
  <2> DEFINE x == E[N][i]
  <2>1. E[N] \in Seq(Seq(C))
    BY <1>1, <1>3 DEF Splits
  <2>2. x \in Seq(C) /\ i \in DOMAIN E[N]
    BY <2>1
  <2>3. Len(Split(x, "=")) = 2 /\ Split(x, "=")[1] # <<>>
    BY <1>3, <2>2, Zenon DEF WellFormedQuery
  <2> HIDE DEF x
  <2>4. x # <<>> /\ x[1] # "=" /\ \E k \in 1 .. Len(x) : x[k] = "="
    BY <2>2, <2>3, PairsAre
  <2> QED
    BY <2>4 DEF ModeOf, x
<1> DEFINE AllBefore(n) == \A i \in 1 .. Len(E[n]) - 1 : ModeOf(E[n][i]) = "value"
           Good(n) == AllBefore(n) => M[n] = ModeOf(E[n][Len(E[n])])
           T == {n \in 0 .. N : Good(n)}
<1>6. 0 \in T
  <2>1. Len(E[0]) = 1 /\ E[0][1] = <<>>
    BY <1>3
  <2>2. M[0] = ModeOf(E[0][Len(E[0])])
    BY <1>4, <2>1 DEF ModeOf
  <2> QED
    BY <1>1, <2>2
<1>7. ASSUME NEW n \in 0 .. N - 1, n \in T PROVE n + 1 \in T
  <2> DEFINE z == E[n]
             y == E[n + 1]
             d == q[n + 1]
  <2>1. n \in 0 .. N /\ n + 1 \in 0 .. N /\ n + 1 \in 1 .. N /\ d \in C
    BY <1>1
  <2>2. y = SplitOn(z, d, "&") /\ z \in Splits(C) /\ M[n + 1] = Matched(M[n], d)
    BY <1>3, <1>4, <2>1
  <2>3. (\A i \in 1 .. Len(z) - 1 : ModeOf(z[i]) = "value") => M[n] = ModeOf(z[Len(z)])
    BY <1>7
  <2>4. /\ Len(z) \in Nat \ {0} /\ z \in Seq(Seq(C))
        /\ d = "&" => /\ Len(y) = Len(z) + 1
                      /\ \A i \in 1 .. Len(z) : y[i] = z[i]
                      /\ y[Len(z) + 1] = <<>>
        /\ d # "&" => /\ Len(y) = Len(z)
                      /\ \A i \in 1 .. Len(z) - 1 : y[i] = z[i]
                      /\ y[Len(z)] = Append(z[Len(z)], d)
    <3>1. z \in Splits(C) /\ d \in C /\ y = SplitOn(z, d, "&")
      BY <2>1, <2>2
    <3> HIDE DEF z, y, d
    <3>2. Len(z) \in Nat \ {0} /\ z \in Seq(Seq(C))
      BY <3>1, SplitOne
    <3>3. d = "&" => /\ Len(y) = Len(z) + 1
                     /\ \A i \in 1 .. Len(z) : y[i] = z[i]
                     /\ y[Len(z) + 1] = <<>>
      BY <3>1, SplitOne
    <3>4. d # "&" => /\ Len(y) = Len(z)
                     /\ \A i \in 1 .. Len(z) - 1 : y[i] = z[i]
      BY <3>1, SplitOne
    <3>5. d # "&" => y[Len(z)] = Append(z[Len(z)], d)
      BY <3>1, SplitOne
    <3> QED
      BY <3>2, <3>3, <3>4, <3>5
  <2> HIDE DEF z, y, d
  <2>5. ASSUME \A i \in 1 .. Len(y) - 1 : ModeOf(y[i]) = "value"
        PROVE  M[n + 1] = ModeOf(y[Len(y)])
    <3>1. CASE d = "&"
      <4>1. Len(y) = Len(z) + 1 /\ (\A i \in 1 .. Len(z) : y[i] = z[i]) /\ y[Len(z) + 1] = <<>>
        BY <2>4, <3>1
      <4>2. \A i \in 1 .. Len(z) : ModeOf(z[i]) = "value"
        BY <2>4, <2>5, <4>1
      <4>3. Len(z) \in 1 .. Len(z) /\ \A i \in 1 .. Len(z) - 1 : i \in 1 .. Len(z)
        BY <2>4
      <4>4. M[n] = "value"
        BY <2>3, <4>2, <4>3
      <4>5. M[n + 1] = "before"
        BY <2>2, <3>1, <4>4 DEF Matched
      <4>6. ModeOf(y[Len(y)]) = "before"
        BY <4>1 DEF ModeOf
      <4> QED
        BY <4>5, <4>6
    <3>2. CASE d # "&"
      <4>1. /\ Len(y) = Len(z) /\ y[Len(z)] = Append(z[Len(z)], d)
            /\ \A i \in 1 .. Len(z) - 1 : y[i] = z[i]
        BY <2>4, <3>2
      <4>2. M[n] = ModeOf(z[Len(z)])
        BY <2>3, <2>5, <4>1
      <4>3. z[Len(z)] \in Seq(C)
        BY <2>4
      <4>4. ModeOf(Append(z[Len(z)], d)) = Matched(ModeOf(z[Len(z)]), d)
        BY <2>1, <3>2, <4>3, ModeStep DEF d
      <4> QED
        BY <2>2, <4>1, <4>2, <4>4
    <3> QED
      BY <3>1, <3>2
  <2>6. Good(n + 1)
    BY <2>5 DEF y
  <2> QED
    BY <2>1, <2>6
<1> HIDE DEF T
<1>8. 0 .. N \subseteq T
  BY <1>1, <1>6, <1>7, Induction
<1>9. Good(N)
  BY <1>1, <1>8 DEF T
<1>10. Len(E[N]) \in Nat \ {0}
  <2>1. E[N] \in Seq(Seq(C)) /\ E[N] # <<>>
    BY <1>1, <1>3 DEF Splits
  <2> QED
    BY <2>1
<1>11. Len(E[N]) \in 1 .. Len(E[N]) /\ \A i \in 1 .. Len(E[N]) - 1 : i \in 1 .. Len(E[N])
  BY <1>10
<1>12. M[N] = "value"
  BY <1>5, <1>9, <1>11
<1>13. q # <<>>
  <2> SUFFICES ASSUME q = <<>> PROVE FALSE
    OBVIOUS
  <2>1. E[N] = << <<>> >>
    BY <1>3
  <2>2. E[N][1] = <<>> /\ 1 \in 1 .. Len(E[N])
    BY <2>1
  <2> QED
    BY <1>5, <2>2
<1> QED
  BY <1>4, <1>12, <1>13

\* Entry n taken apart, and what the entries up to k give: each name its first value.
PairOf(F, n) == Split(F[n], "=")
IsFirst(F, n) == \A m \in 1 .. n - 1 : PairOf(F, m)[1] # PairOf(F, n)[1]
ValueOf(F, n) == [name |-> PairOf(F, n)[1], value |-> PairOf(F, n)[2]]
Earliest(F, k) == {ValueOf(F, n) : n \in {m \in 1 .. k : IsFirst(F, m)}}

\* One more entry adds its value if no entry before it has its name.
LEMMA OneMore ==
  ASSUME NEW F, NEW k \in Nat
  PROVE  Emplaced(Earliest(F, k), PairOf(F, k + 1)[1], PairOf(F, k + 1)[2]) = Earliest(F, k + 1)
<1> DEFINE a == PairOf(F, k + 1)[1]
           new == ValueOf(F, k + 1)
           P == Earliest(F, k)
<1>1. /\ k + 1 \in 1 .. k + 1 /\ (k + 1) - 1 = k
      /\ \A n : n \in 1 .. k + 1 <=> n \in 1 .. k \/ n = k + 1
  OBVIOUS
<1>2. IsFirst(F, k + 1) <=> \A m \in 1 .. k : PairOf(F, m)[1] # a
  BY <1>1 DEF IsFirst
<1>3. \A n : ValueOf(F, n).name = PairOf(F, n)[1]
  BY DEF ValueOf
<1>4. CASE \E p \in P : p.name = a
  <2>1. PICK n \in 1 .. k : ValueOf(F, n).name = a
    BY <1>4 DEF Earliest
  <2>2. ~IsFirst(F, k + 1)
    BY <1>2, <1>3, <2>1
  <2>3. \A i : i \in {m \in 1 .. k + 1 : IsFirst(F, m)} <=> i \in {m \in 1 .. k : IsFirst(F, m)}
    BY <1>1, <2>2
  <2>4. Earliest(F, k + 1) = P
    BY <2>3 DEF Earliest
  <2> QED
    BY <1>4, <2>4 DEF Emplaced
<1>5. CASE ~\E p \in P : p.name = a
  <2>1. IsFirst(F, k + 1)
    <3> SUFFICES ASSUME ~IsFirst(F, k + 1) PROVE FALSE
      OBVIOUS
    <3> DEFINE Same == {m \in 1 .. k : PairOf(F, m)[1] = a}
    <3>1. Same \subseteq Nat /\ Same # {}
      BY <1>2
    <3> HIDE DEF Same
    <3>2. PICK m \in Same : \A n \in Same : m <= n
      BY <3>1, Least
    <3>3. m \in 1 .. k /\ PairOf(F, m)[1] = a
      BY <3>2 DEF Same
    <3>4. \A n \in 1 .. m - 1 : n \in 1 .. k /\ ~ (m <= n)
      BY <3>3
    <3>5. \A n \in 1 .. m - 1 : n \notin Same
      BY <3>2, <3>4
    <3>6. IsFirst(F, m)
      BY <3>3, <3>4, <3>5 DEF IsFirst, Same
    <3>7. ValueOf(F, m) \in P
      BY <3>3, <3>6 DEF Earliest
    <3> QED
      BY <1>3, <1>5, <3>3, <3>7
  <2>2. \A n : n \in {m \in 1 .. k + 1 : IsFirst(F, m)}
                 <=> n \in {m \in 1 .. k : IsFirst(F, m)} \/ n = k + 1
    BY <1>1, <2>1
  <2>3. Earliest(F, k + 1) = P \cup {new}
    BY <2>2 DEF Earliest
  <2>4. new = [name |-> a, value |-> PairOf(F, k + 1)[2]]
    BY DEF ValueOf
  <2> QED
    BY <1>5, <2>3, <2>4 DEF Emplaced
<1> QED
  BY <1>4, <1>5

\* The entries enter each name with its first value.
LEMMA EntriesAre ==
  ASSUME NEW C, NEW F \in Seq(Seq(C)), \A n \in 1 .. Len(F) : Len(PairOf(F, n)) = 2
  PROVE  AddEntries(F) = Earliest(F, Len(F))
<1> DEFINE N == Len(F)
           R == [name : Seq(C), value : Seq(C)]
           S == SUBSET R
           step == [x \in (1 .. N) \X S |-> AddEntry(x[2], F[x[1]])]
           IsP(P) == P = [n \in 0 .. Len(F) |-> IF n = 0 THEN {} ELSE AddEntry(P[n - 1], F[n])]
           V == CHOOSE P : IsP(P)
<1>1. N \in Nat /\ {} \in S /\ \A n \in 1 .. N : F[n] \in Seq(C)
  OBVIOUS
<1>2. \A params : \A n \in 1 .. N :
        AddEntry(params, F[n]) = Emplaced(params, PairOf(F, n)[1], PairOf(F, n)[2])
  BY DEF AddEntry, PairOf
<1>3. ASSUME NEW n \in 1 .. N, NEW params \in S PROVE AddEntry(params, F[n]) \in S
  <2>1. PairOf(F, n) \in Splits(C)
    BY <1>1, PairsAre DEF PairOf
  <2>2. PairOf(F, n) \in Seq(Seq(C))
    BY <2>1 DEF Splits
  <2>3. Len(PairOf(F, n)) = 2
    OBVIOUS
  <2>4. PairOf(F, n)[1] \in Seq(C) /\ PairOf(F, n)[2] \in Seq(C)
    <3> DEFINE pair == PairOf(F, n)
               D == Seq(C)
    <3>1. pair \in Seq(D) /\ Len(pair) = 2
      BY <2>2, <2>3
    <3> HIDE DEF pair, D
    <3>2. 1 \in 1 .. Len(pair) /\ 2 \in 1 .. Len(pair)
      BY <3>1
    <3>3. pair[1] \in D /\ pair[2] \in D
      BY <3>1, <3>2, ElementOfSeq, Zenon
    <3> QED
      BY <3>3 DEF pair, D
  <2>5. [name |-> PairOf(F, n)[1], value |-> PairOf(F, n)[2]] \in R
    BY <2>4
  <2>6. Emplaced(params, PairOf(F, n)[1], PairOf(F, n)[2]) \in S
    BY <2>5 DEF Emplaced
  <2> QED
    BY <1>2, <2>6
<1> HIDE DEF S
<1>4. PICK f \in [0 .. N -> S] : IsRecursive(f, N, {}, step)
  <2>1. step \in [(1 .. N) \X S -> S]
    BY <1>3
  <2> HIDE DEF step
  <2> QED
    BY <1>1, <2>1, Recursion
<1>5. \A n \in 0 .. N : f[n] = IF n = 0 THEN {} ELSE AddEntry(f[n - 1], F[n])
  <2>1. \A n \in 1 .. N, params \in S : step[<<n, params>>] = AddEntry(params, F[n])
    OBVIOUS
  <2>2. \A n \in 0 .. N : f[n] = IF n = 0 THEN {} ELSE step[<<n, f[n - 1]>>]
    BY <1>4 DEF IsRecursive
  <2>3. \A n \in 0 .. N : n # 0 => n \in 1 .. N /\ f[n - 1] \in S
    <3>1. \A n \in 0 .. N : n # 0 => n \in 1 .. N /\ n - 1 \in 0 .. N
      BY <1>1
    <3> QED
      BY <3>1
  <2> HIDE DEF step
  <2> QED
    BY <2>1, <2>2, <2>3
<1>6. IsP(f)
  <2>1. f = [n \in 0 .. N |-> f[n]]
    OBVIOUS
  <2> QED
    BY <1>5, <2>1
<1>7. IsP(V)
  BY <1>6, Zenon
<1>8. AddEntries(F) = V[N]
  BY Zenon DEF AddEntries
<1> HIDE DEF V
<1>9. \A n \in 0 .. N : V[n] = IF n = 0 THEN {} ELSE AddEntry(V[n - 1], F[n])
  BY <1>7
<1> DEFINE T == {n \in 0 .. N : V[n] = Earliest(F, n)}
<1>10. 0 \in T
  BY <1>1, <1>9 DEF Earliest
<1>11. ASSUME NEW n \in 0 .. N - 1, n \in T PROVE n + 1 \in T
  <2>1. n \in Nat /\ n + 1 \in 0 .. N /\ n + 1 \in 1 .. N /\ n + 1 # 0 /\ (n + 1) - 1 = n
    BY <1>1
  <2>2. V[n + 1] = AddEntry(Earliest(F, n), F[n + 1])
    BY <1>9, <1>11, <2>1
  <2>3. V[n + 1] = Emplaced(Earliest(F, n), PairOf(F, n + 1)[1], PairOf(F, n + 1)[2])
    BY <1>2, <2>1, <2>2
  <2>4. V[n + 1] = Earliest(F, n + 1)
    BY <2>1, <2>3, OneMore
  <2> QED
    BY <2>1, <2>4
<1> HIDE DEF T
<1>12. 0 .. N \subseteq T
  BY <1>1, <1>10, <1>11, Induction
<1> QED
  BY <1>1, <1>8, <1>12 DEF T

\* A query of names and values gives each name its first value.
LEMMA QueryAlways ==
  ASSUME NEW C, NEW q \in Seq(C), WellFormedQuery(q)
  PROVE  ParseQuery(q) = [accepted |-> TRUE, params |-> FirstValues(q)]
<1> DEFINE F == Split(q, "&")
           N == Len(F)
<1>1. F \in Seq(Seq(C))
  <2>1. PICK E : AreSplits(E, q, "&", C)
    BY SplitsAre
  <2>2. F = E[Len(q)] /\ Len(q) \in 0 .. Len(q) /\ E \in [0 .. Len(q) -> Splits(C)]
    BY <2>1 DEF AreSplits
  <2> HIDE DEF F
  <2>3. F \in Splits(C)
    BY <2>2
  <2> QED
    BY <2>3 DEF Splits
<1>2. \A n \in DOMAIN F : Len(PairOf(F, n)) = 2
  BY DEF WellFormedQuery, PairOf
<1> HIDE DEF F
<1>3. N \in Nat /\ DOMAIN F = 1 .. N
  BY <1>1
<1>4. AddEntries(F) = Earliest(F, N)
  BY <1>1, <1>2, <1>3, EntriesAre
<1>5. FirstValues(q) = Earliest(F, N)
  <2> DEFINE pairs == [n \in DOMAIN F |-> Split(F[n], "=")]
             first(n) == \A m \in 1 .. n - 1 : pairs[m][1] # pairs[n][1]
  <2>1. \A n \in 1 .. N : pairs[n] = PairOf(F, n)
    BY <1>3 DEF PairOf
  <2>2. FirstValues(q) = {[name |-> pairs[n][1], value |-> pairs[n][2]] : n \in {k \in DOMAIN pairs : first(k)}}
    BY DEF FirstValues, F
  <2>3. DOMAIN pairs = 1 .. N
    BY <1>3
  <2> HIDE DEF pairs
  <2>4. \A n \in 1 .. N : \A m \in 1 .. n - 1 : m \in 1 .. N
    BY <1>3
  <2>5. \A n \in 1 .. N : first(n) <=> IsFirst(F, n)
    BY <2>1, <2>4 DEF IsFirst
  <2>6. \A n \in 1 .. N : [name |-> pairs[n][1], value |-> pairs[n][2]] = ValueOf(F, n)
    BY <2>1 DEF ValueOf
  <2> HIDE DEF first
  <2> QED
    BY <2>2, <2>3, <2>5, <2>6 DEF Earliest
<1>6. q # <<>> /\ QueryMatches(q)
  BY MatchesAlways
<1> QED
  BY <1>4, <1>5, <1>6 DEF ParseQuery, F

-----------------------------------------------------------------------------
(* Every input *)

\* The characters that the texts grow by.
Texted == ToSet(Root) \cup UNION {Characters[p] : p \in DOMAIN Characters}

\* The inductive invariant: the inputs are what the parts are defined for, and an address
\* still has a protocol and a port, so that its next path may bring it back from an url
\* that does not mean it (HostAddress::Path).
InputsInv ==
  /\ data \in Seq(Byte) /\ Len(data) >= 2
  /\ IsAddress(address) /\ UrlMeansAddress
  /\ text \in Seq(Texted)
  /\ DOMAIN doc = Fields /\ doc.ssl_type.low \in Int
  /\ delays \in Seq(Nat)

\* The first inputs have the invariant.
LEMMA InputsInvInit == InputsInit => InputsInv
<1> SUFFICES ASSUME InputsInit PROVE InputsInv
  OBVIOUS
<1>1. data \in Seq(Byte) /\ Len(data) >= 2
  <2>1. CASE part = "data"
    <3>1. data \in [1 .. 2 -> Bytes]
      BY <2>1 DEF InputsInit
    <3> QED
      BY <3>1, BytesAssumption
  <2>2. CASE part # "data"
    <3>1. data = <<0, 0>> /\ 0 \in Byte
      BY <2>2 DEF InputsInit, Byte
    <3> QED
      BY <3>1
  <2> QED
    BY <2>1, <2>2
<1>2. IsAddress(address) /\ UrlMeansAddress
  <2>1. (CHOOSE t \in Addresses : TRUE) \in Addresses
    BY AddressAssumption, Zenon
  <2>2. \E t \in Addresses : address = Parse(t)
    <3>1. CASE part = "address"
      BY <3>1 DEF InputsInit
    <3>2. CASE part # "address"
      <4>1. address = Some
        BY <3>2 DEF InputsInit
      <4> QED
        BY <2>1, <4>1, Zenon DEF Some
    <3> QED
      BY <3>1, <3>2
  <2>3. PICK t \in Addresses : address = Parse(t)
    BY <2>2
  <2>4. Parses(t)
    BY DEF Addresses
  <2> QED
    BY <2>3, <2>4, ParseIs, Zenon DEF UrlMeansAddress
<1>3. text \in Seq(Texted)
  <2>1. text \in {Root, <<>>}
    BY DEF InputsInit
  <2>2. Root \in Seq(Texted)
    BY DEF Root, Texted, ToSet
  <2>3. <<>> \in Seq(Texted)
    OBVIOUS
  <2> QED
    BY <2>1, <2>2, <2>3, Zenon
<1>4. DOMAIN doc = Fields /\ doc.ssl_type.low \in Int
  <2>1. doc = Working
    BY DEF InputsInit
  <2>2. Working.ssl_type.low \in Int
    BY DocAssumption
  <2> QED
    BY <2>1, <2>2 DEF Fields
<1>5. delays \in Seq(Nat)
  BY DEF InputsInit
<1> QED
  BY <1>1, <1>2, <1>3, <1>4, <1>5 DEF InputsInv

\* Every step keeps it.
LEMMA InputsInvStep == InputsInv /\ [InputsNext]_<<part, inputs, vars>> => InputsInv'
<1> SUFFICES ASSUME InputsInv, [InputsNext]_<<part, inputs, vars>> PROVE InputsInv'
  OBVIOUS
<1> USE DEF InputsInv
<1>1. CASE Grow
  <2>1. PICK b \in Bytes : data' = Append(data, b)
    BY <1>1 DEF Grow
  <2>2. b \in Byte
    BY BytesAssumption
  <2>3. data' \in Seq(Byte) /\ Len(data') >= 2
    BY <2>1, <2>2
  <2> QED
    BY <1>1, <2>3 DEF Grow, UrlMeansAddress
<1>2. CASE UrlPath
  <2>1. PICK p \in Paths : address' = SetPath(address, p)
    BY <1>2 DEF UrlPath
  <2>2. p \in Seq(STRING)
    BY AddressAssumption
  <2> DEFINE b == SetPath(address, p)
  <2>3. IsAddress(b) /\ b.path = p /\ (Rooted(p) => Parses(b.url) /\ Parse(b.url) = b)
    BY <2>2, PathReplaced, Zenon
  <2>4. Parses(b.url) /\ Parse(b.url) = b => Rooted(b.path)
    <3>1. ASSUME Parses(b.url), Parse(b.url) = b PROVE Rooted(b.path)
      <4>1. Rooted(Parse(b.url).path)
        BY <3>1, ParseIs, Zenon
      <4> QED
        BY <3>1, <4>1, Zenon
    <3> QED
      BY <3>1
  <2> HIDE DEF b
  <2>5. (IsAddress(address) /\ UrlMeansAddress)'
    <3>1. address' = b
      BY <2>1 DEF b
    <3> QED
      BY <2>3, <2>4, <3>1, Zenon DEF UrlMeansAddress
  <2> QED
    BY <1>2, <2>5 DEF UrlPath
<1>3. CASE Lengthen
  <2>1. PICK c \in Characters[part] : text' = Append(text, c)
    BY <1>3 DEF Lengthen
  <2>2. c \in Texted
    BY <1>3 DEF Lengthen, Texted
  <2>3. text' \in Seq(Texted)
    BY <2>1, <2>2
  <2> QED
    BY <1>3, <2>3 DEF Lengthen, UrlMeansAddress
<1>4. CASE Edit
  <2>1. PICK f \in Fields : \E v \in Values[f] : doc' = [doc EXCEPT ![f] = v]
    BY <1>4 DEF Edit
  <2>2. PICK v \in Values[f] : doc' = [doc EXCEPT ![f] = v]
    BY <2>1
  <2>3. DOMAIN doc' = Fields
    BY <2>2
  <2>4. doc'.ssl_type.low \in Int
    <3>1. CASE f = "ssl_type"
      <4>1. v.low \in Int /\ doc'.ssl_type = v
        BY <2>2, <3>1, DocAssumption
      <4> QED
        BY <4>1
    <3>2. CASE f # "ssl_type"
      <4>1. doc'.ssl_type = doc.ssl_type
        BY <2>2, <3>2, DocAssumption
      <4> QED
        BY <4>1
    <3> QED
      BY <3>1, <3>2
  <2> QED
    BY <1>4, <2>3, <2>4 DEF Edit, UrlMeansAddress
<1>5. CASE Delay
  <2>1. PICK d \in Delays : delays' = Append(delays, d)
    BY <1>5 DEF Delay
  <2>2. delays' \in Seq(Nat)
    BY <2>1, ScheduleAssumption
  <2> QED
    BY <1>5, <2>2 DEF Delay, UrlMeansAddress
<1>6. CASE Timed
  BY <1>6 DEF Timed, inputs, UrlMeansAddress
<1>7. CASE UNCHANGED <<part, inputs, vars>>
  BY <1>7 DEF inputs, UrlMeansAddress
<1> QED
  BY <1>1, <1>2, <1>3, <1>4, <1>5, <1>6, <1>7 DEF InputsNext

\* The inputs have the invariant, whatever the bounds.
THEOREM InputsStay == InputsSpec => []InputsInv
BY InputsInvInit, InputsInvStep, PTL DEF InputsSpec

\* The url of an address means that address exactly if its path begins with "/",
\* however often it was replaced (HostAddress::Parse and Path).
THEOREM UrlsMeanAddresses == InputsSpec => []UrlMeansAddress
<1>1. InputsInv => UrlMeansAddress
  BY DEF InputsInv
<1> QED
  BY <1>1, InputsStay, PTL

\* The two parsers agree on every text, accepted or not (Url::Parse, HostAddress::Parse).
THEOREM ParsersDoAgree == InputsSpec => []ParsersAgree
<1>1. InputsInv => ParsersAgree
  BY ParsersAgreeAlways, Zenon DEF ParsersAgree
<1> QED
  BY <1>1, InputsStay, PTL

\* All data is encoded by the standard and decoded again (Base64).
THEOREM DataAsStandard == InputsSpec => []Base64AsStandard
<1>1. InputsInv => Base64AsStandard
  <2> SUFFICES ASSUME InputsInv PROVE Base64AsStandard
    OBVIOUS
  <2>1. data \in Seq(Byte) /\ Len(data) >= 2 /\ Len(data) >= 1
    BY DEF InputsInv
  <2>2. Encode(data) = Standard(data) /\ Decode(Standard(data)) = data
    BY <2>1, EncodeAlways, DecodeAlways, Zenon
  <2> QED
    BY <2>2, Zenon DEF Base64AsStandard
<1> QED
  BY <1>1, InputsStay, PTL

\* Every target is taken apart in one way, the standard's (Url::ParseTarget).
THEOREM TargetsAsStandard == InputsSpec => []TargetAsStandard
<1>1. InputsInv => TargetAsStandard
  BY TargetAlways, Zenon DEF InputsInv, TargetAsStandard
<1> QED
  BY <1>1, InputsStay, PTL

\* Every query of names and values is accepted, and gives each name its first value
\* (Url::ParseQuery).
THEOREM QueriesAsStandard == InputsSpec => []QueryAsStandard
<1>1. InputsInv => QueryAsStandard
  BY QueryAlways, Zenon DEF InputsInv, QueryAsStandard
<1> QED
  BY <1>1, InputsStay, PTL

\* Every text that is escaped is read for what it means, every other refused
\* (Url::Unescape).
THEOREM EscapesAsStandard == InputsSpec => []UnescapeAsStandard
<1>1. InputsInv => UnescapeAsStandard
  BY UnescapeAlways, Zenon DEF InputsInv, UnescapeAsStandard
<1> QED
  BY <1>1, InputsStay, PTL

\* Whatever is edited in a configuration, a program that starts can run with it (the
\* Validate functions).
THEOREM StartsAreUsable == InputsSpec => []StartsUsable
<1>1. InputsInv => StartsUsable
  BY StartsAlways, Zenon DEF InputsInv, StartsUsable
<1> QED
  BY <1>1, InputsStay, PTL

\* Whatever is edited in a configuration, the TLS context is what it says (Base::Init).
THEOREM ContextsAsConfigured == InputsSpec => []ContextAsConfigured
<1>1. ContextAsConfigured
  <2>1. Starts(doc) => ~Context(doc).failed
    BY Zenon DEF Starts
  <2>2. Given = {f \in ToSet(KeyTexts) : doc[f] # ""}
    BY DEF Given
  <2>3. /\ ~Context(doc).failed => Context(doc).loaded = {f \in ToSet(KeyTexts) : doc[f] # ""}
        /\ /\ doc.certificate_authority # ""
           /\ \A f \in ToSet(KeyTexts) :
                doc[f] = "" \/ doc[f] = "pem" \/ (doc[f] = "locked" /\ doc.password = "secret")
           => ~Context(doc).failed
    BY ContextAlways, Zenon
  <2>4. (\A f \in Given : Usable(f)) =>
          \A f \in ToSet(KeyTexts) :
            doc[f] = "" \/ doc[f] = "pem" \/ (doc[f] = "locked" /\ doc.password = "secret")
    BY <2>2, Zenon DEF Usable
  <2> QED
    BY <2>1, <2>2, <2>3, <2>4, Zenon DEF ContextAsConfigured
<1> QED
  BY <1>1, PTL

\* However long its handlers run, a timer keeps to its policy (SetExpireTime, PutTimer).
THEOREM SchedulesAsDefined == InputsSpec => []ScheduleAsDefined
<1>1. InputsInv => ScheduleAsDefined
  <2> SUFFICES ASSUME InputsInv, NEW k \in 1 .. Len(delays)
               PROVE  /\ \A origin \in Origins :
                           EndsAtPoint(delays, origin, Interval)[k]
                           = ByPoints(delays, origin, Interval, k)
                      /\ EndsAfter(delays, Interval)[k] = ByIntervals(delays, Interval, k)
    BY DEF ScheduleAsDefined
  <2>1. delays \in Seq(Nat) /\ Interval \in Nat /\ \A origin \in Origins : origin \in Nat
    BY ScheduleAssumption DEF InputsInv
  <2> QED
    BY <2>1, ByPointsAlways, ByIntervalsAlways, Zenon
<1> QED
  BY <1>1, InputsStay, PTL
=============================================================================
