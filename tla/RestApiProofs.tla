--------------------------- MODULE RestApiProofs ----------------------------
(***************************************************************************)
(* Proofs about RestApi for any number of calls: types, what the first     *)
(* request of an object carries, and what a signed request carries on a    *)
(* handle with any history.                                                *)
(***************************************************************************)
EXTENDS RestApi, TLAPS

\* The options of an object nobody has called yet are libcurl's own.
FreshIsDefault == object = "fresh" => curl = FreshCurl

Inv == TypeOK /\ FreshIsDefault /\ FirstAsAsked /\ OwnSignature

\* What the six calls come to: one order with a body, one PUT, the rest GET.
LEMMA CallTable ==
  ASSUME NEW a \in Apis
  PROVE  /\ a = "PutLimitOrder" => Action(a) = "POST" /\ \A n : PostData(a, n) = n
         /\ a = "CancelOrder" => Action(a) = "PUT" /\ \A n : PostData(a, n) = 0
         /\ a \notin {"PutLimitOrder", "CancelOrder"} =>
              Action(a) = "GET" /\ \A n : PostData(a, n) = 0
BY DEF Apis, Action, PostData, Call, GetAllCoins, GetAllSymbols24hr, GetAccount, QueryOrder,
       PutLimitOrder, CancelOrder

\* A header belongs to the type of headers, whatever the call.
LEMMA HeaderType ==
  ASSUME NEW a \in Apis, NEW n \in 0 .. MaxCalls
  PROVE  /\ Header(a, n) \in Headers
         /\ PostData(a, n) \in 0 .. MaxCalls
         /\ Action(a) \in {"GET", "POST", "PUT"}
<1>1. Action(a) \in {"GET", "POST", "PUT"} /\ PostData(a, n) \in 0 .. MaxCalls
  BY BoundAssumption, CallTable
<1> QED BY <1>1 DEF Header, Headers

\* Default options are well typed.
LEMMA DefaultType ==
  FreshCurl \in [custom : {"none", "PUT", "DELETE"},
                 fields : [owner : 0 .. MaxCalls, text : 0 .. MaxCalls],
                 header : Headers]
BY BoundAssumption DEF FreshCurl, NoFields, NoHeader, Headers

\* What is sent from well typed options is well typed.
LEMMA SentType ==
  ASSUME NEW c \in [custom : {"none", "PUT", "DELETE"},
                    fields : [owner : 0 .. MaxCalls, text : 0 .. MaxCalls],
                    header : Headers],
         NEW n \in 0 .. MaxCalls, NEW r \in Sent(c, n)
  PROVE  r \in [action : {"GET", "POST", "PUT", "DELETE"}, body : Bytes, header : Headers]
<1>1. MethodOf(c) \in {"GET", "POST", "PUT", "DELETE"}
  BY DEF MethodOf
<1>2. FieldsRead(c, n) \subseteq Bytes
  BY BoundAssumption DEF FieldsRead, Bytes
<1> QED BY <1>1, <1>2 DEF Sent

\* The initial state satisfies the invariant.
LEMMA InvInit == Init => Inv
<1> SUFFICES ASSUME Init PROVE Inv
  OBVIOUS
<1>1. request \in [action : {"GET", "POST", "PUT", "DELETE"}, body : Bytes, header : Headers]
  BY DefaultType, SentType, BoundAssumption DEF Init
<1>2. keys \in BOOLEAN /\ easy \in BOOLEAN
  BY DEF Init
<1>3. TypeOK
  BY <1>1, <1>2, DefaultType, BoundAssumption DEF Init, TypeOK
<1> QED BY <1>3 DEF Init, Inv, FreshIsDefault, FirstAsAsked, OwnSignature

\* The options a call leaves on the handle are well typed.
LEMMA OptionsType ==
  ASSUME TypeOK, NEW a \in Apis, NEW n \in 0 .. MaxCalls
  PROVE  [custom |-> CustomRequest(a), fields |-> PostFields(a, n), header |-> HttpHeader(a, n)]
           \in [custom : {"none", "PUT", "DELETE"},
                fields : [owner : 0 .. MaxCalls, text : 0 .. MaxCalls],
                header : Headers]
<1>1. CustomRequest(a) \in {"none", "PUT", "DELETE"}
  BY HeaderType DEF TypeOK, CustomRequest
<1>2. PostFields(a, n) \in [owner : 0 .. MaxCalls, text : 0 .. MaxCalls]
  BY HeaderType DEF TypeOK, PostFields
<1>3. HttpHeader(a, n) \in Headers
  BY HeaderType DEF TypeOK, HttpHeader
<1> QED BY <1>1, <1>2, <1>3

\* A request on default options is the one asked for.
LEMMA DefaultSends ==
  ASSUME curl = FreshCurl, NEW a \in Apis, NEW n \in Nat \ {0},
         NEW r \in Sent([custom |-> CustomRequest(a), fields |-> PostFields(a, n),
                         header |-> HttpHeader(a, n)], n)
  PROVE  r = Asked(a, n)
<1> DEFINE c == [custom |-> CustomRequest(a), fields |-> PostFields(a, n),
                 header |-> HttpHeader(a, n)]
<1>1. c.header = Asked(a, n).header
  BY DEF HttpHeader, Asked, FreshCurl
<1>2. CASE a = "PutLimitOrder"
  <2>1. Action(a) = "POST" /\ PostData(a, n) = n
    BY <1>2, CallTable
  <2>2. c.custom = "none" /\ c.fields = [owner |-> n, text |-> n] /\ c.fields # NoFields
    BY <2>1 DEF CustomRequest, PostFields, FreshCurl, NoFields
  <2>3. MethodOf(c) = "POST" /\ FieldsRead(c, n) = {n}
    BY <2>2 DEF MethodOf, FieldsRead
  <2> QED BY <1>1, <2>1, <2>3 DEF Sent, Asked
<1>3. CASE a = "CancelOrder"
  <2>1. Action(a) = "PUT" /\ PostData(a, n) = 0
    BY <1>3, CallTable
  <2>2. c.custom = "PUT" /\ c.fields = [owner |-> n, text |-> 0] /\ c.fields # NoFields
    BY <2>1 DEF CustomRequest, PostFields, FreshCurl, NoFields
  <2>3. MethodOf(c) = "PUT" /\ FieldsRead(c, n) = {0}
    BY <2>2 DEF MethodOf, FieldsRead
  <2> QED BY <1>1, <2>1, <2>3 DEF Sent, Asked
<1>4. CASE a \notin {"PutLimitOrder", "CancelOrder"}
  <2>1. Action(a) = "GET" /\ PostData(a, n) = 0
    BY <1>4, CallTable
  <2>2. c.custom = "none" /\ c.fields = NoFields
    BY <2>1 DEF CustomRequest, PostFields, FreshCurl
  <2>3. MethodOf(c) = "GET" /\ FieldsRead(c, n) = {0}
    BY <2>2 DEF MethodOf, FieldsRead
  <2> QED BY <1>1, <2>1, <2>3 DEF Sent, Asked
<1> QED BY <1>2, <1>3, <1>4

\* A signed call sends its own header, and its own body if it has one.
LEMMA SignedSends ==
  ASSUME NEW a \in Apis, Signed(a), NEW n \in Nat \ {0},
         NEW r \in Sent([custom |-> CustomRequest(a), fields |-> PostFields(a, n),
                         header |-> HttpHeader(a, n)], n)
  PROVE  /\ r.header = Header(a, n)
         /\ PostData(a, n) # 0 => r.body = r.header.body
<1> DEFINE c == [custom |-> CustomRequest(a), fields |-> PostFields(a, n),
                 header |-> HttpHeader(a, n)]
<1>1. r.header = Header(a, n)
  BY DEF Sent, HttpHeader
<1>2. ASSUME PostData(a, n) # 0 PROVE r.body = PostData(a, n)
  <2>1. c.fields = [owner |-> n, text |-> PostData(a, n)] /\ c.fields # NoFields
    BY <1>2 DEF PostFields, NoFields
  <2>2. FieldsRead(c, n) = {PostData(a, n)}
    BY <2>1 DEF FieldsRead
  <2> QED BY <2>2 DEF Sent
<1> QED BY <1>1, <1>2 DEF Header

\* Every step preserves the invariant.
LEMMA InvStep == Inv /\ [Next]_vars => Inv'
<1> SUFFICES ASSUME Inv, [Next]_vars PROVE Inv'
  OBVIOUS
<1> USE DEF Inv
<1>1. CASE Construct
  <2>1. TypeOK'
    BY <1>1, DefaultType DEF Construct, TypeOK
  <2> QED BY <1>1, <2>1 DEF Construct, FreshIsDefault, FirstAsAsked, OwnSignature
<1>2. CASE Destroy \/ NewJson
  <2>1. TypeOK'
    BY <1>2, BoundAssumption DEF Destroy, NewJson, TypeOK
  <2> QED BY <1>2, <2>1 DEF Destroy, NewJson, FreshIsDefault, FirstAsAsked, OwnSignature
<1>3. ASSUME NEW a \in Apis, Refused(a) \/ NothingSent(a) PROVE Inv'
  <2>1. api' = "none" /\ calls' \in 0 .. MaxCalls
    BY <1>3, BoundAssumption DEF Refused, NothingSent, Called, TypeOK
  <2>2. TypeOK'
    <3>1. CASE Refused(a)
      BY <3>1, <2>1 DEF Refused, TypeOK
    <3>2. CASE NothingSent(a)
      BY <3>2, <2>1 DEF NothingSent, Cleared, TypeOK
    <3> QED BY <1>3, <3>1, <3>2
  <2> QED BY <1>3, <2>1, <2>2 DEF Refused, NothingSent, FreshIsDefault, FirstAsAsked, OwnSignature
<1>4. ASSUME NEW a \in Apis, Perform(a) PROVE Inv'
  <2>1. calls' \in 0 .. MaxCalls /\ calls' \in Nat \ {0}
    BY <1>4, BoundAssumption DEF Perform, Called, TypeOK
  <2>2. curl' = [custom |-> CustomRequest(a), fields |-> PostFields(a, calls'),
                 header |-> HttpHeader(a, calls')] /\ request' \in Sent(curl', calls') /\ api' = a
    BY <1>4 DEF Perform
  <2>3. TypeOK'
    <3>1. curl' \in [custom : {"none", "PUT", "DELETE"},
                     fields : [owner : 0 .. MaxCalls, text : 0 .. MaxCalls],
                     header : Headers]
      BY <2>1, <2>2, OptionsType
    <3>2. request' \in [action : {"GET", "POST", "PUT", "DELETE"}, body : Bytes, header : Headers]
      BY <2>1, <2>2, <3>1, SentType
    <3> QED BY <1>4, <2>1, <3>1, <3>2 DEF Perform, Cleared, TypeOK
  <2>4. FirstAsAsked'
    <3> SUFFICES ASSUME object' = "first" PROVE request' = Asked(a, calls')
      BY <2>2 DEF FirstAsAsked, Asked, Header, Action, PostData, Signed
    <3>1. curl = FreshCurl
      BY <1>4 DEF Perform, FreshIsDefault
    <3> QED BY <2>1, <2>2, <3>1, DefaultSends
  <2>5. OwnSignature'
    <3> SUFFICES ASSUME Signed(a)
                 PROVE  /\ request'.header = Header(a, calls')
                        /\ PostData(a, calls') # 0 => request'.body = request'.header.body
      BY <2>2 DEF OwnSignature, Header, Action, PostData, Signed
    <3> QED BY <2>1, <2>2, SignedSends
  <2>6. FreshIsDefault'
    BY <1>4 DEF Perform, FreshIsDefault
  <2> QED BY <2>3, <2>4, <2>5, <2>6
<1>5. CASE OnMessage
  <2>1. PICK p \in 0 .. 2 : result' = Append(result, [call |-> calls, part |-> p])
    BY <1>5 DEF OnMessage
  <2>2. [call |-> calls, part |-> p] \in Piece
    BY DEF TypeOK, Piece
  <2>3. result' \in Seq(Piece)
    BY <2>1, <2>2 DEF TypeOK
  <2>4. TypeOK'
    BY <1>5, <2>3 DEF OnMessage, TypeOK
  <2> QED BY <1>5, <2>4 DEF OnMessage, FreshIsDefault, FirstAsAsked, OwnSignature
<1>6. CASE Return
  <2>1. Parsed \in 0 .. MaxCalls
    BY BoundAssumption DEF Parsed, TypeOK
  <2>2. TypeOK'
    BY <1>6, <2>1 DEF Return, TypeOK
  <2> QED BY <1>6, <2>2 DEF Return, FreshIsDefault, FirstAsAsked, OwnSignature
<1>7. CASE UNCHANGED vars
  BY <1>7 DEF vars, TypeOK, FreshIsDefault, FirstAsAsked, OwnSignature, Asked, Header,
              Action, PostData, Signed
<1> QED BY <1>1, <1>2, <1>3, <1>4, <1>5, <1>6, <1>7 DEF Next

-----------------------------------------------------------------------------
\* The invariant holds in every reachable state.
THEOREM InvHolds == Spec => []Inv
BY InvInit, InvStep, PTL DEF Spec

\* BigerRestApi's fields, its handle's options and what it sends are well typed.
THEOREM RestTypeCorrect == Spec => []TypeOK
<1>1. Inv => TypeOK
  BY DEF Inv
<1> QED BY <1>1, InvHolds, PTL

\* An object made for one call, as rest_api makes them, sends what was asked.
THEOREM FirstRequest == Spec => []FirstAsAsked
<1>1. Inv => FirstAsAsked
  BY DEF Inv
<1> QED BY <1>1, InvHolds, PTL

\* A signed request is signed for its own call on a handle with any history.
THEOREM SignatureIsOwn == Spec => []OwnSignature
<1>1. Inv => OwnSignature
  BY DEF Inv
<1> QED BY <1>1, InvHolds, PTL

-----------------------------------------------------------------------------
(* Answers *)

\* While a call is in progress result_ holds pieces of that call alone.
OwnPieces ==
  /\ result \in Seq(Piece)
  /\ api # "none" => calls \in 1 .. MaxCalls /\ \A i \in 1 .. Len(result) : result[i].call = calls

\* Every step keeps the pieces of other calls out.
LEMMA OwnPiecesStep == TypeOK /\ TypeOK' /\ OwnPieces /\ [Next]_vars => OwnPieces'
<1> SUFFICES ASSUME TypeOK, TypeOK', OwnPieces, [Next]_vars PROVE OwnPieces'
  OBVIOUS
<1>1. result' \in Seq(Piece)
  BY DEF TypeOK
<1>2. CASE \E a \in Apis : Perform(a)
  <2>1. calls' \in 1 .. MaxCalls /\ Len(result') = 0
    BY <1>2, BoundAssumption DEF Perform, Called, Cleared, TypeOK
  <2> QED BY <1>1, <2>1 DEF OwnPieces
<1>3. CASE OnMessage
  <2>1. PICK p \in 0 .. 2 : result' = Append(result, [call |-> calls, part |-> p])
    BY <1>3 DEF OnMessage
  <2>2. /\ Len(result') = Len(result) + 1 /\ Len(result) \in Nat
        /\ \A i \in 1 .. Len(result) : result'[i] = result[i]
        /\ result'[Len(result) + 1] = [call |-> calls, part |-> p]
    BY <2>1 DEF TypeOK
  <2>3. \A i \in 1 .. Len(result') : i \in 1 .. Len(result) \/ i = Len(result) + 1
    BY <2>2
  <2>4. calls' = calls /\ api' = api /\ api # "none"
    BY <1>3 DEF OnMessage
  <2>5. \A i \in 1 .. Len(result') : result'[i].call = calls
    BY <2>2, <2>3, <2>4 DEF OwnPieces
  <2> QED BY <1>1, <2>4, <2>5 DEF OwnPieces
<1>4. CASE Construct \/ Destroy \/ Return \/ \E a \in Apis : Refused(a) \/ NothingSent(a)
  <2>1. CASE Return \/ Destroy \/ \E a \in Apis : Refused(a) \/ NothingSent(a)
    <3>1. api' = "none"
      BY <2>1 DEF Destroy, Return, Refused, NothingSent, Called
    <3> QED BY <1>1, <3>1 DEF OwnPieces
  <2>2. CASE Construct
    <3>1. UNCHANGED <<api, calls>> /\ Len(result') = 0
      BY <2>2 DEF Construct
    <3> QED BY <1>1, <3>1 DEF OwnPieces
  <2> QED BY <1>4, <2>1, <2>2
<1>5. CASE NewJson \/ UNCHANGED vars
  BY <1>5 DEF NewJson, vars, OwnPieces
<1> QED BY <1>2, <1>3, <1>4, <1>5 DEF Next

\* A whole answer of one's own, and nothing of others, is exactly that answer.
LEMMA AnswerIsResult ==
  ASSUME OwnPieces, api # "none", Answered
  PROVE  result = Answer(calls)
<1>1. PICK i \in 1 .. Len(result), j \in 1 .. Len(result) :
        /\ i < j /\ result[i] = Answer(calls)[1] /\ result[j] = Answer(calls)[2]
        /\ \A k \in 1 .. Len(result) : result[k].call = calls => k \in {i, j}
  BY DEF Answered
<1>2. Len(result) \in Nat /\ \A k \in 1 .. Len(result) : k = i \/ k = j
  BY <1>1 DEF OwnPieces
<1>3. 1 \in 1 .. Len(result) /\ 2 \in 1 .. Len(result) /\ Len(result) \in 1 .. Len(result)
  BY <1>1, <1>2
<1>4. i = 1 /\ j = 2 /\ Len(result) = 2
  <2>1. (1 = i \/ 1 = j) /\ (2 = i \/ 2 = j) /\ (Len(result) = i \/ Len(result) = j)
    BY <1>2, <1>3
  <2>2. i \in Nat /\ j \in Nat /\ i < j /\ j <= Len(result) /\ Len(result) \in Nat /\ i >= 1
    BY <1>1, <1>2
  <2>3. i = 1 /\ j = 2
    BY <2>1, <2>2
  <2>4. CASE Len(result) = i
    BY <2>2, <2>3, <2>4
  <2>5. CASE Len(result) = j
    BY <2>3, <2>5
  <2> QED BY <2>1, <2>3, <2>4, <2>5
<1>5. /\ Len(Answer(calls)) = 2 /\ Answer(calls) \in Seq(Piece) /\ result \in Seq(Piece)
      /\ \A k \in 1 .. 2 : result[k] = Answer(calls)[k]
  <2>1. result[1] = Answer(calls)[1] /\ result[2] = Answer(calls)[2]
    BY <1>1, <1>4
  <2>2. [call |-> calls, part |-> 1] \in Piece /\ [call |-> calls, part |-> 2] \in Piece
    BY DEF OwnPieces, Piece
  <2>3. Len(Answer(calls)) = 2 /\ Answer(calls) \in Seq(Piece)
    BY <2>2 DEF Answer
  <2> QED BY <2>1, <2>3 DEF OwnPieces
<1> QED BY <1>4, <1>5

\* Whatever the calls before it left behind, a call whose whole answer came reports
\* it: result_ is cleared before the request and parsed after it.
THEOREM AnswerIsReported == Spec => AnswerReported
<1>1. Init => OwnPieces
  BY DEF Init, OwnPieces
<1>2. Inv /\ Inv' /\ OwnPieces /\ [Next]_vars => OwnPieces'
  BY OwnPiecesStep DEF Inv
<1>3. OwnPieces /\ [Next]_vars =>
        [api # "none" /\ api' = "none" /\ Answered => json' = calls]_vars
  <2> SUFFICES ASSUME OwnPieces, [Next]_vars, api # "none", api' = "none", Answered
               PROVE  json' = calls
    OBVIOUS
  <2>1. Return
    BY DEF Next, Construct, Destroy, NewJson, Refused, NothingSent, Called, Perform, OnMessage,
           vars, Apis, Call
  <2>2. calls \in 1 .. calls
    BY BoundAssumption DEF OwnPieces
  <2>3. result = Answer(calls)
    BY AnswerIsResult
  <2>4. \A n \in 1 .. calls : result = Answer(n) => n = calls
    <3> SUFFICES ASSUME NEW n \in 1 .. calls, Answer(calls) = Answer(n) PROVE n = calls
      BY <2>3
    <3>1. Answer(n)[1].call = n /\ Answer(calls)[1].call = calls
      BY DEF Answer
    <3> QED BY <3>1
  <2>5. Parsed = calls
    BY <2>2, <2>3, <2>4 DEF Parsed
  <2> QED BY <2>1, <2>5 DEF Return
<1>4. Spec => []OwnPieces
  BY <1>1, <1>2, InvHolds, PTL DEF Spec
<1>5. Spec => [][api # "none" /\ api' = "none" /\ Answered => json' = calls]_vars
  BY <1>3, <1>4, PTL DEF Spec
<1> QED BY <1>5 DEF AnswerReported
=============================================================================
