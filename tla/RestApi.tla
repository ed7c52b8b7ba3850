------------------------------- MODULE RestApi -------------------------------
(***************************************************************************)
(* BigerRestApi: six calls over one libcurl handle.                        *)
(*                                                                         *)
(* A handle keeps its options from one call to the next, and CurlWithHead  *)
(* sets only some of them for each call.  CURLOPT_POSTFIELDS and           *)
(* CURLOPT_HTTPHEADER keep pointers: to the string of the call, dead when  *)
(* the call returns, and to a list that is never freed.  libcurl reads     *)
(* both in curl_easy_perform.                                              *)
(*                                                                         *)
(* Calls are numbered.  A text is 0 (empty) or the number of the call it   *)
(* was made for; expiry and signature are known by the number of their     *)
(* call; an answer is a document that arrives in two pieces.  The URL is   *)
(* set, and copied, by every call and is left out.                         *)
(***************************************************************************)
EXTENDS Naturals, Sequences

CONSTANTS
  MaxCalls,    \* bound of the model: calls made
  MaxPieces    \* bound of the model: pieces in result_

ASSUME BoundAssumption == MaxCalls \in Nat /\ MaxPieces \in Nat

VARIABLES
  object,    \* "none", or a BigerRestApi: "fresh", at its "first" request, or "used"
  keys,      \* its token and secret key are both set
  easy,      \* curl_easy_init gave it a handle
  curl,      \* the options of curl_ that calls change
  result,    \* result_, as the pieces received
  calls,     \* calls made so far, the number of the last one
  api,       \* the call in progress, or "none"
  request,   \* what curl_easy_perform last sent
  json       \* the caller's json_result: the number of a call answered, or 0

vars == <<object, keys, easy, curl, result, calls, api, request, json>>

\* The six calls: what each hands to Curl or to CurlWithHead, and whether it wants
\* keys and signs.  Only an order has a body.
GetAllCoins == [action |-> "GET", signed |-> FALSE, body |-> FALSE]
GetAllSymbols24hr == [action |-> "GET", signed |-> FALSE, body |-> FALSE]
GetAccount == [action |-> "GET", signed |-> TRUE, body |-> FALSE]
QueryOrder == [action |-> "GET", signed |-> TRUE, body |-> FALSE]
PutLimitOrder == [action |-> "POST", signed |-> TRUE, body |-> TRUE]
CancelOrder == [action |-> "PUT", signed |-> TRUE, body |-> FALSE]

Call == [GetAllCoins |-> GetAllCoins, GetAllSymbols24hr |-> GetAllSymbols24hr,
         GetAccount |-> GetAccount, QueryOrder |-> QueryOrder,
         PutLimitOrder |-> PutLimitOrder, CancelOrder |-> CancelOrder]

Apis == DOMAIN Call
Signed(a) == Call[a].signed
Action(a) == Call[a].action

\* The post_data of call n, a string that lives as long as the call.
PostData(a, n) == IF Call[a].body THEN n ELSE 0

\* BIGER-REQUEST-EXPIRY and -HASH of call n: the hash covers action and body.
NoHeader == [action |-> "none", body |-> 0, call |-> 0]
Header(a, n) == [action |-> Action(a), body |-> PostData(a, n), call |-> n]

NoFields == [owner |-> 0, text |-> 0]
FreshCurl == [custom |-> "none", fields |-> NoFields, header |-> NoHeader]

-----------------------------------------------------------------------------
(* CurlWithHead: the options of the handle after those of call n are set *)

\* Mutant: the first header list is kept.
HttpHeaderOnce(a, n) == IF Signed(a) /\ curl.header = NoHeader THEN Header(a, n) ELSE curl.header

HttpHeader(a, n) == IF Signed(a) THEN Header(a, n) ELSE curl.header

\* Mutant: every call names its method.
CustomAlways(a) == Action(a)

\* Mutant: PUT is forgotten.
CustomDelete(a) == IF Action(a) = "DELETE" THEN Action(a) ELSE curl.custom

CustomRequest(a) == IF Action(a) \in {"PUT", "DELETE"} THEN Action(a) ELSE curl.custom

PostFields(a, n) ==
  IF PostData(a, n) # 0 \/ Action(a) \in {"POST", "PUT", "DELETE"}
  THEN [owner |-> n, text |-> PostData(a, n)]
  ELSE curl.fields

\* curl_easy_perform in call n: a custom request goes before the POST that fields
\* imply.  What it reads from a string that is dead may be anything.
Bytes == 0 .. MaxCalls + 1
MethodOf(c) == IF c.custom # "none" THEN c.custom
               ELSE IF c.fields # NoFields THEN "POST" ELSE "GET"
FieldsRead(c, n) == IF c.fields = NoFields THEN {0}
                    ELSE IF c.fields.owner = n THEN {c.fields.text} ELSE Bytes
Sent(c, n) == {[action |-> MethodOf(c), body |-> b, header |-> c.header] : b \in FieldsRead(c, n)}

-----------------------------------------------------------------------------
(* Answers *)

Piece == [call : 0 .. MaxCalls, part : 0 .. 2]    \* part 0 is no part of a document
Answer(n) == <<[call |-> n, part |-> 1], [call |-> n, part |-> 2]>>

\* json_result after the parser saw what was received: unchanged if there is
\* nothing, or nothing that parses.
Parsed == IF \E n \in 1 .. calls : result = Answer(n)
          THEN CHOOSE n \in 1 .. calls : result = Answer(n)
          ELSE json

-----------------------------------------------------------------------------
Init ==
  /\ object = "none" /\ keys = FALSE /\ easy = FALSE
  /\ curl = FreshCurl
  /\ result = <<>>
  /\ calls = 0
  /\ api = "none"
  /\ request \in Sent(FreshCurl, 0)
  /\ json = 0

\* A constructor: with keys from the caller, who may pass empty ones, or its own.
Construct ==
  /\ object = "none"
  /\ object' = "fresh"
  /\ keys' \in BOOLEAN /\ easy' \in BOOLEAN
  /\ curl' = FreshCurl
  /\ result' = <<>>
  /\ UNCHANGED <<calls, api, request, json>>

Destroy ==
  /\ object # "none" /\ api = "none"
  /\ object' = "none"
  /\ UNCHANGED <<keys, easy, curl, result, calls, api, request, json>>

\* The caller declares a new json for its next calls.
NewJson ==
  /\ api = "none" /\ json # 0
  /\ json' = 0
  /\ UNCHANGED <<object, keys, easy, curl, result, calls, api, request>>

Called == object # "none" /\ api = "none" /\ calls < MaxCalls /\ calls' = calls + 1

\* A call that needs keys returns at once without them.
Refused(a) ==
  /\ Called
  /\ Signed(a) /\ ~keys
  /\ UNCHANGED <<object, keys, easy, curl, result, api, request, json>>

\* Mutant: what an earlier call received is kept.
Uncleared == result

\* result_.clear()
Cleared == <<>>

\* CurlWithHead without a handle receives nothing.
NothingSent(a) ==
  /\ Called
  /\ Signed(a) => keys
  /\ ~easy
  /\ result' = Cleared
  /\ UNCHANGED <<object, keys, easy, curl, api, request, json>>

\* CurlWithHead up to curl_easy_perform.
Perform(a) ==
  /\ Called
  /\ Signed(a) => keys
  /\ easy
  /\ object' = IF object = "fresh" THEN "first" ELSE "used"
  /\ result' = Cleared
  /\ curl' = [custom |-> CustomRequest(a), fields |-> PostFields(a, calls'),
              header |-> HttpHeader(a, calls')]
  /\ request' \in Sent(curl', calls')
  /\ api' = a
  /\ UNCHANGED <<keys, easy, json>>

\* libcurl hands over the next piece of the answer, or of something else.
OnMessage ==
  /\ api # "none" /\ Len(result) < MaxPieces
  /\ \E p \in 0 .. 2 : result' = Append(result, [call |-> calls, part |-> p])
  /\ UNCHANGED <<object, keys, easy, curl, calls, api, request, json>>

\* curl_easy_perform ends, in success or not: an error is only logged.
Return ==
  /\ api # "none"
  /\ api' = "none"
  /\ json' = Parsed
  /\ UNCHANGED <<object, keys, easy, curl, result, calls, request>>

Next ==
  \/ Construct \/ Destroy \/ NewJson
  \/ \E a \in Apis : Refused(a) \/ NothingSent(a) \/ Perform(a)
  \/ OnMessage \/ Return

Spec == Init /\ [][Next]_vars

-----------------------------------------------------------------------------
(* Properties *)

Headers == [action : {"none", "GET", "POST", "PUT"}, body : 0 .. MaxCalls, call : 0 .. MaxCalls]

TypeOK ==
  /\ object \in {"none", "fresh", "first", "used"}
  /\ keys \in BOOLEAN /\ easy \in BOOLEAN
  /\ curl \in [custom : {"none", "PUT", "DELETE"},
               fields : [owner : 0 .. MaxCalls, text : 0 .. MaxCalls],
               header : Headers]
  /\ result \in Seq(Piece)
  /\ calls \in 0 .. MaxCalls
  /\ api \in Apis \cup {"none"}
  /\ request \in [action : {"GET", "POST", "PUT", "DELETE"}, body : Bytes, header : Headers]
  /\ json \in 0 .. MaxCalls

\* What the caller of a asked for in call n.
Asked(a, n) == [action |-> Action(a), body |-> PostData(a, n),
                header |-> IF Signed(a) THEN Header(a, n) ELSE NoHeader]

\* Every call is sent with the method the comment above it names (the six public
\* calls, over CurlWithHead).
MethodAsDocumented == api # "none" => request.action = Action(api)

\* The first request of an object is, so a program that makes an object for each
\* call, as rest_api does, sends what it means to (CurlWithHead on a new handle).
FirstAsAsked == api # "none" /\ object = "first" => request = Asked(api, calls)

\* Whatever calls a handle has served, a signed request carries the token, expiry
\* and hash of its own call, and an order is sent with the body that was hashed
\* (SetCommonHttpHeader, GetSignData and the options of CurlWithHead).
OwnSignature ==
  api # "none" /\ Signed(api) =>
    /\ request.header = Header(api, calls)
    /\ PostData(api, calls) # 0 => request.body = request.header.body

\* What result_ holds of the call in progress is its whole answer, in order.
Answered ==
  \E i, j \in 1 .. Len(result) :
    /\ i < j /\ result[i] = Answer(calls)[1] /\ result[j] = Answer(calls)[2]
    /\ \A k \in 1 .. Len(result) : result[k].call = calls => k \in {i, j}

\* A call that received its whole answer reports it, whatever the calls before it
\* left in result_ (OnMessage, CurlWithHead, the parse in each call).
AnswerReported ==
  [][api # "none" /\ api' = "none" /\ Answered => json' = calls]_vars

\* What a call leaves in json_result is its own answer or nothing (the parse at
\* the end of each call).
ResultIsOfCall == [][api # "none" /\ api' = "none" => json' \in {0, calls}]_vars
=============================================================================
