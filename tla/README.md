# A TLA+ verification of the biger C++ SDK

The SDK is a websocket client that keeps one session to an exchange open (connect,
TLS, upgrade, read, ping, time out, reconnect), a REST client, and two command line
programs built on them. This directory models all three, the concurrent client in most
detail, and checks them with TLC. Every invariant the passing runs check, and every
action property but liveness, is also proved with TLAPS for every value of the constants.

Paths below are relative to `src/src/common/` unless they start with `src/`.

## Inventory

| Component | State | Operations | Interacts with | What makes it correct |
|---|---|---|---|---|
| `net/tcp/client.hpp` Client | `connection_`, `writing_`, `reconnect_`, the strand, the locals its coroutines hold | coroutines HandleRead (with Connect), Monitor, HandleWrite; Write, Reconnect, Stop, Close | everything below; calls the parser's OnConnected, OnClose, Parse | a Connected session is open, owned, clean at its start, closed when silent; one writer; with one thread Stop is final and ends everything; no socket leaks |
| `net/tcp/websocket/connection.hpp`, `ssl_connection.hpp` | socket, websocket stream, `last_update_` | Connect, SSLHandShake, HandShake, Read, Write, Ping, ForceClose, pong callback | asio, beast, OpenSSL | an operation pending on a closed socket ends |
| `net/tcp/session_state.hpp` | status | State, Connectable, ... | set by the strand, read by any thread | Closed is absorbing |
| `net/session_queue.hpp`, `container/data_queue.hpp` | messages, limit | Enqueue, Dequeue, Clear, CheckSize | filled by Write, drained by HandleWrite | FIFO, bounded by the limit |
| `net/address_book.hpp` | addresses, index | UseNext, Path, UseSSL, Url | Connect | the index stays in the book, every address is tried |
| `client_interface.hpp`, `src/src/bgcli`, `src/src/rest_api` | `enabled_`, `is_available_`, `stopped_`, heartbeat timer | OnConnected (posts Subscribe), Parse, IsAvailable, WaitAvailable, Stop, OnMessage | Client, timers, the main thread, signals | one Subscribe per session; nothing after Stop; the main thread gets past WaitAvailable |
| `chrono/basic_timer.hpp`, `expiry_policy.hpp`, `duration_timer.hpp` | an asio timer, recursive or not | Start, Stop, OnTimeout | io_context | a recursive timer beats until it is stopped; only Start adds to the beats |
| `biger_rest_api.cpp` | curl handle with sticky options, `result_` | Curl, CurlWithHead, six API calls | libcurl, Sign | a call sends what it was asked to send, and reports its own result |
| `utils.cpp`, `base64.hpp` | none | Sign, Encode, Decode | BigerRestApi | Decode inverts Encode |
| `config/*`, `net/url.hpp` | values read once | Parse, Validate; ParseTarget, ParseQuery, Unescape | constructors | rejects what the client cannot run with; one text has one meaning |
| `net/ssl/context/*` | an OpenSSL context | Base::Init, Client::Init | the configuration, OpenSSL | holds all that the configuration names, or there is no client |
| `log.*`, `src/src/rsatest` | library objects | set-up calls | Boost.Log, OpenSSL | no protocol of their own |

What is hard about it: coroutines that keep a local `connection` across an await while
another one replaces `connection_`; Close called by three coroutines, also twice for the
same session; functions posted by callers on other threads; timeouts that race with late
answers; operations that never end. `PROJECT.json` lists each hazard at its line.

## Modules

- `SessionState`, `AddressBook`, `DataQueue`: the small state holders, as operators on
  the value the owner keeps.
- `WsClient`: Client over a websocket Connection. The central decision is that *one
  action is one turn of the strand*: everything a coroutine does from one resumption to
  its next await, all of Close included, because ForceClose does not await. `pc[k]` is
  the await coroutine `k` is at, `loc[k]` the `connection` it holds there, `outer` the one
  that HandleRead's loop holds while it is the Connect it called that awaits, `strand` the
  queue of ready handlers. A spawned HandleWrite runs inside the turn that spawns it up
  to its first await, as `spawn` does on a strand one is already in. The network, the
  resolver, the timers and the clock only make handlers ready (`OperationSucceeds`,
  `OperationFails`, `ResolverAnswers`, `TimerFires`, `Expire`). Closing a socket makes
  the handlers of its pending operations ready with an error, in the order reader,
  writer, ping; a result already queued stays what it was. With several threads a
  resumption may reach the strand after later ones (`Overtakes`); only what is handed to
  the strand directly, posted functions and new coroutines, keeps its order. An object
  that was replaced is destroyed, and its socket closed, with the last local that holds it
  (`Released`).
- `WsSession`: what the client promises whoever is above it, with one thread: sessions
  one after the other until Stop, and in each the accepted messages, in order, each at
  most once, none of an earlier session. `WsClientSession` maps WsClient to it (what is
  pending is the queue followed by what Write has posted) and states `KeepsPromise`.
- `HandlerQueue`: what a function makes of the members of a queue it knows (`Picked`); the
  two refinement mappings use it to see the posted messages of the strand and the timer's
  completions in the io_context.
- `ClientProgram`: bgcli and rest_api, that is ClientInterface, its heartbeat timer, the
  main thread in WaitAvailable, the signals and `ioc.stop`. It does not repeat the
  client's protocol: it takes the steps of WsSession (`INSTANCE`), which `KeepsPromise`
  shows the client to implement. `ready` is the queue of the io_context, run by the one
  thread t1.
- `RestApi`: BigerRestApi as the options its curl handle keeps from one call to the
  next, `result_`, and the caller's json. A call is what it hands to CurlWithHead.
- `BasicTimer`: the timer of `chrono/`, with an owner and a handler that may start it,
  stop it or change `recursive_` at any moment; `asked` is what the owner last asked for.
  ClientProgram maps its `armed` and the timer's handlers in `ready` to it
  (`TimerAsPromised`): the heartbeat is a BasicTimer started and stopped once.
  `ExpiryPolicy`: when its waits end under ExpireAtPoint and ExpireAfter.
- `Base64`, `HostAddress`, `Url`, `Configuration`, `SslContext`: what only computes, as
  operators, beside the standards they are measured against.
- `Inputs`: the inputs of those, any number and length of them. A behaviour is about one
  of the parts (`part`): its input grows or is edited step by step, or it is BasicTimer.
- `MCWsClient`, `MCClientProgram`, `MCRestApi`, `MCData`: the instances TLC checks.
- `WsClientProofs`, `WsClientOrderProofs`, `WsClientSessionProofs`, `ClientProgramProofs`,
  `RestApiProofs`, `BasicTimerProofs`, `InputsProofs`: the theorems. `HandlerQueueProofs`:
  the lemmas about `Picked` that the two refinements share, and induction over numbers.

| WsClient | client.hpp |
|---|---|
| `HandleReadStart`, `Polled`, `ReadDone`, `ReadFails` | HandleRead |
| `StartAttempt`, `Resolved`, `Accepted`, `Secured`, `Established`, `AttemptFails`, `BackedOff` | Connect |
| `MonitorStart`, `MonitorWakes`, `Pinged`, `Judge` | Monitor, with Connection::Monitor and Ping |
| `Write`, `WritePosts`, `RunPosted` | Write: the test on the caller's thread, the post, the posted function |
| `WriteLoop`, `Wrote`, `WriteFails` | HandleWrite |
| `Close`, `ForceClosed`, `Aborts` | Close, Connection::ForceClose |

| ClientProgram | client_interface.hpp, bgcli, rest_api |
|---|---|
| `MainTests`, `MainChecks`, `MainSleeps`, `MainJoins` | WaitAvailable on the main thread: `stopped_`, then IsAvailable, each read on its own; join |
| `TimerExpires`, `RunTimer`, `OnTimeout` | the heartbeat: expiry, handler, the wait it starts again |
| `HandshakeEnds`, `RunEstablished`, `OnConnected`, `RunSubscribe` | the end of Connect (of a closed session too: its status stays, OnConnected is called), the post, Subscribe |
| `MessageRead`, `RunMessage`, `RestReturns` | Parse, OnMessage of either program, its REST calls |
| `Signalled`, `SignalReady`, `RunHarmless`, `RunTerminate` | SetSigAction and its two kinds of signal |
| `ClientTurn` | the turns of Client, as WsSession |

| BasicTimer | basic_timer.hpp |
|---|---|
| `Start`, `Stop`, `Recursive` | the owner's calls |
| `Expire` | the time has come: the wait becomes a completion |
| `OnTimeout`, `OnTimeoutStops`, `OnTimeoutStarts` | the completion of an expired wait with all its handler does, the timer's own operations included |
| `OnAborted` | the completion of a wait that a Start or Stop ended |
| `PutTimer`, `Cancel`, `Again` | SetExpireTime and async_wait; cancel; the end of OnTimeout |

| RestApi | biger_rest_api.cpp |
|---|---|
| `GetAllCoins` ... `CancelOrder` | the six calls: method, keys, body |
| `HttpHeader`, `CustomRequest`, `PostFields` | the options CurlWithHead sets for some calls only |
| `Sent` | curl_easy_perform: a custom request first, then POST if there are fields; fields of a call that has returned may read as anything |
| `Refused`, `NothingSent`, `Perform`, `OnMessage`, `Return` | a call's early return, a missing handle, the request, a piece received, the parse |

Two switches of WsClient separate what the programs do from what the class allows. `Pool`
is TRUE when several threads run the io_context and callers live on any thread: then
Write's test and its post are two steps, a stage of an attempt can succeed just before
another coroutine closes its socket, resumptions come in any order, and Stop may fall
anywhere in a turn. With one thread (the programs' `t1`) all four are impossible.
`Reconnects` is TRUE when the application calls Reconnect, which neither program does.

An operator whose comment begins with "Mutant" is not part of the model: it is a slip
somebody could make in the definition below it, and the property named with it in
`PROJECT.json` fails when it takes that definition's place.

### Abstractions and bounds

- Time: `idle` says that `last_update_` of `connection_` is older than the timeout; it
  may become so at any moment. Waits may end at any moment. So the results hold for
  every ratio of the timeouts and intervals.
- With one thread Stop runs between turns. With several it may come in the middle of one
  (`StopAmid`): it is lost if it falls between the test and the assignment of State(...)
  (`State`), and it may fall between two looks a turn takes at the status (`Look`,
  `ReadLoop`, the end of Monitor's loop). `stopped` records that Stop was called; it
  stands for no member of the program.
- `Disconnecting` never outlives a turn, so the early return of Close is unreachable; the
  proofs establish it (`NeverDisconnecting`).
- Two `Writers`: enough to show an overlap, and OneWriter says there is none.
- Messages are model values, two in `shipped`, where their order matters. `MaxBacklog`
  bounds those posted or queued at a time: two is enough for a message to wait behind
  another and for a burst after a failure; the liveness runs use one.
- Seven connections: one in use, one held by each of four coroutines, the second one of
  HandleRead, one to allocate. `threads` tells states apart up to the names of connections
  (`VIEW UpToNames`): connections are compared with each other and used as keys and
  nothing else, and which one is allocated next is a name as well. The view also leaves out
  `stopped`, which no step reads and no invariant of that run names.
- `ClientProgram`: the heartbeat finds at most one message pending (`MaxPending` 2) and
  one harmless signal comes (`MaxHarmless`); one is enough to use up the handler. A
  handshake that has ended is a completion in the queue, and the attempt is not lost
  before it runs, which is what one thread gives.
- `RestApi`: three calls (`MaxCalls`): one to leave options behind, one to inherit them,
  one to inherit from a call that did; answers come in two pieces and `result_` holds
  three, so one may arrive behind something else. The url is set by every call and left
  out; so is the TLS option that never changes.
- `Base64`: two to seven bytes, of 0, 45 and 210. With lengths 0 and 1 the encoder's
  unsigned bound wraps and its behaviour is undefined: they are outside the inputs.
- `HostAddress`: a text is scheme, host, port and what stands behind the port, the last in
  characters, since joining port and path and reading them again is what UrlMeansAddress is
  about: digits count as port, anything else but "/" is refused. Texts and new paths have
  paths with a slash, none, letters and digits; ports reach over 65535 by a digit read on.
- `Url`: targets of up to six, queries of up to seven and escapes of up to five of the
  characters their patterns tell apart: two parameters, two escapes, one cut short.
- `Configuration`: a document that starts a program with up to three fields edited;
  numbers carry what is above 32 bits apart, so that the cut to `int32_t` shows. Three
  fields are what the longest conditions relate (verification, hostname, ssl_type).
- `SslContext`: a key text is not given, PEM, locked by a password, or junk. Whether a key
  fits its certificate is OpenSSL's to say; a locked key without a password is refused.
- `ExpiryPolicy`: five handlers, shorter and longer than the interval of 3, so that one
  falls behind several points and catches up. `BasicTimer`: four completions in the queue
  (`MaxCompletions`), which is two Starts cutting waits short behind an expired one.
- An oversized message ends a session as a failed read does. Parse is posted to the
  io_context and changes nothing here.

## What the runs show

| Run | Question | Result |
|---|---|---|
| `shipped` | One thread, no Reconnect, any failure, timeout, Write and Stop: is a Connected session open (ConnectedMeansOpen), does it begin with nothing of an earlier session (FreshSession), is no message left without a writer (NoStrandedMessage), does a stale HandleWrite stay clear of the next session (NoStaleWriter), is Stop final (StopIsFinal)? Does the client implement WsSession (KeepsPromise)? | holds |
| `threads` | Several threads, Reconnect at any time: is there one writer (OneWriter), does Monitor judge the session it timed (MonitorJudgesCurrent), is Connecting owned (ConnectingOwned), does no socket outlive `connection_` and the locals of an attempt (OnlyTrackedOpen)? | holds |
| `silent_peer` | Nothing is assumed of the peer: does every attempt end (HandshakeBounded), is every address tried (EveryAddressTried)? And if writes and handshakes end somehow: is a silent session dropped (SilentPeerDroppedOnNetwork), does Stop end all coroutines (StopTerminatesOnNetwork)? | holds |
| `reconnect_race` | ConnectedMeansOpen when the application calls Reconnect | violated |
| `stuck_write` | SilentPeerDropped when a write may never end | violated |
| `queue_limit` | Is the queue within `queue_limit`? | violated |
| `program` | Is there one heartbeat (HeartbeatKept), and is it a BasicTimer's (TimerAsPromised)? One Subscribe for each session that lasts (SubscribedOnce, EachSessionSubscribed)? Silence after Stop, whatever was queued (SilentAfterStop)? Does WaitAvailable end, does SIGTERM end the program? | holds |
| `rest_api` | Is the first request of an object right, is every signature the call's own, is an answer received whole also reported? | holds |
| `rest_reused` | Is a call on a used object sent with its method? | violated |
| `rest_result` | Is what a call leaves in `json_result` its own? | violated |
| `data` | Base64 against RFC 4648 and back; does the url of an address mean it exactly if its path begins with a slash (UrlMeansAddress), do the two parsers agree on every text, refused ones too (ParsersAgree)? Targets, queries and escapes against RFC 3986; does a configuration that starts a program give WsClient what it assumes (StartsUsable), and its TLS context all it names (ContextAsConfigured)? Do a timer's waits end when its policy says (ScheduleAsDefined), does it beat until it is stopped (KeepsBeating), and does only Start add to its beats, two of them no more than one (OnlyStartAdds)? | holds |
| `shipped_config` | Does the configuration file of the repository start its program? | violated |

The six violations are findings. *Reconnect race*: Connect captured `connection`,
Monitor replaced `connection_` while the host was being resolved (nothing is open yet, so
nothing is aborted), and Connect finishes the handshake on the old object: Connected, on
a `connection_` that never opens, which neither HandleRead (it waits for Disconnected)
nor Monitor (it times open connections) will ever leave. *Stuck write*: the ping waits
for the write in progress, and the timeout is tested after the ping. *Queue limit*:
CheckSize has no caller. *Reused handle*: CURLOPT_CUSTOMREQUEST and CURLOPT_POSTFIELDS are
set for some calls and reset for none, so what follows CancelOrder is a PUT, and a GET
after PutLimitOrder is a POST whose body is a dead string. The programs make a new
object for every call; FirstAsAsked is what protects them. *Result of another call*:
OnMessage of rest_api passes one json to two calls, and a call that fails leaves it
alone, so the account is logged as the result of the order. *Shipped configuration*: it
names no certificate authority, so Client::Init adds its own root certificates, of which
it hands over `sizeof` a pointer, 8 bytes: OpenSSL finds no certificate, the constructor
throws and the program ends. ContextAsConfigured and StartsUsable are therefore about
configurations that do name an authority.

With several threads the client promises less, and the model shows what is lost. A
caller may pass the test in one session and post in the next (FreshSession), and a
handshake may succeed just before Monitor closes its socket (ConnectedMeansOpen). A Stop
between the test and the assignment of `State` is overwritten, and one between Monitor's
decision and the test of its loop lets Monitor end without Close, so that a read on a
silent peer never ends (StopIsFinal, StopTerminates). The aborted write of a replaced
connection may reach the strand after the next session has begun and close that one
(NoStaleWriter). No doc or comment of the repository promises any of these to several
threads and its programs have one, so they are premises here and not findings.

OnlyTrackedOpen allows the connection that HandleRead's loop holds for a reason: if
Reconnect replaces `connection_` while Connect resolves, the old object's socket is opened
all the same, and on a re-connect it stays open, over any number of further rounds, until
Connect returns.

StopTerminates needs `NetworkEnds`: when Stop comes while
Connect resolves, Monitor ends before the socket opens and nobody bounds the handshake
that follows.

### Fairness

`Scheduling` is what an io_context that keeps running gives: ready handlers run, timers
fire, the resolver answers (it has its own timeout), an operation on a socket or stream
that cannot carry it fails, time passes. The ping has strong fairness: it competes with
writes for the stream and gets it when one ends. `NetworkEnds` says that writes, connect
and handshakes end, one way or the other; it is no part of the specification but the
premise of the two properties whose names end in OnNetwork. Reads are never fair: the
peer may be silent.

ClientProgram: both threads run, the timer expires, and an async_wait on the signal set
notices a signal (strong fairness: the set waits only some of the time). That a REST call
returns is an assumption about the server: no timeout is set on the handle, t1 makes the
call, and while it lasts neither SIGTERM nor a ping is handled. Handshakes and messages
are not fair.

## What is proved

`WsClientProofs` proves, for every set of connections and messages, every book, both
values of each switch:

- `Invariance`: `Spec => []IInv`, and from it `TypeCorrect`, `SingleWriter`,
  `ConnectingHasOwner`, `NoSocketLeak` and `MonitorNeverMisjudges`;
- `StopFinal`: with one thread, the action property StopIsFinal. `StopRecorded` is its
  invariant: stopped means Closed. With several threads it fails, as said above.

None of the first is inductive alone. MonitorJudgesCurrent fails in the induction at
`Resolved`, which opens a socket: one must know that the attempt is not on the connection
Monitor still pings. `PingOfSession` says so; it needs that a ping of the current session
excludes an attempt, which needs `ConnectedIsRead`; and for a new connection to be none
that is still held, `Holds` and the lemma `NewConnFresh`, which is where the allocator
assumption is used. OnlyTrackedOpen needs of `Holds` that HandleRead has a second
connection only during an attempt, and of each place where a local ends that the socket of
what it held is closed unless the other one holds it (`ReleasedTyped`). Each kind of move
(Await, Close, ReadLoop, StartAttempt, WriteLoop, Judge) has a lemma that it keeps IInv,
and `InvStep` puts the actions together.

`WsClientOrderProofs` proves what rests on the order of the strand, again for every value
of the constants:

- `StaleWriterHarmless` (NoStaleWriter), with one thread, and Reconnect at any time, which
  `shipped` does not have.
  `OInv` adds to IInv that a coroutine is queued once (`ResumedOnce`), that an open
  Connected session is being read (`OpenIsRead`) and `WriterOfSession`: a writer is on the
  open session, or is queued ahead of HandleRead's next poll. For Close aborts reader and
  writer together, the reader wakes first but only to poll again, and a poll is
  queued anew behind the writer. With several threads that order is not kept.
- `AvailableMeansOpen`, `NothingStranded` and `SessionsStartClean` (ConnectedMeansOpen,
  NoStrandedMessage, FreshSession) with one thread and no Reconnect, from `AInv`. Its core
  is `AttemptOfConnection`: a stage that has succeeded runs before anything else, so no
  Close can come between, and an attempt is one of `connection_` or is about to fail.
  `PostsOfSession` does for posted messages what WriterOfSession does for writers,
  `ConnectingClear` and `FreshConnection` carry the Clear and the closed socket an
  attempt begins with up to its end. The premise is not a convenience: `reconnect_race`
  shows ConnectedMeansOpen false without it, and the note on `Pool` above the others.

`WsClientSessionProofs` proves from AInv that with one thread and no Reconnect WsClient
implements WsSession (`ClientKeepsPromise`). A turn that closes is Lose, or Discard once
stopped, since the aborted handlers are no posts and what was posted is a suffix of what
was pending; an attempt is Attempt and a handshake Establish because nothing is posted
then (`NoPostAtStart`) or queued (`ConnectingClear`); a HandleWrite that goes on is
Transmit, also when the posted function itself starts it; Write is Accept; everything else
stutters. The abstract Lose needs a session that has begun, which `NotStarted` gives.

The lemmas they share are about queues (`Taking`, `Joining`: what taking the head and
appending does to "is in it", "at most once", "ahead of") and about the strand
(`StrandSteps`, `StaysQueued`, `RunsOnce`, `StaysAhead`).

`RestApiProofs` proves `RestTypeCorrect`, `FirstRequest`, `SignatureIsOwn` and
`AnswerIsReported` for any number of calls. FirstAsAsked needs that an object nobody has
called has libcurl's default options (`FreshIsDefault`); OwnSignature does not depend on
history at all, since a signed call sets the header list and, having a body, the fields
(`SignedSends`); AnswerReported needs that `result_` holds pieces of the present call
alone (`OwnPieces`), which the reset at the start of each call gives.

`ClientProgramProofs` proves `ProgramTypeCorrect`, `OneHeartbeat`, `NoSecondSubscribe` and
`SilentOnceStopped`. `PInv` adds `StopDone`, that Stop and `ioc.stop` happen in one
handler, behind which none runs, and `SubscribesInOrder`: the queue holds at most one
handshake and one Subscribe, the Subscribe ahead, so that one of an earlier session has
run before the next session begins.

`HeartbeatIsTimer` proves TimerAsPromised: the expiry is Expire, the heartbeat's handler
OnTimeout with no wait to abort (HeartbeatKept), SIGTERM is Stop, with the aborted wait
queued behind the rest, and no other handler shows. `NoTimer` covers a disabled program.
So what is proved of BasicTimer holds of the heartbeat.

`HandlerQueueProofs` computes `Picked` of an appended, a shortened and a joined queue.
`Picked` is a recursive function, so this takes induction over the length, and the
library's induction theorems, whose parameter is an operator, cannot be used: `Least` gets
a least element from the well-foundedness of `<`, which is stated without operators, and
`Induction` is about a set of numbers that holds 0 and every successor.

`BasicTimerProofs` proves `BeatsUntilStopped` and `StartsAdd`. KeepsBeating is inductive only
with the facts that a timer asked to beat is still recursive and that one wait at most is
in progress (`TInv`): otherwise an aborted wait could be the last one. `StartsAdd`
(OnlyStartAdds) counts the expired waits in the queue: aborted ones that join it do not
count (`CallsOf`), and running one that does leaves one less (`CallsBehind`), which the
wait that follows makes up for.

`InputsProofs` proves the nine invariants of `data` about what only computes, with inputs
of any number, length and value. Their inductive invariant, `InputsInv`, says what the
inputs are: data is two bytes or more, texts are sequences of the characters given, the
TLS type is an integer, delays are numbers, and an address has a protocol and a port that
its url can be read back with (`IsAddress`), whatever its path: so a path with a slash
makes an url that means the address (`PathReplaced`, from `RootedRead`), also after one
without. For the rest the work is in the lemmas about the operators:

- Each loop of the source is a recursive function over the length of its input.
  `Recursion` gives the existence of such a function from that of its step, so that the
  defining equations can be used at all, and `Induction` carries a claim along it.
- `EncodeAlways`: Encode goes by groups of three bytes, the standard by groups of six bits.
  `SextetsAre` is the arithmetic of one group, `Joined` and the last, shorter group are
  what the padding is about. `DecodeAlways` shifts the values of four characters together
  and takes three bytes out of the number again (`Shifted`, `ThreeBytes`).
- `UnescapeAlways`: the loop skips what the meaning calls inside an escape. The loop's
  `skip` after each character is related to the last "%" (`ReadSoFar`); a text that is not
  escaped has a first place where a byte that is none is read, and it is never taken back.
- `TargetAlways`: which of the four patterns has a reading depends only on where the first
  "#" and the first "?" are; by cases on their order, it has one reading.
- `QueryAlways`: the pattern and the two splits read a query by different rules. On a query
  of names and values they agree: `ModesAre` and `MatchesAlways` follow the pattern along
  the entries, `EntriesAre` the map, in which the first of a name stays (`OneMore`).
- `ByPointsAlways`, `ByIntervalsAlways`: the recurrence of a policy, in which each end
  depends on the one before, is the greatest of the ends counted from each point.
- `ContextAlways`, `StartsAlways`, `ParsersAgreeAlways`: by cases over the fields and the
  order in which they are used.

The assumptions are the named ASSUMEs: the book is not empty (its constructor throws
otherwise), the allocator always has another Connection, the switches are Boolean; data is
made of bytes, delays are natural numbers, the numbers of a configuration are integers,
there is an address to begin with, and paths are texts. UrlMeansAddress says what a caller
of UrlPath must keep to: nothing in the repository calls it, or tests what it is given.

Only model-checked: EachSessionSubscribed, WaitEnds, Terminates, HandshakeBounded,
EveryAddressTried and the two properties on the network. They are liveness under fairness,
which is beyond the prover. The six violations are TLC's too.

## Seen and not checked

- `Log(const json&)` of `config/log.hpp` parses and never calls its Validate.
- `Utils::Verify` compares the text with what `Sign` encrypted, which is the digest of
  the text; it has no caller.
- `Url::ParseQuery` accepts `a=1=2` and then drops the parameter; QueryAsStandard is about
  queries of names and values. No program of the repository uses Url's query.
- Stop called in a recursive timer's own handler does not stop it (`OnTimeoutStops`); only
  Recursive(false) does. No handler of the repository calls Stop.
- A locked key without a password makes OpenSSL ask at the terminal.
- `Connection::GracefullyClosed` is true of every error; it has no caller.
- If Start throws in a program, `t1` is destroyed while joinable.

## Plan

1. (done) `WsClient`, its proofs, `WsSession` and the refinement between them.
2. (done) `ClientProgram` over WsSession and BasicTimer, with proofs; `RestApi`, with
   proofs; the data modules.
3. (done) Proofs about the strand's order with one thread: NoStaleWriter, and without
   Reconnect ConnectedMeansOpen, FreshSession and NoStrandedMessage.
4. (done) `BasicTimer` and `ExpiryPolicy`, `SslContext`, Url's query and escapes.
5. (done) The two refinements proved: WsClient implements WsSession, the heartbeat of
   ClientProgram is a BasicTimer.
6. (done) The data modules proved for every input: `Inputs` and `InputsProofs`.
7. Left: nothing that a run checks and the prover can reach. What would say more are
   theorems about the code outside the premises above, such as which weaker promise the
   client keeps with several threads.

## Not modelled

- `log.*` and the log's configuration: output; the Validate of that configuration has no
  caller. `src/src/rsatest`: a signing sample with its own copy of `utils.cpp`.
- The server side of Connection (Accept, SetSessionControlCallback): nothing calls it.
- The hash and the RSA signature, TLS and websocket bytes, JSON: libraries, of which the
  models keep only what they report.
- The timers' destructor and interval setters, and the setter of the session timeout: the
  owners outlive the thread and nothing calls the setters.
- The catch blocks of Start and main: only the log or `sleep_for` could throw there.
