--------------------------- MODULE ClientProgram ----------------------------
(***************************************************************************)
(* The command line programs bgcli and rest_api: ClientInterface and its   *)
(* heartbeat timer over the session that WsSession promises, the one       *)
(* io_context thread t1, the main thread and the process signals.          *)
(*                                                                         *)
(* ready is the io_context's queue; a handler runs to its end before the   *)
(* next one, so a REST call in OnMessage holds everything up (blocked).    *)
(* The turns of the websocket client are those of WsSession; they run on   *)
(* the same thread.  The end of a handshake is queued like any completion  *)
(* and nothing loses the attempt while it is.                              *)
(***************************************************************************)
EXTENDS HandlerQueue, SessionState

CONSTANTS
  MaxPending,    \* bound of the model: messages pending when a heartbeat is due
  MaxHarmless    \* bound of the model: signals that do not end the program

ASSUME ProgramAssumption == MaxPending \in Nat /\ MaxHarmless \in Nat

VARIABLES
  enabled,     \* enabled_ of the configuration
  main,        \* the main thread: in WaitAvailable's loop, in join, or gone
  stopped,     \* ClientImpl::stopped_
  available,   \* is_available_
  status,      \* SessionState::state_
  pending,     \* the session's messages, see WsSession
  armed,       \* heartbeat_timer_ has an async_wait in progress
  signals,     \* signals that have come and wait for an async_wait
  waiting,     \* the signal set has an async_wait in progress
  harmless,    \* how many harmless signals have come
  ready,       \* handlers queued in the io_context
  blocked,     \* t1 is in a REST call
  halted,      \* ioc.stop() was called
  subscribed   \* Subscribe calls that ran in the present session

vars == <<enabled, main, stopped, available, status, pending, armed, signals,
          waiting, harmless, ready, blocked, halted, subscribed>>

Topics == {"depth", "price", "kline"}
Messages == Topics \cup {"heartbeat"}
Session == INSTANCE WsSession WITH Msgs <- Messages

Handlers == {"timer", "aborted", "established", "subscribe", "message", "SIGTERM", "SIGHUP"}
Has(q, h) == \E i \in 1 .. Len(q) : q[i] = h
Once(q, h) == \A i, j \in 1 .. Len(q) : q[i] = h /\ q[j] = h => i = j
InReady(h) == Has(ready, h)

\* ClientInterface::IsAvailable
IsAvailable == ~enabled \/ (available /\ status = "Connected")

-----------------------------------------------------------------------------
Init ==
  /\ enabled \in BOOLEAN
  /\ main = "test"
  /\ stopped = FALSE
  /\ available = FALSE
  /\ Session!Init
  /\ armed = enabled
  /\ signals = {}
  /\ waiting = TRUE
  /\ harmless = 0
  /\ ready = <<>>
  /\ blocked = FALSE
  /\ halted = FALSE
  /\ subscribed = 0

(* The main thread: it polls plain bools, stopped_ first, then availability *)

MainTests ==
  /\ main = "test"
  /\ main' = IF stopped THEN "join" ELSE "check"

MainChecks ==
  /\ main = "check"
  /\ main' = IF IsAvailable THEN "join" ELSE "sleep"

MainSleeps == main = "sleep" /\ main' = "test"

MainJoins == main = "join" /\ halted /\ main' = "exited"

Main ==
  /\ MainTests \/ MainChecks \/ MainSleeps \/ MainJoins
  /\ UNCHANGED <<enabled, stopped, available, status, pending, armed, signals,
                 waiting, harmless, ready, blocked, halted, subscribed>>

(* What becomes ready: the timer, a signal, a message read, a handshake *)

Becomes(h) == ~halted /\ ready' = Append(ready, h)

TimerExpires ==
  /\ armed /\ Len(pending) < MaxPending
  /\ Becomes("timer")
  /\ armed' = FALSE
  /\ UNCHANGED <<enabled, main, stopped, available, status, pending, signals,
                 waiting, harmless, blocked, halted, subscribed>>

SignalReady(s) ==
  /\ waiting /\ s \in signals
  /\ Becomes(s)
  /\ waiting' = FALSE
  /\ signals' = signals \ {s}
  /\ UNCHANGED <<enabled, main, stopped, available, status, pending, armed,
                 harmless, blocked, halted, subscribed>>

MessageRead ==
  /\ status = "Connected" /\ ~blocked /\ ~InReady("message")
  /\ Becomes("message")
  /\ UNCHANGED <<enabled, main, stopped, available, status, pending, armed, signals,
                 waiting, harmless, blocked, halted, subscribed>>

HandshakeEnds ==
  /\ status = "Connecting" /\ ~InReady("established")
  /\ Becomes("established")
  /\ UNCHANGED <<enabled, main, stopped, available, status, pending, armed, signals,
                 waiting, harmless, blocked, halted, subscribed>>

\* The user or the system sends a signal.
Signalled(s) ==
  /\ s \notin signals
  /\ s = "SIGHUP" => harmless < MaxHarmless
  /\ signals' = signals \cup {s}
  /\ harmless' = IF s = "SIGHUP" THEN harmless + 1 ELSE harmless
  /\ UNCHANGED <<enabled, main, stopped, available, status, pending, armed,
                 waiting, ready, blocked, halted, subscribed>>

(* t1: turns of the websocket client *)

T1Free == ~halted /\ ~blocked

ClientTurn ==
  /\ T1Free
  /\ \/ Session!Attempt
     \/ Session!Lose /\ ~InReady("established")
     \/ Session!Transmit
  /\ UNCHANGED <<enabled, main, stopped, available, armed, signals, waiting,
                 harmless, ready, blocked, halted, subscribed>>

(* t1: handlers.  rest is what the queue holds behind the one that runs. *)

Runs(h) == T1Free /\ ready # <<>> /\ Head(ready) = h
Rest == Tail(ready)

\* Mutant: several requests go out as one combined message.
WriteCombined(ms) ==
  /\ pending' = IF status # "Connected" THEN pending
                ELSE IF Len(ms) = 1 THEN pending \o ms ELSE Append(pending, "topics")
  /\ UNCHANGED status

\* Write outside the strand: dropped unless Connected.
Write(ms) == /\ pending' = IF status = "Connected" THEN pending \o ms ELSE pending
             /\ UNCHANGED status

\* Mutant: a recursive timer runs once.
OnTimeoutOnce == armed' = armed

\* OnTimeout of a recursive timer, after its handler: wait again.
OnTimeout == armed' = TRUE

\* The heartbeat timer's handler.
RunTimer ==
  /\ Runs("timer")
  /\ Write(<<"heartbeat">>)
  /\ OnTimeout
  /\ ready' = Rest
  /\ UNCHANGED <<enabled, main, stopped, available, signals, waiting, harmless,
                 blocked, halted, subscribed>>

\* Mutants: the callback of two layers; only the first session is announced;
\* availability is forgotten.
OnConnectedTwice(rest) == available' = TRUE /\ ready' = rest \o <<"subscribe", "subscribe">>
OnConnectedFirst(rest) ==
  available' = TRUE /\ ready' = IF available THEN rest ELSE Append(rest, "subscribe")
OnConnectedQuietly(rest) == UNCHANGED available /\ ready' = Append(rest, "subscribe")

OnConnected(rest) == available' = TRUE /\ ready' = Append(rest, "subscribe")

\* The end of Connect: State(Connected), which a closed session ignores, and OnConnected.
RunEstablished ==
  /\ Runs("established")
  /\ IF status = "Closed" THEN UNCHANGED <<status, pending>> ELSE Session!Establish
  /\ OnConnected(Rest)
  /\ subscribed' = 0
  /\ UNCHANGED <<enabled, main, stopped, armed, signals, waiting, harmless,
                 blocked, halted>>

\* Subscribe writes one request for each topic.
RunSubscribe ==
  /\ Runs("subscribe")
  /\ Write(<<"depth", "price", "kline">>)
  /\ subscribed' = IF status = "Connected" THEN subscribed + 1 ELSE subscribed
  /\ ready' = Rest
  /\ UNCHANGED <<enabled, main, stopped, available, armed, signals, waiting,
                 harmless, blocked, halted>>

\* OnMessage of the two programs: whether it makes REST calls.
BgcliOnMessage == FALSE
RestApiOnMessage == ~stopped

\* Parse: pongs, subscription results and what does not parse end there; the rest
\* goes to OnMessage.
RunMessage ==
  /\ Runs("message")
  /\ blocked' \in {FALSE, BgcliOnMessage, RestApiOnMessage}
  /\ ready' = Rest
  /\ UNCHANGED <<enabled, main, stopped, available, status, pending, armed, signals,
                 waiting, harmless, halted, subscribed>>

\* GetAccount and PutLimitOrder have returned.
RestReturns ==
  /\ blocked
  /\ blocked' = FALSE
  /\ UNCHANGED <<enabled, main, stopped, available, status, pending, armed, signals,
                 waiting, harmless, ready, halted, subscribed>>

\* Mutant: the signal set is not waited for again.
SetSigActionNot == UNCHANGED waiting

SetSigAction == waiting' = TRUE

RunHarmless ==
  /\ Runs("SIGHUP")
  /\ SetSigAction
  /\ ready' = Rest
  /\ UNCHANGED <<enabled, main, stopped, available, status, pending, armed, signals,
                 harmless, blocked, halted, subscribed>>

\* Mutant: the io_context is left to run out of work.
StopIoNot == UNCHANGED halted

\* ioc.stop(): the handlers still queued never run.
StopIo == halted' = TRUE

\* The programs' action on SIGTERM: ClientImpl::Stop, which cancels the timer and
\* closes the session, then ioc.stop.
RunTerminate ==
  /\ Runs("SIGTERM")
  /\ stopped' = TRUE
  /\ armed' = FALSE
  /\ ready' = IF armed THEN Append(Rest, "aborted") ELSE Rest
  /\ Session!Stop
  /\ StopIo
  /\ UNCHANGED <<enabled, main, available, signals, waiting, harmless, blocked, subscribed>>

IoContext ==
  \/ RunTimer \/ RunEstablished \/ RunSubscribe \/ RunMessage
  \/ RunHarmless \/ RunTerminate

\* The process has ended.
Exited == main = "exited" /\ UNCHANGED vars

Next ==
  \/ Main
  \/ TimerExpires \/ MessageRead \/ HandshakeEnds
  \/ \E s \in {"SIGTERM", "SIGHUP"} : SignalReady(s) \/ Signalled(s)
  \/ ClientTurn
  \/ IoContext
  \/ RestReturns
  \/ Exited

Spec == Init /\ [][Next]_vars

\* Both threads run, timers and signals are noticed, and a REST call returns: the
\* server answers or closes the connection, since nothing else ends the call.
Fairness ==
  /\ WF_vars(Main)
  /\ WF_vars(IoContext)
  /\ WF_vars(TimerExpires)
  /\ \A s \in {"SIGTERM", "SIGHUP"} : SF_vars(SignalReady(s))
  /\ WF_vars(RestReturns)

FairSpec == Spec /\ Fairness

-----------------------------------------------------------------------------
(* Properties *)

TypeOK ==
  /\ {enabled, stopped, available, armed, waiting, blocked, halted} \subseteq BOOLEAN
  /\ main \in {"test", "check", "sleep", "join", "exited"}
  /\ status \in Status
  /\ pending \in Seq(Messages)
  /\ signals \subseteq {"SIGTERM", "SIGHUP"}
  /\ harmless \in 0 .. MaxHarmless
  /\ ready \in Seq(Handlers)
  /\ subscribed \in Nat

\* Until Stop the heartbeat never dies and never doubles: its timer either waits
\* or has its one handler queued (BasicTimer::PutTimer, OnTimeout, StartTimers).
HeartbeatKept ==
  enabled /\ ~stopped => (armed <=> ~InReady("timer")) /\ Once(ready, "timer")

\* A program told to stop is silent, whatever handlers were queued before: a heartbeat
\* that had expired neither goes out nor waits again, and a handshake that ends
\* neither announces the session nor subscribes it (ClientInterface::Stop, main).
SilentAfterStop == [][stopped => ~armed' /\ UNCHANGED <<available, pending, subscribed>>]_vars

\* A session is subscribed at most once: a Subscribe posted in one session never
\* runs in a later one (OnConnected posts it to the io_context).
SubscribedOnce == subscribed <= 1

\* Every session that lasts is subscribed, not only the first.
EachSessionSubscribed ==
  status = "Connected" /\ subscribed = 0 ~> subscribed = 1 \/ status # "Connected"

\* The main thread gets past WaitAvailable once a session lasts.
WaitEnds == <>[](status = "Connected") => <>(main = "join")

\* A SIGTERM ends the program, whatever signals came before it and wherever the
\* main thread is (SetSigAction, WaitAvailable, main).
Terminates == "SIGTERM" \in signals ~> main = "exited"

\* The timer's completions among the queued handlers.
Shown == [h \in {"timer", "aborted"} |-> IF h = "timer" THEN "expired" ELSE h]
Completions == Picked(ready, Shown)

Timer == INSTANCE BasicTimer WITH
           recursive <- TRUE,
           waits <- IF armed THEN 1 ELSE 0,
           completions <- Completions,
           asked <- IF stopped THEN "stop" ELSE IF enabled THEN "beats" ELSE "nothing"

\* The heartbeat among the program's other handlers is a recursive BasicTimer that is
\* started once and stopped once (StartTimers, Stop).
TimerAsPromised == Timer!Spec
=============================================================================
