------------------------------ MODULE WsClient ------------------------------
(***************************************************************************)
(* The websocket client: net::tcp::Client over a websocket SSLConnection.  *)
(*                                                                         *)
(* Two coroutines, HandleRead and Monitor, and one HandleWrite per burst   *)
(* of messages run on one strand.  A coroutine gives the strand away only  *)
(* where it awaits, so one action here is one turn: all the code from a    *)
(* resumption to the next await.  pc[k] is where k awaits, loc[k] the      *)
(* local variable "connection" in scope there, outer the one HandleRead    *)
(* holds meanwhile if it is Connect, called by its loop, that awaits, and  *)
(* strand the handlers that are ready to run, in order.  Close never       *)
(* awaits (ForceClose is synchronous), so it is part of the turn that      *)
(* calls it.  With several threads (Pool) two things come in between: a    *)
(* Stop on another thread, at any point of a turn, and the order in which  *)
(* the threads bring resumptions to the strand.                            *)
(*                                                                         *)
(* Abstracted: message contents; the clock (Expire makes the last update   *)
(* of connection_ older than the timeout at any moment; TimerFires ends a  *)
(* wait at any moment); the bytes of the TLS and websocket layers.         *)
(***************************************************************************)
EXTENDS Sequences, FiniteSets, SessionState, AddressBook, DataQueue

CONSTANTS
  Conns,        \* Connection objects; one nobody refers to any more is reused
  NoConn,       \* an empty connection pointer
  Msgs, NoMsg,  \* what callers write, and no message
  QueueLimit,   \* queue_limit of the configuration, 0 for none
  MaxBacklog,   \* bound of the model: messages posted or queued at a time
  Monitored,    \* the session timeout is not 0
  Pool,         \* several threads run the io_context, callers are on any thread
  Reconnects    \* the application calls Reconnect

Writers == {"HandleWrite1", "HandleWrite2"}
Coroutines == {"HandleRead", "Monitor"} \cup Writers

ASSUME SwitchAssumption == {Monitored, Pool, Reconnects} \subseteq BOOLEAN
ASSUME LimitAssumption  == QueueLimit \in Nat /\ MaxBacklog \in Nat
ASSUME NoneAssumption   == NoConn \notin Conns /\ NoMsg \notin Msgs

\* There is always memory for one more Connection than the client refers to.
ASSUME AllocatorAssumption ==
  /\ Conns # {}
  /\ \A c, e \in Conns \cup {NoConn}, f \in [Coroutines -> Conns \cup {NoConn}] :
       \E d \in Conns : d # c /\ d # e /\ \A k \in Coroutines : d # f[k]

VARIABLES
  status,     \* SessionState::state_
  stopped,    \* the application has called Stop; recorded for the properties
  reconnect,  \* reconnect_
  writing,    \* writing_
  queue,      \* the MessageQueue
  conn,       \* connection_
  index,      \* AddressBook::index_
  pc,         \* where each coroutine awaits
  loc,        \* the "connection" each coroutine has in scope
  outer,      \* the "connection" of HandleRead's loop while Connect has its own
  link,       \* "closed": socket not open; "tcp": open; "ws": websocket open
  idle,       \* connection_->last_update_ is older than the session timeout
  expired,    \* Monitor's local time_diff > session_timeout_
  strand,     \* ready handlers of the strand
  caller      \* the message of a Write that has tested IsConnected, not posted

vars == <<status, stopped, reconnect, writing, queue, conn, index, pc, loc, outer, link,
          idle, expired, strand, caller>>

Stages == {"resolve", "connect", "ssl", "handshake"}
Places == {"start", "backoff", "poll", "read", "sleep", "ping", "idle", "write", "done"}
          \cup Stages
Labels == [HandleRead |-> {"start", "backoff", "poll", "read", "done"} \cup Stages,
           Monitor |-> {"start", "sleep", "ping", "done"},
           HandleWrite1 |-> {"idle", "write"},
           HandleWrite2 |-> {"idle", "write"}]

\* What the strand holds: resumptions of coroutines, and functions posted by Write.
Handlers == [co : Coroutines, ok : BOOLEAN, msg : {NoMsg}]
            \cup [co : {"post"}, ok : {TRUE}, msg : Msgs]
Ready(k, ok) == [co |-> k, ok |-> ok, msg |-> NoMsg]
Posted(m) == [co |-> "post", ok |-> TRUE, msg |-> m]

-----------------------------------------------------------------------------
(* Sockets and pending operations *)

Open(c) == link[c] # "closed"

Queued(k) == \E i \in 1 .. Len(strand) : strand[i].co = k

SocketWaits == {"connect", "ssl", "handshake", "read", "write", "ping"}
OnSocket(k) == pc[k] \in SocketWaits /\ ~Queued(k)

\* What the operation k awaits needs of the link.
Needs(k) == IF pc[k] \in {"connect", "ssl", "handshake"} THEN {"tcp", "ws"} ELSE {"ws"}
Viable(k) == OnSocket(k) /\ link[loc[k]] \in Needs(k)

\* Closing the socket of c completes k's operation on it with an error.
Abort(k, c) == IF OnSocket(k) /\ loc[k] = c /\ Open(c)
               THEN <<Ready(k, FALSE)>> ELSE <<>>
\* Mutant: a pending write survives the close of its socket.
AbortsReader(c) == Abort("HandleRead", c) \o Abort("Monitor", c)

Aborts(c) == Abort("HandleRead", c) \o Abort("HandleWrite1", c)
             \o Abort("HandleWrite2", c) \o Abort("Monitor", c)

Referred == {conn, outer} \cup {loc[k] : k \in Coroutines}
NewConn == CHOOSE c \in Conns : c \notin Referred

\* The locals that held the connections of S are gone: one that was replaced is
\* destroyed, and its socket closed with it.
Released(S) == [c \in Conns |-> IF c \in S /\ c # conn THEN "closed" ELSE link[c]]

-----------------------------------------------------------------------------
(* What a turn is made of *)

Turn(k) == strand # <<>> /\ Head(strand).co = k
Rest == Tail(strand)
Succeeded == Head(strand).ok

\* Mutant: connection_ is replaced without ForceClose.
Unclosed == link

\* ForceClose of connection_: its socket is closed; another stays as it is.
ForceClosed == [link EXCEPT ![conn] = "closed"]

\* With several threads Stop may come in the middle of a turn, before, between or
\* after what the turn does to the status.
StopAmid(results) ==
  Pool /\ status # "Closed" /\ stopped' = TRUE /\ status' \in results

\* State(s): a Stop between its test and its assignment is overwritten.
State(s) ==
  \/ status' = SetState(status, s) /\ UNCHANGED stopped
  \/ StopAmid({s, "Closed"})

\* A turn that only looks at the status, more than once.
Look == UNCHANGED <<status, stopped>> \/ StopAmid({"Closed"})

\* Close(yield): by way of Disconnecting, the aborted handlers queued behind rest.
Close(rest) ==
  /\ State("Disconnected")
  /\ queue' = Cleared
  /\ link' = ForceClosed
  /\ conn' = NewConn
  /\ idle' = FALSE
  /\ strand' = rest \o Aborts(conn)

\* Resume k's loop at label, holding c.
Await(k, label, c) ==
  /\ pc' = [pc EXCEPT ![k] = label]
  /\ loc' = [loc EXCEPT ![k] = c]

\* The head of HandleRead's loop: leave it, read from an open session, or poll; poll
\* too if Stop comes between its two looks at the status.
ReadLoop ==
  \/ status' = "Closed" /\ Await("HandleRead", "done", NoConn)
  \/ /\ status' = "Connected" /\ link'[conn'] # "closed"
     /\ Await("HandleRead", "read", conn')
  \/ /\ status' # "Closed" /\ ~(status' = "Connected" /\ link'[conn'] # "closed")
     /\ Await("HandleRead", "poll", conn')
  \/ StopAmid({"Closed"}) /\ Await("HandleRead", "poll", conn')

\* Reading stamps last_update_.
StampOnRead == idle' = (idle /\ pc'["HandleRead"] # "read")

\* Mutant: no Clear before an attempt.
StartAttemptUncleared ==
  /\ State("Connecting")
  /\ index' = UseNext(index)
  /\ Await("HandleRead", "resolve", conn)
  /\ UNCHANGED <<queue, idle>>

\* The head of Connect's loop, entered with a status it may connect from.
StartAttempt ==
  /\ State("Connecting")
  /\ queue' = Cleared
  /\ index' = UseNext(index)
  /\ Await("HandleRead", "resolve", conn)
  /\ UNCHANGED idle

\* Connect called with this status by a HandleRead that holds o; HandleRead's loop
\* follows if it returns.
ConnectOrReturn(o) ==
  IF Connectable(status) THEN StartAttempt /\ outer' = o
  ELSE /\ UNCHANGED <<status, stopped, queue, index>>
       /\ outer' = NoConn
       /\ ReadLoop
       /\ StampOnRead

\* Mutant: HandleWrite does not mark itself at work.
WriteLoopUnmarked(w, q) ==
  /\ writing' = FALSE
  /\ IF status = "Connected" /\ Open(conn) /\ q # <<>>
     THEN queue' = Dequeued(q) /\ Await(w, "write", conn)
     ELSE queue' = q /\ Await(w, "idle", NoConn)

\* Mutant: the newest message is taken first.
WriteLoopNewest(w, q) ==
  IF status = "Connected" /\ Open(conn) /\ q # <<>>
  THEN /\ queue' = SubSeq(q, 1, Len(q) - 1)
       /\ writing' = TRUE
       /\ Await(w, "write", conn)
  ELSE /\ queue' = q
       /\ writing' = FALSE
       /\ Await(w, "idle", NoConn)

\* The head of HandleWrite's loop with q queued.
WriteLoop(w, q) ==
  IF status = "Connected" /\ Open(conn) /\ q # <<>>
  THEN /\ queue' = Dequeued(q)
       /\ writing' = TRUE
       /\ Await(w, "write", conn)
  ELSE /\ queue' = q
       /\ writing' = FALSE
       /\ Await(w, "idle", NoConn)

\* Mutants: time a connection that is not open; close only Connected sessions;
\* close only on request; leave a stopped session alone.
MustCloseUnopened(c, late) == reconnect \/ status = "Closed" \/ late
MustCloseConnected(c, late) ==
  reconnect \/ status = "Closed" \/ (status = "Connected" /\ Open(c) /\ late)
MustCloseOnRequest(c, late) == reconnect \/ status = "Closed"
MustCloseUnstopped(c, late) ==
  status # "Closed" /\ (reconnect \/ (Open(c) /\ late))

\* Monitor closes the session on request, after Stop, or if c is late.
MustClose(c, late) == reconnect \/ status = "Closed" \/ (Open(c) /\ late)

\* The end of Monitor's loop: judge connection c, then leave the loop or sleep.
Judge(c, late) ==
  /\ IF MustClose(c, late)
     THEN /\ reconnect' = FALSE
          /\ Close(Rest)
     ELSE /\ strand' = Rest
          /\ Look
          /\ UNCHANGED <<reconnect, queue, conn, idle, link>>
  /\ Await("Monitor", IF status' = "Closed" THEN "done" ELSE "sleep", NoConn)
  /\ expired' = FALSE

-----------------------------------------------------------------------------
Init ==
  /\ status = "Initialized" /\ stopped = FALSE
  /\ reconnect = FALSE
  /\ writing = FALSE
  /\ queue = <<>>
  /\ conn = CHOOSE c \in Conns : TRUE
  /\ index = InitIndex
  /\ pc = [k \in Coroutines |-> IF k \in Writers THEN "idle" ELSE "start"]
  /\ loc = [k \in Coroutines |-> NoConn] /\ outer = NoConn
  /\ link = [c \in Conns |-> "closed"]
  /\ idle = FALSE
  /\ expired = FALSE
  /\ strand = <<Ready("HandleRead", TRUE), Ready("Monitor", TRUE)>>
  /\ caller = NoMsg

(* HandleRead, with Connect *)

\* HandleRead enters Connect; its poll re-enters it once the session is Disconnected.
HandleReadStart ==
  /\ Turn("HandleRead") /\ pc["HandleRead"] = "start"
  /\ strand' = Rest
  /\ UNCHANGED <<reconnect, writing, conn, link, expired, caller>>
  /\ ConnectOrReturn(NoConn)

Polled ==
  /\ Turn("HandleRead") /\ pc["HandleRead"] = "poll"
  /\ strand' = Rest
  /\ UNCHANGED <<reconnect, writing, conn, link, expired, caller>>
  /\ IF status = "Disconnected" THEN ConnectOrReturn(loc["HandleRead"])
     ELSE /\ Look
          /\ UNCHANGED <<queue, index, outer>>
          /\ ReadLoop
          /\ StampOnRead

\* The host is resolved: async_connect opens the socket of the connection held.
Resolved ==
  /\ Turn("HandleRead") /\ pc["HandleRead"] = "resolve" /\ Succeeded
  /\ strand' = Rest
  /\ link' = [link EXCEPT ![loc["HandleRead"]] = "tcp"]
  /\ Await("HandleRead", "connect", loc["HandleRead"])
  /\ UNCHANGED <<status, stopped, reconnect, writing, queue, conn, index, outer, idle, expired,
                 caller>>

\* async_connect reports success only if the socket is still open.
Accepted ==
  /\ Turn("HandleRead") /\ pc["HandleRead"] = "connect"
  /\ Succeeded /\ Open(loc["HandleRead"])
  /\ strand' = Rest
  /\ Await("HandleRead", "ssl", loc["HandleRead"])
  /\ UNCHANGED <<status, stopped, reconnect, writing, queue, conn, index, outer, link, idle,
                 expired, caller>>

\* HandShake stamps last_update_ of the connection held.
Secured ==
  /\ Turn("HandleRead") /\ pc["HandleRead"] = "ssl" /\ Succeeded
  /\ strand' = Rest
  /\ idle' = (idle /\ loc["HandleRead"] # conn)
  /\ Await("HandleRead", "handshake", loc["HandleRead"])
  /\ UNCHANGED <<status, stopped, reconnect, writing, queue, conn, index, outer, link, expired,
                 caller>>

\* Mutant: a failed stage goes to wait without Close.
AttemptFailsUnclosed ==
  /\ Turn("HandleRead") /\ pc["HandleRead"] \in Stages /\ ~Succeeded
  /\ strand' = Rest
  /\ Await("HandleRead", "backoff", loc["HandleRead"])
  /\ UNCHANGED <<status, stopped, reconnect, writing, queue, conn, index, outer, link, idle,
                 expired, caller>>

\* A stage fails: Close(yield), which closes connection_ whichever was held, and wait.
AttemptFails ==
  /\ Turn("HandleRead") /\ pc["HandleRead"] \in Stages
  /\ ~Succeeded \/ (pc["HandleRead"] = "connect" /\ ~Open(loc["HandleRead"]))
  /\ Close(Rest)
  /\ Await("HandleRead", "backoff", loc["HandleRead"])
  /\ UNCHANGED <<reconnect, writing, index, outer, expired, caller>>

\* The upgrade is done: Connected, whichever connection was held; Connect returns.
Established ==
  /\ Turn("HandleRead") /\ pc["HandleRead"] = "handshake" /\ Succeeded
  /\ strand' = Rest
  /\ State("Connected")
  /\ link' = [Released({loc["HandleRead"], outer}) EXCEPT ![conn] =
                IF Open(conn) /\ loc["HandleRead"] = conn THEN "ws" ELSE @]
  /\ outer' = NoConn
  /\ UNCHANGED <<reconnect, writing, queue, conn, index, expired, caller>>
  /\ ReadLoop
  /\ StampOnRead

\* The reconnect interval is over: Connect lets go of its connection, which closes it
\* unless HandleRead's loop holds it too, for the next round; or both locals are gone.
BackedOff ==
  /\ Turn("HandleRead") /\ pc["HandleRead"] = "backoff"
  /\ strand' = Rest
  /\ link' = Released(IF Connectable(status) THEN {loc["HandleRead"]} \ {outer}
                      ELSE {loc["HandleRead"], outer})
  /\ UNCHANGED <<reconnect, writing, conn, expired, caller>>
  /\ ConnectOrReturn(outer)

\* A whole message is read; the parser is posted to the io_context.
ReadDone ==
  /\ Turn("HandleRead") /\ pc["HandleRead"] = "read" /\ Succeeded
  /\ strand' = Rest
  /\ Look
  /\ UNCHANGED <<reconnect, writing, queue, conn, index, outer, link, expired, caller>>
  /\ ReadLoop
  /\ StampOnRead

\* The read fails or the message is oversized.
ReadFails ==
  /\ Turn("HandleRead") /\ pc["HandleRead"] = "read" /\ ~Succeeded
  /\ Close(Rest)
  /\ UNCHANGED <<reconnect, writing, index, outer, expired, caller>>
  /\ ReadLoop

(* Monitor *)

MonitorStart ==
  /\ Turn("Monitor") /\ pc["Monitor"] = "start"
  /\ strand' = Rest
  /\ Await("Monitor", IF Monitored /\ status # "Closed" THEN "sleep" ELSE "done", NoConn)
  /\ UNCHANGED <<status, stopped, reconnect, writing, queue, conn, index, outer, link, idle,
                 expired, caller>>

\* A second has passed: time the connection, ping an open session, else judge at once.
MonitorWakes ==
  /\ Turn("Monitor") /\ pc["Monitor"] = "sleep"
  /\ IF status = "Connected" /\ link[conn] = "ws"
     THEN /\ strand' = Rest
          /\ expired' = idle
          /\ Await("Monitor", "ping", conn)
          /\ UNCHANGED <<status, stopped, reconnect, queue, conn, idle, link>>
     ELSE Judge(conn, idle)
  /\ UNCHANGED <<writing, index, outer, caller>>

\* The ping is sent, or has failed: judge what was timed before it.
Pinged ==
  /\ Turn("Monitor") /\ pc["Monitor"] = "ping"
  /\ Judge(loc["Monitor"], expired)
  /\ UNCHANGED <<writing, index, outer, caller>>

(* Write and HandleWrite *)

\* The function Write posts: enqueue, and start a HandleWrite unless one is at work.
RunPosted ==
  /\ Turn("post")
  /\ strand' = Rest
  /\ LET q == Enqueue(queue, Head(strand).msg)
         w == IF pc["HandleWrite1"] = "idle" THEN "HandleWrite1" ELSE "HandleWrite2"
     IN IF writing THEN queue' = q /\ UNCHANGED <<writing, pc, loc>>
        ELSE WriteLoop(w, q)
  /\ UNCHANGED <<status, stopped, reconnect, conn, index, outer, link, idle, expired, caller>>

\* Mutant: HandleWrite writes one message and ends.
WroteOnce(w) ==
  /\ Turn(w) /\ pc[w] = "write" /\ Succeeded
  /\ strand' = Rest
  /\ writing' = FALSE
  /\ Await(w, "idle", NoConn)
  /\ UNCHANGED <<status, stopped, reconnect, queue, conn, index, outer, link, idle, expired,
                 caller>>

\* The message is sent: HandleWrite goes on with the next.
Wrote(w) ==
  /\ Turn(w) /\ pc[w] = "write" /\ Succeeded
  /\ strand' = Rest
  /\ WriteLoop(w, queue)
  /\ UNCHANGED <<status, stopped, reconnect, conn, index, outer, link, idle, expired, caller>>

WriteFails(w) ==
  /\ Turn(w) /\ pc[w] = "write" /\ ~Succeeded
  /\ Close(Rest)
  /\ writing' = FALSE
  /\ Await(w, "idle", NoConn)
  /\ UNCHANGED <<reconnect, index, outer, expired, caller>>

HandlerTurn ==
  \/ HandleReadStart \/ Polled \/ Resolved \/ Accepted \/ Secured \/ AttemptFails
  \/ Established \/ BackedOff \/ ReadDone \/ ReadFails
  \/ MonitorStart \/ MonitorWakes \/ Pinged
  \/ RunPosted
  \/ \E w \in Writers : Wrote(w) \/ WriteFails(w)

-----------------------------------------------------------------------------
(* The io_context: timers, the resolver, the network and the clock.  It only
   makes handlers ready; with one thread an operation that succeeds runs its
   handler before anything that could close its socket. *)

Becomes(k, ok) == strand' = Append(strand, Ready(k, ok))

TimerFires(k) ==
  /\ pc[k] \in {"backoff", "poll", "sleep"} /\ ~Queued(k)
  /\ Becomes(k, TRUE)
  /\ UNCHANGED <<status, stopped, reconnect, writing, queue, conn, index, pc, loc, outer, link,
                 idle, expired, caller>>

\* The resolver answers, whatever became of the connection meanwhile.
ResolverAnswers ==
  /\ pc["HandleRead"] = "resolve" /\ ~Queued("HandleRead")
  /\ \E ok \in BOOLEAN : Becomes("HandleRead", ok)
  /\ UNCHANGED <<status, stopped, reconnect, writing, queue, conn, index, pc, loc, outer, link,
                 idle, expired, caller>>

\* A ping waits for the write in progress, which owns the stream.
WriteInProgress == \E w \in Writers : OnSocket(w)

OperationSucceeds(k) ==
  /\ Viable(k)
  /\ pc[k] = "ping" => ~WriteInProgress
  /\ pc[k] \in Stages => Pool \/ strand = <<>>
  /\ Becomes(k, TRUE)
  /\ UNCHANGED <<status, stopped, reconnect, writing, queue, conn, index, pc, loc, outer, link,
                 idle, expired, caller>>

\* The peer or the network fails an operation; a websocket stream is failed with it.
OperationFails(k) ==
  /\ OnSocket(k)
  /\ pc[k] = "ping" => ~WriteInProgress
  /\ Becomes(k, FALSE)
  /\ link' = [link EXCEPT ![loc[k]] = IF @ = "ws" THEN "tcp" ELSE @]
  /\ UNCHANGED <<status, stopped, reconnect, writing, queue, conn, index, pc, loc, outer,
                 idle, expired, caller>>

Expire ==
  /\ ~idle
  /\ idle' = TRUE
  /\ UNCHANGED <<status, stopped, reconnect, writing, queue, conn, index, pc, loc, outer, link,
                 expired, strand, caller>>

\* A pong reaches the control callback while a read is in progress.
Pong ==
  /\ pc["HandleRead"] = "read" /\ Viable("HandleRead") /\ loc["HandleRead"] = conn
  /\ idle' = FALSE
  /\ UNCHANGED <<status, stopped, reconnect, writing, queue, conn, index, pc, loc, outer, link,
                 expired, strand, caller>>

\* What is handed to the strand directly keeps its order: the functions Write posts,
\* and the start of a coroutine.
PostedToStrand(h) == h.co = "post" \/ pc[h.co] = "start"

\* A resumption comes to the strand when some thread dispatches it: with several
\* threads, after others that were ready later.
Overtakes ==
  /\ Pool
  /\ \E i \in 2 .. Len(strand) :
       /\ PostedToStrand(strand[i]) => \A j \in 1 .. i - 1 : ~PostedToStrand(strand[j])
       /\ strand' = <<strand[i]>> \o SubSeq(strand, 1, i - 1) \o SubSeq(strand, i + 1, Len(strand))
  /\ UNCHANGED <<status, stopped, reconnect, writing, queue, conn, index, pc, loc, outer, link,
                 idle, expired, caller>>

(* The application: Write, in two steps on a thread of its own; Reconnect; Stop *)

Backlog == Len(queue) + Cardinality({i \in 1 .. Len(strand) : strand[i].co = "post"})

Write(m) ==
  /\ status = "Connected" /\ caller = NoMsg /\ Backlog < MaxBacklog
  /\ IF Pool THEN caller' = m /\ UNCHANGED strand
             ELSE strand' = Append(strand, Posted(m)) /\ UNCHANGED caller
  /\ UNCHANGED <<status, stopped, reconnect, writing, queue, conn, index, pc, loc, outer, link,
                 idle, expired>>

WritePosts ==
  /\ caller # NoMsg
  /\ strand' = Append(strand, Posted(caller))
  /\ caller' = NoMsg
  /\ UNCHANGED <<status, stopped, reconnect, writing, queue, conn, index, pc, loc, outer, link,
                 idle, expired>>

Reconnect ==
  /\ Reconnects
  /\ reconnect' = TRUE
  /\ UNCHANGED <<status, stopped, writing, queue, conn, index, pc, loc, outer, link,
                 idle, expired, strand, caller>>

Stop ==
  /\ status' = SetState(status, "Closed")
  /\ stopped' = TRUE
  /\ UNCHANGED <<reconnect, writing, queue, conn, index, pc, loc, outer, link,
                 idle, expired, strand, caller>>

\* A stopped client whose coroutines have ended takes no step.
Finished ==
  /\ \A k \in Coroutines : pc[k] \in {"done", "idle"}
  /\ strand = <<>> /\ caller = NoMsg
  /\ UNCHANGED vars

IoContext ==
  \/ \E k \in Coroutines : TimerFires(k) \/ OperationSucceeds(k) \/ OperationFails(k)
  \/ ResolverAnswers
  \/ Expire
  \/ Pong
  \/ Overtakes

Application == (\E m \in Msgs : Write(m)) \/ WritePosts \/ Reconnect \/ Stop

Next == HandlerTurn \/ IoContext \/ Application \/ Finished

Spec == Init /\ [][Next]_vars

(* What the io_context guarantees: ready handlers run, waits and lookups end,
   an operation on a socket that cannot carry it ends, time passes, and a ping
   is sent unless writes stand in its way.  It promises nothing of the peer. *)
OperationDoomed(k) == OperationFails(k) /\ ~Viable(k)
PingEnds == pc["Monitor"] = "ping" /\ (OperationSucceeds("Monitor") \/ OperationFails("Monitor"))

Scheduling ==
  /\ WF_vars(HandlerTurn)
  /\ \A k \in {"HandleRead", "Monitor"} : WF_vars(TimerFires(k))
  /\ \A k \in Coroutines : WF_vars(OperationDoomed(k))
  /\ WF_vars(ResolverAnswers)
  /\ WF_vars(Expire)
  /\ WF_vars(WritePosts)
  /\ SF_vars(PingEnds)

(* A network that ends what it was asked to send and every handshake, one way or
   the other; it still may never deliver anything to read. *)
OperationEnds(k) == pc[k] # "read" /\ (OperationSucceeds(k) \/ OperationFails(k))
NetworkEnds == \A k \in {"HandleRead"} \cup Writers : WF_vars(OperationEnds(k))

FairSpec == Spec /\ Scheduling

-----------------------------------------------------------------------------
(* Properties *)

Writing(w) == pc[w] = "write"
Attempting == pc["HandleRead"] \in Stages \cup {"backoff"}

TypeOK ==
  /\ status \in Status /\ stopped \in BOOLEAN
  /\ reconnect \in BOOLEAN /\ writing \in BOOLEAN
  /\ queue \in Seq(Msgs)
  /\ conn \in Conns
  /\ index \in Index
  /\ pc \in [Coroutines -> Places]
  /\ \A k \in Coroutines : pc[k] \in Labels[k]
  /\ loc \in [Coroutines -> Conns \cup {NoConn}] /\ outer \in Conns \cup {NoConn}
  /\ link \in [Conns -> {"closed", "tcp", "ws"}]
  /\ idle \in BOOLEAN /\ expired \in BOOLEAN
  /\ strand \in Seq(Handlers)
  /\ caller \in Msgs \cup {NoMsg}

\* A session that counts as Connected, and is offered to callers as available,
\* has an open connection: the one Monitor times and HandleWrite writes to
\* (State(Connected) in Connect, Close).
ConnectedMeansOpen == status = "Connected" => Open(conn)

\* writing_ says whether a HandleWrite is at work, and there is never a second
\* one: two would interleave their async_writes on one stream (HandleWrite).
OneWriter ==
  /\ writing <=> \E w \in Writers : Writing(w)
  /\ \A v, w \in Writers : Writing(v) /\ Writing(w) => v = w

\* With one thread a HandleWrite that still awaits a write on a connection already
\* replaced wakes before the next attempt: the Close it calls on its error never hits
\* a session it does not belong to (HandleWrite, Close, the poll of HandleRead).
NoStaleWriter ==
  \A w \in Writers : Writing(w) /\ loc[w] # conn => status \in {"Disconnected", "Closed"}

\* Nothing is left behind: while Connected, a queued message has a HandleWrite
\* that will take it (the race of Write's function with the end of HandleWrite).
NoStrandedMessage == status = "Connected" /\ queue # <<>> => writing

\* The connection Monitor timed before its ping is the one its Close will
\* replace, unless that connection is closed by then and not judged.
MonitorJudgesCurrent ==
  pc["Monitor"] = "ping" /\ Open(loc["Monitor"]) => loc["Monitor"] = conn

\* While Connecting, HandleRead is at an attempt on the current connection: no
\* status is left over that nobody would ever leave (Connect, Close by Monitor).
ConnectingOwned ==
  status = "Connecting" =>
    pc["HandleRead"] \in Stages /\ loc["HandleRead"] = conn

\* Every open socket is connection_'s, or one that Connect or the HandleRead that
\* called it still holds, during an attempt: replacing connection_ leaks none (Close,
\* and the destruction of both locals).
OnlyTrackedOpen ==
  \A c \in Conns : Open(c) =>
    c = conn \/ (c \in {loc["HandleRead"], outer} /\ Attempting)

\* The queue holds no more than queue_limit messages (SessionQueue::CheckSize).
QueueWithinLimit == ~LimitExceeded(queue, QueueLimit)

\* A session begins with nothing of an earlier one: no message queued, posted or
\* being written, and no caller about to post one (Clear in Connect and Close).
FreshSession ==
  [][status # "Connected" /\ status' = "Connected" =>
       queue' = <<>> /\ caller' = NoMsg /\ ~Queued("post")' /\ ~writing']_vars

\* With one thread Stop is final: once the application has called it the status is
\* Closed whatever runs then, and no further attempt begins (Stop, SessionState.State).
StopIsFinal ==
  [][stopped =>
       /\ status' = "Closed"
       /\ pc'["HandleRead"] = "resolve" => pc["HandleRead"] = "resolve"]_vars

\* An attempt ends even if the peer never answers: Monitor bounds TCP connect,
\* TLS and websocket handshakes by the session timeout.
HandshakeBounded == status = "Connecting" ~> status # "Connecting"

\* A client that cannot connect tries every address of its book.
EveryAddressTried ==
  \A a \in Index :
    status = "Disconnected" ~>
      (status = "Connecting" /\ index = a) \/ status \in {"Connected", "Closed"}

\* A session whose peer has fallen silent does not stay Connected and idle.
SilentPeerDropped ==
  status = "Connected" /\ idle ~> status # "Connected" \/ ~idle

\* After Stop every coroutine ends, those that wait on a silent peer too
\* (Monitor closes the connection once it sees Closed, before it ends).
StopTerminates ==
  status = "Closed" ~> \A k \in Coroutines : pc[k] \in {"done", "idle"}

\* On a network that ends writes and handshakes one way or the other, Monitor does
\* drop the silent session: its ping is not held up for ever (Monitor).
SilentPeerDroppedOnNetwork == NetworkEnds => SilentPeerDropped

\* On such a network Stop ends every coroutine, a writer's too (Stop, Monitor, Close).
StopTerminatesOnNetwork == NetworkEnds => StopTerminates

-----------------------------------------------------------------------------
(* The inductive invariant: what each coroutine holds where it awaits, and how
   that relates to the status and to connection_. *)

\* A coroutine holds a connection exactly where the local is in scope; HandleRead a
\* second one only while Connect awaits.
Holds ==
  /\ \A k \in Coroutines :
       loc[k] \in Conns <=> pc[k] \in Stages \cup {"backoff", "poll", "read", "ping", "write"}
  /\ outer \in Conns => Attempting

\* Close is over by the end of the turn it is called in.
NeverDisconnecting == status # "Disconnecting"

\* A Connected session is HandleRead's business, not Connect's.
ConnectedIsRead == status = "Connected" => pc["HandleRead"] \in {"read", "poll"}

\* A ping of the current session excludes a new attempt; a ping of a replaced
\* one is on a closed connection that no attempt will open again.
PingOfSession ==
  pc["Monitor"] = "ping" =>
    IF loc["Monitor"] = conn
    THEN status \in {"Connected", "Closed"} /\ pc["HandleRead"] \in {"read", "poll", "done"}
    ELSE ~Open(loc["Monitor"]) /\ (Attempting => loc["HandleRead"] # loc["Monitor"])

\* The inductive invariant of the proofs (Client, all its coroutines).
IInv ==
  /\ TypeOK
  /\ Holds
  /\ NeverDisconnecting
  /\ ConnectingOwned
  /\ ConnectedIsRead
  /\ OnlyTrackedOpen
  /\ PingOfSession
  /\ OneWriter
=============================================================================
